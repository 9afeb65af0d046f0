---------------------------- MODULE MCHlsOutput ----------------------------
(***************************************************************************)
(* A small instance for TLC: a source too small for one of the renditions. *)
(***************************************************************************)
EXTENDS HlsOutput, TLC

MCSources == {[width |-> 320, height |-> 180, bitrate |-> Unknown]}

Symmetry == Permutations(Workers)
=============================================================================
