-------------------------- MODULE MCVideoProgress --------------------------
(***************************************************************************)
(* Small instances of VideoProgress for TLC: the renditions of one video   *)
(* are interchangeable.                                                    *)
(***************************************************************************)
EXTENDS VideoProgress, TLC

Symmetry == Permutations(Renditions)
============================================================================
