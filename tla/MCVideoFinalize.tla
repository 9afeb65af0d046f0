-------------------------- MODULE MCVideoFinalize --------------------------
(***************************************************************************)
(* Small instances of VideoFinalize for TLC: the renditions of one video   *)
(* are interchangeable.                                                    *)
(***************************************************************************)
EXTENDS VideoFinalize, TLC

Symmetry == Permutations(Renditions)
============================================================================
