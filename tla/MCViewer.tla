------------------------------ MODULE MCViewer ------------------------------
(***************************************************************************)
(* A small instance for TLC: a manifest whose levels are not in the order  *)
(* of the menu, and of the menu the rows of Auto and of one level.         *)
(***************************************************************************)
EXTENDS Viewer

MCManifest == 0 :> 360 @@ 1 :> 720
MCItems == {-1, 1}
=============================================================================
