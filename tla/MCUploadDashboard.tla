------------------------- MODULE MCUploadDashboard -------------------------
(***************************************************************************)
(* Two uploads of one page for TLC, files on both sides of every limit.    *)
(***************************************************************************)
EXTENDS UploadDashboard

Symmetry == Permutations(Uploads)

MCLimits == [types |-> {"video/mp4", "video/quicktime"}, maxSize |-> 6, partSize |-> 2, maxParts |-> 2]
MCFiles == [type : {"", "video/mp4", "text/plain"}, extension : {"mp4", "mov", "txt"},
            size : {3, 5, 7}]
=============================================================================
