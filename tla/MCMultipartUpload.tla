------------------------- MODULE MCMultipartUpload -------------------------
(***************************************************************************)
(* A small upload for TLC: more parts than workers, and another client of  *)
(* the API that may complete or abort the upload of the browser.           *)
(***************************************************************************)
EXTENDS MultipartUpload

CONSTANTS PartCount, OtherComplete, OtherAbort

MCParts == 1..PartCount
MCCreates == {CreateReq}
MCCompletes == {CompleteReq} \cup OtherComplete
MCRefreshes == {RefreshReq}
MCAborts == {AbortReq} \cup OtherAbort
=============================================================================
