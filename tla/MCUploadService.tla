--------------------------- MODULE MCUploadService ---------------------------
(* Instance of UploadService for TLC. *)
EXTENDS UploadService
=============================================================================
