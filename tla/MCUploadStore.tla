---------------------------- MODULE MCUploadStore ----------------------------
(* The instance of UploadStore that TLC checks. *)
EXTENDS UploadStore

MCKeys == 1..2
=============================================================================
