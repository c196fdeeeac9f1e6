------------------------------ MODULE MCUpload ------------------------------
(***************************************************************************)
(* A log of a few records and a queue that is shorter than the log, so     *)
(* that a session takes more than one request.                             *)
(***************************************************************************)
EXTENDS Upload
=============================================================================
