---------------------------- MODULE MCC37Channel ----------------------------
(* Small instances of C37Channel for TLC. *)
EXTENDS C37Channel
=============================================================================
