---------------------------- MODULE MCC37Reformat ----------------------------
(* Small instances of C37Reformat for TLC. *)
EXTENDS C37Reformat
=============================================================================
