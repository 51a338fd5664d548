--------------------------- MODULE MCDirectoryScan ---------------------------
(* Small instances of DirectoryScan for TLC. *)
EXTENDS DirectoryScan
=============================================================================
