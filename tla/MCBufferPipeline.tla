-------------------------- MODULE MCBufferPipeline --------------------------
(* Small instances of BufferPipeline for TLC. *)
EXTENDS BufferPipeline
=============================================================================
