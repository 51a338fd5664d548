------------------------------- MODULE FanOut -------------------------------
(***************************************************************************)
(* What the data plane of the gateway promises: every data buffer that     *)
(* discovery shares is seen by every service that accepts data, in the     *)
(* order in which the buffers were shared, and each service works through  *)
(* the one-second records of a buffer one after the other, from the first  *)
(* to the last, skipping none and repeating none.                          *)
(*                                                                         *)
(* This is the abstract specification.  BufferPipeline describes how the   *)
(* code does it (shared pointers, bounded queues, flow control) and is     *)
(* checked to implement it.                                                *)
(***************************************************************************)
EXTENDS Naturals, Sequences

CONSTANT Services   \* the services that accept data

VARIABLES files,     \* files[b][s]: how many records of buffer b service s is to handle
          at         \* at[s]: the buffer and the record service s will handle next

vars == <<files, at>>

Start == [file |-> 1, rec |-> 0]

Init == /\ files = <<>>
        /\ at = [s \in Services |-> Start]

\* Discovery shares one more buffer, of any length.
Share == /\ Len(files') = Len(files) + 1
         /\ files' = Append(files, files'[Len(files) + 1])
         /\ files'[Len(files) + 1] \in [Services -> Nat]
         /\ UNCHANGED at

\* Service s handles the next record of the buffer it has reached.
Deliver(s) == /\ at[s].file <= Len(files)
              /\ at[s].rec < files[at[s].file][s]
              /\ at' = [at EXCEPT ![s] = [file |-> @.file, rec |-> @.rec + 1]]
              /\ UNCHANGED files

\* Service s has handled every record of its buffer and moves to the next one.
Advance(s) == /\ at[s].file <= Len(files)
              /\ at[s].rec = files[at[s].file][s]
              /\ at' = [at EXCEPT ![s] = [file |-> @.file + 1, rec |-> 0]]
              /\ UNCHANGED files

Next == Share \/ \E s \in Services : Deliver(s) \/ Advance(s)

Spec == Init /\ [][Next]_vars
=============================================================================
