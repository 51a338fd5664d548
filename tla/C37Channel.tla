----------------------------- MODULE C37Channel -----------------------------
(***************************************************************************)
(* The TCP side of the C37.118 gateway: C37_DataChannel reads bytes into   *)
(* the fixed buffer of C37_Buffer, cuts them into messages by the length   *)
(* each message carries in its header, hands every message over and        *)
(* connects again when a read brings nothing.  All handlers run on the one *)
(* thread of the io_service.                                               *)
(*                                                                         *)
(* A byte is the message it belongs to, its place in that message and the  *)
(* length of that message; the decoded length of a frame is the one its    *)
(* header bytes carry.  The type of a message only selects who gets it     *)
(* (the reformatter, the configuration parser or nobody), so it is left    *)
(* out here; C37Reformat has the reformatter.                              *)
(***************************************************************************)
EXTENDS Integers, Sequences

CONSTANTS
  MaxBytes,   \* DEFAULT_BUFFER_LEN (1024)
  HeaderLen,  \* the bytes needed to know the type and the length of a message (4)
  MsgLens,    \* the lengths of the messages the uPMU sends
  MaxMsgs     \* bound: messages sent in one behaviour

ASSUME ChannelAssumption ==
  /\ HeaderLen \in Nat \ {0}
  /\ MaxBytes \in Nat /\ HeaderLen <= MaxBytes
  /\ MsgLens \subseteq {n \in Nat : n >= HeaderLen}
  /\ MaxMsgs \in Nat

VARIABLES
  pc,         \* the pending handler: "connecting" (connect_handler), "reading"
              \* (read_handler waits for async_read), "examining" (its loop)
  up,         \* the peer still has the connection open
  wire,       \* bytes sent and not yet read
  nextMsg,    \* the next message the uPMU sends
  firstMsg,   \* the first message of this connection
  buffer,     \* the valid bytes; validBufferBytes is its length
  bufState,   \* "unknownMsg" or "partialMsg" (completeMsg lasts only within the loop)
  msgLen,     \* msgLenBytes, meaningful in partialMsg
  delivered   \* the last message handed over

vars == <<pc, up, wire, nextMsg, firstMsg, buffer, bufState, msgLen, delivered>>

bufVars == <<buffer, bufState, msgLen, delivered>>
room    == MaxBytes - Len(buffer)

Init == /\ pc = "connecting"
        /\ up = FALSE
        /\ wire = <<>>
        /\ nextMsg = 1
        /\ firstMsg = 1
        /\ buffer = <<>>
        /\ bufState = "unknownMsg"
        /\ msgLen = 0
        /\ delivered = 0

-----------------------------------------------------------------------------
\* The uPMU and the network (external)

Bytes(m, n) == [k \in 1..n |-> [msg |-> m, k |-> k, len |-> n]]

\* The uPMU sends its next message; it sends whole messages from the first byte of a
\* connection on.
Send == /\ up
        /\ nextMsg <= MaxMsgs
        /\ Len(wire) < MaxBytes
        /\ \E n \in MsgLens : wire' = wire \o Bytes(nextMsg, n)
        /\ nextMsg' = nextMsg + 1
        /\ UNCHANGED <<pc, up, firstMsg>> /\ UNCHANGED bufVars

\* The connection is lost; only some of the bytes under way still arrive.
Drop == /\ up
        /\ up' = FALSE
        /\ \E n \in 0..Len(wire) : wire' = SubSeq(wire, 1, n)
        /\ UNCHANGED <<pc, nextMsg, firstMsg>> /\ UNCHANGED bufVars

-----------------------------------------------------------------------------
\* connect_handler

\* Connected: the first read is started.
Connected == /\ pc = "connecting"
             /\ pc' = "reading"
             /\ up' = TRUE
             /\ firstMsg' = nextMsg
             /\ UNCHANGED <<wire, nextMsg>> /\ UNCHANGED bufVars

\* Connecting failed: a new socket, and another attempt.
ConnectFailed == /\ pc = "connecting"
                 /\ UNCHANGED vars

-----------------------------------------------------------------------------
\* read_handler.  async_read ends when the buffer is full or the connection is gone.

\* Mutant of ReadFull: the space offered to the read is one byte too large.
ReadFullOverrun == /\ pc = "reading"
                   /\ Len(wire) > room
                   /\ buffer' = buffer \o SubSeq(wire, 1, room + 1)
                   /\ wire' = SubSeq(wire, room + 2, Len(wire))
                   /\ pc' = "examining"
                   /\ UNCHANGED <<up, nextMsg, firstMsg, bufState, msgLen, delivered>>

ReadFull == /\ pc = "reading"
            /\ room > 0
            /\ Len(wire) >= room
            /\ buffer' = buffer \o SubSeq(wire, 1, room)
            /\ wire' = SubSeq(wire, room + 1, Len(wire))
            /\ pc' = "examining"
            /\ UNCHANGED <<up, nextMsg, firstMsg, bufState, msgLen, delivered>>

\* The connection ended after some bytes: they are used like any others.
ReadRest == /\ pc = "reading"
            /\ ~up
            /\ wire # <<>> /\ Len(wire) < room
            /\ buffer' = buffer \o wire
            /\ wire' = <<>>
            /\ pc' = "examining"
            /\ UNCHANGED <<up, nextMsg, firstMsg, bufState, msgLen, delivered>>

\* A read that cannot bring a byte: the peer is gone, or there is no room to read into.
NothingRead == pc = "reading" /\ (room = 0 \/ (~up /\ wire = <<>>))

\* Mutant of Reconnect: the buffer is not initialised for the new connection.
ReconnectStale == /\ NothingRead
                  /\ UNCHANGED bufVars
                  /\ pc' = "connecting"
                  /\ up' = FALSE
                  /\ wire' = <<>>
                  /\ UNCHANGED <<nextMsg, firstMsg>>

\* No bytes: initialise the buffer, close the socket and connect again.
Reconnect == /\ NothingRead
             /\ buffer' = <<>>
             /\ bufState' = "unknownMsg"
             /\ msgLen' = 0
             /\ pc' = "connecting"
             /\ up' = FALSE
             /\ wire' = <<>>
             /\ UNCHANGED <<nextMsg, firstMsg, delivered>>

-----------------------------------------------------------------------------
\* examineBuffer and the loop around it

\* The length in the header at the front of the buffer.
frameLen == IF bufState = "partialMsg" THEN msgLen ELSE buffer[HeaderLen].len

HeaderKnown == bufState = "partialMsg" \/ Len(buffer) >= HeaderLen
TooLarge    == bufState = "unknownMsg" /\ HeaderKnown /\ frameLen > MaxBytes

\* Too few bytes for a header, or a message that can never fit: read on.
ExamineUnknown == /\ pc = "examining"
                  /\ ~HeaderKnown \/ TooLarge
                  /\ pc' = "reading"
                  /\ UNCHANGED <<up, wire, nextMsg, firstMsg>> /\ UNCHANGED bufVars

\* The header is known, the message not complete: read on.
ExaminePartial == /\ pc = "examining"
                  /\ HeaderKnown /\ ~TooLarge
                  /\ Len(buffer) < frameLen
                  /\ bufState' = "partialMsg"
                  /\ msgLen' = frameLen
                  /\ pc' = "reading"
                  /\ UNCHANGED <<up, wire, nextMsg, firstMsg, buffer, delivered>>

\* Mutant of ExamineComplete: one byte too many is removed with the message.
ExamineCompleteOff == /\ pc = "examining"
                      /\ HeaderKnown /\ ~TooLarge
                      /\ Len(buffer) >= frameLen
                      /\ delivered' = buffer[1].msg
                      /\ buffer' = SubSeq(buffer, frameLen + 2, Len(buffer))
                      /\ bufState' = "unknownMsg"
                      /\ msgLen' = 0
                      /\ UNCHANGED <<pc, up, wire, nextMsg, firstMsg>>

\* Mutant of ExamineComplete: the whole buffer is discarded with the message.
ExamineCompleteAll == /\ pc = "examining"
                      /\ HeaderKnown /\ ~TooLarge
                      /\ Len(buffer) >= frameLen
                      /\ delivered' = buffer[1].msg
                      /\ buffer' = <<>>
                      /\ bufState' = "unknownMsg"
                      /\ msgLen' = 0
                      /\ UNCHANGED <<pc, up, wire, nextMsg, firstMsg>>

\* A complete message: it is handed over and removed, and the loop goes round again.
ExamineComplete == /\ pc = "examining"
                   /\ HeaderKnown /\ ~TooLarge
                   /\ Len(buffer) >= frameLen
                   /\ delivered' = buffer[1].msg
                   /\ buffer' = SubSeq(buffer, frameLen + 1, Len(buffer))
                   /\ bufState' = "unknownMsg"
                   /\ msgLen' = 0
                   /\ UNCHANGED <<pc, up, wire, nextMsg, firstMsg>>

Read    == ReadFull \/ ReadRest \/ Reconnect
Examine == ExamineUnknown \/ ExaminePartial \/ ExamineComplete

Next == Send \/ Drop \/ Connected \/ ConnectFailed \/ Read \/ Examine

Spec == Init /\ [][Next]_vars

\* The io_service runs every handler that is due.  Nothing is assumed of the uPMU.
FairSpec == Spec /\ WF_vars(Read) /\ WF_vars(Examine)

-----------------------------------------------------------------------------
\* Properties

Byte == [msg : 1..MaxMsgs, k : Nat, len : MsgLens]

\* Every variable keeps its type, and a read never overruns the buffer.
TypeOK == /\ pc \in {"connecting", "reading", "examining"}
          /\ up \in BOOLEAN
          /\ wire \in Seq(Byte)
          /\ nextMsg \in 1..(MaxMsgs + 1) /\ firstMsg \in 1..(MaxMsgs + 1)
          /\ buffer \in Seq(Byte) /\ Len(buffer) <= MaxBytes
          /\ bufState \in {"unknownMsg", "partialMsg"}
          /\ msgLen \in Nat
          /\ delivered \in 0..MaxMsgs

\* Byte c follows byte b in what the uPMU sends.
Follows(b, c) == IF b.k < b.len THEN c.msg = b.msg /\ c.k = b.k + 1 /\ c.len = b.len
                                ELSE c.msg = b.msg + 1 /\ c.k = 1

\* The message to be handed over next on this connection.
due == IF delivered >= firstMsg THEN delivered + 1 ELSE firstMsg

stream == buffer \o wire

\* Framing never slips, whatever the reads cut the stream into and however often the
\* connection is lost in the middle of a message: the buffer starts with the first byte
\* of the message that is due, continues without a hole, and a length already decoded is
\* the length of that message.  A read is never waited for with a partial message in a full
\* buffer: examineBuffer would answer 0 bytes of room, which its caller takes for complete.
Framed == /\ stream # <<>> => stream[1].k = 1 /\ stream[1].msg = due
          /\ \A i \in 1..(Len(stream) - 1) : Follows(stream[i], stream[i + 1])
          /\ bufState = "partialMsg" => Len(buffer) >= HeaderLen /\ msgLen = buffer[1].len
          /\ pc = "reading" /\ bufState = "partialMsg" => room > 0

\* Messages are handed over once each and in order, and none that arrived completely on
\* a connection is skipped.
InOrder == [][delivered' # delivered => delivered' = due]_vars

\* A full buffer never wedges the channel: a message that cannot fit is got rid of by
\* connecting again.
NeverWedged == []<>(room > 0)
=============================================================================
