------------------------------- MODULE Connection -------------------------------
(***************************************************************************)
(* One direction of a connection: the write queue and the writer           *)
(* coroutines of the MessageHandler at one end, the read loop of the one   *)
(* at the other end (csrc/msg_handler.cc).                                 *)
(*                                                                         *)
(* A message goes out in two writes, its length and its body. A coroutine  *)
(* gives up the strand at each write, and other coroutines of the handler  *)
(* run meanwhile: nothing in Send keeps a second writer from starting      *)
(* while one is at work. What orders the sends is the protocol of SecCask: *)
(* a side sends when the messages it sent before were read                 *)
(* (SendsDoNotOverlap). The other side can have read a message before the  *)
(* coroutine that wrote it runs again and pops it: a send in between       *)
(* overtakes that coroutine, and from then on nothing is promised. What    *)
(* holds as long as no send has overtaken a writer is stated below.        *)
(*                                                                         *)
(* The connection may break at any time. A write that fails returns        *)
(* without popping its message. ("bye" ends the process when it is         *)
(* written: the sender does no more, which is a behaviour of this model.)  *)
(***************************************************************************)
EXTENDS Naturals, Sequences, SequencesExt

CONSTANT MaxSends  \* bound: messages that are sent

ASSUME ConnectionAssumption == MaxSends \in Nat

VARIABLES
  sent,      \* number of messages sent; they are numbered in that order
  queue,     \* write_msgs_
  writers,   \* coroutines on network_strand_ that write, oldest first
  wire,      \* what was written to the socket and not read yet
  reading,   \* the read loop: what it reads next, or "stopped"
  half,      \* the message whose length was read last
  received,  \* messages the callback was called with
  underflow, \* front() or pop_front() of an empty deque
  overtaken, \* there was a send while a coroutine was not through
  broken     \* the connection is lost

senderVars == <<sent, queue, writers, underflow, overtaken>>
readerVars == <<reading, half, received>>
vars == <<senderVars, wire, readerVars, broken>>

(* A coroutine: where it is, the message it copied from the queue and how  *)
(* many messages it still has to send.                                     *)
Writer == [at : {"spawned", "length", "body", "written", "failed"},
           msg : Nat, toSend : Nat]
NewWriter(n) == [at |-> "spawned", msg |-> 0, toSend |-> n]

Init ==
  /\ sent = 0
  /\ queue = <<>>
  /\ writers = <<>>
  /\ wire = <<>>
  /\ reading = "length"
  /\ half = 0
  /\ received = <<>>
  /\ underflow = FALSE
  /\ overtaken = FALSE
  /\ broken = FALSE

------------------------------------------------------------------------------
(* Sending *)

(* The protocol of SecCask: all messages that were to be sent before were  *)
(* sent and read. It says nothing of the coroutine that sent the last one. *)
(* Bound: a send that overtakes is the last, for nothing is promised then. *)
MaySend ==
  /\ ~overtaken
  /\ sent < MaxSends
  /\ Len(received) = sent
  /\ \A i \in 1 .. Len(writers) : writers[i].toSend = 0

(* Ghost: the coroutines of earlier sends have not all come to their end.  *)
NoteOvertaking == overtaken' = (overtaken \/ writers # <<>>)

(* Send(msg): the message is queued and a writer spawned. *)
Send ==
  /\ MaySend
  /\ NoteOvertaking
  /\ sent' = sent + 1
  /\ queue' = Append(queue, sent')
  /\ writers' = Append(writers, NewWriter(0))
  /\ UNCHANGED <<wire, readerVars, underflow, broken>>

(* Worker::DoActionFromMsg, "execute": a coroutine is spawned that will    *)
(* send two messages, "response_manifest" and "done". Mutated form: two    *)
(* sends that do not wait for their writes.                                *)
SendTwice ==
  /\ MaySend
  /\ sent + 1 < MaxSends
  /\ NoteOvertaking
  /\ sent' = sent + 2
  /\ queue' = queue \o <<sent + 1, sent + 2>>
  /\ writers' = writers \o <<NewWriter(0), NewWriter(0)>>
  /\ UNCHANGED <<wire, readerVars, underflow, broken>>
SpawnTwoSends ==
  /\ MaySend
  /\ sent + 1 < MaxSends
  /\ NoteOvertaking
  /\ writers' = Append(writers, NewWriter(2))
  /\ UNCHANGED <<sent, queue, wire, readerVars, underflow, broken>>

(* DoWrite(yield) from its beginning to its first write: whatever is first *)
(* in the queue q is copied.                                               *)
Begins(writer, q) == [writer EXCEPT !.at = "length", !.msg = Head(q)]

BeginWrite(i) ==
  /\ writers[i].at = "spawned"
  /\ writers[i].toSend = 0
  /\ IF queue = <<>>
       THEN /\ underflow' = TRUE
            /\ writers' = RemoveAt(writers, i)
       ELSE /\ underflow' = underflow
            /\ writers' = [writers EXCEPT ![i] = Begins(@, queue)]
  /\ UNCHANGED <<sent, queue, wire, readerVars, overtaken, broken>>

(* Send(msg, yield): the message is queued in q and coroutine i of ws      *)
(* itself is the writer.                                                   *)
QueueAndWrite(i, q, ws) ==
  LET writer == [ws[i] EXCEPT !.toSend = @ - 1]
  IN  /\ sent' = sent + 1
      /\ queue' = Append(q, sent')
      /\ writers' = [ws EXCEPT ![i] = Begins(writer, queue')]

BeginTwoSends(i) ==
  /\ writers[i].at = "spawned"
  /\ writers[i].toSend > 0
  /\ QueueAndWrite(i, queue, writers)
  /\ UNCHANGED <<wire, readerVars, underflow, overtaken, broken>>

(* One of the two writes reaches the socket. *)
WritePart(i) ==
  LET part == writers[i].at
  IN  /\ ~broken
      /\ part \in {"length", "body"}
      /\ wire' = Append(wire, [part |-> part, msg |-> writers[i].msg])
      /\ writers' = [writers EXCEPT ![i].at =
                       IF part = "length" THEN "body" ELSE "written"]
      /\ UNCHANGED <<sent, queue, readerVars, underflow, overtaken, broken>>

(* The write completes with an error. *)
WriteFails(i) ==
  /\ broken
  /\ writers[i].at \in {"length", "body"}
  /\ writers' = [writers EXCEPT ![i].at = "failed"]
  /\ UNCHANGED <<sent, queue, wire, readerVars, underflow, overtaken, broken>>

(* DoWrite returns with the message still in the queue; a coroutine that   *)
(* has more to send goes on, with the message that failed.                 *)
ReturnFromWrite(i) ==
  /\ writers[i].at = "failed"
  /\ \/ /\ writers[i].toSend > 0
        /\ QueueAndWrite(i, queue, writers)
     \/ /\ writers[i].toSend = 0
        /\ writers' = RemoveAt(writers, i)
        /\ UNCHANGED <<sent, queue>>
  /\ UNCHANGED <<wire, readerVars, underflow, overtaken, broken>>

(* Both writes have completed: the message is popped, a writer is spawned  *)
(* if there is another one, and a coroutine that has more to send goes on. *)
(* Mutated forms: the next message is sent before this one is popped; a    *)
(* writer is spawned without a look at the queue.                          *)
FinishWith(i, rest, ws) ==
  /\ writers[i].at = "written"
  /\ underflow' = (underflow \/ queue = <<>>)
  /\ \/ /\ writers[i].toSend > 0
        /\ QueueAndWrite(i, rest, ws)
     \/ /\ writers[i].toSend = 0
        /\ queue' = rest
        /\ writers' = RemoveAt(ws, i)
        /\ UNCHANGED sent
  /\ UNCHANGED <<wire, readerVars, overtaken, broken>>
Popped == IF queue = <<>> THEN <<>> ELSE Tail(queue)

SendBeforePop(i) ==
  FinishWith(i, IF writers[i].toSend > 0 THEN queue ELSE Popped, writers)
SpawnAnyway(i) == FinishWith(i, Popped, Append(writers, NewWriter(0)))
FinishWrite(i) ==
  FinishWith(i, Popped, IF Popped = <<>> THEN writers
                        ELSE Append(writers, NewWriter(0)))

------------------------------------------------------------------------------
(* Reading *)

(* DoRead: the length. *)
ReadLength ==
  /\ reading = "length"
  /\ wire # <<>>
  /\ Head(wire).part = "length"
  /\ wire' = Tail(wire)
  /\ half' = Head(wire).msg
  /\ reading' = "body"
  /\ UNCHANGED <<senderVars, received, broken>>

(* The body, of that length; the callback is called. *)
ReadBody ==
  /\ reading = "body"
  /\ wire # <<>>
  /\ Head(wire) = [part |-> "body", msg |-> half]
  /\ wire' = Tail(wire)
  /\ received' = Append(received, half)
  /\ reading' = "length"
  /\ UNCHANGED <<senderVars, half, broken>>

(* Any other bytes are taken for a length or a message that they are not:  *)
(* the message cannot be parsed and the loop returns.                      *)
LoseFraming ==
  IF wire = <<>> THEN FALSE
  ELSE \/ reading = "length" /\ Head(wire).part # "length"
       \/ reading = "body" /\ Head(wire) # [part |-> "body", msg |-> half]

ReadGarbage ==
  /\ LoseFraming
  /\ reading' = "stopped"
  /\ UNCHANGED <<senderVars, wire, half, received, broken>>

(* The read completes with an error and the loop returns. *)
ReadFails ==
  /\ broken
  /\ reading # "stopped"
  /\ reading' = "stopped"
  /\ UNCHANGED <<senderVars, wire, half, received, broken>>

Read ==
  \/ ReadLength
  \/ ReadBody
  \/ ReadGarbage
  \/ ReadFails

------------------------------------------------------------------------------
(* The connection is lost: what is on the wire may still be read, or not.  *)
Break ==
  /\ ~broken
  /\ broken' = TRUE
  /\ UNCHANGED <<senderVars, wire, readerVars>>

WriterStep(i) ==
  \/ BeginWrite(i)
  \/ BeginTwoSends(i)
  \/ WritePart(i)
  \/ WriteFails(i)
  \/ ReturnFromWrite(i)
  \/ FinishWrite(i)

WriterSteps == \E i \in 1 .. Len(writers) : WriterStep(i)

Next == Send \/ SpawnTwoSends \/ WriterSteps \/ Read \/ Break

(* The strand runs the coroutines whose writes have completed, and a read  *)
(* completes when there is something to read. Nothing forces a send.       *)
Spec == Init /\ [][Next]_vars /\ WF_vars(WriterSteps) /\ WF_vars(Read)
------------------------------------------------------------------------------
(* Properties *)

(* No writer looks for a message in an empty queue, unless a send overtook *)
(* a writer: a lost connection, which leaves a message unpopped, does not  *)
(* bring it about.                                                         *)
NoUnderflow == underflow => overtaken

(* The bytes on the wire are the lengths and bodies of messages in turn,   *)
(* unless a send overtook a writer.                                        *)
FramingIsKept == LoseFraming => overtaken

(* As long as no send overtakes a writer the queue, the coroutines and the *)
(* read loop are a channel: what is delivered was sent, once and in order, *)
(* and all of it is delivered if the connection is not lost.               *)
Channel == INSTANCE Fifo
ImplementsFifo == Channel!FifoSpec
================================================================================
