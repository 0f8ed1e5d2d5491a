--------------------------- MODULE Connection_proofs ---------------------------
(***************************************************************************)
(* As long as no send overtakes a writer, a connection keeps the framing   *)
(* of its messages and is a channel, for any number of messages and        *)
(* whenever it breaks.                                                     *)
(*                                                                         *)
(* The bytes of all messages are numbered: message m has its length at     *)
(* 2m - 1 and its body at 2m. WireHolds says that the wire holds those     *)
(* between what was read and what was written, whatever the writer and the *)
(* reader are at; WriterPhase that there is at most one writer, which      *)
(* works at the one message of the queue: a send that overtakes nobody     *)
(* finds no writer, and the next message of "execute" is queued when the   *)
(* one before it has been popped. Once a write has failed nothing is       *)
(* written any more, its message is never read, and no send follows the    *)
(* coroutine that is at work (FailedPhase).                                *)
(***************************************************************************)
EXTENDS Connection, SequenceTheorems, TLAPS

(* The last part of a message that was read, and the last that was written *)
ReadUpTo == 2 * Len(received) + (IF reading = "body" THEN 1 ELSE 0)
WrittenUpTo ==
  IF writers = <<>> THEN 2 * sent
  ELSE CASE writers[1].at = "spawned" /\ writers[1].toSend = 0 -> 2 * sent - 2
         [] writers[1].at = "length" -> 2 * sent - 2
         [] writers[1].at = "body" -> 2 * sent - 1
         [] OTHER -> 2 * sent

Position(part) == IF part.part = "length" THEN 2 * part.msg - 1 ELSE 2 * part.msg

Part == [part : {"length", "body"}, msg : Nat]

ConnectionTypes ==
  /\ sent \in Nat /\ sent <= MaxSends
  /\ received \in Seq(Nat)
  /\ wire \in Seq(Part)
  /\ reading \in {"length", "body", "stopped"}
  /\ half \in Nat
  /\ broken \in BOOLEAN

(* The parts on the wire are those after the last one that was read.       *)
WireInOrder ==
  reading # "stopped" =>
    /\ \A i \in 1..Len(wire) : Position(wire[i]) = ReadUpTo + i
    /\ reading = "body" => half = Len(received) + 1

(* One coroutine at most, and what it does with the queue.                 *)
OneWriter(w) ==
  /\ w \in Writer
  /\ writers = <<w>>
  /\ \/ /\ w.at = "spawned" /\ w.toSend = 0
        /\ sent > 0 /\ queue = <<sent>>
     \/ /\ w.at = "spawned" /\ w.toSend = 2
        /\ sent + 2 <= MaxSends /\ queue = <<>>
     \/ /\ w.at \in {"length", "body", "written"}
        /\ w.msg = sent /\ w.toSend \in {0, 1}
        /\ sent + w.toSend <= MaxSends
        /\ sent > 0 /\ queue = <<sent>>
WriterPhase ==
  \/ writers = <<>> /\ queue = <<>>
  \/ \E w : OneWriter(w)
WireHolds ==
  /\ 2 * Len(received) <= WrittenUpTo
  /\ reading # "stopped" => ReadUpTo + Len(wire) = WrittenUpTo
WorkingPhase == WriterPhase /\ WireHolds

(* What is left when a write has failed.                                   *)
FailedWriter(w) ==
  /\ w \in Writer
  /\ writers = <<w>>
  /\ w.at \in {"length", "failed"}
  /\ w.toSend \in {0, 1} /\ sent + w.toSend <= MaxSends
FailedPhase ==
  /\ broken
  /\ queue \in Seq(Nat) /\ queue # <<>>
  /\ writers = <<>> \/ \E w : FailedWriter(w)
  /\ Len(received) < sent
  /\ reading # "stopped" => ReadUpTo + Len(wire) < 2 * sent

OrderlyInv ==
  /\ ConnectionTypes
  /\ underflow = FALSE
  /\ WireInOrder
  /\ WorkingPhase \/ FailedPhase

ConnectionInv == overtaken \in BOOLEAN /\ (overtaken \/ OrderlyInv)

LEMMA ConnectionInit == Init => ConnectionInv
<1> SUFFICES ASSUME Init PROVE OrderlyInv /\ overtaken \in BOOLEAN
  BY DEF ConnectionInv
<1>1. /\ Len(received) = 0 /\ Len(wire) = 0
      /\ received \in Seq(Nat) /\ wire \in Seq(Part)
  BY EmptySeq DEF Init
<1>2. ReadUpTo = 0 /\ WrittenUpTo = 0
  BY <1>1 DEF Init, ReadUpTo, WrittenUpTo
<1>3. ConnectionTypes
  <2>1. broken \in BOOLEAN /\ reading \in {"length", "body", "stopped"}
    BY DEF Init
  <2>2. sent \in Nat /\ sent <= MaxSends /\ half \in Nat
    BY ConnectionAssumption DEF Init
  <2> QED
    BY <1>1, <2>1, <2>2 DEF ConnectionTypes
<1>4. WireInOrder /\ WireHolds
  BY <1>1, <1>2 DEF Init, WireInOrder, WireHolds
<1>5. WorkingPhase /\ underflow = FALSE /\ overtaken \in BOOLEAN
  BY <1>4 DEF Init, WorkingPhase, WriterPhase
<1> QED
  BY <1>3, <1>4, <1>5 DEF OrderlyInv

(* The next part on the wire is the one the read loop waits for.           *)
LEMMA NextPart ==
  ASSUME OrderlyInv, wire # <<>>, reading # "stopped"
  PROVE  /\ reading = "length" =>
              Head(wire) = [part |-> "length", msg |-> Len(received) + 1]
         /\ reading = "body" => Head(wire) = [part |-> "body", msg |-> half]
<1>1. /\ Head(wire) = wire[1] /\ wire[1] \in Part /\ 1 \in 1..Len(wire)
      /\ Len(received) \in Nat /\ half \in Nat
  BY HeadTailProperties, EmptySeq, LenProperties, ElementOfSeq
     DEF OrderlyInv, ConnectionTypes
<1>2. /\ Position(wire[1]) = ReadUpTo + 1
      /\ reading = "body" => half = Len(received) + 1
  BY <1>1 DEF OrderlyInv, WireInOrder
<1> DEFINE p == wire[1]
<1>3. p.part \in {"length", "body"} /\ p.msg \in Nat
      /\ p = [part |-> p.part, msg |-> p.msg]
  BY <1>1 DEF Part
<1>4. CASE reading = "length"
  <2>1. Position(p) = 2 * Len(received) + 1
    BY <1>1, <1>2, <1>4 DEF ReadUpTo
  <2>2. p.part = "length" /\ p.msg = Len(received) + 1
    BY <1>1, <1>3, <2>1 DEF Position
  <2> QED
    BY <1>1, <1>3, <1>4, <2>2
<1>5. CASE reading = "body"
  <2>1. Position(p) = 2 * Len(received) + 2
    BY <1>1, <1>2, <1>5 DEF ReadUpTo
  <2>2. p.part = "body" /\ p.msg = half
    BY <1>1, <1>2, <1>3, <1>5, <2>1 DEF Position
  <2> QED
    BY <1>1, <1>3, <1>5, <2>2
<1> QED
  BY <1>1, <1>4, <1>5

(* A step that leaves the wire and its ends where they are.                *)
LEMMA WireKept ==
  ASSUME OrderlyInv, UNCHANGED <<wire, reading, half, received>>
  PROVE  /\ WireInOrder'
         /\ WireHolds /\ WrittenUpTo' = WrittenUpTo => WireHolds'
  BY DEF OrderlyInv, WireInOrder, WireHolds, ReadUpTo, Position

(* Who may send finds an idle handler: after a failed write nobody may.    *)
LEMMA SenderIsIdle ==
  ASSUME OrderlyInv, MaySend, NoteOvertaking, ~overtaken'
  PROVE  /\ writers = <<>> /\ queue = <<>> /\ WireHolds
         /\ sent \in Nat /\ sent < MaxSends /\ WrittenUpTo = 2 * sent
<1>1. writers = <<>>
  BY DEF NoteOvertaking
<1>2. ~FailedPhase /\ sent \in Nat /\ sent < MaxSends
  BY DEF MaySend, FailedPhase, OrderlyInv, ConnectionTypes
<1>3. WorkingPhase
  BY <1>2 DEF OrderlyInv
<1> QED
  BY <1>1, <1>2, <1>3 DEF WorkingPhase, WriterPhase, OneWriter, WrittenUpTo

LEMMA InvSend == ASSUME OrderlyInv, Send, ~overtaken' PROVE OrderlyInv'
<1> DEFINE w == NewWriter(0)
<1>1. /\ writers = <<>> /\ queue = <<>> /\ sent \in Nat /\ sent < MaxSends
      /\ sent' = sent + 1 /\ WireHolds
      /\ UNCHANGED <<wire, reading, half, received, underflow, broken>>
  BY SenderIsIdle DEF Send, readerVars
<1>2. queue' = <<sent'>> /\ writers' = <<w>>
  BY <1>1 DEF Send
<1>3. OneWriter(w)'
  BY <1>1, <1>2 DEF OneWriter, Writer, NewWriter
<1>4. WrittenUpTo' = WrittenUpTo
  BY <1>1, <1>2 DEF WrittenUpTo, NewWriter
<1>5. WireInOrder' /\ WireHolds'
  BY <1>1, <1>4, WireKept
<1>6. ConnectionTypes' /\ underflow' = FALSE
  BY <1>1, ConnectionAssumption DEF OrderlyInv, ConnectionTypes
<1> QED
  BY <1>3, <1>5, <1>6 DEF OrderlyInv, WorkingPhase, WriterPhase

LEMMA InvSpawnTwoSends ==
  ASSUME OrderlyInv, SpawnTwoSends, ~overtaken'
  PROVE  OrderlyInv'
<1> DEFINE w == NewWriter(2)
<1>1. /\ writers = <<>> /\ queue = <<>> /\ sent \in Nat /\ sent + 1 < MaxSends
      /\ WireHolds
      /\ UNCHANGED <<sent, queue, wire, reading, half, received, underflow, broken>>
  BY SenderIsIdle DEF SpawnTwoSends, readerVars
<1>2. writers' = <<w>>
  BY <1>1 DEF SpawnTwoSends
<1>3. OneWriter(w)'
  BY <1>1, <1>2, ConnectionAssumption DEF OneWriter, Writer, NewWriter
<1>4. WrittenUpTo' = WrittenUpTo
  BY <1>1, <1>2 DEF WrittenUpTo, NewWriter
<1>5. WireInOrder' /\ WireHolds'
  BY <1>1, <1>4, WireKept
<1>6. ConnectionTypes' /\ underflow' = FALSE
  BY <1>1 DEF OrderlyInv, ConnectionTypes
<1> QED
  BY <1>3, <1>5, <1>6 DEF OrderlyInv, WorkingPhase, WriterPhase

(* A step of a writer is one of the only writer.                           *)
LEMMA TheWriter ==
  ASSUME OrderlyInv, NEW i \in 1..Len(writers)
  PROVE  /\ i = 1
         /\ \/ WorkingPhase /\ \E w : OneWriter(w) /\ writers[1] = w
            \/ FailedPhase /\ \E w : FailedWriter(w) /\ writers[1] = w
<1>1. writers # <<>>
  BY EmptySeq
<1>2. CASE WorkingPhase
  <2>1. PICK w : OneWriter(w)
    BY <1>1, <1>2 DEF WorkingPhase, WriterPhase
  <2> QED
    BY <1>2, <2>1 DEF OneWriter
<1>3. CASE FailedPhase
  <2>1. PICK w : FailedWriter(w)
    BY <1>1, <1>3 DEF FailedPhase
  <2> QED
    BY <1>3, <2>1 DEF FailedWriter
<1> QED
  BY <1>2, <1>3 DEF OrderlyInv

(* No write has failed if the writer is not at a failed one.               *)
LEMMA TheWorkingWriter ==
  ASSUME OrderlyInv, NEW i \in 1..Len(writers),
         writers[i].at \notin {"length", "failed"} \/ ~broken
  PROVE  i = 1 /\ WireHolds /\ \E w : OneWriter(w) /\ writers[1] = w
  BY TheWriter DEF FailedPhase, FailedWriter, WorkingPhase

LEMMA WriterBegins ==
  ASSUME NEW w \in Writer, NEW q, NEW m, Head(q) = m
  PROVE  Begins(w, q) = [at |-> "length", msg |-> m, toSend |-> w.toSend]
<1>1. w = [at |-> w.at, msg |-> w.msg, toSend |-> w.toSend]
  BY DEF Writer
<1>2. DOMAIN w = {"at", "msg", "toSend"}
  BY <1>1
<1>3. Begins(w, q) = [f \in {"at", "msg", "toSend"} |->
                        IF f = "msg" THEN m
                        ELSE IF f = "at" THEN "length" ELSE w[f]]
  BY <1>1, <1>2 DEF Begins
<1> QED
  BY <1>3

LEMMA InvBeginWrite ==
  ASSUME OrderlyInv, NEW i \in 1..Len(writers), BeginWrite(i)
  PROVE  OrderlyInv'
<1>1. WireHolds /\ \E w : OneWriter(w) /\ writers[1] = w /\ i = 1
  BY TheWorkingWriter DEF BeginWrite
<1>0. PICK w : OneWriter(w) /\ writers[1] = w /\ i = 1
  BY <1>1
<1>2. /\ w \in Writer /\ writers = <<w>> /\ w.at = "spawned" /\ w.toSend = 0
      /\ sent > 0 /\ queue = <<sent>> /\ sent <= MaxSends /\ sent \in Nat
  BY <1>0 DEF BeginWrite, OneWriter, OrderlyInv, ConnectionTypes
<1> DEFINE v == [at |-> "length", msg |-> sent, toSend |-> 0]
<1>3. /\ underflow' = underflow /\ writers' = <<v>>
      /\ UNCHANGED <<sent, queue, wire, reading, half, received, broken>>
  <2>1. Head(queue) = sent /\ queue # <<>>
    BY <1>2
  <2>2. Begins(w, queue) = v
    BY <1>2, <2>1, WriterBegins
  <2>3. writers' = [writers EXCEPT ![1] = Begins(@, queue)]
    BY <1>0, <2>1 DEF BeginWrite
  <2>4. writers' = <<Begins(w, queue)>>
    BY <1>2, <2>3
  <2> QED
    BY <2>1, <2>2, <2>4 DEF BeginWrite, readerVars
<1>4. v \in Writer /\ v.at = "length" /\ v.msg = sent /\ v.toSend = 0
  BY <1>2 DEF Writer
<1>5. OneWriter(v)'
  BY <1>2, <1>3, <1>4, ConnectionAssumption DEF OneWriter
<1>6. WrittenUpTo' = WrittenUpTo
  BY <1>2, <1>3, <1>4 DEF WrittenUpTo
<1>7. WireInOrder' /\ WireHolds'
  BY <1>1, <1>3, <1>6, WireKept
<1>8. ConnectionTypes' /\ underflow' = FALSE
  BY <1>3 DEF OrderlyInv, ConnectionTypes
<1> QED
  BY <1>5, <1>7, <1>8 DEF OrderlyInv, WorkingPhase, WriterPhase

(* BeginTwoSends, and the second send of the same coroutine.               *)
LEMMA InvQueueAndWrite ==
  ASSUME OrderlyInv, NEW w \in Writer, writers = <<w>>,
         w.toSend \in {1, 2}, sent + w.toSend <= MaxSends,
         WireHolds, WrittenUpTo = 2 * sent, QueueAndWrite(1, <<>>, writers),
         UNCHANGED <<wire, reading, half, received, underflow, broken>>
  PROVE  OrderlyInv'
<1>0. PICK n : n = sent + 1
  OBVIOUS
<1> DEFINE v == [at |-> "length", msg |-> n, toSend |-> w.toSend - 1]
           x == [w EXCEPT !.toSend = @ - 1]
<1>1. /\ sent \in Nat /\ sent' = n /\ n = sent + 1 /\ queue' = <<n>>
      /\ writers' = <<v>>
  <2>1. sent \in Nat /\ sent' = n /\ queue' = <<n>>
    BY <1>0 DEF QueueAndWrite, OrderlyInv, ConnectionTypes
  <2>2. Head(queue') = n
    BY <2>1
  <2>3. x \in Writer /\ x.toSend = w.toSend - 1
    BY DEF Writer
  <2>4. Begins(x, queue') = v
    <3> HIDE DEF x
    <3> QED
      BY <2>2, <2>3, WriterBegins
  <2>5. writers[1] = w
    OBVIOUS
  <2>6. x = [writers[1] EXCEPT !.toSend = @ - 1]
    BY <2>5
  <2>7. writers' = [writers EXCEPT ![1] = Begins(x, queue')]
    BY <2>6 DEF QueueAndWrite
  <2>8. writers' = [<<w>> EXCEPT ![1] = v]
    BY <2>4, <2>7
  <2> HIDE DEF v
  <2>9. [<<w>> EXCEPT ![1] = v] = <<v>>
    OBVIOUS
  <2> QED
    BY <1>0, <2>1, <2>8, <2>9
<1>2. v \in Writer /\ v.at = "length" /\ v.msg = n /\ v.toSend = w.toSend - 1
  BY <1>1 DEF Writer
<1>3. OneWriter(v)' /\ sent' <= MaxSends
  BY <1>1, <1>2, ConnectionAssumption DEF OneWriter
<1>4. WrittenUpTo' = WrittenUpTo
  BY <1>1, <1>2 DEF WrittenUpTo
<1>5. WireInOrder' /\ WireHolds'
  BY <1>4, WireKept
<1>6. ConnectionTypes' /\ underflow' = FALSE
  BY <1>1, <1>3 DEF OrderlyInv, ConnectionTypes
<1> QED
  BY <1>3, <1>5, <1>6 DEF OrderlyInv, WorkingPhase, WriterPhase

LEMMA InvBeginTwoSends ==
  ASSUME OrderlyInv, NEW i \in 1..Len(writers), BeginTwoSends(i)
  PROVE  OrderlyInv'
<1>1. WireHolds /\ \E w : OneWriter(w) /\ writers[1] = w /\ i = 1
  BY TheWorkingWriter DEF BeginTwoSends
<1>0. PICK w : OneWriter(w) /\ writers[1] = w /\ i = 1
  BY <1>1
<1>2. /\ w \in Writer /\ writers = <<w>> /\ w.at = "spawned" /\ w.toSend = 2
      /\ queue = <<>> /\ sent + 2 <= MaxSends
  BY <1>0 DEF BeginTwoSends, OneWriter
<1>3. WrittenUpTo = 2 * sent
  BY <1>2 DEF WrittenUpTo
<1> QED
  BY <1>0, <1>1, <1>2, <1>3, InvQueueAndWrite DEF BeginTwoSends, readerVars

(* The part goes to the end of the wire.                                   *)
LEMMA InvWritePart ==
  ASSUME OrderlyInv, NEW i \in 1..Len(writers), WritePart(i)
  PROVE  OrderlyInv'
<1>0. WireHolds /\ \E w : OneWriter(w) /\ writers[1] = w /\ i = 1
  BY TheWorkingWriter DEF WritePart
<1>1. PICK w : OneWriter(w) /\ writers[1] = w /\ i = 1
  BY <1>0
<1> DEFINE p == [part |-> w.at, msg |-> w.msg]
           v == [w EXCEPT !.at = IF w.at = "length" THEN "body" ELSE "written"]
<1>2. /\ w \in Writer /\ writers = <<w>> /\ w.at \in {"length", "body"}
      /\ w.msg = sent /\ w.toSend \in {0, 1} /\ sent + w.toSend <= MaxSends
      /\ sent > 0 /\ queue = <<sent>> /\ sent \in Nat
  BY <1>1 DEF WritePart, OneWriter, OrderlyInv, ConnectionTypes
<1>3. /\ wire' = Append(wire, p) /\ writers' = <<v>>
      /\ UNCHANGED <<sent, queue, reading, half, received, underflow, broken>>
  BY <1>1, <1>2 DEF WritePart, readerVars
<1>4. /\ v \in Writer /\ v.at \in {"body", "written"} /\ v.msg = sent
      /\ v.toSend = w.toSend
      /\ v.at = IF w.at = "length" THEN "body" ELSE "written"
  BY <1>2 DEF Writer
<1>5. OneWriter(v)'
  BY <1>2, <1>3, <1>4 DEF OneWriter
<1>6. WrittenUpTo' = WrittenUpTo + 1 /\ Position(p) = WrittenUpTo + 1
  <2>1. WrittenUpTo = IF w.at = "length" THEN 2 * sent - 2 ELSE 2 * sent - 1
    BY <1>2 DEF WrittenUpTo
  <2>2. WrittenUpTo' = IF w.at = "length" THEN 2 * sent - 1 ELSE 2 * sent
    <3> HIDE DEF v
    <3>1. writers'[1] = v /\ writers' # <<>>
      BY <1>3
    <3>2. CASE w.at = "length"
      BY <1>3, <1>4, <3>1, <3>2 DEF WrittenUpTo
    <3>3. CASE w.at = "body"
      BY <1>3, <1>4, <3>1, <3>3 DEF WrittenUpTo
    <3> QED
      BY <1>2, <3>2, <3>3
  <2>3. Position(p) = IF w.at = "length" THEN 2 * sent - 1 ELSE 2 * sent
    BY <1>2 DEF Position
  <2> QED
    BY <1>2, <2>1, <2>2, <2>3
<1>7. /\ wire' \in Seq(Part) /\ Len(wire) \in Nat /\ Len(wire') = Len(wire) + 1
      /\ \A k \in 1..Len(wire) : wire'[k] = wire[k]
      /\ wire'[Len(wire) + 1] = p
  BY <1>2, <1>3, AppendProperties, LenProperties
     DEF OrderlyInv, ConnectionTypes, Part
<1>8. reading # "stopped" =>
        /\ ReadUpTo' + Len(wire') = WrittenUpTo'
        /\ \A k \in 1..Len(wire') : Position(wire'[k]) = ReadUpTo' + k
        /\ reading = "body" => half = Len(received) + 1
  <2> SUFFICES ASSUME reading # "stopped"
               PROVE  /\ ReadUpTo' + Len(wire') = WrittenUpTo'
                      /\ \A k \in 1..Len(wire') :
                           Position(wire'[k]) = ReadUpTo' + k
                      /\ reading = "body" => half = Len(received) + 1
    OBVIOUS
  <2>1. /\ ReadUpTo + Len(wire) = WrittenUpTo
        /\ \A k \in 1..Len(wire) : Position(wire[k]) = ReadUpTo + k
        /\ reading = "body" => half = Len(received) + 1
    BY <1>0 DEF OrderlyInv, WireHolds, WireInOrder
  <2>2. ReadUpTo' = ReadUpTo /\ ReadUpTo \in Nat
    BY <1>3, LenProperties DEF ReadUpTo, OrderlyInv, ConnectionTypes
  <2>3. ReadUpTo + Len(wire') = WrittenUpTo'
    BY <1>6, <1>7, <2>1, <2>2
  <2>4. ASSUME NEW k \in 1..Len(wire') PROVE Position(wire'[k]) = ReadUpTo + k
    <3>1. CASE k = Len(wire) + 1
      BY <1>6, <1>7, <2>1, <2>2, <3>1
    <3>2. CASE k # Len(wire) + 1
      <4>1. k \in 1..Len(wire)
        BY <1>7, <3>2
      <4> QED
        BY <1>7, <2>1, <4>1
    <3> QED
      BY <3>1, <3>2
  <2> QED
    BY <2>1, <2>2, <2>3, <2>4
<1>9. ConnectionTypes' /\ underflow' = FALSE
  BY <1>3, <1>7 DEF OrderlyInv, ConnectionTypes
<1>10. WireInOrder'
  BY <1>3, <1>8 DEF WireInOrder, Position
<1>11. WireHolds'
  <2>1. 2 * Len(received) <= WrittenUpTo /\ Len(received) \in Nat
    BY <1>0, LenProperties DEF WireHolds, OrderlyInv, ConnectionTypes
  <2>2. WrittenUpTo \in Nat
    BY <1>2 DEF WrittenUpTo
  <2>3. 2 * Len(received) <= WrittenUpTo'
    BY <1>6, <2>1, <2>2
  <2> QED
    BY <1>3, <1>8, <2>3 DEF WireHolds
<1> QED
  BY <1>5, <1>9, <1>10, <1>11 DEF OrderlyInv, WorkingPhase, WriterPhase

(* The first write that fails is of a message that will not be read.       *)
LEMMA InvWriteFails ==
  ASSUME OrderlyInv, NEW i \in 1..Len(writers), WriteFails(i)
  PROVE  OrderlyInv'
<1>0. PICK v : v = [writers[1] EXCEPT !.at = "failed"]
  OBVIOUS
<1>1. /\ i = 1 /\ broken /\ writers[1].at \in {"length", "body"}
      /\ writers' = [writers EXCEPT ![1].at = "failed"]
      /\ UNCHANGED <<sent, queue, wire, reading, half, received, underflow, broken>>
  BY TheWriter DEF WriteFails, readerVars
<1>2. /\ writers = <<writers[1]>> /\ writers[1] \in Writer
      /\ writers[1].toSend \in {0, 1} /\ sent + writers[1].toSend <= MaxSends
      /\ queue \in Seq(Nat) /\ queue # <<>>
      /\ Len(received) < sent
      /\ reading # "stopped" => ReadUpTo + Len(wire) < 2 * sent
  <2>1. CASE FailedPhase
    BY <1>1, <2>1 DEF FailedPhase, FailedWriter
  <2>2. CASE WorkingPhase
    <3>1. PICK w : OneWriter(w)
      <4>1. writers # <<>>
        BY EmptySeq
      <4> QED
        BY <2>2, <4>1 DEF WorkingPhase, WriterPhase
    <3>2. /\ writers = <<w>> /\ writers[1] = w /\ w \in Writer
          /\ w.at \in {"length", "body"}
          /\ w.toSend \in {0, 1} /\ sent + w.toSend <= MaxSends
          /\ queue = <<sent>> /\ sent \in Nat
      BY <1>1, <3>1 DEF OneWriter, OrderlyInv, ConnectionTypes
    <3>3. WrittenUpTo < 2 * sent /\ WrittenUpTo \in Int
      BY <3>2 DEF WrittenUpTo
    <3>4. queue \in Seq(Nat) /\ queue # <<>>
      BY <3>2
    <3>5. Len(received) < sent
      BY <2>2, <3>2, <3>3, LenProperties
         DEF WorkingPhase, WireHolds, OrderlyInv, ConnectionTypes
    <3> QED
      BY <2>2, <3>2, <3>3, <3>4, <3>5 DEF WorkingPhase, WireHolds
  <2> QED
    BY <2>1, <2>2 DEF OrderlyInv
<1>3. /\ v \in Writer /\ v.at = "failed" /\ v.toSend = writers[1].toSend
      /\ writers' = <<v>>
  BY <1>0, <1>1, <1>2 DEF Writer
<1>4. FailedWriter(v)'
  BY <1>1, <1>2, <1>3 DEF FailedWriter
<1>5. FailedPhase'
  BY <1>1, <1>2, <1>4 DEF FailedPhase, ReadUpTo
<1>6. WireInOrder'
  BY <1>1, WireKept
<1>7. ConnectionTypes' /\ underflow' = FALSE
  BY <1>1 DEF OrderlyInv, ConnectionTypes
<1> QED
  BY <1>5, <1>6, <1>7 DEF OrderlyInv

(* The message stays in the queue, and the next write will fail as well.   *)
LEMMA InvReturnFromWrite ==
  ASSUME OrderlyInv, NEW i \in 1..Len(writers), ReturnFromWrite(i)
  PROVE  OrderlyInv'
<1>1. FailedPhase /\ i = 1 /\ \E w : FailedWriter(w) /\ writers[1] = w
  BY TheWriter DEF ReturnFromWrite, OneWriter
<1>2. PICK w : FailedWriter(w) /\ writers[1] = w
  BY <1>1
<1>3. /\ w \in Writer /\ writers = <<w>> /\ w.toSend \in {0, 1}
      /\ sent + w.toSend <= MaxSends /\ sent \in Nat /\ broken
      /\ queue \in Seq(Nat) /\ queue # <<>>
      /\ Len(received) < sent /\ Len(received) \in Nat
      /\ reading # "stopped" => ReadUpTo + Len(wire) < 2 * sent
      /\ UNCHANGED <<wire, reading, half, received, underflow, broken>>
  BY <1>1, <1>2, LenProperties
     DEF FailedPhase, FailedWriter, OrderlyInv, ConnectionTypes, ReturnFromWrite,
         readerVars
<1>4. WireInOrder' /\ underflow' = FALSE
  BY <1>3, WireKept DEF OrderlyInv
<1>5. CASE w.toSend = 0
  <2>1. /\ writers' = RemoveAt(writers, 1)
        /\ UNCHANGED <<sent, queue>>
    BY <1>1, <1>2, <1>5 DEF ReturnFromWrite
  <2>2. writers' = <<>>
    BY <1>3, <2>1 DEF RemoveAt
  <2>3. FailedPhase' /\ ConnectionTypes'
    BY <1>3, <2>1, <2>2 DEF FailedPhase, ReadUpTo, OrderlyInv, ConnectionTypes
  <2> QED
    BY <1>4, <2>3 DEF OrderlyInv
<1>6. CASE w.toSend > 0
  <2> DEFINE x == [w EXCEPT !.toSend = @ - 1]
  <2>0. PICK v : v = Begins(x, queue')
    OBVIOUS
  <2>1. QueueAndWrite(1, queue, writers)
    BY <1>1, <1>2, <1>6 DEF ReturnFromWrite
  <2>2. sent' = sent + 1 /\ queue' = Append(queue, sent + 1) /\ w.toSend = 1
    BY <1>3, <1>6, <2>1 DEF QueueAndWrite
  <2>3. queue' \in Seq(Nat) /\ queue' # <<>> /\ Head(queue') \in Nat
    <3>1. queue' \in Seq(Nat) /\ queue' # <<>>
      BY <1>3, <2>2, AppendProperties
    <3> QED
      BY <3>1, HeadTailProperties
  <2>4. x \in Writer /\ x.toSend = 0
    BY <1>3, <2>2 DEF Writer
  <2>5. v = [at |-> "length", msg |-> Head(queue'), toSend |-> 0]
    <3> HIDE DEF x
    <3> QED
      BY <2>0, <2>4, WriterBegins
  <2>6. v \in Writer /\ v.at = "length" /\ v.toSend = 0
    BY <2>3, <2>5 DEF Writer
  <2>7. writers' = <<v>>
    <3>1. writers' = [writers EXCEPT ![1] = v]
      BY <1>2, <2>0, <2>1 DEF QueueAndWrite
    <3> QED
      BY <1>3, <3>1
  <2>8. FailedWriter(v)'
    BY <1>3, <2>2, <2>6, <2>7, ConnectionAssumption DEF FailedWriter
  <2>9. reading # "stopped" => ReadUpTo + Len(wire) < 2 * sent'
    <3>1. ReadUpTo \in Nat /\ Len(wire) \in Nat
      BY <1>3, LenProperties DEF ReadUpTo, OrderlyInv, ConnectionTypes
    <3> QED
      BY <1>3, <2>2, <3>1
  <2>10. FailedPhase'
    <3>1. \E y : FailedWriter(y)'
      BY <2>8
    <3>2. ReadUpTo' = ReadUpTo /\ wire' = wire /\ Len(received') < sent'
      BY <1>3, <2>2 DEF ReadUpTo
    <3> QED
      BY <1>3, <2>3, <2>9, <3>1, <3>2 DEF FailedPhase
  <2>11. ConnectionTypes'
    BY <1>3, <2>2, ConnectionAssumption DEF OrderlyInv, ConnectionTypes
  <2> QED
    BY <1>4, <2>10, <2>11 DEF OrderlyInv
<1> QED
  BY <1>3, <1>5, <1>6

LEMMA InvFinishWrite ==
  ASSUME OrderlyInv, NEW i \in 1..Len(writers), FinishWrite(i)
  PROVE  OrderlyInv'
<1>0. WireHolds /\ \E w : OneWriter(w) /\ writers[1] = w /\ i = 1
  BY TheWorkingWriter DEF FinishWrite, FinishWith
<1>1. PICK w : OneWriter(w) /\ writers[1] = w /\ i = 1
  BY <1>0
<1>2. /\ w \in Writer /\ writers = <<w>> /\ w.at = "written"
      /\ w.toSend \in {0, 1} /\ sent + w.toSend <= MaxSends
      /\ queue = <<sent>> /\ Popped = <<>>
  <2>1. w.at = "written" /\ queue = <<sent>>
    BY <1>1 DEF FinishWrite, FinishWith, OneWriter
  <2>2. Popped = <<>>
    BY <2>1 DEF Popped
  <2> QED
    BY <1>1, <2>1, <2>2 DEF OneWriter
<1>3. /\ WrittenUpTo = 2 * sent
      /\ underflow' = underflow
      /\ UNCHANGED <<wire, reading, half, received, broken>>
  <2>1. WrittenUpTo = 2 * sent
    BY <1>2 DEF WrittenUpTo
  <2>2. underflow' = underflow
    <3>1. underflow = FALSE /\ queue # <<>>
      BY <1>2 DEF OrderlyInv
    <3> QED
      BY <3>1 DEF FinishWrite, FinishWith
  <2> QED
    BY <2>1, <2>2 DEF FinishWrite, FinishWith, readerVars
<1>4. CASE w.toSend > 0
  <2>1. QueueAndWrite(1, <<>>, writers)
    BY <1>1, <1>2, <1>4 DEF FinishWrite, FinishWith
  <2> QED
    BY <1>0, <1>2, <1>3, <1>4, <2>1, InvQueueAndWrite
<1>5. CASE w.toSend = 0
  <2>1. queue' = <<>> /\ sent' = sent /\ writers' = RemoveAt(writers, 1)
    BY <1>1, <1>2, <1>5 DEF FinishWrite, FinishWith
  <2>2. writers' = <<>>
    BY <1>2, <2>1 DEF RemoveAt
  <2>3. WrittenUpTo' = WrittenUpTo
    BY <1>3, <2>1, <2>2 DEF WrittenUpTo
  <2>4. WireInOrder' /\ WireHolds'
    BY <1>0, <1>3, <2>3, WireKept
  <2> QED
    BY <1>3, <2>1, <2>2, <2>4
       DEF OrderlyInv, ConnectionTypes, WorkingPhase, WriterPhase
<1> QED
  BY <1>2, <1>4, <1>5

(* The reader takes the part that is next.                                 *)
LEMMA InvTake ==
  ASSUME OrderlyInv, ReadLength \/ ReadBody
  PROVE  /\ OrderlyInv'
         /\ ReadBody => /\ received' = Append(received, Len(received) + 1)
                        /\ Len(received) < sent
<1>1. /\ wire # <<>> /\ wire \in Seq(Part) /\ wire' = Tail(wire)
      /\ received \in Seq(Nat) /\ Len(received) \in Nat /\ sent \in Nat
      /\ reading # "stopped"
      /\ UNCHANGED <<sent, queue, writers, underflow, broken>>
  BY LenProperties
     DEF ReadLength, ReadBody, OrderlyInv, ConnectionTypes, senderVars
<1>2. /\ wire' \in Seq(Part) /\ Len(wire) \in Nat /\ Len(wire) > 0
      /\ Len(wire') = Len(wire) - 1
      /\ \A k \in 1..Len(wire') : wire'[k] = wire[k + 1]
  BY <1>1, HeadTailProperties, LenProperties, EmptySeq
<1>3. /\ ReadUpTo' = ReadUpTo + 1 /\ ReadUpTo \in Nat
      /\ 2 * Len(received') <= ReadUpTo' /\ Len(received') \in Nat
      /\ reading' \in {"length", "body"} /\ half' \in Nat
      /\ received' \in Seq(Nat)
      /\ reading' = "body" => half' = Len(received') + 1
      /\ ReadBody => /\ received' = Append(received, Len(received) + 1)
                     /\ ReadUpTo = 2 * Len(received) + 1
  <2>1. CASE ReadLength
    <3>1. /\ reading = "length" /\ reading' = "body" /\ received' = received
          /\ half' = Len(received) + 1
      <4>1. Head(wire).msg = Len(received) + 1
        BY <1>1, <2>1, NextPart DEF ReadLength
      <4> QED
        BY <2>1, <4>1 DEF ReadLength
    <3> QED
      BY <1>1, <3>1 DEF ReadUpTo, ReadBody
  <2>2. CASE ReadBody
    <3>1. /\ reading = "body" /\ reading' = "length" /\ half' = half
          /\ received' = Append(received, half) /\ half = Len(received) + 1
      BY <2>2 DEF ReadBody, senderVars, OrderlyInv, WireInOrder
    <3>2. received' \in Seq(Nat) /\ Len(received') = Len(received) + 1
      BY <1>1, <3>1, AppendProperties
    <3> QED
      BY <1>1, <3>1, <3>2 DEF ReadUpTo
  <2> QED
    BY <2>1, <2>2
<1>4. WireInOrder'
  <2>1. \A k \in 1..Len(wire) : Position(wire[k]) = ReadUpTo + k
    BY <1>1 DEF OrderlyInv, WireInOrder
  <2>2. ASSUME NEW k \in 1..Len(wire')
        PROVE  Position(wire'[k]) = ReadUpTo' + k
    <3>1. k + 1 \in 1..Len(wire) /\ wire'[k] = wire[k + 1]
      BY <1>2
    <3> QED
      BY <1>3, <2>1, <3>1
  <2> QED
    BY <1>3, <2>2 DEF WireInOrder, Position
<1>5. ReadUpTo' + Len(wire') = ReadUpTo + Len(wire)
  BY <1>2, <1>3
<1>6. ASSUME WorkingPhase
      PROVE  WorkingPhase' /\ ReadUpTo + Len(wire) <= 2 * sent
  <2>1. ReadUpTo + Len(wire) = WrittenUpTo /\ WrittenUpTo' = WrittenUpTo
    BY <1>1, <1>6 DEF WorkingPhase, WireHolds, WrittenUpTo
  <2>2. WrittenUpTo <= 2 * sent
    BY <1>1 DEF WrittenUpTo
  <2>3. WireHolds'
    BY <1>2, <1>3, <1>5, <2>1 DEF WireHolds
  <2> QED
    BY <1>1, <1>6, <2>1, <2>2, <2>3 DEF WorkingPhase, WriterPhase, OneWriter
<1>7. Len(received') <= sent
  <2>1. ReadUpTo + Len(wire) <= 2 * sent
    BY <1>1, <1>2, <1>3, <1>6 DEF OrderlyInv, FailedPhase
  <2> QED
    BY <1>1, <1>2, <1>3, <2>1
<1>8. ASSUME FailedPhase PROVE FailedPhase'
  <2>1. ReadUpTo' + Len(wire') < 2 * sent
    BY <1>1, <1>5, <1>8 DEF FailedPhase
  <2>2. Len(received') < sent
    BY <1>1, <1>2, <1>3, <2>1
  <2> QED
    BY <1>1, <1>8, <2>1, <2>2 DEF FailedPhase, FailedWriter
<1>9. ConnectionTypes' /\ underflow' = FALSE
  BY <1>1, <1>2, <1>3 DEF OrderlyInv, ConnectionTypes
<1>10. ReadBody => Len(received) < sent
  BY <1>1, <1>3, <1>7, AppendProperties
<1> QED
  BY <1>3, <1>4, <1>6, <1>8, <1>9, <1>10 DEF OrderlyInv

(* The loop ends when the connection is lost, never for what it reads.     *)
LEMMA InvStop ==
  ASSUME OrderlyInv, ReadGarbage \/ ReadFails
  PROVE  ReadFails /\ OrderlyInv'
<1>1. ~ReadGarbage
  <2> SUFFICES ASSUME ReadGarbage PROVE FALSE
    OBVIOUS
  <2>1. wire # <<>> /\ reading # "stopped"
    BY DEF ReadGarbage, LoseFraming
  <2> QED
    BY <2>1, NextPart DEF ReadGarbage, LoseFraming
<1>2. /\ reading' = "stopped" /\ ReadFails
      /\ UNCHANGED <<sent, queue, writers, underflow, wire, half, received, broken>>
  BY <1>1 DEF ReadFails, senderVars
<1>3. ConnectionTypes' /\ WireInOrder' /\ underflow' = FALSE
  BY <1>2 DEF OrderlyInv, ConnectionTypes, WireInOrder
<1>4. WrittenUpTo' = WrittenUpTo
  BY <1>2 DEF WrittenUpTo
<1> QED
  BY <1>2, <1>3, <1>4
     DEF OrderlyInv, WorkingPhase, WriterPhase, OneWriter, WireHolds, FailedPhase,
         FailedWriter

LEMMA InvUnchanged ==
  ASSUME OrderlyInv, Break \/ UNCHANGED vars
  PROVE  OrderlyInv'
<1>1. /\ UNCHANGED <<sent, queue, writers, underflow, wire, reading, half, received>>
      /\ broken => broken'
      /\ broken' \in BOOLEAN
  BY DEF Break, vars, senderVars, readerVars, OrderlyInv, ConnectionTypes
<1>2. WireInOrder' /\ ConnectionTypes' /\ underflow' = FALSE
  BY <1>1, WireKept DEF OrderlyInv, ConnectionTypes
<1>3. WrittenUpTo' = WrittenUpTo /\ ReadUpTo' = ReadUpTo
  BY <1>1 DEF WrittenUpTo, ReadUpTo
<1> QED
  BY <1>1, <1>2, <1>3
     DEF OrderlyInv, WorkingPhase, WriterPhase, OneWriter, WireHolds, FailedPhase,
         FailedWriter

LEMMA InvWriterStep ==
  ASSUME OrderlyInv, NEW i \in 1..Len(writers), WriterStep(i)
  PROVE  OrderlyInv'
  BY InvBeginWrite, InvBeginTwoSends, InvWritePart, InvWriteFails,
     InvReturnFromWrite, InvFinishWrite
     DEF WriterStep

(* Once a send has overtaken a writer it stays so.                         *)
LEMMA OvertakenStays ==
  ASSUME overtaken \in BOOLEAN, [Next]_vars
  PROVE  overtaken' \in BOOLEAN /\ (overtaken => overtaken')
<1>1. CASE WriterSteps
  BY <1>1 DEF WriterSteps, WriterStep, BeginWrite, BeginTwoSends, WritePart,
     WriteFails, ReturnFromWrite, FinishWrite, FinishWith
<1> QED
  BY <1>1 DEF Next, Send, SpawnTwoSends, NoteOvertaking, Read, ReadLength, ReadBody,
     ReadGarbage, ReadFails, Break, vars, senderVars

LEMMA ConnectionStep == ConnectionInv /\ [Next]_vars => ConnectionInv'
<1> SUFFICES ASSUME ConnectionInv, [Next]_vars, ~overtaken'
             PROVE  OrderlyInv'
  BY OvertakenStays DEF ConnectionInv
<1>1. OrderlyInv
  BY OvertakenStays DEF ConnectionInv
<1> QED
  BY <1>1, InvSend, InvSpawnTwoSends, InvWriterStep, InvTake, InvStop, InvUnchanged
     DEF Next, WriterSteps, Read

LEMMA ConnectionInvariant == Spec => []ConnectionInv
  BY ConnectionInit, ConnectionStep, PTL DEF Spec

(* However many messages a connection carries and whenever it breaks, a    *)
(* writer that looks for a message in an empty queue was overtaken by a    *)
(* send before.                                                            *)
THEOREM QueueCorrect == Spec => []NoUnderflow
<1>1. ConnectionInv => NoUnderflow
  BY DEF ConnectionInv, OrderlyInv, NoUnderflow
<1> QED
  BY <1>1, ConnectionInvariant, PTL

(* A read loop that takes a body for a length or the reverse, or reads a   *)
(* body that is not of the length it read, does so after a send overtook a *)
(* writer: two sends of one coroutine and a broken connection do not bring *)
(* it about.                                                               *)
THEOREM FramingCorrect == Spec => []FramingIsKept
<1>1. ConnectionInv => FramingIsKept
  <2> SUFFICES ASSUME ConnectionInv, ~overtaken, LoseFraming PROVE FALSE
    BY DEF FramingIsKept
  <2>1. OrderlyInv /\ wire # <<>> /\ reading # "stopped"
    BY DEF ConnectionInv, LoseFraming
  <2> QED
    BY <2>1, NextPart DEF LoseFraming
<1> QED
  BY <1>1, ConnectionInvariant, PTL

(* As long as no send overtakes a writer, what is delivered is what was    *)
(* sent, each message once and in the order of the sends: the safety part  *)
(* of Fifo.                                                                *)
THEOREM DeliveryCorrect == Spec => Channel!FifoSafety
<1>1. Init => Channel!FifoInit
  BY DEF Init, Channel!FifoInit
<1>2. ConnectionInv /\ [Next]_vars => [Channel!FifoNext]_(Channel!fifoVars)
  <2> SUFFICES ASSUME ConnectionInv, [Next]_vars, ~overtaken'
               PROVE  \/ Channel!FifoSend \/ Channel!Deliver \/ Channel!FifoBreak
                      \/ UNCHANGED <<sent, received, overtaken, broken>>
    BY DEF Channel!FifoNext, Channel!Overtake, Channel!fifoVars
  <2>0. OrderlyInv /\ overtaken' = overtaken
    BY OvertakenStays DEF ConnectionInv
  <2>1. CASE Send
    BY <2>0, <2>1 DEF Send, MaySend, readerVars, Channel!FifoSend
  <2>2. ASSUME NEW i \in 1..Len(writers), WriterStep(i)
        PROVE  Channel!FifoSend \/ UNCHANGED <<sent, received, broken>>
    <3>1. CASE BeginWrite(i) \/ WritePart(i) \/ WriteFails(i)
      BY <3>1 DEF BeginWrite, WritePart, WriteFails, readerVars
    <3>2. CASE BeginTwoSends(i) \/ FinishWrite(i) \/ ReturnFromWrite(i)
      <4>1. CASE sent' = sent + 1
        <5>1. writers[i].toSend > 0 /\ received' = received /\ broken' = broken
          BY <2>0, <3>2, <4>1
             DEF BeginTwoSends, FinishWrite, FinishWith, ReturnFromWrite, OrderlyInv,
                 ConnectionTypes, readerVars
        <5>2. sent + writers[i].toSend <= MaxSends /\ writers[i].toSend \in 0..2
          <6>1. i = 1 /\ \E w : (OneWriter(w) \/ FailedWriter(w)) /\ writers[1] = w
            BY <2>0, TheWriter
          <6> QED
            BY <5>1, <6>1, <2>0
               DEF OneWriter, FailedWriter, OrderlyInv, ConnectionTypes
        <5>3. sent < MaxSends
          BY <2>0, <5>1, <5>2, ConnectionAssumption DEF OrderlyInv, ConnectionTypes
        <5> QED
          BY <2>0, <4>1, <5>1, <5>3 DEF Channel!FifoSend
      <4>2. CASE sent' # sent + 1
        BY <3>2, <4>2
           DEF BeginTwoSends, FinishWrite, FinishWith, ReturnFromWrite, QueueAndWrite,
               readerVars
      <4> QED
        BY <4>1, <4>2
    <3> QED
      BY <2>2, <3>1, <3>2 DEF WriterStep
  <2>3. CASE ReadBody
    BY <2>0, <2>3, InvTake DEF ReadBody, senderVars, Channel!Deliver
  <2>4. CASE ReadGarbage \/ ReadFails
    BY <2>4 DEF ReadGarbage, ReadFails, senderVars
  <2>5. CASE Break
    BY <2>5 DEF Break, senderVars, readerVars, Channel!FifoBreak
  <2>6. CASE SpawnTwoSends \/ ReadLength \/ UNCHANGED vars
    BY <2>0, <2>6 DEF SpawnTwoSends, ReadLength, vars, senderVars, readerVars
  <2> QED
    BY <2>0, <2>1, <2>2, <2>3, <2>4, <2>5, <2>6 DEF Next, WriterSteps, Read
<1> QED
  BY <1>1, <1>2, ConnectionInvariant, PTL DEF Spec, Channel!FifoSafety
================================================================================
