--------------------------------- MODULE Fifo ---------------------------------
(***************************************************************************)
(* What SecCask takes a connection for, in one direction: messages are     *)
(* delivered in the order of the sends, each once, until the connection    *)
(* breaks. The promise ends with a send that overtakes another one.        *)
(* Messages are numbered by the order of the sends.                        *)
(***************************************************************************)
EXTENDS Naturals, Sequences

CONSTANT MaxSends  \* bound: messages that are sent

VARIABLES
  sent,      \* number of messages sent
  received,  \* the messages delivered, in order
  overtaken, \* a send did not wait for the one before it
  broken     \* the connection is lost

fifoVars == <<sent, received, overtaken, broken>>

FifoInit ==
  /\ sent = 0
  /\ received = <<>>
  /\ overtaken = FALSE
  /\ broken = FALSE

FifoSend ==
  /\ sent < MaxSends
  /\ sent' = sent + 1
  /\ UNCHANGED <<received, overtaken, broken>>

Deliver ==
  /\ Len(received) < sent
  /\ received' = Append(received, Len(received) + 1)
  /\ UNCHANGED <<sent, overtaken, broken>>

FifoBreak ==
  /\ broken' = TRUE
  /\ UNCHANGED <<sent, received, overtaken>>

(* Nothing is promised of a step that overtakes, or of those after it. *)
Overtake == overtaken'

FifoNext == FifoSend \/ Deliver \/ FifoBreak \/ Overtake

FifoSafety == FifoInit /\ [][FifoNext]_fifoVars
FifoSpec ==
  FifoSafety /\ WF_fifoVars(Deliver /\ ~overtaken /\ ~broken)
===============================================================================
