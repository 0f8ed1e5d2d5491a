---------------------------- MODULE SecCask_proofs -----------------------------
(***************************************************************************)
(* Types of SecCask, and that the pool of workers never outgrows its slots *)
(* (PoolBounded), for every set of workers, components and packages and    *)
(* every value of the other constants.                                     *)
(*                                                                         *)
(* A worker occupies a slot from its launch on: it is pending until its    *)
(* first manifest arrives, then it is in the pool until it is evicted. A   *)
(* launch happens only while nothing is pending or active (CallPhase), so  *)
(* the scheduler's test of the cache alone is a test of all the slots.     *)
(***************************************************************************)
EXTENDS SecCask, SequenceTheorems, FiniteSetTheorems, TLAPS

(* The queues after the operations the actions use. *)
LEMMA QueueAppend ==
  ASSUME NEW q \in Seq(Message), NEW m \in Message
  PROVE  /\ Append(q, m) \in Seq(Message)
         /\ Queued(Append(q, m)) = Queued(q) \cup {m}
<1>1. /\ Append(q, m) \in Seq(Message)
      /\ Len(Append(q, m)) = Len(q) + 1
      /\ \A i \in 1..Len(q) : Append(q, m)[i] = q[i]
      /\ Append(q, m)[Len(q) + 1] = m
  BY AppendProperties
<1>2. Len(q) \in Nat
  BY LenProperties
<1> QED
  BY <1>1, <1>2 DEF Queued

(* The head of a queue is one of its messages, the tail has no others.     *)
LEMMA QueueTail ==
  ASSUME NEW q \in Seq(Message), q # <<>>
  PROVE  /\ Tail(q) \in Seq(Message)
         /\ Queued(Tail(q)) \subseteq Queued(q)
         /\ Head(q) \in Queued(q)
         /\ Head(q) \in Message
<1>1. /\ Tail(q) \in Seq(Message)
      /\ Head(q) \in Message
      /\ Len(Tail(q)) = Len(q) - 1
      /\ \A i \in 1..Len(Tail(q)) : Tail(q)[i] = q[i + 1]
  BY HeadTailProperties
<1>2. Len(q) \in Nat \ {0}
  BY EmptySeq
<1>3. Head(q) = q[1]
  BY <1>2
<1> QED
  BY <1>1, <1>2, <1>3 DEF Queued

(* A prefix of a queue has no other messages.                              *)
LEMMA QueuePrefix ==
  ASSUME NEW q \in Seq(Message), NEW k \in 0..Len(q)
  PROVE  /\ SubSeq(q, 1, k) \in Seq(Message)
         /\ Queued(SubSeq(q, 1, k)) \subseteq Queued(q)
<1>1. Len(q) \in Nat /\ \A i \in 1..Len(q) : q[i] \in Message
  BY LenProperties, ElementOfSeq
<1>2. /\ SubSeq(q, 1, k) \in Seq(Message)
      /\ Len(SubSeq(q, 1, k)) = IF 1 <= k THEN k - 1 + 1 ELSE 0
      /\ \A i \in 1..(k - 1 + 1) : SubSeq(q, 1, k)[i] = q[1 + i - 1]
  <2>1. \A i \in 1..k : q[i] \in Message
    BY <1>1
  <2> QED
    BY <1>1, <2>1, SubSeqProperties
<1> QED
  BY <1>1, <1>2 DEF Queued

(* Two messages added at the end of a queue.                               *)
LEMMA QueueConcat ==
  ASSUME NEW q \in Seq(Message), NEW m1 \in Message, NEW m2 \in Message
  PROVE  /\ q \o <<m1, m2>> \in Seq(Message)
         /\ Queued(q \o <<m1, m2>>) = Queued(q) \cup {m1, m2}
<1>1. <<m1, m2>> \in Seq(Message) /\ Len(<<m1, m2>>) = 2
  OBVIOUS
<1>2. /\ q \o <<m1, m2>> \in Seq(Message)
      /\ Len(q \o <<m1, m2>>) = Len(q) + 2
      /\ \A i \in 1..(Len(q) + 2) : (q \o <<m1, m2>>)[i] =
            IF i <= Len(q) THEN q[i] ELSE <<m1, m2>>[i - Len(q)]
  BY <1>1, ConcatProperties
<1>3. Len(q) \in Nat
  BY LenProperties
<1>4. /\ (q \o <<m1, m2>>)[Len(q) + 1] = m1
      /\ (q \o <<m1, m2>>)[Len(q) + 2] = m2
  BY <1>2, <1>3
<1>5. Queued(q \o <<m1, m2>>) \subseteq Queued(q) \cup {m1, m2}
  <2> SUFFICES ASSUME NEW i \in 1..(Len(q) + 2)
               PROVE  (q \o <<m1, m2>>)[i] \in Queued(q) \cup {m1, m2}
    BY <1>2 DEF Queued
  <2>1. CASE i \in 1..Len(q)
    BY <1>2, <1>3, <2>1 DEF Queued
  <2>2. CASE i = Len(q) + 1 \/ i = Len(q) + 2
    BY <1>4, <2>2
  <2> QED
    BY <1>3, <2>1, <2>2
<1>6. Queued(q) \cup {m1, m2} \subseteq Queued(q \o <<m1, m2>>)
  BY <1>2, <1>3, <1>4 DEF Queued
<1> QED
  BY <1>2, <1>5, <1>6

(* The messages the actions send are messages. *)
LEMMA MessageTypes ==
  /\ \A cmd \in Commands : Msg(cmd) \in Message
  /\ \A cmd \in Commands, n \in Nat : TaskMsg(cmd, n) \in Message
  /\ \A pkgs \in SUBSET Package : ManifestMsg(pkgs) \in Message
BY DEF Message, Msg, TaskMsg, ManifestMsg, Commands

(* The submitted components stay where they are when one is appended. *)
LEMMA SubmittedGrows ==
  ASSUME NEW c \in Component, submitted \in Seq(Component)
  PROVE  /\ Append(submitted, c) \in Seq(Component)
         /\ Append(submitted, c) # <<>>
         /\ Len(Append(submitted, c)) = Len(submitted) + 1
         /\ Len(submitted) \in Nat
BY AppendProperties, LenProperties, EmptySeq

(* The inductive invariant: the types rest on the known ids of the tasks.  *)
TypeInv == TypeOK /\ TasksKnown

(* Manifests stay manifests through the operations of the scheduler. *)
LEMMA ManifestTypes ==
  /\ \A pkgs \in SUBSET Package : CaptureCurrentEnv(pkgs) \in Manifest
  /\ \A m \in Manifest \cup {NoManifest}, pkgs \in SUBSET Package :
        OnResponseManifest(m, CaptureCurrentEnv(pkgs)) \in Manifest
  /\ \A m \in Manifest, c \in Component : RecordLastExecuted(m, c) \in Manifest
  /\ \A c \in Component : RecordLastExecuted(NoManifest, c) = NoManifest
BY CompatibilityAssumption
   DEF CaptureCurrentEnv, OnResponseManifest, RecordLastExecuted, Manifest,
       Library

(* The types hold when the coordinator starts.                             *)
LEMMA TypeInvInit == Init => TypeInv
<1> SUFFICES ASSUME Init PROVE TypeInv
  OBVIOUS
<1>1. <<>> \in Seq(Component) /\ <<>> \in Seq(Worker) /\ <<>> \in Seq(Message)
  BY EmptySeq
<1>2. Len(<<>>) = 0
  BY EmptySeq
<1>3. MaxTasks >= 0 /\ BasePackages \subseteq Package
  BY SecCaskAssumption
<1>4. TasksKnown
  <2>1. Queued(<<>>) = {}
    BY <1>2 DEF Queued
  <2> QED
    BY <2>1 DEF Init, TasksKnown
<1>5. LifecycleTypes
  BY <1>1, <1>2, <1>3 DEF Init, LifecycleTypes
<1>6. SchedulerTypes
  BY <1>2 DEF Init, SchedulerTypes
<1>7. CoordTypes
  BY <1>1 DEF Init, CoordTypes
<1>8. ProcessTypes
  BY <1>1, <1>2, <1>3 DEF Init, ProcessTypes
<1>9. ChannelTypes
  BY <1>1 DEF Init, ChannelTypes
<1> QED
  BY <1>4, <1>5, <1>6, <1>7, <1>8, <1>9 DEF TypeInv, TypeOK
------------------------------------------------------------------------------
(* What the shared pieces of the actions do to the connections. *)

(* A send adds the message to one connection, or ends the process.         *)
LEMMA SendStep ==
  ASSUME ChannelTypes, CoordTypes,
         NEW handler, NEW w \in Worker, NEW m \in Message,
         SendThrough(handler, w, m)
  PROVE  /\ toWorker' \in [Worker -> Seq(Message)]
         /\ coord' \in {"up", "exited", "crashed"}
         /\ \A v \in Worker : v # w => toWorker'[v] = toWorker[v]
         /\ Queued(toWorker'[w]) \subseteq Queued(toWorker[w]) \cup {m}
<1>1. toWorker \in [Worker -> Seq(Message)]
    /\ coord \in {"up", "exited", "crashed"}
  BY DEF ChannelTypes, CoordTypes
<1>2. /\ Append(toWorker[w], m) \in Seq(Message)
      /\ Queued(Append(toWorker[w], m)) = Queued(toWorker[w]) \cup {m}
  BY <1>1, QueueAppend
<1>3. CASE handler = "open"
  BY <1>1, <1>2, <1>3 DEF SendThrough
<1>4. CASE handler # "open"
  BY <1>1, <1>4 DEF SendThrough
<1> QED
  BY <1>3, <1>4

(* A handler of the coordinator takes one message of its connection.       *)
LEMMA ConsumeStep ==
  ASSUME ChannelTypes, NEW w \in Worker, NEW cmd, Handles(w, cmd), Consume(w)
  PROVE  /\ toCoord' \in [Worker -> Seq(Message)]
         /\ Head(toCoord[w]) \in Message
         /\ Head(toCoord[w]) \in Queued(toCoord[w])
         /\ Head(toCoord[w]).cmd = cmd
         /\ \A v \in Worker : v # w => toCoord'[v] = toCoord[v]
         /\ toCoord'[w] = Tail(toCoord[w])
         /\ Queued(toCoord'[w]) \subseteq Queued(toCoord[w])
<1>1. toCoord \in [Worker -> Seq(Message)]
  BY DEF ChannelTypes
<1>2. toCoord[w] # <<>> /\ Head(toCoord[w]).cmd = cmd
  BY DEF Handles
<1>3. /\ Tail(toCoord[w]) \in Seq(Message)
      /\ Queued(Tail(toCoord[w])) \subseteq Queued(toCoord[w])
      /\ Head(toCoord[w]) \in Queued(toCoord[w])
      /\ Head(toCoord[w]) \in Message
  BY <1>1, <1>2, QueueTail
<1> QED
  BY <1>1, <1>2, <1>3 DEF Consume

(* A worker takes one message of its connection.                           *)
LEMMA ReceiveStep ==
  ASSUME ChannelTypes, NEW w \in Worker, NEW cmd, Receives(w, cmd)
  PROVE  /\ toWorker' \in [Worker -> Seq(Message)]
         /\ Head(toWorker[w]) \in Message
         /\ Head(toWorker[w]) \in Queued(toWorker[w])
         /\ Head(toWorker[w]).cmd = cmd
         /\ proc[w] \in {"idle", "running"}
         /\ \A v \in Worker : v # w => toWorker'[v] = toWorker[v]
         /\ Queued(toWorker'[w]) \subseteq Queued(toWorker[w])
<1>1. toWorker \in [Worker -> Seq(Message)]
  BY DEF ChannelTypes
<1>2. toWorker[w] # <<>> /\ Head(toWorker[w]).cmd = cmd
  BY DEF Receives
<1>3. /\ Tail(toWorker[w]) \in Seq(Message)
      /\ Queued(Tail(toWorker[w])) \subseteq Queued(toWorker[w])
      /\ Head(toWorker[w]) \in Queued(toWorker[w])
      /\ Head(toWorker[w]) \in Message
  BY <1>1, <1>2, QueueTail
<1> QED
  BY <1>1, <1>2, <1>3 DEF Receives

(* The connections still without an id are a sequence of workers.          *)
LEMMA AcceptedTypes ==
  ASSUME NEW w \in Worker, accepted \in Seq(Worker)
  PROVE  AcceptedWithout(w) \in Seq(Worker)
<1> DEFINE n == CHOOSE i \in 1..Len(accepted) : accepted[i] = w
           s == [i \in 1..(Len(accepted) - 1) |->
                   IF i < n THEN accepted[i] ELSE accepted[i + 1]]
<1>1. /\ Len(accepted) \in Nat
      /\ \A i \in 1..Len(accepted) : accepted[i] \in Worker
  BY LenProperties, ElementOfSeq
<1>2. CASE Len(accepted) = 0
  <2>1. s \in [1..0 -> Worker]
    BY <1>1, <1>2
  <2> QED
    BY <2>1, SeqDef DEF AcceptedWithout
<1>3. CASE Len(accepted) # 0
  <2>1. Len(accepted) - 1 \in Nat
    BY <1>1, <1>3
  <2>2. \A i \in 1..(Len(accepted) - 1) :
      i \in 1..Len(accepted) /\ i + 1 \in 1..Len(accepted)
    BY <1>1, <1>3
  <2>3. s \in [1..(Len(accepted) - 1) -> Worker]
    BY <1>1, <2>2
  <2> QED
    BY <2>1, <2>3, SeqDef DEF AcceptedWithout
<1> QED
  BY <1>2, <1>3
(* The lambda handles a component that was submitted. *)
LEMMA CurrentTask ==
  ASSUME TypeInv, strand # "none"
  PROVE  /\ Current \in Component
         /\ ComponentId \in 1..Len(submitted)
         /\ ComponentId \in Nat
<1>1. submitted \in Seq(Component) /\ submitted # <<>>
  BY DEF TypeInv, TypeOK, LifecycleTypes, TasksKnown
<1>2. Len(submitted) \in Nat \ {0}
  BY <1>1, EmptySeq
<1>3. Len(submitted) \in 1..Len(submitted)
  BY <1>2
<1> QED
  BY <1>1, <1>2, <1>3, ElementOfSeq DEF Current, ComponentId

(* The insertion order of the cache relates workers. *)
LEMMA OrderTypes ==
  ASSUME NEW order \in SUBSET (Worker \X Worker), NEW w \in Worker
  PROVE  /\ DropFrom(order, w) \subseteq Worker \X Worker
         /\ \A members \in SUBSET Worker :
               AddLast(order, members, w) \subseteq Worker \X Worker
BY DEF DropFrom, AddLast

(* What keeps the ids of the tasks known. *)
LEMMA TasksKept ==
  ASSUME TasksKnown, submitted' = submitted,
         strand' # "none" => strand # "none",
         NEW w \in Worker,
         \A v \in Worker : v # w => toWorker'[v] = toWorker[v],
         \A m \in Queued(toWorker'[w]) :
            m \in Queued(toWorker[w])
              \/ (m.cmd = "execute" => m.task \in 1..Len(submitted)),
         \A v \in Worker : proc'[v] = "running" => job'[v] # 0
  PROVE  TasksKnown'
<1>1. strand' # "none" => submitted' # <<>>
  BY DEF TasksKnown
<1>2. ASSUME NEW v \in Worker, NEW m \in Queued(toWorker'[v]), m.cmd = "execute"
      PROVE  m.task \in 1..Len(submitted)
  <2>1. CASE v = w
    BY <1>2, <2>1 DEF TasksKnown
  <2>2. CASE v # w
    BY <1>2, <2>2 DEF TasksKnown
  <2> QED
    BY <2>1, <2>2
<1> QED
  BY <1>1, <1>2 DEF TasksKnown

(* No step of the specification leaves the types: one case per action. *)
THEOREM TypeInvStep == TypeInv /\ [Next]_vars => TypeInv'
<1> SUFFICES ASSUME TypeInv, [Next]_vars PROVE TypeInv'
  OBVIOUS
<1> USE DEF TypeInv, TypeOK
<1>1. ASSUME NEW c \in Component, OnNewComponent(c) PROVE TypeInv'
  <2>1. /\ submitted' \in Seq(Component) /\ submitted' # <<>>
       /\ Len(submitted') = Len(submitted) + 1 /\ Len(submitted) \in Nat
    BY <1>1, SubmittedGrows DEF OnNewComponent, LifecycleTypes
  <2>2. Len(submitted) < MaxTasks /\ MaxTasks \in Nat
    BY <1>1, SecCaskAssumption DEF OnNewComponent
  <2>3. CoordTypes' /\ ChannelTypes'
    BY <1>1 DEF OnNewComponent, Up, channelVars, coordVars, CoordTypes,
       ChannelTypes
  <2>4. LifecycleTypes'
    BY <1>1, <2>1, <2>2 DEF OnNewComponent, lifecycleVars, LifecycleTypes
  <2>5. SchedulerTypes'
    BY <1>1, <2>1 DEF OnNewComponent, schedulerVars, lifecycleVars,
       SchedulerTypes, LifecycleTypes
  <2>6. ProcessTypes'
    BY <1>1, <2>1 DEF OnNewComponent, processVars, ProcessTypes, LifecycleTypes
  <2>7. TasksKnown'
    BY <1>1, <2>1 DEF OnNewComponent, lifecycleVars, processVars,
       channelVars, TasksKnown
  <2> QED
    BY <2>3, <2>4, <2>5, <2>6, <2>7
<1>2. CASE ComponentReturns
  <2>1. LifecycleTypes' /\ SchedulerTypes' /\ CoordTypes' /\ ProcessTypes'
      /\ ChannelTypes' /\ TasksKnown'
    BY <1>2 DEF ComponentReturns, Up, channelVars, coordVars, lifecycleVars,
       processVars, schedulerVars, LifecycleTypes, SchedulerTypes,
       CoordTypes, ProcessTypes, ChannelTypes, TasksKnown
  <2> QED
    BY <2>1
<1>3. CASE LifecycleDone
  <2>1. LifecycleTypes' /\ SchedulerTypes' /\ CoordTypes' /\ ProcessTypes'
      /\ ChannelTypes' /\ TasksKnown'
    BY <1>3 DEF LifecycleDone, Up, channelVars, coordVars, lifecycleVars,
       processVars, schedulerVars, LifecycleTypes, SchedulerTypes,
       CoordTypes, ProcessTypes, ChannelTypes, TasksKnown
  <2> QED
    BY <2>1
<1>4. ASSUME NEW w \in Worker, SendExit(w) PROVE TypeInv'
  <2>1. Msg("exit") \in Message /\ Msg("exit").cmd = "exit"
    BY MessageTypes DEF Msg, Commands
  <2>send. SendThrough(workers[w], w, Msg("exit"))
    BY <1>4 DEF SendExit
  <2>known. ChannelTypes /\ CoordTypes
    BY DEF TypeInv, TypeOK
  <2>sent. /\ toWorker' \in [Worker -> Seq(Message)]
           /\ coord' \in {"up", "exited", "crashed"}
           /\ \A v \in Worker : v # w => toWorker'[v] = toWorker[v]
           /\ Queued(toWorker'[w]) \subseteq Queued(toWorker[w]) \cup {Msg("exit")}
    BY <2>send, <2>known, <2>1, SendStep
  <2>2. /\ toWorker' \in [Worker -> Seq(Message)]
       /\ coord' \in {"up", "exited", "crashed"}
    BY <2>sent
  <2>3. /\ \A v \in Worker : v # w => toWorker'[v] = toWorker[v]
       /\ Queued(toWorker'[w]) \subseteq Queued(toWorker[w]) \cup {Msg("exit")}
    BY <2>sent
  <2>4. SchedulerTypes' /\ ProcessTypes'
    BY <1>4 DEF SendExit, Up, processVars, schedulerVars, SchedulerTypes,
       LifecycleTypes, ProcessTypes
  <2>5. LifecycleTypes'
    BY <1>4, AppendProperties DEF SendExit, lifecycleVars, LifecycleTypes
  <2>6. CoordTypes'
    BY <1>4, <2>2 DEF SendExit, coordVars, CoordTypes
  <2>7. ChannelTypes'
    BY <1>4, <2>2 DEF SendExit, channelVars, ChannelTypes, channelVars
  <2>8. submitted' = submitted /\ (strand' # "none" => strand # "none")
    BY <1>4 DEF SendExit, lifecycleVars
  <2>9. \A u \in Worker : proc'[u] = "running" => job'[u] # 0
    BY <1>4 DEF SendExit, processVars, ProcessTypes, TasksKnown
  <2>10. \A m \in Queued(toWorker'[w]) : m \in Queued(toWorker[w])
         \/ (m.cmd = "execute" => m.task \in 1..Len(submitted))
    BY <2>1, <2>3
  <2>11. TasksKnown'
    BY <2>3, <2>8, <2>9, <2>10, TasksKept
  <2> QED
    BY <2>4, <2>5, <2>6, <2>7, <2>11
<1>5. CASE ExitLoopInvalidated
  <2>1. LifecycleTypes' /\ SchedulerTypes' /\ CoordTypes' /\ ProcessTypes'
      /\ ChannelTypes' /\ TasksKnown'
    BY <1>5 DEF ExitLoopInvalidated, Up, channelVars, coordVars,
       lifecycleVars, processVars, schedulerVars, LifecycleTypes,
       SchedulerTypes, CoordTypes, ProcessTypes, ChannelTypes, TasksKnown
  <2> QED
    BY <2>1
<1>6. CASE ExitLoopEnds
  <2>1. LifecycleTypes' /\ SchedulerTypes' /\ CoordTypes' /\ ProcessTypes'
      /\ ChannelTypes' /\ TasksKnown'
    BY <1>6 DEF ExitLoopEnds, Up, channelVars, coordVars, lifecycleVars,
       processVars, schedulerVars, LifecycleTypes, SchedulerTypes,
       CoordTypes, ProcessTypes, ChannelTypes, TasksKnown
  <2> QED
    BY <2>1
<1>7. ASSUME NEW w \in Worker, ReuseWorker(w) PROVE TypeInv'
  <2>1. Current \in Component /\ ComponentId \in 1..Len(submitted)
      /\ ComponentId \in Nat
    BY <1>7, CurrentTask DEF ReuseWorker
  <2>2. TaskMsg("execute", ComponentId) \in Message
      /\ TaskMsg("execute", ComponentId).task = ComponentId
    BY <2>1, MessageTypes DEF TaskMsg, Commands
  <2>send. SendThrough(workers[w], w, TaskMsg("execute", ComponentId))
    BY <1>7 DEF ReuseWorker
  <2>known. ChannelTypes /\ CoordTypes
    BY DEF TypeInv, TypeOK
  <2>sent. /\ toWorker' \in [Worker -> Seq(Message)]
           /\ coord' \in {"up", "exited", "crashed"}
           /\ \A v \in Worker : v # w => toWorker'[v] = toWorker[v]
           /\ Queued(toWorker'[w]) \subseteq Queued(toWorker[w])
            \cup {TaskMsg("execute", ComponentId)}
    BY <2>send, <2>known, <2>2, SendStep
  <2>3. /\ toWorker' \in [Worker -> Seq(Message)]
       /\ coord' \in {"up", "exited", "crashed"}
    BY <2>sent
  <2>4. /\ \A v \in Worker : v # w => toWorker'[v] = toWorker[v]
       /\ Queued(toWorker'[w]) \subseteq Queued(toWorker[w])
            \cup {TaskMsg("execute", ComponentId)}
    BY <2>sent
  <2>5. older' \subseteq Worker \X Worker
    BY <1>7, OrderTypes DEF ReuseWorker, SchedulerTypes
  <2>6. RecordLastExecuted(manifest[w], Current) \in Manifest \cup {NoManifest}
    BY <2>1, ManifestTypes DEF SchedulerTypes
  <2>7. LifecycleTypes' /\ ProcessTypes'
    BY <1>7 DEF ReuseWorker, Up, lifecycleVars, processVars, LifecycleTypes,
       ProcessTypes
  <2>8. SchedulerTypes'
    BY <1>7, <2>5, <2>6 DEF ReuseWorker, schedulerVars, lifecycleVars,
       SchedulerTypes, LifecycleTypes, LifecycleTypes
  <2>9. CoordTypes'
    BY <1>7, <2>3 DEF ReuseWorker, coordVars, CoordTypes
  <2>10. ChannelTypes'
    BY <1>7, <2>3 DEF ReuseWorker, channelVars, ChannelTypes
  <2>11. submitted' = submitted /\ (strand' # "none" => strand # "none")
    BY <1>7 DEF ReuseWorker, lifecycleVars
  <2>12. \A u \in Worker : proc'[u] = "running" => job'[u] # 0
    BY <1>7 DEF ReuseWorker, processVars, ProcessTypes, TasksKnown
  <2>13. \A m \in Queued(toWorker'[w]) : m \in Queued(toWorker[w])
         \/ (m.cmd = "execute" => m.task \in 1..Len(submitted))
    BY <2>1, <2>2, <2>4
  <2>14. TasksKnown'
    BY <2>4, <2>11, <2>12, <2>13, TasksKept
  <2> QED
    BY <2>7, <2>8, <2>9, <2>10, <2>14
<1>8. ASSUME NEW w \in Worker, LaunchWorker(w) PROVE TypeInv'
  <2>1. LifecycleTypes' /\ SchedulerTypes' /\ CoordTypes' /\ ProcessTypes'
      /\ ChannelTypes' /\ TasksKnown'
    BY <1>8 DEF LaunchWorker, Up, channelVars, coordVars, lifecycleVars,
       processVars, schedulerVars, LifecycleTypes, SchedulerTypes,
       CoordTypes, ProcessTypes, ChannelTypes, TasksKnown
  <2> QED
    BY <2>1
<1>9. ASSUME NEW v \in Worker, NEW w \in Worker, EvictAndLaunchWorker(v, w)
      PROVE  TypeInv'
  <2>1. Msg("exit") \in Message /\ Msg("exit").cmd = "exit"
    BY MessageTypes DEF Msg, Commands
  <2>send. SendThrough(workers[v], v, Msg("exit"))
    BY <1>9 DEF EvictAndLaunchWorker
  <2>known. ChannelTypes /\ CoordTypes
    BY DEF TypeInv, TypeOK
  <2>sent. /\ toWorker' \in [Worker -> Seq(Message)]
           /\ coord' \in {"up", "exited", "crashed"}
           /\ \A u \in Worker : u # v => toWorker'[u] = toWorker[u]
           /\ Queued(toWorker'[v]) \subseteq Queued(toWorker[v]) \cup {Msg("exit")}
    BY <2>send, <2>known, <2>1, SendStep
  <2>2. /\ toWorker' \in [Worker -> Seq(Message)]
       /\ coord' \in {"up", "exited", "crashed"}
    BY <2>sent
  <2>3. /\ \A u \in Worker : u # v => toWorker'[u] = toWorker[u]
       /\ Queued(toWorker'[v]) \subseteq Queued(toWorker[v]) \cup {Msg("exit")}
    BY <2>sent
  <2>4. older' \subseteq Worker \X Worker
    BY <1>9, OrderTypes DEF EvictAndLaunchWorker, SchedulerTypes
  <2>5. LifecycleTypes' /\ ProcessTypes'
    BY <1>9 DEF EvictAndLaunchWorker, Up, lifecycleVars, processVars,
       LifecycleTypes, ProcessTypes
  <2>6. SchedulerTypes'
    BY <1>9, <2>4 DEF EvictAndLaunchWorker, schedulerVars, lifecycleVars,
       SchedulerTypes, LifecycleTypes
  <2>7. CoordTypes'
    BY <1>9, <2>2 DEF EvictAndLaunchWorker, coordVars, CoordTypes
  <2>8. ChannelTypes'
    BY <1>9, <2>2 DEF EvictAndLaunchWorker, channelVars, ChannelTypes
  <2>9. submitted' = submitted /\ (strand' # "none" => strand # "none")
    BY <1>9 DEF EvictAndLaunchWorker, lifecycleVars
  <2>10. \A u \in Worker : proc'[u] = "running" => job'[u] # 0
    BY <1>9 DEF EvictAndLaunchWorker, processVars, ProcessTypes, TasksKnown
  <2>11. \A m \in Queued(toWorker'[v]) : m \in Queued(toWorker[v])
         \/ (m.cmd = "execute" => m.task \in 1..Len(submitted))
    BY <2>1, <2>3
  <2>12. TasksKnown'
    BY <2>3, <2>9, <2>10, <2>11, TasksKept
  <2> QED
    BY <2>5, <2>6, <2>7, <2>8, <2>12
<1>10. CASE WaitForNewWorker
  <2>1. Current \in Component /\ ComponentId \in 1..Len(submitted)
      /\ ComponentId \in Nat
    BY <1>10, CurrentTask DEF WaitForNewWorker
  <2>2. LifecycleTypes' /\ CoordTypes' /\ ProcessTypes' /\ ChannelTypes'
      /\ TasksKnown'
    BY <1>10 DEF WaitForNewWorker, Up, channelVars, coordVars,
       lifecycleVars, processVars, LifecycleTypes, CoordTypes, ProcessTypes,
       ChannelTypes, TasksKnown
  <2>3. SchedulerTypes'
    BY <1>10, <2>1 DEF WaitForNewWorker, schedulerVars, lifecycleVars,
       SchedulerTypes, LifecycleTypes
  <2> QED
    BY <2>2, <2>3
<1>11. CASE LockAndRelease
  <2>1. LifecycleTypes' /\ SchedulerTypes' /\ CoordTypes' /\ ProcessTypes'
      /\ ChannelTypes' /\ TasksKnown'
    BY <1>11 DEF LockAndRelease, Up, channelVars, coordVars, lifecycleVars,
       processVars, schedulerVars, LifecycleTypes, SchedulerTypes,
       CoordTypes, ProcessTypes, ChannelTypes, TasksKnown
  <2> QED
    BY <2>1
<1>12. ASSUME NEW w \in Worker, OnReady(w) PROVE TypeInv'
  <2>1. /\ toCoord' \in [Worker -> Seq(Message)]
       /\ Head(toCoord[w]) \in Message
    BY <1>12, ConsumeStep DEF OnReady
  <2>2. Msg("request_manifest") \in Message
      /\ Msg("request_manifest").cmd = "request_manifest"
    BY MessageTypes DEF Msg, Commands
  <2>send. SendThrough(HandlerFound(w), w, Msg("request_manifest"))
    BY <1>12 DEF OnReady
  <2>known. ChannelTypes /\ CoordTypes
    BY DEF TypeInv, TypeOK
  <2>sent. /\ toWorker' \in [Worker -> Seq(Message)]
           /\ coord' \in {"up", "exited", "crashed"}
           /\ \A v \in Worker : v # w => toWorker'[v] = toWorker[v]
           /\ Queued(toWorker'[w]) \subseteq Queued(toWorker[w])
            \cup {Msg("request_manifest")}
    BY <2>send, <2>known, <2>2, SendStep
  <2>3. /\ toWorker' \in [Worker -> Seq(Message)]
       /\ coord' \in {"up", "exited", "crashed"}
    BY <2>sent
  <2>4. /\ \A v \in Worker : v # w => toWorker'[v] = toWorker[v]
       /\ Queued(toWorker'[w]) \subseteq Queued(toWorker[w])
            \cup {Msg("request_manifest")}
    BY <2>sent
  <2>5. accepted' \in Seq(Worker)
    BY <1>12, AcceptedTypes DEF OnReady, CoordTypes
  <2>6. HandlerFound(w) \in {"open", "null"}
    BY DEF HandlerFound
  <2>7. LifecycleTypes' /\ SchedulerTypes' /\ ProcessTypes'
    BY <1>12 DEF OnReady, Up, lifecycleVars, processVars, schedulerVars,
       LifecycleTypes, SchedulerTypes, ProcessTypes
  <2>8. CoordTypes'
    BY <1>12, <2>3, <2>5, <2>6 DEF OnReady, coordVars, CoordTypes
  <2>9. ChannelTypes'
    BY <1>12, <2>1, <2>3 DEF OnReady, channelVars, ChannelTypes
  <2>10. submitted' = submitted /\ (strand' # "none" => strand # "none")
    BY <1>12 DEF OnReady, lifecycleVars
  <2>11. \A u \in Worker : proc'[u] = "running" => job'[u] # 0
    BY <1>12 DEF OnReady, processVars, ProcessTypes, TasksKnown
  <2>12. \A m \in Queued(toWorker'[w]) : m \in Queued(toWorker[w])
         \/ (m.cmd = "execute" => m.task \in 1..Len(submitted))
    BY <2>2, <2>4
  <2>13. TasksKnown'
    BY <2>4, <2>10, <2>11, <2>12, TasksKept
  <2> QED
    BY <2>7, <2>8, <2>9, <2>13
<1>13. ASSUME NEW w \in Worker, OnNewWorkerManifest(w) PROVE TypeInv'
  <2> DEFINE m == CaptureCurrentEnv(Head(toCoord[w]).pkgs)
  <2>1. toCoord' \in [Worker -> Seq(Message)] /\ Head(toCoord[w]) \in Message
    BY <1>13, ConsumeStep DEF OnNewWorkerManifest
  <2>2. m \in Manifest
    BY <2>1, ManifestTypes DEF Message
  <2>3. LifecycleTypes' /\ ProcessTypes'
    BY <1>13 DEF OnNewWorkerManifest, lifecycleVars, processVars,
       LifecycleTypes, ProcessTypes
  <2>4. ASSUME NEW n \in Servable(m), AssignNewWorker(w, m, n) PROVE TypeInv'
    <3>1. n \in waiting /\ n \in 1..Len(submitted) /\ n \in Nat
        /\ submitted[n] \in Component
      BY ElementOfSeq DEF Servable, SchedulerTypes, LifecycleTypes
    <3>2. TaskMsg("execute", n) \in Message /\ TaskMsg("execute", n).task = n
      BY <3>1, MessageTypes DEF TaskMsg, Commands
    <3>send. SendThrough(workers[w], w, TaskMsg("execute", n))
      BY <2>4 DEF AssignNewWorker
    <3>known. ChannelTypes /\ CoordTypes
      BY DEF TypeInv, TypeOK
    <3>3. /\ toWorker' \in [Worker -> Seq(Message)]
          /\ coord' \in {"up", "exited", "crashed"}
          /\ \A v \in Worker : v # w => toWorker'[v] = toWorker[v]
          /\ Queued(toWorker'[w]) \subseteq Queued(toWorker[w])
               \cup {TaskMsg("execute", n)}
      BY <3>send, <3>known, <3>2, SendStep
    <3>4. RecordLastExecuted(m, submitted[n]) \in Manifest
      BY <2>2, <3>1, ManifestTypes
    <3>5. SchedulerTypes'
      BY <1>13, <2>4, <3>4 DEF OnNewWorkerManifest, AssignNewWorker,
         lifecycleVars, SchedulerTypes
    <3>6. CoordTypes'
      BY <1>13, <3>3 DEF OnNewWorkerManifest, CoordTypes
    <3>7. ChannelTypes'
      BY <2>1, <3>3 DEF ChannelTypes
    <3>8. TasksKnown'
      BY <1>13, <3>1, <3>2, <3>3 DEF OnNewWorkerManifest, lifecycleVars,
         processVars, TasksKnown
    <3> QED
      BY <2>3, <3>5, <3>6, <3>7, <3>8
  <2>5. CASE CacheNewWorker(w, m)
    <3>1. older' \subseteq Worker \X Worker
      BY <2>5, OrderTypes DEF CacheNewWorker, SchedulerTypes
    <3>2. SchedulerTypes'
      BY <1>13, <2>2, <2>5, <3>1 DEF OnNewWorkerManifest, CacheNewWorker,
         lifecycleVars, SchedulerTypes
    <3>3. CoordTypes' /\ ChannelTypes'
      BY <1>13, <2>1, <2>5 DEF OnNewWorkerManifest, CacheNewWorker,
         CoordTypes, ChannelTypes
    <3>4. TasksKnown'
      BY <1>13, <2>5 DEF OnNewWorkerManifest, CacheNewWorker,
         lifecycleVars, processVars, TasksKnown
    <3> QED
      BY <2>3, <3>2, <3>3, <3>4
  <2> QED
    BY <1>13, <2>4, <2>5 DEF OnNewWorkerManifest
<1>14. ASSUME NEW w \in Worker, OnKnownWorkerManifest(w) PROVE TypeInv'
  <2>1. /\ toCoord' \in [Worker -> Seq(Message)]
       /\ Head(toCoord[w]) \in Message
    BY <1>14, ConsumeStep DEF OnKnownWorkerManifest
  <2>2. OnResponseManifest(manifest[w],
      CaptureCurrentEnv(Head(toCoord[w]).pkgs)) \in Manifest
    BY <2>1, ManifestTypes DEF Message, SchedulerTypes
  <2>3. manifest' \in [Worker -> Manifest \cup {NoManifest}]
    BY <1>14, <2>2 DEF OnKnownWorkerManifest, SchedulerTypes
  <2>4. LifecycleTypes' /\ CoordTypes' /\ ProcessTypes' /\ TasksKnown'
    BY <1>14 DEF OnKnownWorkerManifest, Up, channelVars, coordVars,
       lifecycleVars, processVars, LifecycleTypes, CoordTypes, ProcessTypes,
       TasksKnown, ChannelTypes
  <2>5. SchedulerTypes'
    BY <1>14, <2>3 DEF OnKnownWorkerManifest, schedulerVars, lifecycleVars,
       SchedulerTypes, LifecycleTypes
  <2>6. ChannelTypes'
    BY <1>14, <2>1 DEF OnKnownWorkerManifest, channelVars, ChannelTypes
  <2> QED
    BY <2>4, <2>5, <2>6
<1>15. ASSUME NEW w \in Worker, OnDone(w) PROVE TypeInv'
  <2>1. /\ toCoord' \in [Worker -> Seq(Message)]
       /\ Head(toCoord[w]) \in Message
    BY <1>15, ConsumeStep DEF OnDone
  <2>2. older' \subseteq Worker \X Worker
    <3>1. AddLast(older, cached, w) \subseteq Worker \X Worker
      BY OrderTypes DEF SchedulerTypes
    <3> QED
      BY <1>15, <3>1 DEF OnDone, SchedulerTypes
  <2>3. active' \subseteq Worker /\ cached' \subseteq Worker
    BY <1>15 DEF OnDone, SchedulerTypes
  <2>4. LifecycleTypes' /\ ProcessTypes' /\ TasksKnown'
    BY <1>15 DEF OnDone, Up, channelVars, lifecycleVars, processVars,
       LifecycleTypes, ProcessTypes, TasksKnown, ChannelTypes
  <2>5. SchedulerTypes'
    BY <1>15, <2>2, <2>3 DEF OnDone, schedulerVars, lifecycleVars,
       SchedulerTypes, LifecycleTypes
  <2>6. CoordTypes'
    BY <1>15, <2>1 DEF OnDone, coordVars, CoordTypes, Message
  <2>7. ChannelTypes'
    BY <1>15, <2>1 DEF OnDone, channelVars, ChannelTypes
  <2> QED
    BY <2>4, <2>5, <2>6, <2>7
<1>16. ASSUME NEW w \in Worker, UnlockLifecycle(w) PROVE TypeInv'
  <2>1. LifecycleTypes' /\ SchedulerTypes' /\ CoordTypes' /\ ProcessTypes'
      /\ ChannelTypes' /\ TasksKnown'
    BY <1>16 DEF UnlockLifecycle, Up, channelVars, coordVars, lifecycleVars,
       processVars, schedulerVars, LifecycleTypes, SchedulerTypes,
       CoordTypes, ProcessTypes, ChannelTypes, TasksKnown
  <2> QED
    BY <2>1
<1>17. ASSUME NEW w \in Worker, OnBye(w) PROVE TypeInv'
  <2>1. /\ toCoord' \in [Worker -> Seq(Message)]
       /\ Head(toCoord[w]) \in Message
    BY <1>17, ConsumeStep DEF OnBye
  <2>2. LifecycleTypes' /\ SchedulerTypes' /\ CoordTypes' /\ ProcessTypes'
      /\ TasksKnown'
    BY <1>17 DEF OnBye, Up, channelVars, coordVars, lifecycleVars,
       processVars, schedulerVars, LifecycleTypes, SchedulerTypes,
       CoordTypes, ProcessTypes, TasksKnown, ChannelTypes
  <2>3. ChannelTypes'
    BY <1>17, <2>1 DEF OnBye, channelVars, ChannelTypes
  <2> QED
    BY <2>2, <2>3
<1>18. ASSUME NEW w \in Worker, ForgetWorker(w) PROVE TypeInv'
  <2>1. LifecycleTypes' /\ SchedulerTypes' /\ CoordTypes' /\ ProcessTypes'
      /\ ChannelTypes' /\ TasksKnown'
    BY <1>18 DEF ForgetWorker, Up, channelVars, coordVars, lifecycleVars,
       processVars, schedulerVars, LifecycleTypes, SchedulerTypes,
       CoordTypes, ProcessTypes, ChannelTypes, TasksKnown
  <2> QED
    BY <2>1
<1>19. ASSUME NEW w \in Worker, Connect(w) PROVE TypeInv'
  <2>1. Msg("ready") \in Message
    BY MessageTypes DEF Commands
  <2>2. Append(toCoord[w], Msg("ready")) \in Seq(Message)
    BY <2>1, QueueAppend DEF ChannelTypes
  <2>3. LifecycleTypes' /\ SchedulerTypes' /\ CoordTypes' /\ ProcessTypes'
          /\ TasksKnown'
    BY <1>19 DEF Connect, lifecycleVars, processVars, coordVars,
       schedulerVars, LifecycleTypes, SchedulerTypes, CoordTypes,
       ProcessTypes, TasksKnown
  <2>4. ChannelTypes'
    BY <1>19, <2>2 DEF Connect, ChannelTypes
  <2> QED
    BY <2>3, <2>4
<1>20. ASSUME NEW w \in Worker, AnswerManifest(w) PROVE TypeInv'
  <2>1. /\ toWorker' \in [Worker -> Seq(Message)]
       /\ Head(toWorker[w]) \in Message
       /\ Head(toWorker[w]) \in Queued(toWorker[w])
    BY <1>20, ReceiveStep DEF AnswerManifest
  <2>2. /\ \A v \in Worker : v # w => toWorker'[v] = toWorker[v]
       /\ Queued(toWorker'[w]) \subseteq Queued(toWorker[w])
    BY <1>20, ReceiveStep DEF AnswerManifest
  <2>3. Append(toCoord[w], ManifestMsg(loaded[w])) \in Seq(Message)
    BY MessageTypes, QueueAppend DEF ChannelTypes, ProcessTypes
  <2>4. LifecycleTypes' /\ SchedulerTypes' /\ CoordTypes' /\ ProcessTypes'
    BY <1>20 DEF AnswerManifest, Up, coordVars, lifecycleVars, processVars,
       schedulerVars, LifecycleTypes, SchedulerTypes, CoordTypes,
       ProcessTypes
  <2>5. ChannelTypes'
    BY <1>20, <2>1, <2>3 DEF AnswerManifest, channelVars, ChannelTypes
  <2>6. submitted' = submitted /\ (strand' # "none" => strand # "none")
    BY <1>20 DEF AnswerManifest, lifecycleVars
  <2>7. \A u \in Worker : proc'[u] = "running" => job'[u] # 0
    BY <1>20 DEF AnswerManifest, processVars, ProcessTypes, TasksKnown
  <2>8. \A m \in Queued(toWorker'[w]) : m \in Queued(toWorker[w])
         \/ (m.cmd = "execute" => m.task \in 1..Len(submitted))
    BY <2>2
  <2>9. TasksKnown'
    BY <2>2, <2>6, <2>7, <2>8, TasksKept
  <2> QED
    BY <2>4, <2>5, <2>9
<1>21. ASSUME NEW w \in Worker, StartComponent(w) PROVE TypeInv'
  <2>1. /\ toWorker' \in [Worker -> Seq(Message)]
       /\ Head(toWorker[w]) \in Message
       /\ Head(toWorker[w]) \in Queued(toWorker[w])
    BY <1>21, ReceiveStep DEF StartComponent
  <2>2. /\ \A v \in Worker : v # w => toWorker'[v] = toWorker[v]
       /\ Queued(toWorker'[w]) \subseteq Queued(toWorker[w])
    BY <1>21, ReceiveStep DEF StartComponent
  <2>3. Head(toWorker[w]).cmd = "execute"
    BY <1>21 DEF StartComponent, Receives
  <2>4. Head(toWorker[w]).task \in 1..Len(submitted) /\ Len(submitted) \in Nat
    BY <2>1, <2>3, LenProperties DEF TasksKnown, LifecycleTypes
  <2>5. job' \in [Worker -> 0..Len(submitted)] /\ submitted' = submitted
    BY <1>21, <2>4 DEF StartComponent, ProcessTypes, lifecycleVars
  <2>6. job'[w] # 0 /\ \A v \in Worker : v # w =>
      job'[v] = job[v] /\ proc'[v] = proc[v]
    BY <1>21, <2>4 DEF StartComponent, ProcessTypes
  <2>7. LifecycleTypes' /\ SchedulerTypes' /\ CoordTypes'
    BY <1>21 DEF StartComponent, Up, coordVars, lifecycleVars,
       schedulerVars, LifecycleTypes, SchedulerTypes, CoordTypes
  <2>8. ProcessTypes'
    BY <1>21, <2>5 DEF StartComponent, processVars, ProcessTypes, LifecycleTypes
  <2>9. ChannelTypes'
    BY <1>21, <2>1 DEF StartComponent, channelVars, ChannelTypes
  <2>10. submitted' = submitted /\ (strand' # "none" => strand # "none")
    BY <1>21 DEF StartComponent, lifecycleVars
  <2>11. \A u \in Worker : proc'[u] = "running" => job'[u] # 0
    BY <1>21, <2>6 DEF StartComponent, processVars, ProcessTypes, TasksKnown
  <2>12. \A m \in Queued(toWorker'[w]) : m \in Queued(toWorker[w])
         \/ (m.cmd = "execute" => m.task \in 1..Len(submitted))
    BY <2>2
  <2>13. TasksKnown'
    BY <2>2, <2>10, <2>11, <2>12, TasksKept
  <2> QED
    BY <2>7, <2>8, <2>9, <2>13
<1>22. ASSUME NEW w \in Worker, FinishComponent(w) PROVE TypeInv'
  <2>1. job[w] \in 1..Len(submitted) /\ Len(submitted) \in Nat
    BY <1>22, LenProperties DEF FinishComponent, TasksKnown, ProcessTypes,
       LifecycleTypes
  <2>2. submitted[job[w]] \in Component
    BY <2>1, ElementOfSeq DEF LifecycleTypes
  <2>3. loaded[w] \cup Lib[submitted[job[w]]].loads \in SUBSET Package
    BY <2>2, CompatibilityAssumption DEF Library, ProcessTypes
  <2>4. executed' \in Seq(Component)
    BY <1>22, <2>2, AppendProperties DEF FinishComponent, ProcessTypes
  <2>5. toCoord[w] \o ManifestThenDone(job[w],
      loaded[w] \cup Lib[submitted[job[w]]].loads) \in Seq(Message)
    <3>1. /\ ManifestMsg(loaded[w] \cup Lib[submitted[job[w]]].loads)
               \in Message
          /\ TaskMsg("done", job[w]) \in Message
      BY <2>1, <2>3, MessageTypes DEF Commands
    <3> QED
      BY <3>1, QueueConcat DEF ManifestThenDone, ChannelTypes
  <2>6. job' \in [Worker -> 0..Len(submitted)] /\ submitted' = submitted
    BY <1>22, <2>1 DEF FinishComponent, ProcessTypes, lifecycleVars
  <2>7. loaded' \in [Worker -> SUBSET Package]
    BY <1>22, <2>3 DEF FinishComponent, ProcessTypes
  <2>8. LifecycleTypes' /\ SchedulerTypes' /\ CoordTypes' /\ TasksKnown'
    BY <1>22 DEF FinishComponent, Up, channelVars, coordVars, lifecycleVars,
       processVars, schedulerVars, LifecycleTypes, SchedulerTypes,
       CoordTypes, TasksKnown, ProcessTypes, ChannelTypes
  <2>9. ProcessTypes'
    BY <1>22, <2>6, <2>7, <2>4 DEF FinishComponent, processVars,
       ProcessTypes, LifecycleTypes
  <2>10. ChannelTypes'
    BY <1>22, <2>5 DEF FinishComponent, channelVars, ChannelTypes
  <2> QED
    BY <2>8, <2>9, <2>10
<1>23. ASSUME NEW w \in Worker, SayBye(w) PROVE TypeInv'
  <2>1. /\ toWorker' \in [Worker -> Seq(Message)]
       /\ Head(toWorker[w]) \in Message
       /\ Head(toWorker[w]) \in Queued(toWorker[w])
    BY <1>23, ReceiveStep DEF SayBye
  <2>2. /\ \A v \in Worker : v # w => toWorker'[v] = toWorker[v]
       /\ Queued(toWorker'[w]) \subseteq Queued(toWorker[w])
    BY <1>23, ReceiveStep DEF SayBye
  <2>3. Append(toCoord[w], Msg("bye")) \in Seq(Message)
    BY MessageTypes, QueueAppend DEF ChannelTypes, Commands
  <2>4. Len(submitted) \in Nat
    BY LenProperties DEF LifecycleTypes
  <2>5. job' \in [Worker -> 0..Len(submitted)] /\ submitted' = submitted
    BY <1>23, <2>4 DEF SayBye, ProcessTypes, lifecycleVars
  <2>6. LifecycleTypes' /\ SchedulerTypes' /\ CoordTypes'
    BY <1>23 DEF SayBye, Up, coordVars, lifecycleVars, schedulerVars,
       LifecycleTypes, SchedulerTypes, CoordTypes
  <2>7. ProcessTypes'
    BY <1>23, <2>5 DEF SayBye, processVars, ProcessTypes, LifecycleTypes
  <2>8. ChannelTypes'
    BY <1>23, <2>1, <2>3 DEF SayBye, channelVars, ChannelTypes
  <2>9. submitted' = submitted /\ (strand' # "none" => strand # "none")
    BY <1>23 DEF SayBye, lifecycleVars
  <2>10. \A u \in Worker : proc'[u] = "running" => job'[u] # 0
    BY <1>23 DEF SayBye, processVars, ProcessTypes, TasksKnown
  <2>11. \A m \in Queued(toWorker'[w]) : m \in Queued(toWorker[w])
         \/ (m.cmd = "execute" => m.task \in 1..Len(submitted))
    BY <2>2
  <2>12. TasksKnown'
    BY <2>2, <2>9, <2>10, <2>11, TasksKept
  <2> QED
    BY <2>6, <2>7, <2>8, <2>12
<1>24. ASSUME NEW w \in Worker, WorkerDies(w) PROVE TypeInv'
  <2>1. \A k \in 0..Len(toCoord[w]) : SubSeq(toCoord[w], 1, k) \in Seq(Message)
    BY QueuePrefix DEF ChannelTypes
  <2>2. Len(submitted) \in Nat
    BY LenProperties DEF LifecycleTypes
  <2>3. job' \in [Worker -> 0..Len(submitted)] /\ submitted' = submitted
    BY <1>24, <2>2 DEF WorkerDies, ProcessTypes, lifecycleVars
  <2>4. LifecycleTypes' /\ SchedulerTypes' /\ CoordTypes' /\ TasksKnown'
    BY <1>24 DEF WorkerDies, Up, channelVars, coordVars, lifecycleVars,
       processVars, schedulerVars, LifecycleTypes, SchedulerTypes,
       CoordTypes, TasksKnown, ProcessTypes, ChannelTypes
  <2>5. ProcessTypes'
    BY <1>24, <2>3 DEF WorkerDies, processVars, ProcessTypes, LifecycleTypes
  <2>6. ChannelTypes'
    BY <1>24, <2>1 DEF WorkerDies, channelVars, ChannelTypes
  <2> QED
    BY <2>4, <2>5, <2>6
<1>25. ASSUME NEW w \in Worker, DoAccept(w) PROVE TypeInv'
  <2>1. accepted' \in Seq(Worker)
    BY <1>25, AppendProperties DEF DoAccept, CoordTypes
  <2>2. LifecycleTypes' /\ SchedulerTypes' /\ ProcessTypes' /\ TasksKnown'
    BY <1>25 DEF DoAccept, channelVars, lifecycleVars, processVars,
       schedulerVars, LifecycleTypes, SchedulerTypes, ProcessTypes, TasksKnown
  <2>3. CoordTypes' /\ ChannelTypes'
    BY <1>25, <2>1 DEF DoAccept, Up, channelVars, CoordTypes, ChannelTypes
  <2> QED
    BY <2>2, <2>3
<1>26. CASE UNCHANGED vars
  BY <1>26 DEF vars, lifecycleVars, schedulerVars, coordVars, processVars,
     channelVars,
     LifecycleTypes, SchedulerTypes, CoordTypes, ProcessTypes, ChannelTypes,
       TasksKnown
<1> QED
  BY <1>1, <1>2, <1>3, <1>4, <1>5, <1>6, <1>7, <1>8, <1>9, <1>10, <1>11, <1>12,
     <1>13, <1>14, <1>15, <1>16, <1>17, <1>18, <1>19, <1>20, <1>21, <1>22,
         <1>23, <1>24, <1>25, <1>26
     DEF Next, Lifecycle, Lambda, Handler, WorkerStep

(* The types and the known task ids are invariants of the specification.   *)
THEOREM TypeInvariance == Spec => []TypeInv
BY TypeInvInit, TypeInvStep, PTL DEF Spec

(* Every variable keeps its type (TypeOK of SecCask). *)
THEOREM TypeCorrect == Spec => []TypeOK
<1>1. TypeInv => TypeOK
  BY DEF TypeInv
<1> QED
  BY <1>1, TypeInvariance, PTL

------------------------------------------------------------------------------
(* The pool *)

(* The inductive invariant (its parts are defined in SecCask).             *)
PoolInv == TypeInv /\ CallPhase /\ ManifestPhase /\ SlotsReserved

(* Where "ready" is after the operations on a queue. *)
LEMMA ReadyAppend ==
  ASSUME NEW q \in Seq(Message), NEW m \in Message, m.cmd # "ready"
  PROVE  ReadyAt(Append(q, m)) = ReadyAt(q)
<1>1. /\ Len(Append(q, m)) = Len(q) + 1
      /\ \A i \in 1..Len(q) : Append(q, m)[i] = q[i]
      /\ Append(q, m)[Len(q) + 1] = m
  BY AppendProperties
<1>2. Len(q) \in Nat
  BY LenProperties
<1> QED
  BY <1>1, <1>2 DEF ReadyAt

(* Only "ready" at the head is a "ready", and it goes with the head.       *)
LEMMA ReadyTail ==
  ASSUME NEW q \in Seq(Message), q # <<>>, ReadyAt(q) \subseteq {1}
  PROVE  ReadyAt(Tail(q)) = {}
<1>1. /\ Len(Tail(q)) = Len(q) - 1
      /\ \A i \in 1..Len(Tail(q)) : Tail(q)[i] = q[i + 1]
  BY HeadTailProperties
<1>2. Len(q) \in Nat \ {0}
  BY EmptySeq
<1>3. ASSUME NEW i \in 1..Len(Tail(q)), Tail(q)[i].cmd = "ready"
      PROVE  FALSE
  <2>1. i + 1 \in 1..Len(q) /\ q[i + 1].cmd = "ready" /\ i + 1 # 1
    BY <1>1, <1>2, <1>3
  <2> QED
    BY <2>1 DEF ReadyAt
<1> QED
  BY <1>3 DEF ReadyAt

(* A prefix has "ready" only where the queue has it.                       *)
LEMMA ReadyPrefix ==
  ASSUME NEW q \in Seq(Message), NEW k \in 0..Len(q)
  PROVE  ReadyAt(SubSeq(q, 1, k)) \subseteq ReadyAt(q)
<1>1. Len(q) \in Nat /\ \A i \in 1..Len(q) : q[i] \in Message
  BY LenProperties, ElementOfSeq
<1>2. /\ Len(SubSeq(q, 1, k)) = IF 1 <= k THEN k - 1 + 1 ELSE 0
      /\ \A i \in 1..(k - 1 + 1) : SubSeq(q, 1, k)[i] = q[1 + i - 1]
  <2>1. \A i \in 1..k : q[i] \in Message
    BY <1>1
  <2> QED
    BY <1>1, <2>1, SubSeqProperties
<1> QED
  BY <1>1, <1>2 DEF ReadyAt

(* The two messages of a finished component add no "ready".                *)
LEMMA ReadyConcat ==
  ASSUME NEW q \in Seq(Message), NEW m1 \in Message, NEW m2 \in Message,
         m1.cmd # "ready", m2.cmd # "ready"
  PROVE  ReadyAt(q \o <<m1, m2>>) = ReadyAt(q)
<1>1. <<m1, m2>> \in Seq(Message) /\ Len(<<m1, m2>>) = 2
  OBVIOUS
<1>2. /\ Len(q \o <<m1, m2>>) = Len(q) + 2
      /\ \A i \in 1..(Len(q) + 2) : (q \o <<m1, m2>>)[i] =
            IF i <= Len(q) THEN q[i] ELSE <<m1, m2>>[i - Len(q)]
  BY <1>1, ConcatProperties
<1>3. Len(q) \in Nat
  BY LenProperties
<1>4. /\ (q \o <<m1, m2>>)[Len(q) + 1] = m1
      /\ (q \o <<m1, m2>>)[Len(q) + 2] = m2
  BY <1>2, <1>3
<1>5. \A i \in 1..Len(q) : (q \o <<m1, m2>>)[i] = q[i]
  BY <1>2, <1>3
<1>6. \A i \in 1..(Len(q) + 2) :
         i \in 1..Len(q) \/ i = Len(q) + 1 \/ i = Len(q) + 2
  BY <1>3
<1> QED
  BY <1>2, <1>3, <1>4, <1>5, <1>6 DEF ReadyAt

(* The invariant holds when the coordinator starts: nothing is launched.   *)
LEMMA PoolInvInit == Init => PoolInv
<1> SUFFICES ASSUME Init PROVE PoolInv
  OBVIOUS
<1>1. Pending = {}
  BY DEF Init, Pending
<1>2. CallPhase
  BY <1>1 DEF Init, CallPhase, CallOver, AtMostOne
<1>3. ManifestPhase
  <2>1. Len(<<>>) = 0
    BY EmptySeq
  <2>2. ReadyAt(<<>>) = {}
    BY <2>1 DEF ReadyAt
  <2> QED
    BY <2>2 DEF Init, ManifestPhase, KnownWorkers
<1>4. SlotsReserved
  <2>1. active \cup cached \cup Pending = {}
    BY <1>1 DEF Init
  <2> QED
    BY <2>1, FS_EmptySet, SecCaskAssumption DEF SlotsReserved
<1> QED
  BY <1>2, <1>3, <1>4, TypeInvInit DEF PoolInv

------------------------------------------------------------------------------
(* A step that leaves the call, the pool and the pending workers alone.    *)
LEMMA PhaseKept ==
  ASSUME PoolInv,
         UNCHANGED <<lc, strand, submitted, active, cached, waiting,
           unlocking, mutex>>,
         Pending' = Pending
  PROVE  CallPhase' /\ SlotsReserved'
BY DEF PoolInv, CallPhase, CallOver, AtMostOne, SlotsReserved

(* ManifestPhase when w is the only worker whose process, queue to the     *)
(* coordinator or manifest changes.                                        *)
LEMMA ManifestKept ==
  ASSUME ManifestPhase, NEW w \in Worker,
         \A v \in Worker : v # w =>
            /\ proc'[v] = proc[v] /\ toCoord'[v] = toCoord[v]
                 /\ manifest'[v] = manifest[v]
            /\ v \in KnownWorkers' <=> v \in KnownWorkers
            /\ v \in active' \cup cached' <=> v \in active \cup cached,
         active' \cap cached' = {}, active' \cup cached' \subseteq Worker,
         w \in active' \cup cached' => manifest'[w] # NoManifest,
         proc'[w] \in {"unused", "launched", "accepted"} =>
            w \notin KnownWorkers' /\ toCoord'[w] = <<>>
              /\ manifest'[w] = NoManifest,
         ReadyAt(toCoord'[w]) \subseteq {1},
         ReadyAt(toCoord'[w]) # {} => manifest'[w] = NoManifest
  PROVE  ManifestPhase'
<1>1. \A v \in active' \cup cached' : manifest'[v] # NoManifest
  BY DEF ManifestPhase
<1>2. \A v \in Worker : proc'[v] \in {"unused", "launched", "accepted"} =>
         v \notin KnownWorkers' /\ toCoord'[v] = <<>>
           /\ manifest'[v] = NoManifest
  BY DEF ManifestPhase
<1>3. \A v \in Worker :
         /\ ReadyAt(toCoord'[v]) \subseteq {1}
         /\ ReadyAt(toCoord'[v]) # {} => manifest'[v] = NoManifest
  <2> SUFFICES ASSUME NEW v \in Worker
               PROVE  /\ ReadyAt(toCoord'[v]) \subseteq {1}
                      /\ ReadyAt(toCoord'[v]) # {} => manifest'[v] = NoManifest
    OBVIOUS
  <2>1. CASE v = w
    BY <2>1
  <2>2. CASE v # w
    <3>1. toCoord'[v] = toCoord[v] /\ manifest'[v] = manifest[v]
      BY <2>2
    <3>2. /\ ReadyAt(toCoord[v]) \subseteq {1}
          /\ ReadyAt(toCoord[v]) # {} => manifest[v] = NoManifest
      BY DEF ManifestPhase
    <3> QED
      BY <3>1, <3>2
  <2> QED
    BY <2>1, <2>2
<1> QED
  BY <1>1, <1>2, <1>3 DEF ManifestPhase

(* The head of a queue is its first element.                               *)
LEMMA HeadIsFirst ==
  ASSUME NEW q \in Seq(Message), q # <<>>
  PROVE  1 \in 1..Len(q) /\ Head(q) = q[1]
BY EmptySeq

(* No step breaks the invariant: one case per action. *)
THEOREM PoolInvStep ==
  PoolInv /\ [Next]_vars => CallPhase' /\ ManifestPhase' /\ SlotsReserved'
<1> SUFFICES ASSUME PoolInv, [Next]_vars
             PROVE  CallPhase' /\ ManifestPhase' /\ SlotsReserved'
  OBVIOUS
<1> USE DEF PoolInv, TypeInv, TypeOK
<1>1. ASSUME NEW w \in Worker, SendExit(w)
      PROVE  CallPhase' /\ ManifestPhase' /\ SlotsReserved'
  <2>1. UNCHANGED <<lc, strand, submitted, active, cached, waiting,
                  unlocking, mutex>>
    BY <1>1 DEF SendExit, lifecycleVars, schedulerVars, coordVars,
       processVars, channelVars
  <2>2. Pending' = Pending
    BY <1>1 DEF SendExit, lifecycleVars, schedulerVars, coordVars,
       processVars, channelVars, Pending
  <2>3. ManifestPhase'
    BY <1>1 DEF SendExit, lifecycleVars, schedulerVars, coordVars,
       processVars, channelVars, ManifestPhase, KnownWorkers
  <2> QED
    BY <2>1, <2>2, <2>3, PhaseKept
<1>2. CASE ExitLoopInvalidated
  <2>1. UNCHANGED <<lc, strand, submitted, active, cached, waiting,
                  unlocking, mutex>>
    BY <1>2 DEF ExitLoopInvalidated, lifecycleVars, schedulerVars,
       coordVars, processVars, channelVars
  <2>2. Pending' = Pending
    BY <1>2 DEF ExitLoopInvalidated, lifecycleVars, schedulerVars,
       coordVars, processVars, channelVars, Pending
  <2>3. ManifestPhase'
    BY <1>2 DEF ExitLoopInvalidated, lifecycleVars, schedulerVars,
       coordVars, processVars, channelVars, ManifestPhase, KnownWorkers
  <2> QED
    BY <2>1, <2>2, <2>3, PhaseKept
<1>3. ASSUME NEW w \in Worker, ForgetWorker(w)
      PROVE  CallPhase' /\ ManifestPhase' /\ SlotsReserved'
  <2>1. UNCHANGED <<lc, strand, submitted, active, cached, waiting,
                  unlocking, mutex>>
    BY <1>3 DEF ForgetWorker, lifecycleVars, schedulerVars, coordVars,
       processVars, channelVars
  <2>2. Pending' = Pending
    BY <1>3 DEF ForgetWorker, lifecycleVars, schedulerVars, coordVars,
       processVars, channelVars, Pending
  <2>3. ManifestPhase'
    BY <1>3 DEF ForgetWorker, lifecycleVars, schedulerVars, coordVars,
       processVars, channelVars, ManifestPhase, KnownWorkers
  <2> QED
    BY <2>1, <2>2, <2>3, PhaseKept
<1>4. ASSUME NEW w \in Worker, OnReady(w)
      PROVE  CallPhase' /\ ManifestPhase' /\ SlotsReserved'
  <2>1. UNCHANGED <<lc, strand, submitted, active, cached, waiting,
                  unlocking, mutex>>
    BY <1>4 DEF OnReady, lifecycleVars, schedulerVars, coordVars,
       processVars, channelVars
  <2>2. /\ ReadyAt(toCoord'[w]) \subseteq {1}
        /\ ReadyAt(toCoord'[w]) # {} => manifest'[w] = NoManifest
    <3>1. /\ ReadyAt(toCoord[w]) \subseteq {1}
          /\ ReadyAt(toCoord[w]) # {} => manifest[w] = NoManifest
      BY DEF ManifestPhase
    <3>2. toCoord[w] # <<>> /\ toCoord'[w] = Tail(toCoord[w])
      BY <1>4, ConsumeStep DEF OnReady, Handles
    <3>3. ReadyAt(Tail(toCoord[w])) = {}
      BY <3>1, <3>2, ReadyTail DEF ChannelTypes
    <3> QED
      BY <3>2, <3>3
  <2>3. \A v \in Worker : v # w =>
           proc'[v] = proc[v] /\ toCoord'[v] = toCoord[v]
             /\ manifest'[v] = manifest[v]
    BY <1>4 DEF OnReady, Consume, lifecycleVars, schedulerVars, coordVars,
       processVars, channelVars, ProcessTypes, ChannelTypes, SchedulerTypes
  <2>4. manifest'[w] # NoManifest <=> manifest[w] # NoManifest
    <3>1. ReadyAt(toCoord[w]) # {}
      <4>1. 1 \in 1..Len(toCoord[w]) /\ toCoord[w][1].cmd = "ready"
        BY <1>4, HeadIsFirst DEF OnReady, Handles, ChannelTypes
      <4> QED
        BY <4>1 DEF ReadyAt
    <3>2. manifest[w] = NoManifest
      BY <3>1 DEF ManifestPhase
    <3> QED
      BY <1>4, <3>2 DEF OnReady, SchedulerTypes
  <2>5. /\ proc[w] # "unused" /\ proc'[w] # "unused"
        /\ proc'[w] \in {"unused", "launched", "accepted"} =>
             w \notin KnownWorkers' /\ toCoord'[w] = <<>>
               /\ manifest'[w] = NoManifest
    <3>1. proc[w] \notin {"unused", "launched", "accepted"}
      BY <1>4 DEF OnReady, Handles, ManifestPhase
    <3>2. proc' = proc
      BY <1>4 DEF OnReady, processVars
    <3> QED
      BY <3>1, <3>2
  <2>6. \A v \in Worker : v # w => (v \in KnownWorkers' <=> v \in KnownWorkers)
    BY <1>4 DEF OnReady, schedulerVars, KnownWorkers
  <2>7. Pending' = Pending
    BY <2>3, <2>4, <2>5 DEF Pending
  <2>8. ManifestPhase'
    <3>1. active' \cap cached' = {} /\ active' \cup cached' \subseteq Worker
      BY <2>1 DEF ManifestPhase, SchedulerTypes
    <3>2. w \in active' \cup cached' => manifest'[w] # NoManifest
      BY <2>1, <2>4 DEF ManifestPhase
    <3> QED
      BY <2>1, <2>2, <2>3, <2>5, <2>6, <3>1, <3>2, ManifestKept
  <2> QED
    BY <2>1, <2>7, <2>8, PhaseKept
<1>5. ASSUME NEW w \in Worker, OnKnownWorkerManifest(w)
      PROVE  CallPhase' /\ ManifestPhase' /\ SlotsReserved'
  <2>1. UNCHANGED <<lc, strand, submitted, active, cached, waiting,
                  unlocking, mutex>>
    BY <1>5 DEF OnKnownWorkerManifest, lifecycleVars, schedulerVars,
       coordVars, processVars, channelVars
  <2>2. /\ ReadyAt(toCoord'[w]) \subseteq {1}
        /\ ReadyAt(toCoord'[w]) # {} => manifest'[w] = NoManifest
    <3>1. /\ ReadyAt(toCoord[w]) \subseteq {1}
          /\ ReadyAt(toCoord[w]) # {} => manifest[w] = NoManifest
      BY DEF ManifestPhase
    <3>2. toCoord[w] # <<>> /\ toCoord'[w] = Tail(toCoord[w])
      BY <1>5, ConsumeStep DEF OnKnownWorkerManifest, Handles
    <3>3. ReadyAt(Tail(toCoord[w])) = {}
      BY <3>1, <3>2, ReadyTail DEF ChannelTypes
    <3> QED
      BY <3>2, <3>3
  <2>3. \A v \in Worker : v # w =>
           proc'[v] = proc[v] /\ toCoord'[v] = toCoord[v]
             /\ manifest'[v] = manifest[v]
    BY <1>5 DEF OnKnownWorkerManifest, Consume, lifecycleVars,
       schedulerVars, coordVars, processVars, channelVars, ProcessTypes,
       ChannelTypes, SchedulerTypes
  <2>4. manifest'[w] # NoManifest <=> manifest[w] # NoManifest
    <3>1. Head(toCoord[w]) \in Message
      BY <1>5, ConsumeStep DEF OnKnownWorkerManifest
    <3>2. OnResponseManifest(manifest[w],
        CaptureCurrentEnv(Head(toCoord[w]).pkgs)) \in Manifest
      BY <3>1, ManifestTypes DEF Message, SchedulerTypes
    <3>3. CASE w \in KnownWorkers
      BY <1>5, <3>2, <3>3, CompatibilityAssumption DEF
         OnKnownWorkerManifest, SchedulerTypes
    <3>4. CASE w \notin KnownWorkers
      BY <1>5, <3>4 DEF OnKnownWorkerManifest
    <3> QED
      BY <3>3, <3>4
  <2>5. /\ proc[w] # "unused" /\ proc'[w] # "unused"
        /\ proc'[w] \in {"unused", "launched", "accepted"} =>
             w \notin KnownWorkers' /\ toCoord'[w] = <<>>
               /\ manifest'[w] = NoManifest
    <3>1. proc[w] \notin {"unused", "launched", "accepted"}
      BY <1>5 DEF OnKnownWorkerManifest, Handles, ManifestPhase
    <3>2. proc' = proc
      BY <1>5 DEF OnKnownWorkerManifest, processVars
    <3> QED
      BY <3>1, <3>2
  <2>6. \A v \in Worker : v # w => (v \in KnownWorkers' <=> v \in KnownWorkers)
    BY <1>5 DEF OnKnownWorkerManifest, schedulerVars, KnownWorkers
  <2>7. Pending' = Pending
    BY <2>3, <2>4, <2>5 DEF Pending
  <2>8. ManifestPhase'
    <3>1. active' \cap cached' = {} /\ active' \cup cached' \subseteq Worker
      BY <2>1 DEF ManifestPhase, SchedulerTypes
    <3>2. w \in active' \cup cached' => manifest'[w] # NoManifest
      BY <2>1, <2>4 DEF ManifestPhase
    <3> QED
      BY <2>1, <2>2, <2>3, <2>5, <2>6, <3>1, <3>2, ManifestKept
  <2> QED
    BY <2>1, <2>7, <2>8, PhaseKept
<1>6. ASSUME NEW w \in Worker, OnBye(w)
      PROVE  CallPhase' /\ ManifestPhase' /\ SlotsReserved'
  <2>1. UNCHANGED <<lc, strand, submitted, active, cached, waiting,
                  unlocking, mutex>>
    BY <1>6 DEF OnBye, lifecycleVars, schedulerVars, coordVars, processVars,
       channelVars
  <2>2. /\ ReadyAt(toCoord'[w]) \subseteq {1}
        /\ ReadyAt(toCoord'[w]) # {} => manifest'[w] = NoManifest
    <3>1. /\ ReadyAt(toCoord[w]) \subseteq {1}
          /\ ReadyAt(toCoord[w]) # {} => manifest[w] = NoManifest
      BY DEF ManifestPhase
    <3>2. toCoord[w] # <<>> /\ toCoord'[w] = Tail(toCoord[w])
      BY <1>6, ConsumeStep DEF OnBye, Handles
    <3>3. ReadyAt(Tail(toCoord[w])) = {}
      BY <3>1, <3>2, ReadyTail DEF ChannelTypes
    <3> QED
      BY <3>2, <3>3
  <2>3. \A v \in Worker : v # w =>
           proc'[v] = proc[v] /\ toCoord'[v] = toCoord[v]
             /\ manifest'[v] = manifest[v]
    BY <1>6 DEF OnBye, Consume, lifecycleVars, schedulerVars, coordVars,
       processVars, channelVars, ProcessTypes, ChannelTypes, SchedulerTypes
  <2>4. manifest'[w] # NoManifest <=> manifest[w] # NoManifest
    BY <1>6 DEF OnBye, schedulerVars
  <2>5. /\ proc[w] # "unused" /\ proc'[w] # "unused"
        /\ proc'[w] \in {"unused", "launched", "accepted"} =>
             w \notin KnownWorkers' /\ toCoord'[w] = <<>>
               /\ manifest'[w] = NoManifest
    <3>1. proc[w] \notin {"unused", "launched", "accepted"}
      BY <1>6 DEF OnBye, Handles, ManifestPhase
    <3>2. proc' = proc
      BY <1>6 DEF OnBye, processVars
    <3> QED
      BY <3>1, <3>2
  <2>6. \A v \in Worker : v # w => (v \in KnownWorkers' <=> v \in KnownWorkers)
    BY <1>6 DEF OnBye, schedulerVars, KnownWorkers
  <2>7. Pending' = Pending
    BY <2>3, <2>4, <2>5 DEF Pending
  <2>8. ManifestPhase'
    <3>1. active' \cap cached' = {} /\ active' \cup cached' \subseteq Worker
      BY <2>1 DEF ManifestPhase, SchedulerTypes
    <3>2. w \in active' \cup cached' => manifest'[w] # NoManifest
      BY <2>1, <2>4 DEF ManifestPhase
    <3> QED
      BY <2>1, <2>2, <2>3, <2>5, <2>6, <3>1, <3>2, ManifestKept
  <2> QED
    BY <2>1, <2>7, <2>8, PhaseKept
<1>7. ASSUME NEW w \in Worker, Connect(w)
      PROVE  CallPhase' /\ ManifestPhase' /\ SlotsReserved'
  <2>1. UNCHANGED <<lc, strand, submitted, active, cached, waiting,
                  unlocking, mutex>>
    BY <1>7 DEF Connect, lifecycleVars, schedulerVars, coordVars,
       processVars, channelVars
  <2>2. /\ ReadyAt(toCoord'[w]) \subseteq {1}
        /\ ReadyAt(toCoord'[w]) # {} => manifest'[w] = NoManifest
    <3>1. toCoord[w] = <<>> /\ manifest[w] = NoManifest
      BY <1>7 DEF Connect, ManifestPhase
    <3>2. toCoord'[w] = Append(<<>>, Msg("ready")) /\ manifest' = manifest
      BY <1>7, <3>1 DEF Connect, ChannelTypes, schedulerVars
    <3>3. Len(toCoord'[w]) = 1
      BY <3>2
    <3> QED
      BY <3>1, <3>2, <3>3 DEF ReadyAt
  <2>3. \A v \in Worker : v # w =>
           proc'[v] = proc[v] /\ toCoord'[v] = toCoord[v]
             /\ manifest'[v] = manifest[v]
    BY <1>7 DEF Connect, Consume, lifecycleVars, schedulerVars, coordVars,
       processVars, channelVars, ProcessTypes, ChannelTypes, SchedulerTypes
  <2>4. manifest'[w] # NoManifest <=> manifest[w] # NoManifest
    BY <1>7 DEF Connect, schedulerVars
  <2>5. /\ proc[w] # "unused" /\ proc'[w] # "unused"
        /\ proc'[w] \in {"unused", "launched", "accepted"} =>
             w \notin KnownWorkers' /\ toCoord'[w] = <<>>
               /\ manifest'[w] = NoManifest
    BY <1>7 DEF Connect, ProcessTypes
  <2>6. \A v \in Worker : v # w => (v \in KnownWorkers' <=> v \in KnownWorkers)
    BY <1>7 DEF Connect, schedulerVars, KnownWorkers
  <2>7. Pending' = Pending
    BY <2>3, <2>4, <2>5 DEF Pending
  <2>8. ManifestPhase'
    <3>1. active' \cap cached' = {} /\ active' \cup cached' \subseteq Worker
      BY <2>1 DEF ManifestPhase, SchedulerTypes
    <3>2. w \in active' \cup cached' => manifest'[w] # NoManifest
      BY <2>1, <2>4 DEF ManifestPhase
    <3> QED
      BY <2>1, <2>2, <2>3, <2>5, <2>6, <3>1, <3>2, ManifestKept
  <2> QED
    BY <2>1, <2>7, <2>8, PhaseKept
<1>8. ASSUME NEW w \in Worker, AnswerManifest(w)
      PROVE  CallPhase' /\ ManifestPhase' /\ SlotsReserved'
  <2>1. UNCHANGED <<lc, strand, submitted, active, cached, waiting,
                  unlocking, mutex>>
    BY <1>8 DEF AnswerManifest, lifecycleVars, schedulerVars, coordVars,
       processVars, channelVars
  <2>2. /\ ReadyAt(toCoord'[w]) \subseteq {1}
        /\ ReadyAt(toCoord'[w]) # {} => manifest'[w] = NoManifest
    <3>1. /\ ReadyAt(toCoord[w]) \subseteq {1}
          /\ ReadyAt(toCoord[w]) # {} => manifest[w] = NoManifest
      BY DEF ManifestPhase
    <3>2. ManifestMsg(loaded[w]) \in Message
        /\ ManifestMsg(loaded[w]).cmd # "ready"
      BY MessageTypes DEF ProcessTypes, ManifestMsg
    <3>3. toCoord'[w] = Append(toCoord[w], ManifestMsg(loaded[w]))
        /\ manifest' = manifest
      BY <1>8 DEF AnswerManifest, ChannelTypes, schedulerVars
    <3>4. ReadyAt(toCoord'[w]) = ReadyAt(toCoord[w])
      BY <3>2, <3>3, ReadyAppend DEF ChannelTypes
    <3> QED
      BY <3>1, <3>3, <3>4
  <2>3. \A v \in Worker : v # w =>
           proc'[v] = proc[v] /\ toCoord'[v] = toCoord[v]
             /\ manifest'[v] = manifest[v]
    BY <1>8 DEF AnswerManifest, Consume, lifecycleVars, schedulerVars,
       coordVars, processVars, channelVars, ProcessTypes, ChannelTypes,
       SchedulerTypes
  <2>4. manifest'[w] # NoManifest <=> manifest[w] # NoManifest
    BY <1>8 DEF AnswerManifest, schedulerVars
  <2>5. /\ proc[w] # "unused" /\ proc'[w] # "unused"
        /\ proc'[w] \in {"unused", "launched", "accepted"} =>
             w \notin KnownWorkers' /\ toCoord'[w] = <<>>
               /\ manifest'[w] = NoManifest
    BY <1>8 DEF AnswerManifest, Receives, processVars, ProcessTypes
  <2>6. \A v \in Worker : v # w => (v \in KnownWorkers' <=> v \in KnownWorkers)
    BY <1>8 DEF AnswerManifest, schedulerVars, KnownWorkers
  <2>7. Pending' = Pending
    BY <2>3, <2>4, <2>5 DEF Pending
  <2>8. ManifestPhase'
    <3>1. active' \cap cached' = {} /\ active' \cup cached' \subseteq Worker
      BY <2>1 DEF ManifestPhase, SchedulerTypes
    <3>2. w \in active' \cup cached' => manifest'[w] # NoManifest
      BY <2>1, <2>4 DEF ManifestPhase
    <3> QED
      BY <2>1, <2>2, <2>3, <2>5, <2>6, <3>1, <3>2, ManifestKept
  <2> QED
    BY <2>1, <2>7, <2>8, PhaseKept
<1>9. ASSUME NEW w \in Worker, StartComponent(w)
      PROVE  CallPhase' /\ ManifestPhase' /\ SlotsReserved'
  <2>1. UNCHANGED <<lc, strand, submitted, active, cached, waiting,
                  unlocking, mutex>>
    BY <1>9 DEF StartComponent, lifecycleVars, schedulerVars, coordVars,
       processVars, channelVars
  <2>2. /\ ReadyAt(toCoord'[w]) \subseteq {1}
        /\ ReadyAt(toCoord'[w]) # {} => manifest'[w] = NoManifest
    <3>1. /\ ReadyAt(toCoord[w]) \subseteq {1}
          /\ ReadyAt(toCoord[w]) # {} => manifest[w] = NoManifest
      BY DEF ManifestPhase
    <3>2. toCoord' = toCoord /\ manifest' = manifest
      BY <1>9 DEF StartComponent, channelVars, schedulerVars
    <3> QED
      BY <3>1, <3>2
  <2>3. \A v \in Worker : v # w =>
           proc'[v] = proc[v] /\ toCoord'[v] = toCoord[v]
             /\ manifest'[v] = manifest[v]
    BY <1>9 DEF StartComponent, Consume, lifecycleVars, schedulerVars,
       coordVars, processVars, channelVars, ProcessTypes, ChannelTypes,
       SchedulerTypes
  <2>4. manifest'[w] # NoManifest <=> manifest[w] # NoManifest
    BY <1>9 DEF StartComponent, schedulerVars
  <2>5. /\ proc[w] # "unused" /\ proc'[w] # "unused"
        /\ proc'[w] \in {"unused", "launched", "accepted"} =>
             w \notin KnownWorkers' /\ toCoord'[w] = <<>>
               /\ manifest'[w] = NoManifest
    BY <1>9 DEF StartComponent, Receives, processVars, ProcessTypes
  <2>6. \A v \in Worker : v # w => (v \in KnownWorkers' <=> v \in KnownWorkers)
    BY <1>9 DEF StartComponent, schedulerVars, KnownWorkers
  <2>7. Pending' = Pending
    BY <2>3, <2>4, <2>5 DEF Pending
  <2>8. ManifestPhase'
    <3>1. active' \cap cached' = {} /\ active' \cup cached' \subseteq Worker
      BY <2>1 DEF ManifestPhase, SchedulerTypes
    <3>2. w \in active' \cup cached' => manifest'[w] # NoManifest
      BY <2>1, <2>4 DEF ManifestPhase
    <3> QED
      BY <2>1, <2>2, <2>3, <2>5, <2>6, <3>1, <3>2, ManifestKept
  <2> QED
    BY <2>1, <2>7, <2>8, PhaseKept
<1>10. ASSUME NEW w \in Worker, FinishComponent(w)
      PROVE  CallPhase' /\ ManifestPhase' /\ SlotsReserved'
  <2>1. UNCHANGED <<lc, strand, submitted, active, cached, waiting,
                  unlocking, mutex>>
    BY <1>10 DEF FinishComponent, lifecycleVars, schedulerVars, coordVars,
       processVars, channelVars
  <2>2. /\ ReadyAt(toCoord'[w]) \subseteq {1}
        /\ ReadyAt(toCoord'[w]) # {} => manifest'[w] = NoManifest
    <3>1. /\ ReadyAt(toCoord[w]) \subseteq {1}
          /\ ReadyAt(toCoord[w]) # {} => manifest[w] = NoManifest
      BY DEF ManifestPhase
    <3> DEFINE pkgs == loaded[w] \cup Lib[submitted[job[w]]].loads
    <3>2. job[w] \in 1..Len(submitted) /\ job[w] \in Nat
      BY <1>10, LenProperties DEF FinishComponent, TasksKnown,
         ProcessTypes, LifecycleTypes
    <3>3. submitted[job[w]] \in Component
      BY <3>2, ElementOfSeq DEF LifecycleTypes
    <3>4. pkgs \in SUBSET Package
      BY <3>3, CompatibilityAssumption DEF Library, ProcessTypes
    <3>5. /\ ManifestMsg(pkgs) \in Message /\ ManifestMsg(pkgs).cmd # "ready"
          /\ TaskMsg("done", job[w]) \in Message
          /\ TaskMsg("done", job[w]).cmd # "ready"
      BY <3>2, <3>4, MessageTypes DEF Commands, ManifestMsg, TaskMsg
    <3>6. /\ toCoord'[w] =
                toCoord[w] \o <<ManifestMsg(pkgs), TaskMsg("done", job[w])>>
          /\ manifest' = manifest
      BY <1>10 DEF FinishComponent, ManifestThenDone, ChannelTypes,
         schedulerVars
    <3> HIDE DEF pkgs
    <3>7. ReadyAt(toCoord'[w]) = ReadyAt(toCoord[w])
      BY <3>5, <3>6, ReadyConcat DEF ChannelTypes
    <3> QED
      BY <3>1, <3>6, <3>7
  <2>3. \A v \in Worker : v # w =>
           proc'[v] = proc[v] /\ toCoord'[v] = toCoord[v]
             /\ manifest'[v] = manifest[v]
    BY <1>10 DEF FinishComponent, Consume, lifecycleVars, schedulerVars,
       coordVars, processVars, channelVars, ProcessTypes, ChannelTypes,
       SchedulerTypes
  <2>4. manifest'[w] # NoManifest <=> manifest[w] # NoManifest
    BY <1>10 DEF FinishComponent, schedulerVars
  <2>5. /\ proc[w] # "unused" /\ proc'[w] # "unused"
        /\ proc'[w] \in {"unused", "launched", "accepted"} =>
             w \notin KnownWorkers' /\ toCoord'[w] = <<>>
               /\ manifest'[w] = NoManifest
    BY <1>10 DEF FinishComponent, Receives, processVars, ProcessTypes
  <2>6. \A v \in Worker : v # w => (v \in KnownWorkers' <=> v \in KnownWorkers)
    BY <1>10 DEF FinishComponent, schedulerVars, KnownWorkers
  <2>7. Pending' = Pending
    BY <2>3, <2>4, <2>5 DEF Pending
  <2>8. ManifestPhase'
    <3>1. active' \cap cached' = {} /\ active' \cup cached' \subseteq Worker
      BY <2>1 DEF ManifestPhase, SchedulerTypes
    <3>2. w \in active' \cup cached' => manifest'[w] # NoManifest
      BY <2>1, <2>4 DEF ManifestPhase
    <3> QED
      BY <2>1, <2>2, <2>3, <2>5, <2>6, <3>1, <3>2, ManifestKept
  <2> QED
    BY <2>1, <2>7, <2>8, PhaseKept
<1>11. ASSUME NEW w \in Worker, SayBye(w)
      PROVE  CallPhase' /\ ManifestPhase' /\ SlotsReserved'
  <2>1. UNCHANGED <<lc, strand, submitted, active, cached, waiting,
                  unlocking, mutex>>
    BY <1>11 DEF SayBye, lifecycleVars, schedulerVars, coordVars,
       processVars, channelVars
  <2>2. /\ ReadyAt(toCoord'[w]) \subseteq {1}
        /\ ReadyAt(toCoord'[w]) # {} => manifest'[w] = NoManifest
    <3>1. /\ ReadyAt(toCoord[w]) \subseteq {1}
          /\ ReadyAt(toCoord[w]) # {} => manifest[w] = NoManifest
      BY DEF ManifestPhase
    <3>2. Msg("bye") \in Message /\ Msg("bye").cmd # "ready"
      BY MessageTypes DEF Commands, Msg
    <3>3. toCoord'[w] = Append(toCoord[w], Msg("bye")) /\ manifest' = manifest
      BY <1>11 DEF SayBye, ChannelTypes, schedulerVars
    <3>4. ReadyAt(toCoord'[w]) = ReadyAt(toCoord[w])
      BY <3>2, <3>3, ReadyAppend DEF ChannelTypes
    <3> QED
      BY <3>1, <3>3, <3>4
  <2>3. \A v \in Worker : v # w =>
           proc'[v] = proc[v] /\ toCoord'[v] = toCoord[v]
             /\ manifest'[v] = manifest[v]
    BY <1>11 DEF SayBye, Consume, lifecycleVars, schedulerVars, coordVars,
       processVars, channelVars, ProcessTypes, ChannelTypes, SchedulerTypes
  <2>4. manifest'[w] # NoManifest <=> manifest[w] # NoManifest
    BY <1>11 DEF SayBye, schedulerVars
  <2>5. /\ proc[w] # "unused" /\ proc'[w] # "unused"
        /\ proc'[w] \in {"unused", "launched", "accepted"} =>
             w \notin KnownWorkers' /\ toCoord'[w] = <<>>
               /\ manifest'[w] = NoManifest
    BY <1>11 DEF SayBye, Receives, processVars, ProcessTypes
  <2>6. \A v \in Worker : v # w => (v \in KnownWorkers' <=> v \in KnownWorkers)
    BY <1>11 DEF SayBye, schedulerVars, KnownWorkers
  <2>7. Pending' = Pending
    BY <2>3, <2>4, <2>5 DEF Pending
  <2>8. ManifestPhase'
    <3>1. active' \cap cached' = {} /\ active' \cup cached' \subseteq Worker
      BY <2>1 DEF ManifestPhase, SchedulerTypes
    <3>2. w \in active' \cup cached' => manifest'[w] # NoManifest
      BY <2>1, <2>4 DEF ManifestPhase
    <3> QED
      BY <2>1, <2>2, <2>3, <2>5, <2>6, <3>1, <3>2, ManifestKept
  <2> QED
    BY <2>1, <2>7, <2>8, PhaseKept
<1>12. ASSUME NEW w \in Worker, WorkerDies(w)
      PROVE  CallPhase' /\ ManifestPhase' /\ SlotsReserved'
  <2>1. UNCHANGED <<lc, strand, submitted, active, cached, waiting,
                  unlocking, mutex>>
    BY <1>12 DEF WorkerDies, lifecycleVars, schedulerVars, coordVars,
       processVars, channelVars
  <2>2. /\ ReadyAt(toCoord'[w]) \subseteq {1}
        /\ ReadyAt(toCoord'[w]) # {} => manifest'[w] = NoManifest
    <3>1. /\ ReadyAt(toCoord[w]) \subseteq {1}
          /\ ReadyAt(toCoord[w]) # {} => manifest[w] = NoManifest
      BY DEF ManifestPhase
    <3>2. PICK k \in 0..Len(toCoord[w]) : toCoord'[w] = SubSeq(toCoord[w], 1, k)
      BY <1>12 DEF WorkerDies, ChannelTypes
    <3>3. ReadyAt(toCoord'[w]) \subseteq ReadyAt(toCoord[w])
      BY <3>2, ReadyPrefix DEF ChannelTypes
    <3> QED
      BY <1>12, <3>1, <3>3 DEF WorkerDies, schedulerVars
  <2>3. \A v \in Worker : v # w =>
           proc'[v] = proc[v] /\ toCoord'[v] = toCoord[v]
             /\ manifest'[v] = manifest[v]
    BY <1>12 DEF WorkerDies, Consume, lifecycleVars, schedulerVars,
       coordVars, processVars, channelVars, ProcessTypes, ChannelTypes,
       SchedulerTypes
  <2>4. manifest'[w] # NoManifest <=> manifest[w] # NoManifest
    BY <1>12 DEF WorkerDies, schedulerVars
  <2>5. /\ proc[w] # "unused" /\ proc'[w] # "unused"
        /\ proc'[w] \in {"unused", "launched", "accepted"} =>
             w \notin KnownWorkers' /\ toCoord'[w] = <<>>
               /\ manifest'[w] = NoManifest
    BY <1>12 DEF WorkerDies, ProcessTypes
  <2>6. \A v \in Worker : v # w => (v \in KnownWorkers' <=> v \in KnownWorkers)
    BY <1>12 DEF WorkerDies, schedulerVars, KnownWorkers
  <2>7. Pending' = Pending
    BY <2>3, <2>4, <2>5 DEF Pending
  <2>8. ManifestPhase'
    <3>1. active' \cap cached' = {} /\ active' \cup cached' \subseteq Worker
      BY <2>1 DEF ManifestPhase, SchedulerTypes
    <3>2. w \in active' \cup cached' => manifest'[w] # NoManifest
      BY <2>1, <2>4 DEF ManifestPhase
    <3> QED
      BY <2>1, <2>2, <2>3, <2>5, <2>6, <3>1, <3>2, ManifestKept
  <2> QED
    BY <2>1, <2>7, <2>8, PhaseKept
<1>13. ASSUME NEW c \in Component, OnNewComponent(c)
      PROVE  CallPhase' /\ ManifestPhase' /\ SlotsReserved'
  <2>1. UNCHANGED <<proc, toCoord, manifest, active, cached, newWorkers>>
    BY <1>13 DEF OnNewComponent, lifecycleVars, schedulerVars, coordVars,
       processVars, channelVars
  <2>2. Pending' = Pending
    BY <2>1 DEF Pending
  <2>3. ManifestPhase' /\ SlotsReserved'
    BY <2>1, <2>2 DEF ManifestPhase, KnownWorkers, SlotsReserved
  <2>4. CallOver /\ unlocking = {}
    BY <1>13 DEF OnNewComponent, CallPhase
  <2>5. CallOver' /\ unlocking' = {} /\ lc' = "posted" /\ strand' = "posted"
    BY <1>13, <2>1, <2>2, <2>4 DEF OnNewComponent, lifecycleVars,
       schedulerVars, coordVars, processVars, channelVars, CallOver
  <2>6. CallPhase'
    BY <2>5 DEF CallPhase, CallOver, AtMostOne
  <2> QED
    BY <2>3, <2>6
<1>14. CASE ComponentReturns
  <2>1. UNCHANGED <<proc, toCoord, manifest, active, cached, newWorkers>>
    BY <1>14 DEF ComponentReturns, lifecycleVars, schedulerVars, coordVars,
       processVars, channelVars
  <2>2. Pending' = Pending
    BY <2>1 DEF Pending
  <2>3. ManifestPhase' /\ SlotsReserved'
    BY <2>1, <2>2 DEF ManifestPhase, KnownWorkers, SlotsReserved
  <2>4. CallPhase'
    BY <1>14, <2>1, <2>2 DEF ComponentReturns, lifecycleVars, schedulerVars,
       coordVars, processVars, channelVars, CallPhase, CallOver, AtMostOne
  <2> QED
    BY <2>3, <2>4
<1>15. CASE LifecycleDone
  <2>1. UNCHANGED <<proc, toCoord, manifest, active, cached, newWorkers>>
    BY <1>15 DEF LifecycleDone, lifecycleVars, schedulerVars, coordVars,
       processVars, channelVars
  <2>2. Pending' = Pending
    BY <2>1 DEF Pending
  <2>3. ManifestPhase' /\ SlotsReserved'
    BY <2>1, <2>2 DEF ManifestPhase, KnownWorkers, SlotsReserved
  <2>4. CallPhase'
    BY <1>15, <2>1, <2>2 DEF LifecycleDone, lifecycleVars, schedulerVars,
       coordVars, processVars, channelVars, CallPhase, CallOver, AtMostOne
  <2> QED
    BY <2>3, <2>4
<1>16. CASE ExitLoopEnds
  <2>1. UNCHANGED <<proc, toCoord, manifest, active, cached, newWorkers>>
    BY <1>16 DEF ExitLoopEnds, lifecycleVars, schedulerVars, coordVars,
       processVars, channelVars
  <2>2. Pending' = Pending
    BY <2>1 DEF Pending
  <2>3. ManifestPhase' /\ SlotsReserved'
    BY <2>1, <2>2 DEF ManifestPhase, KnownWorkers, SlotsReserved
  <2>4. CallPhase'
    BY <1>16, <2>1, <2>2 DEF ExitLoopEnds, lifecycleVars, schedulerVars,
       coordVars, processVars, channelVars, CallPhase, CallOver, AtMostOne
  <2> QED
    BY <2>3, <2>4
<1>17. ASSUME NEW w \in Worker, ReuseWorker(w)
      PROVE  CallPhase' /\ ManifestPhase' /\ SlotsReserved'
  <2>1. w \in cached /\ manifest[w] \in Manifest
    BY <1>17 DEF ReuseWorker, First, Reusable, ManifestPhase, SchedulerTypes
  <2>2. CallOver /\ unlocking = {} /\ lc = "posted"
    BY <1>17 DEF ReuseWorker, CallPhase
  <2>3. Current \in Component
    BY <1>17, CurrentTask DEF ReuseWorker
  <2>4. manifest'[w] \in Manifest /\ manifest'[w] # NoManifest
    BY <1>17, <2>1, <2>3, ManifestTypes, CompatibilityAssumption DEF
       ReuseWorker, SchedulerTypes
  <2>5. \A v \in Worker : v # w => manifest'[v] = manifest[v]
    BY <1>17 DEF ReuseWorker, SchedulerTypes
  <2>6. proc' = proc /\ toCoord' = toCoord /\ newWorkers' = newWorkers
    BY <1>17 DEF ReuseWorker, processVars
  <2>7. Pending' = {}
    BY <2>1, <2>2, <2>4, <2>5, <2>6, CompatibilityAssumption DEF Pending,
       CallOver
  <2>8. active' = {w} /\ cached' = cached \ {w}
    BY <1>17, <2>2 DEF ReuseWorker, CallOver
  <2>9. CallPhase'
    BY <1>17, <2>2, <2>7, <2>8 DEF ReuseWorker, CallPhase, CallOver, AtMostOne
  <2>10. ManifestPhase'
    <3>1. active' \cap cached' = {} /\ active' \cup cached' \subseteq Worker
      BY <2>1, <2>8 DEF SchedulerTypes
    <3>2. w \in KnownWorkers /\ \A v \in Worker : v # w =>
             /\ v \in KnownWorkers' <=> v \in KnownWorkers
             /\ v \in active' \cup cached' <=> v \in active \cup cached
      BY <2>1, <2>2, <2>6, <2>8 DEF KnownWorkers, CallOver
    <3>3. proc'[w] \notin {"unused", "launched", "accepted"}
      BY <2>6, <3>2 DEF ManifestPhase
    <3>4. ReadyAt(toCoord'[w]) \subseteq {1} /\ ReadyAt(toCoord'[w]) = {}
      <4>1. ReadyAt(toCoord[w]) = {}
        BY <2>1, CompatibilityAssumption DEF ManifestPhase
      <4> QED
        BY <2>6, <4>1
    <3> QED
      BY <2>4, <2>5, <2>6, <3>1, <3>2, <3>3, <3>4, ManifestKept
  <2>11. active' \cup cached' \cup Pending' = active \cup cached \cup Pending
    BY <2>1, <2>2, <2>7, <2>8 DEF CallOver
  <2>12. SlotsReserved'
    BY <2>11 DEF SlotsReserved
  <2> QED
    BY <2>9, <2>10, <2>12
<1>18. ASSUME NEW w \in Worker, LaunchWorker(w)
      PROVE  CallPhase' /\ ManifestPhase' /\ SlotsReserved'
  <2>1. CallOver /\ unlocking = {} /\ lc = "posted"
    BY <1>18 DEF LaunchWorker, CallPhase
  <2>2. Cardinality(cached) < NumSlot /\ IsFiniteSet(cached)
    <3>1. active \cup cached \cup Pending = cached
      BY <2>1 DEF CallOver
    <3>2. IsFiniteSet(cached) /\ Cardinality(cached) \in Nat
      BY <3>1, FS_CardinalityType DEF SlotsReserved
    <3>3. Cardinality(active) = 0
      BY <2>1, FS_EmptySet DEF CallOver
    <3> QED
      BY <1>18, <3>2, <3>3, SecCaskAssumption DEF LaunchWorker, PoolFull,
         RaisesPoolFull
  <2>3. manifest[w] = NoManifest /\ w \notin cached
    BY <1>18 DEF LaunchWorker, ManifestPhase, KnownWorkers
  <2>4. Pending' = {w}
    BY <1>18, <2>1, <2>3 DEF LaunchWorker, schedulerVars, Pending, CallOver,
       ProcessTypes
  <2>5. CallPhase'
    BY <1>18, <2>1, <2>4 DEF LaunchWorker, CallPhase, CallOver, AtMostOne,
       schedulerVars
  <2>6. ManifestPhase'
    <3>1. \A u \in Worker : proc'[u] \in {"unused", "launched", "accepted"} =>
        proc[u] \in {"unused", "launched", "accepted"}
      BY <1>18 DEF LaunchWorker, ProcessTypes
    <3>2. manifest' = manifest /\ toCoord' = toCoord
        /\ KnownWorkers' \subseteq KnownWorkers
      BY <1>18 DEF LaunchWorker, schedulerVars, channelVars, KnownWorkers
    <3>3. active' \cap cached' = {}
        /\ active' \cup cached' \subseteq active \cup cached
      BY <1>18 DEF LaunchWorker, schedulerVars, ManifestPhase
    <3> QED
      BY <3>1, <3>2, <3>3 DEF ManifestPhase
  <2>7. SlotsReserved'
    <3>1. active' \cup cached' \cup Pending' = cached \cup {w}
      BY <1>18, <2>1, <2>4 DEF LaunchWorker, schedulerVars, CallOver
    <3>2. /\ IsFiniteSet(cached \cup {w})
          /\ Cardinality(cached \cup {w}) = Cardinality(cached) + 1
      BY <2>2, <2>3, FS_AddElement
    <3>3. Cardinality(cached) + 1 <= NumSlot
      <4>1. Cardinality(cached) \in Nat
        BY <2>2, FS_CardinalityType
      <4> QED
        BY <2>2, <4>1, SecCaskAssumption
    <3>4. Cardinality(cached \cup {w}) <= NumSlot
      BY <3>2, <3>3
    <3>5. /\ IsFiniteSet(active' \cup cached' \cup Pending')
          /\ Cardinality(active' \cup cached' \cup Pending') <= NumSlot
      BY <3>1, <3>2, <3>4
    <3> QED
      BY <3>5 DEF SlotsReserved
  <2> QED
    BY <2>5, <2>6, <2>7
<1>19. ASSUME NEW v \in Worker, NEW w \in Worker, EvictAndLaunchWorker(v, w)
      PROVE  CallPhase' /\ ManifestPhase' /\ SlotsReserved'
  <2>1. CallOver /\ unlocking = {} /\ lc = "posted"
    BY <1>19 DEF EvictAndLaunchWorker, CallPhase
  <2>2. Cardinality(cached) <= NumSlot /\ IsFiniteSet(cached)
    <3>1. active \cup cached \cup Pending = cached
      BY <2>1 DEF CallOver
    <3> QED
      BY <3>1 DEF SlotsReserved
  <2>3. manifest[w] = NoManifest /\ w \notin cached /\ v \in cached
    BY <1>19 DEF EvictAndLaunchWorker, ManifestPhase, KnownWorkers,
       RemoveEnd, First
  <2>4. Pending' = {w}
    BY <1>19, <2>1, <2>3 DEF EvictAndLaunchWorker, Pending, CallOver,
       ProcessTypes
  <2>5. CallPhase'
    BY <1>19, <2>1, <2>4 DEF EvictAndLaunchWorker, CallPhase, CallOver,
       AtMostOne, schedulerVars
  <2>6. ManifestPhase'
    <3>1. \A u \in Worker : proc'[u] \in {"unused", "launched", "accepted"} =>
        proc[u] \in {"unused", "launched", "accepted"}
      BY <1>19 DEF EvictAndLaunchWorker, ProcessTypes
    <3>2. manifest' = manifest /\ toCoord' = toCoord
        /\ KnownWorkers' \subseteq KnownWorkers
      BY <1>19 DEF EvictAndLaunchWorker, schedulerVars, channelVars,
         KnownWorkers
    <3>3. active' \cap cached' = {}
        /\ active' \cup cached' \subseteq active \cup cached
      BY <1>19 DEF EvictAndLaunchWorker, schedulerVars, ManifestPhase
    <3> QED
      BY <3>1, <3>2, <3>3 DEF ManifestPhase
  <2>7. SlotsReserved'
    <3>1. active' \cup cached' \cup Pending' = (cached \ {v}) \cup {w}
      BY <1>19, <2>1, <2>4 DEF EvictAndLaunchWorker, CallOver
    <3>2. /\ IsFiniteSet(cached \ {v})
          /\ Cardinality(cached \ {v}) = Cardinality(cached) - 1
      BY <2>2, <2>3, FS_RemoveElement
    <3>3. /\ IsFiniteSet((cached \ {v}) \cup {w})
          /\ Cardinality((cached \ {v}) \cup {w})
               = Cardinality(cached \ {v}) + 1
      BY <2>3, <3>2, FS_AddElement
    <3>4. Cardinality((cached \ {v}) \cup {w}) <= NumSlot
      <4>1. Cardinality(cached) \in Nat
        BY <2>2, FS_CardinalityType
      <4>2. Cardinality((cached \ {v}) \cup {w}) = Cardinality(cached)
        BY <3>2, <3>3, <4>1
      <4> QED
        BY <2>2, <4>2
    <3>5. /\ IsFiniteSet(active' \cup cached' \cup Pending')
          /\ Cardinality(active' \cup cached' \cup Pending') <= NumSlot
      BY <3>1, <3>3, <3>4
    <3> QED
      BY <3>5 DEF SlotsReserved
  <2> QED
    BY <2>5, <2>6, <2>7
<1>20. CASE WaitForNewWorker
  <2>1. UNCHANGED <<proc, toCoord, manifest, active, cached, newWorkers>>
    BY <1>20 DEF WaitForNewWorker, lifecycleVars, schedulerVars, coordVars,
       processVars, channelVars
  <2>2. Pending' = Pending
    BY <2>1 DEF Pending
  <2>3. ManifestPhase' /\ SlotsReserved'
    BY <2>1, <2>2 DEF ManifestPhase, KnownWorkers, SlotsReserved
  <2>4. CallPhase'
    BY <1>20, <2>1, <2>2 DEF WaitForNewWorker, lifecycleVars, schedulerVars,
       coordVars, processVars, channelVars, CallPhase, CallOver, AtMostOne,
       ComponentId
  <2> QED
    BY <2>3, <2>4
<1>21. CASE LockAndRelease
  <2>1. UNCHANGED <<proc, toCoord, manifest, active, cached, newWorkers>>
    BY <1>21 DEF LockAndRelease, lifecycleVars, schedulerVars, coordVars,
       processVars, channelVars
  <2>2. Pending' = Pending
    BY <2>1 DEF Pending
  <2>3. ManifestPhase' /\ SlotsReserved'
    BY <2>1, <2>2 DEF ManifestPhase, KnownWorkers, SlotsReserved
  <2>4. CallPhase'
    BY <1>21, <2>1, <2>2 DEF LockAndRelease, lifecycleVars, schedulerVars,
       coordVars, processVars, channelVars, CallPhase, CallOver, AtMostOne
  <2> QED
    BY <2>3, <2>4
<1>22. ASSUME NEW w \in Worker, OnNewWorkerManifest(w)
      PROVE  CallPhase' /\ ManifestPhase' /\ SlotsReserved'
  <2> DEFINE m == CaptureCurrentEnv(Head(toCoord[w]).pkgs)
  <2>1. /\ toCoord[w] # <<>> /\ toCoord'[w] = Tail(toCoord[w])
        /\ \A v \in Worker : v # w => toCoord'[v] = toCoord[v]
        /\ Head(toCoord[w]) \in Message
    BY <1>22, ConsumeStep DEF OnNewWorkerManifest, Handles
  <2>2. m \in Manifest
    BY <2>1, ManifestTypes DEF Message
  <2>3. proc' = proc /\ proc[w] \notin {"unused", "launched", "accepted"}
      /\ manifest[w] = NoManifest
    BY <1>22, <2>1 DEF OnNewWorkerManifest, processVars, ManifestPhase
  <2>4. Pending = {w} /\ w \notin active \cup cached
    BY <2>3 DEF Pending, CallPhase, AtMostOne, ManifestPhase
  <2>5. active = {} /\ unlocking = {}
    BY <2>4 DEF CallPhase, CallOver
  <2>6. ReadyAt(toCoord'[w]) = {}
    <3>1. ReadyAt(toCoord[w]) \subseteq {1}
      BY DEF ManifestPhase
    <3>2. ReadyAt(Tail(toCoord[w])) = {}
      BY <2>1, <3>1, ReadyTail DEF ChannelTypes
    <3> QED
      BY <2>1, <3>2
  <2>7. lc \notin {"running", "exiting", "over"} /\ strand # "posted"
      /\ (lc = "locking" => mutex)
    BY <2>4 DEF CallPhase, CallOver
  <2>8. UNCHANGED <<lc, strand, submitted, unlocking, mutex>>
    BY <1>22 DEF OnNewWorkerManifest, lifecycleVars
  <2>9. ASSUME /\ manifest'[w] \in Manifest
               /\ \A v \in Worker : v # w => manifest'[v] = manifest[v]
               /\ active' \cup cached' = cached \cup {w}
               /\ active' \cap cached' = {}
               /\ \A v \in Worker : v # w =>
                    (v \in newWorkers' <=> v \in newWorkers)
        PROVE  ManifestPhase' /\ SlotsReserved' /\ Pending' = {}
    <3>1. Pending' = {}
      BY <2>3, <2>4, <2>9, CompatibilityAssumption DEF Pending
    <3>2. \A v \in Worker : v # w =>
             /\ v \in KnownWorkers' <=> v \in KnownWorkers
             /\ v \in active' \cup cached' <=> v \in active \cup cached
      BY <2>5, <2>9 DEF KnownWorkers
    <3>3. active' \cup cached' \subseteq Worker
      BY <2>9 DEF SchedulerTypes
    <3>4. ManifestPhase'
      BY <2>1, <2>3, <2>6, <2>9, <3>2, <3>3, ManifestKept,
         CompatibilityAssumption
    <3>5. active' \cup cached' \cup Pending' = active \cup cached \cup Pending
      BY <2>4, <2>5, <2>9, <3>1
    <3> QED
      BY <3>1, <3>4, <3>5 DEF SlotsReserved
  <2> HIDE DEF m
  <2>10. ASSUME NEW n \in Servable(m), AssignNewWorker(w, m, n)
         PROVE  CallPhase' /\ ManifestPhase' /\ SlotsReserved'
    <3>1. n \in waiting
      BY DEF Servable
    <3>2. waiting' = {} /\ active' = {w} /\ cached' = cached
        /\ strand # "launched"
      BY <2>5, <2>10, <3>1 DEF AssignNewWorker, CallPhase
    <3>3. submitted[n] \in Component
      BY <3>1, ElementOfSeq DEF SchedulerTypes, LifecycleTypes
    <3>4. RecordLastExecuted(m, submitted[n]) \in Manifest
      BY <2>2, <3>3, ManifestTypes
    <3>5. /\ manifest'[w] \in Manifest
          /\ \A v \in Worker : v # w => manifest'[v] = manifest[v]
          /\ \A v \in Worker : v # w => (v \in newWorkers' <=> v \in newWorkers)
      BY <2>10, <3>4 DEF AssignNewWorker, SchedulerTypes
    <3>6. ManifestPhase' /\ SlotsReserved' /\ Pending' = {}
      BY <2>4, <2>9, <3>2, <3>5
    <3>7. CallPhase'
      BY <2>5, <2>7, <2>8, <3>2, <3>6 DEF CallPhase, CallOver, AtMostOne
    <3> QED
      BY <3>6, <3>7
  <2>11. CASE CacheNewWorker(w, m)
    <3>1. waiting' = waiting /\ active' = {} /\ cached' = cached \cup {w}
      BY <2>5, <2>11 DEF CacheNewWorker
    <3>2. /\ manifest'[w] \in Manifest
          /\ \A v \in Worker : v # w => manifest'[v] = manifest[v]
          /\ \A v \in Worker : v # w => (v \in newWorkers' <=> v \in newWorkers)
      BY <2>2, <2>11 DEF CacheNewWorker, SchedulerTypes
    <3>3. ManifestPhase' /\ SlotsReserved' /\ Pending' = {}
      BY <2>5, <2>9, <3>1, <3>2
    <3>4. CallPhase'
      BY <2>5, <2>7, <2>8, <3>1, <3>3 DEF CallPhase, CallOver, AtMostOne
    <3> QED
      BY <3>3, <3>4
  <2> QED
    BY <1>22, <2>10, <2>11 DEF OnNewWorkerManifest, m
<1>23. ASSUME NEW w \in Worker, OnDone(w)
      PROVE  CallPhase' /\ ManifestPhase' /\ SlotsReserved'
  <2>1. /\ toCoord[w] # <<>> /\ toCoord'[w] = Tail(toCoord[w])
        /\ \A v \in Worker : v # w => toCoord'[v] = toCoord[v]
    BY <1>23, ConsumeStep DEF OnDone, Handles
  <2>2. UNCHANGED <<lc, strand, submitted, waiting, mutex, proc, manifest,
      newWorkers>>
    BY <1>23 DEF OnDone, lifecycleVars, schedulerVars, coordVars,
       processVars, channelVars
  <2>3. Pending' = Pending
    BY <2>2 DEF Pending
  <2>4. proc[w] \notin {"unused", "launched", "accepted"}
    BY <2>1 DEF ManifestPhase
  <2>5. ReadyAt(toCoord'[w]) = {}
    <3>1. ReadyAt(toCoord[w]) \subseteq {1}
      BY DEF ManifestPhase
    <3>2. ReadyAt(Tail(toCoord[w])) = {}
      BY <2>1, <3>1, ReadyTail DEF ChannelTypes
    <3> QED
      BY <2>1, <3>2
  <2>6. /\ active' \cup cached' = active \cup cached
        /\ active' \cap cached' = {}
        /\ KnownWorkers' = KnownWorkers
    BY <1>23, <2>2 DEF OnDone, ManifestPhase, KnownWorkers
  <2>7. ManifestPhase'
    <3>1. active' \cup cached' \subseteq Worker
      BY <2>6 DEF SchedulerTypes
    <3>2. w \in active' \cup cached' => manifest'[w] # NoManifest
      BY <2>2, <2>6 DEF ManifestPhase
    <3> QED
      BY <2>1, <2>2, <2>4, <2>5, <2>6, <3>1, <3>2, ManifestKept
  <2>8. SlotsReserved'
    BY <2>3, <2>6 DEF SlotsReserved
  <2>9. CallPhase'
    <3>1. CASE w \in active
      <4>1. active' = {} /\ unlocking' = {w}
        BY <1>23, <3>1 DEF OnDone, CallPhase, CallOver, AtMostOne
      <4>2. waiting = {} /\ Pending = {}
        BY <3>1 DEF CallPhase
      <4>3. lc \notin {"running", "exiting", "over"}
          /\ strand \notin {"posted", "launched"}
        BY <3>1 DEF CallPhase, CallOver
      <4>4. lc = "locking" => mutex
        BY <3>1 DEF CallPhase, CallOver
      <4> QED
        BY <2>2, <2>3, <4>1, <4>2, <4>3, <4>4 DEF CallPhase, CallOver, AtMostOne
    <3>2. CASE w \notin active
      <4>1. active' = active /\ unlocking' = unlocking
        BY <1>23, <3>2 DEF OnDone
      <4> QED
        BY <2>2, <2>3, <4>1 DEF CallPhase, CallOver, AtMostOne
    <3> QED
      BY <3>1, <3>2
  <2> QED
    BY <2>7, <2>8, <2>9
<1>24. ASSUME NEW w \in Worker, UnlockLifecycle(w)
      PROVE  CallPhase' /\ ManifestPhase' /\ SlotsReserved'
  <2>1. UNCHANGED <<proc, toCoord, manifest, active, cached, newWorkers>>
    BY <1>24 DEF UnlockLifecycle, lifecycleVars, schedulerVars, coordVars,
       processVars, channelVars
  <2>2. Pending' = Pending
    BY <2>1 DEF Pending
  <2>3. ManifestPhase' /\ SlotsReserved'
    BY <2>1, <2>2 DEF ManifestPhase, KnownWorkers, SlotsReserved
  <2>4. CallPhase'
    BY <1>24, <2>1, <2>2 DEF UnlockLifecycle, lifecycleVars, schedulerVars,
       coordVars, processVars, channelVars, CallPhase, CallOver, AtMostOne
  <2> QED
    BY <2>3, <2>4
<1>25. ASSUME NEW w \in Worker, DoAccept(w)
      PROVE  CallPhase' /\ ManifestPhase' /\ SlotsReserved'
  <2>1. UNCHANGED <<lc, strand, submitted, active, cached, newWorkers, waiting,
                  manifest, unlocking, mutex, toCoord>>
    BY <1>25 DEF DoAccept, lifecycleVars, schedulerVars, channelVars
  <2>2. \A u \in Worker : /\ proc'[u] = "unused" <=> proc[u] = "unused"
                          /\ proc'[u] \in {"unused", "launched", "accepted"} =>
                               proc[u] \in {"unused", "launched", "accepted"}
    BY <1>25 DEF DoAccept, ProcessTypes
  <2>3. Pending' = Pending
    BY <2>1, <2>2 DEF Pending
  <2>4. ManifestPhase'
    BY <2>1, <2>2 DEF ManifestPhase, KnownWorkers
  <2> QED
    BY <2>1, <2>3, <2>4, PhaseKept
<1>26. CASE UNCHANGED vars
  BY <1>26 DEF vars, lifecycleVars, schedulerVars, coordVars, processVars,
     channelVars, CallPhase, CallOver, ManifestPhase, SlotsReserved,
     Pending, KnownWorkers, AtMostOne
<1> QED
  BY <1>1, <1>2, <1>3, <1>4, <1>5, <1>6, <1>7, <1>8, <1>9, <1>10, <1>11,
     <1>12, <1>13, <1>14, <1>15, <1>16, <1>17, <1>18, <1>19, <1>20, <1>21,
     <1>22, <1>23, <1>24, <1>25, <1>26 DEF Next, Lifecycle, Lambda, Handler,
     WorkerStep

(* The strengthened invariant holds in every reachable state.              *)
THEOREM PoolInvariance == Spec => []PoolInv
<1>1. PoolInv /\ [Next]_vars => PoolInv'
  BY TypeInvStep, PoolInvStep DEF PoolInv
<1> QED
  BY <1>1, PoolInvInit, PTL DEF Spec

(* The pool never has more workers than the scheduler has slots.           *)
THEOREM PoolCorrect == Spec => []PoolBounded
<1>1. PoolInv => PoolBounded
  <2> SUFFICES ASSUME PoolInv PROVE PoolBounded
    OBVIOUS
  <2>1. active \cup cached \subseteq active \cup cached \cup Pending
    OBVIOUS
  <2>2. /\ IsFiniteSet(active \cup cached \cup Pending)
        /\ Cardinality(active \cup cached \cup Pending) <= NumSlot
    BY DEF PoolInv, SlotsReserved
  <2>3. /\ IsFiniteSet(active \cup cached)
        /\ Cardinality(active \cup cached)
             <= Cardinality(active \cup cached \cup Pending)
    BY <2>1, <2>2, FS_Subset
  <2>4. /\ Cardinality(active \cup cached) \in Nat
        /\ Cardinality(active \cup cached \cup Pending) \in Nat
    BY <2>2, <2>3, FS_CardinalityType
  <2> QED
    BY <2>2, <2>3, <2>4, SecCaskAssumption DEF PoolBounded
<1> QED
  BY <1>1, PoolInvariance, PTL
================================================================================
