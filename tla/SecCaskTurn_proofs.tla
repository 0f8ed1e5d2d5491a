-------------------------- MODULE SecCaskTurn_proofs ---------------------------
(***************************************************************************)
(* What passes between the coordinator and one worker is a conversation in *)
(* turns: at any time a worker is in one of five situations, and in each   *)
(* the two queues of its connection hold one of a few exact contents.      *)
(* From this follow most of what the runs check of SecCask: who is busy,   *)
(* what the scheduler knows of a cached worker, that sends do not overlap, *)
(* that no null handler is used, that the coordinator ends only when it    *)
(* should, and that the coordinator implements ComponentService.           *)
(***************************************************************************)
EXTENDS SecCask_proofs

(* The contents of a queue. Task is the component submitted last.          *)
Task == Len(submitted)
Ready == <<Msg("ready")>>
Ask == <<Msg("request_manifest")>>
Leave == <<Msg("exit")>>
Bye == <<Msg("bye")>>
Answer(w) == <<ManifestMsg(loaded[w])>>
Order == <<TaskMsg("execute", Task)>>
Report(w) == <<ManifestMsg(loaded[w]), TaskMsg("done", Task)>>
Done == <<TaskMsg("done", Task)>>

(* The coordinator does not know w yet: no process, or no "ready" handled. *)
Unknown(w) ==
  /\ w \notin KnownWorkers
  /\ manifest[w] = NoManifest
  /\ workers[w] = "absent"
  /\ toWorker[w] = <<>>
  /\ \/ /\ proc[w] \in {"unused", "launched", "accepted", "dead"}
        /\ toCoord[w] = <<>>
     \/ proc[w] \in {"idle", "dead"} /\ toCoord[w] = Ready

(* Its manifest was asked for, and has not been handled.                   *)
Asked(w) ==
  /\ w \in newWorkers
  /\ manifest[w] = NoManifest
  /\ workers[w] = "open"
  /\ \/ proc[w] \in {"idle", "dead"} /\ toWorker[w] = Ask /\ toCoord[w] = <<>>
     \/ /\ proc[w] \in {"idle", "dead"}
        /\ toWorker[w] = <<>> /\ toCoord[w] = Answer(w)
     \/ proc[w] = "dead" /\ toWorker[w] = <<>> /\ toCoord[w] = <<>>

(* It was given the component submitted last, and is not reported done.    *)
Working(w) ==
  /\ w \in active
  /\ manifest[w] # NoManifest
  /\ workers[w] = "open"
  /\ \/ /\ proc[w] \in {"idle", "dead"}
        /\ toWorker[w] = Order /\ toCoord[w] = <<>>
     \/ /\ proc[w] = "running" /\ job[w] = Task
        /\ toWorker[w] = <<>> /\ toCoord[w] = <<>>
     \/ /\ proc[w] \in {"idle", "dead"}
        /\ toWorker[w] = <<>> /\ toCoord[w] = Report(w)
     \/ /\ proc[w] \in {"idle", "dead"}
        /\ toWorker[w] = <<>> /\ toCoord[w] = Done
        /\ manifest[w].packages = loaded[w]
     \/ /\ proc[w] = "dead"
        /\ toWorker[w] = <<>> /\ toCoord[w] \in {<<>>, Answer(w)}

(* It waits in the cache, and the scheduler knows what it has loaded.      *)
Resting(w) ==
  /\ w \in cached
  /\ manifest[w] # NoManifest
  /\ manifest[w].packages = loaded[w]
  /\ workers[w] = "open"
  /\ proc[w] \in {"idle", "dead"}
  /\ toWorker[w] = <<>>
  /\ toCoord[w] = <<>>

(* It was evicted: it is told to exit, says so, and is forgotten.          *)
Evicted(w) ==
  /\ w \notin active \cup cached
  /\ manifest[w] # NoManifest
  /\ \/ /\ proc[w] \in {"idle", "dead"}
        /\ toWorker[w] = Leave /\ toCoord[w] = <<>> /\ workers[w] = "open"
     \/ /\ proc[w] = "gone" /\ toWorker[w] = <<>> /\ toCoord[w] = Bye
        /\ workers[w] = "open"
     \/ proc[w] = "gone" /\ toWorker[w] = <<>> /\ toCoord[w] = <<>>

(* After the lifecycle nobody works: a worker is told to exit, once or     *)
(* twice, and says "bye" once.                                             *)
Ending(w) ==
  /\ w \in cached => manifest[w].packages = loaded[w]
  /\ Queued(toWorker[w]) \subseteq {Msg("exit")}
  /\ \/ /\ proc[w] \in {"unused", "idle", "dead"} /\ toCoord[w] = <<>>
        /\ toWorker[w] # <<>> => workers[w] = "open"
     \/ proc[w] = "gone" /\ toCoord[w] = Bye /\ workers[w] = "open"
     \/ proc[w] = "gone" /\ toCoord[w] = <<>>

(* The five situations, and the end.                                       *)
Turn(w) ==
  IF Shutdown THEN Ending(w)
  ELSE Unknown(w) \/ Asked(w) \/ Working(w) \/ Resting(w) \/ Evicted(w)

Turns == \A w \in Worker : Turn(w)

(* "bye" was the last message of a connection that is being forgotten.     *)
ClosingPhase == \A w \in closing : proc[w] = "gone" /\ toCoord[w] = <<>>

(* The only connection without an id is that of the worker launched last.  *)
AcceptPhase ==
  /\ accepted = <<>> \/ \E w \in Pending \ newWorkers :
        proc[w] # "launched" /\ accepted = <<w>>
  /\ \A w \in Worker :
        proc[w] = "accepted" \/ toCoord[w] = Ready => accepted = <<w>>

TurnPhase == Turns /\ ClosingPhase /\ AcceptPhase /\ NoCrashDuringLifecycle

TurnInv == PoolInv /\ TurnPhase

------------------------------------------------------------------------------
(* Queues of one and two messages. *)

LEMMA Queues ==
  ASSUME NEW a, NEW b
  PROVE  /\ <<a>> # <<>> /\ Head(<<a>>) = a /\ Tail(<<a>>) = <<>>
         /\ <<a, b>> # <<>> /\ Head(<<a, b>>) = a /\ Tail(<<a, b>>) = <<b>>
         /\ <<a>> # <<a, b>> /\ <<b>> # <<a, b>>
         /\ Append(<<>>, a) = <<a>>
         /\ <<>> \o <<a, b>> = <<a, b>>
  OBVIOUS

(* What a queue that was cut short still holds. *)
LEMMA Prefixes ==
  ASSUME NEW a, NEW b
  PROVE  /\ \A k \in 0..Len(<<>>) : SubSeq(<<>>, 1, k) = <<>>
         /\ \A k \in 0..Len(<<a>>) : SubSeq(<<a>>, 1, k) \in {<<>>, <<a>>}
         /\ \A k \in 0..Len(<<a, b>>) :
               SubSeq(<<a, b>>, 1, k) \in {<<>>, <<a>>, <<a, b>>}
<1>1. Len(<<>>) = 0 /\ Len(<<a>>) = 1 /\ Len(<<a, b>>) = 2
  OBVIOUS
<1>2. SubSeq(<<>>, 1, 0) = <<>> /\ SubSeq(<<a>>, 1, 0) = <<>>
      /\ SubSeq(<<a, b>>, 1, 0) = <<>>
  BY SubSeqEmpty
<1>3. ASSUME NEW q \in {<<a>>, <<a, b>>} PROVE SubSeq(q, 1, 1) = <<a>>
  <2>1. q[1] = a /\ <<a>> \in Seq({a}) /\ <<a>>[1] = a
    OBVIOUS
  <2>2. /\ SubSeq(q, 1, 1) \in Seq({a})
        /\ Len(SubSeq(q, 1, 1)) = 1
        /\ SubSeq(q, 1, 1)[1] = a
    BY <2>1, SubSeqProperties
  <2>3. Len(<<a>>) = 1 /\ \A i \in 1..1 : i = 1
    OBVIOUS
  <2>4. \A i \in 1..Len(SubSeq(q, 1, 1)) : SubSeq(q, 1, 1)[i] = <<a>>[i]
    BY <2>1, <2>2, <2>3
  <2> QED
    BY <2>1, <2>2, <2>3, <2>4, SeqEqual
<1>4. SubSeq(<<a, b>>, 1, 2) = <<a, b>>
  <2> DEFINE q == <<a, b>>
  <2>1. q[1] = a /\ q[2] = b /\ q \in Seq({a, b})
    OBVIOUS
  <2>2. \A i \in 1..2 : i = 1 \/ i = 2
    OBVIOUS
  <2> HIDE DEF q
  <2>3. /\ SubSeq(q, 1, 2) \in Seq({a, b})
        /\ Len(SubSeq(q, 1, 2)) = 2
        /\ SubSeq(q, 1, 2)[1] = q[1]
        /\ SubSeq(q, 1, 2)[2] = q[2]
    <3>1. \A i \in 1..2 : q[i] \in {a, b}
      BY <2>1, <2>2
    <3> QED
      BY <3>1, SubSeqProperties
  <2>4. Len(q) = 2
    BY DEF q
  <2> QED
    BY <2>1, <2>2, <2>3, <2>4, SeqEqual DEF q
<1>5. /\ \A k \in 0..0 : k = 0
      /\ \A k \in 0..1 : k = 0 \/ k = 1
      /\ \A k \in 0..2 : k = 0 \/ k = 1 \/ k = 2
  OBVIOUS
<1> QED
  BY <1>1, <1>2, <1>3, <1>4, <1>5

LEMMA QueuedOf ==
  ASSUME NEW a, NEW b
  PROVE  Queued(<<>>) = {} /\ Queued(<<a>>) = {a} /\ Queued(<<a, b>>) = {a, b}
  BY DEF Queued

(* Messages of different commands differ. *)
LEMMA CommandOf ==
  /\ \A c : Msg(c).cmd = c
  /\ \A c, n : TaskMsg(c, n).cmd = c /\ TaskMsg(c, n).task = n
  /\ \A p : ManifestMsg(p).cmd = "response_manifest" /\ ManifestMsg(p).pkgs = p
  BY DEF Msg, TaskMsg, ManifestMsg

------------------------------------------------------------------------------
(* Which situation a message at the head of a queue belongs to. *)

(* A short queue shows its command at its head.                            *)
LEMMA Heads ==
  /\ Head(Ready).cmd = "ready" /\ Tail(Ready) = <<>> /\ Ready # <<>>
  /\ Head(Ask).cmd = "request_manifest" /\ Tail(Ask) = <<>> /\ Ask # <<>>
  /\ Head(Leave).cmd = "exit" /\ Tail(Leave) = <<>> /\ Leave # <<>>
  /\ Head(Bye).cmd = "bye" /\ Tail(Bye) = <<>> /\ Bye # <<>>
  /\ Head(Order).cmd = "execute" /\ Tail(Order) = <<>> /\ Order # <<>>
  /\ Head(Order).task = Task
  /\ Head(Done).cmd = "done" /\ Tail(Done) = <<>> /\ Done # <<>>
  /\ Head(Done).task = Task
  /\ \A w \in Worker :
       /\ Head(Answer(w)).cmd = "response_manifest" /\ Answer(w) # <<>>
       /\ Head(Answer(w)).pkgs = loaded[w] /\ Tail(Answer(w)) = <<>>
       /\ Head(Report(w)).cmd = "response_manifest" /\ Report(w) # <<>>
       /\ Head(Report(w)).pkgs = loaded[w] /\ Tail(Report(w)) = Done
  BY Queues, CommandOf
     DEF Ready, Ask, Leave, Bye, Order, Done, Answer, Report

(* Only a worker without an id says "ready".                               *)
LEMMA HeadReady ==
  ASSUME NEW w \in Worker, Turn(w), ~Shutdown,
         toCoord[w] # <<>>, Head(toCoord[w]).cmd = "ready"
  PROVE  /\ Unknown(w) /\ proc[w] \in {"idle", "dead"}
         /\ toCoord[w] = Ready /\ toWorker[w] = <<>>
  BY Heads DEF Turn, Unknown, Asked, Working, Resting, Evicted

(* A manifest comes from a worker that was asked, or that has run.         *)
LEMMA HeadManifest ==
  ASSUME NEW w \in Worker, Turn(w), ~Shutdown,
         toCoord[w] # <<>>, Head(toCoord[w]).cmd = "response_manifest"
  PROVE  /\ toWorker[w] = <<>> /\ proc[w] \in {"idle", "dead"}
         /\ workers[w] = "open" /\ Head(toCoord[w]).pkgs = loaded[w]
         /\ \/ Asked(w) /\ Tail(toCoord[w]) = <<>>
            \/ Working(w) /\ Tail(toCoord[w]) = Done
            \/ Working(w) /\ proc[w] = "dead" /\ Tail(toCoord[w]) = <<>>
  BY Heads DEF Turn, Unknown, Asked, Working, Resting, Evicted

(* "done" comes from the active worker, after its manifest.                *)
LEMMA HeadDone ==
  ASSUME NEW w \in Worker, Turn(w), ~Shutdown,
         toCoord[w] # <<>>, Head(toCoord[w]).cmd = "done"
  PROVE  /\ Working(w) /\ toCoord[w] = Done /\ toWorker[w] = <<>>
         /\ proc[w] \in {"idle", "dead"}
         /\ manifest[w].packages = loaded[w]
  BY Heads DEF Turn, Unknown, Asked, Working, Resting, Evicted

(* "bye" is the last word of a worker that was told to exit.               *)
LEMMA HeadBye ==
  ASSUME NEW w \in Worker, Turn(w),
         toCoord[w] # <<>>, Head(toCoord[w]).cmd = "bye"
  PROVE  /\ toCoord[w] = Bye /\ proc[w] = "gone" /\ workers[w] = "open"
         /\ ~Shutdown => Evicted(w) /\ toWorker[w] = <<>>
  BY Heads DEF Turn, Unknown, Asked, Working, Resting, Evicted, Ending

(* Messages other than "exit" are only sent during the lifecycle.          *)
LEMMA HeadAsk ==
  ASSUME NEW w \in Worker, Turn(w), ChannelTypes,
         toWorker[w] # <<>>, Head(toWorker[w]).cmd = "request_manifest"
  PROVE  /\ ~Shutdown /\ Asked(w) /\ toWorker[w] = Ask /\ toCoord[w] = <<>>
<1>1. ~Shutdown
  <2> SUFFICES ASSUME Shutdown PROVE FALSE
    OBVIOUS
  <2>1. Head(toWorker[w]) \in {Msg("exit")}
    BY QueueTail DEF Turn, Ending, ChannelTypes
  <2> QED
    BY <2>1, CommandOf
<1> QED
  BY <1>1, Heads DEF Turn, Unknown, Asked, Working, Resting, Evicted

(* "execute" is for the component submitted last.                          *)
LEMMA HeadOrder ==
  ASSUME NEW w \in Worker, Turn(w), ChannelTypes,
         toWorker[w] # <<>>, Head(toWorker[w]).cmd = "execute"
  PROVE  /\ ~Shutdown /\ Working(w) /\ toWorker[w] = Order /\ toCoord[w] = <<>>
<1>1. ~Shutdown
  <2> SUFFICES ASSUME Shutdown PROVE FALSE
    OBVIOUS
  <2>1. Head(toWorker[w]) \in {Msg("exit")}
    BY QueueTail DEF Turn, Ending, ChannelTypes
  <2> QED
    BY <2>1, CommandOf
<1> QED
  BY <1>1, Heads DEF Turn, Unknown, Asked, Working, Resting, Evicted

(* A worker that reads "exit" is silent, and still registered.             *)
LEMMA HeadLeave ==
  ASSUME NEW w \in Worker, Turn(w),
         toWorker[w] # <<>>, Head(toWorker[w]).cmd = "exit",
         proc[w] \in {"idle", "running"}
  PROVE  /\ toCoord[w] = <<>> /\ workers[w] = "open" /\ proc[w] = "idle"
         /\ ~Shutdown => Evicted(w) /\ toWorker[w] = Leave
  BY Heads DEF Turn, Unknown, Asked, Working, Resting, Evicted, Ending

------------------------------------------------------------------------------
(* What a step does to the workers it is not about. *)

(* Everything the situation of worker u depends on.                        *)
Same(u) ==
  /\ proc'[u] = proc[u] /\ job'[u] = job[u] /\ loaded'[u] = loaded[u]
  /\ toWorker'[u] = toWorker[u] /\ toCoord'[u] = toCoord[u]
  /\ manifest'[u] = manifest[u] /\ workers'[u] = workers[u]
  /\ u \in active' <=> u \in active
  /\ u \in cached' <=> u \in cached
  /\ u \in newWorkers' <=> u \in newWorkers

(* The situation of a worker no variable of which changes.                 *)
LEMMA TurnSame ==
  ASSUME NEW u \in Worker, Turn(u), Same(u), Shutdown' <=> Shutdown,
         submitted' = submitted \/ u \notin active
  PROVE  Turn(u)'
<1>1. CASE Shutdown
  BY <1>1 DEF Turn, Same, Ending
<1>2. CASE ~Shutdown
  <2>1. CASE Unknown(u)
    <3>1. Unknown(u)'
      BY <2>1 DEF Same, Unknown, KnownWorkers, Ready
    <3> QED
      BY <1>2, <3>1 DEF Turn
  <2>2. CASE Asked(u)
    <3>1. Asked(u)'
      BY <2>2 DEF Same, Asked, Ask, Answer
    <3> QED
      BY <1>2, <3>1 DEF Turn
  <2>3. CASE Working(u)
    <3>1. Working(u)'
      BY <2>3 DEF Same, Working, Order, Report, Done, Answer, Task
    <3> QED
      BY <1>2, <3>1 DEF Turn
  <2>4. CASE Resting(u)
    <3>1. Resting(u)'
      BY <2>4 DEF Same, Resting
    <3> QED
      BY <1>2, <3>1 DEF Turn
  <2>5. CASE Evicted(u)
    <3>1. Evicted(u)'
      BY <2>5 DEF Same, Evicted, Leave, Bye
    <3> QED
      BY <1>2, <3>1 DEF Turn
  <2> QED
    BY <1>2, <2>1, <2>2, <2>3, <2>4, <2>5 DEF Turn
<1> QED
  BY <1>1, <1>2

(* A step about one worker.                                                *)
LEMMA TurnsKept ==
  ASSUME Turns, NEW w \in Worker, Turn(w)',
         \A u \in Worker : u # w => Same(u),
         UNCHANGED <<lc, submitted>>
  PROVE  Turns'
<1>1. Shutdown' <=> Shutdown
  BY DEF Shutdown
<1>2. ASSUME NEW u \in Worker, u # w PROVE Turn(u)'
  BY <1>1, <1>2, TurnSame DEF Turns
<1> QED
  BY <1>2 DEF Turns

(* The connections without an id, after a step about one worker that has   *)
(* none of them, or keeps it.                                              *)
LEMMA AcceptKept ==
  ASSUME AcceptPhase, NEW w \in Worker, accepted' = accepted,
         \A u \in Worker : u # w => Same(u),
         accepted = <<w>> => /\ w \in Pending' \ newWorkers'
                             /\ proc'[w] # "launched",
         proc'[w] = "accepted" \/ toCoord'[w] = Ready => accepted = <<w>>
  PROVE  AcceptPhase'
<1>1. ASSUME NEW u \in Pending \ newWorkers, proc[u] # "launched",
             accepted = <<u>>, u # w
      PROVE  u \in Pending' \ newWorkers' /\ proc'[u] # "launched"
  BY <1>1 DEF Same, Pending
<1>2. accepted' = <<>> \/ \E u \in Pending' \ newWorkers' :
         proc'[u] # "launched" /\ accepted' = <<u>>
  BY <1>1 DEF AcceptPhase
<1>3. ASSUME NEW u \in Worker, proc'[u] = "accepted" \/ toCoord'[u] = Ready'
      PROVE  accepted' = <<u>>
  <2>1. CASE u = w
    BY <1>3, <2>1 DEF Ready
  <2>2. CASE u # w
    BY <1>3, <2>2 DEF Same, AcceptPhase, Ready
  <2> QED
    BY <2>1, <2>2
<1> QED
  BY <1>2, <1>3 DEF AcceptPhase

(* A step that is about no worker.                                         *)
LEMMA QuietStep ==
  ASSUME Turns, ClosingPhase, AcceptPhase,
         \A u \in Worker : Same(u),
         Shutdown' <=> Shutdown,
         submitted' = submitted \/ active = {},
         accepted' = accepted, closing' = closing, closing \subseteq Worker
  PROVE  Turns' /\ ClosingPhase' /\ AcceptPhase'
<1>1. Turns'
  BY TurnSame DEF Turns
<1>2. ClosingPhase'
  BY DEF ClosingPhase, Same
<1>3. ASSUME NEW u \in Pending \ newWorkers, proc[u] # "launched"
      PROVE  u \in Pending' \ newWorkers' /\ proc'[u] # "launched"
  BY <1>3 DEF Same, Pending
<1>4. AcceptPhase'
  BY <1>3 DEF AcceptPhase, Same, Ready
<1> QED
  BY <1>1, <1>2, <1>4

(* The parts of the invariant that the proofs below start from.            *)
LEMMA TurnFacts ==
  ASSUME TurnInv
  PROVE  /\ TypeInv /\ CallPhase /\ ManifestPhase /\ SlotsReserved
         /\ LifecycleTypes /\ SchedulerTypes /\ CoordTypes /\ ProcessTypes
         /\ ChannelTypes /\ TasksKnown
         /\ Turns /\ ClosingPhase /\ AcceptPhase /\ NoCrashDuringLifecycle
  BY DEF TurnInv, TurnPhase, PoolInv, TypeInv, TypeOK

(* The situation of a worker of the pool is where the scheduler has it.    *)
LEMMA PoolSituation ==
  ASSUME TurnInv, ~Shutdown, NEW w \in Worker
  PROVE  /\ w \in cached => Resting(w)
         /\ w \in active => Working(w)
         /\ proc[w] = "unused" => Unknown(w) /\ w \notin closing
  BY TurnFacts DEF Turns, Turn, Unknown, Asked, Working, Resting, Evicted,
     ManifestPhase, KnownWorkers, ClosingPhase

(* The lambda runs during the lifecycle, one call at a time.               *)
LEMMA LambdaFacts ==
  ASSUME TurnInv, strand # "none"
  PROVE  ~Shutdown /\ lc = "posted"
  BY TurnFacts DEF CallPhase, Shutdown

(* The types of the functions, for the steps that change one value.        *)
LEMMA FunctionTypes ==
  ASSUME TurnInv
  PROVE  /\ proc \in [Worker -> {"unused", "launched", "accepted", "idle",
                                 "running", "gone", "dead"}]
         /\ job \in [Worker -> 0..Len(submitted)]
         /\ loaded \in [Worker -> SUBSET Package]
         /\ toWorker \in [Worker -> Seq(Message)]
         /\ toCoord \in [Worker -> Seq(Message)]
         /\ manifest \in [Worker -> Manifest \cup {NoManifest}]
         /\ workers \in [Worker -> {"absent", "open", "null"}]
         /\ active \subseteq Worker /\ cached \subseteq Worker
         /\ newWorkers \subseteq Worker /\ closing \subseteq Worker
  BY TurnFacts DEF ProcessTypes, ChannelTypes, SchedulerTypes, CoordTypes

(* The conversation has not begun when the coordinator starts.             *)
LEMMA TurnInit == Init => TurnInv
<1> SUFFICES ASSUME Init PROVE TurnInv
  OBVIOUS
<1>1. PoolInv
  BY PoolInvInit
<1>2. Turns
  BY DEF Init, Turns, Turn, Shutdown, Unknown, KnownWorkers
<1>3. ClosingPhase /\ NoCrashDuringLifecycle
  BY DEF Init, ClosingPhase, NoCrashDuringLifecycle
<1>4. AcceptPhase
  BY Heads DEF Init, AcceptPhase
<1> QED
  BY <1>1, <1>2, <1>3, <1>4 DEF TurnInv, TurnPhase

------------------------------------------------------------------------------
(* The steps, one lemma for each action or group of actions. *)

(* The steps of the threads that are about no worker.                      *)
LEMMA TurnQuiet ==
  ASSUME TurnInv,
         \/ \E c \in Component : OnNewComponent(c)
         \/ ComponentReturns \/ ExitLoopInvalidated \/ ExitLoopEnds
         \/ WaitForNewWorker \/ LockAndRelease
         \/ \E w \in Worker : UnlockLifecycle(w)
         \/ UNCHANGED vars
  PROVE  TurnPhase'
<1>1. \A u \in Worker : Same(u)
  BY DEF OnNewComponent, ComponentReturns, ExitLoopInvalidated, ExitLoopEnds,
     WaitForNewWorker, LockAndRelease, UnlockLifecycle, vars, lifecycleVars,
     schedulerVars, coordVars, processVars, channelVars, Same
<1>2. accepted' = accepted /\ closing' = closing
  BY DEF OnNewComponent, ComponentReturns, ExitLoopInvalidated, ExitLoopEnds,
     WaitForNewWorker, LockAndRelease, UnlockLifecycle, vars, coordVars
<1>3. Shutdown' <=> Shutdown
  <2>1. LockAndRelease => lc = "posted"
    BY LambdaFacts DEF LockAndRelease
  <2> QED
    BY <2>1 DEF OnNewComponent, ComponentReturns, ExitLoopInvalidated,
     ExitLoopEnds, WaitForNewWorker, LockAndRelease, UnlockLifecycle, vars,
     lifecycleVars, Shutdown
<1>4. submitted' = submitted \/ active = {}
  BY TurnFacts DEF OnNewComponent, ComponentReturns, ExitLoopInvalidated,
     ExitLoopEnds, WaitForNewWorker, LockAndRelease, UnlockLifecycle, vars,
     lifecycleVars, CallPhase, CallOver
<1>5. NoCrashDuringLifecycle'
  BY TurnFacts DEF OnNewComponent, ComponentReturns, ExitLoopInvalidated,
     ExitLoopEnds, WaitForNewWorker, LockAndRelease, UnlockLifecycle, vars,
     lifecycleVars, coordVars, NoCrashDuringLifecycle, Up
<1> QED
  BY <1>1, <1>2, <1>3, <1>4, <1>5, QuietStep, TurnFacts, FunctionTypes
     DEF TurnPhase

(* The lifecycle ends: nothing is expected of any worker.                  *)
LEMMA TurnLifecycleDone ==
  ASSUME TurnInv, LifecycleDone
  PROVE  TurnPhase'
<1>1. /\ lc = "running" /\ lc' = "exiting" /\ ~Shutdown /\ Shutdown'
      /\ active = {} /\ Pending = {}
  BY TurnFacts DEF LifecycleDone, Shutdown, CallPhase, CallOver
<1>2. UNCHANGED <<proc, job, loaded, toWorker, toCoord, manifest, workers,
                  active, cached, newWorkers, accepted, closing, coord>>
  BY DEF LifecycleDone, schedulerVars, coordVars, processVars, channelVars
<1>3. ASSUME NEW u \in Worker PROVE Ending(u)'
  <2>1. Turn(u)
    BY TurnFacts DEF Turns
  <2>2. Queued(<<>>) = {} /\ Queued(Leave) = {Msg("exit")}
    BY QueuedOf DEF Leave
  <2>3. CASE Unknown(u)
    <3>1. proc[u] = "unused" /\ toCoord[u] = <<>>
      BY <1>1, <2>3 DEF Unknown, Pending
    <3>2. u \notin cached
      BY <2>3 DEF Unknown, KnownWorkers
    <3> QED
      BY <1>2, <2>2, <2>3, <3>1, <3>2 DEF Unknown, Ending
  <2>4. CASE Asked(u)
    BY <1>1, <2>4 DEF Asked, Pending
  <2>5. CASE Working(u)
    BY <1>1, <2>5 DEF Working
  <2>6. CASE Resting(u)
    BY <1>2, <2>2, <2>6 DEF Resting, Ending
  <2>7. CASE Evicted(u)
    BY <1>2, <2>2, <2>7 DEF Evicted, Ending, Bye
  <2> QED
    BY <1>1, <2>1, <2>3, <2>4, <2>5, <2>6, <2>7 DEF Turn
<1>4. Turns' /\ ClosingPhase'
  BY <1>1, <1>2, <1>3, TurnFacts DEF Turns, Turn, ClosingPhase
<1>5. AcceptPhase'
  BY <1>2, TurnFacts DEF AcceptPhase, Pending, Ready
<1>6. NoCrashDuringLifecycle'
  BY <1>1, <1>2, TurnFacts DEF NoCrashDuringLifecycle
<1> QED
  BY <1>4, <1>5, <1>6 DEF TurnPhase

(* The final loop tells a worker to exit, through whatever workers_ has.   *)
LEMMA TurnSendExit ==
  ASSUME TurnInv, NEW w \in Worker, SendExit(w)
  PROVE  TurnPhase'
<1>1. /\ lc = "exiting" /\ lc' = lc /\ submitted' = submitted /\ Shutdown
      /\ Shutdown'
  BY DEF SendExit, Shutdown
<1>2. UNCHANGED <<proc, job, loaded, toCoord, manifest, workers, active,
                  cached, newWorkers, accepted, closing>>
  BY DEF SendExit, schedulerVars, processVars
<1>3. SendThrough(workers[w], w, Msg("exit"))
  BY DEF SendExit
<1>4. Msg("exit") \in Message
  BY MessageTypes DEF Commands
<1>5. /\ \A u \in Worker : u # w => toWorker'[u] = toWorker[u]
      /\ Queued(toWorker'[w]) \subseteq Queued(toWorker[w]) \cup {Msg("exit")}
  BY <1>3, <1>4, SendStep, TurnFacts
<1>6. toWorker'[w] # toWorker[w] => workers[w] = "open"
  BY <1>3, FunctionTypes DEF SendThrough
<1>7. Ending(w)'
  <2>1. Ending(w)
    BY <1>1, TurnFacts DEF Turns, Turn
  <2> QED
    BY <1>2, <1>5, <1>6, <2>1 DEF Ending, Bye
<1>8. \A u \in Worker : u # w => Same(u)
  BY <1>2, <1>5 DEF Same
<1>9. Turns'
  BY <1>1, <1>7, <1>8, TurnsKept, TurnFacts DEF Turn
<1>10. ClosingPhase' /\ AcceptPhase' /\ NoCrashDuringLifecycle'
  BY <1>1, <1>2, TurnFacts DEF ClosingPhase, AcceptPhase, Pending, Ready,
     NoCrashDuringLifecycle
<1> QED
  BY <1>9, <1>10 DEF TurnPhase

(* A cached worker is given the component.                                 *)
LEMMA TurnReuseWorker ==
  ASSUME TurnInv, NEW w \in Worker, ReuseWorker(w)
  PROVE  TurnPhase'
<1>1. /\ ~Shutdown /\ lc' = lc /\ submitted' = submitted /\ ~Shutdown'
  BY LambdaFacts DEF ReuseWorker, Shutdown
<1>2. w \in cached /\ Resting(w)
  BY <1>1, PoolSituation DEF ReuseWorker, First, Reusable
<1>3. UNCHANGED <<proc, job, loaded, toCoord, workers, newWorkers, accepted,
                  closing>>
  BY DEF ReuseWorker, processVars
<1>4. /\ toWorker' =
           [toWorker EXCEPT ![w] = Append(@, TaskMsg("execute", Task))]
      /\ coord' = coord
  BY <1>2 DEF ReuseWorker, Resting, SendThrough, ComponentId, Task
<1>5. toWorker'[w] = Order
  BY <1>2, <1>4, FunctionTypes, Queues DEF Resting, Order
<1>6. manifest'[w] # NoManifest
  <2>1. Current \in Component
    BY CurrentTask, TurnFacts DEF ReuseWorker
  <2>2. manifest'[w] = RecordLastExecuted(manifest[w], Current)
    BY FunctionTypes DEF ReuseWorker
  <2>3. manifest[w] \in Manifest
    BY <1>2, FunctionTypes DEF Resting
  <2> QED
    BY <2>1, <2>2, <2>3, ManifestTypes, CompatibilityAssumption
<1>7. Working(w)'
  BY <1>1, <1>2, <1>3, <1>5, <1>6 DEF ReuseWorker, Resting, Working, Order, Task
<1>8. \A u \in Worker : u # w => Same(u)
  BY <1>3, <1>4, FunctionTypes DEF ReuseWorker, Same
<1>9. Turns'
  BY <1>1, <1>7, <1>8, TurnsKept, TurnFacts DEF Turn
<1>10. accepted # <<w>>
  <2>1. w \notin Pending
    BY <1>2 DEF Pending, Resting
  <2>2. accepted = <<>> \/ \E u \in Pending \ newWorkers : accepted = <<u>>
    BY TurnFacts DEF AcceptPhase
  <2>3. \A u : <<u>>[1] = u /\ <<u>> # <<>>
    OBVIOUS
  <2> QED
    BY <2>1, <2>2, <2>3
<1>11. AcceptPhase'
  <2>1. proc'[w] # "accepted" /\ toCoord'[w] # Ready
    BY <1>2, <1>3, Heads DEF Resting
  <2> QED
    BY <1>3, <1>8, <1>10, <2>1, AcceptKept, TurnFacts
<1>12. ClosingPhase' /\ NoCrashDuringLifecycle'
  BY <1>1, <1>3, <1>4, TurnFacts DEF ClosingPhase, NoCrashDuringLifecycle
<1> QED
  BY <1>9, <1>11, <1>12 DEF TurnPhase

(* A process that has not been used is launched.                           *)
LEMMA TurnLaunched ==
  ASSUME TurnInv, ~Shutdown, NEW w \in Worker, proc[w] = "unused",
         proc' = [proc EXCEPT ![w] = "launched"],
         UNCHANGED <<job, loaded, toCoord, manifest, workers, newWorkers>>,
         toWorker'[w] = toWorker[w], active' = active,
         w \in cached' => w \in cached,
         lc' = lc
  PROVE  /\ Turn(w)'
         /\ accepted # <<w>> /\ proc'[w] # "accepted" /\ toCoord'[w] # Ready
<1>1. Unknown(w) /\ toCoord[w] = <<>>
  BY PoolSituation DEF Unknown
<1>2. proc'[w] = "launched"
  BY FunctionTypes
<1>3. Unknown(w)'
  BY <1>1, <1>2 DEF Unknown, KnownWorkers
<1>4. accepted # <<w>>
  BY Queues, TurnFacts DEF AcceptPhase, Pending
<1> QED
  BY <1>1, <1>2, <1>3, <1>4, Heads DEF Turn, Shutdown

(* There is room for the worker that is launched.                          *)
LEMMA TurnLaunchWorker ==
  ASSUME TurnInv, NEW w \in Worker, LaunchWorker(w)
  PROVE  TurnPhase'
<1>1. /\ ~Shutdown /\ lc' = lc /\ submitted' = submitted /\ ~Shutdown'
  BY LambdaFacts DEF LaunchWorker, Shutdown
<1>2. /\ UNCHANGED <<job, loaded, toCoord, manifest, workers, newWorkers>>
      /\ UNCHANGED <<toWorker, active, cached, accepted, closing>>
      /\ proc[w] = "unused" /\ proc' = [proc EXCEPT ![w] = "launched"]
  BY DEF LaunchWorker, schedulerVars, channelVars
<1>3. coord' = coord
  <2>1. active = {}
    BY TurnFacts DEF LaunchWorker, CallPhase, CallOver
  <2>2. ~RaisesPoolFull
    BY <2>1, FS_EmptySet, SecCaskAssumption DEF RaisesPoolFull
  <2> QED
    BY <2>2 DEF LaunchWorker
<1>4. \A u \in Worker : u # w => Same(u)
  BY <1>2, FunctionTypes DEF Same
<1>5. /\ Turn(w)'
      /\ accepted # <<w>> /\ proc'[w] # "accepted" /\ toCoord'[w] # Ready
  BY <1>1, <1>2, TurnLaunched
<1>6. Turns'
  BY <1>1, <1>4, <1>5, TurnsKept, TurnFacts
<1>7. AcceptPhase'
  BY <1>2, <1>4, <1>5, AcceptKept, TurnFacts
<1>8. ClosingPhase' /\ NoCrashDuringLifecycle'
  <2>1. w \notin closing
    BY <1>1, <1>2, PoolSituation
  <2> QED
    BY <1>1, <1>2, <1>3, <1>4, <2>1, TurnFacts, FunctionTypes
       DEF ClosingPhase, NoCrashDuringLifecycle, Same
<1> QED
  BY <1>6, <1>7, <1>8 DEF TurnPhase

(* Worker v makes room: it is told to exit.                                *)
LEMMA TurnEvictAndLaunchWorker ==
  ASSUME TurnInv, NEW v \in Worker, NEW w \in Worker,
         EvictAndLaunchWorker(v, w)
  PROVE  TurnPhase'
<1>1. /\ ~Shutdown /\ lc' = lc /\ submitted' = submitted /\ ~Shutdown'
  BY LambdaFacts DEF EvictAndLaunchWorker, Shutdown
<1>2. /\ UNCHANGED <<job, loaded, toCoord, manifest, workers, newWorkers>>
      /\ UNCHANGED <<active, accepted, closing>>
      /\ proc[w] = "unused" /\ proc' = [proc EXCEPT ![w] = "launched"]
      /\ cached' = cached \ {v}
  BY DEF EvictAndLaunchWorker
<1>3. v \in cached /\ Resting(v) /\ v # w
  <2>1. v \in cached
    BY DEF EvictAndLaunchWorker, RemoveEnd, First
  <2>2. Resting(v)
    BY <1>1, <2>1, PoolSituation
  <2> QED
    BY <1>2, <2>1, <2>2 DEF Resting
<1>4. toWorker' = [toWorker EXCEPT ![v] = Append(@, Msg("exit"))]
    /\ coord' = coord
  BY <1>3 DEF EvictAndLaunchWorker, Resting, SendThrough
<1>5. toWorker'[v] = Leave /\ toWorker'[w] = toWorker[w]
  BY <1>3, <1>4, FunctionTypes, Queues DEF Resting, Leave
<1>6. Evicted(v)'
  <2>1. proc'[v] = proc[v] /\ v \notin active
    BY <1>2, <1>3, FunctionTypes, TurnFacts DEF ManifestPhase
  <2> QED
    BY <1>2, <1>3, <1>5, <2>1 DEF Resting, Evicted, Leave
<1>7. /\ Turn(w)'
      /\ accepted # <<w>> /\ proc'[w] # "accepted" /\ toCoord'[w] # Ready
  BY <1>1, <1>2, <1>5, TurnLaunched
<1>8. \A u \in Worker : u # v /\ u # w => Same(u)
  BY <1>2, <1>4, FunctionTypes DEF Same
<1>9. Turns'
  <2>1. \A u \in Worker : u # v /\ u # w => Turn(u)'
    BY <1>1, <1>8, TurnSame, TurnFacts DEF Turns
  <2>2. Turn(v)'
    BY <1>1, <1>6 DEF Turn
  <2> QED
    BY <1>7, <2>1, <2>2 DEF Turns
<1>10. AcceptPhase'
  <2>1. \A u \in Worker : u # w => proc'[u] = proc[u]
    BY <1>2, FunctionTypes
  <2>2. Pending \subseteq Pending'
    BY <1>2, <2>1, FunctionTypes DEF Pending
  <2> QED
    BY <1>2, <1>7, <2>1, <2>2, TurnFacts DEF AcceptPhase, Ready
<1>11. ClosingPhase' /\ NoCrashDuringLifecycle'
  <2>1. w \notin closing
    BY <1>1, <1>2, PoolSituation
  <2>2. \A u \in Worker : u # w => proc'[u] = proc[u]
    BY <1>2, FunctionTypes
  <2> QED
    BY <1>1, <1>2, <1>4, <2>1, <2>2, TurnFacts, FunctionTypes
       DEF ClosingPhase, NoCrashDuringLifecycle
<1> QED
  BY <1>9, <1>10, <1>11 DEF TurnPhase

------------------------------------------------------------------------------
(* The handlers of the coordinator. *)

(* A connection is accepted: it is the only one without an id.             *)
LEMMA TurnDoAccept ==
  ASSUME TurnInv, NEW w \in Worker, DoAccept(w)
  PROVE  TurnPhase'
<1>1. /\ proc[w] = "launched" /\ proc' = [proc EXCEPT ![w] = "accepted"]
      /\ accepted' = Append(accepted, w)
      /\ lc' = lc /\ submitted' = submitted
      /\ UNCHANGED <<job, loaded, toWorker, toCoord, manifest, workers, active,
                     cached, newWorkers, closing, coord>>
  BY DEF DoAccept, lifecycleVars, schedulerVars, channelVars
<1>2. /\ proc'[w] = "accepted"
      /\ manifest[w] = NoManifest /\ w \notin KnownWorkers
      /\ w \in Pending
  BY <1>1, FunctionTypes, TurnFacts DEF ManifestPhase, Pending
<1>3. ~Shutdown
  BY <1>2, TurnFacts DEF CallPhase, CallOver, Shutdown
<1>4. Unknown(w) /\ toCoord[w] = <<>>
  <2>1. Turn(w)
    BY TurnFacts DEF Turns
  <2> QED
    BY <1>1, <1>2, <1>3, <2>1 DEF Turn, Unknown, Asked, Working, Resting,
       Evicted
<1>5. accepted = <<>>
  <2>1. \A u \in Pending : u = w
    BY <1>2, TurnFacts DEF CallPhase, AtMostOne
  <2> QED
    BY <1>1, <2>1, TurnFacts DEF AcceptPhase
<1>6. accepted' = <<w>>
  BY <1>1, <1>5, Queues
<1>7. Unknown(w)'
  BY <1>1, <1>2, <1>4 DEF Unknown, KnownWorkers
<1>8. \A u \in Worker : u # w => Same(u)
  BY <1>1, FunctionTypes DEF Same
<1>9. Turns'
  BY <1>1, <1>3, <1>7, <1>8, TurnsKept, TurnFacts DEF Turn, Shutdown
<1>10. AcceptPhase'
  <2>1. w \in Pending' \ newWorkers'
    BY <1>1, <1>2 DEF Pending, KnownWorkers
  <2>2. ASSUME NEW u \in Worker, u # w
        PROVE  proc'[u] # "accepted" /\ toCoord'[u] # Ready'
    <3>1. accepted # <<u>>
      BY <1>5, Queues
    <3> QED
      BY <1>8, <2>2, <3>1, TurnFacts DEF AcceptPhase, Same, Ready
  <2> QED
    BY <1>2, <1>6, <2>1, <2>2 DEF AcceptPhase
<1>11. ClosingPhase' /\ NoCrashDuringLifecycle'
  BY <1>1, <1>8, TurnFacts, FunctionTypes
     DEF ClosingPhase, NoCrashDuringLifecycle, Same
<1> QED
  BY <1>9, <1>10, <1>11 DEF TurnPhase

(* "ready": remove_if leaves the pointer of the connection accepted last,  *)
(* which is the one that was looked for, because it is the only one.       *)
LEMMA TurnOnReady ==
  ASSUME TurnInv, NEW w \in Worker, OnReady(w)
  PROVE  TurnPhase'
<1>1. /\ ~Shutdown /\ lc' = lc /\ submitted' = submitted
      /\ UNCHANGED <<proc, job, loaded, active, cached, closing>>
      /\ newWorkers' = newWorkers \cup {w}
      /\ manifest' = [manifest EXCEPT ![w] = NoManifest]
      /\ workers' = [workers EXCEPT ![w] = HandlerFound(w)]
      /\ accepted' = AcceptedWithout(w)
  BY DEF OnReady, GilAvailable, Shutdown, lifecycleVars, processVars
<1>2. /\ toCoord[w] # <<>> /\ Head(toCoord[w]).cmd = "ready"
      /\ toCoord' = [toCoord EXCEPT ![w] = Tail(@)]
  BY DEF OnReady, Handles, Consume
<1>3. /\ Unknown(w) /\ proc[w] \in {"idle", "dead"} /\ toCoord[w] = Ready
      /\ toWorker[w] = <<>>
  BY <1>1, <1>2, HeadReady, TurnFacts DEF Turns
<1>4. accepted = <<w>>
  BY <1>3, TurnFacts DEF AcceptPhase
<1>5. HandlerFound(w) = "open" /\ AcceptedWithout(w) = <<>>
  <2>1. Len(<<w>>) = 1 /\ <<w>>[1] = w /\ <<w>> # <<>>
    OBVIOUS
  <2>2. AcceptedWithout(w) \in Seq(Worker)
    BY AcceptedTypes, TurnFacts DEF CoordTypes
  <2>3. Len(AcceptedWithout(w)) = 0
    BY <1>4, <2>1 DEF AcceptedWithout
  <2> QED
    BY <1>4, <2>1, <2>2, <2>3, EmptySeq DEF HandlerFound
<1>6. /\ toWorker' = [toWorker EXCEPT ![w] = Append(@, Msg("request_manifest"))]
      /\ coord' = coord
  BY <1>5 DEF OnReady, SendThrough
<1>7. toWorker'[w] = Ask /\ toCoord'[w] = <<>> /\ workers'[w] = "open"
  BY <1>1, <1>2, <1>3, <1>5, <1>6, FunctionTypes, Queues, Heads DEF Ask
<1>8. Asked(w)'
  <2>1. manifest'[w] = NoManifest
    BY <1>1, FunctionTypes
  <2> QED
    BY <1>1, <1>3, <1>7, <2>1 DEF Asked, Ask
<1>9. \A u \in Worker : u # w => Same(u)
  BY <1>1, <1>2, <1>6, FunctionTypes DEF Same
<1>10. Turns'
  BY <1>1, <1>8, <1>9, TurnsKept, TurnFacts DEF Turn, Shutdown
<1>11. AcceptPhase'
  <2>1. ASSUME NEW u \in Worker
        PROVE  proc'[u] # "accepted" /\ toCoord'[u] # Ready'
    <3>1. CASE u = w
      BY <1>1, <1>3, <1>7, <3>1, Heads DEF Ready
    <3>2. CASE u # w
      <4>1. accepted # <<u>>
        BY <1>4, <3>2
      <4> QED
        BY <1>9, <3>2, <4>1, TurnFacts DEF AcceptPhase, Same, Ready
    <3> QED
      BY <3>1, <3>2
  <2> QED
    BY <1>1, <1>5, <2>1 DEF AcceptPhase
<1>12. ClosingPhase' /\ NoCrashDuringLifecycle'
  BY <1>1, <1>6, <1>7, <1>9, TurnFacts, FunctionTypes
     DEF ClosingPhase, NoCrashDuringLifecycle, Same
<1> QED
  BY <1>10, <1>11, <1>12 DEF TurnPhase

(* A worker whose manifest is on its way has an id.                        *)
LEMMA AskedIsAccepted ==
  ASSUME TurnInv, NEW w \in Worker, w \in newWorkers \/ manifest[w] # NoManifest
  PROVE  accepted # <<w>>
  BY Queues, TurnFacts DEF AcceptPhase, Pending

(* The first manifest: the worker takes a waiting component, or rests.     *)
LEMMA TurnOnNewWorkerManifest ==
  ASSUME TurnInv, NEW w \in Worker, OnNewWorkerManifest(w)
  PROVE  TurnPhase'
<1> DEFINE m == CaptureCurrentEnv(Head(toCoord[w]).pkgs)
<1>1. /\ ~Shutdown /\ lc' = lc /\ submitted' = submitted
      /\ UNCHANGED <<proc, job, loaded, accepted, workers, closing>>
      /\ manifest[w] = NoManifest
  BY DEF OnNewWorkerManifest, GilAvailable, Shutdown, lifecycleVars, processVars
<1>2. /\ toCoord[w] # <<>> /\ Head(toCoord[w]).cmd = "response_manifest"
      /\ toCoord' = [toCoord EXCEPT ![w] = Tail(@)]
  BY DEF OnNewWorkerManifest, Handles, Consume
<1>3. /\ Asked(w) /\ toWorker[w] = <<>> /\ proc[w] \in {"idle", "dead"}
      /\ workers[w] = "open" /\ Head(toCoord[w]).pkgs = loaded[w]
      /\ Tail(toCoord[w]) = <<>>
  BY <1>1, <1>2, HeadManifest, TurnFacts DEF Turns, Working
<1>4. m \in Manifest /\ m.packages = loaded[w]
  <2>1. loaded[w] \in SUBSET Package
    BY FunctionTypes
  <2> QED
    BY <1>3, <2>1, ManifestTypes DEF CaptureCurrentEnv
<1>5. toCoord'[w] = <<>>
  BY <1>2, <1>3, FunctionTypes
<1> HIDE DEF m
<1>6. ASSUME NEW n \in Servable(m), AssignNewWorker(w, m, n)
      PROVE  /\ Working(w)' /\ coord' = coord
             /\ \A u \in Worker : u # w => Same(u)
  <2>1. n \in waiting /\ n = Task
    BY TurnFacts DEF Servable, CallPhase, Task
  <2>2. /\ toWorker' = [toWorker EXCEPT ![w] = Append(@, TaskMsg("execute", n))]
        /\ coord' = coord
    BY <1>3, <1>6 DEF AssignNewWorker, SendThrough
  <2>3. toWorker'[w] = Order
    BY <1>3, <2>1, <2>2, FunctionTypes, Queues DEF Order
  <2>4. submitted[n] \in Component
    BY <2>1, ElementOfSeq, TurnFacts DEF SchedulerTypes, LifecycleTypes
  <2>5. manifest'[w] # NoManifest
    <3>1. manifest'[w] = RecordLastExecuted(m, submitted[n])
      BY <1>6, FunctionTypes DEF AssignNewWorker
    <3> QED
      BY <1>4, <2>4, <3>1, ManifestTypes, CompatibilityAssumption
  <2>6. Working(w)'
    BY <1>1, <1>3, <1>5, <1>6, <2>3, <2>5 DEF AssignNewWorker, Working, Order,
       Task
  <2>7. \A u \in Worker : u # w => Same(u)
    BY <1>1, <1>2, <1>6, <2>2, FunctionTypes DEF AssignNewWorker, Same
  <2> QED
    BY <2>2, <2>6, <2>7
<1>7. ASSUME CacheNewWorker(w, m)
      PROVE  /\ Resting(w)' /\ coord' = coord
             /\ \A u \in Worker : u # w => Same(u)
  <2>1. manifest'[w] = m /\ m # NoManifest
    BY <1>4, <1>7, FunctionTypes, CompatibilityAssumption DEF CacheNewWorker
  <2>2. Resting(w)'
    BY <1>1, <1>3, <1>4, <1>5, <1>7, <2>1 DEF CacheNewWorker, Resting
  <2>3. \A u \in Worker : u # w => Same(u)
    BY <1>1, <1>2, <1>7, FunctionTypes DEF CacheNewWorker, Same
  <2> QED
    BY <1>7, <2>2, <2>3 DEF CacheNewWorker
<1>8. /\ Working(w)' \/ Resting(w)'
      /\ coord' = coord
      /\ \A u \in Worker : u # w => Same(u)
  BY <1>6, <1>7 DEF OnNewWorkerManifest, m
<1>9. Turns'
  BY <1>1, <1>8, TurnsKept, TurnFacts DEF Turn, Shutdown
<1>10. AcceptPhase'
  <2>1. accepted # <<w>>
    BY <1>3, AskedIsAccepted DEF Asked
  <2>2. proc'[w] # "accepted" /\ toCoord'[w] # Ready
    BY <1>1, <1>3, <1>5, Heads
  <2> QED
    BY <1>1, <1>8, <2>1, <2>2, AcceptKept, TurnFacts
<1>11. ClosingPhase' /\ NoCrashDuringLifecycle'
  BY <1>1, <1>5, <1>8, TurnFacts, FunctionTypes
     DEF ClosingPhase, NoCrashDuringLifecycle, Same
<1> QED
  BY <1>9, <1>10, <1>11 DEF TurnPhase

(* A later manifest comes before "done" and says what has been loaded.     *)
LEMMA TurnOnKnownWorkerManifest ==
  ASSUME TurnInv, NEW w \in Worker, OnKnownWorkerManifest(w)
  PROVE  TurnPhase'
<1> DEFINE m == CaptureCurrentEnv(Head(toCoord[w]).pkgs)
<1>1. /\ ~Shutdown /\ lc' = lc /\ submitted' = submitted
      /\ UNCHANGED <<proc, job, loaded, accepted, workers, closing, active,
                     cached, newWorkers, toWorker, coord>>
  BY DEF OnKnownWorkerManifest, GilAvailable, Shutdown, lifecycleVars,
     processVars, coordVars
<1>2. /\ toCoord[w] # <<>> /\ Head(toCoord[w]).cmd = "response_manifest"
      /\ toCoord' = [toCoord EXCEPT ![w] = Tail(@)]
  BY DEF OnKnownWorkerManifest, Handles, Consume
<1>3. /\ Working(w) /\ toWorker[w] = <<>> /\ proc[w] \in {"idle", "dead"}
      /\ Head(toCoord[w]).pkgs = loaded[w]
      /\ \/ Tail(toCoord[w]) = Done
         \/ proc[w] = "dead" /\ Tail(toCoord[w]) = <<>>
  BY <1>1, <1>2, HeadManifest, TurnFacts DEF Turns, OnKnownWorkerManifest,
     Asked, KnownWorkers
<1>4. /\ manifest' = [manifest EXCEPT ![w] = OnResponseManifest(@, m)]
      /\ manifest[w] \in Manifest
  <2>1. w \in KnownWorkers /\ manifest[w] # NoManifest
    BY <1>3 DEF Working, KnownWorkers
  <2> QED
    BY <2>1, FunctionTypes DEF OnKnownWorkerManifest
<1>5. manifest'[w] # NoManifest /\ manifest'[w].packages = loaded[w]
  <2>1. /\ manifest'[w] = OnResponseManifest(manifest[w], m)
        /\ loaded[w] \in SUBSET Package
    BY <1>4, FunctionTypes
  <2>2. m \in Manifest /\ m.packages = loaded[w]
    BY <1>3, <2>1, ManifestTypes DEF CaptureCurrentEnv
  <2>3. OnResponseManifest(manifest[w], m) \in Manifest
    BY <1>3, <1>4, <2>1, ManifestTypes
  <2>4. OnResponseManifest(manifest[w], m).packages = m.packages
    <3> HIDE DEF m
    <3> QED
      BY <1>4, <2>2 DEF OnResponseManifest, Manifest
  <2> QED
    BY <2>1, <2>2, <2>3, <2>4, CompatibilityAssumption
<1>6. toCoord'[w] = Tail(toCoord[w])
  BY <1>2, FunctionTypes
<1> HIDE DEF m
<1>7. Working(w)'
  BY <1>1, <1>3, <1>5, <1>6 DEF Working, Done, Task
<1>8. \A u \in Worker : u # w => Same(u)
  BY <1>1, <1>2, <1>4, FunctionTypes DEF Same
<1>9. Turns'
  BY <1>1, <1>7, <1>8, TurnsKept, TurnFacts DEF Turn, Shutdown
<1>10. AcceptPhase'
  <2>1. accepted # <<w>>
    BY <1>3, AskedIsAccepted DEF Working
  <2>2. proc'[w] # "accepted" /\ toCoord'[w] # Ready
    BY <1>1, <1>3, <1>6, Heads, CommandOf
  <2> QED
    BY <1>1, <1>8, <2>1, <2>2, AcceptKept, TurnFacts
<1>11. ClosingPhase' /\ NoCrashDuringLifecycle'
  <2>1. w \notin closing
    BY <1>3, TurnFacts DEF ClosingPhase
  <2> QED
    BY <1>1, <1>8, <2>1, TurnFacts, FunctionTypes
       DEF ClosingPhase, NoCrashDuringLifecycle, Same
<1> QED
  BY <1>9, <1>10, <1>11 DEF TurnPhase

(* "done": the worker is active, so it goes to the cache.                  *)
LEMMA TurnOnDone ==
  ASSUME TurnInv, NEW w \in Worker, OnDone(w)
  PROVE  TurnPhase'
<1>1. /\ ~Shutdown /\ lc' = lc /\ submitted' = submitted
      /\ UNCHANGED <<proc, job, loaded, accepted, workers, closing, newWorkers,
                     manifest, toWorker>>
  BY DEF OnDone, GilAvailable, Shutdown, lifecycleVars, processVars
<1>2. /\ toCoord[w] # <<>> /\ Head(toCoord[w]).cmd = "done"
      /\ toCoord' = [toCoord EXCEPT ![w] = Tail(@)]
  BY DEF OnDone, Handles, Consume
<1>3. /\ Working(w) /\ toCoord[w] = Done /\ toWorker[w] = <<>>
      /\ proc[w] \in {"idle", "dead"} /\ manifest[w].packages = loaded[w]
  BY <1>1, <1>2, HeadDone, TurnFacts DEF Turns
<1>4. /\ active' = active \ {w} /\ cached' = cached \cup {w} /\ coord' = coord
  BY <1>3 DEF OnDone, Working
<1>5. toCoord'[w] = <<>>
  BY <1>2, <1>3, FunctionTypes, Heads
<1>6. Resting(w)'
  BY <1>1, <1>3, <1>4, <1>5 DEF Working, Resting
<1>7. \A u \in Worker : u # w => Same(u)
  BY <1>1, <1>2, <1>4, FunctionTypes DEF Same
<1>8. Turns'
  BY <1>1, <1>6, <1>7, TurnsKept, TurnFacts DEF Turn, Shutdown
<1>9. AcceptPhase'
  <2>1. accepted # <<w>>
    BY <1>3, AskedIsAccepted DEF Working
  <2>2. proc'[w] # "accepted" /\ toCoord'[w] # Ready
    BY <1>1, <1>3, <1>5, Heads
  <2> QED
    BY <1>1, <1>7, <2>1, <2>2, AcceptKept, TurnFacts
<1>10. ClosingPhase' /\ NoCrashDuringLifecycle'
  BY <1>1, <1>4, <1>5, <1>7, TurnFacts, FunctionTypes
     DEF ClosingPhase, NoCrashDuringLifecycle, Same
<1> QED
  BY <1>8, <1>9, <1>10 DEF TurnPhase

(* "bye": the handler is there, and nothing follows on this connection.    *)
LEMMA TurnOnBye ==
  ASSUME TurnInv, NEW w \in Worker, OnBye(w)
  PROVE  TurnPhase'
<1>1. /\ lc' = lc /\ submitted' = submitted
      /\ UNCHANGED <<proc, job, loaded, accepted, newWorkers, manifest,
                     toWorker, active, cached>>
      /\ workers' = [workers EXCEPT ![w] = "null"]
      /\ closing' = closing \cup {w}
  BY DEF OnBye, lifecycleVars, processVars, schedulerVars
<1>2. /\ toCoord[w] # <<>> /\ Head(toCoord[w]).cmd = "bye"
      /\ toCoord' = [toCoord EXCEPT ![w] = Tail(@)]
  BY DEF OnBye, Handles, Consume
<1>3. /\ toCoord[w] = Bye /\ proc[w] = "gone" /\ workers[w] = "open"
      /\ ~Shutdown => Evicted(w) /\ toWorker[w] = <<>>
  BY <1>2, HeadBye, TurnFacts DEF Turns
<1>4. coord' = coord
  BY <1>3 DEF OnBye
<1>5. toCoord'[w] = <<>>
  BY <1>2, <1>3, FunctionTypes, Heads
<1>6. Turn(w)'
  <2>1. CASE Shutdown
    <3>1. Ending(w)
      BY <2>1, TurnFacts DEF Turns, Turn
    <3>2. Ending(w)'
      BY <1>1, <1>3, <1>5, <3>1 DEF Ending
    <3> QED
      BY <1>1, <2>1, <3>2 DEF Turn, Shutdown
  <2>2. CASE ~Shutdown
    <3>1. Evicted(w)'
      BY <1>1, <1>3, <1>5, <2>2 DEF Evicted
    <3> QED
      BY <1>1, <2>2, <3>1 DEF Turn, Shutdown
  <2> QED
    BY <2>1, <2>2
<1>7. \A u \in Worker : u # w => Same(u)
  BY <1>1, <1>2, FunctionTypes DEF Same
<1>8. Turns'
  BY <1>1, <1>6, <1>7, TurnsKept, TurnFacts
<1>9. AcceptPhase'
  <2>1. accepted = <<w>> => w \in Pending' \ newWorkers'
    BY <1>1, Queues, TurnFacts DEF AcceptPhase, Pending
  <2>2. /\ proc'[w] # "accepted" /\ proc'[w] # "launched"
        /\ toCoord'[w] # Ready
    BY <1>1, <1>3, <1>5, Heads
  <2> QED
    BY <1>1, <1>7, <2>1, <2>2, AcceptKept, TurnFacts
<1>10. ClosingPhase' /\ NoCrashDuringLifecycle'
  BY <1>1, <1>3, <1>4, <1>5, <1>7, TurnFacts, FunctionTypes
     DEF ClosingPhase, NoCrashDuringLifecycle, Same
<1> QED
  BY <1>8, <1>9, <1>10 DEF TurnPhase

(* The worker is forgotten.                                                *)
LEMMA TurnForgetWorker ==
  ASSUME TurnInv, NEW w \in Worker, ForgetWorker(w)
  PROVE  TurnPhase'
<1>1. /\ lc' = lc /\ submitted' = submitted /\ w \in closing
      /\ UNCHANGED <<proc, job, loaded, accepted, newWorkers, manifest,
                     toWorker, toCoord, active, cached>>
      /\ workers' = [workers EXCEPT ![w] = "absent"]
      /\ closing' = closing \ {w}
      /\ coord = "up" /\ coord' # "crashed"
  BY DEF ForgetWorker, lifecycleVars, processVars, schedulerVars, channelVars,
     Up
<1>2. proc[w] = "gone" /\ toCoord[w] = <<>> /\ Bye # <<>>
  BY <1>1, TurnFacts, Heads DEF ClosingPhase
<1>3. Turn(w)'
  <2>1. Turn(w)
    BY TurnFacts DEF Turns
  <2>2. CASE Shutdown
    <3>1. Ending(w)'
      BY <1>1, <1>2, <2>1, <2>2 DEF Turn, Ending
    <3> QED
      BY <1>1, <2>2, <3>1 DEF Turn, Shutdown
  <2>3. CASE ~Shutdown
    <3>1. Evicted(w)
      BY <1>2, <2>1, <2>3 DEF Turn, Unknown, Asked, Working, Resting
    <3>2. Evicted(w)'
      BY <1>1, <1>2, <3>1 DEF Evicted
    <3> QED
      BY <1>1, <2>3, <3>2 DEF Turn, Shutdown
  <2> QED
    BY <2>2, <2>3
<1>4. \A u \in Worker : u # w => Same(u)
  BY <1>1, FunctionTypes DEF Same
<1>5. Turns'
  BY <1>1, <1>3, <1>4, TurnsKept, TurnFacts
<1>6. AcceptPhase'
  <2>1. accepted = <<w>> => w \in Pending' \ newWorkers'
    BY <1>1, Queues, TurnFacts DEF AcceptPhase, Pending
  <2>2. /\ proc'[w] # "accepted" /\ proc'[w] # "launched"
        /\ toCoord'[w] # Ready
    BY <1>1, <1>2, Heads
  <2> QED
    BY <1>1, <1>4, <2>1, <2>2, AcceptKept, TurnFacts
<1>7. ClosingPhase' /\ NoCrashDuringLifecycle'
  BY <1>1, TurnFacts DEF ClosingPhase, NoCrashDuringLifecycle
<1> QED
  BY <1>5, <1>6, <1>7 DEF TurnPhase

------------------------------------------------------------------------------
(* The worker processes. *)

(* A worker that takes a step has not gone.                                *)
LEMMA NotClosing ==
  ASSUME TurnInv, NEW w \in Worker, proc[w] # "gone",
         closing' = closing, coord' = coord, lc' = lc,
         \A u \in Worker : u # w => Same(u)
  PROVE  ClosingPhase' /\ NoCrashDuringLifecycle'
  BY TurnFacts, FunctionTypes DEF ClosingPhase, NoCrashDuringLifecycle, Same

(* The handshake is over: "ready" is the first message.                    *)
LEMMA TurnConnect ==
  ASSUME TurnInv, NEW w \in Worker, Connect(w)
  PROVE  TurnPhase'
<1>1. /\ proc[w] = "accepted" /\ proc' = [proc EXCEPT ![w] = "idle"]
      /\ toCoord' = [toCoord EXCEPT ![w] = Append(@, Msg("ready"))]
      /\ lc' = lc /\ submitted' = submitted
      /\ UNCHANGED <<job, loaded, toWorker, manifest, workers, active, cached,
                     newWorkers, closing, coord, accepted>>
  BY DEF Connect, lifecycleVars, schedulerVars, coordVars
<1>2. /\ manifest[w] = NoManifest /\ w \notin KnownWorkers /\ w \in Pending
      /\ toCoord[w] = <<>>
  BY <1>1, TurnFacts DEF ManifestPhase, Pending
<1>3. ~Shutdown
  BY <1>2, TurnFacts DEF CallPhase, CallOver, Shutdown
<1>4. Unknown(w)
  <2>1. Turn(w)
    BY TurnFacts DEF Turns
  <2> QED
    BY <1>1, <1>2, <1>3, <2>1 DEF Turn, Unknown, Asked, Working, Resting,
       Evicted
<1>5. toCoord'[w] = Ready /\ proc'[w] = "idle"
  BY <1>1, <1>2, FunctionTypes, Queues DEF Ready
<1>6. Unknown(w)'
  BY <1>1, <1>2, <1>4, <1>5 DEF Unknown, KnownWorkers, Ready
<1>7. \A u \in Worker : u # w => Same(u)
  BY <1>1, FunctionTypes DEF Same
<1>8. Turns'
  BY <1>1, <1>3, <1>6, <1>7, TurnsKept, TurnFacts DEF Turn, Shutdown
<1>9. AcceptPhase'
  <2>1. accepted = <<w>>
    BY <1>1, TurnFacts DEF AcceptPhase
  <2>2. w \in Pending' \ newWorkers'
    BY <1>1, <1>2, <1>5 DEF Pending, KnownWorkers
  <2> QED
    BY <1>1, <1>5, <1>7, <2>1, <2>2, AcceptKept, TurnFacts
<1>10. ClosingPhase' /\ NoCrashDuringLifecycle'
  BY <1>1, <1>7, NotClosing
<1> QED
  BY <1>8, <1>9, <1>10 DEF TurnPhase

(* The worker says what it has loaded.                                     *)
LEMMA TurnAnswerManifest ==
  ASSUME TurnInv, NEW w \in Worker, AnswerManifest(w)
  PROVE  TurnPhase'
<1>1. /\ proc[w] = "idle" /\ toWorker[w] # <<>>
      /\ Head(toWorker[w]).cmd = "request_manifest"
      /\ toWorker' = [toWorker EXCEPT ![w] = Tail(@)]
      /\ toCoord' = [toCoord EXCEPT ![w] = Append(@, ManifestMsg(loaded[w]))]
      /\ lc' = lc /\ submitted' = submitted
      /\ UNCHANGED <<proc, job, loaded, manifest, workers, active, cached,
                     newWorkers, closing, coord, accepted>>
  BY DEF AnswerManifest, Receives, lifecycleVars, schedulerVars, coordVars,
     processVars
<1>2. ~Shutdown /\ Asked(w) /\ toWorker[w] = Ask /\ toCoord[w] = <<>>
  BY <1>1, HeadAsk, TurnFacts DEF Turns
<1>3. toWorker'[w] = <<>> /\ toCoord'[w] = Answer(w)
  BY <1>1, <1>2, FunctionTypes, Queues, Heads DEF Answer
<1>4. Asked(w)'
  BY <1>1, <1>2, <1>3 DEF Asked, Answer
<1>5. \A u \in Worker : u # w => Same(u)
  BY <1>1, FunctionTypes DEF Same
<1>6. Turns'
  BY <1>1, <1>2, <1>4, <1>5, TurnsKept, TurnFacts DEF Turn, Shutdown
<1>7. AcceptPhase'
  <2>1. accepted # <<w>>
    BY <1>2, AskedIsAccepted DEF Asked
  <2>2. proc'[w] # "accepted" /\ toCoord'[w] # Ready
    BY <1>1, <1>3, Heads
  <2> QED
    BY <1>1, <1>5, <2>1, <2>2, AcceptKept, TurnFacts
<1>8. ClosingPhase' /\ NoCrashDuringLifecycle'
  BY <1>1, <1>5, NotClosing
<1> QED
  BY <1>6, <1>7, <1>8 DEF TurnPhase

(* The worker starts the component submitted last.                         *)
LEMMA TurnStartComponent ==
  ASSUME TurnInv, NEW w \in Worker, StartComponent(w)
  PROVE  TurnPhase'
<1>1. /\ proc[w] = "idle" /\ toWorker[w] # <<>>
      /\ Head(toWorker[w]).cmd = "execute"
      /\ toWorker' = [toWorker EXCEPT ![w] = Tail(@)]
      /\ proc' = [proc EXCEPT ![w] = "running"]
      /\ job' = [job EXCEPT ![w] = Head(toWorker[w]).task]
      /\ lc' = lc /\ submitted' = submitted
      /\ UNCHANGED <<loaded, manifest, workers, active, cached, newWorkers,
                     closing, coord, accepted, toCoord>>
  BY DEF StartComponent, Receives, lifecycleVars, schedulerVars, coordVars
<1>2. ~Shutdown /\ Working(w) /\ toWorker[w] = Order /\ toCoord[w] = <<>>
  BY <1>1, HeadOrder, TurnFacts DEF Turns
<1>3. toWorker'[w] = <<>> /\ proc'[w] = "running" /\ job'[w] = Task
  BY <1>1, <1>2, FunctionTypes, Heads
<1>4. Working(w)'
  BY <1>1, <1>2, <1>3 DEF Working, Task
<1>5. \A u \in Worker : u # w => Same(u)
  BY <1>1, FunctionTypes DEF Same
<1>6. Turns'
  BY <1>1, <1>2, <1>4, <1>5, TurnsKept, TurnFacts DEF Turn, Shutdown
<1>7. AcceptPhase'
  <2>1. accepted # <<w>>
    BY <1>2, AskedIsAccepted DEF Working
  <2>2. proc'[w] # "accepted" /\ toCoord'[w] # Ready
    BY <1>1, <1>2, <1>3, Heads
  <2> QED
    BY <1>1, <1>5, <2>1, <2>2, AcceptKept, TurnFacts
<1>8. ClosingPhase' /\ NoCrashDuringLifecycle'
  BY <1>1, <1>5, NotClosing
<1> QED
  BY <1>6, <1>7, <1>8 DEF TurnPhase

(* A running worker is in the middle of its turn.                          *)
LEMMA RunningWorks ==
  ASSUME TurnInv, NEW w \in Worker, proc[w] = "running"
  PROVE  /\ ~Shutdown /\ Working(w) /\ job[w] = Task
         /\ toWorker[w] = <<>> /\ toCoord[w] = <<>>
  BY TurnFacts DEF Turns, Turn, Unknown, Asked, Working, Resting, Evicted,
     Ending

(* The worker reports: its manifest, then "done".                          *)
LEMMA TurnFinishComponent ==
  ASSUME TurnInv, NEW w \in Worker, FinishComponent(w)
  PROVE  TurnPhase'
<1> DEFINE pkgs == loaded[w] \cup Lib[submitted[job[w]]].loads
<1>1. /\ proc[w] = "running" /\ proc' = [proc EXCEPT ![w] = "idle"]
      /\ job' = [job EXCEPT ![w] = 0]
      /\ loaded' = [loaded EXCEPT ![w] = pkgs]
      /\ toCoord' = [toCoord EXCEPT ![w] = @ \o ManifestThenDone(job[w], pkgs)]
      /\ lc' = lc /\ submitted' = submitted
      /\ UNCHANGED <<manifest, workers, active, cached, newWorkers, closing,
                     coord, accepted, toWorker>>
  BY DEF FinishComponent, lifecycleVars, schedulerVars, coordVars
<1> HIDE DEF pkgs
<1>2. /\ ~Shutdown /\ Working(w) /\ job[w] = Task
      /\ toWorker[w] = <<>> /\ toCoord[w] = <<>>
  BY <1>1, RunningWorks
<1>3. /\ proc'[w] = "idle" /\ loaded'[w] = pkgs /\ Task' = Task
      /\ toCoord'[w] = <<ManifestMsg(pkgs), TaskMsg("done", Task)>>
  BY <1>1, <1>2, FunctionTypes, Queues DEF ManifestThenDone, Task
<1>4. Working(w)'
  <2>1. toCoord'[w] = Report(w)'
    BY <1>3 DEF Report
  <2> QED
    BY <1>1, <1>2, <1>3, <2>1 DEF Working
<1>5. \A u \in Worker : u # w => Same(u)
  BY <1>1, FunctionTypes DEF Same
<1>6. Turns'
  BY <1>1, <1>2, <1>4, <1>5, TurnsKept, TurnFacts DEF Turn, Shutdown
<1>7. AcceptPhase'
  <2>1. accepted # <<w>>
    BY <1>2, AskedIsAccepted DEF Working
  <2>2. proc'[w] # "accepted" /\ toCoord'[w] # Ready
    BY <1>3, Queues DEF Ready
  <2> QED
    BY <1>1, <1>5, <2>1, <2>2, AcceptKept, TurnFacts
<1>8. ClosingPhase' /\ NoCrashDuringLifecycle'
  BY <1>1, <1>5, NotClosing
<1> QED
  BY <1>6, <1>7, <1>8 DEF TurnPhase

(* The worker says "bye", once.                                            *)
LEMMA TurnSayBye ==
  ASSUME TurnInv, NEW w \in Worker, SayBye(w)
  PROVE  TurnPhase'
<1>1. /\ proc[w] \in {"idle", "running"} /\ toWorker[w] # <<>>
      /\ Head(toWorker[w]).cmd = "exit"
      /\ toWorker' = [toWorker EXCEPT ![w] = Tail(@)]
      /\ proc' = [proc EXCEPT ![w] = "gone"]
      /\ job' = [job EXCEPT ![w] = 0]
      /\ toCoord' = [toCoord EXCEPT ![w] = Append(@, Msg("bye"))]
      /\ lc' = lc /\ submitted' = submitted
      /\ UNCHANGED <<loaded, manifest, workers, active, cached, newWorkers,
                     closing, coord, accepted>>
  BY DEF SayBye, Receives, lifecycleVars, schedulerVars, coordVars
<1>2. /\ toCoord[w] = <<>> /\ workers[w] = "open" /\ proc[w] = "idle"
      /\ ~Shutdown => Evicted(w) /\ toWorker[w] = Leave
  BY <1>1, HeadLeave, TurnFacts DEF Turns
<1>3. /\ proc'[w] = "gone" /\ toCoord'[w] = Bye
      /\ toWorker'[w] = Tail(toWorker[w])
      /\ Queued(toWorker'[w]) \subseteq Queued(toWorker[w])
  <2>1. toWorker'[w] = Tail(toWorker[w]) /\ toWorker[w] \in Seq(Message)
    BY <1>1, FunctionTypes
  <2> QED
    BY <1>1, <1>2, <2>1, FunctionTypes, Queues, QueueTail DEF Bye
<1>4. Turn(w)'
  <2>1. CASE Shutdown
    <3>1. Ending(w)
      BY <2>1, TurnFacts DEF Turns, Turn
    <3>2. Ending(w)'
      BY <1>1, <1>2, <1>3, <3>1 DEF Ending, Bye
    <3> QED
      BY <1>1, <2>1, <3>2 DEF Turn, Shutdown
  <2>2. CASE ~Shutdown
    <3>1. Evicted(w)'
      BY <1>1, <1>2, <1>3, <2>2, Heads DEF Evicted, Bye
    <3> QED
      BY <1>1, <2>2, <3>1 DEF Turn, Shutdown
  <2> QED
    BY <2>1, <2>2
<1>5. \A u \in Worker : u # w => Same(u)
  BY <1>1, FunctionTypes DEF Same
<1>6. Turns'
  BY <1>1, <1>4, <1>5, TurnsKept, TurnFacts
<1>7. AcceptPhase'
  <2>1. accepted = <<w>> => w \in Pending' \ newWorkers'
    BY <1>1, <1>3, Queues, TurnFacts DEF AcceptPhase, Pending
  <2>2. /\ proc'[w] # "accepted" /\ proc'[w] # "launched"
        /\ toCoord'[w] # Ready
    BY <1>3, Heads
  <2> QED
    BY <1>1, <1>5, <2>1, <2>2, AcceptKept, TurnFacts
<1>8. ClosingPhase' /\ NoCrashDuringLifecycle'
  BY <1>1, <1>5, NotClosing
<1> QED
  BY <1>6, <1>7, <1>8 DEF TurnPhase

(* The process dies, and what it last said may be lost.                    *)
LEMMA TurnWorkerDies ==
  ASSUME TurnInv, NEW w \in Worker, WorkerDies(w)
  PROVE  TurnPhase'
<1>1. /\ proc[w] \in {"launched", "accepted", "idle", "running"}
      /\ proc' = [proc EXCEPT ![w] = "dead"]
      /\ job' = [job EXCEPT ![w] = 0]
      /\ lc' = lc /\ submitted' = submitted
      /\ UNCHANGED <<loaded, manifest, workers, active, cached, newWorkers,
                     closing, coord, accepted, toWorker>>
  BY DEF WorkerDies, lifecycleVars, schedulerVars, coordVars
<1>2. PICK k \in 0..Len(toCoord[w]) :
         toCoord' = [toCoord EXCEPT ![w] = SubSeq(@, 1, k)]
  BY DEF WorkerDies
<1>3. proc'[w] = "dead" /\ toCoord'[w] = SubSeq(toCoord[w], 1, k)
  BY <1>1, <1>2, FunctionTypes
<1>4. /\ toCoord[w] = <<>> => toCoord'[w] = <<>>
      /\ toCoord[w] = Ready => toCoord'[w] \in {<<>>, Ready}
      /\ toCoord[w] = Answer(w) => toCoord'[w] \in {<<>>, Answer(w)}
      /\ toCoord[w] = Done => toCoord'[w] \in {<<>>, Done}
      /\ toCoord[w] = Report(w) => toCoord'[w] \in {<<>>, Answer(w), Report(w)}
  <2>1. /\ Len(toCoord[w]) = 0 <=> toCoord[w] = <<>>
        /\ SubSeq(toCoord[w], 1, k) = toCoord'[w]
    BY <1>3, FunctionTypes, EmptySeq
  <2>2. toCoord[w] = <<>> => toCoord'[w] = <<>>
    BY <2>1, Prefixes
  <2>3. \A a : toCoord[w] = <<a>> => toCoord'[w] \in {<<>>, <<a>>}
    BY <2>1, Prefixes
  <2>4. \A a, b : toCoord[w] = <<a, b>> => toCoord'[w] \in {<<>>, <<a>>, <<a, b>>}
    BY <2>1, Prefixes
  <2> QED
    BY <2>2, <2>3, <2>4 DEF Ready, Answer, Done, Report
<1>5. Turn(w)'
  <2>1. Turn(w)
    BY TurnFacts DEF Turns
  <2>2. CASE Shutdown
    <3>1. Ending(w)'
      BY <1>1, <1>3, <1>4, <2>1, <2>2 DEF Turn, Ending
    <3> QED
      BY <1>1, <2>2, <3>1 DEF Turn, Shutdown
  <2>3. CASE ~Shutdown
    <3>1. CASE Unknown(w)
      <4>1. Unknown(w)'
        BY <1>1, <1>3, <1>4, <3>1 DEF Unknown, KnownWorkers, Ready
      <4> QED
        BY <1>1, <2>3, <4>1 DEF Turn, Shutdown
    <3>2. CASE Asked(w)
      <4>1. Asked(w)'
        BY <1>1, <1>3, <1>4, <3>2 DEF Asked, Ask, Answer
      <4> QED
        BY <1>1, <2>3, <4>1 DEF Turn, Shutdown
    <3>3. CASE Working(w)
      <4>1. Working(w)'
        BY <1>1, <1>3, <1>4, <3>3 DEF Working, Order, Report, Done, Answer, Task
      <4> QED
        BY <1>1, <2>3, <4>1 DEF Turn, Shutdown
    <3>4. CASE Resting(w)
      <4>1. Resting(w)'
        BY <1>1, <1>3, <1>4, <3>4 DEF Resting
      <4> QED
        BY <1>1, <2>3, <4>1 DEF Turn, Shutdown
    <3>5. CASE Evicted(w)
      <4>1. Evicted(w)'
        BY <1>1, <1>3, <1>4, <3>5 DEF Evicted, Leave
      <4> QED
        BY <1>1, <2>3, <4>1 DEF Turn, Shutdown
    <3> QED
      BY <2>1, <2>3, <3>1, <3>2, <3>3, <3>4, <3>5 DEF Turn
  <2> QED
    BY <2>2, <2>3
<1>6. \A u \in Worker : u # w => Same(u)
  BY <1>1, <1>2, FunctionTypes DEF Same
<1>7. Turns'
  BY <1>1, <1>5, <1>6, TurnsKept, TurnFacts
<1>8. AcceptPhase'
  <2>1. accepted = <<w>> => w \in Pending' \ newWorkers'
    BY <1>1, <1>3, Queues, TurnFacts DEF AcceptPhase, Pending
  <2>2. toCoord'[w] = Ready => toCoord[w] = Ready
    <3>1. toCoord[w] \in {<<>>, Ready, Answer(w), Report(w), Done}
      BY <1>1, TurnFacts DEF Turns, Turn, Unknown, Asked, Working, Resting,
         Evicted, Ending
    <3> QED
      BY <1>4, <3>1, Heads
  <2>3. toCoord'[w] = Ready => accepted = <<w>>
    BY <2>2, TurnFacts DEF AcceptPhase
  <2> QED
    BY <1>1, <1>3, <1>6, <2>1, <2>3, AcceptKept, TurnFacts
<1>9. ClosingPhase' /\ NoCrashDuringLifecycle'
  BY <1>1, <1>6, NotClosing
<1> QED
  BY <1>7, <1>8, <1>9 DEF TurnPhase

(* No step breaks the conversation.                                        *)
THEOREM TurnStep == TurnInv /\ [Next]_vars => TurnPhase'
<1> SUFFICES ASSUME TurnInv, [Next]_vars PROVE TurnPhase'
  OBVIOUS
<1>1. ASSUME Lifecycle PROVE TurnPhase'
  BY <1>1, TurnQuiet, TurnLifecycleDone, TurnSendExit DEF Lifecycle
<1>2. ASSUME Lambda PROVE TurnPhase'
  BY <1>2, TurnQuiet, TurnReuseWorker, TurnLaunchWorker,
     TurnEvictAndLaunchWorker DEF Lambda
<1>3. ASSUME NEW w \in Worker, Handler(w) PROVE TurnPhase'
  BY <1>3, TurnQuiet, TurnDoAccept, TurnOnReady, TurnOnNewWorkerManifest,
     TurnOnKnownWorkerManifest, TurnOnDone, TurnOnBye, TurnForgetWorker
     DEF Handler
<1>4. ASSUME NEW w \in Worker, WorkerStep(w) PROVE TurnPhase'
  BY <1>4, TurnConnect, TurnAnswerManifest, TurnStartComponent,
     TurnFinishComponent, TurnSayBye DEF WorkerStep
<1>5. ASSUME NEW w \in Worker, WorkerDies(w) PROVE TurnPhase'
  BY <1>5, TurnWorkerDies
<1>6. CASE UNCHANGED vars
  BY <1>6, TurnQuiet
<1> QED
  BY <1>1, <1>2, <1>3, <1>4, <1>5, <1>6 DEF Next

(* The conversation keeps its turns in every reachable state.              *)
THEOREM TurnInvariance == Spec => []TurnInv
<1>1. TurnInv /\ [Next]_vars => TurnInv'
  <2>1. TurnInv => PoolInv
    BY DEF TurnInv
  <2>2. PoolInv /\ [Next]_vars => PoolInv'
    BY TypeInvStep, PoolInvStep DEF PoolInv
  <2> QED
    BY <2>1, <2>2, TurnStep DEF TurnInv
<1> QED
  BY <1>1, TurnInit, PTL DEF Spec

------------------------------------------------------------------------------
(* What the situations say of a worker. *)

(* The commands a short queue contains.                                    *)
LEMMA Contents ==
  ASSUME NEW c
  PROVE  /\ ~Contains(<<>>, c)
         /\ Contains(Ready, c) <=> c = "ready"
         /\ Contains(Ask, c) <=> c = "request_manifest"
         /\ Contains(Leave, c) <=> c = "exit"
         /\ Contains(Bye, c) <=> c = "bye"
         /\ Contains(Order, c) <=> c = "execute"
         /\ Contains(Done, c) <=> c = "done"
         /\ \A w \in Worker :
              /\ Contains(Answer(w), c) <=> c = "response_manifest"
              /\ Contains(Report(w), c) <=> c \in {"response_manifest", "done"}
<1>1. /\ Queued(<<>>) = {}
      /\ \A m : Queued(<<m>>) = {m}
      /\ \A m, n : Queued(<<m, n>>) = {m, n}
  BY QueuedOf
<1>2. /\ \A m : Contains(<<m>>, c) <=> m.cmd = c
      /\ \A m, n : Contains(<<m, n>>, c) <=> m.cmd = c \/ n.cmd = c
      /\ ~Contains(<<>>, c)
  BY <1>1 DEF Contains
<1> QED
  BY <1>2, CommandOf DEF Ready, Ask, Leave, Bye, Order, Done, Answer, Report

(* A busy worker is in the middle of its turn.                             *)
LEMMA BusyWorks ==
  ASSUME TurnInv, NEW w \in Worker, Busy(w)
  PROVE  ~Shutdown /\ Working(w)
<1>1. Turn(w)
  BY TurnFacts DEF Turns
<1>2. ~Shutdown
  <2> SUFFICES ASSUME Ending(w) PROVE ~Busy(w)
    BY <1>1 DEF Turn
  <2>1. ~Contains(toWorker[w], "execute")
    BY CommandOf DEF Ending, Contains
  <2> QED
    BY <2>1, Contents DEF Ending, Busy
<1> QED
  BY <1>1, <1>2, Contents DEF Turn, Busy, Unknown, Asked, Resting, Evicted

(* A component is with one worker at most, and the scheduler knows it: the *)
(* worker that executes, or has reported, is the active one, so OnDone     *)
(* finds it in _active_workers (BusyWorkerIsActive of SecCask).            *)
THEOREM BusyCorrect == Spec => []BusyWorkerIsActive
<1>1. TurnInv => BusyWorkerIsActive
  <2> SUFFICES ASSUME TurnInv, NEW w \in Worker, Busy(w) PROVE active = {w}
    BY DEF BusyWorkerIsActive
  <2>1. w \in active
    BY BusyWorks DEF Working
  <2> QED
    BY <2>1, TurnFacts DEF CallPhase, AtMostOne
<1> QED
  BY <1>1, TurnInvariance, PTL

(* Until the shutdown the coordinator writes to a worker only when it has  *)
(* read what was written before, so the one write queue of a connection is *)
(* never used by two sends (SendsDoNotOverlap of SecCask).                 *)
THEOREM SendsCorrect == Spec => []SendsDoNotOverlap
<1>1. TurnInv => SendsDoNotOverlap
  <2> SUFFICES ASSUME TurnInv, ~Shutdown, NEW w \in Worker
               PROVE  /\ Len(toWorker[w]) <= 1
                      /\ Contains(toWorker[w], "exit") =>
                           proc[w] # "running" /\ toCoord[w] = <<>>
    BY DEF SendsDoNotOverlap
  <2>1. Turn(w)
    BY TurnFacts DEF Turns
  <2>2. toWorker[w] \in {<<>>, Ask, Order, Leave}
    BY <2>1 DEF Turn, Unknown, Asked, Working, Resting, Evicted
  <2>3. Len(toWorker[w]) <= 1
    <3>1. Len(<<>>) = 0 /\ \A m : Len(<<m>>) = 1
      OBVIOUS
    <3>2. Len(Ask) = 1 /\ Len(Order) = 1 /\ Len(Leave) = 1
      BY <3>1 DEF Ask, Order, Leave
    <3>3. Len(toWorker[w]) = 0 \/ Len(toWorker[w]) = 1
      BY <2>2, <3>1, <3>2, Zenon
    <3>4. \A n : n = 0 \/ n = 1 => n <= 1
      OBVIOUS
    <3> QED
      BY <3>3, <3>4, Zenon
  <2>4. ASSUME Contains(toWorker[w], "exit") PROVE Evicted(w)
    BY <2>1, <2>4, Contents DEF Turn, Unknown, Asked, Working, Resting
  <2>5. Evicted(w) /\ Contains(toWorker[w], "exit") =>
          proc[w] # "running" /\ toCoord[w] = <<>>
    BY Contents DEF Evicted
  <2> QED
    BY <2>3, <2>4, <2>5
<1> QED
  BY <1>1, TurnInvariance, PTL

(* What the scheduler believes a cached worker has imported is what it has *)
(* imported: the manifest is stored before "done" puts the worker into the *)
(* cache (CachedManifestIsFresh of SecCask).                               *)
THEOREM ManifestsCorrect == Spec => []CachedManifestIsFresh
<1>1. TurnInv => CachedManifestIsFresh
  <2> SUFFICES ASSUME TurnInv, NEW w \in cached
               PROVE  manifest[w].packages = loaded[w]
    BY DEF CachedManifestIsFresh
  <2>1. w \in Worker
    BY FunctionTypes
  <2>2. CASE Shutdown
    BY <2>1, <2>2, TurnFacts DEF Turns, Turn, Ending
  <2>3. CASE ~Shutdown
    BY <2>1, <2>3, PoolSituation DEF Resting
  <2> QED
    BY <2>2, <2>3
<1> QED
  BY <1>1, TurnInvariance, PTL

(* No handler uses a null connection and the scheduler raises neither      *)
(* KeyError nor WorkerPoolFull while the lifecycle runs: only the final    *)
(* loop over workers_ can crash (NoCrashDuringLifecycle of SecCask).       *)
THEOREM NoCrashCorrect == Spec => []NoCrashDuringLifecycle
<1>1. TurnInv => NoCrashDuringLifecycle
  BY TurnFacts
<1> QED
  BY <1>1, TurnInvariance, PTL

------------------------------------------------------------------------------
(* What the call of the lifecycle thread has come to. *)

(* Most steps leave the call and its results alone.                        *)
LEMMA CallKept ==
  ASSUME \/ \E w \in Worker : SendExit(w)
         \/ ExitLoopInvalidated \/ WaitForNewWorker
         \/ \E w \in Worker : ReuseWorker(w) \/ LaunchWorker(w)
         \/ \E v, w \in Worker : EvictAndLaunchWorker(v, w)
         \/ \E w \in Worker : DoAccept(w) \/ OnReady(w)
         \/ \E w \in Worker : OnNewWorkerManifest(w)
         \/ \E w \in Worker : OnKnownWorkerManifest(w)
         \/ \E w \in Worker : OnBye(w) \/ ForgetWorker(w)
         \/ \E w \in Worker : Connect(w) \/ AnswerManifest(w)
         \/ \E w \in Worker : StartComponent(w) \/ SayBye(w) \/ WorkerDies(w)
         \/ UNCHANGED vars
  PROVE  UNCHANGED <<lc, submitted, returned, mutex, ioTime, unlocking,
                     executed>>
<1> DEFINE Kept == UNCHANGED <<lc, submitted, returned, mutex, ioTime,
                               unlocking, executed>>
<1>1. ASSUME \/ \E w \in Worker : SendExit(w)
             \/ ExitLoopInvalidated \/ WaitForNewWorker
             \/ \E w \in Worker : ReuseWorker(w) \/ LaunchWorker(w)
             \/ \E v, w \in Worker : EvictAndLaunchWorker(v, w)
             \/ UNCHANGED vars
      PROVE  Kept
  BY <1>1 DEF SendExit, ExitLoopInvalidated, WaitForNewWorker, ReuseWorker,
     LaunchWorker, EvictAndLaunchWorker, vars, lifecycleVars, coordVars,
     processVars
<1>2. ASSUME \/ \E w \in Worker : DoAccept(w) \/ OnReady(w)
             \/ \E w \in Worker : OnNewWorkerManifest(w)
             \/ \E w \in Worker : OnKnownWorkerManifest(w)
             \/ \E w \in Worker : OnBye(w) \/ ForgetWorker(w)
      PROVE  Kept
  BY <1>2 DEF DoAccept, OnReady, OnNewWorkerManifest, OnKnownWorkerManifest,
     OnBye, ForgetWorker, lifecycleVars, coordVars, processVars
<1>3. ASSUME NEW w \in Worker,
             \/ Connect(w) \/ AnswerManifest(w) \/ StartComponent(w)
             \/ SayBye(w) \/ WorkerDies(w)
      PROVE  Kept
  BY <1>3 DEF Connect, AnswerManifest, StartComponent, SayBye, WorkerDies,
     lifecycleVars, coordVars, processVars
<1> QED
  BY <1>1, <1>2, <1>3

(* last_component_io_time is that of the component submitted last from the *)
(* time "done" is handled until on_new_component reads it.                 *)
IoPhase == unlocking # {} \/ (lc = "locking" /\ ~mutex) => ioTime = Task

LEMMA IoPhaseStep == TurnInv /\ IoPhase /\ [Next]_vars => IoPhase'
<1> SUFFICES ASSUME TurnInv, IoPhase, [Next]_vars PROVE IoPhase'
  OBVIOUS
<1>1. CASE UNCHANGED <<lc, submitted, mutex, ioTime, unlocking>>
  BY <1>1 DEF IoPhase, Task
<1>2. ASSUME NEW c \in Component, OnNewComponent(c) PROVE IoPhase'
  BY <1>2, TurnFacts DEF OnNewComponent, coordVars, CallPhase, IoPhase
<1>3. CASE ComponentReturns
  BY <1>3, TurnFacts DEF ComponentReturns, coordVars, CallPhase, IoPhase
<1>4. CASE LifecycleDone \/ ExitLoopEnds
  BY <1>4, TurnFacts DEF LifecycleDone, ExitLoopEnds, coordVars, CallPhase,
     IoPhase
<1>5. CASE LockAndRelease
  BY <1>5 DEF LockAndRelease, IoPhase, Task
<1>6. ASSUME NEW w \in Worker, OnDone(w) PROVE IoPhase'
  <2>1. ~Shutdown /\ submitted' = submitted /\ ioTime' = Head(toCoord[w]).task
    BY <1>6 DEF OnDone, GilAvailable, Shutdown, lifecycleVars
  <2>2. toCoord[w] = Done
    BY <1>6, <2>1, HeadDone, TurnFacts DEF OnDone, Handles, Turns
  <2> QED
    BY <2>1, <2>2, Heads DEF IoPhase, Task
<1>7. ASSUME NEW w \in Worker, UnlockLifecycle(w) PROVE IoPhase'
  BY <1>7 DEF UnlockLifecycle, lifecycleVars, IoPhase, Task
<1>8. ASSUME NEW w \in Worker, FinishComponent(w) PROVE IoPhase'
  <2>1. UNCHANGED <<lc, submitted, mutex, ioTime, unlocking>>
    BY <1>8 DEF FinishComponent, lifecycleVars, coordVars
  <2> QED
    BY <1>1, <2>1
<1> QED
  BY <1>1, <1>2, <1>3, <1>4, <1>5, <1>6, <1>7, <1>8, CallKept
     DEF Next, Lifecycle, Lambda, Handler, WorkerStep

THEOREM IoPhaseInvariance == Spec => []IoPhase
<1>1. Init => IoPhase
  BY DEF Init, IoPhase
<1> QED
  BY <1>1, IoPhaseStep, TurnInvariance, PTL DEF Spec

(* on_new_component returns the I/O time of the component it was called    *)
(* for, not that of an earlier one (ReturnsOwnIoTime of SecCask).          *)
THEOREM IoTimeCorrect == Spec => ReturnsOwnIoTime
<1>1. TurnInv /\ IoPhase /\ [Next]_vars =>
        [returned' # returned => ioTime = Len(submitted)]_vars
  <2> SUFFICES ASSUME TurnInv, IoPhase, [Next]_vars, returned' # returned
               PROVE  ioTime = Len(submitted)
    OBVIOUS
  <2>1. ComponentReturns
    <3>1. ASSUME \/ \E c \in Component : OnNewComponent(c)
                 \/ LifecycleDone \/ ExitLoopEnds \/ LockAndRelease
                 \/ \E w \in Worker : OnDone(w) \/ UnlockLifecycle(w)
                 \/ \E w \in Worker : FinishComponent(w)
          PROVE  FALSE
      BY <3>1 DEF OnNewComponent, LifecycleDone, ExitLoopEnds, LockAndRelease,
         OnDone, UnlockLifecycle, FinishComponent, lifecycleVars
    <3> QED
      BY <3>1, CallKept DEF Next, Lifecycle, Lambda, Handler, WorkerStep
  <2> QED
    BY <2>1 DEF ComponentReturns, IoPhase, Task
<1> QED
  BY <1>1, IoPhaseInvariance, TurnInvariance, PTL DEF Spec, ReturnsOwnIoTime

(* A step changes what is in the pool only for reuse, a new worker, "done" *)
(* and an eviction.                                                        *)
LEMMA ReusedIsReuse ==
  ASSUME TurnInv, [Next]_vars, NEW w \in cached \cap active'
  PROVE  ReuseWorker(w)
<1>1. w \in Worker /\ w \notin active /\ manifest[w] # NoManifest
  BY TurnFacts, FunctionTypes DEF ManifestPhase
<1>2. ASSUME \/ Lifecycle \/ UNCHANGED vars
             \/ \E u \in Worker : LaunchWorker(u)
             \/ \E u, v \in Worker : EvictAndLaunchWorker(v, u)
             \/ WaitForNewWorker \/ LockAndRelease
      PROVE  FALSE
  BY <1>1, <1>2 DEF Lifecycle, OnNewComponent, ComponentReturns, LifecycleDone,
     SendExit, ExitLoopInvalidated, ExitLoopEnds, LaunchWorker,
     EvictAndLaunchWorker, WaitForNewWorker, LockAndRelease, vars, schedulerVars
<1>3. ASSUME NEW u \in Worker,
             \/ DoAccept(u) \/ OnReady(u) \/ OnKnownWorkerManifest(u)
             \/ OnDone(u) \/ UnlockLifecycle(u) \/ OnBye(u) \/ ForgetWorker(u)
      PROVE  FALSE
  BY <1>1, <1>3 DEF DoAccept, OnReady, OnKnownWorkerManifest, OnDone,
     UnlockLifecycle, OnBye, ForgetWorker, schedulerVars
<1>4. ASSUME NEW u \in Worker, OnNewWorkerManifest(u) PROVE FALSE
  <2>1. active' \subseteq active \cup {u} /\ manifest[u] = NoManifest
    BY <1>4 DEF OnNewWorkerManifest, AssignNewWorker, CacheNewWorker
  <2> QED
    BY <1>1, <2>1
<1>5. ASSUME NEW u \in Worker, WorkerStep(u) \/ WorkerDies(u) PROVE FALSE
  BY <1>1, <1>5 DEF WorkerStep, Connect, AnswerManifest, StartComponent,
     FinishComponent, SayBye, WorkerDies, schedulerVars
<1>6. ASSUME NEW u \in Worker, ReuseWorker(u) PROVE u = w
  BY <1>1, <1>6 DEF ReuseWorker
<1> QED
  BY <1>2, <1>3, <1>4, <1>5, <1>6 DEF Next, Lambda, Handler

(* With the compatibility check in force, a worker that is taken from the  *)
(* cache really has imported every package the component declares          *)
(* (ReusedWorkerHasPackages of SecCask): what the scheduler believes of it *)
(* is true, and no level of the check accepts less.                        *)
THEOREM PackagesCorrect ==
  ASSUME ~Singleton
  PROVE  Spec => ReusedWorkerHasPackages
<1>1. TurnInv /\ [Next]_vars =>
        [\A w \in cached \cap active' :
           Lib[Current].packages \subseteq loaded[w]]_vars
  <2> SUFFICES ASSUME TurnInv, [Next]_vars, NEW w \in cached \cap active'
               PROVE  Lib[Current].packages \subseteq loaded[w]
    OBVIOUS
  <2>1. ReuseWorker(w)
    BY ReusedIsReuse
  <2>2. ~Shutdown /\ w \in Worker
    BY <2>1, LambdaFacts, FunctionTypes DEF ReuseWorker
  <2>3. manifest[w].packages = loaded[w]
    BY <2>2, PoolSituation DEF Resting
  <2>4. IsCompatible(manifest[w], Current)
    BY <2>1 DEF ReuseWorker, First, Reusable
  <2>5. Lib[Current].packages \subseteq manifest[w].packages
    BY <2>4 DEF IsCompatible, Level1, VersionIs, Level2, Level3
  <2> QED
    BY <2>3, <2>5
<1> QED
  BY <1>1, TurnInvariance, PTL DEF Spec, ReusedWorkerHasPackages

------------------------------------------------------------------------------
(* The coordinator implements ComponentService. *)

(* Some worker is still to run the component submitted last.               *)
Expected ==
  \/ strand \in {"posted", "launched"}
  \/ waiting # {}
  \/ \E w \in active : toWorker[w] # <<>> \/ proc[w] = "running"

(* A worker has run it, or the call is over.                               *)
Ran ==
  \/ lc \in {"running", "exiting", "over"}
  \/ unlocking # {}
  \/ lc = "locking" /\ ~mutex
  \/ \E w \in active : toCoord[w] # <<>>

(* How many components have been executed, and how many calls returned.    *)
ExecPhase ==
  /\ Expected => Len(executed) + 1 = Task
  /\ Ran => Len(executed) = Task
  /\ returned = IF lc \in {"posted", "locking"} THEN Task - 1 ELSE Task

(* A step after which no more is expected, or done, than before.           *)
LEMMA ExecKept ==
  ASSUME ExecPhase, Expected' => Expected, Ran' => Ran,
         UNCHANGED <<executed, submitted, returned>>,
         lc' \in {"posted", "locking"} <=> lc \in {"posted", "locking"}
  PROVE  ExecPhase'
  BY DEF ExecPhase, Task

(* A step about a worker that is not active.                               *)
LEMMA ExecOfOthers ==
  ASSUME ExecPhase, NEW w, w \notin active, active' = active,
         \A u \in active : u # w => /\ toWorker'[u] = toWorker[u]
                                    /\ toCoord'[u] = toCoord[u]
                                    /\ proc'[u] = proc[u],
         UNCHANGED <<lc, strand, waiting, submitted, returned, mutex, unlocking,
                     executed>>
  PROVE  ExecPhase'
<1>1. \A u \in active : u # w
  OBVIOUS
<1>2. Expected' => Expected
  BY <1>1 DEF Expected
<1>3. Ran' => Ran
  BY <1>1 DEF Ran
<1> QED
  BY <1>2, <1>3, ExecKept

(* The steps of the lifecycle thread.                                      *)
LEMMA ExecLifecycle ==
  ASSUME TurnInv, ExecPhase, Lifecycle
  PROVE  ExecPhase'
<1>1. Task \in Nat /\ submitted \in Seq(Component)
  BY TurnFacts DEF LifecycleTypes, Task
<1>2. ASSUME NEW c \in Component, OnNewComponent(c) PROVE ExecPhase'
  <2>1. Task' = Task + 1
    BY <1>1, <1>2, SubmittedGrows DEF OnNewComponent, Task
  <2>2. Len(executed) = Task /\ returned = Task
    BY <1>2 DEF OnNewComponent, ExecPhase, Ran
  <2>3. ~Ran'
    BY <1>2, TurnFacts DEF OnNewComponent, schedulerVars, coordVars, CallPhase,
       CallOver, Ran
  <2>4. lc' = "posted" /\ returned' = returned /\ executed' = executed
    BY <1>2 DEF OnNewComponent, processVars
  <2> QED
    BY <1>1, <2>1, <2>2, <2>3, <2>4 DEF ExecPhase
<1>3. ASSUME ComponentReturns PROVE ExecPhase'
  <2>1. /\ lc = "locking" /\ ~mutex /\ lc' = "running"
        /\ returned' = returned + 1 /\ Task' = Task /\ executed' = executed
    BY <1>3 DEF ComponentReturns, processVars, Task
  <2>2. Len(executed) = Task /\ returned = Task - 1
    BY <2>1 DEF ExecPhase, Ran
  <2>3. ~Expected'
    BY <1>3, TurnFacts DEF ComponentReturns, schedulerVars, CallPhase, CallOver,
       Expected
  <2> QED
    BY <1>1, <2>1, <2>2, <2>3 DEF ExecPhase
<1>4. ASSUME LifecycleDone \/ ExitLoopEnds PROVE ExecPhase'
  <2>1. /\ UNCHANGED <<strand, waiting, active, toWorker, toCoord, proc>>
        /\ UNCHANGED <<submitted, returned, executed>>
        /\ lc \in {"running", "exiting"} /\ lc' \in {"exiting", "over"}
    BY <1>4 DEF LifecycleDone, ExitLoopEnds, schedulerVars, processVars,
       channelVars
  <2>2. Expected' => Expected
    BY <2>1 DEF Expected
  <2>3. Ran
    BY <2>1 DEF Ran
  <2> QED
    BY <2>1, <2>2, <2>3, ExecKept
<1>5. ASSUME ExitLoopInvalidated \/ \E w \in Worker : SendExit(w)
      PROVE  ExecPhase'
  <2>1. /\ lc = "exiting" /\ UNCHANGED <<lc, strand, waiting, active>>
        /\ UNCHANGED <<submitted, returned, executed>>
    BY <1>5 DEF ExitLoopInvalidated, SendExit, lifecycleVars, schedulerVars,
       processVars
  <2>2. active' = {} /\ waiting' = {} /\ strand' = "none"
    BY <2>1, TurnFacts DEF CallPhase, CallOver, LifecycleTypes
  <2>3. Ran /\ ~Expected'
    BY <2>1, <2>2 DEF Ran, Expected
  <2> QED
    BY <2>1, <2>3, ExecKept
<1> QED
  BY <1>2, <1>3, <1>4, <1>5 DEF Lifecycle

(* The steps of the lambda.                                                *)
LEMMA ExecLambda ==
  ASSUME TurnInv, ExecPhase, Lambda
  PROVE  ExecPhase'
<1>1. ASSUME strand = "posted", UNCHANGED <<lc, submitted, returned, mutex>>,
             UNCHANGED <<unlocking, executed>>,
             \A u \in active' : toCoord'[u] = <<>>
      PROVE  ExecPhase'
  <2>1. Expected
    BY <1>1 DEF Expected
  <2>2. ~Ran'
    BY <1>1, LambdaFacts, TurnFacts DEF CallPhase, Ran
  <2> QED
    BY <1>1, <2>1, <2>2, ExecKept
<1>2. strand = "posted" => active = {}
  BY TurnFacts DEF CallPhase, CallOver
<1>3. ASSUME NEW w \in Worker, ReuseWorker(w) PROVE ExecPhase'
  <2>1. Resting(w)
    BY <1>3, LambdaFacts, PoolSituation DEF ReuseWorker, First, Reusable
  <2>2. strand = "posted" /\ active' = {w} /\ toCoord' = toCoord
    BY <1>2, <1>3 DEF ReuseWorker
  <2> QED
    BY <1>1, <1>3, <2>1, <2>2, CallKept DEF Resting
<1>4. ASSUME NEW w \in Worker, LaunchWorker(w) PROVE ExecPhase'
  BY <1>1, <1>2, <1>4, CallKept DEF LaunchWorker, schedulerVars
<1>5. ASSUME NEW v \in Worker, NEW w \in Worker, EvictAndLaunchWorker(v, w)
      PROVE  ExecPhase'
  BY <1>1, <1>2, <1>5, CallKept DEF EvictAndLaunchWorker
<1>6. ASSUME WaitForNewWorker PROVE ExecPhase'
  <2>1. UNCHANGED <<lc, submitted, returned, mutex, unlocking, executed>>
    BY <1>6, CallKept
  <2>2. Expected /\ (Ran' => Ran)
    BY <1>6, <2>1 DEF WaitForNewWorker, channelVars, Expected, Ran
  <2> QED
    BY <2>1, <2>2, ExecKept
<1>7. ASSUME LockAndRelease PROVE ExecPhase'
  <2>1. /\ lc = "posted" /\ lc' = "locking" /\ mutex' = TRUE
        /\ UNCHANGED <<submitted, returned, executed, unlocking, active>>
        /\ UNCHANGED <<waiting, toWorker, toCoord, proc>> /\ strand' = "none"
    BY <1>7, LambdaFacts DEF LockAndRelease, schedulerVars, processVars,
       channelVars
  <2>2. (Expected' => Expected) /\ (Ran' => Ran)
    BY <2>1 DEF Expected, Ran
  <2> QED
    BY <2>1, <2>2, ExecKept
<1> QED
  BY <1>3, <1>4, <1>5, <1>6, <1>7 DEF Lambda

(* A worker the coordinator is not waiting for is not active.              *)
LEMMA SilentIsIdle ==
  ASSUME TurnInv, NEW w \in Worker,
         Shutdown \/ Evicted(w) \/ manifest[w] = NoManifest
  PROVE  w \notin active
  BY TurnFacts DEF CallPhase, CallOver, Shutdown, Evicted, ManifestPhase

(* The handlers of the coordinator.                                        *)
LEMMA ExecHandler ==
  ASSUME TurnInv, ExecPhase, NEW w \in Worker, Handler(w)
  PROVE  ExecPhase'
<1>1. ASSUME DoAccept(w) \/ OnReady(w) PROVE ExecPhase'
  <2>1. w \notin active
    <3>1. DoAccept(w) => manifest[w] = NoManifest
      BY TurnFacts DEF DoAccept, ManifestPhase
    <3>2. OnReady(w) => manifest[w] = NoManifest
      BY HeadReady, TurnFacts DEF OnReady, Handles, GilAvailable, Shutdown,
         Turns, Unknown
    <3> QED
      BY <1>1, <3>1, <3>2, SilentIsIdle
  <2>2. /\ active' = active /\ strand' = strand /\ waiting' = waiting
        /\ \A u \in active : u # w => /\ toWorker'[u] = toWorker[u]
                                      /\ toCoord'[u] = toCoord[u]
                                      /\ proc'[u] = proc[u]
    BY <1>1, FunctionTypes DEF DoAccept, OnReady, SendThrough, Consume,
       lifecycleVars, schedulerVars, processVars, channelVars
  <2> QED
    BY <1>1, <2>1, <2>2, CallKept, ExecOfOthers
<1>2. ASSUME OnNewWorkerManifest(w) PROVE ExecPhase'
  <2> DEFINE m == CaptureCurrentEnv(Head(toCoord[w]).pkgs)
  <2>1. w \notin active
    BY <1>2, SilentIsIdle DEF OnNewWorkerManifest
  <2>2. /\ strand' = strand /\ proc' = proc
        /\ \A u \in Worker : u # w => toCoord'[u] = toCoord[u]
        /\ toCoord'[w] = Tail(toCoord[w])
    BY <1>2, FunctionTypes DEF OnNewWorkerManifest, Consume, lifecycleVars,
       processVars
  <2>3. Tail(toCoord[w]) = <<>>
    BY <1>2, HeadManifest, TurnFacts DEF OnNewWorkerManifest, Handles,
       GilAvailable, Shutdown, Turns, Working
  <2> HIDE DEF m
  <2>4. ASSUME NEW n \in Servable(m), AssignNewWorker(w, m, n)
        PROVE  ExecPhase'
    <3>1. waiting # {} /\ active = {} /\ active' = {w}
      BY <2>4, TurnFacts DEF Servable, AssignNewWorker, CallPhase
    <3>2. Expected
      BY <3>1 DEF Expected
    <3>3. UNCHANGED <<lc, mutex, unlocking>> /\ toCoord'[w] = <<>>
      BY <1>2, <2>2, <2>3, CallKept
    <3>4. Ran' => Ran
      BY <3>1, <3>3 DEF Ran
    <3> QED
      BY <1>2, <3>2, <3>4, CallKept, ExecKept
  <2>5. ASSUME CacheNewWorker(w, m) PROVE ExecPhase'
    <3>1. UNCHANGED <<active, waiting, toWorker>>
      BY <2>5 DEF CacheNewWorker
    <3> QED
      BY <1>2, <2>1, <2>2, <3>1, FunctionTypes, CallKept, ExecOfOthers
  <2> QED
    BY <1>2, <2>4, <2>5 DEF OnNewWorkerManifest, m
<1>3. ASSUME OnKnownWorkerManifest(w) PROVE ExecPhase'
  <2>1. /\ UNCHANGED <<strand, waiting, active, toWorker, proc>>
        /\ ~Shutdown /\ toCoord[w] # <<>>
        /\ Head(toCoord[w]).cmd = "response_manifest"
    BY <1>3 DEF OnKnownWorkerManifest, Handles, GilAvailable, Shutdown,
       lifecycleVars, processVars
  <2>2. w \in active
    BY <1>3, <2>1, HeadManifest, TurnFacts DEF OnKnownWorkerManifest, Turns,
       Asked, Working, KnownWorkers
  <2>3. Ran /\ (Expected' => Expected)
    BY <2>1, <2>2 DEF Ran, Expected
  <2> QED
    BY <1>3, <2>3, CallKept, ExecKept
<1>4. ASSUME OnDone(w) PROVE ExecPhase'
  <2>1. /\ UNCHANGED <<lc, strand, waiting, submitted, returned, executed>>
        /\ ~Shutdown /\ toCoord[w] # <<>> /\ Head(toCoord[w]).cmd = "done"
    BY <1>4 DEF OnDone, Handles, GilAvailable, Shutdown, lifecycleVars,
       processVars
  <2>2. w \in active
    BY <2>1, HeadDone, TurnFacts DEF Turns, Working
  <2>3. active' = {} /\ waiting = {} /\ strand \notin {"posted", "launched"}
    BY <1>4, <2>2, TurnFacts DEF OnDone, CallPhase, CallOver, AtMostOne
  <2>4. Ran /\ ~Expected'
    BY <2>1, <2>2, <2>3 DEF Ran, Expected
  <2> QED
    BY <2>1, <2>4, ExecKept
<1>5. ASSUME UnlockLifecycle(w) PROVE ExecPhase'
  <2>1. /\ UNCHANGED <<lc, strand, waiting, active, toWorker, toCoord, proc>>
        /\ UNCHANGED <<submitted, returned, executed>> /\ unlocking # {}
    BY <1>5 DEF UnlockLifecycle, lifecycleVars, schedulerVars, processVars,
       channelVars
  <2>2. Ran /\ (Expected' => Expected)
    BY <2>1 DEF Ran, Expected
  <2> QED
    BY <2>1, <2>2, ExecKept
<1>6. ASSUME OnBye(w) \/ ForgetWorker(w) PROVE ExecPhase'
  <2>1. /\ UNCHANGED <<strand, waiting, active, toWorker, proc>>
        /\ \A u \in Worker : u # w => toCoord'[u] = toCoord[u]
    BY <1>6, FunctionTypes DEF OnBye, ForgetWorker, Consume, lifecycleVars,
       schedulerVars, processVars, channelVars
  <2>2. proc[w] = "gone"
    BY <1>6, HeadBye, TurnFacts DEF OnBye, Handles, ForgetWorker, ClosingPhase,
       Turns
  <2>3. w \notin active
    BY <2>2, SilentIsIdle, TurnFacts DEF Turns, Turn, Unknown, Asked, Working,
       Resting, Evicted
  <2> QED
    BY <1>6, <2>1, <2>3, FunctionTypes, CallKept, ExecOfOthers
<1> QED
  BY <1>1, <1>2, <1>3, <1>4, <1>5, <1>6 DEF Handler

(* The worker processes: FinishComponent runs the component submitted last. *)
LEMMA ExecWorker ==
  ASSUME TurnInv, ExecPhase, NEW w \in Worker, WorkerStep(w) \/ WorkerDies(w)
  PROVE  ExecPhase'
<1>1. UNCHANGED <<lc, strand, waiting, active, submitted, returned, mutex>>
      /\ UNCHANGED unlocking
  BY DEF WorkerStep, Connect, AnswerManifest, StartComponent, FinishComponent,
     SayBye, WorkerDies, lifecycleVars, schedulerVars, coordVars
<1>2. \A u \in Worker : u # w => /\ toWorker'[u] = toWorker[u]
                                 /\ toCoord'[u] = toCoord[u]
                                 /\ proc'[u] = proc[u]
  BY FunctionTypes DEF WorkerStep, Connect, AnswerManifest, StartComponent,
     FinishComponent, SayBye, WorkerDies, Receives, processVars
<1>3. ASSUME Connect(w) \/ AnswerManifest(w) \/ SayBye(w) PROVE ExecPhase'
  <2>1. w \notin active
    <3>1. Connect(w) => manifest[w] = NoManifest
      BY TurnFacts DEF Connect, ManifestPhase
    <3>2. AnswerManifest(w) => manifest[w] = NoManifest
      BY HeadAsk, TurnFacts DEF AnswerManifest, Receives, Turns, Asked
    <3>3. SayBye(w) => Shutdown \/ Evicted(w)
      BY HeadLeave, TurnFacts DEF SayBye, Receives, Turns
    <3> QED
      BY <1>3, <3>1, <3>2, <3>3, SilentIsIdle
  <2> QED
    BY <1>1, <1>2, <1>3, <2>1, FunctionTypes, CallKept, ExecOfOthers
<1>4. ASSUME StartComponent(w) PROVE ExecPhase'
  <2>1. w \in active /\ toWorker[w] # <<>> /\ toCoord' = toCoord
    BY <1>4, HeadOrder, TurnFacts DEF StartComponent, Receives, Turns, Working
  <2>2. Expected /\ (Ran' => Ran)
    BY <1>1, <2>1 DEF Expected, Ran
  <2> QED
    BY <1>1, <1>4, <2>2, CallKept, ExecKept
<1>5. ASSUME FinishComponent(w) PROVE ExecPhase'
  <2>1. proc[w] = "running" /\ Working(w) /\ toWorker[w] = <<>>
    BY <1>5, RunningWorks DEF FinishComponent
  <2>2. /\ active = {w} /\ waiting = {} /\ strand \notin {"posted", "launched"}
    BY <2>1, TurnFacts DEF Working, CallPhase, CallOver, AtMostOne
  <2>3. Len(executed) + 1 = Task
    BY <2>1, <2>2 DEF ExecPhase, Expected
  <2>4. Len(executed') = Task' /\ Task' = Task
    BY <1>1, <1>5, <2>3, TurnFacts DEF FinishComponent, ProcessTypes, Task
  <2>5. ~Expected'
    BY <1>1, <1>5, <2>1, <2>2, FunctionTypes DEF FinishComponent, Expected
  <2> QED
    BY <1>1, <2>4, <2>5 DEF ExecPhase
<1>6. ASSUME WorkerDies(w) PROVE ExecPhase'
  <2>1. proc'[w] = "dead" /\ toWorker' = toWorker
    BY <1>6, FunctionTypes DEF WorkerDies
  <2>2. toCoord[w] = <<>> => toCoord'[w] = <<>>
    <3>1. PICK k \in 0..Len(toCoord[w]) : toCoord'[w] = SubSeq(toCoord[w], 1, k)
      BY <1>6, FunctionTypes DEF WorkerDies
    <3> QED
      BY <3>1, Prefixes
  <2>3. (Expected' => Expected) /\ (Ran' => Ran)
    BY <1>1, <1>2, <2>1, <2>2, FunctionTypes DEF Expected, Ran
  <2> QED
    BY <1>1, <1>6, <2>3, CallKept, ExecKept
<1> QED
  BY <1>3, <1>4, <1>5, <1>6 DEF WorkerStep

THEOREM ExecPhaseInvariance == Spec => []ExecPhase
<1>1. Init => ExecPhase
  BY DEF Init, ExecPhase, Expected, Ran, Task
<1>2. TurnInv /\ ExecPhase /\ [Next]_vars => ExecPhase'
  <2> SUFFICES ASSUME TurnInv, ExecPhase, [Next]_vars PROVE ExecPhase'
    OBVIOUS
  <2>1. CASE UNCHANGED vars
    <3>1. (Expected' => Expected) /\ (Ran' => Ran)
      BY <2>1 DEF vars, lifecycleVars, schedulerVars, coordVars, processVars,
         channelVars, Expected, Ran
    <3> QED
      BY <2>1, <3>1, CallKept, ExecKept
  <2> QED
    BY <2>1, ExecLifecycle, ExecLambda, ExecHandler, ExecWorker DEF Next
<1> QED
  BY <1>1, <1>2, TurnInvariance, PTL DEF Spec

(* The coordinator, its scheduler and its workers implement the service    *)
(* the trial manager sees: one component at a time, each executed exactly  *)
(* once, in the order of the calls, and before its call returns            *)
(* (ImplementsService of SecCask).                                         *)
THEOREM ServiceCorrect == Spec => ImplementsService
<1>1. Init => Service!ServiceInit
  BY DEF Init, Service!ServiceInit
<1>2. TurnInv /\ ExecPhase /\ [Next]_vars =>
        [Service!ServiceNext]_(Service!serviceVars)
  <2> SUFFICES ASSUME TurnInv, ExecPhase, [Next]_vars
               PROVE  [Service!ServiceNext]_(Service!serviceVars)
    OBVIOUS
  <2>1. Task \in Nat /\ Len(executed) \in Nat
    BY TurnFacts DEF LifecycleTypes, ProcessTypes, Task
  <2>2. CASE UNCHANGED <<submitted, executed, returned>>
    BY <2>2 DEF Service!serviceVars
  <2>3. ASSUME NEW c \in Component, OnNewComponent(c) PROVE Service!Submit(c)
    <3>1. returned = Len(submitted)
      BY <2>3 DEF OnNewComponent, ExecPhase, Task
    <3> QED
      BY <2>3, <3>1 DEF OnNewComponent, processVars, Service!Submit
  <2>4. ASSUME ComponentReturns PROVE Service!Return
    <3>1. returned = Task - 1 /\ Len(executed) = Task
      BY <2>4 DEF ComponentReturns, ExecPhase, Ran
    <3>2. returned' = Task
      BY <2>1, <2>4, <3>1 DEF ComponentReturns
    <3> QED
      BY <2>1, <2>4, <3>1, <3>2
         DEF ComponentReturns, processVars, Service!Return, Task
  <2>5. ASSUME NEW w \in Worker, FinishComponent(w) PROVE Service!Execute
    <3>1. job[w] = Task /\ w \in active
      BY <2>5, RunningWorks DEF FinishComponent, Working
    <3>2. Len(executed) + 1 = Task
      BY <2>5, <3>1 DEF FinishComponent, ExecPhase, Expected
    <3>3. executed' = Append(executed, submitted[Len(executed) + 1])
      BY <2>5, <3>1, <3>2 DEF FinishComponent
    <3> QED
      BY <2>1, <2>5, <3>2, <3>3
         DEF FinishComponent, lifecycleVars, Service!Execute, Task
  <2>6. ASSUME \/ LifecycleDone \/ ExitLoopEnds \/ LockAndRelease
               \/ \E w \in Worker : OnDone(w) \/ UnlockLifecycle(w)
        PROVE  UNCHANGED <<submitted, executed, returned>>
    BY <2>6 DEF LifecycleDone, ExitLoopEnds, LockAndRelease, OnDone,
       UnlockLifecycle, lifecycleVars, processVars
  <2> QED
    BY <2>2, <2>3, <2>4, <2>5, <2>6, CallKept
       DEF Next, Lifecycle, Lambda, Handler, WorkerStep, Service!ServiceNext
<1> QED
  BY <1>1, <1>2, ExecPhaseInvariance, TurnInvariance, PTL
     DEF Spec, ImplementsService, Service!ServiceSpec

------------------------------------------------------------------------------
(* The coordinator ends only after the lifecycle. *)

(* Once a worker has been used, one is in the pool until the shutdown.     *)
Survivor ==
  ~Shutdown /\ (\E w \in Worker : manifest[w] # NoManifest) =>
    active \cup cached # {}

(* An eviction leaves a worker, if there are two slots or more.            *)
LEMMA EvictionLeaves ==
  ASSUME NumSlot >= 2, TurnInv, NEW v \in Worker, NEW w \in Worker,
         EvictAndLaunchWorker(v, w)
  PROVE  cached' # {}
<1>1. active = {} /\ cached' = cached \ {v} /\ PoolFull
  BY TurnFacts DEF EvictAndLaunchWorker, CallPhase, CallOver
<1>2. IsFiniteSet(cached)
  BY FS_Subset, TurnFacts DEF SlotsReserved
<1>3. Cardinality(cached) \in Nat /\ Cardinality(cached) >= 2
  BY <1>1, <1>2, FS_EmptySet, FS_CardinalityType, SecCaskAssumption DEF PoolFull
<1>4. SUFFICES ASSUME cached \subseteq {v} PROVE FALSE
  BY <1>1
<1>5. IsFiniteSet({v}) /\ Cardinality({v}) = 1
  BY FS_Singleton
<1>6. Cardinality(cached) <= 1
  BY <1>4, <1>5, FS_Subset
<1> QED
  BY <1>3, <1>6

LEMMA SurvivorStep ==
  ASSUME NumSlot >= 2, TurnInv, Survivor, [Next]_vars
  PROVE  Survivor'
<1>1. CASE /\ UNCHANGED <<manifest, active, cached>>
           /\ Shutdown => Shutdown'
  BY <1>1 DEF Survivor
<1>2. ASSUME Lifecycle \/ UNCHANGED vars PROVE Survivor'
  <2>1. UNCHANGED <<manifest, active, cached>> /\ (Shutdown => Shutdown')
    BY <1>2 DEF Lifecycle, OnNewComponent, ComponentReturns, LifecycleDone,
       SendExit, ExitLoopInvalidated, ExitLoopEnds, vars, lifecycleVars,
       schedulerVars, Shutdown
  <2> QED
    BY <1>1, <2>1
<1>3. ASSUME Lambda PROVE Survivor'
  <2>1. CASE WaitForNewWorker \/ LockAndRelease
    <3>1. UNCHANGED <<manifest, active, cached>> /\ ~Shutdown
      BY <2>1, LambdaFacts DEF WaitForNewWorker, LockAndRelease, schedulerVars
    <3> QED
      BY <1>1, <3>1
  <2>2. ASSUME NEW w \in Worker, ReuseWorker(w) PROVE Survivor'
    BY <2>2 DEF ReuseWorker, Survivor
  <2>3. ASSUME NEW w \in Worker, LaunchWorker(w) PROVE Survivor'
    <3>1. UNCHANGED <<manifest, active, cached>> /\ ~Shutdown
      BY <2>3, LambdaFacts DEF LaunchWorker, schedulerVars
    <3> QED
      BY <1>1, <3>1
  <2>4. ASSUME NEW v \in Worker, NEW w \in Worker, EvictAndLaunchWorker(v, w)
        PROVE  Survivor'
    BY <2>4, EvictionLeaves DEF Survivor
  <2> QED
    BY <1>3, <2>1, <2>2, <2>3, <2>4 DEF Lambda
<1>4. ASSUME NEW w \in Worker, Handler(w) PROVE Survivor'
  <2>1. CASE DoAccept(w) \/ UnlockLifecycle(w) \/ OnBye(w) \/ ForgetWorker(w)
    <3>1. UNCHANGED <<manifest, active, cached, lc>>
      BY <2>1 DEF DoAccept, UnlockLifecycle, OnBye, ForgetWorker, schedulerVars,
         lifecycleVars
    <3> QED
      BY <1>1, <3>1 DEF Shutdown
  <2>2. CASE OnReady(w)
    <3>1. /\ UNCHANGED <<active, cached, lc>>
          /\ \A u \in Worker :
               manifest'[u] # NoManifest => manifest[u] # NoManifest
      BY <2>2, FunctionTypes DEF OnReady, lifecycleVars
    <3> QED
      BY <3>1 DEF Survivor, Shutdown
  <2>3. CASE OnNewWorkerManifest(w)
    <3>1. w \in active' \cup cached'
      BY <2>3 DEF OnNewWorkerManifest, AssignNewWorker, CacheNewWorker
    <3> QED
      BY <3>1 DEF Survivor
  <2>4. CASE OnKnownWorkerManifest(w)
    <3>1. w \in active /\ active' = active
      BY <2>4, HeadManifest, TurnFacts DEF OnKnownWorkerManifest, Handles,
         GilAvailable, Shutdown, Turns, Asked, Working, KnownWorkers
    <3> QED
      BY <3>1 DEF Survivor
  <2>5. CASE OnDone(w)
    <3>1. w \in active
      BY <2>5, HeadDone, TurnFacts DEF OnDone, Handles, GilAvailable, Shutdown,
         Turns, Working
    <3> QED
      BY <2>5, <3>1 DEF OnDone, Survivor
  <2> QED
    BY <1>4, <2>1, <2>2, <2>3, <2>4, <2>5 DEF Handler
<1>5. ASSUME NEW w \in Worker, WorkerStep(w) \/ WorkerDies(w) PROVE Survivor'
  <2>1. UNCHANGED <<manifest, active, cached, lc>>
    BY <1>5 DEF WorkerStep, Connect, AnswerManifest, StartComponent,
       FinishComponent, SayBye, WorkerDies, schedulerVars, lifecycleVars
  <2> QED
    BY <1>1, <2>1 DEF Shutdown
<1> QED
  BY <1>2, <1>3, <1>4, <1>5 DEF Next

(* Only "bye" can end the coordinator.                                     *)
LEMMA OnlyForgetting ==
  ASSUME Next, \A w \in Worker : ~ForgetWorker(w)
  PROVE  coord' # "exited"
<1>1. ASSUME Lifecycle \/ Lambda PROVE coord' # "exited"
  BY <1>1 DEF Lifecycle, OnNewComponent, ComponentReturns, LifecycleDone,
     SendExit, ExitLoopInvalidated, ExitLoopEnds, Lambda, ReuseWorker,
     LaunchWorker, EvictAndLaunchWorker, WaitForNewWorker, LockAndRelease,
     SendThrough, coordVars, Up
<1>2. ASSUME NEW w \in Worker, Handler(w) PROVE coord' # "exited"
  <2>1. CASE OnNewWorkerManifest(w)
    BY <2>1 DEF OnNewWorkerManifest, AssignNewWorker, CacheNewWorker,
       SendThrough, Up
  <2> QED
    BY <1>2, <2>1 DEF Handler, DoAccept, OnReady, OnKnownWorkerManifest, OnDone,
       UnlockLifecycle, OnBye, SendThrough, coordVars, Up
<1>3. ASSUME NEW w \in Worker, WorkerStep(w) \/ WorkerDies(w)
      PROVE  coord' # "exited"
  BY <1>3 DEF WorkerStep, Connect, AnswerManifest, StartComponent,
     FinishComponent, SayBye, WorkerDies, coordVars, Up
<1> QED
  BY <1>1, <1>2, <1>3 DEF Next

(* With two slots or more the "bye" of an evicted worker is never that of  *)
(* the last registered one, so the coordinator does not end in the middle  *)
(* of a pipeline (NoPrematureExit of SecCask).                             *)
THEOREM ExitCorrect ==
  ASSUME NumSlot >= 2
  PROVE  Spec => []NoPrematureExit
<1>1. Init => Survivor /\ NoPrematureExit
  BY DEF Init, Survivor, NoPrematureExit
<1>2. TurnInv /\ Survivor /\ [Next]_vars => Survivor'
  BY SurvivorStep
<1>3. TurnInv /\ Survivor /\ NoPrematureExit /\ [Next]_vars => NoPrematureExit'
  <2> SUFFICES ASSUME TurnInv, Survivor, NoPrematureExit, [Next]_vars,
                      coord' = "exited"
               PROVE  lc' \in {"exiting", "over"}
    BY DEF NoPrematureExit
  <2>1. CASE UNCHANGED vars
    BY <2>1 DEF NoPrematureExit, vars, lifecycleVars, coordVars
  <2>2. ASSUME NEW w \in Worker, ForgetWorker(w)
        PROVE  lc' \in {"exiting", "over"}
    <3>1. Registered = {w} /\ lc' = lc /\ w \in closing
      BY <2>2 DEF ForgetWorker, LastToGo, lifecycleVars, Up
    <3>2. SUFFICES ASSUME ~Shutdown PROVE FALSE
      BY <3>1 DEF Shutdown
    <3>3. Evicted(w)
      BY <3>1, <3>2, TurnFacts DEF ClosingPhase, Turns, Turn, Unknown, Asked,
         Working, Resting
    <3>4. PICK u \in active \cup cached : TRUE
      BY <3>2, <3>3 DEF Survivor, Evicted
    <3>5. u \in Worker /\ u # w
      BY <3>3, FunctionTypes DEF Evicted
    <3>6. workers[u] = "open"
      BY <3>2, <3>5, PoolSituation DEF Resting, Working
    <3> QED
      BY <3>1, <3>5, <3>6 DEF Registered
  <2> QED
    BY <2>1, <2>2, OnlyForgetting
<1> QED
  BY <1>1, <1>2, <1>3, TurnInvariance, PTL DEF Spec
===============================================================================
