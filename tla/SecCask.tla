-------------------------------- MODULE SecCask --------------------------------
(***************************************************************************)
(* The coordinator process, its scheduler and its workers                  *)
(* (csrc/coordinator.cc, csrc/worker.cc, pysrc/scheduler.py,               *)
(* pysrc/worker_cache.py, pysrc/workerconn.py).                            *)
(*                                                                         *)
(* Threads. The lifecycle thread runs the trial manager, which calls       *)
(* on_new_component once per component and blocks until the component is   *)
(* done. IOThreads threads run the io_context of the coordinator: the      *)
(* lambda OnNewComponent posts to lifecycle_strand_, and one handler at a  *)
(* time for each connection. Each worker is a process of its own.          *)
(*                                                                         *)
(* Python code runs under the GIL, which is released while the ssh command *)
(* that starts a worker is in progress, so that is where the lambda is     *)
(* split; the C++ part of a handler after its GIL scope is a step of its   *)
(* own. A connection is a FIFO in each direction.                          *)
(***************************************************************************)
EXTENDS Naturals, Sequences, FiniteSets, Compatibility

CONSTANTS
  Worker,             \* worker ids; a launch takes a fresh one (a uuid4)
  BasePackages,       \* packages a worker has imported when it connects
  NumSlot,            \* scheduler.default_num_slot
  IOThreads,          \* env.num_threads
  CheckOnCaching,     \* scheduler.enable_compatibility_check_on_caching
  CheckOnNewWorker,   \* scheduler.enable_compatibility_check_on_new_worker
  Singleton,          \* scheduler.__debug_singleton_worker
  MaxTasks,           \* bound: components the experiment executes
  MaxCrashes          \* bound: worker processes that die

ASSUME SecCaskAssumption ==
  /\ BasePackages \subseteq Package
  /\ NumSlot \in Nat \ {0}
  /\ IOThreads \in Nat \ {0}
  /\ CheckOnCaching \in BOOLEAN
  /\ CheckOnNewWorker \in BOOLEAN
  /\ Singleton \in BOOLEAN
  /\ MaxTasks \in Nat
  /\ MaxCrashes \in Nat

VARIABLES
  (* the lifecycle thread and the lambda it posts *)
  lc,          \* where the lifecycle thread is
  strand,      \* where the lambda on lifecycle_strand_ is
  submitted,   \* components passed to on_new_component; the index is the id
  returned,    \* history: number of on_new_component calls that returned
  told,        \* workers the final loop over workers_ has visited, in order
  (* the scheduler *)
  active,      \* _active_workers
  cached,      \* _cached_workers
  older,       \* insertion order of _cached_workers: <<u, v>> if u came first
  newWorkers,  \* _new_workers
  waiting,     \* _waiting_components
  manifest,    \* manifest of each worker connection
  (* the C++ coordinator *)
  accepted,    \* new_workers_: accepted connections with no id yet
  workers,     \* workers_: "absent", "open" or a "null" pointer
  unlocking,   \* "done" handlers between cache_worker and unlock
  closing,     \* "bye" handlers between workers_[id] = nullptr and erase
  mutex,       \* g_lifecycle_mutex is locked
  ioTime,      \* component whose time last_component_io_time holds
  coord,       \* the coordinator process: "up", "exited" or "crashed"
  (* the workers and the connections *)
  proc,        \* state of each worker process
  job,         \* component a running worker executes
  loaded,      \* packages each worker process has imported
  executed,    \* history: components run to completion by some worker
  toWorker,    \* connection, coordinator to worker
  toCoord,     \* connection, worker to coordinator
  crashes      \* number of worker processes that died

lifecycleVars == <<lc, strand, submitted, returned, told>>
schedulerVars == <<active, cached, older, newWorkers, waiting, manifest>>
coordVars == <<accepted, workers, unlocking, closing, mutex, ioTime, coord>>
processVars == <<proc, job, loaded, executed, crashes>>
channelVars == <<toWorker, toCoord>>
vars == <<lifecycleVars, schedulerVars, coordVars, processVars, channelVars>>

Commands == {"ready", "request_manifest", "response_manifest",
             "execute", "done", "exit", "bye"}

(* Message: the command, the component id of "execute" and "done" (0 for   *)
(* the others) and the packages of "response_manifest".                    *)
Message == [cmd : Commands, task : Nat, pkgs : SUBSET Package]

Msg(cmd) == [cmd |-> cmd, task |-> 0, pkgs |-> {}]
TaskMsg(cmd, n) == [cmd |-> cmd, task |-> n, pkgs |-> {}]
ManifestMsg(pkgs) == [cmd |-> "response_manifest", task |-> 0, pkgs |-> pkgs]

Init ==
  /\ lc = "running"
  /\ strand = "none"
  /\ submitted = <<>>
  /\ returned = 0
  /\ told = <<>>
  /\ active = {}
  /\ cached = {}
  /\ older = {}
  /\ newWorkers = {}
  /\ waiting = {}
  /\ manifest = [w \in Worker |-> NoManifest]
  /\ accepted = <<>>
  /\ workers = [w \in Worker |-> "absent"]
  /\ unlocking = {}
  /\ closing = {}
  /\ mutex = FALSE
  /\ ioTime = 0
  /\ coord = "up"
  /\ proc = [w \in Worker |-> "unused"]
  /\ job = [w \in Worker |-> 0]
  /\ loaded = [w \in Worker |-> BasePackages]
  /\ executed = <<>>
  /\ toWorker = [w \in Worker |-> <<>>]
  /\ toCoord = [w \in Worker |-> <<>>]
  /\ crashes = 0

------------------------------------------------------------------------------
(* Shared pieces *)

(* Nothing is modelled after the coordinator process has ended. *)
Up == coord = "up"

(* An IO thread is idle: the lambda keeps one from its first step to its   *)
(* last, and so does a handler that is in the middle of its work.          *)
FreeThread ==
  Cardinality(unlocking) + Cardinality(closing)
    + (IF strand \in {"launched", "lock"} THEN 1 ELSE 0) < IOThreads

(* The final loop runs in C++ with the GIL held and never gives it back. *)
GilAvailable == lc \notin {"exiting", "over"}

Registered == {w \in Worker : workers[w] # "absent"}

(* workers_[id]->Send(msg), where handler is the value of workers_[id]: a  *)
(* null pointer (operator[] inserts one for an unknown id) ends the        *)
(* process.                                                                *)
SendThrough(handler, w, m) ==
  IF handler = "open"
    THEN /\ toWorker' = [toWorker EXCEPT ![w] = Append(@, m)]
         /\ coord' = coord
    ELSE /\ coord' = "crashed"
         /\ UNCHANGED toWorker

(* The OrderedDict behind PACache, as a set and its insertion order. *)
AddLast(order, members, w) == order \cup (members \X {w})
DropFrom(order, w) == {p \in order : p[1] # w /\ p[2] # w}
First(S) == {w \in S : \A u \in S : <<u, w>> \notin older}

(* get_worker searches the three collections by id. *)
KnownWorkers == newWorkers \cup active \cup cached

------------------------------------------------------------------------------
(* The lifecycle thread: trial manager and OnNewComponent *)

(* on_new_component, up to the wait for the promise. *)
OnNewComponent(c) ==
  /\ Up
  /\ lc = "running"
  /\ Len(submitted) < MaxTasks
  /\ submitted' = Append(submitted, c)
  /\ lc' = "posted"
  /\ strand' = "posted"
  /\ UNCHANGED <<returned, told>>
  /\ UNCHANGED <<schedulerVars, coordVars, processVars, channelVars>>

(* The lock that blocks the trial manager is obtained; it is given back at *)
(* once and on_new_component returns last_component_io_time.               *)
ComponentReturns ==
  /\ Up
  /\ lc = "locking"
  /\ ~mutex
  /\ returned' = returned + 1
  /\ lc' = "running"
  /\ UNCHANGED <<strand, submitted, told>>
  /\ UNCHANGED <<schedulerVars, coordVars, processVars, channelVars>>

(* on_new_lifecycle returns: all pipelines of the experiment are done. *)
LifecycleDone ==
  /\ Up
  /\ lc = "running"
  /\ lc' = "exiting"
  /\ UNCHANGED <<strand, submitted, returned, told>>
  /\ UNCHANGED <<schedulerVars, coordVars, processVars, channelVars>>

ToldWorkers == {told[i] : i \in 1..Len(told)}

(* One iteration of the final loop. Ids are random, so the order of the    *)
(* map is arbitrary.                                                       *)
SendExit(w) ==
  /\ Up
  /\ lc = "exiting"
  /\ w \in Registered \ ToldWorkers
  /\ told' = Append(told, w)
  /\ SendThrough(workers[w], w, Msg("exit"))
  /\ UNCHANGED <<lc, strand, submitted, returned>>
  /\ UNCHANGED <<accepted, workers, unlocking, closing, mutex, ioTime>>
  /\ UNCHANGED <<schedulerVars, processVars, toCoord>>

(* ++it on a node that a "bye" handler has erased is undefined: the freed  *)
(* node may still look intact (SendExit, ExitLoopEnds) or the process may  *)
(* die.                                                                    *)
ExitLoopInvalidated ==
  /\ Up
  /\ lc = "exiting"
  /\ told # <<>>
  /\ told[Len(told)] \notin Registered
  /\ coord' = "crashed"
  /\ UNCHANGED <<accepted, workers, unlocking, closing, mutex, ioTime>>
  /\ UNCHANGED <<lifecycleVars, schedulerVars, processVars, channelVars>>

ExitLoopEnds ==
  /\ Up
  /\ lc = "exiting"
  /\ Registered \subseteq ToldWorkers
  /\ lc' = "over"
  /\ UNCHANGED <<strand, submitted, returned, told>>
  /\ UNCHANGED <<schedulerVars, coordVars, processVars, channelVars>>

------------------------------------------------------------------------------
(* The lambda on lifecycle_strand_: get_compatible_worker_sync, then the   *)
(* lock and the promise.                                                   *)

Current == submitted[Len(submitted)]

(* The component is found by its id, candidate_ids[i] of the trial manager: *)
(* here its position in the run. The mutated form takes the next id.        *)
NextComponentId == Len(submitted) + 1
ComponentId == Len(submitted)

(* Cached workers the scan would accept for component c. *)
Reusable(c) ==
  {w \in cached : Singleton \/ (CheckOnCaching /\ IsCompatible(manifest[w], c))}

(* The first acceptable cached worker gets the component. *)
ReuseWorker(w) ==
  /\ Up
  /\ strand = "posted"
  /\ FreeThread
  /\ w \in First(Reusable(Current))
  /\ cached' = cached \ {w}
  /\ older' = DropFrom(older, w)
  /\ active' = active \cup {w}
  /\ manifest' = [manifest EXCEPT ![w] = RecordLastExecuted(@, Current)]
  /\ SendThrough(workers[w], w, TaskMsg("execute", ComponentId))
  /\ strand' = "lock"
  /\ UNCHANGED <<lc, submitted, returned, told, newWorkers, waiting>>
  /\ UNCHANGED <<accepted, workers, unlocking, closing, mutex, ioTime>>
  /\ UNCHANGED <<processVars, toCoord>>

(* is_worker_set_full. Mutated forms: the pool may hold one worker more, or *)
(* evicts while a slot is free.                                            *)
PoolFullTooLate == Cardinality(active) + Cardinality(cached) > NumSlot
PoolFullTooEarly == Cardinality(active) + Cardinality(cached) + 1 >= NumSlot
PoolFull == Cardinality(active) + Cardinality(cached) >= NumSlot

(* PACache.remove_end: a cached worker that last ran the same library,     *)
(* otherwise the oldest one.                                               *)
RemoveEnd(c) ==
  LET same == {w \in cached : /\ manifest[w] # NoManifest
                              /\ manifest[w].name = Lib[c].name}
  IN  IF same # {} THEN First(same) ELSE First(cached)

(* WorkerPoolFull, which nothing catches. *)
RaisesPoolFull == Cardinality(active) >= NumSlot

(* No cached worker fits and the pool has room: the ssh command starts a   *)
(* worker; the GIL is free until it has been sent. An exception that       *)
(* leaves the lambda ends the process.                                     *)
LaunchWorker(w) ==
  /\ Up
  /\ strand = "posted"
  /\ FreeThread
  /\ Reusable(Current) = {}
  /\ RaisesPoolFull \/ ~PoolFull
  /\ proc[w] = "unused"
  /\ strand' = "launched"
  /\ proc' = [proc EXCEPT ![w] = "launched"]
  /\ coord' = IF RaisesPoolFull THEN "crashed" ELSE coord
  /\ UNCHANGED <<lc, submitted, returned, told>>
  /\ UNCHANGED <<accepted, workers, unlocking, closing, mutex, ioTime>>
  /\ UNCHANGED <<job, loaded, executed, crashes>>
  /\ UNCHANGED <<schedulerVars, channelVars>>

(* The pool is full: worker v is evicted and told to exit first. *)
EvictAndLaunchWorker(v, w) ==
  /\ Up
  /\ strand = "posted"
  /\ FreeThread
  /\ Reusable(Current) = {}
  /\ ~RaisesPoolFull
  /\ PoolFull
  /\ v \in RemoveEnd(Current)
  /\ proc[w] = "unused"
  /\ cached' = cached \ {v}
  /\ older' = DropFrom(older, v)
  /\ SendThrough(workers[v], v, Msg("exit"))
  /\ strand' = "launched"
  /\ proc' = [proc EXCEPT ![w] = "launched"]
  /\ UNCHANGED <<lc, submitted, returned, told>>
  /\ UNCHANGED <<active, newWorkers, waiting, manifest>>
  /\ UNCHANGED <<accepted, workers, unlocking, closing, mutex, ioTime>>
  /\ UNCHANGED <<job, loaded, executed, crashes, toCoord>>

(* The ssh command has been sent: the component starts to wait. *)
WaitForNewWorker ==
  /\ Up
  /\ strand = "launched"
  /\ waiting' = waiting \cup {ComponentId}
  /\ strand' = "lock"
  /\ UNCHANGED <<lc, submitted, returned, told>>
  /\ UNCHANGED <<active, cached, older, newWorkers, manifest>>
  /\ UNCHANGED <<coordVars, processVars, channelVars>>

(* Mutated form: the lambda sets the promise and does not lock. *)
ReleaseWithoutLock ==
  /\ Up
  /\ strand = "lock"
  /\ strand' = "none"
  /\ lc' = "locking"
  /\ UNCHANGED <<submitted, returned, told>>
  /\ UNCHANGED <<schedulerVars, coordVars, processVars, channelVars>>

(* g_lifecycle_mutex.lock() on the IO thread, and the promise is set. *)
LockAndRelease ==
  /\ Up
  /\ strand = "lock"
  /\ ~mutex
  /\ mutex' = TRUE
  /\ strand' = "none"
  /\ lc' = "locking"
  /\ UNCHANGED <<submitted, returned, told>>
  /\ UNCHANGED <<accepted, workers, unlocking, closing, ioTime, coord>>
  /\ UNCHANGED <<schedulerVars, processVars, channelVars>>

------------------------------------------------------------------------------
(* Handlers of the coordinator: DoActionFromMsg *)

(* The connection of w has a message of this command next and an IO thread *)
(* can run its handler; a connection reads again when its handler is over. *)
Handles(w, cmd) ==
  /\ FreeThread
  /\ w \notin unlocking \cup closing
  /\ toCoord[w] # <<>>
  /\ Head(toCoord[w]).cmd = cmd

Consume(w) == toCoord' = [toCoord EXCEPT ![w] = Tail(@)]

(* OnWorkerGotID: remove_if moves the other connections to the front and   *)
(* returns the last position, whose pointer has been moved from unless it  *)
(* is the connection that was looked for; that is what workers_[id] gets.  *)
HandlerFound(w) ==
  IF accepted # <<>> /\ accepted[Len(accepted)] = w THEN "open" ELSE "null"

(* ... and erases that last position: w is gone, the order is kept. *)
AcceptedWithout(w) ==
  LET n == CHOOSE i \in 1..Len(accepted) : accepted[i] = w
  IN  [i \in 1..(Len(accepted) - 1) |->
         IF i < n THEN accepted[i] ELSE accepted[i + 1]]

(* The started process connects: the accept handler keeps the connection,  *)
(* for which it has no id yet.                                             *)
DoAccept(w) ==
  /\ Up
  /\ FreeThread
  /\ proc[w] = "launched"
  /\ proc' = [proc EXCEPT ![w] = "accepted"]
  /\ accepted' = Append(accepted, w)
  /\ UNCHANGED <<workers, unlocking, closing, mutex, ioTime, coord>>
  /\ UNCHANGED <<job, loaded, executed, crashes>>
  /\ UNCHANGED <<lifecycleVars, schedulerVars, channelVars>>

OnReady(w) ==
  /\ Up
  /\ Handles(w, "ready")
  /\ GilAvailable
  /\ Consume(w)
  /\ newWorkers' = newWorkers \cup {w}
  /\ manifest' = [manifest EXCEPT ![w] = NoManifest]
  /\ accepted' = AcceptedWithout(w)
  /\ workers' = [workers EXCEPT ![w] = HandlerFound(w)]
  /\ SendThrough(HandlerFound(w), w, Msg("request_manifest"))
  /\ UNCHANGED <<active, cached, older, waiting>>
  /\ UNCHANGED <<unlocking, closing, mutex, ioTime>>
  /\ UNCHANGED <<lifecycleVars, processVars>>

(* Waiting components the worker with manifest m may be given. *)
Servable(m) ==
  {n \in waiting : CheckOnNewWorker => IsCompatible(m, submitted[n])}

(* Mutated form of the next one: the component is left in the waiting set. *)
AssignAndKeepWaiting(w, m, n) ==
  /\ newWorkers' = newWorkers \ {w}
  /\ active' = active \cup {w}
  /\ manifest' = [manifest EXCEPT ![w] = RecordLastExecuted(m, submitted[n])]
  /\ SendThrough(workers[w], w, TaskMsg("execute", n))
  /\ UNCHANGED <<cached, older, waiting>>

(* on_worker_ready: worker w, in the cache, takes component n. *)
AssignNewWorker(w, m, n) ==
  /\ waiting' = waiting \ {n}
  /\ newWorkers' = newWorkers \ {w}
  /\ active' = active \cup {w}
  /\ manifest' = [manifest EXCEPT ![w] = RecordLastExecuted(m, submitted[n])]
  /\ SendThrough(workers[w], w, TaskMsg("execute", n))
  /\ UNCHANGED <<cached, older>>

(* on_worker_ready: no waiting component fits, so the worker stays cached  *)
(* (and in _new_workers).                                                  *)
CacheNewWorker(w, m) ==
  /\ cached' = cached \cup {w}
  /\ older' = AddLast(older, cached, w)
  /\ manifest' = [manifest EXCEPT ![w] = m]
  /\ UNCHANGED <<active, newWorkers, waiting, toWorker, coord>>

OnNewWorkerManifest(w) ==
  /\ Up
  /\ Handles(w, "response_manifest")
  /\ GilAvailable
  /\ w \in KnownWorkers
  /\ manifest[w] = NoManifest
  /\ Consume(w)
  /\ LET m == CaptureCurrentEnv(Head(toCoord[w]).pkgs)
     IN  \/ \E n \in Servable(m) : AssignNewWorker(w, m, n)
         \/ Servable(m) = {} /\ CacheNewWorker(w, m)
  /\ UNCHANGED <<accepted, workers, unlocking, closing, mutex, ioTime>>
  /\ UNCHANGED <<lifecycleVars, processVars>>

OnKnownWorkerManifest(w) ==
  /\ Up
  /\ Handles(w, "response_manifest")
  /\ GilAvailable
  /\ w \notin KnownWorkers \/ manifest[w] # NoManifest
  /\ Consume(w)
  /\ manifest' =
       IF w \notin KnownWorkers
         THEN manifest  \* logged: no worker with this id
         ELSE LET m == CaptureCurrentEnv(Head(toCoord[w]).pkgs)
              IN  [manifest EXCEPT ![w] = OnResponseManifest(@, m)]
  /\ UNCHANGED <<active, cached, older, newWorkers, waiting>>
  /\ UNCHANGED <<lifecycleVars, coordVars, processVars, toWorker>>

(* "done": the time is stored and the worker goes from active to cached.   *)
(* An unknown worker is only logged; the KeyError of a worker that is not  *)
(* active leaves the handler and ends the process.                         *)
OnDone(w) ==
  /\ Up
  /\ Handles(w, "done")
  /\ GilAvailable
  /\ Consume(w)
  /\ ioTime' = Head(toCoord[w]).task
  /\ IF w \in active
       THEN /\ active' = active \ {w}
            /\ cached' = cached \cup {w}
            /\ older' = AddLast(older, cached, w)
            /\ unlocking' = unlocking \cup {w}
            /\ coord' = coord
       ELSE /\ coord' = IF w \in KnownWorkers THEN "crashed" ELSE coord
            /\ UNCHANGED <<active, cached, older, unlocking>>
  /\ UNCHANGED <<newWorkers, waiting, manifest>>
  /\ UNCHANGED <<accepted, workers, closing, mutex>>
  /\ UNCHANGED <<lifecycleVars, processVars, toWorker>>

(* Mutated form: the handler returns without the unlock. *)
ReturnWithoutUnlock(w) ==
  /\ Up
  /\ w \in unlocking
  /\ unlocking' = unlocking \ {w}
  /\ UNCHANGED <<accepted, workers, closing, mutex, ioTime, coord>>
  /\ UNCHANGED <<lifecycleVars, schedulerVars, processVars, channelVars>>

(* g_lifecycle_mutex.unlock(), which has no effect on an unlocked mutex. *)
UnlockLifecycle(w) ==
  /\ Up
  /\ w \in unlocking
  /\ mutex' = FALSE
  /\ unlocking' = unlocking \ {w}
  /\ UNCHANGED <<accepted, workers, closing, ioTime, coord>>
  /\ UNCHANGED <<lifecycleVars, schedulerVars, processVars, channelVars>>

(* "bye": the connection is closed and its pointer dropped... *)
OnBye(w) ==
  /\ Up
  /\ Handles(w, "bye")
  /\ Consume(w)
  /\ workers' = [workers EXCEPT ![w] = "null"]
  /\ closing' = closing \cup {w}
  /\ coord' = IF workers[w] = "open" THEN coord ELSE "crashed"
  /\ UNCHANGED <<accepted, unlocking, mutex, ioTime>>
  /\ UNCHANGED <<lifecycleVars, schedulerVars, processVars, toWorker>>

(* Is w the last registered worker? The mutated form tests for emptiness   *)
(* before the entry is erased.                                             *)
EmptyBeforeErase(w) == Registered = {}
LastToGo(w) == Registered = {w}

(* ... then the entry is erased and the last one to go ends the process. *)
ForgetWorker(w) ==
  /\ Up
  /\ w \in closing
  /\ workers' = [workers EXCEPT ![w] = "absent"]
  /\ closing' = closing \ {w}
  /\ coord' = IF LastToGo(w) THEN "exited" ELSE coord
  /\ UNCHANGED <<accepted, unlocking, mutex, ioTime>>
  /\ UNCHANGED <<lifecycleVars, schedulerVars, processVars, channelVars>>

------------------------------------------------------------------------------
(* Worker processes *)

(* The handshake is over on the worker's side, which says "ready".         *)
Connect(w) ==
  /\ Up
  /\ proc[w] = "accepted"
  /\ proc' = [proc EXCEPT ![w] = "idle"]
  /\ toCoord' = [toCoord EXCEPT ![w] = Append(@, Msg("ready"))]
  /\ UNCHANGED <<job, loaded, executed, crashes>>
  /\ UNCHANGED <<lifecycleVars, schedulerVars, coordVars, toWorker>>

(* The worker's connection has a message of this command next. *)
Receives(w, cmd) ==
  /\ proc[w] \in {"idle", "running"}
  /\ toWorker[w] # <<>>
  /\ Head(toWorker[w]).cmd = cmd
  /\ toWorker' = [toWorker EXCEPT ![w] = Tail(@)]

(* request_manifest waits on component_strand_ for a running component. *)
AnswerManifest(w) ==
  /\ Up
  /\ proc[w] = "idle"
  /\ Receives(w, "request_manifest")
  /\ toCoord' = [toCoord EXCEPT ![w] = Append(@, ManifestMsg(loaded[w]))]
  /\ UNCHANGED <<lifecycleVars, schedulerVars, coordVars, processVars>>

StartComponent(w) ==
  /\ Up
  /\ proc[w] = "idle"
  /\ Receives(w, "execute")
  /\ proc' = [proc EXCEPT ![w] = "running"]
  /\ job' = [job EXCEPT ![w] = Head(toWorker[w]).task]
  /\ UNCHANGED <<loaded, executed, crashes, toCoord>>
  /\ UNCHANGED <<lifecycleVars, schedulerVars, coordVars>>

(* The two messages a worker writes after component n, in this order.      *)
(* Mutated forms: the order is swapped; "done" is sent a second time.      *)
DoneThenManifest(n, pkgs) == <<TaskMsg("done", n), ManifestMsg(pkgs)>>
ManifestAndDoneTwice(n, pkgs) ==
  <<ManifestMsg(pkgs), TaskMsg("done", n), TaskMsg("done", n)>>
ManifestThenDone(n, pkgs) == <<ManifestMsg(pkgs), TaskMsg("done", n)>>

(* execute_component returns and the worker reports. *)
FinishComponent(w) ==
  /\ Up
  /\ proc[w] = "running"
  /\ LET c == submitted[job[w]]
         pkgs == loaded[w] \cup Lib[c].loads
     IN  /\ loaded' = [loaded EXCEPT ![w] = pkgs]
         /\ executed' = Append(executed, c)
         /\ toCoord' = [toCoord EXCEPT ![w] =
                          @ \o ManifestThenDone(job[w], pkgs)]
  /\ proc' = [proc EXCEPT ![w] = "idle"]
  /\ job' = [job EXCEPT ![w] = 0]
  /\ UNCHANGED <<crashes, toWorker>>
  /\ UNCHANGED <<lifecycleVars, schedulerVars, coordVars>>

(* "exit" is handled on the network strand, even during a component. *)
SayBye(w) ==
  /\ Up
  /\ Receives(w, "exit")
  /\ proc' = [proc EXCEPT ![w] = "gone"]
  /\ job' = [job EXCEPT ![w] = 0]
  /\ toCoord' = [toCoord EXCEPT ![w] = Append(@, Msg("bye"))]
  /\ UNCHANGED <<loaded, executed, crashes>>
  /\ UNCHANGED <<lifecycleVars, schedulerVars, coordVars>>

(* The process dies: the ssh command failed, the component raised (nothing *)
(* catches it on component_strand_), or the machine killed it. What it had *)
(* not yet delivered may be lost. The coordinator only logs a read error.  *)
WorkerDies(w) ==
  /\ Up
  /\ crashes < MaxCrashes
  /\ proc[w] \in {"launched", "accepted", "idle", "running"}
  /\ proc' = [proc EXCEPT ![w] = "dead"]
  /\ job' = [job EXCEPT ![w] = 0]
  /\ crashes' = crashes + 1
  /\ \E k \in 0..Len(toCoord[w]) :
        toCoord' = [toCoord EXCEPT ![w] = SubSeq(@, 1, k)]
  /\ UNCHANGED <<loaded, executed, toWorker>>
  /\ UNCHANGED <<lifecycleVars, schedulerVars, coordVars>>

------------------------------------------------------------------------------
(* The specification *)

Lifecycle ==
  \/ \E c \in Component : OnNewComponent(c)
  \/ ComponentReturns
  \/ LifecycleDone
  \/ \E w \in Worker : SendExit(w)
  \/ ExitLoopInvalidated
  \/ ExitLoopEnds

Lambda ==
  \/ \E w \in Worker : ReuseWorker(w)
  \/ \E w \in Worker : LaunchWorker(w)
  \/ \E v, w \in Worker : EvictAndLaunchWorker(v, w)
  \/ WaitForNewWorker
  \/ LockAndRelease

Handler(w) ==
  \/ DoAccept(w)
  \/ OnReady(w)
  \/ OnNewWorkerManifest(w)
  \/ OnKnownWorkerManifest(w)
  \/ OnDone(w)
  \/ UnlockLifecycle(w)
  \/ OnBye(w)
  \/ ForgetWorker(w)

WorkerStep(w) ==
  \/ Connect(w)
  \/ AnswerManifest(w)
  \/ StartComponent(w)
  \/ FinishComponent(w)
  \/ SayBye(w)

Next ==
  \/ Lifecycle
  \/ Lambda
  \/ \E w \in Worker : Handler(w) \/ WorkerStep(w) \/ WorkerDies(w)

Spec == Init /\ [][Next]_vars

(* Every thread and every live process keeps running, and a component's    *)
(* script terminates. Nothing says that a worker must die.                 *)
Fairness ==
  /\ WF_vars(Lifecycle)
  /\ WF_vars(Lambda)
  /\ \A w \in Worker : WF_vars(Handler(w))
  /\ \A w \in Worker : WF_vars(WorkerStep(w))

FairSpec == Spec /\ Fairness
------------------------------------------------------------------------------
(* Properties *)

Shutdown == lc \in {"exiting", "over"}

(* Types of the variables, one definition for each group of them. *)
LifecycleTypes ==
  /\ lc \in {"running", "posted", "locking", "exiting", "over"}
  /\ strand \in {"none", "posted", "launched", "lock"}
  /\ submitted \in Seq(Component)
  /\ Len(submitted) <= MaxTasks
  /\ returned \in Nat
  /\ told \in Seq(Worker)

SchedulerTypes ==
  /\ active \subseteq Worker
  /\ cached \subseteq Worker
  /\ older \subseteq Worker \X Worker
  /\ newWorkers \subseteq Worker
  /\ waiting \subseteq 1..Len(submitted)
  /\ manifest \in [Worker -> Manifest \cup {NoManifest}]

CoordTypes ==
  /\ accepted \in Seq(Worker)
  /\ workers \in [Worker -> {"absent", "open", "null"}]
  /\ unlocking \subseteq Worker
  /\ closing \subseteq Worker
  /\ mutex \in BOOLEAN
  /\ ioTime \in Nat
  /\ coord \in {"up", "exited", "crashed"}

ProcessTypes ==
  /\ proc \in [Worker -> {"unused", "launched", "accepted", "idle",
                         "running", "gone", "dead"}]
  /\ job \in [Worker -> 0..Len(submitted)]
  /\ loaded \in [Worker -> SUBSET Package]
  /\ executed \in Seq(Component)
  /\ crashes \in Nat

ChannelTypes ==
  /\ toWorker \in [Worker -> Seq(Message)]
  /\ toCoord \in [Worker -> Seq(Message)]

TypeOK ==
  LifecycleTypes /\ SchedulerTypes /\ CoordTypes /\ ProcessTypes /\ ChannelTypes

(* The pool never outgrows its slots: get_compatible_worker_sync evicts    *)
(* before it launches, and a launched worker joins only when it is ready.  *)
PoolBounded == Cardinality(active \cup cached) <= NumSlot

(* The messages of a connection that have not been handled yet. *)
Queued(q) == {q[i] : i \in 1..Len(q)}
Contains(q, cmd) == \E m \in Queued(q) : m.cmd = cmd

(* Worker w has been given a component it has not yet reported done. *)
Busy(w) ==
  \/ proc[w] = "running"
  \/ Contains(toWorker[w], "execute")
  \/ Contains(toCoord[w], "done")

(* A component is being executed by at most one worker, and the scheduler  *)
(* knows it: a busy worker is the active one, never a cached, evicted or   *)
(* forgotten one. OnDone (active.remove) relies on it.                     *)
BusyWorkerIsActive == \A w \in Worker : Busy(w) => active = {w}

(* What the scheduler believes of a cached worker is true: the manifest    *)
(* sent before "done" has been stored before the worker is offered again.  *)
CachedManifestIsFresh == \A w \in cached : manifest[w].packages = loaded[w]

(* "bye" of the last registered worker ends the coordinator; this happens  *)
(* only after the lifecycle is over, never in the middle of a pipeline.    *)
NoPrematureExit == coord = "exited" => lc \in {"exiting", "over"}

(* No null connection is used, no KeyError and no WorkerPoolFull is raised *)
(* while the lifecycle runs. (The final loop over workers_ is not safe.)   *)
NoCrashDuringLifecycle == coord = "crashed" => lc = "exiting"

(* A worker taken from the cache by the compatibility check has imported   *)
(* every package its next component declares.                              *)
ReusedWorkerHasPackages ==
  [][\A w \in cached \cap active' :
        Lib[Current].packages \subseteq loaded[w]]_vars

(* on_new_component returns the I/O time of the component it was called    *)
(* for: last_component_io_time is set before the mutex is unlocked.        *)
ReturnsOwnIoTime == [][returned' # returned => ioTime = Len(submitted)]_vars

(* The coordinator and its workers implement the service the trial manager *)
(* sees: one component at a time, each executed exactly once, in order.    *)
Service == INSTANCE ComponentService
ImplementsService == Service!ServiceSpec

(* Every on_new_component call returns. *)
EveryCallReturns == (returned < Len(submitted)) ~> (returned = Len(submitted))

(* When the lifecycle is over the coordinator process ends, if any worker  *)
(* is registered to say "bye".                                             *)
ShutdownEnds == (lc = "exiting" /\ Registered # {}) ~> (coord # "up")

(* The write queue of a connection is not safe for overlapping sends: until *)
(* the shutdown a message is sent to a worker only when the one before was *)
(* read, and "exit" only when the worker is silent.                        *)
SendsDoNotOverlap ==
  ~Shutdown => \A w \in Worker :
    /\ Len(toWorker[w]) <= 1
    /\ Contains(toWorker[w], "exit") => proc[w] # "running" /\ toCoord[w] = <<>>

(* Strengthenings from which the proofs derive the invariants above.       *)

(* Every component id the coordinator or a worker holds is one that was    *)
(* submitted.                                                              *)
TasksKnown ==
  /\ strand # "none" => submitted # <<>>
  /\ \A w \in Worker : \A m \in Queued(toWorker[w]) :
        m.cmd = "execute" => m.task \in 1..Len(submitted)
  /\ \A w \in Worker : proc[w] = "running" => job[w] # 0

(* Workers that have been launched and have not joined the pool. *)
Pending == {w \in Worker : proc[w] # "unused" /\ manifest[w] = NoManifest}

(* Nothing is left to do, or expected, for the component submitted last. *)
CallOver == active = {} /\ waiting = {} /\ Pending = {}

AtMostOne(S) == \A u, w \in S : u = w

(* The threads of the coordinator agree on how far the call has come: one  *)
(* worker at most is pending, active or unlocking, the three exclude each  *)
(* other, and nobody is while the trial manager runs.                      *)
CallPhase ==
  /\ strand # "none" <=> lc = "posted"
  /\ lc \in {"running", "exiting", "over"} => CallOver /\ unlocking = {}
  /\ strand = "posted" => CallOver /\ unlocking = {}
  /\ strand = "launched" => active = {} /\ waiting = {} /\ unlocking = {}
  /\ lc = "locking" /\ ~mutex => CallOver /\ unlocking = {}
  /\ unlocking # {} => CallOver
  /\ active # {} => waiting = {} /\ Pending = {}
  /\ waiting \subseteq {Len(submitted)}
  /\ AtMostOne(active) /\ AtMostOne(unlocking) /\ AtMostOne(Pending)

(* Where a queue holds "ready". *)
ReadyAt(q) == {i \in 1..Len(q) : q[i].cmd = "ready"}

(* How the manifest the scheduler holds of a worker relates to where the   *)
(* worker is: none until the first "response_manifest", always in the pool.*)
ManifestPhase ==
  /\ active \cap cached = {}
  /\ \A w \in active \cup cached : manifest[w] # NoManifest
  /\ \A w \in Worker : proc[w] \in {"unused", "launched", "accepted"} =>
        /\ w \notin KnownWorkers
        /\ toCoord[w] = <<>>
        /\ manifest[w] = NoManifest
  /\ \A w \in Worker :
        /\ ReadyAt(toCoord[w]) \subseteq {1}
        /\ ReadyAt(toCoord[w]) # {} => manifest[w] = NoManifest

(* The pool together with the launched worker fits the slots. *)
SlotsReserved ==
  /\ IsFiniteSet(active \cup cached \cup Pending)
  /\ Cardinality(active \cup cached \cup Pending) <= NumSlot

(* coordinator.cc:172, "This will unblock the trial manager": the unlock   *)
(* of a "done" handler finds the mutex locked by the lambda.               *)
UnlockUnblocks ==
  [][unlocking' \subseteq unlocking /\ unlocking' # unlocking => mutex]_vars

(* scheduler.py:272, "Component ... waiting for new worker": a component   *)
(* does not wait while the worker launched for it sits ready in the cache. *)
NoneWaitsInVain == waiting # {} => newWorkers \cap cached = {}
================================================================================
