# TLA+ verification of SecCask

SecCask runs machine-learning pipelines on a pool of attested worker processes
and keeps every pipeline, with the outputs of its components, as a version on a
branch. This directory holds TLA+ models of the parts that are hard to test:
the threads, messages and processes that carry one component from the trial
manager to a worker and back, the reuse of stored outputs by later commits, and
the order of file operations under the version store. Each model is checked by
TLC on small instances; what matters most is also proved with TLAPS for every
value of the constants.

Paths below are relative to the repository. `PROJECT.json` lists every
component with its files, every hazard at its line, every run with its
properties, and the source lines each definition stands for.

## 1. The system

| Component | Source | State | Operations |
|---|---|---|---|
| Coordinator | `csrc/coordinator.cc`, `csrc/main.cc` | `workers_`, `new_workers_`, `g_lifecycle_mutex`, `last_component_io_time`, `lifecycle_strand_` | `OnNewLifecycle`, `OnNewComponent`, `DoAccept`, `OnWorkerGotID`, the handlers of `DoActionFromMsg` |
| Scheduler | `pysrc/scheduler.py` | `_active_workers`, `_cached_workers`, `_new_workers`, `_waiting_components` | `get_compatible_worker_sync`, `on_worker_ready`, `cache_worker`, `is_compatible` |
| Worker cache | `pysrc/worker_cache.py` | an `OrderedDict` | `add`, `remove`, `remove_end` |
| Manifests | `pysrc/workerconn.py`, `pysrc/manifest.py` | one manifest per worker connection | `on_msg`, `capture_current_env` |
| Worker | `csrc/worker.cc`, `pysrc/daemon/worker.py` | the process, the packages it has imported | handlers of `DoActionFromMsg`, `execute_component` |
| Message handler | `csrc/msg_handler.cc` | `write_msgs_`, the coroutines of `network_strand_` | `Connect`, `Send`, `DoWrite`, `DoRead` |
| Trial manager | `pysrc/pipeman/trialmanager.py` | output directories of the workspace | `commit_workspace`, `_build_venvs`, `_train_node_list`, `_save_pipeline_state` |
| Trial tree | `pysrc/pipeman/TrialTree.py` | a tree of component keys | building, pruning, marking trained nodes |
| Semantic storage | `pysrc/pipeman/storage.py` | entities and the mapping from versions to hashes | `put`, `get_branch_head`, `get_semantic_version` |
| Physical stores | `pysrc/pipeman/store/filesystem.py`, `pep249.py` | version directories and `@HEAD`, or rows of two tables | `put`, `get` |
| ForkBase client | `pysrc/pipeman/store/ustorecli.py` | a connection, an SSH client, the tries of the command in progress | `put`, `get`, `branch`, `merge`, `head`, `list_*`, `_exec_command` |
| File utilities | `pysrc/pipeman/file.py` | the current directory | `archive_local_folder`, `extract_archive_to` |
| Streaming ZIP | `pysrc/thirdparty/stream_zip`, `stream_unzip_orig` | the position in the archive, its directory | `stream_zip`, `stream_unzip` |
| Library and dataset managers | `pysrc/pipeman/librarymanager.py`, `datasetmanager.py` | none of their own | `create` |
| PAC simulator | `pysrc/pac/` | four simulated worker sets, a history, score matrices | `get`, `append`, `vsm_transform_sl`, `vsm_transform_ul` |

How they interact. The lifecycle thread runs the experiment in Python. For each
component to execute the trial manager calls
`cpp_coordinator.on_new_component`, which posts a lambda to `lifecycle_strand_`
and blocks. On one of the IO threads the lambda asks the scheduler for a
worker: a cached worker that is compatible gets `execute`; otherwise a worker
is launched over ssh, after one was evicted with `exit` if the pool is full,
and the component waits. The new worker connects, says `ready`, answers
`request_manifest`, and gets the waiting component. When it has run it, the
worker sends `response_manifest` and `done`; the handler of `done` moves it to
the cache and unlocks the mutex on which the trial manager waits. An evicted
worker says `bye`, and the `bye` of the last registered worker ends the
coordinator. Above this, `commit_workspace` compares a pipeline with the head
of its branch, extracts the stored output where execution begins, executes the
rest, and puts the new outputs and a new head into the semantic storage.
Outputs, libraries and datasets go to the storage as one file, the archive of a
folder, which a later commit extracts into a folder that may not be empty. The
PAC simulator is a program of its own, which compares the cache policy of the
scheduler with others.

What is hard about it, and what makes each part correct:

- **Coordinator, scheduler and workers** (interleaving of two or more IO
  threads, the lifecycle thread and processes; a GIL that is released around
  the ssh command; a worker that dies). Each submitted component is executed
  exactly once, in order, before its call returns; a busy worker is the active
  one; the pool respects its slots; what the scheduler believes of a cached
  worker is true; the coordinator does not end in the middle of a pipeline;
  every call returns.
- **Message handler** (coroutines that interleave at each write, a write that
  fails half-way, an answer that overtakes the coroutine it answers). As long as
  no send overtakes a coroutine, each message is delivered once and in order.
- **Trial manager and tree** (crash and restart in the middle of a commit,
  directories shared by all commits and never emptied, workers that outlive
  their coordinator). The outputs recorded with a version are those of a run
  from scratch, nothing is executed that need not be, and a commit that raises
  has a reason and changes no branch.
- **Stores** (crash between any two file operations or statements). A branch
  head never names a version that is not whole; what can be read by version is
  complete and never changes.
- **ForkBase client** (a command whose reply is lost is sent again). A command
  ends, is done no more often than it was tried, and its caller is told the
  truth.
- **Archives** (numbers that do not fit their fields, data that ends anywhere
  relative to three block sizes, a file that lost its tail). The reader reads
  what the writer wrote, and what it accepts is complete.
- **PAC simulator** (parallel lists that must stay in step, a search with no
  bound of its own, scores moved from one cell to another). The victim is the
  least likely worker, the history is what was submitted last, and of two LRU
  caches the larger has no more cold starts.

## 2. The modules

```
ComponentService (abstract)        PipelineLog (abstract)     Catalog (abstract)
      ^ refines                         ^ refines                ^ refines
SecCask --EXTENDS--> Compatibility TrialCommit --EXTENDS--> TrialTree VersionedStore
      | assumes, one per direction
Fifo (abstract) <--refines-- Connection

Archive --EXTENDS--> StreamZip, StreamUnzip --EXTENDS--> ZipFormat
ForkBase              PacCache
```

`TrialCommit` takes `on_new_component` as one call and one return, which is what
`ComponentService` promises and `SecCask` implements. It takes the put of an
output as one step, because an output is read by its version only, and in
`VersionedStore` a version that can be asked for is whole; the put of a
workspace is read by its branch, so its new head is two steps, with the torn
head in between. `VersionedStore` takes a put to
ForkBase as one step that may be refused; `ForkBase` has the other operations
of that client.

| Module | Models | Definitions and code |
|---|---|---|
| `Compatibility` | `is_compatible` and what the code does to manifests | `Level1`..`Level3`; `CaptureCurrentEnv`, `OnResponseManifest`, `RecordLastExecuted`. A manifest is its name, version and set of packages |
| `ComponentService` | what `on_new_component` promises | `Submit`, `Execute`, `Return` |
| `SecCask` | coordinator process, scheduler, workers | see below |
| `Connection`, `Fifo` | one direction of a `MessageHandler` pair, and the channel it is | `Send` (queue and spawn), `SpawnTwoSends`/`BeginTwoSends` (the `Send` with a yield context), `BeginWrite`, `WritePart`, `WriteFails`, `ReturnFromWrite`, `FinishWrite` (the segments of `DoWrite` between two suspensions, with its error returns), `ReadLength`, `ReadBody`, `ReadGarbage`, `ReadFails`; `Break`: the connection is lost |
| `TrialTree` | the candidate pipelines of a sequence of workspaces | `Depth`, `Stage`, `MayFollow`, `Paths`, `Candidates`, `Trained`, `FirstToRun` |
| `TrialCommit`, `PipelineLog` | `commit_workspace`, and the log of pipelines it promises | see below |
| `VersionedStore`, `Catalog` | the three physical stores and the semantic storage under `create`, and the catalog it promises | `Create`; `OpenStaged` ... `WriteHead`: one action per file operation of `FileSystemStorage.put`; `InsertBlob`, `SetHeadRow`: the two statements of `PEP249Storage.put`; `PutThroughClient`: `UStoreCLI.put`; `GetMeta`, `GetArchive`: the reads; `Crash` |
| `ForkBase` | the commands of `UStoreCLI` and its retries | one action per operation; `NotSent`, `NotAnswered`, `Answered`: one turn of the loop of `_exec_command`; `Caught`: its `except` clause |
| `ZipFormat` | the records of an archive | `LocalHeader`, `DataDescriptor`, `CentralHeader`, `EndRecords` |
| `StreamZip`, `StreamUnzip` | the writer and the reader | one action per place where a generator takes a file or a block, checks a bound or can raise; `ReadBody`, `FinishBody`: the data and `_return_unused` |
| `Archive` | a folder on its way through an archive | `TraverseDirectory`, `ArchiveStep`, `ArchiveReturns`, `ExtractStep`; `LoseTail`, `DamageData`: what may happen to the file |
| `PacCache` | the simulator, as `test_pac.py` drives it | `Submit`; `Get` with `Asked` (`LruGet`, `FifoGet`, `LfuGet`); `Search`: one turn of `_least_possible_worker`; `Update` with `Appended`, `TransformSl`, `TransformUl`, `Scale` |
| `MC*` | the instances for TLC | |
| `*_proofs` | theorems | section 5 |

`SecCask` in detail. The variables keep the names of the code; `lc` is where
the lifecycle thread is, `strand` where the lambda is, `told` how far the final
loop over `workers_` has come. `returned` and `executed` are history variables.

| Code | Actions |
|---|---|
| `OnNewComponent` on the lifecycle thread | `OnNewComponent` (post), `ComponentReturns` (lock, unlock, return) |
| the lambda: `get_compatible_worker_sync`, `lock`, promise | `ReuseWorker`, `LaunchWorker`, `EvictAndLaunchWorker`, `WaitForNewWorker`, `LockAndRelease` |
| end of `OnNewLifecycle` | `LifecycleDone`, `SendExit`, `ExitLoopEnds`, `ExitLoopInvalidated` (the loop's iterator was erased) |
| `DoAccept`; `ready`, with `OnWorkerGotID` | `DoAccept`; `OnReady` |
| `response_manifest` | `OnNewWorkerManifest` (with `on_worker_ready`), `OnKnownWorkerManifest` |
| `done` | `OnDone` (Python part), `UnlockLifecycle` |
| `bye` | `OnBye` (pointer dropped), `ForgetWorker` (erase, exit if it was the last) |
| a worker's handlers and component strand | `Connect`, `AnswerManifest`, `StartComponent`, `FinishComponent`, `SayBye`, `WorkerDies` |

The steps are cut where another thread can come between: at the GIL scopes, at
the ssh command (which releases the GIL), at the mutex, and between a handler's
Python part and what follows it. A handler or the lambda keeps an IO thread
from its first step to its last (`FreeThread`). `remove_if` in `OnWorkerGotID`
is modelled by what it leaves behind (`HandlerFound`): a moved-from pointer
unless the connection was accepted last. An exception that leaves a handler, or
the use of a null handler, ends the process (`coord = "crashed"`).

`TrialCommit` in detail. An output directory maps names of files to what is in
them: the components that produced the file (`by`, empty if it is not the result
of a run from scratch), the commit that wrote it, and whether it is whole. Files
are written one at a time, first broken and then whole, over what is there;
nothing in the model or the code removes one. What a library does is a constant
(`Writes`: the files it leaves on each dataset).

| Code | Actions |
|---|---|
| `commit_workspace` up to the choice of the candidate | `StartCommit`, with the three ways it raises: a torn head, a shorter pipeline, no candidate |
| `_build_venvs`: the input of the first component | `FetchDataset`, or `ExtractBegin`, `ExtractFile`, `ExtractEnd` |
| the libraries | `FetchLibraries` |
| a component that is not stored, the archive of an empty directory, nothing to execute | `CannotPrepare`, `NothingToRun` |
| `_train_node_list`: each component | `CallComponent`, `ComponentWrites`, `ComponentDone` |
| `final_results.txt` | `ReadScore`, which raises if there is none or it is not whole |
| `_save_pipeline_state`, the put of the workspace | `SaveOutput`, `PutMeta`, `SetHead` |
| the end of the process; a worker that outlives it | `Crash`, `OrphanWrites` |

`Connection` in detail. A side sends when the messages sent before have been
read, which `SendsDoNotOverlap` shows of the coordinator in `SecCask` until the
shutdown; the worker answers what it was sent. That a message was read does not
mean that the coroutine which wrote it has run again and popped it. Nothing in
`Send` waits for that, so a send may come first, and the model has that step: it
sets the history variable `overtaken`. It happens if the answer is read, handled and followed by a
send on one IO thread before another resumes a coroutine whose write has
completed; nothing in the source excludes it. From then on the properties of
`Connection` promise nothing, and `Fifo` takes its promise back (`Overtake`);
`SecCask` is about executions in which it does not happen.

## 3. The runs

Passing runs:

| Run | Instance | What it shows |
|---|---|---|
| `safety` | `SecCask`: 3 workers, 2 slots, 2 IO threads, 3 components of 2 libraries, 1 dead worker | `PoolBounded`, `BusyWorkerIsActive`, `CachedManifestIsFresh`, `NoPrematureExit`, `NoCrashDuringLifecycle`, `SendsDoNotOverlap`, `ReusedWorkerHasPackages`, `ReturnsOwnIoTime`, and that `SecCask` implements `ComponentService` |
| `liveness` | the same with 1 IO thread and no dead worker, under `FairSpec` | `EveryCallReturns`, `ShutdownEnds` |
| `channel` | `Connection`: up to 6 messages, a connection that may break, a send that may overtake | up to a send that overtakes: `NoUnderflow`, `FramingIsKept`, and that it implements `Fifo`, delivery included |
| `store` | `VersionedStore`: three engines, a library and a dataset, 2 branches, 3 creates, 2 crashes | `HeadsAreWhole`, and that what can be read is a `Catalog` |
| `reuse` | `TrialCommit`: 2 branches, 6 pipelines, 2 file names, 4 commits, 1 crash, `clean.sh -p` before a restart | `RunsFromScratch` (it implements `PipelineLog`), `SavesOnlyNewOutputs` |
| `refusal` | 9 pipelines, 3 commits, 2 crashes that workers survive; components that are in no store, libraries that leave no result or no file | `NeverRetrains`, `RefusesForAReason` |
| `archive` | `Archive`: folders of up to three files at every bound of the format, four methods, two contents of the destination | `DirectoryIsTrue`, `FieldsFit`, `AcceptedIsComplete`, `OnlyLastIsBroken`, `ReaderIsAligned`, `WrittenIsRead` |
| `pac` | `PacCache`: 3 components, 2 by 2 versions, caches of 3, 4 submissions out of 6 pipelines, every choice of transformers | `GrandSumIsOne`, `LfuAligned`, `LruInclusion`, `HistoryIsRecent`, `EvictsLeast` |
| `forkbase` | `ForkBase`: 2 branches, 2 retries, 3 commands, 4 versions | `RetriesAreBounded`, `OutcomeIsHonest`, `CallsEnd` |

Each of `safety`, `store`, `refusal`, `archive`, `pac` and `forkbase` also
checks its module's `TypeOK`; that of `PacCache` says that the search for a
victim never leaves the matrices.

Why the bounds are enough for what is asked. Three workers for two slots make
an eviction and a successor; three components make a launch, a reuse and an
eviction in one run, in any order; two IO threads are the configuration's
`num_threads` and let the lambda run beside a handler, or two handlers beside
each other. The two versions of the library `train` share one package and
differ in another that no worker ever imports, and `clean` needs only the
shared one, so every level of the check is answered both ways that the code
permits. Four commits on a branch are a first version, two that reuse, and one
after a crash, which may leave a file broken in any directory; the pipelines
include one with another api version, one that is shorter, one that is longer
and one on another dataset, and the libraries leave one file, another one, or
both. In `refusal` a first crash can tear a head and a second one leave a worker
behind. Three creates with two
crashes put a torn put before and after a good one, for a key with and without
a head. Six messages repeat the longest exchange, one message and two in
one coroutine, twice. An archive is counted in tokens: `Max16` is 2
and `Max32` is 8, so a file of 9, a third file and a path of three parts exceed
them and a size of 8 is the one that marks zip64; the three block sizes (65536
each in the code) are 3, 4 and 3 tokens, so headers, names and data end before,
at and behind the end of a chunk. Caches of three (four with the extra worker)
make hits, evictions of one list and not of another, and four submissions make
the history overflow. Two retries give a first, a middle and a last try, each
of which fails before or after the engine acted.

`SYMMETRY` permutes workers (`safety`) and branches (the store runs); the
properties checked with it are invariants, action properties and refinements of
specifications without fairness, whose abstract variables are symmetric too.
Deadlock is not checked: every system here legitimately stops, when the
coordinator has exited or the bound on calls is reached.

Runs that find a disagreement between the code and what a comment, docstring or
log line of the repository says:

| Run | Disagreement |
|---|---|
| `lost_unlock` | `coordinator.cc:172` "This will unblock the trial manager": with two IO threads a quick component's `done` is handled before the lambda has locked `g_lifecycle_mutex`, the unlock has no effect, and the trial manager then waits for a mutex nobody unlocks |
| `stranded` | `scheduler.py:272` "Component ... waiting for new worker": the component is registered as waiting only after the ssh command; a worker that is ready earlier is cached, and the component waits for ever |
| `torn_head` | `storage.py:43` `get_branch_head` raises "KeyError: if key does not exist": `@HEAD` is truncated before it is written, so after a crash in between the key exists and the read raises `FileNotFoundError`, which no later `create` gets past |

Seen in the code and modelled as it is, without a run of its own:

- `SemanticVersion` has `equals` but no `__eq__`, so the first level of
  `is_compatible` never holds (`Compatibility!VersionIs` is `FALSE`).
- With `enable_compatibility_check_on_new_worker` (off in the repository's
  configuration) a fresh worker that lacks a declared package is skipped and
  the component waits for ever; `Servable` models it, no run turns it on.
- Committing the pipeline of the head again raises `IndexError`
  (`trialmanager.py:502`), one of another length fails in the tree, and a torn
  head, an empty output to start from, a component without its archive or a
  missing result each raise at their place. `RefusesForAReason` lists the
  reasons, and says that none of them leaves a trace on a branch.
- With one slot the evicted worker is the last registered one, and its `bye`
  ends the coordinator (`coordinator.cc:191-195`) while the trial manager waits;
  `NoPrematureExit` needs the two slots of `safety`.
- `SavesOnlyNewOutputs` ("save only newly generated outputs",
  `trialmanager.py:380`) and `RunsFromScratch` need two things that the code does
  not ensure. `clean.sh -p` must be run before a restart (`CleanProcesses`): a
  worker is not told that its coordinator ended, and goes on writing into a
  directory that the next commit archives; with `CleanProcesses = FALSE` in
  `reuse.cfg` TLC finds this after one crash. And a library must leave the same
  names whatever the dataset (`NamesFixed`): no output directory is ever emptied,
  so a file it left on another dataset is archived with its new output; with
  `Writes <- WritesByDataset` TLC finds this without a crash.
- A put that finds an empty `@HEAD` writes an empty `PARENTS`, not `<null>`
  (`filesystem.py:203-208`): the version has no parent, though it is not the
  first. `HeadsAreWhole` allows this after a crash only.
- An entity becomes the head before its version is recorded (`storage.py:320`),
  so after a crash in between the head is a version that cannot be asked for by
  name, in every store; `Catalog` does not have it.
- The archive of an empty folder is refused by the reader
  (`UnexpectedSignatureError`), a deflated one by a `TypeError`
  (`get_decompressor_none` subtracts from `None`), and a file of `0xFFFFFFFF`
  bytes under `NO_COMPRESSION_32` is taken for zip64. The program writes
  `NO_COMPRESSION_64` only and meets only the first; `Readable` excludes the
  three. An extraction that raises leaves some of the files (`OnlyLastIsBroken`)
  and the process in that directory (`file.py:152,166`).
- `UStoreCLI.connect` makes no SSH client, so every command raises after
  `MAX_RETRY_TIMES + 1` tries unless `connect_remote_ustore` was called. Then
  the engine does the command, but the reply is a file where the parsers take a
  string: the command is retried, a merge done again (`NotAnswered`), and
  nothing after it in `branch_on_semantic_version` or `merge` is reached.
- The caches of the simulator hold one worker more and its history one pipeline
  less than they are told, and the second transformer extrapolates the number
  that did not change (`Following`).
- At shutdown the loop over `workers_` runs beside the handlers that erase from
  it. `NoCrashDuringLifecycle` therefore speaks of the time before, and
  `ShutdownEnds` of the end of the process, however it comes.

## 4. Fairness

`FairSpec` of `SecCask` assumes weak fairness of the lifecycle thread, of the
lambda, and of each connection's handlers and each worker's steps. The threads
are the operating system's, `io_context::run` runs what is ready, and strands
are FIFO; a component's script is assumed to terminate. Nothing is assumed of
deaths, and the lambda's fairness covers the lock only while it can be
obtained. The `liveness` run has one IO thread and no dead worker because the
property fails otherwise, by `lost_unlock`, by `stranded`, and because the death
of a worker is only logged (`msg_handler.cc:187`): its component is never retried.

`Connection` assumes weak fairness of the writer coroutines and of the read
loop, and none of the sends. `Archive` assumes it of the two calls, which are
sequential code over finite data, and nothing of losses and damages. `ForkBase`
assumes it of `_exec_command`: the SSH client answers or raises each time
(there is no other time limit), and nothing is assumed of which. The other
modules state safety only.

## 5. The proofs

All theorems hold for arbitrary constants under the modules' named assumptions
(`CompatibilityAssumption`, `SecCaskAssumption`, `TrialTreeAssumption`,
`PipelineAssumption`, `StoreAssumption`, `ForkBaseAssumption`,
`ConnectionAssumption`, `ZipAssumption`, `UnzipAssumption`, `ArchiveAssumption`,
`PacAssumption`).
`PipelineAssumption` says that a pipeline begins with its only dataset and
names no component twice, as every experiment of the repository does, that
`final_results.txt` is a file name, and nothing of what a library writes.
`ZipAssumption` and `UnzipAssumption` make the chunk sizes and the limits of the
fields positive, and the 16-bit limit no larger than the 32-bit one.
`ArchiveAssumption` says that a folder is a finite set of files with distinct
names, whose contents are finite. `PacAssumption` makes the sizes of the caches
natural numbers and `alpha` a fraction of at most one, and has every submitted
pipeline give each component a version.

**`SecCask_proofs`: `TypeCorrect` and `PoolCorrect`.** `TypeInv` is `TypeOK` with `TasksKnown`:
the id in every `execute` on its way and of every running job is that of a
submitted component. Without it `job` could leave `0..Len(submitted)`, since
`StartComponent` takes it from a message.

`PoolCorrect` says that the pool never outgrows its slots.
`PoolBounded` is not inductive: `is_worker_set_full` counts the workers in the
two collections, while a launched worker joins them only when its manifest
arrives, several messages later. `PoolInv` adds that it has its slot from the
launch on (`SlotsReserved`), because a launch happens only when no other worker
is on its way and none is active (`CallPhase`: the threads of the coordinator
agree on how far the one call has come), and that a worker without a manifest
is in neither collection and a worker that is not connected has said nothing
(`ManifestPhase`).
One step of the proof per action; the lemmas `PhaseKept` and `ManifestKept`
take the actions that touch one worker only. The theorem includes every number
of crashes, either setting of the compatibility options and any number of IO
threads: the races of section 3 do not break it.

**`SecCaskTurn_proofs`**: every other safety property of `SecCask`. The
argument is that what passes between the coordinator and one worker is a
conversation in turns. Until the shutdown a worker is in one of five situations
(`Unknown`, `Asked`, `Working`, `Resting`, `Evicted`), and in each of them the
two queues of its connection hold one of a few exact contents: nothing, or one
message, or the manifest and `done` of a report. `Turns` says so, with what the
coordinator and the scheduler hold of that worker; `Ending` is what is left of
it after the lifecycle. Each property speaks of something the situations
relate (who is busy, what a cached worker has imported, whether a queue is
empty before a send), and none is inductive without them.
`TurnInv` joins `Turns` to `PoolInv`, to `AcceptPhase` (at most one connection
has no id, so the pointer `remove_if` leaves behind in `OnWorkerGotID` is the one
that was looked for) and to `ClosingPhase`. The proof has one lemma per action;
the lemmas `Head*` turn the message a handler found into the situation it was
sent in, and `TurnSame` takes every worker a step is not about. From it:

- `BusyCorrect`, `SendsCorrect`, `ManifestsCorrect`, `NoCrashCorrect` directly.
- `ExitCorrect`, for `NumSlot >= 2`: an eviction leaves a worker in the pool
  (`Survivor`), which is registered, so the `bye` is not that of the last one.
- `PackagesCorrect`, for `~Singleton`: only `ReuseWorker` takes a worker from
  the cache, a cached worker rests, so its manifest is what it has imported,
  and each level of the check asks for the declared packages.
- `IoTimeCorrect`: `IoPhase` follows `last_component_io_time` from `done` to the
  return of the call.
- `ServiceCorrect`, the refinement: `ExecPhase` counts the executions. While a
  worker is still to run the component (`Expected`) there is one execution less
  than there are submissions, and when one has run it (`Ran`) there are as many;
  so `FinishComponent` is the one `Execute` of a call, between its `Submit` and
  its `Return`.

These theorems hold whatever dies and however the threads interleave, the lost
unlock and the stranded component of section 3 included: those lose a return,
never an execution.

**`TrialCommit_proofs`.** First the trial tree. `PipelineIsCandidate`: pruning
never cuts a path that one of the pipelines takes, whatever the api versions,
when all pipelines have the same length. `FirstToRunIsFirst`: the index at which
`_build_venvs` begins exists and separates the trained prefix from the first
node that is not.

Then the commit. `TypeInv` is `TypeOK` with `CommitPhase` (the commit
in progress is on its way through an accepted pipeline, from the node
`_build_venvs` chose; a head is torn only by a crash or while it is written),
`GrowingPipelines` (an accepted pipeline is no shorter than those before it,
which is what keeps the `outputs` of the head defined wherever they are looked
up) and `NothingForgotten` (every library of a committed pipeline has an
archive). From it: `CommitTypeCorrect` and `NoRetraining`. `RefusalCorrect` needs
`WrittenIsWhole` as well: without workers that survived, what a component has
written stays whole until the score is read.

Last, the reuse of outputs: `SavingIsSound` and `ReuseCorrect`, for systems where
no worker survives its coordinator (`CleanProcesses`) and the names of a
library's files do not depend on the dataset (`NamesFixed`); section 3 says how
TLC refutes both properties without either. Everything else a directory
may hold when a commit begins is allowed: files of other pipelines and commits,
and broken ones. `ScratchInv` adds to `TypeInv` that every recorded archive holds
exactly what a run from scratch in new directories makes
(`RecordedFromScratch`), that no directory has a file its library would not
write, and that those the commit has passed hold its own outputs, file by file,
the one it started from the extracted one (`OutputsInPlace`). The argument is
that each file that could be left over is written again before the directory is
read. `ReuseCorrect` is the refinement: every step of `TrialCommit` is a `Commit`
of `PipelineLog` or a stutter, so the outputs recorded with every version are
those of its pipeline run from its dataset on, whatever was reused, extracted or
cut short.

**`VersionedStore_proofs`.** `StoreTypeCorrect` and `HeadsCorrect`, for any
number of creates and crashes. `HeadsAreWhole` is not inductive: `WriteHead`
sets a head to the version being put, from files that earlier steps wrote.
`PutPhase` follows that version through the put: it is the last one made, its
`.hash` is there once the put has come so far, its parents once they are
written (none, if the head they are taken from is empty), and no head names it
before that. Most steps change no directory a
head points at (`HeadsKept`); those that set a head are the lemma `InvSetHead`.

`CatalogCorrect` is the refinement: the step of a create's last put that sets the
head of its mapping is `Publish` of `Catalog`, a call of `create` is its
`Attempt`, and every other step, a crash included, is a stutter. An entry of
`Catalog` is read through several files (the head of the mapping, the metadata
it names, the mapping and the value of the archive), so `CatalogInv` says of
every mapping that is set that what it leads to is there and was made by one
create, and that the head of its branch is no older (`MappingsHold`); that an
empty head of the metadata has no staged file a next put could take for its own
(`EmptyHeadsUnstaged`); and of a create in progress (`CallPhase`) that its version
is newer than all those published on its branch, and that each value it puts
refers to what it put before. Without the last, the final put could make a
mapping lead to the archive of an earlier create.

**`Connection_proofs`.** `QueueCorrect`, `FramingCorrect` and `DeliveryCorrect`,
for any number of messages. The parts of all messages are numbered, 2m - 1 for
the length of message m and 2m for its body. `WireHolds` says that the wire holds
the parts between what was read and what was written; `WriterPhase` that there
is at most one writer, at the one message of the queue; `FailedPhase` is what is
left of that when a write has failed, a message that nobody popped. They hold
until `overtaken`, which is where a second writer can come to the same front.
`DeliveryCorrect` is the safety part of `Fifo` (`FifoSafety`); its fairness is left
to TLC.

**`ForkBase_proofs`.** `RetriesCorrect` and `OutcomeCorrect`, for every
`MAX_RETRY_TIMES`. `RetryInv` adds to the second that a command in progress has
been done at most once for each retry so far, and has no outcome yet.
`EngineTypeCorrect`: whatever is sent again or lost, the versions stay a tree and
every head and version mapping names one of them.

**`Archive_proofs`.** The type and the five other safety properties of
`Archive`, for every folder, every limit of the fields and every size of the
chunks on both sides. `DirectoryCorrect` and `FieldsCorrect` are about the
writer, which only ever appends to the stream. `WriterInv` follows what it has
appended: the listed files lie one behind the other, each where its entry in the
central directory says and with the header, data and descriptor of its method
(`FilesLaid`); behind them lies the file in progress, as far as it has come, or
as much of the directory and the end records as has been written
(`WriterPhase`); and every file of the folder is ahead, in progress or listed,
and only once (`Provenance`). The directory is true because the offset, sizes
and checksum of an entry are noted while the file passes and nothing behind
them is written again.

`CompleteCorrect`, `BrokenCorrect` and `AlignedCorrect` are about the reader,
which sees the stream after losses and damages and in other chunks than it was
written in, and holds no offset but only what is left in its buffer.
`ReaderPhase` gives it a place in the writer's layout: it is at a known part of
the k-th file, that file begins where the writer put it, what it has taken and
what it still has is the stream up to there (`BufferIs`), the files before are in
the folder as packed and those behind are as they were before (`DestAt`). The
disk is the stream with perhaps its tail cut and units of data damaged
(`OnDisk`), so a structure that is there is the one written, and only the data
between two of them may differ. None of the three is inductive: each says
something at the end of a file or of the archive that holds because the reader
entered the file at its first byte.

`WrittenIsAccepted` is the safety part of `WrittenIsRead`: on an archive that is
neither cut nor damaged, of a folder that is `Readable`, the reader raises
nothing. `Untouched` (the disk is the stream) turns `ReaderPhase` into what the
four places that raise would need: nothing is asked for behind the end, a known
signature is where one is expected, the extra is there when the sizes refer to
it, and the checksum is that of the bytes. Which folders are not `Readable` is
section 3.

**`PacCache_proofs`.** The type, the four safety properties and the action
property `EvictsLeast`, for every number of components and versions, every
`alpha` and any sequence of pipelines. `PacInv` is the conjunction of:

- `Scores`: the VSM of every component is a distribution, numerators over one
  denominator. An update scales all and adds to one; that the sum is kept is
  arithmetic of sums over a finite set, from which `GrandSumCorrect` follows for
  every fraction `alpha`, not only those of the run.
- `LruPhase`: of two LRU caches of consecutive sizes the smaller list is the
  larger one or its tail, and the larger names nobody twice. `LruInclusion`
  alone is a set inclusion and does not survive an eviction, which depends on
  the order.
- `LfuPhase`: frequencies and ages are lists of natural numbers beside the list
  of workers; a victim has a place in all three (`LfuVictimIsIn`), so removing it
  there keeps them aligned.
- `HistoryPhase`: the history is the tail of what was submitted (`Kept`).
- `PacPhase`: while the PAC cache looks for a victim (`Searching`), no cached
  worker is of a version that its component's pointer has passed.

`RankingIsTotal` shows that the ranks by which the versions of a component are
sorted are a bijection to places, so each step of the search looks at one
version and moves past no other; with `Searching` the search cannot run off the
end while the cache holds a worker, and the one it finds has the least score
(`SearchEvictsLeast`).

An induction over a finite set would need a theorem of the library that takes an
operator. The proofs get by without: they form the set of those subsets
for which the claim is good, show that it contains the empty set and is closed
under adding an element, and conclude with `SetsAreGood`. `FoldExists` proves in
this way that the function by which a fold of the community modules is defined
exists, and `SumExists` unfolds the sums of the model with it.

Only model-checked: the liveness properties (`EveryCallReturns`,
`ShutdownEnds`, `CallsEnd`, `WrittenIsRead` and the fairness in
`ImplementsFifo`). They need `ENABLED`, which is out of the prover's reach; so is
what a recursive definition computes for every input, and no module uses a
recursive operator.

## 6. What is abstracted or left out

- *Data.* A message is its command, component id and set of packages; a file of
  an output is the sequence of components that produced it and the commit that
  wrote it. Parameters are stored beside outputs and abstracted with them.
- *Libraries.* A library reads only its input directory, all of it, as it is
  when a file of its output is completed, and leaves the files that `Writes` says;
  its result, if it leaves one, begins with a number.
- *Sockets and TLS.* A connection is accepted, then handshaken; failures of
  either are a worker that dies. `Close` of a handler is part of `OnBye`.
- *Undefined behaviour.* The erased iterator of the final loop may look intact
  or end the process. A data race on the vector `new_workers_` itself, and the
  read of `is_closing_` after the last reference is gone (`msg_handler.cc:226`),
  are outside the model.
- *Writers.* One process writes to a store at a time, and one commit runs at a
  time, as in the experiments of the repository.
- *Branching and merging.* `branch` and `merge` raise `NotImplementedError` in
  the file system and the database. Over ForkBase they are modelled up to the
  exception that follows the engine's reply, so `branch_on_semantic_version`,
  `traverse_branch` and `merge_workspace_branches` complete on no store.
- *The ForkBase engine* is a service outside the repository; `EngineDoes` is
  what the client expects of it. `ledgebase.py`, `rocksdb.py` and `ssh.py` are
  made by no code.
- *Archives.* The compressor is external, a unit of data is its own checksum,
  and timestamps and decryption are left out. Nothing in the code syncs a file,
  hence `LoseTail`. `archive_local_file` has no caller.
- *The simulator's scores* are exact fractions where the code has
  floating-point numbers.
- *Not reached.* `workspace.py`, `solutionmanager.py`, `Scheduler.close` and the
  bookkeeping of finished pipelines in `daemon/coordinator.py` have no caller in
  the coordinator; the web API only reads. The copies of `pathlib` and
  `zipfile` under `pysrc/thirdparty` are imported by nothing.
- *Attestation and file encryption* are calls into libraries; the model keeps
  the `.hash` file that an encrypted store writes beside each value (`EncFS`).

## 7. Plan

Done, in this order: `Compatibility`, `ComponentService`, `SecCask` with its
type and pool invariants; `VersionedStore` and `Catalog`; `TrialTree`,
`TrialCommit`, `PipelineLog` and their theorems; `Connection` and `Fifo`; the
third engine of `VersionedStore` and its theorems; `ForkBase` and its theorems;
`ZipFormat`, `StreamZip`, `StreamUnzip`, `Archive`; `PacCache`; the remaining
theorems of `SecCask`; that `VersionedStore` implements `Catalog` and `Connection`
the safety part of `Fifo`; the types of `ForkBase`; the theorems of `Archive` and
of `PacCache`.

What could follow:

1. `MessageCodec`: formatting and parsing of a message
   (`include/seccask/message.h`, `csrc/message.cc`), for which arguments the
   round trip is the identity.
2. `TaskMonitor`: ids registered by `on_new_pipeline` and looked up by the
   lambda, now positions of the run.
3. In `VersionedStore`, two processes that put to one branch.
