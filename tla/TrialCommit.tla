------------------------------ MODULE TrialCommit ------------------------------
(***************************************************************************)
(* TrialManager.commit_workspace (pysrc/pipeman/trialmanager.py): a        *)
(* pipeline is compared with the head of its branch, the components whose  *)
(* outputs the head has are left out, the others are executed one by one   *)
(* by workers, and their outputs and the new head are stored.              *)
(*                                                                         *)
(* The components of a workspace share one directory for outputs, with a   *)
(* subdirectory per component key that nobody ever empties: a component    *)
(* and the extraction of an archive write files, one after the other, over *)
(* what is there. The process may end at any point and be started again:   *)
(* the storage and the subdirectories stay. The put of an output is one    *)
(* step here, for it is read by its version only; that of a workspace is   *)
(* read by its branch and is two (VersionedStore has all its file          *)
(* operations). ComponentService has the service of on_new_component.      *)
(*                                                                         *)
(* What a library does is its author's affair. It is called with an input  *)
(* and an output directory and a model of it is which files it leaves.     *)
(***************************************************************************)
EXTENDS Naturals, Sequences, TrialTree

CONSTANTS
  Branch,          \* branches of the workspace
  Pipeline,        \* Pipeline[b]: pipelines the experiments commit on b
  FileName,        \* names of files in output directories
  FinalResults,    \* final_results.txt, among them
  Writes,          \* Writes[k][d]: the files library k leaves on dataset d
  Stored,          \* keys the dataset and library stores have
  CleanProcesses,  \* "clean.sh -p" is run before a restart: no worker is left
  MaxCommits,      \* bound: calls of commit_workspace
  MaxCrashes       \* bound: ends of the process in the middle of a commit

(* Pipelines begin with their only dataset and name no component twice.    *)
ASSUME PipelineAssumption ==
  /\ \A b \in Branch : \A p \in Pipeline[b] :
       /\ p \in Seq(Key)
       /\ p # <<>>
       /\ \A i \in 1 .. Len(p) : p[i] \in Dataset <=> i = 1
       /\ \A i, j \in 1 .. Len(p) : p[i] = p[j] => i = j
  /\ FinalResults \in FileName
  /\ Writes \in [Library -> [Dataset -> SUBSET FileName]]
  /\ Stored \subseteq Key
  /\ CleanProcesses \in BOOLEAN
  /\ MaxCommits \in Nat
  /\ MaxCrashes \in Nat

VARIABLES
  (* kept when the process ends *)
  versions,  \* versions[b]: workspaces committed on b, the head last
  torn,      \* branches whose @HEAD is empty
  archives,  \* the output storage; an archive is named by its index
  outdir,    \* what is in the output directory of each component key
  orphans,   \* components still run by workers of a process that ended
  (* the process *)
  pc,        \* how far the current commit_workspace has come
  branch,    \* branch and pipeline of the current commit
  pipeline,
  from,      \* index of the first node that is not left out
  at,        \* index of the node that is executed or saved next
  todo,      \* files still to write: of the archive, or of the component
  saved,     \* archive of each output saved so far, 0 if it is not
  raised,    \* the last commit raised an exception
  (* bounds *)
  commits,   \* number of commit_workspace calls
  crashes

diskVars == <<versions, torn, archives, outdir, orphans>>
callVars == <<branch, pipeline, from>>
boundVars == <<commits, crashes>>
vars == <<diskVars, pc, callVars, at, todo, saved, raised, boundVars>>

(* A file of an output directory: the components that produced it, from    *)
(* the dataset on, and the commit it was written in; not whole while it is *)
(* written.                                                                *)
File == [whole : BOOLEAN, by : Seq(Key), commit : Nat]
Absent == [whole |-> FALSE, by |-> <<>>, commit |-> 0]
Broken(c) == [whole |-> FALSE, by |-> <<>>, commit |-> c]
Directory == [FileName -> File]
FilesIn(dir) == {n \in FileName : dir[n] # Absent}

(* A directory is what components p, one after the other, leave in the     *)
(* last one's directory when it is new: these files and no others.         *)
Holds(dir, p) ==
  \A n \in FileName :
    IF n \in Writes[p[Len(p)]][p[1]] THEN dir[n].whole /\ dir[n].by = p
                                     ELSE dir[n] = Absent

(* A component that a worker of a process that ended still executes.       *)
Orphan ==
  {o \in [pipeline : Seq(Key), at : Nat, commit : Nat, todo : SUBSET FileName] :
     o.at \in DOMAIN o.pipeline /\ o.pipeline[o.at] \in Library}

(* The reference section of a workspace: the archive of the output of each *)
(* library of the pipeline, 0 for the others.                              *)
Workspace == [pipeline : Seq(Key), outputs : [Library -> Nat]]
NothingSaved == [k \in Library |-> 0]

Init ==
  /\ versions = [b \in Branch |-> <<>>]
  /\ torn = {}
  /\ archives = <<>>
  /\ outdir = [k \in Library |-> [n \in FileName |-> Absent]]
  /\ orphans = {}
  /\ pc = "idle"
  /\ branch \in Branch
  /\ pipeline = <<>>
  /\ from = 1
  /\ at = 1
  /\ todo = {}
  /\ saved = NothingSaved
  /\ raised = FALSE
  /\ commits = 0
  /\ crashes = 0

(* get_branch_head of the meta storage: the head's pipeline, if there is   *)
(* one.                                                                    *)
HeadOf(b) == versions[b][Len(versions[b])]
HeadPipelines(b) == IF versions[b] = <<>> THEN <<>> ELSE <<HeadOf(b).pipeline>>
HeadOutput(b, key) == IF versions[b] = <<>> THEN 0 ELSE HeadOf(b).outputs[key]

(* commit_workspace is over, in one way or another. *)
Return ==
  /\ pc' = "idle"
  /\ at' = 1
  /\ todo' = {}
  /\ saved' = NothingSaved

(* An exception leaves commit_workspace, the experiment and the process:   *)
(* the next commit finds what is stored.                                   *)
Raise == Return /\ raised' = TRUE

------------------------------------------------------------------------------
(* The call: the trial tree of the head and the new pipeline *)

(* get_branch_head raises KeyError when the branch has no head. An empty   *)
(* @HEAD raises FileNotFoundError, which is not caught.                    *)
StartCommit(b, p) ==
  LET tree == Append(HeadPipelines(b), p)
  IN  /\ pc = "idle"
      /\ commits < MaxCommits
      /\ commits' = commits + 1
      /\ branch' = b
      /\ pipeline' = p
      /\ from' = FirstToRun(HeadPipelines(b), p)
      /\ \/ /\ b \in torn
            /\ Raise
         \/ (* no candidate is the pipeline, or a shorter one was indexed *)
            /\ TooShort(tree) \/ p \notin Candidates(tree)
            /\ Raise
         \/ /\ b \notin torn
            /\ ~TooShort(tree)
            /\ p \in Candidates(tree)
            /\ pc' = "prepare"
            /\ at' = from'
            /\ todo' = {}
            /\ saved' = NothingSaved
            /\ raised' = FALSE
      /\ UNCHANGED <<diskVars, crashes>>

------------------------------------------------------------------------------
(* _build_venvs and _train_node_list *)

(* Every node is trained: exec_nodes is empty and exec_nodes[-1] raises.   *)
NothingToRun ==
  /\ pc = "prepare"
  /\ at > Len(pipeline)
  /\ Raise
  /\ UNCHANGED <<diskVars, callVars, boundVars>>

(* The input of the first component to run is the archive of a dataset ... *)
FetchDataset ==
  /\ pc = "prepare"
  /\ at <= Len(pipeline)
  /\ pipeline[at - 1] \in Dataset \cap Stored
  /\ pc' = "fetching"
  /\ UNCHANGED <<diskVars, callVars, at, todo, saved, raised, boundVars>>

(* ... or the output the head has of the component before it, which is     *)
(* extracted to the directory of that component.                           *)
Reused == archives[HeadOutput(branch, pipeline[at - 1])]

ExtractBegin ==
  /\ pc = "prepare"
  /\ at <= Len(pipeline)
  /\ pipeline[at - 1] \in Library
  /\ FilesIn(Reused) # {}
  /\ pc' = "extracting"
  /\ todo' = FilesIn(Reused)
  /\ UNCHANGED <<diskVars, callVars, at, saved, raised, boundVars>>

(* A file is written in directory key: it is broken for a while, and then  *)
(* what it should be.                                                      *)
TearFile(key, name, c) ==
  outdir' = [outdir EXCEPT ![key][name] = Broken(c)]
CloseFile(key, name, file) ==
  outdir' = [outdir EXCEPT ![key][name] = file]

(* extract_archive_to writes the files of the archive, and leaves others   *)
(* where they are.                                                         *)
ExtractFile ==
  /\ pc = "extracting"
  /\ \E n \in todo :
       \/ /\ TearFile(pipeline[at - 1], n, commits)
          /\ todo' = todo
       \/ /\ CloseFile(pipeline[at - 1], n, Reused[n])
          /\ todo' = todo \ {n}
  /\ UNCHANGED <<versions, torn, archives, orphans, pc, callVars, at, saved,
                 raised, boundVars>>

ExtractEnd ==
  /\ pc = "extracting"
  /\ todo = {}
  /\ pc' = "fetching"
  /\ UNCHANGED <<diskVars, callVars, at, todo, saved, raised, boundVars>>

(* Every library that will be executed is taken from its store, and its    *)
(* output directory made if there is none. Nothing is executed before.     *)
FetchLibraries ==
  /\ pc = "fetching"
  /\ \A i \in at .. Len(pipeline) : pipeline[i] \in Stored
  /\ pc' = "ready"
  /\ UNCHANGED <<diskVars, callVars, at, todo, saved, raised, boundVars>>

(* DatasetManager or LibraryManager raises KeyError, or the reader of      *)
(* archives rejects that of an empty directory (Archive!Readable).         *)
CannotPrepare ==
  /\ \/ /\ pc = "prepare"
        /\ at <= Len(pipeline)
        /\ pipeline[at - 1] \in Dataset \ Stored
     \/ /\ pc = "prepare"
        /\ at <= Len(pipeline)
        /\ pipeline[at - 1] \in Library
        /\ FilesIn(Reused) = {}
     \/ /\ pc = "fetching"
        /\ \E i \in at .. Len(pipeline) : pipeline[i] \notin Stored
  /\ Raise
  /\ UNCHANGED <<diskVars, callVars, boundVars>>

(* on_new_component is called: a worker starts to write. *)
CallComponent ==
  /\ pc = "ready"
  /\ pc' = "running"
  /\ todo' = Writes[pipeline[at]][pipeline[1]]
  /\ UNCHANGED <<diskVars, callVars, at, saved, raised, boundVars>>

(* A file that component i of pipeline p makes of its input: the result of *)
(* a run from scratch if the input is that and nothing else.               *)
FileMade(p, i, c) ==
  [whole |-> TRUE, commit |-> c,
   by |-> IF p[i - 1] \in Dataset \/ Holds(outdir[p[i - 1]], Prefix(p, i - 1))
            THEN Prefix(p, i) ELSE <<>>]

ComponentWrites ==
  /\ pc = "running"
  /\ \E n \in todo :
       \/ /\ TearFile(pipeline[at], n, commits)
          /\ todo' = todo
       \/ /\ CloseFile(pipeline[at], n, FileMade(pipeline, at, commits))
          /\ todo' = todo \ {n}
  /\ UNCHANGED <<versions, torn, archives, orphans, pc, callVars, at, saved,
                 raised, boundVars>>

(* The component is done and on_new_component returns. Mutated form: it    *)
(* returns before the component is done.                                   *)
ReturnEarly ==
  /\ pc = "running"
  /\ todo' = {}
  /\ \/ /\ at < Len(pipeline)
        /\ pc' = "ready"
        /\ at' = at + 1
     \/ /\ at = Len(pipeline)
        /\ pc' = "score"
        /\ at' = from
  /\ UNCHANGED <<diskVars, callVars, saved, raised, boundVars>>
ComponentDone ==
  /\ pc = "running"
  /\ todo = {}
  /\ \/ /\ at < Len(pipeline)
        /\ pc' = "ready"
        /\ at' = at + 1
     \/ /\ at = Len(pipeline)
        /\ pc' = "score"
        /\ at' = from
  /\ UNCHANGED <<diskVars, callVars, todo, saved, raised, boundVars>>

(* The first line of final_results.txt in the last output directory is     *)
(* read: an exception if there is none, or no number in it.                *)
Score == outdir[pipeline[Len(pipeline)]][FinalResults]

ReadScore ==
  /\ pc = "score"
  /\ \/ /\ Score # Absent
        /\ pc' = "save"
        /\ UNCHANGED <<at, todo, saved, raised>>
     \/ /\ ~Score.whole
        /\ Raise
  /\ UNCHANGED <<diskVars, callVars, boundVars>>

------------------------------------------------------------------------------
(* _save_pipeline_state and the new head *)

(* put of WorkspaceRuntimeFileStorage: the archive of an output directory  *)
(* becomes a new version, and the caller keeps its hash.                   *)
PutOutput(key) ==
  /\ archives' = Append(archives, outdir[key])
  /\ saved' = [saved EXCEPT ![key] = Len(archives')]

(* The output directory of an executed node is archived and put, whatever  *)
(* it holds.                                                               *)
SaveOutput ==
  /\ pc = "save"
  /\ at <= Len(pipeline)
  /\ PutOutput(pipeline[at])
  /\ at' = at + 1
  /\ UNCHANGED <<versions, torn, outdir, orphans, pc, callVars, todo, raised,
                 boundVars>>

(* The outputs of the new head: an executed node has the archive it was    *)
(* saved to, a node that was left out the one it has in the head before.   *)
OutputsOfNewHead ==
  [k \in Library |->
     IF \A i \in 1 .. Len(pipeline) : pipeline[i] # k THEN 0
     ELSE IF saved[k] # 0 THEN saved[k]
     ELSE HeadOutput(branch, k)]

(* The meta storage gets the workspace with the next inc_version: @HEAD is *)
(* emptied and written. (With the other storage engines this is one step,  *)
(* after which the branch is as if nobody had looked in between.)          *)
PutMeta ==
  /\ pc = "save"
  /\ at > Len(pipeline)
  /\ torn' = torn \cup {branch}
  /\ pc' = "heading"
  /\ UNCHANGED <<versions, archives, outdir, orphans, callVars, at, todo, saved,
                 raised, boundVars>>

SetHead ==
  /\ pc = "heading"
  /\ torn' = torn \ {branch}
  /\ versions' = [versions EXCEPT ![branch] =
       Append(@, [pipeline |-> pipeline, outputs |-> OutputsOfNewHead])]
  /\ Return
  /\ UNCHANGED <<archives, outdir, orphans, callVars, raised, boundVars>>

------------------------------------------------------------------------------
(* The process ends in the middle of a commit. A worker that executes a    *)
(* component goes on, unless every process is killed before the restart.   *)
Crash ==
  /\ pc # "idle"
  /\ crashes < MaxCrashes
  /\ crashes' = crashes + 1
  /\ orphans' =
       IF pc = "running" /\ ~CleanProcesses
         THEN orphans \cup {[pipeline |-> pipeline, at |-> at,
                             commit |-> commits, todo |-> todo]}
         ELSE orphans
  /\ Return
  /\ UNCHANGED <<versions, torn, archives, outdir, callVars, raised, commits>>

(* A worker of a process that ended writes a file of its output. *)
OrphanWrites ==
  \E o \in orphans : \E n \in o.todo :
    /\ \/ /\ TearFile(o.pipeline[o.at], n, o.commit)
          /\ orphans' = orphans
       \/ /\ CloseFile(o.pipeline[o.at], n, FileMade(o.pipeline, o.at, o.commit))
          /\ orphans' = (orphans \ {o}) \cup {[o EXCEPT !.todo = @ \ {n}]}
    /\ UNCHANGED <<versions, torn, archives, pc, callVars, at, todo, saved,
                   raised, boundVars>>

(* A task of the experiment: the keys of a pipeline on a branch are made   *)
(* and committed.                                                          *)
CreatePipeline == \E b \in Branch : \E p \in Pipeline[b] : StartCommit(b, p)

Next ==
  \/ CreatePipeline
  \/ NothingToRun
  \/ FetchDataset
  \/ ExtractBegin
  \/ ExtractFile
  \/ ExtractEnd
  \/ FetchLibraries
  \/ CannotPrepare
  \/ CallComponent
  \/ ComponentWrites
  \/ ComponentDone
  \/ ReadScore
  \/ SaveOutput
  \/ PutMeta
  \/ SetHead
  \/ Crash
  \/ OrphanWrites

Spec == Init /\ [][Next]_vars
------------------------------------------------------------------------------
(* Properties *)

(* Types of the variables. *)
TypeOK ==
  /\ versions \in [Branch -> Seq(Workspace)]
  /\ \A b \in Branch : \A n \in 1 .. Len(versions[b]) :
       /\ versions[b][n].pipeline \in Pipeline[b]
       /\ \A k \in Library : versions[b][n].outputs[k] <= Len(archives)
  /\ torn \subseteq Branch
  /\ archives \in Seq(Directory)
  /\ outdir \in [Library -> Directory]
  /\ orphans \subseteq Orphan
  /\ pc \in {"idle", "prepare", "extracting", "fetching", "ready", "running",
             "score", "save", "heading"}
  /\ branch \in Branch
  /\ pipeline \in Pipeline[branch] \cup {<<>>}
  /\ pc # "idle" => {from, at} \subseteq 2 .. Len(pipeline) + 1
  /\ todo \subseteq FileName
  /\ saved \in [Library -> 0 .. Len(archives)]
  /\ raised \in BOOLEAN
  /\ commits \in 0 .. MaxCommits
  /\ crashes \in 0 .. MaxCrashes

(* The parts of the inductive invariants of TrialCommit_proofs.            *)

(* A commit in progress is on its way through an accepted pipeline, no     *)
(* shorter than those of its branch, from the node _build_venvs chose on.  *)
(* Only a process that ended left a branch without a head.                 *)
CommitPhase ==
  /\ pc # "idle" =>
       /\ pipeline \in Pipeline[branch]
       /\ \A n \in 1 .. Len(versions[branch]) :
            Len(versions[branch][n].pipeline) <= Len(pipeline)
       /\ from = FirstToRun(HeadPipelines(branch), pipeline)
       /\ at >= from
       /\ ~raised
  /\ pc \in {"prepare", "extracting", "fetching", "score"} => at = from
  /\ pc = "extracting" => pipeline[at - 1] \in Library
  /\ pc \in {"extracting", "fetching", "ready", "running", "score"} =>
       at <= Len(pipeline)
  /\ pc = "heading" => at > Len(pipeline)
  /\ torn # {} => crashes > 0 \/ (pc = "heading" /\ torn = {branch})

(* What a component has written is whole, unless a worker of a process     *)
(* that ended writes there too.                                            *)
Undisturbed == CleanProcesses \/ crashes = 0
WrittenIsWhole ==
  /\ Undisturbed => orphans = {}
  /\ Undisturbed /\ pc = "running" =>
       \A n \in Writes[pipeline[at]][pipeline[1]] \ todo :
         outdir[pipeline[at]][n].whole
  /\ Undisturbed /\ pc = "score" =>
       \A n \in Writes[pipeline[Len(pipeline)]][pipeline[1]] :
         outdir[pipeline[Len(pipeline)]][n].whole

(* Pipelines of a branch never get shorter. *)
GrowingPipelines ==
  \A b \in Branch : \A n \in 1 .. Len(versions[b]) :
    Len(versions[b][n].pipeline) <= Len(HeadOf(b).pipeline)

(* Every library of a committed pipeline, and every one whose turn to be   *)
(* saved has passed, has an archive.                                       *)
NothingForgotten ==
  /\ \A b \in Branch : \A n \in 1 .. Len(versions[b]) :
       \A i \in 2 .. Len(versions[b][n].pipeline) :
         versions[b][n].outputs[versions[b][n].pipeline[i]] # 0
  /\ pc \in {"save", "heading"} =>
       \A i \in from .. at - 1 : saved[pipeline[i]] # 0

(* A library names the files it leaves without regard to the dataset.      *)
NamesFixed ==
  \A k \in Library : \A d, e \in Dataset : Writes[k][d] = Writes[k][e]

(* With that and no orphans, the archives of committed pipelines are those *)
(* of runs from scratch ...                                                *)
RecordedFromScratch ==
  \A b \in Branch : \A n \in 1 .. Len(versions[b]) :
    \A i \in 2 .. Len(versions[b][n].pipeline) :
      Holds(archives[versions[b][n].outputs[versions[b][n].pipeline[i]]],
            Prefix(versions[b][n].pipeline, i))

(* ... no directory has a file its component would not write, those a      *)
(* commit has written hold its outputs, the one it starts from holds a     *)
(* reused one, and what is saved is what was written.                      *)
NewFile(i) == [whole |-> TRUE, by |-> Prefix(pipeline, i), commit |-> commits]
NewOutput(i) ==
  [n \in FileName |->
     IF n \in Writes[pipeline[i]][pipeline[1]] THEN NewFile(i) ELSE Absent]
OutputsInPlace ==
  /\ orphans = {}
  /\ \A k \in Library : \A d \in Dataset : FilesIn(outdir[k]) \subseteq Writes[k][d]
  /\ pc = "extracting" =>
       /\ todo \subseteq FilesIn(Reused)
       /\ \A n \in FilesIn(Reused) \ todo : outdir[pipeline[at - 1]][n] = Reused[n]
  /\ pc \in {"fetching", "ready", "running"} =>
       /\ \A i \in from .. at - 1 : outdir[pipeline[i]] = NewOutput(i)
       /\ pipeline[at - 1] \in Library =>
            Holds(outdir[pipeline[at - 1]], Prefix(pipeline, at - 1))
  /\ pc = "running" =>
       /\ todo \subseteq Writes[pipeline[at]][pipeline[1]]
       /\ \A n \in Writes[pipeline[at]][pipeline[1]] \ todo :
            outdir[pipeline[at]][n] = NewFile(at)
  /\ pc \in {"score", "save", "heading"} =>
       /\ \A i \in from .. Len(pipeline) : outdir[pipeline[i]] = NewOutput(i)
       /\ \A i \in from .. at - 1 : archives[saved[pipeline[i]]] = NewOutput(i)
  /\ \A k \in Library : saved[k] # 0 =>
       pc \in {"save", "heading"} /\ \E i \in from .. at - 1 : pipeline[i] = k

(* Reuse is sound, crashes included: the outputs recorded with a version   *)
(* are those of a run of its pipeline from scratch in new directories,     *)
(* though most of them were taken from versions before, through            *)
(* directories where other commits, and commits cut short, have left files.*)
ResultsOf(v) ==
  [i \in 1 .. Len(v.pipeline) |->
     IF i = 1 \/ Holds(archives[v.outputs[v.pipeline[i]]], Prefix(v.pipeline, i))
       THEN Prefix(v.pipeline, i) ELSE <<>>]
LogView ==
  INSTANCE PipelineLog WITH
    log <- [b \in Branch |->
              [n \in 1 .. Len(versions[b]) |->
                 [pipeline |-> versions[b][n].pipeline,
                  results |-> ResultsOf(versions[b][n])]]]
RunsFromScratch == LogView!LogSpec

(* A component is not executed when the head has the output of the same    *)
(* pipeline up to it.                                                      *)
NeverRetrains ==
  [][pc = "ready" /\ pc' = "running" =>
       \/ versions[branch] = <<>>
       \/ at > Len(HeadOf(branch).pipeline)
       \/ Prefix(HeadOf(branch).pipeline, at) # Prefix(pipeline, at)]_vars

(* A commit that raises has changed no branch, and it raises only if the   *)
(* length of the pipeline differs from that of the head; if the head has   *)
(* every output already; if the process ended while @HEAD was written      *)
(* once; if a component it needs is in no store; if the output it starts   *)
(* from is of an empty directory; or if the last component leaves no       *)
(* result, or a worker that outlived its process overwrites it.            *)
Refused == raised' /\ (commits' # commits \/ pc # "idle")
RefusesForAReason ==
  [][Refused =>
       /\ UNCHANGED <<versions, torn>>
       /\ \/ pipeline' = <<pipeline'[1]>>
          \/ /\ versions[branch'] # <<>>
             /\ \/ Len(HeadOf(branch').pipeline) # Len(pipeline')
                \/ HeadOf(branch').pipeline = pipeline'
          \/ branch' \in torn /\ crashes > 0
          \/ \E i \in from' - 1 .. Len(pipeline') : pipeline'[i] \notin Stored
          \/ /\ pipeline'[from' - 1] \in Library
             /\ FilesIn(archives[HeadOutput(branch', pipeline'[from' - 1])]) = {}
          \/ FinalResults \notin Writes[pipeline'[Len(pipeline')]][pipeline'[1]]
          \/ ~Undisturbed]_vars

(* trialmanager.py:380, "save only newly generated outputs": an output     *)
(* that is saved was written by a worker of this commit, all of it, from   *)
(* the outputs of the pipeline before it.                                  *)
SavesOnlyNewOutputs ==
  [][Len(archives') > Len(archives) =>
       LET new == archives'[Len(archives')]
       IN  \A n \in FilesIn(new) :
             /\ new[n].whole
             /\ new[n].commit = commits
             /\ new[n].by = Prefix(pipeline, at)]_vars
================================================================================
