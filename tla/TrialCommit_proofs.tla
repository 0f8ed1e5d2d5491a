--------------------------- MODULE TrialCommit_proofs ---------------------------
(***************************************************************************)
(* What TrialCommit checks on a few pipelines, for every set of component  *)
(* keys, branches and pipelines and any number of commits and crashes.     *)
(*                                                                         *)
(* First the trial tree: what it holds, and where the execution of a       *)
(* pipeline begins, for every assignment of api versions. Then what holds  *)
(* whatever orphans do: types, and which commits are refused and which     *)
(* components executed. It rests on the choice of the first node to run    *)
(* (FirstToRunIsFirst): what is before it is a prefix of the head, so the  *)
(* head has its outputs (CommitPhase).                                     *)
(*                                                                         *)
(* Last, that the reuse of outputs is sound when no worker of a process    *)
(* that ended is left ("clean.sh -p", CleanProcesses) and libraries name   *)
(* their files without regard to the dataset (NamesFixed). The invariant   *)
(* follows an output from hand to hand: what the head records was made by  *)
(* a run from scratch (RecordedFromScratch), a commit extracts it for the  *)
(* first node it runs, every node finds the output of the one before it,   *)
(* and what is archived is what this commit wrote (OutputsInPlace). Files  *)
(* are left in the directories all along; but each is one the component    *)
(* writes, so it is overwritten before the directory is read.              *)
(***************************************************************************)
EXTENDS TrialCommit, SequenceTheorems, WellFoundedInduction, TLAPS

------------------------------------------------------------------------------
(* The trial tree of a branch head and a new pipeline *)

(* A set of natural numbers that is not empty has a least element.         *)
LEMMA LeastNatural ==
  ASSUME NEW S \in SUBSET Nat, S # {}
  PROVE  \E m \in S : \A k \in S : m <= k
<1>1. PICK m \in S : \A k \in S : <<k, m>> \notin OpToRel(<, Nat)
  BY NatLessThanWellFounded, WFMin
<1>2. ASSUME NEW k \in S, ~(m <= k)
      PROVE  FALSE
  <2>1. <<k, m>> \in Nat \X Nat /\ k < m
    BY <1>2
  <2>2. <<k, m>> \in OpToRel(<, Nat)
    BY <2>1 DEF OpToRel
  <2> QED
    BY <1>1, <2>2
<1> QED
  BY <1>2

(* Pipelines that have one length n make a tree of that depth.             *)
LEMMA DepthOfEqualLengths ==
  ASSUME NEW ps, NEW n \in Nat, DOMAIN ps # {},
         \A w \in DOMAIN ps : Len(ps[w]) = n
  PROVE  Depth(ps) = n
<1>1. {Len(ps[w]) : w \in DOMAIN ps} = {n}
  OBVIOUS
<1>2. \A w \in DOMAIN ps : Len(ps[w]) <= n
  OBVIOUS
<1> QED
  BY <1>1, <1>2 DEF Depth

(* Each pipeline is among the candidates of the tree built from pipelines  *)
(* of its length: pruning, for any api versions, never cuts a path that    *)
(* some pipeline takes (TrialTree._dfs_prune).                             *)
THEOREM PipelineIsCandidate ==
  ASSUME NEW ps \in Seq(Seq(Key)), NEW v \in DOMAIN ps,
         \A w \in DOMAIN ps : Len(ps[w]) = Len(ps[v])
  PROVE  ~TooShort(ps) /\ ps[v] \in Candidates(ps)
<1> DEFINE p == ps[v]
           n == Len(ps[v])
<1>1. /\ p \in Seq(Key)
      /\ n \in Nat
      /\ 1 \in DOMAIN ps
      /\ DOMAIN p = 1 .. n
  OBVIOUS
<1>2. Len(ps[1]) = n
  BY <1>1
<1>3. Depth(ps) = n
  BY <1>1, DepthOfEqualLengths
<1>4. \A i \in 1 .. n : p[i] \in Stage(ps, i)
  BY <1>1 DEF Stage
<1>5. \A i \in 1 .. n - 1 : MayFollow(ps, p[i], p[i + 1])
  BY <1>1, <1>2 DEF MayFollow
<1>6. p \in [1 .. n -> UNION {Stage(ps, i) : i \in 1 .. n}]
  BY <1>1, <1>4
<1>7. ~TooShort(ps)
  BY <1>1, <1>2 DEF TooShort
<1>8. p \in Paths(ps)
  BY <1>3, <1>4, <1>6 DEF Paths
<1>9. Reached(ps, p)
  BY <1>1, <1>5 DEF Reached
<1> QED
  BY <1>7, <1>8, <1>9 DEF Candidates

(* The nodes before FirstToRun are trained, and the one there, if there is *)
(* one, is not (TrialManager._build_venvs).                                *)
THEOREM FirstToRunIsFirst ==
  ASSUME NEW done, NEW p \in Seq(Key)
  PROVE  /\ FirstToRun(done, p) \in 1 .. Len(p) + 1
         /\ \A i \in 1 .. FirstToRun(done, p) - 1 : Trained(done, p, i)
         /\ FirstToRun(done, p) <= Len(p) =>
              ~Trained(done, p, FirstToRun(done, p))
<1> DEFINE ToRun == {i \in 1 .. Len(p) : ~Trained(done, p, i)} \cup {Len(p) + 1}
<1>1. ToRun \in SUBSET Nat /\ ToRun # {} /\ Len(p) \in Nat
  OBVIOUS
<1>2. PICK m \in ToRun : \A k \in ToRun : m <= k
  <2> HIDE DEF ToRun
  <2> QED
    BY <1>1, LeastNatural
<1>3. /\ m \in 1 .. Len(p) + 1
      /\ \A i \in 1 .. m - 1 : Trained(done, p, i)
      /\ m <= Len(p) => ~Trained(done, p, m)
  BY <1>1, <1>2
<1> QED
  BY <1>3 DEF FirstToRun
------------------------------------------------------------------------------
(* Commits *)

(* The inductive invariant (its parts are defined in TrialCommit).         *)
TypeInv == TypeOK /\ CommitPhase /\ GrowingPipelines /\ NothingForgotten

------------------------------------------------------------------------------
(* Prefixes of pipelines *)

(* A prefix has the elements of the pipeline.                              *)
LEMMA PrefixElements ==
  ASSUME NEW p \in Seq(Key), NEW n \in 1 .. Len(p)
  PROVE  /\ Prefix(p, n) \in Seq(Key)
         /\ Len(Prefix(p, n)) = n
         /\ \A i \in 1 .. n : Prefix(p, n)[i] = p[i]
<1>1. Len(p) \in Nat /\ \A i \in 1 .. n : p[i] \in Key
  BY LenProperties, ElementOfSeq
<1>2. /\ Prefix(p, n) \in Seq(Key)
      /\ Len(Prefix(p, n)) = n
      /\ \A i \in 1 .. n : Prefix(p, n)[i] = p[1 + i - 1]
  BY <1>1, SubSeqProperties DEF Prefix
<1> QED
  BY <1>1, <1>2

(* Pipelines with a common prefix agree on it and on shorter ones.         *)
LEMMA CommonPrefix ==
  ASSUME NEW p \in Seq(Key), NEW q \in Seq(Key),
         NEW n \in 1 .. Len(p), n <= Len(q), Prefix(q, n) = Prefix(p, n),
         NEW m \in 1 .. n
  PROVE  /\ q[m] = p[m]
         /\ Prefix(q, m) = Prefix(p, m)
<1>1. n \in 1 .. Len(q) /\ m \in 1 .. Len(p) /\ m \in 1 .. Len(q)
  BY LenProperties
<1>2. \A i \in 1 .. n : q[i] = p[i]
  BY <1>1, PrefixElements
<1>3. /\ Len(Prefix(q, m)) = Len(Prefix(p, m))
      /\ \A i \in 1 .. Len(Prefix(q, m)) : Prefix(q, m)[i] = Prefix(p, m)[i]
      /\ Prefix(q, m) \in Seq(Key) /\ Prefix(p, m) \in Seq(Key)
  <2>1. /\ Prefix(q, m) \in Seq(Key) /\ Len(Prefix(q, m)) = m
        /\ \A i \in 1 .. m : Prefix(q, m)[i] = q[i]
    BY <1>1, PrefixElements
  <2>2. /\ Prefix(p, m) \in Seq(Key) /\ Len(Prefix(p, m)) = m
        /\ \A i \in 1 .. m : Prefix(p, m)[i] = p[i]
    BY <1>1, PrefixElements
  <2>3. \A i \in 1 .. m : i \in 1 .. n
    BY <1>1
  <2> QED
    BY <1>2, <2>1, <2>2, <2>3
<1> QED
  BY <1>2, <1>3, SeqEqual

(* What a component appends to the output of the prefix before it.         *)
LEMMA PrefixAppend ==
  ASSUME NEW p \in Seq(Key), NEW n \in 2 .. Len(p)
  PROVE  Append(Prefix(p, n - 1), p[n]) = Prefix(p, n)
<1>1. n \in 1 .. Len(p) /\ n - 1 \in 1 .. Len(p) /\ p[n] \in Key
  BY LenProperties, ElementOfSeq
<1>2. /\ Prefix(p, n - 1) \in Seq(Key) /\ Len(Prefix(p, n - 1)) = n - 1
      /\ \A i \in 1 .. n - 1 : Prefix(p, n - 1)[i] = p[i]
  BY <1>1, PrefixElements
<1>3. /\ Prefix(p, n) \in Seq(Key) /\ Len(Prefix(p, n)) = n
      /\ \A i \in 1 .. n : Prefix(p, n)[i] = p[i]
  BY <1>1, PrefixElements
<1>4. /\ Append(Prefix(p, n - 1), p[n]) \in Seq(Key)
      /\ Len(Append(Prefix(p, n - 1), p[n])) = n
      /\ \A i \in 1 .. n : Append(Prefix(p, n - 1), p[n])[i] = p[i]
  BY <1>1, <1>2, AppendProperties
<1> QED
  BY <1>3, <1>4, SeqEqual

------------------------------------------------------------------------------
(* The pipelines of the experiments *)

(* PipelineAssumption, for one pipeline.                                   *)
LEMMA PipelineShape ==
  ASSUME NEW b \in Branch, NEW p \in Pipeline[b]
  PROVE  /\ p \in Seq(Key) /\ Len(p) \in Nat \ {0} /\ p # <<>>
         /\ \A i \in 1 .. Len(p) : p[i] \in Key
         /\ p[1] \in Dataset
         /\ \A i \in 2 .. Len(p) : p[i] \in Library
         /\ \A i, j \in 1 .. Len(p) : p[i] = p[j] => i = j
<1>1. /\ p \in Seq(Key) /\ p # <<>>
      /\ \A i \in 1 .. Len(p) : p[i] \in Dataset <=> i = 1
      /\ \A i, j \in 1 .. Len(p) : p[i] = p[j] => i = j
  BY PipelineAssumption
<1>2. Len(p) \in Nat \ {0} /\ \A i \in 1 .. Len(p) : p[i] \in Key
  BY <1>1, EmptySeq, LenProperties, ElementOfSeq
<1> QED
  BY <1>1, <1>2 DEF Library

(* Of a pipeline, a node after the dataset is trained by the head q alone. *)
LEMMA TrainedByHead ==
  ASSUME NEW b \in Branch, NEW p \in Pipeline[b], NEW i \in 2 .. Len(p)
  PROVE  /\ ~Trained(<<>>, p, i)
         /\ \A q : Trained(<<q>>, p, i) <=>
              i <= Len(q) /\ Prefix(q, i) = Prefix(p, i)
<1>1. p[i] \notin Dataset
  BY PipelineShape DEF Library
<1> QED
  BY <1>1 DEF Trained

(* The first node to run comes after the dataset.                          *)
LEMMA DatasetIsNotRun ==
  ASSUME NEW b \in Branch, NEW p \in Pipeline[b], NEW done
  PROVE  FirstToRun(done, p) \in 2 .. Len(p) + 1
<1>1. /\ FirstToRun(done, p) \in 1 .. Len(p) + 1
      /\ FirstToRun(done, p) <= Len(p) =>
           ~Trained(done, p, FirstToRun(done, p))
  BY PipelineShape, FirstToRunIsFirst
<1>2. Trained(done, p, 1)
  BY PipelineShape DEF Trained
<1> QED
  BY <1>1, <1>2, PipelineShape

(* The workspaces TrialTree gets: the head and the new one.                *)
LEMMA TreeOfTwo ==
  ASSUME NEW p \in Seq(Key), NEW q \in Seq(Key)
  PROVE  Append(<<q>>, p) = <<q, p>>
<1>1. /\ <<q>> \in Seq(Seq(Key)) /\ Len(<<q>>) = 1
      /\ <<q, p>> \in Seq(Seq(Key)) /\ Len(<<q, p>>) = 2
  OBVIOUS
<1>2. /\ Append(<<q>>, p) \in Seq(Seq(Key))
      /\ Len(Append(<<q>>, p)) = 2
      /\ Append(<<q>>, p)[1] = q /\ Append(<<q>>, p)[2] = p
  BY <1>1, AppendProperties
<1>3. \A i \in 1 .. Len(Append(<<q>>, p)) : Append(<<q>>, p)[i] = <<q, p>>[i]
  BY <1>2
<1> QED
  BY <1>1, <1>2, <1>3, SeqEqual

(* An accepted pipeline is at least as long as the head it was compared    *)
(* with (TrialTree._init_compatibility_dict2, candidate_node_lists).       *)
LEMMA AcceptedIsNotShorter ==
  ASSUME NEW p \in Seq(Key), NEW q \in Seq(Key), p # <<>>, q # <<>>,
         p \in Candidates(<<q, p>>)
  PROVE  Len(q) <= Len(p)
<1> DEFINE d == Depth(<<q, p>>)
<1>1. Len(p) \in Nat \ {0} /\ Len(q) \in Nat \ {0} /\ DOMAIN p = 1 .. Len(p)
  BY EmptySeq, LenProperties
<1>2. d \in {Len(q), Len(p)} /\ Len(q) <= d /\ Len(p) <= d
  <2>1. {Len(<<q, p>>[w]) : w \in DOMAIN <<q, p>>} = {Len(q), Len(p)}
    <3>1. DOMAIN <<q, p>> = {1, 2} /\ <<q, p>>[1] = q /\ <<q, p>>[2] = p
      OBVIOUS
    <3> QED
      BY <3>1, Zenon
  <2>2. \E n \in {Len(q), Len(p)} : \A w \in DOMAIN <<q, p>> :
          Len(<<q, p>>[w]) <= n
    BY <1>1
  <2>3. d \in {Len(q), Len(p)} /\ \A w \in DOMAIN <<q, p>> :
          Len(<<q, p>>[w]) <= d
    BY <2>1, <2>2 DEF Depth
  <2> QED
    BY <2>3
<1>3. DOMAIN p = 1 .. d
  BY DEF Candidates, Paths
<1>4. d \in 1 .. Len(p)
  BY <1>1, <1>2, <1>3
<1> QED
  BY <1>1, <1>2, <1>4

------------------------------------------------------------------------------
(* What the head of a branch holds *)

LEMMA HeadFacts ==
  ASSUME TypeInv, NEW b \in Branch, versions[b] # <<>>
  PROVE  /\ Len(versions[b]) \in 1 .. Len(versions[b])
         /\ HeadOf(b) \in Workspace
         /\ HeadOf(b).pipeline \in Pipeline[b]
         /\ HeadPipelines(b) = <<HeadOf(b).pipeline>>
         /\ \A k \in Library : /\ HeadOutput(b, k) = HeadOf(b).outputs[k]
                               /\ HeadOutput(b, k) \in 0 .. Len(archives)
         /\ \A i \in 2 .. Len(HeadOf(b).pipeline) :
              HeadOutput(b, HeadOf(b).pipeline[i]) # 0
<1>1. /\ versions[b] \in Seq(Workspace)
      /\ archives \in Seq(Directory)
      /\ \A n \in 1 .. Len(versions[b]) :
           /\ versions[b][n].pipeline \in Pipeline[b]
           /\ \A k \in Library : versions[b][n].outputs[k] <= Len(archives)
           /\ \A i \in 2 .. Len(versions[b][n].pipeline) :
                versions[b][n].outputs[versions[b][n].pipeline[i]] # 0
  BY DEF TypeInv, TypeOK, NothingForgotten
<1>2. Len(versions[b]) \in 1 .. Len(versions[b]) /\ Len(archives) \in Nat
  BY <1>1, EmptySeq, LenProperties
<1>3. HeadOf(b) \in Workspace
  BY <1>1, <1>2, ElementOfSeq DEF HeadOf
<1>4. \A k \in Library : HeadOf(b).outputs[k] \in Nat
  BY <1>3 DEF Workspace
<1> QED
  BY <1>1, <1>2, <1>3, <1>4 DEF HeadOf, HeadPipelines, HeadOutput

(* The nodes a commit leaves out are those of the head's own prefix, and   *)
(* the head has their outputs.                                             *)
LEMMA ReusedNodes ==
  ASSUME TypeInv, pc # "idle", NEW i \in 2 .. from - 1
  PROVE  /\ versions[branch] # <<>>
         /\ i <= Len(HeadOf(branch).pipeline)
         /\ HeadOf(branch).pipeline[i] = pipeline[i]
         /\ Prefix(HeadOf(branch).pipeline, i) = Prefix(pipeline, i)
         /\ HeadOutput(branch, pipeline[i]) \in 1 .. Len(archives)
<1> DEFINE h == HeadOf(branch).pipeline
<1>1. /\ branch \in Branch
      /\ pipeline \in Pipeline[branch]
      /\ from = FirstToRun(HeadPipelines(branch), pipeline)
      /\ from \in 2 .. Len(pipeline) + 1
  BY DEF TypeInv, TypeOK, CommitPhase
<1>2. pipeline \in Seq(Key) /\ Len(pipeline) \in Nat
  BY <1>1, PipelineShape
<1>3. i \in 2 .. Len(pipeline) /\ pipeline[i] \in Library
  BY <1>1, <1>2, PipelineShape
<1>4. Trained(HeadPipelines(branch), pipeline, i)
  BY <1>1, <1>2, FirstToRunIsFirst
<1>5. versions[branch] # <<>>
  BY <1>1, <1>3, <1>4, TrainedByHead DEF HeadPipelines
<1>6. i <= Len(h) /\ Prefix(h, i) = Prefix(pipeline, i)
  BY <1>1, <1>3, <1>4, <1>5, HeadFacts, TrainedByHead
<1>7. h \in Seq(Key) /\ Len(h) \in Nat
  BY <1>1, <1>5, HeadFacts, PipelineShape
<1>8. h[i] = pipeline[i]
  BY <1>2, <1>3, <1>6, <1>7, CommonPrefix
<1>9. HeadOutput(branch, pipeline[i]) # 0
  BY <1>1, <1>3, <1>5, <1>6, <1>7, <1>8, HeadFacts
<1>10. HeadOutput(branch, pipeline[i]) \in 0 .. Len(archives)
  BY <1>1, <1>3, <1>5, HeadFacts
<1> QED
  BY <1>5, <1>6, <1>8, <1>9, <1>10

(* What a commit is told about the nodes it runs.                          *)
LEMMA RunningNodes ==
  ASSUME TypeInv, pc # "idle"
  PROVE  /\ branch \in Branch /\ pipeline \in Pipeline[branch]
         /\ pipeline \in Seq(Key) /\ Len(pipeline) \in Nat \ {0}
         /\ from \in 2 .. Len(pipeline) + 1
         /\ at \in from .. Len(pipeline) + 1
         /\ \A i \in 2 .. Len(pipeline) : pipeline[i] \in Library
         /\ \A i, j \in 1 .. Len(pipeline) : pipeline[i] = pipeline[j] => i = j
<1>1. /\ branch \in Branch /\ pipeline \in Pipeline[branch]
      /\ {from, at} \subseteq 2 .. Len(pipeline) + 1
      /\ at >= from
  BY DEF TypeInv, TypeOK, CommitPhase
<1> QED
  BY <1>1, PipelineShape

(* Values of the types File and Directory.                                 *)
LEMMA FileTypes ==
  ASSUME NEW c \in Nat
  PROVE  Absent \in File /\ Broken(c) \in File
<1>1. <<>> \in Seq(Key)
  BY EmptySeq
<1> QED
  BY <1>1 DEF Absent, Broken, File

LEMMA FileMadeType ==
  ASSUME NEW p \in Seq(Key), NEW i \in 1 .. Len(p), NEW c \in Nat
  PROVE  FileMade(p, i, c) \in File /\ FileMade(p, i, c).whole = TRUE
<1>1. Prefix(p, i) \in Seq(Key) /\ <<>> \in Seq(Key)
  BY PrefixElements, EmptySeq
<1> DEFINE by == IF p[i - 1] \in Dataset
                      \/ Holds(outdir[p[i - 1]], Prefix(p, i - 1))
                   THEN Prefix(p, i) ELSE <<>>
<1>2. by \in Seq(Key)
  BY <1>1, Zenon
<1>3. FileMade(p, i, c) = [whole |-> TRUE, commit |-> c, by |-> by]
  BY DEF FileMade
<1> HIDE DEF by
<1> QED
  BY <1>2, <1>3 DEF File

(* What changes when a file of a directory is written (TearFile,           *)
(* CloseFile).                                                             *)
LEMMA FileWritten ==
  ASSUME outdir \in [Library -> Directory],
         NEW key \in Library, NEW name \in FileName, NEW file \in File,
         outdir' = [outdir EXCEPT ![key][name] = file]
  PROVE  /\ outdir' \in [Library -> Directory]
         /\ \A k \in Library : k # key => outdir'[k] = outdir[k]
         /\ \A n \in FileName : n # name => outdir'[key][n] = outdir[key][n]
         /\ outdir'[key][name] = file
<1>1. outdir[key] \in [FileName -> File]
  BY DEF Directory
<1>2. [outdir[key] EXCEPT ![name] = file] \in [FileName -> File]
  BY <1>1
<1>3. outdir' = [outdir EXCEPT ![key] = [outdir[key] EXCEPT ![name] = file]]
  OBVIOUS
<1>4. outdir'[key] = [outdir[key] EXCEPT ![name] = file]
  BY <1>3
<1>5. outdir' \in [Library -> Directory]
  BY <1>2, <1>3 DEF Directory
<1> QED
  BY <1>1, <1>3, <1>4, <1>5

------------------------------------------------------------------------------
(* The invariant is inductive *)

LEMMA TypeInit == Init => TypeInv
<1> SUFFICES ASSUME Init PROVE TypeInv
  OBVIOUS
<1>1. <<>> \in Seq(Workspace) /\ <<>> \in Seq(Directory) /\ <<>> \in Seq(Key)
      /\ Len(<<>>) = 0
  BY EmptySeq
<1>2. [n \in FileName |-> Absent] \in Directory
  BY FileTypes DEF Directory
<1>3. MaxCommits \in Nat /\ MaxCrashes \in Nat
  BY PipelineAssumption
<1>4. /\ versions \in [Branch -> Seq(Workspace)]
      /\ \A b \in Branch : Len(versions[b]) = 0
  BY <1>1 DEF Init
<1>5. archives \in Seq(Directory) /\ saved \in [Library -> 0 .. Len(archives)]
  BY <1>1 DEF Init, NothingSaved
<1>6. commits \in 0 .. MaxCommits /\ crashes \in 0 .. MaxCrashes
  BY <1>3 DEF Init
<1>7. /\ outdir \in [Library -> Directory]
      /\ orphans \subseteq Orphan /\ todo \subseteq FileName
      /\ \A b \in Branch : 1 .. Len(versions[b]) = {}
  BY <1>2, <1>4 DEF Init
<1>8. TypeOK
  BY <1>4, <1>5, <1>6, <1>7, Zenon DEF Init, TypeOK
<1> QED
  BY <1>1, <1>4, <1>8 DEF Init, TypeInv, CommitPhase, GrowingPipelines, NothingForgotten

(* Steps that leave the stored versions alone, and what is saved or the    *)
(* commit itself.                                                          *)
LEMMA TypeVersionsKept ==
  ASSUME TypeInv, UNCHANGED <<versions, archives>>,
         UNCHANGED saved \/ saved' = NothingSaved,
         \/ pc' \notin {"save", "heading"}
         \/ UNCHANGED <<pc, pipeline, from, at, saved>>
  PROVE  /\ GrowingPipelines' /\ NothingForgotten'
         /\ saved' \in [Library -> 0 .. Len(archives)]
         /\ Len(archives) \in Nat
<1>1. Len(archives) \in Nat
  BY LenProperties DEF TypeInv, TypeOK
<1>2. saved' \in [Library -> 0 .. Len(archives)]
  BY <1>1 DEF TypeInv, TypeOK, NothingSaved
<1>3. GrowingPipelines'
  BY DEF TypeInv, GrowingPipelines, HeadOf
<1>4. NothingForgotten'
  <2>1. CASE pc' \notin {"save", "heading"}
    BY <2>1 DEF TypeInv, NothingForgotten
  <2>2. CASE UNCHANGED <<pc, pipeline, from, at, saved>>
    BY <2>2 DEF TypeInv, NothingForgotten
  <2> QED
    BY <2>1, <2>2
<1> QED
  BY <1>1, <1>2, <1>3, <1>4

(* A commit is over before a new head is written: an exception, or the end *)
(* of the process.                                                         *)
LEMMA TypeReturn ==
  ASSUME TypeInv, Return,
         versions' = versions, torn' = torn, archives' = archives,
         outdir' = outdir, branch' = branch, pipeline' = pipeline,
         commits' = commits, raised' \in BOOLEAN,
         orphans' \subseteq Orphan, crashes' \in 0 .. MaxCrashes,
         torn # {} => crashes' > 0
  PROVE  TypeInv'
<1>1. /\ saved' = NothingSaved /\ pc' = "idle" /\ todo' \subseteq FileName
  BY DEF Return
<1>2. GrowingPipelines' /\ NothingForgotten'
      /\ saved' \in [Library -> 0 .. Len(archives)]
  BY <1>1, TypeVersionsKept
<1>3. TypeOK'
  BY <1>1, <1>2 DEF TypeInv, TypeOK
<1> QED
  BY <1>1, <1>2, <1>3 DEF TypeInv, CommitPhase

(* Only a process that ended left a head torn, but for the one that is     *)
(* written.                                                                *)
LEMMA TornByCrash ==
  ASSUME TypeInv, pc # "heading"
  PROVE  torn # {} => crashes > 0
  BY DEF TypeInv, CommitPhase

LEMMA TypeRaise ==
  ASSUME TypeInv, Raise, pc # "heading",
         UNCHANGED <<diskVars, callVars, boundVars>>
  PROVE  TypeInv'
<1>1. /\ versions' = versions /\ torn' = torn /\ archives' = archives
      /\ outdir' = outdir /\ branch' = branch /\ pipeline' = pipeline
      /\ commits' = commits /\ orphans' = orphans /\ crashes' = crashes
      /\ Return /\ raised' \in BOOLEAN
  BY DEF Raise, diskVars, callVars, boundVars
<1>2. orphans' \subseteq Orphan /\ crashes' \in 0 .. MaxCrashes
  BY <1>1 DEF TypeInv, TypeOK
<1> QED
  BY <1>1, <1>2, TornByCrash, TypeReturn

LEMMA TypeCrash ==
  ASSUME TypeInv, Crash
  PROVE  TypeInv'
<1>1. /\ versions' = versions /\ torn' = torn /\ archives' = archives
      /\ outdir' = outdir /\ branch' = branch /\ pipeline' = pipeline
      /\ commits' = commits /\ Return /\ raised' = raised
  BY DEF Crash, callVars
<1>2. crashes' \in 0 .. MaxCrashes /\ crashes' > 0 /\ raised' \in BOOLEAN
  BY <1>1, PipelineAssumption DEF Crash, TypeInv, TypeOK
<1>3. orphans' \subseteq Orphan
  <2>1. CASE orphans' = orphans
    BY <2>1 DEF TypeInv, TypeOK
  <2>2. CASE orphans' # orphans
    <3> DEFINE o == [pipeline |-> pipeline, at |-> at, commit |-> commits,
                     todo |-> todo]
    <3>1. pc = "running" /\ orphans' = orphans \cup {o}
      BY <2>2 DEF Crash
    <3>2. at \in 2 .. Len(pipeline) /\ pipeline \in Seq(Key)
          /\ pipeline[at] \in Library
      BY <3>1, RunningNodes DEF TypeInv, CommitPhase
    <3>3. at \in DOMAIN pipeline /\ at \in Nat /\ commits \in Nat
          /\ todo \subseteq FileName
      BY <3>2, LenProperties, PipelineAssumption DEF TypeInv, TypeOK
    <3>4. o \in Orphan
      BY <3>2, <3>3 DEF Orphan
    <3> QED
      BY <3>1, <3>4 DEF TypeInv, TypeOK
  <2> QED
    BY <2>1, <2>2
<1> QED
  BY <1>1, <1>2, <1>3, TypeReturn

(* A commit begins.                                                        *)
LEMMA TypeStart ==
  ASSUME TypeInv, NEW b \in Branch, NEW p \in Pipeline[b], StartCommit(b, p)
  PROVE  TypeInv'
<1> USE DEF TypeInv
<1>1. /\ FirstToRun(HeadPipelines(b), p) \in 2 .. Len(p) + 1
      /\ p \in Seq(Key) /\ p # <<>> /\ Len(p) \in Nat
  BY DatasetIsNotRun, PipelineShape
<1>2. /\ versions' = versions /\ torn' = torn /\ archives' = archives
      /\ outdir' = outdir /\ orphans' = orphans
      /\ branch' = b /\ pipeline' = p /\ crashes' = crashes
      /\ from' = FirstToRun(HeadPipelines(b), p)
      /\ saved' = NothingSaved /\ todo' = {} /\ raised' \in BOOLEAN
      /\ pc' = "idle" \/ (pc' = "prepare" /\ at' = from' /\ raised' = FALSE)
  BY DEF StartCommit, diskVars, Raise, Return
<1>3. commits' \in 0 .. MaxCommits
  BY PipelineAssumption DEF StartCommit, TypeOK
<1>4. /\ GrowingPipelines' /\ NothingForgotten'
      /\ saved' \in [Library -> 0 .. Len(archives)]
  BY <1>2, TypeVersionsKept
<1>5. TypeOK'
  BY <1>1, <1>2, <1>3, <1>4 DEF TypeOK
<1>6. torn' # {} => crashes' > 0
  BY <1>2, TornByCrash DEF StartCommit
<1>7. CommitPhase'
  <2>1. CASE pc' = "idle"
    BY <1>6, <2>1 DEF CommitPhase
  <2>2. CASE pc' # "idle"
    <3>1. /\ p \in Candidates(Append(HeadPipelines(b), p))
          /\ pc' = "prepare" /\ at' = from' /\ raised' = FALSE
      BY <2>2 DEF StartCommit, Raise, Return
    <3>3. \A n \in 1 .. Len(versions[b]) :
            Len(versions[b][n].pipeline) <= Len(p)
      <4>1. CASE versions[b] = <<>>
        BY <4>1, EmptySeq
      <4>2. CASE versions[b] # <<>>
        <5> DEFINE q == HeadOf(b).pipeline
        <5>1. q \in Pipeline[b] /\ HeadPipelines(b) = <<q>>
          BY <4>2, HeadFacts
        <5>2. q \in Seq(Key) /\ q # <<>> /\ Len(q) \in Nat
          BY <5>1, PipelineShape
        <5>3. Append(HeadPipelines(b), p) = <<q, p>>
          BY <5>1, <1>1, <5>2, TreeOfTwo
        <5>4. Len(q) <= Len(p)
          <6> HIDE DEF q
          <6>1. p \in Candidates(<<q, p>>)
            BY <3>1, <5>3
          <6> QED
            BY <1>1, <5>2, <6>1, AcceptedIsNotShorter
        <5>5. \A n \in 1 .. Len(versions[b]) :
                /\ Len(versions[b][n].pipeline) <= Len(q)
                /\ Len(versions[b][n].pipeline) \in Nat
          <6>1. \A n \in 1 .. Len(versions[b]) :
                  versions[b][n].pipeline \in Pipeline[b]
            BY DEF TypeOK
          <6> QED
            BY <6>1, PipelineShape DEF GrowingPipelines
        <5> QED
          BY <1>1, <5>2, <5>4, <5>5
      <4> QED
        BY <4>1, <4>2
    <3> QED
      BY <1>1, <1>2, <1>6, <3>1, <3>3 DEF CommitPhase, HeadPipelines, HeadOf
  <2> QED
    BY <2>1, <2>2
<1> QED
  BY <1>4, <1>5, <1>7

(* The steps of the execution: the commit stays what it is, and only the   *)
(* directories change.                                                     *)
LEMMA TypeExecution ==
  ASSUME TypeInv, pc \notin {"idle", "heading"},
         versions' = versions, torn' = torn, archives' = archives,
         orphans' = orphans,
         branch' = branch, pipeline' = pipeline, from' = from,
         saved' = saved, raised' = raised, commits' = commits,
         crashes' = crashes,
         outdir' \in [Library -> Directory], todo' \subseteq FileName,
         pc' \in {"extracting", "fetching", "ready", "running", "score", "save"},
         at' \in from .. Len(pipeline) + 1,
         pc' \notin {"ready", "running"} => at' = from,
         pc' # "save" => at' <= Len(pipeline),
         pc' = "extracting" => pipeline[at' - 1] \in Library
  PROVE  TypeInv'
<1>1. /\ branch \in Branch /\ pipeline \in Pipeline[branch]
      /\ from \in 2 .. Len(pipeline) + 1 /\ Len(pipeline) \in Nat
  BY RunningNodes
<1>2. TypeOK'
  <2>1. pc' \in {"extracting", "fetching", "ready", "running", "score", "save"}
    OBVIOUS
  <2> QED
    BY <1>1, <2>1 DEF TypeInv, TypeOK
<1>3. CommitPhase'
  BY <1>1 DEF TypeInv, CommitPhase, HeadPipelines, HeadOf
<1>4. GrowingPipelines'
  BY DEF TypeInv, GrowingPipelines, HeadOf
<1>5. NothingForgotten'
  <2>1. pc' \in {"save", "heading"} => \A i \in from' .. at' - 1 : FALSE
    BY <1>1
  <2> QED
    BY <2>1 DEF TypeInv, NothingForgotten
<1> QED
  BY <1>2, <1>3, <1>4, <1>5 DEF TypeInv

(* The node that is executed next, or whose input is fetched.              *)
LEMMA NodeToRun ==
  ASSUME TypeInv, pc \in {"prepare", "extracting", "fetching", "ready",
                          "running", "score"},
         at <= Len(pipeline)
  PROVE  /\ at \in 2 .. Len(pipeline) /\ at \in from .. Len(pipeline) + 1
         /\ at \in Nat /\ from \in Nat /\ from >= 2 /\ from <= at
         /\ pipeline[at] \in Library
         /\ \A i \in 2 .. at - 1 : /\ i \in 2 .. Len(pipeline)
                                   /\ i \in 1 .. Len(pipeline)
                                   /\ pipeline[i] \in Library
                                   /\ pipeline[i] # pipeline[at]
         /\ pipeline[at - 1] \in Library => at - 1 \in 2 .. at - 1
         /\ pipeline[at - 1] \notin Library => at - 1 = 1
         /\ outdir \in [Library -> Directory] /\ todo \subseteq FileName
         /\ commits \in Nat
<1>1. /\ at \in from .. Len(pipeline) + 1 /\ from \in 2 .. Len(pipeline) + 1
      /\ pipeline \in Pipeline[branch] /\ branch \in Branch
      /\ Len(pipeline) \in Nat \ {0}
      /\ \A i \in 2 .. Len(pipeline) : pipeline[i] \in Library
      /\ \A i, j \in 1 .. Len(pipeline) : pipeline[i] = pipeline[j] => i = j
  BY RunningNodes
<1>2. pipeline[1] \notin Library
  BY <1>1, PipelineShape DEF Library
<1>3. at \in 2 .. Len(pipeline) /\ at \in 1 .. Len(pipeline)
      /\ \A i \in 2 .. at - 1 : /\ i \in 2 .. Len(pipeline)
                                /\ i \in 1 .. Len(pipeline)
                                /\ i # at
  BY <1>1
<1>4. pipeline[at - 1] \in Library => at - 1 \in 2 .. at - 1
  BY <1>2, <1>3
<1>5. pipeline[at - 1] \notin Library => at - 1 = 1
  <2>1. at - 1 = 1 \/ at - 1 \in 2 .. Len(pipeline)
    BY <1>1, <1>3
  <2> QED
    BY <1>1, <2>1
<1>6. outdir \in [Library -> Directory] /\ todo \subseteq FileName /\ commits \in Nat
  BY PipelineAssumption DEF TypeInv, TypeOK
<1> QED
  BY <1>1, <1>3, <1>4, <1>5, <1>6

(* What is extracted is the head's output of the node before the first.    *)
LEMMA ExtractedIsReused ==
  ASSUME TypeInv, pc \in {"prepare", "extracting"}, at <= Len(pipeline),
         pipeline[at - 1] \in Library
  PROVE  /\ at = from /\ at - 1 \in 2 .. from - 1
         /\ HeadOutput(branch, pipeline[at - 1]) \in 1 .. Len(archives)
         /\ Reused \in Directory
<1>1. at = from
  BY DEF TypeInv, CommitPhase
<1>2. at - 1 \in 2 .. from - 1
  BY <1>1, NodeToRun
<1>3. HeadOutput(branch, pipeline[at - 1]) \in 1 .. Len(archives)
  BY <1>2, ReusedNodes
<1>4. archives \in Seq(Directory)
  BY DEF TypeInv, TypeOK
<1> QED
  BY <1>1, <1>2, <1>3, <1>4, ElementOfSeq DEF Reused

LEMMA TypeInput ==
  ASSUME TypeInv, FetchDataset \/ ExtractBegin \/ ExtractEnd \/ FetchLibraries
  PROVE  TypeInv'
<1>1. /\ pc \in {"prepare", "extracting", "fetching"} /\ at <= Len(pipeline)
      /\ at = from
  BY DEF FetchDataset, ExtractBegin, ExtractEnd, FetchLibraries, TypeInv,
         CommitPhase
<1>2. /\ at \in from .. Len(pipeline) + 1
      /\ outdir \in [Library -> Directory] /\ todo \subseteq FileName
  BY <1>1, NodeToRun
<1>3. /\ versions' = versions /\ torn' = torn /\ archives' = archives
      /\ orphans' = orphans /\ branch' = branch /\ pipeline' = pipeline
      /\ from' = from /\ saved' = saved /\ raised' = raised
      /\ commits' = commits /\ crashes' = crashes
      /\ outdir' = outdir /\ at' = at
      /\ pc' \in {"extracting", "fetching", "ready"}
      /\ pc' = "extracting" => pipeline[at' - 1] \in Library
  BY DEF FetchDataset, ExtractBegin, ExtractEnd, FetchLibraries, diskVars,
         callVars, boundVars
<1>4. todo' \subseteq FileName
  BY <1>2 DEF FetchDataset, ExtractBegin, ExtractEnd, FetchLibraries, FilesIn
<1>5. /\ pc' \in {"extracting", "fetching", "ready", "running", "score", "save"}
      /\ outdir' \in [Library -> Directory]
      /\ at' \in from .. Len(pipeline) + 1 /\ at' = from /\ at' <= Len(pipeline)
  BY <1>1, <1>2, <1>3
<1> QED
  BY <1>1, <1>3, <1>4, <1>5, TypeExecution

LEMMA TypeExtractFile ==
  ASSUME TypeInv, ExtractFile
  PROVE  TypeInv'
<1> DEFINE key == pipeline[at - 1]
<1>1. /\ pc = "extracting" /\ at <= Len(pipeline) /\ at = from
      /\ key \in Library
  BY DEF ExtractFile, TypeInv, CommitPhase
<1>2. /\ at \in from .. Len(pipeline) + 1 /\ commits \in Nat
      /\ outdir \in [Library -> Directory] /\ todo \subseteq FileName
  BY <1>1, NodeToRun
<1>3. Reused \in [FileName -> File]
  BY <1>1, ExtractedIsReused DEF Directory
<1>4. PICK n \in todo :
        \/ outdir' = [outdir EXCEPT ![key][n] = Broken(commits)] /\ todo' = todo
        \/ outdir' = [outdir EXCEPT ![key][n] = Reused[n]] /\ todo' = todo \ {n}
  BY DEF ExtractFile, TearFile, CloseFile
<1>5. outdir' \in [Library -> Directory] /\ todo' \subseteq FileName
  <2> HIDE DEF key
  <2>1. n \in FileName /\ Broken(commits) \in File /\ Reused[n] \in File
    BY <1>2, <1>3, FileTypes
  <2> QED
    BY <1>1, <1>2, <1>4, <2>1, FileWritten
<1> QED
  BY <1>1, <1>2, <1>5, TypeExecution DEF ExtractFile, callVars, boundVars

LEMMA TypeCallComponent ==
  ASSUME TypeInv, CallComponent
  PROVE  TypeInv'
<1>1. pc = "ready" /\ at <= Len(pipeline)
  BY DEF CallComponent, TypeInv, CommitPhase
<1>2. /\ pipeline[at] \in Library /\ pipeline[1] \in Dataset
      /\ at \in from .. Len(pipeline) + 1 /\ outdir \in [Library -> Directory]
  BY <1>1, NodeToRun, RunningNodes, PipelineShape
<1>3. todo' \subseteq FileName
  BY <1>2, PipelineAssumption DEF CallComponent
<1> QED
  BY <1>1, <1>2, <1>3, TypeExecution DEF CallComponent, diskVars, callVars, boundVars

LEMMA TypeComponentWrites ==
  ASSUME TypeInv, ComponentWrites
  PROVE  TypeInv'
<1>1. pc = "running" /\ at <= Len(pipeline)
  BY DEF ComponentWrites, TypeInv, CommitPhase
<1>2. /\ at \in from .. Len(pipeline) + 1 /\ commits \in Nat
      /\ at \in 2 .. Len(pipeline) /\ pipeline[at] \in Library
      /\ outdir \in [Library -> Directory] /\ todo \subseteq FileName
      /\ pipeline \in Seq(Key) /\ at \in 1 .. Len(pipeline)
  BY <1>1, NodeToRun, RunningNodes
<1>3. Broken(commits) \in File /\ FileMade(pipeline, at, commits) \in File
  BY <1>2, FileTypes, FileMadeType
<1>4. PICK n \in todo :
        \/ /\ outdir' = [outdir EXCEPT ![pipeline[at]][n] = Broken(commits)]
           /\ todo' = todo
        \/ /\ outdir' = [outdir EXCEPT ![pipeline[at]][n] =
                           FileMade(pipeline, at, commits)]
           /\ todo' = todo \ {n}
  BY DEF ComponentWrites, TearFile, CloseFile
<1>5. outdir' \in [Library -> Directory] /\ todo' \subseteq FileName
  <2>1. n \in FileName
    BY <1>2
  <2> QED
    BY <1>2, <1>3, <1>4, <2>1, FileWritten
<1> QED
  BY <1>1, <1>2, <1>5, TypeExecution DEF ComponentWrites, callVars, boundVars

LEMMA TypeComponentDone ==
  ASSUME TypeInv, ComponentDone
  PROVE  TypeInv'
<1>1. pc = "running" /\ at <= Len(pipeline)
  BY DEF ComponentDone, TypeInv, CommitPhase
<1>2. /\ at \in from .. Len(pipeline) + 1 /\ at \in Nat /\ from \in Nat
      /\ from <= at /\ Len(pipeline) \in Nat
      /\ outdir \in [Library -> Directory] /\ todo \subseteq FileName
  BY <1>1, NodeToRun, RunningNodes
<1>3. CASE at < Len(pipeline) /\ pc' = "ready" /\ at' = at + 1
  <2>1. at' \in from .. Len(pipeline) + 1 /\ at' <= Len(pipeline)
    BY <1>2, <1>3
  <2> QED
    BY <1>1, <1>2, <1>3, <2>1, TypeExecution
       DEF ComponentDone, diskVars, callVars, boundVars
<1>4. CASE at = Len(pipeline) /\ pc' = "score" /\ at' = from
  <2>1. at' \in from .. Len(pipeline) + 1 /\ at' <= Len(pipeline)
    BY <1>2, <1>4
  <2> QED
    BY <1>1, <1>2, <1>4, <2>1, TypeExecution
       DEF ComponentDone, diskVars, callVars, boundVars
<1> QED
  BY <1>3, <1>4 DEF ComponentDone

LEMMA TypeReadScore ==
  ASSUME TypeInv, ReadScore
  PROVE  TypeInv'
<1>1. pc = "score" /\ at <= Len(pipeline) /\ at = from
  BY DEF ReadScore, TypeInv, CommitPhase
<1>2. /\ at \in from .. Len(pipeline) + 1
      /\ outdir \in [Library -> Directory] /\ todo \subseteq FileName
  BY <1>1, NodeToRun
<1>3. CASE Raise
  BY <1>1, <1>3, TypeRaise DEF ReadScore
<1>4. CASE pc' = "save" /\ UNCHANGED <<at, todo, saved, raised>>
  BY <1>1, <1>2, <1>4, TypeExecution DEF ReadScore, diskVars, callVars, boundVars
<1> QED
  BY <1>3, <1>4 DEF ReadScore

(* An output is saved.                                                     *)
LEMMA TypeSaveOutput ==
  ASSUME TypeInv, SaveOutput
  PROVE  TypeInv'
<1>1. /\ pc = "save" /\ at \in 2 .. Len(pipeline) /\ from \in Nat /\ at >= from
      /\ pipeline[at] \in Library /\ Len(pipeline) \in Nat
      /\ \A i \in from .. at : pipeline[i] \in Library
  BY RunningNodes DEF SaveOutput, PutOutput
<1>2. /\ versions' = versions /\ outdir' = outdir /\ orphans' = orphans
      /\ branch' = branch /\ pipeline' = pipeline /\ from' = from
      /\ pc' = pc /\ raised' = raised /\ commits' = commits
      /\ crashes' = crashes /\ at' = at + 1 /\ torn' = torn /\ todo' = todo
      /\ archives' = Append(archives, outdir[pipeline[at]])
      /\ saved' = [saved EXCEPT ![pipeline[at]] = Len(archives')]
  BY DEF SaveOutput, PutOutput, callVars, boundVars
<1>3. /\ archives' \in Seq(Directory) /\ Len(archives') = Len(archives) + 1
      /\ Len(archives) \in Nat
  BY <1>1, <1>2, AppendProperties, LenProperties DEF TypeInv, TypeOK
<1>4. saved' \in [Library -> 0 .. Len(archives')]
  BY <1>1, <1>2, <1>3 DEF TypeInv, TypeOK
<1>5. \A b \in Branch : \A n \in 1 .. Len(versions[b]) :
        \A k \in Library : versions[b][n].outputs[k] <= Len(archives')
  <2>1. \A b \in Branch : \A n \in 1 .. Len(versions[b]) :
          /\ \A k \in Library : versions[b][n].outputs[k] <= Len(archives)
          /\ versions[b][n] \in Workspace
    BY ElementOfSeq DEF TypeInv, TypeOK
  <2> QED
    BY <1>3, <2>1 DEF Workspace
<1>at. pc' # "idle" => {from', at'} \subseteq 2 .. Len(pipeline') + 1
  BY <1>1, <1>2 DEF TypeInv, TypeOK
<1>kept. /\ versions' \in [Branch -> Seq(Workspace)]
         /\ \A b \in Branch : \A n \in 1 .. Len(versions'[b]) :
              versions'[b][n].pipeline \in Pipeline[b]
         /\ outdir' \in [Library -> Directory]
         /\ orphans' \subseteq Orphan /\ torn' \subseteq Branch
         /\ todo' \subseteq FileName
         /\ pc' \in {"idle", "prepare", "extracting", "fetching", "ready",
                      "running", "score", "save", "heading"}
         /\ branch' \in Branch /\ pipeline' \in Pipeline[branch'] \cup {<<>>}
         /\ raised' \in BOOLEAN
         /\ commits' \in 0 .. MaxCommits /\ crashes' \in 0 .. MaxCrashes
  BY <1>2 DEF TypeInv, TypeOK
<1>6. TypeOK'
  BY <1>2, <1>3, <1>4, <1>5, <1>at, <1>kept DEF TypeOK
<1>7. CommitPhase'
  BY <1>1, <1>2 DEF TypeInv, CommitPhase, HeadPipelines, HeadOf
<1>8. GrowingPipelines'
  BY <1>2 DEF TypeInv, GrowingPipelines, HeadOf
<1>9. NothingForgotten'
  <2>1. \A i \in from .. at : saved'[pipeline[i]] # 0
    <3>1. \A i \in from .. at - 1 : saved[pipeline[i]] # 0
      BY <1>1 DEF TypeInv, NothingForgotten
    <3>2. saved'[pipeline[at]] # 0
      BY <1>1, <1>2, <1>3 DEF TypeInv, TypeOK
    <3>3. ASSUME NEW i \in from .. at PROVE saved'[pipeline[i]] # 0
      <4>1. CASE pipeline[i] = pipeline[at]
        BY <3>2, <4>1
      <4>2. CASE pipeline[i] # pipeline[at]
        <5>1. i \in from .. at - 1 /\ pipeline[i] \in Library
          BY <1>1, <4>2
        <5> QED
          BY <1>1, <1>2, <3>1, <4>2, <5>1 DEF TypeInv, TypeOK
      <4> QED
        BY <4>1, <4>2
    <3> QED
      BY <3>3
  <2>2. \A i \in from' .. at' - 1 : saved'[pipeline'[i]] # 0
    BY <1>1, <1>2, <2>1
  <2> QED
    BY <1>2, <2>2 DEF TypeInv, NothingForgotten
<1> QED
  BY <1>6, <1>7, <1>8, <1>9 DEF TypeInv


(* A worker of an earlier process writes a file.                           *)
LEMMA OrphanStep ==
  ASSUME TypeInv, OrphanWrites
  PROVE  /\ outdir' \in [Library -> Directory] /\ orphans' \subseteq Orphan
         /\ UNCHANGED <<versions, torn, archives, pc, branch, pipeline, from, at,
                        todo, saved, raised, commits, crashes>>
<1>1. PICK o \in orphans : \E n \in o.todo :
        \/ /\ TearFile(o.pipeline[o.at], n, o.commit)
           /\ orphans' = orphans
        \/ /\ CloseFile(o.pipeline[o.at], n, FileMade(o.pipeline, o.at, o.commit))
           /\ orphans' = (orphans \ {o}) \cup {[o EXCEPT !.todo = @ \ {n}]}
  BY DEF OrphanWrites
<1>2. o \in Orphan /\ orphans \subseteq Orphan
      /\ outdir \in [Library -> Directory]
  BY DEF TypeInv, TypeOK
<1>3. /\ o \in [pipeline : Seq(Key), at : Nat, commit : Nat, todo : SUBSET FileName]
      /\ o.at \in DOMAIN o.pipeline /\ o.pipeline[o.at] \in Library
  BY <1>2 DEF Orphan
<1>4. PICK n \in o.todo :
        \/ /\ TearFile(o.pipeline[o.at], n, o.commit)
           /\ orphans' = orphans
        \/ /\ CloseFile(o.pipeline[o.at], n, FileMade(o.pipeline, o.at, o.commit))
           /\ orphans' = (orphans \ {o}) \cup {[o EXCEPT !.todo = @ \ {n}]}
  BY <1>1
<1>5. /\ o.pipeline \in Seq(Key) /\ o.at \in 1 .. Len(o.pipeline)
      /\ o.commit \in Nat /\ n \in FileName
  BY <1>3, LenProperties
<1>6. /\ Broken(o.commit) \in File
      /\ FileMade(o.pipeline, o.at, o.commit) \in File
  BY <1>5, FileTypes, FileMadeType
<1>7. outdir' \in [Library -> Directory]
  BY <1>2, <1>3, <1>4, <1>5, <1>6, FileWritten DEF TearFile, CloseFile
<1>8. [o EXCEPT !.todo = @ \ {n}] \in Orphan
  BY <1>3 DEF Orphan
<1>9. orphans' \subseteq Orphan
  BY <1>2, <1>4, <1>8
<1> QED
  BY <1>7, <1>9 DEF OrphanWrites, callVars, boundVars

LEMMA TypeOrphanWrites ==
  ASSUME TypeInv, OrphanWrites
  PROVE  TypeInv'
<1>1. /\ outdir' \in [Library -> Directory] /\ orphans' \subseteq Orphan
      /\ UNCHANGED <<versions, torn, archives, pc, branch, pipeline, from, at,
                     todo, saved, raised, commits, crashes>>
  BY OrphanStep
<1>2. TypeOK'
  BY <1>1 DEF TypeInv, TypeOK
<1> QED
  BY <1>1, <1>2
     DEF TypeInv, CommitPhase, GrowingPipelines, NothingForgotten, HeadPipelines,
         HeadOf

(* What the new head records: an archive for every library.                *)
LEMMA NewHeadOutputs ==
  ASSUME TypeInv, pc \in {"save", "heading"}, at > Len(pipeline)
  PROVE  /\ OutputsOfNewHead \in [Library -> 0 .. Len(archives)]
         /\ \A i \in from .. Len(pipeline) :
              /\ saved[pipeline[i]] # 0
              /\ OutputsOfNewHead[pipeline[i]] = saved[pipeline[i]]
         /\ \A i \in 2 .. from - 1 : saved[pipeline[i]] = 0 =>
              OutputsOfNewHead[pipeline[i]] = HeadOutput(branch, pipeline[i])
         /\ \A i \in 2 .. Len(pipeline) : OutputsOfNewHead[pipeline[i]] # 0
<1>1. /\ branch \in Branch /\ Len(pipeline) \in Nat
      /\ from \in 2 .. Len(pipeline) + 1 /\ at = Len(pipeline) + 1
      /\ \A i \in 2 .. Len(pipeline) : pipeline[i] \in Library
  BY RunningNodes
<1>2. /\ Len(archives) \in Nat /\ saved \in [Library -> 0 .. Len(archives)]
  BY LenProperties DEF TypeInv, TypeOK
<1>3. \A k \in Library : HeadOutput(branch, k) \in 0 .. Len(archives)
  <2>1. CASE versions[branch] = <<>>
    BY <1>2, <2>1 DEF HeadOutput
  <2>2. CASE versions[branch] # <<>>
    BY <1>1, <2>2, HeadFacts
  <2> QED
    BY <2>1, <2>2
<1>4. OutputsOfNewHead \in [Library -> 0 .. Len(archives)]
  BY <1>2, <1>3 DEF OutputsOfNewHead
<1>5. \A i \in 2 .. Len(pipeline) :
        OutputsOfNewHead[pipeline[i]] =
          IF saved[pipeline[i]] # 0 THEN saved[pipeline[i]]
          ELSE HeadOutput(branch, pipeline[i])
  <2>1. ASSUME NEW i \in 2 .. Len(pipeline)
        PROVE  ~\A j \in 1 .. Len(pipeline) : pipeline[j] # pipeline[i]
    BY <1>1
  <2> QED
    BY <1>1, <2>1 DEF OutputsOfNewHead
<1>6. \A i \in from .. Len(pipeline) : saved[pipeline[i]] # 0
  BY <1>1 DEF TypeInv, NothingForgotten
<1>7. \A i \in 2 .. from - 1 : HeadOutput(branch, pipeline[i]) # 0
  BY ReusedNodes
<1>8. \A i \in from .. Len(pipeline) : i \in 2 .. Len(pipeline)
  BY <1>1
<1>9. \A i \in 2 .. from - 1 : i \in 2 .. Len(pipeline)
  BY <1>1
<1>10. \A i \in 2 .. Len(pipeline) : i \in from .. Len(pipeline) \/ i \in 2 .. from - 1
  BY <1>1
<1> QED
  BY <1>4, <1>5, <1>6, <1>7, <1>8, <1>9, <1>10

(* The head of the branch is emptied ...                                   *)
LEMMA TypePutMeta ==
  ASSUME TypeInv, PutMeta
  PROVE  TypeInv'
<1>1. /\ pc = "save" /\ pc' = "heading" /\ at > Len(pipeline)
      /\ torn' = torn \cup {branch}
      /\ UNCHANGED <<versions, archives, outdir, orphans, branch, pipeline, from,
                     at, todo, saved, raised, commits, crashes>>
  BY DEF PutMeta, callVars, boundVars
<1>2. TypeOK'
  BY <1>1 DEF TypeInv, TypeOK
<1>3. CommitPhase'
  <2>1. crashes > 0 \/ torn = {}
    BY <1>1, TornByCrash
  <2>2. torn' # {} => crashes' > 0 \/ (pc' = "heading" /\ torn' = {branch'})
    BY <1>1, <2>1
  <2> QED
    BY <1>1, <2>2 DEF TypeInv, CommitPhase, HeadPipelines, HeadOf
<1>4. GrowingPipelines' /\ NothingForgotten'
  BY <1>1 DEF TypeInv, GrowingPipelines, NothingForgotten, HeadOf
<1> QED
  BY <1>2, <1>3, <1>4 DEF TypeInv

(* ... and written.                                                        *)
LEMMA TypeSetHead ==
  ASSUME TypeInv, SetHead
  PROVE  TypeInv'
<1> DEFINE w == [pipeline |-> pipeline, outputs |-> OutputsOfNewHead]
<1>1. /\ pc = "heading" /\ at > Len(pipeline)
      /\ versions' = [versions EXCEPT ![branch] = Append(@, w)]
      /\ pc' = "idle" /\ saved' = NothingSaved
      /\ archives' = archives /\ outdir' = outdir /\ orphans' = orphans
      /\ branch' = branch /\ pipeline' = pipeline
      /\ raised' = raised /\ commits' = commits /\ crashes' = crashes
      /\ torn' = torn \ {branch} /\ todo' = {}
  BY DEF SetHead, Return, callVars, boundVars, TypeInv, CommitPhase
<1>2. /\ branch \in Branch /\ pipeline \in Pipeline[branch]
      /\ pipeline \in Seq(Key) /\ Len(pipeline) \in Nat
  BY <1>1, RunningNodes
<1>3. /\ w \in Workspace /\ w.pipeline = pipeline
      /\ \A k \in Library : w.outputs[k] <= Len(archives)
      /\ \A i \in 2 .. Len(pipeline) : w.outputs[pipeline[i]] # 0
  <2>1. Len(archives) \in Nat
    BY LenProperties DEF TypeInv, TypeOK
  <2>2. OutputsOfNewHead \in [Library -> Nat]
    BY <1>1, <2>1, NewHeadOutputs
  <2> QED
    BY <1>1, <1>2, <2>1, <2>2, NewHeadOutputs DEF Workspace
<1> HIDE DEF w
<1>4. /\ versions \in [Branch -> Seq(Workspace)]
      /\ \A b \in Branch : Len(versions[b]) \in Nat
  BY LenProperties DEF TypeInv, TypeOK
<1>5. /\ versions' \in [Branch -> Seq(Workspace)]
      /\ \A b \in Branch : b # branch => versions'[b] = versions[b]
      /\ Len(versions'[branch]) = Len(versions[branch]) + 1
      /\ versions'[branch][Len(versions[branch]) + 1] = w
      /\ \A n \in 1 .. Len(versions[branch]) :
           versions'[branch][n] = versions[branch][n]
  BY <1>1, <1>2, <1>3, <1>4, AppendProperties
<1>6. \A b \in Branch : \A n \in 1 .. Len(versions'[b]) :
        \/ b = branch /\ versions'[b][n] = w
        \/ n \in 1 .. Len(versions[b]) /\ versions'[b][n] = versions[b][n]
  BY <1>2, <1>4, <1>5
<1>7. saved' \in [Library -> 0 .. Len(archives)]
  BY <1>1, LenProperties DEF TypeInv, TypeOK, NothingSaved
<1>8. \A b \in Branch : \A n \in 1 .. Len(versions'[b]) :
        /\ versions'[b][n].pipeline \in Pipeline[b]
        /\ \A k \in Library : versions'[b][n].outputs[k] <= Len(archives)
        /\ \A i \in 2 .. Len(versions'[b][n].pipeline) :
             versions'[b][n].outputs[versions'[b][n].pipeline[i]] # 0
  <2>1. \A b \in Branch : \A n \in 1 .. Len(versions[b]) :
          /\ versions[b][n].pipeline \in Pipeline[b]
          /\ \A k \in Library : versions[b][n].outputs[k] <= Len(archives)
          /\ \A i \in 2 .. Len(versions[b][n].pipeline) :
               versions[b][n].outputs[versions[b][n].pipeline[i]] # 0
    BY DEF TypeInv, TypeOK, NothingForgotten
  <2>2. ASSUME NEW b \in Branch, NEW n \in 1 .. Len(versions'[b])
        PROVE  /\ versions'[b][n].pipeline \in Pipeline[b]
               /\ \A k \in Library : versions'[b][n].outputs[k] <= Len(archives)
               /\ \A i \in 2 .. Len(versions'[b][n].pipeline) :
                    versions'[b][n].outputs[versions'[b][n].pipeline[i]] # 0
    <3>1. CASE b = branch /\ versions'[b][n] = w
      BY <1>2, <1>3, <3>1
    <3>2. CASE n \in 1 .. Len(versions[b]) /\ versions'[b][n] = versions[b][n]
      BY <2>1, <3>2
    <3> QED
      BY <1>6, <3>1, <3>2
  <2> QED
    BY <2>2
<1>9. TypeOK'
  BY <1>1, <1>5, <1>7, <1>8 DEF TypeInv, TypeOK
<1>10. GrowingPipelines'
  <2>1. ASSUME NEW b \in Branch, NEW n \in 1 .. Len(versions'[b])
        PROVE  Len(versions'[b][n].pipeline) <=
                 Len(versions'[b][Len(versions'[b])].pipeline)
    <3>1. CASE b = branch
      <4>1. versions'[b][Len(versions'[b])] = w
        BY <1>5, <3>1
      <4>2. CASE versions'[b][n] = w
        BY <1>2, <1>3, <4>1, <4>2
      <4>3. CASE n \in 1 .. Len(versions[b]) /\ versions'[b][n] = versions[b][n]
        BY <1>1, <1>3, <3>1, <4>1, <4>3 DEF TypeInv, CommitPhase
      <4> QED
        BY <1>6, <4>2, <4>3
    <3>2. CASE b # branch
      BY <1>5, <3>2 DEF TypeInv, GrowingPipelines, HeadOf
    <3> QED
      BY <3>1, <3>2
  <2> QED
    BY <2>1 DEF GrowingPipelines, HeadOf
<1>11. CommitPhase'
  <2>1. torn' # {} => crashes' > 0
    BY <1>1 DEF TypeInv, CommitPhase
  <2> QED
    BY <1>1, <2>1 DEF CommitPhase
<1>12. NothingForgotten'
  BY <1>1, <1>8 DEF NothingForgotten
<1> QED
  BY <1>9, <1>10, <1>11, <1>12 DEF TypeInv

(* No step leaves the types or breaks what is known of a commit in         *)
(* progress: one lemma per action.                                         *)
THEOREM TypeStep == TypeInv /\ [Next]_vars => TypeInv'
<1> SUFFICES ASSUME TypeInv, [Next]_vars PROVE TypeInv'
  OBVIOUS
<1>1. ASSUME NEW b \in Branch, NEW p \in Pipeline[b], StartCommit(b, p)
      PROVE  TypeInv'
  BY <1>1, TypeStart
<1>2. CASE NothingToRun
  BY <1>2, TypeRaise DEF NothingToRun
<1>3. CASE CannotPrepare
  BY <1>3, TypeRaise DEF CannotPrepare
<1>4. CASE UNCHANGED vars
  <2>1. TypeOK'
    BY <1>4 DEF vars, diskVars, callVars, boundVars, TypeInv, TypeOK
  <2>2. CommitPhase' /\ GrowingPipelines' /\ NothingForgotten'
    BY <1>4 DEF vars, diskVars, callVars, boundVars, TypeInv, CommitPhase,
                GrowingPipelines, NothingForgotten, HeadPipelines, HeadOf
  <2> QED
    BY <2>1, <2>2 DEF TypeInv
<1> QED
  BY <1>1, <1>2, <1>3, <1>4, TypeInput, TypeExtractFile, TypeCallComponent,
     TypeComponentWrites, TypeComponentDone, TypeReadScore, TypeSaveOutput,
     TypePutMeta, TypeSetHead, TypeCrash, TypeOrphanWrites
     DEF Next, CreatePipeline

(* Every variable keeps its type: above all, every version that is stored  *)
(* is of a pipeline of its branch and names archives that exist.           *)
THEOREM CommitTypeCorrect == Spec => []TypeOK
<1>1. TypeInv => TypeOK
  BY DEF TypeInv
<1> QED
  BY <1>1, TypeInit, TypeStep, PTL DEF Spec

------------------------------------------------------------------------------
(* What is refused, and what is executed *)

(* A refusal by the tree: the head has another length.                     *)
LEMMA RefusedByTree ==
  ASSUME TypeInv, NEW b \in Branch, NEW p \in Pipeline[b],
         LET tree == Append(HeadPipelines(b), p)
         IN  TooShort(tree) \/ p \notin Candidates(tree)
  PROVE  versions[b] # <<>> /\ Len(HeadOf(b).pipeline) # Len(p)
<1>1. p \in Seq(Key)
  BY PipelineShape
<1>2. CASE versions[b] = <<>>
  <2>1. Append(HeadPipelines(b), p) = <<p>>
    BY <1>1, <1>2 DEF HeadPipelines
  <2>2. /\ <<p>> \in Seq(Seq(Key)) /\ 1 \in DOMAIN <<p>> /\ <<p>>[1] = p
        /\ \A w \in DOMAIN <<p>> : Len(<<p>>[w]) = Len(<<p>>[1])
    BY <1>1
  <2>3. ~TooShort(<<p>>) /\ <<p>>[1] \in Candidates(<<p>>)
    BY <2>2, PipelineIsCandidate
  <2> QED
    BY <2>1, <2>2, <2>3
<1>3. CASE versions[b] # <<>> /\ Len(HeadOf(b).pipeline) = Len(p)
  <2> DEFINE q == HeadOf(b).pipeline
  <2>1. q \in Seq(Key) /\ HeadPipelines(b) = <<q>>
    BY <1>3, HeadFacts, PipelineShape
  <2>2. Append(HeadPipelines(b), p) = <<q, p>> /\ Len(q) = Len(p)
    BY <1>1, <1>3, <2>1, TreeOfTwo
  <2> HIDE DEF q
  <2>3. /\ <<q, p>> \in Seq(Seq(Key)) /\ 2 \in DOMAIN <<q, p>>
        /\ <<q, p>>[2] = p
        /\ \A w \in DOMAIN <<q, p>> : Len(<<q, p>>[w]) = Len(<<q, p>>[2])
    BY <1>1, <2>1, <2>2
  <2>4. ~TooShort(<<q, p>>) /\ <<q, p>>[2] \in Candidates(<<q, p>>)
    BY <2>3, PipelineIsCandidate
  <2> QED
    BY <2>2, <2>3, <2>4
<1> QED
  BY <1>2, <1>3

(* A commit that has nothing to run.                                       *)
LEMMA RefusedForNothing ==
  ASSUME TypeInv, NothingToRun
  PROVE  \/ pipeline = <<pipeline[1]>>
         \/ /\ versions[branch] # <<>>
            /\ \/ Len(HeadOf(branch).pipeline) # Len(pipeline)
               \/ HeadOf(branch).pipeline = pipeline
<1> DEFINE h == HeadOf(branch).pipeline
           n == Len(pipeline)
<1>1. /\ pc # "idle" /\ at = from /\ at > n
  BY DEF NothingToRun, TypeInv, CommitPhase
<1>2. /\ branch \in Branch /\ pipeline \in Pipeline[branch]
      /\ pipeline \in Seq(Key) /\ n \in Nat \ {0} /\ from = n + 1
  BY <1>1, RunningNodes
<1>3. CASE n = 1
  <2>1. <<pipeline[1]>> \in Seq(Key) /\ Len(<<pipeline[1]>>) = 1
    BY <1>2, PipelineShape
  <2>2. \A i \in 1 .. Len(pipeline) : pipeline[i] = <<pipeline[1]>>[i]
    BY <1>3
  <2>3. pipeline = <<pipeline[1]>>
    BY <1>2, <1>3, <2>1, <2>2, SeqEqual
  <2> QED
    BY <2>3
<1>4. CASE n # 1
  <2>1. n \in Nat /\ n >= 2 /\ from = n + 1
    <3>1. n \in Nat /\ n # 0 /\ n # 1 /\ from = n + 1
      BY <1>2, <1>4
    <3> HIDE DEF n
    <3> QED
      BY <3>1
  <2>2. n \in 2 .. from - 1
    <3> HIDE DEF n
    <3> QED
      BY <2>1
  <2>3. versions[branch] # <<>> /\ Prefix(h, n) = Prefix(pipeline, n)
    BY <1>1, <2>2, ReusedNodes
  <2>4. h \in Seq(Key) /\ Len(h) \in Nat
    BY <1>2, <2>3, HeadFacts, PipelineShape
  <2>5. CASE Len(h) = n
    <3>1. \A i \in 1 .. n : h[i] = pipeline[i]
      BY <1>2, <2>3, <2>4, <2>5, CommonPrefix
    <3>2. h = pipeline
      BY <1>2, <2>4, <2>5, <3>1, SeqEqual
    <3> QED
      BY <2>3, <3>2
  <2> QED
    BY <2>3, <2>5
<1> QED
  BY <1>3, <1>4

(* The output of a component is whole when it is done, if no worker of a   *)
(* process that ended disturbs it: one step per action that writes files   *)
(* or begins to.                                                           *)
LEMMA WholeStep == TypeInv /\ WrittenIsWhole /\ [Next]_vars => WrittenIsWhole'
<1> SUFFICES ASSUME TypeInv, WrittenIsWhole, [Next]_vars, Undisturbed'
             PROVE  /\ orphans' = {}
                    /\ pc' = "running" =>
                         \A m \in Writes[pipeline'[at']][pipeline'[1]] \ todo' :
                           outdir'[pipeline'[at']][m].whole
                    /\ pc' = "score" =>
                         \A m \in Writes[pipeline'[Len(pipeline')]][pipeline'[1]] :
                           outdir'[pipeline'[Len(pipeline')]][m].whole
  BY DEF WrittenIsWhole
<1>1. Undisturbed /\ orphans = {}
  <2>1. crashes' = 0 => crashes = 0
    BY DEF Next, CreatePipeline, StartCommit, NothingToRun, FetchDataset,
           ExtractBegin, ExtractFile, ExtractEnd, FetchLibraries, CannotPrepare,
           CallComponent, ComponentWrites, ComponentDone, ReadScore, SaveOutput,
           PutMeta, SetHead, Crash, OrphanWrites, boundVars, vars, TypeInv, TypeOK
  <2> QED
    BY <2>1 DEF Undisturbed, WrittenIsWhole
<1>2. CASE CallComponent
  <2>1. pc' = "running" /\ todo' = Writes[pipeline[at]][pipeline[1]]
        /\ at' = at /\ pipeline' = pipeline /\ orphans' = {}
    BY <1>1, <1>2 DEF CallComponent, callVars, diskVars
  <2> QED
    BY <2>1
<1>3. CASE ComponentWrites
  <2>1. /\ pc = "running" /\ pc' = pc /\ at' = at /\ pipeline' = pipeline
        /\ orphans' = orphans /\ at <= Len(pipeline)
    BY <1>3 DEF ComponentWrites, callVars, TypeInv, CommitPhase
  <2>2. /\ outdir \in [Library -> Directory] /\ pipeline[at] \in Library
        /\ commits \in Nat /\ todo \subseteq FileName
        /\ pipeline \in Seq(Key) /\ at \in 1 .. Len(pipeline)
        /\ pipeline[1] \in Dataset
    BY <2>1, NodeToRun, RunningNodes, PipelineShape
  <2>3. Writes[pipeline[at]][pipeline[1]] \subseteq FileName
    BY <2>2, PipelineAssumption
  <2>4. /\ Broken(commits) \in File
        /\ FileMade(pipeline, at, commits) \in File
        /\ FileMade(pipeline, at, commits).whole
    BY <2>2, FileTypes, FileMadeType
  <2>5. PICK n \in todo :
          \/ /\ outdir' = [outdir EXCEPT ![pipeline[at]][n] = Broken(commits)]
             /\ todo' = todo
          \/ /\ outdir' = [outdir EXCEPT ![pipeline[at]][n] =
                             FileMade(pipeline, at, commits)]
             /\ todo' = todo \ {n}
    BY <1>3 DEF ComponentWrites, TearFile, CloseFile
  <2>6. ASSUME NEW m \in Writes[pipeline[at]][pipeline[1]] \ todo'
        PROVE  outdir'[pipeline[at]][m].whole
    <3>1. n \in FileName /\ m \in FileName
      BY <2>2, <2>3
    <3>2. CASE m = n
      <4>1. outdir' = [outdir EXCEPT ![pipeline[at]][n] =
                         FileMade(pipeline, at, commits)]
        BY <2>5, <3>2
      <4>2. outdir[pipeline[at]] \in [FileName -> File]
        BY <2>2 DEF Directory
      <4>3. outdir'[pipeline[at]][n] = FileMade(pipeline, at, commits)
        BY <2>2, <3>1, <4>1, <4>2
      <4> QED
        BY <2>4, <3>2, <4>3
    <3>3. CASE m # n
      <4>1. m \notin todo
        BY <2>5, <3>3
      <4>2. outdir'[pipeline[at]][m] = outdir[pipeline[at]][m]
        BY <2>2, <2>4, <2>5, <3>1, <3>3, FileWritten
      <4> QED
        BY <1>1, <2>1, <4>1, <4>2 DEF WrittenIsWhole
    <3> QED
      BY <3>2, <3>3
  <2> QED
    BY <1>1, <2>1, <2>6
<1>4. CASE ComponentDone
  <2>1. /\ pc = "running" /\ todo = {} /\ orphans' = orphans
        /\ pipeline' = pipeline /\ outdir' = outdir
        /\ pc' = "ready" \/ (pc' = "score" /\ at = Len(pipeline))
    BY <1>4 DEF ComponentDone, callVars, diskVars
  <2> QED
    BY <1>1, <2>1 DEF WrittenIsWhole
<1>5. CASE Crash
  <2>1. pc' = "idle" /\ (Undisturbed' => CleanProcesses)
    BY <1>5 DEF Crash, Return, Undisturbed, TypeInv, TypeOK
  <2>2. orphans' = orphans
    BY <1>5, <2>1 DEF Crash
  <2> QED
    BY <1>1, <2>1, <2>2
<1>6. CASE OrphanWrites
  BY <1>1, <1>6 DEF OrphanWrites
<1>7. CASE UNCHANGED vars
  BY <1>1, <1>7 DEF vars, diskVars, callVars, WrittenIsWhole
<1>8. CASE \/ CreatePipeline \/ NothingToRun \/ FetchDataset \/ ExtractBegin
           \/ ExtractFile \/ ExtractEnd \/ FetchLibraries \/ CannotPrepare
           \/ ReadScore \/ SaveOutput \/ PutMeta \/ SetHead
  <2>1. orphans' = orphans /\ pc' \notin {"running", "score"}
    BY <1>8 DEF CreatePipeline, StartCommit, NothingToRun, FetchDataset,
           ExtractBegin, ExtractFile, ExtractEnd, FetchLibraries, CannotPrepare,
           ReadScore, SaveOutput, PutMeta, SetHead, Raise, Return, diskVars
  <2> QED
    BY <1>1, <2>1
<1> QED
  BY <1>2, <1>3, <1>4, <1>5, <1>6, <1>7, <1>8 DEF Next

(* Whatever its api versions, a commit raises only for the reasons that    *)
(* RefusesForAReason lists, and it has changed no branch then. Above all,  *)
(* pruning refuses no pipeline of the head's length, a head is torn only   *)
(* after a crash, and the score that is read is whole.                     *)
THEOREM RefusalCorrect == Spec => RefusesForAReason
<1> DEFINE Reason ==
      /\ UNCHANGED <<versions, torn>>
      /\ \/ pipeline' = <<pipeline'[1]>>
         \/ /\ versions[branch'] # <<>>
            /\ \/ Len(HeadOf(branch').pipeline) # Len(pipeline')
               \/ HeadOf(branch').pipeline = pipeline'
         \/ branch' \in torn /\ crashes > 0
         \/ \E i \in from' - 1 .. Len(pipeline') : pipeline'[i] \notin Stored
         \/ /\ pipeline'[from' - 1] \in Library
            /\ FilesIn(archives[HeadOutput(branch', pipeline'[from' - 1])]) = {}
         \/ FinalResults \notin Writes[pipeline'[Len(pipeline')]][pipeline'[1]]
         \/ ~Undisturbed
<1>1. TypeInv /\ WrittenIsWhole /\ [Next]_vars => [Refused => Reason]_vars
  <2> SUFFICES ASSUME TypeInv, WrittenIsWhole, Next, Refused
               PROVE  Reason
    OBVIOUS
  <2>1. ASSUME NEW b \in Branch, NEW p \in Pipeline[b], StartCommit(b, p)
        PROVE  Reason
    <3>1. branch' = b /\ pipeline' = p /\ UNCHANGED <<versions, torn>> /\ pc = "idle"
      BY <2>1 DEF StartCommit, diskVars
    <3>2. \/ b \in torn
          \/ TooShort(Append(HeadPipelines(b), p))
          \/ p \notin Candidates(Append(HeadPipelines(b), p))
      BY <2>1 DEF StartCommit, Refused
    <3>3. CASE b \in torn
      BY <3>1, <3>3, TornByCrash
    <3>4. CASE b \notin torn
      BY <3>1, <3>2, <3>4, RefusedByTree
    <3> QED
      BY <3>3, <3>4
  <2>2. CASE NothingToRun
    <3>1. branch' = branch /\ pipeline' = pipeline /\ UNCHANGED <<versions, torn>>
      BY <2>2 DEF NothingToRun, callVars, diskVars
    <3> QED
      BY <2>2, <3>1, RefusedForNothing
  <2>3. CASE CannotPrepare
    <3>1. /\ pc \in {"prepare", "fetching"} /\ pipeline' = pipeline /\ from' = from
          /\ branch' = branch /\ at = from /\ UNCHANGED <<versions, torn>>
      BY <2>3 DEF CannotPrepare, callVars, diskVars, TypeInv, CommitPhase
    <3>2. at \in Nat /\ at >= 2 /\ Len(pipeline) \in Nat
      BY <3>1, RunningNodes
    <3>3. \/ \E i \in at - 1 .. Len(pipeline) : pipeline[i] \notin Stored
          \/ pipeline[at - 1] \in Library /\ FilesIn(Reused) = {}
      <4>1. CASE at <= Len(pipeline) /\ pipeline[at - 1] \in Dataset \ Stored
        <5>1. at - 1 \in at - 1 .. Len(pipeline)
          BY <3>2, <4>1
        <5> QED
          BY <4>1, <5>1
      <4>2. CASE \E i \in at .. Len(pipeline) : pipeline[i] \notin Stored
        <5>1. PICK i \in at .. Len(pipeline) : pipeline[i] \notin Stored
          BY <4>2
        <5>2. i \in at - 1 .. Len(pipeline)
          BY <3>2
        <5> QED
          BY <5>1, <5>2
      <4> QED
        BY <2>3, <4>1, <4>2 DEF CannotPrepare
    <3> QED
      BY <3>1, <3>3 DEF Reused
  <2>4. pc # "idle" => raised = FALSE
    BY DEF TypeInv, CommitPhase, TypeOK
  <2>5. CASE ReadScore
    <3>1. pc = "score" /\ pipeline' = pipeline /\ UNCHANGED <<versions, torn>>
      BY <2>5 DEF ReadScore, callVars, diskVars
    <3>2. ~Score.whole
      BY <2>4, <2>5, <3>1 DEF ReadScore, Refused, boundVars
    <3> QED
      BY <3>1, <3>2 DEF WrittenIsWhole, Score
  <2>6. CASE \/ FetchDataset \/ ExtractBegin \/ ExtractFile \/ ExtractEnd
             \/ FetchLibraries \/ CallComponent \/ ComponentWrites
             \/ ComponentDone \/ SaveOutput \/ PutMeta \/ SetHead \/ Crash
             \/ OrphanWrites
    <3>1. raised' = raised /\ commits' = commits
      BY <2>6 DEF FetchDataset, ExtractBegin, ExtractFile, ExtractEnd,
                  FetchLibraries, CallComponent, ComponentWrites, ComponentDone,
                  SaveOutput, PutMeta, SetHead, Crash, OrphanWrites, boundVars
    <3> QED
      BY <2>4, <3>1 DEF Refused
  <2> QED
    BY <2>1, <2>2, <2>3, <2>5, <2>6 DEF Next, CreatePipeline
<1>2. Init => WrittenIsWhole
  BY DEF Init, WrittenIsWhole
<1> QED
  BY <1>1, <1>2, TypeInit, TypeStep, WholeStep, PTL DEF Spec, RefusesForAReason

(* No component is executed whose output, on the same components before    *)
(* it, the head of the branch has.                                         *)
THEOREM NoRetraining == Spec => NeverRetrains
<1> DEFINE New == \/ versions[branch] = <<>>
                  \/ at > Len(HeadOf(branch).pipeline)
                  \/ Prefix(HeadOf(branch).pipeline, at) # Prefix(pipeline, at)
<1>1. TypeInv /\ pc = "ready" => New
  <2> SUFFICES ASSUME TypeInv, pc = "ready", versions[branch] # <<>>,
                      ~(at > Len(HeadOf(branch).pipeline)),
                      Prefix(HeadOf(branch).pipeline, at) = Prefix(pipeline, at)
               PROVE  FALSE
    OBVIOUS
  <2> DEFINE h == HeadOf(branch).pipeline
  <2>1. /\ branch \in Branch /\ pipeline \in Pipeline[branch]
        /\ pipeline \in Seq(Key) /\ Len(pipeline) \in Nat
        /\ from \in 2 .. Len(pipeline) /\ at \in 1 .. Len(pipeline)
        /\ from \in 1 .. at
        /\ from = FirstToRun(HeadPipelines(branch), pipeline)
    <3>1. at <= Len(pipeline) /\ from = FirstToRun(HeadPipelines(branch), pipeline)
      BY DEF TypeInv, CommitPhase
    <3> QED
      BY <3>1, RunningNodes
  <2>2. h \in Seq(Key) /\ Len(h) \in Nat /\ HeadPipelines(branch) = <<h>>
    BY <2>1, HeadFacts, PipelineShape
  <2>3. from <= Len(h) /\ Prefix(h, from) = Prefix(pipeline, from)
    <3>1. at <= Len(h)
      BY <2>1, <2>2
    <3> QED
      BY <2>1, <2>2, <3>1, CommonPrefix
  <2>4. Trained(<<h>>, pipeline, from)
    BY <2>1, <2>3, TrainedByHead
  <2>5. ~Trained(HeadPipelines(branch), pipeline, from)
    BY <2>1, FirstToRunIsFirst
  <2> QED
    BY <2>2, <2>4, <2>5
<1>2. TypeInv => [pc = "ready" /\ pc' = "running" => New]_vars
  BY <1>1
<1> QED
  BY <1>2, TypeInit, TypeStep, PTL DEF Spec, NeverRetrains

------------------------------------------------------------------------------
(* The reuse of outputs *)

(* The inductive invariant, beside TypeInv.                                *)
ScratchInv == RecordedFromScratch /\ OutputsInPlace

(* What a directory holds that holds the output of a node of a pipeline:   *)
(* the files that the component leaves, of any dataset.                    *)
LEMMA HoldsPrefix ==
  ASSUME NEW b \in Branch, NEW p \in Pipeline[b], NEW i \in 1 .. Len(p), NEW dir
  PROVE  Holds(dir, Prefix(p, i)) <=>
           \A n \in FileName :
             IF n \in Writes[p[i]][p[1]]
               THEN dir[n].whole /\ dir[n].by = Prefix(p, i)
               ELSE dir[n] = Absent
<1>1. /\ Len(Prefix(p, i)) = i /\ Prefix(p, i)[i] = p[i]
      /\ Prefix(p, i)[1] = p[1]
  <2>1. p \in Seq(Key) /\ Len(p) \in Nat
    BY PipelineShape
  <2>2. i \in 1 .. i /\ 1 \in 1 .. i
    BY <2>1
  <2> QED
    BY <2>1, <2>2, PrefixElements
<1> QED
  BY <1>1 DEF Holds

LEMMA HeldNames ==
  ASSUME NamesFixed, NEW b \in Branch, NEW p \in Pipeline[b],
         NEW i \in 2 .. Len(p), NEW dir, Holds(dir, Prefix(p, i))
  PROVE  \A d \in Dataset : FilesIn(dir) = Writes[p[i]][d]
<1> SUFFICES ASSUME NEW d \in Dataset
             PROVE  FilesIn(dir) = Writes[p[i]][d]
  OBVIOUS
<1>1. /\ p[i] \in Library /\ p[1] \in Dataset /\ i \in 1 .. Len(p)
  BY PipelineShape
<1>2. /\ Writes[p[i]][d] = Writes[p[i]][p[1]]
      /\ Writes[p[i]][d] \subseteq FileName
  BY <1>1, PipelineAssumption DEF NamesFixed
<1>3. \A n \in FileName :
        IF n \in Writes[p[i]][p[1]]
          THEN dir[n].whole /\ dir[n].by = Prefix(p, i)
          ELSE dir[n] = Absent
  BY <1>1, HoldsPrefix
<1>4. Absent.whole = FALSE
  BY DEF Absent
<1>5. \A n \in FileName : n \in Writes[p[i]][p[1]] <=> dir[n] # Absent
  BY <1>3, <1>4
<1> QED
  BY <1>2, <1>5 DEF FilesIn

(* What this commit makes of a node holds its output.                      *)
LEMMA NewOutputFacts ==
  ASSUME TypeInv, pc # "idle", NEW i \in 2 .. Len(pipeline)
  PROVE  /\ NewOutput(i) \in Directory /\ NewFile(i) \in File
         /\ Holds(NewOutput(i), Prefix(pipeline, i))
         /\ \A n \in FilesIn(NewOutput(i)) : NewOutput(i)[n] = NewFile(i)
<1>1. /\ branch \in Branch /\ pipeline \in Pipeline[branch]
      /\ pipeline \in Seq(Key) /\ i \in 1 .. Len(pipeline) /\ commits \in Nat
  BY RunningNodes, PipelineAssumption DEF TypeInv, TypeOK
<1>2. /\ NewFile(i) \in File /\ NewFile(i).whole = TRUE
      /\ NewFile(i).by = Prefix(pipeline, i)
  BY <1>1, PrefixElements DEF NewFile, File
<1>3. \A n \in FileName :
        NewOutput(i)[n] = IF n \in Writes[pipeline[i]][pipeline[1]]
                            THEN NewFile(i) ELSE Absent
  BY DEF NewOutput
<1>4. NewOutput(i) \in Directory
  BY <1>2, FileTypes DEF NewOutput, Directory
<1>5. Holds(NewOutput(i), Prefix(pipeline, i))
  BY <1>1, <1>2, <1>3, HoldsPrefix
<1> QED
  BY <1>2, <1>3, <1>4, <1>5 DEF FilesIn

(* A recorded output of the head is that of the same prefix of the         *)
(* pipeline for a node that is left out.                                   *)
LEMMA ReusedHolds ==
  ASSUME TypeInv, ScratchInv, pc # "idle", NEW i \in 2 .. from - 1
  PROVE  Holds(archives[HeadOutput(branch, pipeline[i])], Prefix(pipeline, i))
<1> DEFINE h == HeadOf(branch)
<1>1. /\ versions[branch] # <<>> /\ i <= Len(h.pipeline)
      /\ h.pipeline[i] = pipeline[i]
      /\ Prefix(h.pipeline, i) = Prefix(pipeline, i)
  BY ReusedNodes
<1>2. branch \in Branch /\ from \in 2 .. Len(pipeline) + 1
      /\ pipeline \in Pipeline[branch] /\ Len(pipeline) \in Nat
  BY RunningNodes
<1>3. pipeline[i] \in Library
  BY <1>2, RunningNodes
<1>4. i \in 2 .. Len(h.pipeline)
  <2>1. Len(h.pipeline) \in Nat
    BY <1>1, <1>2, HeadFacts, PipelineShape
  <2> QED
    BY <1>1, <1>2, <2>1
<1>5. /\ Len(versions[branch]) \in 1 .. Len(versions[branch])
      /\ HeadOutput(branch, pipeline[i]) = h.outputs[h.pipeline[i]]
  BY <1>1, <1>2, <1>3, HeadFacts
<1>6. Holds(archives[h.outputs[h.pipeline[i]]], Prefix(h.pipeline, i))
  BY <1>2, <1>4, <1>5 DEF ScratchInv, RecordedFromScratch, HeadOf
<1> QED
  BY <1>1, <1>5, <1>6

------------------------------------------------------------------------------
(* The invariant is inductive *)

LEMMA ScratchInit == Init => ScratchInv
<1> SUFFICES ASSUME Init PROVE ScratchInv
  OBVIOUS
<1>1. \A b \in Branch : 1 .. Len(versions[b]) = {}
  BY EmptySeq DEF Init
<1>2. \A k \in Library : FilesIn(outdir[k]) = {}
  BY DEF Init, FilesIn
<1> QED
  BY <1>1, <1>2
     DEF Init, ScratchInv, RecordedFromScratch, OutputsInPlace, NothingSaved

(* Outside the last part of a commit nothing is saved.                     *)
LEMMA NothingSavedYet ==
  ASSUME TypeInv, ScratchInv, pc \notin {"save", "heading"}
  PROVE  \A k \in Library : saved[k] = 0
  BY DEF ScratchInv, OutputsInPlace

(* The beginning and the end of a commit.                                  *)
LEMMA ScratchIdle ==
  ASSUME ScratchInv, versions' = versions, archives' = archives,
         outdir' = outdir, orphans' = orphans,
         saved' = NothingSaved, pc' \in {"idle", "prepare"}
  PROVE  ScratchInv'
<1>1. RecordedFromScratch'
  BY DEF ScratchInv, RecordedFromScratch
<1> QED
  BY <1>1 DEF ScratchInv, OutputsInPlace, NothingSaved

(* The steps before and between the components: at' is the next to run.    *)
LEMMA ScratchExecution ==
  ASSUME TypeInv, ScratchInv, pc \notin {"idle", "save", "heading"},
         versions' = versions, archives' = archives, orphans' = orphans,
         branch' = branch, pipeline' = pipeline, from' = from, saved' = saved,
         commits' = commits, pc' \in {"extracting", "fetching", "ready", "running"},
         \A k \in Library : \A d \in Dataset :
           FilesIn(outdir'[k]) \subseteq Writes[k][d],
         pc' = "extracting" =>
           /\ at' = at /\ todo' \subseteq FilesIn(Reused)
           /\ \A n \in FilesIn(Reused) \ todo' :
                outdir'[pipeline[at - 1]][n] = Reused[n],
         pc' # "extracting" =>
           /\ \A i \in from .. at' - 1 : outdir'[pipeline[i]] = NewOutput(i)
           /\ pipeline[at' - 1] \in Library =>
                Holds(outdir'[pipeline[at' - 1]], Prefix(pipeline, at' - 1)),
         pc' = "running" =>
           /\ todo' \subseteq Writes[pipeline[at']][pipeline[1]]
           /\ \A n \in Writes[pipeline[at']][pipeline[1]] \ todo' :
                outdir'[pipeline[at']][n] = NewFile(at')
  PROVE  ScratchInv'
<1>1. RecordedFromScratch'
  BY DEF ScratchInv, RecordedFromScratch
<1>2. \A k \in Library : saved'[k] = 0
  BY NothingSavedYet
<1>3. \A i : NewOutput(i)' = NewOutput(i) /\ NewFile(i)' = NewFile(i)
  BY DEF NewOutput, NewFile
<1>4. at' = at => Reused' = Reused
  BY DEF Reused, HeadOutput, HeadOf
<1>5. NewFile(at)' = [whole |-> TRUE, by |-> Prefix(pipeline', at'),
                      commit |-> commits']
  BY DEF NewFile
<1>6. NewFile(at') = [whole |-> TRUE, by |-> Prefix(pipeline, at'),
                      commit |-> commits]
  BY DEF NewFile
<1>7. NewFile(at)' = NewFile(at')
  BY <1>5, <1>6
<1>8. pc' = "extracting" =>
        /\ todo' \subseteq FilesIn(Reused')
        /\ \A n \in FilesIn(Reused') \ todo' :
             outdir'[pipeline'[at' - 1]][n] = Reused'[n]
  BY <1>4
<1>9. orphans' = {}
  BY DEF ScratchInv, OutputsInPlace
<1> QED
  BY <1>1, <1>2, <1>3, <1>7, <1>8, <1>9 DEF ScratchInv, OutputsInPlace

(* The last part of a commit: every directory it has written holds its     *)
(* output.                                                                 *)
LEMMA ScratchEnding ==
  ASSUME ScratchInv, orphans' = orphans, outdir' = outdir, pipeline' = pipeline,
         from' = from, commits' = commits,
         pc' \in {"score", "save", "heading"},
         RecordedFromScratch',
         \A i \in from .. Len(pipeline) : outdir[pipeline[i]] = NewOutput(i),
         \A i \in from .. at' - 1 : archives'[saved'[pipeline[i]]] = NewOutput(i),
         \A k \in Library : saved'[k] # 0 =>
           pc' # "score" /\ \E i \in from .. at' - 1 : pipeline[i] = k
  PROVE  ScratchInv'
<1>1. \A i : NewOutput(i)' = NewOutput(i)
  BY DEF NewOutput, NewFile
<1>2. /\ \A i \in from' .. Len(pipeline') : outdir'[pipeline'[i]] = NewOutput(i)'
      /\ \A i \in from' .. at' - 1 : archives'[saved'[pipeline'[i]]] = NewOutput(i)'
  BY <1>1
<1>3. /\ orphans' = {}
      /\ \A k \in Library : \A d \in Dataset :
           FilesIn(outdir'[k]) \subseteq Writes[k][d]
  BY DEF ScratchInv, OutputsInPlace
<1>4. pc' \notin {"extracting", "fetching", "ready", "running"}
  OBVIOUS
<1>5. \A k \in Library : saved'[k] # 0 =>
        pc' \in {"save", "heading"} /\ \E i \in from' .. at' - 1 : pipeline'[i] = k
  OBVIOUS
<1>6. OutputsInPlace'
  BY <1>2, <1>3, <1>4, <1>5, Zenon DEF OutputsInPlace
<1> QED
  BY <1>6 DEF ScratchInv

(* Of a directory file after file is written that the component writes     *)
(* too: no other appears in it.                                            *)
LEMMA NamesKept ==
  ASSUME ScratchInv, outdir \in [Library -> Directory],
         NEW key \in Library, NEW name \in FileName, NEW file \in File,
         outdir' = [outdir EXCEPT ![key][name] = file],
         \A d \in Dataset : name \in Writes[key][d]
  PROVE  \A k \in Library : \A d \in Dataset :
           FilesIn(outdir'[k]) \subseteq Writes[k][d]
<1>1. \A k \in Library : \A d \in Dataset :
        \A n \in FileName : outdir[k][n] # Absent => n \in Writes[k][d]
  BY DEF ScratchInv, OutputsInPlace, FilesIn
<1>2. /\ \A k \in Library : k # key => outdir'[k] = outdir[k]
      /\ \A n \in FileName : n # name => outdir'[key][n] = outdir[key][n]
  BY FileWritten
<1>3. ASSUME NEW k \in Library, NEW d \in Dataset, NEW n \in FileName,
             outdir'[k][n] # Absent
      PROVE  n \in Writes[k][d]
  <2>1. CASE k = key /\ n = name
    BY <2>1
  <2>2. CASE ~(k = key /\ n = name)
    <3>1. outdir'[k][n] = outdir[k][n]
      BY <1>2, <2>2
    <3> QED
      BY <1>1, <1>3, <3>1
  <2> QED
    BY <2>1, <2>2
<1> QED
  BY <1>3 DEF FilesIn

(* The archive that is extracted holds the output of the prefix before the *)
(* first node to run: the files its component leaves.                      *)
LEMMA ReusedArchive ==
  ASSUME NamesFixed, TypeInv, ScratchInv, pc \in {"prepare", "extracting"},
         at <= Len(pipeline), pipeline[at - 1] \in Library
  PROVE  /\ Reused \in Directory
         /\ Holds(Reused, Prefix(pipeline, at - 1))
         /\ \A d \in Dataset : FilesIn(Reused) = Writes[pipeline[at - 1]][d]
<1>1. /\ at = from /\ at - 1 \in 2 .. from - 1 /\ Reused \in Directory
  BY ExtractedIsReused
<1>2. Holds(Reused, Prefix(pipeline, at - 1))
  BY <1>1, ReusedHolds DEF Reused
<1>3. /\ branch \in Branch /\ pipeline \in Pipeline[branch]
      /\ at - 1 \in 2 .. Len(pipeline)
  <2>1. Len(pipeline) \in Nat /\ from \in 2 .. Len(pipeline) + 1
        /\ branch \in Branch /\ pipeline \in Pipeline[branch]
    BY RunningNodes
  <2> QED
    BY <1>1, <2>1
<1> QED
  BY <1>1, <1>2, <1>3, HeldNames

(* No file is written in these steps.                                      *)
LEMMA ScratchInput ==
  ASSUME TypeInv, ScratchInv,
         FetchDataset \/ ExtractBegin \/ FetchLibraries \/ CallComponent
  PROVE  ScratchInv'
<1>1. /\ pc \notin {"idle", "save", "heading"}
      /\ versions' = versions /\ archives' = archives /\ orphans' = orphans
      /\ branch' = branch /\ pipeline' = pipeline /\ from' = from
      /\ saved' = saved /\ commits' = commits /\ outdir' = outdir /\ at' = at
      /\ pc' \in {"extracting", "fetching", "ready", "running"}
  BY DEF FetchDataset, ExtractBegin, FetchLibraries, CallComponent, diskVars,
         callVars, boundVars
<1>2. \A k \in Library : \A d \in Dataset :
        FilesIn(outdir'[k]) \subseteq Writes[k][d]
  BY <1>1 DEF ScratchInv, OutputsInPlace
<1>3. CASE FetchDataset
  <2>1. /\ pc' = "fetching" /\ at = from /\ pipeline[at - 1] \notin Library
        /\ from \in Nat
    BY <1>1, <1>3, RunningNodes DEF FetchDataset, TypeInv, CommitPhase, Library
  <2>2. \A i \in from .. at - 1 : FALSE
    BY <2>1
  <2> QED
    BY <1>1, <1>2, <2>1, <2>2, ScratchExecution
<1>4. CASE ExtractBegin
  <2>1. pc' = "extracting" /\ todo' = FilesIn(Reused)
    BY <1>4 DEF ExtractBegin
  <2> QED
    BY <1>1, <1>2, <2>1, ScratchExecution
<1>5. CASE FetchLibraries \/ CallComponent
  <2>1. /\ pc \in {"fetching", "ready"} /\ pc' \in {"ready", "running"}
        /\ pc' = "running" => todo' = Writes[pipeline[at]][pipeline[1]]
    BY <1>5 DEF FetchLibraries, CallComponent
  <2>2. /\ \A i \in from .. at - 1 : outdir[pipeline[i]] = NewOutput(i)
        /\ pipeline[at - 1] \in Library =>
             Holds(outdir[pipeline[at - 1]], Prefix(pipeline, at - 1))
    BY <2>1 DEF ScratchInv, OutputsInPlace
  <2> QED
    BY <1>1, <1>2, <2>1, <2>2, ScratchExecution
<1> QED
  BY <1>3, <1>4, <1>5

LEMMA ScratchExtractFile ==
  ASSUME NamesFixed, TypeInv, ScratchInv, ExtractFile
  PROVE  ScratchInv'
<1> DEFINE key == pipeline[at - 1]
<1>1. /\ pc = "extracting" /\ pc' = pc /\ at <= Len(pipeline)
      /\ key \in Library
      /\ versions' = versions /\ archives' = archives /\ orphans' = orphans
      /\ branch' = branch /\ pipeline' = pipeline /\ from' = from
      /\ saved' = saved /\ commits' = commits /\ at' = at
  BY DEF ExtractFile, callVars, boundVars, TypeInv, CommitPhase
<1>2. /\ Reused \in [FileName -> File]
      /\ \A d \in Dataset : FilesIn(Reused) = Writes[key][d]
  BY <1>1, ReusedArchive DEF Directory
<1>3. outdir \in [Library -> Directory] /\ commits \in Nat
  BY <1>1, NodeToRun
<1>4. /\ todo \subseteq FilesIn(Reused)
      /\ \A n \in FilesIn(Reused) \ todo : outdir[key][n] = Reused[n]
  BY <1>1 DEF ScratchInv, OutputsInPlace
<1>5. FilesIn(Reused) \subseteq FileName
  BY DEF FilesIn
<1>6. PICK name \in todo, file \in File :
        /\ outdir' = [outdir EXCEPT ![key][name] = file]
        /\ \/ todo' = todo
           \/ file = Reused[name] /\ todo' = todo \ {name}
  <2>1. PICK name \in todo :
          \/ /\ outdir' = [outdir EXCEPT ![key][name] = Broken(commits)]
             /\ todo' = todo
          \/ /\ outdir' = [outdir EXCEPT ![key][name] = Reused[name]]
             /\ todo' = todo \ {name}
    BY DEF ExtractFile, TearFile, CloseFile
  <2>2. Broken(commits) \in File /\ Reused[name] \in File
    BY <1>2, <1>3, <1>4, <1>5, FileTypes
  <2> HIDE DEF key
  <2> QED
    BY <2>1, <2>2
<1> HIDE DEF key
<1>7. /\ name \in FileName /\ \A d \in Dataset : name \in Writes[key][d]
  BY <1>2, <1>4, <1>5
<1>8. \A k \in Library : \A d \in Dataset :
        FilesIn(outdir'[k]) \subseteq Writes[k][d]
  BY <1>1, <1>3, <1>6, <1>7, NamesKept
<1>9. /\ \A n \in FileName : n # name => outdir'[key][n] = outdir[key][n]
      /\ outdir'[key][name] = file
  <2>1. outdir[key] \in [FileName -> File]
    BY <1>1, <1>3 DEF Directory
  <2> QED
    BY <1>1, <1>3, <1>6, <1>7, <2>1
<1>10. /\ todo' \subseteq FilesIn(Reused)
       /\ \A n \in FilesIn(Reused) \ todo' : outdir'[key][n] = Reused[n]
  BY <1>4, <1>5, <1>6, <1>9
<1> QED
  BY <1>1, <1>8, <1>10, ScratchExecution DEF key

(* The directory holds the output of the same prefix of the pipeline: what *)
(* was in it before has been overwritten.                                  *)
LEMMA ScratchExtractEnd ==
  ASSUME NamesFixed, TypeInv, ScratchInv, ExtractEnd
  PROVE  ScratchInv'
<1> DEFINE key == pipeline[at - 1]
<1>1. /\ pc = "extracting" /\ pc' = "fetching" /\ at <= Len(pipeline)
      /\ key \in Library /\ todo = {}
      /\ versions' = versions /\ archives' = archives /\ orphans' = orphans
      /\ branch' = branch /\ pipeline' = pipeline /\ from' = from
      /\ saved' = saved /\ commits' = commits /\ at' = at /\ outdir' = outdir
  BY DEF ExtractEnd, diskVars, callVars, boundVars, TypeInv, CommitPhase
<1>2. /\ Reused \in [FileName -> File]
      /\ Holds(Reused, Prefix(pipeline, at - 1))
      /\ \A d \in Dataset : FilesIn(Reused) = Writes[key][d]
  BY <1>1, ReusedArchive DEF Directory
<1>3. /\ outdir[key] \in [FileName -> File]
      /\ pipeline[1] \in Dataset /\ at = from /\ from \in Nat
  BY <1>1, NodeToRun, RunningNodes, PipelineShape
     DEF Directory, TypeInv, CommitPhase
<1>4. \A n \in FileName : outdir[key][n] = Reused[n]
  <2>1. \A n \in FilesIn(Reused) : outdir[key][n] = Reused[n]
    BY <1>1 DEF ScratchInv, OutputsInPlace
  <2>2. FilesIn(outdir[key]) \subseteq FilesIn(Reused)
    BY <1>1, <1>2, <1>3 DEF ScratchInv, OutputsInPlace
  <2> QED
    BY <2>1, <2>2 DEF FilesIn
<1>5. outdir[key] = Reused
  BY <1>2, <1>3, <1>4
<1>6. \A i \in from .. at' - 1 : FALSE
  BY <1>1, <1>3
<1>7. \A k \in Library : \A d \in Dataset :
        FilesIn(outdir'[k]) \subseteq Writes[k][d]
  BY <1>1 DEF ScratchInv, OutputsInPlace
<1> QED
  BY <1>1, <1>2, <1>5, <1>6, <1>7, ScratchExecution

(* What a component makes of what it finds is what a run from scratch      *)
(* would have made.                                                        *)
LEMMA ComponentRunsFromScratch ==
  ASSUME TypeInv, ScratchInv, pc = "running"
  PROVE  FileMade(pipeline, at, commits) = NewFile(at)
<1>1. at <= Len(pipeline) /\ pc # "idle"
  BY DEF TypeInv, CommitPhase
<1>2. /\ branch \in Branch /\ pipeline \in Pipeline[branch]
      /\ pipeline[1] \in Dataset
      /\ pipeline[at - 1] \notin Library => at - 1 = 1
  BY <1>1, NodeToRun, RunningNodes, PipelineShape
<1>3. \/ pipeline[at - 1] \in Dataset
      \/ Holds(outdir[pipeline[at - 1]], Prefix(pipeline, at - 1))
  BY <1>2 DEF ScratchInv, OutputsInPlace
<1> QED
  BY <1>3 DEF FileMade, NewFile

(* A component of the commit writes: the others' directories stay.         *)
LEMMA ScratchComponentWrites ==
  ASSUME NamesFixed, TypeInv, ScratchInv, ComponentWrites
  PROVE  ScratchInv'
<1> DEFINE key == pipeline[at]
           names == Writes[pipeline[at]][pipeline[1]]
<1>1. /\ pc = "running" /\ pc' = pc /\ at <= Len(pipeline)
      /\ versions' = versions /\ archives' = archives /\ orphans' = orphans
      /\ branch' = branch /\ pipeline' = pipeline /\ from' = from
      /\ saved' = saved /\ commits' = commits /\ at' = at
  BY DEF ComponentWrites, callVars, boundVars, TypeInv, CommitPhase
<1>2. /\ outdir \in [Library -> Directory] /\ commits \in Nat /\ key \in Library
      /\ at \in 2 .. Len(pipeline) /\ from \in Nat /\ from >= 2 /\ at \in Nat
      /\ \A i \in 2 .. at - 1 : pipeline[i] \in Library /\ pipeline[i] # key
      /\ pipeline[at - 1] \in Library => at - 1 \in 2 .. at - 1
      /\ pipeline[1] \in Dataset
  BY <1>1, NodeToRun, RunningNodes, PipelineShape
<1>3. names \subseteq FileName /\ \A d \in Dataset : names = Writes[key][d]
  BY <1>2, PipelineAssumption DEF NamesFixed
<1>4. /\ todo \subseteq names
      /\ \A n \in names \ todo : outdir[key][n] = NewFile(at)
      /\ \A i \in from .. at - 1 : outdir[pipeline[i]] = NewOutput(i)
      /\ pipeline[at - 1] \in Library =>
           Holds(outdir[pipeline[at - 1]], Prefix(pipeline, at - 1))
  BY <1>1 DEF ScratchInv, OutputsInPlace
<1>5. PICK name \in todo, file \in File :
        /\ outdir' = [outdir EXCEPT ![key][name] = file]
        /\ \/ todo' = todo
           \/ file = NewFile(at) /\ todo' = todo \ {name}
  <2>1. PICK name \in todo :
          \/ /\ outdir' = [outdir EXCEPT ![key][name] = Broken(commits)]
             /\ todo' = todo
          \/ /\ outdir' = [outdir EXCEPT ![key][name] = NewFile(at)]
             /\ todo' = todo \ {name}
    BY <1>1, ComponentRunsFromScratch DEF ComponentWrites, TearFile, CloseFile
  <2>2. Broken(commits) \in File /\ NewFile(at) \in File
    BY <1>1, <1>2, FileTypes, NewOutputFacts
  <2> HIDE DEF key
  <2> QED
    BY <2>1, <2>2
<1>6. name \in FileName /\ \A d \in Dataset : name \in Writes[key][d]
  BY <1>3, <1>4
<1> HIDE DEF key, names
<1>7. \A k \in Library : \A d \in Dataset :
        FilesIn(outdir'[k]) \subseteq Writes[k][d]
  BY <1>2, <1>5, <1>6, NamesKept
<1>8. /\ \A k \in Library : k # key => outdir'[k] = outdir[k]
      /\ \A n \in FileName : n # name => outdir'[key][n] = outdir[key][n]
      /\ outdir'[key][name] = file
  <2>1. outdir[key] \in [FileName -> File]
    BY <1>2 DEF Directory
  <2> QED
    BY <1>2, <1>5, <1>6, <2>1
<1>9. /\ todo' \subseteq names
      /\ \A n \in names \ todo' : outdir'[key][n] = NewFile(at)
  BY <1>3, <1>4, <1>5, <1>8
<1>10. \A i \in from .. at - 1 : outdir'[pipeline[i]] = NewOutput(i)
  <2>1. \A i \in from .. at - 1 : i \in 2 .. at - 1
    BY <1>2
  <2> QED
    BY <1>2, <1>4, <1>8, <2>1
<1>11. pipeline[at - 1] \in Library =>
         Holds(outdir'[pipeline[at - 1]], Prefix(pipeline, at - 1))
  BY <1>2, <1>4, <1>8
<1> QED
  BY <1>1, <1>7, <1>9, <1>10, <1>11, ScratchExecution DEF key, names

(* A component is done: its directory holds nothing else than what it      *)
(* wrote.                                                                  *)
LEMMA ScratchComponentDone ==
  ASSUME NamesFixed, TypeInv, ScratchInv, ComponentDone
  PROVE  ScratchInv'
<1>1. /\ pc = "running" /\ at <= Len(pipeline) /\ todo = {}
      /\ versions' = versions /\ archives' = archives /\ orphans' = orphans
      /\ branch' = branch /\ pipeline' = pipeline /\ from' = from
      /\ saved' = saved /\ commits' = commits /\ outdir' = outdir
  BY DEF ComponentDone, diskVars, callVars, boundVars, TypeInv, CommitPhase
<1>2. /\ outdir \in [Library -> Directory] /\ pipeline[at] \in Library
      /\ at \in 2 .. Len(pipeline) /\ from \in Nat /\ at \in Nat /\ from <= at
      /\ pipeline[1] \in Dataset /\ Len(pipeline) \in Nat
  BY <1>1, NodeToRun, RunningNodes, PipelineShape
<1>3. outdir[pipeline[at]] = NewOutput(at)
  <2> DEFINE names == Writes[pipeline[at]][pipeline[1]]
  <2>1. \A n \in names : outdir[pipeline[at]][n] = NewFile(at)
    BY <1>1 DEF ScratchInv, OutputsInPlace
  <2>2. FilesIn(outdir[pipeline[at]]) \subseteq names
    BY <1>2 DEF ScratchInv, OutputsInPlace
  <2>3. outdir[pipeline[at]] \in [FileName -> File]
    BY <1>2 DEF Directory
  <2>4. \A n \in FileName : n \notin names => outdir[pipeline[at]][n] = Absent
    BY <2>2 DEF FilesIn
  <2>5. outdir[pipeline[at]] =
          [n \in FileName |-> IF n \in names THEN NewFile(at) ELSE Absent]
    <3> HIDE DEF names
    <3> QED
      BY <2>1, <2>3, <2>4
  <2> QED
    BY <2>5 DEF NewOutput
<1>4. \A i \in from .. at : outdir[pipeline[i]] = NewOutput(i)
  <2>1. ASSUME NEW i \in from .. at, i # at
        PROVE  outdir[pipeline[i]] = NewOutput(i)
    <3>1. i \in from .. at - 1
      BY <1>2, <2>1
    <3> QED
      BY <1>1, <3>1 DEF ScratchInv, OutputsInPlace
  <2> QED
    BY <1>3, <2>1
<1>names. \A k \in Library : \A d \in Dataset :
            FilesIn(outdir'[k]) \subseteq Writes[k][d]
  BY <1>1 DEF ScratchInv, OutputsInPlace
<1>5. CASE at < Len(pipeline) /\ pc' = "ready" /\ at' = at + 1
  <2>1. at' - 1 = at
    BY <1>2, <1>5
  <2>2. Holds(outdir[pipeline[at]], Prefix(pipeline, at))
    BY <1>1, <1>2, <1>3, NewOutputFacts
  <2> QED
    BY <1>1, <1>4, <1>5, <1>names, <2>1, <2>2, ScratchExecution
<1>6. CASE at = Len(pipeline) /\ pc' = "score" /\ at' = from
  <2>1. RecordedFromScratch'
    BY <1>1 DEF ScratchInv, RecordedFromScratch
  <2>2. \A k \in Library : saved'[k] = 0
    BY <1>1, NothingSavedYet
  <2>3. \A i \in from .. at' - 1 : FALSE
    BY <1>1, <1>2, <1>6
  <2>4. \A i \in from .. Len(pipeline) : outdir[pipeline[i]] = NewOutput(i)
    BY <1>4, <1>6
  <2> QED
    BY <1>1, <1>6, <2>1, <2>2, <2>3, <2>4, ScratchEnding
<1> QED
  BY <1>5, <1>6 DEF ComponentDone

LEMMA ScratchReadScore ==
  ASSUME TypeInv, ScratchInv, ReadScore
  PROVE  ScratchInv'
<1>1. pc = "score" /\ UNCHANGED <<diskVars, callVars, boundVars>>
  BY DEF ReadScore
<1>2. CASE Raise
  BY <1>1, <1>2, ScratchIdle DEF Raise, Return, diskVars
<1>3. CASE pc' = "save" /\ UNCHANGED <<at, todo, saved, raised>>
  <2>1. \A k \in Library : saved[k] = 0
    BY <1>1, NothingSavedYet
  <2>2. /\ \A i \in from .. Len(pipeline) : outdir[pipeline[i]] = NewOutput(i)
        /\ \A i \in from .. at - 1 : archives[saved[pipeline[i]]] = NewOutput(i)
    BY <1>1 DEF ScratchInv, OutputsInPlace
  <2>3. /\ orphans' = orphans /\ outdir' = outdir /\ pipeline' = pipeline
        /\ from' = from /\ commits' = commits /\ versions' = versions
        /\ archives' = archives /\ saved' = saved /\ at' = at
    BY <1>1, <1>3 DEF diskVars, callVars, boundVars
  <2>4. RecordedFromScratch'
    BY <2>3 DEF ScratchInv, RecordedFromScratch
  <2> QED
    BY <1>3, <2>1, <2>2, <2>3, <2>4, ScratchEnding
<1> QED
  BY <1>2, <1>3 DEF ReadScore

(* What is recorded stays recorded when archives are added.                *)
LEMMA RecordedIsKept ==
  ASSUME TypeInv, ScratchInv, versions' = versions, NEW o \in Directory,
         archives' = Append(archives, o)
  PROVE  RecordedFromScratch'
<1>1. /\ Len(archives) \in Nat /\ archives \in Seq(Directory)
      /\ \A m \in 1 .. Len(archives) : archives'[m] = archives[m]
  BY AppendProperties, LenProperties DEF TypeInv, TypeOK
<1>2. ASSUME NEW b \in Branch, NEW n \in 1 .. Len(versions[b]),
             NEW i \in 2 .. Len(versions[b][n].pipeline)
      PROVE  Holds(archives'[versions[b][n].outputs[versions[b][n].pipeline[i]]],
                   Prefix(versions[b][n].pipeline, i))
  <2> DEFINE v == versions[b][n]
             m == v.outputs[v.pipeline[i]]
  <2>1. /\ v \in Workspace /\ v.pipeline \in Pipeline[b]
        /\ \A k \in Library : v.outputs[k] <= Len(archives)
    BY ElementOfSeq DEF TypeInv, TypeOK
  <2>2. v.pipeline[i] \in Library
    BY <2>1, PipelineShape
  <2>3. m \in Nat /\ m <= Len(archives) /\ m # 0
    BY <2>1, <2>2 DEF Workspace, TypeInv, NothingForgotten
  <2>4. archives'[m] = archives[m]
    <3> HIDE DEF m
    <3> QED
      BY <1>1, <2>3
  <2> QED
    BY <2>4 DEF ScratchInv, RecordedFromScratch
<1> QED
  BY <1>2 DEF RecordedFromScratch

(* What is archived is the output of this commit, of this node.            *)
LEMMA SavedIsNew ==
  ASSUME TypeInv, ScratchInv, SaveOutput
  PROVE  /\ outdir[pipeline[at]] = NewOutput(at) /\ NewOutput(at) \in Directory
         /\ archives' = Append(archives, NewOutput(at))
         /\ at \in from .. Len(pipeline) /\ pipeline[at] \in Library
<1>1. /\ at \in from .. Len(pipeline) /\ at \in 2 .. Len(pipeline)
      /\ pipeline[at] \in Library
  BY RunningNodes DEF SaveOutput, PutOutput
<1>2. outdir[pipeline[at]] = NewOutput(at)
  BY <1>1 DEF SaveOutput, PutOutput, ScratchInv, OutputsInPlace
<1>3. outdir[pipeline[at]] \in Directory
  BY <1>1 DEF TypeInv, TypeOK
<1> QED
  BY <1>1, <1>2, <1>3 DEF SaveOutput, PutOutput

LEMMA ScratchSaveOutput ==
  ASSUME TypeInv, ScratchInv, SaveOutput
  PROVE  ScratchInv'
<1>1. /\ pc = "save" /\ pc' = pc /\ at' = at + 1 /\ from' = from
      /\ pipeline' = pipeline /\ commits' = commits /\ versions' = versions
      /\ outdir' = outdir /\ orphans' = orphans /\ branch' = branch
      /\ saved' = [saved EXCEPT ![pipeline[at]] = Len(archives')]
      /\ archives' = Append(archives, NewOutput(at))
      /\ NewOutput(at) \in Directory /\ pipeline[at] \in Library
  BY SavedIsNew DEF SaveOutput, PutOutput, callVars, boundVars
<1>2. /\ Len(pipeline) \in Nat /\ from \in Nat /\ at \in Nat /\ from >= 2
      /\ from <= at /\ at <= Len(pipeline)
      /\ \A i \in 2 .. Len(pipeline) : pipeline[i] \in Library
      /\ \A i, j \in 1 .. Len(pipeline) : pipeline[i] = pipeline[j] => i = j
  <2>1. pc # "idle" /\ at <= Len(pipeline)
    BY DEF SaveOutput, PutOutput
  <2> QED
    BY <2>1, RunningNodes
<1>3. /\ Len(archives) \in Nat /\ Len(archives') = Len(archives) + 1
      /\ archives'[Len(archives) + 1] = NewOutput(at)
      /\ \A m \in 1 .. Len(archives) : archives'[m] = archives[m]
      /\ saved \in [Library -> 0 .. Len(archives)]
  BY <1>1, AppendProperties, LenProperties DEF TypeInv, TypeOK
<1>4. RecordedFromScratch'
  BY <1>1, RecordedIsKept
<1>5. \A i \in from .. at : archives'[saved'[pipeline[i]]] = NewOutput(i)
  <2>1. saved'[pipeline[at]] = Len(archives) + 1
    BY <1>1, <1>3
  <2>2. ASSUME NEW i \in from .. at, i # at
        PROVE  archives'[saved'[pipeline[i]]] = NewOutput(i)
    <3>1. /\ i \in from .. at - 1 /\ i \in 2 .. Len(pipeline)
          /\ i \in 1 .. Len(pipeline) /\ at \in 1 .. Len(pipeline)
      BY <1>2, <2>2
    <3>2. pipeline[i] \in Library /\ pipeline[i] # pipeline[at]
      BY <1>2, <2>2, <3>1
    <3>3. saved'[pipeline[i]] = saved[pipeline[i]]
      BY <1>1, <1>3, <3>2
    <3>4. /\ saved[pipeline[i]] # 0
          /\ archives[saved[pipeline[i]]] = NewOutput(i)
      BY <1>1, <3>1 DEF TypeInv, NothingForgotten, ScratchInv, OutputsInPlace
    <3>5. saved[pipeline[i]] \in 1 .. Len(archives)
      BY <1>3, <3>2, <3>4
    <3> QED
      BY <1>3, <3>3, <3>4, <3>5
  <2> QED
    BY <1>3, <2>1, <2>2
<1>6. ASSUME NEW k \in Library, saved'[k] # 0
      PROVE  \E i \in from .. at : pipeline[i] = k
  <2>1. CASE k = pipeline[at]
    BY <1>2, <2>1
  <2>2. CASE k # pipeline[at]
    <3>1. saved[k] # 0
      BY <1>1, <1>3, <1>6, <2>2
    <3>2. PICK i \in from .. at - 1 : pipeline[i] = k
      BY <3>1 DEF ScratchInv, OutputsInPlace
    <3>3. i \in from .. at
      BY <1>2
    <3> QED
      BY <3>2, <3>3
  <2> QED
    BY <2>1, <2>2
<1>7. from .. at' - 1 = from .. at
  BY <1>1, <1>2
<1>8. \A i \in from .. Len(pipeline) : outdir[pipeline[i]] = NewOutput(i)
  BY <1>1 DEF ScratchInv, OutputsInPlace
<1> QED
  BY <1>1, <1>4, <1>5, <1>6, <1>7, <1>8, ScratchEnding

(* The outputs of the new head: new ones, and those of the head before for *)
(* the nodes that were left out, whose prefix is the same.                 *)
LEMMA NewHeadFromScratch ==
  ASSUME TypeInv, ScratchInv, pc = "heading", at > Len(pipeline),
         NEW i \in 2 .. Len(pipeline)
  PROVE  Holds(archives[OutputsOfNewHead[pipeline[i]]], Prefix(pipeline, i))
<1>1. /\ branch \in Branch /\ Len(pipeline) \in Nat /\ from \in Nat
      /\ from >= 2 /\ at = Len(pipeline) + 1
      /\ \A j \in 2 .. Len(pipeline) : pipeline[j] \in Library
      /\ \A j, l \in 1 .. Len(pipeline) : pipeline[j] = pipeline[l] => j = l
  BY RunningNodes
<1>2. CASE i >= from
  <2>1. i \in from .. Len(pipeline) /\ i \in from .. at - 1
    BY <1>1, <1>2
  <2>2. OutputsOfNewHead[pipeline[i]] = saved[pipeline[i]]
    BY <2>1, NewHeadOutputs
  <2>3. archives[saved[pipeline[i]]] = NewOutput(i)
    BY <2>1 DEF ScratchInv, OutputsInPlace
  <2> QED
    BY <2>2, <2>3, NewOutputFacts
<1>3. CASE ~(i >= from)
  <2>1. i \in 2 .. from - 1
    BY <1>1, <1>3
  <2>2. saved[pipeline[i]] = 0
    <3>1. SUFFICES ASSUME saved[pipeline[i]] # 0 PROVE FALSE
      OBVIOUS
    <3>2. pipeline[i] \in Library
      BY <1>1
    <3>3. PICK j \in from .. at - 1 : pipeline[j] = pipeline[i]
      BY <3>1, <3>2 DEF ScratchInv, OutputsInPlace
    <3>4. j \in 1 .. Len(pipeline) /\ i \in 1 .. Len(pipeline) /\ j # i
      BY <1>1, <1>3, <3>3
    <3> QED
      BY <1>1, <3>3, <3>4
  <2>3. OutputsOfNewHead[pipeline[i]] = HeadOutput(branch, pipeline[i])
    BY <2>1, <2>2, NewHeadOutputs
  <2> QED
    BY <2>1, <2>3, ReusedHolds
<1> QED
  BY <1>2, <1>3

LEMMA ScratchPutMeta ==
  ASSUME TypeInv, ScratchInv, PutMeta
  PROVE  ScratchInv'
<1>1. /\ pc = "save" /\ pc' = "heading"
      /\ UNCHANGED <<versions, archives, outdir, orphans, branch, pipeline, from,
                     at, saved, commits>>
  BY DEF PutMeta, callVars, boundVars
<1>2. /\ \A i \in from .. Len(pipeline) : outdir[pipeline[i]] = NewOutput(i)
      /\ \A i \in from .. at - 1 : archives[saved[pipeline[i]]] = NewOutput(i)
      /\ \A k \in Library : saved[k] # 0 =>
           \E i \in from .. at - 1 : pipeline[i] = k
  BY <1>1 DEF ScratchInv, OutputsInPlace
<1>3. RecordedFromScratch'
  BY <1>1 DEF ScratchInv, RecordedFromScratch
<1> QED
  BY <1>1, <1>2, <1>3, ScratchEnding

(* The versions after a commit.                                            *)
LEMMA VersionsAfter ==
  ASSUME TypeInv, SetHead
  PROVE  LET w == [pipeline |-> pipeline, outputs |-> OutputsOfNewHead]
         IN  /\ versions' = [versions EXCEPT ![branch] = Append(@, w)]
             /\ \A b \in Branch : b # branch => versions'[b] = versions[b]
             /\ Len(versions[branch]) \in Nat
             /\ Len(versions'[branch]) = Len(versions[branch]) + 1
             /\ versions'[branch][Len(versions[branch]) + 1] = w
             /\ \A n \in 1 .. Len(versions[branch]) :
                  versions'[branch][n] = versions[branch][n]
<1> DEFINE w == [pipeline |-> pipeline, outputs |-> OutputsOfNewHead]
<1>1. w \in Workspace
  <2>1. /\ Len(archives) \in Nat /\ pipeline \in Seq(Key)
        /\ pc = "heading" /\ at > Len(pipeline)
    BY RunningNodes, LenProperties DEF SetHead, TypeInv, TypeOK, CommitPhase
  <2>2. OutputsOfNewHead \in [Library -> Nat]
    BY <2>1, NewHeadOutputs
  <2> QED
    BY <2>1, <2>2 DEF Workspace
<1> HIDE DEF w
<1>2. versions' = [versions EXCEPT ![branch] = Append(@, w)]
  BY DEF SetHead, w
<1>3. /\ branch \in Branch /\ versions \in [Branch -> Seq(Workspace)]
      /\ Len(versions[branch]) \in Nat
  BY LenProperties DEF TypeInv, TypeOK
<1>4. /\ \A b \in Branch : b # branch => versions'[b] = versions[b]
      /\ Len(versions'[branch]) = Len(versions[branch]) + 1
      /\ versions'[branch][Len(versions[branch]) + 1] = w
      /\ \A n \in 1 .. Len(versions[branch]) :
           versions'[branch][n] = versions[branch][n]
  BY <1>1, <1>2, <1>3, AppendProperties
<1> QED
  BY <1>2, <1>3, <1>4 DEF w

LEMMA ScratchSetHead ==
  ASSUME TypeInv, ScratchInv, SetHead
  PROVE  ScratchInv'
<1> DEFINE w == [pipeline |-> pipeline, outputs |-> OutputsOfNewHead]
<1>1. /\ pc = "heading" /\ at > Len(pipeline) /\ pc' = "idle"
      /\ saved' = NothingSaved /\ archives' = archives /\ orphans' = orphans
      /\ outdir' = outdir
  BY DEF SetHead, Return, TypeInv, CommitPhase
<1>2. ASSUME NEW b \in Branch, NEW n \in 1 .. Len(versions'[b])
      PROVE  \/ versions'[b][n] = w
             \/ n \in 1 .. Len(versions[b]) /\ versions'[b][n] = versions[b][n]
  <2>1. CASE b = branch
    <3>1. n = Len(versions[b]) + 1 \/ n \in 1 .. Len(versions[b])
      BY <2>1, VersionsAfter
    <3> QED
      BY <2>1, <3>1, VersionsAfter
  <2>2. CASE b # branch
    BY <2>2, VersionsAfter
  <2> QED
    BY <2>1, <2>2
<1>3. \A i \in 2 .. Len(w.pipeline) :
        Holds(archives[w.outputs[w.pipeline[i]]], Prefix(w.pipeline, i))
  BY <1>1, NewHeadFromScratch
<1> HIDE DEF w
<1>4. RecordedFromScratch'
  <2>1. ASSUME NEW b \in Branch, NEW n \in 1 .. Len(versions'[b]),
               NEW i \in 2 .. Len(versions'[b][n].pipeline)
        PROVE  Holds(archives[versions'[b][n].outputs[versions'[b][n].pipeline[i]]],
                     Prefix(versions'[b][n].pipeline, i))
    <3>1. CASE versions'[b][n] = w
      BY <1>3, <2>1, <3>1
    <3>2. CASE n \in 1 .. Len(versions[b]) /\ versions'[b][n] = versions[b][n]
      <4>1. i \in 2 .. Len(versions[b][n].pipeline)
        BY <3>2
      <4>2. Holds(archives[versions[b][n].outputs[versions[b][n].pipeline[i]]],
                  Prefix(versions[b][n].pipeline, i))
        BY <3>2, <4>1 DEF ScratchInv, RecordedFromScratch
      <4> QED
        BY <3>2, <4>2
    <3> QED
      BY <1>2, <3>1, <3>2
  <2> QED
    BY <1>1, <2>1 DEF RecordedFromScratch
<1>5. OutputsInPlace'
  BY <1>1 DEF ScratchInv, OutputsInPlace, NothingSaved
<1> QED
  BY <1>4, <1>5 DEF ScratchInv

(* No worker is left by a process that ends.                               *)
LEMMA ScratchCrash ==
  ASSUME CleanProcesses, ScratchInv, Crash
  PROVE  ScratchInv'
<1>1. /\ versions' = versions /\ archives' = archives /\ orphans' = orphans
      /\ outdir' = outdir /\ saved' = NothingSaved /\ pc' = "idle"
  BY DEF Crash, Return
<1> QED
  BY <1>1, ScratchIdle

LEMMA ScratchStart ==
  ASSUME ScratchInv, NEW b \in Branch, NEW p \in Pipeline[b], StartCommit(b, p)
  PROVE  ScratchInv'
<1>1. /\ versions' = versions /\ archives' = archives /\ orphans' = orphans
      /\ outdir' = outdir /\ saved' = NothingSaved /\ pc' \in {"idle", "prepare"}
  BY DEF StartCommit, Raise, Return, diskVars
<1> QED
  BY <1>1, ScratchIdle

LEMMA ScratchRaise ==
  ASSUME ScratchInv, NothingToRun \/ CannotPrepare
  PROVE  ScratchInv'
<1>1. /\ versions' = versions /\ archives' = archives /\ orphans' = orphans
      /\ outdir' = outdir /\ saved' = NothingSaved /\ pc' = "idle"
  BY DEF NothingToRun, CannotPrepare, Raise, Return, diskVars
<1> QED
  BY <1>1, ScratchIdle

(* Outputs stay those of runs from scratch in every step, if no worker is  *)
(* left by a process that ends.                                            *)
THEOREM ScratchStep ==
  CleanProcesses /\ NamesFixed /\ TypeInv /\ ScratchInv /\ [Next]_vars
    => ScratchInv'
<1> SUFFICES ASSUME CleanProcesses, NamesFixed, TypeInv, ScratchInv, [Next]_vars
             PROVE  ScratchInv'
  OBVIOUS
<1>1. ASSUME NEW b \in Branch, NEW p \in Pipeline[b], StartCommit(b, p)
      PROVE  ScratchInv'
  BY <1>1, ScratchStart
<1>2. CASE OrphanWrites
  BY <1>2 DEF OrphanWrites, ScratchInv, OutputsInPlace
<1>3. CASE UNCHANGED vars
  <2>1. UNCHANGED <<versions, archives, outdir, orphans, pc, branch, pipeline,
                    from, at, todo, saved, commits>>
    BY <1>3 DEF vars, diskVars, callVars, boundVars
  <2>2. RecordedFromScratch'
    BY <2>1 DEF ScratchInv, RecordedFromScratch
  <2>3. Reused' = Reused
    BY <2>1 DEF Reused, HeadOutput, HeadOf
  <2>4. \A i : NewOutput(i)' = NewOutput(i) /\ NewFile(i)' = NewFile(i)
    BY <2>1 DEF NewOutput, NewFile
  <2>5. NewFile(at)' = NewFile(at)
    BY <2>1 DEF NewFile
  <2>6. OutputsInPlace'
    BY <2>1, <2>3, <2>4, <2>5 DEF ScratchInv, OutputsInPlace
  <2> QED
    BY <2>2, <2>6 DEF ScratchInv
<1> QED
  BY <1>1, <1>2, <1>3, ScratchRaise, ScratchInput, ScratchExtractFile,
     ScratchExtractEnd, ScratchComponentWrites, ScratchComponentDone,
     ScratchReadScore, ScratchSaveOutput, ScratchPutMeta, ScratchSetHead,
     ScratchCrash
     DEF Next, CreatePipeline

------------------------------------------------------------------------------
(* The theorems *)

(* A step that archives a directory archives what a worker of this commit  *)
(* wrote in it, each file whole and made on the outputs of the components  *)
(* before it in the pipeline (trialmanager.py:380), if no worker of an     *)
(* earlier process is left to write there too, and libraries name their    *)
(* files without regard to the dataset.                                    *)
THEOREM SavingIsSound ==
  ASSUME CleanProcesses, NamesFixed
  PROVE  Spec => SavesOnlyNewOutputs
<1> DEFINE New ==
      LET new == archives'[Len(archives')]
      IN  \A n \in FilesIn(new) :
            /\ new[n].whole
            /\ new[n].commit = commits
            /\ new[n].by = Prefix(pipeline, at)
<1>1. TypeInv /\ ScratchInv /\ [Next]_vars =>
        [Len(archives') > Len(archives) => New]_vars
  <2> SUFFICES ASSUME TypeInv, ScratchInv, Next, Len(archives') > Len(archives)
               PROVE  New
    OBVIOUS
  <2>1. archives \in Seq(Directory) /\ Len(archives) \in Nat
    BY LenProperties DEF TypeInv, TypeOK
  <2>2. archives' # archives
    BY <2>1
  <2>3. SaveOutput
    BY <2>2 DEF Next, CreatePipeline, StartCommit, NothingToRun, FetchDataset,
                ExtractBegin, ExtractFile, ExtractEnd, FetchLibraries, CannotPrepare,
                CallComponent, ComponentWrites, ComponentDone, ReadScore, PutMeta,
                SetHead, Crash, OrphanWrites, diskVars
  <2>4. /\ archives' = Append(archives, NewOutput(at))
        /\ NewOutput(at) \in Directory /\ at \in from .. Len(pipeline)
    BY <2>3, SavedIsNew
  <2>5. archives'[Len(archives')] = NewOutput(at)
    BY <2>1, <2>4, AppendProperties
  <2>6. at \in 2 .. Len(pipeline) /\ pc # "idle"
    BY <2>3, <2>4, RunningNodes DEF SaveOutput
  <2>7. \A n \in FilesIn(NewOutput(at)) : NewOutput(at)[n] = NewFile(at)
    BY <2>6, NewOutputFacts
  <2> QED
    BY <2>5, <2>7 DEF NewFile
<1> QED
  BY <1>1, TypeInit, ScratchInit, TypeStep, ScratchStep, PTL
     DEF Spec, SavesOnlyNewOutputs

(* The log of runs from scratch of the pipelines that were committed.      *)
Log ==
  [b \in Branch |->
     [n \in 1 .. Len(versions[b]) |->
        [pipeline |-> versions[b][n].pipeline,
         results |-> ResultsOf(versions[b][n])]]]
ScratchLog(b) ==
  [n \in 1 .. Len(versions[b]) |-> LogView!FromScratch(versions[b][n].pipeline)]
LogFromScratch == Log = [b \in Branch |-> ScratchLog(b)]

LEMMA RecordedLog == TypeInv /\ ScratchInv => LogFromScratch
<1> SUFFICES ASSUME TypeInv, ScratchInv PROVE LogFromScratch
  OBVIOUS
<1>1. ASSUME NEW b \in Branch, NEW n \in 1 .. Len(versions[b])
      PROVE  ResultsOf(versions[b][n]) =
               [i \in 1 .. Len(versions[b][n].pipeline) |->
                  SubSeq(versions[b][n].pipeline, 1, i)]
  <2> DEFINE v == versions[b][n]
  <2>1. v.pipeline \in Pipeline[b]
    BY DEF TypeInv, TypeOK
  <2>2. v.pipeline \in Seq(Key) /\ v.pipeline # <<>> /\ Len(v.pipeline) \in Nat
    BY <2>1, PipelineShape
  <2>3. ASSUME NEW i \in 1 .. Len(v.pipeline)
        PROVE  \/ i = 1
               \/ Holds(archives[v.outputs[v.pipeline[i]]], Prefix(v.pipeline, i))
    <3>1. i = 1 \/ i \in 2 .. Len(v.pipeline)
      BY <2>2
    <3> QED
      BY <3>1 DEF ScratchInv, RecordedFromScratch
  <2> HIDE DEF v
  <2>5. ResultsOf(v) = [i \in 1 .. Len(v.pipeline) |-> SubSeq(v.pipeline, 1, i)]
    BY <2>3 DEF ResultsOf, Prefix
  <2> QED
    BY <2>5 DEF v
<1> QED
  BY <1>1 DEF LogFromScratch, Log, ScratchLog, LogView!FromScratch

(* A new version is a new entry of the log, and the others stay.           *)
LEMMA ScratchLogAppend ==
  ASSUME TypeInv, SetHead, NEW c \in Branch, c = branch
  PROVE  ScratchLog(c)' = Append(ScratchLog(c), LogView!FromScratch(pipeline))
<1> DEFINE k == Len(versions[c])
           e == LogView!FromScratch(pipeline)
           E == {LogView!FromScratch(versions[c][n].pipeline) : n \in 1 .. k}
                  \cup {e}
           old == ScratchLog(c)
<1>1. /\ k \in Nat /\ Len(versions'[c]) = k + 1
      /\ versions'[c][k + 1].pipeline = pipeline
      /\ \A n \in 1 .. k : versions'[c][n] = versions[c][n]
  BY VersionsAfter
<1>2. old \in Seq(E) /\ Len(old) = k
  <2>1. old = [n \in 1 .. k |-> LogView!FromScratch(versions[c][n].pipeline)]
    BY DEF ScratchLog
  <2>2. \A n \in 1 .. k : LogView!FromScratch(versions[c][n].pipeline) \in E
    OBVIOUS
  <2> HIDE DEF k, E, old
  <2> QED
    BY <1>1, <2>1, <2>2
<1>3. /\ Append(old, e) \in Seq(E) /\ Len(Append(old, e)) = k + 1
      /\ \A n \in 1 .. k : Append(old, e)[n] = old[n]
      /\ Append(old, e)[k + 1] = e
  <2>1. e \in E
    OBVIOUS
  <2> HIDE DEF E, e, old, k
  <2> QED
    BY <1>2, <2>1, AppendProperties
<1>4. ScratchLog(c)' =
        [n \in 1 .. k + 1 |-> LogView!FromScratch(versions'[c][n].pipeline)]
  BY <1>1 DEF ScratchLog
<1>5. Append(old, e) =
        [n \in 1 .. k + 1 |-> LogView!FromScratch(versions'[c][n].pipeline)]
  <2>1. /\ \A n \in 1 .. k :
             Append(old, e)[n] = LogView!FromScratch(versions'[c][n].pipeline)
        /\ Append(old, e)[k + 1] =
             LogView!FromScratch(versions'[c][k + 1].pipeline)
    <3>1. \A n \in 1 .. k :
            /\ old[n] = LogView!FromScratch(versions[c][n].pipeline)
            /\ versions'[c][n] = versions[c][n]
      BY <1>1 DEF ScratchLog
    <3> HIDE DEF old, k, E
    <3> QED
      BY <1>1, <1>3, <3>1
  <2>2. Append(old, e) = [n \in 1 .. k + 1 |-> Append(old, e)[n]]
    <3> DEFINE a == Append(old, e)
    <3>1. a \in Seq(E) /\ Len(a) = k + 1
      BY <1>3
    <3> HIDE DEF a, E
    <3>2. a \in [1 .. k + 1 -> E]
      BY <3>1, LenProperties
    <3> QED
      BY <3>2 DEF a
  <2>3. \A n \in 1 .. k + 1 : n \in 1 .. k \/ n = k + 1
    <3> HIDE DEF k
    <3> QED
      BY <1>1
  <2> HIDE DEF old, e, k
  <2>4. \A n \in 1 .. k + 1 :
          Append(old, e)[n] = LogView!FromScratch(versions'[c][n].pipeline)
    BY <2>1, <2>3
  <2> QED
    BY <2>2, <2>4
<1> QED
  BY <1>4, <1>5

LEMMA ScratchLogKept ==
  ASSUME TypeInv, SetHead, NEW c \in Branch, c # branch
  PROVE  ScratchLog(c)' = ScratchLog(c)
  BY VersionsAfter DEF ScratchLog

(* Reuse is sound: whatever was left out, interrupted, extracted or left   *)
(* in a directory, each branch is a log of the pipelines committed to it   *)
(* with the outputs their runs from scratch would have given: the commits  *)
(* implement PipelineLog, when no worker of a process that ended is left   *)
(* and libraries name their files without regard to the dataset.           *)
THEOREM ReuseCorrect ==
  ASSUME CleanProcesses, NamesFixed
  PROVE  Spec => RunsFromScratch
<1>1. Init => LogView!LogInit
  <2> SUFFICES ASSUME Init PROVE LogView!LogInit
    OBVIOUS
  <2>1. \A b \in Branch : versions[b] = <<>> /\ 1 .. Len(versions[b]) = {}
    BY EmptySeq DEF Init
  <2>2. \A b \in Branch :
          [n \in 1 .. Len(versions[b]) |->
             [pipeline |-> versions[b][n].pipeline,
              results |-> ResultsOf(versions[b][n])]] = <<>>
    BY <2>1
  <2> QED
    BY <2>2 DEF LogView!LogInit
<1>2. TypeInv /\ LogFromScratch /\ LogFromScratch' /\ [Next]_vars =>
        [LogView!LogNext]_Log
  <2> SUFFICES ASSUME TypeInv, LogFromScratch, LogFromScratch', [Next]_vars
               PROVE  LogView!LogNext \/ Log' = Log
    OBVIOUS
  <2>1. /\ Log = [b \in Branch |-> ScratchLog(b)]
        /\ Log' = [b \in Branch |-> ScratchLog(b)']
    BY DEF LogFromScratch
  <2>2. CASE SetHead
    <3>1. /\ branch \in Branch /\ pipeline \in Pipeline[branch]
          /\ pc = "heading"
      BY <2>2, RunningNodes DEF SetHead
    <3>2. Log' = [Log EXCEPT ![branch] =
                    Append(@, LogView!FromScratch(pipeline))]
      <4>1. \A c \in Branch :
              ScratchLog(c)' =
                IF c = branch
                  THEN Append(ScratchLog(c), LogView!FromScratch(pipeline))
                  ELSE ScratchLog(c)
        BY <2>2, ScratchLogAppend, ScratchLogKept
      <4>2. Log' = [c \in Branch |->
                      IF c = branch
                        THEN Append(ScratchLog(c), LogView!FromScratch(pipeline))
                        ELSE ScratchLog(c)]
        BY <2>1, <4>1
      <4> QED
        BY <2>1, <4>2
    <3>3. \A n \in 1 .. Len(Log[branch]) : Len(Log[branch][n].pipeline) <= Len(pipeline)
      <4>1. Len(versions[branch]) \in Nat
        BY <3>1, LenProperties DEF TypeInv, TypeOK
      <4>2. \A n \in 1 .. Len(versions[branch]) :
              Len(versions[branch][n].pipeline) <= Len(pipeline)
        BY <3>1 DEF TypeInv, CommitPhase
      <4>3. /\ Len(Log[branch]) = Len(versions[branch])
            /\ \A n \in 1 .. Len(versions[branch]) :
                 Log[branch][n].pipeline = versions[branch][n].pipeline
        BY <3>1, <4>1 DEF Log
      <4> QED
        BY <4>2, <4>3
    <3>4. \E b \in Branch : \E p \in Pipeline[b] :
            /\ \A n \in 1 .. Len(Log[b]) : Len(Log[b][n].pipeline) <= Len(p)
            /\ Log' = [Log EXCEPT ![b] = Append(@, LogView!FromScratch(p))]
      BY <3>1, <3>2, <3>3
    <3> QED
      BY <3>4 DEF LogView!LogNext, LogView!Commit, Log
  <2>3. CASE ~SetHead
    <3>1. versions' = versions
      BY <2>3 DEF Next, CreatePipeline, StartCommit, NothingToRun, FetchDataset,
                  ExtractBegin, ExtractFile, ExtractEnd, FetchLibraries, CannotPrepare,
                  CallComponent, ComponentWrites, ComponentDone, ReadScore,
                  SaveOutput, PutMeta, Crash, OrphanWrites, diskVars, vars
    <3>2. \A b \in Branch : ScratchLog(b)' = ScratchLog(b)
      BY <3>1 DEF ScratchLog
    <3> QED
      BY <2>1, <3>2
  <2> QED
    BY <2>2, <2>3
<1> QED
  BY <1>1, <1>2, TypeInit, ScratchInit, TypeStep, ScratchStep, RecordedLog, PTL
     DEF Spec, RunsFromScratch, LogView!LogSpec, Log
===============================================================================
