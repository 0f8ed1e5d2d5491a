------------------------------ MODULE PacCache ------------------------------
(***************************************************************************)
(* pysrc/pac: the simulator that compares the pipeline-aware worker cache  *)
(* with LRU, LFU and FIFO.  Pipelines are submitted; each of their         *)
(* components asks every cache for a worker with its version, and after    *)
(* the last one the history and the version score matrices (VSM) of the    *)
(* pipeline-aware cache are updated.  A second LRU cache holds one worker  *)
(* more than the first.  Components and versions count from 0, as in the   *)
(* code.  A VSM is a matrix of numerators over one denominator.            *)
(***************************************************************************)
EXTENDS Integers, Sequences, FiniteSets, FiniteSetsExt, SequencesExt

CONSTANTS NumPipelineLength, MaxMajorVersion, MaxMinorVersion,
          WorkerSetSize, HistoryCapacity,
          AlphaNum, AlphaDen,   \* alpha = AlphaNum / AlphaDen
          Pipelines,            \* what may be submitted
          MaxSubmits            \* bound: pipelines submitted in a run

Components == 0 .. NumPipelineLength - 1
Versions == (0 .. MaxMajorVersion) \X (0 .. MaxMinorVersion)

ASSUME PacAssumption ==
  /\ {NumPipelineLength, MaxMajorVersion, MaxMinorVersion, WorkerSetSize,
      HistoryCapacity, AlphaNum, AlphaDen, MaxSubmits} \subseteq Nat
  /\ AlphaNum <= AlphaDen /\ AlphaDen > 0
  /\ Pipelines \subseteq [Components -> Versions]

VARIABLES workers,   \* _worker_set of each cache
          coldStarts,
          frequency, age,          \* the two other lists of the LFU cache
          history, submitted,      \* History._data and what it should hold
          vsms, transformers,
          pipeline, at,            \* the pipeline and its next component
          pointers                 \* of _least_possible_worker

cacheVars == <<workers, coldStarts, frequency, age>>
scoreVars == <<history, submitted, vsms>>
vars == <<cacheVars, scoreVars, transformers, pipeline, at, pointers>>

Lists == {"lru", "lru+1", "fifo", "lfu"}
Caches == Lists \cup {"pac"}
Size(c) == IF c = "lru+1" THEN WorkerSetSize + 1 ELSE WorkerSetSize
Dummy == <<>>
Idle == <<>>

Init ==
  /\ workers = [c \in Caches |-> <<>>]
  /\ coldStarts = [c \in Caches |-> 0]
  /\ frequency = <<>>
  /\ age = <<>>
  /\ history = <<Dummy>>
  /\ submitted = <<>>
  /\ vsms = [f \in Components |->
               [num |-> [v \in Versions |-> 1], den |-> Cardinality(Versions)]]
  /\ transformers \in SUBSET {"sl", "ul"}
  /\ pipeline = Idle
  /\ at = 0
  /\ pointers = Idle

Wanted == <<at, pipeline[at]>>
Hit(c) == Contains(workers[c], Wanted)

(* A cache evicts when it holds more workers than its size: it holds one   *)
(* more than that.                                                         *)
Full(c) == Len(workers[c]) > Size(c)

(* FIFOCache.get leaves the order alone on a hit.                          *)
FifoGet(c) ==
  IF Hit(c) THEN workers[c]
  ELSE Append(IF Full(c) THEN Tail(workers[c]) ELSE workers[c], Wanted)

(* LRUCache.get.  Mutated form: a hit leaves the order alone.              *)
LruGetInPlace(c) == FifoGet(c)
LruGet(c) ==
  Append(IF Hit(c) THEN RemoveFirst(workers[c], Wanted)
         ELSE IF Full(c) THEN Tail(workers[c]) ELSE workers[c], Wanted)

(* The worker LFUCache evicts: the last one with the least frequency per   *)
(* time, both lists being indexed like the worker set.  Mutated form: the  *)
(* time passes on cold starts only.                                        *)
AgedByColdStarts == IF Hit("lfu") THEN age ELSE [i \in 1 .. Len(age) |-> age[i] + 1]
Aged == [i \in 1 .. Len(age) |-> age[i] + 1]
LessUsed(i, j) == frequency[i] * Aged[j] <= frequency[j] * Aged[i]
LfuVictim ==
  Max({i \in 1 .. Len(frequency) :
         \A j \in 1 .. Len(frequency) : LessUsed(i, j)})

(* LFUCache.get.                                                           *)
LfuGet ==
  IF Hit("lfu")
    THEN /\ frequency' = [i \in 1 .. Len(frequency) |->
              frequency[i] + (IF workers["lfu"][i] = Wanted THEN 1 ELSE 0)]
         /\ age' = Aged
    ELSE IF Full("lfu")
    THEN /\ frequency' = Append(RemoveAt(frequency, LfuVictim), 1)
         /\ age' = Append(RemoveAt(Aged, LfuVictim), 1)
    ELSE /\ frequency' = Append(frequency, 1)
         /\ age' = Append(Aged, 1)
LfuWorkers ==
  IF Hit("lfu") THEN workers["lfu"]
  ELSE Append(IF Full("lfu") THEN RemoveAt(workers["lfu"], LfuVictim)
              ELSE workers["lfu"], Wanted)

Submit(p) ==
  /\ pipeline = Idle
  /\ Len(submitted) < MaxSubmits
  /\ pipeline' = p
  /\ at' = 0
  /\ UNCHANGED <<cacheVars, scoreVars, transformers, pointers>>

(* Every cache is asked for a worker; the pipeline-aware one starts to     *)
(* look for a victim when it is full.                                      *)
Asked(c) ==
  CASE c \in {"lru", "lru+1"} -> LruGet(c)
    [] c = "fifo" -> FifoGet(c)
    [] c = "lfu" -> LfuWorkers
    [] c = "pac" -> IF Hit(c) \/ Full(c) THEN workers[c]
                    ELSE Append(workers[c], Wanted)
Get ==
  /\ pipeline # Idle
  /\ at < NumPipelineLength
  /\ pointers = Idle
  /\ LfuGet
  /\ coldStarts' = [c \in Caches |-> coldStarts[c] + (IF Hit(c) THEN 0 ELSE 1)]
  /\ workers' = [c \in Caches |-> Asked(c)]
  /\ IF ~Hit("pac") /\ Full("pac")
       THEN pointers' = [f \in Components |-> 0] /\ UNCHANGED at
       ELSE at' = at + 1 /\ UNCHANGED pointers
  /\ UNCHANGED <<scoreVars, transformers, pipeline>>

(* np.argsort of a VSM: the n-th version by score, from the least; equal   *)
(* scores keep the order of the matrix, as numpy sorts an array this small.*)
(* Mutated form: the greatest score comes first.                           *)
BeforeByGreatest(f, v, w) ==
  LET s == vsms[f].num IN
  s[v] > s[w] \/ (s[v] = s[w] /\ (v[1] < w[1] \/ (v[1] = w[1] /\ v[2] < w[2])))
Before(f, v, w) ==
  LET s == vsms[f].num IN
  s[v] < s[w] \/ (s[v] = s[w] /\ (v[1] < w[1] \/ (v[1] = w[1] /\ v[2] < w[2])))
Ranked(f, n) ==
  CHOOSE v \in Versions : Cardinality({w \in Versions : Before(f, w, v)}) = n

(* Score of version v of component f against that of version w of g.       *)
AtMost(f, v, g, w) == vsms[f].num[v] * vsms[g].den <= vsms[g].num[w] * vsms[f].den

(* The components that have a worker; the others are kept out of the       *)
(* comparison.  Mutated form: they are compared.                           *)
AnyComponent == Components
Present == {workers["pac"][i][1] : i \in 1 .. Len(workers["pac"])}

(* One turn of the loop of _least_possible_worker: the component whose     *)
(* pointer is at the least score, the first of them, offers its version.   *)
Least ==
  LET v == [f \in Components |-> Ranked(f, pointers[f])] IN
  Min({f \in Present : \A g \in Present : AtMost(f, v[f], g, v[g])})
Search ==
  /\ pointers # Idle
  /\ LET w == <<Least, Ranked(Least, pointers[Least])>> IN
     \/ /\ Contains(workers["pac"], w)
        /\ workers' = [workers EXCEPT !["pac"] = Append(RemoveFirst(@, w), Wanted)]
        /\ pointers' = Idle
        /\ at' = at + 1
     \/ /\ ~Contains(workers["pac"], w)
        /\ pointers' = [pointers EXCEPT ![Least] = @ + 1]
        /\ UNCHANGED <<workers, at>>
  /\ UNCHANGED <<coldStarts, frequency, age, scoreVars, transformers, pipeline>>

(* History.append: the dummy that _data starts with counts, so that one    *)
(* pipeline less than the capacity is kept.  Mutated form: the comparison  *)
(* is off by one.                                                          *)
AppendedTooEarly(p) ==
  IF Len(history) + 1 >= HistoryCapacity
    THEN RemoveAt(Append(history, p), 2) ELSE Append(history, p)
Appended(p) ==
  IF Len(history) + 1 > HistoryCapacity
    THEN RemoveAt(Append(history, p), 2) ELSE Append(history, p)

(* VSM.scale_batch; scale_entry is the batch of one version.  Mutated      *)
(* form: the share of each version is not divided by their number.         *)
ScaleWhole(s, V) ==
  IF V = {} THEN s
  ELSE [num |-> [v \in Versions |-> (AlphaDen - AlphaNum) * s.num[v]
                                    + (IF v \in V THEN AlphaNum * s.den ELSE 0)],
        den |-> s.den * AlphaDen]
Scale(s, V) ==
  IF V = {} THEN s
  ELSE LET n == Cardinality(V) IN
       [num |-> [v \in Versions |-> (AlphaDen - AlphaNum) * n * s.num[v]
                                    + (IF v \in V THEN AlphaNum * s.den ELSE 0)],
        den |-> s.den * AlphaDen * n]

(* vsm_transform_sl: the versions a component had in earlier pipelines are *)
(* less likely than all others.                                            *)
TransformSl(scores, h) ==
  IF Len(h) <= 1 THEN scores
  ELSE LET p == h[Len(h)]
           seen(f) == {h[i][f] : i \in 1 .. Len(h) - 1} \ {p[f]}
       IN [f \in Components |-> Scale(scores[f], Versions \ seen(f))]

(* vsm_transform_ul: where one number of a component's version changed     *)
(* since the last pipeline, the version that follows in the other number,  *)
(* which is the one that did not change, becomes more likely, and those of *)
(* the components before the previous one become less likely.  A matrix is *)
(* scaled first in the turn of its own component, then in later turns.     *)
OneChanged(v, w) == (v[1] = w[1]) # (v[2] = w[2])
Following(v, w) ==
  IF v[1] # w[1] THEN <<v[1], 2 * w[2] - v[2]>> ELSE <<2 * w[1] - v[1], v[2]>>
TransformUl(scores, h) ==
  IF Len(h) <= 2 THEN scores
  ELSE LET p == h[Len(h)]
           q == h[Len(h) - 1]
           own(f) == IF OneChanged(p[f], q[f])
                       THEN Scale(scores[f], {Following(p[f], q[f])} \cap Versions)
                       ELSE scores[f]
           later(f) == {k \in f + 2 .. NumPipelineLength - 1 :
                          OneChanged(p[k], q[k])}
       IN [f \in Components |->
             FoldSet(LAMBDA k, s : Scale(s, Versions \ {p[f]}), own(f), later(f))]

(* The end of a pipeline: History.append, then the transformers that the   *)
(* experiment enables.                                                     *)
Update ==
  /\ pipeline # Idle
  /\ at = NumPipelineLength
  /\ history' = Appended(pipeline)
  /\ submitted' = Append(submitted, pipeline)
  /\ LET h == Tail(history')
         afterSl == IF "sl" \in transformers THEN TransformSl(vsms, h) ELSE vsms
     IN vsms' = IF "ul" \in transformers THEN TransformUl(afterSl, h) ELSE afterSl
  /\ pipeline' = Idle
  /\ UNCHANGED <<cacheVars, transformers, at, pointers>>

Next == (\E p \in Pipelines : Submit(p)) \/ Get \/ Search \/ Update

Spec == Init /\ [][Next]_vars
-----------------------------------------------------------------------------
(* The search never runs past the end of a matrix: it ends with a worker,  *)
(* since each turn that finds none moves a pointer.                        *)
TypeOK ==
  /\ \A c \in Caches : Len(workers[c]) \in 0 .. Size(c) + 1
  /\ pipeline \in Pipelines \cup {Idle}
  /\ at \in 0 .. NumPipelineLength
  /\ pointers = Idle \/ pointers \in [Components -> 0 .. Cardinality(Versions) - 1]

(* Each VSM stays a distribution ("ensure grand sum = 1"): the updates     *)
(* move score between versions and create none.                            *)
GrandSumIsOne ==
  \A f \in Components :
    MapThenSumSet(LAMBDA v : vsms[f].num[v], Versions) = vsms[f].den

(* The three lists of the LFU cache stay in step, and no frequency exceeds *)
(* the time: the ratio is at most 1, below the 9999 the search for the     *)
(* victim starts from.                                                     *)
LfuAligned ==
  /\ Len(frequency) = Len(workers["lfu"]) /\ Len(age) = Len(workers["lfu"])
  /\ \A i \in 1 .. Len(age) : 1 <= frequency[i] /\ frequency[i] <= age[i]

(* A larger LRU cache holds what a smaller one holds, and starts no worker *)
(* cold that the smaller one has: the simulator may compare sizes.         *)
LruInclusion ==
  /\ ToSet(workers["lru"]) \subseteq ToSet(workers["lru+1"])
  /\ coldStarts["lru+1"] <= coldStarts["lru"]

(* The history is the latest pipelines in the order of submission.         *)
HistoryIsRecent ==
  LET kept == Min({Len(submitted), HistoryCapacity - 1})
  IN Tail(history) = SubSeq(submitted, Len(submitted) - kept + 1, Len(submitted))

(* The worker that the search over the sorted matrices evicts is one with  *)
(* the least score in the cache.                                           *)
EvictsLeast ==
  [][\A i \in 1 .. Len(workers["pac"]) :
       LET w == workers["pac"][i] IN
       ~Contains(workers'["pac"], w) =>
         \A j \in 1 .. Len(workers["pac"]) :
           LET u == workers["pac"][j] IN AtMost(w[1], w[2], u[1], u[2])]_vars
=============================================================================
