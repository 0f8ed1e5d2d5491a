--------------------------- MODULE PacCache_proofs ---------------------------
(***************************************************************************)
(* The caches of the simulator and the score matrices behind one of them,  *)
(* for every number of components, versions, workers and submissions, and  *)
(* every alpha.                                                            *)
(*                                                                         *)
(* The library states induction with an operator for what is proved, which *)
(* cannot be given here; a set of what is good takes its place.            *)
(***************************************************************************)
EXTENDS PacCache, SequenceTheorems, FiniteSetTheorems, WellFoundedInduction, TLAPS

------------------------------------------------------------------------------
(* Finite sets *)

ChoiceOf(s) == CHOOSE x \in s : TRUE

LEMMA ChoiceIsIn ==
  ASSUME NEW s, s # {}
  PROVE  ChoiceOf(s) \in s
BY DEF ChoiceOf

(* What holds of the empty set, and of a set when it holds of the set      *)
(* without the element that is chosen from it, holds of every finite set.  *)
LEMMA SetsAreGood ==
  ASSUME NEW S, IsFiniteSet(S), NEW Good, {} \in Good,
         \A s \in SUBSET S :
           s # {} /\ s \ {ChoiceOf(s)} \in Good => s \in Good
  PROVE  SUBSET S \subseteq Good
<1>. DEFINE Bad == {s \in SUBSET S : s \notin Good}
<1>1. SUFFICES ASSUME Bad # {} PROVE FALSE
  OBVIOUS
<1>2. Bad \subseteq FiniteSubsetsOf(S)  BY FS_Subset DEF FiniteSubsetsOf
<1>3. PICK s \in Bad : \A t \in Bad : ~(<<t, s>> \in StrictSubsetOrdering(S))
  <2>. HIDE DEF Bad
  <2>. QED  BY <1>1, <1>2, FS_StrictSubsetOrderingWellFounded, WFMin
<1>4. PICK t : t = s \ {ChoiceOf(s)}  OBVIOUS
<1>5. s # {}  OBVIOUS
<1>6. ChoiceOf(s) \in s  BY <1>5, ChoiceIsIn
<1>7. t \in SUBSET S /\ t \subseteq s /\ t # s  BY <1>4, <1>6
<1>8. <<t, s>> \in StrictSubsetOrdering(S)
  BY <1>7 DEF StrictSubsetOrdering
<1>9. t \in Good  BY <1>3, <1>7, <1>8
<1>. QED  BY <1>4, <1>5, <1>9

(* A finite set has a least element under any strict order of it.          *)
LEMMA FiniteLeast ==
  ASSUME NEW T, IsFiniteSet(T), T # {}, NEW R,
         \A i \in T : <<i, i>> \notin R,
         \A i, j, k \in T : <<i, j>> \in R /\ <<j, k>> \in R => <<i, k>> \in R
  PROVE  \E i \in T : \A j \in T : <<j, i>> \notin R
<1>. DEFINE D(i) == {j \in T : <<j, i>> \in R}
            F == {D(i) : i \in T}
<1>1. F # {} /\ F \subseteq FiniteSubsetsOf(T)
  <2>1. F # {}
    <3>1. PICK i \in T : TRUE  OBVIOUS
    <3>2. D(i) \in F  OBVIOUS
    <3>. HIDE DEF F
    <3>. QED  BY <3>2
  <2>2. \A i \in T : D(i) \subseteq T  OBVIOUS
  <2>3. F \subseteq SUBSET T
    <3>1. ASSUME NEW d \in F
          PROVE  d \in SUBSET T
      <4>1. PICK i \in T : d = D(i)  OBVIOUS
      <4>. QED  BY <2>2, <4>1
    <3>. HIDE DEF F
    <3>. QED  BY <3>1
  <2>. HIDE DEF F
  <2>. QED  BY <2>1, <2>3, FS_FiniteSubsetsOfFinite
<1>2. PICK d \in F : \A e \in F : ~(<<e, d>> \in StrictSubsetOrdering(T))
  <2>. HIDE DEF F
  <2>. QED  BY <1>1, FS_StrictSubsetOrderingWellFounded, WFMin
<1>3. PICK i \in T : d = D(i)  OBVIOUS
<1>4. ASSUME NEW j \in T, <<j, i>> \in R
      PROVE  FALSE
  <2>1. D(j) \subseteq D(i)  BY <1>4
  <2>2. j \in D(i) /\ j \notin D(j)  BY <1>4
  <2>3. <<D(j), d>> \in StrictSubsetOrdering(T)
    BY <1>3, <2>1, <2>2 DEF StrictSubsetOrdering
  <2>. QED  BY <1>2, <2>3
<1>. QED  BY <1>4

LEMMA MaxIsIn ==
  ASSUME NEW n \in Nat, NEW T \in SUBSET (1 .. n), T # {}
  PROVE  Max(T) \in T
<1>. DEFINE R == {p \in T \X T : p[1] > p[2]}
<1>1. IsFiniteSet(T)
  <2>1. IsFiniteSet(1 .. n)  BY FS_Interval
  <2>. QED  BY <2>1, FS_Subset
<1>2. \A i, j \in T : <<i, j>> \in R <=> i > j  OBVIOUS
<1>. HIDE DEF R
<1>3. \A i, j \in T : i \in Int /\ j \in Int  OBVIOUS
<1>4. \E i \in T : \A j \in T : <<j, i>> \notin R
  <2>1. \A i \in T : <<i, i>> \notin R  BY <1>2, <1>3
  <2>2. \A i, j, k \in T : <<i, j>> \in R /\ <<j, k>> \in R => <<i, k>> \in R
    BY <1>2, <1>3
  <2>. QED  BY <1>1, <2>1, <2>2, FiniteLeast
<1>5. PICK i \in T : \A j \in T : <<j, i>> \notin R  BY <1>4
<1>6. \A j \in T : ~(j > i)  BY <1>2, <1>5
<1>7. \A j \in T : i >= j  BY <1>3, <1>6
<1>. QED  BY <1>7 DEF Max

LEMMA MinIsIn ==
  ASSUME NEW T, IsFiniteSet(T), T \subseteq Int, T # {}
  PROVE  Min(T) \in T /\ \A y \in T : Min(T) <= y
<1>. DEFINE R == {p \in T \X T : p[1] < p[2]}
<1>1. \A i, j \in T : <<i, j>> \in R <=> i < j  OBVIOUS
<1>. HIDE DEF R
<1>2. \A i, j \in T : i \in Int /\ j \in Int  OBVIOUS
<1>3. \E i \in T : \A j \in T : <<j, i>> \notin R
  <2>1. \A i \in T : <<i, i>> \notin R  BY <1>1, <1>2
  <2>2. \A i, j, k \in T : <<i, j>> \in R /\ <<j, k>> \in R => <<i, k>> \in R
    BY <1>1, <1>2
  <2>. QED  BY <2>1, <2>2, FiniteLeast
<1>4. PICK i \in T : \A j \in T : <<j, i>> \notin R  BY <1>3
<1>5. \A j \in T : ~(j < i)  BY <1>1, <1>4
<1>6. \A j \in T : i <= j  BY <1>2, <1>5
<1>. QED  BY <1>6 DEF Min

------------------------------------------------------------------------------
(* Lists *)

(* RemoveAt takes one element out and keeps the order of the others.       *)
LEMMA RemoveAtElements ==
  ASSUME NEW X, NEW s \in Seq(X), NEW i \in 1 .. Len(s)
  PROVE  /\ RemoveAt(s, i) \in Seq(X)
         /\ Len(RemoveAt(s, i)) = Len(s) - 1
         /\ \A j \in 1 .. Len(s) - 1 :
              RemoveAt(s, i)[j] = IF j < i THEN s[j] ELSE s[j + 1]
<1>1. PICK n \in Nat : n = Len(s)  BY LenProperties
<1>. DEFINE a == SubSeq(s, 1, i - 1)
            b == SubSeq(s, i + 1, Len(s))
<1>2. i \in 1 .. n  BY <1>1
<1>3. /\ a \in Seq(X) /\ Len(a) = i - 1
      /\ \A k \in 1 .. i - 1 : a[k] = s[k]
  <2>1. /\ a = [k \in 1 .. i - 1 |-> s[k]] /\ Len(a) = i - 1
    BY <1>1, <1>2
  <2>2. a \in Seq(X)
    BY <1>1, <1>2, SubSeqProperties
  <2>. QED  BY <2>1, <2>2
<1>4. /\ b \in Seq(X) /\ Len(b) = n - i
      /\ \A k \in 1 .. n - i : b[k] = s[i + k]
  <2>1. b \in Seq(X) /\ Len(b) = n - i
    BY <1>1, <1>2, SubSeqProperties
  <2>2. \A k \in 1 .. n - i : b[k] = s[i + k]
    BY <1>1, <1>2, SubSeqProperties
  <2>. QED  BY <2>1, <2>2
<1>5. RemoveAt(s, i) = a \o b  BY DEF RemoveAt
<1>. HIDE DEF a, b
<1>6. a \o b \in Seq(X) /\ Len(a \o b) = n - 1
  <2>1. a \o b \in Seq(X) /\ Len(a \o b) = Len(a) + Len(b)
    BY <1>3, <1>4, ConcatProperties
  <2>. QED  BY <1>2, <1>3, <1>4, <2>1
<1>7. ASSUME NEW j \in 1 .. n - 1
      PROVE  (a \o b)[j] = IF j < i THEN s[j] ELSE s[j + 1]
  <2>1. CASE j < i
    <3>1. j \in 1 .. Len(a)  BY <1>2, <1>3, <2>1
    <3>2. (a \o b)[j] = a[j]  BY <1>3, <1>4, <3>1, ConcatProperties
    <3>. QED  BY <1>3, <2>1, <3>1, <3>2
  <2>2. CASE ~(j < i)
    <3>1. PICK k \in Nat : k = j - (i - 1)  BY <1>2, <2>2
    <3>2. k \in 1 .. n - i /\ i + k = j + 1  BY <1>2, <2>2, <3>1
    <3>3. (a \o b)[j] = b[k]
      BY <1>2, <1>3, <1>4, <1>6, <2>2, <3>1, ConcatProperties
    <3>. QED  BY <1>4, <2>2, <3>2, <3>3
  <2>. QED  BY <2>1, <2>2
<1>. QED  BY <1>1, <1>5, <1>6, <1>7

(* list.remove: the first of what is equal.                                *)
LEMMA RemoveFirstIsOne ==
  ASSUME NEW X, NEW s \in Seq(X), NEW e, Contains(s, e)
  PROVE  \E i \in 1 .. Len(s) : s[i] = e /\ RemoveFirst(s, e) = RemoveAt(s, i)
<1>. DEFINE I == {i \in 1 .. Len(s) : s[i] = e}
<1>1. RemoveFirst(s, e) = RemoveAt(s, Min(I))
  BY DEF RemoveFirst, SelectInSeq, Contains
<1>2. I # {}  BY DEF Contains
<1>3. Len(s) \in Nat  BY LenProperties
<1>4. IsFiniteSet(I)
  <2>1. IsFiniteSet(1 .. Len(s))  BY <1>3, FS_Interval
  <2>2. I \in SUBSET (1 .. Len(s))  OBVIOUS
  <2>. HIDE DEF I
  <2>. QED  BY <2>1, <2>2, FS_Subset
<1>5. I \subseteq Int  BY <1>3
<1>6. Min(I) \in I
  <2>. HIDE DEF I
  <2>. QED  BY <1>2, <1>4, <1>5, MinIsIn
<1>. QED  BY <1>1, <1>6

LEMMA RemoveFirstElements ==
  ASSUME NEW X, NEW s \in Seq(X), NEW e, Contains(s, e)
  PROVE  /\ RemoveFirst(s, e) \in Seq(X)
         /\ Len(RemoveFirst(s, e)) = Len(s) - 1
         /\ \A x : Contains(RemoveFirst(s, e), x) => Contains(s, x)
         /\ \A x : Contains(s, x) /\ x # e => Contains(RemoveFirst(s, e), x)
<1>1. PICK i \in 1 .. Len(s) :
           s[i] = e /\ RemoveFirst(s, e) = RemoveAt(s, i)
  BY RemoveFirstIsOne
<1>2. PICK n \in Nat : n = Len(s)  BY LenProperties
<1>3. PICK r : r = RemoveFirst(s, e)  OBVIOUS
<1>4. /\ r \in Seq(X) /\ Len(r) = n - 1
      /\ \A j \in 1 .. n - 1 : r[j] = IF j < i THEN s[j] ELSE s[j + 1]
  BY <1>1, <1>2, <1>3, RemoveAtElements
<1>5. ASSUME NEW x, Contains(r, x)
      PROVE  Contains(s, x)
  <2>1. PICK j \in 1 .. n - 1 : r[j] = x  BY <1>4, <1>5 DEF Contains
  <2>2. j \in 1 .. n /\ j + 1 \in 1 .. n  BY <1>2
  <2>. QED  BY <1>2, <1>4, <2>1, <2>2 DEF Contains
<1>6. ASSUME NEW x, Contains(s, x), x # e
      PROVE  Contains(r, x)
  <2>1. PICK k \in 1 .. n : s[k] = x  BY <1>2, <1>6 DEF Contains
  <2>2. k # i  BY <1>1, <1>6, <2>1
  <2>3. CASE k < i
    <3>1. k \in 1 .. n - 1  BY <1>2, <2>3
    <3>2. r[k] = x  BY <1>4, <2>1, <2>3, <3>1
    <3>. QED  BY <1>4, <3>1, <3>2 DEF Contains
  <2>4. CASE k > i
    <3>1. PICK j \in 1 .. n - 1 : j + 1 = k /\ ~(j < i)
      <4>1. k - 1 \in 1 .. n - 1 /\ (k - 1) + 1 = k /\ ~(k - 1 < i)
        BY <1>2, <2>4
      <4>. QED  BY <4>1
    <3>2. r[j] = x  BY <1>4, <2>1, <3>1
    <3>. QED  BY <1>4, <3>1, <3>2 DEF Contains
  <2>. QED  BY <1>2, <2>2, <2>3, <2>4
<1>. QED  BY <1>2, <1>3, <1>4, <1>5, <1>6

LEMMA AppendElements ==
  ASSUME NEW X, NEW s \in Seq(X), NEW e \in X
  PROVE  /\ Append(s, e) \in Seq(X) /\ Len(Append(s, e)) = Len(s) + 1
         /\ Append(s, e)[Len(s) + 1] = e
         /\ \A i \in 1 .. Len(s) : Append(s, e)[i] = s[i]
         /\ \A x : Contains(Append(s, e), x) <=> x = e \/ Contains(s, x)
<1>1. PICK n \in Nat : n = Len(s)  BY LenProperties
<1>2. PICK a : a = Append(s, e)  OBVIOUS
<1>3. /\ a \in Seq(X) /\ Len(a) = n + 1 /\ a[n + 1] = e
      /\ \A i \in 1 .. n : a[i] = s[i]
  BY <1>1, <1>2, AppendProperties
<1>4. \A i : i \in 1 .. n + 1 <=> i \in 1 .. n \/ i = n + 1  OBVIOUS
<1>5. \A x : Contains(a, x) <=> x = e \/ Contains(s, x)
  BY <1>1, <1>3, <1>4 DEF Contains
<1>. QED  BY <1>1, <1>2, <1>3, <1>5

LEMMA TailElements ==
  ASSUME NEW X, NEW s \in Seq(X), Len(s) > 0
  PROVE  /\ Tail(s) \in Seq(X) /\ Len(Tail(s)) = Len(s) - 1
         /\ \A i \in 1 .. Len(s) - 1 : Tail(s)[i] = s[i + 1]
<1>1. s # <<>>  BY EmptySeq
<1>2. /\ Tail(s) \in Seq(X) /\ Len(Tail(s)) = Len(s) - 1
      /\ \A i \in 1 .. Len(Tail(s)) : Tail(s)[i] = s[i + 1]
  BY <1>1, HeadTailProperties
<1>. QED  BY <1>2

------------------------------------------------------------------------------
(* Folds over finite sets: the recursive function that the library's folds *)
(* choose exists.                                                          *)

FoldStep(op, base, g, s) ==
  IF s = {} THEN base ELSE op[<<ChoiceOf(s), g[s \ {ChoiceOf(s)}]>>]

HasFold(op, base, S, X) ==
  \E g \in [SUBSET S -> X] :
    \A s \in SUBSET S : g[s] = FoldStep(op, base, g, s)

LEMMA FoldExists ==
  ASSUME NEW S, IsFiniteSet(S), NEW X, NEW base \in X,
         NEW op \in [S \X X -> X]
  PROVE  HasFold(op, base, S, X)
<1>. DEFINE UpTo(n, g) == \A s \in SUBSET S :
                            Cardinality(s) <= n => g[s] = FoldStep(op, base, g, s)
            Good == {n \in Nat : \E g \in [SUBSET S -> X] : UpTo(n, g)}
<1>1. \A s \in SUBSET S : IsFiniteSet(s) /\ Cardinality(s) \in Nat
  BY FS_Subset, FS_CardinalityType
<1>2. 0 \in Good
  <2>1. PICK g : g = [s \in SUBSET S |-> base]  OBVIOUS
  <2>2. g \in [SUBSET S -> X]  BY <2>1
  <2>3. ASSUME NEW s \in SUBSET S, Cardinality(s) <= 0
        PROVE  g[s] = FoldStep(op, base, g, s)
    <3>1. Cardinality(s) = 0  BY <1>1, <2>3
    <3>2. s = {}  BY <1>1, <3>1, FS_EmptySet
    <3>. QED  BY <2>1, <3>2 DEF FoldStep
  <2>. QED  BY <2>2, <2>3
<1>3. ASSUME NEW n \in Good
      PROVE  n + 1 \in Good
  <2>1. n \in Nat  OBVIOUS
  <2>2. PICK h \in [SUBSET S -> X] : UpTo(n, h)  OBVIOUS
  <2>3. PICK g : g = [s \in SUBSET S |-> FoldStep(op, base, h, s)]  OBVIOUS
  <2>4. \A s \in SUBSET S : s # {} =>
          ChoiceOf(s) \in S /\ s \ {ChoiceOf(s)} \in SUBSET S
    BY ChoiceIsIn
  <2>5. g \in [SUBSET S -> X]
    <3>1. ASSUME NEW s \in SUBSET S
          PROVE  FoldStep(op, base, h, s) \in X
      <4>1. CASE s = {}  BY <4>1 DEF FoldStep
      <4>2. CASE s # {}
        <5>1. h[s \ {ChoiceOf(s)}] \in X  BY <2>2, <2>4, <4>2
        <5>2. <<ChoiceOf(s), h[s \ {ChoiceOf(s)}]>> \in S \X X
          BY <2>4, <4>2, <5>1
        <5>. QED  BY <4>2, <5>2 DEF FoldStep
      <4>. QED  BY <4>1, <4>2
    <3>. QED  BY <2>3, <3>1
  <2>6. ASSUME NEW s \in SUBSET S, Cardinality(s) <= n + 1
        PROVE  g[s] = FoldStep(op, base, g, s)
    <3>1. CASE s = {}  BY <2>3, <3>1 DEF FoldStep
    <3>2. CASE s # {}
      <4>1. PICK t : t = s \ {ChoiceOf(s)}  OBVIOUS
      <4>2. t \in SUBSET S  BY <2>4, <3>2, <4>1
      <4>3. Cardinality(t) = Cardinality(s) - 1
        <5>1. ChoiceOf(s) \in s  BY <3>2, ChoiceIsIn
        <5>. QED  BY <1>1, <4>1, <5>1, FS_RemoveElement
      <4>4. Cardinality(t) <= n  BY <1>1, <2>1, <2>6, <4>2, <4>3
      <4>5. h[t] = FoldStep(op, base, h, t)  BY <2>2, <4>2, <4>4
      <4>6. g[t] = h[t]  BY <2>3, <4>2, <4>5
      <4>7. g[s] = op[<<ChoiceOf(s), h[t]>>]  BY <2>3, <3>2, <4>1 DEF FoldStep
      <4>. QED  BY <3>2, <4>1, <4>6, <4>7 DEF FoldStep
    <3>. QED  BY <3>1, <3>2
  <2>7. UpTo(n + 1, g)  BY <2>6
  <2>. QED  BY <2>1, <2>5, <2>7
<1>4. PICK c \in Nat : c = Cardinality(S)  BY <1>1
<1>5. c \in Good
  <2>. DEFINE Bad == {n \in 0 .. c : n \notin Good}
  <2>1. SUFFICES ASSUME c \notin Good PROVE FALSE
    OBVIOUS
  <2>2. Bad \subseteq Int /\ Bad \subseteq 0 .. c /\ Bad # {}
    <3>1. Bad \subseteq Int /\ Bad \subseteq 0 .. c  OBVIOUS
    <3>2. c \in Bad
      <4>1. c \in 0 .. c  OBVIOUS
      <4>. HIDE DEF Good
      <4>. QED  BY <2>1, <4>1
    <3>. QED  BY <3>1, <3>2
  <2>3. IsFiniteSet(Bad)
    <3>1. IsFiniteSet(0 .. c)  BY FS_Interval
    <3>. HIDE DEF Bad
    <3>. QED  BY <2>2, <3>1, FS_Subset
  <2>4. PICK n \in Bad : \A m \in Bad : n <= m
    <3>. HIDE DEF Bad
    <3>. QED  BY <2>2, <2>3, MinIsIn
  <2>5. n \in 0 .. c /\ n \notin Good  OBVIOUS
  <2>6. n # 0  BY <1>2, <2>5
  <2>7. PICK m \in 0 .. c : m + 1 = n
    <3>1. n - 1 \in 0 .. c /\ (n - 1) + 1 = n  BY <2>5, <2>6
    <3>. QED  BY <3>1
  <2>8. m \notin Bad
    <3>1. \A j \in Bad : j \in Int  BY <2>2
    <3>. HIDE DEF Bad
    <3>2. ~(n <= m)  BY <2>5, <2>7
    <3>. QED  BY <2>4, <3>2
  <2>9. m \in Good
    <3>. HIDE DEF Good
    <3>. QED  BY <2>8
  <2>. HIDE DEF Good, Bad
  <2>. QED  BY <1>3, <2>5, <2>7, <2>9
<1>6. PICK g \in [SUBSET S -> X] : UpTo(Cardinality(S), g)  BY <1>4, <1>5
<1>7. \A s \in SUBSET S : Cardinality(s) <= Cardinality(S)  BY FS_Subset
<1>. QED  BY <1>6, <1>7 DEF HasFold

------------------------------------------------------------------------------
(* The grand sum of a matrix *)

SumOver(num) == MapThenSumSet(LAMBDA v : num[v], Versions)

LEMMA Sizes ==
  /\ {NumPipelineLength, MaxMajorVersion, MaxMinorVersion, WorkerSetSize,
      HistoryCapacity, AlphaNum, AlphaDen, MaxSubmits} \subseteq Nat
  /\ AlphaDen - AlphaNum \in Nat /\ AlphaDen \in Nat \ {0}
  /\ AlphaNum \in Nat
  /\ WorkerSetSize \in Nat /\ NumPipelineLength \in Nat
BY PacAssumption

LEMMA VersionsAreFinite ==
  /\ IsFiniteSet(Versions)
  /\ Cardinality(Versions) \in Nat \ {0}
  /\ \A v \in Versions : v = <<v[1], v[2]>> /\ v[1] \in Nat /\ v[2] \in Nat
<1>1. IsFiniteSet(0 .. MaxMajorVersion) /\ IsFiniteSet(0 .. MaxMinorVersion)
  BY PacAssumption, FS_Interval
<1>2. IsFiniteSet(Versions)  BY <1>1, FS_Product DEF Versions
<1>3. <<0, 0>> \in Versions  BY PacAssumption DEF Versions
<1>4. Cardinality(Versions) \in Nat  BY <1>2, FS_CardinalityType
<1>5. Cardinality(Versions) # 0  BY <1>2, <1>3, FS_EmptySet
<1>6. \A v \in Versions : v = <<v[1], v[2]>> /\ v[1] \in Nat /\ v[2] \in Nat
  BY DEF Versions
<1>. QED  BY <1>2, <1>4, <1>5, <1>6

(* Partial sums of a matrix.                                               *)
LEMMA SumExists ==
  ASSUME NEW num \in [Versions -> Nat]
  PROVE  \E g \in [SUBSET Versions -> Nat] :
           /\ g[{}] = 0
           /\ \A s \in SUBSET Versions :
                s # {} => g[s] = num[ChoiceOf(s)] + g[s \ {ChoiceOf(s)}]
           /\ SumOver(num) = g[Versions]
<1>. DEFINE op == [p \in Versions \X Nat |-> num[p[1]] + p[2]]
            Iter(g) == g = [s \in SUBSET Versions |->
                              IF s = {} THEN 0
                              ELSE num[CHOOSE x \in s : TRUE]
                                   + g[s \ {CHOOSE x \in s : TRUE}]]
<1>1. op \in [Versions \X Nat -> Nat]
  <2>1. \A p \in Versions \X Nat : p[1] \in Versions /\ p[2] \in Nat  OBVIOUS
  <2>2. \A p \in Versions \X Nat : num[p[1]] \in Nat  BY <2>1
  <2>3. \A p \in Versions \X Nat : num[p[1]] + p[2] \in Nat  BY <2>1, <2>2
  <2>. QED  BY <2>3
<1>2. PICK h \in [SUBSET Versions -> Nat] :
           \A s \in SUBSET Versions : h[s] = FoldStep(op, 0, h, s)
  <2>1. IsFiniteSet(Versions) /\ 0 \in Nat  BY VersionsAreFinite
  <2>. HIDE DEF op
  <2>2. HasFold(op, 0, Versions, Nat)  BY <1>1, <2>1, FoldExists
  <2>. QED  BY <2>2 DEF HasFold
<1>3. \A s \in SUBSET Versions :
        s # {} => ChoiceOf(s) \in Versions /\ s \ {ChoiceOf(s)} \in SUBSET Versions
  BY ChoiceIsIn
<1>4. ASSUME NEW s \in SUBSET Versions
      PROVE  h[s] = IF s = {} THEN 0
                    ELSE num[ChoiceOf(s)] + h[s \ {ChoiceOf(s)}]
  <2>1. CASE s = {}  BY <1>2, <2>1 DEF FoldStep
  <2>2. CASE s # {}
    <3>1. h[s] = op[<<ChoiceOf(s), h[s \ {ChoiceOf(s)}]>>]
      BY <1>2, <2>2 DEF FoldStep
    <3>2. PICK t \in SUBSET Versions, c \in Versions :
               t = s \ {ChoiceOf(s)} /\ c = ChoiceOf(s)
      BY <1>3, <2>2
    <3>3. op[<<c, h[t]>>] = num[c] + h[t]  OBVIOUS
    <3>. QED  BY <2>2, <3>1, <3>2, <3>3
  <2>. QED  BY <2>1, <2>2
<1>5. Iter(h)  BY <1>4 DEF ChoiceOf
<1>6. PICK g : g = CHOOSE i : Iter(i)  OBVIOUS
<1>7. Iter(g)
  <2>. HIDE DEF Iter
  <2>. QED  BY <1>5, <1>6, Zenon
<1>8. SumOver(num) = g[Versions]
  BY <1>6, Zenon DEF SumOver, MapThenSumSet, MapThenFoldSet
<1>9. /\ g[{}] = 0
      /\ \A s \in SUBSET Versions :
           s # {} => g[s] = num[ChoiceOf(s)] + g[s \ {ChoiceOf(s)}]
  BY <1>7 DEF ChoiceOf
<1>10. g \in [SUBSET Versions -> Nat]
  <2>. DEFINE Good == {s \in SUBSET Versions : g[s] \in Nat}
  <2>1. {} \in Good  BY <1>9
  <2>2. ASSUME NEW s \in SUBSET Versions, s # {}, s \ {ChoiceOf(s)} \in Good
        PROVE  s \in Good
    <3>1. g[s \ {ChoiceOf(s)}] \in Nat  BY <2>2
    <3>2. num[ChoiceOf(s)] \in Nat  BY <1>3, <2>2
    <3>3. g[s] = num[ChoiceOf(s)] + g[s \ {ChoiceOf(s)}]  BY <1>9, <2>2
    <3>4. g[s] \in Nat  BY <3>1, <3>2, <3>3
    <3>. QED  BY <3>4
  <2>3. SUBSET Versions \subseteq Good
    <3>. HIDE DEF Good
    <3>. QED  BY <2>1, <2>2, VersionsAreFinite, SetsAreGood
  <2>4. \A s \in SUBSET Versions : g[s] \in Nat  BY <2>3
  <2>. QED  BY <1>7, <2>4
<1>. QED  BY <1>8, <1>9, <1>10

(* The sum is linear in the matrix.                                        *)
LEMMA SumIsLinear ==
  ASSUME NEW k \in Nat, NEW b \in Nat, NEW V \in SUBSET Versions,
         NEW old \in [Versions -> Nat], NEW new \in [Versions -> Nat],
         \A v \in Versions : new[v] = k * old[v] + (IF v \in V THEN b ELSE 0)
  PROVE  SumOver(new) = k * SumOver(old) + b * Cardinality(V)
<1>1. PICK g \in [SUBSET Versions -> Nat] :
           /\ g[{}] = 0
           /\ \A s \in SUBSET Versions :
                s # {} => g[s] = old[ChoiceOf(s)] + g[s \ {ChoiceOf(s)}]
           /\ SumOver(old) = g[Versions]
  BY SumExists
<1>2. PICK h \in [SUBSET Versions -> Nat] :
           /\ h[{}] = 0
           /\ \A s \in SUBSET Versions :
                s # {} => h[s] = new[ChoiceOf(s)] + h[s \ {ChoiceOf(s)}]
           /\ SumOver(new) = h[Versions]
  BY SumExists
<1>. DEFINE Good == {s \in SUBSET Versions :
                       h[s] = k * g[s] + b * Cardinality(s \cap V)}
<1>3. {} \in Good
  <2>1. Cardinality({} \cap V) = 0
    <3>1. {} \cap V = {}  OBVIOUS
    <3>. QED  BY <3>1, FS_EmptySet
  <2>. QED  BY <1>1, <1>2, <2>1
<1>4. ASSUME NEW s \in SUBSET Versions, s # {}, s \ {ChoiceOf(s)} \in Good
      PROVE  s \in Good
  <2>1. PICK c \in Versions : c = ChoiceOf(s) /\ c \in s  BY <1>4, ChoiceIsIn
  <2>2. PICK t \in SUBSET Versions : t = s \ {c}  OBVIOUS
  <2>3. PICK x \in Nat, y \in Nat :
             x = Cardinality(s \cap V) /\ y = Cardinality(t \cap V)
    <3>1. IsFiniteSet(s \cap V) /\ IsFiniteSet(t \cap V)
      BY VersionsAreFinite, FS_Subset
    <3>2. Cardinality(s \cap V) \in Nat /\ Cardinality(t \cap V) \in Nat
      BY <3>1, FS_CardinalityType
    <3>. QED  BY <3>2
  <2>4. x = IF c \in V THEN y + 1 ELSE y
    <3>1. IsFiniteSet(s \cap V)  BY VersionsAreFinite, FS_Subset
    <3>2. CASE c \in V
      <4>1. t \cap V = (s \cap V) \ {c} /\ c \in s \cap V  BY <2>1, <2>2, <3>2
      <4>2. PICK z : z = s \cap V  OBVIOUS
      <4>3. Cardinality(z \ {c}) = Cardinality(z) - 1
        BY <3>1, <4>1, <4>2, FS_RemoveElement
      <4>4. y = x - 1  BY <2>3, <4>1, <4>2, <4>3
      <4>. QED  BY <2>3, <3>2, <4>4
    <3>3. CASE c \notin V
      <4>1. t \cap V = s \cap V  BY <2>2, <3>3
      <4>. QED  BY <2>3, <3>3, <4>1
    <3>. QED  BY <3>2, <3>3
  <2>5. PICK p \in Nat, q \in Nat, m \in Nat, n \in Nat :
             p = g[t] /\ q = old[c] /\ m = h[t] /\ n = new[c]
    OBVIOUS
  <2>6. m = k * p + b * y
    <3>1. t \in Good  BY <1>4, <2>1, <2>2
    <3>. QED  BY <2>3, <2>5, <3>1
  <2>7. n = k * q + (IF c \in V THEN b ELSE 0)  BY <2>5
  <2>8. g[s] = q + p /\ h[s] = n + m  BY <1>1, <1>2, <1>4, <2>1, <2>2, <2>5
  <2>9. n + m = k * (q + p) + b * x
    <3>. HIDE DEF Good
    <3>1. k * (q + p) = k * q + k * p  BY SMT
    <3>2. b * (y + 1) = b * y + b  BY SMT
    <3>. QED  BY <2>4, <2>6, <2>7, <3>1, <3>2
  <2>. QED  BY <2>3, <2>8, <2>9
<1>5. SUBSET Versions \subseteq Good
  <2>. HIDE DEF Good
  <2>. QED  BY <1>3, <1>4, VersionsAreFinite, SetsAreGood
<1>6. Versions \in Good /\ Versions \cap V = V
  <2>. HIDE DEF Good
  <2>. QED  BY <1>5
<1>. QED  BY <1>1, <1>2, <1>6

------------------------------------------------------------------------------
(* Version score matrices *)

Dist == {s \in [num : [Versions -> Nat], den : Nat \ {0}] : SumOver(s.num) = s.den}

(* VSM.scale_batch moves score and creates none: what all versions lose,   *)
(* alpha of it, the n scaled ones get in equal shares.                     *)
LEMMA ScaleIsDist ==
  ASSUME NEW s \in Dist, NEW V \in SUBSET Versions
  PROVE  Scale(s, V) \in Dist
<1>1. CASE V = {}  BY <1>1 DEF Scale
<1>2. CASE V # {}
  <2>1. PICK n \in Nat \ {0} : n = Cardinality(V)
    <3>1. IsFiniteSet(V)  BY VersionsAreFinite, FS_Subset
    <3>2. Cardinality(V) \in Nat  BY <3>1, FS_CardinalityType
    <3>3. Cardinality(V) # 0  BY <1>2, <3>1, FS_EmptySet
    <3>. QED  BY <3>2, <3>3
  <2>2. PICK num \in [Versions -> Nat], den \in Nat \ {0} :
             /\ num = s.num /\ den = s.den /\ SumOver(num) = den
    BY DEF Dist
  <2>3. PICK a \in Nat, m \in Nat, z \in Nat \ {0} :
             a = AlphaNum /\ m = AlphaDen - AlphaNum /\ z = AlphaDen /\ a + m = z
    BY Sizes
  <2>4. PICK k \in Nat, b \in Nat : k = m * n /\ b = a * den
    BY <2>1, <2>2, <2>3, SMT
  <2>5. PICK new : new = [v \in Versions |->
             m * n * num[v] + (IF v \in V THEN a * den ELSE 0)]
    OBVIOUS
  <2>6. Scale(s, V) = [num |-> new, den |-> den * z * n]
    BY <1>2, <2>1, <2>2, <2>3, <2>5 DEF Scale
  <2>7. ASSUME NEW v \in Versions
        PROVE  /\ new[v] = k * num[v] + (IF v \in V THEN b ELSE 0)
               /\ new[v] \in Nat
    <3>1. PICK x \in Nat : x = num[v]  BY <2>2
    <3>2. PICK y \in Nat : y = k * x  BY SMT
    <3>3. new[v] = y + (IF v \in V THEN b ELSE 0)  BY <2>4, <2>5, <3>1, <3>2
    <3>. QED  BY <3>1, <3>2, <3>3
  <2>8. new \in [Versions -> Nat]  BY <2>5, <2>7
  <2>9. SumOver(new) = k * SumOver(num) + b * Cardinality(V)
    BY <2>7, <2>8, SumIsLinear
  <2>10. SumOver(new) = m * n * den + a * den * n
    BY <2>1, <2>2, <2>4, <2>9
  <2>11. m * n * den + a * den * n = den * z * n
    <3>1. (a + m) * (den * n) = a * (den * n) + m * (den * n)  BY SMT
    <3>. QED  BY <2>3, <3>1, SMT
  <2>12. den * z * n \in Nat \ {0}
    <3>1. den * z \in Nat \ {0}  BY SMT
    <3>. QED  BY <3>1, SMT
  <2>. QED  BY <2>6, <2>8, <2>10, <2>11, <2>12 DEF Dist
<1>. QED  BY <1>1, <1>2

ScaledOnceFor(T, o, V) == FoldSet(LAMBDA k, s : Scale(s, V), o, T)

LEMMA ScalesAreDist ==
  ASSUME NEW s \in Dist, NEW V \in SUBSET Versions, NEW T, IsFiniteSet(T)
  PROVE  ScaledOnceFor(T, s, V) \in Dist
<1>. DEFINE op == [p \in T \X Dist |-> Scale(p[2], V)]
            Iter(g) == g = [t \in SUBSET T |->
                              IF t = {} THEN s
                              ELSE Scale(g[t \ {CHOOSE x \in t : TRUE}], V)]
<1>1. op \in [T \X Dist -> Dist]
  <2>1. \A p \in T \X Dist : p[2] \in Dist  OBVIOUS
  <2>2. \A p \in T \X Dist : Scale(p[2], V) \in Dist  BY <2>1, ScaleIsDist
  <2>. QED  BY <2>2
<1>2. PICK h \in [SUBSET T -> Dist] :
           \A t \in SUBSET T : h[t] = FoldStep(op, s, h, t)
  <2>. HIDE DEF op
  <2>1. HasFold(op, s, T, Dist)  BY <1>1, FoldExists
  <2>. QED  BY <2>1 DEF HasFold
<1>3. \A t \in SUBSET T : t # {} => ChoiceOf(t) \in T /\ t \ {ChoiceOf(t)} \in SUBSET T
  BY ChoiceIsIn
<1>4. ASSUME NEW t \in SUBSET T
      PROVE  h[t] = IF t = {} THEN s ELSE Scale(h[t \ {ChoiceOf(t)}], V)
  <2>1. CASE t = {}  BY <1>2, <2>1 DEF FoldStep
  <2>2. CASE t # {}
    <3>1. h[t] = op[<<ChoiceOf(t), h[t \ {ChoiceOf(t)}]>>]
      BY <1>2, <2>2 DEF FoldStep
    <3>2. PICK u \in SUBSET T, c \in T :
               u = t \ {ChoiceOf(t)} /\ c = ChoiceOf(t)
      BY <1>3, <2>2
    <3>3. op[<<c, h[u]>>] = Scale(h[u], V)  OBVIOUS
    <3>. QED  BY <2>2, <3>1, <3>2, <3>3
  <2>. QED  BY <2>1, <2>2
<1>5. Iter(h)  BY <1>4 DEF ChoiceOf
<1>6. PICK g : g = CHOOSE i : Iter(i)  OBVIOUS
<1>7. Iter(g)
  <2>. HIDE DEF Iter
  <2>. QED  BY <1>5, <1>6, Zenon
<1>8. ScaledOnceFor(T, s, V) = g[T]
  BY <1>6, Zenon DEF ScaledOnceFor, FoldSet, MapThenFoldSet
<1>9. /\ g[{}] = s
      /\ \A t \in SUBSET T : t # {} => g[t] = Scale(g[t \ {ChoiceOf(t)}], V)
  BY <1>7 DEF ChoiceOf
<1>. DEFINE Good == {t \in SUBSET T : g[t] \in Dist}
<1>10. {} \in Good  BY <1>9
<1>11. ASSUME NEW t \in SUBSET T, t # {}, t \ {ChoiceOf(t)} \in Good
       PROVE  t \in Good
  <2>1. g[t \ {ChoiceOf(t)}] \in Dist  BY <1>11
  <2>2. Scale(g[t \ {ChoiceOf(t)}], V) \in Dist  BY <2>1, ScaleIsDist
  <2>. QED  BY <1>9, <1>11, <2>2
<1>12. SUBSET T \subseteq Good
  <2>. HIDE DEF Good
  <2>. QED  BY <1>10, <1>11, SetsAreGood
<1>13. g[T] \in Dist  BY <1>12
<1>. QED  BY <1>8, <1>13

(* vsm_transform_sl and vsm_transform_ul keep distributions.               *)
LEMMA TransformSlIsDist ==
  ASSUME NEW scores \in [Components -> Dist], NEW h
  PROVE  TransformSl(scores, h) \in [Components -> Dist]
<1>. DEFINE p == h[Len(h)]
            seen(f) == {h[i][f] : i \in 1 .. Len(h) - 1} \ {p[f]}
<1>1. ASSUME NEW f \in Components
      PROVE  Scale(scores[f], Versions \ seen(f)) \in Dist
  <2>1. Versions \ seen(f) \in SUBSET Versions /\ scores[f] \in Dist  OBVIOUS
  <2>. HIDE DEF seen
  <2>. QED  BY <2>1, ScaleIsDist
<1>2. [f \in Components |-> Scale(scores[f], Versions \ seen(f))]
        \in [Components -> Dist]
  <2>. HIDE DEF seen
  <2>. QED  BY <1>1
<1>3. CASE Len(h) <= 1  BY <1>3 DEF TransformSl
<1>4. CASE ~(Len(h) <= 1)  BY <1>2, <1>4, Zenon DEF TransformSl
<1>. QED  BY <1>3, <1>4

LEMMA TransformUlIsDist ==
  ASSUME NEW scores \in [Components -> Dist], NEW h
  PROVE  TransformUl(scores, h) \in [Components -> Dist]
<1>. DEFINE p == h[Len(h)]
            q == h[Len(h) - 1]
            own(f) == IF OneChanged(p[f], q[f])
                        THEN Scale(scores[f], {Following(p[f], q[f])} \cap Versions)
                        ELSE scores[f]
            later(f) == {k \in f + 2 .. NumPipelineLength - 1 :
                           OneChanged(p[k], q[k])}
            all(f) == FoldSet(LAMBDA k, s : Scale(s, Versions \ {p[f]}),
                              own(f), later(f))
<1>1. ASSUME NEW f \in Components
      PROVE  all(f) \in Dist
  <2>1. own(f) \in Dist
    <3>1. scores[f] \in Dist  OBVIOUS
    <3>2. {Following(p[f], q[f])} \cap Versions \in SUBSET Versions  OBVIOUS
    <3>3. Scale(scores[f], {Following(p[f], q[f])} \cap Versions) \in Dist
      BY <3>1, <3>2, ScaleIsDist
    <3>. QED  BY <3>1, <3>3
  <2>2. IsFiniteSet(later(f))
    <3>1. f + 2 \in Int /\ NumPipelineLength - 1 \in Int
      BY Sizes DEF Components
    <3>2. IsFiniteSet(f + 2 .. NumPipelineLength - 1)  BY <3>1, FS_Interval
    <3>3. later(f) \in SUBSET (f + 2 .. NumPipelineLength - 1)  OBVIOUS
    <3>. HIDE DEF later
    <3>. QED  BY <3>2, <3>3, FS_Subset
  <2>3. Versions \ {p[f]} \in SUBSET Versions  OBVIOUS
  <2>. HIDE DEF own, later, p
  <2>4. ScaledOnceFor(later(f), own(f), Versions \ {p[f]}) \in Dist
    BY <2>1, <2>2, <2>3, ScalesAreDist
  <2>. QED  BY <2>4, Zenon DEF ScaledOnceFor
<1>2. [f \in Components |-> all(f)] \in [Components -> Dist]
  <2>. HIDE DEF all
  <2>. QED  BY <1>1
<1>3. CASE Len(h) <= 2  BY <1>3 DEF TransformUl
<1>4. CASE ~(Len(h) <= 2)  BY <1>2, <1>4, Zenon DEF TransformUl
<1>. QED  BY <1>3, <1>4

------------------------------------------------------------------------------
(* Least ratios and ranks *)

LEMMA RatiosAreTransitive ==
  ASSUME NEW a \in Nat, NEW b \in Nat, NEW c \in Nat,
         NEW x \in Nat \ {0}, NEW y \in Nat \ {0}, NEW z \in Nat \ {0},
         a * y < b * x, b * z < c * y
  PROVE  a * z < c * x
<1>1. (a * y) * z < (b * x) * z  BY SMT
<1>2. (b * z) * x < (c * y) * x  BY SMT
<1>3. (b * x) * z = (b * z) * x  BY SMT
<1>4. (a * y) * z < (c * y) * x  BY <1>1, <1>2, <1>3, SMT
<1>5. (a * z) * y < (c * x) * y  BY <1>4, SMT
<1>. QED  BY <1>5, SMT

LEMMA RatioLeast ==
  ASSUME NEW T, IsFiniteSet(T), T # {},
         NEW p \in [T -> Nat], NEW q \in [T -> Nat \ {0}]
  PROVE  \E i \in T : \A j \in T : p[i] * q[j] <= p[j] * q[i]
<1>. DEFINE R == {r \in T \X T : p[r[1]] * q[r[2]] < p[r[2]] * q[r[1]]}
<1>1. \A i, j \in T : <<i, j>> \in R <=> p[i] * q[j] < p[j] * q[i]  OBVIOUS
<1>. HIDE DEF R
<1>2. \A i, j \in T : p[i] * q[j] \in Nat
  <2>1. TAKE i, j \in T
  <2>2. PICK x \in Nat, y \in Nat : x = p[i] /\ y = q[j]  OBVIOUS
  <2>3. x * y \in Nat  BY SMT
  <2>. QED  BY <2>2, <2>3
<1>3. \A i \in T : <<i, i>> \notin R  BY <1>1, <1>2
<1>4. ASSUME NEW i \in T, NEW j \in T, NEW k \in T,
             <<i, j>> \in R, <<j, k>> \in R
      PROVE  <<i, k>> \in R
  <2>1. PICK a \in Nat, b \in Nat, c \in Nat : a = p[i] /\ b = p[j] /\ c = p[k]
    OBVIOUS
  <2>2. PICK x \in Nat \ {0}, y \in Nat \ {0}, z \in Nat \ {0} :
             x = q[i] /\ y = q[j] /\ z = q[k]
    OBVIOUS
  <2>3. a * y < b * x /\ b * z < c * y  BY <1>1, <1>4, <2>1, <2>2
  <2>4. a * z < c * x  BY <2>3, RatiosAreTransitive
  <2>. QED  BY <1>1, <2>1, <2>2, <2>4
<1>5. PICK i \in T : \A j \in T : <<j, i>> \notin R
  BY <1>3, <1>4, FiniteLeast
<1>6. \A j \in T : ~(p[j] * q[i] < p[i] * q[j])  BY <1>1, <1>5
<1>7. \A j \in T : p[i] * q[j] <= p[j] * q[i]  BY <1>2, <1>6
<1>. QED  BY <1>7

BeforeIn(num, v, w) ==
  num[v] < num[w] \/ (num[v] = num[w] /\ (v[1] < w[1] \/ (v[1] = w[1] /\ v[2] < w[2])))
BelowIn(num, v) == {w \in Versions : BeforeIn(num, w, v)}
RankIn(num, v) == Cardinality(BelowIn(num, v))

(* The order that argsort puts the versions in is total, so that each      *)
(* place of the sorted matrix has one version.                             *)
LEMMA BeforeRanksLower ==
  ASSUME NEW num \in [Versions -> Nat], NEW v \in Versions, NEW w \in Versions,
         BeforeIn(num, v, w)
  PROVE  RankIn(num, v) < RankIn(num, w)
<1>1. IsFiniteSet(BelowIn(num, v)) /\ IsFiniteSet(BelowIn(num, w))
  <2>1. BelowIn(num, v) \in SUBSET Versions /\ BelowIn(num, w) \in SUBSET Versions
    BY DEF BelowIn
  <2>. QED  BY <2>1, VersionsAreFinite, FS_Subset
<1>2. RankIn(num, v) \in Nat /\ RankIn(num, w) \in Nat
  BY <1>1, FS_CardinalityType DEF RankIn
<1>3. v \in BelowIn(num, w) /\ v \notin BelowIn(num, v)
  <2>1. ~BeforeIn(num, v, v)
    <3>1. num[v] \in Nat /\ v[1] \in Nat /\ v[2] \in Nat  BY VersionsAreFinite
    <3>. QED  BY <3>1 DEF BeforeIn
  <2>. QED  BY <2>1 DEF BelowIn
<1>4. ASSUME NEW u \in BelowIn(num, v)
      PROVE  u \in BelowIn(num, w)
  <2>1. u \in Versions /\ BeforeIn(num, u, v)  BY DEF BelowIn
  <2>2. PICK a \in Nat, b \in Nat, c \in Nat :
             a = num[u] /\ b = num[v] /\ c = num[w]
    BY <2>1
  <2>3. /\ u[1] \in Nat /\ u[2] \in Nat /\ v[1] \in Nat /\ v[2] \in Nat
        /\ w[1] \in Nat /\ w[2] \in Nat
    BY <2>1, VersionsAreFinite
  <2>4. BeforeIn(num, u, w)  BY <2>1, <2>2, <2>3 DEF BeforeIn
  <2>. QED  BY <2>1, <2>4 DEF BelowIn
<1>5. BelowIn(num, v) \in SUBSET BelowIn(num, w)
  BY <1>4
<1>6. /\ Cardinality(BelowIn(num, v)) <= Cardinality(BelowIn(num, w))
      /\ Cardinality(BelowIn(num, w)) = Cardinality(BelowIn(num, v))
           => BelowIn(num, w) = BelowIn(num, v)
  BY <1>1, <1>5, FS_Subset
<1>7. RankIn(num, v) <= RankIn(num, w) /\ RankIn(num, v) # RankIn(num, w)
  BY <1>3, <1>6 DEF RankIn
<1>. QED  BY <1>2, <1>7

Ranking(num) ==
  /\ \A v \in Versions : RankIn(num, v) \in 0 .. Cardinality(Versions) - 1
  /\ \A v, w \in Versions : RankIn(num, v) = RankIn(num, w) => v = w
  /\ \A v, w \in Versions : RankIn(num, v) <= RankIn(num, w) => num[v] <= num[w]
  /\ \A n \in 0 .. Cardinality(Versions) - 1 : \E v \in Versions : RankIn(num, v) = n

LEMMA RankingIsTotal ==
  ASSUME NEW num \in [Versions -> Nat]
  PROVE  Ranking(num)
<1>1. PICK N \in Nat \ {0} : N = Cardinality(Versions)  BY VersionsAreFinite
<1>2. ASSUME NEW v \in Versions
      PROVE  RankIn(num, v) \in 0 .. N - 1
  <2>1. BelowIn(num, v) \in SUBSET (Versions \ {v})
    <3>1. ~BeforeIn(num, v, v)
      <4>1. num[v] \in Nat /\ v[1] \in Nat /\ v[2] \in Nat  BY VersionsAreFinite
      <4>. QED  BY <4>1 DEF BeforeIn
    <3>. QED  BY <3>1 DEF BelowIn
  <2>2. IsFiniteSet(Versions \ {v}) /\ Cardinality(Versions \ {v}) = N - 1
    BY <1>1, VersionsAreFinite, FS_RemoveElement
  <2>3. /\ IsFiniteSet(BelowIn(num, v))
        /\ Cardinality(BelowIn(num, v)) <= N - 1
    BY <2>1, <2>2, FS_Subset
  <2>4. Cardinality(BelowIn(num, v)) \in Nat  BY <2>3, FS_CardinalityType
  <2>. QED  BY <2>3, <2>4 DEF RankIn
<1>3. \A v, w \in Versions : BeforeIn(num, v, w) => RankIn(num, v) < RankIn(num, w)
  BY BeforeRanksLower
<1>4. ASSUME NEW v \in Versions, NEW w \in Versions,
             RankIn(num, v) = RankIn(num, w)
      PROVE  v = w
  <2>1. PICK n \in Int : n = RankIn(num, v)  BY <1>2
  <2>2. ~(n < n)  OBVIOUS
  <2>3. ~BeforeIn(num, v, w) /\ ~BeforeIn(num, w, v)  BY <1>3, <1>4, <2>1, <2>2
  <2>4. num[v] \in Nat /\ num[w] \in Nat  OBVIOUS
  <2>5. /\ v[1] \in Nat /\ v[2] \in Nat /\ w[1] \in Nat /\ w[2] \in Nat
        /\ v = <<v[1], v[2]>> /\ w = <<w[1], w[2]>>
    BY VersionsAreFinite
  <2>6. v[1] = w[1] /\ v[2] = w[2]  BY <2>3, <2>4, <2>5 DEF BeforeIn
  <2>. QED  BY <2>5, <2>6
<1>5. ASSUME NEW v \in Versions, NEW w \in Versions,
             RankIn(num, v) <= RankIn(num, w)
      PROVE  num[v] <= num[w]
  <2>1. PICK m \in Int, n \in Int : m = RankIn(num, v) /\ n = RankIn(num, w)
    BY <1>2
  <2>2. ~(n < m)  BY <1>5, <2>1
  <2>3. ~BeforeIn(num, w, v)  BY <1>3, <2>1, <2>2
  <2>4. num[v] \in Nat /\ num[w] \in Nat  OBVIOUS
  <2>. QED  BY <2>3, <2>4 DEF BeforeIn
<1>6. ASSUME NEW n \in 0 .. N - 1
      PROVE  \E v \in Versions : RankIn(num, v) = n
  <2>1. PICK f : f = [v \in Versions |-> RankIn(num, v)]  OBVIOUS
  <2>2. f \in [Versions -> 0 .. N - 1]  BY <1>2, <2>1
  <2>3. f \in Injection(Versions, 0 .. N - 1)
    BY <1>4, <2>1, <2>2 DEF Injection, IsInjective
  <2>4. IsFiniteSet(0 .. N - 1) /\ Cardinality(0 .. N - 1) = N
    <3>1. /\ IsFiniteSet(0 .. N - 1)
          /\ Cardinality(0 .. N - 1) = IF 0 > N - 1 THEN 0 ELSE (N - 1) - 0 + 1
      BY FS_Interval
    <3>. QED  BY <3>1
  <2>5. f \in Surjection(Versions, 0 .. N - 1)
    BY <1>1, <2>3, <2>4, FS_Injection
  <2>6. PICK v \in Versions : f[v] = n  BY <2>5 DEF Surjection
  <2>. QED  BY <2>1, <2>6
<1>. QED  BY <1>1, <1>2, <1>4, <1>5, <1>6 DEF Ranking

------------------------------------------------------------------------------
(* The invariant *)

Jobs == Components \X Versions

Shapes ==
  /\ workers \in [Caches -> Seq(Jobs)]
  /\ \A c \in Caches : Len(workers[c]) <= Size(c) + 1
  /\ pipeline \in Pipelines \cup {Idle}
  /\ at \in 0 .. NumPipelineLength

Scores == vsms \in [Components -> Dist]

(* The smaller LRU cache holds what the larger one holds, except for the   *)
(* worker that the larger one used least recently once it is full.         *)
LruPhase ==
  LET a == workers["lru"]
      b == workers["lru+1"]
  IN /\ \A i, j \in 1 .. Len(b) : b[i] = b[j] => i = j
     /\ \/ a = b /\ Len(b) <= WorkerSetSize + 1
        \/ a = Tail(b) /\ Len(b) = WorkerSetSize + 2
     /\ coldStarts \in [Caches -> Nat]
     /\ coldStarts["lru+1"] <= coldStarts["lru"]

LfuPhase ==
  /\ frequency \in Seq(Nat) /\ age \in Seq(Nat)
  /\ LfuAligned

(* How many of the latest pipelines the history holds.                     *)
Kept ==
  IF HistoryCapacity = 0 THEN 0
  ELSE IF Len(submitted) <= HistoryCapacity - 1 THEN Len(submitted)
  ELSE HistoryCapacity - 1

HistoryPhase ==
  /\ submitted \in Seq(Pipelines)
  /\ history \in Seq(Pipelines \cup {Dummy})
  /\ Len(history) = Kept + 1
  /\ \A i \in 1 .. Kept : history[i + 1] = submitted[Len(submitted) - Kept + i]

(* A search runs for a component of a pipeline, on a full cache, and has   *)
(* not passed any of the workers in it.                                    *)
Searching ==
  /\ pipeline \in Pipelines
  /\ pipeline # Idle
  /\ at \in Components
  /\ Full("pac")
  /\ pointers \in [Components -> 0 .. Cardinality(Versions) - 1]
  /\ \A i \in 1 .. Len(workers["pac"]) :
       LET w == workers["pac"][i]
       IN RankIn(vsms[w[1]].num, w[2]) >= pointers[w[1]]

PacPhase == pointers = Idle \/ Searching

PacInv ==
  Shapes /\ Scores /\ LruPhase /\ LfuPhase /\ HistoryPhase /\ PacPhase

LEMMA CachesAre ==
  /\ Caches = {"lru", "lru+1", "fifo", "lfu", "pac"}
  /\ \A c \in Caches : Size(c) \in Nat
  /\ Size("lru") = WorkerSetSize /\ Size("lru+1") = WorkerSetSize + 1
  /\ Size("lfu") = WorkerSetSize /\ Size("pac") = WorkerSetSize
  /\ Size("fifo") = WorkerSetSize
BY Sizes DEF Caches, Lists, Size

LEMMA PacStarts ==
  ASSUME Init
  PROVE  PacInv
<1>1. Shapes
  <2>1. \A c \in Caches : workers[c] = <<>> /\ Size(c) \in Nat
    BY CachesAre DEF Init
  <2>2. workers \in [Caches -> Seq(Jobs)]  BY EmptySeq DEF Init
  <2>3. \A c \in Caches : Len(workers[c]) <= Size(c) + 1
    <3>1. TAKE c \in Caches
    <3>2. Len(workers[c]) = 0 /\ Size(c) \in Nat  BY <2>1, EmptySeq
    <3>. QED  BY <3>2
  <2>. QED  BY <2>2, <2>3, Sizes DEF Shapes, Init
<1>2. Scores
  <2>1. PICK num : num = [v \in Versions |-> 1]  OBVIOUS
  <2>2. num \in [Versions -> Nat]  BY <2>1
  <2>3. \A v \in Versions :
          num[v] = 0 * num[v] + (IF v \in Versions THEN 1 ELSE 0)
    BY <2>1, <2>2
  <2>4. SumOver(num) = 0 * SumOver(num) + 1 * Cardinality(Versions)
    BY <2>2, <2>3, SumIsLinear
  <2>5. SumOver(num) = Cardinality(Versions)
    <3>1. PICK g \in [SUBSET Versions -> Nat] : SumOver(num) = g[Versions]
      BY <2>2, SumExists
    <3>2. SumOver(num) \in Nat  BY <3>1
    <3>3. Cardinality(Versions) \in Nat  BY VersionsAreFinite
    <3>. QED  BY <2>4, <3>2, <3>3
  <2>6. [num |-> num, den |-> Cardinality(Versions)] \in Dist
    BY <2>2, <2>5, VersionsAreFinite DEF Dist
  <2>. QED  BY <2>1, <2>6 DEF Init, Scores
<1>3. LruPhase
  <2>1. "lru" \in Caches /\ "lru+1" \in Caches  BY CachesAre
  <2>2. workers["lru"] = <<>> /\ workers["lru+1"] = <<>>  BY <2>1 DEF Init
  <2>3. coldStarts["lru"] = 0 /\ coldStarts["lru+1"] = 0  BY <2>1 DEF Init
  <2>4. coldStarts \in [Caches -> Nat]  BY DEF Init
  <2>5. Len(<<>>) = 0  BY EmptySeq
  <2>. QED  BY <2>2, <2>3, <2>4, <2>5, Sizes DEF LruPhase
<1>4. LfuPhase
  <2>1. "lfu" \in Caches  BY CachesAre
  <2>2. workers["lfu"] = <<>> /\ frequency = <<>> /\ age = <<>>
    BY <2>1 DEF Init
  <2>3. Len(<<>>) = 0 /\ <<>> \in Seq(Nat)  BY EmptySeq
  <2>. QED  BY <2>2, <2>3 DEF LfuPhase, LfuAligned
<1>5. HistoryPhase
  <2>1. Len(<<>>) = 0 /\ <<>> \in Seq(Pipelines)  BY EmptySeq
  <2>2. HistoryCapacity \in Nat  BY Sizes
  <2>3. Kept = 0  BY <2>1, <2>2 DEF Kept, Init
  <2>4. history = <<Dummy>> /\ history \in Seq(Pipelines \cup {Dummy})
    BY DEF Init
  <2>5. Len(history) = 1  BY <2>4
  <2>. QED  BY <2>1, <2>3, <2>4, <2>5 DEF HistoryPhase, Init
<1>6. PacPhase  BY DEF PacPhase, Init
<1>. QED  BY <1>1, <1>2, <1>3, <1>4, <1>5, <1>6 DEF PacInv

(* What the invariant says.                                                *)
LEMMA WorkersAreJobs ==
  ASSUME Shapes, NEW c \in Caches
  PROVE  /\ workers[c] \in Seq(Jobs) /\ Len(workers[c]) \in Nat
         /\ Size(c) \in Nat /\ Len(workers[c]) <= Size(c) + 1
<1>1. workers[c] \in Seq(Jobs) /\ Len(workers[c]) <= Size(c) + 1
  BY DEF Shapes
<1>. QED  BY <1>1, CachesAre, LenProperties

LEMMA WantedIsJob ==
  ASSUME Shapes, pipeline # Idle, at # NumPipelineLength
  PROVE  Wanted \in Jobs /\ at \in Components /\ pipeline \in Pipelines
<1>1. at \in Components  BY Sizes DEF Shapes, Components
<1>2. pipeline \in Pipelines  BY DEF Shapes
<1>3. pipeline \in [Components -> Versions]  BY <1>2, PacAssumption
<1>4. pipeline[at] \in Versions  BY <1>1, <1>3
<1>. QED  BY <1>1, <1>2, <1>4 DEF Wanted, Jobs

------------------------------------------------------------------------------
(* Submit, Update and stuttering *)

LEMMA PacStays ==
  ASSUME PacInv, UNCHANGED vars
  PROVE  PacInv'
<1>. USE DEF PacInv, vars, cacheVars, scoreVars
<1>1. Shapes'  BY DEF Shapes
<1>2. Scores'  BY DEF Scores
<1>3. LruPhase'  BY DEF LruPhase
<1>4. LfuPhase'  BY DEF LfuPhase, LfuAligned
<1>5. HistoryPhase'  BY DEF HistoryPhase, Kept
<1>6. PacPhase'  BY DEF PacPhase, Searching, Full
<1>. QED  BY <1>1, <1>2, <1>3, <1>4, <1>5, <1>6

LEMMA SubmitKeeps ==
  ASSUME PacInv, NEW p \in Pipelines, Submit(p)
  PROVE  PacInv'
<1>. USE DEF PacInv, Submit, cacheVars, scoreVars
<1>1. Shapes'  BY Sizes DEF Shapes
<1>2. Scores'  BY DEF Scores
<1>3. LruPhase'  BY DEF LruPhase
<1>4. LfuPhase'  BY DEF LfuPhase, LfuAligned
<1>5. HistoryPhase'  BY DEF HistoryPhase, Kept
<1>6. PacPhase'  BY DEF PacPhase, Searching
<1>. QED  BY <1>1, <1>2, <1>3, <1>4, <1>5, <1>6

(* History.append drops the oldest pipeline when the capacity is reached.  *)
LEMMA HistoryGrows ==
  ASSUME HistoryPhase, pipeline \in Pipelines,
         history' = Appended(pipeline),
         submitted' = Append(submitted, pipeline)
  PROVE  HistoryPhase'
<1>. DEFINE X == Pipelines \cup {Dummy}
<1>1. PICK L \in Nat, k \in Nat, c \in Nat :
           L = Len(submitted) /\ k = Kept /\ c = HistoryCapacity
  <2>1. Len(submitted) \in Nat  BY LenProperties DEF HistoryPhase
  <2>2. HistoryCapacity \in Nat  BY Sizes
  <2>3. Kept \in Nat  BY <2>1, <2>2 DEF Kept
  <2>. QED  BY <2>1, <2>2, <2>3
<1>2. PICK h \in Seq(X) : h = history  BY DEF HistoryPhase
<1>3. PICK s \in Seq(Pipelines) : s = submitted  BY DEF HistoryPhase
<1>4. PICK p \in Pipelines : p = pipeline  OBVIOUS
<1>5. Len(h) = k + 1 /\ \A i \in 1 .. k : h[i + 1] = s[L - k + i]
  BY <1>1, <1>2, <1>3 DEF HistoryPhase
<1>6. PICK t \in Seq(Pipelines) :
           /\ t = submitted' /\ Len(t) = L + 1 /\ t[L + 1] = p
           /\ \A i \in 1 .. L : t[i] = s[i]
  BY <1>1, <1>3, <1>4, AppendProperties
<1>7. PICK a \in Seq(X) :
           /\ a = Append(h, p) /\ Len(a) = k + 2 /\ a[k + 2] = p
           /\ \A i \in 1 .. k + 1 : a[i] = h[i]
  <2>1. p \in X  OBVIOUS
  <2>2. /\ Append(h, p) \in Seq(X) /\ Len(Append(h, p)) = (k + 1) + 1
        /\ Append(h, p)[(k + 1) + 1] = p
        /\ \A i \in 1 .. k + 1 : Append(h, p)[i] = h[i]
    BY <1>5, <2>1, AppendProperties
  <2>3. (k + 1) + 1 = k + 2  OBVIOUS
  <2>. HIDE DEF X
  <2>. QED  BY <2>2, <2>3
<1>8. k = IF c = 0 THEN 0 ELSE IF L <= c - 1 THEN L ELSE c - 1
  BY <1>1 DEF Kept
<1>9. Kept' = IF c = 0 THEN 0 ELSE IF L + 1 <= c - 1 THEN L + 1 ELSE c - 1
  BY <1>1, <1>6 DEF Kept
<1>. HIDE DEF X
<1>10. CASE k + 2 > c
  <2>1. history' = RemoveAt(a, 2)
    BY <1>1, <1>2, <1>4, <1>5, <1>7, <1>10 DEF Appended
  <2>2. 2 \in 1 .. Len(a)  BY <1>7
  <2>3. PICK r \in Seq(X) :
             /\ r = history' /\ Len(r) = k + 1
             /\ \A j \in 1 .. k + 1 : r[j] = IF j < 2 THEN a[j] ELSE a[j + 1]
    <3>1. /\ RemoveAt(a, 2) \in Seq(X) /\ Len(RemoveAt(a, 2)) = Len(a) - 1
          /\ \A j \in 1 .. Len(a) - 1 :
               RemoveAt(a, 2)[j] = IF j < 2 THEN a[j] ELSE a[j + 1]
      BY <2>2, RemoveAtElements
    <3>2. Len(a) - 1 = k + 1  BY <1>7
    <3>. QED  BY <2>1, <3>1, <3>2
  <2>4. Kept' = k  BY <1>8, <1>9, <1>10
  <2>5. k <= L  BY <1>8
  <2>6. ASSUME NEW i \in 1 .. k
        PROVE  r[i + 1] = t[(L + 1) - k + i]
    <3>1. r[i + 1] = a[(i + 1) + 1]
      <4>1. i + 1 \in 1 .. k + 1 /\ ~(i + 1 < 2)  OBVIOUS
      <4>. QED  BY <2>3, <4>1
    <3>2. CASE i = k
      <4>1. (i + 1) + 1 = k + 2 /\ (L + 1) - k + i = L + 1  BY <3>2
      <4>. QED  BY <1>6, <1>7, <3>1, <4>1
    <3>3. CASE i # k
      <4>1. PICK j \in 1 .. k : j = i + 1  BY <3>3
      <4>2. a[j + 1] = h[j + 1]
        <5>1. j + 1 \in 1 .. k + 1  OBVIOUS
        <5>. QED  BY <1>7, <5>1
      <4>3. h[j + 1] = s[L - k + j]  BY <1>5
      <4>4. L - k + j \in 1 .. L /\ L - k + j = (L + 1) - k + i
        BY <2>5, <4>1
      <4>5. t[L - k + j] = s[L - k + j]  BY <1>6, <4>4
      <4>. QED  BY <3>1, <4>1, <4>2, <4>3, <4>4, <4>5
    <3>. QED  BY <3>2, <3>3
  <2>. QED  BY <1>6, <2>3, <2>4, <2>6 DEF HistoryPhase, X
<1>11. CASE ~(k + 2 > c)
  <2>1. history' = a
    BY <1>1, <1>2, <1>4, <1>5, <1>7, <1>11 DEF Appended
  <2>2. Kept' = k + 1 /\ k = L  BY <1>8, <1>9, <1>11
  <2>3. ASSUME NEW i \in 1 .. k + 1
        PROVE  a[i + 1] = t[(L + 1) - (k + 1) + i]
    <3>1. (L + 1) - (k + 1) + i = i  BY <2>2
    <3>2. CASE i = k + 1
      <4>1. i + 1 = k + 2 /\ i = L + 1  BY <2>2, <3>2
      <4>. QED  BY <1>6, <1>7, <3>1, <4>1
    <3>3. CASE i # k + 1
      <4>1. i \in 1 .. k /\ i \in 1 .. L /\ i + 1 \in 1 .. k + 1  BY <2>2, <3>3
      <4>2. a[i + 1] = h[i + 1]  BY <1>7, <4>1
      <4>3. h[i + 1] = s[L - k + i] /\ L - k + i = i  BY <1>5, <2>2, <4>1
      <4>4. t[i] = s[i]  BY <1>6, <4>1
      <4>. QED  BY <3>1, <4>2, <4>3, <4>4
    <3>. QED  BY <3>2, <3>3
  <2>4. Len(a) = (k + 1) + 1  BY <1>7
  <2>. QED  BY <1>6, <1>7, <2>1, <2>2, <2>3, <2>4 DEF HistoryPhase, X
<1>. QED  BY <1>10, <1>11

LEMMA UpdateKeeps ==
  ASSUME PacInv, Update
  PROVE  PacInv'
<1>1. Shapes'  BY DEF PacInv, Update, cacheVars, Shapes
<1>2. Scores'
  <2>1. PICK h : h = Tail(history')  OBVIOUS
  <2>2. PICK afterSl :
             afterSl = IF "sl" \in transformers THEN TransformSl(vsms, h) ELSE vsms
    OBVIOUS
  <2>3. vsms' = IF "ul" \in transformers THEN TransformUl(afterSl, h) ELSE afterSl
    BY <2>1, <2>2 DEF Update
  <2>4. vsms \in [Components -> Dist]  BY DEF PacInv, Scores
  <2>5. afterSl \in [Components -> Dist]  BY <2>2, <2>4, TransformSlIsDist
  <2>6. TransformUl(afterSl, h) \in [Components -> Dist]
    BY <2>5, TransformUlIsDist
  <2>. QED  BY <2>3, <2>5, <2>6 DEF Scores
<1>3. LruPhase'  BY DEF PacInv, Update, cacheVars, LruPhase
<1>4. LfuPhase'  BY DEF PacInv, Update, cacheVars, LfuPhase, LfuAligned
<1>5. HistoryPhase'
  <2>1. pipeline \in Pipelines  BY DEF PacInv, Update, Shapes
  <2>. QED  BY <2>1, HistoryGrows DEF PacInv, Update
<1>6. PacPhase'
  <2>1. at \notin Components  BY Sizes DEF Update, Components
  <2>. QED  BY <2>1 DEF PacInv, Update, PacPhase, Searching
<1>. QED  BY <1>1, <1>2, <1>3, <1>4, <1>5, <1>6 DEF PacInv

------------------------------------------------------------------------------
(* The LRU caches *)

Distinct(s) == \A i, j \in 1 .. Len(s) : s[i] = s[j] => i = j

(* LRUCache.get on the list s of a cache of that size.                     *)
Moved(s, e, size) ==
  Append(IF Contains(s, e) THEN RemoveFirst(s, e)
         ELSE IF Len(s) > size THEN Tail(s) ELSE s, e)

LEMMA RemovedIsDistinct ==
  ASSUME NEW X, NEW s \in Seq(X), Distinct(s), NEW k \in 1 .. Len(s)
  PROVE  Distinct(RemoveAt(s, k)) /\ ~Contains(RemoveAt(s, k), s[k])
<1>1. PICK n \in Nat : n = Len(s)  BY LenProperties
<1>2. PICK r \in Seq(X) :
           /\ r = RemoveAt(s, k) /\ Len(r) = n - 1
           /\ \A j \in 1 .. n - 1 : r[j] = IF j < k THEN s[j] ELSE s[j + 1]
  BY <1>1, RemoveAtElements
<1>3. \A i, j \in 1 .. n : s[i] = s[j] => i = j  BY <1>1 DEF Distinct
<1>4. \A j \in 1 .. n - 1 : j \in 1 .. n /\ j + 1 \in 1 .. n  OBVIOUS
<1>5. k \in 1 .. n  BY <1>1
<1>6. ASSUME NEW i \in 1 .. n - 1, NEW j \in 1 .. n - 1, r[i] = r[j]
      PROVE  i = j
  <2>1. PICK x \in 1 .. n : r[i] = s[x] /\ x = IF i < k THEN i ELSE i + 1
    BY <1>2, <1>4
  <2>2. PICK y \in 1 .. n : r[j] = s[y] /\ y = IF j < k THEN j ELSE j + 1
    BY <1>2, <1>4
  <2>3. x = y  BY <1>3, <1>6, <2>1, <2>2
  <2>. QED  BY <1>5, <2>1, <2>2, <2>3
<1>7. ASSUME NEW j \in 1 .. n - 1, r[j] = s[k]
      PROVE  FALSE
  <2>1. PICK y \in 1 .. n : r[j] = s[y] /\ y = IF j < k THEN j ELSE j + 1
    BY <1>2, <1>4
  <2>2. y = k  BY <1>3, <1>5, <1>7, <2>1
  <2>. QED  BY <1>5, <2>1, <2>2
<1>. QED  BY <1>2, <1>6, <1>7 DEF Distinct, Contains

LEMMA TailIsDistinct ==
  ASSUME NEW X, NEW s \in Seq(X), Distinct(s), Len(s) > 0
  PROVE  Distinct(Tail(s)) /\ \A x : Contains(Tail(s), x) <=> Contains(s, x) /\ x # s[1]
<1>1. PICK n \in Nat : n = Len(s) /\ n > 0  BY LenProperties
<1>2. PICK t \in Seq(X) :
           /\ t = Tail(s) /\ Len(t) = n - 1
           /\ \A j \in 1 .. n - 1 : t[j] = s[j + 1]
  <2>1. /\ Tail(s) \in Seq(X) /\ Len(Tail(s)) = Len(s) - 1
        /\ \A j \in 1 .. Len(s) - 1 : Tail(s)[j] = s[j + 1]
    BY TailElements
  <2>. QED  BY <1>1, <2>1
<1>3. \A i, j \in 1 .. n : s[i] = s[j] => i = j  BY <1>1 DEF Distinct
<1>4. \A j \in 1 .. n - 1 : j + 1 \in 1 .. n /\ j + 1 # 1  OBVIOUS
<1>5. ASSUME NEW i \in 1 .. n - 1, NEW j \in 1 .. n - 1, t[i] = t[j]
      PROVE  i = j
  <2>1. i + 1 = j + 1  BY <1>2, <1>3, <1>4, <1>5
  <2>. QED  BY <2>1
<1>6. ASSUME NEW x, Contains(t, x)
      PROVE  Contains(s, x) /\ x # s[1]
  <2>1. PICK j \in 1 .. n - 1 : t[j] = x  BY <1>2, <1>6 DEF Contains
  <2>2. s[j + 1] = x /\ j + 1 \in 1 .. n /\ j + 1 # 1  BY <1>2, <1>4, <2>1
  <2>3. 1 \in 1 .. n  BY <1>1
  <2>. QED  BY <1>1, <1>3, <2>2, <2>3 DEF Contains
<1>7. ASSUME NEW x, Contains(s, x), x # s[1]
      PROVE  Contains(t, x)
  <2>1. PICK k \in 1 .. n : s[k] = x  BY <1>1, <1>7 DEF Contains
  <2>2. k # 1  BY <1>7, <2>1
  <2>3. PICK j \in 1 .. n - 1 : j + 1 = k
    <3>1. k - 1 \in 1 .. n - 1 /\ (k - 1) + 1 = k  BY <2>2
    <3>. QED  BY <3>1
  <2>4. t[j] = x  BY <1>2, <2>1, <2>3
  <2>. QED  BY <1>2, <2>4 DEF Contains
<1>. QED  BY <1>2, <1>5, <1>6, <1>7 DEF Distinct

LEMMA AppendedIsDistinct ==
  ASSUME NEW X, NEW s \in Seq(X), Distinct(s), NEW e \in X, ~Contains(s, e)
  PROVE  Distinct(Append(s, e))
<1>1. PICK n \in Nat : n = Len(s)  BY LenProperties
<1>2. PICK a \in Seq(X) :
           /\ a = Append(s, e) /\ Len(a) = n + 1 /\ a[n + 1] = e
           /\ \A i \in 1 .. n : a[i] = s[i]
  <2>1. /\ Append(s, e) \in Seq(X)
        /\ Len(Append(s, e)) = Len(s) + 1
        /\ Append(s, e)[Len(s) + 1] = e
        /\ \A i \in 1 .. Len(s) : Append(s, e)[i] = s[i]
    BY AppendProperties
  <2>. QED  BY <1>1, <2>1
<1>3. \A i \in 1 .. n + 1 : i \in 1 .. n \/ i = n + 1  OBVIOUS
<1>4. \A i \in 1 .. n : s[i] # e  BY <1>1 DEF Contains
<1>5. \A i, j \in 1 .. n : s[i] = s[j] => i = j  BY <1>1 DEF Distinct
<1>6. ASSUME NEW i \in 1 .. n + 1, NEW j \in 1 .. n + 1, a[i] = a[j]
      PROVE  i = j
  BY <1>2, <1>3, <1>4, <1>5, <1>6
<1>. QED  BY <1>2, <1>6 DEF Distinct

(* What is in the list before the wanted worker is put at its end.         *)
LEMMA MovedElements ==
  ASSUME NEW X, NEW s \in Seq(X), NEW e \in X, NEW size \in Nat,
         Len(s) <= size + 1
  PROVE  /\ Moved(s, e, size) \in Seq(X)
         /\ Len(Moved(s, e, size)) =
              IF Contains(s, e) \/ Len(s) > size THEN Len(s) ELSE Len(s) + 1
         /\ Distinct(s) => Distinct(Moved(s, e, size))
<1>1. PICK n \in Nat : n = Len(s)  BY LenProperties
<1>2. ASSUME NEW r \in Seq(X), Moved(s, e, size) = Append(r, e)
      PROVE  /\ Moved(s, e, size) \in Seq(X)
             /\ Len(Moved(s, e, size)) = Len(r) + 1
             /\ Distinct(r) /\ ~Contains(r, e) => Distinct(Moved(s, e, size))
  BY <1>2, AppendElements, AppendedIsDistinct
<1>3. CASE Contains(s, e)
  <2>1. PICK k \in 1 .. Len(s) :
             s[k] = e /\ RemoveFirst(s, e) = RemoveAt(s, k)
    BY <1>3, RemoveFirstIsOne
  <2>2. PICK r : r = RemoveFirst(s, e)  OBVIOUS
  <2>3. r \in Seq(X) /\ Len(r) = n - 1  BY <1>1, <1>3, <2>2, RemoveFirstElements
  <2>4. Moved(s, e, size) = Append(r, e)  BY <1>3, <2>2 DEF Moved
  <2>5. Distinct(s) => Distinct(r) /\ ~Contains(r, e)
    BY <2>1, <2>2, RemovedIsDistinct
  <2>6. (n - 1) + 1 = n  OBVIOUS
  <2>. QED  BY <1>1, <1>2, <1>3, <2>3, <2>4, <2>5, <2>6
<1>4. CASE ~Contains(s, e) /\ n > size
  <2>1. PICK r : r = Tail(s)  OBVIOUS
  <2>2. Len(s) > 0  BY <1>1, <1>4
  <2>3. r \in Seq(X) /\ Len(r) = n - 1  BY <1>1, <2>1, <2>2, TailElements
  <2>4. Moved(s, e, size) = Append(r, e)  BY <1>1, <1>4, <2>1 DEF Moved
  <2>5. Distinct(s) => Distinct(r) /\ ~Contains(r, e)
    BY <1>4, <2>1, <2>2, TailIsDistinct
  <2>6. (n - 1) + 1 = n  OBVIOUS
  <2>. QED  BY <1>1, <1>2, <1>4, <2>3, <2>4, <2>5, <2>6
<1>5. CASE ~Contains(s, e) /\ ~(n > size)
  <2>1. Moved(s, e, size) = Append(s, e)  BY <1>1, <1>5 DEF Moved
  <2>. QED  BY <1>1, <1>2, <1>5, <2>1
<1>. QED  BY <1>3, <1>4, <1>5

Nested(a, b, size) ==
  \/ a = b /\ Len(b) <= size + 1
  \/ a = Tail(b) /\ Len(b) = size + 2

LEMMA NestedContains ==
  ASSUME NEW X, NEW a \in Seq(X), NEW b \in Seq(X), NEW size \in Nat,
         Distinct(b), Nested(a, b, size), NEW e, Contains(a, e)
  PROVE  Contains(b, e)
<1>1. CASE a = b  BY <1>1
<1>2. CASE a = Tail(b) /\ Len(b) = size + 2
  <2>1. Len(b) > 0  BY <1>2
  <2>. QED  BY <1>2, <2>1, TailIsDistinct
<1>. QED  BY <1>1, <1>2 DEF Nested

(* Both caches move the wanted worker to the end, and only the larger one  *)
(* may still have it.                                                      *)
LEMMA NestedStays ==
  ASSUME NEW X, NEW a \in Seq(X), NEW b \in Seq(X), NEW size \in Nat,
         NEW e \in X, Distinct(b), Nested(a, b, size)
  PROVE  Nested(Moved(a, e, size), Moved(b, e, size + 1), size)
<1>1. PICK n \in Nat : n = Len(b)  BY LenProperties
<1>2. n <= (size + 1) + 1  BY <1>1 DEF Nested
<1>3. PICK m : m = Moved(b, e, size + 1)  OBVIOUS
<1>4. PICK l : l = Moved(a, e, size)  OBVIOUS
<1>5. m \in Seq(X) /\ Len(m) = IF Contains(b, e) \/ n > size + 1 THEN n ELSE n + 1
  <2>1. size + 1 \in Nat  OBVIOUS
  <2>. QED  BY <1>1, <1>2, <1>3, <2>1, MovedElements
<1>6. CASE a = b /\ n <= size + 1
  <2>1. CASE Contains(b, e)
    <3>1. l = m  BY <1>3, <1>4, <1>6, <2>1 DEF Moved
    <3>2. Len(m) <= size + 1  BY <1>5, <1>6, <2>1
    <3>. QED  BY <1>3, <1>4, <3>1, <3>2 DEF Nested
  <2>2. CASE ~Contains(b, e) /\ ~(n > size)
    <3>1. ~(n > size + 1)  BY <2>2
    <3>2. l = m  BY <1>1, <1>3, <1>4, <1>6, <2>2, <3>1 DEF Moved
    <3>3. Len(m) <= size + 1  BY <1>5, <2>2, <3>1
    <3>. QED  BY <1>3, <1>4, <3>2, <3>3 DEF Nested
  <2>3. CASE ~Contains(b, e) /\ n > size
    <3>1. ~(n > size + 1)  BY <1>6
    <3>2. m = Append(b, e)  BY <1>1, <1>3, <2>3, <3>1 DEF Moved
    <3>3. l = Append(Tail(b), e)  BY <1>1, <1>4, <1>6, <2>3 DEF Moved
    <3>4. b # <<>>
      <4>1. n # 0  BY <2>3
      <4>. QED  BY <1>1, <4>1, EmptySeq
    <3>5. Tail(m) = l  BY <3>2, <3>3, <3>4, HeadTailAppend
    <3>6. Len(m) = size + 2  BY <1>5, <1>6, <2>3, <3>1
    <3>. QED  BY <1>3, <1>4, <3>5, <3>6 DEF Nested
  <2>. QED  BY <2>1, <2>2, <2>3
<1>7. CASE a = Tail(b) /\ n = size + 2
  <2>1. Len(b) > 0 /\ n > size + 1  BY <1>1, <1>7
  <2>2. /\ Len(a) = size + 1
        /\ \A i \in 1 .. size + 1 : a[i] = b[i + 1]
    <3>1. /\ Len(Tail(b)) = n - 1
          /\ \A i \in 1 .. n - 1 : Tail(b)[i] = b[i + 1]
      BY <1>1, <2>1, TailElements
    <3>2. n - 1 = size + 1  BY <1>7
    <3>. QED  BY <1>7, <3>1, <3>2
  <2>3. \A x : Contains(a, x) <=> Contains(b, x) /\ x # b[1]
    BY <1>7, <2>1, TailIsDistinct
  <2>4. Len(m) = size + 2  BY <1>5, <1>7, <2>1
  <2>5. a # <<>>
    <3>1. size + 1 # 0  OBVIOUS
    <3>. QED  BY <2>2, <3>1, EmptySeq
  <2>6. l = Tail(m)
    <3>1. CASE Contains(a, e)
      <4>1. PICK s : s = RemoveFirst(a, e)  OBVIOUS
      <4>2. PICK r : r = RemoveFirst(b, e)  OBVIOUS
      <4>3. Contains(b, e) /\ e # b[1]  BY <2>3, <3>1
      <4>4. PICK i \in 1 .. Len(a) : a[i] = e /\ s = RemoveAt(a, i)
        BY <3>1, <4>1, RemoveFirstIsOne
      <4>5. PICK k \in 1 .. Len(b) : b[k] = e /\ r = RemoveAt(b, k)
        BY <4>2, <4>3, RemoveFirstIsOne
      <4>6. k = i + 1
        <5>1. i + 1 \in 1 .. Len(b)  BY <1>1, <1>7, <2>2, <4>4
        <5>2. b[i + 1] = e  BY <2>2, <4>4
        <5>. QED  BY <4>5, <5>1, <5>2 DEF Distinct
      <4>7. i \in 1 .. size + 1 /\ k \in 1 .. size + 2
        BY <1>1, <1>7, <2>2, <4>4, <4>5
      <4>8. /\ s \in Seq(X) /\ Len(s) = size
            /\ \A j \in 1 .. size : s[j] = IF j < i THEN a[j] ELSE a[j + 1]
        <5>1. /\ s \in Seq(X) /\ Len(s) = Len(a) - 1
              /\ \A j \in 1 .. Len(a) - 1 : s[j] = IF j < i THEN a[j] ELSE a[j + 1]
          BY <4>4, RemoveAtElements
        <5>2. Len(a) - 1 = size  BY <2>2
        <5>. QED  BY <5>1, <5>2
      <4>9. /\ r \in Seq(X) /\ Len(r) = size + 1
            /\ \A j \in 1 .. size + 1 : r[j] = IF j < k THEN b[j] ELSE b[j + 1]
        <5>1. /\ r \in Seq(X) /\ Len(r) = Len(b) - 1
              /\ \A j \in 1 .. Len(b) - 1 : r[j] = IF j < k THEN b[j] ELSE b[j + 1]
          BY <4>5, RemoveAtElements
        <5>2. Len(b) - 1 = size + 1  BY <1>1, <1>7
        <5>. QED  BY <5>1, <5>2
      <4>10. /\ Tail(r) \in Seq(X) /\ Len(Tail(r)) = size
             /\ \A j \in 1 .. size : Tail(r)[j] = r[j + 1]
        <5>1. Len(r) > 0  BY <4>9
        <5>2. /\ Tail(r) \in Seq(X) /\ Len(Tail(r)) = Len(r) - 1
              /\ \A j \in 1 .. Len(r) - 1 : Tail(r)[j] = r[j + 1]
          BY <4>9, <5>1, TailElements
        <5>3. Len(r) - 1 = size  BY <4>9
        <5>. QED  BY <5>2, <5>3
      <4>11. ASSUME NEW j \in 1 .. size
             PROVE  s[j] = Tail(r)[j]
        <5>1. Tail(r)[j] = IF j + 1 < k THEN b[j + 1] ELSE b[(j + 1) + 1]
          <6>1. j + 1 \in 1 .. size + 1  OBVIOUS
          <6>. QED  BY <4>9, <4>10, <6>1
        <5>2. j + 1 < k <=> j < i  BY <4>6, <4>7
        <5>3. a[j] = b[j + 1] /\ a[j + 1] = b[(j + 1) + 1]
          <6>1. j \in 1 .. size + 1 /\ j + 1 \in 1 .. size + 1  OBVIOUS
          <6>. QED  BY <2>2, <6>1
        <5>. QED  BY <4>8, <5>1, <5>2, <5>3
      <4>12. s = Tail(r)  BY <4>8, <4>10, <4>11, SeqEqual
      <4>13. l = Append(s, e) /\ m = Append(r, e)
        BY <1>3, <1>4, <3>1, <4>1, <4>2, <4>3 DEF Moved
      <4>14. r # <<>>
        <5>1. size + 1 # 0  OBVIOUS
        <5>. QED  BY <4>9, <5>1, EmptySeq
      <4>. QED  BY <4>9, <4>12, <4>13, <4>14, HeadTailAppend
    <3>2. CASE ~Contains(a, e)
      <4>1. l = Append(Tail(a), e)
        <5>1. Len(a) > size  BY <2>2
        <5>. QED  BY <1>4, <3>2, <5>1 DEF Moved
      <4>2. m = Append(a, e)
        <5>1. CASE Contains(b, e)
          <6>1. e = b[1]  BY <2>3, <3>2, <5>1
          <6>2. RemoveFirst(b, e) = a
            <7>1. PICK k \in 1 .. Len(b) :
                       b[k] = e /\ RemoveFirst(b, e) = RemoveAt(b, k)
              BY <5>1, RemoveFirstIsOne
            <7>2. 1 \in 1 .. Len(b)  BY <1>1, <1>7
            <7>3. k = 1  BY <6>1, <7>1, <7>2 DEF Distinct
            <7>4. PICK r : r = RemoveAt(b, 1)  OBVIOUS
            <7>5. /\ r \in Seq(X) /\ Len(r) = Len(b) - 1
                  /\ \A j \in 1 .. Len(b) - 1 : r[j] = IF j < 1 THEN b[j] ELSE b[j + 1]
              BY <7>2, <7>4, RemoveAtElements
            <7>6. Len(b) - 1 = size + 1  BY <1>1, <1>7
            <7>7. \A j \in 1 .. size + 1 : ~(j < 1)  OBVIOUS
            <7>8. \A j \in 1 .. size + 1 : r[j] = a[j]
              BY <2>2, <7>5, <7>6, <7>7
            <7>9. r = a  BY <2>2, <7>5, <7>6, <7>8, SeqEqual
            <7>. QED  BY <7>1, <7>3, <7>4, <7>9
          <6>. QED  BY <1>3, <5>1, <6>2 DEF Moved
        <5>2. CASE ~Contains(b, e)
          BY <1>1, <1>3, <1>7, <2>1, <5>2 DEF Moved
        <5>. QED  BY <5>1, <5>2
      <4>. QED  BY <2>5, <4>1, <4>2, HeadTailAppend
    <3>. QED  BY <3>1, <3>2
  <2>. QED  BY <1>3, <1>4, <2>4, <2>6 DEF Nested
<1>. QED  BY <1>1, <1>6, <1>7 DEF Nested

------------------------------------------------------------------------------
(* Get *)

LEMMA LruGetIsMoved ==
  \A c \in Caches : LruGet(c) = Moved(workers[c], Wanted, Size(c))
BY DEF LruGet, Moved, Hit, Full

LEMMA FifoGetFacts ==
  ASSUME Shapes, Wanted \in Jobs, NEW c \in Caches
  PROVE  FifoGet(c) \in Seq(Jobs) /\ Len(FifoGet(c)) <= Size(c) + 1
<1>1. PICK s \in Seq(Jobs), n \in Nat, z \in Nat :
           s = workers[c] /\ n = Len(s) /\ z = Size(c) /\ n <= z + 1
  BY WorkersAreJobs
<1>2. CASE Hit(c)  BY <1>1, <1>2 DEF FifoGet
<1>3. CASE ~Hit(c) /\ n > z
  <2>1. FifoGet(c) = Append(Tail(s), Wanted)  BY <1>1, <1>3 DEF FifoGet, Full
  <2>2. Len(s) > 0  BY <1>1, <1>3
  <2>3. Tail(s) \in Seq(Jobs) /\ Len(Tail(s)) = n - 1
    BY <1>1, <2>2, TailElements
  <2>4. /\ Append(Tail(s), Wanted) \in Seq(Jobs)
        /\ Len(Append(Tail(s), Wanted)) = (n - 1) + 1
    BY <2>3, AppendProperties
  <2>5. (n - 1) + 1 <= z + 1  BY <1>1
  <2>. QED  BY <1>1, <2>1, <2>4, <2>5
<1>4. CASE ~Hit(c) /\ ~(n > z)
  <2>1. FifoGet(c) = Append(s, Wanted)  BY <1>1, <1>4 DEF FifoGet, Full
  <2>2. Append(s, Wanted) \in Seq(Jobs) /\ Len(Append(s, Wanted)) = n + 1
    BY <1>1, AppendProperties
  <2>3. n + 1 <= z + 1  BY <1>4
  <2>. QED  BY <1>1, <2>1, <2>2, <2>3
<1>. QED  BY <1>2, <1>3, <1>4

LEMMA LruGetFacts ==
  ASSUME Shapes, Wanted \in Jobs, NEW c \in Caches
  PROVE  LruGet(c) \in Seq(Jobs) /\ Len(LruGet(c)) <= Size(c) + 1
<1>1. PICK s \in Seq(Jobs), n \in Nat, z \in Nat :
           s = workers[c] /\ n = Len(s) /\ z = Size(c) /\ n <= z + 1
  BY WorkersAreJobs
<1>2. LruGet(c) = Moved(s, Wanted, z)  BY <1>1, LruGetIsMoved
<1>3. /\ Moved(s, Wanted, z) \in Seq(Jobs)
      /\ Len(Moved(s, Wanted, z)) =
           IF Contains(s, Wanted) \/ n > z THEN n ELSE n + 1
  BY <1>1, MovedElements
<1>4. Len(Moved(s, Wanted, z)) <= z + 1  BY <1>1, <1>3
<1>. QED  BY <1>1, <1>2, <1>3, <1>4

LEMMA LfuVictimIsIn ==
  ASSUME LfuPhase, NEW n \in Nat, n = Len(frequency), n > 0
  PROVE  LfuVictim \in 1 .. n
<1>1. PICK p \in [1 .. n -> Nat] : p = [i \in 1 .. n |-> frequency[i]]
  BY ElementOfSeq DEF LfuPhase
<1>2. Len(age) = n  BY DEF LfuPhase, LfuAligned
<1>3. \A i \in 1 .. n : age[i] \in Nat  BY <1>2, ElementOfSeq DEF LfuPhase
<1>4. \A i \in 1 .. n : Aged[i] = age[i] + 1  BY <1>2 DEF Aged
<1>5. \A i \in 1 .. n : Aged[i] \in Nat \ {0}
  <2>1. TAKE i \in 1 .. n
  <2>2. PICK a \in Nat : a = age[i]  BY <1>3
  <2>. QED  BY <1>4, <2>2
<1>6. PICK q \in [1 .. n -> Nat \ {0}] : q = [i \in 1 .. n |-> Aged[i]]
  BY <1>5
<1>7. PICK i \in 1 .. n : \A j \in 1 .. n : p[i] * q[j] <= p[j] * q[i]
  <2>1. IsFiniteSet(1 .. n)  BY FS_Interval
  <2>2. 1 .. n # {}  BY 1 \in 1 .. n
  <2>. QED  BY <2>1, <2>2, RatioLeast
<1>8. \A j \in 1 .. n : LessUsed(i, j)
  <2>1. TAKE j \in 1 .. n
  <2>2. /\ p[i] = frequency[i] /\ p[j] = frequency[j]
        /\ q[i] = Aged[i] /\ q[j] = Aged[j]
    BY <1>1, <1>6
  <2>. QED  BY <1>7, <2>2 DEF LessUsed
<1>. DEFINE T == {k \in 1 .. n : \A j \in 1 .. n : LessUsed(k, j)}
<1>9. T \in SUBSET (1 .. n) /\ i \in T  BY <1>8
<1>10. LfuVictim = Max(T)  BY DEF LfuVictim
<1>11. Max(T) \in T
  <2>. HIDE DEF T
  <2>. QED  BY <1>9, MaxIsIn
<1>. QED  BY <1>9, <1>10, <1>11

LEMMA LfuGetFacts ==
  ASSUME Shapes, LfuPhase, Wanted \in Jobs, LfuGet, workers'["lfu"] = LfuWorkers
  PROVE  /\ LfuWorkers \in Seq(Jobs) /\ Len(LfuWorkers) <= Size("lfu") + 1
         /\ LfuPhase'
<1>1. "lfu" \in Caches  BY CachesAre
<1>2. PICK s \in Seq(Jobs), n \in Nat, z \in Nat :
           s = workers["lfu"] /\ n = Len(s) /\ z = Size("lfu") /\ n <= z + 1
  BY <1>1, WorkersAreJobs
<1>3. PICK f \in Seq(Nat), a \in Seq(Nat) :
           /\ f = frequency /\ a = age /\ Len(f) = n /\ Len(a) = n
           /\ \A i \in 1 .. n : 1 <= f[i] /\ f[i] <= a[i]
  BY <1>2 DEF LfuPhase, LfuAligned
<1>4. \A i \in 1 .. n : f[i] \in Nat /\ a[i] \in Nat
  BY <1>3, ElementOfSeq
<1>5. PICK g : g = [i \in 1 .. n |-> a[i] + 1]  OBVIOUS
<1>6. Aged = g  BY <1>3, <1>5 DEF Aged
<1>7. /\ g \in Seq(Nat) /\ Len(g) = n
      /\ \A i \in 1 .. n : g[i] \in Nat /\ f[i] <= g[i] /\ g[i] = a[i] + 1
  <2>1. ASSUME NEW i \in 1 .. n
        PROVE  a[i] + 1 \in Nat /\ f[i] <= a[i] + 1
    <3>1. PICK x \in Nat, y \in Nat : x = f[i] /\ y = a[i] /\ x <= y
      BY <1>3, <1>4
    <3>. QED  BY <3>1
  <2>2. g \in [1 .. n -> Nat]  BY <1>5, <2>1
  <2>3. g \in Seq(Nat)  BY <2>2, SeqDef
  <2>4. Len(g) = n  BY <1>5
  <2>. QED  BY <1>5, <2>1, <2>3, <2>4
<1>8. CASE Hit("lfu")
  <2>1. LfuWorkers = s  BY <1>2, <1>8 DEF LfuWorkers
  <2>2. PICK h : h = [i \in 1 .. n |->
             f[i] + (IF workers["lfu"][i] = Wanted THEN 1 ELSE 0)]
    OBVIOUS
  <2>3. frequency' = h /\ age' = g
    BY <1>3, <1>6, <1>8, <2>2 DEF LfuGet
  <2>4. ASSUME NEW i \in 1 .. n
        PROVE  h[i] \in Nat /\ 1 <= h[i] /\ h[i] <= g[i]
    <3>1. PICK x \in Nat, y \in Nat : x = f[i] /\ y = a[i] /\ 1 <= x /\ x <= y
      BY <1>3, <1>4
    <3>2. h[i] = x + (IF workers["lfu"][i] = Wanted THEN 1 ELSE 0)
      BY <2>2, <3>1
    <3>3. g[i] = y + 1  BY <1>7, <3>1
    <3>4. PICK b \in {0, 1} : h[i] = x + b  BY <3>2
    <3>5. x + b \in Nat /\ 1 <= x + b /\ x + b <= y + 1  BY <3>1
    <3>. QED  BY <3>3, <3>4, <3>5
  <2>5. h \in [1 .. n -> Nat]  BY <2>2, <2>4
  <2>6. h \in Seq(Nat) /\ Len(h) = n  BY <2>2, <2>5, SeqDef
  <2>7. LfuPhase'
    BY <1>2, <1>7, <2>1, <2>3, <2>4, <2>6 DEF LfuPhase, LfuAligned
  <2>. QED  BY <1>2, <2>1, <2>7
<1>9. CASE ~Hit("lfu") /\ n > z
  <2>1. PICK k \in 1 .. n : k = LfuVictim
    <3>1. n > 0 /\ n = Len(frequency)  BY <1>3, <1>9
    <3>. QED  BY <3>1, LfuVictimIsIn
  <2>2. PICK u \in Seq(Jobs) : u = RemoveAt(s, k) /\ Len(u) = n - 1
    BY <1>2, RemoveAtElements
  <2>3. PICK p \in Seq(Nat) :
             /\ p = RemoveAt(f, k) /\ Len(p) = n - 1
             /\ \A j \in 1 .. n - 1 : p[j] = IF j < k THEN f[j] ELSE f[j + 1]
    <3>1. k \in 1 .. Len(f)  BY <1>3
    <3>2. /\ RemoveAt(f, k) \in Seq(Nat) /\ Len(RemoveAt(f, k)) = Len(f) - 1
          /\ \A j \in 1 .. Len(f) - 1 :
               RemoveAt(f, k)[j] = IF j < k THEN f[j] ELSE f[j + 1]
      BY <1>3, <3>1, RemoveAtElements
    <3>. QED  BY <1>3, <3>2
  <2>4. PICK q \in Seq(Nat) :
             /\ q = RemoveAt(g, k) /\ Len(q) = n - 1
             /\ \A j \in 1 .. n - 1 : q[j] = IF j < k THEN g[j] ELSE g[j + 1]
    <3>1. k \in 1 .. Len(g)  BY <1>7
    <3>2. /\ RemoveAt(g, k) \in Seq(Nat) /\ Len(RemoveAt(g, k)) = Len(g) - 1
          /\ \A j \in 1 .. Len(g) - 1 :
               RemoveAt(g, k)[j] = IF j < k THEN g[j] ELSE g[j + 1]
      BY <1>7, <3>1, RemoveAtElements
    <3>. QED  BY <1>7, <3>2
  <2>5. PICK m \in Nat : m = n - 1 /\ m + 1 = n  BY <1>9, <2>1
  <2>6. /\ LfuWorkers = Append(u, Wanted)
        /\ frequency' = Append(p, 1) /\ age' = Append(q, 1)
    BY <1>2, <1>3, <1>6, <1>9, <2>1, <2>2, <2>3, <2>4 DEF LfuWorkers, LfuGet, Full
  <2>7. Append(u, Wanted) \in Seq(Jobs) /\ Len(Append(u, Wanted)) = n
    BY <2>2, <2>5, AppendProperties
  <2>8. PICK b \in Seq(Nat) :
             /\ b = frequency' /\ Len(b) = n /\ b[n] = 1
             /\ \A i \in 1 .. m : b[i] = p[i]
    <3>1. /\ Append(p, 1) \in Seq(Nat)
          /\ Len(Append(p, 1)) = Len(p) + 1
          /\ Append(p, 1)[Len(p) + 1] = 1
          /\ \A i \in 1 .. Len(p) : Append(p, 1)[i] = p[i]
      BY AppendProperties
    <3>2. Len(p) = m /\ n = m + 1  BY <2>3, <2>5
    <3>. QED  BY <2>6, <3>1, <3>2
  <2>9. PICK c \in Seq(Nat) :
             /\ c = age' /\ Len(c) = n /\ c[n] = 1
             /\ \A i \in 1 .. m : c[i] = q[i]
    <3>1. /\ Append(q, 1) \in Seq(Nat)
          /\ Len(Append(q, 1)) = Len(q) + 1
          /\ Append(q, 1)[Len(q) + 1] = 1
          /\ \A i \in 1 .. Len(q) : Append(q, 1)[i] = q[i]
      BY AppendProperties
    <3>2. Len(q) = m /\ n = m + 1  BY <2>4, <2>5
    <3>. QED  BY <2>6, <3>1, <3>2
  <2>10. ASSUME NEW i \in 1 .. n
         PROVE  1 <= b[i] /\ b[i] <= c[i]
    <3>1. CASE i = n  BY <2>8, <2>9, <3>1
    <3>2. CASE i # n
      <4>1. i \in 1 .. m /\ i \in 1 .. n - 1  BY <2>5, <3>2
      <4>2. PICK j \in 1 .. n : p[i] = f[j] /\ q[i] = g[j]
        <5>1. i \in 1 .. n /\ i + 1 \in 1 .. n  BY <4>1
        <5>. QED  BY <2>3, <2>4, <4>1, <5>1
      <4>3. 1 <= f[j] /\ f[j] <= g[j]  BY <1>3, <1>7
      <4>. QED  BY <2>8, <2>9, <4>1, <4>2, <4>3
    <3>. QED  BY <3>1, <3>2
  <2>11. LfuPhase'
    BY <2>6, <2>7, <2>8, <2>9, <2>10 DEF LfuPhase, LfuAligned
  <2>. QED  BY <1>2, <2>6, <2>7, <2>11
<1>10. CASE ~Hit("lfu") /\ ~(n > z)
  <2>1. /\ LfuWorkers = Append(s, Wanted)
        /\ frequency' = Append(f, 1) /\ age' = Append(g, 1)
    BY <1>2, <1>3, <1>6, <1>10 DEF LfuWorkers, LfuGet, Full
  <2>2. Append(s, Wanted) \in Seq(Jobs) /\ Len(Append(s, Wanted)) = n + 1
    BY <1>2, AppendProperties
  <2>3. PICK b \in Seq(Nat) :
             /\ b = frequency' /\ Len(b) = n + 1 /\ b[n + 1] = 1
             /\ \A i \in 1 .. n : b[i] = f[i]
    <3>1. /\ Append(f, 1) \in Seq(Nat)
          /\ Len(Append(f, 1)) = Len(f) + 1
          /\ Append(f, 1)[Len(f) + 1] = 1
          /\ \A i \in 1 .. Len(f) : Append(f, 1)[i] = f[i]
      BY <1>3, AppendProperties
    <3>. QED  BY <1>3, <2>1, <3>1
  <2>4. PICK c \in Seq(Nat) :
             /\ c = age' /\ Len(c) = n + 1 /\ c[n + 1] = 1
             /\ \A i \in 1 .. n : c[i] = g[i]
    <3>1. /\ Append(g, 1) \in Seq(Nat)
          /\ Len(Append(g, 1)) = Len(g) + 1
          /\ Append(g, 1)[Len(g) + 1] = 1
          /\ \A i \in 1 .. Len(g) : Append(g, 1)[i] = g[i]
      BY <1>7, AppendProperties
    <3>. QED  BY <1>7, <2>1, <3>1
  <2>5. ASSUME NEW i \in 1 .. n + 1
        PROVE  1 <= b[i] /\ b[i] <= c[i]
    <3>1. CASE i = n + 1  BY <2>3, <2>4, <3>1
    <3>2. CASE i # n + 1
      <4>1. i \in 1 .. n  BY <3>2
      <4>. QED  BY <1>3, <1>7, <2>3, <2>4, <4>1
    <3>. QED  BY <3>1, <3>2
  <2>6. n + 1 <= z + 1  BY <1>10
  <2>7. LfuPhase'
    BY <2>1, <2>2, <2>3, <2>4, <2>5 DEF LfuPhase, LfuAligned
  <2>. QED  BY <1>2, <2>1, <2>2, <2>6, <2>7
<1>. QED  BY <1>8, <1>9, <1>10

LEMMA GetKeeps ==
  ASSUME PacInv, Get
  PROVE  PacInv'
<1>1. Shapes /\ LruPhase /\ LfuPhase  BY DEF PacInv
<1>2. at < NumPipelineLength /\ pipeline # Idle /\ pointers = Idle  BY DEF Get
<1>3. Wanted \in Jobs /\ at \in Components /\ pipeline \in Pipelines
  <2>1. at # NumPipelineLength  BY <1>1, <1>2, Sizes DEF Shapes
  <2>. QED  BY <1>1, <1>2, <2>1, WantedIsJob
<1>4. /\ workers'["lru"] = LruGet("lru") /\ workers'["lru+1"] = LruGet("lru+1")
      /\ workers'["fifo"] = FifoGet("fifo")
      /\ workers'["lfu"] = LfuWorkers
      /\ workers'["pac"] = IF Hit("pac") \/ Full("pac") THEN workers["pac"]
                           ELSE Append(workers["pac"], Wanted)
  BY CachesAre DEF Get, Asked
<1>5. LfuWorkers \in Seq(Jobs) /\ Len(LfuWorkers) <= Size("lfu") + 1 /\ LfuPhase'
  BY <1>1, <1>3, <1>4, LfuGetFacts DEF Get
<1>6. workers'["pac"] \in Seq(Jobs) /\ Len(workers'["pac"]) <= Size("pac") + 1
  <2>1. PICK s \in Seq(Jobs), n \in Nat, z \in Nat :
             s = workers["pac"] /\ n = Len(s) /\ z = Size("pac") /\ n <= z + 1
    BY <1>1, CachesAre, WorkersAreJobs
  <2>2. CASE Hit("pac") \/ n > z  BY <1>4, <2>1, <2>2 DEF Full
  <2>3. CASE ~(Hit("pac") \/ n > z)
    <3>1. workers'["pac"] = Append(s, Wanted)  BY <1>4, <2>1, <2>3 DEF Full
    <3>2. Append(s, Wanted) \in Seq(Jobs) /\ Len(Append(s, Wanted)) = Len(s) + 1
      BY <1>3, AppendProperties
    <3>3. Len(s) + 1 <= z + 1  BY <2>1, <2>3
    <3>. QED  BY <2>1, <3>1, <3>2, <3>3
  <2>. QED  BY <2>2, <2>3
<1>7. Shapes'
  <2>1. /\ LruGet("lru") \in Seq(Jobs) /\ Len(LruGet("lru")) <= Size("lru") + 1
        /\ LruGet("lru+1") \in Seq(Jobs) /\ Len(LruGet("lru+1")) <= Size("lru+1") + 1
        /\ FifoGet("fifo") \in Seq(Jobs) /\ Len(FifoGet("fifo")) <= Size("fifo") + 1
    BY <1>1, <1>3, CachesAre, LruGetFacts, FifoGetFacts
  <2>2. \A c \in Caches : workers'[c] \in Seq(Jobs) /\ Len(workers'[c]) <= Size(c) + 1
    BY <1>4, <1>5, <1>6, <2>1, CachesAre
  <2>3. workers' \in [Caches -> Seq(Jobs)]
    <3>1. workers' = [c \in Caches |-> workers'[c]]  BY DEF Get
    <3>2. PICK e : e = [c \in Caches |-> workers'[c]]  OBVIOUS
    <3>3. e \in [Caches -> Seq(Jobs)]  BY <2>2, <3>2
    <3>. QED  BY <3>1, <3>2, <3>3
  <2>4. at' \in 0 .. NumPipelineLength
    <3>1. at' = at \/ at' = at + 1  BY DEF Get
    <3>2. at \in 0 .. NumPipelineLength  BY <1>1 DEF Shapes
    <3>. QED  BY <1>2, <3>1, <3>2, Sizes
  <2>5. pipeline' = pipeline  BY DEF Get
  <2>. QED  BY <1>3, <2>2, <2>3, <2>4, <2>5, CachesAre DEF Shapes, Size
<1>8. Scores'  BY DEF PacInv, Get, scoreVars, Scores
<1>9. HistoryPhase'  BY DEF PacInv, Get, scoreVars, HistoryPhase, Kept
<1>10. LruPhase'
  <2>1. PICK a \in Seq(Jobs), b \in Seq(Jobs), z \in Nat :
             a = workers["lru"] /\ b = workers["lru+1"] /\ z = WorkerSetSize
    BY <1>1, CachesAre, Sizes DEF Shapes
  <2>2. Distinct(b) /\ Nested(a, b, z)
    BY <1>1, <2>1 DEF LruPhase, Distinct, Nested
  <2>3. PICK l, m : l = workers'["lru"] /\ m = workers'["lru+1"]  OBVIOUS
  <2>4. l = Moved(a, Wanted, z) /\ m = Moved(b, Wanted, z + 1)
    BY <1>4, <2>1, <2>3, CachesAre, LruGetIsMoved
  <2>5. Nested(l, m, z)  BY <1>3, <2>2, <2>4, NestedStays
  <2>6. Distinct(m)
    <3>1. Len(b) <= (z + 1) + 1 /\ z + 1 \in Nat
      BY <2>2, LenProperties DEF Nested
    <3>. QED  BY <1>3, <2>2, <2>4, <3>1, MovedElements
  <2>7. Hit("lru") => Hit("lru+1")
    BY <2>1, <2>2, NestedContains DEF Hit
  <2>8. PICK x \in Nat, y \in Nat :
             x = coldStarts["lru"] /\ y = coldStarts["lru+1"] /\ y <= x
    <3>1. coldStarts["lru"] \in Nat /\ coldStarts["lru+1"] \in Nat
      BY <1>1, CachesAre DEF LruPhase
    <3>2. coldStarts["lru+1"] <= coldStarts["lru"]  BY <1>1 DEF LruPhase
    <3>. QED  BY <3>1, <3>2
  <2>9. coldStarts' \in [Caches -> Nat]
    <3>1. coldStarts \in [Caches -> Nat]  BY <1>1 DEF LruPhase
    <3>. QED  BY <3>1 DEF Get
  <2>10. /\ coldStarts'["lru"] = x + (IF Hit("lru") THEN 0 ELSE 1)
         /\ coldStarts'["lru+1"] = y + (IF Hit("lru+1") THEN 0 ELSE 1)
    BY <2>8, CachesAre DEF Get
  <2>11. coldStarts'["lru+1"] <= coldStarts'["lru"]
    BY <2>7, <2>8, <2>10
  <2>12. /\ \A i, j \in 1 .. Len(m) : m[i] = m[j] => i = j
         /\ (l = m /\ Len(m) <= z + 1) \/ (l = Tail(m) /\ Len(m) = z + 2)
    BY <2>5, <2>6 DEF Distinct, Nested
  <2>. QED  BY <2>1, <2>3, <2>9, <2>11, <2>12 DEF LruPhase
<1>11. PacPhase'
  <2>1. CASE ~Hit("pac") /\ Full("pac")
    <3>1. /\ pointers' = [f \in Components |-> 0]
          /\ at' = at /\ pipeline' = pipeline /\ vsms' = vsms
      BY <2>1 DEF Get, scoreVars
    <3>2. workers'["pac"] = workers["pac"]  BY <1>4, <2>1
    <3>3. pointers' \in [Components -> 0 .. Cardinality(Versions) - 1]
      <4>1. 0 \in 0 .. Cardinality(Versions) - 1  BY VersionsAreFinite
      <4>. QED  BY <3>1, <4>1
    <3>4. Full("pac")'  BY <2>1, <3>2 DEF Full
    <3>5. ASSUME NEW i \in 1 .. Len(workers["pac"]), NEW w, w = workers["pac"][i]
          PROVE  RankIn(vsms[w[1]].num, w[2]) >= pointers'[w[1]]
      <4>1. w \in Jobs
        <5>1. workers["pac"] \in Seq(Jobs)  BY <1>1, CachesAre, WorkersAreJobs
        <5>. QED  BY <3>5, <5>1, ElementOfSeq
      <4>2. w[1] \in Components /\ w[2] \in Versions  BY <4>1 DEF Jobs
      <4>3. vsms[w[1]].num \in [Versions -> Nat]
        BY <4>2 DEF PacInv, Scores, Dist
      <4>4. PICK num \in [Versions -> Nat] : num = vsms[w[1]].num  BY <4>3
      <4>5. RankIn(num, w[2]) \in 0 .. Cardinality(Versions) - 1
        BY <4>2, RankingIsTotal DEF Ranking
      <4>6. pointers'[w[1]] = 0  BY <3>1, <4>2
      <4>7. Cardinality(Versions) \in Nat  BY VersionsAreFinite
      <4>. QED  BY <4>4, <4>5, <4>6, <4>7
    <3>6. Searching'
      BY <1>2, <1>3, <3>1, <3>2, <3>3, <3>4, <3>5 DEF Searching
    <3>. QED  BY <3>6 DEF PacPhase
  <2>2. CASE ~(~Hit("pac") /\ Full("pac"))
    BY <1>2, <2>2 DEF Get, PacPhase
  <2>. QED  BY <2>1, <2>2
<1>. QED  BY <1>5, <1>7, <1>8, <1>9, <1>10, <1>11 DEF PacInv

------------------------------------------------------------------------------
(* Search *)

LEMMA BeforeIsBeforeIn ==
  \A f \in Components : \A v, w \in Versions :
    Before(f, v, w) <=> BeforeIn(vsms[f].num, v, w)
BY DEF Before, BeforeIn

LEMMA RankedHasRank ==
  ASSUME Scores, NEW f \in Components, NEW n \in 0 .. Cardinality(Versions) - 1
  PROVE  Ranked(f, n) \in Versions /\ RankIn(vsms[f].num, Ranked(f, n)) = n
<1>1. PICK num \in [Versions -> Nat] : num = vsms[f].num
  BY DEF Scores, Dist
<1>2. \A v \in Versions : {w \in Versions : Before(f, w, v)} = BelowIn(num, v)
  BY <1>1, BeforeIsBeforeIn DEF BelowIn
<1>3. PICK v \in Versions : RankIn(num, v) = n  BY RankingIsTotal DEF Ranking
<1>4. v \in Versions /\ Cardinality({w \in Versions : Before(f, w, v)}) = n
  BY <1>2, <1>3 DEF RankIn
<1>. DEFINE P(u) == Cardinality({w \in Versions : Before(f, w, u)}) = n
<1>5. Ranked(f, n) = CHOOSE u \in Versions : P(u)  BY DEF Ranked
<1>6. Ranked(f, n) \in Versions /\ P(Ranked(f, n))
  <2>1. \E u \in Versions : P(u)  BY <1>4
  <2>. HIDE DEF P
  <2>. QED  BY <1>5, <2>1, Zenon
<1>7. RankIn(num, Ranked(f, n)) = n
  BY <1>2, <1>6 DEF RankIn
<1>. QED  BY <1>1, <1>6, <1>7

(* The version at the pointer of a component.                              *)
AtPointer == [f \in Components |-> Ranked(f, pointers[f])]

(* The component that the loop picks has a worker, and what its pointer is *)
(* at has the least score of what the pointers are at.                     *)
LEMMA LeastIsPresent ==
  ASSUME PacInv, Searching
  PROVE  /\ Least \in Present /\ Present \subseteq Components
         /\ \A g \in Present : AtMost(Least, AtPointer[Least], g, AtPointer[g])
<1>1. PICK s \in Seq(Jobs), n \in Nat : s = workers["pac"] /\ n = Len(s)
  BY CachesAre, WorkersAreJobs DEF PacInv
<1>2. n > 0
  <2>1. n > Size("pac") /\ Size("pac") \in Nat
    BY <1>1, CachesAre DEF Searching, Full
  <2>. QED  BY <2>1
<1>3. Present = {s[i][1] : i \in 1 .. n}  BY <1>1 DEF Present
<1>4. \A i \in 1 .. n : s[i][1] \in Components
  BY <1>1, ElementOfSeq DEF Jobs
<1>5. Present \subseteq Components  BY <1>3, <1>4
<1>6. Present # {}
  <2>1. s[1][1] \in Present
    <3>1. 1 \in 1 .. n  BY <1>2
    <3>. QED  BY <1>3, <3>1
  <2>. QED  BY <2>1
<1>7. IsFiniteSet(Present) /\ Present \subseteq Int
  <2>1. IsFiniteSet(Components) /\ Components \subseteq Int
    BY Sizes, FS_Interval DEF Components
  <2>. QED  BY <1>5, <2>1, FS_Subset
<1>8. PICK v : v = AtPointer  OBVIOUS
<1>9. ASSUME NEW f \in Present
      PROVE  vsms[f].num[v[f]] \in Nat /\ vsms[f].den \in Nat \ {0}
  <2>1. f \in Components  BY <1>5
  <2>2. pointers[f] \in 0 .. Cardinality(Versions) - 1  BY <2>1 DEF Searching
  <2>3. Ranked(f, pointers[f]) \in Versions
    BY <2>1, <2>2, RankedHasRank DEF PacInv
  <2>4. v[f] \in Versions  BY <1>8, <2>1, <2>3 DEF AtPointer
  <2>. QED  BY <2>1, <2>4 DEF PacInv, Scores, Dist
<1>10. PICK p \in [Present -> Nat] : p = [f \in Present |-> vsms[f].num[v[f]]]
  BY <1>9
<1>11. PICK q \in [Present -> Nat \ {0}] : q = [f \in Present |-> vsms[f].den]
  BY <1>9
<1>12. PICK f \in Present : \A g \in Present : p[f] * q[g] <= p[g] * q[f]
  BY <1>6, <1>7, RatioLeast
<1>. DEFINE T == {g \in Present : \A h \in Present : AtMost(g, v[g], h, v[h])}
<1>13. f \in T
  <2>1. ASSUME NEW g \in Present
        PROVE  AtMost(f, v[f], g, v[g])
    <3>1. /\ p[f] = vsms[f].num[v[f]] /\ p[g] = vsms[g].num[v[g]]
          /\ q[f] = vsms[f].den /\ q[g] = vsms[g].den
      BY <1>10, <1>11
    <3>. QED  BY <1>12, <3>1 DEF AtMost
  <2>. QED  BY <2>1
<1>14. Least = Min(T)  BY <1>8 DEF Least, AtPointer
<1>15. T \in SUBSET Present  OBVIOUS
<1>16. Least \in T
  <2>1. Min(T) \in T
    <3>. HIDE DEF T
    <3>1. IsFiniteSet(T) /\ T \subseteq Int  BY <1>7, <1>15, FS_Subset
    <3>. QED  BY <1>13, <3>1, MinIsIn
  <2>. QED  BY <1>14, <2>1
<1>. QED  BY <1>5, <1>8, <1>16

LEMMA SearchKeeps ==
  ASSUME PacInv, Search
  PROVE  PacInv'
<1>1. Searching  BY DEF PacInv, Search, PacPhase
<1>2. PICK f \in Components : f = Least /\ f \in Present
  BY <1>1, LeastIsPresent
<1>3. PICK n \in 0 .. Cardinality(Versions) - 1 : n = pointers[f]
  BY <1>1 DEF Searching
<1>4. PICK v \in Versions : v = Ranked(f, n) /\ RankIn(vsms[f].num, v) = n
  BY <1>2, <1>3, RankedHasRank DEF PacInv
<1>5. PICK s \in Seq(Jobs), m \in Nat, z \in Nat :
           s = workers["pac"] /\ m = Len(s) /\ z = Size("pac") /\ m <= z + 1
  BY CachesAre, WorkersAreJobs DEF PacInv
<1>6. Wanted \in Jobs
  <2>1. at # NumPipelineLength  BY <1>1, Sizes DEF Searching, Components
  <2>. QED  BY <1>1, <2>1, WantedIsJob DEF PacInv, Searching
<1>7. /\ vsms' = vsms /\ history' = history /\ submitted' = submitted
      /\ coldStarts' = coldStarts /\ frequency' = frequency /\ age' = age
      /\ pipeline' = pipeline
  BY DEF Search, scoreVars
<1>8. Scores' /\ HistoryPhase'
  BY <1>7 DEF PacInv, Scores, HistoryPhase, Kept
<1>9. CASE /\ Contains(s, <<f, v>>)
           /\ workers' = [workers EXCEPT !["pac"] =
                            Append(RemoveFirst(@, <<f, v>>), Wanted)]
           /\ pointers' = Idle
           /\ at' = at + 1
  <2>1. PICK r : r = RemoveFirst(s, <<f, v>>)  OBVIOUS
  <2>2. r \in Seq(Jobs) /\ Len(r) = m - 1
    BY <1>5, <1>9, <2>1, RemoveFirstElements
  <2>3. PICK t : t = Append(r, Wanted)  OBVIOUS
  <2>4. t \in Seq(Jobs) /\ Len(t) = m
    <3>1. t \in Seq(Jobs) /\ Len(t) = Len(r) + 1
      BY <1>6, <2>2, <2>3, AppendProperties
    <3>. QED  BY <2>2, <3>1
  <2>5. workers' = [workers EXCEPT !["pac"] = t]  BY <1>5, <1>9, <2>1, <2>3
  <2>6. workers \in [Caches -> Seq(Jobs)]  BY DEF PacInv, Shapes
  <2>7. /\ workers' \in [Caches -> Seq(Jobs)]
        /\ workers'["pac"] = t
        /\ \A c \in Caches : c # "pac" => workers'[c] = workers[c]
    BY <2>4, <2>5, <2>6, CachesAre
  <2>8. \A c \in Caches : Len(workers'[c]) <= Size(c) + 1
    BY <1>5, <2>4, <2>7 DEF PacInv, Shapes
  <2>9. at' \in 0 .. NumPipelineLength
    BY <1>1, <1>9, Sizes DEF Searching, Components
  <2>10. Shapes'  BY <1>7, <2>7, <2>8, <2>9 DEF PacInv, Shapes, Size
  <2>11. /\ workers'["lru"] = workers["lru"]
         /\ workers'["lru+1"] = workers["lru+1"]
         /\ workers'["lfu"] = workers["lfu"]
    BY <2>7, CachesAre
  <2>12. LruPhase'  BY <1>7, <2>11 DEF PacInv, LruPhase
  <2>13. LfuPhase'  BY <1>7, <2>11 DEF PacInv, LfuPhase, LfuAligned
  <2>14. PacPhase'  BY <1>9 DEF PacPhase
  <2>. QED  BY <1>8, <2>10, <2>12, <2>13, <2>14 DEF PacInv
<1>10. CASE /\ ~Contains(s, <<f, v>>)
            /\ pointers' = [pointers EXCEPT ![f] = @ + 1]
            /\ UNCHANGED <<workers, at>>
  <2>1. Shapes' /\ LruPhase' /\ LfuPhase'
    BY <1>7, <1>10 DEF PacInv, Shapes, LruPhase, LfuPhase, LfuAligned
  <2>2. PICK N \in Nat : N = Cardinality(Versions)  BY VersionsAreFinite
  <2>3. ASSUME NEW i \in 1 .. m, s[i][1] = f
        PROVE  /\ RankIn(vsms[f].num, s[i][2]) >= n + 1
               /\ RankIn(vsms[f].num, s[i][2]) \in 0 .. N - 1
    <3>1. PICK u \in Versions : s[i] = <<f, u>> /\ u = s[i][2]
      <4>1. s[i] \in Jobs  BY <1>5, <2>3, ElementOfSeq
      <4>. QED  BY <2>3, <4>1 DEF Jobs
    <3>2. PICK num \in [Versions -> Nat] : num = vsms[f].num
      BY DEF PacInv, Scores, Dist
    <3>3. RankIn(num, u) >= n
      BY <1>1, <1>3, <1>5, <2>3, <3>1, <3>2 DEF Searching
    <3>4. RankIn(num, u) \in 0 .. N - 1
      BY <2>2, <3>1, <3>2, RankingIsTotal DEF Ranking
    <3>5. RankIn(num, u) # n
      <4>1. u # v  BY <1>5, <1>10, <3>1 DEF Contains
      <4>2. RankIn(num, v) = n  BY <1>4, <3>2
      <4>. QED  BY <4>1, <4>2, <3>2, RankingIsTotal DEF Ranking
    <3>6. RankIn(num, u) >= n + 1  BY <3>3, <3>4, <3>5
    <3>. QED  BY <3>1, <3>2, <3>4, <3>6
  <2>4. n + 1 \in 0 .. N - 1
    <3>1. PICK i \in 1 .. m : s[i][1] = f  BY <1>2, <1>5 DEF Present
    <3>2. PICK x \in 0 .. N - 1 : x >= n + 1  BY <2>3, <3>1
    <3>. QED  BY <1>3, <2>2, <3>2
  <2>5. pointers \in [Components -> 0 .. N - 1]  BY <1>1, <2>2 DEF Searching
  <2>6. /\ pointers' \in [Components -> 0 .. N - 1]
        /\ pointers'[f] = n + 1
        /\ \A g \in Components : g # f => pointers'[g] = pointers[g]
    BY <1>3, <1>10, <2>4, <2>5
  <2>7. ASSUME NEW i \in 1 .. m, NEW w, w = s[i]
        PROVE  RankIn(vsms[w[1]].num, w[2]) >= pointers'[w[1]]
    <3>1. CASE w[1] = f  BY <2>3, <2>6, <2>7, <3>1
    <3>2. CASE w[1] # f
      <4>1. w[1] \in Components  BY <1>5, <2>7, ElementOfSeq DEF Jobs
      <4>2. RankIn(vsms[w[1]].num, w[2]) >= pointers[w[1]]
        BY <1>1, <1>5, <2>7 DEF Searching
      <4>. QED  BY <2>6, <3>2, <4>1, <4>2
    <3>. QED  BY <3>1, <3>2
  <2>8. Searching'
    <3>1. workers' = workers /\ at' = at  BY <1>10
    <3>2. Full("pac")'  BY <1>1, <3>1 DEF Searching, Full
    <3>. QED  BY <1>1, <1>5, <1>7, <2>2, <2>6, <2>7, <3>1, <3>2 DEF Searching
  <2>9. PacPhase'  BY <2>8 DEF PacPhase
  <2>. QED  BY <1>8, <2>1, <2>9 DEF PacInv
<1>. QED  BY <1>2, <1>3, <1>4, <1>5, <1>9, <1>10 DEF Search

------------------------------------------------------------------------------
(* What holds of the simulator *)

(* The caches, the scores, the history and a search that is under way are  *)
(* in one of the states that PacInv lists after each get, each turn of the *)
(* search and each update.                                                 *)
THEOREM PacInvariant == Spec => []PacInv
<1>1. Init => PacInv  BY PacStarts
<1>2. PacInv /\ [Next]_vars => PacInv'
  <2>1. SUFFICES ASSUME PacInv, [Next]_vars
                 PROVE  PacInv'
    OBVIOUS
  <2>2. CASE \E p \in Pipelines : Submit(p)  BY <2>1, <2>2, SubmitKeeps
  <2>3. CASE Get  BY <2>1, <2>3, GetKeeps
  <2>4. CASE Search  BY <2>1, <2>4, SearchKeeps
  <2>5. CASE Update  BY <2>1, <2>5, UpdateKeeps
  <2>6. CASE UNCHANGED vars  BY <2>1, <2>6, PacStays
  <2>. QED  BY <2>1, <2>2, <2>3, <2>4, <2>5, <2>6 DEF Next
<1>. QED  BY <1>1, <1>2, PTL DEF Spec

(* No cache outgrows its size by more than one, and the search of          *)
(* _least_possible_worker for a victim never runs past the end of a        *)
(* sorted matrix: it meets a worker before.                                *)
THEOREM PacTypeCorrect == Spec => []TypeOK
<1>1. PacInv => TypeOK
  <2>1. SUFFICES ASSUME PacInv PROVE TypeOK
    OBVIOUS
  <2>2. ASSUME NEW c \in Caches
        PROVE  Len(workers[c]) \in 0 .. Size(c) + 1
    <3>1. PICK n \in Nat, z \in Nat :
               n = Len(workers[c]) /\ z = Size(c) /\ n <= z + 1
      BY <2>1, WorkersAreJobs DEF PacInv
    <3>. QED  BY <3>1
  <2>. QED  BY <2>1, <2>2 DEF PacInv, Shapes, PacPhase, Searching, TypeOK
<1>. QED  BY <1>1, PacInvariant, PTL

(* scale_batch, vsm_transform_sl and vsm_transform_ul keep the grand sum   *)
(* of every matrix at 1, for every alpha from 0 to 1, also when a version  *)
(* or none is scaled and when a component is scaled several times.         *)
THEOREM GrandSumCorrect == Spec => []GrandSumIsOne
<1>1. PacInv => GrandSumIsOne
  <2>1. SUFFICES ASSUME PacInv, NEW f \in Components
                 PROVE  MapThenSumSet(LAMBDA v : vsms[f].num[v], Versions)
                          = vsms[f].den
    BY DEF GrandSumIsOne
  <2>2. SumOver(vsms[f].num) = vsms[f].den  BY <2>1 DEF PacInv, Scores, Dist
  <2>. QED  BY <2>2, Zenon DEF SumOver
<1>. QED  BY <1>1, PacInvariant, PTL

(* LFUCache keeps its three lists in step through hits and evictions, and  *)
(* no worker was used more often than the time it has been there.          *)
THEOREM LfuCorrect == Spec => []LfuAligned
<1>1. PacInv => LfuAligned  BY DEF PacInv, LfuPhase
<1>. QED  BY <1>1, PacInvariant, PTL

(* An LRUCache with one worker more holds what the smaller one holds, and  *)
(* has no cold start that the smaller one has not.                         *)
THEOREM LruCorrect == Spec => []LruInclusion
<1>1. PacInv => LruInclusion
  <2>1. SUFFICES ASSUME PacInv PROVE LruInclusion
    OBVIOUS
  <2>2. PICK a \in Seq(Jobs), b \in Seq(Jobs), z \in Nat :
             a = workers["lru"] /\ b = workers["lru+1"] /\ z = WorkerSetSize
    BY <2>1, CachesAre, Sizes DEF PacInv, Shapes
  <2>3. Distinct(b) /\ Nested(a, b, z)
    BY <2>1, <2>2 DEF PacInv, LruPhase, Distinct, Nested
  <2>4. \A x : Contains(a, x) => Contains(b, x)
    BY <2>2, <2>3, NestedContains
  <2>5. /\ \A x : x \in ToSet(a) <=> Contains(a, x)
        /\ \A x : x \in ToSet(b) <=> Contains(b, x)
    <3>1. DOMAIN a = 1 .. Len(a) /\ DOMAIN b = 1 .. Len(b)  BY LenProperties
    <3>. QED  BY <3>1 DEF ToSet, Contains
  <2>6. ToSet(a) \subseteq ToSet(b)  BY <2>4, <2>5
  <2>. QED  BY <2>1, <2>2, <2>6 DEF PacInv, LruPhase, LruInclusion
<1>. QED  BY <1>1, PacInvariant, PTL

(* History holds the latest pipelines, as many as its capacity leaves      *)
(* beside the dummy, in the order in which update appended them.           *)
THEOREM HistoryCorrect == Spec => []HistoryIsRecent
<1>1. PacInv => HistoryIsRecent
  <2>1. SUFFICES ASSUME PacInv PROVE HistoryIsRecent
    OBVIOUS
  <2>. DEFINE X == Pipelines \cup {Dummy}
  <2>2. PICK L \in Nat, c \in Nat : L = Len(submitted) /\ c = HistoryCapacity
    BY <2>1, Sizes, LenProperties DEF PacInv, HistoryPhase
  <2>3. PICK k \in Nat : k = Kept
    <3>1. Kept = IF c = 0 THEN 0 ELSE IF L <= c - 1 THEN L ELSE c - 1
      BY <2>2 DEF Kept
    <3>2. Kept \in Nat  BY <3>1
    <3>. QED  BY <3>2
  <2>4. k = IF c = 0 THEN 0 ELSE IF L <= c - 1 THEN L ELSE c - 1
    BY <2>2, <2>3 DEF Kept
  <2>5. PICK h \in Seq(X) :
             /\ h = history /\ Len(h) = k + 1
             /\ \A i \in 1 .. k : h[i + 1] = submitted[L - k + i]
    BY <2>1, <2>2, <2>3 DEF PacInv, HistoryPhase
  <2>6. PICK s \in Seq(X) : s = submitted
    <3>1. submitted \in Seq(Pipelines)  BY <2>1 DEF PacInv, HistoryPhase
    <3>2. Pipelines \subseteq X  OBVIOUS
    <3>. HIDE DEF X
    <3>. QED  BY <3>1, <3>2, SeqMonotonic
  <2>. HIDE DEF X
  <2>7. PICK t \in Seq(X) :
             t = Tail(h) /\ Len(t) = k /\ \A i \in 1 .. k : t[i] = h[i + 1]
    <3>1. Len(h) > 0 /\ Len(h) - 1 = k  BY <2>5
    <3>2. /\ Tail(h) \in Seq(X) /\ Len(Tail(h)) = Len(h) - 1
          /\ \A i \in 1 .. Len(h) - 1 : Tail(h)[i] = h[i + 1]
      BY <3>1, TailElements
    <3>. QED  BY <3>1, <3>2
  <2>8. PICK m \in Int : m = Min({L, c - 1}) /\ m \in {L, c - 1} /\ m <= L /\ m <= c - 1
    <3>1. IsFiniteSet({L, c - 1})
      <4>1. IsFiniteSet({L})  BY FS_Singleton
      <4>2. IsFiniteSet({L} \cup {c - 1})  BY <4>1, FS_AddElement
      <4>3. {L, c - 1} = {L} \cup {c - 1}  OBVIOUS
      <4>. QED  BY <4>2, <4>3
    <3>2. {L, c - 1} \subseteq Int /\ {L, c - 1} # {}  OBVIOUS
    <3>3. /\ Min({L, c - 1}) \in {L, c - 1}
          /\ \A y \in {L, c - 1} : Min({L, c - 1}) <= y
      BY <3>1, <3>2, MinIsIn
    <3>. QED  BY <3>2, <3>3
  <2>9. CASE c = 0
    <3>1. k = 0 /\ L - m + 1 > L  BY <2>4, <2>8, <2>9
    <3>2. SubSeq(s, L - m + 1, L) = <<>>  BY <3>1, SubSeqEmpty
    <3>3. t = <<>>
      <4>1. Len(t) = 0  BY <2>7, <3>1
      <4>. QED  BY <4>1, EmptySeq
    <3>. QED  BY <2>2, <2>5, <2>6, <2>7, <2>8, <3>2, <3>3 DEF HistoryIsRecent
  <2>10. CASE c # 0
    <3>1. k = m /\ m \in 0 .. L  BY <2>4, <2>8, <2>10
    <3>2. PICK u \in Seq(X) :
               /\ u = SubSeq(s, L - k + 1, L) /\ Len(u) = k
               /\ \A i \in 1 .. k : u[i] = s[L - k + i]
      <4>1. \A i \in L - k + 1 .. L : s[i] \in X
        <5>1. \A i \in L - k + 1 .. L : i \in 1 .. L  BY <3>1
        <5>. QED  BY <2>2, <2>6, <5>1, ElementOfSeq
      <4>2. L - k + 1 \in Int /\ L \in Int  OBVIOUS
      <4>3. PICK a \in Int : a = L - k + 1  BY <4>2
      <4>4. /\ SubSeq(s, a, L) \in Seq(X)
            /\ Len(SubSeq(s, a, L)) = IF a <= L THEN L - a + 1 ELSE 0
            /\ \A i \in 1 .. L - a + 1 : SubSeq(s, a, L)[i] = s[a + i - 1]
        BY <4>1, <4>3, SubSeqProperties
      <4>5. (IF a <= L THEN L - a + 1 ELSE 0) = k /\ L - a + 1 = k
        BY <3>1, <4>3
      <4>6. \A i \in 1 .. k : a + i - 1 = L - k + i  BY <3>1, <4>3
      <4>7. PICK b : b = SubSeq(s, a, L)  OBVIOUS
      <4>8. b \in Seq(X) /\ Len(b) = k  BY <4>4, <4>5, <4>7
      <4>9. \A i \in 1 .. k : b[i] = s[L - k + i]
        <5>1. \A i \in 1 .. k : b[i] = s[a + i - 1]  BY <4>4, <4>5, <4>7
        <5>. QED  BY <4>6, <5>1
      <4>. QED  BY <4>3, <4>7, <4>8, <4>9
    <3>3. \A i \in 1 .. k : t[i] = u[i]  BY <2>5, <2>6, <2>7, <3>2
    <3>4. t = u  BY <2>7, <3>2, <3>3, SeqEqual
    <3>. QED  BY <2>2, <2>5, <2>6, <2>7, <2>8, <3>1, <3>2, <3>4 DEF HistoryIsRecent
  <2>. QED  BY <2>9, <2>10
<1>. QED  BY <1>1, PacInvariant, PTL

(* What one step may evict.                                                *)
Evicts ==
  \A i \in 1 .. Len(workers["pac"]) :
    LET w == workers["pac"][i] IN
    ~Contains(workers'["pac"], w) =>
      \A j \in 1 .. Len(workers["pac"]) :
        LET u == workers["pac"][j] IN AtMost(w[1], w[2], u[1], u[2])

LEMMA SearchEvictsLeast ==
  ASSUME PacInv, Search, NEW i \in 1 .. Len(workers["pac"]),
         NEW w, w = workers["pac"][i], ~Contains(workers'["pac"], w),
         NEW j \in 1 .. Len(workers["pac"]), NEW u, u = workers["pac"][j]
  PROVE  AtMost(w[1], w[2], u[1], u[2])
<1>1. Searching  BY DEF PacInv, Search, PacPhase
<1>2. PICK f \in Components : f = Least /\ f \in Present
  BY <1>1, LeastIsPresent
<1>3. PICK n \in 0 .. Cardinality(Versions) - 1 : n = pointers[f]
  BY <1>1 DEF Searching
<1>4. PICK v \in Versions : v = Ranked(f, n)
  BY <1>2, <1>3, RankedHasRank DEF PacInv
<1>5. PICK s \in Seq(Jobs) : s = workers["pac"]
  BY CachesAre, WorkersAreJobs DEF PacInv
<1>6. Wanted \in Jobs
  <2>1. at # NumPipelineLength  BY <1>1, Sizes DEF Searching, Components
  <2>. QED  BY <1>1, <2>1, WantedIsJob DEF PacInv, Searching
<1>7. Contains(s, w)  BY <1>5 DEF Contains
<1>8. w = <<f, v>>
  <2>1. CASE workers' = workers  BY <1>5, <1>7, <2>1
  <2>2. CASE /\ Contains(s, <<f, v>>)
             /\ workers' = [workers EXCEPT !["pac"] =
                              Append(RemoveFirst(@, <<f, v>>), Wanted)]
    <3>1. PICK r : r = RemoveFirst(s, <<f, v>>)  OBVIOUS
    <3>2. /\ r \in Seq(Jobs)
          /\ \A x : Contains(s, x) /\ x # <<f, v>> => Contains(r, x)
      BY <2>2, <3>1, RemoveFirstElements
    <3>3. workers'["pac"] = Append(r, Wanted)
      <4>1. workers \in [Caches -> Seq(Jobs)]  BY DEF PacInv, Shapes
      <4>. QED  BY <1>5, <2>2, <3>1, <4>1, CachesAre
    <3>4. \A x : Contains(r, x) => Contains(Append(r, Wanted), x)
      BY <1>6, <3>2, AppendElements
    <3>. QED  BY <1>7, <3>2, <3>3, <3>4
  <2>. QED  BY <1>2, <1>3, <1>4, <1>5, <2>1, <2>2 DEF Search
<1>9. PICK g \in Components, x \in Versions : u = <<g, x>>
  <2>1. u \in Jobs  BY <1>5, ElementOfSeq
  <2>. QED  BY <2>1 DEF Jobs
<1>10. g \in Present
  <2>1. workers["pac"][j][1] \in Present  BY DEF Present
  <2>2. u[1] = g  BY <1>9
  <2>. QED  BY <2>1, <2>2
<1>11. PICK k \in 0 .. Cardinality(Versions) - 1 : k = pointers[g]
  BY <1>1 DEF Searching
<1>12. PICK y \in Versions : y = Ranked(g, k) /\ RankIn(vsms[g].num, y) = k
  BY <1>11, RankedHasRank DEF PacInv
<1>13. AtMost(f, v, g, y)
  <2>1. AtPointer[f] = v /\ AtPointer[g] = y
    BY <1>3, <1>4, <1>11, <1>12 DEF AtPointer
  <2>. QED  BY <1>1, <1>2, <1>10, <2>1, LeastIsPresent
<1>14. vsms[g].num[y] <= vsms[g].num[x]
  <2>1. PICK num \in [Versions -> Nat] : num = vsms[g].num
    BY DEF PacInv, Scores, Dist
  <2>2. RankIn(num, x) >= k
    <3>1. RankIn(vsms[u[1]].num, u[2]) >= pointers[u[1]]
      BY <1>1 DEF Searching
    <3>2. u[1] = g /\ u[2] = x  BY <1>9
    <3>. QED  BY <1>11, <2>1, <3>1, <3>2
  <2>3. RankIn(num, x) \in 0 .. Cardinality(Versions) - 1
    BY RankingIsTotal DEF Ranking
  <2>4. RankIn(num, y) <= RankIn(num, x)
    <3>1. Cardinality(Versions) \in Nat  BY VersionsAreFinite
    <3>. QED  BY <1>12, <2>1, <2>2, <2>3, <3>1
  <2>. QED  BY <2>1, <2>4, RankingIsTotal DEF Ranking
<1>15. PICK a \in Nat, b \in Nat, c \in Nat, d \in Nat \ {0}, e \in Nat \ {0} :
            /\ a = vsms[f].num[v] /\ b = vsms[g].num[y] /\ c = vsms[g].num[x]
            /\ d = vsms[f].den /\ e = vsms[g].den
  BY DEF PacInv, Scores, Dist
<1>16. a * e <= b * d /\ b <= c  BY <1>13, <1>14, <1>15 DEF AtMost
<1>17. b * d <= c * d  BY <1>16, SMT
<1>18. a * e <= c * d
  <2>1. PICK p \in Int, q \in Int, r \in Int : p = a * e /\ q = b * d /\ r = c * d
    BY SMT
  <2>. QED  BY <1>16, <1>17, <2>1
<1>. QED  BY <1>8, <1>9, <1>15, <1>18 DEF AtMost

(* The worker that the pipeline-aware cache removes has the least score of *)
(* all workers in it, among equal versions of different components too,    *)
(* although the search goes through the matrices one pointer at a time.    *)
THEOREM EvictionCorrect == Spec => EvictsLeast
<1>1. PacInv /\ [Next]_vars => [Evicts]_vars
  <2>1. SUFFICES ASSUME PacInv, Next
                 PROVE  Evicts
    BY DEF Evicts
  <2>2. CASE workers'["pac"] = workers["pac"]
    BY <2>2 DEF Evicts, Contains
  <2>3. CASE \E p \in Pipelines : Submit(p)
    BY <2>2, <2>3 DEF Submit, cacheVars
  <2>4. CASE Get
    <3>1. PICK s \in Seq(Jobs) : s = workers["pac"]
      BY <2>1, CachesAre, WorkersAreJobs DEF PacInv
    <3>2. Wanted \in Jobs
      <4>1. at # NumPipelineLength  BY <2>1, <2>4, Sizes DEF Get, PacInv, Shapes
      <4>. QED  BY <2>1, <2>4, <4>1, WantedIsJob DEF PacInv, Get
    <3>3. workers'["pac"] = s \/ workers'["pac"] = Append(s, Wanted)
      BY <2>4, <3>1, CachesAre DEF Get, Asked
    <3>4. \A x : Contains(s, x) => Contains(workers'["pac"], x)
      <4>1. \A x : Contains(s, x) => Contains(Append(s, Wanted), x)
        BY <3>2, AppendElements
      <4>2. CASE workers'["pac"] = s  BY <4>2
      <4>3. CASE workers'["pac"] = Append(s, Wanted)  BY <4>1, <4>3
      <4>. QED  BY <3>3, <4>2, <4>3
    <3>5. \A i \in 1 .. Len(s) : Contains(workers'["pac"], s[i])
      BY <3>4 DEF Contains
    <3>. QED  BY <3>1, <3>5 DEF Evicts
  <2>5. CASE Search  BY <2>1, <2>5, SearchEvictsLeast DEF Evicts
  <2>6. CASE Update  BY <2>2, <2>6 DEF Update, cacheVars
  <2>. QED  BY <2>1, <2>3, <2>4, <2>5, <2>6 DEF Next
<1>2. EvictsLeast <=> [][Evicts]_vars  BY DEF EvictsLeast, Evicts
<1>. QED  BY <1>1, <1>2, PacInvariant, PTL DEF Spec

================================================================================
