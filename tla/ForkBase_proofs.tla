----------------------------- MODULE ForkBase_proofs -----------------------------
(***************************************************************************)
(* For any number of retries: a command is done at most once for each try, *)
(* and the caller is told how it ended. Whatever is sent again, the engine *)
(* holds a tree of versions, and every head names one.                     *)
(*                                                                         *)
(* None of it is inductive. While a command is worked on it has been done  *)
(* at most once for each retry so far, and its outcome is not known;       *)
(* RetryInv says so, with the range of the counters. EngineInv adds that   *)
(* the versions are a sequence.                                            *)
(***************************************************************************)
EXTENDS ForkBase, SequenceTheorems, TLAPS

RetryInv ==
  /\ retried_times \in 0..MAX_RETRY_TIMES
  /\ done \in Nat
  /\ ~Idle => done <= retried_times /\ outcome = "none"
  /\ Idle => done <= retried_times + 1
  /\ OutcomeIsHonest

LEMMA RetryInit == Init => RetryInv
  BY ForkBaseAssumption DEF Init, RetryInv, Idle, OutcomeIsHonest

(* A new call starts from nothing. *)
LEMMA RetryCalled ==
  ASSUME NEW c, Called(c)
  PROVE  RetryInv'
<1>1. /\ call' = <<c>> /\ retried_times' = 0 /\ done' = 0
      /\ outcome' = "none"
  BY DEF Called
<1>2. ~Idle'
  BY <1>1 DEF Idle
<1> QED
  BY <1>1, <1>2, ForkBaseAssumption DEF RetryInv, OutcomeIsHonest

(* The except clause, after a try that did the command or did not. *)
LEMMA RetryCaught ==
  ASSUME RetryInv, ~Idle, Caught, done' \in {done, done + 1}
  PROVE  RetryInv'
<1>1. /\ retried_times \in 0..MAX_RETRY_TIMES
      /\ done \in Nat /\ done <= retried_times /\ outcome = "none"
  BY DEF RetryInv
<1>2. CASE retried_times >= MAX_RETRY_TIMES
  <2>1. /\ Idle' /\ outcome' = "raised" /\ retried_times' = retried_times
    BY <1>2 DEF Caught, Ends, Idle
  <2>2. /\ retried_times' = MAX_RETRY_TIMES
        /\ done' \in Nat /\ done' <= retried_times' + 1
    BY <1>1, <1>2, <2>1, ForkBaseAssumption
  <2> QED
    BY <1>1, <2>1, <2>2 DEF RetryInv, OutcomeIsHonest
<1>3. CASE ~(retried_times >= MAX_RETRY_TIMES)
  <2>1. /\ ~Idle' /\ outcome' = "none" /\ retried_times' = retried_times + 1
    BY <1>1, <1>3 DEF Caught, Idle
  <2>2. /\ retried_times' \in 0..MAX_RETRY_TIMES
        /\ done' \in Nat /\ done' <= retried_times'
    BY <1>1, <1>3, <2>1, ForkBaseAssumption
  <2> QED
    BY <2>1, <2>2 DEF RetryInv, OutcomeIsHonest
<1> QED
  BY <1>2, <1>3

LEMMA RetryExec ==
  ASSUME RetryInv, _exec_command
  PROVE  RetryInv'
<1>1. /\ ~Idle /\ retried_times \in 0..MAX_RETRY_TIMES
      /\ done \in Nat /\ done <= retried_times
  BY DEF RetryInv, _exec_command, NotSent, NotAnswered, Answered
<1>2. done # Many
  BY <1>1, ForkBaseAssumption DEF Many
<1>3. CASE NotSent
  BY <1>1, <1>3, RetryCaught DEF NotSent
<1>4. CASE NotAnswered
  BY <1>1, <1>2, <1>4, RetryCaught DEF NotAnswered
<1>5. CASE Answered
  <2>1. /\ Idle' /\ outcome' = "returned" /\ retried_times' = retried_times
        /\ done' = done + 1
    BY <1>2, <1>5 DEF Answered, Ends, Idle
  <2> QED
    BY <1>1, <2>1 DEF RetryInv, OutcomeIsHonest
<1> QED
  BY <1>3, <1>4, <1>5 DEF _exec_command

LEMMA RetryStep == RetryInv /\ [Next]_vars => RetryInv'
<1> SUFFICES ASSUME RetryInv, [Next]_vars PROVE RetryInv'
  OBVIOUS
<1>1. ASSUME UNCHANGED callVars PROVE RetryInv'
  BY <1>1 DEF RetryInv, OutcomeIsHonest, Idle, callVars
<1>2. CASE connect_remote_ustore
  BY <1>1, <1>2 DEF connect_remote_ustore
<1>3. ASSUME NEW b \in Branch, put(b) PROVE RetryInv'
  BY <1>1, <1>3 DEF put
<1>4. ASSUME NEW b \in Branch, NEW on \in Branch, branch(b, on) PROVE RetryInv'
  BY <1>4, RetryCalled DEF branch
<1>5. ASSUME NEW b \in Branch, NEW on \in Branch, NEW file \in BOOLEAN,
             merge(b, on, file)
      PROVE  RetryInv'
  BY <1>5, RetryCalled DEF merge
<1>6. ASSUME NEW b \in Branch, NEW v \in Version,
             branch_on_semantic_version(b, v)
      PROVE  RetryInv'
  BY <1>6, RetryCalled DEF branch_on_semantic_version
<1>7. CASE head \/ list_key \/ list_branch \/ meta \/ exec_command
  BY <1>7, RetryCalled DEF head, list_key, list_branch, meta, exec_command
<1>8. CASE UNCHANGED vars
  BY <1>1, <1>8 DEF vars
<1> QED
  BY <1>2, <1>3, <1>4, <1>5, <1>6, <1>7, <1>8, RetryExec DEF Next

LEMMA RetryInvariant == Spec => []RetryInv
  BY RetryInit, RetryStep, PTL DEF Spec

(* The engine does a command at most once for each of its tries, of which  *)
(* there are at most MAX_RETRY_TIMES + 1.                                  *)
THEOREM RetriesCorrect == Spec => []RetriesAreBounded
<1>1. RetryInv => RetriesAreBounded
  BY ForkBaseAssumption DEF RetryInv, RetriesAreBounded
<1> QED
  BY <1>1, RetryInvariant, PTL

(* A command that returns has been done, one that raises was tried as      *)
(* often as configured.                                                    *)
THEOREM OutcomeCorrect == Spec => []OutcomeIsHonest
<1>1. RetryInv => OutcomeIsHonest
  BY DEF RetryInv
<1> QED
  BY <1>1, RetryInvariant, PTL
------------------------------------------------------------------------------
(* The tree of versions *)

EngineInv ==
  /\ versions \in Seq(SUBSET Nat)
  /\ \A v \in Version : versions[v] \subseteq 1..(v - 1)
  /\ DOMAIN heads \subseteq Branch
  /\ \A b \in DOMAIN heads : heads[b] \in Version
  /\ named \subseteq Version

ClientTypes ==
  /\ is_connected \in BOOLEAN
  /\ sshclient \in BOOLEAN
  /\ call = <<>> \/ call[1] \in Command
  /\ outcome \in {"none", "returned", "raised"}
  /\ calls \in 0..MaxCalls

ForkBaseInv == RetryInv /\ EngineInv /\ ClientTypes

LEMMA ForkBaseInit == Init => ForkBaseInv
<1> SUFFICES ASSUME Init PROVE ForkBaseInv
  OBVIOUS
<1>1. Version = {} /\ DOMAIN heads = {} /\ versions \in Seq(SUBSET Nat)
  BY EmptySeq DEF Init, Version
<1>2. EngineInv
  BY <1>1 DEF Init, EngineInv
<1>3. calls = 0 /\ calls \in 0..MaxCalls
  BY ForkBaseAssumption DEF Init
<1>4. ClientTypes
  BY <1>3 DEF Init, ClientTypes
<1> QED
  BY <1>2, <1>4, RetryInit DEF ForkBaseInv

(* A head is set to a version there is. *)
LEMMA HeadSet ==
  ASSUME EngineInv, NEW b \in Branch, NEW v \in Version, SetHead(b, v),
         UNCHANGED <<versions, named>>
  PROVE  EngineInv'
<1>1. Version' = Version
  BY DEF Version
<1>2. /\ DOMAIN heads' = DOMAIN heads \cup {b}
      /\ \A x \in DOMAIN heads' : heads'[x] = IF x = b THEN v ELSE heads[x]
  BY DEF SetHead
<1> QED
  BY <1>1, <1>2 DEF EngineInv

(* A version is made, with parents that were there, and named or not. *)
LEMMA VersionAdded ==
  ASSUME EngineInv, NEW b \in Branch, NEW parents \in SUBSET Version,
         AddVersion(b, parents),
         named' \in {named, named \cup {Len(versions) + 1}}
  PROVE  EngineInv'
<1> DEFINE n == Len(versions)
<1>1. n \in Nat /\ versions \in Seq(SUBSET Nat) /\ parents \in SUBSET Nat
  BY LenProperties DEF EngineInv, Version
<1>2. versions' = Append(versions, parents) /\ SetHead(b, n + 1)
  BY DEF AddVersion
<1>3. /\ versions' \in Seq(SUBSET Nat)
      /\ Len(versions') = n + 1
      /\ \A v \in 1..n : versions'[v] = versions[v]
      /\ versions'[n + 1] = parents
  BY <1>1, <1>2, AppendProperties
<1>4. Version' = 1..(n + 1) /\ Version = 1..n
  BY <1>3 DEF Version
<1>5. \A v \in Version' : versions'[v] \subseteq 1..(v - 1)
  <2> SUFFICES ASSUME NEW v \in 1..(n + 1)
               PROVE  versions'[v] \subseteq 1..(v - 1)
    BY <1>4
  <2>1. CASE v = n + 1
    <3>1. v - 1 = n
      BY <1>1, <2>1
    <3> QED
      BY <1>3, <1>4, <2>1, <3>1
  <2>2. CASE v # n + 1
    <3>1. v \in 1..n
      BY <1>1, <2>2
    <3> QED
      BY <1>3, <1>4, <3>1 DEF EngineInv
  <2> QED
    BY <2>1, <2>2
<1>6. Version \subseteq Version' /\ n + 1 \in Version'
  BY <1>1, <1>4
<1>7. /\ DOMAIN heads' = DOMAIN heads \cup {b}
      /\ \A x \in DOMAIN heads' : heads'[x] = IF x = b THEN n + 1 ELSE heads[x]
  BY <1>2 DEF SetHead
<1> HIDE DEF n
<1>8. DOMAIN heads' \subseteq Branch /\ \A x \in DOMAIN heads' : heads'[x] \in Version'
  BY <1>6, <1>7 DEF EngineInv
<1>9. named' \subseteq Version'
  BY <1>6 DEF EngineInv, n
<1> QED
  BY <1>3, <1>5, <1>8, <1>9 DEF EngineInv

(* What the engine does for a command leaves a tree. *)
LEMMA TreeKept ==
  ASSUME EngineInv, NEW c \in Command, EngineDoes(c), named' = named
  PROVE  EngineInv'
<1>1. CASE MakesBranch(c) /\ SetHead(c.branch, heads[c.on]) /\ UNCHANGED versions
  <2>1. c.branch \in Branch
    BY <1>1 DEF Command, Branching, BranchingAt, Reading, MakesBranch
  <2>2. heads[c.on] \in Version
    BY <1>1 DEF MakesBranch, EngineInv
  <2> QED
    BY <1>1, <2>1, <2>2, HeadSet
<1>2. CASE MakesBranchAt(c) /\ SetHead(c.branch, c.at) /\ UNCHANGED versions
  <2>1. c.branch \in Branch /\ c.at \in Version
    BY <1>2 DEF Command, Branching, BranchingAt, Reading, MakesBranchAt
  <2> QED
    BY <1>2, <2>1, HeadSet
<1>3. CASE Merges(c) /\ AddVersion(c.branch, {heads[c.branch], heads[c.on]})
  <2>1. c.branch \in DOMAIN heads /\ c.on \in DOMAIN heads
    BY <1>3 DEF Merges
  <2>2. /\ c.branch \in Branch
        /\ {heads[c.branch], heads[c.on]} \in SUBSET Version
    BY <2>1 DEF EngineInv
  <2> QED
    BY <1>3, <2>2, VersionAdded
<1>4. CASE UNCHANGED engineVars
  BY <1>4 DEF engineVars, EngineInv, Version
<1> QED
  BY <1>1, <1>2, <1>3, <1>4 DEF EngineDoes

(* A call is made of one of the commands. *)
LEMMA InvCalled ==
  ASSUME ForkBaseInv, NEW c \in Command, Called(c)
  PROVE  ForkBaseInv'
<1>1. EngineInv'
  BY DEF ForkBaseInv, Called, engineVars, clientVars, EngineInv, Version
<1>2. call'[1] = c /\ calls' \in 0..MaxCalls
  BY ForkBaseAssumption DEF Called, ForkBaseInv, ClientTypes
<1>3. ClientTypes'
  BY <1>2 DEF Called, clientVars, ForkBaseInv, ClientTypes
<1> QED
  BY <1>1, <1>3, RetryCalled DEF ForkBaseInv

LEMMA InvExec ==
  ASSUME ForkBaseInv, _exec_command
  PROVE  ForkBaseInv'
<1>1. call[1] \in Command
  BY DEF ForkBaseInv, ClientTypes, _exec_command, NotSent, NotAnswered,
         Answered, Idle
<1>2. EngineInv'
  <2>1. CASE NotSent
    BY <2>1 DEF NotSent, engineVars, ForkBaseInv, EngineInv, Version
  <2>2. CASE NotAnswered
    BY <1>1, <2>2, TreeKept DEF NotAnswered, ForkBaseInv
  <2>3. CASE Answered
    BY <1>1, <2>3, TreeKept DEF Answered, clientVars, ForkBaseInv
  <2> QED
    BY <2>1, <2>2, <2>3 DEF _exec_command
<1>3. ClientTypes'
  <2>1. CASE Caught
    BY <2>1 DEF _exec_command, NotSent, NotAnswered, Answered, Caught, Ends,
                clientVars, ForkBaseInv, ClientTypes
  <2>2. CASE Answered
    BY <2>2 DEF Answered, Ends, clientVars, ForkBaseInv, ClientTypes
  <2> QED
    BY <2>1, <2>2 DEF _exec_command, NotSent, NotAnswered
<1> QED
  BY <1>2, <1>3, RetryExec DEF ForkBaseInv

LEMMA ForkBaseStep == ForkBaseInv /\ [Next]_vars => ForkBaseInv'
<1> SUFFICES ASSUME ForkBaseInv, [Next]_vars PROVE ForkBaseInv'
  OBVIOUS
<1>1. RetryInv'
  BY RetryStep DEF ForkBaseInv
<1>2. CASE connect_remote_ustore
  BY <1>1, <1>2 DEF connect_remote_ustore, engineVars, callVars, ForkBaseInv,
                    EngineInv, Version, ClientTypes
<1>3. ASSUME NEW b \in Branch, put(b) PROVE ForkBaseInv'
  <2>1. ParentsAt(b) \in SUBSET Version
    BY DEF ParentsAt, ForkBaseInv, EngineInv
  <2>2. EngineInv'
    BY <1>3, <2>1, VersionAdded DEF put, ForkBaseInv
  <2>3. ClientTypes'
    BY <1>3 DEF put, callVars, ForkBaseInv, ClientTypes
  <2> QED
    BY <1>1, <2>2, <2>3 DEF ForkBaseInv
<1>4. ASSUME NEW b \in Branch, NEW on \in Branch, branch(b, on)
      PROVE  ForkBaseInv'
  BY <1>4, InvCalled DEF branch, Command, Branching
<1>5. ASSUME NEW b \in Branch, NEW on \in Branch, NEW file \in BOOLEAN,
             merge(b, on, file)
      PROVE  ForkBaseInv'
  BY <1>5, InvCalled DEF merge, Command, Branching
<1>6. ASSUME NEW b \in Branch, NEW v \in Version,
             branch_on_semantic_version(b, v)
      PROVE  ForkBaseInv'
  <2>1. v \in Nat
    BY LenProperties DEF Version, ForkBaseInv, EngineInv
  <2> QED
    BY <1>6, <2>1, InvCalled
       DEF branch_on_semantic_version, Command, BranchingAt
<1>7. CASE head \/ list_key \/ list_branch \/ meta \/ exec_command
  BY <1>7, InvCalled
     DEF head, list_key, list_branch, meta, exec_command, Command, Reading
<1>8. CASE UNCHANGED vars
  BY <1>1, <1>8 DEF vars, engineVars, clientVars, callVars, ForkBaseInv,
                    EngineInv, Version, ClientTypes
<1> QED
  BY <1>2, <1>3, <1>4, <1>5, <1>6, <1>7, <1>8, InvExec DEF Next

(* Commands that are lost, refused or done again leave a tree: a version   *)
(* has older ones as its parents, and each branch has one that exists.     *)
THEOREM EngineTypeCorrect == Spec => []TypeOK
<1>1. ForkBaseInv => TypeOK
  <2> SUFFICES ASSUME ForkBaseInv PROVE TypeOK
    OBVIOUS
  <2>1. /\ retried_times \in 0..MAX_RETRY_TIMES
        /\ done \in Nat /\ done <= retried_times + 1
    BY DEF ForkBaseInv, RetryInv
  <2>2. done \in 0..Many
    BY <2>1, ForkBaseAssumption DEF Many
  <2> QED
    BY <2>1, <2>2 DEF ForkBaseInv, EngineInv, ClientTypes, TypeOK
<1>2. Spec => []ForkBaseInv
  BY ForkBaseInit, ForkBaseStep, PTL DEF Spec
<1> QED
  BY <1>1, <1>2, PTL
================================================================================
