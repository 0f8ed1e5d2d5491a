-------------------------------- MODULE ForkBase --------------------------------
(***************************************************************************)
(* The ForkBase storage (pysrc/pipeman/store/ustorecli.py) and the         *)
(* operations of the semantic storage that need its commands               *)
(* (pysrc/pipeman/storage.py).                                             *)
(*                                                                         *)
(* The client has two ways to the engine. Values are put and got through   *)
(* a C++ module, which connect() loads. Every other operation is a command *)
(* that an SSH client sends: branches, heads, parents, lists and merges.   *)
(* connect() does not make an SSH client; connect_remote_ustore does, and  *)
(* nothing calls it but its user. A command that fails is sent again, up   *)
(* to MAX_RETRY_TIMES times, whether or not the engine has done it.        *)
(*                                                                         *)
(* A key is a tree of versions, each naming its parents, and its branches  *)
(* each have a version as their head. Commands on two keys do not meet:    *)
(* there is one here. The engine is not part of this repository: what a    *)
(* command does there is taken from how the client uses it.                *)
(***************************************************************************)
EXTENDS Naturals, Sequences

CONSTANTS
  Branch,         \* names of branches
  MAX_RETRY_TIMES,
  MaxCalls,       \* bound: commands called
  MaxVersions     \* bound: versions the engine has room for

ASSUME ForkBaseAssumption ==
  /\ MAX_RETRY_TIMES \in Nat
  /\ MaxCalls \in Nat
  /\ MaxVersions \in Nat

VARIABLES
  (* the engine *)
  versions,      \* the parents of each version, in the order they were made
  heads,         \* the head of each branch there is
  (* the client *)
  is_connected,
  sshclient,     \* there is one; it is never given up
  named,         \* versions a version mapping names
  (* the command *)
  call,          \* <<>>, or <<c>> while _exec_command works on c
  retried_times,
  done,          \* how many times the engine has done the call, up to Many
  outcome,       \* how the last call ended: "none" when there was none
  calls          \* number of calls

engineVars == <<versions, heads>>
clientVars == <<is_connected, sshclient, named>>
callVars == <<call, retried_times, done, outcome, calls>>
vars == <<engineVars, clientVars, callVars>>

Version == 1..Len(versions)

Many == MAX_RETRY_TIMES + 2

(* branch: a new branch at the head of another, or at a version; merge:    *)
(* branch is the one that moves; exec_command: a command as it is, whose   *)
(* reply is not parsed. The others only read.                              *)
Branching == [cmd : {"branch", "merge"}, branch : Branch, on : Branch]
BranchingAt == [cmd : {"branch_at"}, branch : Branch, at : Nat]
Reading == [cmd : {"head", "list_key", "list_branch", "meta", "exec_command"}]
Command == Branching \cup BranchingAt \cup Reading

Init ==
  /\ versions = <<>>
  /\ heads = << >>
  /\ is_connected = FALSE
  /\ sshclient = FALSE
  /\ named = {}
  /\ call = <<>>
  /\ retried_times = 0
  /\ done = 0
  /\ outcome = "none"
  /\ calls = 0

Idle == call = <<>>

------------------------------------------------------------------------------
(* The engine *)

HasRoom == Len(versions) < MaxVersions

SetHead(b, v) ==
  heads' = [x \in DOMAIN heads \cup {b} |-> IF x = b THEN v ELSE heads[x]]

ParentsAt(b) == IF b \in DOMAIN heads THEN {heads[b]} ELSE {}

AddVersion(b, parents) ==
  /\ HasRoom
  /\ versions' = Append(versions, parents)
  /\ SetHead(b, Len(versions) + 1)

MakesBranch(c) ==
  /\ c.cmd = "branch" /\ c.branch \notin DOMAIN heads /\ c.on \in DOMAIN heads
MakesBranchAt(c) ==
  /\ c.cmd = "branch_at" /\ c.branch \notin DOMAIN heads /\ c.at \in Version
Merges(c) ==
  /\ c.cmd = "merge" /\ {c.branch, c.on} \subseteq DOMAIN heads /\ HasRoom

(* What a command does when it gets there; one that cannot be done is      *)
(* refused, and one that only reads changes nothing.                       *)
EngineDoes(c) ==
  \/ /\ MakesBranch(c)
     /\ SetHead(c.branch, heads[c.on])
     /\ UNCHANGED versions
  \/ /\ MakesBranchAt(c)
     /\ SetHead(c.branch, c.at)
     /\ UNCHANGED versions
  \/ /\ Merges(c)
     /\ AddVersion(c.branch, {heads[c.branch], heads[c.on]})
  \/ /\ ~MakesBranch(c) /\ ~MakesBranchAt(c) /\ ~Merges(c)
     /\ UNCHANGED engineVars

------------------------------------------------------------------------------
(* The client *)

(* connect_remote_ustore; if the SSH connection fails, nothing happens.    *)
connect_remote_ustore ==
  /\ Idle
  /\ ~is_connected
  /\ is_connected' = TRUE
  /\ sshclient' = TRUE
  /\ UNCHANGED <<engineVars, named, callVars>>

(* SemanticFileStorage.put through the C++ module: the file, then the      *)
(* mapping that names it, which the engine may refuse.                     *)
put(b) ==
  /\ Idle
  /\ AddVersion(b, ParentsAt(b))
  /\ named' \in {named, named \cup {Len(versions) + 1}}
  /\ UNCHANGED <<is_connected, sshclient, callVars>>

Called(c) ==
  /\ Idle
  /\ calls < MaxCalls
  /\ calls' = calls + 1
  /\ call' = <<c>>
  /\ retried_times' = 0
  /\ done' = 0
  /\ outcome' = "none"
  /\ UNCHANGED <<engineVars, clientVars>>

(* A command of the client.                                                *)
branch(new, based_on) == Called([cmd |-> "branch", branch |-> new, on |-> based_on])
head == Called([cmd |-> "head"])
list_key == Called([cmd |-> "list_key"])
list_branch == Called([cmd |-> "list_branch"])
meta == Called([cmd |-> "meta"])
exec_command == Called([cmd |-> "exec_command"])

(* branch_on_semantic_version: the version mapping is read first, through  *)
(* the C++ module; there is a KeyError when there is none.                 *)
branch_on_semantic_version(new, v) ==
  /\ v \in named
  /\ Called([cmd |-> "branch_at", branch |-> new, at |-> v])

(* merge sends a file by SFTP first, which takes an SSH client and works   *)
(* or raises; a string goes with the command.                              *)
merge(b, on, file) ==
  /\ file => sshclient
  /\ Called([cmd |-> "merge", branch |-> b, on |-> on])

------------------------------------------------------------------------------
(* _exec_command *)

Ends(how) ==
  /\ call' = <<>>
  /\ outcome' = how

(* The except clause: raise after the last retry. Mutated forms: one retry *)
(* more; the retries are not counted; the last error is swallowed.         *)
OneMoreRetry ==
  IF retried_times > MAX_RETRY_TIMES
    THEN /\ Ends("raised")
         /\ UNCHANGED <<is_connected, retried_times>>
    ELSE /\ is_connected' = FALSE
         /\ retried_times' = retried_times + 1
         /\ UNCHANGED <<call, outcome>>
RetryForever ==
  /\ is_connected' = FALSE
  /\ UNCHANGED <<call, outcome, retried_times>>
Swallowed ==
  IF retried_times >= MAX_RETRY_TIMES
    THEN /\ Ends("returned")
         /\ UNCHANGED <<is_connected, retried_times>>
    ELSE /\ is_connected' = FALSE
         /\ retried_times' = retried_times + 1
         /\ UNCHANGED <<call, outcome>>
Caught ==
  IF retried_times >= MAX_RETRY_TIMES
    THEN /\ Ends("raised")
         /\ UNCHANGED <<is_connected, retried_times>>
    ELSE /\ is_connected' = FALSE
         /\ retried_times' = retried_times + 1
         /\ UNCHANGED <<call, outcome>>

(* There is no SSH client (connect() did not make one), or it fails before *)
(* the engine has the command.                                             *)
NotSent ==
  /\ ~Idle
  /\ Caught
  /\ UNCHANGED <<engineVars, sshclient, named, done, calls>>

(* The engine does the command, and the reply is lost or cannot be parsed: *)
(* what the SSH client returns is a file, and the parser of every command  *)
(* takes a string.                                                         *)
NotAnswered ==
  /\ ~Idle
  /\ sshclient
  /\ EngineDoes(call[1])
  /\ done' = IF done = Many THEN done ELSE done + 1
  /\ Caught
  /\ UNCHANGED <<sshclient, named, calls>>

(* Without a parser the reply is read to its end. *)
Answered ==
  /\ ~Idle
  /\ sshclient
  /\ call[1].cmd = "exec_command"
  /\ EngineDoes(call[1])
  /\ done' = IF done = Many THEN done ELSE done + 1
  /\ Ends("returned")
  /\ UNCHANGED <<clientVars, retried_times, calls>>

_exec_command == NotSent \/ NotAnswered \/ Answered

Next ==
  \/ connect_remote_ustore
  \/ \E b \in Branch : put(b)
  \/ \E b, on \in Branch : branch(b, on)
  \/ \E b, on \in Branch, file \in BOOLEAN : merge(b, on, file)
  \/ \E b \in Branch, v \in Version : branch_on_semantic_version(b, v)
  \/ head \/ list_key \/ list_branch \/ meta \/ exec_command
  \/ _exec_command

Spec == Init /\ [][Next]_vars /\ WF_vars(_exec_command)
------------------------------------------------------------------------------
(* Properties *)

(* Types of the variables. *)
TypeOK ==
  /\ \A v \in Version : versions[v] \subseteq 1..(v - 1)
  /\ DOMAIN heads \subseteq Branch
  /\ \A b \in DOMAIN heads : heads[b] \in Version
  /\ is_connected \in BOOLEAN
  /\ sshclient \in BOOLEAN
  /\ named \subseteq Version
  /\ call = <<>> \/ call[1] \in Command
  /\ retried_times \in 0..MAX_RETRY_TIMES
  /\ done \in 0..Many
  /\ outcome \in {"none", "returned", "raised"}
  /\ calls \in 0..MaxCalls

(* A command is sent again only when the engine may not have done it, and  *)
(* not more often than configured: the engine does it at most once for     *)
(* each try, so a merge that is tried over and over adds no more than      *)
(* MAX_RETRY_TIMES versions that nobody asked for.                         *)
RetriesAreBounded ==
  /\ done <= retried_times + (IF Idle THEN 1 ELSE 0)
  /\ done <= MAX_RETRY_TIMES + 1

(* What the caller is told is true of the engine: a command that returns   *)
(* has been done by the engine, and one that raises was tried as often as  *)
(* configured (it may have been done all the same).                        *)
OutcomeIsHonest ==
  /\ outcome = "returned" => done > 0
  /\ outcome = "raised" => retried_times = MAX_RETRY_TIMES

(* The loop of _exec_command ends: with a result or an exception, provided *)
(* that the SSH client answers or raises each time it is called.           *)
CallsEnd == ~Idle ~> Idle
================================================================================
