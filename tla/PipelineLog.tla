------------------------------ MODULE PipelineLog ------------------------------
(***************************************************************************)
(* What committing pipelines promises: each branch is a log of pipelines   *)
(* that never get shorter, and the outputs recorded with an entry are      *)
(* those of a run of that pipeline from its dataset on, all components one *)
(* after the other. Nothing is said of what was reused, of directories, of *)
(* archives or of crashes.                                                 *)
(***************************************************************************)
EXTENDS Naturals, Sequences

CONSTANTS
  Branch,    \* branches of the workspace
  Pipeline   \* Pipeline[b]: the pipelines that may be committed on b

VARIABLE log  \* log[b]: the entries of branch b, oldest first

(* An output is told by the components that produced it, in order. *)
FromScratch(p) ==
  [pipeline |-> p, results |-> [i \in 1..Len(p) |-> SubSeq(p, 1, i)]]

LogInit == log = [b \in Branch |-> <<>>]

Commit(b, p) ==
  /\ \A i \in 1..Len(log[b]) : Len(log[b][i].pipeline) <= Len(p)
  /\ log' = [log EXCEPT ![b] = Append(@, FromScratch(p))]

LogNext == \E b \in Branch : \E p \in Pipeline[b] : Commit(b, p)

LogSpec == LogInit /\ [][LogNext]_log
================================================================================
