--------------------------- MODULE ComponentService ---------------------------
(***************************************************************************)
(* What the coordinator promises the trial manager through                 *)
(* cpp_coordinator.on_new_component: components are submitted one at a     *)
(* time, each is executed exactly once, in the order of submission, and    *)
(* the call returns only after that execution. Nothing is said of workers, *)
(* pools or messages.                                                      *)
(***************************************************************************)
EXTENDS Naturals, Sequences

CONSTANTS
  Component,  \* the components that may be submitted
  MaxTasks    \* bound on the number of submissions

VARIABLES
  submitted,  \* components handed to on_new_component, in order
  executed,   \* components some worker has run to completion, in order
  returned    \* number of on_new_component calls that have returned

serviceVars == <<submitted, executed, returned>>

ServiceInit ==
  /\ submitted = <<>>
  /\ executed = <<>>
  /\ returned = 0

(* The trial manager calls on_new_component: the previous call is over. *)
Submit(c) ==
  /\ Len(submitted) < MaxTasks
  /\ returned = Len(submitted)
  /\ submitted' = Append(submitted, c)
  /\ UNCHANGED <<executed, returned>>

(* A worker finishes the component submitted last. *)
Execute ==
  /\ Len(executed) < Len(submitted)
  /\ executed' = Append(executed, submitted[Len(executed) + 1])
  /\ UNCHANGED <<submitted, returned>>

(* on_new_component returns. *)
Return ==
  /\ returned < Len(submitted)
  /\ Len(executed) = Len(submitted)
  /\ returned' = Len(submitted)
  /\ UNCHANGED <<submitted, executed>>

ServiceNext == (\E c \in Component : Submit(c)) \/ Execute \/ Return

ServiceSpec == ServiceInit /\ [][ServiceNext]_serviceVars
===============================================================================
