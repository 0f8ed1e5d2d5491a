------------------------------- MODULE MCSecCask -------------------------------
(***************************************************************************)
(* Instances of SecCask for TLC. Two versions of a training library that   *)
(* share a package, and a second library, are enough for every outcome of  *)
(* the compatibility check; trainV2 declares a package of another          *)
(* environment, which no worker ever imports.                              *)
(***************************************************************************)
EXTENDS SecCask, TLC

CONSTANTS w1, w2, w3, base, numpy, torch, foreign

MCWorker == {w1, w2, w3}
MCPackage == {base, numpy, torch, foreign}
MCBasePackages == {base}
MCLibName == {"train", "clean"}
MCLibVersion == {"master.0.0", "master.0.1"}
MCComponent == {"trainV1", "trainV2", "cleanV1"}

MCLib ==
  [c \in MCComponent |->
     CASE c = "trainV1" -> [name |-> "train", version |-> "master.0.0",
                            packages |-> {numpy, torch},
                            loads |-> {numpy, torch}]
       [] c = "trainV2" -> [name |-> "train", version |-> "master.0.1",
                            packages |-> {numpy, foreign}, loads |-> {numpy}]
       [] c = "cleanV1" -> [name |-> "clean", version |-> "master.0.0",
                            packages |-> {numpy}, loads |-> {numpy}]]

(* Workers differ only in their ids. *)
Symmetry == Permutations(MCWorker)
================================================================================
