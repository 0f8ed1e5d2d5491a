----------------------------- MODULE MCTrialCommit -----------------------------
(***************************************************************************)
(* Instances of TrialCommit for TLC. Two extractors and two models in      *)
(* several versions, one of them with another api version; an extractor    *)
(* leaves a file and a score of its own, or the file only.                 *)
(***************************************************************************)
EXTENDS TrialCommit

CONSTANTS data, data1, ext0, ext1, model0, model1, extDev, master, dev,
          features, score

MCDataset == {data, data1}
MCKey == {data, data1, ext0, ext1, model0, model1, extDev}
MCApi == [k \in MCKey |-> IF k = ext1 THEN 1 ELSE 0]
MCBranch == {master, dev}
MCFileName == {features, score}
MCStored == MCKey

FilesOf(k) ==
  IF k \in {ext0, extDev} THEN {features, score}
  ELSE IF k = ext1 THEN {features} ELSE {score}

(* The names of files depend on the library only, as NamesFixed says; or   *)
(* ext0 leaves features of data alone, which refutes SavesOnlyNewOutputs.  *)
MCWrites == [k \in MCKey \ MCDataset |-> [d \in MCDataset |-> FilesOf(k)]]
WritesByDataset ==
  [MCWrites EXCEPT ![ext0] =
     [d \in MCDataset |-> IF d = data THEN {features, score} ELSE {score}]]

(* Two datasets, four versions of a pipeline, and one that is longer.      *)
MCPipeline ==
  [b \in MCBranch |->
     IF b = master
       THEN {<<data, ext0, model0>>, <<data, ext0, model1>>,
             <<data, ext1, model1>>, <<data1, ext0, model0>>,
             <<data, extDev, ext0, model0>>}
       ELSE {<<data, ext0>>}]

(* Pipelines that are refused: a dataset alone or with a library that      *)
(* leaves no score, shorter ones, those of what is not stored, and those   *)
(* that begin with the output of a library that leaves nothing, ext1.      *)
RefusedPipeline ==
  [b \in MCBranch |->
     IF b = master
       THEN {<<data>>, <<data, ext0>>, <<data, ext1>>, <<data1, ext0>>,
             <<data, ext0, model0>>, <<data, ext1, model0>>,
             <<data, ext0, model1>>, <<data, ext1, model1>>}
       ELSE {<<data, extDev>>}]
RefusedWrites == [MCWrites EXCEPT ![ext1] = [d \in MCDataset |-> {}]]
StoredInPart == MCKey \ {data1, model1}
================================================================================
