------------------------------- MODULE TrialTree -------------------------------
(***************************************************************************)
(* The tree of trial pipelines (pysrc/pipeman/TrialTree.py). A node of the *)
(* tree is the path of component keys that leads to it from the root, so   *)
(* a candidate pipeline is a leaf nobody pruned. The tree is built from a  *)
(* sequence of workspaces, of which only the pipelines matter here.        *)
(***************************************************************************)
EXTENDS Naturals, Sequences

CONSTANTS
  Key,      \* component keys: type, name and semantic version
  Dataset,  \* the keys whose type is "dataset"
  Api       \* Api[k]: the api version of k

ASSUME TrialTreeAssumption ==
  /\ Dataset \subseteq Key
  /\ Api \in [Key -> Nat]

Library == Key \ Dataset

Prefix(p, n) == SubSeq(p, 1, n)

(* _init_stage_dict: the depth of the tree and the keys of each stage. *)
Depth(ps) ==
  CHOOSE n \in {Len(ps[w]) : w \in DOMAIN ps} :
    \A w \in DOMAIN ps : Len(ps[w]) <= n

Stage(ps, i) == {ps[w][i] : w \in {v \in DOMAIN ps : i <= Len(ps[v])}}

(* _init_compatibility_dict2 indexes every pipeline up to the length of    *)
(* the first one: IndexError if one of them is shorter.                    *)
TooShort(ps) == Len(ps[1]) > 1 /\ \E w \in DOMAIN ps : Len(ps[w]) < Len(ps[1])

(* A key may follow another if some pipeline has the first at a stage i,   *)
(* some pipeline the second at stage i + 1, and the keys these two have at *)
(* stage i share their api version; the stage where the two keys are       *)
(* looked for later is not asked. Mutated form: the two keys themselves    *)
(* must share it, as an earlier version of the function required.          *)
SharesApi(ps, key, next) ==
  \E i \in 1 .. Len(ps[1]) - 1 : \E w, v \in DOMAIN ps :
    /\ key = ps[w][i]
    /\ next = ps[v][i + 1]
    /\ Api[key] = Api[next]
MayFollow(ps, key, next) ==
  \E i \in 1 .. Len(ps[1]) - 1 : \E w, v \in DOMAIN ps :
    /\ key = ps[w][i]
    /\ next = ps[v][i + 1]
    /\ Api[key] = Api[ps[v][i]]

(* Tree.add_nodes: every key of a stage is a child of every node of the    *)
(* stage before it, so the leaves are all the ways to choose one key from  *)
(* each stage.                                                             *)
Paths(ps) ==
  {c \in [1 .. Depth(ps) -> UNION {Stage(ps, i) : i \in 1 .. Depth(ps)}] :
     \A i \in 1 .. Depth(ps) : c[i] \in Stage(ps, i)}

(* _dfs_prune walks down from the root and stops at a child that may not   *)
(* follow its parent; the children of the root it never asks.              *)
Reached(ps, c) == \A i \in 1 .. Len(c) - 1 : MayFollow(ps, c[i], c[i + 1])

(* candidate_node_lists of the tree TrialTree makes of these workspaces.   *)
Candidates(ps) == {c \in Paths(ps) : Reached(ps, c)}

(* Tree.add_nodes and _mark_trained_routine: the node that ends p[1..i] is *)
(* trained if it is a dataset, or if it is on the path of a pipeline that  *)
(* has outputs already. Mutated form: on no path, but at the same stage.   *)
TrainedAtStage(done, p, i) ==
  \/ p[i] \in Dataset
  \/ \E w \in DOMAIN done : i <= Len(done[w]) /\ done[w][i] = p[i]
Trained(done, p, i) ==
  \/ p[i] \in Dataset
  \/ \E w \in DOMAIN done :
       i <= Len(done[w]) /\ Prefix(done[w], i) = Prefix(p, i)

(* _build_venvs (trialmanager.py) leaves out the trained nodes the         *)
(* pipeline begins with: the index of the first one it keeps. Mutated      *)
(* forms: everything but the dataset is kept (the retrain policy); the     *)
(* last one that is left out.                                              *)
RetrainFrom(done, p) ==
  CHOOSE n \in 1 .. Len(p) + 1 :
    /\ \A i \in 1 .. n - 1 : p[i] \in Dataset
    /\ n <= Len(p) => p[n] \notin Dataset
LastTrained(done, p) ==
  CHOOSE n \in 0 .. Len(p) :
    /\ \A i \in 1 .. n : Trained(done, p, i)
    /\ n < Len(p) => ~Trained(done, p, n + 1)
FirstToRun(done, p) ==
  CHOOSE n \in 1 .. Len(p) + 1 :
    /\ \A i \in 1 .. n - 1 : Trained(done, p, i)
    /\ n <= Len(p) => ~Trained(done, p, n)
================================================================================
