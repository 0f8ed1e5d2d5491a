---------------------------- MODULE MCVersionedStore ----------------------------
(***************************************************************************)
(* Instances of VersionedStore for TLC.                                    *)
(***************************************************************************)
EXTENDS VersionedStore, TLC

CONSTANTS lib, data, master, dev

MCLibrary == {lib}
MCDataset == {data}
MCBranch == {master, dev}

(* Branches differ only in their names. *)
Symmetry == Permutations(MCBranch)
================================================================================
