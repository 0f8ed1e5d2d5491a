---------------------------- MODULE Compatibility ----------------------------
(***************************************************************************)
(* Manifests and the worker-component compatibility check of the           *)
(* scheduler (pysrc/manifest.py, pysrc/workerconn.py, pysrc/scheduler.py). *)
(*                                                                         *)
(* A package is a (name, version) pair as one indivisible value: manifests *)
(* are Python dicts from package name to version, and the check only asks  *)
(* whether a pair of the component is a pair of the worker.                *)
(***************************************************************************)

CONSTANTS
  Component,     \* the components an experiment may run
  Package,       \* (package name, version) pairs
  LibName,       \* names of libraries
  LibVersion,    \* semantic versions of libraries, as strings
  Lib,           \* Lib[c]: the component's manifest and what running it imports
  NoManifest,    \* Python's None
  DisableLevel3  \* scheduler.__debug_disable_level3_check

Manifest == [name     : LibName \cup {"DUMMY"},
             version  : LibVersion \cup {"master.0.0"},
             packages : SUBSET Package]

(* What a component's .manifest.v2.yaml declares (name, version, packages) *)
(* together with the packages that running its script really imports.      *)
Library == [name     : LibName,
            version  : LibVersion,
            packages : SUBSET Package,
            loads    : SUBSET Package]

ASSUME CompatibilityAssumption ==
  /\ Lib \in [Component -> Library]
  /\ NoManifest \notin Manifest
  /\ DisableLevel3 \in BOOLEAN

(* Manifest.capture_current_env: what the worker's interpreter has loaded; *)
(* it "does not set name and version".                                     *)
CaptureCurrentEnv(pkgs) ==
  [name |-> "DUMMY", version |-> "master.0.0", packages |-> pkgs]

(* Mutated form of the next one: only the first manifest is kept. *)
KeepFirstManifest(old, captured) == IF old = NoManifest THEN captured ELSE old

(* BaseWorkerConnection.on_msg for "response_manifest": the packages are   *)
(* replaced, name and version survive from the manifest known before.      *)
OnResponseManifest(old, captured) ==
  IF old = NoManifest
    THEN captured
    ELSE [captured EXCEPT !.name = old.name, !.version = old.version]

(* Scheduler._record_last_executed_component *)
RecordLastExecuted(m, c) ==
  IF m = NoManifest
    THEN m
    ELSE [m EXCEPT !.name = Lib[c].name, !.version = Lib[c].version]

(* SemanticVersion has an equals() method but no __eq__, so the == in the  *)
(* level-1 test compares object identities. The worker's version is an     *)
(* object built by from_version_str in on_msg or _record_last_executed_    *)
(* component, the component's one by Manifest.load: never the same object. *)
VersionIs(v, w) == FALSE

(* Scheduler.is_compatible, level 1: same library, same version. The       *)
(* mutated form looks at the name only.                                    *)
SameName(m, c) == m.name = Lib[c].name
Level1(m, c) == m.name = Lib[c].name /\ VersionIs(m.version, Lib[c].version)

(* Level 2: packages_hash digests the packages and then the name. *)
Level2(m, c) == m.packages = Lib[c].packages /\ m.name = Lib[c].name

(* Level 3: the worker has every package the component declares. *)
Level3(m, c) == ~DisableLevel3 /\ Lib[c].packages \subseteq m.packages

IsCompatible(m, c) ==
  /\ m # NoManifest
  /\ Level1(m, c) \/ Level2(m, c) \/ Level3(m, c)
==============================================================================
