----------------------------- MODULE VersionedStore -----------------------------
(***************************************************************************)
(* The file system storage, the database storage, the ForkBase storage and *)
(* the semantic storage above them (filesystem.py, pep249.py and           *)
(* ustorecli.py of pysrc/pipeman/store, pysrc/pipeman/storage.py), used as *)
(* LibraryManager.create and DatasetManager.create use them.               *)
(*                                                                         *)
(* A place is a directory <key>/<branch>. It holds one directory for each  *)
(* version put there, named by a hash that is never used twice (the time   *)
(* is hashed with the content), the file @HEAD that names one of them, and *)
(* while a put is in progress the file that will be moved to the new       *)
(* directory. Create makes four puts, each of them a sequence of           *)
(* operations on files, and the process may end between any two: what is   *)
(* on disk stays. One process writes at a time. In the database a put is   *)
(* two statements, each committed on its own: a row of blobstore stands    *)
(* for the directory of a version, a row of head for @HEAD. ForkBase does  *)
(* a put as one operation or refuses it.                                   *)
(***************************************************************************)
EXTENDS Naturals, Sequences

CONSTANTS
  Library,     \* names of libraries
  Dataset,     \* names of datasets
  Branch,      \* branches of libraries, schema hashes of datasets
  Engines,     \* values storage.storage_engine may have
  EncFS,       \* a component key is set: every file has a .hash file
  MaxCreates,  \* bound: create calls
  MaxCrashes   \* bound: ends of the process in the middle of a create

ASSUME StoreAssumption ==
  /\ Engines \subseteq {"filesystem", "rdbms", "forkbase"}
  /\ EncFS \in BOOLEAN
  /\ MaxCreates \in Nat
  /\ MaxCrashes \in Nat

VARIABLES
  engine,    \* the storage engine, read from the configuration at startup
  (* on disk, or in the database *)
  head,      \* @HEAD of a place: <<>> when empty, <<h>> for version h
  dirs,      \* the version directories in the order they were made
  staged,    \* the file of a place that a put has not moved yet
  (* in the process *)
  todo,      \* places the current create has still to put to
  step,      \* how far the put to the first of them has come
  proposed,  \* the version the current create proposed
  creates,   \* number of create calls: the sources of the current one
  crashes    \* number of times the process ended

diskVars == <<head, dirs, staged>>
processVars == <<todo, step, proposed, creates>>
vars == <<engine, diskVars, processVars, crashes>>

(* What a MetaKey names: a type and a name. *)
Component == Library \cup Dataset
Version == Nat \X Nat
NoVersion == <<>>

(* The keys of SemanticFileStorage: {prefix}::Entity::{type}::{name}, and  *)
(* {prefix}::VersionMapping::{type}::{name}::{version} for each version.   *)
Stores == {"archive", "meta"}
Place == [store : Stores, comp : Component, branch : Branch,
          ver : Version \cup {NoVersion}]
Mapping(s, c, b, v) == [store |-> s, comp |-> c, branch |-> b, ver |-> v]
Entity(s, c, b) == Mapping(s, c, b, NoVersion)

(* What a file says: an archive or a .manifest its version and the sources *)
(* it was made from, a version mapping the hash it names.                  *)
Value == [ver : Version \cup {NoVersion}, src : Nat, names : Nat]

(* The directory of a version: whether it has a .hash file and a PARENTS   *)
(* file, and what the latter says: <<h>> for version h, <<0>> for <null>.  *)
VersionDir == [place : Place, value : Value, hash : BOOLEAN,
               linked : BOOLEAN, parents : Seq(Nat)]
NewDir(v) == [place |-> Head(todo), value |-> v, hash |-> FALSE,
              linked |-> FALSE, parents |-> <<>>]
StagedFile == [value : Value, whole : BOOLEAN]

Init ==
  /\ engine \in Engines
  /\ head = <<>>
  /\ dirs = <<>>
  /\ staged = <<>>
  /\ todo = <<>>
  /\ step = "begin"
  /\ proposed = <<0, 0>>
  /\ creates = 0
  /\ crashes = 0

------------------------------------------------------------------------------
(* Reading *)

(* f with y at x, where f may not be defined yet. *)
With(f, x, y) == [z \in DOMAIN f \cup {x} |-> IF z = x THEN y ELSE f[z]]
Without(f, x) == [z \in DOMAIN f \ {x} |-> f[z]]

(* FileSystemStorage.get by branch, as the set of what it returns: empty   *)
(* when it raises. An empty @HEAD makes it open the file of the put in     *)
(* progress, which is seldom there.                                        *)
ReadHeadFile(p) ==
  IF p \notin DOMAIN head THEN {}
  ELSE IF head[p] # <<>> THEN {dirs[head[p][1]].value}
  ELSE IF p \in DOMAIN staged /\ staged[p].whole THEN {staged[p].value}
  ELSE {}

(* PEP249Storage.get by branch: (None, None) when there is no row.         *)
SelectHead(p) == IF p \in DOMAIN head THEN {dirs[head[p][1]].value} ELSE {}

(* UStoreCLI.get by branch: None when the engine's answer is a failure.    *)
AskHead(p) == {dirs[head[q][1]].value : q \in {p} \cap DOMAIN head}

(* get_branch_head, which turns None into a KeyError.                      *)
ReadHead(p) ==
  CASE engine = "filesystem" -> ReadHeadFile(p)
    [] engine = "rdbms" -> SelectHead(p)
    [] engine = "forkbase" -> AskHead(p)

(* get by version, which searches every branch of a key.                   *)
ReadVersion(s, c, h) ==
  {dirs[i].value : i \in {j \in 1..Len(dirs) :
     j = h /\ \E b \in Branch : dirs[j].place = Entity(s, c, b)}}

(* The hash the mapping of a version names. *)
HashedVersion(s, c, b, v) == {m.names : m \in ReadHead(Mapping(s, c, b, v))}

(* SemanticFileStorage.get_semantic_version, and the two reads that use it *)
GetSemanticVersion(s, c, b, v) ==
  UNION {ReadVersion(s, c, h) : h \in HashedVersion(s, c, b, v)}
GetMeta(c, b, v) == GetSemanticVersion("meta", c, b, v)
GetArchive(c, b, v) == GetSemanticVersion("archive", c, b, v)

------------------------------------------------------------------------------
(* LibraryManager.create and DatasetManager.create *)

Idle == todo = <<>>

(* The next version after v. The manifest of a library says whether its    *)
(* api is updated, that of a dataset has no such option.                   *)
ApiOptions(c) == IF c \in Library THEN BOOLEAN ELSE {FALSE}
NextLibraryVersion(v, apiUpdated) ==
  IF apiUpdated THEN <<v[1] + 1, 0>> ELSE <<v[1], v[2] + 1>>
NextDatasetVersion(v) == <<v[1], v[2] + 1>>
NextVersion(c, v, apiUpdated) ==
  IF c \in Library THEN NextLibraryVersion(v, apiUpdated)
                   ELSE NextDatasetVersion(v)

(* The four puts of a create, the archive before the metadata, the entity  *)
(* before its mapping. Mutated form: the metadata goes first.              *)
MetaFirst(c, b, v) ==
  <<Entity("meta", c, b), Mapping("meta", c, b, v),
    Entity("archive", c, b), Mapping("archive", c, b, v)>>
PutsOf(c, b, v) ==
  <<Entity("archive", c, b), Mapping("archive", c, b, v),
    Entity("meta", c, b), Mapping("meta", c, b, v)>>

(* The metadata at the branch head gives the next version; a KeyError says *)
(* that there is none yet. (An empty @HEAD raises FileNotFoundError: the   *)
(* call does nothing.)                                                     *)
Create(c, b, apiUpdated) ==
  LET metaHead == Entity("meta", c, b)
  IN  /\ Idle
      /\ creates < MaxCreates
      /\ \/ /\ metaHead \notin DOMAIN head
            /\ proposed' = <<0, 0>>
         \/ \E m \in ReadHead(metaHead) :
              proposed' = NextVersion(c, m.ver, apiUpdated)
      /\ creates' = creates + 1
      /\ todo' = PutsOf(c, b, proposed')
      /\ step' = "begin"
      /\ UNCHANGED <<engine, diskVars, crashes>>

------------------------------------------------------------------------------
(* FileSystemStorage.put, one operation on files at a time *)

Target == Head(todo)

(* What is put: an entity is made from the sources of the call and says    *)
(* the proposed version, a mapping gets what the put before it returned.   *)
EntityToPut == [ver |-> proposed, src |-> creates, names |-> 0]
MappingToPut == [ver |-> NoVersion, src |-> 0, names |-> Len(dirs)]
ValueToPut == IF Target.ver = NoVersion THEN EntityToPut ELSE MappingToPut

(* The file is opened for writing: what was there is gone. *)
OpenStaged ==
  /\ ~Idle
  /\ engine = "filesystem"
  /\ step = "begin"
  /\ staged' = With(staged, Target, [value |-> ValueToPut, whole |-> FALSE])
  /\ step' = "opened"
  /\ UNCHANGED <<engine, head, dirs, todo, proposed, creates, crashes>>

WriteStaged ==
  /\ ~Idle
  /\ step = "opened"
  /\ staged' = [staged EXCEPT ![Target].whole = TRUE]
  /\ step' = "written"
  /\ UNCHANGED <<engine, head, dirs, todo, proposed, creates, crashes>>

(* The file is moved to the directory of the new version. Mutated form:    *)
(* the head is set before the file is in its place.                        *)
HeadBeforeMove ==
  /\ ~Idle
  /\ step = "written"
  /\ step' = "linked"
  /\ UNCHANGED <<engine, diskVars, todo, proposed, creates, crashes>>
MoveValue ==
  /\ ~Idle
  /\ step = "written"
  /\ dirs' = Append(dirs, NewDir(staged[Target].value))
  /\ staged' = Without(staged, Target)
  /\ step' = IF EncFS THEN "moved" ELSE "hashed"
  /\ UNCHANGED <<engine, head, todo, proposed, creates, crashes>>

MoveHash ==
  /\ ~Idle
  /\ step = "moved"
  /\ dirs' = [dirs EXCEPT ![Len(dirs)].hash = TRUE]
  /\ step' = "hashed"
  /\ UNCHANGED <<engine, head, staged, todo, proposed, creates, crashes>>

(* PARENTS gets what @HEAD says, which is nothing when a crash left it     *)
(* empty, or <null> when there is no @HEAD.                                *)
WriteParents ==
  /\ ~Idle
  /\ step = "hashed"
  /\ dirs' = [dirs EXCEPT
                ![Len(dirs)].linked = TRUE,
                ![Len(dirs)].parents =
                  IF Target \in DOMAIN head THEN head[Target] ELSE <<0>>]
  /\ step' = "linked"
  /\ UNCHANGED <<engine, head, staged, todo, proposed, creates, crashes>>

(* _set_head_version opens @HEAD for writing, which empties it ...         *)
(* Mutated form: before the parents are written.                           *)
TruncateHeadEarly ==
  /\ ~Idle
  /\ step = "hashed"
  /\ head' = With(head, Target, <<>>)
  /\ step' = "truncated"
  /\ UNCHANGED <<engine, dirs, staged, todo, proposed, creates, crashes>>
TruncateHead ==
  /\ ~Idle
  /\ step = "linked"
  /\ head' = With(head, Target, <<>>)
  /\ step' = "truncated"
  /\ UNCHANGED <<engine, dirs, staged, todo, proposed, creates, crashes>>

(* ... and writes the new version: the put is over. *)
WriteHead ==
  /\ ~Idle
  /\ step = "truncated"
  /\ head' = With(head, Target, <<Len(dirs)>>)
  /\ todo' = Tail(todo)
  /\ step' = "begin"
  /\ UNCHANGED <<engine, dirs, staged, proposed, creates, crashes>>

(* PEP249Storage.put: the new version is a row of blobstore ...            *)
InsertBlob ==
  /\ ~Idle
  /\ engine = "rdbms"
  /\ step = "begin"
  /\ dirs' = Append(dirs, NewDir(ValueToPut))
  /\ step' = "inserted"
  /\ UNCHANGED <<engine, head, staged, todo, proposed, creates, crashes>>

(* ... and _set_head_version inserts or updates its row: the put is over.  *)
SetHeadRow ==
  /\ ~Idle
  /\ step = "inserted"
  /\ head' = With(head, Target, <<Len(dirs)>>)
  /\ todo' = Tail(todo)
  /\ step' = "begin"
  /\ UNCHANGED <<engine, dirs, staged, proposed, creates, crashes>>

(* UStoreCLI.put: the engine makes the version and moves the head, or it   *)
(* answers that it failed. The answer then has no values, and create ends  *)
(* with an AttributeError. Mutated form: a failed put goes unnoticed.      *)
PutUnchecked ==
  /\ ~Idle
  /\ engine = "forkbase"
  /\ \/ /\ dirs' = Append(dirs, NewDir(ValueToPut))
        /\ head' = With(head, Target, <<Len(dirs) + 1>>)
     \/ UNCHANGED <<dirs, head>>
  /\ todo' = Tail(todo)
  /\ UNCHANGED <<engine, staged, step, proposed, creates, crashes>>
PutThroughClient ==
  /\ ~Idle
  /\ engine = "forkbase"
  /\ \/ /\ dirs' = Append(dirs, NewDir(ValueToPut))
        /\ head' = With(head, Target, <<Len(dirs) + 1>>)
        /\ todo' = Tail(todo)
     \/ /\ todo' = <<>>
        /\ UNCHANGED <<dirs, head>>
  /\ UNCHANGED <<engine, staged, step, proposed, creates, crashes>>

(* The process ends during a create: killed, out of memory, disk full.     *)
(* The next one starts with what is on disk.                               *)
Crash ==
  /\ ~Idle
  /\ crashes < MaxCrashes
  /\ crashes' = crashes + 1
  /\ todo' = <<>>
  /\ step' = "begin"
  /\ UNCHANGED <<engine, diskVars, proposed, creates>>

Put ==
  \/ OpenStaged \/ WriteStaged \/ MoveValue \/ MoveHash
  \/ WriteParents \/ TruncateHead \/ WriteHead
  \/ InsertBlob \/ SetHeadRow
  \/ PutThroughClient

Next ==
  \/ \E c \in Component, b \in Branch :
       \E apiUpdated \in ApiOptions(c) : Create(c, b, apiUpdated)
  \/ Put
  \/ Crash

Spec == Init /\ [][Next]_vars
------------------------------------------------------------------------------
(* Properties *)

(* Types of the variables. *)
TypeOK ==
  /\ engine \in Engines
  /\ DOMAIN head \subseteq Place
  /\ \A p \in DOMAIN head : head[p] = <<>> \/ head[p][1] \in 1..Len(dirs)
  /\ dirs \in Seq(VersionDir)
  /\ DOMAIN staged \subseteq Place
  /\ \A p \in DOMAIN staged : staged[p] \in StagedFile
  /\ todo \in Seq(Place)
  /\ step \in {"begin", "opened", "written", "moved", "hashed", "linked",
               "truncated", "inserted"}
  /\ proposed \in Version
  /\ creates \in Nat
  /\ crashes \in Nat

(* Version h has its PARENTS. A parent it names is an older version of its *)
(* place, and it names none, not even <null>, only if a crash emptied the  *)
(* @HEAD it was taken from.                                                *)
HasParents(h) ==
  LET parents == dirs[h].parents
  IN  /\ dirs[h].linked
      /\ parents = <<>> => crashes > 0
      /\ parents # <<>> /\ parents[1] # 0 =>
           /\ parents[1] < h
           /\ dirs[parents[1]].place = dirs[h].place

(* A branch head never names a version that is not whole, whatever the     *)
(* point at which a put was cut short: it was put at this very place and,  *)
(* in the file system, its file was moved to its directory, with a .hash   *)
(* file and PARENTS.                                                       *)
HeadsAreWhole ==
  \A p \in DOMAIN head : head[p] # <<>> =>
    /\ dirs[head[p][1]].place = p
    /\ engine = "filesystem" => /\ dirs[head[p][1]].hash = EncFS
                                /\ HasParents(head[p][1])

(* The versions somebody can ask for, with the sources their archive and   *)
(* their metadata agree on (0 if they do not, or one cannot be read).      *)
SourcesOf(c, b, v) ==
  {m.src : m \in GetMeta(c, b, v)} \cap {a.src : a \in GetArchive(c, b, v)}

Published ==
  {x \in [comp : Component, branch : Branch,
          ver : {dirs[i].value.ver : i \in 1..Len(dirs)} \ {NoVersion}] :
     GetMeta(x.comp, x.branch, x.ver) # {}}

PublishedEntries ==
  {[comp |-> x.comp, branch |-> x.branch, ver |-> x.ver,
    src |-> IF SourcesOf(x.comp, x.branch, x.ver) = {} THEN 0
            ELSE CHOOSE s \in SourcesOf(x.comp, x.branch, x.ver) : TRUE] :
     x \in Published}

(* Crashes included, the store is a catalog: a version whose metadata can  *)
(* be read has its archive, both come from one create call, it is the      *)
(* latest of its branch when it appears and it never changes afterwards.   *)
CatalogView ==
  INSTANCE Catalog WITH catalog <- PublishedEntries, attempts <- creates
ImplementsCatalog == CatalogView!CatalogSpec

(* storage.py:42-43, get_branch_head raises "KeyError: if key does not     *)
(* exist": a head that was once set can be read after a crash.             *)
BranchHeadReadable == Idle => \A p \in DOMAIN head : ReadHead(p) # {}
================================================================================
