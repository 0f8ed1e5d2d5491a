-------------------------- MODULE VersionedStore_proofs --------------------------
(***************************************************************************)
(* A branch head never names a version that is not whole, and the store is *)
(* a catalog of whole versions, for any names, engines, create calls and   *)
(* crashes.                                                                *)
(*                                                                         *)
(* HeadsAreWhole is not inductive: WriteHead sets a head to the version    *)
(* being put, so that version must be whole by then, whatever was cut      *)
(* short before it. PutPhase follows it through the put: it is the last    *)
(* one that was made, its .hash is there once the put has come so far, its *)
(* parents once they are written, and no head names it before that. It     *)
(* also says that @HEAD is empty in the middle of a put only, unless the   *)
(* process ended there once: an empty PARENTS is a trace of that.          *)
(* CatalogInv, in the second part, relates the four puts of a create.      *)
(***************************************************************************)
EXTENDS VersionedStore, SequenceTheorems, TLAPS

DirsTyped ==
  /\ dirs \in Seq(VersionDir)
  /\ \A i \in 1..Len(dirs) :
       dirs[i].place.ver = NoVersion => dirs[i].value.ver \in Version
HeadsTyped ==
  /\ DOMAIN head \subseteq Place
  /\ \A p \in DOMAIN head :
       /\ head[p] = <<>> \/ \E h \in 1..Len(dirs) : head[p] = <<h>>
       /\ head[p] = <<>> => engine = "filesystem"
StagedTyped ==
  /\ DOMAIN staged \subseteq Place
  /\ \A p \in DOMAIN staged :
       /\ staged[p] \in StagedFile
       /\ p.ver = NoVersion => staged[p].value.ver \in Version
CallTyped ==
  /\ engine \in Engines
  /\ todo \in Seq(Place)
  /\ step \in {"begin", "opened", "written", "moved", "hashed", "linked",
               "truncated", "inserted"}
  /\ proposed \in Version
  /\ creates \in Nat
  /\ crashes \in Nat
StoreTypes == DirsTyped /\ HeadsTyped /\ StagedTyped /\ CallTyped

PutPhase ==
  /\ step # "begin" => ~Idle
  /\ engine # "filesystem" => step \in {"begin", "inserted"}
  /\ step = "inserted" => engine = "rdbms"
  /\ step \in {"opened", "written"} => Target \in DOMAIN staged
  /\ step \in {"moved", "hashed", "linked", "truncated", "inserted"} =>
       Len(dirs) # 0 /\ dirs[Len(dirs)].place = Target
  /\ step = "moved" => EncFS
  /\ step \in {"hashed", "linked", "truncated"} => dirs[Len(dirs)].hash = EncFS
  /\ step \in {"linked", "truncated"} => HasParents(Len(dirs))
  /\ step \in {"moved", "hashed"} =>
       \A p \in DOMAIN head : head[p] # <<>> => head[p][1] < Len(dirs)
  /\ \A p \in DOMAIN head :
       head[p] = <<>> => crashes > 0 \/ (step = "truncated" /\ p = Target)

IInv == StoreTypes /\ PutPhase /\ HeadsAreWhole

LEMMA TypesImplied == StoreTypes => TypeOK
  BY DEF StoreTypes, DirsTyped, HeadsTyped, StagedTyped, CallTyped, TypeOK

LEMMA StoreInit == Init => IInv
<1> SUFFICES ASSUME Init PROVE IInv
  OBVIOUS
<1>1. StoreTypes
  <2>1. DirsTyped /\ HeadsTyped /\ StagedTyped
    BY EmptySeq DEF Init, DirsTyped, HeadsTyped, StagedTyped
  <2>2. CallTyped
    BY EmptySeq DEF Init, CallTyped, Version
  <2> QED
    BY <2>1, <2>2 DEF StoreTypes
<1>2. PutPhase /\ HeadsAreWhole
  BY DEF Init, PutPhase, HeadsAreWhole
<1> QED
  BY <1>1, <1>2 DEF IInv

------------------------------------------------------------------------------
(* What an operation leaves alone *)

(* A head that is set names a version there is.                            *)
LEMMA HeadNames ==
  ASSUME HeadsTyped, NEW p \in DOMAIN head, head[p] # <<>>
  PROVE  head[p][1] \in 1..Len(dirs) /\ head[p] = <<head[p][1]>>
<1>1. PICK h \in 1..Len(dirs) : head[p] = <<h>>
  BY DEF HeadsTyped
<1> QED
  BY <1>1

(* Neither the heads nor the versions they name change, though others may. *)
LEMMA HeadsKept ==
  ASSUME HeadsTyped, HeadsAreWhole, DirsTyped,
         engine' = engine, head' = head, crashes' = crashes, Len(dirs') \in Nat,
         Len(dirs) <= Len(dirs'),
         \A i \in 1..Len(dirs) : dirs'[i].place = dirs[i].place,
         \A p \in DOMAIN head :
           head[p] # <<>> => dirs'[head[p][1]] = dirs[head[p][1]]
  PROVE  HeadsTyped' /\ HeadsAreWhole'
<1>0. Len(dirs) \in Nat
  BY LenProperties DEF DirsTyped
<1>1. HeadsTyped'
  BY <1>0 DEF HeadsTyped
<1>2. ASSUME NEW p \in DOMAIN head, head[p] # <<>>
      PROVE  /\ dirs'[head[p][1]].place = p
             /\ engine = "filesystem" => /\ dirs'[head[p][1]].hash = EncFS
                                         /\ HasParents(head[p][1])'
  <2> DEFINE h == head[p][1]
             d == dirs[h]
  <2>1. h \in 1..Len(dirs) /\ dirs'[h] = d
    BY <1>2, HeadNames
  <2>2. /\ d.place = p
        /\ engine = "filesystem" => d.hash = EncFS /\ HasParents(h)
    BY <1>2 DEF HeadsAreWhole
  <2>3. d.parents \in Seq(Nat)
    <3>1. dirs[h] \in VersionDir
      BY <2>1, ElementOfSeq DEF DirsTyped
    <3> QED
      BY <3>1 DEF VersionDir
  <2>4. ASSUME HasParents(h) PROVE HasParents(h)'
    <3>1. CASE d.parents = <<>> \/ d.parents[1] = 0
      BY <1>2, <2>1, <2>4, <3>1 DEF HasParents
    <3>2. CASE d.parents # <<>> /\ d.parents[1] # 0
      <4>1. d.parents[1] \in Nat /\ d.parents[1] < h
        BY <2>3, <2>4, <3>2, EmptySeq, ElementOfSeq DEF HasParents
      <4>2. d.parents[1] \in 1..Len(dirs)
        BY <1>0, <2>1, <3>2, <4>1
      <4> QED
        BY <1>2, <2>1, <2>4, <3>2, <4>2 DEF HasParents
    <3> QED
      BY <3>1, <3>2
  <2> QED
    BY <2>1, <2>2, <2>4
<1> QED
  BY <1>1, <1>2 DEF HeadsAreWhole

(* A new version is made.                                                  *)
LEMMA DirAppended ==
  ASSUME DirsTyped, NEW d \in VersionDir, dirs' = Append(dirs, d),
         d.place.ver = NoVersion => d.value.ver \in Version
  PROVE  /\ DirsTyped'
         /\ Len(dirs) \in Nat /\ Len(dirs') = Len(dirs) + 1
         /\ dirs'[Len(dirs')] = d
         /\ \A i \in 1..Len(dirs) : dirs'[i] = dirs[i]
<1>1. /\ dirs' \in Seq(VersionDir)
      /\ Len(dirs) \in Nat /\ Len(dirs') = Len(dirs) + 1
      /\ dirs'[Len(dirs) + 1] = d
      /\ \A i \in 1..Len(dirs) : dirs'[i] = dirs[i]
  BY AppendProperties, LenProperties DEF DirsTyped
<1>2. \A i \in 1..Len(dirs') : i \in 1..Len(dirs) \/ i = Len(dirs) + 1
  BY <1>1
<1> QED
  BY <1>1, <1>2 DEF DirsTyped

(* The version that was made last is completed.                            *)
LEMMA LastDirSet ==
  ASSUME DirsTyped, Len(dirs) # 0, NEW d \in VersionDir,
         dirs' = [dirs EXCEPT ![Len(dirs)] = d],
         d.place = dirs[Len(dirs)].place, d.value = dirs[Len(dirs)].value
  PROVE  /\ DirsTyped'
         /\ Len(dirs) \in Nat /\ Len(dirs') = Len(dirs)
         /\ Len(dirs) \in 1..Len(dirs)
         /\ dirs'[Len(dirs)] = d
         /\ \A i \in 1..Len(dirs) : i # Len(dirs) => dirs'[i] = dirs[i]
         /\ \A i \in 1..Len(dirs) : dirs'[i].place = dirs[i].place
<1>1. Len(dirs) \in Nat /\ Len(dirs) \in 1..Len(dirs)
  BY LenProperties DEF DirsTyped
<1>2. /\ dirs' \in Seq(VersionDir) /\ Len(dirs') = Len(dirs)
      /\ \A i \in 1..Len(dirs) :
           dirs'[i] = IF i = Len(dirs) THEN d ELSE dirs[i]
  BY <1>1, ExceptSeq DEF DirsTyped
<1>3. DirsTyped'
  <2>1. ASSUME NEW i \in 1..Len(dirs')
        PROVE  dirs'[i].place.ver = NoVersion => dirs'[i].value.ver \in Version
    <3>1. i \in 1..Len(dirs)
      BY <1>2
    <3>2. dirs'[i].place = dirs[i].place /\ dirs'[i].value = dirs[i].value
      BY <1>2, <3>1
    <3> QED
      BY <3>1, <3>2 DEF DirsTyped
  <2> QED
    BY <1>2, <2>1 DEF DirsTyped
<1> QED
  BY <1>1, <1>2, <1>3

(* The place of a put, and what is put there.                              *)
LEMMA TargetTyped ==
  ASSUME CallTyped, ~Idle
  PROVE  Target \in Place /\ Tail(todo) \in Seq(Place)
  BY HeadTailProperties DEF CallTyped, Idle, Target

LEMMA ValueTyped ==
  ASSUME CallTyped, DirsTyped, ~Idle
  PROVE  /\ ValueToPut \in Value
         /\ Target.ver = NoVersion => ValueToPut.ver \in Version
<1>1. Len(dirs) \in Nat
  BY LenProperties DEF DirsTyped
<1>2. EntityToPut \in Value /\ EntityToPut.ver \in Version
  BY DEF EntityToPut, Value, CallTyped
<1>3. MappingToPut \in Value
  BY <1>1 DEF MappingToPut, Value
<1> QED
  BY <1>2, <1>3 DEF ValueToPut

LEMMA NewDirTyped ==
  ASSUME CallTyped, ~Idle, NEW x \in Value
  PROVE  /\ NewDir(x) \in VersionDir
         /\ NewDir(x).place = Target /\ NewDir(x).value = x
         /\ NewDir(x).hash = FALSE
  BY TargetTyped, EmptySeq DEF VersionDir, NewDir, Target

------------------------------------------------------------------------------
(* One lemma for each operation *)

(* An entity that can be read at a head says a version.                    *)
LEMMA ReadsAVersion ==
  ASSUME IInv, NEW p \in Place, p.ver = NoVersion, NEW m \in ReadHead(p)
  PROVE  m.ver \in Version
<1>1. ASSUME p \in DOMAIN head, head[p] # <<>>
      PROVE  dirs[head[p][1]].value.ver \in Version
  <2>1. head[p][1] \in 1..Len(dirs) /\ dirs[head[p][1]].place = p
    BY <1>1, HeadNames DEF IInv, StoreTypes, HeadsAreWhole
  <2> QED
    BY <2>1 DEF IInv, StoreTypes, DirsTyped
<1>2. CASE engine = "filesystem"
  <2>1. m \in ReadHeadFile(p)
    BY <1>2 DEF ReadHead
  <2> QED
    BY <1>1, <2>1 DEF ReadHeadFile, IInv, StoreTypes, StagedTyped
<1>3. CASE engine # "filesystem"
  <2>1. p \in DOMAIN head /\ m = dirs[head[p][1]].value
    <3>1. engine = "rdbms" \/ engine = "forkbase"
      BY <1>3, StoreAssumption DEF IInv, StoreTypes, CallTyped
    <3>2. CASE engine = "rdbms"
      BY <3>2 DEF ReadHead, SelectHead
    <3>3. CASE engine = "forkbase"
      BY <3>3 DEF ReadHead, AskHead
    <3> QED
      BY <3>1, <3>2, <3>3
  <2> QED
    BY <1>1, <1>3, <2>1 DEF IInv, StoreTypes, HeadsTyped
<1> QED
  BY <1>2, <1>3

LEMMA InvCreate ==
  ASSUME IInv, NEW c \in Component, NEW b \in Branch,
         NEW apiUpdated \in ApiOptions(c), Create(c, b, apiUpdated)
  PROVE  IInv'
<1> DEFINE p == Entity("meta", c, b)
<1>1. /\ Idle /\ step' = "begin" /\ todo' = PutsOf(c, b, proposed')
      /\ creates' = creates + 1
      /\ UNCHANGED <<engine, head, dirs, staged, crashes>>
  BY DEF Create, diskVars
<1>2. proposed' \in Version
  <2>1. CASE proposed' = <<0, 0>>
    BY <2>1 DEF Version
  <2>2. ASSUME NEW m \in ReadHead(p),
               proposed' = NextVersion(c, m.ver, apiUpdated)
        PROVE  proposed' \in Version
    <3>1. p \in Place /\ p.ver = NoVersion
      BY DEF Entity, Mapping, Place, Stores
    <3>2. m.ver \in Version
      BY <3>1, ReadsAVersion
    <3> QED
      BY <2>2, <3>2
         DEF NextVersion, NextLibraryVersion, NextDatasetVersion, Version
  <2> QED
    BY <2>1, <2>2 DEF Create
<1>3. todo' \in Seq(Place)
  <2>1. \A s \in Stores, v \in Version \cup {NoVersion} :
          Mapping(s, c, b, v) \in Place
    BY DEF Mapping, Place
  <2>2. /\ Entity("archive", c, b) \in Place
        /\ Mapping("archive", c, b, proposed') \in Place
        /\ Entity("meta", c, b) \in Place
        /\ Mapping("meta", c, b, proposed') \in Place
    BY <1>2, <2>1 DEF Entity, Stores
  <2> QED
    BY <1>1, <2>2 DEF PutsOf
<1>4. StoreTypes'
  BY <1>1, <1>2, <1>3
     DEF IInv, StoreTypes, DirsTyped, HeadsTyped, StagedTyped, CallTyped
<1>5. PutPhase' /\ HeadsAreWhole'
  <2>1. step = "begin"
    BY <1>1 DEF IInv, PutPhase
  <2> QED
    BY <1>1, <2>1 DEF IInv, PutPhase, HeadsAreWhole, HasParents
<1> QED
  BY <1>4, <1>5 DEF IInv

(* The file is staged: nothing that can be read changes.                   *)
LEMMA InvStage ==
  ASSUME IInv, OpenStaged \/ WriteStaged
  PROVE  IInv'
<1>1. /\ ~Idle /\ step' \in {"opened", "written"} /\ engine = "filesystem"
      /\ UNCHANGED <<engine, head, dirs, todo, proposed, creates, crashes>>
  BY DEF OpenStaged, WriteStaged, IInv, PutPhase
<1>2. StagedTyped' /\ Target \in DOMAIN staged'
  <2>1. CASE OpenStaged
    <3> DEFINE f == [value |-> ValueToPut, whole |-> FALSE]
    <3>1. /\ f \in StagedFile
          /\ Target.ver = NoVersion => f.value.ver \in Version
      BY <1>1, ValueTyped DEF IInv, StoreTypes, StagedFile
    <3>2. /\ DOMAIN staged' = DOMAIN staged \cup {Target}
          /\ \A z \in DOMAIN staged' :
               staged'[z] = IF z = Target THEN f ELSE staged[z]
      BY <2>1 DEF OpenStaged, With
    <3> QED
      BY <1>1, <3>1, <3>2, TargetTyped DEF IInv, StoreTypes, StagedTyped
  <2>2. CASE WriteStaged
    <3>1. /\ Target \in DOMAIN staged
          /\ DOMAIN staged' = DOMAIN staged
          /\ \A z \in DOMAIN staged : z # Target => staged'[z] = staged[z]
          /\ staged'[Target] = [staged[Target] EXCEPT !.whole = TRUE]
      BY <2>2 DEF WriteStaged, IInv, PutPhase
    <3>2. /\ staged[Target] \in StagedFile
          /\ Target.ver = NoVersion => staged[Target].value.ver \in Version
      BY <3>1 DEF IInv, StoreTypes, StagedTyped
    <3>3. /\ staged'[Target] \in StagedFile
          /\ staged'[Target].value = staged[Target].value
      BY <3>1, <3>2 DEF StagedFile
    <3> QED
      BY <3>1, <3>2, <3>3 DEF IInv, StoreTypes, StagedTyped
  <2> QED
    BY <2>1, <2>2
<1>3. StoreTypes'
  BY <1>1, <1>2 DEF IInv, StoreTypes, DirsTyped, HeadsTyped, CallTyped
<1>4. PutPhase' /\ HeadsAreWhole'
  <2>1. step # "truncated"
    BY DEF OpenStaged, WriteStaged
  <2> QED
    BY <1>1, <1>2, <2>1 DEF IInv, PutPhase, HeadsAreWhole, HasParents, Idle, Target
<1> QED
  BY <1>3, <1>4 DEF IInv

(* MoveValue and InsertBlob: a version of the place is made. Heads do not  *)
(* name it.                                                                *)
LEMMA InvNewDir ==
  ASSUME IInv, ~Idle, NEW x \in Value,
         Target.ver = NoVersion => x.ver \in Version,
         dirs' = Append(dirs, NewDir(x)), StagedTyped', step # "truncated",
         UNCHANGED <<engine, head, todo, proposed, creates, crashes>>,
         \/ engine = "filesystem" /\ step' = (IF EncFS THEN "moved" ELSE "hashed")
         \/ engine = "rdbms" /\ step' = "inserted"
  PROVE  IInv'
<1> DEFINE d == NewDir(x)
<1>1. /\ d \in VersionDir /\ d.place = Target /\ d.value = x /\ d.hash = FALSE
      /\ d.place.ver = NoVersion => d.value.ver \in Version
      /\ dirs' = Append(dirs, d)
  BY NewDirTyped DEF IInv, StoreTypes
<1>2. /\ DirsTyped'
      /\ Len(dirs) \in Nat /\ Len(dirs') = Len(dirs) + 1
      /\ dirs'[Len(dirs')] = d
      /\ \A i \in 1..Len(dirs) : dirs'[i] = dirs[i]
  <2> HIDE DEF d
  <2> QED
    BY <1>1, DirAppended DEF IInv, StoreTypes
<1>3. HeadsTyped' /\ HeadsAreWhole'
  <2>1. \A p \in DOMAIN head :
          head[p] # <<>> => dirs'[head[p][1]] = dirs[head[p][1]]
    BY <1>2, HeadNames DEF IInv, StoreTypes
  <2>2. \A i \in 1..Len(dirs) : dirs'[i].place = dirs[i].place
    BY <1>2
  <2>3. /\ engine' = engine /\ head' = head /\ Len(dirs') \in Nat
        /\ Len(dirs) <= Len(dirs')
    BY <1>2
  <2>4. HeadsTyped /\ HeadsAreWhole /\ DirsTyped
    BY DEF IInv, StoreTypes
  <2> QED
    BY <2>1, <2>2, <2>3, <2>4, HeadsKept
<1>4. StoreTypes'
  <2>1. CallTyped'
    BY DEF IInv, StoreTypes, CallTyped
  <2> QED
    BY <1>2, <1>3, <2>1 DEF StoreTypes
<1>5. PutPhase'
  <2>1. /\ ~Idle' /\ Target' = Target
        /\ dirs'[Len(dirs')].place = Target
        /\ dirs'[Len(dirs')].hash = FALSE
        /\ Len(dirs') # 0
    BY <1>1, <1>2 DEF Idle, Target
  <2>2. \A p \in DOMAIN head : head[p] # <<>> => head[p][1] < Len(dirs')
    BY <1>2, HeadNames DEF IInv, StoreTypes
  <2>3. EncFS \in BOOLEAN
    BY StoreAssumption
  <2>4. \A p \in DOMAIN head : head[p] = <<>> => crashes > 0
    BY DEF IInv, PutPhase
  <2> QED
    BY <2>1, <2>2, <2>3, <2>4 DEF PutPhase
<1> QED
  BY <1>3, <1>4, <1>5 DEF IInv

LEMMA InvMoveValue == ASSUME IInv, MoveValue PROVE IInv'
<1>1. /\ ~Idle /\ engine = "filesystem" /\ Target \in DOMAIN staged
  BY DEF MoveValue, IInv, PutPhase
<1>2. /\ staged[Target].value \in Value
      /\ Target.ver = NoVersion => staged[Target].value.ver \in Version
  BY <1>1 DEF IInv, StoreTypes, StagedTyped, StagedFile
<1>3. StagedTyped'
  <2>1. /\ DOMAIN staged' \subseteq DOMAIN staged
        /\ \A z \in DOMAIN staged' : staged'[z] = staged[z]
    BY DEF MoveValue, Without
  <2> QED
    BY <2>1 DEF IInv, StoreTypes, StagedTyped
<1> QED
  BY <1>1, <1>2, <1>3, InvNewDir DEF MoveValue

LEMMA InvInsertBlob == ASSUME IInv, InsertBlob PROVE IInv'
<1>1. ~Idle /\ engine = "rdbms"
  BY DEF InsertBlob
<1>2. ValueToPut \in Value /\ (Target.ver = NoVersion => ValueToPut.ver \in Version)
  BY <1>1, ValueTyped DEF IInv, StoreTypes
<1>3. StagedTyped'
  BY DEF InsertBlob, IInv, StoreTypes, StagedTyped
<1> QED
  BY <1>1, <1>2, <1>3, InvNewDir DEF InsertBlob

(* MoveHash and WriteParents: the version gets what it still lacks.        *)
LEMMA InvCompleteDir ==
  ASSUME IInv, step \in {"moved", "hashed"}, NEW d \in VersionDir,
         d.place = dirs[Len(dirs)].place, d.value = dirs[Len(dirs)].value,
         d.hash = EncFS,
         dirs' = [dirs EXCEPT ![Len(dirs)] = d],
         UNCHANGED <<engine, head, staged, todo, proposed, creates, crashes>>,
         step' \in {"hashed", "linked"}, step' = "linked" => HasParents(Len(dirs))'
  PROVE  IInv'
<1>1. /\ ~Idle /\ Len(dirs) # 0 /\ dirs[Len(dirs)].place = Target
      /\ engine = "filesystem"
      /\ \A p \in DOMAIN head : head[p] # <<>> => head[p][1] < Len(dirs)
  BY DEF IInv, PutPhase
<1>2. /\ DirsTyped'
      /\ Len(dirs) \in Nat /\ Len(dirs') = Len(dirs)
      /\ Len(dirs) \in 1..Len(dirs)
      /\ dirs'[Len(dirs)] = d
      /\ \A i \in 1..Len(dirs) : i # Len(dirs) => dirs'[i] = dirs[i]
      /\ \A i \in 1..Len(dirs) : dirs'[i].place = dirs[i].place
  BY <1>1, LastDirSet DEF IInv, StoreTypes
<1>3. HeadsTyped' /\ HeadsAreWhole'
  <2>1. ASSUME NEW p \in DOMAIN head, head[p] # <<>>
        PROVE  dirs'[head[p][1]] = dirs[head[p][1]]
    <3>1. head[p][1] \in 1..Len(dirs)
      BY <2>1, HeadNames DEF IInv, StoreTypes
    <3>2. head[p][1] < Len(dirs)
      BY <1>1, <2>1
    <3>3. head[p][1] # Len(dirs)
      <4>1. Len(dirs) \in Nat
        BY <1>2
      <4> QED
        BY <3>1, <3>2, <4>1
    <3> QED
      BY <1>2, <3>1, <3>3
  <2>2. /\ engine' = engine /\ head' = head /\ Len(dirs') \in Nat
        /\ Len(dirs) <= Len(dirs')
    <3>1. Len(dirs) \in Nat /\ Len(dirs') = Len(dirs)
      BY <1>2
    <3> QED
      BY <3>1
  <2>3. HeadsTyped /\ HeadsAreWhole /\ DirsTyped
    BY DEF IInv, StoreTypes
  <2>4. \A i \in 1..Len(dirs) : dirs'[i].place = dirs[i].place
    BY <1>2
  <2> QED
    BY <2>1, <2>2, <2>3, <2>4, HeadsKept
<1>4. StoreTypes'
  <2>1. StagedTyped' /\ CallTyped'
    BY DEF IInv, StoreTypes, StagedTyped, CallTyped
  <2> QED
    BY <1>2, <1>3, <2>1 DEF StoreTypes
<1>5. PutPhase'
  <2>1. ~Idle' /\ Target' = Target
    BY <1>1 DEF Idle, Target
  <2>2. \A p \in DOMAIN head : head[p] = <<>> => crashes > 0
    BY DEF IInv, PutPhase
  <2> QED
    BY <1>1, <1>2, <2>1, <2>2 DEF PutPhase
<1> QED
  BY <1>3, <1>4, <1>5 DEF IInv

(* The last version, which the put has made.                               *)
LEMMA LastDir ==
  ASSUME DirsTyped, Len(dirs) # 0
  PROVE  dirs[Len(dirs)] \in VersionDir /\ Len(dirs) \in 1..Len(dirs)
<1>1. Len(dirs) \in 1..Len(dirs)
  BY LenProperties DEF DirsTyped
<1> QED
  BY <1>1, ElementOfSeq DEF DirsTyped

LEMMA InvMoveHash == ASSUME IInv, MoveHash PROVE IInv'
<1> DEFINE d == [dirs[Len(dirs)] EXCEPT !.hash = TRUE]
<1>1. step = "moved" /\ EncFS /\ Len(dirs) # 0
  BY DEF MoveHash, IInv, PutPhase
<1>2. dirs[Len(dirs)] \in VersionDir
  BY <1>1, LastDir DEF IInv, StoreTypes
<1>3. /\ d \in VersionDir /\ d.hash = EncFS
      /\ d.place = dirs[Len(dirs)].place /\ d.value = dirs[Len(dirs)].value
  BY <1>1, <1>2, StoreAssumption DEF VersionDir
<1>4. dirs' = [dirs EXCEPT ![Len(dirs)] = d]
  BY DEF MoveHash
<1> QED
  BY <1>1, <1>3, <1>4, InvCompleteDir DEF MoveHash

LEMMA InvWriteParents == ASSUME IInv, WriteParents PROVE IInv'
<1> DEFINE ps == IF Target \in DOMAIN head THEN head[Target] ELSE <<0>>
           d == [dirs[Len(dirs)] EXCEPT !.linked = TRUE, !.parents = ps]
<1>1. /\ step = "hashed" /\ Len(dirs) # 0 /\ dirs[Len(dirs)].place = Target
      /\ dirs[Len(dirs)].hash = EncFS /\ crashes' = crashes
  BY DEF WriteParents, IInv, PutPhase
<1>2. dirs[Len(dirs)] \in VersionDir /\ Len(dirs) \in 1..Len(dirs)
  BY <1>1, LastDir DEF IInv, StoreTypes
<1>3. /\ ps \in Seq(Nat)
      /\ ps = <<>> => crashes > 0
      /\ ps # <<>> /\ ps[1] # 0 =>
           /\ ps[1] \in 1..Len(dirs) /\ ps[1] < Len(dirs)
           /\ dirs[ps[1]].place = Target
  <2>1. CASE Target \in DOMAIN head /\ head[Target] # <<>>
    <3>1. PICK h \in 1..Len(dirs) : head[Target] = <<h>>
      BY <2>1, HeadNames DEF IInv, StoreTypes
    <3>2. h < Len(dirs) /\ dirs[h].place = Target
      BY <1>1, <2>1, <3>1 DEF IInv, PutPhase, HeadsAreWhole
    <3> QED
      BY <2>1, <3>1, <3>2
  <2>2. CASE Target \in DOMAIN head /\ head[Target] = <<>>
    <3>1. crashes > 0
      BY <1>1, <2>2 DEF IInv, PutPhase
    <3> QED
      BY <2>2, <3>1, EmptySeq
  <2>3. CASE Target \notin DOMAIN head
    BY <2>3
  <2> QED
    BY <2>1, <2>2, <2>3
<1>4. /\ d \in VersionDir /\ d.hash = EncFS /\ d.parents = ps /\ d.linked
      /\ d.place = dirs[Len(dirs)].place /\ d.value = dirs[Len(dirs)].value
  <2> HIDE DEF ps
  <2> QED
    BY <1>1, <1>2, <1>3 DEF VersionDir
<1>5. dirs' = [dirs EXCEPT ![Len(dirs)] = d]
  BY DEF WriteParents
<1>6. HasParents(Len(dirs))'
  <2> HIDE DEF d, ps
  <2>1. /\ Len(dirs') = Len(dirs) /\ dirs'[Len(dirs)] = d
        /\ \A i \in 1..Len(dirs) : dirs'[i].place = dirs[i].place
    BY <1>1, <1>4, <1>5, LastDirSet DEF IInv, StoreTypes
  <2> QED
    BY <1>1, <1>3, <1>4, <2>1 DEF HasParents
<1> QED
  BY <1>1, <1>4, <1>5, <1>6, InvCompleteDir DEF WriteParents

(* @HEAD is emptied: the head is no longer set.                            *)
LEMMA InvTruncateHead == ASSUME IInv, TruncateHead PROVE IInv'
<1>1. /\ ~Idle /\ step = "linked" /\ step' = "truncated" /\ engine = "filesystem"
      /\ UNCHANGED <<engine, dirs, staged, todo, proposed, creates, crashes>>
      /\ DOMAIN head' = DOMAIN head \cup {Target}
      /\ \A z \in DOMAIN head' :
           head'[z] = IF z = Target THEN <<>> ELSE head[z]
  BY DEF TruncateHead, With, IInv, PutPhase
<1>2. HeadsTyped' /\ HeadsAreWhole'
  BY <1>1, TargetTyped DEF IInv, StoreTypes, HeadsTyped, HeadsAreWhole, HasParents
<1>3. StoreTypes'
  BY <1>1, <1>2 DEF IInv, StoreTypes, DirsTyped, StagedTyped, CallTyped
<1>4. PutPhase'
  BY <1>1 DEF IInv, PutPhase, HasParents, Idle, Target
<1> QED
  BY <1>2, <1>3, <1>4 DEF IInv

(* WriteHead and SetHeadRow: the version that was put becomes the head.    *)
LEMMA InvSetHead ==
  ASSUME IInv, ~Idle, Len(dirs) # 0, dirs[Len(dirs)].place = Target,
         engine = "filesystem" =>
           dirs[Len(dirs)].hash = EncFS /\ HasParents(Len(dirs)),
         head' = With(head, Target, <<Len(dirs)>>),
         todo' = Tail(todo), step' = "begin",
         UNCHANGED <<engine, dirs, staged, proposed, creates, crashes>>
  PROVE  IInv'
<1>1. Len(dirs) \in 1..Len(dirs)
  BY LastDir DEF IInv, StoreTypes
<1>2. /\ DOMAIN head' = DOMAIN head \cup {Target}
      /\ \A z \in DOMAIN head' :
           head'[z] = IF z = Target THEN <<Len(dirs)>> ELSE head[z]
  BY DEF With
<1>3. HeadsTyped'
  <2>1. DOMAIN head' \subseteq Place
    BY <1>2, TargetTyped DEF IInv, StoreTypes, HeadsTyped
  <2>2. ASSUME NEW p \in DOMAIN head'
        PROVE  /\ head'[p] = <<>> \/ \E h \in 1..Len(dirs) : head'[p] = <<h>>
               /\ head'[p] = <<>> => engine = "filesystem"
    <3>1. CASE p = Target
      BY <1>1, <1>2, <3>1
    <3>2. CASE p # Target
      <4>1. p \in DOMAIN head /\ head'[p] = head[p]
        BY <1>2, <2>2, <3>2
      <4> QED
        BY <4>1 DEF IInv, StoreTypes, HeadsTyped
    <3> QED
      BY <3>1, <3>2
  <2> QED
    BY <2>1, <2>2 DEF HeadsTyped
<1>4. HeadsAreWhole'
  <2>1. <<Len(dirs)>>[1] = Len(dirs)
    OBVIOUS
  <2> SUFFICES ASSUME NEW p \in DOMAIN head', head'[p] # <<>>
               PROVE  /\ dirs[head'[p][1]].place = p
                      /\ engine = "filesystem" =>
                           /\ dirs[head'[p][1]].hash = EncFS
                           /\ HasParents(head'[p][1])
    BY DEF HeadsAreWhole, HasParents
  <2>2. CASE p = Target
    BY <1>2, <2>1, <2>2 DEF HasParents
  <2>3. CASE p # Target
    <3>1. p \in DOMAIN head /\ head'[p] = head[p]
      BY <1>2, <2>3
    <3> QED
      BY <3>1 DEF IInv, HeadsAreWhole
  <2> QED
    BY <2>2, <2>3
<1>5. StoreTypes'
  <2>1. todo' \in Seq(Place)
    BY TargetTyped DEF IInv, StoreTypes
  <2>2. DirsTyped' /\ StagedTyped' /\ CallTyped'
    BY <2>1 DEF IInv, StoreTypes, DirsTyped, StagedTyped, CallTyped
  <2> QED
    BY <1>3, <2>2 DEF StoreTypes
<1>6. PutPhase'
  <2>1. ASSUME NEW p \in DOMAIN head', head'[p] = <<>> PROVE crashes' > 0
    <3>1. <<Len(dirs)>> # <<>>
      OBVIOUS
    <3>2. p # Target /\ p \in DOMAIN head /\ head[p] = <<>>
      BY <1>2, <2>1, <3>1
    <3> QED
      BY <3>2 DEF IInv, PutPhase
  <2>2. step' = "begin"
    OBVIOUS
  <2> QED
    BY <2>1, <2>2 DEF PutPhase
<1> QED
  BY <1>4, <1>5, <1>6 DEF IInv

LEMMA InvHeadSteps == ASSUME IInv, WriteHead \/ SetHeadRow PROVE IInv'
<1>1. CASE WriteHead
  BY <1>1, InvSetHead DEF WriteHead, IInv, PutPhase
<1>2. CASE SetHeadRow
  BY <1>2, InvSetHead DEF SetHeadRow, IInv, PutPhase
<1> QED
  BY <1>1, <1>2

(* ForkBase makes the version and moves the head in one step.              *)
LEMMA InvPutThroughClient == ASSUME IInv, PutThroughClient PROVE IInv'
<1> DEFINE d == NewDir(ValueToPut)
<1>1. /\ ~Idle /\ engine = "forkbase" /\ step = "begin"
      /\ UNCHANGED <<engine, staged, step, proposed, creates, crashes>>
  BY DEF PutThroughClient, IInv, PutPhase
<1>2. CASE todo' = <<>> /\ UNCHANGED <<dirs, head>>
  <2>1. StoreTypes'
    BY <1>1, <1>2, EmptySeq DEF IInv, StoreTypes, DirsTyped, HeadsTyped,
                                StagedTyped, CallTyped
  <2>2. PutPhase' /\ HeadsAreWhole'
    BY <1>1, <1>2 DEF IInv, PutPhase, HeadsAreWhole, HasParents
  <2> QED
    BY <2>1, <2>2 DEF IInv
<1>3. CASE /\ dirs' = Append(dirs, d)
           /\ head' = With(head, Target, <<Len(dirs) + 1>>)
           /\ todo' = Tail(todo)
  <2>1. d \in VersionDir /\ (d.place.ver = NoVersion => d.value.ver \in Version)
    BY <1>1, ValueTyped, NewDirTyped DEF IInv, StoreTypes
  <2>9. d.place = Target
    BY <1>1, ValueTyped, NewDirTyped DEF IInv, StoreTypes
  <2> HIDE DEF d
  <2>2. /\ DirsTyped'
        /\ Len(dirs) \in Nat /\ Len(dirs') = Len(dirs) + 1
        /\ dirs'[Len(dirs')] = d
        /\ \A i \in 1..Len(dirs) : dirs'[i] = dirs[i]
    BY <1>3, <2>1, DirAppended DEF IInv, StoreTypes
  <2>3. /\ DOMAIN head' = DOMAIN head \cup {Target}
        /\ \A z \in DOMAIN head' :
             head'[z] = IF z = Target THEN <<Len(dirs')>> ELSE head[z]
    BY <1>3, <2>2 DEF With
  <2>4. HeadsTyped'
    <3>1. DOMAIN head' \subseteq Place
      BY <1>1, <2>3, TargetTyped DEF IInv, StoreTypes, HeadsTyped
    <3>2. ASSUME NEW p \in DOMAIN head'
          PROVE  /\ head'[p] = <<>> \/ \E h \in 1..Len(dirs') : head'[p] = <<h>>
                 /\ head'[p] = <<>> => engine' = "filesystem"
      <4>1. Len(dirs') \in 1..Len(dirs') /\ 1..Len(dirs) \subseteq 1..Len(dirs')
        BY <2>2
      <4>2. CASE p = Target
        BY <1>1, <2>3, <4>1, <4>2
      <4>3. CASE p # Target
        <5>1. p \in DOMAIN head /\ head'[p] = head[p]
          BY <2>3, <3>2, <4>3
        <5> QED
          BY <1>1, <4>1, <5>1 DEF IInv, StoreTypes, HeadsTyped
      <4> QED
        BY <4>2, <4>3
    <3> QED
      BY <3>1, <3>2 DEF HeadsTyped
  <2>5. HeadsAreWhole'
    <3>1. ASSUME NEW p \in DOMAIN head', head'[p] # <<>>
          PROVE  dirs'[head'[p][1]].place = p
      <4>1. CASE p = Target
        BY <2>2, <2>3, <2>9, <4>1
      <4>2. CASE p # Target
        BY <2>2, <2>3, <3>1, <4>2, HeadNames DEF IInv, StoreTypes, HeadsAreWhole
      <4> QED
        BY <4>1, <4>2
    <3> QED
      BY <1>1, <3>1 DEF HeadsAreWhole
  <2>6. StagedTyped' /\ CallTyped'
    BY <1>1, <1>3, TargetTyped DEF IInv, StoreTypes, StagedTyped, CallTyped
  <2>7. PutPhase'
    <3>1. \A p \in DOMAIN head' : head'[p] # <<>>
      BY <1>1, <2>3 DEF IInv, StoreTypes, HeadsTyped
    <3> QED
      BY <1>1, <3>1 DEF PutPhase
  <2> QED
    BY <2>2, <2>4, <2>5, <2>6, <2>7 DEF IInv, StoreTypes
<1> QED
  BY <1>2, <1>3 DEF PutThroughClient

(* The process ends and leaves the disk as it is.                          *)
LEMMA InvCrash == ASSUME IInv, Crash PROVE IInv'
<1>1. /\ step' = "begin" /\ todo' = <<>> /\ crashes' = crashes + 1
      /\ UNCHANGED <<engine, head, dirs, staged, proposed, creates>>
  BY DEF Crash, diskVars
<1>2. StoreTypes'
  BY <1>1, EmptySeq DEF IInv, StoreTypes, DirsTyped, HeadsTyped, StagedTyped,
                        CallTyped
<1>3. PutPhase' /\ HeadsAreWhole'
  <2>1. crashes' > 0
    BY <1>1 DEF IInv, StoreTypes, CallTyped
  <2> QED
    BY <1>1, <2>1 DEF IInv, PutPhase, HeadsAreWhole, HasParents, Idle
<1> QED
  BY <1>2, <1>3 DEF IInv

------------------------------------------------------------------------------
(* The theorems *)

LEMMA InvStep == IInv /\ [Next]_vars => IInv'
<1> SUFFICES ASSUME IInv, [Next]_vars PROVE IInv'
  OBVIOUS
<1>1. ASSUME NEW c \in Component, NEW b \in Branch,
             NEW apiUpdated \in ApiOptions(c), Create(c, b, apiUpdated)
      PROVE  IInv'
  BY <1>1, InvCreate
<1>2. CASE Put
  BY <1>2, InvStage, InvMoveValue, InvMoveHash, InvWriteParents,
     InvTruncateHead, InvHeadSteps, InvInsertBlob, InvPutThroughClient DEF Put
<1>3. CASE UNCHANGED vars
  <2>1. UNCHANGED <<engine, head, dirs, staged, todo, step, proposed, creates,
                    crashes>>
    BY <1>3 DEF vars, diskVars, processVars
  <2>2. StoreTypes'
    BY <2>1 DEF IInv, StoreTypes, DirsTyped, HeadsTyped, StagedTyped, CallTyped
  <2>3. PutPhase' /\ HeadsAreWhole'
    BY <2>1 DEF IInv, PutPhase, HeadsAreWhole, HasParents, Idle, Target
  <2> QED
    BY <2>2, <2>3 DEF IInv
<1> QED
  BY <1>1, <1>2, <1>3, InvCrash DEF Next

LEMMA StoreInvariant == Spec => []IInv
  BY StoreInit, InvStep, PTL DEF Spec

(* Every variable keeps its type: above all, every head that is set names  *)
(* a version that was put, whatever was cut short.                         *)
THEOREM StoreTypeCorrect == Spec => []TypeOK
<1>1. IInv => TypeOK
  BY TypesImplied DEF IInv
<1> QED
  BY <1>1, StoreInvariant, PTL

(* A branch head never names a version that is not whole.                  *)
THEOREM HeadsCorrect == Spec => []HeadsAreWhole
<1>1. IInv => HeadsAreWhole
  BY DEF IInv
<1> QED
  BY <1>1, StoreInvariant, PTL

------------------------------------------------------------------------------
(* The catalog *)

(* IInv says nothing of what the puts are for. CatalogInv adds how the     *)
(* four puts of a create depend on each other. A version whose mapping is  *)
(* set in meta is published: its metadata and its archive are there and    *)
(* come from one call, and the head of its branch is no older. While a     *)
(* create is under way, its version is newer than all the published ones   *)
(* of the branch, and what it puts refers to what it put before.           *)

Newer(v, w) == CatalogView!Later(v, w)

IsSet(p) == p \in DOMAIN head /\ head[p] # <<>>
At(p) == dirs[head[p][1]].value

IsMapping(p) == p.store = "meta" /\ p.ver # NoVersion
EntityOf(s, p) == Entity(s, p.comp, p.branch)
ArchiveOf(p) == Mapping("archive", p.comp, p.branch, p.ver)

(* Version h of place e was made from sources s.                           *)
MadeAt(h, e, s) ==
  h \in 1..Len(dirs) /\ dirs[h].place = e /\ dirs[h].value.src = s

(* What the mapping p of a published version leads to.                     *)
SourceOf(p) == dirs[At(p).names].value.src
Backed(p) ==
  /\ MadeAt(At(p).names, EntityOf("meta", p), SourceOf(p))
  /\ dirs[At(p).names].value.ver = p.ver
  /\ IsSet(ArchiveOf(p))
  /\ MadeAt(At(ArchiveOf(p)).names, EntityOf("archive", p), SourceOf(p))
  /\ SourceOf(p) <= creates
  /\ ~Idle => SourceOf(p) < creates

(* The head of the branch of p, when it is set, is no older than p.        *)
NotOlder(p) ==
  LET v == At(EntityOf("meta", p)).ver IN v = p.ver \/ Newer(v, p.ver)
Ordered(p) ==
  /\ EntityOf("meta", p) \in DOMAIN head
  /\ IsSet(EntityOf("meta", p)) => NotOlder(p)

MappingsHold ==
  \A p \in DOMAIN head :
    IsMapping(p) => Ordered(p) /\ (head[p] # <<>> => Backed(p))

(* An empty @HEAD of meta cannot be read.                                  *)
EmptyHeadsUnstaged ==
  \A p \in DOMAIN head \cap DOMAIN staged :
    p.store = "meta" => head[p] # <<>>

(* What is put to place t is what belongs there.                           *)
Right(t, x) ==
  IF t.ver = NoVersion THEN x.ver = proposed /\ x.src = creates
  ELSE /\ MadeAt(x.names, EntityOf(t.store, t), creates)
       /\ dirs[x.names].value.ver = proposed

(* Where it is, however far the put has come.                              *)
Current ==
  IF step = "begin" THEN ValueToPut
  ELSE IF step \in {"opened", "written"} THEN staged[Target].value
  ELSE dirs[Len(dirs)].value

(* The puts that are left, from the archive, its mapping, the metadata or  *)
(* its mapping on.                                                         *)
FromArchive(c, b, v) == todo = PutsOf(c, b, v)
FromArchiveMapping(c, b, v) ==
  todo = <<Mapping("archive", c, b, v), Entity("meta", c, b),
           Mapping("meta", c, b, v)>>
FromMeta(c, b, v) == todo = <<Entity("meta", c, b), Mapping("meta", c, b, v)>>
FromMapping(c, b, v) == todo = <<Mapping("meta", c, b, v)>>
PutsLeft ==
  LET c == Target.comp
      b == Target.branch
  IN  \/ FromArchive(c, b, proposed) \/ FromArchiveMapping(c, b, proposed)
      \/ FromMeta(c, b, proposed) \/ FromMapping(c, b, proposed)

(* The version being created is the newest of its branch.                  *)
Newest ==
  \A p \in DOMAIN head :
    IsMapping(p) /\ p.comp = Target.comp /\ p.branch = Target.branch =>
      \/ Newer(proposed, p.ver)
      \/ p = Target /\ step = "truncated" /\ head[p] = <<>>

(* What was put before the put to Target.                                  *)
PutBefore ==
  LET meta == EntityOf("meta", Target)
      mapping == Mapping("archive", Target.comp, Target.branch, proposed)
  IN  /\ meta \in DOMAIN head /\ head[meta] = <<>> =>
           meta = Target /\ step = "truncated"
      /\ Target.store = "meta" =>
           /\ IsSet(mapping)
           /\ MadeAt(At(mapping).names, EntityOf("archive", Target), creates)
      /\ IsMapping(Target) => IsSet(meta) /\ At(meta).ver = proposed

CallPhase ==
  ~Idle =>
    /\ PutsLeft
    /\ Right(Target, Current)
    /\ step \in {"moved", "hashed", "linked", "truncated"} =>
         Target \notin DOMAIN staged
    /\ Newest
    /\ PutBefore

CatalogInv == MappingsHold /\ EmptyHeadsUnstaged /\ CallPhase
CatInv == IInv /\ CatalogInv

LEMMA CatalogInvInit == Init => CatalogInv
  BY DEF Init, CatalogInv, MappingsHold, EmptyHeadsUnstaged, CallPhase, Idle

(* Versions are ordered, and the next one is newer.                        *)
LEMMA NewerFacts ==
  /\ \A v \in Version : ~Newer(v, v)
  /\ \A u, v, w \in Version : Newer(u, v) /\ Newer(v, w) => Newer(u, w)
  /\ \A c, a : \A v \in Version : Newer(NextVersion(c, v, a), v)
<1>1. \A v \in Version : v[1] \in Nat /\ v[2] \in Nat
  BY DEF Version
<1> QED
  BY <1>1 DEF Newer, CatalogView!Later, NextVersion, NextLibraryVersion,
              NextDatasetVersion

LEMMA PlaceFields ==
  ASSUME NEW s, NEW c, NEW b, NEW v
  PROVE  /\ Mapping(s, c, b, v).store = s /\ Mapping(s, c, b, v).comp = c
         /\ Mapping(s, c, b, v).branch = b /\ Mapping(s, c, b, v).ver = v
         /\ Entity(s, c, b).store = s /\ Entity(s, c, b).comp = c
         /\ Entity(s, c, b).branch = b /\ Entity(s, c, b).ver = NoVersion
  BY DEF Mapping, Entity

LEMMA PlaceIs ==
  ASSUME NEW p \in Place
  PROVE  /\ p = Mapping(p.store, p.comp, p.branch, p.ver)
         /\ p.comp \in Component /\ p.branch \in Branch
         /\ p.ver # NoVersion => p.ver \in Version
         /\ p.ver = NoVersion => p = Entity(p.store, p.comp, p.branch)
  BY DEF Mapping, Entity, Place

LEMMA PlacesOf ==
  ASSUME NEW c \in Component, NEW b \in Branch, NEW s \in Stores
  PROVE  /\ Entity(s, c, b) \in Place
         /\ \A v \in Version : Mapping(s, c, b, v) \in Place /\ v # NoVersion
  BY DEF Mapping, Entity, Place, Version, NoVersion

(* Heads and tails of the puts of a create.                                *)
LEMMA TupleTails ==
  ASSUME NEW p, NEW q, NEW r, NEW s
  PROVE  /\ Head(<<p>>) = p /\ Tail(<<p>>) = <<>>
         /\ Head(<<p, q>>) = p /\ Tail(<<p, q>>) = <<q>>
         /\ Head(<<p, q, r>>) = p /\ Tail(<<p, q, r>>) = <<q, r>>
         /\ Head(<<p, q, r, s>>) = p /\ Tail(<<p, q, r, s>>) = <<q, r, s>>
<1>1. Tail(<<p>>) = <<>>
  OBVIOUS
<1>2. Tail(<<p, q>>) = <<q>>
  OBVIOUS
<1>3. Tail(<<p, q, r>>) = <<q, r>>
  OBVIOUS
<1>4. Tail(<<p, q, r, s>>) = <<q, r, s>>
  OBVIOUS
<1>5. /\ Head(<<p>>) = p /\ Head(<<p, q>>) = p
      /\ Head(<<p, q, r>>) = p /\ Head(<<p, q, r, s>>) = p
  OBVIOUS
<1> QED
  BY <1>1, <1>2, <1>3, <1>4, <1>5

(* The put that is made and the ones that stay after it.                   *)
LEMMA PutsInOrder ==
  ASSUME CallTyped, ~Idle, PutsLeft
  PROVE  LET c == Target.comp
             b == Target.branch
             v == proposed
         IN  /\ c \in Component /\ b \in Branch
             /\ \/ /\ Target = Entity("archive", c, b)
                   /\ Tail(todo) = <<Mapping("archive", c, b, v),
                        Entity("meta", c, b), Mapping("meta", c, b, v)>>
                \/ /\ Target = Mapping("archive", c, b, v)
                   /\ Tail(todo) =
                        <<Entity("meta", c, b), Mapping("meta", c, b, v)>>
                \/ /\ Target = Entity("meta", c, b)
                   /\ Tail(todo) = <<Mapping("meta", c, b, v)>>
                \/ Target = Mapping("meta", c, b, v) /\ Tail(todo) = <<>>
<1>1. Target \in Place
  BY TargetTyped
<1>2. Target.comp \in Component /\ Target.branch \in Branch
  BY <1>1, PlaceIs
<1>3. PICK c, b, v : c = Target.comp /\ b = Target.branch /\ v = proposed
  OBVIOUS
<1> DEFINE ea == Entity("archive", c, b)
           ma == Mapping("archive", c, b, v)
           em == Entity("meta", c, b)
           mm == Mapping("meta", c, b, v)
<1> HIDE DEF ea, ma, em, mm
<1>4. \/ todo = <<ea, ma, em, mm>> \/ todo = <<ma, em, mm>>
      \/ todo = <<em, mm>> \/ todo = <<mm>>
  BY <1>3 DEF PutsLeft, PutsOf, FromArchive, FromArchiveMapping, FromMeta,
              FromMapping, ea, ma, em, mm
<1>5. \/ Target = ea /\ Tail(todo) = <<ma, em, mm>>
      \/ Target = ma /\ Tail(todo) = <<em, mm>>
      \/ Target = em /\ Tail(todo) = <<mm>>
      \/ Target = mm /\ Tail(todo) = <<>>
  <2>1. CASE todo = <<ea, ma, em, mm>>
    BY <2>1, TupleTails DEF Target
  <2>2. CASE todo = <<ma, em, mm>>
    BY <2>2, TupleTails DEF Target
  <2>3. CASE todo = <<em, mm>>
    BY <2>3, TupleTails DEF Target
  <2>4. CASE todo = <<mm>>
    BY <2>4, TupleTails DEF Target
  <2> QED
    BY <1>4, <2>1, <2>2, <2>3, <2>4
<1> QED
  BY <1>2, <1>3, <1>5 DEF ea, ma, em, mm

------------------------------------------------------------------------------
(* What a step keeps of the catalog *)

DirsKept ==
  /\ Len(dirs) \in Nat /\ Len(dirs') \in Nat /\ Len(dirs) <= Len(dirs')
  /\ \A i \in 1..Len(dirs) : /\ dirs'[i].place = dirs[i].place
                             /\ dirs'[i].value = dirs[i].value
Same(p) ==
  /\ p \in DOMAIN head' <=> p \in DOMAIN head
  /\ p \in DOMAIN head => head'[p] = head[p]

LEMMA MadeAtKept ==
  ASSUME DirsKept, NEW h, NEW e, NEW s, MadeAt(h, e, s)
  PROVE  MadeAt(h, e, s)' /\ dirs'[h].value = dirs[h].value
<1>1. h \in 1..Len(dirs) /\ h \in 1..Len(dirs')
  BY DEF MadeAt, DirsKept
<1> QED
  BY <1>1 DEF MadeAt, DirsKept

LEMMA AtKept ==
  ASSUME HeadsTyped, DirsKept, NEW p, IsSet(p), Same(p)
  PROVE  IsSet(p)' /\ At(p)' = At(p)
<1>1. head[p][1] \in 1..Len(dirs)
  BY HeadNames DEF IsSet
<1> QED
  BY <1>1 DEF IsSet, At, Same, DirsKept

LEMMA BackedKept ==
  ASSUME HeadsTyped, DirsKept, creates' = creates, Idle => Idle',
         NEW p, IsSet(p), Backed(p), Same(p), Same(ArchiveOf(p))
  PROVE  Backed(p)' /\ SourceOf(p)' = SourceOf(p)
<1>1. IsSet(p)' /\ At(p)' = At(p)
  BY AtKept
<1>2. IsSet(ArchiveOf(p))' /\ At(ArchiveOf(p))' = At(ArchiveOf(p))
  BY AtKept DEF Backed
<1>3. PICK k, l, s : k = At(p).names /\ l = At(ArchiveOf(p)).names /\ s = SourceOf(p)
  OBVIOUS
<1>4. /\ MadeAt(k, EntityOf("meta", p), s)
      /\ MadeAt(l, EntityOf("archive", p), s)
  BY <1>3 DEF Backed
<1>5. /\ MadeAt(k, EntityOf("meta", p), s)' /\ dirs'[k].value = dirs[k].value
      /\ MadeAt(l, EntityOf("archive", p), s)'
  BY <1>4, MadeAtKept
<1>6. At(p)'.names = k /\ At(ArchiveOf(p))'.names = l /\ SourceOf(p)' = s
  BY <1>1, <1>2, <1>3, <1>5 DEF SourceOf
<1>7. dirs'[k].value.ver = p.ver /\ s <= creates' /\ (~Idle' => s < creates')
  BY <1>3, <1>5 DEF Backed
<1> QED
  BY <1>2, <1>3, <1>5, <1>6, <1>7 DEF Backed

LEMMA OrderedKept ==
  ASSUME HeadsTyped, DirsKept, NEW p, Ordered(p), Same(EntityOf("meta", p))
  PROVE  Ordered(p)'
<1> DEFINE e == EntityOf("meta", p)
<1>1. e' = e
  BY DEF EntityOf, Entity
<1>2. IsSet(e)' => IsSet(e)
  BY DEF IsSet, Same
<1>3. IsSet(e) => At(e)' = At(e)
  BY AtKept
<1> QED
  BY <1>2, <1>3 DEF Ordered, NotOlder, Same

LEMMA RightKept ==
  ASSUME DirsKept, proposed' = proposed, creates' = creates,
         NEW t, NEW x, Right(t, x)
  PROVE  Right(t, x)'
<1>1. CASE t.ver = NoVersion
  BY <1>1 DEF Right
<1>2. CASE t.ver # NoVersion
  <2>1. PICK s : s = creates
    OBVIOUS
  <2>2. MadeAt(x.names, EntityOf(t.store, t), s)
    BY <1>2, <2>1 DEF Right
  <2>3. /\ MadeAt(x.names, EntityOf(t.store, t), s)'
        /\ dirs'[x.names].value = dirs[x.names].value
    BY <2>2, MadeAtKept
  <2> QED
    BY <1>2, <2>1, <2>3 DEF Right
<1> QED
  BY <1>1, <1>2

LEMMA MappingsKept ==
  ASSUME CatInv, DirsKept, Idle => Idle', UNCHANGED <<head, creates>>
  PROVE  MappingsHold'
<1>1. HeadsTyped /\ \A p : Same(p)
  BY DEF CatInv, IInv, StoreTypes, Same
<1> SUFFICES ASSUME NEW p \in DOMAIN head, IsMapping(p)
             PROVE  Ordered(p)' /\ (head[p] # <<>> => Backed(p)')
  BY DEF MappingsHold
<1>2. Ordered(p) /\ (head[p] # <<>> => Backed(p))
  BY DEF CatInv, CatalogInv, MappingsHold
<1>3. Ordered(p)'
  BY <1>1, <1>2, OrderedKept
<1>4. ASSUME head[p] # <<>> PROVE Backed(p)'
  BY <1>1, <1>2, <1>4, BackedKept DEF IsSet
<1> QED
  BY <1>3, <1>4

(* The steps of a put before it touches the head.                          *)
LEMMA QuietStep ==
  ASSUME CatInv, DirsKept, ~Idle, step # "truncated", step' # "truncated",
         UNCHANGED <<head, todo, proposed, creates>>, Current' = Current,
         EmptyHeadsUnstaged',
         step' \in {"moved", "hashed", "linked"} => Target \notin DOMAIN staged'
  PROVE  CatalogInv'
<1>1. HeadsTyped
  BY DEF CatInv, IInv, StoreTypes
<1>2. \A p : Same(p)
  BY DEF Same
<1>3. MappingsHold'
  BY MappingsKept
<1>4. CallPhase'
  <2>1. ~Idle' /\ Target' = Target
    BY DEF Idle, Target
  <2>2. PICK t, x : t = Target /\ x = Current
    OBVIOUS
  <2>3. Right(t, x)'
    BY <2>2, RightKept DEF CatInv, CatalogInv, CallPhase
  <2>4. Right(Target, Current)'
    BY <2>1, <2>2, <2>3
  <2>5. PutsLeft'
    BY <2>1 DEF CatInv, CatalogInv, CallPhase, PutsLeft, PutsOf, FromArchive,
       FromArchiveMapping, FromMeta, FromMapping
  <2>6. Newest'
    BY <2>1 DEF CatInv, CatalogInv, CallPhase, Newest
  <2>7. PutBefore'
    <3> DEFINE m == Mapping("archive", t.comp, t.branch, proposed)
               e == EntityOf("meta", t)
               s == creates
               f == EntityOf("archive", t)
    <3>1. /\ e \in DOMAIN head => head[e] # <<>>
          /\ t.store = "meta" =>
               IsSet(m) /\ MadeAt(At(m).names, f, s)
          /\ IsMapping(t) => IsSet(e) /\ At(e).ver = proposed
      BY <2>2 DEF CatInv, CatalogInv, CallPhase, PutBefore
    <3>2. ASSUME t.store = "meta"
          PROVE  IsSet(m)' /\ MadeAt(At(m).names, f, s)'
      <4>1. PICK n, k, r : n = m /\ k = At(m).names /\ r = s
        OBVIOUS
      <4>2. IsSet(n)' /\ At(n)' = At(n)
        BY <1>1, <1>2, <3>1, <3>2, <4>1, AtKept
      <4>3. MadeAt(k, f, r)'
        BY <3>1, <3>2, <4>1, MadeAtKept
      <4>4. m' = n /\ s' = r
        BY <4>1
      <4> QED
        BY <4>1, <4>2, <4>3, <4>4
    <3>3. ASSUME IsMapping(t) PROVE IsSet(e)' /\ At(e)' = At(e)
      BY <1>1, <1>2, <3>1, <3>3, AtKept
    <3> QED
      BY <2>1, <2>2, <3>1, <3>2, <3>3 DEF PutBefore
  <2> QED
    BY <2>1, <2>4, <2>5, <2>6, <2>7 DEF CallPhase
<1> QED
  BY <1>3, <1>4 DEF CatalogInv

LEMMA DirsUnchanged == DirsTyped /\ dirs' = dirs => DirsKept
  BY LenProperties DEF DirsTyped, DirsKept

LEMMA CatStage ==
  ASSUME CatInv, OpenStaged \/ WriteStaged
  PROVE  CatalogInv'
<1>1. /\ ~Idle /\ step \in {"begin", "opened"} /\ step' \in {"opened", "written"}
      /\ UNCHANGED <<head, dirs, todo, proposed, creates>>
  BY DEF OpenStaged, WriteStaged
<1>2. DirsKept /\ Target' = Target
  BY <1>1, DirsUnchanged DEF CatInv, IInv, StoreTypes, Target
<1>3. CASE OpenStaged
  <2>1. staged' = With(staged, Target, [value |-> ValueToPut, whole |-> FALSE])
    BY <1>3 DEF OpenStaged
  <2>2. Current' = Current
    <3>1. step = "begin" /\ staged'[Target].value = ValueToPut
      BY <1>3, <2>1 DEF OpenStaged, With
    <3> QED
      BY <1>1, <1>2, <3>1 DEF Current
  <2>3. EmptyHeadsUnstaged'
    <3> SUFFICES ASSUME NEW p \in DOMAIN head, p \in DOMAIN staged',
                        p.store = "meta"
                 PROVE  head[p] # <<>>
      BY <1>1 DEF EmptyHeadsUnstaged
    <3>1. CASE p # Target
      <4>1. p \in DOMAIN staged
        BY <2>1, <3>1 DEF With
      <4> QED
        BY <4>1 DEF CatInv, CatalogInv, EmptyHeadsUnstaged
    <3>2. CASE p = Target
      <4>1. /\ step = "begin" /\ PutBefore /\ Newest /\ PutsLeft
            /\ CallTyped /\ Target \in Place
        BY <1>1, <1>3, TargetTyped
           DEF OpenStaged, CatInv, CatalogInv, CallPhase, IInv, StoreTypes
      <4>2. CASE Target.ver = NoVersion
        BY <3>2, <4>1, <4>2, PlaceIs DEF PutBefore, EntityOf
      <4>3. CASE Target.ver # NoVersion
        <5>1. Target.ver = proposed
          BY <1>1, <4>1, <4>3, PutsInOrder, PlaceFields
        <5>2. proposed \in Version
          BY <4>1 DEF CallTyped
        <5> QED
          BY <3>2, <4>1, <4>3, <5>1, <5>2, NewerFacts DEF Newest, IsMapping
      <4> QED
        BY <4>2, <4>3
    <3> QED
      BY <3>1, <3>2
  <2> QED
    BY <1>1, <1>2, <2>2, <2>3, QuietStep
<1>4. CASE WriteStaged
  <2>1. /\ step = "opened" /\ Target \in DOMAIN staged
        /\ staged' = [staged EXCEPT ![Target].whole = TRUE]
    BY <1>4 DEF WriteStaged, CatInv, IInv, PutPhase
  <2>2. Current' = Current
    <3>1. staged[Target] \in StagedFile
      BY <2>1 DEF CatInv, IInv, StoreTypes, StagedTyped
    <3>2. staged'[Target].value = staged[Target].value
      BY <2>1, <3>1 DEF StagedFile
    <3> QED
      BY <1>1, <1>2, <1>4, <2>1, <3>2 DEF Current, WriteStaged
  <2>3. EmptyHeadsUnstaged'
    BY <1>1, <2>1 DEF CatInv, CatalogInv, EmptyHeadsUnstaged
  <2> QED
    BY <1>1, <1>2, <2>2, <2>3, QuietStep
<1> QED
  BY <1>3, <1>4

(* MoveValue and InsertBlob.                                               *)
LEMMA NewDirKeeps ==
  ASSUME CatInv, MoveValue \/ InsertBlob
  PROVE  DirsKept /\ dirs'[Len(dirs')].value = Current
<1> DEFINE d == NewDir(Current)
<1>1. /\ ~Idle /\ step \in {"begin", "written"}
      /\ step' \in {"moved", "hashed", "inserted"}
      /\ dirs' = Append(dirs, d)
      /\ DOMAIN staged' \subseteq DOMAIN staged
      /\ step' # "inserted" => Target \notin DOMAIN staged'
      /\ UNCHANGED <<head, todo, proposed, creates>>
  <2>1. CASE MoveValue
    BY <2>1 DEF MoveValue, Without, Current
  <2>2. CASE InsertBlob
    BY <2>2 DEF InsertBlob, Current
  <2> QED
    BY <2>1, <2>2
<1>2. /\ d \in VersionDir /\ d.value = Current /\ d.place = Target
      /\ d.place.ver = NoVersion => d.value.ver \in Version
  <2>1. /\ Target \in Place
        /\ ValueToPut \in Value
        /\ Target.ver = NoVersion => ValueToPut.ver \in Version
    BY <1>1, TargetTyped, ValueTyped DEF CatInv, IInv, StoreTypes
  <2>2. step = "written" =>
          /\ staged[Target].value \in Value
          /\ Target.ver = NoVersion => staged[Target].value.ver \in Version
    BY DEF CatInv, IInv, PutPhase, StoreTypes, StagedTyped, StagedFile
  <2>3. Current \in Value /\ (Target.ver = NoVersion => Current.ver \in Version)
    BY <1>1, <2>1, <2>2 DEF Current
  <2> QED
    BY <1>1, <2>3, NewDirTyped DEF CatInv, IInv, StoreTypes
<1> HIDE DEF d
<1>3. /\ Len(dirs) \in Nat /\ Len(dirs') = Len(dirs) + 1
      /\ dirs'[Len(dirs')] = d
      /\ \A i \in 1..Len(dirs) : dirs'[i] = dirs[i]
  BY <1>1, <1>2, DirAppended DEF CatInv, IInv, StoreTypes
<1> QED
  BY <1>2, <1>3 DEF DirsKept

LEMMA CatNewDir ==
  ASSUME CatInv, MoveValue \/ InsertBlob
  PROVE  CatalogInv'
<1>1. /\ ~Idle /\ step # "truncated"
      /\ step' \in {"moved", "hashed", "inserted"}
      /\ DOMAIN staged' \subseteq DOMAIN staged
      /\ step' # "inserted" => Target \notin DOMAIN staged'
      /\ UNCHANGED <<head, todo, proposed, creates>>
  BY DEF MoveValue, InsertBlob, Without
<1>2. DirsKept /\ Current' = Current
  BY <1>1, NewDirKeeps DEF Current
<1>3. EmptyHeadsUnstaged'
  <2>1. \A z \in DOMAIN staged' : z \in DOMAIN staged
    BY <1>1
  <2> QED
    BY <1>1, <2>1 DEF CatInv, CatalogInv, EmptyHeadsUnstaged
<1> QED
  BY <1>1, <1>2, <1>3, QuietStep

(* MoveHash and WriteParents.                                              *)
LEMMA CompleteDirKeeps ==
  ASSUME CatInv, MoveHash \/ WriteParents
  PROVE  DirsKept /\ dirs'[Len(dirs')].value = dirs[Len(dirs)].value
<1>1. /\ ~Idle /\ step \in {"moved", "hashed"} /\ step' \in {"hashed", "linked"}
      /\ UNCHANGED <<head, staged, todo, proposed, creates>>
      /\ Len(dirs) # 0
  BY DEF MoveHash, WriteParents, CatInv, IInv, PutPhase
<1>2. /\ dirs \in Seq(VersionDir) /\ Len(dirs) \in 1..Len(dirs)
      /\ Len(dirs) \in Nat /\ dirs[Len(dirs)] \in VersionDir
  BY <1>1, LastDir, LenProperties DEF CatInv, IInv, StoreTypes, DirsTyped
<1>3. /\ Len(dirs') = Len(dirs)
      /\ \A i \in 1..Len(dirs) : /\ dirs'[i].place = dirs[i].place
                                 /\ dirs'[i].value = dirs[i].value
  <2>1. CASE MoveHash
    BY <1>2, <2>1 DEF MoveHash, VersionDir
  <2>2. CASE WriteParents
    BY <1>2, <2>2 DEF WriteParents, VersionDir
  <2> QED
    BY <2>1, <2>2
<1> QED
  BY <1>2, <1>3 DEF DirsKept

LEMMA CatCompleteDir ==
  ASSUME CatInv, MoveHash \/ WriteParents
  PROVE  CatalogInv'
<1>1. /\ ~Idle /\ step \in {"moved", "hashed"} /\ step' \in {"hashed", "linked"}
      /\ UNCHANGED <<head, staged, todo, proposed, creates>>
  BY DEF MoveHash, WriteParents
<1>2. DirsKept /\ Current' = Current
  BY <1>1, CompleteDirKeeps DEF Current
<1>3. EmptyHeadsUnstaged' /\ Target \notin DOMAIN staged'
  BY <1>1 DEF CatInv, CatalogInv, CallPhase, EmptyHeadsUnstaged
<1> QED
  BY <1>1, <1>2, <1>3, QuietStep

(* The call ends: a crash, or ForkBase refused the put.                    *)
LEMMA CatCallEnds ==
  ASSUME CatInv, ~Idle, Idle', UNCHANGED <<head, dirs, staged, creates>>
  PROVE  CatalogInv'
<1>1. DirsKept
  BY DirsUnchanged DEF CatInv, IInv, StoreTypes
<1>2. MappingsHold'
  BY <1>1, MappingsKept
<1> QED
  BY <1>2 DEF CatInv, CatalogInv, CallPhase, EmptyHeadsUnstaged

(* @HEAD of the target is emptied (y is <<>>) or names the new version.    *)
LEMMA HeadMoved ==
  ASSUME CatInv, ~Idle, DirsKept, UNCHANGED <<proposed, creates>>,
         NEW t, t = Target, NEW y, head' = With(head, t, y),
         y # <<>> => /\ y = <<Len(dirs')>>
                     /\ Right(t, dirs[Len(dirs)].value)'
                     /\ IsMapping(t) => Idle'
  PROVE  MappingsHold'
<1>1. /\ HeadsTyped /\ MappingsHold /\ PutsLeft /\ Newest /\ PutBefore
      /\ CallTyped
  BY DEF CatInv, CatalogInv, CallPhase, IInv, StoreTypes
<1>2. /\ DOMAIN head' = DOMAIN head \cup {t} /\ head'[t] = y
      /\ \A p : p # t => Same(p)
  BY DEF With, Same
<1>3. /\ t \in Place /\ proposed \in Version
      /\ t.ver # NoVersion => t.ver = proposed
  <2>1. t \in Place /\ proposed \in Version
    BY <1>1, TargetTyped DEF CallTyped
  <2> QED
    BY <1>1, <2>1, PutsInOrder, PlaceFields
<1>4. y # <<>> => At(t)' = dirs'[Len(dirs')].value
  BY <1>2 DEF At
<1>5. \A p : /\ EntityOf("meta", p).ver = NoVersion
             /\ EntityOf("meta", p).comp = p.comp
             /\ EntityOf("meta", p).branch = p.branch
             /\ ArchiveOf(p).store = "archive" /\ ArchiveOf(p).ver = p.ver
             /\ ArchiveOf(p).comp = p.comp /\ ArchiveOf(p).branch = p.branch
  BY PlaceFields DEF EntityOf, ArchiveOf
<1>6. ASSUME IsMapping(t)
      PROVE  Ordered(t)' /\ (y # <<>> => Backed(t)')
  <2> DEFINE e == EntityOf("meta", t)
             m == ArchiveOf(t)
             f == EntityOf("archive", t)
  <2>1. m = Mapping("archive", t.comp, t.branch, proposed)
    BY <1>3, <1>6 DEF ArchiveOf, IsMapping
  <2>2. /\ IsSet(m) /\ MadeAt(At(m).names, f, creates)
        /\ IsSet(e) /\ At(e).ver = proposed
    BY <1>1, <1>6, <2>1 DEF PutBefore, IsMapping
  <2>3. e # t /\ m # t
    BY <1>5, <1>6 DEF IsMapping
  <2>4. IsSet(e)' /\ At(e)' = At(e) /\ IsSet(m)' /\ At(m)' = At(m)
    <3>1. Same(e) /\ Same(m)
      BY <1>2, <2>3
    <3> QED
      BY <1>1, <2>2, <3>1, AtKept
  <2>5. Ordered(t)'
    BY <1>3, <1>6, <2>2, <2>4 DEF Ordered, NotOlder, IsSet, IsMapping
  <2>6. ASSUME y # <<>> PROVE Backed(t)'
    <3>1. PICK k, l, s : k = At(t)'.names /\ l = At(m).names /\ s = creates
      OBVIOUS
    <3>2. MadeAt(k, e, s)' /\ dirs'[k].value.ver = t.ver
      BY <1>3, <1>4, <1>6, <2>6, <3>1 DEF Right, IsMapping
    <3>3. MadeAt(l, f, s)'
      BY <2>2, <3>1, MadeAtKept
    <3>4. SourceOf(t)' = s
      BY <3>1, <3>2 DEF SourceOf, MadeAt
    <3>5. Idle' /\ s <= creates'
      BY <1>1, <1>6, <2>6, <3>1 DEF CallTyped
    <3> QED
      BY <2>4, <3>1, <3>2, <3>3, <3>4, <3>5 DEF Backed
  <2> QED
    BY <2>5, <2>6
<1>7. ASSUME NEW p \in DOMAIN head, p # t, IsMapping(p)
      PROVE  Ordered(p)' /\ (head[p] # <<>> => Backed(p)')
  <2>1. Ordered(p) /\ (head[p] # <<>> => Backed(p)) /\ p \in Place
    BY <1>1, <1>7 DEF MappingsHold, HeadsTyped
  <2>2. p.comp = t.comp /\ p.branch = t.branch => Newer(proposed, p.ver)
    BY <1>1, <1>7 DEF Newest
  <2>3. Ordered(p)'
    <3>1. CASE EntityOf("meta", p) # t
      <4>1. Same(EntityOf("meta", p))
        BY <1>2, <3>1
      <4> QED
        BY <1>1, <2>1, <4>1, OrderedKept
    <3>2. CASE EntityOf("meta", p) = t
      <4>1. Newer(proposed, p.ver) /\ t.ver = NoVersion
        BY <1>5, <2>2, <3>2
      <4>2. y # <<>> => At(t)'.ver = proposed
        BY <1>4, <4>1 DEF Right
      <4>3. NotOlder(p)' <=> At(t)'.ver = p.ver \/ Newer(At(t)'.ver, p.ver)
        BY <3>2 DEF NotOlder, EntityOf, Entity
      <4> QED
        BY <1>2, <3>2, <4>1, <4>2, <4>3 DEF Ordered, IsSet, EntityOf, Entity
    <3> QED
      BY <3>1, <3>2
  <2>4. ASSUME head[p] # <<>> PROVE Backed(p)'
    <3>1. ArchiveOf(p) # t
      <4> SUFFICES ASSUME ArchiveOf(p) = t PROVE FALSE
        OBVIOUS
      <4>1. p.ver = proposed /\ Newer(proposed, p.ver)
        BY <1>3, <1>5, <1>7, <2>2 DEF IsMapping
      <4> QED
        BY <1>3, <4>1, NewerFacts
    <3>2. Same(p) /\ Same(ArchiveOf(p)) /\ IsSet(p)
      BY <1>2, <1>7, <2>4, <3>1 DEF IsSet
    <3> QED
      BY <1>1, <2>1, <2>4, <3>2, BackedKept
  <2> QED
    BY <2>3, <2>4
<1> SUFFICES ASSUME NEW p \in DOMAIN head', IsMapping(p)
             PROVE  Ordered(p)' /\ (head'[p] # <<>> => Backed(p)')
  BY DEF MappingsHold
<1>8. CASE p = t
  BY <1>2, <1>6, <1>8
<1>9. CASE p # t
  BY <1>2, <1>7, <1>9 DEF Same
<1> QED
  BY <1>8, <1>9

LEMMA CatTruncateHead == ASSUME CatInv, TruncateHead PROVE CatalogInv'
<1>1. /\ ~Idle /\ step = "linked" /\ step' = "truncated"
      /\ head' = With(head, Target, <<>>)
      /\ UNCHANGED <<dirs, staged, todo, proposed, creates>>
      /\ Target' = Target /\ ~Idle'
  BY DEF TruncateHead, Target, Idle
<1>2. PICK t : t = Target
  OBVIOUS
<1>3. /\ DOMAIN head' = DOMAIN head \cup {t} /\ head'[t] = <<>>
      /\ \A p : p # t => Same(p)
  BY <1>1, <1>2 DEF With, Same
<1>4. /\ HeadsTyped /\ DirsKept
      /\ PutsLeft /\ Newest /\ PutBefore /\ t \notin DOMAIN staged
  BY <1>1, <1>2, DirsUnchanged
     DEF CatInv, CatalogInv, CallPhase, IInv, StoreTypes
<1>5. MappingsHold'
  BY <1>1, <1>2, <1>4, HeadMoved
<1>6. EmptyHeadsUnstaged'
  BY <1>1, <1>3, <1>4 DEF CatInv, CatalogInv, EmptyHeadsUnstaged, Same
<1>7. CallPhase'
  <2>1. Right(t, Current)'
    <3>1. PICK x : x = Current
      OBVIOUS
    <3>2. Current' = Current
      BY <1>1 DEF Current
    <3>3. Right(t, x)'
      BY <1>1, <1>2, <1>4, <3>1, RightKept DEF CatInv, CatalogInv, CallPhase
    <3> QED
      BY <3>1, <3>2, <3>3
  <2>2. PutsLeft'
    BY <1>1, <1>4 DEF PutsLeft, PutsOf, FromArchive, FromArchiveMapping,
       FromMeta, FromMapping
  <2>3. Newest'
    BY <1>1, <1>2, <1>3, <1>4 DEF Newest, Same
  <2>4. PutBefore'
    <3> DEFINE e == EntityOf("meta", t)
               m == Mapping("archive", t.comp, t.branch, proposed)
               f == EntityOf("archive", t)
    <3>1. /\ e \in DOMAIN head => head[e] # <<>>
          /\ t.store = "meta" => IsSet(m) /\ MadeAt(At(m).names, f, creates)
          /\ IsMapping(t) => IsSet(e) /\ At(e).ver = proposed
      BY <1>1, <1>2, <1>4 DEF PutBefore
    <3>2. e \in DOMAIN head' /\ head'[e] = <<>> => e = t
      BY <1>3, <3>1 DEF Same
    <3>3. m.store = "archive" /\ e.ver = NoVersion
      BY PlaceFields DEF EntityOf
    <3>4. ASSUME t.store = "meta"
          PROVE  IsSet(m)' /\ MadeAt(At(m).names, f, creates)'
      <4>1. PICK n, k, s : n = m /\ k = At(m).names /\ s = creates
        OBVIOUS
      <4>2. IsSet(n)' /\ At(n)' = At(n)
        <5>1. Same(n) /\ IsSet(n)
          BY <1>3, <3>1, <3>3, <3>4, <4>1
        <5> QED
          BY <1>4, <5>1, AtKept
      <4>3. MadeAt(k, f, s)'
        BY <1>4, <3>1, <3>4, <4>1, MadeAtKept
      <4>4. m' = n /\ creates' = s
        BY <1>1, <4>1
      <4> QED
        BY <4>1, <4>2, <4>3, <4>4
    <3>5. ASSUME IsMapping(t) PROVE IsSet(e)' /\ At(e)' = At(e)
      <4>1. Same(e)
        BY <1>3, <3>3, <3>5 DEF IsMapping
      <4> QED
        BY <1>4, <3>1, <3>5, <4>1, AtKept
    <3> QED
      BY <1>1, <1>2, <3>1, <3>2, <3>4, <3>5 DEF PutBefore
  <2> QED
    BY <1>1, <1>2, <1>4, <2>1, <2>2, <2>3, <2>4 DEF CallPhase
<1> QED
  BY <1>5, <1>6, <1>7 DEF CatalogInv

(* The last step of a put: the head of the target names what was put.      *)
HeadSet(t) ==
  /\ ~Idle /\ t = Target /\ DirsKept
  /\ head' = With(head, t, <<Len(dirs')>>)
  /\ Len(dirs') # 0 /\ dirs'[Len(dirs')].place = t
  /\ Right(t, dirs[Len(dirs)].value)'
  /\ todo' = Tail(todo)
  /\ step' = "begin"
  /\ UNCHANGED <<staged, proposed, creates>>

LEMMA CatSetHead ==
  ASSUME CatInv, NEW t, HeadSet(t)
  PROVE  CatalogInv'
<1>0. /\ ~Idle /\ t = Target /\ DirsKept
      /\ head' = With(head, t, <<Len(dirs')>>)
      /\ Len(dirs') # 0 /\ dirs'[Len(dirs')].place = t
      /\ Right(t, dirs[Len(dirs)].value)'
      /\ todo' = Tail(todo) /\ step' = "begin"
      /\ UNCHANGED <<staged, proposed, creates>>
  BY DEF HeadSet
<1> USE <1>0
<1>1. /\ HeadsTyped /\ CallTyped /\ EmptyHeadsUnstaged
      /\ PutsLeft /\ Newest /\ PutBefore
  BY DEF CatInv, CatalogInv, CallPhase, IInv, StoreTypes
<1>2. /\ DOMAIN head' = DOMAIN head \cup {t} /\ head'[t] = <<Len(dirs')>>
      /\ \A p : p # t => Same(p)
      /\ IsSet(t)' /\ At(t)' = dirs'[Len(dirs')].value
      /\ Len(dirs') \in 1..Len(dirs')
  BY DEF With, Same, IsSet, At, DirsKept
<1>3. PICK c \in Component, b \in Branch, v \in Version :
        c = t.comp /\ b = t.branch /\ v = proposed
  BY <1>1, PutsInOrder DEF CallTyped
<1> DEFINE ea == Entity("archive", c, b)
           ma == Mapping("archive", c, b, v)
           em == Entity("meta", c, b)
           mm == Mapping("meta", c, b, v)
<1>4. \/ t = ea /\ todo' = <<ma, em, mm>>
      \/ t = ma /\ todo' = <<em, mm>>
      \/ t = em /\ todo' = <<mm>>
      \/ t = mm /\ todo' = <<>>
  BY <1>1, <1>3, PutsInOrder
<1>5. v # NoVersion
  BY DEF Version, NoVersion
<1>6. /\ ma.ver = v /\ ma.store = "archive" /\ ma.comp = c /\ ma.branch = b
      /\ mm.ver = v /\ mm.store = "meta" /\ mm.comp = c /\ mm.branch = b
      /\ ea.ver = NoVersion /\ ea.store = "archive"
      /\ ea.comp = c /\ ea.branch = b
      /\ em.ver = NoVersion /\ em.store = "meta"
      /\ em.comp = c /\ em.branch = b
  BY PlaceFields
<1>7. MappingsHold'
  <2>1. IsMapping(t) => Idle'
    BY <1>4, <1>6 DEF IsMapping, Idle
  <2> QED
    BY <2>1, HeadMoved
<1>8. EmptyHeadsUnstaged'
  <2> SUFFICES ASSUME NEW p \in DOMAIN head', p \in DOMAIN staged,
                      p.store = "meta"
               PROVE  head'[p] # <<>>
    BY DEF EmptyHeadsUnstaged
  <2>1. CASE p = t
    BY <1>2, <2>1 DEF IsSet
  <2>2. CASE p # t
    BY <1>1, <1>2, <2>2 DEF EmptyHeadsUnstaged, Same
  <2> QED
    BY <2>1, <2>2
<1>9. CallPhase'
  <2> SUFFICES ASSUME ~Idle'
               PROVE  PutsLeft' /\ Right(Target, Current)' /\ Newest' /\ PutBefore'
    BY DEF CallPhase
  <2>1. \/ t = ea /\ Target' = ma /\ todo' = <<ma, em, mm>>
        \/ t = ma /\ Target' = em /\ todo' = <<em, mm>>
        \/ t = em /\ Target' = mm /\ todo' = <<mm>>
    <3> HIDE DEF ea, ma, em, mm
    <3>1. todo' # <<>> /\ Target' = Head(todo')
      BY DEF Idle, Target
    <3>2. CASE t = ea /\ todo' = <<ma, em, mm>>
      <4>1. Head(<<ma, em, mm>>) = ma
        BY TupleTails
      <4> QED
        BY <3>1, <3>2, <4>1
    <3>3. CASE t = ma /\ todo' = <<em, mm>>
      <4>1. Head(<<em, mm>>) = em
        BY TupleTails
      <4> QED
        BY <3>1, <3>3, <4>1
    <3>4. CASE t = em /\ todo' = <<mm>>
      <4>1. Head(<<mm>>) = mm
        BY TupleTails
      <4> QED
        BY <3>1, <3>4, <4>1
    <3> QED
      BY <1>4, <3>1, <3>2, <3>3, <3>4
  <2>2. PICK u : u = Target'
    OBVIOUS
  <2>3. u.comp = c /\ u.branch = b
    BY <1>6, <2>1, <2>2
  <2>4. PutsLeft'
    <3>1. proposed' = v /\ Target' = u
      BY <1>3, <2>2
    <3> QED
      BY <2>1, <2>2, <2>3, <3>1
         DEF PutsLeft, FromArchiveMapping, FromMeta, FromMapping
  <2>5. ~IsMapping(t)
    BY <1>6, <2>1 DEF IsMapping
  <2>6. Right(u, Current)'
    <3>1. Current' = IF u.ver = NoVersion THEN EntityToPut' ELSE MappingToPut'
      BY <2>2 DEF Current, ValueToPut
    <3>2. CASE u = em
      BY <1>3, <1>6, <3>1, <3>2 DEF Right, EntityToPut
    <3>3. CASE u # em
      <4>1. /\ t.ver = NoVersion /\ u.ver # NoVersion
            /\ t = EntityOf(u.store, u)
        BY <1>5, <1>6, <2>1, <2>2, <3>3 DEF EntityOf
      <4>2. /\ dirs'[Len(dirs')].value.ver = proposed'
            /\ dirs'[Len(dirs')].value.src = creates'
        BY <4>1 DEF Right
      <4>3. Current'.names = Len(dirs')
        BY <3>1, <4>1 DEF MappingToPut
      <4> QED
        BY <1>2, <4>1, <4>2, <4>3 DEF Right, MadeAt
    <3> QED
      BY <3>2, <3>3
  <2>7. Newest'
    <3> SUFFICES ASSUME NEW p \in DOMAIN head', IsMapping(p),
                        p.comp = c, p.branch = b
                 PROVE  Newer(v, p.ver)
      BY <1>3, <2>2, <2>3 DEF Newest
    <3>1. p # t /\ p \in DOMAIN head
      BY <1>2, <2>5
    <3> QED
      BY <1>1, <1>3, <3>1 DEF Newest
  <2>8. PutBefore'
    <3> DEFINE f == EntityOf("archive", u)
    <3>1. EntityOf("meta", t) = em /\ EntityOf("meta", u) = em
          /\ EntityOf("archive", t) = ea /\ f = ea
      BY <1>3, <2>3 DEF EntityOf
    <3>2. ~(em \in DOMAIN head' /\ head'[em] = <<>>)
      <4>1. CASE em = t
        BY <1>2, <4>1 DEF IsSet
      <4>2. CASE em # t
        BY <1>1, <1>2, <3>1, <4>2 DEF PutBefore, Same
      <4> QED
        BY <4>1, <4>2
    <3>3. ASSUME u.store = "meta"
          PROVE  IsSet(ma)' /\ MadeAt(At(ma).names, ea, creates)'
      <4>1. CASE t = ma
        BY <1>2, <1>5, <1>6, <3>1, <4>1 DEF Right
      <4>2. CASE t # ma
        <5>1. t.store = "meta"
          BY <1>6, <2>1, <2>2, <3>3, <4>2
        <5>2. PICK k, s : k = At(ma).names /\ s = creates
          OBVIOUS
        <5>3. IsSet(ma) /\ MadeAt(k, ea, s)
          BY <1>1, <1>3, <3>1, <5>1, <5>2 DEF PutBefore
        <5>4. Same(ma)
          BY <1>2, <4>2
        <5>5. IsSet(ma)' /\ At(ma)' = At(ma)
          BY <1>1, <5>3, <5>4, AtKept
        <5>6. MadeAt(k, ea, s)'
          BY <5>3, MadeAtKept
        <5> QED
          BY <5>2, <5>5, <5>6
      <4> QED
        BY <4>1, <4>2
    <3>4. ASSUME IsMapping(u) PROVE IsSet(em)' /\ At(em)'.ver = v
      <4>1. t = em
        BY <1>6, <2>1, <2>2, <3>4 DEF IsMapping
      <4> QED
        BY <1>2, <1>3, <1>6, <4>1 DEF Right
    <3>5. Target' = u /\ proposed' = v /\ c = u.comp /\ b = u.branch
      BY <1>3, <2>2, <2>3
    <3> QED
      BY <3>1, <3>2, <3>3, <3>4, <3>5 DEF PutBefore
  <2> QED
    BY <2>2, <2>4, <2>6, <2>7, <2>8
<1> QED
  BY <1>7, <1>8, <1>9 DEF CatalogInv

LEMMA SetsHead ==
  ASSUME CatInv, WriteHead \/ SetHeadRow
  PROVE  \E t : HeadSet(t)
<1>1. /\ ~Idle /\ step \in {"truncated", "inserted"} /\ step' = "begin"
      /\ head' = With(head, Target, <<Len(dirs)>>) /\ todo' = Tail(todo)
      /\ UNCHANGED <<dirs, staged, proposed, creates>>
  BY DEF WriteHead, SetHeadRow
<1>2. PICK t, x : t = Target /\ x = dirs[Len(dirs)].value
  OBVIOUS
<1>3. DirsKept /\ Len(dirs) # 0 /\ dirs[Len(dirs)].place = t
  BY <1>1, <1>2, DirsUnchanged DEF CatInv, IInv, StoreTypes, PutPhase
<1>4. Right(t, dirs[Len(dirs)].value)'
  <2>1. Right(t, x)
    BY <1>1, <1>2 DEF CatInv, CatalogInv, CallPhase, Current
  <2>2. Right(t, x)'
    BY <1>1, <1>3, <2>1, RightKept
  <2> QED
    BY <1>1, <1>2, <2>2
<1> QED
  BY <1>1, <1>2, <1>3, <1>4 DEF HeadSet

(* ForkBase: the same in one step, or the call ends.                       *)
LEMMA ClientSetsHead ==
  ASSUME CatInv, PutThroughClient
  PROVE  \/ \E t : HeadSet(t)
         \/ ~Idle /\ Idle' /\ UNCHANGED <<head, dirs, staged, creates>>
<1> DEFINE d == NewDir(ValueToPut)
<1>1. /\ ~Idle /\ engine = "forkbase" /\ step = "begin"
      /\ UNCHANGED <<engine, staged, step, proposed, creates, crashes>>
  BY DEF PutThroughClient, CatInv, IInv, PutPhase
<1>2. CASE todo' = <<>> /\ UNCHANGED <<dirs, head>>
  BY <1>1, <1>2 DEF Idle
<1>3. CASE /\ dirs' = Append(dirs, d)
           /\ head' = With(head, Target, <<Len(dirs) + 1>>)
           /\ todo' = Tail(todo)
  <2>1. PICK t, x : t = Target /\ x = ValueToPut
    OBVIOUS
  <2>2. /\ d \in VersionDir /\ d.place = t /\ d.value = x
        /\ d.place.ver = NoVersion => d.value.ver \in Version
    BY <1>1, <2>1, ValueTyped, NewDirTyped DEF CatInv, IInv, StoreTypes
  <2> HIDE DEF d
  <2>3. /\ Len(dirs) \in Nat /\ Len(dirs') = Len(dirs) + 1
        /\ dirs'[Len(dirs')] = d
        /\ \A i \in 1..Len(dirs) : dirs'[i] = dirs[i]
    BY <1>3, <2>2, DirAppended DEF CatInv, IInv, StoreTypes
  <2>4. DirsKept /\ Len(dirs') # 0 /\ dirs'[Len(dirs')].place = t
    BY <2>2, <2>3 DEF DirsKept
  <2>5. Right(t, dirs[Len(dirs)].value)'
    <3>1. Right(t, x)
      BY <1>1, <2>1 DEF CatInv, CatalogInv, CallPhase, Current
    <3>2. Right(t, x)'
      BY <1>1, <2>4, <3>1, RightKept
    <3> QED
      BY <2>2, <2>3, <3>2
  <2>6. head' = With(head, t, <<Len(dirs')>>) /\ step' = "begin"
    BY <1>1, <1>3, <2>1, <2>3
  <2> QED
    BY <1>1, <1>3, <2>1, <2>4, <2>5, <2>6 DEF HeadSet
<1> QED
  BY <1>2, <1>3 DEF PutThroughClient

------------------------------------------------------------------------------
(* Reading a head in the middle of all this *)

LEMMA ReadsHead ==
  ASSUME CatInv, NEW p \in Place
  PROVE  /\ IsSet(p) => ReadHead(p) = {At(p)}
         /\ p.store = "meta" /\ ~IsSet(p) => ReadHead(p) = {}
<1>1. /\ HeadsTyped /\ EmptyHeadsUnstaged
      /\ engine = "filesystem" \/ engine = "rdbms" \/ engine = "forkbase"
  BY StoreAssumption DEF CatInv, CatalogInv, IInv, StoreTypes, CallTyped
<1>2. CASE engine = "filesystem"
  <2>1. ReadHead(p) = ReadHeadFile(p)
    BY <1>2 DEF ReadHead
  <2> QED
    BY <1>1, <2>1 DEF ReadHeadFile, IsSet, At, EmptyHeadsUnstaged
<1>3. CASE engine # "filesystem"
  <2>1. IsSet(p) <=> p \in DOMAIN head
    BY <1>1, <1>3 DEF HeadsTyped, IsSet
  <2>2. ReadHead(p) = IF p \in DOMAIN head THEN {At(p)} ELSE {}
    <3>1. CASE engine = "rdbms"
      BY <3>1 DEF ReadHead, SelectHead, At
    <3>2. CASE engine = "forkbase"
      BY <3>2 DEF ReadHead, AskHead, At
    <3> QED
      BY <1>1, <1>3, <3>1, <3>2
  <2> QED
    BY <2>1, <2>2
<1> QED
  BY <1>2, <1>3

LEMMA CatCreate ==
  ASSUME CatInv, NEW c \in Component, NEW b \in Branch,
         NEW apiUpdated \in ApiOptions(c), Create(c, b, apiUpdated),
         proposed' \in Version
  PROVE  CatalogInv'
<1> DEFINE e == Entity("meta", c, b)
<1>1. /\ Idle /\ step' = "begin" /\ todo' = PutsOf(c, b, proposed')
      /\ creates' = creates + 1
      /\ UNCHANGED <<engine, head, dirs, staged, crashes>>
  BY DEF Create, diskVars
<1>2. /\ MappingsHold /\ EmptyHeadsUnstaged /\ HeadsTyped
      /\ creates \in Nat /\ e \in Place
  BY PlacesOf DEF CatInv, CatalogInv, IInv, StoreTypes, CallTyped, Stores
<1>3. PICK v \in Version : v = proposed'
  OBVIOUS
<1>4. Target' = Entity("archive", c, b) /\ ~Idle'
  <2>1. todo' = <<Entity("archive", c, b), Mapping("archive", c, b, v),
                  e, Mapping("meta", c, b, v)>>
    BY <1>1, <1>3 DEF PutsOf
  <2> HIDE DEF e
  <2> QED
    BY <2>1, TupleTails DEF Target, Idle
<1>5. /\ Target'.comp = c /\ Target'.branch = b /\ Target'.store = "archive"
      /\ Target'.ver = NoVersion
  BY <1>4, PlaceFields
<1>6. MappingsHold'
  <2> SUFFICES ASSUME NEW p \in DOMAIN head, IsMapping(p)
               PROVE  Ordered(p)' /\ (head[p] # <<>> => Backed(p)')
    BY <1>1 DEF MappingsHold
  <2>1. Ordered(p)'
    BY <1>1, <1>2 DEF MappingsHold, Ordered, NotOlder, IsSet, At
  <2>2. ASSUME head[p] # <<>> PROVE Backed(p)'
    <3>1. Backed(p)
      BY <1>2, <2>2 DEF MappingsHold
    <3>2. SourceOf(p) \in Nat
      <4>1. At(p).names \in 1..Len(dirs)
        BY <3>1 DEF Backed, MadeAt
      <4>2. dirs[At(p).names] \in VersionDir
        BY <4>1, ElementOfSeq DEF CatInv, IInv, StoreTypes, DirsTyped
      <4> QED
        BY <4>2 DEF SourceOf, VersionDir, Value
    <3>3. SourceOf(p) < creates'
      BY <1>1, <1>2, <3>1, <3>2 DEF Backed
    <3>4. SourceOf(p)' = SourceOf(p) /\ At(p)' = At(p)
      BY <1>1 DEF SourceOf, At
    <3>5. /\ IsSet(ArchiveOf(p))' = IsSet(ArchiveOf(p))
          /\ At(ArchiveOf(p))' = At(ArchiveOf(p))
      BY <1>1 DEF IsSet, At, ArchiveOf, Mapping
    <3> QED
      BY <1>1, <1>2, <3>1, <3>2, <3>3, <3>4, <3>5
         DEF Backed, MadeAt, EntityOf, Entity, Mapping
  <2> QED
    BY <2>1, <2>2
<1>7. Newest' /\ ~(e \in DOMAIN head /\ head[e] = <<>>)
  <2>1. CASE e \notin DOMAIN head
    <3>1. \A p \in DOMAIN head :
            IsMapping(p) => ~(p.comp = c /\ p.branch = b)
      BY <1>2, <2>1 DEF MappingsHold, Ordered, EntityOf
    <3> QED
      BY <1>1, <1>5, <2>1, <3>1 DEF Newest
  <2>2. CASE e \in DOMAIN head
    <3>1. PICK m \in ReadHead(e) : v = NextVersion(c, m.ver, apiUpdated)
      BY <1>3, <2>2 DEF Create
    <3>2. e.store = "meta" /\ e.ver = NoVersion
      BY PlaceFields
    <3>3. IsSet(e) /\ m = At(e) /\ m.ver \in Version
      BY <1>2, <3>1, <3>2, ReadsHead, ReadsAVersion DEF CatInv
    <3>4. Newer(v, m.ver)
      BY <3>1, <3>3, NewerFacts
    <3>5. ASSUME NEW p \in DOMAIN head, IsMapping(p), p.comp = c, p.branch = b
          PROVE  Newer(v, p.ver)
      <4>1. NotOlder(p) /\ EntityOf("meta", p) = e
        BY <1>2, <3>3, <3>5 DEF MappingsHold, Ordered, EntityOf
      <4>2. p.ver \in Version
        BY <1>2, <3>5, PlaceIs DEF HeadsTyped, IsMapping
      <4> QED
        BY <3>3, <3>4, <4>1, <4>2, NewerFacts DEF NotOlder
    <3> QED
      BY <1>1, <1>3, <1>5, <3>3, <3>5 DEF Newest, IsSet
  <2> QED
    BY <2>1, <2>2
<1>8. CallPhase'
  <2>1. PutsLeft'
    BY <1>1, <1>5 DEF PutsLeft, FromArchive, PutsOf
  <2>2. Right(Target, Current)'
    BY <1>1, <1>5 DEF Right, Current, ValueToPut, EntityToPut
  <2>3. PutBefore'
    BY <1>1, <1>5, <1>7 DEF PutBefore, IsMapping, EntityOf
  <2> QED
    BY <1>1, <1>7, <2>1, <2>2, <2>3 DEF CallPhase
<1> QED
  BY <1>1, <1>2, <1>6, <1>8 DEF CatalogInv, EmptyHeadsUnstaged

------------------------------------------------------------------------------
(* The catalog that the mappings of meta make up *)

PublishedAt == {p \in DOMAIN head : IsMapping(p) /\ head[p] # <<>>}
EntryOf(p) == [comp |-> p.comp, branch |-> p.branch, ver |-> p.ver,
               src |-> SourceOf(p)]
Entries == {EntryOf(p) : p \in PublishedAt}

LEMMA ReadsVersion ==
  ASSUME NEW s, NEW c, NEW b \in Branch, NEW h \in 1..Len(dirs),
         dirs[h].place = Entity(s, c, b)
  PROVE  ReadVersion(s, c, h) = {dirs[h].value}
  BY DEF ReadVersion

(* What somebody who asks for a version gets.                              *)
LEMMA ReadsSemanticVersion ==
  ASSUME CatInv, NEW c \in Component, NEW b \in Branch, NEW v \in Version,
         NEW p, p = Mapping("meta", c, b, v)
  PROVE  /\ IsSet(p) => /\ GetMeta(c, b, v) = {dirs[At(p).names].value}
                        /\ dirs[At(p).names].value.ver = v
                        /\ At(p).names \in 1..Len(dirs)
                        /\ SourcesOf(c, b, v) = {SourceOf(p)}
         /\ ~IsSet(p) => GetMeta(c, b, v) = {}
<1>1. /\ p \in Place /\ p.store = "meta" /\ p.ver = v /\ p.comp = c
      /\ p.branch = b /\ IsMapping(p)
  BY PlaceFields, PlacesOf DEF Stores, IsMapping
<1>2. CASE IsSet(p)
  <2> DEFINE m == Mapping("archive", c, b, v)
             k == At(p).names
             l == At(m).names
  <2>1. Backed(p) /\ ArchiveOf(p) = m /\ m \in Place
    <3>1. m \in Place
      BY PlacesOf DEF Stores
    <3> QED
      BY <1>1, <1>2, <3>1
         DEF CatInv, CatalogInv, MappingsHold, IsSet, ArchiveOf
  <2>2. /\ k \in 1..Len(dirs) /\ dirs[k].place = Entity("meta", c, b)
        /\ dirs[k].value.ver = v
        /\ IsSet(m)
        /\ l \in 1..Len(dirs) /\ dirs[l].place = Entity("archive", c, b)
        /\ dirs[l].value.src = dirs[k].value.src
    BY <1>1, <2>1 DEF Backed, MadeAt, EntityOf, SourceOf
  <2>3. ReadHead(p) = {At(p)} /\ ReadHead(m) = {At(m)}
    BY <1>1, <1>2, <2>1, <2>2, ReadsHead
  <2>4. GetMeta(c, b, v) = {dirs[k].value}
    <3>1. HashedVersion("meta", c, b, v) = {k}
      BY <2>3 DEF HashedVersion
    <3>2. ReadVersion("meta", c, k) = {dirs[k].value}
      BY <2>2, ReadsVersion
    <3> QED
      BY <3>1, <3>2 DEF GetMeta, GetSemanticVersion
  <2>5. GetArchive(c, b, v) = {dirs[l].value}
    <3>1. HashedVersion("archive", c, b, v) = {l}
      BY <2>3 DEF HashedVersion
    <3>2. ReadVersion("archive", c, l) = {dirs[l].value}
      BY <2>2, ReadsVersion
    <3> QED
      BY <3>1, <3>2 DEF GetArchive, GetSemanticVersion
  <2>6. SourcesOf(c, b, v) = {SourceOf(p)}
    BY <2>2, <2>4, <2>5 DEF SourcesOf, SourceOf
  <2> QED
    BY <1>2, <2>2, <2>4, <2>6
<1>3. CASE ~IsSet(p)
  <2>1. ReadHead(p) = {}
    BY <1>1, <1>3, ReadsHead
  <2> QED
    BY <1>3, <2>1 DEF GetMeta, GetSemanticVersion, HashedVersion
<1> QED
  BY <1>2, <1>3

LEMMA EntriesArePublished == CatInv => PublishedEntries = Entries
<1> SUFFICES ASSUME CatInv PROVE PublishedEntries = Entries
  OBVIOUS
<1> DEFINE Entry(x) ==
             [comp |-> x.comp, branch |-> x.branch, ver |-> x.ver,
              src |-> IF SourcesOf(x.comp, x.branch, x.ver) = {} THEN 0
                      ELSE CHOOSE s \in SourcesOf(x.comp, x.branch, x.ver) : TRUE]
           MapOf(x) == Mapping("meta", x.comp, x.branch, x.ver)
<1>1. PublishedEntries = {Entry(x) : x \in Published}
  BY DEF PublishedEntries
<1>2. ASSUME NEW c \in Component, NEW b \in Branch, NEW v \in Version,
             NEW x, x = [comp |-> c, branch |-> b, ver |-> v],
             IsSet(MapOf(x))
      PROVE  Entry(x) = EntryOf(MapOf(x)) /\ MapOf(x) \in PublishedAt
  <2>1. x.comp = c /\ x.branch = b /\ x.ver = v
    BY <1>2
  <2>2. SourcesOf(c, b, v) = {SourceOf(MapOf(x))}
    BY <1>2, <2>1, ReadsSemanticVersion
  <2>3. (CHOOSE s \in SourcesOf(c, b, v) : TRUE) = SourceOf(MapOf(x))
    BY <2>2
  <2>4. /\ MapOf(x).store = "meta" /\ MapOf(x).comp = c
        /\ MapOf(x).branch = b /\ MapOf(x).ver = v /\ v # NoVersion
    BY <2>1, PlaceFields, PlacesOf DEF Stores
  <2>5. Entry(x) = [comp |-> c, branch |-> b, ver |-> v,
                    src |-> SourceOf(MapOf(x))]
    BY <2>1, <2>2, <2>3
  <2>6. EntryOf(MapOf(x)) = [comp |-> c, branch |-> b, ver |-> v,
                             src |-> SourceOf(MapOf(x))]
    BY <2>4 DEF EntryOf
  <2> QED
    BY <1>2, <2>4, <2>5, <2>6 DEF PublishedAt, IsMapping, IsSet
<1>3. ASSUME NEW x \in Published PROVE Entry(x) \in Entries
  <2>1. PICK c \in Component, b \in Branch,
             v \in {dirs[i].value.ver : i \in 1..Len(dirs)} \ {NoVersion} :
          x = [comp |-> c, branch |-> b, ver |-> v]
    BY DEF Published
  <2>2. v \in Version
    <3>1. PICK i \in 1..Len(dirs) : v = dirs[i].value.ver
      OBVIOUS
    <3>2. dirs[i] \in VersionDir
      BY ElementOfSeq DEF CatInv, IInv, StoreTypes, DirsTyped
    <3> QED
      BY <3>1, <3>2 DEF VersionDir, Value
  <2>3. GetMeta(c, b, v) # {}
    BY <2>1 DEF Published
  <2>4. IsSet(MapOf(x))
    BY <2>1, <2>2, <2>3, ReadsSemanticVersion
  <2> HIDE DEF Entry, MapOf
  <2>5. Entry(x) = EntryOf(MapOf(x)) /\ MapOf(x) \in PublishedAt
    BY <1>2, <2>1, <2>2, <2>4
  <2> QED
    BY <2>5 DEF Entries
<1>4. ASSUME NEW p \in PublishedAt PROVE EntryOf(p) \in PublishedEntries
  <2>1. IsSet(p) /\ IsMapping(p) /\ p \in Place
    BY DEF PublishedAt, IsSet, CatInv, IInv, StoreTypes, HeadsTyped
  <2>2. PICK c \in Component, b \in Branch, v \in Version :
          p = Mapping("meta", c, b, v)
    BY <2>1, PlaceIs DEF IsMapping
  <2> DEFINE x == [comp |-> c, branch |-> b, ver |-> v]
  <2>3. p = MapOf(x)
    BY <2>2
  <2>4. /\ GetMeta(c, b, v) # {} /\ v # NoVersion
        /\ v \in {dirs[i].value.ver : i \in 1..Len(dirs)}
    <3>1. /\ GetMeta(c, b, v) = {dirs[At(p).names].value}
          /\ dirs[At(p).names].value.ver = v /\ At(p).names \in 1..Len(dirs)
      BY <2>1, <2>2, ReadsSemanticVersion
    <3>2. v # NoVersion
      BY PlacesOf DEF Stores
    <3> QED
      BY <3>1, <3>2
  <2>5. x \in Published
    BY <2>4 DEF Published
  <2>6. Entry(x) = EntryOf(p)
    BY <1>2, <2>1, <2>3
  <2> QED
    BY <1>1, <2>5, <2>6
<1> QED
  BY <1>1, <1>3, <1>4 DEF Entries

LEMMA CatStep == CatInv /\ [Next]_vars => CatInv'
<1>1. CatInv /\ [Next]_vars => IInv'
  BY InvStep DEF CatInv
<1> SUFFICES ASSUME CatInv, [Next]_vars PROVE CatalogInv'
  BY <1>1 DEF CatInv
<1>2. ASSUME NEW c \in Component, NEW b \in Branch,
             NEW apiUpdated \in ApiOptions(c), Create(c, b, apiUpdated)
      PROVE  CatalogInv'
  BY <1>1, <1>2, CatCreate DEF IInv, StoreTypes, CallTyped
<1>3. CASE OpenStaged \/ WriteStaged
  BY <1>3, CatStage
<1>4. CASE MoveValue \/ InsertBlob
  BY <1>4, CatNewDir
<1>5. CASE MoveHash \/ WriteParents
  BY <1>5, CatCompleteDir
<1>6. CASE TruncateHead
  BY <1>6, CatTruncateHead
<1>7. CASE WriteHead \/ SetHeadRow
  BY <1>7, SetsHead, CatSetHead
<1>8. CASE PutThroughClient
  BY <1>8, ClientSetsHead, CatSetHead, CatCallEnds
<1>9. CASE Crash
  BY <1>9, CatCallEnds DEF Crash, diskVars, Idle
<1>10. CASE UNCHANGED vars
  <2>1. UNCHANGED <<engine, head, dirs, staged, todo, step, proposed, creates,
                    crashes>>
    BY <1>10 DEF vars, diskVars, processVars
  <2>2. MappingsHold' /\ EmptyHeadsUnstaged'
    <3>1. DirsKept /\ (Idle => Idle')
      BY <2>1, DirsUnchanged DEF CatInv, IInv, StoreTypes, Idle
    <3> QED
      BY <2>1, <3>1, MappingsKept DEF CatInv, CatalogInv, EmptyHeadsUnstaged
  <2>3. CallPhase'
    BY <2>1 DEF CatInv, CatalogInv, CallPhase, Idle, Target, PutsLeft, PutsOf,
       FromArchive, FromArchiveMapping, FromMeta, FromMapping, Right, Current,
       ValueToPut, EntityToPut, MappingToPut, MadeAt, Newest, PutBefore, IsSet,
       At
  <2> QED
    BY <2>2, <2>3 DEF CatalogInv
<1> QED
  BY <1>1, <1>2, <1>3, <1>4, <1>5, <1>6, <1>7, <1>8, <1>9, <1>10
     DEF Next, Put

(* Steps that publish nothing.                                             *)
LEMMA EntriesKept ==
  ASSUME CatInv, DirsKept, PublishedAt' = PublishedAt,
         \A p \in PublishedAt : Same(p)
  PROVE  Entries' = Entries
<1>1. ASSUME NEW p \in PublishedAt PROVE EntryOf(p)' = EntryOf(p)
  <2>1. HeadsTyped /\ IsSet(p) /\ Same(p)
    BY <1>1 DEF CatInv, IInv, StoreTypes, PublishedAt, IsSet
  <2>2. At(p).names \in 1..Len(dirs)
    BY <1>1
       DEF CatInv, CatalogInv, MappingsHold, PublishedAt, Backed, MadeAt
  <2>3. At(p)' = At(p)
    BY <2>1, AtKept
  <2>4. SourceOf(p)' = SourceOf(p)
    BY <2>2, <2>3 DEF SourceOf, DirsKept
  <2> QED
    BY <2>4 DEF EntryOf
<1> QED
  BY <1>1 DEF Entries

(* The last put of a create publishes its version, the others do not.      *)
LEMMA HeadPublishes ==
  ASSUME CatInv, NEW t, HeadSet(t)
  PROVE  \/ Entries' = Entries
         \/ \E e : /\ e.src = creates /\ Entries' = Entries \cup {e}
                   /\ \A f \in Entries :
                        /\ f.src < creates
                        /\ f.comp = e.comp /\ f.branch = e.branch =>
                             Newer(e.ver, f.ver)
<1>1. /\ ~Idle /\ t = Target /\ DirsKept
      /\ head' = With(head, t, <<Len(dirs')>>)
      /\ Len(dirs') # 0
      /\ Right(t, dirs[Len(dirs)].value)'
      /\ UNCHANGED <<proposed, creates>>
  BY DEF HeadSet
<1>2. /\ DOMAIN head' = DOMAIN head \cup {t} /\ head'[t] = <<Len(dirs')>>
      /\ \A p : p # t => Same(p)
      /\ head'[t] # <<>> /\ At(t)' = dirs'[Len(dirs')].value
  BY <1>1 DEF With, Same, At
<1>3. MappingsHold /\ Newest /\ PutsLeft /\ CallTyped
  BY <1>1 DEF CatInv, CatalogInv, CallPhase, IInv, StoreTypes
<1>4. proposed \in Version /\ (t.ver # NoVersion => t.ver = proposed)
  BY <1>1, <1>3, PutsInOrder, PlaceFields DEF CallTyped
<1>5. CASE ~IsMapping(t)
  <2>1. PublishedAt' = PublishedAt
    BY <1>2, <1>5 DEF PublishedAt, Same
  <2>2. \A p \in PublishedAt : Same(p)
    BY <1>2, <1>5 DEF PublishedAt
  <2> QED
    BY <1>1, <2>1, <2>2, EntriesKept
<1>6. CASE IsMapping(t)
  <2>1. t \notin PublishedAt
    <3> SUFFICES ASSUME t \in DOMAIN head, head[t] # <<>> PROVE FALSE
      BY DEF PublishedAt
    <3>1. Newer(proposed, t.ver)
      BY <1>1, <1>3, <1>6 DEF Newest
    <3> QED
      BY <1>4, <1>6, <3>1, NewerFacts DEF IsMapping
  <2>2. PublishedAt' = PublishedAt \cup {t}
    BY <1>2, <1>6 DEF PublishedAt, Same
  <2>3. ASSUME NEW p \in PublishedAt
        PROVE  /\ EntryOf(p)' = EntryOf(p)
               /\ SourceOf(p) < creates
               /\ p.comp = t.comp /\ p.branch = t.branch =>
                    Newer(proposed, p.ver)
    <3>1. Backed(p) /\ IsSet(p) /\ p # t /\ HeadsTyped
      BY <1>3, <2>1, <2>3
         DEF MappingsHold, PublishedAt, IsSet, CatInv, IInv, StoreTypes
    <3>2. Same(p)
      BY <1>2, <3>1
    <3>3. At(p)' = At(p)
      BY <1>1, <3>1, <3>2, AtKept
    <3>4. SourceOf(p)' = SourceOf(p)
      BY <1>1, <3>1, <3>3 DEF SourceOf, DirsKept, Backed, MadeAt
    <3> QED
      BY <1>1, <1>3, <2>3, <3>1, <3>4
         DEF EntryOf, Backed, Newest, PublishedAt
  <2>4. PICK e : e = EntryOf(t)'
    OBVIOUS
  <2>5. e.src = creates /\ e.comp = t.comp /\ e.branch = t.branch
        /\ e.ver = proposed
    <3>1. SourceOf(t)' = creates'
      BY <1>2, <1>1, <1>6 DEF Right, IsMapping, MadeAt, SourceOf
    <3> QED
      BY <1>1, <1>4, <1>6, <2>4, <3>1 DEF EntryOf, IsMapping
  <2>6. Entries' = Entries \cup {e}
    BY <2>2, <2>3, <2>4 DEF Entries
  <2>7. ASSUME NEW f \in Entries
        PROVE  /\ f.src < creates
               /\ f.comp = e.comp /\ f.branch = e.branch => Newer(e.ver, f.ver)
    <3>1. PICK p \in PublishedAt : f = EntryOf(p)
      BY DEF Entries
    <3> QED
      BY <2>3, <2>5, <3>1 DEF EntryOf
  <2> QED
    BY <2>5, <2>6, <2>7
<1> QED
  BY <1>5, <1>6

LEMMA EntriesStep ==
  ASSUME CatInv, [Next]_vars
  PROVE  \/ Entries' = Entries /\ creates' \in {creates, creates + 1}
         \/ /\ \E e : /\ e.src = creates /\ Entries' = Entries \cup {e}
                      /\ \A f \in Entries :
                           /\ f.src < creates
                           /\ f.comp = e.comp /\ f.branch = e.branch =>
                                Newer(e.ver, f.ver)
            /\ creates' = creates
<1>1. DirsTyped /\ \A p : head' = head => Same(p)
  BY DEF CatInv, IInv, StoreTypes, Same
<1>2. ASSUME DirsKept, head' = head PROVE Entries' = Entries
  BY <1>1, <1>2, EntriesKept DEF PublishedAt
<1>3. CASE \/ \E c \in Component, b \in Branch :
                \E apiUpdated \in ApiOptions(c) : Create(c, b, apiUpdated)
           \/ Crash \/ OpenStaged \/ WriteStaged \/ UNCHANGED vars
  BY <1>1, <1>2, <1>3, DirsUnchanged
     DEF Create, Crash, OpenStaged, WriteStaged, vars, diskVars, processVars
<1>4. CASE MoveValue \/ InsertBlob \/ MoveHash \/ WriteParents
  <2>1. head' = head /\ creates' = creates
    BY <1>4 DEF MoveValue, InsertBlob, MoveHash, WriteParents
  <2> QED
    BY <1>2, <1>4, <2>1, NewDirKeeps, CompleteDirKeeps
<1>5. CASE TruncateHead
  <2>1. /\ ~Idle /\ step = "linked" /\ creates' = creates
        /\ head' = With(head, Target, <<>>) /\ dirs' = dirs
    BY <1>5 DEF TruncateHead
  <2>2. /\ DOMAIN head' = DOMAIN head \cup {Target} /\ head'[Target] = <<>>
        /\ \A p : p # Target => Same(p)
    BY <2>1 DEF With, Same
  <2>3. Target \notin PublishedAt
    <3> SUFFICES ASSUME Target \in DOMAIN head, IsMapping(Target) PROVE FALSE
      BY DEF PublishedAt
    <3>1. /\ proposed \in Version /\ Newest /\ PutsLeft /\ CallTyped
      BY <2>1 DEF CatInv, CatalogInv, CallPhase, IInv, StoreTypes, CallTyped
    <3>2. Target.ver = proposed
      BY <2>1, <3>1, PutsInOrder, PlaceFields DEF IsMapping
    <3> QED
      BY <2>1, <3>1, <3>2, NewerFacts DEF Newest
  <2>4. PublishedAt' = PublishedAt /\ \A p \in PublishedAt : Same(p)
    BY <2>2, <2>3 DEF PublishedAt, Same
  <2> QED
    BY <1>1, <2>1, <2>4, DirsUnchanged, EntriesKept
<1>6. ASSUME NEW t, HeadSet(t)
      PROVE  \/ Entries' = Entries /\ creates' = creates
             \/ /\ \E e : /\ e.src = creates /\ Entries' = Entries \cup {e}
                          /\ \A f \in Entries :
                               /\ f.src < creates
                               /\ f.comp = e.comp /\ f.branch = e.branch =>
                                    Newer(e.ver, f.ver)
                /\ creates' = creates
  <2>1. creates' = creates
    BY <1>6 DEF HeadSet
  <2> QED
    BY <1>6, <2>1, HeadPublishes
<1>7. CASE WriteHead \/ SetHeadRow
  BY <1>6, <1>7, SetsHead
<1>8. CASE PutThroughClient
  BY <1>1, <1>2, <1>6, <1>8, ClientSetsHead, DirsUnchanged
<1> QED
  BY <1>3, <1>4, <1>5, <1>7, <1>8 DEF Next, Put

LEMMA CatalogInvariant == Spec => []CatInv
<1>1. Init => CatInv
  BY StoreInit, CatalogInvInit DEF CatInv
<1> QED
  BY <1>1, CatStep, PTL DEF Spec

(* The store is a catalog, whatever the engine and wherever a create is    *)
(* cut short: a version appears in one step, with its metadata and its     *)
(* archive from one call, newer than all of its branch, and it stays.      *)
THEOREM CatalogCorrect == Spec => ImplementsCatalog
<1>1. Init => CatalogView!CatalogInit
  <2> SUFFICES ASSUME Init PROVE CatalogView!CatalogInit
    OBVIOUS
  <2>1. Len(dirs) = 0
    BY DEF Init
  <2>2. PublishedEntries = {}
    BY <2>1 DEF PublishedEntries, Published
  <2> QED
    BY <2>2 DEF Init, CatalogView!CatalogInit
<1>2. CatInv => PublishedEntries = Entries
  BY EntriesArePublished
<1>3. /\ CatInv /\ PublishedEntries = Entries
      /\ (PublishedEntries = Entries)' /\ [Next]_vars
      => [CatalogView!CatalogNext]_(CatalogView!catalogVars)
  <2> SUFFICES ASSUME CatInv, PublishedEntries = Entries,
                      (PublishedEntries = Entries)', [Next]_vars
               PROVE  [CatalogView!CatalogNext]_(CatalogView!catalogVars)
    OBVIOUS
  <2>1. CASE Entries' = Entries /\ creates' \in {creates, creates + 1}
    BY <2>1 DEF CatalogView!CatalogNext, CatalogView!Attempt,
                CatalogView!catalogVars
  <2>2. ASSUME NEW e, e.src = creates, Entries' = Entries \cup {e},
               creates' = creates,
               \A f \in Entries :
                 /\ f.src < creates
                 /\ f.comp = e.comp /\ f.branch = e.branch => Newer(e.ver, f.ver)
        PROVE  CatalogView!Publish
    <3>1. e \in PublishedEntries'
      BY <2>2
    <3> QED
      BY <2>2, <3>1 DEF CatalogView!Publish, Newer
  <2> QED
    BY <2>1, <2>2, EntriesStep DEF CatalogView!CatalogNext
<1> QED
  BY <1>1, <1>2, <1>3, CatalogInvariant, PTL
     DEF Spec, ImplementsCatalog, CatalogView!CatalogSpec
================================================================================
