---------------------------- MODULE BatchDay_proofs ----------------------------
(* Theorems about BatchDay and their proofs.                               *)
EXTENDS BatchDay, TLAPS

(***************************************************************************)
(* Types.                                                                  *)
(***************************************************************************)

\* What the operators over a day's objects return.
LEMMA ObjectTypes ==
  /\ RawObjects \in SUBSET Objects
  /\ MetadataObjects \in SUBSET Objects
  /\ Objects = RawObjects \cup MetadataObjects
  /\ \A S : Readable(S) \in SUBSET Payloads
  /\ Payloads \in SUBSET Windows
  /\ MetadataWindows \in SUBSET Windows
  /\ DataKinds \in SUBSET Kinds
  /\ "metadata" \in Kinds
BY BatchAssumption DEF Objects, Readable, MetadataWindows, Kinds

\* What a step does to the day's objects and files.
ObjectsType ==
  /\ box \in SUBSET Objects
  /\ landing \in SUBSET Objects
  /\ cold \in Some(SUBSET Objects)
  /\ seen \in [Tasks -> SUBSET Objects]

ServedType ==
  /\ hot \in [Kinds -> Some(SUBSET Windows)]
  /\ hotMarker \in Some(SUBSET Kinds)
  /\ hotSnapshot \in Some(SUBSET Windows)

DiskType ==
  /\ tree \in [Tasks -> [Kinds -> Some(SUBSET Windows)]]
  /\ marker \in [Tasks -> Some(SUBSET Kinds)]
  /\ snap \in [Tasks -> Some(SUBSET Windows)]
  /\ left \in [Tasks -> SUBSET Kinds]

ControlType ==
  /\ pc \in [Tasks -> Labels]
  /\ step \in [Tasks -> Steps \cup {"none"}]
  /\ todo \in [Tasks -> SUBSET Steps]
  /\ force \in [Tasks -> BOOLEAN]
  /\ exit \in [Tasks -> {"none", "ok", "failed"}]
  /\ starts \in [Tasks -> Nat]

WorldType ==
  /\ configured \in BOOLEAN
  /\ old \in BOOLEAN
  /\ prune \in {"idle", "raw", "metadata"}
  /\ excuses \in SUBSET {"late", "forced", "overlap"}
  /\ faults \in 0..MaxFaults

\* The type invariant in the parts that a step changes together.
LEMMA TypeParts ==
  BatchTypeOK <=> ObjectsType /\ ServedType /\ DiskType /\ ControlType /\ WorldType
BY DEF BatchTypeOK, ObjectsType, ServedType, DiskType, ControlType, WorldType

\* A task runs steps that there are.
LEMMA ProgramType ==
  ASSUME NEW t \in Tasks
  PROVE  Program(t) \in SUBSET Steps
BY BatchAssumption DEF Program, Selected, Steps, StageNames

\* Each step is entered at a label that there is.
LEMMA EntryType ==
  ASSUME NEW s \in Steps
  PROVE  EntryOf(s) \in Labels
BY DEF EntryOf, Labels, Steps, StageNames

\* A fault is counted and stays within its bound.
LEMMA FaultType ==
  ASSUME faults \in 0..MaxFaults, Fault
  PROVE  faults' \in 0..MaxFaults
BY BatchAssumption DEF Fault

\* The batch starts well-typed.
LEMMA TypeInit == Init => BatchTypeOK
<1> SUFFICES ASSUME Init PROVE BatchTypeOK
  OBVIOUS
<1>1. ObjectsType /\ WorldType
  <2>1. faults \in 0..MaxFaults
    BY BatchAssumption DEF Init
  <2>2. seen \in [Tasks -> SUBSET Objects]
    BY DEF Init
  <2> QED
    BY <2>1, <2>2 DEF Init, ObjectsType, WorldType, Some
<1>2. ServedType /\ DiskType
  <2>1. NoFiles \in [Kinds -> Some(SUBSET Windows)]
    BY DEF NoFiles, Some
  <2> QED
    BY <2>1 DEF Init, ServedType, DiskType, Some
<1>3. ControlType
  BY DEF Init, ControlType, Labels
<1> QED
  BY <1>1, <1>2, <1>3, TypeParts

\* Stepping over the rest of a program keeps the control well-typed.
LEMMA StepOverType ==
  ASSUME BatchTypeOK, NEW t \in Tasks, StepOver(t)
  PROVE  /\ pc' \in [Tasks -> Labels]
         /\ seen' \in [Tasks -> SUBSET Objects]
         /\ left' \in [Tasks -> SUBSET Kinds]
BY DEF StepOver, Goto, BatchTypeOK, Labels

\* So does a cold ship that succeeded.
LEMMA AfterColdType ==
  ASSUME BatchTypeOK, NEW t \in Tasks, AfterCold(t)
  PROVE  /\ pc' \in [Tasks -> Labels]
         /\ seen' \in [Tasks -> SUBSET Objects]
         /\ left' \in [Tasks -> SUBSET Kinds]
<1>1. CASE step[t] = "cold-ship"
  BY <1>1, StepOverType DEF AfterCold
<1>2. CASE step[t] # "cold-ship"
  <2>1. {k \in Kinds : tree[t][k] # Absent} \in SUBSET Kinds
    OBVIOUS
  <2>2. left' \in [Tasks -> SUBSET Kinds]
    BY <1>2, <2>1 DEF AfterCold, BatchTypeOK
  <2> QED
    BY <1>2, <2>2 DEF AfterCold, Goto, BatchTypeOK, Labels
<1> QED
  BY <1>1, <1>2

\* A task that ends keeps the types.
LEMMA EndType ==
  ASSUME BatchTypeOK, NEW t \in Tasks, NEW o \in {"ok", "failed"}, End(t, o),
         faults' \in 0..MaxFaults
  PROVE  BatchTypeOK'
<1>1. NoFiles \in [Kinds -> Some(SUBSET Windows)]
  BY DEF NoFiles, Some
<1>2. DiskType'
  <2>1. CASE t \in Ephemeral
    <3>1. tree' \in [Tasks -> [Kinds -> Some(SUBSET Windows)]]
      <4>1. tree' = [tree EXCEPT ![t] = NoFiles]
        BY <2>1 DEF End
      <4>2. tree \in [Tasks -> [Kinds -> Some(SUBSET Windows)]]
        BY DEF BatchTypeOK
      <4> QED
        BY ONLY <1>1, <4>1, <4>2
    <3> QED
      BY <2>1, <3>1 DEF End, BatchTypeOK, DiskType, Some
  <2>2. CASE t \notin Ephemeral
    BY <2>2 DEF End, BatchTypeOK, DiskType, disk
  <2> QED
    BY <2>1, <2>2
<1>3. ControlType' /\ ObjectsType'
  BY DEF End, BatchTypeOK, ControlType, ObjectsType, Labels, store
<1> QED
  BY <1>2, <1>3, TypeParts, ObjectTypes
     DEF End, BatchTypeOK, ServedType, WorldType, DiskType, ControlType,
         ObjectsType, served, world

\* Every step of a task keeps the types.
LEMMA TaskTypes ==
  ASSUME BatchTypeOK, NEW t \in Tasks, Task(t)
  PROVE  BatchTypeOK'
<1> USE DEF BatchTypeOK
<1>1. ASSUME NEW forced \in BOOLEAN, Start(t, forced)
      PROVE  BatchTypeOK'
  <2>1. ControlType'
    BY <1>1, ProgramType DEF Start, Goto, Labels, ControlType
  <2>2. WorldType'
    BY <1>1 DEF Start, WorldType
  <2>3. ObjectsType' /\ ServedType' /\ DiskType'
    BY <1>1 DEF Start, ObjectsType, ServedType, DiskType, store, served, disk
  <2> QED
    BY <2>1, <2>2, <2>3
       DEF ObjectsType, ServedType, DiskType, ControlType, WorldType
<1>2. ASSUME NEW s \in Steps, Begin(t, s)
      PROVE  BatchTypeOK'
  BY <1>2, EntryType DEF Begin, Goto, Labels, store, served, disk, world
<1>3. ASSUME Finish(t) \/ Dies(t)
      PROVE  BatchTypeOK'
  BY <1>3, EndType, FaultType DEF Finish, Dies
<1>4. CASE ColdExists(t) \/ TarPut(t)
  BY <1>4, AfterColdType
     DEF ColdExists, TarPut, Some, store, served, disk, run, world
<1>5. CASE ColdMissing(t) \/ HotShipped(t)
  BY <1>5
     DEF ColdMissing, HotShipped, Goto, Labels, store, served, disk, run, world
<1>6. CASE TarRaw(t) \/ TarMetadata(t)
  <2>1. seen' \in [Tasks -> SUBSET Objects]
    BY <1>6 DEF TarRaw, TarMetadata
  <2> QED
    BY <1>6, <2>1
       DEF TarRaw, TarMetadata, Goto, Labels, store, served, disk, run, world
<1>7. ASSUME NEW k \in Kinds, ShipHot(t, k)
      PROVE  BatchTypeOK'
  <2>1. left' \in [Tasks -> SUBSET Kinds]
    BY <1>7 DEF ShipHot
  <2>2. hot' \in [Kinds -> Some(SUBSET Windows)]
    <3>1. tree[t][k] \in Some(SUBSET Windows)
      <4>1. tree \in [Tasks -> [Kinds -> Some(SUBSET Windows)]] /\ k \in Kinds /\ t \in Tasks
        BY DEF BatchTypeOK
      <4> QED
        BY ONLY <4>1
    <3>2. hot' \in {hot, [hot EXCEPT ![k] = tree[t][k]]}
      BY <1>7 DEF ShipHot
    <3> QED
      BY <3>1, <3>2
  <2> QED
    BY <1>7, <2>1, <2>2 DEF ShipHot, store, disk, run, world
<1>8. CASE ShipMarker(t)
  BY <1>8 DEF ShipMarker, Goto, Labels, store, disk, run, world
<1>9. CASE ShipSnapshot(t)
  BY <1>9, StepOverType DEF ShipSnapshot, store, disk, run, world
<1>10. CASE ShipFails(t) \/ SnapshotFails(t) \/ RolledUp(t)
  BY <1>10, StepOverType, FaultType
     DEF ShipFails, SnapshotFails, RolledUp, store, served, disk, run, world
<1>11. CASE Rollup(t)
  BY <1>11 DEF Rollup, Goto, Labels, Some, store, served, run, world
<1>12. CASE RollupMetadata(t)
  BY <1>12, ObjectTypes
     DEF RollupMetadata, FileOf, Goto, Labels, Some, store, served, run, world
<1>13. CASE RollupRead(t)
  BY <1>13, ObjectTypes
     DEF RollupRead, Goto, Labels, store, served, disk, run, world
<1>14. ASSUME NEW k \in DataKinds, Commit(t, k)
      PROVE  BatchTypeOK'
  BY <1>14, ObjectTypes DEF Commit, FileOf, Some, store, served, run, world
<1>15. CASE WriteMarker(t)
  BY <1>15, StepOverType DEF WriteMarker, Some, store, served, run, world
<1>16. CASE TakeSnapshot(t)
  BY <1>16, StepOverType, ObjectTypes
     DEF TakeSnapshot, Some, store, served, run, world
<1> QED
  BY <1>1, <1>2, <1>3, <1>4, <1>5, <1>6, <1>7, <1>8, <1>9, <1>10, <1>11,
     <1>12, <1>13, <1>14, <1>15, <1>16
     DEF Task, Ship, RollUp

\* So do the steps of what surrounds the tasks.
LEMMA WorldTypes ==
  ASSUME BatchTypeOK,
         \/ \E o \in Objects : Land(o)
         \/ Age \/ Unconfigure \/ PruneBox \/ PruneDay
  PROVE  BatchTypeOK'
<1> USE DEF BatchTypeOK
<1>1. ASSUME NEW o \in Objects, Land(o)
      PROVE  BatchTypeOK'
  BY <1>1 DEF Land, served, disk, local, run, world
<1>2. CASE Age \/ Unconfigure
  BY <1>2 DEF Age, Unconfigure, store, served, disk, local, run
<1>3. CASE PruneBox
  BY <1>3 DEF PruneBox, served, disk, local, run, world
<1>4. CASE Prune
  BY <1>4 DEF Prune, store, served, disk, local, run
<1>5. CASE PruneRaw \/ PruneMetadata
  BY <1>5 DEF PruneRaw, PruneMetadata, served, disk, local, run
<1>6. CASE PruneFails
  <2>1. landing' \in SUBSET Objects
    BY <1>6 DEF PruneFails
  <2> QED
    BY <1>6, <2>1, FaultType DEF PruneFails, served, disk, local, run
<1> QED
  BY <1>1, <1>2, <1>3, <1>4, <1>5, <1>6 DEF PruneDay

\* Type correctness: every variable of BatchDay keeps its type.
THEOREM BatchTypeCorrect == Spec => []BatchTypeOK
<1>1. BatchTypeOK /\ [Next]_vars => BatchTypeOK'
  <2>1. BatchTypeOK /\ Next => BatchTypeOK'
    BY TaskTypes, WorldTypes DEF Next
  <2>2. BatchTypeOK /\ UNCHANGED vars => BatchTypeOK'
    BY DEF BatchTypeOK, vars, store, served, disk, local, run, world
  <2> QED
    BY <2>1, <2>2
<1> QED
  BY <1>1, TypeInit, PTL DEF Spec

(***************************************************************************)
(* The markers.                                                            *)
(***************************************************************************)

\* A rollup that has begun to rewrite its files has no marker.
RollingInv ==
  \A t \in Tasks :
    pc[t] \in {"rollMetadata", "rollRead", "commit"} => marker[t] = Absent

DiskInv == MarkerIsExact /\ RollingInv

\* A ship has a tarball behind it, and before it ships the marker, every
\* parquet of its tree is in the hot bucket.
ShippingInv ==
  \A t \in Tasks :
    /\ pc[t] \in {"hot", "marker", "snap"} => cold # Absent
    /\ pc[t] = "hot" =>
         \A k \in Kinds :
           /\ k \in left[t] => tree[t][k] # Absent
           /\ k \in left[t] \/ tree[t][k] = Absent \/ hot[k] # Absent
    /\ pc[t] = "marker" =>
         \A k \in Kinds : tree[t][k] = Absent \/ hot[k] # Absent

ServedInv == MarkerVouches /\ ColdFirst /\ ShippingInv

MarkerInv == DiskInv /\ ServedInv

\* An object that is absent is not mistaken for one with nothing in it.
LEMMA AbsentIsNone ==
  /\ \A S \in SUBSET Objects : S # Absent
  /\ \A S \in SUBSET Windows : S # Absent
  /\ \A S \in SUBSET Kinds : S # Absent
BY AbsentAssumption

\* A step that leaves the files alone, and at most ends a rollup.
LEMMA FilesUntouched ==
  ASSUME BatchTypeOK, DiskInv, NEW t \in Tasks,
         UNCHANGED <<tree, marker>>,
         \E label \in Labels :
           /\ pc' = [pc EXCEPT ![t] = label]
           /\ label \in {"rollMetadata", "rollRead", "commit"} =>
                pc[t] \in {"rollMetadata", "rollRead", "commit"}
  PROVE  DiskInv'
BY DEF BatchTypeOK, DiskInv, MarkerIsExact, RollingInv

\* Where a task is after a step it passed over.
LEMMA StepOverGoes ==
  ASSUME NEW t \in Tasks, StepOver(t)
  PROVE  pc' = [pc EXCEPT ![t] = "next"] /\ "next" \in Labels
BY DEF StepOver, Goto, Labels

\* Where a task is after its cold ship.
LEMMA AfterColdGoes ==
  ASSUME NEW t \in Tasks, AfterCold(t)
  PROVE  \/ pc' = [pc EXCEPT ![t] = "next"] /\ "next" \in Labels
         \/ pc' = [pc EXCEPT ![t] = "hot"] /\ "hot" \in Labels
BY DEF AfterCold, StepOver, Goto, Labels

\* Rollups, cleanups and deaths keep the marker on the disk exact.
LEMMA DiskInvTask ==
  ASSUME BatchTypeOK, DiskInv, NEW t \in Tasks, Task(t)
  PROVE  DiskInv'
<1>1. ASSUME NEW forced \in BOOLEAN, Start(t, forced)
      PROVE  DiskInv'
  BY <1>1, FilesUntouched DEF Start, Goto, Labels, disk
<1>2. ASSUME NEW s \in Steps, Begin(t, s)
      PROVE  DiskInv'
  <2>1. EntryOf(s) \in {"cold", "roll", "snapshot"}
    BY DEF EntryOf, Steps, StageNames
  <2> QED
    BY <1>2, <2>1, FilesUntouched DEF Begin, Goto, Labels, disk
<1>3. ASSUME NEW o \in {"ok", "failed"}, End(t, o)
      PROVE  DiskInv'
  <2>1. CASE t \in Ephemeral
    BY <1>3, <2>1 DEF End, BatchTypeOK, DiskInv, MarkerIsExact, RollingInv
  <2>2. CASE t \notin Ephemeral
    BY <1>3, <2>2, FilesUntouched DEF End, Labels, disk
  <2> QED
    BY <2>1, <2>2
<1>4. CASE ColdExists(t) \/ TarPut(t)
  BY <1>4, AfterColdGoes, FilesUntouched DEF ColdExists, TarPut, disk
<1>5. CASE ColdMissing(t) \/ TarRaw(t) \/ TarMetadata(t) \/ HotShipped(t)
  BY <1>5, FilesUntouched
     DEF ColdMissing, TarRaw, TarMetadata, HotShipped, Goto, Labels, disk
<1>6. ASSUME NEW k \in Kinds, ShipHot(t, k)
      PROVE  DiskInv'
  BY <1>6 DEF ShipHot, DiskInv, MarkerIsExact, RollingInv, disk
<1>7. CASE ShipMarker(t) \/ RollupRead(t)
  BY <1>7, FilesUntouched DEF ShipMarker, RollupRead, At, Goto, Labels, disk
<1>8. CASE \/ ShipSnapshot(t) \/ ShipFails(t) \/ RolledUp(t)
           \/ SnapshotFails(t) \/ TakeSnapshot(t)
  BY <1>8, StepOverGoes, FilesUntouched
     DEF ShipSnapshot, ShipFails, RolledUp, SnapshotFails, TakeSnapshot, disk
<1>9. CASE Rollup(t)
  BY <1>9
     DEF Rollup, Goto, BatchTypeOK, DiskInv, MarkerIsExact, RollingInv
<1>10. CASE RollupMetadata(t)
  <2>1. marker[t] = Absent
    BY <1>10 DEF RollupMetadata, At, DiskInv, RollingInv
  <2>2. \A u \in Tasks \ {t} : tree'[u] = tree[u]
    BY <1>10 DEF RollupMetadata, BatchTypeOK
  <2> QED
    BY <1>10, <2>1, <2>2
       DEF RollupMetadata, Goto, BatchTypeOK, DiskInv, MarkerIsExact, RollingInv
<1>11. ASSUME NEW k \in DataKinds, Commit(t, k)
       PROVE  DiskInv'
  <2>1. marker[t] = Absent
    BY <1>11 DEF Commit, At, DiskInv, RollingInv
  <2>2. \A u \in Tasks \ {t} : tree'[u] = tree[u]
    BY <1>11 DEF Commit, BatchTypeOK
  <2> QED
    BY <1>11, <2>1, <2>2
       DEF Commit, BatchTypeOK, DiskInv, MarkerIsExact, RollingInv
<1>12. CASE WriteMarker(t)
  BY <1>12, StepOverGoes
     DEF WriteMarker, BatchTypeOK, DiskInv, MarkerIsExact, RollingInv
<1> QED
  BY <1>1, <1>2, <1>3, <1>4, <1>5, <1>6, <1>7, <1>8, <1>9, <1>10, <1>11, <1>12
     DEF Task, Ship, RollUp, Finish, Dies

\* Steps that are no task's: nothing they change is in DiskInv.
LEMMA DiskInvWorld ==
  ASSUME DiskInv,
         \/ \E o \in Objects : Land(o)
         \/ Age \/ Unconfigure \/ PruneBox \/ PruneDay
         \/ UNCHANGED vars
  PROVE  DiskInv'
<1>1. UNCHANGED <<tree, marker, pc>>
  BY DEF Land, Age, Unconfigure, PruneBox, PruneDay, Prune, PruneRaw,
         PruneMetadata, PruneFails, vars, disk, local
<1> QED
  BY <1>1 DEF DiskInv, MarkerIsExact, RollingInv

\* A step of t that leaves the hot bucket and the tarball alone, and does not
\* enter the ship of the parquet.
LEMMA BucketsUntouched ==
  ASSUME BatchTypeOK, ServedInv, NEW t \in Tasks, NEW label \in Labels,
         pc' = [pc EXCEPT ![t] = label],
         label \notin {"hot", "marker", "snap"},
         UNCHANGED <<cold, hot, hotMarker, hotSnapshot>>,
         \A u \in Tasks \ {t} : tree'[u] = tree[u] /\ left'[u] = left[u]
  PROVE  ServedInv'
<1>1. \A u \in Tasks \ {t} : pc'[u] = pc[u]
  BY DEF BatchTypeOK
<1>2. pc'[t] = label
  BY DEF BatchTypeOK
<1>3. ShippingInv'
  BY <1>1, <1>2 DEF ServedInv, ShippingInv
<1> QED
  BY <1>3 DEF ServedInv, MarkerVouches, ColdFirst

\* The hot ship begins only once the day is archived.
LEMMA EnterHot ==
  ASSUME BatchTypeOK, ServedInv, NEW t \in Tasks, AfterCold(t),
         cold' # Absent, UNCHANGED <<served, disk>>
  PROVE  ServedInv'
<1>1. CASE step[t] = "cold-ship"
  <2>1. pc' = [pc EXCEPT ![t] = "next"] /\ left' = [left EXCEPT ![t] = {}]
    BY <1>1 DEF AfterCold, StepOver, Goto
  <2>2. ShippingInv'
    BY <2>1 DEF ServedInv, ShippingInv, BatchTypeOK, served, disk
  <2> QED
    BY <2>2 DEF ServedInv, MarkerVouches, ColdFirst, served
<1>2. CASE step[t] # "cold-ship"
  <2>1. /\ pc' = [pc EXCEPT ![t] = "hot"]
        /\ left' = [left EXCEPT ![t] = {k \in Kinds : tree[t][k] # Absent}]
    BY <1>2 DEF AfterCold, Goto
  <2>2. left'[t] = {k \in Kinds : tree[t][k] # Absent}
    BY <2>1 DEF BatchTypeOK
  <2>3. \A u \in Tasks \ {t} : left'[u] = left[u] /\ pc'[u] = pc[u]
    BY <2>1 DEF BatchTypeOK
  <2>4. ShippingInv'
    BY <2>1, <2>2, <2>3 DEF ServedInv, ShippingInv, BatchTypeOK, served, disk
  <2> QED
    BY <2>4 DEF ServedInv, MarkerVouches, ColdFirst, served
<1> QED
  BY <1>1, <1>2

\* No task uploads a marker ahead of the parquet it counts.
LEMMA ServedInvTask ==
  ASSUME BatchTypeOK, ServedInv, NEW t \in Tasks, Task(t)
  PROVE  ServedInv'
<1>1. ASSUME NEW forced \in BOOLEAN, Start(t, forced)
      PROVE  ServedInv'
  BY <1>1, BucketsUntouched DEF Start, Goto, Labels, store, served, disk
<1>2. ASSUME NEW s \in Steps, Begin(t, s)
      PROVE  ServedInv'
  <2>1. EntryOf(s) \in {"cold", "roll", "snapshot"}
    BY DEF EntryOf, Steps, StageNames
  <2> QED
    BY <1>2, <2>1, BucketsUntouched DEF Begin, Goto, Labels, store, served, disk
<1>3. ASSUME NEW o \in {"ok", "failed"}, End(t, o)
      PROVE  ServedInv'
  <2>1. \A u \in Tasks \ {t} : tree'[u] = tree[u] /\ left'[u] = left[u]
    BY <1>3 DEF End, BatchTypeOK, disk
  <2> QED
    BY <1>3, <2>1, BucketsUntouched DEF End, Labels, store, served
<1>4. CASE ColdExists(t)
  BY <1>4, EnterHot DEF ColdExists, store
<1>5. CASE TarPut(t)
  <2>1. cold' # Absent
    BY <1>5, AbsentIsNone DEF TarPut, BatchTypeOK
  <2> QED
    BY <1>5, <2>1, EnterHot DEF TarPut
<1>6. CASE ColdMissing(t) \/ TarRaw(t) \/ TarMetadata(t)
  BY <1>6, BucketsUntouched
     DEF ColdMissing, TarRaw, TarMetadata, Goto, Labels, store, served, disk
<1>7. ASSUME NEW k \in Kinds, ShipHot(t, k)
      PROVE  ServedInv'
  <2>1. tree[t][k] # Absent /\ cold # Absent
    BY <1>7 DEF ShipHot, At, ServedInv, ShippingInv
  <2>2. hot'[k] # Absent /\ \A j \in Kinds : hot[j] # Absent => hot'[j] # Absent
    BY <1>7, <2>1 DEF ShipHot, BatchTypeOK
  <2>3. left'[t] = left[t] \ {k} /\ \A u \in Tasks \ {t} : left'[u] = left[u]
    BY <1>7 DEF ShipHot, BatchTypeOK
  <2>4. ShippingInv'
    BY <1>7, <2>2, <2>3 DEF ShipHot, ServedInv, ShippingInv, store, disk
  <2>5. MarkerVouches' /\ ColdFirst'
    BY <1>7, <2>1, <2>2
       DEF ShipHot, ServedInv, MarkerVouches, ColdFirst, store, BatchTypeOK, Some
  <2> QED
    BY <2>4, <2>5 DEF ServedInv
<1>8. CASE HotShipped(t)
  <2>1. \A k \in Kinds : tree[t][k] = Absent \/ hot[k] # Absent
    BY <1>8 DEF HotShipped, At, ServedInv, ShippingInv
  <2>2. ShippingInv'
    BY <1>8, <2>1
       DEF HotShipped, At, Goto, ServedInv, ShippingInv, BatchTypeOK, store,
           served, disk
  <2> QED
    BY <1>8, <2>2
       DEF HotShipped, ServedInv, MarkerVouches, ColdFirst, store, served
<1>9. CASE ShipMarker(t)
  <2>1. MarkerVouches'
    BY <1>9
       DEF ShipMarker, At, ServedInv, ShippingInv, MarkerVouches, BatchTypeOK, Some
  <2>2. ShippingInv' /\ cold # Absent
    BY <1>9
       DEF ShipMarker, At, Goto, ServedInv, ShippingInv, BatchTypeOK, store, disk
  <2> QED
    BY <1>9, <2>1, <2>2 DEF ShipMarker, ServedInv, ColdFirst, store
<1>10. CASE ShipSnapshot(t)
  <2>1. ShippingInv' /\ cold # Absent
    BY <1>10
       DEF ShipSnapshot, At, StepOver, Goto, ServedInv, ShippingInv, BatchTypeOK,
           store, disk
  <2> QED
    BY <1>10, <2>1 DEF ShipSnapshot, ServedInv, MarkerVouches, ColdFirst, store
<1>11. CASE \/ ShipFails(t) \/ RolledUp(t) \/ SnapshotFails(t)
            \/ TakeSnapshot(t) \/ WriteMarker(t)
  <2>1. \A u \in Tasks \ {t} : left'[u] = left[u]
    BY <1>11
       DEF ShipFails, RolledUp, SnapshotFails, TakeSnapshot, WriteMarker,
           StepOver, BatchTypeOK
  <2> QED
    BY <1>11, <2>1, StepOverGoes, BucketsUntouched
       DEF ShipFails, RolledUp, SnapshotFails, TakeSnapshot, WriteMarker,
           store, served, disk
<1>12. CASE Rollup(t) \/ RollupMetadata(t) \/ RollupRead(t)
  <2>1. \A u \in Tasks \ {t} : tree'[u] = tree[u] /\ left'[u] = left[u]
    BY <1>12 DEF Rollup, RollupMetadata, RollupRead, BatchTypeOK, disk
  <2> QED
    BY <1>12, <2>1, BucketsUntouched
       DEF Rollup, RollupMetadata, RollupRead, Goto, Labels, store, served
<1>13. ASSUME NEW k \in DataKinds, Commit(t, k)
       PROVE  ServedInv'
  <2>1. \A u \in Tasks \ {t} : tree'[u] = tree[u] /\ left'[u] = left[u]
    BY <1>13 DEF Commit, BatchTypeOK
  <2>2. pc' = [pc EXCEPT ![t] = "commit"] /\ "commit" \in Labels
    BY <1>13 DEF Commit, At, BatchTypeOK, Labels
  <2> QED
    BY <1>13, <2>1, <2>2, BucketsUntouched DEF Commit, store, served
<1> QED
  BY <1>1, <1>2, <1>3, <1>4, <1>5, <1>6, <1>7, <1>8, <1>9, <1>10, <1>11, <1>12,
     <1>13
     DEF Task, Ship, RollUp, Finish, Dies

\* Prunes and new objects leave the hot bucket alone.
LEMMA ServedInvWorld ==
  ASSUME ServedInv,
         \/ \E o \in Objects : Land(o)
         \/ Age \/ Unconfigure \/ PruneBox \/ PruneDay
         \/ UNCHANGED vars
  PROVE  ServedInv'
<1>1. UNCHANGED <<cold, hot, hotMarker, hotSnapshot, tree, left, pc>>
  BY DEF Land, Age, Unconfigure, PruneBox, PruneDay, Prune, PruneRaw,
         PruneMetadata, PruneFails, vars, store, served, disk, local
<1> QED
  BY <1>1 DEF ServedInv, MarkerVouches, ColdFirst, ShippingInv

\* What both markers, on the disk and in the bucket, vouch for holds always.
THEOREM MarkerInvariance == Spec => []MarkerInv
<1>1. Init => MarkerInv
  BY DEF Init, MarkerInv, DiskInv, ServedInv, MarkerIsExact, RollingInv,
         MarkerVouches, ColdFirst, ShippingInv, NoFiles
<1>2. BatchTypeOK /\ MarkerInv /\ [Next]_vars => MarkerInv'
  BY DiskInvTask, DiskInvWorld, ServedInvTask, ServedInvWorld DEF Next, MarkerInv
<1> QED
  BY <1>1, <1>2, BatchTypeCorrect, PTL DEF Spec

\* The marker in the hot bucket vouches for all the parquet it counts, and that
\* on a task's disk counts exactly the parquet beside it, for any number of
\* tasks that ship the day side by side, die half-way and run again over what
\* they left.
THEOREM MarkersAreTrue == Spec => []MarkersTrue
<1>1. MarkerInv => MarkersTrue
  BY DEF MarkerInv, DiskInv, ServedInv, MarkersTrue
<1> QED
  BY <1>1, MarkerInvariance, PTL

\* Nothing derived from a day is served before the day is archived.
THEOREM ArchivedFirst == Spec => []ColdFirst
<1>1. MarkerInv => ColdFirst
  BY DEF MarkerInv, ServedInv
<1> QED
  BY <1>1, MarkerInvariance, PTL

(***************************************************************************)
(* The archive.                                                            *)
(***************************************************************************)

\* Unless a task started too early, a day that is worked on has landed.
LandedInv ==
  "late" \notin excuses =>
    /\ \A t \in Tasks : pc[t] # "idle" => box = {}
    /\ cold # Absent => box = {}

\* Objects disappear only from days that are old and have a tarball.
Prunable == old /\ cold # Absent

Intact == Objects \subseteq box \cup landing

KeptInv ==
  /\ ~Intact => Prunable
  /\ prune # "idle" => Prunable

\* Without excuses, no task ships an old day by force, ...
ForcedInv ==
  excuses = {} /\ old => \A t \in Tasks : pc[t] # "idle" => ~force[t]

\* ... so that a task which builds a tarball reads a whole day, ...
TarInv ==
  excuses = {} =>
    \A t \in Tasks :
      /\ pc[t] \in {"tarRaw", "tarMetadata", "tarPut"} =>
           Objects \subseteq landing /\ prune = "idle"
      /\ pc[t] = "tarMetadata" => RawObjects \subseteq seen[t]
      /\ pc[t] = "tarPut" => Objects \subseteq seen[t]

\* ... and the tarball has all of it.
ColdInv == excuses = {} /\ cold # Absent => Objects \subseteq cold

ArchiveInv == LandedInv /\ KeptInv /\ ForcedInv /\ TarInv /\ ColdInv

\* A step of t that touches neither the stores nor the prune, and does not
\* begin or continue a tarball.
LEMMA StoresUntouched ==
  ASSUME BatchTypeOK, ArchiveInv, NEW t \in Tasks, NEW label \in Labels,
         pc[t] # "idle",
         pc' = [pc EXCEPT ![t] = label],
         label \notin {"tarRaw", "tarMetadata", "tarPut"},
         \A u \in Tasks \ {t} : seen'[u] = seen[u],
         UNCHANGED <<store, force, world>>
  PROVE  ArchiveInv'
<1>1. \A u \in Tasks : pc'[u] = IF u = t THEN label ELSE pc[u]
  BY DEF BatchTypeOK
<1>2. LandedInv' /\ KeptInv' /\ ColdInv'
  BY <1>1
     DEF ArchiveInv, LandedInv, KeptInv, ColdInv, Prunable, Intact, store, world
<1>3. ForcedInv' /\ TarInv'
  BY <1>1 DEF ArchiveInv, ForcedInv, TarInv, store, world
<1> QED
  BY <1>2, <1>3 DEF ArchiveInv

\* A tarball that stands is never rebuilt, and what a task removes is in it.
LEMMA ArchiveInvTask ==
  ASSUME BatchTypeOK, ArchiveInv, NEW t \in Tasks, Task(t)
  PROVE  ArchiveInv'
<1>1. ASSUME NEW forced \in BOOLEAN, Start(t, forced)
      PROVE  ArchiveInv'
  <2>1. /\ \A u \in Tasks : pc'[u] = IF u = t THEN "next" ELSE pc[u]
        /\ \A u \in Tasks : force'[u] = IF u = t THEN forced ELSE force[u]
    BY <1>1 DEF Start, Goto, BatchTypeOK
  <2>2. /\ excuses \subseteq excuses'
        /\ "late" \notin excuses' => box = {}
        /\ excuses' = {} => ~(forced /\ old)
        /\ UNCHANGED <<store, seen, old, prune>>
    BY <1>1 DEF Start
  <2>3. LandedInv' /\ KeptInv' /\ ColdInv'
    BY <2>1, <2>2
       DEF ArchiveInv, LandedInv, KeptInv, ColdInv, Prunable, Intact, store
  <2>4. ForcedInv' /\ TarInv'
    BY <2>1, <2>2 DEF ArchiveInv, ForcedInv, TarInv, store
  <2> QED
    BY <2>3, <2>4 DEF ArchiveInv
<1>2. ASSUME NEW s \in Steps, Begin(t, s)
      PROVE  ArchiveInv'
  <2>1. EntryOf(s) \in {"cold", "roll", "snapshot"}
    BY DEF EntryOf, Steps, StageNames
  <2> QED
    BY <1>2, <2>1, StoresUntouched DEF Begin, At, Goto, Labels
<1>3. ASSUME NEW o \in {"ok", "failed"}, End(t, o), pc[t] # "idle"
      PROVE  ArchiveInv'
  <2>1. \A u \in Tasks \ {t} : seen'[u] = seen[u]
    BY <1>3 DEF End, BatchTypeOK
  <2> QED
    BY <1>3, <2>1, StoresUntouched DEF End, Labels
<1>4. ASSUME AfterCold(t), pc[t] # "idle", UNCHANGED <<store, force, world>>
      PROVE  ArchiveInv'
  <2>1. \A u \in Tasks \ {t} : seen'[u] = seen[u]
    BY <1>4 DEF AfterCold, StepOver, BatchTypeOK
  <2> QED
    BY <1>4, <2>1, AfterColdGoes, StoresUntouched
<1>5. ASSUME StepOver(t), pc[t] # "idle", UNCHANGED <<store, force, world>>
      PROVE  ArchiveInv'
  <2>1. \A u \in Tasks \ {t} : seen'[u] = seen[u]
    BY <1>5 DEF StepOver, BatchTypeOK
  <2> QED
    BY <1>5, <2>1, StepOverGoes, StoresUntouched
<1>6. CASE ColdMissing(t)
  <2>1. \A u \in Tasks : pc'[u] = IF u = t THEN "tarRaw" ELSE pc[u]
    BY <1>6 DEF ColdMissing, Goto, BatchTypeOK
  <2>2. excuses = {} => Objects \subseteq landing /\ prune = "idle"
    <3>1. pc[t] # "idle" /\ (force[t] \/ cold = Absent)
      BY <1>6 DEF ColdMissing, At
    <3>2. excuses = {} => box = {} /\ ~Prunable
      BY <3>1 DEF ArchiveInv, LandedInv, ForcedInv, Prunable
    <3> QED
      BY <3>2 DEF ArchiveInv, KeptInv, Intact
  <2>3. UNCHANGED <<store, force, seen, world>>
    BY <1>6 DEF ColdMissing, run
  <2>4. LandedInv' /\ KeptInv' /\ ColdInv' /\ ForcedInv'
    BY <1>6, <2>1, <2>3
       DEF ColdMissing, At, ArchiveInv, LandedInv, KeptInv, ColdInv, ForcedInv,
           Prunable, Intact, store, world
  <2>5. TarInv'
    BY <2>1, <2>2, <2>3 DEF ArchiveInv, TarInv, store, world
  <2> QED
    BY <2>4, <2>5 DEF ArchiveInv
<1>7. CASE TarRaw(t) \/ TarMetadata(t)
  <2>1. UNCHANGED <<store, force, world>>
    BY <1>7 DEF TarRaw, TarMetadata, run
  <2>2. /\ pc[t] # "idle"
        /\ \A u \in Tasks \ {t} : pc'[u] = pc[u] /\ seen'[u] = seen[u]
    BY <1>7 DEF TarRaw, TarMetadata, At, Goto, BatchTypeOK
  <2>3. /\ pc[t] \in {"tarRaw", "tarMetadata"}
        /\ pc'[t] = "tarMetadata" => seen'[t] = landing \cap RawObjects
        /\ pc'[t] = "tarPut" =>
             /\ pc[t] = "tarMetadata"
             /\ seen'[t] = seen[t] \cup (landing \cap MetadataObjects)
        /\ pc'[t] \in {"tarMetadata", "tarPut"}
    BY <1>7 DEF TarRaw, TarMetadata, At, Goto, BatchTypeOK
  <2>4. LandedInv' /\ KeptInv' /\ ColdInv' /\ ForcedInv'
    BY <2>1, <2>2
       DEF ArchiveInv, LandedInv, KeptInv, ColdInv, ForcedInv, Prunable, Intact,
           store, world
  <2>5. TarInv'
    BY <2>1, <2>2, <2>3, ObjectTypes DEF ArchiveInv, TarInv, store, world
  <2> QED
    BY <2>4, <2>5 DEF ArchiveInv
<1>8. CASE TarPut(t)
  <2>1. /\ \A u \in Tasks \ {t} : pc'[u] = pc[u] /\ seen'[u] = seen[u]
        /\ pc'[t] \in {"next", "hot"}
    BY <1>8 DEF TarPut, AfterCold, StepOver, Goto, BatchTypeOK
  <2>2. /\ cold' = seen[t] /\ pc[t] = "tarPut"
        /\ UNCHANGED <<box, landing, force, world>>
    BY <1>8 DEF TarPut, At, run
  <2>3. cold' # Absent
    BY <2>2, AbsentIsNone DEF BatchTypeOK
  <2>4. LandedInv' /\ KeptInv' /\ ForcedInv'
    BY <2>1, <2>2, <2>3
       DEF ArchiveInv, LandedInv, KeptInv, ForcedInv, Prunable, Intact, world
  <2>5. TarInv' /\ ColdInv'
    BY <2>1, <2>2 DEF ArchiveInv, TarInv, ColdInv, world
  <2> QED
    BY <2>4, <2>5 DEF ArchiveInv
<1>9. CASE \/ \E k \in Kinds : ShipHot(t, k)
           \/ \E k \in DataKinds : Commit(t, k)
  <2>1. /\ pc[t] \in {"hot", "commit"} \cap Labels
        /\ pc' = [pc EXCEPT ![t] = pc[t]]
        /\ UNCHANGED <<seen, store, force, world>>
    BY <1>9 DEF ShipHot, Commit, At, run, BatchTypeOK, Labels
  <2> QED
    BY <2>1, StoresUntouched
<1>10. CASE HotShipped(t) \/ ShipMarker(t) \/ Rollup(t) \/ RollupMetadata(t)
  BY <1>10, StoresUntouched
     DEF HotShipped, ShipMarker, Rollup, RollupMetadata, At, Goto, Labels, run
<1>11. CASE RollupRead(t)
  <2>1. \A u \in Tasks \ {t} : seen'[u] = seen[u]
    BY <1>11 DEF RollupRead, BatchTypeOK
  <2> QED
    BY <1>11, <2>1, StoresUntouched DEF RollupRead, At, Goto, Labels, run
<1>12. CASE Finish(t) \/ Dies(t)
  BY <1>3, <1>12 DEF Finish, Dies, At
<1>13. CASE ColdExists(t)
  BY <1>4, <1>13 DEF ColdExists, At, run
<1>14. CASE \/ ShipSnapshot(t) \/ ShipFails(t) \/ RolledUp(t)
            \/ SnapshotFails(t) \/ TakeSnapshot(t) \/ WriteMarker(t)
  BY <1>5, <1>14
     DEF ShipSnapshot, ShipFails, Shipping, RolledUp, SnapshotFails,
         TakeSnapshot, WriteMarker, At, run
<1> QED
  BY <1>1, <1>2, <1>6, <1>7, <1>8, <1>9, <1>10, <1>11, <1>12, <1>13, <1>14
     DEF Task, Ship, RollUp

\* What a prune removes is in the tarball, or there is an excuse on record.
LEMMA ArchiveInvWorld ==
  ASSUME BatchTypeOK, ArchiveInv,
         \/ \E o \in Objects : Land(o)
         \/ Age \/ Unconfigure \/ PruneBox \/ PruneDay
         \/ UNCHANGED vars
  PROVE  ArchiveInv'
<1> USE DEF ArchiveInv, LandedInv, KeptInv, ForcedInv, TarInv, ColdInv,
            Prunable, Intact, store, local, run, world
<1>1. ASSUME NEW o \in Objects, Land(o)
      PROVE  ArchiveInv'
  BY <1>1 DEF Land
<1>2. CASE Age \/ Unconfigure
  BY <1>2 DEF Age, Unconfigure, AllIdle
<1>3. CASE PruneBox
  BY <1>3 DEF PruneBox
<1>4. CASE Prune
  BY <1>4 DEF Prune, Confirmed, AllIdle
<1>5. CASE PruneRaw \/ PruneMetadata \/ PruneFails
  <2>1. /\ prune # "idle"
        /\ UNCHANGED <<box, cold, old, pc, seen, force, excuses>>
    BY <1>5 DEF PruneRaw, PruneMetadata, PruneFails
  <2> QED
    BY <2>1
<1>6. CASE UNCHANGED vars
  BY <1>6 DEF vars
<1> QED
  BY <1>1, <1>2, <1>3, <1>4, <1>5, <1>6 DEF PruneDay

\* The archive's invariant holds always.
THEOREM ArchiveInvariance == Spec => []ArchiveInv
<1>1. Init => ArchiveInv
  BY DEF Init, ArchiveInv, LandedInv, KeptInv, ForcedInv, TarInv, ColdInv,
         Prunable, Intact
<1>2. BatchTypeOK /\ ArchiveInv /\ [Next]_vars => ArchiveInv'
  BY ArchiveInvTask, ArchiveInvWorld DEF Next
<1> QED
  BY <1>1, <1>2, BatchTypeCorrect, PTL DEF Spec

\* No object of the day is removed before it is in the tarball, provided that
\* the day had landed before its first task started, that no old day is
\* shipped by force, and that no task runs when a prune begins: for any
\* windows, tasks, stages, failures and kills.
THEOREM NothingUnarchivedGoes == Spec => []NothingUnarchivedIsRemoved
<1>1. ArchiveInv => NothingUnarchivedIsRemoved
  BY DEF ArchiveInv, KeptInv, ColdInv, Prunable, Intact,
         NothingUnarchivedIsRemoved, Safe, Archived
<1> QED
  BY <1>1, ArchiveInvariance, PTL

(***************************************************************************)
(* What a prune leaves.                                                    *)
(***************************************************************************)

\* A prune deletes the payload objects before the metadata that finds them.
RawGoneInv ==
  "late" \notin excuses =>
    /\ prune = "metadata" => landing \cap RawObjects = {}
    /\ NoRawIsForgotten

\* Tasks neither land objects nor prune them.
LEMMA TaskLeavesDay ==
  ASSUME NEW t \in Tasks, Task(t)
  PROVE  /\ UNCHANGED <<box, landing, configured, old, prune>>
         /\ excuses \subseteq excuses'
BY DEF Task, Start, Begin, Finish, Dies, End, Ship, ColdExists, ColdMissing,
       TarRaw, TarMetadata, TarPut, ShipHot, HotShipped, ShipMarker,
       ShipSnapshot, ShipFails, RollUp, RolledUp, Rollup, RollupMetadata,
       RollupRead, Commit, WriteMarker, TakeSnapshot, SnapshotFails, store, world

\* A raw object is not a metadata object.
LEMMA PartsDiffer == RawObjects \cap MetadataObjects = {}
BY DEF RawObjects, MetadataObjects, Raw, Metadata

\* New objects and prunes keep it: the raw objects go first.
LEMMA RawGoneWorld ==
  ASSUME BatchTypeOK, ArchiveInv, RawGoneInv,
         \/ \E o \in Objects : Land(o)
         \/ Age \/ Unconfigure \/ PruneBox \/ PruneDay
  PROVE  RawGoneInv'
<1> USE DEF RawGoneInv, NoRawIsForgotten, Discovered
<1>1. ASSUME NEW o \in Objects, Land(o)
      PROVE  RawGoneInv'
  <2>1. box # {} /\ UNCHANGED <<excuses, prune>>
    BY <1>1 DEF Land, world
  <2>2. "late" \notin excuses => Intact /\ prune = "idle"
    BY <2>1 DEF ArchiveInv, LandedInv, KeptInv, Prunable
  <2>3. Intact => Intact'
    BY <1>1 DEF Land, Intact
  <2>4. ASSUME Intact', box' = {}, landing' \cap RawObjects # {}
        PROVE  landing' \cap MetadataObjects # {}
    <3>1. PICK w \in Payloads : Raw(w) \in landing'
      BY <2>4 DEF RawObjects
    <3>2. Metadata(w) \in MetadataObjects
      BY <3>1, ObjectTypes DEF MetadataObjects
    <3> QED
      BY <2>4, <3>2, ObjectTypes DEF Intact
  <2> QED
    BY <2>1, <2>2, <2>3, <2>4
<1>2. CASE Age \/ Unconfigure
  BY <1>2 DEF Age, Unconfigure, store
<1>3. CASE PruneBox
  BY <1>3 DEF PruneBox, ArchiveInv, LandedInv, world
<1>4. CASE Prune
  BY <1>4 DEF Prune, store
<1>5. CASE PruneRaw \/ PruneMetadata
  BY <1>5 DEF PruneRaw, PruneMetadata
<1>6. CASE PruneFails
  <2>1. "late" \notin excuses => box = {}
    BY <1>6 DEF PruneFails, ArchiveInv, LandedInv, KeptInv, Prunable
  <2>2. CASE prune = "raw"
    <3>1. landing' \subseteq landing
      BY <1>6 DEF PruneFails
    <3>2. landing' \cap MetadataObjects = landing \cap MetadataObjects
      BY <1>6, <2>2, PartsDiffer DEF PruneFails
    <3> QED
      BY <1>6, <2>1, <3>1, <3>2 DEF PruneFails
  <2>3. CASE prune # "raw"
    <3>1. prune = "metadata" /\ landing' \subseteq landing
      BY <1>6, <2>3 DEF PruneFails, BatchTypeOK
    <3> QED
      BY <1>6, <3>1 DEF PruneFails
  <2> QED
    BY <2>2, <2>3
<1> QED
  BY <1>1, <1>2, <1>3, <1>4, <1>5, <1>6 DEF PruneDay

\* Payload objects that a prune did not delete are found by the next one,
\* wherever the deletions failed.
THEOREM NoRawLeftBehind == Spec => []NoRawIsForgotten
<1>1. Init => RawGoneInv
  BY DEF Init, RawGoneInv, NoRawIsForgotten
<1>2. BatchTypeOK /\ ArchiveInv /\ RawGoneInv /\ [Next]_vars => RawGoneInv'
  <2>1. ASSUME BatchTypeOK, RawGoneInv, NEW t \in Tasks, Task(t)
        PROVE  RawGoneInv'
    BY <2>1, TaskLeavesDay DEF RawGoneInv, NoRawIsForgotten, Discovered
  <2>2. RawGoneInv /\ UNCHANGED vars => RawGoneInv'
    BY DEF vars, store, world, RawGoneInv, NoRawIsForgotten, Discovered
  <2> QED
    BY <2>1, <2>2, RawGoneWorld DEF Next
<1>3. RawGoneInv => NoRawIsForgotten
  BY DEF RawGoneInv, NoRawIsForgotten
<1> QED
  BY <1>1, <1>2, <1>3, BatchTypeCorrect, ArchiveInvariance, PTL DEF Spec

(***************************************************************************)
(* What is pruned was processed.                                           *)
(***************************************************************************)

\* The kinds with rows.
Needed == {k \in DataKinds : Yields[k] # {}}

\* Every file a task has made from a whole day is complete.
WholeDisk ==
  \A t \in Tasks :
    /\ \A k \in DataKinds : tree[t][k] # Absent => Yields[k] \subseteq tree[t][k]
    /\ marker[t] # Absent => Needed \subseteq marker[t]
    /\ snap[t] # Absent => Payloads \subseteq snap[t]
    /\ pc[t] = "commit" =>
         /\ Objects \subseteq seen[t]
         /\ \A k \in Needed : tree[t][k] # Absent \/ k \in left[t]

\* So is every file in the hot bucket.
WholeHot ==
  /\ \A k \in DataKinds : hot[k] # Absent => Yields[k] \subseteq hot[k]
  /\ hotMarker # Absent => Needed \subseteq hotMarker
  /\ hotSnapshot # Absent => Payloads \subseteq hotSnapshot

\* What a prune that has begun has made sure of.
Proven ==
  /\ Confirmed
  /\ configured =>
       /\ \A k \in Needed : hot[k] # Absent /\ Yields[k] \subseteq hot[k]
       /\ AlertsCapable => Payloads \subseteq hotSnapshot

\* A task that runs when the prune has begun may read half a day and make half
\* a file; but as it is not forced, its ships replace nothing.
ProcessedInv ==
  excuses = {} =>
    /\ Intact => WholeDisk /\ WholeHot
    /\ prune # "idle" \/ ~Intact => Proven

\* A day read whole yields every payload.
LEMMA WholeDayReads ==
  ASSUME NEW S, Objects \subseteq S
  PROVE  Readable(S) = Payloads
BY BatchAssumption DEF Readable, Objects, RawObjects, MetadataObjects

\* A step of t that removes files of its own at most.
LEMMA FilesOnlyRemoved ==
  ASSUME BatchTypeOK, ProcessedInv, NEW t \in Tasks,
         UNCHANGED <<box, landing, served, configured, old, prune>>,
         excuses \subseteq excuses',
         cold # Absent => cold' # Absent,
         \A u \in Tasks, k \in DataKinds : tree'[u][k] \in {tree[u][k], Absent},
         \A u \in Tasks : /\ marker'[u] \in {marker[u], Absent}
                          /\ snap'[u] \in {snap[u], Absent},
         pc'[t] # "commit",
         \A u \in Tasks \ {t} :
           /\ tree'[u] = tree[u] /\ pc'[u] = pc[u]
           /\ left'[u] = left[u] /\ seen'[u] = seen[u]
  PROVE  ProcessedInv'
<1>1. Intact' <=> Intact
  BY DEF Intact
<1>2. WholeDisk => WholeDisk'
  BY DEF WholeDisk, Needed
<1>3. WholeHot => WholeHot'
  BY DEF WholeHot, served
<1>4. Proven => Proven'
  BY DEF Proven, Confirmed, served
<1> QED
  BY <1>1, <1>2, <1>3, <1>4 DEF ProcessedInv

\* The files of other tasks are their own.
LEMMA OthersKeepTheirs ==
  ASSUME BatchTypeOK, NEW t \in Tasks, Task(t)
  PROVE  \A u \in Tasks \ {t} :
           /\ tree'[u] = tree[u] /\ marker'[u] = marker[u] /\ snap'[u] = snap[u]
           /\ pc'[u] = pc[u] /\ left'[u] = left[u] /\ seen'[u] = seen[u]
<1> USE DEF BatchTypeOK, Goto, disk
<1>1. ASSUME NEW o \in {"ok", "failed"}, End(t, o), NEW u \in Tasks \ {t}
      PROVE  /\ tree'[u] = tree[u] /\ marker'[u] = marker[u] /\ snap'[u] = snap[u]
             /\ pc'[u] = pc[u] /\ left'[u] = left[u] /\ seen'[u] = seen[u]
  BY <1>1 DEF End
<1>2. CASE \/ \E forced \in BOOLEAN : Start(t, forced)
           \/ \E s \in Steps : Begin(t, s)
           \/ ColdMissing(t) \/ TarRaw(t) \/ TarMetadata(t)
           \/ \E k \in Kinds : ShipHot(t, k)
           \/ HotShipped(t) \/ ShipMarker(t)
  BY <1>2 DEF Start, Begin, ColdMissing, TarRaw, TarMetadata, ShipHot,
              HotShipped, ShipMarker
<1>3. CASE \/ ColdExists(t) \/ TarPut(t) \/ ShipSnapshot(t) \/ ShipFails(t)
           \/ RolledUp(t) \/ SnapshotFails(t)
  BY <1>3 DEF ColdExists, TarPut, AfterCold, StepOver, ShipSnapshot, ShipFails,
              RolledUp, SnapshotFails
<1>4. CASE \/ Rollup(t) \/ RollupMetadata(t) \/ RollupRead(t)
           \/ \E k \in DataKinds : Commit(t, k)
  <2>1. CASE Rollup(t) \/ RollupMetadata(t)
    BY <2>1 DEF Rollup, RollupMetadata
  <2>2. CASE RollupRead(t) \/ \E k \in DataKinds : Commit(t, k)
    BY <2>2 DEF RollupRead, Commit
  <2> QED
    BY <1>4, <2>1, <2>2
<1>5. CASE WriteMarker(t) \/ TakeSnapshot(t)
  BY <1>5 DEF WriteMarker, TakeSnapshot, StepOver
<1> QED
  BY <1>1, <1>2, <1>3, <1>4, <1>5 DEF Task, Ship, RollUp, Finish, Dies

\* A step of t that makes files, from a whole day if the day is whole.
LEMMA FilesMadeWhole ==
  ASSUME BatchTypeOK, ProcessedInv, NEW t \in Tasks, Task(t),
         UNCHANGED <<store, served>>,
         excuses = {} /\ Intact /\ WholeDisk =>
           /\ \A k \in DataKinds :
                tree'[t][k] # Absent => Yields[k] \subseteq tree'[t][k]
           /\ marker'[t] # Absent => Needed \subseteq marker'[t]
           /\ snap'[t] # Absent => Payloads \subseteq snap'[t]
           /\ pc'[t] = "commit" =>
                /\ Objects \subseteq seen'[t]
                /\ \A k \in Needed : tree'[t][k] # Absent \/ k \in left'[t]
  PROVE  ProcessedInv'
<1>1. /\ Intact' <=> Intact
      /\ excuses \subseteq excuses' /\ UNCHANGED <<prune, configured>>
  BY TaskLeavesDay DEF Intact
<1>2. excuses = {} /\ Intact /\ WholeDisk => WholeDisk'
  BY OthersKeepTheirs DEF WholeDisk, Needed
<1>3. (WholeHot => WholeHot') /\ (Proven => Proven')
  BY <1>1 DEF WholeHot, Proven, Confirmed, store, served
<1> QED
  BY <1>1, <1>2, <1>3 DEF ProcessedInv

\* What a task ships: whole files, and nothing in place of what is proven.
LEMMA ShipsKeepProven ==
  ASSUME BatchTypeOK, ArchiveInv, ProcessedInv, NEW t \in Tasks, Task(t),
         UNCHANGED <<store, disk>>, pc'[t] # "commit",
         Intact /\ WholeDisk /\ WholeHot => WholeHot',
         ~force[t] /\ Proven => Proven',
         pc[t] # "idle"
  PROVE  ProcessedInv'
<1>1. /\ Intact' <=> Intact
      /\ excuses \subseteq excuses' /\ UNCHANGED <<prune, configured>>
  BY TaskLeavesDay DEF Intact
<1>2. WholeDisk => WholeDisk'
  BY OthersKeepTheirs DEF WholeDisk, Needed, disk
<1>3. excuses = {} /\ (prune # "idle" \/ ~Intact) => ~force[t]
  BY DEF ArchiveInv, KeptInv, Prunable, ForcedInv
<1> QED
  BY <1>1, <1>2, <1>3 DEF ProcessedInv

\* No task lets a day count as processed that was read in part.
LEMMA ProcessedInvTask ==
  ASSUME BatchTypeOK, MarkerInv, ArchiveInv, ProcessedInv, NEW t \in Tasks,
         Task(t)
  PROVE  ProcessedInv'
<1>0. /\ UNCHANGED <<box, landing, configured, old, prune>>
      /\ excuses \subseteq excuses'
  BY TaskLeavesDay
<1>1. ASSUME UNCHANGED <<store, served, disk>>, pc'[t] # "commit"
      PROVE  ProcessedInv'
  BY <1>0, <1>1, OthersKeepTheirs, FilesOnlyRemoved DEF store, disk
<1>2. CASE \E forced \in BOOLEAN : Start(t, forced)
  BY <1>1, <1>2 DEF Start, Goto, BatchTypeOK
<1>3. ASSUME NEW s \in Steps, Begin(t, s)
      PROVE  ProcessedInv'
  <2>1. EntryOf(s) \in {"cold", "roll", "snapshot"}
    BY DEF EntryOf, Steps, StageNames
  <2> QED
    BY <1>1, <1>3, <2>1 DEF Begin, Goto, BatchTypeOK
<1>4. ASSUME NEW o \in {"ok", "failed"}, End(t, o)
      PROVE  ProcessedInv'
  <2>1. \A u \in Tasks, k \in DataKinds : tree'[u][k] \in {tree[u][k], Absent}
    <3>1. \A k \in DataKinds : NoFiles[k] = Absent
      BY ObjectTypes DEF NoFiles
    <3>2. tree'[t] \in {tree[t], NoFiles}
      BY <1>4 DEF End, BatchTypeOK, disk
    <3> QED
      BY <3>1, <3>2, OthersKeepTheirs
  <2>2. \A u \in Tasks : /\ marker'[u] \in {marker[u], Absent}
                         /\ snap'[u] \in {snap[u], Absent}
    BY <1>4 DEF End, BatchTypeOK, disk
  <2>3. pc'[t] # "commit"
    BY <1>4 DEF End, BatchTypeOK
  <2> QED
    BY <1>0, <1>4, <2>1, <2>2, <2>3, OthersKeepTheirs, FilesOnlyRemoved
       DEF End, store
<1>5. CASE ColdExists(t)
  BY <1>1, <1>5 DEF ColdExists, AfterCold, StepOver, Goto, BatchTypeOK
<1>6. CASE \/ ColdMissing(t) \/ TarRaw(t) \/ TarMetadata(t) \/ HotShipped(t)
  BY <1>1, <1>6
     DEF ColdMissing, TarRaw, TarMetadata, HotShipped, Goto, BatchTypeOK
<1>7. CASE TarPut(t)
  <2>1. cold' # Absent
    BY <1>7, AbsentIsNone DEF TarPut, BatchTypeOK
  <2>2. pc'[t] # "commit"
    BY <1>7 DEF TarPut, AfterCold, StepOver, Goto, BatchTypeOK
  <2> QED
    BY <1>0, <1>7, <2>1, <2>2, OthersKeepTheirs, FilesOnlyRemoved
       DEF TarPut, disk
<1>8. ASSUME NEW k \in Kinds, ShipHot(t, k)
      PROVE  ProcessedInv'
  <2>1. /\ pc[t] = "hot" /\ pc' = pc
        /\ UNCHANGED <<store, disk, hotMarker, hotSnapshot, configured>>
    BY <1>8 DEF ShipHot, At, world
  <2>2. /\ hot'[k] \in {hot[k], tree[t][k]}
        /\ \A j \in Kinds \ {k} : hot'[j] = hot[j]
        /\ ~force[t] /\ hot[k] # Absent => hot' = hot
    BY <1>8 DEF ShipHot, BatchTypeOK
  <2>3. WholeDisk /\ WholeHot => WholeHot'
    BY <2>1, <2>2, ObjectTypes DEF WholeDisk, WholeHot
  <2>4. ~force[t] /\ Proven => Proven'
    BY <2>1, <2>2, ObjectTypes DEF Proven, Confirmed, Needed, store
  <2> QED
    BY <2>1, <2>3, <2>4, ShipsKeepProven
<1>9. CASE ShipMarker(t)
  <2>1. /\ pc[t] = "marker" /\ pc'[t] = "snap"
        /\ UNCHANGED <<store, disk, hot, hotSnapshot, configured>>
    BY <1>9 DEF ShipMarker, At, Goto, BatchTypeOK, world
  <2>2. WholeDisk /\ WholeHot => WholeHot'
    BY <1>9, <2>1 DEF ShipMarker, WholeDisk, WholeHot
  <2>3. ~force[t] /\ Proven => Proven'
    BY <1>9, <2>1 DEF ShipMarker, Proven, Confirmed, store
  <2> QED
    BY <2>1, <2>2, <2>3, ShipsKeepProven
<1>10. CASE ShipSnapshot(t)
  <2>1. /\ pc[t] = "snap" /\ pc'[t] = "next"
        /\ UNCHANGED <<store, disk, hot, hotMarker, configured>>
    BY <1>10 DEF ShipSnapshot, At, StepOver, Goto, BatchTypeOK, world
  <2>2. WholeDisk /\ WholeHot => WholeHot'
    BY <1>10, <2>1 DEF ShipSnapshot, WholeDisk, WholeHot
  <2>3. ~force[t] /\ Proven => Proven'
    BY <1>10, <2>1 DEF ShipSnapshot, Proven, Confirmed, store
  <2> QED
    BY <2>1, <2>2, <2>3, ShipsKeepProven
<1>11. CASE ShipFails(t) \/ RolledUp(t) \/ SnapshotFails(t)
  BY <1>1, <1>11
     DEF ShipFails, RolledUp, SnapshotFails, StepOver, Goto, BatchTypeOK
<1>12. CASE Rollup(t) \/ RollupMetadata(t)
  <2>1. /\ UNCHANGED <<store, served, snap>>
        /\ pc'[t] # "commit"
    BY <1>12 DEF Rollup, RollupMetadata, Goto, BatchTypeOK
  <2>2. \A u \in Tasks, k \in DataKinds : tree'[u][k] = tree[u][k]
    <3>1. \A k \in DataKinds : tree'[t][k] = tree[t][k]
      BY <1>12, BatchAssumption, ObjectTypes
         DEF Rollup, RollupMetadata, BatchTypeOK
    <3> QED
      BY <3>1, OthersKeepTheirs
  <2>3. \A u \in Tasks : marker'[u] \in {marker[u], Absent}
    BY <1>12 DEF Rollup, RollupMetadata, BatchTypeOK
  <2> QED
    BY <1>0, <2>1, <2>2, <2>3, OthersKeepTheirs, FilesOnlyRemoved DEF store
<1>13. CASE RollupRead(t)
  <2>1. /\ UNCHANGED <<store, served, disk>>
        /\ pc[t] = "rollRead" /\ seen'[t] = landing
        /\ left'[t] = {k \in DataKinds : force[t] \/ tree[t][k] = Absent}
    BY <1>13 DEF RollupRead, At, BatchTypeOK
  <2>2. excuses = {} /\ Intact => Objects \subseteq landing
    BY <2>1 DEF ArchiveInv, LandedInv, Intact
  <2> QED
    BY <2>1, <2>2, FilesMadeWhole DEF WholeDisk, Needed, disk
<1>14. ASSUME NEW k \in DataKinds, Commit(t, k)
       PROVE  ProcessedInv'
  <2>1. /\ UNCHANGED <<store, served, marker, snap, seen>>
        /\ pc[t] = "commit" /\ left'[t] = left[t] \ {k}
        /\ tree'[t][k] = FileOf(Readable(seen[t]) \cap Yields[k])
        /\ \A j \in DataKinds \ {k} : tree'[t][j] = tree[t][j]
    BY <1>14, ObjectTypes DEF Commit, At, BatchTypeOK
  <2>2. Yields[k] \subseteq Payloads /\ Yields[k] \in SUBSET Windows
    BY BatchAssumption
  <2>3. Objects \subseteq seen[t] => tree'[t][k] = FileOf(Yields[k])
    <3>1. Payloads \cap Yields[k] = Yields[k]
      BY <2>2
    <3> QED
      BY <2>1, <3>1, WholeDayReads
  <2>4. FileOf(Yields[k]) # Absent => Yields[k] \subseteq FileOf(Yields[k])
    BY DEF FileOf
  <2>5. Yields[k] # {} => FileOf(Yields[k]) # Absent
    BY <2>2, AbsentIsNone DEF FileOf
  <2> QED
    BY <2>1, <2>3, <2>4, <2>5, FilesMadeWhole DEF WholeDisk, Needed
<1>15. CASE WriteMarker(t)
  <2>1. /\ UNCHANGED <<store, served, tree, snap>>
        /\ pc[t] = "commit" /\ left[t] = {} /\ pc'[t] # "commit"
        /\ marker'[t] = {k \in Kinds : tree[t][k] # Absent}
    BY <1>15 DEF WriteMarker, At, StepOver, Goto, BatchTypeOK
  <2> QED
    BY <2>1, ObjectTypes, FilesMadeWhole DEF WholeDisk, Needed
<1>16. CASE TakeSnapshot(t)
  <2>1. /\ UNCHANGED <<store, served, tree, marker>>
        /\ pc[t] = "snapshot" /\ pc'[t] # "commit"
        /\ snap'[t] \in {snap[t], Readable(landing)}
    BY <1>16 DEF TakeSnapshot, At, StepOver, Goto, BatchTypeOK
  <2>2. excuses = {} /\ Intact => Readable(landing) = Payloads
    BY <2>1, WholeDayReads DEF ArchiveInv, LandedInv, Intact
  <2> QED
    BY <2>1, <2>2, FilesMadeWhole DEF WholeDisk
<1> QED
  BY <1>2, <1>3, <1>4, <1>5, <1>6, <1>7, <1>8, <1>9, <1>10, <1>11, <1>12,
     <1>13, <1>14, <1>15, <1>16
     DEF Task, Ship, RollUp, Finish, Dies

\* What is pruned counted as processed.
LEMMA ProcessedInvWorld ==
  ASSUME BatchTypeOK, MarkerInv, ArchiveInv, ProcessedInv,
         \/ \E o \in Objects : Land(o)
         \/ Age \/ Unconfigure \/ PruneBox \/ PruneDay
  PROVE  ProcessedInv'
<1>1. ASSUME UNCHANGED <<served, disk, local, cold, prune, excuses>>,
             Intact' => Intact, ~Intact' /\ excuses = {} => ~Intact,
             configured' => configured
      PROVE  ProcessedInv'
  BY <1>1 DEF ProcessedInv, WholeDisk, WholeHot, Proven, Confirmed, Needed,
              served, disk, local
<1>2. ASSUME NEW o \in Objects, Land(o)
      PROVE  ProcessedInv'
  BY <1>1, <1>2 DEF Land, Intact, world
<1>3. CASE Age \/ Unconfigure
  BY <1>1, <1>3 DEF Age, Unconfigure, Intact, store
<1>4. CASE PruneBox
  BY <1>1, <1>4 DEF PruneBox, Intact, ArchiveInv, LandedInv, world
<1>5. CASE Prune
  <2>1. /\ Confirmed /\ excuses \subseteq excuses'
        /\ UNCHANGED <<store, served, disk, local, configured>>
    BY <1>5 DEF Prune
  <2>2. WholeHot => Proven
    BY <2>1
       DEF WholeHot, Proven, Confirmed, Needed, MarkerInv, ServedInv, MarkerVouches
  <2> QED
    BY <2>1, <2>2
       DEF ProcessedInv, WholeDisk, WholeHot, Proven, Confirmed, Needed, Intact,
           store, served, disk, local
<1>6. CASE PruneRaw \/ PruneMetadata \/ PruneFails
  <2>1. /\ prune # "idle" /\ landing' \subseteq landing
        /\ UNCHANGED <<box, cold, served, disk, local, configured, excuses>>
    BY <1>6 DEF PruneRaw, PruneMetadata, PruneFails
  <2>2. Intact' => Intact
    BY <2>1 DEF Intact
  <2> QED
    BY <2>1, <2>2
       DEF ProcessedInv, WholeDisk, WholeHot, Proven, Confirmed, Needed, served,
           disk, local
<1> QED
  BY <1>2, <1>3, <1>4, <1>5, <1>6 DEF PruneDay

\* The invariant of processed days holds always.
THEOREM ProcessedInvariance == Spec => []ProcessedInv
<1>1. Init => ProcessedInv
  BY DEF Init, ProcessedInv, WholeDisk, WholeHot, Intact, NoFiles, Kinds
<1>2. /\ BatchTypeOK /\ MarkerInv /\ ArchiveInv /\ ProcessedInv
      /\ [Next]_vars
      => ProcessedInv'
  <2>1. ProcessedInv /\ UNCHANGED vars => ProcessedInv'
    BY DEF ProcessedInv, WholeDisk, WholeHot, Proven, Confirmed, Needed, Intact,
           vars, store, served, disk, local, world
  <2> QED
    BY <2>1, ProcessedInvTask, ProcessedInvWorld DEF Next
<1> QED
  BY <1>1, <1>2, BatchTypeCorrect, MarkerInvariance, ArchiveInvariance, PTL
     DEF Spec

\* A payload is pruned only when the hot bucket has its rows of every kind, and
\* its alerts: under the provisos of NothingUnarchivedGoes, for any windows,
\* kinds, tasks, stages, failures and kills.
THEOREM PrunedWasProcessed == Spec => []PrunedInputWasProcessed
<1>1. BatchTypeOK /\ ProcessedInv => PrunedInputWasProcessed
  <2> SUFFICES ASSUME BatchTypeOK, ProcessedInv, excuses = {}, configured,
                      NEW w \in Payloads, Raw(w) \notin box \cup landing
               PROVE  /\ \A k \in DataKinds :
                           w \in Yields[k] => hot[k] # Absent /\ w \in hot[k]
                      /\ AlertsCapable => hotSnapshot # Absent /\ w \in hotSnapshot
    BY DEF PrunedInputWasProcessed
  <2>1. Raw(w) \in Objects
    BY DEF Objects, RawObjects
  <2>2. Proven
    BY <2>1 DEF ProcessedInv, Intact
  <2> QED
    BY <2>2 DEF Proven, Confirmed, Needed
<1> QED
  BY <1>1, BatchTypeCorrect, ProcessedInvariance, PTL

=============================================================================
