-------------------------------- MODULE BatchDay --------------------------------
(***************************************************************************)
(* What the batch does with one feed's day: tasks of the nightly batch     *)
(* (agency_batch.run_agency) archive the day's landing objects in one cold *)
(* tarball, roll them up to parquet on the task's own disk, ship that to   *)
(* the hot bucket, and put a marker beside it; once the day is old enough, *)
(* the prune deletes the landing objects it takes for archived, rolled up  *)
(* and snapshotted.                                                        *)
(*                                                                         *)
(* Tasks run side by side, each a sequence of subprocesses that may fail   *)
(* or be killed between any two operations on S3 or the disk, and may be   *)
(* run again, forced or not, before or after the prune.                    *)
(***************************************************************************)
EXTENDS Naturals

CONSTANTS
  Windows,        \* the ship windows of the day
  Payloads,       \* those with a tar of payloads beside their metadata
  DataKinds,      \* the kinds the feed's decoder produces
  Yields,         \* per kind, the windows whose payloads have rows of it
  AlertsCapable,  \* the decoder produces alerts
  Tasks,
  Stages,         \* --stages, per task
  Ephemeral,      \* tasks whose disk does not outlive them
  MayForce,       \* tasks that may be started with --force
  Absent,         \* no such file or object
  MaxStarts,      \* bound: starts, per task
  MaxFaults       \* bound: failures and kills

Raw(w) == [part |-> "raw", window |-> w]

Metadata(w) == [part |-> "metadata", window |-> w]

RawObjects == {Raw(w) : w \in Payloads}

MetadataObjects == {Metadata(w) : w \in Windows}

Objects == RawObjects \cup MetadataObjects

Kinds == DataKinds \cup {"metadata"}

StageNames == {"cold-ship", "rollup", "snapshot", "hot-ship"}

Steps == StageNames \cup {"interim-ship"}

ASSUME BatchAssumption ==
  /\ Payloads \subseteq Windows
  /\ "metadata" \notin DataKinds
  /\ Yields \in [DataKinds -> SUBSET Payloads]
  /\ AlertsCapable \in BOOLEAN
  /\ Stages \in [Tasks -> SUBSET StageNames]
  /\ MaxStarts \in [Tasks -> Nat]
  /\ MaxFaults \in Nat

\* Absent is no set of objects, windows or kinds.
ASSUME AbsentAssumption ==
  \A S \in (SUBSET Objects) \cup (SUBSET Windows) \cup (SUBSET Kinds) : S # Absent

VARIABLES
  box,          \* objects of the day that are still on the poller's disk
  landing,      \* objects in the landing bucket
  cold,         \* the cold tarball: the objects in it
  hot,          \* per kind, the parquet in the hot bucket: the windows in it
  hotMarker,    \* the marker in the hot bucket: the kinds it counts rows of
  hotSnapshot,  \* the alert snapshot in the hot bucket: the windows in it
  tree,         \* per task and kind, the parquet on the task's disk
  marker,       \* per task, _SUCCESS.json on the task's disk
  snap,         \* per task, the alert snapshot on the task's disk
  pc,           \* per task, where it is
  step,         \* per task, the subprocess that runs
  todo,         \* per task, the steps still to run
  force,        \* per task, --force
  seen,         \* per task, the landing objects the step has read
  left,         \* per task, the kinds the step has still to write
  exit,         \* per task, how its last run ended
  starts,       \* per task, runs so far
  configured,   \* the feed is in the configuration
  old,          \* the day is older than keep_days
  prune,        \* where the prune is
  excuses,      \* what has happened that the batch does not expect
  faults        \* failures and kills so far

store  == <<box, landing, cold>>
served == <<hot, hotMarker, hotSnapshot>>
disk   == <<tree, marker, snap>>
local  == <<pc, seen, left>>
run    == <<step, todo, force, exit, starts>>
world  == <<configured, old, prune, excuses>>
vars   == <<store, served, disk, local, run, world, faults>>

Some(S) == {Absent} \cup S

Labels == {"idle", "next", "cold", "tarRaw", "tarMetadata", "tarPut", "hot",
           "marker", "snap", "roll", "rollMetadata", "rollRead", "commit",
           "snapshot"}

\* The files of each place are of the kinds it may hold, and each task is at a stage of its program.
BatchTypeOK ==
  /\ box \in SUBSET Objects
  /\ landing \in SUBSET Objects
  /\ cold \in Some(SUBSET Objects)
  /\ hot \in [Kinds -> Some(SUBSET Windows)]
  /\ hotMarker \in Some(SUBSET Kinds)
  /\ hotSnapshot \in Some(SUBSET Windows)
  /\ tree \in [Tasks -> [Kinds -> Some(SUBSET Windows)]]
  /\ marker \in [Tasks -> Some(SUBSET Kinds)]
  /\ snap \in [Tasks -> Some(SUBSET Windows)]
  /\ pc \in [Tasks -> Labels]
  /\ step \in [Tasks -> Steps \cup {"none"}]
  /\ todo \in [Tasks -> SUBSET Steps]
  /\ force \in [Tasks -> BOOLEAN]
  /\ seen \in [Tasks -> SUBSET Objects]
  /\ left \in [Tasks -> SUBSET Kinds]
  /\ exit \in [Tasks -> {"none", "ok", "failed"}]
  /\ starts \in [Tasks -> Nat]
  /\ configured \in BOOLEAN
  /\ old \in BOOLEAN
  /\ prune \in {"idle", "raw", "metadata"}
  /\ excuses \in SUBSET {"late", "forced", "overlap"}
  /\ faults \in 0..MaxFaults

NoFiles == [k \in Kinds |-> Absent]

Init ==
  /\ box = Objects
  /\ landing = {}
  /\ cold = Absent
  /\ hot = NoFiles
  /\ hotMarker = Absent
  /\ hotSnapshot = Absent
  /\ tree = [t \in Tasks |-> NoFiles]
  /\ marker = [t \in Tasks |-> Absent]
  /\ snap = [t \in Tasks |-> Absent]
  /\ pc = [t \in Tasks |-> "idle"]
  /\ step = [t \in Tasks |-> "none"]
  /\ todo = [t \in Tasks |-> {}]
  /\ force = [t \in Tasks |-> FALSE]
  /\ seen = [t \in Tasks |-> {}]
  /\ left = [t \in Tasks |-> {}]
  /\ exit = [t \in Tasks |-> "none"]
  /\ starts = [t \in Tasks |-> 0]
  /\ configured = TRUE
  /\ old = FALSE
  /\ prune = "idle"
  /\ excuses = {}
  /\ faults = 0

-----------------------------------------------------------------------------

Fault == /\ faults < MaxFaults
         /\ faults' = faults + 1

AllIdle == \A t \in Tasks : pc[t] = "idle"

\* Discovery lists metadata objects only.
Discovered == landing \cap MetadataObjects # {}

\* A payload is dated by the metadata row that names it; one without is
\* dropped.
Readable(S) == {w \in Payloads : {Raw(w), Metadata(w)} \subseteq S}

Goto(t, label) == pc' = [pc EXCEPT ![t] = label]

At(t, label) == pc[t] = label

\* The subprocess ended: what it held in memory is gone.
StepOver(t) ==
  /\ Goto(t, "next")
  /\ seen' = [seen EXCEPT ![t] = {}]
  /\ left' = [left EXCEPT ![t] = {}]

-----------------------------------------------------------------------------
(* The landing uploader, as far as the batch sees it (LandingUploader): a  *)
(* window's payloads land before its metadata.                             *)

Land(o) ==
  /\ o \in box
  /\ o.part = "metadata" => Raw(o.window) \notin box
  /\ box' = box \ {o}
  /\ landing' = landing \cup {o}
  /\ UNCHANGED <<cold, served, disk, local, run, world, faults>>

-----------------------------------------------------------------------------
(* agency_batch: one task, one feed.                                       *)

\* resolve_stages: a stage that writes curated files is never run without the
\* ship that uploads them.
Selected(t) ==
  IF Stages[t] \cap {"rollup", "snapshot"} # {}
    THEN Stages[t] \cup {"hot-ship"}
    ELSE Stages[t]

\* The rollup is followed by a ship of its own.
Program(t) ==
  IF {"rollup", "hot-ship"} \subseteq Selected(t)
    THEN Selected(t) \cup {"interim-ship"}
    ELSE Selected(t)

Rank == [s \in Steps |-> CASE s = "cold-ship"    -> 1
                           [] s = "rollup"       -> 2
                           [] s = "interim-ship" -> 3
                           [] s = "snapshot"     -> 4
                           [] s = "hot-ship"     -> 5]

Start(t, forced) ==
  /\ At(t, "idle")
  /\ configured
  /\ starts[t] < MaxStarts[t]
  /\ forced => t \in MayForce
  /\ starts' = [starts EXCEPT ![t] = @ + 1]
  /\ force' = [force EXCEPT ![t] = forced]
  /\ todo' = [todo EXCEPT ![t] = Program(t)]
  /\ excuses' = excuses \cup (IF box # {} THEN {"late"} ELSE {})
                        \cup (IF forced /\ old THEN {"forced"} ELSE {})
  /\ Goto(t, "next")
  /\ UNCHANGED <<store, served, disk, seen, left, step, exit, configured, old,
                 prune, faults>>

EntryOf(s) ==
  CASE s \in {"cold-ship", "interim-ship", "hot-ship"} -> "cold"
    [] s = "rollup"   -> "roll"
    [] s = "snapshot" -> "snapshot"

\* The next subprocess.  Ship and rollup find nothing to do when discovery
\* finds no metadata; the snapshot does not ask.
Begin(t, s) ==
  /\ At(t, "next")
  /\ s \in todo[t]
  /\ \A r \in todo[t] : Rank[s] <= Rank[r]
  /\ todo' = [todo EXCEPT ![t] = @ \ {s}]
  /\ step' = [step EXCEPT ![t] = s]
  /\ Goto(t, IF Discovered \/ s = "snapshot" THEN EntryOf(s) ELSE "next")
  /\ UNCHANGED <<store, served, disk, seen, left, force, exit, starts, world,
                 faults>>

\* The task ends, and with it the files it made, unless it keeps them.
End(t, outcome) ==
  /\ exit' = [exit EXCEPT ![t] = outcome]
  /\ todo' = [todo EXCEPT ![t] = {}]
  /\ step' = [step EXCEPT ![t] = "none"]
  /\ pc' = [pc EXCEPT ![t] = "idle"]
  /\ seen' = [seen EXCEPT ![t] = {}]
  /\ left' = [left EXCEPT ![t] = {}]
  /\ IF t \in Ephemeral
       THEN /\ tree' = [tree EXCEPT ![t] = NoFiles]
            /\ marker' = [marker EXCEPT ![t] = Absent]
            /\ snap' = [snap EXCEPT ![t] = Absent]
       ELSE UNCHANGED disk
  /\ UNCHANGED <<store, served, force, starts, world>>

Finish(t) ==
  /\ At(t, "next")
  /\ todo[t] = {}
  /\ End(t, "ok")
  /\ UNCHANGED faults

\* The task is stopped, or a subprocess whose exit code ends the chain fails.
Dies(t) ==
  /\ pc[t] # "idle"
  /\ Fault
  /\ End(t, "failed")

-----------------------------------------------------------------------------
(* Shipper.ship_one.                                                       *)

AfterCold(t) ==
  IF step[t] = "cold-ship"
    THEN StepOver(t)
    ELSE /\ Goto(t, "hot")
         /\ seen' = [seen EXCEPT ![t] = {}]
         /\ left' = [left EXCEPT ![t] = {k \in Kinds : tree[t][k] # Absent}]

ColdExists(t) ==
  /\ At(t, "cold")
  /\ ~force[t]
  /\ cold # Absent
  /\ AfterCold(t)
  /\ UNCHANGED <<store, served, disk, run, world, faults>>

ColdMissing(t) ==
  /\ At(t, "cold")
  /\ force[t] \/ cold = Absent
  /\ Goto(t, "tarRaw")
  /\ UNCHANGED <<store, served, disk, seen, left, run, world, faults>>

\* The tarball is built from two listings.
TarRaw(t) ==
  /\ At(t, "tarRaw")
  /\ seen' = [seen EXCEPT ![t] = landing \cap RawObjects]
  /\ Goto(t, "tarMetadata")
  /\ UNCHANGED <<store, served, disk, left, run, world, faults>>

\* Mutant of TarMetadata: the second listing replaces the first.
TarSecondListing(t) ==
  /\ At(t, "tarMetadata")
  /\ seen' = [seen EXCEPT ![t] = landing \cap MetadataObjects]
  /\ Goto(t, "tarPut")
  /\ UNCHANGED <<store, served, disk, left, run, world, faults>>

TarMetadata(t) ==
  /\ At(t, "tarMetadata")
  /\ seen' = [seen EXCEPT ![t] = @ \cup (landing \cap MetadataObjects)]
  /\ Goto(t, "tarPut")
  /\ UNCHANGED <<store, served, disk, left, run, world, faults>>

TarPut(t) ==
  /\ At(t, "tarPut")
  /\ cold' = seen[t]
  /\ AfterCold(t)
  /\ UNCHANGED <<box, landing, served, disk, run, world, faults>>

\* One parquet of the task's tree, uploaded unless the hot bucket has one.
ShipHot(t, k) ==
  /\ At(t, "hot")
  /\ k \in left[t]
  /\ left' = [left EXCEPT ![t] = @ \ {k}]
  /\ hot' = IF force[t] \/ hot[k] = Absent
              THEN [hot EXCEPT ![k] = tree[t][k]]
              ELSE hot
  /\ UNCHANGED <<store, hotMarker, hotSnapshot, disk, pc, seen, run, world,
                 faults>>

\* Mutant of HotShipped: the marker may overtake the parquet.
HotShippedEarly(t) ==
  /\ At(t, "hot")
  /\ Goto(t, "marker")
  /\ UNCHANGED <<store, served, disk, seen, left, run, world, faults>>

HotShipped(t) ==
  /\ At(t, "hot")
  /\ left[t] = {}
  /\ Goto(t, "marker")
  /\ UNCHANGED <<store, served, disk, seen, left, run, world, faults>>

\* The marker, if there is one; it is refused when a parquet it counts is
\* not there.
ShipMarker(t) ==
  /\ At(t, "marker")
  /\ marker[t] # Absent => \A k \in marker[t] : tree[t][k] # Absent
  /\ hotMarker' = IF marker[t] # Absent /\ (force[t] \/ hotMarker = Absent)
                    THEN marker[t]
                    ELSE hotMarker
  /\ Goto(t, "snap")
  /\ UNCHANGED <<store, hot, hotSnapshot, disk, seen, left, run, world, faults>>

ShipSnapshot(t) ==
  /\ At(t, "snap")
  /\ hotSnapshot' = IF snap[t] # Absent /\ (force[t] \/ hotSnapshot = Absent)
                      THEN snap[t]
                      ELSE hotSnapshot
  /\ StepOver(t)
  /\ UNCHANGED <<store, hot, hotMarker, disk, run, world, faults>>

Shipping(t) ==
  pc[t] \in {"cold", "tarRaw", "tarMetadata", "tarPut", "hot", "marker", "snap"}

\* Mutant of ShipFails: the ship goes on after a cold ship that failed.
ShipFailsButGoesOn(t) ==
  /\ Shipping(t)
  /\ Fault
  /\ IF At(t, "tarPut") THEN AfterCold(t) ELSE StepOver(t)
  /\ UNCHANGED <<store, served, disk, run, world>>

\* A ship that raises is logged by Shipper.run and exits with 0.
ShipFails(t) ==
  /\ Shipping(t)
  /\ Fault
  /\ StepOver(t)
  /\ UNCHANGED <<store, served, disk, run, world>>

-----------------------------------------------------------------------------
(* Rollup.rollup_one and snapshot.py.                                      *)

RolledUp(t) ==
  /\ At(t, "roll")
  /\ ~force[t]
  /\ marker[t] # Absent
  /\ StepOver(t)
  /\ UNCHANGED <<store, served, disk, run, world, faults>>

\* Mutant of Rollup: the old marker stays until the new one replaces it.
RollupKeepsMarker(t) ==
  /\ At(t, "roll")
  /\ force[t] \/ marker[t] = Absent
  /\ Goto(t, "rollMetadata")
  /\ UNCHANGED <<store, served, disk, seen, left, run, world, faults>>

\* The old marker is removed before any output is touched.
Rollup(t) ==
  /\ At(t, "roll")
  /\ force[t] \/ marker[t] = Absent
  /\ marker' = [marker EXCEPT ![t] = Absent]
  /\ Goto(t, "rollMetadata")
  /\ UNCHANGED <<store, served, tree, snap, seen, left, run, world, faults>>

\* A file for the windows W, or none.
FileOf(W) == IF W = {} THEN Absent ELSE W

\* Mutant of MetadataWindows: objects are counted, of which a window may have
\* several.
MetadataKeys == landing \cap MetadataObjects

MetadataWindows == {w \in Windows : Metadata(w) \in landing}

RollupMetadata(t) ==
  /\ At(t, "rollMetadata")
  /\ tree' = IF force[t] \/ tree[t]["metadata"] = Absent
               THEN [tree EXCEPT ![t]["metadata"] = FileOf(MetadataWindows)]
               ELSE tree
  /\ Goto(t, "rollRead")
  /\ UNCHANGED <<store, served, marker, snap, seen, left, run, world, faults>>

\* Kinds whose parquet exists are kept, unless the run is forced.
RollupRead(t) ==
  /\ At(t, "rollRead")
  /\ left' = [left EXCEPT ![t] =
                {k \in DataKinds : force[t] \/ tree[t][k] = Absent}]
  /\ seen' = [seen EXCEPT ![t] = landing]
  /\ Goto(t, "commit")
  /\ UNCHANGED <<store, served, disk, run, world, faults>>

\* A kind without rows has no file; one from an earlier run is removed.
Commit(t, k) ==
  /\ At(t, "commit")
  /\ k \in left[t]
  /\ tree' = [tree EXCEPT ![t][k] = FileOf(Readable(seen[t]) \cap Yields[k])]
  /\ left' = [left EXCEPT ![t] = @ \ {k}]
  /\ UNCHANGED <<store, served, marker, snap, pc, seen, run, world, faults>>

\* The marker counts the rows of every kind; the kinds that have some matter.
WriteMarker(t) ==
  /\ At(t, "commit")
  /\ left[t] = {}
  /\ marker' = [marker EXCEPT ![t] = {k \in Kinds : tree[t][k] # Absent}]
  /\ StepOver(t)
  /\ UNCHANGED <<store, served, tree, snap, run, world, faults>>

TakeSnapshot(t) ==
  /\ At(t, "snapshot")
  /\ snap' = IF AlertsCapable /\ (force[t] \/ snap[t] = Absent)
               THEN [snap EXCEPT ![t] = Readable(landing)]
               ELSE snap
  /\ StepOver(t)
  /\ UNCHANGED <<store, served, tree, marker, run, world, faults>>

\* A snapshot that raises is skipped, and the process exits with 0.
SnapshotFails(t) ==
  /\ At(t, "snapshot")
  /\ Fault
  /\ StepOver(t)
  /\ UNCHANGED <<store, served, disk, run, world>>

-----------------------------------------------------------------------------
(* Time, configuration, and the prunes of the box and of the bucket.       *)

\* A task does not run for keep_days.
Age ==
  /\ ~old
  /\ AllIdle
  /\ old' = TRUE
  /\ UNCHANGED <<store, served, disk, local, run, configured, prune, excuses,
                 faults>>

\* The feed is removed from the configuration.
Unconfigure ==
  /\ configured
  /\ AllIdle
  /\ configured' = FALSE
  /\ UNCHANGED <<store, served, disk, local, run, old, prune, excuses, faults>>

\* Shipper.prune on the poller's disk looks for the tarball only.
PruneBox ==
  /\ old
  /\ cold # Absent
  /\ box' = {}
  /\ UNCHANGED <<landing, cold, served, disk, local, run, world, faults>>

\* Mutant of Confirmed: the tarball alone is enough.
ConfirmedCold == cold # Absent

\* What prune_s3 asks of a day before it deletes its landing objects.
Confirmed ==
  /\ cold # Absent
  /\ configured => hotMarker # Absent
  /\ configured /\ AlertsCapable => hotSnapshot # Absent

Prune ==
  /\ prune = "idle"
  /\ old
  /\ Discovered
  /\ Confirmed
  /\ prune' = "raw"
  /\ excuses' = IF AllIdle THEN excuses ELSE excuses \cup {"overlap"}
  /\ UNCHANGED <<store, served, disk, local, run, configured, old, faults>>

\* Mutant of PruneRaw: a deletion that failed in part is not noticed.
PruneSomeRaw ==
  /\ prune = "raw"
  /\ \E gone \in SUBSET (landing \cap RawObjects) : landing' = landing \ gone
  /\ prune' = "metadata"
  /\ UNCHANGED <<box, cold, served, disk, local, run, configured, old, excuses,
                 faults>>

PruneRaw ==
  /\ prune = "raw"
  /\ landing' = landing \ RawObjects
  /\ prune' = "metadata"
  /\ UNCHANGED <<box, cold, served, disk, local, run, configured, old, excuses,
                 faults>>

PruneMetadata ==
  /\ prune = "metadata"
  /\ landing' = landing \ MetadataObjects
  /\ prune' = "idle"
  /\ UNCHANGED <<box, cold, served, disk, local, run, configured, old, excuses,
                 faults>>

\* A deletion fails in part: the day is left to the next prune.
PruneFails ==
  /\ prune # "idle"
  /\ Fault
  /\ LET part == IF prune = "raw" THEN RawObjects ELSE MetadataObjects
     IN  \E gone \in SUBSET (landing \cap part) : landing' = landing \ gone
  /\ prune' = "idle"
  /\ UNCHANGED <<box, cold, served, disk, local, run, configured, old, excuses>>

-----------------------------------------------------------------------------

Ship(t) ==
  \/ ColdExists(t) \/ ColdMissing(t)
  \/ TarRaw(t) \/ TarMetadata(t) \/ TarPut(t)
  \/ \E k \in Kinds : ShipHot(t, k)
  \/ HotShipped(t) \/ ShipMarker(t) \/ ShipSnapshot(t)
  \/ ShipFails(t)

RollUp(t) ==
  \/ RolledUp(t) \/ Rollup(t) \/ RollupMetadata(t) \/ RollupRead(t)
  \/ \E k \in DataKinds : Commit(t, k)
  \/ WriteMarker(t)

Task(t) ==
  \/ \E forced \in BOOLEAN : Start(t, forced)
  \/ \E s \in Steps : Begin(t, s)
  \/ Finish(t)
  \/ Dies(t)
  \/ Ship(t)
  \/ RollUp(t)
  \/ TakeSnapshot(t)
  \/ SnapshotFails(t)

PruneDay == Prune \/ PruneRaw \/ PruneMetadata \/ PruneFails

Next ==
  \/ \E o \in Objects : Land(o)
  \/ \E t \in Tasks : Task(t)
  \/ Age
  \/ Unconfigure
  \/ PruneBox
  \/ PruneDay

Spec == Init /\ [][Next]_vars

-----------------------------------------------------------------------------

Archived == IF cold = Absent THEN {} ELSE cold

Safe == Objects \subseteq box \cup landing \cup Archived

\* No object is removed before it is in the tarball: whatever fails, is killed
\* or is run again, provided that the day had landed before its first task
\* started, that no ship is forced once the day may be pruned, and that no
\* task runs when a prune begins.
NothingUnarchivedIsRemoved == excuses = {} => Safe

\* Under the same provisos, what is pruned was rolled up completely, and
\* snapshotted if it may hold alerts: the hot bucket has every window's rows.
PrunedInputWasProcessed ==
  excuses = {} /\ configured =>
    \A w \in Payloads :
      Raw(w) \notin box \cup landing =>
        /\ \A k \in DataKinds :
             w \in Yields[k] => hot[k] # Absent /\ w \in hot[k]
        /\ AlertsCapable => hotSnapshot # Absent /\ w \in hotSnapshot

\* The marker in the hot bucket vouches for the parquet of every kind that it
\* counts, whichever task shipped it.
MarkerVouches ==
  hotMarker # Absent => \A k \in hotMarker : hot[k] # Absent

\* The marker on a disk counts exactly the parquet beside it: it never stands
\* next to files that a later run has begun to rewrite.
MarkerIsExact ==
  \A t \in Tasks :
    marker[t] # Absent => marker[t] = {k \in Kinds : tree[t][k] # Absent}

\* Markers tell the truth in both places, at every moment: prune_s3 and the
\* next rollup go by them and look at nothing else.
MarkersTrue == MarkerVouches /\ MarkerIsExact

\* Archiving comes first: nothing derived from a day is in the hot bucket
\* before the day is in the cold one.
ColdFirst ==
  hotMarker # Absent \/ hotSnapshot # Absent \/ (\E k \in Kinds : hot[k] # Absent)
    => cold # Absent

\* Discovery looks for metadata: what a prune that failed in part leaves is
\* found by the next one, and no payload object stays behind for ever.
NoRawIsForgotten ==
  "late" \notin excuses /\ box = {} /\ landing \cap RawObjects # {} => Discovered

\* "It deletes a day only once that day's cold tarball is confirmed in S3, so
\* nothing unarchived is ever removed" (terraform/landing.tf, of prune_s3),
\* also of an object that lands after the tarball was built.
NothingUnarchivedIsEverRemoved ==
  [][excuses \subseteq {"late"} => landing \ landing' \subseteq Archived]_vars

\* "The process exit code is nonzero iff at least one agency failed": a rollup
\* task that ended well, over a day that had landed, has shipped its marker.
OkMeansShipped ==
  excuses = {} =>
    \A t \in Tasks :
      exit[t] = "ok" /\ "rollup" \in Stages[t] => hotMarker # Absent

=============================================================================
