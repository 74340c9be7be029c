---------------------------- MODULE LandingUploader ----------------------------
(***************************************************************************)
(* The landing uploader: a worker thread beside the poller that ships, per *)
(* feed and closed window, first a tar of the window's payloads and then   *)
(* the window's slice of metadata to S3, and removes from the disk what S3 *)
(* has.  A marker records that a window has been handed off.  The worker   *)
(* interleaves with the poller's writes (module PollWriter) at every disk  *)
(* and network operation; any of them may fail, and the process may crash  *)
(* between any two.  On a clean shutdown the worker is joined and one last *)
(* sweep runs in its place.                                                *)
(***************************************************************************)
EXTENDS PollWriter

VARIABLES
  s3raw,       \* payloads inside the tars in S3
  s3meta,      \* rows inside the metadata objects in S3
  slices,      \* rows inside the local window=*.jsonl files
  markers,     \* the .shipped/<window> files, as slots
  short,       \* history: slots of which a sweep has read only some rows
  pc,          \* where the worker (or the drain) is
  nextDue,     \* _next_raw_ship_due
  scanTime,    \* the time the raw sweep read from the clock
  pending,     \* slots of the slices the metadata sweep still has to ship
  shipped,     \* the slot whose slice was uploaded and is not yet removed
  ready,       \* rows of the windows the raw sweep still has to hand off
  batch,       \* rows of the window being handed off
  present      \* payload files of that window that were on disk

worker   == <<pc, nextDue, scanTime, pending, shipped, ready, batch, present>>
s3       == <<s3raw, s3meta>>
landing  == <<slices, markers, short>>
vars     == <<pollVars, s3, landing, worker>>

\* Everything the poller keeps, except the payload files.
pollerButBins == <<now, proc, memory, saved, rows, torn, polls>>

SlotType == [feed : Feeds, window : Int]

Labels == {"wait", "scan", "unlinkSlice", "cadence", "read", "pick",
           "upload", "materialize", "mark", "unlinkBins", "exited"}

\* The types of poller and uploader together.
UploaderTypeOK ==
  /\ PollTypeOK
  /\ s3raw \in SUBSET BinFile
  /\ s3meta \in SUBSET Row
  /\ slices \in SUBSET Row
  /\ markers \in SUBSET SlotType
  /\ short \in SUBSET SlotType
  /\ pc \in Labels
  /\ nextDue \in Nat
  /\ scanTime \in Nat
  /\ pending \in SUBSET SlotType
  /\ shipped \in SUBSET SlotType
  /\ ready \in SUBSET Row
  /\ batch \in SUBSET Row
  /\ present \in SUBSET BinFile

WorkerInit ==
  /\ pc = "wait"
  /\ nextDue = 0
  /\ scanTime = 0
  /\ pending = {}
  /\ shipped = {}
  /\ ready = {}
  /\ batch = {}
  /\ present = {}

Init ==
  /\ PollInit
  /\ s3raw = {}
  /\ s3meta = {}
  /\ slices = {}
  /\ markers = {}
  /\ short = {}
  /\ WorkerInit

-----------------------------------------------------------------------------

Draining == proc = "draining"

\* _stop is set; the drain ignores it.
Stopping == proc = "closing"

\* The process and the thread that runs the sweeps exist.
Alive == proc # "down"

At(label) == Alive /\ pc = label

Goto(label) == pc' = label

OfSlot(R, s) == {r \in R : Slot(r) = s}

\* The part of R in other slots than those of the rows Q.
Outside(R, Q) == {r \in R : Slot(r) \notin Slots(Q)}

\* A sweep that raises ends: the exception is logged by its caller.
RawSweepOver ==
  IF Draining THEN /\ Goto("scan")
                   /\ pending' = Slots(slices)
              ELSE /\ Goto("wait")
                   /\ UNCHANGED pending

-----------------------------------------------------------------------------
(* _run and _scan_once_window: ship every slice on disk.                   *)

\* Slices are shipped oldest first; here they are shipped in any order.
Wake ==
  /\ At("wait")
  /\ IF Stopping THEN /\ Goto("exited")
                      /\ UNCHANGED pending
                 ELSE /\ Goto("scan")
                      /\ pending' = Slots(slices)
  /\ UNCHANGED <<pollVars, s3, landing, nextDue, scanTime, shipped, ready,
                 batch, present>>

\* The metadata object of a window has one key: a later upload replaces it.
UploadSlice(s) ==
  /\ At("scan")
  /\ ~Stopping
  /\ s \in pending
  /\ s3meta' = (s3meta \ OfSlot(s3meta, s)) \cup OfSlot(slices, s)
  /\ pending' = pending \ {s}
  /\ shipped' = {s}
  /\ Goto("unlinkSlice")
  /\ UNCHANGED <<pollVars, s3raw, landing, nextDue, scanTime, ready, batch,
                 present>>

\* Mutant of UploadSliceFails: the slice is removed all the same.
UploadSliceFailsUnseen(s) ==
  /\ At("scan")
  /\ ~Stopping
  /\ s \in pending
  /\ Fault
  /\ pending' = pending \ {s}
  /\ shipped' = {s}
  /\ Goto("unlinkSlice")
  /\ UNCHANGED <<pollerButBins, bins, s3, landing, nextDue, scanTime, ready,
                 batch, present>>

UploadSliceFails(s) ==
  /\ At("scan")
  /\ ~Stopping
  /\ s \in pending
  /\ Fault
  /\ pending' = pending \ {s}
  /\ UNCHANGED <<pollerButBins, bins, s3, landing, pc, nextDue, scanTime,
                 shipped, ready, batch, present>>

UnlinkSlice ==
  /\ At("unlinkSlice")
  /\ slices' = {r \in slices : Slot(r) \notin shipped}
  /\ shipped' = {}
  /\ Goto("scan")
  /\ UNCHANGED <<pollVars, s3, markers, short, nextDue, scanTime, pending,
                 ready, batch, present>>

\* An unlink that raises ends the sweep; the slice is shipped again.
UnlinkSliceFails ==
  /\ At("unlinkSlice")
  /\ Fault
  /\ shipped' = {}
  /\ pending' = {}
  /\ Goto("scan")
  /\ UNCHANGED <<pollerButBins, bins, s3, landing, nextDue, scanTime, ready,
                 batch, present>>

\* The worker goes on to the raw sweep.  The drain did that one first, and
\* the process ends after this one.
ScanOver ==
  /\ At("scan")
  /\ pending = {} \/ Stopping
  /\ IF Draining
       THEN /\ proc' = "down"
            /\ Goto("exited")
       ELSE /\ Goto("cadence")
            /\ UNCHANGED proc
  /\ pending' = {}
  /\ UNCHANGED <<now, memory, disk, polls, faults, s3, landing, nextDue,
                 scanTime, shipped, ready, batch, present>>

-----------------------------------------------------------------------------
(* _maybe_ship_raw_windows: once per ship window, hand off closed windows. *)

NotDue ==
  /\ At("cadence")
  /\ ~Draining
  /\ now < nextDue
  /\ Goto("wait")
  /\ UNCHANGED <<pollVars, s3, landing, nextDue, scanTime, pending, shipped,
                 ready, batch, present>>

\* The next due time is set before any work.  Beyond the horizon, where the
\* clock stops, it is capped.
Due ==
  /\ At("cadence")
  /\ Draining \/ now >= nextDue
  /\ scanTime' = now
  /\ nextDue' = IF Draining THEN nextDue
                ELSE IF now + Window <= Horizon THEN now + Window ELSE Horizon
  /\ Goto("read")
  /\ UNCHANGED <<pollVars, s3, landing, pending, shipped, ready, batch,
                 present>>

\* Mutant of Prunable: one day is thought to be enough.
PrunableAfterADay(s) == s.window < scanTime - Day

\* Markers more than two days old, which no sweep needs any more.
Prunable(s) == s.window < scanTime - 2 * Day

Pruned == {s \in markers : ~Prunable(s)}

\* The rows of the windows that were closed when the sweep read the clock,
\* from the two files it reads.
ClosedRows ==
  {r \in rows : /\ InLookback(r.ts, scanTime)
                /\ Closed(WindowOf(r.ts), scanTime)}

\* _ready_raw_windows: prune markers, then collect the closed windows that
\* have rows and no marker.
ReadReady ==
  /\ At("read")
  /\ markers' = Pruned
  /\ ready' = {r \in ClosedRows : Slot(r) \notin markers'}
  /\ Goto("pick")
  /\ UNCHANGED <<pollVars, s3, slices, short, nextDue, scanTime, pending,
                 shipped, batch, present>>

\* What a sweep has of a feed's files when the reading of some of them fails:
\* the rows before the failure, which are the earlier ones.
ReadInPart ==
  {kept \in SUBSET ClosedRows :
     /\ kept # ClosedRows
     /\ \A r \in kept, q \in ClosedRows :
          DayFile(q) = DayFile(r) /\ q.ts < r.ts => q \in kept}

\* _closed_windows catches an OSError in mid-file and goes on with the rows
\* it has: a closed window may be handed off without some of its rows, and be
\* marked.  The pruning may fail by itself.
ReadBreaks ==
  /\ At("read")
  /\ Fault
  /\ markers' \in {markers, Pruned}
  /\ \E kept \in ReadInPart :
       /\ ready' = {r \in kept : Slot(r) \notin markers'}
       /\ short' = short \cup (Slots(ready') \cap Slots(ClosedRows \ kept))
  /\ Goto("pick")
  /\ UNCHANGED <<pollerButBins, bins, s3, slices, nextDue, scanTime, pending,
                 shipped, batch, present>>

\* Mutant of FilesOf: the payloads are looked for in the directory of the
\* sweep's day.
FilesOfToday(s) ==
  {b \in bins : \E r \in OfSlot(ready, s) :
                  r.digest # NoDigest /\ b = Bin(s.feed, scanTime, r.digest)}

\* The payload files that a window's rows name and that exist.
FilesOf(s) ==
  {b \in bins : \E r \in OfSlot(ready, s) :
                  r.digest # NoDigest /\ b = Bin(s.feed, s.window, r.digest)}

\* Oldest window first.  A window without payload files has nothing to tar.
Pick(s) ==
  /\ At("pick")
  /\ ~Stopping
  /\ s \in Slots(ready)
  /\ \A q \in Slots(ready) : s.window <= q.window
  /\ batch' = OfSlot(ready, s)
  /\ ready' = ready \ OfSlot(ready, s)
  /\ present' = FilesOf(s)
  /\ Goto(IF FilesOf(s) = {} THEN "materialize" ELSE "upload")
  /\ UNCHANGED <<pollVars, s3, landing, nextDue, scanTime, pending, shipped>>

PickOver ==
  /\ At("pick")
  /\ ready = {} \/ Stopping
  /\ ready' = {}
  /\ RawSweepOver
  /\ UNCHANGED <<pollVars, s3, landing, nextDue, scanTime, shipped, batch,
                 present>>

-----------------------------------------------------------------------------
(* _ship_raw_window.                                                       *)

\* Mutant of UploadTar: one key for the tars of a feed's day.
UploadTarOfDay ==
  /\ At("upload")
  /\ s3raw' = {b \in s3raw : \A p \in present : b.day # p.day}
                \cup (present \cap bins)
  /\ Goto("materialize")
  /\ UNCHANGED <<pollVars, s3meta, landing, nextDue, scanTime, pending,
                 shipped, ready, batch, present>>

\* Each upload has a key of its own (shipped=<now>), so it replaces no tar.
\* A file that vanished since Pick is left out of the tar.
UploadTar ==
  /\ At("upload")
  /\ s3raw' = s3raw \cup (present \cap bins)
  /\ Goto("materialize")
  /\ UNCHANGED <<pollVars, s3meta, landing, nextDue, scanTime, pending,
                 shipped, ready, batch, present>>

Materialize ==
  /\ At("materialize")
  /\ slices' = Outside(slices, batch) \cup batch
  /\ Goto("mark")
  /\ UNCHANGED <<pollVars, s3, markers, short, nextDue, scanTime, pending,
                 shipped, ready, batch, present>>

Mark ==
  /\ At("mark")
  /\ markers' = markers \cup Slots(batch)
  /\ Goto("unlinkBins")
  /\ UNCHANGED <<pollVars, s3, slices, short, nextDue, scanTime, pending,
                 shipped, ready, batch, present>>

\* Mutant of HandOffFails: the error is swallowed after any of the steps.
HandOffFailsUnseen ==
  /\ At("upload") \/ At("materialize") \/ At("mark")
  /\ Fault
  /\ Goto(IF pc = "upload" THEN "materialize"
          ELSE IF pc = "materialize" THEN "mark" ELSE "unlinkBins")
  /\ UNCHANGED <<pollerButBins, bins, s3, landing, nextDue, scanTime,
                 pending, shipped, ready, batch, present>>

\* Mutant of HandOffFails: a window that was tried gets its marker.
HandOffFailsMarked ==
  /\ At("upload") \/ At("materialize") \/ At("mark")
  /\ Fault
  /\ markers' = markers \cup Slots(batch)
  /\ batch' = {}
  /\ present' = {}
  /\ Goto("pick")
  /\ UNCHANGED <<pollerButBins, bins, s3, slices, short, nextDue, scanTime,
                 pending, shipped, ready>>

\* The upload, the slice or the marker fails: everything is kept for a later
\* sweep, and this one goes on with the next window.
HandOffFails ==
  /\ At("upload") \/ At("materialize") \/ At("mark")
  /\ Fault
  /\ batch' = {}
  /\ present' = {}
  /\ Goto("pick")
  /\ UNCHANGED <<pollerButBins, bins, s3, landing, nextDue, scanTime,
                 pending, shipped, ready>>

UnlinkBin(b) ==
  /\ At("unlinkBins")
  /\ b \in present
  /\ bins' = bins \ {b}
  /\ present' = present \ {b}
  /\ UNCHANGED <<pollerButBins, faults, s3, landing, pc, nextDue, scanTime,
                 pending, shipped, ready, batch>>

\* An unlink that raises ends the whole sweep.
UnlinkBinFails ==
  /\ At("unlinkBins")
  /\ present # {}
  /\ Fault
  /\ ready' = {}
  /\ batch' = {}
  /\ present' = {}
  /\ RawSweepOver
  /\ UNCHANGED <<pollerButBins, bins, s3, landing, nextDue, scanTime,
                 shipped>>

HandedOff ==
  /\ At("unlinkBins")
  /\ present = {}
  /\ batch' = {}
  /\ Goto("pick")
  /\ UNCHANGED <<pollVars, s3, landing, nextDue, scanTime, pending, shipped,
                 ready, present>>

-----------------------------------------------------------------------------
(* __aenter__ and __aexit__.                                               *)

\* Mutant of Joined: the drain ships metadata first, and ends.
JoinedMetadataFirst ==
  /\ proc = "closing"
  /\ pc = "exited"
  /\ proc' = "draining"
  /\ pending' = Slots(slices)
  /\ Goto("scan")
  /\ UNCHANGED <<now, memory, disk, polls, faults, s3, landing, nextDue,
                 scanTime, shipped, ready, batch, present>>

\* The worker thread ended within the join timeout: the drain runs, raw
\* windows first.
Joined ==
  /\ proc = "closing"
  /\ pc = "exited"
  /\ proc' = "draining"
  /\ Goto("cadence")
  /\ UNCHANGED <<now, memory, disk, polls, faults, s3, landing, nextDue,
                 scanTime, pending, shipped, ready, batch, present>>

WorkerReset ==
  /\ pc' = "wait"
  /\ nextDue' = 0
  /\ scanTime' = 0
  /\ pending' = {}
  /\ shipped' = {}
  /\ ready' = {}
  /\ batch' = {}
  /\ present' = {}

\* The join times out, no drain runs, and the daemon thread dies with the
\* process wherever it is.  It takes a signal, and faults count those.
JoinTimesOut ==
  /\ proc = "closing"
  /\ pc # "exited"
  /\ proc' = "down"
  /\ WorkerReset
  /\ UNCHANGED <<now, memory, disk, polls, faults, s3, landing>>

Crash ==
  /\ PollCrash
  /\ WorkerReset
  /\ UNCHANGED <<s3, landing>>

Boot ==
  /\ PollBoot
  /\ WorkerReset
  /\ UNCHANGED <<s3, landing>>

-----------------------------------------------------------------------------

Scan ==
  \/ Wake
  \/ \E s \in pending : UploadSlice(s) \/ UploadSliceFails(s)
  \/ UnlinkSlice
  \/ UnlinkSliceFails
  \/ ScanOver

RawSweep ==
  \/ NotDue
  \/ Due
  \/ ReadReady
  \/ ReadBreaks
  \/ \E s \in Slots(ready) : Pick(s)
  \/ PickOver
  \/ UploadTar
  \/ Materialize
  \/ Mark
  \/ HandOffFails
  \/ \E b \in present : UnlinkBin(b)
  \/ UnlinkBinFails
  \/ HandedOff

\* A step of the poller alone.
Poller ==
  /\ Respond \/ Write \/ Signal \/ Gathered \/ Tick
  /\ UNCHANGED <<s3, landing, worker>>

Next ==
  Poller \/ Scan \/ RawSweep \/ Joined \/ JoinTimesOut \/ Crash \/ Boot

Spec == Init /\ [][Next]_vars

\* The thread pool, the worker thread, the event loop and the container's
\* restart policy keep running; crashes, failures and signals are bounded.
Fairness ==
  /\ WF_vars(Write /\ UNCHANGED <<s3, landing, worker>>)
  /\ WF_vars(Scan \/ RawSweep)
  /\ WF_vars((Gathered \/ Tick) /\ UNCHANGED <<s3, landing, worker>>)
  /\ WF_vars(Joined)
  /\ WF_vars(Boot)

FairSpec == Spec /\ Fairness

\* While the process is up, its sweeps take no time: the clock advances only
\* while the worker waits and is not due.
PromptNext ==
  /\ Next
  /\ now' # now /\ proc # "down" => pc = "wait" /\ now < nextDue

PromptSpec == Init /\ [][PromptNext]_vars /\ Fairness

-----------------------------------------------------------------------------

\* Rows of a window that a sweep once read in part: the slice of such a sweep
\* replaces a larger one.
CutShort == {r \in rows : Slot(r) \in short}

PayloadHandoff ==
  INSTANCE DurableHandoff WITH held <- bins, delivered <- s3raw, excused <- {}

SliceHandoff ==
  INSTANCE DurableHandoff WITH held <- slices, delivered <- s3meta, excused <- CutShort

\* A payload file leaves the disk only once a tar in S3 has it, and no tar's
\* content ever leaves S3 (_ship_raw_window: "delete ... ONLY after a
\* confirmed upload").
PayloadsHandedOff == PayloadHandoff!Spec

\* A row leaves its local slice only once the window's metadata object in S3
\* has it; shipping a window again never shrinks that object, although the
\* upload replaces it.  Only a window whose file could once not be read to its
\* end is excused: nothing else that fails, no crash and no retry takes a row.
SlicesHandedOff == SliceHandoff!Spec

\* "A reader who sees the shipped metadata object should always be able to
\* find its referenced digests already durable in S3", of the rows that
\* brought a payload: from the moment a slice is on disk, ready to be shipped.
RawBeforeMetadata ==
  \A r \in slices \cup s3meta :
    r.payload => Bin(r.feed, r.ts, r.digest) \in s3raw

\* No row is stranded: every readable row of a window that carries a marker,
\* and that no sweep will therefore look at again, has been handed off.  This
\* is what the grace period is for: a row of the window may still be on its
\* way to the disk when the window ends.  The one way to strand a row is a
\* read that breaks off within its window (_closed_windows): no failed upload,
\* slice, marker or unlink, no crash and no shutdown does.
MarkedRowsHandedOff ==
  \A r \in rows : Slot(r) \in markers \ short => r \in slices \cup s3meta

\* A marker is pruned only when no sweep can find its window any more: a
\* window is not handed off a second time after its payload files are gone.
MarkersOutliveLookback ==
  [][\A r \in rows :
       Slot(r) \in markers \ markers' => ~InLookback(r.ts, scanTime)]_vars

\* A payload file of a marked window that is still on disk is in S3 too: what
\* a crash leaves between the marker and the unlink is garbage, never the only
\* copy, unless a broken read passed over the row that names it.
LeftoversAreCopies ==
  \A r \in rows :
    /\ r.payload
    /\ Slot(r) \in markers \ short
    => Bin(r.feed, r.ts, r.digest) \in s3raw

\* The references of rows for unchanged content, which no tar of their own
\* window may hold: without failures, and while the uploader keeps within its
\* two days, the payload is in S3 before a row that refers to it.
ReferencesResolve ==
  /\ faults = 0
  /\ now < 2 * Day
  => \A r \in s3meta :
       r.digest # NoDigest =>
         \E b \in s3raw : b.feed = r.feed /\ b.digest = r.digest

ShutDownCleanly == proc = "down" /\ pc = "exited" /\ faults = 1

\* The drain of an undisturbed shutdown leaves no closed window behind
\* (_drain_once, raw windows first).
DrainShipsClosedWindows ==
  ShutDownCleanly => ClosedRows \subseteq s3meta

\* "Every digest those rows reference is already durable in S3", of every row
\* in S3 that refers to a payload whose own row was written, and would
\* therefore be shipped too.
EveryReferenceDurable ==
  \A r \in s3meta, q \in rows :
    (q.payload /\ q.feed = r.feed /\ q.digest = r.digest) =>
      \E b \in s3raw : b.feed = r.feed /\ b.digest = r.digest

ClosedByTheEnd == {r \in rows : Closed(WindowOf(r.ts), Horizon)}

\* "The remainder ships on the next boot's scan": the rows of every window
\* that is closed by the end reach S3, other than those a broken read left out.
EverythingShips == <>[](ClosedByTheEnd \ CutShort \subseteq s3meta)

\* The same of the windows that are within the two days of the sweeps, with
\* their payloads.
RecentWindowsShip ==
  <>[](\A r \in ClosedByTheEnd \ CutShort : InLookback(r.ts, Horizon) =>
         /\ r \in s3meta
         /\ r.payload => Bin(r.feed, r.ts, r.digest) \in s3raw)

=============================================================================
