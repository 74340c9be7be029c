# A verification of the rail performance archiver

TLA+ modules that model the archiver's poller and the path of its data to S3, TLC
configurations that check them on small instances, and TLAPS proofs that hold for every
value of the constants. Modules are named after the part of the code they model; paths
such as `archiver/writer.py` are relative to the repository's root.

## The system

The archiver polls some 190 transit agencies' realtime feeds, keeps every response, and
turns each UTC day into parquet and marts. Data only moves forward: feed -> poller's disk ->
S3 landing zone -> cold tarball and hot parquet ("silver") -> marts ("gold") -> pruned from
the landing zone.

| Component | State it keeps | Operations | Talks to |
|---|---|---|---|
| Poll loop (`main.py`, `scheduler.py`, `health.py`) | heap of due times, semaphore, `polling_now`, in-flight tasks, failure counts | pop, wait, shed, overrun, rate-limit, start a poll, completion callback, stop | archiver (tasks), limiter, exit stack (clients, landing uploader) |
| Rate limiter (`rate_limit.py`) | tokens, time of last refill | `try_acquire` | poll loop |
| One poll (`archiver.py`, `poll_state.py`, `response.py`, `parser.py`) | last digest/ETag per feed, in memory and on disk | `archive_one`, `PollStateStore.set` | HTTP, writer |
| Writer (`writer.py`) | `{digest}.bin` and `data.jsonl` files | `write` on a thread pool | disk |
| Landing uploader (`landing_uploader.py`, `landing_layout.py`) | worker thread; `window=*.jsonl` slices, `.shipped` markers, next due time | metadata sweep, raw sweep, drain, marker pruning | the writer's files, S3 landing |
| S3 wrapper (`uploader.py`) | none | upload, exists, list, chunked delete with retries | S3 |
| Readers (`source.py`, `payloads.py`, `metadata_schema.py`) | none | discover, read and deduplicate a day | disk or S3 |
| Decoders (`decoder.py`, `tfnsw_decoder.py`, `rail-decoder`) | none | payload to rows, on three paths | poller (validation), rollup |
| Rollup (`rollup.py`, `parallel.py`) | curated parquet, `_SUCCESS.json`; a pool of processes | `rollup_one`, parallel runs with retries | readers, decoders, disk |
| Schema rewrites (`pipeline/rewrite_metadata_schema.py`, `scripts/migrate_rt_schema.py`) | none; temporary and backup objects | bring old partitions to the declared schema, in place | hot bucket, curated disk |
| Compaction (`compact_trip_updates.py`, two backfills) | none; the trip updates parquet | reduce, copy over | hot bucket, curated disk |
| Shipper and prunes (`shipper.py`) | none of its own; cold and hot buckets | cold ship, hot ship, marker, snapshots, `prune`, `prune_s3` | readers, S3, curated disk |
| Nightly batch (`agency_batch.py`, `snapshot.py`, Step Functions) | a task's disk, exit code | chain of stages per agency | everything above |
| Static schedules (`gtfs.py`, `static_gtfs.py`, `gtfs_fetcher.py`, `postgis_sync.py`) | catalog, archives, reference marts, manifest, PostGIS | crawl, resolve a day, build a version, sync | MobilityDatabase, disk, database |
| Service day (`vehicle_day.py`, `metrics.py`, `adherence.py`, `segment_speed.py`, `marta_day.py`) | none | pings to visits to rollups, adherence, segments | silver, schedules |
| Gold (`gold.py`) | marts on disk | choose sources, build each group of marts | silver, schedules, service day |
| Fleet (`loader.py`, `shard.py`, `region.py`, `refresh_env.py`, deploy workflow) | checkout and `.env` per box, environment per container | edit, merge, refresh, check out, recreate, restart | poll loop |
| Other | | telemetry, alerts, event export, reports, dashboard | |

What is hard in it:

* **Threads and callbacks.** One event loop, a pool of writer threads and the uploader's
  worker share the same directories without locks; which of them has seen what is decided
  by the order of file operations alone.
* **Crashes.** The container restarts at will. Every hand-off (payload before row, tar
  before slice, slice before marker, marker before unlink) is an order of separate
  operations, chosen so that what a crash leaves behind is repeated and never lost.
* **Time.** Windows, grace periods, day files, marker ages and the cadence of sweeps are
  all computed from the clock, and a late write or an outage shifts them against each
  other.
* **Failure isolation.** One failing feed, agency, upload, payload or step must cost only
  itself.
* **Doing it again.** Nearly everything is repeated: uploads, rollups, compactions, crawls,
  pools, forced runs. What is there already is taken as proof that it is complete.
* **Two of everything.** Three decoders, two backfills, two sources of visits, two shards: what
  each does alone must be what the other would have done.

The properties that make each part correct are listed with its module below; the hazards
behind them, each at its line, are in `PROJECT.json`.

## Modules

| Module | Models | Role |
|---|---|---|
| `LandingLayout` | windows, days, closing, lookback, file names | operators shared by writer, uploader and reader |
| `PollWriter` | `archive_one`, poll state, `ContentAddressedWriter`, the process and its crashes | component |
| `DurableHandoff` | what a hand-off promises: no item leaves the holder before the store has it | abstract specification |
| `LandingUploader` | the worker thread and the shutdown drain, composed with `PollWriter` | component; implements `DurableHandoff` twice |
| `TokenBucket`, `RateLimit` | `TokenBucket.try_acquire`; one bucket with an observer | operators; component |
| `PollGate` | at most one poll per feed and `Workers` polls at once | abstract specification |
| `PollLoop` | `main.run` with `Scheduler`, `FeedHealth` and one bucket per agency | component; implements `PollGate` |
| `BatchDay` | one feed's day in the batch: archive, rollup, snapshot, ship and both prunes | component |
| `AgencyBatch` | one task of the nightly batch: the chain of stages of every agency | component |
| `WorkerPool` | `run_parallel`: pairs on a pool of processes that breaks | component |
| `Deletion`, `BulkDelete` | what a caller of `delete_objects` relies on; its chunks and retries | abstract specification; component that implements it |
| `Fleet` | which process polls which agency with which key, through edits and rollouts | component |
| `LandingReader` | a day's metadata and payloads read back | component |
| `Selection` | the items of a list at some of its places; least, greatest, sum | operators |
| `Cells` | a row of a table, with missing cells | operators |
| `Decoding` | payloads to rows, on every decoder | component |
| `Readback` | `LandingReader` and `Decoding`, one after the other | composition |
| `Compaction` | the trip updates partition reduced, by whom and however often | component |
| `MetadataRewrite` | the rewrite of the hot bucket's metadata partitions, beside the batch that ships them | component |
| `SchemaMigration` | the renaming of the columns of curated parquet files | component |
| `StaticSchedule` | what a GTFS archive says | operators |
| `Timetable` | reference definitions for `StaticSchedule`, over every small archive | component |
| `Schedules` | crawl, reference marts, manifest, PostGIS | component |
| `StableSort` | `list.sort(key=...)` | operator |
| `ServiceDay`, `MartaDay` | pings, or countdowns, to visits and what is counted from them | components |
| `Marts` | `Timetable`, `ServiceDay` and `MartaDay`, side by side | composition |
| `GoldDay` | a day's marts: sources, groups, runs that die | component |
| `MCPollWriter`, `MCLandingUploader`, `MCPollLoop`, `MCBatchDay` | small constants | model checking |
| `MCArchive` | `MCBatchDay` and the two rewrites, each behaviour one of them | model checking |
| `MCServices` | six components beside the poll loop, each behaviour one of them | model checking |
| `MCPipeline` | nine stages from response to mart, each behaviour one of them | model checking |
| `ListFacts` | facts about naturals, finite sets, sums and lists that several proofs need | TLAPS |
| `*_proofs` | theorems and their proofs | TLAPS |

`MCArchive`, `MCServices` and `MCPipeline` put components that share no state into one run: a variable
(`part`, `stage`) chosen in the initial state says which of them moves. The stages of the
pipeline hand over files, and the inputs of each enumerate what the stage before it, or
the outside, may have left. They are not composed in one state space, because what
links them is data that one stage determines and the next one only reads.

## The modules and the code

### Files and windows (`LandingLayout`)

The poller and the uploader share directories, so they share a module. Time is integer
ticks; a window is `Window` ticks, a day a whole number of windows. `WindowOf`, `DayOf`,
`Closed`, `InLookback` and `Slot` are the computations of `_closed_windows`,
`_day_partition` and `window_metadata_local_path`; `Bin` is the name of a payload file,
`{digest}.bin` under the day of its response. Lines and files are sets of rows: their
order carries no meaning for the code.

### Poller: one poll to disk (`PollWriter`)

`NewContent`, `OddContent`, `SetStateFails`, `Unchanged` and `Refused` are the ways
through `archive_one`: what the poll state says, whether `PollStateStore.set` could write
its file, and which kind of event goes to the writer. `WriteBin`/`WriteBinFails` and
`AppendRow`/`AppendRowFails` are the two operations of
`ContentAddressedWriter._write_sync`; between them, any other write, the worker, a signal
or a crash may come. A crash may cut an append short (`torn`): the next line is glued to
the rest and both are unreadable, so a *readable* row is what `rows` holds.
`Signal`, `Gathered`, `PollCrash`, `PollBoot` and `Exit` are the life of the process.

The digests of error bodies are collapsed to `NoDigest`: no file is ever looked for under
them. A write ends within `MaxDelay` of its response's timestamp: `Tick` waits for it. This
is an assumption on the environment, not something the code enforces, and what it has to
be compared with is the uploader's grace period (60 s).

| Property | What it says |
|---|---|
| `AnnouncedPayloadOnDisk` | a row that announces a payload is never on disk without it |
| `StateIsBacked` | while nothing fails, a digest the poll state would answer "unchanged" with has its payload on disk or on its way |
| `EveryRowResolves` (violated) | the digest of every readable row has a payload somewhere |

### Landing uploader (`LandingUploader`, implements `DurableHandoff`)

The worker's program counter follows `_run`: ship the slices on disk (`scan`,
`unlinkSlice`), see whether a raw sweep is due (`cadence`), read the closed windows
without a marker (`read`), then per window (`pick`) upload the tar, materialize the slice,
set the marker, and unlink the payloads. Each disk or S3 operation is a step, and each may
raise; `RawSweepOver` is what the caller does then. `Joined` and `JoinTimesOut` are the
two ways out of `__aexit__`'s join, after which the drain runs the same steps in the other
order (raw sweep first). `Crash` and `Boot` reset what is in memory.

`_closed_windows` swallows an error in the middle of a file and goes on with the rows it has
(`landing_uploader.py:324-326`). `ReadBreaks` is a sweep to which that happens: it keeps, per
day file, any part that leaves out no earlier row than it has (`ReadInPart`), and hands off
and marks what it took for whole windows. The rest of such a window is not
found again, since its marker is there. This loss is modelled, not excused away: the slots it
happens to are recorded in `short`, a history variable, each property below says what is
lost there and nothing else, and `DurableHandoff` has `Excuse`, the step by which a fault exempts
items, so that the refinement for slices shows how far the damage goes: to the slices of the
windows that were read in part, whose objects a later upload may shrink.

Abstractions: slices go in any order; a tar has a unique key, so S3's payloads are a union
(`s3raw`), whereas a metadata object has one key per window and an upload replaces it
(`UploadSlice`); `ReadReady` reads the files of all feeds in one step; `nextDue` is capped
at the horizon.

| Property | What it says |
|---|---|
| `PayloadsHandedOff`, `SlicesHandedOff` | refinement of `DurableHandoff`: no payload file and no slice leaves the disk before S3 has it, and S3 never loses one, although uploads replace objects; for slices, of windows never read in part |
| `RawBeforeMetadata` | rows with a payload are not even sliced before a tar has the payload |
| `MarkedRowsHandedOff` | no readable row is stranded behind a marker, but in a window that was read in part |
| `LeftoversAreCopies` | a payload file behind a marker is garbage, never the only copy, but in such a window |
| `MarkersOutliveLookback` | a marker is not pruned while a sweep can still find its window |
| `ReferencesResolve` | without failures, what rows for unchanged content refer to is in S3 before them, also across windows and midnight |
| `DrainShipsClosedWindows` | an undisturbed shutdown leaves no closed window behind |
| `RecentWindowsShip` | every window within the sweeps' two days reaches S3, but for the rest of one read in part |
| `EveryReferenceDurable`, `EverythingShips` (violated) | what two comments claim without these provisos |

### Event loop (`PollLoop`, implements `PollGate`) and limiter (`TokenBucket`, `RateLimit`)

One disjunct for each branch of `main.run`: `NextDue`, `Waited`, `Shed`, `Overrun`,
`NoClient`, `RateLimited`, `StartPoll`, each of the last five with the `mark_polled` that
ends the iteration (`NoClient` excepted: it raises). The loop has one await besides the
final gather; nothing else runs in between, so a task's end and its `_on_done` are one
action that needs the loop to wait (`Waiting`). Entries of the heap with equal due times
are taken in any order. The limiter of an agency without a limit always grants: agencies
in `Limited` have a bucket, the others none. Tokens are integers: `Refill` per tick and
`Cost` per request stand for the rate `Refill / Cost`.

| Property | What it says |
|---|---|
| `GateKept` | refinement of `PollGate`: never two polls of a feed at once, never more than `Workers` |
| `SlotsAddUp` | semaphore, `polling_now` and tasks agree on every path through `_on_done` |
| `FeedsStayScheduled` | every feed is in the schedule exactly once |
| `OneAlertPerQuarantine` | one alert for each quarantine, not none and not one per failure |
| `StopStartsNothing`, `NothingInFlightAtExit` | shutdown, also when an exception ends the loop |
| `EveryFeedComesUp` | no feed starves, though polls of others may never end |
| `RateBound` | over every period, grants stay within a full bucket and what is minted in the period |
| `OnlyStopEndsTheLoop` (violated) | an agency without a client costs only its own feeds |

### A day in the batch (`BatchDay`)

One feed, one day. The state is the day's objects on the poller's disk, in the landing
bucket and in the cold tarball; the parquet, marker and alert snapshot in the hot bucket;
and, per task, the same files on the task's disk and where its chain of subprocesses
stands. A parquet is the set of windows whose rows are in it: enough to tell a whole file
from a partial one.

`Program` is the chain of `run_agency` for a task's `--stages`: the early cold ship, the
rollup and its interim ship, the snapshot, the final ship. `Begin` starts the next
subprocess; `ColdExists` to `ShipSnapshot` are `Shipper.ship_one`, one action for each
object it looks up, builds or uploads; `Rollup` to `WriteMarker` are
`Rollup.rollup_one`; `TakeSnapshot` is `snapshot.py`. The tarball is built from two
listings (`TarRaw`, `TarMetadata`). A failed ship or snapshot exits with 0 and the chain
goes on (`ShipFails`, `SnapshotFails`); a failed rollup, or a kill, ends it (`Dies`), and
takes the files of a task on Fargate with it (`Ephemeral`). `Prune` looks for tarball,
marker and snapshot, `PruneRaw` and `PruneMetadata` delete; a deletion may fail in part.
`PruneBox` is the box's own prune, which looks for the tarball only.

Tasks (`Start`) run at any time, side by side, with or without `--force`, before and after
the prune. What the batch does not expect is not forbidden but recorded in `excuses`:

* `late`: a task was started before the whole day had landed. Nightly tasks start at 03:30
  UTC and a day's last window is shipped about an hour after midnight, so it takes an
  outage of the poller or an object of a late upload;
* `forced`: a task with `--force` was started on a day that may already be pruned. It would
  rebuild the tarball from what is left in the landing bucket;
* `overlap`: a prune began while a task was running. In the nightly state machine the
  prune follows the tasks, but a task started by hand is not held back.

| Property | What it says |
|---|---|
| `NothingUnarchivedIsRemoved` | without excuses, an object is on the box, in landing or in the tarball |
| `PrunedInputWasProcessed` | without excuses, the hot bucket has every row, and the snapshot, of what is pruned |
| `MarkersTrue` | the marker in the hot bucket never counts a parquet that is not there (`MarkerVouches`), and one on a disk never stands beside files a later run has begun to rewrite (`MarkerIsExact`) |
| `ColdFirst` | nothing derived from a day is served before the day is archived |
| `NoRawIsForgotten` | what a half-failed prune leaves is found by discovery, which lists metadata only |
| `NothingUnarchivedIsEverRemoved`, `OkMeansShipped` (violated) | what two comments say without the proviso on late objects, and of the exit code |

### A task of the batch (`AgencyBatch`)

`BatchDay` has every operation on one feed's objects and runs several tasks side by side;
`AgencyBatch` has one task after the other, with all stages and agencies, and the files of each
stage of each feed: the kinds of silver, the marts, a schedule's marts, the snapshot. `ResolveStages` and `Commands` are what `main` and `run_agency` make of
`--stages`; a worker thread takes an agency (`BeginAgency`), runs the commands in order,
each an action that may fail in the ways the subprocess can (`ShipStops`, `RollDies`,
`CompactDies`, `GoldRefuses`, `ProducerSkips`, `ProducerDies`: raised or killed, with an
exit code or a log line, fatal to the chain or not), and cleans up (`EndAgency`). A ship is
one upload after another (`shipper.py:179-195`): one that stops has left any part of
them in the bucket, in the order of `ShipOrder`, and `interrupted` remembers the feed until a ship of it
is whole again. Gold reads one kind of silver of each feed (`GoldReads`), from the disk or from the bucket, and
does not see that other kinds are missing. The
task may be killed at any point (`NightKilled`) and the next one starts on an empty disk,
with other stages, forced or not. The day is one whose landing objects are all there; the
bucket that `--silver-dir` names has no other day; `--no-cleanup` and the filters that
select agencies are left out.

| Part of `ChainSound` | What it says |
|---|---|
| `SilverSurvives` | a feed that was rolled up has its parquet in the hot bucket whatever fails later in its agency, unless its own ship failed |
| `ArchivedFirst` | a feed is archived whatever fails, unless every ship that ran failed |
| `NothingStranded` | no agency ends well with output left on the disk, whichever stages were asked for |
| `NoGoldBesideFailure` | no mart is built beside a rollup that failed, for any feed of the agency |
| `NothingPartialShips` | what a stage has left in part on the disk never reaches the hot bucket: some files of a stage without the others are there only of a feed whose ship was itself interrupted |
| `ShipsCompacted` | an uncompacted partition is shipped only where compaction failed |
| `DiskBounded` | the disk has the output of no more agencies than there are workers |

`EveryCallEnds`, for `NightUnderway`: one agency's failure stops neither the others nor the task.

### Parallel rollup (`WorkerPool`)

`run_parallel` with its `Future`s: where each is (`unsent`, `queued`, `working`, `worked`,
`returned`, ...) is a variable per pair. A process may die at any point (`WorkerDies`): the
executor then fails every future without a result, also that of a pair whose sibling had
just written its marker. `Submit` raises when the pool broke during submission
(`SubmitRaises`). A worker of a forced run removes a marker before it starts.
`PoolConsistent`: on return each pair was rolled up, logged as failed or given up at
the last attempt; a pair reported as done has its marker; a retried pair counts once.
`EveryCallEnds`, for `RunUnderway`: the retries are bounded, however often processes die.

### Bulk delete (`BulkDelete`, implements `Deletion`)

`Uploader.delete_objects`, one chunk after another. A request may delete any part of its
keys and then answer with transient and permanent errors, fail with a retryable error
although it had an effect (`RequestFails`), or raise (`RequestRaises`).
`KeepsDeletionPromise`: a call that returns without an exception has left nothing in the
bucket. This is what `PruneRaw` and `PruneMetadata` of `BatchDay` rely on. `EveryCallEnds`, for
`DeleteUnderway`: its retries are bounded as well.

### Fleet (`Fleet`)

Boxes, the shards on each, and the four copies of the configuration that a rollout replaces
one by one: `feeds.yaml` at the head of main, the checkout of a box, the secret and the
`.env` of a box, the environment of a container. `EditConfig`, `MergeSecret`,
`RefreshEnv`, `CheckOut`, `Recreate` and `Restart` come in any order.

| Property | What it says |
|---|---|
| `FleetConsistent` | at every point of every rollout no agency is polled by two processes (`OneHome`); where a box has settled, each of its agencies is polled, unless the timezone is unmapped or the pin is no shard (`EveryAgencyHasAHome`); keys stay in their region |
| `NoKeyLost` | a refresh never takes away, or sets back, the key of a feed the box polls |

### Readers (`LandingReader`)

Polls, torn appends, slices, merged hours and tars (repeated, in any order of shipment,
truncated at any member) are produced by actions; the selection and the deduplication of
`source.py`, `digest_timestamps` of `payloads.py` and the limit on unusable lines are
operators over what they left.

| Property | What it says |
|---|---|
| `EveryPollReadOnce` | from whatever mixture of files, every poll they have is read exactly once, and no window is read in part |
| `DatedByFirstPoll` | a payload is dated by its first poll, from every mixture of files alike once the window of that poll is among them |
| `EachPayloadReadOnce` | overlapping, truncated tars yield a payload once, if any of them has it |
| `TornLinesAreFew` | unusable lines are at most the cut appends, however lines are glued |

### Decoders (`Decoding`)

A payload is a sequence of entities or records; an enum field is unset, a known or an unknown
number; whatever else there is goes along as a token. The three protobuf paths (messages
one by one, the Arrow builders that the rollup uses, Python), TfNSW's fourth table, and
the eight JSON decoders are operators; opening files, decoding payload by
payload and giving up on a file or a day are actions. `Readback` puts the readers and the
decoders together, and `ReadFaithfully` is the conjunction of what is said of them.

| Property | What it says |
|---|---|
| `PathsAgree` | the rows that a rollup of protobuf files commits are, but for the stop-level relationship (see the behaviours below), those Python yields from the same payloads, in the same order; those of Rust's row functions are the same without exception |
| `MalformedPayloadCostsItsFile`, `OnlyMistypedRecordsFailTheDay` | what an error costs |
| `AcceptedPayloadHasRows` | what the poller's validation counts as records the decoder yields as rows |
| `ArrivalsNotInThePast` | a clock time without a date is never combined with the wrong one |

### Trip updates compaction (`Compaction`)

The partition is reduced in batches by the nightly batch, reduced again by the backfill, merged
from several files, or replaced by a re-ship while the backfill copies. The aggregate
is modelled by what pyarrow does: `first` skips nulls column by column. `CompactionUnseen` is
the conjunction of:

| Property | What it says |
|---|---|
| `MartsIndifferent` | what `TripUpdatesDay` reads does not depend on any of this, when the predictions of each (trip, stop) are settled: their timestamps increase, or all of them name the same times (`Settled`; see below for what happens otherwise) |
| `CompactionKeepsKeys` | whatever the timestamps, no (trip, stop) is lost or invented, and none loses its latest timestamp |
| `CompactedStaysCompact` | a rerun over a compacted partition rewrites nothing |

### Schema rewrites (`MetadataRewrite`, `SchemaMigration`)

`MetadataRewrite` is `pipeline/rewrite_metadata_schema.py`. `Inferred` and `RolledUp` are
what the old and the new image make of a day's lines, `Conform` is what the job makes of an
old partition: repeated polls are dropped by microsecond and digest, rows without a usable time
skipped, unknown columns refused. `StartRewrite` lists and queues; a thread of the pool then takes a
partition through `Open`, `BackUp`, `Upload`, `Copy`, `DeleteTemporary` and `ReadBack`, each
a request that may fail (`RewriteFails`); the job may die (`RewriteDies`) and is run again.
`Ship` is the nightly batch, of either image, which replaces a partition at any moment, and
nothing stops it from doing so while a thread holds what was there before: the copy then
brings the older day back. This race is modelled, recorded in `overtaken`, and the properties say what holds
without it.

| Property | What it says |
|---|---|
| `LiveIsWhatWasShipped` | a partition is what one of the images makes of the day last shipped, unless overtaken |
| `OriginalsAreBackedUp` | what a run with backups rewrote can be put back, also after a second run over it |
| `CleanRunLeavesNoneStale` | a run that exits with 0 leaves no stale partition but those the old image shipped after it began (the runbook's step 4) |

`SchemaMigration` is `scripts/migrate_rt_schema.py` on one dataset (the two are migrated one
after the other, in directories of their own). A file is a function from column names to data: flat
names, dotted ones, or a mixture. `ReadSchema` classifies, `WriteAside` writes the renamed table
beside the file, `Replace` renames it into place; a thread may fail and the script be killed
between any two. It exits with 0 whatever it counted, so nothing is claimed of the exit code.

| Property | What it says |
|---|---|
| `EveryColumnKept` | after any runs and failures each canonical column has the data it was written with |
| `AmbiguousLeftAlone` | a file in which two columns would get one name is never touched |
| `AppliedRunUnifies` | a run without errors leaves no flat name, and what it migrated is skipped by the next |

A temporary file or object that a killed run leaves (`.tmp-migrate`, `.rewriting`) is never
listed as a partition, by these jobs or by readers; the next run over the same file overwrites it.

### Static schedules (`StaticSchedule`, `Timetable`, `Schedules`)

`StaticSchedule` has the readers of `static_gtfs.py` as operators over an archive's tables.
`Timetable` compares them with reference definitions that do not use them.
`Schedules` is the state around them: the catalog and its crawls, a run of `gtfs.py` that
resolves a day, loads an archive, writes marts one by one and then the manifest, and may die
anywhere or be forced, and the sync into a database that enforces foreign keys. A feed is a
place in `FeedScopes`, and a database table a function from a line's key to its row.
`SchedulesSound` is the conjunction of the last four rows below and the types.

| Property | What it says |
|---|---|
| `TravelTimesElapse`, `HeadwaysTelescope`, `ShortNamesFirst` | travel times, headways past midnight, and ambiguous names mean what the archive says |
| `ManifestBacked` | the manifest never names a version with a mart missing |
| `BuiltOncePerContent` | a content is built once per feed, unless forced |
| `MartsAreScoped` | a feed's marts have its own operator's rows, although the archive is cached for another |
| `SyncNeverRejected`, `SyncedMirrorsManifest`, `CrosswalkMatchesIndex` | what PostGIS ends up with |

### A service day (`ServiceDay`, `MartaDay`, `StableSort`)

Pings arrive one by one, late ones included; visits, rollups, adherence and segments are
functions of those so far, as in the code. Countdowns of MARTA are cut into approaches
and trips. Distances and the timetable are constants. A missing value is `Absent` (`Cells`), which
is told from every number. `ServiceDaySound`, in `Marts`, is the conjunction of the rows below,
the first row of the table before and the types.

| Property | What it says |
|---|---|
| `VisitsAreApart`, `EveryDwellingPingCounted`, `SettledVisitsStay` | visits follow one another, lose no ping, and are not revised by pings in order |
| `RollupsAgree` | route marts are stop marts added up, over midnight too; a visit is early, on time or late |
| `OnScheduleIsOnTime` | after midnight too, whichever day's schedule has the trip |
| `SegmentsNeverOverlap` | also when two vehicles report one trip |
| `EveryCountdownArrives`, `TripsPartitionArrivals` | each approach ends in one arrival, each arrival is in one trip |

### Gold (`GoldDay`)

A run resolves which feeds and sources it builds, then for each feed the groups of
marts that have a file missing (`Steps`); it takes them in the order of `Rank`, writes them file by
file and may die between two. The archive of an agency is fetched at most once per run, and may
fail. `GoldSound` is the conjunction of:

| Property | What it says |
|---|---|
| `SupersededOnlyByName` | a feed that trip updates supersede has marts only if some run was given its name |
| `GroupsAreOneLoad` | a complete group comes from one load of the visits, unless a forced run died |
| `ScheduleFreeFirst` | no failure of an archive takes away the marts that need none |
| `NoSilentRun` | a run that succeeds on another task's tree has found silver there |

`OneSourcePerAgency`, that no agency has marts from two sources, is what the rule about superseded
feeds is for, and it is violated: `_gold_cmd` of the nightly batch names every feed of the agency
(`agency_batch.py:284`), and the rule is for runs that name none (`gold.py:1104-1109`).
The constant `GoldRuns` has the arguments of runs: those of the batch, which always name feeds,
and those of an operator, who may name none, one, or normalize.

## Runs

A run's properties are conjunctions of those above where one run checks several components;
the conjunctions are defined in `MCPipeline`, `MCServices`, or in the component's own module
(`WorkerPool`, `Fleet`, `AgencyBatch`, `Schedules`, `GoldDay`, `MetadataRewrite`, `SchemaMigration`,
`Readback`, `Compaction`, `Marts`).

| Run | Configuration | Shows |
|---|---|---|
| `rows_resolve` | 2 feeds, 2 contents, 3 polls, 2 faults, 1 midnight | **violated**: the poll state is set in memory before its own file is written (`poll_state.py:34-35`); when that fails the payload is never stored, and later rows refer to it |
| `landing_safety` | 1 feed, 2 contents, 2 polls, 1 fault, windows of 2 ticks, days of 4, 7 ticks | every safety property of the uploader, two refinements |
| `landing_outage` | 1 poll, 1 fault, 4 ticks | **violated**: windows that close during an outage of more than a day are not found again |
| `landing_midnight` | 2 polls, 1 fault, 7 ticks | **violated**: a day's last window cannot be uploaded, or not be read, and the next day's rows that refer to it ship first |
| `loop_safety` | 3 feeds (intervals 1, 2, 6), 2 workers, 6 iterations, jitter of 1 tick | the loop's safety, shutdown and fairness to feeds |
| `loop_missing_client` | the same, 4 iterations, no jitter | **violated**: the lookup of `main.py:180` raises out of the loop |
| `batch_day` | 2 windows, 1 with payloads, 1 kind, a rollup task run twice (also forced), a cold-ship and snapshot task, 1 fault; rewrite: 2 partitions, 3 days, 2 shipments, 2 runs, 1 fault, 2 workers; migration: 2 files of 4 eras, 2 runs, 1 fault | safety of archive, markers and prunes, and of what is rewritten in place |
| `batch_late` | the day of `batch_day` alone | **violated**: an object that lands after the tarball was built is pruned without being in it |
| `batch_exit` | no forced run, 2 faults | **violated**: both ships fail, the task exits 0 and deletes its output |
| `services` | landing: 1 poll, 2 faults, windows of 1 tick, days of 2, 6 ticks; pool: 3 pairs, up to 2 workers, 3 attempts; delete: 3 keys in 2 chunks, 2 retries; bucket: capacity 5, refill 2, cost 3, 7 ticks; fleet: 2 boxes with 2 and 1 shards, 4 agencies (pinned, hashed, other continent, unmapped), 3 edits, 1 rotation; batch: agencies of 2 and 1 feeds, 2 kinds of silver, 1 worker, 2 tasks, 2 mishaps | delivery under fairness and markers over three days; the pool's, the delete's, the bucket's, the fleet's and the batch's properties |
| `pipeline` | poll: 2 feeds, 2 contents, 2 polls, 2 faults, 1 midnight; read: 4 polls in 3 windows, 1 torn append, 3 tars; decode: 2 files of 2 payloads in all; compact: 3 rows, 2 rollups, batches of 2 rows and of 1; timetable: every timetable of 2-3 calls, every naming of 2 routes; schedules: 2 contents, 2 scopes, 2 crawls, 2 runs, 2 syncs; day: 3 pings of 3 kinds of feed; gold: 2 agencies, 6 kinds of run, 2 runs, 1 death; countdowns: 3 | every stage from response to mart |
| `gold_double` | `gold` alone, runs of the batch only | **violated**: the nightly run builds an agency with trip updates from its vehicles feed as well (`agency_batch.py:284`) |

### Bounds

Polls, faults, task starts, runs, rows and the clock are bounded; so the models stop, and the
configurations do not check for deadlock. One counter `MaxFaults` bounds failures, crashes
and, in the poller, signals (a join timeout needs one). Why the bounds suffice: the hand-offs are
per window and per feed, and two windows (or two windows around midnight) of one feed are
what the steps relate; a third poll, in `rows_resolve`, returns to the first content (A, B,
A); what one failure breaks is repaired or not in the next sweep, and `services`
and `poll` allow two. The loop needs two feeds of one agency and
one of another, one worker fewer than feeds, and enough iterations for a quarantine (two
failures) to be entered and left. The batch needs two tasks, one of which comes twice, and
a window without payloads, because payloads and metadata are listed, uploaded and deleted
separately. The pool needs a third attempt, the first that follows a retry, and a pair
more than workers. The delete needs two keys in one chunk, with different errors, and a chunk after
it. The chain of an agency needs a second feed, so that one fails when the other is done, a second
agency that shares the disk, and a ship that fails before a stage does. The rewrite needs two
partitions, whose temporary keys could be confused, a second run over what the first rewrote or left, and
a shipment behind a thread's back; among its days are one with polls repeated within a
microsecond and one with a row that has no time. The migration needs a file of each era and a run that is
repeated over what another left. In the pipeline, three rows span two batches; three pings make a visit that is
interrupted and resumed; two runs make a run that follows one that died.

`PipelineNext` cuts products that no property needs; each cut is a named operator with its reason.
Tars are added beside one poll only (`time' = 0 \/ tars' = <<>>`). `CompactionBounds`: at
most one row of another trip or of no use, and no polls beside a backfill. `SchedulesBounds`: at most two deaths
and syncs together, at most one death or forced run, and the first run is not forced. `GoldBounds`:
silver arrives for the source its feed uses, the positions beside trip updates have
no whole day, and a run takes its feeds in one order. Feeds and
digests of the stage `poll` are interchangeable, and so are the digests of `landing_safety`: these
runs use symmetry, and check no liveness.

The theorems below remove the bounds for the safety properties of poller, uploader, loop, bucket,
batch, pool, delete, fleet, readers, decoders, compaction, timetables, schedules, service days,
countdowns, gold marts and both rewrites.

### Fairness

Liveness is checked under weak fairness of: each write on the thread pool (a pool thread
runs), the worker's steps (a daemon thread; every S3 call has a timeout and either
succeeds or raises), the clock and the loop's final gather, the join, and the restart of
the container (`restart: unless-stopped`). Crashes, failures and signals are not fair:
they need not happen, and `MaxFaults` ends them. In `PollLoop`, a poll ends (`OnDone`)
because requests have timeouts. The parallel rollup's parent and workers do not stall
(`PoolFairness`); that processes die is not fair, and that it happens without end is ruled out by
`MAX_ATTEMPTS`, not assumed. The threads of a batch task go on from command to command
(`BatchFairness`); every command ends, one way or another, and agencies are taken in any order. A bulk delete goes on (`WF(DeleteNext)`): its retries are
bounded. `ServicesFairness` restates these for one behaviour per part; the parts that rest have
no fairness to meet. `landing_outage` uses `PromptSpec`, in which the clock
stands still while the worker is busy: the windows it loses are lost by the outage and not
by a slow worker.

## Proofs

For every value of the constants that meets the named assumptions,
hence for any number of feeds, contents, windows, tasks, polls and faults. Where an assumption
is more than a type it is a hypothesis of the theorem.

* `ListFacts`. A set of naturals has a least member, by well-foundedness of the strict subset
  relation on finite sets; hence `Induction`, stated of a set of naturals and not of a predicate, so that
  each use is a first-order fact. With it: what a recursive function on an interval is at each place
  (`Iterated`), every finite set is listed by some sequence, and what `FlattenSeq`,
  `ItemsAt` and reading line by line give, one item at a time. Counting: a sum of naturals is the
  cardinality of a set of heaps, whatever the order it is taken in, and the sum over groups of
  parts is the sum over the parts (`TotalByKey`). Lists: which item of a selection has which
  number (`ByNumber`), its first parts and what one item more changes; a stable sort is a
  permutation in order (`SortedBy`), and appends an item that is not before any other
  (`SortedAppend`).
* `LandingUploader_proofs` begins with the writer, and that with lemmas about `\div` and `%`:
  windows and days are intervals, a
  window lies within one day, later times are in later windows. `PayloadFirst`: `AnnouncedPayloadOnDisk` is inductive once it speaks
  of the rows still to be appended as well (it does). `StateBacked`: while nothing has
  failed, a digest the poll state holds is on disk or in the writer's hands, because the
  state is set and the event handed over in one step of the event loop.
  Then the worker: `TypeCorrect` and the inductive invariants.
  `PayloadInv` carries a payload from the row that announces it (`WrittenInv`: a row on
  disk has its file on disk or in S3) through the files found by the sweep (`BatchInv`) to the
  tar: `RawShipsFirst` and `PayloadsNeverLost` follow. `SliceInv` says that slices and S3's
  objects hold whole windows, but for those in `short`, so that an upload which replaces an object never
  shrinks it: `SlicesNeverLost`. `SettledInv` is about time: a window that the sweep has found closed
  can get no more rows. It needs `MaxDelay <= Grace`, a hypothesis of `NoRowIsStranded` and
  `LeftoversAreNotNeeded`. Reads may break at any sweep in all of these: a window's slot is in `short` from
  the sweep on that read it in part, so what the invariants say of other windows is kept. `MarkersLastLongEnough` is arithmetic of ages and days.
  `DrainLeavesNothing` needs to know where the rows of closed windows are at each step of a drain:
  `DrainInv` finds them in the sweep's hands, in a slice or in S3, and `GatheredInv` says that
  nothing is in flight any more when the drain begins. `ReferencesAreDurable` needs an order in
  time: a reference leads to an earlier row that brought its payload (`OriginInv`, as a feed
  has one poll in flight), and as windows are handed off oldest first the earlier row is in the
  sweep's hands whenever the later one is, or its payload is in S3 (`OrderInv`); so it is
  there when the later row is sliced (`ResolvedInv`). The sweep must read all there is, hence the two
  days; `landing_midnight` shows why nothing may fail.
* `PollLoop_proofs`: `LoopInv` adds to the types (`LoopTypeCorrect`) and `SlotsAddUp` that an entry is out of
  the heap exactly between pop and reschedule; `LoopKeepsGate` shows each step of the loop
  to be a step or a stutter of `PollGate`. `AlertsOnce`, `NoFeedIsDropped` and `StopsCleanly`
  follow, the last also for an exit by exception; `StoppedStaysStopped` rests on where the
  loop is when the stop event is set (`StopInv`).
* `BatchDay_proofs`. `MarkerInv` adds what a rollup or a ship in progress has done:
  there is no marker while files are rewritten, and every parquet of the tree is in the hot bucket
  before the marker follows. `ArchiveInv` is the argument for the tarball. Objects disappear
  only from a day that is old and has a tarball (`KeptInv`); without excuses a task that
  builds a tarball found none, or was forced on a young day, so the day is whole and no
  prune has begun (`TarInv`), hence the tarball is whole (`ColdInv`). `ProcessedInv` is the
  argument for the rest: as long as the day is whole every file made from it is whole; once
  a prune has begun the hot bucket is complete, and as no task is forced, what a task then
  makes from half a day replaces nothing. `PrunedWasProcessed` follows for any number
  of tasks and any stages. `AbsentAssumption` says that `Absent` is no set, which for a
  missing object is a matter of notation.
* `Services_proofs`. The fleet: what a process polls was taken from some checkout by
  its own shard and continent (`OwnAgencies`), so two processes that share an agency have
  one shard and one continent. That they are then one box is the hypothesis
  `OneBoxPerContinent`, which the code does not check: `deploy.yml` gives each box its
  continent. `OwnKeys` adds where keys come from and that none is newer than the secret, whence
  `KeysAreKept`. The delete: an object still there waits, is on record as an error, or is
  in a later chunk (`NothingForgotten`); `DeleteKeepsPromise` is the refinement. The pool:
  `PoolInv` relates where a future is to what is on record of its pair (over: a result; worked or
  returned: a marker), and counts results as a cardinality: `PoolStaysConsistent`. The bucket:
  `BudgetKept` is inductive, whatever is granted and still held never exceeds a full bucket and what
  was minted since the observation began; `RateLimited` follows.
  The batch: `ChainStaysSound`, for any agencies, feeds, stages, workers, tasks
  and mishaps. The commands of an agency are a concatenation of parts (archive, refine, make,
  ship), and `WellFormed` says in which order they come and over which feeds; `HeadFacts` is
  what that means for the command at the head. The invariant `ChainInv` says of every feed that each of its ships
  was done, was missed or is still to come, and of its tree which commands have written it and
  which still have to. `Effects` says once what any command may change, one lemma per command
  shows that it changes no more, and the invariant is then kept by whatever has such effects.
  That agencies share no feed is part of `AgencyBatchAssumption`.
* `Pipeline_proofs`, a part for each of four components.
  `GoldStaysSound`, for any agencies, feeds, bounds and deaths of runs. `WritingInv`
  says that the files of a group before the next one are of the run's partition, so the
  last file of a group is the one that tells whether it is whole (`SameLoadInv`: a step that is not
  forced begins only when that file is missing). `SupersededInv` follows what a run
  enumerated, or was told to build, to the feed it is at, `FirstInv` the schedule-free step to its files. No hypothesis
  but that runs are given arguments of their types, yields are groups of marts and only known feeds are normalized.
  `SchedulesStaySound`, for any archives, scopes, spans and bounds. `OrderInv` says that the marts of
  the version being built are the first of the list, so that the manifest, which comes last,
  finds all of them (`BackedInv`); `OnceInv` that a version is built only when the manifest lacks it. `RowsInv` and
  `FreshInv` follow the rows into the database: each table refers to rows that were inserted
  before it, and what is inserted twice is not inserted (`InsertHolds`). A row that several lines of an archive
  could have given is the one of the first such line: `LeastOf` shows that there is one, by
  well-foundedness of the strict subset relation on finite sets; this also settles
  `CrosswalkIsIndex`. `MartsAreScoped` is about what a mart is computed from.
  `RewriteStaysSound`, for any days, keys, workers, runs and faults. The threads touch nothing
  but their own partition, so the invariant is one statement per key (`PartitionInv`: what the
  thread at its step has read, backed up and uploaded, `ThreadHolds`, and how it ended,
  `ThreadEnds`), and `OnePartition` lifts a step on one key to all. Its core is
  `ConformIsRollup`: the job, from the inferred partition, builds the same rows as the
  rollup from the day's lines, although the two drop and skip in a different order.
  `MigrationStaysSound`, for any columns, files, eras and runs. `FileInv` follows one file from what
  the rollup wrote to its canonical form. `RenamedTo` says which columns end under a name,
  `MigratedData` that the data is the same; that the next run skips a migrated file rests
  on the count of dotted names (`SchemaIsDotted`), and that a file taken for migrated has no flat name
  left on its converse (`DottedHasNoFlat`), both by cardinalities.
* `Readback_proofs` is about what is computed from lists: induction over places instead of steps.
  `DayIsReadBack`, for any contents, messages, documents and bounds, any number of polls, cut appends,
  shipments, tars and files. Of the readers, `ReaderInv` says that rows were appended in the
  order of their times (`RowsGoUp`), that torn lines are cut appends (`TornAreCut`), and that slices and the
  merged file hold windows that are past, and hold them whole (`SlicesWhole`). Of the decoders, first
  one payload: `EntityRows`, `StandardRows`, `TfnswRows` and `JsonRowFacts` compare what each path
  makes of an entity or a record; `BlankedFlat` lifts the agreement of rows to
  concatenations, over entities, payloads and files. Then the loop: `RowsStand` says that the sinks have
  what the earlier files give, followed by the rows of the last file's payloads so far, which is
  what a rejected payload leaves behind. Hypotheses are
  `DecodingAssumption` (repeated fields are lists, times in JSON are naturals) and that the
  bounds are naturals.
  `CompactionIsUnseen`, for any rows, batch sizes and numbers of rollups. What a reduction makes of a key
  is, in each column, the value of the first row that has one, in the order of `Before` (`Val`). The
  partial results of a batch have the values of its rows (`Same`), and so does the table
  gathered from any number of batches (`Gathered`, by induction over batches), whenever the
  predictions of the key are settled. `CompactionInv` then says that each file, local,
  hot, staged or held by a backfill, is a rollup of a prefix of the day's rows or has one row per key with the
  values of such a rollup (`Standing`), whoever overtook whom.
* `Marts_proofs`: `ServiceDayIsSound`, for any archives, scopes and dates, any pings and countdowns,
  any gaps and limits. What moves is simple (`TimetableInv`, `DayInv`, `MartaInv`: archives, rows
  and countdowns are of their kinds); what is computed from it is the work, again by induction over places.
  Timetable: the calls of a group are ordered by arrival and line, and each but the first has a latest one
  before it (`Spaced`); so headways are distances of neighbours, and a set of calls that is closed under
  this order has headways that add up from its first arrival to its last (`Telescope`).
  Day: the rows of a vehicle are in the order of their times (`RowsTimed`); they are cut into runs at
  one stop (`RunsAre`, `BlockOpens`), and the visits made of runs follow one another (`RawAre`).
  Merging close visits goes over the list once; after each visit what was merged so far is apart, and
  counts as many dwelling pings as it has read (`MergeStep`, `MergedSoFar`): `VisitsAreApart`
  and `EveryDwellingPingCounted`. `SettledVisitsStay` is the same induction on two lists: a ping that is
  last in time leaves all runs but the last as they are (`RunsGrow`), hence all visits but the
  last (`VisitsGrow`), hence all merged visits but the last (`MergedGrow`).
  `RollupsAgree` is counting: each visit is in one group of either mart, and the groups of a
  route are parts of it (`RollUp`, `GroupedIs`). `SegmentsNeverOverlap` uses that the visits of a trip are sorted by
  arrival, whichever vehicle made them (`TripVisitsAre`). For `OnScheduleIsOnTime` the calls of both service dates
  are candidates (`MatchesAre`); one that is due at the arrival is at no distance, so the nearest is
  at none either (`NearestIs`).
  MARTA: cutting a list at places gives each item to one piece (`CutWhole`, `PieceOf`); an
  approach has one lowest countdown (`LowestIs`), so `EveryCountdownArrives`; arrivals of a train are cut into
  trips (`TripsOfTrain`).
  Hypotheses, beyond types, are about notation and data: `Absent` is no number, scheduled times are
  numbers or missing, a kind of ping has a time, a day has a length, thresholds are naturals.
  In particular no ping need come in order, no visit need be matched and no archive need be consistent.

Only model-checked is liveness (`RecentWindowsShip`, `EveryFeedComesUp`, `EveryCallEnds`), which is
outside what the prover can do. Every invariant and every action property that a passing run checks is
the statement of a theorem.

## Behaviours met that no run refutes

They are consequences of the code that a maintainer should know; no comment claims the
opposite, or a look at two constants decides them.

Poller and fleet:

* The backoff of a failing feed is capped at 600 s (`archiver/health.py:71`), but feeds are
  configured with 1000 s and 1800 s: while they fail they are polled more often.
* The interval after a poll is computed before the poll's outcome is known
  (`main.py:175`), so a feed that recovers waits one more quarantine interval.
* A disk error in the middle of a day's `data.jsonl` is swallowed, and the windows that are
  read in part are handed off and marked as if they were whole
  (`archiver/landing_uploader.py:324-326`). Their other rows stay on the disk, and the
  payloads these name: no later sweep looks into a marked window. After a crash between
  slice and marker, such a read can even replace the whole slice by a part of it.
* A clean shutdown ships closed windows only; the open one stays on the disk until the
  next boot (`archiver/landing_uploader.py:328`).
* A refresh that runs before the deploy of a new agency leaves it without a key until the
  next one (`pipeline/refresh_env.py:77`). An agency in an unmapped timezone takes
  its whole shard down (`archiver/loader.py:142`), and an empty shard fails on an empty heap.

Batch:

* `run_agency` puts the snapshot after gold so that "a snapshot OOM" should not "cost the rollup
  parquet and gold marts" (`pipeline/agency_batch.py:347-350`). It does not cost the parquet; but
  in a task that is given all stages a killed snapshot ends the chain before the final ships, and the cleanup
  removes the marts unshipped. (The deployed tasks run the snapshot apart from gold.)
* A raw object that lands after its day was pruned from landing has no metadata beside it
  and is not discovered, if the box's prune removed that metadata.
* With the excuses: a forced ship of a half-pruned day replaces the whole tarball by one of
  what is left; a task that builds a tarball while a prune begins may do the same.
* A pool that breaks during submission raises out of `run_parallel`
  (`archiver/parallel.py:49`); the pairs collected so far keep their output.
* `archiver/rollup.py:279` catches parse and decode failures only: a JSON record of the
  wrong type fails the whole day.
* The builder of `trip_updates` names a stop's `schedule_relationship` with the enum of trips
  (`rail-decoder/src/trip_update.rs:113-120`), under a comment that calls the stop-level fields
  "same expressions as decode_trip_update's per-stu logic" (`trip_update.rs:97-98`).
  `decode_trip_update` and Python use the enum of stops. So the rollup stores a skipped stop as
  `ADDED`. `PathsAgree` leaves this one column out.
* An enum number without a name costs the rest of its file in Rust and one field in Python.
  MARTA's arrivals are moved to the next day when that is nearer, never back
  (`archiver/decoder.py:706`). MWRTA accepts an envelope without looking into it.
* A backfill of compaction that races a re-ship copies the older partition over the newer
  one, and one that dies leaves its `.compacting` object.
* Where the aggregate skips nulls, one visit may combine two predictions of a trip
  (`analysis/trip_updates_day.py`). When, besides, timestamps repeat or go
  back, compaction can change the visit. Take arrival 2 at time 1, then arrival 3 at time 1, then a
  departure at time 3, with a batch that ends after the first row: the rows as rolled up give
  arrival 2; the two partial results give arrival 3, because the second carries the latest
  timestamp of its rows. `analysis/trip_updates_day.py:121-124` takes batching to be "the same answer as one
  global dedupe (max is associative)"; it is so for settled predictions. Timestamps repeat where a
  header has none and 0 is taken for it (`rail-decoder/src/trip_update.rs:63`).

Schedules and marts:

* A call without an arrival time counts as -1 and shifts the travel times of its trip
  (`analysis/static_gtfs.py`).
* `postgis_sync.py` takes a version for synced once it has a route: a version read
  half stays so, one without routes is synced every night, and days resolved later for a synced
  version do not reach `gtfs_versions` without `--force`.
* The manifest is not rewritten when the catalog changes; the archives are local only, although
  `analysis/gtfs_fetcher.py:25-27` says "disk/S3"; `gtfs.py` catches download errors only, so that
  a bad archive ends the run.
* A forced run of `gold.py` that dies leaves two generations of a group, which only another
  forced run repairs; a group without rows is tried again by every run.
* On-time marts are dated by service day, stop days by arrival; two vehicles that report one
  trip share its segments.

## Not modelled, and why

* HTTP, TLS, authentication, parsing of configuration, telemetry. An agency without a client and a
  response of each kind are inputs.
* Text of alerts, event export, normalization rules, reports, dashboards and the remaining one-off scripts:
  conversions and queries without state of their own, run beside the pipeline or by hand. (The
  two scripts that rewrite archived data in place are modelled.)
* The landing backfill (`archiver/backfill.py`), a migration tool run once: it uploads the local
  slices that S3 lacks, compares keys and deletes nothing.
* Percentiles, means, geometry and projections: arithmetic on real numbers that no
  ordering depends on.
* Parts of one step that nothing can tell apart: a refresh of the secret reads it and puts it back
  (`pipeline/refresh_env.py:146-169`), which is `MergeSecret` in one step, as one operator refreshes
  at a time; rows of an archive with a blank `agency_id` are kept one by one
  (`InScope`), where `static_gtfs.py:229-232` drops the filter for a column that is missing altogether, and
  no archive here has it filled in part.
* The looser rule by which the prune accepts days from before the marker existed
  (`_MARKER_CUTOVER` in `archiver/shipper.py`): a backlog, marked for deletion.
* Single operations of S3 and of the file system are taken as atomic (an S3 put, a rename,
  an unlink), an append is not.

## Plan

Done: the modules above, with the theorems listed. To do, in this order:

1. `gold_backfill.py` and the landing backfill, if they are kept after the migration.
2. `LengthPrefixed` frames of the older files (`archiver/writer.py`): a torn tail costs
   only itself.
