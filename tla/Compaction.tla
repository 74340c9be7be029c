------------------------------ MODULE Compaction ------------------------------
(***************************************************************************)
(* Trip updates compaction: a day's partition is reduced to one row per    *)
(* (trip, stop) before it is shipped (compact_trip_updates.py), and the    *)
(* partitions shipped before that are reduced in the hot bucket by two     *)
(* backfill scripts, beside the nightly batch.  The readers reduce the     *)
(* partition themselves (TripUpdatesDay), so it must not matter to them    *)
(* whether it was compacted, in which batches, or by whom.                 *)
(*                                                                         *)
(* pyarrow's group_by(...).aggregate("first") skips nulls: each column of  *)
(* the row kept is the first non-null value, latest feed_timestamp first.  *)
(***************************************************************************)
EXTENDS Integers, SequencesExt

CONSTANTS
  Null,
  TripRows,         \* the rows a poll may yield, but for the prediction
  MaxRows,        \* bound: rows of the day
  CompactBatch,   \* batch_rows of compact_parquet, in row groups of one row
  MergeBatch,     \* _MERGE_BATCH_ROWS, likewise
  MaxRollups      \* bound: rollups of the day

Columns == {"key", "feed_timestamp", "arrival", "departure", "relationship"}
TimeColumns == {"feed_timestamp", "arrival", "departure"}

ASSUME CompactionAssumption ==
  /\ {MaxRows, CompactBatch, MergeBatch} \subseteq Nat \ {0}
  /\ MaxRollups \in Nat
  /\ \A r \in TripRows :
       /\ r = [c \in Columns |-> r[c]]
       /\ \A c \in TimeColumns : r[c] \in Nat \cup {Null}

VARIABLES
  era,         \* of the decoder: "dotted" column names, or "bare" ones
  rolled,      \* the rows of the day's polls, in the rollup's order
  rollups,     \* how often the day was rolled up
  step,        \* of the batch, for this partition
  partition,   \* data.parquet on local disk (<<>>: none, or no rows)
  spill,       \* data.parquet.tmp
  hot,         \* data.parquet in the hot bucket
  staging,     \* data.parquet.compacting in the hot bucket
  job,         \* what the backfill of this object is about to do
  snapshot     \* the object as the backfill downloaded it

compactionVars == <<era, rolled, rollups, step, partition, spill, hot, staging, job, snapshot>>

-----------------------------------------------------------------------------
(* The reduction *)

Candidate(r) ==
  /\ r.key # Null
  /\ r.feed_timestamp # Null
  /\ r.relationship \in {"SCHEDULED", Null}
  /\ r.arrival # Null \/ r.departure # Null

Candidates(rows) == {i \in DOMAIN rows : Candidate(rows[i])}

\* Row i comes before row j once sorted by feed_timestamp, descending, stably.
Before(rows, i, j) ==
  \/ rows[i].feed_timestamp > rows[j].feed_timestamp
  \/ rows[i].feed_timestamp = rows[j].feed_timestamp /\ i < j

FirstOf(rows, kept, key, column) ==
  LET own == {i \in kept : rows[i].key = key /\ rows[i][column] # Null} IN
  IF own = {} THEN Null
  ELSE rows[CHOOSE i \in own : \A j \in own \ {i} : Before(rows, i, j)][column]

FirstPerKey(rows, kept) ==
  SetToSeq({[c \in Columns |-> IF c = "key" THEN k ELSE FirstOf(rows, kept, k, c)] :
             k \in {rows[i].key : i \in kept}})

\* Mutant of CompactTable: rows without a key or a time are kept.
CompactUnfiltered(rows) ==
  IF era = "bare" THEN rows ELSE FirstPerKey(rows, DOMAIN rows)

\* Rows of the older column names are left as they are.
CompactTable(rows) ==
  IF era = "bare" THEN rows ELSE FirstPerKey(rows, Candidates(rows))

Batches(rows, n) ==
  [b \in 1..((Len(rows) + n - 1) \div n) |->
    SubSeq(rows, (b - 1) * n + 1, IF b * n < Len(rows) THEN b * n ELSE Len(rows))]

Partials(rows) ==
  LET bs == Batches(rows, CompactBatch) IN [b \in DOMAIN bs |-> CompactTable(bs[b])]

\* Mutant of CompactParquet: each batch replaces the one before.
CompactLastBatch(rows) ==
  IF rows = <<>> THEN <<>> ELSE CompactTable(Last(Partials(rows)))

\* Mutant of CompactParquet: the partial results are not reduced again.
CompactNotCombined(rows) == FlattenSeq(Partials(rows))

\* Mutant of CompactParquet: the last batch is flushed twice and not reduced.
CompactLastTwice(rows) ==
  LET ps == Partials(rows) IN
  FlattenSeq(IF ps = <<>> THEN ps ELSE Append(ps, Last(ps)))

CompactParquet(rows) == CompactTable(FlattenSeq(Partials(rows)))

\* _normalize knows the dotted names only: of other rows every column is null.
Normalize(rows) == IF era = "bare" THEN <<>> ELSE rows

DedupeLatestPerKey(rows) == FirstPerKey(rows, Candidates(rows))

Visit(r) ==
  [key |-> r.key,
   arrival |-> IF r.arrival = Null THEN r.departure ELSE r.arrival,
   departure |-> IF r.departure = Null THEN r.arrival ELSE r.departure]

Visits(rows) ==
  LET batches == Batches(Normalize(rows), MergeBatch)
      merged[b \in 0..Len(batches)] ==
        IF b = 0 THEN <<>>
        ELSE DedupeLatestPerKey(merged[b-1] \o DedupeLatestPerKey(batches[b]))
      day == merged[Len(batches)]
  IN {Visit(day[i]) : i \in DOMAIN day}

-----------------------------------------------------------------------------
CompactionInit ==
  /\ era = "dotted"
  /\ rolled = <<>> /\ rollups = 0 /\ step = "idle"
  /\ partition = <<>> /\ spill = <<>>
  /\ hot = <<>> /\ staging = <<>>
  /\ job = "idle" /\ snapshot = <<>>

\* A poll of the day; what it predicts is the number of the row.
PollTrips(shape, names) ==
  LET n == Len(rolled) + 1 IN
  /\ step = "idle"
  /\ n <= MaxRows
  /\ rolled = <<>> \/ names = era
  /\ era' = names
  /\ rolled' = Append(rolled, [shape EXCEPT
        !.arrival = IF @ = Null THEN Null ELSE n,
        !.departure = IF @ = Null THEN Null ELSE n])
  /\ UNCHANGED <<rollups, step, partition, spill, hot, staging, job, snapshot>>

RollUpTrips ==
  /\ step = "idle"
  /\ rolled # <<>>
  /\ rollups < MaxRollups
  /\ rollups' = rollups + 1
  /\ partition' = rolled
  /\ step' = "rolled"
  /\ UNCHANGED <<era, rolled, spill, hot, staging, job, snapshot>>

\* compact_one: the smaller table beside the partition, or nothing to do.
CompactOne ==
  LET after == CompactParquet(partition) IN
  /\ step = "rolled"
  /\ \/ /\ Len(after) = Len(partition)
        /\ step' = "ready"
        /\ UNCHANGED spill
     \/ /\ Len(after) # Len(partition)
        /\ step' = "spilled"
        /\ spill' = after
  /\ UNCHANGED <<era, rolled, rollups, partition, hot, staging, job, snapshot>>

RenameCompacted ==
  /\ step = "spilled"
  /\ step' = "ready"
  /\ partition' = spill
  /\ spill' = <<>>
  /\ UNCHANGED <<era, rolled, rollups, hot, staging, job, snapshot>>

\* The batch ships what is there.
CompactionFails ==
  /\ step \in {"rolled", "spilled"}
  /\ step' = "ready"
  /\ UNCHANGED <<era, rolled, rollups, partition, spill, hot, staging, job, snapshot>>

ShipTrips ==
  /\ step = "ready"
  /\ step' = "idle"
  /\ \/ hot' = partition
     \/ UNCHANGED hot     \* the interim ship failed
  /\ UNCHANGED <<era, rolled, rollups, partition, spill, staging, job, snapshot>>

\* A backfill child takes the object; which of the two scripts it runs.
Download(script) ==
  /\ job = "idle"
  /\ hot # <<>>
  /\ script = "direct" => era = "dotted"      \* needs-migration
  /\ Len(CompactParquet(hot)) # Len(hot)
  /\ snapshot' = hot
  /\ job' = script
  /\ UNCHANGED <<era, rolled, rollups, step, partition, spill, hot, staging>>

\* scripts/backfill_compact_trip_updates.py --apply.
PutCompacted ==
  /\ job = "direct"
  /\ hot' = CompactParquet(snapshot)
  /\ job' = "idle" /\ snapshot' = <<>>
  /\ UNCHANGED <<era, rolled, rollups, step, partition, spill, staging>>

\* pipeline/backfill_compact_trip_updates.py, unless the file did not shrink.
StageCompacted ==
  /\ job = "staged"
  /\ staging' = CompactParquet(snapshot)
  /\ job' = "copy"
  /\ UNCHANGED <<era, rolled, rollups, step, partition, spill, hot, snapshot>>

NotSmaller ==
  /\ job = "staged"
  /\ job' = "idle" /\ snapshot' = <<>>
  /\ UNCHANGED <<era, rolled, rollups, step, partition, spill, hot, staging>>

CopyStaged ==
  /\ job = "copy"
  /\ hot' = staging
  /\ job' = "delete"
  /\ UNCHANGED <<era, rolled, rollups, step, partition, spill, staging, snapshot>>

DeleteStaged ==
  /\ job = "delete"
  /\ staging' = <<>>
  /\ job' = "idle" /\ snapshot' = <<>>
  /\ UNCHANGED <<era, rolled, rollups, step, partition, spill, hot>>

\* Killed, or a request failed: the parent reports the key and goes on.
ChildFails ==
  /\ job # "idle"
  /\ job' = "idle" /\ snapshot' = <<>>
  /\ UNCHANGED <<era, rolled, rollups, step, partition, spill, hot, staging>>

CompactionNext ==
  \/ \E shape \in TripRows, names \in {"dotted", "bare"} : PollTrips(shape, names)
  \/ RollUpTrips \/ CompactOne \/ RenameCompacted \/ CompactionFails \/ ShipTrips
  \/ \E script \in {"direct", "staged"} : Download(script)
  \/ PutCompacted \/ StageCompacted \/ NotSmaller \/ CopyStaged \/ DeleteStaged
  \/ ChildFails

CompactionSpec == CompactionInit /\ [][CompactionNext]_compactionVars

-----------------------------------------------------------------------------
Rollups == {SubSeq(rolled, 1, n) : n \in 0..Len(rolled)}

\* The predictions for a key come in the order of their timestamps, or all of
\* them name the same times: no value is kept of one that another replaced.
Settled(rows, key) ==
  LET own == {i \in Candidates(rows) : rows[i].key = key} IN
  \/ \A i, j \in own : i < j => rows[i].feed_timestamp < rows[j].feed_timestamp
  \/ \A i, j \in own, c \in {"arrival", "departure"} :
       rows[i][c] = Null <=> rows[j][c] = Null

\* What no compaction may change, whatever the order of the timestamps.
Outline(rows) ==
  {[key |-> rows[i].key,
    latest |-> FirstOf(rows, Candidates(rows), rows[i].key, "feed_timestamp")] :
     i \in Candidates(rows)}

\* The types of the partition and of its forms.
CompactionTypeOK ==
  /\ era \in {"dotted", "bare"}
  /\ rollups \in 0..MaxRollups
  /\ step \in {"idle", "rolled", "spilled", "ready"}
  /\ job \in {"idle", "direct", "staged", "copy", "delete"}
  /\ \A rows \in {rolled, partition, spill, hot, staging, snapshot} :
       /\ Len(rows) <= MaxRows
       /\ \A i \in DOMAIN rows, c \in TimeColumns : rows[i][c] \in Nat \cup {Null}

\* compact_trip_updates.py: gold reduces the file itself, compacted or not,
\* and builds the same marts.  Every file a reader may meet, local or hot,
\* compacted by the batch or by a backfill that raced it, yields the visits
\* of a rollup of the day, when the predictions settle.
MartsIndifferent ==
  (\A i \in DOMAIN rolled : Settled(rolled, rolled[i].key)) =>
    /\ step # "idle" => Visits(partition) = Visits(rolled)
    /\ \A rows \in {hot, staging} :
         rows # <<>> => \E day \in Rollups : Visits(rows) = Visits(day)

\* Whatever the timestamps do, no (trip, stop) is lost or invented and none
\* loses its latest timestamp, in whatever batches the rows were reduced.
CompactionKeepsKeys ==
  \A rows \in {partition, hot, staging} :
    rows # <<>> => \E day \in Rollups :
      Outline(rows) = Outline(day)

\* test_idempotent: a compacted partition, which the batch ships and a
\* backfill then meets again, has nothing left to compact, so that no rerun
\* rewrites an object.
CompactedStaysCompact ==
  LET once == CompactParquet(hot) IN
  era = "dotted" => ToSet(CompactParquet(once)) = ToSet(once) /\ Len(CompactParquet(once)) = Len(once)

\* compact_trip_updates.py: no mart can tell whether the parquet it reads was
\* compacted, in batches of any size, once, again, or by the backfill's copy.
CompactionUnseen ==
  /\ CompactionTypeOK
  /\ MartsIndifferent
  /\ CompactionKeepsKeys
  /\ CompactedStaysCompact

=============================================================================
