---------------------------- MODULE MetadataRewrite ----------------------------
(***************************************************************************)
(* pipeline/rewrite_metadata_schema.py: a job that brings the metadata     *)
(* partitions of the hot bucket from the inferred schemas (version 0) to   *)
(* the declared one (version 1), with a thread per partition, while the    *)
(* nightly batch of the new image, or a last one of the old image, ships   *)
(* into the same bucket.  An object is rewritten through a temporary key   *)
(* and after a backup; nothing locks it.                                   *)
EXTENDS Integers, FiniteSets, SequencesExt

CONSTANTS
  PartitionKeys,     \* the partitions' keys
  MetadataDays,     \* what the jsonl of a day may be
  RewriteWorkers,   \* --workers
  MaxShipments,     \* bound: partitions shipped
  MaxRewrites,      \* bound: runs of the job
  MaxRewriteFaults  \* bound: failed requests, and runs that die

ASSUME RewriteAssumption == MetadataDays # {}

VARIABLES
  live,            \* key -> the object
  backups,         \* key -> the object at _backup/metadata-v0/<key>
  rewriting,       \* key -> the object at <key>.rewriting
  shippedDay,      \* key -> the day the object was last shipped from
  rewriter,        \* key -> the thread that processes it
  rewrite,         \* the job
  rewriteHistory   \* counters, and what became of the objects

rewriteVars == <<live, backups, rewriting, shippedDay, rewriter, rewrite, rewriteHistory>>

-----------------------------------------------------------------------------
(* metadata_schema.py and conform.  A timestamp is in halves of a          *)
(* microsecond.                                                            *)

NotFinite == -1   \* null, NaN, infinite or no number

\* Half to even.
ToUs(timestamp) ==
  LET us == timestamp \div 2 IN IF timestamp % 2 = 0 THEN us ELSE us + (us % 2)

UsableRow(row) == row.timestamp # NotFinite

PollKey(row) == <<ToUs(row.timestamp), row.digest>>

\* Row i repeats the poll of an earlier row.
Repeats(rows, i) ==
  \E j \in 1..(i - 1) : UsableRow(rows[j]) /\ PollKey(rows[j]) = PollKey(rows[i])

RowsAt(rows, kept) ==
  LET order == SetToSortSeq(kept, <) IN
  [n \in DOMAIN order |-> [rows[order[n]] EXCEPT !.timestamp = ToUs(@)]]

\* metadata_table, of the rows at some places.
MetadataTable(rows, kept) ==
  [version |-> 1, clock |-> "us", unknown |-> FALSE, rows |-> RowsAt(rows, kept)]

MaxSkippedLines == 3

\* What the rollup makes of a day now: repeated polls are dropped from the
\* lines, of which those without a timestamp pass, and then these are skipped.
RolledMetadata(day) ==
  MetadataTable(day.rows, {i \in {j \in DOMAIN day.rows :
                                    UsableRow(day.rows[j]) => ~Repeats(day.rows, j)} :
                             UsableRow(day.rows[i])})

RollUpRaises(day) ==
  \/ Cardinality({i \in DOMAIN day.rows : ~UsableRow(day.rows[i])}) > MaxSkippedLines
  \/ day.unknown

\* What it made of it on the old image: every row as it is, with whatever
\* columns the rows have.
Inferred(day) ==
  [version |-> 0, clock |-> "seconds", unknown |-> day.unknown, rows |-> day.rows]

NoObject == [version |-> -1, clock |-> "none", unknown |-> FALSE, rows |-> <<>>]

\* Mutant of KeptRows: a row is a repetition of any row at its microsecond.
KeptByTime(rows) ==
  {i \in DOMAIN rows :
     UsableRow(rows[i]) /\ \A j \in 1..(i - 1) :
       UsableRow(rows[j]) => ToUs(rows[j].timestamp) # ToUs(rows[i].timestamp)}

KeptRows(rows) == {i \in DOMAIN rows : UsableRow(rows[i]) /\ ~Repeats(rows, i)}

ConformRaises(object) ==
  object.clock # "seconds" \/ (object.unknown /\ KeptRows(object.rows) # {})

Conform(object) == MetadataTable(object.rows, KeptRows(object.rows))

-----------------------------------------------------------------------------
NoThread == [at |-> "none", out |-> NoObject, late |-> FALSE, outcome |-> "none"]
Queued == [NoThread EXCEPT !.at = "queued"]
NoRewrite == [at |-> "idle", mode |-> "dry", backup |-> TRUE, listed |-> {}]

RewriteInit ==
  /\ live = [k \in PartitionKeys |-> NoObject]
  /\ backups = [k \in PartitionKeys |-> NoObject]
  /\ rewriting = [k \in PartitionKeys |-> NoObject]
  /\ shippedDay = [k \in PartitionKeys |-> CHOOSE day \in MetadataDays : TRUE]
  /\ rewriter = [k \in PartitionKeys |-> NoThread]
  /\ rewrite = NoRewrite
  /\ rewriteHistory = [shipments |-> 0, runs |-> 0, faults |-> 0,
                       overtaken |-> {}, backed |-> {}, reverted |-> {}]

Holding == {"backup", "upload", "copy"}

\* A nightly batch, or an operator's, ships the partition of a day: over
\* whatever is there, and whether or not a thread holds what was there.
ShipPartition(k, day, image) ==
  /\ rewriteHistory.shipments < MaxShipments
  /\ image = "new" => ~RollUpRaises(day) /\ RolledMetadata(day).rows # <<>>
  /\ live' = [live EXCEPT ![k] = IF image = "old" THEN Inferred(day) ELSE RolledMetadata(day)]
  /\ shippedDay' = [shippedDay EXCEPT ![k] = day]
  /\ rewriter' = [rewriter EXCEPT ![k].late = rewriter[k].at \in Holding]
  /\ rewriteHistory' = [rewriteHistory EXCEPT
        !.shipments = @ + 1, !.overtaken = @ \ {k}, !.backed = @ \ {k},
        !.reverted = IF image = "old" THEN @ \cup {k} ELSE @ \ {k}]
  /\ UNCHANGED <<backups, rewriting, rewrite>>

\* main: the job lists the partitions and queues each.
StartRewrite(mode, backup) ==
  /\ rewrite.at = "idle"
  /\ rewriteHistory.runs < MaxRewrites
  /\ rewriteHistory' = [rewriteHistory EXCEPT !.runs = @ + 1, !.reverted = {}]
  /\ LET listed == {k \in PartitionKeys : live[k] # NoObject} IN
       /\ rewrite' = [at |-> "running", mode |-> mode, backup |-> backup, listed |-> listed]
       /\ rewriter' = [k \in PartitionKeys |-> IF k \in listed THEN Queued ELSE NoThread]
  /\ UNCHANGED <<live, backups, rewriting, shippedDay>>

Occupied == {k \in PartitionKeys : rewriter[k].at \notin {"none", "queued", "done"}}

Ends(k, outcome) ==
  rewriter' = [rewriter EXCEPT ![k] = [NoThread EXCEPT !.at = "done", !.outcome = outcome]]

\* An object that is current cannot become stale but by a shipment.
FoundCurrent(k) == rewriteHistory' = [rewriteHistory EXCEPT !.reverted = @ \ {k}]

\* process: the footer, and the rows if it is stale.
Open(k) ==
  LET object == live[k] IN
  /\ rewriter[k].at = "queued"
  /\ Cardinality(Occupied) < RewriteWorkers
  /\ \/ /\ object.version >= 1
        /\ Ends(k, "current")
        /\ FoundCurrent(k)
     \/ /\ object.version < 1
        /\ \/ rewrite.mode = "footers" /\ Ends(k, "stale")
           \/ rewrite.mode # "footers" /\ ConformRaises(object) /\ Ends(k, "failed")
           \/ rewrite.mode = "dry" /\ ~ConformRaises(object) /\ Ends(k, "converted")
           \/ /\ rewrite.mode = "apply" /\ ~ConformRaises(object)
              /\ rewriter' = [rewriter EXCEPT ![k] =
                   [at |-> IF rewrite.backup THEN "backup" ELSE "upload",
                    out |-> Conform(object), late |-> FALSE, outcome |-> "none"]]
        /\ UNCHANGED rewriteHistory
  /\ UNCHANGED <<live, backups, rewriting, shippedDay, rewrite>>

ThreadAt(k, step) == rewriter[k].at = step
Goes(k, step) == rewriter' = [rewriter EXCEPT ![k].at = step]

BackUp(k) ==
  /\ ThreadAt(k, "backup") /\ Goes(k, "upload")
  /\ backups' = [backups EXCEPT ![k] = live[k]]
  /\ UNCHANGED <<live, rewriting, shippedDay, rewrite, rewriteHistory>>

\* Mutant of Upload: one temporary key for all partitions.
UploadShared(k) ==
  /\ ThreadAt(k, "upload") /\ Goes(k, "copy")
  /\ rewriting' = [j \in PartitionKeys |-> rewriter[k].out]
  /\ UNCHANGED <<live, backups, shippedDay, rewrite, rewriteHistory>>

Upload(k) ==
  /\ ThreadAt(k, "upload") /\ Goes(k, "copy")
  /\ rewriting' = [rewriting EXCEPT ![k] = rewriter[k].out]
  /\ UNCHANGED <<live, backups, shippedDay, rewrite, rewriteHistory>>

\* Mutant of Copy: the backup is made last.
CopyThenBackUp(k) ==
  /\ ThreadAt(k, "copy") /\ Goes(k, "delete")
  /\ live' = [live EXCEPT ![k] = rewriting[k]]
  /\ backups' = IF rewrite.backup THEN [backups EXCEPT ![k] = rewriting[k]] ELSE backups
  /\ rewriteHistory' = [rewriteHistory EXCEPT
        !.overtaken = IF rewriter[k].late THEN @ \cup {k} ELSE @,
        !.backed = IF rewrite.backup THEN @ \cup {k} ELSE @]
  /\ UNCHANGED <<rewriting, shippedDay, rewrite>>

\* Over the object, whatever it has become since it was read.
Copy(k) ==
  /\ ThreadAt(k, "copy") /\ Goes(k, "delete")
  /\ live' = [live EXCEPT ![k] = rewriting[k]]
  /\ rewriteHistory' = [rewriteHistory EXCEPT
        !.overtaken = IF rewriter[k].late THEN @ \cup {k} ELSE @,
        !.backed = IF rewrite.backup THEN @ \cup {k} ELSE @]
  /\ UNCHANGED <<backups, rewriting, shippedDay, rewrite>>

DeleteTemporary(k) ==
  /\ ThreadAt(k, "delete") /\ Goes(k, "check")
  /\ rewriting' = [rewriting EXCEPT ![k] = NoObject]
  /\ UNCHANGED <<live, backups, shippedDay, rewrite, rewriteHistory>>

\* Mutant of ReadBack: what was written is taken to be there.
ReadBackNothing(k) ==
  /\ ThreadAt(k, "check")
  /\ Ends(k, "written") /\ FoundCurrent(k)
  /\ UNCHANGED <<live, backups, rewriting, shippedDay, rewrite>>

ReadBack(k) ==
  /\ ThreadAt(k, "check")
  /\ IF live[k].version = 1 /\ Len(live[k].rows) = Len(rewriter[k].out.rows)
     THEN Ends(k, "written") /\ FoundCurrent(k)
     ELSE Ends(k, "failed") /\ UNCHANGED rewriteHistory
  /\ UNCHANGED <<live, backups, rewriting, shippedDay, rewrite>>

\* A request fails: reported for the partition, the run carries on.
RewriteFails(k) ==
  /\ rewriter[k].at \in {"queued", "backup", "upload", "copy", "delete", "check"}
  /\ rewriteHistory.faults < MaxRewriteFaults
  /\ rewriteHistory' = [rewriteHistory EXCEPT !.faults = @ + 1]
  /\ Ends(k, "failed")
  /\ UNCHANGED <<live, backups, rewriting, shippedDay, rewrite>>

\* Mutant of ReportRewrite: failed partitions are told of, and nothing else.
ReportAndExit ==
  /\ rewrite.at = "running"
  /\ \A k \in rewrite.listed : ThreadAt(k, "done")
  /\ rewrite' = [rewrite EXCEPT !.at = "exit 0"]
  /\ UNCHANGED <<live, backups, rewriting, shippedDay, rewriter, rewriteHistory>>

ReportRewrite ==
  /\ rewrite.at = "running"
  /\ \A k \in rewrite.listed : ThreadAt(k, "done")
  /\ rewrite' = [rewrite EXCEPT !.at =
       IF \E k \in rewrite.listed : rewriter[k].outcome = "failed" THEN "exit 1" ELSE "exit 0"]
  /\ UNCHANGED <<live, backups, rewriting, shippedDay, rewriter, rewriteHistory>>

Rested ==
  /\ rewriter' = [k \in PartitionKeys |-> NoThread]
  /\ rewrite' = NoRewrite
  /\ UNCHANGED <<live, backups, rewriting, shippedDay>>

RewriteRests ==
  /\ rewrite.at \in {"exit 0", "exit 1"}
  /\ Rested
  /\ UNCHANGED rewriteHistory

RewriteDies ==
  /\ rewrite.at = "running"
  /\ rewriteHistory.faults < MaxRewriteFaults
  /\ rewriteHistory' = [rewriteHistory EXCEPT !.faults = @ + 1]
  /\ Rested

RewriteNext ==
  \/ \E k \in PartitionKeys :
       \/ \E day \in MetadataDays, image \in {"old", "new"} : ShipPartition(k, day, image)
       \/ Open(k) \/ BackUp(k) \/ Upload(k) \/ Copy(k) \/ DeleteTemporary(k)
       \/ ReadBack(k) \/ RewriteFails(k)
  \/ \E mode \in {"footers", "dry", "apply"}, backup \in BOOLEAN : StartRewrite(mode, backup)
  \/ ReportRewrite \/ RewriteRests \/ RewriteDies

RewriteSpec == RewriteInit /\ [][RewriteNext]_rewriteVars

-----------------------------------------------------------------------------
PartitionObjects ==
  {NoObject} \cup {Inferred(day) : day \in MetadataDays} \cup {RolledMetadata(day) : day \in MetadataDays}

Threads == [at : {"none", "queued", "backup", "upload", "copy", "delete", "check", "done"},
            out : PartitionObjects, late : BOOLEAN,
            outcome : {"none", "current", "stale", "converted", "written", "failed"}]

\* No object is anything but what a rollup makes of some day, at any key.
RewriteTypeOK ==
  /\ {live, backups, rewriting} \subseteq [PartitionKeys -> PartitionObjects]
  /\ shippedDay \in [PartitionKeys -> MetadataDays]
  /\ rewriter \in [PartitionKeys -> Threads]
  /\ rewrite \in [at : {"idle", "running", "exit 0", "exit 1"},
                  mode : {"footers", "dry", "apply"}, backup : BOOLEAN,
                  listed : SUBSET PartitionKeys]
  /\ rewriteHistory \in [shipments : Nat, runs : Nat, faults : Nat,
                         overtaken : SUBSET PartitionKeys, backed : SUBSET PartitionKeys,
                         reverted : SUBSET PartitionKeys]

Versions(k) == {Inferred(shippedDay[k]), RolledMetadata(shippedDay[k])}

\* test_rewritten_partition_equals_what_the_rollup_builds_now: through runs
\* that fail, die and are repeated beside the nightly batch, a reader of a
\* partition finds what some rollup makes of the day last shipped, and never a
\* part of it or another partition's rows.  The exception is an object that
\* was shipped again between a thread's read and its copy: nothing holds it,
\* and the older day is back.
LiveIsWhatWasShipped ==
  \A k \in PartitionKeys :
    live[k] = NoObject \/ k \in rewriteHistory.overtaken \/ live[k] \in Versions(k)

\* "Each original is first copied": what a run with backups rewrote can be
\* put back, even after runs that were repeated over it.
OriginalsAreBackedUp ==
  \A k \in rewriteHistory.backed \ rewriteHistory.overtaken :
    backups[k] = Inferred(shippedDay[k])

\* A run over everything that ends well leaves no stale partition, but those
\* that a nightly batch of the old image shipped behind it, after it had begun
\* (the runbook's step 4).
CleanRunLeavesNoneStale ==
  rewrite.at = "exit 0" /\ rewrite.mode = "apply" =>
    \A k \in rewrite.listed \ rewriteHistory.reverted : live[k].version = 1

\* The rewrite of the metadata partitions in the hot bucket.
RewriteSound ==
  RewriteTypeOK /\ LiveIsWhatWasShipped /\ OriginalsAreBackedUp /\ CleanRunLeavesNoneStale
=============================================================================
