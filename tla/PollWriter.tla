------------------------------ MODULE PollWriter ------------------------------
(***************************************************************************)
(* One poll, from its response to the disk: Archiver.archive_one decides   *)
(* from the feed's poll state whether a response is new, records the new   *)
(* state, and hands the response to the ContentAddressedWriter, which      *)
(* renames {digest}.bin into place and then appends a row to the day's     *)
(* data.jsonl.  Feeds are polled concurrently (one poll of a feed at a     *)
(* time); writes run on the thread pool, so any in-flight write may take   *)
(* its next step at any time.  The process may crash or be stopped, and    *)
(* any disk operation may fail.                                            *)
(***************************************************************************)
EXTENDS LandingLayout, FiniteSets

CONSTANTS
  Feeds,       \* the feeds of this poller
  Digests,     \* the contents a feed can serve, by digest
  MaxDelay,    \* a write ends at most this long after its response is stamped
  Horizon,     \* bound: the clock stops here
  MaxPolls,    \* bound: number of polls
  MaxFaults    \* bound: number of failures, crashes and shutdowns

ASSUME PollAssumption ==
  /\ NoDigest \notin Digests
  /\ MaxDelay \in Nat
  /\ Horizon \in Nat
  /\ MaxPolls \in Nat
  /\ MaxFaults \in Nat

VARIABLES
  now,         \* the wall clock
  proc,        \* the poller process
  store,       \* PollStateStore._store: last digest per feed, in memory
  saved,       \* the <feed>.json files the store loads at boot
  binTodo,     \* responses whose payload is still to be written
  rowTodo,     \* responses whose metadata row is still to be appended
  bins,        \* the {digest}.bin files on disk
  rows,        \* the readable lines of the data.jsonl files
  torn,        \* the data.jsonl files that end in a partial line
  polls,       \* polls so far
  faults       \* failures, crashes and shutdowns so far

memory == <<store, binTodo, rowTodo>>
disk   == <<saved, bins, rows, torn>>
pollVars == <<now, proc, memory, disk, polls, faults>>

\* A response that brings a payload, and one that does not: unchanged content
\* refers to the last digest, an error to none.
PayloadRow == [feed : Feeds, ts : Nat, digest : Digests, payload : {TRUE}]

BareRow == [feed : Feeds, ts : Nat, digest : Digests \cup {NoDigest},
            payload : {FALSE}]

Row == PayloadRow \cup BareRow

BinFile == [feed : Feeds, day : Int, digest : Digests]

\* "running": the loop polls; "stopping": a signal came, in-flight polls are
\* gathered; "closing" and "draining": __aexit__ of the landing uploader.
Phases == {"running", "stopping", "closing", "draining", "down"}

\* The types of memory and disk; only a response with content is to be written.
PollTypeOK ==
  /\ now \in Nat
  /\ proc \in Phases
  /\ store \in [Feeds -> Digests \cup {NoDigest}]
  /\ saved \in [Feeds -> Digests \cup {NoDigest}]
  /\ binTodo \in SUBSET PayloadRow
  /\ rowTodo \in SUBSET Row
  /\ bins \in SUBSET BinFile
  /\ rows \in SUBSET Row
  /\ torn \in SUBSET [feed : Feeds, day : Int]
  /\ polls \in 0..MaxPolls
  /\ faults \in 0..MaxFaults

PollInit ==
  /\ now = 0
  /\ proc = "running"
  /\ store = [f \in Feeds |-> NoDigest]
  /\ saved = [f \in Feeds |-> NoDigest]
  /\ binTodo = {}
  /\ rowTodo = {}
  /\ bins = {}
  /\ rows = {}
  /\ torn = {}
  /\ polls = 0
  /\ faults = 0

InFlight == binTodo \cup rowTodo

\* A failure, crash or shutdown: counted, so that there are finitely many.
Fault == /\ faults < MaxFaults
         /\ faults' = faults + 1

-----------------------------------------------------------------------------
(* archive_one: what a response turns into.  The response is stamped when  *)
(* it is constructed.                                                      *)

\* Mutant of Stamped: every response counts as one with a payload.
StampedAlwaysPayload(f, d, hasPayload) ==
  [feed |-> f, ts |-> now, digest |-> d, payload |-> TRUE]

Stamped(f, d, hasPayload) ==
  [feed |-> f, ts |-> now, digest |-> d, payload |-> hasPayload]

\* The loop starts no second poll of a feed that has one in flight.
Poll(f) ==
  /\ proc = "running"
  /\ \A r \in InFlight : r.feed # f
  /\ polls < MaxPolls
  /\ polls' = polls + 1
  /\ UNCHANGED <<now, proc, bins, rows, torn>>

\* Mutant of NewContent: the content is compared with the poll state after it
\* was set, and taken for a duplicate.
NewContentCollapsed(f, d) ==
  /\ Poll(f)
  /\ d # store[f]
  /\ store' = [store EXCEPT ![f] = d]
  /\ saved' = [saved EXCEPT ![f] = d]
  /\ rowTodo' = rowTodo \cup {Stamped(f, d, FALSE)}
  /\ UNCHANGED <<binTodo, faults>>

\* A parsed response with new content: the poll state is set (memory and
\* file) before the response is handed to the writer.
NewContent(f, d) ==
  /\ Poll(f)
  /\ d # store[f]
  /\ store' = [store EXCEPT ![f] = d]
  /\ saved' = [saved EXCEPT ![f] = d]
  /\ binTodo' = binTodo \cup {Stamped(f, d, TRUE)}
  /\ UNCHANGED <<rowTodo, faults>>

\* PollStateStore.set updates the dict and then fails to write the file: the
\* exception ends the poll, and nothing reaches the writer.
SetStateFails(f, d) ==
  /\ Poll(f)
  /\ d # store[f]
  /\ Fault
  /\ store' = [store EXCEPT ![f] = d]
  /\ UNCHANGED <<saved, binTodo, rowTodo>>

\* Unparseable content, or content with schema drift, is kept but leaves the
\* poll state alone.
OddContent(f, d) ==
  /\ Poll(f)
  /\ d # store[f]
  /\ binTodo' = binTodo \cup {Stamped(f, d, TRUE)}
  /\ UNCHANGED <<store, saved, rowTodo, faults>>

\* 304, or a body whose digest is the last one: a row that refers to the
\* last digest and carries no payload.
Unchanged(f) ==
  /\ Poll(f)
  /\ store[f] # NoDigest
  /\ rowTodo' = rowTodo \cup {Stamped(f, store[f], FALSE)}
  /\ UNCHANGED <<store, saved, binTodo, faults>>

\* A transport error or a status >= 400: a row without a payload.
Refused(f) ==
  /\ Poll(f)
  /\ rowTodo' = rowTodo \cup {Stamped(f, NoDigest, FALSE)}
  /\ UNCHANGED <<store, saved, binTodo, faults>>

-----------------------------------------------------------------------------
(* ContentAddressedWriter._write_sync, on a thread of the pool.            *)

WriteBin(r) ==
  /\ r \in binTodo
  /\ bins' = bins \cup {Bin(r.feed, r.ts, r.digest)}
  /\ binTodo' = binTodo \ {r}
  /\ rowTodo' = rowTodo \cup {r}
  /\ UNCHANGED <<now, proc, store, saved, rows, torn, polls, faults>>

\* Mutant of WriteBinFails: the error is swallowed and the row appended.
WriteBinFailsUnseen(r) ==
  /\ r \in binTodo
  /\ Fault
  /\ binTodo' = binTodo \ {r}
  /\ rowTodo' = rowTodo \cup {r}
  /\ UNCHANGED <<now, proc, store, disk, polls>>

\* The temporary file is never renamed, the row is never appended.
WriteBinFails(r) ==
  /\ r \in binTodo
  /\ Fault
  /\ binTodo' = binTodo \ {r}
  /\ UNCHANGED <<now, proc, store, rowTodo, disk, polls>>

\* A row appended to a file that ends in a partial line is glued to it: one
\* unreadable line, and the file ends in a newline again.
AppendRow(r) ==
  /\ r \in rowTodo
  /\ rowTodo' = rowTodo \ {r}
  /\ IF DayFile(r) \in torn
       THEN /\ torn' = torn \ {DayFile(r)}
            /\ UNCHANGED rows
       ELSE /\ rows' = rows \cup {r}
            /\ UNCHANGED torn
  /\ UNCHANGED <<now, proc, store, saved, binTodo, bins, polls, faults>>

\* The append fails, before its first byte or after some.
AppendRowFails(r) ==
  /\ r \in rowTodo
  /\ Fault
  /\ rowTodo' = rowTodo \ {r}
  /\ torn' \in {torn, torn \cup {DayFile(r)}}
  /\ UNCHANGED <<now, proc, store, saved, binTodo, bins, rows, polls>>

-----------------------------------------------------------------------------
(* The process and the clock.                                              *)

\* SIGTERM or SIGINT: the loop ends, in-flight polls are gathered.
Signal ==
  /\ proc = "running"
  /\ Fault
  /\ proc' = "stopping"
  /\ UNCHANGED <<now, memory, disk, polls>>

\* The gathered loop leaves the exit stack, which stops the landing uploader.
Gathered ==
  /\ proc = "stopping"
  /\ InFlight = {}
  /\ proc' = "closing"
  /\ UNCHANGED <<now, memory, disk, polls, faults>>

\* A crash loses what is in memory and may cut appends short.
PollCrash ==
  /\ proc # "down"
  /\ Fault
  /\ proc' = "down"
  /\ binTodo' = {}
  /\ rowTodo' = {}
  /\ \E cut \in SUBSET rowTodo : torn' = torn \cup {DayFile(r) : r \in cut}
  /\ UNCHANGED <<now, store, saved, bins, rows, polls>>

\* The store loads the poll state files.
PollBoot ==
  /\ proc = "down"
  /\ proc' = "running"
  /\ store' = saved
  /\ UNCHANGED <<now, binTodo, rowTodo, disk, polls, faults>>

\* Time passes, up or down, but no write outlasts MaxDelay.
Tick ==
  /\ now < Horizon
  /\ \A r \in InFlight : now < r.ts + MaxDelay
  /\ now' = now + 1
  /\ UNCHANGED <<proc, memory, disk, polls, faults>>

\* Without a landing uploader the process ends once the loop is gathered.
Exit ==
  /\ proc = "closing"
  /\ proc' = "down"
  /\ UNCHANGED <<now, memory, disk, polls, faults>>

Respond ==
  \E f \in Feeds :
    \/ \E d \in Digests : NewContent(f, d) \/ SetStateFails(f, d)
                                           \/ OddContent(f, d)
    \/ Unchanged(f)
    \/ Refused(f)

Write ==
  \/ \E r \in binTodo : WriteBin(r) \/ WriteBinFails(r)
  \/ \E r \in rowTodo : AppendRow(r) \/ AppendRowFails(r)

PollNext ==
  Respond \/ Write \/ Signal \/ Gathered \/ PollCrash \/ PollBoot \/ Tick \/ Exit

PollSpec == PollInit /\ [][PollNext]_pollVars

-----------------------------------------------------------------------------

\* ContentAddressedWriter's ordering: a row that announces a payload, in the
\* file or about to be appended, has its payload on disk, whatever fails or
\* crashes between the two writes.
AnnouncedPayloadOnDisk ==
  \A r \in rows \cup rowTodo : r.payload => Bin(r.feed, r.ts, r.digest) \in bins

\* Until something fails, deduplication is sound: the digest a feed's poll
\* state holds, against which later polls are collapsed to rows without a
\* payload, is on disk or on its way there.
StateIsBacked ==
  faults = 0 =>
    \A f \in Feeds :
      store[f] # NoDigest =>
        \/ \E b \in bins : b.feed = f /\ b.digest = store[f]
        \/ \E r \in binTodo : r.feed = f /\ r.digest = store[f]

\* The comment in ContentAddressedWriter._write_sync, "a metadata row must
\* never point at a payload that isn't on disk yet", taken of every row that
\* points at a payload: rows for unchanged content point at an earlier one.
EveryRowResolves ==
  \A r \in rows : r.digest # NoDigest =>
    \E b \in bins : b.feed = r.feed /\ b.digest = r.digest

=============================================================================
