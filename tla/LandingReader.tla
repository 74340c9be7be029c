----------------------------- MODULE LandingReader -----------------------------
(***************************************************************************)
(* How a feed's day is read back from what the poller and the uploader     *)
(* left of it: metadata lines from data.jsonl, from the window= slices     *)
(* made of it, or from legacy hour= files merged of those, with repeated   *)
(* polls dropped; payloads from tars that overlap because a ship was       *)
(* repeated, and may be unreadable from some member on; and the join of    *)
(* the two that gives each payload the time of its first poll.             *)
(***************************************************************************)
EXTENDS LandingLayout, Selection

CONSTANTS
  Contents,       \* the digests polls may carry
  MaxLines,       \* bound: appends, whole or cut short
  MaxTears,       \* bound: appends cut short
  MaxTars         \* bound: tars

VARIABLES
  time,        \* the next poll's timestamp
  log,         \* data.jsonl, a sequence of rows and torn lines
  cut,         \* data.jsonl ends in a partial line
  tears,       \* appends cut short so far
  slices,      \* window=*.jsonl: per window, its rows; none: <<>>
  hour,        \* hour=*.jsonl
  tars         \* raw tars: members in order, and how many can be read

readerVars == <<time, log, cut, tears, slices, hour, tars>>

\* A line that is no row: an append that was cut short.
Torn == [torn |-> TRUE]

LastWindow == MaxLines \div Window

DayWindows == {Window * n : n \in 0..LastWindow}

Polled == [at : Nat, digest : Contents \cup {NoDigest}]

\* A tar's members, and how many precede its first unreadable byte.
Tars == {t \in [members : UNION {[1..n -> Contents] : n \in 1..2}, readable : 0..2] :
           t.readable <= Len(t.members) /\ IsInjective(t.members)}

\* The types of files, slices and tars.
ReaderTypeOK ==
  /\ time \in 0..MaxLines
  /\ log \in Seq(Polled \cup {Torn})
  /\ cut \in BOOLEAN
  /\ tears \in 0..MaxTears
  /\ slices \in [DayWindows -> Seq(Polled)]
  /\ hour \in Seq(Polled)
  /\ tars \in Seq(Tars)

ReaderInit ==
  /\ time = 0
  /\ log = <<>>
  /\ cut = FALSE
  /\ tears = 0
  /\ slices = [w \in DayWindows |-> <<>>]
  /\ hour = <<>>
  /\ tars = <<>>

-----------------------------------------------------------------------------
(* What the poller and the uploader leave.                                 *)

\* A row appended to a partial line is one unreadable line with it.
AppendPoll(d) ==
  /\ time < MaxLines
  /\ log' = Append(log, IF cut THEN Torn ELSE [at |-> time, digest |-> d])
  /\ cut' = FALSE
  /\ time' = time + 1
  /\ UNCHANGED <<tears, slices, hour, tars>>

TearAppend ==
  /\ time < MaxLines
  /\ tears < MaxTears
  /\ tears' = tears + 1
  /\ cut' = TRUE
  /\ time' = time + 1
  /\ UNCHANGED <<log, slices, hour, tars>>

Usable(lines) == ItemsAt(lines, {i \in DOMAIN lines : lines[i] # Torn})

RowsOfWindow(lines, w) ==
  ItemsAt(lines, {i \in DOMAIN lines : lines[i] # Torn /\ WindowOf(lines[i].at) = w})

\* Mutant of SliceWindow: unreadable lines are copied along.
SliceWindowRaw(w) ==
  /\ w + Window <= time
  /\ slices' = [slices EXCEPT ![w] =
                  ItemsAt(log, {i \in DOMAIN log :
                                  log[i] = Torn \/ WindowOf(log[i].at) = w})]
  /\ UNCHANGED <<time, log, cut, tears, hour, tars>>

\* A closed window's readable rows become its slice.
SliceWindow(w) ==
  /\ w + Window <= time
  /\ slices' = [slices EXCEPT ![w] = RowsOfWindow(log, w)]
  /\ UNCHANGED <<time, log, cut, tears, hour, tars>>

\* The slices' names sort by window.
Slices == FlattenSeq([n \in 1..(LastWindow + 1) |-> slices[Window * (n - 1)]])

\* The legacy merge concatenates slices in window order; it may have left
\* some of them beside the merged file.
MergeHour ==
  /\ hour = <<>>
  /\ hour' = Slices
  /\ \E gone \in SUBSET DayWindows :
       slices' = [w \in DayWindows |-> IF w \in gone THEN <<>> ELSE slices[w]]
  /\ UNCHANGED <<time, log, cut, tears, tars>>

\* A ship that is repeated makes a second tar, with members of the first.
ShipTar(t) ==
  /\ time = 0
  /\ Len(tars) < MaxTars
  /\ tars' = Append(tars, t)
  /\ UNCHANGED <<time, log, cut, tears, slices, hour>>

ReaderNext ==
  \/ \E d \in Contents \cup {NoDigest} : AppendPoll(d)
  \/ TearAppend
  \/ \E w \in DayWindows : SliceWindow(w)
  \/ MergeHour
  \/ \E t \in Tars : ShipTar(t)

ReaderSpec == ReaderInit /\ [][ReaderNext]_readerVars

-----------------------------------------------------------------------------
(* source.py and metadata_schema.py: the metadata of the day.              *)

DataJsonl == log \o (IF cut THEN <<Torn>> ELSE <<>>)

\* select_metadata_names, with data.jsonl in the directory and without: the
\* merged file's name sorts before those of the slices.
Selected(withData) == IF withData THEN DataJsonl ELSE hour \o Slices

\* Mutant of Dedupe: the lines as they come.
DedupeNothing(lines) == lines

\* The first line of each poll; lines without a key pass.
Dedupe(lines) ==
  ItemsAt(lines, {i \in DOMAIN lines :
                    lines[i] = Torn \/ \A j \in 1..(i-1) : lines[j] # lines[i]})

ReadMetadata(withData) == Dedupe(Selected(withData))

\* Mutant of Unusable: a row without a digest counts as well.
UnusableBare(lines) ==
  Cardinality({i \in DOMAIN lines : lines[i] = Torn \/ lines[i].digest = NoDigest})

Unusable(lines) == Len(lines) - Len(Usable(lines))

\* Mutant of Dates: the last poll that returned the content counts.
DatesLast(lines, d) ==
  LET at == {row.at : row \in {r \in ToSet(Usable(lines)) : r.digest = d}}
  IN  IF at = {} THEN {} ELSE {CHOOSE t \in at : \A u \in at : u <= t}

\* digest_timestamps: the time of the first poll with a digest, if any.
Dates(lines, d) ==
  LET at == {row.at : row \in {r \in ToSet(Usable(lines)) : r.digest = d}}
  IN  IF at = {} THEN {} ELSE {CHOOSE t \in at : \A u \in at : t <= u}

-----------------------------------------------------------------------------
(* S3Source.iter_bins and iter_payloads: the payloads of the day.          *)

\* Mutant of Claim: a member's name is claimed before it is read.
ClaimBeforeRead(seen, tar) == seen \cup ToSet(tar.members)

\* A name is claimed only once its member was read.
Claim(seen, tar) == seen \cup {tar.members[i] : i \in 1..tar.readable}

Members(out, tar) ==
  [seen |-> Claim(out.seen, tar),
   names |-> out.names \o ItemsAt(tar.members, {i \in 1..tar.readable :
                                                  tar.members[i] \notin out.seen})]

IterBins ==
  LET out[n \in 0..Len(tars)] ==
        IF n = 0 THEN [seen |-> {}, names |-> <<>>] ELSE Members(out[n-1], tars[n])
  IN out[Len(tars)].names

-----------------------------------------------------------------------------

LoggedRows == ToSet(Usable(log))

\* Reading never counts a poll twice nor loses one: from data.jsonl the day
\* has every readable row, and from slices and merged files, in whatever
\* mixture they exist, every row of them, and of a window it has a row of,
\* every row.
EveryPollReadOnce ==
  LET local == Usable(ReadMetadata(TRUE))
      s3 == Usable(ReadMetadata(FALSE))
  IN  /\ local = Usable(log)
      /\ IsInjective(s3)
      /\ ToSet(s3) = ToSet(hour) \cup ToSet(Slices)
      /\ ToSet(s3) \subseteq LoggedRows
      /\ \A r \in ToSet(s3), s \in LoggedRows :
           WindowOf(r.at) = WindowOf(s.at) => s \in ToSet(s3)

\* "One line per poller crash": a day's unusable lines are no more than its
\* cut appends, whatever was glued to what, so that MAX_SKIPPED_LINES fails a
\* day only when something else is wrong.
TornLinesAreFew == Unusable(ReadMetadata(TRUE)) <= tears

\* A payload is dated by the first poll of its content, and by the same one
\* whichever files the day is read from, once the first window that has it
\* was sliced; content that no row names has no date and is dropped.
DatedByFirstPoll ==
  \A d \in Contents :
    LET first == {r.at : r \in {r \in LoggedRows : r.digest = d /\
                    \A s \in LoggedRows : s.digest = d => r.at <= s.at}}
        read == ToSet(Usable(ReadMetadata(FALSE)))
    IN  /\ Dates(ReadMetadata(TRUE), d) = first
        /\ (\E r \in read : r.digest = d /\ r.at \in first)
             => Dates(ReadMetadata(FALSE), d) = first

\* However tars overlap and wherever they become unreadable, each payload is
\* yielded once, and is yielded if any of the tars still has it.
EachPayloadReadOnce ==
  /\ IsInjective(IterBins)
  /\ ToSet(IterBins) =
       UNION {{tars[i].members[j] : j \in 1..tars[i].readable} : i \in DOMAIN tars}

=============================================================================
