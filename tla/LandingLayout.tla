---------------------------- MODULE LandingLayout ----------------------------
(***************************************************************************)
(* Time and the layout of the landing directory: which day partition and   *)
(* which ship window a unix timestamp belongs to, when a window is closed, *)
(* and which rows the uploader can still see.  Shared by the poller's      *)
(* writer and by the landing uploader, whose file names must agree.        *)
(*                                                                         *)
(* Time is a natural number of ticks.  A window or a day is named by the   *)
(* tick at which it starts, as window=<start> is in the file names.        *)
(***************************************************************************)
EXTENDS Integers

CONSTANTS
  Window,      \* ship_window_seconds
  Day,         \* a UTC day, 86400 s
  Grace,       \* _WINDOW_GRACE_S
  NoDigest     \* the digest of a row that refers to no payload

\* The configuration's windows divide a day (300 and 3600 do), so that no
\* window straddles midnight.
ASSUME LayoutAssumption ==
  /\ Window \in Nat \ {0}
  /\ Day \in Nat \ {0}
  /\ Day % Window = 0
  /\ Grace \in Nat

WindowOf(t) == t - (t % Window)

DayOf(t) == t - (t % Day)

\* Mutant of Closed: no grace period.
ClosedAtOnce(window, t) == window <= t - Window

\* A window is closed at t once its last tick and the grace period are past.
Closed(window, t) == window <= t - Window - Grace

\* Mutant of InLookback: only today's file is read.
InToday(ts, t) == DayOf(ts) = DayOf(t)

\* The sweep at t reads today's and yesterday's data.jsonl only.
InLookback(ts, t) == DayOf(ts) \in {DayOf(t), DayOf(t - Day)}

\* The object of a row's window, local (window=*.jsonl) and in S3.
Slot(row) == [feed |-> row.feed, window |-> WindowOf(row.ts)]

Slots(R) == {Slot(r) : r \in R}

\* The day's data.jsonl that a row is appended to.
DayFile(row) == [feed |-> row.feed, day |-> DayOf(row.ts)]

\* {digest}.bin in the raw directory of a feed's day.
Bin(feed, t, digest) == [feed |-> feed, day |-> DayOf(t), digest |-> digest]

=============================================================================
