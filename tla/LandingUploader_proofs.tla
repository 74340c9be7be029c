------------------------ MODULE LandingUploader_proofs ------------------------
(***************************************************************************)
(* What holds of the polls of one process, of what they leave on disk and  *)
(* of the landing uploader that works beside them, for any feeds,          *)
(* contents, window length, grace period, number of polls and number of    *)
(* failures.                                                               *)
(***************************************************************************)
EXTENDS LandingUploader, TLAPS

-----------------------------------------------------------------------------
(* Days and windows: the arithmetic behind a remark of _closed_windows,    *)
(* that windows "never straddle midnight as long as ship_window_seconds    *)
(* divides a day".                                                         *)

\* Division with remainder, for negative times too.
LEMMA DivMod ==
  ASSUME NEW x \in Int, NEW y \in Nat \ {0}
  PROVE  /\ x % y \in 0..(y-1)
         /\ x \div y \in Int
         /\ x = y * (x \div y) + (x % y)
BY Z3

\* The remainder is the only one in its range.
LEMMA ModOfSum ==
  ASSUME NEW y \in Nat \ {0}, NEW q \in Int, NEW r \in 0..(y-1)
  PROVE  (y * q + r) % y = r
<1> DEFINE x == y * q + r
           p == x \div y
           m == x % y
<1>1. x \in Int /\ x = y * q + r
  BY Z3
<1>2. x = y * p + m /\ m \in 0..(y-1) /\ p \in Int
  BY <1>1, DivMod
<1> HIDE DEF x, p, m
<1>3. y * (q - p) = m - r
  BY <1>1, <1>2, Z3
<1>4. q = p
  <2>1. ~(q - p >= 1)
    <3> SUFFICES ASSUME q - p >= 1 PROVE FALSE
      OBVIOUS
    <3>1. y * (q - p) >= y
      BY <1>2, Z3
    <3> QED
      BY <3>1, <1>2, <1>3, SMT
  <2>2. ~(q - p <= -1)
    <3> SUFFICES ASSUME q - p <= -1 PROVE FALSE
      OBVIOUS
    <3>1. y * (q - p) <= -y
      BY <1>2, Z3
    <3> QED
      BY <3>1, <1>2, <1>3, SMT
  <2> QED
    BY <2>1, <2>2, <1>2, SMT
<1>5. m = r
  BY <1>2, <1>3, <1>4, SMT
<1> QED
  BY <1>5 DEF m, x

\* A time lies in its window: window_of rounds down.
LEMMA WindowBounds ==
  ASSUME NEW t \in Int
  PROVE  /\ WindowOf(t) \in Int
         /\ WindowOf(t) <= t
         /\ t < WindowOf(t) + Window
BY LayoutAssumption, DivMod, SMT DEF WindowOf

\* A time lies in its day.
LEMMA DayBounds ==
  ASSUME NEW t \in Int
  PROVE  /\ DayOf(t) \in Int
         /\ DayOf(t) <= t
         /\ t < DayOf(t) + Day
BY LayoutAssumption, DivMod, SMT DEF DayOf

\* A window starts in the day of every row it holds.
LEMMA WindowWithinDay ==
  ASSUME NEW t \in Nat
  PROVE  /\ DayOf(WindowOf(t)) = DayOf(t)
         /\ DayOf(t) <= WindowOf(t)
<1> DEFINE k == Day \div Window
           q == t \div Day
           r == t % Day
           w == r \div Window
           s == r % Window
           n == k * q + w
<1>1. Day \in Nat \ {0} /\ Window \in Nat \ {0} /\ Day % Window = 0
  BY LayoutAssumption
<1>2. k \in Int /\ Day = Window * k
  BY <1>1, DivMod, SMT
<1>3. q \in Int /\ r \in 0..(Day-1) /\ t = Day * q + r
  BY <1>1, DivMod, SMT
<1>4. w \in Int /\ s \in 0..(Window-1) /\ r = Window * w + s
  BY <1>1, <1>3, DivMod, SMT
<1> HIDE DEF k, q, r, w, s
<1>5. n \in Int /\ t = Window * n + s
  BY <1>1, <1>2, <1>3, <1>4, Z3
<1> HIDE DEF n
<1>6. t % Window = s
  BY <1>1, <1>4, <1>5, ModOfSum
<1>7. s <= r
  <2>1. w >= 0
    <3> SUFFICES ASSUME w <= -1 PROVE FALSE
      BY <1>4, SMT
    <3>1. Window * w <= -Window
      BY <1>1, <1>4, Z3
    <3> QED
      BY <3>1, <1>1, <1>3, <1>4, SMT
  <2>2. Window * w >= 0 /\ Window * w \in Int
    BY <2>1, <1>1, <1>4, Z3
  <2> QED
    BY <2>2, <1>1, <1>3, <1>4, SMT
<1>8. r - s \in 0..(Day-1)
  BY <1>1, <1>3, <1>4, <1>7, SMT
<1>9. t - s = Day * q + (r - s)
  <2>1. Day * q \in Int /\ r \in Int /\ s \in Int
    BY <1>1, <1>3, <1>4, Z3
  <2> QED
    BY ONLY <2>1, <1>3, SMT
<1>10. (t - s) % Day = r - s
  <2>1. (Day * q + (r - s)) % Day = r - s
    BY ONLY <1>1, <1>3, <1>8, ModOfSum
  <2> QED
    BY <1>9, <2>1
<1>11. r = t % Day
  BY DEF r
<1>12. WindowOf(t) = t - s /\ DayOf(t) = t - r
  BY <1>6, <1>11 DEF WindowOf, DayOf
<1>13. DayOf(WindowOf(t)) = (t - s) - (r - s)
  BY <1>10, <1>12 DEF DayOf
<1> QED
  BY <1>1, <1>3, <1>4, <1>7, <1>12, <1>13, SMT

\* A day is named by a multiple of its length.
LEMMA DayStarts ==
  ASSUME NEW t \in Int, NEW q \in Int, Day * q <= t, t < Day * q + Day
  PROVE  DayOf(t) = Day * q
<1>1. Day \in Nat \ {0} /\ Day * q \in Int
  BY LayoutAssumption
<1>2. t - Day * q \in 0..(Day - 1) /\ t = Day * q + (t - Day * q)
  BY <1>1
<1>3. t % Day = t - Day * q
  BY <1>1, <1>2, ModOfSum
<1> QED
  BY <1>1, <1>3 DEF DayOf

\* Later times are in later windows, or in the same one.
LEMMA WindowOrder ==
  ASSUME NEW t \in Int, NEW u \in Int, t <= u
  PROVE  WindowOf(t) <= WindowOf(u)
<1> DEFINE a == t \div Window
           c == u \div Window
<1>1. /\ Window \in Nat \ {0}
      /\ a \in Int /\ c \in Int
      /\ WindowOf(t) = Window * a /\ WindowOf(u) = Window * c
  BY LayoutAssumption, DivMod, SMT DEF WindowOf
<1> HIDE DEF a, c
<1>2. CASE a <= c
  BY <1>1, <1>2, Z3
<1>3. CASE c + 1 <= a
  <2>1. Window * (c + 1) <= Window * a /\ Window * (c + 1) = Window * c + Window
    BY <1>1, <1>3, Z3
  <2>2. WindowOf(u) + Window <= t
    BY <1>1, <2>1, WindowBounds
  <2> QED
    BY <1>1, <2>2, WindowBounds
<1> QED
  BY <1>1, <1>2, <1>3

\* Within its first two days a sweep reads every row there is.
LEMMA NothingTooOld ==
  ASSUME NEW t \in Nat, NEW sweep \in Nat, t <= sweep, sweep < 2 * Day
  PROVE  InLookback(t, sweep)
<1>1. Day \in Nat \ {0}
  BY LayoutAssumption
<1>2. \A u \in 0..(Day - 1) : DayOf(u) = 0
  <2> SUFFICES ASSUME NEW u \in 0..(Day - 1) PROVE DayOf(u) = 0
    OBVIOUS
  <2>1. u \in Int /\ 0 \in Int /\ Day * 0 = 0 /\ 0 <= u /\ u < 0 + Day
    BY <1>1
  <2> QED
    BY ONLY <2>1, DayStarts
<1>3. \A u \in Day..(2 * Day - 1) : DayOf(u) = Day
  <2> SUFFICES ASSUME NEW u \in Day..(2 * Day - 1) PROVE DayOf(u) = Day
    OBVIOUS
  <2>1. u \in Int /\ 1 \in Int /\ Day * 1 = Day /\ Day <= u /\ u < Day + Day
    BY <1>1
  <2> QED
    BY ONLY <2>1, DayStarts
<1>4. CASE sweep < Day
  <2>1. t \in 0..(Day - 1) /\ sweep \in 0..(Day - 1)
    BY <1>1, <1>4
  <2> QED
    BY <1>2, <2>1 DEF InLookback
<1>5. CASE Day <= sweep
  <2>1. sweep \in Day..(2 * Day - 1) /\ sweep - Day \in 0..(Day - 1)
    BY <1>1, <1>5
  <2>2. t \in 0..(Day - 1) \/ t \in Day..(2 * Day - 1)
    BY <1>1, <2>1
  <2> QED
    BY <1>2, <1>3, <2>1, <2>2 DEF InLookback
<1> QED
  BY <1>1, <1>4, <1>5

-----------------------------------------------------------------------------
(* Polls.                                                                  *)

\* The fields of a row, and where in time and on disk it belongs.
LEMMA RowParts ==
  ASSUME NEW r \in Row
  PROVE  /\ r.feed \in Feeds
         /\ r.ts \in Nat
         /\ r.payload \in BOOLEAN
         /\ r.digest \in Digests \cup {NoDigest}
         /\ r.payload => r.digest \in Digests
         /\ WindowOf(r.ts) \in Int
         /\ DayOf(r.ts) \in Int
         /\ DayFile(r) \in [feed : Feeds, day : Int]
<1>1. /\ r.feed \in Feeds
      /\ r.ts \in Nat
      /\ r.payload \in BOOLEAN
      /\ r.digest \in Digests \cup {NoDigest}
      /\ r.payload => r.digest \in Digests
  BY DEF Row, PayloadRow, BareRow
<1>2. WindowOf(r.ts) \in Int /\ DayOf(r.ts) \in Int
  BY <1>1, WindowBounds, DayBounds
<1> QED
  BY <1>1, <1>2 DEF DayFile

\* What archive_one stamps is a row, with or without a payload.
LEMMA StampedTypes ==
  ASSUME NEW f \in Feeds, now \in Nat
  PROVE  /\ \A d \in Digests : Stamped(f, d, TRUE) \in PayloadRow
         /\ \A d \in Digests \cup {NoDigest} : Stamped(f, d, FALSE) \in BareRow
BY DEF Stamped, PayloadRow, BareRow

-----------------------------------------------------------------------------
(* Types.                                                                  *)

\* One step of archive_one, of the writer, of the process or of the clock.
LEMMA PollTypePreserved ==
  ASSUME PollTypeOK, PollNext
  PROVE  PollTypeOK'
<1> USE DEF PollTypeOK, memory, disk
<1>1. ASSUME NEW f \in Feeds, NEW d \in Digests, NewContent(f, d)
      PROVE  PollTypeOK'
  <2>1. Stamped(f, d, TRUE) \in PayloadRow
    BY StampedTypes
  <2>2. polls' \in 0..MaxPolls
    BY <1>1, PollAssumption DEF NewContent, Poll
  <2> QED
    BY <1>1, <2>1, <2>2 DEF NewContent, Poll
<1>2. ASSUME NEW f \in Feeds, NEW d \in Digests, SetStateFails(f, d)
      PROVE  PollTypeOK'
  BY <1>2, PollAssumption DEF SetStateFails, Poll, Fault
<1>3. ASSUME NEW f \in Feeds, NEW d \in Digests, OddContent(f, d)
      PROVE  PollTypeOK'
  <2>1. Stamped(f, d, TRUE) \in PayloadRow
    BY StampedTypes
  <2>2. polls' \in 0..MaxPolls
    BY <1>3, PollAssumption DEF OddContent, Poll
  <2> QED
    BY <1>3, <2>1, <2>2 DEF OddContent, Poll
<1>4. ASSUME NEW f \in Feeds, Unchanged(f)
      PROVE  PollTypeOK'
  <2>1. Stamped(f, store[f], FALSE) \in BareRow
    BY StampedTypes
  <2>2. polls' \in 0..MaxPolls
    BY <1>4, PollAssumption DEF Unchanged, Poll
  <2> QED
    BY <1>4, <2>1, <2>2 DEF Unchanged, Poll, Row
<1>5. ASSUME NEW f \in Feeds, Refused(f)
      PROVE  PollTypeOK'
  <2>1. Stamped(f, NoDigest, FALSE) \in BareRow
    BY StampedTypes
  <2>2. polls' \in 0..MaxPolls
    BY <1>5, PollAssumption DEF Refused, Poll
  <2> QED
    BY <1>5, <2>1, <2>2 DEF Refused, Poll, Row
<1>6. ASSUME NEW r \in binTodo, WriteBin(r)
      PROVE  PollTypeOK'
  <2>1. r \in PayloadRow /\ r \in Row
    BY DEF Row
  <2>2. Bin(r.feed, r.ts, r.digest) \in BinFile
    BY <2>1, RowParts DEF Bin, BinFile, PayloadRow
  <2> QED
    BY <1>6, <2>1, <2>2 DEF WriteBin
<1>7. ASSUME NEW r \in binTodo, WriteBinFails(r)
      PROVE  PollTypeOK'
  BY <1>7, PollAssumption DEF WriteBinFails, Fault
<1>8. ASSUME NEW r \in rowTodo, AppendRow(r)
      PROVE  PollTypeOK'
  BY <1>8 DEF AppendRow
<1>9. ASSUME NEW r \in rowTodo, AppendRowFails(r)
      PROVE  PollTypeOK'
  <2>1. DayFile(r) \in [feed : Feeds, day : Int]
    BY RowParts
  <2>2. torn' \in SUBSET [feed : Feeds, day : Int]
    BY <2>1, <1>9 DEF AppendRowFails
  <2> QED
    BY <1>9, <2>2, PollAssumption DEF AppendRowFails, Fault
<1>10. CASE Signal
  BY <1>10, PollAssumption DEF Signal, Fault, Phases
<1>11. CASE Gathered
  BY <1>11 DEF Gathered, Phases
<1>12. CASE Tick
  BY <1>12 DEF Tick
<1>13. CASE PollCrash
  <2>1. \A r \in rowTodo : DayFile(r) \in [feed : Feeds, day : Int]
    BY RowParts
  <2>2. torn' \in SUBSET [feed : Feeds, day : Int]
    BY <1>13, <2>1 DEF PollCrash
  <2>3. faults' \in 0..MaxFaults
    BY <1>13, PollAssumption DEF PollCrash, Fault
  <2> QED
    BY <1>13, <2>2, <2>3 DEF PollCrash, Phases
<1>14. CASE PollBoot
  BY <1>14 DEF PollBoot, Phases
<1>15. CASE Exit
  BY <1>15 DEF Exit, Phases
<1> QED
  BY <1>1, <1>2, <1>3, <1>4, <1>5, <1>6, <1>7, <1>8, <1>9, <1>10, <1>11, <1>12,
     <1>13, <1>14, <1>15 DEF PollNext, Respond, Write

\* The types of PollWriter are kept by every step of a poll, of the process
\* and of the clock.
THEOREM PollTypeCorrect == PollSpec => []PollTypeOK
<1>1. PollInit => PollTypeOK
  BY PollAssumption DEF PollInit, PollTypeOK, Phases
<1>2. PollTypeOK /\ [PollNext]_pollVars => PollTypeOK'
  <2> SUFFICES ASSUME PollTypeOK, [PollNext]_pollVars PROVE PollTypeOK'
    OBVIOUS
  <2>1. CASE PollNext
    BY <2>1, PollTypePreserved
  <2>2. CASE UNCHANGED pollVars
    BY <2>2 DEF pollVars, memory, disk, PollTypeOK
  <2> QED
    BY <2>1, <2>2
<1> QED
  BY <1>1, <1>2, PTL DEF PollSpec

-----------------------------------------------------------------------------
(* Payload before row (ContentAddressedWriter._write_sync).                *)

\* No step of PollNext removes a payload, and only WriteBin, once its payload
\* is in place, hands a row that announces one to the append.
LEMMA PayloadsStayAhead ==
  ASSUME PollNext
  PROVE  /\ bins \subseteq bins'
         /\ \A r \in (rows' \cup rowTodo') \ (rows \cup rowTodo) :
              r.payload => Bin(r.feed, r.ts, r.digest) \in bins'
<1> USE DEF memory, disk
<1>1. CASE Respond
  BY <1>1 DEF Respond, NewContent, SetStateFails, OddContent, Unchanged, Refused,
              Poll, Stamped
<1>2. CASE Write
  <2>1. ASSUME NEW r \in binTodo, WriteBin(r) \/ WriteBinFails(r)
        PROVE  /\ bins \subseteq bins'
               /\ \A q \in (rows' \cup rowTodo') \ (rows \cup rowTodo) :
                    q.payload => Bin(q.feed, q.ts, q.digest) \in bins'
    BY <2>1 DEF WriteBin, WriteBinFails
  <2>2. ASSUME NEW r \in rowTodo, AppendRow(r) \/ AppendRowFails(r)
        PROVE  bins' = bins /\ rows' \cup rowTodo' \subseteq rows \cup rowTodo
    BY <2>2 DEF AppendRow, AppendRowFails
  <2> QED
    BY <1>2, <2>1, <2>2 DEF Write
<1>3. CASE Signal \/ Gathered \/ PollCrash \/ PollBoot \/ Tick \/ Exit
  BY <1>3 DEF Signal, Gathered, PollCrash, PollBoot, Tick, Exit
<1> QED
  BY <1>1, <1>2, <1>3 DEF PollNext

\* Whatever fails or crashes between the two writes of a response, and however
\* the writes of all feeds interleave, a row that announces a payload is never
\* on disk without it.
THEOREM PayloadFirst == PollSpec => []AnnouncedPayloadOnDisk
<1>1. PollInit => AnnouncedPayloadOnDisk
  BY DEF PollInit, AnnouncedPayloadOnDisk
<1>2. AnnouncedPayloadOnDisk /\ [PollNext]_pollVars => AnnouncedPayloadOnDisk'
  <2> SUFFICES ASSUME AnnouncedPayloadOnDisk, [PollNext]_pollVars
               PROVE  AnnouncedPayloadOnDisk'
    OBVIOUS
  <2>1. CASE PollNext
    BY <2>1, PayloadsStayAhead DEF AnnouncedPayloadOnDisk
  <2>2. CASE UNCHANGED pollVars
    BY <2>2 DEF pollVars, memory, disk, AnnouncedPayloadOnDisk
  <2> QED
    BY <2>1, <2>2
<1> QED
  BY <1>1, <1>2, PTL DEF PollSpec

-----------------------------------------------------------------------------
(* Deduplication against the poll state (archive_one).                     *)

\* A process that has not failed has not been restarted either.
NeverDown == faults = 0 => proc = "running"

BackedInv == PollTypeOK /\ NeverDown /\ StateIsBacked

\* A step that does not fail sets a feed's poll state only together with the
\* payload to be written, which stays until it is on disk.
LEMMA BackedStep ==
  ASSUME BackedInv, PollNext
  PROVE  NeverDown' /\ StateIsBacked'
<1> USE DEF memory, disk
<1>0. faults \in Nat /\ MaxFaults \in Nat
  BY PollAssumption DEF BackedInv, PollTypeOK
<1>1. Fault => faults' # 0
  BY <1>0 DEF Fault
<1>2. CASE Respond
  <2>1. faults' = 0 => faults = 0 /\ \A f \in Feeds : ~\E d \in Digests : SetStateFails(f, d)
    BY <1>1, <1>2 DEF Respond, SetStateFails, NewContent, OddContent, Unchanged, Refused
  <2>2. NeverDown'
    BY <1>2, <2>1 DEF BackedInv, NeverDown, Respond, SetStateFails, NewContent,
                      OddContent, Unchanged, Refused, Poll
  <2>3. ASSUME faults' = 0, NEW f \in Feeds, store'[f] # NoDigest
        PROVE  \/ \E b \in bins' : b.feed = f /\ b.digest = store'[f]
               \/ \E r \in binTodo' : r.feed = f /\ r.digest = store'[f]
    <3>1. bins' = bins /\ binTodo \subseteq binTodo'
      BY <1>2 DEF Respond, SetStateFails, NewContent, OddContent, Unchanged, Refused, Poll
    <3>2. CASE store'[f] = store[f]
      BY <2>1, <2>3, <3>1, <3>2 DEF BackedInv, StateIsBacked
    <3>3. CASE store'[f] # store[f]
      <4>1. PICK g \in Feeds, d \in Digests : NewContent(g, d)
        BY <1>2, <2>1, <2>3, <3>3 DEF Respond, OddContent, Unchanged, Refused
      <4>2. g = f /\ store'[f] = d
        BY <4>1, <3>3 DEF NewContent, BackedInv, PollTypeOK
      <4>3. Stamped(f, d, TRUE) \in binTodo'
        BY <4>1, <4>2 DEF NewContent
      <4> QED
        BY <4>2, <4>3 DEF Stamped
    <3> QED
      BY <3>2, <3>3
  <2> QED
    BY <2>2, <2>3 DEF StateIsBacked
<1>3. CASE Write
  <2>1. proc' = proc /\ store' = store /\ bins \subseteq bins' /\ (faults' = 0 => faults = 0)
    BY <1>1, <1>3 DEF Write, WriteBin, WriteBinFails, AppendRow, AppendRowFails
  <2>2. ASSUME faults' = 0, NEW r \in binTodo, r \notin binTodo'
        PROVE  \E b \in bins' : b.feed = r.feed /\ b.digest = r.digest
    <3>1. WriteBin(r)
      BY <1>1, <1>3, <2>2 DEF Write, WriteBin, WriteBinFails, AppendRow, AppendRowFails
    <3>2. Bin(r.feed, r.ts, r.digest) \in bins'
      BY <3>1 DEF WriteBin
    <3> QED
      BY <3>2 DEF Bin
  <2> QED
    BY <2>1, <2>2 DEF BackedInv, NeverDown, StateIsBacked
<1>4. CASE Signal \/ PollCrash
  BY <1>1, <1>4 DEF Signal, PollCrash, NeverDown, StateIsBacked
<1>5. CASE Gathered \/ PollBoot \/ Exit
  BY <1>5 DEF Gathered, PollBoot, Exit, BackedInv, NeverDown, StateIsBacked
<1>6. CASE Tick
  BY <1>6 DEF Tick, BackedInv, NeverDown, StateIsBacked
<1> QED
  BY <1>2, <1>3, <1>4, <1>5, <1>6 DEF PollNext

\* As long as nothing has failed, a poll that is answered "unchanged" is
\* collapsed against a payload that is on disk or about to be.
THEOREM StateBacked == PollSpec => []StateIsBacked
<1>1. PollInit => NeverDown /\ StateIsBacked
  BY DEF PollInit, NeverDown, StateIsBacked
<1>2. PollTypeOK /\ NeverDown /\ StateIsBacked /\ [PollNext]_pollVars
        => NeverDown' /\ StateIsBacked'
  <2> SUFFICES ASSUME BackedInv, [PollNext]_pollVars PROVE NeverDown' /\ StateIsBacked'
    BY DEF BackedInv
  <2>1. CASE PollNext
    BY <2>1, BackedStep
  <2>2. CASE UNCHANGED pollVars
    BY <2>2 DEF pollVars, memory, disk, BackedInv, NeverDown, StateIsBacked
  <2> QED
    BY <2>1, <2>2
<1> QED
  BY <1>1, <1>2, PollTypeCorrect, PTL DEF PollSpec

-----------------------------------------------------------------------------
(* The landing uploader, composed with the poller.                         *)

\* The fields of a metadata row, and where it is filed.
LEMMA RowTypes ==
  ASSUME NEW r \in Row
  PROVE  /\ r.feed \in Feeds
         /\ r.ts \in Nat
         /\ r.payload \in BOOLEAN
         /\ r.digest \in Digests \cup {NoDigest}
         /\ r.payload => r.digest \in Digests
         /\ WindowOf(r.ts) \in Int
         /\ DayOf(r.ts) \in Int
         /\ Slot(r) \in SlotType
         /\ DayFile(r) \in [feed : Feeds, day : Int]
BY RowParts DEF Slot, SlotType

\* The slots of rows are slots.
LEMMA SlotsType ==
  ASSUME NEW R \in SUBSET Row
  PROVE  Slots(R) \in SUBSET SlotType
BY RowTypes DEF Slots

-----------------------------------------------------------------------------

(* Types.                                                                  *)

\* A fault is counted and stays within its bound.
LEMMA FaultCount ==
  ASSUME PollTypeOK, Fault
  PROVE  faults' \in 0..MaxFaults
BY PollAssumption DEF PollTypeOK, Fault

\* The uploader changes the poller's part only in the payload files it
\* removes, the process phase and the count of failures.
LEMMA PollTypeKept ==
  ASSUME PollTypeOK,
         UNCHANGED <<now, store, saved, binTodo, rowTodo, rows, torn, polls>>,
         bins' \subseteq bins,
         proc' \in Phases,
         faults' \in 0..MaxFaults
  PROVE  PollTypeOK'
BY DEF PollTypeOK

\* The steps of the uploader beside the poller's.
Uploading == Scan \/ RawSweep \/ Joined \/ JoinTimesOut \/ Crash \/ Boot

\* The uploader's steps keep the poller well-typed.
LEMMA PollTypeUploading ==
  ASSUME PollTypeOK, Uploading
  PROVE  PollTypeOK'
<1> USE DEF pollerButBins, pollVars, memory, disk
<1>0. faults \in 0..MaxFaults /\ proc \in Phases
  BY DEF PollTypeOK
<1>1. ASSUME Scan
      PROVE  PollTypeOK'
  <2>1. /\ UNCHANGED <<now, store, saved, binTodo, rowTodo, rows, torn, polls>>
        /\ bins' = bins
        /\ proc' \in {proc, "down"}
        /\ faults' = faults \/ Fault
    BY <1>1 DEF Scan, Wake, UploadSlice, UploadSliceFails, UnlinkSlice,
                UnlinkSliceFails, ScanOver, pollerButBins
  <2> QED
    BY <1>0, <2>1, FaultCount, PollTypeKept DEF Phases
<1>2. ASSUME RawSweep
      PROVE  PollTypeOK'
  <2>1. /\ UNCHANGED <<now, store, saved, binTodo, rowTodo, rows, torn, polls>>
        /\ bins' \subseteq bins
        /\ proc' = proc
        /\ faults' = faults \/ Fault
    BY <1>2 DEF RawSweep, NotDue, Due, ReadReady, ReadBreaks, Pick, PickOver, UploadTar,
                Materialize, Mark, HandOffFails, UnlinkBin, UnlinkBinFails,
                HandedOff, pollerButBins
  <2> QED
    BY <1>0, <2>1, FaultCount, PollTypeKept
<1>3. CASE Joined
  BY <1>0, <1>3, PollTypeKept DEF Joined, Phases
<1>4. CASE JoinTimesOut
  BY <1>0, <1>4, PollTypeKept DEF JoinTimesOut, Phases
<1>5. ASSUME Crash
      PROVE  PollTypeOK'
  <2>1. torn' \in SUBSET [feed : Feeds, day : Int]
    <3>1. PICK cut \in SUBSET rowTodo :
            torn' = torn \cup {DayFile(r) : r \in cut}
      BY <1>5 DEF Crash, PollCrash
    <3>2. {DayFile(r) : r \in cut} \in SUBSET [feed : Feeds, day : Int]
      BY RowTypes DEF PollTypeOK
    <3> QED
      BY <3>1, <3>2 DEF PollTypeOK
  <2>2. faults' \in 0..MaxFaults
    BY <1>5, FaultCount DEF Crash, PollCrash
  <2> QED
    BY <1>5, <2>1, <2>2 DEF Crash, PollCrash, PollTypeOK, Phases
<1>6. CASE Boot
  BY <1>6 DEF Boot, PollBoot, PollTypeOK, Phases
<1> QED
  BY <1>1, <1>2, <1>3, <1>4, <1>5, <1>6 DEF Uploading

\* Type correctness of the poller with its uploader, by induction: the types
\* are inductive on their own.
THEOREM TypeCorrect == Spec => []UploaderTypeOK
<1>1. Init => UploaderTypeOK
  BY PollAssumption
     DEF Init, PollInit, WorkerInit, UploaderTypeOK, PollTypeOK, Labels, Phases
<1>2. UploaderTypeOK /\ [Next]_vars => UploaderTypeOK'
  <2> SUFFICES ASSUME UploaderTypeOK, [Next]_vars
               PROVE  UploaderTypeOK'
    OBVIOUS
  <2> USE DEF UploaderTypeOK
  <2>1. CASE Poller
    BY <2>1, PollTypePreserved DEF Poller, PollNext, s3, landing, worker
  <2>2. CASE Uploading
    <3>1. PollTypeOK'
      BY <2>2, PollTypeUploading
    <3>2. Scan => UploaderTypeOK'
      BY <3>1, SlotsType
         DEF Scan, Wake, UploadSlice, UploadSliceFails, UnlinkSlice,
             UnlinkSliceFails, ScanOver, s3, landing, Goto, OfSlot, Labels
    <3>3. ASSUME RawSweep
          PROVE  UploaderTypeOK'
      <4> USE DEF s3, landing, Goto, Labels
      <4>1. CASE NotDue
        BY <3>1, <4>1 DEF NotDue
      <4>2. CASE Due
        <5>1. nextDue' \in Nat /\ scanTime' \in Nat
          BY <4>2, LayoutAssumption, PollAssumption DEF Due, PollTypeOK
        <5> QED
          BY <3>1, <4>2, <5>1 DEF Due
      <4>3. CASE ReadReady
        BY <3>1, <4>3 DEF ReadReady, Pruned, ClosedRows, PollTypeOK
      <4>13. CASE ReadBreaks
        <5>1. PICK kept \in ReadInPart :
                /\ ready' = {r \in kept : Slot(r) \notin markers'}
                /\ short' = short \cup (Slots(ready') \cap Slots(ClosedRows \ kept))
          BY <4>13 DEF ReadBreaks
        <5>2. ready' \in SUBSET Row
          BY <5>1 DEF ReadInPart, ClosedRows, PollTypeOK
        <5>3. Slots(ready') \in SUBSET SlotType
          BY <5>2, SlotsType
        <5>4. short' \in SUBSET SlotType
          BY <5>1, <5>3
        <5>5. markers' \in SUBSET SlotType
          BY <4>13 DEF ReadBreaks, Pruned
        <5> QED
          BY <3>1, <4>13, <5>2, <5>4, <5>5 DEF ReadBreaks
      <4>4. ASSUME NEW s \in Slots(ready), Pick(s)
            PROVE  UploaderTypeOK'
        BY <3>1, <4>4 DEF Pick, OfSlot, FilesOf, PollTypeOK
      <4>5. CASE PickOver
        BY <3>1, <4>5, SlotsType DEF PickOver, RawSweepOver
      <4>6. CASE UploadTar
        BY <3>1, <4>6 DEF UploadTar
      <4>7. CASE Materialize
        BY <3>1, <4>7 DEF Materialize, Outside
      <4>8. CASE Mark
        BY <3>1, <4>8, SlotsType DEF Mark
      <4>9. CASE HandOffFails
        BY <3>1, <4>9 DEF HandOffFails
      <4>10. ASSUME NEW b \in present, UnlinkBin(b)
             PROVE  UploaderTypeOK'
        BY <3>1, <4>10 DEF UnlinkBin
      <4>11. CASE UnlinkBinFails
        BY <3>1, <4>11, SlotsType DEF UnlinkBinFails, RawSweepOver
      <4>12. CASE HandedOff
        BY <3>1, <4>12 DEF HandedOff
      <4> QED
        BY <3>3, <4>1, <4>2, <4>3, <4>4, <4>5, <4>6, <4>7, <4>8, <4>9, <4>10,
           <4>11, <4>12, <4>13 DEF RawSweep
    <3>5. Joined => UploaderTypeOK'
      BY <3>1 DEF Joined, s3, landing, Goto, Labels
    <3>6. WorkerReset /\ UNCHANGED <<s3, landing>> => UploaderTypeOK'
      BY <3>1 DEF WorkerReset, s3, landing, Labels
    <3> QED
      BY <2>2, <3>2, <3>3, <3>5, <3>6
         DEF Uploading, JoinTimesOut, Crash, Boot
  <2>3. CASE UNCHANGED vars
    BY <2>3 DEF vars, pollVars, memory, disk, s3, landing, worker, PollTypeOK
  <2> QED
    BY <2>1, <2>2, <2>3 DEF Next, Uploading
<1> QED
  BY <1>1, <1>2, PTL DEF Spec

-----------------------------------------------------------------------------
(* What no step takes back.                                                *)

\* Failures are counted and never forgotten.
LEMMA FaultsStay ==
  ASSUME UploaderTypeOK, [Next]_vars, faults' = 0
  PROVE  faults = 0 /\ ~Fault
<1>1. faults \in Nat
  BY PollAssumption DEF UploaderTypeOK, PollTypeOK
<1>2. Fault => faults' # 0
  BY <1>1 DEF Fault
<1>3. faults' = faults \/ Fault
  BY DEF Next, Poller, Respond, NewContent, SetStateFails, OddContent, Unchanged,
         Refused, Poll, Write, WriteBin, WriteBinFails, AppendRow, AppendRowFails,
         Signal, Gathered, Tick, Scan, Wake, UploadSlice, UploadSliceFails,
         UnlinkSlice, UnlinkSliceFails, ScanOver, RawSweep, NotDue, Due, ReadReady,
         ReadBreaks, Pick, PickOver, UploadTar, Materialize, Mark, HandOffFails,
         UnlinkBin, UnlinkBinFails, HandedOff, Joined, JoinTimesOut, Crash, PollCrash,
         Boot, PollBoot, pollVars, pollerButBins, vars
<1> QED
  BY <1>1, <1>2, <1>3

\* A window stays cut short, and only a broken read cuts one short.
LEMMA ShortGrows ==
  ASSUME UploaderTypeOK, [Next]_vars
  PROVE  short \subseteq short' /\ (ReadBreaks \/ UNCHANGED short)
<1>1. ReadBreaks => short \subseteq short'
  BY DEF ReadBreaks
<1>2. ReadBreaks \/ UNCHANGED short
  BY DEF Next, Poller, Scan, Wake, UploadSlice, UploadSliceFails, UnlinkSlice,
         UnlinkSliceFails, ScanOver, RawSweep, NotDue, Due, ReadReady, Pick, PickOver,
         UploadTar, Materialize, Mark, HandOffFails, UnlinkBin, UnlinkBinFails,
         HandedOff, Joined, JoinTimesOut, Crash, Boot, landing, vars
<1> QED
  BY <1>1, <1>2

\* The poller only ever appends to its metadata, and no other step touches it.
LEMMA RowsGrow ==
  ASSUME UploaderTypeOK, [Next]_vars
  PROVE  rows \subseteq rows' /\ CutShort \subseteq CutShort'
<1>1. rows \subseteq rows'
  BY DEF Next, Poller, Respond, NewContent, SetStateFails, OddContent, Unchanged,
         Refused, Poll, Write, WriteBin, WriteBinFails, AppendRow, AppendRowFails,
         Signal, Gathered, Tick, Scan, Wake, UploadSlice, UploadSliceFails,
         UnlinkSlice, UnlinkSliceFails, ScanOver, RawSweep, NotDue, Due, ReadReady,
         ReadBreaks, Pick, PickOver, UploadTar, Materialize, Mark, HandOffFails,
         UnlinkBin, UnlinkBinFails, HandedOff, Joined, JoinTimesOut, Crash, PollCrash,
         Boot, PollBoot, disk, pollVars, pollerButBins, vars
<1>2. short \subseteq short'
  BY ShortGrows
<1> QED
  BY <1>1, <1>2 DEF CutShort, Slot

-----------------------------------------------------------------------------
(* Payloads before metadata.                                               *)

PayloadOf(r) == Bin(r.feed, r.ts, r.digest)

InS3(R) == \A r \in R : r.payload => PayloadOf(r) \in s3raw

\* RawBeforeMetadata is not inductive: that a window without payload files
\* may be materialized rests on each of its payloads being on disk or in S3,
\* and on the files found at Pick being those of the window's rows.
WrittenInv ==
  \A r \in rows \cup rowTodo :
    r.payload => PayloadOf(r) \in bins \cup s3raw

BatchInv ==
  /\ ready \cup batch \subseteq rows
  /\ pc = "upload" =>
       /\ present \subseteq bins
       /\ \A r \in batch : r.payload => PayloadOf(r) \in present \cup s3raw
  /\ pc \in {"materialize", "mark", "unlinkBins"} =>
       /\ present \subseteq s3raw
       /\ InS3(batch)

PayloadInv ==
  /\ WrittenInv
  /\ BatchInv
  /\ InS3(slices \cup s3meta)

\* The poller's steps only add files, rows and, in flight, rows of payloads
\* that have just been written.
LEMMA PollerKeepsWritten ==
  ASSUME PollTypeOK, Poller, WrittenInv
  PROVE  WrittenInv' /\ bins \subseteq bins' /\ rows \subseteq rows'
<1> USE DEF WrittenInv, memory, disk, s3
<1>0. UNCHANGED s3raw
  BY DEF Poller
<1>1. ASSUME Respond
      PROVE  /\ \A r \in rowTodo' : r \in rowTodo \/ ~r.payload
             /\ UNCHANGED <<bins, rows>>
  BY <1>1 DEF Respond, NewContent, SetStateFails, OddContent, Unchanged,
              Refused, Poll, Stamped
<1>2. ASSUME NEW r \in binTodo, WriteBin(r)
      PROVE  WrittenInv' /\ bins \subseteq bins' /\ rows \subseteq rows'
  BY <1>0, <1>2 DEF WriteBin, PayloadOf, Bin
<1>3. ASSUME NEW r \in rowTodo, AppendRow(r)
      PROVE  WrittenInv' /\ bins \subseteq bins' /\ rows \subseteq rows'
  BY <1>0, <1>3 DEF AppendRow, PayloadOf, Bin
<1>4. ASSUME \/ \E r \in binTodo : WriteBinFails(r)
             \/ \E r \in rowTodo : AppendRowFails(r)
             \/ Signal \/ Gathered \/ Tick
      PROVE  rowTodo' \subseteq rowTodo /\ UNCHANGED <<bins, rows>>
  BY <1>4 DEF WriteBinFails, AppendRowFails, Signal, Gathered, Tick
<1>5. CASE Respond
  BY <1>0, <1>1, <1>5 DEF PayloadOf, Bin
<1>6. CASE \/ \E r \in binTodo : WriteBinFails(r)
           \/ \E r \in rowTodo : AppendRowFails(r)
           \/ Signal \/ Gathered \/ Tick
  BY <1>0, <1>4, <1>6 DEF PayloadOf, Bin
<1> QED
  BY <1>2, <1>3, <1>5, <1>6 DEF Poller, Write

\* Pick finds on disk every payload of the window that is not in S3.
LEMMA PickFindsPayloads ==
  ASSUME UploaderTypeOK, WrittenInv, ready \subseteq rows,
         NEW s \in Slots(ready), NEW r \in OfSlot(ready, s), r.payload
  PROVE  PayloadOf(r) \in FilesOf(s) \cup s3raw
<1>1. r \in Row /\ r \in rows /\ Slot(r) = s
  BY DEF OfSlot, UploaderTypeOK, PollTypeOK
<1>2. r.digest \in Digests /\ r.digest # NoDigest /\ r.ts \in Nat
  BY <1>1, RowTypes, PollAssumption
<1>3. PayloadOf(r) = Bin(s.feed, s.window, r.digest)
  BY <1>1, <1>2, WindowWithinDay DEF PayloadOf, Bin, Slot
<1>4. PayloadOf(r) \in bins \cup s3raw
  BY <1>1 DEF WrittenInv
<1> QED
  BY <1>2, <1>3, <1>4 DEF FilesOf

\* Every step of poller, uploader, crash and restart keeps the tar ahead of the slice.
LEMMA PayloadInvStep ==
  ASSUME UploaderTypeOK, PayloadInv, [Next]_vars
  PROVE  PayloadInv'
<1> USE DEF PayloadInv, InS3
<1>1. CASE Poller
  <2>1. WrittenInv' /\ bins \subseteq bins' /\ rows \subseteq rows'
    BY <1>1, PollerKeepsWritten DEF UploaderTypeOK
  <2>2. UNCHANGED <<s3, landing, worker>>
    BY <1>1 DEF Poller
  <2> QED
    BY <2>1, <2>2 DEF BatchInv, s3, landing, worker, PayloadOf, Bin
<1>2. CASE Scan
  <2>1. UNCHANGED <<bins, rows, rowTodo, s3raw, ready, batch, present>>
    BY <1>2 DEF Scan, Wake, UploadSlice, UploadSliceFails, UnlinkSlice,
                UnlinkSliceFails, ScanOver, pollVars, pollerButBins, memory,
                disk, s3
  <2>2. pc' \notin {"upload", "materialize", "mark", "unlinkBins"}
    BY <1>2 DEF Scan, Wake, UploadSlice, UploadSliceFails, UnlinkSlice,
                UnlinkSliceFails, ScanOver, At, Goto
  <2>3. (slices \cup s3meta)' \subseteq slices \cup s3meta
    BY <1>2 DEF Scan, Wake, UploadSlice, UploadSliceFails, UnlinkSlice,
                UnlinkSliceFails, ScanOver, s3, landing, OfSlot
  <2>4. WrittenInv'
    BY <2>1 DEF WrittenInv, PayloadOf, Bin
  <2>5. BatchInv'
    BY <2>1, <2>2 DEF BatchInv
  <2> QED
    BY <2>1, <2>3, <2>4, <2>5 DEF PayloadOf, Bin
<1>3. ASSUME RawSweep
      PROVE  PayloadInv'
  <2> USE DEF At, Goto, pollVars, pollerButBins, memory, disk, s3, landing,
              WrittenInv, BatchInv
  <2>1. CASE NotDue \/ Due
    BY <2>1 DEF NotDue, Due, PayloadOf, Bin
  <2>2. CASE ReadReady \/ ReadBreaks
    <3>1. /\ UNCHANGED <<bins, rows, rowTodo, s3raw, s3meta, slices, batch, present>>
          /\ ready' \subseteq rows
          /\ pc = "read" /\ pc' = "pick"
      BY <2>2 DEF ReadReady, ReadBreaks, ReadInPart, ClosedRows
    <3> QED
      BY <3>1 DEF PayloadOf, Bin
  <2>3. ASSUME NEW s \in Slots(ready), Pick(s)
        PROVE  PayloadInv'
    <3>1. /\ UNCHANGED <<bins, rows, rowTodo, s3raw, s3meta, slices>>
          /\ batch' = OfSlot(ready, s)
          /\ ready' \cup batch' \subseteq rows
          /\ present' = FilesOf(s)
          /\ FilesOf(s) \subseteq bins
      BY <2>3 DEF Pick, OfSlot, FilesOf
    <3>2. \A r \in batch' : r.payload => PayloadOf(r) \in FilesOf(s) \cup s3raw
      BY <3>1, PickFindsPayloads
    <3>3. \/ pc' = "upload"
          \/ pc' = "materialize" /\ FilesOf(s) = {}
      BY <2>3 DEF Pick
    <3>4. WrittenInv' /\ InS3(slices \cup s3meta)'
      BY <3>1 DEF PayloadOf, Bin
    <3>5. BatchInv'
      BY <3>1, <3>2, <3>3 DEF PayloadOf, Bin
    <3> QED
      BY <3>4, <3>5
  <2>4. CASE PickOver
    BY <2>4 DEF PickOver, RawSweepOver, PayloadOf, Bin
  <2>5. CASE UploadTar
    BY <2>5 DEF UploadTar, PayloadOf, Bin
  <2>6. CASE Materialize
    BY <2>6 DEF Materialize, Outside, PayloadOf, Bin
  <2>7. CASE Mark
    BY <2>7 DEF Mark, PayloadOf, Bin
  <2>8. CASE HandOffFails
    BY <2>8 DEF HandOffFails, PayloadOf, Bin
  <2>9. ASSUME NEW b \in present, UnlinkBin(b)
        PROVE  PayloadInv'
    BY <2>9 DEF UnlinkBin, PayloadOf, Bin
  <2>10. CASE UnlinkBinFails
    BY <2>10 DEF UnlinkBinFails, RawSweepOver, PayloadOf, Bin
  <2>11. CASE HandedOff
    BY <2>11 DEF HandedOff, PayloadOf, Bin
  <2> QED
    BY <1>3, <2>1, <2>2, <2>3, <2>4, <2>5, <2>6, <2>7, <2>8, <2>9, <2>10,
       <2>11 DEF RawSweep
<1>4. CASE Joined
  BY <1>4 DEF Joined, Goto, WrittenInv, BatchInv, memory, disk, s3, landing,
              PayloadOf, Bin
<1>5. CASE JoinTimesOut \/ Crash \/ Boot
  <2>1. /\ rowTodo' \subseteq rowTodo
        /\ UNCHANGED <<bins, rows, s3raw, s3meta, slices>>
        /\ WorkerReset
    BY <1>5 DEF JoinTimesOut, Crash, PollCrash, Boot, PollBoot, memory, disk,
                s3, landing
  <2> QED
    BY <2>1 DEF WorkerReset, WrittenInv, BatchInv, PayloadOf, Bin
<1>6. CASE UNCHANGED vars
  BY <1>6 DEF vars, pollVars, memory, disk, s3, landing, worker, WrittenInv,
              BatchInv, PayloadOf, Bin
<1> QED
  BY <1>1, <1>2, <1>3, <1>4, <1>5, <1>6 DEF Next

\* Payload files and tars are in step always.
THEOREM PayloadInvariance == Spec => []PayloadInv
<1>1. Init => PayloadInv
  BY DEF Init, PollInit, WorkerInit, PayloadInv, WrittenInv, BatchInv, InS3
<1>2. UploaderTypeOK /\ PayloadInv /\ [Next]_vars => PayloadInv'
  BY PayloadInvStep
<1> QED
  BY <1>1, <1>2, TypeCorrect, PTL DEF Spec

\* Whatever fails and whenever the process crashes, a row that brought a
\* payload is in a local slice, let alone in S3, only once its payload is in
\* a tar in S3.
THEOREM RawShipsFirst == Spec => []RawBeforeMetadata
<1>1. PayloadInv => RawBeforeMetadata
  BY DEF PayloadInv, InS3, RawBeforeMetadata, PayloadOf
<1> QED
  BY <1>1, PayloadInvariance, PTL

-----------------------------------------------------------------------------
(* The payloads' hand-off implements the abstract one.                     *)

\* Every step of the system hands payloads off, or stutters.
LEMMA PayloadHandoffStep ==
  ASSUME UploaderTypeOK, PayloadInv, [Next]_vars
  PROVE  [PayloadHandoff!Next]_<<bins, s3raw, {}>>
<1> USE DEF memory, disk, s3, landing, pollVars, pollerButBins
<1>1. CASE Poller
  <2>1. bins \subseteq bins' /\ UNCHANGED s3raw
    BY <1>1, PollerKeepsWritten DEF Poller, UploaderTypeOK, PayloadInv
  <2> QED
    BY <2>1 DEF PayloadHandoff!Next, PayloadHandoff!Put
<1>2. CASE UploadTar
  <2>1. s3raw' = s3raw \cup (present \cap bins) /\ UNCHANGED bins
    BY <1>2 DEF UploadTar
  <2> QED
    BY <2>1 DEF PayloadHandoff!Next, PayloadHandoff!Deliver
<1>3. ASSUME NEW b \in present, UnlinkBin(b)
      PROVE  PayloadHandoff!Next
  <2>1. b \in s3raw
    BY <1>3 DEF UnlinkBin, At, PayloadInv, BatchInv
  <2>2. bins' = bins \ {b} /\ UNCHANGED s3raw
    BY <1>3 DEF UnlinkBin
  <2> QED
    BY <2>1, <2>2 DEF PayloadHandoff!Next, PayloadHandoff!Release
<1>4. ASSUME \/ Scan \/ NotDue \/ Due \/ ReadReady \/ ReadBreaks
             \/ \E s \in Slots(ready) : Pick(s)
             \/ PickOver \/ Materialize \/ Mark \/ HandOffFails
             \/ UnlinkBinFails \/ HandedOff \/ Joined \/ JoinTimesOut
             \/ Crash \/ Boot \/ UNCHANGED vars
      PROVE  UNCHANGED <<bins, s3raw>>
  BY <1>4 DEF Scan, Wake, UploadSlice, UploadSliceFails, UnlinkSlice,
              UnlinkSliceFails, ScanOver, NotDue, Due, ReadReady, ReadBreaks, Pick,
              PickOver, Materialize, Mark, HandOffFails, UnlinkBinFails,
              HandedOff, Joined, JoinTimesOut, Crash, PollCrash, Boot,
              PollBoot, vars
<1> QED
  BY <1>1, <1>2, <1>3, <1>4 DEF Next, RawSweep

\* A payload leaves the disk only when a tar in S3 has it, and nothing leaves
\* S3: every step of the poller and the uploader, in any interleaving and with
\* any failure or crash, is a step of the abstract hand-off.
THEOREM PayloadsNeverLost == Spec => PayloadsHandedOff
<1>1. Init => PayloadHandoff!Init
  BY DEF Init, PollInit, PayloadHandoff!Init
<1>2. UploaderTypeOK /\ PayloadInv /\ [Next]_vars
        => [PayloadHandoff!Next]_<<bins, s3raw, {}>>
  BY PayloadHandoffStep
<1> QED
  BY <1>1, <1>2, TypeCorrect, PayloadInvariance, PTL
     DEF Spec, PayloadsHandedOff, PayloadHandoff!Spec, PayloadHandoff!handoff

-----------------------------------------------------------------------------
(* Pruned markers.                                                         *)

\* A window that starts more than two days before the sweep is older than the
\* two days it reads.
LEMMA PrunableIsOutOfSight ==
  ASSUME NEW t \in Nat, NEW sweep \in Nat, WindowOf(t) < sweep - 2 * Day
  PROVE  ~InLookback(t, sweep)
<1>1. Day \in Nat \ {0}
  BY LayoutAssumption
<1>2. sweep \in Int /\ sweep - Day \in Int /\ t \in Int
  BY <1>1
<1>3. DayOf(WindowOf(t)) = DayOf(t) /\ WindowOf(t) \in Int
  BY <1>2, WindowWithinDay, WindowBounds
<1>4. DayOf(t) <= WindowOf(t)
  BY <1>3, DayBounds
<1>5. /\ DayOf(sweep - Day) > sweep - Day - Day
      /\ DayOf(sweep) > sweep - Day
      /\ DayOf(sweep - Day) \in Int /\ DayOf(sweep) \in Int /\ DayOf(t) \in Int
  BY <1>1, <1>2, DayBounds
<1> QED
  BY <1>1, <1>2, <1>3, <1>4, <1>5 DEF InLookback

\* For any window length and day: a marker goes only when no sweep can find
\* its window any more.
THEOREM MarkersLastLongEnough == Spec => MarkersOutliveLookback
<1>1. UploaderTypeOK /\ [Next]_vars
        => [\A r \in rows :
              Slot(r) \in markers \ markers' => ~InLookback(r.ts, scanTime)]_vars
  <2> SUFFICES ASSUME UploaderTypeOK, Next, NEW r \in rows,
                      Slot(r) \in markers \ markers'
               PROVE  ~InLookback(r.ts, scanTime)
    OBVIOUS
  <2>1. r.ts \in Nat /\ scanTime \in Nat
    BY RowTypes DEF UploaderTypeOK, PollTypeOK
  <2>2. CASE ReadReady \/ ReadBreaks
    <3>1. Prunable(Slot(r))
      BY <2>2 DEF ReadReady, ReadBreaks, Pruned
    <3> QED
      BY <2>1, <3>1, PrunableIsOutOfSight DEF Prunable, Slot
  <2>3. CASE ~(ReadReady \/ ReadBreaks)
    <3>1. markers \subseteq markers'
      BY <2>3
         DEF Next, Poller, Scan, Wake, UploadSlice, UploadSliceFails,
             UnlinkSlice, UnlinkSliceFails, ScanOver, RawSweep, NotDue, Due,
             Pick, PickOver, UploadTar, Materialize, Mark, HandOffFails,
             UnlinkBin, UnlinkBinFails, HandedOff, Joined, JoinTimesOut,
             Crash, Boot, landing
    <3> QED
      BY <3>1
  <2> QED
    BY <2>2, <2>3
<1> QED
  BY <1>1, TypeCorrect, PTL DEF Spec, MarkersOutliveLookback

-----------------------------------------------------------------------------
(* The slices' hand-off implements the abstract one.                       *)

\* An upload replaces the metadata object of its window and a slice replaces
\* the slice of its window, so nothing is lost only because what replaces is
\* never less: R has every row of Q in each of its windows, unless a read of
\* that window once broke off.
Covers(R, Q, cut) == \A r \in Q : Slot(r) \in Slots(R) \ cut => r \in R

HandingOff == {"upload", "materialize", "mark", "unlinkBins"}

SliceInv ==
  /\ slices \cup s3meta \cup ready \cup batch \subseteq rows
  /\ Covers(ready, slices \cup s3meta, short)
  /\ Covers(batch, slices \cup s3meta, short)
  /\ Covers(slices, s3meta, short)
  /\ \A r \in batch, q \in ready : Slot(r) # Slot(q)
  /\ pc \notin HandingOff => batch = {}
  /\ pending \subseteq Slots(slices)
  /\ pending \cap shipped = {}
  /\ IF pc = "unlinkSlice"
       THEN \A r \in slices : Slot(r) \in shipped => r \in s3meta
       ELSE shipped = {}

\* Rows of one slot are found by the same sweeps.
LEMMA SameSlot ==
  ASSUME NEW r \in Row, NEW q \in Row, Slot(r) = Slot(q), NEW t \in Nat
  PROVE  /\ WindowOf(r.ts) = WindowOf(q.ts)
         /\ InLookback(r.ts, t) <=> InLookback(q.ts, t)
<1>1. WindowOf(r.ts) = WindowOf(q.ts)
  BY DEF Slot
<1>2. DayOf(r.ts) = DayOf(q.ts)
  BY <1>1, RowTypes, WindowWithinDay
<1> QED
  BY <1>1, <1>2 DEF InLookback

\* The rows a sweep finds are all the rows of their slots, if nothing breaks.
LEMMA ReadsWholeSlots ==
  ASSUME UploaderTypeOK, ReadReady \/ ReadBreaks
  PROVE  /\ ready' \subseteq ClosedRows
         /\ Covers(ready', rows, short')
<1>1. PICK kept \in SUBSET ClosedRows :
        /\ ready' = {r \in kept : Slot(r) \notin markers'}
        /\ Slots(ready') \cap Slots(ClosedRows \ kept) \subseteq short'
  <2>1. CASE ReadReady
    <3>1. Slots(ClosedRows \ ClosedRows) = {}
      BY DEF Slots
    <3> QED
      BY <2>1, <3>1 DEF ReadReady
  <2>2. CASE ReadBreaks
    BY <2>2 DEF ReadBreaks, ReadInPart
  <2> QED
    BY <2>1, <2>2
<1>2. rows \subseteq Row /\ scanTime \in Nat
  BY DEF UploaderTypeOK, PollTypeOK
<1>3. ASSUME NEW r \in rows, NEW q \in ready', Slot(r) = Slot(q), Slot(r) \notin short'
      PROVE  r \in ready'
  <2>1. q \in rows /\ InLookback(q.ts, scanTime) /\ Closed(WindowOf(q.ts), scanTime)
    BY <1>1 DEF ClosedRows
  <2>2. InLookback(r.ts, scanTime) /\ Closed(WindowOf(r.ts), scanTime)
    BY <1>2, <1>3, <2>1, SameSlot
  <2>3. r \in ClosedRows
    BY <2>2 DEF ClosedRows
  <2>4. r \in kept
    BY <1>1, <1>3, <2>3 DEF Slots
  <2> QED
    BY <1>1, <1>3, <2>4
<1>4. Covers(ready', rows, short')
  BY <1>3 DEF Covers, Slots
<1> QED
  BY <1>1, <1>4

\* Every step keeps slices in step with the rows of their windows.
LEMMA SliceInvStep ==
  ASSUME UploaderTypeOK, SliceInv, [Next]_vars
  PROVE  SliceInv'
<1> USE DEF SliceInv, Covers, HandingOff, memory, disk, s3, landing, pollVars,
            pollerButBins, At, Goto
<1>1. CASE Poller
  <2>1. rows \subseteq rows'
    BY RowsGrow
  <2>2. UNCHANGED <<s3, landing, worker>>
    BY <1>1 DEF Poller
  <2> QED
    BY <2>1, <2>2 DEF worker, Slots, Slot
<1>2. ASSUME Scan
      PROVE  SliceInv'
  <2>1. CASE Wake
    BY <2>1 DEF Wake, Slots, Slot
  <2>2. ASSUME NEW s \in pending, UploadSlice(s)
        PROVE  SliceInv'
    <3>1. /\ s3meta' = (s3meta \ OfSlot(s3meta, s)) \cup OfSlot(slices, s)
          /\ pending' = pending \ {s}
          /\ shipped' = {s}
          /\ pc' = "unlinkSlice"
          /\ batch = {} /\ batch' = {}
          /\ UNCHANGED <<rows, slices, short, ready>>
      BY <2>2 DEF UploadSlice
    <3>2. s3meta' \subseteq s3meta \cup slices
      BY <3>1 DEF OfSlot
    <3>3. \A r \in slices : Slot(r) = s => r \in s3meta'
      BY <3>1 DEF OfSlot
    <3> QED
      BY <3>1, <3>2, <3>3 DEF Slots, Slot
  <2>3. ASSUME NEW s \in pending, UploadSliceFails(s)
        PROVE  SliceInv'
    BY <2>3 DEF UploadSliceFails, Slots, Slot
  <2>4. CASE UnlinkSlice
    <3>1. /\ slices' = {r \in slices : Slot(r) \notin shipped}
          /\ shipped' = {}
          /\ pc' = "scan"
          /\ batch = {} /\ batch' = {}
          /\ UNCHANGED <<rows, s3meta, short, ready, pending>>
      BY <2>4 DEF UnlinkSlice
    <3>2. \A r \in slices : Slot(r) \in Slots(slices') => r \in slices'
      BY <3>1 DEF Slots
    <3>3. pending' \subseteq Slots(slices')
      BY <3>1 DEF Slots
    <3> QED
      BY <3>1, <3>2, <3>3 DEF Slots, Slot
  <2>5. CASE UnlinkSliceFails
    BY <2>5 DEF UnlinkSliceFails, Slots, Slot
  <2>6. CASE ScanOver
    BY <2>6 DEF ScanOver, Slots, Slot
  <2> QED
    BY <1>2, <2>1, <2>2, <2>3, <2>4, <2>5, <2>6 DEF Scan
<1>3. ASSUME RawSweep
      PROVE  SliceInv'
  <2>1. CASE NotDue \/ Due \/ UploadTar \/ Mark \/ (\E b \in present : UnlinkBin(b))
    <3>1. /\ pc # "unlinkSlice" /\ pc' # "unlinkSlice"
          /\ UNCHANGED <<rows, slices, s3meta, short, ready, batch, pending, shipped>>
      BY <2>1 DEF NotDue, Due, UploadTar, Mark, UnlinkBin
    <3>2. pc' \notin HandingOff => batch' = {}
      BY <2>1 DEF NotDue, Due, UploadTar, Mark, UnlinkBin
    <3> QED
      BY <3>1, <3>2 DEF Slots, Slot
  <2>2. CASE ReadReady \/ ReadBreaks
    <3>1. ready' \subseteq rows /\ Covers(ready', rows, short')
      BY <2>2, ReadsWholeSlots DEF ClosedRows
    <3>2. /\ batch = {}
          /\ pc # "unlinkSlice" /\ pc' # "unlinkSlice"
          /\ UNCHANGED <<rows, slices, s3meta, batch, pending, shipped>>
      BY <2>2 DEF ReadReady, ReadBreaks
    <3>3. short \subseteq short'
      BY ShortGrows
    <3> QED
      BY <3>1, <3>2, <3>3 DEF Slots, Slot
  <2>3. ASSUME NEW s \in Slots(ready), Pick(s)
        PROVE  SliceInv'
    <3>1. /\ batch' = OfSlot(ready, s)
          /\ ready' = ready \ OfSlot(ready, s)
          /\ pc # "unlinkSlice" /\ pc' \in HandingOff /\ pc' # "unlinkSlice"
          /\ UNCHANGED <<rows, slices, s3meta, short, pending, shipped>>
      BY <2>3 DEF Pick
    <3>2. batch' \cup ready' \subseteq rows
      BY <3>1 DEF OfSlot
    <3>3. \A r \in slices \cup s3meta :
            /\ Slot(r) \in Slots(ready') \ short => r \in ready'
            /\ Slot(r) \in Slots(batch') \ short => r \in batch'
      BY <3>1 DEF OfSlot, Slots
    <3>4. \A r \in batch', q \in ready' : Slot(r) # Slot(q)
      BY <3>1 DEF OfSlot
    <3> QED
      BY <3>1, <3>2, <3>3, <3>4 DEF Slots, Slot
  <2>4. CASE PickOver \/ UnlinkBinFails
    <3>1. /\ ready' = {} /\ batch' = {}
          /\ pc # "unlinkSlice" /\ pc' # "unlinkSlice" /\ pc' \notin HandingOff
          /\ pending' \in {pending, Slots(slices)}
          /\ UNCHANGED <<rows, slices, s3meta, short, shipped>>
      BY <2>4 DEF PickOver, UnlinkBinFails, RawSweepOver
    <3> QED
      BY <3>1 DEF Slots, Slot
  <2>5. CASE Materialize
    <3>1. /\ slices' = Outside(slices, batch) \cup batch
          /\ pc # "unlinkSlice" /\ pc' = "mark"
          /\ UNCHANGED <<rows, s3meta, short, ready, batch, pending, shipped>>
      BY <2>5 DEF Materialize
    <3>2. slices' \subseteq slices \cup batch
      BY <3>1 DEF Outside
    <3>3. Slots(slices) \subseteq Slots(slices')
      BY <3>1 DEF Outside, Slots
    <3>4. ASSUME NEW r \in slices', Slot(r) \in Slots(ready) \ short
          PROVE  r \in ready
      BY <3>2, <3>4 DEF Slots
    <3>5. ASSUME NEW r \in slices', Slot(r) \in Slots(batch) \ short
          PROVE  r \in batch
      BY <3>2, <3>5
    <3>6. ASSUME NEW r \in s3meta, Slot(r) \in Slots(slices') \ short
          PROVE  r \in slices'
      <4>1. CASE Slot(r) \in Slots(batch)
        BY <3>1, <3>6, <4>1
      <4>2. CASE Slot(r) \notin Slots(batch)
        <5>1. Slot(r) \in Slots(slices)
          BY <3>2, <3>6, <4>2 DEF Slots
        <5> QED
          BY <3>1, <3>6, <4>2, <5>1 DEF Outside
      <4> QED
        BY <4>1, <4>2
    <3> QED
      BY <3>1, <3>2, <3>3, <3>4, <3>5, <3>6 DEF Slots, Slot
  <2>6. CASE HandOffFails \/ HandedOff
    <3>1. /\ batch' = {}
          /\ pc # "unlinkSlice" /\ pc' = "pick"
          /\ UNCHANGED <<rows, slices, s3meta, short, ready, pending, shipped>>
      BY <2>6 DEF HandOffFails, HandedOff
    <3> QED
      BY <3>1 DEF Slots, Slot
  <2> QED
    BY <1>3, <2>1, <2>2, <2>3, <2>4, <2>5, <2>6 DEF RawSweep
<1>4. CASE Joined
  BY <1>4 DEF Joined, Slots, Slot
<1>5. CASE JoinTimesOut \/ Crash \/ Boot
  <2>1. WorkerReset /\ UNCHANGED <<rows, slices, s3meta, short>>
    BY <1>5 DEF JoinTimesOut, Crash, PollCrash, Boot, PollBoot
  <2> QED
    BY <2>1 DEF WorkerReset, Slots, Slot
<1>6. CASE UNCHANGED vars
  BY <1>6 DEF vars, worker, Slots, Slot
<1> QED
  BY <1>1, <1>2, <1>3, <1>4, <1>5, <1>6 DEF Next

\* Every step of the system hands slices off, cuts windows short, or stutters.
LEMMA SliceHandoffStep ==
  ASSUME UploaderTypeOK, SliceInv, [Next]_vars
  PROVE  SliceHandoff!Next
<1> USE DEF memory, disk, s3, landing, pollVars, pollerButBins
<1>1. ASSUME NEW s \in pending, UploadSlice(s)
      PROVE  SliceHandoff!Next
  <2>1. /\ s3meta' = (s3meta \ OfSlot(s3meta, s)) \cup OfSlot(slices, s)
        /\ UNCHANGED <<slices, rows, short>>
    BY <1>1 DEF UploadSlice
  <2>2. UNCHANGED CutShort
    BY <2>1 DEF CutShort, Slot
  <2>3. s \in Slots(slices) /\ s3meta \subseteq rows
    BY DEF SliceInv
  <2>4. OfSlot(s3meta, s) \subseteq OfSlot(slices, s) \cup CutShort
    BY <2>3 DEF SliceInv, Covers, OfSlot, CutShort
  <2>5. s3meta \ s3meta' \subseteq CutShort /\ s3meta' \subseteq s3meta \cup slices
    BY <2>1, <2>4 DEF OfSlot
  <2> QED
    BY <2>1, <2>2, <2>5 DEF SliceHandoff!Next, SliceHandoff!Deliver
<1>2. CASE UnlinkSlice
  <2>1. slices' = {r \in slices : Slot(r) \notin shipped} /\ UNCHANGED <<s3meta, rows, short>>
    BY <1>2 DEF UnlinkSlice
  <2>2. UNCHANGED CutShort
    BY <2>1 DEF CutShort, Slot
  <2>3. \A r \in slices : Slot(r) \in shipped => r \in s3meta
    BY <1>2 DEF UnlinkSlice, At, SliceInv
  <2> QED
    BY <2>1, <2>2, <2>3 DEF SliceHandoff!Next, SliceHandoff!Release
<1>3. CASE Materialize
  <2>1. slices' = Outside(slices, batch) \cup batch /\ UNCHANGED <<s3meta, rows, short>>
    BY <1>3 DEF Materialize
  <2>2. UNCHANGED CutShort
    BY <2>1 DEF CutShort, Slot
  <2>3. ASSUME NEW r \in slices \ slices'
        PROVE  r \in CutShort
    <3>1. Slot(r) \in Slots(batch) /\ r \notin batch /\ r \in rows
      BY <2>1, <2>3 DEF Outside, SliceInv
    <3> QED
      BY <3>1 DEF SliceInv, Covers, CutShort
  <2> QED
    BY <2>1, <2>2, <2>3 DEF SliceHandoff!Next, SliceHandoff!Put
<1>4. ASSUME \/ Poller \/ Wake
             \/ \E s \in pending : UploadSliceFails(s)
             \/ UnlinkSliceFails \/ ScanOver \/ NotDue \/ Due \/ ReadReady \/ ReadBreaks
             \/ \E s \in Slots(ready) : Pick(s)
             \/ PickOver \/ UploadTar \/ Mark \/ HandOffFails
             \/ \E b \in present : UnlinkBin(b)
             \/ UnlinkBinFails \/ HandedOff \/ Joined \/ JoinTimesOut
             \/ Crash \/ Boot \/ UNCHANGED vars
      PROVE  SliceHandoff!Next
  <2>1. UNCHANGED <<slices, s3meta>>
    BY <1>4 DEF Poller, Wake, UploadSliceFails, UnlinkSliceFails, ScanOver,
                NotDue, Due, ReadReady, ReadBreaks, Pick, PickOver, UploadTar, Mark,
                HandOffFails, UnlinkBin, UnlinkBinFails, HandedOff, Joined,
                JoinTimesOut, Crash, Boot, vars
  <2>2. CutShort \subseteq CutShort'
    BY RowsGrow
  <2> QED
    BY <2>1, <2>2 DEF SliceHandoff!Next, SliceHandoff!Excuse
<1> QED
  BY <1>1, <1>2, <1>3, <1>4 DEF Next, Scan, RawSweep

\* Slices and rows are in step always.
THEOREM SliceInvariance == Spec => []SliceInv
<1>1. Init => SliceInv
  BY DEF Init, PollInit, WorkerInit, SliceInv, Covers, Slots
<1>2. UploaderTypeOK /\ SliceInv /\ [Next]_vars => SliceInv'
  BY SliceInvStep
<1> QED
  BY <1>1, <1>2, TypeCorrect, PTL DEF Spec

\* A row leaves its slice only when S3 has it, and no later upload of its
\* window takes it away: every step is a step of the abstract hand-off, with
\* no assumption about how long writes take and any number of failures.  The
\* one excuse is a window that a broken read has cut short: after a crash that
\* left its slice unmarked, the shorter slice replaces it.
THEOREM SlicesNeverLost == Spec => SlicesHandedOff
<1>1. Init => SliceHandoff!Init
  BY DEF Init, PollInit, CutShort, SliceHandoff!Init
<1>2. UploaderTypeOK /\ SliceInv /\ [Next]_vars
        => [SliceHandoff!Next]_<<slices, s3meta, CutShort>>
  BY SliceHandoffStep
<1> QED
  BY <1>1, <1>2, TypeCorrect, SliceInvariance, PTL
     DEF Spec, SlicesHandedOff, SliceHandoff!Spec, SliceHandoff!handoff

-----------------------------------------------------------------------------
(* No row is stranded, when writes are done within the grace period.       *)

\* Once a window is closed no write can still add a row to it: the rows a
\* sweep has read of a window stay all the rows there are of it.
SettledInv ==
  /\ \A r \in InFlight : r.ts <= now /\ now <= r.ts + MaxDelay
  /\ scanTime <= now
  /\ \A s \in markers \cup Slots(ready) \cup Slots(batch) : Closed(s.window, now)
  /\ Covers(ready, rows, short)
  /\ Covers(batch, rows, short)
  /\ pc = "mark" => batch \subseteq slices
  /\ MarkedRowsHandedOff

\* The grace period at work.
LEMMA NoLateWrite ==
  ASSUME MaxDelay <= Grace, UploaderTypeOK, SettledInv, NEW r \in InFlight
  PROVE  ~Closed(WindowOf(r.ts), now)
<1>1. r.ts \in Nat /\ now \in Nat
  BY RowTypes DEF UploaderTypeOK, PollTypeOK, InFlight, Row
<1>2. WindowOf(r.ts) \in Int /\ r.ts < WindowOf(r.ts) + Window
  BY <1>1, WindowBounds
<1>3. now <= r.ts + MaxDelay
  BY DEF SettledInv
<1>4. Window \in Nat /\ Grace \in Nat /\ MaxDelay \in Nat
  BY LayoutAssumption, PollAssumption
<1> QED
  BY <1>1, <1>2, <1>3, <1>4, SMT DEF Closed

\* A window that has closed stays closed.
LEMMA StaysClosed ==
  ASSUME NEW w \in Int, NEW t \in Nat, NEW u \in Nat, t <= u, Closed(w, t)
  PROVE  Closed(w, u)
BY LayoutAssumption, SMT DEF Closed

\* Rows come from writes in flight.
LEMMA WhereRowsComeFrom ==
  ASSUME UploaderTypeOK, [Next]_vars
  PROVE  rows' \subseteq rows \cup InFlight
BY DEF Next, Poller, Respond, NewContent, SetStateFails, OddContent, Unchanged,
       Refused, Poll, Write, WriteBin, WriteBinFails, AppendRow,
       AppendRowFails, Signal, Gathered, Tick, Scan, Wake, UploadSlice,
       UploadSliceFails, UnlinkSlice, UnlinkSliceFails, ScanOver, RawSweep,
       NotDue, Due, ReadReady, ReadBreaks, Pick, PickOver, UploadTar, Materialize, Mark,
       HandOffFails, UnlinkBin, UnlinkBinFails, HandedOff, Joined,
       JoinTimesOut, Crash, PollCrash, Boot, PollBoot, disk, pollVars,
       pollerButBins, vars, InFlight

\* The poller alone: rows arrive and time passes.
LEMMA PollerSettles ==
  ASSUME UploaderTypeOK, SettledInv, Poller
  PROVE  /\ \A r \in InFlight' : r.ts <= now' /\ now' <= r.ts + MaxDelay
         /\ now' \in Nat /\ now <= now'
<1> USE DEF UploaderTypeOK, PollTypeOK
<1>1. \A r \in InFlight : r.ts \in Nat /\ r.ts <= now /\ now <= r.ts + MaxDelay
  BY RowTypes DEF InFlight, SettledInv, Row
<1>2. now <= now + MaxDelay
  BY PollAssumption
<1>3. CASE Respond
  <2>1. UNCHANGED now /\ \A r \in InFlight' : r \in InFlight \/ r.ts = now
    BY <1>3 DEF Respond, NewContent, SetStateFails, OddContent, Unchanged,
                Refused, Poll, Stamped, InFlight
  <2> QED
    BY <1>1, <1>2, <2>1
<1>4. CASE Write
  <2>1. UNCHANGED now /\ InFlight' \subseteq InFlight
    BY <1>4 DEF Write, WriteBin, WriteBinFails, AppendRow, AppendRowFails,
                InFlight, disk
  <2> QED
    BY <1>1, <2>1
<1>5. CASE Signal \/ Gathered
  BY <1>1, <1>5 DEF Signal, Gathered, InFlight, memory
<1>6. CASE Tick
  <2>1. UNCHANGED InFlight /\ now' = now + 1
    BY <1>6 DEF Tick, InFlight, memory
  <2>2. \A r \in InFlight : now < r.ts + MaxDelay
    BY <1>6 DEF Tick
  <2> QED
    BY <1>1, <2>1, <2>2, PollAssumption
<1> QED
  BY <1>3, <1>4, <1>5, <1>6 DEF Poller

\* Every other step: the clock stands and no write is begun.
LEMMA OthersWait ==
  ASSUME UploaderTypeOK, [Next]_vars, ~Poller
  PROVE  InFlight' \subseteq InFlight /\ UNCHANGED <<now, rows>>
BY DEF Next, Scan, Wake, UploadSlice, UploadSliceFails, UnlinkSlice,
       UnlinkSliceFails, ScanOver, RawSweep, NotDue, Due, ReadReady, ReadBreaks, Pick,
       PickOver, UploadTar, Materialize, Mark, HandOffFails, UnlinkBin,
       UnlinkBinFails, HandedOff, Joined, JoinTimesOut, Crash, PollCrash,
       Boot, PollBoot, memory, disk, pollVars, pollerButBins, vars, InFlight

\* What each step does to the markers and to the rows a sweep holds.
LEMMA HoldsOrReads ==
  ASSUME UploaderTypeOK, [Next]_vars
  PROVE  \/ ReadReady \/ ReadBreaks
         \/ \E s \in Slots(ready) : Pick(s)
         \/ Mark
         \/ /\ UNCHANGED markers
            /\ ready' \in {ready, {}}
            /\ batch' \in {batch, {}}
BY DEF Next, Poller, Scan, Wake, UploadSlice, UploadSliceFails, UnlinkSlice,
       UnlinkSliceFails, ScanOver, RawSweep, NotDue, Due, PickOver, UploadTar,
       Materialize, HandOffFails, UnlinkBin, UnlinkBinFails, HandedOff,
       Joined, JoinTimesOut, Crash, Boot, WorkerReset, landing, vars, worker

\* With timely writes, no row reaches a window after its sweep.
LEMMA SettledStep ==
  ASSUME MaxDelay <= Grace, UploaderTypeOK, UploaderTypeOK', SliceInv,
         SettledInv, [Next]_vars
  PROVE  SettledInv'
<1>1. /\ \A r \in InFlight' : r.ts <= now' /\ now' <= r.ts + MaxDelay
      /\ now \in Nat /\ now' \in Nat /\ now <= now'
  <2>1. now \in Nat
    BY DEF UploaderTypeOK, PollTypeOK
  <2>2. CASE Poller
    BY <2>1, <2>2, PollerSettles
  <2>3. CASE ~Poller
    BY <2>1, <2>3, OthersWait DEF SettledInv
  <2> QED
    BY <2>2, <2>3
<1>2. scanTime' <= now'
  <2>1. scanTime' \in {scanTime, now, 0}
    BY DEF Next, Poller, Scan, Wake, UploadSlice, UploadSliceFails,
           UnlinkSlice, UnlinkSliceFails, ScanOver, RawSweep, NotDue, Due,
           ReadReady, ReadBreaks, Pick, PickOver, UploadTar, Materialize, Mark,
           HandOffFails, UnlinkBin, UnlinkBinFails, HandedOff, Joined,
           JoinTimesOut, Crash, Boot, WorkerReset, vars, worker
  <2> QED
    BY <1>1, <2>1 DEF SettledInv, UploaderTypeOK
<1>3. \A s \in markers \cup Slots(ready) \cup Slots(batch) :
        s.window \in Int /\ Closed(s.window, now)
  <2>1. Slots(ready) \cup Slots(batch) \subseteq SlotType
    BY SlotsType DEF UploaderTypeOK
  <2> QED
    BY <2>1 DEF SettledInv, UploaderTypeOK, SlotType
<1>4. \A s \in markers \cup Slots(ready) \cup Slots(batch) : Closed(s.window, now')
  BY <1>1, <1>3, StaysClosed
\* The rows that a step adds are in windows that are still open.
<1>5. \A r \in rows' : r \in rows \/ ~Closed(WindowOf(r.ts), now)
  BY WhereRowsComeFrom, NoLateWrite
<1>6. \A r \in rows' :
        Slot(r) \in markers \cup Slots(ready) \cup Slots(batch) => r \in rows
  BY <1>3, <1>5 DEF Slot
<1>0. short \subseteq short'
  BY ShortGrows
<1>7. \A r \in slices \cup s3meta : Slot(r) \notin short' => r \in slices' \cup s3meta'
  <2>1. (slices \cup s3meta) \ (slices' \cup s3meta') \subseteq CutShort
    BY SliceHandoffStep
       DEF SliceHandoff!Next, SliceHandoff!Put, SliceHandoff!Deliver,
           SliceHandoff!Release, SliceHandoff!Excuse
  <2> QED
    BY <1>0, <2>1 DEF CutShort
<1>8. pc' = "mark" => batch' \subseteq slices'
  <2>1. CASE Materialize
    BY <2>1 DEF Materialize, Outside
  <2>2. CASE ~Materialize
    <3>1. pc' = "mark" => pc = "mark" /\ UNCHANGED <<batch, slices>>
      BY <2>2 DEF Next, Poller, Scan, Wake, UploadSlice, UploadSliceFails,
           UnlinkSlice, UnlinkSliceFails, ScanOver, RawSweep, RawSweepOver,
           NotDue, Due, ReadReady, ReadBreaks, Pick, PickOver, UploadTar, Mark,
           HandOffFails, UnlinkBin, UnlinkBinFails, HandedOff, Joined,
           JoinTimesOut, Crash, Boot, WorkerReset, vars, worker, landing,
           At, Goto
    <3> QED
      BY <3>1 DEF SettledInv
  <2> QED
    BY <2>1, <2>2
<1>9. ASSUME UNCHANGED markers, ready' \in {ready, {}}, batch' \in {batch, {}}
      PROVE  SettledInv'
  <2>1. Slots(ready') \subseteq Slots(ready) /\ Slots(batch') \subseteq Slots(batch)
    BY <1>9 DEF Slots
  <2>2. Covers(ready', rows', short')
    BY <1>0, <1>6, <1>9, <2>1 DEF Covers, SettledInv, Slots
  <2>3. Covers(batch', rows', short')
    BY <1>0, <1>6, <1>9, <2>1 DEF Covers, SettledInv, Slots
  <2>4. MarkedRowsHandedOff'
    BY <1>0, <1>6, <1>7, <1>9 DEF SettledInv, MarkedRowsHandedOff
  <2> QED
    BY <1>1, <1>2, <1>4, <1>8, <1>9, <2>1, <2>2, <2>3, <2>4 DEF SettledInv
<1>10. CASE ReadReady \/ ReadBreaks
  <2>1. /\ markers' \subseteq markers
        /\ batch' = {}
        /\ UNCHANGED <<now, rows>>
    BY <1>10 DEF ReadReady, ReadBreaks, Pruned, SliceInv, HandingOff, At, pollVars,
                 pollerButBins, disk
  <2>2. ready' \subseteq ClosedRows /\ Covers(ready', rows', short')
    BY <1>10, <2>1, ReadsWholeSlots
  <2>3. \A r \in ready' : r.ts \in Nat /\ Closed(WindowOf(r.ts), scanTime)
    BY <2>2, RowTypes DEF ClosedRows, UploaderTypeOK, PollTypeOK
  <2>4. \A r \in ready' : Closed(WindowOf(r.ts), now')
    BY <1>1, <2>3, RowTypes, StaysClosed, WindowBounds, <2>1
       DEF SettledInv, UploaderTypeOK
  <2>5. \A s \in Slots(ready') : Closed(s.window, now')
    BY <2>4 DEF Slots, Slot
  <2>6. Slots(batch') = {} /\ Covers(batch', rows', short')
    BY <2>1 DEF Slots, Covers
  <2>7. MarkedRowsHandedOff'
    BY <1>0, <1>7, <2>1 DEF SettledInv, MarkedRowsHandedOff
  <2> QED
    BY <1>1, <1>2, <1>4, <1>8, <2>1, <2>2, <2>5, <2>6, <2>7 DEF SettledInv
<1>11. ASSUME NEW s \in Slots(ready), Pick(s)
       PROVE  SettledInv'
  <2>1. /\ batch' = OfSlot(ready, s)
        /\ ready' = ready \ OfSlot(ready, s)
        /\ UNCHANGED <<markers, rows, short>>
    BY <1>11 DEF Pick, landing, pollVars, disk
  <2>2. Slots(batch') \subseteq Slots(ready) /\ Slots(ready') \subseteq Slots(ready)
    BY <2>1 DEF Slots, OfSlot
  <2>3. Covers(batch', rows', short') /\ Covers(ready', rows', short')
    BY <2>1 DEF Covers, SettledInv, Slots, OfSlot
  <2>4. MarkedRowsHandedOff'
    BY <1>7, <2>1 DEF SettledInv, MarkedRowsHandedOff
  <2> QED
    BY <1>1, <1>2, <1>4, <1>8, <2>1, <2>2, <2>3, <2>4 DEF SettledInv
<1>12. CASE Mark
  <2>1. /\ markers' = markers \cup Slots(batch)
        /\ UNCHANGED <<ready, batch, rows, slices, s3meta, short>>
        /\ batch \subseteq slices
    BY <1>12 DEF Mark, At, s3, pollVars, disk, SettledInv
  <2>2. \A r \in rows : Slot(r) \in Slots(batch) \ short => r \in slices
    BY <2>1 DEF SettledInv, Covers
  <2>3. MarkedRowsHandedOff'
    BY <2>1, <2>2 DEF SettledInv, MarkedRowsHandedOff
  <2> QED
    BY <1>1, <1>2, <1>4, <1>8, <2>1, <2>3 DEF SettledInv, Covers, Slots
<1> QED
  BY <1>9, <1>10, <1>11, <1>12, HoldsOrReads

\* If every write is on disk before its window's grace period ends, a window
\* that carries a marker has no row that was not handed off, whatever else
\* fails or crashes, unless a read of its file once broke off in mid-window.
THEOREM NoRowIsStranded ==
  MaxDelay <= Grace => (Spec => []MarkedRowsHandedOff)
<1> SUFFICES ASSUME MaxDelay <= Grace
             PROVE  Spec => []MarkedRowsHandedOff
  OBVIOUS
<1>1. Init => SettledInv
  BY DEF Init, PollInit, WorkerInit, SettledInv, Covers, Slots, InFlight,
         MarkedRowsHandedOff
<1>2. /\ UploaderTypeOK /\ UploaderTypeOK' /\ SliceInv
      /\ SettledInv /\ [Next]_vars
      => SettledInv'
  BY SettledStep
<1>3. SettledInv => MarkedRowsHandedOff
  BY DEF SettledInv
<1> QED
  BY <1>1, <1>2, <1>3, TypeCorrect, SliceInvariance, PTL DEF Spec

\* What a crash leaves on the disk of a window that was handed off is a copy,
\* if no read of that window broke off.
THEOREM LeftoversAreNotNeeded ==
  MaxDelay <= Grace => (Spec => []LeftoversAreCopies)
<1>1. MarkedRowsHandedOff /\ RawBeforeMetadata => LeftoversAreCopies
  BY DEF MarkedRowsHandedOff, RawBeforeMetadata, LeftoversAreCopies
<1> QED
  BY <1>1, NoRowIsStranded, RawShipsFirst, PTL

-----------------------------------------------------------------------------
(* The drain of a clean shutdown.                                          *)

\* Once the poll loop is gathered no write is in flight, and the drain only
\* runs after a signal, which counts as a failure.
GatheredInv ==
  /\ proc \in {"closing", "draining"} => InFlight = {}
  /\ proc = "down" /\ pc = "exited" => InFlight = {}
  /\ proc \in {"stopping", "closing", "draining"} => faults # 0
  /\ proc = "draining" => pc \notin {"wait", "exited"}

\* A window is cut short by a failure, which a shutdown comes on top of.
CutByFailure ==
  short # {} =>
    /\ faults # 0
    /\ proc \in {"stopping", "closing", "draining"} => faults # 1

\* The rows of closed windows on their way through a drain that is not
\* disturbed: in the sweep's hands, in a slice, in S3; at last only in S3.
DrainInv ==
  /\ proc = "draining" /\ faults = 1 =>
       /\ pc \in {"pick"} \cup HandingOff =>
            ClosedRows \subseteq ready \cup batch \cup slices \cup s3meta
       /\ pc \in {"mark", "unlinkBins"} => batch \subseteq slices
       /\ pc \in {"scan", "unlinkSlice"} =>
            /\ ClosedRows \subseteq slices \cup s3meta
            /\ \A r \in slices : Slot(r) \in pending \cup shipped \/ r \in s3meta
  /\ DrainShipsClosedWindows

\* A failure beside the signal is a second one.
LEMMA SecondFault ==
  ASSUME PollTypeOK, faults # 0, Fault
  PROVE  faults' # 1
BY PollAssumption DEF PollTypeOK, Fault

\* No step but the loop's own phases brings writes into flight.
LEMMA GatheredStep ==
  ASSUME UploaderTypeOK, GatheredInv, [Next]_vars
  PROVE  GatheredInv'
<1> USE DEF GatheredInv, memory, disk, pollVars, pollerButBins
<1>0. faults \in Nat
  BY PollAssumption DEF UploaderTypeOK, PollTypeOK
<1>1. Fault => faults' # 0
  BY <1>0 DEF Fault
<1>2. CASE Poller
  <2>1. UNCHANGED pc
    BY <1>2 DEF Poller, worker
  <2>2. CASE Respond
    BY <2>1, <2>2 DEF Respond, NewContent, SetStateFails, OddContent, Unchanged, Refused,
                      Poll
  <2>3. CASE Write
    <3>1. InFlight # {} /\ proc' = proc /\ (faults' = faults \/ Fault)
      BY <2>3 DEF Write, WriteBin, WriteBinFails, AppendRow, AppendRowFails, InFlight
    <3> QED
      BY <1>1, <2>1, <3>1
  <2>4. CASE Signal
    BY <1>1, <2>1, <2>4 DEF Signal
  <2>5. CASE Gathered
    BY <2>1, <2>5 DEF Gathered, InFlight
  <2>6. CASE Tick
    BY <2>1, <2>6 DEF Tick, InFlight
  <2> QED
    BY <1>2, <2>2, <2>3, <2>4, <2>5, <2>6 DEF Poller
<1>3. CASE Scan
  <2>1. UNCHANGED InFlight
    BY <1>3 DEF Scan, Wake, UploadSlice, UploadSliceFails, UnlinkSlice, UnlinkSliceFails,
                ScanOver, InFlight
  <2>2. faults' = faults \/ Fault
    BY <1>3 DEF Scan, Wake, UploadSlice, UploadSliceFails, UnlinkSlice, UnlinkSliceFails,
                ScanOver
  <2>3. CASE ScanOver
    BY <2>1, <2>3 DEF ScanOver, Draining, Goto, At, Alive
  <2>4. CASE ~ScanOver
    <3>1. proc' = proc /\ proc # "down" /\ (pc' \in {"wait", "exited"} => pc = "wait")
      BY <1>3, <2>4 DEF Scan, Wake, UploadSlice, UploadSliceFails, UnlinkSlice,
                        UnlinkSliceFails, At, Alive, Goto
    <3> QED
      BY <1>1, <2>1, <2>2, <3>1
  <2> QED
    BY <2>3, <2>4
<1>4. CASE RawSweep
  <2>1. UNCHANGED <<InFlight, proc>> /\ (faults' = faults \/ Fault)
    BY <1>4 DEF RawSweep, NotDue, Due, ReadReady, ReadBreaks, Pick, PickOver, UploadTar, Materialize,
                Mark, HandOffFails, UnlinkBin, UnlinkBinFails, HandedOff, InFlight
  <2>2. proc # "down" /\ (proc = "draining" => pc' \notin {"wait", "exited"})
    BY <1>4 DEF RawSweep, NotDue, Due, ReadReady, ReadBreaks, Pick, PickOver, UploadTar, Materialize,
                Mark, HandOffFails, UnlinkBin, UnlinkBinFails, HandedOff, RawSweepOver,
                Draining, At, Alive, Goto
  <2> QED
    BY <1>1, <2>1, <2>2
<1>5. CASE Joined
  BY <1>5 DEF Joined, InFlight, Goto
<1>6. CASE JoinTimesOut \/ Crash \/ Boot
  <2>1. pc' = "wait" /\ proc' \in {"down", "running"}
    BY <1>6 DEF JoinTimesOut, Crash, PollCrash, Boot, PollBoot, WorkerReset
  <2> QED
    BY <2>1
<1>7. CASE UNCHANGED vars
  BY <1>7 DEF vars, worker, InFlight
<1> QED
  BY <1>2, <1>3, <1>4, <1>5, <1>6, <1>7 DEF Next

\* No step but a failure ends the loop, and a broken read is one.
LEMMA CutStep ==
  ASSUME UploaderTypeOK, GatheredInv, CutByFailure, [Next]_vars
  PROVE  CutByFailure'
<1>0. faults \in Nat
  BY PollAssumption DEF UploaderTypeOK, PollTypeOK
<1>1. CASE ReadBreaks
  <2>1. proc' = proc /\ faults' = faults + 1
    BY <1>1 DEF ReadBreaks, Fault, pollerButBins
  <2> QED
    BY <1>0, <2>1 DEF GatheredInv, CutByFailure
<1>2. CASE UNCHANGED short
  <2>1. \/ Fault
        \/ /\ faults' = faults
           /\ proc' \in {"stopping", "closing", "draining"}
                => proc \in {"stopping", "closing", "draining"}
    BY DEF Next, Poller, Respond, NewContent, SetStateFails, OddContent, Unchanged,
           Refused, Poll, Write, WriteBin, WriteBinFails, AppendRow, AppendRowFails,
           Signal, Gathered, Tick, Scan, Wake, UploadSlice, UploadSliceFails,
           UnlinkSlice, UnlinkSliceFails, ScanOver, RawSweep, NotDue, Due, ReadReady,
           ReadBreaks, Pick, PickOver, UploadTar, Materialize, Mark, HandOffFails,
           UnlinkBin, UnlinkBinFails, HandedOff, Joined, JoinTimesOut, Crash, PollCrash,
           Boot, PollBoot, pollVars, pollerButBins, vars
  <2> QED
    BY <1>0, <1>2, <2>1 DEF Fault, CutByFailure
<1> QED
  BY <1>1, <1>2, ShortGrows

\* What the sweeps of the drain do with the rows of closed windows.
LEMMA DrainStep ==
  ASSUME UploaderTypeOK, SliceInv, MarkedRowsHandedOff, GatheredInv, CutByFailure,
         DrainInv, [Next]_vars
  PROVE  DrainInv'
<1> USE DEF memory, disk, pollVars, pollerButBins, s3, landing, At, Alive, Goto, Draining,
            Stopping
<1>0. faults \in Nat /\ proc \in Phases
  BY PollAssumption DEF UploaderTypeOK, PollTypeOK
<1>1. proc \in {"stopping", "closing", "draining"} /\ Fault => faults' # 1
  BY SecondFault DEF UploaderTypeOK, GatheredInv
\* The poller's part of the state that the rows of closed windows depend on.
<1>2. ASSUME UNCHANGED <<rows, scanTime>>
      PROVE  ClosedRows' = ClosedRows
  BY <1>2 DEF ClosedRows
<1>3. CASE Poller
  <2>1. UNCHANGED <<s3, landing, worker>>
    BY <1>3 DEF Poller
  <2>2. CASE Respond \/ Write
    <3>1. proc \notin {"closing", "draining"} /\ ~(proc = "down" /\ pc = "exited")
      BY <2>2 DEF Respond, NewContent, SetStateFails, OddContent, Unchanged, Refused, Poll,
                  Write, InFlight, GatheredInv
    <3>2. proc' = proc
      BY <2>2 DEF Respond, NewContent, SetStateFails, OddContent, Unchanged, Refused, Poll,
                  Write, WriteBin, WriteBinFails, AppendRow, AppendRowFails
    <3> QED
      BY <2>1, <3>1, <3>2 DEF DrainInv, DrainShipsClosedWindows, ShutDownCleanly, worker
  <2>3. CASE Signal \/ Gathered
    BY <2>1, <2>3 DEF Signal, Gathered, DrainInv, DrainShipsClosedWindows, ShutDownCleanly
  <2>4. CASE Tick
    <3>1. UNCHANGED <<rows, scanTime, proc, faults, pc, ready, batch, slices, s3meta,
                      pending, shipped>>
      BY <2>1, <2>4 DEF Tick, worker
    <3>2. ClosedRows' = ClosedRows
      BY <1>2, <3>1
    <3> QED
      BY <3>1, <3>2 DEF DrainInv, DrainShipsClosedWindows, ShutDownCleanly, Slot
  <2> QED
    BY <1>3, <2>2, <2>3, <2>4 DEF Poller
<1>4. ASSUME Scan
      PROVE  DrainInv'
  <2>1. UNCHANGED <<rows, scanTime, ready, batch>> /\ proc # "down"
    BY <1>4 DEF Scan, Wake, UploadSlice, UploadSliceFails, UnlinkSlice, UnlinkSliceFails,
                ScanOver
  <2>2. ClosedRows' = ClosedRows
    BY <1>2, <2>1
  <2>3. CASE Wake
    BY <2>1, <2>3 DEF Wake, GatheredInv, DrainInv, DrainShipsClosedWindows, ShutDownCleanly
  <2>4. ASSUME NEW s \in pending, UploadSlice(s)
        PROVE  DrainInv'
    <3>1. /\ s3meta' = (s3meta \ OfSlot(s3meta, s)) \cup OfSlot(slices, s)
          /\ pending' = pending \ {s} /\ shipped' = {s}
          /\ pc = "scan" /\ pc' = "unlinkSlice"
          /\ UNCHANGED <<proc, faults, slices>>
      BY <2>4 DEF UploadSlice
    <3>2. s \in Slots(slices) /\ shipped = {}
      BY <3>1 DEF SliceInv
    <3>5. ASSUME proc' = "draining", faults' = 1
          PROVE  /\ ClosedRows' \subseteq slices' \cup s3meta'
                 /\ \A r \in slices' : Slot(r) \in pending' \cup shipped' \/ r \in s3meta'
      <4>1. short = {}
        BY <3>1, <3>5 DEF CutByFailure
      <4>2. OfSlot(s3meta, s) \subseteq OfSlot(slices, s)
        BY <3>2, <4>1 DEF SliceInv, Covers, OfSlot
      <4>3. s3meta \subseteq s3meta'
        BY <3>1, <4>2
      <4> QED
        BY <2>2, <3>1, <3>2, <3>5, <4>3 DEF DrainInv
    <3> QED
      BY <2>1, <3>1, <3>5 DEF DrainInv, DrainShipsClosedWindows, ShutDownCleanly, HandingOff, Slot
  <2>5. ASSUME \/ \E s \in pending : UploadSliceFails(s)
               \/ UnlinkSliceFails
        PROVE  DrainInv'
    <3>1. Fault /\ proc' = proc /\ proc # "down"
      BY <2>1, <2>5 DEF UploadSliceFails, UnlinkSliceFails
    <3> QED
      BY <1>1, <3>1 DEF DrainInv, DrainShipsClosedWindows, ShutDownCleanly
  <2>6. CASE UnlinkSlice
    <3>1. /\ slices' = {r \in slices : Slot(r) \notin shipped}
          /\ shipped' = {}
          /\ pc = "unlinkSlice" /\ pc' = "scan"
          /\ UNCHANGED <<proc, faults, s3meta, pending>>
      BY <2>6 DEF UnlinkSlice
    <3>2. \A r \in slices : Slot(r) \in shipped => r \in s3meta
      BY <3>1 DEF SliceInv
    <3>3. slices \cup s3meta \subseteq slices' \cup s3meta'
      BY <3>1, <3>2
    <3>4. proc # "down"
      BY <2>1
    <3> QED
      BY <2>2, <3>1, <3>3, <3>4
         DEF DrainInv, DrainShipsClosedWindows, ShutDownCleanly, Slot, HandingOff
  <2>7. CASE ScanOver
    <3>1. CASE proc = "draining"
      <4>1. /\ pc = "scan" /\ pending = {}
            /\ proc' = "down" /\ pc' = "exited"
            /\ UNCHANGED <<faults, slices, s3meta>>
        BY <2>7, <3>1 DEF ScanOver
      <4>2. shipped = {}
        BY <4>1 DEF SliceInv
      <4>3. faults = 1 => ClosedRows \subseteq s3meta
        BY <3>1, <4>1, <4>2 DEF DrainInv
      <4> QED
        BY <2>2, <4>1, <4>3 DEF DrainInv, DrainShipsClosedWindows, ShutDownCleanly
    <3>2. CASE proc # "draining"
      BY <2>1, <2>7, <3>2 DEF ScanOver, DrainInv, DrainShipsClosedWindows, ShutDownCleanly
    <3> QED
      BY <3>1, <3>2
  <2> QED
    BY <1>4, <2>3, <2>4, <2>5, <2>6, <2>7 DEF Scan
<1>5. ASSUME RawSweep
      PROVE  DrainInv'
  <2>1. UNCHANGED <<rows, s3meta, proc>> /\ proc # "down" /\ shipped' = shipped
    BY <1>5 DEF RawSweep, NotDue, Due, ReadReady, ReadBreaks, Pick, PickOver, UploadTar, Materialize,
                Mark, HandOffFails, UnlinkBin, UnlinkBinFails, HandedOff
  <2>2. ASSUME Fault PROVE DrainInv'
    BY <1>1, <2>1, <2>2 DEF DrainInv, DrainShipsClosedWindows, ShutDownCleanly
  <2>3. ASSUME proc # "draining" PROVE DrainInv'
    BY <2>1, <2>3 DEF DrainInv, DrainShipsClosedWindows, ShutDownCleanly
  <2>4. CASE ReadBreaks \/ HandOffFails \/ UnlinkBinFails
    BY <2>2, <2>4 DEF ReadBreaks, HandOffFails, UnlinkBinFails
  <2>5. CASE NotDue \/ Due
    <3>1. proc = "draining" => pc' = "read"
      BY <2>5 DEF NotDue, Due
    <3> QED
      BY <2>1, <3>1 DEF DrainInv, DrainShipsClosedWindows, ShutDownCleanly, HandingOff
  <2>6. CASE ReadReady
    <3>1. /\ markers' \subseteq markers
          /\ ready' = {r \in ClosedRows : Slot(r) \notin markers'}
          /\ UNCHANGED <<scanTime, slices, faults>>
          /\ pc' = "pick"
      BY <2>6 DEF ReadReady, Pruned
    <3>2. ClosedRows' = ClosedRows /\ ClosedRows \subseteq rows
      BY <1>2, <2>1, <3>1 DEF ClosedRows
    <3>3. proc = "draining" /\ faults = 1 => ClosedRows \subseteq ready' \cup slices \cup s3meta
      BY <3>1, <3>2 DEF MarkedRowsHandedOff, CutByFailure
    <3> QED
      BY <2>1, <3>1, <3>2, <3>3 DEF DrainInv, DrainShipsClosedWindows, ShutDownCleanly
  <2>7. ASSUME NEW s \in Slots(ready), Pick(s)
        PROVE  DrainInv'
    <3>1. /\ batch' = OfSlot(ready, s)
          /\ ready' = ready \ OfSlot(ready, s)
          /\ UNCHANGED <<scanTime, slices, faults>>
          /\ pc = "pick" /\ pc' \in {"materialize", "upload"}
      BY <2>7 DEF Pick
    <3>2. batch = {} /\ ready' \cup batch' = ready
      BY <3>1 DEF SliceInv, HandingOff, OfSlot
    <3>3. ClosedRows' = ClosedRows
      BY <1>2, <2>1, <3>1
    <3> QED
      BY <2>1, <3>1, <3>2, <3>3 DEF DrainInv, DrainShipsClosedWindows, ShutDownCleanly
  <2>8. CASE PickOver
    <3>1. CASE proc = "draining"
      <4>1. /\ ready = {} /\ pc = "pick"
            /\ pc' = "scan" /\ pending' = Slots(slices)
            /\ UNCHANGED <<scanTime, slices, faults>>
        BY <2>8, <3>1 DEF PickOver, RawSweepOver
      <4>2. batch = {}
        BY <4>1 DEF SliceInv, HandingOff
      <4>3. ClosedRows' = ClosedRows
        BY <1>2, <2>1, <4>1
      <4>4. \A r \in slices : Slot(r) \in pending'
        BY <4>1 DEF Slots
      <4> QED
        BY <2>1, <4>1, <4>2, <4>3, <4>4
           DEF DrainInv, DrainShipsClosedWindows, ShutDownCleanly, HandingOff, Slot
    <3> QED
      BY <2>3, <3>1
  <2>9. CASE UploadTar \/ (\E b \in present : UnlinkBin(b))
    <3>1. /\ UNCHANGED <<scanTime, slices, faults, ready, batch>>
          /\ \/ pc = "upload" /\ pc' = "materialize"
             \/ pc = "unlinkBins" /\ pc' = pc
      BY <2>9 DEF UploadTar, UnlinkBin
    <3>2. ClosedRows' = ClosedRows
      BY <1>2, <2>1, <3>1
    <3> QED
      BY <2>1, <3>1, <3>2 DEF DrainInv, DrainShipsClosedWindows, ShutDownCleanly, HandingOff
  <2>10. CASE Materialize
    <3>1. /\ slices' = Outside(slices, batch) \cup batch
          /\ UNCHANGED <<scanTime, faults, ready, batch>>
          /\ pc = "materialize" /\ pc' = "mark"
      BY <2>10 DEF Materialize
    <3>2. proc = "draining" /\ faults = 1 => slices \cup batch \subseteq slices'
      BY <3>1 DEF Outside, SliceInv, Covers, CutByFailure
    <3>3. ClosedRows' = ClosedRows
      BY <1>2, <2>1, <3>1
    <3> QED
      BY <2>1, <3>1, <3>2, <3>3
         DEF DrainInv, DrainShipsClosedWindows, ShutDownCleanly, HandingOff
  <2>11. CASE Mark
    <3>1. /\ UNCHANGED <<scanTime, slices, faults, ready, batch>>
          /\ pc = "mark" /\ pc' = "unlinkBins"
      BY <2>11 DEF Mark
    <3>2. ClosedRows' = ClosedRows
      BY <1>2, <2>1, <3>1
    <3> QED
      BY <2>1, <3>1, <3>2 DEF DrainInv, DrainShipsClosedWindows, ShutDownCleanly, HandingOff
  <2>12. CASE HandedOff
    <3>1. /\ UNCHANGED <<scanTime, slices, faults, ready>>
          /\ batch' = {}
          /\ pc = "unlinkBins" /\ pc' = "pick"
      BY <2>12 DEF HandedOff
    <3>2. ClosedRows' = ClosedRows
      BY <1>2, <2>1, <3>1
    <3> QED
      BY <2>1, <3>1, <3>2 DEF DrainInv, DrainShipsClosedWindows, ShutDownCleanly, HandingOff
  <2> QED
    BY <1>5, <2>4, <2>5, <2>6, <2>7, <2>8, <2>9, <2>10, <2>11, <2>12 DEF RawSweep
<1>6. CASE Joined
  BY <1>6 DEF Joined, DrainInv, DrainShipsClosedWindows, ShutDownCleanly, HandingOff
<1>7. CASE JoinTimesOut \/ Crash \/ Boot
  <2>1. pc' = "wait" /\ proc' \in {"down", "running"}
    BY <1>7 DEF JoinTimesOut, Crash, PollCrash, Boot, PollBoot, WorkerReset
  <2> QED
    BY <2>1 DEF DrainInv, DrainShipsClosedWindows, ShutDownCleanly
<1>8. CASE UNCHANGED vars
  <2>1. UNCHANGED <<rows, scanTime, proc, faults, pc, ready, batch, slices, s3meta,
                    pending, shipped>>
    BY <1>8 DEF vars, worker
  <2>2. ClosedRows' = ClosedRows
    BY <1>2, <2>1
  <2> QED
    BY <2>1, <2>2 DEF DrainInv, DrainShipsClosedWindows, ShutDownCleanly, Slot
<1> QED
  BY <1>3, <1>4, <1>5, <1>6, <1>7, <1>8 DEF Next

\* The last sweep of a shutdown in which nothing fails leaves no closed window
\* behind, if every write is on disk before its window's grace period ends.
THEOREM DrainLeavesNothing ==
  MaxDelay <= Grace => (Spec => []DrainShipsClosedWindows)
<1> SUFFICES ASSUME MaxDelay <= Grace
             PROVE  Spec => []DrainShipsClosedWindows
  OBVIOUS
<1>1. Init => GatheredInv /\ CutByFailure /\ DrainInv
  BY DEF Init, PollInit, WorkerInit, GatheredInv, CutByFailure, DrainInv,
         DrainShipsClosedWindows, ShutDownCleanly
<1>2. UploaderTypeOK /\ GatheredInv /\ [Next]_vars => GatheredInv'
  BY GatheredStep
<1>6. UploaderTypeOK /\ GatheredInv /\ CutByFailure /\ [Next]_vars => CutByFailure'
  BY CutStep
<1>3. /\ UploaderTypeOK /\ SliceInv /\ MarkedRowsHandedOff
      /\ GatheredInv /\ CutByFailure /\ DrainInv /\ [Next]_vars
      => DrainInv'
  BY DrainStep
<1>4. DrainInv => DrainShipsClosedWindows
  BY DEF DrainInv
<1>5. Spec => []MarkedRowsHandedOff
  BY NoRowIsStranded
<1> QED
  BY <1>1, <1>2, <1>3, <1>4, <1>5, <1>6, TypeCorrect, SliceInvariance, PTL DEF Spec

-----------------------------------------------------------------------------
(* References to earlier payloads, as long as nothing has failed.          *)

\* A row that brought its payload when or before row r was made.
Earlier(q, r) == q.payload /\ q.feed = r.feed /\ q.ts <= r.ts

\* Where references lead: the digest in a feed's poll state, and that of a row
\* without a payload, come from an earlier row that brought it.  The latter's
\* is in the file already, as a feed has one poll in flight.
OriginInv ==
  faults = 0 =>
    /\ proc = "running"
    /\ torn = {}
    /\ short = {}
    /\ \A r \in rows : r.ts <= now
    /\ \A f \in Feeds :
         store[f] # NoDigest =>
           \E q \in rows \cup InFlight :
             q.payload /\ q.feed = f /\ q.digest = store[f]
    /\ \A r \in rows \cup rowTodo :
         r.digest # NoDigest =>
           r.payload \/ \E q \in rows : Earlier(q, r) /\ q.digest = r.digest

\* A sweep that reads both its days hands off payloads in the order of their
\* rows: those before a row in its hands are in its hands too, or in S3.
OrderInv ==
  faults = 0 /\ now < 2 * Day =>
    \A q \in rows :
      /\ \A r \in ready :
           Earlier(q, r) => q \in ready \cup batch \/ PayloadOf(q) \in s3raw
      /\ \A r \in batch : Earlier(q, r) => q \in batch \/ PayloadOf(q) \in s3raw

Resolves(r) ==
  r.digest # NoDigest => \E b \in s3raw : b.feed = r.feed /\ b.digest = r.digest

ResolvedInv ==
  faults = 0 /\ now < 2 * Day => \A r \in slices \cup s3meta : Resolves(r)

\* Only the poller touches the poll state, the rows and what is in flight,
\* while nothing fails.
LEMMA UploaderLeavesRows ==
  ASSUME UploaderTypeOK, OriginInv, [Next]_vars, ~Poller, faults' = 0
  PROVE  UNCHANGED <<now, proc, store, rows, torn, binTodo, rowTodo>>
<1>1. faults = 0 /\ ~Fault /\ proc = "running"
  BY FaultsStay DEF OriginInv
<1> QED
  BY <1>1 DEF Next, Scan, Wake, UploadSlice, UploadSliceFails, UnlinkSlice,
         UnlinkSliceFails, ScanOver, Draining, RawSweep, NotDue, Due, ReadReady, ReadBreaks,
         Pick, PickOver, UploadTar, Materialize, Mark, HandOffFails, UnlinkBin,
         UnlinkBinFails, HandedOff, Joined, JoinTimesOut, Crash, PollCrash, Boot,
         PollBoot, pollVars, pollerButBins, memory, disk, vars

\* archive_one stamps a reference only to what it has seen arrive.
LEMMA OriginStep ==
  ASSUME UploaderTypeOK, SettledInv, OriginInv, [Next]_vars
  PROVE  OriginInv'
<1> USE DEF memory, disk
<1> SUFFICES ASSUME faults' = 0
             PROVE  OriginInv'
  BY DEF OriginInv
<1>0. /\ faults = 0 /\ ~Fault
      /\ now \in Nat /\ store \in [Feeds -> Digests \cup {NoDigest}]
      /\ rows \subseteq Row /\ binTodo \subseteq PayloadRow /\ rowTodo \subseteq Row
  BY FaultsStay DEF UploaderTypeOK, PollTypeOK
<1>6. short' = {}
  BY <1>0, ShortGrows DEF OriginInv, ReadBreaks
<1>1. CASE ~Poller
  BY <1>0, <1>1, <1>6, UploaderLeavesRows DEF OriginInv, InFlight, Earlier
<1>2. CASE Signal \/ Gathered
  BY <1>0, <1>2, <1>6 DEF OriginInv, Signal, Gathered
<1>3. CASE Tick
  <2>1. UNCHANGED <<proc, store, rows, torn, binTodo, rowTodo>> /\ now' = now + 1
    BY <1>3 DEF Tick
  <2>2. \A r \in rows : r.ts \in Nat
    BY <1>0, RowTypes
  <2> QED
    BY <1>0, <1>6, <2>1, <2>2 DEF OriginInv, InFlight, Earlier
<1>4. CASE Write
  <2>1. UNCHANGED <<now, proc, store>>
    BY <1>4 DEF Write, WriteBin, WriteBinFails, AppendRow, AppendRowFails
  <2>2. ASSUME NEW r \in binTodo, WriteBin(r)
        PROVE  OriginInv'
    <3>1. /\ binTodo' = binTodo \ {r} /\ rowTodo' = rowTodo \cup {r}
          /\ UNCHANGED <<rows, torn>>
      BY <2>2 DEF WriteBin
    <3>2. r.payload
      BY <1>0 DEF PayloadRow
    <3>3. rows' \cup InFlight' = rows \cup InFlight
      BY <3>1 DEF InFlight
    <3> QED
      BY <1>0, <1>6, <2>1, <3>1, <3>2, <3>3 DEF OriginInv, Earlier
  <2>3. ASSUME NEW r \in rowTodo, AppendRow(r)
        PROVE  OriginInv'
    <3>1. /\ rowTodo' = rowTodo \ {r} /\ rows' = rows \cup {r}
          /\ UNCHANGED <<binTodo, torn>>
      BY <1>0, <2>3 DEF AppendRow, OriginInv
    <3>2. r.ts <= now
      BY DEF SettledInv, InFlight
    <3>3. rows' \cup InFlight' = rows \cup InFlight
      BY <3>1 DEF InFlight
    <3> QED
      BY <1>0, <1>6, <2>1, <3>1, <3>2, <3>3 DEF OriginInv, Earlier
  <2> QED
    BY <1>0, <1>4, <2>2, <2>3 DEF Write, WriteBinFails, AppendRowFails
<1>5. CASE Respond
  <2>1. UNCHANGED <<now, proc, rows, torn>>
    BY <1>5 DEF Respond, NewContent, SetStateFails, OddContent, Unchanged, Refused, Poll
  <2>2. InFlight \subseteq InFlight'
    BY <1>5 DEF Respond, NewContent, SetStateFails, OddContent, Unchanged, Refused, Poll,
                InFlight
  <2>3. ASSUME NEW f \in Feeds, store'[f] # NoDigest
        PROVE  \E q \in rows' \cup InFlight' :
                 q.payload /\ q.feed = f /\ q.digest = store'[f]
    <3>1. CASE store'[f] = store[f]
      BY <1>0, <2>1, <2>2, <2>3, <3>1 DEF OriginInv
    <3>2. CASE store'[f] # store[f]
      <4>1. PICK g \in Feeds, d \in Digests : NewContent(g, d)
        BY <1>0, <1>5, <3>2 DEF Respond, SetStateFails, OddContent, Unchanged, Refused
      <4>2. g = f /\ store'[f] = d
        BY <1>0, <3>2, <4>1 DEF NewContent
      <4>3. Stamped(f, d, TRUE) \in InFlight'
        BY <4>1, <4>2 DEF NewContent, InFlight
      <4> QED
        BY <4>2, <4>3 DEF Stamped
    <3> QED
      BY <3>1, <3>2
  <2>4. ASSUME NEW r \in rowTodo', r \notin rowTodo, r.digest # NoDigest
        PROVE  \E q \in rows : Earlier(q, r) /\ q.digest = r.digest
    <3>1. PICK f \in Feeds : Unchanged(f)
      BY <1>5, <2>4 DEF Respond, NewContent, SetStateFails, OddContent, Refused, Stamped
    <3>2. /\ r.feed = f /\ r.digest = store[f] /\ r.ts = now
          /\ \A q \in InFlight : q.feed # f
      BY <2>4, <3>1 DEF Unchanged, Poll, Stamped
    <3>3. PICK q \in rows : q.payload /\ q.feed = f /\ q.digest = store[f]
      BY <1>0, <2>4, <3>2 DEF OriginInv
    <3>4. q.ts <= now
      BY <1>0, <3>3 DEF OriginInv
    <3> QED
      BY <3>2, <3>3, <3>4 DEF Earlier
  <2> QED
    BY <1>0, <1>6, <2>1, <2>3, <2>4 DEF OriginInv
<1> QED
  BY <1>1, <1>2, <1>3, <1>4, <1>5 DEF Poller

\* Whatever is in S3 stays there, and the clock does not go back.
LEMMA TimeAndTarsGrow ==
  ASSUME UploaderTypeOK, PayloadInv, SettledInv, [Next]_vars
  PROVE  s3raw \subseteq s3raw' /\ now \in Nat /\ now' \in Nat /\ now <= now'
<1>1. s3raw \subseteq s3raw'
  BY PayloadHandoffStep
     DEF PayloadHandoff!Next, PayloadHandoff!Put, PayloadHandoff!Deliver,
         PayloadHandoff!Release, PayloadHandoff!Excuse, PayloadHandoff!handoff
<1>2. now \in Nat
  BY DEF UploaderTypeOK, PollTypeOK
<1>3. CASE Poller
  BY <1>1, <1>2, <1>3, PollerSettles
<1>4. CASE ~Poller
  BY <1>1, <1>2, <1>4, OthersWait
<1> QED
  BY <1>3, <1>4

\* A row of an earlier or the same window is in a window that has closed too.
LEMMA EarlierIsClosed ==
  ASSUME NEW q \in Row, NEW r \in Row, Earlier(q, r),
         NEW t \in Nat, Closed(WindowOf(r.ts), t)
  PROVE  Closed(WindowOf(q.ts), t) /\ WindowOf(q.ts) <= WindowOf(r.ts) /\ q.ts <= t
<1>1. q.ts \in Nat /\ r.ts \in Nat /\ q.ts <= r.ts
  BY RowTypes DEF Earlier
<1>2. WindowOf(q.ts) <= WindowOf(r.ts)
  BY <1>1, WindowOrder
<1>3. /\ WindowOf(q.ts) \in Int /\ WindowOf(r.ts) \in Int
      /\ q.ts < WindowOf(q.ts) + Window
  BY <1>1, WindowBounds
<1> QED
  BY <1>1, <1>2, <1>3, LayoutAssumption DEF Closed

\* Windows are handed off oldest first, and none that has failed is left out
\* while nothing fails.
LEMMA OrderStep ==
  ASSUME MaxDelay <= Grace, UploaderTypeOK, PayloadInv, SliceInv, SettledInv,
         OriginInv, OrderInv, [Next]_vars
  PROVE  OrderInv'
<1> SUFFICES ASSUME faults' = 0, now' < 2 * Day
             PROVE  \A q \in rows' :
                      /\ \A r \in ready' :
                           Earlier(q, r) =>
                             q \in ready' \cup batch' \/ PayloadOf(q) \in s3raw'
                      /\ \A r \in batch' :
                           Earlier(q, r) => q \in batch' \/ PayloadOf(q) \in s3raw'
  BY DEF OrderInv, Earlier, PayloadOf, Bin
<1>1. /\ faults = 0 /\ ~Fault
      /\ now \in Nat /\ now < 2 * Day
      /\ s3raw \subseteq s3raw'
      /\ rows \subseteq Row /\ scanTime \in Nat
      /\ ready \cup batch \subseteq rows
      /\ proc = "running" /\ short = {}
  BY FaultsStay, TimeAndTarsGrow, LayoutAssumption
     DEF UploaderTypeOK, PollTypeOK, SliceInv, OriginInv
<1>2. \A r \in rows : r.payload /\ r \in slices \cup s3meta => PayloadOf(r) \in s3raw
  BY DEF PayloadInv, InS3
\* What arrives now is no earlier than what the sweep holds.
<1>3. ASSUME NEW r \in ready \cup batch, NEW q \in rows', Earlier(q, r)
      PROVE  q \in rows
  <2> SUFFICES ASSUME q \notin rows PROVE FALSE
    OBVIOUS
  <2>1. q \in InFlight
    BY WhereRowsComeFrom
  <2>2. q \in Row /\ r \in Row
    BY <1>1, <2>1 DEF UploaderTypeOK, PollTypeOK, InFlight, Row
  <2>3. Closed(WindowOf(r.ts), now)
    <3>1. Slot(r) \in Slots(ready) \cup Slots(batch)
      BY <1>3 DEF Slots
    <3>2. Closed(Slot(r).window, now)
      BY <3>1 DEF SettledInv
    <3> QED
      BY <3>2 DEF Slot
  <2> QED
    BY <1>1, <1>3, <2>1, <2>2, <2>3, EarlierIsClosed, NoLateWrite
<1>4. /\ \A q \in rows, r \in ready :
           Earlier(q, r) => q \in ready \cup batch \/ PayloadOf(q) \in s3raw
      /\ \A q \in rows, r \in batch : Earlier(q, r) => q \in batch \/ PayloadOf(q) \in s3raw
  BY <1>1 DEF OrderInv
<1>5. CASE ready' \in {ready, {}} /\ batch' = batch
  BY <1>1, <1>3, <1>4, <1>5
<1>6. CASE ready' = {} /\ batch' = {}
  BY <1>6
<1>7. CASE HandedOff
  <2>1. ready' = ready /\ batch' = {} /\ \A q \in batch : q.payload => PayloadOf(q) \in s3raw
    BY <1>7 DEF HandedOff, At, PayloadInv, BatchInv, InS3
  <2> QED
    BY <1>1, <1>3, <1>4, <2>1 DEF Earlier
<1>8. CASE ReadReady
  <2>1. /\ markers' \subseteq markers
        /\ ready' = {r \in ClosedRows : Slot(r) \notin markers'}
        /\ batch = {} /\ batch' = {} /\ rows' = rows
    BY <1>8 DEF ReadReady, Pruned, SliceInv, HandingOff, At, pollVars, disk
  <2>2. ASSUME NEW q \in rows, NEW r \in ready', Earlier(q, r)
        PROVE  q \in ready' \/ PayloadOf(q) \in s3raw
    <3>1. r \in rows /\ Closed(WindowOf(r.ts), scanTime)
      BY <2>1, <2>2 DEF ClosedRows
    <3>2. Closed(WindowOf(q.ts), scanTime) /\ q.ts <= scanTime
      BY <1>1, <2>2, <3>1, EarlierIsClosed
    <3>3. q.ts \in Nat /\ scanTime < 2 * Day
      BY <1>1, RowTypes, LayoutAssumption DEF SettledInv
    <3>4. q \in ClosedRows
      BY <1>1, <3>2, <3>3, NothingTooOld DEF ClosedRows
    <3>5. CASE Slot(q) \in markers
      BY <1>1, <1>2, <2>2, <3>5 DEF SettledInv, MarkedRowsHandedOff, Earlier
    <3> QED
      BY <2>1, <3>4, <3>5
  <2> QED
    BY <1>1, <2>1, <2>2
<1>9. ASSUME NEW s \in Slots(ready), Pick(s)
      PROVE  \A q \in rows' :
               /\ \A r \in ready' :
                    Earlier(q, r) => q \in ready' \cup batch' \/ PayloadOf(q) \in s3raw'
               /\ \A r \in batch' :
                    Earlier(q, r) => q \in batch' \/ PayloadOf(q) \in s3raw'
  <2>1. /\ \A p \in Slots(ready) : s.window <= p.window
        /\ batch' = OfSlot(ready, s)
        /\ ready' = ready \ OfSlot(ready, s)
        /\ batch = {} /\ rows' = rows
    BY <1>9 DEF Pick, SliceInv, HandingOff, At, pollVars, disk
  <2>2. ready' \cup batch' = ready
    BY <2>1 DEF OfSlot
  <2>3. ASSUME NEW q \in ready, NEW r \in batch', Earlier(q, r)
        PROVE  q \in batch'
    <3>1. r \in ready /\ Slot(r) = s
      BY <2>1, <2>3 DEF OfSlot
    <3>2. q.ts \in Nat /\ r.ts \in Nat /\ q.ts <= r.ts /\ q.feed = r.feed
      BY <1>1, <2>3, <3>1, RowTypes DEF Earlier
    <3>3. WindowOf(q.ts) <= WindowOf(r.ts) /\ WindowOf(q.ts) \in Int /\ WindowOf(r.ts) \in Int
      BY <3>2, WindowOrder, WindowBounds
    <3>4. WindowOf(r.ts) <= WindowOf(q.ts)
      <4>1. Slot(q) \in Slots(ready)
        BY <2>3 DEF Slots
      <4>2. s.window <= Slot(q).window
        BY <2>1, <4>1
      <4> QED
        BY <3>1, <4>2 DEF Slot
    <3>5. Slot(q) = s
      BY <3>1, <3>2, <3>3, <3>4 DEF Slot
    <3> QED
      BY <2>1, <3>5 DEF OfSlot
  <2> QED
    BY <1>1, <1>4, <2>1, <2>2, <2>3
\* Nothing else empties the sweep's hands while nothing fails.
<1>10. \/ ReadReady \/ (\E s \in Slots(ready) : Pick(s)) \/ HandedOff
       \/ ready' \in {ready, {}} /\ batch' = batch
       \/ ready' = {} /\ batch' = {}
  BY <1>1 DEF Next, Poller, Scan, Wake, UploadSlice, UploadSliceFails, UnlinkSlice,
       UnlinkSliceFails, ScanOver, RawSweep, NotDue, Due, ReadBreaks, PickOver,
       UploadTar, Materialize, Mark, HandOffFails, UnlinkBin, UnlinkBinFails,
       Joined, JoinTimesOut, Crash, Boot, WorkerReset, vars, worker
<1> QED
  BY <1>5, <1>6, <1>7, <1>8, <1>9, <1>10

\* A row is in a slice only once its reference is in S3.
LEMMA ResolvedStep ==
  ASSUME UploaderTypeOK, PayloadInv, SliceInv, SettledInv, OriginInv, OrderInv,
         ResolvedInv, [Next]_vars
  PROVE  ResolvedInv'
<1> SUFFICES ASSUME faults' = 0, now' < 2 * Day, NEW r \in slices' \cup s3meta',
                    r.digest # NoDigest
             PROVE  \E b \in s3raw' : b.feed = r.feed /\ b.digest = r.digest
  BY DEF ResolvedInv, Resolves
<1>1. faults = 0 /\ now < 2 * Day /\ s3raw \subseteq s3raw'
  BY FaultsStay, TimeAndTarsGrow, LayoutAssumption
<1>2. CASE r \in slices \cup s3meta
  BY <1>1, <1>2 DEF ResolvedInv, Resolves
<1>3. CASE r \notin slices \cup s3meta
  <2>1. Materialize
    <3>1. \/ Materialize
          \/ \E s \in pending : UploadSlice(s)
          \/ slices' \subseteq slices /\ s3meta' \subseteq s3meta
      BY DEF Next, Poller, Scan, Wake, UploadSliceFails, UnlinkSlice,
         UnlinkSliceFails, ScanOver, RawSweep, NotDue, Due, ReadReady, ReadBreaks, Pick,
         PickOver, UploadTar, Mark, HandOffFails, UnlinkBin, UnlinkBinFails,
         HandedOff, Joined, JoinTimesOut, Crash, Boot, vars, s3, landing
    <3>2. (\E s \in pending : UploadSlice(s))
            => slices' \cup s3meta' \subseteq slices \cup s3meta
      BY DEF UploadSlice, OfSlot, landing
    <3> QED
      BY <1>3, <3>1, <3>2
  <2>2. r \in batch /\ pc = "materialize"
    BY <1>3, <2>1 DEF Materialize, Outside, At, s3
  <2>3. r \in rows /\ InS3(batch)
    BY <2>2 DEF SliceInv, PayloadInv, BatchInv
  <2>4. PICK q \in rows : q.payload /\ q.feed = r.feed /\ q.digest = r.digest
                            /\ PayloadOf(q) \in s3raw
    <3>1. CASE r.payload
      BY <2>2, <2>3, <3>1 DEF InS3
    <3>2. CASE ~r.payload
      <4>1. PICK q \in rows : Earlier(q, r) /\ q.digest = r.digest
        BY <1>1, <2>3, <3>2 DEF OriginInv
      <4>2. q \in batch \/ PayloadOf(q) \in s3raw
        BY <1>1, <2>2, <4>1 DEF OrderInv
      <4> QED
        BY <2>3, <4>1, <4>2 DEF Earlier, InS3
    <3> QED
      BY <3>1, <3>2
  <2> QED
    BY <1>1, <2>4 DEF PayloadOf, Bin
<1> QED
  BY <1>2, <1>3

\* While nothing has failed, and for the first two days, every reference of a
\* row in S3 can be resolved there, if every write is on disk before its
\* window's grace period ends.
THEOREM ReferencesAreDurable ==
  MaxDelay <= Grace => (Spec => []ReferencesResolve)
<1> SUFFICES ASSUME MaxDelay <= Grace
             PROVE  Spec => []ReferencesResolve
  OBVIOUS
<1>1. Init => SettledInv /\ OriginInv /\ OrderInv /\ ResolvedInv
  BY DEF Init, PollInit, WorkerInit, SettledInv, Covers, Slots, InFlight,
         MarkedRowsHandedOff, OriginInv, OrderInv, ResolvedInv
<1>2. /\ UploaderTypeOK /\ UploaderTypeOK' /\ SliceInv /\ SettledInv /\ [Next]_vars
      => SettledInv'
  BY SettledStep
<1>3. UploaderTypeOK /\ SettledInv /\ OriginInv /\ [Next]_vars => OriginInv'
  BY OriginStep
<1>4. /\ UploaderTypeOK /\ PayloadInv /\ SliceInv /\ SettledInv
      /\ OriginInv /\ OrderInv /\ [Next]_vars
      => OrderInv'
  BY OrderStep
<1>5. /\ UploaderTypeOK /\ PayloadInv /\ SliceInv /\ SettledInv
      /\ OriginInv /\ OrderInv /\ ResolvedInv /\ [Next]_vars
      => ResolvedInv'
  BY ResolvedStep
<1>6. ResolvedInv => ReferencesResolve
  BY DEF ResolvedInv, Resolves, ReferencesResolve
<1> QED
  BY <1>1, <1>2, <1>3, <1>4, <1>5, <1>6, TypeCorrect, PayloadInvariance,
     SliceInvariance, PTL DEF Spec

=============================================================================
