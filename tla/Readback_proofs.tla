---------------------------- MODULE Readback_proofs ----------------------------
(***************************************************************************)
(* What is read back is what was written: the polls and payloads of a day  *)
(* from the landing files, for any number of polls, cut appends and tars;  *)
(* the rows of its payloads, for any payloads; and the visits of a day     *)
(* from its trip updates, whether, how often, in which batches or by whom  *)
(* these were compacted, for any rows.                                     *)
(***************************************************************************)
EXTENDS Readback, Compaction, ListFacts

-----------------------------------------------------------------------------
(* The landing readers: what reading a file's lines gives.                 *)

\* A file is of rows and torn lines.
Lines == Seq(Polled \cup {Torn})

\* No row is a torn line.
LEMMA TornIsNoPoll ==
  \A r \in Polled : r # Torn /\ r.at \in Nat
<1> TAKE r \in Polled
<1>1. "at" \in DOMAIN r /\ r.at \in Nat
  BY DEF Polled
<1>2. "at" \notin DOMAIN Torn
  BY DEF Torn
<1> QED
  BY <1>1, <1>2

\* Rows have times that go up.
Forward(lines) ==
  \A i, j \in DOMAIN lines :
    lines[i] # Torn /\ lines[j] # Torn /\ i < j => lines[i].at < lines[j].at

\* The usable lines of a file are its rows.
LEMMA UsableRows ==
  ASSUME NEW lines \in Lines
  PROVE  /\ Usable(lines) \in Seq(Polled)
         /\ ToSet(Usable(lines)) = ToSet(lines) \ {Torn}
         /\ ToSet(Usable(lines)) \subseteq Polled
         /\ Torn \notin ToSet(lines) => Usable(lines) = lines
<1> DEFINE places == {i \in DOMAIN lines : lines[i] # Torn}
<1>1. Usable(lines) = ItemsAt(lines, places)
  BY DEF Usable
<1>2. lines \in Seq(Polled \cup {Torn})
  BY DEF Lines
<1> HIDE DEF places
<1>3. /\ ToSet(Usable(lines)) = {lines[i] : i \in places \cap DOMAIN lines}
      /\ Usable(lines) \in Seq(Polled \cup {Torn})
      /\ DOMAIN lines \subseteq places => Usable(lines) = lines
  BY <1>1, <1>2, KeptLines
<1>4. ToSet(Usable(lines)) = ToSet(lines) \ {Torn}
  BY <1>3 DEF places, ToSet
<1>5. ToSet(lines) \subseteq Polled \cup {Torn}
  BY <1>2 DEF ToSet
<1>6. ToSet(Usable(lines)) \subseteq Polled
  BY <1>4, <1>5
<1>7. Usable(lines) \in Seq(Polled)
  BY <1>3, <1>6, Narrowed
<1>8. ASSUME Torn \notin ToSet(lines) PROVE DOMAIN lines \subseteq places
  BY <1>8 DEF ToSet, places
<1> QED
  BY <1>3, <1>4, <1>6, <1>7, <1>8

\* One more line is usable if it is a row.
LEMMA UsableAfterAppend ==
  ASSUME NEW lines \in Lines, NEW x \in Polled \cup {Torn}
  PROVE  /\ Append(lines, x) \in Lines
         /\ Len(Append(lines, x)) = Len(lines) + 1
         /\ Usable(Append(lines, x)) = IF x = Torn THEN Usable(lines)
                                                   ELSE Append(Usable(lines), x)
<1> DEFINE longer == Append(lines, x)
           places == {i \in DOMAIN lines : lines[i] # Torn}
           more == {i \in DOMAIN longer : longer[i] # Torn}
<1>1. lines \in Seq(Polled \cup {Torn})
  BY DEF Lines
<1>2. /\ longer \in Seq(Polled \cup {Torn}) /\ Len(lines) \in Nat
      /\ DOMAIN lines = 1..Len(lines) /\ DOMAIN longer = 1..(Len(lines) + 1)
      /\ Len(longer) = Len(lines) + 1
      /\ \A i \in 1..Len(lines) : longer[i] = lines[i]
      /\ longer[Len(lines) + 1] = x
  BY <1>1, OneMore
<1>3. /\ \A i \in 1..Len(lines) : i \in places <=> i \in more
      /\ Len(lines) + 1 \in more <=> x # Torn
  <2>1. \A i \in 1..Len(lines) : i \in 1..(Len(lines) + 1)
    BY <1>2
  <2>2. Len(lines) + 1 \in 1..(Len(lines) + 1)
    BY <1>2
  <2> HIDE DEF longer
  <2> QED
    BY <1>2, <2>1, <2>2
<1>4. Usable(lines) = ItemsAt(lines, places) /\ Usable(longer) = ItemsAt(longer, more)
  BY DEF Usable
<1> HIDE DEF places, more
<1>5. ItemsAt(longer, more) = IF Len(lines) + 1 \in more THEN Append(ItemsAt(lines, places), x)
                                                         ELSE ItemsAt(lines, places)
  BY <1>1, <1>3, KeptAfterAppend
<1> HIDE DEF longer
<1>6. Usable(longer) = IF x = Torn THEN Usable(lines) ELSE Append(Usable(lines), x)
  BY <1>3, <1>4, <1>5
<1> QED
  BY <1>2, <1>6 DEF longer, Lines

\* A file whose rows have times that go up repeats none of them.
LEMMA ForwardIsDeduped ==
  ASSUME NEW lines \in Lines, Forward(lines)
  PROVE  Dedupe(lines) = lines
<1> DEFINE firsts == {i \in DOMAIN lines :
                        lines[i] = Torn \/ \A j \in 1..(i-1) : lines[j] # lines[i]}
<1>1. lines \in Seq(Polled \cup {Torn})
  BY DEF Lines
<1>2. Len(lines) \in Nat /\ DOMAIN lines = 1..Len(lines)
  BY <1>1
<1>3. ASSUME NEW i \in DOMAIN lines, lines[i] # Torn, NEW j \in 1..(i-1)
      PROVE  lines[j] # lines[i]
  <2>1. j \in DOMAIN lines /\ j < i
    BY <1>2
  <2>2. lines[i] \in Polled
    BY <1>1, <1>2, <1>3
  <2>3. lines[i].at \in Nat
    BY <2>2, TornIsNoPoll
  <2>4. lines[j] # Torn => lines[j].at < lines[i].at
    BY <2>1, <1>3 DEF Forward
  <2> QED
    BY <2>3, <2>4, <1>3
<1>4. DOMAIN lines \subseteq firsts
  BY <1>3
<1>5. Dedupe(lines) = ItemsAt(lines, firsts)
  BY DEF Dedupe
<1> HIDE DEF firsts
<1> QED
  BY <1>1, <1>4, <1>5, KeptLines

\* Of rows alone, the first of each is left, and all of them are usable.
LEMMA DedupedRows ==
  ASSUME NEW rows \in Seq(Polled)
  PROVE  /\ Dedupe(rows) \in Seq(Polled)
         /\ ToSet(Dedupe(rows)) = ToSet(rows)
         /\ IsInjective(Dedupe(rows))
         /\ Usable(Dedupe(rows)) = Dedupe(rows)
<1> DEFINE firsts == {i \in DOMAIN rows :
                        rows[i] = Torn \/ \A j \in 1..(i-1) : rows[j] # rows[i]}
<1>1. Len(rows) \in Nat /\ DOMAIN rows = 1..Len(rows) /\ \A i \in DOMAIN rows : rows[i] \in Polled
  OBVIOUS
<1>2. \A i \in firsts : i \in DOMAIN rows /\ \A j \in 1..(i-1) : rows[j] # rows[i]
  BY <1>1, TornIsNoPoll
<1>3. ASSUME NEW i \in firsts, NEW j \in firsts, rows[i] = rows[j] PROVE i = j
  <2>1. i \in Nat /\ j \in Nat /\ i >= 1 /\ j >= 1
    BY <1>1, <1>2
  <2>2. CASE i < j
    <3>1. i \in 1..(j-1)
      BY <2>1, <2>2
    <3> QED
      BY <3>1, <1>2, <1>3
  <2>3. CASE j < i
    <3>1. j \in 1..(i-1)
      BY <2>1, <2>3
    <3> QED
      BY <3>1, <1>2, <1>3
  <2> HIDE DEF firsts
  <2> QED
    BY <2>1, <2>2, <2>3
<1>4. ASSUME NEW i \in DOMAIN rows PROVE \E k \in firsts : rows[k] = rows[i]
  <2> DEFINE same == {k \in DOMAIN rows : rows[k] = rows[i]}
  <2>1. same \subseteq Nat /\ same # {}
    BY <1>1
  <2>2. PICK k \in same : \A l \in same : k <= l
    <3> HIDE DEF same
    <3> QED
      BY <2>1, LeastOf
  <2>3. k \in DOMAIN rows /\ rows[k] = rows[i]
    OBVIOUS
  <2>4. ASSUME NEW j \in 1..(k-1), rows[j] = rows[k] PROVE FALSE
    <3>1. j \in DOMAIN rows /\ ~(k <= j)
      BY <2>3, <1>1
    <3> QED
      BY <3>1, <2>2, <2>3, <2>4
  <2>5. k \in firsts
    BY <2>3, <2>4
  <2> QED
    BY <2>3, <2>5
<1>5. Dedupe(rows) = ItemsAt(rows, firsts)
  BY DEF Dedupe
<1>6. firsts \subseteq DOMAIN rows
  BY <1>2
<1> HIDE DEF firsts
<1>7. /\ Dedupe(rows) \in Seq(Polled)
      /\ ToSet(Dedupe(rows)) = {rows[i] : i \in firsts \cap DOMAIN rows}
      /\ (\A i, j \in firsts \cap DOMAIN rows : rows[i] = rows[j] => i = j)
           => IsInjective(Dedupe(rows))
  BY <1>5, KeptLines
<1>8. ToSet(Dedupe(rows)) = ToSet(rows)
  <2>1. \A x \in ToSet(Dedupe(rows)) : x \in ToSet(rows)
    BY <1>7 DEF ToSet
  <2>2. ASSUME NEW x \in ToSet(rows) PROVE x \in ToSet(Dedupe(rows))
    <3>1. PICK i \in DOMAIN rows : x = rows[i]
      BY DEF ToSet
    <3>2. PICK k \in firsts : rows[k] = rows[i]
      BY <1>4
    <3> QED
      BY <3>1, <3>2, <1>6, <1>7
  <2> QED
    BY <2>1, <2>2
<1>9. IsInjective(Dedupe(rows))
  BY <1>3, <1>7
<1>10. Usable(Dedupe(rows)) = Dedupe(rows)
  <2> DEFINE d == Dedupe(rows)
  <2>1. Torn \notin ToSet(d)
    <3>1. ToSet(d) \subseteq Polled
      BY <1>8, <1>1 DEF ToSet
    <3> HIDE DEF d
    <3> QED
      BY <3>1, TornIsNoPoll
  <2>2. d \in Lines
    BY <1>7 DEF Lines
  <2> HIDE DEF d
  <2>3. Usable(d) = d
    BY <2>1, <2>2, UsableRows
  <2> QED
    BY <2>3 DEF d
<1> QED
  BY <1>7, <1>8, <1>9, <1>10

-----------------------------------------------------------------------------
(* What the poller and the uploader leave.                                 *)

\* Rows were appended in the order of their times.
RowsGoUp ==
  /\ Forward(log)
  /\ \A r \in LoggedRows : r.at < time

\* A torn line, or the partial line at the end, is a cut append.
TornAreCut == Len(log) - Len(Usable(log)) + (IF cut THEN 1 ELSE 0) <= tears

\* The windows of a set of rows are past, and it has every row of them.
WholeWindows(rows, logged, now) ==
  /\ rows \subseteq logged
  /\ \A r \in rows : WindowOf(r.at) + Window <= now
  /\ \A r \in rows, s \in logged : WindowOf(r.at) = WindowOf(s.at) => s \in rows

SlicesWhole ==
  \A w \in DayWindows :
    /\ \A r \in ToSet(slices[w]) : WindowOf(r.at) = w
    /\ WholeWindows(ToSet(slices[w]), LoggedRows, time)

\* The inductive invariant: what is sliced is past, and sliced whole.
ReaderInv ==
  /\ ReaderTypeOK
  /\ RowsGoUp
  /\ TornAreCut
  /\ SlicesWhole
  /\ WholeWindows(ToSet(hour), LoggedRows, time)

\* A time is in its window.
LEMMA InItsWindow ==
  ASSUME NEW t \in Nat
  PROVE  WindowOf(t) \in Int /\ WindowOf(t) <= t /\ t < WindowOf(t) + Window
<1>1. Window \in Nat \ {0}
  BY LayoutAssumption
<1>2. t % Window \in 0..(Window - 1)
  BY <1>1
<1> QED
  BY <1>1, <1>2 DEF WindowOf

\* The rows of the log.
LEMMA Logged ==
  ASSUME ReaderTypeOK
  PROVE  /\ log \in Lines
         /\ LoggedRows = ToSet(log) \ {Torn}
         /\ LoggedRows \subseteq Polled
         /\ \A r \in LoggedRows : r.at \in Nat
<1>1. log \in Lines
  BY DEF ReaderTypeOK, Lines
<1>2. LoggedRows = ToSet(log) \ {Torn} /\ LoggedRows \subseteq Polled
  BY <1>1, UsableRows DEF LoggedRows
<1> QED
  BY <1>1, <1>2, TornIsNoPoll

\* The slices in the order of their windows.
LEMMA SlicesInOrder ==
  ASSUME ReaderTypeOK, MaxLines \in Nat
  PROVE  /\ Slices \in Seq(Polled)
         /\ ToSet(Slices) = UNION {ToSet(slices[w]) : w \in DayWindows}
<1> DEFINE seqs == [n \in 1..(LastWindow + 1) |-> slices[Window * (n - 1)]]
<1>1. LastWindow \in Nat
  BY LayoutAssumption, Z3 DEF LastWindow
<1>2. \A n \in 1..(LastWindow + 1) : Window * (n - 1) \in DayWindows
  <2> TAKE n \in 1..(LastWindow + 1)
  <2>1. n - 1 \in 0..LastWindow
    BY <1>1
  <2> QED
    BY <2>1 DEF DayWindows
<1>3. ASSUME NEW w \in DayWindows PROVE \E n \in 1..(LastWindow + 1) : w = Window * (n - 1)
  <2>1. PICK k \in 0..LastWindow : w = Window * k
    BY DEF DayWindows
  <2>2. k + 1 \in 1..(LastWindow + 1) /\ (k + 1) - 1 = k
    BY <1>1
  <2> QED
    BY <2>1, <2>2
<1>4. seqs \in Seq(Seq(Polled)) /\ Len(seqs) = LastWindow + 1
  <2>1. \A n \in 1..(LastWindow + 1) : slices[Window * (n - 1)] \in Seq(Polled)
    BY <1>2 DEF ReaderTypeOK
  <2> QED
    BY <1>1, <2>1
<1>5. \A n \in 1..(LastWindow + 1) : seqs[n] = slices[Window * (n - 1)]
  OBVIOUS
<1>6. Slices = FlattenSeq(seqs)
  BY DEF Slices
<1> HIDE DEF seqs
<1>7. Slices \in Seq(Polled)
  BY <1>4, <1>6, FlattenedSet
<1>8. ToSet(Slices) = UNION {ToSet(seqs[i]) : i \in 1..Len(seqs)}
  BY <1>4, <1>6, FlattenedSet
<1>9. ASSUME NEW x \in ToSet(Slices) PROVE \E w \in DayWindows : x \in ToSet(slices[w])
  <2>1. PICK n \in 1..(LastWindow + 1) : x \in ToSet(seqs[n])
    BY <1>4, <1>8
  <2> DEFINE v == Window * (n - 1)
  <2>2. seqs[n] = slices[v] /\ v \in DayWindows
    BY <1>2, <1>5
  <2> HIDE DEF v
  <2>3. x \in ToSet(slices[v])
    BY <2>1, <2>2
  <2>4. v \in DayWindows
    BY <2>2
  <2> QED
    BY <2>3, <2>4
<1>10. ASSUME NEW w \in DayWindows, NEW x \in ToSet(slices[w]) PROVE x \in ToSet(Slices)
  <2>1. PICK n \in 1..(LastWindow + 1) : w = Window * (n - 1)
    BY <1>3
  <2>2. x \in ToSet(seqs[n]) /\ n \in 1..Len(seqs)
    BY <2>1, <1>4, <1>5
  <2> QED
    BY <2>2, <1>8
<1> QED
  BY <1>7, <1>9, <1>10

\* What slices hold together holds whole windows.
LEMMA WholeSlices ==
  ASSUME ReaderInv, MaxLines \in Nat
  PROVE  WholeWindows(ToSet(Slices), LoggedRows, time)
<1>1. ToSet(Slices) = UNION {ToSet(slices[w]) : w \in DayWindows}
  BY SlicesInOrder DEF ReaderInv
<1> QED
  BY <1>1 DEF ReaderInv, SlicesWhole, WholeWindows

\* Nothing was written.
LEMMA ReaderInitInv ==
  ASSUME MaxLines \in Nat, MaxTears \in Nat, ReaderInit
  PROVE  ReaderInv
<1>1. ToSet(<<>>) = {} /\ \A S : <<>> \in Seq(S)
  <2>1. DOMAIN <<>> = {}
    OBVIOUS
  <2> QED
    BY <2>1 DEF ToSet
<1>2. ReaderTypeOK
  <2>1. <<>> \in Seq(Polled) /\ <<>> \in Seq(Polled \cup {Torn}) /\ <<>> \in Seq(Tars)
    BY <1>1
  <2>2. slices \in [DayWindows -> Seq(Polled)]
    BY <2>1 DEF ReaderInit
  <2>3. 0 \in 0..MaxLines /\ 0 \in 0..MaxTears
    OBVIOUS
  <2>4. /\ time = 0 /\ tears = 0 /\ log = <<>> /\ hour = <<>> /\ tars = <<>>
        /\ cut \in BOOLEAN
    BY DEF ReaderInit
  <2>5. /\ log \in Seq(Polled \cup {Torn}) /\ hour \in Seq(Polled) /\ tars \in Seq(Tars)
        /\ time \in 0..MaxLines /\ tears \in 0..MaxTears
    BY <2>1, <2>3, <2>4
  <2> QED
    BY <2>2, <2>4, <2>5 DEF ReaderTypeOK
<1>3. LoggedRows = {}
  BY <1>1, <1>2, Logged DEF ReaderInit
<1>4. RowsGoUp
  <2>1. DOMAIN log = {}
    BY DEF ReaderInit
  <2> QED
    BY <2>1, <1>3 DEF RowsGoUp, Forward
<1>5. TornAreCut
  <2>1. Usable(log) = log
    BY <1>1, <1>2, Logged, UsableRows DEF ReaderInit
  <2>2. Len(log) = 0
    BY DEF ReaderInit
  <2> QED
    BY <2>1, <2>2 DEF TornAreCut, ReaderInit
<1>6. SlicesWhole
  BY <1>1 DEF SlicesWhole, WholeWindows, ReaderInit
<1>7. WholeWindows(ToSet(hour), LoggedRows, time)
  BY <1>1 DEF WholeWindows, ReaderInit
<1> QED
  BY <1>2, <1>4, <1>5, <1>6, <1>7 DEF ReaderInv

\* Windows that are past stay whole when a row of now is logged.
LEMMA StillWhole ==
  ASSUME NEW rows, NEW old, NEW new, new \subseteq Polled, NEW now \in Nat,
         WholeWindows(rows, old, now), old \subseteq new,
         \A r \in new : r \in old \/ r.at = now
  PROVE  WholeWindows(rows, new, now + 1)
<1>1. \A r \in rows : r \in old /\ r \in new /\ r \in Polled
  BY DEF WholeWindows
<1>2. \A r \in rows : r.at \in Nat
  BY <1>1, TornIsNoPoll
<1>3. \A r \in rows : WindowOf(r.at) \in Int
  BY <1>2, InItsWindow
<1>4. Window \in Nat
  BY LayoutAssumption
<1>5. \A r \in rows : WindowOf(r.at) + Window <= now
  BY DEF WholeWindows
<1>6. \A r \in rows : WindowOf(r.at) + Window <= now + 1
  BY <1>3, <1>4, <1>5
<1>7. ASSUME NEW r \in rows, NEW s \in new, WindowOf(r.at) = WindowOf(s.at)
      PROVE  s \in rows
  <2>1. CASE s \in old
    BY <2>1, <1>7 DEF WholeWindows
  <2>2. CASE s.at = now
    <3>1. now < WindowOf(now) + Window /\ WindowOf(now) \in Int
      BY InItsWindow
    <3>2. WindowOf(now) + Window <= now
      BY <2>2, <1>5, <1>7
    <3> QED
      BY <3>1, <3>2, <1>4
  <2> QED
    BY <2>1, <2>2
<1> QED
  BY <1>1, <1>6, <1>7 DEF WholeWindows

\* A poll's row is logged, or lost in the line it was glued to.
LEMMA AppendKeeps ==
  ASSUME ReaderInv, MaxLines \in Nat, NEW d \in Contents \cup {NoDigest}, AppendPoll(d)
  PROVE  ReaderInv'
<1> DEFINE x == IF cut THEN Torn ELSE [at |-> time, digest |-> d]
<1>1. /\ time \in Nat /\ time < MaxLines /\ time' = time + 1 /\ cut' = FALSE
      /\ log' = Append(log, x)
      /\ tears' = tears /\ slices' = slices /\ hour' = hour /\ tars' = tars
  BY DEF AppendPoll, ReaderInv, ReaderTypeOK
<1>2. x \in Polled \cup {Torn} /\ (x # Torn <=> ~cut) /\ (x # Torn => x.at = time)
  <2>1. [at |-> time, digest |-> d] \in Polled
    BY <1>1 DEF Polled
  <2> QED
    BY <2>1, TornIsNoPoll
<1> HIDE DEF x
<1>3. log \in Lines /\ LoggedRows = ToSet(log) \ {Torn} /\ LoggedRows \subseteq Polled
  BY Logged DEF ReaderInv
<1>4. log' \in Lines /\ Len(log') = Len(log) + 1
  BY <1>1, <1>2, <1>3, UsableAfterAppend
<1>5. Usable(log') = IF x = Torn THEN Usable(log) ELSE Append(Usable(log), x)
  BY <1>1, <1>2, <1>3, UsableAfterAppend
<1>6. ReaderTypeOK'
  <2>1. log' \in Seq(Polled \cup {Torn})
    BY <1>4 DEF Lines
  <2>2. time' \in 0..MaxLines
    <3>1. time \in 0..MaxLines
      BY DEF ReaderInv, ReaderTypeOK
    <3> QED
      BY <3>1, <1>1
  <2> QED
    BY <1>1, <2>1, <2>2 DEF ReaderInv, ReaderTypeOK
<1>7. LoggedRows' = ToSet(log') \ {Torn} /\ LoggedRows' \subseteq Polled
  <2>1. LoggedRows' = ToSet(Usable(log'))
    BY DEF LoggedRows
  <2> QED
    BY <2>1, <1>4, UsableRows
<1>8. ToSet(log') = ToSet(log) \cup {x}
  BY <1>1, <1>2, <1>3, OneMore DEF Lines
<1>9. /\ LoggedRows \subseteq LoggedRows'
      /\ \A r \in LoggedRows' : r \in LoggedRows \/ r.at = time
  BY <1>2, <1>3, <1>7, <1>8
<1>10. RowsGoUp'
  <2>1. \A r \in LoggedRows : r.at < time /\ r.at \in Nat
    BY <1>3, TornIsNoPoll DEF ReaderInv, RowsGoUp
  <2>2. \A r \in LoggedRows' : r.at < time'
    BY <1>1, <1>9, <2>1
  <2>3. /\ DOMAIN log = 1..Len(log) /\ Len(log) \in Nat /\ DOMAIN log' = 1..(Len(log) + 1)
        /\ \A i \in 1..Len(log) : log'[i] = log[i]
        /\ log'[Len(log) + 1] = x
    BY <1>1, <1>2, <1>3, OneMore DEF Lines
  <2>4. ASSUME NEW i \in DOMAIN log', NEW j \in DOMAIN log',
               log'[i] # Torn, log'[j] # Torn, i < j
        PROVE  log'[i].at < log'[j].at
    <3>1. i \in 1..Len(log) /\ (j \in 1..Len(log) \/ j = Len(log) + 1)
      BY <2>3, <2>4
    <3>2. CASE j \in 1..Len(log)
      BY <3>1, <3>2, <2>3, <2>4 DEF ReaderInv, RowsGoUp, Forward
    <3>3. CASE j = Len(log) + 1
      <4>1. log'[j] = x /\ log'[j].at = time
        BY <3>3, <2>3, <2>4, <1>2
      <4>2. log'[i] \in LoggedRows
        BY <3>1, <2>3, <2>4, <1>3 DEF ToSet
      <4> QED
        BY <4>1, <4>2, <2>1
    <3> QED
      BY <3>1, <3>2, <3>3
  <2>5. Forward(log)'
    BY <2>4 DEF Forward
  <2> QED
    BY <2>2, <2>5 DEF RowsGoUp
<1>11. TornAreCut'
  <2>1. /\ Usable(log) \in Seq(Polled) /\ Len(log) \in Nat /\ tears \in Int
    BY <1>3, UsableRows DEF Lines, ReaderInv, ReaderTypeOK
  <2>2. Len(Usable(log)) \in Nat
    BY <2>1
  <2>3. Len(Usable(log')) = IF x = Torn THEN Len(Usable(log)) ELSE Len(Usable(log)) + 1
    <3>1. x # Torn => x \in Polled
      BY <1>2
    <3> QED
      BY <3>1, <2>1, <1>5
  <2>4. Len(log) - Len(Usable(log)) + (IF cut THEN 1 ELSE 0) <= tears
    BY DEF ReaderInv, TornAreCut
  <2>5. Len(log') - Len(Usable(log')) + 0 <= tears'
    <3>1. CASE cut
      BY <3>1, <2>1, <2>2, <2>3, <2>4, <1>1, <1>2, <1>4
    <3>2. CASE ~cut
      BY <3>2, <2>1, <2>2, <2>3, <2>4, <1>1, <1>2, <1>4
    <3> QED
      BY <3>1, <3>2
  <2> QED
    BY <2>5, <1>1 DEF TornAreCut
<1>12. \A rows : WholeWindows(rows, LoggedRows, time) => WholeWindows(rows, LoggedRows', time')
  BY <1>1, <1>7, <1>9, StillWhole
<1>13. SlicesWhole'
  <2>1. \A w \in DayWindows : /\ \A r \in ToSet(slices[w]) : WindowOf(r.at) = w
                              /\ WholeWindows(ToSet(slices[w]), LoggedRows', time')
    BY <1>12 DEF ReaderInv, SlicesWhole
  <2> QED
    BY <2>1, <1>1 DEF SlicesWhole
<1>14. WholeWindows(ToSet(hour), LoggedRows, time)'
  <2>1. WholeWindows(ToSet(hour), LoggedRows', time')
    BY <1>12 DEF ReaderInv
  <2>2. WholeWindows(ToSet(hour'), LoggedRows', time')
    BY <2>1, <1>1
  <2> QED
    BY <2>2 DEF WholeWindows
<1> QED
  BY <1>6, <1>10, <1>11, <1>13, <1>14 DEF ReaderInv

\* A cut append leaves a partial line, and takes its poll's time.
LEMMA TearKeeps ==
  ASSUME ReaderInv, MaxLines \in Nat, MaxTears \in Nat, TearAppend
  PROVE  ReaderInv'
<1>1. /\ time \in Nat /\ time' = time + 1 /\ cut' = TRUE /\ tears' = tears + 1
      /\ log' = log /\ slices' = slices /\ hour' = hour /\ tars' = tars
  BY DEF TearAppend, ReaderInv, ReaderTypeOK
<1>2. ReaderTypeOK'
  <2>1. time \in 0..MaxLines /\ time < MaxLines /\ tears \in 0..MaxTears /\ tears < MaxTears
    BY DEF TearAppend, ReaderInv, ReaderTypeOK
  <2>2. time' \in 0..MaxLines /\ tears' \in 0..MaxTears
    BY <2>1, <1>1
  <2> QED
    BY <2>2, <1>1 DEF ReaderInv, ReaderTypeOK
<1>3. LoggedRows' = LoggedRows /\ LoggedRows \subseteq Polled /\ \A r \in LoggedRows : r.at \in Nat
  BY <1>1, Logged DEF LoggedRows, ReaderInv
<1>4. RowsGoUp'
  <2>1. \A r \in LoggedRows' : r.at < time'
    BY <1>1, <1>3 DEF ReaderInv, RowsGoUp
  <2> QED
    BY <2>1, <1>1 DEF ReaderInv, RowsGoUp, Forward
<1>5. TornAreCut'
  <2>1. Usable(log) \in Seq(Polled) /\ log \in Lines
    BY Logged, UsableRows DEF ReaderInv
  <2>2. Len(log) \in Nat /\ Len(Usable(log)) \in Nat /\ tears \in Int
    BY <2>1 DEF Lines, ReaderInv, ReaderTypeOK
  <2>3. Len(log) - Len(Usable(log)) + (IF cut THEN 1 ELSE 0) <= tears
    BY DEF ReaderInv, TornAreCut
  <2>4. Len(log) - Len(Usable(log)) + 1 <= tears + 1
    BY <2>2, <2>3
  <2> QED
    BY <2>4, <1>1 DEF TornAreCut
<1>6. \A rows : WholeWindows(rows, LoggedRows, time) => WholeWindows(rows, LoggedRows', time')
  BY <1>1, <1>3, StillWhole
<1>7. SlicesWhole'
  <2>1. \A w \in DayWindows : /\ \A r \in ToSet(slices[w]) : WindowOf(r.at) = w
                              /\ WholeWindows(ToSet(slices[w]), LoggedRows', time')
    BY <1>6 DEF ReaderInv, SlicesWhole
  <2> QED
    BY <2>1, <1>1 DEF SlicesWhole
<1>8. WholeWindows(ToSet(hour), LoggedRows, time)'
  <2>1. WholeWindows(ToSet(hour), LoggedRows', time')
    BY <1>6 DEF ReaderInv
  <2>2. WholeWindows(ToSet(hour'), LoggedRows', time')
    BY <2>1, <1>1
  <2> QED
    BY <2>2 DEF WholeWindows
<1> QED
  BY <1>2, <1>4, <1>5, <1>7, <1>8 DEF ReaderInv

\* A window is sliced once it is past, and whole.
LEMMA SliceKeeps ==
  ASSUME ReaderInv, NEW w \in DayWindows, SliceWindow(w)
  PROVE  ReaderInv'
<1> DEFINE new == RowsOfWindow(log, w)
           places == {i \in DOMAIN log : log[i] # Torn /\ WindowOf(log[i].at) = w}
<1>1. /\ w + Window <= time
      /\ slices' = [slices EXCEPT ![w] = new]
      /\ time' = time /\ log' = log /\ cut' = cut /\ tears' = tears
      /\ hour' = hour /\ tars' = tars
  BY DEF SliceWindow
<1>2. log \in Lines /\ LoggedRows = ToSet(log) \ {Torn} /\ LoggedRows \subseteq Polled
  BY Logged DEF ReaderInv
<1>3. new = ItemsAt(log, places)
  BY DEF RowsOfWindow
<1> HIDE DEF new, places
<1>4. new \in Seq(Polled \cup {Torn}) /\ ToSet(new) = {log[i] : i \in places \cap DOMAIN log}
  BY <1>2, <1>3, KeptLines DEF Lines
<1>5. ToSet(new) = {r \in LoggedRows : WindowOf(r.at) = w}
  <2>1. \A x \in ToSet(new) : x \in LoggedRows /\ WindowOf(x.at) = w
    BY <1>2, <1>4 DEF places, ToSet
  <2>2. ASSUME NEW x \in LoggedRows, WindowOf(x.at) = w PROVE x \in ToSet(new)
    <3>1. PICK i \in DOMAIN log : x = log[i] /\ x # Torn
      BY <1>2 DEF ToSet
    <3>2. i \in places
      BY <3>1, <2>2 DEF places
    <3> QED
      BY <3>1, <3>2, <1>4
  <2> QED
    BY <2>1, <2>2
<1>6. new \in Seq(Polled)
  BY <1>2, <1>4, <1>5, Narrowed
<1>7. ReaderTypeOK'
  BY <1>1, <1>6 DEF ReaderInv, ReaderTypeOK
<1>8. LoggedRows' = LoggedRows
  BY <1>1 DEF LoggedRows
<1>9. SlicesWhole'
  <2>1. DOMAIN slices = DayWindows
    BY DEF ReaderInv, ReaderTypeOK
  <2>2. ASSUME NEW v \in DayWindows
        PROVE  /\ \A r \in ToSet(slices'[v]) : WindowOf(r.at) = v
               /\ WholeWindows(ToSet(slices'[v]), LoggedRows, time)
    <3>1. CASE v = w
      <4>1. slices'[v] = new
        BY <3>1, <2>1, <1>1
      <4>2. WholeWindows(ToSet(new), LoggedRows, time)
        BY <1>1, <1>5 DEF WholeWindows
      <4> QED
        BY <4>1, <4>2, <3>1, <1>5
    <3>2. CASE v # w
      <4>1. slices'[v] = slices[v]
        BY <3>2, <2>1, <1>1
      <4> QED
        BY <4>1 DEF ReaderInv, SlicesWhole
    <3> QED
      BY <3>1, <3>2
  <2> QED
    BY <2>2, <1>1, <1>8 DEF SlicesWhole
<1>10. RowsGoUp' /\ TornAreCut'
  BY <1>1, <1>8 DEF ReaderInv, RowsGoUp, TornAreCut, Forward
<1>11. WholeWindows(ToSet(hour), LoggedRows, time)'
  <2>1. WholeWindows(ToSet(hour'), LoggedRows', time')
    BY <1>1, <1>8 DEF ReaderInv
  <2> QED
    BY <2>1 DEF WholeWindows
<1> QED
  BY <1>7, <1>9, <1>10, <1>11 DEF ReaderInv

\* The merge moves what the slices hold.
LEMMA MergeKeeps ==
  ASSUME ReaderInv, MaxLines \in Nat, MergeHour
  PROVE  ReaderInv'
<1>1. PICK gone \in SUBSET DayWindows :
        slices' = [w \in DayWindows |-> IF w \in gone THEN <<>> ELSE slices[w]]
  BY DEF MergeHour
<1>2. /\ hour' = Slices
      /\ time' = time /\ log' = log /\ cut' = cut /\ tears' = tears /\ tars' = tars
  BY DEF MergeHour
<1>3. ToSet(<<>>) = {} /\ <<>> \in Seq(Polled)
  <2>1. DOMAIN <<>> = {}
    OBVIOUS
  <2> QED
    BY <2>1 DEF ToSet
<1>4. ReaderTypeOK'
  <2>1. hour' \in Seq(Polled)
    BY <1>2, SlicesInOrder DEF ReaderInv
  <2>2. slices' \in [DayWindows -> Seq(Polled)]
    BY <1>1, <1>3 DEF ReaderInv, ReaderTypeOK
  <2> QED
    BY <2>1, <2>2, <1>2 DEF ReaderInv, ReaderTypeOK
<1>5. LoggedRows' = LoggedRows
  BY <1>2 DEF LoggedRows
<1>6. SlicesWhole'
  <2>1. ASSUME NEW w \in DayWindows
        PROVE  /\ \A r \in ToSet(slices'[w]) : WindowOf(r.at) = w
               /\ WholeWindows(ToSet(slices'[w]), LoggedRows, time)
    <3>1. CASE w \in gone
      <4>1. ToSet(slices'[w]) = {}
        BY <3>1, <1>1, <1>3
      <4> QED
        BY <4>1 DEF WholeWindows
    <3>2. CASE w \notin gone
      <4>1. slices'[w] = slices[w]
        BY <3>2, <1>1
      <4> QED
        BY <4>1 DEF ReaderInv, SlicesWhole
    <3> QED
      BY <3>1, <3>2
  <2> QED
    BY <2>1, <1>2, <1>5 DEF SlicesWhole
<1>7. RowsGoUp' /\ TornAreCut'
  BY <1>2, <1>5 DEF ReaderInv, RowsGoUp, TornAreCut, Forward
<1>8. WholeWindows(ToSet(hour), LoggedRows, time)'
  <2>1. WholeWindows(ToSet(Slices), LoggedRows, time)
    BY WholeSlices
  <2>2. WholeWindows(ToSet(hour'), LoggedRows', time')
    BY <2>1, <1>2, <1>5
  <2> QED
    BY <2>2 DEF WholeWindows
<1> QED
  BY <1>4, <1>6, <1>7, <1>8 DEF ReaderInv

\* A tar more changes no line.
LEMMA TarKeeps ==
  ASSUME ReaderInv, NEW t \in Tars, ShipTar(t)
  PROVE  ReaderInv'
<1>1. /\ tars' = Append(tars, t)
      /\ time' = time /\ log' = log /\ cut' = cut /\ tears' = tears
      /\ slices' = slices /\ hour' = hour
  BY DEF ShipTar
<1>2. ReaderTypeOK'
  BY <1>1 DEF ReaderInv, ReaderTypeOK
<1>3. LoggedRows' = LoggedRows
  BY <1>1 DEF LoggedRows
<1> QED
  BY <1>1, <1>2, <1>3 DEF ReaderInv, RowsGoUp, TornAreCut, Forward, SlicesWhole, WholeWindows

\* No step breaks the invariant.
LEMMA ReaderStep ==
  ASSUME ReaderInv, MaxLines \in Nat, MaxTears \in Nat, [ReaderNext]_readerVars
  PROVE  ReaderInv'
<1>1. CASE \E d \in Contents \cup {NoDigest} : AppendPoll(d)
  BY <1>1, AppendKeeps
<1>2. CASE TearAppend
  BY <1>2, TearKeeps
<1>3. CASE \E w \in DayWindows : SliceWindow(w)
  BY <1>3, SliceKeeps
<1>4. CASE MergeHour
  BY <1>4, MergeKeeps
<1>5. CASE \E t \in Tars : ShipTar(t)
  BY <1>5, TarKeeps
<1>6. CASE UNCHANGED readerVars
  <2>1. /\ time' = time /\ log' = log /\ cut' = cut /\ tears' = tears
        /\ slices' = slices /\ hour' = hour /\ tars' = tars
    BY <1>6 DEF readerVars
  <2>2. LoggedRows' = LoggedRows
    BY <2>1 DEF LoggedRows
  <2> QED
    BY <2>1, <2>2 DEF ReaderInv, ReaderTypeOK, RowsGoUp, TornAreCut, Forward, SlicesWhole,
                      WholeWindows
<1> QED
  BY <1>1, <1>2, <1>3, <1>4, <1>5, <1>6 DEF ReaderNext

-----------------------------------------------------------------------------
(* The metadata of the day.                                                *)

\* data.jsonl is read as it was written.
LEMMA LocalLines ==
  ASSUME ReaderInv
  PROVE  /\ DataJsonl \in Lines
         /\ ReadMetadata(TRUE) = DataJsonl
         /\ Usable(ReadMetadata(TRUE)) = Usable(log)
         /\ Len(DataJsonl) = Len(log) + (IF cut THEN 1 ELSE 0)
<1>1. log \in Lines /\ Forward(log) /\ cut \in BOOLEAN
  BY Logged DEF ReaderInv, ReaderTypeOK, RowsGoUp
<1>2. DataJsonl = IF cut THEN Append(log, Torn) ELSE log
  <2>1. log \o <<Torn>> = Append(log, Torn) /\ log \o <<>> = log
    BY <1>1 DEF Lines
  <2> QED
    BY <2>1 DEF DataJsonl
<1>3. /\ DataJsonl \in Lines /\ Usable(DataJsonl) = Usable(log)
      /\ Len(DataJsonl) = Len(log) + (IF cut THEN 1 ELSE 0)
  <2>1. CASE cut
    <3>1. Torn \in Polled \cup {Torn}
      OBVIOUS
    <3> QED
      BY <3>1, <2>1, <1>1, <1>2, UsableAfterAppend
  <2>2. CASE ~cut
    <3>1. Len(log) \in Nat
      BY <1>1 DEF Lines
    <3> QED
      BY <3>1, <2>2, <1>1, <1>2
  <2> QED
    BY <2>1, <2>2
<1>4. Forward(DataJsonl)
  <2>1. CASE cut
    <3>1. /\ DOMAIN log = 1..Len(log) /\ Len(log) \in Nat
          /\ DOMAIN DataJsonl = 1..(Len(log) + 1)
          /\ \A i \in 1..Len(log) : DataJsonl[i] = log[i]
          /\ DataJsonl[Len(log) + 1] = Torn
      <4>1. Torn \in Polled \cup {Torn}
        OBVIOUS
      <4> QED
        BY <4>1, <2>1, <1>1, <1>2, OneMore DEF Lines
    <3>2. \A i \in 1..(Len(log) + 1) : i \in 1..Len(log) \/ i = Len(log) + 1
      BY <3>1
    <3> QED
      BY <3>1, <3>2, <1>1 DEF Forward
  <2>2. CASE ~cut
    BY <2>2, <1>1, <1>2
  <2> QED
    BY <2>1, <2>2
<1>5. ReadMetadata(TRUE) = DataJsonl
  BY <1>3, <1>4, ForwardIsDeduped DEF ReadMetadata, Selected
<1> QED
  BY <1>3, <1>5

\* What the merged file and the slices have is read once, and all usable.
LEMMA S3Lines ==
  ASSUME ReaderInv, MaxLines \in Nat
  PROVE  /\ ReadMetadata(FALSE) \in Seq(Polled)
         /\ Usable(ReadMetadata(FALSE)) = ReadMetadata(FALSE)
         /\ IsInjective(ReadMetadata(FALSE))
         /\ ToSet(ReadMetadata(FALSE)) = ToSet(hour) \cup ToSet(Slices)
         /\ WholeWindows(ToSet(hour) \cup ToSet(Slices), LoggedRows, time)
<1> DEFINE rows == hour \o Slices
<1>1. hour \in Seq(Polled) /\ Slices \in Seq(Polled)
  BY SlicesInOrder DEF ReaderInv, ReaderTypeOK
<1>2. rows \in Seq(Polled) /\ ToSet(rows) = ToSet(hour) \cup ToSet(Slices)
  BY <1>1, Concatenated
<1>3. ReadMetadata(FALSE) = Dedupe(rows)
  BY DEF ReadMetadata, Selected
<1> HIDE DEF rows
<1>4. WholeWindows(ToSet(hour) \cup ToSet(Slices), LoggedRows, time)
  <2>1. WholeWindows(ToSet(hour), LoggedRows, time)
    BY DEF ReaderInv
  <2>2. WholeWindows(ToSet(Slices), LoggedRows, time)
    BY WholeSlices
  <2> QED
    BY <2>1, <2>2 DEF WholeWindows
<1> QED
  BY <1>2, <1>3, <1>4, DedupedRows

\* The invariant has every poll read once.
LEMMA ReadOnce ==
  ASSUME ReaderInv, MaxLines \in Nat
  PROVE  EveryPollReadOnce
<1>1. Usable(ReadMetadata(TRUE)) = Usable(log)
  BY LocalLines
<1> DEFINE s3 == ReadMetadata(FALSE)
<1>2. /\ Usable(s3) = s3 /\ IsInjective(s3)
      /\ ToSet(s3) = ToSet(hour) \cup ToSet(Slices)
  BY S3Lines
<1>3. WholeWindows(ToSet(s3), LoggedRows, time)
  BY <1>2, S3Lines
<1> HIDE DEF s3
<1>4. /\ ToSet(s3) \subseteq LoggedRows
      /\ \A r \in ToSet(s3), s \in LoggedRows :
           WindowOf(r.at) = WindowOf(s.at) => s \in ToSet(s3)
  BY <1>3 DEF WholeWindows
<1> QED
  BY <1>1, <1>2, <1>4 DEF EveryPollReadOnce, s3

\* The invariant bounds the unusable lines.
LEMMA FewTorn ==
  ASSUME ReaderInv
  PROVE  TornLinesAreFew
<1>1. Unusable(ReadMetadata(TRUE)) = Len(DataJsonl) - Len(Usable(log))
  BY LocalLines DEF Unusable
<1>2. Len(log) \in Nat /\ Len(Usable(log)) \in Nat
  <2>1. log \in Lines
    BY Logged DEF ReaderInv
  <2>2. Usable(log) \in Seq(Polled)
    BY <2>1, UsableRows
  <2> QED
    BY <2>1, <2>2 DEF Lines
<1>3. Len(DataJsonl) = Len(log) + (IF cut THEN 1 ELSE 0)
  BY LocalLines
<1>4. Len(log) - Len(Usable(log)) + (IF cut THEN 1 ELSE 0) <= tears
  BY DEF ReaderInv, TornAreCut
<1>5. Len(DataJsonl) - Len(Usable(log)) <= tears
  <2>1. CASE cut
    <3>1. Len(DataJsonl) = Len(log) + 1 /\ Len(log) - Len(Usable(log)) + 1 <= tears
      BY <2>1, <1>3, <1>4
    <3> QED
      BY <3>1, <1>2 DEF ReaderInv, ReaderTypeOK
  <2>2. CASE ~cut
    <3>1. Len(DataJsonl) = Len(log) /\ Len(log) - Len(Usable(log)) <= tears
      BY <2>2, <1>2, <1>3, <1>4
    <3> QED
      BY <3>1
  <2> QED
    BY <2>1, <2>2
<1> QED
  BY <1>1, <1>5 DEF TornLinesAreFew

\* The times of the rows that name a digest, and the first of them.
TimesOf(rows, d) == {r.at : r \in {s \in rows : s.digest = d}}
FirstTimes(rows, d) == {t \in TimesOf(rows, d) : \A u \in TimesOf(rows, d) : t <= u}

\* A digest's date is the first time of a row that names it.
LEMMA DateIsFirst ==
  ASSUME NEW lines, NEW d, ToSet(Usable(lines)) \subseteq Polled
  PROVE  Dates(lines, d) = FirstTimes(ToSet(Usable(lines)), d)
<1> DEFINE rows == ToSet(Usable(lines))
           times == TimesOf(rows, d)
<1>1. Dates(lines, d) = IF times = {} THEN {} ELSE {CHOOSE t \in times : \A u \in times : t <= u}
  BY DEF Dates, TimesOf
<1>2. times \subseteq Nat
  BY TornIsNoPoll DEF TimesOf
<1>3. FirstTimes(rows, d) = {t \in times : \A u \in times : t <= u}
  BY DEF FirstTimes
<1> HIDE DEF rows, times
<1>4. CASE times = {}
  BY <1>1, <1>3, <1>4 DEF rows
<1>5. CASE times # {}
  <2>1. \E t \in times : \A u \in times : t <= u
    BY <1>2, <1>5, LeastOf
  <2> DEFINE t == CHOOSE t \in times : \A u \in times : t <= u
  <2>2. t \in times /\ \A u \in times : t <= u
    BY <2>1
  <2> HIDE DEF t
  <2>3. \A v \in times : (\A u \in times : v <= u) => v = t
    BY <1>2, <2>2
  <2>4. {v \in times : \A u \in times : v <= u} = {t}
    BY <2>2, <2>3
  <2> QED
    BY <1>1, <1>3, <1>5, <2>4 DEF t, rows
<1> QED
  BY <1>4, <1>5

\* The invariant has each payload dated by its first poll.
LEMMA FirstPollDates ==
  ASSUME ReaderInv, MaxLines \in Nat
  PROVE  DatedByFirstPoll
<1> SUFFICES ASSUME NEW d \in Contents
             PROVE  LET first == {r.at : r \in {r \in LoggedRows : r.digest = d /\
                              \A s \in LoggedRows : s.digest = d => r.at <= s.at}}
                        read == ToSet(Usable(ReadMetadata(FALSE)))
                    IN  /\ Dates(ReadMetadata(TRUE), d) = first
                        /\ (\E r \in read : r.digest = d /\ r.at \in first)
                             => Dates(ReadMetadata(FALSE), d) = first
  BY DEF DatedByFirstPoll
<1> DEFINE first == {r.at : r \in {r \in LoggedRows : r.digest = d /\
                              \A s \in LoggedRows : s.digest = d => r.at <= s.at}}
           read == ToSet(Usable(ReadMetadata(FALSE)))
<1>1. LoggedRows \subseteq Polled
  BY Logged DEF ReaderInv
<1>2. ToSet(Usable(ReadMetadata(TRUE))) = LoggedRows
  BY LocalLines DEF LoggedRows
<1>3. read \subseteq LoggedRows
  BY ReadOnce DEF EveryPollReadOnce
<1> HIDE DEF read
<1>4. first = FirstTimes(LoggedRows, d)
  BY DEF FirstTimes, TimesOf
<1> HIDE DEF first
<1>5. Dates(ReadMetadata(TRUE), d) = first
  BY <1>1, <1>2, <1>4, DateIsFirst
<1>6. Dates(ReadMetadata(FALSE), d) = FirstTimes(read, d)
  BY <1>1, <1>3, DateIsFirst DEF read
<1>7. ASSUME NEW r \in read, r.digest = d, r.at \in first
      PROVE  FirstTimes(read, d) = first
  <2>1. TimesOf(read, d) \subseteq TimesOf(LoggedRows, d) /\ r.at \in TimesOf(read, d)
    BY <1>3, <1>7 DEF TimesOf
  <2>2. TimesOf(LoggedRows, d) \subseteq Nat
    BY <1>1, TornIsNoPoll DEF TimesOf
  <2>3. \A u \in TimesOf(LoggedRows, d) : r.at <= u
    BY <1>4, <1>7 DEF FirstTimes
  <2>4. FirstTimes(read, d) = {r.at}
    BY <2>1, <2>2, <2>3 DEF FirstTimes
  <2>5. FirstTimes(LoggedRows, d) = {r.at}
    BY <2>1, <2>2, <2>3 DEF FirstTimes
  <2> QED
    BY <1>4, <2>4, <2>5
<1> QED
  BY <1>5, <1>6, <1>7 DEF first, read

-----------------------------------------------------------------------------
(* The payloads of the day.                                                *)

\* The members of a tar that can be read.
Readable(tar) == {tar.members[i] : i \in 1..tar.readable}

\* What is yielded so far, and is not yielded again.
Yielded == [seen : SUBSET Contents, names : Seq(Contents)]

OnceEach(out) == out.seen = ToSet(out.names) /\ IsInjective(out.names)

\* A tar's parts.
LEMMA TarParts ==
  ASSUME NEW tar \in Tars
  PROVE  /\ tar.members \in Seq(Contents) /\ IsInjective(tar.members)
         /\ tar.readable \in Nat
         /\ 1..tar.readable \subseteq DOMAIN tar.members
         /\ Readable(tar) \subseteq Contents
<1>1. PICK n \in 1..2 : tar.members \in [1..n -> Contents]
  BY DEF Tars
<1>2. tar.members \in Seq(Contents) /\ DOMAIN tar.members = 1..n /\ Len(tar.members) = n
  BY <1>1
<1>3. tar.readable \in Nat /\ tar.readable <= n /\ IsInjective(tar.members)
  BY <1>2 DEF Tars
<1>4. 1..tar.readable \subseteq 1..n
  BY <1>3
<1> QED
  BY <1>1, <1>2, <1>3, <1>4 DEF Readable

\* One tar more yields what it has and was not yielded.
LEMMA OneTarMore ==
  ASSUME NEW out \in Yielded, OnceEach(out), NEW tar \in Tars
  PROVE  /\ Members(out, tar) \in Yielded
         /\ OnceEach(Members(out, tar))
         /\ Members(out, tar).seen = out.seen \cup Readable(tar)
<1> DEFINE places == {i \in 1..tar.readable : tar.members[i] \notin out.seen}
           new == ItemsAt(tar.members, places)
           next == Members(out, tar)
<1>1. /\ tar.members \in Seq(Contents) /\ IsInjective(tar.members)
      /\ 1..tar.readable \subseteq DOMAIN tar.members
      /\ Readable(tar) \subseteq Contents
  BY TarParts
<1>2. out.seen \subseteq Contents /\ out.names \in Seq(Contents)
  BY DEF Yielded
<1>3. next = [seen |-> out.seen \cup Readable(tar), names |-> out.names \o new]
  BY DEF Members, Claim, Readable
<1>4. places \subseteq DOMAIN tar.members
  BY <1>1
<1>5. {tar.members[i] : i \in places} = Readable(tar) \ out.seen
  BY DEF Readable
<1> HIDE DEF places
<1>6. /\ new \in Seq(Contents)
      /\ ToSet(new) = {tar.members[i] : i \in places \cap DOMAIN tar.members}
      /\ (\A i, j \in places \cap DOMAIN tar.members : tar.members[i] = tar.members[j] => i = j)
           => IsInjective(new)
  BY <1>1, KeptLines
<1> HIDE DEF new
<1>7. IsInjective(new)
  BY <1>1, <1>6 DEF IsInjective
<1>8. ToSet(new) = Readable(tar) \ out.seen
  <2>1. places \cap DOMAIN tar.members = places
    BY <1>4
  <2> QED
    BY <2>1, <1>5, <1>6
<1>9. /\ out.names \o new \in Seq(Contents)
      /\ ToSet(out.names \o new) = ToSet(out.names) \cup ToSet(new)
  BY <1>2, <1>6, Concatenated
<1>10. IsInjective(out.names \o new)
  <2>1. ToSet(out.names) \cap ToSet(new) = {}
    BY <1>8 DEF OnceEach
  <2> QED
    BY <2>1, <1>2, <1>6, <1>7, Concatenated DEF OnceEach
<1> HIDE DEF next
<1>11. next \in Yielded
  BY <1>1, <1>2, <1>3, <1>9 DEF Yielded
<1>12. ToSet(out.names \o new) = out.seen \cup Readable(tar)
  BY <1>8, <1>9 DEF OnceEach
<1>13. OnceEach(next) /\ next.seen = out.seen \cup Readable(tar)
  BY <1>3, <1>10, <1>12 DEF OnceEach
<1> QED
  BY <1>11, <1>13 DEF next

\* However many tars there are.
LEMMA PayloadsOnce ==
  ASSUME tars \in Seq(Tars)
  PROVE  EachPayloadReadOnce
<1> DEFINE m == Len(tars)
           none == [seen |-> {}, names |-> <<>>]
           Step(f) == [n \in 0..m |-> IF n = 0 THEN none ELSE Members(f[n-1], tars[n])]
           out == CHOOSE f : f = Step(f)
           T == {y \in Yielded : OnceEach(y)}
           next == [n \in 1..m |-> [y \in T |-> Members(y, tars[n])]]
<1>1. m \in Nat /\ DOMAIN tars = 1..m /\ \A n \in 1..m : tars[n] \in Tars
  OBVIOUS
<1>2. IterBins = out[m].names
  BY DEF IterBins
<1>3. none \in T
  <2>1. <<>> \in Seq(Contents) /\ DOMAIN <<>> = {}
    OBVIOUS
  <2>2. ToSet(<<>>) = {} /\ IsInjective(<<>>)
    BY <2>1 DEF ToSet, IsInjective
  <2> QED
    BY <2>1, <2>2 DEF Yielded, OnceEach
<1>4. \A n \in 1..m, y \in T : next[n][y] = Members(y, tars[n]) /\ next[n][y] \in T
  <2>1. \A n \in 1..m, y \in T : Members(y, tars[n]) \in T
    BY <1>1, OneTarMore
  <2> HIDE DEF T
  <2> QED
    BY <2>1
<1> HIDE DEF m, none, next, T
<1>5. Iterates(T, m, none, next)
  BY <1>1, <1>3, <1>4, Iterated
<1>6. PICK f \in [0..m -> T] : f[0] = none /\ \A n \in 1..m : f[n] = next[n][f[n-1]]
  BY <1>5 DEF Iterates
<1>7. \A n \in 1..m : f[n-1] \in T /\ f[n] = Members(f[n-1], tars[n])
  <2> TAKE n \in 1..m
  <2>1. n - 1 \in 0..m
    BY <1>1
  <2>2. f[n-1] \in T
    BY <2>1
  <2> QED
    BY <2>2, <1>4, <1>6
<1>8. f = Step(f)
  <2>1. \A n \in 0..m : n = 0 \/ n \in 1..m
    BY <1>1
  <2>2. \A n \in 1..m : n # 0
    BY <1>1
  <2>3. \A n \in 0..m : f[n] = IF n = 0 THEN none ELSE Members(f[n-1], tars[n])
    BY <2>1, <2>2, <1>6, <1>7
  <2>4. f = [n \in 0..m |-> f[n]]
    OBVIOUS
  <2> QED
    BY <2>3, <2>4
<1>9. out = Step(out)
  <2> HIDE DEF Step
  <2> QED
    BY <1>8
<1> HIDE DEF out
<1>10. \A n \in 0..m : out[n] = IF n = 0 THEN none ELSE Members(out[n-1], tars[n])
  BY <1>9
<1> DEFINE Given(n) == UNION {Readable(tars[i]) : i \in 1..n}
           Good == {n \in Nat : n \in 0..m => out[n] = f[n] /\ f[n] \in T /\ f[n].seen = Given(n)}
<1>11. 0 \in Good
  <2>1. 1..0 = {} /\ none.seen = {} /\ 0 \in 0..m
    BY <1>1 DEF none
  <2>2. Given(0) = {}
    BY <2>1
  <2> HIDE DEF Given
  <2> QED
    BY <2>1, <2>2, <1>3, <1>6, <1>10
<1>12. ASSUME NEW n \in Nat, n \in Good PROVE n + 1 \in Good
  <2> SUFFICES ASSUME n + 1 \in 0..m
               PROVE  /\ out[n+1] = f[n+1] /\ f[n+1] \in T
                      /\ f[n+1].seen = Given(n + 1)
    OBVIOUS
  <2>1. /\ n \in 0..m /\ n + 1 \in 1..m /\ n + 1 # 0 /\ (n + 1) - 1 = n
        /\ 1..(n+1) = 1..n \cup {n + 1}
    BY <1>1
  <2>2. out[n] = f[n] /\ f[n] \in T /\ f[n].seen = Given(n)
    BY <2>1, <1>12
  <2>3. out[n+1] = Members(out[n], tars[n+1])
    BY <2>1, <1>10
  <2>4. f[n+1] = Members(f[n], tars[n+1])
    BY <2>1, <1>7
  <2>5. tars[n+1] \in Tars
    BY <2>1, <1>1
  <2>6. f[n+1] \in T /\ f[n+1].seen = f[n].seen \cup Readable(tars[n+1])
    <3>1. f[n] \in Yielded /\ OnceEach(f[n])
      BY <2>2 DEF T
    <3>2. /\ Members(f[n], tars[n+1]) \in Yielded /\ OnceEach(Members(f[n], tars[n+1]))
          /\ Members(f[n], tars[n+1]).seen = f[n].seen \cup Readable(tars[n+1])
      BY <3>1, <2>5, OneTarMore
    <3> QED
      BY <3>2, <2>4 DEF T
  <2>7. Given(n + 1) = Given(n) \cup Readable(tars[n+1])
    BY <2>1
  <2> HIDE DEF Given
  <2> QED
    BY <2>2, <2>3, <2>4, <2>6, <2>7
<1>13. m \in Good
  <2> HIDE DEF Good
  <2> QED
    BY <1>1, <1>11, <1>12, Induction
<1>14. out[m] = f[m] /\ f[m] \in T /\ f[m].seen = Given(m)
  <2>1. m \in 0..m
    BY <1>1
  <2> HIDE DEF Given
  <2> QED
    BY <2>1, <1>13
<1>15. /\ IsInjective(IterBins)
       /\ ToSet(IterBins) = Given(m)
  <2> HIDE DEF Given
  <2> QED
    BY <1>2, <1>14 DEF T, OnceEach
<1> QED
  BY <1>1, <1>15 DEF EachPayloadReadOnce, Readable

\* The reader's part of ReadFaithfully.
ReadOnceFaithfully ==
  /\ ReaderTypeOK
  /\ EveryPollReadOnce
  /\ TornLinesAreFew
  /\ DatedByFirstPoll
  /\ EachPayloadReadOnce

LEMMA ReaderSuffices ==
  ASSUME MaxLines \in Nat, MaxTears \in Nat
  PROVE  ReaderInv => ReadOnceFaithfully
<1> SUFFICES ASSUME ReaderInv PROVE ReadOnceFaithfully
  OBVIOUS
<1>1. ReaderTypeOK
  BY DEF ReaderInv
<1>2. EachPayloadReadOnce
  BY <1>1, PayloadsOnce DEF ReaderTypeOK
<1> QED
  BY <1>1, <1>2, ReadOnce, FewTorn, FirstPollDates DEF ReadOnceFaithfully

-----------------------------------------------------------------------------
(* The decoders: lists of rows.                                            *)

\* Blanked goes through a concatenation.
LEMMA BlankedJoin ==
  ASSUME NEW T, NEW a \in Seq(T), NEW b \in Seq(T), NEW c \in Seq(T), NEW d \in Seq(T),
         Blanked(a) = Blanked(c), Blanked(b) = Blanked(d)
  PROVE  Blanked(a \o b) = Blanked(c \o d)
<1>1. /\ DOMAIN a = 1..Len(a) /\ DOMAIN b = 1..Len(b)
      /\ DOMAIN c = 1..Len(c) /\ DOMAIN d = 1..Len(d)
      /\ Len(a) \in Nat /\ Len(b) \in Nat /\ Len(c) \in Nat /\ Len(d) \in Nat
  OBVIOUS
<1>2. /\ DOMAIN Blanked(a) = DOMAIN a /\ DOMAIN Blanked(b) = DOMAIN b
      /\ DOMAIN Blanked(c) = DOMAIN c /\ DOMAIN Blanked(d) = DOMAIN d
  BY DEF Blanked
<1>3. Len(a) = Len(c) /\ Len(b) = Len(d)
  <2>1. 1..Len(a) = 1..Len(c) /\ 1..Len(b) = 1..Len(d)
    BY <1>1, <1>2
  <2>2. \A i, j \in Nat : 1..i = 1..j => i = j
    <3> SUFFICES ASSUME NEW i \in Nat, NEW j \in Nat, 1..i = 1..j PROVE i = j
      OBVIOUS
    <3>1. (i # 0 => i \in 1..j) /\ (j # 0 => j \in 1..i)
      OBVIOUS
    <3> QED
      BY <3>1
  <2> QED
    BY <1>1, <2>1, <2>2
<1>4. /\ \A i \in 1..Len(a) : Blank(a[i]) = Blank(c[i])
      /\ \A i \in 1..Len(b) : Blank(b[i]) = Blank(d[i])
  <2>1. /\ \A i \in DOMAIN a : Blanked(a)[i] = Blank(a[i])
        /\ \A i \in DOMAIN b : Blanked(b)[i] = Blank(b[i])
        /\ \A i \in DOMAIN c : Blanked(c)[i] = Blank(c[i])
        /\ \A i \in DOMAIN d : Blanked(d)[i] = Blank(d[i])
    BY DEF Blanked
  <2> QED
    BY <2>1, <1>1, <1>3
<1> DEFINE m == Len(a)
           n == Len(b)
           x == a \o b
           y == c \o d
<1>5. /\ DOMAIN x = 1..(m + n) /\ DOMAIN y = 1..(m + n)
      /\ \A i \in 1..m : x[i] = a[i] /\ y[i] = c[i]
      /\ \A i \in 1..n : x[m + i] = b[i] /\ y[m + i] = d[i]
  <2>1. DOMAIN x = 1..(m + n) /\ DOMAIN y = 1..(m + n)
    BY <1>3
  <2>2. \A i \in 1..m : x[i] = a[i] /\ y[i] = c[i]
    BY <1>3
  <2>3. \A i \in 1..n : x[m + i] = b[i] /\ y[m + i] = d[i]
    BY <1>3
  <2> QED
    BY <2>1, <2>2, <2>3
<1>6. m \in Nat /\ n \in Nat
  BY <1>1
<1>7. /\ \A i \in 1..m : Blank(a[i]) = Blank(c[i])
      /\ \A i \in 1..n : Blank(b[i]) = Blank(d[i])
  BY <1>4
<1> HIDE DEF x, y, m, n
<1>8. \A i \in 1..(m + n) : Blank(x[i]) = Blank(y[i])
  <2> TAKE i \in 1..(m + n)
  <2>1. CASE i \in 1..m
    BY <2>1, <1>5, <1>7
  <2>2. CASE i \notin 1..m
    <3>1. i - m \in 1..n /\ i = m + (i - m)
      BY <2>2, <1>6
    <3>2. x[i] = b[i-m] /\ y[i] = d[i-m]
      BY <3>1, <1>5
    <3> QED
      BY <3>1, <3>2, <1>7
  <2> QED
    BY <2>1, <2>2
<1>9. Blanked(x) = Blanked(y)
  BY <1>5, <1>8 DEF Blanked
<1> QED
  BY <1>9 DEF x, y

\* And through a concatenation of many.
LEMMA BlankedFlat ==
  ASSUME NEW a, IsList(a), NEW b, IsList(b), Len(a) = Len(b),
         \A i \in 1..Len(a) : IsList(a[i]) /\ IsList(b[i]) /\ Blanked(a[i]) = Blanked(b[i])
  PROVE  Blanked(FlattenSeq(a)) = Blanked(FlattenSeq(b))
<1> DEFINE m == Len(a)
<1>1. m \in Nat /\ a = [i \in 1..m |-> a[i]]
  BY ListOf
<1>2. b = [i \in 1..m |-> b[i]]
  BY ListOf
<1> HIDE DEF m
<1> DEFINE T == (UNION {ToSet(a[i]) : i \in 1..m}) \cup (UNION {ToSet(b[i]) : i \in 1..m})
<1>3. \A i \in 1..m : ToSet(a[i]) \subseteq T /\ ToSet(b[i]) \subseteq T
  OBVIOUS
<1> HIDE DEF T
<1>4. \A i \in 1..m : a[i] \in Seq(T) /\ b[i] \in Seq(T)
  BY <1>3, ListOf DEF m
<1>5. a \in Seq(Seq(T)) /\ Len(a) = m /\ b \in Seq(Seq(T)) /\ Len(b) = m
  <2> DEFINE U == Seq(T)
  <2>1. \A i \in 1..m : a[i] \in U /\ b[i] \in U
    BY <1>4
  <2> HIDE DEF U
  <2>2. a \in Seq(U) /\ Len(a) = m
    BY <1>1, <2>1
  <2>3. b \in Seq(U) /\ Len(b) = m
    BY <1>1, <1>2, <2>1
  <2> QED
    BY <2>2, <2>3 DEF U
<1>6. PICK f : /\ f[0] = <<>>
               /\ \A i \in 1..m : f[i] = f[i-1] \o a[i]
               /\ FlattenSeq(a) = f[m]
  BY <1>5, Flattened
<1>7. PICK g : /\ g[0] = <<>>
               /\ \A i \in 1..m : g[i] = g[i-1] \o b[i]
               /\ FlattenSeq(b) = g[m]
  BY <1>5, Flattened
<1> DEFINE Sound(n) == f[n] \in Seq(T) /\ g[n] \in Seq(T) /\ Blanked(f[n]) = Blanked(g[n])
           Good == {n \in Nat : n \in 0..m => Sound(n)}
<1>8. 0 \in Good
  <2>1. <<>> \in Seq(T)
    OBVIOUS
  <2> QED
    BY <2>1, <1>6, <1>7
<1>9. ASSUME NEW n \in Nat, n \in Good PROVE n + 1 \in Good
  <2> SUFFICES ASSUME n + 1 \in 0..m PROVE Sound(n + 1)
    OBVIOUS
  <2>1. n \in 0..m /\ n + 1 \in 1..m /\ (n + 1) - 1 = n
    BY <1>1
  <2>2. Sound(n)
    BY <1>9, <2>1
  <2>3. f[n+1] = f[n] \o a[n+1] /\ g[n+1] = g[n] \o b[n+1]
    BY <2>1, <1>6, <1>7
  <2>4. /\ a[n+1] \in Seq(T) /\ b[n+1] \in Seq(T) /\ Blanked(a[n+1]) = Blanked(b[n+1])
    BY <2>1, <1>4 DEF m
  <2>5. Blanked(f[n] \o a[n+1]) = Blanked(g[n] \o b[n+1])
    BY <2>2, <2>4, BlankedJoin
  <2>6. f[n] \o a[n+1] \in Seq(T) /\ g[n] \o b[n+1] \in Seq(T)
    BY <2>2, <2>4
  <2> QED
    BY <2>3, <2>5, <2>6
<1>10. m \in Good
  <2> HIDE DEF Good
  <2> QED
    BY <1>1, <1>8, <1>9, Induction
<1> QED
  BY <1>1, <1>6, <1>7, <1>10

-----------------------------------------------------------------------------
(* The rows of one payload.                                                *)

\* The tables that a feed's decoder fills.
TablesOf(d) ==
  CASE d = "standard" -> {"vehicles", "trip_updates", "alerts"}
    [] d = "tfnsw" -> {"vehicles", "trip_updates", "alerts", "consist"}
    [] OTHER -> {d}

\* A list of rows of some tables.
RowsIn(rows, tables) ==
  IsList(rows) /\ \A row \in ToSet(rows) : row.table \in tables

\* Rows made one for each item of a list.
LEMMA RowPerItem ==
  ASSUME NEW items, IsList(items), NEW rows, NEW tables,
         rows = [i \in DOMAIN items |-> rows[i]],
         \A i \in DOMAIN items : rows[i].table \in tables
  PROVE  RowsIn(rows, tables)
<1>1. Len(items) \in Nat /\ DOMAIN items = 1..Len(items)
  BY ListOf
<1>2. IsList(rows) /\ ToSet(rows) = {rows[i] : i \in 1..Len(items)}
  BY <1>1, MadeList
<1> QED
  BY <1>1, <1>2 DEF RowsIn

\* One row, no row, and rows after others.
LEMMA FewRows ==
  ASSUME NEW tables
  PROVE  /\ RowsIn(<<>>, tables)
         /\ \A row : row.table \in tables => RowsIn(<<row>>, tables)
         /\ \A a, b : RowsIn(a, tables) /\ RowsIn(b, tables) => RowsIn(a \o b, tables)
<1>1. RowsIn(<<>>, tables)
  <2>1. DOMAIN <<>> = {}
    OBVIOUS
  <2>2. ToSet(<<>>) = {}
    BY <2>1 DEF ToSet
  <2> QED
    BY <2>2 DEF RowsIn, IsList
<1>2. ASSUME NEW row, row.table \in tables PROVE RowsIn(<<row>>, tables)
  <2> DEFINE s == <<row>>
  <2>1. s \in Seq({row}) /\ DOMAIN s = 1..1 /\ s[1] = row
    OBVIOUS
  <2>2. ToSet(s) = {row}
    BY <2>1 DEF ToSet
  <2> QED
    BY <1>2, <2>1, <2>2 DEF RowsIn, IsList
<1>3. ASSUME NEW a, NEW b, RowsIn(a, tables), RowsIn(b, tables)
      PROVE  RowsIn(a \o b, tables)
  <2> DEFINE T == ToSet(a) \cup ToSet(b)
  <2>1. ToSet(a) \subseteq T /\ ToSet(b) \subseteq T
    OBVIOUS
  <2>2. \A row \in T : row.table \in tables
    BY <1>3 DEF RowsIn
  <2> HIDE DEF T
  <2>3. a \in Seq(T) /\ b \in Seq(T)
    BY <1>3, <2>1, ListOf DEF RowsIn
  <2>4. a \o b \in Seq(T)
    BY <2>3
  <2>5. IsList(a \o b) /\ ToSet(a \o b) \subseteq T
    BY <2>4, ListOf
  <2> QED
    BY <2>2, <2>5 DEF RowsIn
<1> QED
  BY <1>1, <1>2, <1>3

\* Rows of many items, some for each.
LEMMA RowsPerItem ==
  ASSUME NEW items, IsList(items), NEW rows, NEW tables,
         rows = [i \in DOMAIN items |-> rows[i]],
         \A i \in DOMAIN items : RowsIn(rows[i], tables)
  PROVE  RowsIn(FlattenSeq(rows), tables)
<1> DEFINE m == Len(items)
<1>1. m \in Nat /\ DOMAIN items = 1..m
  BY ListOf
<1> HIDE DEF m
<1>2. \A i \in 1..m : IsList(rows[i]) /\ \A row \in ToSet(rows[i]) : row.table \in tables
  BY <1>1 DEF RowsIn
<1>3. /\ IsList(FlattenSeq(rows))
      /\ ToSet(FlattenSeq(rows)) = UNION {ToSet(rows[i]) : i \in 1..m}
  BY <1>1, <1>2, FlattenedLists
<1> QED
  BY <1>2, <1>3 DEF RowsIn

\* The tables of the row functions.
LEMMA RowTables ==
  /\ \A v, trips : VehicleRow(v, trips).table = "vehicles"
  /\ \A t, s, trips, stops : StopTimeUpdateRow(t, s, trips, stops).table = "trip_updates"
  /\ \A a, route, text : AlertRow(a, route, text).table = "alerts"
BY DEF VehicleRow, StopTimeUpdateRow, AlertRow

\* What is assumed of an entity of a message.
LEMMA EntityLists ==
  ASSUME NEW m \in Messages
  PROVE  /\ IsList(m.entities)
         /\ \A i \in DOMAIN m.entities :
              LET e == m.entities[i] IN
              /\ e.vehicle # Unset => IsList(e.vehicle.carriages)
              /\ e.trip # Unset =>
                   IsList(e.trip.stops) /\ \A s \in ToSet(e.trip.stops) : IsList(s.carriages)
              /\ e.alert # Unset => IsList(e.alert.texts) /\ IsList(e.alert.informed)
<1>1. \A i \in DOMAIN m.entities : m.entities[i] \in ToSet(m.entities)
  BY DEF ToSet
<1> QED
  BY <1>1, DecodingAssumption

\* The rows for the carriages of a stop or vehicle.
LEMMA CarriageRows ==
  ASSUME NEW parent, NEW carriages, IsList(carriages)
  PROVE  RowsIn(ConsistRows(parent, carriages), {"consist"})
<1> DEFINE rows == ConsistRows(parent, carriages)
<1>1. rows = [i \in DOMAIN carriages |-> rows[i]]
  BY DEF ConsistRows
<1>2. \A i \in DOMAIN carriages : rows[i].table \in {"consist"}
  BY DEF ConsistRows
<1> HIDE DEF rows
<1>3. RowsIn(rows, {"consist"})
  BY <1>1, <1>2, RowPerItem
<1> QED
  BY <1>3 DEF rows

\* More tables allow more rows.
LEMMA MoreTables ==
  ASSUME NEW rows, NEW tables, RowsIn(rows, tables), NEW more, tables \subseteq more
  PROVE  RowsIn(rows, more)
BY DEF RowsIn

\* The rows for an alert, whatever text is chosen.
LEMMA AlertRows ==
  ASSUME NEW a, IsList(a.informed), NEW text
  PROVE  RowsIn(Explode(a, text), {"alerts"})
<1> DEFINE rows == Explode(a, text)
<1>1. rows = [i \in DOMAIN a.informed |-> rows[i]]
  BY DEF Explode
<1>2. \A i \in DOMAIN a.informed : rows[i] = AlertRow(a, a.informed[i], text)
  BY DEF Explode
<1> HIDE DEF rows
<1>3. RowsIn(rows, {"alerts"})
  BY <1>1, <1>2, RowTables, RowPerItem
<1> QED
  BY <1>3 DEF rows

\* The rows for the stops of a trip, without carriages.
LEMMA StopRows ==
  ASSUME NEW t, IsList(t.stops), NEW trips, NEW stops
  PROVE  RowsIn([i \in DOMAIN t.stops |-> StopTimeUpdateRow(t, t.stops[i], trips, stops)],
                {"trip_updates"})
<1> DEFINE rows == [i \in DOMAIN t.stops |-> StopTimeUpdateRow(t, t.stops[i], trips, stops)]
<1>1. rows = [i \in DOMAIN t.stops |-> rows[i]]
  OBVIOUS
<1>2. \A i \in DOMAIN t.stops : rows[i].table \in {"trip_updates"}
  BY RowTables
<1> HIDE DEF rows
<1>3. RowsIn(rows, {"trip_updates"})
  BY <1>1, <1>2, RowPerItem
<1> QED
  BY <1>3 DEF rows

\* The text of an alert is the same, chosen by the builder or by Python.
LEMMA SameText ==
  ASSUME NEW texts, IsList(texts)
  PROVE  TranslatedString(texts, "en") = PythonText(texts)
<1> DEFINE english == {i \in DOMAIN texts : texts[i].language = "en"}
           preferred == ItemsAt(texts, english)
<1>1. ToSet(preferred) = {texts[i] : i \in english} /\ IsList(preferred)
  <2> DEFINE T == ToSet(texts)
  <2>1. texts \in Seq(T)
    BY DEF IsList
  <2> HIDE DEF T
  <2>2. preferred \in Seq(T) /\ ToSet(preferred) = {texts[i] : i \in english \cap DOMAIN texts}
    BY <2>1, KeptLines
  <2>3. english \cap DOMAIN texts = english
    OBVIOUS
  <2> HIDE DEF preferred, english
  <2> QED
    BY <2>2, <2>3, ListOf
<1>2. preferred = <<>> <=> english = {}
  <2>1. preferred = <<>> => ToSet(preferred) = {}
    <3>1. DOMAIN <<>> = {}
      OBVIOUS
    <3> QED
      BY <3>1 DEF ToSet
  <2>2. ToSet(preferred) = {} => preferred = <<>>
    <3> HIDE DEF preferred
    <3>1. SUFFICES ASSUME preferred # <<>> PROVE ToSet(preferred) # {}
      OBVIOUS
    <3>2. preferred \in Seq(ToSet(preferred))
      BY <1>1 DEF IsList
    <3>3. 1 \in DOMAIN preferred
      <4> DEFINE T == ToSet(preferred)
      <4>1. preferred \in Seq(T)
        BY <3>2
      <4> HIDE DEF T
      <4> QED
        BY <4>1, <3>1
    <3> QED
      BY <3>3 DEF ToSet
  <2> HIDE DEF preferred, english
  <2> QED
    BY <2>1, <2>2, <1>1
<1>3. TranslatedString(texts, "en") =
        IF texts = <<>> THEN Unset
        ELSE Head(IF preferred = <<>> THEN texts ELSE preferred).text
  BY DEF TranslatedString
<1>4. PythonText(texts) = FirstTranslation(IF english # {} THEN preferred ELSE texts)
  BY DEF PythonText
<1>5. texts = <<>> => english = {}
  OBVIOUS
<1> HIDE DEF preferred, english
<1>6. CASE english = {}
  BY <1>6, <1>2, <1>3, <1>4 DEF FirstTranslation
<1>7. CASE english # {}
  BY <1>7, <1>2, <1>3, <1>4, <1>5 DEF FirstTranslation
<1> QED
  BY <1>6, <1>7

\* An entity's rows: of its tables, and the same, but for the field that is
\* blanked, on the two paths of the standard decoder.
LEMMA EntityRows ==
  ASSUME NEW m \in Messages, NEW i \in DOMAIN m.entities
  PROVE  LET built == BuiltEntity(m.entities[i])
             python == PythonEntity(m.entities[i])
         IN  /\ RowsIn(built, {"vehicles", "trip_updates", "alerts"})
             /\ IsList(python)
             /\ Blanked(built) = Blanked(python)
<1> DEFINE e == m.entities[i]
           tables == {"vehicles", "trip_updates", "alerts"}
<1>1. /\ e.trip # Unset => IsList(e.trip.stops)
      /\ e.alert # Unset => IsList(e.alert.texts) /\ IsList(e.alert.informed)
  BY EntityLists
<1> SUFFICES /\ RowsIn(BuiltEntity(e), tables)
             /\ IsList(PythonEntity(e))
             /\ Blanked(BuiltEntity(e)) = Blanked(PythonEntity(e))
  OBVIOUS
<1> HIDE DEF e
<1>2. CASE e.vehicle # Unset
  <2>1. BuiltEntity(e) = <<VehicleRow(e.vehicle, TripRelationships)>>
    BY <1>2 DEF BuiltEntity, BuiltVehicle
  <2>2. PythonEntity(e) = BuiltEntity(e)
    BY <1>2, <2>1 DEF PythonEntity, PythonVehicle
  <2>3. RowsIn(BuiltEntity(e), tables)
    <3> DEFINE row == VehicleRow(e.vehicle, TripRelationships)
    <3>1. row.table \in tables
      BY RowTables
    <3> HIDE DEF row, tables
    <3>2. RowsIn(<<row>>, tables)
      BY <3>1, FewRows
    <3> QED
      BY <2>1, <3>2 DEF row
  <2> QED
    BY <2>2, <2>3 DEF RowsIn
<1>3. CASE e.vehicle = Unset /\ e.trip # Unset
  <2> DEFINE t == e.trip
             Rows(stops) == [j \in DOMAIN t.stops |->
                               StopTimeUpdateRow(t, t.stops[j], TripRelationships, stops)]
  <2>1. BuiltEntity(e) = Rows(TripRelationships)
    BY <1>3 DEF BuiltEntity, BuiltTrip
  <2>2. PythonEntity(e) = Rows(StopRelationships)
    BY <1>3 DEF PythonEntity, PythonTrip
  <2>3. \A stops : RowsIn(Rows(stops), tables)
    <3>1. \A stops : RowsIn(Rows(stops), {"trip_updates"})
      BY <1>1, <1>3, StopRows
    <3> HIDE DEF Rows
    <3> QED
      BY <3>1, MoreTables
  <2>4. Blanked(Rows(TripRelationships)) = Blanked(Rows(StopRelationships))
    <3>1. \A s : Blank(StopTimeUpdateRow(t, s, TripRelationships, TripRelationships))
                 = Blank(StopTimeUpdateRow(t, s, TripRelationships, StopRelationships))
      BY DEF Blank, StopTimeUpdateRow
    <3> QED
      BY <3>1 DEF Blanked
  <2> HIDE DEF Rows
  <2> QED
    BY <2>1, <2>2, <2>3, <2>4 DEF RowsIn
<1>4. CASE e.vehicle = Unset /\ e.trip = Unset /\ e.alert # Unset
  <2>1. BuiltEntity(e) = Explode(e.alert, TranslatedString(e.alert.texts, "en"))
    BY <1>4 DEF BuiltEntity, BuiltAlert
  <2>2. PythonEntity(e) = Explode(e.alert, PythonText(e.alert.texts))
    BY <1>4 DEF PythonEntity, PythonAlert
  <2>3. PythonEntity(e) = BuiltEntity(e)
    BY <1>1, <1>4, <2>1, <2>2, SameText
  <2>4. RowsIn(BuiltEntity(e), tables)
    <3>1. RowsIn(BuiltEntity(e), {"alerts"})
      BY <1>1, <1>4, <2>1, AlertRows
    <3> QED
      BY <3>1, MoreTables
  <2> QED
    BY <2>3, <2>4 DEF RowsIn
<1>5. CASE e.vehicle = Unset /\ e.trip = Unset /\ e.alert = Unset
  <2>1. BuiltEntity(e) = <<>> /\ PythonEntity(e) = <<>>
    BY <1>5 DEF BuiltEntity, PythonEntity
  <2> QED
    BY <2>1, FewRows DEF RowsIn
<1> QED
  BY <1>2, <1>3, <1>4, <1>5

\* So are the rows of a payload.
LEMMA StandardRows ==
  ASSUME NEW m \in Messages
  PROVE  /\ RowsIn(DecodeArrow(m), TablesOf("standard"))
         /\ IsList(PythonDecode(m))
         /\ Blanked(DecodeArrow(m)) = Blanked(PythonDecode(m))
<1> DEFINE n == Len(m.entities)
           built == [i \in DOMAIN m.entities |-> BuiltEntity(m.entities[i])]
           python == [i \in DOMAIN m.entities |-> PythonEntity(m.entities[i])]
           tables == {"vehicles", "trip_updates", "alerts"}
<1>1. IsList(m.entities) /\ n \in Nat /\ DOMAIN m.entities = 1..n
  BY EntityLists, ListOf
<1>2. \A i \in DOMAIN m.entities :
        RowsIn(built[i], tables) /\ IsList(python[i]) /\ Blanked(built[i]) = Blanked(python[i])
  BY EntityRows
<1>3. /\ built = [i \in DOMAIN m.entities |-> built[i]]
      /\ python = [i \in DOMAIN m.entities |-> python[i]]
  OBVIOUS
<1>4. DecodeArrow(m) = FlattenSeq(built) /\ PythonDecode(m) = FlattenSeq(python)
  BY DEF DecodeArrow, PythonDecode
<1> HIDE DEF built, python, n
<1>5. RowsIn(FlattenSeq(built), tables)
  BY <1>1, <1>2, <1>3, RowsPerItem
<1>6. IsList(FlattenSeq(python))
  BY <1>1, <1>2, <1>3, FlattenedLists
<1>7. Blanked(FlattenSeq(built)) = Blanked(FlattenSeq(python))
  <2>1. \A i \in 1..n : IsList(built[i]) /\ IsList(python[i])
                          /\ Blanked(built[i]) = Blanked(python[i])
    BY <1>1, <1>2 DEF RowsIn
  <2>2. built = [i \in 1..n |-> built[i]] /\ python = [i \in 1..n |-> python[i]]
    BY <1>1, <1>3
  <2>3. IsList(built) /\ Len(built) = n /\ IsList(python) /\ Len(python) = n
    BY <1>1, <2>2, MadeList
  <2> QED
    BY <2>1, <2>3, BlankedFlat
<1> QED
  BY <1>4, <1>5, <1>6, <1>7 DEF TablesOf

\* decode_feed_message gives the rows the Python decoder yields.
LEMMA RowFunctionsAgree ==
  ASSUME NEW m \in Messages
  PROVE  DecodeFeedMessage(m) = PythonDecode(m)
<1> DEFINE Rows(e) == IF e.vehicle # Unset THEN <<DecodeVehicle(e.vehicle)>>
                      ELSE IF e.trip # Unset THEN DecodeTripUpdate(e.trip)
                      ELSE IF e.alert # Unset THEN DecodeAlert(e.alert)
                      ELSE <<>>
<1>1. ASSUME NEW i \in DOMAIN m.entities
      PROVE  Rows(m.entities[i]) = PythonEntity(m.entities[i])
  <2> DEFINE e == m.entities[i]
  <2>1. e.alert # Unset => IsList(e.alert.texts)
    BY EntityLists
  <2> HIDE DEF e
  <2>2. e.alert # Unset => DecodeAlert(e.alert) = PythonAlert(e.alert)
    BY <2>1, SameText DEF DecodeAlert, PythonAlert
  <2>3. DecodeVehicle(e.vehicle) = PythonVehicle(e.vehicle)
    BY DEF DecodeVehicle, PythonVehicle
  <2>4. DecodeTripUpdate(e.trip) = PythonTrip(e.trip)
    BY DEF DecodeTripUpdate, PythonTrip
  <2>5. Rows(e) = PythonEntity(e)
    BY <2>2, <2>3, <2>4 DEF PythonEntity
  <2> QED
    BY <2>5 DEF e
<1>2. DecodeFeedMessage(m) = FlattenSeq([i \in DOMAIN m.entities |-> Rows(m.entities[i])])
  BY DEF DecodeFeedMessage
<1> HIDE DEF Rows
<1>3. [i \in DOMAIN m.entities |-> Rows(m.entities[i])]
        = [i \in DOMAIN m.entities |-> PythonEntity(m.entities[i])]
  BY <1>1
<1> QED
  BY <1>2, <1>3 DEF PythonDecode

\* The rows of a payload of TfNSW's.
LEMMA TfnswRows ==
  ASSUME NEW m \in Messages
  PROVE  RowsIn(DecodeFeed(m), TablesOf("tfnsw"))
<1> DEFINE tables == {"vehicles", "trip_updates", "alerts", "consist"}
           rows == [i \in DOMAIN m.entities |-> TfnswEntity(m.entities[i])]
<1>1. ASSUME NEW parent, parent.table \in tables, NEW carriages, IsList(carriages)
      PROVE  RowsIn(<<parent>> \o ConsistRows(parent, carriages), tables)
  <2>1. RowsIn(ConsistRows(parent, carriages), tables)
    <3>1. RowsIn(ConsistRows(parent, carriages), {"consist"})
      BY <1>1, CarriageRows
    <3> QED
      BY <3>1, MoreTables
  <2>2. RowsIn(<<parent>>, tables)
    <3> HIDE DEF tables
    <3> QED
      BY <1>1, FewRows
  <2> DEFINE first == <<parent>>
             rest == ConsistRows(parent, carriages)
  <2> HIDE DEF first, rest, tables
  <2>3. RowsIn(first \o rest, tables)
    BY <2>1, <2>2, FewRows DEF first, rest
  <2> QED
    BY <2>3 DEF first, rest
<1>2. ASSUME NEW v, IsList(v.carriages) PROVE RowsIn(TfnswVehicle(v), tables)
  <2> DEFINE row == VehicleRow(v, TfnswTripRelationships)
  <2>1. row.table \in tables
    BY RowTables
  <2>2. TfnswVehicle(v) = <<row>> \o ConsistRows(row, v.carriages)
    BY DEF TfnswVehicle
  <2> HIDE DEF row, tables
  <2> QED
    BY <1>1, <1>2, <2>1, <2>2
<1>3. ASSUME NEW t, IsList(t.stops), \A s \in ToSet(t.stops) : IsList(s.carriages)
      PROVE  RowsIn(TfnswTrip(t), tables)
  <2> DEFINE Row(i) == StopTimeUpdateRow(t, t.stops[i], TfnswTripRelationships,
                                         StopRelationships)
             parts == [i \in DOMAIN t.stops |->
                         <<Row(i)>> \o ConsistRows(Row(i), t.stops[i].carriages)]
  <2>1. TfnswTrip(t) = FlattenSeq(parts)
    BY DEF TfnswTrip
  <2>2. \A i \in DOMAIN t.stops : RowsIn(parts[i], tables)
    <3> TAKE i \in DOMAIN t.stops
    <3>1. Row(i).table \in tables
      BY RowTables
    <3>2. IsList(t.stops[i].carriages)
      BY <1>3 DEF ToSet
    <3>3. parts[i] = <<Row(i)>> \o ConsistRows(Row(i), t.stops[i].carriages)
      OBVIOUS
    <3> HIDE DEF Row, parts, tables
    <3> QED
      BY <1>1, <3>1, <3>2, <3>3
  <2>3. parts = [i \in DOMAIN t.stops |-> parts[i]]
    OBVIOUS
  <2> HIDE DEF parts, tables
  <2>4. RowsIn(FlattenSeq(parts), tables)
    BY <1>3, <2>2, <2>3, RowsPerItem
  <2> QED
    BY <2>1, <2>4
<1>4. ASSUME NEW a, IsList(a.informed) PROVE RowsIn(TfnswAlert(a), tables)
  <2>1. RowsIn(TfnswAlert(a), {"alerts"})
    BY <1>4, AlertRows DEF TfnswAlert
  <2> QED
    BY <2>1, MoreTables
<1>5. \A i \in DOMAIN m.entities : RowsIn(rows[i], tables)
  <2> TAKE i \in DOMAIN m.entities
  <2> DEFINE e == m.entities[i]
  <2>1. /\ e.vehicle # Unset => IsList(e.vehicle.carriages)
        /\ e.trip # Unset =>
             IsList(e.trip.stops) /\ \A s \in ToSet(e.trip.stops) : IsList(s.carriages)
        /\ e.alert # Unset => IsList(e.alert.informed)
    BY EntityLists
  <2>2. rows[i] = TfnswEntity(e)
    OBVIOUS
  <2> HIDE DEF e, rows, tables
  <2>3. CASE e.vehicle # Unset
    BY <1>2, <2>1, <2>2, <2>3 DEF TfnswEntity
  <2>4. CASE e.vehicle = Unset /\ e.trip # Unset
    BY <1>3, <2>1, <2>2, <2>4 DEF TfnswEntity
  <2>5. CASE e.vehicle = Unset /\ e.trip = Unset /\ e.alert # Unset
    BY <1>4, <2>1, <2>2, <2>5 DEF TfnswEntity
  <2>6. CASE e.vehicle = Unset /\ e.trip = Unset /\ e.alert = Unset
    BY <2>2, <2>6, FewRows DEF TfnswEntity
  <2> QED
    BY <2>3, <2>4, <2>5, <2>6
<1>6. rows = [i \in DOMAIN m.entities |-> rows[i]]
  OBVIOUS
<1>7. DecodeFeed(m) = FlattenSeq(rows)
  BY DEF DecodeFeed
<1>8. IsList(m.entities)
  BY EntityLists
<1>9. TablesOf("tfnsw") = tables
  BY DEF TablesOf
<1> HIDE DEF rows, tables
<1> QED
  BY <1>5, <1>6, <1>7, <1>8, <1>9, RowsPerItem

\* The names of the decoders.
LEMMA DecoderNames ==
  /\ DOMAIN JsonDecoders = {"marta_json", "mta_lirr_json", "mwrta_json", "routematch_json",
                            "trillium_json", "swiv_json", "vta_json", "passio_json"}
  /\ ProtobufDecoders \cap DOMAIN JsonDecoders = {}
BY DEF JsonDecoders, ProtobufDecoders

\* The records a decoder looks at are among those of the payload.
LEMMA RecordsOf ==
  ASSUME NEW doc \in Documents, NEW d
  PROVE  IsList(Records(d, doc)) /\ ToSet(Records(d, doc)) \subseteq ToSet(doc.records)
<1> DEFINE T == ToSet(doc.records)
           whole == {i \in DOMAIN doc.records : doc.records[i].kind # "stray"}
<1>1. doc.records \in Seq(T)
  BY DecodingAssumption DEF IsList
<1> HIDE DEF T, whole
<1>2. ItemsAt(doc.records, whole) \in Seq(T) /\ <<>> \in Seq(T)
  BY <1>1, KeptLines
<1>3. Records(d, doc) \in {<<>>, doc.records, ItemsAt(doc.records, whole)}
  BY DEF Records, whole
<1>4. Records(d, doc) \in Seq(T)
  BY <1>1, <1>2, <1>3
<1> QED
  BY <1>4, ListOf DEF T

\* MARTA's arrival is not dated half a day or more before the event.
LEMMA Rollover ==
  ASSUME NEW event \in Nat, NEW clock \in Nat
  PROVE  CombineDateAndTime(event, clock) >= event - HalfDay
<1> DEFINE days == event \div (2 * HalfDay)
<1>1. HalfDay \in Nat /\ HalfDay > 0
  BY DecodingAssumption
<1>2. days \in Nat /\ event < days * 2 * HalfDay + 2 * HalfDay
  <2>1. ASSUME NEW a \in Nat, NEW b \in Nat, b > 0
        PROVE  a \div b \in Nat /\ a < (a \div b) * b + b
    BY <2>1
  <2>2. 2 * HalfDay \in Nat /\ 2 * HalfDay > 0
    BY <1>1
  <2>3. days \in Nat /\ event < days * (2 * HalfDay) + 2 * HalfDay
    BY <2>1, <2>2
  <2> HIDE DEF days
  <2>4. days * (2 * HalfDay) = days * 2 * HalfDay
    BY <1>1, <2>3
  <2> QED
    BY <2>3, <2>4
<1> DEFINE start == days * 2 * HalfDay
<1>3. start \in Nat
  BY <1>1, <1>2
<1>4. CombineDateAndTime(event, clock) =
        IF event - (start + clock) > HalfDay THEN start + clock + 2 * HalfDay
                                             ELSE start + clock
  BY DEF CombineDateAndTime
<1>5. event < start + 2 * HalfDay
  BY <1>2
<1> HIDE DEF start, days
<1> QED
  BY <1>1, <1>3, <1>4, <1>5

\* The rows of a JSON payload, and their arrivals if they are MARTA's.
LEMMA JsonRowFacts ==
  ASSUME NEW doc \in Documents, NEW d \in DOMAIN JsonDecoders
  PROVE  /\ RowsIn(JsonRows(d, doc), TablesOf(d))
         /\ \A row \in ToSet(JsonRows(d, doc)) :
              d = "marta_json" => row.next_arr >= row.event - HalfDay
         /\ (Records(d, doc) # <<>> /\ Head(Records(d, doc)).kind # "incomplete")
              => JsonRows(d, doc) # <<>>
<1> DEFINE records == Records(d, doc)
           places == {i \in DOMAIN records : records[i].kind # "incomplete"}
           complete == ItemsAt(records, places)
           rows == [i \in DOMAIN complete |-> RecordRow(d, complete[i])]
           T == ToSet(doc.records)
<1>1. records \in Seq(T) /\ JsonRows(d, doc) = rows
  BY RecordsOf, ListOf DEF JsonRows
<1>2. TablesOf(d) = {d}
  BY DecoderNames DEF TablesOf, ProtobufDecoders
<1>3. \A r \in T : r.event \in Nat /\ r.clock \in Nat
  BY DecodingAssumption
<1> HIDE DEF T
<1>4. complete \in Seq(T) /\ ToSet(complete) = {records[i] : i \in places}
  <2>1. /\ complete \in Seq(T)
        /\ ToSet(complete) = {records[i] : i \in places \cap DOMAIN records}
    <3> HIDE DEF records, places
    <3> QED
      BY <1>1, KeptLines
  <2>2. places \cap DOMAIN records = places
    OBVIOUS
  <2> QED
    BY <2>1, <2>2
<1>5. IsList(complete)
  BY <1>4, ListOf
<1>6. ASSUME records # <<>>, Head(records).kind # "incomplete" PROVE rows # <<>>
  <2>1. 1 \in DOMAIN records /\ Head(records) = records[1]
    <3> HIDE DEF records
    <3> QED
      BY <1>1, <1>6
  <2>2. records[1] \in ToSet(complete)
    BY <1>4, <1>6, <2>1
  <2>3. DOMAIN complete # {}
    BY <2>2 DEF ToSet
  <2>4. DOMAIN rows # {}
    BY <2>3
  <2> HIDE DEF rows
  <2> QED
    BY <2>4
<1> HIDE DEF complete, records, places
<1>7. \A i \in DOMAIN complete : complete[i] \in T
  BY <1>4
<1>8. \A r : RecordRow(d, r).table = d
  BY DEF RecordRow
<1>9. \A i \in DOMAIN complete :
        d = "marta_json" => rows[i].next_arr >= rows[i].event - HalfDay
  <2> TAKE i \in DOMAIN complete
  <2> SUFFICES ASSUME d = "marta_json" PROVE rows[i].next_arr >= rows[i].event - HalfDay
    OBVIOUS
  <2> DEFINE r == complete[i]
  <2>1. r.event \in Nat /\ r.clock \in Nat
    BY <1>3, <1>7
  <2>2. rows[i].next_arr = CombineDateAndTime(r.event, r.clock) /\ rows[i].event = r.event
    BY DEF RecordRow
  <2> HIDE DEF r, rows
  <2> QED
    BY <2>1, <2>2, Rollover
<1>10. rows = [i \in DOMAIN complete |-> rows[i]]
  OBVIOUS
<1>11. \A i \in DOMAIN complete : rows[i].table \in {d}
  BY <1>8
<1>12. ToSet(rows) = {rows[i] : i \in DOMAIN complete}
  BY <1>10 DEF ToSet
<1> HIDE DEF rows
<1>13. RowsIn(rows, {d})
  BY <1>5, <1>10, <1>11, RowPerItem
<1>14. records = Records(d, doc)
  BY DEF records
<1> QED
  BY <1>1, <1>2, <1>6, <1>9, <1>12, <1>13, <1>14

\* The payloads of a feed.
PayloadsOf(d) == IF d \in ProtobufDecoders THEN Messages ELSE Documents

\* The rows of any payload, whatever the decoder.
LEMMA AnyRows ==
  ASSUME NEW d \in ProtobufDecoders \cup DOMAIN JsonDecoders, NEW p \in PayloadsOf(d)
  PROVE  /\ RowsIn(RowsOf(d, p), TablesOf(d))
         /\ \A row \in ToSet(RowsOf(d, p)) :
              row.table = "marta_json" => row.next_arr >= row.event - HalfDay
<1>1. CASE d = "standard"
  <2>1. RowsOf(d, p) = DecodeArrow(p) /\ p \in Messages
    BY <1>1 DEF RowsOf, PayloadsOf, ProtobufDecoders
  <2>2. RowsIn(RowsOf(d, p), TablesOf(d))
    BY <1>1, <2>1, StandardRows
  <2> QED
    BY <1>1, <2>2 DEF RowsIn, TablesOf
<1>2. CASE d = "tfnsw"
  <2>1. RowsOf(d, p) = DecodeFeed(p) /\ p \in Messages
    BY <1>2 DEF RowsOf, PayloadsOf, ProtobufDecoders
  <2>2. RowsIn(RowsOf(d, p), TablesOf(d))
    BY <1>2, <2>1, TfnswRows
  <2> QED
    BY <1>2, <2>2 DEF RowsIn, TablesOf
<1>3. CASE d \in DOMAIN JsonDecoders
  <2>1. RowsOf(d, p) = JsonRows(d, p) /\ p \in Documents /\ TablesOf(d) = {d}
    BY <1>3, DecoderNames DEF RowsOf, PayloadsOf, ProtobufDecoders, TablesOf
  <2>2. /\ RowsIn(JsonRows(d, p), TablesOf(d))
        /\ \A row \in ToSet(JsonRows(d, p)) :
             d = "marta_json" => row.next_arr >= row.event - HalfDay
    BY <1>3, <2>1, JsonRowFacts
  <2> QED
    BY <2>1, <2>2 DEF RowsIn
<1> QED
  BY <1>1, <1>2, <1>3 DEF ProtobufDecoders

-----------------------------------------------------------------------------
(* The .bin files of a day.                                                *)

\* What a file holds, and what is iterated of it.
LEMMA BinFacts ==
  ASSUME NEW bin \in Bins
  PROVE  /\ bin.payloads \in Seq(Stored) /\ Len(bin.payloads) \in 1..2
         /\ IterPayloads(bin) \in Seq(Stored) /\ Len(IterPayloads(bin)) \in 0..2
         /\ ToSet(IterPayloads(bin)) \subseteq ToSet(bin.payloads)
<1>1. ASSUME NEW p \in Stored, bin.payloads = <<p>>, bin.shape = "digest"
      PROVE  /\ bin.payloads \in Seq(Stored) /\ Len(bin.payloads) = 1
             /\ IterPayloads(bin) \in {<<>>, bin.payloads}
  BY <1>1 DEF IterPayloads
<1>2. ASSUME NEW p \in Stored, NEW q \in Stored, bin.payloads = <<p, q>>, bin.shape = "framed"
      PROVE  /\ bin.payloads \in Seq(Stored) /\ Len(bin.payloads) = 2
             /\ IterPayloads(bin) \in {<<p>>, bin.payloads}
             /\ p \in ToSet(bin.payloads)
  <2>1. bin.payloads \in Seq(Stored) /\ Len(bin.payloads) = 2 /\ bin.payloads[1] = p
    BY <1>2
  <2>2. Front(bin.payloads) = <<p>>
    <3>1. Front(bin.payloads) = SubSeq(bin.payloads, 1, 1)
      BY <2>1 DEF Front
    <3>2. SubSeq(bin.payloads, 1, 1) = [i \in 1..1 |-> bin.payloads[i]]
      BY <2>1
    <3>3. <<p>> = [i \in 1..1 |-> bin.payloads[i]]
      BY <2>1
    <3> QED
      BY <3>1, <3>2, <3>3
  <2>3. IterPayloads(bin) \in {<<p>>, bin.payloads}
    BY <1>2, <2>2 DEF IterPayloads
  <2>4. p \in ToSet(bin.payloads)
    BY <2>1 DEF ToSet
  <2> QED
    BY <2>1, <2>3, <2>4
<1>3. \/ /\ bin.shape = "digest"
         /\ \E p \in Stored : bin.payloads = <<p>>
      \/ /\ bin.shape = "framed"
         /\ \E p, q \in Stored : bin.payloads = <<p, q>>
  <2> DEFINE singles == {<<p>> : p \in Stored}
             pairs == {<<p, q>> : p \in Stored, q \in Stored}
  <2>1. \/ bin.shape = "digest" /\ bin.payloads \in singles
        \/ bin.shape = "framed" /\ bin.payloads \in pairs
    <3>1. \/ bin \in [shape : {"digest"}, payloads : singles, dated : BOOLEAN, torn : {FALSE}]
          \/ bin \in [shape : {"framed"}, payloads : pairs, dated : {TRUE}, torn : BOOLEAN]
      <4>1. Bins = [shape : {"digest"}, payloads : singles, dated : BOOLEAN, torn : {FALSE}]
                     \cup
                   [shape : {"framed"}, payloads : pairs, dated : {TRUE}, torn : BOOLEAN]
        BY DEF Bins
      <4> HIDE DEF singles, pairs
      <4> QED
        BY <4>1
    <3> HIDE DEF singles, pairs
    <3> QED
      BY <3>1
  <2> QED
    BY <2>1
<1>4. /\ \A p \in Stored : <<p>> \in Seq(Stored) /\ Len(<<p>>) = 1 /\ ToSet(<<p>>) = {p}
      /\ <<>> \in Seq(Stored) /\ Len(<<>>) = 0 /\ ToSet(<<>>) = {}
  <2>1. ASSUME NEW p \in Stored PROVE ToSet(<<p>>) = {p}
    <3>1. DOMAIN <<p>> = {1} /\ <<p>>[1] = p
      OBVIOUS
    <3> QED
      BY <3>1 DEF ToSet
  <2>2. ToSet(<<>>) = {}
    <3>1. DOMAIN <<>> = {}
      OBVIOUS
    <3> QED
      BY <3>1 DEF ToSet
  <2> QED
    BY <2>1, <2>2
<1>5. CASE bin.shape = "digest"
  <2>1. PICK p \in Stored : bin.payloads = <<p>>
    BY <1>3, <1>5
  <2>2. CASE IterPayloads(bin) = bin.payloads
    BY <1>1, <1>5, <2>1, <2>2
  <2>3. CASE IterPayloads(bin) = <<>>
    BY <1>1, <1>4, <1>5, <2>1, <2>3
  <2> QED
    BY <1>1, <1>5, <2>1, <2>2, <2>3
<1>6. CASE bin.shape = "framed"
  <2>1. PICK p \in Stored, q \in Stored : bin.payloads = <<p, q>>
    BY <1>3, <1>6
  <2>2. CASE IterPayloads(bin) = bin.payloads
    BY <1>2, <1>6, <2>1, <2>2
  <2>3. CASE IterPayloads(bin) = <<p>>
    BY <1>2, <1>4, <1>6, <2>1, <2>3
  <2> QED
    BY <1>2, <1>6, <2>1, <2>2, <2>3
<1> QED
  BY <1>3, <1>5, <1>6

\* Everything a payload of the feed may decode to.
DayRows == UNION {ToSet(RowsOf(decoder, p)) : p \in Payloads}

\* The first n payloads of a file are not malformed; it ends there.
Clean(bin, n) ==
  n \in 0..Len(IterPayloads(bin)) /\ \A i \in 1..n : ~Rejects(decoder, IterPayloads(bin)[i])
Ended(bin, n) ==
  n = Len(IterPayloads(bin)) \/ Rejects(decoder, IterPayloads(bin)[n+1])

\* The rows of a file's first n payloads, those of all it gives, and those of
\* the first n files.
PartOf(bin, n) == FlattenSeq([j \in 1..n |-> RowsOf(decoder, IterPayloads(bin)[j])])
WholeBin(bin) == FlattenSeq([j \in DOMAIN Kept(bin) |-> RowsOf(decoder, Kept(bin)[j])])
FirstBins(n) == FlattenSeq([i \in 1..n |-> WholeBin(opened[i])])

LEMMA RowsOfDay ==
  ASSUME decoder \in ProtobufDecoders \cup DOMAIN JsonDecoders
  PROVE  /\ \A p \in Payloads : RowsOf(decoder, p) \in Seq(DayRows)
         /\ \A row \in DayRows : /\ row.table \in TablesOf(decoder)
                                 /\ row.table = "marta_json" =>
                                      row.next_arr >= row.event - HalfDay
<1>1. Payloads = PayloadsOf(decoder)
  BY DEF Payloads, PayloadsOf
<1>2. \A p \in Payloads :
        /\ RowsIn(RowsOf(decoder, p), TablesOf(decoder))
        /\ \A row \in ToSet(RowsOf(decoder, p)) :
             row.table = "marta_json" => row.next_arr >= row.event - HalfDay
  BY <1>1, AnyRows
<1>3. \A p \in Payloads : IsList(RowsOf(decoder, p)) /\ ToSet(RowsOf(decoder, p)) \subseteq DayRows
  BY <1>2 DEF RowsIn, DayRows
<1>4. \A p \in Payloads : RowsOf(decoder, p) \in Seq(DayRows)
  BY <1>3, ListOf
<1>5. \A row \in DayRows : \E p \in Payloads : row \in ToSet(RowsOf(decoder, p))
  BY DEF DayRows
<1> QED
  BY <1>2, <1>4, <1>5 DEF RowsIn

\* Rows of lists taken one after the other.
LEMMA FlatPrefix ==
  ASSUME NEW T, NEW seqs, NEW n \in Nat, \A i \in 1..n : seqs[i] \in Seq(T)
  PROVE  /\ FlattenSeq([i \in 1..0 |-> seqs[i]]) = <<>>
         /\ FlattenSeq([i \in 1..n |-> seqs[i]]) \in Seq(T)
         /\ n > 0 => FlattenSeq([i \in 1..n |-> seqs[i]])
                       = FlattenSeq([i \in 1..(n-1) |-> seqs[i]]) \o seqs[n]
<1> DEFINE First(k) == [i \in 1..k |-> seqs[i]]
           U == Seq(T)
<1>1. \A k \in 0..n : First(k) \in Seq(U) /\ Len(First(k)) = k
  <2> TAKE k \in 0..n
  <2>1. k \in Nat /\ \A i \in 1..k : seqs[i] \in U
    OBVIOUS
  <2> HIDE DEF U
  <2> QED
    BY <2>1
<1>2. FlattenSeq(First(0)) = <<>>
  <2>1. Len(First(0)) = 0 /\ First(0) \in Seq(Seq(T))
    BY <1>1
  <2>2. First(0) = <<>>
    OBVIOUS
  <2>3. PICK f : f[0] = <<>> /\ FlattenSeq(First(0)) = f[Len(First(0))]
    <3> HIDE DEF First
    <3> QED
      BY <2>1, Flattened
  <2> QED
    BY <2>1, <2>3
<1>3. n \in 0..n
  OBVIOUS
<1>4. FlattenSeq(First(n)) \in Seq(T)
  <2>1. First(n) \in Seq(Seq(T))
    BY <1>1, <1>3
  <2> HIDE DEF First
  <2> QED
    BY <2>1, FlattenedSet
<1>5. ASSUME n > 0 PROVE FlattenSeq(First(n)) = FlattenSeq(First(n-1)) \o seqs[n]
  <2>1. n - 1 \in 0..n /\ n \in 1..n /\ seqs[n] \in Seq(T)
    BY <1>5
  <2>2. First(n-1) \in Seq(U) /\ Len(First(n-1)) = n - 1
    BY <1>1, <2>1
  <2>3. First(n) = Append(First(n-1), seqs[n])
    <3> DEFINE a == First(n-1)
               b == Append(a, seqs[n])
    <3>1. a \in Seq(U) /\ Len(a) = n - 1 /\ \A i \in 1..(n-1) : a[i] = seqs[i]
      BY <2>2
    <3> HIDE DEF a, U
    <3>2. seqs[n] \in U
      BY <2>1 DEF U
    <3>3. /\ b \in Seq(U) /\ Len(b) = n
          /\ \A i \in 1..(n-1) : b[i] = a[i]
          /\ b[n] = seqs[n]
      <4>1. (n - 1) + 1 = n
        OBVIOUS
      <4> QED
        BY <3>1, <3>2, <4>1, OneMore
    <3> HIDE DEF b
    <3>4. \A i \in 1..n : b[i] = seqs[i]
      <4>1. \A i \in 1..n : i \in 1..(n-1) \/ i = n
        OBVIOUS
      <4> QED
        BY <3>1, <3>3, <4>1
    <3>5. b = [i \in 1..n |-> b[i]]
      BY <3>3
    <3>6. b = First(n)
      BY <3>4, <3>5
    <3> QED
      BY <3>6 DEF a, b
  <2>4. First(n-1) \in Seq(Seq(T))
    BY <2>2
  <2> HIDE DEF First, U
  <2> QED
    BY <2>1, <2>3, <2>4, FlattenedMore
<1> QED
  BY <1>2, <1>4, <1>5

\* What is kept of a file are the payloads before the first malformed one.
LEMMA KeptFirst ==
  ASSUME NEW bin \in Bins
  PROVE  /\ Kept(bin) \in Seq(Stored)
         /\ \A n : Clean(bin, n) /\ Ended(bin, n) =>
              Len(Kept(bin)) = n /\ Kept(bin) = [j \in 1..n |-> IterPayloads(bin)[j]]
<1> DEFINE all == IterPayloads(bin)
           places == {j \in DOMAIN all : \A i \in 1..j : ~Rejects(decoder, all[i])}
<1>1. all \in Seq(Stored) /\ Len(all) \in Nat /\ DOMAIN all = 1..Len(all)
  BY BinFacts
<1>2. Kept(bin) = ItemsAt(all, places)
  BY DEF Kept
<1>3. Kept(bin) \in Seq(Stored)
  <2> HIDE DEF all, places
  <2> QED
    BY <1>1, <1>2, KeptLines
<1>4. ASSUME NEW n, Clean(bin, n), Ended(bin, n)
      PROVE  Len(Kept(bin)) = n /\ Kept(bin) = [j \in 1..n |-> all[j]]
  <2>1. n \in 0..Len(all) /\ \A i \in 1..n : ~Rejects(decoder, all[i])
    BY <1>4 DEF Clean
  <2>2. n = Len(all) \/ Rejects(decoder, all[n+1])
    BY <1>4 DEF Ended
  <2> HIDE DEF all
  <2>3. \A i \in 1..Len(all) : i \in places <=> i <= n
    <3> TAKE i \in 1..Len(all)
    <3>1. ASSUME i <= n PROVE i \in places
      <4>1. \A j \in 1..i : j \in 1..n
        BY <1>1, <2>1, <3>1
      <4> QED
        BY <1>1, <2>1, <4>1
    <3>2. ASSUME ~(i <= n) PROVE i \notin places
      <4>1. n \in Nat /\ i \in Nat /\ i <= Len(all) /\ n < i
        BY <1>1, <2>1, <3>2
      <4>2. n + 1 \in 1..i
        BY <4>1
      <4>3. n # Len(all)
        <5> DEFINE m == Len(all)
        <5>1. i <= m /\ m \in Nat
          BY <1>1, <4>1
        <5> HIDE DEF m
        <5>2. n # m
          BY <4>1, <5>1
        <5> QED
          BY <5>2 DEF m
      <4> QED
        BY <2>2, <4>2, <4>3
    <3> QED
      BY <3>1, <3>2
  <2> HIDE DEF places
  <2> QED
    BY <1>1, <1>2, <2>1, <2>3, FirstItems
<1> QED
  BY <1>3, <1>4

-----------------------------------------------------------------------------
(* The loop over the files.                                                *)

\* The state is of its type.
DecodingBounds ==
  /\ decoder \in ProtobufDecoders \cup DOMAIN JsonDecoders
  /\ opened \in Seq(Bins) /\ Len(opened) <= MaxBins /\ Stock <= MaxPayloads
  /\ skipped \in BOOLEAN
  /\ rollup \in {"open", "failed", "committed"}

\* Where the loop is in the last file: none of the payloads so far is
\* malformed, the next one is if the file was skipped, and raises if the day
\* failed.
InLastBin ==
  /\ opened = <<>> => at = 0 /\ decoded = <<>> /\ rollup # "failed"
  /\ opened # <<>> =>
       /\ Clean(Last(opened), at)
       /\ skipped => at < Len(Current) /\ Rejects(decoder, Current[at+1])
  /\ rollup = "committed" => BinOver
  /\ rollup = "failed" =>
       decoded = <<>> /\ at < Len(Current) /\ Raises(decoder, Current[at+1])

\* What the sinks have: all that the files before the last one give, and the
\* rows of the last one's payloads so far.
RowsStand ==
  opened # <<>> /\ rollup # "failed" =>
    decoded = FirstBins(Len(opened) - 1) \o PartOf(Last(opened), at)

DecodingInv == DecodingBounds /\ InLastBin /\ RowsStand

\* The last file.
LEMMA LastBin ==
  ASSUME opened \in Seq(Bins), opened # <<>>
  PROVE  /\ Len(opened) \in Nat \ {0} /\ Last(opened) = opened[Len(opened)]
         /\ Last(opened) \in Bins /\ Current = IterPayloads(Last(opened))
<1>1. Len(opened) \in Nat \ {0}
  OBVIOUS
<1>2. Last(opened) = opened[Len(opened)]
  BY DEF Last
<1>3. opened[Len(opened)] \in Bins
  BY <1>1
<1> QED
  BY <1>1, <1>2, <1>3 DEF Current

\* The rows of some payloads, files and days are lists of the feed's rows.
LEMMA RowLists ==
  ASSUME decoder \in ProtobufDecoders \cup DOMAIN JsonDecoders
  PROVE  /\ \A bin \in Bins : \A n \in 0..Len(IterPayloads(bin)) :
              /\ PartOf(bin, n) \in Seq(DayRows)
              /\ PartOf(bin, 0) = <<>>
              /\ n > 0 => PartOf(bin, n) =
                   PartOf(bin, n-1) \o RowsOf(decoder, IterPayloads(bin)[n])
         /\ \A bin \in Bins : WholeBin(bin) \in Seq(DayRows)
         /\ opened \in Seq(Bins) => \A n \in 0..Len(opened) :
              /\ FirstBins(n) \in Seq(DayRows)
              /\ FirstBins(0) = <<>>
              /\ n > 0 => FirstBins(n) = FirstBins(n-1) \o WholeBin(opened[n])
<1>1. Stored \subseteq Payloads
  BY DEF Stored
<1>2. \A p \in Stored : RowsOf(decoder, p) \in Seq(DayRows)
  BY <1>1, RowsOfDay
<1>3. ASSUME NEW bin \in Bins, NEW n \in 0..Len(IterPayloads(bin))
      PROVE  /\ PartOf(bin, n) \in Seq(DayRows)
             /\ PartOf(bin, 0) = <<>>
             /\ n > 0 => PartOf(bin, n) =
                  PartOf(bin, n-1) \o RowsOf(decoder, IterPayloads(bin)[n])
  <2> DEFINE all == IterPayloads(bin)
             rows == [j \in DOMAIN all |-> RowsOf(decoder, all[j])]
  <2>1. all \in Seq(Stored) /\ DOMAIN all = 1..Len(all) /\ Len(all) \in Nat
    BY BinFacts
  <2>2. n \in Nat /\ \A j \in 1..n : j \in DOMAIN all /\ all[j] \in Stored
    BY <2>1
  <2>3. \A j \in 1..n : rows[j] = RowsOf(decoder, all[j]) /\ rows[j] \in Seq(DayRows)
    BY <1>2, <2>2
  <2>4. \A k \in 0..n : PartOf(bin, k) = FlattenSeq([j \in 1..k |-> rows[j]])
    <3> TAKE k \in 0..n
    <3>1. \A j \in 1..k : rows[j] = RowsOf(decoder, all[j])
      BY <2>2, <2>3
    <3> HIDE DEF rows
    <3>2. [j \in 1..k |-> rows[j]] = [j \in 1..k |-> RowsOf(decoder, all[j])]
      BY <3>1
    <3> QED
      BY <3>2 DEF PartOf
  <2> HIDE DEF rows, all
  <2>5. /\ FlattenSeq([j \in 1..0 |-> rows[j]]) = <<>>
        /\ FlattenSeq([j \in 1..n |-> rows[j]]) \in Seq(DayRows)
        /\ n > 0 => FlattenSeq([j \in 1..n |-> rows[j]])
                      = FlattenSeq([j \in 1..(n-1) |-> rows[j]]) \o rows[n]
    BY <2>2, <2>3, FlatPrefix
  <2>6. 0 \in 0..n /\ n \in 0..n /\ (n > 0 => n - 1 \in 0..n /\ n \in 1..n)
    BY <2>2
  <2> QED
    BY <2>3, <2>4, <2>5, <2>6 DEF all
<1>4. ASSUME NEW bin \in Bins PROVE WholeBin(bin) \in Seq(DayRows)
  <2> DEFINE kept == Kept(bin)
             rows == [j \in DOMAIN kept |-> RowsOf(decoder, kept[j])]
  <2>1. kept \in Seq(Stored) /\ DOMAIN kept = 1..Len(kept) /\ Len(kept) \in Nat
    BY KeptFirst
  <2> HIDE DEF kept
  <2>2. \A j \in 1..Len(kept) : rows[j] \in Seq(DayRows)
    BY <1>2, <2>1
  <2>3. rows = [j \in 1..Len(kept) |-> rows[j]]
    BY <2>1
  <2>4. FlattenSeq(rows) = WholeBin(bin)
    BY DEF WholeBin, kept
  <2> HIDE DEF rows
  <2>5. FlattenSeq([j \in 1..Len(kept) |-> rows[j]]) \in Seq(DayRows)
    BY <2>1, <2>2, FlatPrefix
  <2> QED
    BY <2>3, <2>4, <2>5
<1>5. ASSUME opened \in Seq(Bins), NEW n \in 0..Len(opened)
      PROVE  /\ FirstBins(n) \in Seq(DayRows)
             /\ FirstBins(0) = <<>>
             /\ n > 0 => FirstBins(n) = FirstBins(n-1) \o WholeBin(opened[n])
  <2> DEFINE rows == [i \in DOMAIN opened |-> WholeBin(opened[i])]
  <2>1. n \in Nat /\ \A i \in 1..n : i \in DOMAIN opened /\ opened[i] \in Bins
    BY <1>5
  <2>2. \A i \in 1..n : rows[i] = WholeBin(opened[i]) /\ rows[i] \in Seq(DayRows)
    BY <1>4, <2>1
  <2>3. \A k \in 0..n : FirstBins(k) = FlattenSeq([i \in 1..k |-> rows[i]])
    <3> TAKE k \in 0..n
    <3>1. \A i \in 1..k : rows[i] = WholeBin(opened[i])
      BY <2>1, <2>2
    <3> HIDE DEF rows
    <3>2. [i \in 1..k |-> rows[i]] = [i \in 1..k |-> WholeBin(opened[i])]
      BY <3>1
    <3> QED
      BY <3>2 DEF FirstBins
  <2> HIDE DEF rows
  <2>4. /\ FlattenSeq([i \in 1..0 |-> rows[i]]) = <<>>
        /\ FlattenSeq([i \in 1..n |-> rows[i]]) \in Seq(DayRows)
        /\ n > 0 => FlattenSeq([i \in 1..n |-> rows[i]])
                      = FlattenSeq([i \in 1..(n-1) |-> rows[i]]) \o rows[n]
    BY <2>1, <2>2, FlatPrefix
  <2>5. 0 \in 0..n /\ n \in 0..n /\ (n > 0 => n - 1 \in 0..n /\ n \in 1..n)
    BY <2>1
  <2> QED
    BY <2>2, <2>3, <2>4, <2>5
<1> QED
  BY <1>3, <1>4, <1>5

\* A file that is over gave all it gives.
LEMMA EndedBin ==
  ASSUME NEW bin \in Bins, NEW n, Clean(bin, n), Ended(bin, n)
  PROVE  WholeBin(bin) = PartOf(bin, n)
<1> DEFINE all == IterPayloads(bin)
           kept == Kept(bin)
<1>1. Len(kept) = n /\ kept = [j \in 1..n |-> all[j]] /\ kept \in Seq(Stored)
  BY KeptFirst
<1> HIDE DEF all, kept
<1>2. DOMAIN kept = 1..n /\ \A j \in 1..n : kept[j] = all[j]
  BY <1>1
<1>3. [j \in DOMAIN kept |-> RowsOf(decoder, kept[j])] = [j \in 1..n |-> RowsOf(decoder, all[j])]
  BY <1>2
<1> QED
  BY <1>3 DEF WholeBin, PartOf, all, kept

\* When the last file is over, the sinks have what all files give.
LEMMA AllGiven ==
  ASSUME DecodingInv, BinOver, rollup # "failed"
  PROVE  decoded = FirstBins(Len(opened)) /\ decoded \in Seq(DayRows)
<1> DEFINE n == Len(opened)
<1>1. /\ decoder \in ProtobufDecoders \cup DOMAIN JsonDecoders
      /\ opened \in Seq(Bins) /\ n \in Nat
  BY DEF DecodingInv, DecodingBounds
<1>2. CASE opened = <<>>
  <2>1. decoded = <<>> /\ n = 0 /\ n \in 0..n
    BY <1>2 DEF DecodingInv, InLastBin
  <2> HIDE DEF n
  <2>2. FirstBins(0) = <<>> /\ FirstBins(0) \in Seq(DayRows)
    BY <1>1, <2>1, RowLists DEF n
  <2> QED
    BY <2>1, <2>2 DEF n
<1>3. CASE opened # <<>>
  <2> DEFINE bin == Last(opened)
  <2>1. n \in Nat \ {0} /\ bin = opened[n] /\ bin \in Bins /\ Current = IterPayloads(bin)
    BY <1>1, <1>3, LastBin
  <2>2. Clean(bin, at)
    BY <1>3 DEF DecodingInv, InLastBin
  <2>3. Ended(bin, at)
    BY <1>3, <2>1 DEF DecodingInv, InLastBin, BinOver, Ended
  <2>4. WholeBin(bin) = PartOf(bin, at)
    BY <2>1, <2>2, <2>3, EndedBin
  <2>5. decoded = FirstBins(n - 1) \o PartOf(bin, at)
    BY <1>3 DEF DecodingInv, RowsStand
  <2>6. n \in 0..n /\ n > 0
    BY <2>1
  <2> HIDE DEF n, bin
  <2>7. FirstBins(n) = FirstBins(n-1) \o WholeBin(opened[n]) /\ FirstBins(n) \in Seq(DayRows)
    BY <1>1, <2>6, RowLists DEF n
  <2>8. decoded = FirstBins(n) /\ decoded \in Seq(DayRows)
    BY <2>1, <2>4, <2>5, <2>7
  <2> QED
    BY <2>8 DEF n
<1> QED
  BY <1>2, <1>3

LEMMA DecodingInitInv == DecodingInit => DecodingInv
<1> SUFFICES ASSUME DecodingInit PROVE DecodingInv
  OBVIOUS
<1>1. opened = <<>> /\ at = 0 /\ skipped = FALSE /\ decoded = <<>> /\ rollup = "open"
  BY DEF DecodingInit
<1>2. Stock = 0
  <2>1. FlattenSeq([i \in DOMAIN opened |-> opened[i].payloads]) = <<>>
    <3> DEFINE seqs == [i \in DOMAIN opened |-> opened[i].payloads]
    <3>1. seqs = <<>>
      BY <1>1
    <3>2. seqs \in Seq(Seq({})) /\ Len(seqs) = 0
      BY <3>1
    <3> HIDE DEF seqs
    <3>3. PICK f : f[0] = <<>> /\ FlattenSeq(seqs) = f[Len(seqs)]
      BY <3>2, Flattened
    <3>4. FlattenSeq(seqs) = <<>>
      BY <3>2, <3>3
    <3> QED
      BY <3>4 DEF seqs
  <2> QED
    BY <2>1 DEF Stock
<1>3. DecodingBounds
  <2>1. {MaxBins, MaxPayloads} \subseteq Nat
    BY DecodingAssumption
  <2>2. opened \in Seq(Bins) /\ Len(opened) = 0
    BY <1>1
  <2>3. decoder \in ProtobufDecoders \cup DOMAIN JsonDecoders
    BY DEF DecodingInit
  <2>4. Len(opened) <= MaxBins
    BY <2>1, <2>2
  <2>5. Stock <= MaxPayloads
    BY <1>2, <2>1
  <2>6. skipped \in BOOLEAN /\ rollup \in {"open", "failed", "committed"}
    BY <1>1
  <2> QED
    BY <2>2, <2>3, <2>4, <2>5, <2>6 DEF DecodingBounds
<1>4. InLastBin /\ RowsStand
  BY <1>1 DEF InLastBin, RowsStand
<1> QED
  BY <1>3, <1>4 DEF DecodingInv

\* A new file is opened once the last one is over: what the sinks have is what
\* the files so far give.
LEMMA OpenKeeps == DecodingInv /\ OpenBin => DecodingInv'
<1> SUFFICES ASSUME DecodingInv, OpenBin PROVE DecodingInv'
  OBVIOUS
<1> PICK n : n = Len(opened)
  OBVIOUS
<1>1. /\ decoder \in ProtobufDecoders \cup DOMAIN JsonDecoders
      /\ opened \in Seq(Bins) /\ n \in Nat
      /\ rollup = "open" /\ BinOver /\ Len(opened) < MaxBins
      /\ UNCHANGED <<decoder, decoded, rollup>> /\ at' = 0 /\ skipped' = FALSE
  BY DEF DecodingInv, DecodingBounds, OpenBin
<1>2. PICK bin \in Bins : /\ Stock + Len(bin.payloads) <= MaxPayloads
                          /\ opened' = Append(opened, bin)
  BY DEF OpenBin
<1>3. Bins' = Bins /\ \A b : Kept(b)' = Kept(b) /\ WholeBin(b)' = WholeBin(b)
  BY <1>1 DEF Bins, Stored, Payloads, Kept, WholeBin
<1>4. /\ opened' \in Seq(Bins) /\ Len(opened') = n + 1
      /\ \A i \in 1..n : opened'[i] = opened[i]
      /\ opened'[n+1] = bin
  BY <1>1, <1>2, OneMore
<1>5. opened' # <<>> /\ Last(opened') = bin /\ Current' = IterPayloads(bin)
  <2>1. opened' # <<>>
    BY <1>1, <1>4
  <2>2. Last(opened') = bin
    BY <1>4 DEF Last
  <2> QED
    BY <2>1, <2>2 DEF Current
<1>6. (Stock <= MaxPayloads)'
  <2> DEFINE P == UNION {ToSet(b.payloads) : b \in Bins}
             seqs == [i \in DOMAIN opened |-> opened[i].payloads]
             U == Seq(P)
  <2>1. \A b \in Bins : b.payloads \in U /\ Len(b.payloads) \in Nat
    <3> TAKE b \in Bins
    <3>1. b.payloads \in Seq(Stored) /\ Len(b.payloads) \in Nat
      BY BinFacts
    <3>2. ToSet(b.payloads) \subseteq P
      OBVIOUS
    <3> HIDE DEF P
    <3> QED
      BY <3>1, <3>2, Narrowed
  <2>2. DOMAIN opened = 1..n /\ \A i \in 1..n : opened[i] \in Bins
    BY <1>1
  <2>3. DOMAIN opened' = 1..(n+1)
    BY <1>1, <1>4
  <2> HIDE DEF U
  <2>4. seqs \in Seq(U) /\ Len(seqs) = n
    BY <1>1, <2>1, <2>2
  <2>5. [i \in DOMAIN opened' |-> opened'[i].payloads] = Append(seqs, bin.payloads)
    <3> DEFINE x == bin.payloads
               more == Append(seqs, x)
    <3>1. x \in U
      BY <2>1
    <3>2. \A i \in 1..n : seqs[i] = opened[i].payloads
      BY <2>2
    <3> HIDE DEF seqs, x
    <3>3. /\ more \in Seq(U) /\ Len(more) = n + 1
          /\ \A i \in 1..n : more[i] = seqs[i]
          /\ more[n+1] = x
      BY <2>4, <3>1, OneMore
    <3> HIDE DEF more
    <3>4. \A i \in 1..(n+1) : more[i] = opened'[i].payloads
      <4>1. \A i \in 1..(n+1) : i \in 1..n \/ i = n + 1
        BY <1>1
      <4> QED
        BY <1>4, <3>2, <3>3, <4>1 DEF x
    <3>5. more = [i \in 1..(n+1) |-> more[i]]
      BY <3>3
    <3>6. more = [i \in 1..(n+1) |-> opened'[i].payloads]
      BY <3>4, <3>5
    <3> QED
      BY <2>3, <3>6 DEF more, x
  <2>6. FlattenSeq(Append(seqs, bin.payloads)) = FlattenSeq(seqs) \o bin.payloads
    <3> HIDE DEF seqs, P
    <3> QED
      BY <2>1, <2>4, FlattenedMore DEF U
  <2>7. FlattenSeq(seqs) \in Seq(P)
    <3> HIDE DEF seqs, P
    <3> QED
      BY <2>4, FlattenedSet DEF U
  <2>8. Stock = Len(FlattenSeq(seqs))
    BY DEF Stock
  <2>9. Stock' = Len(FlattenSeq(seqs) \o bin.payloads)
    BY <2>5, <2>6 DEF Stock
  <2> DEFINE a == FlattenSeq(seqs)
             x == bin.payloads
  <2>10. x \in Seq(P)
    BY <2>1 DEF U
  <2> HIDE DEF a, x, P
  <2>11. Len(a \o x) = Len(a) + Len(x)
    BY <2>7, <2>10 DEF a
  <2>12. Stock' = Stock + Len(bin.payloads) /\ MaxPayloads' = MaxPayloads
    BY <2>8, <2>9, <2>11 DEF a, x
  <2> QED
    BY <1>2, <2>12
<1>7. DecodingBounds'
  <2>1. Len(opened') <= MaxBins
    <3>1. MaxBins \in Nat /\ n < MaxBins
      BY <1>1, DecodingAssumption
    <3> QED
      BY <1>1, <1>4, <3>1
  <2> QED
    BY <1>1, <1>3, <1>4, <1>6, <2>1 DEF DecodingBounds
<1>8. InLastBin'
  <2>1. Clean(bin, 0)'
    <3>1. Len(IterPayloads(bin)) \in Nat
      BY BinFacts
    <3> QED
      BY <3>1 DEF Clean
  <2>2. at' = 0 /\ skipped' = FALSE /\ rollup' = "open"
    BY <1>1
  <2> QED
    BY <1>5, <2>1, <2>2 DEF InLastBin
<1>9. RowsStand'
  <2>1. decoded = FirstBins(n) /\ decoded \in Seq(DayRows)
    BY <1>1, AllGiven
  <2>2. FirstBins(n)' = FirstBins(n)
    <3>1. \A i \in 1..n : WholeBin(opened[i])' = WholeBin(opened[i])
      BY <1>1, <1>3, <1>4 DEF WholeBin, Kept
    <3>2. [i \in 1..n |-> WholeBin(opened[i])'] = [i \in 1..n |-> WholeBin(opened[i])]
      BY <3>1
    <3> QED
      BY <3>2 DEF FirstBins
  <2>3. PartOf(bin, 0)' = <<>>
    <3>1. PartOf(bin, 0)' = PartOf(bin, 0)
      BY <1>1 DEF PartOf
    <3>2. 0 \in 0..Len(IterPayloads(bin))
      BY BinFacts
    <3> QED
      BY <1>1, <3>1, <3>2, RowLists
  <2>4. decoded \o <<>> = decoded
    BY <2>1
  <2>5. (n + 1) - 1 = n
    BY <1>1
  <2> QED
    <3>1. (FirstBins(Len(opened) - 1))' = FirstBins(n)
      BY <1>4, <2>2, <2>5 DEF FirstBins
    <3>2. (PartOf(Last(opened), at))' = <<>>
      BY <1>1, <1>5, <2>3 DEF PartOf
    <3> QED
      BY <1>1, <2>1, <2>4, <3>1, <3>2 DEF RowsStand
<1> QED
  BY <1>7, <1>8, <1>9 DEF DecodingInv

\* The file that is being read.
LEMMA NextPayload ==
  ASSUME DecodingInv, NEW p, Upcoming(p)
  PROVE  /\ opened # <<>> /\ Last(opened) \in Bins /\ rollup = "open" /\ ~skipped
         /\ Current = IterPayloads(Last(opened))
         /\ at \in Nat /\ at + 1 \in 0..Len(Current) /\ at < Len(Current)
         /\ at + 1 \in 1..Len(Current) /\ p = Current[at+1]
<1>1. opened # <<>> /\ ~skipped /\ at # Len(Current) /\ rollup = "open" /\ p = Current[at+1]
  BY DEF Upcoming, BinOver
<1>2. Last(opened) \in Bins /\ Current = IterPayloads(Last(opened))
  BY <1>1, LastBin DEF DecodingInv, DecodingBounds
<1>3. at \in 0..Len(Current)
  BY <1>1, <1>2 DEF DecodingInv, InLastBin, Clean
<1>4. Len(Current) \in Nat
  BY <1>2, BinFacts
<1> DEFINE m == Len(Current)
<1> HIDE DEF m
<1>5. at \in Nat /\ at + 1 \in 0..m /\ at < m /\ at + 1 \in 1..m
  BY <1>1, <1>3, <1>4 DEF m
<1> QED
  BY <1>1, <1>2, <1>5 DEF m

\* The files do not change while one is decoded.
LEMMA SameBins ==
  ASSUME DecodingInv, UNCHANGED <<decoder, opened>>,
         skipped' \in BOOLEAN, rollup' \in {"open", "failed", "committed"}
  PROVE  /\ DecodingBounds' /\ Current' = Current /\ Last(opened)' = Last(opened)
         /\ \A n : FirstBins(n)' = FirstBins(n)
         /\ \A bin, n : PartOf(bin, n)' = PartOf(bin, n) /\ Clean(bin, n)' = Clean(bin, n)
<1>1. Bins' = Bins /\ Stock' = Stock
  BY DEF Bins, Stored, Payloads, Stock
<1>2. DecodingBounds'
  BY <1>1 DEF DecodingInv, DecodingBounds
<1>3. Current' = Current /\ Last(opened)' = Last(opened)
  BY DEF Current
<1>4. \A n : FirstBins(n)' = FirstBins(n)
  BY DEF FirstBins, WholeBin, Kept
<1>5. \A bin, n : PartOf(bin, n)' = PartOf(bin, n) /\ Clean(bin, n)' = Clean(bin, n)
  BY DEF PartOf, Clean
<1> QED
  BY <1>2, <1>3, <1>4, <1>5

\* A payload's rows follow those of the payloads before it.
LEMMA DecodeKeeps ==
  ASSUME NEW p, DecodingInv, DecodePayload(p)
  PROVE  DecodingInv'
<1> PICK bin : bin = Last(opened)
  OBVIOUS
<1>1. /\ ~Rejects(decoder, p) /\ decoded' = decoded \o RowsOf(decoder, p) /\ at' = at + 1
      /\ UNCHANGED <<decoder, opened, skipped, rollup>> /\ Upcoming(p)
  BY DEF DecodePayload
<1>2. /\ opened # <<>> /\ bin \in Bins /\ rollup = "open" /\ ~skipped
      /\ Current = IterPayloads(bin) /\ at \in Nat /\ at + 1 \in 0..Len(Current)
      /\ p = Current[at+1]
  BY <1>1, NextPayload
<1>3. /\ decoder \in ProtobufDecoders \cup DOMAIN JsonDecoders
      /\ opened \in Seq(Bins) /\ skipped \in BOOLEAN
      /\ rollup \in {"open", "failed", "committed"}
  BY DEF DecodingInv, DecodingBounds
<1>4. /\ DecodingBounds' /\ Current' = Current /\ Last(opened)' = bin
      /\ \A n : FirstBins(n)' = FirstBins(n)
      /\ \A b, n : PartOf(b, n)' = PartOf(b, n) /\ Clean(b, n)' = Clean(b, n)
  BY <1>1, <1>3, SameBins
<1>5. Clean(bin, at)
  BY <1>2 DEF DecodingInv, InLastBin
<1>6. Clean(bin, at + 1)
  <2>1. \A i \in 1..(at+1) : i \in 1..at \/ i = at + 1
    BY <1>2
  <2> QED
    BY <1>1, <1>2, <1>5, <2>1 DEF Clean
<1>7. InLastBin'
  <2>1. (Clean(Last(opened), at))'
    BY <1>1, <1>4, <1>6 DEF Clean
  <2> QED
    BY <1>1, <1>2, <1>4, <2>1 DEF InLastBin
<1>8. RowsStand'
  <2> DEFINE n == Len(opened)
  <2>1. decoded = FirstBins(n - 1) \o PartOf(bin, at)
    BY <1>2 DEF DecodingInv, RowsStand
  <2>2. PartOf(bin, at + 1) = PartOf(bin, at) \o RowsOf(decoder, p)
    <3>1. at + 1 > 0 /\ (at + 1) - 1 = at
      BY <1>2
    <3> QED
      BY <1>2, <1>3, <3>1, RowLists
  <2>3. FirstBins(n - 1) \in Seq(DayRows) /\ PartOf(bin, at) \in Seq(DayRows)
    <3>1. n - 1 \in 0..n
      BY <1>2, <1>3, LastBin
    <3>2. at \in 0..Len(IterPayloads(bin))
      BY <1>5 DEF Clean
    <3> QED
      BY <1>2, <1>3, <3>1, <3>2, RowLists
  <2>4. RowsOf(decoder, p) \in Seq(DayRows)
    <3>1. p \in Stored
      <4>1. IterPayloads(bin) \in Seq(Stored) /\ at + 1 \in 1..Len(IterPayloads(bin))
        BY <1>2, BinFacts
      <4> QED
        BY <1>2, <4>1
    <3> QED
      BY <1>3, <3>1, RowsOfDay DEF Stored
  <2> HIDE DEF n
  <2>5. decoded' = FirstBins(n - 1) \o PartOf(bin, at + 1)
    <3> DEFINE T == DayRows
               a == FirstBins(n - 1)
               b == PartOf(bin, at)
               c == RowsOf(decoder, p)
    <3>1. a \in Seq(T) /\ b \in Seq(T) /\ c \in Seq(T)
      BY <2>3, <2>4
    <3>2. decoded' = (a \o b) \o c
      BY <1>1, <2>1
    <3>3. PartOf(bin, at + 1) = b \o c
      BY <2>2
    <3> HIDE DEF a, b, c, T
    <3>4. (a \o b) \o c = a \o (b \o c)
      BY <3>1
    <3>5. decoded' = a \o PartOf(bin, at + 1)
      BY <3>2, <3>3, <3>4
    <3> QED
      BY <3>5 DEF a
  <2>6. FirstBins(Len(opened) - 1)' = FirstBins(n - 1)
    BY <1>1, <1>4 DEF FirstBins, WholeBin, Kept, n
  <2>7. (PartOf(Last(opened), at))' = PartOf(bin, at + 1)
    BY <1>1, <1>4 DEF PartOf
  <2> QED
    BY <2>5, <2>6, <2>7 DEF RowsStand
<1> QED
  BY <1>4, <1>7, <1>8 DEF DecodingInv

\* A malformed payload ends its file, and a payload that raises the day.
LEMMA StopKeeps ==
  ASSUME NEW p, DecodingInv, SkipBin(p) \/ DayFails(p)
  PROVE  DecodingInv'
<1>1. Upcoming(p) /\ UNCHANGED <<decoder, opened, at>>
  BY DEF SkipBin, DayFails
<1>2. /\ opened # <<>> /\ Last(opened) \in Bins /\ rollup = "open" /\ ~skipped
      /\ Current = IterPayloads(Last(opened)) /\ at < Len(Current)
      /\ p = Current[at+1]
  BY <1>1, NextPayload
<1>3. skipped \in BOOLEAN
  BY DEF DecodingInv, DecodingBounds
<1>4. skipped' \in BOOLEAN /\ rollup' \in {"open", "failed", "committed"}
  BY <1>2, <1>3 DEF SkipBin, DayFails
<1>5. /\ DecodingBounds' /\ Current' = Current /\ Last(opened)' = Last(opened)
      /\ \A n : FirstBins(n)' = FirstBins(n)
      /\ \A b, n : PartOf(b, n)' = PartOf(b, n) /\ Clean(b, n)' = Clean(b, n)
  BY <1>1, <1>4, SameBins
<1>6. Clean(Last(opened), at)'
  <2>1. Clean(Last(opened), at)
    BY <1>2 DEF DecodingInv, InLastBin
  <2> QED
    BY <1>1, <2>1 DEF Clean
<1>7. CASE SkipBin(p)
  <2>1. skipped' = TRUE /\ UNCHANGED <<decoded, rollup>> /\ Rejects(decoder, Current[at+1])
    BY <1>2, <1>7 DEF SkipBin
  <2>2. InLastBin'
    BY <1>1, <1>2, <1>5, <1>6, <2>1 DEF InLastBin
  <2>3. RowsStand'
    <3>1. decoded = FirstBins(Len(opened) - 1) \o PartOf(Last(opened), at)
      BY <1>2 DEF DecodingInv, RowsStand
    <3>2. (FirstBins(Len(opened) - 1))' = FirstBins(Len(opened) - 1)
      BY <1>1 DEF FirstBins, WholeBin, Kept
    <3>3. (PartOf(Last(opened), at))' = PartOf(Last(opened), at)
      BY <1>1 DEF PartOf
    <3> QED
      BY <2>1, <3>1, <3>2, <3>3 DEF RowsStand
  <2> QED
    BY <1>5, <2>2, <2>3 DEF DecodingInv
<1>8. CASE DayFails(p)
  <2>1. decoded' = <<>> /\ rollup' = "failed" /\ UNCHANGED skipped
        /\ Raises(decoder, Current[at+1])
    BY <1>2, <1>8 DEF DayFails
  <2>2. InLastBin'
    BY <1>1, <1>2, <1>5, <1>6, <2>1 DEF InLastBin
  <2>3. RowsStand'
    BY <2>1 DEF RowsStand
  <2> QED
    BY <1>5, <2>2, <2>3 DEF DecodingInv
<1> QED
  BY <1>7, <1>8

LEMMA DecodingStep == DecodingInv /\ [DecodingNext]_decodingVars => DecodingInv'
<1> SUFFICES ASSUME DecodingInv, [DecodingNext]_decodingVars PROVE DecodingInv'
  OBVIOUS
<1>1. ASSUME UNCHANGED <<decoder, opened, at, skipped, decoded>>,
             \/ rollup' = rollup
             \/ rollup = "open" /\ BinOver /\ rollup' = "committed"
      PROVE  DecodingInv'
  <2>1. skipped' \in BOOLEAN /\ rollup' \in {"open", "failed", "committed"}
    BY <1>1 DEF DecodingInv, DecodingBounds
  <2>2. DecodingBounds' /\ Current' = Current
    BY <1>1, <2>1, SameBins
  <2>3. BinOver' = BinOver /\ (Clean(Last(opened), at))' = Clean(Last(opened), at)
    BY <1>1, <2>2 DEF BinOver, Clean
  <2>4. InLastBin'
    BY <1>1, <2>2, <2>3 DEF DecodingInv, InLastBin
  <2>5. RowsStand'
    <3>1. (FirstBins(Len(opened) - 1))' = FirstBins(Len(opened) - 1)
      BY <1>1 DEF FirstBins, WholeBin, Kept
    <3>2. (PartOf(Last(opened), at))' = PartOf(Last(opened), at)
      BY <1>1 DEF PartOf
    <3>3. rollup' # "failed" => rollup # "failed"
      BY <1>1
    <3> QED
      BY <1>1, <3>1, <3>2, <3>3 DEF DecodingInv, RowsStand
  <2> QED
    BY <2>2, <2>4, <2>5 DEF DecodingInv
<1>2. CASE UNCHANGED decodingVars
  BY <1>1, <1>2 DEF decodingVars
<1>3. CASE OpenBin
  BY <1>3, OpenKeeps
<1>4. CASE \E p \in Payloads : DecodePayload(p) \/ SkipBin(p) \/ DayFails(p)
  BY <1>4, DecodeKeeps, StopKeeps
<1>5. CASE Commit
  BY <1>1, <1>5 DEF Commit
<1> QED
  BY <1>2, <1>3, <1>4, <1>5 DEF DecodingNext

-----------------------------------------------------------------------------
(* What the rows of a day are.                                             *)

LEMMA DecodingTypes == DecodingInv => DecodingTypeOK /\ ArrivalsNotInThePast
<1> SUFFICES ASSUME DecodingInv PROVE DecodingTypeOK /\ ArrivalsNotInThePast
  OBVIOUS
<1>1. DecodingBounds /\ decoder \in ProtobufDecoders \cup DOMAIN JsonDecoders
  BY DEF DecodingInv, DecodingBounds
<1>2. at \in 0..2
  <2>1. CASE opened = <<>>
    BY <2>1 DEF DecodingInv, InLastBin
  <2>2. CASE opened # <<>>
    <3>1. Clean(Last(opened), at) /\ Last(opened) \in Bins
      BY <1>1, <2>2, LastBin DEF DecodingInv, InLastBin, DecodingBounds
    <3>2. Len(IterPayloads(Last(opened))) \in 0..2
      BY <3>1, BinFacts
    <3> QED
      BY <3>1, <3>2 DEF Clean
  <2> QED
    BY <2>1, <2>2
<1>3. decoded \in Seq(DayRows)
  <2>1. CASE opened = <<>> \/ rollup = "failed"
    <3>1. decoded = <<>>
      BY <2>1 DEF DecodingInv, InLastBin
    <3> QED
      BY <3>1
  <2>2. CASE opened # <<>> /\ rollup # "failed"
    <3> PICK n, bin : n = Len(opened) /\ bin = Last(opened)
      OBVIOUS
    <3>1. opened \in Seq(Bins) /\ n \in Nat \ {0} /\ bin \in Bins
      BY <1>1, <2>2, LastBin DEF DecodingBounds
    <3>2. n - 1 \in 0..n /\ at \in 0..Len(IterPayloads(bin))
      BY <2>2, <3>1 DEF DecodingInv, InLastBin, Clean
    <3>3. FirstBins(n - 1) \in Seq(DayRows) /\ PartOf(bin, at) \in Seq(DayRows)
      BY <1>1, <3>1, <3>2, RowLists
    <3>4. decoded = FirstBins(n - 1) \o PartOf(bin, at)
      BY <2>2 DEF DecodingInv, RowsStand
    <3> QED
      BY <3>3, <3>4
  <2> QED
    BY <2>1, <2>2
<1>4. \A i \in DOMAIN decoded : decoded[i] \in DayRows
  BY <1>3
<1>5. \A i \in DOMAIN decoded :
        /\ decoded[i].table \in TablesOf(decoder)
        /\ decoded[i].table = "marta_json" => decoded[i].next_arr >= decoded[i].event - HalfDay
  BY <1>1, <1>4, RowsOfDay
<1>6. \A i \in DOMAIN opened : opened[i] \in Bins
  BY <1>1 DEF DecodingBounds
<1>7. DecodingTypeOK
  BY <1>1, <1>2, <1>5, <1>6 DEF DecodingTypeOK, DecodingBounds, TablesOf
<1> QED
  BY <1>5, <1>7 DEF ArrivalsNotInThePast

\* The rows of a day are those of the payloads that are kept, file by file.
LEMMA CommittedRows ==
  ASSUME DecodingInv, rollup = "committed"
  PROVE  decoded = RowsBy(LAMBDA p : RowsOf(decoder, p))
<1>1. BinOver /\ rollup # "failed"
  BY DEF DecodingInv, InLastBin
<1>2. decoded = FirstBins(Len(opened))
  BY <1>1, AllGiven
<1>3. DOMAIN opened = 1..Len(opened)
  BY DEF DecodingInv, DecodingBounds
<1> QED
  BY <1>2, <1>3 DEF RowsBy, FirstBins, WholeBin

\* Both paths of the standard decoder give the same rows, but for one field.
LEMMA PathsGiveTheSame ==
  ASSUME opened \in Seq(Bins), decoder = "standard"
  PROVE  Blanked(RowsBy(LAMBDA p : RowsOf(decoder, p))) = Blanked(RowsBy(PythonDecode))
<1> DEFINE Rust(i) == [j \in DOMAIN Kept(opened[i]) |-> RowsOf(decoder, Kept(opened[i])[j])]
           Python(i) == [j \in DOMAIN Kept(opened[i]) |-> PythonDecode(Kept(opened[i])[j])]
           rust == [i \in DOMAIN opened |-> FlattenSeq(Rust(i))]
           python == [i \in DOMAIN opened |-> FlattenSeq(Python(i))]
<1>1. Len(opened) \in Nat /\ DOMAIN opened = 1..Len(opened)
  OBVIOUS
<1>2. Stored \subseteq Messages
  BY DEF Stored, Payloads, ProtobufDecoders
<1>3. \A p \in Stored : /\ IsList(RowsOf(decoder, p)) /\ IsList(PythonDecode(p))
                        /\ Blanked(RowsOf(decoder, p)) = Blanked(PythonDecode(p))
  <2> TAKE p \in Stored
  <2>1. RowsOf(decoder, p) = DecodeArrow(p)
    BY DEF RowsOf
  <2> QED
    BY <1>2, <2>1, StandardRows DEF RowsIn
<1>4. ASSUME NEW i \in DOMAIN opened
      PROVE  /\ IsList(FlattenSeq(Rust(i))) /\ IsList(FlattenSeq(Python(i)))
             /\ Blanked(FlattenSeq(Rust(i))) = Blanked(FlattenSeq(Python(i)))
  <2> DEFINE kept == Kept(opened[i])
             m == Len(kept)
             a == [j \in DOMAIN kept |-> RowsOf(decoder, kept[j])]
             b == [j \in DOMAIN kept |-> PythonDecode(kept[j])]
  <2>1. m \in Nat /\ DOMAIN kept = 1..m /\ \A j \in 1..m : kept[j] \in Stored
    <3>1. opened[i] \in Bins
      OBVIOUS
    <3>2. kept \in Seq(Stored)
      BY <3>1, KeptFirst
    <3> HIDE DEF kept
    <3> QED
      BY <3>2
  <2> HIDE DEF kept, m
  <2>2. \A j \in 1..m : IsList(a[j]) /\ IsList(b[j]) /\ Blanked(a[j]) = Blanked(b[j])
    BY <1>3, <2>1
  <2>3. a = [j \in 1..m |-> a[j]]
    BY <2>1
  <2>4. b = [j \in 1..m |-> b[j]]
    BY <2>1
  <2> HIDE DEF a, b
  <2>5. IsList(a) /\ Len(a) = m /\ IsList(b) /\ Len(b) = m
    BY <2>1, <2>3, <2>4, MadeList
  <2>6. Blanked(FlattenSeq(a)) = Blanked(FlattenSeq(b))
    BY <2>2, <2>5, BlankedFlat
  <2>7. IsList(FlattenSeq(a)) /\ IsList(FlattenSeq(b))
    BY <2>1, <2>2, <2>3, <2>4, FlattenedLists
  <2> QED
    BY <2>6, <2>7 DEF a, b, kept
<1> HIDE DEF Rust, Python
<1>5. \A i \in 1..Len(opened) :
        IsList(rust[i]) /\ IsList(python[i]) /\ Blanked(rust[i]) = Blanked(python[i])
  BY <1>1, <1>4
<1>6. rust = [i \in 1..Len(opened) |-> rust[i]]
  BY <1>1
<1>7. python = [i \in 1..Len(opened) |-> python[i]]
  BY <1>1
<1>8. /\ RowsBy(LAMBDA p : RowsOf(decoder, p)) = FlattenSeq(rust)
      /\ RowsBy(PythonDecode) = FlattenSeq(python)
  BY DEF RowsBy, Rust, Python
<1> HIDE DEF rust, python
<1>9. IsList(rust) /\ Len(rust) = Len(opened) /\ IsList(python) /\ Len(python) = Len(opened)
  BY <1>1, <1>6, <1>7, MadeList
<1>10. Blanked(FlattenSeq(rust)) = Blanked(FlattenSeq(python))
  BY <1>5, <1>9, BlankedFlat
<1> QED
  BY <1>8, <1>10

\* So do the row functions over a day, payload by payload.
LEMMA RowFunctionsGiveTheSame ==
  ASSUME opened \in Seq(Bins), decoder = "standard"
  PROVE  RowsBy(DecodeFeedMessage) = RowsBy(PythonDecode)
<1> DEFINE Rust(i) == [j \in DOMAIN Kept(opened[i]) |-> DecodeFeedMessage(Kept(opened[i])[j])]
           Python(i) == [j \in DOMAIN Kept(opened[i]) |-> PythonDecode(Kept(opened[i])[j])]
<1>1. Stored \subseteq Messages
  BY DEF Stored, Payloads, ProtobufDecoders
<1>2. ASSUME NEW i \in DOMAIN opened PROVE Rust(i) = Python(i)
  <2>1. opened[i] \in Bins
    OBVIOUS
  <2>2. Kept(opened[i]) \in Seq(Stored)
    BY <2>1, KeptFirst
  <2>3. \A j \in DOMAIN Kept(opened[i]) : Kept(opened[i])[j] \in Messages
    BY <1>1, <2>2
  <2> QED
    BY <2>3, RowFunctionsAgree
<1>3. /\ RowsBy(DecodeFeedMessage) = FlattenSeq([i \in DOMAIN opened |-> FlattenSeq(Rust(i))])
      /\ RowsBy(PythonDecode) = FlattenSeq([i \in DOMAIN opened |-> FlattenSeq(Python(i))])
  BY DEF RowsBy
<1> HIDE DEF Rust, Python
<1>4. [i \in DOMAIN opened |-> FlattenSeq(Rust(i))]
        = [i \in DOMAIN opened |-> FlattenSeq(Python(i))]
  BY <1>2
<1> QED
  BY <1>3, <1>4

\* What the poller accepts with records has rows.
LEMMA AcceptedHasRows == DecodingInv => AcceptedPayloadHasRows
<1> SUFFICES ASSUME DecodingInv, decoder \in DOMAIN JsonDecoders,
                    NEW i \in DOMAIN opened, NEW j \in DOMAIN Kept(opened[i]),
                    Validate(decoder, Kept(opened[i])[j]) = "fine",
                    Records(decoder, Kept(opened[i])[j]) # <<>>
             PROVE  JsonRows(decoder, Kept(opened[i])[j]) # <<>>
  BY DEF AcceptedPayloadHasRows
<1> DEFINE p == Kept(opened[i])[j]
<1>1. opened[i] \in Bins
  BY DEF DecodingInv, DecodingBounds
<1>2. p \in Stored
  <2>1. Kept(opened[i]) \in Seq(Stored)
    BY <1>1, KeptFirst
  <2> QED
    BY <2>1
<1>3. p \in Documents
  BY <1>2, DecoderNames DEF Stored, Payloads
<1> HIDE DEF p
<1>4. Head(Records(decoder, p)).kind # "incomplete"
  BY DEF Validate, p
<1>5. JsonRows(decoder, p) # <<>>
  BY <1>3, <1>4, JsonRowFacts DEF p
<1> QED
  BY <1>5 DEF p

\* A day fails for a record of another type, in a payload that is readable.
LEMMA FailedForATypeOnly == DecodingInv => OnlyMistypedRecordsFailTheDay
<1> SUFFICES ASSUME DecodingInv, rollup = "failed"
             PROVE  \E i \in DOMAIN Last(opened).payloads :
                      LET p == Last(opened).payloads[i]
                      IN p.readable /\ \E j \in DOMAIN p.records :
                                         p.records[j].kind \in {"stray", "mistyped"}
  BY DEF OnlyMistypedRecordsFailTheDay
<1> PICK bin : bin = Last(opened)
  OBVIOUS
<1>1. opened # <<>> /\ at < Len(Current) /\ Raises(decoder, Current[at+1])
  BY DEF DecodingInv, InLastBin
<1>2. bin \in Bins /\ Current = IterPayloads(bin) /\ at \in 0..Len(IterPayloads(bin))
  BY <1>1, LastBin DEF DecodingInv, DecodingBounds, InLastBin, Clean
<1> DEFINE p == Current[at+1]
<1>3. p \in Stored /\ p \in ToSet(bin.payloads)
  <2>1. /\ IterPayloads(bin) \in Seq(Stored) /\ Len(IterPayloads(bin)) \in Nat
        /\ ToSet(IterPayloads(bin)) \subseteq ToSet(bin.payloads)
    BY <1>2, BinFacts
  <2>2. at + 1 \in DOMAIN IterPayloads(bin)
    BY <1>1, <1>2, <2>1
  <2>3. p \in ToSet(IterPayloads(bin))
    BY <1>2, <2>2 DEF ToSet
  <2> QED
    BY <1>2, <2>1, <2>2, <2>3
<1>4. Raises(decoder, p)
  BY <1>1
<1> HIDE DEF p
<1>5. p.readable /\ decoder \in DOMAIN JsonDecoders /\ JsonRaises(decoder, p)
  <2>1. /\ p.readable /\ decoder \in DOMAIN JsonDecoders
        /\ JsonRaises(decoder, p) \/ (JsonGarbled(decoder, p) /\ ~Rejects(decoder, p))
    BY <1>4 DEF Raises
  <2>2. ~JsonRaises(decoder, p) /\ JsonGarbled(decoder, p) => Rejects(decoder, p)
    BY <2>1 DEF Rejects
  <2> QED
    BY <2>1, <2>2
<1>6. p \in Documents /\ Validate(decoder, p) # "raises"
  <2>1. decoder \notin ProtobufDecoders
    BY <1>5, DecoderNames
  <2> QED
    BY <1>3, <1>5, <2>1 DEF Stored, Payloads, Storable
<1>7. JsonDecoders[decoder][p.root] # "raises"
  BY <1>6 DEF Validate
<1>8. PICK k \in DOMAIN Records(decoder, p) :
        Records(decoder, p)[k].kind \in {"stray", "mistyped"}
  BY <1>5, <1>7 DEF JsonRaises
<1>9. Records(decoder, p)[k] \in ToSet(p.records)
  <2>1. Records(decoder, p)[k] \in ToSet(Records(decoder, p))
    BY DEF ToSet
  <2> QED
    BY <1>6, <2>1, RecordsOf
<1>10. PICK j \in DOMAIN p.records : p.records[j] = Records(decoder, p)[k]
  BY <1>9 DEF ToSet
<1>11. PICK i \in DOMAIN bin.payloads : bin.payloads[i] = p
  BY <1>3 DEF ToSet
<1> QED
  BY <1>5, <1>8, <1>10, <1>11

\* The decoder's part of ReadFaithfully.
DecodedFaithfully ==
  /\ DecodingTypeOK
  /\ PathsAgree
  /\ MalformedPayloadCostsItsFile
  /\ AcceptedPayloadHasRows
  /\ OnlyMistypedRecordsFailTheDay
  /\ ArrivalsNotInThePast

LEMMA DecodingSuffices == DecodingInv => DecodedFaithfully
<1> SUFFICES ASSUME DecodingInv PROVE DecodedFaithfully
  OBVIOUS
<1>1. MalformedPayloadCostsItsFile
  BY CommittedRows DEF MalformedPayloadCostsItsFile
<1>2. PathsAgree
  <2> SUFFICES ASSUME rollup = "committed", decoder = "standard"
               PROVE  /\ Blanked(decoded) = Blanked(RowsBy(PythonDecode))
                      /\ RowsBy(DecodeFeedMessage) = RowsBy(PythonDecode)
    BY DEF PathsAgree
  <2>1. opened \in Seq(Bins)
    BY DEF DecodingInv, DecodingBounds
  <2>2. decoded = RowsBy(LAMBDA p : RowsOf(decoder, p))
    BY CommittedRows
  <2>3. Blanked(RowsBy(LAMBDA p : RowsOf(decoder, p))) = Blanked(RowsBy(PythonDecode))
    BY <2>1, PathsGiveTheSame
  <2>4. RowsBy(DecodeFeedMessage) = RowsBy(PythonDecode)
    BY <2>1, RowFunctionsGiveTheSame
  <2> QED
    BY <2>2, <2>3, <2>4
<1>3. DecodingTypeOK /\ ArrivalsNotInThePast
  BY DecodingTypes
<1>4. AcceptedPayloadHasRows /\ OnlyMistypedRecordsFailTheDay
  BY AcceptedHasRows, FailedForATypeOnly
<1> QED
  BY <1>1, <1>2, <1>3, <1>4 DEF DecodedFaithfully

-----------------------------------------------------------------------------
(* The day.                                                                *)

\* However often files are torn, sliced, merged and shipped, and however
\* many: every poll and every payload of a day is read back once, lines are
\* lost to cut appends only, and a payload has the time of its first poll.
\* Whatever the payloads, their number and the feed's decoder: the day has the
\* rows of each payload before the first malformed one of its file, in order,
\* and the other claims about the decoders hold as well.
THEOREM DayIsReadBack ==
  ASSUME MaxLines \in Nat, MaxTears \in Nat
  PROVE  ReadbackSpec => []ReadFaithfully
<1>1. ReaderInit => ReaderInv
  BY ReaderInitInv
<1>2. ReaderInv /\ [ReaderNext]_readerVars => ReaderInv'
  BY ReaderStep
<1>3. ReaderInv => ReadOnceFaithfully
  BY ReaderSuffices
<1>4. DecodingInit => DecodingInv
  BY DecodingInitInv
<1>5. DecodingInv /\ [DecodingNext]_decodingVars => DecodingInv'
  BY DecodingStep
<1>6. DecodingInv => DecodedFaithfully
  BY DecodingSuffices
<1>7. ReadOnceFaithfully /\ DecodedFaithfully => ReadFaithfully
  BY DEF ReadOnceFaithfully, DecodedFaithfully, ReadFaithfully
<1>8. ReaderSpec => []ReadOnceFaithfully
  BY <1>1, <1>2, <1>3, PTL DEF ReaderSpec
<1>9. DecodingSpec => []DecodedFaithfully
  BY <1>4, <1>5, <1>6, PTL DEF DecodingSpec
<1> QED
  BY <1>7, <1>8, <1>9, PTL DEF ReadbackSpec

-----------------------------------------------------------------------------
(* The compaction: tables of rows, and what a key holds after a reduction. *)

\* What polls may carry, and what the mart reader and a compaction make of it.
Cell == Nat \cup {Null} \cup UNION {{r[c] : c \in Columns} : r \in TripRows}
Row == {r \in [Columns -> Cell] : \A c \in TimeColumns : r[c] \in Nat \cup {Null}}
Tables == Seq(Row)

\* The rows that compete for a column of a key; what the column gets; the row
\* it gets it from.
OwnRows(rows, k, c) == {i \in Candidates(rows) : rows[i].key = k /\ rows[i][c] # Null}
Val(rows, k, c) == FirstOf(rows, Candidates(rows), k, c)
Wins(rows, own, i) == i \in own /\ \A j \in own \ {i} : Before(rows, i, j)

\* Every row of a key carries a value in a column, or none does.
Full(rows, k, c) == \A i \in Candidates(rows) : rows[i].key = k => rows[i][c] # Null
Void(rows, k, c) == \A i \in Candidates(rows) : rows[i].key = k => rows[i][c] = Null

\* The timestamps of a key go up from row to row.
Advancing(rows, k) ==
  \A i, j \in Candidates(rows) :
    rows[i].key = k /\ rows[j].key = k /\ i < j
      => rows[i].feed_timestamp < rows[j].feed_timestamp

\* The parts of a table.
LEMMA Typing ==
  ASSUME NEW rows \in Tables
  PROVE  /\ Len(rows) \in Nat
         /\ DOMAIN rows = 1..Len(rows)
         /\ \A i \in DOMAIN rows : rows[i] \in Row
         /\ Candidates(rows) \subseteq DOMAIN rows
         /\ \A i \in Candidates(rows) : /\ rows[i].feed_timestamp \in Nat
                                        /\ rows[i].feed_timestamp # Null
                                        /\ rows[i].key # Null
<1>1. \A i \in DOMAIN rows : rows[i] \in Row
  BY DEF Tables
<1>2. \A i \in Candidates(rows) : /\ i \in DOMAIN rows
                                  /\ rows[i].feed_timestamp # Null
                                  /\ rows[i].key # Null
  BY DEF Candidates, Candidate
<1>3. \A r \in Row : r.feed_timestamp \in Nat \cup {Null}
  BY DEF Row, TimeColumns
<1>4. Len(rows) \in Nat /\ DOMAIN rows = 1..Len(rows)
  BY DEF Tables
<1> QED
  BY <1>1, <1>2, <1>3, <1>4

\* Of rows with a time, one comes first.
LEMMA HasFirst ==
  ASSUME NEW rows, NEW n \in Nat, NEW own, own \subseteq 1..n, own # {},
         \A i \in own : rows[i].feed_timestamp \in Nat
  PROVE  \E i \in own : \A j \in own \ {i} : Before(rows, i, j)
<1> DEFINE Part(m) == own \cap 1..m
           Good == {m \in Nat : Part(m) # {} =>
                      \E i \in Part(m) : \A j \in Part(m) \ {i} : Before(rows, i, j)}
<1>1. 0 \in Good
  <2>1. 1..0 = {}
    OBVIOUS
  <2> QED
    BY <2>1
<1>2. ASSUME NEW m \in Nat, m \in Good PROVE m + 1 \in Good
  <2> SUFFICES ASSUME Part(m+1) # {}
               PROVE  \E i \in Part(m+1) : \A j \in Part(m+1) \ {i} : Before(rows, i, j)
    OBVIOUS
  <2>1. Part(m+1) = IF m + 1 \in own THEN Part(m) \cup {m+1} ELSE Part(m)
    <3>1. 1..(m+1) = (1..m) \cup {m+1}
      OBVIOUS
    <3> QED
      BY <3>1
  <2>2. CASE m + 1 \notin own
    <3>1. Part(m+1) = Part(m)
      BY <2>1, <2>2
    <3> QED
      BY <3>1, <1>2
  <2>3. CASE m + 1 \in own /\ Part(m) = {}
    <3>1. Part(m+1) = {m+1}
      BY <2>1, <2>3
    <3> QED
      BY <3>1
  <2>4. CASE m + 1 \in own /\ Part(m) # {}
    <3>1. PICK i \in Part(m) : \A j \in Part(m) \ {i} : Before(rows, i, j)
      BY <1>2, <2>4
    <3>2. Part(m+1) = Part(m) \cup {m+1} /\ m + 1 \notin Part(m)
      BY <2>1, <2>4
    <3>3. i \in Nat /\ i < m + 1 /\ \A j \in Part(m) : j \in Nat /\ rows[j].feed_timestamp \in Nat
      OBVIOUS
    <3>4. rows[m+1].feed_timestamp \in Nat
      BY <2>4
    <3> HIDE DEF PartOf, Good
    <3>5. CASE rows[m+1].feed_timestamp > rows[i].feed_timestamp
      <4>1. \A j \in Part(m) : Before(rows, m+1, j)
        BY <3>1, <3>3, <3>4, <3>5 DEF Before
      <4> QED
        BY <4>1, <3>2
    <3>6. CASE ~(rows[m+1].feed_timestamp > rows[i].feed_timestamp)
      <4>1. Before(rows, i, m+1)
        BY <3>1, <3>3, <3>4, <3>6 DEF Before
      <4> QED
        BY <4>1, <3>1, <3>2
    <3> QED
      BY <3>5, <3>6
  <2> QED
    BY <2>2, <2>3, <2>4
<1>3. n \in Good
  <2> HIDE DEF Good
  <2> QED
    BY <1>1, <1>2, Induction
<1>4. Part(n) = own
  OBVIOUS
<1> QED
  BY <1>3, <1>4

\* The value of a column is that of the row that comes first.
LEMMA Winner ==
  ASSUME NEW rows \in Tables, NEW k, NEW c,
         NEW i, Wins(rows, OwnRows(rows, k, c), i)
  PROVE  Val(rows, k, c) = rows[i][c]
<1> DEFINE own == OwnRows(rows, k, c)
           First == CHOOSE x \in own : \A j \in own \ {x} : Before(rows, x, j)
<1>1. i \in own /\ \A j \in own \ {i} : Before(rows, i, j)
  BY DEF Wins
<1>2. First \in own /\ \A j \in own \ {First} : Before(rows, First, j)
  <2> HIDE DEF own
  <2> QED
    BY <1>1
<1>3. own \subseteq Nat /\ \A j \in own : rows[j].feed_timestamp \in Nat
  BY Typing DEF OwnRows
<1>4. Val(rows, k, c) = rows[First][c]
  BY <1>1 DEF Val, FirstOf, OwnRows
<1> HIDE DEF own, First
<1>5. First = i
  <2> SUFFICES ASSUME First # i PROVE FALSE
    OBVIOUS
  <2>1. Before(rows, First, i) /\ Before(rows, i, First)
    BY <1>1, <1>2
  <2> QED
    BY <2>1, <1>1, <1>2, <1>3 DEF Before
<1> QED
  BY <1>4, <1>5

\* A column has no value for a key where no row of the key has one.
LEMMA NoWinner ==
  ASSUME NEW rows \in Tables, NEW k, NEW c
  PROVE  /\ OwnRows(rows, k, c) = {} => Val(rows, k, c) = Null
         /\ OwnRows(rows, k, c) # {} =>
              \E i : /\ Wins(rows, OwnRows(rows, k, c), i)
                     /\ i \in Candidates(rows)
                     /\ rows[i].key = k
                     /\ Val(rows, k, c) = rows[i][c]
                     /\ Val(rows, k, c) # Null
<1>1. OwnRows(rows, k, c) = {} => Val(rows, k, c) = Null
  BY DEF Val, FirstOf, OwnRows
<1>2. ASSUME OwnRows(rows, k, c) # {}
      PROVE  \E i : /\ Wins(rows, OwnRows(rows, k, c), i)
                    /\ i \in Candidates(rows)
                    /\ rows[i].key = k
                    /\ Val(rows, k, c) = rows[i][c]
                    /\ Val(rows, k, c) # Null
  <2> DEFINE own == OwnRows(rows, k, c)
  <2>1. own \subseteq 1..Len(rows) /\ \A j \in own : rows[j].feed_timestamp \in Nat
    BY Typing DEF OwnRows
  <2>2. PICK i \in own : \A j \in own \ {i} : Before(rows, i, j)
    <3>1. Len(rows) \in Nat
      BY Typing
    <3> HIDE DEF own
    <3> QED
      BY <1>2, <2>1, <3>1, HasFirst DEF own
  <2>3. Wins(rows, own, i)
    BY <2>2 DEF Wins
  <2>4. Val(rows, k, c) = rows[i][c]
    BY <2>3, Winner
  <2>5. i \in Candidates(rows) /\ rows[i].key = k /\ rows[i][c] # Null
    BY <2>2 DEF OwnRows
  <2> QED
    BY <2>3, <2>4, <2>5
<1> QED
  BY <1>1, <1>2

-----------------------------------------------------------------------------
(* One reduction.                                                          *)

\* A table with one row per key, all of them candidates.
Compact(rows) ==
  /\ Candidates(rows) = DOMAIN rows
  /\ \A i, j \in DOMAIN rows : rows[i].key = rows[j].key => i = j

\* The keys of a reduced table, and the row of each.
Keys(rows) == {rows[i].key : i \in Candidates(rows)}
RowOf(rows, k) == [c \in Columns |-> IF c = "key" THEN k ELSE Val(rows, k, c)]

\* A value is one of the table's, or none.
LEMMA Valued ==
  ASSUME NEW rows \in Tables, NEW k \in Keys(rows)
  PROVE  /\ RowOf(rows, k) \in Row
         /\ Candidate(RowOf(rows, k))
<1>1. \A c \in Columns : Val(rows, k, c) = Null \/ \E i \in DOMAIN rows :
        i \in Candidates(rows) /\ rows[i].key = k /\ Val(rows, k, c) = rows[i][c]
  BY NoWinner, Typing
<1>2. PICK x \in Candidates(rows) : rows[x].key = k
  BY DEF Keys
<1>3. x \in DOMAIN rows /\ rows[x] \in Row
  BY <1>2, Typing
<1>4. k \in Cell /\ k # Null
  <2>1. rows[x]["key"] \in Cell
    BY <1>3 DEF Row, Columns
  <2> QED
    BY <2>1, <1>2, Typing
<1>5. \A c \in Columns : Val(rows, k, c) \in Cell
  <2> TAKE c \in Columns
  <2>1. CASE Val(rows, k, c) = Null
    BY <2>1 DEF Cell
  <2>2. CASE Val(rows, k, c) # Null
    <3>1. PICK i \in DOMAIN rows : Val(rows, k, c) = rows[i][c]
      BY <1>1, <2>2
    <3> QED
      BY <3>1, Typing DEF Row
  <2> QED
    BY <2>1, <2>2
<1>6. \A c \in TimeColumns : Val(rows, k, c) \in Nat \cup {Null}
  <2> TAKE c \in TimeColumns
  <2>1. c \in Columns
    BY DEF TimeColumns, Columns
  <2>2. CASE Val(rows, k, c) # Null
    <3>1. PICK i \in DOMAIN rows : Val(rows, k, c) = rows[i][c]
      BY <1>1, <2>1, <2>2
    <3> QED
      BY <3>1, Typing DEF Row
  <2> QED
    BY <2>2
<1>7. RowOf(rows, k) \in Row
  <2>1. RowOf(rows, k) \in [Columns -> Cell]
    BY <1>4, <1>5 DEF RowOf
  <2>2. \A c \in TimeColumns : RowOf(rows, k)[c] = Val(rows, k, c)
    BY DEF RowOf, TimeColumns, Columns
  <2> QED
    BY <2>1, <2>2, <1>6 DEF Row
<1>8. Candidate(RowOf(rows, k))
  <2>1. \A c \in {"feed_timestamp", "arrival", "departure"} :
          rows[x][c] # Null => Val(rows, k, c) # Null
    <3> TAKE c \in {"feed_timestamp", "arrival", "departure"}
    <3>1. rows[x][c] # Null => x \in OwnRows(rows, k, c)
      BY <1>2 DEF OwnRows
    <3> QED
      BY <3>1, NoWinner
  <2>2. /\ rows[x].feed_timestamp # Null
        /\ rows[x].arrival # Null \/ rows[x].departure # Null
    BY <1>2 DEF Candidates, Candidate
  <2>3. Val(rows, k, "relationship") \in {"SCHEDULED", Null}
    <3>1. \A i \in Candidates(rows) : rows[i]["relationship"] \in {"SCHEDULED", Null}
      BY DEF Candidates, Candidate
    <3> QED
      BY <3>1, NoWinner
  <2>4. /\ RowOf(rows, k).key = k
        /\ RowOf(rows, k).feed_timestamp = Val(rows, k, "feed_timestamp")
        /\ RowOf(rows, k).arrival = Val(rows, k, "arrival")
        /\ RowOf(rows, k).departure = Val(rows, k, "departure")
        /\ RowOf(rows, k).relationship = Val(rows, k, "relationship")
    BY DEF RowOf, Columns
  <2> QED
    BY <2>1, <2>2, <2>3, <2>4, <1>4 DEF Candidate
<1> QED
  BY <1>7, <1>8

\* A reduction has one row per key, with the values of the key.
LEMMA Reduced ==
  ASSUME NEW rows \in Tables
  PROVE  LET new == DedupeLatestPerKey(rows) IN
         /\ new \in Tables
         /\ Compact(new)
         /\ Len(new) <= Len(rows)
         /\ \A i \in DOMAIN new : /\ new[i].key \in Keys(rows)
                                  /\ new[i] = RowOf(rows, new[i].key)
         /\ \A k \in Keys(rows) : \E i \in DOMAIN new : new[i] = RowOf(rows, k)
<1> DEFINE new == DedupeLatestPerKey(rows)
           S == {RowOf(rows, k) : k \in Keys(rows)}
           n == Cardinality(S)
<1>1. new = SetToSeq(S)
  <2>1. S = {[c \in Columns |-> IF c = "key" THEN k ELSE FirstOf(rows, Candidates(rows), k, c)] :
               k \in {rows[i].key : i \in Candidates(rows)}}
    BY DEF RowOf, Keys, Val
  <2> QED
    BY <2>1 DEF DedupeLatestPerKey, FirstPerKey
<1>2. IsFiniteSet(S) /\ n <= Len(rows)
  <2>1. Len(rows) \in Nat /\ DOMAIN rows = 1..Len(rows)
    BY Typing
  <2>2. IsFiniteSet(1..Len(rows)) /\ Cardinality(1..Len(rows)) = Len(rows)
    <3>1. \A m \in Nat : IsFiniteSet(1..m) /\ Cardinality(1..m) = m
      BY FS_Interval
    <3> QED
      BY <2>1, <3>1
  <2>3. IsFiniteSet(Candidates(rows)) /\ Cardinality(Candidates(rows)) <= Len(rows)
    BY <2>1, <2>2, Typing, FS_Subset
  <2> DEFINE f == [i \in Candidates(rows) |-> RowOf(rows, rows[i].key)]
  <2>4. f \in Surjection(Candidates(rows), S)
    BY DEF Keys, Surjection
  <2>5. IsFiniteSet(S) /\ n <= Cardinality(Candidates(rows))
    <3> HIDE DEF f, S
    <3> QED
      BY <2>3, <2>4, FS_Surjection
  <2>6. Cardinality(Candidates(rows)) \in Nat /\ Len(rows) \in Nat /\ n \in Nat
    BY <2>3, <2>5, FS_CardinalityType, Typing
  <2> HIDE DEF S
  <2> QED
    BY <2>3, <2>5, <2>6
<1> HIDE DEF S
<1>3. /\ new \in Seq(S)
      /\ Len(new) = n
      /\ n \in Nat
      /\ DOMAIN new = 1..n
      /\ \A i \in 1..n : new[i] \in S
      /\ \A i, j \in 1..n : new[i] = new[j] => i = j
      /\ \A x \in S : \E i \in 1..n : new[i] = x
  <2> HIDE DEF new
  <2> QED
    BY <1>1, <1>2, Listed
<1> HIDE DEF new, n
<1>4. \A x \in S : /\ x \in Row
                   /\ Candidate(x)
                   /\ x.key \in Keys(rows)
                   /\ x = RowOf(rows, x.key)
  <2> SUFFICES ASSUME NEW k \in Keys(rows)
               PROVE  /\ RowOf(rows, k) \in Row
                      /\ Candidate(RowOf(rows, k))
                      /\ RowOf(rows, k).key = k
    BY DEF S
  <2>1. RowOf(rows, k).key = k
    BY DEF RowOf, Columns
  <2> QED
    BY <2>1, Valued
<1>5. new \in Tables
  <2>1. \A i \in 1..n : new[i] \in Row
    BY <1>3, <1>4
  <2> QED
    BY <2>1, <1>3 DEF Tables
<1>6. Compact(new)
  <2>1. Candidates(new) = DOMAIN new
    BY <1>3, <1>4 DEF Candidates
  <2>2. \A i, j \in DOMAIN new : new[i].key = new[j].key => i = j
    <3> SUFFICES ASSUME NEW i \in 1..n, NEW j \in 1..n, new[i].key = new[j].key
                 PROVE  i = j
      BY <1>3
    <3>1. new[i] = RowOf(rows, new[i].key) /\ new[j] = RowOf(rows, new[j].key)
      BY <1>3, <1>4
    <3>2. new[i] = new[j]
      BY <3>1
    <3> QED
      BY <3>2, <1>3
  <2> QED
    BY <2>1, <2>2 DEF Compact
<1>7. \A i \in DOMAIN new : new[i].key \in Keys(rows) /\ new[i] = RowOf(rows, new[i].key)
  BY <1>3, <1>4
<1>8. \A k \in Keys(rows) : \E i \in DOMAIN new : new[i] = RowOf(rows, k)
  BY <1>3 DEF S
<1> QED
  BY <1>2, <1>3, <1>5, <1>6, <1>7, <1>8 DEF new

-----------------------------------------------------------------------------
(* What two tables agree on.                                               *)

\* The reduction of one holds for a key, in a column, what that of the other
\* does; and has it in every row, if the other has.
Same(rows, day, k, c) ==
  /\ Val(rows, k, c) = Val(day, k, c)
  /\ Val(rows, k, "feed_timestamp") = Val(day, k, "feed_timestamp")
  /\ Full(day, k, c) => Full(rows, k, c)

\* The keys of a table are those with a latest time.
LEMMA TimedKeys ==
  ASSUME NEW rows \in Tables, NEW k
  PROVE  /\ k \in Keys(rows) <=> Val(rows, k, "feed_timestamp") # Null
         /\ k \in Keys(rows) <=> OwnRows(rows, k, "feed_timestamp") # {}
<1>1. k \in Keys(rows) => OwnRows(rows, k, "feed_timestamp") # {}
  BY Typing DEF Keys, OwnRows
<1>2. OwnRows(rows, k, "feed_timestamp") # {} => k \in Keys(rows)
  BY DEF Keys, OwnRows
<1> QED
  BY <1>1, <1>2, NoWinner

\* In a table of one row per key, that row is the value.
LEMMA CompactVal ==
  ASSUME NEW rows \in Tables, Compact(rows), NEW i \in DOMAIN rows, NEW c
  PROVE  Val(rows, rows[i].key, c) = rows[i][c]
<1>1. OwnRows(rows, rows[i].key, c) = IF rows[i][c] # Null THEN {i} ELSE {}
  BY DEF OwnRows, Compact
<1>2. CASE rows[i][c] # Null
  <2>1. Wins(rows, OwnRows(rows, rows[i].key, c), i)
    BY <1>1, <1>2 DEF Wins
  <2> QED
    BY <2>1, Winner
<1>3. CASE rows[i][c] = Null
  BY <1>1, <1>3, NoWinner
<1> QED
  BY <1>2, <1>3

\* A table and its reduction agree on everything.
LEMMA KeptByCompaction ==
  ASSUME NEW rows \in Tables, NEW k, NEW c \in Columns \ {"key"}
  PROVE  Same(DedupeLatestPerKey(rows), rows, k, c)
<1> DEFINE new == DedupeLatestPerKey(rows)
<1>1. /\ new \in Tables
      /\ Compact(new)
      /\ \A i \in DOMAIN new : new[i].key \in Keys(rows) /\ new[i] = RowOf(rows, new[i].key)
      /\ \A x \in Keys(rows) : \E i \in DOMAIN new : new[i] = RowOf(rows, x)
  BY Reduced
<1> HIDE DEF new
<1>2. CASE k \in Keys(rows)
  <2>1. PICK i \in DOMAIN new : new[i] = RowOf(rows, k)
    BY <1>1, <1>2
  <2>2. new[i].key = k /\ \A d \in Columns \ {"key"} : new[i][d] = Val(rows, k, d)
    BY <2>1 DEF RowOf, Columns
  <2>3. \A d \in Columns \ {"key"} : Val(new, k, d) = Val(rows, k, d)
    BY <1>1, <2>2, CompactVal
  <2>4. ASSUME Full(rows, k, c) PROVE Full(new, k, c)
    <3>1. OwnRows(rows, k, c) # {}
      BY <1>2, <2>4 DEF Full, OwnRows, Keys
    <3>2. Val(rows, k, c) # Null
      BY <3>1, NoWinner
    <3>3. \A j \in Candidates(new) : new[j].key = k => j = i
      BY <1>1, <2>2 DEF Compact
    <3> QED
      BY <3>2, <3>3, <2>2 DEF Full
  <2>5. "feed_timestamp" \in Columns \ {"key"}
    BY DEF Columns
  <2> QED
    BY <2>3, <2>4, <2>5 DEF Same, new
<1>3. CASE k \notin Keys(rows)
  <2>1. \A j \in Candidates(rows) : rows[j].key # k
    BY <1>3 DEF Keys
  <2>2. \A j \in Candidates(new) : new[j].key # k
    BY <1>1, <1>3, Typing
  <2>3. \A d : OwnRows(rows, k, d) = {} /\ OwnRows(new, k, d) = {}
    BY <2>1, <2>2 DEF OwnRows
  <2>4. \A d : Val(rows, k, d) = Null /\ Val(new, k, d) = Null
    BY <2>3, <1>1, NoWinner
  <2>5. Full(new, k, c)
    BY <2>2 DEF Full
  <2> QED
    BY <2>4, <2>5 DEF Same, new
<1> QED
  BY <1>2, <1>3

-----------------------------------------------------------------------------
(* A table after another.                                                  *)

\* The rows and the candidates of a table after another are those of the two.
LEMMA Joined ==
  ASSUME NEW a \in Tables, NEW b \in Tables
  PROVE  /\ a \o b \in Tables
         /\ Len(a \o b) = Len(a) + Len(b)
         /\ \A i \in DOMAIN a : i \in DOMAIN (a \o b) /\ (a \o b)[i] = a[i]
         /\ \A j \in DOMAIN b : /\ Len(a) + j \in DOMAIN (a \o b)
                                /\ (a \o b)[Len(a) + j] = b[j]
         /\ \A x \in DOMAIN (a \o b) : x \in DOMAIN a \/ \E j \in DOMAIN b : x = Len(a) + j
         /\ \A i \in Candidates(a) : i \in Candidates(a \o b)
         /\ \A j \in Candidates(b) : Len(a) + j \in Candidates(a \o b)
         /\ \A x \in Candidates(a \o b) :
              \/ x \in Candidates(a)
              \/ \E j \in Candidates(b) : x = Len(a) + j
<1> DEFINE z == a \o b
<1>1. /\ Len(a) \in Nat /\ Len(b) \in Nat
      /\ DOMAIN a = 1..Len(a) /\ DOMAIN b = 1..Len(b)
  BY Typing
<1>2. z \in Tables /\ Len(z) = Len(a) + Len(b) /\ DOMAIN z = 1..(Len(a) + Len(b))
  BY <1>1 DEF Tables
<1>3. \A i \in DOMAIN a : i \in DOMAIN z /\ z[i] = a[i]
  BY <1>1 DEF Tables
<1>4. \A j \in DOMAIN b : Len(a) + j \in DOMAIN z /\ z[Len(a) + j] = b[j]
  BY <1>1 DEF Tables
<1>5. \A x \in DOMAIN z : x \in DOMAIN a \/ \E j \in DOMAIN b : x = Len(a) + j
  <2> SUFFICES ASSUME NEW x \in DOMAIN z, x \notin DOMAIN a
               PROVE  \E j \in DOMAIN b : x = Len(a) + j
    OBVIOUS
  <2>1. x - Len(a) \in DOMAIN b /\ x = Len(a) + (x - Len(a))
    BY <1>1, <1>2
  <2> QED
    BY <2>1
<1> HIDE DEF z
<1>6. \A i \in Candidates(a) : i \in Candidates(z)
  BY <1>3 DEF Candidates
<1>7. \A j \in Candidates(b) : Len(a) + j \in Candidates(z)
  BY <1>4 DEF Candidates
<1>8. \A x \in Candidates(z) : x \in Candidates(a) \/ \E j \in Candidates(b) : x = Len(a) + j
  BY <1>3, <1>4, <1>5 DEF Candidates
<1> QED
  BY <1>2, <1>3, <1>4, <1>5, <1>6, <1>7, <1>8 DEF z

\* Who wins: of two rows of the same time, the one of the first table.
LEMMA JoinedWinner ==
  ASSUME NEW a \in Tables, NEW b \in Tables, NEW k, NEW c
  PROVE  /\ OwnRows(b, k, c) = {} => Val(a \o b, k, c) = Val(a, k, c)
         /\ OwnRows(a, k, c) = {} => Val(a \o b, k, c) = Val(b, k, c)
         /\ \A i, j : Wins(a, OwnRows(a, k, c), i) /\ Wins(b, OwnRows(b, k, c), j) =>
              Val(a \o b, k, c) = IF b[j].feed_timestamp > a[i].feed_timestamp
                                    THEN Val(b, k, c) ELSE Val(a, k, c)
<1> DEFINE z == a \o b
           n == Len(a)
           ownA == OwnRows(a, k, c)
           ownB == OwnRows(b, k, c)
           ownZ == OwnRows(z, k, c)
<1>1. /\ z \in Tables
      /\ \A i \in DOMAIN a : i \in DOMAIN z /\ z[i] = a[i]
      /\ \A j \in DOMAIN b : n + j \in DOMAIN z /\ z[n + j] = b[j]
      /\ \A i \in Candidates(a) : i \in Candidates(z)
      /\ \A j \in Candidates(b) : n + j \in Candidates(z)
      /\ \A x \in Candidates(z) : x \in Candidates(a) \/ \E j \in Candidates(b) : x = n + j
  BY Joined
<1>2. /\ n \in Nat /\ Len(b) \in Nat
      /\ DOMAIN a = 1..n /\ DOMAIN b = 1..Len(b)
      /\ \A i \in ownA : i \in DOMAIN a /\ a[i].feed_timestamp \in Nat
      /\ \A j \in ownB : j \in DOMAIN b /\ b[j].feed_timestamp \in Nat
  BY Typing DEF OwnRows
<1> HIDE DEF z, n
<1>3. /\ \A i \in ownA : i \in ownZ
      /\ \A j \in ownB : n + j \in ownZ
      /\ \A x \in ownZ : x \in ownA \/ \E j \in ownB : x = n + j
  BY <1>1, Typing DEF OwnRows
<1> HIDE DEF ownA, ownB, ownZ
<1>4. \A i, j \in ownA : Before(a, i, j) <=> Before(z, i, j)
  BY <1>1, <1>2 DEF Before
<1>5. \A i, j \in ownB : Before(b, i, j) => Before(z, n + i, n + j)
  <2> SUFFICES ASSUME NEW i \in ownB, NEW j \in ownB, Before(b, i, j)
               PROVE  Before(z, n + i, n + j)
    OBVIOUS
  <2>1. z[n + i] = b[i] /\ z[n + j] = b[j] /\ i \in Nat /\ j \in Nat
    BY <1>1, <1>2
  <2>2. i < j => n + i < n + j
    BY <2>1, <1>2
  <2> QED
    BY <2>1, <2>2 DEF Before
<1>6. \A i \in ownA, j \in ownB :
        IF b[j].feed_timestamp > a[i].feed_timestamp
          THEN Before(z, n + j, i) ELSE Before(z, i, n + j)
  <2> SUFFICES ASSUME NEW i \in ownA, NEW j \in ownB
               PROVE  IF b[j].feed_timestamp > a[i].feed_timestamp
                        THEN Before(z, n + j, i) ELSE Before(z, i, n + j)
    OBVIOUS
  <2>1. z[i] = a[i] /\ z[n + j] = b[j] /\ i < n + j
    BY <1>1, <1>2
  <2> QED
    BY <2>1, <1>2 DEF Before
<1>7. ASSUME NEW i, Wins(a, ownA, i), ownB = {}
      PROVE  Val(z, k, c) = Val(a, k, c)
  <2>1. Wins(z, ownZ, i)
    BY <1>3, <1>4, <1>7 DEF Wins
  <2>2. i \in DOMAIN a /\ z[i] = a[i]
    BY <1>1, <1>2, <1>7 DEF Wins
  <2> QED
    BY <2>1, <2>2, <1>1, <1>7, Winner DEF ownZ, ownA
<1>8. ASSUME NEW j, Wins(b, ownB, j), ownA = {}
      PROVE  Val(z, k, c) = Val(b, k, c)
  <2>1. j \in ownB /\ \A x \in ownB \ {j} : Before(b, j, x)
    BY <1>8 DEF Wins
  <2>2. \A y \in ownZ \ {n + j} : \E x \in ownB \ {j} : y = n + x
    BY <1>3, <1>8
  <2>3. Wins(z, ownZ, n + j)
    BY <2>1, <2>2, <1>3, <1>5 DEF Wins
  <2>4. z[n + j] = b[j]
    BY <1>1, <1>2, <2>1
  <2> QED
    BY <2>3, <2>4, <1>1, <1>8, Winner DEF ownZ, ownB
<1>9. ASSUME NEW i, NEW j, Wins(a, ownA, i), Wins(b, ownB, j)
      PROVE  Val(z, k, c) = IF b[j].feed_timestamp > a[i].feed_timestamp
                              THEN Val(b, k, c) ELSE Val(a, k, c)
  <2>1. i \in ownA /\ \A x \in ownA \ {i} : Before(a, i, x)
    BY <1>9 DEF Wins
  <2>2. j \in ownB /\ \A x \in ownB \ {j} : Before(b, j, x)
    BY <1>9 DEF Wins
  <2>3. z[i] = a[i] /\ z[n + j] = b[j]
    BY <1>1, <1>2, <2>1, <2>2
  <2>4. /\ \A x \in ownA : i = x \/ a[i].feed_timestamp >= a[x].feed_timestamp
        /\ \A x \in ownB : j = x \/ b[j].feed_timestamp >= b[x].feed_timestamp
    BY <2>1, <2>2, <1>2 DEF Before
  <2>5. CASE b[j].feed_timestamp > a[i].feed_timestamp
    <3>1. \A x \in ownA : b[j].feed_timestamp > a[x].feed_timestamp
      BY <2>4, <2>5, <2>1, <2>2, <1>2
    <3>2. \A x \in ownA : Before(z, n + j, x)
      BY <3>1, <2>2, <1>6
    <3>3. \A x \in ownB \ {j} : Before(z, n + j, n + x)
      BY <2>2, <1>5
    <3>4. \A y \in ownZ \ {n + j} : Before(z, n + j, y)
      BY <3>2, <3>3, <1>3
    <3>5. Wins(z, ownZ, n + j)
      BY <3>4, <2>2, <1>3 DEF Wins
    <3> QED
      BY <3>5, <2>3, <2>5, <1>1, <1>9, Winner DEF ownZ, ownB
  <2>6. CASE ~(b[j].feed_timestamp > a[i].feed_timestamp)
    <3>1. \A x \in ownB : ~(b[x].feed_timestamp > a[i].feed_timestamp)
      BY <2>4, <2>6, <2>1, <2>2, <1>2
    <3>2. \A x \in ownB : Before(z, i, n + x)
      BY <3>1, <2>1, <1>6
    <3>3. \A x \in ownA \ {i} : Before(z, i, x)
      BY <2>1, <1>4
    <3>4. \A y \in ownZ \ {i} : Before(z, i, y)
      BY <3>2, <3>3, <1>3
    <3>5. Wins(z, ownZ, i)
      BY <3>4, <2>1, <1>3 DEF Wins
    <3> QED
      BY <3>5, <2>3, <2>6, <1>1, <1>9, Winner DEF ownZ, ownA
  <2> QED
    BY <2>5, <2>6
<1>10. ASSUME ownA = {}, ownB = {} PROVE Val(z, k, c) = Val(a, k, c) /\ Val(z, k, c) = Val(b, k, c)
  <2>1. ownZ = {}
    BY <1>3, <1>10
  <2> QED
    BY <2>1, <1>10, <1>1, NoWinner DEF ownA, ownB, ownZ
<1>11. /\ ownA # {} => \E i : Wins(a, ownA, i)
       /\ ownB # {} => \E j : Wins(b, ownB, j)
  BY NoWinner DEF ownA, ownB
<1> QED
  BY <1>7, <1>8, <1>9, <1>10, <1>11 DEF z, ownA, ownB

\* What keeps a column of a key from depending on the batches.
SettledIn(rows, k, c) == Advancing(rows, k) \/ Full(rows, k, c) \/ Void(rows, k, c)

\* No row of a key is later than the time kept for it.
LEMMA Latest ==
  ASSUME NEW rows \in Tables, NEW i \in Candidates(rows)
  PROVE  /\ Val(rows, rows[i].key, "feed_timestamp") \in Nat
         /\ rows[i].feed_timestamp <= Val(rows, rows[i].key, "feed_timestamp")
<1> DEFINE own == OwnRows(rows, rows[i].key, "feed_timestamp")
<1>1. i \in own
  BY Typing DEF OwnRows
<1>2. PICK w : /\ Wins(rows, own, w)
               /\ Val(rows, rows[i].key, "feed_timestamp") = rows[w].feed_timestamp
  BY <1>1, NoWinner
<1>3. \A j \in own : rows[j].feed_timestamp \in Nat
  BY Typing DEF OwnRows
<1>4. w \in own /\ \A j \in own \ {w} : Before(rows, w, j)
  BY <1>2 DEF Wins
<1> QED
  BY <1>1, <1>2, <1>3, <1>4 DEF Before

\* A column is full, or empty, in both tables if it is in the one after the other.
LEMMA FullAndVoid ==
  ASSUME NEW a \in Tables, NEW b \in Tables, NEW k, NEW c
  PROVE  /\ Full(a \o b, k, c) <=> Full(a, k, c) /\ Full(b, k, c)
         /\ Void(a \o b, k, c) <=> Void(a, k, c) /\ Void(b, k, c)
         /\ Full(a, k, "feed_timestamp")
         /\ Void(a, k, c) => Val(a, k, c) = Null
         /\ Full(a, k, c) => OwnRows(a, k, c) = OwnRows(a, k, "feed_timestamp")
<1> DEFINE z == a \o b
<1>0. /\ \A i \in Candidates(a) : i \in Candidates(z) /\ z[i] = a[i]
      /\ \A j \in Candidates(b) : Len(a) + j \in Candidates(z) /\ z[Len(a) + j] = b[j]
      /\ \A x \in Candidates(z) :
           x \in Candidates(a) \/ \E j \in Candidates(b) : x = Len(a) + j
  BY Joined, Typing
<1> HIDE DEF z
<1>1. Full(z, k, c) <=> Full(a, k, c) /\ Full(b, k, c)
  BY <1>0 DEF Full
<1>2. Void(z, k, c) <=> Void(a, k, c) /\ Void(b, k, c)
  BY <1>0 DEF Void
<1>3. Full(a, k, "feed_timestamp")
  BY Typing DEF Full
<1>4. Void(a, k, c) => Val(a, k, c) = Null
  <2>1. Void(a, k, c) => OwnRows(a, k, c) = {}
    BY DEF Void, OwnRows
  <2> QED
    BY <2>1, NoWinner
<1>5. Full(a, k, c) => OwnRows(a, k, c) = OwnRows(a, k, "feed_timestamp")
  BY Typing DEF Full, OwnRows
<1> QED
  BY <1>1, <1>2, <1>3, <1>4, <1>5 DEF z

\* Of two tables in which every row of the key has the column, the value is
\* that of the later one.
LEMMA JoinedFull ==
  ASSUME NEW a \in Tables, NEW b \in Tables, NEW k, NEW c,
         Full(a, k, c), Full(b, k, c)
  PROVE  Val(a \o b, k, c) =
           IF Val(b, k, c) = Null THEN Val(a, k, c)
           ELSE IF Val(a, k, c) = Null THEN Val(b, k, c)
           ELSE IF Val(b, k, "feed_timestamp") > Val(a, k, "feed_timestamp")
             THEN Val(b, k, c) ELSE Val(a, k, c)
<1>1. CASE Val(b, k, c) = Null
  <2>1. OwnRows(b, k, c) = {}
    BY <1>1, NoWinner
  <2> QED
    BY <2>1, <1>1, JoinedWinner
<1>2. CASE Val(b, k, c) # Null /\ Val(a, k, c) = Null
  <2>1. OwnRows(a, k, c) = {}
    BY <1>2, NoWinner
  <2> QED
    BY <2>1, <1>2, JoinedWinner
<1>3. CASE Val(b, k, c) # Null /\ Val(a, k, c) # Null
  <2>1. OwnRows(a, k, c) # {} /\ OwnRows(b, k, c) # {}
    BY <1>3, NoWinner
  <2>2. PICK i : Wins(a, OwnRows(a, k, c), i)
    BY <2>1, NoWinner
  <2>3. PICK j : Wins(b, OwnRows(b, k, c), j)
    BY <2>1, NoWinner
  <2>4. Val(a, k, "feed_timestamp") = a[i].feed_timestamp
    BY <2>2, FullAndVoid, Winner
  <2>5. Val(b, k, "feed_timestamp") = b[j].feed_timestamp
    BY <2>3, FullAndVoid, Winner
  <2>6. Val(a \o b, k, c) = IF b[j].feed_timestamp > a[i].feed_timestamp
                              THEN Val(b, k, c) ELSE Val(a, k, c)
    BY <2>2, <2>3, JoinedWinner
  <2> QED
    BY <2>4, <2>5, <2>6, <1>3
<1> QED
  BY <1>1, <1>2, <1>3

\* The latest times need no order.
LEMMA JoinedTimes ==
  ASSUME NEW p \in Tables, NEW q \in Tables, NEW a \in Tables, NEW b \in Tables, NEW k,
         Val(p, k, "feed_timestamp") = Val(a, k, "feed_timestamp"),
         Val(q, k, "feed_timestamp") = Val(b, k, "feed_timestamp")
  PROVE  Val(p \o q, k, "feed_timestamp") = Val(a \o b, k, "feed_timestamp")
<1>1. /\ Full(a, k, "feed_timestamp") /\ Full(b, k, "feed_timestamp")
      /\ Full(p, k, "feed_timestamp") /\ Full(q, k, "feed_timestamp")
  BY FullAndVoid
<1> DEFINE Later(x, y) == IF y = Null THEN x ELSE IF x = Null THEN y ELSE IF y > x THEN y ELSE x
<1>2. Val(p \o q, k, "feed_timestamp") =
        Later(Val(p, k, "feed_timestamp"), Val(q, k, "feed_timestamp"))
  BY <1>1, JoinedFull
<1>3. Val(a \o b, k, "feed_timestamp") =
        Later(Val(a, k, "feed_timestamp"), Val(b, k, "feed_timestamp"))
  BY <1>1, JoinedFull
<1> QED
  BY <1>2, <1>3

\* A batch, reduced, may stand for the batch.
LEMMA Composed ==
  ASSUME NEW p \in Tables, NEW a \in Tables, NEW b \in Tables, NEW k,
         NEW c \in Columns \ {"key"}, SettledIn(a \o b, k, c), Same(p, a, k, c)
  PROVE  Same(p \o DedupeLatestPerKey(b), a \o b, k, c)
<1> DEFINE q == DedupeLatestPerKey(b)
<1>1. q \in Tables /\ Compact(q) /\ Same(q, b, k, c)
  BY Reduced, KeptByCompaction
<1> HIDE DEF q
<1>2. Val(p \o q, k, "feed_timestamp") = Val(a \o b, k, "feed_timestamp")
  BY <1>1, JoinedTimes DEF Same
<1>3. Full(a \o b, k, c) => Full(p \o q, k, c)
  BY <1>1, FullAndVoid DEF Same
<1>4. Val(p \o q, k, c) = Val(a \o b, k, c)
  <2>1. CASE Full(a \o b, k, c)
    <3>1. Full(a, k, c) /\ Full(b, k, c) /\ Full(p, k, c) /\ Full(q, k, c)
      BY <2>1, <1>1, FullAndVoid DEF Same
    <3>2. /\ Val(p, k, c) = Val(a, k, c) /\ Val(q, k, c) = Val(b, k, c)
          /\ Val(p, k, "feed_timestamp") = Val(a, k, "feed_timestamp")
          /\ Val(q, k, "feed_timestamp") = Val(b, k, "feed_timestamp")
      BY <1>1 DEF Same
    <3> QED
      BY <3>1, <3>2, <1>1, JoinedFull
  <2>2. CASE Void(a \o b, k, c)
    <3>1. Val(a, k, c) = Null /\ Val(b, k, c) = Null /\ Val(a \o b, k, c) = Null
      BY <2>2, FullAndVoid, Joined
    <3>2. Val(p, k, c) = Null /\ Val(q, k, c) = Null
      BY <3>1, <1>1 DEF Same
    <3>3. OwnRows(q, k, c) = {}
      BY <3>2, <1>1, NoWinner
    <3> QED
      BY <3>1, <3>2, <3>3, <1>1, JoinedWinner
  <2>3. CASE Advancing(a \o b, k)
    <3>1. Val(p, k, c) = Val(a, k, c) /\ Val(q, k, c) = Val(b, k, c)
      BY <1>1 DEF Same
    <3>2. CASE Val(b, k, c) = Null
      <4>1. OwnRows(b, k, c) = {} /\ OwnRows(q, k, c) = {}
        BY <3>1, <3>2, <1>1, NoWinner
      <4> QED
        BY <4>1, <3>1, <1>1, JoinedWinner
    <3>3. CASE Val(a, k, c) = Null
      <4>1. OwnRows(a, k, c) = {} /\ OwnRows(p, k, c) = {}
        BY <3>1, <3>3, <1>1, NoWinner
      <4> QED
        BY <4>1, <3>1, <1>1, JoinedWinner
    <3>4. CASE Val(a, k, c) # Null /\ Val(b, k, c) # Null
      <4>1. /\ OwnRows(a, k, c) # {} /\ OwnRows(p, k, c) # {}
            /\ OwnRows(b, k, c) # {} /\ OwnRows(q, k, c) # {}
        BY <3>1, <3>4, <1>1, NoWinner
      <4>2. PICK i : Wins(a, OwnRows(a, k, c), i) /\ i \in Candidates(a) /\ a[i].key = k
        BY <4>1, NoWinner
      <4>3. PICK j : Wins(b, OwnRows(b, k, c), j) /\ j \in Candidates(b) /\ b[j].key = k
        BY <4>1, NoWinner
      <4>4. PICK x : Wins(p, OwnRows(p, k, c), x) /\ x \in Candidates(p) /\ p[x].key = k
        BY <4>1, NoWinner
      <4>5. PICK y : Wins(q, OwnRows(q, k, c), y) /\ y \in Candidates(q) /\ q[y].key = k
        BY <4>1, <1>1, NoWinner
      <4>6. \A u \in Candidates(a), v \in Candidates(b) :
              a[u].key = k /\ b[v].key = k => a[u].feed_timestamp < b[v].feed_timestamp
        <5> SUFFICES ASSUME NEW u \in Candidates(a), NEW v \in Candidates(b),
                            a[u].key = k, b[v].key = k
                     PROVE  a[u].feed_timestamp < b[v].feed_timestamp
          OBVIOUS
        <5>1. /\ u \in Candidates(a \o b) /\ Len(a) + v \in Candidates(a \o b)
              /\ (a \o b)[u] = a[u] /\ (a \o b)[Len(a) + v] = b[v]
          <6>1. u \in DOMAIN a /\ v \in DOMAIN b
            BY Typing
          <6>2. u \in Candidates(a \o b) /\ Len(a) + v \in Candidates(a \o b)
            BY Joined
          <6>3. u \in 1..Len(a) /\ v \in 1..Len(b) /\ Len(a) \in Nat /\ Len(b) \in Nat
            BY <6>1, Typing
          <6>4. (a \o b)[u] = a[u]
            BY <6>3 DEF Tables
          <6>5. (a \o b)[Len(a) + v] = b[v]
            BY <6>3 DEF Tables
          <6> QED
            BY <6>2, <6>4, <6>5
        <5>2. u < Len(a) + v
          BY Typing
        <5> QED
          BY <5>1, <5>2, <2>3 DEF Advancing
      <4>7. Val(a \o b, k, c) = Val(b, k, c)
        BY <4>2, <4>3, <4>6, JoinedWinner
      <4>8. q[y].feed_timestamp = Val(b, k, "feed_timestamp")
        <5>1. y \in DOMAIN q
          BY <4>5, <1>1, Typing
        <5> QED
          BY <5>1, <4>5, <1>1, CompactVal DEF Same
      <4>9. p[x].feed_timestamp < q[y].feed_timestamp
        <5>1. /\ p[x].feed_timestamp <= Val(a, k, "feed_timestamp")
              /\ Val(a, k, "feed_timestamp") \in Nat
          BY <4>2, <4>4, Latest DEF Same
        <5>2. PICK u \in Candidates(a) : a[u].key = k /\ Val(a, k, "feed_timestamp") = a[u].feed_timestamp
          <6>1. Val(a, k, "feed_timestamp") # Null
            BY <4>2, TimedKeys DEF Keys
          <6>2. OwnRows(a, k, "feed_timestamp") # {}
            BY <6>1, NoWinner
          <6> QED
            BY <6>2, NoWinner
        <5>3. a[u].feed_timestamp < b[j].feed_timestamp
          BY <4>6, <4>3, <5>2
        <5>4. b[j].feed_timestamp <= q[y].feed_timestamp
          BY <4>3, <4>8, Latest
        <5>5. /\ p[x].feed_timestamp \in Nat /\ q[y].feed_timestamp \in Nat
              /\ b[j].feed_timestamp \in Nat
          BY <4>3, <4>4, <4>5, <1>1, Typing
        <5> QED
          BY <5>1, <5>2, <5>3, <5>4, <5>5
      <4>10. Val(p \o q, k, c) = Val(q, k, c)
        BY <4>4, <4>5, <4>9, <1>1, JoinedWinner
      <4> QED
        BY <4>7, <4>10, <3>1
    <3> QED
      BY <3>2, <3>3, <3>4
  <2> QED
    BY <2>1, <2>2, <2>3 DEF SettledIn
<1> QED
  BY <1>2, <1>3, <1>4 DEF Same, q

-----------------------------------------------------------------------------
(* Batches.                                                                *)

\* The first e rows; where the b-th batch of n ends; how many batches there are.
Upto(rows, e) == SubSeq(rows, 1, e)
EndOf(rows, n, b) == IF b * n < Len(rows) THEN b * n ELSE Len(rows)
BatchCount(rows, n) == (Len(rows) + n - 1) \div n

\* A prefix is a table; its candidates are candidates, and it is as settled.
LEMMA PrefixFacts ==
  ASSUME NEW rows \in Tables, NEW e \in 0..Len(rows)
  PROVE  /\ Upto(rows, e) \in Tables
         /\ Len(Upto(rows, e)) = e
         /\ \A i \in Candidates(Upto(rows, e)) :
              i \in Candidates(rows) /\ Upto(rows, e)[i] = rows[i]
         /\ \A k, c : SettledIn(rows, k, c) => SettledIn(Upto(rows, e), k, c)
         /\ Upto(rows, 0) = <<>>
         /\ Upto(rows, Len(rows)) = rows
<1> DEFINE pre == Upto(rows, e)
<1>1. Len(rows) \in Nat /\ DOMAIN rows = 1..Len(rows)
  BY Typing
<1>2. /\ pre \in Tables /\ Len(pre) = e /\ DOMAIN pre = 1..e
      /\ \A i \in 1..e : pre[i] = rows[i]
  BY <1>1 DEF Tables, Upto
<1>3. Upto(rows, 0) = <<>> /\ Upto(rows, Len(rows)) = rows
  BY <1>1 DEF Tables, Upto
<1> HIDE DEF pre
<1>4. \A i \in Candidates(pre) : i \in Candidates(rows) /\ pre[i] = rows[i]
  BY <1>1, <1>2 DEF Candidates
<1>5. \A k, c : SettledIn(rows, k, c) => SettledIn(pre, k, c)
  BY <1>4 DEF SettledIn, Advancing, Full, Void
<1> QED
  BY <1>2, <1>3, <1>4, <1>5 DEF pre

\* How many batches there are, and where they end.
LEMMA BatchEnds ==
  ASSUME NEW size \in Nat, NEW n \in Nat \ {0}
  PROVE  LET m == (size + n - 1) \div n IN
         /\ m \in Nat
         /\ size = 0 => m = 0
         /\ size <= m * n
         /\ \A b \in 1..m : (b - 1) * n < size /\ (b - 1) * n \in Nat
<1> DEFINE x == size + n - 1
           m == x \div n
           r == x % n
<1>1. x \in Nat
  OBVIOUS
<1>2. m \in Int /\ r \in 0..(n-1) /\ x = n * m + r
  <2> HIDE DEF x
  <2> QED
    BY <1>1, Z3
<1> HIDE DEF m, r
<1>3. m \in Nat
  <2> SUFFICES ASSUME m <= -1 PROVE FALSE
    BY <1>2
  <2>1. n * m <= -n
    BY <1>2, Z3
  <2> QED
    BY <2>1, <1>1, <1>2
<1>4. n * m \in Nat /\ m * n = n * m
  BY <1>3, Z3
<1>5. size <= m * n
  BY <1>2, <1>4
<1>6. ASSUME NEW b \in 1..m PROVE (b - 1) * n < size /\ (b - 1) * n \in Nat
  <2>1. (b - 1) * n \in Nat
    BY <1>3, Z3
  <2>2. b \in Int /\ b >= 1 /\ b <= m
    BY <1>3
  <2>3. (b - 1) * n + n = b * n
    BY <2>2, Z3
  <2>4. b * n <= m * n
    BY <2>2, <1>3, Z3
  <2>5. b * n \in Int
    BY <2>2, Z3
  <2> QED
    BY <2>1, <2>3, <2>4, <2>5, <1>2, <1>4
<1>7. size = 0 => m = 0
  <2> SUFFICES ASSUME size = 0, m # 0 PROVE FALSE
    OBVIOUS
  <2>1. 1 \in 1..m
    BY <1>3, <2>1
  <2>2. (1 - 1) * n < size /\ (1 - 1) * n \in Nat
    BY <2>1, <1>6
  <2> QED
    BY <2>2
<1> QED
  BY <1>3, <1>5, <1>6, <1>7 DEF m

\* The batches are the table, cut.
LEMMA Batched ==
  ASSUME NEW rows \in Tables, NEW n \in Nat \ {0}
  PROVE  /\ BatchCount(rows, n) \in Nat
         /\ rows = <<>> => BatchCount(rows, n) = 0
         /\ BatchCount(rows, n) = 0 => rows = <<>>
         /\ DOMAIN Batches(rows, n) = 1..BatchCount(rows, n)
         /\ Len(Batches(rows, n)) = BatchCount(rows, n)
         /\ \A b \in 0..BatchCount(rows, n) : EndOf(rows, n, b) \in 0..Len(rows)
         /\ EndOf(rows, n, 0) = 0
         /\ EndOf(rows, n, BatchCount(rows, n)) = Len(rows)
         /\ \A b \in 1..BatchCount(rows, n) :
              /\ Batches(rows, n)[b] \in Tables
              /\ Upto(rows, EndOf(rows, n, b))
                   = Upto(rows, EndOf(rows, n, b - 1)) \o Batches(rows, n)[b]
<1> DEFINE m == BatchCount(rows, n)
           L == Len(rows)
<1>1. L \in Nat /\ DOMAIN rows = 1..L
  BY Typing
<1>2. /\ m \in Nat
      /\ L = 0 => m = 0
      /\ L <= m * n
      /\ \A b \in 1..m : (b - 1) * n < L /\ (b - 1) * n \in Nat
  BY <1>1, BatchEnds DEF BatchCount
<1>3. /\ DOMAIN Batches(rows, n) = 1..m
      /\ \A b \in 1..m : Batches(rows, n)[b] =
           SubSeq(rows, (b - 1) * n + 1, IF b * n < L THEN b * n ELSE L)
  BY DEF Batches, BatchCount
<1>4. Len(Batches(rows, n)) = m
  BY <1>2 DEF Batches, BatchCount
<1> HIDE DEF m, L
<1>5. \A b \in Nat : b * n \in Nat
  BY Z3
<1>6. \A b \in 0..m : EndOf(rows, n, b) \in 0..L
  BY <1>1, <1>2, <1>5 DEF EndOf, L
<1>7. EndOf(rows, n, 0) = 0
  <2>1. 0 * n = 0
    BY Z3
  <2> QED
    BY <2>1, <1>1 DEF EndOf, L
<1>8. EndOf(rows, n, m) = L
  <2>1. m * n \in Nat /\ L <= m * n /\ L \in Nat
    BY <1>1, <1>2, <1>5
  <2>2. ~(m * n < L)
    BY <2>1
  <2> QED
    BY <2>2 DEF EndOf, L
<1>9. ASSUME NEW b \in 1..m
      PROVE  /\ Batches(rows, n)[b] \in Tables
             /\ Upto(rows, EndOf(rows, n, b)) = Upto(rows, EndOf(rows, n, b - 1)) \o Batches(rows, n)[b]
  <2> DEFINE s == EndOf(rows, n, b - 1)
             e == EndOf(rows, n, b)
  <2>1. s = (b - 1) * n
    BY <1>2 DEF EndOf, L
  <2>2. Batches(rows, n)[b] = SubSeq(rows, s + 1, e)
    BY <1>3, <2>1 DEF EndOf, L
  <2>3. s \in Nat /\ e \in Nat /\ s <= e /\ e <= L
    <3>1. b \in Nat /\ b * n = (b - 1) * n + n
      <4>1. b \in Nat
        BY <1>2
      <4> QED
        BY <4>1, Z3
    <3>2. (b - 1) * n \in Nat /\ (b - 1) * n < L /\ b * n \in Nat
      BY <1>2, <3>1, <1>5
    <3> QED
      BY <3>1, <3>2, <2>1, <1>1 DEF EndOf, L
  <2> HIDE DEF s, e
  <2>4. SubSeq(rows, s + 1, e) \in Tables
    BY <2>3, <1>1 DEF Tables, L
  <2>5. Upto(rows, e) = Upto(rows, s) \o SubSeq(rows, s + 1, e)
    BY <2>3, <1>1 DEF Tables, Upto, L
  <2> QED
    BY <2>2, <2>4, <2>5 DEF s, e
<1>10. /\ rows = <<>> => m = 0
       /\ m = 0 => rows = <<>>
  <2>1. rows = <<>> <=> L = 0
    BY DEF Tables, L
  <2>2. m = 0 => L = 0
    <3>1. 0 * n = 0
      BY Z3
    <3> QED
      BY <3>1, <1>1, <1>2
  <2> QED
    BY <2>1, <2>2, <1>2
<1> QED
  BY <1>2, <1>3, <1>4, <1>6, <1>7, <1>8, <1>9, <1>10 DEF m, L

-----------------------------------------------------------------------------
(* The reduction of a table that has one row per key.                      *)

\* A compact table has no row twice.
LEMMA CompactLength ==
  ASSUME NEW rows \in Tables, Compact(rows)
  PROVE  Len(rows) = Cardinality(ToSet(rows))
<1>1. Len(rows) \in Nat /\ DOMAIN rows = 1..Len(rows) /\ rows = [i \in 1..Len(rows) |-> rows[i]]
  BY DEF Tables
<1>2. rows \in Surjection(1..Len(rows), ToSet(rows))
  BY <1>1 DEF Surjection, ToSet
<1>3. \A i, j \in 1..Len(rows) : rows[i] = rows[j] => i = j
  BY <1>1 DEF Compact
<1>4. rows \in Injection(1..Len(rows), ToSet(rows))
  BY <1>2, <1>3 DEF Surjection, Injection, IsInjective
<1>5. IsFiniteSet(1..Len(rows)) /\ Cardinality(1..Len(rows)) = Len(rows)
  <2>1. \A m \in Nat : IsFiniteSet(1..m) /\ Cardinality(1..m) = m
    BY FS_Interval
  <2> QED
    BY <1>1, <2>1
<1> QED
  BY <1>2, <1>4, <1>5, FS_Surjection

\* It has the same rows.
LEMMA CompactReduced ==
  ASSUME NEW rows \in Tables, Compact(rows)
  PROVE  LET new == DedupeLatestPerKey(rows) IN
         /\ ToSet(new) = ToSet(rows)
         /\ Len(new) = Len(rows)
<1> DEFINE new == DedupeLatestPerKey(rows)
<1>1. /\ new \in Tables /\ Compact(new)
      /\ \A i \in DOMAIN new : new[i].key \in Keys(rows) /\ new[i] = RowOf(rows, new[i].key)
      /\ \A k \in Keys(rows) : \E i \in DOMAIN new : new[i] = RowOf(rows, k)
  BY Reduced
<1> HIDE DEF new
<1>2. \A i \in DOMAIN rows : rows[i] = RowOf(rows, rows[i].key) /\ rows[i].key \in Keys(rows)
  <2> TAKE i \in DOMAIN rows
  <2>1. rows[i] = [c \in Columns |-> rows[i][c]]
    BY Typing DEF Row
  <2>2. \A c \in Columns : RowOf(rows, rows[i].key)[c] = rows[i][c]
    BY CompactVal DEF RowOf
  <2>3. RowOf(rows, rows[i].key) = [c \in Columns |-> RowOf(rows, rows[i].key)[c]]
    BY DEF RowOf
  <2>4. rows[i].key \in Keys(rows)
    BY DEF Keys, Compact
  <2> QED
    BY <2>1, <2>2, <2>3, <2>4
<1>3. \A k \in Keys(rows) : \E i \in DOMAIN rows : rows[i].key = k
  BY Typing DEF Keys
<1>4. ToSet(new) = ToSet(rows)
  <2>1. \A x \in ToSet(new) : x \in ToSet(rows)
    <3> TAKE x \in ToSet(new)
    <3>1. PICK i \in DOMAIN new : x = new[i]
      BY DEF ToSet
    <3>2. PICK j \in DOMAIN rows : rows[j].key = new[i].key
      BY <1>1, <1>3
    <3>3. x = rows[j]
      BY <1>1, <1>2, <3>1, <3>2
    <3> QED
      BY <3>3 DEF ToSet
  <2>2. \A x \in ToSet(rows) : x \in ToSet(new)
    <3> TAKE x \in ToSet(rows)
    <3>1. PICK j \in DOMAIN rows : x = rows[j]
      BY DEF ToSet
    <3>2. PICK i \in DOMAIN new : new[i] = RowOf(rows, rows[j].key)
      BY <1>1, <1>2
    <3>3. x = new[i]
      BY <1>2, <3>1, <3>2
    <3> QED
      BY <3>3 DEF ToSet
  <2> QED
    BY <2>1, <2>2
<1> QED
  BY <1>1, <1>4, CompactLength DEF new

\* Part of such a table, and a batch of it, reduced.
LEMMA CompactJoined ==
  ASSUME NEW p \in Tables, NEW a \in Tables, NEW b \in Tables,
         Compact(a \o b), Compact(a) => (Compact(p) /\ ToSet(p) = ToSet(a))
  PROVE  LET q == DedupeLatestPerKey(b) IN
         /\ Compact(a) /\ Compact(b)
         /\ Compact(p \o q)
         /\ ToSet(p \o q) = ToSet(a \o b)
<1> DEFINE q == DedupeLatestPerKey(b)
           z == a \o b
           y == p \o q
<1>1. /\ Len(a) \in Nat /\ Len(b) \in Nat
      /\ DOMAIN a = 1..Len(a) /\ DOMAIN b = 1..Len(b)
  BY Typing
<1>2. /\ \A i \in DOMAIN a : i \in DOMAIN z /\ z[i] = a[i]
      /\ \A j \in DOMAIN b : Len(a) + j \in DOMAIN z /\ z[Len(a) + j] = b[j]
      /\ \A x \in DOMAIN z : x \in DOMAIN a \/ \E j \in DOMAIN b : x = Len(a) + j
  BY Joined
<1> HIDE DEF z
<1>3. /\ \A x \in DOMAIN z : Candidate(z[x])
      /\ \A i, j \in DOMAIN z : z[i].key = z[j].key => i = j
  BY DEF Compact, Candidates, z
<1>4. Compact(a)
  BY <1>2, <1>3 DEF Compact, Candidates
<1>5. Compact(b)
  <2>1. Candidates(b) = DOMAIN b
    <3>1. \A j \in DOMAIN b : Candidate(b[j])
      BY <1>2, <1>3
    <3> QED
      BY <3>1 DEF Candidates
  <2>2. \A i, j \in DOMAIN b : b[i].key = b[j].key => i = j
    <3> SUFFICES ASSUME NEW i \in DOMAIN b, NEW j \in DOMAIN b, b[i].key = b[j].key
                 PROVE  i = j
      OBVIOUS
    <3>1. Len(a) + i = Len(a) + j
      BY <1>2, <1>3
    <3> QED
      BY <3>1, <1>1
  <2> QED
    BY <2>1, <2>2 DEF Compact
<1>6. \A i \in DOMAIN a, j \in DOMAIN b : a[i].key # b[j].key
  <2> SUFFICES ASSUME NEW i \in DOMAIN a, NEW j \in DOMAIN b, a[i].key = b[j].key
               PROVE  FALSE
    OBVIOUS
  <2>1. i = Len(a) + j
    BY <1>2, <1>3
  <2> QED
    BY <2>1, <1>1
<1>7. Compact(p) /\ ToSet(p) = ToSet(a)
  BY <1>4
<1>8. q \in Tables /\ Compact(q) /\ ToSet(q) = ToSet(b)
  BY <1>5, Reduced, CompactReduced
<1> HIDE DEF q
<1>9. /\ y \in Tables
      /\ \A i \in DOMAIN p : i \in DOMAIN y /\ y[i] = p[i]
      /\ \A j \in DOMAIN q : Len(p) + j \in DOMAIN y /\ y[Len(p) + j] = q[j]
      /\ \A x \in DOMAIN y : x \in DOMAIN p \/ \E j \in DOMAIN q : x = Len(p) + j
  BY <1>8, Joined
<1> HIDE DEF y
<1>10. \A i \in DOMAIN p, j \in DOMAIN q : p[i].key # q[j].key
  <2> TAKE i \in DOMAIN p, j \in DOMAIN q
  <2>1. p[i] \in ToSet(a) /\ q[j] \in ToSet(b)
    BY <1>7, <1>8 DEF ToSet
  <2>2. PICK u \in DOMAIN a : p[i] = a[u]
    BY <2>1 DEF ToSet
  <2>3. PICK v \in DOMAIN b : q[j] = b[v]
    BY <2>1 DEF ToSet
  <2> QED
    BY <2>2, <2>3, <1>6
<1>11. Compact(y)
  <2>1. Candidates(y) = DOMAIN y
    <3>1. \A x \in DOMAIN y : Candidate(y[x])
      BY <1>7, <1>8, <1>9 DEF Compact, Candidates
    <3> QED
      BY <3>1 DEF Candidates
  <2>2. \A i, j \in DOMAIN p : p[i].key = p[j].key => i = j
    BY <1>7 DEF Compact
  <2>3. \A i, j \in DOMAIN q : q[i].key = q[j].key => i = j
    BY <1>8 DEF Compact
  <2>4. \A i, j \in DOMAIN y : y[i].key = y[j].key => i = j
    BY <2>2, <2>3, <1>9, <1>10
  <2> QED
    BY <2>1, <2>4 DEF Compact
<1>12. ToSet(y) = ToSet(p) \cup ToSet(q)
  BY <1>9 DEF ToSet
<1>13. ToSet(z) = ToSet(a) \cup ToSet(b)
  BY <1>2 DEF ToSet
<1> QED
  BY <1>4, <1>5, <1>7, <1>8, <1>11, <1>12, <1>13 DEF q, y, z

-----------------------------------------------------------------------------
(* compact_parquet: batch by batch, and then the partial results together. *)

\* What p, gathered from the batches of a, stands for.
Gathered(p, a) ==
  /\ p \in Tables
  /\ Len(p) <= Len(a)
  /\ \A k : \A c \in Columns \ {"key"} : SettledIn(a, k, c) => Same(p, a, k, c)
  /\ \A k : Val(p, k, "feed_timestamp") = Val(a, k, "feed_timestamp")
  /\ Compact(a) => Compact(p) /\ ToSet(p) = ToSet(a)

\* Nothing gathers nothing.
LEMMA GatherNothing ==
  Gathered(<<>>, <<>>)
<1>1. <<>> \in Tables
  BY DEF Tables
<1>2. \A k, c : Same(<<>>, <<>>, k, c)
  BY DEF Same
<1>3. Len(<<>>) <= Len(<<>>)
  OBVIOUS
<1> QED
  BY <1>1, <1>2, <1>3 DEF Gathered

\* A reduced batch after what was gathered before gathers both.
LEMMA GatherMore ==
  ASSUME NEW p, NEW a \in Tables, NEW b \in Tables, Gathered(p, a)
  PROVE  Gathered(p \o DedupeLatestPerKey(b), a \o b)
<1> DEFINE q == DedupeLatestPerKey(b)
<1>1. p \in Tables /\ Len(p) <= Len(a)
  BY DEF Gathered
<1>2. q \in Tables /\ Len(q) <= Len(b)
  BY Reduced
<1>3. /\ p \o q \in Tables /\ Len(p \o q) = Len(p) + Len(q)
      /\ a \o b \in Tables /\ Len(a \o b) = Len(a) + Len(b)
  BY <1>1, <1>2, Joined
<1>4. Len(p \o q) <= Len(a \o b)
  <2>1. Len(p) \in Nat /\ Len(q) \in Nat /\ Len(a) \in Nat /\ Len(b) \in Nat
    BY <1>1, <1>2, Typing
  <2> HIDE DEF q
  <2> QED
    BY <2>1, <1>1, <1>2, <1>3
<1>5. \A k : \A c \in Columns \ {"key"} : SettledIn(a \o b, k, c) => Same(p \o q, a \o b, k, c)
  <2> SUFFICES ASSUME NEW k, NEW c \in Columns \ {"key"}, SettledIn(a \o b, k, c)
               PROVE  Same(p \o q, a \o b, k, c)
    OBVIOUS
  <2>1. SettledIn(a, k, c)
    <3>1. Advancing(a \o b, k) => Advancing(a, k)
      <4>1. \A i \in Candidates(a) : i \in Candidates(a \o b) /\ (a \o b)[i] = a[i]
        BY Joined, Typing
      <4> QED
        BY <4>1 DEF Advancing
    <3> QED
      BY <3>1, FullAndVoid DEF SettledIn
  <2>2. Same(p, a, k, c)
    BY <2>1 DEF Gathered
  <2> QED
    BY <2>2, <1>1, Composed
<1>6. \A k : Val(p \o q, k, "feed_timestamp") = Val(a \o b, k, "feed_timestamp")
  <2> TAKE k
  <2>1. Val(p, k, "feed_timestamp") = Val(a, k, "feed_timestamp")
    BY DEF Gathered
  <2>2. "feed_timestamp" \in Columns \ {"key"}
    BY DEF Columns
  <2>3. Val(q, k, "feed_timestamp") = Val(b, k, "feed_timestamp")
    BY <2>2, KeptByCompaction DEF Same
  <2> QED
    BY <2>1, <2>3, <1>1, <1>2, JoinedTimes
<1>7. Compact(a \o b) => Compact(p \o q) /\ ToSet(p \o q) = ToSet(a \o b)
  <2>1. Compact(a) => Compact(p) /\ ToSet(p) = ToSet(a)
    BY DEF Gathered
  <2> QED
    BY <2>1, <1>1, CompactJoined
<1> QED
  BY <1>3, <1>4, <1>5, <1>6, <1>7 DEF Gathered

\* The partial results gather the batches, and in the bare era are the rows.
LEMMA PartialsGathered ==
  ASSUME NEW rows \in Tables, era \in {"dotted", "bare"}, CompactBatch \in Nat \ {0}
  PROVE  /\ era = "dotted" => Gathered(FlattenSeq(Partials(rows)), rows)
         /\ era = "bare" => FlattenSeq(Partials(rows)) = rows
<1> DEFINE n == CompactBatch
           m == BatchCount(rows, n)
           bs == Batches(rows, n)
           ps == Partials(rows)
           pre(b) == Upto(rows, EndOf(rows, n, b))
<1>1. /\ m \in Nat
      /\ DOMAIN bs = 1..m
      /\ \A b \in 0..m : EndOf(rows, n, b) \in 0..Len(rows)
      /\ EndOf(rows, n, 0) = 0
      /\ EndOf(rows, n, m) = Len(rows)
      /\ \A b \in 1..m : bs[b] \in Tables /\ pre(b) = pre(b - 1) \o bs[b]
  BY Batched
<1>2. /\ ps = [b \in 1..m |-> CompactTable(bs[b])]
      /\ \A x \in Tables : CompactTable(x) = IF era = "bare" THEN x ELSE DedupeLatestPerKey(x)
  BY <1>1 DEF Partials, CompactTable, DedupeLatestPerKey
<1>3. pre(0) = <<>> /\ pre(m) = rows /\ \A b \in 0..m : pre(b) \in Tables
  BY <1>1, PrefixFacts
<1> HIDE DEF n, m, bs, ps, pre
<1>4. ps \in Seq(Tables) /\ Len(ps) = m
  <2>1. \A b \in 1..m : CompactTable(bs[b]) \in Tables
    BY <1>1, <1>2, Reduced
  <2> QED
    BY <2>1, <1>1, <1>2
<1>5. PICK f : /\ f[0] = <<>>
               /\ \A i \in 1..m : f[i] = f[i-1] \o ps[i]
               /\ FlattenSeq(ps) = f[m]
  BY <1>4, Flattened DEF Tables
<1> DEFINE Good == {b \in Nat : b \in 0..m => /\ era = "dotted" => Gathered(f[b], pre(b))
                                              /\ era = "bare" => f[b] = pre(b)}
<1>6. 0 \in Good
  BY <1>3, <1>5, GatherNothing
<1>7. ASSUME NEW b \in Nat, b \in Good PROVE b + 1 \in Good
  <2> SUFFICES ASSUME b + 1 \in 0..m
               PROVE  /\ era = "dotted" => Gathered(f[b+1], pre(b+1))
                      /\ era = "bare" => f[b+1] = pre(b+1)
    OBVIOUS
  <2>1. b + 1 \in 1..m /\ b \in 0..m /\ (b + 1) - 1 = b
    BY <1>1
  <2>2. bs[b+1] \in Tables /\ pre(b+1) = pre(b) \o bs[b+1] /\ pre(b) \in Tables
    BY <2>1, <1>1, <1>3
  <2>3. f[b+1] = f[b] \o CompactTable(bs[b+1])
    BY <2>1, <1>2, <1>5
  <2>4. CASE era = "dotted"
    <3>1. Gathered(f[b], pre(b))
      BY <2>1, <2>4, <1>7
    <3> QED
      BY <3>1, <2>2, <2>3, <2>4, <1>2, GatherMore
  <2>5. CASE era = "bare"
    <3>1. f[b] = pre(b)
      BY <2>1, <2>5, <1>7
    <3> QED
      BY <3>1, <2>2, <2>3, <2>5, <1>2
  <2> QED
    BY <2>4, <2>5
<1>8. m \in Good
  <2> HIDE DEF Good
  <2> QED
    BY <1>1, <1>6, <1>7, Induction
<1>9. /\ era = "dotted" => Gathered(f[m], rows)
      /\ era = "bare" => f[m] = rows
  <2>1. m \in 0..m
    BY <1>1
  <2> QED
    BY <2>1, <1>3, <1>8
<1> QED
  BY <1>5, <1>9 DEF ps

\* Reduced again, it is as gathered, and compact.
LEMMA GatherReduced ==
  ASSUME NEW p, NEW a \in Tables, Gathered(p, a)
  PROVE  Gathered(DedupeLatestPerKey(p), a) /\ Compact(DedupeLatestPerKey(p))
<1> DEFINE q == DedupeLatestPerKey(p)
<1>1. p \in Tables
  BY DEF Gathered
<1>2. q \in Tables /\ Compact(q) /\ Len(q) <= Len(p)
  BY <1>1, Reduced
<1>3. Len(q) <= Len(a)
  <2>1. Len(p) <= Len(a) /\ Len(p) \in Nat /\ Len(a) \in Nat
    BY <1>1, Typing DEF Gathered
  <2>2. Len(q) \in Nat
    BY <1>2, Typing
  <2> HIDE DEF q
  <2> QED
    BY <2>1, <2>2, <1>2
<1>4. \A k : \A c \in Columns \ {"key"} : Same(q, p, k, c)
  BY <1>1, KeptByCompaction
<1> HIDE DEF q
<1>5. \A k : \A c \in Columns \ {"key"} : SettledIn(a, k, c) => Same(q, a, k, c)
  BY <1>4 DEF Same, Gathered
<1>6. \A k : Val(q, k, "feed_timestamp") = Val(a, k, "feed_timestamp")
  <2>1. "feed_timestamp" \in Columns \ {"key"}
    BY DEF Columns
  <2> QED
    BY <2>1, <1>4 DEF Same, Gathered
<1>7. Compact(a) => ToSet(q) = ToSet(a)
  BY <1>1, CompactReduced DEF q, Gathered
<1> QED
  BY <1>2, <1>3, <1>5, <1>6, <1>7 DEF q, Gathered

\* A compacted partition gathers the rows; in the bare era it is the rows.
LEMMA Compacted ==
  ASSUME NEW rows \in Tables, era \in {"dotted", "bare"}, CompactBatch \in Nat \ {0}
  PROVE  /\ era = "dotted" => /\ Gathered(CompactParquet(rows), rows)
                             /\ Compact(CompactParquet(rows))
         /\ era = "bare" => CompactParquet(rows) = rows
<1>1. CompactParquet(rows) = IF era = "bare" THEN FlattenSeq(Partials(rows))
                             ELSE DedupeLatestPerKey(FlattenSeq(Partials(rows)))
  BY DEF CompactParquet, CompactTable, DedupeLatestPerKey
<1>2. era = "bare" => CompactParquet(rows) = rows
  BY <1>1, PartialsGathered
<1>3. ASSUME era = "dotted"
      PROVE  Gathered(CompactParquet(rows), rows) /\ Compact(CompactParquet(rows))
  BY <1>1, <1>3, PartialsGathered, GatherReduced
<1> QED
  BY <1>2, <1>3

\* TripUpdatesDay.visits: the same, merging as it goes.
LEMMA Visited ==
  ASSUME NEW rows \in Tables, era = "dotted", MergeBatch \in Nat \ {0}
  PROVE  \E day : /\ Gathered(day, rows)
                  /\ Compact(day)
                  /\ Visits(rows) = {Visit(day[i]) : i \in DOMAIN day}
<1> DEFINE n == MergeBatch
           m == BatchCount(rows, n)
           bs == Batches(rows, n)
           pre(b) == Upto(rows, EndOf(rows, n, b))
           Next(old, b) == DedupeLatestPerKey(old \o DedupeLatestPerKey(bs[b]))
           Step(f, l) == [b \in 0..l |-> IF b = 0 THEN <<>> ELSE Next(f[b-1], b)]
           merged == CHOOSE f : f = Step(f, Len(bs))
<1>1. /\ m \in Nat
      /\ Len(bs) = m
      /\ \A b \in 0..m : EndOf(rows, n, b) \in 0..Len(rows)
      /\ EndOf(rows, n, 0) = 0
      /\ EndOf(rows, n, m) = Len(rows)
      /\ \A b \in 1..m : bs[b] \in Tables /\ pre(b) = pre(b - 1) \o bs[b]
  BY Batched
<1>2. pre(0) = <<>> /\ pre(m) = rows /\ \A b \in 0..m : pre(b) \in Tables
  BY <1>1, PrefixFacts
<1>3. Visits(rows) = {Visit(merged[Len(bs)][i]) : i \in DOMAIN merged[Len(bs)]}
  BY DEF Visits, Normalize
<1> HIDE DEF n, m, bs, pre, Next
<1>4. \A l \in Nat : \E f : f = Step(f, l)
  <2> DEFINE Good == {l \in Nat : \E f : f = Step(f, l)}
  <2>1. 0 \in Good
    <3> DEFINE e == [b \in 0..0 |-> <<>>]
    <3>1. e = Step(e, 0)
      OBVIOUS
    <3> QED
      BY <3>1
  <2>2. ASSUME NEW l \in Nat, l \in Good PROVE l + 1 \in Good
    <3>1. PICK f : f = Step(f, l)
      BY <2>2
    <3> DEFINE g == [b \in 0..(l+1) |-> IF b = l + 1 THEN Next(f[b-1], b) ELSE f[b]]
    <3>2. \A b \in 0..l : f[b] = IF b = 0 THEN <<>> ELSE Next(f[b-1], b)
      <4> HIDE DEF Good
      <4>1. \A b \in 0..l : f[b] = Step(f, l)[b]
        BY <3>1
      <4> QED
        BY <4>1
    <3>3. \A b \in 0..l : g[b] = f[b]
      OBVIOUS
    <3>4. \A b \in 0..(l+1) : g[b] = IF b = 0 THEN <<>> ELSE Next(g[b-1], b)
      <4> TAKE b \in 0..(l+1)
      <4>1. CASE b = l + 1
        <5>1. b - 1 \in 0..l /\ b # 0
          BY <4>1
        <5>2. g[b-1] = f[b-1]
          BY <5>1, <3>3
        <5> QED
          BY <5>1, <5>2, <4>1
      <4>2. CASE b # l + 1
        <5>1. b \in 0..l /\ g[b] = f[b]
          BY <4>2
        <5>2. CASE b = 0
          BY <5>1, <5>2, <3>2
        <5>3. CASE b # 0
          <6>1. b - 1 \in 0..l
            BY <5>1, <5>3
          <6> QED
            BY <6>1, <5>1, <5>3, <3>2, <3>3
        <5> QED
          BY <5>2, <5>3
      <4> QED
        BY <4>1, <4>2
    <3>5. g = Step(g, l + 1)
      <4>1. g = [b \in 0..(l+1) |-> g[b]]
        OBVIOUS
      <4> HIDE DEF g
      <4> QED
        BY <4>1, <3>4
    <3> HIDE DEF g
    <3>6. \E h : h = Step(h, l + 1)
      BY <3>5
    <3>7. l + 1 \in Nat
      OBVIOUS
    <3> HIDE DEF Step
    <3> QED
      BY <3>6, <3>7
  <2> HIDE DEF Good
  <2>3. Nat \subseteq Good
    BY <2>1, <2>2, Induction
  <2> QED
    BY <2>3 DEF Good
<1>5. merged = Step(merged, m)
  <2> HIDE DEF Step
  <2> QED
    BY <1>1, <1>4
<1> HIDE DEF merged
<1>6. /\ merged[0] = <<>>
      /\ \A b \in 1..m : merged[b] = Next(merged[b-1], b)
  <2>1. \A b \in 0..m : merged[b] = IF b = 0 THEN <<>> ELSE Next(merged[b-1], b)
    BY <1>5
  <2>2. \A b \in 1..m : b \in 0..m /\ b # 0
    BY <1>1
  <2>3. 0 \in 0..m
    BY <1>1
  <2> QED
    BY <2>1, <2>2, <2>3
<1> DEFINE Done == {b \in Nat : b \in 0..m => Gathered(merged[b], pre(b)) /\ Compact(merged[b])}
<1>7. 0 \in Done
  <2>1. Compact(<<>>)
    BY DEF Compact, Candidates
  <2> QED
    BY <2>1, <1>2, <1>6, GatherNothing
<1>8. ASSUME NEW b \in Nat, b \in Done PROVE b + 1 \in Done
  <2> SUFFICES ASSUME b + 1 \in 0..m
               PROVE  Gathered(merged[b+1], pre(b+1)) /\ Compact(merged[b+1])
    OBVIOUS
  <2>1. b + 1 \in 1..m /\ b \in 0..m /\ (b + 1) - 1 = b
    BY <1>1
  <2>2. bs[b+1] \in Tables /\ pre(b+1) = pre(b) \o bs[b+1] /\ pre(b) \in Tables
    BY <2>1, <1>1, <1>2
  <2>3. merged[b+1] = DedupeLatestPerKey(merged[b] \o DedupeLatestPerKey(bs[b+1]))
    BY <2>1, <1>6 DEF Next
  <2>4. Gathered(merged[b], pre(b))
    BY <2>1, <1>8
  <2>5. Gathered(merged[b] \o DedupeLatestPerKey(bs[b+1]), pre(b+1))
    BY <2>2, <2>4, GatherMore
  <2>6. pre(b+1) \in Tables
    BY <2>1, <1>2
  <2> QED
    BY <2>3, <2>5, <2>6, GatherReduced
<1>9. m \in Done
  <2> HIDE DEF Done
  <2> QED
    BY <1>1, <1>7, <1>8, Induction
<1>10. Gathered(merged[m], rows) /\ Compact(merged[m])
  <2>1. m \in 0..m
    BY <1>1
  <2> QED
    BY <2>1, <1>2, <1>9
<1> QED
  BY <1>1, <1>3, <1>10

-----------------------------------------------------------------------------
(* What a file stands for.                                                 *)

\* A file is a rollup of the day, or a table of one row per key with the
\* values the reduction of that rollup has, where they do not depend on batches.
Standing(file, day) ==
  \/ file = day
  \/ /\ Compact(file)
     /\ \A k : Val(file, k, "feed_timestamp") = Val(day, k, "feed_timestamp")
     /\ \A k : Settled(day, k) => \A c \in TimeColumns : Val(file, k, c) = Val(day, k, c)

\* A settled key is settled in each column, and a key of a compact table is.
LEMMA SettledColumns ==
  ASSUME NEW rows \in Tables, NEW k, NEW c \in TimeColumns
  PROVE  /\ Settled(rows, k) => SettledIn(rows, k, c)
         /\ Compact(rows) => Settled(rows, k)
         /\ c \in Columns \ {"key"}
<1>1. ASSUME Settled(rows, k) PROVE SettledIn(rows, k, c)
  <2> DEFINE own == {i \in Candidates(rows) : rows[i].key = k}
  <2>1. \/ \A i, j \in own : i < j => rows[i].feed_timestamp < rows[j].feed_timestamp
        \/ \A i, j \in own, d \in {"arrival", "departure"} :
             rows[i][d] = Null <=> rows[j][d] = Null
    BY <1>1 DEF Settled
  <2>2. CASE \A i, j \in own : i < j => rows[i].feed_timestamp < rows[j].feed_timestamp
    BY <2>2 DEF SettledIn, Advancing
  <2>3. CASE c = "feed_timestamp"
    BY <2>3, FullAndVoid DEF SettledIn
  <2>4. CASE c # "feed_timestamp" /\ \A i, j \in own, d \in {"arrival", "departure"} :
               rows[i][d] = Null <=> rows[j][d] = Null
    <3>1. c \in {"arrival", "departure"}
      BY <2>4 DEF TimeColumns
    <3> QED
      BY <3>1, <2>4 DEF SettledIn, Full, Void
  <2> QED
    BY <2>1, <2>2, <2>3, <2>4
<1>2. Compact(rows) => Settled(rows, k)
  BY Typing DEF Compact, Settled
<1> QED
  BY <1>1, <1>2 DEF TimeColumns, Columns

\* Compacting what stands for a rollup leaves it standing.
LEMMA StaysStanding ==
  ASSUME NEW file \in Tables, NEW day \in Tables, Standing(file, day),
         era \in {"dotted", "bare"}, CompactBatch \in Nat \ {0}
  PROVE  /\ CompactParquet(file) \in Tables
         /\ Len(CompactParquet(file)) <= Len(file)
         /\ Standing(CompactParquet(file), day)
<1> DEFINE new == CompactParquet(file)
<1>0. CASE era = "bare"
  <2>1. new = file
    BY <1>0, Compacted
  <2>2. Len(file) \in Nat
    BY Typing
  <2> HIDE DEF new
  <2> QED
    BY <2>1, <2>2 DEF new
<1> SUFFICES ASSUME era = "dotted"
             PROVE  new \in Tables /\ Len(new) <= Len(file) /\ Standing(new, day)
  BY <1>0
<1>1. Gathered(new, file) /\ Compact(new)
  BY Compacted
<1> HIDE DEF new
<1>2. \A k : Settled(file, k) => \A c \in TimeColumns : Val(new, k, c) = Val(file, k, c)
  BY <1>1, SettledColumns DEF Gathered, Same
<1>3. \A k : Val(new, k, "feed_timestamp") = Val(file, k, "feed_timestamp")
  BY <1>1 DEF Gathered
<1>4. Standing(new, day)
  <2>1. CASE file = day
    BY <2>1, <1>1, <1>2, <1>3 DEF Standing
  <2>2. CASE file # day
    <3>1. /\ Compact(file)
          /\ \A k : Val(file, k, "feed_timestamp") = Val(day, k, "feed_timestamp")
          /\ \A k : Settled(day, k) => \A c \in TimeColumns : Val(file, k, c) = Val(day, k, c)
      BY <2>2 DEF Standing
    <3>2. \A k : Settled(file, k)
      <4>1. "arrival" \in TimeColumns
        BY DEF TimeColumns
      <4> QED
        BY <3>1, <4>1, SettledColumns
    <3> QED
      BY <3>1, <3>2, <1>1, <1>2, <1>3 DEF Standing
  <2> QED
    BY <2>1, <2>2
<1> QED
  BY <1>1, <1>4 DEF Gathered, new

\* The same latest times are the same outline.
LEMMA SameOutline ==
  ASSUME NEW file \in Tables, NEW day \in Tables, Standing(file, day)
  PROVE  Outline(file) = Outline(day)
<1> DEFINE Of(rows) == {[key |-> k, latest |-> Val(rows, k, "feed_timestamp")] : k \in Keys(rows)}
<1>1. \A rows : Outline(rows) = Of(rows)
  BY DEF Outline, Keys, Val
<1>2. \A k : Val(file, k, "feed_timestamp") = Val(day, k, "feed_timestamp")
  BY DEF Standing
<1>3. Keys(file) = Keys(day)
  BY <1>2, TimedKeys
<1>4. Of(file) = Of(day)
  BY <1>2, <1>3
<1> QED
  BY <1>1, <1>4

\* The same values are the same visits.
LEMMA SameVisits ==
  ASSUME NEW file \in Tables, NEW day \in Tables, Standing(file, day),
         \A k : Settled(day, k), era \in {"dotted", "bare"}, MergeBatch \in Nat \ {0}
  PROVE  Visits(file) = Visits(day)
<1>1. CASE era = "bare"
  BY <1>1 DEF Visits, Normalize
<1>2. CASE era = "dotted"
  <2>1. \A k : \A c \in TimeColumns : Val(file, k, c) = Val(day, k, c)
    BY DEF Standing
  <2>2. \A k : Settled(file, k)
    <3>1. CASE file = day
      BY <3>1
    <3>2. CASE Compact(file)
      <4>1. "arrival" \in TimeColumns
        BY DEF TimeColumns
      <4> QED
        BY <3>2, <4>1, SettledColumns
    <3> QED
      BY <3>1, <3>2 DEF Standing
  <2>3. PICK f : /\ Gathered(f, file)
                 /\ Compact(f)
                 /\ Visits(file) = {Visit(f[i]) : i \in DOMAIN f}
    BY <1>2, Visited
  <2>4. PICK d : /\ Gathered(d, day)
                 /\ Compact(d)
                 /\ Visits(day) = {Visit(d[i]) : i \in DOMAIN d}
    BY <1>2, Visited
  <2>5. \A k : \A c \in TimeColumns : Val(f, k, c) = Val(d, k, c)
    <3>1. \A k : \A c \in TimeColumns : Val(f, k, c) = Val(file, k, c)
      BY <2>2, <2>3, SettledColumns DEF Gathered, Same
    <3>2. \A k : \A c \in TimeColumns : Val(d, k, c) = Val(day, k, c)
      BY <2>4, SettledColumns DEF Gathered, Same
    <3> QED
      BY <3>1, <3>2, <2>1
  <2>6. ASSUME NEW g \in Tables, NEW h \in Tables, Compact(g), Compact(h),
               \A k : \A c \in TimeColumns : Val(g, k, c) = Val(h, k, c)
        PROVE  \A i \in DOMAIN g : \E j \in DOMAIN h : Visit(g[i]) = Visit(h[j])
    <3> TAKE i \in DOMAIN g
    <3>1. g[i].key \in Keys(g)
      BY <2>6 DEF Keys, Compact
    <3>2. g[i].key \in Keys(h)
      BY <3>1, <2>6, TimedKeys DEF TimeColumns
    <3>3. PICK j \in DOMAIN h : h[j].key = g[i].key
      BY <3>2, Typing DEF Keys
    <3>4. \A c \in TimeColumns : g[i][c] = h[j][c]
      BY <3>3, <2>6, CompactVal
    <3>5. g[i].arrival = h[j].arrival /\ g[i].departure = h[j].departure
      BY <3>4 DEF TimeColumns
    <3> QED
      BY <3>3, <3>5 DEF Visit
  <2>7. f \in Tables /\ d \in Tables
    BY <2>3, <2>4 DEF Gathered
  <2>8. \A i \in DOMAIN f : \E j \in DOMAIN d : Visit(f[i]) = Visit(d[j])
    BY <2>3, <2>4, <2>5, <2>6, <2>7
  <2>9. \A i \in DOMAIN d : \E j \in DOMAIN f : Visit(d[i]) = Visit(f[j])
    BY <2>3, <2>4, <2>5, <2>6, <2>7
  <2> QED
    BY <2>3, <2>4, <2>8, <2>9
<1> QED
  BY <1>1, <1>2

-----------------------------------------------------------------------------
(* The batch and the backfills.                                            *)

\* A file holds what the first polls of the day said.
OfDay(file) == \E n \in 0..Len(rolled) : Standing(file, Upto(rolled, n))

\* The types, files as tables of the day's rows.
RowTypes ==
  /\ era \in {"dotted", "bare"}
  /\ rollups \in 0..MaxRollups
  /\ step \in {"idle", "rolled", "spilled", "ready"}
  /\ job \in {"idle", "direct", "staged", "copy", "delete"}
  /\ \A rows \in {rolled, partition, spill, hot, staging, snapshot} :
       rows \in Tables /\ Len(rows) <= MaxRows

\* Until the first poll there is nothing; only then may the names change.
Unpolled ==
  rolled = <<>> =>
    /\ step = "idle" /\ job = "idle"
    /\ partition = <<>> /\ spill = <<>> /\ hot = <<>> /\ staging = <<>> /\ snapshot = <<>>

\* While the batch works on the partition, no poll is rolled up.
WorkStands ==
  /\ step # "idle" => Standing(partition, rolled)
  /\ step = "spilled" => Standing(spill, rolled)

\* Wherever a file came from, it is one of the day.
FilesStand == OfDay(partition) /\ OfDay(hot) /\ OfDay(staging) /\ OfDay(snapshot)

\* The inductive invariant.
CompactionInv == RowTypes /\ Unpolled /\ WorkStands /\ FilesStand

\* The bounds are numbers, and batches hold something.
LEMMA Bounds ==
  /\ MaxRows \in Nat /\ MaxRollups \in Nat
  /\ CompactBatch \in Nat \ {0} /\ MergeBatch \in Nat \ {0}
BY CompactionAssumption

\* A file of the day stays one after it was compacted.
LEMMA CompactedOfDay ==
  ASSUME RowTypes, NEW file \in Tables, OfDay(file), Len(file) <= MaxRows
  PROVE  /\ CompactParquet(file) \in Tables
         /\ Len(CompactParquet(file)) <= MaxRows
         /\ OfDay(CompactParquet(file))
<1>1. PICK n \in 0..Len(rolled) : Standing(file, Upto(rolled, n))
  BY DEF OfDay
<1>2. rolled \in Tables /\ era \in {"dotted", "bare"}
  BY DEF RowTypes
<1>3. Upto(rolled, n) \in Tables
  BY <1>2, PrefixFacts
<1>4. /\ CompactParquet(file) \in Tables
      /\ Len(CompactParquet(file)) <= Len(file)
      /\ Standing(CompactParquet(file), Upto(rolled, n))
  BY <1>1, <1>2, <1>3, Bounds, StaysStanding
<1>5. Len(CompactParquet(file)) \in Nat /\ Len(file) \in Nat
  BY <1>4, Typing
<1>6. Len(CompactParquet(file)) <= MaxRows
  BY <1>4, <1>5, Bounds
<1> QED
  BY <1>4, <1>6 DEF OfDay

\* The whole day is a rollup of the day, and so is nothing.
LEMMA Whole ==
  ASSUME rolled \in Tables
  PROVE  /\ \A file : Standing(file, rolled) => OfDay(file)
         /\ OfDay(rolled)
         /\ OfDay(<<>>)
<1>1. Len(rolled) \in Nat
  BY Typing
<1>2. 0 \in 0..Len(rolled) /\ Len(rolled) \in 0..Len(rolled)
  BY <1>1
<1>3. Upto(rolled, 0) = <<>> /\ Upto(rolled, Len(rolled)) = rolled
  BY <1>2, PrefixFacts
<1>4. Standing(rolled, rolled) /\ Standing(<<>>, <<>>)
  BY DEF Standing
<1> QED
  BY <1>2, <1>3, <1>4 DEF OfDay

\* Before the first poll all files are empty.
LEMMA InitStands ==
  ASSUME CompactionInit
  PROVE  CompactionInv
<1>1. <<>> \in Tables /\ Len(<<>>) = 0
  BY DEF Tables
<1>2. RowTypes
  BY <1>1, Bounds DEF CompactionInit, RowTypes
<1>3. OfDay(<<>>)
  BY <1>2, Whole DEF RowTypes
<1> QED
  BY <1>2, <1>3 DEF CompactionInit, CompactionInv, Unpolled, WorkStands, FilesStand

\* A poll adds one row, and takes none away.
LEMMA PollStands ==
  ASSUME CompactionInv, NEW shape \in TripRows, NEW names \in {"dotted", "bare"},
         PollTrips(shape, names)
  PROVE  CompactionInv'
<1> DEFINE n == Len(rolled) + 1
           new == [shape EXCEPT !.arrival = IF @ = Null THEN Null ELSE n,
                                !.departure = IF @ = Null THEN Null ELSE n]
<1>1. /\ rolled \in Tables /\ Len(rolled) \in Nat
      /\ step = "idle" /\ n <= MaxRows /\ rolled' = Append(rolled, new) /\ era' = names
      /\ UNCHANGED <<rollups, step, partition, spill, hot, staging, job, snapshot>>
  BY Typing DEF CompactionInv, RowTypes, PollTrips
<1>2. new \in Row
  <2>1. /\ shape = [c \in Columns |-> shape[c]]
        /\ \A c \in TimeColumns : shape[c] \in Nat \cup {Null}
    BY CompactionAssumption
  <2>2. \A c \in Columns : shape[c] \in Cell
    BY DEF Cell
  <2>3. /\ DOMAIN new = Columns
        /\ new = [c \in Columns |-> new[c]]
        /\ \A c \in Columns : new[c] = shape[c] \/ new[c] \in Nat \cup {Null}
    <3>1. DOMAIN shape = Columns /\ n \in Nat
      BY <2>1, <1>1
    <3> HIDE DEF n
    <3>2. new = [c \in Columns |->
                   IF c \in {"arrival", "departure"} THEN IF shape[c] = Null THEN Null ELSE n
                   ELSE shape[c]]
      BY <3>1
    <3> HIDE DEF new
    <3> QED
      BY <3>1, <3>2
  <2>4. \A c \in Columns : new[c] \in Cell
    BY <2>2, <2>3 DEF Cell
  <2>5. \A c \in TimeColumns : new[c] \in Nat \cup {Null}
    BY <2>1, <2>3 DEF TimeColumns, Columns
  <2> HIDE DEF new
  <2> QED
    BY <2>3, <2>4, <2>5 DEF Row
<1> HIDE DEF new
<1>3. rolled' \in Tables /\ Len(rolled') = n /\ rolled' # <<>>
  BY <1>1, <1>2 DEF Tables
<1>4. RowTypes'
  BY <1>1, <1>3 DEF CompactionInv, RowTypes
<1>5. \A e \in 0..Len(rolled) : e \in 0..Len(rolled') /\ Upto(rolled', e) = Upto(rolled, e)
  <2> TAKE e \in 0..Len(rolled)
  <2>1. e \in 0..Len(rolled')
    BY <1>1, <1>3
  <2>2. Upto(rolled', e) = Upto(rolled, e)
    BY <1>1, <1>2, <1>3 DEF Upto, Tables
  <2> QED
    BY <2>1, <2>2
<1>6. \A file : OfDay(file) => (\E e \in 0..Len(rolled') : Standing(file, Upto(rolled', e)))
  BY <1>5 DEF OfDay
<1>7. FilesStand'
  BY <1>1, <1>6 DEF CompactionInv, FilesStand, OfDay
<1> QED
  BY <1>1, <1>3, <1>4, <1>7 DEF CompactionInv, Unpolled, WorkStands

\* The batch: what it puts in the place of the partition stands for the day.
LEMMA BatchStands ==
  ASSUME CompactionInv, RollUpTrips \/ CompactOne \/ RenameCompacted
                          \/ CompactionFails \/ ShipTrips
  PROVE  CompactionInv'
<1>1. /\ RowTypes /\ Unpolled /\ WorkStands /\ FilesStand
      /\ rolled \in Tables /\ partition \in Tables /\ spill \in Tables
      /\ Len(partition) <= MaxRows /\ Len(rolled) <= MaxRows
  BY DEF CompactionInv, RowTypes
<1>2. /\ <<>> \in Tables /\ Len(<<>>) <= MaxRows
      /\ OfDay(rolled) /\ OfDay(<<>>) /\ \A file : Standing(file, rolled) => OfDay(file)
  BY <1>1, Whole, Bounds DEF Tables
<1>3. CASE RollUpTrips
  <2>1. RowTypes'
    <3>1. rollups' \in 0..MaxRollups
      BY <1>1, <1>3, Bounds DEF RowTypes, RollUpTrips
    <3> QED
      BY <3>1, <1>1, <1>3 DEF RowTypes, RollUpTrips
  <2>2. Unpolled'
    BY <1>3 DEF Unpolled, RollUpTrips
  <2>3. WorkStands'
    BY <1>3 DEF WorkStands, RollUpTrips, Standing
  <2>4. FilesStand'
    BY <1>1, <1>2, <1>3 DEF FilesStand, RollUpTrips, OfDay
  <2> QED
    BY <2>1, <2>2, <2>3, <2>4 DEF CompactionInv
<1>4. CASE CompactOne
  <2>1. /\ CompactParquet(partition) \in Tables
        /\ Len(CompactParquet(partition)) <= MaxRows
    BY <1>1, CompactedOfDay DEF FilesStand
  <2>2. Standing(CompactParquet(partition), rolled)
    BY <1>1, <1>4, Bounds, StaysStanding DEF WorkStands, CompactOne, RowTypes
  <2>3. RowTypes'
    BY <1>1, <1>4, <2>1 DEF RowTypes, CompactOne
  <2>4. Unpolled'
    BY <1>1, <1>4 DEF Unpolled, CompactOne
  <2>5. WorkStands'
    BY <1>1, <1>4, <2>2 DEF WorkStands, CompactOne
  <2>6. FilesStand'
    BY <1>1, <1>4 DEF FilesStand, CompactOne, OfDay
  <2> QED
    BY <2>3, <2>4, <2>5, <2>6 DEF CompactionInv
<1>5. CASE RenameCompacted
  <2>1. RowTypes'
    BY <1>1, <1>2, <1>5 DEF RowTypes, RenameCompacted
  <2>2. Unpolled'
    BY <1>1, <1>5 DEF Unpolled, RenameCompacted
  <2>3. WorkStands'
    BY <1>1, <1>5 DEF WorkStands, RenameCompacted
  <2>4. FilesStand'
    BY <1>1, <1>2, <1>5 DEF FilesStand, WorkStands, RenameCompacted, OfDay
  <2> QED
    BY <2>1, <2>2, <2>3, <2>4 DEF CompactionInv
<1>6. CASE CompactionFails
  <2>1. RowTypes'
    BY <1>1, <1>6 DEF RowTypes, CompactionFails
  <2>2. Unpolled'
    BY <1>1, <1>6 DEF Unpolled, CompactionFails
  <2>3. WorkStands'
    BY <1>1, <1>6 DEF WorkStands, CompactionFails
  <2>4. FilesStand'
    BY <1>1, <1>6 DEF FilesStand, CompactionFails, OfDay
  <2> QED
    BY <2>1, <2>2, <2>3, <2>4 DEF CompactionInv
<1>7. CASE ShipTrips
  <2>1. RowTypes'
    BY <1>1, <1>7 DEF RowTypes, ShipTrips
  <2>2. Unpolled'
    BY <1>1, <1>7 DEF Unpolled, ShipTrips
  <2>3. WorkStands'
    BY <1>7 DEF WorkStands, ShipTrips
  <2>4. FilesStand'
    BY <1>1, <1>7 DEF FilesStand, ShipTrips, OfDay
  <2> QED
    BY <2>1, <2>2, <2>3, <2>4 DEF CompactionInv
<1> QED
  BY <1>3, <1>4, <1>5, <1>6, <1>7

\* The backfills: what they put in the place of the object stands for a day
\* it was rolled up from, the one they downloaded.
LEMMA BackfillStands ==
  ASSUME CompactionInv,
         \/ \E script \in {"direct", "staged"} : Download(script)
         \/ PutCompacted \/ StageCompacted \/ NotSmaller \/ CopyStaged \/ DeleteStaged
         \/ ChildFails
  PROVE  CompactionInv'
<1>1. /\ RowTypes /\ Unpolled /\ WorkStands /\ FilesStand
      /\ rolled \in Tables /\ snapshot \in Tables /\ staging \in Tables
      /\ Len(snapshot) <= MaxRows
  BY DEF CompactionInv, RowTypes
<1>2. <<>> \in Tables /\ Len(<<>>) <= MaxRows /\ OfDay(<<>>)
  BY <1>1, Whole, Bounds DEF Tables
<1>3. /\ CompactParquet(snapshot) \in Tables
      /\ Len(CompactParquet(snapshot)) <= MaxRows
      /\ OfDay(CompactParquet(snapshot))
  BY <1>1, CompactedOfDay DEF FilesStand
<1>4. WorkStands'
  BY <1>1 DEF WorkStands, Download, PutCompacted, StageCompacted, NotSmaller, CopyStaged,
              DeleteStaged, ChildFails
<1>5. ASSUME NEW script \in {"direct", "staged"}, Download(script) PROVE CompactionInv'
  <2>1. RowTypes'
    BY <1>1, <1>5 DEF RowTypes, Download
  <2>2. Unpolled'
    BY <1>1, <1>5 DEF Unpolled, Download
  <2>3. FilesStand'
    BY <1>1, <1>5 DEF FilesStand, Download, OfDay
  <2> QED
    BY <2>1, <2>2, <2>3, <1>4 DEF CompactionInv
<1>6. CASE PutCompacted
  <2>1. RowTypes'
    BY <1>1, <1>2, <1>3, <1>6 DEF RowTypes, PutCompacted
  <2>2. Unpolled'
    BY <1>1, <1>6 DEF Unpolled, PutCompacted
  <2>3. FilesStand'
    BY <1>1, <1>2, <1>3, <1>6 DEF FilesStand, PutCompacted, OfDay
  <2> QED
    BY <2>1, <2>2, <2>3, <1>4 DEF CompactionInv
<1>7. CASE StageCompacted
  <2>1. RowTypes'
    BY <1>1, <1>3, <1>7 DEF RowTypes, StageCompacted
  <2>2. Unpolled'
    BY <1>1, <1>7 DEF Unpolled, StageCompacted
  <2>3. FilesStand'
    BY <1>1, <1>3, <1>7 DEF FilesStand, StageCompacted, OfDay
  <2> QED
    BY <2>1, <2>2, <2>3, <1>4 DEF CompactionInv
<1>8. CASE CopyStaged
  <2>1. RowTypes'
    BY <1>1, <1>8 DEF RowTypes, CopyStaged
  <2>2. Unpolled'
    BY <1>1, <1>8 DEF Unpolled, CopyStaged
  <2>3. FilesStand'
    BY <1>1, <1>8 DEF FilesStand, CopyStaged, OfDay
  <2> QED
    BY <2>1, <2>2, <2>3, <1>4 DEF CompactionInv
<1>9. CASE DeleteStaged
  <2>1. RowTypes'
    BY <1>1, <1>2, <1>9 DEF RowTypes, DeleteStaged
  <2>2. Unpolled'
    BY <1>1, <1>9 DEF Unpolled, DeleteStaged
  <2>3. FilesStand'
    BY <1>1, <1>2, <1>9 DEF FilesStand, DeleteStaged, OfDay
  <2> QED
    BY <2>1, <2>2, <2>3, <1>4 DEF CompactionInv
<1>10. CASE NotSmaller \/ ChildFails
  <2>1. RowTypes'
    BY <1>1, <1>2, <1>10 DEF RowTypes, NotSmaller, ChildFails
  <2>2. Unpolled'
    BY <1>1, <1>10 DEF Unpolled, NotSmaller, ChildFails
  <2>3. FilesStand'
    BY <1>1, <1>2, <1>10 DEF FilesStand, NotSmaller, ChildFails, OfDay
  <2> QED
    BY <2>1, <2>2, <2>3, <1>4 DEF CompactionInv
<1> QED
  BY <1>5, <1>6, <1>7, <1>8, <1>9, <1>10

\* A file of the day has the visits of that day, and its outline.
LEMMA StandingSuffices ==
  ASSUME CompactionInv
  PROVE  CompactionUnseen
<1>1. /\ RowTypes /\ Unpolled /\ WorkStands /\ FilesStand
      /\ era \in {"dotted", "bare"}
      /\ rolled \in Tables /\ partition \in Tables /\ hot \in Tables /\ staging \in Tables
  BY DEF CompactionInv, RowTypes
<1>2. CompactionTypeOK
  <2>1. \A rows \in Tables : \A i \in DOMAIN rows, c \in TimeColumns : rows[i][c] \in Nat \cup {Null}
    BY DEF Tables, Row
  <2> QED
    BY <2>1, <1>1 DEF CompactionTypeOK, RowTypes
<1>3. \A n \in 0..Len(rolled) : Upto(rolled, n) \in Rollups /\ Upto(rolled, n) \in Tables
  BY <1>1, PrefixFacts DEF Rollups, Upto
<1>4. CompactionKeepsKeys
  <2> SUFFICES ASSUME NEW rows \in {partition, hot, staging}
               PROVE  \E day \in Rollups : Outline(rows) = Outline(day)
    BY DEF CompactionKeepsKeys
  <2>1. PICK n \in 0..Len(rolled) : Standing(rows, Upto(rolled, n))
    BY <1>1 DEF FilesStand, OfDay
  <2>2. Outline(rows) = Outline(Upto(rolled, n))
    BY <1>1, <1>3, <2>1, SameOutline
  <2> QED
    BY <1>3, <2>2
<1>5. MartsIndifferent
  <2> SUFFICES ASSUME \A i \in DOMAIN rolled : Settled(rolled, rolled[i].key)
               PROVE  /\ step # "idle" => Visits(partition) = Visits(rolled)
                      /\ \A rows \in {hot, staging} :
                           \E day \in Rollups : Visits(rows) = Visits(day)
    BY DEF MartsIndifferent
  <2>1. \A k : Settled(rolled, k)
    <3> TAKE k
    <3>1. CASE \E i \in Candidates(rolled) : rolled[i].key = k
      BY <3>1, <1>1, Typing
    <3>2. CASE ~ \E i \in Candidates(rolled) : rolled[i].key = k
      BY <3>2 DEF Settled
    <3> QED
      BY <3>1, <3>2
  <2>2. \A n \in 0..Len(rolled) : \A k : Settled(Upto(rolled, n), k)
    <3> TAKE n \in 0..Len(rolled)
    <3> TAKE k
    <3> DEFINE pre == Upto(rolled, n)
    <3>1. \A i \in Candidates(pre) : i \in Candidates(rolled) /\ pre[i] = rolled[i]
      BY <1>1, PrefixFacts
    <3> HIDE DEF pre
    <3> QED
      BY <2>1, <3>1 DEF Settled, pre
  <2>3. step # "idle" => Visits(partition) = Visits(rolled)
    BY <1>1, <2>1, Bounds, SameVisits DEF WorkStands
  <2>4. ASSUME NEW rows \in {hot, staging}
        PROVE  \E day \in Rollups : Visits(rows) = Visits(day)
    <3>1. PICK n \in 0..Len(rolled) : Standing(rows, Upto(rolled, n))
      BY <1>1 DEF FilesStand, OfDay
    <3>2. Visits(rows) = Visits(Upto(rolled, n))
      BY <1>1, <1>3, <2>2, <3>1, Bounds, SameVisits
    <3> QED
      BY <1>3, <3>2
  <2> QED
    BY <2>3, <2>4
<1>6. CompactedStaysCompact
  <2> SUFFICES ASSUME era = "dotted"
               PROVE  LET once == CompactParquet(hot) IN
                      /\ ToSet(CompactParquet(once)) = ToSet(once)
                      /\ Len(CompactParquet(once)) = Len(once)
    BY DEF CompactedStaysCompact
  <2> DEFINE once == CompactParquet(hot)
             twice == CompactParquet(once)
  <2>1. once \in Tables /\ Compact(once)
    BY <1>1, Bounds, Compacted DEF Gathered
  <2> HIDE DEF once
  <2>2. twice \in Tables /\ Compact(twice) /\ ToSet(twice) = ToSet(once)
    BY <2>1, Bounds, Compacted DEF Gathered
  <2> HIDE DEF twice
  <2>3. Len(twice) = Len(once)
    BY <2>1, <2>2, CompactLength
  <2> QED
    BY <2>2, <2>3 DEF once, twice
<1> QED
  BY <1>2, <1>4, <1>5, <1>6 DEF CompactionUnseen

\* No reader can tell whether a day's trip updates were compacted: whatever
\* the rows, their number and the size of the batches, in whatever order the
\* batch rolls up, compacts, fails and ships, and either backfill takes the
\* object, replaces it or dies, each file of the day yields the keys and latest
\* times of a rollup of the day and, where the predictions settle, its visits.
THEOREM CompactionIsUnseen == CompactionSpec => []CompactionUnseen
<1>1. CompactionInit => CompactionInv
  BY InitStands
<1>2. CompactionInv /\ [CompactionNext]_compactionVars => CompactionInv'
  <2> SUFFICES ASSUME CompactionInv, [CompactionNext]_compactionVars
               PROVE  CompactionInv'
    OBVIOUS
  <2>1. CASE UNCHANGED compactionVars
    BY <2>1 DEF compactionVars, CompactionInv, RowTypes, Unpolled, WorkStands, FilesStand, OfDay
  <2>2. CASE CompactionNext
    BY <2>2, PollStands, BatchStands, BackfillStands DEF CompactionNext
  <2> QED
    BY <2>1, <2>2
<1>3. CompactionInv => CompactionUnseen
  BY StandingSuffices
<1> QED
  BY <1>1, <1>2, <1>3, PTL DEF CompactionSpec

================================================================================
