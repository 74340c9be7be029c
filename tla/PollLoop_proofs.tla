----------------------------- MODULE PollLoop_proofs -----------------------------
(***************************************************************************)
(* What holds of the poll loop for any feeds, intervals, number of workers *)
(* and limits.                                                             *)
(***************************************************************************)
EXTENDS PollLoop, FiniteSetTheorems, TLAPS

\* The iteration count is only bounded, and a feed's entry only unique,
\* because of where the loop is when an entry is out of the heap.
ScheduleInv ==
  /\ pc = "pop" => current = {}
  /\ pc \in {"wait", "dispatch"} => polls < Polls
  /\ \A d, e \in current : d = e
  /\ heap \cap current = {}
  /\ FeedsStayScheduled

LoopInv == LoopTypeOK /\ SlotsAddUp /\ ScheduleInv

\* A bucket holds no more than its capacity, whenever it is looked at.
LEMMA HeldType ==
  ASSUME LoopTypeOK, NEW a \in Limited
  PROVE  Held(a) \in 0..Capacity
<1>1. tokens[a] \in 0..Capacity /\ clock - lastRefill[a] \in Nat
  BY DEF LoopTypeOK
<1>2. \A m \in Nat : m * Refill \in Nat
  BY BucketAssumption
<1>3. \A n \in Nat : tokens[a] + n \in Nat
  BY <1>1, BucketAssumption
<1> QED
  BY <1>1, <1>2, <1>3, BucketAssumption DEF Held, Refilled

\* A slot is taken, or freed.
LEMMA SlotTaken ==
  ASSUME LoopTypeOK, SlotsAddUp, NEW f \in Feeds, f \notin pollingNow,
         permits > 0
  PROVE  /\ permits - 1 \in 0..Workers
         /\ permits - 1 + Cardinality(pollingNow \cup {f}) = Workers
<1>1. IsFiniteSet(pollingNow)
  BY LoopAssumption, FS_Subset DEF LoopTypeOK
<1>2. Cardinality(pollingNow) \in Nat
  BY <1>1, FS_CardinalityType
<1>3. Cardinality(pollingNow \cup {f}) = Cardinality(pollingNow) + 1
  BY <1>1, FS_AddElement
<1> QED
  BY <1>2, <1>3, LoopAssumption DEF LoopTypeOK, SlotsAddUp

\* A poll that ends gives back one slot, its own.
LEMMA SlotFreed ==
  ASSUME LoopTypeOK, SlotsAddUp, NEW f \in Feeds, f \in pollingNow
  PROVE  /\ permits + 1 \in 0..Workers
         /\ permits + 1 + Cardinality(pollingNow \ {f}) = Workers
<1>1. IsFiniteSet(pollingNow)
  BY LoopAssumption, FS_Subset DEF LoopTypeOK
<1>2. IsFiniteSet(pollingNow \ {f})
  BY <1>1, FS_Subset
<1>3. Cardinality(pollingNow \ {f}) \in Nat
  BY <1>2, FS_CardinalityType
<1>4. Cardinality(pollingNow \ {f}) = Cardinality(pollingNow) - 1
  BY <1>1, FS_RemoveElement
<1>5. Cardinality(pollingNow) \in Nat
  BY <1>1, FS_CardinalityType
<1> QED
  BY <1>3, <1>4, <1>5, LoopAssumption DEF LoopTypeOK, SlotsAddUp

\* mark_polled puts the feed that is out of the heap back, once.
LEMMA Rescheduled ==
  ASSUME LoopInv, NEW f \in Feeds, Dispatching(f), MarkPolled(f)
  PROVE  /\ ScheduleInv'
         /\ heap' \in SUBSET Entry
         /\ current' = {}
         /\ polls' \in 0..Polls
         /\ pc' = "pop"
<1>1. PICK e \in current : e.feed = f
  BY DEF Dispatching
<1>2. PICK n : /\ n \in Entry
               /\ n.feed = f
               /\ heap' = heap \cup {n}
  <2>1. PICK j \in -Jitter..Jitter :
          /\ NextInterval(f) + j \in Nat \ {0}
          /\ heap' = heap \cup {[due |-> clock + (NextInterval(f) + j), feed |-> f]}
    BY DEF MarkPolled
  <2>2. [due |-> clock + (NextInterval(f) + j), feed |-> f] \in Entry
    BY <2>1 DEF LoopInv, LoopTypeOK, Entry
  <2> QED
    BY <2>1, <2>2
<1>3. current' = {} /\ pc' = "pop"
  BY DEF MarkPolled
<1>4. polls' \in 0..Polls
  BY LoopAssumption DEF LoopInv, LoopTypeOK, ScheduleInv, Dispatching, MarkPolled
<1>5. current = {e}
  BY DEF LoopInv, ScheduleInv
<1>6. \A d \in heap : d.feed # f
  BY <1>1, <1>5 DEF LoopInv, ScheduleInv, FeedsStayScheduled
<1>7. FeedsStayScheduled'
  BY <1>1, <1>2, <1>3, <1>5, <1>6 DEF LoopInv, ScheduleInv, FeedsStayScheduled
<1>8. heap' \in SUBSET Entry
  BY <1>2 DEF LoopInv, LoopTypeOK
<1> QED
  BY <1>3, <1>4, <1>7, <1>8 DEF ScheduleInv

\* The loop starts with its invariant.
LEMMA LoopInit ==
  ASSUME Init
  PROVE  LoopInv
<1>1. PICK due \in [Feeds -> UNION {0..Base[f] : f \in Feeds}] :
        heap = {[due |-> due[f], feed |-> f] : f \in Feeds}
  BY DEF Init
<1>2. \A f \in Feeds : due[f] \in Nat
  <2>1. UNION {0..Base[f] : f \in Feeds} \subseteq Nat
    BY LoopAssumption
  <2> QED
    BY <2>1
<1>3. heap \in SUBSET Entry
  BY <1>1, <1>2 DEF Entry
<1>4. SlotsAddUp
  <2>1. Cardinality({}) = 0
    BY FS_EmptySet
  <2> QED
    BY <2>1, LoopAssumption DEF Init, SlotsAddUp
<1>5. ScheduleInv
  <2>1. current = {} /\ pc = "pop"
    BY DEF Init
  <2>2. heap \cup current = {[due |-> due[f], feed |-> f] : f \in Feeds}
    BY <1>1, <2>1
  <2>3. \A f \in Feeds : [due |-> due[f], feed |-> f] \in heap \cup current
    BY <2>2
  <2>4. \A d, e \in heap \cup current : d.feed = e.feed => d = e
    BY <2>2
  <2>5. FeedsStayScheduled
    BY <2>3, <2>4 DEF FeedsStayScheduled
  <2> QED
    BY <2>1, <2>5 DEF ScheduleInv
<1>6. tokens \in [Limited -> 0..Capacity] /\ lastRefill \in [Limited -> 0..clock]
  BY BucketAssumption DEF Init
<1>7. stop \in BOOLEAN
  BY Zenon DEF Init
<1>8. /\ inflight \in [Feeds -> Nat]
      /\ failures \in [Feeds -> Nat]
      /\ alerts \in [Feeds -> Nat]
  BY DEF Init
<1>9. permits \in 0..Workers /\ polls \in 0..Polls
  BY LoopAssumption DEF Init
<1>12. clock \in Nat
  BY DEF Init
<1>10. current = {} /\ pc = "pop" /\ pollingNow = {}
  BY DEF Init
<1>11. LoopTypeOK
  BY <1>3, <1>6, <1>7, <1>8, <1>9, <1>10, <1>12 DEF LoopTypeOK
<1> QED
  BY <1>4, <1>5, <1>11 DEF LoopInv

\* Every step of the loop, its polls and its signals keeps the invariant.
LEMMA LoopStep ==
  ASSUME LoopInv, [Next]_vars
  PROVE  LoopInv'
<1> USE DEF LoopInv, schedule, gate, health, limiter
<1>1. ASSUME NEW e \in heap, NextDue(e)
      PROVE  LoopInv'
  <2>1. heap' \cup current' = heap \cup current /\ current' = {e}
    BY <1>1 DEF NextDue, ScheduleInv
  <2>2. ScheduleInv'
    BY <1>1, <2>1, LoopAssumption
       DEF NextDue, ScheduleInv, FeedsStayScheduled, LoopTypeOK
  <2>3. SlotsAddUp'
    BY <1>1 DEF NextDue, SlotsAddUp
  <2> QED
    BY <1>1, <2>2, <2>3 DEF NextDue, LoopTypeOK
<1>2. CASE LoopOver \/ Waited \/ Gathered
  BY <1>2 DEF LoopOver, Waited, Gathered, ScheduleInv, FeedsStayScheduled,
              SlotsAddUp, LoopTypeOK
<1>3. ASSUME NEW f \in Feeds, Shed(f) \/ Overrun(f)
      PROVE  LoopInv'
  <2>1. /\ Dispatching(f) /\ MarkPolled(f)
        /\ UNCHANGED <<clock, stop, gate, health, limiter>>
    BY <1>3 DEF Shed, Overrun
  <2>2. SlotsAddUp'
    BY <2>1 DEF SlotsAddUp
  <2> QED
    BY <2>1, <2>2, Rescheduled DEF LoopTypeOK
<1>4. ASSUME NEW f \in Feeds, NoClient(f)
      PROVE  LoopInv'
  BY <1>4 DEF NoClient, ScheduleInv, FeedsStayScheduled, SlotsAddUp, LoopTypeOK
<1>5. ASSUME NEW f \in Feeds, RateLimited(f)
      PROVE  LoopInv'
  <2>1. /\ Dispatching(f) /\ MarkPolled(f)
        /\ UNCHANGED <<clock, stop, gate, health>>
    BY <1>5 DEF RateLimited, Free
  <2>2. /\ tokens' \in [Limited -> 0..Capacity]
        /\ lastRefill' \in [Limited -> 0..clock]
    BY <1>5, HeldType DEF RateLimited, LoopTypeOK
  <2>3. SlotsAddUp'
    BY <2>1 DEF SlotsAddUp
  <2> QED
    BY <2>1, <2>2, <2>3, Rescheduled DEF LoopTypeOK
<1>6. ASSUME NEW f \in Feeds, StartPoll(f)
      PROVE  LoopInv'
  <2>1. /\ Dispatching(f) /\ MarkPolled(f)
        /\ permits > 0 /\ f \notin pollingNow
        /\ permits' = permits - 1
        /\ pollingNow' = pollingNow \cup {f}
        /\ inflight' = [inflight EXCEPT ![f] = @ + 1]
        /\ UNCHANGED <<clock, stop, health>>
    BY <1>6 DEF StartPoll, Free
  <2>2. /\ tokens' \in [Limited -> 0..Capacity]
        /\ lastRefill' \in [Limited -> 0..clock]
    <3>1. CASE AgencyOf[f] \in Limited
      <4>1. Held(AgencyOf[f]) \in 0..Capacity
        BY <3>1, HeldType
      <4>2. Held(AgencyOf[f]) - Cost \in 0..Capacity
        BY <1>6, <3>1, <4>1, BucketAssumption DEF StartPoll
      <4> QED
        BY <1>6, <3>1, <4>2 DEF StartPoll, LoopTypeOK
    <3>2. CASE AgencyOf[f] \notin Limited
      BY <1>6, <3>2 DEF StartPoll, LoopTypeOK
    <3> QED
      BY <3>1, <3>2
  <2>3. permits' \in 0..Workers /\ SlotsAddUp'
    BY <2>1, SlotTaken DEF SlotsAddUp, LoopTypeOK
  <2>4. inflight' \in [Feeds -> Nat]
    BY <2>1 DEF LoopTypeOK
  <2> QED
    BY <2>1, <2>2, <2>3, <2>4, Rescheduled DEF LoopTypeOK
<1>7. ASSUME NEW f \in Feeds, NEW outcome \in {"ok", "failed", "none"},
             OnDone(f, outcome)
      PROVE  LoopInv'
  <2>1. f \in pollingNow /\ inflight[f] = 1
    BY <1>7 DEF OnDone, SlotsAddUp
  <2>2. /\ permits' = permits + 1
        /\ pollingNow' = pollingNow \ {f}
        /\ inflight' = [inflight EXCEPT ![f] = @ - 1]
        /\ UNCHANGED <<clock, pc, stop, schedule, limiter>>
    BY <1>7 DEF OnDone, Release
  <2>3. permits' \in 0..Workers /\ SlotsAddUp'
    <3>1. pollingNow' \in SUBSET Feeds
      BY <2>2 DEF LoopTypeOK
    <3>2. /\ permits + 1 \in 0..Workers
          /\ permits + 1 + Cardinality(pollingNow \ {f}) = Workers
      BY <2>1, SlotFreed
    <3>3. \A g \in Feeds :
            inflight'[g] = IF g \in pollingNow' THEN 1 ELSE 0
      BY <2>1, <2>2 DEF SlotsAddUp, LoopTypeOK
    <3> QED
      BY <2>2, <3>2, <3>3 DEF SlotsAddUp
  <2>4. inflight' \in [Feeds -> Nat]
    <3>1. inflight[f] - 1 \in Nat
      BY <2>1
    <3> QED
      BY <2>2, <3>1 DEF LoopTypeOK
  <2>5. failures' \in [Feeds -> Nat] /\ alerts' \in [Feeds -> Nat]
    <3>1. RecordSuccess(f) \/ RecordFailure(f) \/ UNCHANGED health
      BY <1>7 DEF OnDone
    <3> QED
      BY <3>1 DEF RecordSuccess, RecordFailure, LoopTypeOK
  <2>6. ScheduleInv'
    BY <2>2 DEF ScheduleInv, FeedsStayScheduled
  <2> QED
    BY <2>2, <2>3, <2>4, <2>5, <2>6 DEF LoopTypeOK
<1>8. CASE Signal
  BY <1>8 DEF Signal, ScheduleInv, FeedsStayScheduled, SlotsAddUp, LoopTypeOK
<1>9. CASE Tick
  BY <1>9 DEF Tick, ScheduleInv, FeedsStayScheduled, SlotsAddUp, LoopTypeOK
<1>10. CASE UNCHANGED vars
  BY <1>10 DEF vars, ScheduleInv, FeedsStayScheduled, SlotsAddUp, LoopTypeOK
<1> QED
  BY <1>1, <1>2, <1>3, <1>4, <1>5, <1>6, <1>7, <1>8, <1>9, <1>10
     DEF Next, Loop, Dispatch, Answer

\* Types, slots and schedule are preserved together: that a slot can be freed
\* rests on the slots adding up, and that no iteration is one too many on
\* where the loop is.
THEOREM LoopInvariance == Spec => []LoopInv
<1>1. Init => LoopInv
  BY LoopInit
<1>2. LoopInv /\ [Next]_vars => LoopInv'
  BY LoopStep
<1> QED
  BY <1>1, <1>2, PTL DEF Spec

\* Heap, semaphore, health and buckets keep their types on every path.
THEOREM LoopTypeCorrect == Spec => []LoopTypeOK
<1>1. LoopInv => LoopTypeOK
  BY DEF LoopInv
<1> QED
  BY <1>1, LoopInvariance, PTL

\* For any number of feeds and workers: no slot leaks or is freed twice.
THEOREM SlotsNeverLeak == Spec => []SlotsAddUp
<1>1. LoopInv => SlotsAddUp
  BY DEF LoopInv
<1> QED
  BY <1>1, LoopInvariance, PTL

\* For any feeds and intervals: each feed is in the schedule exactly once.
THEOREM NoFeedIsDropped == Spec => []FeedsStayScheduled
<1>1. LoopInv => FeedsStayScheduled
  BY DEF LoopInv, ScheduleInv
<1> QED
  BY <1>1, LoopInvariance, PTL

-----------------------------------------------------------------------------
(* The loop implements the gate.                                           *)

\* Every step of the loop is one of the gate, or stutters.
LEMMA GateStep ==
  ASSUME LoopInv, [Next]_vars
  PROVE  [Gate!Next]_<<inflight, permits>>
<1> USE DEF LoopInv, schedule, gate, health, limiter
<1>1. ASSUME NEW f \in Feeds, StartPoll(f)
      PROVE  Gate!Next
  <2>1. /\ permits > 0 /\ f \notin pollingNow
        /\ permits' = permits - 1
        /\ inflight' = [inflight EXCEPT ![f] = @ + 1]
    BY <1>1 DEF StartPoll, Free
  <2>2. inflight[f] = 0 /\ inflight[f] + 1 = 1
    BY <2>1 DEF SlotsAddUp
  <2>3. Gate!Start(f)
    BY <2>1, <2>2 DEF Gate!Start
  <2> QED
    BY <2>3 DEF Gate!Next
<1>2. ASSUME NEW f \in Feeds, NEW outcome \in {"ok", "failed", "none"},
             OnDone(f, outcome)
      PROVE  Gate!Next
  <2>1. /\ inflight[f] = 1 /\ inflight[f] - 1 = 0
        /\ inflight' = [inflight EXCEPT ![f] = @ - 1]
        /\ permits' = permits + 1
    BY <1>2 DEF OnDone, Release, SlotsAddUp
  <2>2. Gate!End(f)
    BY <2>1 DEF Gate!End
  <2> QED
    BY <2>2 DEF Gate!Next
<1>3. ASSUME \/ \E e \in heap : NextDue(e)
             \/ LoopOver \/ Waited \/ Gathered \/ Signal \/ Tick
             \/ \E f \in Feeds : Shed(f) \/ Overrun(f) \/ NoClient(f)
                                \/ RateLimited(f)
             \/ UNCHANGED vars
      PROVE  UNCHANGED <<inflight, permits>>
  BY <1>3 DEF NextDue, LoopOver, Waited, Gathered, Signal, Tick, Shed, Overrun,
              NoClient, RateLimited, vars
<1> QED
  BY <1>1, <1>2, <1>3 DEF Next, Loop, Dispatch, Answer

\* For any feeds and workers: polls of one feed never overlap, and no more are
\* in flight than there are workers.
THEOREM LoopKeepsGate == Spec => GateKept
<1>1. Init => Gate!Init
  BY DEF Init, Gate!Init
<1>2. LoopInv /\ [Next]_vars => [Gate!Next]_<<inflight, permits>>
  BY GateStep
<1> QED
  BY <1>1, <1>2, LoopInvariance, PTL DEF Spec, GateKept, Gate!Spec, Gate!gate

-----------------------------------------------------------------------------
(* Alerts.                                                                 *)

\* For any quarantine threshold: a feed that enters quarantine raises one
\* alert, and none until it has recovered.
THEOREM AlertsOnce == Spec => []OneAlertPerQuarantine
<1>1. Init => OneAlertPerQuarantine
  BY LoopAssumption DEF Init, OneAlertPerQuarantine, Quarantined
<1>2. LoopTypeOK /\ OneAlertPerQuarantine /\ [Next]_vars
        => OneAlertPerQuarantine'
  <2> SUFFICES ASSUME LoopTypeOK, OneAlertPerQuarantine, [Next]_vars
               PROVE  OneAlertPerQuarantine'
    OBVIOUS
  <2> USE DEF OneAlertPerQuarantine, Quarantined
  <2>1. ASSUME NEW f \in Feeds, NEW outcome \in {"ok", "failed", "none"},
               OnDone(f, outcome)
        PROVE  OneAlertPerQuarantine'
    <3>1. CASE RecordSuccess(f)
      BY <3>1, LoopAssumption DEF RecordSuccess, LoopTypeOK
    <3>2. CASE RecordFailure(f)
      <4>1. \A g \in Feeds : g # f => /\ failures'[g] = failures[g]
                                      /\ alerts'[g] = alerts[g]
        BY <3>2 DEF RecordFailure, LoopTypeOK
      <4>2. failures'[f] = failures[f] + 1 /\ failures[f] \in Nat
        BY <3>2 DEF RecordFailure, LoopTypeOK
      <4>3. alerts'[f] = IF failures[f] + 1 = QuarantineAfter
                           THEN alerts[f] + 1 ELSE alerts[f]
        BY <3>2 DEF RecordFailure, LoopTypeOK
      <4>4. alerts'[f] = IF failures'[f] >= QuarantineAfter THEN 1 ELSE 0
        BY <4>2, <4>3, LoopAssumption DEF LoopTypeOK
      <4> QED
        BY <4>1, <4>4
    <3>3. CASE UNCHANGED health
      BY <3>3 DEF health
    <3> QED
      BY <2>1, <3>1, <3>2, <3>3 DEF OnDone
  <2>2. ASSUME \/ Loop \/ Signal \/ Tick \/ UNCHANGED vars
        PROVE  UNCHANGED health
    BY <2>2 DEF Loop, NextDue, LoopOver, Waited, Gathered, Signal, Tick,
                Dispatch, Shed, Overrun, NoClient, RateLimited, StartPoll, vars
  <2> QED
    BY <2>1, <2>2 DEF Next, Answer, health
<1>3. LoopInv => LoopTypeOK
  BY DEF LoopInv
<1> QED
  BY <1>1, <1>2, <1>3, LoopInvariance, PTL DEF Spec

-----------------------------------------------------------------------------
(* Stopping.                                                               *)

\* The stop event is only noticed, and only set, where the loop waits.
StopInv ==
  /\ stop => pc \in {"wait", "gather", "exited"}
  /\ NothingInFlightAtExit

\* Both are kept, whatever the schedule.
LEMMA StopKept == Spec => [](LoopInv /\ StopInv)
<1> USE DEF StopInv, NothingInFlightAtExit, schedule, gate, health, limiter
<1>1. Init => StopInv
  BY DEF Init
<1>2. LoopInv /\ StopInv /\ [Next]_vars => StopInv'
  <2> SUFFICES ASSUME LoopInv, StopInv, [Next]_vars
               PROVE  StopInv'
    OBVIOUS
  <2>1. ASSUME NEW e \in heap, NextDue(e)
        PROVE  StopInv'
    BY <2>1 DEF NextDue
  <2>2. CASE LoopOver
    BY <2>2 DEF LoopOver
  <2>3. CASE Waited
    BY <2>3 DEF Waited
  <2>4. ASSUME NEW f \in Feeds, Dispatch(f)
        PROVE  StopInv'
    <3>1. pc = "dispatch" /\ pc' \in {"pop", "gather"} /\ UNCHANGED stop
      BY <2>4 DEF Dispatch, Shed, Overrun, NoClient, RateLimited, StartPoll,
                  Free, Dispatching, MarkPolled
    <3> QED
      BY <3>1
  <2>5. CASE Gathered
    <3>1. pollingNow = {}
      BY <2>5 DEF Gathered, LoopInv, SlotsAddUp, LoopTypeOK
    <3>2. permits = Workers
      BY <3>1, FS_EmptySet, LoopAssumption DEF LoopInv, SlotsAddUp, LoopTypeOK
    <3> QED
      BY <2>5, <3>2 DEF Gathered
  <2>6. CASE Answer
    BY <2>6 DEF Answer, OnDone, Waiting
  <2>7. CASE Signal
    BY <2>7 DEF Signal, Waiting
  <2>8. CASE Tick \/ UNCHANGED vars
    BY <2>8 DEF Tick, vars
  <2> QED
    BY <2>1, <2>2, <2>3, <2>4, <2>5, <2>6, <2>7, <2>8 DEF Next, Loop
<1> QED
  BY <1>1, <1>2, LoopInvariance, PTL DEF Spec

\* For any schedule: the loop is left, in order or by an exception, only with
\* every poll accounted for (main.py, run).
THEOREM StopsCleanly == Spec => []NothingInFlightAtExit
<1>1. StopInv => NothingInFlightAtExit
  BY DEF StopInv
<1> QED
  BY <1>1, StopKept, PTL

\* For any schedule: once stopped the loop starts no poll; polls in flight only
\* end (main.py, run).
THEOREM StoppedStaysStopped == Spec => StopStartsNothing
<1> USE DEF StopInv, schedule, gate, health, limiter
<1>1. LoopInv /\ StopInv /\ [Next]_vars
        => [stop => \A f \in Feeds : inflight'[f] <= inflight[f]]_vars
  <2> SUFFICES ASSUME LoopInv, StopInv, Next, stop, NEW f \in Feeds
               PROVE  inflight'[f] <= inflight[f]
    OBVIOUS
  <2>1. inflight \in [Feeds -> Nat]
    BY DEF LoopInv, LoopTypeOK
  <2>2. CASE Answer
    BY <2>1, <2>2 DEF Answer, OnDone, Release
  <2>3. \A g \in Feeds : ~Dispatch(g)
    BY DEF Dispatch, Shed, Overrun, NoClient, RateLimited, StartPoll, Free,
           Dispatching
  <2>4. ASSUME ~Answer
        PROVE  UNCHANGED inflight
    BY <2>3, <2>4 DEF Next, Loop, NextDue, LoopOver, Waited, Gathered, Signal,
                      Tick
  <2> QED
    BY <2>1, <2>2, <2>4
<1> QED
  BY <1>1, StopKept, PTL DEF Spec, StopStartsNothing

=============================================================================
