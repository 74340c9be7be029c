------------------------------- MODULE PollLoop -------------------------------
(***************************************************************************)
(* The poller's event loop (main.run): a heap of due times, a semaphore, a *)
(* rate limiter per agency and the health of each feed decide, whenever a  *)
(* feed comes due, whether it is polled and when it comes due again.       *)
(*                                                                         *)
(* The loop awaits only the next due time and, at the end, the polls in    *)
(* flight.  Nothing else runs between two awaits: answers are accounted    *)
(* for and signals are noticed only while it waits.                        *)
(***************************************************************************)
EXTENDS TokenBucket, FiniteSets

CONSTANTS
  Feeds,
  AgencyOf,            \* feed.agency_id
  Clients,             \* agencies whose client could be built
  Limited,             \* agencies with a rate limit
  Base,                \* poll_interval_seconds, per feed
  Workers,             \* --workers
  Polls,               \* --polls
  Jitter,              \* the most that a reschedule is moved, in ticks
  BackoffCap,          \* backoff_cap
  QuarantineAfter,     \* quarantine_after
  QuarantineInterval,  \* quarantine_interval
  Horizon              \* bound: the clock stops here

ASSUME LoopAssumption ==
  /\ IsFiniteSet(Feeds)
  /\ Base \in [Feeds -> Nat \ {0}]
  /\ Workers \in Nat \ {0}
  /\ Polls \in Nat
  /\ Jitter \in Nat
  /\ BackoffCap \in Nat \ {0}
  /\ QuarantineAfter \in Nat \ {0}
  /\ QuarantineInterval \in Nat \ {0}
  /\ Horizon \in Nat
  /\ Limited \subseteq Clients

VARIABLES
  clock,       \* time.monotonic
  heap,        \* Scheduler._heap
  current,     \* the entry popped and not yet rescheduled, in a set
  pc,          \* where the loop is
  stop,        \* the stop event
  permits,     \* the semaphore's value
  pollingNow,  \* polling_now
  inflight,    \* polls in flight, per feed
  failures,    \* FeedHealth._failures
  alerts,      \* quarantine alerts since the feed's last success
  tokens,      \* per limited agency, TokenBucket._tokens
  lastRefill,  \* per limited agency, TokenBucket._last_refill
  polls        \* iterations so far

schedule == <<heap, current, polls>>
gate     == <<permits, pollingNow, inflight>>
health   == <<failures, alerts>>
limiter  == <<tokens, lastRefill>>
vars     == <<clock, pc, stop, schedule, gate, health, limiter>>

Entry == [due : Nat, feed : Feeds]

\* The types of heap, semaphore, health and buckets.
LoopTypeOK ==
  /\ clock \in Nat
  /\ heap \in SUBSET Entry
  /\ current \in SUBSET Entry
  /\ pc \in {"pop", "wait", "dispatch", "gather", "exited"}
  /\ stop \in BOOLEAN
  /\ permits \in 0..Workers
  /\ pollingNow \in SUBSET Feeds
  /\ inflight \in [Feeds -> Nat]
  /\ failures \in [Feeds -> Nat]
  /\ alerts \in [Feeds -> Nat]
  /\ tokens \in [Limited -> 0..Capacity]
  /\ lastRefill \in [Limited -> 0..clock]
  /\ polls \in 0..Polls

\* First polls are spread over a full interval of each feed.
Init ==
  /\ clock = 0
  /\ \E due \in [Feeds -> UNION {0..Base[f] : f \in Feeds}] :
       /\ \A f \in Feeds : due[f] < Base[f]
       /\ heap = {[due |-> due[f], feed |-> f] : f \in Feeds}
  /\ current = {}
  /\ pc = "pop"
  /\ stop = FALSE
  /\ permits = Workers
  /\ pollingNow = {}
  /\ inflight = [f \in Feeds |-> 0]
  /\ failures = [f \in Feeds |-> 0]
  /\ alerts = [f \in Feeds |-> 0]
  /\ tokens = [a \in Limited |-> Capacity]
  /\ lastRefill = [a \in Limited |-> 0]
  /\ polls = 0

-----------------------------------------------------------------------------
(* FeedHealth.                                                             *)

Quarantined(f) == failures[f] >= QuarantineAfter

\* The interval before the feed's next poll, from its failures so far.
NextInterval(f) ==
  LET n == failures[f]
      backoff == Base[f] * 2^(n - 1)
  IN  CASE n = 0          -> Base[f]
        [] Quarantined(f) -> QuarantineInterval
        [] OTHER          -> IF backoff <= BackoffCap THEN backoff ELSE BackoffCap

RecordSuccess(f) ==
  /\ failures' = [failures EXCEPT ![f] = 0]
  /\ alerts' = [alerts EXCEPT ![f] = 0]

\* Mutant of RecordFailure: every failure of a quarantined feed alerts.
RecordFailureLoudly(f) ==
  /\ failures' = [failures EXCEPT ![f] = @ + 1]
  /\ alerts' = IF failures[f] + 1 >= QuarantineAfter
                 THEN [alerts EXCEPT ![f] = @ + 1]
                 ELSE alerts

\* The alert is raised on the failure that crosses into quarantine.
RecordFailure(f) ==
  /\ failures' = [failures EXCEPT ![f] = @ + 1]
  /\ alerts' = IF failures[f] + 1 = QuarantineAfter
                 THEN [alerts EXCEPT ![f] = @ + 1]
                 ELSE alerts

-----------------------------------------------------------------------------
(* The loop.                                                               *)

\* next_due: the earliest entry leaves the heap.  Due times that are equal
\* are taken in any order; the code takes them in the order they were pushed.
NextDue(e) ==
  /\ pc = "pop"
  /\ polls < Polls
  /\ e \in heap
  /\ \A d \in heap : e.due <= d.due
  /\ heap' = heap \ {e}
  /\ current' = {e}
  /\ pc' = IF e.due > clock THEN "wait" ELSE "dispatch"
  /\ UNCHANGED <<clock, stop, polls, gate, health, limiter>>

LoopOver ==
  /\ pc = "pop"
  /\ polls = Polls
  /\ pc' = "gather"
  /\ UNCHANGED <<clock, stop, schedule, gate, health, limiter>>

\* Mutant of Waited: the stop event ends the wait and is not looked at.
WaitedUnaware ==
  /\ pc = "wait"
  /\ stop \/ \A e \in current : e.due <= clock
  /\ pc' = "dispatch"
  /\ UNCHANGED <<clock, stop, schedule, gate, health, limiter>>

\* The wait for the due time ends, or the stop event ends it.
Waited ==
  /\ pc = "wait"
  /\ stop \/ \A e \in current : e.due <= clock
  /\ pc' = IF stop THEN "gather" ELSE "dispatch"
  /\ UNCHANGED <<clock, stop, schedule, gate, health, limiter>>

\* mark_polled, on every path: the feed is due again after its interval.
\* The iteration is counted.
MarkPolled(f) ==
  /\ \E j \in -Jitter..Jitter :
       LET wait == NextInterval(f) + j
       IN  /\ wait \in Nat \ {0}
           /\ heap' = heap \cup {[due |-> clock + wait, feed |-> f]}
  /\ current' = {}
  /\ polls' = polls + 1
  /\ pc' = "pop"

Dispatching(f) == pc = "dispatch" /\ \E e \in current : e.feed = f

\* Mutant of Shed: the feed is due again at once.
ShedAndRetry(f) ==
  /\ Dispatching(f)
  /\ permits = 0
  /\ heap' = heap \cup current
  /\ current' = {}
  /\ pc' = "pop"
  /\ UNCHANGED <<clock, stop, polls, gate, health, limiter>>

\* No worker is free: this cycle is skipped.
Shed(f) ==
  /\ Dispatching(f)
  /\ permits = 0
  /\ MarkPolled(f)
  /\ UNCHANGED <<clock, stop, gate, health, limiter>>

\* Mutant of Overrun: the feed is not rescheduled.
OverrunAndForget(f) ==
  /\ Dispatching(f)
  /\ permits > 0
  /\ f \in pollingNow
  /\ current' = {}
  /\ polls' = polls + 1
  /\ pc' = "pop"
  /\ UNCHANGED <<clock, stop, heap, gate, health, limiter>>

\* The feed's last poll is still in flight.
Overrun(f) ==
  /\ Dispatching(f)
  /\ permits > 0
  /\ f \in pollingNow
  /\ MarkPolled(f)
  /\ UNCHANGED <<clock, stop, gate, health, limiter>>

\* Mutant of Free: an overrun is not looked for.
FreeAlways(f) == Dispatching(f) /\ permits > 0

\* A worker is free and the feed is not being polled.
Free(f) == Dispatching(f) /\ permits > 0 /\ f \notin pollingNow

\* The agency's client was never built: the lookup raises out of the loop.
NoClient(f) ==
  /\ Free(f)
  /\ AgencyOf[f] \notin Clients
  /\ pc' = "gather"
  /\ UNCHANGED <<clock, stop, schedule, gate, health, limiter>>

\* What the bucket of a limited agency holds when it is asked.
Held(a) == Refilled(tokens[a], clock - lastRefill[a])

RateLimited(f) ==
  LET a == AgencyOf[f]
  IN  /\ Free(f)
      /\ a \in Limited
      /\ Held(a) < Cost
      /\ tokens' = [tokens EXCEPT ![a] = Held(a)]
      /\ lastRefill' = [lastRefill EXCEPT ![a] = clock]
      /\ MarkPolled(f)
      /\ UNCHANGED <<clock, stop, gate, health>>

\* A task is created for the poll; it starts when the loop next waits.
StartPoll(f) ==
  LET a == AgencyOf[f]
  IN  /\ Free(f)
      /\ a \in Clients
      /\ IF a \in Limited
           THEN /\ Held(a) >= Cost
                /\ tokens' = [tokens EXCEPT ![a] = Held(a) - Cost]
                /\ lastRefill' = [lastRefill EXCEPT ![a] = clock]
           ELSE UNCHANGED limiter
      /\ permits' = permits - 1
      /\ pollingNow' = pollingNow \cup {f}
      /\ inflight' = [inflight EXCEPT ![f] = @ + 1]
      /\ MarkPolled(f)
      /\ UNCHANGED <<clock, stop, health>>

-----------------------------------------------------------------------------
(* What happens while the loop waits.                                      *)

Waiting == pc \in {"wait", "gather"}

\* Mutant of Release: the slot is kept when the archiver itself failed.
ReleaseUnlessNone(f, outcome) ==
  /\ inflight' = [inflight EXCEPT ![f] = @ - 1]
  /\ pollingNow' = pollingNow \ {f}
  /\ permits' = IF outcome = "none" THEN permits ELSE permits + 1

Release(f, outcome) ==
  /\ inflight' = [inflight EXCEPT ![f] = @ - 1]
  /\ pollingNow' = pollingNow \ {f}
  /\ permits' = permits + 1

\* _on_done: a poll ends.  Failures of the archiver itself ("none") say
\* nothing about the feed.
OnDone(f, outcome) ==
  /\ Waiting
  /\ inflight[f] > 0
  /\ Release(f, outcome)
  /\ CASE outcome = "ok"     -> RecordSuccess(f)
       [] outcome = "failed" -> RecordFailure(f)
       [] outcome = "none"   -> UNCHANGED health
  /\ UNCHANGED <<clock, pc, stop, schedule, limiter>>

Signal ==
  /\ Waiting
  /\ ~stop
  /\ stop' = TRUE
  /\ UNCHANGED <<clock, pc, schedule, gate, health, limiter>>

\* Mutant of Gathered: the loop does not wait for the polls in flight.
NotGathered ==
  /\ pc = "gather"
  /\ pc' = "exited"
  /\ UNCHANGED <<clock, stop, schedule, gate, health, limiter>>

Gathered ==
  /\ pc = "gather"
  /\ \A f \in Feeds : inflight[f] = 0
  /\ pc' = "exited"
  /\ UNCHANGED <<clock, stop, schedule, gate, health, limiter>>

Tick ==
  /\ clock < Horizon
  /\ clock' = clock + 1
  /\ UNCHANGED <<pc, stop, schedule, gate, health, limiter>>

Dispatch(f) ==
  Shed(f) \/ Overrun(f) \/ NoClient(f) \/ RateLimited(f) \/ StartPoll(f)

Loop ==
  \/ \E e \in heap : NextDue(e)
  \/ LoopOver
  \/ Waited
  \/ \E f \in Feeds : Dispatch(f)
  \/ Gathered

Answer == \E f \in Feeds, outcome \in {"ok", "failed", "none"} : OnDone(f, outcome)

Next == Loop \/ Answer \/ Signal \/ Tick

Spec == Init /\ [][Next]_vars

\* The loop runs, time passes, and each poll ends: requests have timeouts.
Fairness ==
  /\ WF_vars(Loop)
  /\ WF_vars(Tick)
  /\ \A f \in Feeds :
       WF_vars(\E outcome \in {"ok", "failed", "none"} : OnDone(f, outcome))

FairSpec == Spec /\ Fairness

-----------------------------------------------------------------------------

Gate == INSTANCE PollGate WITH polling <- inflight, free <- permits

\* Two polls of one feed never overlap and no more polls are in flight than
\* there are workers, whichever of the semaphore, polling_now and the tasks'
\* callbacks is looked at when.
GateKept == Gate!Spec

\* No slot leaks or is freed twice, on any path through _on_done.
SlotsAddUp ==
  /\ permits + Cardinality(pollingNow) = Workers
  /\ \A f \in Feeds : inflight[f] = IF f \in pollingNow THEN 1 ELSE 0

\* Each feed is in the schedule exactly once: a skipped, overrun, limited or
\* failing feed is neither dropped nor doubled.
FeedsStayScheduled ==
  /\ \A f \in Feeds : \E e \in heap \cup current : e.feed = f
  /\ \A d, e \in heap \cup current : d.feed = e.feed => d = e

\* "Returns True exactly on the poll that crosses into quarantine, so the
\* caller can emit the quarantine alert once": one alert for each quarantine.
OneAlertPerQuarantine ==
  \A f \in Feeds : alerts[f] = IF Quarantined(f) THEN 1 ELSE 0

\* After the stop event no poll is started.
StopStartsNothing ==
  [][stop => \A f \in Feeds : inflight'[f] <= inflight[f]]_vars

\* The loop is left only when every poll it started is accounted for, also
\* when an exception ends it: what the exit stack closes next is not in use.
NothingInFlightAtExit ==
  pc = "exited" => \A f \in Feeds : inflight[f] = 0 /\ permits = Workers

\* No feed starves the schedule: until the loop ends every feed comes up each
\* time it is due, however long the polls of other feeds take.
EveryFeedComesUp ==
  \A f \in Feeds :
    <>(pc = "exited" \/ \E e \in heap : e.feed = f /\ e.due > Horizon)

\* "Without taking the whole box down" (build_agency_clients): an agency
\* without a client does not end the loop.
OnlyStopEndsTheLoop == pc = "exited" => stop \/ polls = Polls

=============================================================================
