------------------------------- MODULE RateLimit -------------------------------
(***************************************************************************)
(* One TokenBucket under requests at arbitrary times, with an observer     *)
(* that starts to count grants at an arbitrary moment.  Whatever moment    *)
(* that is, the requests granted since are those the bucket could hold     *)
(* then and those minted since: the agency's limit over every period, and  *)
(* not only on average.                                                    *)
(***************************************************************************)
EXTENDS TokenBucket

CONSTANT RateHorizon      \* bound: the clock stops here

ASSUME RateHorizonAssumption == RateHorizon \in Nat

VARIABLES
  clock,       \* time.monotonic
  tokens,      \* _tokens, in units
  lastRefill,  \* _last_refill
  observed,    \* the observer counts
  since,       \* when it started
  granted      \* requests granted since

rateVars == <<clock, tokens, lastRefill, observed, since, granted>>

\* The types; the bucket holds between nothing and its capacity.
RateTypeOK ==
  /\ clock \in Nat
  /\ tokens \in 0..Capacity
  /\ lastRefill \in 0..clock
  /\ observed \in BOOLEAN
  /\ since \in 0..clock
  /\ granted \in Nat

RateInit ==
  /\ clock = 0
  /\ tokens = Capacity
  /\ lastRefill = 0
  /\ observed = FALSE
  /\ since = 0
  /\ granted = 0

Elapsed == clock - lastRefill

\* Mutant of Grant: the time of the refill is not recorded.
GrantMintsTwice ==
  /\ Refilled(tokens, Elapsed) >= Cost
  /\ tokens' = Refilled(tokens, Elapsed) - Cost
  /\ granted' = granted + 1
  /\ UNCHANGED <<clock, lastRefill, observed, since>>

\* try_acquire returns True.
Grant ==
  /\ Refilled(tokens, Elapsed) >= Cost
  /\ tokens' = Refilled(tokens, Elapsed) - Cost
  /\ lastRefill' = clock
  /\ granted' = granted + 1
  /\ UNCHANGED <<clock, observed, since>>

\* try_acquire returns False: the refill is kept all the same.
Refuse ==
  /\ Refilled(tokens, Elapsed) < Cost
  /\ tokens' = Refilled(tokens, Elapsed)
  /\ lastRefill' = clock
  /\ UNCHANGED <<clock, observed, since, granted>>

RateTick ==
  /\ clock < RateHorizon
  /\ clock' = clock + 1
  /\ UNCHANGED <<tokens, lastRefill, observed, since, granted>>

Observe ==
  /\ ~observed
  /\ observed' = TRUE
  /\ since' = clock
  /\ granted' = 0
  /\ UNCHANGED <<clock, tokens, lastRefill>>

RateNext == Grant \/ Refuse \/ RateTick \/ Observe

RateSpec == RateInit /\ [][RateNext]_rateVars

-----------------------------------------------------------------------------

\* Over any period, no more requests are granted than a full bucket and the
\* tokens minted in the period allow, however refused requests and idle time
\* are interleaved (TokenBucket.try_acquire).
RateBound ==
  observed => granted * Cost <= Capacity + (clock - since) * Refill

\* What makes it inductive: what the bucket holds now counts as well.
BudgetKept ==
  observed =>
    granted * Cost + Refilled(tokens, Elapsed)
      <= Capacity + (clock - since) * Refill

=============================================================================
