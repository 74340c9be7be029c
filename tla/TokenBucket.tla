----------------------------- MODULE TokenBucket -----------------------------
(***************************************************************************)
(* The token bucket that paces an agency's requests.  A request costs Cost *)
(* units, Refill units are minted per tick and at most Capacity are kept,  *)
(* so that a refill rate below one token per second stays an integer.  The *)
(* refill is lazy: it happens when the next request asks.                  *)
(***************************************************************************)
EXTENDS Integers

CONSTANTS
  Capacity,    \* _capacity, in units
  Refill,      \* _refill_rate, units per tick
  Cost         \* units of one token

ASSUME BucketAssumption ==
  /\ Capacity \in Nat
  /\ Refill \in Nat
  /\ Cost \in Nat \ {0}

\* Mutant of Refilled: the cap on what accumulates is missing.
RefilledForever(tokens, elapsed) == tokens + elapsed * Refill

\* What the bucket holds once it is refilled after so many ticks.
Refilled(tokens, elapsed) ==
  IF tokens + elapsed * Refill <= Capacity
    THEN tokens + elapsed * Refill
    ELSE Capacity

=============================================================================
