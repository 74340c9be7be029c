------------------------------- MODULE WorkerPool -------------------------------
(***************************************************************************)
(* parallel.run_parallel: the (feed, day) pairs of a rollup on a pool of   *)
(* worker processes.  A worker that dies (out of memory) breaks the pool:  *)
(* every future without a result raises BrokenProcessPool, also those of   *)
(* pairs that a sibling had rolled up but not yet reported.  These pairs   *)
(* run again on a fresh pool, for a limited number of attempts.            *)
(***************************************************************************)
EXTENDS Integers, FiniteSets

CONSTANTS
  Pairs,         \* the (feed, day) pairs discovery may find
  MaxWorkers,    \* --workers is at most this
  MaxAttempts    \* MAX_ATTEMPTS

ASSUME PoolAssumption ==
  /\ IsFiniteSet(Pairs)
  /\ MaxWorkers \in Nat \ {0}
  /\ MaxAttempts \in Nat \ {0}

VARIABLES
  phase,       \* of run_parallel
  workers,     \* --workers
  forced,      \* --force
  pairs,       \* the pairs discovered
  attempt,     \* the pool in use is the attempt-th
  broken,      \* the executor has noticed that a process of it died
  future,      \* per pair, where its future is
  fate,        \* per pair, what run_parallel made of it
  marked,      \* pairs with a _SUCCESS.json on disk
  completed    \* the count in the progress log

poolVars == <<phase, workers, forced, pairs, attempt, broken, future, fate, marked, completed>>

Futures == {"none", "unsent", "queued", "working", "worked", "returned",
            "raised", "broken", "again", "over"}

\* The types; there are never more pools than MAX_ATTEMPTS.
PoolTypeOK ==
  /\ phase \in {"idle", "serial", "submit", "drain", "done", "raised"}
  /\ workers \in 0..MaxWorkers
  /\ forced \in BOOLEAN
  /\ pairs \in SUBSET Pairs
  /\ attempt \in 0..MaxAttempts
  /\ broken \in BOOLEAN
  /\ future \in [Pairs -> Futures]
  /\ fate \in [Pairs -> {"none", "ok", "error", "gaveup"}]
  /\ marked \in SUBSET Pairs
  /\ completed \in Nat

PoolInit ==
  /\ phase = "idle"
  /\ workers = 0
  /\ forced = FALSE
  /\ pairs = {}
  /\ attempt = 0
  /\ broken = FALSE
  /\ future = [p \in Pairs |-> "none"]
  /\ fate = [p \in Pairs |-> "none"]
  /\ marked = {}
  /\ completed = 0

In(states) == {p \in Pairs : future[p] \in states}

Move(from, to) == [p \in Pairs |-> IF future[p] \in from THEN to ELSE future[p]]

\* One worker, or one pair: no pool.
Serial(n, D) == n = 1 \/ Cardinality(D) = 1

RunParallel(n, f, D) ==
  /\ phase = "idle"
  /\ workers' = n
  /\ forced' = f
  /\ pairs' = D
  /\ phase' = IF D = {} THEN "done" ELSE IF Serial(n, D) THEN "serial" ELSE "submit"
  /\ attempt' = IF D = {} \/ Serial(n, D) THEN 0 ELSE 1
  /\ future' = [p \in Pairs |-> IF p \in D THEN "unsent" ELSE "none"]
  /\ UNCHANGED <<broken, fate, marked, completed>>

-----------------------------------------------------------------------------
(* Without a pool, an exception of rollup_one ends the run.                *)

RollupSerially(p) ==
  /\ phase = "serial"
  /\ future[p] = "unsent"
  /\ marked' = marked \cup {p}
  /\ future' = [future EXCEPT ![p] = "over"]
  /\ fate' = [fate EXCEPT ![p] = "ok"]
  /\ phase' = IF In({"unsent"}) = {p} THEN "done" ELSE phase
  /\ UNCHANGED <<workers, forced, pairs, attempt, broken, completed>>

SerialRaises(p) ==
  /\ phase = "serial"
  /\ future[p] = "unsent"
  /\ phase' = "raised"
  /\ marked' = IF forced THEN marked \ {p} ELSE marked
  /\ UNCHANGED <<workers, forced, pairs, attempt, broken, future, fate, completed>>

-----------------------------------------------------------------------------
(* The executor's processes.                                               *)

\* rollup_one removes the marker of a day that it is forced to roll up again.
BeginPair(p) ==
  /\ future[p] = "queued"
  /\ Cardinality(In({"working", "worked"})) < workers
  /\ future' = [future EXCEPT ![p] = "working"]
  /\ marked' = IF forced THEN marked \ {p} ELSE marked
  /\ UNCHANGED <<phase, workers, forced, pairs, attempt, broken, fate, completed>>

EndPair(p) ==
  /\ future[p] = "working"
  /\ future' = [future EXCEPT ![p] = "worked"]
  /\ marked' = marked \cup {p}
  /\ UNCHANGED <<phase, workers, forced, pairs, attempt, broken, fate, completed>>

Report(p) ==
  /\ future[p] = "worked"
  /\ future' = [future EXCEPT ![p] = "returned"]
  /\ UNCHANGED <<phase, workers, forced, pairs, attempt, broken, fate, marked, completed>>

PairRaises(p) ==
  /\ future[p] = "working"
  /\ future' = [future EXCEPT ![p] = "raised"]
  /\ UNCHANGED <<phase, workers, forced, pairs, attempt, broken, fate, marked, completed>>

\* A worker dies while it works on a pair, has just done so, or starts: the
\* siblings are terminated.
WorkerDies ==
  /\ phase \in {"submit", "drain"}
  /\ In({"queued", "working", "worked", "returned", "raised"}) # {}
  /\ ~broken
  /\ broken' = TRUE
  /\ future' = Move({"queued", "working", "worked"}, "broken")
  /\ UNCHANGED <<phase, workers, forced, pairs, attempt, fate, marked, completed>>

-----------------------------------------------------------------------------
(* _run_batch.                                                             *)

Submit(p) ==
  /\ phase = "submit"
  /\ ~broken
  /\ future[p] = "unsent"
  /\ future' = [future EXCEPT ![p] = "queued"]
  /\ phase' = IF In({"unsent"}) = {p} THEN "drain" ELSE phase
  /\ UNCHANGED <<workers, forced, pairs, attempt, broken, fate, marked, completed>>

\* A pool that broke while pairs were still being submitted refuses the next:
\* BrokenProcessPool leaves run_parallel, outside the try.
SubmitRaises ==
  /\ phase = "submit"
  /\ broken
  /\ phase' = "raised"
  /\ UNCHANGED <<workers, forced, pairs, attempt, broken, future, fate, marked, completed>>

Collect(p, result, outcome) ==
  /\ phase = "drain"
  /\ future[p] = result
  /\ future' = [future EXCEPT ![p] = "over"]
  /\ fate' = [fate EXCEPT ![p] = outcome]
  /\ completed' = completed + 1
  /\ UNCHANGED <<phase, workers, forced, pairs, attempt, broken, marked>>

CollectResult(p) == Collect(p, "returned", "ok")

\* Mutant of CollectError: a pair that raised is run again as well.
CollectErrorForRetry(p) ==
  /\ phase = "drain"
  /\ future[p] = "raised"
  /\ future' = [future EXCEPT ![p] = "again"]
  /\ completed' = completed + 1
  /\ UNCHANGED <<phase, workers, forced, pairs, attempt, broken, fate, marked>>

\* An exception of rollup_one is logged and not retried.
CollectError(p) == Collect(p, "raised", "error")

\* Mutant of CollectBroken: a broken future is taken for a finished one.
CollectBrokenAsDone(p) == Collect(p, "broken", "ok")

CollectBroken(p) ==
  /\ phase = "drain"
  /\ future[p] = "broken"
  /\ future' = [future EXCEPT ![p] = "again"]
  /\ UNCHANGED <<phase, workers, forced, pairs, attempt, broken, fate, marked, completed>>

Drained == In({"queued", "working", "worked", "returned", "raised", "broken"}) = {}

\* Mutant of NextPool: the retries are not counted.
NextPoolForever ==
  /\ phase = "drain"
  /\ Drained
  /\ In({"again"}) # {}
  /\ phase' = "submit"
  /\ broken' = FALSE
  /\ future' = Move({"again"}, "unsent")
  /\ UNCHANGED <<workers, forced, pairs, attempt, fate, marked, completed>>

\* Mutant of NextPool: one attempt too many.
NextPoolOnceMore ==
  /\ phase = "drain"
  /\ Drained
  /\ In({"again"}) # {}
  /\ attempt' = attempt + 1
  /\ broken' = FALSE
  /\ phase' = "submit"
  /\ future' = Move({"again"}, "unsent")
  /\ UNCHANGED <<workers, forced, pairs, fate, marked, completed>>

\* A fresh pool for the pairs that the broken one took down.
NextPool ==
  /\ phase = "drain"
  /\ Drained
  /\ In({"again"}) # {}
  /\ attempt < MaxAttempts
  /\ attempt' = attempt + 1
  /\ broken' = FALSE
  /\ phase' = "submit"
  /\ future' = Move({"again"}, "unsent")
  /\ UNCHANGED <<workers, forced, pairs, fate, marked, completed>>

\* Mutant of Return: run_parallel returns without a word of what is pending.
ReturnSilently ==
  /\ phase = "drain"
  /\ Drained
  /\ In({"again"}) = {} \/ attempt = MaxAttempts
  /\ phase' = "done"
  /\ UNCHANGED <<workers, forced, pairs, attempt, broken, future, fate, marked, completed>>

\* Pairs still pending after the last attempt are logged one by one.
Return ==
  /\ phase = "drain"
  /\ Drained
  /\ In({"again"}) = {} \/ attempt = MaxAttempts
  /\ phase' = "done"
  /\ fate' = [p \in Pairs |-> IF future[p] = "again" THEN "gaveup" ELSE fate[p]]
  /\ UNCHANGED <<workers, forced, pairs, attempt, broken, future, marked, completed>>

-----------------------------------------------------------------------------

Process(p) == BeginPair(p) \/ EndPair(p) \/ Report(p) \/ PairRaises(p)

Parent ==
  \/ SubmitRaises \/ NextPool \/ Return
  \/ \E p \in Pairs : \/ RollupSerially(p) \/ SerialRaises(p)
                      \/ Submit(p)
                      \/ CollectResult(p) \/ CollectError(p) \/ CollectBroken(p)

Launch ==
  \E n \in 1..MaxWorkers, f \in BOOLEAN, D \in SUBSET Pairs : RunParallel(n, f, D)

PoolNext == Launch \/ WorkerDies \/ Parent \/ \E p \in Pairs : Process(p)

\* The parent and the workers do not stall; nothing makes a worker die.
PoolFairness == WF_poolVars(Parent \/ \E p \in Pairs : Process(p))

PoolSpec == PoolInit /\ [][PoolNext]_poolVars /\ PoolFairness

-----------------------------------------------------------------------------

\* When run_parallel returns, every pair it found was rolled up, or its
\* exception was logged, or it was logged as given up; none is forgotten when
\* pools break, and none is given up before the last attempt.
EveryPairAccounted ==
  /\ phase = "done" => \A p \in pairs : fate[p] # "none"
  /\ \A p \in Pairs : fate[p] = "gaveup" => attempt = MaxAttempts

\* A pair counts as rolled up only if its marker is on disk: a broken pool, or
\* a retry that removes the marker of a day already done, never leaves a pair
\* both reported and half rewritten.
ReportedIsMarked == \A p \in Pairs : fate[p] = "ok" => p \in marked

\* The progress count is the number of pairs with a real result, over all
\* pools: a retried pair counts once.
ProgressAddsUp ==
  phase \in {"submit", "drain", "done"} /\ attempt > 0 =>
    completed = Cardinality({p \in Pairs : fate[p] \in {"ok", "error"}})

\* What run_parallel says of its pairs is true, at every point of every pool:
\* none is lost, none is reported without its marker, and none counts twice.
PoolConsistent == PoolTypeOK /\ EveryPairAccounted /\ ReportedIsMarked /\ ProgressAddsUp

RunUnderway == phase \notin {"idle", "done", "raised"}

=============================================================================
