------------------------------- MODULE PollGate -------------------------------
(***************************************************************************)
(* What the poll loop promises the rest of the poller: polls of different  *)
(* feeds overlap, up to the number of workers; two polls of one feed never *)
(* do.  The writer and the poll state rely on it (action Poll of module    *)
(* PollWriter).                                                            *)
(***************************************************************************)
EXTENDS Integers

CONSTANTS Feeds, Workers

VARIABLES
  polling,     \* polls in flight, per feed
  free         \* workers without a poll

gate == <<polling, free>>

Init ==
  /\ polling = [f \in Feeds |-> 0]
  /\ free = Workers

Start(f) ==
  /\ polling[f] = 0
  /\ free > 0
  /\ polling' = [polling EXCEPT ![f] = 1]
  /\ free' = free - 1

End(f) ==
  /\ polling[f] = 1
  /\ polling' = [polling EXCEPT ![f] = 0]
  /\ free' = free + 1

Next == \E f \in Feeds : Start(f) \/ End(f)

Spec == Init /\ [][Next]_gate

=============================================================================
