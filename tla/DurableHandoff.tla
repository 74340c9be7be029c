---------------------------- MODULE DurableHandoff ----------------------------
(***************************************************************************)
(* What every hand-off between two stores of this system promises: items   *)
(* are put into the first store, copied to the second, and removed from    *)
(* the first only once the second has them.  Nothing ever leaves the       *)
(* second store, so a reader of both always finds what was put.  A fault   *)
(* may excuse items from the promise; no other item is affected by it.     *)
(***************************************************************************)
VARIABLES
  held,        \* items in the store that gives them up
  delivered,   \* items in the durable store
  excused      \* items that a fault has exempted

handoff == <<held, delivered, excused>>

Init == held = {} /\ delivered = {} /\ excused = {}

Put == held \ held' \subseteq excused /\ UNCHANGED <<delivered, excused>>

\* A delivery may be repeated: an item may be delivered already.
Deliver ==
  /\ delivered \ delivered' \subseteq excused
  /\ delivered' \subseteq delivered \cup held
  /\ UNCHANGED <<held, excused>>

Release ==
  /\ held' \subseteq held
  /\ held \ held' \subseteq delivered
  /\ UNCHANGED <<delivered, excused>>

Excuse == excused \subseteq excused' /\ UNCHANGED <<held, delivered>>

Next == Put \/ Deliver \/ Release \/ Excuse

Spec == Init /\ [][Next]_handoff

\* No step loses an item, whatever was put stays in one of the stores.
NothingLost ==
  [][(held \cup delivered) \ (held' \cup delivered') \subseteq excused]_handoff

=============================================================================
