------------------------------ MODULE MCBatchDay ------------------------------
(* BatchDay for model checking: a day of two windows, one of them with      *)
(* payloads; a task that rolls it up and is run again on the same disk, and *)
(* one that archives and snapshots it beside, on a disk of its own.         *)
EXTENDS BatchDay

CONSTANTS w1, w2, vehicles, heavy, nightly

TwoWindows == {w1, w2}
OneWindow == {w1}
OneKind == {vehicles}
Rows == [k \in DataKinds |-> {w1}]

TwoTasks == {heavy, nightly}
TaskStages ==
  [t \in Tasks |-> IF t = heavy THEN {"rollup"}
                                ELSE {"cold-ship", "snapshot"}]
Reruns == [t \in Tasks |-> IF t = heavy THEN 2 ELSE 1]

=============================================================================
