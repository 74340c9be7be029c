-------------------------------- MODULE Deletion --------------------------------
(***************************************************************************)
(* What a caller of Uploader.delete_objects may rely on, prune_s3 above    *)
(* all: objects disappear in any order, and the call returns without an    *)
(* exception only when none of them is left.                               *)
(***************************************************************************)
CONSTANT Objects        \* the objects to delete

VARIABLES
  remaining,     \* those still in the bucket
  verdict      \* "ok": returned; "failed": raised

deletionVars == <<remaining, verdict>>

DeletionInit == remaining = Objects /\ verdict = "none"

Erase == verdict = "none" /\ remaining' \in SUBSET remaining /\ UNCHANGED verdict

Succeed == verdict = "none" /\ remaining = {} /\ verdict' = "ok" /\ UNCHANGED remaining

\* A failed call may have removed more.
Fail == verdict = "none" /\ verdict' = "failed" /\ remaining' \in SUBSET remaining

DeletionSpec == DeletionInit /\ [][Erase \/ Succeed \/ Fail]_deletionVars

=============================================================================
