------------------------------- MODULE BulkDelete -------------------------------
(***************************************************************************)
(* Uploader.delete_objects: the keys in chunks, one DeleteObjects request  *)
(* per chunk, repeated with the keys that failed for a transient reason.   *)
(* A request may delete some keys, refuse others and fail as a whole,      *)
(* whether or not it had an effect.                                        *)
(***************************************************************************)
EXTENDS Integers

CONSTANTS
  Objects,          \* the keys to delete
  Chunks,        \* how many chunks they make
  ChunkOf,       \* the chunk of a key
  MaxRetries     \* max_retries

ASSUME DeleteAssumption ==
  /\ Chunks \in Nat
  /\ ChunkOf \in [Objects -> 1..Chunks]
  /\ MaxRetries \in Nat

VARIABLES
  remaining,     \* the objects in the bucket
  verdict,     \* "ok": delete_objects returned; "failed": it raised
  chunk,       \* the chunk being deleted
  toDelete,    \* the keys of the next request
  tries,       \* requests for this chunk so far
  permanent,   \* permanent_errors of this chunk
  errors       \* errors of the chunks before

deleteVars == <<remaining, verdict, chunk, toDelete, tries, permanent, errors>>

\* The types; the attempts never exceed max_retries.
DeleteTypeOK ==
  /\ remaining \in SUBSET Objects
  /\ verdict \in {"none", "ok", "failed"}
  /\ chunk \in 1..(Chunks + 1)
  /\ toDelete \in SUBSET Objects
  /\ tries \in 0..MaxRetries
  /\ permanent \in SUBSET Objects
  /\ errors \in SUBSET Objects

KeysOf(c) == {k \in Objects : ChunkOf[k] = c}

DeleteInit ==
  /\ remaining = Objects
  /\ verdict = "none"
  /\ chunk = 1
  /\ toDelete = KeysOf(1)
  /\ tries = 0
  /\ permanent = {}
  /\ errors = {}

Requesting == verdict = "none" /\ chunk <= Chunks

ChunkOver(failed) ==
  /\ errors' = errors \cup failed
  /\ permanent' = {}
  /\ chunk' = chunk + 1
  /\ toDelete' = KeysOf(chunk + 1)
  /\ tries' = 0

\* Mutant of Again: the errors of the requests before are forgotten.
AgainForgetful(transient, refused) ==
  /\ tries < MaxRetries
  /\ toDelete' = transient
  /\ tries' = tries + 1
  /\ permanent' = refused
  /\ UNCHANGED <<chunk, errors>>

\* Mutant of Again: the attempts are counted anew after a partial answer.
AgainRestarts(transient, refused) ==
  /\ toDelete' = transient
  /\ tries' = 0
  /\ permanent' = permanent \cup refused
  /\ UNCHANGED <<chunk, errors>>

\* Only the keys with transient errors are sent again.
Again(transient, refused) ==
  /\ tries < MaxRetries
  /\ toDelete' = transient
  /\ tries' = tries + 1
  /\ permanent' = permanent \cup refused
  /\ UNCHANGED <<chunk, errors>>

\* Mutant of Exhausted: what still fails after the last request is dropped.
ExhaustedSilently(transient, refused) ==
  tries = MaxRetries /\ ChunkOver(permanent \cup refused)

Exhausted(transient, refused) ==
  tries = MaxRetries /\ ChunkOver(permanent \cup refused \cup transient)

\* The response lists the keys that were not deleted, each with its reason.
Answer(transient, refused) ==
  /\ Requesting
  /\ remaining' = remaining \ (toDelete \ (transient \cup refused))
  /\ \/ transient = {} /\ ChunkOver(permanent \cup refused)
     \/ transient # {} /\ (Again(transient, refused) \/ Exhausted(transient, refused))
  /\ UNCHANGED verdict

\* Mutant of RequestFails: repeated without end.
RequestFailsForever(gone) ==
  /\ Requesting
  /\ remaining' = remaining \ gone
  /\ tries' = tries + 1
  /\ UNCHANGED <<verdict, chunk, toDelete, permanent, errors>>

\* The request as a whole fails for a transient reason: it is repeated.
RequestFails(gone) ==
  /\ Requesting
  /\ tries < MaxRetries
  /\ remaining' = remaining \ gone
  /\ tries' = tries + 1
  /\ UNCHANGED <<verdict, chunk, toDelete, permanent, errors>>

\* For another reason, or once too often: the exception ends the call, and the
\* chunks that follow are not touched.
RequestRaises(gone) ==
  /\ Requesting
  /\ remaining' = remaining \ gone
  /\ verdict' = "failed"
  /\ UNCHANGED <<chunk, toDelete, tries, permanent, errors>>

DeleteReturns ==
  /\ verdict = "none"
  /\ chunk > Chunks
  /\ verdict' = IF errors = {} THEN "ok" ELSE "failed"
  /\ UNCHANGED <<remaining, chunk, toDelete, tries, permanent, errors>>

DeleteNext ==
  \/ \E transient \in SUBSET toDelete :
       \E refused \in SUBSET (toDelete \ transient) : Answer(transient, refused)
  \/ \E gone \in SUBSET toDelete : RequestFails(gone) \/ RequestRaises(gone)
  \/ DeleteReturns

DeleteSpec == DeleteInit /\ [][DeleteNext]_deleteVars /\ WF_deleteVars(DeleteNext)

-----------------------------------------------------------------------------

Waiting == IF chunk <= Chunks THEN toDelete ELSE {}

\* A key that is still in the bucket is to be sent again, is on record as
\* failed, or belongs to a chunk whose turn has not come: no mixture of
\* partial answers, whole failures and retries loses one.
NoKeyForgotten ==
  verdict # "failed" =>
    \A k \in remaining : k \in Waiting \cup permanent \cup errors \/ ChunkOf[k] > chunk

Abstract == INSTANCE Deletion

\* The chunks, retries and kinds of error together keep the promise that
\* prune_s3 relies on: no exception means no object left.
KeepsDeletionPromise == Abstract!DeletionSpec

DeleteUnderway == verdict = "none"

=============================================================================
