----------------------------- MODULE Services_proofs -----------------------------
(***************************************************************************)
(* What holds of the fleet through every rollout, of the bulk delete       *)
(* through every failed request, of the parallel rollup through every      *)
(* broken pool, of the rate limit over every period and of a task of the   *)
(* batch through every failed subprocess: for any agencies, boxes and      *)
(* shards, any keys, chunks and retries, any pairs and workers, any        *)
(* capacity and refill rate, any feeds, stages and tasks.                  *)
(***************************************************************************)
EXTENDS Fleet, BulkDelete, WorkerPool, RateLimit, AgencyBatch,
        FiniteSetTheorems, SequenceTheorems, TLAPS

-----------------------------------------------------------------------------
(* The fleet.                                                              *)

\* deploy.yml: each box is given a continent of its own.
OneBoxPerContinent ==
  \A b, c \in Boxes : ContinentOf[b] = ContinentOf[c] => b = c

\* A process polls, and has clients for, agencies of its own shard and
\* continent only, whichever feeds.yaml it was started from.
OwnAgencies ==
  \A p \in Processes : \A a \in polled[p] \cup clients[p] :
    /\ BelongsToShard(a, p[2], ShardCount[p[1]])
    /\ BelongsToContinent(a, ContinentOf[p[1]])

\* A key on a box, or in a container of it, is that of an agency of its
\* continent, and no newer than the secret's.
OwnKeys ==
  \A b \in Boxes, k \in Keys :
    /\ dotenv[b][k] <= secret[k]
    /\ dotenv[b][k] # 0 => \E a \in Agencies : KeyOf[a] = k /\ Timezones[a] = ContinentOf[b]
    /\ \A p \in Processes : p[1] = b /\ container[p][k] # 0 =>
         \E a \in Agencies : KeyOf[a] = k /\ Timezones[a] = ContinentOf[b]

FleetInv == FleetTypeOK /\ OwnAgencies /\ OwnKeys

\* A process is a box and the index of one of its shards.
LEMMA ProcessParts ==
  ASSUME NEW p \in Processes
  PROVE  /\ p = <<p[1], p[2]>>
         /\ p[1] \in Boxes
         /\ p[2] \in ShardsOf[p[1]]
         /\ p[2] \in Nat
         /\ ShardCount[p[1]] \in Nat \ {0}
BY FleetAssumption DEF Processes

\* What a process is started with is its own.
LEMMA StartsWithItsOwn ==
  ASSUME FleetTypeOK, NEW p \in Processes, NEW env
  PROVE  LET feeds == BuildFeeds(checkout[p[1]], p)
             able  == BuildAgencyClients(checkout[p[1]], env, p)
         IN  /\ able \subseteq feeds
             /\ feeds \subseteq Agencies
             /\ \A a \in feeds : /\ BelongsToShard(a, p[2], ShardCount[p[1]])
                                 /\ BelongsToContinent(a, ContinentOf[p[1]])
<1>1. checkout[p[1]] \subseteq Agencies
  BY ProcessParts DEF FleetTypeOK
<1> QED
  BY <1>1 DEF BuildFeeds, BuildAgencyClients

\* Every step of a rollout keeps the types.
LEMMA FleetTypePreserved ==
  ASSUME FleetTypeOK, FleetNext
  PROVE  FleetTypeOK'
<1> USE DEF FleetTypeOK
<1>1. ASSUME NEW a \in Agencies, EditConfig(a) PROVE FleetTypeOK'
  BY <1>1, FleetAssumption DEF EditConfig
<1>2. ASSUME NEW k \in Keys, MergeSecret(k) PROVE FleetTypeOK'
  <2>1. secret[k] + 1 \in 0..MaxVersion
    BY <1>2, FleetAssumption DEF MergeSecret
  <2> QED
    BY <1>2, <2>1 DEF MergeSecret
<1>3. ASSUME NEW b \in Boxes, RefreshEnv(b) PROVE FleetTypeOK'
  <2> DEFINE keys == [k \in Keys |->
                        IF k \in AgencyEnvKeys(configured, ContinentOf[b]) THEN secret[k] ELSE 0]
  <2>1. keys \in [Keys -> 0..MaxVersion]
    BY FleetAssumption
  <2>2. dotenv' = [dotenv EXCEPT ![b] = keys]
    BY <1>3 DEF RefreshEnv
  <2> HIDE DEF keys
  <2> QED
    BY <1>3, <2>1, <2>2 DEF RefreshEnv
<1>4. ASSUME NEW b \in Boxes, CheckOut(b) PROVE FleetTypeOK'
  BY <1>4 DEF CheckOut
<1>5. ASSUME NEW p \in Processes, Recreate(p) PROVE FleetTypeOK'
  BY <1>5, ProcessParts, StartsWithItsOwn DEF Recreate, Start
<1>6. ASSUME NEW p \in Processes, Restart(p) PROVE FleetTypeOK'
  BY <1>6, ProcessParts, StartsWithItsOwn DEF Restart, Start
<1> QED
  BY <1>1, <1>2, <1>3, <1>4, <1>5, <1>6 DEF FleetNext

\* Edits, rotations, refreshes and checkouts leave what runs alone; a start
\* replaces it by what is the process's own.
LEMMA OwnAgenciesPreserved ==
  ASSUME FleetInv, FleetNext
  PROVE  OwnAgencies'
<1> USE DEF FleetInv, OwnAgencies, BelongsToShard, BelongsToContinent
<1>1. ASSUME UNCHANGED <<polled, clients>> PROVE OwnAgencies'
  BY <1>1
<1>2. ASSUME NEW p \in Processes, NEW env, Start(p, env) PROVE OwnAgencies'
  <2> SUFFICES ASSUME NEW q \in Processes, NEW a \in polled'[q] \cup clients'[q]
               PROVE  /\ BelongsToShard(a, q[2], ShardCount[q[1]])
                      /\ BelongsToContinent(a, ContinentOf[q[1]])
    OBVIOUS
  <2>1. CASE q = p
    <3>1. a \in BuildFeeds(checkout[p[1]], p)
      BY <1>2, <2>1, StartsWithItsOwn DEF Start, FleetTypeOK
    <3> QED
      BY <2>1, <3>1, StartsWithItsOwn
  <2>2. CASE q # p
    BY <1>2, <2>2 DEF Start, FleetTypeOK
  <2> QED
    BY <2>1, <2>2
<1> QED
  BY <1>1, <1>2 DEF FleetNext, EditConfig, MergeSecret, RefreshEnv, CheckOut, Recreate, Restart

\* A refresh and a recreated container take keys of their own region only.
LEMMA OwnKeysPreserved ==
  ASSUME FleetInv, FleetNext
  PROVE  OwnKeys'
<1> USE DEF FleetInv, OwnKeys
<1>1. ASSUME NEW k \in Keys, MergeSecret(k) PROVE OwnKeys'
  <2>1. \A j \in Keys : secret'[j] \in Nat /\ secret[j] \in Nat /\ secret[j] <= secret'[j]
    BY <1>1, FleetAssumption DEF MergeSecret, FleetTypeOK
  <2>2. \A b \in Boxes, j \in Keys : dotenv[b][j] \in Nat
    BY FleetAssumption DEF FleetTypeOK
  <2> QED
    BY <1>1, <2>1, <2>2 DEF MergeSecret
<1>2. ASSUME NEW b \in Boxes, RefreshEnv(b) PROVE OwnKeys'
  <2>1. secret' = secret /\ container' = container
    BY <1>2 DEF RefreshEnv
  <2>2. ASSUME NEW c \in Boxes, NEW k \in Keys
        PROVE  /\ dotenv'[c][k] <= secret[k]
               /\ dotenv'[c][k] # 0 =>
                    \E a \in Agencies : KeyOf[a] = k /\ Timezones[a] = ContinentOf[c]
    <3>0. secret[k] \in Nat
      BY FleetAssumption DEF FleetTypeOK
    <3>1. CASE c = b
      <4>1. dotenv'[c][k] = IF k \in AgencyEnvKeys(configured, ContinentOf[b])
                            THEN secret[k] ELSE 0
        BY <1>2, <3>1 DEF RefreshEnv, FleetTypeOK
      <4>2. k \in AgencyEnvKeys(configured, ContinentOf[b]) =>
              \E a \in Agencies : KeyOf[a] = k /\ Timezones[a] = ContinentOf[c]
        BY <3>1 DEF AgencyEnvKeys, BelongsToContinent, FleetTypeOK
      <4> QED
        BY <3>0, <4>1, <4>2
    <3>2. CASE c # b
      BY <1>2, <3>2 DEF RefreshEnv, FleetTypeOK
    <3> QED
      BY <3>1, <3>2
  <2> QED
    BY <2>1, <2>2
<1>3. ASSUME NEW p \in Processes, Recreate(p) PROVE OwnKeys'
  <2>1. dotenv' = dotenv /\ secret' = secret
    BY <1>3 DEF Recreate
  <2>2. ASSUME NEW q \in Processes, NEW k \in Keys, container'[q][k] # 0
        PROVE  \E a \in Agencies : KeyOf[a] = k /\ Timezones[a] = ContinentOf[q[1]]
    <3>1. CASE q = p
      BY <1>3, <2>2, <3>1, ProcessParts DEF Recreate, FleetTypeOK
    <3>2. CASE q # p
      <4>1. container'[q][k] = container[q][k]
        BY <1>3, <3>2 DEF Recreate, FleetTypeOK
      <4>2. q[1] \in Boxes /\ container[q][k] # 0
        BY <2>2, <4>1, ProcessParts
      <4> QED
        BY <4>2
    <3> QED
      BY <3>1, <3>2
  <2> QED
    BY <2>1, <2>2
<1>4. ASSUME UNCHANGED <<secret, dotenv, container>> PROVE OwnKeys'
  BY <1>4
<1> QED
  BY <1>1, <1>2, <1>3, <1>4 DEF FleetNext, EditConfig, CheckOut, Restart

\* Types, agencies and keys together.
THEOREM FleetInvariance == FleetSpec => []FleetInv
<1>1. FleetInit => FleetInv
  <2> SUFFICES ASSUME FleetInit PROVE FleetInv
    OBVIOUS
  <2>1. FleetTypeOK
    BY FleetAssumption DEF FleetInit, FleetTypeOK, NoKeys
  <2>2. OwnAgencies
    BY DEF FleetInit, OwnAgencies
  <2>3. OwnKeys
    BY ProcessParts DEF FleetInit, OwnKeys, NoKeys
  <2> QED
    BY <2>1, <2>2, <2>3 DEF FleetInv
<1>2. FleetInv /\ [FleetNext]_fleetVars => FleetInv'
  <2> SUFFICES ASSUME FleetInv, [FleetNext]_fleetVars PROVE FleetInv'
    OBVIOUS
  <2>1. CASE FleetNext
    BY <2>1, FleetTypePreserved, OwnAgenciesPreserved, OwnKeysPreserved DEF FleetInv
  <2>2. CASE UNCHANGED fleetVars
    BY <2>2 DEF fleetVars, FleetInv, FleetTypeOK, OwnAgencies, OwnKeys,
                BelongsToShard, BelongsToContinent
  <2> QED
    BY <2>1, <2>2
<1> QED
  BY <1>1, <1>2, PTL DEF FleetSpec

\* An agency of one shard is of no other: by its pin, or by its hash.
LEMMA OneShard ==
  ASSUME NEW a, NEW i, NEW j, NEW n,
         BelongsToShard(a, i, n), BelongsToShard(a, j, n)
  PROVE  i = j
BY DEF BelongsToShard

\* Two processes that poll one agency are one.
LEMMA OneHomeHolds ==
  ASSUME OneBoxPerContinent, OwnAgencies
  PROVE  OneHome
<1> SUFFICES ASSUME NEW p \in Processes, NEW q \in Processes,
                    NEW a \in polled[p], a \in polled[q]
             PROVE  p = q
  BY DEF OneHome
<1>1. p[1] = q[1]
  BY ProcessParts DEF OwnAgencies, BelongsToContinent, OneBoxPerContinent
<1>2. p[2] = q[2]
  BY <1>1, OneShard DEF OwnAgencies
<1> QED
  BY <1>1, <1>2, ProcessParts

\* Every hash has a shard among those of its pool.
LEMMA ShardInPool ==
  ASSUME NEW a \in Agencies, NEW b \in Boxes
  PROVE  ShardFor(a, ShardCount[b]) \in 0..(ShardCount[b] - 1)
<1>1. \A x \in Nat, y \in Nat \ {0} : x % y \in 0..(y - 1)
  BY Z3
<1>2. HashOf[a] \in Nat /\ ShardCount[b] \in Nat \ {0}
  BY FleetAssumption
<1> QED
  BY <1>1, <1>2 DEF ShardFor

\* On a box whose processes have restarted, some shard takes each agency.
LEMMA EveryAgencyIsPolled ==
  ASSUME FleetTypeOK
  PROVE  EveryAgencyHasAHome
<1> SUFFICES ASSUME NEW b \in Boxes,
                    \A p \in Processes : p[1] = b => polled[p] = BuildFeeds(checkout[b], p),
                    0..(ShardCount[b] - 1) \subseteq ShardsOf[b],
                    \A a \in checkout[b] : Timezones[a] # Unmapped,
                    NEW a \in checkout[b],
                    Timezones[a] = ContinentOf[b],
                    Pins[a] \in ShardsOf[b] \cup {NoPin}
             PROVE  \E p \in Processes : p[1] = b /\ a \in polled[p]
  BY DEF EveryAgencyHasAHome
<1>1. a \in Agencies
  BY DEF FleetTypeOK
<1> DEFINE i == IF Pins[a] # NoPin THEN Pins[a] ELSE ShardFor(a, ShardCount[b])
<1>2. i \in ShardsOf[b] /\ BelongsToShard(a, i, ShardCount[b])
  <2>1. CASE Pins[a] # NoPin
    BY <2>1 DEF BelongsToShard
  <2>2. CASE Pins[a] = NoPin
    <3>1. i \in 0..(ShardCount[b] - 1) /\ i = ShardFor(a, ShardCount[b])
      BY <1>1, <2>2, ShardInPool
    <3>2. ShardCount[b] \in Nat
      BY FleetAssumption
    <3>3. i < ShardCount[b]
      BY <3>1, <3>2
    <3> QED
      BY <2>2, <3>1, <3>3 DEF BelongsToShard
  <2> QED
    BY <2>1, <2>2
<1> HIDE DEF i
<1>3. <<b, i>> \in Processes
  BY <1>2 DEF Processes
<1>4. a \in BuildFeeds(checkout[b], <<b, i>>)
  BY <1>2 DEF BuildFeeds, BelongsToContinent
<1> QED
  BY <1>3, <1>4

\* Through every rollout, in any order of boxes and containers: no agency is
\* polled twice, provided no two boxes are given one continent; none is left
\* out where its box has settled; and no key leaves its region.
THEOREM FleetStaysConsistent ==
  ASSUME OneBoxPerContinent
  PROVE  FleetSpec => []FleetConsistent
<1>1. FleetInv => FleetConsistent
  <2> SUFFICES ASSUME FleetInv PROVE FleetConsistent
    OBVIOUS
  <2>1. RegionKeysOnly
    BY DEF FleetInv, OwnKeys, RegionKeysOnly
  <2> QED
    BY <2>1, OneHomeHolds, EveryAgencyIsPolled DEF FleetInv, FleetConsistent
<1> QED
  BY <1>1, FleetInvariance, PTL

\* No refresh takes away, or sets back, the key of a feed the box polls.
THEOREM KeysAreKept == FleetSpec => NoKeyLost
<1>1. ASSUME FleetInv, FleetNext, NEW b \in Boxes, dotenv'[b] # dotenv[b],
             NEW p \in Processes, NEW a \in configured,
             p[1] = b, a \in clients[p], KeyOf[a] # NoKey
      PROVE  dotenv'[b][KeyOf[a]] >= dotenv[b][KeyOf[a]]
  <2>1. RefreshEnv(b)
    <3>1. PICK c \in Boxes : RefreshEnv(c)
      BY <1>1 DEF FleetNext, EditConfig, MergeSecret, CheckOut, Recreate, Restart
    <3>2. c = b
      BY <1>1, <3>1 DEF RefreshEnv, FleetInv, FleetTypeOK
    <3> QED
      BY <3>1, <3>2
  <2>2. a \in Agencies /\ KeyOf[a] \in Keys
    BY <1>1 DEF FleetInv, FleetTypeOK, Keys
  <2>3. BelongsToContinent(a, ContinentOf[b])
    BY <1>1 DEF FleetInv, OwnAgencies
  <2>4. KeyOf[a] \in AgencyEnvKeys(configured, ContinentOf[b])
    BY <1>1, <2>3 DEF AgencyEnvKeys
  <2>5. dotenv'[b][KeyOf[a]] = secret[KeyOf[a]]
    BY <1>1, <2>1, <2>2, <2>4 DEF RefreshEnv, FleetInv, FleetTypeOK
  <2>6. dotenv[b][KeyOf[a]] <= secret[KeyOf[a]]
    BY <1>1, <2>2 DEF FleetInv, OwnKeys
  <2>7. dotenv[b][KeyOf[a]] \in Nat /\ secret[KeyOf[a]] \in Nat
    BY <1>1, <2>2, FleetAssumption DEF FleetInv, FleetTypeOK
  <2> QED
    BY <2>5, <2>6, <2>7
<1>2. ASSUME FleetInv, [FleetNext]_fleetVars
      PROVE  [\A b \in Boxes : dotenv'[b] # dotenv[b] =>
           \A p \in Processes, a \in configured :
             p[1] = b /\ a \in clients[p] /\ KeyOf[a] # NoKey
               => dotenv'[b][KeyOf[a]] >= dotenv[b][KeyOf[a]]]_fleetVars
  <2>1. CASE FleetNext
    BY <1>1, <1>2, <2>1
  <2>2. CASE UNCHANGED fleetVars
    BY <2>2
  <2> QED
    BY <1>2, <2>1, <2>2
<1> QED
  BY <1>2, FleetInvariance, PTL DEF FleetSpec, NoKeyLost

-----------------------------------------------------------------------------
(* The bulk delete.                                                        *)

\* After the last chunk no error of a chunk is pending.
NothingPending == chunk > Chunks => permanent = {}

DeleteInv == DeleteTypeOK /\ NoKeyForgotten /\ NothingPending

\* The next chunk's keys replace the chunk's, whose errors go on record.
LEMMA ChunkOverKeepsTrack ==
  ASSUME DeleteInv, Requesting, verdict' = verdict, NEW failed \in SUBSET Objects,
         remaining' \subseteq remaining,
         \A k \in remaining' : k \in toDelete \cup permanent => k \in failed,
         ChunkOver(failed)
  PROVE  DeleteInv'
<1> USE DEF DeleteInv, Requesting, ChunkOver
<1>1. DeleteTypeOK'
  BY DeleteAssumption DEF DeleteTypeOK, KeysOf
<1>2. NothingPending'
  BY DEF NothingPending
<1>3. ASSUME NEW k \in remaining'
      PROVE  k \in Waiting' \cup permanent' \cup errors' \/ ChunkOf[k] > chunk'
  <2>1. k \in Objects /\ ChunkOf[k] \in 1..Chunks /\ chunk \in 1..Chunks
    BY DeleteAssumption DEF DeleteTypeOK
  <2>2. k \in toDelete \cup permanent \cup errors \/ ChunkOf[k] > chunk
    BY DEF NoKeyForgotten, Waiting
  <2>3. CASE k \in toDelete \cup permanent \cup errors
    BY <2>3
  <2>4. CASE ChunkOf[k] = chunk + 1
    BY <2>1, <2>4, DeleteAssumption DEF Waiting, KeysOf
  <2>5. CASE ChunkOf[k] > chunk + 1
    BY <2>5
  <2> QED
    BY <2>1, <2>2, <2>3, <2>4, <2>5, DeleteAssumption
<1> QED
  BY <1>1, <1>2, <1>3 DEF NoKeyForgotten

\* An answer of the bucket: transient errors wait, permanent ones go on record.
LEMMA AnswerKeepsTrack ==
  ASSUME DeleteInv, NEW transient \in SUBSET toDelete,
         NEW refused \in SUBSET (toDelete \ transient), Answer(transient, refused)
  PROVE  DeleteInv'
<1> USE DEF Answer, DeleteInv
<1>1. toDelete \subseteq Objects /\ permanent \subseteq Objects
  BY DEF DeleteTypeOK
<1>2. CASE transient = {} /\ ChunkOver(permanent \cup refused)
  BY <1>1, <1>2, ChunkOverKeepsTrack
<1>3. CASE Exhausted(transient, refused)
  BY <1>1, <1>3, ChunkOverKeepsTrack DEF Exhausted
<1>4. CASE Again(transient, refused)
  <2>1. DeleteTypeOK'
    BY <1>1, <1>4, DeleteAssumption DEF Again, DeleteTypeOK
  <2>2. NothingPending' /\ NoKeyForgotten'
    BY <1>4, DeleteAssumption DEF Again, Requesting, NothingPending, NoKeyForgotten,
                                  Waiting, DeleteTypeOK
  <2> QED
    BY <2>1, <2>2
<1> QED
  BY <1>2, <1>3, <1>4

\* Every step of the call keeps track of the keys left.
LEMMA DeleteStep ==
  ASSUME DeleteInv, DeleteNext
  PROVE  DeleteInv'
<1> USE DEF DeleteInv
<1>1. ASSUME NEW gone \in SUBSET toDelete, RequestFails(gone) PROVE DeleteInv'
  BY <1>1, DeleteAssumption DEF RequestFails, Requesting, DeleteTypeOK, NoKeyForgotten,
                                NothingPending, Waiting
<1>2. ASSUME NEW gone \in SUBSET toDelete, RequestRaises(gone) PROVE DeleteInv'
  BY <1>2 DEF RequestRaises, Requesting, DeleteTypeOK, NoKeyForgotten, NothingPending
<1>3. CASE DeleteReturns
  BY <1>3 DEF DeleteReturns, DeleteTypeOK, NoKeyForgotten, NothingPending, Waiting
<1> QED
  BY <1>1, <1>2, <1>3, AnswerKeepsTrack DEF DeleteNext

\* No key is forgotten, whatever the bucket answers.
THEOREM NothingForgotten == DeleteSpec => []DeleteInv
<1>1. DeleteInit => DeleteInv
  BY DeleteAssumption DEF DeleteInit, DeleteInv, DeleteTypeOK, NoKeyForgotten,
                          NothingPending, Waiting, KeysOf
<1>2. DeleteInv /\ [DeleteNext]_deleteVars => DeleteInv'
  <2> SUFFICES ASSUME DeleteInv, [DeleteNext]_deleteVars PROVE DeleteInv'
    OBVIOUS
  <2>1. CASE DeleteNext
    BY <2>1, DeleteStep
  <2>2. CASE UNCHANGED deleteVars
    BY <2>2 DEF deleteVars, DeleteInv, DeleteTypeOK, NoKeyForgotten, NothingPending, Waiting
  <2> QED
    BY <2>1, <2>2
<1> QED
  BY <1>1, <1>2, PTL DEF DeleteSpec

\* A call that returns without an exception has left nothing, for any number
\* of keys, chunks and retries and any mixture of answers.
THEOREM DeleteKeepsPromise == DeleteSpec => KeepsDeletionPromise
<1>1. DeleteInit => Abstract!DeletionInit
  BY DEF DeleteInit, Abstract!DeletionInit
<1>2. DeleteInv /\ [DeleteNext]_deleteVars
        => [Abstract!Erase \/ Abstract!Succeed \/ Abstract!Fail]_<<remaining, verdict>>
  <2> SUFFICES ASSUME DeleteInv, [DeleteNext]_deleteVars
               PROVE  [Abstract!Erase \/ Abstract!Succeed \/ Abstract!Fail]_<<remaining, verdict>>
    OBVIOUS
  <2> USE DEF Abstract!Erase, Abstract!Succeed, Abstract!Fail
  <2>1. ASSUME NEW transient \in SUBSET toDelete,
               NEW refused \in SUBSET (toDelete \ transient), Answer(transient, refused)
        PROVE  Abstract!Erase
    BY <2>1 DEF Answer, Requesting
  <2>2. ASSUME NEW gone \in SUBSET toDelete, RequestFails(gone)
        PROVE  Abstract!Erase
    BY <2>2 DEF RequestFails, Requesting
  <2>3. ASSUME NEW gone \in SUBSET toDelete, RequestRaises(gone)
        PROVE  Abstract!Fail
    BY <2>3 DEF RequestRaises, Requesting
  <2>4. CASE DeleteReturns
    <3>1. CASE errors = {}
      <4>1. remaining = {}
        BY <2>4, <3>1, DeleteAssumption DEF DeleteReturns, DeleteInv, DeleteTypeOK,
                                            NoKeyForgotten, NothingPending, Waiting
      <4> QED
        BY <2>4, <3>1, <4>1 DEF DeleteReturns
    <3>2. CASE errors # {}
      BY <2>4, <3>2 DEF DeleteReturns
    <3> QED
      BY <3>1, <3>2
  <2>5. CASE UNCHANGED deleteVars
    BY <2>5 DEF deleteVars
  <2> QED
    BY <2>1, <2>2, <2>3, <2>4, <2>5 DEF DeleteNext
<1> QED
  BY <1>1, <1>2, NothingForgotten, PTL DEF DeleteSpec, KeepsDeletionPromise,
     Abstract!DeletionSpec, Abstract!deletionVars

-----------------------------------------------------------------------------
(* The parallel rollup.                                                    *)

\* Where a future may be while run_parallel is in a phase.
PhaseInv ==
  /\ phase = "idle" => attempt = 0 /\ completed = 0 /\ pairs = {}
  /\ phase = "serial" => attempt = 0 /\ \A p \in Pairs : future[p] \in {"none", "unsent", "over"}
  /\ phase \in {"submit", "drain"} => attempt > 0
  /\ phase = "drain" => \A p \in Pairs : future[p] # "unsent"
  /\ phase = "done" => \A p \in Pairs : future[p] \in {"none", "again", "over"}

\* What is on record of a pair, by where its future is.
PairInv ==
  \A p \in Pairs :
    /\ future[p] = "none" <=> p \notin pairs
    /\ future[p] = "over" <=> fate[p] \in {"ok", "error"}
    /\ fate[p] = "gaveup" => phase = "done" /\ attempt = MaxAttempts
    /\ phase = "done" /\ future[p] = "again" => fate[p] = "gaveup"
    /\ fate[p] = "ok" \/ future[p] \in {"worked", "returned"} => p \in marked

\* The pairs with a real result.
Finished == {p \in Pairs : fate[p] \in {"ok", "error"}}

CountInv == attempt > 0 => completed = Cardinality(Finished)

PoolInv == PoolTypeOK /\ PhaseInv /\ PairInv /\ CountInv

\* There are finitely many results to count.
LEMMA FinishedIsFinite == IsFiniteSet(Finished)
BY PoolAssumption, FS_Subset DEF Finished

\* The invariant says what PoolConsistent does.
LEMMA PoolImplies ==
  ASSUME PoolInv
  PROVE  PoolConsistent
BY DEF PoolInv, PoolConsistent, PhaseInv, PairInv, CountInv, Finished, PoolTypeOK,
       EveryPairAccounted, ReportedIsMarked, ProgressAddsUp

\* A run starts with nothing on record.
LEMMA LaunchKeeps ==
  ASSUME PoolInv, NEW n \in 1..MaxWorkers, NEW f \in BOOLEAN, NEW D \in SUBSET Pairs,
         RunParallel(n, f, D)
  PROVE  PoolInv'
<1> USE DEF PoolInv, RunParallel
<1>1. PoolTypeOK'
  BY PoolAssumption DEF PoolTypeOK, Futures
<1>2. \A p \in Pairs : fate[p] = "none" /\ p \notin pairs /\ future[p] = "none"
  BY DEF PhaseInv, PairInv, PoolTypeOK
<1>3. PhaseInv' /\ PairInv'
  BY <1>2 DEF PhaseInv, PairInv, PoolTypeOK
<1>4. Finished' = {}
  BY <1>2 DEF Finished
<1>5. CountInv'
  BY <1>4, FS_EmptySet DEF PhaseInv, CountInv
<1> QED
  BY <1>1, <1>3, <1>5

\* A result is collected once: a pair with one is over.
LEMMA CollectKeeps ==
  ASSUME PoolInv, NEW p \in Pairs,
         CollectResult(p) \/ CollectError(p)
  PROVE  PoolInv'
<1> USE DEF PoolInv
<1>1. PICK result \in {"returned", "raised"} :
        /\ result = "returned" => Collect(p, result, "ok")
        /\ result = "raised" => Collect(p, result, "error")
  BY DEF CollectResult, CollectError
<1>2. /\ future[p] = result
      /\ phase = "drain"
      /\ future' = [future EXCEPT ![p] = "over"]
      /\ fate' = [fate EXCEPT ![p] = IF result = "returned" THEN "ok" ELSE "error"]
      /\ completed' = completed + 1
      /\ UNCHANGED <<phase, workers, forced, pairs, attempt, broken, marked>>
  BY <1>1 DEF Collect
<1>3. PoolTypeOK'
  BY <1>2 DEF PoolTypeOK, Futures
<1>4. PhaseInv' /\ PairInv'
  BY <1>2 DEF PhaseInv, PairInv, PoolTypeOK
<1>5. CountInv'
  <2>1. p \notin Finished
    BY <1>2 DEF Finished, PairInv
  <2>2. Finished' = Finished \cup {p}
    BY <1>2 DEF Finished, PoolTypeOK
  <2>3. Cardinality(Finished') = Cardinality(Finished) + 1
    BY <2>1, <2>2, FinishedIsFinite, FS_AddElement
  <2> QED
    BY <1>2, <2>3 DEF CountInv, PhaseInv
<1> QED
  BY <1>3, <1>4, <1>5

\* A pair that is rolled up again, and so loses its marker for a while, has
\* not been reported.
LEMMA WorkersKeep ==
  ASSUME PoolInv,
         WorkerDies \/ \E p \in Pairs : Process(p) \/ CollectBroken(p)
  PROVE  PoolInv'
<1> USE DEF PoolInv, PoolTypeOK, Futures, PhaseInv, PairInv, CountInv, Finished
<1>1. ASSUME NEW p \in Pairs, BeginPair(p) PROVE PoolInv'
  BY <1>1 DEF BeginPair
<1>2. ASSUME NEW p \in Pairs, EndPair(p) PROVE PoolInv'
  BY <1>2 DEF EndPair
<1>3. ASSUME NEW p \in Pairs, Report(p) PROVE PoolInv'
  BY <1>3 DEF Report
<1>4. ASSUME NEW p \in Pairs, PairRaises(p) PROVE PoolInv'
  BY <1>4 DEF PairRaises
<1>5. ASSUME NEW p \in Pairs, CollectBroken(p) PROVE PoolInv'
  BY <1>5 DEF CollectBroken
<1>6. ASSUME WorkerDies PROVE PoolInv'
  BY <1>6 DEF WorkerDies, Move
<1> QED
  BY <1>1, <1>2, <1>3, <1>4, <1>5, <1>6 DEF Process

\* Without a pool, a pair is over once its marker is written.
LEMMA SerialKeeps ==
  ASSUME PoolInv, NEW p \in Pairs, RollupSerially(p) \/ SerialRaises(p)
  PROVE  PoolInv'
<1> USE DEF PoolInv, PoolTypeOK, Futures, PhaseInv, PairInv, CountInv
<1>1. CASE RollupSerially(p)
  <2>1. In({"unsent"}) = {p} => \A q \in Pairs \ {p} : future[q] # "unsent"
    BY DEF In
  <2> QED
    BY <1>1, <2>1 DEF RollupSerially
<1>2. CASE SerialRaises(p)
  BY <1>2 DEF SerialRaises, Finished
<1> QED
  BY <1>1, <1>2

\* Submission, fresh pools and the return lose no pair.
LEMMA PoolsKeep ==
  ASSUME PoolInv,
         SubmitRaises \/ NextPool \/ Return \/ \E p \in Pairs : Submit(p)
  PROVE  PoolInv'
<1> USE DEF PoolInv, PoolTypeOK, Futures, PhaseInv, PairInv, CountInv
<1>1. CASE SubmitRaises
  BY <1>1 DEF SubmitRaises, Finished
<1>2. ASSUME NEW p \in Pairs, Submit(p) PROVE PoolInv'
  <2>1. In({"unsent"}) = {p} => \A q \in Pairs \ {p} : future[q] # "unsent"
    BY DEF In
  <2> QED
    BY <1>2, <2>1 DEF Submit, Finished
<1>3. CASE NextPool
  <2>1. attempt' \in 1..MaxAttempts /\ Finished' = Finished /\ completed' = completed
    BY <1>3, PoolAssumption DEF NextPool, Finished
  <2>2. \A p \in Pairs :
          future'[p] = IF future[p] = "again" THEN "unsent" ELSE future[p]
    BY <1>3 DEF NextPool, Move
  <2>3. PoolTypeOK'
    <3>1. future' \in [Pairs -> Futures]
      <4>1. \A p \in Pairs : (IF future[p] = "again" THEN "unsent" ELSE future[p]) \in Futures
        OBVIOUS
      <4>2. future' = [p \in Pairs |-> IF future[p] = "again" THEN "unsent" ELSE future[p]]
        BY <1>3 DEF NextPool, Move
      <4> HIDE DEF Futures
      <4> QED
        BY <4>1, <4>2
    <3>2. attempt' \in 0..MaxAttempts
      BY <2>1, PoolAssumption
    <3> QED
      BY <1>3, <3>1, <3>2 DEF NextPool
  <2>4. PhaseInv'
    BY <1>3, <2>1 DEF NextPool
  <2>5. PairInv'
    BY <1>3, <2>2 DEF NextPool
  <2>6. CountInv'
    <3>1. attempt > 0
      BY <1>3 DEF NextPool
    <3> QED
      BY <2>1, <3>1
  <2> QED
    BY <2>3, <2>4, <2>5, <2>6
<1>4. CASE Return
  <2>1. \A p \in Pairs : future[p] \in {"none", "again", "over"}
    BY <1>4 DEF Return, Drained, In
  <2>2. \A p \in Pairs : future[p] = "again" => attempt = MaxAttempts
    BY <1>4 DEF Return, In
  <2>3. Finished' = Finished
    BY <1>4 DEF Return, Finished
  <2>4. PoolTypeOK' /\ PhaseInv' /\ PairInv'
    BY <1>4, <2>1, <2>2 DEF Return
  <2> QED
    BY <1>4, <2>3, <2>4 DEF Return
<1> QED
  BY <1>1, <1>2, <1>3, <1>4

\* Whatever breaks and whenever: every pair that was discovered is accounted
\* for, none is reported without its marker, none counts twice.
THEOREM PoolStaysConsistent == PoolSpec => []PoolConsistent
<1>1. PoolInit => PoolInv
  <2> SUFFICES ASSUME PoolInit PROVE PoolInv
    OBVIOUS
  <2>1. future \in [Pairs -> Futures]
    <3>1. "none" \in Futures
      BY DEF Futures
    <3> QED
      BY <3>1 DEF PoolInit
  <2>2. fate \in [Pairs -> {"none", "ok", "error", "gaveup"}]
    BY DEF PoolInit
  <2>3. PoolTypeOK
    <3>1. workers \in 0..MaxWorkers /\ attempt \in 0..MaxAttempts /\ completed \in Nat
      BY PoolAssumption DEF PoolInit
    <3>2. phase = "idle" /\ pairs \in SUBSET Pairs /\ marked \in SUBSET Pairs
      BY DEF PoolInit
    <3>3. forced \in BOOLEAN /\ broken \in BOOLEAN
      BY DEF PoolInit
    <3> QED
      BY <2>1, <2>2, <3>1, <3>2, <3>3 DEF PoolTypeOK
  <2>4. PhaseInv /\ PairInv /\ CountInv
    BY DEF PoolInit, PhaseInv, PairInv, CountInv
  <2> QED
    BY <2>3, <2>4 DEF PoolInv
<1>2. PoolInv /\ [PoolNext]_poolVars => PoolInv'
  <2> SUFFICES ASSUME PoolInv, [PoolNext]_poolVars PROVE PoolInv'
    OBVIOUS
  <2>1. CASE PoolNext
    BY <2>1, LaunchKeeps, CollectKeeps, WorkersKeep, SerialKeeps, PoolsKeep
       DEF PoolNext, Launch, Parent
  <2>2. CASE UNCHANGED poolVars
    BY <2>2 DEF poolVars, PoolInv, PoolTypeOK, PhaseInv, PairInv, CountInv, Finished
  <2> QED
    BY <2>1, <2>2
<1> QED
  BY <1>1, <1>2, PoolImplies, PTL DEF PoolSpec

-----------------------------------------------------------------------------
(* The rate limit.                                                         *)

\* Later refills add to earlier ones at most what is minted in between.
LEMMA MoreTimeMoreTokens ==
  ASSUME NEW k \in 0..Capacity, NEW m \in Nat
  PROVE  /\ Refilled(k, m) \in 0..Capacity
         /\ k <= Refilled(k, m)
         /\ Refilled(k, 0) = k
         /\ Refilled(k, m) <= Refilled(k, m + 1)
         /\ Refilled(k, m + 1) <= Refilled(k, m) + Refill
<1>1. \A a \in Nat : LET held == IF k + a <= Capacity THEN k + a ELSE Capacity
                         next == IF k + (a + Refill) <= Capacity
                                   THEN k + (a + Refill) ELSE Capacity
                     IN  /\ held \in 0..Capacity
                         /\ k <= held
                         /\ held <= next
                         /\ next <= held + Refill
  BY BucketAssumption
<1>2. m * Refill \in Nat
  BY BucketAssumption
<1>3. (m + 1) * Refill = m * Refill + Refill
  BY BucketAssumption
<1>4. Refilled(k, 0) = k
  <2>1. 0 * Refill = 0
    BY BucketAssumption
  <2> QED
    BY <2>1, BucketAssumption DEF Refilled
<1> QED
  BY <1>1, <1>2, <1>3, <1>4 DEF Refilled

\* What the bucket holds now, and since when.
LEMMA HeldType ==
  ASSUME RateTypeOK
  PROVE  Elapsed \in Nat /\ Refilled(tokens, Elapsed) \in 0..Capacity
<1>1. Elapsed \in Nat
  BY DEF RateTypeOK, Elapsed
<1>2. tokens \in 0..Capacity
  BY DEF RateTypeOK
<1> QED
  BY <1>1, <1>2, MoreTimeMoreTokens

\* Types, with the tokens between nothing and the capacity (TokenBucket).
THEOREM RateTypeCorrect == RateSpec => []RateTypeOK
<1>1. RateInit => RateTypeOK
  <2>1. RateInit => observed \in BOOLEAN
    BY Zenon DEF RateInit
  <2>2. RateInit => /\ clock \in Nat
                /\ tokens \in 0..Capacity
                /\ lastRefill \in 0..clock
                /\ since \in 0..clock
                /\ granted \in Nat
    BY BucketAssumption DEF RateInit
  <2> QED
    BY <2>1, <2>2 DEF RateTypeOK
<1>2. RateTypeOK /\ [RateNext]_rateVars => RateTypeOK'
  <2> SUFFICES ASSUME RateTypeOK, [RateNext]_rateVars
               PROVE  RateTypeOK'
    OBVIOUS
  <2> USE DEF RateTypeOK
  <2>1. Refilled(tokens, Elapsed) \in 0..Capacity
    BY HeldType
  <2>2. CASE Grant
    BY <2>1, <2>2, BucketAssumption DEF Grant
  <2>3. CASE Refuse
    BY <2>1, <2>3, BucketAssumption DEF Refuse
  <2>4. CASE RateTick
    BY <2>4 DEF RateTick
  <2>5. CASE Observe
    BY <2>5 DEF Observe
  <2>6. CASE UNCHANGED rateVars
    BY <2>6 DEF rateVars
  <2> QED
    BY <2>2, <2>3, <2>4, <2>5, <2>6 DEF RateNext
<1> QED
  BY <1>1, <1>2, PTL DEF RateSpec

\* Requests granted and tokens held are covered by one full bucket and by
\* what was minted since the observation began.
THEOREM BudgetInvariance == RateSpec => []BudgetKept
<1>1. RateInit => BudgetKept
  BY DEF RateInit, BudgetKept
<1>2. RateTypeOK /\ BudgetKept /\ [RateNext]_rateVars => BudgetKept'
  <2> SUFFICES ASSUME RateTypeOK, BudgetKept, [RateNext]_rateVars
               PROVE  BudgetKept'
    OBVIOUS
  <2> DEFINE Held   == Refilled(tokens, Elapsed)
             Minted == (clock - since) * Refill
             Spent  == granted * Cost
  <2>1. Held \in 0..Capacity /\ Minted \in Nat /\ Spent \in Nat
    BY HeldType, BucketAssumption DEF RateTypeOK
  <2>2. observed => Spent + Held <= Capacity + Minted
    BY DEF BudgetKept
  <2>3. CASE Grant
    <3>1. (granted + 1) * Cost = Spent + Cost
      BY BucketAssumption DEF RateTypeOK
    <3>2. Refilled(Held - Cost, 0) = Held - Cost /\ clock - clock = 0
      BY <2>1, <2>3, MoreTimeMoreTokens, BucketAssumption DEF Grant, RateTypeOK
    <3>3. Spent' = Spent + Cost /\ Held' = Held - Cost /\ Minted' = Minted
      BY <2>3, <3>1, <3>2 DEF Grant, Elapsed
    <3>4. Spent' + Held' = Spent + Held
      BY <2>1, <3>3, BucketAssumption
    <3> QED
      BY <2>2, <2>3, <3>3, <3>4 DEF BudgetKept, Grant
  <2>4. CASE Refuse
    <3>1. Refilled(Held, 0) = Held /\ clock - clock = 0
      BY <2>1, MoreTimeMoreTokens DEF RateTypeOK
    <3>2. Spent' = Spent /\ Held' = Held /\ Minted' = Minted
      BY <2>4, <3>1 DEF Refuse, Elapsed
    <3> QED
      BY <2>2, <2>4, <3>2 DEF BudgetKept, Refuse
  <2>5. CASE RateTick
    <3>1. Elapsed \in Nat /\ Elapsed' = Elapsed + 1
      BY <2>5 DEF RateTick, Elapsed, RateTypeOK
    <3>2. Held' = Refilled(tokens, Elapsed + 1)
      BY <2>5, <3>1 DEF RateTick
    <3>3. tokens \in 0..Capacity /\ Elapsed + 1 \in Nat
      BY <3>1 DEF RateTypeOK
    <3>4. Held' \in 0..Capacity /\ Held' <= Held + Refill
      BY <3>1, <3>2, <3>3, MoreTimeMoreTokens
    <3>5. Minted' = Minted + Refill
      BY <2>5, BucketAssumption DEF RateTick, RateTypeOK
    <3>6. Spent' = Spent /\ observed' = observed
      BY <2>5 DEF RateTick
    <3>7. observed => Spent + Held' <= Capacity + Minted'
      BY <2>1, <2>2, <3>4, <3>5, BucketAssumption
    <3> QED
      BY <3>6, <3>7 DEF BudgetKept
  <2>6. CASE Observe
    <3>1. 0 * Cost = 0 /\ (clock - clock) * Refill = 0
      BY BucketAssumption DEF RateTypeOK
    <3>2. Spent' = 0 /\ Minted' = 0 /\ Held' = Held
      BY <2>6, <3>1 DEF Observe, Elapsed
    <3> QED
      BY <2>1, <3>2, BucketAssumption DEF BudgetKept
  <2>7. CASE UNCHANGED rateVars
    BY <2>2, <2>7 DEF rateVars, BudgetKept, Elapsed
  <2> QED
    BY <2>3, <2>4, <2>5, <2>6, <2>7 DEF RateNext
<1> QED
  BY <1>1, <1>2, RateTypeCorrect, PTL DEF RateSpec

\* Over every period and for every capacity and refill rate, the grants stay
\* within the limit.
THEOREM RateLimited == RateSpec => []RateBound
<1>1. RateTypeOK /\ BudgetKept => RateBound
  <2> SUFFICES ASSUME RateTypeOK, BudgetKept, observed
               PROVE  granted * Cost <= Capacity + (clock - since) * Refill
    BY DEF RateBound
  <2>1. Refilled(tokens, Elapsed) \in 0..Capacity
    BY HeldType
  <2>2. granted * Cost \in Nat /\ (clock - since) * Refill \in Nat
    BY BucketAssumption DEF RateTypeOK
  <2> QED
    BY <2>1, <2>2, BucketAssumption DEF BudgetKept
<1> QED
  BY <1>1, RateTypeCorrect, BudgetInvariance, PTL

-----------------------------------------------------------------------------
(* A task of the batch keeps to ChainSound.                                *)
(*                                                                         *)
(* The argument has four parts: which commands an agency is given and in   *)
(* which order; an invariant that says of every feed what was done, was    *)
(* missed or is still to come; what a single command may change; and that  *)
(* each of these changes keeps the invariant.                              *)

(* The commands of an agency.                                              *)

ChainSteps ==
  {"cold-ship", "rollup", "compact", "interim-ship", "gtfs", "gold", "snapshot",
   "hot-ship"}

Command == [step : ChainSteps, feeds : SUBSET BatchFeeds]

\* The part of the chain that a step belongs to.
PartOf(step) ==
  CASE step = "cold-ship" -> 1
    [] step \in {"rollup", "compact", "interim-ship"} -> 2
    [] step \in {"gtfs", "gold", "snapshot"} -> 3
    [] step = "hot-ship" -> 4

\* A command is of one feed of the agency, or of all of them.
OfFeeds(g, c) ==
  IF PartOf(c.step) = 3 THEN c.feeds = FeedsOf(g)
                        ELSE \E f \in FeedsOf(g) : c.feeds = {f}

FollowedBy(s, i, step) ==
  i + 1 \in 1..Len(s) /\ s[i + 1].step = step /\ s[i + 1].feeds = s[i].feeds

\* A sequence of commands of parts lo to hi, in order, in which each rollup is
\* followed by its feed's compaction, and that by its ship.
WellFormed(g, s, lo, hi) ==
  /\ s \in Seq(Command)
  /\ \A i \in 1..Len(s) :
       /\ OfFeeds(g, s[i])
       /\ lo <= PartOf(s[i].step) /\ PartOf(s[i].step) <= hi
       /\ s[i].step = "rollup" => FollowedBy(s, i, "compact")
       /\ s[i].step = "compact" => FollowedBy(s, i, "interim-ship")
       /\ \A j \in 1..i : PartOf(s[j].step) <= PartOf(s[i].step)

Has(s, step, f) == \E i \in 1..Len(s) : s[i] = [step |-> step, feeds |-> {f}]

Only(s, step) == \A i \in 1..Len(s) : s[i].step = step

\* Each command is of one of the four parts.
LEMMA PartIsInt == \A c \in Command : PartOf(c.step) \in 1..4
BY DEF Command, ChainSteps, PartOf

\* Chains of earlier and later parts make a chain.
LEMMA WellFormedConcat ==
  ASSUME NEW g, NEW s, NEW t,
         NEW lo \in Int, NEW mid \in Int, NEW next \in Int, NEW hi \in Int,
         lo <= mid, mid <= next, next <= hi,
         WellFormed(g, s, lo, mid), WellFormed(g, t, next, hi)
  PROVE  WellFormed(g, s \o t, lo, hi)
<1> DEFINE u == s \o t
<1>1. /\ u \in Seq(Command)
      /\ Len(u) = Len(s) + Len(t)
      /\ Len(s) \in Nat /\ Len(t) \in Nat
      /\ \A i \in 1..Len(s) : u[i] = s[i]
      /\ \A i \in 1..Len(t) : u[Len(s) + i] = t[i]
      /\ \A i \in 1..Len(u) : i \in 1..Len(s) \/ i - Len(s) \in 1..Len(t)
  BY DEF WellFormed
<1>2. \A i \in 1..Len(s) : s[i] \in Command /\ PartOf(s[i].step) \in 1..4
  BY PartIsInt DEF WellFormed
<1>3. \A i \in 1..Len(t) : t[i] \in Command /\ PartOf(t[i].step) \in 1..4
  BY PartIsInt DEF WellFormed
<1> HIDE DEF u
<1>4. ASSUME NEW i \in 1..Len(u), i \in 1..Len(s)
      PROVE /\ OfFeeds(g, u[i])
            /\ lo <= PartOf(u[i].step) /\ PartOf(u[i].step) <= hi
            /\ u[i].step = "rollup" => FollowedBy(u, i, "compact")
            /\ u[i].step = "compact" => FollowedBy(u, i, "interim-ship")
            /\ \A j \in 1..i : PartOf(u[j].step) <= PartOf(u[i].step)
  <2>1. /\ OfFeeds(g, s[i])
        /\ lo <= PartOf(s[i].step) /\ PartOf(s[i].step) <= mid
        /\ s[i].step = "rollup" => FollowedBy(s, i, "compact")
        /\ s[i].step = "compact" => FollowedBy(s, i, "interim-ship")
        /\ \A j \in 1..i : PartOf(s[j].step) <= PartOf(s[i].step)
    BY <1>4 DEF WellFormed
  <2> DEFINE n == Len(s)
  <2>a. n \in Nat /\ \A j \in 1..n : u[j] = s[j]
    BY <1>1
  <2>b. i \in 1..n
    BY <1>4
  <2> HIDE DEF n
  <2>c. \A j \in 1..i : j \in 1..n
    BY <2>a, <2>b
  <2>2. u[i] = s[i] /\ \A j \in 1..i : u[j] = s[j]
    BY <2>a, <2>b, <2>c
  <2>3. \A step : FollowedBy(s, i, step) => FollowedBy(u, i, step)
    BY <1>1, <2>2 DEF FollowedBy
  <2>4. PartOf(u[i].step) \in Int /\ PartOf(u[i].step) <= hi
    BY <2>1, <2>2, <1>2, <1>4
  <2>5. \A j \in 1..i : PartOf(u[j].step) <= PartOf(u[i].step)
    BY <2>1, <2>2
  <2> QED
    BY <2>1, <2>2, <2>3, <2>4, <2>5
<1>5. ASSUME NEW i \in 1..Len(u), i \notin 1..Len(s)
      PROVE /\ OfFeeds(g, u[i])
            /\ lo <= PartOf(u[i].step) /\ PartOf(u[i].step) <= hi
            /\ u[i].step = "rollup" => FollowedBy(u, i, "compact")
            /\ u[i].step = "compact" => FollowedBy(u, i, "interim-ship")
            /\ \A j \in 1..i : PartOf(u[j].step) <= PartOf(u[i].step)
  <2> DEFINE k == i - Len(s)
  <2>1. k \in 1..Len(t) /\ u[i] = t[k] /\ i = Len(s) + k
    BY <1>1, <1>5
  <2> HIDE DEF k
  <2>2. /\ OfFeeds(g, t[k])
        /\ next <= PartOf(t[k].step) /\ PartOf(t[k].step) <= hi
        /\ t[k].step = "rollup" => FollowedBy(t, k, "compact")
        /\ t[k].step = "compact" => FollowedBy(t, k, "interim-ship")
        /\ \A j \in 1..k : PartOf(t[j].step) <= PartOf(t[k].step)
    BY <2>1 DEF WellFormed
  <2>3. ASSUME NEW step, FollowedBy(t, k, step) PROVE FollowedBy(u, i, step)
    <3>1. k + 1 \in 1..Len(t) /\ i + 1 = Len(s) + (k + 1)
      BY <2>3, <2>1, <1>1 DEF FollowedBy
    <3>2. u[i + 1] = t[k + 1] /\ i + 1 \in 1..Len(u)
      BY <3>1, <1>1
    <3> QED
      BY <3>2, <2>3, <2>1 DEF FollowedBy
  <2>4. ASSUME NEW j \in 1..i PROVE PartOf(u[j].step) <= PartOf(u[i].step)
    <3>1. CASE j \in 1..Len(s)
      <4>1. u[j] = s[j] /\ PartOf(s[j].step) <= mid
        BY <3>1, <1>1 DEF WellFormed
      <4>2. PartOf(s[j].step) \in Int /\ PartOf(t[k].step) \in Int
        <5>1. PartOf(s[j].step) \in Int
          BY <3>1, <1>2
        <5>2. PartOf(t[k].step) \in Int
          BY <2>1, <1>3
        <5> QED
          BY <5>1, <5>2
      <4>3. PartOf(s[j].step) <= mid /\ next <= PartOf(t[k].step)
        BY <4>1, <2>2
      <4>4. PartOf(s[j].step) <= PartOf(t[k].step)
        BY <4>2, <4>3
      <4> QED
        BY <4>1, <4>4, <2>1
    <3>2. CASE j \notin 1..Len(s)
      <4>1. j - Len(s) \in 1..k /\ j - Len(s) \in 1..Len(t)
        BY <3>2, <1>1, <2>1
      <4>2. Len(s) + (j - Len(s)) = j
        BY <1>1
      <4>3. u[j] = t[j - Len(s)]
        BY <4>1, <4>2, <1>1
      <4> QED
        BY <4>1, <4>3, <2>1, <2>2
    <3> QED
      BY <3>1, <3>2
  <2>5. PartOf(u[i].step) \in Int /\ lo <= PartOf(u[i].step)
    BY <2>1, <2>2, <1>3, SMTT(30)
  <2>6. OfFeeds(g, u[i]) /\ PartOf(u[i].step) <= hi
    BY <2>1, <2>2
  <2>7. /\ u[i].step = "rollup" => FollowedBy(u, i, "compact")
        /\ u[i].step = "compact" => FollowedBy(u, i, "interim-ship")
    BY <2>1, <2>2, <2>3
  <2> QED
    BY <2>4, <2>5, <2>6, <2>7
<1> QED
  BY <1>1, <1>4, <1>5 DEF WellFormed, u

\* So does what remains after the first command.
LEMMA WellFormedTail ==
  ASSUME NEW g, NEW s, s # <<>>, WellFormed(g, s, 1, 4)
  PROVE  /\ WellFormed(g, Tail(s), 1, 4)
         /\ Head(s) = s[1] /\ Head(s) \in Command
         /\ 1 \in 1..Len(s)
         /\ OfFeeds(g, Head(s))
         /\ Len(Tail(s)) = Len(s) - 1
         /\ \A i \in 1..(Len(s) - 1) : Tail(s)[i] = s[i + 1]
<1>1. /\ s \in Seq(Command) /\ Len(s) \in Nat /\ Len(s) > 0
      /\ Tail(s) \in Seq(Command) /\ Len(Tail(s)) = Len(s) - 1
      /\ \A i \in 1..(Len(s) - 1) : Tail(s)[i] = s[i + 1]
      /\ Head(s) = s[1] /\ Head(s) \in Command
  BY DEF WellFormed
<1>2. ASSUME NEW i \in 1..Len(Tail(s))
      PROVE /\ OfFeeds(g, Tail(s)[i])
            /\ 1 <= PartOf(Tail(s)[i].step) /\ PartOf(Tail(s)[i].step) <= 4
            /\ Tail(s)[i].step = "rollup" => FollowedBy(Tail(s), i, "compact")
            /\ Tail(s)[i].step = "compact" => FollowedBy(Tail(s), i, "interim-ship")
            /\ \A j \in 1..i : PartOf(Tail(s)[j].step) <= PartOf(Tail(s)[i].step)
  <2>1. i + 1 \in 1..Len(s) /\ Tail(s)[i] = s[i + 1]
    BY <1>1
  <2>2. \A step : FollowedBy(s, i + 1, step) => FollowedBy(Tail(s), i, step)
    BY <1>1, <2>1 DEF FollowedBy
  <2>3. \A j \in 1..i : Tail(s)[j] = s[j + 1] /\ j + 1 \in 1..(i + 1)
    BY <1>1
  <2> QED
    BY <2>1, <2>2, <2>3 DEF WellFormed
<1> QED
  BY <1>1, <1>2 DEF WellFormed

\* The empty chain.
LEMMA WellFormedEmpty ==
  ASSUME NEW g, NEW lo, NEW hi
  PROVE  WellFormed(g, <<>>, lo, hi)
BY DEF WellFormed

\* A function over 1..n to commands is a sequence of n commands.
LEMMA CommandSeq ==
  ASSUME NEW n \in Nat, NEW s \in [1..n -> Command]
  PROVE  s \in Seq(Command) /\ Len(s) = n
<1>1. s \in Seq(Command)
  BY SeqDef
<1>2. Len(s) \in Nat /\ DOMAIN s = 1..Len(s)
  BY <1>1, LenProperties
<1>3. DOMAIN s = 1..n
  OBVIOUS
<1> QED
  BY <1>1, <1>2, <1>3

\* The commands that PerFeed makes: for the feed j, the step r.
LEMMA PerFeedCommands ==
  ASSUME NEW g \in GroupIds, NEW k \in {1, 3}, NEW steps \in Seq(ChainSteps),
         Len(steps) = k
  PROVE  LET n == Len(Groups[g])
             s == PerFeed(g, steps)
         IN  /\ n \in Nat
             /\ s \in Seq(Command)
             /\ Len(s) = k * n
             /\ \A i \in 1..(k * n) :
                  \E j \in 1..n, r \in 1..k : i = k * (j - 1) + r
             /\ \A i \in Int, j \in 1..n, r \in 1..k :
                  i = k * (j - 1) + r =>
                    /\ i \in 1..(k * n)
                    /\ s[i] = [step |-> steps[r], feeds |-> {Groups[g][j]}]
<1> DEFINE n == Len(Groups[g])
           s == PerFeed(g, steps)
<1>1. n \in Nat /\ k \in Nat /\ k * n \in Nat
  BY AgencyBatchAssumption
<1>2. \A j \in 1..n : Groups[g][j] \in BatchFeeds
  BY AgencyBatchAssumption DEF FeedsOf, BatchFeeds
<1> HIDE DEF n
<1>3. ASSUME NEW j \in 1..n, NEW r \in 1..k
      PROVE  LET i == k * (j - 1) + r
             IN  i \in 1..(k * n) /\ ((i - 1) % k) + 1 = r /\ ((i - 1) \div k) + 1 = j
  <2>1. CASE k = 1
    BY <2>1, <1>1
  <2>2. CASE k = 3
    BY <2>2, <1>1
  <2> QED
    BY <2>1, <2>2
<1>4. ASSUME NEW i \in 1..(k * n)
      PROVE  \E j \in 1..n, r \in 1..k : i = k * (j - 1) + r
  <2>1. CASE k = 1
    <3>1. i \in 1..n /\ 1 \in 1..k /\ i = k * (i - 1) + 1
      BY <2>1, <1>1
    <3> QED
      BY <3>1
  <2>2. CASE k = 3
    <3>1. ((i - 1) \div 3) + 1 \in 1..n /\ ((i - 1) % 3) + 1 \in 1..3
      BY <2>2, <1>1
    <3>2. i = 3 * ((((i - 1) \div 3) + 1) - 1) + (((i - 1) % 3) + 1)
      BY <2>2, <1>1
    <3> QED
      BY <3>1, <3>2, <2>2
  <2> QED
    BY <2>1, <2>2
<1>5. /\ DOMAIN s = 1..(Len(steps) * n)
      /\ \A i \in 1..(Len(steps) * n) :
           s[i] = [step |-> steps[((i - 1) % Len(steps)) + 1],
                   feeds |-> {Groups[g][((i - 1) \div Len(steps)) + 1]}]
      /\ s = [i \in DOMAIN s |-> s[i]]
  BY DEF PerFeed, n
<1> HIDE DEF s
<1>6. /\ DOMAIN s = 1..(k * n)
      /\ \A i \in 1..(k * n) :
           s[i] = [step |-> steps[((i - 1) % k) + 1],
                   feeds |-> {Groups[g][((i - 1) \div k) + 1]}]
  BY <1>5, Zenon
<1>7. ASSUME NEW j \in 1..n, NEW r \in 1..k
      PROVE  s[k * (j - 1) + r] = [step |-> steps[r], feeds |-> {Groups[g][j]}]
  <2> DEFINE i == k * (j - 1) + r
  <2>1. i \in 1..(k * n) /\ ((i - 1) % k) + 1 = r /\ ((i - 1) \div k) + 1 = j
    BY <1>3
  <2>2. s[i] = [step |-> steps[((i - 1) % k) + 1],
                feeds |-> {Groups[g][((i - 1) \div k) + 1]}]
    BY <2>1, <1>6, Zenon
  <2> HIDE DEF i
  <2>3. s[i] = [step |-> steps[r], feeds |-> {Groups[g][j]}]
    BY <2>1, <2>2, Zenon
  <2> QED
    BY <2>3 DEF i
<1>8. ASSUME NEW i \in 1..(k * n) PROVE s[i] \in Command
  <2>1. PICK j \in 1..n, r \in 1..k : i = k * (j - 1) + r
    BY <1>4
  <2>2. s[i] = [step |-> steps[r], feeds |-> {Groups[g][j]}]
    BY <2>1, <1>7
  <2>3. steps[r] \in ChainSteps
    OBVIOUS
  <2> QED
    BY <2>2, <2>3, <1>2 DEF Command
<1>9. s \in [1..(k * n) -> Command]
  BY <1>5, <1>6, <1>8
<1>10. s \in Seq(Command) /\ Len(s) = k * n
  BY <1>1, <1>9, CommandSeq
<1>11. \A j \in 1..n, r \in 1..k : k * (j - 1) + r \in 1..(k * n)
  BY <1>3
<1> QED
  BY <1>1, <1>4, <1>7, <1>10, <1>11 DEF s, n

\* One ship for each feed is a part of a chain.
LEMMA PerFeedOne ==
  ASSUME NEW g \in GroupIds, NEW step \in {"cold-ship", "hot-ship"}
  PROVE  /\ WellFormed(g, PerFeed(g, <<step>>), PartOf(step), PartOf(step))
         /\ \A f \in FeedsOf(g) : Has(PerFeed(g, <<step>>), step, f)
<1> DEFINE steps == <<step>>
           s == PerFeed(g, steps)
           n == Len(Groups[g])
<1>1. FeedsOf(g) = {Groups[g][i] : i \in 1..n}
  BY DEF FeedsOf
<1>2. steps \in Seq(ChainSteps) /\ Len(steps) = 1 /\ steps[1] = step
  BY DEF ChainSteps
<1> HIDE DEF steps
<1>3. /\ n \in Nat
      /\ s \in Seq(Command)
      /\ Len(s) = 1 * n
      /\ \A i \in Int, j \in 1..n, r \in 1..1 :
           i = 1 * (j - 1) + r =>
             s[i] = [step |-> steps[r], feeds |-> {Groups[g][j]}]
  BY <1>2, PerFeedCommands
<1> HIDE DEF s, n
<1>4. Len(s) = n
  BY <1>3
<1>5. ASSUME NEW i \in 1..n PROVE s[i] = [step |-> step, feeds |-> {Groups[g][i]}]
  <2>1. PICK r \in 1..1 : r = 1
    OBVIOUS
  <2>2. i \in Int /\ i = 1 * (i - 1) + r
    BY <2>1, <1>3
  <2>3. s[i] = [step |-> steps[r], feeds |-> {Groups[g][i]}]
    BY <2>2, <1>3, Zenon
  <2> QED
    BY <2>1, <2>3, <1>2
<1>6. PartOf(step) \in Int /\ PartOf(step) # 3 /\ step \notin {"rollup", "compact"}
  BY DEF PartOf
<1>7. ASSUME NEW i \in 1..n
      PROVE  /\ s[i].step = step
             /\ s[i].feeds = {Groups[g][i]}
             /\ Groups[g][i] \in FeedsOf(g)
  <2>1. Groups[g][i] \in FeedsOf(g)
    BY <1>1
  <2>2. s[i] = [step |-> step, feeds |-> {Groups[g][i]}]
    BY <1>5
  <2> QED
    BY <2>1, <2>2
<1>8. ASSUME NEW i \in 1..n PROVE OfFeeds(g, s[i])
  <2>1. PartOf(s[i].step) # 3
    BY <1>6, <1>7
  <2>2. \E f \in FeedsOf(g) : s[i].feeds = {f}
    BY <1>7
  <2> QED
    BY <2>1, <2>2 DEF OfFeeds
<1>9. WellFormed(g, s, PartOf(step), PartOf(step))
  BY <1>3, <1>4, <1>6, <1>7, <1>8 DEF WellFormed
<1>10. \A f \in FeedsOf(g) : Has(s, step, f)
  BY <1>1, <1>4, <1>5 DEF Has
<1> QED
  BY <1>9, <1>10 DEF s, steps

\* Each feed's rollup, compaction and ship in turn are a part of a chain.
LEMMA PerFeedRollup ==
  ASSUME NEW g \in GroupIds
  PROVE  LET s == PerFeed(g, <<"rollup", "compact", "interim-ship">>)
         IN  WellFormed(g, s, 2, 2) /\ \A f \in FeedsOf(g) : Has(s, "rollup", f)
<1> DEFINE n == Len(Groups[g])
           steps == <<"rollup", "compact", "interim-ship">>
           s == PerFeed(g, steps)
<1>1. FeedsOf(g) = {Groups[g][i] : i \in 1..n}
  BY DEF FeedsOf
<1>2. /\ steps \in Seq(ChainSteps)
      /\ Len(steps) = 3
      /\ steps[1] = "rollup" /\ steps[2] = "compact" /\ steps[3] = "interim-ship"
  BY DEF ChainSteps
<1> HIDE DEF steps
<1>3. /\ n \in Nat
      /\ s \in Seq(Command)
      /\ Len(s) = 3 * n
      /\ \A i \in 1..(3 * n) : \E j \in 1..n, r \in 1..3 : i = 3 * (j - 1) + r
      /\ \A i \in Int, j \in 1..n, r \in 1..3 :
           i = 3 * (j - 1) + r =>
             /\ i \in 1..(3 * n)
             /\ s[i] = [step |-> steps[r], feeds |-> {Groups[g][j]}]
  BY <1>2, PerFeedCommands
<1> HIDE DEF s, n
<1>4. ASSUME NEW i \in 1..(3 * n)
      PROVE  /\ s[i].step \in {"rollup", "compact", "interim-ship"}
             /\ \E f \in FeedsOf(g) : s[i].feeds = {f}
             /\ s[i].step = "rollup" => FollowedBy(s, i, "compact")
             /\ s[i].step = "compact" => FollowedBy(s, i, "interim-ship")
  <2>1. PICK j \in 1..n, r \in 1..3 : i = 3 * (j - 1) + r
    BY <1>3
  <2>2. /\ s[i].step = steps[r] /\ s[i].feeds = {Groups[g][j]}
        /\ Groups[g][j] \in FeedsOf(g)
    <3>1. i \in Int
      BY <1>3
    <3>2. s[i] = [step |-> steps[r], feeds |-> {Groups[g][j]}]
      BY <3>1, <2>1, <1>3, ZenonT(30)
    <3> QED
      BY <3>2, <1>1
  <2>3. CASE r = 1
    <3>1. PICK e \in Int, q \in 1..3 : e = i + 1 /\ q = 2
      BY <1>3
    <3>2. e = 3 * (j - 1) + q
      BY <3>1, <2>1, <2>3, <1>3
    <3>3. e \in 1..(3 * n) /\ s[e] = [step |-> steps[q], feeds |-> {Groups[g][j]}]
      BY <3>2, <1>3, ZenonT(30)
    <3> QED
      BY <2>2, <2>3, <3>1, <3>3, <1>2, <1>3, SMTT(30) DEF FollowedBy
  <2>4. CASE r = 2
    <3>1. PICK e \in Int, q \in 1..3 : e = i + 1 /\ q = 3
      BY <1>3
    <3>2. e = 3 * (j - 1) + q
      BY <3>1, <2>1, <2>4, <1>3
    <3>3. e \in 1..(3 * n) /\ s[e] = [step |-> steps[q], feeds |-> {Groups[g][j]}]
      BY <3>2, <1>3, ZenonT(30)
    <3> QED
      BY <2>2, <2>4, <3>1, <3>3, <1>2, <1>3, SMTT(30) DEF FollowedBy
  <2>5. CASE r = 3
    BY <2>2, <2>5, <1>2
  <2> QED
    BY <2>3, <2>4, <2>5
<1>5. WellFormed(g, s, 2, 2)
  <2>1. \A i \in 1..(3 * n) : PartOf(s[i].step) = 2
    BY <1>4 DEF PartOf
  <2>2. \A i \in 1..(3 * n) : OfFeeds(g, s[i])
    BY <2>1, <1>4 DEF OfFeeds
  <2> QED
    BY <2>1, <2>2, <1>3, <1>4 DEF WellFormed
<1>6. ASSUME NEW f \in FeedsOf(g) PROVE Has(s, "rollup", f)
  <2>1. PICK j \in 1..n : f = Groups[g][j]
    BY <1>1
  <2>2. PICK i \in Int, q \in 1..3 : i = 3 * (j - 1) + 1 /\ q = 1
    BY <1>3
  <2>3. i = 3 * (j - 1) + q
    BY <2>2, <1>3
  <2>4. i \in 1..(3 * n) /\ s[i] = [step |-> steps[q], feeds |-> {Groups[g][j]}]
    BY <2>3, <1>3, ZenonT(30)
  <2>5. i \in 1..Len(s) /\ s[i] = [step |-> "rollup", feeds |-> {f}]
    BY <2>1, <2>2, <2>4, <1>2, <1>3
  <2> QED
    BY <2>5 DEF Has
<1> QED
  BY <1>5, <1>6 DEF s, steps

\* A command for all feeds is a part of a chain.
LEMMA OfAgencyWellFormed ==
  ASSUME NEW g \in GroupIds, NEW step \in {"gtfs", "gold", "snapshot"}, NEW stages
  PROVE  WellFormed(g, OfAgency(g, step, stages), 3, 3)
<1> DEFINE c == [step |-> step, feeds |-> FeedsOf(g)]
<1>1. c \in Command /\ c.step = step /\ c.feeds = FeedsOf(g)
  BY DEF Command, ChainSteps, BatchFeeds
<1>2. PartOf(step) = 3 /\ step \notin {"rollup", "compact"}
  BY DEF PartOf
<1> HIDE DEF c
<1>3. WellFormed(g, <<c>>, 3, 3)
  <2>1. <<c>> \in Seq(Command) /\ Len(<<c>>) = 1 /\ <<c>>[1] = c
    BY <1>1
  <2>2. OfFeeds(g, c)
    BY <1>1, <1>2 DEF OfFeeds
  <2> QED
    BY <2>1, <2>2, <1>1, <1>2 DEF WellFormed
<1>4. OfAgency(g, step, stages) \in {<<c>>, <<>>}
  BY DEF OfAgency, When, c
<1> QED
  BY <1>3, <1>4, WellFormedEmpty

\* A concatenation has the commands of both.
LEMMA HasConcat ==
  ASSUME NEW s \in Seq(Command), NEW t \in Seq(Command), NEW step, NEW f,
         Has(s, step, f) \/ Has(t, step, f)
  PROVE  Has(s \o t, step, f)
<1> DEFINE u == s \o t
<1>1. /\ Len(s) \in Nat /\ Len(t) \in Nat
      /\ Len(u) = Len(s) + Len(t)
      /\ \A i \in 1..Len(s) : u[i] = s[i]
      /\ \A i \in 1..Len(t) : u[Len(s) + i] = t[i]
  OBVIOUS
<1> HIDE DEF u
<1>2. CASE Has(s, step, f)
  <2>1. PICK i \in 1..Len(s) : s[i] = [step |-> step, feeds |-> {f}]
    BY <1>2 DEF Has
  <2>2. i \in 1..Len(u) /\ u[i] = s[i]
    BY <1>1
  <2> QED
    BY <2>1, <2>2 DEF Has, u
<1>3. CASE Has(t, step, f)
  <2>1. PICK i \in 1..Len(t) : t[i] = [step |-> step, feeds |-> {f}]
    BY <1>3 DEF Has
  <2>2. Len(s) + i \in 1..Len(u) /\ u[Len(s) + i] = t[i]
    BY <1>1
  <2> QED
    BY <2>1, <2>2 DEF Has, u
<1> QED
  BY <1>2, <1>3

\* Commands, for stages as resolve_stages leaves them.
LEMMA CommandsWellFormed ==
  ASSUME NEW g \in GroupIds, NEW stages,
         stages \cap ProducerStages # {} => "hot-ship" \in stages
  PROVE  LET s == Commands(g, stages)
         IN  /\ WellFormed(g, s, 1, 4)
             /\ "hot-ship" \notin stages => Only(s, "cold-ship")
             /\ \A f \in FeedsOf(g) :
                  /\ "cold-ship" \in stages => Has(s, "cold-ship", f)
                  /\ "rollup" \in stages => Has(s, "rollup", f)
                  /\ "hot-ship" \in stages => Has(s, "hot-ship", f)
<1> DEFINE cold == When("cold-ship" \in stages, PerFeed(g, <<"cold-ship">>))
           silver == When("rollup" \in stages,
                          PerFeed(g, IF "hot-ship" \in stages
                                       THEN <<"rollup", "compact", "interim-ship">>
                                       ELSE <<"rollup", "compact">>))
           whole == WholeAgency(g, stages)
           ships == When("hot-ship" \in stages, PerFeed(g, <<"hot-ship">>))
<1>1. /\ WellFormed(g, cold, 1, 1)
      /\ "cold-ship" \in stages => \A f \in FeedsOf(g) : Has(cold, "cold-ship", f)
  <2>1. PartOf("cold-ship") = 1
    BY DEF PartOf
  <2> QED
    BY <2>1, PerFeedOne, WellFormedEmpty DEF When
<1>2. /\ WellFormed(g, silver, 2, 2)
      /\ "rollup" \in stages => \A f \in FeedsOf(g) : Has(silver, "rollup", f)
  <2>1. CASE "rollup" \in stages
    <3>1. "hot-ship" \in stages
      BY <2>1 DEF ProducerStages
    <3>2. silver = PerFeed(g, <<"rollup", "compact", "interim-ship">>)
      BY <2>1, <3>1 DEF When
    <3> QED
      BY <3>2, PerFeedRollup
  <2>2. CASE "rollup" \notin stages
    BY <2>2, WellFormedEmpty DEF When
  <2> QED
    BY <2>1, <2>2
<1>3. WellFormed(g, whole, 3, 3)
  <2>1. /\ WellFormed(g, OfAgency(g, "gtfs", stages), 3, 3)
        /\ WellFormed(g, OfAgency(g, "gold", stages), 3, 3)
        /\ WellFormed(g, OfAgency(g, "snapshot", stages), 3, 3)
    BY OfAgencyWellFormed
  <2>2. WellFormed(g, OfAgency(g, "gtfs", stages) \o OfAgency(g, "gold", stages), 3, 3)
    BY <2>1, WellFormedConcat
  <2> QED
    BY <2>1, <2>2, WellFormedConcat DEF WholeAgency
<1>4. /\ WellFormed(g, ships, 4, 4)
      /\ "hot-ship" \in stages => \A f \in FeedsOf(g) : Has(ships, "hot-ship", f)
  <2>1. PartOf("hot-ship") = 4
    BY DEF PartOf
  <2> QED
    BY <2>1, PerFeedOne, WellFormedEmpty DEF When
<1>5. Commands(g, stages) = ((cold \o silver) \o whole) \o ships
  BY DEF Commands
<1>6. /\ cold \in Seq(Command) /\ silver \in Seq(Command)
      /\ whole \in Seq(Command) /\ ships \in Seq(Command)
  BY <1>1, <1>2, <1>3, <1>4 DEF WellFormed
<1>7. CASE "hot-ship" \notin stages
  <2>1. stages \cap ProducerStages = {}
    BY <1>7
  <2>2. silver = <<>> /\ whole = <<>> /\ ships = <<>>
    <3>1. /\ "rollup" \notin stages /\ "gtfs" \notin stages
          /\ "gold" \notin stages /\ "snapshot" \notin stages
      BY <2>1 DEF ProducerStages
    <3>2. silver = <<>> /\ ships = <<>>
      BY <3>1, <1>7 DEF When
    <3>3. whole = <<>>
      BY <3>1 DEF WholeAgency, OfAgency, When
    <3> QED
      BY <3>2, <3>3
  <2> HIDE DEF cold, silver, whole, ships
  <2>3. Commands(g, stages) = cold
    BY <1>5, <1>6, <2>2
  <2>4. Only(cold, "cold-ship")
    <3>1. \A c \in Command : PartOf(c.step) <= 1 => c.step = "cold-ship"
      BY DEF Command, ChainSteps, PartOf
    <3>2. \A i \in 1..Len(cold) : cold[i] \in Command /\ PartOf(cold[i].step) <= 1
      BY <1>1, <1>6 DEF WellFormed
    <3> QED
      BY <3>1, <3>2 DEF Only
  <2>5. WellFormed(g, cold, 1, 4)
    <3>1. \A c \in Command : PartOf(c.step) <= 4
      BY PartIsInt
    <3>2. \A i \in 1..Len(cold) : cold[i] \in Command
      BY <1>6
    <3> QED
      BY <3>1, <3>2, <1>1 DEF WellFormed
  <2>6. "rollup" \notin stages
    BY <2>1 DEF ProducerStages
  <2> QED
    BY <2>3, <2>4, <2>5, <2>6, <1>1, <1>7
<1> HIDE DEF cold, silver, whole, ships
<1>8. WellFormed(g, cold \o silver, 1, 2)
  BY <1>1, <1>2, WellFormedConcat
<1>9. WellFormed(g, (cold \o silver) \o whole, 1, 3)
  BY <1>3, <1>8, WellFormedConcat
<1>10. WellFormed(g, Commands(g, stages), 1, 4)
  BY <1>4, <1>5, <1>9, WellFormedConcat
<1>11. cold \o silver \in Seq(Command) /\ (cold \o silver) \o whole \in Seq(Command)
  BY <1>8, <1>9 DEF WellFormed
<1>12. \A f \in FeedsOf(g) :
         /\ "cold-ship" \in stages => Has(Commands(g, stages), "cold-ship", f)
         /\ "rollup" \in stages => Has(Commands(g, stages), "rollup", f)
         /\ "hot-ship" \in stages => Has(Commands(g, stages), "hot-ship", f)
  BY <1>1, <1>2, <1>4, <1>5, <1>6, <1>11, HasConcat
<1> QED
  BY <1>7, <1>10, <1>12

-----------------------------------------------------------------------------
(* The invariant.                                                          *)

HeadIs(g, step, f) ==
  chain[g] # <<>> /\ Head(chain[g]) = [step |-> step, feeds |-> {f}]

ChainTyped == chain \in [GroupIds -> Seq(Command)]

AgencyInv(g) ==
  /\ WellFormed(g, chain[g], 1, 4)
  /\ chain[g] # <<>> => place[g] = "running" /\ ok[g]
  /\ place[g] = "queued" => ok[g]
  /\ "hot-ship" \notin selected => Only(chain[g], "cold-ship")

\* The disk has files of agencies that run only; after a stage that has left its
\* files in part the chain has ended, and the next command after an uncompacted
\* kind compacts it.
FilesInv(g, f) ==
  /\ tree[f] # NoFile => place[g] = "running"
  /\ chain[g] # <<>> => ~InPart(tree, f)
  /\ tree[f][TripUpdates] = "whole" =>
       f \in uncompacted \/ chain[g] = <<>> \/ HeadIs(g, "compact", f)

\* What was made is still there while the agency runs.
MadeInv(g, f) ==
  /\ place[g] = "queued" \/ "hot-ship" \notin selected => made[f] = {}
  /\ place[g] = "running" => \A s \in made[f] : Complete(tree, f, s)

\* A feed is archived, was missed, or is still to come.
ColdInv(g, f) ==
  "cold-ship" \in selected /\ place[g] # "queued" /\ night # "killed" =>
    f \in archived \/ "cold-ship" \in missed[f] \/ Has(chain[g], "cold-ship", f)

RollInv(g, f) ==
  "rollup" \in selected =>
    /\ place[g] = "running" /\ ok[g] =>
         "rollup" \in made[f] \/ Has(chain[g], "rollup", f)
    /\ ~Absent(tree, f, "gold") => \A h \in FeedsOf(g) : "rollup" \in made[h]

\* What was rolled up is shipped, was missed, or is shipped next.
MidInv(g, f) ==
  "rollup" \in made[f] /\ night # "killed" =>
    \/ Complete(hot, f, "rollup") /\ f \in archived
    \/ "interim-ship" \in missed[f]
    \/ HeadIs(g, "compact", f) \/ HeadIs(g, "interim-ship", f)

\* While nothing has ended the chain, the last ship is to come, was missed, or
\* has taken all there is, with nothing but ships after it.
FinalInv(g, f) ==
  "hot-ship" \in selected /\ place[g] # "queued" /\ night # "killed" /\ ok[g] =>
    \/ "hot-ship" \in missed[f]
    \/ Has(chain[g], "hot-ship", f)
    \/ /\ f \in archived
       /\ Only(chain[g], "hot-ship")
       /\ \A s \in made[f] : Complete(hot, f, s)

FeedInv(g, f) ==
  /\ FilesInv(g, f) /\ MadeInv(g, f)
  /\ ColdInv(g, f) /\ RollInv(g, f) /\ MidInv(g, f) /\ FinalInv(g, f)

NightInv ==
  /\ night # "running" => \A g \in GroupIds : place[g] = "done"
  /\ selected \cap ProducerStages # {} => "hot-ship" \in selected
  /\ Cardinality(Busy) <= Workers

ChainInv ==
  /\ ChainTypeOK /\ ChainTyped
  /\ NightInv /\ NothingPartialShips /\ ShipsCompacted
  /\ \A g \in GroupIds : AgencyInv(g) /\ \A f \in FeedsOf(g) : FeedInv(g, f)

\* Each feed is of one agency.
LEMMA FeedsApart ==
  /\ \A g \in GroupIds : FeedsOf(g) \subseteq BatchFeeds
  /\ \A f \in BatchFeeds : \E g \in GroupIds : f \in FeedsOf(g)
  /\ \A g, h \in GroupIds : g # h => \A f \in FeedsOf(h) : f \notin FeedsOf(g)
BY AgencyBatchAssumption DEF BatchFeeds

\* Each file is of one stage.
LEMMA FilesApart ==
  /\ \A s \in ProducerStages : OutputsOf[s] \subseteq DayFiles
  /\ TripUpdates \in DayFiles /\ TripUpdates \in OutputsOf["rollup"]
  /\ \A s, t \in ProducerStages, x \in DayFiles :
       x \in OutputsOf[s] /\ x \in OutputsOf[t] => s = t
<1>1. \A s \in ProducerStages : OutputsOf[s] \subseteq DayFiles
  BY DEF DayFiles
<1>2. TripUpdates \in OutputsOf["rollup"] /\ "rollup" \in ProducerStages
  BY AgencyBatchAssumption DEF ProducerStages
<1>3. \A s, t \in ProducerStages : s # t => OutputsOf[s] \cap OutputsOf[t] = {}
  BY AgencyBatchAssumption
<1> QED
  BY <1>1, <1>2, <1>3

\* The invariant has the properties.
LEMMA ChainInvSuffices == ChainInv => ChainSound
<1> SUFFICES ASSUME ChainInv PROVE ChainSound
  OBVIOUS
<1> USE DEF ChainInv, FeedInv
<1>1. ASSUME NEW g \in GroupIds, Over(g), NEW f \in FeedsOf(g)
      PROVE  /\ chain[g] = <<>> /\ night # "killed" /\ place[g] = "done"
             /\ \A step : ~HeadIs(g, step, f) /\ ~Has(chain[g], step, f)
  <2>1. chain[g] = <<>> /\ night # "killed" /\ place[g] = "done"
    BY <1>1 DEF Over, AgencyInv
  <2> QED
    BY <2>1 DEF HeadIs, Has
<1>2. ASSUME NEW g \in GroupIds, Over(g), NEW f \in FeedsOf(g)
      PROVE  /\ made[f] # {} => "hot-ship" \in selected
             /\ "hot-ship" \in selected /\ ok[g] =>
                  \/ "hot-ship" \in missed[f]
                  \/ f \in archived /\ \A s \in made[f] : Complete(hot, f, s)
             /\ "rollup" \in made[f] =>
                  \/ Complete(hot, f, "rollup") /\ f \in archived
                  \/ "interim-ship" \in missed[f]
             /\ "cold-ship" \in selected => f \in archived \/ "cold-ship" \in missed[f]
  BY <1>1, <1>2 DEF MadeInv, FinalInv, MidInv, ColdInv
<1>3. SilverSurvives
  BY <1>2 DEF SilverSurvives
<1>4. ArchivedFirst
  BY <1>2 DEF ArchivedFirst
<1>5. NothingStranded
  BY <1>2 DEF NothingStranded
<1>6. NoGoldBesideFailure
  BY DEF NoGoldBesideFailure, RollInv
<1>7. DiskBounded
  <2> DEFINE S == {g \in GroupIds : \E f \in FeedsOf(g) : tree[f] # NoFile}
  <2>1. S \subseteq Busy
    BY DEF FilesInv, Busy
  <2>2. IsFiniteSet(Busy)
    BY AgencyBatchAssumption, FS_Subset DEF Busy
  <2>3. /\ Cardinality(S) <= Cardinality(Busy)
        /\ Cardinality(S) \in Nat /\ Cardinality(Busy) \in Nat
    BY <2>1, <2>2, FS_Subset, FS_CardinalityType
  <2>4. Cardinality(Busy) <= Workers
    BY DEF NightInv
  <2> HIDE DEF S
  <2>5. Cardinality(S) <= Workers
    BY <2>3, <2>4, AgencyBatchAssumption
  <2> QED
    BY <2>5 DEF DiskBounded, S
<1> QED
  BY <1>3, <1>4, <1>5, <1>6, <1>7 DEF ChainSound

\* It holds before the first task.
LEMMA ChainInit == BatchInit => ChainInv
<1> SUFFICES ASSUME BatchInit PROVE ChainInv
  OBVIOUS
<1> USE DEF BatchInit
<1>1. ChainTypeOK /\ ChainTyped
  <2>1. NoFile \in [DayFiles -> Contents]
    BY DEF NoFile, Contents
  <2>2. <<>> \in Seq(Command)
    OBVIOUS
  <2> HIDE DEF NoFile
  <2>3. ChainTyped
    BY <2>2 DEF ChainTyped
  <2>4. mishaps \in 0..MaxMishaps /\ nights \in Nat
    BY AgencyBatchAssumption
  <2>5. ChainTypeOK
    BY <2>1, <2>4 DEF ChainTypeOK
  <2> QED
    BY <2>3, <2>5
<1>2. NightInv
  <2>1. Busy = {}
    BY DEF Busy
  <2> QED
    BY <2>1, FS_EmptySet, AgencyBatchAssumption DEF NightInv
<1>3. NothingPartialShips /\ ShipsCompacted
  <2>1. \A f \in BatchFeeds : \A s \in ProducerStages : Absent(hot, f, s)
    BY FilesApart DEF Absent, NoFile
  <2>2. NothingPartialShips
    BY <2>1 DEF NothingPartialShips, InPart
  <2>3. \A f \in BatchFeeds : hot[f][TripUpdates] = "none"
    BY FilesApart DEF NoFile
  <2> QED
    BY <2>2, <2>3 DEF ShipsCompacted
<1>4. ASSUME NEW g \in GroupIds PROVE AgencyInv(g)
  BY WellFormedEmpty DEF AgencyInv, Only
<1>5. ASSUME NEW g \in GroupIds, NEW f \in FeedsOf(g) PROVE FeedInv(g, f)
  <2>1. f \in BatchFeeds
    BY FeedsApart
  <2>2. tree[f][TripUpdates] = "none" /\ Absent(tree, f, "gold")
    BY <2>1, FilesApart DEF NoFile, Absent, ProducerStages
  <2> QED
    BY <2>1, <2>2 DEF FeedInv, FilesInv, MadeInv, ColdInv, RollInv, MidInv, FinalInv
<1> QED
  BY <1>1, <1>2, <1>3, <1>4, <1>5 DEF ChainInv

-----------------------------------------------------------------------------
(* The next command, and what remains after it.                            *)

\* The next command is of feeds of the agency; after a rollup comes its
\* compaction, and after that its ship.
LEMMA HeadFacts ==
  ASSUME NEW a \in GroupIds, AgencyInv(a), chain[a] # <<>>
  PROVE  LET c == Head(chain[a])
             t == Tail(chain[a])
         IN  /\ WellFormed(a, t, 1, 4)
             /\ c \in Command
             /\ c.feeds \subseteq FeedsOf(a)
             /\ c.step \in {"cold-ship", "rollup", "compact", "interim-ship", "hot-ship"} =>
                  \E x \in FeedsOf(a) : c.feeds = {x}
             /\ c.step \in {"gtfs", "gold", "snapshot"} => c.feeds = FeedsOf(a)
             /\ c.step = "rollup" =>
                  t # <<>> /\ Head(t) = [step |-> "compact", feeds |-> c.feeds]
             /\ c.step = "compact" =>
                  t # <<>> /\ Head(t) = [step |-> "interim-ship", feeds |-> c.feeds]
<1> DEFINE s == chain[a]
           c == Head(s)
           t == Tail(s)
<1>1. WellFormed(a, s, 1, 4) /\ s # <<>>
  BY DEF AgencyInv
<1>2. /\ WellFormed(a, t, 1, 4)
      /\ c = s[1] /\ c \in Command
      /\ 1 \in 1..Len(s)
      /\ OfFeeds(a, c)
      /\ Len(t) = Len(s) - 1
      /\ \A i \in 1..(Len(s) - 1) : t[i] = s[i + 1]
  BY <1>1, WellFormedTail
<1>3. s \in Seq(Command) /\ t \in Seq(Command)
  BY <1>1, <1>2 DEF WellFormed
<1> HIDE DEF s, c, t
<1>4. /\ c.step \in {"cold-ship", "rollup", "compact", "interim-ship", "hot-ship"} =>
           \E x \in FeedsOf(a) : c.feeds = {x}
      /\ c.step \in {"gtfs", "gold", "snapshot"} => c.feeds = FeedsOf(a)
  BY <1>2 DEF OfFeeds, PartOf
<1>5. c.feeds \subseteq FeedsOf(a)
  <2>1. c.step \in ChainSteps
    BY <1>2 DEF Command
  <2> QED
    BY <2>1, <1>4 DEF ChainSteps
<1>6. ASSUME NEW step, FollowedBy(s, 1, step)
      PROVE  t # <<>> /\ Head(t) = [step |-> step, feeds |-> c.feeds]
  <2>1. 2 \in 1..Len(s) /\ s[2].step = step /\ s[2].feeds = c.feeds /\ Len(s) \in Nat
    BY <1>2, <1>3, <1>6 DEF FollowedBy
  <2>2. Len(t) >= 1 /\ t[1] = s[2] /\ s[2] \in Command
    BY <2>1, <1>2, <1>3
  <2>3. s[2] = [step |-> s[2].step, feeds |-> s[2].feeds]
    BY <2>2 DEF Command
  <2>4. t # <<>> /\ Head(t) = t[1]
    BY <2>2, <1>3
  <2> QED
    BY <2>1, <2>2, <2>3, <2>4
<1>7. /\ c.step = "rollup" => FollowedBy(s, 1, "compact")
      /\ c.step = "compact" => FollowedBy(s, 1, "interim-ship")
  BY <1>1, <1>2 DEF WellFormed
<1> QED
  BY <1>2, <1>4, <1>5, <1>6, <1>7 DEF s, c, t

\* Which commands are still to come.
LEMMA TailFacts ==
  ASSUME NEW a \in GroupIds, AgencyInv(a), chain[a] # <<>>
  PROVE  LET s == chain[a]
             c == Head(s)
             t == Tail(s)
         IN  /\ \A step, f : Has(s, step, f) =>
                  c = [step |-> step, feeds |-> {f}] \/ Has(t, step, f)
             /\ c.step # "cold-ship" => \A f : ~Has(s, "cold-ship", f)
             /\ c.step \in {"gtfs", "gold", "snapshot", "hot-ship"} =>
                  \A f : ~Has(s, "rollup", f)
             /\ c.step = "hot-ship" => Only(t, "hot-ship")
             /\ \A step : Only(s, step) => c.step = step /\ Only(t, step)
<1> DEFINE s == chain[a]
           c == Head(s)
           t == Tail(s)
<1>1. WellFormed(a, s, 1, 4) /\ s # <<>>
  BY DEF AgencyInv
<1>2. /\ WellFormed(a, t, 1, 4)
      /\ c = s[1] /\ c \in Command
      /\ 1 \in 1..Len(s)
      /\ Len(t) = Len(s) - 1
      /\ \A i \in 1..(Len(s) - 1) : t[i] = s[i + 1]
  BY <1>1, WellFormedTail
<1>3. s \in Seq(Command) /\ t \in Seq(Command) /\ Len(s) \in Nat
  BY <1>1, <1>2 DEF WellFormed
<1> HIDE DEF s, c, t
<1>4. \A i \in 1..Len(s) : i = 1 \/ (i - 1 \in 1..Len(t) /\ t[i - 1] = s[i])
  BY <1>2, <1>3
<1>5. \A i \in 1..Len(s) : PartOf(c.step) <= PartOf(s[i].step)
  BY <1>1, <1>2 DEF WellFormed
<1>6. \A i \in 1..Len(s) : PartOf(s[i].step) <= 4 /\ s[i] \in Command
  BY <1>1, <1>3 DEF WellFormed
<1>7. \A step, f : Has(s, step, f) => c = [step |-> step, feeds |-> {f}] \/ Has(t, step, f)
  BY <1>2, <1>4 DEF Has
<1>8. c.step # "cold-ship" => \A f : ~Has(s, "cold-ship", f)
  <2> SUFFICES ASSUME c.step # "cold-ship", NEW f, Has(s, "cold-ship", f) PROVE FALSE
    OBVIOUS
  <2>1. PICK i \in 1..Len(s) : s[i].step = "cold-ship"
    BY DEF Has
  <2>2. PartOf(c.step) >= 2
    BY <1>2 DEF Command, ChainSteps, PartOf
  <2>3. PartOf(s[i].step) = 1
    BY <2>1 DEF PartOf
  <2> QED
    BY <2>2, <2>3, <1>5, <1>2, PartIsInt
<1>9. c.step \in {"gtfs", "gold", "snapshot", "hot-ship"} => \A f : ~Has(s, "rollup", f)
  <2> SUFFICES ASSUME c.step \in {"gtfs", "gold", "snapshot", "hot-ship"},
                      NEW f, Has(s, "rollup", f)
               PROVE  FALSE
    OBVIOUS
  <2>1. PICK i \in 1..Len(s) : s[i].step = "rollup"
    BY DEF Has
  <2>2. PartOf(c.step) >= 3
    BY DEF PartOf
  <2>3. PartOf(s[i].step) = 2
    BY <2>1 DEF PartOf
  <2> QED
    BY <2>2, <2>3, <1>5, <1>2, PartIsInt
<1>10. c.step = "hot-ship" => Only(t, "hot-ship")
  <2> SUFFICES ASSUME c.step = "hot-ship", NEW i \in 1..Len(t)
               PROVE  t[i].step = "hot-ship"
    BY DEF Only
  <2>1. i + 1 \in 1..Len(s) /\ t[i] = s[i + 1]
    BY <1>2, <1>3
  <2>2. s[i + 1] \in Command /\ PartOf("hot-ship") <= PartOf(s[i + 1].step)
    BY <2>1, <1>5, <1>6
  <2>3. s[i + 1].step = "hot-ship"
    BY <2>2 DEF PartOf, Command, ChainSteps
  <2> QED
    BY <2>1, <2>3
<1>11. \A step : Only(s, step) => c.step = step /\ Only(t, step)
  <2> SUFFICES ASSUME NEW step, Only(s, step) PROVE c.step = step /\ Only(t, step)
    OBVIOUS
  <2>1. \A i \in 1..Len(t) : i + 1 \in 1..Len(s) /\ t[i] = s[i + 1]
    BY <1>2, <1>3
  <2> QED
    BY <2>1, <1>2 DEF Only
<1> QED
  BY <1>7, <1>8, <1>9, <1>10, <1>11 DEF s, c, t

-----------------------------------------------------------------------------
(* What a step of an agency may do.                                        *)

\* The chain: on to the next command, or at an end.
Moves(a) ==
  LET c == Head(chain[a]) IN
  /\ chain[a] # <<>>
  /\ UNCHANGED <<night, nights, selected, silverDir, forcing, place>>
  /\ \/ Continue(a) /\ ok' = ok
     \/ Break(a) /\ c.step \in {"rollup", "gtfs", "gold", "snapshot", "hot-ship"}

\* A feed that a ship has left in part stays known as such.
Accounted(f) == f \in interrupted /\ InPart(hot', f) => f \in interrupted'

\* A feed that the command is not of.
Untouched(f) ==
  /\ Accounted(f)
  /\ tree'[f] = tree[f] /\ hot'[f] = hot[f]
  /\ made'[f] = made[f] /\ missed'[f] = missed[f]
  /\ f \in archived' <=> f \in archived
  /\ f \in uncompacted' <=> f \in uncompacted

\* The buckets and the account of a feed that the command is of.
Kept(a, f) ==
  LET c == Head(chain[a]) IN
  /\ f \in archived => f \in archived'
  /\ f \in uncompacted => f \in uncompacted'
  /\ missed[f] \subseteq missed'[f]
  /\ \A x \in DayFiles :
       \/ hot'[f][x] = hot[f][x]
       \/ /\ c.step \in {"interim-ship", "hot-ship"}
          /\ hot'[f][x] = tree[f][x] /\ tree[f][x] # "none"
  /\ \/ InPart(hot', f) => f \in interrupted'
     \/ /\ Accounted(f)
        /\ \/ hot'[f] = hot[f]
           \/ /\ c.step \in {"interim-ship", "hot-ship"}
              /\ \A x \in DayFiles : tree[f][x] # "none" => hot'[f][x] # "none"
  /\ c.step \in Ships =>
       \/ c.step \in missed'[f]
       \/ /\ Continue(a)
          /\ f \in archived'
          /\ c.step # "cold-ship" =>
               \A x \in DayFiles : tree[f][x] # "none" => hot'[f][x] # "none"

\* Its files.
Makes(a, f) ==
  LET c == Head(chain[a]) IN
  /\ \/ made'[f] = made[f]
     \/ /\ c.step \in ProducerStages
        /\ made'[f] = made[f] \cup {c.step}
        /\ Complete(tree', f, c.step)
  /\ \A x \in DayFiles :
       \/ tree'[f][x] = tree[f][x]
       \/ /\ c.step \in ProducerStages /\ x \in OutputsOf[c.step]
          /\ tree'[f][x] # "none"
       \/ c.step = "compact" /\ x = TripUpdates
  /\ c.step = "rollup" =>
       \/ Continue(a) /\ Complete(tree', f, "rollup") /\ "rollup" \in made'[f]
       \/ Break(a) /\ made'[f] = made[f]
  /\ c.step = "compact" =>
       /\ Continue(a)
       /\ tree'[f][TripUpdates] # "whole" \/ f \in uncompacted'
       /\ \A x \in DayFiles : tree'[f][x] # "none" <=> tree[f][x] # "none"
  /\ c.step \in {"gtfs", "gold", "snapshot"} =>
       tree'[f] = tree[f] \/ Complete(tree', f, c.step)

Typed == ChainTypeOK /\ ChainTyped

Effects(a) ==
  /\ Moves(a)
  /\ \A f \in BatchFeeds \ Args(a) : Untouched(f)
  /\ \A f \in BatchFeeds \cap Args(a) : Kept(a, f) /\ Makes(a, f)
  /\ Typed'

\* A chain that moves stays a chain of commands.
LEMMA ChainMoves ==
  ASSUME ChainTyped, NEW a \in GroupIds, chain[a] # <<>>, Continue(a) \/ Break(a)
  PROVE  ChainTyped'
<1>1. chain[a] \in Seq(Command) /\ Tail(chain[a]) \in Seq(Command)
  BY DEF ChainTyped
<1>2. <<>> \in Seq(Command)
  OBVIOUS
<1> QED
  BY <1>1, <1>2 DEF ChainTyped, Continue, Break

\* A command is of feeds.
LEMMA ArgsTyped ==
  ASSUME ChainTyped, NEW a \in GroupIds, chain[a] # <<>>
  PROVE  Args(a) \subseteq BatchFeeds /\ Head(chain[a]).step \in ChainSteps
<1>1. Head(chain[a]) \in Command
  BY DEF ChainTyped
<1> QED
  BY <1>1 DEF Args, Command

\* What a ship offers is in the bucket afterwards; nothing else changes.
LEMMA HotWithFacts ==
  ASSUME ChainTypeOK, NEW a \in GroupIds, NEW files \in SUBSET DayFiles
  PROVE  /\ HotWith(a, files) \in [BatchFeeds -> [DayFiles -> Contents]]
         /\ \A f \in BatchFeeds \ Args(a) : HotWith(a, files)[f] = hot[f]
         /\ \A f \in BatchFeeds \cap Args(a), x \in DayFiles :
              /\ \/ HotWith(a, files)[f][x] = hot[f][x]
                 \/ HotWith(a, files)[f][x] = tree[f][x] /\ tree[f][x] # "none"
              /\ x \in files /\ tree[f][x] # "none" => HotWith(a, files)[f][x] # "none"
<1>1. \A f \in BatchFeeds :
        hot[f] \in [DayFiles -> Contents] /\ tree[f] \in [DayFiles -> Contents]
  BY DEF ChainTypeOK
<1>2. HotWith(a, files) \in [BatchFeeds -> [DayFiles -> Contents]]
  BY <1>1 DEF HotWith
<1>3. ASSUME NEW f \in BatchFeeds \ Args(a) PROVE HotWith(a, files)[f] = hot[f]
  <2>1. HotWith(a, files)[f] = [x \in DayFiles |-> hot[f][x]]
    BY <1>3 DEF HotWith
  <2> QED
    BY <1>1, <2>1
<1>4. ASSUME NEW f \in BatchFeeds \cap Args(a), NEW x \in DayFiles
      PROVE  /\ \/ HotWith(a, files)[f][x] = hot[f][x]
                \/ HotWith(a, files)[f][x] = tree[f][x] /\ tree[f][x] # "none"
             /\ x \in files /\ tree[f][x] # "none" => HotWith(a, files)[f][x] # "none"
  BY DEF HotWith
<1> QED
  BY <1>2, <1>3, <1>4

\* Each command has only such effects.
LEMMA ColdShipEffects ==
  ASSUME Typed, NEW a \in GroupIds, ColdShip(a) PROVE Effects(a)
<1> USE DEF Typed
<1> DEFINE c == Head(chain[a])
<1>1. chain[a] # <<>> /\ c.step = "cold-ship" /\ Continue(a)
  BY DEF ColdShip, Runs
<1>2. Moves(a)
  BY <1>1 DEF ColdShip, Moves, task
<1>3. \A f \in BatchFeeds \ Args(a) : Untouched(f)
  BY DEF ColdShip, Untouched, account, Accounted
<1>4. \A f \in BatchFeeds \cap Args(a) : Kept(a, f) /\ Makes(a, f)
  BY <1>1 DEF ColdShip, Kept, Makes, account, Args, Ships, ProducerStages, Accounted
<1>5. archived' \in SUBSET BatchFeeds
  BY <1>1, ArgsTyped DEF ColdShip, ChainTypeOK
<1>6. Typed'
  BY <1>1, <1>5, ChainMoves DEF ColdShip, ChainTypeOK, task, account, Typed
<1> QED
  BY <1>2, <1>3, <1>4, <1>6 DEF Effects

\* The same of a hot ship, which offers the bucket the whole tree,
LEMMA HotShipEffects ==
  ASSUME Typed, NEW a \in GroupIds, HotShip(a) PROVE Effects(a)
<1> USE DEF Typed
<1> DEFINE c == Head(chain[a])
<1>1. chain[a] # <<>> /\ c.step \in {"interim-ship", "hot-ship"} /\ Continue(a)
  BY DEF HotShip, Runs
<1>2. Moves(a)
  BY <1>1 DEF HotShip, Moves, task
<1>3. \A f \in BatchFeeds : Accounted(f)
  BY DEF HotShip, Accounted
<1>4. /\ hot' = HotWith(a, DayFiles) /\ archived' = archived \cup Args(a)
      /\ UNCHANGED <<tree, made, missed, uncompacted>>
  BY DEF HotShip
<1>5. \A f \in BatchFeeds \ Args(a) : Untouched(f)
  BY <1>3, <1>4, HotWithFacts DEF Untouched
<1>6. ASSUME NEW f \in BatchFeeds \cap Args(a) PROVE Kept(a, f) /\ Makes(a, f)
  <2>1. \A x \in DayFiles :
          /\ \/ hot'[f][x] = hot[f][x]
             \/ hot'[f][x] = tree[f][x] /\ tree[f][x] # "none"
          /\ tree[f][x] # "none" => hot'[f][x] # "none"
    BY <1>4, HotWithFacts
  <2>2. Kept(a, f)
    BY <1>1, <1>3, <1>4, <2>1 DEF Kept, Ships
  <2>3. Makes(a, f)
    BY <1>1, <1>4 DEF Makes, ProducerStages
  <2> QED
    BY <2>2, <2>3
<1>7. /\ archived' \in SUBSET BatchFeeds
      /\ hot' \in [BatchFeeds -> [DayFiles -> Contents]]
  BY <1>1, <1>4, ArgsTyped, HotWithFacts DEF ChainTypeOK
<1>8. interrupted' \in SUBSET BatchFeeds
  BY DEF HotShip, ChainTypeOK
<1>9. Typed'
  BY <1>1, <1>4, <1>7, <1>8, ChainMoves DEF HotShip, ChainTypeOK, task, Typed
<1> QED
  BY <1>2, <1>5, <1>6, <1>9 DEF Effects

\* of a ship that stops halfway, recorded as missed,
LEMMA ShipStopsEffects ==
  ASSUME Typed, NEW a \in GroupIds, ShipStops(a) PROVE Effects(a)
<1> USE DEF Typed
<1> DEFINE c == Head(chain[a])
<1>1. /\ chain[a] # <<>> /\ c.step \in Ships
      /\ (Continue(a) /\ ok' = ok) \/ (c.step = "hot-ship" /\ Break(a))
  <2>1. Runs(a, Ships)
    BY DEF ShipStops
  <2>2. (Continue(a) /\ UNCHANGED ok) \/ (Runs(a, {"hot-ship"}) /\ Break(a))
    BY DEF ShipStops
  <2> QED
    BY <2>1, <2>2 DEF Runs
<1>2. Moves(a)
  BY <1>1 DEF ShipStops, Moves, task
<1>3. \/ hot' = hot /\ archived' = archived /\ interrupted' = interrupted
      \/ /\ c.step \in {"interim-ship", "hot-ship"}
         /\ archived' = archived \cup Args(a)
         /\ \E files \in SUBSET DayFiles : hot' = HotWith(a, files)
         /\ interrupted' = {f \in interrupted \cup Args(a) : InPart(hot', f)}
  BY <1>1 DEF ShipStops, buckets, Runs, Ships, PartsOfShip
<1>4. \A f \in BatchFeeds :
        missed'[f] = IF f \in Args(a) THEN missed[f] \cup {c.step} ELSE missed[f]
  BY DEF ShipStops
<1>5. tree' = tree /\ made' = made /\ uncompacted' = uncompacted
  BY DEF ShipStops
<1>6. ASSUME NEW f \in BatchFeeds \ Args(a) PROVE Untouched(f)
  <2>1. hot'[f] = hot[f]
    BY <1>3, HotWithFacts
  <2>2. f \in archived' <=> f \in archived
    BY <1>3
  <2>3. Accounted(f)
    BY <1>3 DEF Accounted
  <2> QED
    BY <2>1, <2>2, <2>3, <1>4, <1>5 DEF Untouched
<1>7. ASSUME NEW f \in BatchFeeds \cap Args(a) PROVE Kept(a, f) /\ Makes(a, f)
  <2>1. Kept(a, f)
    <3>1. \A x \in DayFiles :
            \/ hot'[f][x] = hot[f][x]
            \/ /\ c.step \in {"interim-ship", "hot-ship"}
               /\ hot'[f][x] = tree[f][x] /\ tree[f][x] # "none"
      BY <1>3, HotWithFacts
    <3>2. f \in archived => f \in archived'
      BY <1>3
    <3>3. missed'[f] = missed[f] \cup {c.step}
      BY <1>4
    <3>4. \/ InPart(hot', f) => f \in interrupted'
          \/ Accounted(f) /\ hot'[f] = hot[f]
      BY <1>3, <1>7 DEF Accounted
    <3> QED
      BY <3>1, <3>2, <3>3, <3>4, <1>5 DEF Kept
  <2>2. Makes(a, f)
    BY <1>1, <1>5 DEF Makes, Ships, ProducerStages
  <2> QED
    BY <2>1, <2>2
<1>8. /\ archived' \in SUBSET BatchFeeds /\ interrupted' \in SUBSET BatchFeeds
      /\ hot' \in [BatchFeeds -> [DayFiles -> Contents]]
  BY <1>1, <1>3, ArgsTyped, HotWithFacts DEF ChainTypeOK
<1>9. missed' \in [BatchFeeds -> SUBSET Ships] /\ mishaps' \in 0..MaxMishaps
  BY <1>1, AgencyBatchAssumption DEF ShipStops, Mishap, ChainTypeOK
<1>10. ok' \in [GroupIds -> BOOLEAN]
  BY <1>1 DEF Break, ChainTypeOK
<1>11. Typed'
  BY <1>1, <1>5, <1>8, <1>9, <1>10, ChainMoves DEF ShipStops, ChainTypeOK, task, Typed
<1> QED
  BY <1>2, <1>6, <1>7, <1>11 DEF Effects

\* A command that leaves some files of some feeds changes those only.
LEMMA LeftFacts ==
  ASSUME ChainTypeOK, NEW feeds, NEW files, NEW v \in Contents
  PROVE  /\ Left(feeds, files, v) \in [BatchFeeds -> [DayFiles -> Contents]]
         /\ \A f \in BatchFeeds \ feeds : Left(feeds, files, v)[f] = tree[f]
         /\ \A f \in BatchFeeds, x \in DayFiles :
              Left(feeds, files, v)[f][x] =
                IF f \in feeds /\ x \in files THEN v ELSE tree[f][x]
<1>1. \A f \in BatchFeeds : tree[f] \in [DayFiles -> Contents]
  BY DEF ChainTypeOK
<1>2. Left(feeds, files, v) \in [BatchFeeds -> [DayFiles -> Contents]]
  BY <1>1 DEF Left
<1>3. ASSUME NEW f \in BatchFeeds \ feeds PROVE Left(feeds, files, v)[f] = tree[f]
  <2>1. Left(feeds, files, v)[f] = [x \in DayFiles |-> tree[f][x]]
    BY <1>3 DEF Left
  <2> QED
    BY <1>1, <2>1
<1> QED
  BY <1>2, <1>3 DEF Left

\* of a rollup that fails,
LEMMA RollDiesEffects ==
  ASSUME Typed, NEW a \in GroupIds, RollDies(a) PROVE Effects(a)
<1> USE DEF Typed
<1> DEFINE c == Head(chain[a])
<1>1. chain[a] # <<>> /\ c.step = "rollup" /\ Break(a)
  BY DEF RollDies, Runs
<1>2. "whole" \in Contents /\ \E kinds \in SUBSET OutputsOf["rollup"] :
        tree' = Left(Args(a), kinds, "whole")
  BY DEF RollDies, Contents
<1>3. Moves(a)
  BY <1>1 DEF RollDies, Moves, task
<1>4. \A f \in BatchFeeds \ Args(a) : Untouched(f)
  BY <1>2, LeftFacts DEF RollDies, Untouched, buckets, account, Accounted
<1>5. \A f \in BatchFeeds \cap Args(a) : Kept(a, f)
  BY <1>1 DEF RollDies, Kept, buckets, account, Ships, Accounted
<1>6. ASSUME NEW f \in BatchFeeds \cap Args(a) PROVE Makes(a, f)
  <2>1. \A x \in DayFiles :
          \/ tree'[f][x] = tree[f][x]
          \/ x \in OutputsOf["rollup"] /\ tree'[f][x] = "whole"
    BY <1>2, LeftFacts
  <2>2. made' = made
    BY DEF RollDies, account
  <2> QED
    BY <1>1, <2>1, <2>2 DEF Makes, ProducerStages
<1>7. mishaps' \in 0..MaxMishaps /\ ok' \in [GroupIds -> BOOLEAN]
  BY <1>1, AgencyBatchAssumption DEF RollDies, Break, Mishap, ChainTypeOK
<1>8. tree' \in [BatchFeeds -> [DayFiles -> Contents]]
  BY <1>2, LeftFacts
<1>9. Typed'
  BY <1>1, <1>7, <1>8, ChainMoves
  DEF RollDies, ChainTypeOK, task, buckets, account, Typed
<1> QED
  BY <1>3, <1>4, <1>5, <1>6, <1>9 DEF Effects

\* of a compaction,
LEMMA CompactsEffects ==
  ASSUME Typed, NEW a \in GroupIds, Compacts(a) PROVE Effects(a)
<1> USE DEF Typed
<1> DEFINE c == Head(chain[a])
<1>1. chain[a] # <<>> /\ c.step = "compact" /\ Continue(a)
  BY DEF Compacts, Runs
<1> DEFINE feeds == {f \in Args(a) : tree[f][TripUpdates] # "none"}
<1>2. tree' = Left(feeds, {TripUpdates}, "compact") /\ "compact" \in Contents
  BY DEF Compacts, Contents
<1>3. Moves(a)
  BY <1>1 DEF Compacts, Moves, task
<1>4. \A f \in BatchFeeds \ Args(a) : Untouched(f)
  BY <1>2, LeftFacts DEF Compacts, Untouched, buckets, account, Accounted
<1>5. \A f \in BatchFeeds \cap Args(a) : Kept(a, f)
  BY <1>1 DEF Compacts, Kept, buckets, account, Ships, Accounted
<1>6. ASSUME NEW f \in BatchFeeds \cap Args(a) PROVE Makes(a, f)
  <2>1. \A x \in DayFiles :
          \/ tree'[f][x] = tree[f][x] /\ (x = TripUpdates => tree[f][x] = "none")
          \/ x = TripUpdates /\ tree'[f][x] = "compact" /\ tree[f][x] # "none"
    BY <1>2, LeftFacts
  <2>2. made' = made
    BY DEF Compacts, account
  <2>3. TripUpdates \in DayFiles
    BY FilesApart
  <2> QED
    BY <1>1, <2>1, <2>2, <2>3 DEF Makes, ProducerStages
<1>7. tree' \in [BatchFeeds -> [DayFiles -> Contents]]
  BY <1>2, LeftFacts
<1>8. Typed'
  BY <1>1, <1>7, ChainMoves DEF Compacts, ChainTypeOK, task, buckets, account, Typed
<1> QED
  BY <1>3, <1>4, <1>5, <1>6, <1>8 DEF Effects

\* of a compaction that fails,
LEMMA CompactDiesEffects ==
  ASSUME Typed, NEW a \in GroupIds, CompactDies(a) PROVE Effects(a)
<1> USE DEF Typed
<1> DEFINE c == Head(chain[a])
<1>1. chain[a] # <<>> /\ c.step = "compact" /\ Continue(a)
  BY DEF CompactDies, Runs
<1>2. Moves(a)
  BY <1>1 DEF CompactDies, Moves, task
<1>3. \A f \in BatchFeeds \ Args(a) : Untouched(f)
  BY DEF CompactDies, Untouched, buckets, Accounted
<1>4. \A f \in BatchFeeds \cap Args(a) : Kept(a, f) /\ Makes(a, f)
  BY <1>1 DEF CompactDies, Kept, Makes, buckets, Ships, Accounted, ProducerStages
<1>5. uncompacted' \in SUBSET BatchFeeds /\ mishaps' \in 0..MaxMishaps
  BY <1>1, ArgsTyped, AgencyBatchAssumption DEF CompactDies, Mishap, ChainTypeOK
<1>6. Typed'
  BY <1>1, <1>5, ChainMoves DEF CompactDies, ChainTypeOK, task, buckets, Typed
<1> QED
  BY <1>2, <1>3, <1>4, <1>6 DEF Effects

\* and of a stage that makes gold, schedules or a snapshot.
LEMMA ProduceEffects ==
  ASSUME Typed, NEW a \in GroupIds, NEW s \in ProducerStages, Produce(a, s)
  PROVE  Effects(a)
<1> USE DEF Typed
<1> DEFINE c == Head(chain[a])
<1>1. chain[a] # <<>> /\ c.step = s /\ Continue(a) /\ ok' = ok
  BY DEF Produce, Runs
<1>2. Moves(a)
  BY <1>1 DEF Produce, Moves, task
<1>3. tree' = Left(Fed(a, s), OutputsOf[s], "whole") /\ "whole" \in Contents
  BY DEF Produce, Contents
<1>4. \A f \in BatchFeeds :
        made'[f] = IF f \in Fed(a, s) THEN made[f] \cup {s} ELSE made[f]
  BY DEF Produce
<1>a. \A f \in BatchFeeds \ Fed(a, s) : tree'[f] = tree[f]
  BY <1>3, LeftFacts
<1>5. ASSUME NEW f \in BatchFeeds \ Args(a) PROVE Untouched(f)
  <2>1. f \notin Fed(a, s)
    BY <1>5 DEF Fed
  <2>2. tree'[f] = tree[f] /\ made'[f] = made[f]
    BY <1>4, <1>a, <2>1
  <2> QED
    BY <2>2 DEF Produce, Untouched, buckets, Accounted
<1>6. \A f \in BatchFeeds \cap Args(a) : Kept(a, f)
  BY <1>1 DEF Produce, Kept, buckets, Ships, ProducerStages, Accounted
<1>7. ASSUME NEW f \in BatchFeeds \cap Args(a) PROVE Makes(a, f)
  <2>1. CASE f \in Fed(a, s)
    <3>1. \A x \in DayFiles :
            tree'[f][x] = IF x \in OutputsOf[s] THEN "whole" ELSE tree[f][x]
      BY <1>3, <2>1, LeftFacts
    <3>2. Complete(tree', f, s)
      BY <3>1, FilesApart DEF Complete
    <3>3. made'[f] = made[f] \cup {s}
      BY <1>4, <2>1
    <3> QED
      BY <1>1, <3>1, <3>2, <3>3 DEF Makes, ProducerStages
  <2>2. CASE f \notin Fed(a, s)
    <3>1. tree'[f] = tree[f] /\ made'[f] = made[f]
      BY <1>4, <1>a, <2>2
    <3>2. s = "gold"
      BY <2>2 DEF Fed
    <3> QED
      BY <1>1, <3>1, <3>2 DEF Makes
  <2> QED
    BY <2>1, <2>2
<1>8. tree' \in [BatchFeeds -> [DayFiles -> Contents]]
  BY <1>3, LeftFacts
<1>9. made' \in [BatchFeeds -> SUBSET ProducerStages]
  BY DEF Produce, ChainTypeOK
<1>10. Typed'
  BY <1>1, <1>8, <1>9, ChainMoves DEF Produce, ChainTypeOK, task, buckets, Typed
<1> QED
  BY <1>2, <1>5, <1>6, <1>7, <1>10 DEF Effects

\* Gold that refuses, a producer that is killed or only logs its error.
LEMMA NothingMadeEffects ==
  ASSUME Typed, NEW a \in GroupIds,
         GoldRefuses(a) \/ ProducerSkips(a) \/ ProducerDies(a)
  PROVE  Effects(a)
<1> USE DEF Typed
<1> DEFINE c == Head(chain[a])
<1>1. /\ chain[a] # <<>> /\ c.step \in {"gtfs", "gold", "snapshot"}
      /\ (Continue(a) /\ ok' = ok) \/ Break(a)
  BY DEF GoldRefuses, SilverMissing, ProducerSkips, ProducerDies, Runs
<1>2. UNCHANGED <<task, place, tree, buckets, account>>
  BY DEF GoldRefuses, ProducerSkips, ProducerDies
<1>3. Moves(a)
  BY <1>1, <1>2 DEF Moves, task
<1>4. \A f \in BatchFeeds \ Args(a) : Untouched(f)
  BY <1>2 DEF Untouched, buckets, account, Accounted
<1>5. \A f \in BatchFeeds \cap Args(a) : Kept(a, f) /\ Makes(a, f)
  BY <1>1, <1>2 DEF Kept, Makes, buckets, account, Ships, Accounted
<1>6. ok' \in [GroupIds -> BOOLEAN] /\ mishaps' \in 0..MaxMishaps
  <2>1. mishaps' = mishaps \/ Mishap
    BY DEF GoldRefuses, ProducerSkips, ProducerDies
  <2>2. mishaps' \in 0..MaxMishaps
    BY <2>1, AgencyBatchAssumption DEF Mishap, ChainTypeOK
  <2> QED
    BY <2>2, <1>1 DEF Break, ChainTypeOK
<1>7. Typed'
  BY <1>1, <1>2, <1>6, ChainMoves DEF ChainTypeOK, task, buckets, account, Typed
<1> QED
  BY <1>3, <1>4, <1>5, <1>7 DEF Effects

\* All of them.
LEMMA StepEffects ==
  ASSUME Typed, NEW a \in GroupIds, Step(a) PROVE Effects(a)
BY ColdShipEffects, HotShipEffects, ShipStopsEffects, RollDiesEffects, CompactsEffects,
   CompactDiesEffects, ProduceEffects, NothingMadeEffects DEF Step

-----------------------------------------------------------------------------
(* A step of an agency keeps the invariant.                                *)

\* The feeds of the other agencies keep theirs.
LEMMA OthersKeep ==
  ASSUME ChainInv, NEW a \in GroupIds, Effects(a), NEW h \in GroupIds, h # a
  PROVE  AgencyInv(h)' /\ \A f \in FeedsOf(h) : FeedInv(h, f)'
<1>1. Moves(a) /\ chain[a] # <<>> /\ AgencyInv(a) /\ AgencyInv(h) /\ Typed
  BY DEF Effects, Moves, ChainInv, Typed
<1>2. /\ chain'[h] = chain[h] /\ ok'[h] = ok[h]
      /\ UNCHANGED <<night, selected, silverDir, place>>
  BY <1>1 DEF Moves, Continue, Break, Typed, ChainTyped, ChainTypeOK
<1>3. Args(a) \subseteq FeedsOf(a)
  BY <1>1, HeadFacts DEF Args
<1>4. \A f \in FeedsOf(h) : Untouched(f)
  BY <1>3, FeedsApart DEF Effects
<1>5. AgencyInv(h)'
  BY <1>1, <1>2 DEF AgencyInv
<1>6. ASSUME NEW f \in FeedsOf(h) PROVE FeedInv(h, f)'
  <2>1. FeedInv(h, f)
    BY DEF ChainInv
  <2>2. Untouched(f)
    BY <1>4
  <2>3. /\ HeadIs(h, "compact", f)' <=> HeadIs(h, "compact", f)
        /\ HeadIs(h, "interim-ship", f)' <=> HeadIs(h, "interim-ship", f)
    BY <1>2 DEF HeadIs
  <2>4. FilesInv(h, f)'
    BY <1>2, <2>1, <2>2, <2>3 DEF FeedInv, FilesInv, Untouched, InPart, Complete, Absent
  <2>5. MadeInv(h, f)'
    BY <1>2, <2>1, <2>2 DEF FeedInv, MadeInv, Untouched, Complete
  <2>6. ColdInv(h, f)'
    BY <1>2, <2>1, <2>2 DEF FeedInv, ColdInv, Untouched
  <2>7. RollInv(h, f)'
    BY <1>2, <1>4, <2>1, <2>2 DEF FeedInv, RollInv, Untouched, Absent
  <2>8. MidInv(h, f)'
    BY <1>2, <2>1, <2>2, <2>3 DEF FeedInv, MidInv, Untouched, Complete
  <2>9. FinalInv(h, f)'
    BY <1>2, <2>1, <2>2 DEF FeedInv, FinalInv, Untouched, Complete
  <2> QED
    BY <2>4, <2>5, <2>6, <2>7, <2>8, <2>9 DEF FeedInv
<1> QED
  BY <1>5, <1>6

\* What a step of the agency leaves of its chain.
LEMMA ChainAfter ==
  ASSUME ChainInv, NEW a \in GroupIds, Effects(a)
  PROVE  /\ chain[a] # <<>> /\ place[a] = "running" /\ ok[a] /\ night = "running"
         /\ UNCHANGED <<night, selected, silverDir, place>>
         /\ \/ chain'[a] = Tail(chain[a]) /\ ok'[a]
            \/ chain'[a] = <<>> /\ ~ok'[a]
         /\ Continue(a) => chain'[a] = Tail(chain[a])
         /\ Break(a) => chain'[a] = <<>> /\ ~ok'[a]
         /\ \A f \in FeedsOf(a) : ~InPart(tree, f)
         /\ \A step, f : Has(chain[a], step, f) =>
              \/ Head(chain[a]) = [step |-> step, feeds |-> {f}]
              \/ Has(chain'[a], step, f) \/ ~ok'[a]
<1>1. Moves(a) /\ chain[a] # <<>> /\ AgencyInv(a) /\ Typed
  BY DEF Effects, Moves, ChainInv, Typed
<1>2. place[a] = "running" /\ ok[a] /\ night = "running"
  BY <1>1 DEF AgencyInv, ChainInv, NightInv
<1>3. /\ UNCHANGED <<night, selected, silverDir, place>>
      /\ Continue(a) => chain'[a] = Tail(chain[a])
      /\ Break(a) => chain'[a] = <<>> /\ ~ok'[a]
      /\ \/ Continue(a) /\ ok'[a]
         \/ Break(a)
  BY <1>1, <1>2 DEF Moves, Continue, Break, Typed, ChainTyped, ChainTypeOK
<1>4. \A f \in FeedsOf(a) : ~InPart(tree, f)
  BY <1>1 DEF ChainInv, FeedInv, FilesInv
<1> QED
  BY <1>1, <1>2, <1>3, <1>4, TailFacts

\* The chain of the agency itself.
LEMMA OwnChainKeeps ==
  ASSUME ChainInv, NEW a \in GroupIds, Effects(a)
  PROVE  AgencyInv(a)'
<1>1. AgencyInv(a) /\ chain[a] # <<>>
  BY ChainAfter DEF ChainInv
<1>2. CASE chain'[a] = Tail(chain[a]) /\ ok'[a]
  <2>1. WellFormed(a, chain'[a], 1, 4)
    BY <1>1, <1>2, HeadFacts
  <2>2. Only(chain[a], "cold-ship") => Only(chain'[a], "cold-ship")
    BY <1>1, <1>2, TailFacts
  <2> QED
    BY <1>1, <1>2, <2>1, <2>2, ChainAfter DEF AgencyInv
<1>3. CASE chain'[a] = <<>> /\ ~ok'[a]
  <2>1. WellFormed(a, chain'[a], 1, 4) /\ Only(chain'[a], "cold-ship")
    BY <1>3, WellFormedEmpty DEF Only
  <2> QED
    BY <1>3, <2>1, ChainAfter DEF AgencyInv
<1> QED
  BY <1>2, <1>3, ChainAfter

\* Its feeds: whether the command is of them or not.
LEMMA OwnFiles ==
  ASSUME ChainInv, NEW a \in GroupIds, Effects(a), NEW f \in FeedsOf(a)
  PROVE  FilesInv(a, f)'
<1> DEFINE c == Head(chain[a])
<1>1. f \in BatchFeeds /\ FilesInv(a, f) /\ AgencyInv(a)
  BY FeedsApart DEF ChainInv, FeedInv
<1>2. tree'[f] # NoFile => place'[a] = "running"
  BY ChainAfter
<1>3. CASE f \notin Args(a)
  <2>1. tree'[f] = tree[f] /\ (f \in uncompacted => f \in uncompacted')
    BY <1>1, <1>3 DEF Effects, Untouched
  <2>2. ~HeadIs(a, "compact", f)
    BY <1>3 DEF HeadIs, Args
  <2>3. InPart(tree', f) <=> InPart(tree, f)
    BY <2>1 DEF InPart, Complete, Absent
  <2> QED
    BY <1>1, <1>2, <2>1, <2>2, <2>3, ChainAfter DEF FilesInv
<1>4. CASE f \in Args(a)
  <2>1. Kept(a, f) /\ Makes(a, f) /\ ~InPart(tree, f)
    BY <1>1, <1>4, ChainAfter DEF Effects
  <2>2. ASSUME chain'[a] # <<>>, NEW s \in ProducerStages
        PROVE  Complete(tree', f, s) \/ Absent(tree', f, s)
    <3>1. ~Break(a)
      BY <2>2, ChainAfter
    <3>2. Complete(tree, f, s) \/ Absent(tree, f, s)
      BY <2>1 DEF InPart
    <3>3. CASE c.step = s
      <4>1. CASE c.step = "rollup"
        BY <2>1, <3>1, <3>3, <4>1 DEF Makes
      <4>2. CASE c.step # "rollup"
        <5>1. tree'[f] = tree[f] \/ Complete(tree', f, s)
          BY <2>1, <3>3, <4>2 DEF Makes, ProducerStages
        <5> QED
          BY <3>2, <5>1 DEF Complete, Absent
      <4> QED
        BY <4>1, <4>2
    <3>4. CASE c.step # s
      <4>1. \A x \in OutputsOf[s] : tree'[f][x] = tree[f][x] \/ c.step = "compact"
        BY <2>1, <3>4, FilesApart DEF Makes
      <4>2. \A x \in OutputsOf[s] : tree'[f][x] # "none" <=> tree[f][x] # "none"
        BY <2>1, <4>1, FilesApart DEF Makes
      <4> QED
        BY <3>2, <4>2 DEF Complete, Absent
    <3> QED
      BY <3>3, <3>4
  <2>3. ASSUME tree'[f][TripUpdates] = "whole", chain'[a] # <<>>
        PROVE  f \in uncompacted' \/ HeadIs(a, "compact", f)'
    <3>1. CASE c.step = "rollup"
      <4>1. Continue(a)
        BY <2>1, <2>3, <3>1, ChainAfter DEF Makes
      <4>2. c.feeds = {f}
        BY <1>1, <1>4, <3>1, ChainAfter, HeadFacts DEF Args
      <4> QED
        BY <1>1, <3>1, <4>1, <4>2, ChainAfter, HeadFacts DEF HeadIs
    <3>2. CASE c.step = "compact"
      BY <2>1, <2>3, <3>2 DEF Makes
    <3>3. CASE c.step \notin {"rollup", "compact"}
      <4>1. "rollup" \in ProducerStages /\ TripUpdates \in DayFiles
            /\ (c.step \in ProducerStages => TripUpdates \notin OutputsOf[c.step])
        BY <3>3, FilesApart DEF ProducerStages
      <4>2. tree[f][TripUpdates] = "whole"
        BY <2>1, <2>3, <3>3, <4>1 DEF Makes
      <4>3. f \in uncompacted => f \in uncompacted'
        BY <2>1 DEF Kept
      <4>4. ~HeadIs(a, "compact", f) /\ chain[a] # <<>>
        BY <3>3, ChainAfter DEF HeadIs
      <4> QED
        BY <1>1, <4>2, <4>3, <4>4 DEF FilesInv
    <3> QED
      BY <3>1, <3>2, <3>3
  <2>4. chain'[a] # <<>> => ~InPart(tree', f)
    BY <2>2 DEF InPart
  <2> QED
    BY <1>2, <2>3, <2>4 DEF FilesInv
<1> QED
  BY <1>3, <1>4

\* What was made is still there.
LEMMA OwnMade ==
  ASSUME ChainInv, NEW a \in GroupIds, Effects(a), NEW f \in FeedsOf(a)
  PROVE  MadeInv(a, f)'
<1> DEFINE c == Head(chain[a])
<1>1. /\ f \in BatchFeeds /\ MadeInv(a, f) /\ AgencyInv(a) /\ chain[a] # <<>>
      /\ place[a] = "running" /\ made[f] \subseteq ProducerStages
  BY FeedsApart, ChainAfter DEF ChainInv, FeedInv, ChainTypeOK
<1>2. UNCHANGED <<selected, silverDir, place>>
  BY ChainAfter
<1>3. CASE f \notin Args(a)
  <2>1. Untouched(f)
    BY <1>1, <1>3 DEF Effects
  <2> QED
    BY <1>1, <1>2, <2>1 DEF MadeInv, Untouched, Complete
<1>4. CASE f \in Args(a)
  <2>1. Kept(a, f) /\ Makes(a, f)
    BY <1>1, <1>4 DEF Effects
  <2>2. "hot-ship" \notin selected => made'[f] = {}
    <3>1. "hot-ship" \notin selected => c.step = "cold-ship" /\ made[f] = {}
      BY <1>1, TailFacts DEF AgencyInv, MadeInv
    <3> QED
      BY <2>1, <3>1 DEF Makes, ProducerStages
  <2>3. \A x \in DayFiles : tree[f][x] # "none" => tree'[f][x] # "none"
    BY <2>1 DEF Makes
  <2>4. ASSUME NEW s \in made'[f] PROVE Complete(tree', f, s)
    <3>1. CASE s \in made[f]
      <4>1. s \in ProducerStages /\ Complete(tree, f, s)
        BY <1>1, <3>1 DEF MadeInv
      <4> QED
        BY <2>3, <4>1, FilesApart DEF Complete
    <3>2. CASE s \notin made[f]
      BY <2>1, <3>2 DEF Makes
    <3> QED
      BY <3>1, <3>2
  <2> QED
    BY <1>1, <1>2, <2>2, <2>4 DEF MadeInv
<1> QED
  BY <1>3, <1>4

\* No feed loses its cold ship.
LEMMA OwnCold ==
  ASSUME ChainInv, NEW a \in GroupIds, Effects(a), NEW f \in FeedsOf(a)
  PROVE  ColdInv(a, f)'
<1> DEFINE c == Head(chain[a])
<1>1. f \in BatchFeeds /\ ColdInv(a, f) /\ AgencyInv(a) /\ chain[a] # <<>>
  BY FeedsApart, ChainAfter DEF ChainInv, FeedInv
<1>2. f \in Args(a) => Kept(a, f)
  BY <1>1 DEF Effects
<1>3. f \notin Args(a) => Untouched(f)
  BY <1>1 DEF Effects
<1>4. /\ f \in archived => f \in archived'
      /\ "cold-ship" \in missed[f] => "cold-ship" \in missed'[f]
  BY <1>2, <1>3 DEF Kept, Untouched
<1>5. ASSUME Has(chain[a], "cold-ship", f)
      PROVE  \/ f \in archived'
             \/ "cold-ship" \in missed'[f]
             \/ Has(chain'[a], "cold-ship", f)
  <2>1. c.step = "cold-ship"
    BY <1>1, <1>5, TailFacts
  <2>2. Continue(a) /\ ok'[a]
    BY <2>1, ChainAfter DEF Effects, Moves
  <2>3. CASE c = [step |-> "cold-ship", feeds |-> {f}]
    <3>1. f \in Args(a)
      BY <2>3 DEF Args
    <3> QED
      BY <1>2, <2>1, <3>1 DEF Kept, Ships
  <2>4. CASE c # [step |-> "cold-ship", feeds |-> {f}]
    BY <1>5, <2>2, <2>4, ChainAfter
  <2> QED
    BY <2>3, <2>4
<1> QED
  BY <1>1, <1>4, <1>5, ChainAfter DEF ColdInv

\* None loses its rollup, and gold runs after the last.
LEMMA OwnRoll ==
  ASSUME ChainInv, NEW a \in GroupIds, Effects(a), NEW f \in FeedsOf(a)
  PROVE  RollInv(a, f)'
<1> DEFINE c == Head(chain[a])
<1>1. AgencyInv(a) /\ chain[a] # <<>> /\ place[a] = "running" /\ ok[a]
  BY ChainAfter DEF ChainInv
<1>2. ASSUME NEW h \in FeedsOf(a)
      PROVE  /\ h \in BatchFeeds /\ RollInv(a, h)
             /\ h \in Args(a) => Kept(a, h) /\ Makes(a, h)
             /\ h \notin Args(a) => Untouched(h)
             /\ "rollup" \in made[h] => "rollup" \in made'[h]
  <2>1. h \in BatchFeeds /\ RollInv(a, h)
    BY FeedsApart DEF ChainInv, FeedInv
  <2>2. /\ h \in Args(a) => Kept(a, h) /\ Makes(a, h)
        /\ h \notin Args(a) => Untouched(h)
    BY <2>1 DEF Effects
  <2> QED
    BY <2>1, <2>2 DEF Makes, Untouched
<1>3. ASSUME "rollup" \in selected, ok'[a]
      PROVE  "rollup" \in made'[f] \/ Has(chain'[a], "rollup", f)
  <2>1. "rollup" \in made[f] \/ Has(chain[a], "rollup", f)
    BY <1>1, <1>2, <1>3 DEF RollInv
  <2>2. CASE c = [step |-> "rollup", feeds |-> {f}]
    <3>1. f \in Args(a) /\ c.step = "rollup"
      BY <2>2 DEF Args
    <3> QED
      BY <1>2, <1>3, <3>1, ChainAfter DEF Makes
  <2>3. CASE c # [step |-> "rollup", feeds |-> {f}]
    BY <1>2, <1>3, <2>1, <2>3, ChainAfter
  <2> QED
    BY <2>2, <2>3
<1>4. ASSUME "rollup" \in selected, ~Absent(tree', f, "gold"), NEW h \in FeedsOf(a)
      PROVE  "rollup" \in made'[h]
  <2>1. CASE ~Absent(tree, f, "gold")
    BY <1>2, <1>4, <2>1 DEF RollInv
  <2>2. CASE Absent(tree, f, "gold")
    <3>a. PICK x \in OutputsOf["gold"] : tree'[f][x] # "none" /\ tree[f][x] = "none"
      BY <1>4, <2>2 DEF Absent
    <3>b. "gold" \in ProducerStages /\ "rollup" \in ProducerStages /\ x \in DayFiles
          /\ x # TripUpdates
      BY FilesApart DEF ProducerStages
    <3>c. f \in Args(a) /\ Makes(a, f)
      BY <1>2, <3>a DEF Untouched
    <3>d. c.step \in ProducerStages /\ x \in OutputsOf[c.step]
      BY <3>a, <3>b, <3>c DEF Makes
    <3>1. c.step = "gold"
      BY <3>b, <3>d, FilesApart
    <3>2. ~Has(chain[a], "rollup", h)
      BY <1>1, <3>1, TailFacts
    <3> QED
      BY <1>1, <1>2, <1>4, <3>2 DEF RollInv
  <2> QED
    BY <2>1, <2>2
<1>5. selected' = selected
  BY ChainAfter
<1> QED
  BY <1>3, <1>4, <1>5 DEF RollInv

\* What was rolled up is compacted and shipped at once.
LEMMA OwnMid ==
  ASSUME ChainInv, NEW a \in GroupIds, Effects(a), NEW f \in FeedsOf(a)
  PROVE  MidInv(a, f)'
<1> DEFINE c == Head(chain[a])
<1>1. /\ f \in BatchFeeds /\ MidInv(a, f) /\ MadeInv(a, f) /\ AgencyInv(a)
      /\ chain[a] # <<>> /\ place[a] = "running" /\ night' = night
  BY FeedsApart, ChainAfter DEF ChainInv, FeedInv
<1>2. f \in Args(a) => Kept(a, f) /\ Makes(a, f)
  BY <1>1 DEF Effects
<1>3. f \notin Args(a) => Untouched(f)
  BY <1>1 DEF Effects
<1>4. /\ Complete(hot, f, "rollup") /\ f \in archived =>
           Complete(hot', f, "rollup") /\ f \in archived'
      /\ "interim-ship" \in missed[f] => "interim-ship" \in missed'[f]
  <2>1. \A x \in DayFiles : hot[f][x] # "none" => hot'[f][x] # "none"
    BY <1>2, <1>3 DEF Kept, Untouched
  <2>2. OutputsOf["rollup"] \subseteq DayFiles
    BY FilesApart DEF ProducerStages
  <2>3. Complete(hot, f, "rollup") => Complete(hot', f, "rollup")
    BY <2>1, <2>2 DEF Complete
  <2> QED
    BY <2>3, <1>2, <1>3 DEF Kept, Untouched
<1>5. ASSUME "rollup" \in made'[f], "rollup" \notin made[f]
      PROVE  HeadIs(a, "compact", f)'
  <2>1. f \in Args(a) /\ c.step = "rollup"
    BY <1>2, <1>3, <1>5 DEF Makes, Untouched
  <2>2. c.feeds = {f}
    BY <1>1, <2>1, HeadFacts DEF Args
  <2>3. Continue(a)
    BY <1>2, <1>5, <2>1 DEF Makes
  <2> QED
    BY <1>1, <2>1, <2>2, <2>3, ChainAfter, HeadFacts DEF HeadIs
<1>6. ASSUME HeadIs(a, "compact", f)
      PROVE  HeadIs(a, "interim-ship", f)'
  <2>1. f \in Args(a) /\ c.step = "compact" /\ c.feeds = {f}
    BY <1>6 DEF HeadIs, Args
  <2>2. Continue(a)
    BY <1>2, <2>1 DEF Makes
  <2> QED
    BY <1>1, <2>1, <2>2, ChainAfter, HeadFacts DEF HeadIs
<1>7. ASSUME HeadIs(a, "interim-ship", f), "rollup" \in made[f]
      PROVE  \/ Complete(hot', f, "rollup") /\ f \in archived'
             \/ "interim-ship" \in missed'[f]
  <2>1. f \in Args(a) /\ c.step = "interim-ship"
    BY <1>7 DEF HeadIs, Args
  <2>2. Complete(tree, f, "rollup") /\ OutputsOf["rollup"] \subseteq DayFiles
    BY <1>1, <1>7, FilesApart DEF MadeInv, ProducerStages
  <2>3. \/ "interim-ship" \in missed'[f]
        \/ /\ f \in archived'
           /\ \A x \in DayFiles : tree[f][x] # "none" => hot'[f][x] # "none"
    BY <1>2, <2>1 DEF Kept, Ships
  <2> QED
    BY <2>2, <2>3 DEF Complete
<1>8. "rollup" \in made[f] \/ "rollup" \notin made[f]
  OBVIOUS
<1> QED
  BY <1>1, <1>4, <1>5, <1>6, <1>7 DEF MidInv

\* The last ship takes what is there, and only ships follow.
LEMMA OwnFinal ==
  ASSUME ChainInv, NEW a \in GroupIds, Effects(a), NEW f \in FeedsOf(a)
  PROVE  FinalInv(a, f)'
<1> DEFINE c == Head(chain[a])
           t == Tail(chain[a])
<1>1. /\ f \in BatchFeeds /\ FinalInv(a, f) /\ MadeInv(a, f) /\ AgencyInv(a)
      /\ chain[a] # <<>> /\ place[a] = "running" /\ ok[a]
      /\ UNCHANGED <<night, selected, place>>
      /\ made[f] \subseteq ProducerStages
  BY FeedsApart, ChainAfter DEF ChainInv, FeedInv, ChainTypeOK
<1>2. f \in Args(a) => Kept(a, f) /\ Makes(a, f)
  BY <1>1 DEF Effects
<1>3. f \notin Args(a) => Untouched(f)
  BY <1>1 DEF Effects
<1>4. /\ f \in archived => f \in archived'
      /\ "hot-ship" \in missed[f] => "hot-ship" \in missed'[f]
      /\ \A s \in made[f] : Complete(hot, f, s) => Complete(hot', f, s)
  <2>1. \A x \in DayFiles : hot[f][x] # "none" => hot'[f][x] # "none"
    BY <1>2, <1>3 DEF Kept, Untouched
  <2>2. \A s \in made[f] : OutputsOf[s] \subseteq DayFiles
    BY <1>1, FilesApart
  <2>3. \A s \in made[f] : Complete(hot, f, s) => Complete(hot', f, s)
    BY <2>1, <2>2 DEF Complete
  <2> QED
    BY <2>3, <1>2, <1>3 DEF Kept, Untouched
<1>5. c.step = "hot-ship" => made'[f] = made[f]
  BY <1>2, <1>3 DEF Makes, Untouched, ProducerStages
<1> SUFFICES ASSUME "hot-ship" \in selected, night # "killed", ok'[a]
             PROVE  \/ "hot-ship" \in missed'[f]
                    \/ Has(chain'[a], "hot-ship", f)
                    \/ /\ f \in archived'
                       /\ Only(chain'[a], "hot-ship")
                       /\ \A s \in made'[f] : Complete(hot', f, s)
  BY <1>1 DEF FinalInv
<1>6. chain'[a] = t
  BY ChainAfter
<1> HIDE DEF c, t
<1>7. CASE "hot-ship" \in missed[f]
  BY <1>4, <1>7
<1>8. CASE Has(chain[a], "hot-ship", f)
  <2>1. CASE c = [step |-> "hot-ship", feeds |-> {f}]
    <3>1. f \in Args(a) /\ c.step = "hot-ship"
      BY <2>1 DEF Args, c
    <3>2. Only(chain'[a], "hot-ship")
      BY <1>1, <1>6, <3>1, TailFacts DEF c, t
    <3>3. \A s \in made[f] : Complete(tree, f, s) /\ OutputsOf[s] \subseteq DayFiles
      BY <1>1, FilesApart DEF MadeInv
    <3>4. \/ "hot-ship" \in missed'[f]
          \/ /\ f \in archived'
             /\ \A x \in DayFiles : tree[f][x] # "none" => hot'[f][x] # "none"
      BY <1>2, <3>1 DEF Kept, Ships, c
    <3>5. \/ "hot-ship" \in missed'[f]
          \/ f \in archived' /\ \A s \in made[f] : Complete(hot', f, s)
      BY <3>3, <3>4 DEF Complete
    <3> QED
      BY <1>1, <1>5, <3>1, <3>2, <3>5
  <2>2. CASE c # [step |-> "hot-ship", feeds |-> {f}]
    BY <1>8, <2>2, ChainAfter DEF c
  <2> QED
    BY <2>1, <2>2
<1>9. CASE /\ f \in archived
           /\ Only(chain[a], "hot-ship")
           /\ \A s \in made[f] : Complete(hot, f, s)
  <2>1. c.step = "hot-ship" /\ Only(t, "hot-ship")
    BY <1>1, <1>9, TailFacts DEF c, t
  <2> QED
    BY <1>1, <1>4, <1>5, <1>6, <1>9, <2>1
<1> QED
  BY <1>1, <1>7, <1>8, <1>9 DEF FinalInv

\* Together.
LEMMA StepKeeps ==
  ASSUME ChainInv, NEW a \in GroupIds, Step(a) PROVE ChainInv'
<1> DEFINE c == Head(chain[a])
<1>1. Effects(a) /\ AgencyInv(a)
  BY StepEffects DEF ChainInv, Typed
<1>2. Typed'
  BY <1>1 DEF Effects
<1>3. UNCHANGED <<night, selected, place>> /\ chain[a] # <<>>
  BY <1>1, ChainAfter
<1>4. NightInv'
  <2>1. Busy' = Busy
    BY <1>3 DEF Busy
  <2> QED
    BY <1>3, <2>1 DEF ChainInv, NightInv
<1>5. ASSUME NEW f \in BatchFeeds
      PROVE  /\ f \in Args(a) => f \in FeedsOf(a) /\ Kept(a, f)
             /\ f \notin Args(a) => Untouched(f)
  <2>1. Args(a) \subseteq FeedsOf(a)
    BY <1>1, <1>3, HeadFacts DEF Args
  <2> QED
    BY <1>1, <2>1 DEF Effects
<1>6. NothingPartialShips'
  <2> SUFFICES ASSUME NEW f \in BatchFeeds, InPart(hot', f) PROVE f \in interrupted'
    BY DEF NothingPartialShips
  <2>1. InPart(hot, f) => f \in interrupted
    BY DEF ChainInv, NothingPartialShips
  <2>2. CASE hot'[f] = hot[f] /\ Accounted(f)
    <3>1. InPart(hot, f)
      BY <2>2 DEF InPart, Complete, Absent
    <3> QED
      BY <2>1, <2>2, <3>1 DEF Accounted
  <2>3. CASE /\ f \in FeedsOf(a) /\ Kept(a, f) /\ Accounted(f)
             /\ \A x \in DayFiles : tree[f][x] # "none" => hot'[f][x] # "none"
    <3>1. PICK s \in ProducerStages : ~Complete(hot', f, s) /\ ~Absent(hot', f, s)
      BY DEF InPart
    <3>2. OutputsOf[s] \subseteq DayFiles
      BY FilesApart
    <3>3. Complete(tree, f, s) \/ Absent(tree, f, s)
      BY <1>1, <2>3, ChainAfter DEF InPart
    <3>4. Absent(tree, f, s)
      BY <2>3, <3>1, <3>2, <3>3 DEF Complete
    <3>5. \A x \in OutputsOf[s] : hot'[f][x] = hot[f][x]
      BY <2>3, <3>2, <3>4 DEF Kept, Absent
    <3>6. ~Complete(hot, f, s) /\ ~Absent(hot, f, s)
      BY <3>1, <3>5 DEF Complete, Absent
    <3> QED
      BY <2>1, <2>3, <3>6 DEF InPart, Accounted
  <2>4. CASE f \in interrupted'
    BY <2>4
  <2>5. f \in Args(a) => \/ f \in interrupted'
                         \/ Accounted(f) /\ hot'[f] = hot[f]
                         \/ /\ Accounted(f)
                            /\ \A x \in DayFiles : tree[f][x] # "none" => hot'[f][x] # "none"
    BY <1>5 DEF Kept
  <2>6. f \notin Args(a) => Accounted(f) /\ hot'[f] = hot[f]
    BY <1>5 DEF Untouched
  <2> QED
    BY <1>5, <2>2, <2>3, <2>4, <2>5, <2>6
<1>7. ShipsCompacted'
  <2> SUFFICES ASSUME NEW f \in BatchFeeds, hot'[f][TripUpdates] = "whole"
               PROVE  f \in uncompacted'
    BY DEF ShipsCompacted
  <2>1. f \in uncompacted => f \in uncompacted'
    BY <1>1 DEF Effects, Kept, Untouched
  <2>2. CASE hot[f][TripUpdates] = "whole"
    BY <2>1, <2>2 DEF ChainInv, ShipsCompacted
  <2>3. CASE hot[f][TripUpdates] # "whole"
    <3>1. /\ f \in FeedsOf(a) /\ c.step \in {"interim-ship", "hot-ship"}
          /\ tree[f][TripUpdates] = "whole"
      BY <1>5, <2>3, FilesApart DEF Kept, Untouched
    <3>2. FilesInv(a, f) /\ ~HeadIs(a, "compact", f)
      BY <3>1 DEF ChainInv, FeedInv, HeadIs
    <3> QED
      BY <1>3, <2>1, <3>1, <3>2 DEF FilesInv
  <2> QED
    BY <2>2, <2>3
<1>8. ASSUME NEW g \in GroupIds
      PROVE  AgencyInv(g)' /\ \A f \in FeedsOf(g) : FeedInv(g, f)'
  <2>1. CASE g = a
    BY <1>1, <2>1, OwnChainKeeps, OwnFiles, OwnMade, OwnCold, OwnRoll, OwnMid, OwnFinal
    DEF FeedInv
  <2>2. CASE g # a
    BY <1>1, <2>2, OthersKeep
  <2> QED
    BY <2>1, <2>2
<1> QED
  BY <1>2, <1>4, <1>6, <1>7, <1>8 DEF ChainInv, Typed

-----------------------------------------------------------------------------
(* Tasks and agencies begin and end.                                       *)

\* A new task has an empty disk, and its agencies wait.
LEMMA StartKeeps ==
  ASSUME ChainInv, NEW menu \in Menus, NEW force \in BOOLEAN, StartNight(menu, force)
  PROVE  ChainInv'
<1> USE DEF StartNight
<1>1. /\ \A g \in GroupIds : chain[g] = <<>>
      /\ UNCHANGED <<chain, hot, archived, uncompacted, interrupted, mishaps>>
  BY DEF ChainInv, NightInv, AgencyInv, buckets
<1>2. menu.stages \in SUBSET StageNames /\ menu.silverDir \in BOOLEAN
  BY AgencyBatchAssumption
<1>3. /\ selected' \in SUBSET StageNames
      /\ selected' \cap ProducerStages # {} => "hot-ship" \in selected'
  BY <1>2 DEF ResolveStages, StageNames, ProducerStages
<1>4. NoFile \in [DayFiles -> Contents]
  BY DEF NoFile, Contents
<1>5. ChainTypeOK' /\ ChainTyped'
  <2>1. tree' \in [BatchFeeds -> [DayFiles -> Contents]]
    BY <1>4
  <2> QED
    BY <1>1, <1>2, <1>3, <2>1 DEF ChainInv, ChainTypeOK, ChainTyped
<1>6. NightInv'
  <2>1. Busy' = {}
    BY DEF Busy
  <2> QED
    BY <1>3, <2>1, FS_EmptySet, AgencyBatchAssumption DEF NightInv
<1>7. NothingPartialShips' /\ ShipsCompacted'
  BY <1>1 DEF ChainInv, NothingPartialShips, ShipsCompacted, InPart, Complete, Absent
<1>8. ASSUME NEW g \in GroupIds PROVE AgencyInv(g)'
  BY <1>1, WellFormedEmpty DEF AgencyInv, Only
<1>9. ASSUME NEW g \in GroupIds, NEW f \in FeedsOf(g) PROVE FeedInv(g, f)'
  <2>1. f \in BatchFeeds
    BY FeedsApart
  <2>2. tree'[f] = NoFile /\ made'[f] = {} /\ place'[g] = "queued"
    BY <2>1
  <2>3. tree'[f][TripUpdates] = "none" /\ Absent(tree', f, "gold")
    BY <2>2, FilesApart DEF NoFile, Absent, ProducerStages
  <2> HIDE DEF StartNight
  <2> QED
    BY <1>1, <2>2, <2>3
    DEF FeedInv, FilesInv, MadeInv, ColdInv, RollInv, MidInv, FinalInv
<1> QED
  BY <1>5, <1>6, <1>7, <1>8, <1>9 DEF ChainInv

\* An agency begins with all its commands to come.
LEMMA BeginKeeps ==
  ASSUME ChainInv, NEW a \in GroupIds, BeginAgency(a) PROVE ChainInv'
<1> DEFINE s == Commands(a, selected)
<1>1. /\ night = "running" /\ place[a] = "queued" /\ Cardinality(Busy) < Workers
      /\ place' = [place EXCEPT ![a] = "running"]
      /\ chain' = [chain EXCEPT ![a] = s]
      /\ UNCHANGED <<night, nights, selected, silverDir, forcing, ok, tree, hot, archived,
                     made, missed, uncompacted, interrupted, mishaps>>
  BY DEF BeginAgency, task, buckets, account
<1>2. /\ ChainTypeOK /\ ChainTyped /\ NightInv
      /\ \A g \in GroupIds : AgencyInv(g) /\ \A f \in FeedsOf(g) : FeedInv(g, f)
  BY DEF ChainInv
<1>3. /\ WellFormed(a, s, 1, 4)
      /\ "hot-ship" \notin selected => Only(s, "cold-ship")
      /\ \A f \in FeedsOf(a) :
           /\ "cold-ship" \in selected => Has(s, "cold-ship", f)
           /\ "rollup" \in selected => Has(s, "rollup", f)
           /\ "hot-ship" \in selected => Has(s, "hot-ship", f)
  BY <1>2, CommandsWellFormed DEF NightInv
<1>4. s \in Seq(Command)
  BY <1>3 DEF WellFormed
<1> HIDE DEF s
<1>5. ChainTypeOK' /\ ChainTyped'
  BY <1>1, <1>2, <1>4 DEF ChainTypeOK, ChainTyped
<1>6. NightInv'
  <2>1. Busy' = Busy \cup {a} /\ a \notin Busy
    BY <1>1, <1>2 DEF Busy, ChainTypeOK
  <2>2. IsFiniteSet(Busy)
    BY AgencyBatchAssumption, FS_Subset DEF Busy
  <2>3. Cardinality(Busy') = Cardinality(Busy) + 1 /\ Cardinality(Busy) \in Nat
    BY <2>1, <2>2, FS_AddElement, FS_CardinalityType
  <2>4. Cardinality(Busy') <= Workers
    BY <1>1, <2>3, AgencyBatchAssumption
  <2> QED
    BY <1>1, <1>2, <2>4 DEF NightInv
<1>7. NothingPartialShips' /\ ShipsCompacted'
  BY <1>1 DEF ChainInv, NothingPartialShips, ShipsCompacted, InPart, Complete, Absent
<1>8. ASSUME NEW g \in GroupIds
      PROVE  /\ g = a => chain'[g] = s /\ place'[g] = "running" /\ chain[g] = <<>> /\ ok[g]
             /\ g # a => chain'[g] = chain[g] /\ place'[g] = place[g]
  BY <1>1, <1>2 DEF AgencyInv, ChainTypeOK, ChainTyped
<1>9. ASSUME NEW g \in GroupIds PROVE AgencyInv(g)'
  BY <1>1, <1>2, <1>3, <1>8 DEF AgencyInv
<1>10. ASSUME NEW g \in GroupIds, NEW f \in FeedsOf(g) PROVE FeedInv(g, f)'
  <2>1. FeedInv(g, f) /\ f \in BatchFeeds
    BY <1>2, FeedsApart
  <2>2. CASE g = a
    <3>1. tree[f] = NoFile /\ made[f] = {} /\ place'[a] = "running"
      BY <1>1, <1>8, <2>1, <2>2 DEF FeedInv, FilesInv, MadeInv
    <3>2. tree[f][TripUpdates] = "none"
          /\ \A t \in ProducerStages : Absent(tree, f, t)
      BY <2>1, <3>1, FilesApart DEF NoFile, Absent
    <3>3. ~InPart(tree, f) /\ Absent(tree, f, "gold")
      BY <3>2 DEF InPart, ProducerStages
    <3>4. tree' = tree /\ (InPart(tree', f) <=> InPart(tree, f))
          /\ (Absent(tree', f, "gold") <=> Absent(tree, f, "gold"))
      BY <1>1
    <3> QED
      BY <1>1, <1>3, <1>8, <2>2, <3>1, <3>2, <3>3, <3>4
      DEF FeedInv, FilesInv, MadeInv, ColdInv, RollInv, MidInv, FinalInv
  <2>3. CASE g # a
    <3>1. chain'[g] = chain[g] /\ place'[g] = place[g]
      BY <1>8, <2>3
    <3> QED
      BY <1>1, <2>1, <3>1
      DEF FeedInv, FilesInv, MadeInv, ColdInv, RollInv, MidInv, FinalInv, HeadIs, InPart,
        Complete, Absent
  <2> QED
    BY <2>2, <2>3
<1> QED
  BY <1>5, <1>6, <1>7, <1>9, <1>10 DEF ChainInv

\* An agency that is done has no commands, and leaves no files.
LEMMA EndAgencyKeeps ==
  ASSUME ChainInv, NEW a \in GroupIds, EndAgency(a) PROVE ChainInv'
<1>1. /\ place[a] = "running" /\ chain[a] = <<>>
      /\ place' = [place EXCEPT ![a] = "done"]
      /\ tree' = Cleaned(a)
      /\ UNCHANGED <<night, nights, selected, silverDir, forcing, chain, ok, hot, archived,
                     made, missed, uncompacted, interrupted, mishaps>>
  BY DEF EndAgency, task, buckets, account
<1>2. /\ ChainTypeOK /\ ChainTyped /\ NightInv
      /\ \A g \in GroupIds : AgencyInv(g) /\ \A f \in FeedsOf(g) : FeedInv(g, f)
  BY DEF ChainInv
<1>3. NoFile \in [DayFiles -> Contents]
  BY DEF NoFile, Contents
<1>4. \A f \in BatchFeeds : tree'[f] = IF f \in FeedsOf(a) THEN NoFile ELSE tree[f]
  BY <1>1 DEF Cleaned
<1>5. ChainTypeOK' /\ ChainTyped'
  <2>1. tree' \in [BatchFeeds -> [DayFiles -> Contents]]
    BY <1>1, <1>2, <1>3 DEF Cleaned, ChainTypeOK
  <2> QED
    BY <1>1, <1>2, <2>1 DEF ChainTypeOK, ChainTyped
<1>6. night = "running"
  BY <1>1, <1>2 DEF NightInv
<1>7. NightInv'
  <2>1. Busy' \subseteq Busy
    BY <1>1, <1>2 DEF Busy, ChainTypeOK
  <2>2. IsFiniteSet(Busy)
    BY AgencyBatchAssumption, FS_Subset DEF Busy
  <2>3. /\ Cardinality(Busy') <= Cardinality(Busy)
        /\ Cardinality(Busy') \in Nat /\ Cardinality(Busy) \in Nat
    BY <2>1, <2>2, FS_Subset, FS_CardinalityType
  <2>4. Cardinality(Busy') <= Workers
    BY <1>2, <2>3, AgencyBatchAssumption DEF NightInv
  <2> QED
    BY <1>1, <1>2, <1>6, <2>4 DEF NightInv
<1>8. NothingPartialShips' /\ ShipsCompacted'
  BY <1>1 DEF ChainInv, NothingPartialShips, ShipsCompacted, InPart, Complete, Absent
<1>9. ASSUME NEW g \in GroupIds
      PROVE  place'[g] = IF g = a THEN "done" ELSE place[g]
  BY <1>1, <1>2 DEF ChainTypeOK
<1>10. ASSUME NEW g \in GroupIds PROVE AgencyInv(g)'
  BY <1>1, <1>2, <1>9 DEF AgencyInv
<1>11. ASSUME NEW g \in GroupIds, NEW f \in FeedsOf(g) PROVE FeedInv(g, f)'
  <2>1. FeedInv(g, f) /\ f \in BatchFeeds
    BY <1>2, FeedsApart
  <2>2. CASE g = a
    <3>1. tree'[f] = NoFile /\ place'[a] = "done"
      BY <1>4, <1>9, <2>1, <2>2
    <3>2. tree'[f][TripUpdates] = "none" /\ Absent(tree', f, "gold")
      BY <3>1, FilesApart DEF NoFile, Absent, ProducerStages
    <3> QED
      BY <1>1, <2>1, <2>2, <3>1, <3>2
      DEF FeedInv, FilesInv, MadeInv, ColdInv, RollInv, MidInv, FinalInv, HeadIs, Complete
  <2>3. CASE g # a
    <3>1. tree'[f] = tree[f] /\ place'[g] = place[g]
      BY <1>4, <1>9, <2>1, <2>3, FeedsApart
    <3> QED
      BY <1>1, <2>1, <3>1
      DEF FeedInv, FilesInv, MadeInv, ColdInv, RollInv, MidInv, FinalInv, HeadIs, InPart,
        Complete, Absent
  <2> QED
    BY <2>2, <2>3
<1> QED
  BY <1>5, <1>7, <1>8, <1>10, <1>11 DEF ChainInv

\* The end of a task changes nothing else.
LEMMA EndNightKeeps ==
  ASSUME ChainInv, EndNight PROVE ChainInv'
<1>1. /\ night = "running" /\ night' = "ended"
      /\ \A g \in GroupIds : place[g] = "done"
      /\ UNCHANGED <<nights, selected, silverDir, forcing, place, chain, ok, tree, hot, archived,
                     made, missed, uncompacted, interrupted, mishaps>>
  BY DEF EndNight, buckets, account
<1>2. ChainTypeOK' /\ ChainTyped' /\ NothingPartialShips' /\ ShipsCompacted'
  BY <1>1 DEF ChainInv, ChainTypeOK, ChainTyped, NothingPartialShips, ShipsCompacted
<1>3. NightInv'
  BY <1>1 DEF ChainInv, NightInv, Busy
<1>4. ASSUME NEW g \in GroupIds PROVE AgencyInv(g)'
  BY <1>1 DEF ChainInv, AgencyInv
<1>5. ASSUME NEW g \in GroupIds, NEW f \in FeedsOf(g) PROVE FeedInv(g, f)'
  <2>1. FeedInv(g, f)
    BY DEF ChainInv
  <2> QED
    BY <1>1, <2>1
    DEF FeedInv, FilesInv, MadeInv, ColdInv, RollInv, MidInv, FinalInv, HeadIs, InPart,
        Complete, Absent
<1> QED
  BY <1>2, <1>3, <1>4, <1>5 DEF ChainInv

\* A killed task promises nothing but what the buckets have.
LEMMA NightKilledKeeps ==
  ASSUME ChainInv, NightKilled PROVE ChainInv'
<1>1. /\ night' = "killed"
      /\ place' = [g \in GroupIds |-> "done"]
      /\ chain' = [g \in GroupIds |-> <<>>]
      /\ ok' = [g \in GroupIds |-> FALSE]
      /\ tree' = [f \in BatchFeeds |-> NoFile]
      /\ UNCHANGED <<nights, selected, silverDir, forcing, hot, archived, made, missed,
                     uncompacted, interrupted>>
      /\ Mishap
  BY DEF NightKilled, buckets, account
<1>2. ChainTypeOK' /\ ChainTyped'
  <2>1. NoFile \in [DayFiles -> Contents] /\ <<>> \in Seq(Command)
    BY DEF NoFile, Contents
  <2>2. mishaps' \in 0..MaxMishaps
    BY <1>1, AgencyBatchAssumption DEF ChainInv, ChainTypeOK, Mishap
  <2>3. ChainTyped'
    BY <1>1, <2>1 DEF ChainTyped
  <2>4. tree' \in [BatchFeeds -> [DayFiles -> Contents]]
    BY <1>1, <2>1
  <2> QED
    BY <1>1, <2>2, <2>3, <2>4 DEF ChainInv, ChainTypeOK
<1>3. NightInv'
  <2>1. Busy' = {}
    BY <1>1 DEF Busy
  <2> QED
    BY <1>1, <2>1, FS_EmptySet, AgencyBatchAssumption DEF ChainInv, NightInv
<1>4. NothingPartialShips' /\ ShipsCompacted'
  BY <1>1 DEF ChainInv, NothingPartialShips, ShipsCompacted, InPart, Complete, Absent
<1>5. ASSUME NEW g \in GroupIds PROVE AgencyInv(g)'
  BY <1>1, WellFormedEmpty DEF AgencyInv, Only
<1>6. ASSUME NEW g \in GroupIds, NEW f \in FeedsOf(g) PROVE FeedInv(g, f)'
  <2>1. MadeInv(g, f) /\ f \in BatchFeeds
    BY FeedsApart DEF ChainInv, FeedInv
  <2>2. tree'[f] = NoFile /\ place'[g] = "done"
    BY <1>1, <2>1
  <2>3. tree'[f][TripUpdates] = "none" /\ Absent(tree', f, "gold")
    BY <2>2, FilesApart DEF NoFile, Absent, ProducerStages
  <2> QED
    BY <1>1, <2>1, <2>2, <2>3
    DEF FeedInv, FilesInv, MadeInv, ColdInv, RollInv, MidInv, FinalInv
<1> QED
  BY <1>2, <1>3, <1>4, <1>5, <1>6 DEF ChainInv

\* Stuttering.
LEMMA IdleKeeps ==
  ASSUME ChainInv, UNCHANGED batchVars PROVE ChainInv'
<1>1. UNCHANGED <<night, nights, selected, silverDir, forcing, place, chain, ok, tree, hot,
                  archived, made, missed, uncompacted, interrupted, mishaps>>
  BY DEF batchVars, task, buckets, account
<1>2. ChainTypeOK' /\ ChainTyped' /\ NothingPartialShips' /\ ShipsCompacted' /\ NightInv'
  BY <1>1 DEF ChainInv, ChainTypeOK, ChainTyped, NothingPartialShips, ShipsCompacted, NightInv,
              Busy
<1>3. ASSUME NEW g \in GroupIds PROVE AgencyInv(g)'
  BY <1>1 DEF ChainInv, AgencyInv
<1>4. ASSUME NEW g \in GroupIds, NEW f \in FeedsOf(g) PROVE FeedInv(g, f)'
  <2>1. FeedInv(g, f)
    BY DEF ChainInv
  <2> QED
    BY <1>1, <2>1
    DEF FeedInv, FilesInv, MadeInv, ColdInv, RollInv, MidInv, FinalInv, HeadIs, InPart,
        Complete, Absent
<1> QED
  BY <1>2, <1>3, <1>4 DEF ChainInv

\* A task of the batch archives, ships, compacts and cleans as it promises, for
\* any agencies, feeds, stages, workers and failures.
THEOREM ChainStaysSound == BatchSpec => []ChainSound
<1>1. BatchInit => ChainInv
  BY ChainInit
<1>2. ChainInv /\ [BatchNext]_batchVars => ChainInv'
  BY StepKeeps, StartKeeps, BeginKeeps, EndAgencyKeeps, EndNightKeeps, NightKilledKeeps,
     IdleKeeps DEF BatchNext
<1>3. ChainInv => ChainSound
  BY ChainInvSuffices
<1> QED
  BY <1>1, <1>2, <1>3, PTL DEF BatchSpec

=============================================================================
