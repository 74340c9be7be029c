------------------------------ MODULE MCServices ------------------------------
(***************************************************************************)
(* The services beside the poll loop, model-checked together: they share   *)
(* no state, so each behaviour is one of a single service, the others      *)
(* resting in their initial states.                                        *)
(*                                                                         *)
(* "landing" is LandingUploader under the fairness it defines; "pool" is   *)
(* WorkerPool, "delete" BulkDelete, "rate" RateLimit, "fleet" Fleet and    *)
(* "batch" AgencyBatch.                                                    *)
(***************************************************************************)
EXTENDS LandingUploader, WorkerPool, BulkDelete, RateLimit, Fleet,
        AgencyBatch, TLC

CONSTANTS f1, f2, a, b, p1, p2, p3, k1, k2, k3, amtrak, bart, sncf, mars,
          metro, ferry, x1, x2, y1,
          vehicles, updates, stops, trips, schedule, alerts

OneFeed == {f1}
OneDigest == {a}

ThreePairs == {p1, p2, p3}

ThreeObjects == {k1, k2, k3}
TwoChunks == k1 :> 1 @@ k2 :> 1 @@ k3 :> 2

\* A pinned agency, one left to its hash, one of the other continent, and one
\* in no known timezone.
FourAgencies == {amtrak, bart, sncf, mars}
FleetTimezones == amtrak :> "us" @@ bart :> "us" @@ sncf :> "eu" @@ mars :> Unmapped
FleetPins == amtrak :> 1 @@ bart :> NoPin @@ sncf :> NoPin @@ mars :> NoPin
FleetHashes == amtrak :> 2 @@ bart :> 4 @@ sncf :> 7 @@ mars :> 3
FleetKeys == amtrak :> "k" @@ bart :> NoKey @@ sncf :> "e" @@ mars :> NoKey
TwoBoxes == {"us", "eu"}
FleetContinents == "us" :> "us" @@ "eu" :> "eu"
FleetCounts == "us" :> 2 @@ "eu" :> 1
FleetShards == "us" :> {0, 1} @@ "eu" :> {0}

\* Two feeds of an agency, whose output fills the disk that the agency after
\* it needs.
TwoGroups == metro :> <<x1, x2>> @@ ferry :> <<y1>>

\* Two kinds of silver and two marts, each a file of its own; gold is built from
\* one kind for one feed and from the other for the next.
StageFiles == [rollup |-> {vehicles, updates}, gold |-> {stops, trips},
               gtfs |-> {schedule}, snapshot |-> {alerts}]
SilverRead == x1 :> vehicles @@ x2 :> updates @@ y1 :> vehicles

\* The combined task, the snapshot's own and the heavy agencies' gold.
NightMenus == {[stages |-> {"cold-ship", "rollup", "gtfs", "gold"}, silverDir |-> FALSE],
               [stages |-> {"snapshot"}, silverDir |-> FALSE],
               [stages |-> {"gold"}, silverDir |-> TRUE]}

VARIABLE part

Parts == {"landing", "pool", "delete", "rate", "fleet", "batch"}

servicesVars == <<part, vars, poolVars, deleteVars, rateVars, fleetVars, batchVars>>

ServicesInit ==
  /\ part \in Parts
  /\ Init /\ PoolInit /\ DeleteInit /\ RateInit /\ FleetInit /\ BatchInit

ServicesNext ==
  /\ UNCHANGED part
  /\ \/ part = "landing" /\ Next
        /\ UNCHANGED <<poolVars, deleteVars, rateVars, fleetVars, batchVars>>
     \/ part = "pool" /\ PoolNext
        /\ UNCHANGED <<vars, deleteVars, rateVars, fleetVars, batchVars>>
     \/ part = "delete" /\ DeleteNext
        /\ UNCHANGED <<vars, poolVars, rateVars, fleetVars, batchVars>>
     \/ part = "rate" /\ RateNext
        /\ UNCHANGED <<vars, poolVars, deleteVars, fleetVars, batchVars>>
     \/ part = "fleet" /\ FleetNext
        /\ UNCHANGED <<vars, poolVars, deleteVars, rateVars, batchVars>>
     \/ part = "batch" /\ BatchNext
        /\ UNCHANGED <<vars, poolVars, deleteVars, rateVars, fleetVars>>

\* The fairness of LandingUploader, WorkerPool, BulkDelete and AgencyBatch.
ServicesFairness ==
  /\ WF_vars(part = "landing" /\ Write /\ UNCHANGED <<s3, landing, worker>>)
  /\ WF_vars(part = "landing" /\ (Scan \/ RawSweep))
  /\ WF_vars(part = "landing" /\ (Gathered \/ Tick)
             /\ UNCHANGED <<s3, landing, worker>>)
  /\ WF_vars(part = "landing" /\ Joined)
  /\ WF_vars(part = "landing" /\ Boot)
  /\ WF_poolVars(part = "pool" /\ (Parent \/ \E p \in Pairs : Process(p)))
  /\ WF_deleteVars(part = "delete" /\ DeleteNext)
  /\ WF_batchVars(part = "batch" /\ Onward)

ServicesSpec == ServicesInit /\ [][ServicesNext]_servicesVars /\ ServicesFairness

\* However often workers die, a parallel rollup that was launched ends, and so
\* does a bulk delete, however its requests fail: retries are bounded
\* (MAX_ATTEMPTS of run_parallel, max_retries of delete_objects).  A task of
\* the batch ends with every agency done, whichever of them fails.
EveryCallEnds ==
  LET underway == \/ part = "pool" /\ RunUnderway
                  \/ part = "delete" /\ DeleteUnderway
                  \/ part = "batch" /\ NightUnderway
  IN  underway ~> ~underway

=============================================================================
