------------------------------ MODULE AgencyBatch ------------------------------
(***************************************************************************)
(* agency_batch.py: one task of the nightly batch.  Worker threads take    *)
(* one agency after the other and run its chain of subprocesses: archive   *)
(* every feed, then roll up, compact and ship each feed by itself, then    *)
(* the stages of the whole agency, then the final ships.  All agencies     *)
(* share the disk of the task, which dies with it.                         *)
(*                                                                         *)
(* What a subprocess does to the objects of a day is BatchDay's; here, a   *)
(* feed has the files of each stage, on the disk and in the hot bucket, of *)
(* a day whose landing objects are all there.                              *)
(***************************************************************************)
EXTENDS Integers, Sequences, FiniteSets

CONSTANTS
  Groups,      \* agency -> its feeds, in order
  OutputsOf,   \* stage -> the files it writes for a feed: silver kinds, marts
  TripUpdates, \* the silver kind that is compacted
  GoldReads,   \* feed -> the silver kind its marts are built from
  Menus,       \* what tasks may be given: --stages, and whether gold reads
               \* silver from the hot bucket (--silver-dir)
  Workers,     \* --workers
  MaxNights,   \* bound: tasks
  MaxMishaps   \* bound: subprocesses that fail, tasks that are killed

GroupIds == DOMAIN Groups
FeedsOf(g) == {Groups[g][i] : i \in 1..Len(Groups[g])}
BatchFeeds == UNION {FeedsOf(g) : g \in GroupIds}

ProducerStages == {"rollup", "gtfs", "gold", "snapshot"}
StageNames == ProducerStages \cup {"cold-ship", "hot-ship"}

DayFiles == UNION {OutputsOf[s] : s \in ProducerStages}

Contents == {"none", "whole", "compact"}

ASSUME AgencyBatchAssumption ==
  /\ IsFiniteSet(GroupIds)
  /\ \A g \in GroupIds : Groups[g] \in Seq(FeedsOf(g))
  /\ \A g, h \in GroupIds : g # h => FeedsOf(g) \cap FeedsOf(h) = {}
  /\ \A s, t \in ProducerStages : s # t => OutputsOf[s] \cap OutputsOf[t] = {}
  /\ TripUpdates \in OutputsOf["rollup"]
  /\ GoldReads \in [BatchFeeds -> OutputsOf["rollup"]]
  /\ Workers \in Nat \ {0}
  /\ Menus \subseteq [stages : SUBSET StageNames, silverDir : BOOLEAN]
  /\ MaxMishaps \in Nat

VARIABLES
  night,        \* of the task: "idle", "running", "ended" or "killed"
  nights,       \* tasks so far
  selected,     \* the task's stages
  silverDir,    \* its --silver-dir is the hot bucket
  forcing,      \* its --force
  place,        \* agency -> "queued", "running" or "done"
  chain,        \* agency -> the commands it has still to run
  ok,           \* agency -> AgencyResult.ok
  tree,         \* feed -> file -> what the disk has of it
  hot,          \* feed -> file -> what the hot bucket has of it
  archived,     \* feeds whose tarball is in the cold bucket
  made,         \* feed -> the stages that made their files of it in this task
  missed,       \* feed -> the ships of this task that failed, exit code or not
  uncompacted,  \* feeds whose compaction has failed
  interrupted,  \* feeds that a ship has left in part, and none completed since
  mishaps

task    == <<night, nights, selected, silverDir, forcing>>
buckets == <<hot, archived>>
account == <<made, missed, uncompacted, interrupted>>
batchVars == <<task, place, chain, ok, tree, buckets, account, mishaps>>

Ships == {"cold-ship", "interim-ship", "hot-ship"}
NoFile == [x \in DayFiles |-> "none"]

ChainTypeOK ==
  /\ night \in {"idle", "running", "ended", "killed"}
  /\ nights \in Nat
  /\ selected \in SUBSET StageNames
  /\ silverDir \in BOOLEAN
  /\ forcing \in BOOLEAN
  /\ place \in [GroupIds -> {"queued", "running", "done"}]
  /\ ok \in [GroupIds -> BOOLEAN]
  /\ tree \in [BatchFeeds -> [DayFiles -> Contents]]
  /\ hot \in [BatchFeeds -> [DayFiles -> Contents]]
  /\ archived \in SUBSET BatchFeeds
  /\ made \in [BatchFeeds -> SUBSET ProducerStages]
  /\ missed \in [BatchFeeds -> SUBSET Ships]
  /\ uncompacted \in SUBSET BatchFeeds
  /\ interrupted \in SUBSET BatchFeeds
  /\ mishaps \in 0..MaxMishaps

BatchInit ==
  /\ night = "idle"
  /\ nights = 0
  /\ selected = {}
  /\ silverDir = FALSE
  /\ forcing = FALSE
  /\ place = [g \in GroupIds |-> "done"]
  /\ chain = [g \in GroupIds |-> <<>>]
  /\ ok = [g \in GroupIds |-> TRUE]
  /\ tree = [f \in BatchFeeds |-> NoFile]
  /\ hot = [f \in BatchFeeds |-> NoFile]
  /\ archived = {}
  /\ made = [f \in BatchFeeds |-> {}]
  /\ missed = [f \in BatchFeeds |-> {}]
  /\ uncompacted = {}
  /\ interrupted = {}
  /\ mishaps = 0

-----------------------------------------------------------------------------
(* The commands of an agency.                                              *)

\* Mutant of ResolveStages: the caller has to remember the ship.
StagesAsGiven(menu) == menu

ResolveStages(menu) ==
  IF menu \cap ProducerStages # {} THEN menu \cup {"hot-ship"} ELSE menu

\* The steps in turn for the first feed, then for the next.
PerFeed(g, steps) ==
  LET n == Len(steps) IN
  [i \in 1..(n * Len(Groups[g])) |->
     [step |-> steps[((i - 1) % n) + 1], feeds |-> {Groups[g][((i - 1) \div n) + 1]}]]

When(condition, commands) == IF condition THEN commands ELSE <<>>

OfAgency(g, step, stages) ==
  When(step \in stages, <<[step |-> step, feeds |-> FeedsOf(g)]>>)

WholeAgency(g, stages) ==
  OfAgency(g, "gtfs", stages) \o OfAgency(g, "gold", stages)
  \o OfAgency(g, "snapshot", stages)

\* Mutant of Commands: silver is shipped with everything else, at the end.
CommandsShipLast(g, stages) ==
  When("cold-ship" \in stages, PerFeed(g, <<"cold-ship">>))
  \o When("rollup" \in stages, PerFeed(g, <<"rollup", "compact">>))
  \o WholeAgency(g, stages)
  \o When("hot-ship" \in stages, PerFeed(g, <<"hot-ship">>))

\* Mutant of Commands: a day is archived when all is done.
CommandsArchiveLast(g, stages) ==
  When("rollup" \in stages, PerFeed(g, <<"rollup", "compact", "interim-ship">>))
  \o WholeAgency(g, stages)
  \o When("hot-ship" \in stages, PerFeed(g, <<"hot-ship">>))
  \o When("cold-ship" \in stages, PerFeed(g, <<"cold-ship">>))

\* Mutant of Commands: a feed is compacted when its parquet has been shipped.
CommandsCompactLast(g, stages) ==
  When("cold-ship" \in stages, PerFeed(g, <<"cold-ship">>))
  \o When("rollup" \in stages, PerFeed(g, <<"rollup", "interim-ship", "compact">>))
  \o WholeAgency(g, stages)
  \o When("hot-ship" \in stages, PerFeed(g, <<"hot-ship">>))

Commands(g, stages) ==
  When("cold-ship" \in stages, PerFeed(g, <<"cold-ship">>))
  \o When("rollup" \in stages,
          PerFeed(g, IF "hot-ship" \in stages
                       THEN <<"rollup", "compact", "interim-ship">>
                       ELSE <<"rollup", "compact">>))
  \o WholeAgency(g, stages)
  \o When("hot-ship" \in stages, PerFeed(g, <<"hot-ship">>))

-----------------------------------------------------------------------------
(* main and run_all.                                                       *)

StartNight(menu, force) ==
  /\ night # "running"
  /\ nights < MaxNights
  /\ night' = "running"
  /\ nights' = nights + 1
  /\ selected' = ResolveStages(menu.stages)
  /\ silverDir' = menu.silverDir
  /\ forcing' = force
  /\ place' = [g \in GroupIds |-> "queued"]
  /\ ok' = [g \in GroupIds |-> TRUE]
  /\ tree' = [f \in BatchFeeds |-> NoFile]
  /\ made' = [f \in BatchFeeds |-> {}]
  /\ missed' = [f \in BatchFeeds |-> {}]
  /\ UNCHANGED <<chain, buckets, uncompacted, interrupted, mishaps>>

Busy == {g \in GroupIds : place[g] = "running"}

BeginAgency(g) ==
  /\ night = "running"
  /\ place[g] = "queued"
  /\ Cardinality(Busy) < Workers
  /\ place' = [place EXCEPT ![g] = "running"]
  /\ chain' = [chain EXCEPT ![g] = Commands(g, selected)]
  /\ UNCHANGED <<task, ok, tree, buckets, account, mishaps>>

Cleaned(g) == [f \in BatchFeeds |-> IF f \in FeedsOf(g) THEN NoFile ELSE tree[f]]

\* Mutant of EndAgency: a failed agency's output is left on the disk.
EndAgencyCleansSuccess(g) ==
  /\ place[g] = "running"
  /\ chain[g] = <<>>
  /\ place' = [place EXCEPT ![g] = "done"]
  /\ tree' = IF ok[g] THEN Cleaned(g) ELSE tree
  /\ UNCHANGED <<task, chain, ok, buckets, account, mishaps>>

\* clean_agency_curated, whatever became of the agency.
EndAgency(g) ==
  /\ place[g] = "running"
  /\ chain[g] = <<>>
  /\ place' = [place EXCEPT ![g] = "done"]
  /\ tree' = Cleaned(g)
  /\ UNCHANGED <<task, chain, ok, buckets, account, mishaps>>

\* The exit code of the process says whether an agency failed: \A g : ok[g].
EndNight ==
  /\ night = "running"
  /\ \A g \in GroupIds : place[g] = "done"
  /\ night' = "ended"
  /\ UNCHANGED <<nights, selected, silverDir, forcing, place, chain, ok, tree,
                 buckets, account, mishaps>>

Mishap == mishaps < MaxMishaps /\ mishaps' = mishaps + 1

\* The task itself is stopped, and its disk goes with it.
NightKilled ==
  /\ night = "running"
  /\ Mishap
  /\ night' = "killed"
  /\ place' = [g \in GroupIds |-> "done"]
  /\ chain' = [g \in GroupIds |-> <<>>]
  /\ ok' = [g \in GroupIds |-> FALSE]
  /\ tree' = [f \in BatchFeeds |-> NoFile]
  /\ UNCHANGED <<nights, selected, silverDir, forcing, buckets, account>>

-----------------------------------------------------------------------------
(* The subprocesses of an agency.                                          *)

Runs(g, steps) == chain[g] # <<>> /\ Head(chain[g]).step \in steps

Args(g) == Head(chain[g]).feeds

\* The disk after a command has left these files of these feeds.
Left(feeds, files, value) ==
  [f \in BatchFeeds |-> [x \in DayFiles |->
     IF f \in feeds /\ x \in files THEN value ELSE tree[f][x]]]

\* The loop goes on to the next command.
Continue(g) == chain' = [chain EXCEPT ![g] = Tail(@)]

\* The first failing step is the last: neither its stage nor a later one runs.
Break(g) ==
  /\ chain' = [chain EXCEPT ![g] = <<>>]
  /\ ok' = [ok EXCEPT ![g] = FALSE]

ColdShip(g) ==
  /\ Runs(g, {"cold-ship"})
  /\ archived' = archived \cup Args(g)
  /\ Continue(g)
  /\ UNCHANGED <<task, place, ok, tree, hot, account, mishaps>>

\* A feed's files of a stage are all there.
Complete(where, f, s) == \A x \in OutputsOf[s] : where[f][x] # "none"

\* None is.
Absent(where, f, s) == \A x \in OutputsOf[s] : where[f][x] = "none"

\* Some are, without the others.
InPart(where, f) ==
  \E s \in ProducerStages : ~Complete(where, f, s) /\ ~Absent(where, f, s)

\* Mutant of HotWith: a feed of which the bucket has anything is not shipped.
HotWithFeedsOnce(g, files) ==
  [f \in BatchFeeds |-> [x \in DayFiles |->
     IF /\ f \in Args(g) /\ x \in files /\ tree[f][x] # "none"
        /\ forcing \/ \A y \in DayFiles : hot[f][y] = "none"
       THEN tree[f][x] ELSE hot[f][x]]]

\* The hot bucket after these files of the command's feeds were offered to it.
HotWith(g, files) ==
  [f \in BatchFeeds |-> [x \in DayFiles |->
     IF /\ f \in Args(g) /\ x \in files /\ tree[f][x] # "none"
        /\ forcing \/ hot[f][x] = "none"
       THEN tree[f][x] ELSE hot[f][x]]]

HotShip(g) ==
  /\ Runs(g, {"interim-ship", "hot-ship"})
  /\ archived' = archived \cup Args(g)
  /\ hot' = HotWith(g, DayFiles)
  /\ interrupted' = {f \in interrupted : InPart(hot', f)}
  /\ Continue(g)
  /\ UNCHANGED <<task, place, ok, tree, made, missed, uncompacted, mishaps>>

\* Silver, the marts of the day, those of a schedule's version, the snapshot:
\* in this order, and those of a stage in any.
ShipOrder == <<"rollup", "gold", "gtfs", "snapshot">>

\* What a ship may have uploaded when it stops.
PartsOfShip ==
  {files \in SUBSET DayFiles :
     \E i \in 1..4 :
       /\ \A j \in 1..(i - 1) : OutputsOf[ShipOrder[j]] \subseteq files
       /\ \A j \in (i + 1)..4 : OutputsOf[ShipOrder[j]] \cap files = {}}

\* A ship that stops before the tarball, or among the files after it: each is
\* an upload of its own.  The exit code tells when it was killed, not when it
\* raised (Shipper.run logs that); of a killed one, only the final ship ends
\* the chain.
ShipStops(g) ==
  /\ Runs(g, Ships)
  /\ Mishap
  /\ missed' = [f \in BatchFeeds |->
       IF f \in Args(g) THEN missed[f] \cup {Head(chain[g]).step} ELSE missed[f]]
  /\ \/ UNCHANGED <<buckets, interrupted>>
     \/ /\ ~Runs(g, {"cold-ship"})
        /\ archived' = archived \cup Args(g)
        /\ \E files \in PartsOfShip : hot' = HotWith(g, files)
        /\ interrupted' = {f \in interrupted \cup Args(g) : InPart(hot', f)}
  /\ \/ Continue(g) /\ UNCHANGED ok
     \/ Runs(g, {"hot-ship"}) /\ Break(g)
  /\ UNCHANGED <<task, place, tree, made, uncompacted>>

\* Mutant of RollDies: the chain goes on with the next feed.
RollDiesUnnoticed(g) ==
  /\ Runs(g, {"rollup"})
  /\ Mishap
  /\ \E kinds \in SUBSET OutputsOf["rollup"] : tree' = Left(Args(g), kinds, "whole")
  /\ Continue(g)
  /\ UNCHANGED <<task, place, ok, buckets, account>>

\* A rollup that raises or is killed leaves the kinds it has committed.
RollDies(g) ==
  /\ Runs(g, {"rollup"})
  /\ Mishap
  /\ \E kinds \in SUBSET OutputsOf["rollup"] : tree' = Left(Args(g), kinds, "whole")
  /\ Break(g)
  /\ UNCHANGED <<task, place, buckets, account>>

\* A feed without updates is passed over.
Compacts(g) ==
  /\ Runs(g, {"compact"})
  /\ LET feeds == {f \in Args(g) : tree[f][TripUpdates] # "none"}
     IN  tree' = Left(feeds, {TripUpdates}, "compact")
  /\ Continue(g)
  /\ UNCHANGED <<task, place, ok, buckets, account, mishaps>>

CompactDies(g) ==
  /\ Runs(g, {"compact"})
  /\ Mishap
  /\ uncompacted' = uncompacted \cup Args(g)
  /\ Continue(g)
  /\ UNCHANGED <<task, place, ok, tree, buckets, made, missed, interrupted>>

\* What gold finds of a feed's silver, and where.
Silver(f) == IF silverDir THEN hot[f][GoldReads[f]] ELSE tree[f][GoldReads[f]]

\* Gold skips a feed without silver.
Fed(g, s) == {f \in Args(g) : s = "gold" => Silver(f) # "none"}

\* assert_silver_present: nothing at all in the bucket that gold is pointed at
\* (which has no other day).
SilverMissing(g) ==
  /\ Runs(g, {"gold"})
  /\ silverDir
  /\ \A f \in BatchFeeds, x \in OutputsOf["rollup"] : hot[f][x] = "none"

Produce(g, s) ==
  /\ Runs(g, {s})
  /\ ~SilverMissing(g)
  /\ tree' = Left(Fed(g, s), OutputsOf[s], "whole")
  /\ made' = [f \in BatchFeeds |->
       IF f \in Fed(g, s) THEN made[f] \cup {s} ELSE made[f]]
  /\ Continue(g)
  /\ UNCHANGED <<task, place, ok, buckets, missed, uncompacted, interrupted, mishaps>>

GoldRefuses(g) ==
  /\ SilverMissing(g)
  /\ Break(g)
  /\ UNCHANGED <<task, place, tree, buckets, account, mishaps>>

\* A schedule that cannot be fetched, a snapshot that raises: logged, exit 0.
ProducerSkips(g) ==
  /\ Runs(g, {"gtfs", "snapshot"})
  /\ Mishap
  /\ Continue(g)
  /\ UNCHANGED <<task, place, ok, tree, buckets, account>>

\* Out of memory.
ProducerDies(g) ==
  /\ Runs(g, {"gtfs", "gold", "snapshot"})
  /\ Mishap
  /\ Break(g)
  /\ UNCHANGED <<task, place, tree, buckets, account>>

Step(g) ==
  \/ ColdShip(g) \/ HotShip(g) \/ ShipStops(g)
  \/ \E s \in ProducerStages : Produce(g, s)
  \/ RollDies(g) \/ Compacts(g) \/ CompactDies(g)
  \/ GoldRefuses(g) \/ ProducerSkips(g) \/ ProducerDies(g)

BatchNext ==
  \/ \E menu \in Menus, force \in BOOLEAN : StartNight(menu, force)
  \/ \E g \in GroupIds : BeginAgency(g) \/ Step(g) \/ EndAgency(g)
  \/ EndNight
  \/ NightKilled

Onward == EndNight \/ \E g \in GroupIds : BeginAgency(g) \/ Step(g) \/ EndAgency(g)

\* The worker threads, and the pool that main waits for, are not starved.
BatchFairness == WF_batchVars(Onward)

BatchSpec == BatchInit /\ [][BatchNext]_batchVars /\ BatchFairness

-----------------------------------------------------------------------------
Over(g) == place[g] = "done" /\ night # "killed"

\* run_agency: a feed's parquet, every kind of it, is in the hot bucket once it
\* was rolled up, whatever fails later in its agency: unless its own ship has
\* failed, and then the last ship of the chain made up for it, if the chain got
\* there.
SilverSurvives ==
  \A g \in GroupIds : Over(g) =>
    \A f \in FeedsOf(g) : "rollup" \in made[f] =>
      \/ Complete(hot, f, "rollup")
      \/ "interim-ship" \in missed[f] /\ (ok[g] => "hot-ship" \in missed[f])

\* run_agency: a failure downstream costs a mart and not the archive.  Each
\* ship that ran tried again.
ArchivedFirst ==
  "cold-ship" \in selected =>
    \A g \in GroupIds : Over(g) =>
      \A f \in FeedsOf(g) :
        \/ f \in archived
        \/ /\ "cold-ship" \in missed[f]
           /\ "rollup" \in made[f] => "interim-ship" \in missed[f]
           /\ ok[g] /\ "hot-ship" \in selected => "hot-ship" \in missed[f]

\* resolve_stages: no agency ends well with output that was left on a disk
\* which nobody will see again, whichever stages the task was given.
NothingStranded ==
  \A g \in GroupIds : Over(g) /\ ok[g] =>
    \A f \in FeedsOf(g) :
      \/ "hot-ship" \in missed[f]
      \/ \A s \in made[f] : Complete(hot, f, s)

\* run_agency: no mart is made beside a rollup that failed, for any feed of
\* the agency.
NoGoldBesideFailure ==
  "rollup" \in selected =>
    \A g \in GroupIds : \A f, h \in FeedsOf(g) :
      Absent(tree, f, "gold") \/ "rollup" \in made[h]

\* run_agency: what a stage has left in part never reaches the hot bucket, where
\* it would be taken for the day.  Some files of a stage without the others are
\* there only of a feed one of whose ships has stopped among them.
NothingPartialShips == \A f \in BatchFeeds : InPart(hot, f) => f \in interrupted

\* run_agency: compaction comes before the feed's first ship, which no later
\* one replaces.
ShipsCompacted ==
  \A f \in BatchFeeds : hot[f][TripUpdates] = "whole" => f \in uncompacted

\* clean_agency_curated: the disk never holds the output of more agencies than
\* there are workers, failed ones included.
DiskBounded ==
  Cardinality({g \in GroupIds : \E f \in FeedsOf(g) : tree[f] # NoFile}) <= Workers

\* What a task keeps to at each point, whatever fails in whichever agency.
ChainSound ==
  /\ ChainTypeOK
  /\ SilverSurvives /\ ArchivedFirst /\ NothingStranded
  /\ NoGoldBesideFailure /\ NothingPartialShips /\ ShipsCompacted
  /\ DiskBounded

NightUnderway == night = "running"

=============================================================================
