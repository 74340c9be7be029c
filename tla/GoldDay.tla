------------------------------ MODULE GoldDay ------------------------------
(* pipeline/gold.py for one day: which feeds a run builds and from which   *)
(* source, the independent and idempotent steps of build_one over one load *)
(* of the visits, the static GTFS resolver they share, the normalization   *)
(* of the JSON feeds, and what a run that dies half-way leaves on disk.    *)
(*                                                                         *)
(* A mart on disk is the number of the roll-up it was built from, 0 when   *)
(* the file is not there.                                                  *)
EXTENDS Integers, FiniteSets, SequencesExt

CONSTANTS
  Agencies,
  FeedsOf,          \* the feeds of each agency
  TripUpdatesOnly,  \* _TRIP_UPDATES_ONLY_FEEDS
  Normalizable,     \* the feeds whose one table has a normalizer
  Located,          \* the agencies with an mdb_feed_id
  GoldRuns,         \* the arguments gold.py is started with
  Yields,           \* the groups the visits of a partition may have rows for
  MaxLoads,         \* bound: partitions rolled up
  MaxGoldRuns,      \* bound: runs
  MaxGoldDeaths     \* bound: runs that die

VARIABLES
  silver,      \* feed -> source -> its partition: the roll-up, and what it yields
  goldMarts,   \* feed -> mart -> the roll-up it was built from
  goldRun,     \* the run of gold.py
  resolver,    \* agency -> what the run knows of its GTFS archives
  goldHistory  \* counters, and what happened to the runs so far

goldVars == <<silver, goldMarts, goldRun, resolver, goldHistory>>

-----------------------------------------------------------------------------
GoldFeeds == UNION {FeedsOf[a] : a \in Agencies}
AgencyOf(feed) == CHOOSE a \in Agencies : feed \in FeedsOf[a]

Sources == {"vehicles", "trip-updates"}

Groups == {"schedule_free", "otp", "speed", "routes", "normalized"}

MartsOf == [schedule_free |-> <<"stop_day", "route_day", "events">>,
            otp           |-> <<"adherence", "stop_day_otp", "route_day_otp">>,
            speed         |-> <<"segment_speed", "segment_day">>,
            routes        |-> <<"routes">>,
            normalized    |-> <<"normalized_vehicles">>]

Files(group) == ToSet(MartsOf[group])
Marts == UNION {Files(g) : g \in Groups}

\* The arguments of a run; --feed takes any number of feeds, {} stands for none.
Args == [feed : SUBSET GoldFeeds, source : Sources \cup {"auto"}, force : BOOLEAN,
         otp : BOOLEAN, normalize : BOOLEAN, silverDir : BOOLEAN]

ASSUME GoldAssumption ==
  /\ GoldRuns \subseteq Args
  /\ Yields \subseteq SUBSET Groups
  /\ Normalizable \subseteq GoldFeeds

\* Mutant of SupersededByTripUpdates: nothing is superseded.
SupersededByNone == {}

\* The other feeds of every agency that is built from TripUpdates.
SupersededByTripUpdates ==
  UNION {FeedsOf[a] \ TripUpdatesOnly : a \in {b \in Agencies : FeedsOf[b] \cap TripUpdatesOnly # {}}}

AutoSource(feed) == IF feed \in TripUpdatesOnly THEN "trip-updates" ELSE "vehicles"

\* A step does not ask which of its files is there, only whether all of them are.
AllWritten(feed, group) == \A m \in Files(group) : goldMarts[feed][m] # 0

\* The steps of build_one that have something to do.
Steps(feed, args) ==
  {g \in IF args.normalize THEN {"normalized"} ELSE Groups \ {"normalized"} :
     /\ args.force \/ ~AllWritten(feed, g)
     /\ args.otp \/ g \in {"schedule_free", "normalized"}}

\* Mutant of Rank: the marts that need a schedule come first.
RankScheduleFreeLast ==
  [otp |-> 1, speed |-> 2, routes |-> 3, schedule_free |-> 4, normalized |-> 5]

\* Their order.
Rank == [schedule_free |-> 1, otp |-> 2, speed |-> 3, routes |-> 4, normalized |-> 5]

\* The agency's archives could not be fetched, or it has none: None for every
\* later call; a day no snapshot covers is a LookupError every time.
Unresolved(feed) == AgencyOf(feed) \notin Located \/ resolver[AgencyOf(feed)] = "failed"

-----------------------------------------------------------------------------
Idle == [at |-> "idle"]

GoldInit ==
  /\ silver = [f \in GoldFeeds |-> [s \in Sources |-> [load |-> 0, yields |-> {}]]]
  /\ goldMarts = [f \in GoldFeeds |-> [m \in Marts |-> 0]]
  /\ goldRun = Idle
  /\ resolver = [a \in Agencies |-> "fresh"]
  /\ goldHistory = [loads |-> 0, runs |-> 0, deaths |-> 0,
                    named |-> {}, forcedDeath |-> FALSE]

\* The rollup (re)writes a partition; how much comes of it depends on the day.
RollUpSilver(feed, source, yields) ==
  /\ goldRun.at = "idle"
  /\ goldHistory.loads < MaxLoads
  /\ goldHistory' = [goldHistory EXCEPT !.loads = @ + 1]
  /\ silver' = [silver EXCEPT ![feed][source] =
                  [load |-> goldHistory.loads + 1, yields |-> yields]]
  /\ UNCHANGED <<goldMarts, goldRun, resolver>>

SilverPresent == \E f \in GoldFeeds, s \in Sources : silver[f][s].load # 0

\* Mutant of AssertSilverPresent: an empty silver tree is taken for a quiet day.
AssertNothing(args) == TRUE

\* Asked only of a tree that someone else fills.
AssertSilverPresent(args) == args.silverDir /\ ~args.normalize => SilverPresent

\* The feeds of a run: those asked for, or all of them but the superseded.
Enumerated(args) ==
  LET named == args.feed # {} IN
  IF args.normalize THEN Normalizable \cap (IF named THEN args.feed ELSE GoldFeeds)
  ELSE IF named THEN args.feed ELSE GoldFeeds \ SupersededByTripUpdates

StartGold(args) ==
  /\ goldRun.at = "idle"
  /\ goldHistory.runs < MaxGoldRuns
  /\ goldHistory' = [goldHistory EXCEPT !.runs = @ + 1,
                                        !.named = IF args.normalize THEN @ ELSE @ \cup args.feed]
  /\ resolver' = [a \in Agencies |-> "fresh"]
  /\ goldRun' = [at |-> IF AssertSilverPresent(args) THEN "feeds" ELSE "fatal",
                 args |-> args, todo |-> Enumerated(args), found |-> SilverPresent]
  /\ UNCHANGED <<silver, goldMarts>>

\* The partition a feed is read from: the normalizer has its own table, which
\* the vehicles partition stands for here.
SourceOf(feed, args) ==
  IF args.normalize THEN "vehicles"
  ELSE IF args.source \in Sources THEN args.source ELSE AutoSource(feed)

\* One feed: nothing to do, no partition, or one load of its visits for all
\* the steps.
BuildOne(feed) ==
  LET partition == silver[feed][SourceOf(feed, goldRun.args)]
      steps == Steps(feed, goldRun.args)
      todo == goldRun.todo \ {feed}
  IN
  /\ goldRun.at = "feeds"
  /\ feed \in goldRun.todo
  /\ goldRun' = IF steps = {} \/ partition.load = 0 THEN [goldRun EXCEPT !.todo = todo]
                ELSE [at |-> "steps", args |-> goldRun.args, todo |-> todo,
                      found |-> goldRun.found, feed |-> feed, steps |-> steps,
                      files |-> <<>>, partition |-> partition]
  /\ UNCHANGED <<silver, goldMarts, resolver, goldHistory>>

\* The step whose turn it is; it stays one of the steps while it writes.
UpNext(group) == group \in goldRun.steps /\ \A g \in goldRun.steps : Rank[group] <= Rank[g]

Turn(feed, group) == goldRun.at = "steps" /\ goldRun.feed = feed /\ UpNext(group)

SkipStep(group) == goldRun' = [goldRun EXCEPT !.steps = @ \ {group}]

\* Mutant of BeginStep: of a group, only the marts that are missing are written.
BeginStepWithMissing(group) ==
  LET Missing(m) == goldMarts[goldRun.feed][m] = 0 IN
  IF group \in goldRun.partition.yields \cup {"normalized"}
  THEN goldRun' = [goldRun EXCEPT !.at = "write",
                                  !.files = SelectSeq(MartsOf[group], Missing)]
  ELSE SkipStep(group)

\* What a step writes: no file when the visits yield no rows for it; a
\* normalized partition may be empty.
BeginStep(group) ==
  IF group \in goldRun.partition.yields \cup {"normalized"}
  THEN goldRun' = [goldRun EXCEPT !.at = "write", !.files = MartsOf[group]]
  ELSE SkipStep(group)

ScheduleFree(feed) ==
  /\ Turn(feed, "schedule_free")
  /\ BeginStep("schedule_free")
  /\ UNCHANGED <<silver, goldMarts, resolver, goldHistory>>

NeedsGtfs(group) == group # "schedule_free"

\* A step resolves the archive of the day first.  OTP asks for the day before
\* it, too, and makes do without: but a fetch that fails there fails the
\* agency for the steps and the feeds after it.
GtfsStep(feed, group, answer, before) ==
  LET agency == AgencyOf(feed)
      known == IF resolver[agency] = "fresh" THEN answer ELSE resolver[agency]
  IN
  /\ Turn(feed, group)
  /\ NeedsGtfs(group)
  /\ ~Unresolved(feed)
  /\ resolver[agency] # "fresh" => answer = resolver[agency]
  /\ before = "failed" => known = "ok" /\ group = "otp"
  /\ resolver' = [resolver EXCEPT ![agency] = IF before = "failed" THEN "failed" ELSE known]
  /\ IF known = "ok" THEN BeginStep(group) ELSE SkipStep(group)
  /\ UNCHANGED <<silver, goldMarts, goldHistory>>

WithoutGtfs(feed, group) ==
  /\ Turn(feed, group)
  /\ NeedsGtfs(group)
  /\ Unresolved(feed)
  /\ SkipStep(group)
  /\ UNCHANGED <<silver, goldMarts, resolver, goldHistory>>

\* One file: written beside, then renamed.
WriteParquet(group) ==
  /\ goldRun.at = "write"
  /\ UpNext(group)
  /\ goldMarts' = [goldMarts EXCEPT ![goldRun.feed][Head(goldRun.files)] =
                     goldRun.partition.load]
  /\ goldRun' = IF Tail(goldRun.files) # <<>>
                THEN [goldRun EXCEPT !.files = Tail(@)]
                ELSE [goldRun EXCEPT !.at = "steps", !.files = <<>>, !.steps = @ \ {group}]
  /\ UNCHANGED <<silver, resolver, goldHistory>>

NextFeed ==
  /\ goldRun.at = "steps" /\ goldRun.steps = {}
  /\ goldRun' = [at |-> "feeds", args |-> goldRun.args, todo |-> goldRun.todo,
                 found |-> goldRun.found]
  /\ UNCHANGED <<silver, goldMarts, resolver, goldHistory>>

FinishGold ==
  /\ goldRun.at = "feeds" /\ goldRun.todo = {}
  /\ goldRun' = [goldRun EXCEPT !.at = "exit 0"]
  /\ UNCHANGED <<silver, goldMarts, resolver, goldHistory>>

\* The process ends, or an archive that will not open ends it.
GoldDies ==
  /\ goldRun.at \in {"feeds", "steps", "write"}
  /\ goldHistory.deaths < MaxGoldDeaths
  /\ goldHistory' = [goldHistory EXCEPT !.deaths = @ + 1,
                                        !.forcedDeath = @ \/ goldRun.args.force]
  /\ goldRun' = Idle
  /\ UNCHANGED <<silver, goldMarts, resolver>>

GoldRests ==
  /\ goldRun.at \in {"exit 0", "fatal"}
  /\ goldRun' = Idle
  /\ UNCHANGED <<silver, goldMarts, resolver, goldHistory>>

GoldNext ==
  \/ \E f \in GoldFeeds, s \in Sources, y \in Yields : RollUpSilver(f, s, y)
  \/ \E args \in GoldRuns : StartGold(args)
  \/ \E f \in GoldFeeds :
       \/ BuildOne(f) \/ ScheduleFree(f)
       \/ \E g \in Groups :
            \/ WithoutGtfs(f, g)
            \/ \E answer \in {"ok", "lookup", "failed"}, before \in {"ok", "failed"} :
                 GtfsStep(f, g, answer, before)
  \/ \E g \in Groups : WriteParquet(g)
  \/ NextFeed \/ FinishGold \/ GoldDies \/ GoldRests

GoldSpec == GoldInit /\ [][GoldNext]_goldVars

-----------------------------------------------------------------------------
Histories == [loads : Nat, runs : Nat, deaths : Nat, named : SUBSET GoldFeeds,
              forcedDeath : BOOLEAN]
Partitions == [load : 0..goldHistory.loads, yields : SUBSET Groups]

\* A run between two feeds or at its end, and one at the steps of a feed.
BetweenFeeds == [at : {"feeds", "exit 0", "fatal"}, args : Args, todo : SUBSET GoldFeeds,
                 found : BOOLEAN]
AtSteps == [at : {"steps", "write"}, args : Args, todo : SUBSET GoldFeeds, found : BOOLEAN,
            feed : GoldFeeds, steps : SUBSET Groups, files : Seq(Marts),
            partition : Partitions]

\* Marts are built from what was rolled up; a run writes files of the step
\* whose turn it is, from a partition that is there.
GoldTypeOK ==
  /\ goldHistory \in Histories
  /\ silver \in [GoldFeeds -> [Sources -> Partitions]]
  /\ goldMarts \in [GoldFeeds -> [Marts -> 0..goldHistory.loads]]
  /\ resolver \in [Agencies -> {"fresh", "ok", "lookup", "failed"}]
  /\ goldRun = Idle \/ goldRun \in BetweenFeeds \/ goldRun \in AtSteps
  /\ goldRun.at \in {"steps", "write"} => goldRun.partition.load # 0
  /\ goldRun.at = "write" =>
       \E g \in Groups : /\ UpNext(g)
                         /\ goldRun.files # <<>> /\ ToSet(goldRun.files) \subseteq Files(g)

\* The dashboard adds up every feed of an agency.  Where one of them has trip
\* updates, the others have marts only if some run was told to build them: no
\* sequence of enumerated runs, of deaths and of normalizations gives them any
\* (superseded_by_trip_updates: "an explicit --feed still builds exactly what
\* the operator asked for").
SupersededOnlyByName ==
  \A a \in Agencies : FeedsOf[a] \cap TripUpdatesOnly # {} =>
    \A f \in FeedsOf[a] \ (TripUpdatesOnly \cup goldHistory.named) :
      \A m \in Marts \ Files("normalized") : goldMarts[f][m] = 0

\* What that is for: where an agency is built from TripUpdates, no other feed
\* of its has rows of the same mart and day (superseded_by_trip_updates:
\* "those rows are not a harmless duplicate - they double-count").
OneSourcePerAgency ==
  \A a \in Agencies : \A f \in FeedsOf[a] \cap TripUpdatesOnly, g \in FeedsOf[a] \ TripUpdatesOnly :
    \A m \in Marts \ Files("normalized") : goldMarts[f][m] = 0 \/ goldMarts[g][m] = 0

\* The files of a complete group tell of one and the same roll-up, however
\* many runs died over it: half a group is built again as a whole.  A forced
\* run that dies is the exception, it leaves two generations side by side
\* (build_one, _write_parquet).
GroupsAreOneLoad ==
  \A f \in GoldFeeds, g \in Groups :
    \/ goldHistory.forcedDeath
    \/ goldRun.at = "write" /\ goldRun.feed = f /\ goldRun.args.force
    \/ AllWritten(f, g) => \A m, n \in Files(g) : goldMarts[f][m] = goldMarts[f][n]

\* Once a feed's archive is asked for, its schedule-free marts are written:
\* neither an outage nor an archive that ends the run takes them away
\* (build_one: "GTFS lookup failures skip only the OTP/speed steps").
ScheduleFreeFirst ==
  goldRun.at \in {"steps", "write"} /\ ~goldRun.args.normalize =>
    \A g \in Groups : UpNext(g) =>
      \/ g = "schedule_free"
      \/ "schedule_free" \notin goldRun.partition.yields
      \/ AllWritten(goldRun.feed, "schedule_free")

\* A run that reads a silver tree of another task and says it went well has
\* found silver there when it started (assert_silver_present).
NoSilentRun ==
  goldRun.at = "exit 0" /\ goldRun.args.silverDir /\ ~goldRun.args.normalize => goldRun.found

\* gold.py: through runs that are forced, partial or die, superseded feeds are
\* built by name only, a group of marts comes from one load, those that need
\* no schedule come first, and a run that found nothing says so.
GoldSound ==
  GoldTypeOK /\ SupersededOnlyByName /\ GroupsAreOneLoad /\ ScheduleFreeFirst /\ NoSilentRun
=============================================================================
