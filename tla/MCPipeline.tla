------------------------------ MODULE MCPipeline ------------------------------
(***************************************************************************)
(* What becomes of a poll, from the response to the marts, model-checked   *)
(* stage by stage.  The stages hand over files, whose contents the inputs  *)
(* of the next stage enumerate, and share no state: each behaviour is one  *)
(* of a single stage, named by `stage', the others resting.                *)
(***************************************************************************)
EXTENDS PollWriter, Readback, Compaction, Marts, Schedules, GoldDay, TLC

CONSTANTS
  f1, f2, a, b,
  Stages     \* the stages with behaviours of their own, below

VARIABLE stage

-----------------------------------------------------------------------------
(* "poll": two feeds with two contents each, across one midnight.          *)

PollFeeds == {f1, f2}
PollDigests == {a, b}

\* Feeds and contents are interchangeable; no property names one.
Symmetric == Permutations(PollFeeds) \cup Permutations(PollDigests)

(* "read": three windows to a day.  Tars are shipped beside polls for one  *)
(* poll only: what is in a tar does not depend on when it was shipped.     *)

TwoContents == {"a", "b"}

(* "decode": payloads in which every field is set, unset, or carries a     *)
(* number the enum does not have.                                          *)

VehicleMsg(r, c) == [id |-> "v", relationship |-> r, carriages |-> c]
StopMsg(r, c) == [id |-> "s", relationship |-> r, carriages |-> c]
TripMsg(r, s) == [id |-> "t", relationship |-> r, stops |-> s]
Text(l) == [language |-> l, text |-> <<"text", l>>]
AlertMsg(c, t, i) == [id |-> "a", cause |-> c, texts |-> t, informed |-> i]
Entity(v, t, x) == [vehicle |-> v, trip |-> t, alert |-> x]
Message(entities) == [readable |-> TRUE, entities |-> entities]

SomeMessages == {
  [readable |-> FALSE, entities |-> <<>>],
  Message(<<Entity(VehicleMsg(0, <<"empty", "unknown">>), Unset, Unset),
            Entity(Unset, TripMsg(3, <<StopMsg(0, <<>>), StopMsg(1, <<"full">>)>>),
                   Unset)>>),
  Message(<<Entity(VehicleMsg(5, <<"empty">>),
                   TripMsg(0, <<StopMsg(Unset, <<>>)>>), Unset)>>),
  Message(<<Entity(Unset, TripMsg(Unset, <<StopMsg(2, <<"empty", "full">>)>>), Unset),
            Entity(Unset, Unset,
                   AlertMsg(1, <<Text("fr"), Text("en")>>, <<"r1", "r2">>))>>),
  Message(<<Entity(Unset, Unset, AlertMsg(Unset, <<Text("fr")>>, <<"r1">>)),
            Entity(VehicleMsg(9, <<>>), Unset, Unset)>>),
  Message(<<Entity(Unset, TripMsg(6, <<>>), Unset),
            Entity(Unset, Unset, AlertMsg(7, <<>>, <<"r1">>))>>)}

Record(k, e, c) == [kind |-> k, id |-> "v", event |-> e, clock |-> c]
Document(root, r) == [readable |-> TRUE, root |-> root, records |-> r]

SomeDocuments == {
  [readable |-> FALSE, root |-> "list", records |-> <<>>],
  Document("list", <<Record("complete", 3, 0), Record("incomplete", 0, 0)>>),
  Document("list", <<Record("complete", 2, 1), Record("stray", 0, 0)>>),
  Document("list", <<Record("stray", 0, 0), Record("complete", 0, 3)>>),
  Document("list", <<Record("complete", 1, 1), Record("garbled", 0, 0)>>),
  Document("list", <<Record("mistyped", 0, 0)>>),
  Document("object", <<Record("incomplete", 0, 0)>>),
  Document("object", <<Record("complete", 1, 1), Record("garbled", 0, 0)>>),
  Document("object", <<Record("incomplete", 0, 0), Record("complete", 1, 2)>>)}

(* "compact": rows as one poll after another yields them.                  *)

TripRow(k, t, x, d, r) ==
  [key |-> k, feed_timestamp |-> t, arrival |-> x, departure |-> d, relationship |-> r]

SomeTripRows == {
  TripRow("x", 1, 1, Null, Null), TripRow("x", 2, 1, 1, "SCHEDULED"),
  TripRow("x", 3, Null, 1, "SCHEDULED"), TripRow("x", 3, 1, Null, "SKIPPED"),
  TripRow("y", 1, 1, Null, Null), TripRow(Null, 1, 1, 1, Null)}

-----------------------------------------------------------------------------
(* GTFS archives                                                           *)

Route(id, agency, type, short, long) ==
  [route_id |-> id, agency_id |-> agency, route_type |-> type,
   route_short_name |-> short, route_long_name |-> long]

Trip(id, route, direction, shape, service) ==
  [trip_id |-> id, route_id |-> route, service_id |-> service,
   direction_id |-> direction, shape_id |-> shape]

StopAt(id, x) == [stop_id |-> id, stop_lat |-> x, stop_lon |-> x]

Call(trip, stop, when) == [trip_id |-> trip, stop_id |-> stop, arrival_time |-> when]

PointOf(shape, n) ==
  [shape_id |-> shape, shape_pt_sequence |-> n, shape_pt_lat |-> 0, shape_pt_lon |-> 0]

Service(id, first, last, weekdays) ==
  [service_id |-> id, start_date |-> first, end_date |-> last, weekdays |-> weekdays]

(* "timetable": every timetable of two or three calls on two trips, in     *)
(* services that meet or do not, and every way three routes are named.     *)

NoArchive == [routes |-> <<>>, trips |-> <<>>, shapes |-> <<>>, stops |-> <<>>,
              stop_times |-> <<>>, calendar |-> <<>>, calendar_dates |-> <<>>]

Names == {Absent, "red", "blue"}

NamedArchives ==
  [routes : {<<Route("r1", Absent, 3, x, y), Route("r2", Absent, 3, z, "red")>> :
               x, y, z \in Names},
   trips : {<<Trip("t1", "r1", 0, Absent, 1), Trip("t2", "r1", 0, Absent, 1)>>},
   shapes : {<<>>}, stops : {<<>>}, stop_times : {<<>>},
   calendar : {<<>>}, calendar_dates : {<<>>}]

Calls == [trip_id : {"t1", "t2"}, stop_id : {"s1", "s2"}, arrival_time : {Absent, 0, 3, 5}]

TimedArchives ==
  [routes : {<<Route("r1", Absent, 3, Absent, Absent)>>},
   trips : {<<Trip("t1", "r1", 0, Absent, 1), Trip("t2", "r1", d, Absent, 2)>> :
              d \in {0, 1, Absent}},
   shapes : {<<>>}, stops : {<<>>},
   stop_times : {t \in UNION {[1..n -> Calls] : n \in 2..3} :
                   /\ t[1].stop_id = "s1"  \* stops are interchangeable
                   /\ \A i, j \in DOMAIN t :
                        i < j => t[i].trip_id = "t1" \/ t[j].trip_id = "t2"},
   calendar : {<<Service(1, 1, 2, {1, 2}), Service(2, 2, 2, {2})>>},
   calendar_dates : {<<>>,
     <<[service_id |-> 2, date |-> 1, exception_type |-> 1],
       [service_id |-> 1, date |-> 2, exception_type |-> 2]>>}]

WholeArchive ==
  [agency_prefix |-> Absent, agency_ids |-> {}, route_types |-> {}]

SomeArchives == NamedArchives \cup TimedArchives

(* "schedules": one archive two feeds take their part of, and a later one  *)
(* in which a route is gone and a trip has no id.                          *)

EarlierArchive == [
  routes |-> <<Route("r1", <<"A", "r1">>, 1, "red", "blue"),
               Route("r2", <<"B", "r2">>, 3, "blue", Absent),
               Route("r3", <<"B", "r3">>, 3, "blue", "red")>>,
  trips |-> <<Trip("t1", "r1", 0, "x1", 1), Trip("t2", "r2", 0, "x2", 1),
              Trip("t3", "r3", 1, "x3", 1)>>,
  stops |-> <<StopAt("s1", 1), StopAt("s2", Absent), StopAt("s3", 2)>>,
  stop_times |-> <<Call("t1", "s1", 0), Call("t1", "s2", 1), Call("t2", "s3", 0),
                   Call("t3", "s3", 0)>>,
  shapes |-> <<PointOf("x1", 1), PointOf("x1", 2), PointOf("x2", 1), PointOf("x2", 2),
               PointOf("x3", 1)>>,
  calendar |-> <<Service(1, 1, 9, 0..6)>>, calendar_dates |-> <<>>,
  route_patterns |-> <<>>, directions |-> <<>>, checkpoints |-> <<>>]

LaterArchive == [EarlierArchive EXCEPT
  !.trips = Append(@, Trip(Absent, "r1", Absent, Absent, 1)), !.routes = Tail(@)]

ImportedArchives == <<EarlierArchive, LaterArchive>>
ImportedSpans == {<<1, 2>>, <<2, 2>>}
TwoScopes == <<[WholeArchive EXCEPT !.agency_prefix = "A"],
               [WholeArchive EXCEPT !.route_types = {3}]>>

-----------------------------------------------------------------------------
(* "day": pings of one vehicle that may change trip and direction, of      *)
(* vehicles known by their trip only, and of a bus.                        *)

PingOf(v, t, r, d, s, st) ==
  [time |-> Absent, vehicle |-> v, trip |-> t, route |-> r, direction |-> d, stop |-> s,
   stopped |-> st]

ThreeFeeds == {
  {PingOf("v", "t", "r", 0, "s1", TRUE), PingOf("v", "t", "r", 0, "s1", FALSE),
   PingOf("v", "u", Absent, Absent, "s2", TRUE)},
  {PingOf("v", "t", "r", 0, "s1", FALSE), PingOf("v", "t", "r", 7, "s2", FALSE),
   PingOf(Absent, Absent, "r", 0, "s1", FALSE)},
  {PingOf(Absent, "t", "b", Absent, "s1", TRUE), PingOf("v", "t", "b", Absent, "s2", TRUE),
   PingOf("v", "t", "b", Absent, Absent, FALSE)}}

Planned(x, d, r, way) == [arrival |-> x, departure |-> d, route |-> r, direction |-> way]

DayStatic == [
  schedule |->
    (0 :> (<<"t", "s1">> :> Planned(3, 3, "r", 0)
           @@ <<"t", "s2">> :> Planned(Absent, 5, "b", 0)))
    @@ (1 :> (<<"t", "s1">> :> Planned(3, Absent, "r", 1)
              @@ <<"t", "s2">> :> Planned(1, 1, Absent, Absent)
              @@ <<"u", "s2">> :> Planned(2, 2, "b", 0))),
  coords |-> "s1" :> 0 @@ "s2" :> 2,
  tracks |-> "r" :> (0 :> {"s1" :> 0 @@ "s2" :> 2} @@ 1 :> {"s1" :> 5 @@ "s2" :> 1}),
  directions |-> "t" :> 1,
  shapes |-> "t" :> ("s1" :> 0 @@ "s2" :> 3),
  buses |-> {"b"}, bus_limit |-> 2, rail_limit |-> 3]

(* "gold": an agency with positions and trip updates, and one with         *)
(* positions only; the runs the batch and an operator start.               *)

TwoAgencies == {"a", "b"}
FeedsOfBoth == "a" :> {"av", "at"} @@ "b" :> {"bv"}
GoldYields == {{"schedule_free", "routes"}, {"schedule_free", "otp", "speed", "routes"}}

\* The batch names the feeds of its agency, all of them (_gold_cmd); without
\* names a run enumerates them.
RunOf(feeds) == [feed |-> feeds, source |-> "auto", force |-> FALSE, otp |-> TRUE,
                 normalize |-> FALSE, silverDir |-> TRUE]
BatchGoldRuns == {RunOf(FeedsOfBoth[agency]) : agency \in TwoAgencies}
Enumerating == RunOf({})

\* An operator's runs name a feed, or rebuild one from local files.
AllGoldRuns ==
  BatchGoldRuns \cup
  {Enumerating, [Enumerating EXCEPT !.normalize = TRUE],
   [RunOf({"av"}) EXCEPT !.otp = FALSE],
   [RunOf({"at"}) EXCEPT !.force = TRUE, !.silverDir = FALSE]}

(* "marta": three countdowns of trains that are named or not.              *)

Countdown(t, s, d) == [train |-> t, station |-> s, destination |-> d]

Countdowns == <<Countdown("", "S", "N"), Countdown("t", "S", "N"),
                Countdown("t", "S", "W"), Countdown("u", "S", "W")>>
CountdownLines == {<<0, 3>>, <<0, 1>>, <<2, 0>>, <<5, 1>>}

-----------------------------------------------------------------------------
(* The bounds of the stages.                                               *)

\* Of a day's rows at most one is of another trip than x, or of no use; nothing
\* is polled beside a backfill, nor after the last rollup.
CompactionBounds ==
  /\ Cardinality({i \in DOMAIN rolled' : ~Candidate(rolled'[i]) \/ rolled'[i].key = "y"}) <= 1
  /\ rollups = MaxRollups \/ job # "idle" => rolled' = rolled

\* Runs are for all feeds and days.  One of them dies or is forced, the first
\* is not forced, and a death leaves room for one sync.  The later content is
\* not crawled first, and nothing after the last run.
SchedulesBounds ==
  /\ StartRun => run'.jobs = GtfsFeeds \X ServiceDates
  /\ history'.deaths + history'.forced <= 1
  /\ history'.deaths + history'.syncs <= 2
  /\ history'.runs = 1 => history'.forced = 0
  /\ \A d \in catalog' : d.crawled = 1 => d.hash # 2
  /\ history.runs = MaxRuns => catalog' = catalog

\* A run takes its feeds in the order of its arguments; one order will do.
FeedOrder == <<"av", "at", "bv">>

\* The rollup fills the partition a feed is built from; the positions beside
\* trip updates never yield a whole day.  After the last run no roll-up and no
\* death matters.
GoldBounds ==
  /\ \A f \in GoldFeeds, s \in Sources : silver'[f][s].load # 0 =>
       s = AutoSource(f) /\ ("otp" \in silver'[f][s].yields <=> f # "av")
  /\ goldHistory.runs = MaxGoldRuns => silver' = silver /\ ~GoldDies
  /\ goldRun.at = "feeds" /\ goldRun'.at \in {"feeds", "steps"} =>
       \A i, j \in DOMAIN FeedOrder :
         FeedOrder[i] \in goldRun.todo \ goldRun'.todo /\ FeedOrder[j] \in goldRun'.todo => i < j

-----------------------------------------------------------------------------

pipelineVars ==
  <<stage, pollVars, readerVars, decodingVars, compactionVars, timetableVars,
    schedulesVars, dayVars, goldVars, predictions>>

\* The inputs of a stage that has a choice of them matter in its own
\* behaviours only.  The day asked for first is any: the other is asked next.
PipelineInit ==
  /\ stage \in Stages
  /\ PollInit /\ ReaderInit /\ CompactionInit
  /\ DecodingInit
  /\ stage = "decode" \/ decoder = "standard"
  /\ IF stage = "timetable" THEN TimetableInit ELSE archive = NoArchive
  /\ serviceDate = 1
  /\ SchedulesInit
  /\ ServiceDayInit
  /\ stage = "day" \/ shapes = CHOOSE any \in PingFeeds : TRUE
  /\ GoldInit /\ MartaInit

PipelineNext ==
  /\ UNCHANGED stage
  /\ \/ /\ stage = "poll" /\ PollNext
        /\ UNCHANGED <<readerVars, decodingVars, compactionVars, timetableVars,
                       schedulesVars, dayVars, goldVars, predictions>>
     \/ /\ stage = "read" /\ ReaderNext
        /\ time' = 0 \/ tars' = <<>>
        /\ UNCHANGED <<pollVars, decodingVars, compactionVars, timetableVars,
                       schedulesVars, dayVars, goldVars, predictions>>
     \/ /\ stage = "decode" /\ DecodingNext
        /\ UNCHANGED <<pollVars, readerVars, compactionVars, timetableVars,
                       schedulesVars, dayVars, goldVars, predictions>>
     \/ /\ stage = "compact" /\ CompactionNext
        /\ CompactionBounds
        /\ UNCHANGED <<pollVars, readerVars, decodingVars, timetableVars,
                       schedulesVars, dayVars, goldVars, predictions>>
     \/ /\ stage = "timetable" /\ TimetableNext
        /\ UNCHANGED <<pollVars, readerVars, decodingVars, compactionVars,
                       schedulesVars, dayVars, goldVars, predictions>>
     \/ /\ stage = "schedules" /\ SchedulesNext
        /\ SchedulesBounds
        /\ UNCHANGED <<pollVars, readerVars, decodingVars, compactionVars,
                       timetableVars, dayVars, goldVars, predictions>>
     \/ /\ stage = "day" /\ ServiceDayNext
        /\ UNCHANGED <<pollVars, readerVars, decodingVars, compactionVars,
                       timetableVars, schedulesVars, goldVars, predictions>>
     \/ /\ stage = "gold" /\ GoldNext
        /\ GoldBounds
        /\ UNCHANGED <<pollVars, readerVars, decodingVars, compactionVars,
                       timetableVars, schedulesVars, dayVars, predictions>>
     \/ /\ stage = "marta" /\ MartaNext
        /\ UNCHANGED <<pollVars, readerVars, decodingVars, compactionVars,
                       timetableVars, schedulesVars, dayVars, goldVars>>

PipelineSpec == PipelineInit /\ [][PipelineNext]_pipelineVars

=============================================================================
