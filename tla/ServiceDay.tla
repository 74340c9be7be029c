----------------------------- MODULE ServiceDay -----------------------------
(* One feed's service day as the gold tier sees it: the day's vehicle      *)
(* pings become dwell visits (analysis/vehicle_day.py), and the visits     *)
(* become the daily marts: stop and route days with their events           *)
(* (analysis/metrics.py), the adherence to the schedule                    *)
(* (analysis/adherence.py) and the speeds between stops                    *)
(* (analysis/segment_speed.py).                                            *)
(*                                                                         *)
(* The partition grows ping by ping; every mart is a function of what the  *)
(* partition holds.  Times are small numbers, a local day is DayLength of  *)
(* them.  Percentiles and means are left out.                              *)
EXTENDS Integers, FiniteSets, Cells, Selection, StableSort

CONSTANTS
  PingFeeds,  \* the kinds of feed: each the set of ping shapes it sends
  Static,     \* the archive of the day: schedule, modes, coordinates, tracks
  GoldDate,   \* the day that is built
  DayLength,
  MergeGap,   \* merge_gap_seconds
  EarlyThreshold, LateThreshold,
  MaxTransit,
  MaxPings,   \* bound: pings of the day
  MaxTime,    \* bound: timestamps
  Lateness    \* bound: how far a ping's timestamp is behind an earlier one

ASSUME ServiceDayAssumption ==
  /\ GoldDate \in Int /\ DayLength \in Nat \ {0} /\ MaxTime \in Nat /\ MergeGap \in Int
  /\ EarlyThreshold \in Nat /\ LateThreshold \in Nat
  /\ \A kind \in PingFeeds : \A shape \in kind : "time" \in DOMAIN shape
  /\ \A d \in {GoldDate, GoldDate - 1} : \A call \in DOMAIN Static.schedule[d] :
       {Static.schedule[d][call].arrival, Static.schedule[d][call].departure} \subseteq Int \cup {Absent}

VARIABLES shapes, pings

dayVars == <<shapes, pings>>

-----------------------------------------------------------------------------
(* Visits                                                                   *)

\* A train without a vehicle id goes by its trip.
Owner(ping) == IF ping.vehicle # Absent THEN ping.vehicle ELSE ping.trip

Reporting(ping) == Owner(ping) # Absent /\ ping.time # Absent

\* The vehicles, in the order they are first seen.
VehicleIds(partition) ==
  LET First(i) == /\ Reporting(partition[i])
                  /\ \A j \in 1..(i - 1) :
                       Reporting(partition[j]) => Owner(partition[j]) # Owner(partition[i])
  IN ItemsAt([i \in DOMAIN partition |-> Owner(partition[i])], {i \in DOMAIN partition : First(i)})

PlacesOf(partition, id) ==
  {i \in DOMAIN partition : Reporting(partition[i]) /\ Owner(partition[i]) = id}

\* Mutant of RowsByVehicle: the rows in the order of the partition.
RowsUnsorted(partition, id) == ItemsAt(partition, PlacesOf(partition, id))

RowsByVehicle(partition, id) == Sorted(ItemsAt(partition, PlacesOf(partition, id)), "time")

\* Asked of the whole partition, never of one vehicle.
PublishesStoppedAt(partition) ==
  \E i \in DOMAIN partition : Reporting(partition[i]) /\ partition[i].stopped

IsDwelling(row, publishes) == row.stop # Absent /\ (publishes => row.stopped)

\* Mutant of Runs: the dwelling pings of a stop, wherever they are.
RunsByStop(rows, publishes) ==
  LET all == {i \in DOMAIN rows : IsDwelling(rows[i], publishes)}
      New(i) == \A j \in all : j < i => rows[j].stop # rows[i].stop
      At(i) == ItemsAt(rows, {j \in all : rows[j].stop = rows[i].stop})
  IN ItemsAt([i \in DOMAIN rows |-> At(i)], {i \in all : New(i)})

\* A run is a longest block of dwelling pings at one stop.
Opens(rows, publishes, i) ==
  /\ IsDwelling(rows[i], publishes)
  /\ i = 1 \/ ~IsDwelling(rows[i - 1], publishes) \/ rows[i - 1].stop # rows[i].stop

Within(rows, publishes, i, j) ==
  \A k \in (i + 1)..j : IsDwelling(rows[k], publishes) /\ rows[k].stop = rows[i].stop

RunFrom(rows, publishes, i) ==
  SubSeq(rows, i, CHOOSE j \in i..Len(rows) :
                    Within(rows, publishes, i, j) /\ (j < Len(rows) => ~Within(rows, publishes, i, j + 1)))

Runs(rows, publishes) ==
  ItemsAt([i \in DOMAIN rows |-> RunFrom(rows, publishes, i)],
          {i \in DOMAIN rows : Opens(rows, publishes, i)})

\* A feed that never stops names the stop approached: the run ends there, and
\* nothing tells arrival from departure.
VisitOf(id, run, publishes) ==
  [vehicle |-> id, stop |-> run[1].stop,
   arrival |-> IF publishes THEN run[1].time ELSE Last(run).time,
   departure |-> Last(run).time,
   ping_count |-> Len(run),
   route |-> run[1].route, trip |-> run[1].trip, direction |-> run[1].direction]

\* A flicker: the same stop again within the gap, under the first identity.
FlickersStrictly(merged, v) ==
  /\ merged # <<>>
  /\ Last(merged).stop = v.stop
  /\ v.arrival - Last(merged).departure \in 0..(MergeGap - 1)

Flickers(merged, v) ==
  /\ merged # <<>>
  /\ Last(merged).stop = v.stop
  /\ v.arrival - Last(merged).departure \in 0..MergeGap

\* Mutant of MergeVisit: the pings of the visit merged are not counted.
MergeForgetful(merged, v) ==
  IF Flickers(merged, v)
  THEN Append(Front(merged), [Last(merged) EXCEPT !.departure = v.departure])
  ELSE Append(merged, v)

MergeVisit(merged, v) ==
  IF Flickers(merged, v)
  THEN Append(Front(merged), [Last(merged) EXCEPT !.departure = v.departure,
                                                  !.ping_count = @ + v.ping_count])
  ELSE Append(merged, v)

MergeCloseVisits(visits) ==
  LET merged[n \in 0..Len(visits)] ==
        IF n = 0 THEN <<>> ELSE MergeVisit(merged[n - 1], visits[n])
  IN IF MergeGap <= 0 THEN visits ELSE merged[Len(visits)]

Dwells(partition, id) ==
  LET publishes == PublishesStoppedAt(partition)
      runs == Runs(RowsByVehicle(partition, id), publishes)
  IN MergeCloseVisits([n \in DOMAIN runs |-> VisitOf(id, runs[n], publishes)])

DayVisits(partition) ==
  LET ids == VehicleIds(partition)
  IN FlattenSeq([n \in DOMAIN ids |-> Dwells(partition, ids[n])])

-----------------------------------------------------------------------------
(* Schedule-free marts, of a list of visits                                 *)

ServiceDate(time) == time \div DayLength

\* The rows of a key, by their places.
Grouped(key) == [k \in Range(key) |-> {i \in DOMAIN key : key[i] = k}]

Routed(visits) == {i \in DOMAIN visits : visits[i].route # Absent}

\* Mutant of StopKey: a visit is dated by its departure.
StopKeyByDeparture(v) == <<v.route, v.direction, v.stop, ServiceDate(v.departure)>>

\* A visit is dated by its arrival; no direction is a direction of its own.
StopKey(v) == <<v.route, v.direction, v.stop, ServiceDate(v.arrival)>>

RouteKey(v) == <<v.route, v.direction, ServiceDate(v.arrival)>>

Distinct(names) == Cardinality(names \ {Absent})

MartRow(visits, bucket) ==
  LET first == Least({visits[i].arrival : i \in bucket})
      last == Greatest({visits[i].departure : i \in bucket})
  IN [visit_count |-> Cardinality(bucket),
      trip_count |-> Distinct({visits[i].trip : i \in bucket}),
      distinct_vehicle_count |-> Distinct({visits[i].vehicle : i \in bucket}),
      distinct_stop_count |-> Distinct({visits[i].stop : i \in bucket}),
      first_service |-> first, last_service |-> last, service_span |-> last - first]

StopDay(visits) ==
  LET buckets == Grouped([i \in Routed(visits) |-> StopKey(visits[i])])
  IN [k \in DOMAIN buckets |-> MartRow(visits, buckets[k])]

RouteDay(visits) ==
  LET buckets == Grouped([i \in Routed(visits) |-> RouteKey(visits[i])])
  IN [k \in DOMAIN buckets |-> MartRow(visits, buckets[k])]

-----------------------------------------------------------------------------
(* Adherence to the schedule                                                *)

\* gold.py resolves the day and the day before it.
Scheduled == {GoldDate, GoldDate - 1}

ScheduledMidnight(date) == date * DayLength

\* What a service day schedules for the visit at a place, with its delays.
Match(visits, i, date) ==
  LET v == visits[i]
      call == Static.schedule[date][<<v.trip, v.stop>>]
      Delay(actual, seconds) ==
        IF seconds = Absent THEN Absent ELSE actual - (ScheduledMidnight(date) + seconds)
      late == Delay(v.arrival, call.arrival)
      out == Delay(v.departure, call.departure)
      Either(a, b) == IF a # Absent THEN a ELSE b
  IN [place |-> i, stop |-> v.stop, service_date |-> date,
      arrival_delay |-> late, departure_delay |-> out, basis |-> Either(late, out),
      route |-> Either(call.route, v.route), direction |-> Either(call.direction, v.direction)]

\* The date of the arrival and the one before it, where either schedules the
\* trip at the stop with a time.
Matches(visits, i) ==
  LET v == visits[i]
      dates == {d \in {ServiceDate(v.arrival), ServiceDate(v.arrival) - 1} \cap Scheduled :
                  <<v.trip, v.stop>> \in DOMAIN Static.schedule[d]}
  IN {c \in {Match(visits, i, d) : d \in dates} : c.basis # Absent}

Size(delay) == IF delay < 0 THEN -delay ELSE delay

\* Mutant of Nearest: the later service date, whatever the delay.
NearestByDate(candidates) ==
  CHOOSE c \in candidates : \A d \in candidates : c.service_date >= d.service_date

\* The smaller delay; on a tie the arrival date, which is tried first.
Nearest(candidates) ==
  CHOOSE c \in candidates : \A d \in candidates \ {c} :
    \/ Size(c.basis) < Size(d.basis)
    \/ Size(c.basis) = Size(d.basis) /\ c.service_date > d.service_date

Classify(delay) ==
  IF delay < -EarlyThreshold THEN "early" ELSE IF delay > LateThreshold THEN "late" ELSE "on_time"

Adherence(visits) ==
  LET onTrips == {i \in DOMAIN visits : visits[i].trip # Absent /\ Matches(visits, i) # {}}
  IN {c \in {Nearest(Matches(visits, i)) : i \in onTrips} : c.route # Absent}

OtpRow(facts) ==
  [matched_count |-> Cardinality(facts),
   counts |-> [s \in {"early", "on_time", "late"} |->
                 Cardinality({f \in facts : Classify(f.basis) = s})],
   distinct_stop_count |-> Cardinality({f.stop : f \in facts})]

OtpStopKey(f) == <<f.route, f.direction, f.stop, f.service_date>>
OtpRouteKey(f) == <<f.route, f.direction, f.service_date>>

StopDayOtp(facts) ==
  LET buckets == Grouped([f \in facts |-> OtpStopKey(f)])
  IN [k \in DOMAIN buckets |-> OtpRow(buckets[k])]

RouteDayOtp(facts) ==
  LET buckets == Grouped([f \in facts |-> OtpRouteKey(f)])
  IN [k \in DOMAIN buckets |-> OtpRow(buckets[k])]

-----------------------------------------------------------------------------
(* Speeds between stops                                                     *)

\* The first direction of the route, in order, one of whose tracks passes the
\* two stops forward.
DeriveDirection(route, from, to) ==
  LET Forward(d) == \E track \in Static.tracks[route][d] :
                      /\ {from, to} \subseteq DOMAIN track
                      /\ track[from] < track[to]
      fits == IF route \in DOMAIN Static.tracks
              THEN {d \in DOMAIN Static.tracks[route] : Forward(d)} ELSE {}
  IN IF fits = {} THEN Absent ELSE Least(fits)

ResolveDirection(a, b) ==
  LET derived == DeriveDirection(a.route, a.stop, b.stop)
  IN IF derived # Absent THEN derived
     ELSE IF a.trip \in DOMAIN Static.directions THEN Static.directions[a.trip]
     ELSE a.direction

\* Along the trip's shape where that is credible, else the straight line.
Distance(trip, from, to) ==
  LET straight == Size(Static.coords[from] - Static.coords[to])
      shape == IF trip \in DOMAIN Static.shapes THEN Static.shapes[trip] ELSE <<>>
      along == Size(shape[from] - shape[to])
  IN IF {from, to} \subseteq DOMAIN shape /\ straight # 0 /\ along \in straight..(4 * straight)
     THEN along ELSE straight

\* The visits of a trip by arrival, whichever vehicle made them; buses are
\* split from the rest before trips are paired.
TripVisits(visits, trip, bus) ==
  LET Own(v) == v.trip = trip /\ v.route # Absent /\ (v.route \in Static.buses) = bus
  IN Sorted(ItemsAt(visits, {i \in DOMAIN visits : Own(visits[i])}), "arrival")

\* Mutant of Transit: the dwell counts as travel.
TransitSinceArrival(a, b) == b.arrival - a.arrival

Transit(a, b) == b.arrival - a.departure

Plausible(a, b, bus) ==
  LET limit == IF bus THEN Static.bus_limit ELSE Static.rail_limit
      distance == Distance(a.trip, a.stop, b.stop)
  IN /\ ResolveDirection(a, b) \in {Absent, 0, 1}
     /\ {a.stop, b.stop} \subseteq DOMAIN Static.coords
     /\ Transit(a, b) \in 1..MaxTransit
     /\ distance # 0
     /\ distance <= limit * Transit(a, b)

Segment(a, b, bus) ==
  [route |-> a.route, direction |-> ResolveDirection(a, b), trip |-> a.trip, bus |-> bus,
   from |-> a.stop, to |-> b.stop, departure |-> a.departure, arrival |-> b.arrival,
   service_date |-> ServiceDate(a.departure)]

Segments(seq, bus) ==
  {Segment(seq[n], seq[n + 1], bus) :
     n \in {m \in 1..(Len(seq) - 1) : Plausible(seq[m], seq[m + 1], bus)}}

SegmentSpeeds(visits) ==
  LET trips == {visits[i].trip : i \in Routed(visits)} \ {Absent}
  IN UNION {Segments(TripVisits(visits, trip, bus), bus) : trip \in trips, bus \in BOOLEAN}

-----------------------------------------------------------------------------
(* The partition                                                            *)

ServiceDayInit == shapes \in PingFeeds /\ pings = <<>>

\* A row of the silver partition; timestamps need not be in order.
Ping(shape, time) ==
  /\ Len(pings) < MaxPings
  /\ \A i \in DOMAIN pings :
       Absent \notin {time, pings[i].time} => time >= pings[i].time - Lateness
  /\ pings' = Append(pings, [shape EXCEPT !.time = time])
  /\ UNCHANGED shapes

ServiceDayNext == \E shape \in shapes, time \in (0..MaxTime) \cup {Absent} : Ping(shape, time)

ServiceDaySpec == ServiceDayInit /\ [][ServiceDayNext]_dayVars

-----------------------------------------------------------------------------
(* What the marts promise                                                   *)

\* The types; a route day counts visits and spans the time between pings.
ServiceDayTypeOK ==
  /\ shapes \in PingFeeds
  /\ IsList(pings)
  /\ \A i \in DOMAIN pings : pings[i].time \in (0..MaxTime) \cup {Absent}
  /\ LET visits == DayVisits(pings)
         days == RouteDay(visits)
     IN \A k \in DOMAIN days : /\ days[k].visit_count \in 1..Len(visits)
                              /\ days[k].service_span \in 0..MaxTime

\* A vehicle is at one stop at a time: its visits follow one another, and two
\* visits to one stop in a row are further apart than the merge gap
\* (Vehicle._dwells_by, merge_close_visits).
VisitsAreApart ==
  \A id \in ToSet(VehicleIds(pings)) :
    LET vs == Dwells(pings, id) IN
    /\ \A n \in DOMAIN vs : vs[n].vehicle = id /\ vs[n].arrival <= vs[n].departure
    /\ \A n \in 1..(Len(vs) - 1) :
         LET gap == vs[n + 1].arrival - vs[n].departure IN
         gap >= 0 /\ (vs[n].stop = vs[n + 1].stop /\ MergeGap > 0 => gap > MergeGap)

\* Merging loses no ping: the visits of a vehicle count every ping of its at
\* a stop, and no other (merge_close_visits).
EveryDwellingPingCounted ==
  \A id \in ToSet(VehicleIds(pings)) :
    LET vs == Dwells(pings, id)
        rows == RowsByVehicle(pings, id)
    IN Total([n \in DOMAIN vs |-> vs[n].ping_count])
         = Cardinality({i \in DOMAIN rows : IsDwelling(rows[i], PublishesStoppedAt(pings))})

\* The route marts are the stop marts added up, schedule-free and on-time
\* alike, and a matched visit is exactly one of early, on time and late
\* (compute_marts, compute_adherence).
RollupsAgree ==
  LET visits == DayVisits(pings)
      facts == Adherence(visits)
      byStop == StopDay(visits)
      byRoute == RouteDay(visits)
      otpByStop == StopDayOtp(facts)
      otpByRoute == RouteDayOtp(facts)
      StopsOf(mart, k) == {s \in DOMAIN mart : <<s[1], s[2], s[4]>> = k}
  IN /\ \A k \in DOMAIN byRoute :
          LET stops == StopsOf(byStop, k) IN
          /\ byRoute[k].distinct_stop_count = Cardinality(stops)
          /\ byRoute[k].visit_count = Total([s \in stops |-> byStop[s].visit_count])
     /\ \A k \in DOMAIN otpByRoute :
          LET stops == StopsOf(otpByStop, k) IN
          /\ otpByRoute[k].distinct_stop_count = Cardinality(stops)
          /\ otpByRoute[k].matched_count = Total([s \in stops |-> otpByStop[s].matched_count])
          /\ otpByRoute[k].matched_count = Total(otpByRoute[k].counts)

\* A vehicle that arrives just when the schedule of the day, or of the day
\* before it, wants its trip there is on time, whatever else the trip's id
\* names on the other day (compute_adherence, owl trips): when a trip is over
\* by the end of the next day, and a route is known for the visit.
OnScheduleIsOnTime ==
  LET visits == DayVisits(pings)
      facts == Adherence(visits)
      Call(v) == <<v.trip, v.stop>>
      OnSchedule(v, calls, midnight) ==
        /\ v.trip # Absent
        /\ Call(v) \in DOMAIN calls
        /\ LET due == calls[Call(v)].arrival
           IN due \in 0..(2 * DayLength - 1) /\ v.arrival = midnight + due
      Known(v) == \A d \in Scheduled :
                    Call(v) \in DOMAIN Static.schedule[d]
                      => v.route # Absent \/ Static.schedule[d][Call(v)].route # Absent
  IN \A n \in DOMAIN visits, d \in Scheduled :
       OnSchedule(visits[n], Static.schedule[d], ScheduledMidnight(d)) /\ Known(visits[n])
         => \E f \in facts : f.place = n /\ Classify(f.basis) = "on_time"

\* The segments of a trip follow one another, even where two vehicles report
\* the same trip at once (compute_segment_speeds).
SegmentsNeverOverlap ==
  LET segments == SegmentSpeeds(DayVisits(pings)) IN
  \A s \in segments :
    /\ s.departure < s.arrival
    /\ \A t \in segments \ {s} :
         t.trip = s.trip /\ t.bus = s.bus => t.arrival <= s.departure \/ s.arrival <= t.departure

\* A visit that another one of its vehicle follows is not revised by the next
\* ping, unless that ping is out of order or tells that the feed does publish
\* STOPPED_AT (Vehicle._raw_dwells).
SettledVisitsStay ==
  LET past == Front(pings)
      new == Last(pings)
      Late(id) == Reporting(new) /\ \E i \in PlacesOf(past, id) : new.time < past[i].time
  IN (pings # <<>> /\ PublishesStoppedAt(past) = PublishesStoppedAt(pings)) =>
       \A id \in ToSet(VehicleIds(past)) :
         LET before == Dwells(past, id) IN
         Late(id) \/ before = <<>> \/ IsPrefix(Front(before), Dwells(pings, id))
=============================================================================
