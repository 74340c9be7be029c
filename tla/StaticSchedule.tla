--------------------------- MODULE StaticSchedule ---------------------------
(* What a static GTFS archive says: the tables of one zip as               *)
(* analysis/static_gtfs.py reads them, the slice of them one operator's    *)
(* scope leaves, the indexes built from them, the services of a day with   *)
(* their travel times and headways, and the rows pipeline/gtfs.py builds   *)
(* for its reference marts.                                                *)
(*                                                                         *)
(* An archive is a record of tables, a table a function from the lines of  *)
(* the file to rows: to filter it is to keep some of its lines.  A row is a*)
(* record whose missing cells are Absent.  Names are taken after the       *)
(* strip() every reader applies, a blank one is Absent.  An agency id is a *)
(* pair <<prefix, rest>>; a point, a coordinate or a weekday is whatever   *)
(* the archive says, only its presence matters here.                       *)
EXTENDS Integers, FiniteSets, SequencesExt, Cells, Selection

Complete(table, cells) == Restrict(table, {i \in DOMAIN table : Has(table[i], cells)})

\* Pairs are scanned by their first component, then by the second.
NotAfter(p, q) == p[1] < q[1] \/ (p[1] = q[1] /\ p[2] <= q[2])

\* Mutant of Earliest: the last one found is kept.
LatestPair(pairs) == CHOOSE p \in pairs : \A q \in pairs : NotAfter(q, p)

Earliest(pairs) == CHOOSE p \in pairs : \A q \in pairs : NotAfter(p, q)

-----------------------------------------------------------------------------
(* The tables, scoped                                                       *)

\* At most one of the three filters is set on a feed; the first set one wins.
Scoped(scope) ==
  scope.agency_prefix # Absent \/ scope.agency_ids # {} \/ scope.route_types # {}

InScope(route, scope) ==
  IF scope.agency_prefix # Absent
  THEN route.agency_id = Absent \/ route.agency_id[1] = scope.agency_prefix
  ELSE IF scope.agency_ids # {}
       THEN route.agency_id = Absent \/ route.agency_id \in scope.agency_ids
       ELSE scope.route_types = {} \/ route.route_type \in scope.route_types

Routes(zip, scope) ==
  Restrict(zip.routes, {i \in DOMAIN zip.routes : InScope(zip.routes[i], scope)})

\* The rows of a table that belong to one of the rows kept of another.
Following(table, cell, leaders, scope) ==
  Restrict(table, {i \in DOMAIN table :
                     \/ ~Scoped(scope)
                     \/ \E r \in Range(leaders) : r[cell] = table[i][cell]})

\* trips.txt names neither agency nor mode: it follows the filtered routes.
Trips(zip, scope) == Following(zip.trips, "route_id", Routes(zip, scope), scope)

\* The two big tables are filtered while they are read, by the scoped trips.
Shapes(zip, scope) == Following(zip.shapes, "shape_id", Trips(zip, scope), scope)

\* Mutant of HmsToSeconds: the hours past 24 wrap.
HmsToSecondsWrapped(time) == IF time = Absent THEN -1 ELSE time % 4

\* "H:MM:SS", with hours past 24 for a trip that runs into the next day; a
\* missing time becomes -1 so the column stays an integer one.
HmsToSeconds(time) == IF time = Absent THEN -1 ELSE time

StopTimes(zip, scope) == Following(zip.stop_times, "trip_id", Trips(zip, scope), scope)

-----------------------------------------------------------------------------
(* Indexes                                                                  *)

\* Where the key columns of a table are scanned, in order, each in file order.
Cells(table, value, columns) ==
  {p \in (DOMAIN columns) \X (DOMAIN table) : Has(table[p[2]], {value, columns[p[1]]})}

\* A {key -> value} map by setdefault: the first cell of a key keeps it.
KeepFirst(table, value, columns) ==
  LET cells == Cells(table, value, columns)
      Key(p) == table[p[2]][columns[p[1]]]
  IN [key \in {Key(p) : p \in cells} |->
        table[Earliest({p \in cells : Key(p) = key})[2]][value]]

NameColumns == <<"route_short_name", "route_long_name">>

RouteShortNames(zip, scope) == KeepFirst(Routes(zip, scope), "route_id", NameColumns)

\* The stops with both coordinates, and the points of each polyline with what
\* a projection needs of them.
StopCoords(zip) ==
  {s.stop_id : s \in Range(Complete(zip.stops, {"stop_id", "stop_lat", "stop_lon"}))}

ShapeCells == {"shape_id", "shape_pt_sequence", "shape_pt_lat", "shape_pt_lon"}

ShapePoints(zip, scope) ==
  LET points == Complete(Shapes(zip, scope), ShapeCells)
  IN [id \in {p.shape_id : p \in Range(points)} |->
        {i \in DOMAIN points : points[i].shape_id = id}]

\* Every shape a route runs in a direction (which of them comes first, the
\* most used, is left out: no mart depends on it).
RouteDirectionShapes(zip, scope) ==
  LET trips == Range(Complete(Trips(zip, scope), {"route_id", "direction_id", "shape_id"}))
      Key(t) == <<t.route_id, t.direction_id>>
  IN [key \in {Key(t) : t \in trips} |-> {t.shape_id : t \in {u \in trips : Key(u) = key}}]

\* Of these, the ones that are a line at all.
DrawnShapes(zip, scope, key) ==
  LET points == ShapePoints(zip, scope) IN
  {s \in RouteDirectionShapes(zip, scope)[key] :
     s \in DOMAIN points /\ Cardinality(points[s]) >= 2}

\* Mutant of RouteDirectionStopOffsets: a shape of one point has offsets.
RouteDirectionStopOffsetsOfPoints(zip, scope, key) ==
  LET shapes == RouteDirectionShapes(zip, scope)[key] \cap DOMAIN ShapePoints(zip, scope)
      Runs(trip, shape) == <<trip.route_id, trip.direction_id, trip.shape_id>>
                             = <<key[1], key[2], shape>>
  IN {o \in shapes \X StopCoords(zip) :
        \E call \in Range(StopTimes(zip, scope)), trip \in Range(Trips(zip, scope)) :
          Runs(trip, o[1]) /\ call.trip_id = trip.trip_id /\ call.stop_id = o[2]}

\* The stops the trips of a line call at, when they have coordinates.
RouteDirectionStopOffsets(zip, scope, key) ==
  LET Runs(trip, shape) == <<trip.route_id, trip.direction_id, trip.shape_id>>
                             = <<key[1], key[2], shape>>
  IN {o \in DrawnShapes(zip, scope, key) \X StopCoords(zip) :
        \E call \in Range(StopTimes(zip, scope)), trip \in Range(Trips(zip, scope)) :
          Runs(trip, o[1]) /\ call.trip_id = trip.trip_id /\ call.stop_id = o[2]}

-----------------------------------------------------------------------------
(* The schedule of one day                                                  *)

\* Days are numbered; every seventh is the same weekday.
Weekday(date) == date % 7

ActiveServiceIds(zip, date) ==
  LET regular == {c.service_id : c \in {r \in Range(zip.calendar) :
                     Weekday(date) \in r.weekdays /\ r.start_date <= date /\ r.end_date >= date}}
      OnDate(type) == {e.service_id : e \in {r \in Range(zip.calendar_dates) :
                         r.date = date /\ r.exception_type = type}}
  IN (regular \cup OnDate(1)) \ OnDate(2)

\* Mutant of HeadwayGroup: the two directions are one.
HeadwayGroupOfRoute(call) == <<call.route_id, call.stop_id>>

\* The arrivals that follow each other: a trip without a direction (in a file
\* that has the column) is in no group, a file without the column is one
\* direction.
HeadwayGroup(call) == <<call.route_id, call.direction_id, call.stop_id>>

\* The calls of the trips that run on the day.
Joined(zip, scope, date) ==
  LET services == ActiveServiceIds(zip, date)
      trips == {t \in Range(Trips(zip, scope)) : t.service_id \in services}
      hasDirection == \E t \in Range(zip.trips) : t.direction_id # Absent
      calls == StopTimes(zip, scope)
      Call(i, t) == [row |-> i, trip_id |-> t.trip_id, stop_id |-> calls[i].stop_id,
                     route_id |-> t.route_id,
                     direction_id |-> IF hasDirection THEN t.direction_id ELSE 0,
                     arrival_seconds |-> HmsToSeconds(calls[i].arrival_time)]
  IN {Call(p[1], p[2]) : p \in {q \in (DOMAIN calls) \X trips :
                                   calls[q[1]].trip_id = q[2].trip_id}}

FirstArrival(joined, c) ==
  Least({d.arrival_seconds : d \in {e \in joined : e.trip_id = c.trip_id}})

ArrivesBefore(d, c) ==
  /\ HeadwayGroup(d) = HeadwayGroup(c)
  /\ \/ d.arrival_seconds < c.arrival_seconds
     \/ (d.arrival_seconds = c.arrival_seconds /\ d.row < c.row)

Latest(calls) == CHOOSE c \in calls : \A d \in calls \ {c} : ArrivesBefore(d, c)

Headway(joined, c) ==
  LET before == {d \in joined : ArrivesBefore(d, c)}
  IN IF before = {} \/ c.direction_id = Absent THEN Absent
     ELSE c.arrival_seconds - Latest(before).arrival_seconds

\* One row per call, with the seconds since the trip's first arrival and since
\* the arrival before it in its group.
ScheduledStops(zip, scope, date) ==
  LET joined == Joined(zip, scope, date)
  IN {[call |-> c, scheduled_tt |-> c.arrival_seconds - FirstArrival(joined, c),
       scheduled_headway |-> Headway(joined, c)] : c \in joined}

-----------------------------------------------------------------------------
(* The rows of the reference marts                                          *)

\* The cells a row must have to be written; the others may be null.
Required == [gtfs_stops          |-> {"stop_id"},
             gtfs_routes         |-> {"route_id"},
             gtfs_calendar       |-> {"service_id", "start_date", "end_date", "weekdays"},
             gtfs_calendar_dates |-> {"service_id", "date", "exception_type"},
             gtfs_shapes         |-> {"shape_id", "shape_pt_sequence", "shape_pt_lat", "shape_pt_lon"},
             gtfs_route_patterns |-> {"route_pattern_id", "route_id", "direction_id"},
             gtfs_directions     |-> {"route_id", "direction_id"},
             gtfs_checkpoints    |-> {"checkpoint_id"}]

Rows(table, mart) == Complete(table, Required[mart])

\* One row per name a route has, the short one before the long one.
AliasTypes == <<"short_name", "long_name">>

RouteAliases(zip, scope) ==
  LET routes == Rows(Routes(zip, scope), "gtfs_routes") IN
  [p \in {q \in (DOMAIN routes) \X (DOMAIN NameColumns) :
            routes[q[1]][NameColumns[q[2]]] # Absent} |->
     [alias_token |-> routes[p[1]][NameColumns[p[2]]], alias_type |-> AliasTypes[p[2]],
      route_id |-> routes[p[1]].route_id]]

\* A polyline of at least two points for every shape a route runs.
RouteShapes(zip, scope) ==
  UNION {{<<key, shape>> : shape \in DrawnShapes(zip, scope, key)} :
           key \in DOMAIN RouteDirectionShapes(zip, scope)}

RouteShapeStops(zip, scope) ==
  UNION {{<<key, o[1], o[2]>> : o \in RouteDirectionStopOffsets(zip, scope, key)} :
           key \in DOMAIN RouteDirectionShapes(zip, scope)}

\* Stops, calendars, patterns, directions and checkpoints are read whole: only
\* routes, trips, shapes and stop times follow the scope.
RowBuilder(mart, zip, scope) ==
  CASE mart = "gtfs_stops"          -> Rows(zip.stops, mart)
    [] mart = "gtfs_routes"         -> Rows(Routes(zip, scope), mart)
    [] mart = "gtfs_route_aliases"  -> RouteAliases(zip, scope)
    [] mart = "gtfs_calendar"       -> Rows(zip.calendar, mart)
    [] mart = "gtfs_calendar_dates" -> Rows(zip.calendar_dates, mart)
    [] mart = "gtfs_shapes"         -> Rows(Shapes(zip, scope), mart)
    [] mart = "gtfs_route_patterns" -> Rows(zip.route_patterns, mart)
    [] mart = "gtfs_directions"     -> Rows(zip.directions, mart)
    [] mart = "gtfs_checkpoints"    -> Rows(zip.checkpoints, mart)
    [] mart = "route_shapes"        -> RouteShapes(zip, scope)
    [] mart = "route_shape_stops"   -> RouteShapeStops(zip, scope)
=============================================================================
