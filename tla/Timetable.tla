------------------------------ MODULE Timetable -----------------------------
(* A day's schedule read from one archive after another: the reference     *)
(* definitions the travel times, headways and name indexes of              *)
(* StaticSchedule are checked against, over every small archive.           *)
EXTENDS StaticSchedule

CONSTANTS Archives,   \* the archives a run may meet
          Whole,      \* the scope of a feed that needs none
          AskedDates

\* The files of an archive have lines; a call is timed by a number of seconds
\* or not at all.  Whole is no scope.
ASSUME TimetableAssumption ==
  /\ ~Scoped(Whole) /\ Whole.agency_prefix = Absent
  /\ \A zip \in Archives :
       /\ IsList(zip.stop_times) /\ IsList(zip.trips) /\ IsList(zip.routes)
       /\ \A i \in DOMAIN zip.stop_times :
            zip.stop_times[i].arrival_time \in Nat \cup {Absent}

VARIABLES archive, serviceDate

timetableVars == <<archive, serviceDate>>

TimetableInit == archive \in Archives /\ serviceDate \in AskedDates

\* The nightly run asks the same archive for another day.
AskDay == \E d \in AskedDates : serviceDate' = d /\ d # serviceDate /\ UNCHANGED archive

TimetableNext == AskDay

TimetableSpec == TimetableInit /\ [][TimetableNext]_timetableVars

-----------------------------------------------------------------------------

Schedule == ScheduledStops(archive, Whole, serviceDate)

OfTrip(id) == {s \in Schedule : s.call.trip_id = id}

(* For a trip every call of which is timed, the travel time at a stop is    *)
(* the time elapsed since the trip left its first stop, past midnight too.  *)
TravelTimesElapse ==
  \A s \in Schedule :
    (\A u \in OfTrip(s.call.trip_id) : archive.stop_times[u.call.row].arrival_time # Absent)
      => \E first \in OfTrip(s.call.trip_id) :
           /\ first.scheduled_tt = 0
           /\ s.scheduled_tt = archive.stop_times[s.call.row].arrival_time
                                 - archive.stop_times[first.call.row].arrival_time
           /\ s.scheduled_tt >= 0

(* At one stop of one route in one direction the headways lead from the     *)
(* first arrival of the day to the last: each arrival but the first has     *)
(* one, and they add up.                                                    *)
HeadwaysTelescope ==
  \A s \in Schedule :
    LET group == {u \in Schedule : /\ u.call.route_id = s.call.route_id
                                   /\ u.call.stop_id = s.call.stop_id
                                   /\ u.call.direction_id = s.call.direction_id}
        arrivals == {u.call.arrival_seconds : u \in group}
        spaced == {u \in group : u.scheduled_headway # Absent}
        sum == Total([u \in spaced |-> u.scheduled_headway])
    IN s.call.direction_id # Absent
         => sum = Greatest(arrivals) - Least(arrivals) /\ Cardinality(spaced) = Cardinality(group) - 1

(* A display name resolves to the first route with that short name, and to  *)
(* a long name only when no route has it as a short one.                    *)
ShortNamesFirst ==
  LET index == RouteShortNames(archive, Whole)
      routes == archive.routes
      Named(i, col, key) == routes[i].route_id # Absent /\ routes[i][col] = key
      First(col, key) == CHOOSE i \in DOMAIN routes :
                           /\ Named(i, col, key)
                           /\ \A j \in 1..(i - 1) : ~Named(j, col, key)
      Known(col, key) == \E i \in DOMAIN routes : Named(i, col, key)
  IN \A key \in DOMAIN index :
       index[key] = IF Known("route_short_name", key)
                    THEN routes[First("route_short_name", key)].route_id
                    ELSE routes[First("route_long_name", key)].route_id
=============================================================================
