---------------------------- MODULE Marts_proofs ----------------------------
(* What is proved of a service day's marts: whatever the archive, the      *)
(* pings and the countdowns are, the timetable means what the archive says *)
(* (Timetable), the visits of the vehicles are apart, settled and counted, *)
(* their rollups add up, what is on schedule is on time and no segments    *)
(* overlap (ServiceDay), and MARTA's countdowns end in arrivals that its   *)
(* trips partition (MartaDay).                                             *)
EXTENDS Marts, ListFacts

-----------------------------------------------------------------------------
(* The timetable.                                                          *)

\* Without a scope a table is read whole.
LEMMA Unscoped ==
  ASSUME NEW zip, NEW scope, ~Scoped(scope), scope.agency_prefix = Absent
  PROVE  /\ StopTimes(zip, scope) = Restrict(zip.stop_times, DOMAIN zip.stop_times)
         /\ Trips(zip, scope) = Restrict(zip.trips, DOMAIN zip.trips)
         /\ Routes(zip, scope) = Restrict(zip.routes, DOMAIN zip.routes)
<1>1. \A table, cell, leaders : Following(table, cell, leaders, scope) = Restrict(table, DOMAIN table)
  <2> TAKE table, cell, leaders
  <2>1. DOMAIN table = {i \in DOMAIN table :
                         \/ ~Scoped(scope)
                         \/ \E r \in Range(leaders) : r[cell] = table[i][cell]}
    OBVIOUS
  <2> QED
    BY <2>1 DEF Following
<1>2. \A route : InScope(route, scope)
  BY DEF InScope, Scoped
<1>3. DOMAIN zip.routes = {i \in DOMAIN zip.routes : InScope(zip.routes[i], scope)}
  BY <1>2
<1> QED
  BY <1>1, <1>3 DEF StopTimes, Trips, Routes

\* What an archive has.
Archived(zip) ==
  /\ IsList(zip.stop_times) /\ IsList(zip.trips) /\ IsList(zip.routes)
  /\ \A i \in DOMAIN zip.stop_times : zip.stop_times[i].arrival_time \in Nat \cup {Absent}

\* The calls of a day are finitely many, and told apart by their line in the
\* file within a group.
LEMMA JoinedFacts ==
  ASSUME NEW zip, Archived(zip), NEW date
  PROVE  LET J == Joined(zip, Whole, date) IN
         /\ IsFiniteSet(J)
         /\ \A c \in J : /\ c.row \in DOMAIN zip.stop_times /\ c.row \in Nat
                         /\ c.arrival_seconds = HmsToSeconds(zip.stop_times[c.row].arrival_time)
                         /\ c.arrival_seconds \in Int
         /\ \A c, d \in J : c.row = d.row /\ HeadwayGroup(c) = HeadwayGroup(d) => c = d
<1> DEFINE calls == StopTimes(zip, Whole)
           services == ActiveServiceIds(zip, date)
           trips == {t \in Range(Trips(zip, Whole)) : t.service_id \in services}
           hasDirection == \E t \in Range(zip.trips) : t.direction_id # Absent
           pairs == {q \in (DOMAIN calls) \X trips : calls[q[1]].trip_id = q[2].trip_id}
           Call(i, t) == [row |-> i, trip_id |-> t.trip_id, stop_id |-> calls[i].stop_id,
                          route_id |-> t.route_id,
                          direction_id |-> IF hasDirection THEN t.direction_id ELSE 0,
                          arrival_seconds |-> HmsToSeconds(calls[i].arrival_time)]
           J == Joined(zip, Whole, date)
<1>1. J = {Call(p[1], p[2]) : p \in pairs}
  BY DEF Joined
<1>2. calls = Restrict(zip.stop_times, DOMAIN zip.stop_times)
      /\ Trips(zip, Whole) = Restrict(zip.trips, DOMAIN zip.trips)
  BY Unscoped, TimetableAssumption
<1>3. /\ DOMAIN calls = DOMAIN zip.stop_times
      /\ \A i \in DOMAIN calls : calls[i] = zip.stop_times[i]
      /\ Range(Trips(zip, Whole)) = {zip.trips[i] : i \in DOMAIN zip.trips}
  BY <1>2 DEF Restrict, Range
<1>4. /\ DOMAIN zip.stop_times = 1..Len(zip.stop_times) /\ Len(zip.stop_times) \in Nat
      /\ DOMAIN zip.trips = 1..Len(zip.trips) /\ Len(zip.trips) \in Nat
  BY ListOf DEF Archived
<1>5. IsFiniteSet(DOMAIN zip.stop_times) /\ IsFiniteSet(DOMAIN zip.trips)
  <2>1. \A n \in Nat : IsFiniteSet(1..n)
    BY FS_Interval
  <2> QED
    BY <2>1, <1>4
<1>6. IsFiniteSet(trips)
  <2>1. IsFiniteSet({zip.trips[i] : i \in DOMAIN zip.trips})
    BY <1>5, MadeFinite
  <2>2. trips \subseteq {zip.trips[i] : i \in DOMAIN zip.trips}
    BY <1>3
  <2> HIDE DEF trips
  <2> QED
    BY <2>1, <2>2, FS_Subset
<1>7. IsFiniteSet(pairs)
  <2>1. IsFiniteSet((DOMAIN calls) \X trips)
    <3> HIDE DEF trips, calls
    <3> QED
      BY <1>3, <1>5, <1>6, FS_Product
  <2>2. pairs \subseteq (DOMAIN calls) \X trips
    OBVIOUS
  <2> HIDE DEF pairs, calls, trips
  <2> QED
    BY <2>1, <2>2, FS_Subset
<1>8. IsFiniteSet(J)
  <2> DEFINE f == [p \in pairs |-> Call(p[1], p[2])]
  <2>1. J = {f[p] : p \in DOMAIN f} /\ DOMAIN f = pairs
    BY <1>1
  <2> HIDE DEF f, J, pairs
  <2> QED
    BY <2>1, <1>7, MadeFinite
<1>9. \A p \in pairs : p[1] \in DOMAIN calls /\ p[2].trip_id = calls[p[1]].trip_id
  OBVIOUS
<1> HIDE DEF calls, trips, hasDirection, pairs, J
<1>10. \A c \in J : \E i \in DOMAIN calls : \E t : c = Call(i, t) /\ t.trip_id = calls[i].trip_id
  BY <1>1, <1>9
<1>11. \A time \in Nat \cup {Absent} : HmsToSeconds(time) \in Int
  BY DEF HmsToSeconds
<1>12. ASSUME NEW c \in J
       PROVE  /\ c.row \in DOMAIN zip.stop_times /\ c.row \in Nat
              /\ c.arrival_seconds = HmsToSeconds(zip.stop_times[c.row].arrival_time)
              /\ c.arrival_seconds \in Int
  <2>1. PICK i \in DOMAIN calls : \E t : c = Call(i, t) /\ t.trip_id = calls[i].trip_id
    BY <1>10
  <2>2. c.row = i /\ c.arrival_seconds = HmsToSeconds(calls[i].arrival_time)
    BY <2>1
  <2>3. i \in DOMAIN zip.stop_times /\ i \in Nat /\ calls[i] = zip.stop_times[i]
    BY <1>3, <1>4
  <2>4. zip.stop_times[i].arrival_time \in Nat \cup {Absent}
    BY <2>3 DEF Archived
  <2> QED
    BY <2>2, <2>3, <2>4, <1>11
<1>13. ASSUME NEW c \in J, NEW d \in J, c.row = d.row, HeadwayGroup(c) = HeadwayGroup(d)
       PROVE  c = d
  <2>7. PICK i \in DOMAIN calls : \E t : c = Call(i, t) /\ t.trip_id = calls[i].trip_id
    BY <1>10
  <2>1. PICK t : c = Call(i, t) /\ t.trip_id = calls[i].trip_id
    BY <2>7
  <2>8. PICK j \in DOMAIN calls : \E u : d = Call(j, u) /\ u.trip_id = calls[j].trip_id
    BY <1>10
  <2>2. PICK u : d = Call(j, u) /\ u.trip_id = calls[j].trip_id
    BY <2>8
  <2>3. i = j
    BY <2>1, <2>2, <1>13
  <2>4. c.route_id = d.route_id /\ c.direction_id = d.direction_id /\ c.stop_id = d.stop_id
    BY <1>13 DEF HeadwayGroup
  <2>5. t.route_id = u.route_id
    BY <2>1, <2>2, <2>4
  <2>6. t.trip_id = u.trip_id
    BY <2>1, <2>2, <2>3
  <2> QED
    BY <2>1, <2>2, <2>3, <2>4, <2>5, <2>6
<1> QED
  BY <1>8, <1>12, <1>13 DEF J

\* The invariant: an archive of the feed.
TimetableInv == archive \in Archives

\* Rows of the schedule.
LEMMA ScheduleFacts ==
  ASSUME TimetableInv
  PROVE  LET J == Joined(archive, Whole, serviceDate) IN
         /\ Archived(archive)
         /\ \A s \in Schedule : /\ s.call \in J
                               /\ s.scheduled_tt = s.call.arrival_seconds - FirstArrival(J, s.call)
                               /\ s.scheduled_headway = Headway(J, s.call)
         /\ \A c \in J : \E s \in Schedule : s.call = c
         /\ \A s, u \in Schedule : s.call = u.call => s = u
<1> DEFINE J == Joined(archive, Whole, serviceDate)
           Row(c) == [call |-> c, scheduled_tt |-> c.arrival_seconds - FirstArrival(J, c),
                      scheduled_headway |-> Headway(J, c)]
<1>1. Schedule = {Row(c) : c \in J}
  BY DEF Schedule, ScheduledStops
<1>2. Archived(archive)
  BY TimetableAssumption DEF TimetableInv, Archived
<1> HIDE DEF J
<1>3. ASSUME NEW s \in Schedule
      PROVE  /\ s.call \in J
             /\ s = Row(s.call)
             /\ s.scheduled_tt = s.call.arrival_seconds - FirstArrival(J, s.call)
             /\ s.scheduled_headway = Headway(J, s.call)
  <2>1. PICK c \in J : s = Row(c)
    BY <1>1
  <2>2. s.call = c
    BY <2>1
  <2> QED
    BY <2>1, <2>2
<1>4. \A c \in J : \E s \in Schedule : s.call = c
  <2> TAKE c \in J
  <2>1. Row(c) \in Schedule /\ Row(c).call = c
    BY <1>1
  <2> QED
    BY <2>1
<1>5. \A s, u \in Schedule : s.call = u.call => s = u
  BY <1>3
<1> QED
  BY <1>2, <1>3, <1>4, <1>5 DEF J

LEMMA TravelTimes == TimetableInv => TravelTimesElapse
<1> SUFFICES ASSUME TimetableInv, NEW s \in Schedule,
                    \A u \in OfTrip(s.call.trip_id) :
                      archive.stop_times[u.call.row].arrival_time # Absent
             PROVE  \E first \in OfTrip(s.call.trip_id) :
                      /\ first.scheduled_tt = 0
                      /\ s.scheduled_tt = archive.stop_times[s.call.row].arrival_time
                                            - archive.stop_times[first.call.row].arrival_time
                      /\ s.scheduled_tt >= 0
  BY DEF TravelTimesElapse
<1> DEFINE J == Joined(archive, Whole, serviceDate)
           id == s.call.trip_id
           mine == {e \in J : e.trip_id = id}
           times == {d.arrival_seconds : d \in mine}
<1>1. /\ IsFiniteSet(J)
      /\ \A c \in J : /\ c.arrival_seconds = HmsToSeconds(archive.stop_times[c.row].arrival_time)
                      /\ c.arrival_seconds \in Int
  BY ScheduleFacts, JoinedFacts
<1>2. /\ \A u \in Schedule : /\ u.call \in J
                            /\ u.scheduled_tt = u.call.arrival_seconds - FirstArrival(J, u.call)
      /\ \A c \in J : \E u \in Schedule : u.call = c
  BY ScheduleFacts
<1> HIDE DEF J
<1>3. IsFiniteSet(times) /\ times # {} /\ times \subseteq Int
  <2>1. IsFiniteSet(mine)
    BY <1>1, FS_Subset
  <2> DEFINE f == [d \in mine |-> d.arrival_seconds]
  <2>2. times = {f[d] : d \in DOMAIN f} /\ DOMAIN f = mine
    OBVIOUS
  <2>3. IsFiniteSet(times)
    <3> HIDE DEF f, times, mine
    <3> QED
      BY <2>1, <2>2, MadeFinite
  <2>4. s.call \in mine
    BY <1>2
  <2> QED
    BY <2>3, <2>4, <1>1
<1>4. Least(times) \in times /\ \A y \in times : Least(times) <= y
  <2> HIDE DEF times
  <2> QED
    BY <1>3, LeastIs
<1>5. \A c \in mine : FirstArrival(J, c) = Least(times)
  BY DEF FirstArrival
<1>6. PICK m \in mine : m.arrival_seconds = Least(times)
  BY <1>4
<1>7. PICK first \in Schedule : first.call = m
  BY <1>2, <1>6
<1>8. first \in OfTrip(id) /\ s \in OfTrip(id)
  BY <1>6, <1>7 DEF OfTrip
<1>9. s.call \in mine /\ first.call \in mine
  BY <1>2, <1>6, <1>7
<1>10. \A u \in OfTrip(id) :
         u.call.arrival_seconds = archive.stop_times[u.call.row].arrival_time
  <2> TAKE u \in OfTrip(id)
  <2>1. u \in Schedule /\ u.call \in J
    BY <1>2 DEF OfTrip
  <2> QED
    BY <2>1, <1>1 DEF HmsToSeconds
<1>11. /\ first.scheduled_tt = first.call.arrival_seconds - Least(times)
       /\ s.scheduled_tt = s.call.arrival_seconds - Least(times)
       /\ first.call.arrival_seconds = Least(times)
       /\ s.call.arrival_seconds \in Int /\ Least(times) \in Int
       /\ Least(times) <= s.call.arrival_seconds
  <2>1. s.call.arrival_seconds \in times
    BY <1>9
  <2> HIDE DEF times, mine
  <2> QED
    BY <2>1, <1>2, <1>3, <1>4, <1>5, <1>6, <1>7, <1>9
<1> HIDE DEF times, mine
<1> QED
  BY <1>8, <1>10, <1>11

\* Which of two names a display name resolves to.
LEMMA Names == TimetableInv => ShortNamesFirst
<1> DEFINE routes == archive.routes
           table == Routes(archive, Whole)
           index == RouteShortNames(archive, Whole)
           cells == Cells(table, "route_id", NameColumns)
           Key(p) == table[p[2]][NameColumns[p[1]]]
           Named(i, col, key) == routes[i].route_id # Absent /\ routes[i][col] = key
           FirstNamed(col, key) == CHOOSE i \in DOMAIN routes :
                                     /\ Named(i, col, key)
                                     /\ \A j \in 1..(i - 1) : ~Named(j, col, key)
           Known(col, key) == \E i \in DOMAIN routes : Named(i, col, key)
<1> SUFFICES ASSUME TimetableInv, NEW key \in DOMAIN index
             PROVE  index[key] = IF Known("route_short_name", key)
                                 THEN routes[FirstNamed("route_short_name", key)].route_id
                                 ELSE routes[FirstNamed("route_long_name", key)].route_id
  BY DEF ShortNamesFirst
<1>1. /\ DOMAIN routes = 1..Len(routes) /\ Len(routes) \in Nat
      /\ DOMAIN table = DOMAIN routes
      /\ \A i \in DOMAIN routes : table[i] = routes[i]
  <2>1. IsList(archive.routes)
    BY TimetableAssumption DEF TimetableInv
  <2>2. table = Restrict(routes, DOMAIN routes)
    BY Unscoped, TimetableAssumption
  <2> QED
    BY <2>1, <2>2, ListOf DEF Restrict
<1>2. /\ NameColumns[1] = "route_short_name" /\ NameColumns[2] = "route_long_name"
      /\ DOMAIN NameColumns = 1..2
  BY DEF NameColumns
<1> DEFINE mine == {p \in cells : Key(p) = key}
<1>3. key # Absent /\ mine # {} /\ index[key] = table[Earliest(mine)[2]].route_id
  <2>1. DOMAIN index = {Key(p) : p \in cells}
    BY DEF RouteShortNames, KeepFirst
  <2>2. index[key] = table[Earliest(mine)[2]]["route_id"]
    BY <2>1 DEF RouteShortNames, KeepFirst
  <2>3. \A p \in cells : Key(p) # Absent
    BY DEF Cells, Has
  <2> QED
    BY <2>1, <2>2, <2>3
<1>4. \A c \in 1..2, i \in DOMAIN routes : <<c, i>> \in mine <=> Named(i, NameColumns[c], key)
  <2> TAKE c \in 1..2, i \in DOMAIN routes
  <2>1. <<c, i>> \in mine <=> /\ table[i]["route_id"] # Absent
                            /\ table[i][NameColumns[c]] # Absent
                            /\ table[i][NameColumns[c]] = key
    BY <1>1, <1>2 DEF Cells, Has
  <2> QED
    BY <2>1, <1>1, <1>3
<1>5. \A p \in mine : p = <<p[1], p[2]>> /\ p[1] \in 1..2 /\ p[2] \in DOMAIN routes
  BY <1>1, <1>2 DEF Cells
<1> HIDE DEF mine, cells, table, routes
<1>6. ASSUME NEW c \in 1..2, \E i \in DOMAIN routes : Named(i, NameColumns[c], key),
             \A d \in 1..(c - 1) : ~\E i \in DOMAIN routes : Named(i, NameColumns[d], key)
      PROVE  index[key] = routes[FirstNamed(NameColumns[c], key)].route_id
  <2> DEFINE S == {i \in DOMAIN routes : Named(i, NameColumns[c], key)}
  <2>1. S \subseteq Nat /\ S # {}
    BY <1>1, <1>6
  <2>2. PICK i \in S : \A j \in S : i <= j
    <3> HIDE DEF S
    <3> QED
      BY <2>1, LeastOf
  <2>3. FirstNamed(NameColumns[c], key) = i
    <3>1. \A j \in DOMAIN routes :
            Named(j, NameColumns[c], key) /\ (\A k \in 1..(j - 1) : ~Named(k, NameColumns[c], key))
              <=> j = i
      <4> TAKE j \in DOMAIN routes
      <4>1. j \in Nat /\ i \in DOMAIN routes /\ i \in Nat
        BY <1>1
      <4>2. ASSUME Named(j, NameColumns[c], key), \A k \in 1..(j - 1) : ~Named(k, NameColumns[c], key)
            PROVE  j = i
        <5>1. i <= j /\ i \notin 1..(j - 1)
          BY <2>2, <4>2
        <5> QED
          BY <4>1, <5>1, <1>1
      <4>3. ASSUME j = i, NEW k \in 1..(j - 1), Named(k, NameColumns[c], key) PROVE FALSE
        <5>1. k \in S
          BY <4>1, <4>3, <1>1
        <5> QED
          BY <5>1, <2>2, <4>1, <4>3
      <4> QED
        BY <4>2, <4>3, <2>2
    <3> HIDE DEF Named
    <3> QED
      BY <3>1, <2>2
  <2>4. <<c, i>> \in mine
    BY <1>4, <2>2
  <2>5. \A p \in mine : NotAfter(<<c, i>>, p)
    <3> TAKE p \in mine
    <3>1. p = <<p[1], p[2]>> /\ p[1] \in 1..2 /\ p[2] \in DOMAIN routes
      BY <1>5
    <3>2. Named(p[2], NameColumns[p[1]], key)
      BY <3>1, <1>4
    <3>3. p[1] \notin 1..(c - 1)
      BY <3>1, <3>2, <1>6
    <3>4. p[1] = c => i <= p[2]
      BY <3>1, <3>2, <2>2
    <3> QED
      BY <3>1, <3>3, <3>4 DEF NotAfter
  <2>6. \A p \in mine : (\A q \in mine : NotAfter(p, q)) => p = <<c, i>>
    <3> SUFFICES ASSUME NEW p \in mine, \A q \in mine : NotAfter(p, q) PROVE p = <<c, i>>
      OBVIOUS
    <3>1. p = <<p[1], p[2]>> /\ p[1] \in 1..2 /\ p[2] \in DOMAIN routes
      BY <1>5
    <3>2. NotAfter(p, <<c, i>>) /\ NotAfter(<<c, i>>, p)
      BY <2>4, <2>5
    <3>3. p[2] \in Nat /\ i \in Nat
      BY <3>1, <2>1, <1>1
    <3>4. p[1] = c /\ p[2] = i
      BY <3>1, <3>2, <3>3 DEF NotAfter
    <3> QED
      BY <3>1, <3>4
  <2>7. Earliest(mine) = <<c, i>>
    BY <2>4, <2>5, <2>6 DEF Earliest
  <2>8. index[key] = table[i].route_id
    BY <2>7, <1>3
  <2> QED
    BY <2>2, <2>3, <2>8, <1>1
<1> HIDE DEF Named, FirstNamed, index
<1>7. CASE Known("route_short_name", key)
  <2>1. 1 \in 1..2 /\ (\E i \in DOMAIN routes : Named(i, NameColumns[1], key)) /\ 1..(1 - 1) = {}
    BY <1>2, <1>7
  <2>2. index[key] = routes[FirstNamed(NameColumns[1], key)].route_id
    BY <2>1, <1>6
  <2> QED
    BY <2>2, <1>2, <1>7
<1>8. CASE ~Known("route_short_name", key)
  <2>1. \A d \in 1..(2 - 1) : ~\E i \in DOMAIN routes : Named(i, NameColumns[d], key)
    BY <1>2, <1>8
  <2>2. PICK p \in mine : TRUE
    BY <1>3
  <2>3. p = <<p[1], p[2]>> /\ p[1] \in 1..2 /\ p[2] \in DOMAIN routes
    BY <1>5
  <2>4. Named(p[2], NameColumns[p[1]], key)
    BY <2>2, <2>3, <1>4
  <2>5. p[1] = 2
    BY <2>1, <2>3, <2>4
  <2>6. 2 \in 1..2 /\ \E i \in DOMAIN routes : Named(i, NameColumns[2], key)
    BY <2>3, <2>4, <2>5
  <2>7. index[key] = routes[FirstNamed(NameColumns[2], key)].route_id
    BY <2>1, <2>6, <1>6
  <2> QED
    BY <2>7, <1>2, <1>8
<1> QED
  BY <1>7, <1>8

\* The headways of a group, from its first arrival to its last.
LEMMA Spaced ==
  ASSUME NEW J, IsFiniteSet(J), NEW k,
         \A c \in J : c.arrival_seconds \in Int /\ c.row \in Nat,
         \A c, d \in J : c.row = d.row /\ HeadwayGroup(c) = HeadwayGroup(d) => c = d
  PROVE  LET G == {c \in J : HeadwayGroup(c) = k}
             before(c) == {d \in J : ArrivesBefore(d, c)}
         IN /\ IsFiniteSet(G)
            /\ G # {} => \E first \in G :
                 \A c \in G : /\ first.arrival_seconds <= c.arrival_seconds
                              /\ before(c) = {} <=> c = first
            /\ \A T \in SUBSET G : T # {} =>
                 \E first \in T : \A d \in T : first = d \/ ArrivesBefore(first, d)
            /\ \A c \in G : before(c) # {} =>
                 /\ Latest(before(c)) \in G /\ ArrivesBefore(Latest(before(c)), c)
                 /\ \A d \in G : ArrivesBefore(d, c) =>
                      d = Latest(before(c)) \/ ArrivesBefore(d, Latest(before(c)))
            /\ \A c, d \in G : c = d \/ ArrivesBefore(c, d) \/ ArrivesBefore(d, c)
            /\ \A c, d \in G : ArrivesBefore(c, d) => /\ c.arrival_seconds <= d.arrival_seconds
                                                      /\ ~ArrivesBefore(d, c)
<1> DEFINE G == {c \in J : HeadwayGroup(c) = k}
           before(c) == {d \in J : ArrivesBefore(d, c)}
           R == {p \in G \X G : ArrivesBefore(p[1], p[2])}
           Q == {p \in G \X G : ArrivesBefore(p[2], p[1])}
<1>1. IsFiniteSet(G)
  BY FS_Subset
<1>2. \A c, d \in G : /\ <<c, d>> \in R <=> ArrivesBefore(c, d)
                      /\ <<c, d>> \in Q <=> ArrivesBefore(d, c)
  OBVIOUS
<1>3. \A c, d \in G : /\ ArrivesBefore(c, d) => c.arrival_seconds <= d.arrival_seconds
                      /\ ArrivesBefore(c, d) => ~ArrivesBefore(d, c)
  BY DEF ArrivesBefore
<1>4. \A c, d \in G : c = d \/ ArrivesBefore(c, d) \/ ArrivesBefore(d, c)
  <2> TAKE c \in G, d \in G
  <2>1. /\ c.arrival_seconds \in Int /\ d.arrival_seconds \in Int
        /\ c.row \in Nat /\ d.row \in Nat
        /\ HeadwayGroup(c) = HeadwayGroup(d) /\ (c.row = d.row => c = d)
    OBVIOUS
  <2> QED
    BY <2>1 DEF ArrivesBefore
<1>5. \A c, d, e \in G : ArrivesBefore(c, d) /\ ArrivesBefore(d, e) => ArrivesBefore(c, e)
  <2> TAKE c \in G, d \in G, e \in G
  <2>1. /\ c.arrival_seconds \in Int /\ d.arrival_seconds \in Int /\ e.arrival_seconds \in Int
        /\ c.row \in Nat /\ d.row \in Nat /\ e.row \in Nat
        /\ HeadwayGroup(c) = k /\ HeadwayGroup(d) = k /\ HeadwayGroup(e) = k
    OBVIOUS
  <2> QED
    BY <2>1 DEF ArrivesBefore
<1>6. \A c \in G : before(c) \subseteq G /\ \A d \in G : d \in before(c) <=> ArrivesBefore(d, c)
  BY DEF ArrivesBefore
<1> HIDE DEF G, before, R, Q
<1>7. ASSUME NEW T \in SUBSET G, T # {}
      PROVE  /\ \E x \in T : \A y \in T : x = y \/ ArrivesBefore(x, y)
             /\ \E x \in T : \A y \in T : x = y \/ ArrivesBefore(y, x)
  <2>1. IsFiniteSet(T)
    BY <1>1, FS_Subset
  <2>2. \A c, d \in T : c \in G /\ d \in G
    OBVIOUS
  <2>3. Orders(R, T) /\ Orders(Q, T)
    BY <2>2, <1>2, <1>4, <1>5 DEF Orders
  <2>4. PICK x \in T : \A y \in T : x = y \/ <<x, y>> \in R
    BY <2>1, <2>3, <1>7, FirstInOrder
  <2>5. PICK z \in T : \A y \in T : z = y \/ <<z, y>> \in Q
    BY <2>1, <2>3, <1>7, FirstInOrder
  <2> QED
    BY <2>2, <2>4, <2>5, <1>2
<1>8. ASSUME NEW c \in G, before(c) # {}
      PROVE  /\ Latest(before(c)) \in G /\ ArrivesBefore(Latest(before(c)), c)
             /\ \A d \in G : ArrivesBefore(d, c) =>
                  d = Latest(before(c)) \/ ArrivesBefore(d, Latest(before(c)))
  <2>1. PICK x \in before(c) : \A y \in before(c) : x = y \/ ArrivesBefore(y, x)
    BY <1>6, <1>7, <1>8
  <2>2. \A y \in before(c) \ {x} : ArrivesBefore(y, x)
    BY <2>1
  <2>3. /\ Latest(before(c)) \in before(c)
        /\ \A d \in before(c) \ {Latest(before(c))} : ArrivesBefore(d, Latest(before(c)))
    BY <2>1, <2>2 DEF Latest
  <2> QED
    BY <2>3, <1>6
<1>9. ASSUME G # {}
      PROVE  \E first \in G : \A c \in G : /\ first.arrival_seconds <= c.arrival_seconds
                                           /\ before(c) = {} <=> c = first
  <2>1. PICK x \in G : \A y \in G : x = y \/ ArrivesBefore(x, y)
    BY <1>7, <1>9
  <2>2. \A c \in G : c.arrival_seconds \in Int
    BY DEF G
  <2>3. \A c \in G : x.arrival_seconds <= c.arrival_seconds
    <3> TAKE c \in G
    <3>1. x = c \/ ArrivesBefore(x, c)
      BY <2>1
    <3> QED
      BY <2>2, <3>1, <1>3
  <2>4. ~ArrivesBefore(x, x)
    BY <1>3
  <2>5. \A c \in G : before(c) = {} <=> c = x
    <3> TAKE c \in G
    <3>1. ASSUME c = x, NEW d \in before(c) PROVE FALSE
      <4>1. d \in G /\ ArrivesBefore(d, x)
        BY <3>1, <1>6
      <4>2. d = x \/ ArrivesBefore(x, d)
        BY <4>1, <2>1
      <4> QED
        BY <4>1, <4>2, <2>4, <1>3
    <3>2. ASSUME c # x PROVE x \in before(c)
      BY <3>2, <2>1, <1>6
    <3> QED
      BY <3>1, <3>2
  <2> QED
    BY <2>3, <2>5
<1>10. \A T \in SUBSET G : T # {} =>
         \E first \in T : \A d \in T : first = d \/ ArrivesBefore(first, d)
  BY <1>7
<1> QED
  BY <1>1, <1>3, <1>4, <1>8, <1>9, <1>10 DEF G, before

\* The calls of a day, and the rows of those of one group.
CallsOfDay(J) ==
  /\ IsFiniteSet(J)
  /\ \A c \in J : c.arrival_seconds \in Int /\ c.row \in Nat
  /\ \A c, d \in J : c.row = d.row /\ HeadwayGroup(c) = HeadwayGroup(d) => c = d

RowsOfGroup(J, k, group) ==
  /\ \A u \in group : /\ u.call \in J /\ HeadwayGroup(u.call) = k
                      /\ u.scheduled_headway = Headway(J, u.call)
  /\ \A c \in J : HeadwayGroup(c) = k => \E u \in group : u.call = c
  /\ \A u, v \in group : u.call = v.call => u = v
  /\ group # {}

AddUp(group, spaced) ==
  LET arrivals == {u.call.arrival_seconds : u \in group} IN
  /\ Total([u \in spaced |-> u.scheduled_headway]) = Greatest(arrivals) - Least(arrivals)
  /\ Cardinality(spaced) = Cardinality(group) - 1

\* The headways of a group lead from its first arrival to its last.
LEMMA Telescope ==
  ASSUME NEW J, CallsOfDay(J), NEW k, k[2] # Absent, NEW group, RowsOfGroup(J, k, group)
  PROVE  AddUp(group, {u \in group : u.scheduled_headway # Absent})
<1> DEFINE lo == Least({u.call.arrival_seconds : u \in group})
           hi == Greatest({u.call.arrival_seconds : u \in group})
<1>0. lo = Least({u.call.arrival_seconds : u \in group})
      /\ hi = Greatest({u.call.arrival_seconds : u \in group})
  OBVIOUS
<1> HIDE DEF lo, hi
<1> DEFINE G == {c \in J : HeadwayGroup(c) = k}
           before(c) == {d \in J : ArrivesBefore(d, c)}
           At(c) == c.arrival_seconds
           prev(c) == Latest(before(c))
           spaced == {u \in group : u.scheduled_headway # Absent}
           f == [u \in spaced |-> u.scheduled_headway]
<1>1. /\ IsFiniteSet(G)
      /\ G # {} => \E first \in G :
           \A c \in G : At(first) <= At(c) /\ (before(c) = {} <=> c = first)
      /\ \A T \in SUBSET G : T # {} =>
           \E first \in T : \A d \in T : first = d \/ ArrivesBefore(first, d)
      /\ \A c \in G : before(c) # {} =>
           /\ prev(c) \in G /\ ArrivesBefore(prev(c), c)
           /\ \A d \in G : ArrivesBefore(d, c) => d = prev(c) \/ ArrivesBefore(d, prev(c))
      /\ \A c, d \in G : c = d \/ ArrivesBefore(c, d) \/ ArrivesBefore(d, c)
      /\ \A c, d \in G : ArrivesBefore(c, d) => At(c) <= At(d) /\ ~ArrivesBefore(d, c)
  BY Spaced DEF CallsOfDay
<1>2. \A c \in G : At(c) \in Int /\ c.direction_id # Absent /\ HeadwayGroup(c) = k
  BY DEF HeadwayGroup, CallsOfDay
<1>3. \A c, d \in G : At(c) < At(d) => ArrivesBefore(c, d)
  BY DEF ArrivesBefore
<1>4. \A c \in G : Headway(J, c) = IF before(c) = {} THEN Absent ELSE At(c) - At(prev(c))
  <2> TAKE c \in G
  <2> QED
    BY <1>2 DEF Headway
<1>5. /\ \A u \in group : u.call \in G /\ u.scheduled_headway = Headway(J, u.call)
      /\ \A c \in G : \E u \in group : u.call = c
      /\ \A u, v \in group : u.call = v.call => u = v
      /\ group # {}
  BY DEF RowsOfGroup
<1>6. \A c, d \in G : ArrivesBefore(c, d) => before(d) # {}
  OBVIOUS
<1>7. {u.call.arrival_seconds : u \in group} = {At(c) : c \in G}
  <2>1. \A u \in group : u.call.arrival_seconds = At(u.call)
    OBVIOUS
  <2> HIDE DEF G, At
  <2> QED
    BY <1>5, <2>1
<1> HIDE DEF G, before, At, prev
<1> DEFINE arrivals == {At(c) : c \in G}
<1>8. /\ \E c \in G : At(c) = lo
      /\ \E c \in G : At(c) = hi
      /\ \A c \in G : lo <= At(c) /\ At(c) <= hi
      /\ lo \in Int /\ hi \in Int
  <2> DEFINE a == [c \in G |-> At(c)]
  <2>1. arrivals = {a[c] : c \in DOMAIN a} /\ DOMAIN a = G
    OBVIOUS
  <2>2. IsFiniteSet(arrivals)
    <3> HIDE DEF a, arrivals
    <3> QED
      BY <2>1, <1>1, MadeFinite
  <2>3. arrivals # {} /\ arrivals \subseteq Int
    BY <1>2, <1>5
  <2>4. lo = Least(arrivals) /\ hi = Greatest(arrivals)
    BY <1>0, <1>7
  <2>5. /\ lo \in arrivals /\ hi \in arrivals
        /\ \A y \in arrivals : lo <= y /\ y <= hi
    <3> HIDE DEF arrivals
    <3>1. /\ Least(arrivals) \in arrivals /\ \A y \in arrivals : Least(arrivals) <= y
          /\ Greatest(arrivals) \in arrivals /\ \A y \in arrivals : y <= Greatest(arrivals)
      BY <2>2, <2>3, LeastIs
    <3> QED
      BY <3>1, <2>4
  <2> QED
    BY <2>3, <2>5
<1> HIDE DEF arrivals
<1>9. PICK first \in G : \A c \in G : before(c) = {} <=> c = first
  <2>1. G # {}
    BY <1>8
  <2> QED
    BY <2>1, <1>1
<1>10. \A c \in G : before(c) # {} =>
         /\ At(prev(c)) \in Int /\ At(prev(c)) <= At(c)
         /\ At(c) - At(prev(c)) \in Nat
  <2> TAKE c \in G
  <2> SUFFICES ASSUME before(c) # {}
               PROVE  /\ At(prev(c)) \in Int /\ At(prev(c)) <= At(c)
                      /\ At(c) - At(prev(c)) \in Nat
    OBVIOUS
  <2>1. prev(c) \in G /\ At(prev(c)) <= At(c)
    BY <1>1
  <2> QED
    BY <2>1, <1>2
<1>11. \A u \in group : /\ u \in spaced <=> before(u.call) # {}
                        /\ u \in spaced => u.scheduled_headway = At(u.call) - At(prev(u.call))
  <2> TAKE u \in group
  <2>1. u.call \in G
    BY <1>5
  <2>2. before(u.call) = {} => u.scheduled_headway = Absent
    BY <2>1, <1>4, <1>5
  <2>3. before(u.call) # {} => /\ u.scheduled_headway = At(u.call) - At(prev(u.call))
                               /\ u.scheduled_headway \in Int
    BY <2>1, <1>4, <1>5, <1>10
  <2> QED
    BY <2>2, <2>3, AbsentAssumption
<1>12. /\ IsFiniteSet(group)
       /\ Cardinality(spaced) = Cardinality(group) - 1
       /\ IsFiniteSet(spaced)
  <2> DEFINE row == [c \in G |-> CHOOSE u \in group : u.call = c]
  <2>1. \A c \in G : row[c] \in group /\ row[c].call = c
    BY <1>5
  <2>2. row \in [G -> group]
    BY <2>1
  <2> HIDE DEF row
  <2>3. \A c, d \in G : row[c] = row[d] => c = d
    BY <2>1
  <2>4. \A u \in group : \E c \in G : row[c] = u
    <3> TAKE u \in group
    <3>1. u.call \in G
      BY <1>5
    <3>2. row[u.call] = u
      BY <3>1, <2>1, <1>5
    <3> QED
      BY <3>1, <3>2
  <2>5. IsFiniteSet(group)
    BY <1>1, <2>2, <2>3, <2>4, Paired
  <2>6. spaced = group \ {row[first]}
    <3>1. \A u \in group : u.call \in G
      BY <1>5
    <3>2. \A u \in group : before(u.call) = {} <=> u.call = first
      BY <3>1, <1>9
    <3>3. row[first] \in group /\ row[first].call = first
      BY <2>1
    <3>4. \A u \in group : u.call = first <=> u = row[first]
      BY <3>3, <1>5
    <3> QED
      BY <1>11, <3>2, <3>4
  <2>7. row[first] \in group
    BY <2>1
  <2> HIDE DEF spaced
  <2> QED
    BY <2>5, <2>6, <2>7, FS_RemoveElement
<1>13. \A u \in spaced : /\ u \in group /\ u.call \in G /\ before(u.call) # {}
                         /\ f[u] = At(u.call) - At(prev(u.call)) /\ f[u] \in Nat
  <2> TAKE u \in spaced
  <2>1. u \in group /\ u.call \in G
    BY <1>5
  <2> QED
    BY <2>1, <1>10, <1>11
<1>14. DOMAIN f = spaced
  OBVIOUS
<1> HIDE DEF spaced, f
<1> DEFINE H == Heaps(f)
           I == (lo + 1)..hi
           g == [p \in H |-> At(prev(p[1].call)) + p[2]]
<1>15. \A p \in H : /\ p = <<p[1], p[2]>> /\ p[1] \in spaced /\ p[2] \in 1..f[p[1]]
  BY <1>14, HeapsHold
<1>16. \A p \in H : /\ g[p] \in Int
                    /\ At(prev(p[1].call)) < g[p] /\ g[p] <= At(p[1].call)
                    /\ g[p] \in I
  <2> TAKE p \in H
  <2>1. p[1] \in spaced /\ p[2] \in 1..f[p[1]]
    BY <1>15
  <2>2. /\ p[1].call \in G /\ before(p[1].call) # {}
        /\ f[p[1]] = At(p[1].call) - At(prev(p[1].call)) /\ f[p[1]] \in Nat
    BY <2>1, <1>13
  <2>3. /\ At(prev(p[1].call)) \in Int /\ At(p[1].call) \in Int
        /\ lo <= At(prev(p[1].call)) /\ At(p[1].call) <= hi
    BY <2>2, <1>1, <1>2, <1>8, <1>10
  <2>4. g[p] = At(prev(p[1].call)) + p[2]
    OBVIOUS
  <2> QED
    BY <2>1, <2>2, <2>3, <2>4, <1>8
<1>17. g \in [H -> I]
  BY <1>16
<1>18. \A p \in H : g[p] = At(prev(p[1].call)) + p[2]
  OBVIOUS
<1> HIDE DEF g, H, I
<1>19. ASSUME NEW p \in H, NEW q \in H, g[p] = g[q] PROVE ~ArrivesBefore(p[1].call, q[1].call)
  <2> SUFFICES ASSUME ArrivesBefore(p[1].call, q[1].call) PROVE FALSE
    OBVIOUS
  <2>1. p[1].call \in G /\ q[1].call \in G /\ before(q[1].call) # {}
    BY <1>13, <1>15
  <2>2. /\ prev(q[1].call) \in G
        /\ p[1].call = prev(q[1].call) \/ ArrivesBefore(p[1].call, prev(q[1].call))
    BY <2>1, <1>1
  <2>3. At(p[1].call) <= At(prev(q[1].call))
    BY <2>1, <2>2, <1>1, <1>2
  <2>4. g[p] <= At(p[1].call) /\ At(prev(q[1].call)) < g[q] /\ g[p] \in Int /\ g[q] \in Int
    BY <1>16
  <2>5. At(p[1].call) \in Int /\ At(prev(q[1].call)) \in Int
    BY <2>1, <2>2, <1>2
  <2> QED
    BY <2>3, <2>4, <2>5, <1>19
<1>20. \A p, q \in H : g[p] = g[q] => p = q
  <2> SUFFICES ASSUME NEW p \in H, NEW q \in H, g[p] = g[q] PROVE p = q
    OBVIOUS
  <2>1. p[1] \in group /\ q[1] \in group /\ p[1].call \in G /\ q[1].call \in G
    BY <1>13, <1>15
  <2>2. p[1].call = q[1].call
    BY <2>1, <1>1, <1>19
  <2>3. p[1] = q[1]
    BY <2>1, <2>2, <1>5
  <2>4. /\ f[p[1]] \in Nat /\ p[2] \in 1..f[p[1]] /\ q[2] \in 1..f[p[1]]
        /\ before(p[1].call) # {}
    BY <2>3, <1>13, <1>15
  <2>5. At(prev(p[1].call)) \in Int
    BY <2>1, <2>4, <1>10
  <2>6. At(prev(p[1].call)) + p[2] = At(prev(p[1].call)) + q[2]
    BY <2>3, <1>18
  <2>7. p[2] = q[2]
    BY <2>4, <2>5, <2>6
  <2> QED
    BY <2>3, <2>7, <1>15
<1>21. \A x \in I : \E p \in H : g[p] = x
  <2> TAKE x \in I
  <2>1. x \in Int /\ lo < x /\ x <= hi
    BY <1>8 DEF I
  <2> DEFINE T == {c \in G : x <= At(c)}
  <2>2. T # {}
    BY <2>1, <1>8
  <2>3. PICK c \in T : \A d \in T : c = d \/ ArrivesBefore(c, d)
    <3> HIDE DEF T
    <3>1. T \in SUBSET G
      BY DEF T
    <3> QED
      BY <2>2, <3>1, <1>1
  <2>4. PICK w \in G : At(w) = lo
    BY <1>8
  <2>5. ArrivesBefore(w, c)
    BY <2>1, <2>4, <1>2, <1>3
  <2>6. before(c) # {} /\ c \in G /\ x <= At(c)
    BY <2>4, <2>5, <1>6
  <2>7. prev(c) \in G /\ ArrivesBefore(prev(c), c)
    BY <2>6, <1>1
  <2>8. At(prev(c)) < x
    <3> SUFFICES ASSUME ~(At(prev(c)) < x) PROVE FALSE
      OBVIOUS
    <3>1. prev(c) \in T
      BY <2>1, <2>7, <1>2
    <3>2. c = prev(c) \/ ArrivesBefore(c, prev(c))
      BY <3>1, <2>3
    <3> QED
      BY <3>2, <2>6, <2>7, <1>1
  <2>9. PICK u \in group : u.call = c
    BY <2>6, <1>5
  <2>10. u \in spaced
    BY <2>6, <2>9, <1>11
  <2>11. f[u] = At(c) - At(prev(c)) /\ At(c) \in Int /\ At(prev(c)) \in Int
    BY <2>6, <2>7, <2>9, <2>10, <1>2, <1>13
  <2>12. x - At(prev(c)) \in 1..f[u]
    BY <2>1, <2>6, <2>8, <2>11
  <2>13. <<u, x - At(prev(c))>> \in H
    BY <2>10, <2>12, <1>14, HeapsHold DEF H
  <2>14. g[<<u, x - At(prev(c))>>] = At(prev(c)) + (x - At(prev(c)))
    BY <2>9, <2>13, <1>18
  <2>15. At(prev(c)) + (x - At(prev(c))) = x
    BY <2>1, <2>11
  <2> QED
    BY <2>13, <2>14, <2>15
<1>22. IsFiniteSet(H)
  BY <1>12, <1>13, <1>14, HeapsFinite DEF H
<1>23. Cardinality(I) = Cardinality(H)
  BY <1>17, <1>20, <1>21, <1>22, Paired
<1>24. Cardinality(I) = hi - lo
  <2>1. lo <= hi
    BY <1>2, <1>8
  <2>2. lo + 1 \in Int /\ hi \in Int /\ (lo + 1 > hi => hi - lo = 0) /\ hi - (lo + 1) + 1 = hi - lo
    BY <2>1, <1>8
  <2> QED
    BY <2>2, FS_Interval DEF I
<1> QED
  BY <1>0, <1>12, <1>23, <1>24 DEF Total, H, f, spaced, AddUp

LEMMA Headways == TimetableInv => HeadwaysTelescope
<1> DEFINE J == Joined(archive, Whole, serviceDate)
<1> SUFFICES ASSUME TimetableInv, NEW s \in Schedule, s.call.direction_id # Absent
             PROVE  LET group == {u \in Schedule : /\ u.call.route_id = s.call.route_id
                                                   /\ u.call.stop_id = s.call.stop_id
                                                   /\ u.call.direction_id = s.call.direction_id}
                        arrivals == {u.call.arrival_seconds : u \in group}
                        spaced == {u \in group : u.scheduled_headway # Absent}
                        sum == Total([u \in spaced |-> u.scheduled_headway])
                    IN sum = Greatest(arrivals) - Least(arrivals)
                         /\ Cardinality(spaced) = Cardinality(group) - 1
  BY DEF HeadwaysTelescope
<1> DEFINE group == {u \in Schedule : /\ u.call.route_id = s.call.route_id
                                      /\ u.call.stop_id = s.call.stop_id
                                      /\ u.call.direction_id = s.call.direction_id}
           k == HeadwayGroup(s.call)
<1>1. /\ IsFiniteSet(J)
      /\ \A c \in J : c.arrival_seconds \in Int /\ c.row \in Nat
      /\ \A c, d \in J : c.row = d.row /\ HeadwayGroup(c) = HeadwayGroup(d) => c = d
  BY ScheduleFacts, JoinedFacts
<1>2. /\ \A u \in Schedule : u.call \in J /\ u.scheduled_headway = Headway(J, u.call)
      /\ \A c \in J : \E u \in Schedule : u.call = c
      /\ \A u, v \in Schedule : u.call = v.call => u = v
  BY ScheduleFacts
<1>3. \A u \in Schedule : u \in group <=> HeadwayGroup(u.call) = k
  BY DEF HeadwayGroup
<1>4. k[2] # Absent
  BY DEF HeadwayGroup
<1>5. s \in group
  OBVIOUS
<1>6. \A u \in group : u \in Schedule
  OBVIOUS
<1> DEFINE spaced == {u \in group : u.scheduled_headway # Absent}
<1>7. AddUp(group, spaced)
  <2> HIDE DEF J, group, k
  <2>1. RowsOfGroup(J, k, group)
    BY <1>2, <1>3, <1>5, <1>6 DEF RowsOfGroup
  <2>2. CallsOfDay(J)
    BY <1>1 DEF CallsOfDay
  <2> QED
    BY <1>4, <2>1, <2>2, Telescope
<1> QED
  BY <1>7 DEF AddUp

\* For any archives and days, the timetable means what the archive says.
LEMMA TimetableKept ==
  TimetableSpec => [](TravelTimesElapse /\ HeadwaysTelescope /\ ShortNamesFirst)
<1>1. TimetableInit => TimetableInv
  BY DEF TimetableInit, TimetableInv
<1>2. TimetableInv /\ [TimetableNext]_timetableVars => TimetableInv'
  BY DEF TimetableInv, TimetableNext, AskDay, timetableVars
<1>3. TimetableInv => TravelTimesElapse /\ HeadwaysTelescope /\ ShortNamesFirst
  BY TravelTimes, Headways, Names
<1> QED
  BY <1>1, <1>2, <1>3, PTL DEF TimetableSpec

-----------------------------------------------------------------------------
(* MARTA's day: cutting a list.                                            *)

\* The n-th piece is what is from place e[n] to before place e[n+1].
CutInto(list, starts, pieces, e) ==
  LET l == Len(pieces) IN
  /\ e \in [1..(l + 1) -> 1..(Len(list) + 1)]
  /\ e[1] = 1 /\ e[l + 1] = Len(list) + 1
  /\ \A n \in 1..l : /\ e[n] < e[n + 1] /\ e[n] \in starts
                     /\ pieces[n] = SubSeq(list, e[n], e[n + 1] - 1)
                     /\ \A k \in (e[n] + 1)..(e[n + 1] - 1) : k \notin starts

\* Each piece starts at a place and goes on to the next.
LEMMA CutPlaces ==
  ASSUME NEW S, NEW list \in Seq(S), NEW starts, starts \subseteq DOMAIN list,
         list # <<>> => 1 \in starts
  PROVE  /\ CutAt(list, starts) \in Seq(Seq(S))
         /\ \E e : CutInto(list, starts, CutAt(list, starts), e)
<1> DEFINE m == Len(list)
           EndOf(i) == CHOOSE j \in i..m : /\ j = m \/ j + 1 \in starts
                                           /\ \A k \in (i + 1)..j : k \notin starts
           from == [i \in 1..m |-> SubSeq(list, i, EndOf(i))]
           pieces == CutAt(list, starts)
<1>1. m \in Nat /\ DOMAIN list = 1..m /\ (m = 0 <=> list = <<>>)
  OBVIOUS
<1>2. pieces = ItemsAt(from, starts)
  BY <1>1 DEF CutAt
<1> HIDE DEF m
<1>3. \A i \in 1..m : /\ EndOf(i) \in i..m
                      /\ EndOf(i) = m \/ EndOf(i) + 1 \in starts
                      /\ \A k \in (i + 1)..EndOf(i) : k \notin starts
  <2> TAKE i \in 1..m
  <2> DEFINE T == {j \in i..m : j = m \/ j + 1 \in starts}
  <2>1. T \subseteq Nat /\ T # {}
    BY <1>1
  <2>2. PICK j \in T : \A k \in T : j <= k
    <3> HIDE DEF T
    <3> QED
      BY <2>1, LeastOf
  <2>3. \A k \in (i + 1)..j : k \notin starts
    <3> SUFFICES ASSUME NEW k \in (i + 1)..j, k \in starts PROVE FALSE
      OBVIOUS
    <3>1. k - 1 \in i..m /\ (k - 1) + 1 = k
      BY <1>1
    <3>2. k - 1 \in T
      BY <3>1
    <3> QED
      BY <3>2, <2>2, <1>1
  <2> QED
    BY <2>2, <2>3
<1> HIDE DEF EndOf
<1>4. \A i \in 1..m : SubSeq(list, i, EndOf(i)) \in Seq(S)
  <2> TAKE i \in 1..m
  <2>1. i \in 1..(m + 1) /\ EndOf(i) + 1 \in i..(m + 1) /\ (EndOf(i) + 1) - 1 = EndOf(i)
    BY <1>1, <1>3
  <2> QED
    BY <2>1, PartIs DEF m
<1>5. from \in Seq(Seq(S)) /\ Len(from) = m /\ DOMAIN from = 1..m
  BY <1>1, <1>4
<1>6. \A i \in 1..m : from[i] = SubSeq(list, i, EndOf(i))
  OBVIOUS
<1> HIDE DEF from
<1>7. PICK d : pieces \in Seq(Seq(S)) /\ Enumerates(d, from, starts, pieces)
  BY <1>2, <1>5, KeptByPlace
<1> HIDE DEF pieces
<1> DEFINE l == Len(pieces)
           e == [n \in 1..(l + 1) |-> IF n = l + 1 THEN m + 1 ELSE d[n]]
<1>8. /\ l \in Nat
      /\ \A n \in 1..l : d[n] \in starts /\ d[n] \in 1..m
      /\ \A p \in starts : /\ d[1] <= p /\ p <= d[l]
                           /\ \A n \in 1..(l - 1) : p <= d[n] \/ d[n + 1] <= p
      /\ \A n \in 1..(l - 1) : d[n] < d[n + 1]
      /\ starts # {} <=> l > 0
  <2>1. starts \cap DOMAIN from = starts
    BY <1>1, <1>5
  <2>2. /\ Len(pieces) \in Nat
        /\ \A n \in 1..Len(pieces) : d[n] \in starts /\ d[n] \in 1..Len(from)
        /\ (starts \cap DOMAIN from # {}) <=> Len(pieces) > 0
        /\ \A p \in starts \cap DOMAIN from :
             /\ d[1] <= p /\ p <= d[Len(pieces)]
             /\ \A n \in 1..(Len(pieces) - 1) : p <= d[n] \/ d[n + 1] <= p
        /\ \A n \in 1..(Len(pieces) - 1) : d[n] < d[n + 1]
    BY <1>5, <1>7, PlacesInOrder
  <2> QED
    BY <2>1, <2>2, <1>5
<1>9. \A n \in 1..l : pieces[n] = SubSeq(list, d[n], EndOf(d[n]))
  <2> TAKE n \in 1..l
  <2>1. pieces[n] = from[d[n]]
    BY <1>7 DEF Enumerates
  <2> QED
    BY <2>1, <1>6, <1>8
<1>10. /\ l + 1 \in 1..(l + 1) /\ e[l + 1] = m + 1
       /\ \A n \in 1..l : n \in 1..(l + 1) /\ n # l + 1 /\ e[n] = d[n]
  BY <1>8
<1>11. e \in [1..(l + 1) -> 1..(m + 1)]
  <2>1. \A n \in 1..(l + 1) : e[n] \in 1..(m + 1)
    <3> TAKE n \in 1..(l + 1)
    <3>1. n \in 1..l \/ n = l + 1
      BY <1>8
    <3> QED
      BY <3>1, <1>1, <1>8
  <2> QED
    BY <2>1
<1> HIDE DEF e, l
<1>12. e[1] = 1
  <2>1. CASE m = 0
    <3>1. l = 0
      BY <2>1, <1>1, <1>8
    <3> QED
      BY <3>1, <2>1, <1>10
  <2>2. CASE m # 0
    <3>1. 1 \in starts
      BY <2>2, <1>1
    <3>2. 1 \in 1..l /\ d[1] <= 1
      BY <3>1, <1>8
    <3>3. d[1] \in 1..m
      BY <3>2, <1>8
    <3> QED
      BY <3>2, <3>3, <1>1, <1>10
  <2> QED
    BY <2>1, <2>2
<1>13. ASSUME NEW n \in 1..l
       PROVE  /\ e[n] < e[n + 1] /\ e[n] \in starts
              /\ pieces[n] = SubSeq(list, e[n], e[n + 1] - 1)
              /\ \A k \in (e[n] + 1)..(e[n + 1] - 1) : k \notin starts
  <2>1. /\ d[n] \in 1..m /\ d[n] \in starts /\ e[n] = d[n]
        /\ EndOf(d[n]) \in d[n]..m
        /\ EndOf(d[n]) = m \/ EndOf(d[n]) + 1 \in starts
        /\ \A k \in (d[n] + 1)..EndOf(d[n]) : k \notin starts
    BY <1>3, <1>8, <1>10
  <2>2. e[n + 1] = EndOf(d[n]) + 1
    <3>1. CASE n = l
      <4>1. \A p \in starts : p <= d[n]
        BY <3>1, <1>8
      <4>2. EndOf(d[n]) + 1 \notin starts
        BY <4>1, <2>1, <1>1
      <4> QED
        BY <3>1, <4>2, <2>1, <1>10
    <3>2. CASE n # l
      <4>1. n \in 1..(l - 1) /\ n + 1 \in 1..l
        BY <3>2, <1>8
      <4>2. /\ d[n] < d[n + 1] /\ d[n + 1] \in starts /\ d[n + 1] \in 1..m
            /\ \A p \in starts : p <= d[n] \/ d[n + 1] <= p
        BY <4>1, <1>8
      <4>3. d[n + 1] \notin (d[n] + 1)..EndOf(d[n])
        BY <4>2, <2>1
      <4>4. EndOf(d[n]) + 1 <= d[n + 1]
        BY <4>2, <4>3, <2>1, <1>1
      <4>5. EndOf(d[n]) # m
        BY <4>4, <4>2, <2>1, <1>1
      <4>6. d[n + 1] <= EndOf(d[n]) + 1
        BY <4>2, <4>5, <2>1, <1>1
      <4>7. e[n + 1] = d[n + 1]
        BY <4>1, <1>10
      <4> QED
        BY <4>2, <4>4, <4>6, <4>7, <2>1, <1>1
    <3> QED
      BY <3>1, <3>2
  <2>3. e[n + 1] - 1 = EndOf(d[n])
    BY <2>1, <2>2, <1>1
  <2> QED
    BY <2>1, <2>2, <2>3, <1>1, <1>9
<1>14. CutInto(list, starts, pieces, e)
  BY <1>10, <1>11, <1>12, <1>13 DEF CutInto, l, m
<1> QED
  BY <1>7, <1>14 DEF pieces

\* The pieces put together again are the list.
LEMMA CutWhole ==
  ASSUME NEW S, NEW list \in Seq(S), NEW starts, starts \subseteq DOMAIN list,
         list # <<>> => 1 \in starts
  PROVE  FlattenSeq(CutAt(list, starts)) = list
<1> DEFINE m == Len(list)
           pieces == CutAt(list, starts)
           l == Len(pieces)
<1>1. m \in Nat /\ DOMAIN list = 1..m /\ \A i \in 1..m : list[i] \in S
  OBVIOUS
<1>2. pieces \in Seq(Seq(S)) /\ \E e : CutInto(list, starts, pieces, e)
  BY CutPlaces
<1>3. PICK e : CutInto(list, starts, pieces, e)
  BY <1>2
<1>4. l \in Nat
  BY <1>2
<1>5. PICK f : /\ f[0] = <<>>
               /\ \A i \in 1..l : f[i] = f[i - 1] \o pieces[i]
               /\ FlattenSeq(pieces) = f[l]
  BY <1>2, Flattened
<1> HIDE DEF pieces
<1>6. /\ e \in [1..(l + 1) -> 1..(m + 1)]
      /\ e[1] = 1 /\ e[l + 1] = m + 1
      /\ \A n \in 1..l : e[n] < e[n + 1] /\ pieces[n] = SubSeq(list, e[n], e[n + 1] - 1)
  BY <1>3 DEF CutInto
<1> HIDE DEF l, m
<1> DEFINE Good == {n \in Nat : n <= l => f[n] = [i \in 1..(e[n + 1] - 1) |-> list[i]]}
<1>7. 0 \in Good
  <2>1. 1..(e[0 + 1] - 1) = {}
    BY <1>6
  <2>2. f[0] = [i \in 1..(e[0 + 1] - 1) |-> list[i]]
    BY <1>5, <2>1
  <2> QED
    BY <2>2
<1>8. ASSUME NEW n \in Nat, n \in Good PROVE n + 1 \in Good
  <2> SUFFICES ASSUME n + 1 <= l PROVE f[n + 1] = [i \in 1..(e[n + 2] - 1) |-> list[i]]
    OBVIOUS
  <2> DEFINE a == e[n + 1]
             b == e[n + 2]
             s == [i \in 1..(a - 1) |-> list[i]]
             t == SubSeq(list, a, b - 1)
             u == [i \in 1..(b - 1) |-> list[i]]
  <2>1. /\ n + 1 \in 1..l /\ (n + 1) - 1 = n /\ (n + 1) + 1 = n + 2
        /\ n + 1 \in 1..(l + 1) /\ n + 2 \in 1..(l + 1) /\ n <= l
    BY <1>4
  <2>2. a \in 1..(m + 1) /\ b \in 1..(m + 1) /\ a < b
    BY <2>1, <1>6
  <2>3. f[n + 1] = s \o t
    <3>1. f[n + 1] = f[n] \o pieces[n + 1]
      BY <2>1, <1>5
    <3>2. pieces[n + 1] = t
      BY <2>1, <1>6
    <3>3. f[n] = s
      BY <2>1, <1>8
    <3> QED
      BY <3>1, <3>2, <3>3
  <2> HIDE DEF a, b
  <2>4. b \in a..(m + 1)
    BY <2>2, <1>1
  <2>5. /\ t \in Seq(S) /\ Len(t) = b - a
        /\ \A i \in 1..(b - a) : t[i] = list[a + i - 1]
    BY <2>2, <2>4, PartIs DEF m
  <2>6. s \in Seq(S) /\ Len(s) = a - 1 /\ u \in Seq(S) /\ Len(u) = b - 1
    <3>1. a - 1 \in Nat /\ b - 1 \in Nat /\ \A i \in 1..(a - 1) : i \in 1..m
      BY <2>2, <1>1
    <3>2. \A i \in 1..(b - 1) : i \in 1..m
      BY <2>2, <1>1
    <3> QED
      BY <3>1, <3>2, <1>1
  <2>7. \A i \in 1..(a - 1) : s[i] = list[i]
    OBVIOUS
  <2>8. \A i \in 1..(b - 1) : u[i] = list[i]
    OBVIOUS
  <2> HIDE DEF s, t, u
  <2>9. /\ s \o t \in Seq(S) /\ Len(s \o t) = b - 1
        /\ \A i \in 1..(b - 1) : (s \o t)[i] = IF i <= a - 1 THEN s[i] ELSE t[i - (a - 1)]
    <3>1. /\ s \o t \in Seq(S) /\ Len(s \o t) = Len(s) + Len(t)
          /\ \A i \in 1..(Len(s) + Len(t)) :
               (s \o t)[i] = IF i <= Len(s) THEN s[i] ELSE t[i - Len(s)]
      BY <2>5, <2>6, ConcatProperties
    <3>2. Len(s) + Len(t) = b - 1
      BY <2>2, <2>5, <2>6, <1>1
    <3> QED
      BY <3>1, <3>2, <2>6
  <2>10. \A i \in 1..(b - 1) : (s \o t)[i] = u[i]
    <3> TAKE i \in 1..(b - 1)
    <3>1. CASE i <= a - 1
      <4>1. i \in 1..(a - 1) /\ (s \o t)[i] = s[i]
        BY <3>1, <2>2, <2>9, <1>1
      <4> QED
        BY <4>1, <2>7, <2>8
    <3>2. CASE a - 1 < i
      <4>1. i - (a - 1) \in 1..(b - a) /\ a + (i - (a - 1)) - 1 = i
        BY <3>2, <2>2, <1>1
      <4>2. (s \o t)[i] = t[i - (a - 1)]
        <5>1. ~(i <= a - 1)
          BY <3>2, <2>2, <1>1
        <5> QED
          BY <5>1, <2>9
      <4> QED
        BY <4>1, <4>2, <2>5, <2>8
    <3>3. i <= a - 1 \/ a - 1 < i
      BY <2>2, <1>1
    <3> QED
      BY <3>1, <3>2, <3>3
  <2>11. s \o t = u
    <3>1. /\ s \o t = [i \in 1..(b - 1) |-> (s \o t)[i]]
          /\ u = [i \in 1..(b - 1) |-> u[i]]
      <4>1. \A q \in Seq(S) : q = [i \in 1..Len(q) |-> q[i]]
        OBVIOUS
      <4> QED
        BY <4>1, <2>6, <2>9
    <3> QED
      BY <3>1, <2>10
  <2> QED
    BY <2>3, <2>11 DEF u, b
<1>9. Nat \subseteq Good
  <2> HIDE DEF Good
  <2> QED
    BY <1>7, <1>8, Induction
<1>10. f[l] = [i \in 1..(e[l + 1] - 1) |-> list[i]]
  BY <1>4, <1>9
<1>11. e[l + 1] - 1 = m
  BY <1>1, <1>6
<1>12. f[l] = [i \in 1..m |-> list[i]]
  BY <1>10, <1>11
<1>13. list = [i \in 1..m |-> list[i]]
  BY <1>1
<1> QED
  BY <1>5, <1>12, <1>13 DEF pieces

\* The piece is what the list has from place a to before place b.
IsPiece(S, list, a, b, piece) ==
  /\ a \in 1..Len(list) /\ b \in 1..(Len(list) + 1) /\ a < b
  /\ piece \in Seq(S)
  /\ Len(piece) = b - a /\ DOMAIN piece = 1..(b - a)
  /\ \A i \in 1..(b - a) : piece[i] = list[a + i - 1]
  /\ piece # <<>>

\* What is in a piece.
LEMMA PieceOf ==
  ASSUME NEW S, NEW list \in Seq(S), NEW starts, NEW pieces, NEW e,
         CutInto(list, starts, pieces, e), Len(pieces) \in Nat, NEW n \in 1..Len(pieces)
  PROVE  IsPiece(S, list, e[n], e[n + 1], pieces[n])
<1>1. /\ e \in [1..(Len(pieces) + 1) -> 1..(Len(list) + 1)]
      /\ e[n] < e[n + 1] /\ pieces[n] = SubSeq(list, e[n], e[n + 1] - 1)
  BY DEF CutInto
<1>2. n \in 1..(Len(pieces) + 1) /\ n + 1 \in 1..(Len(pieces) + 1) /\ Len(list) \in Nat
  OBVIOUS
<1>3. e[n] \in 1..(Len(list) + 1) /\ e[n + 1] \in 1..(Len(list) + 1)
  BY <1>1, <1>2
<1>4. e[n] \in 1..Len(list) /\ e[n + 1] \in e[n]..(Len(list) + 1)
  BY <1>1, <1>2, <1>3
<1> DEFINE a == e[n]
           b == e[n + 1]
<1>5. a \in 1..(Len(list) + 1) /\ b \in a..(Len(list) + 1) /\ pieces[n] = SubSeq(list, a, b - 1)
  BY <1>1, <1>3, <1>4
<1> HIDE DEF a, b
<1>6. /\ pieces[n] \in Seq(S) /\ Len(pieces[n]) = b - a /\ DOMAIN pieces[n] = 1..(b - a)
      /\ \A i \in 1..(b - a) : pieces[n][i] = list[a + i - 1]
  BY <1>5, PartIs
<1>7. pieces[n] # <<>>
  <2>1. a < b
    BY <1>1 DEF a, b
  <2>2. Len(pieces[n]) # 0
    BY <2>1, <1>2, <1>5, <1>6
  <2> QED
    BY <2>2
<1> QED
  BY <1>1, <1>3, <1>4, <1>6, <1>7 DEF a, b, IsPiece

-----------------------------------------------------------------------------
(* MARTA's day: approaches, arrivals and trips.                            *)

\* The invariant: countdowns of known groups.
MartaInv ==
  /\ IsList(predictions)
  /\ \A p \in ToSet(predictions) :
       p.key \in ToSet(MartaKeys) /\ p.next_arr \in Int /\ p.waiting \in Int

LEMMA LowestIs ==
  ASSUME NEW S, NEW a \in Seq(S), a # <<>>, \A i \in DOMAIN a : a[i].waiting \in Int
  PROVE  /\ Lowest(a) \in ToSet(a)
         /\ \A i \in DOMAIN a : Lowest(a).waiting <= a[i].waiting
<1> DEFINE W == {a[i].waiting : i \in DOMAIN a}
           P == {i \in DOMAIN a : a[i].waiting = Least(W)}
           IsLowest(i) == /\ \A j \in DOMAIN a : a[i].waiting <= a[j].waiting
                          /\ \A j \in 1..(i - 1) : a[j].waiting > a[i].waiting
<1>1. Len(a) \in Nat /\ DOMAIN a = 1..Len(a) /\ 1 \in DOMAIN a
  BY EmptySeq
<1>2. Least(W) \in W /\ \A w \in W : Least(W) <= w
  <2> DEFINE f == [i \in DOMAIN a |-> a[i].waiting]
  <2>1. W = {f[i] : i \in DOMAIN f} /\ IsFiniteSet(DOMAIN f)
    BY <1>1, FS_Interval
  <2>2. IsFiniteSet(W)
    <3> HIDE DEF f, W
    <3> QED
      BY <2>1, MadeFinite
  <2>3. W # {} /\ W \subseteq Int
    BY <1>1
  <2> HIDE DEF W
  <2> QED
    BY <2>2, <2>3, LeastIs
<1>3. P # {} /\ P \subseteq Nat
  <2>1. PICK i \in DOMAIN a : a[i].waiting = Least(W)
    BY <1>2
  <2>2. i \in P /\ P \subseteq DOMAIN a
    BY <2>1
  <2> HIDE DEF P
  <2> QED
    BY <2>2, <1>1
<1>4. PICK i \in P : \A j \in P : i <= j
  <2> HIDE DEF P
  <2> QED
    BY <1>3, LeastOf
<1>5. i \in DOMAIN a /\ i \in Nat /\ a[i].waiting = Least(W)
  BY <1>3, <1>4
<1>6. \A j \in DOMAIN a : a[i].waiting <= a[j].waiting
  BY <1>2, <1>5
<1>7. \A j \in 1..(i - 1) : a[j].waiting > a[i].waiting
  <2> TAKE j \in 1..(i - 1)
  <2>1. j \in DOMAIN a /\ ~(i <= j)
    BY <1>1, <1>5
  <2>2. a[j].waiting # Least(W)
    BY <2>1, <1>4
  <2>3. a[i].waiting <= a[j].waiting /\ a[i].waiting \in Int /\ a[j].waiting \in Int
    BY <2>1, <1>5, <1>6
  <2> QED
    BY <2>2, <2>3, <1>5
<1>8. \E x \in DOMAIN a : IsLowest(x)
  BY <1>5, <1>6, <1>7
<1> DEFINE c == CHOOSE x \in DOMAIN a : IsLowest(x)
<1>9. c \in DOMAIN a /\ IsLowest(c)
  <2> HIDE DEF IsLowest
  <2> QED
    BY <1>8
<1>10. Lowest(a) = a[c]
  BY DEF Lowest
<1> HIDE DEF c
<1> QED
  BY <1>9, <1>10 DEF ToSet

\* The arrivals of a group.
LEMMA GroupArrives ==
  ASSUME MartaInv, NEW key
  PROVE  /\ IsList(ApproachesInGroup(key))
         /\ \A r \in ToSet(ApproachesInGroup(key)) : r.key = key /\ r.arrival \in Int
         /\ \A p \in ToSet(predictions) :
              p.key = key /\ p.waiting <= MaxWait
                => \E r \in ToSet(ApproachesInGroup(key)) : r.last_waiting <= p.waiting
<1> DEFINE S == ToSet(predictions)
           places == {i \in DOMAIN predictions : predictions[i].key = key}
           g == Group(key)
           as == Approaches(g)
           Arrival(a) == LET p == Lowest(a)
                         IN [key |-> key, arrival |-> p.next_arr, last_waiting |-> p.waiting]
           made == [n \in DOMAIN as |-> Arrival(as[n])]
           kept == {n \in DOMAIN as : Lowest(as[n]).waiting <= MaxWait}
<1>1. predictions \in Seq(S) /\ \A p \in S : p.next_arr \in Int /\ p.waiting \in Int
  BY DEF MartaInv, IsList
<1>2. g \in Seq(S) /\ ToSet(g) = {predictions[i] : i \in places \cap DOMAIN predictions}
  BY <1>1, KeptLines DEF Group
<1>3. /\ as \in Seq(Seq(S))
      /\ FlattenSeq(as) = g
      /\ \A n \in DOMAIN as : as[n] # <<>>
  <2>1. Opening(g) \subseteq DOMAIN g /\ (g # <<>> => 1 \in Opening(g))
    <3>1. g # <<>> => 1 \in DOMAIN g
      BY <1>2, EmptySeq
    <3> QED
      BY <3>1 DEF Opening
  <2>2. as = CutAt(g, Opening(g))
    BY DEF Approaches
  <2>3. as \in Seq(Seq(S)) /\ \E e : CutInto(g, Opening(g), as, e)
    <3> HIDE DEF g, as, S
    <3> QED
      BY <1>2, <2>1, <2>2, CutPlaces
  <2>4. FlattenSeq(as) = g
    <3> HIDE DEF g, as, S
    <3> QED
      BY <1>2, <2>1, <2>2, CutWhole
  <2>5. PICK e : CutInto(g, Opening(g), as, e)
    BY <2>3
  <2>6. \A n \in DOMAIN as : as[n] # <<>>
    <3> TAKE n \in DOMAIN as
    <3>1. n \in 1..Len(as) /\ Len(as) \in Nat
      BY <2>3
    <3>2. g \in Seq(S)
      BY <1>2
    <3> HIDE DEF g, as, S
    <3> DEFINE o == Opening(g)
    <3>3. CutInto(g, o, as, e)
      BY <2>5
    <3> HIDE DEF o
    <3> QED
      <4>1. IsPiece(S, g, e[n], e[n + 1], as[n])
        BY <3>1, <3>2, <3>3, PieceOf
      <4> QED
        BY <4>1 DEF IsPiece
  <2> QED
    BY <2>3, <2>4, <2>6
<1> HIDE DEF g, as, S
<1>4. /\ Len(as) \in Nat /\ DOMAIN as = 1..Len(as)
      /\ \A n \in DOMAIN as : as[n] \in Seq(S)
  BY <1>3, Items
<1>5. \A n \in DOMAIN as : /\ Lowest(as[n]) \in S
                           /\ \A i \in DOMAIN as[n] : Lowest(as[n]).waiting <= as[n][i].waiting
  <2> TAKE n \in DOMAIN as
  <2>1. as[n] \in Seq(S) /\ as[n] # <<>>
    BY <1>3, <1>4
  <2>2. \A i \in DOMAIN as[n] : as[n][i] \in S
    BY <2>1, Items
  <2>3. \A i \in DOMAIN as[n] : as[n][i].waiting \in Int
    BY <2>2, <1>1
  <2>4. /\ Lowest(as[n]) \in ToSet(as[n])
        /\ \A i \in DOMAIN as[n] : Lowest(as[n]).waiting <= as[n][i].waiting
    BY <2>1, <2>3, LowestIs
  <2>5. ToSet(as[n]) \subseteq S
    BY <2>2 DEF ToSet
  <2> QED
    BY <2>4, <2>5
<1> DEFINE R == {Arrival(as[n]) : n \in DOMAIN as}
<1>6. made \in Seq(R) /\ DOMAIN made = DOMAIN as /\ \A n \in DOMAIN as : made[n] = Arrival(as[n])
  <2>1. DOMAIN made = DOMAIN as /\ \A n \in DOMAIN as : made[n] = Arrival(as[n])
    OBVIOUS
  <2>2. \A n \in 1..Len(as) : made[n] \in R
    BY <1>4, <2>1
  <2>3. made = [n \in 1..Len(as) |-> made[n]]
    BY <1>4
  <2> HIDE DEF made, R
  <2> DEFINE l == Len(as)
  <2>4. l \in Nat /\ made = [n \in 1..l |-> made[n]] /\ \A n \in 1..l : made[n] \in R
    BY <1>4, <2>2, <2>3
  <2> HIDE DEF l
  <2>5. made \in Seq(R)
    BY <2>4
  <2> QED
    BY <2>1, <2>5
<1>7. ApproachesInGroup(key) = ItemsAt(made, kept)
  BY DEF ApproachesInGroup, as, g
<1>8. /\ \A n \in DOMAIN as : made[n].key = key /\ made[n].arrival \in Int
                              /\ made[n].last_waiting = Lowest(as[n]).waiting
  BY <1>1, <1>5, <1>6
<1>9. \A n \in DOMAIN as : n \in kept <=> Lowest(as[n]).waiting <= MaxWait
  OBVIOUS
<1> HIDE DEF made, kept, R
<1>10. /\ ItemsAt(made, kept) \in Seq(R)
       /\ ToSet(ItemsAt(made, kept)) = {made[i] : i \in kept \cap DOMAIN made}
  BY <1>6, KeptLines
<1>11. IsList(ApproachesInGroup(key))
  BY <1>7, <1>10, ListOf
<1>12. \A r \in ToSet(ApproachesInGroup(key)) : r.key = key /\ r.arrival \in Int
  <2> TAKE r \in ToSet(ApproachesInGroup(key))
  <2>1. PICK i \in kept \cap DOMAIN made : r = made[i]
    BY <1>7, <1>10
  <2> QED
    BY <2>1, <1>6, <1>8
<1>13. ASSUME NEW p \in S, p.key = key, p.waiting <= MaxWait
       PROVE  \E r \in ToSet(ApproachesInGroup(key)) : r.last_waiting <= p.waiting
  <2>1. PICK j \in DOMAIN predictions : predictions[j] = p
    BY DEF ToSet, S
  <2>2. p \in ToSet(g)
    BY <2>1, <1>2, <1>13
  <2>3. ToSet(g) = UNION {ToSet(as[i]) : i \in 1..Len(as)}
    BY <1>3, FlattenedSet
  <2>4. PICK n \in 1..Len(as) : p \in ToSet(as[n])
    BY <2>2, <2>3
  <2>5. PICK i \in DOMAIN as[n] : as[n][i] = p
    BY <2>4 DEF ToSet
  <2>6. /\ Lowest(as[n]).waiting <= p.waiting
        /\ Lowest(as[n]).waiting \in Int /\ p.waiting \in Int /\ MaxWait \in Int
    BY <2>4, <2>5, <1>1, <1>4, <1>5, MartaAssumption
  <2>7. n \in kept \cap DOMAIN made
    <3>1. n \in DOMAIN as
      BY <1>4
    <3> DEFINE w == Lowest(as[n]).waiting
               x == p.waiting
    <3>2. w <= x /\ x <= MaxWait /\ w \in Int /\ x \in Int /\ MaxWait \in Int
      BY <2>6, <1>13
    <3> HIDE DEF w, x
    <3>3. w <= MaxWait
      BY <3>2
    <3> USE DEF w, x
    <3> QED
      BY <3>1, <3>3, <1>6, <1>9
  <2>8. made[n] \in ToSet(ApproachesInGroup(key)) /\ made[n].last_waiting <= p.waiting
    BY <2>4, <2>6, <2>7, <1>4, <1>7, <1>8, <1>10
  <2> QED
    BY <2>8
<1> QED
  BY <1>11, <1>12, <1>13 DEF S

\* All arrivals, by time.
LEMMA ArrivalsAre ==
  ASSUME MartaInv
  PROVE  /\ IsList(Arrivals)
         /\ \A i \in DOMAIN Arrivals : Arrivals[i].arrival \in Int
         /\ \A i, j \in DOMAIN Arrivals : i < j => Arrivals[i].arrival <= Arrivals[j].arrival
         /\ \A key \in ToSet(MartaKeys) : key.train # "" =>
              \A r \in ToSet(ApproachesInGroup(key)) : r \in ToSet(Arrivals)
<1> DEFINE K == ToSet(MartaKeys)
           places == {n \in DOMAIN MartaKeys : MartaKeys[n].train # ""}
           keys == ItemsAt(MartaKeys, places)
           lists == [n \in DOMAIN keys |-> ApproachesInGroup(keys[n])]
           all == FlattenSeq(lists)
<1>1. keys \in Seq(K) /\ ToSet(keys) = {MartaKeys[i] : i \in places \cap DOMAIN MartaKeys}
  <2>1. MartaKeys \in Seq(K)
    BY MartaAssumption DEF IsList
  <2> QED
    BY <2>1, KeptLines
<1>2. Len(keys) \in Nat /\ DOMAIN keys = 1..Len(keys)
  BY <1>1, Items
<1>3. /\ lists = [n \in 1..Len(keys) |-> lists[n]]
      /\ \A n \in 1..Len(keys) : lists[n] = ApproachesInGroup(keys[n])
  BY <1>2
<1>4. Arrivals = Sorted(all, "arrival")
  BY DEF Arrivals
<1>5. \A key \in K : key.train # "" => \E n \in 1..Len(keys) : keys[n] = key
  <2> SUFFICES ASSUME NEW key \in K, key.train # "" PROVE key \in ToSet(keys)
    BY <1>2 DEF ToSet
  <2>1. PICK i \in DOMAIN MartaKeys : MartaKeys[i] = key
    BY DEF ToSet
  <2> QED
    BY <2>1, <1>1
<1> HIDE DEF keys, lists
<1>6. \A n \in 1..Len(keys) : IsList(lists[n])
  BY <1>3, GroupArrives
<1>7. IsList(all) /\ ToSet(all) = UNION {ToSet(lists[i]) : i \in 1..Len(keys)}
  BY <1>2, <1>3, <1>6, FlattenedLists
<1>8. \A r \in ToSet(all) : r.arrival \in Int
  BY <1>3, <1>7, GroupArrives
<1> HIDE DEF all
<1>9. /\ all \in Seq(ToSet(all)) /\ Len(all) \in Nat /\ DOMAIN all = 1..Len(all)
      /\ \A i \in DOMAIN all : all[i]["arrival"] \in Int
  BY <1>7, <1>8 DEF IsList
<1>10. PICK o : Sorts(o, all, "arrival") /\ Arrivals = [n \in 1..Len(all) |-> all[o[n]]]
  <2>1. /\ \E o : Sorts(o, all, "arrival")
                  /\ Sorted(all, "arrival") = [n \in 1..Len(all) |-> all[o[n]]]
        /\ Sorted(all, "arrival") \in Seq(ToSet(all)) /\ Len(Sorted(all, "arrival")) = Len(all)
        /\ ToSet(Sorted(all, "arrival")) = ToSet(all)
    BY <1>9, SortedBy
  <2> QED
    BY <2>1, <1>4
<1>11. Arrivals \in Seq(ToSet(all)) /\ ToSet(Arrivals) = ToSet(all)
  BY <1>4, <1>9, SortedBy
<1>12. /\ \A n \in 1..Len(all) : o[n] \in 1..Len(all)
       /\ \A n, k \in 1..Len(all) : n < k => Sooner(all, "arrival", o[n], o[k])
  BY <1>10 DEF Sorts
<1>13. \A i \in DOMAIN Arrivals : Arrivals[i].arrival \in Int
  BY <1>9, <1>10, <1>12
<1>14. \A i, j \in DOMAIN Arrivals : i < j => Arrivals[i].arrival <= Arrivals[j].arrival
  <2> SUFFICES ASSUME NEW i \in DOMAIN Arrivals, NEW j \in DOMAIN Arrivals, i < j
               PROVE  Arrivals[i].arrival <= Arrivals[j].arrival
    OBVIOUS
  <2>1. i \in 1..Len(all) /\ j \in 1..Len(all)
    BY <1>10
  <2>2. Sooner(all, "arrival", o[i], o[j])
    BY <2>1, <1>12
  <2>3. /\ Arrivals[i].arrival = all[o[i]]["arrival"] /\ Arrivals[j].arrival = all[o[j]]["arrival"]
        /\ all[o[i]]["arrival"] \in Int /\ all[o[j]]["arrival"] \in Int
    BY <2>1, <1>9, <1>10, <1>12
  <2> QED
    BY <2>2, <2>3 DEF Sooner
<1>15. \A key \in K : key.train # "" =>
         \A r \in ToSet(ApproachesInGroup(key)) : r \in ToSet(Arrivals)
  <2> SUFFICES ASSUME NEW key \in K, key.train # "", NEW r \in ToSet(ApproachesInGroup(key))
               PROVE  r \in ToSet(Arrivals)
    OBVIOUS
  <2>1. PICK n \in 1..Len(keys) : keys[n] = key
    BY <1>5
  <2>2. r \in ToSet(lists[n])
    BY <2>1, <1>3
  <2> QED
    BY <2>2, <1>7, <1>11
<1>16. IsList(Arrivals)
  BY <1>11, ListOf
<1> QED
  BY <1>13, <1>14, <1>15, <1>16 DEF K

LEMMA Countdowns == MartaInv => EveryCountdownArrives
<1> SUFFICES ASSUME MartaInv, NEW p \in ToSet(predictions), p.key.train # "", p.waiting <= MaxWait
             PROVE  \E a \in ToSet(Arrivals) : a.key = p.key /\ a.last_waiting <= p.waiting
  BY DEF EveryCountdownArrives
<1>1. p.key \in ToSet(MartaKeys)
  BY DEF MartaInv
<1>2. PICK r \in ToSet(ApproachesInGroup(p.key)) : r.last_waiting <= p.waiting
  BY GroupArrives
<1>3. r.key = p.key
  BY GroupArrives
<1>4. r \in ToSet(Arrivals)
  BY <1>1, ArrivalsAre
<1> QED
  BY <1>2, <1>3, <1>4

\* The arrivals of a train, in their order.
LEMMA TrainArrives ==
  ASSUME MartaInv, NEW train
  PROVE  LET all == ArrivalsOf(train) IN
         /\ all \in Seq(ToSet(Arrivals))
         /\ \A i, j \in DOMAIN all : i < j => all[i].arrival <= all[j].arrival
<1> DEFINE A == Arrivals
           R == ToSet(Arrivals)
           own == {i \in DOMAIN A : A[i].key.train = train}
           all == ArrivalsOf(train)
<1>1. /\ A \in Seq(R)
      /\ \A i, j \in DOMAIN A : i < j => A[i].arrival <= A[j].arrival
  BY ArrivalsAre DEF IsList
<1>2. all = ItemsAt(A, own)
  BY DEF ArrivalsOf
<1> HIDE DEF A, R, own, all
<1>3. all \in Seq(R) /\ \E d : Enumerates(d, A, own, all)
  BY <1>1, <1>2, KeptByPlace
<1>4. PICK d : Enumerates(d, A, own, all)
  BY <1>3
<1>5. DOMAIN all = 1..Len(all)
  BY <1>3, Items
<1>6. \A i, j \in DOMAIN all : i < j => all[i].arrival <= all[j].arrival
  <2> SUFFICES ASSUME NEW i \in DOMAIN all, NEW j \in DOMAIN all, i < j
               PROVE  all[i].arrival <= all[j].arrival
    OBVIOUS
  <2>1. /\ d[i] \in DOMAIN A /\ d[j] \in DOMAIN A /\ d[i] < d[j]
        /\ all[i] = A[d[i]] /\ all[j] = A[d[j]]
    BY <1>4, <1>5 DEF Enumerates
  <2> QED
    BY <2>1, <1>1
<1> QED
  BY <1>3, <1>6 DEF all, R

\* The trips of a train.
LEMMA TripsOfTrain ==
  ASSUME NEW R, NEW all \in Seq(R), NEW trips, trips = CutAt(all, Turns(all)),
         \A i, j \in DOMAIN all : i < j => all[i].arrival <= all[j].arrival
  PROVE  /\ FlattenSeq(trips) = all
         /\ \A n \in DOMAIN trips : \A i, j \in DOMAIN trips[n] :
              /\ trips[n][i].key.destination = trips[n][j].key.destination
              /\ i < j => trips[n][i].arrival <= trips[n][j].arrival
         /\ \A n \in 1..(Len(trips) - 1) :
              trips[n][1].key.destination # trips[n + 1][1].key.destination
<1> DEFINE T == Turns(all)
           f == [k \in DOMAIN all |-> all[k].key.destination]
<1>1. Len(all) \in Nat /\ DOMAIN all = 1..Len(all)
  BY Items
<1>2. T \subseteq DOMAIN all /\ (all # <<>> => 1 \in T)
  <2>1. all # <<>> => 1 \in DOMAIN all
    BY <1>1, EmptySeq
  <2> QED
    BY <2>1 DEF Turns
<1>3. \A k \in DOMAIN all : f[k] = all[k].key.destination
  OBVIOUS
<1>4. \A k \in DOMAIN all : k # 1 => (k \in T <=> f[k] # f[k - 1])
  <2> TAKE k \in DOMAIN all
  <2> HAVE k # 1
  <2>1. k - 1 \in DOMAIN all
    BY <1>1
  <2> QED
    BY <2>1 DEF Turns
<1> HIDE DEF T, f
<1>5. trips = CutAt(all, T)
  BY DEF T
<1>6. /\ FlattenSeq(trips) = all
      /\ trips \in Seq(Seq(R)) /\ \E e : CutInto(all, T, trips, e)
  BY <1>2, <1>5, CutWhole, CutPlaces
<1>7. PICK e : CutInto(all, T, trips, e)
  BY <1>6
<1>8. Len(trips) \in Nat /\ DOMAIN trips = 1..Len(trips)
  BY <1>6, Items
<1>9. \A n \in 1..Len(trips) : IsPiece(R, all, e[n], e[n + 1], trips[n])
  BY <1>7, <1>8, PieceOf
<1>10. ASSUME NEW n \in 1..Len(trips)
       PROVE  \A k \in e[n]..(e[n + 1] - 1) : k \in DOMAIN all /\ f[k] = f[e[n]]
  <2>1. e[n] \in 1..Len(all) /\ e[n + 1] \in 1..(Len(all) + 1) /\ e[n] < e[n + 1]
    BY <1>9 DEF IsPiece
  <2>2. \A k \in (e[n] + 1)..(e[n + 1] - 1) : k \notin T
    BY <1>7 DEF CutInto
  <2> DEFINE a == e[n]
             b == e[n + 1] - 1
  <2>3. a \in Nat /\ a >= 1 /\ b \in Nat /\ b <= Len(all)
    BY <1>1, <2>1
  <2>4. \A k \in (a + 1)..b : k \notin T
    BY <2>2
  <2> HIDE DEF a, b
  <2>5. \A k \in (a + 1)..b : f[k] = f[k - 1]
    <3> TAKE k \in (a + 1)..b
    <3>1. k \in DOMAIN all /\ k # 1
      BY <1>1, <2>3
    <3> QED
      BY <3>1, <1>4, <2>4
  <2>6. \A k \in a..b : f[k] = f[a]
    BY <2>3, <2>5, Steady
  <2>7. \A k \in a..b : k \in DOMAIN all
    BY <1>1, <2>3
  <2> QED
    BY <2>6, <2>7 DEF a, b
<1>11. ASSUME NEW n \in 1..Len(trips), NEW i \in DOMAIN trips[n]
       PROVE  /\ e[n] + i - 1 \in e[n]..(e[n + 1] - 1) /\ i \in Int
              /\ e[n] \in Int
              /\ trips[n][i] = all[e[n] + i - 1]
              /\ trips[n][i].key.destination = f[e[n]]
  <2>1. /\ e[n] \in 1..Len(all) /\ e[n + 1] \in 1..(Len(all) + 1) /\ e[n] < e[n + 1]
        /\ DOMAIN trips[n] = 1..(e[n + 1] - e[n])
        /\ \A k \in 1..(e[n + 1] - e[n]) : trips[n][k] = all[e[n] + k - 1]
    BY <1>9 DEF IsPiece
  <2>2. /\ e[n] + i - 1 \in e[n]..(e[n + 1] - 1) /\ i \in Int
        /\ trips[n][i] = all[e[n] + i - 1] /\ e[n] \in Int
    BY <2>1
  <2>3. e[n] + i - 1 \in DOMAIN all /\ f[e[n] + i - 1] = f[e[n]]
    BY <2>2, <1>10
  <2> QED
    BY <2>2, <2>3, <1>3
<1>12. ASSUME NEW n \in DOMAIN trips, NEW i \in DOMAIN trips[n], NEW j \in DOMAIN trips[n]
       PROVE  /\ trips[n][i].key.destination = trips[n][j].key.destination
              /\ i < j => trips[n][i].arrival <= trips[n][j].arrival
  <2>1. n \in 1..Len(trips)
    BY <1>8
  <2> DEFINE p == e[n] + i - 1
             q == e[n] + j - 1
  <2>2. p \in DOMAIN all /\ q \in DOMAIN all /\ trips[n][i] = all[p] /\ trips[n][j] = all[q]
    BY <2>1, <1>10, <1>11
  <2>3. i < j => p < q
    BY <2>1, <1>11
  <2>4. trips[n][i].key.destination = trips[n][j].key.destination
    BY <2>1, <1>11
  <2> HIDE DEF p, q
  <2> QED
    BY <2>2, <2>3, <2>4
<1>13. ASSUME NEW n \in 1..(Len(trips) - 1)
       PROVE  trips[n][1].key.destination # trips[n + 1][1].key.destination
  <2>1. n \in 1..Len(trips) /\ n + 1 \in 1..Len(trips)
    BY <1>8
  <2>2. 1 \in DOMAIN trips[n] /\ 1 \in DOMAIN trips[n + 1]
    <3>1. \A m \in 1..Len(trips) : 1 \in DOMAIN trips[m]
      <4> TAKE m \in 1..Len(trips)
      <4>1. /\ e[m] \in 1..Len(all) /\ e[m + 1] \in 1..(Len(all) + 1) /\ e[m] < e[m + 1]
            /\ DOMAIN trips[m] = 1..(e[m + 1] - e[m])
        BY <1>9 DEF IsPiece
      <4> QED
        BY <4>1
    <3> QED
      BY <2>1, <3>1
  <2>3. /\ trips[n][1].key.destination = f[e[n]]
        /\ trips[n + 1][1].key.destination = f[e[n + 1]]
    BY <2>1, <2>2, <1>11
  <2>4. /\ e[n] \in 1..Len(all) /\ e[n + 1] \in 1..(Len(all) + 1) /\ e[n] < e[n + 1]
    BY <2>1, <1>9 DEF IsPiece
  <2>5. e[n + 1] \in T
    BY <2>1, <1>7 DEF CutInto
  <2>6. e[n + 1] \in DOMAIN all /\ e[n + 1] # 1 /\ e[n + 1] - 1 \in e[n]..(e[n + 1] - 1)
    BY <1>1, <1>2, <2>4, <2>5
  <2>7. f[e[n + 1] - 1] = f[e[n]]
    BY <2>1, <2>6, <1>10
  <2>8. f[e[n + 1]] # f[e[n + 1] - 1]
    BY <2>5, <2>6, <1>4
  <2> QED
    BY <2>3, <2>7, <2>8
<1> QED
  BY <1>6, <1>12, <1>13

LEMMA TripsKept == MartaInv => TripsPartitionArrivals
<1> SUFFICES ASSUME MartaInv PROVE TripsPartitionArrivals
  OBVIOUS
<1>1. ASSUME NEW train
      PROVE  /\ FlattenSeq(TrainTrips(train)) = ArrivalsOf(train)
             /\ \A n \in DOMAIN TrainTrips(train) : \A i, j \in DOMAIN TrainTrips(train)[n] :
                  /\ TrainTrips(train)[n][i].key.destination = TrainTrips(train)[n][j].key.destination
                  /\ i < j => TrainTrips(train)[n][i].arrival <= TrainTrips(train)[n][j].arrival
             /\ \A n \in 1..(Len(TrainTrips(train)) - 1) :
                  TrainTrips(train)[n][1].key.destination # TrainTrips(train)[n + 1][1].key.destination
  <2> DEFINE all == ArrivalsOf(train)
             trips == TrainTrips(train)
             R == ToSet(Arrivals)
  <2>1. all \in Seq(R) /\ \A i, j \in DOMAIN all : i < j => all[i].arrival <= all[j].arrival
    BY TrainArrives
  <2>2. trips = CutAt(all, Turns(all))
    BY DEF TrainTrips
  <2>3. /\ FlattenSeq(trips) = all
        /\ \A n \in DOMAIN trips : \A i, j \in DOMAIN trips[n] :
             /\ trips[n][i].key.destination = trips[n][j].key.destination
             /\ i < j => trips[n][i].arrival <= trips[n][j].arrival
        /\ \A n \in 1..(Len(trips) - 1) :
             trips[n][1].key.destination # trips[n + 1][1].key.destination
    <3> HIDE DEF all, trips, R
    <3> QED
      BY <2>1, <2>2, TripsOfTrain
  <2> QED
    BY <2>3
<1> QED
  BY <1>1 DEF TripsPartitionArrivals

\* For any groups and countdowns, the arrivals and trips are those of the day.
LEMMA MartaKept == MartaSpec => [](EveryCountdownArrives /\ TripsPartitionArrivals)
<1>1. MartaInit => MartaInv
  <2> SUFFICES ASSUME MartaInit PROVE MartaInv
    OBVIOUS
  <2>1. predictions = <<>> /\ ToSet(<<>>) = {} /\ <<>> \in Seq({})
    BY DEF MartaInit, ToSet
  <2> QED
    BY <2>1 DEF MartaInv, IsList
<1>2. MartaInv /\ [MartaNext]_predictions => MartaInv'
  <2> SUFFICES ASSUME MartaInv, [MartaNext]_predictions PROVE MartaInv'
    OBVIOUS
  <2>1. CASE UNCHANGED predictions
    BY <2>1 DEF MartaInv
  <2>2. ASSUME NEW key \in ToSet(MartaKeys), NEW line \in MartaLines, Predict(key, line)
        PROVE  MartaInv'
    <3> DEFINE p == [key |-> key, next_arr |-> line[1], waiting |-> line[2]]
               S == ToSet(predictions) \cup {p}
    <3>1. line[1] \in Int /\ line[2] \in Int
      BY MartaAssumption
    <3>2. predictions' = Append(predictions, p)
      BY <2>2 DEF Predict
    <3>3. p.key \in ToSet(MartaKeys) /\ p.next_arr \in Int /\ p.waiting \in Int
      BY <3>1
    <3>4. predictions \in Seq(S) /\ p \in S
      BY ListOf DEF MartaInv
    <3>5. \A q \in S : q.key \in ToSet(MartaKeys) /\ q.next_arr \in Int /\ q.waiting \in Int
      BY <3>3 DEF MartaInv
    <3> HIDE DEF p, S
    <3>6. Append(predictions, p) \in Seq(S)
      BY <3>4
    <3>7. IsList(predictions') /\ ToSet(predictions') \subseteq S
      BY <3>2, <3>6, ListOf
    <3> QED
      BY <3>5, <3>7 DEF MartaInv
  <2> QED
    BY <2>1, <2>2 DEF MartaNext
<1>3. MartaInv => EveryCountdownArrives /\ TripsPartitionArrivals
  BY Countdowns, TripsKept
<1> QED
  BY <1>1, <1>2, <1>3, PTL DEF MartaSpec

-----------------------------------------------------------------------------
(* A vehicle's day: rows and runs.                                         *)

\* Rows of a day's partition.
DayOfPings(partition) ==
  /\ IsList(partition)
  /\ \A i \in DOMAIN partition : partition[i].time \in (0..MaxTime) \cup {Absent}

\* Rows of a vehicle, by time.
Timed(rows) ==
  /\ IsList(rows)
  /\ \A i \in DOMAIN rows : rows[i].time \in 0..MaxTime
  /\ \A i, j \in DOMAIN rows : i < j => rows[i].time <= rows[j].time

LEMMA RowsTimed ==
  ASSUME NEW partition, DayOfPings(partition), NEW id
  PROVE  Timed(RowsByVehicle(partition, id))
<1> DEFINE S == ToSet(partition)
           own == PlacesOf(partition, id)
           kept == ItemsAt(partition, own)
           rows == RowsByVehicle(partition, id)
<1>1. partition \in Seq(S) /\ \A i \in own : i \in DOMAIN partition /\ partition[i].time \in 0..MaxTime
  BY DEF DayOfPings, IsList, PlacesOf, Reporting
<1>2. rows = Sorted(kept, "time")
  BY DEF RowsByVehicle
<1> HIDE DEF S, own, kept, rows
<1>3. kept \in Seq(S) /\ ToSet(kept) = {partition[i] : i \in own \cap DOMAIN partition}
  BY <1>1, KeptLines DEF kept
<1>4. \A x \in ToSet(kept) : x.time \in 0..MaxTime
  BY <1>1, <1>3
<1>5. Len(kept) \in Nat /\ DOMAIN kept = 1..Len(kept)
  BY <1>3, Items
<1>6. \A i \in DOMAIN kept : kept[i]["time"] \in 0..MaxTime
  BY <1>4 DEF ToSet
<1>7. PICK o : Sorts(o, kept, "time") /\ rows = [n \in 1..Len(kept) |-> kept[o[n]]]
  <2>1. \A i \in DOMAIN kept : kept[i]["time"] \in Int
    BY <1>6
  <2> QED
    BY <2>1, <1>2, <1>3, SortedBy
<1>8. /\ \A n \in 1..Len(kept) : o[n] \in 1..Len(kept)
      /\ \A n, k \in 1..Len(kept) : n < k => Sooner(kept, "time", o[n], o[k])
  BY <1>7 DEF Sorts
<1>9. rows \in Seq(S)
  BY <1>2, <1>3, <1>6, SortedBy
<1>10. DOMAIN rows = 1..Len(kept) /\ \A n \in 1..Len(kept) : rows[n].time = kept[o[n]]["time"]
  BY <1>7
<1>11. \A n \in DOMAIN rows : rows[n].time \in 0..MaxTime
  BY <1>5, <1>6, <1>8, <1>10
<1>12. \A i, j \in DOMAIN rows : i < j => rows[i].time <= rows[j].time
  <2> SUFFICES ASSUME NEW i \in DOMAIN rows, NEW j \in DOMAIN rows, i < j
               PROVE  rows[i].time <= rows[j].time
    OBVIOUS
  <2>1. Sooner(kept, "time", o[i], o[j])
    BY <1>8, <1>10
  <2>2. rows[i].time = kept[o[i]]["time"] /\ rows[j].time = kept[o[j]]["time"]
    BY <1>10
  <2>3. rows[i].time \in Int /\ rows[j].time \in Int
    BY <1>11
  <2> QED
    BY <2>1, <2>2, <2>3 DEF Sooner
<1> QED
  BY <1>9, <1>11, <1>12, ListOf DEF Timed, rows

\* Where the run from a place ends.
EndOfRun(rows, publishes, i) ==
  CHOOSE j \in i..Len(rows) :
    Within(rows, publishes, i, j) /\ (j < Len(rows) => ~Within(rows, publishes, i, j + 1))

LEMMA RunEnds ==
  ASSUME NEW S, NEW rows \in Seq(S), NEW publishes, NEW i \in 1..Len(rows)
  PROVE  /\ EndOfRun(rows, publishes, i) \in i..Len(rows)
         /\ \A k \in i..Len(rows) :
              Within(rows, publishes, i, k) <=> k <= EndOfRun(rows, publishes, i)
         /\ RunFrom(rows, publishes, i) = SubSeq(rows, i, EndOfRun(rows, publishes, i))
<1> DEFINE m == Len(rows)
           W(k) == Within(rows, publishes, i, k)
           Ends(j) == W(j) /\ (j < m => ~W(j + 1))
           T == {k \in i..m : W(k)}
           end == EndOfRun(rows, publishes, i)
<1>1. m \in Nat /\ i \in Nat
  BY Items
<1>2. W(i)
  <2>1. (i + 1)..i = {}
    BY <1>1
  <2> QED
    BY <2>1 DEF Within
<1>3. \A k \in i..m : \A l \in i..k : W(k) => W(l)
  <2> SUFFICES ASSUME NEW k \in i..m, NEW l \in i..k, W(k) PROVE W(l)
    OBVIOUS
  <2>1. (i + 1)..l \subseteq (i + 1)..k
    BY <1>1
  <2> QED
    BY <2>1 DEF Within
<1> HIDE DEF W
<1>4. \E j \in i..m : Ends(j)
  <2>1. T \subseteq Nat /\ T # {} /\ \A k \in T : k <= m
    BY <1>1, <1>2
  <2>2. PICK j \in T : \A k \in T : k <= j
    <3> HIDE DEF T, m
    <3> QED
      BY <2>1, <1>1, GreatestOf
  <2>3. j < m => ~W(j + 1)
    <3> SUFFICES ASSUME j < m, W(j + 1) PROVE FALSE
      OBVIOUS
    <3>1. j + 1 \in T /\ j \in Nat
      BY <1>1
    <3> QED
      BY <3>1, <2>2
  <2> QED
    BY <2>3
<1>5. end = CHOOSE j \in i..m : Ends(j)
  BY DEF EndOfRun, W
<1> HIDE DEF m, end
<1>6. end \in i..m /\ Ends(end)
  BY <1>4, <1>5
<1>7. \A k \in i..m : W(k) <=> k <= end
  <2> TAKE k \in i..m
  <2>1. ASSUME k <= end PROVE W(k)
    <3>1. k \in i..end
      BY <1>1, <1>6, <2>1
    <3> QED
      BY <3>1, <1>3, <1>6
  <2>2. ASSUME W(k), ~(k <= end) PROVE FALSE
    <3>1. end < m /\ end + 1 \in i..k
      BY <1>1, <1>6, <2>2
    <3> QED
      BY <3>1, <1>3, <1>6, <2>2
  <2> QED
    BY <2>1, <2>2
<1>8. RunFrom(rows, publishes, i) = SubSeq(rows, i, end)
  BY DEF RunFrom, EndOfRun, end, m
<1> QED
  BY <1>6, <1>7, <1>8 DEF m, W, end

\* The n-th run goes from s[n] to t[n]; they cover the dwelling pings.
RunsAt(rows, publishes, runs, s, t) ==
  /\ s \in [1..Len(runs) -> 1..Len(rows)]
  /\ t \in [1..Len(runs) -> 1..Len(rows)]
  /\ \A n \in 1..Len(runs) :
       /\ s[n] <= t[n]
       /\ runs[n] = SubSeq(rows, s[n], t[n])
       /\ \A k \in s[n]..t[n] :
            IsDwelling(rows[k], publishes) /\ rows[k].stop = rows[s[n]].stop
  /\ \A n, k \in 1..Len(runs) : n < k => t[n] < s[k]
  /\ \A k \in 1..Len(rows) : IsDwelling(rows[k], publishes) =>
       \E n \in 1..Len(runs) : k \in s[n]..t[n]

\* The start of the block a dwelling ping is in.
LEMMA BlockOpens ==
  ASSUME NEW S, NEW rows \in Seq(S), NEW publishes,
         NEW k \in 1..Len(rows), IsDwelling(rows[k], publishes)
  PROVE  \E i \in 1..k : Opens(rows, publishes, i) /\ Within(rows, publishes, i, k)
<1> DEFINE Same(l) == IsDwelling(rows[l], publishes) /\ rows[l].stop = rows[k].stop
           T == {i \in 1..k : \A l \in i..k : Same(l)}
<1>1. k \in Nat /\ k >= 1
  BY Items
<1> HIDE DEF Same
<1>2. k \in T
  <2>1. k..k = {k}
    BY <1>1
  <2>2. Same(k)
    BY DEF Same
  <2> QED
    BY <2>1, <2>2, <1>1
<1>3. T \subseteq Nat /\ T # {}
  <2>1. \A i \in T : i \in Nat
    BY <1>1
  <2> HIDE DEF T
  <2> QED
    BY <2>1, <1>2
<1>4. PICK i \in T : \A j \in T : i <= j
  <2> HIDE DEF T
  <2> QED
    BY <1>3, LeastOf
<1>5. i \in 1..k /\ \A l \in i..k : Same(l)
  OBVIOUS
<1>6. i = 1 \/ ~Same(i - 1)
  <2> SUFFICES ASSUME i # 1, Same(i - 1) PROVE FALSE
    OBVIOUS
  <2>1. i - 1 \in 1..k /\ \A l \in (i - 1)..k : l = i - 1 \/ l \in i..k
    BY <1>1, <1>5
  <2>2. i - 1 \in T
    BY <2>1, <1>5
  <2>3. ~(i <= i - 1)
    BY <1>1, <1>5
  <2> QED
    BY <2>2, <2>3, <1>4
<1>7. Same(i)
  BY <1>1, <1>5
<1>8. Opens(rows, publishes, i)
  BY <1>6, <1>7 DEF Same, Opens
<1>9. Within(rows, publishes, i, k)
  <2>1. \A l \in (i + 1)..k : l \in i..k
    BY <1>1, <1>5
  <2> QED
    BY <2>1, <1>5, <1>7 DEF Same, Within
<1> QED
  BY <1>5, <1>8, <1>9

LEMMA RunsAre ==
  ASSUME NEW S, NEW rows \in Seq(S), NEW publishes
  PROVE  /\ Runs(rows, publishes) \in Seq(Seq(S))
         /\ \E s, t : RunsAt(rows, publishes, Runs(rows, publishes), s, t)
<1> DEFINE m == Len(rows)
           from == [i \in DOMAIN rows |-> RunFrom(rows, publishes, i)]
           starts == {i \in DOMAIN rows : Opens(rows, publishes, i)}
           runs == Runs(rows, publishes)
           End(i) == EndOfRun(rows, publishes, i)
<1>1. m \in Nat /\ DOMAIN rows = 1..m
  BY Items
<1>2. runs = ItemsAt(from, starts)
  BY DEF Runs
<1> HIDE DEF m, runs, End
<1>3. \A i \in 1..m : /\ End(i) \in i..m
                      /\ \A k \in i..m : Within(rows, publishes, i, k) <=> k <= End(i)
                      /\ from[i] = SubSeq(rows, i, End(i))
  <2> TAKE i \in 1..m
  <2>1. i \in 1..Len(rows)
    BY DEF m
  <2>2. /\ End(i) \in i..m
        /\ \A k \in i..m : Within(rows, publishes, i, k) <=> k <= End(i)
        /\ RunFrom(rows, publishes, i) = SubSeq(rows, i, End(i))
    BY <2>1, RunEnds DEF End, m
  <2> QED
    BY <2>2, <1>1
<1>4. \A i \in 1..m : from[i] \in Seq(S)
  <2> TAKE i \in 1..m
  <2> DEFINE b == End(i) + 1
  <2>1. i \in 1..(m + 1) /\ b \in i..(m + 1) /\ b - 1 = End(i)
    <3>1. End(i) \in i..m
      BY <1>3
    <3> QED
      BY <3>1, <1>1
  <2> HIDE DEF b
  <2>2. SubSeq(rows, i, b - 1) \in Seq(S)
    BY <2>1, PartIs DEF m
  <2> QED
    BY <2>1, <2>2, <1>3
<1>5. from = [i \in 1..m |-> from[i]] /\ starts \cap (1..m) = starts
      /\ \A i \in starts : Opens(rows, publishes, i) /\ i \in 1..m
  BY <1>1
<1>17. \A i \in 1..m : Opens(rows, publishes, i) => i \in starts
  BY <1>1
<1> HIDE DEF from, starts
<1>6. from \in Seq(Seq(S)) /\ Len(from) = m /\ DOMAIN from = 1..m
  BY <1>1, <1>4, <1>5
<1>7. runs \in Seq(Seq(S)) /\ \E d : Enumerates(d, from, starts, runs)
  BY <1>2, <1>6, KeptByPlace
<1>8. PICK d : Enumerates(d, from, starts, runs)
  BY <1>7
<1> DEFINE l == Len(runs)
           t == [n \in 1..l |-> End(d[n])]
<1>9. l \in Nat
  BY <1>7, Items
<1> HIDE DEF l
<1>10. /\ d \in [1..l -> 1..m]
       /\ \A n \in 1..l : d[n] \in starts /\ runs[n] = from[d[n]]
       /\ \A n, k \in 1..l : n < k <=> d[n] < d[k]
       /\ \A p \in starts : \E n \in 1..l : d[n] = p
  <2>1. starts \cap DOMAIN from = starts /\ starts \subseteq 1..m
    BY <1>5, <1>6
  <2> QED
    BY <2>1, <1>8 DEF Enumerates, l
<1>11. \A n \in 1..l : d[n] \in 1..m /\ t[n] = End(d[n]) /\ t[n] \in d[n]..m
  BY <1>3, <1>10
<1>12. t \in [1..l -> 1..m]
  BY <1>1, <1>11
<1> HIDE DEF t
<1>13. ASSUME NEW n \in 1..l
       PROVE  /\ d[n] <= t[n] /\ runs[n] = SubSeq(rows, d[n], t[n])
              /\ \A k \in d[n]..t[n] :
                   IsDwelling(rows[k], publishes) /\ rows[k].stop = rows[d[n]].stop
  <2> DEFINE a == d[n]
  <2>6. a \in starts /\ a \in 1..m /\ t[n] = End(a) /\ End(a) \in a..m /\ runs[n] = from[a]
    BY <1>10, <1>11
  <2>1. Opens(rows, publishes, d[n]) /\ Within(rows, publishes, d[n], t[n])
    <3> HIDE DEF a
    <3>1. End(a) \in Int /\ End(a) <= End(a)
      BY <2>6, <1>1
    <3>2. Within(rows, publishes, a, End(a))
      BY <3>1, <2>6, <1>3
    <3>3. Opens(rows, publishes, a)
      BY <2>6, <1>5
    <3> QED
      BY <3>2, <3>3, <2>6 DEF a
  <2>2. \A k \in d[n]..t[n] : k = d[n] \/ k \in (d[n] + 1)..t[n]
    BY <1>1, <1>11
  <2>3. d[n] <= t[n]
    BY <1>1, <1>11
  <2>4. runs[n] = SubSeq(rows, d[n], t[n])
    <3> HIDE DEF a
    <3>1. from[a] = SubSeq(rows, a, End(a))
      BY <2>6, <1>3
    <3>2. runs[n] = SubSeq(rows, a, t[n])
      BY <3>1, <2>6
    <3> QED
      BY <3>2 DEF a
  <2>5. \A k \in d[n]..t[n] :
          IsDwelling(rows[k], publishes) /\ rows[k].stop = rows[d[n]].stop
    BY <2>1, <2>2 DEF Opens, Within
  <2> QED
    BY <2>3, <2>4, <2>5
<1>14. ASSUME NEW n \in 1..l, NEW k \in 1..l, n < k PROVE t[n] < d[k]
  <2> SUFFICES ASSUME ~(t[n] < d[k]) PROVE FALSE
    OBVIOUS
  <2>1. d[n] < d[k]
    BY <1>10, <1>14
  <2>2. d[k] \in d[n]..t[n] /\ d[k] - 1 \in d[n]..t[n] /\ d[k] # 1
    BY <2>1, <1>1, <1>11
  <2>3. /\ IsDwelling(rows[d[k] - 1], publishes) /\ rows[d[k] - 1].stop = rows[d[n]].stop
        /\ rows[d[k]].stop = rows[d[n]].stop
    BY <2>2, <1>13
  <2>4. Opens(rows, publishes, d[k])
    BY <1>5, <1>10
  <2> QED
    BY <2>2, <2>3, <2>4 DEF Opens
<1>15. ASSUME NEW k \in 1..m, IsDwelling(rows[k], publishes)
       PROVE  \E n \in 1..l : k \in d[n]..t[n]
  <2>1. PICK i \in 1..k : Opens(rows, publishes, i) /\ Within(rows, publishes, i, k)
    <3>1. k \in 1..Len(rows)
      BY DEF m
    <3> QED
      BY <3>1, <1>15, BlockOpens
  <2>2. i \in 1..m /\ k \in i..m
    BY <1>1
  <2>3. k <= End(i)
    BY <2>1, <2>2, <1>3
  <2>6. i \in starts
    BY <2>1, <2>2, <1>17
  <2>4. PICK n \in 1..l : d[n] = i
    BY <2>6, <1>10
  <2>5. k \in d[n]..t[n]
    BY <2>2, <2>3, <2>4, <1>1, <1>11
  <2> QED
    BY <2>5
<1>16. RunsAt(rows, publishes, runs, d, t)
  BY <1>10, <1>12, <1>13, <1>14, <1>15 DEF RunsAt, l, m
<1> QED
  BY <1>7, <1>16 DEF runs

-----------------------------------------------------------------------------
(* Visits, before they are merged.                                         *)

\* The visits there may be: stops, routes, trips and directions of X.
VisitSet(X, id) ==
  [vehicle : {id}, stop : X \ {Absent}, arrival : 0..MaxTime, departure : 0..MaxTime,
   ping_count : Nat, route : X, trip : X, direction : X]

\* Visits one after the other.
Follow(vs) ==
  /\ \A n \in 1..Len(vs) : vs[n].arrival <= vs[n].departure
  /\ \A n \in 1..(Len(vs) - 1) : vs[n].departure <= vs[n + 1].arrival

Counts(vs) == [n \in 1..Len(vs) |-> vs[n].ping_count]

\* The visits of the runs.
RawVisits(id, runs, publishes) == [n \in DOMAIN runs |-> VisitOf(id, runs[n], publishes)]

Named(rows) ==
  {rows[i].stop : i \in DOMAIN rows} \cup {rows[i].route : i \in DOMAIN rows}
  \cup {rows[i].trip : i \in DOMAIN rows} \cup {rows[i].direction : i \in DOMAIN rows}

\* A run begins and ends with its first and last row.
LEMMA RunHolds ==
  ASSUME NEW S, NEW rows \in Seq(S), NEW a \in 1..Len(rows), NEW b \in a..Len(rows)
  PROVE  LET run == SubSeq(rows, a, b) IN
         run[1] = rows[a] /\ Last(run) = rows[b] /\ Len(run) = b - a + 1
<1> DEFINE c == b + 1
           run == SubSeq(rows, a, b)
<1>1. /\ a \in 1..(Len(rows) + 1) /\ c \in a..(Len(rows) + 1) /\ c - 1 = b
      /\ c - a = b - a + 1 /\ 1 \in 1..(c - a) /\ b - a + 1 \in 1..(c - a)
      /\ a + 1 - 1 = a /\ a + (b - a + 1) - 1 = b
  BY Items
<1> HIDE DEF c
<1>2. /\ Len(SubSeq(rows, a, c - 1)) = c - a
      /\ \A i \in 1..(c - a) : SubSeq(rows, a, c - 1)[i] = rows[a + i - 1]
  BY <1>1, PartIs
<1>3. run = SubSeq(rows, a, c - 1)
  BY <1>1
<1> HIDE DEF run
<1>4. Len(run) = b - a + 1 /\ \A i \in 1..(c - a) : run[i] = rows[a + i - 1]
  BY <1>1, <1>2, <1>3
<1>5. run[1] = rows[a + 1 - 1]
  BY <1>1, <1>4
<1>6. run[b - a + 1] = rows[a + (b - a + 1) - 1]
  BY <1>1, <1>4
<1>7. run[1] = rows[a] /\ run[b - a + 1] = rows[b]
  BY <1>1, <1>5, <1>6
<1>8. Last(run) = rows[b]
  BY <1>4, <1>7 DEF Last
<1> QED
  BY <1>4, <1>7, <1>8 DEF run

LEMMA RawAre ==
  ASSUME NEW rows, Timed(rows), NEW publishes \in BOOLEAN, NEW id
  PROVE  LET vs == RawVisits(id, Runs(rows, publishes), publishes) IN
         /\ vs \in Seq(VisitSet(Named(rows), id)) /\ Len(vs) = Len(Runs(rows, publishes))
         /\ Follow(vs)
         /\ IsFiniteSet({i \in DOMAIN rows : IsDwelling(rows[i], publishes)})
         /\ Total(Counts(vs)) = Cardinality({i \in DOMAIN rows : IsDwelling(rows[i], publishes)})
<1> DEFINE S == ToSet(rows)
           runs == Runs(rows, publishes)
           vs == RawVisits(id, runs, publishes)
           X == Named(rows)
           V == VisitSet(X, id)
           D == {i \in DOMAIN rows : IsDwelling(rows[i], publishes)}
           l == Len(runs)
           m == Len(rows)
<1>1. rows \in Seq(S)
  BY DEF Timed, IsList
<1>2. /\ \A i \in 1..m : rows[i].time \in 0..MaxTime
      /\ \A i, j \in 1..m : i < j => rows[i].time <= rows[j].time
      /\ m \in Nat /\ DOMAIN rows = 1..m
  BY <1>1, Items DEF Timed
<1>3. runs \in Seq(Seq(S)) /\ \E s, t : RunsAt(rows, publishes, runs, s, t)
  BY <1>1, RunsAre
<1> HIDE DEF runs, S
<1>4. PICK s, t : RunsAt(rows, publishes, runs, s, t)
  BY <1>3
<1>5. l \in Nat /\ DOMAIN runs = 1..l
  BY <1>3, Items
<1> HIDE DEF l, m
<1>6. /\ s \in [1..l -> 1..m] /\ t \in [1..l -> 1..m]
      /\ \A n \in 1..l :
           /\ s[n] <= t[n]
           /\ runs[n] = SubSeq(rows, s[n], t[n])
           /\ \A k \in s[n]..t[n] :
                IsDwelling(rows[k], publishes) /\ rows[k].stop = rows[s[n]].stop
      /\ \A n, k \in 1..l : n < k => t[n] < s[k]
      /\ \A k \in 1..m : IsDwelling(rows[k], publishes) => \E n \in 1..l : k \in s[n]..t[n]
  BY <1>4 DEF RunsAt, l, m
<1>7. \A n \in 1..l : /\ s[n] \in 1..m /\ t[n] \in s[n]..m /\ t[n] \in 1..m
                      /\ s[n] \in Nat /\ t[n] \in Nat
  BY <1>2, <1>6
<1>8. ASSUME NEW n \in 1..l
      PROVE  runs[n][1] = rows[s[n]] /\ Last(runs[n]) = rows[t[n]] /\ Len(runs[n]) = t[n] - s[n] + 1
  <2> DEFINE a == s[n]
             b == t[n]
             run == SubSeq(rows, a, b)
  <2>1. a \in 1..Len(rows) /\ b \in a..Len(rows) /\ runs[n] = run
    BY <1>6, <1>7 DEF m
  <2>2. run[1] = rows[a] /\ Last(run) = rows[b] /\ Len(run) = b - a + 1
    <3> HIDE DEF a, b
    <3> QED
      BY <1>1, <2>1, RunHolds
  <2> HIDE DEF run
  <2> QED
    BY <2>1, <2>2
<1>9. /\ vs = [n \in 1..l |-> vs[n]] /\ DOMAIN vs = 1..l
      /\ \A n \in 1..l : vs[n] = VisitOf(id, runs[n], publishes)
  BY <1>5 DEF RawVisits
<1> HIDE DEF vs
<1>10. ASSUME NEW n \in 1..l
       PROVE  /\ vs[n] \in V
              /\ vs[n].arrival = IF publishes THEN rows[s[n]].time ELSE rows[t[n]].time
              /\ vs[n].departure = rows[t[n]].time
              /\ vs[n].ping_count = t[n] - s[n] + 1
  <2> DEFINE v == vs[n]
             r == rows[s[n]]
             q == rows[t[n]]
             z == t[n] - s[n] + 1
  <2>1. v = [vehicle |-> id, stop |-> r.stop,
             arrival |-> IF publishes THEN r.time ELSE q.time, departure |-> q.time,
             ping_count |-> z,
             route |-> r.route, trip |-> r.trip, direction |-> r.direction]
    <3>1. v = VisitOf(id, runs[n], publishes)
      BY <1>9
    <3>2. runs[n][1] = r /\ Last(runs[n]) = q /\ Len(runs[n]) = z
      BY <1>8
    <3> HIDE DEF v, r, q, z
    <3> QED
      BY <3>1, <3>2 DEF VisitOf
  <2>2. s[n] \in DOMAIN rows /\ r.time \in 0..MaxTime /\ q.time \in 0..MaxTime /\ z \in Nat
    BY <1>2, <1>6, <1>7
  <2>3. r.stop # Absent
    <3>1. IsDwelling(rows[s[n]], publishes)
      BY <1>6, <1>7
    <3> QED
      BY <3>1 DEF IsDwelling
  <2>4. r.stop \in X /\ r.route \in X /\ r.trip \in X /\ r.direction \in X
    BY <2>2 DEF Named
  <2> HIDE DEF v, r, q, z, X
  <2>5. v \in V
    BY <2>1, <2>2, <2>3, <2>4 DEF VisitSet
  <2>6. /\ v.arrival = IF publishes THEN r.time ELSE q.time
        /\ v.departure = q.time /\ v.ping_count = z
    BY <2>1
  <2> QED
    BY <2>5, <2>6 DEF v, r, q, z
<1>11. vs \in Seq(V) /\ Len(vs) = l
  <2> HIDE DEF V
  <2> QED
    BY <1>5, <1>9, <1>10
<1>12. Follow(vs)
  <2>1. ASSUME NEW n \in 1..l PROVE vs[n].arrival <= vs[n].departure
    <3>1. rows[s[n]].time <= rows[t[n]].time
      <4>1. s[n] = t[n] \/ s[n] < t[n]
        BY <1>7
      <4>2. rows[t[n]].time \in Int
        BY <1>2, <1>7
      <4> QED
        BY <4>1, <4>2, <1>2, <1>7
    <3>2. rows[t[n]].time \in Int
      BY <1>2, <1>7
    <3> QED
      BY <3>1, <3>2, <1>10
  <2>2. ASSUME NEW n \in 1..(l - 1) PROVE vs[n].departure <= vs[n + 1].arrival
    <3>1. n \in 1..l /\ n + 1 \in 1..l /\ n < n + 1
      BY <1>5
    <3>2. t[n] < s[n + 1] /\ t[n] < t[n + 1]
      BY <3>1, <1>6, <1>7
    <3>3. /\ rows[t[n]].time <= rows[s[n + 1]].time
          /\ rows[t[n]].time <= rows[t[n + 1]].time
      BY <3>1, <3>2, <1>2, <1>7
    <3> QED
      BY <3>1, <3>3, <1>10
  <2> QED
    BY <2>1, <2>2, <1>11 DEF Follow
<1>13. IsFiniteSet(D)
  <2>1. D \subseteq 1..m
    BY <1>2
  <2>2. IsFiniteSet(1..m)
    BY <1>2, FS_Interval
  <2> HIDE DEF D
  <2> QED
    BY <2>1, <2>2, FS_Subset
<1> DEFINE c == Counts(vs)
           g == [p \in Heaps(c) |-> s[p[1]] + p[2] - 1]
<1>14. DOMAIN c = 1..l /\ \A n \in 1..l : c[n] = t[n] - s[n] + 1 /\ c[n] \in Nat
  BY <1>7, <1>10, <1>11 DEF Counts
<1>15. IsFiniteSet(Heaps(c))
  <2> HIDE DEF c
  <2>1. IsFiniteSet(1..l)
    BY <1>5, FS_Interval
  <2> QED
    BY <2>1, <1>14, HeapsFinite
<1>16. \A p \in Heaps(c) : /\ p = <<p[1], p[2]>> /\ p[1] \in 1..l /\ p[2] \in Int
                           /\ g[p] = s[p[1]] + p[2] - 1
                           /\ g[p] \in s[p[1]]..t[p[1]]
  <2> HIDE DEF c
  <2> TAKE p \in Heaps(c)
  <2>1. p = <<p[1], p[2]>> /\ p[1] \in DOMAIN c /\ p[2] \in 1..c[p[1]]
    BY HeapsHold
  <2>2. p[1] \in 1..l /\ p[2] \in 1..(t[p[1]] - s[p[1]] + 1)
    BY <2>1, <1>14
  <2>3. s[p[1]] + p[2] - 1 \in s[p[1]]..t[p[1]] /\ p[2] \in Int
    BY <2>2, <1>7
  <2> QED
    BY <2>1, <2>2, <2>3
<1>17. g \in [Heaps(c) -> D]
  <2>1. \A p \in Heaps(c) : g[p] \in D
    <3> TAKE p \in Heaps(c)
    <3>1. p[1] \in 1..l /\ g[p] \in s[p[1]]..t[p[1]]
      BY <1>16
    <3> HIDE DEF g, c
    <3> DEFINE n == p[1]
               k == g[p]
    <3>2. n \in 1..l /\ k \in s[n]..t[n]
      BY <3>1
    <3> HIDE DEF n, k
    <3>3. IsDwelling(rows[k], publishes)
      BY <3>2, <1>6
    <3>4. k \in 1..m
      BY <3>2, <1>2, <1>7
    <3>5. k \in D
      BY <3>3, <3>4, <1>2
    <3> QED
      BY <3>5 DEF k
  <2>2. g = [p \in Heaps(c) |-> g[p]]
    OBVIOUS
  <2> HIDE DEF g, c, D
  <2> QED
    BY <2>1, <2>2
<1> HIDE DEF g, c
<1>18. \A p, q \in Heaps(c) : g[p] = g[q] => p = q
  <2> SUFFICES ASSUME NEW p \in Heaps(c), NEW q \in Heaps(c), g[p] = g[q] PROVE p = q
    OBVIOUS
  <2>1. p[1] \in 1..l /\ q[1] \in 1..l /\ g[p] \in s[p[1]]..t[p[1]] /\ g[p] \in s[q[1]]..t[q[1]]
    BY <1>16
  <2>2. ~(p[1] < q[1])
    <3> SUFFICES ASSUME p[1] < q[1] PROVE FALSE
      OBVIOUS
    <3>1. t[p[1]] < s[q[1]]
      BY <2>1, <1>6
    <3> QED
      BY <3>1, <2>1, <1>7
  <2>3. ~(q[1] < p[1])
    <3> SUFFICES ASSUME q[1] < p[1] PROVE FALSE
      OBVIOUS
    <3>1. t[q[1]] < s[p[1]]
      BY <2>1, <1>6
    <3> QED
      BY <3>1, <2>1, <1>7
  <2>4. p[1] = q[1]
    BY <2>1, <2>2, <2>3
  <2>5. p[2] = q[2]
    <3> DEFINE a == s[p[1]]
               x == p[2]
               y == q[2]
    <3>1. a \in Int /\ x \in Int /\ y \in Int /\ a + x - 1 = a + y - 1
      BY <2>1, <2>4, <1>7, <1>16
    <3> HIDE DEF a, x, y
    <3>2. x = y
      BY <3>1
    <3> QED
      BY <3>2 DEF x, y
  <2> QED
    BY <2>4, <2>5, <1>16
<1>19. \A k \in D : \E p \in Heaps(c) : g[p] = k
  <2> TAKE k \in D
  <2>1. k \in 1..m /\ IsDwelling(rows[k], publishes)
    BY <1>2
  <2>2. PICK n \in 1..l : k \in s[n]..t[n]
    BY <2>1, <1>6
  <2> DEFINE x == k - s[n] + 1
  <2>3. x \in 1..(t[n] - s[n] + 1) /\ s[n] + x - 1 = k
    BY <2>2, <1>7
  <2>4. x \in 1..c[n] /\ n \in DOMAIN c
    BY <2>3, <1>14
  <2> HIDE DEF x
  <2>5. <<n, x>> \in Heaps(c)
    BY <2>4, HeapsHold
  <2>6. g[<<n, x>>] = k
    BY <2>3, <2>5, <1>16
  <2> QED
    BY <2>5, <2>6
<1>20. Total(c) = Cardinality(D)
  <2> HIDE DEF D
  <2> QED
    BY <1>15, <1>17, <1>18, <1>19, Paired DEF Total
<1> QED
  BY <1>11, <1>12, <1>13, <1>20 DEF c, vs, runs, l

-----------------------------------------------------------------------------
(* Merging close visits.                                                   *)

\* A visit with the one that it flickered to.
MergedLast(a, v) == [a EXCEPT !.departure = v.departure, !.ping_count = @ + v.ping_count]

LEMMA MergedFields ==
  ASSUME NEW X, NEW id, NEW a \in VisitSet(X, id), NEW v \in VisitSet(X, id)
  PROVE  /\ MergedLast(a, v) \in VisitSet(X, id)
         /\ MergedLast(a, v).stop = a.stop /\ MergedLast(a, v).arrival = a.arrival
         /\ MergedLast(a, v).departure = v.departure
         /\ MergedLast(a, v).ping_count = a.ping_count + v.ping_count
         /\ a.ping_count \in Nat /\ v.ping_count \in Nat
         /\ a.arrival \in Int /\ a.departure \in Int /\ v.arrival \in Int /\ v.departure \in Int
<1>1. /\ a.ping_count \in Nat /\ v.ping_count \in Nat
      /\ a.arrival \in Int /\ a.departure \in Int /\ v.arrival \in Int /\ v.departure \in Int
      /\ v.departure \in 0..MaxTime /\ a.ping_count + v.ping_count \in Nat
  BY ServiceDayAssumption DEF VisitSet
<1>2. MergedLast(a, v) \in VisitSet(X, id)
  BY <1>1 DEF VisitSet, MergedLast
<1>3. /\ MergedLast(a, v).stop = a.stop /\ MergedLast(a, v).arrival = a.arrival
      /\ MergedLast(a, v).departure = v.departure
      /\ MergedLast(a, v).ping_count = a.ping_count + v.ping_count
  BY DEF VisitSet, MergedLast
<1> QED
  BY <1>1, <1>2, <1>3

\* One step of the merge.
LEMMA MergeStep ==
  ASSUME NEW X, NEW id, NEW s \in Seq(VisitSet(X, id)), NEW v \in VisitSet(X, id)
  PROVE  /\ MergeVisit(s, v) \in Seq(VisitSet(X, id))
         /\ Flickers(s, v) => /\ Relast(s, MergedLast(Last(s), v), MergeVisit(s, v))
                              /\ Last(s) = s[Len(s)] /\ Last(s) \in VisitSet(X, id)
         /\ ~Flickers(s, v) => MergeVisit(s, v) = Append(s, v)
<1> DEFINE V == VisitSet(X, id)
<1>1. ASSUME Flickers(s, v)
      PROVE  /\ MergeVisit(s, v) \in Seq(V)
             /\ Relast(s, MergedLast(Last(s), v), MergeVisit(s, v))
             /\ Last(s) = s[Len(s)] /\ Last(s) \in V
  <2>1. s # <<>>
    BY <1>1 DEF Flickers
  <2>2. Last(s) \in V /\ Last(s) = s[Len(s)]
    <3> HIDE DEF V
    <3>1. s \in Seq(V)
      BY DEF V
    <3> QED
      BY <2>1, <3>1, FrontOf
  <2> DEFINE x == MergedLast(Last(s), v)
  <2>3. x \in V
    BY <2>2, MergedFields
  <2>4. MergeVisit(s, v) = Append(Front(s), x)
    BY <1>1 DEF MergeVisit, MergedLast
  <2>5. s \in Seq(V)
    OBVIOUS
  <2> HIDE DEF V, x
  <2>6. Relast(s, x, Append(Front(s), x)) /\ Append(Front(s), x) \in Seq(V)
    BY <2>1, <2>3, <2>5, LastReplaced
  <2> QED
    BY <2>2, <2>4, <2>6 DEF x
<1>2. ASSUME ~Flickers(s, v) PROVE MergeVisit(s, v) = Append(s, v) /\ MergeVisit(s, v) \in Seq(V)
  <2>1. MergeVisit(s, v) = Append(s, v)
    BY <1>2 DEF MergeVisit
  <2>2. s \in Seq(V) /\ v \in V
    OBVIOUS
  <2> HIDE DEF V
  <2>3. Append(s, v) \in Seq(V)
    BY <2>2
  <2> QED
    BY <2>1, <2>3
<1> QED
  BY <1>1, <1>2

\* f merges the visits one by one.
MergesUpTo(X, id, visits, f) ==
  /\ f \in [0..Len(visits) -> Seq(VisitSet(X, id))]
  /\ f[0] = <<>>
  /\ \A n \in 1..Len(visits) : f[n] = MergeVisit(f[n-1], visits[n])

LEMMA Merging ==
  ASSUME NEW X, NEW id, NEW visits \in Seq(VisitSet(X, id))
  PROVE  \E f : /\ MergesUpTo(X, id, visits, f)
                /\ MergeCloseVisits(visits) = IF MergeGap <= 0 THEN visits ELSE f[Len(visits)]
<1> DEFINE m == Len(visits)
           V == VisitSet(X, id)
           T == Seq(V)
           Step(f) == [n \in 0..m |-> IF n = 0 THEN <<>> ELSE MergeVisit(f[n-1], visits[n])]
           merged == CHOOSE f : f = Step(f)
           next == [n \in 1..m |-> [s \in T |-> MergeVisit(s, visits[n])]]
<1>1. m \in Nat /\ \A n \in 1..m : visits[n] \in V
  BY Items
<1>2. MergeCloseVisits(visits) = IF MergeGap <= 0 THEN visits ELSE merged[m]
  BY DEF MergeCloseVisits
<1>3. \A n \in 1..m, s \in T : next[n][s] \in T
  <2>1. \A n \in 1..m, s \in T : MergeVisit(s, visits[n]) \in T
    BY <1>1, MergeStep
  <2> HIDE DEF T, m
  <2> QED
    BY <2>1
<1>4. <<>> \in T
  OBVIOUS
<1> HIDE DEF m, T, next
<1>5. PICK f \in [0..m -> T] : f[0] = <<>> /\ \A n \in 1..m : f[n] = next[n][f[n-1]]
  <2> DEFINE none == <<>>
  <2>1. none \in T
    BY <1>4
  <2> HIDE DEF none
  <2>2. Iterates(T, m, none, next)
    BY <1>1, <1>3, <2>1, Iterated
  <2> QED
    BY <2>2 DEF none, Iterates
<1>6. \A n \in 1..m : f[n] = MergeVisit(f[n-1], visits[n])
  <2> TAKE n \in 1..m
  <2>1. n - 1 \in 0..m
    BY <1>1
  <2>2. f[n-1] \in T
    BY <2>1
  <2> QED
    BY <2>2, <1>5 DEF next
<1>7. f = Step(f)
  <2>1. \A n \in 0..m : n = 0 \/ n \in 1..m
    BY <1>1
  <2>2. \A n \in 0..m : f[n] = IF n = 0 THEN <<>> ELSE MergeVisit(f[n-1], visits[n])
    BY <2>1, <1>5, <1>6, <1>1
  <2>3. f = [n \in 0..m |-> f[n]]
    OBVIOUS
  <2> QED
    BY <2>2, <2>3
<1>8. merged = Step(merged)
  <2> HIDE DEF Step
  <2> QED
    BY <1>7
<1> HIDE DEF merged
<1> DEFINE Agree == {n \in Nat : n \in 0..m => merged[n] = f[n]}
<1>9. \A n \in 0..m : merged[n] = IF n = 0 THEN <<>> ELSE MergeVisit(merged[n-1], visits[n])
  BY <1>8
<1>10. 0 \in Agree
  BY <1>9, <1>5
<1>11. ASSUME NEW n \in Nat, n \in Agree PROVE n + 1 \in Agree
  <2> SUFFICES ASSUME n + 1 \in 0..m PROVE merged[n+1] = f[n+1]
    OBVIOUS
  <2>1. n \in 0..m /\ n + 1 \in 1..m /\ n + 1 # 0 /\ (n + 1) - 1 = n
    BY <1>1
  <2>2. merged[n] = f[n]
    BY <2>1, <1>11
  <2>3. merged[n+1] = MergeVisit(merged[n], visits[n+1])
    BY <2>1, <1>9
  <2>4. f[n+1] = MergeVisit(f[n], visits[n+1])
    BY <2>1, <1>6
  <2> QED
    BY <2>2, <2>3, <2>4
<1>12. m \in Agree
  <2> HIDE DEF Agree
  <2> QED
    BY <1>1, <1>10, <1>11, Induction
<1>13. merged[m] = f[m]
  BY <1>1, <1>12
<1>14. MergesUpTo(X, id, visits, f)
  BY <1>5, <1>6 DEF MergesUpTo, m, T
<1> QED
  BY <1>2, <1>13, <1>14 DEF m

\* Visits to one stop in a row are further apart than the gap.
Far(vs) ==
  \A n \in 1..(Len(vs) - 1) :
    vs[n].stop = vs[n + 1].stop => vs[n + 1].arrival - vs[n].departure > MergeGap

\* Counts of a list, without its last item and with it.
LEMMA CountsOfLast ==
  ASSUME NEW X, NEW id, NEW s \in Seq(VisitSet(X, id)), NEW n \in Nat, Len(s) = n + 1
  PROVE  LET f == [i \in 1..n |-> s[i].ping_count] IN
         Total(Counts(s)) = Total(f) + s[n + 1].ping_count /\ Total(f) \in Nat
<1> DEFINE f == [i \in 1..n |-> s[i].ping_count]
           g == Counts(s)
           V == VisitSet(X, id)
<1>1. \A i \in 1..(n + 1) : s[i] \in V
  BY Items
<1>2. \A v \in V : v.ping_count \in Nat
  BY DEF VisitSet
<1>3. DOMAIN g = 1..(n + 1) /\ \A i \in 1..(n + 1) : g[i] = s[i].ping_count
  BY DEF Counts
<1>4. DOMAIN f = 1..n /\ \A i \in 1..n : f[i] = g[i]
  BY <1>3
<1>5. \A i \in 1..(n + 1) : g[i] \in Nat
  BY <1>1, <1>2, <1>3
<1>6. n + 1 \in 1..(n + 1)
  OBVIOUS
<1> HIDE DEF f, g
<1>7. Total(g) = Total(f) + g[n + 1] /\ Total(f) \in Nat
  BY <1>3, <1>4, <1>5, TotalOfLast
<1> QED
  BY <1>3, <1>6, <1>7 DEF f, g

LEMMA MergeKeepsOne ==
  ASSUME NEW X, NEW id, NEW s \in Seq(VisitSet(X, id)), NEW v \in VisitSet(X, id),
         Follow(s), Far(s), v.arrival <= v.departure,
         s # <<>> => s[Len(s)].departure <= v.arrival
  PROVE  LET r == MergeVisit(s, v) IN
         /\ r \in Seq(VisitSet(X, id)) /\ Follow(r) /\ Far(r) /\ Len(r) \in Nat /\ Len(r) >= 1
         /\ r[Len(r)].departure = v.departure
         /\ Total(Counts(r)) = Total(Counts(s)) + v.ping_count
<1> DEFINE V == VisitSet(X, id)
           r == MergeVisit(s, v)
           l == Len(s)
<1>1. l \in Nat /\ r \in Seq(V) /\ \A i \in 1..l : s[i] \in V
  BY Items, MergeStep
<1>2. /\ \A a \in V : a.arrival \in Int /\ a.departure \in Int /\ a.ping_count \in Nat
      /\ MergeGap \in Int
  BY ServiceDayAssumption DEF VisitSet
<1>3. /\ \A n \in 1..l : s[n].arrival <= s[n].departure
      /\ \A n \in 1..(l - 1) : s[n].departure <= s[n + 1].arrival
      /\ \A n \in 1..(l - 1) :
           s[n].stop = s[n + 1].stop => s[n + 1].arrival - s[n].departure > MergeGap
  BY DEF Follow, Far
<1>4. CASE Flickers(s, v)
  <2> DEFINE x == MergedLast(Last(s), v)
             n == l - 1
  <2>1. Relast(s, x, r) /\ Last(s) = s[l] /\ Last(s) \in V
    BY <1>4, MergeStep
  <2>2. /\ l >= 1 /\ Len(r) = l /\ DOMAIN r = 1..l
        /\ \A i \in 1..(l - 1) : r[i] = s[i]
        /\ r[l] = x /\ s # <<>>
    BY <2>1 DEF Relast
  <2>3. /\ x.stop = s[l].stop /\ x.arrival = s[l].arrival /\ x.departure = v.departure
        /\ x.ping_count = s[l].ping_count + v.ping_count
    <3>1. PICK y \in VisitSet(X, id) : x = MergedLast(y, v) /\ y = s[l]
      BY <2>1
    <3> HIDE DEF x, l
    <3>2. /\ MergedLast(y, v).stop = y.stop /\ MergedLast(y, v).arrival = y.arrival
          /\ MergedLast(y, v).departure = v.departure
          /\ MergedLast(y, v).ping_count = y.ping_count + v.ping_count
      BY MergedFields
    <3> QED
      BY <3>1, <3>2
  <2> HIDE DEF x
  <2>4. n \in Nat /\ l = n + 1 /\ l \in 1..l
    BY <1>1, <2>2
  <2>5. s[l].arrival <= s[l].departure /\ s[l].departure <= v.arrival /\ x.arrival <= x.departure
    <3>1. s[l].arrival <= s[l].departure /\ s[l].departure <= v.arrival /\ s[l] \in V
      BY <1>1, <1>3, <2>2, <2>4
    <3> QED
      BY <3>1, <1>2, <2>3
  <2> HIDE DEF n, V, r, l
  <2>6. \A i \in 1..l : /\ r[i].arrival <= r[i].departure /\ r[i].arrival = s[i].arrival
                        /\ r[i].stop = s[i].stop
    <3> TAKE i \in 1..l
    <3>1. i = l \/ i \in 1..(l - 1)
      BY <1>1
    <3> QED
      BY <3>1, <1>3, <2>2, <2>3, <2>5
  <2>7. \A i \in 1..(l - 1) :
          /\ r[i].departure <= r[i + 1].arrival
          /\ r[i].stop = r[i + 1].stop => r[i + 1].arrival - r[i].departure > MergeGap
    <3> TAKE i \in 1..(l - 1)
    <3>1. i + 1 \in 1..l /\ i \in 1..l
      BY <1>1
    <3> QED
      BY <3>1, <1>3, <2>2, <2>6
  <2>8. Follow(r) /\ Far(r)
    BY <2>2, <2>6, <2>7 DEF Follow, Far
  <2> DEFINE f == [i \in 1..n |-> s[i].ping_count]
             g == [i \in 1..n |-> r[i].ping_count]
  <2>9. Total(Counts(s)) = Total(f) + s[n + 1].ping_count /\ Total(f) \in Nat
    <3>1. Len(s) = n + 1
      BY <2>4 DEF l
    <3> QED
      BY <3>1, <2>4, CountsOfLast
  <2>10. Total(Counts(r)) = Total(g) + r[n + 1].ping_count
    <3>1. Len(r) = n + 1 /\ r \in Seq(VisitSet(X, id))
      BY <2>2, <2>4, <1>1 DEF V
    <3> QED
      BY <3>1, <2>4, CountsOfLast
  <2>11. f = g
    <3>1. \A i \in 1..n : r[i] = s[i]
      BY <2>2 DEF n
    <3> QED
      BY <3>1
  <2>12. Total(Counts(r)) = Total(Counts(s)) + v.ping_count
    <3> DEFINE T == Total(f)
    <3>3. Total(g) = T /\ T \in Int
      <4> HIDE DEF f, g
      <4> QED
        BY <2>9, <2>11
    <3>4. Total(Counts(s)) = T + s[l].ping_count
      <4> HIDE DEF f
      <4> QED
        BY <2>4, <2>9
    <3>5. Total(Counts(r)) = T + x.ping_count
      <4> HIDE DEF f, g
      <4> QED
        BY <2>2, <2>4, <2>10, <3>3
    <3>1. Total(Counts(r)) = T + x.ping_count /\ Total(Counts(s)) = T + s[l].ping_count /\ T \in Int
      BY <3>3, <3>4, <3>5
    <3>2. s[l].ping_count \in Int /\ v.ping_count \in Int
      <4>1. s[l] \in V /\ v \in V
        BY <1>1, <2>4 DEF V
      <4> QED
        BY <4>1, <1>2
    <3> HIDE DEF T
    <3> QED
      BY <3>1, <3>2, <2>3
  <2>13. r[Len(r)].departure = v.departure /\ Len(r) \in Nat /\ Len(r) >= 1
    BY <2>2, <2>3, <1>1
  <2> QED
    BY <1>1, <2>8, <2>12, <2>13 DEF r, V
<1>5. CASE ~Flickers(s, v)
  <2>1. r = Append(s, v)
    BY <1>5, MergeStep
  <2>2. /\ Len(r) = l + 1 /\ DOMAIN r = 1..(l + 1)
        /\ \A i \in 1..l : r[i] = s[i]
        /\ r[l + 1] = v
    <3>1. s \in Seq(V) /\ v \in V
      OBVIOUS
    <3> HIDE DEF V, r
    <3> QED
      BY <2>1, <3>1, OneMore
  <2>3. ~(s # <<>> /\ Last(s).stop = v.stop /\ v.arrival - Last(s).departure \in 0..MergeGap)
    BY <1>5 DEF Flickers
  <2>4. l > 0 => s # <<>> /\ Last(s) = s[l] /\ s[l] \in V /\ s[l].departure <= v.arrival
    <3> SUFFICES ASSUME l > 0 PROVE s # <<>> /\ Last(s) = s[l] /\ s[l] \in V /\ s[l].departure <= v.arrival
      OBVIOUS
    <3>1. s # <<>> /\ l \in 1..l
      BY <1>1
    <3> QED
      BY <3>1, <1>1 DEF Last
  <2>5. l > 0 => /\ s[l].departure <= v.arrival
                 /\ s[l].stop = v.stop => v.arrival - s[l].departure > MergeGap
    <3> SUFFICES ASSUME l > 0
                 PROVE  /\ s[l].departure <= v.arrival
                        /\ s[l].stop = v.stop => v.arrival - s[l].departure > MergeGap
      OBVIOUS
    <3> DEFINE a == v.arrival
               d == s[l].departure
    <3>1. a \in Int /\ d \in Int /\ MergeGap \in Int /\ d <= a
      BY <1>2, <2>4
    <3>2. s[l].stop = v.stop => ~(a - d \in 0..MergeGap)
      BY <2>3, <2>4
    <3> HIDE DEF a, d
    <3>3. s[l].stop = v.stop => a - d > MergeGap
      BY <3>1, <3>2
    <3> QED
      BY <3>1, <3>3 DEF a, d
  <2> HIDE DEF V, r, l
  <2>6. \A i \in 1..(l + 1) : r[i].arrival <= r[i].departure
    <3> TAKE i \in 1..(l + 1)
    <3>1. i = l + 1 \/ i \in 1..l
      BY <1>1
    <3> QED
      BY <3>1, <1>3, <2>2
  <2>7. \A i \in 1..((l + 1) - 1) :
          /\ r[i].departure <= r[i + 1].arrival
          /\ r[i].stop = r[i + 1].stop => r[i + 1].arrival - r[i].departure > MergeGap
    <3> TAKE i \in 1..((l + 1) - 1)
    <3>1. CASE i = l
      <4>1. l > 0 /\ r[i] = s[l] /\ r[i + 1] = v
        BY <3>1, <1>1, <2>2
      <4> QED
        BY <4>1, <2>5
    <3>2. CASE i # l
      <4>1. i \in 1..(l - 1) /\ i \in 1..l /\ i + 1 \in 1..l
        BY <3>2, <1>1
      <4>2. r[i] = s[i] /\ r[i + 1] = s[i + 1]
        BY <4>1, <2>2
      <4> QED
        BY <4>1, <4>2, <1>3
    <3> QED
      BY <3>1, <3>2
  <2>8. Follow(r) /\ Far(r)
    BY <2>2, <2>6, <2>7 DEF Follow, Far
  <2> DEFINE g == [i \in 1..l |-> r[i].ping_count]
  <2>9. Total(Counts(r)) = Total(g) + r[l + 1].ping_count
    <3>1. Len(r) = l + 1 /\ r \in Seq(VisitSet(X, id))
      BY <2>2, <1>1 DEF V
    <3> QED
      BY <3>1, <1>1, CountsOfLast
  <2>10. g = Counts(s)
    <3>1. \A i \in 1..l : r[i].ping_count = s[i].ping_count
      BY <2>2
    <3> QED
      BY <3>1 DEF Counts, l
  <2>11. Total(Counts(r)) = Total(Counts(s)) + v.ping_count
    BY <2>2, <2>9, <2>10
  <2>12. r[Len(r)].departure = v.departure /\ Len(r) \in Nat /\ Len(r) >= 1
    BY <2>2, <1>1
  <2> QED
    BY <1>1, <2>8, <2>11, <2>12 DEF r, V
<1> QED
  BY <1>4, <1>5

\* Merging keeps the visits in order, apart, and counting every ping.
MergedWell(X, id, visits, merged) ==
  /\ merged \in Seq(VisitSet(X, id)) /\ Follow(merged)
  /\ MergeGap > 0 => Far(merged)
  /\ Total(Counts(merged)) = Total(Counts(visits))

MergedUpTo(X, id, visits, f, n) ==
  /\ f[n] \in Seq(VisitSet(X, id)) /\ Follow(f[n]) /\ Far(f[n])
  /\ n = 0 <=> f[n] = <<>>
  /\ n # 0 => f[n][Len(f[n])].departure = visits[n].departure
  /\ Total(Counts(f[n])) = Total([i \in 1..n |-> visits[i].ping_count])

\* It does so up to each visit.
LEMMA MergedSoFar ==
  ASSUME NEW X, NEW id, NEW visits \in Seq(VisitSet(X, id)), Follow(visits),
         NEW f, MergesUpTo(X, id, visits, f)
  PROVE  \A n \in 0..Len(visits) : MergedUpTo(X, id, visits, f, n)
<1> DEFINE V == VisitSet(X, id)
           m == Len(visits)
           Cnt(n) == [i \in 1..n |-> visits[i].ping_count]
           Sound(n) == /\ f[n] \in Seq(V) /\ Follow(f[n]) /\ Far(f[n])
                       /\ n = 0 <=> f[n] = <<>>
                       /\ n # 0 => f[n][Len(f[n])].departure = visits[n].departure
                       /\ Total(Counts(f[n])) = Total(Cnt(n))
           Good == {n \in Nat : n \in 0..m => Sound(n)}
<1>1. m \in Nat /\ \A n \in 1..m : visits[n] \in V
  BY Items
<1>2. /\ \A n \in 1..m : visits[n].arrival <= visits[n].departure
      /\ \A n \in 1..(m - 1) : visits[n].departure <= visits[n + 1].arrival
  BY DEF Follow
<1>3. /\ f[0] = <<>>
      /\ \A n \in 0..m : f[n] \in Seq(V)
      /\ \A n \in 1..m : f[n] = MergeVisit(f[n-1], visits[n])
  BY DEF MergesUpTo
<1>4. \A v \in V : v.ping_count \in Nat
  BY DEF VisitSet
<1> HIDE DEF m
<1>5. 0 \in Good
  <2>1. Len(<<>>) = 0 /\ <<>> \in Seq(V)
    OBVIOUS
  <2>2. Follow(<<>>) /\ Far(<<>>)
    BY <2>1 DEF Follow, Far
  <2>3. Counts(<<>>) = Cnt(0)
    BY <2>1 DEF Counts
  <2> HIDE DEF Cnt, V
  <2> QED
    BY <1>3, <2>1, <2>2, <2>3
<1>6. ASSUME NEW n \in Nat, n \in Good PROVE n + 1 \in Good
  <2> SUFFICES ASSUME n + 1 \in 0..m PROVE Sound(n + 1)
    OBVIOUS
  <2>1. n \in 0..m /\ n + 1 \in 1..m /\ (n + 1) - 1 = n
    BY <1>1
  <2>2. Sound(n)
    <3> HIDE DEF Sound
    <3> QED
      BY <1>6, <2>1
  <2> DEFINE s == f[n]
             v == visits[n + 1]
             r == f[n + 1]
  <2>3. r = MergeVisit(s, v) /\ s \in Seq(V) /\ v \in V
    BY <1>1, <1>3, <2>1
  <2>4. v.arrival <= v.departure
    BY <1>2, <2>1
  <2>5. s # <<>> => s[Len(s)].departure <= v.arrival
    <3> SUFFICES ASSUME s # <<>> PROVE s[Len(s)].departure <= v.arrival
      OBVIOUS
    <3>1. n # 0
      BY <2>2
    <3>2. n \in 1..(m - 1)
      BY <3>1, <2>1, <1>1
    <3> QED
      BY <3>1, <3>2, <1>2, <2>2
  <2>6. Follow(s) /\ Far(s) /\ Total(Counts(s)) = Total(Cnt(n))
    BY <2>2
  <2> HIDE DEF s, r, v
  <2>7. /\ r \in Seq(V) /\ Follow(r) /\ Far(r) /\ Len(r) \in Nat /\ Len(r) >= 1
        /\ r[Len(r)].departure = v.departure
        /\ Total(Counts(r)) = Total(Counts(s)) + v.ping_count
    BY <2>3, <2>4, <2>5, <2>6, MergeKeepsOne
  <2>8. Total(Cnt(n + 1)) = Total(Cnt(n)) + v.ping_count
    <3> DEFINE a == Cnt(n)
               b == Cnt(n + 1)
    <3>1. /\ DOMAIN a = 1..n /\ DOMAIN b = 1..(n + 1)
          /\ \A i \in 1..n : a[i] = b[i]
          /\ b[n + 1] = v.ping_count
      BY DEF v
    <3>2. \A i \in 1..(n + 1) : b[i] \in Nat
      <4> TAKE i \in 1..(n + 1)
      <4>1. visits[i] \in V
        BY <1>1, <2>1
      <4> QED
        BY <4>1, <1>4
    <3> HIDE DEF a, b
    <3>3. Total(b) = Total(a) + b[n + 1]
      BY <3>1, <3>2, TotalOfLast
    <3> QED
      BY <3>1, <3>3 DEF a, b
  <2>9. r # <<>> /\ n + 1 # 0
    BY <2>7
  <2> HIDE DEF Cnt, V
  <2>10. Total(Counts(r)) = Total(Cnt(n + 1))
    BY <2>6, <2>7, <2>8
  <2> QED
    BY <2>7, <2>9, <2>10 DEF r, v
<1>7. Nat \subseteq Good
  <2> HIDE DEF Good
  <2> QED
    BY <1>5, <1>6, Induction
<1>8. \A n \in 0..m : Sound(n)
  <2> TAKE n \in 0..m
  <2>1. n \in Nat
    BY <1>1
  <2> HIDE DEF Sound
  <2> QED
    BY <2>1, <1>7
<1>9. \A n \in 0..m : MergedUpTo(X, id, visits, f, n)
  <2> TAKE n \in 0..m
  <2>1. Sound(n)
    <3> HIDE DEF Sound
    <3> QED
      BY <1>8
  <2> QED
    BY <2>1 DEF MergedUpTo
<1> QED
  BY <1>9 DEF m

LEMMA MergeKeeps ==
  ASSUME NEW X, NEW id, NEW visits \in Seq(VisitSet(X, id)), Follow(visits)
  PROVE  MergedWell(X, id, visits, MergeCloseVisits(visits))
<1> DEFINE m == Len(visits)
           V == VisitSet(X, id)
<1>1. PICK f : /\ MergesUpTo(X, id, visits, f)
               /\ MergeCloseVisits(visits) = IF MergeGap <= 0 THEN visits ELSE f[m]
  BY Merging
<1>2. m \in Nat /\ m \in 0..m /\ MergeGap \in Int
  BY Items, ServiceDayAssumption
<1>3. CASE MergeGap <= 0
  <2>1. MergeCloseVisits(visits) = visits /\ ~(MergeGap > 0)
    BY <1>1, <1>2, <1>3
  <2> QED
    BY <2>1 DEF MergedWell
<1>4. CASE ~(MergeGap <= 0)
  <2>1. MergeCloseVisits(visits) = f[m]
    BY <1>1, <1>4
  <2>2. /\ f[m] \in Seq(V) /\ Follow(f[m]) /\ Far(f[m])
        /\ Total(Counts(f[m])) = Total([i \in 1..m |-> visits[i].ping_count])
    <3>1. MergedUpTo(X, id, visits, f, m)
      BY <1>1, <1>2, MergedSoFar
    <3> HIDE DEF m
    <3> QED
      BY <3>1 DEF MergedUpTo
  <2>3. [i \in 1..m |-> visits[i].ping_count] = Counts(visits)
    BY DEF Counts
  <2> HIDE DEF m
  <2> QED
    BY <2>1, <2>2, <2>3 DEF MergedWell
<1> QED
  BY <1>3, <1>4

-----------------------------------------------------------------------------
(* The visits of a day.                                                    *)

LEMMA DwellsAre ==
  ASSUME NEW partition, DayOfPings(partition), NEW id
  PROVE  LET rows == RowsByVehicle(partition, id)
             vs == Dwells(partition, id)
             dwelling == {i \in DOMAIN rows : IsDwelling(rows[i], PublishesStoppedAt(partition))}
         IN /\ vs \in Seq(VisitSet(Named(rows), id))
            /\ Follow(vs)
            /\ MergeGap > 0 => Far(vs)
            /\ Total(Counts(vs)) = Cardinality(dwelling)
<1> DEFINE rows == RowsByVehicle(partition, id)
           p == PublishesStoppedAt(partition)
           X == Named(rows)
           raw == RawVisits(id, Runs(rows, p), p)
           dwelling == {i \in DOMAIN rows : IsDwelling(rows[i], p)}
<1>1. Timed(rows)
  BY RowsTimed
<1>2. p \in BOOLEAN
  BY DEF PublishesStoppedAt
<1>3. Dwells(partition, id) = MergeCloseVisits(raw)
  BY DEF Dwells, RawVisits
<1> HIDE DEF rows, p
<1>4. /\ raw \in Seq(VisitSet(X, id)) /\ Follow(raw)
      /\ Total(Counts(raw)) = Cardinality(dwelling)
  BY <1>1, <1>2, RawAre
<1> HIDE DEF raw, X, dwelling
<1>5. MergedWell(X, id, raw, MergeCloseVisits(raw))
  BY <1>4, MergeKeeps
<1>6. /\ MergeCloseVisits(raw) \in Seq(VisitSet(X, id)) /\ Follow(MergeCloseVisits(raw))
      /\ MergeGap > 0 => Far(MergeCloseVisits(raw))
      /\ Total(Counts(MergeCloseVisits(raw))) = Cardinality(dwelling)
  BY <1>4, <1>5 DEF MergedWell
<1> QED
  BY <1>3, <1>6 DEF rows, p, X, dwelling

\* The invariant of a vehicle's day: rows of the kinds of feed there are, whose
\* times are times of the day or missing.
DayInv ==
  /\ shapes \in PingFeeds
  /\ DayOfPings(pings)

LEMMA Apart == DayInv => VisitsAreApart
<1> SUFFICES ASSUME DayInv, NEW id \in ToSet(VehicleIds(pings))
             PROVE  LET vs == Dwells(pings, id) IN
                    /\ \A n \in DOMAIN vs : vs[n].vehicle = id /\ vs[n].arrival <= vs[n].departure
                    /\ \A n \in 1..(Len(vs) - 1) :
                         LET gap == vs[n + 1].arrival - vs[n].departure IN
                         gap >= 0 /\ (vs[n].stop = vs[n + 1].stop /\ MergeGap > 0 => gap > MergeGap)
  BY DEF VisitsAreApart
<1> DEFINE vs == Dwells(pings, id)
           V == VisitSet(Named(RowsByVehicle(pings, id)), id)
<1>1. vs \in Seq(V) /\ Follow(vs) /\ (MergeGap > 0 => Far(vs))
  BY DwellsAre DEF DayInv
<1>2. \A v \in V : v.vehicle = id /\ v.arrival \in Int /\ v.departure \in Int
  BY DEF VisitSet
<1> HIDE DEF vs, V
<1>3. Len(vs) \in Nat /\ DOMAIN vs = 1..Len(vs) /\ \A n \in 1..Len(vs) : vs[n] \in V
  BY <1>1, Items
<1>4. \A n \in DOMAIN vs : vs[n].vehicle = id /\ vs[n].arrival <= vs[n].departure
  BY <1>1, <1>2, <1>3 DEF Follow
<1>5. ASSUME NEW n \in 1..(Len(vs) - 1)
      PROVE  /\ vs[n + 1].arrival - vs[n].departure >= 0
             /\ vs[n].stop = vs[n + 1].stop /\ MergeGap > 0
                  => vs[n + 1].arrival - vs[n].departure > MergeGap
  <2>1. n \in 1..Len(vs) /\ n + 1 \in 1..Len(vs)
    BY <1>3
  <2>2. vs[n].departure \in Int /\ vs[n + 1].arrival \in Int
    BY <2>1, <1>2, <1>3
  <2>3. vs[n].departure <= vs[n + 1].arrival
    BY <1>1 DEF Follow
  <2>4. vs[n].stop = vs[n + 1].stop /\ MergeGap > 0
          => vs[n + 1].arrival - vs[n].departure > MergeGap
    BY <1>1 DEF Far
  <2> QED
    BY <2>2, <2>3, <2>4
<1> QED
  BY <1>4, <1>5 DEF vs

LEMMA Counted == DayInv => EveryDwellingPingCounted
<1> SUFFICES ASSUME DayInv, NEW id \in ToSet(VehicleIds(pings))
             PROVE  LET vs == Dwells(pings, id)
                        rows == RowsByVehicle(pings, id)
                    IN Total([n \in DOMAIN vs |-> vs[n].ping_count])
                         = Cardinality({i \in DOMAIN rows : IsDwelling(rows[i], PublishesStoppedAt(pings))})
  BY DEF EveryDwellingPingCounted
<1> DEFINE rows == RowsByVehicle(pings, id)
           vs == Dwells(pings, id)
           V == VisitSet(Named(rows), id)
           D == {i \in DOMAIN rows : IsDwelling(rows[i], PublishesStoppedAt(pings))}
<1>1. vs \in Seq(V) /\ Total(Counts(vs)) = Cardinality(D)
  BY DwellsAre DEF DayInv
<1> HIDE DEF vs, V, rows, D
<1>2. DOMAIN vs = 1..Len(vs)
  BY <1>1, Items
<1>3. [n \in DOMAIN vs |-> vs[n].ping_count] = Counts(vs)
  BY <1>2 DEF Counts
<1> QED
  BY <1>1, <1>3 DEF vs, rows, D

\* What every visit of a day is.
Stated(v) ==
  /\ v.arrival \in 0..MaxTime /\ v.departure \in 0..MaxTime /\ v.arrival <= v.departure
  /\ v.stop # Absent

LEMMA DayVisitsAre ==
  ASSUME NEW partition, DayOfPings(partition)
  PROVE  /\ IsList(DayVisits(partition))
         /\ \A v \in ToSet(DayVisits(partition)) : Stated(v)
<1> DEFINE ids == VehicleIds(partition)
           lists == [n \in DOMAIN ids |-> Dwells(partition, ids[n])]
           m == Len(ids)
<1>1. IsList(ids)
  <2> DEFINE owners == [i \in DOMAIN partition |-> Owner(partition[i])]
             First(i) == /\ Reporting(partition[i])
                         /\ \A j \in 1..(i - 1) :
                              Reporting(partition[j]) => Owner(partition[j]) # Owner(partition[i])
             places == {i \in DOMAIN partition : First(i)}
             k == Len(partition)
  <2>1. ids = ItemsAt(owners, places)
    BY DEF VehicleIds
  <2>2. k \in Nat /\ owners = [i \in 1..k |-> owners[i]]
    BY ListOf DEF DayOfPings
  <2> HIDE DEF owners, places, ids, k
  <2>3. IsList(owners)
    BY <2>2, MadeList
  <2>4. owners \in Seq(ToSet(owners))
    BY <2>3 DEF IsList
  <2>5. ids \in Seq(ToSet(owners))
    BY <2>1, <2>4, KeptLines
  <2> QED
    BY <2>5, ListOf
<1>2. m \in Nat /\ DOMAIN ids = 1..m
  BY <1>1, ListOf
<1>3. DayVisits(partition) = FlattenSeq(lists)
  BY DEF DayVisits
<1> HIDE DEF ids, m
<1>4. lists = [n \in 1..m |-> lists[n]] /\ \A n \in 1..m : lists[n] = Dwells(partition, ids[n])
  BY <1>2
<1>5. ASSUME NEW id
      PROVE IsList(Dwells(partition, id)) /\ \A v \in ToSet(Dwells(partition, id)) : Stated(v)
  <2> DEFINE vs == Dwells(partition, id)
             V == VisitSet(Named(RowsByVehicle(partition, id)), id)
  <2>1. vs \in Seq(V) /\ Follow(vs)
    BY DwellsAre
  <2>2. \A v \in V : v.arrival \in 0..MaxTime /\ v.departure \in 0..MaxTime /\ v.stop # Absent
    BY DEF VisitSet
  <2> HIDE DEF vs, V
  <2>3. /\ \A n \in 1..Len(vs) : vs[n] \in V
        /\ ToSet(vs) = {vs[n] : n \in 1..Len(vs)}
    BY <2>1, Items
  <2>4. \A n \in 1..Len(vs) : vs[n].arrival <= vs[n].departure
    BY <2>1 DEF Follow
  <2>5. \A v \in ToSet(vs) : Stated(v)
    BY <2>2, <2>3, <2>4 DEF Stated
  <2>6. IsList(vs)
    BY <2>1, ListOf
  <2> QED
    BY <2>5, <2>6 DEF vs
<1> HIDE DEF lists
<1>6. \A n \in 1..m : IsList(lists[n]) /\ \A v \in ToSet(lists[n]) : Stated(v)
  BY <1>4, <1>5
<1>7. /\ IsList(FlattenSeq(lists))
      /\ ToSet(FlattenSeq(lists)) = UNION {ToSet(lists[n]) : n \in 1..m}
  BY <1>2, <1>4, <1>6, FlattenedLists
<1> QED
  BY <1>3, <1>6, <1>7

-----------------------------------------------------------------------------
(* Rollups.                                                                *)

\* The parts of the keys of a set of rows.
StopKeys(S, r, d, st, dt) == [x \in S |-> <<r[x], d[x], st[x], dt[x]>>]

RouteKeys(S, r, d, dt) == [x \in S |-> <<r[x], d[x], dt[x]>>]

\* The stops of a route have together the rows of the route.
RolledUp(S, r, d, st, dt, k) ==
  LET fine == StopKeys(S, r, d, st, dt)
      coarse == RouteKeys(S, r, d, dt)
      bucket == {x \in S : coarse[x] = k}
      stops == {s \in Range(fine) : <<s[1], s[2], s[4]>> = k}
  IN /\ Cardinality({st[x] : x \in bucket}) = Cardinality(stops)
     /\ Cardinality(bucket) = Total([s \in stops |-> Cardinality({x \in S : fine[x] = s})])

LEMMA RollUp ==
  ASSUME NEW S, IsFiniteSet(S), NEW r, NEW d, NEW st, NEW dt, NEW k
  PROVE  RolledUp(S, r, d, st, dt, k)
<1> DEFINE fine == StopKeys(S, r, d, st, dt)
           coarse == RouteKeys(S, r, d, dt)
           bucket == {x \in S : coarse[x] = k}
           stops == {s \in Range(fine) : <<s[1], s[2], s[4]>> = k}
           names == {st[x] : x \in bucket}
           Of(s) == {x \in S : fine[x] = s}
           f == [s \in stops |-> Cardinality(Of(s))]
           key == [x \in bucket |-> fine[x]]
<1>1. \A x \in S : fine[x] = <<r[x], d[x], st[x], dt[x]>> /\ coarse[x] = <<r[x], d[x], dt[x]>>
  BY DEF StopKeys, RouteKeys
<1>2. Range(fine) = {fine[x] : x \in S}
  BY DEF StopKeys, Range
<1> HIDE DEF fine, coarse
<1>3. \A x \in S : fine[x][1] = r[x] /\ fine[x][2] = d[x] /\ fine[x][3] = st[x] /\ fine[x][4] = dt[x]
  BY <1>1
<1>4. \A x \in S : <<fine[x][1], fine[x][2], fine[x][4]>> = coarse[x]
  BY <1>1, <1>3
<1>5. /\ \A x \in bucket : x \in S /\ fine[x] \in stops
      /\ \A s \in stops : \E x \in bucket : fine[x] = s
      /\ \A x \in S : fine[x] \in stops => x \in bucket
  <2>1. \A x \in bucket : x \in S /\ fine[x] \in stops
    BY <1>2, <1>4
  <2>2. ASSUME NEW s \in stops PROVE \E x \in bucket : fine[x] = s
    <3>1. PICK x \in S : fine[x] = s
      BY <1>2
    <3>2. coarse[x] = k
      BY <3>1, <1>4
    <3> QED
      BY <3>1, <3>2
  <2>3. \A x \in S : fine[x] \in stops => x \in bucket
    BY <1>4
  <2> QED
    BY <2>1, <2>2, <2>3
<1>6. IsFiniteSet(bucket)
  <2>1. bucket \subseteq S
    OBVIOUS
  <2> HIDE DEF bucket
  <2> QED
    BY <2>1, FS_Subset
<1>7. IsFiniteSet(stops)
  <2>1. stops = {key[x] : x \in DOMAIN key} /\ DOMAIN key = bucket
    <3> HIDE DEF stops, bucket
    <3> QED
      BY <1>5
  <2> HIDE DEF stops, key, bucket
  <2> QED
    BY <2>1, <1>6, MadeFinite
<1>8. Cardinality(names) = Cardinality(stops)
  <2> DEFINE g == [s \in stops |-> s[3]]
  <2>1. \A s \in stops : g[s] = s[3] /\ g[s] \in names
    <3> TAKE s \in stops
    <3>1. PICK x \in bucket : fine[x] = s
      BY <1>5
    <3>2. s[3] = st[x]
      BY <3>1, <1>3
    <3> QED
      BY <3>2
  <2>2. \A s, u \in stops : g[s] = g[u] => s = u
    <3> SUFFICES ASSUME NEW s \in stops, NEW u \in stops, g[s] = g[u] PROVE s = u
      OBVIOUS
    <3>1. PICK x \in bucket : fine[x] = s
      BY <1>5
    <3>2. PICK y \in bucket : fine[y] = u
      BY <1>5
    <3>3. st[x] = st[y]
      BY <3>1, <3>2, <1>3
    <3>4. <<r[x], d[x], dt[x]>> = <<r[y], d[y], dt[y]>>
      BY <1>1
    <3>5. r[x] = r[y] /\ d[x] = d[y] /\ dt[x] = dt[y]
      BY <3>4
    <3>6. x \in S /\ y \in S
      OBVIOUS
    <3> HIDE DEF g, bucket, stops
    <3> QED
      BY <3>1, <3>2, <3>3, <3>5, <3>6, <1>1
  <2>3. \A n \in names : \E s \in stops : g[s] = n
    <3> TAKE n \in names
    <3>1. PICK x \in bucket : n = st[x]
      OBVIOUS
    <3>2. fine[x] \in stops /\ fine[x][3] = n
      BY <3>1, <1>3, <1>5
    <3> HIDE DEF stops
    <3> QED
      BY <3>2
  <2>4. g \in [stops -> names]
    <3> HIDE DEF stops, names
    <3> QED
      BY <2>1
  <2> HIDE DEF g, stops, names
  <2> QED
    BY <2>2, <2>3, <2>4, <1>7, Paired
<1>9. Cardinality(bucket) = Total(f)
  <2>1. key \in [bucket -> stops]
    <3> HIDE DEF stops, bucket
    <3> QED
      BY <1>5
  <2>2. \A s \in stops : Of(s) = {x \in bucket : key[x] = s}
    <3> TAKE s \in stops
    <3>1. \A x \in S : fine[x] = s => x \in bucket
      BY <1>5
    <3> HIDE DEF stops
    <3> QED
      BY <3>1
  <2>3. DOMAIN f = stops /\ \A s \in stops : f[s] = Cardinality({x \in bucket : key[x] = s})
    <3> HIDE DEF stops, key, bucket, Of
    <3> QED
      BY <2>2
  <2> HIDE DEF stops, key, bucket, f
  <2> QED
    BY <2>1, <2>3, <1>6, <1>7, TotalByKey
<1> QED
  BY <1>8, <1>9 DEF RolledUp, fine, coarse

\* Every row of a set is in one of three classes.
LEMMA ThreeClasses ==
  ASSUME NEW S, IsFiniteSet(S), NEW class, \A x \in S : class[x] \in {"early", "on_time", "late"}
  PROVE  Cardinality(S) = Total([c \in {"early", "on_time", "late"} |->
                                   Cardinality({x \in S : class[x] = c})])
<1> DEFINE K == {"early", "on_time", "late"}
           f == [c \in K |-> Cardinality({x \in S : class[x] = c})]
           key == [x \in S |-> class[x]]
<1>1. IsFiniteSet(K)
  <2>1. IsFiniteSet({"early"}) /\ IsFiniteSet({"on_time"}) /\ IsFiniteSet({"late"})
    BY FS_Singleton
  <2>2. IsFiniteSet({"early"} \cup {"on_time"})
    BY <2>1, FS_Union
  <2>3. IsFiniteSet(({"early"} \cup {"on_time"}) \cup {"late"})
    BY <2>1, <2>2, FS_Union
  <2>4. K = ({"early"} \cup {"on_time"}) \cup {"late"}
    OBVIOUS
  <2> QED
    BY <2>3, <2>4
<1>2. key \in [S -> K]
  OBVIOUS
<1>3. \A c \in K : {x \in S : class[x] = c} = {x \in S : key[x] = c}
  OBVIOUS
<1>4. DOMAIN f = K /\ \A c \in K : f[c] = Cardinality({x \in S : key[x] = c})
  BY <1>3
<1> HIDE DEF K, f, key
<1>5. Total(f) = Cardinality(S)
  BY <1>1, <1>2, <1>4, TotalByKey
<1> QED
  BY <1>5 DEF f, K

LEMMA GroupedIs ==
  ASSUME NEW key
  PROVE  /\ DOMAIN Grouped(key) = Range(key)
         /\ \A k \in Range(key) : Grouped(key)[k] = {i \in DOMAIN key : key[i] = k}
BY DEF Grouped

\* The schedule-free marts.
LEMMA MartsRollUp ==
  ASSUME NEW visits, IsList(visits), \A v \in ToSet(visits) : Stated(v)
  PROVE  LET byStop == StopDay(visits)
             byRoute == RouteDay(visits)
         IN \A k \in DOMAIN byRoute :
              LET stops == {s \in DOMAIN byStop : <<s[1], s[2], s[4]>> = k} IN
              /\ byRoute[k].distinct_stop_count = Cardinality(stops)
              /\ byRoute[k].visit_count = Total([s \in stops |-> byStop[s].visit_count])
<1> DEFINE byStop == StopDay(visits)
           byRoute == RouteDay(visits)
           S == Routed(visits)
           r == [i \in S |-> visits[i].route]
           d == [i \in S |-> visits[i].direction]
           st == [i \in S |-> visits[i].stop]
           dt == [i \in S |-> ServiceDate(visits[i].arrival)]
           fine == StopKeys(S, r, d, st, dt)
           coarse == RouteKeys(S, r, d, dt)
           fineKey == [i \in S |-> StopKey(visits[i])]
           coarseKey == [i \in S |-> RouteKey(visits[i])]
<1>1. IsFiniteSet(S) /\ \A i \in S : i \in DOMAIN visits /\ visits[i] \in ToSet(visits)
  <2>1. S \subseteq 1..Len(visits) /\ IsFiniteSet(1..Len(visits))
    <3>1. Len(visits) \in Nat /\ DOMAIN visits = 1..Len(visits)
      BY ListOf
    <3>2. S \subseteq 1..Len(visits)
      BY <3>1 DEF Routed
    <3> QED
      BY <3>1, <3>2, FS_Interval
  <2>2. IsFiniteSet(S)
    <3> HIDE DEF S
    <3> QED
      BY <2>1, FS_Subset
  <2>3. \A i \in S : i \in DOMAIN visits /\ visits[i] \in ToSet(visits)
    BY DEF Routed, ToSet
  <2> QED
    BY <2>2, <2>3
<1>2. \A i \in S : visits[i].stop # Absent
  BY <1>1 DEF Stated
<1>3. fine = fineKey
  BY DEF StopKeys, StopKey
<1>4. coarse = coarseKey
  BY DEF RouteKeys, RouteKey
<1> HIDE DEF S
<1>5. /\ DOMAIN byStop = Range(fine)
      /\ \A s \in Range(fine) : byStop[s].visit_count = Cardinality({i \in S : fine[i] = s})
  <2> DEFINE buckets == Grouped(fineKey)
  <2>1. byStop = [k \in DOMAIN buckets |-> MartRow(visits, buckets[k])]
    BY DEF StopDay, S
  <2>2. DOMAIN fineKey = S
    OBVIOUS
  <2> HIDE DEF fineKey, fine, buckets, byStop
  <2>3. /\ DOMAIN buckets = Range(fine)
        /\ \A k \in Range(fine) : buckets[k] = {i \in S : fine[i] = k}
    BY <1>3, <2>2, GroupedIs DEF buckets
  <2>4. \A s \in Range(fine) : byStop[s].visit_count = Cardinality(buckets[s])
    BY <2>1, <2>3 DEF MartRow
  <2> QED
    BY <2>1, <2>3, <2>4
<1>6. /\ DOMAIN byRoute = Range(coarse)
      /\ \A k \in Range(coarse) :
           LET bucket == {i \in S : coarse[i] = k} IN
           /\ byRoute[k].visit_count = Cardinality(bucket)
           /\ byRoute[k].distinct_stop_count = Cardinality({visits[i].stop : i \in bucket})
  <2> DEFINE buckets == Grouped(coarseKey)
             names(b) == {visits[i].stop : i \in b}
  <2>1. byRoute = [k \in DOMAIN buckets |-> MartRow(visits, buckets[k])]
    BY DEF RouteDay, S
  <2>2. DOMAIN coarseKey = S
    OBVIOUS
  <2> HIDE DEF coarseKey, coarse, buckets, byRoute
  <2>3. /\ DOMAIN buckets = Range(coarse)
        /\ \A k \in Range(coarse) : buckets[k] = {i \in S : coarse[i] = k}
    BY <1>4, <2>2, GroupedIs DEF buckets
  <2>4. \A k \in Range(coarse) : /\ byRoute[k].visit_count = Cardinality(buckets[k])
                                 /\ byRoute[k].distinct_stop_count = Distinct(names(buckets[k]))
    BY <2>1, <2>3 DEF MartRow
  <2>5. \A k \in Range(coarse) : Distinct(names(buckets[k])) = Cardinality(names(buckets[k]))
    <3> TAKE k \in Range(coarse)
    <3>1. Absent \notin names(buckets[k])
      BY <1>2, <2>3
    <3>2. names(buckets[k]) \ {Absent} = names(buckets[k])
      BY <3>1
    <3> QED
      BY <3>2 DEF Distinct
  <2> QED
    BY <2>1, <2>3, <2>4, <2>5
<1> SUFFICES ASSUME NEW k \in DOMAIN byRoute
             PROVE  LET stops == {s \in DOMAIN byStop : <<s[1], s[2], s[4]>> = k} IN
                    /\ byRoute[k].distinct_stop_count = Cardinality(stops)
                    /\ byRoute[k].visit_count = Total([s \in stops |-> byStop[s].visit_count])
  OBVIOUS
<1> DEFINE stops == {s \in DOMAIN byStop : <<s[1], s[2], s[4]>> = k}
           kids == {s \in Range(fine) : <<s[1], s[2], s[4]>> = k}
           bucket == {i \in S : coarse[i] = k}
<1>7. RolledUp(S, r, d, st, dt, k)
  <2> HIDE DEF r, d, st, dt
  <2> QED
    BY <1>1, RollUp
<1>8. {st[i] : i \in bucket} = {visits[i].stop : i \in bucket}
  <2>1. \A i \in bucket : st[i] = visits[i].stop
    OBVIOUS
  <2> HIDE DEF bucket, st
  <2> QED
    BY <2>1
<1> HIDE DEF r, d, st, dt
<1>9. /\ Cardinality({st[i] : i \in bucket}) = Cardinality(kids)
      /\ Cardinality(bucket) = Total([s \in kids |-> Cardinality({i \in S : fine[i] = s})])
  BY <1>7 DEF RolledUp
<1> HIDE DEF fine, coarse, fineKey, coarseKey, byStop, byRoute
<1>10. stops = kids
  BY <1>5
<1>11. [s \in kids |-> Cardinality({i \in S : fine[i] = s})] = [s \in stops |-> byStop[s].visit_count]
  <2>1. \A s \in kids : byStop[s].visit_count = Cardinality({i \in S : fine[i] = s})
    BY <1>5
  <2> HIDE DEF stops, kids
  <2> QED
    BY <2>1, <1>10
<1>12. /\ byRoute[k].visit_count = Cardinality(bucket)
       /\ byRoute[k].distinct_stop_count = Cardinality({visits[i].stop : i \in bucket})
  BY <1>6
<1>13. /\ byRoute[k].distinct_stop_count = Cardinality(stops)
       /\ byRoute[k].visit_count = Total([s \in stops |-> byStop[s].visit_count])
  <2> HIDE DEF stops, kids, bucket
  <2> QED
    BY <1>8, <1>9, <1>10, <1>11, <1>12
<1> QED
  BY <1>13

\* The on-time marts.
LEMMA OtpRollUp ==
  ASSUME NEW facts, IsFiniteSet(facts)
  PROVE  LET byStop == StopDayOtp(facts)
             byRoute == RouteDayOtp(facts)
         IN \A k \in DOMAIN byRoute :
              LET stops == {s \in DOMAIN byStop : <<s[1], s[2], s[4]>> = k} IN
              /\ byRoute[k].distinct_stop_count = Cardinality(stops)
              /\ byRoute[k].matched_count = Total([s \in stops |-> byStop[s].matched_count])
              /\ byRoute[k].matched_count = Total(byRoute[k].counts)
<1> DEFINE byStop == StopDayOtp(facts)
           byRoute == RouteDayOtp(facts)
           r == [f \in facts |-> f.route]
           d == [f \in facts |-> f.direction]
           st == [f \in facts |-> f.stop]
           dt == [f \in facts |-> f.service_date]
           fine == StopKeys(facts, r, d, st, dt)
           coarse == RouteKeys(facts, r, d, dt)
           fineKey == [f \in facts |-> OtpStopKey(f)]
           coarseKey == [f \in facts |-> OtpRouteKey(f)]
           K == {"early", "on_time", "late"}
<1>1. fine = fineKey
  BY DEF StopKeys, OtpStopKey
<1>2. coarse = coarseKey
  BY DEF RouteKeys, OtpRouteKey
<1>3. /\ DOMAIN byStop = Range(fine)
      /\ \A s \in Range(fine) : byStop[s].matched_count = Cardinality({f \in facts : fine[f] = s})
  <2> DEFINE buckets == Grouped(fineKey)
  <2>1. byStop = [k \in DOMAIN buckets |-> OtpRow(buckets[k])]
    BY DEF StopDayOtp
  <2>2. DOMAIN fineKey = facts
    OBVIOUS
  <2> HIDE DEF fineKey, fine, buckets, byStop
  <2>3. /\ DOMAIN buckets = Range(fine)
        /\ \A k \in Range(fine) : buckets[k] = {f \in facts : fine[f] = k}
    BY <1>1, <2>2, GroupedIs DEF buckets
  <2>4. \A s \in Range(fine) : byStop[s].matched_count = Cardinality(buckets[s])
    BY <2>1, <2>3 DEF OtpRow
  <2> QED
    BY <2>1, <2>3, <2>4
<1>4. /\ DOMAIN byRoute = Range(coarse)
      /\ \A k \in Range(coarse) :
           LET bucket == {f \in facts : coarse[f] = k} IN
           /\ byRoute[k].matched_count = Cardinality(bucket)
           /\ byRoute[k].distinct_stop_count = Cardinality({f.stop : f \in bucket})
           /\ byRoute[k].counts = [s \in K |-> Cardinality({f \in bucket : Classify(f.basis) = s})]
  <2> DEFINE buckets == Grouped(coarseKey)
  <2>1. byRoute = [k \in DOMAIN buckets |-> OtpRow(buckets[k])]
    BY DEF RouteDayOtp
  <2>2. DOMAIN coarseKey = facts
    OBVIOUS
  <2> HIDE DEF coarseKey, coarse, buckets, byRoute
  <2>3. /\ DOMAIN buckets = Range(coarse)
        /\ \A k \in Range(coarse) : buckets[k] = {f \in facts : coarse[f] = k}
    BY <1>2, <2>2, GroupedIs DEF buckets
  <2>4. \A k \in Range(coarse) :
          /\ byRoute[k].matched_count = Cardinality(buckets[k])
          /\ byRoute[k].distinct_stop_count = Cardinality({f.stop : f \in buckets[k]})
          /\ byRoute[k].counts = [s \in K |-> Cardinality({f \in buckets[k] : Classify(f.basis) = s})]
    <3> TAKE k \in Range(coarse)
    <3>1. byRoute[k] = OtpRow(buckets[k])
      BY <2>1, <2>3
    <3> QED
      BY <3>1 DEF OtpRow
  <2> QED
    BY <2>1, <2>3, <2>4
<1> SUFFICES ASSUME NEW k \in DOMAIN byRoute
             PROVE  LET stops == {s \in DOMAIN byStop : <<s[1], s[2], s[4]>> = k} IN
                    /\ byRoute[k].distinct_stop_count = Cardinality(stops)
                    /\ byRoute[k].matched_count = Total([s \in stops |-> byStop[s].matched_count])
                    /\ byRoute[k].matched_count = Total(byRoute[k].counts)
  OBVIOUS
<1> DEFINE stops == {s \in DOMAIN byStop : <<s[1], s[2], s[4]>> = k}
           kids == {s \in Range(fine) : <<s[1], s[2], s[4]>> = k}
           bucket == {f \in facts : coarse[f] = k}
<1>5. RolledUp(facts, r, d, st, dt, k)
  <2> HIDE DEF r, d, st, dt
  <2> QED
    BY RollUp
<1>6. {st[f] : f \in bucket} = {f.stop : f \in bucket}
  <2>1. \A f \in bucket : st[f] = f.stop
    OBVIOUS
  <2> HIDE DEF bucket, st
  <2> QED
    BY <2>1
<1> HIDE DEF r, d, st, dt
<1>7. /\ Cardinality({st[f] : f \in bucket}) = Cardinality(kids)
      /\ Cardinality(bucket) = Total([s \in kids |-> Cardinality({f \in facts : fine[f] = s})])
  BY <1>5 DEF RolledUp
<1> HIDE DEF fine, coarse, fineKey, coarseKey, byStop, byRoute
<1>8. stops = kids
  BY <1>3
<1>9. [s \in kids |-> Cardinality({f \in facts : fine[f] = s})] = [s \in stops |-> byStop[s].matched_count]
  <2>1. \A s \in kids : byStop[s].matched_count = Cardinality({f \in facts : fine[f] = s})
    BY <1>3
  <2> HIDE DEF stops, kids
  <2> QED
    BY <2>1, <1>8
<1>10. /\ byRoute[k].matched_count = Cardinality(bucket)
       /\ byRoute[k].distinct_stop_count = Cardinality({f.stop : f \in bucket})
       /\ byRoute[k].counts = [s \in K |-> Cardinality({f \in bucket : Classify(f.basis) = s})]
  BY <1>4
<1>11. IsFiniteSet(bucket)
  <2>1. bucket \subseteq facts
    OBVIOUS
  <2> HIDE DEF bucket
  <2> QED
    BY <2>1, FS_Subset
<1>12. Cardinality(bucket) = Total([s \in K |-> Cardinality({f \in bucket : Classify(f.basis) = s})])
  <2> DEFINE class == [f \in bucket |-> Classify(f.basis)]
  <2>1. \A f \in bucket : class[f] = Classify(f.basis) /\ class[f] \in K
    BY DEF Classify
  <2>2. \A s \in K : {f \in bucket : class[f] = s} = {f \in bucket : Classify(f.basis) = s}
    BY <2>1
  <2> HIDE DEF class, bucket
  <2>3. Cardinality(bucket) = Total([s \in K |-> Cardinality({f \in bucket : class[f] = s})])
    BY <1>11, <2>1, ThreeClasses
  <2>4. [s \in K |-> Cardinality({f \in bucket : class[f] = s})]
          = [s \in K |-> Cardinality({f \in bucket : Classify(f.basis) = s})]
    BY <2>2
  <2> QED
    BY <2>3, <2>4
<1>13. /\ byRoute[k].distinct_stop_count = Cardinality(stops)
       /\ byRoute[k].matched_count = Total([s \in stops |-> byStop[s].matched_count])
       /\ byRoute[k].matched_count = Total(byRoute[k].counts)
  <2> HIDE DEF stops, kids, bucket, K
  <2> QED
    BY <1>6, <1>7, <1>8, <1>9, <1>10, <1>12
<1> QED
  BY <1>13

LEMMA Rollups == DayInv => RollupsAgree
<1> SUFFICES ASSUME DayInv PROVE RollupsAgree
  OBVIOUS
<1> DEFINE visits == DayVisits(pings)
           facts == Adherence(visits)
<1>1. IsList(visits) /\ \A v \in ToSet(visits) : Stated(v)
  BY DayVisitsAre DEF DayInv
<1> HIDE DEF visits
<1>2. IsFiniteSet(facts)
  <2> DEFINE onTrips == {i \in DOMAIN visits : visits[i].trip # Absent /\ Matches(visits, i) # {}}
             near == [i \in onTrips |-> Nearest(Matches(visits, i))]
             all == {near[i] : i \in DOMAIN near}
  <2>1. onTrips \subseteq 1..Len(visits) /\ IsFiniteSet(1..Len(visits))
    <3>1. Len(visits) \in Nat /\ DOMAIN visits = 1..Len(visits)
      BY <1>1, ListOf
    <3>2. onTrips \subseteq 1..Len(visits)
      BY <3>1
    <3> QED
      BY <3>1, <3>2, FS_Interval
  <2>2. IsFiniteSet(onTrips)
    <3> HIDE DEF onTrips
    <3> QED
      BY <2>1, FS_Subset
  <2>3. DOMAIN near = onTrips /\ all = {Nearest(Matches(visits, i)) : i \in onTrips}
    OBVIOUS
  <2>4. IsFiniteSet(all)
    <3> HIDE DEF near, onTrips
    <3> QED
      BY <2>2, <2>3, MadeFinite
  <2>5. facts \subseteq all
    <3>1. facts = {c \in {Nearest(Matches(visits, i)) : i \in onTrips} : c.route # Absent}
      BY DEF Adherence
    <3> HIDE DEF all, facts, near, onTrips
    <3> QED
      BY <3>1, <2>3
  <2> HIDE DEF all, facts
  <2> QED
    BY <2>4, <2>5, FS_Subset
<1> HIDE DEF facts
<1> DEFINE byStop == StopDay(visits)
           byRoute == RouteDay(visits)
           otpByStop == StopDayOtp(facts)
           otpByRoute == RouteDayOtp(facts)
<1>3. \A k \in DOMAIN byRoute :
        LET stops == {s \in DOMAIN byStop : <<s[1], s[2], s[4]>> = k} IN
        /\ byRoute[k].distinct_stop_count = Cardinality(stops)
        /\ byRoute[k].visit_count = Total([s \in stops |-> byStop[s].visit_count])
  BY <1>1, MartsRollUp
<1>4. \A k \in DOMAIN otpByRoute :
        LET stops == {s \in DOMAIN otpByStop : <<s[1], s[2], s[4]>> = k} IN
        /\ otpByRoute[k].distinct_stop_count = Cardinality(stops)
        /\ otpByRoute[k].matched_count = Total([s \in stops |-> otpByStop[s].matched_count])
        /\ otpByRoute[k].matched_count = Total(otpByRoute[k].counts)
  BY <1>2, OtpRollUp
<1> HIDE DEF byStop, byRoute, otpByStop, otpByRoute
<1> QED
  BY <1>3, <1>4 DEF RollupsAgree, byStop, byRoute, otpByStop, otpByRoute, facts, visits

-----------------------------------------------------------------------------
(* Types, segments and adherence.                                          *)

\* A bucket of visits counts some of them, within the time of the day.
LEMMA RowOf ==
  ASSUME NEW visits, IsList(visits), \A v \in ToSet(visits) : Stated(v),
         NEW bucket \in SUBSET DOMAIN visits, bucket # {}
  PROVE  /\ MartRow(visits, bucket).visit_count \in 1..Len(visits)
         /\ MartRow(visits, bucket).service_span \in 0..MaxTime
<1> DEFINE m == Len(visits)
           f == [i \in bucket |-> visits[i].arrival]
           g == [i \in bucket |-> visits[i].departure]
           A == {f[i] : i \in DOMAIN f}
           D == {g[i] : i \in DOMAIN g}
           row == MartRow(visits, bucket)
<1>1. m \in Nat /\ DOMAIN visits = 1..m
  BY ListOf
<1>2. \A i \in bucket : /\ visits[i].arrival \in 0..MaxTime /\ visits[i].departure \in 0..MaxTime
                        /\ visits[i].arrival <= visits[i].departure
  <2>1. \A i \in bucket : visits[i] \in ToSet(visits)
    BY DEF ToSet
  <2> QED
    BY <2>1 DEF Stated
<1> HIDE DEF m
<1>3. /\ IsFiniteSet(bucket) /\ Cardinality(bucket) \in Nat /\ Cardinality(bucket) <= m
      /\ Cardinality(bucket) # 0
  <2>1. IsFiniteSet(1..m) /\ Cardinality(1..m) = m
    <3>1. m \in Int /\ 1 \in Int /\ (1 > m => m = 0) /\ m - 1 + 1 = m
      BY <1>1
    <3> QED
      BY <3>1, FS_Interval
  <2>2. bucket \subseteq 1..m
    BY <1>1
  <2>3. IsFiniteSet(bucket) /\ Cardinality(bucket) <= Cardinality(1..m)
    BY <2>1, <2>2, FS_Subset
  <2>4. Cardinality(bucket) # 0
    BY <2>3, FS_EmptySet
  <2> QED
    BY <2>1, <2>3, <2>4, FS_CardinalityType
<1>4. DOMAIN f = bucket /\ DOMAIN g = bucket
  OBVIOUS
<1>5. A = {visits[i].arrival : i \in bucket} /\ D = {visits[i].departure : i \in bucket}
  OBVIOUS
<1>6. IsFiniteSet(A) /\ IsFiniteSet(D)
  <2> HIDE DEF f, g
  <2> QED
    BY <1>3, <1>4, MadeFinite
<1>7. PICK i \in bucket : TRUE
  OBVIOUS
<1>8. /\ A \subseteq 0..MaxTime /\ D \subseteq 0..MaxTime /\ A # {} /\ D # {}
      /\ visits[i].arrival \in A /\ visits[i].departure \in D
  BY <1>2, <1>5, <1>7
<1> HIDE DEF A, D
<1>9. MaxTime \in Nat /\ A \subseteq Int /\ D \subseteq Int
  BY <1>8, ServiceDayAssumption
<1>10. Least(A) \in A /\ Least(A) <= visits[i].arrival
  BY <1>6, <1>8, <1>9, LeastIs
<1>11. Greatest(D) \in D /\ visits[i].departure <= Greatest(D)
  BY <1>6, <1>8, <1>9, LeastIs
<1>12. Greatest(D) - Least(A) \in 0..MaxTime
  <2> DEFINE a == Least(A)
             d == Greatest(D)
  <2>1. a \in 0..MaxTime /\ d \in 0..MaxTime
    BY <1>8, <1>10, <1>11
  <2>2. visits[i].arrival \in Int /\ visits[i].departure \in Int /\ visits[i].arrival <= visits[i].departure
    BY <1>2, <1>7, <1>9
  <2> HIDE DEF a, d
  <2>3. a <= visits[i].arrival /\ visits[i].departure <= d
    BY <1>10, <1>11 DEF a, d
  <2>4. d - a \in 0..MaxTime
    BY <2>1, <2>2, <2>3, <1>9
  <2> QED
    BY <2>4 DEF a, d
<1>13. row.visit_count = Cardinality(bucket) /\ row.service_span = Greatest(D) - Least(A)
  BY <1>5 DEF MartRow
<1> QED
  BY <1>1, <1>3, <1>12, <1>13 DEF m

LEMMA DayTypes == DayInv => ServiceDayTypeOK
<1> SUFFICES ASSUME DayInv PROVE ServiceDayTypeOK
  OBVIOUS
<1> DEFINE visits == DayVisits(pings)
           days == RouteDay(visits)
           key == [i \in Routed(visits) |-> RouteKey(visits[i])]
           buckets == Grouped(key)
<1>1. IsList(visits) /\ \A v \in ToSet(visits) : Stated(v)
  BY DayVisitsAre DEF DayInv
<1>2. /\ DOMAIN buckets = Range(key)
      /\ \A k \in Range(key) : buckets[k] = {i \in DOMAIN key : key[i] = k}
  <2> HIDE DEF key
  <2> QED
    BY GroupedIs
<1>3. days = [k \in DOMAIN buckets |-> MartRow(visits, buckets[k])]
  BY DEF RouteDay
<1> HIDE DEF visits, buckets
<1>4. DOMAIN key \subseteq DOMAIN visits /\ Range(key) = {key[i] : i \in DOMAIN key}
  BY DEF Routed, Range
<1> HIDE DEF key
<1>5. ASSUME NEW k \in DOMAIN days
      PROVE days[k].visit_count \in 1..Len(visits) /\ days[k].service_span \in 0..MaxTime
  <2>1. k \in Range(key) /\ days[k] = MartRow(visits, buckets[k])
    BY <1>2, <1>3
  <2>2. buckets[k] \in SUBSET DOMAIN visits /\ buckets[k] # {}
    BY <2>1, <1>2, <1>4
  <2> HIDE DEF days
  <2>3. /\ MartRow(visits, buckets[k]).visit_count \in 1..Len(visits)
        /\ MartRow(visits, buckets[k]).service_span \in 0..MaxTime
    BY <2>2, <1>1, RowOf
  <2> QED
    BY <2>1, <2>3
<1>6. shapes \in PingFeeds /\ IsList(pings) /\ \A i \in DOMAIN pings : pings[i].time \in (0..MaxTime) \cup {Absent}
  BY DEF DayInv, DayOfPings
<1> HIDE DEF days
<1> QED
  BY <1>5, <1>6 DEF ServiceDayTypeOK, days, visits

\* The visits of a trip follow one another's arrival.
LEMMA TripVisitsAre ==
  ASSUME NEW visits, IsList(visits), \A v \in ToSet(visits) : Stated(v), NEW trip, NEW bus
  PROVE  LET vs == TripVisits(visits, trip, bus) IN
         /\ Len(vs) \in Nat
         /\ \A n \in 1..Len(vs) : Stated(vs[n]) /\ vs[n].trip = trip
         /\ \A n, k \in 1..Len(vs) : n < k => vs[n].arrival <= vs[k].arrival
<1> DEFINE S == ToSet(visits)
           own == {i \in DOMAIN visits :
                     visits[i].trip = trip /\ visits[i].route # Absent /\ (visits[i].route \in Static.buses) = bus}
           kept == ItemsAt(visits, own)
           vs == TripVisits(visits, trip, bus)
<1>1. vs = Sorted(kept, "arrival")
  BY DEF TripVisits
<1>2. \A i \in own : visits[i].trip = trip /\ visits[i] \in S
  BY DEF ToSet
<1>3. visits \in Seq(S) /\ (\A v \in S : Stated(v))
  BY DEF IsList
<1> HIDE DEF S, own, vs
<1>4. kept \in Seq(S) /\ ToSet(kept) = {visits[i] : i \in own \cap DOMAIN visits}
  BY <1>3, KeptLines
<1> HIDE DEF kept
<1>5. /\ Len(kept) \in Nat /\ DOMAIN kept = 1..Len(kept)
      /\ \A i \in 1..Len(kept) : kept[i] \in ToSet(kept)
  <2>1. Len(kept) \in Nat /\ DOMAIN kept = 1..Len(kept)
    BY <1>4, Items
  <2> QED
    BY <2>1 DEF ToSet
<1>6. \A i \in 1..Len(kept) : kept[i].trip = trip /\ Stated(kept[i])
  <2>1. \A x \in ToSet(kept) : x.trip = trip /\ Stated(x)
    BY <1>2, <1>3, <1>4
  <2> QED
    BY <2>1, <1>5
<1>7. \A i \in DOMAIN kept : kept[i]["arrival"] \in Int
  BY <1>5, <1>6, ServiceDayAssumption DEF Stated
<1>8. PICK o : Sorts(o, kept, "arrival") /\ vs = [n \in 1..Len(kept) |-> kept[o[n]]]
  BY <1>1, <1>4, <1>7, SortedBy
<1>9. /\ \A n \in 1..Len(kept) : o[n] \in 1..Len(kept)
      /\ \A n, k \in 1..Len(kept) : n < k => Sooner(kept, "arrival", o[n], o[k])
  BY <1>8 DEF Sorts
<1>10. Len(vs) = Len(kept)
  <2>1. vs = [n \in 1..Len(kept) |-> vs[n]]
    BY <1>8
  <2> QED
    BY <2>1, <1>5, MadeList
<1>11. \A n \in 1..Len(kept) : vs[n] = kept[o[n]]
  BY <1>8
<1>12. \A n \in 1..Len(vs) : Stated(vs[n]) /\ vs[n].trip = trip
  BY <1>6, <1>9, <1>10, <1>11
<1>13. \A n, k \in 1..Len(vs) : n < k => vs[n].arrival <= vs[k].arrival
  <2> SUFFICES ASSUME NEW n \in 1..Len(kept), NEW k \in 1..Len(kept), n < k
               PROVE  vs[n].arrival <= vs[k].arrival
    BY <1>10
  <2>1. Sooner(kept, "arrival", o[n], o[k])
    BY <1>9
  <2>2. kept[o[n]]["arrival"] <= kept[o[k]]["arrival"]
    <3>1. kept[o[n]]["arrival"] \in Int /\ kept[o[k]]["arrival"] \in Int
      BY <1>5, <1>7, <1>9
    <3> QED
      BY <2>1, <3>1 DEF Sooner
  <2> QED
    BY <2>2, <1>11
<1> QED
  BY <1>5, <1>10, <1>12, <1>13 DEF vs

LEMMA NoOverlap == DayInv => SegmentsNeverOverlap
<1> SUFFICES ASSUME DayInv PROVE SegmentsNeverOverlap
  OBVIOUS
<1> DEFINE visits == DayVisits(pings)
           segments == SegmentSpeeds(visits)
<1>1. IsList(visits) /\ \A v \in ToSet(visits) : Stated(v)
  BY DayVisitsAre DEF DayInv
<1> HIDE DEF visits
<1> DEFINE Is(s, vs, n, trip, bus) ==
             /\ n \in 1..(Len(vs) - 1) /\ Transit(vs[n], vs[n + 1]) \in 1..MaxTransit
             /\ s = Segment(vs[n], vs[n + 1], bus)
             /\ s.trip = trip /\ s.bus = bus
             /\ s.departure = vs[n].departure /\ s.arrival = vs[n + 1].arrival
<1>2. ASSUME NEW s \in segments
      PROVE  \E trip, bus, n : Is(s, TripVisits(visits, trip, bus), n, trip, bus)
  <2>1. PICK trip, bus : s \in Segments(TripVisits(visits, trip, bus), bus)
    BY DEF SegmentSpeeds
  <2> DEFINE vs == TripVisits(visits, trip, bus)
  <2>2. PICK n \in 1..(Len(vs) - 1) : Plausible(vs[n], vs[n + 1], bus) /\ s = Segment(vs[n], vs[n + 1], bus)
    BY <2>1 DEF Segments
  <2>3. Len(vs) \in Nat /\ \A k \in 1..Len(vs) : vs[k].trip = trip
    BY <1>1, TripVisitsAre
  <2> HIDE DEF vs
  <2>4. n \in 1..Len(vs)
    BY <2>3
  <2>5. s.trip = vs[n].trip /\ s.bus = bus /\ s.departure = vs[n].departure /\ s.arrival = vs[n + 1].arrival
    BY <2>2 DEF Segment
  <2>6. Transit(vs[n], vs[n + 1]) \in 1..MaxTransit
    BY <2>2 DEF Plausible
  <2> QED
    BY <2>2, <2>3, <2>4, <2>5, <2>6 DEF vs
<1> HIDE DEF segments
<1>3. ASSUME NEW vs, NEW n, NEW k, NEW s, NEW t, NEW trip, NEW bus,
             Len(vs) \in Nat,
             \A i \in 1..Len(vs) : Stated(vs[i]) /\ vs[i].trip = trip,
             \A i, j \in 1..Len(vs) : i < j => vs[i].arrival <= vs[j].arrival,
             Is(s, vs, n, trip, bus), Is(t, vs, k, trip, bus), n < k
      PROVE  s.arrival <= t.departure
  <2>1. n + 1 \in 1..Len(vs) /\ k \in 1..Len(vs) /\ (n + 1 = k \/ n + 1 < k)
    BY <1>3
  <2>2. /\ vs[n + 1].arrival \in Int /\ vs[k].arrival \in Int /\ vs[k].departure \in Int
        /\ vs[k].arrival <= vs[k].departure
    BY <2>1, <1>3, ServiceDayAssumption DEF Stated
  <2>3. vs[n + 1].arrival <= vs[k].arrival
    BY <2>1, <2>2, <1>3
  <2> QED
    BY <2>2, <2>3, <1>3
<1>4. ASSUME NEW s \in segments
      PROVE  /\ s.departure < s.arrival
             /\ \A t \in segments \ {s} : t.trip = s.trip /\ t.bus = s.bus
                  => t.arrival <= s.departure \/ s.arrival <= t.departure
  <2>1. PICK trip, bus, n : Is(s, TripVisits(visits, trip, bus), n, trip, bus)
    BY <1>2
  <2> DEFINE vs == TripVisits(visits, trip, bus)
  <2>2. /\ Len(vs) \in Nat
        /\ \A i \in 1..Len(vs) : Stated(vs[i]) /\ vs[i].trip = trip
        /\ \A i, j \in 1..Len(vs) : i < j => vs[i].arrival <= vs[j].arrival
    BY <1>1, TripVisitsAre
  <2>3. Is(s, vs, n, trip, bus)
    BY <2>1
  <2> HIDE DEF Is
  <2>4. s.departure < s.arrival
    <3> USE DEF Is
    <3> HIDE DEF vs
    <3>1. n \in 1..Len(vs) /\ n + 1 \in 1..Len(vs)
      BY <2>2, <2>3
    <3>2. vs[n].departure \in Int /\ vs[n + 1].arrival \in Int
      BY <3>1, <2>2, ServiceDayAssumption DEF Stated
    <3>3. vs[n + 1].arrival - vs[n].departure >= 1
      BY <2>3 DEF Transit
    <3> QED
      BY <2>3, <3>2, <3>3
  <2>5. ASSUME NEW t \in segments, t # s, t.trip = s.trip, t.bus = s.bus
        PROVE  t.arrival <= s.departure \/ s.arrival <= t.departure
    <3>1. PICK trip2, bus2, k : Is(t, TripVisits(visits, trip2, bus2), k, trip2, bus2)
      BY <1>2
    <3>2. trip2 = trip /\ bus2 = bus
      BY <2>3, <2>5, <3>1 DEF Is
    <3>3. Is(t, vs, k, trip, bus)
      BY <3>1, <3>2
    <3> HIDE DEF vs
    <3>4. n # k /\ n \in Int /\ k \in Int
      BY <2>2, <2>3, <2>5, <3>3 DEF Is
    <3>5. CASE n < k
      <4>1. s.arrival <= t.departure
        BY <3>5, <2>2, <2>3, <3>3, <1>3
      <4> QED
        BY <4>1
    <3>6. CASE k < n
      <4>1. t.arrival <= s.departure
        BY <3>6, <2>2, <2>3, <3>3, <1>3
      <4> QED
        BY <4>1
    <3> QED
      BY <3>4, <3>5, <3>6
  <2> QED
    BY <2>4, <2>5
<1> QED
  BY <1>4 DEF SegmentsNeverOverlap, segments, visits

\* The service day of a time is the one it was scheduled on, or the next.
LEMMA DateOf ==
  ASSUME NEW d \in Int, NEW due \in 0..(2 * DayLength - 1)
  PROVE  ServiceDate(d * DayLength + due) \in {d, d + 1}
<1> DEFINE t == d * DayLength + due
           q == ServiceDate(t)
<1>1. DayLength \in Nat \ {0}
  BY ServiceDayAssumption
<1>2. t \in Int /\ q = t \div DayLength
  BY <1>1 DEF ServiceDate
<1>3. q \in Int /\ q * DayLength <= t /\ t < (q + 1) * DayLength
  <2> HIDE DEF t, q
  <2> QED
    BY <1>1, <1>2
<1>4. d * DayLength <= t /\ t < (d + 2) * DayLength
  <2>1. (d + 2) * DayLength = d * DayLength + 2 * DayLength
    BY <1>1
  <2>2. d * DayLength \in Int
    BY <1>1
  <2> QED
    BY <1>1, <2>1, <2>2
<1> HIDE DEF t, q
<1>5. ~(q < d)
  <2> SUFFICES ASSUME q < d PROVE FALSE
    OBVIOUS
  <2>1. (q + 1) * DayLength <= d * DayLength
    <3>1. q + 1 <= d /\ q + 1 \in Int
      BY <1>3
    <3> QED
      BY <3>1, <1>1
  <2>2. (q + 1) * DayLength \in Int /\ d * DayLength \in Int
    BY <1>1, <1>3
  <2> QED
    BY <2>1, <2>2, <1>2, <1>3, <1>4
<1>6. ~(q > d + 1)
  <2> SUFFICES ASSUME q > d + 1 PROVE FALSE
    OBVIOUS
  <2>1. (d + 2) * DayLength <= q * DayLength
    <3>1. d + 2 <= q /\ d + 2 \in Int
      BY <1>3
    <3> QED
      BY <3>1, <1>1, <1>3
  <2>2. (d + 2) * DayLength \in Int /\ q * DayLength \in Int
    BY <1>1, <1>3
  <2> QED
    BY <2>1, <2>2, <1>2, <1>3, <1>4
<1>7. q \in {d, d + 1}
  BY <1>3, <1>5, <1>6
<1> QED
  BY <1>7 DEF t, q

\* The scheduled call of a visit.
CallOf(v, d) == Static.schedule[d][<<v.trip, v.stop>>]

LEMMA MatchIs ==
  ASSUME NEW visits, NEW i, NEW d
  PROVE  LET v == visits[i]
             c == Match(visits, i, d)
             call == CallOf(v, d)
             late == IF call.arrival = Absent THEN Absent
                     ELSE v.arrival - (ScheduledMidnight(d) + call.arrival)
             out == IF call.departure = Absent THEN Absent
                    ELSE v.departure - (ScheduledMidnight(d) + call.departure)
         IN /\ c.place = i /\ c.service_date = d
            /\ c.basis = (IF late # Absent THEN late ELSE out)
            /\ c.route = (IF call.route # Absent THEN call.route ELSE v.route)
BY DEF Match, CallOf

\* The candidates of a visit: one for a date, their delays numbers.
LEMMA MatchesAre ==
  ASSUME NEW visits, NEW i, Stated(visits[i])
  PROVE  \A c \in Matches(visits, i) :
           \E d \in Scheduled :
             /\ <<visits[i].trip, visits[i].stop>> \in DOMAIN Static.schedule[d]
             /\ d \in {ServiceDate(visits[i].arrival), ServiceDate(visits[i].arrival) - 1}
             /\ c = Match(visits, i, d) /\ c.basis \in Int
<1> SUFFICES ASSUME NEW c \in Matches(visits, i)
             PROVE  \E d \in Scheduled :
                      /\ <<visits[i].trip, visits[i].stop>> \in DOMAIN Static.schedule[d]
                      /\ d \in {ServiceDate(visits[i].arrival), ServiceDate(visits[i].arrival) - 1}
                      /\ c = Match(visits, i, d) /\ c.basis \in Int
  OBVIOUS
<1> DEFINE v == visits[i]
<1>1. PICK d \in Scheduled :
        /\ d \in {ServiceDate(v.arrival), ServiceDate(v.arrival) - 1}
        /\ <<v.trip, v.stop>> \in DOMAIN Static.schedule[d]
        /\ c = Match(visits, i, d) /\ c.basis # Absent
  BY DEF Matches
<1> DEFINE call == CallOf(v, d)
           mid == ScheduledMidnight(d)
           late == IF call.arrival = Absent THEN Absent ELSE v.arrival - (mid + call.arrival)
           out == IF call.departure = Absent THEN Absent ELSE v.departure - (mid + call.departure)
<1>2. call.arrival \in Int \cup {Absent} /\ call.departure \in Int \cup {Absent}
  BY <1>1, ServiceDayAssumption DEF CallOf, Scheduled
<1>3. v.arrival \in Int /\ v.departure \in Int
  BY ServiceDayAssumption DEF Stated
<1>4. mid \in Int
  BY <1>1, ServiceDayAssumption DEF ScheduledMidnight, Scheduled
<1>5. c.basis = (IF late # Absent THEN late ELSE out)
  BY <1>1, MatchIs
<1> HIDE DEF call, mid, v
<1>6. late \in Int \cup {Absent} /\ out \in Int \cup {Absent}
  BY <1>2, <1>3, <1>4
<1>7. c.basis \in Int
  <2> HIDE DEF late, out
  <2> QED
    BY <1>1, <1>5, <1>6
<1> QED
  BY <1>1, <1>7 DEF v

\* The nearest candidate, when one of them has no delay.
LEMMA NearestIs ==
  ASSUME NEW visits, NEW i, Stated(visits[i]), NEW c \in Matches(visits, i), c.basis = 0
  PROVE  Nearest(Matches(visits, i)) \in Matches(visits, i) /\ Nearest(Matches(visits, i)).basis = 0
<1> DEFINE M == Matches(visits, i)
           a == ServiceDate(visits[i].arrival)
           Better(x, y) == \/ Size(x.basis) < Size(y.basis)
                           \/ Size(x.basis) = Size(y.basis) /\ x.service_date > y.service_date
           Best(x) == \A y \in M \ {x} : Better(x, y)
<1>1. a \in Int
  BY ServiceDayAssumption DEF ServiceDate, Stated
<1>2. \A x \in M : /\ x = Match(visits, i, a) \/ x = Match(visits, i, a - 1)
                   /\ x.basis \in Int
  BY MatchesAre
<1>3. Match(visits, i, a).service_date = a /\ Match(visits, i, a - 1).service_date = a - 1
  BY MatchIs
<1> HIDE DEF M
<1>4. \A x \in M : x.service_date \in {a, a - 1}
  BY <1>2, <1>3
<1>5. \A x, y \in M : x.service_date = y.service_date => x = y
  <2>1. a # a - 1
    BY <1>1
  <2> QED
    BY <2>1, <1>2, <1>3
<1> HIDE DEF a
<1>6. \A x \in M : Size(x.basis) \in Nat /\ (Size(x.basis) = 0 => x.basis = 0) /\ (x.basis = 0 => Size(x.basis) = 0)
  <2> TAKE x \in M
  <2>1. x.basis \in Int
    BY <1>2
  <2> QED
    BY <2>1 DEF Size
<1>7. c \in M
  BY DEF M
<1>8. \E x \in M : Best(x)
  <2>1. CASE \E y \in M : y # c /\ y.basis = 0 /\ y.service_date = a
    <3>1. PICK y \in M : y # c /\ y.basis = 0 /\ y.service_date = a
      BY <2>1
    <3>2. \A z \in M \ {y} : Better(y, z)
      <4> TAKE z \in M \ {y}
      <4>1. z.service_date = a - 1
        BY <3>1, <1>4, <1>5
      <4>2. Size(y.basis) = 0 /\ Size(z.basis) \in Nat
        BY <3>1, <1>6
      <4> QED
        BY <3>1, <4>1, <4>2, <1>1
    <3> QED
      BY <3>2
  <2>2. CASE ~\E y \in M : y # c /\ y.basis = 0 /\ y.service_date = a
    <3>1. \A z \in M \ {c} : Better(c, z)
      <4> TAKE z \in M \ {c}
      <4>1. Size(c.basis) = 0 /\ Size(z.basis) \in Nat
        BY <1>6, <1>7
      <4>2. CASE z.basis = 0
        <5>1. z.service_date = a - 1 /\ c.service_date = a
          BY <2>2, <4>2, <1>4, <1>5, <1>7
        <5>2. Size(z.basis) = 0
          BY <4>2, <1>6
        <5> QED
          BY <4>1, <5>1, <5>2, <1>1
      <4>3. CASE z.basis # 0
        <5>1. Size(z.basis) # 0
          BY <4>3, <1>6
        <5> QED
          BY <4>1, <5>1
      <4> QED
        BY <4>2, <4>3
    <3> QED
      BY <3>1, <1>7
  <2> QED
    BY <2>1, <2>2
<1>9. Nearest(M) = CHOOSE x \in M : Best(x)
  BY DEF Nearest
<1> DEFINE x == Nearest(M)
<1> HIDE DEF x
<1>10. x \in M /\ Best(x)
  <2> HIDE DEF Best
  <2> QED
    BY <1>8, <1>9 DEF x
<1>11. x.basis = 0
  <2>1. CASE x = c
    BY <2>1
  <2>2. CASE x # c
    <3>1. Size(x.basis) < Size(c.basis) \/ Size(x.basis) = Size(c.basis)
      BY <2>2, <1>7, <1>10
    <3>2. Size(c.basis) = 0 /\ Size(x.basis) \in Nat
      BY <1>6, <1>7, <1>10
    <3> QED
      BY <3>1, <3>2, <1>6, <1>10
  <2> QED
    BY <2>1, <2>2
<1> QED
  BY <1>10, <1>11 DEF x, M

LEMMA OnTime == DayInv => OnScheduleIsOnTime
<1> SUFFICES ASSUME DayInv PROVE OnScheduleIsOnTime
  OBVIOUS
<1> DEFINE visits == DayVisits(pings)
           facts == Adherence(visits)
<1>1. IsList(visits) /\ \A v \in ToSet(visits) : Stated(v)
  BY DayVisitsAre DEF DayInv
<1>2. \A n \in DOMAIN visits : Stated(visits[n])
  BY <1>1 DEF ToSet
<1> HIDE DEF visits
<1>3. ASSUME NEW n \in DOMAIN visits, NEW d \in Scheduled,
             visits[n].trip # Absent,
             <<visits[n].trip, visits[n].stop>> \in DOMAIN Static.schedule[d],
             CallOf(visits[n], d).arrival \in 0..(2 * DayLength - 1),
             visits[n].arrival = ScheduledMidnight(d) + CallOf(visits[n], d).arrival,
             \A e \in Scheduled :
               <<visits[n].trip, visits[n].stop>> \in DOMAIN Static.schedule[e]
                 => visits[n].route # Absent \/ CallOf(visits[n], e).route # Absent
      PROVE  \E f \in facts : f.place = n /\ Classify(f.basis) = "on_time"
  <2> DEFINE v == visits[n]
             due == CallOf(v, d).arrival
             M == Matches(visits, n)
             a == ServiceDate(v.arrival)
  <2>1. d \in Int /\ due \in Int /\ v.arrival = d * DayLength + due /\ DayLength \in Int
    BY <1>3, ServiceDayAssumption DEF Scheduled, ScheduledMidnight
  <2>2. d \in {a, a - 1}
    <3>1. ServiceDate(d * DayLength + due) \in {d, d + 1}
      BY <1>3, <2>1, DateOf
    <3>2. a \in {d, d + 1}
      BY <2>1, <3>1
    <3> HIDE DEF a
    <3> QED
      BY <2>1, <3>2
  <2> DEFINE c == Match(visits, n, d)
  <2>3. c.basis = 0
    <3> DEFINE late == IF due = Absent THEN Absent ELSE v.arrival - (ScheduledMidnight(d) + due)
    <3>1. due # Absent
      BY <2>1, AbsentAssumption
    <3>2. ScheduledMidnight(d) \in Int
      BY <2>1 DEF ScheduledMidnight
    <3>3. v.arrival = ScheduledMidnight(d) + due
      BY <1>3
    <3>4. late = 0
      <4> HIDE DEF v, due
      <4> QED
        BY <2>1, <3>1, <3>2, <3>3
    <3>5. late # Absent
      BY <3>4, AbsentAssumption
    <3>6. c.basis = IF late # Absent THEN late
                    ELSE IF CallOf(v, d).departure = Absent THEN Absent
                         ELSE v.departure - (ScheduledMidnight(d) + CallOf(v, d).departure)
      BY MatchIs
    <3> HIDE DEF late, c
    <3> QED
      BY <3>4, <3>5, <3>6
  <2>4. c \in M
    <3>1. c.basis # Absent
      BY <2>3, AbsentAssumption
    <3>2. d \in {ServiceDate(v.arrival), ServiceDate(v.arrival) - 1} \cap Scheduled
      BY <2>2
    <3> HIDE DEF c
    <3>3. c = Match(visits, n, d)
      BY DEF c
    <3> QED
      BY <3>1, <3>2, <3>3, <1>3 DEF Matches
  <2> HIDE DEF c
  <2> DEFINE x == Nearest(M)
  <2>5. x \in M /\ x.basis = 0
    BY <2>3, <2>4, <1>2, NearestIs
  <2>6. PICK e \in Scheduled :
          /\ <<v.trip, v.stop>> \in DOMAIN Static.schedule[e]
          /\ x = Match(visits, n, e)
    BY <2>5, <1>2, MatchesAre
  <2>7. x.place = n /\ x.route = (IF CallOf(v, e).route # Absent THEN CallOf(v, e).route ELSE v.route)
    BY <2>6, MatchIs
  <2>8. x.route # Absent
    BY <2>6, <2>7, <1>3
  <2>9. x \in facts
    <3>1. n \in {i \in DOMAIN visits : visits[i].trip # Absent /\ Matches(visits, i) # {}}
      BY <2>4, <1>3
    <3> QED
      BY <3>1, <2>8 DEF Adherence
  <2>10. Classify(x.basis) = "on_time"
    BY <2>5, ServiceDayAssumption DEF Classify
  <2> HIDE DEF x
  <2> QED
    BY <2>7, <2>9, <2>10
<1> HIDE DEF facts
<1> QED
  BY <1>3 DEF OnScheduleIsOnTime, CallOf, facts, visits

-----------------------------------------------------------------------------
(* Runs, when the rows get one more.                                       *)

\* One row more goes on with the run that reaches it, at its stop.
LEMMA RunGoesOn ==
  ASSUME NEW S, NEW rows \in Seq(S), NEW x \in S, NEW publishes, NEW i \in 1..Len(rows)
  PROVE  EndOfRun(Append(rows, x), publishes, i) =
           IF /\ EndOfRun(rows, publishes, i) = Len(rows)
              /\ IsDwelling(x, publishes) /\ x.stop = rows[i].stop
           THEN Len(rows) + 1 ELSE EndOfRun(rows, publishes, i)
<1> DEFINE m == Len(rows)
           more == Append(rows, x)
           W(k) == Within(rows, publishes, i, k)
           V(k) == Within(more, publishes, i, k)
           b == EndOfRun(rows, publishes, i)
           c == EndOfRun(more, publishes, i)
           On == IsDwelling(x, publishes) /\ x.stop = rows[i].stop
<1>1. /\ m \in Nat /\ i \in 1..m /\ more \in Seq(S) /\ Len(more) = m + 1
      /\ \A k \in 1..m : more[k] = rows[k]
      /\ more[m + 1] = x
  BY OneMore
<1>2. b \in i..m /\ \A k \in i..m : W(k) <=> k <= b
  BY RunEnds
<1>3. c \in i..(m + 1) /\ \A k \in i..(m + 1) : V(k) <=> k <= c
  <2>1. i \in 1..Len(more)
    BY <1>1
  <2> HIDE DEF more
  <2> QED
    BY <2>1, <1>1, RunEnds
<1> HIDE DEF more, m, b, c
<1>4. \A k \in i..m : V(k) <=> W(k)
  <2> TAKE k \in i..m
  <2>1. \A l \in (i + 1)..k : more[l] = rows[l]
    BY <1>1
  <2>2. more[i] = rows[i]
    BY <1>1
  <2> QED
    BY <2>1, <2>2 DEF Within
<1>5. V(m + 1) <=> V(m) /\ On
  <2>1. \A l : l \in (i + 1)..(m + 1) <=> l \in (i + 1)..m \/ l = m + 1
    BY <1>1
  <2>2. more[i] = rows[i]
    BY <1>1
  <2> QED
    BY <2>1, <2>2, <1>1 DEF Within
<1> HIDE DEF W, V, On
<1>6. \A k \in i..m : k <= b <=> k <= c
  BY <1>1, <1>2, <1>3, <1>4
<1>7. CASE b # m
  <2>1. b + 1 \in i..m /\ b \in i..m
    BY <1>7, <1>1, <1>2
  <2>2. b <= c /\ ~(b + 1 <= c)
    BY <2>1, <1>1, <1>6
  <2>3. c = b
    BY <2>1, <2>2, <1>1, <1>3
  <2> QED
    BY <2>3, <1>7 DEF m, b, c, more
<1>8. CASE b = m
  <2>1. m <= c /\ V(m)
    <3>1. m \in i..m /\ m \in i..(m + 1) /\ m <= b
      BY <1>1, <1>8
    <3>2. m <= c
      BY <3>1, <1>6
    <3> QED
      BY <3>1, <3>2, <1>3
  <2>2. m + 1 <= c <=> On
    <3>1. m + 1 \in i..(m + 1)
      BY <1>1
    <3> QED
      BY <3>1, <2>1, <1>3, <1>5
  <2>3. c = m \/ c = m + 1
    BY <2>1, <1>1, <1>3
  <2>4. c = IF On THEN m + 1 ELSE b
    BY <2>2, <2>3, <1>1, <1>8
  <2> QED
    BY <2>4, <1>8 DEF m, b, c, more, On
<1> QED
  BY <1>7, <1>8

\* The runs of the rows, when x is one more: all but the last are the same,
\* and the last one is, or goes on with x.
RunsGrown(runs, longer, x) ==
  /\ Len(longer) \in {Len(runs), Len(runs) + 1}
  /\ \A n \in 1..Len(runs) :
       \/ longer[n] = runs[n]
       \/ n = Len(runs) /\ Len(longer) = Len(runs) /\ longer[n] = Append(runs[n], x)

LEMMA RunsGrow ==
  ASSUME NEW S, NEW rows \in Seq(S), NEW x \in S, NEW publishes
  PROVE  RunsGrown(Runs(rows, publishes), Runs(Append(rows, x), publishes), x)
<1> DEFINE m == Len(rows)
           more == Append(rows, x)
           from == [i \in 1..m |-> RunFrom(rows, publishes, i)]
           after == [i \in 1..(m + 1) |-> RunFrom(more, publishes, i)]
           starts == {i \in 1..m : Opens(rows, publishes, i)}
           opening == {i \in 1..(m + 1) : Opens(more, publishes, i)}
           e == Numbers(m, starts)
           g == Numbers(m + 1, opening)
           runs == Runs(rows, publishes)
           longer == Runs(more, publishes)
           End(i) == EndOfRun(rows, publishes, i)
<1>1. /\ m \in Nat /\ DOMAIN rows = 1..m /\ more \in Seq(S) /\ Len(more) = m + 1
      /\ DOMAIN more = 1..(m + 1)
      /\ \A k \in 1..m : more[k] = rows[k]
      /\ more[m + 1] = x
  BY OneMore
<1>2. runs = ItemsAt(from, starts)
  BY <1>1 DEF Runs
<1>3. longer = ItemsAt(after, opening)
  <2> HIDE DEF more, m
  <2> QED
    BY <1>1 DEF Runs
<1>4. /\ \A i \in 1..m : from[i] = RunFrom(rows, publishes, i)
      /\ \A i \in 1..(m + 1) : after[i] = RunFrom(more, publishes, i)
  OBVIOUS
<1>5. from \in Seq({from[i] : i \in 1..m}) /\ Len(from) = m
  <2>1. from = [i \in 1..m |-> from[i]]
    OBVIOUS
  <2> HIDE DEF from
  <2>2. IsList(from) /\ Len(from) = m /\ ToSet(from) = {from[i] : i \in 1..m}
    BY <2>1, <1>1, MadeList
  <2> QED
    BY <2>2 DEF IsList
<1>6. after \in Seq({after[i] : i \in 1..(m + 1)}) /\ Len(after) = m + 1
  <2>1. after = [i \in 1..(m + 1) |-> after[i]]
    OBVIOUS
  <2> DEFINE k == m + 1
  <2>2. k \in Nat /\ after = [i \in 1..k |-> after[i]]
    BY <1>1, <2>1
  <2> HIDE DEF after, k
  <2>3. IsList(after) /\ Len(after) = k /\ ToSet(after) = {after[i] : i \in 1..k}
    BY <2>2, MadeList
  <2> QED
    BY <2>3 DEF IsList, k
<1>7. /\ \A i \in starts : i \in 1..m /\ Opens(rows, publishes, i)
      /\ \A i \in opening : Opens(more, publishes, i)
  OBVIOUS
<1>8. \A i \in 1..m : i \in starts <=> i \in opening
  <2> TAKE i \in 1..m
  <2>1. i \in 1..(m + 1) /\ more[i] = rows[i] /\ (i # 1 => more[i - 1] = rows[i - 1])
    BY <1>1
  <2> QED
    BY <2>1 DEF Opens
<1>17. \A i \in 1..m : i \in starts <=> Opens(rows, publishes, i)
  OBVIOUS
<1> HIDE DEF from, after, starts, opening, runs, longer
<1>9. g = IF m + 1 \in opening THEN Append(e, m + 1) ELSE e
  <2> HIDE DEF m
  <2> QED
    BY <1>1, <1>8, NumbersGrow
<1>10. /\ e \in Seq(1..m) /\ Len(e) \in Nat /\ Len(runs) = Len(e)
       /\ \A n \in 1..Len(e) : runs[n] = from[e[n]]
       /\ \A n \in 1..Len(e) : e[n] \in starts /\ e[n] \in 1..m
       /\ \A n, k \in 1..Len(e) : n < k <=> e[n] < e[k]
  <2> HIDE DEF m
  <2> QED
    BY <1>2, <1>5, ByNumber
<1>11. Len(longer) = Len(g) /\ \A n \in 1..Len(g) : longer[n] = after[g[n]]
  <2> DEFINE k == m + 1
  <2>1. Len(after) = k /\ after \in Seq({after[i] : i \in 1..k}) /\ g = Numbers(k, opening)
    BY <1>6
  <2> HIDE DEF k, g
  <2>2. /\ Len(ItemsAt(after, opening)) = Len(Numbers(Len(after), opening))
        /\ \A n \in 1..Len(Numbers(Len(after), opening)) :
             ItemsAt(after, opening)[n] = after[Numbers(Len(after), opening)[n]]
    BY <2>1, ByNumber
  <2> QED
    BY <2>1, <2>2, <1>3
<1> DEFINE l == Len(e)
<1> HIDE DEF e, g
<1>12. /\ Len(g) = (IF m + 1 \in opening THEN l + 1 ELSE l)
       /\ \A n \in 1..l : g[n] = e[n]
  <2>1. CASE m + 1 \in opening
    <3> DEFINE Q == 1..(m + 1)
               y == m + 1
    <3>1. e \in Seq(Q) /\ y \in Q
      <4>1. \A n \in 1..l : e[n] \in Q
        BY <1>1, <1>10
      <4>2. e = [n \in 1..l |-> e[n]] /\ l \in Nat
        BY <1>10, Items
      <4>3. e \in Seq(Q)
        <5> HIDE DEF Q, l
        <5> QED
          BY <4>1, <4>2
      <4> QED
        BY <4>3, <1>1
    <3> HIDE DEF Q, y
    <3>2. Len(Append(e, y)) = l + 1 /\ \A n \in 1..l : Append(e, y)[n] = e[n]
      BY <3>1, OneMore
    <3> QED
      BY <3>2, <2>1, <1>9 DEF y
  <2>2. CASE m + 1 \notin opening
    BY <2>2, <1>9
  <2> QED
    BY <2>1, <2>2
<1> HIDE DEF l
<1>13. Len(longer) \in {Len(runs), Len(runs) + 1}
  BY <1>10, <1>11, <1>12 DEF l
<1>14. ASSUME NEW n \in 1..l
       PROVE  \/ longer[n] = runs[n]
              \/ n = l /\ Len(longer) = l /\ longer[n] = Append(runs[n], x)
  <2> DEFINE i == e[n]
  <2>1. i \in 1..m /\ i \in starts /\ l \in Nat
    BY <1>10 DEF l
  <2>2. runs[n] = RunFrom(rows, publishes, i)
    BY <2>1, <1>4, <1>10 DEF l
  <2>3. longer[n] = RunFrom(more, publishes, i)
    <3>1. n \in 1..Len(g) /\ g[n] = i
      BY <2>1, <1>12
    <3>2. i \in 1..(m + 1)
      BY <2>1, <1>1
    <3> QED
      BY <3>1, <3>2, <1>4, <1>11
  <2>4. /\ End(i) \in i..m /\ runs[n] = SubSeq(rows, i, End(i))
        /\ \A k \in i..m : Within(rows, publishes, i, k) <=> k <= End(i)
    <3> HIDE DEF i
    <3>1. i \in 1..Len(rows)
      BY <2>1
    <3> QED
      BY <3>1, <2>2, RunEnds
  <2>5. longer[n] = SubSeq(more, i, EndOfRun(more, publishes, i))
    <3>1. i \in 1..Len(more)
      BY <2>1, <1>1
    <3> HIDE DEF i, more
    <3> QED
      BY <3>1, <2>3, <1>1, RunEnds
  <2> DEFINE Ext == End(i) = m /\ IsDwelling(x, publishes) /\ x.stop = rows[i].stop
  <2>6. EndOfRun(more, publishes, i) = IF Ext THEN m + 1 ELSE End(i)
    <3> HIDE DEF i
    <3> QED
      BY <2>1, RunGoesOn
  <2>7. /\ \A b \in i..m : SubSeq(more, i, b) = SubSeq(rows, i, b)
        /\ SubSeq(more, i, m + 1) = Append(SubSeq(rows, i, m), x)
    <3> HIDE DEF i
    <3> QED
      BY <2>1, PartOfMore
  <2>8. Opens(rows, publishes, i)
    BY <2>1, <1>7
  <2> HIDE DEF i, End, more
  <2>9. CASE ~Ext
    <3>1. longer[n] = SubSeq(more, i, End(i))
      BY <2>5, <2>6, <2>9
    <3> QED
      BY <3>1, <2>4, <2>7
  <2>10. CASE Ext
    <3> HIDE DEF m
    <3>1. longer[n] = Append(runs[n], x)
      BY <2>4, <2>5, <2>6, <2>7, <2>10
    <3>2. \A k \in i..m : IsDwelling(rows[k], publishes) /\ rows[k].stop = rows[i].stop
      <4> TAKE k \in i..m
      <4>1. Within(rows, publishes, i, m)
        <5>1. m \in i..m /\ m <= End(i)
          BY <2>1, <2>10, <1>1
        <5> QED
          BY <5>1, <2>4
      <4>2. k = i \/ k \in (i + 1)..m
        BY <2>1, <1>1
      <4> QED
        BY <4>1, <4>2, <2>8 DEF Within, Opens
    <3>3. n = l
      <4> SUFFICES ASSUME n # l PROVE FALSE
        OBVIOUS
      <4>1. n + 1 \in 1..l /\ n < n + 1
        BY <2>1
      <4> DEFINE j == e[n + 1]
      <4>2. i < j /\ j \in 1..m /\ j \in starts
        BY <4>1, <1>10 DEF i, l
      <4> HIDE DEF j
      <4>3. j \in i..m /\ j - 1 \in i..m /\ j # 1
        BY <4>2, <2>1, <1>1
      <4>4. Opens(rows, publishes, j)
        BY <4>2, <1>7
      <4> QED
        BY <4>3, <4>4, <3>2 DEF Opens
    <3>4. m + 1 \notin opening
      <4> SUFFICES ASSUME m + 1 \in opening PROVE FALSE
        OBVIOUS
      <4>1. Opens(more, publishes, m + 1)
        BY <1>7
      <4>2. m \in i..m /\ m \in 1..m /\ m + 1 # 1 /\ (m + 1) - 1 = m
        BY <2>1, <1>1
      <4>3. more[m] = rows[m] /\ more[m + 1] = x
        BY <4>2, <1>1
      <4>4. IsDwelling(rows[m], publishes) /\ rows[m].stop = x.stop
        BY <4>2, <3>2, <2>10
      <4> QED
        BY <4>1, <4>2, <4>3, <4>4 DEF Opens
    <3>5. Len(longer) = l
      BY <3>4, <1>11, <1>12
    <3> QED
      BY <3>1, <3>3, <3>5
  <2> QED
    BY <2>9, <2>10
<1> QED
  BY <1>10, <1>13, <1>14 DEF RunsGrown, l, runs, longer, more

-----------------------------------------------------------------------------
(* Visits, when the rows get one more.                                     *)

\* The visits a become b: all but the last stay, and that one at its stop.
VisitsGrown(a, b) ==
  /\ Len(b) \in {Len(a), Len(a) + 1}
  /\ \A n \in 1..Len(a) :
       \/ b[n] = a[n]
       \/ /\ n = Len(a) /\ Len(b) = Len(a)
          /\ b[n].stop = a[n].stop /\ a[n].arrival <= b[n].arrival

LEMMA VisitsGrow ==
  ASSUME NEW S, NEW rows \in Seq(S), NEW x \in S, Timed(rows), x.time \in 0..MaxTime,
         \A i \in 1..Len(rows) : rows[i].time <= x.time,
         NEW publishes \in BOOLEAN, NEW id
  PROVE  VisitsGrown(RawVisits(id, Runs(rows, publishes), publishes),
                     RawVisits(id, Runs(Append(rows, x), publishes), publishes))
<1> DEFINE runs == Runs(rows, publishes)
           longer == Runs(Append(rows, x), publishes)
           a == RawVisits(id, runs, publishes)
           b == RawVisits(id, longer, publishes)
           l == Len(runs)
           k == Len(longer)
<1>1. RunsGrown(runs, longer, x)
  BY RunsGrow
<1>2. runs \in Seq(Seq(S)) /\ \E s, t : RunsAt(rows, publishes, runs, s, t)
  BY RunsAre
<1>3. longer \in Seq(Seq(S))
  <2>1. Append(rows, x) \in Seq(S)
    OBVIOUS
  <2> QED
    BY <2>1, RunsAre
<1> HIDE DEF runs, longer
<1>4. /\ l \in Nat /\ DOMAIN runs = 1..l /\ k \in Nat /\ DOMAIN longer = 1..k
      /\ \A n \in 1..l : runs[n] \in Seq(S)
  BY <1>2, <1>3, Items
<1> HIDE DEF l, k
<1>5. /\ a = [n \in 1..l |-> VisitOf(id, runs[n], publishes)]
      /\ b = [n \in 1..k |-> VisitOf(id, longer[n], publishes)]
  BY <1>4 DEF RawVisits
<1>6. Len(a) = l /\ Len(b) = k
  <2>1. a = [n \in 1..l |-> a[n]] /\ b = [n \in 1..k |-> b[n]]
    BY <1>5
  <2> HIDE DEF a, b
  <2> QED
    BY <2>1, <1>4, MadeList
<1>7. /\ \A n \in 1..l : a[n] = VisitOf(id, runs[n], publishes)
      /\ \A n \in 1..k : b[n] = VisitOf(id, longer[n], publishes)
  BY <1>5
<1> HIDE DEF a, b
<1>8. k \in {l, l + 1}
  BY <1>1 DEF RunsGrown, l, k
<1>9. ASSUME NEW n \in 1..l
      PROVE  \/ b[n] = a[n]
             \/ n = l /\ k = l /\ b[n].stop = a[n].stop /\ a[n].arrival <= b[n].arrival
  <2>1. n \in 1..k
    BY <1>4, <1>8
  <2>2. CASE longer[n] = runs[n]
    BY <2>1, <2>2, <1>7
  <2>3. CASE n = l /\ k = l /\ longer[n] = Append(runs[n], x)
    <3> DEFINE run == runs[n]
               more == Append(run, x)
    <3>1. PICK s, t : RunsAt(rows, publishes, runs, s, t)
      BY <1>2
    <3>2. /\ s[n] \in 1..Len(rows) /\ t[n] \in 1..Len(rows) /\ s[n] <= t[n]
          /\ run = SubSeq(rows, s[n], t[n])
      BY <3>1 DEF RunsAt, l
    <3>3. t[n] \in s[n]..Len(rows) /\ Len(rows) \in Nat
      BY <3>2, Items
    <3>4. Last(run) = rows[t[n]] /\ Len(run) = t[n] - s[n] + 1
      <4> DEFINE c == s[n]
                 d == t[n]
      <4>1. c \in 1..Len(rows) /\ d \in c..Len(rows)
        BY <3>2, <3>3
      <4> HIDE DEF c, d
      <4>2. Last(SubSeq(rows, c, d)) = rows[d] /\ Len(SubSeq(rows, c, d)) = d - c + 1
        BY <4>1, RunHolds
      <4> QED
        BY <4>2, <3>2 DEF c, d
    <3>5. run \in Seq(S) /\ Len(run) \in Nat /\ Len(run) >= 1
      <4>1. run \in Seq(S)
        BY <1>4
      <4>2. t[n] - s[n] + 1 \in Nat /\ t[n] - s[n] + 1 >= 1
        BY <3>2, <3>3
      <4> QED
        BY <4>1, <4>2, <3>4
    <3> HIDE DEF run
    <3>6. Len(more) = Len(run) + 1 /\ more[Len(run) + 1] = x /\ \A i \in 1..Len(run) : more[i] = run[i]
      BY <3>5, OneMore
    <3>7. more[1] = run[1] /\ Last(more) = x
      <4>1. 1 \in 1..Len(run)
        BY <3>5
      <4> QED
        BY <4>1, <3>6 DEF Last
    <3> HIDE DEF more
    <3>8. /\ a[n] = VisitOf(id, run, publishes)
          /\ b[n] = VisitOf(id, more, publishes)
      BY <2>1, <2>3, <1>7 DEF run, more
    <3>9. /\ a[n].stop = run[1].stop /\ b[n].stop = run[1].stop
          /\ a[n].arrival = IF publishes THEN run[1].time ELSE Last(run).time
          /\ b[n].arrival = IF publishes THEN run[1].time ELSE x.time
      BY <3>7, <3>8 DEF VisitOf
    <3>10. Last(run).time <= x.time
      BY <3>2, <3>4
    <3>11. run[1].time <= run[1].time
      <4>1. run[1] = rows[s[n]]
        <5> DEFINE c == s[n]
                   d == t[n]
        <5>1. c \in 1..Len(rows) /\ d \in c..Len(rows)
          BY <3>2, <3>3
        <5> HIDE DEF c, d
        <5>2. SubSeq(rows, c, d)[1] = rows[c]
          BY <5>1, RunHolds
        <5> QED
          BY <5>2, <3>2 DEF c, d
      <4>2. rows[s[n]].time \in 0..MaxTime
        BY <3>2, Items DEF Timed
      <4> QED
        BY <4>1, <4>2
    <3> QED
      BY <2>3, <3>9, <3>10, <3>11
  <2> QED
    BY <2>2, <2>3, <1>1 DEF RunsGrown, l, k
<1> QED
  <2>1. VisitsGrown(a, b)
    BY <1>6, <1>8, <1>9 DEF VisitsGrown
  <2> QED
    BY <2>1 DEF a, b, runs, longer

\* A visit more leaves all but the last visit as they are.
LEMMA MergeAfter ==
  ASSUME NEW X, NEW id, NEW s \in Seq(VisitSet(X, id)), NEW v \in VisitSet(X, id)
  PROVE  LET r == MergeVisit(s, v) IN
         /\ r \in Seq(VisitSet(X, id)) /\ Len(r) >= Len(s) /\ Len(r) \in Nat /\ Len(s) \in Nat
         /\ \A i \in 1..(Len(s) - 1) : r[i] = s[i]
<1> DEFINE r == MergeVisit(s, v)
           V == VisitSet(X, id)
<1>1. r \in Seq(V) /\ Len(s) \in Nat
  BY MergeStep, Items
<1>2. CASE Flickers(s, v)
  <2>1. Relast(s, MergedLast(Last(s), v), r)
    BY <1>2, MergeStep
  <2>2. Len(r) = Len(s) /\ \A i \in 1..(Len(s) - 1) : r[i] = s[i]
    BY <2>1 DEF Relast
  <2> QED
    BY <1>1, <2>2
<1>3. CASE ~Flickers(s, v)
  <2>1. r = Append(s, v)
    BY <1>3, MergeStep
  <2>2. s \in Seq(V) /\ v \in V
    OBVIOUS
  <2> HIDE DEF V, r
  <2>3. Len(r) = Len(s) + 1 /\ \A i \in 1..Len(s) : r[i] = s[i]
    BY <2>1, <2>2, OneMore
  <2> QED
    BY <1>1, <2>3 DEF r, V
<1> QED
  BY <1>2, <1>3

LEMMA FrontStays ==
  ASSUME NEW X, NEW id, NEW s \in Seq(VisitSet(X, id)), s # <<>>, NEW v \in VisitSet(X, id)
  PROVE  IsPrefix(Front(s), MergeVisit(s, v)) /\ IsPrefix(Front(s), s)
<1> DEFINE V == VisitSet(X, id)
           r == MergeVisit(s, v)
<1>1. /\ r \in Seq(V) /\ Len(r) >= Len(s) /\ Len(r) \in Nat
      /\ \A i \in 1..(Len(s) - 1) : r[i] = s[i]
  BY MergeAfter
<1>2. s \in Seq(V)
  OBVIOUS
<1> HIDE DEF V, r
<1>3. /\ Front(s) \in Seq(V) /\ Len(s) \in Nat /\ Len(s) >= 1 /\ Len(Front(s)) = Len(s) - 1
      /\ \A i \in 1..(Len(s) - 1) : Front(s)[i] = s[i]
  BY <1>2, FrontOf
<1>4. Len(Front(s)) <= Len(r) /\ Len(Front(s)) <= Len(s)
  BY <1>1, <1>3
<1>5. IsPrefix(Front(s), r)
  BY <1>1, <1>3, <1>4, BeginsWith
<1>6. IsPrefix(Front(s), s)
  BY <1>2, <1>3, <1>4, BeginsWith
<1> QED
  BY <1>5, <1>6 DEF r

\* A last visit that goes on leaves the ones before it as they were.
LEMMA LastGoesOn ==
  ASSUME NEW X, NEW id, NEW s \in Seq(VisitSet(X, id)),
         NEW a \in VisitSet(X, id), NEW b \in VisitSet(X, id),
         a.stop = b.stop, a.arrival <= b.arrival,
         s # <<>> => s[Len(s)].departure <= a.arrival
  PROVE  IsPrefix(Front(MergeVisit(s, a)), MergeVisit(s, b))
<1> DEFINE V == VisitSet(X, id)
           r == MergeVisit(s, a)
           q == MergeVisit(s, b)
           l == Len(s)
           front == Front(r)
<1>1. /\ r \in Seq(V) /\ q \in Seq(V) /\ l \in Nat /\ Len(q) \in Nat /\ Len(q) >= l
      /\ \A i \in 1..(l - 1) : q[i] = s[i]
      /\ \A i \in 1..(l - 1) : r[i] = s[i]
  <2>1. r \in Seq(V) /\ l \in Nat /\ \A i \in 1..(l - 1) : r[i] = s[i]
    BY MergeAfter
  <2>2. q \in Seq(V) /\ Len(q) \in Nat /\ Len(q) >= l /\ \A i \in 1..(l - 1) : q[i] = s[i]
    BY MergeAfter
  <2> QED
    BY <2>1, <2>2
<1>2. CASE Flickers(s, a)
  <2>1. s # <<>> /\ l >= 1 /\ Len(r) = l
    <3>1. Relast(s, MergedLast(Last(s), a), r)
      BY <1>2, MergeStep
    <3> QED
      BY <3>1 DEF Relast
  <2>2. r # <<>>
    BY <2>1
  <2> HIDE DEF V, r, q, l
  <2>3. front \in Seq(V) /\ Len(front) = l - 1 /\ \A i \in 1..(l - 1) : front[i] = r[i]
    BY <1>1, <2>1, <2>2, FrontOf
  <2>4. Len(front) <= Len(q) /\ \A i \in 1..Len(front) : front[i] = q[i]
    BY <1>1, <2>3
  <2> HIDE DEF front
  <2>5. IsPrefix(front, q)
    BY <1>1, <2>3, <2>4, BeginsWith
  <2> QED
    BY <2>5 DEF front, r, q
<1>3. CASE ~Flickers(s, a)
  <2>1. r = Append(s, a)
    BY <1>3, MergeStep
  <2>2. ~Flickers(s, b)
    <3> SUFFICES ASSUME s # <<>>, Last(s).stop = b.stop, b.arrival - Last(s).departure \in 0..MergeGap
                 PROVE  FALSE
      BY DEF Flickers
    <3>1. s \in Seq(V)
      OBVIOUS
    <3>2. Last(s) = s[l] /\ Last(s) \in V
      <4> HIDE DEF V
      <4> QED
        BY <3>1, FrontOf
    <3> DEFINE d == Last(s).departure
               y == a.arrival
               z == b.arrival
    <3>3. d \in Int /\ y \in Int /\ z \in Int /\ d <= y /\ y <= z
      BY <3>2, MergedFields
    <3>4. ~(y - d \in 0..MergeGap)
      BY <1>3 DEF Flickers
    <3>5. z - d \in 0..MergeGap /\ MergeGap \in Int
      BY ServiceDayAssumption
    <3> HIDE DEF d, y, z
    <3> QED
      BY <3>3, <3>4, <3>5
  <2>3. q = Append(s, b)
    BY <2>2, MergeStep
  <2>4. s \in Seq(V) /\ a \in V /\ b \in V
    OBVIOUS
  <2> HIDE DEF V, r, q
  <2>5. Len(r) = l + 1 /\ \A i \in 1..l : r[i] = s[i]
    BY <2>1, <2>4, OneMore
  <2>6. Len(q) = l + 1 /\ \A i \in 1..l : q[i] = s[i]
    BY <2>3, <2>4, OneMore
  <2> HIDE DEF l
  <2>7. r # <<>>
    BY <1>1, <2>5
  <2>8. front \in Seq(V) /\ Len(front) = Len(r) - 1 /\ \A i \in 1..(Len(r) - 1) : front[i] = r[i]
    BY <1>1, <2>7, FrontOf
  <2> HIDE DEF front
  <2>9. Len(front) = l
    BY <1>1, <2>5, <2>8
  <2>10. Len(front) <= Len(q) /\ \A i \in 1..Len(front) : front[i] = q[i]
    BY <1>1, <2>5, <2>6, <2>8, <2>9
  <2>11. IsPrefix(front, q)
    BY <1>1, <2>8, <2>10, BeginsWith
  <2> QED
    BY <2>11 DEF front, r, q
<1> QED
  BY <1>2, <1>3

\* Merging visits that have grown.
LEMMA MergedGrow ==
  ASSUME NEW X, NEW id, NEW a \in Seq(VisitSet(X, id)), NEW b \in Seq(VisitSet(X, id)),
         Follow(a), VisitsGrown(a, b), MergeCloseVisits(a) # <<>>
  PROVE  IsPrefix(Front(MergeCloseVisits(a)), MergeCloseVisits(b))
<1> DEFINE V == VisitSet(X, id)
           l == Len(a)
           k == Len(b)
<1>1. PICK f : /\ MergesUpTo(X, id, a, f)
               /\ MergeCloseVisits(a) = IF MergeGap <= 0 THEN a ELSE f[l]
  BY Merging
<1>2. PICK g : /\ MergesUpTo(X, id, b, g)
               /\ MergeCloseVisits(b) = IF MergeGap <= 0 THEN b ELSE g[k]
  BY Merging
<1>3. l \in Nat /\ k \in Nat /\ (\A n \in 1..l : a[n] \in V) /\ \A n \in 1..k : b[n] \in V
  BY Items
<1>4. /\ k \in {l, l + 1}
      /\ \A n \in 1..l : \/ b[n] = a[n]
                         \/ n = l /\ k = l /\ b[n].stop = a[n].stop /\ a[n].arrival <= b[n].arrival
  BY DEF VisitsGrown
<1>5. /\ f[0] = <<>> /\ g[0] = <<>>
      /\ \A n \in 0..l : f[n] \in Seq(V)
      /\ \A n \in 0..k : g[n] \in Seq(V)
      /\ \A n \in 1..l : f[n] = MergeVisit(f[n-1], a[n])
      /\ \A n \in 1..k : g[n] = MergeVisit(g[n-1], b[n])
  BY <1>1, <1>2 DEF MergesUpTo
<1>6. \A n \in 0..l : MergedUpTo(X, id, a, f, n)
  BY <1>1, MergedSoFar
<1>7. a # <<>> /\ l >= 1
  <2>1. CASE l = 0
    <3>1. a = <<>> /\ f[l] = <<>>
      BY <2>1, <1>5
    <3>2. MergeCloseVisits(a) = <<>>
      BY <3>1, <1>1
    <3> QED
      BY <3>2
  <2>2. CASE l # 0
    BY <2>2, <1>3
  <2> QED
    BY <2>1, <2>2
<1>8. CASE MergeGap <= 0
  <2>1. MergeCloseVisits(a) = a /\ MergeCloseVisits(b) = b
    BY <1>1, <1>2, <1>8
  <2> DEFINE front == Front(a)
  <2>2. front \in Seq(V) /\ Len(front) = l - 1 /\ \A i \in 1..(l - 1) : front[i] = a[i]
    <3>1. a \in Seq(V)
      OBVIOUS
    <3> HIDE DEF V
    <3> QED
      BY <3>1, <1>7, FrontOf
  <2> HIDE DEF front
  <2>3. \A i \in 1..(l - 1) : a[i] = b[i]
    BY <1>3, <1>4
  <2>4. Len(front) <= Len(b) /\ \A i \in 1..Len(front) : front[i] = b[i]
    BY <2>2, <2>3, <1>3, <1>4
  <2>5. b \in Seq(V)
    OBVIOUS
  <2> HIDE DEF V
  <2>6. IsPrefix(front, b)
    BY <2>2, <2>4, <2>5, BeginsWith
  <2> QED
    BY <2>1, <2>6 DEF front
<1>9. CASE ~(MergeGap <= 0)
  <2>1. MergeCloseVisits(a) = f[l] /\ MergeCloseVisits(b) = g[k]
    BY <1>1, <1>2, <1>9
  <2> DEFINE Good == {n \in Nat : n \in 0..l /\ (\A i \in 1..n : b[i] = a[i]) => f[n] = g[n]}
  <2> HIDE DEF V, l, k
  <2>2. 0 \in Good
    BY <1>5
  <2>3. ASSUME NEW n \in Nat, n \in Good PROVE n + 1 \in Good
    <3> SUFFICES ASSUME n + 1 \in 0..l, \A i \in 1..(n + 1) : b[i] = a[i] PROVE f[n + 1] = g[n + 1]
      OBVIOUS
    <3>1. n \in 0..l /\ n + 1 \in 1..l /\ n + 1 \in 1..k /\ (n + 1) - 1 = n
      BY <1>3, <1>4
    <3>2. \A i \in 1..n : b[i] = a[i]
      OBVIOUS
    <3>3. f[n] = g[n] /\ b[n + 1] = a[n + 1]
      BY <2>3, <3>1, <3>2
    <3> QED
      BY <3>1, <3>3, <1>5
  <2>4. Nat \subseteq Good
    <3> HIDE DEF Good
    <3> QED
      BY <2>2, <2>3, Induction
  <2> DEFINE n == l - 1
             s == f[n]
  <2>5. n \in Nat /\ n \in 0..l /\ l \in 1..l /\ l \in 0..l /\ n + 1 = l /\ l \in 1..k /\ l \in Nat
    BY <1>3, <1>4, <1>7
  <2>6. \A i \in 1..n : b[i] = a[i]
    BY <2>5, <1>4
  <2>7. s = g[n] /\ s \in Seq(V)
    BY <2>4, <2>5, <2>6, <1>5
  <2>8. f[l] = MergeVisit(s, a[l]) /\ g[l] = MergeVisit(s, b[l]) /\ f[l] \in Seq(V) /\ f[l] # <<>>
    <3>1. f[l] # <<>>
      BY <2>1
    <3> QED
      BY <3>1, <2>5, <2>7, <1>5
  <2>9. a[l] \in VisitSet(X, id) /\ b[l] \in VisitSet(X, id)
    BY <2>5, <1>3 DEF V
  <2>10. CASE b[l] = a[l]
    <3>1. f[l] = g[l]
      BY <2>8, <2>10
    <3>2. CASE k = l
      <4>1. IsPrefix(Front(f[l]), f[l])
        BY <2>8, <2>9, FrontStays DEF V
      <4> QED
        BY <4>1, <2>1, <3>1, <3>2
    <3>3. CASE k = l + 1
      <4>1. k \in 1..k /\ k - 1 = l
        BY <3>3, <2>5
      <4>2. g[k] = MergeVisit(f[l], b[k])
        BY <4>1, <3>1, <1>5
      <4>3. b[k] \in VisitSet(X, id)
        BY <4>1, <1>3 DEF V
      <4>4. IsPrefix(Front(f[l]), MergeVisit(f[l], b[k]))
        BY <2>8, <4>3, FrontStays DEF V
      <4> QED
        BY <4>2, <4>4, <2>1
    <3> QED
      BY <3>2, <3>3, <1>4
  <2>11. CASE k = l /\ b[l].stop = a[l].stop /\ a[l].arrival <= b[l].arrival
    <3>1. s # <<>> => s[Len(s)].departure <= a[l].arrival
      <4> SUFFICES ASSUME s # <<>> PROVE s[Len(s)].departure <= a[l].arrival
        OBVIOUS
      <4>1. MergedUpTo(X, id, a, f, n)
        BY <2>5, <1>6 DEF l
      <4> HIDE DEF n
      <4>2. n # 0 /\ s[Len(s)].departure = a[n].departure
        BY <4>1 DEF MergedUpTo
      <4>3. n \in 1..(l - 1)
        BY <4>2, <2>5
      <4>4. a[n].departure <= a[n + 1].arrival
        BY <4>3 DEF Follow, l
      <4> QED
        BY <4>2, <4>4, <2>5
    <3> HIDE DEF s
    <3>2. IsPrefix(Front(MergeVisit(s, a[l])), MergeVisit(s, b[l]))
      BY <2>7, <2>9, <2>11, <3>1, LastGoesOn DEF V
    <3> QED
      BY <3>2, <2>1, <2>8, <2>11
  <2> QED
    BY <2>5, <2>10, <2>11, <1>4
<1> QED
  BY <1>8, <1>9

-----------------------------------------------------------------------------
(* The day, ping by ping.                                                  *)

\* One ping more leaves the rows of a vehicle, or follows them.
LEMMA RowsGrow ==
  ASSUME NEW S, NEW past \in Seq(S), NEW x \in S, DayOfPings(past),
         x.time \in (0..MaxTime) \cup {Absent}, NEW id,
         Reporting(x) => \A i \in PlacesOf(past, id) : past[i].time <= x.time
  PROVE  LET rows == RowsByVehicle(past, id)
             more == RowsByVehicle(Append(past, x), id)
         IN /\ rows \in Seq(S)
            /\ \/ more = rows
               \/ /\ more = Append(rows, x) /\ x.time \in 0..MaxTime
                  /\ \A i \in 1..Len(rows) : rows[i].time <= x.time
<1> DEFINE m == Len(past)
           longer == Append(past, x)
           places == PlacesOf(past, id)
           wider == PlacesOf(longer, id)
           kept == ItemsAt(past, places)
           rows == RowsByVehicle(past, id)
           more == RowsByVehicle(longer, id)
<1>1. /\ m \in Nat /\ DOMAIN past = 1..m /\ longer \in Seq(S) /\ DOMAIN longer = 1..(m + 1)
      /\ \A i \in 1..m : longer[i] = past[i]
      /\ longer[m + 1] = x
  BY OneMore
<1>2. rows = Sorted(kept, "time") /\ more = Sorted(ItemsAt(longer, wider), "time")
  BY DEF RowsByVehicle
<1>3. /\ \A i \in 1..m : i \in places <=> i \in wider
      /\ m + 1 \in wider => Reporting(x)
  <2> HIDE DEF longer, m
  <2>1. \A i \in 1..m : i \in places <=> i \in wider
    <3> TAKE i \in 1..m
    <3>1. i \in 1..(m + 1)
      BY <1>1
    <3> QED
      BY <3>1, <1>1 DEF PlacesOf
  <2>2. m + 1 \in wider => Reporting(x)
    BY <1>1 DEF PlacesOf
  <2> QED
    BY <2>1, <2>2
<1>4. \A i \in places : i \in 1..m /\ past[i].time \in 0..MaxTime
  <2>1. \A i \in 1..m : past[i].time \in (0..MaxTime) \cup {Absent}
    BY <1>1 DEF DayOfPings
  <2> QED
    BY <2>1, <1>1 DEF PlacesOf, Reporting
<1> HIDE DEF places, wider, rows, more
<1>5. ItemsAt(longer, wider) = IF m + 1 \in wider THEN Append(kept, x) ELSE kept
  BY <1>3, KeptAfterAppend
<1>6. kept \in Seq(S) /\ ToSet(kept) = {past[i] : i \in places \cap DOMAIN past}
  BY KeptLines
<1> HIDE DEF kept, longer, m
<1>7. \A i \in DOMAIN kept : /\ kept[i]["time"] \in Int
                             /\ Reporting(x) => kept[i]["time"] <= x["time"]
  <2> TAKE i \in DOMAIN kept
  <2>1. kept[i] \in ToSet(kept)
    BY DEF ToSet
  <2>2. PICK j \in places : kept[i] = past[j]
    BY <2>1, <1>6
  <2>3. past[j].time \in Int
    BY <1>4, ServiceDayAssumption
  <2>4. Reporting(x) => past[j].time <= x.time
    BY DEF places
  <2> QED
    BY <2>2, <2>3, <2>4
<1>8. rows \in Seq(S) /\ ToSet(rows) = ToSet(kept)
  <2>1. \A i \in DOMAIN kept : kept[i]["time"] \in Int
    BY <1>7
  <2> QED
    BY <2>1, <1>2, <1>6, SortedBy
<1>9. CASE m + 1 \notin wider
  <2>1. more = rows
    BY <1>2, <1>5, <1>9
  <2> QED
    BY <2>1, <1>8 DEF rows, more, longer
<1>10. CASE m + 1 \in wider
  <2>1. Reporting(x)
    BY <1>3, <1>10
  <2>2. x.time \in 0..MaxTime
    BY <2>1 DEF Reporting
  <2>3. x["time"] \in Int
    BY <2>2, ServiceDayAssumption
  <2>4. \A i \in DOMAIN kept : kept[i]["time"] \in Int /\ kept[i]["time"] <= x["time"]
    BY <1>7, <2>1
  <2>5. Sorted(Append(kept, x), "time") = Append(Sorted(kept, "time"), x)
    BY <2>3, <2>4, <1>6, SortedAppend
  <2>6. more = Append(rows, x)
    BY <2>5, <1>2, <1>5, <1>10
  <2>7. \A i \in 1..Len(rows) : rows[i].time <= x.time
    <3> TAKE i \in 1..Len(rows)
    <3>1. rows[i] \in ToSet(kept)
      BY <1>8, Items
    <3>2. PICK j \in DOMAIN kept : rows[i] = kept[j]
      BY <3>1 DEF ToSet
    <3> QED
      BY <3>2, <2>4
  <2> QED
    BY <2>2, <2>6, <2>7, <1>8 DEF rows, more, longer
<1> QED
  BY <1>9, <1>10

LEMMA Settled == DayInv => SettledVisitsStay
<1> DEFINE past == Front(pings)
           new == Last(pings)
           p == PublishesStoppedAt(pings)
<1> SUFFICES ASSUME DayInv, pings # <<>>, PublishesStoppedAt(past) = p, NEW id,
                    Reporting(new) => \A i \in PlacesOf(past, id) : ~(new.time < past[i].time),
                    Dwells(past, id) # <<>>
             PROVE  IsPrefix(Front(Dwells(past, id)), Dwells(pings, id))
  BY DEF SettledVisitsStay
<1> DEFINE S == ToSet(pings)
           before == Dwells(past, id)
           after == Dwells(pings, id)
           rows == RowsByVehicle(past, id)
           more == RowsByVehicle(pings, id)
           X == Named(more)
           V == VisitSet(X, id)
           a == RawVisits(id, Runs(rows, p), p)
           b == RawVisits(id, Runs(more, p), p)
<1>1. pings \in Seq(S) /\ DayOfPings(pings) /\ \A i \in DOMAIN pings : pings[i].time \in (0..MaxTime) \cup {Absent}
  BY DEF DayInv, DayOfPings, IsList
<1>2. p \in BOOLEAN
  BY DEF PublishesStoppedAt
<1>3. before = MergeCloseVisits(a) /\ after = MergeCloseVisits(b)
  BY DEF Dwells, RawVisits
<1> HIDE DEF S, p, before, after
<1>4. /\ past \in Seq(S) /\ new \in S /\ new = pings[Len(pings)] /\ Len(pings) \in Nat /\ Len(pings) >= 1
      /\ Len(past) = Len(pings) - 1
      /\ \A i \in 1..(Len(pings) - 1) : past[i] = pings[i]
  BY <1>1, FrontOf
<1>5. pings = Append(past, new)
  BY <1>1, FrontAndLast
<1> HIDE DEF past, new, rows, more
<1>6. \A i \in 1..Len(pings) : pings[i].time \in (0..MaxTime) \cup {Absent}
  <2>1. DOMAIN pings = 1..Len(pings)
    BY <1>1, Items
  <2> QED
    BY <2>1, <1>1
<1>7. new.time \in (0..MaxTime) \cup {Absent}
  BY <1>4, <1>6
<1>8. DayOfPings(past)
  <2>1. DOMAIN past = 1..Len(past)
    BY <1>4, Items
  <2>2. \A i \in 1..Len(past) : past[i].time \in (0..MaxTime) \cup {Absent}
    BY <1>4, <1>6
  <2> QED
    BY <2>1, <2>2, <1>4, ListOf DEF DayOfPings
<1>9. Reporting(new) => \A i \in PlacesOf(past, id) : past[i].time <= new.time
  <2> SUFFICES ASSUME Reporting(new), NEW i \in PlacesOf(past, id) PROVE past[i].time <= new.time
    OBVIOUS
  <2>1. new.time \in 0..MaxTime
    BY <1>7 DEF Reporting
  <2>2. past[i].time \in 0..MaxTime
    BY <1>8 DEF DayOfPings, PlacesOf, Reporting
  <2>3. ~(new.time < past[i].time)
    OBVIOUS
  <2> QED
    BY <2>1, <2>2, <2>3, ServiceDayAssumption
<1>10. /\ rows \in Seq(S)
       /\ \/ more = rows
          \/ /\ more = Append(rows, new) /\ new.time \in 0..MaxTime
             /\ \A i \in 1..Len(rows) : rows[i].time <= new.time
  BY <1>4, <1>5, <1>7, <1>8, <1>9, RowsGrow DEF rows, more
<1>11. Timed(rows) /\ Timed(more)
  BY <1>1, <1>8, RowsTimed DEF rows, more
<1>12. before # <<>>
  BY DEF before
<1>13. CASE more = rows
  <2>1. before = after
    BY <1>3, <1>13
  <2>2. before \in Seq(VisitSet(Named(rows), id))
    BY <1>8, DwellsAre DEF before, rows
  <2> DEFINE W == VisitSet(Named(rows), id)
  <2>3. Last(before) \in W
    <3> HIDE DEF W
    <3>1. before \in Seq(W)
      BY <2>2 DEF W
    <3> QED
      BY <3>1, <1>12, FrontOf
  <2>4. IsPrefix(Front(before), before)
    BY <2>2, <2>3, <1>12, FrontStays
  <2> QED
    BY <2>1, <2>4 DEF before, after, past
<1>14. CASE /\ more = Append(rows, new) /\ new.time \in 0..MaxTime
            /\ \A i \in 1..Len(rows) : rows[i].time <= new.time
  <2>1. a \in Seq(VisitSet(Named(rows), id)) /\ Follow(a)
    BY <1>2, <1>11, RawAre
  <2>2. b \in Seq(V)
    BY <1>2, <1>11, RawAre
  <2>3. Named(rows) \subseteq X
    <3>1. /\ DOMAIN rows = 1..Len(rows) /\ DOMAIN more = 1..(Len(rows) + 1) /\ Len(rows) \in Nat
          /\ \A i \in 1..Len(rows) : more[i] = rows[i]
      BY <1>4, <1>10, <1>14, OneMore
    <3>2. DOMAIN rows \subseteq DOMAIN more /\ \A i \in DOMAIN rows : more[i] = rows[i]
      BY <3>1
    <3> QED
      BY <3>2 DEF Named
  <2>4. VisitSet(Named(rows), id) \subseteq V
    <3> HIDE DEF X
    <3> QED
      BY <2>3 DEF VisitSet
  <2>5. VisitsGrown(a, b)
    BY <1>2, <1>4, <1>10, <1>11, <1>14, VisitsGrow
  <2> HIDE DEF a, b, V
  <2>6. a \in Seq(V)
    <3>1. IsList(a) /\ ToSet(a) \subseteq VisitSet(Named(rows), id)
      BY <2>1, ListOf
    <3>2. ToSet(a) \subseteq V
      BY <3>1, <2>4
    <3> QED
      BY <3>1, <3>2, ListOf
  <2>7. MergeCloseVisits(a) # <<>>
    BY <1>3, <1>12
  <2>8. IsPrefix(Front(MergeCloseVisits(a)), MergeCloseVisits(b))
    BY <2>1, <2>2, <2>5, <2>6, <2>7, MergedGrow DEF V
  <2> QED
    BY <2>8, <1>3 DEF before, after, past
<1> QED
  BY <1>10, <1>13, <1>14

\* The pings of a day are rows with times, or without.
LEMMA DayBegins == ServiceDayInit => DayInv
<1> SUFFICES ASSUME ServiceDayInit PROVE DayInv
  OBVIOUS
<1>1. pings = <<>> /\ shapes \in PingFeeds
  BY DEF ServiceDayInit
<1>2. IsList(pings) /\ DOMAIN pings = {}
  <2> DEFINE none == <<>>
             N == {}
  <2>1. none \in Seq(N) /\ DOMAIN none = {}
    OBVIOUS
  <2> HIDE DEF none, N
  <2>2. IsList(none)
    BY <2>1, ListOf
  <2> QED
    BY <2>1, <2>2, <1>1 DEF none
<1> QED
  BY <1>1, <1>2 DEF DayInv, DayOfPings

LEMMA DayGoesOn == DayInv /\ [ServiceDayNext]_dayVars => DayInv'
<1> SUFFICES ASSUME DayInv, [ServiceDayNext]_dayVars PROVE DayInv'
  OBVIOUS
<1>1. CASE ServiceDayNext
  <2>1. PICK shape \in shapes, time \in (0..MaxTime) \cup {Absent} : Ping(shape, time)
    BY <1>1 DEF ServiceDayNext
  <2> DEFINE row == [shape EXCEPT !.time = time]
             S == ToSet(pings) \cup {row}
             m == Len(pings)
  <2>2. pings' = Append(pings, row) /\ shapes' = shapes
    BY <2>1 DEF Ping
  <2>3. row.time = time
    <3>1. "time" \in DOMAIN shape
      BY ServiceDayAssumption DEF DayInv
    <3> QED
      BY <3>1
  <2>4. pings \in Seq(S) /\ row \in S
    <3>1. IsList(pings) /\ ToSet(pings) \subseteq S
      BY DEF DayInv, DayOfPings
    <3> HIDE DEF S
    <3>2. pings \in Seq(S)
      BY <3>1, ListOf
    <3> QED
      BY <3>2 DEF S
  <2> HIDE DEF row, S
  <2>5. /\ Append(pings, row) \in Seq(S) /\ m \in Nat /\ DOMAIN pings = 1..m
        /\ DOMAIN Append(pings, row) = 1..(m + 1)
        /\ \A i \in 1..m : Append(pings, row)[i] = pings[i]
        /\ Append(pings, row)[m + 1] = row
    BY <2>4, OneMore
  <2>6. \A i \in 1..(m + 1) : Append(pings, row)[i].time \in (0..MaxTime) \cup {Absent}
    <3> TAKE i \in 1..(m + 1)
    <3>1. CASE i \in 1..m
      BY <3>1, <2>5 DEF DayInv, DayOfPings
    <3>2. CASE i = m + 1
      BY <3>2, <2>3, <2>5
    <3> QED
      BY <3>1, <3>2, <2>5
  <2>7. DayOfPings(Append(pings, row))
    <3>1. IsList(Append(pings, row))
      BY <2>5, ListOf
    <3> QED
      BY <3>1, <2>5, <2>6 DEF DayOfPings
  <2> QED
    BY <2>2, <2>7 DEF DayInv, DayOfPings
<1>2. CASE UNCHANGED dayVars
  BY <1>2 DEF dayVars, DayInv, DayOfPings
<1> QED
  BY <1>1, <1>2

LEMMA DayKept ==
  ServiceDaySpec =>
    [](/\ ServiceDayTypeOK /\ VisitsAreApart /\ SettledVisitsStay /\ EveryDwellingPingCounted
       /\ RollupsAgree /\ OnScheduleIsOnTime /\ SegmentsNeverOverlap)
<1>1. DayInv => /\ ServiceDayTypeOK /\ VisitsAreApart /\ SettledVisitsStay
                /\ EveryDwellingPingCounted
                /\ RollupsAgree /\ OnScheduleIsOnTime /\ SegmentsNeverOverlap
  BY DayTypes, Apart, Settled, Counted, Rollups, OnTime, NoOverlap
<1> QED
  BY <1>1, DayBegins, DayGoesOn, PTL DEF ServiceDaySpec

\* In every day that can come about, whatever the archive, the feed's pings and
\* MARTA's countdowns are: a schedule's travel times elapse and its headways
\* telescope, names do not shadow ids; visits are apart, settled, counted,
\* rolled up and on time when they are on schedule; no segments of a trip
\* overlap; and countdowns end in arrivals that the trips partition.
THEOREM ServiceDayIsSound == MartsSpec => []ServiceDaySound
<1>1. ASSUME TravelTimesElapse, HeadwaysTelescope, ShortNamesFirst,
             ServiceDayTypeOK, VisitsAreApart, SettledVisitsStay, EveryDwellingPingCounted,
             RollupsAgree, OnScheduleIsOnTime, SegmentsNeverOverlap,
             EveryCountdownArrives, TripsPartitionArrivals
      PROVE  ServiceDaySound
  BY <1>1 DEF ServiceDaySound
<1> QED
  BY <1>1, TimetableKept, DayKept, MartaKept, PTL DEF MartsSpec
=============================================================================
