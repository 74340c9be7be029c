-------------------------------- MODULE Marts --------------------------------
(* From the archive and the pings of a day to its marts: the timetable, the *)
(* vehicles' day and MARTA's day share no state, and a service day is sound *)
(* when each of them is.                                                    *)
EXTENDS Timetable, ServiceDay, MartaDay

MartsSpec == TimetableSpec /\ ServiceDaySpec /\ MartaSpec

\* static_gtfs.py, vehicle_day.py, metrics.py, adherence.py, segment_speed.py
\* and marta_day.py: the schedule of a service day means what the archive says,
\* across midnight and with ambiguous names, and its pings and countdowns
\* become visits that are apart, rollups that add up, and segments that do not
\* overlap.
ServiceDaySound ==
  /\ TravelTimesElapse
  /\ HeadwaysTelescope
  /\ ShortNamesFirst
  /\ ServiceDayTypeOK
  /\ VisitsAreApart
  /\ SettledVisitsStay
  /\ EveryDwellingPingCounted
  /\ RollupsAgree
  /\ OnScheduleIsOnTime
  /\ SegmentsNeverOverlap
  /\ EveryCountdownArrives
  /\ TripsPartitionArrivals

=============================================================================
