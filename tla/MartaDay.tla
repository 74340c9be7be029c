------------------------------ MODULE MartaDay ------------------------------
(* analysis/marta_day.py: MARTA publishes no positions but countdowns,     *)
(* "train T will be at station S in N seconds".  A day's countdowns of one *)
(* (train, station, destination) are split into approaches where the       *)
(* predicted arrival jumps, each approach that came close to zero is an    *)
(* arrival, and the arrivals of a train are cut into trips where its       *)
(* destination changes.                                                    *)
EXTENDS Integers, Selection, StableSort

CONSTANTS
  MartaKeys,      \* the (train, station, destination) groups, in their order
  MartaLines,     \* bound: what a countdown says, <<next_arr, waiting_seconds>>
  MaxWait,        \* max_wait_for_arrival_s
  SplitGap,       \* approach_split_gap_s
  MaxPredictions  \* bound: countdowns of the day

ASSUME MartaAssumption ==
  /\ IsList(MartaKeys)
  /\ MartaLines \subseteq Int \X Int
  /\ MaxWait \in Int /\ SplitGap \in Int

VARIABLE predictions  \* by feed_timestamp

-----------------------------------------------------------------------------
Group(key) == ItemsAt(predictions, {i \in DOMAIN predictions : predictions[i].key = key})

\* A list cut into pieces, each from one of the places to before the next.
CutAt(list, starts) ==
  LET PieceFrom(i) == SubSeq(list, i, CHOOSE j \in i..Len(list) :
                                        /\ j = Len(list) \/ j + 1 \in starts
                                        /\ \A k \in (i + 1)..j : k \notin starts)
  IN ItemsAt([i \in DOMAIN list |-> PieceFrom(i)], starts)

\* A jump of the prediction opens another approach.
Opening(group) ==
  {i \in DOMAIN group :
     i = 1 \/ group[i].next_arr - group[i - 1].next_arr \notin (-SplitGap)..SplitGap}

\* Mutant of Approaches: the approach still open at the end is left out.
ApproachesLeftOpen(group) ==
  IF group = <<>> THEN <<>> ELSE Front(CutAt(group, Opening(group)))

Approaches(group) == CutAt(group, Opening(group))

\* The first countdown of an approach that was lowest.
Lowest(approach) ==
  approach[CHOOSE i \in DOMAIN approach :
             /\ \A j \in DOMAIN approach : approach[i].waiting <= approach[j].waiting
             /\ \A j \in 1..(i - 1) : approach[j].waiting > approach[i].waiting]

ApproachesInGroup(key) ==
  LET approaches == Approaches(Group(key))
      Arrival(approach) == LET p == Lowest(approach)
                           IN [key |-> key, arrival |-> p.next_arr, last_waiting |-> p.waiting]
  IN ItemsAt([n \in DOMAIN approaches |-> Arrival(approaches[n])],
             {n \in DOMAIN approaches : Lowest(approaches[n]).waiting <= MaxWait})

\* Countdowns without a train are dropped.
Arrivals ==
  LET keys == ItemsAt(MartaKeys, {n \in DOMAIN MartaKeys : MartaKeys[n].train # ""})
  IN Sorted(FlattenSeq([n \in DOMAIN keys |-> ApproachesInGroup(keys[n])]), "arrival")

ArrivalsOf(train) ==
  LET all == Arrivals IN ItemsAt(all, {i \in DOMAIN all : all[i].key.train = train})

\* The places a train turns at.
Turns(list) ==
  {i \in DOMAIN list : i = 1 \/ list[i].key.destination # list[i - 1].key.destination}

\* Mutant of TrainTrips: the trip that is open at the end is left out.
TripsUnfinished(train) ==
  LET all == ArrivalsOf(train) IN
  IF all = <<>> THEN <<>> ELSE Front(CutAt(all, Turns(all)))

\* The trips of one train, each with its arrivals; the last one is open ended.
TrainTrips(train) == LET all == ArrivalsOf(train) IN CutAt(all, Turns(all))

-----------------------------------------------------------------------------
MartaInit == predictions = <<>>

Predict(key, line) ==
  /\ Len(predictions) < MaxPredictions
  /\ predictions' = Append(predictions, [key |-> key, next_arr |-> line[1], waiting |-> line[2]])

MartaNext == \E key \in ToSet(MartaKeys), line \in MartaLines : Predict(key, line)

MartaSpec == MartaInit /\ [][MartaNext]_predictions

-----------------------------------------------------------------------------
\* A countdown that came close to zero is the arrival of its train there, or
\* is outdone by a lower one of the same approach (_approaches_in_group).
EveryCountdownArrives ==
  LET arrivals == ToSet(Arrivals) IN
  \A p \in ToSet(predictions) :
    (p.key.train # "" /\ p.waiting <= MaxWait) =>
      \E a \in arrivals : a.key = p.key /\ a.last_waiting <= p.waiting

\* The trips of a train are its arrivals, all of them and in order, and no two
\* in a row have one destination: an arrival is numbered within one trip only
\* (MartaDay.trips, export_marta_events_csv).
TripsPartitionArrivals ==
  \A train \in {a.key.train : a \in ToSet(Arrivals)} :
    LET trips == TrainTrips(train)
    IN /\ FlattenSeq(trips) = ArrivalsOf(train)
       /\ \A n \in DOMAIN trips : \A i, j \in DOMAIN trips[n] :
            /\ trips[n][i].key.destination = trips[n][j].key.destination
            /\ i < j => trips[n][i].arrival <= trips[n][j].arrival
       /\ \A n \in 1..(Len(trips) - 1) : trips[n][1].key.destination # trips[n + 1][1].key.destination
=============================================================================
