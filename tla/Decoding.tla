------------------------------- MODULE Decoding -------------------------------
(***************************************************************************)
(* The rollup decodes a day of stored payloads, one .bin after another     *)
(* (Rollup._rollup_data).  A GTFS-realtime feed is decoded by the Rust     *)
(* extension, whose builders should give what its row functions and the    *)
(* Python decoder give; a TfNSW feed has a fourth table for the carriages; *)
(* a JSON feed has a decoder of its own, which the poller uses as well, to *)
(* tell drift when the payload is stored (parse_response).                 *)
(*                                                                         *)
(* A protobuf payload is a sequence of entities, a JSON payload a sequence *)
(* of records in a list or in an envelope.  An enum field is Unset or a   *)
(* number, known or unknown; other fields are carried along.               *)
(***************************************************************************)
EXTENDS Selection

CONSTANTS
  Unset,      \* a field that is not set
  Messages,   \* protobuf payloads
  Documents,  \* JSON payloads
  HalfDay,    \* half a day, in units of MARTA's clock
  MaxBins,    \* bound: .bin files of the day
  MaxPayloads \* bound: payloads in them

\* Repeated fields are lists, and JSON's times are after the epoch.
ASSUME DecodingAssumption ==
  /\ {HalfDay, MaxBins, MaxPayloads} \subseteq Nat \ {0}
  /\ \A m \in Messages :
       /\ IsList(m.entities)
       /\ \A e \in ToSet(m.entities) :
            /\ e.vehicle # Unset => IsList(e.vehicle.carriages)
            /\ e.trip # Unset =>
                 IsList(e.trip.stops) /\ \A s \in ToSet(e.trip.stops) : IsList(s.carriages)
            /\ e.alert # Unset => IsList(e.alert.texts) /\ IsList(e.alert.informed)
  /\ \A d \in Documents :
       IsList(d.records) /\ \A r \in ToSet(d.records) : {r.event, r.clock} \subseteq Nat

VARIABLES
  decoder,    \* the feed's decoder, by its registered name
  opened,     \* the .bin files opened so far
  at,         \* payloads of the last one decoded so far
  skipped,    \* the rest of the last one is skipped
  decoded,    \* the rows given to the sinks
  rollup      \* how the day's rollup stands

decodingVars == <<decoder, opened, at, skipped, decoded, rollup>>

\* mta_nyct inherits everything from standard.
ProtobufDecoders == {"standard", "tfnsw"}

-----------------------------------------------------------------------------
(* Enum values and their names.                                            *)

TripRelationships ==
  (0 :> "SCHEDULED" @@ 1 :> "ADDED" @@ 2 :> "UNSCHEDULED" @@ 3 :> "CANCELED"
     @@ 5 :> "REPLACEMENT" @@ 6 :> "DUPLICATED")

TfnswTripRelationships ==
  [r \in DOMAIN TripRelationships \ {6} |-> TripRelationships[r]]

StopRelationships ==
  (0 :> "SCHEDULED" @@ 1 :> "SKIPPED" @@ 2 :> "NO_DATA" @@ 3 :> "UNSCHEDULED")

Causes == (1 :> "UNKNOWN_CAUSE" @@ 2 :> "OTHER_CAUSE")

\* prost keeps the number; a number without a name fails the payload.
Unnamed(names, raw) == raw \notin DOMAIN names \cup {Unset}

\* The name of a number; Python's closed enums leave an unknown one unset.
Name(names, raw) == IF raw \in DOMAIN names THEN names[raw] ELSE Unset

-----------------------------------------------------------------------------
(* Rows.                                                                   *)

VehicleRow(v, trips) ==
  [table |-> "vehicles", id |-> v.id,
   relationship |-> Name(trips, v.relationship)]

StopTimeUpdateRow(t, s, trips, stops) ==
  [table |-> "trip_updates", id |-> t.id,
   relationship |-> Name(trips, t.relationship),
   stop |-> s.id, stop_relationship |-> Name(stops, s.relationship)]

AlertRow(a, route, text) ==
  [table |-> "alerts", id |-> a.id, cause |-> Name(Causes, a.cause),
   route |-> route, text |-> text]

\* One row for each carriage of a stop or a vehicle, which is its parent.
ConsistRows(parent, carriages) ==
  [i \in DOMAIN carriages |->
     [table |-> "consist", parent |-> parent, carriage |-> carriages[i]]]

\* The text in the language, or the first one.
TranslatedString(translations, language) ==
  LET preferred == ItemsAt(translations,
                     {i \in DOMAIN translations : translations[i].language = language})
  IN IF translations = <<>> THEN Unset
     ELSE Head(IF preferred = <<>> THEN translations ELSE preferred).text

FirstTranslation(translations) ==
  IF translations = <<>> THEN Unset ELSE Head(translations).text

Explode(a, text) == [i \in DOMAIN a.informed |-> AlertRow(a, a.informed[i], text)]

-----------------------------------------------------------------------------
(* The Python decoder: an entity is a vehicle, a trip update or an alert,  *)
(* in this order.                                                          *)

\* StandardDecoder._translated_string: English, or the first text there is.
PythonText(texts) ==
  LET english == {i \in DOMAIN texts : texts[i].language = "en"}
  IN  FirstTranslation(IF english # {} THEN ItemsAt(texts, english) ELSE texts)

PythonVehicle(v) == VehicleRow(v, TripRelationships)

PythonTrip(t) ==
  [i \in DOMAIN t.stops |->
     StopTimeUpdateRow(t, t.stops[i], TripRelationships, StopRelationships)]

PythonAlert(a) == Explode(a, PythonText(a.texts))

PythonEntity(e) ==
  IF e.vehicle # Unset THEN <<PythonVehicle(e.vehicle)>>
  ELSE IF e.trip # Unset THEN PythonTrip(e.trip)
  ELSE IF e.alert # Unset THEN PythonAlert(e.alert)
  ELSE <<>>

PythonDecode(m) == FlattenSeq([i \in DOMAIN m.entities |-> PythonEntity(m.entities[i])])

-----------------------------------------------------------------------------
(* The Rust extension: decode_arrow and decode_feed_message.               *)

RustFails(e) ==
  \/ /\ e.vehicle # Unset
     /\ Unnamed(TripRelationships, e.vehicle.relationship)
  \/ /\ e.vehicle = Unset /\ e.trip # Unset
     /\ \/ Unnamed(TripRelationships, e.trip.relationship)
        \/ \E i \in DOMAIN e.trip.stops :
             Unnamed(TripRelationships, e.trip.stops[i].relationship)
  \/ /\ e.vehicle = Unset /\ e.trip = Unset /\ e.alert # Unset
     /\ Unnamed(Causes, e.alert.cause)

BuiltVehicle(v) == VehicleRow(v, TripRelationships)

\* The builder of trip_updates takes the stop's relationship for a trip's,
\* which decode_trip_update does not (trip_update.rs:97-120).
BuiltTrip(t) ==
  [i \in DOMAIN t.stops |->
     StopTimeUpdateRow(t, t.stops[i], TripRelationships, TripRelationships)]

\* decode_trip_update, which decode uses.
DecodeTripUpdate(t) ==
  [i \in DOMAIN t.stops |->
     StopTimeUpdateRow(t, t.stops[i], TripRelationships, StopRelationships)]

BuiltAlert(a) == Explode(a, TranslatedString(a.texts, "en"))

\* Mutant of BuiltEntity: a trip update goes before a vehicle.
BuiltEntityTripFirst(e) ==
  IF e.trip # Unset THEN BuiltTrip(e.trip)
  ELSE IF e.vehicle # Unset THEN <<BuiltVehicle(e.vehicle)>>
  ELSE IF e.alert # Unset THEN BuiltAlert(e.alert)
  ELSE <<>>

BuiltEntity(e) ==
  IF e.vehicle # Unset THEN <<BuiltVehicle(e.vehicle)>>
  ELSE IF e.trip # Unset THEN BuiltTrip(e.trip)
  ELSE IF e.alert # Unset THEN BuiltAlert(e.alert)
  ELSE <<>>

DecodeArrow(m) == FlattenSeq([i \in DOMAIN m.entities |-> BuiltEntity(m.entities[i])])

\* decode's own functions for a vehicle, an alert and a payload.
DecodeVehicle(v) == VehicleRow(v, TripRelationships)

DecodeAlert(a) == Explode(a, TranslatedString(a.texts, "en"))

DecodeFeedMessage(m) ==
  LET Entity(e) == IF e.vehicle # Unset THEN <<DecodeVehicle(e.vehicle)>>
                   ELSE IF e.trip # Unset THEN DecodeTripUpdate(e.trip)
                   ELSE IF e.alert # Unset THEN DecodeAlert(e.alert)
                   ELSE <<>>
  IN FlattenSeq([i \in DOMAIN m.entities |-> Entity(m.entities[i])])

-----------------------------------------------------------------------------
(* The TfNSW decoder of the extension: carriages have rows of their own.   *)

TfnswVehicle(v) ==
  LET row == VehicleRow(v, TfnswTripRelationships)
  IN <<row>> \o ConsistRows(row, v.carriages)

TfnswTrip(t) ==
  FlattenSeq([i \in DOMAIN t.stops |->
    LET row == StopTimeUpdateRow(t, t.stops[i], TfnswTripRelationships,
                                 StopRelationships)
    IN <<row>> \o ConsistRows(row, t.stops[i].carriages)])

TfnswAlert(a) == Explode(a, FirstTranslation(a.texts))

UnnamedCarriage(carriages) == \E i \in DOMAIN carriages : carriages[i] = "unknown"

TfnswFails(e) ==
  \/ /\ e.vehicle # Unset
     /\ \/ Unnamed(TfnswTripRelationships, e.vehicle.relationship)
        \/ UnnamedCarriage(e.vehicle.carriages)
  \/ /\ e.vehicle = Unset /\ e.trip # Unset
     /\ \/ Unnamed(TfnswTripRelationships, e.trip.relationship)
        \/ \E i \in DOMAIN e.trip.stops :
             \/ Unnamed(StopRelationships, e.trip.stops[i].relationship)
             \/ UnnamedCarriage(e.trip.stops[i].carriages)
  \/ /\ e.vehicle = Unset /\ e.trip = Unset /\ e.alert # Unset
     /\ Unnamed(Causes, e.alert.cause)

TfnswEntity(e) ==
  IF e.vehicle # Unset THEN TfnswVehicle(e.vehicle)
  ELSE IF e.trip # Unset THEN TfnswTrip(e.trip)
  ELSE IF e.alert # Unset THEN TfnswAlert(e.alert)
  ELSE <<>>

DecodeFeed(m) ==
  FlattenSeq([i \in DOMAIN m.entities |-> TfnswEntity(m.entities[i])])

-----------------------------------------------------------------------------
(* The JSON decoders.  A record may lack a required key ("incomplete"),    *)
(* hold a text that is no number or time where one is read ("garbled"), a  *)
(* value of another type where a method of it is called ("mistyped"), or   *)
(* be no object at all ("stray").                                          *)
(*   envelopes  how decode takes a list and an object apart                *)
(*   strays     what happens to a record that is no object                 *)
(*   reads      which defects raise: a ValueError or another exception     *)

MartaJson == [list |-> "records", object |-> "raises", strays |-> "raise",
              reads |-> {"garbled", "mistyped"}]

LirrJson == [list |-> "records", object |-> "raises", strays |-> "raise",
             reads |-> {"mistyped"}]

MwrtaJson == [list |-> "records", object |-> "nothing", strays |-> "drop",
              reads |-> {"garbled", "mistyped"}]

RouteMatchJson == [list |-> "raises", object |-> "records", strays |-> "raise",
                   reads |-> {}]

TrilliumJson == [list |-> "records", object |-> "records", strays |-> "raise",
                 reads |-> {}]

SwivJson == [list |-> "records", object |-> "records", strays |-> "raise",
             reads |-> {"garbled", "mistyped"}]

VtaJson == [list |-> "records", object |-> "records", strays |-> "raise",
            reads |-> {}]

PassioJson == [list |-> "nothing", object |-> "records", strays |-> "raise",
               reads |-> {"garbled"}]

JsonDecoders ==
  [marta_json |-> MartaJson, mta_lirr_json |-> LirrJson, mwrta_json |-> MwrtaJson,
   routematch_json |-> RouteMatchJson, trillium_json |-> TrilliumJson,
   swiv_json |-> SwivJson, vta_json |-> VtaJson, passio_json |-> PassioJson]

Records(d, doc) ==
  IF JsonDecoders[d][doc.root] # "records" THEN <<>>
  ELSE IF JsonDecoders[d].strays = "drop"
    THEN ItemsAt(doc.records, {i \in DOMAIN doc.records : doc.records[i].kind # "stray"})
    ELSE doc.records

\* Mutant of Validate: no record is looked into.
ValidateEnvelope(d, doc) ==
  IF JsonDecoders[d][doc.root] = "raises" THEN "raises" ELSE "fine"

\* Decoder.validate, on the first record only: "raises", "drift" or "fine".
Validate(d, doc) ==
  LET records == Records(d, doc)
  IN IF JsonDecoders[d][doc.root] = "raises" THEN "raises"
     ELSE IF records = <<>> THEN "fine"
     ELSE CASE Head(records).kind = "stray" -> "raises"
            [] Head(records).kind = "incomplete" -> "drift"
            [] OTHER -> "fine"

\* parse_response stores what it cannot parse, and what drifted, as well; an
\* exception in validate ends the poll with nothing stored.
Storable(d, payload) ==
  \/ ~payload.readable
  \/ d \in ProtobufDecoders
  \/ Validate(d, payload) # "raises"

\* Mutant of CombineDateAndTime: no rollover.
CombineSameDay(event, clock) == (event \div (2 * HalfDay)) * 2 * HalfDay + clock

\* MARTA's NEXT_ARR has no date: that of the event, or the next day.
CombineDateAndTime(event, clock) ==
  LET sameDay == (event \div (2 * HalfDay)) * 2 * HalfDay + clock
  IN IF event - sameDay > HalfDay THEN sameDay + 2 * HalfDay ELSE sameDay

RecordRow(d, r) ==
  IF d = "marta_json"
    THEN [table |-> d, id |-> r.id, event |-> r.event,
          next_arr |-> CombineDateAndTime(r.event, r.clock)]
    ELSE [table |-> d, id |-> r.id]

\* Records that lack a required key are left out.
JsonRows(d, doc) ==
  LET records == Records(d, doc)
      complete == ItemsAt(records, {i \in DOMAIN records : records[i].kind # "incomplete"})
  IN [i \in DOMAIN complete |-> RecordRow(d, complete[i])]

JsonRaises(d, doc) ==
  \/ JsonDecoders[d][doc.root] = "raises"
  \/ \E i \in DOMAIN Records(d, doc) :
       LET kind == Records(d, doc)[i].kind
       IN kind = "stray" \/ (kind = "mistyped" /\ kind \in JsonDecoders[d].reads)

JsonGarbled(d, doc) ==
  \E i \in DOMAIN Records(d, doc) :
    LET kind == Records(d, doc)[i].kind
    IN kind = "garbled" /\ kind \in JsonDecoders[d].reads

-----------------------------------------------------------------------------
(* One payload, whatever the decoder.                                      *)

\* Mutant of Rejects: a value that cannot be converted is not a bad input.
RejectsParseErrorsOnly(d, payload) == ~payload.readable

\* ParseFailure, DecodeFailure or ValueError: the .bin is malformed.
Rejects(d, payload) ==
  \/ ~payload.readable
  \/ /\ d = "standard"
     /\ \E i \in DOMAIN payload.entities : RustFails(payload.entities[i])
  \/ /\ d = "tfnsw"
     /\ \E i \in DOMAIN payload.entities : TfnswFails(payload.entities[i])
  \/ /\ d \in DOMAIN JsonDecoders
     /\ JsonGarbled(d, payload)
     /\ ~JsonRaises(d, payload)

\* Any other exception: nothing catches it.
Raises(d, payload) ==
  /\ payload.readable
  /\ d \in DOMAIN JsonDecoders
  /\ JsonRaises(d, payload) \/ (JsonGarbled(d, payload) /\ ~Rejects(d, payload))

\* Mutant of RowsOf: every protobuf feed is decoded like TfNSW's.
RowsOfTfnsw(d, payload) ==
  IF d \in ProtobufDecoders THEN DecodeFeed(payload) ELSE JsonRows(d, payload)

RowsOf(d, payload) ==
  CASE d = "standard" -> DecodeArrow(payload)
    [] d = "tfnsw" -> DecodeFeed(payload)
    [] OTHER -> JsonRows(d, payload)

-----------------------------------------------------------------------------
(* The .bin files, and the loop over them.                                 *)

\* A framed file ends at a torn frame; a digest names its payload only if a
\* metadata row dates it.
IterPayloads(bin) ==
  CASE bin.shape = "framed" /\ bin.torn  -> Front(bin.payloads)
    [] bin.shape = "digest" /\ ~bin.dated -> <<>>
    [] OTHER -> bin.payloads

Payloads == IF decoder \in ProtobufDecoders THEN Messages ELSE Documents

Stored == {p \in Payloads : Storable(decoder, p)}

\* The legacy writer and the content-addressed one store one payload to a
\* file, the batching one several.
Bins ==
  [shape : {"digest"}, payloads : {<<p>> : p \in Stored}, dated : BOOLEAN, torn : {FALSE}]
    \cup
  [shape : {"framed"}, payloads : {<<p, q>> : p \in Stored, q \in Stored},
   dated : {TRUE}, torn : BOOLEAN]

DecodingInit ==
  /\ decoder \in ProtobufDecoders \cup DOMAIN JsonDecoders
  /\ opened = <<>>
  /\ at = 0
  /\ skipped = FALSE
  /\ decoded = <<>>
  /\ rollup = "open"

Current == IterPayloads(Last(opened))

BinOver == opened # <<>> => skipped \/ at = Len(Current)

Stock == Len(FlattenSeq([i \in DOMAIN opened |-> opened[i].payloads]))

OpenBin ==
  /\ rollup = "open"
  /\ BinOver
  /\ Len(opened) < MaxBins
  /\ \E bin \in Bins :
       /\ Stock + Len(bin.payloads) <= MaxPayloads
       /\ opened' = Append(opened, bin)
  /\ at' = 0
  /\ skipped' = FALSE
  /\ UNCHANGED <<decoder, decoded, rollup>>

Upcoming(payload) ==
  /\ rollup = "open"
  /\ ~BinOver
  /\ payload = Current[at + 1]

DecodePayload(payload) ==
  /\ Upcoming(payload)
  /\ ~Rejects(decoder, payload)
  /\ ~Raises(decoder, payload)
  /\ decoded' = decoded \o RowsOf(decoder, payload)
  /\ at' = at + 1
  /\ UNCHANGED <<decoder, opened, skipped, rollup>>

\* Mutant of SkipBin: the next payload of the file is decoded.
SkipPayload(payload) ==
  /\ Upcoming(payload)
  /\ Rejects(decoder, payload)
  /\ at' = at + 1
  /\ UNCHANGED <<decoder, opened, decoded, skipped, rollup>>

\* A malformed .bin: the rows of its earlier payloads stay.
SkipBin(payload) ==
  /\ Upcoming(payload)
  /\ Rejects(decoder, payload)
  /\ skipped' = TRUE
  /\ UNCHANGED <<decoder, opened, at, decoded, rollup>>

\* The exception leaves the loop: the sinks are aborted, there is no marker.
DayFails(payload) ==
  /\ Upcoming(payload)
  /\ Raises(decoder, payload)
  /\ decoded' = <<>>
  /\ rollup' = "failed"
  /\ UNCHANGED <<decoder, opened, at, skipped>>

Commit ==
  /\ rollup = "open"
  /\ BinOver
  /\ rollup' = "committed"
  /\ UNCHANGED <<decoder, opened, at, skipped, decoded>>

DecodingNext ==
  \/ OpenBin
  \/ \E p \in Payloads : DecodePayload(p) \/ SkipBin(p) \/ DayFails(p)
  \/ Commit

DecodingSpec == DecodingInit /\ [][DecodingNext]_decodingVars

-----------------------------------------------------------------------------

\* The types; rows are of the kinds the decoder of the feed produces.
DecodingTypeOK ==
  /\ decoder \in ProtobufDecoders \cup DOMAIN JsonDecoders
  /\ Len(opened) <= MaxBins /\ Stock <= MaxPayloads
  /\ \A i \in DOMAIN opened : opened[i] \in Bins
  /\ at \in 0..2
  /\ skipped \in BOOLEAN
  /\ \A i \in DOMAIN decoded :
       decoded[i].table \in (CASE decoder = "standard" ->
                                 {"vehicles", "trip_updates", "alerts"}
                            [] decoder = "tfnsw" ->
                                 {"vehicles", "trip_updates", "alerts", "consist"}
                            [] OTHER -> {decoder})
  /\ rollup \in {"open", "failed", "committed"}

\* The payloads of a file before the first that is malformed.
Kept(bin) ==
  LET all == IterPayloads(bin)
  IN ItemsAt(all, {j \in DOMAIN all : \A i \in 1..j : ~Rejects(decoder, all[i])})

\* The rows a decoding of the payloads of the day gives.
RowsBy(Decode(_)) ==
  FlattenSeq([i \in DOMAIN opened |->
    FlattenSeq([j \in DOMAIN Kept(opened[i]) |-> Decode(Kept(opened[i])[j])])])

\* Rows without the field the builder of trip_updates gets wrong.
Blank(row) ==
  IF row.table = "trip_updates" THEN [row EXCEPT !.stop_relationship = Unset] ELSE row

Blanked(sequence) == [i \in DOMAIN sequence |-> Blank(sequence[i])]

\* What check_rust_parity.py compares for some payloads: the rows of a day that
\* the Rust builders decode are, but for one field, those the Python decoder
\* yields, in the same order; Rust's row functions give Python's rows exactly.
PathsAgree ==
  rollup = "committed" /\ decoder = "standard" =>
    /\ Blanked(decoded) = Blanked(RowsBy(PythonDecode))
    /\ RowsBy(DecodeFeedMessage) = RowsBy(PythonDecode)

\* A malformed payload costs the rest of its own file and nothing else of the
\* day, on every decoder (the inner try of Rollup._rollup_data).
MalformedPayloadCostsItsFile ==
  rollup = "committed" => decoded = RowsBy(LAMBDA p : RowsOf(decoder, p))

\* What the poller takes for a parsed payload with records does not turn out
\* empty at night: validate and decode look at the same records.
AcceptedPayloadHasRows ==
  rollup = "committed" /\ decoder \in DOMAIN JsonDecoders =>
    \A i \in DOMAIN opened : \A j \in DOMAIN Kept(opened[i]) :
      LET p == Kept(opened[i])[j]
      IN Validate(decoder, p) = "fine" /\ Records(decoder, p) # <<>>
           => JsonRows(decoder, p) # <<>>

\* "Parse/decode failures are handled per .bin" (rollup_one): text that cannot
\* be parsed or converted does not fail the day.  A record of another type than
\* the decoder expects does.
OnlyMistypedRecordsFailTheDay ==
  rollup = "failed" =>
    \E i \in DOMAIN Last(opened).payloads :
      LET p == Last(opened).payloads[i]
      IN p.readable /\ \E j \in DOMAIN p.records : p.records[j].kind \in {"stray", "mistyped"}

\* MARTA's arrivals are not dated half a day or more before the event that
\* predicts them (_combine_date_and_time).
ArrivalsNotInThePast ==
  \A i \in DOMAIN decoded :
    decoded[i].table = "marta_json" => decoded[i].next_arr >= decoded[i].event - HalfDay

=============================================================================
