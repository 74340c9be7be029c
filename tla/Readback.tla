-------------------------------- MODULE Readback --------------------------------
(***************************************************************************)
(* A day read back: the landing readers find its polls and payloads        *)
(* (LandingReader), the rollup decodes the payloads (Decoding).  The       *)
(* second takes files as the first may yield them, and neither touches     *)
(* what the other keeps, so their composition is the conjunction of their  *)
(* specifications.                                                         *)
(***************************************************************************)
EXTENDS LandingReader, Decoding

ReadbackSpec == ReaderSpec /\ DecodingSpec

\* What a reader makes of what polls leave behind: from the day files and
\* slices of a day, torn lines and repeated shipments included, every poll and
\* every payload is read exactly once, under the time of its first poll; and
\* the payloads become the rows their content determines: the decoders agree
\* wherever they overlap, a payload that is malformed costs its file only, and
\* a clock without a date is never dated into the past.
ReadFaithfully ==
  /\ ReaderTypeOK
  /\ EveryPollReadOnce
  /\ TornLinesAreFew
  /\ DatedByFirstPoll
  /\ EachPayloadReadOnce
  /\ DecodingTypeOK
  /\ PathsAgree
  /\ MalformedPayloadCostsItsFile
  /\ AcceptedPayloadHasRows
  /\ OnlyMistypedRecordsFailTheDay
  /\ ArrivalsNotInThePast

=============================================================================
