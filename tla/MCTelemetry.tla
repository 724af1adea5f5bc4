----------------------------- MODULE MCTelemetry ----------------------------
(* The instances of Telemetry that TLC checks. *)
EXTENDS Telemetry

CONSTANTS h1, h2, ticker, main, none

Workers1 == {h1}
Workers2 == {h1, h2}

OneSample  == {1}
SomeCounts == {0, 2}
TwoCounts  == {1, 2}

ValuesOnly  == {"values"}
CsvEvents   == {"values", "measurement"}
AllEvents   == {"values", "measurement", "status"}

NoSinks  == {}
BothSink == {{"value", "measurement"}}
=============================================================================
