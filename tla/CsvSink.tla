------------------------------ MODULE CsvSink -------------------------------
(***************************************************************************)
(* The CSV sink of src/src/api/telemetry.cpp: samples of one cycle are     *)
(* gathered in a pending row, which is written when a sample of another    *)
(* cycle arrives or when the sink is flushed.                              *)
(*                                                                         *)
(* Simplifications.  A sink has at most two columns, one for the values    *)
(* that its selectors pick and one for the measurement fields; a cell is   *)
(* filled or empty.  A row counts as written once the stream took it.      *)
(* `fault` says whether the disk fails the operation.  Every sink has a    *)
(* path of its own.                                                        *)
(***************************************************************************)
EXTENDS Integers, Sequences

VARIABLES sink,      \* csv_sink_
          csvRows    \* the rows in the file of the current sink

csvVars == <<sink, csvRows>>

Columns == {"value", "measurement"}
NoRow   == [cycle |-> 0, cells |-> {}]
NoSink  == [enabled |-> FALSE, columns |-> {}, open |-> FALSE, good |-> TRUE, pending |-> NoRow]

\* A sink as initialize_csv_sink_file leaves it: enabled, its file open and truncated.
OpenedSink(columns) ==
  [enabled |-> TRUE, columns |-> columns, open |-> TRUE, good |-> TRUE, pending |-> NoRow]

Row(cycle, cell) == [cycle |-> cycle, cells |-> {cell}]

\* write_csv_row succeeds: the stream takes the pending row.
CanWriteRow(fault) == sink.open /\ sink.good /\ ~fault

\* A failed write leaves the stream bad; a missing directory is noticed before the write.
WriteRowFails(fault) ==
  /\ ~CanWriteRow(fault)
  /\ UNCHANGED csvRows
  /\ \/ sink' = [sink EXCEPT !.good = FALSE]
     \/ fault /\ UNCHANGED sink

\* Mutant: the row of the new cycle replaces the old one and is written at once too.
FillCellEarly(cycle, cell) ==
  /\ sink' = [sink EXCEPT !.pending = Row(cycle, cell)]
  /\ csvRows' = Append(csvRows, Row(cycle, cell))

\* prepare_csv_row where no row has to be written first, and the cell's assignment.
FillCell(cycle, cell) ==
  /\ sink' = [sink EXCEPT !.pending =
       IF @.cycle = cycle THEN [cycle |-> cycle, cells |-> @.cells \cup {cell}]
       ELSE Row(cycle, cell)]
  /\ UNCHANGED csvRows

\* prepare_csv_row where the pending row belongs to another cycle.
WriteThenFill(cycle, cell) ==
  /\ sink' = [sink EXCEPT !.pending = Row(cycle, cell)]
  /\ csvRows' = Append(csvRows, sink.pending)

Wants(column) == sink.enabled /\ column \in sink.columns

MustWriteFirst(cycle) == sink.pending # NoRow /\ sink.pending.cycle # cycle

\* append_csv_values and append_csv_measurement for a sample of a cycle; ok is
\* what they return.
AppendCsv(column, cycle, fault, ok) ==
  \/ ~Wants(column) /\ ok /\ UNCHANGED csvVars
  \/ Wants(column) /\ ~MustWriteFirst(cycle) /\ ok /\ FillCell(cycle, column)
  \/ Wants(column) /\ MustWriteFirst(cycle) /\ CanWriteRow(fault) /\ ok
       /\ WriteThenFill(cycle, column)
  \/ Wants(column) /\ MustWriteFirst(cycle) /\ ~ok /\ WriteRowFails(fault)

\* flush_csv_sink: write what is pending, close the file; the sink stays enabled.
ClosedSink == [sink EXCEPT !.open = FALSE, !.pending = NoRow, !.good = @ /\ sink.open]

FlushCsvSink(fault) ==
  \/ ~sink.enabled /\ UNCHANGED csvVars
  \/ /\ sink.enabled
     /\ sink' = ClosedSink
     /\ csvRows' = IF sink.pending # NoRow /\ CanWriteRow(fault)
                   THEN Append(csvRows, sink.pending) ELSE csvRows

CsvInit == sink = NoSink /\ csvRows = <<>>

SinkTypeOK ==
  /\ DOMAIN sink = {"enabled", "columns", "open", "good", "pending"}
  /\ sink.enabled \in BOOLEAN /\ sink.open \in BOOLEAN /\ sink.good \in BOOLEAN
  /\ sink.columns \subseteq Columns
  /\ sink.pending.cycle \in Nat /\ sink.pending.cells \subseteq Columns
  /\ \A i \in 1..Len(csvRows) : csvRows[i].cycle \in Nat \ {0} /\ csvRows[i].cells # {}

\* A cycle has one row, and rows are in the order of the cycles: samples that
\* different drains pop for one cycle land in one pending row.
OneRowPerCycle ==
  /\ \A i, j \in 1..Len(csvRows) : i < j => csvRows[i].cycle < csvRows[j].cycle
  /\ sink.pending # NoRow =>
       \A i \in 1..Len(csvRows) : csvRows[i].cycle < sink.pending.cycle
=============================================================================
