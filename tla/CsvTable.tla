------------------------------- MODULE CsvTable -------------------------------
(***************************************************************************)
(* The table that a CSV request asks for: the request's fields and their   *)
(* checks (the route and parse_csv_value_selectors of src/src/api.cpp),    *)
(* the header, and which sample goes into which cell of a cycle's row      *)
(* (src/src/api/telemetry.cpp).  CsvSink has the rows' life and the        *)
(* failures of their writes; here opening a file and writing its header    *)
(* may fail, and every row is written.                                     *)
(*                                                                         *)
(* A selector names a node or any node, a value and a kind or any kind.    *)
(* The columns are the selectors in their order and then the measurement   *)
(* fields.  A cell is the text that is written for it; a number's text is  *)
(* one character, and so are the cycle and the timestamp.                  *)
(***************************************************************************)
EXTENDS RequestFields

CONSTANTS CsvRequests,   \* what the client asks for
          Samples,       \* what the engine publishes
          MaxCycle       \* bound: cycles of the engine

\* A request's arrays are sequences and its strings texts, and an object has a
\* kind.  A sample's number, and a cycle's, has no character of the format.
ASSUME CsvAssumption ==
  /\ MaxCycle \in Nat
  /\ \A r \in CsvRequests : \A v \in {r.values, r.ids, r.names, r.fields} :
       v.kind = "array" =>
         /\ v.items \in Seq(Range(v.items))
         /\ \A i \in DOMAIN v.items :
              /\ v.items[i].kind = "string" => v.items[i].text \in Seq(STRING)
              /\ v.items[i].kind = "object" => v.items[i].of # "none"
  /\ \A sample \in Samples :
       /\ sample.data \in Seq(STRING)
       /\ sample.type # "string" => ~Holds(sample.data, {",", Quote, "\n", "\r", Nul})
  /\ \A n \in 1..MaxCycle : ToString(n) \notin {",", Quote, "\n", "\r"}

VARIABLES table,      \* csv_sink_
          lines,      \* the lines that were written to its file
          file,       \* the file's path, and whether the lines are still in it
          csvReply    \* the status the last step answered a CSV request with, or 0

tableVars == <<table, lines, file, csvReply>>

AnyNode == WordMax
AnyKind == "none"

Supported == {"period_ns", "latency_ns"}

NoTable == [names |-> <<>>, selectors |-> <<>>, fields |-> <<>>, cycle |-> 0, cells |-> <<>>,
            request |-> [path |-> Absent]]

Selector(node, id, kind) == [node |-> node, id |-> id, kind |-> kind]
-----------------------------------------------------------------------------
(* The request                                                             *)

\* An object of "values" that the regular expression accepts: decimal digits
\* and nothing behind them.
Object(v) == /\ v.kind = "object" /\ v.node.kind = "number" /\ v.id.kind = "number"
             /\ \A n \in {v.node, v.id} : ~n.minus /\ n.rest = ""

Objects(v) == v.kind = "array" /\ \A i \in DOMAIN v.items : Object(v.items[i])

\* The objects that stoull is called for: those before the first one that ends
\* the parse, because it is no such object or its number is too large for a word.
Reached(v) ==
  {i \in DOMAIN v.items :
     \A j \in 1..i : /\ Object(v.items[j])
                     /\ j < i => v.items[j].node.whole <= WordMax /\ v.items[j].id.whole <= WordMax}

\* std::stoull throws out of the handler, and the server answers 500.
ParseThrows(v) ==
  v.kind = "array" /\ \E i \in Reached(v) : v.items[i].node.whole > LongMax \/ v.items[i].id.whole > LongMax

FitWord(v) ==
  \A i \in DOMAIN v.items : v.items[i].node.whole <= WordMax /\ v.items[i].id.whole <= WordMax

\* parse_csv_value_selectors.
ValueSelectors(v) ==
  IF Objects(v) /\ FitWord(v)
  THEN {[i \in DOMAIN v.items |->
           Selector(v.items[i].node.whole, v.items[i].id.whole, v.items[i].of)]}
  ELSE {}

\* Mutant: an identifier is cast to a word without the check.
IdSelectorsCast(v) ==
  {[i \in DOMAIN ids |-> Selector(AnyNode, ids[i] % (WordMax + 1), AnyKind)] : ids \in U64ArrayField(v)}

\* The older form, "value_ids": a value of any node and any kind.
IdSelectors(v) ==
  {[i \in DOMAIN ids |-> Selector(AnyNode, ids[i], AnyKind)] :
     ids \in {given \in U64ArrayField(v) : \A i \in DOMAIN given : given[i] <= WordMax}}

\* "values" if it can be parsed, else "value_ids".
Selectors(r) == IF ValueSelectors(r.values) # {} THEN ValueSelectors(r.values) ELSE IdSelectors(r.ids)

Fields(r) == IF r.fields = Absent THEN {<<>>} ELSE StringArrayField(r.fields)

\* What the route accepts: a path, and a name for every column.
Parsed(r) ==
  {[names |-> names, selectors |-> selectors, fields |-> [i \in DOMAIN fields |-> fields[i][1]],
    cycle |-> 0, cells |-> <<>>, request |-> r] :
     names \in {n \in StringArrayField(r.names) : n # <<>> /\ StringField(r.path) \notin {{}, {<<>>}}},
     selectors \in Selectors(r), fields \in Fields(r)}

Counts(t) == Len(t.names) = Len(t.selectors) + Len(t.fields)

Tables(r) == {t \in Parsed(r) : Counts(t)}
-----------------------------------------------------------------------------
(* The file                                                                *)

\* A line of cells that are written as they are.
Line(cells) ==
  FlattenSeq([i \in DOMAIN cells |-> IF i = 1 THEN cells[i] ELSE <<",">> \o cells[i]]) \o <<"\n">>

\* initialize_csv_sink_file: the header; the names are escaped.
Header(t) ==
  Line(<<<<"cycle_id">>, <<"timestamp_ns">>>> \o [i \in DOMAIN t.names |-> CsvEscape(t.names[i])])

\* write_csv_row.
PendingLine == Line(<<<<ToString(table.cycle)>>, <<"now">>>> \o table.cells)

\* The lines when the pending row, if there is one, is written.
WithPending == IF table.cycle = 0 THEN lines ELSE Append(lines, PendingLine)

EmptyCells == [i \in DOMAIN table.names |-> <<>>]

\* prepare_csv_row, and the cells it leaves to fill.
Prepared(cycle) == IF table.cycle = cycle THEN table.cells ELSE EmptyCells

Fill(cycle, cells) ==
  /\ table' = [table EXCEPT !.cycle = cycle, !.cells = cells]
  /\ lines' = IF table.cycle = cycle THEN lines ELSE WithPending
  /\ csvReply' = 0
  /\ UNCHANGED file

\* csv_value_matches.
Matches(s, sample) ==
  /\ s.node \in {AnyNode, sample.node}
  /\ s.id = sample.id
  /\ s.kind \in {AnyKind, sample.of}

\* value_to_csv: a string is escaped.
Cell(sample) == IF sample.type = "string" THEN CsvEscape(SampleString(sample.data)) ELSE sample.data

\* append_csv_values for one sample: the first selector that matches has it.
AppendValue(sample, cycle) ==
  LET at == SelectInSeq(table.selectors, LAMBDA s : Matches(s, sample)) IN
  /\ at # 0
  /\ Fill(cycle, [Prepared(cycle) EXCEPT ![at] = Cell(sample)])

Offset == Len(table.selectors)

\* append_csv_measurement: the fields are behind the values.
AppendMeasurement(cycle) ==
  /\ table.fields # <<>>
  /\ Fill(cycle, [i \in DOMAIN table.names |->
                    IF i - Offset \in DOMAIN table.fields THEN <<table.fields[i - Offset]>>
                    ELSE Prepared(cycle)[i]])

\* The engine is in the pending row's cycle or in the next one.
Telemetry ==
  /\ table # NoTable
  /\ \E cycle \in {table.cycle, table.cycle + 1} \cap 1..MaxCycle :
       AppendMeasurement(cycle) \/ \E sample \in Samples : AppendValue(sample, cycle)

Reply(status) == csvReply' = status

\* stop_csv_telemetry_file, for "enabled": false.
StopTable(r) ==
  /\ BoolField(r.enabled) = {FALSE}
  /\ table' = NoTable /\ lines' = WithPending
  /\ Reply(202) /\ UNCHANGED file

Throw(r) ==
  /\ ParseThrows(r.values)
  /\ Reply(500) /\ UNCHANGED <<table, lines, file>>

RefuseTable(r) ==
  /\ ~ParseThrows(r.values) /\ Tables(r) = {}
  /\ Reply(400) /\ UNCHANGED <<table, lines, file>>

Path(t) == StringField(t.request.path)

\* csv_sink_valid refuses an unknown field before the file is touched.
KnownFields(t) == \A i \in DOMAIN t.fields : t.fields[i] \in Supported

\* configure_csv_telemetry_file with a file that is open: the new table and its
\* file replace the old ones.
TakeOver(t) ==
  /\ KnownFields(t)
  /\ table' = t /\ lines' = <<Header(t)>> /\ file' = [path |-> Path(t), intact |-> TRUE]
  /\ Reply(202)

\* An unknown field; or the directory cannot be made, or the file not opened.
NoFile(t) == Reply(503) /\ UNCHANGED <<table, lines, file>>

\* The file was opened, which truncates it, and its header cannot be written.  If
\* it is the file of the table in use, its lines are gone.
NoHeader(t) ==
  /\ KnownFields(t)
  /\ file' = [file EXCEPT !.intact = @ /\ file.path # Path(t)]
  /\ Reply(503) /\ UNCHANGED <<table, lines>>

\* Mutant: the sink is replaced before its file is opened.
OpenTableEarly(t) == TakeOver(t) \/ (Reply(503) /\ table' = t /\ UNCHANGED <<lines, file>>)

OpenTable(t) == TakeOver(t) \/ NoFile(t) \/ NoHeader(t)

PostCsv ==
  \E r \in CsvRequests :
    \/ StopTable(r)
    \/ BoolField(r.enabled) # {FALSE} /\ (Throw(r) \/ RefuseTable(r))
    \/ /\ BoolField(r.enabled) # {FALSE} /\ ~ParseThrows(r.values)
       /\ \E t \in Tables(r) : OpenTable(t)

TableInit ==
  /\ table = NoTable /\ lines = <<>> /\ csvReply = 0
  /\ file = [path |-> {}, intact |-> TRUE]

TableNext == PostCsv \/ Telemetry
-----------------------------------------------------------------------------
(* Properties                                                              *)

\* The file as a CSV reader sees it: its records, the header first.
Records == CsvRead(FlattenSeq(lines))

\* Every line is one record with a cell for each column, and the header reads
\* back as the names that were asked for, whatever characters are in names and
\* in samples, and whichever requests failed in between.  It says nothing of a
\* file that a later request for the same path truncated without success.
CsvReadsBack ==
  file.intact /\ lines # <<>> =>
    /\ Len(Records) = Len(lines)
    /\ \A i \in DOMAIN Records : Len(Records[i]) = Len(Records[1])
    /\ table # NoTable =>
         /\ Records[1] = <<<<"cycle_id">>, <<"timestamp_ns">>>> \o table.names
         /\ Len(table.names) = Len(table.selectors) + Len(table.fields)

\* The sample is one that the column was asked for: by an object of "values" or
\* by a number of "value_ids", of the request as it was written.
AskedFor(sample, column) ==
  LET r == table.request
      byObject == ValueSelectors(r.values) # {}
  IN  IF byObject
      THEN LET o == r.values.items[column] IN
           o.id.whole = sample.id /\ o.of = sample.of /\ o.node.whole \in {sample.node, WordMax}
      ELSE r.ids.items[column].whole = sample.id

\* A cell under a value's name is empty or reads as a sample that the request
\* asks for in that column; one under a measurement's name is that field.
CellsUnderTheirNames ==
  file.intact /\ table # NoTable =>
    \A k \in DOMAIN Records \ {1}, i \in DOMAIN table.names :
      LET cell == Records[k][i + 2] IN
      \/ cell = <<>>
      \/ /\ i <= Len(table.selectors)
         /\ \E sample \in Samples : cell = SampleString(sample.data) /\ AskedFor(sample, i)
      \/ i > Len(table.selectors) /\ cell = <<table.fields[i - Len(table.selectors)]>>
=============================================================================
