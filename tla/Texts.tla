-------------------------------- MODULE Texts --------------------------------
(***************************************************************************)
(* What the API does to text: json_escape of                               *)
(* src/src/api/serialization.cpp, csv_escape of src/src/api/telemetry.cpp, *)
(* and, to judge them by, a reader of JSON strings and a reader of CSV     *)
(* files written from the two formats and not from this code.              *)
(*                                                                         *)
(* A text is a sequence of characters.  A character is a string of one     *)
(* character, or a longer string that stands for a run of characters none  *)
(* of the conversions treats specially.                                    *)
(***************************************************************************)
EXTENDS Integers, Sequences, SequencesExt

Quote     == "\""
Backslash == "\\"
Nul       == "NUL"
Control   == "BEL"     \* a control character without an escape of its own

\* The text before the first of a character, or the whole text.
Before(char, text) ==
  LET at == SelectInSeq(text, LAMBDA c : c = char)
  IN  IF at = 0 THEN text ELSE SubSeq(text, 1, at - 1)

Holds(text, chars) == \E i \in 1..Len(text) : text[i] \in chars

\* sample_string: what a fixed array holds before its first NUL.
SampleString(array) == Before(Nul, array)
-----------------------------------------------------------------------------
(* JSON                                                                    *)

Escapes ==
  [c \in {Quote, Backslash, "\n", "\r", "\t"} |->
     CASE c = "\n" -> "n" [] c = "\r" -> "r" [] c = "\t" -> "t" [] OTHER -> c]

\* Mutant: the backslash itself is left as it is.
EscapedBackslashForgotten(c) ==
  IF c \in DOMAIN Escapes \ {Backslash} THEN <<Backslash, Escapes[c]>> ELSE <<c>>

Escaped(c) == IF c \in DOMAIN Escapes THEN <<Backslash, Escapes[c]>> ELSE <<c>>

\* json_escape, and json_escape_snapshot of api.cpp, which is the same function.
JsonEscape(text) == FlattenSeq([i \in DOMAIN text |-> Escaped(text[i])])

NotJson == <<"not a JSON string">>

\* The reference: what a JSON reader makes of the text between two quotes.
JsonStep(r, c) ==
  IF r.bad THEN r
  ELSE IF r.escape
  THEN LET of == {d \in DOMAIN Escapes : Escapes[d] = c}
       IN  IF of = {} THEN [r EXCEPT !.bad = TRUE]
           ELSE [r EXCEPT !.escape = FALSE, !.text = Append(@, CHOOSE d \in of : TRUE)]
  ELSE IF c = Backslash THEN [r EXCEPT !.escape = TRUE]
  ELSE IF c \in {Quote, "\n", "\r", "\t", Control} THEN [r EXCEPT !.bad = TRUE]
  ELSE [r EXCEPT !.text = Append(@, c)]

JsonRead(text) ==
  LET r[i \in 0..Len(text)] ==
        IF i = 0 THEN [bad |-> FALSE, escape |-> FALSE, text |-> <<>>]
        ELSE JsonStep(r[i - 1], text[i])
      last == r[Len(text)]
  IN  IF last.bad \/ last.escape THEN NotJson ELSE last.text
-----------------------------------------------------------------------------
(* CSV                                                                     *)

\* Mutant: a cell is quoted for a comma or a quote only.
MustQuoteLess(text) == Holds(text, {",", Quote})

MustQuote(text) == Holds(text, {",", Quote, "\n", "\r"})

\* csv_escape.
CsvEscape(text) ==
  IF MustQuote(text)
  THEN <<Quote>>
         \o FlattenSeq([i \in DOMAIN text |->
              IF text[i] = Quote THEN <<Quote, Quote>> ELSE <<text[i]>>])
         \o <<Quote>>
  ELSE text

\* The reference: a reader of CSV files, by RFC 4180.  It is at the start of a
\* cell, inside a plain or a quoted one, or behind a quote of a quoted one.
EndCell(r) == [r EXCEPT !.at = "start", !.cell = <<>>, !.row = Append(@, r.cell)]

EndRow(r) ==
  [at |-> "start", cell |-> <<>>, row |-> <<>>, rows |-> Append(r.rows, Append(r.row, r.cell))]

CsvStep(r, c) ==
  CASE r.at = "bad" -> r
    [] r.at = "quoted" -> IF c = Quote THEN [r EXCEPT !.at = "behind"]
                          ELSE [r EXCEPT !.cell = Append(@, c)]
    [] r.at = "behind" /\ c = Quote -> [r EXCEPT !.at = "quoted", !.cell = Append(@, c)]
    [] r.at = "start" /\ c = Quote -> [r EXCEPT !.at = "quoted"]
    [] r.at # "quoted" /\ c = "," -> EndCell(r)
    [] r.at # "quoted" /\ c = "\n" -> EndRow(r)
    [] r.at \in {"start", "plain"} /\ c \notin {Quote, ",", "\n", "\r"} ->
         [r EXCEPT !.at = "plain", !.cell = Append(@, c)]
    [] OTHER -> [r EXCEPT !.at = "bad"]

NotCsv == <<>>

CsvRead(text) ==
  LET r[i \in 0..Len(text)] ==
        IF i = 0 THEN [at |-> "start", cell |-> <<>>, row |-> <<>>, rows |-> <<>>]
        ELSE CsvStep(r[i - 1], text[i])
      last == r[Len(text)]
  IN  IF last.at = "start" /\ last.row = <<>> THEN last.rows ELSE NotCsv
=============================================================================
