------------------------------ MODULE MCRequests ------------------------------
(* The instance of RequestTraffic that TLC checks. *)
EXTENDS RequestTraffic

\* Texts with and without characters that a conversion treats specially; the
\* last two do not fit where a name goes.
TextsUsed ==
  {<<>>, <<"a">>, <<"a", Quote>>, <<Backslash, "n">>, <<"\n", "a">>, <<Control>>, <<",">>,
   <<"a", "b", "c">>, <<"a", "b", "c", "d">>}

UsualNumber == Number(FALSE, 1, "")

\* Every width and one beyond it; two digits; signs, fractions, exponents; and
\* values of every other kind.
ValuesUsed ==
  {Number(FALSE, n, "") : n \in {0, 1, 2, 3, 4, 7, 8, 10, 15, 16}}
    \cup {Number(TRUE, n, "") : n \in {1, 8, 9}}
    \cup {Number(FALSE, 1, rest) : rest \in {".5", ".1", "e1", "e39", "e999"}}
    \cup {Hex(2), Absent, Truth(TRUE), Truth(FALSE), Array(<<UsualNumber>>)}
    \cup {String(<<word>>) : word \in {"pause", "PAUSE", "f32", "i64", "u64", "string", "bogus"}}
    \cup {String(JsonEscape(text)) : text \in TextsUsed}

\* A float has fewer digits than a double, and a double fewer than a 64-bit number.
DoublesUsed == {Number(minus, n, rest) : minus \in BOOLEAN, n \in 0..10 \cup {16}, rest \in {"", ".5", "e1"}}
FloatsUsed  == {d \in DoublesUsed : d.whole \in 0..4 \cup {8, 16}}
-----------------------------------------------------------------------------
(* The CSV requests                                                        *)

Given(node, id, of) ==
  [kind |-> "object", node |-> Number(FALSE, node, ""), id |-> Number(FALSE, id, ""), of |-> of]

\* Two selectors of which the first takes samples of the second; one that takes
\* any node; identifiers too large for a word and for stoull; no objects.
ValueLists ==
  {Absent, Array(<<>>), Array(<<Given(1, 1, "port")>>),
   Array(<<Given(3, 1, "state"), Given(1, 1, "state")>>),
   Array(<<Given(1, 4, "port")>>), Array(<<Given(1, 1, "port"), Given(16, 1, "port")>>),
   Array(<<Given(4, 1, "port"), Given(16, 1, "port")>>), Array(<<UsualNumber>>)}

IdLists ==
  {Absent, Array(<<Number(FALSE, 1, "")>>), Array(<<Number(FALSE, 5, "")>>),
   Array(<<Number(FALSE, 1, ".5")>>), Array(<<Hex(2), Number(FALSE, 1, "")>>)}

NameLists ==
  {Absent, Array(<<>>), Array(<<String(<<",">>)>>), Array(<<String(<<"a", Quote>>)>>),
   Array(<<String(<<"\n">>), String(<<"b">>)>>), Array(<<String(<<",">>), UsualNumber>>),
   Array(<<String(<<"a">>), String(<<"b">>), String(<<",">>)>>)}

FieldLists ==
  {Absent, Array(<<String(<<"latency_ns">>)>>), Array(<<String(<<"bogus">>)>>), Array(<<UsualNumber>>)}

\* One of the two ways to name values at a time, or an unusable first one.
Selections == {<<v, Absent>> : v \in ValueLists} \cup {<<Absent, v>> : v \in IdLists}
                \cup {<<Array(<<UsualNumber>>), Array(<<UsualNumber>>)>>}

CsvRequestsUsed ==
  {[enabled |-> Truth(TRUE), path |-> String(<<"p">>), values |-> by[1], ids |-> by[2],
    names |-> names, fields |-> fields] :
     by \in Selections, names \in NameLists, fields \in FieldLists}
  \cup {[enabled |-> enabled, path |-> path, values |-> Array(<<>>), ids |-> Absent,
         names |-> Array(<<String(<<"a">>)>>), fields |-> Array(<<String(<<"period_ns">>)>>)] :
          enabled \in {Absent, Truth(FALSE)}, path \in {Absent, String(<<>>), String(<<"p">>)}}
  \cup {[enabled |-> Absent, path |-> String(<<"q">>), values |-> Array(<<Given(1, 1, "state")>>),
         ids |-> Absent, names |-> Array(<<String(<<"b">>)>>), fields |-> Absent]}

Sample(node, id, of, type, data) ==
  [node |-> node, id |-> id, of |-> of, type |-> type, data |-> data]

SamplesUsed ==
  {Sample(1, 1, "port", "string", <<"x", ",", Quote, Nul>>), Sample(1, 1, "state", "f64", <<"1.5">>),
   Sample(2, 1, "state", "string", <<"\r", Nul, "y", "y">>), Sample(2, 2, "port", "u64", <<"7">>)}
=============================================================================
