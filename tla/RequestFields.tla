---------------------------- MODULE RequestFields ----------------------------
(***************************************************************************)
(* The fields of a request's body: the parsers of src/src/api/http.cpp and *)
(* of the first lines of src/src/api.cpp.  They search the body for        *)
(* "name": and the longest text after it that a regular expression         *)
(* accepts; what follows that text is not looked at.                       *)
(*                                                                         *)
(* A body's field is one of the values below.  A number is written with a  *)
(* sign, its whole digits and a rest: nothing, a fraction ".5" or ".1", or *)
(* an exponent "e1", "e39", which is beyond the floats, or "e999", which   *)
(* is beyond the doubles.  A number that a floating-point type cannot hold *)
(* is rounded to its neighbour: Doubles and Floats are those that need no  *)
(* rounding, and a rounded number keeps what it was rounded from.          *)
(* The text of a string is what stands between its quotes in the body,     *)
(* with the escapes the client wrote.                                      *)
(* A parser yields the set of what it returns: empty for                   *)
(* nullopt, else one value.  Integers keep the widths of the code, scaled  *)
(* down: ByteMax, WordMax and LongMax stand for UINT8_MAX, UINT32_MAX and  *)
(* the largest 64-bit number.  Not modelled: a field's name that appears   *)
(* twice or inside a string, a bracket inside an array's strings, and      *)
(* commas missing or left over in an array (the parser allows both).       *)
(***************************************************************************)
EXTENDS Texts

CONSTANTS ByteMax, WordMax, LongMax,
          Doubles,   \* the numbers a double holds as they are written
          Floats     \* and a float

ASSUME WidthAssumption ==
  /\ ByteMax \in Nat /\ WordMax \in Nat /\ LongMax \in Nat
  /\ 0 < ByteMax /\ ByteMax < WordMax /\ WordMax < LongMax

ASSUME FloatAssumption == Floats \subseteq Doubles

Absent                      == [kind |-> "absent"]
Number(minus, whole, rest)  == [kind |-> "number", minus |-> minus, whole |-> whole, rest |-> rest]
Hex(whole)                  == [kind |-> "hex", minus |-> FALSE, whole |-> whole, rest |-> ""]
Truth(truth)                == [kind |-> "truth", truth |-> truth]
String(text)                == [kind |-> "string", text |-> text]
Array(items)                == [kind |-> "array", items |-> items]

Numeric(v) == v.kind \in {"number", "hex"}

\* Mutant: a sign is accepted, and stoull wraps the number around.
U64FieldSigned(v) ==
  IF Numeric(v) /\ v.whole <= LongMax
  THEN {IF v.minus THEN (LongMax + 1 - v.whole) % (LongMax + 1) ELSE v.whole} ELSE {}

\* parse_u64_field: the digits only, whatever follows them.
U64Field(v) == IF Numeric(v) /\ ~v.minus /\ v.whole <= LongMax THEN {v.whole} ELSE {}

\* parse_i64_field: a sign and decimal digits, so that 0x10 is its leading 0.
I64Field(v) ==
  LET n == IF v.kind = "hex" THEN 0 ELSE IF v.minus THEN 0 - v.whole ELSE v.whole
      half == (LongMax + 1) \div 2
  IN  IF Numeric(v) /\ n \in (0 - half)..(half - 1) THEN {n} ELSE {}

Rounded(v) == [v EXCEPT !.kind = "rounded"]

\* parse_f64_field: the double next to the number; of 0x10 its leading 0.
F64Field(v) ==
  CASE v.kind = "hex" -> {Number(FALSE, 0, "")}
    [] v.kind = "number" /\ v.rest # "e999" -> {IF v \in Doubles THEN v ELSE Rounded(v)}
    [] OTHER -> {}

\* static_cast<float>: a double that is beyond the floats becomes infinite.
Float(d) ==
  IF d \in Floats THEN d
  ELSE IF d.rest = "e39" THEN [kind |-> "infinite", minus |-> d.minus] ELSE Rounded(d)

FirstDigit[n \in 0..(LongMax + 1)] == IF n < 10 THEN n ELSE FirstDigit[n \div 10]

\* parse_bool_field: true, false, or a number whose first digit is 1 or 0.
BoolField(v) ==
  CASE v.kind = "truth" -> {v.truth}
    [] v.kind = "hex" -> {FALSE}
    [] v.kind = "number" /\ ~v.minus /\ FirstDigit[v.whole] < 2 -> {FirstDigit[v.whole] = 1}
    [] OTHER -> {}

\* parse_string_field: up to the next quote, escaped or not; no escape is undone.
StringField(v) == IF v.kind = "string" THEN {Before(Quote, v.text)} ELSE {}

\* parse_string_array_field: strings only; behind an escaped quote the rest is no string.
StringArrayField(v) ==
  IF /\ v.kind = "array"
     /\ \A i \in DOMAIN v.items : v.items[i].kind = "string" /\ ~Holds(v.items[i].text, {Quote})
  THEN {[i \in DOMAIN v.items |-> v.items[i].text]} ELSE {}

\* parse_u64_array_field: in an array, unlike in a field, nothing may follow the digits.
U64ArrayField(v) ==
  IF /\ v.kind = "array"
     /\ \A i \in DOMAIN v.items : U64Field(v.items[i]) # {} /\ v.items[i].rest = ""
  THEN {[i \in DOMAIN v.items |-> v.items[i].whole]} ELSE {}

GlobalCommands == <<"none", "stop", "pause", "resume">>

Lower(text) == IF text = <<"PAUSE">> THEN <<"pause">> ELSE text

\* parse_global_command: a number of the enumeration, or a name in any case.
GlobalCommand(v) ==
  IF U64Field(v) # {} THEN U64Field(v) \cap 0..3
  ELSE {n \in 0..3 : \E text \in StringField(v) : Lower(text) = <<GlobalCommands[n + 1]>>}

\* The value types in the order of their numbers; every other number is invalid.
ValueTypes == <<"f32", "f64", "i64", "u64", "string">>

\* parse_value_type: a name, or a number that names a type.
ValueType(v) ==
  IF StringField(v) # {}
  THEN {ValueTypes[n] : n \in {m \in 1..5 : <<ValueTypes[m]>> \in StringField(v)}}
  ELSE {ValueTypes[n + 1] : n \in U64Field(v) \cap 0..4}
=============================================================================
