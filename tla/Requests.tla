------------------------------- MODULE Requests -------------------------------
(***************************************************************************)
(* A command request from its body to its reply: the POST routes of        *)
(* src/src/api.cpp parse and check the fields, the push_* functions of     *)
(* src/src/api/commands.cpp check the message again and push it to the     *)
(* bounded command queue, and three kinds of request wait for the engine's *)
(* result, which src/src/api/serialization.cpp prints into the reply.      *)
(*                                                                         *)
(* One request is handled at a time, and a result is the one the request   *)
(* waits for: Bridge has the interleavings, the mirror and the correlation *)
(* of results, this module has the data.                                   *)
(***************************************************************************)
EXTENDS RequestFields, FiniteSets

CONSTANTS PriorityMax,   \* 99
          NameMax,       \* bytes of a name or a path in a message, the NUL included
          StringMax,     \* bytes of a string parameter, the NUL included
          PortCap, ParamCap, StateCap,  \* ports, parameters and states in a result message
          QueueCap,      \* messages in the command queue
          Values,        \* what a client writes into a field
          Usual,         \* a value every route accepts, for the other fields
          Names          \* the texts that clients and modules use as names

ASSUME RequestAssumption ==
  /\ PriorityMax \in Nat /\ PriorityMax <= WordMax
  /\ {NameMax, StringMax, PortCap, ParamCap, StateCap, QueueCap} \subseteq Nat \ {0}

\* Strings and names are texts.
ASSUME TextAssumption ==
  /\ \A v \in Values : v.kind = "string" => v.text \in Seq(STRING)
  /\ Names \subseteq Seq(STRING)

VARIABLES queue,      \* the command queue
          exchange    \* the last request, the message pushed for it, the reply

requestVars == <<queue, exchange>>

NoRequest  == [route |-> "none"]
NotPrinted == [name |-> <<>>, ports |-> <<>>, params |-> <<>>, states |-> <<>>]
Replies    == {"none", "invalid", "queue full", "accepted", "waiting", "result"}
-----------------------------------------------------------------------------
(* The checks of the routes                                                *)

Field(least, most, width) == [least |-> least, most |-> most, width |-> width]

\* static_cast<std::uint32_t>, static_cast<std::uint8_t>, and no cast.
Word(least, most) == Field(least, most, WordMax + 1)
Byte(least, most) == Field(least, most, ByteMax + 1)
Long(least)       == Field(least, LongMax, LongMax + 1)

\* Mutants: a limit is off by one.
RemoveNodeFieldsWide == <<Word(0, WordMax)>>
PriorityFieldsWide   == <<Word(0, PriorityMax + 1)>>

PluginFields           == <<Word(0, WordMax), Byte(0, ByteMax)>>
RemoveNodeFields       == <<Word(0, WordMax - 1)>>
ConnectionFields       == [i \in 1..5 |-> Word(0, WordMax - 1)]
RemoveConnectionFields == <<Word(0, WordMax - 1)>>
PortValuesFields       == <<Word(0, WordMax), Long(0)>>
VariablesFields        == <<Word(0, WordMax), Long(0)>>
ParamFields            == <<Word(0, WordMax), Word(0, WordMax)>>
PeriodFields           == <<Long(1)>>
PriorityFields         == <<Word(0, PriorityMax)>>
ToleranceFields        == <<Long(0)>>

Passed(field, v) == U64Field(v) \cap field.least..field.most

\* The numbers a route hands on when every field passes: each one cast.
Numbers(fields, body) ==
  IF \A i \in DOMAIN fields : Passed(fields[i], body[i]) # {}
  THEN {[i \in DOMAIN fields |->
           (CHOOSE n \in Passed(fields[i], body[i]) : TRUE) % fields[i].width]}
  ELSE {}

NumberMessages(kind, fields, body) ==
  {[kind |-> kind, numbers |-> numbers] : numbers \in Numbers(fields, body)}

FlagMessages(kind, fields, body, flag) ==
  {[kind |-> kind, numbers |-> numbers, flag |-> b] :
     numbers \in Numbers(fields, body), b \in BoolField(flag)}

\* The check of handle_node_load_request and handle_node_add_request.
NameMessages(kind, v) ==
  {[kind |-> kind, name |-> name] :
     name \in {text \in StringField(v) : 0 < Len(text) /\ Len(text) < NameMax}}

\* parse_param_value: a real number is read as a double, whatever its type, and
\* snprintf cuts a string to the array it goes to.
ParamValue(type, v) ==
  CASE type = "f32" -> {Float(d) : d \in F64Field(v)}
    [] type = "f64" -> F64Field(v)
    [] type = "i64" -> I64Field(v)
    [] type = "u64" -> U64Field(v)
    [] type = "string" ->
         {SubSeq(text, 1, IF Len(text) < StringMax THEN Len(text) ELSE StringMax - 1) :
            text \in StringField(v)}

ParamMessages(body, type, value) ==
  UNION {{[kind |-> "param", numbers |-> numbers, type |-> t, value |-> p] :
            p \in ParamValue(t, value)} :
           numbers \in Numbers(ParamFields, body), t \in ValueType(type)}
-----------------------------------------------------------------------------
(* The producer and the queue                                              *)

Fits(name) == name # <<>> /\ Len(name) < NameMax

\* What push_load_node, push_add_node, push_runtime_period and
\* push_runtime_priority refuse before they try the queue.
PushRefuses(m) ==
  \/ m.kind \in {"load", "add"} /\ ~Fits(m.name)
  \/ m.kind = "period" /\ m.numbers[1] = 0
  \/ m.kind = "priority" /\ m.numbers[1] > PriorityMax

\* The kinds of request whose handler waits for the engine's result.
Awaited == {"load", "add", "remove"}

Exchange(request, sent, reply) ==
  [request |-> request, sent |-> sent, reply |-> reply, answered |-> NotPrinted,
   printed |-> NotPrinted]

NoExchange == Exchange(NoRequest, {}, "none")

Ready == exchange = NoExchange

\* 400: a field is missing or out of its range.
Refuse(request, messages) ==
  /\ messages = {}
  /\ exchange' = Exchange(request, {}, "invalid")
  /\ UNCHANGED queue

\* 503: the push returned false, and the route says that the queue is full.
Bounce(request, m) ==
  /\ PushRefuses(m) \/ Len(queue) >= QueueCap
  /\ exchange' = Exchange(request, {}, "queue full")
  /\ UNCHANGED queue

\* Mutant: a full queue takes another message.
PushAnyway(request, m) ==
  /\ ~PushRefuses(m)
  /\ queue' = Append(queue, m)
  /\ exchange' = Exchange(request, {m}, "accepted")

Push(request, m) ==
  /\ ~PushRefuses(m) /\ Len(queue) < QueueCap
  /\ queue' = Append(queue, m)
  /\ exchange' = Exchange(request, {m}, IF m.kind \in Awaited THEN "waiting" ELSE "accepted")

Handle(request, messages) ==
  \/ Refuse(request, messages)
  \/ \E m \in messages : Bounce(request, m) \/ Push(request, m)

\* rtsyn_spsc_command_try_pop in the engine.
EnginePops ==
  /\ queue # <<>>
  /\ queue' = Tail(queue)
  /\ UNCHANGED exchange

Listed(count, cap) == 1..(IF count < cap THEN count ELSE cap)

\* A list of the result, its entries' texts escaped: as many entries as there
\* are or the message has room for.
PrintedList(list, cap) ==
  [i \in Listed(Len(list), cap) |-> [k \in DOMAIN list[i] |-> JsonEscape(list[i][k])]]

\* result_message_to_json of a node.
Printed(node) ==
  [name   |-> JsonEscape(node.name),
   ports  |-> PrintedList(node.ports, PortCap),
   params |-> PrintedList(node.params, ParamCap),
   states |-> PrintedList(node.states, StateCap)]

Repeated(entry, count) == [i \in 1..count |-> entry]

\* A node of a result: the name of its ports, the name and the description of its
\* parameters and of its states, and how many it has of each.
Node(name, text, ports, params, states) ==
  [name |-> name, ports |-> Repeated(<<name>>, ports),
   params |-> Repeated(<<name, text>>, params), states |-> Repeated(<<text, name>>, states)]

\* The result of the request that waits; the texts are those of the module's
\* descriptor.  Whether the engine succeeded only decides 202 or 503.
TakeResult ==
  /\ exchange.reply = "waiting" /\ queue = <<>>
  /\ \E name, text \in Names, ports \in 0..(PortCap + 1), params \in 0..(ParamCap + 1),
        states \in 0..(StateCap + 1) :
       LET node == Node(name, text, ports, params, states) IN
       exchange' = [exchange EXCEPT !.reply = "result", !.printed = Printed(node),
                                    !.answered = node]
  /\ UNCHANGED queue

\* No result came in time: 202, pending.
GiveUp ==
  /\ exchange.reply = "waiting"
  /\ exchange' = [exchange EXCEPT !.reply = "accepted"]
  /\ UNCHANGED queue
\* The server has sent the reply and takes the next request.
Deliver ==
  /\ exchange.reply \notin {"none", "waiting"}
  /\ exchange' = NoExchange
  /\ UNCHANGED queue
-----------------------------------------------------------------------------
(* The routes                                                              *)

\* Bodies of n fields, all usual but at most one.
Bodies(n) == {[i \in 1..n |-> IF i = j THEN v ELSE Usual] : j \in 1..n, v \in Values}

\* A route with number fields only.
PostNumbers(kind, fields) ==
  \E body \in Bodies(Len(fields)) :
    Handle([route |-> kind, body |-> body], NumberMessages(kind, fields, body))

PostPlugin           == PostNumbers("plugin", PluginFields)
PostRemoveNode       == PostNumbers("remove", RemoveNodeFields)
PostAddConnection    == PostNumbers("connection", ConnectionFields)
PostRemoveConnection == PostNumbers("disconnection", RemoveConnectionFields)
PostPeriod           == PostNumbers("period", PeriodFields)
PostPriority         == PostNumbers("priority", PriorityFields)
PostTolerance        == PostNumbers("tolerance", ToleranceFields)

UsualIds == <<Usual, Usual>>

PostFlag(kind, fields) ==
  \E body \in Bodies(2), flag \in Values :
    /\ body = UsualIds \/ flag = Usual
    /\ Handle([route |-> kind, body |-> body, flag |-> flag],
              FlagMessages(kind, fields, body, flag))

PostPortValues == PostFlag("ports", PortValuesFields)
PostVariables  == PostFlag("variables", VariablesFields)

PostGlobal ==
  \E v \in Values :
    Handle([route |-> "global", body |-> <<v>>],
           {[kind |-> "global", numbers |-> <<n>>] : n \in GlobalCommand(v)})

PostName(kind) ==
  \E v \in {String(JsonEscape(name)) : name \in Names} \cup {Absent, Usual} :
    Handle([route |-> kind, name |-> v], NameMessages(kind, v))

PostLoad == PostName("load")
PostAdd  == PostName("add")

PostParam ==
  \E body \in Bodies(2), type \in Values, value \in Values :
    /\ body = UsualIds \/ (type = Usual /\ value = Usual)
    /\ Handle([route |-> "param", body |-> body, type |-> type, value |-> value],
              ParamMessages(body, type, value))

PostCommand ==
  /\ Ready
  /\ \/ PostPlugin \/ PostRemoveNode \/ PostAddConnection \/ PostRemoveConnection
     \/ PostPeriod \/ PostPriority \/ PostTolerance \/ PostPortValues \/ PostVariables
     \/ PostGlobal \/ PostLoad \/ PostAdd \/ PostParam

RequestInit ==
  /\ queue = <<>>
  /\ exchange = NoExchange

RequestNext == PostCommand \/ EnginePops \/ TakeResult \/ GiveUp \/ Deliver

RequestSpec == RequestInit /\ [][RequestNext]_requestVars
-----------------------------------------------------------------------------
(* Properties                                                              *)

\* A request was accepted exactly when one message was pushed for it.
RequestTypeOK ==
  /\ Len(queue) <= QueueCap
  /\ exchange.reply \in Replies
  /\ Cardinality(exchange.sent) = IF exchange.reply \in {"accepted", "waiting", "result"}
                                  THEN 1 ELSE 0

Whole(v) == v.kind = "number" /\ v.rest = ""
Asked(v) == IF v.minus THEN 0 - v.whole ELSE v.whole

NumbersAsAsked(body, m) ==
  \A i \in DOMAIN m.numbers :
    Whole(body[i]) \/ body[i].kind = "hex" => m.numbers[i] = Asked(body[i])

FlagAsAsked(flag, m) ==
  /\ flag.kind = "truth" => m.flag = flag.truth
  /\ Whole(flag) /\ flag.whole \in {0, 1} => m.flag = (flag.whole = 1)

\* Only a text that is written without escapes means what it says: the parser
\* of strings undoes none, and stops at an escaped quote.
PlainText(text) == ~Holds(text, DOMAIN Escapes \cup {Control})

NameAsAsked(v, m) == PlainText(v.text) => m.name = v.text

\* A real number that its type holds is not rounded.  A string that does not fit
\* is cut, and what arrives is its beginning.
ParamAsAsked(v, m) ==
  CASE m.type = "f32" -> v.kind = "number" /\ v \in Floats => m.value = v
    [] m.type = "f64" -> v.kind = "number" /\ v \in Doubles => m.value = v
    [] m.type = "i64" -> Whole(v) => m.value = Asked(v)
    [] m.type = "u64" -> Whole(v) \/ v.kind = "hex" => m.value = Asked(v)
    [] m.type = "string" ->
         PlainText(v.text) =>
           IsPrefix(m.value, v.text) /\ (Len(v.text) < StringMax => m.value = v.text)

\* The message pushed for an accepted request carries what the client asked for:
\* no number is wrapped by a cast, no name is cut, no flag or parameter is
\* misread.  It says nothing of a number with a fraction or an exponent where
\* the route wants an integer: http.cpp:42 reads its first digits; and nothing of
\* a real number that its type does not hold: it arrives rounded, or, beyond the
\* floats, as infinity.
SentAsAsked ==
  \A m \in exchange.sent :
    LET request == exchange.request IN
    /\ "numbers" \in DOMAIN m => NumbersAsAsked(request.body, m)
    /\ "flag" \in DOMAIN m => FlagAsAsked(request.flag, m)
    /\ "name" \in DOMAIN m => NameAsAsked(request.name, m)
    /\ m.kind = "param" => ParamAsAsked(request.value, m)

\* UINT32_MAX means "no node" and "no connection" in results and in the mirror:
\* no command to connect, disconnect or remove has it as an identifier.
Unreserved(m) ==
  m.kind \in {"remove", "connection", "disconnection"} =>
    \A k \in DOMAIN m.numbers : m.numbers[k] < WordMax

NoReservedIds == \A i \in 1..Len(queue) : Unreserved(queue[i])

\* "command queue full" is what it says: whatever a route lets through, the push
\* function of commands.cpp does not refuse, so a 503 always means a full queue.
FullMeansFull ==
  [][exchange'.reply = "queue full" /\ exchange' # exchange => Len(queue) = QueueCap]_requestVars

\* A text with a control character that has no escape of its own makes a reply
\* that is not JSON.
TextReads(printed, text) == ~Holds(text, {Control}) => JsonRead(printed) = text

ListReads(printed, list, cap) ==
  /\ Len(printed) <= cap
  /\ \A i \in 1..cap :
       /\ i \in DOMAIN printed <=> i \in DOMAIN list
       /\ i \in DOMAIN printed =>
            \A k \in DOMAIN list[i] : TextReads(printed[i][k], list[i][k])

\* A JSON reader of the reply gets the node that the engine's result has: its
\* name and its ports, parameters and states with their names and descriptions,
\* as many of each as a message can hold.
ResultReadsBack ==
  exchange.reply = "result" =>
    /\ TextReads(exchange.printed.name, exchange.answered.name)
    /\ ListReads(exchange.printed.ports, exchange.answered.ports, PortCap)
    /\ ListReads(exchange.printed.params, exchange.answered.params, ParamCap)
    /\ ListReads(exchange.printed.states, exchange.answered.states, StateCap)
=============================================================================
