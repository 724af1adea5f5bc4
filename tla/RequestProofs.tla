---------------------------- MODULE RequestProofs ----------------------------
(***************************************************************************)
(* What the routes and the producer agree on, for every width, limit and   *)
(* set of values: no message in the queue has a reserved identifier,       *)
(* "command queue full" is answered only when the queue is full, and a     *)
(* message carries what the client asked for.                              *)
(*                                                                         *)
(* The argument: every route hands on messages that the producer would not *)
(* refuse and that carry no reserved identifier (RouteMessages), and the   *)
(* rest of the handler treats every message alike (HandleStep).  A message *)
(* says what was asked because the range that a field is checked against   *)
(* fits the type that it is cast to (FieldsSized), so that no cast wraps,  *)
(* and because the parser of strings ends at the first quote               *)
(* (PlainIsWhole).  A reply reads back because each character of a text is printed as a     *)
(* piece that a reader of JSON takes as that character and then stands     *)
(* where it stood (JsonReadsBack, by induction over the text).             *)
(***************************************************************************)
EXTENDS Requests, SequenceTheorems, FiniteSetTheorems, WellFoundedInduction, TLAPS

Sent == {"accepted", "waiting", "result"}

\* The queue is a sequence of messages without reserved identifiers.
QueueInv == \E S : queue \in Seq(S) /\ \A m \in S : Unreserved(m)

ExchangeInv ==
  /\ DOMAIN exchange = {"request", "sent", "reply", "answered", "printed"}
  /\ exchange.reply \in Replies
  /\ exchange.reply \in Sent => Cardinality(exchange.sent) = 1
  /\ exchange.reply \notin Sent => Cardinality(exchange.sent) = 0

IInv == QueueInv /\ Len(queue) <= QueueCap /\ ExchangeInv

\* What a route promises of the messages it hands on.
Sound(messages) == \A m \in messages : Unreserved(m) /\ ~PushRefuses(m)

FullStep == exchange'.reply = "queue full" /\ exchange' # exchange => Len(queue) = QueueCap
-----------------------------------------------------------------------------
(* Casts                                                                   *)

\* A number below the modulus is its own remainder: a cast to a width that
\* holds the number changes nothing.
LEMMA CastKeeps ==
  ASSUME NEW n \in Nat, NEW w \in Nat, n < w
  PROVE  n % w = n
  BY SMT

\* What passes a field's check is in the field's range.
LEMMA PassedInRange ==
  ASSUME NEW field, NEW v, Passed(field, v) # {},
         field.least \in Nat, field.most \in Nat, field.width \in Nat, field.most < field.width
  PROVE  (CHOOSE n \in Passed(field, v) : TRUE) % field.width \in field.least..field.most
<1> DEFINE n == CHOOSE x \in Passed(field, v) : TRUE
<1>1. n \in Passed(field, v)
  OBVIOUS
<1>2. n \in field.least..field.most
  BY <1>1 DEF Passed
<1>3. n \in Nat /\ n < field.width
  BY <1>2
<1>4. n % field.width = n
  BY <1>3, CastKeeps
<1> QED
  BY <1>2, <1>4

\* Each number of a message is in the range its route checks.
LEMMA NumbersInRange ==
  ASSUME NEW fields, NEW body, NEW numbers \in Numbers(fields, body),
         NEW i \in DOMAIN fields,
         fields[i].least \in Nat, fields[i].most \in Nat, fields[i].width \in Nat,
         fields[i].most < fields[i].width
  PROVE  numbers[i] \in fields[i].least..fields[i].most
<1>1. \A k \in DOMAIN fields : Passed(fields[k], body[k]) # {}
  BY DEF Numbers
<1>2. numbers[i] = (CHOOSE n \in Passed(fields[i], body[i]) : TRUE) % fields[i].width
  BY <1>1 DEF Numbers
<1> QED
  BY <1>1, <1>2, PassedInRange

LEMMA NumbersDomain ==
  ASSUME NEW fields, NEW body, NEW numbers \in Numbers(fields, body)
  PROVE  DOMAIN numbers = DOMAIN fields
<1>1. \A k \in DOMAIN fields : Passed(fields[k], body[k]) # {}
  BY DEF Numbers
<1> QED
  BY <1>1 DEF Numbers
-----------------------------------------------------------------------------
(* The routes                                                              *)

Harmless == {"plugin", "tolerance", "ports", "variables", "global", "param"}

\* The kinds that neither carry a reserved identifier nor meet a check of the producer.
LEMMA HarmlessSound ==
  ASSUME NEW messages, \A m \in messages : m.kind \in Harmless
  PROVE  Sound(messages)
  BY DEF Sound, Harmless, Unreserved, PushRefuses

\* Routes for nodes and connections: every field is below the reserved identifier.
LEMMA IdentifiersSound ==
  ASSUME NEW kind \in {"remove", "connection", "disconnection"}, NEW fields, NEW body,
         \A i \in DOMAIN fields : fields[i] = Word(0, WordMax - 1)
  PROVE  Sound(NumberMessages(kind, fields, body))
<1> SUFFICES ASSUME NEW m \in NumberMessages(kind, fields, body)
             PROVE  Unreserved(m) /\ ~PushRefuses(m)
  BY DEF Sound
<1>1. PICK numbers \in Numbers(fields, body) : m = [kind |-> kind, numbers |-> numbers]
  BY DEF NumberMessages
<1>2. \A k \in DOMAIN numbers : numbers[k] < WordMax
  <2> SUFFICES ASSUME NEW k \in DOMAIN numbers PROVE numbers[k] < WordMax
    OBVIOUS
  <2>1. k \in DOMAIN fields
    BY NumbersDomain
  <2>2. /\ fields[k].least = 0 /\ fields[k].most = WordMax - 1
        /\ fields[k].width = WordMax + 1
    BY <2>1 DEF Word, Field
  <2>3. numbers[k] \in 0..(WordMax - 1)
    BY <2>1, <2>2, NumbersInRange, WidthAssumption
  <2> QED
    BY <2>3, WidthAssumption
<1>3. m.kind = kind /\ m.numbers = numbers
  BY <1>1
<1> QED
  BY <1>2, <1>3 DEF Unreserved, PushRefuses

LEMMA PeriodSound ==
  ASSUME NEW body
  PROVE  Sound(NumberMessages("period", PeriodFields, body))
<1> SUFFICES ASSUME NEW m \in NumberMessages("period", PeriodFields, body)
             PROVE  Unreserved(m) /\ ~PushRefuses(m)
  BY DEF Sound
<1>1. PICK numbers \in Numbers(PeriodFields, body) : m = [kind |-> "period", numbers |-> numbers]
  BY DEF NumberMessages
<1>2. 1 \in DOMAIN PeriodFields /\ PeriodFields[1] = Field(1, LongMax, LongMax + 1)
  BY DEF PeriodFields, Long
<1>3. numbers[1] \in 1..LongMax
  BY <1>2, NumbersInRange, WidthAssumption DEF Field
<1>4. m.kind = "period" /\ m.numbers[1] # 0
  BY <1>1, <1>3
<1> QED
  BY <1>4 DEF Unreserved, PushRefuses

LEMMA PrioritySound ==
  ASSUME NEW body
  PROVE  Sound(NumberMessages("priority", PriorityFields, body))
<1> SUFFICES ASSUME NEW m \in NumberMessages("priority", PriorityFields, body)
             PROVE  Unreserved(m) /\ ~PushRefuses(m)
  BY DEF Sound
<1>1. PICK numbers \in Numbers(PriorityFields, body) :
        m = [kind |-> "priority", numbers |-> numbers]
  BY DEF NumberMessages
<1>2. 1 \in DOMAIN PriorityFields /\ PriorityFields[1] = Field(0, PriorityMax, WordMax + 1)
  BY DEF PriorityFields, Word
<1>3. numbers[1] \in 0..PriorityMax
  BY <1>2, NumbersInRange, WidthAssumption, RequestAssumption DEF Field
<1>4. m.kind = "priority" /\ ~(m.numbers[1] > PriorityMax)
  BY <1>1, <1>3, RequestAssumption
<1> QED
  BY <1>4 DEF Unreserved, PushRefuses

LEMMA NameSound ==
  ASSUME NEW kind \in {"load", "add"}, NEW v
  PROVE  Sound(NameMessages(kind, v))
<1> SUFFICES ASSUME NEW m \in NameMessages(kind, v)
             PROVE  Unreserved(m) /\ ~PushRefuses(m)
  BY DEF Sound
<1>1. PICK name : m = [kind |-> kind, name |-> name] /\ 0 < Len(name) /\ Len(name) < NameMax
  BY DEF NameMessages
<1>2. name # <<>>
  BY <1>1
<1>3. m.kind = kind /\ m.name = name
  BY <1>1
<1> QED
  BY <1>1, <1>2, <1>3 DEF Unreserved, PushRefuses, Fits

\* Whatever the request, its route hands sound messages to the rest of the handler.
LEMMA RouteMessages ==
  ASSUME PostCommand
  PROVE  \E request, messages : Sound(messages) /\ Handle(request, messages)
<1>1. CASE PostPlugin
  BY <1>1, HarmlessSound DEF PostPlugin, PostNumbers, NumberMessages, Harmless
<1>2. CASE PostTolerance
  BY <1>2, HarmlessSound DEF PostTolerance, PostNumbers, NumberMessages, Harmless
<1>3. CASE PostPortValues
  BY <1>3, HarmlessSound DEF PostPortValues, PostFlag, FlagMessages, Harmless
<1>4. CASE PostVariables
  BY <1>4, HarmlessSound DEF PostVariables, PostFlag, FlagMessages, Harmless
<1>5. CASE PostGlobal
  BY <1>5, HarmlessSound DEF PostGlobal, Harmless
<1>6. CASE PostParam
  <2>1. PICK body, type, value :
          Handle([route |-> "param", body |-> body, type |-> type, value |-> value],
                 ParamMessages(body, type, value))
    BY <1>6 DEF PostParam
  <2>2. \A m \in ParamMessages(body, type, value) : m.kind = "param"
    BY DEF ParamMessages
  <2>3. Sound(ParamMessages(body, type, value))
    BY <2>2, HarmlessSound DEF Harmless
  <2> QED
    BY <2>1, <2>3
<1>7. CASE PostRemoveNode
  <2>1. \A i \in DOMAIN RemoveNodeFields : RemoveNodeFields[i] = Word(0, WordMax - 1)
    BY DEF RemoveNodeFields
  <2> QED
    BY <1>7, <2>1, IdentifiersSound DEF PostRemoveNode, PostNumbers
<1>8. CASE PostAddConnection
  <2>1. \A i \in DOMAIN ConnectionFields : ConnectionFields[i] = Word(0, WordMax - 1)
    BY DEF ConnectionFields
  <2> QED
    BY <1>8, <2>1, IdentifiersSound DEF PostAddConnection, PostNumbers
<1>9. CASE PostRemoveConnection
  <2>1. \A i \in DOMAIN RemoveConnectionFields :
          RemoveConnectionFields[i] = Word(0, WordMax - 1)
    BY DEF RemoveConnectionFields
  <2> QED
    BY <1>9, <2>1, IdentifiersSound DEF PostRemoveConnection, PostNumbers
<1>10. CASE PostPeriod
  BY <1>10, PeriodSound DEF PostPeriod, PostNumbers
<1>11. CASE PostPriority
  BY <1>11, PrioritySound DEF PostPriority, PostNumbers
<1>12. CASE PostLoad
  BY <1>12, NameSound DEF PostLoad, PostName
<1>13. CASE PostAdd
  BY <1>13, NameSound DEF PostAdd, PostName
<1> QED
  BY <1>1, <1>2, <1>3, <1>4, <1>5, <1>6, <1>7, <1>8, <1>9, <1>10, <1>11, <1>12, <1>13
     DEF PostCommand
-----------------------------------------------------------------------------
(* The handler                                                             *)

LEMMA ExchangeShape ==
  ASSUME NEW request, NEW sent, NEW reply
  PROVE  /\ DOMAIN Exchange(request, sent, reply)
               = {"request", "sent", "reply", "answered", "printed"}
         /\ Exchange(request, sent, reply).reply = reply
         /\ Exchange(request, sent, reply).sent = sent
  BY DEF Exchange

LEMMA Singletons ==
  /\ Cardinality({}) = 0
  /\ \A m : Cardinality({m}) = 1
  BY FS_EmptySet, FS_Singleton

\* An exchange that starts with no message or with the one that was pushed.
LEMMA ExchangeStarts ==
  ASSUME NEW request, NEW sent, NEW reply \in Replies,
         exchange' = Exchange(request, sent, reply),
         \/ sent = {} /\ reply \notin Sent
         \/ (\E m : sent = {m}) /\ reply \in Sent
  PROVE  ExchangeInv'
<1>1. /\ DOMAIN exchange' = {"request", "sent", "reply", "answered", "printed"}
      /\ exchange'.reply = reply /\ exchange'.sent = sent
  BY ExchangeShape
<1>2. reply \in Sent => Cardinality(sent) = 1
  BY Singletons
<1>3. reply \notin Sent => Cardinality(sent) = 0
  BY Singletons
<1> QED
  BY <1>1, <1>2, <1>3 DEF ExchangeInv

LEMMA AppendInv ==
  ASSUME QueueInv, NEW m, Unreserved(m), queue' = Append(queue, m)
  PROVE  QueueInv' /\ Len(queue') = Len(queue) + 1
<1>1. PICK S : queue \in Seq(S) /\ \A x \in S : Unreserved(x)
  BY DEF QueueInv
<1> DEFINE T == S \cup {m}
<1>2. queue \in Seq(T)
  BY <1>1
<1>3. queue' \in Seq(T) /\ Len(queue') = Len(queue) + 1
  BY <1>2
<1>4. \A x \in T : Unreserved(x)
  BY <1>1
<1> QED
  BY <1>3, <1>4 DEF QueueInv, Unreserved

LEMMA TailInv ==
  ASSUME QueueInv, queue # <<>>, queue' = Tail(queue)
  PROVE  QueueInv' /\ Len(queue') = Len(queue) - 1 /\ Len(queue) \in Nat
<1>1. PICK S : queue \in Seq(S) /\ \A x \in S : Unreserved(x)
  BY DEF QueueInv
<1>2. queue' \in Seq(S) /\ Len(queue') = Len(queue) - 1 /\ Len(queue) \in Nat
  BY <1>1
<1> QED
  BY <1>1, <1>2 DEF QueueInv, Unreserved

LEMMA CapNat == QueueCap \in Nat \ {0}
<1>1. QueueCap \in {NameMax, StringMax, PortCap, ParamCap, StateCap, QueueCap}
  OBVIOUS
<1> QED
  BY <1>1, RequestAssumption

\* The handler keeps the invariant, and says "queue full" of a full queue only.
LEMMA HandleStep ==
  ASSUME IInv, NEW request, NEW messages, Sound(messages), Handle(request, messages)
  PROVE  IInv' /\ FullStep
<1> USE DEF Replies, Sent
<1>1. Len(queue) \in Nat
  BY DEF IInv, QueueInv
<1>2. CASE Refuse(request, messages)
  <2>1. ExchangeInv'
    BY <1>2, ExchangeStarts DEF Refuse
  <2>2. exchange'.reply = "invalid"
    BY <1>2, ExchangeShape DEF Refuse
  <2> QED
    BY <1>2, <2>1, <2>2 DEF Refuse, IInv, QueueInv, FullStep, Unreserved
<1>3. ASSUME NEW m \in messages, Bounce(request, m)
      PROVE  IInv' /\ FullStep
  <2>1. ~PushRefuses(m)
    BY DEF Sound
  <2>2. Len(queue) >= QueueCap /\ Len(queue) <= QueueCap
    BY <1>3, <2>1, Zenon DEF Bounce, IInv
  <2>3. Len(queue) = QueueCap
    BY <1>1, <2>2, CapNat
  <2>4. ExchangeInv'
    BY <1>3, ExchangeStarts DEF Bounce
  <2> QED
    BY <1>3, <2>3, <2>4 DEF Bounce, IInv, QueueInv, FullStep, Unreserved
<1>4. ASSUME NEW m \in messages, Push(request, m)
      PROVE  IInv' /\ FullStep
  <2> DEFINE reply == IF m.kind \in Awaited THEN "waiting" ELSE "accepted"
  <2>1. reply \in Replies /\ reply \in Sent
    OBVIOUS
  <2>2. exchange' = Exchange(request, {m}, reply) /\ queue' = Append(queue, m)
        /\ Len(queue) < QueueCap
    BY <1>4 DEF Push
  <2> HIDE DEF reply
  <2>3. ExchangeInv'
    BY <2>1, <2>2, ExchangeStarts
  <2>4. QueueInv' /\ Len(queue') = Len(queue) + 1
    BY <2>2, AppendInv DEF Sound, IInv
  <2>5. exchange'.reply = reply
    BY <2>2, ExchangeShape
  <2>6. reply # "queue full"
    BY <2>1
  <2>7. Len(queue') <= QueueCap
    BY <1>1, <2>2, <2>4, CapNat
  <2> QED
    BY <2>3, <2>4, <2>5, <2>6, <2>7 DEF IInv, FullStep
<1> QED
  BY <1>2, <1>3, <1>4 DEF Handle

LEMMA TakeResultStep ==
  ASSUME IInv, TakeResult
  PROVE  IInv' /\ FullStep
<1>1. PICK printed, answered :
        exchange' = [exchange EXCEPT !.reply = "result", !.printed = printed,
                                     !.answered = answered]
  BY DEF TakeResult
<1>2. /\ DOMAIN exchange' = DOMAIN exchange
      /\ exchange'.reply = "result" /\ exchange'.sent = exchange.sent
  BY <1>1 DEF IInv, ExchangeInv
<1>3. exchange.reply = "waiting" /\ queue' = queue
  BY DEF TakeResult
<1>4. ExchangeInv'
  BY <1>2, <1>3 DEF IInv, ExchangeInv, Replies, Sent
<1> QED
  BY <1>2, <1>3, <1>4 DEF IInv, QueueInv, FullStep, Unreserved

LEMMA GiveUpStep ==
  ASSUME IInv, GiveUp
  PROVE  IInv' /\ FullStep
<1>1. exchange' = [exchange EXCEPT !.reply = "accepted"]
      /\ exchange.reply = "waiting" /\ queue' = queue
  BY DEF GiveUp
<1>2. /\ DOMAIN exchange' = DOMAIN exchange
      /\ exchange'.reply = "accepted" /\ exchange'.sent = exchange.sent
  BY <1>1 DEF IInv, ExchangeInv
<1>3. ExchangeInv'
  BY <1>1, <1>2 DEF IInv, ExchangeInv, Replies, Sent
<1> QED
  BY <1>1, <1>2, <1>3 DEF IInv, QueueInv, FullStep, Unreserved

LEMMA DeliverStep ==
  ASSUME IInv, Deliver
  PROVE  IInv' /\ FullStep
<1>1. exchange' = Exchange(NoRequest, {}, "none") /\ queue' = queue
  BY DEF Deliver, NoExchange
<1>2. ExchangeInv'
  BY <1>1, ExchangeStarts DEF Replies, Sent
<1>3. exchange'.reply = "none"
  BY <1>1, ExchangeShape
<1> QED
  BY <1>1, <1>2, <1>3 DEF IInv, QueueInv, FullStep, Unreserved

LEMMA PopStep ==
  ASSUME IInv, EnginePops
  PROVE  IInv' /\ FullStep
<1>1. queue # <<>> /\ queue' = Tail(queue) /\ exchange' = exchange
  BY DEF EnginePops
<1>2. QueueInv' /\ Len(queue') = Len(queue) - 1 /\ Len(queue) \in Nat
  BY <1>1, TailInv DEF IInv
<1>3. ExchangeInv'
  BY <1>1 DEF IInv, ExchangeInv
<1> QED
  BY <1>1, <1>2, <1>3, CapNat DEF IInv, FullStep

LEMMA Step ==
  ASSUME IInv, RequestNext
  PROVE  IInv' /\ FullStep
<1>1. CASE PostCommand
  BY <1>1, RouteMessages, HandleStep
<1> QED
  BY <1>1, TakeResultStep, GiveUpStep, DeliverStep, PopStep DEF RequestNext

LEMMA InitIInv == RequestInit => IInv
<1> SUFFICES ASSUME RequestInit PROVE IInv
  OBVIOUS
<1>1. QueueInv /\ Len(queue) = 0
  <2>1. queue \in Seq({}) /\ Len(queue) = 0
    BY DEF RequestInit
  <2> QED
    BY <2>1 DEF QueueInv
<1>2. ExchangeInv
  <2>1. exchange = Exchange(NoRequest, {}, "none")
    BY DEF RequestInit, NoExchange
  <2>2. /\ DOMAIN exchange = {"request", "sent", "reply", "answered", "printed"}
        /\ exchange.reply = "none" /\ exchange.sent = {}
    BY <2>1, ExchangeShape
  <2>3. Cardinality(exchange.sent) = 0
    BY <2>2, Singletons
  <2> QED
    BY <2>2, <2>3 DEF ExchangeInv, Replies, Sent
<1> QED
  BY <1>1, <1>2, CapNat DEF IInv
-----------------------------------------------------------------------------
(* Induction                                                               *)

\* A set of numbers has a smallest one.
LEMMA Smallest ==
  ASSUME NEW T \in SUBSET Nat, T # {}
  PROVE  \E x \in T : \A y \in T : x <= y
<1> DEFINE R == OpToRel(<, Nat)
<1>1. IsWellFoundedOn(R, Nat)
    BY NatLessThanWellFounded
<1>2. \A x, y \in Nat : y < x => <<y, x>> \in R
    BY DEF OpToRel
<1> HIDE DEF R
<1>3. PICK x \in T : \A y \in T : ~(<<y, x>> \in R)
    BY <1>1, WFMin
<1>4. \A y \in T : x \in Nat /\ y \in Nat /\ ~(y < x)
    BY <1>2, <1>3
<1>5. \A y \in T : x <= y
    BY <1>4
<1>6. QED
    BY <1>5

\* f is what FirstDigit defines, for the numbers up to k.
Digits(f, k) == f = [n \in 0..k |-> IF n < 10 THEN n ELSE f[n \div 10]]

LEMMA Smaller ==
  ASSUME NEW n \in Nat, n >= 10
  PROVE  n \div 10 \in Nat /\ n \div 10 < n
OBVIOUS

LEMMA DigitsExist == \A k \in Nat : \E f : Digits(f, k)
<1> DEFINE T == {k \in Nat : ~\E f : Digits(f, k)}
<1> SUFFICES ASSUME T # {} PROVE FALSE
    OBVIOUS
<1>1. PICK x \in T : \A y \in T : x <= y
    BY Smallest
<1>2. x # 0
  <2> DEFINE f == [n \in 0..0 |-> n]
  <2>1. f = [n \in 0..0 |-> IF n < 10 THEN n ELSE f[n \div 10]]
      OBVIOUS
  <2>2. QED
      BY <2>1 DEF Digits
<1>3. x - 1 \in Nat /\ x - 1 \notin T
    BY <1>1, <1>2
<1>4. PICK f : Digits(f, x - 1)
    BY <1>3
<1> DEFINE g == [n \in 0..x |-> IF n = x THEN (IF x < 10 THEN x ELSE f[x \div 10]) ELSE f[n]]
<1>5. \A n \in 0..(x - 1) : f[n] = IF n < 10 THEN n ELSE f[n \div 10]
    BY <1>4 DEF Digits
<1>6. \A n \in 0..x : g[n] = IF n < 10 THEN n ELSE g[n \div 10]
  <2> SUFFICES ASSUME NEW n \in 0..x PROVE g[n] = IF n < 10 THEN n ELSE g[n \div 10]
      OBVIOUS
  <2>1. n >= 10 => n \div 10 \in 0..(x - 1) /\ n \div 10 # x
      BY <1>3, Smaller
  <2>2. n >= 10 => g[n \div 10] = f[n \div 10]
      BY <1>3, <2>1
  <2>3. n # x => n \in 0..(x - 1) /\ g[n] = f[n]
      BY <1>3
  <2>4. n = x => g[n] = IF x < 10 THEN x ELSE f[x \div 10]
      OBVIOUS
  <2> HIDE DEF g
  <2>5. QED
      BY <1>5, <2>2, <2>3, <2>4, <1>3
<1>7. Digits(g, x)
  <2>1. g = [n \in 0..x |-> g[n]]
      OBVIOUS
  <2> HIDE DEF g
  <2>2. QED
      BY <1>6, <2>1 DEF Digits
<1> HIDE DEF g
<1>8. QED
    BY <1>7

\* The leading digit of a digit.
LEMMA FirstDigits == \A n \in 0..(LongMax + 1) : n < 10 => FirstDigit[n] = n
<1>1. \E f : f = [n \in 0..(LongMax + 1) |-> IF n < 10 THEN n ELSE f[n \div 10]]
  <2>1. LongMax + 1 \in Nat
      BY WidthAssumption
  <2>2. PICK f : Digits(f, LongMax + 1)
      BY <2>1, DigitsExist
  <2>3. f = [n \in 0..(LongMax + 1) |-> IF n < 10 THEN n ELSE f[n \div 10]]
      BY <2>2 DEF Digits
  <2>4. QED
      BY <2>3
<1>2. FirstDigit = [n \in 0..(LongMax + 1) |-> IF n < 10 THEN n ELSE FirstDigit[n \div 10]]
    BY <1>1, Zenon DEF FirstDigit
<1>3. QED
    BY <1>2
-----------------------------------------------------------------------------
(* What the client asked for                                               *)

\* What SentAsAsked says of one message.
AsAsked(request, m) ==
  /\ "numbers" \in DOMAIN m => NumbersAsAsked(request.body, m)
  /\ "flag" \in DOMAIN m => FlagAsAsked(request.flag, m)
  /\ "name" \in DOMAIN m => NameAsAsked(request.name, m)
  /\ m.kind = "param" => ParamAsAsked(request.value, m)

\* The type that a field is cast to holds what passes its check.
Sized(field) ==
  /\ field.least \in Nat /\ field.most \in Nat /\ field.width \in Nat
  /\ field.most < field.width

LEMMA NumberExact ==
  ASSUME NEW field, NEW v, Passed(field, v) # {}, Sized(field)
  PROVE  (CHOOSE n \in Passed(field, v) : TRUE) % field.width = Asked(v)
<1> DEFINE n == CHOOSE x \in Passed(field, v) : TRUE
<1>1. n \in Passed(field, v)
  OBVIOUS
<1>2. n \in field.least..field.most /\ n \in U64Field(v)
  BY <1>1 DEF Passed
<1>3. n = Asked(v)
  BY <1>2 DEF U64Field, Asked
<1>4. n \in Nat /\ n < field.width /\ field.width \in Nat
  BY <1>2 DEF Sized
<1>5. n % field.width = n
  BY <1>4, CastKeeps
<1> QED
  BY <1>3, <1>5

LEMMA NumbersExact ==
  ASSUME NEW fields, NEW body, NEW numbers \in Numbers(fields, body),
         \A i \in DOMAIN fields : Sized(fields[i])
  PROVE  \A i \in DOMAIN numbers : numbers[i] = Asked(body[i])
<1> SUFFICES ASSUME NEW i \in DOMAIN fields PROVE numbers[i] = Asked(body[i])
  BY NumbersDomain
<1>1. \A k \in DOMAIN fields : Passed(fields[k], body[k]) # {}
  BY DEF Numbers
<1>2. numbers[i] = (CHOOSE n \in Passed(fields[i], body[i]) : TRUE) % fields[i].width
  BY <1>1 DEF Numbers
<1> QED
  BY <1>1, <1>2, NumberExact

LEMMA WordSized == \A most \in 0..WordMax : Sized(Word(0, most))
<1> SUFFICES ASSUME NEW most \in 0..WordMax PROVE Sized(Word(0, most))
  OBVIOUS
<1>1. Word(0, most).least = 0 /\ Word(0, most).most = most /\ Word(0, most).width = WordMax + 1
  BY DEF Word, Field
<1> QED
  BY <1>1, WidthAssumption DEF Sized

LEMMA LongSized == \A least \in {0, 1} : Sized(Long(least))
<1> SUFFICES ASSUME NEW least \in {0, 1} PROVE Sized(Long(least))
  OBVIOUS
<1>1. Long(least).least = least /\ Long(least).most = LongMax /\ Long(least).width = LongMax + 1
  BY DEF Long, Field
<1> QED
  BY <1>1, WidthAssumption DEF Sized

LEMMA ByteSized == Sized(Byte(0, ByteMax))
<1>1. Byte(0, ByteMax).least = 0 /\ Byte(0, ByteMax).most = ByteMax
      /\ Byte(0, ByteMax).width = ByteMax + 1
  BY DEF Byte, Field
<1> QED
  BY <1>1, WidthAssumption DEF Sized

\* No check lets through what its cast would change.
LEMMA FieldsSized ==
  \A fields \in {PluginFields, RemoveNodeFields, ConnectionFields, RemoveConnectionFields,
                 PortValuesFields, VariablesFields, ParamFields, PeriodFields, PriorityFields,
                 ToleranceFields} :
    \A i \in DOMAIN fields : Sized(fields[i])
<1>1. 0 \in 0..WordMax /\ WordMax \in 0..WordMax /\ WordMax - 1 \in 0..WordMax
      /\ PriorityMax \in 0..WordMax
  BY WidthAssumption, RequestAssumption
<1>2. /\ Sized(Word(0, WordMax)) /\ Sized(Word(0, WordMax - 1)) /\ Sized(Word(0, PriorityMax))
      /\ Sized(Long(0)) /\ Sized(Long(1)) /\ Sized(Byte(0, ByteMax))
  BY <1>1, WordSized, LongSized, ByteSized
<1>3. \A i \in DOMAIN PluginFields : Sized(PluginFields[i])
  BY <1>2 DEF PluginFields
<1>4. /\ \A i \in DOMAIN RemoveNodeFields : Sized(RemoveNodeFields[i])
      /\ \A i \in DOMAIN RemoveConnectionFields : Sized(RemoveConnectionFields[i])
      /\ \A i \in DOMAIN ConnectionFields : Sized(ConnectionFields[i])
  BY <1>2 DEF RemoveNodeFields, RemoveConnectionFields, ConnectionFields
<1>5. /\ \A i \in DOMAIN PortValuesFields : Sized(PortValuesFields[i])
      /\ \A i \in DOMAIN VariablesFields : Sized(VariablesFields[i])
      /\ \A i \in DOMAIN ParamFields : Sized(ParamFields[i])
  BY <1>2 DEF PortValuesFields, VariablesFields, ParamFields
<1>6. /\ \A i \in DOMAIN PeriodFields : Sized(PeriodFields[i])
      /\ \A i \in DOMAIN PriorityFields : Sized(PriorityFields[i])
      /\ \A i \in DOMAIN ToleranceFields : Sized(ToleranceFields[i])
  BY <1>2 DEF PeriodFields, PriorityFields, ToleranceFields
<1> QED
  BY <1>3, <1>4, <1>5, <1>6

LEMMA NumberMessagesAsAsked ==
  ASSUME NEW kind, kind # "param", NEW fields, \A i \in DOMAIN fields : Sized(fields[i]),
         NEW body, NEW m \in NumberMessages(kind, fields, body)
  PROVE  AsAsked([route |-> kind, body |-> body], m)
<1>1. PICK numbers \in Numbers(fields, body) : m = [kind |-> kind, numbers |-> numbers]
  BY DEF NumberMessages
<1>2. m.kind = kind /\ m.numbers = numbers /\ DOMAIN m = {"kind", "numbers"}
  BY <1>1
<1>3. NumbersAsAsked(body, m)
  BY <1>2, NumbersExact DEF NumbersAsAsked
<1> QED
  BY <1>2, <1>3 DEF AsAsked

LEMMA FlagMessagesAsAsked ==
  ASSUME NEW kind, kind # "param", NEW fields, \A i \in DOMAIN fields : Sized(fields[i]),
         NEW body, NEW flag, NEW m \in FlagMessages(kind, fields, body, flag)
  PROVE  AsAsked([route |-> kind, body |-> body, flag |-> flag], m)
<1>1. PICK numbers \in Numbers(fields, body), b \in BoolField(flag) :
        m = [kind |-> kind, numbers |-> numbers, flag |-> b]
  BY DEF FlagMessages
<1>2. m.kind = kind /\ m.numbers = numbers /\ m.flag = b /\ DOMAIN m = {"kind", "numbers", "flag"}
  BY <1>1
<1>3. NumbersAsAsked(body, m)
  BY <1>2, NumbersExact DEF NumbersAsAsked
<1>4. flag.kind = "truth" => b = flag.truth
  BY DEF BoolField
<1>5. Whole(flag) /\ flag.whole \in {0, 1} => b = (flag.whole = 1)
  <2>1. FirstDigit[0] = 0 /\ FirstDigit[1] = 1
    BY FirstDigits, WidthAssumption
  <2> QED
    BY <2>1 DEF BoolField, Whole
<1>6. FlagAsAsked(flag, m)
  BY <1>2, <1>4, <1>5 DEF FlagAsAsked
<1> QED
  BY <1>2, <1>3, <1>6 DEF AsAsked

\* A global command is a number as it is written, or a name.
LEMMA GlobalMessagesAsAsked ==
  ASSUME NEW v, NEW n \in GlobalCommand(v)
  PROVE  AsAsked([route |-> "global", body |-> <<v>>], [kind |-> "global", numbers |-> <<n>>])
<1> DEFINE m == [kind |-> "global", numbers |-> <<n>>]
<1>1. m.kind = "global" /\ m.numbers = <<n>> /\ DOMAIN m = {"kind", "numbers"}
  OBVIOUS
<1>2. Whole(v) \/ v.kind = "hex" => n = Asked(v)
  <2>1. CASE U64Field(v) # {}
    BY <2>1 DEF GlobalCommand, U64Field, Asked
  <2>2. CASE U64Field(v) = {}
    BY <2>2 DEF GlobalCommand, StringField, Whole
  <2> QED
    BY <2>1, <2>2
<1>3. NumbersAsAsked(<<v>>, m)
  BY <1>1, <1>2 DEF NumbersAsAsked
<1> HIDE DEF m
<1>4. AsAsked([route |-> "global", body |-> <<v>>], m)
  BY <1>1, <1>3 DEF AsAsked
<1> QED
  BY <1>4 DEF m

\* The parser of strings takes a text without escapes as it is.
LEMMA PlainIsWhole ==
  ASSUME NEW text, PlainText(text)
  PROVE  Before(Quote, text) = text
<1>1. Quote \in DOMAIN Escapes
  BY DEF Escapes
<1>2. {i \in 1..Len(text) : text[i] = Quote} = {}
  BY <1>1 DEF PlainText, Holds
<1>3. SelectInSeq(text, LAMBDA c : c = Quote) = 0
  BY <1>2 DEF SelectInSeq
<1> QED
  BY <1>3 DEF Before

LEMMA NameMessagesAsAsked ==
  ASSUME NEW kind, kind # "param", NEW v, NEW m \in NameMessages(kind, v)
  PROVE  AsAsked([route |-> kind, name |-> v], m)
<1>1. PICK name \in StringField(v) : m = [kind |-> kind, name |-> name]
  BY DEF NameMessages
<1>2. m.kind = kind /\ m.name = name /\ DOMAIN m = {"kind", "name"}
  BY <1>1
<1>3. name = Before(Quote, v.text)
  BY <1>1 DEF StringField
<1>4. NameAsAsked(v, m)
  BY <1>2, <1>3, PlainIsWhole DEF NameAsAsked
<1> QED
  BY <1>2, <1>4 DEF AsAsked

\* snprintf keeps the beginning of a string.
LEMMA CutIsPrefix ==
  ASSUME NEW text \in Seq(STRING), NEW k \in 0..Len(text)
  PROVE  IsPrefix(SubSeq(text, 1, k), text) /\ SubSeq(text, 1, Len(text)) = text
<1> DEFINE cut == SubSeq(text, 1, k)
<1>1. cut \in Seq(STRING) /\ Len(cut) = k /\ Len(text) \in Nat
  OBVIOUS
<1>2. \A i \in 1..k : cut[i] = text[i]
  BY <1>1
<1>3. SubSeq(cut, 1, k) = cut
  BY <1>1
<1>4. SubSeq(text, 1, Len(text)) = text
  BY <1>1
<1> QED
  BY <1>1, <1>3, <1>4 DEF IsPrefix

LEMMA ParamMessagesAsAsked ==
  ASSUME NEW body, NEW type, NEW value \in Values, NEW m \in ParamMessages(body, type, value)
  PROVE  AsAsked([route |-> "param", body |-> body, type |-> type, value |-> value], m)
<1>1. PICK numbers \in Numbers(ParamFields, body), t \in ValueType(type) :
        \E p \in ParamValue(t, value) :
          m = [kind |-> "param", numbers |-> numbers, type |-> t, value |-> p]
  BY DEF ParamMessages
<1>2. PICK p \in ParamValue(t, value) :
        m = [kind |-> "param", numbers |-> numbers, type |-> t, value |-> p]
  BY <1>1
<1>3. /\ m.kind = "param" /\ m.numbers = numbers /\ m.type = t /\ m.value = p
      /\ DOMAIN m = {"kind", "numbers", "type", "value"}
  BY <1>2
<1>4. NumbersAsAsked(body, m)
  BY <1>3, NumbersExact, FieldsSized DEF NumbersAsAsked
<1>5. ParamAsAsked(value, m)
  <2>1. t \in {"f32", "f64", "i64", "u64", "string"}
    <3>1. \A k \in 1..5 : ValueTypes[k] \in {"f32", "f64", "i64", "u64", "string"}
      BY DEF ValueTypes
    <3>2. CASE StringField(type) # {}
      <4>1. PICK k \in {j \in 1..5 : <<ValueTypes[j]>> \in StringField(type)} : t = ValueTypes[k]
        BY <3>2 DEF ValueType
      <4> QED
        BY <3>1, <4>1
    <3>3. CASE StringField(type) = {}
      <4>1. PICK k \in U64Field(type) \cap 0..4 : t = ValueTypes[k + 1]
        BY <3>3 DEF ValueType
      <4>2. k + 1 \in 1..5
        BY <4>1
      <4> QED
        BY <3>1, <4>1, <4>2
    <3> QED
      BY <3>2, <3>3
  <2>2. CASE t = "f64"
    BY <1>3, <2>2 DEF ParamValue, F64Field, ParamAsAsked
  <2>6. CASE t = "f32"
    <3>1. ASSUME value.kind = "number", value \in Floats
          PROVE  p = value
      <4>1. value \in Doubles
        BY <3>1, FloatAssumption
      <4>2. F64Field(value) \subseteq {value}
        BY <3>1, <4>1 DEF F64Field
      <4>3. PICK d \in F64Field(value) : p = Float(d)
        BY <2>6 DEF ParamValue
      <4> QED
        BY <3>1, <4>2, <4>3 DEF Float
    <3> QED
      BY <1>3, <2>6, <3>1 DEF ParamAsAsked
  <2>3. CASE t = "i64"
    BY <1>3, <2>3 DEF ParamValue, I64Field, ParamAsAsked, Whole, Asked
  <2>4. CASE t = "u64"
    BY <1>3, <2>4 DEF ParamValue, U64Field, ParamAsAsked, Asked
  <2>5. CASE t = "string"
    <3> DEFINE text == Before(Quote, value.text)
               k == IF Len(text) < StringMax THEN Len(text) ELSE StringMax - 1
    <3>1. value.kind = "string" /\ p = SubSeq(text, 1, k)
      BY <2>5 DEF ParamValue, StringField
    <3>2. ASSUME PlainText(value.text)
          PROVE  IsPrefix(p, value.text) /\ (Len(value.text) < StringMax => p = value.text)
      <4>1. text = value.text /\ value.text \in Seq(STRING) /\ Len(value.text) \in Nat
        BY <3>1, <3>2, PlainIsWhole, TextAssumption
      <4>2. StringMax \in Nat \ {0}
        BY RequestAssumption
      <4>3. k \in 0..Len(text) /\ (Len(text) < StringMax => k = Len(text))
        BY <4>1, <4>2
      <4> HIDE DEF text, k
      <4> QED
        BY <3>1, <4>1, <4>3, CutIsPrefix
    <3> QED
      BY <1>3, <2>5, <3>2 DEF ParamAsAsked
  <2> QED
    BY <2>1, <2>2, <2>3, <2>4, <2>5, <2>6
<1> QED
  BY <1>3, <1>4, <1>5 DEF AsAsked

\* Whatever the request, its route hands on messages that carry what was asked for.
LEMMA RouteAsAsked ==
  ASSUME PostCommand
  PROVE  \E request, messages :
           (\A m \in messages : AsAsked(request, m)) /\ Handle(request, messages)
<1>1. ASSUME NEW kind, kind # "param", NEW fields, \A i \in DOMAIN fields : Sized(fields[i]),
             PostNumbers(kind, fields)
      PROVE  \E request, messages :
               (\A m \in messages : AsAsked(request, m)) /\ Handle(request, messages)
  BY <1>1, NumberMessagesAsAsked DEF PostNumbers
<1>2. ASSUME NEW kind, kind # "param", NEW fields, \A i \in DOMAIN fields : Sized(fields[i]),
             PostFlag(kind, fields)
      PROVE  \E request, messages :
               (\A m \in messages : AsAsked(request, m)) /\ Handle(request, messages)
  BY <1>2, FlagMessagesAsAsked DEF PostFlag
<1>3. ASSUME NEW kind, kind # "param", PostName(kind)
      PROVE  \E request, messages :
               (\A m \in messages : AsAsked(request, m)) /\ Handle(request, messages)
  BY <1>3, NameMessagesAsAsked DEF PostName
<1>4. CASE \/ PostPlugin \/ PostRemoveNode \/ PostAddConnection \/ PostRemoveConnection
           \/ PostPeriod \/ PostPriority \/ PostTolerance
  BY <1>1, <1>4, FieldsSized DEF PostPlugin, PostRemoveNode, PostAddConnection,
     PostRemoveConnection, PostPeriod, PostPriority, PostTolerance
<1>5. CASE PostPortValues \/ PostVariables
  BY <1>2, <1>5, FieldsSized DEF PostPortValues, PostVariables
<1>6. CASE PostLoad \/ PostAdd
  BY <1>3, <1>6 DEF PostLoad, PostAdd
<1>7. CASE PostGlobal
  BY <1>7, GlobalMessagesAsAsked DEF PostGlobal
<1>8. CASE PostParam
  BY <1>8, ParamMessagesAsAsked DEF PostParam
<1> QED
  BY <1>4, <1>5, <1>6, <1>7, <1>8 DEF PostCommand

\* The exchange keeps the request and the message of it together.
LEMMA AskedStep ==
  ASSUME IInv, SentAsAsked, RequestNext
  PROVE  SentAsAsked'
<1> DEFINE Kept == exchange'.sent = exchange.sent /\ exchange'.request = exchange.request
<1>1. CASE PostCommand
  <2>1. PICK request, messages :
          (\A m \in messages : AsAsked(request, m)) /\ Handle(request, messages)
    BY <1>1, RouteAsAsked
  <2>2. \A sent, reply : /\ Exchange(request, sent, reply).request = request
                        /\ Exchange(request, sent, reply).sent = sent
    BY DEF Exchange
  <2>3. exchange'.request = request /\ exchange'.sent \subseteq messages
    <3>1. CASE Refuse(request, messages)
      BY <2>2, <3>1 DEF Refuse
    <3>2. ASSUME NEW m \in messages, Bounce(request, m)
          PROVE  exchange'.request = request /\ exchange'.sent \subseteq messages
      <4>1. exchange' = Exchange(request, {}, "queue full")
        BY <3>2 DEF Bounce
      <4>2. exchange'.request = request /\ exchange'.sent = {}
        BY <4>1 DEF Exchange
      <4> QED
        BY <4>2
    <3>3. ASSUME NEW m \in messages, Push(request, m)
          PROVE  exchange'.request = request /\ exchange'.sent \subseteq messages
      <4>1. PICK reply : exchange' = Exchange(request, {m}, reply)
        BY <3>3 DEF Push
      <4> QED
        BY <2>2, <4>1
    <3> QED
      BY <2>1, <3>1, <3>2, <3>3 DEF Handle
  <2> QED
    BY <2>1, <2>3 DEF SentAsAsked, AsAsked
<1>2. CASE EnginePops \/ TakeResult \/ GiveUp
  <2>1. Kept
    BY <1>2 DEF EnginePops, TakeResult, GiveUp, IInv, ExchangeInv
  <2> QED
    BY <2>1 DEF SentAsAsked
<1>3. CASE Deliver
  <2>1. exchange'.sent = {}
    BY <1>3 DEF Deliver, NoExchange, Exchange
  <2> QED
    BY <2>1 DEF SentAsAsked
<1> QED
  BY <1>1, <1>2, <1>3 DEF RequestNext
-----------------------------------------------------------------------------
(* What the client reads                                                   *)

\* f is what FlattenSeq folds of the first k of seqs.
Flattens(f, seqs, k) == f = [i \in 1..k |-> IF i = 1 THEN seqs[i] ELSE f[i - 1] \o seqs[i]]

LEMMA FlattensExist == \A seqs : \A k \in Nat : \E f : Flattens(f, seqs, k)
<1> SUFFICES ASSUME NEW seqs PROVE \A k \in Nat : \E f : Flattens(f, seqs, k)
  OBVIOUS
<1> DEFINE T == {k \in Nat : ~\E f : Flattens(f, seqs, k)}
<1> SUFFICES ASSUME T # {} PROVE FALSE
  OBVIOUS
<1>1. PICK x \in T : \A y \in T : x <= y
  BY Smallest
<1>2. x # 0
  <2> DEFINE f == [i \in 1..0 |-> <<>>]
  <2>1. f = [i \in 1..0 |-> IF i = 1 THEN seqs[i] ELSE f[i - 1] \o seqs[i]]
    OBVIOUS
  <2> QED
    BY <2>1 DEF Flattens
<1>3. x \in Nat /\ x - 1 \in Nat /\ x - 1 \notin T
  BY <1>1, <1>2
<1>4. PICK f : Flattens(f, seqs, x - 1)
  BY <1>3
<1> DEFINE last == IF x = 1 THEN seqs[x] ELSE f[x - 1] \o seqs[x]
           g == [i \in 1..x |-> IF i = x THEN last ELSE f[i]]
<1>5. \A i \in 1..(x - 1) : f[i] = IF i = 1 THEN seqs[i] ELSE f[i - 1] \o seqs[i]
  BY <1>4 DEF Flattens
<1>6. \A i \in 1..x : g[i] = IF i = 1 THEN seqs[i] ELSE g[i - 1] \o seqs[i]
  <2> SUFFICES ASSUME NEW i \in 1..x PROVE g[i] = IF i = 1 THEN seqs[i] ELSE g[i - 1] \o seqs[i]
    OBVIOUS
  <2>1. i # 1 => i - 1 \in 1..(x - 1) /\ g[i - 1] = f[i - 1]
    BY <1>3
  <2>2. i # x => i \in 1..(x - 1) /\ g[i] = f[i]
    BY <1>3
  <2>3. i = x => g[i] = last
    OBVIOUS
  <2> HIDE DEF g
  <2> QED
    BY <1>5, <2>1, <2>2, <2>3
<1>7. Flattens(g, seqs, x)
  <2>1. g = [i \in 1..x |-> g[i]]
    OBVIOUS
  <2> HIDE DEF g
  <2> QED
    BY <1>6, <2>1 DEF Flattens
<1> HIDE DEF g
<1> QED
  BY <1>1, <1>7

\* FlattenSeq is the last of what it folds.
LEMMA Flattened ==
  ASSUME NEW seqs, Len(seqs) \in Nat, Len(seqs) # 0
  PROVE  \E f : Flattens(f, seqs, Len(seqs)) /\ FlattenSeq(seqs) = f[Len(seqs)]
<1>1. \E f : f = [i \in 1..Len(seqs) |-> IF i = 1 THEN seqs[i] ELSE f[i - 1] \o seqs[i]]
  <2>1. PICK f : Flattens(f, seqs, Len(seqs))
    BY FlattensExist
  <2> QED
    BY <2>1 DEF Flattens
<1> DEFINE f[i \in 1..Len(seqs)] == IF i = 1 THEN seqs[i] ELSE f[i - 1] \o seqs[i]
<1>2. f = [i \in 1..Len(seqs) |-> IF i = 1 THEN seqs[i] ELSE f[i - 1] \o seqs[i]]
  BY <1>1, Zenon
<1>3. FlattenSeq(seqs) = f[Len(seqs)]
  BY Zenon DEF FlattenSeq
<1> HIDE DEF f
<1> QED
  BY <1>2, <1>3 DEF Flattens
-----------------------------------------------------------------------------
\* What texts are made of: strings, and the literals that json_escape writes,
\* which the provers do not know to be strings.
Chars == STRING \cup {Quote, Backslash, "n", "r", "t"}

JsonStart == [bad |-> FALSE, escape |-> FALSE, text |-> <<>>]

\* r is what JsonRead makes of the first k characters.
Reads(r, text, k) ==
  r = [i \in 0..k |-> IF i = 0 THEN JsonStart ELSE JsonStep(r[i - 1], text[i])]

LEMMA ReadsExist == \A text : \A k \in Nat : \E r : Reads(r, text, k)
<1> SUFFICES ASSUME NEW text PROVE \A k \in Nat : \E r : Reads(r, text, k)
  OBVIOUS
<1> DEFINE T == {k \in Nat : ~\E r : Reads(r, text, k)}
<1> SUFFICES ASSUME T # {} PROVE FALSE
  OBVIOUS
<1>1. PICK x \in T : \A y \in T : x <= y
  BY Smallest
<1>2. x # 0
  <2> DEFINE r == [i \in 0..0 |-> JsonStart]
  <2>1. r = [i \in 0..0 |-> IF i = 0 THEN JsonStart ELSE JsonStep(r[i - 1], text[i])]
    OBVIOUS
  <2> QED
    BY <2>1 DEF Reads
<1>3. x \in Nat /\ x - 1 \in Nat /\ x - 1 \notin T
  BY <1>1, <1>2
<1>4. PICK r : Reads(r, text, x - 1)
  BY <1>3
<1> DEFINE last == JsonStep(r[x - 1], text[x])
           g == [i \in 0..x |-> IF i = x THEN last ELSE r[i]]
<1>5. \A i \in 0..(x - 1) : r[i] = IF i = 0 THEN JsonStart ELSE JsonStep(r[i - 1], text[i])
  BY <1>4 DEF Reads
<1>6. \A i \in 0..x : g[i] = IF i = 0 THEN JsonStart ELSE JsonStep(g[i - 1], text[i])
  <2> SUFFICES ASSUME NEW i \in 0..x
               PROVE  g[i] = IF i = 0 THEN JsonStart ELSE JsonStep(g[i - 1], text[i])
    OBVIOUS
  <2>1. i # 0 => i - 1 \in 0..(x - 1) /\ g[i - 1] = r[i - 1]
    BY <1>3
  <2>2. i # x => i \in 0..(x - 1) /\ g[i] = r[i]
    BY <1>3
  <2>3. i = x => g[i] = JsonStep(r[x - 1], text[x])
    OBVIOUS
  <2> HIDE DEF g
  <2> QED
    BY <1>2, <1>5, <2>1, <2>2, <2>3
<1>7. Reads(g, text, x)
  <2>1. g = [i \in 0..x |-> g[i]]
    OBVIOUS
  <2> HIDE DEF g
  <2> QED
    BY <1>6, <2>1 DEF Reads
<1> HIDE DEF g
<1> QED
  BY <1>1, <1>7

\* What a JSON reader makes of a text is decided by the last state it reaches.
LEMMA JsonReadIs ==
  ASSUME NEW text \in Seq(Chars), NEW given \in Seq(Chars),
         \A r : Reads(r, text, Len(text)) =>
                  r[Len(text)] = [bad |-> FALSE, escape |-> FALSE, text |-> given]
  PROVE  JsonRead(text) = given
<1> DEFINE r[i \in 0..Len(text)] ==
             IF i = 0 THEN [bad |-> FALSE, escape |-> FALSE, text |-> <<>>]
             ELSE JsonStep(r[i - 1], text[i])
<1>1. \E s : s = [i \in 0..Len(text) |->
                    IF i = 0 THEN [bad |-> FALSE, escape |-> FALSE, text |-> <<>>]
                    ELSE JsonStep(s[i - 1], text[i])]
  <2> Len(text) \in Nat
    OBVIOUS
  <2>1. PICK s : Reads(s, text, Len(text))
    BY ReadsExist
  <2>2. s = [i \in 0..Len(text) |->
               IF i = 0 THEN [bad |-> FALSE, escape |-> FALSE, text |-> <<>>]
               ELSE JsonStep(s[i - 1], text[i])]
    BY <2>1, Zenon DEF Reads, JsonStart
  <2> QED
    BY <2>2
<1>2. r = [i \in 0..Len(text) |->
             IF i = 0 THEN [bad |-> FALSE, escape |-> FALSE, text |-> <<>>]
             ELSE JsonStep(r[i - 1], text[i])]
  BY <1>1, Zenon
<1>3. JsonRead(text) = IF r[Len(text)].bad \/ r[Len(text)].escape THEN NotJson
                       ELSE r[Len(text)].text
  BY Zenon DEF JsonRead
<1> HIDE DEF r
<1>4. Reads(r, text, Len(text))
  BY <1>2 DEF Reads, JsonStart
<1> QED
  BY <1>3, <1>4

\* Reading goes on where it was after a beginning of the text.
LEMMA ReadOn ==
  ASSUME NEW a \in Seq(Chars), NEW b \in Seq(Chars), NEW r, Reads(r, a \o b, Len(a \o b))
  PROVE  /\ \E s : Reads(s, a, Len(a)) /\ s[Len(a)] = r[Len(a)]
         /\ \A j \in 1..Len(b) : r[Len(a) + j] = JsonStep(r[Len(a) + j - 1], b[j])
<1>1. /\ Len(a) \in Nat /\ Len(b) \in Nat /\ Len(a \o b) = Len(a) + Len(b)
      /\ \A i \in 1..Len(a) : (a \o b)[i] = a[i]
      /\ \A j \in 1..Len(b) : (a \o b)[Len(a) + j] = b[j]
  OBVIOUS
<1>2. \A i \in 0..(Len(a) + Len(b)) :
        r[i] = IF i = 0 THEN JsonStart ELSE JsonStep(r[i - 1], (a \o b)[i])
  BY <1>1 DEF Reads
<1> DEFINE s == [i \in 0..Len(a) |-> r[i]]
<1>3. \A i \in 0..Len(a) : s[i] = IF i = 0 THEN JsonStart ELSE JsonStep(s[i - 1], a[i])
  <2> SUFFICES ASSUME NEW i \in 0..Len(a)
               PROVE  s[i] = IF i = 0 THEN JsonStart ELSE JsonStep(s[i - 1], a[i])
    OBVIOUS
  <2>1. s[i] = r[i] /\ (i # 0 => i \in 1..Len(a) /\ s[i - 1] = r[i - 1])
    BY <1>1
  <2>2. i \in 0..(Len(a) + Len(b))
    BY <1>1
  <2> HIDE DEF s
  <2> QED
    BY <1>1, <1>2, <2>1, <2>2
<1>4. s[Len(a)] = r[Len(a)] /\ s = [i \in 0..Len(a) |-> s[i]]
  BY <1>1
<1> HIDE DEF s
<1>5. Reads(s, a, Len(a))
  BY <1>3, <1>4 DEF Reads
<1>6. ASSUME NEW j \in 1..Len(b)
      PROVE  r[Len(a) + j] = JsonStep(r[Len(a) + j - 1], b[j])
  <2>1. Len(a) + j \in 0..(Len(a) + Len(b)) /\ Len(a) + j # 0
    BY <1>1
  <2> QED
    BY <1>1, <1>2, <2>1
<1> QED
  BY <1>4, <1>5, <1>6

Reader(text) == [bad |-> FALSE, escape |-> FALSE, text |-> text]

\* No two characters have the same escape.
LEMMA EscapesApart ==
  /\ DOMAIN Escapes = {Quote, Backslash, "\n", "\r", "\t"}
  /\ \A c, d \in DOMAIN Escapes : Escapes[c] = Escapes[d] => c = d
  /\ \A c \in DOMAIN Escapes : Escapes[c] \in Chars
<1>1. DOMAIN Escapes = {Quote, Backslash, "\n", "\r", "\t"}
  BY DEF Escapes
<1>2. /\ Escapes["\n"] = "n" /\ Escapes["\r"] = "r" /\ Escapes["\t"] = "t"
      /\ Escapes[Quote] = Quote /\ Escapes[Backslash] = Backslash
  BY DEF Escapes, Quote, Backslash
<1>3. Quote # Backslash /\ Quote \notin {"n", "r", "t"} /\ Backslash \notin {"n", "r", "t"}
  BY DEF Quote, Backslash
<1>4. \A c \in DOMAIN Escapes : Escapes[c] \in Chars
  BY <1>1, <1>2 DEF Chars
<1>5. Quote \notin {"\n", "\r", "\t"} /\ Backslash \notin {"\n", "\r", "\t"}
  BY DEF Quote, Backslash
<1>6. \A c, d \in DOMAIN Escapes : Escapes[c] = Escapes[d] => c = d
  BY <1>1, <1>2, <1>3, <1>5
<1> QED
  BY <1>1, <1>4, <1>6

\* A reader takes a character back from what json_escape writes for it.
LEMMA JsonSteps ==
  ASSUME NEW c \in Chars, c # Control, NEW t \in Seq(Chars)
  PROVE  /\ Escaped(c) \in Seq(Chars)
         /\ \/ /\ Len(Escaped(c)) = 1
               /\ JsonStep(Reader(t), Escaped(c)[1]) = Reader(Append(t, c))
            \/ /\ Len(Escaped(c)) = 2
               /\ JsonStep(JsonStep(Reader(t), Escaped(c)[1]), Escaped(c)[2])
                    = Reader(Append(t, c))
<1>1. CASE c \in DOMAIN Escapes
  <2>1. Escaped(c) = <<Backslash, Escapes[c]>>
    BY <1>1 DEF Escaped
  <2>2. Escapes[c] \in Chars /\ Backslash \in Chars
    BY <1>1, EscapesApart DEF Chars
  <2> DEFINE s == [bad |-> FALSE, escape |-> TRUE, text |-> t]
  <2>3. JsonStep(Reader(t), Backslash) = s
    BY DEF JsonStep, Reader
  <2>4. {d \in DOMAIN Escapes : Escapes[d] = Escapes[c]} = {c}
    BY <1>1, EscapesApart
  <2>5. JsonStep(s, Escapes[c]) = [s EXCEPT !.escape = FALSE, !.text = Append(@, c)]
    BY <2>4 DEF JsonStep
  <2>6. JsonStep(s, Escapes[c]) = Reader(Append(t, c))
    BY <2>5 DEF Reader
  <2> HIDE DEF s
  <2>7. /\ Escaped(c) \in Seq(Chars) /\ Len(Escaped(c)) = 2
        /\ Escaped(c)[1] = Backslash /\ Escaped(c)[2] = Escapes[c]
    BY <2>1, <2>2
  <2> QED
    BY <2>3, <2>6, <2>7
<1>2. CASE c \notin DOMAIN Escapes
  <2>1. Escaped(c) = <<c>>
    BY <1>2 DEF Escaped
  <2>2. c # Backslash /\ c \notin {Quote, "\n", "\r", "\t", Control}
    BY <1>2, EscapesApart
  <2>3. JsonStep(Reader(t), c) = Reader(Append(t, c))
    BY <2>2 DEF JsonStep, Reader
  <2>4. Escaped(c) \in Seq(Chars) /\ Len(Escaped(c)) = 1 /\ Escaped(c)[1] = c
    BY <2>1
  <2> QED
    BY <2>3, <2>4
<1> QED
  BY <1>1, <1>2

\* A JSON reader of an escaped text gets the text.
LEMMA JsonReadsBack ==
  ASSUME NEW text \in Seq(Chars), ~Holds(text, {Control})
  PROVE  JsonRead(JsonEscape(text)) = text
<1> DEFINE n == Len(text)
           seqs == [i \in DOMAIN text |-> Escaped(text[i])]
<1>1. /\ n \in Nat /\ DOMAIN text = 1..n
      /\ \A i \in 1..n : text[i] \in Chars /\ text[i] # Control
  BY DEF Holds
<1>2. Len(seqs) = n /\ \A i \in 1..n : seqs[i] = Escaped(text[i])
  BY <1>1
<1>3. CASE n = 0
  <2>1. JsonEscape(text) = <<>> /\ text = <<>>
    <3>1. FlattenSeq(seqs) = seqs
      BY <1>2, <1>3 DEF FlattenSeq
    <3>2. seqs = <<>> /\ text = <<>>
      BY <1>1, <1>3
    <3> QED
      BY <3>1, <3>2 DEF JsonEscape
  <2>2. \A r : Reads(r, <<>>, 0) => r[0] = Reader(<<>>)
    BY DEF Reads, JsonStart, Reader
  <2>3. <<>> \in Seq(Chars) /\ Len(<<>>) = 0
    OBVIOUS
  <2> QED
    BY <2>1, <2>2, <2>3, JsonReadIs DEF Reader
<1>4. CASE n # 0
  <2>1. PICK f : Flattens(f, seqs, n) /\ FlattenSeq(seqs) = f[n]
    BY <1>1, <1>2, <1>4, Flattened
  <2> DEFINE p(i) == IF i = 0 THEN <<>> ELSE f[i]
             Back(i) == /\ p(i) \in Seq(Chars)
                        /\ \A r : Reads(r, p(i), Len(p(i))) => r[Len(p(i))] = Reader(SubSeq(text, 1, i))
             T == {i \in 0..n : ~Back(i)}
  <2>2. ASSUME NEW i \in 1..n, p(i - 1) \in Seq(Chars)
        PROVE  p(i) = p(i - 1) \o Escaped(text[i])
    <3>1. f[i] = IF i = 1 THEN seqs[i] ELSE f[i - 1] \o seqs[i]
      BY <2>1 DEF Flattens
    <3>2. seqs[i] = Escaped(text[i]) /\ Escaped(text[i]) \in Seq(Chars)
      BY <1>1, <1>2, JsonSteps
    <3> HIDE DEF seqs
    <3> QED
      BY <2>2, <3>1, <3>2, <1>1
  <2>3. Back(0)
    <3>1. p(0) = <<>> /\ <<>> \in Seq(Chars) /\ Len(<<>>) = 0 /\ SubSeq(text, 1, 0) = <<>>
      OBVIOUS
    <3>2. \A r : Reads(r, <<>>, 0) => r[0] = Reader(<<>>)
      BY DEF Reads, JsonStart, Reader
    <3> QED
      BY <3>1, <3>2
  <2>4. ASSUME NEW i \in 1..n, Back(i - 1)
        PROVE  Back(i)
    <3> DEFINE a == p(i - 1)
               b == Escaped(text[i])
               before == SubSeq(text, 1, i - 1)
    <3>1. a \in Seq(Chars) /\ p(i) = a \o b
      BY <2>2, <2>4
    <3>2. before \in Seq(Chars) /\ Append(before, text[i]) = SubSeq(text, 1, i)
      BY <1>1
    <3>3. /\ b \in Seq(Chars)
          /\ \/ Len(b) = 1 /\ JsonStep(Reader(before), b[1]) = Reader(SubSeq(text, 1, i))
             \/ /\ Len(b) = 2
                /\ JsonStep(JsonStep(Reader(before), b[1]), b[2]) = Reader(SubSeq(text, 1, i))
      BY <1>1, <3>2, JsonSteps
    <3>4. \A r : Reads(r, a, Len(a)) => r[Len(a)] = Reader(before)
      BY <2>4
    <3> HIDE DEF p, a, b, before
    <3>5. ASSUME NEW r, Reads(r, a \o b, Len(a \o b))
          PROVE  r[Len(a \o b)] = Reader(SubSeq(text, 1, i))
      <4>1. /\ \E s : Reads(s, a, Len(a)) /\ s[Len(a)] = r[Len(a)]
            /\ \A j \in 1..Len(b) : r[Len(a) + j] = JsonStep(r[Len(a) + j - 1], b[j])
        BY <3>1, <3>3, <3>5, ReadOn
      <4>2. r[Len(a)] = Reader(before)
        BY <3>4, <4>1
      <4>3. Len(a) \in Nat /\ Len(a \o b) = Len(a) + Len(b)
        BY <3>1, <3>3
      <4>4. CASE Len(b) = 1
        <5>1. r[Len(a) + 1] = JsonStep(r[Len(a) + 1 - 1], b[1])
          BY <4>1, <4>4
        <5>2. Len(a) + 1 - 1 = Len(a)
          BY <4>3
        <5> QED
          BY <3>3, <4>2, <4>3, <4>4, <5>1, <5>2
      <4>5. CASE Len(b) = 2
        <5>1. /\ r[Len(a) + 1] = JsonStep(r[Len(a) + 1 - 1], b[1])
              /\ r[Len(a) + 2] = JsonStep(r[Len(a) + 2 - 1], b[2])
          BY <4>1, <4>5
        <5>2. Len(a) + 1 - 1 = Len(a) /\ Len(a) + 2 - 1 = Len(a) + 1
          BY <4>3
        <5> QED
          BY <3>3, <4>2, <4>3, <4>5, <5>1, <5>2
      <4> QED
        BY <3>3, <4>4, <4>5
    <3> QED
      BY <3>1, <3>3, <3>5
  <2>5. Back(n)
    <3> HIDE DEF Back
    <3>1. ASSUME T # {} PROVE FALSE
      <4>1. T \in SUBSET Nat
        BY <1>1
      <4>2. PICK x \in T : \A y \in T : x <= y
        BY <3>1, <4>1, Smallest
      <4>3. x \in 1..n
        BY <1>1, <2>3, <4>2
      <4>4. x - 1 \in 0..n /\ x - 1 \notin T
        BY <1>1, <4>2, <4>3
      <4> QED
        BY <2>4, <4>2, <4>3, <4>4
    <3> QED
      BY <1>1, <3>1
  <2>6. p(n) = JsonEscape(text) /\ SubSeq(text, 1, n) = text
    BY <1>1, <1>4, <2>1 DEF JsonEscape
  <2> HIDE DEF p
  <2> QED
    BY <2>5, <2>6, JsonReadIs DEF Reader
<1> QED
  BY <1>3, <1>4

\* A reply with a result prints the one that the engine gave.
ResultInv ==
  exchange.reply = "result" =>
    /\ exchange.printed = Printed(exchange.answered)
    /\ \E name, text \in Names, ports \in 0..(PortCap + 1), params \in 0..(ParamCap + 1),
          states \in 0..(StateCap + 1) :
         exchange.answered = Node(name, text, ports, params, states)

LEMMA ResultStep ==
  ASSUME IInv, ResultInv, RequestNext
  PROVE  ResultInv'
<1>1. CASE PostCommand
  <2>1. PICK request, messages : Handle(request, messages)
    BY <1>1, RouteMessages
  <2>2. \A sent, reply : Exchange(request, sent, reply).reply = reply
    BY DEF Exchange
  <2>3. \E sent, reply : /\ exchange' = Exchange(request, sent, reply)
                        /\ reply \in {"invalid", "queue full", "accepted", "waiting"}
    BY <2>1 DEF Handle, Refuse, Bounce, Push
  <2>4. exchange'.reply # "result"
    BY <2>2, <2>3
  <2> QED
    BY <2>4 DEF ResultInv
<1>2. CASE EnginePops
  BY <1>2 DEF EnginePops, ResultInv
<1>3. CASE TakeResult
  <2>1. PICK name \in Names, text \in Names, ports \in 0..(PortCap + 1),
             params \in 0..(ParamCap + 1), states \in 0..(StateCap + 1) :
          LET node == Node(name, text, ports, params, states) IN
          exchange' = [exchange EXCEPT !.reply = "result", !.printed = Printed(node),
                                       !.answered = node]
    BY <1>3 DEF TakeResult
  <2>2. /\ exchange'.answered = Node(name, text, ports, params, states)
        /\ exchange'.printed = Printed(exchange'.answered)
    BY <2>1 DEF IInv, ExchangeInv
  <2> QED
    BY <2>2 DEF ResultInv
<1>4. CASE GiveUp
  <2>1. exchange'.reply = "accepted"
    BY <1>4 DEF GiveUp, IInv, ExchangeInv
  <2> QED
    BY <2>1 DEF ResultInv
<1>5. CASE Deliver
  <2>1. exchange'.reply = "none"
    BY <1>5 DEF Deliver, NoExchange, Exchange
  <2> QED
    BY <2>1 DEF ResultInv
<1> QED
  BY <1>1, <1>2, <1>3, <1>4, <1>5 DEF RequestNext

\* A name of the result, printed and read.
LEMMA NameReads ==
  ASSUME NEW text \in Names
  PROVE  TextReads(JsonEscape(text), text)
<1> SUFFICES ASSUME ~Holds(text, {Control}) PROVE JsonRead(JsonEscape(text)) = text
  BY DEF TextReads
<1>1. text \in Seq(STRING)
  BY TextAssumption
<1>2. Len(text) \in Nat /\ text = [i \in 1..Len(text) |-> text[i]]
  BY <1>1
<1>3. \A i \in 1..Len(text) : text[i] \in Chars
  BY <1>1 DEF Chars
<1>4. text \in Seq(Chars)
  BY <1>2, <1>3
<1> QED
  BY <1>4, JsonReadsBack

\* A list of one entry, repeated, is printed up to the room there is.
LEMMA RepeatedReads ==
  ASSUME NEW entry, NEW count \in Nat, NEW cap \in Nat,
         \A k \in DOMAIN entry : entry[k] \in Names
  PROVE  ListReads(PrintedList(Repeated(entry, count), cap), Repeated(entry, count), cap)
<1> DEFINE list == Repeated(entry, count)
           out == PrintedList(list, cap)
           listed == IF count < cap THEN count ELSE cap
<1>1. /\ DOMAIN list = 1..count /\ Len(list) = count
      /\ \A i \in 1..count : list[i] = entry
  BY DEF Repeated
<1>2. listed \in Nat /\ listed <= cap /\ listed <= count
      /\ \A i \in 1..cap : i \in 1..listed <=> i \in 1..count
  OBVIOUS
<1>3. out = [i \in 1..listed |-> [k \in DOMAIN list[i] |-> JsonEscape(list[i][k])]]
  BY <1>1 DEF PrintedList, Listed
<1> HIDE DEF list, listed
<1>4. /\ DOMAIN out = 1..listed
      /\ \A i \in 1..listed : out[i] = [k \in DOMAIN list[i] |-> JsonEscape(list[i][k])]
  BY <1>3
<1> HIDE DEF out
<1>5. Len(out) = listed
  BY <1>2, <1>3
<1>6. ASSUME NEW i \in 1..cap, i \in DOMAIN out, NEW k \in DOMAIN list[i]
      PROVE  TextReads(out[i][k], list[i][k])
  <2>1. i \in 1..listed /\ i \in 1..count
    BY <1>2, <1>4, <1>6
  <2>2. list[i] = entry
    BY <1>1, <2>1
  <2>3. out[i][k] = JsonEscape(list[i][k])
    BY <1>4, <1>6, <2>1
  <2>4. list[i][k] \in Names
    BY <1>6, <2>2
  <2> QED
    BY <2>3, <2>4, NameReads
<1>7. \A i \in 1..cap : i \in DOMAIN out <=> i \in DOMAIN list
  BY <1>1, <1>2, <1>4
<1>8. ListReads(out, list, cap)
  BY <1>2, <1>5, <1>6, <1>7 DEF ListReads
<1> QED
  BY <1>8 DEF out, list

LEMMA ResultReads ==
  ASSUME ResultInv
  PROVE  ResultReadsBack
<1> SUFFICES ASSUME exchange.reply = "result"
             PROVE  /\ TextReads(exchange.printed.name, exchange.answered.name)
                    /\ ListReads(exchange.printed.ports, exchange.answered.ports, PortCap)
                    /\ ListReads(exchange.printed.params, exchange.answered.params, ParamCap)
                    /\ ListReads(exchange.printed.states, exchange.answered.states, StateCap)
  BY DEF ResultReadsBack
<1> DEFINE node == exchange.answered
<1>1. exchange.printed = Printed(node)
  BY DEF ResultInv
<1>2. PortCap \in Nat /\ ParamCap \in Nat /\ StateCap \in Nat
  BY RequestAssumption
<1>3. PICK name \in Names, text \in Names, p \in 0..(PortCap + 1),
           q \in 0..(ParamCap + 1), r \in 0..(StateCap + 1) :
        node = Node(name, text, p, q, r)
  BY DEF ResultInv
<1>4. /\ node.name = name /\ node.ports = Repeated(<<name>>, p)
      /\ node.params = Repeated(<<name, text>>, q) /\ node.states = Repeated(<<text, name>>, r)
  BY <1>3 DEF Node
<1>5. /\ exchange.printed.name = JsonEscape(node.name)
      /\ exchange.printed.ports = PrintedList(node.ports, PortCap)
      /\ exchange.printed.params = PrintedList(node.params, ParamCap)
      /\ exchange.printed.states = PrintedList(node.states, StateCap)
  BY <1>1 DEF Printed
<1>6. p \in Nat /\ q \in Nat /\ r \in Nat
  BY <1>2
<1> HIDE DEF node
<1>7. ListReads(exchange.printed.ports, node.ports, PortCap)
  <2>1. \A k \in DOMAIN <<name>> : <<name>>[k] \in Names
    OBVIOUS
  <2> QED
    BY <1>2, <1>4, <1>5, <1>6, <2>1, RepeatedReads
<1>8. ListReads(exchange.printed.params, node.params, ParamCap)
  <2>1. \A k \in DOMAIN <<name, text>> : <<name, text>>[k] \in Names
    OBVIOUS
  <2> QED
    BY <1>2, <1>4, <1>5, <1>6, <2>1, RepeatedReads
<1>9. ListReads(exchange.printed.states, node.states, StateCap)
  <2>1. \A k \in DOMAIN <<text, name>> : <<text, name>>[k] \in Names
    OBVIOUS
  <2> QED
    BY <1>2, <1>4, <1>5, <1>6, <2>1, RepeatedReads
<1>10. TextReads(exchange.printed.name, node.name)
  BY <1>4, <1>5, NameReads
<1> QED
  BY <1>7, <1>8, <1>9, <1>10 DEF node
-----------------------------------------------------------------------------
(* The theorems                                                            *)

\* The inductive invariant holds in every behaviour.
THEOREM SpecIInv == RequestSpec => []IInv
<1>1. IInv /\ [RequestNext]_requestVars => IInv'
  <2> SUFFICES ASSUME IInv, [RequestNext]_requestVars PROVE IInv'
    OBVIOUS
  <2>1. CASE UNCHANGED requestVars
    BY <2>1 DEF requestVars, IInv, QueueInv, ExchangeInv, Unreserved
  <2> QED
    BY <2>1, Step
<1> QED
  BY <1>1, InitIInv, PTL DEF RequestSpec

\* The queue keeps its bound, and a request is accepted exactly when one message
\* was pushed for it.
THEOREM TypeCorrect == RequestSpec => []RequestTypeOK
<1>1. IInv => RequestTypeOK
  BY DEF IInv, ExchangeInv, RequestTypeOK, Sent
<1> QED
  BY <1>1, SpecIInv, PTL

\* No command to connect, disconnect or remove has UINT32_MAX as an identifier.
THEOREM IdentifiersUnreserved == RequestSpec => []NoReservedIds
<1>1. IInv => NoReservedIds
  BY DEF IInv, QueueInv, NoReservedIds
<1> QED
  BY <1>1, SpecIInv, PTL

\* A route never blames the queue for what the producer refused.
THEOREM FullIsFull == RequestSpec => FullMeansFull
<1>1. IInv /\ [RequestNext]_requestVars => [FullStep]_requestVars
  BY Step
<1> QED
  BY <1>1, SpecIInv, PTL DEF RequestSpec, FullMeansFull, FullStep

\* The message pushed for an accepted request carries what the client asked for:
\* for every width of the fields, every limit and every body, the checks of the
\* routes in api.cpp let nothing through that a cast between integers, a copy into
\* a fixed array or a parser of http.cpp would change, and the cast to float
\* changes no number that a float holds.
THEOREM SentIsAsked == RequestSpec => []SentAsAsked
<1>1. RequestInit => SentAsAsked
  BY DEF RequestInit, NoExchange, Exchange, SentAsAsked
<1>2. IInv /\ SentAsAsked /\ [RequestNext]_requestVars => SentAsAsked'
  <2> SUFFICES ASSUME IInv, SentAsAsked, [RequestNext]_requestVars PROVE SentAsAsked'
    OBVIOUS
  <2>1. CASE UNCHANGED requestVars
    BY <2>1 DEF requestVars, SentAsAsked
  <2> QED
    BY <2>1, AskedStep
<1> QED
  BY <1>1, <1>2, SpecIInv, PTL DEF RequestSpec

\* A JSON reader of the reply gets the name, the ports, the parameters and the
\* states of the engine's result, with their names and descriptions, whatever
\* characters these have but control characters: json_escape writes nothing that
\* reads as anything else, and result_message_to_json prints no more of each list
\* than a message has.
THEOREM ResultIsReadBack == RequestSpec => []ResultReadsBack
<1>1. RequestInit => ResultInv
  BY DEF RequestInit, NoExchange, Exchange, ResultInv
<1>2. IInv /\ ResultInv /\ [RequestNext]_requestVars => ResultInv'
  <2> SUFFICES ASSUME IInv, ResultInv, [RequestNext]_requestVars PROVE ResultInv'
    OBVIOUS
  <2>1. CASE UNCHANGED requestVars
    BY <2>1 DEF requestVars, ResultInv
  <2> QED
    BY <2>1, ResultStep
<1>3. ResultInv => ResultReadsBack
  BY ResultReads
<1> QED
  BY <1>1, <1>2, <1>3, SpecIInv, PTL DEF RequestSpec
=============================================================================
