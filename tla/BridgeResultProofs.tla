------------------------- MODULE BridgeResultProofs -------------------------
(***************************************************************************)
(* Results reach the handlers that wait for them, and only those: what     *)
(* Bridge promises of result_mutex_, the shared result queue and           *)
(* pending_results_, for every number of workers, ids and bounds.          *)
(*                                                                         *)
(* The code compares sequence numbers and nothing else, so the argument is *)
(* about them: which handlers, commands and results may have which number  *)
(* (Ids).  What a handler's record says at each step is in Route.          *)
(***************************************************************************)
EXTENDS BridgeProofs

\* What a handler's record satisfies on its way, besides Shape.
Route(r) ==
  /\ r.pc = "idle" <=> r.kind = "none"
  /\ r.pc = "done" <=> r.status # "none"
  /\ r.pc \in {"lock", "top", "pop", "remember", "unvalue"} => r.kind \in Awaited
  /\ r.pc \in {"drain", "apply", "snap", "clear", "poll", "merge", "mergepop", "report"} =>
       r.kind = "nodes"
  /\ r.pc = "note" => r.kind \in Noted
  /\ r.pc = "persist" => r.kind \in Awaited \cup {"nodes", "update"}
  /\ r.kind # "nodes" => r.then = "done"
  /\ r.pc = "persist" /\ r.kind = "nodes" => r.then # "done"
  /\ r.pc \in {"poll", "merge", "mergepop"} => r.then = "report"
  /\ r.pc \in {"lock", "top", "pop"} => r.todo = <<>>
  /\ r.kind \in Awaited /\ r.pc \in {"remember", "unvalue", "persist"} =>
       \E m \in ToSet(r.todo) : r.todo = <<m>> /\ m.ok /\ m.seq = r.seq /\ m.type = r.kind

Routed == {r \in Workers : Route(r)}

\* The results that handlers look for, and all results there are.
Found  == outbox \cup ToSet(resq) \cup ToSet(pending)
Flight == Found \cup UNION {ToSet(w[h].todo) : h \in H}

\* What sequence numbers tell apart, in one run of the process and the next.
Ids ==
  /\ \A h \in H : w[h].seq \in 0..seq
  /\ \A g, h \in H : g # h /\ {w[g].kind, w[h].kind} \subseteq Awaited => w[g].seq # w[h].seq
  /\ \A m \in ToSet(cmdq) \cup Flight : m.life \in 1..life /\ (m.life = life => m.seq <= seq)
  /\ \A i, j \in 1..Len(cmdq) :
       i # j /\ cmdq[i].life = cmdq[j].life => cmdq[i].seq # cmdq[j].seq
  /\ \A c \in ToSet(cmdq), m \in Flight : m.life = c.life => m.seq # c.seq
  /\ \A m, n \in Flight : m.life = n.life /\ m.seq = n.seq =>
       m.type = n.type /\ (m.type \in Awaited => m.ok = n.ok)

\* The inductive invariant.
RInv ==
  /\ IInv
  /\ w \in [H -> Routed]
  /\ Len(pending) <= PendingCap
  /\ life >= 1
  /\ Ids

\* Room for every result: nothing is dropped from pending_results_.
HasRoom == Len(pending) + Len(resq) <= PendingCap

-----------------------------------------------------------------------------
(* Sequences as sets                                                       *)

\* What is in a sequence has its type.
LEMMA InSeq ==
  ASSUME NEW S, NEW s \in Seq(S)
  PROVE  /\ ToSet(s) \subseteq S
         /\ \A i \in 1..Len(s) : s[i] \in ToSet(s)
         /\ \A x \in ToSet(s) : \E i \in 1..Len(s) : x = s[i]
BY DEF ToSet

\* The indices of a sequence.
LEMMA SetOfSeq ==
  ASSUME NEW S, NEW s \in Seq(S)
  PROVE  ToSet(s) = {s[i] : i \in 1..Len(s)}
BY DEF ToSet

\* The length of two queues.
LEMMA LenConcat ==
  ASSUME NEW S, NEW s \in Seq(S), NEW t \in Seq(S)
  PROVE  s \o t \in Seq(S) /\ Len(s \o t) = Len(s) + Len(t)
OBVIOUS

\* The empty sequence, and one of one element.
LEMMA SmallSets == ToSet(<<>>) = {} /\ \A x : ToSet(<<x>>) = {x}
BY DEF ToSet

\* A push.
LEMMA AppendSet ==
  ASSUME NEW S, NEW s \in Seq(S), NEW e \in S
  PROVE  ToSet(Append(s, e)) = ToSet(s) \cup {e}
<1>1. Append(s, e) \in Seq(S) /\ Len(Append(s, e)) = Len(s) + 1 /\ Len(s) \in Nat
    OBVIOUS
<1>2. \A i \in 1..Len(s) : Append(s, e)[i] = s[i]
    OBVIOUS
<1>3. Append(s, e)[Len(s) + 1] = e
    OBVIOUS
<1>4. \A i \in 1..(Len(s) + 1) : i \in 1..Len(s) \/ i = Len(s) + 1
    BY <1>1
<1>5. DOMAIN Append(s, e) = 1..(Len(s) + 1) /\ DOMAIN s = 1..Len(s)
    BY <1>1
<1>6. ToSet(Append(s, e)) \subseteq ToSet(s) \cup {e}
    BY <1>2, <1>3, <1>4, <1>5 DEF ToSet
<1>7. ToSet(s) \subseteq ToSet(Append(s, e))
  <2>1. 1..Len(s) \subseteq 1..(Len(s) + 1)
      BY <1>1
  <2>2. QED
      BY <1>2, <1>5, <2>1 DEF ToSet
<1>8. e \in ToSet(Append(s, e))
  <2>1. Len(s) + 1 \in 1..(Len(s) + 1)
      BY <1>1
  <2>2. QED
      BY <1>3, <1>5, <2>1 DEF ToSet
<1>9. QED
    BY <1>6, <1>7, <1>8

\* A pop.
LEMMA TailSet ==
  ASSUME NEW S, NEW s \in Seq(S), s # <<>>
  PROVE  ToSet(s) = ToSet(Tail(s)) \cup {Head(s)}
<1>1. Tail(s) \in Seq(S) /\ Len(s) \in Nat \ {0} /\ Len(Tail(s)) = Len(s) - 1
    OBVIOUS
<1>2. \A i \in 1..(Len(s) - 1) : Tail(s)[i] = s[i + 1]
    OBVIOUS
<1>3. Head(s) = s[1]
    OBVIOUS
<1>4. DOMAIN s = 1..Len(s) /\ DOMAIN Tail(s) = 1..(Len(s) - 1)
    BY <1>1
<1>5. ToSet(Tail(s)) \subseteq ToSet(s)
  <2>1. \A i \in 1..(Len(s) - 1) : i + 1 \in 1..Len(s)
      BY <1>1
  <2>2. QED
      BY <1>2, <1>4, <2>1 DEF ToSet
<1>6. Head(s) \in ToSet(s)
    BY <1>1, <1>3, <1>4 DEF ToSet
<1>7. ToSet(s) \subseteq ToSet(Tail(s)) \cup {Head(s)}
  <2>1. ASSUME NEW i \in 1..Len(s) PROVE s[i] \in ToSet(Tail(s)) \cup {Head(s)}
    <3>1. CASE i = 1
        BY <1>3, <3>1
    <3>2. CASE i # 1
      <4>1. i - 1 \in 1..(Len(s) - 1) /\ (i - 1) + 1 = i
          BY <1>1, <3>2
      <4>2. Tail(s)[i - 1] = s[i]
          BY <1>2, <4>1
      <4>3. QED
          BY <1>4, <4>1, <4>2 DEF ToSet
    <3>3. QED
        BY <3>1, <3>2
  <2>2. QED
      BY <1>4, <2>1 DEF ToSet
<1>8. QED
    BY <1>5, <1>6, <1>7

\* One queue after another.
LEMMA ConcatSet ==
  ASSUME NEW S, NEW s \in Seq(S), NEW t \in Seq(S)
  PROVE  ToSet(s \o t) = ToSet(s) \cup ToSet(t)
<1>1. s \o t \in Seq(S) /\ Len(s \o t) = Len(s) + Len(t) /\ Len(s) \in Nat /\ Len(t) \in Nat
    OBVIOUS
<1>2. \A i \in 1..(Len(s) + Len(t)) : (s \o t)[i] = IF i <= Len(s) THEN s[i] ELSE t[i - Len(s)]
    OBVIOUS
<1>3. DOMAIN (s \o t) = 1..(Len(s) + Len(t)) /\ DOMAIN s = 1..Len(s) /\ DOMAIN t = 1..Len(t)
    BY <1>1
<1>4. ToSet(s \o t) \subseteq ToSet(s) \cup ToSet(t)
  <2>1. ASSUME NEW i \in 1..(Len(s) + Len(t)) PROVE (s \o t)[i] \in ToSet(s) \cup ToSet(t)
    <3>1. CASE i <= Len(s)
        BY <1>1, <1>2, <1>3, <3>1 DEF ToSet
    <3>2. CASE ~(i <= Len(s))
      <4>1. i - Len(s) \in 1..Len(t)
          BY <1>1, <3>2
      <4>2. QED
          BY <1>2, <1>3, <3>2, <4>1 DEF ToSet
    <3>3. QED
        BY <3>1, <3>2
  <2>2. QED
      BY <1>3, <2>1 DEF ToSet
<1>5. ToSet(s) \subseteq ToSet(s \o t)
  <2>1. \A i \in 1..Len(s) : i \in 1..(Len(s) + Len(t)) /\ i <= Len(s)
      BY <1>1
  <2>2. QED
      BY <1>2, <1>3, <2>1 DEF ToSet
<1>6. ToSet(t) \subseteq ToSet(s \o t)
  <2>1. ASSUME NEW i \in 1..Len(t) PROVE t[i] \in ToSet(s \o t)
    <3>1. /\ Len(s) + i \in 1..(Len(s) + Len(t)) /\ ~(Len(s) + i <= Len(s))
          /\ (Len(s) + i) - Len(s) = i
        BY <1>1
    <3>2. (s \o t)[Len(s) + i] = t[i]
        BY <1>2, <3>1
    <3>3. QED
        BY <1>3, <3>1, <3>2 DEF ToSet
  <2>2. QED
      BY <1>3, <2>1 DEF ToSet
<1>7. QED
    BY <1>4, <1>5, <1>6

\* An erase takes away one element.
LEMMA RemoveAtSet ==
  ASSUME NEW S, NEW s \in Seq(S), NEW i \in 1..Len(s)
  PROVE  /\ ToSet(RemoveAt(s, i)) \subseteq ToSet(s)
         /\ \A x \in ToSet(s) : x = s[i] \/ x \in ToSet(RemoveAt(s, i))
         /\ Len(RemoveAt(s, i)) = Len(s) - 1
<1> DEFINE a == SubSeq(s, 1, i - 1)
           b == SubSeq(s, i + 1, Len(s))
<1>1. RemoveAt(s, i) = a \o b
    BY DEF RemoveAt
<1>2. Len(s) \in Nat /\ i \in Nat /\ 1 <= i /\ i <= Len(s)
    OBVIOUS
<1>3. a \in Seq(S) /\ Len(a) = i - 1 /\ \A j \in 1..(i - 1) : a[j] = s[j]
    BY <1>2
<1>4. b \in Seq(S) /\ Len(b) = Len(s) - i /\ \A j \in 1..(Len(s) - i) : b[j] = s[i + j]
    BY <1>2
<1> HIDE DEF a, b
<1>5. ToSet(RemoveAt(s, i)) = ToSet(a) \cup ToSet(b)
    BY <1>1, <1>3, <1>4, ConcatSet
<1>6. ToSet(a) = {s[j] : j \in 1..(i - 1)} /\ ToSet(b) = {s[i + j] : j \in 1..(Len(s) - i)}
  <2>1. ToSet(a) = {a[j] : j \in 1..(i - 1)}
      BY <1>3, SetOfSeq
  <2>2. ToSet(b) = {b[j] : j \in 1..(Len(s) - i)}
      BY <1>4, SetOfSeq
  <2>3. ToSet(a) = {s[j] : j \in 1..(i - 1)}
      BY <1>3, <2>1
  <2>4. ToSet(b) = {s[i + j] : j \in 1..(Len(s) - i)}
      BY <1>4, <2>2
  <2>5. QED
      BY <2>3, <2>4
<1>7. ToSet(s) = {s[j] : j \in 1..Len(s)}
    BY DEF ToSet
<1>8. ToSet(a) \subseteq ToSet(s)
  <2>1. 1..(i - 1) \subseteq 1..Len(s)
      BY <1>2
  <2>2. QED
      BY <1>6, <1>7, <2>1
<1>9. ToSet(b) \subseteq ToSet(s)
  <2>1. \A j \in 1..(Len(s) - i) : i + j \in 1..Len(s)
      BY <1>2
  <2>2. QED
      BY <1>6, <1>7, <2>1
<1>10. ASSUME NEW j \in 1..Len(s), s[j] # s[i] PROVE s[j] \in ToSet(a) \cup ToSet(b)
  <2>1. CASE j < i
    <3>1. j \in 1..(i - 1)
        BY <1>2, <2>1
    <3>2. QED
        BY <1>6, <3>1
  <2>2. CASE i < j
    <3>1. j - i \in 1..(Len(s) - i) /\ i + (j - i) = j
        BY <1>2, <2>2
    <3>2. QED
        BY <1>6, <3>1
  <2>3. QED
      BY <1>2, <1>10, <2>1, <2>2
<1>11. Len(RemoveAt(s, i)) = Len(s) - 1
  <2>1. Len(a \o b) = Len(a) + Len(b)
      BY <1>3, <1>4, LenConcat
  <2>2. QED
      BY <1>1, <1>2, <1>3, <1>4, <2>1
<1>12. QED
    BY <1>5, <1>7, <1>8, <1>9, <1>10, <1>11

\* push_back and pop_front: nothing is dropped while there is room.
LEMMA KeepSet ==
  ASSUME NEW S, NEW s \in Seq(S), NEW e \in S
  PROVE  /\ ToSet(Keep(s, e)) \subseteq ToSet(s) \cup {e}
         /\ Len(s) < PendingCap => ToSet(Keep(s, e)) = ToSet(s) \cup {e}
         /\ Len(s) <= PendingCap => Len(Keep(s, e)) <= PendingCap
         /\ Len(s) = PendingCap => Len(Keep(s, e)) = PendingCap
<1> DEFINE all == Append(s, e)
<1>1. all \in Seq(S) /\ Len(all) = Len(s) + 1 /\ Len(s) \in Nat /\ all # <<>>
    OBVIOUS
<1>2. ToSet(all) = ToSet(s) \cup {e}
    BY AppendSet
<1>3. Keep(s, e) = IF Len(all) > PendingCap THEN Tail(all) ELSE all
    BY DEF Keep
<1> HIDE DEF all
<1>4. ToSet(all) = ToSet(Tail(all)) \cup {Head(all)} /\ Len(Tail(all)) = Len(all) - 1
    BY <1>1, TailSet
<1>5. PendingCap \in Nat
    BY BridgeAssumption
<1>6. ToSet(Keep(s, e)) \subseteq ToSet(s) \cup {e}
    BY <1>2, <1>3, <1>4
<1>7. Len(s) < PendingCap => ToSet(Keep(s, e)) = ToSet(s) \cup {e}
    BY <1>1, <1>2, <1>3, <1>5
<1>8. Len(s) <= PendingCap => Len(Keep(s, e)) <= PendingCap
    BY <1>1, <1>3, <1>4, <1>5
<1>9. Len(s) = PendingCap => Len(Keep(s, e)) = PendingCap
    BY <1>1, <1>3, <1>4, <1>5
<1>10. QED
    BY <1>6, <1>7, <1>8, <1>9

\* The list that the drain leaves.
LEMMA LastOfSet ==
  ASSUME NEW S, NEW s \in Seq(S), NEW n \in Nat
  PROVE  /\ ToSet(LastOf(s, n)) \subseteq ToSet(s)
         /\ Len(LastOf(s, n)) <= n
         /\ Len(s) <= n => LastOf(s, n) = s
         /\ Len(s) > n => Len(LastOf(s, n)) = n
<1>1. CASE Len(s) <= n
    BY <1>1 DEF LastOf
<1>2. CASE Len(s) > n
  <2> DEFINE a == SubSeq(s, Len(s) - n + 1, Len(s))
  <2>1. Len(s) \in Nat /\ Len(s) - n + 1 \in 1..(Len(s) + 1)
      BY <1>2
  <2>2. a \in Seq(S) /\ Len(a) = n /\ \A j \in 1..n : a[j] = s[Len(s) - n + j]
      BY <2>1
  <2>3. LastOf(s, n) = a
      BY <1>2 DEF LastOf
  <2> HIDE DEF a
  <2>4. \A j \in 1..n : Len(s) - n + j \in 1..Len(s)
      BY <1>2, <2>1
  <2>5. ToSet(a) \subseteq ToSet(s)
    <3>1. ToSet(a) = {a[j] : j \in 1..n}
        BY <2>2, SetOfSeq
    <3>2. ToSet(s) = {s[j] : j \in 1..Len(s)}
        BY SetOfSeq
    <3>3. QED
        BY <2>2, <2>4, <3>1, <3>2
  <2>6. QED
      BY <1>2, <2>2, <2>3, <2>5
<1>3. QED
    BY <1>1, <1>2
-----------------------------------------------------------------------------
(* A step of a handler in the middle of its request                        *)

\* How the request of h goes on: nothing that a waiting handler looks for is
\* lost, and a reply says what the engine said.
Replies(h) ==
  \/ /\ w'[h].status = "none"
     /\ w[h].kind \in Awaited /\ HasRoom =>
          /\ Found \subseteq Found' \cup ToSet(w'[h].todo)
          /\ ToSet(w[h].todo) \subseteq ToSet(w'[h].todo)
          /\ Waiting(h)' => Found \subseteq Found'
  \/ w[h].kind \in Awaited /\ w'[h].status = "pending"
  \/ w[h].kind \in Awaited /\ w'[h].status = "unavailable"
       /\ \E m \in Found : Matches(h, m) /\ ~m.ok
  \/ w[h].kind \in Awaited /\ w[h].pc = "persist" /\ w'[h].status = "accepted"
  \/ w[h].kind = "nodes" /\ w'[h].status = "ok"
  \/ w[h].kind \notin Awaited \cup {"nodes"} /\ w'[h].status = "accepted"

\* A step of h takes results out of the queues only for itself.
Moved(h) ==
  /\ w[h].pc \notin {"idle", "done"}
  /\ w' = [w EXCEPT ![h] = w'[h]]
  /\ w'[h] \in Routed
  /\ w'[h].kind = w[h].kind /\ w'[h].seq = w[h].seq
  /\ ToSet(w'[h].todo) \subseteq ToSet(w[h].todo) \cup Found
  /\ Found' \subseteq Found
  /\ HasRoom => \A m \in Found \ Found' : Matches(h, m)
  /\ Len(pending') <= PendingCap
  /\ UNCHANGED <<life, seq, cmdq>>
  /\ Replies(h)

\* A record that a handler works on.
LEMMA RoutedFields ==
  ASSUME RInv, NEW h \in H
  PROVE  w[h] \in Routed /\ w[h] \in Workers /\ w[h] \in Handlers /\ Route(w[h])
BY DEF RInv, Routed, Workers

\* The queues have their types.
LEMMA RInvQueues ==
  ASSUME RInv
  PROVE  /\ IInv /\ cmdq \in Seq(Commands) /\ resq \in Seq(Results) /\ pending \in Seq(Results)
         /\ life \in Nat /\ life >= 1 /\ seq \in Nat /\ outbox \subseteq Results
         /\ Len(pending) <= PendingCap /\ PendingCap \in Nat
BY BridgeAssumption DEF RInv, IInv, QueuesOK, EngineTypeOK

\* The step writes the record of h.
LEMMA Written ==
  ASSUME RInv, NEW h \in H, NEW u, Goto(h, u)
  PROVE  w'[h] = u /\ w' = [w EXCEPT ![h] = w'[h]]
BY DEF RInv, Goto

\* A handler moves on without touching the queues.
LEMMA Onward ==
  ASSUME RInv, NEW h \in H, NEW u \in Workers, Route(u), Goto(h, u),
         w[h].pc \notin {"idle", "done"}, u.kind = w[h].kind, u.seq = w[h].seq,
         \/ u.todo = w[h].todo /\ u.status = "none"
         \/ /\ u.todo = <<>>
            /\ \/ w[h].kind \in Awaited /\ u.status = "pending"
               \/ w[h].kind \in Awaited /\ w[h].pc = "persist" /\ u.status = "accepted"
               \/ w[h].kind = "nodes" /\ u.status = "ok"
               \/ w[h].kind \notin Awaited \cup {"nodes"} /\ u.status = "accepted",
         UNCHANGED <<life, seq, cmdq, resq, pending, outbox>>
  PROVE  Moved(h)
<1>1. w'[h] = u /\ w' = [w EXCEPT ![h] = w'[h]] /\ u \in Routed
    BY Written DEF Routed
<1>2. Found' = Found /\ Len(pending') <= PendingCap
    BY RInvQueues DEF Found
<1>3. ToSet(u.todo) \subseteq ToSet(w[h].todo) \cup Found
    BY SmallSets
<1>4. Replies(h)
    BY <1>1, <1>2 DEF Replies
<1>5. QED
    BY <1>1, <1>2, <1>3, <1>4 DEF Moved

\* The fields of the records that the steps write.
LEMMA Updates ==
  ASSUME NEW r \in Handlers
  PROVE  /\ \A pc : LET u == [r EXCEPT !.pc = pc]
                    IN  /\ u.pc = pc /\ u.kind = r.kind /\ u.seq = r.seq /\ u.todo = r.todo
                        /\ u.status = r.status /\ u.then = r.then
         /\ \A status : LET u == Answer(r, status)
                        IN  /\ u.pc = "done" /\ u.kind = r.kind /\ u.seq = r.seq
                            /\ u.todo = <<>> /\ u.status = status /\ u.then = r.then
BY DEF Handlers, Answer

\* A handler that goes on to pc.
LEMMA GoesTo ==
  ASSUME RInv, IInv', NEW h \in H, NEW pc, Goto(h, [w[h] EXCEPT !.pc = pc]),
         Route([w[h] EXCEPT !.pc = pc]),
         w[h].pc \notin {"idle", "done"},
         UNCHANGED <<life, seq, cmdq, resq, pending, outbox>>
  PROVE  Moved(h)
<1> DEFINE u == [w[h] EXCEPT !.pc = pc]
<1>1. u.kind = w[h].kind /\ u.seq = w[h].seq /\ u.todo = w[h].todo /\ u.status = w[h].status
    BY RoutedFields, Updates
<1>2. w[h].status = "none"
    BY RoutedFields DEF Route
<1> HIDE DEF u
<1>3. Route(u) /\ Goto(h, u)
    BY DEF u
<1>4. u \in Workers
    BY <1>3, Written DEF IInv
<1>5. QED
    BY <1>1, <1>2, <1>3, <1>4, Onward

\* A handler that has its answer.
LEMMA GetsAnswer ==
  ASSUME RInv, NEW h \in H, NEW status, Goto(h, Answer(w[h], status)),
         w[h].pc \notin {"idle", "done"},
         \/ w[h].kind \in Awaited /\ status = "pending"
         \/ w[h].kind \in Awaited /\ w[h].pc = "persist" /\ status = "accepted"
         \/ w[h].kind \notin Awaited \cup {"nodes"} /\ status = "accepted",
         UNCHANGED <<life, seq, cmdq, resq, pending, outbox>>
  PROVE  Moved(h)
<1> DEFINE u == Answer(w[h], status)
<1>1. /\ u.pc = "done" /\ u.kind = w[h].kind /\ u.seq = w[h].seq /\ u.todo = <<>>
      /\ u.status = status /\ u.then = w[h].then
    BY RoutedFields, Updates
<1>2. u \in Workers
    BY RoutedFields, AnswerType
<1> HIDE DEF u
<1>3. Route(u)
    BY <1>1, RoutedFields DEF Route
<1>4. Goto(h, u)
    BY DEF u
<1>5. QED
    BY <1>1, <1>2, <1>3, <1>4, Onward

\* The steps of a wait, and those that follow it, that find nothing or need nothing.
LEMMA WaitMoves ==
  ASSUME RInv, IInv', NEW h \in H,
         \/ LockResults(h) \/ WaitMissPending(h) \/ WaitSleep(h) \/ WaitTimeout(h)
         \/ RememberResult(h) \/ ForgetValues(h) \/ NoteCommand(h) \/ Persist(h)
  PROVE  Moved(h)
<1>1. w[h] \in Handlers /\ Route(w[h])
    BY RoutedFields
<1>2. \A pc : LET u == [w[h] EXCEPT !.pc = pc]
              IN  /\ u.pc = pc /\ u.kind = w[h].kind /\ u.seq = w[h].seq
                  /\ u.todo = w[h].todo /\ u.status = w[h].status /\ u.then = w[h].then
    BY <1>1, Updates
<1>3. CASE LockResults(h)
  <2>1. Goto(h, [w[h] EXCEPT !.pc = "top"]) /\ w[h].pc = "lock"
      BY <1>3 DEF LockResults
  <2>2. Route([w[h] EXCEPT !.pc = "top"])
      BY <1>1, <1>2, <2>1 DEF Route
  <2>3. QED
      BY <1>3, <2>1, <2>2, GoesTo DEF LockResults, engineVars
<1>4. CASE WaitMissPending(h)
  <2>1. Goto(h, [w[h] EXCEPT !.pc = "pop"]) /\ w[h].pc = "top"
      BY <1>4 DEF WaitMissPending
  <2>2. Route([w[h] EXCEPT !.pc = "pop"])
      BY <1>1, <1>2, <2>1 DEF Route
  <2>3. QED
      BY <1>4, <2>1, <2>2, GoesTo DEF WaitMissPending, engineVars
<1>5. CASE WaitSleep(h)
  <2>1. Goto(h, [w[h] EXCEPT !.pc = "top"]) /\ w[h].pc = "pop"
      BY <1>5 DEF WaitSleep
  <2>2. Route([w[h] EXCEPT !.pc = "top"])
      BY <1>1, <1>2, <2>1 DEF Route
  <2>3. QED
      BY <1>5, <2>1, <2>2, GoesTo DEF WaitSleep, engineVars
<1>6. CASE WaitTimeout(h)
  <2>1. Goto(h, Answer(w[h], "pending")) /\ w[h].pc = "top" /\ w[h].kind \in Awaited
      BY <1>1, <1>6 DEF WaitTimeout, Route
  <2>2. QED
      BY <1>6, <2>1, GetsAnswer DEF WaitTimeout, engineVars
<1>7. CASE RememberResult(h)
  <2>1. PICK pc \in {"persist", "unvalue"} : Goto(h, [w[h] EXCEPT !.pc = pc])
      BY <1>7 DEF RememberResult
  <2>2. w[h].pc = "remember"
      BY <1>7 DEF RememberResult
  <2>3. Route([w[h] EXCEPT !.pc = pc])
      BY <1>1, <1>2, <2>2 DEF Route, Awaited
  <2>4. QED
      BY <1>7, <2>1, <2>2, <2>3, GoesTo DEF RememberResult, engineVars
<1>8. CASE ForgetValues(h)
  <2>1. Goto(h, [w[h] EXCEPT !.pc = "persist"]) /\ w[h].pc = "unvalue"
      BY <1>8 DEF ForgetValues
  <2>2. Route([w[h] EXCEPT !.pc = "persist"])
      BY <1>1, <1>2, <2>1 DEF Route, Awaited
  <2>3. QED
      BY <1>8, <2>1, <2>2, GoesTo DEF ForgetValues, engineVars
<1>9. CASE NoteCommand(h)
  <2>1. w[h].pc = "note" /\ w[h].kind \in Noted
      BY <1>1, <1>9 DEF NoteCommand, Route
  <2>2. CASE Goto(h, Answer(w[h], "accepted"))
      BY <1>9, <2>1, <2>2, GetsAnswer DEF NoteCommand, engineVars, Noted, Awaited
  <2>3. CASE w[h].kind = "update" /\ Goto(h, [w[h] EXCEPT !.pc = "persist"])
    <3>1. Route([w[h] EXCEPT !.pc = "persist"])
        BY <1>1, <1>2, <2>1, <2>3 DEF Route, Awaited
    <3>2. QED
        BY <1>9, <2>1, <2>3, <3>1, GoesTo DEF NoteCommand, engineVars
  <2>4. QED
      BY <1>9, <2>2, <2>3 DEF NoteCommand
<1>10. CASE Persist(h)
  <2>1. w[h].pc = "persist" /\ w[h].then \in {"done", "snap", "report"}
      BY <1>1, <1>10 DEF Persist, Handlers
  <2>2. CASE w[h].then = "done"
    <3>1. Goto(h, Answer(w[h], "accepted"))
        BY <1>10, <2>2 DEF Persist
    <3>2. w[h].kind # "nodes"
        BY <1>1, <2>1, <2>2 DEF Route
    <3>3. QED
        BY <1>10, <2>1, <3>1, <3>2, GetsAnswer DEF Persist, engineVars
  <2>3. CASE w[h].then # "done"
    <3>1. Goto(h, [w[h] EXCEPT !.pc = w[h].then])
        BY <1>10, <2>3 DEF Persist
    <3>2. w[h].kind = "nodes"
        BY <1>1, <2>3 DEF Route
    <3>3. Route([w[h] EXCEPT !.pc = w[h].then])
        BY <1>1, <1>2, <2>1, <2>3, <3>2 DEF Route, Awaited
    <3>4. QED
        BY <1>10, <2>1, <3>1, <3>3, GoesTo DEF Persist, engineVars
  <2>4. QED
      BY <2>2, <2>3
<1>11. QED
    BY <1>3, <1>4, <1>5, <1>6, <1>7, <1>8, <1>9, <1>10

\* The steps of GET /runtime/nodes that leave the queues alone.
LEMMA PollMoves ==
  ASSUME RInv, IInv', NEW h \in H,
         \/ ClearMirror(h) \/ PollDone(h) \/ PollTimeout(h) \/ PollLock(h)
         \/ MergeMissPending(h) \/ MergeSleep(h) \/ Report(h) \/ ApplyDrained(h)
  PROVE  Moved(h)
<1>1. w[h] \in Handlers /\ Route(w[h])
    BY RoutedFields
<1>2. \A pc : LET u == [w[h] EXCEPT !.pc = pc]
              IN  /\ u.pc = pc /\ u.kind = w[h].kind /\ u.seq = w[h].seq
                  /\ u.todo = w[h].todo /\ u.status = w[h].status /\ u.then = w[h].then
    BY <1>1, Updates
<1>3. CASE ClearMirror(h)
  <2> DEFINE u == [w[h] EXCEPT !.pc = "poll", !.then = "report"]
  <2>1. Goto(h, u) /\ w[h].pc = "clear"
      BY <1>3 DEF ClearMirror
  <2>2. /\ u.pc = "poll" /\ u.kind = w[h].kind /\ u.seq = w[h].seq
        /\ u.todo = w[h].todo /\ u.status = w[h].status /\ u.then = "report"
      BY <1>1 DEF Handlers
  <2> HIDE DEF u
  <2>3. w[h].status = "none" /\ w[h].kind = "nodes" /\ Route(u)
      BY <1>1, <2>1, <2>2 DEF Route, Awaited
  <2>4. u \in Workers
      BY <2>1, Written DEF IInv
  <2>5. UNCHANGED <<life, seq, cmdq, resq, pending, outbox>>
      BY <1>3 DEF ClearMirror, engineVars
  <2>6. QED
      BY <2>1, <2>2, <2>3, <2>4, <2>5, Onward
<1>4. CASE PollDone(h) \/ PollTimeout(h)
  <2>1. PollEnd(h) /\ w[h].pc = "poll"
      BY <1>4 DEF PollDone, PollTimeout
  <2>2. PICK pc \in {"persist", "report"} : Goto(h, [w[h] EXCEPT !.pc = pc])
      BY <2>1 DEF PollEnd
  <2>3. Route([w[h] EXCEPT !.pc = pc])
      BY <1>1, <1>2, <2>1 DEF Route, Awaited
  <2>4. QED
      BY <2>1, <2>2, <2>3, GoesTo DEF PollEnd, engineVars
<1>5. CASE PollLock(h)
  <2>1. Goto(h, [w[h] EXCEPT !.pc = "merge"]) /\ w[h].pc = "poll"
      BY <1>5 DEF PollLock
  <2>2. Route([w[h] EXCEPT !.pc = "merge"])
      BY <1>1, <1>2, <2>1 DEF Route, Awaited
  <2>3. QED
      BY <1>5, <2>1, <2>2, GoesTo DEF PollLock, engineVars
<1>6. CASE MergeMissPending(h)
  <2>1. Goto(h, [w[h] EXCEPT !.pc = "mergepop"]) /\ w[h].pc = "merge"
      BY <1>6 DEF MergeMissPending
  <2>2. Route([w[h] EXCEPT !.pc = "mergepop"])
      BY <1>1, <1>2, <2>1 DEF Route, Awaited
  <2>3. QED
      BY <1>6, <2>1, <2>2, GoesTo DEF MergeMissPending, engineVars
<1>7. CASE MergeSleep(h)
  <2>1. Goto(h, [w[h] EXCEPT !.pc = "poll"]) /\ w[h].pc = "mergepop"
      BY <1>7 DEF MergeSleep
  <2>2. Route([w[h] EXCEPT !.pc = "poll"])
      BY <1>1, <1>2, <2>1 DEF Route, Awaited
  <2>3. QED
      BY <1>7, <2>1, <2>2, GoesTo DEF MergeSleep, engineVars
<1>8. CASE Report(h)
  <2> DEFINE u == [Answer(w[h], "ok") EXCEPT !.nodes = DOMAIN nodes]
  <2>1. Goto(h, u) /\ w[h].pc = "report"
      BY <1>8 DEF Report
  <2>2. /\ u.pc = "done" /\ u.kind = w[h].kind /\ u.seq = w[h].seq
        /\ u.todo = <<>> /\ u.status = "ok" /\ u.then = w[h].then
      BY <1>1 DEF Handlers, Answer
  <2> HIDE DEF u
  <2>3. w[h].kind = "nodes" /\ Route(u)
      BY <1>1, <2>1, <2>2 DEF Route, Awaited
  <2>4. u \in Workers
      BY <2>1, Written DEF IInv
  <2>5. UNCHANGED <<life, seq, cmdq, resq, pending, outbox>>
      BY <1>8 DEF Report, engineVars
  <2>6. QED
      BY <2>1, <2>2, <2>3, <2>4, <2>5, Onward
<1>9. CASE ApplyDrained(h)
  <2> DEFINE rest == Tail(w[h].todo)
             changed == Applies(Head(w[h].todo)) \/ w[h].changed
             u == [w[h] EXCEPT !.todo = rest, !.changed = changed, !.then = "snap",
                               !.pc = IF rest # <<>> THEN "apply"
                                      ELSE IF changed THEN "persist" ELSE "snap"]
  <2>1. Goto(h, u) /\ w[h].pc = "apply"
      BY <1>9 DEF ApplyDrained
  <2>2. /\ u.pc \in {"apply", "persist", "snap"} /\ u.kind = w[h].kind /\ u.seq = w[h].seq
        /\ u.todo = rest /\ u.status = w[h].status /\ u.then = "snap"
      BY <1>1 DEF Handlers
  <2> HIDE DEF u
  <2>3. w[h].status = "none" /\ w[h].kind = "nodes" /\ Route(u)
      BY <1>1, <2>1, <2>2 DEF Route, Awaited
  <2>4. ToSet(u.todo) \subseteq ToSet(w[h].todo)
    <3>1. w[h].todo \in Seq(Results) /\ w[h].todo # <<>>
        BY <1>1, <2>1, RoutedFields DEF Handlers, Workers, Shape
    <3>2. QED
        BY <2>2, <3>1, TailSet
  <2>5. UNCHANGED <<life, seq, cmdq, resq, pending, outbox>>
      BY <1>9 DEF ApplyDrained, engineVars
  <2>6. w'[h] = u /\ w' = [w EXCEPT ![h] = w'[h]] /\ u \in Routed
      BY <2>1, <2>3, Written DEF IInv, Routed
  <2>7. Found' = Found /\ Len(pending') <= PendingCap
      BY <2>5, RInvQueues DEF Found
  <2>8. Replies(h)
      BY <2>2, <2>3, <2>6 DEF Replies, Awaited
  <2>9. QED
      BY <2>1, <2>2, <2>4, <2>5, <2>6, <2>7, <2>8 DEF Moved
<1>10. QED
    BY <1>3, <1>4, <1>5, <1>6, <1>7, <1>8, <1>9
-----------------------------------------------------------------------------
(* The steps that take results                                             *)

\* wait_for_result returns m, which leaves the queues.
LEMMA TakeMoves ==
  ASSUME RInv, IInv', NEW h \in H, NEW m \in Found, Matches(h, m), TakeResult(h, m),
         w[h].pc \in {"top", "pop"}, UNCHANGED <<life, seq, cmdq>>,
         Found' \subseteq Found, \A x \in Found : x = m \/ x \in Found',
         Len(pending') <= PendingCap
  PROVE  Moved(h)
<1> DEFINE t == [w[h] EXCEPT !.pc = "remember", !.todo = <<m>>]
           u == IF m.ok THEN t ELSE Answer(w[h], "unavailable")
<1>1. w[h] \in Handlers /\ Route(w[h])
    BY RoutedFields
<1>2. Goto(h, u)
    BY DEF TakeResult
<1>3. /\ t.pc = "remember" /\ t.kind = w[h].kind /\ t.seq = w[h].seq /\ t.todo = <<m>>
      /\ t.status = w[h].status /\ t.then = w[h].then
    BY <1>1 DEF Handlers
<1>4. /\ Answer(w[h], "unavailable").pc = "done" /\ Answer(w[h], "unavailable").todo = <<>>
      /\ Answer(w[h], "unavailable").kind = w[h].kind /\ Answer(w[h], "unavailable").seq = w[h].seq
      /\ Answer(w[h], "unavailable").status = "unavailable"
      /\ Answer(w[h], "unavailable").then = w[h].then
    BY <1>1, Updates
<1>5. w[h].kind \in Awaited /\ w[h].status = "none" /\ w[h].todo = <<>>
    BY <1>1 DEF Route
<1>6. m.seq = w[h].seq /\ m.type = w[h].kind
    BY DEF Matches
<1> HIDE DEF t
<1>7. w'[h] = u /\ w' = [w EXCEPT ![h] = w'[h]] /\ u \in Workers
    BY <1>2, Written DEF IInv
<1> HIDE DEF u
<1>8. CASE m.ok
  <2>1. u = t
      BY <1>8 DEF u
  <2>2. Route(t)
    <3>1. m \in ToSet(t.todo)
        BY <1>3, SmallSets
    <3>2. QED
        BY <1>1, <1>3, <1>5, <1>6, <1>8, <3>1 DEF Route, Awaited
  <2>3. ToSet(w'[h].todo) = {m} /\ w'[h].pc = "remember"
      BY <1>3, <1>7, <2>1, SmallSets
  <2>4. Replies(h)
    <3>1. w'[h].status = "none"
        BY <1>3, <1>5, <1>7, <2>1
    <3>2. Found \subseteq Found' \cup ToSet(w'[h].todo)
        BY <2>3
    <3>3. ToSet(w[h].todo) \subseteq ToSet(w'[h].todo)
        BY <1>5, SmallSets
    <3>4. ~Waiting(h)'
        BY <2>3 DEF Waiting
    <3>5. QED
        BY <3>1, <3>2, <3>3, <3>4 DEF Replies
  <2>5. QED
      BY <1>3, <1>7, <2>1, <2>2, <2>3, <2>4 DEF Moved, Routed
<1>9. CASE ~m.ok
  <2>1. u = Answer(w[h], "unavailable")
      BY <1>9 DEF u
  <2>2. Route(u)
      BY <1>1, <1>4, <1>5, <2>1 DEF Route, Awaited
  <2>3. ToSet(w'[h].todo) = {}
      BY <1>4, <1>7, <2>1, SmallSets
  <2>4. Replies(h)
      BY <1>4, <1>5, <1>7, <1>9, <2>1 DEF Replies
  <2>5. QED
      BY <1>4, <1>7, <2>1, <2>2, <2>3, <2>4 DEF Moved, Routed
<1>10. QED
    BY <1>8, <1>9

\* A result that was kept in pending_results_.
LEMMA WaitTakePendingMoves ==
  ASSUME RInv, IInv', NEW h \in H, WaitTakePending(h)
  PROVE  Moved(h)
<1>1. PICK i \in 1..Len(pending) :
             FirstMatch(h, i) /\ TakeResult(h, pending[i]) /\ pending' = RemoveAt(pending, i)
    BY DEF WaitTakePending
<1>2. pending \in Seq(Results) /\ Len(pending) <= PendingCap /\ PendingCap \in Nat
    BY RInvQueues
<1>3. /\ ToSet(pending') \subseteq ToSet(pending)
      /\ \A x \in ToSet(pending) : x = pending[i] \/ x \in ToSet(pending')
      /\ Len(pending') = Len(pending) - 1
    BY <1>1, <1>2, RemoveAtSet
<1>4. pending[i] \in ToSet(pending) /\ Matches(h, pending[i])
    BY <1>1, <1>2, InSeq DEF FirstMatch
<1>5. UNCHANGED <<outbox, resq, life, seq, cmdq>> /\ w[h].pc = "top"
    BY DEF WaitTakePending, engineVars
<1>6. /\ pending[i] \in Found /\ Found' \subseteq Found
      /\ \A x \in Found : x = pending[i] \/ x \in Found'
    BY <1>3, <1>4, <1>5 DEF Found
<1>7. Len(pending') <= PendingCap
    BY <1>2, <1>3
<1>8. QED
    BY <1>1, <1>4, <1>5, <1>6, <1>7, TakeMoves

\* What a pop of the result queue does to the results that are looked for.
LEMMA PopKeeps ==
  ASSUME RInv, resq # <<>>, resq' = Tail(resq), pending' = Keep(pending, Head(resq)),
         UNCHANGED outbox
  PROVE  Found' \subseteq Found /\ Len(pending') <= PendingCap /\ (HasRoom => Found \subseteq Found')
<1>1. /\ resq \in Seq(Results) /\ pending \in Seq(Results)
      /\ Len(pending) <= PendingCap /\ PendingCap \in Nat
    BY RInvQueues
<1>2. Head(resq) \in Results /\ ToSet(resq) = ToSet(Tail(resq)) \cup {Head(resq)}
    BY <1>1, HeadTailType, TailSet
<1>3. /\ ToSet(pending') \subseteq ToSet(pending) \cup {Head(resq)}
      /\ Len(pending) < PendingCap => ToSet(pending') = ToSet(pending) \cup {Head(resq)}
      /\ Len(pending') <= PendingCap
    BY <1>1, <1>2, KeepSet
<1>4. HasRoom => Len(pending) < PendingCap
  <2>1. Len(resq) \in Nat \ {0} /\ Len(pending) \in Nat
      BY <1>1
  <2>2. QED
      BY <1>1, <2>1 DEF HasRoom
<1>5. QED
    BY <1>2, <1>3, <1>4 DEF Found

\* A result is popped: it is this handler's, or it is kept for another one.
LEMMA WaitPopMoves ==
  ASSUME RInv, IInv', NEW h \in H, WaitPop(h)
  PROVE  Moved(h)
<1>1. /\ resq \in Seq(Results) /\ pending \in Seq(Results)
      /\ Len(pending) <= PendingCap /\ PendingCap \in Nat
    BY RInvQueues
<1>2. /\ w[h].pc = "pop" /\ resq # <<>> /\ resq' = Tail(resq)
      /\ UNCHANGED <<outbox, life, seq, cmdq>>
    BY DEF WaitPop, engineVars
<1>3. CASE Matches(h, Head(resq)) /\ TakeResult(h, Head(resq)) /\ UNCHANGED pending
  <2>1. ToSet(resq) = ToSet(resq') \cup {Head(resq)}
      BY <1>1, <1>2, TailSet
  <2>2. /\ Head(resq) \in Found /\ Found' \subseteq Found
        /\ \A x \in Found : x = Head(resq) \/ x \in Found'
      BY <1>2, <1>3, <2>1 DEF Found
  <2>3. QED
      BY <1>1, <1>2, <1>3, <2>2, TakeMoves
<1>4. CASE /\ ~Matches(h, Head(resq)) /\ pending' = Keep(pending, Head(resq))
           /\ UNCHANGED <<w, resultLock>>
  <2>1. /\ Found' \subseteq Found /\ Len(pending') <= PendingCap
        /\ HasRoom => Found \subseteq Found'
      BY <1>2, <1>4, PopKeeps
  <2>2. w'[h] = w[h] /\ w' = [w EXCEPT ![h] = w'[h]] /\ w[h] \in Routed /\ Route(w[h])
      BY <1>4, RoutedFields DEF RInv
  <2>3. Replies(h)
      BY <1>2, <2>1, <2>2 DEF Replies, Route
  <2>4. QED
      BY <1>2, <2>1, <2>2, <2>3 DEF Moved
<1>5. QED
    BY <1>3, <1>4 DEF WaitPop

\* The drain of the result queue into pending_results_.
LEMMA DrainMoves ==
  ASSUME RInv, IInv', NEW h \in H, DrainResults(h)
  PROVE  Moved(h)
<1> DEFINE all == pending \o resq
           u == [w[h] EXCEPT !.todo = all, !.pc = IF all = <<>> THEN "snap" ELSE "apply"]
<1>1. /\ resq \in Seq(Results) /\ pending \in Seq(Results)
      /\ PendingCap \in Nat /\ w[h] \in Handlers /\ Route(w[h])
    BY RInvQueues, RoutedFields
<1>2. all \in Seq(Results) /\ Len(all) = Len(pending) + Len(resq)
    BY <1>1, LenConcat
<1>3. ToSet(all) = ToSet(pending) \cup ToSet(resq)
    BY <1>1, ConcatSet
<1>4. /\ Goto(h, u) /\ w[h].pc = "drain" /\ pending' = LastOf(all, PendingCap) /\ resq' = <<>>
      /\ UNCHANGED <<outbox, life, seq, cmdq>>
    BY DEF DrainResults, engineVars
<1>5. /\ u.pc \in {"snap", "apply"} /\ u.kind = w[h].kind /\ u.seq = w[h].seq
      /\ u.todo = all /\ u.status = w[h].status /\ u.then = w[h].then
    BY <1>1 DEF Handlers
<1> HIDE DEF all, u
<1>6. /\ ToSet(pending') \subseteq ToSet(all) /\ Len(pending') <= PendingCap
      /\ Len(all) <= PendingCap => pending' = all
    BY <1>1, <1>2, <1>4, LastOfSet
<1>7. ToSet(resq') = {}
    BY <1>4, SmallSets
<1>8. Found' \subseteq Found /\ (HasRoom => Found \subseteq Found')
    BY <1>2, <1>3, <1>4, <1>6, <1>7 DEF Found, HasRoom
<1>9. w[h].kind = "nodes" /\ w[h].status = "none"
    BY <1>1, <1>4 DEF Route
<1>10. Route(u)
    BY <1>1, <1>4, <1>5, <1>9 DEF Route, Awaited
<1>11. w'[h] = u /\ w' = [w EXCEPT ![h] = w'[h]] /\ u \in Workers
    BY <1>4, Written DEF IInv
<1>12. ToSet(w'[h].todo) \subseteq Found
    BY <1>3, <1>5, <1>11 DEF Found
<1>13. Replies(h)
    BY <1>5, <1>9, <1>11 DEF Replies, Awaited
<1>14. QED
    BY <1>4, <1>5, <1>6, <1>8, <1>10, <1>11, <1>12, <1>13 DEF Moved, Routed

\* A result of the snapshot is merged.
LEMMA MergeMoves ==
  ASSUME RInv, IInv', NEW h \in H, NEW m, Matches(h, m), MergeSnapshotResult(h, m),
         w[h].pc \in {"merge", "mergepop"}, UNCHANGED <<life, seq, cmdq>>,
         Found' \subseteq Found, \A x \in Found : x = m \/ x \in Found',
         Len(pending') <= PendingCap
  PROVE  Moved(h)
<1> DEFINE u == [w[h] EXCEPT
                   !.completed = IsMarker(m) \/ @,
                   !.changed = m.node # NoId \/ (m.code # NoId /\ m.conn[1] # NoId) \/ @]
<1>1. w[h] \in Handlers /\ Route(w[h])
    BY RoutedFields
<1>2. Goto(h, u)
    BY DEF MergeSnapshotResult
<1>3. /\ u.pc = w[h].pc /\ u.kind = w[h].kind /\ u.seq = w[h].seq
      /\ u.todo = w[h].todo /\ u.status = w[h].status /\ u.then = w[h].then
    BY <1>1 DEF Handlers
<1> HIDE DEF u
<1>4. w[h].kind = "nodes" /\ w[h].status = "none"
    BY <1>1 DEF Route
<1>5. Route(u)
    BY <1>1, <1>3, <1>4 DEF Route, Awaited
<1>6. w'[h] = u /\ w' = [w EXCEPT ![h] = w'[h]] /\ u \in Workers
    BY <1>2, Written DEF IInv
<1>7. Replies(h)
    BY <1>3, <1>4, <1>6 DEF Replies, Awaited
<1>8. QED
    BY <1>3, <1>5, <1>6, <1>7 DEF Moved, Routed

\* The steps of the polling loop that take results.
LEMMA MergingMoves ==
  ASSUME RInv, IInv', NEW h \in H, MergePending(h) \/ MergePop(h)
  PROVE  Moved(h)
<1>1. /\ resq \in Seq(Results) /\ pending \in Seq(Results)
      /\ Len(pending) <= PendingCap /\ PendingCap \in Nat
    BY RInvQueues
<1>2. CASE MergePending(h)
  <2>1. PICK i \in 1..Len(pending) : /\ FirstMatch(h, i) /\ MergeSnapshotResult(h, pending[i])
                                     /\ pending' = RemoveAt(pending, i)
      BY <1>2 DEF MergePending
  <2>2. /\ ToSet(pending') \subseteq ToSet(pending)
        /\ \A x \in ToSet(pending) : x = pending[i] \/ x \in ToSet(pending')
        /\ Len(pending') = Len(pending) - 1
      BY <1>1, <2>1, RemoveAtSet
  <2>3. UNCHANGED <<outbox, resq, life, seq, cmdq>> /\ w[h].pc = "merge"
      BY <1>2 DEF MergePending, engineVars
  <2>4. Found' \subseteq Found /\ \A x \in Found : x = pending[i] \/ x \in Found'
      BY <2>2, <2>3 DEF Found
  <2>5. Matches(h, pending[i]) /\ Len(pending') <= PendingCap
      BY <1>1, <2>1, <2>2 DEF FirstMatch
  <2>6. QED
      BY <2>1, <2>3, <2>4, <2>5, MergeMoves
<1>3. CASE MergePop(h)
  <2>1. /\ w[h].pc = "mergepop" /\ resq # <<>> /\ resq' = Tail(resq)
        /\ UNCHANGED <<outbox, life, seq, cmdq>>
      BY <1>3 DEF MergePop, engineVars
  <2>2. CASE /\ Matches(h, Head(resq)) /\ MergeSnapshotResult(h, Head(resq))
             /\ UNCHANGED pending
    <3>1. ToSet(resq) = ToSet(resq') \cup {Head(resq)}
        BY <1>1, <2>1, TailSet
    <3>2. Found' \subseteq Found /\ \A x \in Found : x = Head(resq) \/ x \in Found'
        BY <2>1, <2>2, <3>1 DEF Found
    <3>3. QED
        BY <1>1, <2>1, <2>2, <3>2, MergeMoves
  <2>3. CASE /\ ~Matches(h, Head(resq)) /\ pending' = Keep(pending, Head(resq))
             /\ UNCHANGED <<mirrorVars, w>>
    <3>1. /\ Found' \subseteq Found /\ Len(pending') <= PendingCap
          /\ HasRoom => Found \subseteq Found'
        BY <2>1, <2>3, PopKeeps
    <3>2. w'[h] = w[h] /\ w' = [w EXCEPT ![h] = w'[h]] /\ w[h] \in Routed /\ Route(w[h])
        BY <2>3, RoutedFields DEF RInv
    <3>3. Replies(h)
        BY <2>1, <3>1, <3>2 DEF Replies, Route, Awaited
    <3>4. QED
        BY <2>1, <3>1, <3>2, <3>3 DEF Moved
  <2>4. QED
      BY <1>3, <2>2, <2>3 DEF MergePop
<1>4. QED
    BY <1>2, <1>3

\* Every step in the middle of a request.
LEMMA StepMoves ==
  ASSUME RInv, IInv', NEW h \in H, Step(h) \/ Timeout(h)
  PROVE  Moved(h) \/ PushSnapshotRequest(h) \/ Return(h)
<1>1. CASE \/ LockResults(h) \/ WaitMissPending(h) \/ WaitSleep(h) \/ WaitTimeout(h)
           \/ RememberResult(h) \/ ForgetValues(h) \/ NoteCommand(h) \/ Persist(h)
    BY <1>1, WaitMoves
<1>2. CASE \/ ClearMirror(h) \/ PollDone(h) \/ PollTimeout(h) \/ PollLock(h)
           \/ MergeMissPending(h) \/ MergeSleep(h) \/ Report(h) \/ ApplyDrained(h)
    BY <1>2, PollMoves
<1>3. CASE WaitTakePending(h) \/ WaitPop(h) \/ DrainResults(h) \/ MergePending(h) \/ MergePop(h)
    BY <1>3, WaitTakePendingMoves, WaitPopMoves, DrainMoves, MergingMoves
<1>4. QED
    BY <1>1, <1>2, <1>3 DEF Step, Timeout
-----------------------------------------------------------------------------
(* The other steps                                                         *)

\* What a command route leaves behind when it has tried to push.
Sent(h, kind) ==
  /\ w[h] = IdleWorker
  /\ w' = [w EXCEPT ![h] = w'[h]] /\ w'[h] \in Routed
  /\ w'[h].kind = kind /\ w'[h].seq = seq + 1 /\ w'[h].todo = <<>>
  /\ seq' = seq + 1 /\ UNCHANGED <<life, pending, resq, outbox>>
  /\ \/ /\ w'[h].status = (IF kind \in Awaited \cup Noted THEN "none" ELSE "accepted")
        /\ \E arg \in Args(kind) : cmdq' = Append(cmdq, Command(kind, arg))
     \/ w'[h].status = "unavailable" /\ cmdq' = cmdq

LEMMA SendMoves ==
  ASSUME RInv, IInv', NEW h \in H, NEW kind \in AllKinds \ {"nodes", "value"},
         NEW arg \in Args(kind), SendCommand(h, kind, arg)
  PROVE  Sent(h, kind)
<1> DEFINE r == [w[h] EXCEPT !.kind = kind, !.arg = arg, !.seq = seq + 1]
           u == IF kind \in Awaited THEN [r EXCEPT !.pc = "lock"]
                ELSE IF kind \in Noted THEN [r EXCEPT !.pc = "note"]
                ELSE Answer(r, "accepted")
           v == Answer(r, "unavailable")
<1>1. w[h] = IdleWorker
    BY RoutedFields DEF SendCommand, Workers, Shape
<1>2. /\ seq' = seq + 1 /\ UNCHANGED <<life, pending, resq, outbox>>
      /\ \/ cmdq' = Append(cmdq, Command(kind, arg)) /\ Goto(h, u)
         \/ cmdq' = cmdq /\ Goto(h, v)
    BY DEF SendCommand, engineVars
<1>3. /\ r.pc = "idle" /\ r.kind = kind /\ r.seq = seq + 1 /\ r.todo = <<>>
      /\ r.status = "none" /\ r.then = "done"
    BY <1>1 DEF IdleWorker
<1>4. /\ u.kind = kind /\ u.seq = seq + 1 /\ u.todo = <<>> /\ u.then = "done"
      /\ v.pc = "done" /\ v.kind = kind /\ v.seq = seq + 1 /\ v.todo = <<>>
      /\ v.status = "unavailable" /\ v.then = "done"
    BY <1>1, <1>3 DEF IdleWorker, Answer
<1>5. /\ u.pc = (IF kind \in Awaited THEN "lock" ELSE IF kind \in Noted THEN "note" ELSE "done")
      /\ u.status = (IF kind \in Awaited \cup Noted THEN "none" ELSE "accepted")
    BY <1>1, <1>3 DEF IdleWorker, Answer
<1> HIDE DEF r, u, v
<1>6. kind # "none"
    BY DEF AllKinds
<1>7. Route(u) /\ Route(v)
    BY <1>4, <1>5, <1>6 DEF Route, Awaited, Noted
<1>8. CASE cmdq' = Append(cmdq, Command(kind, arg)) /\ Goto(h, u)
  <2>1. w'[h] = u /\ w' = [w EXCEPT ![h] = w'[h]] /\ u \in Workers
      BY <1>8, Written DEF IInv
  <2>2. QED
      BY <1>1, <1>2, <1>4, <1>5, <1>7, <1>8, <2>1 DEF Sent, Routed
<1>9. CASE cmdq' = cmdq /\ Goto(h, v)
  <2>1. w'[h] = v /\ w' = [w EXCEPT ![h] = w'[h]] /\ v \in Workers
      BY <1>9, Written DEF IInv
  <2>2. QED
      BY <1>1, <1>2, <1>4, <1>7, <1>9, <2>1 DEF Sent, Routed
<1>10. QED
    BY <1>2, <1>8, <1>9

\* The push of a snapshot request.
SentSnapshot(h) ==
  /\ w[h].kind = "nodes" /\ w[h].status = "none"
  /\ w' = [w EXCEPT ![h] = w'[h]] /\ w'[h] \in Routed
  /\ w'[h].kind = "nodes" /\ w'[h].status = "none" /\ w'[h].todo = w[h].todo
  /\ w'[h].seq = seq + 1 /\ seq' = seq + 1
  /\ UNCHANGED <<life, pending, resq, outbox>>
  /\ cmdq' = cmdq \/ \E arg \in Args("nodes") : cmdq' = Append(cmdq, Command("nodes", arg))

LEMMA SnapshotMoves ==
  ASSUME RInv, IInv', NEW h \in H, PushSnapshotRequest(h)
  PROVE  SentSnapshot(h)
<1> DEFINE r == [w[h] EXCEPT !.seq = seq + 1, !.changed = FALSE]
           u == [r EXCEPT !.pc = "clear"]
           v == [r EXCEPT !.pc = "report"]
<1>1. w[h] \in Handlers /\ Route(w[h]) /\ w[h].pc = "snap"
    BY RoutedFields DEF PushSnapshotRequest
<1>2. w[h].kind = "nodes" /\ w[h].status = "none"
    BY <1>1 DEF Route
<1>3. /\ u.pc = "clear" /\ u.kind = "nodes" /\ u.seq = seq + 1 /\ u.todo = w[h].todo
      /\ u.status = "none" /\ u.then = w[h].then
      /\ v.pc = "report" /\ v.kind = "nodes" /\ v.seq = seq + 1 /\ v.todo = w[h].todo
      /\ v.status = "none" /\ v.then = w[h].then
    BY <1>1, <1>2 DEF Handlers
<1>4. Goto(h, u) \/ Goto(h, v)
    BY DEF PushSnapshotRequest
<1>5. /\ seq' = seq + 1 /\ UNCHANGED <<life, pending, resq, outbox>>
      /\ cmdq' = cmdq \/ cmdq' = Append(cmdq, Command("nodes", <<>>))
    BY DEF PushSnapshotRequest, engineVars
<1> HIDE DEF r, u, v
<1>6. Route(u) /\ Route(v)
    BY <1>3 DEF Route, Awaited
<1>7. /\ w' = [w EXCEPT ![h] = w'[h]] /\ w'[h] \in Routed /\ w'[h].kind = "nodes"
      /\ w'[h].status = "none" /\ w'[h].todo = w[h].todo /\ w'[h].seq = seq + 1
  <2>1. CASE Goto(h, u)
      BY <1>3, <1>6, <2>1, Written DEF IInv, Routed
  <2>2. CASE Goto(h, v)
      BY <1>3, <1>6, <2>2, Written DEF IInv, Routed
  <2>3. QED
      BY <1>4, <2>1, <2>2
<1>8. <<>> \in Args("nodes")
    BY DEF Args
<1>9. QED
    BY <1>2, <1>5, <1>7, <1>8 DEF SentSnapshot

\* A GET starts with the drain, a reply ends with an idle worker.
LEMMA EdgeMoves ==
  ASSUME RInv, IInv', NEW h \in H, RequestNodes(h) \/ Return(h)
  PROVE  /\ w' = [w EXCEPT ![h] = w'[h]] /\ w'[h] \in Routed /\ w'[h].seq \in {0, w[h].seq}
         /\ w'[h].todo \in {<<>>, w[h].todo}
         /\ \/ w[h] = IdleWorker /\ w'[h].kind = "nodes" /\ w'[h].status = "none"
            \/ w[h].pc = "done" /\ w'[h] = IdleWorker
         /\ UNCHANGED <<life, seq, cmdq, resq, pending, outbox>>
<1>1. CASE RequestNodes(h)
  <2> DEFINE u == [w[h] EXCEPT !.pc = "drain", !.kind = "nodes"]
  <2>1. w[h] = IdleWorker /\ Goto(h, u)
      BY <1>1, RoutedFields DEF RequestNodes, Workers, Shape
  <2>2. /\ u.pc = "drain" /\ u.kind = "nodes" /\ u.status = "none" /\ u.todo = <<>>
        /\ u.seq = w[h].seq /\ u.then = "done"
      BY <2>1 DEF IdleWorker
  <2> HIDE DEF u
  <2>3. Route(u)
      BY <2>2 DEF Route, Awaited
  <2>4. w'[h] = u /\ w' = [w EXCEPT ![h] = w'[h]] /\ u \in Workers
      BY <2>1, Written DEF IInv
  <2>5. UNCHANGED <<life, seq, cmdq, resq, pending, outbox>>
      BY <1>1 DEF RequestNodes, engineVars
  <2>6. QED
      BY <2>1, <2>2, <2>3, <2>4, <2>5 DEF Routed
<1>2. CASE Return(h)
  <2>1. w[h].pc = "done" /\ Goto(h, IdleWorker)
      BY <1>2 DEF Return
  <2>2. IdleWorker.seq = 0 /\ IdleWorker.todo = <<>> /\ Route(IdleWorker)
      BY DEF IdleWorker, Route, Awaited
  <2>3. w'[h] = IdleWorker /\ w' = [w EXCEPT ![h] = w'[h]]
      BY <2>1, Written
  <2>4. UNCHANGED <<life, seq, cmdq, resq, pending, outbox>>
      BY <1>2 DEF Return, engineVars
  <2>5. QED
      BY <2>1, <2>2, <2>3, <2>4, IdleType DEF Routed
<1>3. QED
    BY <1>1, <1>2

\* A result carries the number of its command.
LEMMA ResultIds ==
  ASSUME NEW c, NEW ok, NEW node, NEW name, NEW code, NEW wire
  PROVE  LET r == Result(c, ok, node, name, code, wire)
         IN  r.life = c.life /\ r.seq = c.seq /\ r.type = c.type /\ r.ok = ok
BY DEF Result

\* The engine answers the command it takes, with one result if it is waited for.
LEMMA EngineAnswers ==
  ASSUME NEW c, \/ EngineLoad(c) \/ EngineAdd(c) \/ EngineRemove(c) \/ EngineChange(c)
                \/ EngineSnapshot(c) \/ EngineRefuse(c)
  PROVE  /\ outbox' # {}
         /\ \A m \in outbox' : m.life = c.life /\ m.seq = c.seq /\ m.type = c.type
         /\ \A m, n \in outbox' : c.type \in Awaited => m.ok = n.ok
<1>1. CASE EngineSnapshot(c)
  <2>1. outbox' = Snapshot(c) /\ c.type \notin Awaited
      BY <1>1 DEF EngineSnapshot, Awaited
  <2>2. Result(c, TRUE, NoId, 0, NoId, NoWire) \in Snapshot(c)
      BY DEF Snapshot
  <2>3. ASSUME NEW m \in Snapshot(c)
        PROVE  m.life = c.life /\ m.seq = c.seq /\ m.type = c.type
    <3>1. PICK ok, node, name, code, wire : m = Result(c, ok, node, name, code, wire)
        BY DEF Snapshot
    <3>2. QED
        BY <3>1, ResultIds
  <2>4. QED
      BY <2>1, <2>2, <2>3
<1>2. ASSUME NEW ok, NEW node, NEW name, NEW code, NEW wire,
             outbox' = {Result(c, ok, node, name, code, wire)}
      PROVE  /\ outbox' # {}
             /\ \A m \in outbox' : m.life = c.life /\ m.seq = c.seq /\ m.type = c.type
             /\ \A m, n \in outbox' : c.type \in Awaited => m.ok = n.ok
  <2> DEFINE r == Result(c, ok, node, name, code, wire)
  <2>1. r.life = c.life /\ r.seq = c.seq /\ r.type = c.type
      BY ResultIds
  <2>2. outbox' = {r}
      BY <1>2
  <2> HIDE DEF r
  <2>3. QED
      BY <2>1, <2>2
<1>3. CASE EngineLoad(c)
  <2>1. outbox' = {Result(c, TRUE, NoId, c.arg[1], 0, NoWire)}
      BY <1>3 DEF EngineLoad
  <2>2. QED
      BY <1>2, <2>1
<1>4. CASE EngineAdd(c)
  <2>1. PICK n \in NodeIds : outbox' = {Result(c, TRUE, n, c.arg[1], 0, NoWire)}
      BY <1>4 DEF EngineAdd
  <2>2. QED
      BY <1>2, <2>1
<1>5. CASE EngineRemove(c)
  <2>1. outbox' = {Result(c, TRUE, c.arg[1], 0, 0, NoWire)}
      BY <1>5 DEF EngineRemove
  <2>2. QED
      BY <1>2, <2>1
<1>6. CASE EngineChange(c)
  <2>1. outbox' = {Result(c, TRUE, NoId, 0, 0, NoWire)}
      BY <1>6 DEF EngineChange, Ack
  <2>2. QED
      BY <1>2, <2>1
<1>7. CASE EngineRefuse(c)
  <2>1. outbox' = {Result(c, FALSE, NoId, 0, 0, NoWire)}
      BY <1>7 DEF EngineRefuse
  <2>2. QED
      BY <1>2, <2>1
<1>8. QED
    BY <1>1, <1>3, <1>4, <1>5, <1>6, <1>7
-----------------------------------------------------------------------------
(* Sequence numbers                                                        *)

\* Every result of a handler's list or of a queue is one that was there before.
Fewer == Flight' \subseteq Flight

\* A step of one handler that puts nothing into the queues.
LEMMA FewerResults ==
  ASSUME RInv, NEW h \in H, w' = [w EXCEPT ![h] = w'[h]], Found' \subseteq Found,
         ToSet(w'[h].todo) \subseteq ToSet(w[h].todo) \cup Found
  PROVE  Fewer
<1>1. \A g \in H : g # h => w'[g] = w[g]
    BY DEF RInv
<1>2. \A g \in H : ToSet(w'[g].todo) \subseteq Flight
    BY <1>1 DEF Flight
<1>3. Found' \subseteq Flight
    BY DEF Flight
<1>4. QED
    BY <1>2, <1>3 DEF Fewer, Flight

\* Nothing is sent and nothing is answered.
LEMMA IdsShrink ==
  ASSUME RInv, Fewer, UNCHANGED <<life, seq, cmdq>>,
         \A h \in H : /\ w'[h].seq \in {0, w[h].seq}
                      /\ w'[h].kind \in Awaited => w'[h].kind = w[h].kind /\ w'[h].seq = w[h].seq
  PROVE  Ids'
<1>1. /\ Ids /\ seq \in Nat
    BY RInvQueues DEF RInv
<1>2. \A h \in H : w'[h].seq \in 0..seq'
    BY <1>1 DEF Ids
<1>3. \A g, h \in H : g # h /\ {w'[g].kind, w'[h].kind} \subseteq Awaited => w'[g].seq # w'[h].seq
    BY <1>1 DEF Ids
<1>4. \A m \in ToSet(cmdq)' \cup Flight' : m.life \in 1..life' /\ (m.life = life' => m.seq <= seq')
    BY <1>1 DEF Ids, Fewer
<1>5. \A c \in ToSet(cmdq)', m \in Flight' : m.life = c.life => m.seq # c.seq
    BY <1>1 DEF Ids, Fewer
<1>6. \A m, n \in Flight' : m.life = n.life /\ m.seq = n.seq =>
        m.type = n.type /\ (m.type \in Awaited => m.ok = n.ok)
    BY <1>1 DEF Ids, Fewer
<1>7. \A i, j \in 1..Len(cmdq') :
        i # j /\ cmdq'[i].life = cmdq'[j].life => cmdq'[i].seq # cmdq'[j].seq
    BY <1>1 DEF Ids
<1>8. QED
    BY <1>2, <1>3, <1>4, <1>5, <1>6, <1>7 DEF Ids

\* A command takes the next number, whether it is pushed or not.
LEMMA IdsSend ==
  ASSUME RInv, Fewer, NEW h \in H, seq' = seq + 1, life' = life,
         w' = [w EXCEPT ![h] = w'[h]], w'[h].seq = seq + 1,
         \/ cmdq' = cmdq
         \/ \E kind \in AllKinds : \E arg \in Args(kind) : cmdq' = Append(cmdq, Command(kind, arg))
  PROVE  Ids'
<1>1. Ids /\ seq \in Nat /\ life \in Nat /\ cmdq \in Seq(Commands)
    BY RInvQueues DEF RInv
<1>2. \A g \in H : g # h => w'[g] = w[g]
    BY DEF RInv
<1>3. \A g \in H : w'[g].seq \in 0..seq'
    BY <1>1, <1>2 DEF Ids
<1>4. \A g \in H : g # h => w'[g].seq # w'[h].seq
    BY <1>1, <1>2 DEF Ids
<1>5. \A g, k \in H : g # k /\ {w'[g].kind, w'[k].kind} \subseteq Awaited => w'[g].seq # w'[k].seq
    BY <1>1, <1>2, <1>4 DEF Ids
<1>6. \A m \in Flight' : m.life \in 1..life /\ (m.life = life => m.seq <= seq)
    BY <1>1 DEF Ids, Fewer
<1>7. \A m, n \in Flight' : m.life = n.life /\ m.seq = n.seq =>
        m.type = n.type /\ (m.type \in Awaited => m.ok = n.ok)
    BY <1>1 DEF Ids, Fewer
<1>8. \A m \in ToSet(cmdq) : m \in Commands /\ m.life \in 1..life /\ (m.life = life => m.seq <= seq)
    BY <1>1, InSeq DEF Ids
<1>9. \A m \in Commands : m.seq \in Nat
    BY DEF Commands
<1>10. \A m \in Flight' : m \in Results /\ m.seq \in Nat
  <2>1. outbox \subseteq Results /\ ToSet(resq) \subseteq Results /\ ToSet(pending) \subseteq Results
      BY RInvQueues, InSeq
  <2>2. \A g \in H : ToSet(w[g].todo) \subseteq Results
      BY RoutedFields, InSeq DEF Handlers
  <2>3. Flight \subseteq Results
      BY <2>1, <2>2 DEF Flight, Found
  <2>4. QED
      BY <2>3 DEF Fewer, Results
<1>11. ASSUME cmdq' = cmdq PROVE Ids'
  <2>1. \A m \in ToSet(cmdq)' \cup Flight' : m.life \in 1..life' /\ (m.life = life' => m.seq <= seq')
    <3>1. \A m \in ToSet(cmdq) \cup Flight' :
            m.seq \in Nat /\ m.life \in 1..life /\ (m.life = life => m.seq <= seq)
        BY <1>6, <1>8, <1>9, <1>10
    <3>2. QED
        BY <1>1, <1>11, <3>1
  <2>2. \A c \in ToSet(cmdq)', m \in Flight' : m.life = c.life => m.seq # c.seq
      BY <1>1, <1>11 DEF Ids, Fewer
  <2>3. \A i, j \in 1..Len(cmdq') :
          i # j /\ cmdq'[i].life = cmdq'[j].life => cmdq'[i].seq # cmdq'[j].seq
      BY <1>1, <1>11 DEF Ids
  <2>4. QED
      BY <1>3, <1>5, <1>7, <2>1, <2>2, <2>3 DEF Ids
<1>12. ASSUME NEW kind \in AllKinds, NEW arg \in Args(kind),
              cmdq' = Append(cmdq, Command(kind, arg))
       PROVE  Ids'
  <2> DEFINE c == Command(kind, arg)
  <2>1. c.life = life /\ c.seq = seq + 1
      BY DEF Command
  <2>2. c \in Commands
      BY <1>1, CommandType
  <2> HIDE DEF c
  <2>3. cmdq' = Append(cmdq, c)
      BY <1>12 DEF c
  <2>4. ToSet(cmdq') = ToSet(cmdq) \cup {c}
      BY <1>1, <2>2, <2>3, AppendSet
  <2>5. ToSet(cmdq)' = ToSet(cmdq')
      OBVIOUS
  <2>6. \A m \in ToSet(cmdq)' \cup Flight' : m.life \in 1..life' /\ (m.life = life' => m.seq <= seq')
    <3>1. life \in 1..life
        BY <1>1, RInvQueues
    <3>2. \A m \in ToSet(cmdq) \cup Flight' :
            m.seq \in Nat /\ m.life \in 1..life /\ (m.life = life => m.seq <= seq)
        BY <1>6, <1>8, <1>9, <1>10
    <3>3. QED
        BY <1>1, <2>1, <2>4, <2>5, <3>1, <3>2
  <2>7. \A k \in ToSet(cmdq)', m \in Flight' : m.life = k.life => m.seq # k.seq
    <3>1. \A m \in Flight' : m.life = life => m.seq # seq + 1
        BY <1>1, <1>6, <1>10
    <3>2. \A k \in ToSet(cmdq), m \in Flight' : m.life = k.life => m.seq # k.seq
        BY <1>1 DEF Ids, Fewer
    <3>3. QED
        BY <2>1, <2>4, <2>5, <3>1, <3>2
  <2>8. ASSUME NEW i \in 1..Len(cmdq'), NEW j \in 1..Len(cmdq'),
               i # j, cmdq'[i].life = cmdq'[j].life
        PROVE  cmdq'[i].seq # cmdq'[j].seq
    <3>1. Len(cmdq') = Len(cmdq) + 1 /\ Len(cmdq) \in Nat
        BY <1>1, <2>2, <2>3
    <3>2. \A n \in 1..Len(cmdq) : cmdq'[n] = cmdq[n] /\ cmdq[n] \in ToSet(cmdq)
        BY <1>1, <2>2, <2>3, InSeq
    <3>3. cmdq'[Len(cmdq) + 1] = c
        BY <1>1, <2>2, <2>3
    <3>4. \A n \in 1..Len(cmdq) : cmdq[n].life = life => cmdq[n].seq # seq + 1
        BY <1>1, <1>8, <1>9, <3>2
    <3>5. \A n \in 1..Len(cmdq') : n \in 1..Len(cmdq) \/ n = Len(cmdq) + 1
        BY <3>1
    <3>6. CASE i \in 1..Len(cmdq) /\ j \in 1..Len(cmdq)
        BY <1>1, <2>8, <3>2, <3>6 DEF Ids
    <3>7. CASE i = Len(cmdq) + 1 /\ j \in 1..Len(cmdq)
        BY <2>1, <2>8, <3>2, <3>3, <3>4, <3>7
    <3>8. CASE j = Len(cmdq) + 1 /\ i \in 1..Len(cmdq)
        BY <2>1, <2>8, <3>2, <3>3, <3>4, <3>8
    <3>9. QED
        BY <2>8, <3>5, <3>6, <3>7, <3>8
  <2>9. QED
      BY <1>3, <1>5, <1>7, <2>6, <2>7, <2>8 DEF Ids
<1>13. QED
    BY <1>11, <1>12

\* A new process starts again, and no number of an earlier one is one of its own.
LEMMA IdsNewLife ==
  ASSUME RInv, NEW image, NewLife(image)
  PROVE  Ids'
<1>1. Ids /\ life \in Nat
    BY RInvQueues DEF RInv
<1>2. /\ life' = life + 1 /\ seq' = 0 /\ w' = [h \in H |-> IdleWorker]
      /\ pending' = <<>> /\ cmdq' = cmdq /\ resq' = resq /\ outbox' = outbox
    BY DEF NewLife, engineVars
<1>3. IdleWorker.seq = 0 /\ IdleWorker.kind = "none" /\ IdleWorker.todo = <<>>
    BY DEF IdleWorker
<1>4. ToSet(pending)' = {} /\ \A h \in H : ToSet(w'[h].todo) = {}
    BY <1>2, <1>3, SmallSets
<1>5. Fewer
    BY <1>2, <1>4 DEF Fewer, Flight, Found
<1>6. \A h \in H : w'[h].seq \in 0..seq'
    BY <1>2, <1>3
<1>7. \A h \in H : w'[h].kind \notin Awaited
    BY <1>2, <1>3 DEF Awaited
<1>8. \A m \in ToSet(cmdq)' \cup Flight' : m.life \in 1..life' /\ (m.life = life' => m.seq <= seq')
  <2>1. \A m \in ToSet(cmdq) \cup Flight : m.life \in 1..life
      BY <1>1 DEF Ids
  <2>2. QED
      BY <1>1, <1>2, <1>5, <2>1 DEF Fewer
<1>9. \A c \in ToSet(cmdq)', m \in Flight' : m.life = c.life => m.seq # c.seq
    BY <1>1, <1>2, <1>5 DEF Ids, Fewer
<1>10. \A m, n \in Flight' : m.life = n.life /\ m.seq = n.seq =>
         m.type = n.type /\ (m.type \in Awaited => m.ok = n.ok)
    BY <1>1, <1>5 DEF Ids, Fewer
<1>11. \A i, j \in 1..Len(cmdq') :
         i # j /\ cmdq'[i].life = cmdq'[j].life => cmdq'[i].seq # cmdq'[j].seq
    BY <1>1, <1>2 DEF Ids
<1>12. QED
    BY <1>6, <1>7, <1>8, <1>9, <1>10, <1>11 DEF Ids

\* The engine answers a command, whose number no result has yet.
LEMMA IdsTake ==
  ASSUME RInv, EngineTake
  PROVE  /\ Ids'
         /\ Found \subseteq Found'
         /\ \A m \in Found' \ Found : m \in outbox'
<1> DEFINE c == Head(cmdq)
<1>1. Ids /\ cmdq \in Seq(Commands)
    BY RInvQueues DEF RInv
<1>2. /\ cmdq # <<>> /\ cmdq' = Tail(cmdq) /\ outbox = {}
      /\ UNCHANGED <<w, life, seq, resq, pending>>
    BY DEF EngineTake
<1>3. /\ \A m \in outbox' : m.life = c.life /\ m.seq = c.seq /\ m.type = c.type
      /\ \A m, n \in outbox' : c.type \in Awaited => m.ok = n.ok
  <2>1. \/ EngineLoad(c) \/ EngineAdd(c) \/ EngineRemove(c) \/ EngineChange(c)
        \/ EngineSnapshot(c) \/ EngineRefuse(c)
      BY DEF EngineTake
  <2>2. QED
      BY <2>1, EngineAnswers
<1>4. ToSet(cmdq) = ToSet(Tail(cmdq)) \cup {c} /\ c = cmdq[1]
    BY <1>1, <1>2, TailSet, HeadTailType
<1> HIDE DEF c
<1>5. Found' = Found \cup outbox'
    BY <1>2 DEF Found
<1>6. Flight' = Flight \cup outbox'
    BY <1>2, <1>5 DEF Flight
<1>7. Len(cmdq) \in Nat \ {0} /\ Len(cmdq') = Len(cmdq) - 1
    BY <1>1, <1>2
<1>8. \A i \in 1..(Len(cmdq) - 1) : cmdq'[i] = cmdq[i + 1]
    BY <1>1, <1>2
<1>9. \A k \in ToSet(cmdq') : k.life = c.life => k.seq # c.seq
  <2>1. cmdq' \in Seq(Commands)
      BY <1>1, <1>2, HeadTailType
  <2>2. \A i \in 1..(Len(cmdq) - 1) : cmdq[i + 1].life = c.life => cmdq[i + 1].seq # c.seq
    <3>1. \A i \in 1..(Len(cmdq) - 1) : i + 1 \in 1..Len(cmdq) /\ i + 1 # 1 /\ 1 \in 1..Len(cmdq)
        BY <1>7
    <3>2. QED
        BY <1>1, <1>4, <3>1 DEF Ids
  <2>3. \A k \in ToSet(cmdq') : \E i \in 1..(Len(cmdq) - 1) : k = cmdq[i + 1]
      BY <1>7, <1>8, <2>1, InSeq
  <2>4. QED
      BY <2>2, <2>3
<1>10. \A m \in ToSet(cmdq)' \cup Flight' : m.life \in 1..life' /\ (m.life = life' => m.seq <= seq')
  <2>1. \A m \in ToSet(cmdq) \cup Flight : m.life \in 1..life /\ (m.life = life => m.seq <= seq)
      BY <1>1 DEF Ids
  <2>2. c \in ToSet(cmdq) /\ ToSet(cmdq)' \subseteq ToSet(cmdq)
      BY <1>2, <1>4
  <2>3. \A m \in outbox' : m.life \in 1..life /\ (m.life = life => m.seq <= seq)
      BY <1>3, <2>1, <2>2
  <2>4. QED
      BY <1>2, <1>6, <2>1, <2>2, <2>3
<1>11. \A k \in ToSet(cmdq)', m \in Flight' : m.life = k.life => m.seq # k.seq
  <2>1. ToSet(cmdq)' = ToSet(cmdq') /\ ToSet(cmdq') \subseteq ToSet(cmdq)
      BY <1>2, <1>4
  <2>2. \A k \in ToSet(cmdq), m \in Flight : m.life = k.life => m.seq # k.seq
      BY <1>1 DEF Ids
  <2>3. QED
      BY <1>3, <1>6, <1>9, <2>1, <2>2
<1>12. \A m, n \in Flight' : m.life = n.life /\ m.seq = n.seq =>
         m.type = n.type /\ (m.type \in Awaited => m.ok = n.ok)
  <2>1. \A m \in Flight, n \in outbox' : ~(m.life = n.life /\ m.seq = n.seq)
      BY <1>1, <1>3, <1>4 DEF Ids
  <2>2. \A m, n \in Flight : m.life = n.life /\ m.seq = n.seq =>
          m.type = n.type /\ (m.type \in Awaited => m.ok = n.ok)
      BY <1>1 DEF Ids
  <2>3. QED
      BY <1>3, <1>6, <2>1, <2>2
<1>13. ASSUME NEW i \in 1..Len(cmdq'), NEW j \in 1..Len(cmdq'),
              i # j, cmdq'[i].life = cmdq'[j].life
       PROVE  cmdq'[i].seq # cmdq'[j].seq
  <2>1. /\ cmdq'[i] = cmdq[i + 1] /\ cmdq'[j] = cmdq[j + 1]
        /\ i + 1 \in 1..Len(cmdq) /\ j + 1 \in 1..Len(cmdq) /\ i + 1 # j + 1
      BY <1>7, <1>8, <1>13
  <2>2. QED
      BY <1>1, <1>13, <2>1 DEF Ids
<1>14. /\ \A h \in H : w'[h].seq \in 0..seq'
       /\ \A g, h \in H :
            g # h /\ {w'[g].kind, w'[h].kind} \subseteq Awaited => w'[g].seq # w'[h].seq
    BY <1>1, <1>2 DEF Ids
<1>15. Ids'
    BY <1>10, <1>11, <1>12, <1>13, <1>14 DEF Ids
<1>16. QED
    BY <1>5, <1>15

\* The queues after a push of the engine.
LEMMA PushFacts ==
  ASSUME RInv, EnginePush
  PROVE  Found' = Found /\ UNCHANGED <<w, life, seq, cmdq, pending>>
<1>1. PICK r \in outbox : resq' = Append(resq, r) /\ outbox' = outbox \ {r}
    BY DEF EnginePush
<1>2. resq \in Seq(Results) /\ r \in Results
    BY RInvQueues
<1>3. ToSet(resq') = ToSet(resq) \cup {r}
    BY <1>1, <1>2, AppendSet
<1>4. UNCHANGED <<w, life, seq, cmdq, pending>>
    BY DEF EnginePush
<1>5. QED
    BY <1>1, <1>3, <1>4 DEF Found

\* A step that leaves the handlers alone adds no result to their lists.
LEMMA SameHandlers ==
  ASSUME RInv, IInv', UNCHANGED <<w, life, seq, cmdq, pending>>, Found' = Found
  PROVE  RInv'
<1>1. Fewer
    BY DEF Fewer, Flight
<1>2. Ids'
    BY <1>1, IdsShrink
<1>3. QED
    BY <1>2 DEF RInv

\* A step of one handler.
LEMMA HandlerRInv ==
  ASSUME RInv, IInv', NEW h \in H, w' = [w EXCEPT ![h] = w'[h]], w'[h] \in Routed,
         Len(pending') <= PendingCap, life' = life, Ids'
  PROVE  RInv'
<1>1. w' \in [H -> Routed]
    BY DEF RInv
<1>2. QED
    BY <1>1 DEF RInv

\* Every step keeps the invariant.
LEMMA NextRInv == RInv /\ IInv' /\ [Next]_vars => RInv'
<1> SUFFICES ASSUME RInv, IInv', [Next]_vars PROVE RInv'
    OBVIOUS
<1>1. CASE UNCHANGED vars
  <2>1. UNCHANGED <<w, life, seq, cmdq, pending, resq, outbox>>
      BY <1>1 DEF vars, bridgeVars, engineVars
  <2>2. Found' = Found
      BY <2>1 DEF Found
  <2>3. QED
      BY <2>1, <2>2, SameHandlers
<1>2. ASSUME NEW h \in H, Step(h) \/ Timeout(h) PROVE RInv'
  <2>1. CASE Moved(h)
    <3>1. Fewer
        BY <2>1, FewerResults DEF Moved
    <3>2. \A g \in H : w'[g].seq = w[g].seq /\ w'[g].kind = w[g].kind
        BY <2>1 DEF Moved, RInv
    <3>3. Ids'
        BY <2>1, <3>1, <3>2, IdsShrink DEF Moved
    <3>4. QED
        BY <2>1, <3>3, HandlerRInv DEF Moved
  <2>2. CASE PushSnapshotRequest(h)
    <3>1. SentSnapshot(h)
        BY <2>2, SnapshotMoves
    <3>2. Found' = Found
        BY <3>1 DEF SentSnapshot, Found
    <3>3. Fewer
        BY <3>1, <3>2, FewerResults DEF SentSnapshot
    <3>4. "nodes" \in AllKinds
        BY DEF AllKinds
    <3>5. Ids'
        BY <3>1, <3>3, <3>4, IdsSend DEF SentSnapshot
    <3>6. QED
        BY <3>1, <3>5, HandlerRInv, RInvQueues DEF SentSnapshot
  <2>3. CASE Return(h)
    <3>1. /\ w' = [w EXCEPT ![h] = w'[h]] /\ w'[h] = IdleWorker /\ w'[h] \in Routed
          /\ w'[h].seq \in {0, w[h].seq} /\ w'[h].todo \in {<<>>, w[h].todo}
          /\ UNCHANGED <<life, seq, cmdq, resq, pending, outbox>>
      <4>1. w[h].pc = "done" /\ Goto(h, IdleWorker)
          BY <2>3 DEF Return
      <4>2. w'[h] = IdleWorker
          BY <4>1, Written
      <4>3. QED
          BY <2>3, <4>2, EdgeMoves
    <3>2. Found' = Found /\ IdleWorker.kind \notin Awaited
        BY <3>1 DEF Found, IdleWorker, Awaited
    <3>3. Fewer
        BY <3>1, <3>2, FewerResults, SmallSets
    <3>4. \A g \in H : g # h => w'[g] = w[g]
        BY <3>1 DEF RInv
    <3>5. Ids'
        BY <3>1, <3>2, <3>3, <3>4, IdsShrink
    <3>6. QED
        BY <3>1, <3>5, HandlerRInv, RInvQueues
  <2>4. QED
      BY <1>2, <2>1, <2>2, <2>3, StepMoves
<1>3. ASSUME NEW h \in H, RequestNodes(h) PROVE RInv'
  <2>1. /\ w' = [w EXCEPT ![h] = w'[h]] /\ w'[h] \in Routed /\ w'[h].seq \in {0, w[h].seq}
        /\ w'[h].todo \in {<<>>, w[h].todo} /\ w'[h].kind \notin Awaited
        /\ UNCHANGED <<life, seq, cmdq, resq, pending, outbox>>
      BY <1>3, EdgeMoves DEF Awaited, IdleWorker
  <2>2. Found' = Found
      BY <2>1 DEF Found
  <2>3. Fewer
      BY <2>1, <2>2, FewerResults, SmallSets
  <2>4. \A g \in H : g # h => w'[g] = w[g]
      BY <2>1 DEF RInv
  <2>5. Ids'
      BY <2>1, <2>3, <2>4, IdsShrink
  <2>6. QED
      BY <2>1, <2>5, HandlerRInv, RInvQueues
<1>4. ASSUME NEW h \in H, NEW kind \in AllKinds \ {"nodes", "value"}, NEW arg \in Args(kind),
             SendCommand(h, kind, arg)
      PROVE  RInv'
  <2>1. Sent(h, kind)
      BY <1>4, SendMoves
  <2>2. Found' = Found
      BY <2>1 DEF Sent, Found
  <2>3. Fewer
      BY <2>1, <2>2, FewerResults, SmallSets DEF Sent
  <2>4. Ids'
      BY <2>1, <2>3, IdsSend DEF Sent
  <2>5. QED
      BY <2>1, <2>4, HandlerRInv, RInvQueues DEF Sent
<1>5. CASE Restart \/ \E h \in H : CrashInPersist(h)
  <2>1. PICK image : NewLife(image)
      BY <1>5 DEF Restart, CrashInPersist
  <2>2. Ids'
      BY <2>1, IdsNewLife
  <2>3. w' = [h \in H |-> IdleWorker] /\ life' = life + 1 /\ pending' = <<>>
      BY <2>1 DEF NewLife
  <2>4. IdleWorker \in Routed
      BY IdleType DEF Routed, Route, IdleWorker, Awaited
  <2>5. Len(pending') <= PendingCap
      BY <2>3, BridgeAssumption
  <2>6. QED
      BY <2>2, <2>3, <2>4, <2>5, RInvQueues DEF RInv
<1>6. ASSUME NEW n \in DOMAIN eng.nodes, RememberValue(n) PROVE RInv'
  <2>1. UNCHANGED <<w, life, seq, cmdq, pending, resq, outbox>>
      BY <1>6 DEF RememberValue, bridgeVars, engineVars
  <2>2. Found' = Found
      BY <2>1 DEF Found
  <2>3. QED
      BY <2>1, <2>2, SameHandlers
<1>7. CASE EngineTake
  <2>1. Ids' /\ UNCHANGED <<w, life, pending>>
      BY <1>7, IdsTake DEF EngineTake
  <2>2. QED
      BY <2>1 DEF RInv
<1>8. CASE EnginePush
    BY <1>8, PushFacts, SameHandlers
<1>9. ASSUME NEW h \in H, Receive(h) PROVE RInv'
    BY <1>3, <1>4, <1>9, BridgeAssumption DEF Receive
<1>10. QED
    BY <1>1, <1>2, <1>5, <1>6, <1>7, <1>8, <1>9 DEF Next, Quiet

\* Nothing is sent and nothing waits at the start.
LEMMA InitRInv == Init => RInv
<1> SUFFICES ASSUME Init PROVE RInv
    OBVIOUS
<1>1. /\ w = [h \in H |-> IdleWorker] /\ life = 1 /\ seq = 0 /\ cmdq = <<>> /\ resq = <<>>
      /\ pending = <<>> /\ outbox = {}
    BY DEF Init
<1>2. IdleWorker \in Routed
    BY IdleType DEF Routed, Route, IdleWorker, Awaited
<1>3. IdleWorker.seq = 0 /\ IdleWorker.kind \notin Awaited /\ ToSet(IdleWorker.todo) = {}
    BY SmallSets DEF IdleWorker, Awaited
<1>4. Flight = {} /\ ToSet(cmdq) = {}
    BY <1>1, <1>3, SmallSets DEF Flight, Found
<1>5. Ids
    BY <1>1, <1>3, <1>4 DEF Ids
<1>6. QED
    BY <1>1, <1>2, <1>5, InitIInv, BridgeAssumption DEF RInv

\* The inductive invariant holds in every reachable state.
THEOREM SpecRInv == Spec => []RInv
<1>1. QED
    BY InitRInv, NextRInv, SpecIInv, PTL DEF Spec
-----------------------------------------------------------------------------
(* What a waiting handler waits for is kept                                *)

\* The command of h, or a result of it, is where h will look.
Kept(h) == Waiting(h) => \E m \in ToSet(cmdq) \cup Found : Answers(h, m)

LEMMA KeptIsKept == RInv => (AwaitedKept <=> \A h \in H : Kept(h))
<1> SUFFICES ASSUME RInv PROVE AwaitedKept <=> \A h \in H : Kept(h)
    OBVIOUS
<1>1. cmdq \in Seq(Commands) /\ resq \in Seq(Results) /\ pending \in Seq(Results)
    BY RInvQueues
<1>2. /\ \A m \in ToSet(cmdq) : \E i \in 1..Len(cmdq) : m = cmdq[i]
      /\ \A i \in 1..Len(cmdq) : cmdq[i] \in ToSet(cmdq)
    BY <1>1, InSeq
<1>3. /\ \A m \in ToSet(resq) : \E i \in 1..Len(resq) : m = resq[i]
      /\ \A i \in 1..Len(resq) : resq[i] \in ToSet(resq)
    BY <1>1, InSeq
<1>4. /\ \A m \in ToSet(pending) : \E i \in 1..Len(pending) : m = pending[i]
      /\ \A i \in 1..Len(pending) : pending[i] \in ToSet(pending)
    BY <1>1, InSeq
<1>5. ASSUME NEW h \in H
      PROVE  (\E m \in ToSet(cmdq) \cup Found : Answers(h, m)) <=>
               \/ \E i \in 1..Len(cmdq) : Answers(h, cmdq[i])
               \/ \E r \in outbox : Answers(h, r)
               \/ \E i \in 1..Len(resq) : Answers(h, resq[i])
               \/ \E i \in 1..Len(pending) : Answers(h, pending[i])
    BY <1>2, <1>3, <1>4 DEF Found
<1>6. QED
    BY <1>5 DEF AwaitedKept, Kept

\* A waiting handler, before and after its own step.
LEMMA WaitingRoute ==
  ASSUME RInv, NEW h \in H
  PROVE  /\ Waiting(h) => w[h].kind \in Awaited /\ w[h].todo = <<>> /\ w[h].status = "none"
         /\ w[h].kind \in Awaited /\ w[h].pc # "done" /\ w[h].todo = <<>> => Waiting(h)
<1>1. w[h] \in Handlers /\ Route(w[h])
    BY RoutedFields
<1>2. w[h].pc \in Pcs
    BY <1>1 DEF Handlers
<1>3. Waiting(h) => w[h].kind \in Awaited /\ w[h].todo = <<>> /\ w[h].status = "none"
    BY <1>1 DEF Route, Waiting
<1>4. ASSUME w[h].kind \in Awaited, w[h].pc # "done", w[h].todo = <<>> PROVE Waiting(h)
  <2>1. w[h].kind \notin {"none", "nodes"} \cup Noted
      BY <1>4 DEF Awaited, Noted
  <2>2. w[h].pc \in {"lock", "top", "pop", "remember", "unvalue", "persist"}
      BY <1>1, <1>2, <1>4, <2>1 DEF Route, Pcs
  <2>3. w[h].pc \notin {"remember", "unvalue", "persist"}
      BY <1>1, <1>4 DEF Route
  <2>4. QED
      BY <2>2, <2>3 DEF Waiting
<1>5. QED
    BY <1>3, <1>4

\* Another handler takes only what this one does not look for.
LEMMA OthersTakeOthers ==
  ASSUME RInv, HasRoom, NEW g \in H, Moved(g), NEW h \in H, h # g, w[h].kind \in Awaited
  PROVE  w'[h] = w[h] /\ \A m \in Found : Answers(h, m) => m \in Found'
<1>1. w'[h] = w[h]
    BY DEF Moved, RInv
<1>2. ASSUME NEW m \in Found, Answers(h, m), m \notin Found' PROVE FALSE
  <2>1. Matches(g, m)
      BY <1>2 DEF Moved
  <2>2. w[g].seq = w[h].seq /\ w[g].kind = w[h].kind
      BY <1>2, <2>1 DEF Matches, Answers
  <2>3. QED
      BY <2>2 DEF RInv, Ids
<1>3. QED
    BY <1>1, <1>2

\* A step in the middle of a request.
LEMMA MovedKept ==
  ASSUME RInv, RInv', HasRoom, \A h \in H : Kept(h), NEW g \in H, Moved(g)
  PROVE  \A h \in H : Kept(h)'
<1> SUFFICES ASSUME NEW h \in H, Waiting(h)'
             PROVE  \E m \in ToSet(cmdq)' \cup Found' : Answers(h, m)'
    BY DEF Kept
<1>1. UNCHANGED <<life, cmdq>>
    BY DEF Moved
<1>2. CASE h # g
  <2>1. w'[h] = w[h]
      BY <1>2 DEF Moved, RInv
  <2>2. Waiting(h)
      BY <2>1 DEF Waiting
  <2>3. PICK m \in ToSet(cmdq) \cup Found : Answers(h, m)
      BY <2>2 DEF Kept
  <2>4. w[h].kind \in Awaited
      BY <2>2, WaitingRoute
  <2>5. m \in ToSet(cmdq)' \cup Found'
      BY <1>1, <1>2, <2>3, <2>4, OthersTakeOthers
  <2>6. Answers(h, m)'
      BY <1>1, <2>1, <2>3 DEF Answers
  <2>7. QED
      BY <2>5, <2>6
<1>3. CASE h = g
  <2>1. /\ w'[h].kind = w[h].kind /\ w'[h].seq = w[h].seq /\ w[h].pc \notin {"idle", "done"}
        /\ Replies(h)
      BY <1>3 DEF Moved
  <2>2. w'[h].kind \in Awaited /\ w'[h].todo = <<>> /\ w'[h].status = "none"
    <3>1. Waiting(h) => w[h].kind \in Awaited /\ w[h].todo = <<>> /\ w[h].status = "none"
        BY WaitingRoute
    <3>2. w'[h] \in Routed
        BY DEF RInv
    <3>3. QED
        BY <3>2 DEF Routed, Route, Waiting
  <2>3. Found \subseteq Found' /\ ToSet(w[h].todo) \subseteq {}
      BY <2>1, <2>2, SmallSets DEF Replies, Awaited
  <2>4. w[h].todo = <<>>
    <3>1. w[h].todo \in Seq(Results)
        BY RoutedFields DEF Handlers
    <3>2. ASSUME w[h].todo # <<>> PROVE FALSE
      <4>1. 1 \in 1..Len(w[h].todo)
          BY <3>1, <3>2
      <4>2. QED
          BY <2>3, <3>1, <4>1, InSeq
    <3>3. QED
        BY <3>2
  <2>5. Waiting(h)
      BY <2>1, <2>2, <2>4, WaitingRoute
  <2>6. PICK m \in ToSet(cmdq) \cup Found : Answers(h, m)
      BY <2>5 DEF Kept
  <2>7. m \in ToSet(cmdq)' \cup Found' /\ Answers(h, m)'
      BY <1>1, <2>1, <2>3, <2>6 DEF Answers
  <2>8. QED
      BY <2>7
<1>4. QED
    BY <1>2, <1>3

\* The push of a command.
LEMMA SentKept ==
  ASSUME RInv, RInv', \A h \in H : Kept(h), NEW g \in H, NEW kind \in AllKinds \ {"nodes", "value"},
         Sent(g, kind)
  PROVE  \A h \in H : Kept(h)'
<1> SUFFICES ASSUME NEW h \in H, Waiting(h)'
             PROVE  \E m \in ToSet(cmdq)' \cup Found' : Answers(h, m)'
    BY DEF Kept
<1>1. cmdq \in Seq(Commands) /\ life \in Nat /\ seq \in Nat
    BY RInvQueues
<1>2. UNCHANGED life /\ seq' = seq + 1 /\ Found' = Found
    BY DEF Sent, Found
<1>3. CASE h # g
  <2>1. w'[h] = w[h]
      BY <1>3 DEF Sent, RInv
  <2>2. Waiting(h)
      BY <2>1 DEF Waiting
  <2>3. PICK m \in ToSet(cmdq) \cup Found : Answers(h, m)
      BY <2>2 DEF Kept
  <2>4. ToSet(cmdq) \subseteq ToSet(cmdq)'
    <3>1. CASE cmdq' = cmdq
        BY <3>1
    <3>2. CASE \E arg \in Args(kind) : cmdq' = Append(cmdq, Command(kind, arg))
      <4>1. PICK arg \in Args(kind) : cmdq' = Append(cmdq, Command(kind, arg))
          BY <3>2
      <4>2. Command(kind, arg) \in Commands
          BY <1>1, <1>2, CommandType
      <4>3. QED
          BY <1>1, <4>1, <4>2, AppendSet
    <3>3. QED
        BY <3>1, <3>2 DEF Sent
  <2>5. QED
      BY <1>2, <2>1, <2>3, <2>4 DEF Answers
<1>4. CASE h = g
  <2>1. w'[h].status # "unavailable"
    <3>1. w'[h] \in Routed
        BY DEF RInv
    <3>2. QED
        BY <3>1 DEF Routed, Route, Waiting
  <2>2. PICK arg \in Args(kind) : cmdq' = Append(cmdq, Command(kind, arg))
      BY <1>4, <2>1 DEF Sent
  <2>3. PICK c \in Commands : c = Command(kind, arg)
      BY <1>1, <1>2, CommandType
  <2>4. c.life = life' /\ c.seq = w'[h].seq /\ c.type = w'[h].kind
      BY <1>2, <1>4, <2>3 DEF Command, Sent
  <2>5. cmdq' = Append(cmdq, c)
      BY <2>2, <2>3
  <2>6. c \in ToSet(cmdq')
      BY <1>1, <2>3, <2>5, AppendSet
  <2>7. c \in ToSet(cmdq)'
      BY <2>6
  <2>8. Answers(h, c)'
      BY <2>4 DEF Answers
  <2>9. QED
      BY <2>7, <2>8
<1>5. QED
    BY <1>3, <1>4

\* The steps of one handler that touch no queue.
LEMMA StillKept ==
  ASSUME RInv, \A h \in H : Kept(h), NEW g \in H, w' = [w EXCEPT ![g] = w'[g]], ~Waiting(g)',
         UNCHANGED life, Found' = Found, ToSet(cmdq) \subseteq ToSet(cmdq')
  PROVE  \A h \in H : Kept(h)'
<1> SUFFICES ASSUME NEW h \in H, Waiting(h)'
             PROVE  \E m \in ToSet(cmdq)' \cup Found' : Answers(h, m)'
    BY DEF Kept
<1>1. w'[h] = w[h]
    BY DEF RInv
<1>2. Waiting(h)
    BY <1>1 DEF Waiting
<1>3. PICK m \in ToSet(cmdq) \cup Found : Answers(h, m)
    BY <1>2 DEF Kept
<1>4. QED
    BY <1>1, <1>3 DEF Answers

\* Every step keeps what is awaited, while there is room.
LEMMA NextKept ==
  ASSUME RInv, RInv', HasRoom, \A h \in H : Kept(h), [Next]_vars
  PROVE  \A h \in H : Kept(h)'
<1>1. ASSUME UNCHANGED <<w, life, cmdq>>, Found' = Found PROVE \A h \in H : Kept(h)'
    BY <1>1 DEF Kept, Waiting, Answers
<1>2. CASE UNCHANGED vars
  <2>1. UNCHANGED <<w, life, cmdq, resq, pending, outbox>>
      BY <1>2 DEF vars, bridgeVars, engineVars
  <2>2. QED
      BY <1>1, <2>1 DEF Found
<1>3. ASSUME NEW g \in H, Step(g) \/ Timeout(g) PROVE \A h \in H : Kept(h)'
  <2>1. CASE Moved(g)
      BY <2>1, MovedKept
  <2>2. CASE PushSnapshotRequest(g)
    <3>1. SentSnapshot(g)
        BY <2>2, SnapshotMoves DEF RInv
    <3>2. Found' = Found /\ UNCHANGED life
        BY <3>1 DEF SentSnapshot, Found
    <3>3. ~Waiting(g)'
        BY <3>1 DEF SentSnapshot, Routed, Route, Waiting, Awaited
    <3>4. ToSet(cmdq) \subseteq ToSet(cmdq')
      <4>1. cmdq \in Seq(Commands) /\ life \in Nat /\ seq' \in Nat /\ "nodes" \in AllKinds
          BY <3>1, RInvQueues DEF AllKinds, SentSnapshot
      <4>2. ASSUME NEW arg \in Args("nodes"), cmdq' = Append(cmdq, Command("nodes", arg))
            PROVE  ToSet(cmdq) \subseteq ToSet(cmdq')
        <5>1. Command("nodes", arg) \in Commands
            BY <4>1, CommandType
        <5>2. QED
            BY <4>1, <4>2, <5>1, AppendSet
      <4>3. QED
          BY <3>1, <4>2 DEF SentSnapshot
    <3>5. QED
        BY <3>1, <3>2, <3>3, <3>4, StillKept DEF SentSnapshot
  <2>3. CASE Return(g)
    <3>1. w'[g] = IdleWorker
        BY <2>3, Written DEF Return
    <3>2. ~Waiting(g)'
        BY <3>1 DEF Waiting, IdleWorker
    <3>3. /\ w' = [w EXCEPT ![g] = w'[g]]
          /\ UNCHANGED <<life, cmdq, resq, pending, outbox>>
        BY <2>3, EdgeMoves DEF RInv
    <3>4. QED
        BY <3>2, <3>3, StillKept DEF Found
  <2>4. QED
      BY <1>3, <2>1, <2>2, <2>3, StepMoves DEF RInv
<1>4. ASSUME NEW g \in H, Receive(g) PROVE \A h \in H : Kept(h)'
  <2>1. CASE RequestNodes(g)
    <3>1. /\ w' = [w EXCEPT ![g] = w'[g]] /\ w'[g].kind \notin Awaited /\ w'[g] \in Routed
          /\ UNCHANGED <<life, cmdq, resq, pending, outbox>>
        BY <2>1, EdgeMoves DEF RInv, Awaited, IdleWorker
    <3>2. ~Waiting(g)'
        BY <3>1 DEF Waiting, Routed, Route
    <3>3. QED
        BY <3>1, <3>2, StillKept DEF Found
  <2>2. ASSUME NEW kind \in Kinds \ {"nodes", "value"}, NEW arg \in Args(kind),
               SendCommand(g, kind, arg)
        PROVE  \A h \in H : Kept(h)'
    <3>1. kind \in AllKinds \ {"nodes", "value"}
        BY BridgeAssumption
    <3>2. Sent(g, kind)
        BY <2>2, <3>1, SendMoves DEF RInv
    <3>3. QED
        BY <3>1, <3>2, SentKept
  <2>3. QED
      BY <1>4, <2>1, <2>2 DEF Receive
<1>5. CASE Restart \/ \E h \in H : CrashInPersist(h)
  <2>1. PICK image : NewLife(image)
      BY <1>5 DEF Restart, CrashInPersist
  <2>2. \A h \in H : w'[h].pc = "idle"
      BY <2>1 DEF NewLife, IdleWorker
  <2>3. QED
      BY <2>2 DEF Kept, Waiting
<1>6. ASSUME NEW n \in DOMAIN eng.nodes, RememberValue(n) PROVE \A h \in H : Kept(h)'
  <2>1. UNCHANGED <<w, life, cmdq, resq, pending, outbox>>
      BY <1>6 DEF RememberValue, bridgeVars, engineVars
  <2>2. QED
      BY <1>1, <2>1 DEF Found
<1>7. CASE EngineTake
  <2> DEFINE c == Head(cmdq)
  <2>1. UNCHANGED <<w, life>> /\ cmdq # <<>> /\ cmdq' = Tail(cmdq) /\ Found \subseteq Found'
      BY <1>7, IdsTake DEF EngineTake
  <2>2. /\ outbox' # {}
        /\ \A m \in outbox' : m.life = c.life /\ m.seq = c.seq /\ m.type = c.type
    <3>1. \/ EngineLoad(c) \/ EngineAdd(c) \/ EngineRemove(c) \/ EngineChange(c)
          \/ EngineSnapshot(c) \/ EngineRefuse(c)
        BY <1>7 DEF EngineTake
    <3>2. QED
        BY <3>1, EngineAnswers
  <2>3. ToSet(cmdq) = ToSet(cmdq') \cup {c}
      BY <2>1, RInvQueues, TailSet
  <2> HIDE DEF c
  <2>4. SUFFICES ASSUME NEW h \in H, Waiting(h)'
                 PROVE  \E m \in ToSet(cmdq)' \cup Found' : Answers(h, m)'
      BY DEF Kept
  <2>5. Waiting(h)
      BY <2>1, <2>4 DEF Waiting
  <2>6. PICK m \in ToSet(cmdq) \cup Found : Answers(h, m)
      BY <2>5 DEF Kept
  <2>7. CASE m = c
    <3>1. PICK n \in outbox' : n.life = c.life /\ n.seq = c.seq /\ n.type = c.type
        BY <2>2
    <3>2. n \in Found'
        BY DEF Found
    <3>3. Answers(h, n)'
        BY <2>1, <2>6, <2>7, <3>1 DEF Answers
    <3>4. QED
        BY <3>2, <3>3
  <2>8. CASE m # c
    <3>1. m \in ToSet(cmdq') \cup Found'
        BY <2>1, <2>3, <2>6, <2>8
    <3>2. Answers(h, m)'
        BY <2>1, <2>6 DEF Answers
    <3>3. QED
        BY <3>1, <3>2
  <2>9. QED
      BY <2>7, <2>8
<1>8. CASE EnginePush
    BY <1>1, <1>8, PushFacts
<1>9. QED
    BY <1>2, <1>3, <1>4, <1>5, <1>6, <1>7, <1>8 DEF Next, Quiet

\* As long as pending_results_ has room for the results that nobody takes, a
\* handler that waits will find its command or the result of it, whichever
\* worker pops it from the shared queue and whatever is drained meanwhile.
THEOREM AwaitedIsKept == Spec /\ []HasRoom => []AwaitedKept
<1>1. Init => AwaitedKept
  <2>1. IdleWorker.pc = "idle"
      BY DEF IdleWorker
  <2>2. QED
      BY <2>1 DEF Init, AwaitedKept, Waiting
<1>2. RInv /\ RInv' /\ HasRoom /\ AwaitedKept /\ [Next]_vars => AwaitedKept'
  <2> SUFFICES ASSUME RInv, RInv', HasRoom, AwaitedKept, [Next]_vars PROVE AwaitedKept'
      OBVIOUS
  <2>1. \A h \in H : Kept(h)
      BY KeptIsKept
  <2>2. \A h \in H : Kept(h)'
      BY <2>1, NextKept
  <2>3. (RInv => (AwaitedKept <=> \A h \in H : Kept(h)))'
      BY KeptIsKept, PTL
  <2>4. QED
      BY <2>2, <2>3
<1>3. QED
    BY <1>1, <1>2, SpecRInv, PTL DEF Spec
-----------------------------------------------------------------------------
(* pending_results_                                                        *)

\* How the i-th result may leave the list.
Leaves(i) ==
  \/ \E h \in H : w[h].pc \in {"top", "merge"} /\ Matches(h, pending[i])
  \/ i <= Len(pending) + (Len(resq) - Len(resq')) - PendingCap
  \/ life' # life

Stays(i) == \E j \in 1..Len(pending') : pending'[j] = pending[i]

\* A pop that keeps a result drops the oldest from a full list.
LEMMA PopDrops ==
  ASSUME RInv, resq # <<>>, resq' = Tail(resq), pending' = Keep(pending, Head(resq))
  PROVE  \A i \in 1..Len(pending) : Stays(i) \/ Leaves(i)
<1> DEFINE all == Append(pending, Head(resq))
<1>1. /\ pending \in Seq(Results) /\ resq \in Seq(Results)
      /\ Len(pending) <= PendingCap /\ PendingCap \in Nat /\ Len(pending) \in Nat
    BY RInvQueues
<1>2. Head(resq) \in Results /\ Len(resq) \in Nat /\ Len(resq') = Len(resq) - 1
    BY <1>1, HeadTailType
<1>3. /\ all \in Seq(Results) /\ Len(all) = Len(pending) + 1
      /\ \A i \in 1..Len(pending) : all[i] = pending[i]
    BY <1>1, <1>2
<1>4. pending' = IF Len(all) > PendingCap THEN Tail(all) ELSE all
    BY DEF Keep
<1> HIDE DEF all
<1> SUFFICES ASSUME NEW i \in 1..Len(pending) PROVE Stays(i) \/ Leaves(i)
    OBVIOUS
<1>5. CASE Len(all) > PendingCap
  <2>1. Len(pending) = PendingCap
      BY <1>1, <1>3, <1>5
  <2>2. CASE i = 1
    <3>1. i <= Len(pending) + (Len(resq) - Len(resq')) - PendingCap
        BY <1>1, <1>2, <2>1, <2>2
    <3>2. QED
        BY <3>1 DEF Leaves
  <2>3. CASE i # 1
    <3>1. /\ Len(pending') = Len(all) - 1
          /\ \A j \in 1..Len(pending') : pending'[j] = all[j + 1]
      <4>1. all # <<>>
          BY <1>1, <1>3
      <4>2. /\ Len(Tail(all)) = Len(all) - 1
            /\ \A j \in 1..Len(Tail(all)) : Tail(all)[j] = all[j + 1]
          BY <1>3, <4>1, HeadTailProperties
      <4>3. pending' = Tail(all)
          BY <1>4, <1>5
      <4>4. QED
          BY <4>2, <4>3
    <3>2. i - 1 \in 1..Len(pending') /\ (i - 1) + 1 = i
        BY <1>1, <1>3, <2>3, <3>1
    <3>3. pending'[i - 1] = pending[i]
        BY <1>3, <3>1, <3>2
    <3>4. QED
        BY <3>2, <3>3 DEF Stays
  <2>4. QED
      BY <2>2, <2>3
<1>6. CASE ~(Len(all) > PendingCap)
  <2>1. i \in 1..Len(pending') /\ pending'[i] = pending[i]
      BY <1>1, <1>3, <1>4, <1>6
  <2>2. QED
      BY <2>1 DEF Stays
<1>7. QED
    BY <1>5, <1>6

\* The steps that take a result out of the list.
LEMMA TakeLeaves ==
  ASSUME RInv, RInv', NEW h \in H, w[h].pc \in {"top", "merge"}, NEW k \in 1..Len(pending),
         FirstMatch(h, k), pending' = RemoveAt(pending, k)
  PROVE  \A i \in 1..Len(pending) : Stays(i) \/ Leaves(i)
<1> SUFFICES ASSUME NEW i \in 1..Len(pending) PROVE Stays(i) \/ Leaves(i)
    OBVIOUS
<1>1. pending \in Seq(Results) /\ pending' \in Seq(Results)
    BY DEF RInv, IInv, QueuesOK
<1>2. pending[i] \in ToSet(pending)
    BY <1>1, InSeq
<1>3. pending[i] = pending[k] \/ pending[i] \in ToSet(pending')
    BY <1>2, RInvQueues, RemoveAtSet
<1>4. pending[i] = pending[k] => Leaves(i)
    BY DEF Leaves, FirstMatch
<1>5. pending[i] \in ToSet(pending') => Stays(i)
    BY <1>1, InSeq DEF Stays
<1>6. QED
    BY <1>3, <1>4, <1>5

\* The drain.
LEMMA DrainLeaves ==
  ASSUME RInv, NEW h \in H, DrainResults(h)
  PROVE  \A i \in 1..Len(pending) : Stays(i) \/ Leaves(i)
<1> DEFINE all == pending \o resq
<1>1. /\ pending \in Seq(Results) /\ resq \in Seq(Results) /\ PendingCap \in Nat
      /\ Len(pending) \in Nat /\ Len(resq) \in Nat
    BY RInvQueues
<1>2. /\ all \in Seq(Results) /\ Len(all) = Len(pending) + Len(resq)
      /\ \A i \in 1..Len(pending) : all[i] = pending[i]
    BY <1>1
<1>3. /\ pending' = IF Len(all) > PendingCap
                    THEN SubSeq(all, Len(all) - PendingCap + 1, Len(all)) ELSE all
      /\ Len(resq') = 0
    BY DEF DrainResults, LastOf
<1> HIDE DEF all
<1> SUFFICES ASSUME NEW i \in 1..Len(pending) PROVE Stays(i) \/ Leaves(i)
    OBVIOUS
<1> DEFINE over == Len(all) - PendingCap
<1>4. over \in Int /\ i \in Int
    BY <1>1, <1>2
<1>5. CASE i <= over
  <2>1. i <= Len(pending) + (Len(resq) - Len(resq')) - PendingCap
      BY <1>1, <1>2, <1>3, <1>5
  <2>2. QED
      BY <2>1 DEF Leaves
<1>6. CASE Len(all) > PendingCap /\ i > over
  <2>1. pending' = SubSeq(all, over + 1, Len(all))
      BY <1>3, <1>6
  <2>2. /\ over + 1 \in Int /\ Len(all) \in Int
        /\ \A j \in (over + 1)..Len(all) : all[j] \in Results
    <3>1. over \in Nat /\ Len(all) \in Nat
        BY <1>1, <1>2, <1>6
    <3>2. \A j \in (over + 1)..Len(all) : j \in 1..Len(all)
        BY <3>1
    <3>3. QED
        BY <1>2, <3>1, <3>2
  <2>3. /\ Len(pending') = Len(all) - over
        /\ \A j \in 1..(Len(all) - over) : pending'[j] = all[over + j]
    <3>1. /\ Len(pending') = IF over + 1 <= Len(all) THEN Len(all) - (over + 1) + 1 ELSE 0
          /\ \A j \in 1..(Len(all) - (over + 1) + 1) : pending'[j] = all[over + 1 + j - 1]
        BY <2>1, <2>2, SubSeqProperties
    <3>2. /\ Len(all) - (over + 1) + 1 = Len(all) - over
          /\ over + 1 <= Len(all) \/ Len(all) - over = 0
        BY <1>1, <1>2, <1>6
    <3>3. \A j \in 1..(Len(all) - over) : over + 1 + j - 1 = over + j
        BY <1>4
    <3>4. QED
        BY <3>1, <3>2, <3>3
  <2>4. i - over \in 1..Len(pending') /\ over + (i - over) = i
      BY <1>1, <1>2, <1>4, <1>6, <2>3
  <2>5. pending'[i - over] = pending[i]
      BY <1>2, <2>3, <2>4
  <2>6. QED
      BY <2>4, <2>5 DEF Stays
<1>7. CASE ~(Len(all) > PendingCap)
  <2>1. i \in 1..Len(pending') /\ pending'[i] = pending[i]
      BY <1>1, <1>2, <1>3, <1>7
  <2>2. QED
      BY <2>1 DEF Stays
<1>8. QED
    BY <1>4, <1>5, <1>6, <1>7

\* The other steps of a handler leave the list alone.
LEMMA PendingUntouched ==
  ASSUME NEW h \in H,
         \/ LockResults(h) \/ WaitMissPending(h) \/ WaitSleep(h) \/ WaitTimeout(h)
         \/ RememberResult(h) \/ ForgetValues(h) \/ NoteCommand(h) \/ Persist(h)
         \/ ClearMirror(h) \/ PollDone(h) \/ PollTimeout(h) \/ PollLock(h)
         \/ MergeMissPending(h) \/ MergeSleep(h) \/ Report(h) \/ ApplyDrained(h)
         \/ PushSnapshotRequest(h) \/ Return(h) \/ Receive(h)
  PROVE  pending' = pending
<1>1. CASE \/ LockResults(h) \/ WaitMissPending(h) \/ WaitSleep(h) \/ WaitTimeout(h)
           \/ RememberResult(h) \/ ForgetValues(h) \/ NoteCommand(h) \/ Persist(h)
    BY <1>1 DEF LockResults, WaitMissPending, WaitSleep, WaitTimeout, RememberResult,
       ForgetValues, NoteCommand, Persist
<1>2. CASE \/ ClearMirror(h) \/ PollDone(h) \/ PollTimeout(h) \/ PollLock(h)
           \/ MergeMissPending(h) \/ MergeSleep(h) \/ Report(h) \/ ApplyDrained(h)
    BY <1>2 DEF ClearMirror, PollDone, PollTimeout, PollEnd, PollLock, MergeMissPending,
       MergeSleep, Report, ApplyDrained
<1>3. CASE PushSnapshotRequest(h) \/ Return(h)
    BY <1>3 DEF PushSnapshotRequest, Return
<1>4. CASE Receive(h)
    BY <1>4 DEF Receive, SendCommand, RequestNodes
<1>5. QED
    BY <1>1, <1>2, <1>3, <1>4

\* Every step.
LEMMA NextLeaves ==
  ASSUME RInv, RInv', [Next]_vars
  PROVE  \A i \in 1..Len(pending) : Stays(i) \/ Leaves(i)
<1>1. ASSUME pending' = pending
      PROVE  \A i \in 1..Len(pending) : Stays(i) \/ Leaves(i)
    BY <1>1 DEF Stays
<1>2. ASSUME NEW h \in H, Receive(h) \/ Step(h) \/ Timeout(h)
      PROVE  \A i \in 1..Len(pending) : Stays(i) \/ Leaves(i)
  <2>1. CASE WaitTakePending(h)
      BY <2>1, TakeLeaves DEF WaitTakePending
  <2>2. CASE MergePending(h)
      BY <2>2, TakeLeaves DEF MergePending
  <2>3. CASE WaitPop(h)
      BY <1>1, <2>3, PopDrops DEF WaitPop
  <2>4. CASE MergePop(h)
      BY <1>1, <2>4, PopDrops DEF MergePop
  <2>5. CASE DrainResults(h)
      BY <2>5, DrainLeaves
  <2>6. CASE \/ LockResults(h) \/ WaitMissPending(h) \/ WaitSleep(h) \/ WaitTimeout(h)
             \/ RememberResult(h) \/ ForgetValues(h) \/ NoteCommand(h) \/ Persist(h)
             \/ ClearMirror(h) \/ PollDone(h) \/ PollTimeout(h) \/ PollLock(h)
             \/ MergeMissPending(h) \/ MergeSleep(h) \/ Report(h) \/ ApplyDrained(h)
             \/ PushSnapshotRequest(h) \/ Return(h) \/ Receive(h)
      BY <1>1, <2>6, PendingUntouched
  <2>7. QED
      BY <1>2, <2>1, <2>2, <2>3, <2>4, <2>5, <2>6 DEF Step, Timeout
<1>3. CASE Restart \/ \E h \in H : CrashInPersist(h)
  <2>1. life' = life + 1 /\ life \in Nat
      BY <1>3, RInvQueues DEF Restart, CrashInPersist, NewLife
  <2>2. QED
      BY <2>1 DEF Leaves
<1>4. CASE (\E n \in DOMAIN eng.nodes : RememberValue(n)) \/ EngineTake \/ EnginePush
    BY <1>1, <1>4 DEF RememberValue, EngineTake, EnginePush, bridgeVars
<1>5. CASE UNCHANGED vars
    BY <1>1, <1>5 DEF vars, bridgeVars
<1>6. QED
    BY <1>2, <1>3, <1>4, <1>5 DEF Next, Quiet

\* A result leaves pending_results_ only when the worker that looks for it
\* takes it, as one of the oldest when the list is over its limit, or with the
\* process: no pop, drain or merge of another worker loses it.
THEOREM PendingIsKept == Spec => KeptUntilFull
<1> DEFINE A == \A i \in 1..Len(pending) :
                  \/ \E j \in 1..Len(pending') : pending'[j] = pending[i]
                  \/ \E h \in H : w[h].pc \in {"top", "merge"} /\ Matches(h, pending[i])
                  \/ i <= Len(pending) + (Len(resq) - Len(resq')) - PendingCap
                  \/ life' # life
<1>1. RInv /\ RInv' /\ [Next]_vars => [A]_vars
  <2> SUFFICES ASSUME RInv, RInv', [Next]_vars PROVE A
      OBVIOUS
  <2>1. \A i \in 1..Len(pending) : Stays(i) \/ Leaves(i)
      BY NextLeaves
  <2>2. QED
      BY <2>1 DEF Stays, Leaves
<1>2. QED
    BY <1>1, SpecRInv, PTL DEF Spec, KeptUntilFull
-----------------------------------------------------------------------------
(* Bridge implements Service                                               *)

\* ResultsFor, with the queues as sets.
For(h) == {m \in Found \cup ToSet(w[h].todo) : Answers(h, m)}

Verdicts ==
  \A h \in H : Verdict(h) = IF ~InService(h) \/ For(h) = {} THEN "none"
                            ELSE IF \A m \in For(h) : m.ok THEN "yes" ELSE "no"

LEMMA VerdictIs == RInv => Verdicts
<1> SUFFICES ASSUME RInv, NEW h \in H
             PROVE  Verdict(h) = IF ~InService(h) \/ For(h) = {} THEN "none"
                                 ELSE IF \A m \in For(h) : m.ok THEN "yes" ELSE "no"
    BY DEF Verdicts
<1>1. resq \in Seq(Results) /\ pending \in Seq(Results) /\ w[h].todo \in Seq(Results)
    BY RInvQueues, RoutedFields DEF Handlers
<1>2. /\ {resq[i] : i \in 1..Len(resq)} = ToSet(resq)
      /\ {pending[i] : i \in 1..Len(pending)} = ToSet(pending)
      /\ {w[h].todo[i] : i \in 1..Len(w[h].todo)} = ToSet(w[h].todo)
    BY <1>1, SetOfSeq
<1>3. ResultsFor(h) = For(h)
    BY <1>2 DEF ResultsFor, For, Found
<1>4. QED
    BY <1>3 DEF Verdict

\* The same verdict before and after a step.
LEMMA SameVerdict ==
  ASSUME RInv, RInv', NEW h \in H, InService(h)' <=> InService(h),
         InService(h) => For(h)' = For(h)
  PROVE  Verdict(h)' = Verdict(h)
<1>1. Verdict(h) = IF ~InService(h) \/ For(h) = {} THEN "none"
                   ELSE IF \A m \in For(h) : m.ok THEN "yes" ELSE "no"
    BY VerdictIs DEF Verdicts
<1>2. Verdicts'
  <2>1. (RInv => Verdicts)'
      BY VerdictIs, PTL
  <2>2. QED
      BY <2>1
<1>3. QED
    BY <1>1, <1>2 DEF Verdicts

\* No verdict on a request that is not in service.
LEMMA NoVerdict == \A h \in H : ~InService(h) => Verdict(h) = "none"
BY DEF Verdict

\* The step of one handler leaves the verdicts on the others alone.
LEMMA OthersVerdict ==
  ASSUME RInv, RInv', HasRoom, NEW g \in H, UNCHANGED life,
         w' = [w EXCEPT ![g] = w'[g]],
         Moved(g) \/ Found' = Found
  PROVE  \A h \in H : h # g => w'[h] = w[h] /\ Verdict(h)' = Verdict(h)
<1> SUFFICES ASSUME NEW h \in H, h # g PROVE w'[h] = w[h] /\ Verdict(h)' = Verdict(h)
    OBVIOUS
<1>1. w'[h] = w[h]
    BY DEF RInv
<1>2. InService(h)' <=> InService(h)
    BY <1>1 DEF InService
<1>3. ASSUME InService(h) PROVE For(h)' = For(h)
  <2>1. \A m : Answers(h, m)' <=> Answers(h, m)
      BY <1>1 DEF Answers
  <2>2. Found' \subseteq Found
      BY DEF Moved
  <2>3. \A m \in Found : Answers(h, m) => m \in Found'
      BY <1>3, OthersTakeOthers DEF InService
  <2>4. QED
      BY <1>1, <2>1, <2>2, <2>3 DEF For
<1>4. QED
    BY <1>1, <1>2, <1>3, SameVerdict

\* The same, as functions: what Service sees of the others does not change.
LEMMA OneClient ==
  ASSUME RInv, RInv', HasRoom, NEW g \in H, UNCHANGED life,
         w' = [w EXCEPT ![g] = w'[g]],
         Moved(g) \/ Found' = Found
  PROVE  /\ [h \in H |-> w'[h].kind] = [[h \in H |-> w[h].kind] EXCEPT ![g] = w'[g].kind]
         /\ [h \in H |-> w'[h].status] = [[h \in H |-> w[h].status] EXCEPT ![g] = w'[g].status]
         /\ [h \in H |-> Verdict(h)'] = [[h \in H |-> Verdict(h)] EXCEPT ![g] = Verdict(g)']
<1>1. \A h \in H : h # g => w'[h] = w[h] /\ Verdict(h)' = Verdict(h)
    BY OthersVerdict
<1>2. [h \in H |-> w'[h].kind] = [[h \in H |-> w[h].kind] EXCEPT ![g] = w'[g].kind]
    BY <1>1
<1>3. [h \in H |-> w'[h].status] = [[h \in H |-> w[h].status] EXCEPT ![g] = w'[g].status]
    BY <1>1
<1>4. [h \in H |-> Verdict(h)'] = [[h \in H |-> Verdict(h)] EXCEPT ![g] = Verdict(g)']
    BY <1>1
<1>5. QED
    BY <1>2, <1>3, <1>4

\* Nothing that Service sees changes.
LEMMA NoClient ==
  ASSUME \A h \in H : w'[h].kind = w[h].kind /\ w'[h].status = w[h].status
                      /\ Verdict(h)' = Verdict(h)
  PROVE  /\ [h \in H |-> w'[h].kind] = [h \in H |-> w[h].kind]
         /\ [h \in H |-> w'[h].status] = [h \in H |-> w[h].status]
         /\ [h \in H |-> Verdict(h)'] = [h \in H |-> Verdict(h)]
OBVIOUS

\* A step of the implementation is a step of Service or none.
PromiseStep ==
  Promise!Next \/ UNCHANGED <<[h \in H |-> w[h].kind], [h \in H |-> Verdict(h)],
                              [h \in H |-> w[h].status]>>

\* What the handler's own step does to the verdict on its command.
LEMMA OwnVerdict ==
  ASSUME RInv, RInv', HasRoom, life = 1, NEW g \in H, Moved(g)
  PROVE  /\ w[g].kind # "none" /\ w[g].status = "none"
         /\ w'[g].status = "none" => Verdict(g)' = Verdict(g)
         /\ w'[g].status # "none" => Verdict(g)' = "none"
         /\ (w[g].kind \in Awaited /\ \E m \in Found : Matches(g, m) /\ ~m.ok) => Verdict(g) = "no"
         /\ w[g].kind \in Awaited /\ w[g].pc = "persist" => Verdict(g) = "yes"
<1>1. /\ w'[g] \in Routed /\ w'[g].kind = w[g].kind /\ w'[g].seq = w[g].seq
      /\ w[g].pc \notin {"idle", "done"} /\ UNCHANGED life
      /\ Found' \subseteq Found /\ ToSet(w'[g].todo) \subseteq ToSet(w[g].todo) \cup Found
    BY DEF Moved
<1>2. w[g].kind # "none" /\ w[g].status = "none"
    BY <1>1, RoutedFields DEF Route
<1>3. w'[g].status = "none" <=> w'[g].pc # "done"
    BY <1>1 DEF Routed, Route
<1>4. w[g].kind \in Awaited <=> InService(g)
    BY <1>1 DEF InService
<1>5. ASSUME w'[g].status = "none" PROVE Verdict(g)' = Verdict(g)
  <2>1. InService(g)' <=> InService(g)
      BY <1>1, <1>3, <1>5 DEF InService
  <2>2. ASSUME InService(g) PROVE For(g)' = For(g)
    <3>1. Found \subseteq Found' \cup ToSet(w'[g].todo) /\ ToSet(w[g].todo) \subseteq ToSet(w'[g].todo)
        BY <1>4, <1>5, <2>2 DEF Moved, Replies, Awaited
    <3>2. \A m : Answers(g, m)' <=> Answers(g, m)
        BY <1>1 DEF Answers
    <3>3. QED
        BY <1>1, <3>1, <3>2 DEF For
  <2>3. QED
      BY <2>1, <2>2, SameVerdict
<1>6. ASSUME w'[g].status # "none" PROVE Verdict(g)' = "none"
    BY <1>3, <1>6 DEF Verdict, InService
<1>7. Verdict(g) = IF ~InService(g) \/ For(g) = {} THEN "none"
                   ELSE IF \A m \in For(g) : m.ok THEN "yes" ELSE "no"
    BY VerdictIs DEF Verdicts
<1>8. \A m \in Found \cup ToSet(w[g].todo) : m.life = life
  <2>1. \A m \in Found \cup ToSet(w[g].todo) : m.life \in 1..life
      BY DEF RInv, Ids, Flight
  <2>2. QED
      BY <2>1
<1>9. ASSUME w[g].kind \in Awaited, NEW m \in Found, Matches(g, m), ~m.ok PROVE Verdict(g) = "no"
  <2>1. m \in For(g)
      BY <1>8, <1>9 DEF For, Answers, Matches
  <2>2. QED
      BY <1>4, <1>7, <1>9, <2>1
<1>10. ASSUME w[g].kind \in Awaited, w[g].pc = "persist" PROVE Verdict(g) = "yes"
  <2>1. PICK m \in ToSet(w[g].todo) : m.ok /\ m.seq = w[g].seq /\ m.type = w[g].kind
      BY <1>10, RoutedFields DEF Route
  <2>2. m \in For(g) /\ m \in Flight
      BY <1>8, <2>1 DEF For, Answers, Flight
  <2>3. ASSUME NEW n \in For(g) PROVE n.ok
    <3>1. n \in Flight /\ n.life = m.life /\ n.seq = m.seq
        BY <2>1, <2>2 DEF For, Answers, Flight
    <3>2. m.type \in Awaited /\ m.ok = n.ok
        BY <1>10, <2>1, <2>2, <3>1 DEF RInv, Ids
    <3>3. QED
        BY <2>1, <3>2
  <2>4. QED
      BY <1>4, <1>7, <1>10, <2>2, <2>3
<1>11. QED
    BY <1>2, <1>5, <1>6, <1>9, <1>10

\* A step in the middle of a request is a reply or nothing.
LEMMA MovedPromise ==
  ASSUME RInv, RInv', HasRoom, life = 1, NEW g \in H, Moved(g)
  PROVE  PromiseStep
<1>1. w' = [w EXCEPT ![g] = w'[g]] /\ w'[g].kind = w[g].kind /\ UNCHANGED life /\ Replies(g)
    BY DEF Moved
<1>2. /\ w[g].kind # "none" /\ w[g].status = "none"
      /\ w'[g].status = "none" => Verdict(g)' = Verdict(g)
      /\ w'[g].status # "none" => Verdict(g)' = "none"
      /\ (w[g].kind \in Awaited /\ \E m \in Found : Matches(g, m) /\ ~m.ok) => Verdict(g) = "no"
      /\ w[g].kind \in Awaited /\ w[g].pc = "persist" => Verdict(g) = "yes"
    BY OwnVerdict
<1>3. \A h \in H : h # g => w'[h] = w[h] /\ Verdict(h)' = Verdict(h)
    BY <1>1, OthersVerdict
<1>4. CASE w'[g].status = "none"
  <2>1. \A h \in H : w'[h].kind = w[h].kind /\ w'[h].status = w[h].status
                     /\ Verdict(h)' = Verdict(h)
      BY <1>1, <1>2, <1>3, <1>4
  <2>2. QED
      BY <2>1, NoClient DEF PromiseStep
<1>5. CASE w'[g].status # "none"
  <2>1. [h \in H |-> w'[h].kind] = [h \in H |-> w[h].kind]
      BY <1>1, <1>3
  <2>2. /\ [h \in H |-> w'[h].status] = [[h \in H |-> w[h].status] EXCEPT ![g] = w'[g].status]
        /\ [h \in H |-> Verdict(h)'] = [[h \in H |-> Verdict(h)] EXCEPT ![g] = Verdict(g)']
      BY <1>1, OneClient
  <2>3. Verdict(g)' = "none"
      BY <1>2, <1>5
  <2>4. Promise!Open(g)
      BY <1>2 DEF Promise!Open
  <2>5. \/ w[g].kind \in Awaited /\ w'[g].status = "pending"
        \/ w[g].kind \in Awaited /\ w'[g].status = "unavailable" /\ Verdict(g) = "no"
        \/ w[g].kind \in Awaited /\ w'[g].status = "accepted" /\ Verdict(g) = "yes"
        \/ w[g].kind = "nodes" /\ w'[g].status = "ok"
        \/ w[g].kind \notin Awaited \cup {"nodes"} /\ w'[g].status = "accepted"
      BY <1>1, <1>2, <1>5 DEF Replies
  <2>6. [h \in H |-> w[h].kind][g] = w[g].kind /\ [h \in H |-> Verdict(h)][g] = Verdict(g)
      OBVIOUS
  <2>7. UNCHANGED [h \in H |-> w[h].kind]
      BY <2>1
  <2>8. Promise!Reply(g)
    <3>1. CASE w[g].kind \in Awaited /\ w'[g].status = "pending"
      <4>1. Promise!Tell(g, "pending")
          BY <2>2, <2>3, <3>1 DEF Promise!Tell
      <4>2. QED
          BY <2>4, <2>6, <2>7, <3>1, <4>1 DEF Promise!Reply
    <3>2. CASE w[g].kind \in Awaited /\ w'[g].status = "unavailable" /\ Verdict(g) = "no"
      <4>1. Promise!Tell(g, "unavailable")
          BY <2>2, <2>3, <3>2 DEF Promise!Tell
      <4>2. QED
          BY <2>4, <2>6, <2>7, <3>2, <4>1 DEF Promise!Reply
    <3>3. CASE w[g].kind \in Awaited /\ w'[g].status = "accepted" /\ Verdict(g) = "yes"
      <4>1. Promise!Tell(g, "accepted")
          BY <2>2, <2>3, <3>3 DEF Promise!Tell
      <4>2. QED
          BY <2>4, <2>6, <2>7, <3>3, <4>1 DEF Promise!Reply
    <3>4. CASE w[g].kind = "nodes" /\ w'[g].status = "ok"
      <4>1. Promise!Tell(g, "ok")
          BY <2>2, <2>3, <3>4 DEF Promise!Tell
      <4>2. QED
          BY <2>4, <2>6, <2>7, <3>4, <4>1 DEF Promise!Reply
    <3>5. CASE w[g].kind \notin Awaited \cup {"nodes"} /\ w'[g].status = "accepted"
      <4>1. Promise!Tell(g, "accepted")
          BY <2>2, <2>3, <3>5 DEF Promise!Tell
      <4>2. QED
          BY <2>4, <2>6, <2>7, <3>5, <4>1 DEF Promise!Reply
    <3>6. QED
        BY <2>5, <3>1, <3>2, <3>3, <3>4, <3>5
  <2>9. QED
      BY <2>8 DEF PromiseStep, Promise!Next
<1>6. QED
    BY <1>4, <1>5

\* A command is a question.
LEMMA SentPromise ==
  ASSUME RInv, RInv', HasRoom, life = 1, NEW g \in H, NEW kind \in AllKinds \ {"nodes", "value"},
         Sent(g, kind)
  PROVE  PromiseStep
<1>1. /\ w[g] = IdleWorker /\ w' = [w EXCEPT ![g] = w'[g]] /\ UNCHANGED life /\ Found' = Found
      /\ w'[g].kind = kind /\ w'[g].seq = seq + 1 /\ w'[g].todo = <<>> /\ w'[g] \in Routed
    BY DEF Sent, Found
<1>2. /\ [h \in H |-> w'[h].kind] = [[h \in H |-> w[h].kind] EXCEPT ![g] = kind]
      /\ [h \in H |-> w'[h].status] = [[h \in H |-> w[h].status] EXCEPT ![g] = w'[g].status]
      /\ [h \in H |-> Verdict(h)'] = [[h \in H |-> Verdict(h)] EXCEPT ![g] = Verdict(g)']
    BY <1>1, OneClient
<1>3. w[g].kind = "none" /\ w[g].status = "none" /\ w[g].pc = "idle"
    BY <1>1 DEF IdleWorker
<1>4. Verdict(g) = "none"
    BY <1>3, NoVerdict DEF InService, Awaited
<1>5. Verdict(g)' = "none"
  <2>1. For(g)' = {}
    <3>1. \A m \in Found : m.life \in 1..life /\ (m.life = life => m.seq <= seq)
        BY DEF RInv, Ids, Flight
    <3>2. ToSet(w'[g].todo) = {}
        BY <1>1, SmallSets
    <3>3. ASSUME NEW m \in Found, m.life = life', m.seq = w'[g].seq PROVE FALSE
        BY <1>1, <3>1, <3>3, RInvQueues
    <3>4. QED
        BY <1>1, <3>2, <3>3 DEF For, Answers
  <2>2. Verdicts'
    <3>1. (RInv => Verdicts)'
        BY VerdictIs, PTL
    <3>2. QED
        BY <3>1
  <2>3. QED
      BY <2>1, <2>2 DEF Verdicts
<1>6. kind \in {"load", "add", "remove", "nodes", "update", "connect", "disconnect", "param",
                "control"} /\ kind # "nodes"
    BY DEF AllKinds
<1>7. [h \in H |-> w[h].kind][g] = "none" /\ [h \in H |-> w'[h].kind][g] = kind
    BY <1>1, <1>3
<1>8. CASE w'[g].status = "none"
  <2>1. /\ [h \in H |-> w'[h].status] = [h \in H |-> w[h].status]
        /\ [h \in H |-> Verdict(h)'] = [h \in H |-> Verdict(h)]
    <3>1. \A h \in H : w'[h].status = w[h].status /\ Verdict(h)' = Verdict(h)
        BY <1>1, <1>3, <1>4, <1>5, <1>8, OthersVerdict
    <3>2. [h \in H |-> w'[h].status] = [h \in H |-> w[h].status]
        BY <3>1
    <3>3. [h \in H |-> Verdict(h)'] = [h \in H |-> Verdict(h)]
        BY <3>1
    <3>4. QED
        BY <3>2, <3>3
  <2>2. Promise!Ask(g)
      BY <1>2, <1>6, <1>7, <2>1 DEF Promise!Ask
  <2>3. QED
      BY <2>2 DEF PromiseStep, Promise!Next
<1>9. CASE w'[g].status = "unavailable"
  <2>1. Promise!Tell(g, "unavailable")
      BY <1>2, <1>5, <1>9 DEF Promise!Tell
  <2>2. Promise!Ask(g)
      BY <1>2, <1>6, <1>7, <2>1 DEF Promise!Ask
  <2>3. QED
      BY <2>2 DEF PromiseStep, Promise!Next
<1>10. CASE w'[g].status = "accepted" /\ kind \notin Awaited
  <2>1. Promise!Tell(g, "accepted")
      BY <1>2, <1>5, <1>10 DEF Promise!Tell
  <2>2. Promise!Ask(g)
      BY <1>2, <1>6, <1>7, <1>10, <2>1 DEF Promise!Ask
  <2>3. QED
      BY <2>2 DEF PromiseStep, Promise!Next
<1>11. \/ w'[g].status = (IF kind \in Awaited \cup Noted THEN "none" ELSE "accepted")
       \/ w'[g].status = "unavailable"
    BY DEF Sent
<1>12. QED
    BY <1>8, <1>9, <1>10, <1>11

\* The start and the end of a request.
LEMMA EdgePromise ==
  ASSUME RInv, RInv', HasRoom, life = 1, NEW g \in H, RequestNodes(g) \/ Return(g)
  PROVE  PromiseStep
<1>1. /\ w' = [w EXCEPT ![g] = w'[g]] /\ UNCHANGED life /\ Found' = Found
      /\ \/ w[g] = IdleWorker /\ w'[g].kind = "nodes" /\ w'[g].status = "none"
         \/ w[g].pc = "done" /\ w'[g] = IdleWorker
    BY EdgeMoves DEF RInv, Found
<1>2. /\ [h \in H |-> w'[h].kind] = [[h \in H |-> w[h].kind] EXCEPT ![g] = w'[g].kind]
      /\ [h \in H |-> w'[h].status] = [[h \in H |-> w[h].status] EXCEPT ![g] = w'[g].status]
      /\ [h \in H |-> Verdict(h)'] = [[h \in H |-> Verdict(h)] EXCEPT ![g] = Verdict(g)']
    BY <1>1, OneClient
<1>3. CASE w[g] = IdleWorker /\ w'[g].kind = "nodes" /\ w'[g].status = "none"
  <2>1. w[g].kind = "none" /\ w[g].status = "none"
      BY <1>3 DEF IdleWorker
  <2>2. Verdict(g) = "none" /\ Verdict(g)' = "none"
      BY <1>3, <2>1 DEF Verdict, InService, Awaited
  <2>3. /\ [h \in H |-> w'[h].status] = [h \in H |-> w[h].status]
        /\ [h \in H |-> Verdict(h)'] = [h \in H |-> Verdict(h)]
    <3>1. \A h \in H : w'[h].status = w[h].status /\ Verdict(h)' = Verdict(h)
        BY <1>1, <1>3, <2>1, <2>2, OthersVerdict
    <3>2. [h \in H |-> w'[h].status] = [h \in H |-> w[h].status]
        BY <3>1
    <3>3. [h \in H |-> Verdict(h)'] = [h \in H |-> Verdict(h)]
        BY <3>1
    <3>4. QED
        BY <3>2, <3>3
  <2>4. Promise!Ask(g)
      BY <1>2, <1>3, <2>1, <2>3 DEF Promise!Ask
  <2>5. QED
      BY <2>4 DEF PromiseStep, Promise!Next
<1>4. CASE w[g].pc = "done" /\ w'[g] = IdleWorker
  <2>1. w[g].status # "none"
      BY <1>4, RoutedFields DEF Route
  <2>2. w'[g].kind = "none" /\ w'[g].status = "none"
      BY <1>4 DEF IdleWorker
  <2>3. Verdict(g) = "none" /\ Verdict(g)' = "none"
      BY <1>4, <2>2 DEF Verdict, InService, Awaited
  <2>4. [h \in H |-> Verdict(h)'] = [h \in H |-> Verdict(h)]
      BY <1>2, <2>3
  <2>5. Promise!Close(g)
      BY <1>2, <2>1, <2>2, <2>4 DEF Promise!Close
  <2>6. QED
      BY <2>5 DEF PromiseStep, Promise!Next
<1>5. QED
    BY <1>1, <1>3, <1>4

\* The engine decides about one request at most.
LEMMA TakePromise ==
  ASSUME RInv, RInv', life = 1, EngineTake
  PROVE  PromiseStep
<1> DEFINE c == Head(cmdq)
<1>1. UNCHANGED <<w, life>> /\ cmdq # <<>> /\ cmdq' = Tail(cmdq)
    BY DEF EngineTake
<1>2. /\ outbox' # {}
      /\ \A m \in outbox' : m.life = c.life /\ m.seq = c.seq /\ m.type = c.type
  <2>1. \/ EngineLoad(c) \/ EngineAdd(c) \/ EngineRemove(c) \/ EngineChange(c)
        \/ EngineSnapshot(c) \/ EngineRefuse(c)
      BY DEF EngineTake
  <2>2. QED
      BY <2>1, EngineAnswers
<1>3. Found \subseteq Found' /\ (\A m \in Found' \ Found : m \in outbox') /\ outbox' \subseteq Found'
    BY IdsTake DEF Found
<1>4. c \in ToSet(cmdq)
    BY <1>1, RInvQueues, TailSet
<1> HIDE DEF c
<1>5. Verdicts /\ Verdicts'
  <2>1. (RInv => Verdicts)'
      BY VerdictIs, PTL
  <2>2. QED
      BY <2>1, VerdictIs
<1>6. \A h \in H : /\ InService(h)' <=> InService(h)
                   /\ \A m : Answers(h, m)' <=> Answers(h, m)
    BY <1>1 DEF InService, Answers
<1>7. ASSUME NEW h \in H, InService(h), ~(\E m \in outbox' : Answers(h, m)) PROVE For(h)' = For(h)
    BY <1>1, <1>3, <1>6, <1>7 DEF For
<1>8. CASE \E g \in H : InService(g) /\ \E m \in outbox' : Answers(g, m)
  <2>1. PICK g \in H : InService(g) /\ \E m \in outbox' : Answers(g, m)
      BY <1>8
  <2>2. c.life = life /\ c.seq = w[g].seq /\ c.type = w[g].kind
      BY <1>2, <2>1 DEF Answers
  <2>3. \A m \in Flight : ~Answers(g, m)
      BY <1>4, <2>2 DEF RInv, Ids, Answers
  <2>4. For(g) = {}
      BY <2>3 DEF For, Flight
  <2>5. Verdict(g) = "none"
      BY <1>5, <2>4 DEF Verdicts
  <2>6. For(g)' # {}
      BY <1>1, <1>3, <1>6, <2>1 DEF For
  <2>7. Verdict(g)' \in {"yes", "no"}
      BY <1>5, <1>6, <2>1, <2>6 DEF Verdicts
  <2>8. ASSUME NEW h \in H, h # g PROVE Verdict(h)' = Verdict(h)
    <3>1. CASE InService(h)
      <4>1. ~(\E m \in outbox' : Answers(h, m))
        <5>1. w[h].seq # w[g].seq
            BY <2>1, <2>8, <3>1 DEF InService, RInv, Ids
        <5>2. QED
            BY <1>2, <2>2, <5>1 DEF Answers
      <4>2. QED
          BY <1>6, <1>7, <4>1, SameVerdict
    <3>2. CASE ~InService(h)
        BY <1>5, <1>6, <3>2 DEF Verdicts
    <3>3. QED
        BY <3>1, <3>2
  <2>9. [h \in H |-> Verdict(h)'] = [[h \in H |-> Verdict(h)] EXCEPT ![g] = Verdict(g)']
      BY <2>8
  <2>10. /\ [h \in H |-> w'[h].kind] = [h \in H |-> w[h].kind]
         /\ [h \in H |-> w'[h].status] = [h \in H |-> w[h].status]
      BY <1>1
  <2>11. w[g].kind # "none" /\ w[g].status = "none"
    <3>1. w[g].kind # "none" /\ w[g].pc # "done"
        BY <2>1 DEF InService, Awaited
    <3>2. QED
        BY <3>1, RoutedFields DEF Route
  <2>12. Promise!Decide(g)
      BY <2>5, <2>7, <2>9, <2>10, <2>11 DEF Promise!Decide, Promise!Open
  <2>13. QED
      BY <2>12 DEF PromiseStep, Promise!Next
<1>9. CASE ~(\E g \in H : InService(g) /\ \E m \in outbox' : Answers(g, m))
  <2>1. \A h \in H : Verdict(h)' = Verdict(h)
      BY <1>6, <1>7, <1>9, SameVerdict
  <2>2. \A h \in H : w'[h].kind = w[h].kind /\ w'[h].status = w[h].status
                     /\ Verdict(h)' = Verdict(h)
      BY <1>1, <2>1
  <2>3. QED
      BY <2>2, NoClient DEF PromiseStep
<1>10. QED
    BY <1>8, <1>9

\* A step that touches no handler and loses no result.
LEMMA SamePromise ==
  ASSUME RInv, RInv', UNCHANGED <<w, life>>, Found' = Found
  PROVE  PromiseStep
<1>1. \A h \in H : /\ InService(h)' <=> InService(h)
                   /\ For(h)' = For(h)
    BY DEF InService, For, Answers
<1>2. \A h \in H : Verdict(h)' = Verdict(h)
    BY <1>1, SameVerdict
<1>3. \A h \in H : w'[h].kind = w[h].kind /\ w'[h].status = w[h].status
                   /\ Verdict(h)' = Verdict(h)
    BY <1>2
<1>4. QED
    BY <1>3, NoClient DEF PromiseStep

\* Every step of one run of the process.
LEMMA NextPromise ==
  ASSUME RInv, RInv', HasRoom, life = 1, life' = 1, [Next]_vars
  PROVE  PromiseStep
<1>1. CASE UNCHANGED vars
  <2>1. UNCHANGED <<w, life, resq, pending, outbox>>
      BY <1>1 DEF vars, bridgeVars, engineVars
  <2>2. QED
      BY <2>1, SamePromise DEF Found
<1>2. ASSUME NEW g \in H, Step(g) \/ Timeout(g) PROVE PromiseStep
  <2>1. CASE Moved(g)
      BY <2>1, MovedPromise
  <2>2. CASE PushSnapshotRequest(g)
    <3>1. SentSnapshot(g)
        BY <2>2, SnapshotMoves DEF RInv
    <3>2. /\ w' = [w EXCEPT ![g] = w'[g]] /\ UNCHANGED life /\ Found' = Found
          /\ w'[g].kind = w[g].kind /\ w'[g].status = w[g].status /\ w[g].kind = "nodes"
        BY <3>1 DEF SentSnapshot, Found
    <3>3. Verdict(g) = "none" /\ Verdict(g)' = "none"
        BY <3>2 DEF Verdict, InService, Awaited
    <3>4. \A h \in H : h # g => w'[h] = w[h] /\ Verdict(h)' = Verdict(h)
        BY <3>2, OthersVerdict
    <3>5. QED
        BY <3>2, <3>3, <3>4, NoClient DEF PromiseStep
  <2>3. CASE Return(g)
      BY <2>3, EdgePromise
  <2>4. QED
      BY <1>2, <2>1, <2>2, <2>3, StepMoves DEF RInv
<1>3. ASSUME NEW g \in H, Receive(g) PROVE PromiseStep
  <2>1. CASE RequestNodes(g)
      BY <2>1, EdgePromise
  <2>2. ASSUME NEW kind \in Kinds \ {"nodes", "value"}, NEW arg \in Args(kind),
               SendCommand(g, kind, arg)
        PROVE  PromiseStep
    <3>1. kind \in AllKinds \ {"nodes", "value"}
        BY BridgeAssumption
    <3>2. Sent(g, kind)
        BY <2>2, <3>1, SendMoves DEF RInv
    <3>3. QED
        BY <3>1, <3>2, SentPromise
  <2>3. QED
      BY <1>3, <2>1, <2>2 DEF Receive
<1>4. CASE Restart \/ \E h \in H : CrashInPersist(h)
    BY <1>4 DEF Restart, CrashInPersist, NewLife
<1>5. ASSUME NEW n \in DOMAIN eng.nodes, RememberValue(n) PROVE PromiseStep
  <2>1. UNCHANGED <<w, life, resq, pending, outbox>>
      BY <1>5 DEF RememberValue, bridgeVars, engineVars
  <2>2. QED
      BY <2>1, SamePromise DEF Found
<1>6. CASE EngineTake
    BY <1>6, TakePromise
<1>7. CASE EnginePush
    BY <1>7, PushFacts, SamePromise
<1>8. QED
    BY <1>1, <1>2, <1>3, <1>4, <1>5, <1>6, <1>7 DEF Next, Quiet

\* What Bridge promises to its clients, in one run of the process and as long
\* as pending_results_ has room: "accepted" is what the engine said of this very
\* command, "unavailable" that it refused it or never got it, and no result of
\* another worker's command, or of an earlier one that came too late, is taken
\* for the answer.
THEOREM BridgeImplementsService == Spec /\ [](life = 1 /\ HasRoom) => ImplementsService
<1>1. Init => Promise!Init
  <2>1. IdleWorker.kind = "none" /\ IdleWorker.status = "none"
      BY DEF IdleWorker
  <2>2. QED
      BY <2>1 DEF Init, Promise!Init, Verdict, InService, Awaited
<1>2. RInv /\ RInv' /\ (life = 1 /\ HasRoom) /\ (life = 1 /\ HasRoom)' /\ [Next]_vars =>
        [Promise!Next]_<<[h \in H |-> w[h].kind], [h \in H |-> Verdict(h)], [h \in H |-> w[h].status]>>
    BY NextPromise DEF PromiseStep
<1>3. QED
    BY <1>1, <1>2, SpecRInv, PTL DEF Spec, ImplementsService, Promise!Spec, Promise!serviceVars
=============================================================================
