------------------------------ MODULE TableProofs ------------------------------
(***************************************************************************)
(* The file that a CSV request asks for reads back, for every request,     *)
(* every sample and any number of cycles: a reader of CSV finds one record *)
(* for each line, with the header that was asked for and under each name   *)
(* the values that were asked for.                                         *)
(*                                                                         *)
(* The argument: CsvReads says that a reader goes from one state to        *)
(* another over a text.  It composes over texts that follow each other     *)
(* (Onwards, AllOf), so that cells, lines and the file can be taken one at *)
(* a time.  The invariant TableInv names, for each line, the record that   *)
(* it reads as.                                                            *)
(***************************************************************************)
EXTENDS RequestTraffic, RequestProofs

Special == {",", Quote, "\n", "\r"}

\* What a CSV file is made of: strings, and the literals the code writes.
CsvChars ==
  STRING \cup {",", Quote, "\n", "cycle_id", "timestamp_ns", "now"} \cup Supported
    \cup {ToString(n) : n \in 0..MaxCycle}

CsvTexts == Seq(CsvChars)

\* A reader's state.
At(at, cell, row, rows) == [at |-> at, cell |-> cell, row |-> row, rows |-> rows]

\* r is a reader's way over the first k characters of a text.
Walks(r, s, text, k) == r = [i \in 0..k |-> IF i = 0 THEN s ELSE CsvStep(r[i - 1], text[i])]

\* A reader in state s reads the text and is in state t.
CsvReads(s, text, t) == \E r : Walks(r, s, text, Len(text)) /\ r[Len(text)] = t
-----------------------------------------------------------------------------
(* Reading                                                                 *)

LEMMA Nothing == \A s : CsvReads(s, <<>>, s)
<1> SUFFICES ASSUME NEW s PROVE CsvReads(s, <<>>, s)
  OBVIOUS
<1> DEFINE r == [i \in 0..0 |-> s]
<1>1. r = [i \in 0..0 |-> IF i = 0 THEN s ELSE CsvStep(r[i - 1], <<>>[i])] /\ r[0] = s
  OBVIOUS
<1>2. Len(<<>>) = 0
  OBVIOUS
<1> HIDE DEF r
<1> QED
  BY <1>1, <1>2 DEF CsvReads, Walks

LEMMA OneChar == \A s, c : CsvReads(s, <<c>>, CsvStep(s, c))
<1> SUFFICES ASSUME NEW s, NEW c PROVE CsvReads(s, <<c>>, CsvStep(s, c))
  OBVIOUS
<1> DEFINE r == [i \in 0..1 |-> IF i = 0 THEN s ELSE CsvStep(s, c)]
<1>1. Len(<<c>>) = 1 /\ <<c>>[1] = c
  OBVIOUS
<1>2. r = [i \in 0..1 |-> r[i]] /\ r[0] = s /\ r[1] = CsvStep(s, c)
  OBVIOUS
<1>3. \A i \in 0..1 : r[i] = IF i = 0 THEN s ELSE CsvStep(r[i - 1], <<c>>[i])
  <2>1. \A i \in 0..1 : i = 0 \/ (i = 1 /\ i - 1 = 0)
    OBVIOUS
  <2> HIDE DEF r
  <2> QED
    BY <1>1, <1>2, <2>1
<1> HIDE DEF r
<1>4. Walks(r, s, <<c>>, 1)
  BY <1>2, <1>3 DEF Walks
<1> QED
  BY <1>1, <1>2, <1>4 DEF CsvReads

\* A reader goes on where it was.
LEMMA Onwards ==
  ASSUME NEW a \in CsvTexts, NEW b \in CsvTexts, NEW s, NEW t, NEW u,
         CsvReads(s, a, t), CsvReads(t, b, u)
  PROVE  a \o b \in CsvTexts /\ CsvReads(s, a \o b, u)
<1>1. PICK p : Walks(p, s, a, Len(a)) /\ p[Len(a)] = t
  BY DEF CsvReads
<1>2. PICK q : Walks(q, t, b, Len(b)) /\ q[Len(b)] = u
  BY DEF CsvReads
<1>3. /\ Len(a) \in Nat /\ Len(b) \in Nat /\ Len(a \o b) = Len(a) + Len(b)
      /\ \A i \in 1..Len(a) : (a \o b)[i] = a[i]
      /\ \A i \in (Len(a) + 1)..(Len(a) + Len(b)) : (a \o b)[i] = b[i - Len(a)]
      /\ a \o b \in CsvTexts
  BY DEF CsvTexts
<1>4. /\ \A i \in 0..Len(a) : p[i] = IF i = 0 THEN s ELSE CsvStep(p[i - 1], a[i])
      /\ \A i \in 0..Len(b) : q[i] = IF i = 0 THEN t ELSE CsvStep(q[i - 1], b[i])
  BY <1>1, <1>2 DEF Walks
<1> DEFINE k == Len(a) + Len(b)
           r == [i \in 0..k |-> IF i <= Len(a) THEN p[i] ELSE q[i - Len(a)]]
<1>5. /\ r = [i \in 0..k |-> r[i]]
      /\ \A i \in 0..Len(a) : r[i] = p[i]
      /\ \A i \in (Len(a) + 1)..k : r[i] = q[i - Len(a)]
  BY <1>3
<1>6. r[k] = u
  <2>1. CASE Len(b) = 0
    <3>1. t = u
      BY <1>2, <1>4, <2>1, <1>3
    <3> QED
      BY <1>1, <1>3, <1>5, <2>1, <3>1
  <2>2. CASE Len(b) # 0
    <3>1. k \in (Len(a) + 1)..k /\ k - Len(a) = Len(b)
      BY <1>3, <2>2
    <3> QED
      BY <1>2, <1>5, <3>1
  <2> QED
    BY <2>1, <2>2
<1> HIDE DEF r
<1>7. \A i \in 0..k : r[i] = IF i = 0 THEN s ELSE CsvStep(r[i - 1], (a \o b)[i])
  <2> SUFFICES ASSUME NEW i \in 0..k
               PROVE  r[i] = IF i = 0 THEN s ELSE CsvStep(r[i - 1], (a \o b)[i])
    OBVIOUS
  <2>1. CASE i \in 0..Len(a)
    <3>1. i # 0 => i \in 1..Len(a) /\ i - 1 \in 0..Len(a)
      BY <1>3, <2>1
    <3> QED
      BY <1>3, <1>4, <1>5, <2>1, <3>1
  <2>2. CASE i = Len(a) + 1 /\ i \in 0..k
    <3>1. /\ i # 0 /\ i \in (Len(a) + 1)..k /\ i - Len(a) = 1 /\ i - 1 = Len(a)
          /\ 1 \in 0..Len(b) /\ 0 \in 0..Len(b) /\ 1 - 1 = 0 /\ Len(a) \in 0..Len(a)
      BY <1>3, <2>2
    <3>2. q[0] = t /\ q[1] = CsvStep(q[0], b[1])
      BY <1>4, <3>1
    <3>3. r[i] = q[1] /\ r[i - 1] = t /\ (a \o b)[i] = b[1]
      BY <1>1, <1>3, <1>5, <3>1
    <3> QED
      BY <3>1, <3>2, <3>3
  <2>3. CASE i \in (Len(a) + 2)..k
    <3>1. /\ i # 0 /\ i \in (Len(a) + 1)..k /\ i - 1 \in (Len(a) + 1)..k
          /\ i - Len(a) \in 0..Len(b) /\ i - Len(a) # 0 /\ (i - Len(a)) - 1 = (i - 1) - Len(a)
      BY <1>3, <2>3
    <3>2. q[i - Len(a)] = CsvStep(q[(i - 1) - Len(a)], b[i - Len(a)])
      BY <1>4, <3>1
    <3>3. r[i] = q[i - Len(a)] /\ r[i - 1] = q[(i - 1) - Len(a)] /\ (a \o b)[i] = b[i - Len(a)]
      BY <1>3, <1>5, <3>1
    <3> QED
      BY <3>1, <3>2, <3>3
  <2> QED
    BY <1>3, <2>1, <2>2, <2>3
<1>8. Walks(r, s, a \o b, k)
  BY <1>5, <1>7 DEF Walks
<1> QED
  BY <1>3, <1>6, <1>8 DEF CsvReads

\* A reader of texts in a row goes from each one's state to the next one's.
LEMMA AllOf ==
  ASSUME NEW seqs \in Seq(CsvTexts), NEW st,
         \A i \in 1..Len(seqs) : CsvReads(st[i - 1], seqs[i], st[i])
  PROVE  FlattenSeq(seqs) \in CsvTexts /\ CsvReads(st[0], FlattenSeq(seqs), st[Len(seqs)])
<1> DEFINE n == Len(seqs)
<1>1. n \in Nat /\ \A i \in 1..n : seqs[i] \in CsvTexts
  OBVIOUS
<1>2. CASE n = 0
  <2>1. FlattenSeq(seqs) = <<>>
    <3>1. FlattenSeq(seqs) = seqs
      BY <1>2 DEF FlattenSeq
    <3>2. seqs = <<>>
      BY <1>2
    <3> QED
      BY <3>1, <3>2
  <2>2. <<>> \in CsvTexts
    BY DEF CsvTexts
  <2> QED
    BY <1>2, <2>1, <2>2, Nothing
<1>3. CASE n # 0
  <2>1. PICK f : Flattens(f, seqs, n) /\ FlattenSeq(seqs) = f[n]
    BY <1>1, <1>3, Flattened
  <2>2. \A i \in 1..n : f[i] = IF i = 1 THEN seqs[i] ELSE f[i - 1] \o seqs[i]
    BY <2>1 DEF Flattens
  <2> DEFINE Read(i) == f[i] \in CsvTexts /\ CsvReads(st[0], f[i], st[i])
             T == {i \in 1..n : ~Read(i)}
  <2>3. Read(1)
    <3>1. 1 \in 1..n /\ f[1] = seqs[1] /\ 1 - 1 = 0
      BY <1>1, <1>3, <2>2
    <3>2. CsvReads(st[1 - 1], seqs[1], st[1])
      BY <3>1
    <3> QED
      BY <1>1, <3>1, <3>2
  <2>4. ASSUME NEW i \in 2..n, Read(i - 1)
        PROVE  Read(i)
    <3>0. i \in 1..n /\ i # 1
      BY <1>1
    <3>1. i \in 1..n /\ f[i] = f[i - 1] \o seqs[i]
      BY <2>2, <3>0
    <3>2. seqs[i] \in CsvTexts /\ CsvReads(st[i - 1], seqs[i], st[i])
      BY <1>1, <3>1
    <3> QED
      BY <2>4, <3>1, <3>2, Onwards
  <2> HIDE DEF Read
  <2>5. ASSUME T # {} PROVE FALSE
    <3>1. T \in SUBSET Nat
      BY <1>1
    <3>2. PICK x \in T : \A y \in T : x <= y
      BY <2>5, <3>1, Smallest
    <3>3. x \in 2..n /\ x - 1 \in 1..n
      BY <1>1, <2>3, <3>2
    <3>4. Read(x - 1)
      BY <3>2, <3>3
    <3> QED
      BY <2>4, <3>2, <3>3, <3>4
  <2>6. Read(n)
    BY <1>1, <1>3, <2>5
  <2> QED
    BY <2>1, <2>6 DEF Read
<1> QED
  BY <1>2, <1>3

\* There is one way over a text.
LEMMA OneWay ==
  ASSUME NEW k \in Nat, NEW text, NEW s, NEW p, NEW q, Walks(p, s, text, k), Walks(q, s, text, k)
  PROVE  p[k] = q[k]
<1> DEFINE T == {i \in 0..k : p[i] # q[i]}
<1>1. /\ \A i \in 0..k : p[i] = IF i = 0 THEN s ELSE CsvStep(p[i - 1], text[i])
      /\ \A i \in 0..k : q[i] = IF i = 0 THEN s ELSE CsvStep(q[i - 1], text[i])
  BY DEF Walks
<1>2. ASSUME T # {} PROVE FALSE
  <2>1. T \in SUBSET Nat
    OBVIOUS
  <2>2. PICK x \in T : \A y \in T : x <= y
    BY <1>2, <2>1, Smallest
  <2>3. x # 0 /\ x \in 0..k
    BY <1>1, <2>2
  <2>4. x - 1 \in 0..k /\ p[x - 1] = q[x - 1]
    BY <2>2, <2>3
  <2> QED
    BY <1>1, <2>2, <2>3, <2>4
<1> QED
  BY <1>2

\* What a reader makes of a file is decided by the state it ends in.
LEMMA CsvReadIs ==
  ASSUME NEW text \in CsvTexts, NEW rows,
         CsvReads(At("start", <<>>, <<>>, <<>>), text, At("start", <<>>, <<>>, rows))
  PROVE  CsvRead(text) = rows
<1> DEFINE s == At("start", <<>>, <<>>, <<>>)
<1>0. Len(text) \in Nat
  BY DEF CsvTexts
<1>1. PICK q : Walks(q, s, text, Len(text)) /\ q[Len(text)] = At("start", <<>>, <<>>, rows)
  BY DEF CsvReads
<1> DEFINE r[i \in 0..Len(text)] ==
             IF i = 0 THEN [at |-> "start", cell |-> <<>>, row |-> <<>>, rows |-> <<>>]
             ELSE CsvStep(r[i - 1], text[i])
<1>2. r = [i \in 0..Len(text) |->
             IF i = 0 THEN [at |-> "start", cell |-> <<>>, row |-> <<>>, rows |-> <<>>]
             ELSE CsvStep(r[i - 1], text[i])]
  <2>1. q = [i \in 0..Len(text) |->
               IF i = 0 THEN [at |-> "start", cell |-> <<>>, row |-> <<>>, rows |-> <<>>]
               ELSE CsvStep(q[i - 1], text[i])]
    BY <1>1, Zenon DEF Walks, At
  <2> QED
    BY <2>1, Zenon
<1>3. CsvRead(text) = IF r[Len(text)].at = "start" /\ r[Len(text)].row = <<>>
                      THEN r[Len(text)].rows ELSE NotCsv
  BY Zenon DEF CsvRead
<1> HIDE DEF r
<1>4. Walks(r, s, text, Len(text))
  BY <1>2, Zenon DEF Walks, At
<1>5. r[Len(text)] = At("start", <<>>, <<>>, rows)
  BY <1>0, <1>1, <1>4, OneWay
<1> QED
  BY <1>3, <1>5 DEF At
-----------------------------------------------------------------------------
(* Cells                                                                   *)

Ends == {"start", "plain", "behind"}

\* What a reader does with a quote, with any other character, and at the end of a
\* cell and of a line.
LEMMA QuoteSteps ==
  \A cell, row, rows :
    /\ CsvStep(At("start", cell, row, rows), Quote) = At("quoted", cell, row, rows)
    /\ CsvStep(At("quoted", cell, row, rows), Quote) = At("behind", cell, row, rows)
    /\ CsvStep(At("behind", cell, row, rows), Quote) = At("quoted", Append(cell, Quote), row, rows)
<1> SUFFICES ASSUME NEW cell, NEW row, NEW rows
    PROVE  /\ CsvStep(At("start", cell, row, rows), Quote) = At("quoted", cell, row, rows)
           /\ CsvStep(At("quoted", cell, row, rows), Quote) = At("behind", cell, row, rows)
           /\ CsvStep(At("behind", cell, row, rows), Quote)
                = At("quoted", Append(cell, Quote), row, rows)
  OBVIOUS
<1>0. "," # Quote /\ "\n" # Quote
  BY DEF Quote
<1>1. CsvStep(At("start", cell, row, rows), Quote) = At("quoted", cell, row, rows)
  BY <1>0 DEF CsvStep, At
<1>2. CsvStep(At("quoted", cell, row, rows), Quote) = At("behind", cell, row, rows)
  BY DEF CsvStep, At
<1>3. CsvStep(At("behind", cell, row, rows), Quote) = At("quoted", Append(cell, Quote), row, rows)
  BY <1>0 DEF CsvStep, At
<1> QED
  BY <1>1, <1>2, <1>3

LEMMA QuotedStep ==
  \A cell, row, rows, c :
    c # Quote => CsvStep(At("quoted", cell, row, rows), c) = At("quoted", Append(cell, c), row, rows)
BY DEF CsvStep, At

LEMMA PlainSteps ==
  \A at \in {"start", "plain"} : \A cell, row, rows, c :
    c \notin Special => CsvStep(At(at, cell, row, rows), c) = At("plain", Append(cell, c), row, rows)
<1> SUFFICES ASSUME NEW at \in {"start", "plain"}, NEW cell, NEW row, NEW rows, NEW c, c \notin Special
             PROVE  CsvStep(At(at, cell, row, rows), c) = At("plain", Append(cell, c), row, rows)
  OBVIOUS
<1> QED
  BY DEF CsvStep, At, Special

\* A name for the step, which keeps the character out of sight of the SMT backend.
AtComma(s) == CsvStep(s, ",")

LEMMA CommaStep ==
  ASSUME NEW at \in Ends, NEW cell, NEW row, NEW rows
  PROVE  AtComma(At(at, cell, row, rows)) = At("start", <<>>, Append(row, cell), rows)
<1>1. "," # Quote /\ "," # "\n"
  BY DEF Quote
<1> QED
  BY <1>1 DEF AtComma, CsvStep, At, EndCell, Ends

LEMMA NewlineStep ==
  ASSUME NEW at \in Ends, NEW cell, NEW row, NEW rows
  PROVE  CsvStep(At(at, cell, row, rows), "\n")
           = At("start", <<>>, <<>>, Append(rows, Append(row, cell)))
<1>1. "\n" # Quote /\ "," # "\n"
  BY DEF Quote
<1> QED
  BY <1>1 DEF CsvStep, At, EndRow, Ends

LEMMA FunctionIsSeq ==
  ASSUME NEW S, NEW n \in Nat, NEW f, f = [i \in 1..n |-> f[i]], \A i \in 1..n : f[i] \in S
  PROVE  f \in Seq(S) /\ Len(f) = n
<1>1. f \in [1..n -> S]
  OBVIOUS
<1> QED
  BY <1>1

LEMMA CutIsSeq == \A S : \A s \in Seq(S) : \A k \in 0..Len(s) : SubSeq(s, 1, k) \in Seq(S)
OBVIOUS

\* The next beginning of a sequence.
LEMMA NextOf ==
  ASSUME NEW S, NEW s \in Seq(S), NEW i \in 1..Len(s)
  PROVE  /\ SubSeq(s, 1, i - 1) \in Seq(S)
         /\ Append(SubSeq(s, 1, i - 1), s[i]) = SubSeq(s, 1, i)
         /\ SubSeq(s, 1, 0) = <<>> /\ SubSeq(s, 1, Len(s)) = s
OBVIOUS

\* A text without special characters is read as it is.
LEMMA PlainReads ==
  ASSUME NEW text \in CsvTexts, ~Holds(text, Special), NEW row, NEW rows
  PROVE  CsvReads(At("start", <<>>, row, rows), text,
                  At(IF text = <<>> THEN "start" ELSE "plain", text, row, rows))
<1> DEFINE n == Len(text)
           Where(i) == IF i = 0 THEN "start" ELSE "plain"
           r == [i \in 0..n |-> At(Where(i), SubSeq(text, 1, i), row, rows)]
<1>1. n \in Nat /\ (n = 0 <=> text = <<>>) /\ SubSeq(text, 1, n) = text /\ SubSeq(text, 1, 0) = <<>>
  BY DEF CsvTexts
<1>2. \A i \in 1..n : text[i] \notin Special
  BY DEF Holds
<1>3. /\ \A i \in 0..n : r[i] = At(Where(i), SubSeq(text, 1, i), row, rows)
      /\ r = [i \in 0..n |-> r[i]]
  OBVIOUS
<1>4. 0 \in 0..n /\ n \in 0..n /\ Where(0) = "start" /\ \A i \in 1..n : Where(i) = "plain"
  BY <1>1
<1>5. \A i \in 0..n : Where(i) \in {"start", "plain"}
  OBVIOUS
<1> HIDE DEF r, Where
<1>6. ASSUME NEW i \in 1..n
      PROVE  r[i] = CsvStep(r[i - 1], text[i])
  <2>1. Append(SubSeq(text, 1, i - 1), text[i]) = SubSeq(text, 1, i)
    BY NextOf DEF CsvTexts
  <2>2. i \in 0..n /\ i - 1 \in 0..n
    BY <1>1
  <2>3. /\ r[i] = At("plain", SubSeq(text, 1, i), row, rows)
        /\ r[i - 1] = At(Where(i - 1), SubSeq(text, 1, i - 1), row, rows)
        /\ Where(i - 1) \in {"start", "plain"} /\ text[i] \notin Special
    BY <1>2, <1>3, <1>4, <1>5, <2>2
  <2> DEFINE before == SubSeq(text, 1, i - 1)
             at == Where(i - 1)
             c == text[i]
  <2>4. at \in {"start", "plain"} /\ c \notin Special
    BY <2>3
  <2> HIDE DEF before, at, c
  <2>5. CsvStep(At(at, before, row, rows), c) = At("plain", Append(before, c), row, rows)
    BY <2>4, PlainSteps
  <2> QED
    BY <2>1, <2>3, <2>5 DEF before, at, c
<1>7. r[0] = At("start", <<>>, row, rows)
  BY <1>1, <1>3, <1>4
<1>8. r[n] = At(IF text = <<>> THEN "start" ELSE "plain", text, row, rows)
  <2>1. CASE n = 0
    BY <1>1, <1>7, <2>1
  <2>2. CASE n # 0
    <3>1. n \in 1..n
      BY <1>1, <2>2
    <3> QED
      BY <1>1, <1>3, <1>4, <2>2, <3>1
  <2> QED
    BY <2>1, <2>2
<1>9. \A i \in 0..n : r[i] = IF i = 0 THEN At("start", <<>>, row, rows)
                             ELSE CsvStep(r[i - 1], text[i])
  BY <1>1, <1>6, <1>7
<1>10. Walks(r, At("start", <<>>, row, rows), text, n)
  BY <1>3, <1>9 DEF Walks
<1> QED
  BY <1>8, <1>10 DEF CsvReads

\* A text in quotes, its quotes doubled, is read as the text.
LEMMA QuotedReads ==
  ASSUME NEW text \in CsvTexts, MustQuote(text), NEW row, NEW rows
  PROVE  /\ CsvEscape(text) \in CsvTexts
         /\ CsvReads(At("start", <<>>, row, rows), CsvEscape(text), At("behind", text, row, rows))
<1> DEFINE n == Len(text)
           seqs == [i \in DOMAIN text |->
                      IF text[i] = Quote THEN <<Quote, Quote>> ELSE <<text[i]>>]
           st == [i \in 0..n |-> At("quoted", SubSeq(text, 1, i), row, rows)]
<1>1. /\ n \in Nat /\ DOMAIN text = 1..n /\ SubSeq(text, 1, n) = text /\ SubSeq(text, 1, 0) = <<>>
      /\ \A i \in 1..n : text[i] \in CsvChars
  BY DEF CsvTexts
<1>2. <<Quote>> \in CsvTexts /\ <<Quote, Quote>> \in CsvTexts /\ <<Quote, Quote>> = <<Quote>> \o <<Quote>>
  <2>1. Quote \in CsvChars
    BY DEF CsvChars
  <2>2. <<Quote, Quote>> = <<Quote>> \o <<Quote>>
    OBVIOUS
  <2> QED
    BY <2>1, <2>2 DEF CsvTexts
<1>3. seqs \in Seq(CsvTexts) /\ Len(seqs) = n
  <2>1. \A i \in 1..n : <<text[i]>> \in CsvTexts
    BY <1>1 DEF CsvTexts
  <2> QED
    BY <1>1, <1>2, <2>1
<1>4. ASSUME NEW i \in 1..n
      PROVE  CsvReads(st[i - 1], seqs[i], st[i])
  <2> DEFINE before == SubSeq(text, 1, i - 1)
  <2>1. Append(before, text[i]) = SubSeq(text, 1, i)
    BY NextOf DEF CsvTexts
  <2>2. /\ st[i - 1] = At("quoted", before, row, rows)
        /\ st[i] = At("quoted", Append(before, text[i]), row, rows)
    <3>1. i \in 0..n /\ i - 1 \in 0..n
      BY <1>1
    <3> QED
      BY <2>1, <3>1
  <2>3. seqs[i] = IF text[i] = Quote THEN <<Quote, Quote>> ELSE <<text[i]>>
    BY <1>1
  <2> HIDE DEF st, seqs, before
  <2>4. CASE text[i] = Quote
    <3>1. /\ CsvReads(At("quoted", before, row, rows), <<Quote>>, At("behind", before, row, rows))
          /\ CsvReads(At("behind", before, row, rows), <<Quote>>,
                      At("quoted", Append(before, Quote), row, rows))
      <4>1. /\ CsvStep(At("quoted", before, row, rows), Quote) = At("behind", before, row, rows)
            /\ CsvStep(At("behind", before, row, rows), Quote)
                 = At("quoted", Append(before, Quote), row, rows)
        BY QuoteSteps
      <4> QED
        BY <4>1, OneChar
    <3>2. CsvReads(At("quoted", before, row, rows), <<Quote>> \o <<Quote>>,
                   At("quoted", Append(before, Quote), row, rows))
      BY <1>2, <3>1, Onwards
    <3> QED
      BY <1>2, <2>2, <2>3, <2>4, <3>2
  <2>5. CASE text[i] # Quote
    <3>1. CsvStep(At("quoted", before, row, rows), text[i])
            = At("quoted", Append(before, text[i]), row, rows)
      BY <2>5, QuotedStep
    <3> QED
      BY <2>2, <2>3, <2>5, <3>1, OneChar
  <2> QED
    BY <2>4, <2>5
<1>5. st[0] = At("quoted", <<>>, row, rows) /\ st[n] = At("quoted", text, row, rows)
  <2>1. 0 \in 0..n /\ n \in 0..n /\ \A i \in 0..n : st[i] = At("quoted", SubSeq(text, 1, i), row, rows)
    BY <1>1
  <2> HIDE DEF st
  <2> QED
    BY <1>1, <2>1
<1>6. CsvEscape(text) = <<Quote>> \o FlattenSeq(seqs) \o <<Quote>>
  BY DEF CsvEscape
<1> HIDE DEF st, seqs
<1>7. /\ FlattenSeq(seqs) \in CsvTexts
      /\ CsvReads(At("quoted", <<>>, row, rows), FlattenSeq(seqs), At("quoted", text, row, rows))
  BY <1>3, <1>4, <1>5, AllOf
<1>8. /\ CsvReads(At("start", <<>>, row, rows), <<Quote>>, At("quoted", <<>>, row, rows))
      /\ CsvReads(At("quoted", text, row, rows), <<Quote>>, At("behind", text, row, rows))
  <2>1. /\ CsvStep(At("start", <<>>, row, rows), Quote) = At("quoted", <<>>, row, rows)
        /\ CsvStep(At("quoted", text, row, rows), Quote) = At("behind", text, row, rows)
    BY QuoteSteps
  <2> QED
    BY <2>1, OneChar
<1>9. /\ <<Quote>> \o FlattenSeq(seqs) \in CsvTexts
      /\ CsvReads(At("start", <<>>, row, rows), <<Quote>> \o FlattenSeq(seqs),
                  At("quoted", text, row, rows))
  BY <1>2, <1>7, <1>8, Onwards
<1> QED
  BY <1>2, <1>6, <1>8, <1>9, Onwards

\* The text of a cell, wherever it is in the file, is read as the value.
ReadsAs(cell, value) ==
  /\ cell \in CsvTexts /\ value \in CsvTexts
  /\ \A row, rows : \E at \in Ends :
       CsvReads(At("start", <<>>, row, rows), cell, At(at, value, row, rows))

LEMMA PlainCell ==
  ASSUME NEW text \in CsvTexts, ~Holds(text, Special)
  PROVE  ReadsAs(text, text)
BY PlainReads DEF ReadsAs, Ends

LEMMA EscapedCell ==
  ASSUME NEW text \in CsvTexts
  PROVE  ReadsAs(CsvEscape(text), text)
<1>1. CASE MustQuote(text)
  BY <1>1, QuotedReads DEF ReadsAs, Ends
<1>2. CASE ~MustQuote(text)
  <2>1. CsvEscape(text) = text /\ ~Holds(text, Special)
    BY <1>2 DEF CsvEscape, MustQuote, Special
  <2> QED
    BY <2>1, PlainCell
<1> QED
  BY <1>1, <1>2

\* A cell of one word.
LEMMA WordCell ==
  ASSUME NEW c \in CsvChars, c \notin Special
  PROVE  ReadsAs(<<c>>, <<c>>)
<1>1. <<c>> \in CsvTexts /\ ~Holds(<<c>>, Special)
  BY DEF CsvTexts, Holds
<1> QED
  BY <1>1, PlainCell
-----------------------------------------------------------------------------
(* Lines and files                                                         *)

CsvRows == Seq(CsvTexts)

\* Cells side by side, each of which reads as its value.
CellsReadAs(cells, values) ==
  /\ cells \in CsvRows /\ values \in CsvRows /\ Len(cells) = Len(values)
  /\ \A i \in 1..Len(cells) : ReadsAs(cells[i], values[i])

\* A line is read as a record, wherever it is in the file.
LineReadsAs(line, row) ==
  /\ line \in CsvTexts /\ row \in CsvRows
  /\ \A rows : CsvReads(At("start", <<>>, <<>>, rows), line,
                        At("start", <<>>, <<>>, Append(rows, row)))

LEMMA LineReads ==
  ASSUME NEW cells, NEW values, CellsReadAs(cells, values), Len(cells) > 0
  PROVE  LineReadsAs(Line(cells), values)
<1> DEFINE n == Len(cells)
           seqs == [i \in DOMAIN cells |-> IF i = 1 THEN cells[i] ELSE <<",">> \o cells[i]]
<1>1. /\ n \in Nat /\ n > 0 /\ Len(values) = n /\ DOMAIN cells = 1..n
      /\ \A i \in 1..n : cells[i] \in CsvTexts /\ ReadsAs(cells[i], values[i])
      /\ cells \in Seq(CsvTexts) /\ values \in Seq(CsvTexts)
  BY DEF CellsReadAs, CsvRows
<1>2. <<",">> \in CsvTexts /\ <<"\n">> \in CsvTexts
  BY DEF CsvTexts, CsvChars
<1>3. seqs \in Seq(CsvTexts) /\ Len(seqs) = n
      /\ \A i \in 1..n : seqs[i] = IF i = 1 THEN cells[i] ELSE <<",">> \o cells[i]
  <2>1. \A i \in 1..n : (IF i = 1 THEN cells[i] ELSE <<",">> \o cells[i]) \in CsvTexts
    <3>1. \A a, b \in CsvTexts : a \o b \in CsvTexts
      BY DEF CsvTexts
    <3> QED
      BY <1>1, <1>2, <3>1
  <2>2. /\ seqs = [i \in 1..n |-> seqs[i]]
        /\ \A i \in 1..n : seqs[i] = IF i = 1 THEN cells[i] ELSE <<",">> \o cells[i]
    BY <1>1
  <2> HIDE DEF seqs
  <2>3. \A i \in 1..n : seqs[i] \in CsvTexts
    BY <2>1, <2>2
  <2>4. seqs \in Seq(CsvTexts) /\ Len(seqs) = n
    BY <1>1, <2>2, <2>3, FunctionIsSeq
  <2> QED
    BY <2>2, <2>4
<1>4. Line(cells) = FlattenSeq(seqs) \o <<"\n">>
  BY DEF Line
<1> HIDE DEF seqs
<1> SUFFICES ASSUME NEW rows
             PROVE  /\ Line(cells) \in CsvTexts
                    /\ CsvReads(At("start", <<>>, <<>>, rows), Line(cells),
                                At("start", <<>>, <<>>, Append(rows, values)))
  BY <1>1 DEF LineReadsAs, CsvRows
<1> DEFINE Behind(i) == SubSeq(values, 1, i - 1)
           Here(i, at) == At(at, values[i], Behind(i), rows)
           End(i) == CHOOSE at \in Ends :
                       CsvReads(At("start", <<>>, Behind(i), rows), cells[i], Here(i, at))
           st == [i \in 0..n |-> IF i = 0 THEN At("start", <<>>, <<>>, rows) ELSE Here(i, End(i))]
<1>5. \A i \in 1..n : /\ End(i) \in Ends
                      /\ CsvReads(At("start", <<>>, Behind(i), rows), cells[i], Here(i, End(i)))
  <2> SUFFICES ASSUME NEW i \in 1..n
               PROVE  \E at \in Ends :
                        CsvReads(At("start", <<>>, Behind(i), rows), cells[i], Here(i, at))
    OBVIOUS
  <2> QED
    BY <1>1 DEF ReadsAs
<1>6. /\ st[0] = At("start", <<>>, <<>>, rows)
      /\ \A i \in 1..n : st[i] = Here(i, End(i))
  BY <1>1
<1>7. /\ Behind(1) = <<>>
      /\ \A i \in 1..n : Append(Behind(i), values[i]) = SubSeq(values, 1, i)
      /\ SubSeq(values, 1, n) = values
  BY <1>1, NextOf
<1> HIDE DEF st, End
<1>8. ASSUME NEW i \in 1..n
      PROVE  CsvReads(st[i - 1], seqs[i], st[i])
  <2>1. CASE i = 1
    <3>0. i - 1 = 0 /\ Behind(i) = <<>>
      BY <1>7, <2>1
    <3>1. st[i - 1] = At("start", <<>>, Behind(i), rows)
      BY <1>6, <3>0
    <3> HIDE DEF Behind, Here
    <3> QED
      BY <1>3, <1>5, <1>6, <2>1, <3>1
  <2>2. CASE i # 1
    <3>1. i - 1 \in 1..n /\ Behind(i) = SubSeq(values, 1, i - 1)
      BY <1>1, <2>2
    <3>2. Append(Behind(i - 1), values[i - 1]) = Behind(i)
      BY <1>7, <3>1
    <3>3. st[i - 1] = At(End(i - 1), values[i - 1], Behind(i - 1), rows) /\ End(i - 1) \in Ends
      BY <1>5, <1>6, <3>1
    <3> HIDE DEF Behind, Here
    <3>4. AtComma(st[i - 1]) = At("start", <<>>, Behind(i), rows)
      <4>1. PICK at \in Ends :
              \E cell, before :
                st[i - 1] = At(at, cell, before, rows) /\ Append(before, cell) = Behind(i)
        BY <3>2, <3>3
      <4>2. PICK cell, before :
              st[i - 1] = At(at, cell, before, rows) /\ Append(before, cell) = Behind(i)
        BY <4>1
      <4>3. AtComma(At(at, cell, before, rows)) = At("start", <<>>, Append(before, cell), rows)
        BY CommaStep
      <4> QED
        BY <4>2, <4>3
    <3>5. CsvReads(st[i - 1], <<",">>, At("start", <<>>, Behind(i), rows))
      <4>1. CsvReads(st[i - 1], <<",">>, AtComma(st[i - 1]))
        BY OneChar DEF AtComma
      <4> QED
        BY <3>4, <4>1
    <3>6. CsvReads(st[i - 1], <<",">> \o cells[i], Here(i, End(i)))
      BY <1>1, <1>2, <1>5, <3>5, Onwards
    <3> QED
      BY <1>3, <1>6, <2>2, <3>6
  <2> QED
    BY <2>1, <2>2
<1>9. /\ FlattenSeq(seqs) \in CsvTexts
      /\ CsvReads(At("start", <<>>, <<>>, rows), FlattenSeq(seqs), st[n])
  BY <1>3, <1>6, <1>8, AllOf
<1>10. CsvReads(st[n], <<"\n">>, At("start", <<>>, <<>>, Append(rows, values)))
  <2>1. n \in 1..n
    BY <1>1
  <2>2. st[n] = At(End(n), values[n], Behind(n), rows) /\ End(n) \in Ends
    BY <1>5, <1>6, <2>1
  <2>3. Append(Behind(n), values[n]) = values
    BY <1>7, <2>1
  <2> HIDE DEF Behind, Here
  <2>4. CsvStep(st[n], "\n") = At("start", <<>>, <<>>, Append(rows, values))
    <3>1. PICK at \in Ends :
            \E cell, before :
              st[n] = At(at, cell, before, rows) /\ Append(before, cell) = values
      BY <2>2, <2>3
    <3>2. PICK cell, before :
            st[n] = At(at, cell, before, rows) /\ Append(before, cell) = values
      BY <3>1
    <3>3. CsvStep(At(at, cell, before, rows), "\n")
            = At("start", <<>>, <<>>, Append(rows, Append(before, cell)))
      BY NewlineStep
    <3> QED
      BY <3>2, <3>3
  <2> QED
    BY <2>4, OneChar
<1>11. /\ FlattenSeq(seqs) \o <<"\n">> \in CsvTexts
       /\ CsvReads(At("start", <<>>, <<>>, rows), FlattenSeq(seqs) \o <<"\n">>,
                   At("start", <<>>, <<>>, Append(rows, values)))
  <2> DEFINE s == At("start", <<>>, <<>>, rows)
             t == st[n]
             u == At("start", <<>>, <<>>, Append(rows, values))
  <2> HIDE DEF s, t, u
  <2> QED
    BY <1>2, <1>9, <1>10, Onwards DEF s, t, u
<1> QED
  BY <1>4, <1>11

\* A file is read as the records of its lines.
LEMMA FileReads ==
  ASSUME NEW written \in Seq(CsvTexts), NEW records \in Seq(CsvRows), Len(written) = Len(records),
         \A k \in 1..Len(written) : LineReadsAs(written[k], records[k])
  PROVE  CsvRead(FlattenSeq(written)) = records
<1> DEFINE n == Len(written)
           st == [k \in 0..n |-> At("start", <<>>, <<>>, SubSeq(records, 1, k))]
<1>1. n \in Nat /\ SubSeq(records, 1, 0) = <<>> /\ SubSeq(records, 1, n) = records
  OBVIOUS
<1>2. \A k \in 0..n : st[k] = At("start", <<>>, <<>>, SubSeq(records, 1, k))
  OBVIOUS
<1>3. st[0] = At("start", <<>>, <<>>, <<>>) /\ st[n] = At("start", <<>>, <<>>, records)
  <2>1. 0 \in 0..n /\ n \in 0..n
    BY <1>1
  <2> HIDE DEF st
  <2> QED
    BY <1>1, <1>2, <2>1
<1> HIDE DEF st
<1>4. ASSUME NEW k \in 1..n
      PROVE  CsvReads(st[k - 1], written[k], st[k])
  <2>1. k \in 0..n /\ k - 1 \in 0..n
    BY <1>1
  <2>2. Append(SubSeq(records, 1, k - 1), records[k]) = SubSeq(records, 1, k)
    BY NextOf
  <2>3. CsvReads(At("start", <<>>, <<>>, SubSeq(records, 1, k - 1)), written[k],
                 At("start", <<>>, <<>>, Append(SubSeq(records, 1, k - 1), records[k])))
    BY DEF LineReadsAs
  <2> QED
    BY <1>2, <2>1, <2>2, <2>3
<1>5. /\ FlattenSeq(written) \in CsvTexts
      /\ CsvReads(At("start", <<>>, <<>>, <<>>), FlattenSeq(written),
                  At("start", <<>>, <<>>, records))
  BY <1>3, <1>4, AllOf
<1> QED
  BY <1>5, CsvReadIs
-----------------------------------------------------------------------------
(* The invariant                                                           *)

\* AskedFor, of any request.
Asks(r, sample, column) ==
  IF ValueSelectors(r.values) # {}
  THEN LET o == r.values.items[column] IN
       o.id.whole = sample.id /\ o.of = sample.of /\ o.node.whole \in {sample.node, WordMax}
  ELSE r.ids.items[column].whole = sample.id

\* What a cell of table t may read as.
Right(t, i, value) ==
  \/ value = <<>>
  \/ /\ i <= Len(t.selectors)
     /\ \E sample \in Samples : value = SampleString(sample.data) /\ Asks(t.request, sample, i)
  \/ i > Len(t.selectors) /\ value = <<t.fields[i - Len(t.selectors)]>>

TableOK(t) ==
  /\ DOMAIN t = {"names", "selectors", "fields", "cycle", "cells", "request"}
  /\ t.names \in CsvRows /\ t.names # <<>>
  /\ Len(t.selectors) \in Nat /\ DOMAIN t.selectors = 1..Len(t.selectors)
  /\ Len(t.fields) \in Nat /\ DOMAIN t.fields = 1..Len(t.fields)
  /\ Len(t.names) = Len(t.selectors) + Len(t.fields)
  /\ \A j \in 1..Len(t.fields) : t.fields[j] \in Supported
  /\ \A i \in 1..Len(t.selectors) : \A sample \in Samples :
       Matches(t.selectors[i], sample) => Asks(t.request, sample, i)
  /\ t.cycle \in 0..MaxCycle

\* The cells of a row of t, and what they read as.
RowOK(t, cells, values) ==
  /\ CellsReadAs(cells, values) /\ Len(cells) = Len(t.names)
  /\ \A i \in 1..Len(t.names) : Right(t, i, values[i])

\* The records that the lines of a file read as.
FileOK(written, records) ==
  /\ written \in Seq(CsvTexts) /\ records \in Seq(CsvRows) /\ Len(written) = Len(records)
  /\ \A k \in 1..Len(written) : /\ LineReadsAs(written[k], records[k])
                                /\ Len(records[k]) = Len(records[1])

\* The file of table t: its header first, then its rows.
FileOf(t, records) ==
  /\ Len(records) > 0
  /\ records[1] = <<<<"cycle_id">>, <<"timestamp_ns">>>> \o t.names
  /\ \A k \in 2..Len(records), i \in 1..Len(t.names) : Right(t, i, records[k][i + 2])

TableInv ==
  /\ table = NoTable \/ TableOK(table)
  /\ table # NoTable /\ table.cycle # 0 => \E values : RowOK(table, table.cells, values)
  /\ \E records : FileOK(lines, records) /\ (table # NoTable => FileOf(table, records))

LEMMA TableOrNone == \A t : TableOK(t) => t # NoTable
<1>1. NoTable.names = <<>>
  BY DEF NoTable
<1> QED
  BY <1>1 DEF TableOK

LEMMA SameRight ==
  ASSUME NEW t, NEW u, t.selectors = u.selectors, t.fields = u.fields, t.request = u.request
  PROVE  \A i, value : Right(t, i, value) <=> Right(u, i, value)
BY DEF Right

LEMMA SameFileOf ==
  ASSUME NEW t, NEW u, t.selectors = u.selectors, t.fields = u.fields, t.request = u.request,
         t.names = u.names, NEW records, FileOf(t, records)
  PROVE  FileOf(u, records)
BY SameRight DEF FileOf

LEMMA Wider == \A text \in Seq(STRING) : text \in CsvTexts
<1> SUFFICES ASSUME NEW text \in Seq(STRING) PROVE text \in CsvTexts
  OBVIOUS
<1>1. Len(text) \in Nat /\ text = [i \in 1..Len(text) |-> text[i]]
  OBVIOUS
<1>2. \A i \in 1..Len(text) : text[i] \in STRING
  OBVIOUS
<1>3. \A i \in 1..Len(text) : text[i] \in CsvChars
  BY <1>2 DEF CsvChars
<1> QED
  BY <1>1, <1>3, FunctionIsSeq DEF CsvTexts

LEMMA LenOf ==
  ASSUME NEW n \in Nat, NEW f, f = [i \in 1..n |-> f[i]]
  PROVE  Len(f) = n /\ DOMAIN f = 1..n
<1> DEFINE S == {f[i] : i \in 1..n}
<1>1. \A i \in 1..n : f[i] \in S
  OBVIOUS
<1> HIDE DEF S
<1> QED
  BY <1>1, FunctionIsSeq

\* A cell of one word, an empty cell, and a sample's cell.
LEMMA SampleCell ==
  ASSUME NEW sample \in Samples
  PROVE  ReadsAs(Cell(sample), SampleString(sample.data))
<1>1. /\ sample.data \in Seq(STRING)
      /\ sample.type # "string" => ~Holds(sample.data, {",", Quote, "\n", "\r", Nul})
  BY CsvAssumption
<1>2. SampleString(sample.data) \in Seq(STRING)
  <2> DEFINE I == {i \in 1..Len(sample.data) : sample.data[i] = Nul}
  <2>1. CASE I = {}
    BY <1>1, <2>1 DEF SampleString, Before, SelectInSeq
  <2>2. CASE I # {}
    <3>1. I \in SUBSET Nat
      OBVIOUS
    <3>2. \E x \in I : \A y \in I : x <= y
      BY <2>2, <3>1, Smallest
    <3>3. Min(I) \in I
      BY <3>2 DEF Min
    <3>4. SelectInSeq(sample.data, LAMBDA c : c = Nul) = Min(I)
      BY <2>2 DEF SelectInSeq
    <3> DEFINE m == Min(I)
    <3>7. m \in 1..Len(sample.data) /\ Len(sample.data) \in Nat
      <4>1. \A i \in I : i \in 1..Len(sample.data)
        OBVIOUS
      <4>2. Len(sample.data) \in Nat
        BY <1>1, LenProperties
      <4> HIDE DEF I
      <4>3. Min(I) \in 1..Len(sample.data)
        BY <3>3, <4>1
      <4> QED
        BY <4>2, <4>3
    <3> HIDE DEF m
    <3>8. m # 0 /\ m - 1 \in 0..Len(sample.data)
      BY <3>7
    <3>5. Min(I) # 0 /\ Min(I) - 1 \in 0..Len(sample.data)
      BY <3>8 DEF m
    <3>6. SampleString(sample.data) = SubSeq(sample.data, 1, Min(I) - 1)
      BY <3>4, <3>5 DEF SampleString, Before
    <3> QED
      BY <1>1, <3>5, <3>6, CutIsSeq
  <2> QED
    BY <2>1, <2>2
<1>3. CASE sample.type = "string"
  BY <1>2, <1>3, Wider, EscapedCell DEF Cell
<1>4. CASE sample.type # "string"
  <2>1. {i \in 1..Len(sample.data) : sample.data[i] = Nul} = {}
    BY <1>1, <1>4 DEF Holds
  <2>2. SampleString(sample.data) = sample.data
    BY <2>1 DEF SampleString, Before, SelectInSeq
  <2>3. ~Holds(sample.data, Special)
    BY <1>1, <1>4 DEF Holds, Special
  <2> QED
    BY <1>1, <1>4, <2>2, <2>3, Wider, PlainCell DEF Cell
<1> QED
  BY <1>3, <1>4

LEMMA EmptyCell == ReadsAs(<<>>, <<>>)
<1>1. <<>> \in CsvTexts /\ ~Holds(<<>>, Special)
  BY DEF CsvTexts, Holds
<1> QED
  BY <1>1, PlainCell

LEMMA FieldCell == \A c \in Supported : ReadsAs(<<c>>, <<c>>)
<1> SUFFICES ASSUME NEW c \in Supported PROVE ReadsAs(<<c>>, <<c>>)
  OBVIOUS
<1>1. c \in CsvChars /\ c \notin Special
  BY DEF CsvChars, Special, Supported, Quote
<1> QED
  BY <1>1, WordCell

\* Two cells before a row of cells.
LEMMA WithTwo ==
  ASSUME NEW a, NEW b, ReadsAs(<<a>>, <<a>>), ReadsAs(<<b>>, <<b>>),
         NEW cells, NEW values, CellsReadAs(cells, values)
  PROVE  /\ CellsReadAs(<<<<a>>, <<b>>>> \o cells, <<<<a>>, <<b>>>> \o values)
         /\ Len(<<<<a>>, <<b>>>> \o cells) = Len(cells) + 2
         /\ Len(<<<<a>>, <<b>>>> \o values) = Len(cells) + 2
         /\ \A i \in 1..Len(cells) : (<<<<a>>, <<b>>>> \o values)[i + 2] = values[i]
<1> DEFINE two == <<<<a>>, <<b>>>>
           all == two \o cells
           read == two \o values
<1>1. two \in CsvRows /\ Len(two) = 2 /\ two[1] = <<a>> /\ two[2] = <<b>>
  <2>1. <<a>> \in CsvTexts /\ <<b>> \in CsvTexts
    BY DEF ReadsAs
  <2> QED
    BY <2>1 DEF CsvRows
<1>2. cells \in CsvRows /\ values \in CsvRows /\ Len(cells) = Len(values) /\ Len(cells) \in Nat
  BY DEF CellsReadAs, CsvRows
<1> HIDE DEF two
<1>3. /\ all \in CsvRows /\ Len(all) = Len(cells) + 2
      /\ read \in CsvRows /\ Len(read) = Len(cells) + 2
      /\ \A i \in 1..2 : all[i] = two[i] /\ read[i] = two[i]
      /\ \A i \in 1..Len(cells) : all[i + 2] = cells[i] /\ read[i + 2] = values[i]
  <2>0. two \in Seq(CsvTexts) /\ cells \in Seq(CsvTexts) /\ values \in Seq(CsvTexts)
    BY <1>1, <1>2 DEF CsvRows
  <2>1. /\ all \in Seq(CsvTexts) /\ Len(all) = Len(two) + Len(cells)
        /\ \A i \in 1..Len(two) : all[i] = two[i]
        /\ \A i \in 1..Len(cells) : all[i + Len(two)] = cells[i]
    BY <2>0
  <2>2. /\ read \in Seq(CsvTexts) /\ Len(read) = Len(two) + Len(values)
        /\ \A i \in 1..Len(two) : read[i] = two[i]
        /\ \A i \in 1..Len(values) : read[i + Len(two)] = values[i]
    BY <2>0
  <2> HIDE DEF all, read
  <2> QED
    BY <1>1, <1>2, <2>1, <2>2 DEF CsvRows
<1> HIDE DEF all, read
<1>4. ASSUME NEW i \in 1..(Len(cells) + 2)
      PROVE  ReadsAs(all[i], read[i])
  <2>1. CASE i = 1
    BY <1>1, <1>3, <2>1
  <2>2. CASE i = 2
    BY <1>1, <1>3, <2>2
  <2>3. CASE i > 2
    <3>1. i - 2 \in 1..Len(cells) /\ (i - 2) + 2 = i
      BY <1>2, <2>3
    <3>2. ReadsAs(cells[i - 2], values[i - 2])
      BY <3>1 DEF CellsReadAs
    <3>3. all[i] = cells[i - 2] /\ read[i] = values[i - 2]
      BY <1>3, <3>1
    <3> QED
      BY <3>2, <3>3
  <2> QED
    BY <1>2, <2>1, <2>2, <2>3
<1>5. CellsReadAs(all, read)
  BY <1>3, <1>4 DEF CellsReadAs
<1> QED
  BY <1>3, <1>5 DEF two, all, read
-----------------------------------------------------------------------------
(* The steps                                                               *)

\* A file of one line.
LEMMA FirstLine ==
  ASSUME NEW line, NEW row, LineReadsAs(line, row)
  PROVE  FileOK(<<line>>, <<row>>)
<1>1. line \in CsvTexts /\ row \in CsvRows
  BY DEF LineReadsAs
<1>2. /\ <<line>> \in Seq(CsvTexts) /\ <<row>> \in Seq(CsvRows)
      /\ Len(<<line>>) = 1 /\ Len(<<row>>) = 1 /\ <<line>>[1] = line /\ <<row>>[1] = row
  BY <1>1
<1> QED
  BY <1>2 DEF FileOK

\* One more line, as long as the first.
LEMMA NextLine ==
  ASSUME NEW written, NEW records, FileOK(written, records), Len(records) > 0,
         NEW line, NEW row, LineReadsAs(line, row), Len(row) = Len(records[1])
  PROVE  /\ FileOK(Append(written, line), Append(records, row))
         /\ Len(Append(records, row)) = Len(records) + 1
         /\ \A k \in 1..Len(records) : Append(records, row)[k] = records[k]
         /\ Append(records, row)[Len(records) + 1] = row
<1>1. /\ written \in Seq(CsvTexts) /\ records \in Seq(CsvRows) /\ Len(written) = Len(records)
      /\ line \in CsvTexts /\ row \in CsvRows
  BY DEF FileOK, LineReadsAs
<1>2. /\ Append(written, line) \in Seq(CsvTexts) /\ Append(records, row) \in Seq(CsvRows)
      /\ Len(Append(written, line)) = Len(written) + 1 /\ Len(Append(records, row)) = Len(records) + 1
      /\ \A k \in 1..Len(written) : Append(written, line)[k] = written[k]
      /\ \A k \in 1..Len(records) : Append(records, row)[k] = records[k]
      /\ Append(written, line)[Len(written) + 1] = line /\ Append(records, row)[Len(records) + 1] = row
      /\ Len(records) \in Nat
  BY <1>1
<1> DEFINE more == Append(written, line)
           read == Append(records, row)
<1> HIDE DEF more, read
<1>3. ASSUME NEW k \in 1..(Len(records) + 1)
      PROVE  LineReadsAs(more[k], read[k]) /\ Len(read[k]) = Len(read[1])
  <2>1. 1 \in 1..Len(records) /\ read[1] = records[1]
    BY <1>2 DEF read
  <2>2. CASE k \in 1..Len(records)
    <3>1. more[k] = written[k] /\ read[k] = records[k]
      BY <1>1, <1>2, <2>2 DEF more, read
    <3> QED
      BY <1>1, <2>1, <2>2, <3>1 DEF FileOK
  <2>3. CASE k = Len(records) + 1
    <3>1. more[k] = line /\ read[k] = row
      BY <1>1, <1>2, <2>3 DEF more, read
    <3> QED
      BY <2>1, <3>1
  <2> QED
    BY <1>2, <2>2, <2>3
<1>4. FileOK(more, read)
  BY <1>1, <1>2, <1>3 DEF FileOK, more, read
<1> QED
  BY <1>2, <1>4 DEF more, read

LEMMA HeadCells ==
  /\ ReadsAs(<<"cycle_id">>, <<"cycle_id">>) /\ ReadsAs(<<"timestamp_ns">>, <<"timestamp_ns">>)
  /\ <<"cycle_id">> \in CsvTexts /\ <<"timestamp_ns">> \in CsvTexts
<1>1. "cycle_id" \in CsvChars /\ "timestamp_ns" \in CsvChars
  BY DEF CsvChars
<1>2. "cycle_id" \notin Special /\ "timestamp_ns" \notin Special
  BY DEF Special, Quote
<1>3. ReadsAs(<<"cycle_id">>, <<"cycle_id">>) /\ ReadsAs(<<"timestamp_ns">>, <<"timestamp_ns">>)
  BY <1>1, <1>2, WordCell
<1> QED
  BY <1>3 DEF ReadsAs

\* The pending row is read as its cycle, a time, and its cells.
LEMMA PendingReads ==
  ASSUME TableOK(table), table.cycle # 0, NEW values, RowOK(table, table.cells, values)
  PROVE  \E row : /\ LineReadsAs(PendingLine, row) /\ Len(row) = Len(table.names) + 2
                  /\ \A i \in 1..Len(table.names) : row[i + 2] = values[i]
<1> DEFINE c == ToString(table.cycle)
           cells == <<<<c>>, <<"now">>>> \o table.cells
           row == <<<<c>>, <<"now">>>> \o values
<1>1. ReadsAs(<<c>>, <<c>>)
  <2>1. table.cycle \in 0..MaxCycle /\ table.cycle \in 1..MaxCycle
    <3>1. MaxCycle \in Nat
      BY CsvAssumption
    <3>2. table.cycle \in 0..MaxCycle
      BY DEF TableOK
    <3> QED
      BY <3>1, <3>2
  <2>2. c \in CsvChars
    <3>1. c \in {ToString(n) : n \in 0..MaxCycle}
      BY <2>1
    <3> QED
      BY <3>1 DEF CsvChars
  <2>3. c \notin Special
    BY <2>1, CsvAssumption DEF Special
  <2> QED
    BY <2>2, <2>3, WordCell
<1>2. ReadsAs(<<"now">>, <<"now">>)
  <2>1. "now" \in CsvChars /\ "now" \notin Special
    BY DEF CsvChars, Special, Quote
  <2> QED
    BY <2>1, WordCell
<1>3. CellsReadAs(table.cells, values) /\ Len(table.cells) = Len(table.names)
  BY DEF RowOK
<1> HIDE DEF c
<1>4. /\ CellsReadAs(cells, row) /\ Len(cells) = Len(table.names) + 2
      /\ Len(row) = Len(table.names) + 2
      /\ \A i \in 1..Len(table.names) : row[i + 2] = values[i]
  BY <1>1, <1>2, <1>3, WithTwo
<1>5. Len(cells) > 0
  <2>1. Len(table.names) \in Nat
    BY LenProperties DEF TableOK, CsvRows
  <2> HIDE DEF cells
  <2> QED
    BY <1>4, <2>1
<1>6. PendingLine = Line(cells)
  BY DEF PendingLine, c
<1> HIDE DEF cells, row
<1>7. LineReadsAs(Line(cells), row)
  BY <1>4, <1>5, LineReads
<1> QED
  BY <1>4, <1>6, <1>7

\* The pending row, if there is one, becomes a line of the file.
LEMMA PendingWritten ==
  ASSUME TableInv
  PROVE  \E records : FileOK(WithPending, records) /\ (table # NoTable => FileOf(table, records))
<1>1. PICK records : FileOK(lines, records) /\ (table # NoTable => FileOf(table, records))
  BY DEF TableInv
<1>2. CASE table.cycle = 0
  BY <1>1, <1>2 DEF WithPending
<1>3. CASE table.cycle # 0
  <2>1. table # NoTable
    BY <1>3 DEF NoTable
  <2>2. TableOK(table) /\ FileOf(table, records)
    BY <1>1, <2>1 DEF TableInv
  <2>3. PICK values : RowOK(table, table.cells, values)
    BY <1>3, <2>1 DEF TableInv
  <2>4. PICK row : /\ LineReadsAs(PendingLine, row) /\ Len(row) = Len(table.names) + 2
                   /\ \A i \in 1..Len(table.names) : row[i + 2] = values[i]
    BY <1>3, <2>2, <2>3, PendingReads
  <2>5. /\ Len(records) > 0 /\ Len(records[1]) = Len(table.names) + 2
        /\ records \in Seq(CsvRows) /\ Len(records) \in Nat
    <3>1. table.names \in CsvRows /\ records \in Seq(CsvRows)
      BY <1>1, <2>2 DEF TableOK, FileOK
    <3>2. Len(<<<<"cycle_id">>, <<"timestamp_ns">>>> \o table.names) = Len(table.names) + 2
      <4> DEFINE two == <<<<"cycle_id">>, <<"timestamp_ns">>>>
      <4>1. two \in Seq(CsvTexts) /\ Len(two) = 2
        BY HeadCells
      <4>2. \A a, b \in Seq(CsvTexts) : Len(a \o b) = Len(a) + Len(b) /\ Len(a) \in Nat /\ Len(b) \in Nat
        OBVIOUS
      <4> HIDE DEF two
      <4>3. Len(two \o table.names) = Len(two) + Len(table.names) /\ Len(table.names) \in Nat
        BY <3>1, <4>1, <4>2 DEF CsvRows
      <4> QED
        BY <4>1, <4>3 DEF two
    <3> QED
      BY <2>2, <3>1, <3>2, LenProperties DEF FileOf
  <2> DEFINE read == Append(records, row)
  <2>6. /\ FileOK(Append(lines, PendingLine), read)
        /\ Len(read) = Len(records) + 1
        /\ \A k \in 1..Len(records) : read[k] = records[k]
        /\ read[Len(records) + 1] = row
    BY <1>1, <2>4, <2>5, NextLine
  <2> HIDE DEF read
  <2>7. FileOf(table, read)
    <3>1. 1 \in 1..Len(records) /\ Len(read) > 0 /\ read[1] = records[1]
      BY <2>5, <2>6
    <3>2. ASSUME NEW k \in 2..Len(read), NEW i \in 1..Len(table.names)
          PROVE  Right(table, i, read[k][i + 2])
      <4>1. CASE k \in 1..Len(records)
        <5>1. k \in 2..Len(records) /\ read[k] = records[k]
          BY <2>5, <2>6, <4>1
        <5> QED
          BY <2>2, <5>1 DEF FileOf
      <4>2. CASE k = Len(records) + 1
        <5>1. read[k][i + 2] = values[i]
          BY <2>4, <2>6, <4>2
        <5> QED
          BY <2>3, <5>1 DEF RowOK
      <4> QED
        BY <2>5, <2>6, <4>1, <4>2
    <3> QED
      BY <2>2, <3>1, <3>2 DEF FileOf
  <2>8. WithPending = Append(lines, PendingLine)
    BY <1>3 DEF WithPending
  <2> QED
    BY <2>6, <2>7, <2>8
<1> QED
  BY <1>2, <1>3

LEMMA NamesLen ==
  ASSUME TableOK(table)
  PROVE  /\ Len(table.names) \in Nat /\ DOMAIN table.names = 1..Len(table.names)
         /\ Len(table.selectors) \in Nat /\ Len(table.fields) \in Nat
         /\ Len(table.names) = Len(table.selectors) + Len(table.fields)
BY LenProperties DEF TableOK, CsvRows

\* A row that is prepared has cells that may stay as they are.
LEMMA PreparedOK ==
  ASSUME TableInv, TableOK(table), NEW cycle \in 1..MaxCycle
  PROVE  \E values : RowOK(table, Prepared(cycle), values)
<1>1. CASE table.cycle = cycle
  <2>1. table # NoTable /\ table.cycle # 0
    BY <1>1, TableOrNone
  <2> QED
    BY <1>1, <2>1 DEF TableInv, Prepared
<1>2. CASE table.cycle # cycle
  <2> DEFINE empty == [i \in 1..Len(table.names) |-> <<>>]
  <2>1. Prepared(cycle) = empty
    BY <1>2, NamesLen DEF Prepared, EmptyCells
  <2>2. empty = [i \in 1..Len(table.names) |-> empty[i]]
        /\ \A i \in 1..Len(table.names) : empty[i] = <<>>
    OBVIOUS
  <2> HIDE DEF empty
  <2>3. \A i \in 1..Len(table.names) : ReadsAs(empty[i], empty[i]) /\ empty[i] \in CsvTexts
    BY <2>2, EmptyCell DEF ReadsAs
  <2>4. empty \in CsvRows /\ Len(empty) = Len(table.names)
    BY <2>2, <2>3, NamesLen, FunctionIsSeq DEF CsvRows
  <2>5. CellsReadAs(empty, empty)
    BY <2>3, <2>4 DEF CellsReadAs
  <2>6. RowOK(table, empty, empty)
    BY <2>2, <2>4, <2>5 DEF RowOK, Right
  <2> QED
    BY <2>1, <2>6
<1> QED
  BY <1>1, <1>2

\* A row whose cells read as what they may is filled in.
LEMMA FillStep ==
  ASSUME TableInv, TableOK(table), NEW cycle \in 1..MaxCycle, NEW cells, NEW values,
         RowOK(table, cells, values), Fill(cycle, cells)
  PROVE  TableInv'
<1>1. table' = [table EXCEPT !.cycle = cycle, !.cells = cells]
  BY DEF Fill
<1>2. /\ table'.cycle = cycle /\ table'.cells = cells /\ table'.names = table.names
      /\ table'.selectors = table.selectors /\ table'.fields = table.fields
      /\ table'.request = table.request /\ DOMAIN table' = DOMAIN table
  BY <1>1 DEF TableOK
<1>3. TableOK(table')
  <2>1. cycle \in 0..MaxCycle
    OBVIOUS
  <2> QED
    BY <1>2, <2>1 DEF TableOK
<1>4. RowOK(table', cells, values)
  BY <1>2, SameRight DEF RowOK
<1>5. \E records : FileOK(lines', records) /\ FileOf(table, records)
  <2>1. table # NoTable
    BY TableOrNone
  <2>2. CASE table.cycle = cycle
    <3>1. lines' = lines
      BY <2>2 DEF Fill
    <3> QED
      BY <2>1, <3>1 DEF TableInv
  <2>3. CASE table.cycle # cycle
    <3>1. lines' = WithPending
      BY <2>3 DEF Fill
    <3> QED
      BY <2>1, <3>1, PendingWritten
  <2> QED
    BY <2>2, <2>3
<1>6. \E records : FileOK(lines', records) /\ FileOf(table', records)
  BY <1>2, <1>5, SameFileOf
<1> QED
  BY <1>2, <1>3, <1>4, <1>6 DEF TableInv

\* A sample is put into the column of the first selector that it matches.
LEMMA ValueStep ==
  ASSUME TableInv, TableOK(table), NEW cycle \in 1..MaxCycle, NEW sample \in Samples,
         AppendValue(sample, cycle)
  PROVE  TableInv'
<1> DEFINE at == SelectInSeq(table.selectors, LAMBDA s : Matches(s, sample))
           I == {i \in 1..Len(table.selectors) : Matches(table.selectors[i], sample)}
<1>1. at # 0 /\ Fill(cycle, [Prepared(cycle) EXCEPT ![at] = Cell(sample)])
  BY DEF AppendValue
<1>2. at \in I
  <2>1. at = IF I # {} THEN Min(I) ELSE 0
    BY DEF SelectInSeq
  <2>2. I \in SUBSET Nat /\ I # {}
    BY <1>1, <2>1
  <2>3. \E x \in I : \A y \in I : x <= y
    BY <2>2, Smallest
  <2> HIDE DEF I
  <2>4. Min(I) \in I
    BY <2>3 DEF Min
  <2> QED
    BY <2>1, <2>2, <2>4
<1>3. at \in 1..Len(table.selectors) /\ Matches(table.selectors[at], sample)
  BY <1>2
<1> HIDE DEF at, I
<1>4. at \in 1..Len(table.names) /\ Asks(table.request, sample, at)
  <2>1. Asks(table.request, sample, at)
    BY <1>3 DEF TableOK
  <2>2. /\ Len(table.selectors) \in Nat /\ Len(table.fields) \in Nat
        /\ Len(table.names) = Len(table.selectors) + Len(table.fields)
    BY NamesLen
  <2>3. at \in 1..Len(table.names)
    <3>1. at \in 1..Len(table.selectors)
      BY <1>3
    <3>2. \A a, b, c \in Nat : c = a + b => \A x \in 1..a : x \in 1..c
      OBVIOUS
    <3>3. Len(table.names) \in Nat
      BY NamesLen
    <3> QED
      BY <2>2, <3>1, <3>2, <3>3
  <2> QED
    BY <2>1, <2>3
<1>5. PICK values : RowOK(table, Prepared(cycle), values)
  BY PreparedOK
<1> DEFINE before == Prepared(cycle)
           cells == [before EXCEPT ![at] = Cell(sample)]
           read == [values EXCEPT ![at] = SampleString(sample.data)]
<1> HIDE DEF before
<1>6. /\ before \in CsvRows /\ values \in CsvRows /\ Len(before) = Len(table.names)
      /\ Len(values) = Len(table.names)
      /\ \A i \in 1..Len(table.names) : ReadsAs(before[i], values[i]) /\ Right(table, i, values[i])
  BY <1>5 DEF RowOK, CellsReadAs, before
<1>7. /\ ReadsAs(Cell(sample), SampleString(sample.data))
      /\ Cell(sample) \in CsvTexts /\ SampleString(sample.data) \in CsvTexts
  BY SampleCell DEF ReadsAs
<1>8. /\ cells \in CsvRows /\ read \in CsvRows /\ Len(cells) = Len(table.names)
      /\ Len(read) = Len(table.names)
      /\ cells[at] = Cell(sample) /\ read[at] = SampleString(sample.data)
      /\ \A i \in 1..Len(table.names) : i # at => cells[i] = before[i] /\ read[i] = values[i]
  BY <1>4, <1>6, <1>7 DEF CsvRows
<1> HIDE DEF cells, read
<1>9. ASSUME NEW i \in 1..Len(table.names)
      PROVE  ReadsAs(cells[i], read[i]) /\ Right(table, i, read[i])
  <2>1. CASE i = at
    <3>1. Right(table, at, SampleString(sample.data))
      <4>1. at <= Len(table.selectors)
        BY <1>3, NamesLen
      <4> QED
        BY <1>4, <4>1 DEF Right
    <3> QED
      BY <1>7, <1>8, <2>1, <3>1
  <2>2. CASE i # at
    BY <1>6, <1>8, <2>2
  <2> QED
    BY <2>1, <2>2
<1>10. RowOK(table, cells, read)
  BY <1>8, <1>9 DEF RowOK, CellsReadAs
<1>11. Fill(cycle, cells)
  BY <1>1 DEF cells, before
<1> QED
  BY <1>10, <1>11, FillStep

\* The measurement goes into the columns behind the values.
LEMMA MeasurementStep ==
  ASSUME TableInv, TableOK(table), NEW cycle \in 1..MaxCycle, AppendMeasurement(cycle)
  PROVE  TableInv'
<1> DEFINE n == Len(table.names)
           Given(i) == i - Offset \in DOMAIN table.fields
           cells == [i \in 1..n |-> IF Given(i) THEN <<table.fields[i - Offset]>>
                                    ELSE Prepared(cycle)[i]]
<1>1. Fill(cycle, cells)
  BY NamesLen DEF AppendMeasurement
<1>2. PICK values : RowOK(table, Prepared(cycle), values)
  BY PreparedOK
<1> DEFINE read == [i \in 1..n |-> IF Given(i) THEN <<table.fields[i - Offset]>> ELSE values[i]]
<1>3. /\ cells = [i \in 1..n |-> cells[i]] /\ read = [i \in 1..n |-> read[i]]
      /\ \A i \in 1..n : Given(i) => cells[i] = <<table.fields[i - Offset]>> /\ read[i] = cells[i]
      /\ \A i \in 1..n : ~Given(i) => cells[i] = Prepared(cycle)[i] /\ read[i] = values[i]
  OBVIOUS
<1> HIDE DEF cells, read
<1>4. ASSUME NEW i \in 1..n
      PROVE  ReadsAs(cells[i], read[i]) /\ Right(table, i, read[i])
  <2>1. CASE Given(i)
    <3>1. table.fields[i - Offset] \in Supported /\ i - Offset >= 1
      BY <2>1 DEF TableOK
    <3>2. i > Len(table.selectors)
      BY <3>1, NamesLen DEF Offset
    <3>3. read[i] = <<table.fields[i - Len(table.selectors)]>>
      BY <1>3, <2>1 DEF Offset
    <3>4. ReadsAs(<<table.fields[i - Offset]>>, <<table.fields[i - Offset]>>)
      BY <3>1, FieldCell
    <3> QED
      BY <1>3, <2>1, <3>2, <3>3, <3>4 DEF Right
  <2>2. CASE ~Given(i)
    BY <1>2, <1>3, <2>2 DEF RowOK, CellsReadAs
  <2> QED
    BY <2>1, <2>2
<1>5. cells \in CsvRows /\ read \in CsvRows /\ Len(cells) = n /\ Len(read) = n
  <2>1. n \in Nat /\ \A i \in 1..n : cells[i] \in CsvTexts /\ read[i] \in CsvTexts
    BY <1>4, NamesLen DEF ReadsAs
  <2> HIDE DEF n
  <2> QED
    BY <1>3, <2>1, FunctionIsSeq DEF CsvRows
<1>6. RowOK(table, cells, read)
  BY <1>4, <1>5 DEF RowOK, CellsReadAs
<1> QED
  BY <1>1, <1>6, FillStep

\* An array of strings is a sequence of texts.
LEMMA StringsAre ==
  ASSUME NEW r \in CsvRequests, NEW v \in {r.names, r.fields}, NEW given \in StringArrayField(v)
  PROVE  given \in CsvRows /\ DOMAIN given = 1..Len(given) /\ Len(given) \in Nat
<1>1. /\ v.kind = "array" /\ given = [i \in DOMAIN v.items |-> v.items[i].text]
      /\ \A i \in DOMAIN v.items : v.items[i].kind = "string"
  BY DEF StringArrayField
<1>2. /\ v.items \in Seq(Range(v.items))
      /\ \A i \in DOMAIN v.items : v.items[i].text \in Seq(STRING)
  BY <1>1, CsvAssumption
<1>3. Len(v.items) \in Nat /\ DOMAIN v.items = 1..Len(v.items)
  BY <1>2, LenProperties
<1> DEFINE n == Len(v.items)
<1>4. given = [i \in 1..n |-> given[i]] /\ \A i \in 1..n : given[i] \in CsvTexts
  BY <1>1, <1>2, <1>3, Wider
<1>5. given \in Seq(CsvTexts) /\ Len(given) = n
  BY <1>3, <1>4, FunctionIsSeq
<1> QED
  BY <1>3, <1>4, <1>5 DEF CsvRows

\* The selectors are in the order of what was asked for, and match nothing else.
LEMMA SelectorsAre ==
  ASSUME NEW r \in CsvRequests, NEW given \in Selectors(r)
  PROVE  /\ Len(given) \in Nat /\ DOMAIN given = 1..Len(given)
         /\ \A i \in 1..Len(given) : \A sample \in Samples :
              Matches(given[i], sample) => Asks(r, sample, i)
<1>1. CASE ValueSelectors(r.values) # {}
  <2> DEFINE v == r.values
             n == Len(v.items)
  <2>1. /\ Objects(v)
        /\ given = [i \in DOMAIN v.items |->
                      Selector(v.items[i].node.whole, v.items[i].id.whole, v.items[i].of)]
    BY <1>1 DEF Selectors, ValueSelectors
  <2>2. v.kind = "array" /\ \A i \in DOMAIN v.items : v.items[i].kind = "object"
    BY <2>1 DEF Objects, Object
  <2>3. v.items \in Seq(Range(v.items)) /\ \A i \in DOMAIN v.items : v.items[i].of # "none"
    BY <2>2, CsvAssumption
  <2>4. n \in Nat /\ DOMAIN v.items = 1..n
    BY <2>3, LenProperties
  <2>5. /\ given = [i \in 1..n |-> given[i]]
        /\ \A i \in 1..n :
             given[i] = Selector(v.items[i].node.whole, v.items[i].id.whole, v.items[i].of)
    BY <2>1, <2>4
  <2>6. Len(given) = n /\ DOMAIN given = 1..n
    BY <2>4, <2>5, LenOf
  <2>7. ASSUME NEW i \in 1..n, NEW sample \in Samples, Matches(given[i], sample)
        PROVE  Asks(r, sample, i)
    <3>1. given[i] = Selector(v.items[i].node.whole, v.items[i].id.whole, v.items[i].of)
      BY <2>5
    <3>2. \A a, b, c : Matches(Selector(a, b, c), sample) =>
                        a \in {WordMax, sample.node} /\ b = sample.id /\ c \in {"none", sample.of}
      BY DEF Matches, Selector, AnyNode, AnyKind
    <3>3. /\ v.items[i].node.whole \in {WordMax, sample.node} /\ v.items[i].id.whole = sample.id
          /\ v.items[i].of \in {"none", sample.of}
      BY <2>7, <3>1, <3>2
    <3> QED
      BY <1>1, <2>3, <2>4, <3>3 DEF Asks
  <2> QED
    BY <2>4, <2>6, <2>7
<1>2. CASE ValueSelectors(r.values) = {}
  <2> DEFINE v == r.ids
             n == Len(v.items)
  <2>1. PICK ids \in U64ArrayField(v) :
          given = [i \in DOMAIN ids |-> Selector(AnyNode, ids[i], AnyKind)]
    BY <1>2 DEF Selectors, IdSelectors
  <2>2. v.kind = "array" /\ ids = [i \in DOMAIN v.items |-> v.items[i].whole]
    BY <2>1 DEF U64ArrayField
  <2>3. v.items \in Seq(Range(v.items))
    BY <2>2, CsvAssumption
  <2>4. n \in Nat /\ DOMAIN v.items = 1..n
    BY <2>3, LenProperties
  <2>5. /\ given = [i \in 1..n |-> given[i]]
        /\ \A i \in 1..n : given[i] = Selector(AnyNode, v.items[i].whole, AnyKind)
    BY <2>1, <2>2, <2>4
  <2>6. Len(given) = n /\ DOMAIN given = 1..n
    BY <2>4, <2>5, LenOf
  <2>7. ASSUME NEW i \in 1..n, NEW sample \in Samples, Matches(given[i], sample)
        PROVE  Asks(r, sample, i)
    <3>1. given[i] = Selector(AnyNode, v.items[i].whole, AnyKind)
      BY <2>5
    <3>2. \A a, b, c : Matches(Selector(a, b, c), sample) => b = sample.id
      BY DEF Matches, Selector
    <3>3. v.items[i].whole = sample.id
      BY <2>7, <3>1, <3>2
    <3> QED
      BY <1>2, <3>3 DEF Asks
  <2> QED
    BY <2>4, <2>6, <2>7
<1> QED
  BY <1>1, <1>2

\* A table that the route accepts is one that rows can be made for.
LEMMA RequestedOK ==
  ASSUME NEW r \in CsvRequests, NEW t \in Tables(r), KnownFields(t)
  PROVE  TableOK(t) /\ t.cycle = 0
<1>1. PICK names \in {n \in StringArrayField(r.names) :
                        n # <<>> /\ StringField(r.path) \notin {{}, {<<>>}}},
           selectors \in Selectors(r), fields \in Fields(r) :
        t = [names |-> names, selectors |-> selectors, fields |-> [i \in DOMAIN fields |-> fields[i][1]],
             cycle |-> 0, cells |-> <<>>, request |-> r]
  BY DEF Tables, Parsed
<1> DEFINE words == [i \in DOMAIN fields |-> fields[i][1]]
<1>2. /\ DOMAIN t = {"names", "selectors", "fields", "cycle", "cells", "request"}
      /\ t.names = names /\ t.selectors = selectors /\ t.fields = words
      /\ t.cycle = 0 /\ t.request = r
  BY <1>1
<1>3. names \in CsvRows /\ names # <<>>
  BY StringsAre
<1>4. /\ Len(selectors) \in Nat /\ DOMAIN selectors = 1..Len(selectors)
      /\ \A i \in 1..Len(selectors) : \A sample \in Samples :
           Matches(selectors[i], sample) => Asks(r, sample, i)
  BY SelectorsAre
<1>5. Len(fields) \in Nat /\ DOMAIN fields = 1..Len(fields)
  <2>1. CASE r.fields = Absent
    <3>1. fields = <<>>
      BY <2>1 DEF Fields
    <3> QED
      BY <3>1
  <2>2. CASE r.fields # Absent
    BY <2>2, StringsAre DEF Fields
  <2> QED
    BY <2>1, <2>2
<1>6. Len(words) = Len(fields) /\ DOMAIN words = 1..Len(fields)
  <2>1. words = [i \in 1..Len(fields) |-> words[i]]
    BY <1>5
  <2> HIDE DEF words
  <2> QED
    BY <1>5, <2>1, LenOf
<1> HIDE DEF words
<1>7. \A j \in 1..Len(words) : words[j] \in Supported
  BY <1>2, <1>5, <1>6 DEF KnownFields
<1>8. Len(names) = Len(selectors) + Len(words)
  <2>1. Counts(t)
    BY DEF Tables
  <2>2. Len(t.names) = Len(t.selectors) + Len(t.fields)
    BY <2>1 DEF Counts
  <2> QED
    BY <1>2, <2>2
<1>9. 0 \in 0..MaxCycle
  <2>1. MaxCycle \in Nat
    BY CsvAssumption
  <2> QED
    BY <2>1
<1> QED
  BY <1>2, <1>3, <1>4, <1>5, <1>6, <1>7, <1>8, <1>9 DEF TableOK

\* The new file begins with the header that was asked for.
LEMMA OpenStep ==
  ASSUME NEW r \in CsvRequests, NEW t \in Tables(r), KnownFields(t),
         table' = t, lines' = <<Header(t)>>
  PROVE  TableInv'
<1>1. TableOK(t) /\ t.cycle = 0
  BY RequestedOK
<1> DEFINE n == Len(t.names)
           cells == [i \in DOMAIN t.names |-> CsvEscape(t.names[i])]
           two == <<<<"cycle_id">>, <<"timestamp_ns">>>>
<1>2. n \in Nat /\ DOMAIN t.names = 1..n /\ t.names \in CsvRows
      /\ \A i \in 1..n : t.names[i] \in CsvTexts
  BY <1>1, LenProperties, ElementOfSeq DEF TableOK, CsvRows
<1>3. cells = [i \in 1..n |-> cells[i]] /\ \A i \in 1..n : cells[i] = CsvEscape(t.names[i])
  BY <1>2
<1> HIDE DEF cells, n
<1>4. ASSUME NEW i \in 1..n
      PROVE  ReadsAs(cells[i], t.names[i]) /\ cells[i] \in CsvTexts
  <2>1. t.names[i] \in CsvTexts /\ cells[i] = CsvEscape(t.names[i])
    BY <1>2, <1>3
  <2>2. ReadsAs(cells[i], t.names[i])
    BY <2>1, EscapedCell
  <2> QED
    BY <2>2 DEF ReadsAs
<1>5. CellsReadAs(cells, t.names)
  <2>1. cells \in Seq(CsvTexts) /\ Len(cells) = n
    BY <1>2, <1>3, <1>4, FunctionIsSeq
  <2> QED
    BY <1>2, <1>4, <2>1 DEF CellsReadAs, CsvRows, n
<1>6. /\ CellsReadAs(two \o cells, two \o t.names)
      /\ Len(two \o cells) = Len(cells) + 2
  BY <1>5, HeadCells, WithTwo
<1>7. Len(two \o cells) > 0
  <2>1. Len(cells) \in Nat
    BY <1>5, LenProperties DEF CellsReadAs, CsvRows
  <2> HIDE DEF two
  <2> QED
    BY <1>6, <2>1
<1>8. Header(t) = Line(two \o cells)
  BY DEF Header, cells
<1> HIDE DEF two
<1>9. LineReadsAs(Header(t), two \o t.names)
  BY <1>6, <1>7, <1>8, LineReads
<1> DEFINE records == <<two \o t.names>>
<1>10. FileOK(lines', records)
  BY <1>9, FirstLine
<1>11. FileOf(t, records)
  <2>1. Len(records) = 1 /\ records[1] = two \o t.names
    OBVIOUS
  <2> QED
    BY <2>1 DEF FileOf, two
<1>12. TableOK(table') /\ table'.cycle = 0 /\ FileOf(table', records)
  BY <1>1, <1>11
<1> HIDE DEF records
<1> QED
  BY <1>10, <1>12 DEF TableInv

\* Every step keeps the invariant.
LEMMA TableStep ==
  ASSUME TableInv, TableNext
  PROVE  TableInv'
<1>1. ASSUME UNCHANGED <<table, lines>>
      PROVE  TableInv'
  BY <1>1 DEF TableInv
<1>2. CASE Telemetry
  <2>1. PICK cycle \in {table.cycle, table.cycle + 1} \cap 1..MaxCycle :
          AppendMeasurement(cycle) \/ \E sample \in Samples : AppendValue(sample, cycle)
    BY <1>2 DEF Telemetry
  <2>2. TableOK(table) /\ cycle \in 1..MaxCycle
    BY <1>2 DEF Telemetry, TableInv
  <2> QED
    BY <2>1, <2>2, ValueStep, MeasurementStep
<1>3. CASE PostCsv
  <2>1. PICK r \in CsvRequests :
          \/ StopTable(r)
          \/ BoolField(r.enabled) # {FALSE} /\ (Throw(r) \/ RefuseTable(r))
          \/ /\ BoolField(r.enabled) # {FALSE} /\ ~ParseThrows(r.values)
             /\ \E t \in Tables(r) : OpenTable(t)
    BY <1>3 DEF PostCsv
  <2>2. CASE StopTable(r)
    <3>1. table' = NoTable /\ lines' = WithPending
      BY <2>2 DEF StopTable
    <3>2. \E records : FileOK(lines', records)
      BY <3>1, PendingWritten
    <3> QED
      BY <3>1, <3>2 DEF TableInv
  <2>3. CASE Throw(r) \/ RefuseTable(r)
    BY <1>1, <2>3 DEF Throw, RefuseTable
  <2>4. ASSUME NEW t \in Tables(r), OpenTable(t)
        PROVE  TableInv'
    <3>1. CASE TakeOver(t)
      BY <3>1, OpenStep DEF TakeOver
    <3>2. CASE NoFile(t) \/ NoHeader(t)
      BY <1>1, <3>2 DEF NoFile, NoHeader
    <3> QED
      BY <2>4, <3>1, <3>2 DEF OpenTable
  <2> QED
    BY <2>1, <2>2, <2>3, <2>4
<1> QED
  BY <1>2, <1>3 DEF TableNext

LEMMA TableBegins == TableInit => TableInv
<1> SUFFICES ASSUME TableInit PROVE TableInv
  OBVIOUS
<1>1. table = NoTable /\ lines = <<>>
  BY DEF TableInit
<1>2. FileOK(<<>>, <<>>)
  BY DEF FileOK
<1> QED
  BY <1>1, <1>2 DEF TableInv
-----------------------------------------------------------------------------
(* The theorems                                                            *)

LEMMA TrafficStep == TableInv /\ [Next]_vars => TableInv'
<1> SUFFICES ASSUME TableInv, [Next]_vars PROVE TableInv'
  OBVIOUS
<1>1. ASSUME UNCHANGED tableVars
      PROVE  TableInv'
  BY <1>1 DEF TableInv, tableVars
<1>2. CASE TableNext
  BY <1>2, TableStep
<1> QED
  BY <1>1, <1>2 DEF Next, vars

LEMMA TrafficInv == Spec => []TableInv
<1>1. Init => TableInv
  BY TableBegins DEF Init
<1> QED
  BY <1>1, TrafficStep, PTL DEF Spec

\* The invariant's records are those that a reader of the file finds.
LEMMA RecordsAre ==
  ASSUME TableInv
  PROVE  \E records : /\ FileOK(lines, records) /\ (table # NoTable => FileOf(table, records))
                      /\ Records = records
                      /\ Len(records) \in Nat /\ DOMAIN records = 1..Len(records)
<1>1. PICK records : FileOK(lines, records) /\ (table # NoTable => FileOf(table, records))
  BY DEF TableInv
<1>2. Records = records
  BY <1>1, FileReads DEF FileOK, Records
<1>3. Len(records) \in Nat /\ DOMAIN records = 1..Len(records)
  BY <1>1, LenProperties DEF FileOK
<1> QED
  BY <1>1, <1>2, <1>3

LEMMA InvReadsBack == TableInv => CsvReadsBack
<1> SUFFICES ASSUME TableInv PROVE CsvReadsBack
  OBVIOUS
<1>1. PICK records : /\ FileOK(lines, records) /\ (table # NoTable => FileOf(table, records))
                     /\ Records = records
                     /\ Len(records) \in Nat /\ DOMAIN records = 1..Len(records)
  BY RecordsAre
<1>2. Len(records) = Len(lines) /\ \A i \in DOMAIN records : Len(records[i]) = Len(records[1])
  BY <1>1 DEF FileOK
<1>3. ASSUME table # NoTable
      PROVE  /\ records[1] = <<<<"cycle_id">>, <<"timestamp_ns">>>> \o table.names
             /\ Len(table.names) = Len(table.selectors) + Len(table.fields)
  <2>1. TableOK(table) /\ FileOf(table, records)
    BY <1>1, <1>3 DEF TableInv
  <2>2. Len(table.names) = Len(table.selectors) + Len(table.fields)
    BY <2>1 DEF TableOK
  <2> QED
    BY <2>1, <2>2 DEF FileOf
<1>4. Records = records
  BY <1>1
<1> HIDE DEF Records
<1> QED
  BY <1>2, <1>3, <1>4 DEF CsvReadsBack

LEMMA InvUnderNames == TableInv => CellsUnderTheirNames
<1> SUFFICES ASSUME TableInv, table # NoTable,
                    NEW k \in DOMAIN Records \ {1}, NEW i \in DOMAIN table.names
             PROVE  LET cell == Records[k][i + 2] IN
                    \/ cell = <<>>
                    \/ /\ i <= Len(table.selectors)
                       /\ \E sample \in Samples :
                            cell = SampleString(sample.data) /\ AskedFor(sample, i)
                    \/ i > Len(table.selectors) /\ cell = <<table.fields[i - Len(table.selectors)]>>
  BY DEF CellsUnderTheirNames
<1>1. PICK records : /\ FileOK(lines, records) /\ FileOf(table, records)
                     /\ Records = records
                     /\ Len(records) \in Nat /\ DOMAIN records = 1..Len(records)
  BY RecordsAre
<1>2. TableOK(table)
  BY DEF TableInv
<1>3. k \in 2..Len(records) /\ i \in 1..Len(table.names)
  <2>1. k \in 1..Len(records) /\ k # 1 /\ Len(records) \in Nat
    BY <1>1
  <2>2. i \in 1..Len(table.names)
    BY <1>2, NamesLen
  <2> QED
    BY <2>1, <2>2
<1>4. Right(table, i, Records[k][i + 2])
  BY <1>1, <1>3 DEF FileOf
<1>5. \A sample : Asks(table.request, sample, i) <=> AskedFor(sample, i)
  BY DEF Asks, AskedFor
<1> DEFINE cell == Records[k][i + 2]
<1>6. Right(table, i, cell)
  BY <1>4
<1> HIDE DEF cell
<1>7. \/ cell = <<>>
      \/ /\ i <= Len(table.selectors)
         /\ \E sample \in Samples : cell = SampleString(sample.data) /\ AskedFor(sample, i)
      \/ i > Len(table.selectors) /\ cell = <<table.fields[i - Len(table.selectors)]>>
  BY <1>5, <1>6 DEF Right
<1> QED
  BY <1>7 DEF cell

\* Whatever characters are in the requested names and in the samples, a CSV reader
\* of the file finds one record for each line that was written, all as long as the
\* header, and the header reads as the names that the table in use was asked for,
\* through requests that fail at a number, a field, the directory, the file or,
\* for another path, the header.
THEOREM CsvIsReadBack == Spec => []CsvReadsBack
BY TrafficInv, InvReadsBack, PTL

\* A cell that is read under a column's name is empty or a sample that the request,
\* as it was written, asks for in that column, through either form of the request,
\* through cycles, and through tables that replace each other.
THEOREM CellsAreUnderNames == Spec => []CellsUnderTheirNames
BY TrafficInv, InvUnderNames, PTL

\* The command half of a server that also takes CSV requests is the one that
\* RequestProofs is about: its theorems hold of Spec.
THEOREM TrafficIsRequests == Spec => RequestSpec
<1>1. Init => RequestInit
  BY DEF Init
<1>2. [Next]_vars => [RequestNext]_requestVars
  BY DEF Next, vars
<1> QED
  BY <1>1, <1>2, PTL DEF Spec, RequestSpec
=============================================================================
