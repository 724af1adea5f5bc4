--------------------------- MODULE TelemetryProofs ---------------------------
(***************************************************************************)
(* Every safety property that the runs check of Telemetry, for all sets of *)
(* threads, capacities, budgets and bounds, and for a disk that may fail   *)
(* at any time.                                                            *)
(*                                                                         *)
(* csv_mutex_ makes one drain at a time: Control says so, and the other    *)
(* parts of the invariant are about that drain, cur.  They say what the    *)
(* queue, the ring, the file and the sink hold besides what cur has        *)
(* popped and not yet accounted for.                                       *)
(***************************************************************************)
EXTENDS Telemetry, SequenceTheorems, WellFoundedInduction, TLAPS

\* The drain under way, which the holder of csv_mutex_ runs.
cur == IF csvLock \in Drainers THEN d[csvLock] ELSE IdleDrain

\* The program counters at which an event has been popped and is not handled yet.
Handling == {"values", "measurement", "status", "write", "csv"}

\* Events as the engine publishes them.
Published == {e \in Event : e.cycle # 0 /\ (e.kind # "values" => e.count = 0)}

Drain == [pc : DrainPcs, event : Event, batch : Seq(Event), values : Nat, failed : Nat,
          columns : SUBSET Columns]

Row1 == [cycle : Nat \ {0}, cells : (SUBSET Columns) \ {{}}]

SinkTypes ==
  /\ sink \in [enabled : BOOLEAN, columns : SUBSET Columns, open : BOOLEAN, good : BOOLEAN,
               pending : Row1 \cup {NoRow}]
  /\ csvRows \in Seq(Row1)

EngineTypes ==
  /\ evq \in Seq(Published) /\ Len(evq) <= EventCap
  /\ head \in Nat /\ tail \in Nat
  /\ cycle \in Nat \ {0} /\ published \in Nat

FileTypes ==
  /\ stream \in [open : BOOLEAN, good : BOOLEAN]
  /\ buffer \in Seq(Nat) /\ file \in Seq(Nat)

DrainTypes == csvLock \in Drainers \cup {Free} /\ d \in [Drainers -> Drain]

MemoTypes ==
  /\ recent \in Seq(Nat) /\ Len(recent) <= RecentCap /\ measurement \in Nat
  /\ totals \in [events : Nat, values : Nat, failed : Nat]

CounterTypes ==
  /\ stopping \in StopPoints
  /\ drains \in Nat /\ csvRequests \in Nat /\ faults \in Nat

LossTypes == lost \subseteq Nat /\ held \in Nat /\ before \subseteq Nat

Types ==
  SinkTypes /\ EngineTypes /\ FileTypes /\ DrainTypes /\ MemoTypes /\ CounterTypes /\ LossTypes

\* Where a thread is that does not hold csv_mutex_, and where it waits for it.
Away == {"idle", "lock", "configure", "disable"}

Waiting == {"lock", "configure", "disable"}

\* Who may be where: only the holder of csv_mutex_ is in a drain, and stop()
\* joins each thread before it goes on to what that thread uses.
Control ==
  /\ \A t \in Drainers : csvLock # t => d[t].pc \in Away
  /\ \A t \in Drainers : csvLock = t =>
       /\ d[t].pc \notin Waiting
       /\ d[t].pc = "idle" => t = Main /\ stopping = "drained"
  /\ \A t \in Drainers : d[t].pc = "idle" => d[t] = IdleDrain
  /\ \A t \in Drainers : d[t].pc \in Waiting => d[t].batch = <<>>
  /\ \A t \in Workers : d[t].pc # "idle" => stopping \in BeforeJoin
  /\ d[Ticker].pc # "idle" =>
       stopping \in {"running", "flagged"} /\ d[Ticker].pc \notin {"configure", "disable"}
  /\ d[Main].pc # "idle" =>
       stopping = "server_joined" /\ d[Main].pc \notin {"configure", "disable"}
  /\ stopping = "drained" => csvLock = Main

\* The event in hand, and where the batch ends.
InBatch ==
  /\ Len(cur.batch) <= Budget
  /\ cur.pc \in Handling =>
       /\ Len(cur.batch) < Budget
       /\ cur.event \in Published
       /\ cur.pc \in {"measurement", "status"} => cur.event.count = 0

HandlingOne == IF cur.pc \in Handling THEN 1 ELSE 0

\* The id of the last event that remember_events has seen.
Remembered == totals.events + (IF cur.pc = "count" THEN Len(cur.batch) ELSE 0)

\* Events are numbered as they are published, and leave in that order: counted,
\* in the batch, in hand, in the queue.
Ids ==
  /\ published = totals.events + Len(cur.batch) + HandlingOne + Len(evq)
  /\ \A i \in 1..Len(evq) : evq[i].id = published - Len(evq) + i
  /\ cur.pc \in Handling => cur.event.id = totals.events + Len(cur.batch) + 1
  /\ \A i \in 1..Len(cur.batch) : cur.batch[i].id = totals.events + i
  /\ \A i \in 1..Len(recent) : recent[i] = Remembered - Len(recent) + i
  /\ measurement <= Remembered

\* Where the samples of the i-th queued event start; after the last one, head.
StartOf(i) == IF i <= Len(evq) THEN evq[i].start ELSE head

\* The samples of the events in hand and in the queue lie one after the other
\* up to head, and the slots that failed events never gave back lie before them.
Slots ==
  /\ \A i \in 1..Len(evq) : evq[i].start + evq[i].count = StartOf(i + 1)
  /\ \A i, j \in 1..Len(evq) : i < j => evq[i].start + evq[i].count <= evq[j].start
  /\ \A i \in 1..Len(evq) : tail <= evq[i].start /\ evq[i].start + evq[i].count <= head
  /\ tail <= head
  /\ cur.pc \in Handling =>
       tail <= cur.event.start /\ cur.event.start + cur.event.count = StartOf(1)
  /\ tail + held = IF cur.pc \in Handling THEN cur.event.start ELSE StartOf(1)
  /\ tail = totals.values + cur.values

\* The id of the last event whose lines may have been written.
Written == totals.events + Len(cur.batch) + (IF cur.pc = "csv" THEN 1 ELSE 0)

Lines ==
  /\ \A i, j \in 1..Len(file) : i < j => file[i] < file[j]
  /\ \A i, j \in 1..Len(buffer) : i < j => buffer[i] < buffer[j]
  /\ \A i \in 1..Len(file), j \in 1..Len(buffer) : file[i] < buffer[j]
  /\ \A i \in 1..Len(file) : file[i] <= Written
  /\ \A i \in 1..Len(buffer) : buffer[i] <= Written

\* What a healthy disk keeps.  The stream that is good but not open is the one
\* that was never opened, or the one that stop() closed: nothing has been written
\* or lost since.  Only from there may an event be lost, which makes the stream
\* bad; a bad stream is not open, and is opened for the next event.
Healthy ==
  /\ \A e \in lost, other \in Handled : other < e => other \in before /\ e \notin before
  /\ stream.open => stream.good
  /\ stream.good /\ ~stream.open => Handled \subseteq before
  /\ cur.pc = "write" => stream.good
  /\ sink.enabled /\ stopping # "stopped" => sink.open /\ sink.good

Loss ==
  /\ \A x \in lost \cup before : x <= Written
  /\ stopping \in {"running", "flagged", "ticker_joined"} => before = {}
  /\ faults = 0 => Healthy

\* The cycle of the newest event that the sink has seen, or will see next, is
\* not older than any row.
Cycles ==
  /\ \A i \in 1..Len(evq) : evq[i].cycle <= cycle
  /\ \A i, j \in 1..Len(evq) : i < j => evq[i].cycle <= evq[j].cycle
  /\ cur.pc \in Handling =>
       /\ cur.event.cycle <= cycle
       /\ \A i \in 1..Len(evq) : cur.event.cycle <= evq[i].cycle
       /\ sink.pending.cycle <= cur.event.cycle
  /\ \A i \in 1..Len(evq) : sink.pending.cycle <= evq[i].cycle
  /\ sink.pending.cycle <= cycle

Rows ==
  /\ OneRowPerCycle
  /\ sink.enabled /\ sink.pending = NoRow /\ stopping # "stopped" => csvRows = <<>>
  /\ ~sink.enabled => sink.pending = NoRow

\* The inductive invariant.
IInv == Types /\ Control /\ InBatch /\ Ids /\ Slots /\ Lines /\ Loss /\ Cycles /\ Rows
-----------------------------------------------------------------------------
(* The drain under way                                                     *)

\* The records that a drainer may have while it holds csv_mutex_.
Working == {r \in Drain : r.pc \notin Away}

LEMMA IdleIsDrain == IdleDrain \in Drain /\ IdleDrain.pc = "idle"
<1>1. NoEvent \in Event /\ <<>> \in Seq(Event)
  BY DEF NoEvent, Event
<1> QED
  BY <1>1 DEF IdleDrain, Drain, DrainPcs

\* Nobody is in a drain when nobody has the mutex.
LEMMA CurFree ==
  ASSUME csvLock = Free
  PROVE  cur = IdleDrain
BY TelemetryAssumption DEF cur

LEMMA CurType == DrainTypes => cur \in Drain
BY IdleIsDrain DEF DrainTypes, cur

\* A step of a drain: the mutex stays with the drainer, whose record is cur.
LEMMA DrainStep ==
  ASSUME DrainTypes, Control, NEW t \in Drainers, d[t].pc \notin Away,
         NEW r \in Working, Goto(t, r), UNCHANGED <<csvLock, stopping>>
  PROVE  /\ csvLock = t /\ cur = d[t] /\ cur' = r
         /\ d' \in [Drainers -> Drain]
         /\ Control'
<1>1. csvLock = t
  BY DEF Control
<1>2. d' = [d EXCEPT ![t] = r] /\ d \in [Drainers -> Drain] /\ r \in Drain
  BY DEF Goto, DrainTypes, Working
<1>3. d' \in [Drainers -> Drain]
  BY <1>2
<1>4. d'[t] = r /\ \A s \in Drainers : s # t => d'[s] = d[s]
  BY <1>2
<1>5. cur = d[t] /\ cur' = r
  BY <1>1, <1>4 DEF cur
<1>6. r.pc \notin Away
  BY DEF Working
<1>7. Main \in Drainers /\ Ticker \in Drainers /\ Workers \subseteq Drainers
  BY DEF Drainers
<1>8. Control'
  <2>1. \A s \in Drainers : csvLock' # s => d'[s].pc \in Away
    BY <1>1, <1>4 DEF Control
  <2>2. \A s \in Drainers : csvLock' = s =>
          d'[s].pc \notin Waiting /\ (d'[s].pc = "idle" => s = Main /\ stopping' = "drained")
    BY <1>1, <1>4, <1>6 DEF Away, Waiting
  <2>3. /\ \A s \in Drainers : d'[s].pc = "idle" => d'[s] = IdleDrain
        /\ \A s \in Drainers : d'[s].pc \in Waiting => d'[s].batch = <<>>
    BY <1>4, <1>6 DEF Control, Away, Waiting
  <2>4. d[t].pc # "idle"
    BY DEF Away
  <2>5. \A s \in Workers : d'[s].pc # "idle" => stopping' \in BeforeJoin
    BY <1>4, <1>7, <2>4 DEF Control
  <2>6. /\ d'[Ticker].pc # "idle" =>
             stopping' \in {"running", "flagged"} /\ d'[Ticker].pc \notin {"configure", "disable"}
        /\ d'[Main].pc # "idle" =>
             stopping' = "server_joined" /\ d'[Main].pc \notin {"configure", "disable"}
    BY <1>4, <1>6, <1>7, <2>4 DEF Control, Away
  <2>7. stopping' = "drained" => csvLock' = Main
    BY DEF Control
  <2> QED
    BY <2>1, <2>2, <2>3, <2>4, <2>5, <2>6, <2>7 DEF Control
<1> QED
  BY <1>1, <1>3, <1>5, <1>8

\* A step that leaves the drains, the mutex and the main thread alone.
LEMMA SameDrains ==
  ASSUME Control, UNCHANGED <<d, csvLock, stopping>>
  PROVE  Control' /\ cur' = cur
BY DEF Control, cur

\* Between two drains: no batch, no event, nothing in hand.
LEMMA IdleFields ==
  /\ IdleDrain.pc = "idle" /\ IdleDrain.batch = <<>> /\ Len(IdleDrain.batch) = 0
  /\ IdleDrain.values = 0 /\ IdleDrain.failed = 0
BY DEF IdleDrain

\* The numbers of a published event.
LEMMA EventNumbers ==
  ASSUME NEW e \in Published
  PROVE  /\ e \in Event /\ e.id \in Nat /\ e.cycle \in Nat \ {0}
         /\ e.start \in Nat /\ e.count \in Nat
<1>1. e \in Event /\ e.cycle # 0
  BY DEF Published
<1> QED
  BY <1>1 DEF Event

LEMMA QueueNumbers ==
  ASSUME EngineTypes, NEW i \in 1..Len(evq)
  PROVE  /\ evq[i] \in Published /\ evq[i] \in Event
         /\ evq[i].id \in Nat /\ evq[i].cycle \in Nat \ {0}
         /\ evq[i].start \in Nat /\ evq[i].count \in Nat
<1>1. evq[i] \in Published
  BY DEF EngineTypes
<1> QED
  BY <1>1, EventNumbers

\* The numbers of a drain and of the counters.
LEMMA DrainNumbers ==
  ASSUME NEW r \in Drain
  PROVE  /\ r.batch \in Seq(Event) /\ Len(r.batch) \in Nat /\ r.event \in Event
         /\ r.values \in Nat /\ r.failed \in Nat /\ r.columns \subseteq Columns
         /\ r.event.start \in Nat /\ r.event.count \in Nat /\ r.event.id \in Nat
         /\ r.event.cycle \in Nat
<1>1. r.batch \in Seq(Event) /\ r.event \in Event
  BY DEF Drain
<1>2. Len(r.batch) \in Nat
  BY <1>1
<1>3. r.values \in Nat /\ r.failed \in Nat /\ r.columns \subseteq Columns
  BY DEF Drain
<1> HIDE DEF Drain
<1> QED
  BY <1>1, <1>2, <1>3 DEF Event

LEMMA TotalsNumbers ==
  ASSUME MemoTypes
  PROVE  totals.events \in Nat /\ totals.values \in Nat /\ totals.failed \in Nat
BY DEF MemoTypes
-----------------------------------------------------------------------------
(* The forms that the steps of a drain have                                *)

\* The drain goes on with what it has.
Retains ==
  /\ cur'.event = cur.event /\ cur'.batch = cur.batch
  /\ cur'.values = cur.values /\ cur'.failed = cur.failed

\* The event in hand joins the batch.
Finishes(values, failed) ==
  /\ cur.pc \in Handling /\ cur'.pc = "pop"
  /\ cur'.batch = Append(cur.batch, cur.event)
  /\ cur'.values = cur.values + values /\ cur'.failed = cur.failed + failed

LEMMA MoveForm ==
  ASSUME DrainTypes, Control, InBatch, NEW t \in Drainers, d[t].pc \notin Away,
         NEW pc \in DrainPcs \ Away,
         pc \in Handling => d[t].pc \in Handling /\ pc \notin {"measurement", "status"},
         Goto(t, [d[t] EXCEPT !.pc = pc]), UNCHANGED <<csvLock, stopping>>
  PROVE  /\ csvLock = t /\ cur = d[t] /\ cur \in Drain
         /\ cur'.pc = pc /\ Retains
         /\ d' \in [Drainers -> Drain] /\ Control' /\ InBatch'
<1> DEFINE r == [d[t] EXCEPT !.pc = pc]
<1>1. d[t] \in Drain
  BY DEF DrainTypes
<1>2. r \in Drain /\ r.pc = pc /\ r.event = d[t].event /\ r.batch = d[t].batch
      /\ r.values = d[t].values /\ r.failed = d[t].failed
  BY <1>1 DEF Drain
<1>3. r \in Working
  BY <1>2 DEF Working
<1>4. /\ csvLock = t /\ cur = d[t] /\ cur' = r
      /\ d' \in [Drainers -> Drain] /\ Control'
  BY <1>3, DrainStep
<1> HIDE DEF r
<1>5. cur'.pc = pc /\ Retains
  BY <1>2, <1>4 DEF Retains
<1>6. InBatch'
  BY <1>4, <1>5 DEF InBatch, Retains
<1> QED
  BY <1>1, <1>4, <1>5, <1>6

LEMMA FinishForm ==
  ASSUME DrainTypes, Control, InBatch, NEW t \in Drainers, d[t].pc \in Handling,
         NEW values \in Nat, NEW failed \in Nat,
         Goto(t, Finished(t, values, failed)), UNCHANGED <<csvLock, stopping>>
  PROVE  /\ csvLock = t /\ cur = d[t] /\ cur \in Drain
         /\ Finishes(values, failed) /\ Len(cur'.batch) = Len(cur.batch) + 1
         /\ d' \in [Drainers -> Drain] /\ Control' /\ InBatch'
<1> DEFINE r == Finished(t, values, failed)
<1>1. d[t] \in Drain /\ Len(d[t].batch) \in Nat
  BY DEF DrainTypes, Drain
<1>2. /\ NoEvent \in Event
      /\ Append(d[t].batch, d[t].event) \in Seq(Event)
      /\ Len(Append(d[t].batch, d[t].event)) = Len(d[t].batch) + 1
  <2>1. d[t].batch \in Seq(Event) /\ d[t].event \in Event
    BY <1>1 DEF Drain
  <2> QED
    BY <2>1 DEF NoEvent, Event
<1>3. r.pc = "pop" /\ r.batch = Append(d[t].batch, d[t].event)
      /\ r.values = d[t].values + values /\ r.failed = d[t].failed + failed
  BY <1>1 DEF Finished, Drain
<1>4. r \in Drain
  BY <1>1, <1>2 DEF Finished, Drain, DrainPcs
<1>5. r \in Working
  BY <1>3, <1>4 DEF Working, Away
<1>6. d[t].pc \notin Away
  BY DEF Handling, Away
<1> HIDE DEF r
<1>7. /\ csvLock = t /\ cur = d[t] /\ cur' = r
      /\ d' \in [Drainers -> Drain] /\ Control'
  BY <1>5, <1>6, DrainStep DEF r
<1>8. Finishes(values, failed)
  BY <1>3, <1>7 DEF Finishes
<1>9. Len(cur'.batch) = Len(cur.batch) + 1
  BY <1>2, <1>3, <1>7
<1>10. InBatch'
  <2>1. Len(cur.batch) < Budget
    BY <1>7 DEF InBatch
  <2> QED
    BY <1>1, <1>7, <1>8, <1>9, <2>1, TelemetryAssumption DEF InBatch, Finishes, Handling
<1> QED
  BY <1>1, <1>7, <1>8, <1>9, <1>10
-----------------------------------------------------------------------------
(* Ids                                                                     *)

\* Steps that move the drain within the handling of an event, or before the
\* batch is remembered.
LEMMA IdsMove ==
  ASSUME Ids, Retains, cur.pc # "count", cur'.pc # "count",
         (cur'.pc \in Handling) <=> (cur.pc \in Handling),
         UNCHANGED <<published, evq, totals, recent, measurement>>
  PROVE  Ids'
BY DEF Ids, Retains, HandlingOne, Remembered

LEMMA IdsFinish ==
  ASSUME EngineTypes, MemoTypes, InBatch, Ids, NEW values, NEW failed, Finishes(values, failed), cur \in Drain,
         UNCHANGED <<published, evq, totals, recent, measurement>>
  PROVE  Ids'
<1>1. /\ cur.batch \in Seq(Event) /\ cur.event \in Event /\ Len(cur.batch) \in Nat
      /\ totals.events \in Nat /\ Len(evq) \in Nat
  BY DrainNumbers, TotalsNumbers DEF EngineTypes
<1>2. /\ cur'.batch = Append(cur.batch, cur.event) /\ cur'.pc = "pop" /\ cur.pc \in Handling
      /\ Len(cur'.batch) = Len(cur.batch) + 1
  BY <1>1 DEF Finishes
<1>3. HandlingOne = 1 /\ HandlingOne' = 0 /\ Remembered' = Remembered
  BY <1>2 DEF HandlingOne, Remembered, Handling
<1>4. ASSUME NEW i \in 1..Len(cur'.batch)
      PROVE  cur'.batch[i].id = totals.events + i
  <2>1. CASE i \in 1..Len(cur.batch)
    <3>1. cur'.batch[i] = cur.batch[i]
      BY <1>1, <1>2, <2>1
    <3> QED
      BY <2>1, <3>1 DEF Ids
  <2>2. CASE i = Len(cur.batch) + 1
    <3>1. cur'.batch[i] = cur.event
      BY <1>1, <1>2, <2>2
    <3>2. cur.event.id = totals.events + Len(cur.batch) + 1
      BY <1>2 DEF Ids
    <3>3. cur'.batch[i].id = totals.events + (Len(cur.batch) + 1)
      BY <1>1, <3>1, <3>2
    <3> QED
      BY <2>2, <3>3
  <2>3. Len(cur'.batch) = Len(cur.batch) + 1
    BY <1>2
  <2> QED
    BY <1>1, <2>1, <2>2, <2>3
<1>5. published = totals.events + Len(cur'.batch) + HandlingOne' + Len(evq)
  <2>1. published = totals.events + Len(cur.batch) + 1 + Len(evq)
    BY <1>3 DEF Ids
  <2>2. Len(cur'.batch) = Len(cur.batch) + 1 /\ HandlingOne' = 0
    BY <1>2, <1>3
  <2> QED
    BY <1>1, <2>1, <2>2
<1> QED
  BY <1>2, <1>3, <1>4, <1>5 DEF Ids, Handling
-----------------------------------------------------------------------------
(* Slots                                                                   *)

LEMMA SlotsMove ==
  ASSUME Slots, Retains, (cur'.pc \in Handling) <=> (cur.pc \in Handling),
         UNCHANGED <<evq, head, tail, totals, held>>
  PROVE  Slots'
BY DEF Slots, Retains, StartOf

\* An event is done with: its slots are given back, or they are held for ever.
LEMMA SlotsFinish ==
  ASSUME EngineTypes, MemoTypes, LossTypes, InBatch, Slots, cur \in Drain,
         NEW values \in Nat, NEW failed \in Nat, Finishes(values, failed),
         values = IF failed = 0 THEN cur.event.count ELSE 0,
         held' = IF failed = 0 THEN held ELSE held + cur.event.count,
         tail' = tail + values, UNCHANGED <<evq, head, totals>>
  PROVE  Slots'
<1>1. /\ cur.pc \in Handling /\ cur'.pc = "pop" /\ cur'.pc \notin Handling
      /\ cur'.values = cur.values + values /\ cur'.failed = cur.failed + failed
  BY DEF Finishes, Handling
<1>2. /\ cur.event.start \in Nat /\ cur.event.count \in Nat /\ cur.values \in Nat
      /\ held \in Nat /\ totals.values \in Nat
      /\ tail \in Nat /\ head \in Nat /\ evq \in Seq(Published) /\ Len(evq) \in Nat
  BY DrainNumbers, TotalsNumbers DEF EngineTypes, LossTypes
<1>3. \A i \in 1..Len(evq) : evq[i].start \in Nat /\ evq[i].count \in Nat
  BY QueueNumbers
<1>4. tail <= cur.event.start /\ cur.event.start + cur.event.count = StartOf(1)
  BY <1>1 DEF Slots
<1>5. tail' <= StartOf(1) /\ tail' \in Nat
  BY SMTT(40), <1>2, <1>4
<1>6. \A i \in Nat : StartOf(i)' = StartOf(i)
  BY DEF StartOf
<1>7. \A i \in 1..Len(evq) : StartOf(1) <= evq[i].start
  <2> SUFFICES ASSUME NEW i \in 1..Len(evq) PROVE StartOf(1) <= evq[i].start
    OBVIOUS
  <2>1. 1 \in 1..Len(evq) /\ StartOf(1) = evq[1].start
    BY <1>2 DEF StartOf
  <2>2. CASE i = 1
    BY <1>3, <2>1, <2>2
  <2>3. CASE i # 1
    <3>1. 1 < i
      BY <1>2, <2>3
    <3>2. evq[1].start + evq[1].count <= evq[i].start
      BY <2>1, <3>1 DEF Slots
    <3> QED
      BY <1>3, <2>1, <3>2
  <2> QED
    BY <2>2, <2>3
<1>8. StartOf(1) <= head
  <2>1. CASE Len(evq) = 0
    BY <1>2, <2>1 DEF StartOf
  <2>2. CASE 1 \in 1..Len(evq)
    <3>1. evq[1].start + evq[1].count <= head /\ evq[1].start \in Nat /\ evq[1].count \in Nat
      BY <1>3, <2>2 DEF Slots
    <3>2. StartOf(1) = evq[1].start
      BY <1>2, <2>2 DEF StartOf
    <3> QED
      BY <1>2, <3>1, <3>2
  <2> QED
    BY <1>2, <2>1, <2>2
<1>9. tail' + held' = StartOf(1)
  <2>1. tail + held = cur.event.start
    BY <1>1 DEF Slots
  <2>2. CASE failed = 0
    BY <1>2, <1>4, <2>1, <2>2
  <2>3. CASE failed # 0
    BY <1>2, <1>4, <2>1, <2>3
  <2> QED
    BY <2>2, <2>3
<1>10. \A i \in 1..Len(evq) : tail' <= evq[i].start
  <2>1. StartOf(1) \in Nat
    BY SMTT(30), <1>2, <1>4
  <2> QED
    BY <1>3, <1>5, <1>7, <2>1
<1>11. tail' <= head
  <2>1. StartOf(1) \in Nat
    BY SMTT(30), <1>2, <1>4
  <2> QED
    BY <1>2, <1>5, <1>8, <2>1
<1>12. tail' = totals.values + cur'.values
  BY SMTT(40), <1>1, <1>2 DEF Slots
<1>13. /\ \A i \in 1..Len(evq) : evq[i].start + evq[i].count = StartOf(i + 1)'
       /\ \A i, j \in 1..Len(evq) : i < j => evq[i].start + evq[i].count <= evq[j].start
       /\ \A i \in 1..Len(evq) : evq[i].start + evq[i].count <= head
  BY <1>6 DEF Slots
<1>14. StartOf(1)' = StartOf(1)
  BY <1>6
<1>15. tail' = totals'.values + cur'.values /\ evq' = evq /\ head' = head
  BY <1>12
<1> QED
  BY <1>1, <1>9, <1>10, <1>11, <1>13, <1>14, <1>15 DEF Slots
-----------------------------------------------------------------------------
(* Lines                                                                   *)

LEMMA LinesMove ==
  ASSUME Lines, Retains, cur.pc = "csv" => cur'.pc = "csv", FileTypes, MemoTypes, cur \in Drain,
         UNCHANGED <<file, buffer, totals>>
  PROVE  Lines'
<1>1. Written' \in Nat /\ Written \in Nat /\ Written <= Written'
  BY DEF Written, Retains, MemoTypes, Drain
<1>2. (\A i \in 1..Len(file) : file[i] \in Nat) /\ (\A i \in 1..Len(buffer) : buffer[i] \in Nat)
  BY DEF FileTypes
<1> QED
  BY <1>1, <1>2 DEF Lines

LEMMA LinesFinish ==
  ASSUME Lines, FileTypes, MemoTypes, cur \in Drain, NEW values, NEW failed, Finishes(values, failed),
         Len(cur'.batch) = Len(cur.batch) + 1, UNCHANGED <<file, buffer, totals>>
  PROVE  Lines'
<1>1. Written' \in Nat /\ Written \in Nat /\ Written <= Written'
  BY DEF Written, Finishes, MemoTypes, Drain
<1>2. (\A i \in 1..Len(file) : file[i] \in Nat) /\ (\A i \in 1..Len(buffer) : buffer[i] \in Nat)
  BY DEF FileTypes
<1> QED
  BY <1>1, <1>2 DEF Lines
-----------------------------------------------------------------------------
(* Cycles                                                                  *)

LEMMA CyclesMove ==
  ASSUME Cycles, Retains, cur'.pc \in Handling => cur.pc \in Handling,
         UNCHANGED <<evq, cycle, sink>>
  PROVE  Cycles'
BY DEF Cycles, Retains

LEMMA CyclesFinish ==
  ASSUME Cycles, NEW values, NEW failed, Finishes(values, failed),
         sink'.pending.cycle \in {sink.pending.cycle, cur.event.cycle},
         UNCHANGED <<evq, cycle>>
  PROVE  Cycles'
<1>1. cur.pc \in Handling /\ cur'.pc \notin Handling
  BY DEF Finishes, Handling
<1> QED
  BY <1>1 DEF Cycles
-----------------------------------------------------------------------------
(* The handling of an event                                                *)

LEMMA AppendFacts ==
  ASSUME NEW S, NEW s \in Seq(S), NEW x
  PROVE  /\ Len(Append(s, x)) = Len(s) + 1 /\ Len(s) \in Nat
         /\ \A i \in 1..Len(s) : Append(s, x)[i] = s[i] /\ s[i] \in S
         /\ Append(s, x)[Len(s) + 1] = x
OBVIOUS

\* An operation of the disk counts its failure.
LEMMA FaultStep ==
  ASSUME faults \in Nat, NEW fault \in BOOLEAN, Fault(fault)
  PROVE  /\ faults' \in Nat
         /\ faults' = 0 => faults = 0 /\ ~fault
BY DEF Fault

\* The samples of the event in hand, and of those in the queue, may be read.
LEMMA HandReadable ==
  ASSUME EngineTypes, Slots
  PROVE  /\ \A i \in 1..Len(evq) : Readable(evq[i])
         /\ cur.pc \in Handling /\ cur \in Drain => Readable(cur.event)
<1>1. \A i \in 1..Len(evq) : Readable(evq[i])
  BY DEF Slots, Readable
<1>2. ASSUME cur.pc \in Handling, cur \in Drain
      PROVE  Readable(cur.event)
  <2>1. tail <= cur.event.start /\ cur.event.start + cur.event.count = StartOf(1)
    BY <1>2 DEF Slots
  <2>2. StartOf(1) <= head
    <3>1. CASE 1 <= Len(evq)
      <4>1. 1 \in 1..Len(evq)
        BY <3>1 DEF EngineTypes
      <4>2. evq[1].start + evq[1].count <= head /\ evq[1].start \in Nat /\ evq[1].count \in Nat
        BY <4>1, QueueNumbers DEF Slots
      <4>3. StartOf(1) = evq[1].start
        BY <3>1 DEF StartOf
      <4> QED
        BY <4>2, <4>3 DEF EngineTypes
    <3>2. CASE ~(1 <= Len(evq))
      BY <3>2 DEF StartOf, EngineTypes
    <3> QED
      BY <3>1, <3>2
  <2> QED
    BY <2>1, <2>2 DEF Readable
<1> QED
  BY <1>1, <1>2

\* What becomes of the event in hand.
Goes(failed) == lost' = IF failed = 0 THEN lost ELSE lost \cup {cur.event.id}

\* The drain has handled its event: what it owes to the queue, the ring, the file
\* and the sink is kept.
LEMMA FinishStep ==
  ASSUME IInv, NEW t \in Drainers, d[t].pc \in Handling,
         NEW values \in Nat, NEW failed \in Nat,
         values = IF failed = 0 THEN d[t].event.count ELSE 0,
         Finish(t, values, failed), tail' = tail + values,
         sink'.pending.cycle \in {sink.pending.cycle, d[t].event.cycle},
         UNCHANGED <<engineVars, evq, head, buffer, file, memoVars, csvLock, stopping>>
  PROVE  /\ cur = d[t] /\ cur \in Drain /\ Finishes(values, failed) /\ cur'.pc = "pop"
         /\ Goes(failed) /\ before' = before
         /\ Written \in Nat /\ Written' \in Nat /\ Written <= Written'
         /\ cur.event.id <= Written' /\ (cur.pc # "csv" => Written < cur.event.id)
         /\ EngineTypes' /\ DrainTypes' /\ MemoTypes' /\ LossTypes'
         /\ Control' /\ InBatch' /\ Ids' /\ Slots' /\ Lines' /\ Cycles'
<1>1. /\ csvLock = t /\ cur = d[t] /\ cur \in Drain /\ Finishes(values, failed)
      /\ Len(cur'.batch) = Len(cur.batch) + 1
      /\ d' \in [Drainers -> Drain] /\ Control' /\ InBatch'
  BY FinishForm DEF IInv, Types, Finish
<1>2. /\ published' = published /\ cycle' = cycle /\ evq' = evq /\ head' = head
      /\ buffer' = buffer /\ file' = file /\ recent' = recent /\ measurement' = measurement
      /\ totals' = totals
  BY DEF engineVars, memoVars
<1>3. EngineTypes' /\ DrainTypes' /\ MemoTypes' /\ LossTypes'
  <2>1. tail' \in Nat
    BY DEF IInv, Types, EngineTypes
  <2>2. d[t].event.id \in Nat /\ d[t].event.count \in Nat
    BY <1>1, DrainNumbers
  <2>3. LossTypes'
    BY <2>2 DEF IInv, Types, LossTypes, Finish
  <2> QED
    BY <1>1, <1>2, <2>1, <2>3 DEF IInv, Types, EngineTypes, DrainTypes, MemoTypes
<1>4. Ids'
  BY <1>1, <1>2, IdsFinish DEF IInv, Types
<1>5. Slots'
  BY <1>1, <1>2, SlotsFinish DEF IInv, Types, Finish
<1>6. Lines'
  BY <1>1, <1>2, LinesFinish DEF IInv, Types
<1>7. Cycles'
  BY <1>1, <1>2, CyclesFinish DEF IInv
<1>8. cur'.pc = "pop"
  BY <1>1 DEF Finishes
<1>9. /\ Written \in Nat /\ Written' \in Nat /\ Written <= Written'
      /\ cur.event.id <= Written' /\ (cur.pc # "csv" => Written < cur.event.id)
  <2>1. totals.events \in Nat /\ Len(cur.batch) \in Nat
    BY <1>1, DrainNumbers, TotalsNumbers DEF IInv, Types
  <2>2. Written' = totals.events + (Len(cur.batch) + 1)
    BY <1>1, <1>2, <1>8, <2>1 DEF Written
  <2>3. cur.event.id = totals.events + Len(cur.batch) + 1
    BY <1>1 DEF IInv, Ids
  <2> QED
    BY SMTT(30), <2>1, <2>2, <2>3 DEF Written
<1>10. Goes(failed) /\ before' = before
  BY <1>1 DEF Finish, Goes
<1> QED
  BY <1>1, <1>3, <1>4, <1>5, <1>6, <1>7, <1>8, <1>9, <1>10

\* The drain goes from one operation to the next one for the same event.
LEMMA HandlingStep ==
  ASSUME IInv, NEW t \in Drainers, d[t].pc \in Handling, NEW pc \in {"write", "csv"},
         Goto(t, [d[t] EXCEPT !.pc = pc]),
         UNCHANGED <<sink, engineVars, ringVars, memoVars, lossVars, csvLock, stopping>>
  PROVE  /\ cur = d[t] /\ cur \in Drain /\ Retains /\ cur'.pc = pc
         /\ Written \in Nat /\ Written' \in Nat /\ (cur.pc # "csv" => Written <= Written')
         /\ EngineTypes' /\ DrainTypes' /\ MemoTypes' /\ LossTypes'
         /\ Control' /\ InBatch' /\ Ids' /\ Slots' /\ Cycles'
<1>1. /\ published' = published /\ cycle' = cycle /\ evq' = evq /\ head' = head /\ tail' = tail
      /\ recent' = recent /\ measurement' = measurement /\ totals' = totals
      /\ lost' = lost /\ held' = held /\ before' = before
  BY DEF engineVars, memoVars, ringVars, lossVars
<1>2. /\ pc \in Handling /\ pc \in DrainPcs \ Away
      /\ pc \notin {"measurement", "status"} /\ d[t].pc \notin Away
  BY DEF Handling, DrainPcs, Away
<1>3. /\ csvLock = t /\ cur = d[t] /\ cur \in Drain /\ cur'.pc = pc /\ Retains
      /\ d' \in [Drainers -> Drain] /\ Control' /\ InBatch'
  BY <1>2, MoveForm DEF IInv, Types
<1>4. EngineTypes' /\ DrainTypes' /\ MemoTypes' /\ LossTypes'
  BY <1>1, <1>3 DEF IInv, Types, EngineTypes, DrainTypes, MemoTypes, LossTypes
<1>5. cur.pc # "count" /\ cur'.pc # "count" /\ cur.pc \in Handling /\ cur'.pc \in Handling
  BY <1>2, <1>3 DEF Handling
<1>6. Ids'
  BY <1>1, <1>3, <1>5, IdsMove DEF IInv
<1>7. Slots'
  BY <1>1, <1>3, <1>5, SlotsMove DEF IInv
<1>8. Cycles'
  BY <1>1, <1>3, <1>5, CyclesMove DEF IInv
<1>9. Written \in Nat /\ Written' \in Nat /\ (cur.pc # "csv" => Written <= Written')
  <2>1. totals.events \in Nat /\ Len(cur.batch) \in Nat
    BY <1>3, DrainNumbers, TotalsNumbers DEF IInv, Types
  <2> QED
    BY SMTT(30), <1>1, <1>3, <2>1 DEF Written, Retains
<1> QED
  BY <1>3, <1>4, <1>6, <1>7, <1>8, <1>9

\* The numbers in the file, in the stream and lost.
LEMMA HandledNumbers ==
  ASSUME IInv
  PROVE  /\ Written \in Nat /\ Handled \subseteq Nat /\ before \subseteq Nat
         /\ \A x \in Handled \cup before : x <= Written
<1>1. Written \in Nat
  <2>1. totals.events \in Nat /\ Len(cur.batch) \in Nat
    BY CurType, DrainNumbers, TotalsNumbers DEF IInv, Types
  <2> QED
    BY <2>1 DEF Written
<1>2. /\ Range(file) = {file[i] : i \in 1..Len(file)}
      /\ Range(buffer) = {buffer[i] : i \in 1..Len(buffer)}
  BY DEF IInv, Types, FileTypes, Range
<1>3. ASSUME NEW x \in Range(file) \cup Range(buffer)
      PROVE  x \in Nat /\ x <= Written
  <2>1. /\ \A i \in 1..Len(file) : file[i] \in Nat /\ file[i] <= Written
        /\ \A i \in 1..Len(buffer) : buffer[i] \in Nat /\ buffer[i] <= Written
    BY DEF IInv, Types, FileTypes, Lines
  <2> QED
    BY <1>2, <1>3, <2>1
<1> QED
  BY <1>1, <1>3 DEF Handled, IInv, Types, LossTypes, Loss

\* An event joins those that are lost.  With a healthy disk that is so only where
\* nothing was handled since the start, or since stop() closed the stream.
LEMMA LossFinish ==
  ASSUME IInv, Written' \in Nat, Written <= Written', cur.event.id \in Nat,
         cur.event.id <= Written', NEW failed, Goes(failed),
         UNCHANGED <<buffer, file, before, stopping>>, cur'.pc = "pop",
         faults' = 0 => faults = 0, stream' \in [open : BOOLEAN, good : BOOLEAN],
         faults' = 0 /\ failed # 0 =>
           /\ cur.pc # "csv" /\ Written < cur.event.id
           /\ stream.good /\ ~stream.open /\ ~stream'.good /\ ~stream'.open,
         failed = 0 => stream' = stream,
         faults' = 0 => (sink'.enabled /\ stopping # "stopped" => sink'.open /\ sink'.good)
  PROVE  Loss'
<1>1. /\ Written \in Nat /\ Handled \subseteq Nat /\ before \subseteq Nat
      /\ \A x \in Handled \cup before : x <= Written
  BY HandledNumbers
<1>2. lost \subseteq Handled /\ lost' \subseteq lost \cup {cur.event.id}
      /\ Handled' \subseteq Handled \cup {cur.event.id}
  BY DEF Handled, Goes
<1>3. \A x \in lost' \cup before' : x <= Written'
  <2> SUFFICES ASSUME NEW x \in lost' \cup before' PROVE x <= Written'
    OBVIOUS
  <2>1. CASE x \in Handled \cup before
    <3>1. x \in Nat /\ x <= Written
      BY <1>1, <2>1
    <3> QED
      BY <1>1, <3>1
  <2>2. CASE x = cur.event.id
    BY <2>2
  <2> QED
    BY <1>2, <2>1, <2>2
<1>4. ASSUME faults' = 0 PROVE Healthy'
  <2>1. Healthy
    BY <1>4 DEF IInv, Loss
  <2>2. CASE failed = 0
    <3>1. lost' = lost /\ Handled' = Handled /\ stream' = stream
      BY <2>2 DEF Goes, Handled
    <3> QED
      BY <1>4, <2>1, <3>1 DEF Healthy
  <2>3. CASE failed # 0
    <3>1. Handled \subseteq before /\ Written < cur.event.id /\ ~stream'.good /\ ~stream'.open
      BY <1>4, <2>1, <2>3 DEF Healthy
    <3>2. \A x \in Handled \cup before : x < cur.event.id /\ ~(cur.event.id < x)
      <4> SUFFICES ASSUME NEW x \in Handled \cup before
                   PROVE  x < cur.event.id /\ ~(cur.event.id < x)
        OBVIOUS
      <4>1. x \in Nat /\ x <= Written
        BY <1>1
      <4> QED
        BY <1>1, <3>1, <4>1
    <3>3. ~(cur.event.id < cur.event.id) /\ cur.event.id \notin before
      BY <3>2
    <3>4. ASSUME NEW e \in lost', NEW other \in Handled', other < e
          PROVE  other \in before /\ e \notin before
      <4>1. CASE e \in lost /\ other \in Handled
        BY <2>1, <3>4, <4>1 DEF Healthy
      <4>2. CASE e \in lost /\ other = cur.event.id
        BY <1>2, <3>2, <3>4, <4>2
      <4>3. CASE e = cur.event.id /\ other \in Handled
        BY <3>1, <3>3, <4>3
      <4>4. CASE e = cur.event.id /\ other = cur.event.id
        BY <3>3, <3>4, <4>4
      <4> QED
        BY <1>2, <3>4, <4>1, <4>2, <4>3, <4>4
    <3> QED
      BY <1>4, <3>1, <3>4 DEF Healthy
  <2> QED
    BY <2>2, <2>3
<1> QED
  BY <1>3, <1>4 DEF IInv, Loss

\* A step that loses nothing, writes nothing and does not touch the stream.
LEMMA LossKeep ==
  ASSUME IInv, Written' \in Nat, Written <= Written', stream' = stream, buffer' = buffer,
         file' = file, lost' = lost, held' = held, before' = before, faults' = 0 => faults = 0, cur'.pc = "write" => cur.pc = "write",
         stopping' \in {"running", "flagged", "ticker_joined"} =>
           stopping \in {"running", "flagged", "ticker_joined"},
         faults' = 0 /\ (sink.enabled /\ stopping # "stopped" => sink.open /\ sink.good) =>
           (sink'.enabled /\ stopping' # "stopped" => sink'.open /\ sink'.good)
  PROVE  LossTypes' /\ Loss'
<1>1. Handled' = Handled
  BY DEF Handled
<1>2. \A x \in lost' \cup before' : x <= Written'
  <2>1. \A x \in lost \cup before : x \in Nat /\ x <= Written
    BY DEF IInv, Types, LossTypes, Loss
  <2> QED
    BY <1>1, <2>1, HandledNumbers
<1>3. ASSUME faults' = 0 PROVE Healthy'
  <2>1. Healthy
    BY <1>3 DEF IInv, Loss
  <2>2. \A e \in lost', other \in Handled' : other < e => other \in before' /\ e \notin before'
    BY <1>1, <2>1 DEF Healthy
  <2>3. /\ stream'.open => stream'.good
        /\ stream'.good /\ ~stream'.open => Handled' \subseteq before'
        /\ cur'.pc = "write" => stream'.good
    BY <1>1, <2>1 DEF Healthy
  <2>4. sink'.enabled /\ stopping' # "stopped" => sink'.open /\ sink'.good
    BY <1>3, <2>1 DEF Healthy
  <2> QED
    BY <2>2, <2>3, <2>4 DEF Healthy
<1> QED
  BY <1>1, <1>2, <1>3 DEF IInv, Types, LossTypes, Loss

\* The parts of the invariant that are about the drain's own handling of values.
LEMMA OpenValuesStep ==
  ASSUME IInv, NEW t \in Drainers, OpenValues(t)
  PROVE  IInv'
<1>1. /\ d[t].pc = "values" /\ d[t].pc \in Handling
      /\ UNCHANGED <<csvVars, engineVars, ringVars, buffer, file, memoVars, drains, csvRequests,
                     csvLock, stopping>>
  BY DEF OpenValues, Handling
<1>2. /\ sink' = sink /\ csvRows' = csvRows /\ evq' = evq /\ head' = head /\ tail' = tail
      /\ buffer' = buffer /\ file' = file /\ drains' = drains /\ csvRequests' = csvRequests
      /\ stopping' = stopping /\ totals' = totals
  BY <1>1 DEF csvVars, ringVars, memoVars
<1>3. d[t].event.count \in Nat /\ tail \in Nat
  <2>1. d[t] \in Drain
    BY DEF IInv, Types, DrainTypes
  <2> QED
    BY <2>1, DrainNumbers DEF IInv, Types, EngineTypes
<1>4. faults \in Nat /\ stream \in [open : BOOLEAN, good : BOOLEAN]
  BY DEF IInv, Types, CounterTypes, FileTypes
<1>5. SinkTypes' /\ Rows'
  BY <1>2 DEF IInv, Types, SinkTypes, Rows, OneRowPerCycle
<1>6. CASE d[t].event.count = 0 /\ Finish(t, 0, 0) /\ UNCHANGED <<stream, faults>>
  <2>1. tail' = tail + 0
    BY <1>2, <1>3
  <2>2. /\ cur = d[t] /\ cur \in Drain /\ cur'.pc = "pop" /\ Goes(0) /\ before' = before
        /\ Written' \in Nat /\ Written <= Written' /\ cur.event.id <= Written'
        /\ EngineTypes' /\ DrainTypes' /\ MemoTypes' /\ LossTypes'
        /\ Control' /\ InBatch' /\ Ids' /\ Slots' /\ Lines' /\ Cycles'
    BY <1>1, <1>2, <1>6, <2>1, FinishStep
  <2>3. FileTypes' /\ CounterTypes'
    BY <1>2, <1>6 DEF IInv, Types, FileTypes, CounterTypes
  <2>4. Loss'
    <3>1. cur.event.id \in Nat
      BY <2>2, DrainNumbers
    <3>2. faults' = faults /\ stream' = stream /\ stream' \in [open : BOOLEAN, good : BOOLEAN]
      BY <1>4, <1>6
    <3>3. faults = 0 => (sink.enabled /\ stopping # "stopped" => sink.open /\ sink.good)
      BY DEF IInv, Loss, Healthy
    <3> QED
      BY <1>2, <2>2, <3>1, <3>2, <3>3, LossFinish
  <2> QED
    BY <1>5, <2>2, <2>3, <2>4 DEF IInv, Types
<1>7. ASSUME Goto(t, [d[t] EXCEPT !.pc = "write"]), UNCHANGED lossVars, stream'.good, stream'.open => stream.open \/ ~stream.good,
             stream' \in [open : BOOLEAN, good : BOOLEAN],
             ~stream'.open => ~stream.open /\ stream.good,
             faults' \in Nat, faults' = 0 => faults = 0
      PROVE  IInv'
  <2>1. /\ cur = d[t] /\ cur \in Drain /\ Retains /\ cur'.pc = "write"
        /\ Written' \in Nat /\ (cur.pc # "csv" => Written <= Written')
        /\ EngineTypes' /\ DrainTypes' /\ MemoTypes' /\ LossTypes'
        /\ Control' /\ InBatch' /\ Ids' /\ Slots' /\ Cycles'
    BY <1>1, <1>2, <1>7, HandlingStep
  <2>2. FileTypes' /\ CounterTypes'
    BY <1>2, <1>7 DEF IInv, Types, FileTypes, CounterTypes
  <2>3. Lines'
    BY <1>1, <1>2, <2>1, LinesMove DEF IInv, Types
  <2>4. Loss'
    <3>1. lost' = lost /\ before' = before /\ Handled' = Handled
      BY <1>2, <1>7 DEF lossVars, Handled
    <3>2. Written <= Written'
      BY <1>1, <2>1
    <3>3. \A x \in lost' \cup before' : x <= Written'
      <4>1. \A x \in lost \cup before : x \in Nat /\ x <= Written
        BY DEF IInv, Types, LossTypes, Loss
      <4> QED
        BY <2>1, <3>1, <3>2, <4>1, HandledNumbers
    <3>4. faults' = 0 => Healthy'
      BY <1>2, <1>7, <3>1 DEF IInv, Loss, Healthy
    <3> QED
      BY <1>2, <3>1, <3>3, <3>4 DEF IInv, Loss
  <2> QED
    BY <1>5, <2>1, <2>2, <2>3, <2>4 DEF IInv, Types
<1>8. CASE d[t].event.count > 0 /\ stream.good /\ Goto(t, [d[t] EXCEPT !.pc = "write"])
           /\ UNCHANGED <<stream, faults, lossVars>>
  BY <1>4, <1>7, <1>8
<1>9. CASE /\ d[t].event.count > 0
           /\ ~(Readable(d[t].event) /\ stream.good)
           /\ \E fault \in BOOLEAN :
                /\ Fault(fault)
                /\ IF Readable(d[t].event) /\ ~stream.open /\ ~fault
                   THEN /\ stream' = [open |-> TRUE, good |-> TRUE]
                        /\ Goto(t, [d[t] EXCEPT !.pc = "write"])
                        /\ UNCHANGED lossVars
                   ELSE Finish(t, 0, 1) /\ UNCHANGED stream
  <2>1. PICK fault \in BOOLEAN :
          /\ Fault(fault)
          /\ IF Readable(d[t].event) /\ ~stream.open /\ ~fault
             THEN /\ stream' = [open |-> TRUE, good |-> TRUE]
                  /\ Goto(t, [d[t] EXCEPT !.pc = "write"])
                  /\ UNCHANGED lossVars
             ELSE Finish(t, 0, 1) /\ UNCHANGED stream
    BY <1>9
  <2>2. faults' \in Nat /\ (faults' = 0 => faults = 0 /\ ~fault)
    BY <1>4, <2>1, FaultStep
  <2>3. CASE Readable(d[t].event) /\ ~stream.open /\ ~fault
    <3>1. ~stream.good /\ stream' = [open |-> TRUE, good |-> TRUE]
          /\ Goto(t, [d[t] EXCEPT !.pc = "write"]) /\ UNCHANGED lossVars
      BY <1>9, <2>1, <2>3
    <3> QED
      BY <1>7, <2>2, <3>1
  <2>4. CASE ~(Readable(d[t].event) /\ ~stream.open /\ ~fault)
    <3>1. Finish(t, 0, 1) /\ stream' = stream
      BY <2>1, <2>4
    <3>2. tail' = tail + 0
      BY <1>2, <1>3
    <3>3. /\ cur = d[t] /\ cur \in Drain /\ cur'.pc = "pop" /\ Goes(1) /\ before' = before
          /\ Written' \in Nat /\ Written <= Written' /\ cur.event.id <= Written'
          /\ EngineTypes' /\ DrainTypes' /\ MemoTypes' /\ LossTypes'
          /\ Control' /\ InBatch' /\ Ids' /\ Slots' /\ Lines' /\ Cycles'
      BY <1>1, <1>2, <1>3, <3>1, <3>2, FinishStep
    <3>4. FileTypes' /\ CounterTypes'
      BY <1>2, <2>2, <3>1 DEF IInv, Types, FileTypes, CounterTypes
    <3>5. Readable(d[t].event)
      BY <1>1, <3>3, HandReadable DEF IInv, Types
    <3>6. faults' = 0 => stream.open /\ ~stream.good
      BY <1>9, <2>2, <2>4, <3>5
    <3>7. faults' # 0
      BY <1>2, <2>2, <3>6 DEF IInv, Loss, Healthy
    <3>8. Loss'
      <4>1. cur.event.id \in Nat /\ stream' \in [open : BOOLEAN, good : BOOLEAN]
        BY <1>4, <3>1, <3>3, DrainNumbers
      <4> QED
        BY <1>2, <3>3, <3>7, <4>1, LossFinish
    <3> QED
      BY <1>5, <3>3, <3>4, <3>8 DEF IInv, Types
  <2> QED
    BY <2>3, <2>4
<1> QED
  BY <1>1, <1>6, <1>8, <1>9 DEF OpenValues

LEMMA WriteValuesStep ==
  ASSUME IInv, NEW t \in Drainers, WriteValues(t)
  PROVE  IInv'
<1>1. /\ d[t].pc = "write" /\ d[t].pc \in Handling
      /\ UNCHANGED <<csvVars, engineVars, ringVars, file, memoVars, drains, csvRequests, csvLock,
                     stopping>>
  BY DEF WriteValues, Handling
<1>2. /\ sink' = sink /\ csvRows' = csvRows /\ evq' = evq /\ head' = head /\ tail' = tail
      /\ file' = file /\ drains' = drains /\ csvRequests' = csvRequests
      /\ stopping' = stopping /\ totals' = totals
  BY <1>1 DEF csvVars, ringVars, memoVars
<1>3. d[t] \in Drain /\ d[t].event.count \in Nat /\ tail \in Nat /\ d[t].event.id \in Nat
      /\ Len(d[t].batch) \in Nat /\ totals.events \in Nat
  <2>1. d[t] \in Drain
    BY DEF IInv, Types, DrainTypes
  <2> QED
    BY <2>1, DrainNumbers, TotalsNumbers DEF IInv, Types, EngineTypes
<1>4. faults \in Nat /\ stream \in [open : BOOLEAN, good : BOOLEAN] /\ buffer \in Seq(Nat)
      /\ file \in Seq(Nat)
  BY DEF IInv, Types, CounterTypes, FileTypes
<1>5. SinkTypes' /\ Rows'
  BY <1>2 DEF IInv, Types, SinkTypes, Rows, OneRowPerCycle
<1>6. CASE /\ stream.open /\ stream.good
           /\ buffer' = Append(buffer, d[t].event.id)
           /\ Goto(t, [d[t] EXCEPT !.pc = "csv"])
           /\ UNCHANGED <<stream, faults, lossVars>>
  <2>1. /\ cur = d[t] /\ cur \in Drain /\ Retains /\ cur'.pc = "csv"
        /\ EngineTypes' /\ DrainTypes' /\ MemoTypes' /\ LossTypes'
        /\ Control' /\ InBatch' /\ Ids' /\ Slots' /\ Cycles'
    BY <1>1, <1>2, <1>6, HandlingStep
  <2>2. FileTypes' /\ CounterTypes'
    BY <1>2, <1>3, <1>4, <1>6 DEF IInv, Types, FileTypes, CounterTypes
  <2>3. /\ Written = totals.events + Len(d[t].batch) /\ Written' = Written + 1
        /\ d[t].event.id = Written + 1 /\ Written \in Nat
    <3>1. d[t].event.id = totals.events + Len(d[t].batch) + 1
      BY <1>1, <2>1 DEF IInv, Ids
    <3>2. Written = totals.events + Len(d[t].batch)
      BY <1>1, <1>3, <2>1 DEF Written
    <3>3. Written' = totals.events + Len(d[t].batch) + 1
      BY <1>2, <2>1 DEF Written, Retains
    <3> QED
      BY <1>3, <3>1, <3>2, <3>3
  <2>4. /\ Len(buffer') = Len(buffer) + 1 /\ Len(buffer) \in Nat
        /\ \A i \in 1..Len(buffer) : buffer'[i] = buffer[i] /\ buffer[i] \in Nat
        /\ buffer'[Len(buffer) + 1] = Written + 1
        /\ \A i \in 1..Len(file) : file[i] \in Nat
    <3>1. buffer' = Append(buffer, d[t].event.id)
      BY <1>6
    <3>2. \A i \in 1..Len(file) : file[i] \in Nat
      BY <1>4
    <3> QED
      BY SMTT(40), <1>3, <1>4, <2>3, <3>1, <3>2, AppendFacts
  <2>5. \A i \in 1..Len(buffer') : i \in 1..Len(buffer) \/ i = Len(buffer) + 1
    BY <2>4
  <2>6. Lines'
    <3>1. \A i, j \in 1..Len(buffer') : i < j => buffer'[i] < buffer'[j]
      <4> SUFFICES ASSUME NEW i \in 1..Len(buffer'), NEW j \in 1..Len(buffer'), i < j
                   PROVE  buffer'[i] < buffer'[j]
        OBVIOUS
      <4>1. i \in 1..Len(buffer)
        BY <2>4
      <4>2. buffer[i] <= Written /\ buffer'[i] = buffer[i] /\ buffer[i] \in Nat
        BY <2>4, <4>1 DEF IInv, Lines
      <4>3. CASE j \in 1..Len(buffer)
        BY <2>4, <4>1, <4>3 DEF IInv, Lines
      <4>4. CASE j = Len(buffer) + 1
        BY <2>3, <2>4, <4>2, <4>4
      <4> QED
        BY <2>5, <4>3, <4>4
    <3>2. \A i \in 1..Len(buffer') : buffer'[i] <= Written'
      <4> SUFFICES ASSUME NEW i \in 1..Len(buffer') PROVE buffer'[i] <= Written'
        OBVIOUS
      <4>1. CASE i \in 1..Len(buffer)
        BY <2>3, <2>4, <4>1 DEF IInv, Lines
      <4>2. CASE i = Len(buffer) + 1
        BY <2>3, <2>4, <4>2
      <4> QED
        BY <2>5, <4>1, <4>2
    <3>3. \A i \in 1..Len(file') : file'[i] <= Written'
      BY <1>2, <2>3, <2>4 DEF IInv, Lines
    <3>4. \A i \in 1..Len(file'), j \in 1..Len(buffer') : file'[i] < buffer'[j]
      <4> SUFFICES ASSUME NEW i \in 1..Len(file), NEW j \in 1..Len(buffer')
                   PROVE  file[i] < buffer'[j]
        BY <1>2
      <4>1. file[i] <= Written /\ file[i] \in Nat
        BY <2>4 DEF IInv, Lines
      <4>2. CASE j \in 1..Len(buffer)
        BY <2>4, <4>2 DEF IInv, Lines
      <4>3. CASE j = Len(buffer) + 1
        BY <2>3, <2>4, <4>1, <4>3
      <4> QED
        BY <2>5, <4>2, <4>3
    <3>5. \A i, j \in 1..Len(file') : i < j => file'[i] < file'[j]
      BY <1>2 DEF IInv, Lines
    <3> QED
      BY <3>1, <3>2, <3>3, <3>4, <3>5 DEF Lines
  <2>7. Loss'
    <3>1. lost' = lost /\ before' = before /\ stream' = stream /\ faults' = faults
      BY <1>6 DEF lossVars
    <3>2. \A x \in lost \cup before : x \in Nat /\ x <= Written /\ x < Written + 1 /\ ~(Written + 1 < x)
      <4>1. \A x \in lost \cup before : x \in Nat /\ x <= Written
        BY DEF IInv, Types, LossTypes, Loss
      <4> QED
        BY <2>3, <4>1
    <3>3. Handled' \subseteq Handled \cup {Written + 1}
      <4>1. Range(buffer') \subseteq Range(buffer) \cup {Written + 1}
        <5>1. \A i \in 1..Len(buffer') : buffer'[i] \in Range(buffer) \cup {Written + 1}
          <6> SUFFICES ASSUME NEW i \in 1..Len(buffer')
                       PROVE  buffer'[i] \in Range(buffer) \cup {Written + 1}
            OBVIOUS
          <6>1. CASE i \in 1..Len(buffer)
            BY SMTT(30), <1>4, <2>4, <6>1 DEF Range
          <6>2. CASE i = Len(buffer) + 1
            BY <2>4, <6>2
          <6> QED
            BY <2>5, <6>1, <6>2
        <5>2. DOMAIN buffer' = 1..Len(buffer')
          BY <2>2 DEF FileTypes
        <5> QED
          BY <5>1, <5>2 DEF Range
      <4> QED
        BY <1>2, <3>1, <4>1 DEF Handled
    <3>4. \A x \in lost' \cup before' : x <= Written'
      BY <2>3, <3>1, <3>2
    <3>5. ASSUME faults' = 0 PROVE Healthy'
      <4>1. Healthy
        BY <3>1, <3>5 DEF IInv, Loss
      <4>2. \A e \in lost', other \in Handled' : other < e => other \in before' /\ e \notin before'
        BY <3>1, <3>2, <3>3, <4>1 DEF Healthy
      <4> QED
        BY <1>2, <1>6, <2>1, <3>1, <4>1, <4>2 DEF Healthy
    <3> QED
      BY <1>2, <3>1, <3>4, <3>5 DEF IInv, Loss
  <2> QED
    BY <1>5, <2>1, <2>2, <2>6, <2>7 DEF IInv, Types
<1>7. CASE /\ Fault(stream.open /\ stream.good)
           /\ stream' = [stream EXCEPT !.good = FALSE]
           /\ Finish(t, 0, 1)
           /\ UNCHANGED buffer
  <2>1. faults' \in Nat /\ (faults' = 0 => faults = 0 /\ ~(stream.open /\ stream.good))
    BY <1>4, <1>7, FaultStep
  <2>2. tail' = tail + 0
    BY <1>2, <1>3
  <2>3. /\ cur = d[t] /\ cur \in Drain /\ cur'.pc = "pop" /\ Goes(1) /\ before' = before
        /\ Written' \in Nat /\ Written <= Written' /\ cur.event.id <= Written'
        /\ (cur.pc # "csv" => Written < cur.event.id)
        /\ EngineTypes' /\ DrainTypes' /\ MemoTypes' /\ LossTypes'
        /\ Control' /\ InBatch' /\ Ids' /\ Slots' /\ Lines' /\ Cycles'
    BY <1>1, <1>2, <1>3, <1>7, <2>2, FinishStep
  <2>4. stream'.good = FALSE /\ stream'.open = stream.open
        /\ stream' \in [open : BOOLEAN, good : BOOLEAN]
    BY <1>4, <1>7
  <2>5. FileTypes' /\ CounterTypes'
    BY <1>2, <1>7, <2>1, <2>4 DEF IInv, Types, FileTypes, CounterTypes
  <2>6. Loss'
    <3>1. cur.pc = "write" /\ cur.event.id \in Nat
      BY <1>1, <1>3, <2>3
    <3>2. faults' = 0 =>
            /\ stream.good /\ ~stream.open
            /\ (sink.enabled /\ stopping # "stopped" => sink.open /\ sink.good)
      BY <2>1, <3>1 DEF IInv, Loss, Healthy
    <3>3. /\ buffer' = buffer /\ file' = file /\ stopping' = stopping /\ before' = before
          /\ faults' = 0 => faults = 0
      BY <1>2, <1>7, <2>1, <2>3
    <3>4. faults' = 0 /\ 1 # 0 =>
            /\ cur.pc # "csv" /\ Written < cur.event.id
            /\ stream.good /\ ~stream.open /\ ~stream'.good /\ ~stream'.open
      BY <2>3, <2>4, <3>1, <3>2
    <3>5. faults' = 0 => (sink'.enabled /\ stopping # "stopped" => sink'.open /\ sink'.good)
      BY <1>2, <3>2
    <3> QED
      BY <2>3, <2>4, <3>1, <3>3, <3>4, <3>5, LossFinish
  <2> QED
    BY <1>5, <2>3, <2>5, <2>6 DEF IInv, Types
<1> QED
  BY <1>6, <1>7 DEF WriteValues

\* An event that has nothing to write joins the batch.
LEMMA DrainOtherStep ==
  ASSUME IInv, NEW t \in Drainers, DrainOther(t)
  PROVE  IInv'
<1>1. /\ d[t].pc = "status" /\ d[t].pc \in Handling /\ Finish(t, 0, 0)
      /\ UNCHANGED <<csvVars, engineVars, ringVars, streamVars, memoVars, boundVars, csvLock,
                     stopping>>
  BY DEF DrainOther, Handling
<1>2. /\ sink' = sink /\ csvRows' = csvRows /\ evq' = evq /\ head' = head /\ tail' = tail
      /\ buffer' = buffer /\ file' = file /\ drains' = drains /\ csvRequests' = csvRequests
      /\ stopping' = stopping /\ totals' = totals /\ stream' = stream /\ faults' = faults
  BY <1>1 DEF csvVars, ringVars, memoVars, streamVars, boundVars
<1>3. d[t] \in Drain /\ tail \in Nat
  BY DEF IInv, Types, EngineTypes, DrainTypes
<1>4. csvLock = t /\ cur = d[t]
  BY <1>1 DEF IInv, Control, cur, Handling, Away
<1>5. d[t].event.count = 0
  BY <1>1, <1>4 DEF IInv, InBatch
<1>6. tail' = tail + 0
  BY <1>2, <1>3
<1>7. /\ cur'.pc = "pop" /\ Goes(0) /\ before' = before
      /\ Written' \in Nat /\ Written <= Written' /\ cur.event.id <= Written'
      /\ EngineTypes' /\ DrainTypes' /\ MemoTypes' /\ LossTypes'
      /\ Control' /\ InBatch' /\ Ids' /\ Slots' /\ Lines' /\ Cycles'
  BY <1>1, <1>2, <1>5, <1>6, FinishStep
<1>8. FileTypes' /\ CounterTypes' /\ SinkTypes' /\ Rows'
  BY <1>2 DEF IInv, Types, FileTypes, CounterTypes, SinkTypes, Rows, OneRowPerCycle
<1>9. Loss'
  <2>1. cur.event.id \in Nat /\ stream \in [open : BOOLEAN, good : BOOLEAN]
    BY <1>3, <1>4, DrainNumbers DEF IInv, Types, FileTypes
  <2>2. faults = 0 => (sink.enabled /\ stopping # "stopped" => sink.open /\ sink.good)
    BY DEF IInv, Loss, Healthy
  <2> QED
    BY <1>2, <1>7, <2>1, <2>2, LossFinish
<1> QED
  BY <1>7, <1>8, <1>9 DEF IInv, Types
-----------------------------------------------------------------------------
(* The CSV sink                                                            *)

\* A sample for a cycle that is not older than the pending row's.
LEMMA AppendCsvKeeps ==
  ASSUME SinkTypes, Rows, stopping # "stopped",
         NEW column \in Columns, NEW c \in Nat \ {0}, sink.pending.cycle <= c,
         NEW fault \in BOOLEAN, NEW ok \in BOOLEAN, AppendCsv(column, c, fault, ok),
         stopping' = stopping
  PROVE  /\ SinkTypes' /\ Rows'
         /\ sink'.pending.cycle \in {sink.pending.cycle, c}
         /\ sink'.enabled = sink.enabled
         /\ (sink.enabled => sink.open /\ sink.good) /\ ~fault =>
              ok /\ sink'.open = sink.open /\ sink'.good = sink.good
<1> DEFINE p == sink.pending
<1>1. /\ sink \in [enabled : BOOLEAN, columns : SUBSET Columns, open : BOOLEAN, good : BOOLEAN,
                   pending : Row1 \cup {NoRow}]
      /\ p \in Row1 \cup {NoRow} /\ csvRows \in Seq(Row1) /\ Len(csvRows) \in Nat
  BY DEF SinkTypes
<1>2. NoRow.cycle = 0 /\ NoRow.cells = {}
  BY DEF NoRow
<1>3. /\ p.cycle \in Nat /\ p.cells \in SUBSET Columns
      /\ p # NoRow => p \in Row1 /\ p.cycle # 0
  BY <1>1, <1>2 DEF Row1
<1>4. \A i \in 1..Len(csvRows) : csvRows[i].cycle \in Nat
  <2> SUFFICES ASSUME NEW i \in 1..Len(csvRows) PROVE csvRows[i].cycle \in Nat
    OBVIOUS
  <2>1. csvRows[i] \in Row1
    BY <1>1
  <2> QED
    BY <2>1 DEF Row1
<1>5. Row(c, column) \in Row1 /\ Row(c, column).cycle = c /\ Row(c, column) # NoRow
  <2>1. Row(c, column) \in Row1 /\ Row(c, column).cycle = c
    BY DEF Row, Row1
  <2> QED
    BY <1>2, <2>1
<1> HIDE DEF p
<1>6. CASE UNCHANGED csvVars /\ ok
  <2>1. sink' = sink /\ csvRows' = csvRows
    BY <1>6 DEF csvVars
  <2>2. SinkTypes' /\ Rows'
    BY <2>1 DEF SinkTypes, Rows, OneRowPerCycle
  <2> QED
    BY <1>6, <2>1, <2>2
<1>7. CASE Wants(column) /\ ~MustWriteFirst(c) /\ ok /\ FillCell(c, column)
  <2> DEFINE q == IF p.cycle = c THEN [cycle |-> c, cells |-> p.cells \cup {column}] ELSE Row(c, column)
  <2>1. p = NoRow \/ p.cycle = c
    BY <1>7 DEF MustWriteFirst, p
  <2>2. sink' = [sink EXCEPT !.pending = q] /\ csvRows' = csvRows
    BY <1>7 DEF FillCell, p
  <2>3. q \in Row1 /\ q.cycle = c
    <3>1. CASE p.cycle = c
      <4>1. p \in Row1
        BY <1>2, <1>3, <3>1
      <4> QED
        BY <3>1, <4>1 DEF Row1
    <3> QED
      BY <1>5, <3>1
  <2> HIDE DEF q
  <2>4. /\ sink'.pending = q /\ sink'.enabled = sink.enabled /\ sink'.open = sink.open
        /\ sink'.good = sink.good
        /\ sink' \in [enabled : BOOLEAN, columns : SUBSET Columns, open : BOOLEAN,
                      good : BOOLEAN, pending : Row1 \cup {NoRow}]
    BY <1>1, <2>2, <2>3
  <2>5. SinkTypes'
    BY <1>1, <2>2, <2>4 DEF SinkTypes
  <2>6. q # NoRow /\ sink.enabled
    BY <1>2, <1>7, <2>3 DEF Wants
  <2>7. Rows'
    <3>1. \A i \in 1..Len(csvRows) : csvRows[i].cycle < c
      <4>1. CASE p = NoRow
        <5>1. csvRows = <<>>
          BY <2>6, <4>1 DEF Rows, p
        <5> QED
          BY <5>1
      <4>2. CASE p # NoRow
        BY <2>1, <4>2 DEF Rows, OneRowPerCycle, p
      <4> QED
        BY <4>1, <4>2
    <3> QED
      BY <2>2, <2>3, <2>4, <2>6, <3>1 DEF Rows, OneRowPerCycle
  <2> QED
    BY <1>7, <2>3, <2>4, <2>5, <2>7
<1>8. CASE Wants(column) /\ MustWriteFirst(c) /\ ok /\ WriteThenFill(c, column)
  <2>1. p # NoRow /\ p.cycle < c /\ p \in Row1
    BY <1>3, <1>8 DEF MustWriteFirst, p
  <2>2. sink' = [sink EXCEPT !.pending = Row(c, column)] /\ csvRows' = Append(csvRows, p)
    BY <1>8 DEF WriteThenFill, p
  <2>3. /\ sink'.pending = Row(c, column) /\ sink'.enabled = sink.enabled
        /\ sink'.open = sink.open /\ sink'.good = sink.good
        /\ sink' \in [enabled : BOOLEAN, columns : SUBSET Columns, open : BOOLEAN,
                      good : BOOLEAN, pending : Row1 \cup {NoRow}]
    BY <1>1, <1>5, <2>2
  <2>4. csvRows' \in Seq(Row1)
    BY <1>1, <2>1, <2>2
  <2>5. /\ Len(csvRows') = Len(csvRows) + 1 /\ csvRows'[Len(csvRows) + 1] = p
        /\ \A i \in 1..Len(csvRows) : csvRows'[i] = csvRows[i]
    BY <1>1, <2>2, AppendFacts
  <2>6. \A i \in 1..Len(csvRows') : i \in 1..Len(csvRows) \/ i = Len(csvRows) + 1
    BY <1>1, <2>5
  <2>7. \A i \in 1..Len(csvRows) : csvRows[i].cycle < p.cycle
    BY <2>1 DEF Rows, OneRowPerCycle, p
  <2>8. OneRowPerCycle'
    <3>1. \A i, j \in 1..Len(csvRows') : i < j => csvRows'[i].cycle < csvRows'[j].cycle
      <4> SUFFICES ASSUME NEW i \in 1..Len(csvRows'), NEW j \in 1..Len(csvRows'), i < j
                   PROVE  csvRows'[i].cycle < csvRows'[j].cycle
        OBVIOUS
      <4>1. i \in 1..Len(csvRows)
        BY <1>1, <2>5
      <4>2. CASE j \in 1..Len(csvRows)
        BY <2>5, <4>1, <4>2 DEF Rows, OneRowPerCycle
      <4>3. CASE j = Len(csvRows) + 1
        BY <2>5, <2>7, <4>1, <4>3
      <4> QED
        BY <2>6, <4>2, <4>3
    <3>2. \A i \in 1..Len(csvRows') : csvRows'[i].cycle < c
      <4> SUFFICES ASSUME NEW i \in 1..Len(csvRows') PROVE csvRows'[i].cycle < c
        OBVIOUS
      <4>1. CASE i \in 1..Len(csvRows)
        <5>1. csvRows'[i] = csvRows[i] /\ csvRows[i].cycle < p.cycle /\ csvRows[i].cycle \in Nat
          BY <1>4, <2>5, <2>7, <4>1
        <5> QED
          BY <1>3, <2>1, <5>1
      <4>2. CASE i = Len(csvRows) + 1
        BY <2>1, <2>5, <4>2
      <4> QED
        BY <2>6, <4>1, <4>2
    <3> QED
      BY <1>5, <2>3, <3>1, <3>2 DEF OneRowPerCycle
  <2>9. Rows'
    BY <1>5, <1>8, <2>3, <2>8 DEF Rows, Wants
  <2> QED
    BY <1>5, <1>8, <2>3, <2>4, <2>9 DEF SinkTypes
<1>9. CASE Wants(column) /\ MustWriteFirst(c) /\ ~ok /\ WriteRowFails(fault)
  <2>1. csvRows' = csvRows /\ (sink' = [sink EXCEPT !.good = FALSE] \/ sink' = sink)
        /\ ~CanWriteRow(fault)
    BY <1>9 DEF WriteRowFails
  <2>2. /\ sink'.pending = p /\ sink'.enabled = sink.enabled
        /\ sink' \in [enabled : BOOLEAN, columns : SUBSET Columns, open : BOOLEAN,
                      good : BOOLEAN, pending : Row1 \cup {NoRow}]
    BY <1>1, <2>1 DEF p
  <2>3. SinkTypes' /\ Rows'
    BY <2>1, <2>2 DEF SinkTypes, Rows, OneRowPerCycle, p
  <2>4. ~((sink.enabled => sink.open /\ sink.good) /\ ~fault)
    BY <1>9, <2>1 DEF CanWriteRow, Wants
  <2> QED
    BY <2>2, <2>3, <2>4 DEF p
<1> QED
  BY <1>6, <1>7, <1>8, <1>9 DEF AppendCsv

\* The sample of the event in hand goes to the sink, and its slots are released
\* unless that failed.
LEMMA ToCsvStep ==
  ASSUME IInv, NEW t \in Drainers, d[t].pc \in Handling, NEW column \in Columns,
         NEW fault \in BOOLEAN, NEW ok \in BOOLEAN, NEW values \in Nat, NEW failed \in Nat,
         Fault(fault), AppendCsv(column, d[t].event.cycle, fault, ok),
         ok => values = d[t].event.count /\ failed = 0, ~ok => values = 0 /\ failed = 1,
         Finish(t, values, failed), tail' = tail + values,
         UNCHANGED <<engineVars, evq, head, streamVars, memoVars, drains, csvRequests, csvLock,
                     stopping>>
  PROVE  IInv'
<1>1. /\ stream' = stream /\ buffer' = buffer /\ file' = file /\ drains' = drains
      /\ csvRequests' = csvRequests /\ stopping' = stopping /\ totals' = totals
  BY DEF streamVars, memoVars
<1>2. d[t] \in Drain /\ d[t].event.count \in Nat /\ faults \in Nat
  <2>1. d[t] \in Drain
    BY DEF IInv, Types, DrainTypes
  <2> QED
    BY <2>1, DrainNumbers DEF IInv, Types, CounterTypes
<1>3. csvLock = t /\ cur = d[t]
  BY DEF IInv, Control, cur, Handling, Away
<1>4. d[t].event.cycle \in Nat \ {0} /\ sink.pending.cycle <= d[t].event.cycle
  <2>1. d[t].event \in Published
    BY <1>3 DEF IInv, InBatch
  <2> QED
    BY <1>3, <2>1, EventNumbers DEF IInv, Cycles
<1>5. stopping # "stopped"
  BY DEF IInv, Control, Handling, Away, Drainers, BeforeJoin
<1>6. /\ SinkTypes' /\ Rows'
      /\ sink'.pending.cycle \in {sink.pending.cycle, d[t].event.cycle}
      /\ sink'.enabled = sink.enabled
      /\ (sink.enabled => sink.open /\ sink.good) /\ ~fault =>
           ok /\ sink'.open = sink.open /\ sink'.good = sink.good
  BY <1>1, <1>4, <1>5, AppendCsvKeeps DEF IInv, Types
<1>7. values = IF failed = 0 THEN d[t].event.count ELSE 0
  BY <1>2
<1>8. /\ cur = d[t] /\ cur \in Drain /\ cur'.pc = "pop" /\ Goes(failed) /\ before' = before
      /\ Written' \in Nat /\ Written <= Written' /\ cur.event.id <= Written'
      /\ EngineTypes' /\ DrainTypes' /\ MemoTypes' /\ LossTypes'
      /\ Control' /\ InBatch' /\ Ids' /\ Slots' /\ Lines' /\ Cycles'
  BY <1>1, <1>6, <1>7, FinishStep
<1>9. faults' \in Nat /\ (faults' = 0 => faults = 0 /\ ~fault)
  BY <1>2, FaultStep
<1>10. FileTypes' /\ CounterTypes'
  BY <1>1, <1>9 DEF IInv, Types, FileTypes, CounterTypes
<1>11. Loss'
  <2>1. cur.event.id \in Nat /\ stream \in [open : BOOLEAN, good : BOOLEAN]
    BY <1>8, DrainNumbers DEF IInv, Types, FileTypes
  <2>2. ASSUME faults' = 0
        PROVE  failed = 0 /\ (sink'.enabled => sink'.open /\ sink'.good)
    <3>1. faults = 0 /\ ~fault
      BY <1>9, <2>2
    <3>2. sink.enabled => sink.open /\ sink.good
      BY <1>5, <3>1 DEF IInv, Loss, Healthy
    <3> QED
      BY <1>6, <3>1, <3>2
  <2> QED
    BY <1>1, <1>8, <1>9, <2>1, <2>2, LossFinish
<1> QED
  BY <1>6, <1>8, <1>10, <1>11 DEF IInv, Types

LEMMA CsvAndReleaseStep ==
  ASSUME IInv, NEW t \in Drainers, CsvAndRelease(t)
  PROVE  IInv'
<1>1. /\ d[t].pc = "csv" /\ d[t].pc \in Handling
      /\ UNCHANGED <<engineVars, evq, head, streamVars, memoVars, drains, csvRequests, csvLock,
                     stopping>>
  BY DEF CsvAndRelease, Handling
<1>2. PICK fault \in BOOLEAN, ok \in BOOLEAN :
        /\ Fault(fault)
        /\ AppendCsv("value", d[t].event.cycle, fault, ok)
        /\ Release(t, ok)
  BY DEF CsvAndRelease
<1>3. "value" \in Columns
  BY DEF Columns
<1>4. d[t].event.count \in Nat /\ tail \in Nat
  <2>1. d[t] \in Drain
    BY DEF IInv, Types, DrainTypes
  <2> QED
    BY <2>1, DrainNumbers DEF IInv, Types, EngineTypes
<1>5. CASE ok
  <2>1. tail' = tail + d[t].event.count /\ Finish(t, d[t].event.count, 0)
    BY <1>2, <1>5 DEF Release
  <2> QED
    BY <1>1, <1>2, <1>3, <1>4, <1>5, <2>1, ToCsvStep
<1>6. CASE ~ok
  <2>1. tail' = tail + 0 /\ Finish(t, 0, 1)
    BY <1>2, <1>4, <1>6 DEF Release
  <2> QED
    BY <1>1, <1>2, <1>3, <1>4, <1>6, <2>1, ToCsvStep
<1> QED
  BY <1>5, <1>6

LEMMA DrainMeasurementStep ==
  ASSUME IInv, NEW t \in Drainers, DrainMeasurement(t)
  PROVE  IInv'
<1>1. /\ d[t].pc = "measurement" /\ d[t].pc \in Handling
      /\ UNCHANGED <<engineVars, ringVars, streamVars, memoVars, drains, csvRequests, csvLock,
                     stopping>>
  BY DEF DrainMeasurement, Handling
<1>2. PICK fault \in BOOLEAN, ok \in BOOLEAN :
        /\ Fault(fault)
        /\ AppendCsv("measurement", d[t].event.cycle, fault, ok)
        /\ Finish(t, 0, IF ok THEN 0 ELSE 1)
  BY DEF DrainMeasurement
<1>3. "measurement" \in Columns
  BY DEF Columns
<1>4. evq' = evq /\ head' = head /\ tail' = tail + 0
  BY <1>1 DEF ringVars, IInv, Types, EngineTypes
<1>5. d[t].event.count = 0
  <2>1. cur = d[t]
    BY <1>1 DEF IInv, Control, cur, Handling, Away
  <2> QED
    BY <1>1, <2>1 DEF IInv, InBatch
<1>6. CASE ok
  <2>1. Finish(t, 0, 0)
    BY <1>2, <1>6
  <2>2. (ok => 0 = d[t].event.count /\ 0 = 0) /\ (~ok => 0 = 0 /\ 0 = 1)
    BY <1>5, <1>6
  <2> QED
    BY <1>1, <1>2, <1>3, <1>4, <2>1, <2>2, ToCsvStep
<1>7. CASE ~ok
  <2>1. Finish(t, 0, 1)
    BY <1>2, <1>7
  <2> QED
    BY <1>1, <1>2, <1>3, <1>4, <1>7, <2>1, ToCsvStep
<1> QED
  BY <1>6, <1>7
-----------------------------------------------------------------------------
(* The queue                                                               *)

\* A step that leaves the file, the sink and the histories alone.
LEMMA QuietStep ==
  ASSUME IInv, UNCHANGED <<csvVars, streamVars, recent, measurement>>
  PROVE  SinkTypes' /\ FileTypes' /\ (stopping' = stopping => Rows')
<1>1. sink' = sink /\ csvRows' = csvRows /\ stream' = stream /\ buffer' = buffer /\ file' = file
  BY DEF csvVars, streamVars
<1> QED
  BY <1>1 DEF IInv, Types, SinkTypes, FileTypes, Rows, OneRowPerCycle

\* The engine publishes an event after those in the queue, with the samples
\* after theirs and a cycle that is not older.
LEMMA PublishStep ==
  ASSUME IInv, NEW kind \in EventKinds, NEW count \in Counts \cup {0}, NEW next \in {0, 1},
         Publish(kind, count, next)
  PROVE  IInv'
<1> DEFINE e == [id |-> published + 1, kind |-> kind, cycle |-> cycle + next, start |-> head,
                 count |-> count]
<1>1. /\ Len(evq) < EventCap /\ published' = published + 1 /\ cycle' = cycle + next
      /\ evq' = Append(evq, e) /\ head' = head + count /\ tail' = tail
      /\ count \in (IF kind = "values" THEN Counts ELSE {0})
      /\ UNCHANGED <<csvVars, streamVars, memoVars, boundVars, lossVars, csvLock, d, stopping>>
  BY DEF Publish
<1>2. /\ sink' = sink /\ buffer' = buffer /\ file' = file /\ stream' = stream
      /\ totals' = totals /\ recent' = recent /\ measurement' = measurement
      /\ drains' = drains /\ csvRequests' = csvRequests /\ faults' = faults /\ d' = d
      /\ csvLock' = csvLock /\ stopping' = stopping /\ held' = held
  BY <1>1 DEF csvVars, streamVars, memoVars, boundVars, lossVars
<1>3. /\ evq \in Seq(Published) /\ Len(evq) \in Nat /\ head \in Nat /\ tail \in Nat
      /\ cycle \in Nat \ {0} /\ published \in Nat
  BY DEF IInv, Types, EngineTypes
<1>4. count \in Nat /\ kind \in {"values", "measurement", "status"} /\ (kind # "values" => count = 0)
      /\ EventCap \in Nat
  BY <1>1, TelemetryAssumption
<1>5. e \in Published /\ e.id = published + 1 /\ e.cycle = cycle + next /\ e.start = head
      /\ e.count = count
  <2>1. cycle + next \in Nat /\ cycle + next # 0 /\ published + 1 \in Nat
    BY <1>3
  <2> QED
    BY <1>3, <1>4, <2>1 DEF Published, Event
<1> HIDE DEF e
<1>6. /\ Len(evq') = Len(evq) + 1 /\ evq'[Len(evq) + 1] = e /\ evq' \in Seq(Published)
      /\ \A i \in 1..Len(evq) : evq'[i] = evq[i]
  BY <1>1, <1>3, <1>5, AppendFacts
<1>7. \A i \in 1..Len(evq') : i \in 1..Len(evq) \/ i = Len(evq) + 1
  BY <1>3, <1>6
<1>8. \A i \in 1..Len(evq) : /\ evq[i].start \in Nat /\ evq[i].count \in Nat
                             /\ evq[i].cycle \in Nat /\ evq[i].id \in Nat
  BY QueueNumbers DEF IInv, Types
<1>9. cur' = cur /\ cur \in Drain /\ Control'
  BY <1>2, SameDrains, CurType DEF IInv, Types
<1>10. InBatch'
  BY <1>9 DEF IInv, InBatch
<1>11. LossTypes' /\ Loss'
  <2>1. Written \in Nat
    BY HandledNumbers
  <2>2. Written' = Written
    BY <1>2, <1>9 DEF Written
  <2> QED
    BY <1>1, <1>2, <1>9, <2>1, <2>2, LossKeep DEF lossVars
<1>12. Types'
  <2>1. EngineTypes'
    BY <1>1, <1>2, <1>3, <1>4, <1>6 DEF EngineTypes
  <2>2. DrainTypes' /\ MemoTypes' /\ CounterTypes'
    BY <1>2 DEF IInv, Types, DrainTypes, MemoTypes, CounterTypes
  <2> QED
    BY <1>1, <1>2, <1>11, <2>1, <2>2, QuietStep DEF Types
<1>13. Rows'
  BY <1>1, <1>2, QuietStep
<1>14. Lines'
  BY <1>2, <1>9 DEF IInv, Lines, Written
<1>15. Ids'
  <2>1. HandlingOne' = HandlingOne /\ Remembered' = Remembered /\ HandlingOne \in Nat
    BY <1>2, <1>9 DEF HandlingOne, Remembered
  <2>2. totals.events \in Nat /\ Len(cur.batch) \in Nat
    BY <1>9, TotalsNumbers, DrainNumbers DEF IInv, Types
  <2>3. published = totals.events + Len(cur.batch) + HandlingOne + Len(evq)
    BY DEF IInv, Ids
  <2>4. published' = totals'.events + Len(cur'.batch) + HandlingOne' + Len(evq')
    <3>1. published' = published + 1
      BY <1>1
    <3>2. totals'.events = totals.events /\ Len(cur'.batch) = Len(cur.batch)
      BY <1>2, <1>9
    <3>3. Len(evq') = Len(evq) + 1
      BY <1>6
    <3> QED
      BY SMTT(40), <1>3, <2>1, <2>2, <2>3, <3>1, <3>2, <3>3
  <2>5. \A i \in 1..Len(evq') : evq'[i].id = published' - Len(evq') + i
    <3> SUFFICES ASSUME NEW i \in 1..Len(evq') PROVE evq'[i].id = published' - Len(evq') + i
      OBVIOUS
    <3>1. CASE i \in 1..Len(evq)
      <4>1. evq[i].id = published - Len(evq) + i /\ evq'[i] = evq[i]
        BY <1>6, <3>1 DEF IInv, Ids
      <4> QED
        BY <1>1, <1>3, <1>6, <3>1, <4>1
    <3>2. CASE i = Len(evq) + 1
      BY <1>1, <1>3, <1>5, <1>6, <3>2
    <3> QED
      BY <1>7, <3>1, <3>2
  <2> QED
    BY <1>2, <1>9, <2>1, <2>4, <2>5 DEF IInv, Ids
<1>16. Slots'
  <2>1. \A i \in 1..Len(evq) : evq[i].start + evq[i].count <= head /\ tail <= evq[i].start
    BY DEF IInv, Slots
  <2>2. tail <= head /\ head <= head' /\ head' = head + count
    BY <1>1, <1>3, <1>4 DEF IInv, Slots
  <2>3. ASSUME NEW i \in 1..(Len(evq) + 1)
        PROVE  StartOf(i)' = StartOf(i)
    <3>1. CASE i \in 1..Len(evq)
      BY <1>3, <1>6, <3>1 DEF StartOf
    <3>2. CASE i = Len(evq) + 1
      BY <1>3, <1>5, <1>6, <3>2 DEF StartOf
    <3> QED
      BY <1>3, <3>1, <3>2
  <2>4. \A i \in Nat : i = Len(evq) + 2 => StartOf(i)' = head'
    BY <1>3, <1>6 DEF StartOf
  <2>5. \A i \in 1..Len(evq') : evq'[i].start + evq'[i].count = StartOf(i + 1)'
    <3> SUFFICES ASSUME NEW i \in 1..Len(evq')
                 PROVE  evq'[i].start + evq'[i].count = StartOf(i + 1)'
      OBVIOUS
    <3>1. CASE i \in 1..Len(evq)
      <4>1. i + 1 \in 1..(Len(evq) + 1)
        BY <1>3, <3>1
      <4>2. StartOf(i + 1)' = StartOf(i + 1)
        BY <2>3, <4>1
      <4>3. evq[i].start + evq[i].count = StartOf(i + 1)
        BY <3>1 DEF IInv, Slots
      <4> QED
        BY <1>6, <3>1, <4>2, <4>3
    <3>2. CASE i = Len(evq) + 1
      <4>1. i + 1 = Len(evq) + 2 /\ i + 1 \in Nat
        BY <1>3, <3>2
      <4>2. StartOf(i + 1)' = head'
        BY <2>4, <4>1
      <4> QED
        BY <1>5, <1>6, <2>2, <3>2, <4>2
    <3> QED
      BY <1>7, <3>1, <3>2
  <2>6. \A i, j \in 1..Len(evq') : i < j => evq'[i].start + evq'[i].count <= evq'[j].start
    <3> SUFFICES ASSUME NEW i \in 1..Len(evq'), NEW j \in 1..Len(evq'), i < j
                 PROVE  evq'[i].start + evq'[i].count <= evq'[j].start
      OBVIOUS
    <3>1. i \in 1..Len(evq)
      BY <1>3, <1>6
    <3>2. CASE j \in 1..Len(evq)
      BY <1>6, <3>1, <3>2 DEF IInv, Slots
    <3>3. CASE j = Len(evq) + 1
      BY <1>5, <1>6, <2>1, <3>1, <3>3
    <3> QED
      BY <1>7, <3>2, <3>3
  <2>7. \A i \in 1..Len(evq') : tail' <= evq'[i].start /\ evq'[i].start + evq'[i].count <= head'
    <3> SUFFICES ASSUME NEW i \in 1..Len(evq')
                 PROVE  tail' <= evq'[i].start /\ evq'[i].start + evq'[i].count <= head'
      OBVIOUS
    <3>1. CASE i \in 1..Len(evq)
      BY <1>1, <1>3, <1>4, <1>6, <1>8, <2>1, <2>2, <3>1
    <3>2. CASE i = Len(evq) + 1
      BY <1>1, <1>3, <1>4, <1>5, <1>6, <2>2, <3>2
    <3> QED
      BY <1>7, <3>1, <3>2
  <2>8. StartOf(1)' = StartOf(1)
    <3>1. 1 \in 1..(Len(evq) + 1)
      BY <1>3
    <3> QED
      BY <2>3, <3>1
  <2>9. tail' <= head'
    BY <1>1, <1>3, <1>4, <2>2
  <2>11. /\ cur.pc \in Handling =>
              tail <= cur.event.start /\ cur.event.start + cur.event.count = StartOf(1)
         /\ tail + held = IF cur.pc \in Handling THEN cur.event.start ELSE StartOf(1)
         /\ tail = totals.values + cur.values
    BY DEF IInv, Slots
  <2> QED
    BY <1>1, <1>2, <1>9, <2>5, <2>6, <2>7, <2>8, <2>9, <2>11 DEF Slots
<1>17. Cycles'
  <2>1. cycle <= cycle' /\ cycle' \in Nat
    BY <1>1, <1>3
  <2>2. \A i \in 1..Len(evq) : evq[i].cycle <= cycle
    BY DEF IInv, Cycles
  <2>3. \A i \in 1..Len(evq') : evq'[i].cycle <= cycle'
    <3> SUFFICES ASSUME NEW i \in 1..Len(evq') PROVE evq'[i].cycle <= cycle'
      OBVIOUS
    <3>1. CASE i \in 1..Len(evq)
      BY <1>3, <1>6, <1>8, <2>1, <2>2, <3>1
    <3>2. CASE i = Len(evq) + 1
      BY <1>1, <1>3, <1>5, <1>6, <3>2
    <3> QED
      BY <1>7, <3>1, <3>2
  <2>4. \A i, j \in 1..Len(evq') : i < j => evq'[i].cycle <= evq'[j].cycle
    <3> SUFFICES ASSUME NEW i \in 1..Len(evq'), NEW j \in 1..Len(evq'), i < j
                 PROVE  evq'[i].cycle <= evq'[j].cycle
      OBVIOUS
    <3>1. i \in 1..Len(evq)
      BY <1>3, <1>6
    <3>2. CASE j \in 1..Len(evq)
      BY <1>6, <3>1, <3>2 DEF IInv, Cycles
    <3>3. CASE j = Len(evq) + 1
      <4>1. evq'[i].cycle <= cycle /\ evq'[i].cycle \in Nat
        BY <1>6, <1>8, <2>2, <3>1
      <4> QED
        BY <1>3, <1>5, <1>6, <3>3, <4>1
    <3> QED
      BY <1>7, <3>2, <3>3
  <2>5. ASSUME NEW c \in Nat, c <= cycle, \A i \in 1..Len(evq) : c <= evq[i].cycle
        PROVE  c <= cycle' /\ \A i \in 1..Len(evq') : c <= evq'[i].cycle
    <3>1. c <= cycle'
      BY <1>3, <2>1, <2>5
    <3>2. ASSUME NEW i \in 1..Len(evq') PROVE c <= evq'[i].cycle
      <4>1. CASE i \in 1..Len(evq)
        BY <1>6, <2>5, <4>1
      <4>2. CASE i = Len(evq) + 1
        BY <1>1, <1>5, <1>6, <3>1, <4>2
      <4> QED
        BY <1>7, <4>1, <4>2
    <3> QED
      BY <3>1, <3>2
  <2>6. sink.pending.cycle \in Nat
    <3>1. sink.pending \in Row1 \cup {NoRow}
      BY DEF IInv, Types, SinkTypes
    <3> QED
      BY <3>1 DEF Row1, NoRow
  <2>7. sink'.pending.cycle <= cycle' /\ \A i \in 1..Len(evq') : sink'.pending.cycle <= evq'[i].cycle
    BY <1>2, <2>5, <2>6 DEF IInv, Cycles
  <2>8. cur.event.cycle \in Nat
    BY <1>9, DrainNumbers
  <2>9. ASSUME cur.pc \in Handling
        PROVE  /\ cur.event.cycle <= cycle'
               /\ \A i \in 1..Len(evq') : cur.event.cycle <= evq'[i].cycle
               /\ sink.pending.cycle <= cur.event.cycle
    BY <2>5, <2>8, <2>9 DEF IInv, Cycles
  <2> QED
    BY <1>2, <1>9, <2>3, <2>4, <2>7, <2>9 DEF Cycles
<1> QED
  BY <1>9, <1>10, <1>11, <1>12, <1>13, <1>14, <1>15, <1>16, <1>17 DEF IInv

\* A drain begins with an empty batch, wherever stop() has come to while its
\* thread waited for csv_mutex_.
LEMMA TakeLockStep ==
  ASSUME IInv, NEW t \in Drainers, TakeLock(t)
  PROVE  IInv'
<1> DEFINE r == [IdleDrain EXCEPT !.pc = "pop"]
<1>1. /\ d[t].pc = "lock" /\ csvLock = Free /\ csvLock' = t /\ Goto(t, r)
      /\ UNCHANGED <<csvVars, engineVars, ringVars, streamVars, memoVars, boundVars, lossVars,
                     stopping>>
  BY DEF TakeLock
<1>2. /\ sink' = sink /\ buffer' = buffer /\ file' = file /\ stream' = stream
      /\ totals' = totals /\ recent' = recent /\ measurement' = measurement
      /\ csvRequests' = csvRequests /\ faults' = faults /\ stopping' = stopping
      /\ evq' = evq /\ head' = head /\ tail' = tail /\ cycle' = cycle /\ published' = published
      /\ drains' = drains /\ held' = held
  BY <1>1 DEF csvVars, streamVars, memoVars, engineVars, ringVars, boundVars, lossVars
<1>3. /\ r \in Drain /\ r.pc = "pop" /\ r.batch = <<>> /\ r.values = 0 /\ r.failed = 0
      /\ r.event = IdleDrain.event
  BY IdleIsDrain DEF IdleDrain, Drain, DrainPcs
<1> HIDE DEF r
<1>4. cur = IdleDrain
  BY <1>1, CurFree
<1>5. /\ d' \in [Drainers -> Drain] /\ d'[t] = r
      /\ \A s \in Drainers : s # t => d'[s] = d[s]
  BY <1>1, <1>3 DEF Goto, IInv, Types, DrainTypes
<1>6. cur' = r
  BY <1>1, <1>5 DEF cur
<1>7. Retains /\ cur.pc \notin Handling /\ cur'.pc \notin Handling
      /\ cur.pc # "count" /\ cur'.pc # "count" /\ cur.pc # "csv" /\ cur'.pc = "pop"
      /\ cur \in Drain
  BY <1>3, <1>4, <1>6, IdleFields, IdleIsDrain DEF Retains, Handling
<1>8. Free # t /\ Free \notin Drainers /\ Main \in Drainers /\ Ticker \in Drainers
      /\ Workers \subseteq Drainers /\ Ticker \notin Workers /\ Main \notin Workers /\ Main # Ticker
  BY TelemetryAssumption DEF Drainers
<1>9. Control'
  <2>1. /\ \A s \in Drainers : d[s].pc \in Away
        /\ \A s \in Drainers : d[s].pc = "idle" => d[s] = IdleDrain
        /\ \A s \in Drainers : d[s].pc \in Waiting => d[s].batch = <<>>
        /\ \A s \in Workers : d[s].pc # "idle" => stopping \in BeforeJoin
        /\ d[Ticker].pc # "idle" =>
             stopping \in {"running", "flagged"} /\ d[Ticker].pc \notin {"configure", "disable"}
        /\ d[Main].pc # "idle" =>
             stopping = "server_joined" /\ d[Main].pc \notin {"configure", "disable"}
        /\ stopping # "drained"
    BY <1>1, <1>8 DEF IInv, Control
  <2>2. /\ t \in Workers => stopping \in BeforeJoin
        /\ t = Ticker => stopping \in {"running", "flagged"}
        /\ t = Main => stopping = "server_joined"
    BY <1>1, <1>8, <2>1
  <2>3. r.pc \notin Waiting /\ r.pc # "idle" /\ r.pc \notin {"configure", "disable"}
    BY <1>3 DEF Waiting
  <2> QED
    BY <1>1, <1>2, <1>5, <1>8, <2>1, <2>2, <2>3 DEF Control
<1>10. LossTypes' /\ Loss'
  <2>1. Written \in Nat
    BY HandledNumbers
  <2>2. Written' = Written
    BY <1>2, <1>3, <1>4, <1>6, IdleFields DEF Written
  <2> QED
    BY <1>1, <1>2, <1>7, <2>1, <2>2, LossKeep DEF csvVars, lossVars
<1>11. Types'
  <2>1. EngineTypes' /\ DrainTypes' /\ MemoTypes'
    BY <1>1, <1>2, <1>5 DEF IInv, Types, EngineTypes, DrainTypes, MemoTypes
  <2>2. CounterTypes'
    BY <1>2 DEF IInv, Types, CounterTypes
  <2> QED
    BY <1>1, <1>10, <2>1, <2>2, QuietStep, <1>2 DEF Types, memoVars
<1>12. Rows'
  BY <1>1, <1>2, QuietStep
<1>13. InBatch'
  <2>1. Len(cur'.batch) <= Budget
    BY <1>3, <1>6, TelemetryAssumption
  <2> QED
    BY <1>7, <2>1 DEF InBatch
<1>14. Ids' /\ Slots' /\ Cycles' /\ Lines'
  BY <1>1, <1>2, <1>7, IdsMove, SlotsMove, CyclesMove, LinesMove DEF IInv, Types, csvVars
<1> QED
  BY <1>9, <1>10, <1>11, <1>12, <1>13, <1>14 DEF IInv

LEMMA TailFacts ==
  ASSUME NEW S, NEW s \in Seq(S), s # <<>>
  PROVE  /\ Len(s) \in Nat \ {0} /\ Len(Tail(s)) = Len(s) - 1 /\ Tail(s) \in Seq(S)
         /\ Head(s) = s[1] /\ s[1] \in S
         /\ \A i \in 1..(Len(s) - 1) : Tail(s)[i] = s[i + 1]
OBVIOUS

\* The event popped is the oldest; its samples, those of the rest of the queue
\* and their cycles follow.
LEMMA PopEventStep ==
  ASSUME IInv, NEW t \in Drainers, PopEvent(t)
  PROVE  IInv'
<1> DEFINE e == Head(evq)
           r == [d[t] EXCEPT !.event = e, !.pc = e.kind]
<1>1. /\ d[t].pc = "pop" /\ Len(d[t].batch) < Budget /\ evq # <<>> /\ evq' = Tail(evq)
      /\ Goto(t, r)
      /\ UNCHANGED <<csvVars, engineVars, head, tail, streamVars, memoVars, boundVars, lossVars,
                     csvLock, stopping>>
  BY DEF PopEvent
<1>2. /\ sink' = sink /\ buffer' = buffer /\ file' = file /\ stream' = stream
      /\ totals' = totals /\ recent' = recent /\ measurement' = measurement
      /\ csvRequests' = csvRequests /\ faults' = faults /\ stopping' = stopping
      /\ drains' = drains /\ csvLock' = csvLock
      /\ head' = head /\ tail' = tail /\ cycle' = cycle /\ published' = published
      /\ held' = held
  BY <1>1 DEF csvVars, streamVars, memoVars, engineVars, boundVars, lossVars
<1>3. /\ evq \in Seq(Published) /\ head \in Nat /\ tail \in Nat /\ published \in Nat
      /\ cycle \in Nat
  BY DEF IInv, Types, EngineTypes
<1>4. /\ Len(evq) \in Nat \ {0} /\ Len(evq') = Len(evq) - 1 /\ evq' \in Seq(Published)
      /\ e = evq[1] /\ e \in Published
      /\ \A i \in 1..(Len(evq) - 1) : evq'[i] = evq[i + 1]
  BY <1>1, <1>3, TailFacts
<1>5. /\ e \in Event /\ e.start \in Nat /\ e.count \in Nat /\ e.cycle \in Nat /\ e.id \in Nat
      /\ e.kind \in {"values", "measurement", "status"} /\ (e.kind # "values" => e.count = 0)
  <2>1. e.kind \in {"values", "measurement", "status"} /\ (e.kind # "values" => e.count = 0)
    BY <1>4 DEF Published, Event
  <2> QED
    BY <1>4, <2>1, EventNumbers
<1>6. d[t] \in Drain
  BY DEF IInv, Types, DrainTypes
<1>7. /\ r \in Drain /\ r.pc = e.kind /\ r.event = e /\ r.batch = d[t].batch
      /\ r.values = d[t].values /\ r.failed = d[t].failed
  <2> HIDE DEF e
  <2> QED
    BY <1>5, <1>6 DEF Drain, DrainPcs
<1>8. r \in Working
  BY <1>5, <1>7 DEF Working, Away
<1>9. d[t].pc \notin Away
  BY <1>1 DEF Away
<1> HIDE DEF r, e
<1>10. /\ csvLock = t /\ cur = d[t] /\ cur' = r /\ d' \in [Drainers -> Drain] /\ Control'
  BY <1>1, <1>2, <1>8, <1>9, DrainStep DEF IInv, Types
<1>11. /\ cur'.pc \in Handling /\ cur.pc \notin Handling /\ cur.pc # "csv" /\ cur'.pc # "csv"
       /\ cur.pc # "count" /\ cur'.pc # "count" /\ cur'.pc # "write"
  BY <1>1, <1>5, <1>7, <1>10 DEF Handling
<1>12. /\ cur \in Drain /\ Len(cur.batch) \in Nat /\ totals.events \in Nat
       /\ cur'.batch = cur.batch /\ cur'.event = e /\ cur'.values = cur.values
       /\ cur'.failed = cur.failed
  BY <1>6, <1>7, <1>10, DrainNumbers, TotalsNumbers DEF IInv, Types
<1>13. 1 \in 1..Len(evq) /\ \A i \in 1..Len(evq') : i \in 1..(Len(evq) - 1) /\ i + 1 \in 1..Len(evq)
                                                    /\ evq'[i] = evq[i + 1]
  BY <1>4
<1>14. InBatch'
  <2>1. Len(cur'.batch) < Budget
    BY <1>1, <1>10, <1>12
  <2>2. Len(cur'.batch) <= Budget
    BY <1>12, <2>1, TelemetryAssumption
  <2> QED
    BY <1>4, <1>5, <1>7, <1>10, <1>12, <2>1, <2>2 DEF InBatch
<1>15. LossTypes' /\ Loss'
  <2>1. Written \in Nat
    BY HandledNumbers
  <2>2. Written' = Written
    BY <1>2, <1>11, <1>12 DEF Written
  <2> QED
    BY <1>1, <1>2, <1>11, <2>1, <2>2, LossKeep DEF streamVars, lossVars
<1>16. Types'
  <2>1. EventCap \in Nat /\ Len(evq) <= EventCap
    BY TelemetryAssumption DEF IInv, Types, EngineTypes
  <2>2. Len(evq') <= EventCap
    BY <1>4, <2>1
  <2>3. EngineTypes'
    BY <1>2, <1>4, <2>2 DEF IInv, Types, EngineTypes
  <2>4. DrainTypes' /\ MemoTypes' /\ CounterTypes'
    BY <1>2, <1>10 DEF IInv, Types, DrainTypes, MemoTypes, CounterTypes
  <2> QED
    BY <1>1, <1>2, <1>15, <2>3, <2>4, QuietStep DEF Types
<1>17. Rows'
  BY <1>1, <1>2, QuietStep
<1>18. Lines'
  BY <1>2, <1>11, <1>12 DEF IInv, Lines, Written
<1>19. Ids'
  <2>1. HandlingOne = 0 /\ HandlingOne' = 1 /\ Remembered' = Remembered
    BY <1>2, <1>11 DEF HandlingOne, Remembered
  <2>2. published = totals.events + Len(cur.batch) + Len(evq)
    BY <1>4, <1>12, <2>1 DEF IInv, Ids
  <2>3. published' = totals'.events + Len(cur'.batch) + HandlingOne' + Len(evq')
    BY <1>2, <1>4, <1>12, <2>1, <2>2
  <2>4. e.id = totals.events + Len(cur.batch) + 1
    <3>1. e.id = published - Len(evq) + 1
      BY <1>4, <1>13 DEF IInv, Ids
    <3> QED
      BY <1>4, <1>12, <2>2, <3>1
  <2>5. \A i \in 1..Len(evq') : evq'[i].id = published' - Len(evq') + i
    <3> SUFFICES ASSUME NEW i \in 1..Len(evq') PROVE evq'[i].id = published' - Len(evq') + i
      OBVIOUS
    <3>1. evq'[i].id = published - Len(evq) + (i + 1)
      BY <1>13 DEF IInv, Ids
    <3>2. published \in Int /\ Len(evq) \in Int /\ i \in Int
      BY <1>3, <1>4
    <3>3. published - Len(evq) + (i + 1) = published - (Len(evq) - 1) + i
      BY <3>2
    <3> QED
      BY <1>2, <1>4, <3>1, <3>3
  <2> QED
    BY <1>2, <1>12, <2>1, <2>3, <2>4, <2>5 DEF IInv, Ids
<1>20. Slots'
  <2>1. \A i \in Nat \ {0} : StartOf(i)' = StartOf(i + 1)
    <3> SUFFICES ASSUME NEW i \in Nat \ {0} PROVE StartOf(i)' = StartOf(i + 1)
      OBVIOUS
    <3>1. CASE i <= Len(evq')
      BY <1>4, <3>1 DEF StartOf
    <3>2. CASE ~(i <= Len(evq'))
      BY <1>2, <1>4, <3>2 DEF StartOf
    <3> QED
      BY <3>1, <3>2
  <2>2. StartOf(1) = e.start
    BY <1>4 DEF StartOf
  <2>3. e.start + e.count = StartOf(1)' /\ tail <= e.start
    <3>1. e.start + e.count = StartOf(1 + 1) /\ tail <= e.start
      BY <1>4, <1>13 DEF IInv, Slots
    <3>2. StartOf(1)' = StartOf(1 + 1)
      BY <2>1
    <3> QED
      BY <3>1, <3>2
  <2>4. \A i \in 1..Len(evq') : evq'[i].start + evq'[i].count = StartOf(i + 1)'
    <3> SUFFICES ASSUME NEW i \in 1..Len(evq')
                 PROVE  evq'[i].start + evq'[i].count = StartOf(i + 1)'
      OBVIOUS
    <3>1. evq'[i].start + evq'[i].count = StartOf(i + 1 + 1)
      BY <1>13 DEF IInv, Slots
    <3>2. StartOf(i + 1)' = StartOf(i + 1 + 1)
      BY <2>1
    <3> QED
      BY <3>1, <3>2
  <2>5. \A i, j \in 1..Len(evq') : i < j => evq'[i].start + evq'[i].count <= evq'[j].start
    <3> SUFFICES ASSUME NEW i \in 1..Len(evq'), NEW j \in 1..Len(evq'), i < j
                 PROVE  evq'[i].start + evq'[i].count <= evq'[j].start
      OBVIOUS
    <3>1. i + 1 < j + 1
      OBVIOUS
    <3> QED
      BY <1>13, <3>1 DEF IInv, Slots
  <2>6. \A i \in 1..Len(evq') : tail' <= evq'[i].start /\ evq'[i].start + evq'[i].count <= head'
    BY <1>2, <1>13 DEF IInv, Slots
  <2>7. /\ tail <= head /\ tail = totals.values + cur.values
        /\ tail + held = StartOf(1)
    BY <1>11 DEF IInv, Slots
  <2> QED
    BY <1>2, <1>11, <1>12, <2>2, <2>3, <2>4, <2>5, <2>6, <2>7 DEF Slots
<1>21. Cycles'
  <2>1. /\ \A i \in 1..Len(evq) : evq[i].cycle <= cycle /\ sink.pending.cycle <= evq[i].cycle
        /\ sink.pending.cycle <= cycle
        /\ \A i, j \in 1..Len(evq) : i < j => evq[i].cycle <= evq[j].cycle
    BY DEF IInv, Cycles
  <2>2. \A i \in 1..Len(evq') : /\ evq'[i].cycle <= cycle' /\ sink'.pending.cycle <= evq'[i].cycle
                                /\ e.cycle <= evq'[i].cycle
    <3> SUFFICES ASSUME NEW i \in 1..Len(evq')
                 PROVE  /\ evq'[i].cycle <= cycle' /\ sink'.pending.cycle <= evq'[i].cycle
                        /\ e.cycle <= evq'[i].cycle
      OBVIOUS
    <3>1. 1 < i + 1
      OBVIOUS
    <3> QED
      BY <1>2, <1>4, <1>13, <2>1, <3>1
  <2>3. \A i, j \in 1..Len(evq') : i < j => evq'[i].cycle <= evq'[j].cycle
    <3> SUFFICES ASSUME NEW i \in 1..Len(evq'), NEW j \in 1..Len(evq'), i < j
                 PROVE  evq'[i].cycle <= evq'[j].cycle
      OBVIOUS
    <3>1. i + 1 < j + 1
      OBVIOUS
    <3> QED
      BY <1>13, <2>1, <3>1
  <2>4. e.cycle <= cycle /\ sink.pending.cycle <= e.cycle
    BY <1>4, <1>13, <2>1
  <2> QED
    BY <1>2, <1>12, <2>1, <2>2, <2>3, <2>4 DEF Cycles
<1> QED
  BY <1>10, <1>14, <1>15, <1>16, <1>17, <1>18, <1>19, <1>20, <1>21 DEF IInv
-----------------------------------------------------------------------------
(* The end of a drain                                                      *)

\* Lines that are flushed join those in the file; lines lost leave the order.
LEMMA FlushLines ==
  ASSUME Lines, FileTypes, Written \in Nat, Written' = Written,
         NEW fault \in BOOLEAN, FlushBuffer(fault)
  PROVE  Lines' /\ buffer' \in Seq(Nat) /\ file' \in Seq(Nat)
<1>1. buffer' = <<>> /\ file' = (IF fault THEN file ELSE file \o buffer)
  BY DEF FlushBuffer
<1>2. file \in Seq(Nat) /\ buffer \in Seq(Nat)
  BY DEF FileTypes
<1>3. CASE fault
  BY <1>1, <1>2, <1>3 DEF Lines
<1>4. CASE ~fault
  <2>1. file' = file \o buffer /\ buffer' = <<>>
    BY <1>1, <1>4
  <2>2. /\ file' \in Seq(Nat) /\ Len(file') = Len(file) + Len(buffer)
        /\ \A i \in 1..(Len(file) + Len(buffer)) :
             file'[i] = IF i <= Len(file) THEN file[i] ELSE buffer[i - Len(file)]
    BY <1>2, <2>1, ConcatProperties
  <2>3. Len(file) \in Nat /\ Len(buffer) \in Nat
    BY <1>2
  <2>4. \A i \in 1..Len(file') :
          \/ i \in 1..Len(file) /\ file'[i] = file[i]
          \/ i - Len(file) \in 1..Len(buffer) /\ file'[i] = buffer[i - Len(file)]
             /\ i > Len(file)
    BY <2>2, <2>3
  <2>5. \A i \in 1..Len(file') : file'[i] <= Written'
    BY <2>4 DEF Lines
  <2>6. \A i, j \in 1..Len(file') : i < j => file'[i] < file'[j]
    <3> SUFFICES ASSUME NEW i \in 1..Len(file'), NEW j \in 1..Len(file'), i < j
                 PROVE  file'[i] < file'[j]
      OBVIOUS
    <3>1. CASE j \in 1..Len(file) /\ file'[j] = file[j]
      <4>1. i \in 1..Len(file) /\ file'[i] = file[i]
        BY <2>2, <2>3, <3>1
      <4> QED
        BY <3>1, <4>1 DEF Lines
    <3>2. CASE j - Len(file) \in 1..Len(buffer) /\ file'[j] = buffer[j - Len(file)]
      <4>1. CASE i \in 1..Len(file) /\ file'[i] = file[i]
        BY <3>2, <4>1 DEF Lines
      <4>2. CASE i - Len(file) \in 1..Len(buffer) /\ file'[i] = buffer[i - Len(file)]
        <5>1. i - Len(file) < j - Len(file)
          BY <2>3
        <5> QED
          BY <3>2, <4>2, <5>1 DEF Lines
      <4> QED
        BY <2>4, <4>1, <4>2
    <3> QED
      BY <2>4, <3>1, <3>2
  <2>7. Len(buffer') = 0
    BY <2>1
  <2>8. Lines'
    BY <2>5, <2>6, <2>7 DEF Lines
  <2> QED
    BY <2>1, <2>2, <2>8
<1> QED
  BY <1>3, <1>4

\* Lines that reach the file are still among those that were handled.
LEMMA FlushHandled ==
  ASSUME FileTypes, FlushBuffer(FALSE), lost' = lost
  PROVE  Handled' = Handled
<1>1. buffer' = <<>> /\ file' = file \o buffer /\ file \in Seq(Nat) /\ buffer \in Seq(Nat)
  BY DEF FlushBuffer, FileTypes
<1>2. Range(buffer') = {}
  BY <1>1 DEF Range
<1>3. Range(file') = Range(file) \cup Range(buffer)
  BY <1>1, RangeConcatenation
<1> QED
  BY <1>2, <1>3 DEF Handled

\* A step of the drain that holds no event and goes on without one.
LEMMA EmptyHandedStep ==
  ASSUME IInv, NEW t \in Drainers, d[t].pc \in {"pop", "remember"},
         NEW pc \in {"remember", "count"}, Goto(t, [d[t] EXCEPT !.pc = pc]),
         UNCHANGED <<sink, engineVars, ringVars, totals, lossVars, csvLock, stopping>>
  PROVE  /\ cur = d[t] /\ cur \in Drain /\ Retains /\ cur'.pc = pc
         /\ Written \in Nat /\ Written' = Written
         /\ EngineTypes' /\ DrainTypes'
         /\ Control' /\ InBatch' /\ Slots' /\ Cycles'
<1>1. /\ published' = published /\ cycle' = cycle /\ evq' = evq /\ head' = head /\ tail' = tail
      /\ totals' = totals /\ held' = held
  BY DEF engineVars, ringVars, lossVars
<1>2. pc \notin Handling /\ pc \in DrainPcs \ Away
      /\ d[t].pc \notin Away /\ d[t].pc \notin Handling
  BY DEF Handling, DrainPcs, Away
<1>3. /\ csvLock = t /\ cur = d[t] /\ cur \in Drain /\ cur'.pc = pc /\ Retains
      /\ d' \in [Drainers -> Drain] /\ Control' /\ InBatch'
  BY <1>2, MoveForm DEF IInv, Types
<1>4. EngineTypes' /\ DrainTypes'
  BY <1>1, <1>3 DEF IInv, Types, EngineTypes, DrainTypes
<1>5. Slots'
  BY <1>1, <1>2, <1>3, SlotsMove DEF IInv
<1>6. Cycles'
  BY <1>1, <1>2, <1>3, CyclesMove DEF IInv
<1>7. Written \in Nat /\ Written' = Written
  <2>1. totals.events \in Nat /\ Len(cur.batch) \in Nat
    BY <1>3, TotalsNumbers, DrainNumbers DEF IInv, Types
  <2> QED
    BY <1>1, <1>2, <1>3, <2>1 DEF Written, Retains, Handling
<1> QED
  BY <1>3, <1>4, <1>5, <1>6, <1>7

LEMMA FlushBatchStep ==
  ASSUME IInv, NEW t \in Drainers, FlushBatch(t)
  PROVE  IInv'
<1>1. /\ d[t].pc = "pop" /\ Goto(t, [d[t] EXCEPT !.pc = "remember"])
      /\ UNCHANGED <<csvVars, engineVars, ringVars, memoVars, drains, csvRequests, lossVars,
                     csvLock, stopping>>
  BY DEF FlushBatch
<1>2. /\ sink' = sink /\ csvRows' = csvRows /\ totals' = totals /\ recent' = recent
      /\ measurement' = measurement /\ published' = published /\ evq' = evq
      /\ drains' = drains /\ csvRequests' = csvRequests /\ stopping' = stopping
  BY <1>1 DEF csvVars, memoVars, engineVars, ringVars
<1>3. /\ cur = d[t] /\ cur \in Drain /\ Retains /\ cur'.pc = "remember"
      /\ Written \in Nat /\ Written' = Written /\ EngineTypes' /\ DrainTypes'
      /\ Control' /\ InBatch' /\ Slots' /\ Cycles'
  BY <1>1, <1>2, EmptyHandedStep
<1>4. Ids' /\ MemoTypes'
  <2>1. MemoTypes'
    BY <1>2 DEF IInv, Types, MemoTypes
  <2>2. /\ cur.pc # "count" /\ cur'.pc # "count" /\ cur.pc \notin Handling
        /\ cur'.pc \notin Handling
    BY <1>1, <1>3 DEF Handling
  <2> QED
    BY <1>2, <1>3, <2>1, <2>2, IdsMove DEF IInv
<1>5. SinkTypes' /\ Rows'
  BY <1>2 DEF IInv, Types, SinkTypes, Rows, OneRowPerCycle
<1>6. faults \in Nat /\ stream \in [open : BOOLEAN, good : BOOLEAN]
  BY DEF IInv, Types, CounterTypes, FileTypes
<1>7. lost' = lost /\ before' = before /\ LossTypes'
  BY <1>1 DEF lossVars, IInv, Types, LossTypes
<1>8. CASE UNCHANGED <<streamVars, faults>>
  <2>1. stream' = stream /\ buffer' = buffer /\ file' = file /\ faults' = faults
    BY <1>8 DEF streamVars
  <2>2. FileTypes' /\ CounterTypes'
    BY <1>2, <2>1 DEF IInv, Types, FileTypes, CounterTypes
  <2>3. Lines'
    BY <1>3, <2>1 DEF IInv, Lines
  <2>4. Loss'
    BY <1>1, <1>2, <1>3, <2>1, LossKeep DEF lossVars
  <2> QED
    BY <1>3, <1>4, <1>5, <1>7, <2>2, <2>3, <2>4 DEF IInv, Types
<1>9. CASE /\ stream.open /\ stream.good
           /\ \E fault \in BOOLEAN :
                /\ fault => buffer # <<>>
                /\ Fault(fault)
                /\ FlushBuffer(fault)
                /\ stream' = [stream EXCEPT !.good = ~fault]
  <2>1. PICK fault \in BOOLEAN :
          Fault(fault) /\ FlushBuffer(fault) /\ stream' = [stream EXCEPT !.good = ~fault]
    BY <1>9
  <2>2. faults' \in Nat /\ (faults' = 0 => faults = 0 /\ ~fault)
    BY <1>6, <2>1, FaultStep
  <2>3. Lines' /\ buffer' \in Seq(Nat) /\ file' \in Seq(Nat)
    BY <1>3, <2>1, FlushLines DEF IInv, Types
  <2>4. stream' \in [open : BOOLEAN, good : BOOLEAN] /\ stream'.good = ~fault
        /\ stream'.open = stream.open
    BY <1>6, <2>1
  <2>5. FileTypes' /\ CounterTypes'
    BY <1>2, <2>2, <2>3, <2>4 DEF IInv, Types, FileTypes, CounterTypes
  <2>6. Loss'
    <3>1. ~fault => Handled' = Handled
      BY <1>7, <2>1, FlushHandled DEF IInv, Types
    <3>2. \A x \in lost' \cup before' : x <= Written'
      BY <1>3, <1>7 DEF IInv, Loss
    <3>3. faults' = 0 => Healthy'
      BY <1>2, <1>3, <1>7, <1>9, <2>2, <2>4, <3>1 DEF IInv, Loss, Healthy
    <3> QED
      BY <1>2, <1>7, <3>2, <3>3 DEF IInv, Loss
  <2> QED
    BY <1>3, <1>4, <1>5, <1>7, <2>3, <2>5, <2>6 DEF IInv, Types
<1> QED
  BY <1>8, <1>9 DEF FlushBatch

\* A nonempty set of numbers up to n has a greatest one.
LEMMA MaxIsLargest ==
  ASSUME NEW n \in Nat, NEW S \in SUBSET (1..n), S # {}
  PROVE  Max(S) \in S /\ \A i \in S : i <= Max(S)
<1> DEFINE T == {n - i : i \in S}
<1>1. T \subseteq Nat /\ T # {}
  <2>1. \A i \in S : i \in 1..n /\ n - i \in Nat
    OBVIOUS
  <2>2. T \subseteq Nat
    BY <2>1
  <2>3. PICK i \in S : TRUE
    OBVIOUS
  <2>4. n - i \in T
    BY <2>3
  <2> QED
    BY <2>2, <2>4
<1>2. PICK x \in T : \A y \in T : ~(<<y, x>> \in OpToRel(<, Nat))
  BY <1>1, NatLessThanWellFounded, WFMin
<1>3. \A y \in T : ~(y < x)
  BY <1>1, <1>2 DEF OpToRel
<1>4. PICK m \in S : x = n - m
  BY <1>2
<1>5. \A i \in S : m >= i
  <2> SUFFICES ASSUME NEW i \in S PROVE m >= i
    OBVIOUS
  <2>1. ~(n - i < n - m)
    BY <1>3, <1>4
  <2> QED
    BY <2>1
<1>6. Max(S) \in S /\ \A i \in S : Max(S) >= i
  BY <1>5 DEF Max
<1> QED
  BY <1>6

\* What remember_events keeps is the end of the history with the batch appended.
LEMMA LastOfFacts ==
  ASSUME NEW q \in Seq(Nat), NEW n \in Nat
  PROVE  /\ LastOf(q, n) \in Seq(Nat) /\ Len(LastOf(q, n)) <= n
         /\ Len(LastOf(q, n)) \in Nat /\ Len(LastOf(q, n)) <= Len(q)
         /\ \A i \in 1..Len(LastOf(q, n)) :
              LastOf(q, n)[i] = q[Len(q) - Len(LastOf(q, n)) + i]
<1>1. CASE Len(q) > n
  <2> DEFINE m == Len(q) - n + 1
             s == SubSeq(q, m, Len(q))
  <2>1. LastOf(q, n) = s
    BY <1>1 DEF LastOf
  <2>2. m \in Int /\ Len(q) \in Int /\ \A i \in m..Len(q) : q[i] \in Nat
    BY <1>1
  <2>3. /\ s \in Seq(Nat) /\ Len(s) = (IF m <= Len(q) THEN Len(q) - m + 1 ELSE 0)
        /\ \A i \in 1..(Len(q) - m + 1) : s[i] = q[m + i - 1]
    BY <2>2, SubSeqProperties
  <2>4. Len(s) = n
    BY <1>1, <2>3
  <2>5. \A i \in 1..n : s[i] = q[Len(q) - n + i]
    <3> SUFFICES ASSUME NEW i \in 1..n PROVE s[i] = q[Len(q) - n + i]
      OBVIOUS
    <3>1. i \in 1..(Len(q) - m + 1) /\ m + i - 1 = Len(q) - n + i
      OBVIOUS
    <3> QED
      BY <2>3, <3>1
  <2> HIDE DEF s, m
  <2> QED
    BY SMTT(40), <1>1, <2>1, <2>3, <2>4, <2>5
<1>2. CASE ~(Len(q) > n)
  <2>1. LastOf(q, n) = q
    BY <1>2 DEF LastOf
  <2> QED
    BY <1>2, <2>1
<1> QED
  BY <1>1, <1>2

\* The ids of a batch, as remember_events appends them.
BatchIds == [i \in 1..Len(cur.batch) |-> cur.batch[i].id]

LEMMA RememberEventsStep ==
  ASSUME IInv, NEW t \in Drainers, RememberEvents(t)
  PROVE  IInv' /\ measurement' >= measurement
<1>1. /\ d[t].pc = "remember" /\ Goto(t, [d[t] EXCEPT !.pc = "count"])
      /\ recent' = LastOf(recent \o [i \in 1..Len(d[t].batch) |-> d[t].batch[i].id], RecentCap)
      /\ measurement' = IF Measured(d[t].batch) = {} THEN measurement
                        ELSE d[t].batch[Max(Measured(d[t].batch))].id
      /\ UNCHANGED <<csvVars, engineVars, ringVars, streamVars, totals, boundVars, lossVars,
                     csvLock, stopping>>
  BY DEF RememberEvents
<1>2. /\ sink' = sink /\ csvRows' = csvRows /\ totals' = totals /\ published' = published
      /\ evq' = evq /\ stream' = stream /\ buffer' = buffer /\ file' = file
      /\ drains' = drains /\ csvRequests' = csvRequests /\ faults' = faults
      /\ stopping' = stopping
  BY <1>1 DEF csvVars, engineVars, ringVars, streamVars, boundVars
<1>3. /\ cur = d[t] /\ cur \in Drain /\ Retains /\ cur'.pc = "count"
      /\ Written \in Nat /\ Written' = Written /\ EngineTypes' /\ DrainTypes'
      /\ Control' /\ InBatch' /\ Slots' /\ Cycles'
  BY <1>1, <1>2, EmptyHandedStep
<1>4. FileTypes' /\ CounterTypes' /\ SinkTypes' /\ Rows'
  BY <1>2 DEF IInv, Types, FileTypes, CounterTypes, SinkTypes, Rows, OneRowPerCycle
<1>5. /\ Len(cur.batch) \in Nat /\ cur.batch \in Seq(Event) /\ totals.events \in Nat
      /\ totals \in [events : Nat, values : Nat, failed : Nat]
  BY <1>3, DrainNumbers, TotalsNumbers DEF IInv, Types, MemoTypes
<1>6. Lines'
  BY <1>2, <1>3 DEF IInv, Lines
<1>7. LossTypes' /\ Loss'
  BY <1>1, <1>2, <1>3, LossKeep DEF lossVars
<1>8. recent \in Seq(Nat) /\ Len(recent) \in Nat /\ RecentCap \in Nat /\ measurement \in Nat
  BY TelemetryAssumption DEF IInv, Types, MemoTypes
<1>9. \A i \in 1..Len(cur.batch) : cur.batch[i].id = totals.events + i
  BY DEF IInv, Ids
<1>10. Remembered = totals.events /\ Remembered' = totals.events + Len(cur.batch)
  BY <1>1, <1>2, <1>3, <1>5 DEF Remembered, Retains
<1>11. /\ BatchIds \in Seq(Nat) /\ Len(BatchIds) = Len(cur.batch)
       /\ \A i \in 1..Len(cur.batch) : BatchIds[i] = totals.events + i
  <2>1. \A i \in 1..Len(cur.batch) : cur.batch[i].id \in Nat
    BY <1>5, <1>9
  <2> QED
    BY <1>5, <1>9, <2>1 DEF BatchIds
<1> DEFINE q == recent \o BatchIds
<1>12. /\ q \in Seq(Nat) /\ Len(q) = Len(recent) + Len(cur.batch)
       /\ \A i \in 1..Len(q) : q[i] = Remembered' - Len(q) + i
  <2>1. /\ q \in Seq(Nat) /\ Len(q) = Len(recent) + Len(BatchIds)
        /\ \A i \in 1..(Len(recent) + Len(BatchIds)) :
             q[i] = IF i <= Len(recent) THEN recent[i] ELSE BatchIds[i - Len(recent)]
    BY ZenonT(40), <1>8, <1>11, ConcatProperties
  <2> HIDE DEF q
  <2>2. ASSUME NEW i \in 1..Len(q)
        PROVE  q[i] = Remembered' - Len(q) + i
    <3>1. CASE i <= Len(recent)
      <4>1. q[i] = recent[i] /\ i \in 1..Len(recent)
        BY <1>8, <2>1, <3>1
      <4>2. recent[i] = totals.events - Len(recent) + i
        BY <1>10, <4>1 DEF IInv, Ids
      <4>3. Remembered' - Len(q) = totals.events - Len(recent)
        BY <1>5, <1>8, <1>10, <1>11, <2>1
      <4> QED
        BY <4>1, <4>2, <4>3
    <3>2. CASE ~(i <= Len(recent))
      <4>1. q[i] = BatchIds[i - Len(recent)] /\ i - Len(recent) \in 1..Len(cur.batch)
        BY <1>5, <1>8, <1>11, <2>1, <3>2
      <4>2. q[i] = totals.events + (i - Len(recent))
        BY <1>11, <4>1
      <4> QED
        BY SMTT(40), <1>5, <1>8, <1>10, <1>11, <2>1, <4>2
    <3> QED
      BY <3>1, <3>2
  <2> QED
    BY <1>11, <2>1, <2>2
<1>13. recent' = LastOf(q, RecentCap)
  BY <1>1, <1>3 DEF BatchIds
<1> HIDE DEF q
<1>14. /\ recent' \in Seq(Nat) /\ Len(recent') <= RecentCap
       /\ \A i \in 1..Len(recent') : recent'[i] = Remembered' - Len(recent') + i
  <2>1. /\ recent' \in Seq(Nat) /\ Len(recent') <= RecentCap
        /\ Len(recent') \in Nat /\ Len(recent') <= Len(q)
        /\ \A i \in 1..Len(recent') : recent'[i] = q[Len(q) - Len(recent') + i]
    BY <1>8, <1>12, <1>13, LastOfFacts
  <2>2. ASSUME NEW i \in 1..Len(recent')
        PROVE  recent'[i] = Remembered' - Len(recent') + i
    <3>1. Len(q) - Len(recent') + i \in 1..Len(q)
      BY <1>5, <1>8, <1>12, <2>1
    <3>2. recent'[i] = Remembered' - Len(q) + (Len(q) - Len(recent') + i)
      BY <1>12, <2>1, <3>1
    <3> QED
      BY SMTT(40), <1>5, <1>8, <1>10, <1>12, <2>1, <3>2
  <2> QED
    BY <2>1, <2>2
<1>15. measurement' \in Nat /\ measurement' <= Remembered' /\ measurement' >= measurement
  <2>1. measurement <= totals.events
    BY <1>10 DEF IInv, Ids
  <2>2. CASE Measured(cur.batch) = {}
    <3>1. measurement' = measurement
      BY <1>1, <1>3, <2>2
    <3> QED
      BY <1>5, <1>8, <1>10, <2>1, <3>1
  <2>3. CASE Measured(cur.batch) # {}
    <3>1. Measured(cur.batch) \in SUBSET (1..Len(cur.batch))
      BY DEF Measured
    <3>2. Max(Measured(cur.batch)) \in 1..Len(cur.batch)
      BY <1>5, <2>3, <3>1, MaxIsLargest
    <3>3. measurement' = totals.events + Max(Measured(cur.batch))
      BY <1>1, <1>3, <1>9, <2>3, <3>2
    <3> QED
      BY <1>5, <1>8, <1>10, <2>1, <3>2, <3>3
  <2> QED
    BY <2>2, <2>3
<1>16. MemoTypes'
  BY <1>2, <1>5, <1>14, <1>15 DEF MemoTypes
<1>17. Ids'
  <2>1. HandlingOne' = HandlingOne /\ cur'.pc \notin Handling
    BY <1>1, <1>3 DEF HandlingOne, Handling
  <2> QED
    BY <1>2, <1>3, <1>14, <1>15, <2>1 DEF IInv, Ids, Retains
<1> QED
  BY <1>3, <1>4, <1>6, <1>7, <1>15, <1>16, <1>17 DEF IInv, Types

\* The counters take over what the drain has counted; its thread is idle again.
LEMMA EndDrainStep ==
  ASSUME IInv, NEW t \in Drainers, EndDrain(t)
  PROVE  IInv'
<1>1. /\ d[t].pc = "count" /\ Goto(t, IdleDrain)
      /\ totals' = [events |-> totals.events + Len(d[t].batch),
                    values |-> totals.values + d[t].values,
                    failed |-> totals.failed + d[t].failed]
      /\ IF t = Main THEN stopping' = "drained" /\ csvLock' = csvLock
         ELSE csvLock' = Free /\ stopping' = stopping
      /\ UNCHANGED <<csvVars, engineVars, ringVars, streamVars, recent, measurement, boundVars,
                     lossVars>>
  BY DEF EndDrain
<1>2. /\ sink' = sink /\ csvRows' = csvRows /\ published' = published /\ cycle' = cycle
      /\ evq' = evq /\ head' = head /\ tail' = tail
      /\ stream' = stream /\ buffer' = buffer /\ file' = file
      /\ recent' = recent /\ measurement' = measurement
      /\ drains' = drains /\ csvRequests' = csvRequests /\ faults' = faults /\ held' = held
  BY <1>1 DEF csvVars, engineVars, ringVars, streamVars, boundVars, lossVars
<1>3. csvLock = t /\ cur = d[t] /\ d[t] \in Drain
  BY <1>1 DEF IInv, Types, DrainTypes, Control, cur, Away
<1>4. /\ Len(cur.batch) \in Nat /\ cur.values \in Nat /\ cur.failed \in Nat
      /\ totals.events \in Nat /\ totals.values \in Nat /\ totals.failed \in Nat
      /\ totals'.events = totals.events + Len(cur.batch)
      /\ totals'.values = totals.values + cur.values
      /\ totals'.failed = totals.failed + cur.failed
      /\ totals' \in [events : Nat, values : Nat, failed : Nat]
  <2>1. /\ Len(cur.batch) \in Nat /\ cur.values \in Nat /\ cur.failed \in Nat
        /\ totals.events \in Nat /\ totals.values \in Nat /\ totals.failed \in Nat
    BY <1>3, DrainNumbers, TotalsNumbers DEF IInv, Types
  <2> QED
    BY SMTT(40), <1>1, <1>3, <2>1
<1>5. /\ d' \in [Drainers -> Drain] /\ d'[t] = IdleDrain
      /\ \A s \in Drainers : s # t => d'[s] = d[s]
  BY <1>1, IdleIsDrain DEF Goto, IInv, Types, DrainTypes
<1>6. Free \notin Drainers /\ Main \in Drainers /\ Ticker \in Drainers
      /\ Workers \subseteq Drainers /\ Ticker \notin Workers /\ Main \notin Workers /\ Main # Ticker
  BY TelemetryAssumption DEF Drainers
<1>7. cur' = IdleDrain
  BY <1>1, <1>3, <1>5, <1>6 DEF cur
<1>8. /\ cur'.pc = "idle" /\ Len(cur'.batch) = 0 /\ cur'.values = 0 /\ cur'.failed = 0
      /\ cur'.pc \notin Handling /\ cur.pc \notin Handling /\ cur.pc = "count"
  BY <1>1, <1>3, <1>7, IdleFields DEF Handling
<1>9. stopping' \in StopPoints /\ stopping # "stopped" /\ stopping' # "stopped"
      /\ (stopping' = "running" => stopping = "running")
  <2>1. stopping \in StopPoints /\ stopping # "stopped"
    BY <1>1 DEF IInv, Types, CounterTypes, Control, Drainers, BeforeJoin
  <2> QED
    BY <1>1, <2>1 DEF StopPoints
<1>10. Control'
  <2>1. /\ \A s \in Drainers : s # t => d[s].pc \in Away
        /\ \A s \in Drainers : d[s].pc = "idle" => d[s] = IdleDrain
        /\ \A s \in Drainers : d[s].pc \in Waiting => d[s].batch = <<>>
        /\ \A s \in Workers : d[s].pc # "idle" => stopping \in BeforeJoin
        /\ d[Ticker].pc # "idle" =>
             stopping \in {"running", "flagged"} /\ d[Ticker].pc \notin {"configure", "disable"}
        /\ d[Main].pc # "idle" =>
             stopping = "server_joined" /\ d[Main].pc \notin {"configure", "disable"}
        /\ stopping = "drained" => t = Main
    BY <1>3, <1>6 DEF IInv, Control
  <2>2. CASE t = Main
    <3>1. stopping = "server_joined" /\ stopping' = "drained" /\ csvLock' = Main
      BY <1>1, <1>3, <2>1, <2>2
    <3>2. d[Ticker].pc = "idle" /\ \A s \in Workers : d[s].pc = "idle"
      BY <2>1, <3>1 DEF BeforeJoin
    <3> QED
      BY <1>5, <1>6, <1>8, <1>7, <2>1, <2>2, <3>1, <3>2, IdleFields DEF Control, Away, Waiting
  <2>3. CASE t # Main
    <3>1. stopping' = stopping /\ csvLock' = Free /\ stopping # "drained"
      BY <1>1, <2>1, <2>3
    <3> QED
      BY <1>5, <1>6, <2>1, <2>3, <3>1, IdleFields DEF Control, Away, Waiting
  <2> QED
    BY <2>2, <2>3
<1>11. LossTypes' /\ Loss'
  <2>1. Written' = Written /\ Written \in Nat
    BY <1>4, <1>8 DEF Written
  <2>2. stopping' \in {"running", "flagged", "ticker_joined"} =>
          stopping \in {"running", "flagged", "ticker_joined"}
    BY <1>1
  <2> QED
    BY <1>1, <1>2, <1>8, <1>9, <2>1, <2>2, LossKeep DEF lossVars
<1>12. Types'
  <2>1. DrainTypes' /\ EngineTypes' /\ MemoTypes' /\ CounterTypes'
    BY <1>1, <1>2, <1>3, <1>4, <1>5, <1>9
       DEF IInv, Types, DrainTypes, EngineTypes, MemoTypes, CounterTypes
  <2>2. SinkTypes' /\ FileTypes'
    BY <1>2 DEF IInv, Types, SinkTypes, FileTypes
  <2> QED
    BY <1>11, <2>1, <2>2 DEF Types
<1>13. InBatch'
  BY <1>8, TelemetryAssumption DEF InBatch
<1>14. Ids'
  <2>1. HandlingOne = 0 /\ HandlingOne' = 0 /\ Remembered' = Remembered
    BY <1>4, <1>8 DEF HandlingOne, Remembered
  <2>2. published' = totals'.events + Len(cur'.batch) + HandlingOne' + Len(evq')
    <3>1. published = totals.events + Len(cur.batch) + Len(evq) /\ Len(evq) \in Nat
      BY <1>4, <2>1 DEF IInv, Ids, Types, EngineTypes
    <3> QED
      BY <1>2, <1>4, <1>8, <2>1, <3>1
  <2>3. \A i \in 1..Len(cur'.batch) : cur'.batch[i].id = totals'.events + i
    BY <1>8
  <2> QED
    BY <1>2, <1>8, <2>1, <2>2, <2>3 DEF IInv, Ids
<1>15. Slots'
  <2>1. tail + held = StartOf(1)
    BY <1>8 DEF IInv, Slots
  <2>2. tail' = totals'.values + cur'.values
    BY <1>2, <1>4, <1>8 DEF IInv, Slots
  <2>3. \A i : StartOf(i)' = StartOf(i)
    BY <1>2 DEF StartOf
  <2>4. /\ \A i \in 1..Len(evq) : evq[i].start + evq[i].count = StartOf(i + 1)
        /\ \A i, j \in 1..Len(evq) : i < j => evq[i].start + evq[i].count <= evq[j].start
        /\ \A i \in 1..Len(evq) : tail <= evq[i].start /\ evq[i].start + evq[i].count <= head
        /\ tail <= head
    BY <1>8 DEF IInv, Slots
  <2>5. \A i \in 1..Len(evq') : evq'[i].start + evq'[i].count = StartOf(i + 1)'
    BY <1>2, <2>3, <2>4
  <2>6. tail' + held' = StartOf(1)'
    BY <1>2, <2>1, <2>3
  <2> QED
    BY <1>2, <1>8, <2>2, <2>4, <2>5, <2>6 DEF Slots
<1>16. Lines'
  <2>1. Written' = Written
    BY <1>4, <1>8 DEF Written
  <2> QED
    BY <1>2, <2>1 DEF IInv, Lines
<1>17. Cycles'
  BY <1>2, <1>8 DEF IInv, Cycles
<1>18. Rows'
  BY <1>2, <1>9 DEF IInv, Rows, OneRowPerCycle
<1> QED
  BY <1>10, <1>11, <1>12, <1>13, <1>14, <1>15, <1>16, <1>17, <1>18 DEF IInv
-----------------------------------------------------------------------------
(* CSV requests                                                            *)

\* The histories, the ring, the queue and the file do not notice a CSV request.
LEMMA CsvRequestForm ==
  ASSUME IInv, cur' = cur, sink'.pending.cycle \in {0, sink.pending.cycle},
         d' \in [Drainers -> Drain],
         drains' \in Nat, csvRequests' \in Nat, faults' \in Nat, faults' = 0 => faults = 0,
         (sink.enabled /\ stopping # "stopped" => sink.open /\ sink.good) =>
           (sink'.enabled /\ stopping # "stopped" => sink'.open /\ sink'.good),
         UNCHANGED <<engineVars, ringVars, streamVars, memoVars, lossVars, csvLock, stopping>>
  PROVE  /\ EngineTypes' /\ FileTypes' /\ DrainTypes' /\ MemoTypes' /\ CounterTypes' /\ LossTypes'
         /\ InBatch' /\ Ids' /\ Slots' /\ Lines' /\ Cycles' /\ Loss'
<1>1. /\ published' = published /\ cycle' = cycle /\ evq' = evq /\ head' = head /\ tail' = tail
      /\ stream' = stream /\ buffer' = buffer /\ file' = file
      /\ recent' = recent /\ measurement' = measurement /\ totals' = totals
      /\ held' = held /\ csvLock' = csvLock /\ stopping' = stopping
  BY DEF engineVars, ringVars, streamVars, memoVars, lossVars
<1>2. EngineTypes' /\ FileTypes' /\ DrainTypes' /\ MemoTypes' /\ CounterTypes'
  BY <1>1 DEF IInv, Types, EngineTypes, FileTypes, DrainTypes, MemoTypes, CounterTypes
<1>3. Retains
  BY DEF Retains
<1>4. cur \in Drain
  BY CurType DEF IInv, Types
<1>5. InBatch' /\ Slots'
  BY <1>1, <1>3, SlotsMove DEF IInv, InBatch
<1>6. Ids'
  BY <1>1 DEF IInv, Ids, HandlingOne, Remembered
<1>7. Lines'
  BY <1>1 DEF IInv, Lines, Written
<1>8. Cycles'
  <2>1. CASE sink'.pending.cycle = sink.pending.cycle
    BY <1>1, <2>1 DEF IInv, Cycles
  <2>2. CASE sink'.pending.cycle = 0
    <3>1. \A i \in 1..Len(evq) : 0 <= evq[i].cycle
      <4> SUFFICES ASSUME NEW i \in 1..Len(evq) PROVE 0 <= evq[i].cycle
        OBVIOUS
      <4>1. evq[i].cycle \in Nat
        BY QueueNumbers DEF IInv, Types
      <4> QED
        BY <4>1
    <3>2. 0 <= cycle /\ 0 <= cur.event.cycle
      BY <1>4, DrainNumbers DEF IInv, Types, EngineTypes
    <3> QED
      BY <1>1, <2>2, <3>1, <3>2 DEF IInv, Cycles
  <2> QED
    BY <2>1, <2>2
<1>9. LossTypes' /\ Loss'
  <2>1. Written' = Written /\ Written \in Nat
    BY <1>1, HandledNumbers DEF Written
  <2> QED
    BY <1>1, <2>1, LossKeep DEF lossVars
<1> QED
  BY <1>2, <1>5, <1>6, <1>7, <1>8, <1>9

\* A thread comes to csv_mutex_: the drain under way is not its own.
LEMMA ComesToWait ==
  ASSUME DrainTypes, Control, NEW t \in Drainers, d[t].pc = "idle", NEW r \in Drain,
         r.pc \in Waiting, r.batch = <<>>, Goto(t, r), UNCHANGED <<csvLock, stopping>>,
         \/ t \in Workers /\ stopping \in BeforeJoin
         \/ r.pc = "lock" /\ t = Ticker /\ stopping = "running"
         \/ r.pc = "lock" /\ t = Main /\ stopping = "server_joined"
  PROVE  d' \in [Drainers -> Drain] /\ Control' /\ cur' = cur
<1>1. /\ d' \in [Drainers -> Drain] /\ d'[t] = r
      /\ \A s \in Drainers : s # t => d'[s] = d[s]
  BY DEF Goto, DrainTypes
<1>2. Free \notin Drainers /\ Main \in Drainers /\ Ticker \in Drainers
      /\ Workers \subseteq Drainers /\ Ticker \notin Workers /\ Main \notin Workers
      /\ Main # Ticker
  BY TelemetryAssumption DEF Drainers
<1>3. csvLock # t
  BY <1>2 DEF Control, BeforeJoin
<1>4. cur' = cur
  BY <1>1, <1>3 DEF cur
<1>5. r.pc \in Away /\ r.pc # "idle" /\ (r.pc = "lock" => r.pc \notin {"configure", "disable"})
  BY DEF Away, Waiting
<1>6. Control'
  BY <1>1, <1>2, <1>3, <1>5 DEF Control
<1> QED
  BY <1>1, <1>4, <1>6

\* A thread that had waited goes back to its loop, or to the server.
LEMMA IsIdleAgain ==
  ASSUME DrainTypes, Control, NEW t \in Drainers, d[t].pc \in Waiting, Goto(t, IdleDrain),
         UNCHANGED <<csvLock, stopping>>
  PROVE  d' \in [Drainers -> Drain] /\ Control' /\ cur' = cur
<1>1. /\ d' \in [Drainers -> Drain] /\ d'[t] = IdleDrain
      /\ \A s \in Drainers : s # t => d'[s] = d[s]
  BY IdleIsDrain DEF Goto, DrainTypes
<1>2. csvLock # t
  BY DEF Control
<1>3. cur' = cur
  BY <1>1, <1>2 DEF cur
<1>4. IdleDrain.pc = "idle" /\ "idle" \in Away /\ "idle" \notin Waiting
  BY IdleFields DEF Away, Waiting
<1>5. Main \in Drainers /\ Ticker \in Drainers /\ Workers \subseteq Drainers
  BY DEF Drainers
<1>6. Control'
  BY <1>1, <1>2, <1>4, <1>5 DEF Control
<1> QED
  BY <1>1, <1>3, <1>6

\* The drain is not under way before its thread has csv_mutex_.
LEMMA BeginDrainStep ==
  ASSUME IInv, NEW t \in Drainers, BeginDrain(t)
  PROVE  IInv'
<1> DEFINE r == [IdleDrain EXCEPT !.pc = "lock"]
<1>1. /\ d[t].pc = "idle" /\ MayDrain(t) /\ Goto(t, r)
      /\ drains' = (IF t \in Workers THEN drains + 1 ELSE drains)
      /\ UNCHANGED <<csvVars, engineVars, ringVars, streamVars, memoVars, csvRequests, faults,
                     lossVars, csvLock, stopping>>
  BY DEF BeginDrain
<1>2. sink' = sink /\ csvRows' = csvRows
  BY <1>1 DEF csvVars
<1>3. r \in Drain /\ r.pc = "lock" /\ r.batch = <<>>
  BY IdleIsDrain, IdleFields DEF Drain, DrainPcs
<1> HIDE DEF r
<1>4. r.pc \in Waiting
  BY <1>3 DEF Waiting
<1>5. \/ t \in Workers /\ stopping \in BeforeJoin
      \/ t = Ticker /\ stopping = "running"
      \/ t = Main /\ stopping = "server_joined"
  BY <1>1 DEF MayDrain
<1>6. d' \in [Drainers -> Drain] /\ Control' /\ cur' = cur
  BY <1>1, <1>3, <1>4, <1>5, ComesToWait DEF IInv, Types
<1>7. drains' \in Nat /\ csvRequests' \in Nat /\ faults' \in Nat
  BY <1>1 DEF IInv, Types, CounterTypes
<1>8. /\ EngineTypes' /\ FileTypes' /\ DrainTypes' /\ MemoTypes' /\ CounterTypes' /\ LossTypes'
      /\ InBatch' /\ Ids' /\ Slots' /\ Lines' /\ Cycles' /\ Loss'
  BY <1>1, <1>2, <1>6, <1>7, CsvRequestForm
<1>9. SinkTypes' /\ Rows'
  BY <1>1, <1>2 DEF IInv, Types, SinkTypes, Rows, OneRowPerCycle
<1> QED
  BY <1>6, <1>8, <1>9 DEF IInv, Types

\* A CSV request is accepted: its thread waits for csv_mutex_, or it is idle
\* again as the file could not be opened.
LEMMA CsvRequestStep ==
  ASSUME IInv, NEW t \in Drainers, AcceptsCsv(t), NEW r \in Drain,
         r = IdleDrain \/ (r.pc \in Waiting /\ r.batch = <<>>), Goto(t, r),
         faults' \in Nat, faults' = 0 => faults = 0,
         UNCHANGED <<csvVars, engineVars, ringVars, streamVars, memoVars, drains, lossVars, csvLock,
                     stopping>>
  PROVE  IInv'
<1>1. /\ t \in Workers /\ d[t].pc = "idle" /\ stopping \in BeforeJoin
      /\ csvRequests' = csvRequests + 1 /\ sink' = sink /\ csvRows' = csvRows
      /\ csvLock' = csvLock /\ stopping' = stopping
  BY DEF AcceptsCsv, csvVars
<1>2. d' \in [Drainers -> Drain] /\ Control' /\ cur' = cur
  <2>1. CASE r = IdleDrain
    <3>1. d[t] = IdleDrain /\ d \in [Drainers -> Drain]
      BY <1>1 DEF IInv, Types, DrainTypes, Control
    <3>2. d' = d
      BY <2>1, <3>1 DEF Goto
    <3> QED
      BY <1>1, <3>1, <3>2, SameDrains DEF IInv
  <2>2. CASE r.pc \in Waiting /\ r.batch = <<>>
    BY <1>1, <2>2, ComesToWait DEF IInv, Types
  <2> QED
    BY <2>1, <2>2
<1>3. drains' \in Nat /\ csvRequests' \in Nat
  BY <1>1 DEF IInv, Types, CounterTypes
<1>4. /\ EngineTypes' /\ FileTypes' /\ DrainTypes' /\ MemoTypes' /\ CounterTypes' /\ LossTypes'
      /\ InBatch' /\ Ids' /\ Slots' /\ Lines' /\ Cycles' /\ Loss'
  BY <1>1, <1>2, <1>3, CsvRequestForm
<1>5. SinkTypes' /\ Rows'
  BY <1>1 DEF IInv, Types, SinkTypes, Rows, OneRowPerCycle
<1> QED
  BY <1>2, <1>4, <1>5 DEF IInv, Types

LEMMA OpenCsvFileStep ==
  ASSUME IInv, NEW t \in Drainers, NEW columns \in Sinks, OpenCsvFile(t, columns)
  PROVE  IInv'
<1> DEFINE r == [IdleDrain EXCEPT !.pc = "configure", !.columns = columns]
<1>1. PICK fault \in BOOLEAN : Fault(fault) /\ Goto(t, IF fault THEN IdleDrain ELSE r)
  BY DEF OpenCsvFile
<1>2. /\ AcceptsCsv(t)
      /\ UNCHANGED <<csvVars, engineVars, ringVars, streamVars, memoVars, drains, lossVars, csvLock,
                     stopping>>
  BY DEF OpenCsvFile
<1>3. faults' \in Nat /\ (faults' = 0 => faults = 0)
  BY <1>1, FaultStep DEF IInv, Types, CounterTypes
<1>4. r \in Drain /\ r.pc \in Waiting /\ r.batch = <<>>
  <2>1. columns \in SUBSET Columns
    BY TelemetryAssumption
  <2> QED
    BY <2>1, IdleIsDrain, IdleFields DEF Drain, DrainPcs, Waiting
<1> HIDE DEF r
<1>5. CASE fault
  <2>1. Goto(t, IdleDrain)
    BY <1>1, <1>5
  <2> QED
    BY <1>2, <1>3, <2>1, IdleIsDrain, CsvRequestStep
<1>6. CASE ~fault
  <2>1. Goto(t, r)
    BY <1>1, <1>6
  <2> QED
    BY <1>2, <1>3, <1>4, <2>1, CsvRequestStep
<1> QED
  BY <1>5, <1>6

LEMMA DisableCsvStep ==
  ASSUME IInv, NEW t \in Drainers, DisableCsv(t)
  PROVE  IInv'
<1> DEFINE r == [IdleDrain EXCEPT !.pc = "disable"]
<1>1. /\ AcceptsCsv(t) /\ Goto(t, r) /\ faults' = faults
      /\ UNCHANGED <<csvVars, engineVars, ringVars, streamVars, memoVars, drains, lossVars, csvLock,
                     stopping>>
  BY DEF DisableCsv
<1>2. r \in Drain /\ r.pc \in Waiting /\ r.batch = <<>>
  BY IdleIsDrain, IdleFields DEF Drain, DrainPcs, Waiting
<1>3. faults \in Nat
  BY DEF IInv, Types, CounterTypes
<1> HIDE DEF r
<1> QED
  BY <1>1, <1>2, <1>3, CsvRequestStep

LEMMA ConfigureCsvStep ==
  ASSUME IInv, NEW t \in Drainers, ConfigureCsv(t)
  PROVE  IInv'
<1>1. /\ d[t].pc = "configure" /\ sink' = OpenedSink(d[t].columns)
      /\ csvRows' = <<>> /\ Goto(t, IdleDrain)
      /\ UNCHANGED <<engineVars, ringVars, streamVars, memoVars, boundVars, lossVars, csvLock,
                     stopping>>
  BY DEF ConfigureCsv, ReplaceSink
<1>2. /\ csvLock' = csvLock /\ stopping' = stopping /\ drains' = drains
      /\ csvRequests' = csvRequests /\ faults' = faults
  BY <1>1 DEF boundVars
<1>3. d[t].pc \in Waiting
  BY <1>1 DEF Waiting
<1>4. d' \in [Drainers -> Drain] /\ Control' /\ cur' = cur
  BY <1>1, <1>3, IsIdleAgain DEF IInv, Types
<1>5. drains' \in Nat /\ csvRequests' \in Nat /\ faults' \in Nat
  BY <1>2 DEF IInv, Types, CounterTypes
<1>6. /\ sink'.enabled /\ sink'.open /\ sink'.good /\ sink'.pending = NoRow
      /\ sink'.pending.cycle = 0
      /\ sink' \in [enabled : BOOLEAN, columns : SUBSET Columns, open : BOOLEAN, good : BOOLEAN,
                    pending : Row1 \cup {NoRow}]
  <2>1. d[t].columns \in SUBSET Columns
    BY DEF IInv, Types, DrainTypes, Drain
  <2> QED
    BY <1>1, <2>1 DEF OpenedSink, NoRow
<1>7. /\ EngineTypes' /\ FileTypes' /\ DrainTypes' /\ MemoTypes' /\ CounterTypes' /\ LossTypes'
      /\ InBatch' /\ Ids' /\ Slots' /\ Lines' /\ Cycles' /\ Loss'
  BY <1>1, <1>2, <1>4, <1>5, <1>6, CsvRequestForm
<1>8. SinkTypes' /\ Rows'
  BY <1>1, <1>6 DEF SinkTypes, Rows, OneRowPerCycle
<1> QED
  BY <1>4, <1>7, <1>8 DEF IInv, Types

\* The pending row goes to the file, or not; then none is pending.
LEMMA LastRow ==
  ASSUME SinkTypes, Rows, sink'.pending = NoRow,
         csvRows' \in {csvRows, Append(csvRows, sink.pending)},
         csvRows' # csvRows => sink.pending # NoRow
  PROVE  csvRows' \in Seq(Row1) /\ OneRowPerCycle'
<1>1. sink.pending \in Row1 \cup {NoRow} /\ csvRows \in Seq(Row1) /\ Len(csvRows) \in Nat
  BY DEF SinkTypes
<1>2. CASE csvRows' = csvRows
  BY <1>1, <1>2 DEF Rows, OneRowPerCycle
<1>3. CASE csvRows' = Append(csvRows, sink.pending) /\ sink.pending # NoRow
  <2>1. /\ csvRows' \in Seq(Row1)
        /\ Len(csvRows') = Len(csvRows) + 1 /\ csvRows'[Len(csvRows) + 1] = sink.pending
        /\ \A i \in 1..Len(csvRows) : csvRows'[i] = csvRows[i]
    BY <1>1, <1>3, AppendFacts
  <2>2. \A i, j \in 1..Len(csvRows') : i < j => csvRows'[i].cycle < csvRows'[j].cycle
    <3> SUFFICES ASSUME NEW i \in 1..Len(csvRows'), NEW j \in 1..Len(csvRows'), i < j
                 PROVE  csvRows'[i].cycle < csvRows'[j].cycle
      OBVIOUS
    <3>1. i \in 1..Len(csvRows)
      BY <1>1, <2>1
    <3>2. CASE j \in 1..Len(csvRows)
      BY <2>1, <3>1, <3>2 DEF Rows, OneRowPerCycle
    <3>3. CASE j = Len(csvRows) + 1
      BY <1>3, <2>1, <3>1, <3>3 DEF Rows, OneRowPerCycle
    <3> QED
      BY <1>1, <2>1, <3>2, <3>3
  <2> QED
    BY <2>1, <2>2 DEF OneRowPerCycle
<1> QED
  BY <1>2, <1>3

LEMMA StopCsvStep ==
  ASSUME IInv, NEW t \in Drainers, StopCsv(t)
  PROVE  IInv'
<1>1. /\ d[t].pc = "disable" /\ sink' = NoSink /\ Goto(t, IdleDrain)
      /\ UNCHANGED <<engineVars, ringVars, streamVars, memoVars, drains, csvRequests, lossVars,
                     csvLock, stopping>>
  BY DEF StopCsv
<1>2. PICK fault \in BOOLEAN :
        /\ Fault(fault)
        /\ csvRows' = IF sink.pending # NoRow /\ CanWriteRow(fault)
                      THEN Append(csvRows, sink.pending) ELSE csvRows
  BY DEF StopCsv
<1>3. d[t].pc \in Waiting
  BY <1>1 DEF Waiting
<1>4. d' \in [Drainers -> Drain] /\ Control' /\ cur' = cur
  BY <1>1, <1>3, IsIdleAgain DEF IInv, Types
<1>5. /\ ~sink'.enabled /\ sink'.pending = NoRow /\ sink'.pending.cycle = 0
      /\ sink' \in [enabled : BOOLEAN, columns : SUBSET Columns, open : BOOLEAN, good : BOOLEAN,
                    pending : Row1 \cup {NoRow}]
  BY <1>1 DEF NoSink, NoRow
<1>6. drains' \in Nat /\ csvRequests' \in Nat /\ faults' \in Nat /\ (faults' = 0 => faults = 0)
  BY <1>1, <1>2, FaultStep DEF IInv, Types, CounterTypes
<1>7. /\ EngineTypes' /\ FileTypes' /\ DrainTypes' /\ MemoTypes' /\ CounterTypes' /\ LossTypes'
      /\ InBatch' /\ Ids' /\ Slots' /\ Lines' /\ Cycles' /\ Loss'
  BY <1>1, <1>4, <1>5, <1>6, CsvRequestForm
<1>8. csvRows' \in Seq(Row1) /\ OneRowPerCycle'
  BY <1>2, <1>5, LastRow DEF IInv, Types
<1>9. SinkTypes' /\ Rows'
  BY <1>5, <1>8 DEF SinkTypes, Rows
<1> QED
  BY <1>4, <1>7, <1>9 DEF IInv, Types
-----------------------------------------------------------------------------
(* stop()                                                                  *)

\* The threads are where stop() expects them when it goes on.
LEMMA StopControl ==
  ASSUME IInv, UNCHANGED <<csvLock, d>>,
         \/ Advance("running", "flagged")
         \/ Advance("flagged", "ticker_joined") /\ d[Ticker].pc = "idle"
         \/ Advance("ticker_joined", "stream_closed")
         \/ Advance("stream_closed", "server_joined") /\ \A t \in Workers : d[t].pc = "idle"
  PROVE  /\ Control' /\ cur' = cur /\ stopping' \in StopPoints \ {"running", "stopped"}
         /\ stopping # "stopped"
<1>1. cur' = cur
  BY DEF cur
<1>2. stopping' \in StopPoints \ {"running", "stopped", "drained"} /\ stopping \notin {"stopped", "drained"}
  BY DEF Advance, StopPoints
<1>3. Control'
  BY <1>2 DEF IInv, Control, Advance, BeforeJoin
<1> QED
  BY <1>1, <1>2, <1>3

\* A step of stop() that only goes on.
LEMMA AdvanceStep ==
  ASSUME IInv, Control', cur' = cur, stopping' \in StopPoints \ {"running", "stopped"},
         stopping # "stopped",
         UNCHANGED <<csvVars, engineVars, ringVars, streamVars, memoVars, boundVars, lossVars,
                     csvLock, d>>,
         stopping' \in {"running", "flagged", "ticker_joined"} =>
           stopping \in {"running", "flagged", "ticker_joined"}
  PROVE  IInv'
<1>1. /\ published' = published /\ cycle' = cycle /\ evq' = evq /\ head' = head /\ tail' = tail
      /\ stream' = stream /\ buffer' = buffer /\ file' = file
      /\ recent' = recent /\ measurement' = measurement /\ totals' = totals
      /\ drains' = drains /\ faults' = faults /\ csvRequests' = csvRequests
      /\ csvLock' = csvLock /\ d' = d /\ sink' = sink /\ csvRows' = csvRows /\ held' = held
  BY DEF csvVars, engineVars, ringVars, streamVars, memoVars, boundVars, lossVars
<1>2. LossTypes' /\ Loss'
  <2>1. Written' = Written /\ Written \in Nat
    BY <1>1, HandledNumbers DEF Written
  <2> QED
    BY <1>1, <2>1, LossKeep DEF lossVars
<1>3. Types'
  BY <1>1, <1>2 DEF IInv, Types, SinkTypes, EngineTypes, FileTypes, DrainTypes, MemoTypes, CounterTypes
<1>4. InBatch' /\ Lines' /\ Cycles'
  BY <1>1 DEF IInv, InBatch, Lines, Written, Cycles
<1>5. Ids'
  BY <1>1 DEF IInv, Ids, HandlingOne, Remembered
<1>6. Slots'
  BY <1>1 DEF IInv, Slots, StartOf
<1>7. Rows'
  BY <1>1 DEF IInv, Rows, OneRowPerCycle
<1> QED
  BY <1>2, <1>3, <1>4, <1>5, <1>6, <1>7 DEF IInv

LEMMA CloseStreamStep ==
  ASSUME IInv, CloseStream
  PROVE  IInv'
<1>1. /\ Advance("ticker_joined", "stream_closed")
      /\ UNCHANGED <<csvVars, engineVars, ringVars, memoVars, drains, csvRequests, lost, held,
                     csvLock, d>>
  BY DEF CloseStream
<1>2. /\ published' = published /\ cycle' = cycle /\ evq' = evq /\ head' = head /\ tail' = tail
      /\ recent' = recent /\ measurement' = measurement /\ totals' = totals
      /\ drains' = drains /\ csvRequests' = csvRequests
      /\ csvLock' = csvLock /\ d' = d /\ sink' = sink /\ csvRows' = csvRows
      /\ lost' = lost /\ held' = held
  BY <1>1 DEF csvVars, engineVars, ringVars, memoVars
<1>3. /\ Control' /\ cur' = cur /\ stopping' \in StopPoints \ {"running", "stopped"}
      /\ stopping # "stopped"
  BY <1>1, <1>2, StopControl
<1>4. faults \in Nat /\ stream \in [open : BOOLEAN, good : BOOLEAN] /\ cur \in Drain
  BY CurType DEF IInv, Types, CounterTypes, FileTypes
<1>5. Written \in Nat /\ Written' = Written
  <2>1. totals.events \in Nat /\ Len(cur.batch) \in Nat
    BY <1>4, TotalsNumbers, DrainNumbers DEF IInv, Types
  <2> QED
    BY <1>2, <1>3, <2>1 DEF Written
<1>6. /\ \A x \in Handled \cup before : x \in Nat /\ x <= Written
      /\ before = {} /\ lost \subseteq Handled /\ LossTypes
  <2>1. before = {}
    BY <1>1 DEF IInv, Loss, Advance
  <2> QED
    BY <2>1, HandledNumbers DEF Handled, IInv, Types
<1>7. FileTypes' /\ Lines' /\ faults' \in Nat /\ LossTypes' /\ Loss'
  <2>1. CASE /\ stream.open
             /\ \E fault \in BOOLEAN :
                  /\ Fault(fault)
                  /\ FlushBuffer(fault)
                  /\ stream' = [open |-> FALSE, good |-> stream.good /\ ~fault]
             /\ before' = Handled
    <3>1. PICK fault \in BOOLEAN :
            /\ Fault(fault) /\ FlushBuffer(fault)
            /\ stream' = [open |-> FALSE, good |-> stream.good /\ ~fault]
      BY <2>1
    <3>2. Lines' /\ buffer' \in Seq(Nat) /\ file' \in Seq(Nat)
      BY <1>5, <3>1, FlushLines DEF IInv, Types
    <3>3. faults' \in Nat /\ stream' \in [open : BOOLEAN, good : BOOLEAN]
          /\ (faults' = 0 => faults = 0 /\ ~fault)
      BY <1>4, <3>1, FaultStep
    <3>4. LossTypes'
      BY <1>2, <1>6, <2>1 DEF LossTypes
    <3>5. ASSUME faults' = 0 PROVE Healthy'
      <4>1. Healthy /\ ~fault
        BY <3>3, <3>5 DEF IInv, Loss
      <4>2. Handled' = Handled
        BY <1>2, <3>1, <4>1, FlushHandled DEF IInv, Types
      <4>3. \A e \in lost, other \in Handled : ~(other < e)
        BY <1>6, <4>1 DEF Healthy
      <4>4. stream.good /\ stream'.good /\ ~stream'.open
        BY <2>1, <3>1, <4>1 DEF Healthy
      <4>5. sink'.enabled /\ stopping' # "stopped" => sink'.open /\ sink'.good
        BY <1>2, <1>3, <4>1 DEF Healthy
      <4> QED
        BY <1>2, <2>1, <4>2, <4>3, <4>4, <4>5 DEF Healthy
    <3>6. Loss'
      <4>1. stopping' = "stream_closed"
        BY <1>1 DEF Advance
      <4> QED
        BY <1>2, <1>5, <1>6, <2>1, <3>5, <4>1 DEF Loss
    <3> QED
      BY <3>2, <3>3, <3>4, <3>6 DEF FileTypes
  <2>2. CASE UNCHANGED <<streamVars, faults, before>>
    <3>1. stream' = stream /\ buffer' = buffer /\ file' = file /\ faults' = faults
          /\ UNCHANGED lossVars
      BY <1>2, <2>2 DEF streamVars, lossVars
    <3>2. LossTypes' /\ Loss'
      BY <1>1, <1>2, <1>3, <1>5, <3>1, LossKeep DEF Advance, lossVars
    <3> QED
      BY <1>4, <1>5, <3>1, <3>2 DEF IInv, Types, FileTypes, Lines
  <2> QED
    BY <2>1, <2>2 DEF CloseStream
<1>8. Types'
  BY <1>2, <1>3, <1>7
     DEF IInv, Types, SinkTypes, EngineTypes, DrainTypes, MemoTypes, CounterTypes
<1>9. InBatch' /\ Cycles'
  BY <1>2, <1>3 DEF IInv, InBatch, Cycles
<1>10. Ids'
  BY <1>2, <1>3 DEF IInv, Ids, HandlingOne, Remembered
<1>11. Slots'
  BY <1>2, <1>3 DEF IInv, Slots, StartOf
<1>12. Rows'
  BY <1>2, <1>3 DEF IInv, Rows, OneRowPerCycle
<1> QED
  BY <1>3, <1>7, <1>8, <1>9, <1>10, <1>11, <1>12 DEF IInv

LEMMA FinishStopStep ==
  ASSUME IInv, FinishStop
  PROVE  IInv'
<1>1. /\ stopping = "drained" /\ stopping' = "stopped" /\ csvLock' = Free
      /\ UNCHANGED <<engineVars, ringVars, streamVars, memoVars, drains, csvRequests, lossVars, d>>
  BY DEF FinishStop, Advance
<1>2. /\ published' = published /\ cycle' = cycle /\ evq' = evq /\ head' = head /\ tail' = tail
      /\ stream' = stream /\ buffer' = buffer /\ file' = file
      /\ recent' = recent /\ measurement' = measurement /\ totals' = totals
      /\ drains' = drains /\ csvRequests' = csvRequests /\ d' = d /\ held' = held
  BY <1>1 DEF engineVars, ringVars, streamVars, memoVars, lossVars
<1>3. Free \notin Drainers /\ Main \in Drainers /\ Ticker \in Drainers /\ Workers \subseteq Drainers
  BY TelemetryAssumption DEF Drainers
<1>4. csvLock = Main /\ d[Main] = IdleDrain
  BY <1>1, <1>3 DEF IInv, Control
<1>5. cur = IdleDrain /\ cur' = IdleDrain
  BY <1>1, <1>3, <1>4 DEF cur
<1>6. Control'
  BY <1>1, <1>2, <1>3, <1>4, IdleFields DEF IInv, Control, Away, Waiting, BeforeJoin
<1>7. PICK fault \in BOOLEAN : Fault(fault) /\ FlushCsvSink(fault)
  BY DEF FinishStop
<1>8. faults' \in Nat /\ (faults' = 0 => faults = 0)
  BY <1>7, FaultStep DEF IInv, Types, CounterTypes
<1>9. SinkTypes' /\ Rows' /\ sink'.pending.cycle \in {0, sink.pending.cycle}
  <2>1. CASE ~sink.enabled /\ UNCHANGED csvVars
    <3>1. sink' = sink /\ csvRows' = csvRows
      BY <2>1 DEF csvVars
    <3> QED
      BY <2>1, <3>1 DEF IInv, Types, SinkTypes, Rows, OneRowPerCycle
  <2>2. CASE /\ sink.enabled
             /\ sink' = ClosedSink
             /\ csvRows' = IF sink.pending # NoRow /\ CanWriteRow(fault)
                           THEN Append(csvRows, sink.pending) ELSE csvRows
    <3>1. sink \in [enabled : BOOLEAN, columns : SUBSET Columns, open : BOOLEAN, good : BOOLEAN,
                    pending : Row1 \cup {NoRow}]
      BY DEF IInv, Types, SinkTypes
    <3>2. sink'.pending = NoRow /\ sink'.enabled = sink.enabled
          /\ sink' \in [enabled : BOOLEAN, columns : SUBSET Columns, open : BOOLEAN, good : BOOLEAN,
                        pending : Row1 \cup {NoRow}]
      BY <2>2, <3>1 DEF ClosedSink
    <3>3. csvRows' \in Seq(Row1) /\ OneRowPerCycle'
      BY <2>2, <3>2, LastRow DEF IInv, Types
    <3>4. NoRow.cycle = 0
      BY DEF NoRow
    <3> QED
      BY <1>1, <2>2, <3>2, <3>3, <3>4 DEF SinkTypes, Rows
  <2> QED
    BY <1>7, <2>1, <2>2 DEF FlushCsvSink
<1>10. LossTypes' /\ Loss'
  <2>1. Written' = Written /\ Written \in Nat
    BY <1>2, <1>5, HandledNumbers DEF Written
  <2> QED
    BY <1>1, <1>2, <1>5, <1>8, <2>1, LossKeep DEF lossVars
<1>11. Types'
  BY <1>1, <1>2, <1>8, <1>9, <1>10
     DEF IInv, Types, FileTypes, EngineTypes, DrainTypes, MemoTypes, CounterTypes, StopPoints
<1>12. InBatch' /\ Lines'
  BY <1>2, <1>5 DEF IInv, InBatch, Lines, Written
<1>13. Ids'
  BY <1>2, <1>5 DEF IInv, Ids, HandlingOne, Remembered
<1>14. Slots'
  BY <1>2, <1>5 DEF IInv, Slots, StartOf
<1>15. Cycles'
  <2>1. cur.pc \notin Handling
    BY <1>5, IdleFields DEF Handling
  <2>2. \A i \in 1..Len(evq) : 0 <= evq[i].cycle
    <3> SUFFICES ASSUME NEW i \in 1..Len(evq) PROVE 0 <= evq[i].cycle
      OBVIOUS
    <3>1. evq[i].cycle \in Nat
      BY QueueNumbers DEF IInv, Types
    <3> QED
      BY <3>1
  <2>3. 0 <= cycle
    BY DEF IInv, Types, EngineTypes
  <2> QED
    BY <1>2, <1>5, <1>9, <2>1, <2>2, <2>3 DEF IInv, Cycles
<1> QED
  BY <1>6, <1>9, <1>10, <1>11, <1>12, <1>13, <1>14, <1>15 DEF IInv
-----------------------------------------------------------------------------
(* The inductive invariant                                                 *)

LEMMA InitIInv == Init => IInv
<1> SUFFICES ASSUME Init PROVE IInv
  OBVIOUS
<1>1. /\ sink = NoSink /\ csvRows = <<>> /\ evq = <<>> /\ head = 0 /\ tail = 0
      /\ cycle = 1 /\ published = 0 /\ buffer = <<>> /\ file = <<>> /\ csvLock = Free
      /\ d = [t \in Drainers |-> IdleDrain] /\ recent = <<>> /\ measurement = 0
      /\ totals = [events |-> 0, values |-> 0, failed |-> 0]
      /\ stopping = "running" /\ drains = 0 /\ csvRequests = 0 /\ faults = 0
      /\ lost = {} /\ held = 0 /\ before = {} /\ stream = [open |-> FALSE, good |-> TRUE]
  BY DEF Init, CsvInit
<1>2. stream \in [open : BOOLEAN, good : BOOLEAN] /\ stream.good /\ ~stream.open
  BY <1>1
<1>3. cur = IdleDrain
  BY <1>1, CurFree
<1>4. EventCap \in Nat /\ RecentCap \in Nat /\ Budget \in Nat /\ Free \notin Drainers
      /\ Main \in Drainers /\ Ticker \in Drainers /\ Workers \subseteq Drainers
  BY TelemetryAssumption DEF Drainers
<1>5. /\ ~sink.enabled /\ sink.pending = NoRow /\ NoRow.cycle = 0
      /\ sink \in [enabled : BOOLEAN, columns : SUBSET Columns, open : BOOLEAN, good : BOOLEAN,
                   pending : Row1 \cup {NoRow}]
  BY <1>1 DEF NoSink, NoRow
<1>6. Types
  <2>1. SinkTypes /\ FileTypes /\ MemoTypes /\ CounterTypes /\ LossTypes
    BY <1>1, <1>2, <1>4, <1>5
       DEF SinkTypes, FileTypes, MemoTypes, CounterTypes, LossTypes, StopPoints
  <2>2. EngineTypes
    BY <1>1, <1>4 DEF EngineTypes
  <2>3. DrainTypes
    BY <1>1, IdleIsDrain DEF DrainTypes
  <2> QED
    BY <2>1, <2>2, <2>3 DEF Types
<1>7. /\ cur.pc = "idle" /\ cur.pc \notin Handling /\ Len(cur.batch) = 0 /\ cur.values = 0
      /\ cur.failed = 0
  BY <1>3, IdleFields DEF Handling
<1>8. Control
  BY <1>1, <1>4, IdleFields DEF Control, Away, Waiting
<1>9. InBatch
  BY <1>4, <1>7 DEF InBatch
<1>10. Len(evq) = 0 /\ Len(recent) = 0 /\ Len(file) = 0 /\ Len(buffer) = 0 /\ Len(csvRows) = 0
  BY <1>1
<1>11. totals.events = 0 /\ totals.values = 0 /\ totals.failed = 0
  BY <1>1
<1>12. Ids
  <2>1. HandlingOne = 0 /\ Remembered = 0
    BY <1>7, <1>11 DEF HandlingOne, Remembered
  <2> QED
    BY <1>1, <1>7, <1>10, <1>11, <2>1 DEF Ids
<1>13. Slots
  <2>1. StartOf(1) = 0
    BY <1>1, <1>10 DEF StartOf
  <2> QED
    BY <1>1, <1>7, <1>10, <1>11, <2>1 DEF Slots
<1>14. Lines /\ Cycles
  BY <1>1, <1>5, <1>7, <1>10 DEF Lines, Cycles
<1>15. Loss
  <2>1. Handled = {}
    <3>1. Range(<<>>) = {}
      BY DEF Range
    <3> QED
      BY <1>1, <3>1 DEF Handled
  <2> QED
    BY <1>1, <1>2, <1>5, <1>7, <2>1 DEF Loss, Healthy
<1>16. Rows
  BY <1>1, <1>5, <1>10 DEF Rows, OneRowPerCycle
<1> QED
  BY <1>6, <1>8, <1>9, <1>12, <1>13, <1>14, <1>15, <1>16 DEF IInv

LEMMA StutterStep ==
  ASSUME IInv, UNCHANGED vars
  PROVE  IInv'
<1>1. /\ csvVars' = csvVars /\ engineVars' = engineVars /\ ringVars' = ringVars
      /\ streamVars' = streamVars /\ memoVars' = memoVars /\ boundVars' = boundVars
      /\ lossVars' = lossVars /\ csvLock' = csvLock /\ d' = d /\ stopping' = stopping
  BY DEF vars
<1>2. /\ published' = published /\ cycle' = cycle /\ evq' = evq /\ head' = head /\ tail' = tail
      /\ stream' = stream /\ buffer' = buffer /\ file' = file
      /\ recent' = recent /\ measurement' = measurement /\ totals' = totals
      /\ drains' = drains /\ faults' = faults /\ csvRequests' = csvRequests
      /\ sink' = sink /\ csvRows' = csvRows /\ held' = held
  BY <1>1 DEF csvVars, engineVars, ringVars, streamVars, memoVars, boundVars, lossVars
<1>3. Control' /\ cur' = cur
  BY <1>1, SameDrains DEF IInv
<1>4. LossTypes' /\ Loss'
  <2>1. Written' = Written /\ Written \in Nat
    BY <1>2, <1>3, HandledNumbers DEF Written
  <2> QED
    BY <1>1, <1>2, <1>3, <2>1, LossKeep DEF lossVars
<1>5. Types'
  BY <1>1, <1>2, <1>4
     DEF IInv, Types, SinkTypes, EngineTypes, FileTypes, DrainTypes, MemoTypes, CounterTypes
<1>6. InBatch' /\ Lines' /\ Cycles'
  BY <1>2, <1>3 DEF IInv, InBatch, Lines, Written, Cycles
<1>7. Ids'
  BY <1>2, <1>3 DEF IInv, Ids, HandlingOne, Remembered
<1>8. Slots'
  BY <1>2, <1>3 DEF IInv, Slots, StartOf
<1>9. Rows'
  BY <1>1, <1>2, <1>3 DEF IInv, Rows, OneRowPerCycle
<1> QED
  BY <1>3, <1>4, <1>5, <1>6, <1>7, <1>8, <1>9 DEF IInv

LEMMA NextIInv == IInv /\ [Next]_vars => IInv'
<1> SUFFICES ASSUME IInv, [Next]_vars PROVE IInv'
  OBVIOUS
<1>1. ASSUME NEW kind \in EventKinds, NEW count \in Counts \cup {0}, NEW next \in {0, 1},
             Publish(kind, count, next)
      PROVE  IInv'
  BY <1>1, PublishStep
<1>2. ASSUME NEW t \in Drainers, BeginDrain(t) PROVE IInv'
  BY <1>2, BeginDrainStep
<1>3. ASSUME NEW t \in Drainers, Step(t) PROVE IInv'
  <2>1. CASE PopEvent(t)
    BY <2>1, PopEventStep
  <2>2. CASE OpenValues(t)
    BY <2>2, OpenValuesStep
  <2>3. CASE WriteValues(t)
    BY <2>3, WriteValuesStep
  <2>4. CASE CsvAndRelease(t)
    BY <2>4, CsvAndReleaseStep
  <2>5. CASE DrainMeasurement(t)
    BY <2>5, DrainMeasurementStep
  <2>6. CASE DrainOther(t)
    BY <2>6, DrainOtherStep
  <2>7. CASE FlushBatch(t)
    BY <2>7, FlushBatchStep
  <2>8. CASE RememberEvents(t)
    BY <2>8, RememberEventsStep
  <2>9. CASE EndDrain(t)
    BY <2>9, EndDrainStep
  <2> QED
    BY <1>3, <2>1, <2>2, <2>3, <2>4, <2>5, <2>6, <2>7, <2>8, <2>9 DEF Step
<1>4. ASSUME NEW t \in Drainers, LockStep(t) \/ DisableCsv(t) PROVE IInv'
  <2>1. CASE TakeLock(t)
    BY <2>1, TakeLockStep
  <2>2. CASE ConfigureCsv(t)
    BY <2>2, ConfigureCsvStep
  <2>3. CASE StopCsv(t)
    BY <2>3, StopCsvStep
  <2>4. CASE DisableCsv(t)
    BY <2>4, DisableCsvStep
  <2> QED
    BY <1>4, <2>1, <2>2, <2>3, <2>4 DEF LockStep
<1>5. ASSUME NEW t \in Drainers, NEW columns \in Sinks, OpenCsvFile(t, columns) PROVE IInv'
  BY <1>5, OpenCsvFileStep
<1>6. CASE BeginStop
  <2>1. /\ Advance("running", "flagged")
        /\ UNCHANGED <<csvVars, engineVars, ringVars, streamVars, memoVars, boundVars, lossVars,
                       csvLock, d>>
    BY <1>6 DEF BeginStop
  <2> QED
    BY <2>1, StopControl, AdvanceStep DEF Advance
<1>7. CASE JoinTicker
  <2>1. /\ Advance("flagged", "ticker_joined") /\ d[Ticker].pc = "idle"
        /\ UNCHANGED <<csvVars, engineVars, ringVars, streamVars, memoVars, boundVars, lossVars,
                       csvLock, d>>
    BY <1>7 DEF JoinTicker
  <2> QED
    BY <2>1, StopControl, AdvanceStep DEF Advance
<1>8. CASE JoinServer
  <2>1. /\ Advance("stream_closed", "server_joined") /\ \A t \in Workers : d[t].pc = "idle"
        /\ UNCHANGED <<csvVars, engineVars, ringVars, streamVars, memoVars, boundVars, lossVars,
                       csvLock, d>>
    BY <1>8 DEF JoinServer
  <2> QED
    BY <2>1, StopControl, AdvanceStep DEF Advance
<1>9. CASE CloseStream
  BY <1>9, CloseStreamStep
<1>10. CASE FinishStop
  BY <1>10, FinishStopStep
<1>11. CASE UNCHANGED vars
  BY <1>11, StutterStep
<1> QED
  BY <1>1, <1>2, <1>3, <1>4, <1>5, <1>6, <1>7, <1>8, <1>9, <1>10, <1>11
     DEF Next, StopStep, Stopped

LEMMA SpecIInv == Spec => []IInv
BY InitIInv, NextIInv, PTL DEF Spec
-----------------------------------------------------------------------------
(* The properties                                                          *)

\* Every variable keeps its type, and the queue, the batch and the history keep
\* their bounds (drain_telemetry, remember_events).
THEOREM TypeCorrect == Spec => []TypeOK
<1>1. IInv => TypeOK
  <2> SUFFICES ASSUME IInv PROVE TypeOK
    OBVIOUS
  <2>1. SinkTypeOK
    <3>1. /\ sink \in [enabled : BOOLEAN, columns : SUBSET Columns, open : BOOLEAN, good : BOOLEAN,
                       pending : Row1 \cup {NoRow}]
          /\ csvRows \in Seq(Row1)
      BY DEF IInv, Types, SinkTypes
    <3>2. sink.pending.cycle \in Nat /\ sink.pending.cells \subseteq Columns
      <4>1. sink.pending \in Row1 \cup {NoRow}
        BY <3>1
      <4> QED
        BY <4>1 DEF Row1, NoRow
    <3>3. \A i \in 1..Len(csvRows) : csvRows[i].cycle \in Nat \ {0} /\ csvRows[i].cells # {}
      <4> SUFFICES ASSUME NEW i \in 1..Len(csvRows)
                   PROVE  csvRows[i].cycle \in Nat \ {0} /\ csvRows[i].cells # {}
        OBVIOUS
      <4>1. csvRows[i] \in Row1
        BY <3>1
      <4> QED
        BY <4>1 DEF Row1
    <3>4. DOMAIN sink = {"enabled", "columns", "open", "good", "pending"}
      BY <3>1
    <3> QED
      BY <3>1, <3>2, <3>3, <3>4 DEF SinkTypeOK
  <2>2. evq \in Seq(Event) /\ Len(evq) <= EventCap
    <3>1. evq \in Seq(Published) /\ Len(evq) <= EventCap
      BY DEF IInv, Types, EngineTypes
    <3>2. Published \subseteq Event
      BY DEF Published
    <3> QED
      BY <3>1, <3>2
  <2>3. DOMAIN d = Drainers /\ \A t \in Drainers : IsDrain(d[t])
    <3>1. d \in [Drainers -> Drain]
      BY DEF IInv, Types, DrainTypes
    <3>2. ASSUME NEW t \in Drainers PROVE IsDrain(d[t])
      <4>1. d[t] \in Drain
        BY <3>1
      <4>2. Len(d[t].batch) <= Budget
        <5>1. CASE csvLock = t
          <6>1. cur = d[t]
            BY <5>1 DEF cur
          <6> QED
            BY <6>1 DEF IInv, InBatch
        <5>2. CASE csvLock # t
          <6>1. d[t].batch = <<>>
            BY <5>2, IdleFields DEF IInv, Control, Away, Waiting
          <6> QED
            BY <6>1, TelemetryAssumption
        <5> QED
          BY <5>1, <5>2
      <4> QED
        BY <4>1, <4>2 DEF IsDrain, Drain
    <3> QED
      BY <3>1, <3>2
  <2>4. /\ head \in Nat /\ tail \in Nat /\ cycle \in Nat \ {0} /\ published \in Nat
        /\ stream \in [open : BOOLEAN, good : BOOLEAN] /\ buffer \in Seq(Nat) /\ file \in Seq(Nat)
        /\ csvLock \in Drainers \cup {Free}
        /\ recent \in Seq(Nat) /\ Len(recent) <= RecentCap /\ measurement \in Nat
        /\ totals \in [events : Nat, values : Nat, failed : Nat]
        /\ stopping \in StopPoints /\ drains \in Nat /\ csvRequests \in Nat /\ faults \in Nat
        /\ lost \subseteq Nat /\ held \in Nat /\ before \subseteq Nat
    BY DEF IInv, Types, EngineTypes, FileTypes, DrainTypes, MemoTypes, CounterTypes, LossTypes
  <2> QED
    BY <2>1, <2>2, <2>3, <2>4 DEF TypeOK
<1> QED
  BY <1>1, SpecIInv, PTL

\* The samples of every event that is queued or in hand are still in the ring,
\* whichever threads drain (rtsyn_spsc_telemetry_values_release in
\* drain_telemetry).
THEOREM SamplesReadable == Spec => []QueuedReadable
<1>1. IInv => QueuedReadable
  <2> SUFFICES ASSUME IInv PROVE QueuedReadable
    OBVIOUS
  <2>1. \A i \in 1..Len(evq) : Readable(evq[i])
    BY HandReadable DEF IInv, Types
  <2>2. ASSUME NEW t \in Drainers, InHand(t)
        PROVE  Readable(d[t].event)
    <3>1. csvLock = t /\ cur = d[t] /\ cur.pc \in Handling
      BY <2>2 DEF IInv, Control, InHand, cur, Handling, Away
    <3>2. cur \in Drain
      BY CurType DEF IInv, Types
    <3> QED
      BY <3>1, <3>2, HandReadable DEF IInv, Types
  <2> QED
    BY <2>1, <2>2 DEF QueuedReadable
<1> QED
  BY <1>1, SpecIInv, PTL

\* recent_events_ is a run of consecutive events, whoever drained them and
\* however often it was cut (remember_events).
THEOREM HistoryInOrder == Spec => []RecentInOrder
<1>1. IInv => RecentInOrder
  <2> SUFFICES ASSUME IInv, NEW i \in 2..Len(recent)
               PROVE  recent[i] = recent[i - 1] + 1
    BY DEF RecentInOrder
  <2>1. Len(recent) \in Nat /\ i \in 1..Len(recent) /\ i - 1 \in 1..Len(recent)
    BY DEF IInv, Types, MemoTypes
  <2>2. /\ recent[i] = Remembered - Len(recent) + i
        /\ recent[i - 1] = Remembered - Len(recent) + (i - 1)
    BY <2>1 DEF IInv, Ids
  <2>3. Remembered \in Nat
    <3>1. totals.events \in Nat /\ Len(cur.batch) \in Nat
      BY CurType, TotalsNumbers, DrainNumbers DEF IInv, Types
    <3> QED
      BY <3>1 DEF Remembered
  <2> QED
    BY <2>1, <2>2, <2>3
<1> QED
  BY <1>1, SpecIInv, PTL

\* The values file has the lines of an event at most once, in the order of the
\* events, whatever the disk and stop() do to the stream (append_values_event).
THEOREM FileInEventOrder == Spec => []FileInOrder
<1>1. IInv => FileInOrder
  <2> SUFFICES ASSUME IInv PROVE FileInOrder
    OBVIOUS
  <2> DEFINE lines == file \o buffer
  <2>1. file \in Seq(Nat) /\ buffer \in Seq(Nat) /\ Len(file) \in Nat /\ Len(buffer) \in Nat
    BY DEF IInv, Types, FileTypes
  <2>2. /\ Len(lines) = Len(file) + Len(buffer)
        /\ \A i \in 1..(Len(file) + Len(buffer)) :
             lines[i] = IF i <= Len(file) THEN file[i] ELSE buffer[i - Len(file)]
    BY <2>1, ConcatProperties
  <2> HIDE DEF lines
  <2>3. \A i \in 1..Len(lines) :
          \/ i \in 1..Len(file) /\ lines[i] = file[i]
          \/ i - Len(file) \in 1..Len(buffer) /\ lines[i] = buffer[i - Len(file)]
             /\ i > Len(file)
    BY <2>1, <2>2
  <2>4. \A i, j \in 1..Len(lines) : i < j => lines[i] < lines[j]
    <3> SUFFICES ASSUME NEW i \in 1..Len(lines), NEW j \in 1..Len(lines), i < j
                 PROVE  lines[i] < lines[j]
      OBVIOUS
    <3>1. CASE j \in 1..Len(file) /\ lines[j] = file[j]
      <4>1. i \in 1..Len(file) /\ lines[i] = file[i]
        BY <2>1, <2>2, <3>1
      <4> QED
        BY <3>1, <4>1 DEF IInv, Lines
    <3>2. CASE j - Len(file) \in 1..Len(buffer) /\ lines[j] = buffer[j - Len(file)]
      <4>1. CASE i \in 1..Len(file) /\ lines[i] = file[i]
        BY <3>2, <4>1 DEF IInv, Lines
      <4>2. CASE i - Len(file) \in 1..Len(buffer) /\ lines[i] = buffer[i - Len(file)]
        <5>1. i - Len(file) < j - Len(file)
          BY <2>1
        <5> QED
          BY <3>2, <4>2, <5>1 DEF IInv, Lines
      <4> QED
        BY <2>3, <4>1, <4>2
    <3> QED
      BY <2>3, <3>1, <3>2
  <2> QED
    BY <2>4 DEF FileInOrder, lines
<1> QED
  BY <1>1, SpecIInv, PTL

\* The drain that ValuesConserved asks csv_mutex_ for is cur.
LEMMA HolderIsCur ==
  ASSUME IInv
  PROVE  cur.values = IF csvLock = Free THEN 0 ELSE d[csvLock].values
<1>1. CASE csvLock = Free
  BY <1>1, CurFree, IdleFields
<1>2. CASE csvLock # Free
  <2>1. csvLock \in Drainers
    BY <1>2 DEF IInv, Types, DrainTypes
  <2> QED
    BY <1>2, <2>1 DEF cur
<1> QED
  BY <1>1, <1>2

\* With a disk that does not fail, an event is reported as failed only if nothing
\* was written or lost before it since the start, or since stop() closed the
\* stream (append_values_event takes a stream that is good as it is, open or not).
THEOREM OnlyFirstIsLost == Spec => []OnlyFirstLost
<1>1. IInv => OnlyFirstLost
  BY DEF IInv, Loss, Healthy, OnlyFirstLost
<1> QED
  BY <1>1, SpecIInv, PTL

\* Slots released and values counted are the same number at every moment.
THEOREM ValuesAreConserved == Spec => []ValuesConserved
<1>1. IInv => ValuesConserved
  BY HolderIsCur DEF IInv, Slots, ValuesConserved
<1> QED
  BY <1>1, SpecIInv, PTL

\* When everything published is drained, the slots still taken are exactly those
\* of the events that failed: slots are given back by number, and none is lost
\* or given back twice, whatever failed before
\* (rtsyn_spsc_telemetry_values_release in drain_telemetry).
THEOREM RingIsReleased == Spec => []AllReleased
<1>1. IInv => AllReleased
  <2> SUFFICES ASSUME IInv, csvLock = Free, evq = <<>>
               PROVE  head - tail = held
    BY DEF AllReleased
  <2>1. cur.pc \notin Handling
    BY CurFree, IdleFields DEF Handling
  <2>2. StartOf(1) = head
    BY DEF StartOf
  <2>3. head \in Nat /\ tail \in Nat /\ held \in Nat
    BY DEF IInv, Types, EngineTypes, LossTypes
  <2> QED
    BY <2>1, <2>2, <2>3 DEF IInv, Slots
<1> QED
  BY <1>1, SpecIInv, PTL

\* A cycle has one row of the CSV file, and rows are in the order of the cycles,
\* although several threads drain and the disk may fail (prepare_csv_row,
\* flush_csv_row).
THEOREM RowsInOrder == Spec => []OneRowPerCycle
<1>1. IInv => OneRowPerCycle
  BY DEF IInv, Rows
<1> QED
  BY <1>1, SpecIInv, PTL

\* latest_measurement_ never goes back to an older measurement (remember_events
\* under events_mutex_, inside csv_mutex_).
THEOREM MeasurementOnlyNewer == Spec => MeasurementNewest
<1>1. IInv /\ [Next]_vars => [measurement' >= measurement]_vars
  <2> SUFFICES ASSUME IInv, Next PROVE measurement' >= measurement
    OBVIOUS
  <2>1. measurement \in Nat
    BY DEF IInv, Types, MemoTypes
  <2>2. CASE \E t \in Drainers : RememberEvents(t)
    BY <2>2, RememberEventsStep
  <2>3. CASE UNCHANGED memoVars
    BY <2>1, <2>3 DEF memoVars
  <2>4. CASE \E t \in Drainers : EndDrain(t)
    BY <2>1, <2>4 DEF EndDrain
  <2>5. ASSUME NEW kind \in EventKinds, NEW count \in Counts \cup {0}, NEW next \in {0, 1},
               Publish(kind, count, next)
        PROVE  UNCHANGED memoVars
    BY <2>5 DEF Publish
  <2>6. ASSUME NEW t \in Drainers,
               \/ BeginDrain(t) \/ PopEvent(t) \/ OpenValues(t) \/ WriteValues(t)
               \/ CsvAndRelease(t) \/ DrainMeasurement(t) \/ DrainOther(t) \/ FlushBatch(t)
               \/ TakeLock(t) \/ ConfigureCsv(t) \/ StopCsv(t) \/ DisableCsv(t)
               \/ \E columns \in Sinks : OpenCsvFile(t, columns)
        PROVE  UNCHANGED memoVars
    BY <2>6 DEF BeginDrain, PopEvent, OpenValues, WriteValues, CsvAndRelease, DrainMeasurement,
                DrainOther, FlushBatch, TakeLock, ConfigureCsv, StopCsv, DisableCsv, OpenCsvFile
  <2>7. CASE BeginStop \/ StopStep \/ Stopped
    <3>1. UNCHANGED memoVars
      BY <2>7 DEF BeginStop, StopStep, Stopped, JoinTicker, CloseStream, JoinServer, FinishStop, vars
    <3> QED
      BY <2>3, <3>1
  <2> QED
    BY <2>2, <2>3, <2>4, <2>5, <2>6, <2>7 DEF Next, Step, LockStep
<1> QED
  BY <1>1, SpecIInv, PTL DEF Spec, MeasurementNewest
=============================================================================
