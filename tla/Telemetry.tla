------------------------------ MODULE Telemetry -----------------------------
(***************************************************************************)
(* The telemetry side of the API process: drain_telemetry of               *)
(* src/src/api/telemetry.cpp, its callers in src/src/api.cpp (the          *)
(* telemetry thread, the HTTP workers of the routes that drain first, and  *)
(* stop()), and the CSV routes.                                            *)
(*                                                                         *)
(* The engine (external) puts samples in the values ring, whose slots      *)
(* head - 1 .. tail it owns, and an event that names them in the event     *)
(* queue.  A drainer holds csv_mutex_, pops up to Budget events, writes    *)
(* the samples of each to the values file and to the CSV sink, and only    *)
(* then releases their slots.  A thread that waits for csv_mutex_ is at a  *)
(* point of its own.                                                       *)
(*                                                                         *)
(* Simplifications.  Ring positions are absolute; a stream is two flags,   *)
(* what it buffers, and what reached the file; an event's samples have one *)
(* cycle.  The lines of one event are one entry of the file.               *)
(***************************************************************************)
EXTENDS CsvSink, FiniteSets, SequencesExt

CONSTANTS Workers,      \* HTTP worker threads that drain
          Ticker,       \* telemetry_thread_
          Main,         \* the thread that calls stop()
          Free,         \* the holder of csv_mutex_ when nobody holds it
          Counts,       \* how many samples an event may have
          EventKinds,   \* the events the engine sends
          Sinks,        \* the column sets that CSV requests ask for
          EventCap,     \* room in the event queue
          ValueCap,     \* slots in the values ring
          Budget,       \* max_telemetry_events_per_drain
          RecentCap,    \* RTSYN_API_DEFAULT_RECENT_TELEMETRY_EVENTS
          MayStop,      \* does the main thread call stop()?
          MaxEvents,    \* bound: events the engine publishes
          MaxDrains,    \* bound: drains that HTTP workers run
          MaxCsv,       \* bound: CSV requests
          MaxFaults     \* bound: failed operations of the disk

Drainers == Workers \cup {Ticker, Main}

ASSUME TelemetryAssumption ==
  /\ {Ticker, Main} \cap Workers = {} /\ Ticker # Main
  /\ Free \notin Drainers
  /\ Counts \subseteq Nat
  /\ EventKinds \subseteq {"values", "measurement", "status"}
  /\ Sinks \subseteq (SUBSET Columns) \ {{}}
  /\ {EventCap, ValueCap, RecentCap, MaxEvents, MaxDrains, MaxCsv, MaxFaults} \subseteq Nat
  /\ Budget \in Nat \ {0}
  /\ MayStop \in BOOLEAN

VARIABLES evq,         \* the event queue
          head, tail,  \* the values ring: published and released positions
          cycle,       \* the engine's cycle
          published,   \* events published, the id of the last one
          stream,      \* values_stream_: [open, good]
          buffer,      \* events whose lines values_stream_ holds
          file,        \* events whose lines are in the values file
          csvLock,     \* holder of csv_mutex_
          d,           \* drainer -> its drain
          recent,      \* recent_events_
          measurement, \* latest_measurement_
          totals,      \* [events, values, failed]
          stopping,    \* where the main thread is
          drains, csvRequests, faults,  \* counters of the bounds
          lost,        \* history: the events that failed
          held,        \* history: how many slots they had
          before       \* history: the events written or lost when stop() closed the stream

engineVars == <<cycle, published>>
ringVars   == <<evq, head, tail>>
streamVars == <<stream, buffer, file>>
memoVars   == <<recent, measurement, totals>>
boundVars  == <<drains, csvRequests, faults>>
lossVars   == <<lost, held, before>>      \* no guard reads them
vars == <<csvVars, engineVars, ringVars, streamVars, memoVars, boundVars, lossVars, csvLock, d,
          stopping>>

BeforeJoin == {"running", "flagged", "ticker_joined", "stream_closed"}

NoEvent == [id |-> 0, kind |-> "status", cycle |-> 0, start |-> 0, count |-> 0]

IdleDrain == [pc |-> "idle", event |-> NoEvent, batch |-> <<>>, values |-> 0, failed |-> 0,
              columns |-> {}]

Goto(t, upd) == d' = [d EXCEPT ![t] = upd]

\* Mutant: the history is never cut.
AllOf(q, n) == q

LastOf(q, n) == IF Len(q) > n THEN SubSeq(q, Len(q) - n + 1, Len(q)) ELSE q

\* The disk fails the operation (or not).
Fault(fault) == /\ fault \in {x \in BOOLEAN : x => faults < MaxFaults}
                /\ faults' = IF fault THEN faults + 1 ELSE faults
-----------------------------------------------------------------------------
(* The engine (external)                                                   *)

\* rtsyn_spsc_telemetry_try_publish_values, or a plain push; what does not fit is dropped.
Publish(kind, count, next) ==
  /\ published < MaxEvents
  /\ Len(evq) < EventCap
  /\ head - tail + count <= ValueCap
  /\ count \in (IF kind = "values" THEN Counts ELSE {0})
  /\ published' = published + 1
  /\ cycle' = cycle + next
  /\ evq' = Append(evq, [id |-> published + 1, kind |-> kind, cycle |-> cycle + next,
                         start |-> head, count |-> count])
  /\ head' = head + count
  /\ UNCHANGED <<csvVars, tail, streamVars, memoVars, boundVars, lossVars, csvLock, d,
                 stopping>>
-----------------------------------------------------------------------------
(* One drain                                                               *)

\* Where a drain may start: in the telemetry thread while running_ is set, in an
\* HTTP worker with a request until the server is joined, at the end of stop().
MayDrain(t) ==
  \/ t = Ticker /\ stopping = "running"
  \/ t \in Workers /\ stopping \in BeforeJoin /\ drains < MaxDrains
  \/ t = Main /\ stopping = "server_joined"

\* The thread comes to the lock_guard ...
BeginDrain(t) ==
  /\ d[t].pc = "idle"
  /\ MayDrain(t)
  /\ drains' = IF t \in Workers THEN drains + 1 ELSE drains
  /\ Goto(t, [IdleDrain EXCEPT !.pc = "lock"])
  /\ UNCHANGED <<csvVars, engineVars, ringVars, streamVars, memoVars, csvRequests, faults,
                 lossVars, csvLock, stopping>>

\* ... and gets csv_mutex_, whatever stop() has done in the meantime.
TakeLock(t) ==
  /\ d[t].pc = "lock"
  /\ csvLock = Free
  /\ csvLock' = t
  /\ Goto(t, [IdleDrain EXCEPT !.pc = "pop"])
  /\ UNCHANGED <<csvVars, engineVars, ringVars, streamVars, memoVars, boundVars, lossVars,
                 stopping>>

PopEvent(t) ==
  /\ d[t].pc = "pop"
  /\ Len(d[t].batch) < Budget
  /\ evq # <<>>
  /\ evq' = Tail(evq)
  /\ Goto(t, [d[t] EXCEPT !.event = Head(evq), !.pc = Head(evq).kind])
  /\ UNCHANGED <<csvVars, engineVars, head, tail, streamVars, memoVars, boundVars, lossVars,
                 csvLock, stopping>>

\* drain.events.push_back(event), and the next turn of the loop.
Finished(t, values, failed) ==
  [pc |-> "pop", event |-> NoEvent, batch |-> Append(d[t].batch, d[t].event),
   values |-> d[t].values + values, failed |-> d[t].failed + failed, columns |-> {}]

\* The event in hand joins the batch, as failed or not.
Finish(t, values, failed) ==
  /\ Goto(t, Finished(t, values, failed))
  /\ lost' = IF failed = 0 THEN lost ELSE lost \cup {d[t].event.id}
  /\ held' = IF failed = 0 THEN held ELSE held + d[t].event.count
  /\ UNCHANGED before

\* rtsyn_spsc_telemetry_values_try_get succeeds for every sample of the event.
Readable(e) == tail <= e.start /\ e.start + e.count <= head

\* append_values_event up to the choice of the stream.  A stream that is bad is
\* opened, which fails if the bad stream is still open; one that is good but was
\* never opened is taken as it is.
OpenValues(t) ==
  /\ d[t].pc = "values"
  /\ LET e == d[t].event IN
       \/ /\ e.count = 0
          /\ Finish(t, 0, 0)
          /\ UNCHANGED <<stream, faults>>
       \/ /\ e.count > 0
          /\ Readable(e)
          /\ stream.good
          /\ Goto(t, [d[t] EXCEPT !.pc = "write"])
          /\ UNCHANGED <<stream, faults, lossVars>>
       \/ /\ e.count > 0
          /\ ~(Readable(e) /\ stream.good)
          /\ \E fault \in BOOLEAN :
               /\ Fault(fault)
               /\ IF Readable(e) /\ ~stream.open /\ ~fault
                  THEN /\ stream' = [open |-> TRUE, good |-> TRUE]
                       /\ Goto(t, [d[t] EXCEPT !.pc = "write"])
                       /\ UNCHANGED lossVars
                  ELSE Finish(t, 0, 1) /\ UNCHANGED stream
  /\ UNCHANGED <<csvVars, engineVars, ringVars, buffer, file, memoVars, drains, csvRequests,
                 csvLock, stopping>>

\* The lines go to the stream; one that is not open cannot take them, and a
\* full buffer may meet a failing disk.
WriteValues(t) ==
  /\ d[t].pc = "write"
  /\ \/ /\ stream.open /\ stream.good
        /\ buffer' = Append(buffer, d[t].event.id)
        /\ Goto(t, [d[t] EXCEPT !.pc = "csv"])
        /\ UNCHANGED <<stream, faults, lossVars>>
     \/ /\ Fault(stream.open /\ stream.good)
        /\ stream' = [stream EXCEPT !.good = FALSE]
        /\ Finish(t, 0, 1)
        /\ UNCHANGED buffer
  /\ UNCHANGED <<csvVars, engineVars, ringVars, file, memoVars, drains, csvRequests, csvLock,
                 stopping>>

\* Mutant: the slots are released although the CSV row was not written.
ReleaseAnyway(t, ok) ==
  /\ tail' = tail + d[t].event.count
  /\ Finish(t, IF ok THEN d[t].event.count ELSE 0, IF ok THEN 0 ELSE 1)

\* Mutant: everything published so far is released.
ReleaseAll(t, ok) ==
  /\ tail' = IF ok THEN head ELSE tail
  /\ IF ok THEN Finish(t, d[t].event.count, 0) ELSE Finish(t, 0, 1)

\* Mutant: one slot is released whatever the event has.
ReleaseOne(t, ok) ==
  /\ tail' = IF ok THEN tail + 1 ELSE tail
  /\ IF ok THEN Finish(t, d[t].event.count, 0) ELSE Finish(t, 0, 1)

\* rtsyn_spsc_telemetry_values_release frees the oldest slots, as many as the
\* event has; a failed CSV append leaves them.
Release(t, ok) ==
  /\ tail' = IF ok THEN tail + d[t].event.count ELSE tail
  /\ IF ok THEN Finish(t, d[t].event.count, 0) ELSE Finish(t, 0, 1)

CsvAndRelease(t) ==
  /\ d[t].pc = "csv"
  /\ \E fault, ok \in BOOLEAN :
       /\ Fault(fault)
       /\ AppendCsv("value", d[t].event.cycle, fault, ok)
       /\ Release(t, ok)
  /\ UNCHANGED <<engineVars, evq, head, streamVars, memoVars, drains, csvRequests, csvLock,
                 stopping>>

DrainMeasurement(t) ==
  /\ d[t].pc = "measurement"
  /\ \E fault, ok \in BOOLEAN :
       /\ Fault(fault)
       /\ AppendCsv("measurement", d[t].event.cycle, fault, ok)
       /\ Finish(t, 0, IF ok THEN 0 ELSE 1)
  /\ UNCHANGED <<engineVars, ringVars, streamVars, memoVars, drains, csvRequests, csvLock,
                 stopping>>

DrainOther(t) ==
  /\ d[t].pc = "status"
  /\ Finish(t, 0, 0)
  /\ UNCHANGED <<csvVars, engineVars, ringVars, streamVars, memoVars, boundVars, csvLock,
                 stopping>>

\* Mutant: what was flushed stays in the buffer.
FlushCopy(fault) ==
  /\ UNCHANGED buffer
  /\ file' = IF fault THEN file ELSE file \o buffer

\* What a flush or a close does to the buffer: it reaches the file, or is lost
\* and the stream goes bad.
FlushBuffer(fault) ==
  /\ buffer' = <<>>
  /\ file' = IF fault THEN file ELSE file \o buffer

\* Mutants: csv_mutex_ is released before the batch is remembered; the stream is
\* closed after each batch.
FlushBatchUnlocked(t) ==
  /\ d[t].pc = "pop"
  /\ Len(d[t].batch) = Budget \/ evq = <<>>
  /\ csvLock' = Free
  /\ Goto(t, [d[t] EXCEPT !.pc = "remember"])
  /\ UNCHANGED <<csvVars, engineVars, ringVars, streamVars, memoVars, boundVars, lossVars,
                 stopping>>

FlushBatchClosing(t) ==
  /\ d[t].pc = "pop"
  /\ Len(d[t].batch) = Budget \/ evq = <<>>
  /\ stream' = [stream EXCEPT !.open = FALSE]
  /\ FlushBuffer(FALSE)
  /\ Goto(t, [d[t] EXCEPT !.pc = "remember"])
  /\ UNCHANGED <<csvVars, engineVars, ringVars, memoVars, boundVars, lossVars, csvLock,
                 stopping>>

\* The batch is over: flush once.
FlushBatch(t) ==
  /\ d[t].pc = "pop"
  /\ Len(d[t].batch) = Budget \/ evq = <<>>
  /\ \/ /\ stream.open /\ stream.good
        /\ \E fault \in BOOLEAN :
             /\ fault => buffer # <<>>
             /\ Fault(fault)
             /\ FlushBuffer(fault)
             /\ stream' = [stream EXCEPT !.good = ~fault]
     \/ ~(stream.open /\ stream.good) /\ UNCHANGED <<streamVars, faults>>
  /\ Goto(t, [d[t] EXCEPT !.pc = "remember"])
  /\ UNCHANGED <<csvVars, engineVars, ringVars, memoVars, drains, csvRequests, lossVars, csvLock,
                 stopping>>

Measured(batch) == {i \in 1..Len(batch) : batch[i].kind = "measurement"}

\* remember_events, under events_mutex_ inside csv_mutex_.
RememberEvents(t) ==
  /\ d[t].pc = "remember"
  /\ recent' = LastOf(recent \o [i \in 1..Len(d[t].batch) |-> d[t].batch[i].id], RecentCap)
  /\ measurement' = IF Measured(d[t].batch) = {} THEN measurement
                    ELSE d[t].batch[Max(Measured(d[t].batch))].id
  /\ Goto(t, [d[t] EXCEPT !.pc = "count"])
  /\ UNCHANGED <<csvVars, engineVars, ringVars, streamVars, totals, boundVars, lossVars,
                 csvLock, stopping>>

\* Mutant: only value events are counted.
EndDrainValues(t) ==
  /\ d[t].pc = "count"
  /\ totals' = [totals EXCEPT !.events = @ + d[t].values, !.values = @ + d[t].values]
  /\ IF t = Main
     THEN stopping' = "drained" /\ UNCHANGED csvLock
     ELSE csvLock' = Free /\ UNCHANGED stopping
  /\ Goto(t, IdleDrain)
  /\ UNCHANGED <<csvVars, engineVars, ringVars, streamVars, recent, measurement, boundVars,
                 lossVars>>

\* The three fetch_adds, and the end of the critical section; stop() goes on to
\* flush the CSV sink before it leaves it.
EndDrain(t) ==
  /\ d[t].pc = "count"
  /\ totals' = [events |-> totals.events + Len(d[t].batch),
                values |-> totals.values + d[t].values,
                failed |-> totals.failed + d[t].failed]
  /\ IF t = Main
     THEN stopping' = "drained" /\ UNCHANGED csvLock
     ELSE csvLock' = Free /\ UNCHANGED stopping
  /\ Goto(t, IdleDrain)
  /\ UNCHANGED <<csvVars, engineVars, ringVars, streamVars, recent, measurement, boundVars,
                 lossVars>>
-----------------------------------------------------------------------------
(* POST /telemetry/csv                                                     *)

AcceptsCsv(t) ==
  /\ t \in Workers
  /\ d[t].pc = "idle"
  /\ stopping \in BeforeJoin
  /\ csvRequests < MaxCsv
  /\ csvRequests' = csvRequests + 1

\* configure_csv_telemetry_file opens and truncates the file with no lock held,
\* which fails or not ...
OpenCsvFile(t, columns) ==
  /\ AcceptsCsv(t)
  /\ \E fault \in BOOLEAN :
       /\ Fault(fault)
       /\ Goto(t, IF fault THEN IdleDrain
                  ELSE [IdleDrain EXCEPT !.pc = "configure", !.columns = columns])
  /\ UNCHANGED <<csvVars, engineVars, ringVars, streamVars, memoVars, drains, lossVars, csvLock,
                 stopping>>

\* ... and moves the sink in place of the old one, whose pending row is gone.
ReplaceSink(t) ==
  /\ sink' = OpenedSink(d[t].columns)
  /\ csvRows' = <<>>

ConfigureCsv(t) ==
  /\ d[t].pc = "configure"
  /\ csvLock = Free
  /\ ReplaceSink(t)
  /\ Goto(t, IdleDrain)
  /\ UNCHANGED <<engineVars, ringVars, streamVars, memoVars, boundVars, lossVars, csvLock,
                 stopping>>

\* stop_csv_telemetry_file comes to its lock_guard ...
DisableCsv(t) ==
  /\ AcceptsCsv(t)
  /\ Goto(t, [IdleDrain EXCEPT !.pc = "disable"])
  /\ UNCHANGED <<csvVars, engineVars, ringVars, streamVars, memoVars, drains, faults, lossVars,
                 csvLock, stopping>>

\* ... writes the pending row and forgets the sink, whether the row could be written or not.
StopCsv(t) ==
  /\ d[t].pc = "disable"
  /\ csvLock = Free
  /\ sink' = NoSink
  /\ \E fault \in BOOLEAN :
       /\ Fault(fault)
       /\ csvRows' = IF sink.pending # NoRow /\ CanWriteRow(fault)
                     THEN Append(csvRows, sink.pending) ELSE csvRows
  /\ Goto(t, IdleDrain)
  /\ UNCHANGED <<engineVars, ringVars, streamVars, memoVars, drains, csvRequests, lossVars,
                 csvLock, stopping>>
-----------------------------------------------------------------------------
(* stop()                                                                  *)

\* The main thread goes from one step of stop() to the next.
Advance(from, to) == stopping = from /\ stopping' = to

BeginStop ==
  /\ MayStop
  /\ Advance("running", "flagged")
  /\ UNCHANGED <<csvVars, engineVars, ringVars, streamVars, memoVars, boundVars, lossVars, csvLock,
                 d>>

JoinTicker ==
  /\ Advance("flagged", "ticker_joined")
  /\ d[Ticker].pc = "idle"
  /\ UNCHANGED <<csvVars, engineVars, ringVars, streamVars, memoVars, boundVars, lossVars, csvLock,
                 d>>

\* Mutant: stop() takes csv_mutex_ before it joins the server, and keeps it.
CloseStreamLocked ==
  /\ Advance("ticker_joined", "stream_closed")
  /\ csvLock = Free
  /\ csvLock' = Main
  /\ UNCHANGED <<csvVars, engineVars, ringVars, streamVars, memoVars, boundVars, lossVars, d>>

\* The events whose lines have been written, or lost.
Handled == lost \cup Range(file) \cup Range(buffer)

\* values_stream_ is flushed and closed with no lock: a worker may be anywhere in
\* a drain.  A stream that could not be flushed is bad from then on.
CloseStream ==
  /\ Advance("ticker_joined", "stream_closed")
  /\ IF stream.open
     THEN /\ \E fault \in BOOLEAN :
               /\ Fault(fault)
               /\ FlushBuffer(fault)
               /\ stream' = [open |-> FALSE, good |-> stream.good /\ ~fault]
          /\ before' = Handled
     ELSE UNCHANGED <<streamVars, faults, before>>
  /\ UNCHANGED <<csvVars, engineVars, ringVars, memoVars, drains, csvRequests, lost, held, csvLock,
                 d>>

JoinServer ==
  /\ Advance("stream_closed", "server_joined")
  /\ \A t \in Workers : d[t].pc = "idle"
  /\ UNCHANGED <<csvVars, engineVars, ringVars, streamVars, memoVars, boundVars, lossVars, csvLock,
                 d>>

FinishStop ==
  /\ Advance("drained", "stopped")
  /\ csvLock' = Free
  /\ \E fault \in BOOLEAN : Fault(fault) /\ FlushCsvSink(fault)
  /\ UNCHANGED <<engineVars, ringVars, streamVars, memoVars, drains, csvRequests, lossVars, d>>
-----------------------------------------------------------------------------
Init ==
  /\ CsvInit
  /\ evq = <<>> /\ head = 0 /\ tail = 0
  /\ cycle = 1 /\ published = 0
  /\ stream = [open |-> FALSE, good |-> TRUE]
  /\ buffer = <<>> /\ file = <<>>
  /\ csvLock = Free
  /\ d = [t \in Drainers |-> IdleDrain]
  /\ recent = <<>> /\ measurement = 0
  /\ totals = [events |-> 0, values |-> 0, failed |-> 0]
  /\ stopping = "running"
  /\ drains = 0 /\ csvRequests = 0 /\ faults = 0
  /\ lost = {} /\ held = 0 /\ before = {}

\* A step of a drain that is under way.
Step(t) ==
  \/ PopEvent(t) \/ OpenValues(t) \/ WriteValues(t) \/ CsvAndRelease(t) \/ DrainMeasurement(t)
  \/ DrainOther(t) \/ FlushBatch(t) \/ RememberEvents(t) \/ EndDrain(t)

\* A step that waits for csv_mutex_.
LockStep(t) == TakeLock(t) \/ ConfigureCsv(t) \/ StopCsv(t)

StopStep == JoinTicker \/ CloseStream \/ JoinServer \/ FinishStop

\* stop() has returned: the process ends.
Stopped == stopping = "stopped" /\ UNCHANGED vars

Next ==
  \/ \E kind \in EventKinds, count \in Counts \cup {0}, next \in {0, 1} :
       Publish(kind, count, next)
  \/ \E t \in Drainers : BeginDrain(t) \/ LockStep(t) \/ Step(t) \/ DisableCsv(t)
                         \/ \E columns \in Sinks : OpenCsvFile(t, columns)
  \/ BeginStop \/ StopStep \/ Stopped

Spec == Init /\ [][Next]_vars

\* Threads are scheduled, the telemetry thread drains again and again, and a
\* thread that waits for a mutex gets it if it is free again and again.
Fairness ==
  /\ \A t \in Drainers : WF_vars(Step(t)) /\ SF_vars(LockStep(t))
  /\ \A t \in {Ticker, Main} : WF_vars(BeginDrain(t))
  /\ WF_vars(StopStep)

FairSpec == Spec /\ Fairness
-----------------------------------------------------------------------------
(* Types                                                                   *)

Event == [id : Nat, kind : {"values", "measurement", "status"}, cycle : Nat, start : Nat,
          count : Nat]

DrainPcs == {"idle", "lock", "pop", "values", "measurement", "status", "write", "csv",
             "remember", "count", "configure", "disable"}

StopPoints == {"running", "flagged", "ticker_joined", "stream_closed", "server_joined",
               "drained", "stopped"}

IsDrain(r) ==
  /\ r.pc \in DrainPcs
  /\ r.event \in Event
  /\ r.batch \in Seq(Event) /\ Len(r.batch) <= Budget
  /\ r.values \in Nat /\ r.failed \in Nat
  /\ r.columns \subseteq Columns

\* Every variable keeps its type; the histories and queues keep their bounds.
TypeOK ==
  /\ SinkTypeOK
  /\ evq \in Seq(Event) /\ Len(evq) <= EventCap
  /\ head \in Nat /\ tail \in Nat
  /\ cycle \in Nat \ {0} /\ published \in Nat
  /\ stream \in [open : BOOLEAN, good : BOOLEAN]
  /\ buffer \in Seq(Nat) /\ file \in Seq(Nat)
  /\ csvLock \in Drainers \cup {Free}
  /\ DOMAIN d = Drainers /\ \A t \in Drainers : IsDrain(d[t])
  /\ recent \in Seq(Nat) /\ Len(recent) <= RecentCap /\ measurement \in Nat
  /\ totals \in [events : Nat, values : Nat, failed : Nat]
  /\ stopping \in StopPoints
  /\ drains \in Nat /\ csvRequests \in Nat /\ faults \in Nat
  /\ lost \subseteq Nat /\ held \in Nat /\ before \subseteq Nat
-----------------------------------------------------------------------------
(* Safety                                                                  *)

\* The event that drainer t has popped and whose samples it may still read.
InHand(t) == d[t].pc \in {"values", "write", "csv"}

\* The samples that a queued event names, or that a drainer is about to copy,
\* are still in the ring: slots are released in the order of the events and
\* only for events already handled, although several threads drain, and a
\* failed event never gives its slots back.
QueuedReadable ==
  /\ \A i \in 1..Len(evq) : Readable(evq[i])
  /\ \A t \in Drainers : InHand(t) => Readable(d[t].event)

\* Slots released and values counted are the same number: nothing is released
\* for an event that is reported as failed.
ValuesConserved ==
  tail = totals.values + (IF csvLock = Free THEN 0 ELSE d[csvLock].values)

\* The values file has the lines of an event at most once, in the order of the
\* events, over reopened streams, several drainers and stop().
FileInOrder ==
  LET lines == file \o buffer
  IN  \A i, j \in 1..Len(lines) : i < j => lines[i] < lines[j]

\* recent_events_ is a run of consecutive events, whoever drained them.
RecentInOrder == \A i \in 2..Len(recent) : recent[i] = recent[i - 1] + 1

\* latest_measurement_ never goes back to an older measurement.
MeasurementNewest == [][measurement' >= measurement]_vars

\* With a disk that does not fail, an event fails only if no event was written or
\* lost before it, since the start or since stop() closed the stream: the stream
\* is good but not open then, and append_values_event opens it only once it is bad.
OnlyFirstLost ==
  faults = 0 => \A e \in lost, other \in Handled :
                  other < e => other \in before /\ e \notin before

\* Between drains, when the queue is empty, the slots still taken are those of
\* the events that failed: slots are released by number and not by position, and
\* a failure, a batch, a stop or another drainer in between must not lose any.
AllReleased == csvLock = Free /\ evq = <<>> => head - tail = held

\* Where every event has values and the disk does not fail, the file has the
\* lines of every event that was consumed.
ValuesAppended == csvLock = Free /\ faults = 0 => Len(file) = totals.events
-----------------------------------------------------------------------------
(* Liveness                                                                *)

\* Every event published is consumed and counted, unless stop() is called first.
EventuallyCounted ==
  \A i \in 1..MaxEvents :
    (published >= i) ~> (totals.events >= i \/ stopping # "running")

\* stop() returns, whoever holds csv_mutex_ when it is called.
StopReturns == (stopping = "flagged") ~> (stopping = "stopped")
=============================================================================
