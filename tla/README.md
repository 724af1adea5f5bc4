# Verification of rtsyn-api

RTSyn API is an HTTP bridge in front of a realtime engine. It sends commands to
the engine through a shared-memory queue, reads their results from a second one,
keeps a mirror of the engine's graph, and drains the engine's telemetry to files.
This directory holds TLA+ modules of that process, the TLC runs that check them
on small instances, and proofs of their safety properties for every instance.
Paths below are relative to the repository's root, which the modules and
`PROJECT.json` call `src/`.

## 1. Inventory

| Component | Where | State | Operations |
|---|---|---|---|
| command producer | `src/api/commands.cpp`, the `push_*` calls in `src/api.cpp` | `command_seq_`, the command queue | `next_seq`, one push per command route |
| result correlation | `src/api.cpp:719-763`, `1237-1378` | `pending_results_` (at most 128), the result queue, `result_mutex_` | `wait_for_result`, the load, add and remove handlers |
| runtime mirror | `src/api.cpp:1380-1459`, `1592-1643`, `1740-1787` | `runtime_nodes_`, `runtime_node_states_`, `runtime_connections_`, `runtime_params_`, `loaded_descriptors_` under `runtime_nodes_mutex_`; `latest_values_` under `events_mutex_` | `remember_*`, `forget_*`, `remember_result_snapshot_locked` |
| runtime snapshot | `src/api.cpp:1461-1590` | what the poll has seen so far | `drain_result_snapshots`, `request_live_runtime_nodes_snapshot`, `merge_runtime_snapshot_result` |
| persistence | `src/api.cpp:1645-1738` | the state file in `/tmp` | `persist_runtime_nodes`, `load_runtime_nodes_from_disk` |
| telemetry drain | `src/api/telemetry.cpp:321-460`, `src/api.cpp:554-580`, `765-804` | the event queue, the values ring, `values_stream_`, `recent_events_`, `latest_measurement_`, three totals, `csv_mutex_` | `drain_telemetry`, `append_values_event`, `remember_events` |
| CSV sink | `src/api/telemetry.cpp:139-319`, `src/api.cpp:514-552` | `csv_sink_`: columns, the stream, the pending row | configure, append, flush, stop |
| lifecycle | `src/api.cpp:361-427`, `src/main.cpp` | `running_`, `telemetry_thread_`, `server_thread_` | `start`, `wait`, `stop`, the signal loop |
| HTTP routes | `src/api.cpp:806-1235` | none of their own | one handler per route, on cpp-httplib's worker threads |
| request parsing | `src/api/http.cpp`, `src/api.cpp:29-204` | none | field, id and CSV selector parsers |
| serialization | `src/api/serialization.cpp` | none | JSON and CSV text |
| queues, engine, server | not in the repository | SPSC rings, the engine's graph | modelled from how the code uses them |

**Interaction.** HTTP worker threads push commands with no lock and then either
answer at once, change the mirror, or wait for the result. All that wait share
one result queue; what a worker pops and does not want goes to
`pending_results_`. `GET /runtime/nodes` applies everything that is pending,
sends a snapshot request, clears the mirror and polls for 250 ms.
The telemetry thread, three routes and `stop()` drain the same telemetry queue
under `csv_mutex_`. The lock order is `result_mutex_`, `runtime_nodes_mutex_`,
`events_mutex_`, and `csv_mutex_`, `events_mutex_`: there is no cycle.

**What is hard.**
- Results of many workers arrive in one queue, late, or after the process that
  asked for them has ended. Only a sequence number and a type name them.
- The wait holds `result_mutex_` for up to 20 s (a load).
- A mirror of somebody else's state, cleared before it is rebuilt, changed in two
  maps at once, and written to a file that is truncated first.
- Ring slots released by number and not by position, with several drainers and
  error paths that return early.
- `stop()`, which closes a stream other threads use and joins threads that hold
  or want a mutex it takes later.
- A server thread that may fail to listen after `start()` has returned true, and
  threads that must be joined exactly once on every way out.
- Range checks and casts that each route does for itself, and limits that a route
  and a push function check apart.
- Text that goes into JSON, into CSV, and into arrays of fixed size.

**What makes each part correct.** A handler answers with the engine's verdict on its
own command, and the result it waits for is not lost (result correlation); the two
node maps have the same keys (mirror); a report has the engine's nodes and none of an
earlier answer (snapshot); what the mirror knows survives a restart (persistence);
samples stay in the ring until they are copied, are released exactly once, and reach
the file and the histories in order (drain); one row per cycle, in the columns it was
asked for (CSV); queues stay mapped while they are used, and every exit leaves nothing
behind (lifecycle); a message carries what the client asked for, and a reply what the
engine answered (routes, parsing, serialization); every request is replied to, every
event is counted, `stop()` returns (liveness). The hazards, each at its line with the
properties aimed at it, are listed in `PROJECT.json`.

## 2. Plan

In this order, the most important behaviour first:

1. `Mirror`, `Bridge`: commands, results, mirror, snapshot, file, restart. *Done.*
2. `CsvSink`, `Telemetry`: the drain, its callers, the sink, `stop()`. *Done.*
3. `CommandQueue`: the steps of concurrent pushes (a finding). *Done.*
4. `BridgeProofs`: types, agreement of the node maps, mutual exclusion. *Done.*
5. `Lifecycle`, `LifecycleProofs`: `start`, `wait`, `stop`, a failing `listen`,
   `main`'s queues and signal loop, joins and the destructor. *Done.*
6. `Service`: the abstract request/reply service that the waits, the shared results
   and the timeouts of `Bridge` implement. *Done.*
7. `Texts`, `RequestFields`, `Requests`, `CsvTable`, `RequestTraffic`,
   `RequestProofs`: parsing, the routes' checks, the push functions, the printed
   result, and the table a CSV request asks for. *Done.*
8. `BridgeResultProofs`, `BridgeMirrorProofs`, `TelemetryProofs`, `TableProofs`: every
   safety property of the passing runs and the refinement. *Done.*
9. The loader's limit of 1024 records, the text of telemetry's JSON, and
   properties for the hazards that have none: what two runs of the process share, a
   late telemetry batch after a removal. *To do.*

## 3. Modules

| Module | Extends | Models |
|---|---|---|
| `Mirror` | | the maps and the file; one action operator per member function that changes them |
| `Bridge` | `Mirror` | workers, queues, locks, the engine, the end and restart of the process |
| `CsvSink` | | the sink: pending row, open and good flags of its stream, rows written |
| `Telemetry` | `CsvSink` | the ring, the event queue, the drain, its callers, the CSV routes, `stop()` |
| `CommandQueue` | | claim, write and publish of a push by several workers, the pop |
| `Service` | | abstract request/reply service; `Bridge` refines it |
| `Lifecycle` | | `main`, the owner of an `Api`, its two threads, the server's workers |
| `Texts` | | JSON and CSV escaping, and readers of both formats to judge them by |
| `RequestFields` | `Texts` | the field parsers |
| `Requests` | `RequestFields` | every command route from body to reply, the push functions, the bounded queue, the printed result |
| `CsvTable` | `RequestFields` | the CSV route, its selectors, the file and its header, which sample goes into which cell |
| `RequestTraffic` | `Requests`, `CsvTable` | a client of the one or of the other |
| `BridgeProofs` | `Bridge` | types, the node maps, the locks |
| `BridgeResultProofs` | `BridgeProofs` | results reach their handlers; `Bridge` implements `Service` |
| `BridgeMirrorProofs` | `BridgeResultProofs` | the mirror is durable, reports are sound |
| `LifecycleProofs` | `Lifecycle` | the safety properties of the lifecycle |
| `RequestProofs` | `Requests` | what is pushed, the meaning of 503, replies read back |
| `TableProofs` | `RequestTraffic`, `RequestProofs` | the CSV file reads back, in its columns |
| `TelemetryProofs` | `Telemetry` | the safety properties of the drain and the sink |
| `MCBridge`, `MCTelemetry`, `MCCommandQueue`, `MCLifecycle`, `MCRequests` | | constants of the runs |

`Bridge` and `Telemetry` share `latest_values_` and nothing else that a decision
reads: `remember_latest_values` is the action `RememberValue` of `Bridge`, so the
two are checked apart. `Requests` has the data of a command and `Bridge` the
concurrency: `Bridge`'s `Args` are the arguments that `Requests` lets through, and
the result that `TakeResult` prints is the one whose verdict `ImplementsService` is about.
`CsvTable` has the cells of a row and the failures of opening a file, `CsvSink` the
life of a row and the failures of writing it.
`Lifecycle` takes from `Bridge` that handlers return.

### Bridge

`w[h]` is worker `h`'s handler: `pc` is its next atomic step, `kind` and `arg` the
request, `seq` the sequence number it looks for, `todo` the results it has taken
out of the lock, `changed` and `completed` the two flags of the snapshot code,
`then` where it goes after a persist. An atomic step is what happens under one lock
or one operation on a queue that the engine works concurrently.

| `pc` | Code | Actions |
|---|---|---|
| `idle` | between requests | `SendCommand`, `RequestNodes` |
| `lock`, `top`, `pop` | `wait_for_result` | `LockResults`, `WaitTakePending`, `WaitMissPending`, `WaitPop`, `WaitSleep`, `WaitTimeout` |
| `remember`, `unvalue` | `remember_loaded_descriptor`, `remember_runtime_node`, `forget_runtime_node` | `RememberResult`, `ForgetValues` |
| `note` | the routes that do not wait | `NoteCommand` |
| `persist` | `persist_runtime_nodes` | `Persist`, `CrashInPersist` |
| `drain`, `apply` | `drain_result_snapshots` | `DrainResults`, `ApplyDrained` |
| `snap`, `clear`, `poll`, `merge`, `mergepop` | `request_live_runtime_nodes_snapshot` | `PushSnapshotRequest`, `ClearMirror`, `PollDone`, `PollTimeout`, `PollLock`, `MergePending`, `MergeMissPending`, `MergePop`, `MergeSleep` |
| `report` | `runtime_nodes_json` | `Report` |
| `done` | the response | `Return` |

The engine (`EngineTake`, `EnginePush`) is external. It takes commands in order,
applies or refuses each, and puts the answers in the result queue; a snapshot's
marker comes last. It may stop at any point. `Restart` may happen in any state:
the process loses its memory and keeps the queues and the file, as `src/main.cpp`
does when it opens existing shared memory. A result carries `life`, the run of
the process its command was sent in; no action of the process reads it.

Names stand for whole descriptors. Deadlines are not measured: a loop that looks
at the clock may find the deadline passed each time. A push is one step here, as the
queue is meant to be used: the properties of `Bridge` are about what the handlers do
with the messages that arrive. What the pushes of several workers really are made of
is `CommandQueue`, and `finding_spsc_producers` shows that a command can be lost there.

### Telemetry

`d[t]` is drainer `t`'s call of `drain_telemetry`, with `t` the telemetry thread
(`Ticker`), an HTTP worker, or the thread that runs `stop()` (`Main`). A thread that
has come to the `lock_guard` of `csv_mutex_` is at a point of its own ("lock";
"configure" and "disable" for the two CSV requests), and `stop()` can go on in the
meantime: it joins a thread only when that is idle again. The steps of a drain are one
pop, the choice and check of the stream (`OpenValues`), the lines (`WriteValues`), the
CSV row and the release (`CsvAndRelease`), the flush (`FlushBatch`),
`remember_events`, and the totals (`EndDrain`). They are separate although
`csv_mutex_` is held over them, because the engine publishes meanwhile and `stop()`
closes the stream without the mutex. The file is the sequence of ids of the events
whose lines reached it; `buffer` is what the stream still holds. The stream starts
good and not open, as a default-constructed `std::ofstream` is; a flush that fails, in
a drain or in `stop()`, leaves it bad. `lost`, `held` and `before` are history
variables for the properties, and no guard reads them. `Fault` lets the disk fail an
operation, at most `MaxFaults` times.

### Service

`Service` knows three things of a client: the `kind` of its open request, the
engine's `verdict` on it so far, and the `reply`. "accepted" needs the verdict
"yes", "unavailable" the verdict "no" or a command that was never sent, and
"pending" says nothing. `Bridge` maps `verdict` to the results that carry the
worker's own life, sequence number and type, wherever they are: in the engine's
`outbox`, in the queue, in `pending_results_` (put there by any worker), or in the
handler. That a drain copies results, that another worker pops them, and that a
wait gives up while its result is on its way are all steps the service does not see.

### Lifecycle

`pc` is where the owner of the `Api` is, and `then` where it goes after `stop()`,
which three callers share: the owner, `main` before it exits, and the destructor.
`Calls` are the members that an owner other than `main` may call, one at a time,
in any order (`src/include/rtsyn/api.hpp` makes them public). `telemetry` and
`server` are the two `std::thread`s: "none" when not joinable, "done" when the
function has returned and nobody has joined. Assigning to a joinable one is
`terminated`. The server is external: `stop()` of it is lost unless it listens, and
its `listen` returns when no handler (`busy`) runs.

### Requests and CsvTable

A field of a body is a value a client may write: a number with sign, digits and a
rest (a fraction, an exponent), a hexadecimal number, a truth value, a string, an
array, or nothing. Each parser of `http.cpp` is an operator from such a value to the
set of what it returns, empty for `nullopt`. A route is a list of fields with their
limits and the width of their cast; `Handle` refuses (400), bounces (503) or pushes.
The widths are scaled down (`ByteMax` < `WordMax` < `LongMax`), so that TLC meets
every boundary and one value beyond it, and the proofs hold for any widths.

A real number is a numeral; `Doubles` and `Floats` are those that the two types hold, and
any other is rounded to some number of the type, or, in a cast to `float`, made
infinite (`Rounded`, `Float`). `SentAsAsked` asks for the number that was written only where
the type holds it.

`Printed` prints the three lists of a result (ports, parameters, states), each cut at
what the message's array holds. `OpenTable` is a CSV request that has passed its
checks: `TakeOver` succeeds; `NoFile` fails before the file is touched (an unknown
field, the directory, the `open`), `NoHeader` after it has been truncated. `file` is
the path of the table in use and whether its lines are still in it: a request for the
same path that fails at the header has removed them, while the old table stays in use.

A text is a sequence of characters, of which only those a conversion treats
specially are told apart. `JsonRead` and `CsvRead` are written from the formats (RFC
8259 and RFC 4180), not from the code.

## 4. Runs

| Run | Question | Size |
|---|---|---|
| `bridge_results` | Do results reach the right worker, is none lost, do the node maps agree, is each lock held by one step, and does it all implement `Service`? Two workers adding, removing, reporting. | 3 requests, 1 node id |
| `bridge_durable` | Is what the mirror knows on disk or about to be, and do the maps agree after a load, over restarts and crashes within a write? | 2 workers, 3 requests, 2 runs of the process |
| `bridge_snapshot` | Does a report have the engine's nodes only, although old answers come late, and does `pending_results_` keep what it has room for? | 1 worker, 4 requests, 2 node ids, room for 2 pending results |
| `bridge_live` | Is every request replied to, also with a silent engine and an unwritable file? All routes but load and the global commands, which `bridge_durable` and `bridge_snapshot` have. | 2 workers, 2 requests |
| `telemetry_events` | Are samples readable until copied, files and histories in order, exactly the slots of failed events kept, and is only the first event of a stream that is not open lost on a healthy disk, with three kinds of drainers, `stop()` and a failing disk? | 4 events of 0 or 2 samples, a ring of 5, 2 drains of a worker, 1 fault |
| `telemetry_csv` | Is there one row per cycle, and are slots released exactly for the values that are counted, while sinks are configured, replaced and stopped? | 4 events, each of 1 sample or a measurement, 1 drain of a worker, 2 CSV requests, 1 fault |
| `telemetry_live` | Is every event counted, and does `stop()` return, also when a worker holds `csv_mutex_` or waits for it? | 2 events of any kind, a queue of 1 event, 1 drain of a worker, 2 CSV requests, 1 fault |
| `lifecycle` | Are queues mapped while handlers and drains use them (but for the destructor's drain), does every exit clean up, what ends the program, does `stop()` return, does the telemetry thread end with the server? | 2 workers, 4 queues, 6 calls of an owner, a valid configuration or not |
| `requests` | Is what is pushed what was asked for, are 400 and 503 what they say, do replies and CSV files read back, in their columns, also after CSV requests that fail? | all routes, about 40 values per field, a queue of 1; 4 samples, 2 cycles, 2 columns |
| `finding_*` | see section 5 | |

**Bounds.** Counters of requests, events, drains, faults and runs of the process bound
the length of a run and appear only in guards of the environment's actions (clients,
engine, disk). Two workers are enough to make one pop the other's result, hold a lock
the other needs and clear the mirror the other merges to; three requests give a late
result, the command it is late for, and a third actor. Queues of two or three slots
fill up, and so does `pending_results_` with room for two (128 in the code; only the
comparison with the limit matters). The budget of two events per drain is reached. In
`requests` all fields of a body but one are usual: a route checks its fields
independently. Names are up to one character longer than what fits, results have up to
one port, parameter and state more than a message can hold. A client makes command
requests or CSV requests, which share no state. `NoId` is 65535 for `UINT32_MAX`,
which does not fit TLC's integers; the cast to a byte gives 255 for both. A deadlock
is an error in every run.

`AwaitedKept` is checked with room for four pending results: with three requests
that is enough. It is not a promise of the code in general, where results nobody
waits for stay in the list and push out others at 128; `KeptUntilFull` says what
holds at the limit. `SnapshotSound` is for one worker: two concurrent reports
clear what the other has merged.

**Symmetry** of workers is used in the safety runs with two workers. Workers
appear in no value but as keys of `w` and as lock holders. It is not used where a
liveness property is checked.

**Fairness.** In `Bridge`, weak fairness of each worker's steps (threads are
scheduled; mutexes are not held forever) and strong fairness of its deadlines:
the clock advances, so a loop that looks at it again and again finds the deadline
passed. Nothing is asked of the engine, which is how `wait_for_result` and the
poll are written. In `Telemetry`, weak fairness of the steps of a drain and of
`stop()` and of the telemetry thread's start of a drain (`telemetry_loop` has no other
exit than `running_`), and strong fairness of the three steps that wait for `csv_mutex_`
(`TakeLock`, `ConfigureCsv`, `StopCsv`): others take the mutex in between, but each
for one bounded drain, and a thread that waits for a mutex that is released again and
again gets it. No fairness of clients, of the engine, or of the call of `stop()`.
In `Lifecycle`, weak fairness of the owner, of the two threads, and of the end of
each handler, which `EveryRequestReplied` of `Bridge` justifies; none of signals, of
calls, or of a failing socket.

Each property has a mutant of the code that breaks it: the operators commented
"Mutant" in the modules, such as a result matched by type alone, a mutex kept over
a sleep, or a limit that is off by one.

## 5. Findings

- `finding_phantom`: an end-of-snapshot marker that comes after its poll has timed
  out is applied by the next `GET /runtime/nodes` as a node with id `UINT32_MAX`.
- `finding_values_appended`: the first values event is written to a stream that was
  never opened. Its lines are lost, and its slots in the ring stay taken.
- `finding_spsc_producers`: HTTP workers push concurrently to a queue for a single
  producer; an accepted command can be overwritten.

One limit has no run of its own. Sequence numbers start again at every start
(`src/api.cpp:1796`) while the queues persist, so that the late result of an old
command answers a new one: with `MaxLives = 2` in `bridge_results.cfg`,
`ImplementsService` fails. What is checked is one run of the
process.

Not promised by any text of the repository, and therefore not findings: the mirror
restored from disk is cleared before the first report reads it; connections and
parameters of removed nodes can stay in the mirror; the drain applies a pending result
again at every report; the destructor's `stop()` drains queues that `main` has closed;
a `stop()` that comes before the server listens is lost on it; the state file keeps
records of nodes that a mirror no longer has until the next persist; a real parameter
that an `f32` does not hold is rounded, or sent as infinite, and accepted; a CSV
request for the path in use that fails at the header removes the lines of the file; an
event after `stop()` has closed the values stream is lost as the first one is; numbers
with a fraction or an exponent are read as the digits before them; the strings of a
request are not unescaped; control characters in a name make a reply that is not JSON.

## 6. Proofs

### BridgeProofs

For any sets of workers, ids and names, any capacities, and any number of requests
and runs of the process, from the assumptions `MirrorAssumption` and
`BridgeAssumption` on the constants only.

- `SpecIInv`: `Spec => []IInv`.
- `TypeCorrect`: `Spec => []TypeOK`.
- `NodeMapsAgree`: `Spec => []StatesMatchNodes`.
- `MutualExclusion`: `Spec => []LocksHeldBySteps`.

`TypeOK` is not inductive. A handler at `apply` reads `Head(todo)`, one at
`remember` reads `todo[1]` and uses its name as a descriptor, one at `unvalue` its
node: types alone allow an empty `todo` or a refused result there. `Shape` adds
what the control flow guarantees (`todo` is not empty at those points, and
the result at `remember` is an accepted one of the handler's own kind), and the
types of messages say that an accepted load carries a name, and that a command's
argument is one of its kind. `IInv` is `MirrorTypeOK /\ StatesMatchNodes`,
handlers of that shape, typed queues and a typed engine.

The first part of the module shows that each operation of the mirror keeps
`MirrorTypeOK /\ StatesMatchNodes` when its arguments have their types, including
that what is written to disk, whole or truncated, loads back to such a mirror.
The second has one lemma per action, which reduces it to the mirror's lemma and
to the types of the handler and the queues. The locks are proved relative to
`IInv`, by the lemmas `SameLocks`, `TakesLock`, `ReleasesLock` and `GoesOn`: each
action is of one of these four forms or is an application of drained results.

### BridgeResultProofs

For any numbers of workers, ids, capacities and runs of the process.

- `AwaitedIsKept`: `Spec /\ []HasRoom => []AwaitedKept`. `HasRoom` says that
  `pending_results_` has room for what is in the result queue; at 128 the oldest is
  dropped, whoever waits for it.
- `PendingIsKept`: `Spec => KeptUntilFull`, with no hypothesis.
- `BridgeImplementsService`: `Spec /\ [](life = 1 /\ HasRoom) => ImplementsService`. The
  code compares sequence numbers, which start again with the process, so it cannot be
  had for later runs (section 5).

The inductive invariant `RInv` adds two things to `IInv`. `Route` says what a
handler's record holds at each step (a handler that waits has an awaited kind and
an empty `todo`; one that remembers has its own accepted result there). `Ids` says
which handlers, commands and results may carry the same number: two handlers that
wait never do, a command and a result of one run never do, and two results of one
run with one number are of one type and, if awaited, say the same. Without `Ids`,
nothing forbids that a result of another command with the same number is in the queue,
and neither `AwaitedKept` nor the refinement survives a step.
`Moved` and `Replies` summarise what a handler's step does to the results and to its
reply; the lemmas `...Moves` show it once for each step, and the theorems
(durability too) use the summary. The refinement maps a step of the engine to the
service's verdict, a reply to a reply, and everything else to a stutter.

The proof of `PendingIsKept` corrected the property. It used to ask that the record of
the worker that takes a result changes; a poll that merges its second entry takes
it from the list and its record stays as it was.

### BridgeMirrorProofs

- `MirrorIsDurable`: with `DiskMayFail = FALSE`, `Spec => []MirrorDurable`, over
  restarts and crashes in the middle of a write. It needs `Entries`: connections in
  the engine's snapshots have usable ids. An entry with `NoId` would be stored as a
  node without being counted as a change, and not be written.
- `SnapshotIsSound`: with one worker, `Spec => [](life = 1 => SnapshotSound)`. `SInv`
  follows the request through the queues. Either the engine has not come to it
  (`Before`: it is the last command, and no result has its number), or it has and
  no command is behind it (`After`: what carries its number names nodes of the
  engine, the marker is the last of it, and once the marker is out the nodes of the
  engine are in the mirror or on their way in front of it). Old results have other
  numbers (`Ids`).

### LifecycleProofs

For any sets of queues and workers and any number of calls, from
`LifecycleAssumption`: `TypeCorrect`, `QueuesOutliveThreads` (`QueuesMappedInUse`),
`CleanExit` (`ExitsClean`) and `OneCauseOfTermination`
(`TerminatesAfterFailedListen`). None of the three is inductive. `IInv` adds
what the code relies on without saying so: `Between` (outside of `stop()` and
`wait()` an `Api` has both threads or neither, and `running_` is false only if there
are none or `listen` has returned), `JoinOrder` (which threads `stop()` and `wait()`
have joined at each point), `Mapping` (where the queues are open, and where there
are no threads), `Paths` (an exit status is chosen on every path) and `Handlers`
(handlers run only in a server that has listened and not returned).

### RequestProofs

For any widths, limits, queue size, values and names, from `WidthAssumption`,
`FloatAssumption` (what a float holds, a double holds), `RequestAssumption` and
`TextAssumption`: `TypeCorrect` (`RequestTypeOK`),
`IdentifiersUnreserved` (`NoReservedIds`), `FullIsFull` (`FullMeansFull`),
`SentIsAsked` (`SentAsAsked`) and `ResultIsReadBack` (`ResultReadsBack`). They are
about `RequestSpec`, the command half of the `Spec` that the run checks;
`TrafficIsRequests` in `TableProofs` shows that `Spec` implies it.

The argument is the same for each route: `PassedInRange` (a number that passes is
within the field's limits), `CastKeeps` (the cast keeps a number that is within its
width), `NumbersInRange` (both, for all numbers of a message), and `RouteMessages`:
every message that a route makes satisfies what the queue must hold and what the
push function checks. `HandleStep` then covers the three ways a request can go.

`SentAsAsked` needs that no route has a limit beyond the width it casts to
(`FieldsSized`), that what the parsers return is what was written, and that a plain
string is not cut by the end of the parse (`PlainIsWhole`). `ResultReadsBack` needs
that a reader of JSON, after the text that is printed for a character, stands where it
stood with that character added (`JsonSteps`). The same text is read for the name and for
each name and description in the three lists. `JsonReadsBack` puts this together for
a text of any length, by the least prefix that is read wrongly.

### TableProofs

For any requests, samples and number of cycles, from `CsvAssumption` and the
assumptions above: `CsvIsReadBack` (`CsvReadsBack`) and `CellsAreUnderNames`
(`CellsUnderTheirNames`), through requests that fail at any point. `CsvAssumption`
says that a request's arrays are sequences, and that the text of a number, of a
truth value or of a cycle has no comma, quote or line break.

The two invariants are about the whole file, as one text. `CsvReads(s, text, t)` says
that a reader in state `s` is in state `t` after `text`; it composes (`Onwards`,
`AllOf`), so that a cell, plain or quoted, a line and a file can be taken one after
the other: `PlainReads`, `QuotedReads`, `LineReads`, `FileReads`. The inductive invariant
`TableInv` names the record that each line reads as, the texts that the cells of
the pending row read as, and for each of them the sample or the field that it is
under its name (`Right`). It also says of the table that a selector matches only
samples that the request asks for (`SelectorsAre`): the properties do not mention
selectors at all, and the file's header says nothing of them.

### TelemetryProofs

For any threads, capacities, budgets and faults: `TypeCorrect` (`TypeOK`),
`SamplesReadable` (`QueuedReadable`), `HistoryInOrder` (`RecentInOrder`),
`FileInEventOrder` (`FileInOrder`), `OnlyFirstIsLost` (`OnlyFirstLost`),
`ValuesAreConserved` (`ValuesConserved`), `RingIsReleased` (`AllReleased`), `RowsInOrder`
(`OneRowPerCycle`) and `MeasurementOnlyNewer` (`MeasurementNewest`).

No property but the types is inductive, as each says what is true between two drains,
or of one thread's share. `Control` says that `csv_mutex_` makes one drain at a time,
`cur`, and the other parts of `IInv` relate what the variables hold to what `cur` has
popped and not yet accounted for: `InBatch` and `Ids` (events in the queue, in hand,
in the batch and in the history follow each other), `Slots` (the ring holds the
samples of the queued events and of the one in hand, and `held`, those of the failed
ones), `Lines` (the file and the stream's buffer against the events handled so far),
`Loss` (on a healthy disk an open stream is good, and one that is good and not open
has taken nothing since the start or since `stop()` closed it), `Cycles` and `Rows`
(the pending row is newer than the file's).

### What is only model-checked

Liveness: `EveryRequestReplied`, `EventuallyCounted`, the two `StopReturns` and
`TelemetryFollowsServer`. It needs fairness and `ENABLED`, which are out of the prover's
reach. Every invariant, every action property and the refinement of the passing
runs are proved, under the hypotheses named above.

## 7. Not modelled

- The JSON of telemetry, of the reports and of `/health`, the names of enumeration
  values, and the wording of errors: formatting that no decision depends on.
- Bodies in which a field's name appears twice or within a string, brackets within
  the strings of an array, and stray commas: the parsers take the first match.
- The limit of 1024 records in the loader, and files of another format. A mirror
  of more than 1024 nodes is read back wrongly (the rest of the nodes is taken for
  descriptors), but what such bytes then mean is undetermined.
- `stop()` and `wait()` called by two threads at once: both would join one thread,
  which the C++ library leaves undefined, and `main` does not do it.
- The data race on `values_stream_` in `stop()`: the model interleaves whole stream
  operations, which a race does not guarantee.
- The failures of opening a CSV file are in `Telemetry` (against concurrent drains) and
  in `CsvTable` (with what they do to the file). `NoHeader` stands for a write that the
  stream reports; what it only buffers and then loses is noticed at a later row, and
  so is a flush of a CSV row that fails. What a file looks like after a request for its path
  has truncated it is not modelled, nor are two tables that share one path with a
  drain in between.
- The drain of the destructor, which comes after `main` has closed the queues:
  `QueuesMappedInUse` is about handlers, the telemetry thread and the `stop()` of `main`.
- `loaded_module_paths_`, which is written and never read for a decision.
- The overload of `drain_telemetry` with a stream of its own, which only tests use.
