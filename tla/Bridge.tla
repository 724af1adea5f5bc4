------------------------------- MODULE Bridge -------------------------------
(***************************************************************************)
(* The command and result side of the API process (src/src/api.cpp): HTTP  *)
(* worker threads push commands to the realtime engine, wait for the       *)
(* result that carries their sequence number, keep the mirror of the graph *)
(* up to date, and answer GET /runtime/nodes from it.                      *)
(*                                                                         *)
(* A worker h \in H runs one request at a time; w[h].pc names the next     *)
(* atomic step of its handler.  A step is what happens under one lock, or  *)
(* one operation on a queue that the engine works at the other end of.     *)
(*                                                                         *)
(* Simplifications.  next_seq and the push are one step (module            *)
(* CommandQueue is about the push).  A result's ok stands for its status.  *)
(* Time is left out: a deadline may have passed whenever the code looks.   *)
(* The engine is external: it takes commands in order, answers each one    *)
(* (a refusal, an acknowledgement, or the entries of a snapshot and then   *)
(* its marker) before it takes the next, and may be silent for ever.       *)
(***************************************************************************)
EXTENDS Mirror, SequencesExt

CONSTANTS H,            \* HTTP worker threads
          Free,         \* the holder of a mutex that nobody holds
          Kinds,        \* the requests clients make
          ConnIds, ParamIds, Values,   \* what those requests range over
          NodeStates,
          CmdCap,       \* room in the command queue
          ResCap,       \* room in the result queue
          PendingCap,   \* 128 in the code
          DiskMayFail,  \* may the state file be impossible to open?
          MaxRequests,  \* bound: requests received
          MaxLives      \* bound: runs of the API process

AllKinds == {"load", "add", "remove", "nodes", "update", "connect",
             "disconnect", "param", "control", "value"}
Awaited  == {"load", "add", "remove"}
Noted    == {"update", "connect", "disconnect", "param"}

ASSUME BridgeAssumption ==
  /\ Free \notin H
  /\ Kinds \subseteq AllKinds
  /\ ConnIds \subseteq Nat \ {NoId}
  /\ ParamIds \subseteq Nat /\ Values \subseteq Nat /\ NodeStates \subseteq 0..255
  /\ CmdCap \in Nat /\ ResCap \in Nat /\ PendingCap \in Nat
  /\ DiskMayFail \in BOOLEAN
  /\ MaxRequests \in Nat /\ MaxLives \in Nat

VARIABLES w,            \* worker -> the state of its handler
          requests,     \* requests received so far
          life,         \* which run of the API process this is
          seq,          \* command_seq_
          cmdq,         \* the command SPSC queue
          resq,         \* the result SPSC queue
          pending,      \* pending_results_
          resultLock,   \* holder of result_mutex_
          nodesLock,    \* holder of runtime_nodes_mutex_ across steps
          eng,          \* the engine's graph: [nodes, conns]
          outbox        \* answers the engine has still to push

bridgeVars == <<w, requests, life, seq, cmdq, resq, pending, resultLock, nodesLock>>
engineVars == <<eng, outbox>>
vars == <<mirrorVars, bridgeVars, engineVars>>
-----------------------------------------------------------------------------
(* Messages.  from = <<life, seq>> tells which command a result answers;   *)
(* the code sees only seq.                                                 *)

NoWire == <<0, 0, 0>>

\* What the routes let through: the update and set_param routes accept
\* UINT32_MAX as a node id, the others do not.
Args(kind) ==
  CASE kind \in {"load", "add"} -> {<<x>> : x \in Names}
    [] kind = "remove"          -> {<<n>> : n \in NodeIds}
    [] kind = "update"          -> {<<n, s>> : n \in NodeIds \cup {NoId}, s \in NodeStates}
    [] kind = "connect"         -> {<<c, a, b>> : c \in ConnIds, a \in NodeIds, b \in NodeIds}
    [] kind = "disconnect"      -> {<<c>> : c \in ConnIds}
    [] kind = "param"           -> {<<n, p, v>> : n \in NodeIds \cup {NoId}, p \in ParamIds,
                                                  v \in Values}
    [] OTHER                    -> {<<>>}

Command(kind, arg) == [life |-> life, seq |-> seq', type |-> kind, arg |-> arg]

Result(c, ok, node, name, code, wire) ==
  [life |-> c.life, seq |-> c.seq, type |-> c.type, ok |-> ok,
   node |-> node, name |-> name, code |-> code, conn |-> wire]

Room(q, cap) == Len(q) < cap

\* Mutants: a result somebody else waits for is dropped; the limit is off by one.
KeepNothing(q, r) == q
KeepOneLess(q, r) == LET all == Append(q, r)
                     IN  IF Len(all) >= PendingCap THEN Tail(all) ELSE all

\* push_back, then pop_front while there are more than PendingCap.
Keep(q, r) == LET all == Append(q, r)
              IN  IF Len(all) > PendingCap THEN Tail(all) ELSE all

LastOf(q, n) == IF Len(q) > n THEN SubSeq(q, Len(q) - n + 1, Len(q)) ELSE q

IdleWorker == [pc |-> "idle", kind |-> "none", arg |-> <<>>, seq |-> 0, todo |-> <<>>,
               changed |-> FALSE, completed |-> FALSE, then |-> "done",
               status |-> "none", nodes |-> {}]

\* Worker h goes on at pc, with the other fields of its record as given by upd.
Goto(h, upd) == w' = [w EXCEPT ![h] = upd]
Answer(r, status) == [r EXCEPT !.pc = "done", !.status = status, !.todo = <<>>]

Matches(h, r) == r.seq = w[h].seq /\ r.type = w[h].kind

\* Position i of pending holds the first result that worker h looks for.
FirstMatch(h, i) ==
  /\ i \in 1..Len(pending)
  /\ Matches(h, pending[i])
  /\ \A j \in 1..(i - 1) : ~Matches(h, pending[j])

NoMatch(h) == \A i \in 1..Len(pending) : ~Matches(h, pending[i])
-----------------------------------------------------------------------------
(* Requests that push one command                                          *)

\* The push of every command route: 503 when the queue is full; otherwise the
\* load, add and remove handlers wait for the result, the routes in Noted
\* change the mirror, and the others have nothing left to do.
SendCommand(h, kind, arg) ==
  /\ w[h].pc = "idle"
  /\ requests < MaxRequests
  /\ requests' = requests + 1
  /\ seq' = seq + 1
  /\ LET r == [w[h] EXCEPT !.kind = kind, !.arg = arg, !.seq = seq + 1]
     IN  IF Room(cmdq, CmdCap)
         THEN /\ cmdq' = Append(cmdq, Command(kind, arg))
              /\ Goto(h, IF kind \in Awaited THEN [r EXCEPT !.pc = "lock"]
                         ELSE IF kind \in Noted THEN [r EXCEPT !.pc = "note"]
                         ELSE Answer(r, "accepted"))
         ELSE /\ UNCHANGED cmdq
              /\ Goto(h, Answer(r, "unavailable"))
  /\ UNCHANGED <<mirrorVars, engineVars, life, resq, pending, resultLock, nodesLock>>

\* wait_for_result takes result_mutex_ and keeps it until it returns.
LockResults(h) ==
  /\ w[h].pc = "lock"
  /\ resultLock = Free
  /\ resultLock' = h
  /\ Goto(h, [w[h] EXCEPT !.pc = "top"])
  /\ UNCHANGED <<mirrorVars, engineVars, requests, life, seq, cmdq, resq, pending, nodesLock>>

\* Mutant: the deadline is looked at only when the queue has something.
WaitTimeoutBusy(h) ==
  /\ w[h].pc = "top"
  /\ resq # <<>>
  /\ resultLock' = Free
  /\ Goto(h, Answer(w[h], "pending"))
  /\ UNCHANGED <<mirrorVars, engineVars, requests, life, seq, cmdq, resq, pending, nodesLock>>

\* The loop's condition fails: the command stays in flight, the client is told so.
WaitTimeout(h) ==
  /\ w[h].pc = "top"
  /\ resultLock' = Free
  /\ Goto(h, Answer(w[h], "pending"))
  /\ UNCHANGED <<mirrorVars, engineVars, requests, life, seq, cmdq, resq, pending, nodesLock>>

\* Mutant: the status of the result is not looked at.
TakeAnyResult(h, r) ==
  /\ resultLock' = Free
  /\ Goto(h, [w[h] EXCEPT !.pc = "remember", !.todo = <<r>>])

\* wait_for_result returns r: a refused command is reported, any other is remembered.
TakeResult(h, r) ==
  /\ resultLock' = Free
  /\ Goto(h, IF r.ok THEN [w[h] EXCEPT !.pc = "remember", !.todo = <<r>>]
             ELSE Answer(w[h], "unavailable"))

WaitTakePending(h) ==
  /\ w[h].pc = "top"
  /\ \E i \in 1..Len(pending) :
       /\ FirstMatch(h, i)
       /\ TakeResult(h, pending[i])
       /\ pending' = RemoveAt(pending, i)
  /\ UNCHANGED <<mirrorVars, engineVars, requests, life, seq, cmdq, resq, nodesLock>>

WaitMissPending(h) ==
  /\ w[h].pc = "top"
  /\ NoMatch(h)
  /\ Goto(h, [w[h] EXCEPT !.pc = "pop"])
  /\ UNCHANGED <<mirrorVars, engineVars, requests, life, seq, cmdq, resq, pending,
                 resultLock, nodesLock>>

WaitPop(h) ==
  /\ w[h].pc = "pop"
  /\ resq # <<>>
  /\ resq' = Tail(resq)
  /\ \/ /\ Matches(h, Head(resq))
        /\ TakeResult(h, Head(resq))
        /\ UNCHANGED pending
     \/ /\ ~Matches(h, Head(resq))
        /\ pending' = Keep(pending, Head(resq))
        /\ UNCHANGED <<w, resultLock>>
  /\ UNCHANGED <<mirrorVars, engineVars, requests, life, seq, cmdq, nodesLock>>

\* Nothing to pop: sleep, and look at the clock again.
WaitSleep(h) ==
  /\ w[h].pc = "pop"
  /\ resq = <<>>
  /\ Goto(h, [w[h] EXCEPT !.pc = "top"])
  /\ UNCHANGED <<mirrorVars, engineVars, requests, life, seq, cmdq, resq, pending,
                 resultLock, nodesLock>>

\* The handler's remember_* or forget_* call, up to its persist_runtime_nodes.
RememberResult(h) ==
  /\ w[h].pc = "remember"
  /\ nodesLock = Free
  /\ LET r == w[h].todo[1] IN
       \/ /\ w[h].kind = "load"
          /\ RememberLoadedDescriptor(r.name)
          /\ Goto(h, [w[h] EXCEPT !.pc = "persist"])
       \/ /\ w[h].kind = "add"
          /\ RememberRuntimeNode(r.node, r.name)
          /\ Goto(h, [w[h] EXCEPT !.pc = "persist"])
       \/ /\ w[h].kind = "remove"
          /\ ForgetRuntimeNode(r.node)
          /\ Goto(h, [w[h] EXCEPT !.pc = "unvalue"])
  /\ UNCHANGED <<engineVars, requests, life, seq, cmdq, resq, pending, resultLock, nodesLock>>

ForgetValues(h) ==
  /\ w[h].pc = "unvalue"
  /\ ForgetLatestValues(w[h].todo[1].node)
  /\ Goto(h, [w[h] EXCEPT !.pc = "persist"])
  /\ UNCHANGED <<engineVars, requests, life, seq, cmdq, resq, pending, resultLock, nodesLock>>

\* The routes that change the mirror without waiting for the engine.
NoteCommand(h) ==
  /\ w[h].pc = "note"
  /\ nodesLock = Free
  /\ LET arg == w[h].arg
         rest == Answer(w[h], "accepted")
     IN  \/ /\ w[h].kind = "update"
            /\ RememberRuntimeNodeState(arg[1], arg[2])
            /\ Goto(h, [w[h] EXCEPT !.pc = "persist"])
         \/ w[h].kind = "connect"    /\ RememberRuntimeConnection(arg) /\ Goto(h, rest)
         \/ w[h].kind = "disconnect" /\ ForgetRuntimeConnection(arg[1]) /\ Goto(h, rest)
         \/ w[h].kind = "param"      /\ RememberRuntimeParam(<<arg[1], arg[2]>>, arg[3])
                                     /\ Goto(h, rest)
  /\ UNCHANGED <<engineVars, requests, life, seq, cmdq, resq, pending, resultLock, nodesLock>>

\* persist_runtime_nodes, and on to what follows it in the handler.
Persist(h) ==
  /\ w[h].pc = "persist"
  /\ nodesLock = Free
  /\ PersistRuntimeNodes \/ (DiskMayFail /\ UNCHANGED mirrorVars)
  /\ Goto(h, IF w[h].then = "done" THEN Answer(w[h], "accepted")
             ELSE [w[h] EXCEPT !.pc = w[h].then])
  /\ UNCHANGED <<engineVars, requests, life, seq, cmdq, resq, pending, resultLock, nodesLock>>
-----------------------------------------------------------------------------
(* GET /runtime/nodes: drain_result_snapshots, then                        *)
(* request_live_runtime_nodes_snapshot, then the report                    *)

RequestNodes(h) ==
  /\ w[h].pc = "idle"
  /\ requests < MaxRequests
  /\ requests' = requests + 1
  /\ Goto(h, [w[h] EXCEPT !.pc = "drain", !.kind = "nodes"])
  /\ UNCHANGED <<mirrorVars, engineVars, life, seq, cmdq, resq, pending, resultLock, nodesLock>>

\* Under result_mutex_: copy what is pending, and what the queue holds, which
\* becomes pending too.
DrainResults(h) ==
  /\ w[h].pc = "drain"
  /\ resultLock = Free
  /\ pending' = LastOf(pending \o resq, PendingCap)
  /\ resq' = <<>>
  /\ Goto(h, [w[h] EXCEPT !.todo = pending \o resq,
                          !.pc = IF pending \o resq = <<>> THEN "snap" ELSE "apply"])
  /\ UNCHANGED <<mirrorVars, engineVars, requests, life, seq, cmdq, resultLock, nodesLock>>

\* Under runtime_nodes_mutex_: every copy is applied, those already applied by
\* an earlier request too.
ApplyDrained(h) ==
  /\ w[h].pc = "apply"
  /\ nodesLock \in {Free, h}
  /\ RememberResultSnapshot(Head(w[h].todo))
  /\ LET rest == Tail(w[h].todo)
         changed == Applies(Head(w[h].todo)) \/ w[h].changed
     IN  /\ nodesLock' = IF rest = <<>> THEN Free ELSE h
         /\ Goto(h, [w[h] EXCEPT !.todo = rest, !.changed = changed, !.then = "snap",
                                 !.pc = IF rest # <<>> THEN "apply"
                                        ELSE IF changed THEN "persist" ELSE "snap"])
  /\ UNCHANGED <<engineVars, requests, life, seq, cmdq, resq, pending, resultLock>>

PushSnapshotRequest(h) ==
  /\ w[h].pc = "snap"
  /\ seq' = seq + 1
  /\ LET r == [w[h] EXCEPT !.seq = seq + 1, !.changed = FALSE]
     IN  IF Room(cmdq, CmdCap)
         THEN /\ cmdq' = Append(cmdq, Command("nodes", <<>>))
              /\ Goto(h, [r EXCEPT !.pc = "clear"])
         ELSE /\ UNCHANGED cmdq
              /\ Goto(h, [r EXCEPT !.pc = "report"])
  /\ UNCHANGED <<mirrorVars, engineVars, requests, life, resq, pending, resultLock, nodesLock>>

ClearMirror(h) ==
  /\ w[h].pc = "clear"
  /\ nodesLock = Free
  /\ ClearRuntimeNodes
  /\ Goto(h, [w[h] EXCEPT !.pc = "poll", !.then = "report"])
  /\ UNCHANGED <<engineVars, requests, life, seq, cmdq, resq, pending, resultLock, nodesLock>>

\* Mutant: what was merged is persisted only if the snapshot was completed.
PollEndCompleted(h) ==
  /\ Goto(h, [w[h] EXCEPT !.pc = IF w[h].changed /\ w[h].completed THEN "persist" ELSE "report"])
  /\ UNCHANGED <<mirrorVars, engineVars, requests, life, seq, cmdq, resq, pending,
                 resultLock, nodesLock>>

\* The poll loop ends; what it merged is persisted.
PollEnd(h) ==
  /\ Goto(h, [w[h] EXCEPT !.pc = IF w[h].changed THEN "persist" ELSE "report"])
  /\ UNCHANGED <<mirrorVars, engineVars, requests, life, seq, cmdq, resq, pending,
                 resultLock, nodesLock>>

PollDone(h)    == w[h].pc = "poll" /\ w[h].completed  /\ PollEnd(h)
PollTimeout(h) == w[h].pc = "poll" /\ ~w[h].completed /\ PollEnd(h)

PollLock(h) ==
  /\ w[h].pc = "poll"
  /\ ~w[h].completed
  /\ resultLock = Free
  /\ resultLock' = h
  /\ Goto(h, [w[h] EXCEPT !.pc = "merge"])
  /\ UNCHANGED <<mirrorVars, engineVars, requests, life, seq, cmdq, resq, pending, nodesLock>>

\* merge_runtime_snapshot_result, which takes runtime_nodes_mutex_ unless r is
\* the marker, and the polling loop's `changed`.
MergeSnapshotResult(h, r) ==
  /\ \/ IsMarker(r) /\ UNCHANGED mirrorVars
     \/ ~IsMarker(r) /\ nodesLock = Free /\ RememberResultSnapshot(r)
  /\ Goto(h, [w[h] EXCEPT
       !.completed = IsMarker(r) \/ @,
       !.changed = r.node # NoId \/ (r.code # NoId /\ r.conn[1] # NoId) \/ @])

MergePending(h) ==
  /\ w[h].pc = "merge"
  /\ \E i \in 1..Len(pending) :
       /\ FirstMatch(h, i)
       /\ MergeSnapshotResult(h, pending[i])
       /\ pending' = RemoveAt(pending, i)
  /\ UNCHANGED <<engineVars, requests, life, seq, cmdq, resq, resultLock, nodesLock>>

MergeMissPending(h) ==
  /\ w[h].pc = "merge"
  /\ NoMatch(h)
  /\ Goto(h, [w[h] EXCEPT !.pc = "mergepop"])
  /\ UNCHANGED <<mirrorVars, engineVars, requests, life, seq, cmdq, resq, pending,
                 resultLock, nodesLock>>

MergePop(h) ==
  /\ w[h].pc = "mergepop"
  /\ resq # <<>>
  /\ resq' = Tail(resq)
  /\ \/ /\ Matches(h, Head(resq))
        /\ MergeSnapshotResult(h, Head(resq))
        /\ UNCHANGED pending
     \/ /\ ~Matches(h, Head(resq))
        /\ pending' = Keep(pending, Head(resq))
        /\ UNCHANGED <<mirrorVars, w>>
  /\ UNCHANGED <<engineVars, requests, life, seq, cmdq, resultLock, nodesLock>>

\* Mutant: result_mutex_ is kept over the sleep.
MergeSleepLocked(h) ==
  /\ w[h].pc = "mergepop"
  /\ resq = <<>>
  /\ Goto(h, [w[h] EXCEPT !.pc = "poll"])
  /\ UNCHANGED <<mirrorVars, engineVars, requests, life, seq, cmdq, resq, pending,
                 resultLock, nodesLock>>

\* The queue is empty: release result_mutex_, sleep, and look at the clock again.
MergeSleep(h) ==
  /\ w[h].pc = "mergepop"
  /\ resq = <<>>
  /\ resultLock' = Free
  /\ Goto(h, [w[h] EXCEPT !.pc = "poll"])
  /\ UNCHANGED <<mirrorVars, engineVars, requests, life, seq, cmdq, resq, pending, nodesLock>>

Report(h) ==
  /\ w[h].pc = "report"
  /\ nodesLock = Free
  /\ Goto(h, [Answer(w[h], "ok") EXCEPT !.nodes = DOMAIN nodes])
  /\ UNCHANGED <<mirrorVars, engineVars, requests, life, seq, cmdq, resq, pending,
                 resultLock, nodesLock>>

\* The response is written; the worker takes the next request.
Return(h) ==
  /\ w[h].pc = "done"
  /\ Goto(h, IdleWorker)
  /\ UNCHANGED <<mirrorVars, engineVars, requests, life, seq, cmdq, resq, pending,
                 resultLock, nodesLock>>

\* The telemetry thread remembers a value of some node that the engine had.
RememberValue(n) ==
  /\ "value" \in Kinds
  /\ RememberLatestValue(n)
  /\ UNCHANGED <<bridgeVars, engineVars>>
-----------------------------------------------------------------------------
(* The process ends, in a clean stop or not, and is started again: the     *)
(* queues are shared memory and stay.                                      *)

NewLife(image) ==
  /\ life < MaxLives
  /\ life' = life + 1
  /\ LoadRuntimeNodesFromDisk(image)
  /\ w' = [h \in H |-> IdleWorker]
  /\ seq' = 0
  /\ pending' = <<>>
  /\ resultLock' = Free
  /\ nodesLock' = Free
  /\ UNCHANGED <<engineVars, requests, cmdq, resq>>

Restart == NewLife(disk)

\* The process dies while it writes the file.
CrashInPersist(h) ==
  /\ w[h].pc = "persist"
  /\ nodesLock = Free
  /\ \E image \in TruncatedImages : NewLife(image)
-----------------------------------------------------------------------------
(* The engine (external)                                                   *)

NewEntry(name) == [name |-> name, state |-> DefaultState]

\* The id the engine gives to the next node.
FreshId(n) == n \in NodeIds \ DOMAIN eng.nodes
              /\ \A m \in NodeIds \ DOMAIN eng.nodes : n <= m

\* The engine's graph without some nodes and the connections of those.
Without(ids) ==
  [nodes |-> Drop(eng.nodes, ids),
   conns |-> Drop(eng.conns, {c \in DOMAIN eng.conns : Touches(eng.conns[c], ids)})]

Ack(c) == {Result(c, TRUE, NoId, 0, 0, NoWire)}

Snapshot(c) ==
  {Result(c, TRUE, n, eng.nodes[n].name, eng.nodes[n].state, NoWire) : n \in DOMAIN eng.nodes}
    \cup {Result(c, TRUE, NoId, 0, 0, eng.conns[k]) : k \in DOMAIN eng.conns}
    \cup {Result(c, TRUE, NoId, 0, NoId, NoWire)}

EngineLoad(c) ==
  /\ c.type = "load"
  /\ eng' = Without({n \in DOMAIN eng.nodes : eng.nodes[n].name = c.arg[1]})
  /\ outbox' = {Result(c, TRUE, NoId, c.arg[1], 0, NoWire)}

EngineAdd(c) ==
  /\ c.type = "add"
  /\ \E n \in NodeIds :
       /\ FreshId(n)
       /\ eng' = [eng EXCEPT !.nodes = Put(@, n, NewEntry(c.arg[1]))]
       /\ outbox' = {Result(c, TRUE, n, c.arg[1], 0, NoWire)}

EngineRemove(c) ==
  /\ c.type = "remove"
  /\ c.arg[1] \in DOMAIN eng.nodes
  /\ eng' = Without({c.arg[1]})
  /\ outbox' = {Result(c, TRUE, c.arg[1], 0, 0, NoWire)}

EngineChange(c) ==
  /\ outbox' = Ack(c)
  /\ \/ /\ c.type = "update"
        /\ c.arg[1] \in DOMAIN eng.nodes
        /\ eng' = [eng EXCEPT !.nodes[c.arg[1]].state = c.arg[2]]
     \/ /\ c.type = "connect"
        /\ {c.arg[2], c.arg[3]} \subseteq DOMAIN eng.nodes
        /\ eng' = [eng EXCEPT !.conns = Put(@, c.arg[1], c.arg)]
     \/ /\ c.type = "disconnect"
        /\ eng' = [eng EXCEPT !.conns = Drop(@, {c.arg[1]})]
     \/ /\ c.type \in {"param", "control"}
        /\ UNCHANGED eng

EngineSnapshot(c) ==
  /\ c.type = "nodes"
  /\ outbox' = Snapshot(c)
  /\ UNCHANGED eng

EngineRefuse(c) ==
  /\ outbox' = {Result(c, FALSE, NoId, 0, 0, NoWire)}
  /\ UNCHANGED eng

EngineTake ==
  /\ outbox = {}
  /\ cmdq # <<>>
  /\ cmdq' = Tail(cmdq)
  /\ LET c == Head(cmdq)
     IN  \/ EngineLoad(c) \/ EngineAdd(c) \/ EngineRemove(c) \/ EngineChange(c)
         \/ EngineSnapshot(c) \/ EngineRefuse(c)
  /\ UNCHANGED <<mirrorVars, w, requests, life, seq, resq, pending, resultLock, nodesLock>>

\* Entries of a snapshot come in any order, its marker last.
EnginePush ==
  /\ Room(resq, ResCap)
  /\ \E r \in outbox :
       /\ IsMarker(r) => outbox = {r}
       /\ resq' = Append(resq, r)
       /\ outbox' = outbox \ {r}
  /\ UNCHANGED <<mirrorVars, eng, w, requests, life, seq, cmdq, pending, resultLock, nodesLock>>
-----------------------------------------------------------------------------
Init ==
  /\ MirrorInit
  /\ w = [h \in H |-> IdleWorker]
  /\ requests = 0
  /\ life = 1
  /\ seq = 0
  /\ cmdq = <<>>
  /\ resq = <<>>
  /\ pending = <<>>
  /\ resultLock = Free
  /\ nodesLock = Free
  /\ eng = [nodes |-> Empty, conns |-> Empty]
  /\ outbox = {}

\* A request arrives.
Receive(h) ==
  \/ \E kind \in Kinds \ {"nodes", "value"} : \E arg \in Args(kind) : SendCommand(h, kind, arg)
  \/ "nodes" \in Kinds /\ RequestNodes(h)

\* A step that the thread takes as soon as the locks allow it.
Step(h) ==
  \/ LockResults(h) \/ WaitTakePending(h) \/ WaitMissPending(h) \/ WaitPop(h) \/ WaitSleep(h)
  \/ RememberResult(h) \/ ForgetValues(h) \/ NoteCommand(h) \/ Persist(h)
  \/ DrainResults(h) \/ ApplyDrained(h) \/ PushSnapshotRequest(h) \/ ClearMirror(h)
  \/ PollDone(h) \/ PollLock(h) \/ MergePending(h) \/ MergeMissPending(h) \/ MergePop(h)
  \/ MergeSleep(h) \/ Report(h) \/ Return(h)

\* A deadline has passed.
Timeout(h) == WaitTimeout(h) \/ PollTimeout(h)

\* Every worker may be waiting for a connection: the process is not stuck.
Quiet == (\A h \in H : w[h].pc = "idle") /\ UNCHANGED vars

Next ==
  \/ \E h \in H : Receive(h) \/ Step(h) \/ Timeout(h) \/ CrashInPersist(h)
  \/ \E n \in DOMAIN eng.nodes : RememberValue(n)
  \/ Restart \/ EngineTake \/ EnginePush \/ Quiet

Spec == Init /\ [][Next]_vars

\* Threads are scheduled, and the clock advances: a loop that looks at its
\* deadline again and again finds it passed.  Nothing is asked of the engine.
Fairness == \A h \in H : WF_vars(Step(h)) /\ SF_vars(Timeout(h))

FairSpec == Spec /\ Fairness
-----------------------------------------------------------------------------
(* Types                                                                   *)

Pcs == {"idle", "lock", "top", "pop", "remember", "unvalue", "note", "persist", "drain",
        "apply", "snap", "clear", "poll", "merge", "mergepop", "report", "done"}

AllArgs == UNION {Args(k) : k \in AllKinds}

Commands ==
  {c \in [life : Nat, seq : Nat, type : AllKinds, arg : AllArgs] : c.arg \in Args(c.type)}

\* An accepted load names the descriptor it loaded.
Results ==
  {r \in [life : Nat, seq : Nat, type : AllKinds, ok : BOOLEAN, node : Keys, name : Labels,
          code : 0..NoId, conn : Wire] :
     r.type = "load" /\ r.ok => r.name \in Names}

Handlers ==
  {r \in [pc : Pcs, kind : AllKinds \cup {"none"}, arg : AllArgs, seq : Nat,
          todo : Seq(Results), changed : BOOLEAN, completed : BOOLEAN,
          then : {"done", "snap", "report"},
          status : {"none", "ok", "accepted", "pending", "unavailable"},
          nodes : SUBSET Keys] :
     r.arg \in Args(r.kind)}

EngineTypeOK ==
  /\ eng = [nodes |-> eng.nodes, conns |-> eng.conns]
  /\ IsMap(eng.nodes, NodeIds, [name : Names, state : Bytes])
  /\ IsMap(eng.conns, Nat, Wire)
  /\ outbox \subseteq Results

\* Every variable keeps its type: the wrap of a status code to a byte and the
\* ids that end up as keys of the maps are the parts that can fail.
TypeOK ==
  /\ MirrorTypeOK
  /\ w \in [H -> Handlers]
  /\ requests \in 0..MaxRequests /\ life \in Nat /\ seq \in Nat
  /\ cmdq \in Seq(Commands)
  /\ resq \in Seq(Results)
  /\ pending \in Seq(Results)
  /\ {resultLock, nodesLock} \subseteq H \cup {Free}
  /\ EngineTypeOK
-----------------------------------------------------------------------------
(* Safety                                                                  *)

\* A worker between its push and the result it waits for.
Waiting(h) == w[h].pc \in {"lock", "top", "pop"}

\* A mutex has one holder: result_mutex_ is held exactly over the steps of a
\* wait and of a merge, runtime_nodes_mutex_ over those of an application.
LocksHeldBySteps ==
  /\ \A h \in H : (resultLock = h) <=> w[h].pc \in {"top", "pop", "merge", "mergepop"}
  /\ \A h \in H : nodesLock = h => w[h].pc = "apply"

\* m answers the command that worker h sent in this run of the process.
Answers(h, m) == m.life = life /\ m.seq = w[h].seq /\ m.type = w[h].kind

\* While a handler waits, its command or the result of it is somewhere the
\* handler will look, whichever worker popped it from the result queue first.
\* It needs room in pending_results_ for every result that others leave there.
AwaitedKept ==
  \A h \in H : Waiting(h) =>
    \/ \E i \in 1..Len(cmdq) : Answers(h, cmdq[i])
    \/ \E r \in outbox : Answers(h, r)
    \/ \E i \in 1..Len(resq) : Answers(h, resq[i])
    \/ \E i \in 1..Len(pending) : Answers(h, pending[i])

\* A result leaves pending_results_ only when the worker that looks for it
\* takes it, as one of the oldest of a list over its limit, of which as many
\* leave as the step brings in too many, or with the process.
KeptUntilFull ==
  [][\A i \in 1..Len(pending) :
       \/ \E j \in 1..Len(pending') : pending'[j] = pending[i]
       \/ \E h \in H : w[h].pc \in {"top", "merge"} /\ Matches(h, pending[i])
       \/ i <= Len(pending) + (Len(resq) - Len(resq')) - PendingCap
       \/ life' # life]_vars

\* On its way to the disk: a worker that will persist, or that will once it
\* leaves the loop it is in.
WillPersist(h) ==
  \/ w[h].pc \in {"unvalue", "persist"}
  \/ w[h].pc \in {"apply", "poll", "merge", "mergepop"} /\ w[h].changed

\* What the mirror knows of a node or a descriptor is on disk, or a worker is
\* about to write it: a restart loses nothing that no worker is working on
\* (persist_runtime_nodes is a separate call, behind a `changed` flag in the
\* drain and in the snapshot).
MirrorDurable ==
  \/ \E h \in H : WillPersist(h)
  \/ /\ descs = disk.descs
     /\ \A n \in DOMAIN nodes :
          /\ n \in DOMAIN disk.nodes
          /\ disk.nodes[n] = DiskImage.nodes[n]

\* With one worker, a report that follows the clearing of the mirror names no
\* node that the engine does not have, and all it has if the snapshot completed:
\* nothing of an earlier, late snapshot or of a late result gets in.
SnapshotSound ==
  \A h \in H : w[h].pc = "done" /\ w[h].kind = "nodes" /\ w[h].then = "report" =>
    /\ w[h].nodes \subseteq DOMAIN eng.nodes
    /\ w[h].completed => w[h].nodes = DOMAIN eng.nodes

\* No entry of the mirror is named UINT32_MAX, the id the API refuses to work on.
NoPhantomNode == NoId \notin DOMAIN nodes
-----------------------------------------------------------------------------
(* The abstract specification                                              *)

\* The results that answer the command of worker h, wherever they are.
ResultsFor(h) ==
  {r \in outbox \cup {resq[i] : i \in 1..Len(resq)} \cup {pending[i] : i \in 1..Len(pending)}
         \cup {w[h].todo[i] : i \in 1..Len(w[h].todo)} : Answers(h, r)}

\* From the push to the reply of a handler that waits for its result.
InService(h) == w[h].kind \in Awaited /\ w[h].pc # "done"

\* What the engine said to the command that worker h waits for.
Verdict(h) ==
  IF ~InService(h) \/ ResultsFor(h) = {} THEN "none"
  ELSE IF \A r \in ResultsFor(h) : r.ok THEN "yes" ELSE "no"

Promise == INSTANCE Service WITH
  Clients <- H, Waited <- Awaited,
  kind    <- [h \in H |-> w[h].kind],
  verdict <- [h \in H |-> Verdict(h)],
  reply   <- [h \in H |-> w[h].status]

\* The waits, the shared queue and list of results, the timeouts and the drains
\* of other workers implement one promise: a client is told "accepted" only if
\* the engine accepted its command, and "unavailable" only if the engine refused
\* it or never got it.  As long as pending_results_ has room, and for one run of
\* the process: seq does not name a command beyond that.
ImplementsService == Promise!Spec
-----------------------------------------------------------------------------
(* Liveness                                                                *)

\* Every request is answered, whatever the engine does: no wait outlives its
\* deadline and no lock is kept.
EveryRequestReplied ==
  \A h \in H : w[h].pc # "idle" ~> w[h].pc = "done"
=============================================================================
