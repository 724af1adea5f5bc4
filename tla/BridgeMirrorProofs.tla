------------------------- MODULE BridgeMirrorProofs -------------------------
(***************************************************************************)
(* What the mirror says is true of the engine, and on disk: MirrorDurable  *)
(* with a state file that can be written, and SnapshotSound with one       *)
(* worker in one run of the process.                                       *)
(***************************************************************************)
EXTENDS BridgeResultProofs

\* The entry of a snapshot that names no node is its marker or names a connection.
Named(m) == m.type = "nodes" /\ m.ok /\ m.node = NoId /\ m.code # NoId => m.conn[1] # NoId

\* The engine's connections have usable ids, so that the entries of its
\* snapshots are told from nodes.
Entries ==
  /\ \A k \in DOMAIN eng.conns : eng.conns[k][1] # NoId
  /\ \A m \in Found : Named(m)

\* What the mirror knows is on disk.
Saved ==
  /\ descs = disk.descs
  /\ \A n \in DOMAIN nodes :
       /\ n \in DOMAIN disk.nodes
       /\ disk.nodes[n] = DiskImage.nodes[n]

-----------------------------------------------------------------------------
(* The report of a snapshot                                                *)

\* There are no two workers.
OneWorker == \A g, h \in H : g = h

\* The handler of h has asked the engine for a snapshot: up to its reply.
Asked(h) ==
  \/ w[h].pc \in {"clear", "poll", "merge", "mergepop"}
  \/ w[h].pc \in {"persist", "report", "done"} /\ w[h].then = "report"

\* The nodes that the report will have, as far as the mirror knows them.
Shown(h) == IF w[h].pc = "clear" THEN {} ELSE IF w[h].pc = "done" THEN w[h].nodes ELSE DOMAIN nodes

\* The results that carry the number of the request.
Mine(h) == {m \in Found : m.seq = w[h].seq}

\* The engine has not come to the request.
Before(h) ==
  /\ cmdq # <<>> /\ cmdq[Len(cmdq)].seq = w[h].seq /\ cmdq[Len(cmdq)].type = "nodes"
  /\ Mine(h) = {}
  /\ Shown(h) = {} /\ ~w[h].completed

\* It has, and does nothing more until the next command: the entries are on
\* their way in front of the marker, or in the mirror.
After(h) ==
  /\ cmdq = <<>>
  /\ \A m \in ToSet(pending) : m.seq # w[h].seq
  /\ \A m \in Mine(h) :
       /\ m.type = "nodes"
       /\ m.ok /\ m.node # NoId => m.node \in DOMAIN eng.nodes
  /\ \A i \in 1..Len(resq) :
       resq[i].seq = w[h].seq /\ IsMarker(resq[i]) => i = Len(resq) /\ outbox = {}
  /\ Shown(h) \subseteq DOMAIN eng.nodes
  /\ w[h].completed \/ (\E m \in Mine(h) : IsMarker(m)) =>
       \A n \in DOMAIN eng.nodes : n \in Shown(h) \/ \E m \in Mine(h) : m.ok /\ m.node = n
  /\ w[h].completed => Mine(h) = {}

\* A handler's flags belong to its own snapshot.
Later(r) ==
  /\ r.completed => r.then = "report"
  /\ r.pc \in {"drain", "apply", "snap", "clear"} => r.then # "report"

SInv ==
  \A h \in H : Later(w[h]) /\ (life = 1 /\ Asked(h) => Before(h) \/ After(h))
-----------------------------------------------------------------------------
(* What results say                                                        *)

\* Every connection of the engine has an id that a client has given to it.
LEMMA EngineEntries ==
  ASSUME RInv, Entries, EngineTake
  PROVE  /\ \A k \in DOMAIN eng'.conns : eng'.conns[k][1] # NoId
         /\ \A m \in outbox' : Named(m)
<1>1. /\ EngineTypeOK /\ Head(cmdq) \in Commands
    BY RInvQueues, HeadTailType DEF EngineTake, IInv
<1>2. eng = [nodes |-> eng.nodes, conns |-> eng.conns] /\ IsMap(eng.nodes, NodeIds, [name : Names, state : Bytes])
    BY <1>1 DEF EngineTypeOK
<1>3. PICK c \in Commands : \/ EngineLoad(c) \/ EngineAdd(c) \/ EngineRemove(c) \/ EngineChange(c)
                            \/ EngineSnapshot(c) \/ EngineRefuse(c)
    BY <1>1 DEF EngineTake
<1>4. \A ids : \A k \in DOMAIN Without(ids).conns : Without(ids).conns[k][1] # NoId
  <2> SUFFICES ASSUME NEW ids, NEW k \in DOMAIN Without(ids).conns
               PROVE  Without(ids).conns[k][1] # NoId
      OBVIOUS
  <2>1. k \in DOMAIN eng.conns /\ Without(ids).conns[k] = eng.conns[k]
      BY DEF Without, Drop, Restrict
  <2>2. QED
      BY <2>1 DEF Entries
<1>5. CASE EngineLoad(c) \/ EngineRemove(c)
  <2>1. \A k \in DOMAIN eng'.conns : eng'.conns[k][1] # NoId
      BY <1>4, <1>5 DEF EngineLoad, EngineRemove
  <2>2. \A m \in outbox' : m.type # "nodes"
      BY <1>5, EngineAnswers DEF EngineLoad, EngineRemove
  <2>3. QED
      BY <2>1, <2>2 DEF Named
<1>6. CASE EngineAdd(c)
  <2>1. eng'.conns = eng.conns
      BY <1>2, <1>6 DEF EngineAdd
  <2>2. \A m \in outbox' : m.type # "nodes"
      BY <1>6, EngineAnswers DEF EngineAdd
  <2>3. QED
      BY <2>1, <2>2 DEF Named, Entries
<1>7. CASE EngineChange(c)
  <2>1. \A m \in outbox' : m.type # "nodes"
      BY <1>7, EngineAnswers DEF EngineChange
  <2>2. CASE c.type = "connect" /\ eng' = [eng EXCEPT !.conns = Put(@, c.arg[1], c.arg)]
    <3>1. c.arg[1] # NoId
      <4>1. c.arg \in Args("connect")
          BY <2>2, CommandFields
      <4>2. \A arg \in Args("connect") : arg[1] \in ConnIds
          BY DEF Args
      <4>3. QED
          BY <4>1, <4>2, BridgeAssumption
    <3>2. eng'.conns = Put(eng.conns, c.arg[1], c.arg)
        BY <1>2, <2>2
    <3>3. \A k \in DOMAIN eng'.conns : eng'.conns[k] = c.arg
                                       \/ (k \in DOMAIN eng.conns /\ eng'.conns[k] = eng.conns[k])
        BY <3>2 DEF Put
    <3>4. \A k \in DOMAIN eng'.conns : eng'.conns[k][1] # NoId
        BY <3>1, <3>3 DEF Entries
    <3>5. QED
        BY <2>1, <3>4 DEF Named
  <2>3. CASE eng' = [eng EXCEPT !.conns = Drop(@, {c.arg[1]})]
    <3>1. eng'.conns = Drop(eng.conns, {c.arg[1]})
        BY <1>2, <2>3
    <3>2. \A k \in DOMAIN eng'.conns : k \in DOMAIN eng.conns /\ eng'.conns[k] = eng.conns[k]
        BY <3>1 DEF Drop, Restrict
    <3>3. QED
        BY <2>1, <3>2 DEF Named, Entries
  <2>4. CASE eng'.conns = eng.conns
      BY <2>1, <2>4 DEF Named, Entries
  <2>5. QED
      BY <1>2, <1>7, <2>2, <2>3, <2>4 DEF EngineChange
<1>8. CASE EngineSnapshot(c)
  <2>1. eng' = eng /\ outbox' = Snapshot(c)
      BY <1>8 DEF EngineSnapshot
  <2>2. \A m \in Snapshot(c) : m.node \in NodeIds \/ m.conn[1] # NoId \/ m.code = NoId
    <3>1. \A n \in DOMAIN eng.nodes : n \in NodeIds
        BY <1>2 DEF IsMap
    <3>2. QED
        BY <3>1 DEF Snapshot, Result, Entries
  <2>3. NoId \notin NodeIds
      BY MirrorAssumption
  <2>4. QED
      BY <2>1, <2>2, <2>3 DEF Named, Entries
<1>9. CASE EngineRefuse(c)
  <2>1. eng' = eng /\ \A m \in outbox' : m.ok = FALSE
      BY <1>9 DEF EngineRefuse, Result
  <2>2. QED
      BY <2>1 DEF Named, Entries
<1>10. QED
    BY <1>3, <1>5, <1>6, <1>7, <1>8, <1>9

\* Nothing but the engine makes results, or changes its graph.
LEMMA OnlyEngineAnswers ==
  ASSUME RInv, IInv', [Next]_vars, ~EngineTake
  PROVE  Found' \subseteq Found /\ eng' = eng
<1>1. CASE UNCHANGED vars
    BY <1>1 DEF vars, bridgeVars, engineVars, Found
<1>2. ASSUME NEW h \in H, Receive(h) PROVE Found' \subseteq Found /\ eng' = eng
    BY <1>2 DEF Receive, SendCommand, RequestNodes, engineVars, Found
<1>3. ASSUME NEW h \in H, Step(h) \/ Timeout(h) PROVE Found' \subseteq Found /\ eng' = eng
  <2>1. Moved(h) => Found' \subseteq Found
      BY DEF Moved
  <2>2. PushSnapshotRequest(h) \/ Return(h) => Found' \subseteq Found
      BY DEF PushSnapshotRequest, Return, engineVars, Found
  <2>3. Found' \subseteq Found
      BY <1>3, <2>1, <2>2, StepMoves
  <2>4. eng' = eng
      BY <1>3 DEF Step, Timeout, LockResults, WaitTakePending, WaitMissPending, WaitPop, WaitSleep,
         RememberResult, ForgetValues, NoteCommand, Persist, DrainResults, ApplyDrained,
         PushSnapshotRequest, ClearMirror, PollDone, PollTimeout, PollEnd, PollLock, MergePending,
         MergeMissPending, MergePop, MergeSleep, Report, Return, WaitTimeout, engineVars
  <2>5. QED
      BY <2>3, <2>4
<1>4. CASE Restart \/ \E h \in H : CrashInPersist(h)
  <2>1. PICK image : NewLife(image)
      BY <1>4 DEF Restart, CrashInPersist
  <2>2. UNCHANGED <<eng, outbox, resq>> /\ pending' = <<>>
      BY <2>1 DEF NewLife, engineVars
  <2>3. QED
      BY <2>2, SmallSets DEF Found
<1>5. ASSUME NEW n \in DOMAIN eng.nodes, RememberValue(n) PROVE Found' \subseteq Found /\ eng' = eng
    BY <1>5 DEF RememberValue, bridgeVars, engineVars, Found
<1>6. CASE EnginePush
    BY <1>6, PushFacts DEF EnginePush
<1>7. QED
    BY <1>1, <1>2, <1>3, <1>4, <1>5, <1>6 DEF Next, Quiet

\* Entries is an invariant.
LEMMA NextEntries == RInv /\ IInv' /\ Entries /\ [Next]_vars => Entries'
<1> SUFFICES ASSUME RInv, IInv', Entries, [Next]_vars PROVE Entries'
    OBVIOUS
<1>1. CASE EngineTake
  <2>1. \A m \in Found' : m \in Found \/ m \in outbox'
      BY <1>1, IdsTake
  <2>2. \A m \in Found' : Named(m)
      BY <1>1, <2>1, EngineEntries DEF Entries
  <2>3. QED
      BY <1>1, <2>2, EngineEntries DEF Entries
<1>2. CASE ~EngineTake
    BY <1>2, OnlyEngineAnswers DEF Entries
<1>3. QED
    BY <1>1, <1>2

LEMMA InitEntries == Init => Entries
<1> SUFFICES ASSUME Init PROVE Entries
    OBVIOUS
<1>1. Found = {} /\ eng.conns = Empty
    BY SmallSets DEF Init, Found
<1>2. QED
    BY <1>1 DEF Entries, Empty
-----------------------------------------------------------------------------
(* What the mirror knows is on disk, or a handler is about to write it     *)

LEMMA DurableIs == MirrorDurable <=> Saved \/ \E h \in H : WillPersist(h)
BY DEF MirrorDurable, Saved

\* What the file is compared with.
LEMMA SavedStays ==
  ASSUME UNCHANGED <<nodes, states, descs, disk>>
  PROVE  Saved' <=> Saved
BY DEF Saved, DiskImage

\* How the step of one handler keeps the mirror durable: it will persist, it has
\* persisted, or there was nothing to persist and there still is nothing.
LEMMA DurableStep ==
  ASSUME RInv, MirrorDurable, NEW h \in H, w' = [w EXCEPT ![h] = w'[h]],
         \/ WillPersist(h)' \/ Saved'
         \/ ~WillPersist(h) /\ (Saved => Saved')
  PROVE  Saved' \/ \E g \in H : WillPersist(g)'
<1>1. CASE WillPersist(h)' \/ Saved'
    BY <1>1
<1>2. CASE ~WillPersist(h) /\ (Saved => Saved')
  <2>1. ASSUME NEW g \in H, WillPersist(g) PROVE WillPersist(g)'
    <3>1. g # h /\ w'[g] = w[g]
        BY <1>2, <2>1 DEF RInv
    <3>2. QED
        BY <2>1, <3>1 DEF WillPersist
  <2>2. QED
      BY <1>2, <2>1, DurableIs
<1>3. QED
    BY <1>1, <1>2

\* The step writes one record.
LEMMA OneRecord ==
  ASSUME RInv, IInv', NEW h \in H, Receive(h) \/ Step(h) \/ Timeout(h)
  PROVE  w' = [w EXCEPT ![h] = w'[h]] /\ \A g \in H : g # h => w'[g] = w[g]
<1>1. w' = [w EXCEPT ![h] = w'[h]]
  <2>1. Moved(h) => w' = [w EXCEPT ![h] = w'[h]]
      BY DEF Moved
  <2>2. PushSnapshotRequest(h) => w' = [w EXCEPT ![h] = w'[h]]
      BY SnapshotMoves DEF SentSnapshot
  <2>3. Return(h) \/ RequestNodes(h) => w' = [w EXCEPT ![h] = w'[h]]
      BY EdgeMoves
  <2>4. ASSUME NEW kind \in Kinds \ {"nodes", "value"}, NEW arg \in Args(kind),
               SendCommand(h, kind, arg)
        PROVE  w' = [w EXCEPT ![h] = w'[h]]
    <3>1. kind \in AllKinds \ {"nodes", "value"}
        BY BridgeAssumption
    <3>2. Sent(h, kind)
        BY <2>4, <3>1, SendMoves
    <3>3. QED
        BY <3>2 DEF Sent
  <2>5. QED
      BY <2>1, <2>2, <2>3, <2>4, StepMoves DEF Receive
<1>2. QED
    BY <1>1 DEF RInv

\* The handler of a route that has changed the mirror persists it.
LEMMA RemembersDurably ==
  ASSUME RInv, IInv', NEW h \in H, RememberResult(h) \/ ForgetValues(h)
  PROVE  WillPersist(h)'
<1>1. w[h] \in Handlers /\ w \in [H -> Workers]
    BY RoutedFields DEF RInv, IInv
<1>2. w'[h].pc \in {"persist", "unvalue"}
    BY <1>1 DEF RememberResult, ForgetValues, Goto, Handlers
<1>3. QED
    BY <1>2 DEF WillPersist

LEMMA NotesDurably ==
  ASSUME RInv, IInv', NEW h \in H, NoteCommand(h)
  PROVE  WillPersist(h)' \/ (~WillPersist(h) /\ UNCHANGED <<nodes, states, descs, disk>>)
<1>1. w[h] \in Handlers /\ w \in [H -> Workers] /\ w[h].pc = "note"
    BY RoutedFields DEF RInv, IInv, NoteCommand
<1>2. ~WillPersist(h)
    BY <1>1 DEF WillPersist
<1>3. CASE Goto(h, [w[h] EXCEPT !.pc = "persist"])
    BY <1>1, <1>3 DEF WillPersist, Goto, Handlers
<1>4. CASE UNCHANGED <<nodes, states, descs, disk>>
    BY <1>2, <1>4
<1>5. QED
    BY <1>3, <1>4 DEF NoteCommand, RememberRuntimeConnection, ForgetRuntimeConnection,
       RememberRuntimeParam

\* persist_runtime_nodes writes what the mirror has.
LEMMA PersistSaves ==
  ASSUME DiskMayFail = FALSE, NEW h \in H, Persist(h)
  PROVE  Saved'
<1>1. disk' = DiskImage /\ UNCHANGED <<nodes, states, descs>>
    BY DEF Persist, PersistRuntimeNodes, graphVars
<1>2. DiskImage' = DiskImage
    BY <1>1 DEF DiskImage
<1>3. DiskImage.descs = descs /\ DOMAIN DiskImage.nodes = DOMAIN nodes
    BY DEF DiskImage
<1>4. QED
    BY <1>1, <1>2, <1>3 DEF Saved

\* What a result that changes nothing leaves.
LEMMA NotApplied ==
  ASSUME NEW r, RememberResultSnapshot(r), ~Applies(r)
  PROVE  UNCHANGED <<nodes, states, descs, disk>>
BY DEF RememberResultSnapshot, graphVars

\* The drain knows when it has changed the mirror.
LEMMA AppliesDurably ==
  ASSUME RInv, IInv', NEW h \in H, ApplyDrained(h)
  PROVE  WillPersist(h)' \/ (~WillPersist(h) /\ UNCHANGED <<nodes, states, descs, disk>>)
<1>1. w[h] \in Handlers /\ w \in [H -> Workers] /\ w[h].pc = "apply"
    BY RoutedFields DEF RInv, IInv, ApplyDrained
<1> DEFINE r == Head(w[h].todo)
           changed == Applies(r) \/ w[h].changed
<1>2. w'[h].changed = changed /\ w'[h].pc \in {"apply", "persist", "snap"}
      /\ (w'[h].pc = "snap" => ~changed)
    BY <1>1 DEF ApplyDrained, Goto, Handlers
<1>3. CASE changed
    BY <1>2, <1>3 DEF WillPersist
<1>4. CASE ~changed
  <2>1. ~WillPersist(h)
      BY <1>1, <1>4 DEF WillPersist
  <2>2. RememberResultSnapshot(r)
      BY DEF ApplyDrained
  <2>3. QED
      BY <1>4, <2>1, <2>2, NotApplied
<1>5. QED
    BY <1>3, <1>4

\* So does the poll: an entry that it takes for no change changes nothing.
LEMMA MergesDurably ==
  ASSUME RInv, IInv', NEW h \in H, w[h].pc \in {"merge", "mergepop"},
         NEW m, Named(m), Matches(h, m), MergeSnapshotResult(h, m)
  PROVE  WillPersist(h)' \/ (~WillPersist(h) /\ UNCHANGED <<nodes, states, descs, disk>>)
<1>1. w[h] \in Handlers /\ w \in [H -> Workers] /\ w[h].kind = "nodes"
    BY RoutedFields DEF RInv, IInv, Route
<1> DEFINE touched == m.node # NoId \/ (m.code # NoId /\ m.conn[1] # NoId)
<1>2. w'[h].changed = (touched \/ w[h].changed) /\ w'[h].pc = w[h].pc
    BY <1>1 DEF MergeSnapshotResult, Goto, Handlers
<1>3. CASE touched \/ w[h].changed
    BY <1>2, <1>3 DEF WillPersist
<1>4. CASE ~(touched \/ w[h].changed)
  <2>1. ~WillPersist(h)
      BY <1>4 DEF WillPersist
  <2>2. CASE IsMarker(m)
      BY <2>1, <2>2 DEF MergeSnapshotResult, IsMarker, mirrorVars, graphVars
  <2>3. CASE ~IsMarker(m)
    <3>1. RememberResultSnapshot(m)
        BY <2>3 DEF MergeSnapshotResult
    <3>2. m.node = NoId /\ m.code # NoId /\ m.conn[1] = NoId /\ m.type = "nodes"
        BY <1>1, <1>4, <2>3 DEF IsMarker, Matches
    <3>3. ~Applies(m)
        BY <3>2 DEF Named, Applies
    <3>4. QED
        BY <2>1, <3>1, <3>3, NotApplied
  <2>4. QED
      BY <2>2, <2>3
<1>5. QED
    BY <1>3, <1>4

LEMMA MergingDurably ==
  ASSUME RInv, IInv', Entries, NEW h \in H, MergePending(h) \/ MergePop(h)
  PROVE  \/ WillPersist(h)' \/ (~WillPersist(h) /\ UNCHANGED <<nodes, states, descs, disk>>)
         \/ UNCHANGED <<w, mirrorVars>>
<1>1. resq \in Seq(Results) /\ pending \in Seq(Results)
    BY RInvQueues
<1>2. CASE MergePending(h)
  <2>1. PICK i \in 1..Len(pending) : FirstMatch(h, i) /\ MergeSnapshotResult(h, pending[i])
      BY <1>2 DEF MergePending
  <2>2. pending[i] \in Found
      BY <1>1, InSeq DEF Found
  <2>3. QED
      BY <1>2, <2>1, <2>2, MergesDurably DEF MergePending, FirstMatch, Entries
<1>3. CASE MergePop(h)
  <2>1. Head(resq) \in Found
      BY <1>1, <1>3, TailSet DEF MergePop, Found
  <2>2. QED
      BY <1>3, <2>1, MergesDurably DEF MergePop, Entries
<1>4. QED
    BY <1>2, <1>3

\* The steps that keep the mirror and the handler's intention to persist it.
LEMMA MovesDurably ==
  ASSUME RInv, IInv', NEW h \in H,
         \/ LockResults(h) \/ WaitMissPending(h) \/ WaitSleep(h) \/ WaitTimeout(h)
         \/ WaitTakePending(h) \/ WaitPop(h) \/ DrainResults(h) \/ PushSnapshotRequest(h)
         \/ PollDone(h) \/ PollTimeout(h) \/ PollLock(h) \/ MergeMissPending(h) \/ MergeSleep(h)
         \/ Report(h) \/ Return(h) \/ Receive(h)
  PROVE  /\ UNCHANGED <<nodes, states, descs, disk>>
         /\ ~WillPersist(h) \/ WillPersist(h)'
<1>1. w[h] \in Handlers /\ w \in [H -> Workers]
    BY RoutedFields DEF RInv, IInv
<1>2. CASE \/ LockResults(h) \/ WaitMissPending(h) \/ WaitSleep(h) \/ WaitTimeout(h)
           \/ WaitTakePending(h) \/ WaitPop(h) \/ DrainResults(h) \/ PushSnapshotRequest(h)
           \/ Report(h) \/ Return(h) \/ Receive(h)
  <2>1. UNCHANGED mirrorVars
      BY <1>2 DEF LockResults, WaitMissPending, WaitSleep, WaitTimeout, WaitTakePending, WaitPop,
         DrainResults, PushSnapshotRequest, Report, Return, Receive, SendCommand, RequestNodes
  <2>2. ~WillPersist(h)
      BY <1>2 DEF LockResults, WaitMissPending, WaitSleep, WaitTimeout, WaitTakePending, WaitPop,
         DrainResults, PushSnapshotRequest, Report, Return, Receive, SendCommand, RequestNodes,
         WillPersist
  <2>3. QED
      BY <2>1, <2>2 DEF mirrorVars, graphVars
<1>3. CASE PollDone(h) \/ PollTimeout(h) \/ PollLock(h) \/ MergeMissPending(h) \/ MergeSleep(h)
  <2>1. UNCHANGED mirrorVars
      BY <1>3 DEF PollDone, PollTimeout, PollEnd, PollLock, MergeMissPending, MergeSleep
  <2>2. w[h].pc \in {"poll", "merge", "mergepop"} /\ w'[h].changed = w[h].changed
      BY <1>1, <1>3 DEF PollDone, PollTimeout, PollEnd, PollLock, MergeMissPending, MergeSleep,
         Goto, Handlers
  <2>3. w[h].changed => w'[h].pc \in {"persist", "poll", "merge", "mergepop"}
      BY <1>1, <1>3 DEF PollDone, PollTimeout, PollEnd, PollLock, MergeMissPending, MergeSleep,
         Goto, Handlers
  <2>4. QED
      BY <2>1, <2>2, <2>3 DEF WillPersist, mirrorVars, graphVars
<1>4. QED
    BY <1>2, <1>3

\* A process that starts has what its file has.
LEMMA LoadedIsSaved ==
  ASSUME NEW image, IsImage(image), NewLife(image)
  PROVE  Saved'
<1>1. /\ nodes' = [n \in DOMAIN image.nodes |-> image.nodes[n].name]
      /\ states' = [n \in DOMAIN image.nodes |-> image.nodes[n].state]
      /\ descs' = image.descs /\ disk' = image
    BY DEF NewLife, LoadRuntimeNodesFromDisk
<1>2. ASSUME NEW n \in DOMAIN image.nodes
      PROVE  image.nodes[n] = [name |-> image.nodes[n].name, state |-> image.nodes[n].state]
  <2>1. image.nodes[n] \in Records
      BY DEF IsImage, IsMap
  <2>2. QED
      BY <2>1 DEF Records
<1>3. DOMAIN nodes' = DOMAIN image.nodes /\ DOMAIN states' = DOMAIN image.nodes
    BY <1>1
<1>4. ASSUME NEW n \in DOMAIN image.nodes
      PROVE  DiskImage'.nodes[n] = image.nodes[n]
  <2>1. DiskImage'.nodes[n] = [name |-> nodes'[n],
                               state |-> IF n \in DOMAIN states' THEN states'[n] ELSE DefaultState]
      BY <1>3 DEF DiskImage
  <2>2. nodes'[n] = image.nodes[n].name /\ states'[n] = image.nodes[n].state
      BY <1>1
  <2>3. QED
      BY <1>2, <1>3, <2>1, <2>2
<1>5. QED
    BY <1>1, <1>3, <1>4 DEF Saved

\* Every step keeps the mirror durable.
LEMMA NextDurable ==
  ASSUME DiskMayFail = FALSE, RInv, IInv', Entries, MirrorDurable, [Next]_vars
  PROVE  Saved' \/ \E h \in H : WillPersist(h)'
<1> DEFINE SameMirror == UNCHANGED <<nodes, states, descs, disk>>
<1>1. ASSUME UNCHANGED w, SameMirror PROVE Saved' \/ \E h \in H : WillPersist(h)'
  <2>1. \A h \in H : WillPersist(h) => WillPersist(h)'
      BY <1>1 DEF WillPersist
  <2>2. QED
      BY <1>1, <2>1, DurableIs, SavedStays
<1>2. CASE UNCHANGED vars \/ EngineTake \/ EnginePush \/ \E n \in DOMAIN eng.nodes : RememberValue(n)
    BY <1>1, <1>2 DEF vars, bridgeVars, mirrorVars, graphVars, EngineTake, EnginePush, RememberValue,
       RememberLatestValue
<1>3. CASE Restart \/ \E h \in H : CrashInPersist(h)
  <2>1. PICK image : NewLife(image) /\ (image = disk \/ image \in TruncatedImages)
      BY <1>3 DEF Restart, CrashInPersist
  <2>2. IsImage(image)
      BY <2>1, DiskOK, TruncatedImagesOK DEF RInv, IInv
  <2>3. QED
      BY <2>1, <2>2, LoadedIsSaved
<1>4. ASSUME NEW h \in H, Receive(h) \/ Step(h) \/ Timeout(h)
      PROVE  Saved' \/ \E g \in H : WillPersist(g)'
  <2>1. w' = [w EXCEPT ![h] = w'[h]]
      BY <1>4, OneRecord
  <2>2. SameMirror => (Saved => Saved')
      BY SavedStays
  <2>3. CASE RememberResult(h) \/ ForgetValues(h)
      BY <2>1, <2>3, DurableStep, RemembersDurably
  <2>4. CASE NoteCommand(h)
      BY <2>1, <2>2, <2>4, DurableStep, NotesDurably
  <2>5. CASE Persist(h)
      BY <2>1, <2>5, DurableStep, PersistSaves
  <2>6. CASE ApplyDrained(h)
      BY <2>1, <2>2, <2>6, DurableStep, AppliesDurably
  <2>7. CASE MergePending(h) \/ MergePop(h)
    <3>1. CASE UNCHANGED <<w, mirrorVars>>
        BY <1>1, <3>1 DEF mirrorVars, graphVars
    <3>2. QED
        BY <2>1, <2>2, <2>7, <3>1, DurableStep, MergingDurably
  <2>8. CASE ClearMirror(h)
    <3>1. ~WillPersist(h)
        BY <2>8 DEF ClearMirror, WillPersist
    <3>2. nodes' = Empty /\ UNCHANGED <<descs, disk>>
        BY <2>8 DEF ClearMirror, ClearRuntimeNodes
    <3>3. Saved => Saved'
        BY <3>2 DEF Saved, Empty
    <3>4. QED
        BY <2>1, <3>1, <3>3, DurableStep
  <2>9. CASE \/ LockResults(h) \/ WaitMissPending(h) \/ WaitSleep(h) \/ WaitTimeout(h)
             \/ WaitTakePending(h) \/ WaitPop(h) \/ DrainResults(h) \/ PushSnapshotRequest(h)
             \/ PollDone(h) \/ PollTimeout(h) \/ PollLock(h) \/ MergeMissPending(h) \/ MergeSleep(h)
             \/ Report(h) \/ Return(h) \/ Receive(h)
    <3>1. SameMirror /\ (~WillPersist(h) \/ WillPersist(h)')
        BY <2>9, MovesDurably
    <3>2. QED
        BY <2>1, <2>2, <3>1, DurableStep
  <2>10. QED
      BY <1>4, <2>3, <2>4, <2>5, <2>6, <2>7, <2>8, <2>9 DEF Step, Timeout
<1>5. QED
    BY <1>2, <1>3, <1>4 DEF Next, Quiet

\* When the state file can be written, what the mirror knows of nodes and
\* descriptors is on disk or a handler is about to write it, for any number of
\* concurrent handlers, late results, restarts and crashes in the middle of a
\* write: no path of api.cpp changes the mirror and forgets persist_runtime_nodes.
THEOREM MirrorIsDurable == ASSUME DiskMayFail = FALSE PROVE Spec => []MirrorDurable
<1>1. Init => MirrorDurable
  <2>1. Init => nodes = Empty /\ descs = disk.descs
      BY DEF Init, MirrorInit, NoDisk
  <2>2. QED
      BY <2>1 DEF MirrorDurable, Empty
<1>2. RInv /\ IInv' /\ Entries /\ MirrorDurable /\ [Next]_vars => MirrorDurable'
  <2>1. RInv /\ IInv' /\ Entries /\ MirrorDurable /\ [Next]_vars
          => Saved' \/ \E h \in H : WillPersist(h)'
      BY NextDurable
  <2>2. (Saved \/ \E h \in H : WillPersist(h))' => MirrorDurable'
    <3>1. (MirrorDurable <=> Saved \/ \E h \in H : WillPersist(h))'
        BY DurableIs, PTL
    <3>2. QED
        BY <3>1
  <2>3. QED
      BY <2>1, <2>2
<1>3. QED
    BY <1>1, <1>2, SpecRInv, SpecIInv, InitEntries, NextEntries, PTL DEF Spec
-----------------------------------------------------------------------------
(* The flags of a snapshot                                                 *)

\* What the push of a request writes.
LEMMA PushWrites ==
  ASSUME RInv, NEW h \in H, PushSnapshotRequest(h)
  PROVE  /\ w[h].pc = "snap" /\ w'[h].then = w[h].then /\ w'[h].completed = w[h].completed
         /\ w'[h].seq = seq + 1
         /\ \/ cmdq' = Append(cmdq, Command("nodes", <<>>)) /\ w'[h].pc = "clear"
            \/ w'[h].pc = "report"
<1> DEFINE r == [w[h] EXCEPT !.seq = seq + 1, !.changed = FALSE]
           u == [r EXCEPT !.pc = "clear"]
           v == [r EXCEPT !.pc = "report"]
<1>1. w[h] \in Handlers
    BY RoutedFields
<1>2. \/ cmdq' = Append(cmdq, Command("nodes", <<>>)) /\ Goto(h, u)
      \/ Goto(h, v)
    BY DEF PushSnapshotRequest
<1>3. /\ u.then = w[h].then /\ u.completed = w[h].completed /\ u.seq = seq + 1 /\ u.pc = "clear"
      /\ v.then = w[h].then /\ v.completed = w[h].completed /\ v.seq = seq + 1 /\ v.pc = "report"
    BY <1>1 DEF Handlers
<1> HIDE DEF r, u, v
<1>4. (cmdq' = Append(cmdq, Command("nodes", <<>>)) /\ w'[h] = u) \/ w'[h] = v
    BY <1>2, Written
<1>5. w[h].pc = "snap"
    BY DEF PushSnapshotRequest
<1>6. QED
    BY <1>3, <1>4, <1>5

\* A handler sets its flags in its own snapshot only.
LEMMA LaterStep ==
  ASSUME RInv, IInv', NEW h \in H, Later(w[h]), Receive(h) \/ Step(h) \/ Timeout(h)
  PROVE  Later(w'[h])
<1>1. w[h] \in Handlers /\ Route(w[h]) /\ w \in [H -> Workers] /\ Shape(w[h])
    BY RoutedFields DEF RInv, IInv, Workers
<1> USE DEF Goto
<1>2. CASE RequestNodes(h) \/ \E kind \in Kinds : \E arg \in Args(kind) : SendCommand(h, kind, arg)
  <2>1. w[h] = IdleWorker
      BY <1>1, <1>2 DEF Shape, RequestNodes, SendCommand
  <2>2. w'[h].then = "done" /\ w'[h].completed = FALSE
    <3>1. CASE RequestNodes(h)
        BY <1>1, <2>1, <3>1 DEF RequestNodes, IdleWorker
    <3>2. ASSUME NEW kind, NEW arg, SendCommand(h, kind, arg)
          PROVE  w'[h].then = "done" /\ w'[h].completed = FALSE
      <4> DEFINE r == [w[h] EXCEPT !.kind = kind, !.arg = arg, !.seq = seq + 1]
      <4>1. r.then = "done" /\ r.completed = FALSE
          BY <2>1 DEF IdleWorker
      <4>2. \A pc : [r EXCEPT !.pc = pc].then = "done" /\ [r EXCEPT !.pc = pc].completed = FALSE
          BY <2>1 DEF IdleWorker
      <4>3. \A x : Answer(r, x).then = "done" /\ Answer(r, x).completed = FALSE
          BY <2>1 DEF IdleWorker, Answer
      <4>4. \/ Goto(h, [r EXCEPT !.pc = "lock"]) \/ Goto(h, [r EXCEPT !.pc = "note"])
            \/ Goto(h, Answer(r, "accepted")) \/ Goto(h, Answer(r, "unavailable"))
          BY <3>2 DEF SendCommand
      <4>5. w'[h] \in {[r EXCEPT !.pc = "lock"], [r EXCEPT !.pc = "note"],
                       Answer(r, "accepted"), Answer(r, "unavailable")}
          BY <4>4, Written
      <4>6. QED
          BY <4>2, <4>3, <4>5
    <3>3. QED
        BY <1>2, <3>1, <3>2
  <2>3. QED
      BY <2>2 DEF Later
<1>3. CASE \/ LockResults(h) \/ WaitMissPending(h) \/ WaitSleep(h) \/ WaitTimeout(h)
           \/ RememberResult(h) \/ ForgetValues(h) \/ NoteCommand(h)
           \/ PollDone(h) \/ PollTimeout(h) \/ PollLock(h) \/ MergeMissPending(h) \/ MergeSleep(h)
  <2> DEFINE Flags == w'[h].then = w[h].then /\ w'[h].completed = w[h].completed
             Off   == w'[h].pc \notin {"drain", "apply", "snap", "clear"}
  <2>1. CASE LockResults(h) \/ WaitMissPending(h) \/ WaitSleep(h)
    <3>1. Flags /\ Off
        BY <1>1, <2>1 DEF LockResults, WaitMissPending, WaitSleep, Handlers
    <3>2. QED
        BY <3>1 DEF Later
  <2>2. CASE WaitTimeout(h)
    <3>1. Flags /\ Off
        BY <1>1, <2>2 DEF WaitTimeout, Answer, Handlers
    <3>2. QED
        BY <3>1 DEF Later
  <2>3. CASE RememberResult(h) \/ ForgetValues(h)
    <3>1. Flags /\ Off
        BY <1>1, <2>3 DEF RememberResult, ForgetValues, Handlers
    <3>2. QED
        BY <3>1 DEF Later
  <2>4. CASE NoteCommand(h)
    <3>1. w'[h] \in {[w[h] EXCEPT !.pc = "persist"], Answer(w[h], "accepted")}
      <4> HIDE DEF Goto
      <4>1. Goto(h, [w[h] EXCEPT !.pc = "persist"]) \/ Goto(h, Answer(w[h], "accepted"))
          BY <2>4 DEF NoteCommand
      <4>2. QED
          BY <4>1, Written
    <3>2. \A u \in {[w[h] EXCEPT !.pc = "persist"], Answer(w[h], "accepted")} :
            u.then = w[h].then /\ u.completed = w[h].completed /\ u.pc \in {"persist", "done"}
        BY <1>1 DEF Answer, Handlers
    <3>3. Flags /\ Off
        BY <3>1, <3>2
    <3>4. QED
        BY <3>3 DEF Later
  <2>5. CASE PollDone(h) \/ PollTimeout(h)
    <3>1. Flags /\ Off
        BY <1>1, <2>5 DEF PollDone, PollTimeout, PollEnd, Handlers
    <3>2. QED
        BY <3>1 DEF Later
  <2>6. CASE PollLock(h) \/ MergeMissPending(h) \/ MergeSleep(h)
    <3>1. Flags /\ Off
        BY <1>1, <2>6 DEF PollLock, MergeMissPending, MergeSleep, Handlers
    <3>2. QED
        BY <3>1 DEF Later
  <2>7. QED
      BY <1>3, <2>1, <2>2, <2>3, <2>4, <2>5, <2>6
<1>4. CASE WaitTakePending(h) \/ WaitPop(h)
  <2>1. CASE w' = w
      BY <2>1
  <2>2. CASE \E m : TakeResult(h, m)
    <3>1. /\ w'[h].then = w[h].then /\ w'[h].completed = w[h].completed
          /\ w'[h].pc \in {"remember", "done"}
        BY <1>1, <2>2 DEF TakeResult, Answer, Handlers
    <3>2. QED
        BY <3>1 DEF Later
  <2>3. QED
      BY <1>4, <2>1, <2>2 DEF WaitTakePending, WaitPop
<1>5. CASE Persist(h)
  <2>1. /\ w'[h].then = w[h].then /\ w'[h].completed = w[h].completed
        /\ w'[h].pc = "done" \/ w'[h].pc = w[h].then
      BY <1>1, <1>5 DEF Persist, Answer, Handlers
  <2>2. QED
      BY <2>1 DEF Later
<1>6. CASE DrainResults(h)
  <2>1. /\ w'[h].then = w[h].then /\ w'[h].completed = w[h].completed
        /\ w[h].pc = "drain"
      BY <1>1, <1>6 DEF DrainResults, Handlers
  <2>2. QED
      BY <2>1 DEF Later
<1>7. CASE ApplyDrained(h)
  <2>1. w'[h].then = "snap" /\ w'[h].completed = w[h].completed /\ w[h].pc = "apply"
      BY <1>1, <1>7 DEF ApplyDrained, Handlers
  <2>2. QED
      BY <2>1 DEF Later
<1>8. CASE PushSnapshotRequest(h)
  <2>1. w'[h].then = w[h].then /\ w'[h].completed = w[h].completed /\ w[h].pc = "snap"
      BY <1>8, PushWrites
  <2>2. QED
      BY <2>1 DEF Later
<1>9. CASE ClearMirror(h)
  <2>1. w'[h].then = "report" /\ w'[h].pc = "poll"
      BY <1>1, <1>9 DEF ClearMirror, Handlers
  <2>2. QED
      BY <2>1 DEF Later
<1>10. CASE MergePending(h) \/ MergePop(h)
  <2>1. w[h].pc \in {"merge", "mergepop"} /\ w[h].then = "report"
      BY <1>1, <1>10 DEF MergePending, MergePop, Route
  <2>2. w'[h].pc = w[h].pc /\ w'[h].then = w[h].then
    <3>1. CASE w' = w
        BY <3>1
    <3>2. CASE \E m : MergeSnapshotResult(h, m)
        BY <1>1, <3>2 DEF MergeSnapshotResult, Handlers
    <3>3. QED
        BY <1>10, <3>1, <3>2 DEF MergePending, MergePop
  <2>3. QED
      BY <2>1, <2>2 DEF Later
<1>11. CASE Report(h)
  <2>1. w'[h].then = w[h].then /\ w'[h].completed = w[h].completed /\ w'[h].pc = "done"
      BY <1>1, <1>11 DEF Report, Answer, Handlers
  <2>2. QED
      BY <2>1 DEF Later
<1>12. CASE Return(h)
  <2>1. w'[h] = IdleWorker
      BY <1>1, <1>12 DEF Return
  <2>2. QED
      BY <2>1 DEF Later, IdleWorker
<1>13. QED
    BY <1>2, <1>3, <1>4, <1>5, <1>6, <1>7, <1>8, <1>9, <1>10, <1>11, <1>12 DEF Receive, Step, Timeout
-----------------------------------------------------------------------------
(* Before and after the engine's answer                                    *)

\* Results can only become fewer before the engine has come to the request.
LEMMA BeforeStays ==
  ASSUME NEW h \in H, Before(h), w'[h].seq = w[h].seq, cmdq' = cmdq, Found' \subseteq Found,
         Shown(h)' = Shown(h), w'[h].completed = w[h].completed
  PROVE  Before(h)'
<1>1. Mine(h)' \subseteq Mine(h)
    BY DEF Mine
<1>2. QED
    BY <1>1 DEF Before

LEMMA AfterStays ==
  ASSUME NEW h \in H, After(h), w'[h].seq = w[h].seq, UNCHANGED <<cmdq, eng, resq, outbox, pending>>,
         Shown(h)' = Shown(h), w'[h].completed = w[h].completed
  PROVE  After(h)'
<1>1. Mine(h)' = Mine(h)
    BY DEF Mine, Found
<1>2. QED
    BY <1>1 DEF After

\* The steps of the handler on its way from the request to the reply, other than
\* those that take results.
LEMMA CalmSteps ==
  ASSUME RInv, IInv', NEW h \in H, Later(w[h]), Asked(h) => Before(h) \/ After(h), Asked(h)',
         \/ ClearMirror(h) \/ PollDone(h) \/ PollTimeout(h) \/ PollLock(h) \/ MergeMissPending(h)
         \/ MergeSleep(h) \/ Persist(h) \/ Report(h)
  PROVE  (Before(h) \/ After(h))'
<1>1. w[h] \in Handlers /\ Route(w[h]) /\ w \in [H -> Workers]
    BY RoutedFields DEF RInv, IInv
<1> USE DEF Goto
<1>2. UNCHANGED <<cmdq, eng, resq, outbox, pending>> /\ Found' = Found
    BY DEF ClearMirror, PollDone, PollTimeout, PollEnd, PollLock, MergeMissPending, MergeSleep,
       Persist, Report, engineVars, Found
<1>3. w'[h].seq = w[h].seq /\ w'[h].completed = w[h].completed
  <2>1. CASE PollLock(h) \/ MergeMissPending(h) \/ MergeSleep(h)
      BY <1>1, <2>1 DEF PollLock, MergeMissPending, MergeSleep, Handlers
  <2>5. CASE ClearMirror(h)
      BY <1>1, <2>5 DEF ClearMirror, Handlers
  <2>2. CASE PollDone(h) \/ PollTimeout(h)
      BY <1>1, <2>2 DEF PollDone, PollTimeout, PollEnd, Handlers
  <2>3. CASE Persist(h)
      BY <1>1, <2>3 DEF Persist, Answer, Handlers
  <2>4. CASE Report(h)
      BY <1>1, <2>4 DEF Report, Answer, Handlers
  <2>6. QED
      BY <2>1, <2>2, <2>3, <2>4, <2>5
<1>4. Asked(h) /\ Shown(h)' = Shown(h)
  <2>1. CASE ClearMirror(h)
    <3>1. w[h].pc = "clear" /\ w'[h].pc = "poll" /\ nodes' = Empty
        BY <1>1, <2>1 DEF ClearMirror, ClearRuntimeNodes, Handlers
    <3>2. QED
        BY <3>1 DEF Asked, Shown, Empty
  <2>2. CASE PollDone(h) \/ PollTimeout(h) \/ PollLock(h) \/ MergeMissPending(h) \/ MergeSleep(h)
    <3>1. /\ w[h].pc \in {"poll", "merge", "mergepop"} /\ nodes' = nodes
          /\ w'[h].pc \in {"persist", "report", "poll", "merge", "mergepop"}
        BY <1>1, <2>2 DEF PollDone, PollTimeout, PollEnd, PollLock, MergeMissPending, MergeSleep,
           mirrorVars, graphVars, Handlers
    <3>2. QED
        BY <3>1 DEF Asked, Shown
  <2>3. CASE Persist(h)
    <3>1. /\ w[h].pc = "persist" /\ nodes' = nodes /\ w'[h].then = w[h].then
          /\ w'[h].pc = (IF w[h].then = "done" THEN "done" ELSE w[h].then)
        BY <1>1, <2>3 DEF Persist, PersistRuntimeNodes, mirrorVars, graphVars, Answer, Handlers
    <3>2. w[h].then = "report" /\ w'[h].pc = "report"
        BY <1>1, <3>1 DEF Asked, Handlers
    <3>3. QED
        BY <3>1, <3>2 DEF Asked, Shown
  <2>4. CASE Report(h)
    <3>1. /\ w[h].pc = "report" /\ w'[h].then = w[h].then /\ w'[h].pc = "done"
          /\ w'[h].nodes = DOMAIN nodes
        BY <1>1, <2>4 DEF Report, Answer, Handlers
    <3>2. QED
        BY <3>1 DEF Asked, Shown
  <2>5. QED
      BY <2>1, <2>2, <2>3, <2>4
<1>5. QED
    BY <1>2, <1>3, <1>4, BeforeStays, AfterStays

\* The steps of other requests, and those before the snapshot is asked for.
LEMMA UnaskedSteps ==
  ASSUME RInv, IInv', NEW h \in H, Later(w[h]),
         \/ LockResults(h) \/ WaitMissPending(h) \/ WaitSleep(h) \/ WaitTimeout(h)
         \/ WaitTakePending(h) \/ WaitPop(h) \/ RememberResult(h) \/ ForgetValues(h)
         \/ NoteCommand(h) \/ DrainResults(h) \/ ApplyDrained(h) \/ Return(h) \/ Receive(h)
  PROVE  ~Asked(h)'
<1>1. w[h] \in Handlers /\ Route(w[h]) /\ w \in [H -> Workers] /\ Shape(w[h])
    BY RoutedFields DEF RInv, IInv, Workers
<1> USE DEF Goto
<1>2. CASE Receive(h)
  <2>1. w[h] = IdleWorker
      BY <1>1, <1>2 DEF Shape, Receive, RequestNodes, SendCommand
  <2>2. w'[h].then = "done" /\ w'[h].pc \notin {"clear", "poll", "merge", "mergepop"}
    <3>1. CASE RequestNodes(h)
        BY <1>1, <2>1, <3>1 DEF RequestNodes, IdleWorker
    <3>2. ASSUME NEW kind \in Kinds \ {"nodes", "value"}, NEW arg \in Args(kind),
                 SendCommand(h, kind, arg)
          PROVE  w'[h].then = "done" /\ w'[h].pc \notin {"clear", "poll", "merge", "mergepop"}
      <4>1. kind \in AllKinds \ {"nodes", "value"}
          BY BridgeAssumption
      <4>2. Sent(h, kind)
          BY <3>2, <4>1, SendMoves
      <4>3. w'[h].kind = kind /\ Route(w'[h])
          BY <4>2 DEF Sent, Routed
      <4>4. QED
          BY <4>3 DEF Route
    <3>3. QED
        BY <1>2, <3>1, <3>2 DEF Receive
  <2>3. QED
      BY <2>2 DEF Asked
<1>3. CASE \/ LockResults(h) \/ WaitMissPending(h) \/ WaitSleep(h) \/ WaitTimeout(h)
           \/ WaitTakePending(h) \/ WaitPop(h) \/ RememberResult(h) \/ ForgetValues(h)
           \/ NoteCommand(h)
  <2>1. w[h].kind # "nodes" /\ w[h].pc \notin {"snap", "done"}
      BY <1>1, <1>3 DEF LockResults, WaitMissPending, WaitSleep, WaitTimeout, WaitTakePending,
         WaitPop, RememberResult, ForgetValues, NoteCommand, Route, Awaited, Noted
  <2>2. Moved(h)
      BY <1>3, <2>1, StepMoves DEF Step, Timeout, PushSnapshotRequest, Return
  <2>3. Route(w'[h]) /\ w'[h].kind = w[h].kind
      BY <2>2 DEF Moved, Routed
  <2>4. QED
      BY <2>1, <2>3 DEF Route, Asked
<1>4. CASE DrainResults(h)
  <2>1. w'[h].pc \in {"apply", "snap"}
      BY <1>1, <1>4 DEF DrainResults, Handlers
  <2>2. QED
      BY <2>1 DEF Asked
<1>5. CASE ApplyDrained(h)
  <2>1. w'[h].pc \in {"apply", "persist", "snap"} /\ w'[h].then = "snap"
      BY <1>1, <1>5 DEF ApplyDrained, Handlers
  <2>2. QED
      BY <2>1 DEF Asked
<1>6. CASE Return(h)
    BY <1>1, <1>6 DEF Return, Asked, IdleWorker
<1>7. QED
    BY <1>2, <1>3, <1>4, <1>5, <1>6

\* The push of the request: no result has its number yet.
LEMMA PushesRequest ==
  ASSUME RInv, IInv', NEW h \in H, Later(w[h]), life = 1, PushSnapshotRequest(h), Asked(h)'
  PROVE  Before(h)'
<1>1. w[h] \in Handlers /\ w \in [H -> Workers] /\ w[h].pc = "snap"
    BY RoutedFields DEF RInv, IInv, PushSnapshotRequest
<1>2. w[h].then # "report" /\ w[h].completed = FALSE
    BY <1>1 DEF Later, Handlers
<1>3. w'[h].then = w[h].then /\ w'[h].completed = w[h].completed /\ w'[h].seq = seq + 1
    BY PushWrites
<1>4. cmdq' = Append(cmdq, Command("nodes", <<>>)) /\ w'[h].pc = "clear"
    BY <1>2, <1>3, PushWrites DEF Asked
<1>5. cmdq' # <<>> /\ cmdq'[Len(cmdq')] = Command("nodes", <<>>)
    BY <1>4, RInvQueues
<1>6. Command("nodes", <<>>).seq = w'[h].seq /\ Command("nodes", <<>>).type = "nodes"
    BY <1>3 DEF Command, PushSnapshotRequest
<1>7. Found' = Found
    BY DEF PushSnapshotRequest, engineVars, Found
<1>8. \A m \in Found : m.seq # w'[h].seq
  <2> SUFFICES ASSUME NEW m \in Found PROVE m.seq # w'[h].seq
      OBVIOUS
  <2>1. m.life \in 1..life /\ (m.life = life => m.seq <= seq)
      BY DEF RInv, Ids, Flight
  <2>2. m \in Results /\ m.seq \in Nat
      BY RInvQueues, InSeq DEF Found, Results
  <2>3. m.seq <= seq /\ seq \in Nat
      BY <2>1, RInvQueues
  <2>4. QED
      BY <1>3, <2>2, <2>3
<1>9. Mine(h)' = {} /\ Shown(h)' = {}
    BY <1>4, <1>7, <1>8 DEF Mine, Shown
<1>10. QED
    BY <1>2, <1>3, <1>5, <1>6, <1>9 DEF Before

\* Nobody has put a result of the request aside.
LEMMA NothingPending ==
  ASSUME RInv, NEW h \in H, Before(h) \/ After(h)
  PROVE  ~MergePending(h)
<1> SUFFICES ASSUME NEW i \in 1..Len(pending), FirstMatch(h, i) PROVE FALSE
    BY DEF MergePending
<1>1. pending[i].seq = w[h].seq
    BY DEF FirstMatch, Matches
<1>2. pending[i] \in ToSet(pending)
    BY RInvQueues, InSeq
<1>3. QED
    BY <1>1, <1>2 DEF Before, After, Mine, Found

\* A result popped too early is of another request.
LEMMA BeforeMerges ==
  ASSUME RInv, NEW h \in H, Before(h), MergePop(h)
  PROVE  Before(h)'
<1>1. Head(resq) \in Found
    BY RInvQueues, TailSet DEF MergePop, Found
<1>2. ~Matches(h, Head(resq))
    BY <1>1 DEF Before, Mine, Matches
<1>3. UNCHANGED <<nodes, w, cmdq, outbox>> /\ pending' = Keep(pending, Head(resq))
    BY <1>2 DEF MergePop, mirrorVars, graphVars, engineVars
<1>4. Found' \subseteq Found
    BY <1>3, PopKeeps DEF MergePop
<1>5. Shown(h)' = Shown(h)
    BY <1>3 DEF Shown
<1>6. QED
    BY <1>3, <1>4, <1>5, BeforeStays

\* What an entry of the snapshot does to the mirror.
LEMMA EntryShown ==
  ASSUME NEW r, Named(r), r.type = "nodes", ~IsMarker(r), RememberResultSnapshot(r)
  PROVE  DOMAIN nodes' = DOMAIN nodes \cup (IF r.ok /\ r.node # NoId THEN {r.node} ELSE {})
<1>1. CASE ~Applies(r)
  <2>1. nodes' = nodes /\ ~r.ok
      BY <1>1 DEF RememberResultSnapshot, graphVars, Applies
  <2>2. QED
      BY <2>1
<1>2. CASE Applies(r)
  <2>1. r.ok /\ (ApplyConnectionEntry(r) \/ ApplyNode(r))
      BY <1>2 DEF RememberResultSnapshot, Applies, ApplyLoad, ApplyRemove
  <2>2. CASE ApplyConnectionEntry(r)
      BY <2>2 DEF ApplyConnectionEntry, IsConnectionEntry
  <2>3. CASE ApplyNode(r)
    <3>1. r.node # NoId
        BY <2>1, <2>3 DEF ApplyNode, IsConnectionEntry, Named, IsMarker
    <3>2. DOMAIN nodes' = DOMAIN nodes \cup {r.node}
        BY <2>3 DEF ApplyNode, Put
    <3>3. QED
        BY <2>1, <3>1, <3>2
  <2>4. QED
      BY <2>1, <2>2, <2>3
<1>3. QED
    BY <1>1, <1>2

\* The results that a pop leaves, and the place of the marker in what it leaves.
LEMMA PopLeaves ==
  ASSUME RInv, NEW h \in H, After(h), MergePop(h), w'[h].seq = w[h].seq,
         ToSet(pending') \subseteq ToSet(pending) \cup {Head(resq)},
         \A m \in ToSet(pending') : m.seq # w[h].seq
  PROVE  /\ cmdq' = <<>> /\ eng' = eng
         /\ \A m \in ToSet(pending') : m.seq # w'[h].seq
         /\ Mine(h)' \subseteq Mine(h) /\ \A m \in Mine(h) : m = Head(resq) \/ m \in Mine(h)'
         /\ \A i \in 1..Len(resq') :
              resq'[i].seq = w'[h].seq /\ IsMarker(resq'[i]) => i = Len(resq') /\ outbox' = {}
<1>1. /\ resq \in Seq(Results) /\ resq # <<>> /\ resq' = Tail(resq)
      /\ UNCHANGED <<cmdq, eng, outbox>>
    BY RInvQueues DEF MergePop, engineVars
<1>2. ToSet(resq) = ToSet(resq') \cup {Head(resq)}
    BY <1>1, TailSet
<1>3. Found' \subseteq Found
    BY <1>1, <1>2 DEF Found
<1>4. \A m \in Mine(h) : m = Head(resq) \/ m \in Mine(h)'
  <2> SUFFICES ASSUME NEW m \in Mine(h), m # Head(resq) PROVE m \in Mine(h)'
      OBVIOUS
  <2>1. m \in Found /\ m.seq = w[h].seq /\ m \notin ToSet(pending)
      BY DEF Mine, After
  <2>2. m \in Found'
      BY <1>1, <1>2, <2>1 DEF Found
  <2>3. QED
      BY <2>1, <2>2 DEF Mine
<1>5. \A i \in 1..Len(resq') :
        resq'[i].seq = w'[h].seq /\ IsMarker(resq'[i]) => i = Len(resq') /\ outbox' = {}
  <2> SUFFICES ASSUME NEW i \in 1..Len(resq'), resq'[i].seq = w[h].seq, IsMarker(resq'[i])
               PROVE  i = Len(resq') /\ outbox' = {}
      OBVIOUS
  <2>1. Len(resq') = Len(resq) - 1 /\ Len(resq) \in Nat /\ resq'[i] = resq[i + 1]
        /\ i + 1 \in 1..Len(resq) /\ i \in Nat
      BY <1>1
  <2>2. i + 1 = Len(resq) /\ outbox = {}
      BY <2>1 DEF After, IsMarker
  <2>3. i = Len(resq')
      BY <2>1, <2>2
  <2>4. QED
      BY <1>1, <2>2, <2>3
<1>6. QED
    BY <1>1, <1>3, <1>4, <1>5 DEF After, Mine

\* The poll takes the entries of the snapshot, and the marker when it has them all.
LEMMA AfterMerges ==
  ASSUME RInv, IInv', Entries, NEW h \in H, After(h), MergePop(h)
  PROVE  After(h)'
<1> DEFINE r == Head(resq)
<1>1. /\ w[h] \in Handlers /\ w \in [H -> Workers] /\ w[h].pc = "mergepop" /\ w[h].kind = "nodes"
      /\ resq \in Seq(Results) /\ pending \in Seq(Results) /\ resq # <<>> /\ resq' = Tail(resq)
    BY RoutedFields, RInvQueues DEF RInv, IInv, MergePop, Route
<1>2. r \in Found /\ r \in Results /\ resq[1] = r /\ 1 \in 1..Len(resq)
    BY <1>1, TailSet, HeadTailType DEF Found
<1>3. r.seq = w[h].seq => r \in Mine(h) /\ Matches(h, r)
    BY <1>1, <1>2 DEF Mine, Matches, After
<1>4. CASE ~Matches(h, r)
  <2>1. UNCHANGED <<nodes, w>> /\ pending' = Keep(pending, r) /\ r.seq # w[h].seq
      BY <1>3, <1>4 DEF MergePop, mirrorVars, graphVars
  <2>2. ToSet(pending') \subseteq ToSet(pending) \cup {r}
      BY <1>1, <1>2, <2>1, KeepSet
  <2>3. \A m \in ToSet(pending') : m.seq # w[h].seq
      BY <2>1, <2>2 DEF After
  <2>4. Mine(h)' = Mine(h)
      BY <2>1, <2>2, <2>3, PopLeaves DEF Mine
  <2>5. Shown(h)' = Shown(h)
      BY <2>1 DEF Shown
  <2>6. QED
      BY <2>1, <2>2, <2>3, <2>4, <2>5, PopLeaves DEF After
<1>5. CASE Matches(h, r)
  <2>1. MergeSnapshotResult(h, r) /\ pending' = pending
      BY <1>5 DEF MergePop
  <2>2. /\ w'[h].pc = w[h].pc /\ w'[h].seq = w[h].seq
        /\ w'[h].completed = (IsMarker(r) \/ w[h].completed)
      BY <1>1, <2>1 DEF MergeSnapshotResult, Goto, Handlers
  <2>3. r \in Mine(h) /\ r.type = "nodes"
      BY <1>2, <1>5 DEF Mine, Matches, After
  <2>4. \A m \in ToSet(pending') : m.seq # w[h].seq
      BY <2>1 DEF After
  <2> DEFINE Left == /\ cmdq' = <<>> /\ eng' = eng
                     /\ \A m \in ToSet(pending') : m.seq # w'[h].seq
                     /\ Mine(h)' \subseteq Mine(h)
                     /\ \A m \in Mine(h) : m = r \/ m \in Mine(h)'
                     /\ \A i \in 1..Len(resq') :
                          resq'[i].seq = w'[h].seq /\ IsMarker(resq'[i]) =>
                            i = Len(resq') /\ outbox' = {}
  <2>5. Left
      BY <2>1, <2>2, <2>4, PopLeaves
  <2>6. Shown(h) = DOMAIN nodes /\ Shown(h)' = DOMAIN nodes'
      BY <1>1, <2>2 DEF Shown
  <2>7. NoId \notin DOMAIN eng.nodes
      BY MirrorAssumption, RInvQueues DEF IInv, EngineTypeOK, IsMap
  <2>8. w[h].completed = FALSE
      BY <1>1, <2>3 DEF After, Handlers
  <2>9. CASE IsMarker(r)
    <3>1. resq' = <<>> /\ outbox = {} /\ outbox' = {}
      <4>1. Len(resq) = 1 /\ outbox = {}
          BY <1>2, <2>3, <2>9 DEF After, Mine
      <4>2. resq' = <<>> /\ outbox' = outbox
          BY <1>1, <4>1 DEF MergePop, engineVars
      <4>3. QED
          BY <4>1, <4>2
    <3>2. Mine(h)' = {}
        BY <2>1, <2>2, <2>4, <3>1, SmallSets DEF Mine, Found
    <3>3. Mine(h) = {r}
        BY <2>3, <2>5, <3>2
    <3>4. nodes' = nodes
        BY <2>1, <2>9 DEF MergeSnapshotResult, mirrorVars, graphVars
    <3>5. \A n \in DOMAIN eng.nodes : n \in Shown(h)
        BY <2>3, <2>7, <2>9, <3>3 DEF After, IsMarker
    <3>6. QED
        BY <2>2, <2>5, <2>6, <3>2, <3>4, <3>5 DEF After
  <2>10. CASE ~IsMarker(r)
    <3>1. Named(r) /\ RememberResultSnapshot(r)
        BY <1>2, <2>1, <2>10 DEF Entries, MergeSnapshotResult
    <3>2. Shown(h)' = Shown(h) \cup (IF r.ok /\ r.node # NoId THEN {r.node} ELSE {})
        BY <2>3, <2>6, <2>10, <3>1, EntryShown
    <3>3. w'[h].completed = FALSE
        BY <2>2, <2>8, <2>10
    <3>4. Shown(h)' \subseteq DOMAIN eng.nodes
        BY <2>3, <3>2 DEF After
    <3>5. ASSUME NEW n \in DOMAIN eng.nodes, \E m \in Mine(h)' : IsMarker(m)
          PROVE  n \in Shown(h)' \/ \E m \in Mine(h)' : m.ok /\ m.node = n
      <4>1. n \in Shown(h) \/ \E m \in Mine(h) : m.ok /\ m.node = n
          BY <2>5, <3>5 DEF After
      <4>2. QED
          BY <2>5, <2>7, <3>2, <4>1
    <3>6. QED
        BY <2>5, <3>3, <3>4, <3>5 DEF After, IsMarker
  <2>11. QED
      BY <2>9, <2>10
<1>6. QED
    BY <1>4, <1>5
-----------------------------------------------------------------------------
(* The engine's side of a snapshot                                         *)

\* The entries of a snapshot are the nodes of the engine.
LEMMA SnapshotEntries ==
  ASSUME NEW c, NEW m \in Snapshot(c)
  PROVE  m.ok /\ (m.node # NoId => m.node \in DOMAIN eng.nodes)
BY DEF Snapshot, Result

LEMMA SnapshotHas ==
  ASSUME NEW c, NEW n \in DOMAIN eng.nodes
  PROVE  \E m \in Snapshot(c) : m.ok /\ m.node = n
<1> DEFINE m == Result(c, TRUE, n, eng.nodes[n].name, eng.nodes[n].state, NoWire)
<1>1. m.ok /\ m.node = n
    BY DEF Result
<1>2. m \in Snapshot(c)
    BY DEF Snapshot
<1> HIDE DEF m
<1>3. QED
    BY <1>1, <1>2

\* The engine answers a command in front of the request, or the request.
LEMMA TakesRequest ==
  ASSUME RInv, NEW h \in H, life = 1, Before(h) \/ After(h), EngineTake
  PROVE  (Before(h) \/ After(h))'
<1> DEFINE c == Head(cmdq)
           n == Len(cmdq)
<1>1. /\ cmdq # <<>> /\ outbox = {} /\ cmdq' = Tail(cmdq) /\ cmdq \in Seq(Commands)
      /\ UNCHANGED <<w, life, resq, pending, nodes>>
    BY RInvQueues DEF EngineTake, mirrorVars, graphVars
<1>2. Before(h) /\ c = cmdq[1] /\ n \in Nat /\ cmdq[n].seq = w[h].seq /\ cmdq[n].type = "nodes"
    BY <1>1 DEF Before, After
<1>3. \A m \in outbox' : m.seq = c.seq /\ m.type = c.type
    BY EngineAnswers DEF EngineTake
<1>4. Found' = outbox' \cup Found /\ \A m \in Found : m.seq # w[h].seq
    BY <1>1, <1>2 DEF Found, Before, Mine
<1>5. Shown(h)' = {} /\ w'[h].completed = FALSE /\ ~w[h].completed
    BY <1>1, <1>2 DEF Before, Shown
<1>6. CASE n > 1
  <2>1. cmdq' # <<>> /\ cmdq'[Len(cmdq')] = cmdq[n]
    <3>1. Len(cmdq') = n - 1 /\ n - 1 \in 1..(n - 1)
        BY <1>1, <1>2, <1>6
    <3>2. \A i \in 1..(n - 1) : cmdq'[i] = cmdq[i + 1]
        BY <1>1
    <3>3. cmdq'[n - 1] = cmdq[n]
        BY <1>2, <3>1, <3>2
    <3>4. cmdq' # <<>>
        BY <1>2, <1>6, <3>1
    <3>5. QED
        BY <3>1, <3>3, <3>4
  <2>2. c.seq # w[h].seq
    <3>1. cmdq[1] \in ToSet(cmdq) /\ cmdq[n] \in ToSet(cmdq)
        BY <1>1, <1>2, InSeq
    <3>2. cmdq[1].life = cmdq[n].life
        BY <3>1 DEF RInv, Ids
    <3>3. QED
        BY <1>2, <1>6, <3>2 DEF RInv, Ids
  <2>3. Mine(h)' = {}
      BY <1>1, <1>3, <1>4, <2>2 DEF Mine
  <2>4. QED
      BY <1>1, <1>2, <1>5, <2>1, <2>3 DEF Before
<1>7. CASE n = 1
  <2>1. cmdq' = <<>> /\ c.seq = w[h].seq /\ c.type = "nodes"
      BY <1>1, <1>2, <1>7
  <2>2. (EngineSnapshot(c) \/ EngineRefuse(c)) /\ eng' = eng
    <3>1. EngineSnapshot(c) \/ EngineRefuse(c)
        BY <2>1 DEF EngineTake, EngineLoad, EngineAdd, EngineRemove, EngineChange
    <3>2. QED
        BY <3>1 DEF EngineSnapshot, EngineRefuse
  <2>3. Mine(h)' = outbox'
      BY <1>1, <1>3, <1>4, <2>1 DEF Mine
  <2>4. \A m \in ToSet(resq') \cup ToSet(pending') : m.seq # w'[h].seq
      BY <1>1, <1>4 DEF Found
  <2>5. \A i \in 1..Len(resq') : resq'[i].seq # w'[h].seq
      BY <1>1, <2>4, RInvQueues, InSeq
  <2>6. \A m \in outbox' : m.ok /\ m.node # NoId => m.node \in DOMAIN eng.nodes
    <3>1. CASE EngineSnapshot(c)
        BY <3>1, SnapshotEntries DEF EngineSnapshot
    <3>2. CASE EngineRefuse(c)
        BY <3>2 DEF EngineRefuse, Result
    <3>3. QED
        BY <2>2, <3>1, <3>2
  <2>7. (\E m \in outbox' : IsMarker(m)) =>
          \A k \in DOMAIN eng.nodes : \E m \in outbox' : m.ok /\ m.node = k
    <3>1. CASE EngineSnapshot(c)
        BY <3>1, SnapshotHas DEF EngineSnapshot
    <3>2. CASE EngineRefuse(c)
      <4>1. NoId # 0
          BY MirrorAssumption
      <4>2. QED
          BY <3>2, <4>1 DEF EngineRefuse, Result, IsMarker
    <3>3. QED
        BY <2>2, <3>1, <3>2
  <2>8. QED
      BY <1>3, <1>5, <2>1, <2>2, <2>3, <2>4, <2>5, <2>6, <2>7 DEF After, IsMarker
<1>8. n > 1 \/ n = 1
  <2>1. cmdq \in Seq(Commands) /\ cmdq # <<>>
      BY <1>1
  <2>2. n \in Nat /\ n # 0
      BY <2>1
  <2>3. \A k \in Nat : k # 0 => k > 1 \/ k = 1
      OBVIOUS
  <2>4. QED
      BY <2>2, <2>3
<1>9. QED
    BY <1>6, <1>7, <1>8

\* The marker is pushed when the entries have been.
LEMMA PushesEntry ==
  ASSUME RInv, NEW h \in H, Before(h) \/ After(h), EnginePush
  PROVE  (Before(h) \/ After(h))'
<1>1. Found' = Found /\ UNCHANGED <<w, life, seq, cmdq, pending, nodes, eng>>
    BY PushFacts DEF EnginePush, mirrorVars, graphVars
<1>2. Shown(h)' = Shown(h) /\ Mine(h)' = Mine(h)
    BY <1>1 DEF Shown, Mine
<1>3. CASE Before(h)
    BY <1>1, <1>2, <1>3, BeforeStays
<1>4. CASE After(h)
  <2>1. PICK r \in outbox : /\ IsMarker(r) => outbox = {r}
                            /\ resq' = Append(resq, r) /\ outbox' = outbox \ {r}
      BY DEF EnginePush
  <2>2. resq \in Seq(Results) /\ outbox # {}
      BY <2>1, RInvQueues
  <2>3. ASSUME NEW i \in 1..Len(resq'), resq'[i].seq = w'[h].seq, IsMarker(resq'[i])
        PROVE  i = Len(resq') /\ outbox' = {}
    <3>1. i \in 1..Len(resq) \/ (i = Len(resq) + 1 /\ i = Len(resq') /\ resq'[i] = r)
        BY <2>1, <2>2
    <3>2. i \notin 1..Len(resq)
      <4>1. i \in 1..Len(resq) => resq'[i] = resq[i]
          BY <2>1, <2>2
      <4>2. QED
          BY <1>1, <1>4, <2>2, <2>3, <4>1 DEF After
    <3>3. IsMarker(r)
        BY <2>3, <3>1, <3>2
    <3>4. QED
        BY <2>1, <3>1, <3>2, <3>3
  <2>4. QED
      BY <1>1, <1>2, <1>4, <2>3 DEF After, IsMarker
<1>5. QED
    BY <1>3, <1>4
-----------------------------------------------------------------------------
(* SInv is inductive                                                       *)

LEMMA InitSInv == Init => SInv
BY DEF Init, SInv, Later, Asked, IdleWorker

LEMMA LifeStays ==
  ASSUME RInv, IInv', NEW h \in H, Receive(h) \/ Step(h) \/ Timeout(h)
  PROVE  life' = life
<1>1. Moved(h) => life' = life
    BY DEF Moved
<1>2. PushSnapshotRequest(h) \/ Return(h) \/ Receive(h) => life' = life
    BY DEF PushSnapshotRequest, Return, Receive, RequestNodes, SendCommand
<1>3. QED
    BY <1>1, <1>2, StepMoves

\* A step of the worker.
LEMMA HandlerSInv ==
  ASSUME RInv, IInv', Entries, NEW h \in H, Later(w[h]), life = 1,
         Asked(h) => Before(h) \/ After(h), Asked(h)', Receive(h) \/ Step(h) \/ Timeout(h)
  PROVE  (Before(h) \/ After(h))'
<1>1. Receive(h) \/ Step(h) \/ Timeout(h)
    OBVIOUS
<1>2. CASE PushSnapshotRequest(h)
    BY <1>2, PushesRequest
<1>3. CASE MergePop(h)
  <2>1. Asked(h)
      BY <1>3 DEF MergePop, Asked
  <2>2. QED
      BY <1>3, <2>1, BeforeMerges, AfterMerges
<1>4. CASE MergePending(h)
  <2>1. Asked(h)
      BY <1>4 DEF MergePending, Asked
  <2>2. QED
      BY <1>4, <2>1, NothingPending
<1>5. CASE \/ ClearMirror(h) \/ PollDone(h) \/ PollTimeout(h) \/ PollLock(h) \/ MergeMissPending(h)
           \/ MergeSleep(h) \/ Persist(h) \/ Report(h)
    BY <1>5, CalmSteps
<1>6. CASE \/ LockResults(h) \/ WaitMissPending(h) \/ WaitSleep(h) \/ WaitTimeout(h)
           \/ WaitTakePending(h) \/ WaitPop(h) \/ RememberResult(h) \/ ForgetValues(h)
           \/ NoteCommand(h) \/ DrainResults(h) \/ ApplyDrained(h) \/ Return(h) \/ Receive(h)
    BY <1>6, UnaskedSteps
<1>7. QED
    BY <1>1, <1>2, <1>3, <1>4, <1>5, <1>6 DEF Step, Timeout

\* A step that changes neither the handlers nor the queues nor the nodes.
LEMMA OtherSInv ==
  ASSUME SInv, UNCHANGED <<w, life, cmdq, resq, pending, outbox, eng, nodes>>
  PROVE  SInv'
<1> SUFFICES ASSUME NEW h \in H
             PROVE  Later(w'[h]) /\ (life' = 1 /\ Asked(h)' => (Before(h) \/ After(h))')
    BY DEF SInv
<1>1. Later(w[h]) /\ (life = 1 /\ Asked(h) => Before(h) \/ After(h))
    BY DEF SInv
<1>2. (Asked(h)' <=> Asked(h)) /\ Shown(h)' = Shown(h) /\ Found' = Found
    BY DEF Asked, Shown, Found
<1>3. QED
    BY <1>1, <1>2, BeforeStays, AfterStays

LEMMA NextSInv ==
  ASSUME OneWorker
  PROVE  RInv /\ IInv' /\ Entries /\ SInv /\ [Next]_vars => SInv'
<1> SUFFICES ASSUME RInv, IInv', Entries, SInv, [Next]_vars PROVE SInv'
    OBVIOUS
<1>1. CASE \E h \in H : Receive(h) \/ Step(h) \/ Timeout(h)
  <2>1. PICK h \in H : Receive(h) \/ Step(h) \/ Timeout(h)
      BY <1>1
  <2>2. \A g \in H : g = h
      BY DEF OneWorker
  <2>3. Later(w[h]) /\ (life = 1 /\ Asked(h) => Before(h) \/ After(h))
      BY DEF SInv
  <2>4. Later(w'[h])
      BY <2>1, <2>3, LaterStep
  <2>5. life' = life
      BY <2>1, LifeStays
  <2>6. life = 1 /\ Asked(h)' => (Before(h) \/ After(h))'
      BY <2>1, <2>3, HandlerSInv
  <2>7. QED
      BY <2>2, <2>4, <2>5, <2>6 DEF SInv
<1>2. CASE Restart \/ \E h \in H : CrashInPersist(h)
  <2>1. PICK image : NewLife(image)
      BY <1>2 DEF Restart, CrashInPersist
  <2>2. life' # 1 /\ \A h \in H : w'[h] = IdleWorker
      BY <2>1, RInvQueues DEF NewLife
  <2>3. Later(IdleWorker)
      BY DEF Later, IdleWorker
  <2>4. QED
      BY <2>2, <2>3 DEF SInv
<1>3. CASE EngineTake
  <2>1. UNCHANGED <<w, life>>
      BY <1>3 DEF EngineTake
  <2>2. \A h \in H : Asked(h)' => Asked(h)
      BY <2>1 DEF Asked
  <2>3. QED
      BY <1>3, <2>1, <2>2, TakesRequest DEF SInv
<1>4. CASE EnginePush
  <2>1. UNCHANGED <<w, life>>
      BY <1>4 DEF EnginePush
  <2>2. \A h \in H : Asked(h)' => Asked(h)
      BY <2>1 DEF Asked
  <2>3. QED
      BY <1>4, <2>1, <2>2, PushesEntry DEF SInv
<1>5. CASE (\E n \in DOMAIN eng.nodes : RememberValue(n)) \/ Quiet \/ UNCHANGED vars
  <2>1. UNCHANGED <<w, life, cmdq, resq, pending, outbox, eng, nodes>>
      BY <1>5 DEF RememberValue, RememberLatestValue, Quiet, vars, bridgeVars, engineVars,
         mirrorVars, graphVars
  <2>2. QED
      BY <2>1, OtherSInv
<1>6. QED
    BY <1>1, <1>2, <1>3, <1>4, <1>5 DEF Next

\* The report of a handler that has cleared the mirror.
LEMMA ReportSound == SInv /\ life = 1 => SnapshotSound
<1> SUFFICES ASSUME SInv, life = 1, NEW h \in H,
                    w[h].pc = "done", w[h].kind = "nodes", w[h].then = "report"
             PROVE  /\ w[h].nodes \subseteq DOMAIN eng.nodes
                    /\ w[h].completed => w[h].nodes = DOMAIN eng.nodes
    BY DEF SnapshotSound
<1>1. Shown(h) = w[h].nodes /\ (Before(h) \/ After(h))
    BY DEF SInv, Asked, Shown
<1>2. CASE Before(h)
    BY <1>1, <1>2 DEF Before
<1>3. CASE After(h)
  <2>1. w[h].completed => DOMAIN eng.nodes \subseteq Shown(h)
      BY <1>3 DEF After
  <2>2. Shown(h) \subseteq DOMAIN eng.nodes
      BY <1>3 DEF After
  <2>3. QED
      BY <1>1, <2>1, <2>2
<1>4. QED
    BY <1>1, <1>2, <1>3

\* With one worker, and in one run of the process, GET /runtime/nodes reports
\* nodes of the engine only, and all of them if the snapshot was completed
\* (request_live_runtime_nodes_snapshot, merge_runtime_snapshot_result): a late
\* result or the rest of an earlier snapshot has another number, and nothing
\* else can follow the request into the command queue.
THEOREM SnapshotIsSound == ASSUME OneWorker PROVE Spec => [](life = 1 => SnapshotSound)
<1>1. RInv /\ IInv' /\ Entries /\ SInv /\ [Next]_vars => SInv'
    BY NextSInv
<1>2. SInv /\ life = 1 => SnapshotSound
    BY ReportSound
<1>3. RInv /\ IInv' /\ Entries /\ [Next]_vars => Entries'
    BY NextEntries
<1>4. QED
    BY <1>1, <1>2, <1>3, InitSInv, InitEntries, SpecRInv, SpecIInv, PTL DEF Spec
=============================================================================
