---------------------------- MODULE BridgeProofs ----------------------------
(***************************************************************************)
(* TypeOK, StatesMatchNodes and LocksHeldBySteps are invariants of Bridge  *)
(* for every number of workers, ids and bounds.                            *)
(*                                                                         *)
(* TypeOK is not inductive: a handler that reads the head of its todo list *)
(* must know that there is one, and of which kind.  Shape says so.         *)
(*                                                                         *)
(* The first part says what each operation of Mirror preserves, whatever   *)
(* the ids and names: the types of the maps, and the agreement of the two  *)
(* node maps.  The steps of the handlers cite one lemma per operation.     *)
(***************************************************************************)
EXTENDS Bridge, SequenceTheorems, TLAPS

-----------------------------------------------------------------------------
(* The mirror's operations                                                 *)

\* The inductive invariant of the mirror.
MirrorInv == MirrorTypeOK /\ StatesMatchNodes

\* m[k] = v adds at most the key k and the value v.
LEMMA PutMap ==
  ASSUME NEW D, NEW R, NEW f, IsMap(f, D, R), NEW k \in D, NEW v \in R
  PROVE  IsMap(Put(f, k, v), D, R)
BY DEF IsMap, Put

\* erase removes the keys it is given and nothing else.
LEMMA DropMap ==
  ASSUME NEW D, NEW R, NEW f, IsMap(f, D, R), NEW S
  PROVE  IsMap(Drop(f, S), D, R)
BY DEF IsMap, Drop, Restrict

\* A cleared map has no keys.
LEMMA EmptyMap ==
  ASSUME NEW D, NEW R
  PROVE  IsMap(Empty, D, R) /\ DOMAIN Empty = {}
BY DEF IsMap, Empty

\* A status code is stored as a byte, whatever the engine sends.
LEMMA ByteRange == \A x \in Int : Byte(x) \in Bytes
BY DEF Byte, Bytes

\* The loader and the constructor start from maps that agree.
LEMMA MirrorInitInv == MirrorInit => MirrorInv
<1> SUFFICES ASSUME MirrorInit PROVE MirrorInv
    OBVIOUS
<1>1. /\ IsMap(nodes, Keys, Labels) /\ IsMap(states, Keys, Bytes)
      /\ IsMap(conns, Nat, Wire) /\ IsMap(params, Keys \X Nat, Nat)
      /\ IsMap(disk.nodes, Keys, Records)
    BY EmptyMap DEF MirrorInit, NoDisk
<1>2. StatesMatchNodes
    BY DEF MirrorInit, StatesMatchNodes
<1>3. QED
    BY <1>1, <1>2 DEF MirrorInit, NoDisk, MirrorInv, MirrorTypeOK

\* An operation that leaves the mirror alone.
LEMMA MirrorStutter == MirrorInv /\ UNCHANGED mirrorVars => MirrorInv'
BY DEF MirrorInv, MirrorTypeOK, StatesMatchNodes, mirrorVars, graphVars, IsMap

\* What is left of the mirror's invariant to show for an operation that only
\* touches the four maps of nodes, connections and parameters.
LEMMA MapsSuffice ==
  ASSUME MirrorInv, UNCHANGED <<descs, latest, disk>>,
         IsMap(nodes', Keys, Labels), IsMap(states', Keys, Bytes),
         IsMap(conns', Nat, Wire), IsMap(params', Keys \X Nat, Nat),
         DOMAIN states' = DOMAIN nodes'
  PROVE  MirrorInv'
BY DEF MirrorInv, MirrorTypeOK, StatesMatchNodes, IsMap

\* remove_runtime_node_locked and its connections and parameters.
LEMMA EraseNodesMaps ==
  ASSUME MirrorInv, NEW ids, EraseNodes(ids)
  PROVE  /\ IsMap(nodes', Keys, Labels) /\ IsMap(states', Keys, Bytes)
         /\ IsMap(conns', Nat, Wire) /\ IsMap(params', Keys \X Nat, Nat)
         /\ DOMAIN states' = DOMAIN nodes'
<1> USE DEF MirrorInv, MirrorTypeOK, StatesMatchNodes, EraseNodes
<1>1. IsMap(nodes', Keys, Labels) /\ IsMap(states', Keys, Bytes)
    BY DropMap
<1>2. IsMap(conns', Nat, Wire) /\ IsMap(params', Keys \X Nat, Nat)
    BY DropMap
<1>3. DOMAIN states' = DOMAIN nodes'
    BY DEF Drop, Restrict
<1>4. QED
    BY <1>1, <1>2, <1>3

\* A load replaces the descriptor and forgets the nodes made from the old one.
LEMMA LoadDescriptorInv ==
  ASSUME MirrorInv, NEW name \in Names, LoadDescriptor(name), UNCHANGED disk
  PROVE  MirrorInv'
<1>1. EraseNodes(NodesNamed(name)) /\ descs' = descs \cup {name} /\ latest' \subseteq latest
    BY DEF LoadDescriptor
<1>2. /\ IsMap(nodes', Keys, Labels) /\ IsMap(states', Keys, Bytes)
      /\ IsMap(conns', Nat, Wire) /\ IsMap(params', Keys \X Nat, Nat)
      /\ DOMAIN states' = DOMAIN nodes'
    BY <1>1, EraseNodesMaps
<1>3. QED
    BY <1>1, <1>2 DEF MirrorInv, MirrorTypeOK, StatesMatchNodes, IsMap

\* m[k] = v on both node maps.
LEMMA PutNodeInv ==
  ASSUME MirrorInv, NEW n \in Keys, NEW name \in Labels, NEW state \in Bytes,
         nodes' = Put(nodes, n, name), states' = Put(states, n, state),
         UNCHANGED <<conns, params, descs, latest, disk>>
  PROVE  MirrorInv'
<1>1. IsMap(nodes', Keys, Labels) /\ IsMap(states', Keys, Bytes)
    BY PutMap DEF MirrorInv, MirrorTypeOK
<1>2. DOMAIN states' = DOMAIN nodes'
    BY DEF MirrorInv, StatesMatchNodes, Put
<1>3. QED
    BY <1>1, <1>2, MapsSuffice DEF MirrorInv, MirrorTypeOK

\* An ADD for a node that is known replaces its descriptor and keeps its state.
LEMMA RenameNodeInv ==
  ASSUME MirrorInv, NEW n \in DOMAIN states, NEW name \in Labels,
         nodes' = Put(nodes, n, name),
         UNCHANGED <<states, conns, params, descs, latest, disk>>
  PROVE  MirrorInv'
<1>1. n \in Keys /\ n \in DOMAIN nodes
    BY DEF MirrorInv, MirrorTypeOK, StatesMatchNodes, IsMap
<1>2. IsMap(nodes', Keys, Labels)
    BY <1>1, PutMap DEF MirrorInv, MirrorTypeOK
<1>3. DOMAIN states' = DOMAIN nodes'
    BY <1>1 DEF MirrorInv, StatesMatchNodes, Put
<1>4. QED
    BY <1>1, <1>2, <1>3, MapsSuffice DEF MirrorInv, MirrorTypeOK
-----------------------------------------------------------------------------
\* remember_result_snapshot_locked, for every result that the engine can send.
LEMMA RememberResultSnapshotInv ==
  ASSUME MirrorInv, NEW r, RememberResultSnapshot(r),
         r.node \in Keys, r.name \in Labels, r.code \in Nat, r.conn \in Wire,
         r.type = "load" /\ r.ok => r.name \in Names
  PROVE  MirrorInv'
<1>1. CASE ~Applies(r) /\ UNCHANGED <<graphVars, latest, disk>>
    BY <1>1, MirrorStutter DEF mirrorVars
<1>2. CASE Applies(r) /\ ApplyLoad(r) /\ UNCHANGED disk
    BY <1>2, LoadDescriptorInv DEF ApplyLoad, Applies
<1>3. CASE ApplyRemove(r) /\ UNCHANGED disk
  <2>1. IsMap(nodes', Keys, Labels) /\ IsMap(states', Keys, Bytes)
      BY <1>3, DropMap DEF MirrorInv, MirrorTypeOK, ApplyRemove
  <2>2. DOMAIN states' = DOMAIN nodes'
      BY <1>3 DEF MirrorInv, StatesMatchNodes, Drop, Restrict, ApplyRemove
  <2>3. QED
      BY <1>3, <2>1, <2>2, MapsSuffice DEF MirrorInv, MirrorTypeOK, ApplyRemove
<1>4. CASE ApplyConnectionEntry(r) /\ UNCHANGED disk
  <2>1. r.conn[1] \in Nat
      BY DEF Wire
  <2>2. IsMap(conns', Nat, Wire)
      BY <1>4, <2>1, PutMap DEF MirrorInv, MirrorTypeOK, ApplyConnectionEntry
  <2>3. QED
      BY <1>4, <2>2, MapsSuffice
      DEF MirrorInv, MirrorTypeOK, StatesMatchNodes, ApplyConnectionEntry
<1>5. CASE ApplyNode(r) /\ UNCHANGED disk
  <2>1. Byte(r.code) \in Bytes /\ DefaultState \in Bytes
      BY ByteRange DEF DefaultState, Bytes
  <2>2. CASE r.type # "nodes" /\ r.node \in DOMAIN states
      BY <1>5, <2>2, RenameNodeInv DEF ApplyNode
  <2>3. CASE r.type # "nodes" /\ r.node \notin DOMAIN states
      BY <1>5, <2>1, <2>3, PutNodeInv DEF ApplyNode
  <2>4. CASE r.type = "nodes"
      BY <1>5, <2>1, <2>4, PutNodeInv DEF ApplyNode
  <2>5. QED
      BY <2>2, <2>3, <2>4
<1>6. QED
    BY <1>1, <1>2, <1>3, <1>4, <1>5 DEF RememberResultSnapshot

\* The remember_* and forget_* calls of the handlers, one by one.
LEMMA RememberLoadedDescriptorInv ==
  ASSUME MirrorInv, NEW name \in Names, RememberLoadedDescriptor(name)
  PROVE  MirrorInv'
BY LoadDescriptorInv DEF RememberLoadedDescriptor

\* forget_runtime_node, under runtime_nodes_mutex_.
LEMMA ForgetRuntimeNodeInv ==
  ASSUME MirrorInv, NEW n, ForgetRuntimeNode(n)
  PROVE  MirrorInv'
<1>1. EraseNodes({n}) /\ UNCHANGED <<descs, latest, disk>>
    BY DEF ForgetRuntimeNode
<1>2. QED
    BY <1>1, EraseNodesMaps, MapsSuffice

\* forget_latest_values_for_node.
LEMMA ForgetLatestValuesInv ==
  ASSUME MirrorInv, NEW n, ForgetLatestValues(n)
  PROVE  MirrorInv'
BY DEF ForgetLatestValues, MirrorInv, MirrorTypeOK, StatesMatchNodes, graphVars, IsMap

\* remember_runtime_node.
LEMMA RememberRuntimeNodeInv ==
  ASSUME MirrorInv, NEW n \in Keys, NEW name \in Labels, RememberRuntimeNode(n, name)
  PROVE  MirrorInv'
<1>1. DefaultState \in Bytes
    BY DEF DefaultState, Bytes
<1>2. QED
    BY <1>1, PutNodeInv DEF RememberRuntimeNode

\* remember_runtime_node_state.
LEMMA RememberRuntimeNodeStateInv ==
  ASSUME MirrorInv, NEW n \in Keys, NEW state \in Bytes, RememberRuntimeNodeState(n, state)
  PROVE  MirrorInv'
<1>1. CASE n \notin DOMAIN nodes
    BY <1>1, MirrorStutter DEF RememberRuntimeNodeState, mirrorVars, graphVars
<1>2. CASE n \in DOMAIN nodes
  <2>1. states' = Put(states, n, state) /\ UNCHANGED <<nodes, conns, params, descs, latest, disk>>
      BY <1>2 DEF RememberRuntimeNodeState
  <2>2. IsMap(states', Keys, Bytes)
      BY <2>1, PutMap DEF MirrorInv, MirrorTypeOK
  <2>3. DOMAIN states' = DOMAIN nodes'
      BY <1>2, <2>1 DEF MirrorInv, StatesMatchNodes, Put
  <2>4. QED
      BY <2>1, <2>2, <2>3, MapsSuffice DEF MirrorInv, MirrorTypeOK
<1>3. QED
    BY <1>1, <1>2

\* remember_runtime_connection.
LEMMA RememberRuntimeConnectionInv ==
  ASSUME MirrorInv, NEW wire \in Wire, RememberRuntimeConnection(wire)
  PROVE  MirrorInv'
<1>1. wire[1] \in Nat
    BY DEF Wire
<1>2. IsMap(conns', Nat, Wire)
    BY <1>1, PutMap DEF MirrorInv, MirrorTypeOK, RememberRuntimeConnection
<1>3. QED
    BY <1>2, MapsSuffice DEF MirrorInv, MirrorTypeOK, StatesMatchNodes, RememberRuntimeConnection

\* forget_runtime_connection.
LEMMA ForgetRuntimeConnectionInv ==
  ASSUME MirrorInv, NEW c, ForgetRuntimeConnection(c)
  PROVE  MirrorInv'
<1>1. IsMap(conns', Nat, Wire)
    BY DropMap DEF MirrorInv, MirrorTypeOK, ForgetRuntimeConnection
<1>2. QED
    BY <1>1, MapsSuffice DEF MirrorInv, MirrorTypeOK, StatesMatchNodes, ForgetRuntimeConnection

\* remember_runtime_param.
LEMMA RememberRuntimeParamInv ==
  ASSUME MirrorInv, NEW key \in Keys \X Nat, NEW value \in Nat, RememberRuntimeParam(key, value)
  PROVE  MirrorInv'
<1>1. IsMap(params', Keys \X Nat, Nat)
    BY PutMap DEF MirrorInv, MirrorTypeOK, RememberRuntimeParam
<1>2. QED
    BY <1>1, MapsSuffice DEF MirrorInv, MirrorTypeOK, StatesMatchNodes, RememberRuntimeParam

\* What a snapshot request clears: both node maps.
LEMMA ClearRuntimeNodesInv ==
  ASSUME MirrorInv, ClearRuntimeNodes
  PROVE  MirrorInv'
<1>1. /\ IsMap(nodes', Keys, Labels) /\ IsMap(states', Keys, Bytes) /\ IsMap(conns', Nat, Wire)
      /\ DOMAIN states' = DOMAIN nodes'
    BY EmptyMap DEF ClearRuntimeNodes
<1>2. QED
    BY <1>1, MapsSuffice DEF MirrorInv, MirrorTypeOK, ClearRuntimeNodes

\* remember_latest_values.
LEMMA RememberLatestValueInv ==
  ASSUME MirrorInv, NEW n \in NodeIds, RememberLatestValue(n)
  PROVE  MirrorInv'
BY DEF RememberLatestValue, MirrorInv, MirrorTypeOK, StatesMatchNodes, graphVars, IsMap
-----------------------------------------------------------------------------
\* What the loader can read.
IsImage(image) ==
  /\ IsMap(image.nodes, Keys, Records)
  /\ image.descs \subseteq Names
  /\ image = [nodes |-> image.nodes, descs |-> image.descs]

\* What persist_runtime_nodes writes is a file that the loader reads back.
LEMMA DiskImageOK == MirrorInv => IsImage(DiskImage)
<1> SUFFICES ASSUME MirrorInv PROVE IsImage(DiskImage)
    OBVIOUS
<1>1. DOMAIN nodes \subseteq Keys /\ \A n \in DOMAIN nodes : nodes[n] \in Labels
    BY DEF MirrorInv, MirrorTypeOK, IsMap
<1>2. DefaultState \in Bytes /\ \A n \in DOMAIN states : states[n] \in Bytes
    BY DEF MirrorInv, MirrorTypeOK, IsMap, DefaultState, Bytes
<1>3. IsMap(DiskImage.nodes, Keys, Records)
    BY <1>1, <1>2 DEF DiskImage, IsMap, Records
<1>4. QED
    BY <1>3 DEF IsImage, DiskImage, MirrorInv, MirrorTypeOK

\* persist_runtime_nodes.
LEMMA PersistRuntimeNodesInv ==
  ASSUME MirrorInv, PersistRuntimeNodes
  PROVE  MirrorInv'
<1>1. IsImage(DiskImage)
    BY DiskImageOK
<1>2. disk' = DiskImage /\ UNCHANGED <<graphVars, latest>>
    BY DEF PersistRuntimeNodes
<1>3. IsImage(disk')
    BY <1>1, <1>2
<1>4. QED
    BY <1>2, <1>3 DEF MirrorInv, MirrorTypeOK, StatesMatchNodes, graphVars, IsMap, IsImage

\* A file whose writer died part of the way is one that the loader reads, too.
LEMMA TruncatedImagesOK == MirrorInv => \A image \in TruncatedImages : IsImage(image)
<1> SUFFICES ASSUME MirrorInv, NEW image \in TruncatedImages PROVE IsImage(image)
    OBVIOUS
<1>1. \A S : \A T \in InitialSegments(S) : T \subseteq S
    BY DEF InitialSegments
<1>2. IsMap(DiskImage.nodes, Keys, Records) /\ DOMAIN DiskImage.nodes = DOMAIN nodes
    BY DiskImageOK DEF IsImage, DiskImage
<1>3. descs \subseteq Names
    BY DEF MirrorInv, MirrorTypeOK
<1>4. CASE \E K \in InitialSegments(DOMAIN nodes) :
             image = [nodes |-> Restrict(DiskImage.nodes, K), descs |-> {}]
  <2>1. PICK K \in InitialSegments(DOMAIN nodes) :
               image = [nodes |-> Restrict(DiskImage.nodes, K), descs |-> {}]
      BY <1>4
  <2>2. K \subseteq DOMAIN DiskImage.nodes
      BY <1>1, <1>2
  <2>3. IsMap(Restrict(DiskImage.nodes, K), Keys, Records)
      BY <1>2, <2>2 DEF IsMap, Restrict
  <2>4. QED
      BY <2>1, <2>3 DEF IsImage
<1>5. CASE \E D \in InitialSegments(descs) : image = [nodes |-> DiskImage.nodes, descs |-> D]
    BY <1>1, <1>2, <1>3, <1>5 DEF IsImage
<1>6. QED
    BY <1>4, <1>5 DEF TruncatedImages

\* load_runtime_nodes_from_disk.
LEMMA LoadRuntimeNodesFromDiskInv ==
  ASSUME MirrorInv, NEW image, IsImage(image), LoadRuntimeNodesFromDisk(image)
  PROVE  MirrorInv'
<1>1. DOMAIN image.nodes \subseteq Keys
    BY DEF IsImage, IsMap
<1>2. \A n \in DOMAIN image.nodes : image.nodes[n].name \in Labels /\ image.nodes[n].state \in Bytes
    BY DEF IsImage, IsMap, Records
<1>3. /\ IsMap(nodes', Keys, Labels) /\ IsMap(states', Keys, Bytes)
      /\ DOMAIN states' = DOMAIN nodes'
    BY <1>1, <1>2 DEF LoadRuntimeNodesFromDisk, IsMap
<1>4. IsMap(conns', Nat, Wire) /\ IsMap(params', Keys \X Nat, Nat)
    BY EmptyMap DEF LoadRuntimeNodesFromDisk
<1>5. QED
    BY <1>3, <1>4 DEF LoadRuntimeNodesFromDisk, MirrorInv, MirrorTypeOK, StatesMatchNodes, IsImage

\* The file on disk is one that the loader reads.
LEMMA DiskOK == MirrorInv => IsImage(disk)
BY DEF MirrorInv, MirrorTypeOK, IsImage

-----------------------------------------------------------------------------
(* The handlers                                                            *)

\* What a handler's record satisfies besides its types.
Shape(r) ==
  /\ r.pc = "idle" => r = IdleWorker
  /\ r.pc = "apply" => r.todo # <<>>
  /\ r.pc \in {"remember", "unvalue"} =>
       r.todo # <<>> /\ r.todo[1].ok /\ r.todo[1].type = r.kind

Workers == {r \in Handlers : Shape(r)}

QueuesOK ==
  /\ requests \in 0..MaxRequests /\ life \in Nat /\ seq \in Nat
  /\ cmdq \in Seq(Commands)
  /\ resq \in Seq(Results)
  /\ pending \in Seq(Results)
  /\ {resultLock, nodesLock} \subseteq H \cup {Free}

\* The inductive invariant.
IInv ==
  /\ MirrorInv
  /\ w \in [H -> Workers]
  /\ QueuesOK
  /\ EngineTypeOK

\* The inductive invariant is stronger than what the runs check.
LEMMA IInvTypeOK == IInv => TypeOK /\ StatesMatchNodes
BY DEF IInv, TypeOK, MirrorInv, Workers, QueuesOK

-----------------------------------------------------------------------------
(* Sequences                                                               *)

\* erase of one result.
LEMMA RemoveAtType ==
  ASSUME NEW S, NEW s \in Seq(S), NEW i \in 1..Len(s)
  PROVE  RemoveAt(s, i) \in Seq(S)
BY DEF RemoveAt

\* The list that the drain leaves.
LEMMA LastOfType ==
  ASSUME NEW S, NEW s \in Seq(S), NEW n \in Nat
  PROVE  LastOf(s, n) \in Seq(S)
BY DEF LastOf

\* push_back and pop_front.
LEMMA KeepType ==
  ASSUME NEW S, NEW s \in Seq(S), NEW e \in S
  PROVE  Keep(s, e) \in Seq(S)
<1>1. Append(s, e) \in Seq(S) /\ Len(Append(s, e)) = Len(s) + 1 /\ Len(s) \in Nat
    OBVIOUS
<1>2. Append(s, e) # <<>>
    BY <1>1, EmptySeq
<1>3. Tail(Append(s, e)) \in Seq(S)
    BY <1>1, <1>2, HeadTailProperties
<1>4. QED
    BY <1>1, <1>3 DEF Keep

\* The head and the rest of a queue that is not empty.
LEMMA HeadTailType ==
  ASSUME NEW S, NEW s \in Seq(S), s # <<>>
  PROVE  Head(s) \in S /\ Tail(s) \in Seq(S) /\ s[1] = Head(s)
OBVIOUS
-----------------------------------------------------------------------------
(* Handlers                                                                *)

\* A step of one handler keeps the others as they are.
LEMMA GotoType ==
  ASSUME w \in [H -> Workers], NEW h \in H, NEW r \in Workers, Goto(h, r)
  PROVE  w' \in [H -> Workers]
BY DEF Goto

\* The program counters that say nothing of the rest of the record.
Plain == Pcs \ {"idle", "apply", "remember", "unvalue"}

\* A handler moves on and keeps what it knows.
LEMMA SetPc ==
  ASSUME NEW r \in Handlers, NEW pc \in Plain
  PROVE  [r EXCEPT !.pc = pc] \in Workers
BY DEF Handlers, Workers, Shape, Plain, Pcs

\* A handler that applies results has one to apply.
LEMMA ApplyingType ==
  ASSUME NEW r \in Handlers, r.pc \in Plain \cup {"apply"}, r.pc = "apply" => r.todo # <<>>
  PROVE  r \in Workers
BY DEF Workers, Shape, Plain

\* The handler has its answer.
LEMMA AnswerType ==
  ASSUME NEW r \in Handlers,
         NEW status \in {"none", "ok", "accepted", "pending", "unavailable"}
  PROVE  Answer(r, status) \in Workers
<1>1. <<>> \in Seq(Results) /\ "done" \in Pcs
    BY DEF Pcs
<1>2. Answer(r, status) \in Handlers
    BY <1>1 DEF Handlers, Answer
<1>3. Answer(r, status).pc = "done"
    BY DEF Answer, Handlers
<1>4. QED
    BY <1>2, <1>3 DEF Workers, Shape

\* The record of a worker that has no request.
LEMMA IdleType == IdleWorker \in Workers
<1>1. Args("nodes") = {<<>>} /\ Args("none") = {<<>>}
    BY DEF Args
<1>2. <<>> \in AllArgs
    BY <1>1 DEF AllArgs, AllKinds
<1>3. <<>> \in Seq(Results)
    OBVIOUS
<1>4. QED
    BY <1>1, <1>2, <1>3 DEF IdleWorker, Handlers, Workers, Shape, Pcs

-----------------------------------------------------------------------------
(* The parts of the state that most steps leave alone                      *)

\* The engine's graph and its answers.
LEMMA EngineStutter == EngineTypeOK /\ UNCHANGED engineVars => EngineTypeOK'
BY DEF EngineTypeOK, engineVars, IsMap

\* The steps of a wait that touch neither the mirror nor the engine.
LEMMA QuietStep ==
  ASSUME IInv, UNCHANGED <<mirrorVars, engineVars>>,
         w' \in [H -> Workers], QueuesOK'
  PROVE  IInv'
BY MirrorStutter, EngineStutter DEF IInv

\* The steps under runtime_nodes_mutex_.
LEMMA MirrorStep ==
  ASSUME IInv, MirrorInv', w' \in [H -> Workers],
         UNCHANGED <<engineVars, requests, life, seq, cmdq, resq, pending, resultLock>>,
         nodesLock' \in H \cup {Free}
  PROVE  IInv'
<1>1. QueuesOK'
    BY DEF IInv, QueuesOK
<1>2. QED
    BY <1>1, EngineStutter DEF IInv
-----------------------------------------------------------------------------
(* Waiting for a result                                                    *)

\* LockResults, WaitTimeout, WaitMissPending, WaitSleep, PollDone, PollTimeout,
\* PollLock, MergeMissPending and MergeSleep only move the handler on.
LEMMA MoveOn ==
  ASSUME IInv, NEW h \in H, NEW r \in Workers, Goto(h, r), resultLock' \in H \cup {Free},
         UNCHANGED <<mirrorVars, engineVars, requests, life, seq, cmdq, resq, pending, nodesLock>>
  PROVE  IInv'
<1>1. w' \in [H -> Workers]
    BY GotoType DEF IInv
<1>2. QueuesOK'
    BY DEF IInv, QueuesOK
<1>3. QED
    BY <1>1, <1>2, QuietStep

\* wait_for_result returns the result that the handler looked for.
LEMMA TakeResultType ==
  ASSUME IInv, NEW h \in H, NEW r \in Results, Matches(h, r), TakeResult(h, r)
  PROVE  w' \in [H -> Workers] /\ resultLock' = Free
<1>1. w[h] \in Workers /\ w[h] \in Handlers
    BY DEF IInv, Workers
<1>2. CASE ~r.ok
    BY <1>1, <1>2, AnswerType, GotoType DEF TakeResult, IInv
<1>3. CASE r.ok
  <2> DEFINE u == [w[h] EXCEPT !.pc = "remember", !.todo = <<r>>]
  <2>1. <<r>> \in Seq(Results) /\ <<r>> # <<>> /\ <<r>>[1] = r
      OBVIOUS
  <2>2. u \in Handlers /\ u.pc = "remember" /\ u.todo = <<r>> /\ u.kind = w[h].kind
      BY <1>1, <2>1 DEF Handlers, Pcs
  <2>3. r.type = w[h].kind
      BY DEF Matches
  <2>4. u \in Workers
      BY <1>3, <2>1, <2>2, <2>3 DEF Workers, Shape
  <2>5. Goto(h, u) /\ resultLock' = Free
      BY <1>3 DEF TakeResult
  <2>6. QED
      BY <2>4, <2>5, GotoType DEF IInv
<1>4. r.ok \in BOOLEAN
    BY DEF Results
<1>5. QED
    BY <1>2, <1>3, <1>4

\* A result that was kept in pending_results_ is taken out of it.
LEMMA WaitTakePendingInv ==
  ASSUME IInv, NEW h \in H, WaitTakePending(h)
  PROVE  IInv'
<1>1. PICK i \in 1..Len(pending) :
             FirstMatch(h, i) /\ TakeResult(h, pending[i]) /\ pending' = RemoveAt(pending, i)
    BY DEF WaitTakePending
<1>2. pending \in Seq(Results) /\ pending[i] \in Results
    BY DEF IInv, QueuesOK
<1>3. Matches(h, pending[i])
    BY <1>1 DEF FirstMatch
<1>4. w' \in [H -> Workers] /\ resultLock' = Free
    BY <1>1, <1>2, <1>3, TakeResultType
<1>5. pending' \in Seq(Results)
    BY <1>1, <1>2, RemoveAtType
<1>6. QueuesOK'
    BY <1>4, <1>5 DEF IInv, QueuesOK, WaitTakePending
<1>7. QED
    BY <1>4, <1>6, QuietStep DEF WaitTakePending

\* A result is popped: it is this handler's, or it is kept for another one.
LEMMA WaitPopInv ==
  ASSUME IInv, NEW h \in H, WaitPop(h)
  PROVE  IInv'
<1>1. pending \in Seq(Results) /\ resq \in Seq(Results) /\ resq # <<>>
    BY DEF IInv, QueuesOK, WaitPop
<1>2. Head(resq) \in Results /\ Tail(resq) \in Seq(Results)
    BY <1>1, HeadTailType
<1>3. CASE Matches(h, Head(resq)) /\ TakeResult(h, Head(resq)) /\ UNCHANGED pending
  <2>1. w' \in [H -> Workers] /\ resultLock' = Free
      BY <1>2, <1>3, TakeResultType
  <2>2. QueuesOK'
      BY <1>2, <1>3, <2>1 DEF IInv, QueuesOK, WaitPop
  <2>3. QED
      BY <2>1, <2>2, QuietStep DEF WaitPop
<1>4. CASE ~Matches(h, Head(resq)) /\ pending' = Keep(pending, Head(resq))
           /\ UNCHANGED <<w, resultLock>>
  <2>1. pending' \in Seq(Results)
      BY <1>1, <1>2, <1>4, KeepType
  <2>2. w' \in [H -> Workers] /\ QueuesOK'
      BY <1>2, <1>4, <2>1 DEF IInv, QueuesOK, WaitPop
  <2>3. QED
      BY <2>2, QuietStep DEF WaitPop
<1>5. QED
    BY <1>3, <1>4 DEF WaitPop
-----------------------------------------------------------------------------
(* Commands                                                                *)

\* A message carries the arguments of its kind.
LEMMA CommandType ==
  ASSUME NEW kind \in AllKinds, NEW arg \in Args(kind), life \in Nat, seq' \in Nat
  PROVE  Command(kind, arg) \in Commands
<1>1. arg \in AllArgs
    BY DEF AllArgs
<1>2. QED
    BY <1>1 DEF Command, Commands

\* The push of a command route, accepted or refused.
LEMMA SendCommandInv ==
  ASSUME IInv, NEW h \in H, NEW kind \in AllKinds, NEW arg \in Args(kind),
         SendCommand(h, kind, arg)
  PROVE  IInv'
<1> DEFINE r == [w[h] EXCEPT !.kind = kind, !.arg = arg, !.seq = seq + 1]
           u == IF kind \in Awaited THEN [r EXCEPT !.pc = "lock"]
                ELSE IF kind \in Noted THEN [r EXCEPT !.pc = "note"]
                ELSE Answer(r, "accepted")
<1>1. w[h] \in Handlers /\ seq \in Nat /\ arg \in AllArgs
    BY DEF IInv, Workers, QueuesOK, AllArgs
<1>2. r \in Handlers
  <2>1. kind \in AllKinds \cup {"none"} /\ seq + 1 \in Nat
      BY <1>1
  <2>2. r.arg = arg /\ r.kind = kind
      BY <1>1 DEF Handlers
  <2>3. QED
      BY <1>1, <2>1, <2>2 DEF Handlers
<1>3. u \in Workers /\ Answer(r, "unavailable") \in Workers
  <2>1. "lock" \in Plain /\ "note" \in Plain
      BY DEF Plain, Pcs
  <2>2. [r EXCEPT !.pc = "lock"] \in Workers /\ [r EXCEPT !.pc = "note"] \in Workers
      BY <1>2, <2>1, SetPc
  <2>3. Answer(r, "accepted") \in Workers /\ Answer(r, "unavailable") \in Workers
      BY <1>2, AnswerType
  <2>4. QED
      BY <2>2, <2>3
<1>4. w' \in [H -> Workers]
  <2>1. Goto(h, u) \/ Goto(h, Answer(r, "unavailable"))
      BY DEF SendCommand
  <2>2. QED
      BY <1>3, <2>1, GotoType DEF IInv
<1>5. cmdq' \in Seq(Commands)
  <2>1. Command(kind, arg) \in Commands
      BY <1>1, CommandType DEF IInv, QueuesOK, SendCommand
  <2>2. cmdq' = Append(cmdq, Command(kind, arg)) \/ cmdq' = cmdq
      BY DEF SendCommand
  <2>3. cmdq \in Seq(Commands)
      BY DEF IInv, QueuesOK
  <2>4. QED
      BY <2>1, <2>2, <2>3
<1>6. QueuesOK'
  <2>1. /\ requests < MaxRequests /\ requests' = requests + 1 /\ seq' = seq + 1
        /\ UNCHANGED <<life, resq, pending, resultLock, nodesLock>>
      BY DEF SendCommand
  <2>2. QED
      BY <1>5, <2>1, BridgeAssumption DEF IInv, QueuesOK
<1>7. QED
    BY <1>4, <1>6, QuietStep DEF SendCommand

\* The handler's remember_* or forget_* call.
LEMMA RememberResultInv ==
  ASSUME IInv, NEW h \in H, RememberResult(h)
  PROVE  IInv'
<1> DEFINE r == w[h].todo[1]
<1>1. w[h] \in Handlers /\ w[h].pc = "remember"
    BY DEF IInv, Workers, RememberResult
<1>2. r \in Results /\ r.ok /\ r.type = w[h].kind
  <2>1. w[h].todo \in Seq(Results) /\ w[h].todo # <<>> /\ r.ok /\ r.type = w[h].kind
      BY <1>1 DEF IInv, Workers, Shape, Handlers
  <2>2. QED
      BY <2>1
<1>3. r.node \in Keys /\ r.name \in Labels /\ (w[h].kind = "load" => r.name \in Names)
    BY <1>2 DEF Results
<1>4. [w[h] EXCEPT !.pc = "persist"] \in Workers
    BY <1>1, SetPc DEF Plain, Pcs
<1>5. [w[h] EXCEPT !.pc = "unvalue"] \in Workers
  <2> DEFINE u == [w[h] EXCEPT !.pc = "unvalue"]
  <2>1. u \in Handlers /\ u.pc = "unvalue" /\ u.todo = w[h].todo /\ u.kind = w[h].kind
      BY <1>1 DEF Handlers, Pcs
  <2>2. Shape(w[h])
      BY DEF IInv, Workers
  <2>3. QED
      BY <1>1, <2>1, <2>2 DEF Workers, Shape
<1>6. MirrorInv'
  <2>1. CASE w[h].kind = "load" /\ RememberLoadedDescriptor(r.name)
      BY <1>3, <2>1, RememberLoadedDescriptorInv DEF IInv
  <2>2. CASE RememberRuntimeNode(r.node, r.name)
      BY <1>3, <2>2, RememberRuntimeNodeInv DEF IInv
  <2>3. CASE ForgetRuntimeNode(r.node)
      BY <2>3, ForgetRuntimeNodeInv DEF IInv
  <2>4. QED
      BY <2>1, <2>2, <2>3 DEF RememberResult
<1>7. w' \in [H -> Workers]
  <2>1. Goto(h, [w[h] EXCEPT !.pc = "persist"]) \/ Goto(h, [w[h] EXCEPT !.pc = "unvalue"])
      BY DEF RememberResult
  <2>2. QED
      BY <1>4, <1>5, <2>1, GotoType DEF IInv
<1>8. QED
    BY <1>6, <1>7, MirrorStep DEF RememberResult, IInv, QueuesOK

\* forget_latest_values_for_node.
LEMMA ForgetValuesInv ==
  ASSUME IInv, NEW h \in H, ForgetValues(h)
  PROVE  IInv'
<1>1. MirrorInv'
    BY ForgetLatestValuesInv DEF IInv, ForgetValues
<1>2. [w[h] EXCEPT !.pc = "persist"] \in Workers
    BY SetPc DEF IInv, Workers, Plain, Pcs
<1>3. w' \in [H -> Workers]
    BY <1>2, GotoType DEF IInv, ForgetValues
<1>4. QED
    BY <1>1, <1>3, MirrorStep DEF ForgetValues, IInv, QueuesOK

\* What each kind of note carries.
LEMMA NotedArgs ==
  /\ \A arg \in Args("update") : arg[1] \in Keys /\ arg[2] \in Bytes
  /\ \A arg \in Args("connect") : arg \in Wire
  /\ \A arg \in Args("param") : <<arg[1], arg[2]>> \in Keys \X Nat /\ arg[3] \in Nat
<1>1. \A arg \in Args("update") : arg[1] \in Keys /\ arg[2] \in Bytes
    BY BridgeAssumption DEF Args, Keys, Bytes
<1>2. ASSUME NEW arg \in Args("connect") PROVE arg \in Wire
  <2>1. PICK c \in ConnIds, a \in NodeIds, b \in NodeIds : arg = <<c, a, b>>
      BY DEF Args
  <2>2. c \in Nat /\ a \in Nat /\ b \in Nat
      BY BridgeAssumption, MirrorAssumption
  <2>3. QED
      BY <2>1, <2>2 DEF Wire
<1>3. ASSUME NEW arg \in Args("param")
      PROVE  <<arg[1], arg[2]>> \in Keys \X Nat /\ arg[3] \in Nat
  <2>1. PICK n \in NodeIds \cup {NoId}, p \in ParamIds, v \in Values : arg = <<n, p, v>>
      BY DEF Args
  <2>2. p \in Nat /\ v \in Nat /\ n \in Keys
      BY BridgeAssumption DEF Keys
  <2>3. QED
      BY <2>1, <2>2
<1>4. QED
    BY <1>1, <1>2, <1>3

\* The routes that change the mirror without waiting.
LEMMA NoteCommandInv ==
  ASSUME IInv, NEW h \in H, NoteCommand(h)
  PROVE  IInv'
<1> DEFINE arg == w[h].arg
<1>1. w[h] \in Handlers /\ arg \in Args(w[h].kind)
    BY DEF IInv, Workers, Handlers
<1>2. MirrorInv'
  <2>1. CASE w[h].kind = "update" /\ RememberRuntimeNodeState(arg[1], arg[2])
      BY <1>1, <2>1, NotedArgs, RememberRuntimeNodeStateInv DEF IInv
  <2>2. CASE w[h].kind = "connect" /\ RememberRuntimeConnection(arg)
      BY <1>1, <2>2, NotedArgs, RememberRuntimeConnectionInv DEF IInv
  <2>3. CASE ForgetRuntimeConnection(arg[1])
      BY <2>3, ForgetRuntimeConnectionInv DEF IInv
  <2>4. CASE w[h].kind = "param" /\ RememberRuntimeParam(<<arg[1], arg[2]>>, arg[3])
      BY <1>1, <2>4, NotedArgs, RememberRuntimeParamInv DEF IInv
  <2>5. QED
      BY <2>1, <2>2, <2>3, <2>4 DEF NoteCommand
<1>3. w' \in [H -> Workers]
  <2>1. [w[h] EXCEPT !.pc = "persist"] \in Workers
      BY <1>1, SetPc DEF Plain, Pcs
  <2>2. Answer(w[h], "accepted") \in Workers
      BY <1>1, AnswerType
  <2>3. Goto(h, [w[h] EXCEPT !.pc = "persist"]) \/ Goto(h, Answer(w[h], "accepted"))
      BY DEF NoteCommand
  <2>4. QED
      BY <2>1, <2>2, <2>3, GotoType DEF IInv
<1>4. QED
    BY <1>2, <1>3, MirrorStep DEF NoteCommand, IInv, QueuesOK

\* persist_runtime_nodes, with a file that can be opened or not.
LEMMA PersistInv ==
  ASSUME IInv, NEW h \in H, Persist(h)
  PROVE  IInv'
<1>1. w[h] \in Handlers /\ w[h].then \in {"done", "snap", "report"}
    BY DEF IInv, Workers, Handlers
<1>2. MirrorInv'
    BY PersistRuntimeNodesInv, MirrorStutter DEF IInv, Persist
<1>3. w' \in [H -> Workers]
  <2>1. Answer(w[h], "accepted") \in Workers
      BY <1>1, AnswerType
  <2>2. [w[h] EXCEPT !.pc = w[h].then] \in Workers
      BY <1>1, SetPc DEF Plain, Pcs
  <2>3. Goto(h, Answer(w[h], "accepted")) \/ Goto(h, [w[h] EXCEPT !.pc = w[h].then])
      BY DEF Persist
  <2>4. QED
      BY <2>1, <2>2, <2>3, GotoType DEF IInv
<1>4. QED
    BY <1>2, <1>3, MirrorStep DEF Persist, IInv, QueuesOK
-----------------------------------------------------------------------------
(* GET /runtime/nodes                                                      *)

\* A worker without a request has no arguments left from the one before.
LEMMA RequestNodesInv ==
  ASSUME IInv, NEW h \in H, RequestNodes(h)
  PROVE  IInv'
<1> DEFINE u == [w[h] EXCEPT !.pc = "drain", !.kind = "nodes"]
<1>1. w[h] = IdleWorker /\ IdleWorker \in Handlers
    BY IdleType DEF IInv, Workers, Shape, RequestNodes
<1>2. u \in Handlers /\ u.pc = "drain"
  <2>1. w[h].arg \in Args("nodes") /\ "nodes" \in AllKinds /\ "drain" \in Pcs
      BY <1>1 DEF IdleWorker, Args, AllKinds, Pcs
  <2>2. w[h] \in Handlers
      BY <1>1
  <2>3. u.arg = w[h].arg /\ u.kind = "nodes" /\ u.pc = "drain"
      BY <2>2 DEF Handlers
  <2>4. u.arg \in Args(u.kind)
      BY <2>1, <2>3
  <2>5. QED
      BY <2>1, <2>2, <2>3, <2>4 DEF Handlers
<1>3. u \in Workers
    BY <1>2 DEF Workers, Shape
<1>4. w' \in [H -> Workers]
    BY <1>3, GotoType DEF IInv, RequestNodes
<1>5. QueuesOK'
  <2>1. /\ requests < MaxRequests /\ requests' = requests + 1
        /\ UNCHANGED <<life, seq, cmdq, resq, pending, resultLock, nodesLock>>
      BY DEF RequestNodes
  <2>2. QED
      BY <2>1, BridgeAssumption DEF IInv, QueuesOK
<1>6. QED
    BY <1>4, <1>5, QuietStep DEF RequestNodes

\* The results are copied, and all of them are pending afterwards.
LEMMA DrainResultsInv ==
  ASSUME IInv, NEW h \in H, DrainResults(h)
  PROVE  IInv'
<1> DEFINE all == pending \o resq
           u == [w[h] EXCEPT !.todo = all, !.pc = IF all = <<>> THEN "snap" ELSE "apply"]
<1>1. all \in Seq(Results) /\ w[h] \in Handlers
    BY DEF IInv, QueuesOK, Workers
<1>2. u \in Handlers /\ u.todo = all /\ u.pc = IF all = <<>> THEN "snap" ELSE "apply"
    BY <1>1 DEF Handlers, Pcs
<1>3. u \in Workers
  <2>1. u.pc \in Plain \cup {"apply"} /\ (u.pc = "apply" => u.todo # <<>>)
      BY <1>2 DEF Plain, Pcs
  <2>2. QED
      BY <1>2, <2>1, ApplyingType
<1>4. w' \in [H -> Workers]
    BY <1>3, GotoType DEF IInv, DrainResults
<1>5. pending' \in Seq(Results)
    BY <1>1, LastOfType, BridgeAssumption DEF DrainResults
<1>6. QueuesOK'
    BY <1>5 DEF IInv, QueuesOK, DrainResults
<1>7. QED
    BY <1>4, <1>6, QuietStep DEF DrainResults

\* One copy is applied.
LEMMA ApplyDrainedInv ==
  ASSUME IInv, NEW h \in H, ApplyDrained(h)
  PROVE  IInv'
<1> DEFINE r == Head(w[h].todo)
           rest == Tail(w[h].todo)
           changed == Applies(r) \/ w[h].changed
           u == [w[h] EXCEPT !.todo = rest, !.changed = changed, !.then = "snap",
                             !.pc = IF rest # <<>> THEN "apply"
                                    ELSE IF changed THEN "persist" ELSE "snap"]
<1>1. w[h] \in Handlers /\ w[h].todo \in Seq(Results) /\ w[h].todo # <<>>
    BY DEF IInv, Workers, Shape, Handlers, ApplyDrained
<1>2. r \in Results /\ rest \in Seq(Results)
    BY <1>1, HeadTailType
<1>3. MirrorInv'
  <2>1. /\ r.node \in Keys /\ r.name \in Labels /\ r.code \in Nat /\ r.conn \in Wire
        /\ (r.type = "load" /\ r.ok => r.name \in Names)
      BY <1>2, MirrorAssumption DEF Results
  <2>2. RememberResultSnapshot(r)
      BY DEF ApplyDrained
  <2>3. QED
      BY <2>1, <2>2, RememberResultSnapshotInv DEF IInv
<1>4. u \in Handlers /\ u.todo = rest /\ u.pc \in {"apply", "persist", "snap"}
                     /\ (u.pc = "apply" => rest # <<>>)
  <2>1. changed \in BOOLEAN
      OBVIOUS
  <2>2. QED
      BY <1>1, <1>2, <2>1 DEF Handlers, Pcs
<1>5. u \in Workers
    BY <1>4 DEF Workers, Shape
<1>6. w' \in [H -> Workers]
    BY <1>5, GotoType DEF IInv, ApplyDrained
<1>7. nodesLock' \in H \cup {Free}
    BY DEF ApplyDrained
<1>8. QED
    BY <1>3, <1>6, <1>7, MirrorStep DEF ApplyDrained

\* The push of the snapshot request.
LEMMA PushSnapshotRequestInv ==
  ASSUME IInv, NEW h \in H, PushSnapshotRequest(h)
  PROVE  IInv'
<1> DEFINE r == [w[h] EXCEPT !.seq = seq + 1, !.changed = FALSE]
<1>1. w[h] \in Handlers /\ seq \in Nat
    BY DEF IInv, Workers, QueuesOK
<1>2. r \in Handlers
  <2>1. seq + 1 \in Nat /\ FALSE \in BOOLEAN
      BY <1>1
  <2>2. r.arg = w[h].arg /\ r.kind = w[h].kind /\ w[h].arg \in Args(w[h].kind)
      BY <1>1 DEF Handlers
  <2>3. QED
      BY <1>1, <2>1, <2>2 DEF Handlers
<1>3. [r EXCEPT !.pc = "clear"] \in Workers /\ [r EXCEPT !.pc = "report"] \in Workers
    BY <1>2, SetPc DEF Plain, Pcs
<1>4. w' \in [H -> Workers]
  <2>1. Goto(h, [r EXCEPT !.pc = "clear"]) \/ Goto(h, [r EXCEPT !.pc = "report"])
      BY DEF PushSnapshotRequest
  <2>2. QED
      BY <1>3, <2>1, GotoType DEF IInv
<1>5. cmdq' \in Seq(Commands)
  <2>1. "nodes" \in AllKinds /\ <<>> \in Args("nodes")
      BY DEF AllKinds, Args
  <2>2. Command("nodes", <<>>) \in Commands
    <3>1. life \in Nat /\ seq' \in Nat
        BY <1>1 DEF IInv, QueuesOK, PushSnapshotRequest
    <3>2. QED
        BY <2>1, <3>1, CommandType
  <2>3. cmdq' = Append(cmdq, Command("nodes", <<>>)) \/ cmdq' = cmdq
      BY DEF PushSnapshotRequest
  <2>4. cmdq \in Seq(Commands)
      BY DEF IInv, QueuesOK
  <2>5. QED
      BY <2>2, <2>3, <2>4
<1>6. QueuesOK'
  <2>1. seq' = seq + 1 /\ UNCHANGED <<requests, life, resq, pending, resultLock, nodesLock>>
      BY DEF PushSnapshotRequest
  <2>2. QED
      BY <1>5, <2>1 DEF IInv, QueuesOK
<1>7. QED
    BY <1>4, <1>6, QuietStep DEF PushSnapshotRequest

\* The mirror is cleared before the poll.
LEMMA ClearMirrorInv ==
  ASSUME IInv, NEW h \in H, ClearMirror(h)
  PROVE  IInv'
<1> DEFINE r == [w[h] EXCEPT !.pc = "poll", !.then = "report"]
<1>1. MirrorInv'
    BY ClearRuntimeNodesInv DEF IInv, ClearMirror
<1>2. r \in Handlers /\ r.pc = "poll"
  <2>1. w[h] \in Handlers
      BY DEF IInv, Workers
  <2>2. r.arg = w[h].arg /\ r.kind = w[h].kind /\ w[h].arg \in Args(w[h].kind)
      BY <2>1 DEF Handlers
  <2>3. QED
      BY <2>1, <2>2 DEF Handlers, Pcs
<1>3. r \in Workers
    BY <1>2 DEF Workers, Shape
<1>4. w' \in [H -> Workers]
    BY <1>3, GotoType DEF IInv, ClearMirror
<1>5. QED
    BY <1>1, <1>4, MirrorStep DEF ClearMirror, IInv, QueuesOK

\* One entry of a snapshot is merged; the marker changes nothing but the loop.
LEMMA MergeSnapshotResultType ==
  ASSUME IInv, NEW h \in H, NEW r \in Results, MergeSnapshotResult(h, r),
         w[h].pc \in {"merge", "mergepop"}
  PROVE  MirrorInv' /\ w' \in [H -> Workers]
<1> DEFINE u == [w[h] EXCEPT
                   !.completed = IsMarker(r) \/ @,
                   !.changed = r.node # NoId \/ (r.code # NoId /\ r.conn[1] # NoId) \/ @]
<1>1. MirrorInv'
  <2>1. /\ r.node \in Keys /\ r.name \in Labels /\ r.code \in Nat /\ r.conn \in Wire
        /\ (r.type = "load" /\ r.ok => r.name \in Names)
      BY MirrorAssumption DEF Results
  <2>2. CASE RememberResultSnapshot(r)
      BY <2>1, <2>2, RememberResultSnapshotInv DEF IInv
  <2>3. CASE UNCHANGED mirrorVars
      BY <2>3, MirrorStutter DEF IInv
  <2>4. QED
      BY <2>2, <2>3 DEF MergeSnapshotResult
<1>2. w[h] \in Handlers
    BY DEF IInv, Workers
<1>3. u \in Handlers /\ u.pc \in {"merge", "mergepop"}
    BY <1>2 DEF Handlers
<1>4. u \in Workers
    BY <1>3 DEF Workers, Shape
<1>5. Goto(h, u)
    BY DEF MergeSnapshotResult
<1>6. QED
    BY <1>1, <1>4, <1>5, GotoType DEF IInv

\* An entry that another worker left in pending_results_.
LEMMA MergePendingInv ==
  ASSUME IInv, NEW h \in H, MergePending(h)
  PROVE  IInv'
<1>1. PICK i \in 1..Len(pending) :
             MergeSnapshotResult(h, pending[i]) /\ pending' = RemoveAt(pending, i)
    BY DEF MergePending
<1>2. pending \in Seq(Results) /\ pending[i] \in Results
    BY DEF IInv, QueuesOK
<1>3. MirrorInv' /\ w' \in [H -> Workers]
    BY <1>1, <1>2, MergeSnapshotResultType DEF MergePending
<1>4. pending' \in Seq(Results)
    BY <1>1, <1>2, RemoveAtType
<1>5. QueuesOK'
    BY <1>4 DEF IInv, QueuesOK, MergePending
<1>6. QED
    BY <1>3, <1>5, EngineStutter DEF IInv, MergePending

\* An entry from the queue, or a result of somebody else, which is kept.
LEMMA MergePopInv ==
  ASSUME IInv, NEW h \in H, MergePop(h)
  PROVE  IInv'
<1>1. pending \in Seq(Results) /\ resq \in Seq(Results) /\ resq # <<>>
    BY DEF IInv, QueuesOK, MergePop
<1>2. Head(resq) \in Results /\ Tail(resq) \in Seq(Results)
    BY <1>1, HeadTailType
<1>3. CASE MergeSnapshotResult(h, Head(resq)) /\ UNCHANGED pending
  <2>1. MirrorInv' /\ w' \in [H -> Workers]
      BY <1>2, <1>3, MergeSnapshotResultType DEF MergePop
  <2>2. QueuesOK'
      BY <1>2, <1>3 DEF IInv, QueuesOK, MergePop
  <2>3. QED
      BY <2>1, <2>2, EngineStutter DEF IInv, MergePop
<1>4. CASE pending' = Keep(pending, Head(resq)) /\ UNCHANGED <<mirrorVars, w>>
  <2>1. pending' \in Seq(Results)
      BY <1>1, <1>2, <1>4, KeepType
  <2>2. w' \in [H -> Workers] /\ QueuesOK'
      BY <1>2, <1>4, <2>1 DEF IInv, QueuesOK, MergePop
  <2>3. MirrorInv'
      BY <1>4, MirrorStutter DEF IInv
  <2>4. QED
      BY <2>2, <2>3, EngineStutter DEF IInv, MergePop
<1>5. QED
    BY <1>3, <1>4 DEF MergePop

\* The report names what the mirror holds.
LEMMA ReportInv ==
  ASSUME IInv, NEW h \in H, Report(h)
  PROVE  IInv'
<1> DEFINE r == [Answer(w[h], "ok") EXCEPT !.nodes = DOMAIN nodes]
<1>1. Answer(w[h], "ok") \in Handlers /\ Answer(w[h], "ok").pc = "done"
  <2>1. w[h] \in Handlers
      BY DEF IInv, Workers
  <2>2. Answer(w[h], "ok") \in Handlers
      BY <2>1, AnswerType DEF Workers
  <2>3. Answer(w[h], "ok").pc = "done"
      BY <2>1 DEF Answer, Handlers
  <2>4. QED
      BY <2>2, <2>3
<1>2. DOMAIN nodes \subseteq Keys
    BY DEF IInv, MirrorInv, MirrorTypeOK, IsMap
<1>3. r \in Handlers /\ r.pc = "done"
    BY <1>1, <1>2 DEF Handlers
<1>4. r \in Workers
    BY <1>3 DEF Workers, Shape
<1>5. QED
    BY <1>4, MoveOn DEF Report, IInv, QueuesOK
-----------------------------------------------------------------------------
(* The other threads, and the life of the process                          *)

\* A value of a node that the engine has.
LEMMA RememberValueInv ==
  ASSUME IInv, NEW n \in DOMAIN eng.nodes, RememberValue(n)
  PROVE  IInv'
<1>1. n \in NodeIds
    BY DEF IInv, EngineTypeOK, IsMap
<1>2. MirrorInv'
    BY <1>1, RememberLatestValueInv DEF IInv, RememberValue
<1>3. QED
    BY <1>2, MirrorStep DEF RememberValue, bridgeVars, IInv, QueuesOK

\* A new process over the old queues and a file that the loader can read.
LEMMA NewLifeInv ==
  ASSUME IInv, NEW image, IsImage(image), NewLife(image)
  PROVE  IInv'
<1>1. MirrorInv'
    BY LoadRuntimeNodesFromDiskInv DEF IInv, NewLife
<1>2. w' \in [H -> Workers]
    BY IdleType DEF NewLife
<1>3. QueuesOK'
    BY DEF IInv, QueuesOK, NewLife
<1>4. EngineTypeOK'
    BY EngineStutter DEF IInv, NewLife
<1>5. QED
    BY <1>1, <1>2, <1>3, <1>4 DEF IInv
-----------------------------------------------------------------------------
(* The engine                                                              *)

\* The fields of a command.
LEMMA CommandFields ==
  ASSUME NEW c \in Commands
  PROVE  /\ c.life \in Nat /\ c.seq \in Nat /\ c.type \in AllKinds /\ c.arg \in Args(c.type)
BY DEF Commands

\* An answer to a command, of any kind but an accepted load without a name.
LEMMA ResultType ==
  ASSUME NEW c \in Commands, NEW ok \in BOOLEAN, NEW node \in Keys, NEW name \in Labels,
         NEW code \in 0..NoId, NEW wire \in Wire,
         c.type = "load" /\ ok => name \in Names
  PROVE  Result(c, ok, node, name, code, wire) \in Results
BY CommandFields DEF Result, Results

\* Constants that answers are made of.
LEMMA ResultParts ==
  /\ NoId \in Keys /\ 0 \in Labels /\ NoWire \in Wire
  /\ 0 \in 0..NoId /\ NoId \in 0..NoId /\ Bytes \subseteq 0..NoId
  /\ TRUE \in BOOLEAN /\ FALSE \in BOOLEAN
<1>1. NoId \in Nat /\ NoId >= 255
    BY MirrorAssumption
<1>2. NoWire \in Wire
    BY DEF NoWire, Wire
<1>3. QED
    BY <1>1, <1>2 DEF Keys, Labels, Bytes

\* The graph without some nodes.
LEMMA WithoutType ==
  ASSUME EngineTypeOK, NEW ids
  PROVE  /\ Without(ids) = [nodes |-> Without(ids).nodes, conns |-> Without(ids).conns]
         /\ IsMap(Without(ids).nodes, NodeIds, [name : Names, state : Bytes])
         /\ IsMap(Without(ids).conns, Nat, Wire)
BY DropMap DEF EngineTypeOK, Without

\* What each kind of command that the engine obeys carries.
LEMMA EngineArgs ==
  /\ \A arg \in Args("load") : arg[1] \in Names
  /\ \A arg \in Args("add") : arg[1] \in Names
  /\ \A arg \in Args("connect") : arg[1] \in Nat
<1>1. /\ \A arg \in Args("load") : arg[1] \in Names
      /\ \A arg \in Args("add") : arg[1] \in Names
    BY DEF Args
<1>2. \A arg \in Args("connect") : arg[1] \in Nat
    BY BridgeAssumption DEF Args
<1>3. QED
    BY <1>1, <1>2

\* A load replaces the descriptor and its nodes.
LEMMA EngineLoadInv ==
  ASSUME EngineTypeOK, NEW c \in Commands, EngineLoad(c)
  PROVE  EngineTypeOK'
<1>1. c.type = "load" /\ c.arg[1] \in Names /\ c.arg[1] \in Labels
    BY CommandFields, EngineArgs DEF EngineLoad, Labels
<1>2. Result(c, TRUE, NoId, c.arg[1], 0, NoWire) \in Results
    BY <1>1, ResultType, ResultParts
<1>3. outbox' \subseteq Results
    BY <1>2 DEF EngineLoad
<1>4. QED
    BY <1>3, WithoutType DEF EngineLoad, EngineTypeOK

\* An added node gets the first free id.
LEMMA EngineAddInv ==
  ASSUME EngineTypeOK, NEW c \in Commands, EngineAdd(c)
  PROVE  EngineTypeOK'
<1>1. c.type = "add" /\ c.arg[1] \in Names /\ c.arg[1] \in Labels
    BY CommandFields, EngineArgs DEF EngineAdd, Labels
<1>2. PICK n \in NodeIds :
             /\ eng' = [eng EXCEPT !.nodes = Put(@, n, NewEntry(c.arg[1]))]
             /\ outbox' = {Result(c, TRUE, n, c.arg[1], 0, NoWire)}
    BY DEF EngineAdd
<1>3. Result(c, TRUE, n, c.arg[1], 0, NoWire) \in Results
    BY <1>1, ResultType, ResultParts DEF Keys
<1>4. NewEntry(c.arg[1]) \in [name : Names, state : Bytes]
    BY <1>1 DEF NewEntry, DefaultState, Bytes
<1>5. IsMap(Put(eng.nodes, n, NewEntry(c.arg[1])), NodeIds, [name : Names, state : Bytes])
    BY <1>4, PutMap DEF EngineTypeOK
<1>6. eng' = [nodes |-> Put(eng.nodes, n, NewEntry(c.arg[1])), conns |-> eng.conns]
    BY <1>2 DEF EngineTypeOK
<1>7. QED
    BY <1>2, <1>3, <1>5, <1>6 DEF EngineTypeOK

\* A removed node takes its connections with it.
LEMMA EngineRemoveInv ==
  ASSUME EngineTypeOK, NEW c \in Commands, EngineRemove(c)
  PROVE  EngineTypeOK'
<1>1. c.arg[1] \in Keys /\ c.type = "remove"
    BY DEF EngineRemove, EngineTypeOK, IsMap, Keys
<1>2. Result(c, TRUE, c.arg[1], 0, 0, NoWire) \in Results
    BY <1>1, ResultType, ResultParts
<1>3. outbox' \subseteq Results
    BY <1>2 DEF EngineRemove
<1>4. QED
    BY <1>3, WithoutType DEF EngineRemove, EngineTypeOK

\* The commands that change a node or a connection, and those that change nothing here.
LEMMA EngineChangeInv ==
  ASSUME EngineTypeOK, NEW c \in Commands, EngineChange(c)
  PROVE  EngineTypeOK'
<1>1. c.type # "load"
    BY DEF EngineChange
<1>2. Result(c, TRUE, NoId, 0, 0, NoWire) \in Results
    BY <1>1, ResultType, ResultParts
<1>3. outbox' \subseteq Results
    BY <1>2 DEF EngineChange, Ack
<1>4. CASE /\ c.type = "update" /\ c.arg[1] \in DOMAIN eng.nodes
           /\ eng' = [eng EXCEPT !.nodes[c.arg[1]].state = c.arg[2]]
  <2>1. c.arg[2] \in Bytes
      BY <1>4, CommandFields, NotedArgs
  <2> DEFINE m == [eng.nodes EXCEPT ![c.arg[1]].state = c.arg[2]]
  <2>2. eng' = [nodes |-> m, conns |-> eng.conns]
      BY <1>4 DEF EngineTypeOK
  <2>3. eng.nodes \in [DOMAIN eng.nodes -> [name : Names, state : Bytes]]
      BY DEF EngineTypeOK, IsMap
  <2>4. IsMap(m, NodeIds, [name : Names, state : Bytes])
      BY <1>4, <2>1, <2>3 DEF EngineTypeOK, IsMap
  <2>5. QED
      BY <1>3, <2>2, <2>4 DEF EngineTypeOK
<1>5. CASE c.type = "connect" /\ eng' = [eng EXCEPT !.conns = Put(@, c.arg[1], c.arg)]
  <2>1. c.arg[1] \in Nat /\ c.arg \in Wire
      BY <1>5, CommandFields, EngineArgs, NotedArgs
  <2>2. IsMap(Put(eng.conns, c.arg[1], c.arg), Nat, Wire)
      BY <2>1, PutMap DEF EngineTypeOK
  <2>3. eng' = [nodes |-> eng.nodes, conns |-> Put(eng.conns, c.arg[1], c.arg)]
      BY <1>5 DEF EngineTypeOK
  <2>4. QED
      BY <1>3, <2>2, <2>3 DEF EngineTypeOK
<1>6. CASE eng' = [eng EXCEPT !.conns = Drop(@, {c.arg[1]})]
  <2>1. IsMap(Drop(eng.conns, {c.arg[1]}), Nat, Wire)
      BY DropMap DEF EngineTypeOK
  <2>2. eng' = [nodes |-> eng.nodes, conns |-> Drop(eng.conns, {c.arg[1]})]
      BY <1>6 DEF EngineTypeOK
  <2>3. QED
      BY <1>3, <2>1, <2>2 DEF EngineTypeOK
<1>7. CASE UNCHANGED eng
    BY <1>3, <1>7 DEF EngineTypeOK, IsMap
<1>8. QED
    BY <1>4, <1>5, <1>6, <1>7 DEF EngineChange

\* The entries of a snapshot and its marker.
LEMMA EngineSnapshotInv ==
  ASSUME EngineTypeOK, NEW c \in Commands, EngineSnapshot(c)
  PROVE  EngineTypeOK'
<1>1. c.type = "nodes"
    BY DEF EngineSnapshot
<1>2. ASSUME NEW n \in DOMAIN eng.nodes
      PROVE  Result(c, TRUE, n, eng.nodes[n].name, eng.nodes[n].state, NoWire) \in Results
  <2>1. n \in Keys /\ eng.nodes[n].name \in Labels /\ eng.nodes[n].state \in Bytes
      BY DEF EngineTypeOK, IsMap, Keys, Labels
  <2>2. eng.nodes[n].state \in 0..NoId
      BY <2>1, ResultParts
  <2>3. QED
      BY <1>1, <2>1, <2>2, ResultType, ResultParts
<1>3. ASSUME NEW k \in DOMAIN eng.conns
      PROVE  Result(c, TRUE, NoId, 0, 0, eng.conns[k]) \in Results
  <2>1. eng.conns[k] \in Wire
      BY DEF EngineTypeOK, IsMap
  <2>2. QED
      BY <1>1, <2>1, ResultType, ResultParts
<1>4. Result(c, TRUE, NoId, 0, NoId, NoWire) \in Results
    BY <1>1, ResultType, ResultParts
<1>5. Snapshot(c) \subseteq Results
    BY <1>2, <1>3, <1>4 DEF Snapshot
<1>6. QED
    BY <1>5 DEF EngineSnapshot, EngineTypeOK, IsMap

\* A refusal names nothing.
LEMMA EngineRefuseInv ==
  ASSUME EngineTypeOK, NEW c \in Commands, EngineRefuse(c)
  PROVE  EngineTypeOK'
<1>1. Result(c, FALSE, NoId, 0, 0, NoWire) \in Results
    BY ResultType, ResultParts
<1>2. outbox' \subseteq Results /\ UNCHANGED eng
    BY <1>1 DEF EngineRefuse
<1>3. QED
    BY <1>2 DEF EngineTypeOK, IsMap

\* The engine takes a command and answers it.
LEMMA EngineTakeInv ==
  ASSUME IInv, EngineTake
  PROVE  IInv'
<1> DEFINE c == Head(cmdq)
<1>1. cmdq \in Seq(Commands) /\ cmdq # <<>>
    BY DEF IInv, QueuesOK, EngineTake
<1>2. c \in Commands /\ Tail(cmdq) \in Seq(Commands)
    BY <1>1, HeadTailType
<1>3. EngineTypeOK
    BY DEF IInv
<1>4. EngineTypeOK'
  <2>1. EngineLoad(c) \/ EngineAdd(c) \/ EngineRemove(c) \/ EngineChange(c)
          \/ EngineSnapshot(c) \/ EngineRefuse(c)
      BY DEF EngineTake
  <2>2. QED
      BY <1>2, <1>3, <2>1, EngineRefuseInv, EngineLoadInv, EngineAddInv, EngineRemoveInv, EngineChangeInv,
         EngineSnapshotInv
<1>5. QueuesOK' /\ w' \in [H -> Workers]
    BY <1>2 DEF IInv, QueuesOK, EngineTake
<1>6. MirrorInv'
    BY MirrorStutter DEF IInv, EngineTake
<1>7. QED
    BY <1>4, <1>5, <1>6 DEF IInv

\* An answer goes to the result queue.
LEMMA EnginePushInv ==
  ASSUME IInv, EnginePush
  PROVE  IInv'
<1>1. PICK r \in outbox : resq' = Append(resq, r) /\ outbox' = outbox \ {r}
    BY DEF EnginePush
<1>2. resq \in Seq(Results) /\ r \in Results /\ outbox' \subseteq Results
    BY <1>1 DEF IInv, QueuesOK, EngineTypeOK
<1>3. resq' \in Seq(Results)
    BY <1>1, <1>2
<1>4. QueuesOK' /\ w' \in [H -> Workers]
    BY <1>3 DEF IInv, QueuesOK, EnginePush
<1>5. EngineTypeOK'
    BY <1>2 DEF IInv, EngineTypeOK, EnginePush, IsMap
<1>6. MirrorInv'
    BY MirrorStutter DEF IInv, EnginePush
<1>7. QED
    BY <1>4, <1>5, <1>6 DEF IInv
-----------------------------------------------------------------------------
(* The inductive invariant                                                 *)

\* The first process starts with empty maps, empty queues and idle workers.
LEMMA InitIInv == Init => IInv
<1> SUFFICES ASSUME Init PROVE IInv
    OBVIOUS
<1>1. MirrorInv
    BY MirrorInitInv DEF Init
<1>2. w \in [H -> Workers]
    BY IdleType DEF Init
<1>3. QueuesOK
    BY BridgeAssumption DEF Init, QueuesOK
<1>4. EngineTypeOK
    BY EmptyMap DEF Init, EngineTypeOK
<1>5. QED
    BY <1>1, <1>2, <1>3, <1>4 DEF IInv

\* A step that changes nothing.
LEMMA StutterIInv == IInv /\ UNCHANGED vars => IInv'
<1> SUFFICES ASSUME IInv, UNCHANGED vars PROVE IInv'
    OBVIOUS
<1>1. UNCHANGED <<mirrorVars, engineVars>> /\ UNCHANGED bridgeVars
    BY DEF vars
<1>2. w' \in [H -> Workers] /\ QueuesOK'
    BY <1>1 DEF bridgeVars, IInv, QueuesOK
<1>3. QED
    BY <1>1, <1>2, QuietStep

\* A request arrives.
LEMMA ReceiveInv ==
  ASSUME IInv, NEW h \in H, Receive(h)
  PROVE  IInv'
<1>1. CASE RequestNodes(h)
    BY <1>1, RequestNodesInv
<1>2. ASSUME NEW kind \in Kinds \ {"nodes", "value"}, NEW arg \in Args(kind),
             SendCommand(h, kind, arg)
      PROVE  IInv'
    BY <1>2, SendCommandInv, BridgeAssumption
<1>3. QED
    BY <1>1, <1>2 DEF Receive

\* The steps that only move the handler on, or that give up.
LEMMA MovingSteps ==
  ASSUME IInv, NEW h \in H,
         \/ LockResults(h) \/ WaitMissPending(h) \/ WaitSleep(h) \/ PollDone(h) \/ PollLock(h)
         \/ MergeMissPending(h) \/ MergeSleep(h) \/ Return(h) \/ WaitTimeout(h) \/ PollTimeout(h)
  PROVE  IInv'
<1>1. w[h] \in Handlers /\ resultLock \in H \cup {Free}
    BY DEF IInv, Workers, QueuesOK
<1>2. \A pc \in Plain : [w[h] EXCEPT !.pc = pc] \in Workers
    BY <1>1, SetPc
<1>3. {"top", "pop", "persist", "report", "merge", "mergepop", "poll"} \subseteq Plain
    BY DEF Plain, Pcs
<1>4. CASE LockResults(h)
    BY <1>2, <1>3, <1>4, MoveOn DEF LockResults
<1>5. CASE WaitMissPending(h)
    BY <1>1, <1>2, <1>3, <1>5, MoveOn DEF WaitMissPending
<1>6. CASE WaitSleep(h)
    BY <1>1, <1>2, <1>3, <1>6, MoveOn DEF WaitSleep
<1>7. CASE PollDone(h) \/ PollTimeout(h)
  <2>1. PollEnd(h)
      BY <1>7 DEF PollDone, PollTimeout
  <2>2. QED
      BY <1>1, <1>2, <1>3, <2>1, MoveOn DEF PollEnd
<1>8. CASE PollLock(h)
    BY <1>2, <1>3, <1>8, MoveOn DEF PollLock
<1>9. CASE MergeMissPending(h)
    BY <1>1, <1>2, <1>3, <1>9, MoveOn DEF MergeMissPending
<1>10. CASE MergeSleep(h)
    BY <1>2, <1>3, <1>10, MoveOn DEF MergeSleep
<1>11. CASE Return(h)
    BY <1>1, <1>11, IdleType, MoveOn DEF Return
<1>12. CASE WaitTimeout(h)
    BY <1>1, <1>12, AnswerType, MoveOn DEF WaitTimeout
<1>13. QED
    BY <1>4, <1>5, <1>6, <1>7, <1>8, <1>9, <1>10, <1>11, <1>12

\* A step of a handler.
LEMMA StepInv ==
  ASSUME IInv, NEW h \in H, Step(h) \/ Timeout(h)
  PROVE  IInv'
<1>1. CASE \/ LockResults(h) \/ WaitMissPending(h) \/ WaitSleep(h) \/ PollDone(h) \/ PollLock(h)
           \/ MergeMissPending(h) \/ MergeSleep(h) \/ Return(h) \/ Timeout(h)
    BY <1>1, MovingSteps DEF Timeout
<1>2. CASE \/ WaitTakePending(h) \/ WaitPop(h) \/ RememberResult(h) \/ ForgetValues(h)
           \/ NoteCommand(h) \/ Persist(h)
    BY <1>2, WaitTakePendingInv, WaitPopInv, RememberResultInv, ForgetValuesInv, NoteCommandInv,
       PersistInv
<1>3. CASE \/ DrainResults(h) \/ ApplyDrained(h) \/ PushSnapshotRequest(h) \/ ClearMirror(h)
           \/ MergePending(h) \/ MergePop(h) \/ Report(h)
    BY <1>3, DrainResultsInv, ApplyDrainedInv, PushSnapshotRequestInv, ClearMirrorInv,
       MergePendingInv, MergePopInv, ReportInv
<1>4. QED
    BY <1>1, <1>2, <1>3 DEF Step

\* A crash leaves a file that the next process can read.
LEMMA LifeInv ==
  ASSUME IInv, Restart \/ \E h \in H : CrashInPersist(h)
  PROVE  IInv'
<1>1. CASE Restart
    BY <1>1, NewLifeInv, DiskOK DEF Restart, IInv
<1>2. CASE \E h \in H : CrashInPersist(h)
  <2>1. PICK image \in TruncatedImages : NewLife(image)
      BY <1>2 DEF CrashInPersist
  <2>2. IsImage(image)
      BY TruncatedImagesOK DEF IInv
  <2>3. QED
      BY <2>1, <2>2, NewLifeInv
<1>3. QED
    BY <1>1, <1>2

\* Every step keeps the inductive invariant.
LEMMA NextIInv == IInv /\ [Next]_vars => IInv'
<1> SUFFICES ASSUME IInv, [Next]_vars PROVE IInv'
    OBVIOUS
<1>1. CASE UNCHANGED vars
    BY <1>1, StutterIInv
<1>2. ASSUME NEW h \in H, Receive(h) \/ Step(h) \/ Timeout(h) PROVE IInv'
    BY <1>2, ReceiveInv, StepInv
<1>3. CASE Restart \/ \E h \in H : CrashInPersist(h)
    BY <1>3, LifeInv
<1>4. ASSUME NEW n \in DOMAIN eng.nodes, RememberValue(n) PROVE IInv'
    BY <1>4, RememberValueInv
<1>5. CASE EngineTake \/ EnginePush
    BY <1>5, EngineTakeInv, EnginePushInv
<1>6. QED
    BY <1>1, <1>2, <1>3, <1>4, <1>5 DEF Next, Quiet

\* The inductive invariant holds in every reachable state.
THEOREM SpecIInv == Spec => []IInv
<1>1. QED
    BY InitIInv, NextIInv, PTL DEF Spec

\* Type correctness of the command side, with a process that stops or dies at
\* any point and with any messages from the engine that have their types: no
\* map ever holds a status that is not a byte or a key that is not an id, and
\* no handler reads a result it does not have.
THEOREM TypeCorrect == Spec => []TypeOK
<1>1. IInv => TypeOK
    BY IInvTypeOK
<1>2. QED
    BY <1>1, SpecIInv, PTL

\* runtime_nodes_ and runtime_node_states_ have the same keys after every step
\* of every handler, every restart and every crash.
THEOREM NodeMapsAgree == Spec => []StatesMatchNodes
<1>1. IInv => StatesMatchNodes
    BY IInvTypeOK
<1>2. QED
    BY <1>1, SpecIInv, PTL
-----------------------------------------------------------------------------
(* Locks                                                                   *)

Holding == {"top", "pop", "merge", "mergepop"}

\* The steps of a handler that neither take nor release a lock.
LEMMA SameLocks ==
  ASSUME IInv, LocksHeldBySteps, NEW h \in H, NEW r, Goto(h, r),
         (r.pc \in Holding) <=> (w[h].pc \in Holding), w[h].pc # "apply",
         UNCHANGED <<resultLock, nodesLock>>
  PROVE  LocksHeldBySteps'
BY DEF IInv, LocksHeldBySteps, Goto, Holding

\* result_mutex_ is taken.
LEMMA TakesLock ==
  ASSUME IInv, LocksHeldBySteps, NEW h \in H, NEW r, Goto(h, r), r.pc \in Holding,
         w[h].pc # "apply", resultLock = Free, resultLock' = h, UNCHANGED nodesLock
  PROVE  LocksHeldBySteps'
BY BridgeAssumption DEF IInv, LocksHeldBySteps, Goto, Holding

\* result_mutex_ is released.
LEMMA ReleasesLock ==
  ASSUME IInv, LocksHeldBySteps, NEW h \in H, NEW r, Goto(h, r), r.pc \notin Holding,
         w[h].pc \in Holding, resultLock' = Free, UNCHANGED nodesLock
  PROVE  LocksHeldBySteps'
BY BridgeAssumption DEF IInv, LocksHeldBySteps, Goto, Holding

\* The program counter of a handler that goes on, or that has its answer.
LEMMA PcOf ==
  ASSUME IInv, NEW h \in H
  PROVE  /\ \A pc : [w[h] EXCEPT !.pc = pc].pc = pc
         /\ \A status : Answer(w[h], status).pc = "done"
<1>1. w[h] \in Handlers
    BY DEF IInv, Workers
<1>2. QED
    BY <1>1 DEF Handlers, Answer

\* A handler outside the two loops goes on, or answers.
LEMMA GoesOn ==
  ASSUME IInv, LocksHeldBySteps, NEW h \in H, w[h].pc \notin Holding \cup {"apply"},
         \/ \E pc \in Pcs \ Holding : Goto(h, [w[h] EXCEPT !.pc = pc])
         \/ \E status : Goto(h, Answer(w[h], status)),
         UNCHANGED <<resultLock, nodesLock>>
  PROVE  LocksHeldBySteps'
<1>1. PICK r : Goto(h, r) /\ r.pc \notin Holding
  <2>1. ASSUME NEW pc \in Pcs \ Holding, Goto(h, [w[h] EXCEPT !.pc = pc])
        PROVE  \E r : Goto(h, r) /\ r.pc \notin Holding
    <3>1. [w[h] EXCEPT !.pc = pc].pc \notin Holding
        BY PcOf
    <3>2. QED
        BY <2>1, <3>1
  <2>2. ASSUME NEW status, Goto(h, Answer(w[h], status))
        PROVE  \E r : Goto(h, r) /\ r.pc \notin Holding
    <3>1. Answer(w[h], status).pc \notin Holding
        BY PcOf DEF Holding
    <3>2. QED
        BY <2>2, <3>1
  <2>3. QED
      BY <2>1, <2>2
<1>2. QED
    BY <1>1, SameLocks

\* Commands, and the calls that change the mirror.
LEMMA CommandLocks ==
  ASSUME IInv, LocksHeldBySteps, NEW h \in H,
         \/ \E kind \in AllKinds : \E arg \in Args(kind) : SendCommand(h, kind, arg)
         \/ RememberResult(h) \/ ForgetValues(h) \/ NoteCommand(h) \/ Persist(h)
  PROVE  LocksHeldBySteps'
<1>1. w[h] \in Handlers /\ w[h].then \in Pcs \ Holding
    BY DEF IInv, Workers, Handlers, Holding, Pcs
<1>2. ASSUME NEW kind \in AllKinds, NEW arg \in Args(kind), SendCommand(h, kind, arg)
      PROVE  LocksHeldBySteps'
  <2> DEFINE r == [w[h] EXCEPT !.kind = kind, !.arg = arg, !.seq = seq + 1]
             u == IF kind \in Awaited THEN [r EXCEPT !.pc = "lock"]
                  ELSE IF kind \in Noted THEN [r EXCEPT !.pc = "note"]
                  ELSE Answer(r, "accepted")
  <2>1. u.pc \in {"lock", "note", "done"} /\ Answer(r, "unavailable").pc = "done"
      BY <1>1 DEF Handlers, Answer
  <2>2. Goto(h, u) \/ Goto(h, Answer(r, "unavailable"))
      BY <1>2 DEF SendCommand
  <2>3. w[h].pc = "idle" /\ UNCHANGED <<resultLock, nodesLock>>
      BY <1>2 DEF SendCommand
  <2> HIDE DEF u, r
  <2>4. QED
      BY <2>1, <2>2, <2>3, SameLocks DEF Holding
<1>3. CASE RememberResult(h)
  <2>1. Goto(h, [w[h] EXCEPT !.pc = "persist"]) \/ Goto(h, [w[h] EXCEPT !.pc = "unvalue"])
      BY <1>3 DEF RememberResult
  <2>2. w[h].pc = "remember" /\ UNCHANGED <<resultLock, nodesLock>>
      BY <1>3 DEF RememberResult
  <2>3. QED
      BY <2>1, <2>2, GoesOn DEF Holding, Pcs
<1>4. CASE ForgetValues(h)
  <2>1. Goto(h, [w[h] EXCEPT !.pc = "persist"]) /\ w[h].pc = "unvalue"
      BY <1>4 DEF ForgetValues
  <2>2. UNCHANGED <<resultLock, nodesLock>>
      BY <1>4 DEF ForgetValues
  <2>3. QED
      BY <2>1, <2>2, GoesOn DEF Holding, Pcs
<1>5. CASE NoteCommand(h)
  <2>1. Goto(h, [w[h] EXCEPT !.pc = "persist"]) \/ Goto(h, Answer(w[h], "accepted"))
      BY <1>5 DEF NoteCommand
  <2>2. w[h].pc = "note" /\ UNCHANGED <<resultLock, nodesLock>>
      BY <1>5 DEF NoteCommand
  <2>3. QED
      BY <2>1, <2>2, GoesOn DEF Holding, Pcs
<1>6. CASE Persist(h)
  <2>1. Goto(h, Answer(w[h], "accepted")) \/ Goto(h, [w[h] EXCEPT !.pc = w[h].then])
      BY <1>6 DEF Persist
  <2>2. w[h].pc = "persist" /\ UNCHANGED <<resultLock, nodesLock>>
      BY <1>6 DEF Persist
  <2>3. QED
      BY <1>1, <2>1, <2>2, GoesOn DEF Holding, Pcs
<1>7. QED
    BY <1>2, <1>3, <1>4, <1>5, <1>6

\* The wait for a result takes result_mutex_ and releases it on every way out.
LEMMA WaitLocks ==
  ASSUME IInv, LocksHeldBySteps, NEW h \in H,
         \/ LockResults(h) \/ WaitTimeout(h) \/ WaitTakePending(h) \/ WaitMissPending(h)
         \/ WaitPop(h) \/ WaitSleep(h)
  PROVE  LocksHeldBySteps'
<1>1. CASE LockResults(h)
    BY <1>1, PcOf, TakesLock DEF LockResults, Holding
<1>2. CASE WaitTimeout(h)
    BY <1>2, PcOf, ReleasesLock DEF WaitTimeout, Holding
<1>3. ASSUME NEW r, TakeResult(h, r), w[h].pc \in {"top", "pop"}, UNCHANGED nodesLock
      PROVE  LocksHeldBySteps'
  <2> DEFINE u == [w[h] EXCEPT !.pc = "remember", !.todo = <<r>>]
  <2>1. u.pc = "remember"
      BY DEF IInv, Workers, Handlers
  <2>2. Goto(h, u) \/ Goto(h, Answer(w[h], "unavailable"))
      BY <1>3 DEF TakeResult
  <2>3. resultLock' = Free
      BY <1>3 DEF TakeResult
  <2> HIDE DEF u
  <2>4. QED
      BY <1>3, <2>1, <2>2, <2>3, PcOf, ReleasesLock DEF Holding
<1>4. CASE WaitTakePending(h)
    BY <1>3, <1>4 DEF WaitTakePending
<1>5. CASE WaitMissPending(h)
    BY <1>5, PcOf, SameLocks DEF WaitMissPending, Holding
<1>6. CASE WaitPop(h)
  <2>1. CASE TakeResult(h, Head(resq))
      BY <1>3, <1>6, <2>1 DEF WaitPop
  <2>2. CASE UNCHANGED <<w, resultLock>>
      BY <1>6, <2>2 DEF WaitPop, LocksHeldBySteps
  <2>3. QED
      BY <1>6, <2>1, <2>2 DEF WaitPop
<1>7. CASE WaitSleep(h)
    BY <1>7, PcOf, SameLocks DEF WaitSleep, Holding
<1>8. QED
    BY <1>1, <1>2, <1>4, <1>5, <1>6, <1>7

\* The drain of GET /runtime/nodes, and its long hold of runtime_nodes_mutex_.
LEMMA DrainLocks ==
  ASSUME IInv, LocksHeldBySteps, NEW h \in H,
         RequestNodes(h) \/ DrainResults(h) \/ ApplyDrained(h) \/ Report(h) \/ Return(h)
  PROVE  LocksHeldBySteps'
<1>1. w[h] \in Handlers
    BY DEF IInv, Workers
<1>2. CASE RequestNodes(h)
  <2>1. [w[h] EXCEPT !.pc = "drain", !.kind = "nodes"].pc = "drain"
      BY <1>1 DEF Handlers
  <2>2. QED
      BY <1>2, <2>1, SameLocks DEF RequestNodes, Holding
<1>3. CASE DrainResults(h)
  <2> DEFINE u == [w[h] EXCEPT !.todo = pending \o resq,
                               !.pc = IF pending \o resq = <<>> THEN "snap" ELSE "apply"]
  <2>1. u.pc \in {"snap", "apply"}
      BY <1>1 DEF Handlers
  <2>2. Goto(h, u) /\ w[h].pc = "drain" /\ UNCHANGED <<resultLock, nodesLock>>
      BY <1>3 DEF DrainResults
  <2> HIDE DEF u
  <2>3. QED
      BY <2>1, <2>2, SameLocks DEF Holding
<1>4. CASE ApplyDrained(h)
  <2> DEFINE rest == Tail(w[h].todo)
             changed == Applies(Head(w[h].todo)) \/ w[h].changed
             u == [w[h] EXCEPT !.todo = rest, !.changed = changed, !.then = "snap",
                               !.pc = IF rest # <<>> THEN "apply"
                                      ELSE IF changed THEN "persist" ELSE "snap"]
  <2>1. u.pc \in {"apply", "persist", "snap"} /\ (rest # <<>> => u.pc = "apply")
      BY <1>1 DEF Handlers
  <2>2. /\ Goto(h, u) /\ w[h].pc = "apply" /\ nodesLock \in {Free, h}
        /\ nodesLock' = (IF rest = <<>> THEN Free ELSE h) /\ UNCHANGED resultLock
      BY <1>4 DEF ApplyDrained
  <2> HIDE DEF u, rest
  <2>3. \A g \in H : w'[g] = IF g = h THEN u ELSE w[g]
      BY <2>2 DEF Goto, IInv
  <2>4. QED
      BY <2>1, <2>2, <2>3, BridgeAssumption DEF LocksHeldBySteps
<1>5. CASE Report(h)
  <2>1. [Answer(w[h], "ok") EXCEPT !.nodes = DOMAIN nodes].pc = "done"
      BY <1>1 DEF Handlers, Answer
  <2>2. QED
      BY <1>5, <2>1, SameLocks DEF Report, Holding
<1>6. CASE Return(h)
  <2>1. IdleWorker.pc = "idle"
      BY DEF IdleWorker
  <2>2. QED
      BY <1>6, <2>1, SameLocks DEF Return, Holding
<1>7. QED
    BY <1>2, <1>3, <1>4, <1>5, <1>6

\* The poll of a snapshot releases result_mutex_ before it sleeps.
LEMMA PollLocks ==
  ASSUME IInv, LocksHeldBySteps, NEW h \in H,
         \/ PushSnapshotRequest(h) \/ ClearMirror(h) \/ PollDone(h) \/ PollTimeout(h)
         \/ PollLock(h) \/ MergePending(h) \/ MergeMissPending(h) \/ MergePop(h) \/ MergeSleep(h)
  PROVE  LocksHeldBySteps'
<1>1. w[h] \in Handlers
    BY DEF IInv, Workers
<1>2. CASE PushSnapshotRequest(h)
  <2> DEFINE r == [w[h] EXCEPT !.seq = seq + 1, !.changed = FALSE]
             u == [r EXCEPT !.pc = "clear"]
             v == [r EXCEPT !.pc = "report"]
  <2>1. u.pc = "clear" /\ v.pc = "report"
      BY <1>1 DEF Handlers
  <2>2. Goto(h, u) \/ Goto(h, v)
      BY <1>2 DEF PushSnapshotRequest
  <2>3. w[h].pc = "snap" /\ UNCHANGED <<resultLock, nodesLock>>
      BY <1>2 DEF PushSnapshotRequest
  <2> HIDE DEF u, v
  <2>4. QED
      BY <2>1, <2>2, <2>3, SameLocks DEF Holding
<1>3. CASE ClearMirror(h)
  <2>1. [w[h] EXCEPT !.pc = "poll", !.then = "report"].pc = "poll"
      BY <1>1 DEF Handlers
  <2>2. QED
      BY <1>3, <2>1, SameLocks DEF ClearMirror, Holding
<1>4. CASE PollDone(h) \/ PollTimeout(h)
  <2>1. PollEnd(h) /\ w[h].pc = "poll"
      BY <1>4 DEF PollDone, PollTimeout
  <2>2. Goto(h, [w[h] EXCEPT !.pc = "persist"]) \/ Goto(h, [w[h] EXCEPT !.pc = "report"])
      BY <2>1 DEF PollEnd
  <2>3. UNCHANGED <<resultLock, nodesLock>>
      BY <2>1 DEF PollEnd
  <2>4. QED
      BY <2>1, <2>2, <2>3, GoesOn DEF Holding, Pcs
<1>5. CASE PollLock(h)
  <2>1. Goto(h, [w[h] EXCEPT !.pc = "merge"]) /\ w[h].pc = "poll"
      BY <1>5 DEF PollLock
  <2>2. resultLock = Free /\ resultLock' = h /\ UNCHANGED nodesLock
      BY <1>5 DEF PollLock
  <2>3. [w[h] EXCEPT !.pc = "merge"].pc = "merge"
      BY PcOf
  <2>4. QED
      BY <2>1, <2>2, <2>3, TakesLock DEF Holding
<1>6. ASSUME NEW r, MergeSnapshotResult(h, r), w[h].pc \in {"merge", "mergepop"},
             UNCHANGED <<resultLock, nodesLock>>
      PROVE  LocksHeldBySteps'
  <2> DEFINE u == [w[h] EXCEPT
                     !.completed = IsMarker(r) \/ @,
                     !.changed = r.node # NoId \/ (r.code # NoId /\ r.conn[1] # NoId) \/ @]
  <2>1. u.pc = w[h].pc
      BY <1>1 DEF Handlers
  <2>2. Goto(h, u)
      BY <1>6 DEF MergeSnapshotResult
  <2> HIDE DEF u
  <2>3. QED
      BY <1>6, <2>1, <2>2, SameLocks
<1>7. CASE MergePending(h)
    BY <1>6, <1>7 DEF MergePending
<1>8. CASE MergeMissPending(h)
    BY <1>8, PcOf, SameLocks DEF MergeMissPending, Holding
<1>9. CASE MergePop(h)
  <2>1. CASE MergeSnapshotResult(h, Head(resq))
      BY <1>6, <1>9, <2>1 DEF MergePop
  <2>2. CASE UNCHANGED w
      BY <1>9, <2>2 DEF MergePop, LocksHeldBySteps
  <2>3. QED
      BY <1>9, <2>1, <2>2 DEF MergePop
<1>10. CASE MergeSleep(h)
  <2>1. Goto(h, [w[h] EXCEPT !.pc = "poll"]) /\ w[h].pc = "mergepop"
      BY <1>10 DEF MergeSleep
  <2>2. resultLock' = Free /\ UNCHANGED nodesLock
      BY <1>10 DEF MergeSleep
  <2>3. [w[h] EXCEPT !.pc = "poll"].pc = "poll"
      BY PcOf
  <2>4. QED
      BY <2>1, <2>2, <2>3, ReleasesLock DEF Holding
<1>11. QED
    BY <1>2, <1>3, <1>4, <1>5, <1>7, <1>8, <1>9, <1>10

\* A new process holds no lock.
LEMMA LifeLocks ==
  ASSUME Restart \/ \E h \in H : CrashInPersist(h)
  PROVE  LocksHeldBySteps'
<1>1. PICK image : NewLife(image)
    BY DEF Restart, CrashInPersist
<1>2. w' = [h \in H |-> IdleWorker] /\ resultLock' = Free /\ nodesLock' = Free
    BY <1>1 DEF NewLife
<1>3. IdleWorker.pc = "idle"
    BY DEF IdleWorker
<1>4. QED
    BY <1>2, <1>3, BridgeAssumption DEF LocksHeldBySteps

\* Every step keeps the locks in order.
LEMMA NextLocks == IInv /\ LocksHeldBySteps /\ [Next]_vars => LocksHeldBySteps'
<1> SUFFICES ASSUME IInv, LocksHeldBySteps, [Next]_vars PROVE LocksHeldBySteps'
    OBVIOUS
<1>1. ASSUME UNCHANGED <<w, resultLock, nodesLock>> PROVE LocksHeldBySteps'
    BY <1>1 DEF LocksHeldBySteps
<1>2. CASE UNCHANGED vars
    BY <1>1, <1>2 DEF vars, bridgeVars
<1>3. ASSUME NEW h \in H, Receive(h) PROVE LocksHeldBySteps'
    BY <1>3, CommandLocks, DrainLocks, BridgeAssumption DEF Receive
<1>4. ASSUME NEW h \in H, Step(h) \/ Timeout(h) PROVE LocksHeldBySteps'
    BY <1>4, CommandLocks, WaitLocks, DrainLocks, PollLocks DEF Step, Timeout
<1>5. CASE Restart \/ \E h \in H : CrashInPersist(h)
    BY <1>5, LifeLocks
<1>6. CASE (\E n \in DOMAIN eng.nodes : RememberValue(n)) \/ EngineTake \/ EnginePush
    BY <1>1, <1>6 DEF RememberValue, EngineTake, EnginePush, bridgeVars
<1>7. QED
    BY <1>2, <1>3, <1>4, <1>5, <1>6 DEF Next, Quiet

\* Mutual exclusion: whatever the number of workers, result_mutex_ is held
\* exactly over the steps of a wait and of a merge and runtime_nodes_mutex_ only
\* over those of an application; no way out of these loops (answer, refusal,
\* deadline, marker, restart) leaves a mutex taken.
THEOREM MutualExclusion == Spec => []LocksHeldBySteps
<1>1. Init => LocksHeldBySteps
  <2>1. IdleWorker.pc = "idle"
      BY DEF IdleWorker
  <2>2. QED
      BY <2>1, BridgeAssumption DEF Init, LocksHeldBySteps
<1>2. QED
    BY <1>1, NextLocks, SpecIInv, PTL DEF Spec
=============================================================================
