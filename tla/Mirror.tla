------------------------------- MODULE Mirror -------------------------------
(***************************************************************************)
(* The API process's mirror of the engine's graph: the maps that           *)
(* Api::Impl keeps under runtime_nodes_mutex_ (and latest_values_, under   *)
(* events_mutex_), the file they are persisted to, and one action operator *)
(* for each member function that changes them.  A composing module decides *)
(* who calls them, when, and with which lock.                              *)
(*                                                                         *)
(* Simplifications.  A name stands for a whole descriptor (ports, type); a *)
(* set of names stands for loaded_descriptors_.  Names are numbers because *)
(* the maps are written to disk in key order, and 0 is the empty name of a *)
(* zero-initialised message.  loaded_module_paths_ is written and never    *)
(* used in a decision, so it is left out.  NoId stands for UINT32_MAX: the *)
(* only thing its width decides is the cast of a status code to a byte.    *)
(* The limit of 1024 records that the loader reads is left out.            *)
(***************************************************************************)
EXTENDS Integers, FiniteSets, Functions

CONSTANTS NodeIds,   \* ids the engine gives to nodes
          Names,     \* descriptor names
          NoId       \* UINT32_MAX, the id that names no node

ASSUME MirrorAssumption ==
  /\ NoId \in Nat
  /\ NoId % 256 = 255
  /\ NodeIds \subseteq Nat \ {NoId}
  /\ Names \subseteq Nat \ {0}

VARIABLES nodes,    \* runtime_nodes_: id -> descriptor name
          states,   \* runtime_node_states_: id -> state byte
          conns,    \* runtime_connections_: id -> <<id, source, destination>>
          params,   \* runtime_params_: <<node, param>> -> value
          descs,    \* loaded_descriptors_: the names loaded
          latest,   \* latest_values_: the nodes that have a latest value
          disk      \* the persisted file: [nodes, descs]

graphVars  == <<nodes, states, conns, params, descs>>
mirrorVars == <<graphVars, latest, disk>>

\* The state a node has until the engine reports one (RuntimeNodeState 4).
DefaultState == 4

\* std::map: empty, m[k] = v, and m.erase over a set of keys.
Empty        == [k \in {} |-> 0]
Put(f, k, v) == [x \in DOMAIN f \cup {k} |-> IF x = k THEN v ELSE f[x]]
Drop(f, S)   == Restrict(f, DOMAIN f \ S)

Touches(wire, ids) == wire[2] \in ids \/ wire[3] \in ids

\* Mutant: the status code is stored as it is.
ByteUncast(x) == x

\* A cast to std::uint8_t.
Byte(x) == x % 256
-----------------------------------------------------------------------------
(* What a drained result does to the mirror                                *)

\* A result that describes a connection: no node, a usable connection id.
IsConnectionEntry(r) ==
  /\ r.type = "nodes"
  /\ r.node = NoId
  /\ r.code # NoId
  /\ r.conn[1] # NoId

\* The end-of-snapshot marker, as merge_runtime_snapshot_result reads it.
IsMarker(r) == r.node = NoId /\ r.code = NoId

\* Erase ids from both node maps and everything that refers to them.
EraseNodes(ids) ==
  /\ nodes'  = Drop(nodes, ids)
  /\ states' = Drop(states, ids)
  /\ conns'  = Drop(conns, {c \in DOMAIN conns : Touches(conns[c], ids)})
  /\ params' = Drop(params, {k \in DOMAIN params : k[1] \in ids})

NodesNamed(name) == {n \in DOMAIN nodes : nodes[n] = name}

\* remove_runtime_nodes_by_descriptor_locked, and the descriptor it makes room for.
LoadDescriptor(name) ==
  /\ descs' = descs \cup {name}
  /\ EraseNodes(NodesNamed(name))
  /\ latest' = latest \ NodesNamed(name)

\* The value remember_result_snapshot_locked returns: did the mirror change?
Applies(r) == r.ok /\ r.type \in {"load", "remove", "add", "nodes"}

ApplyLoad(r) ==
  /\ r.type = "load"
  /\ LoadDescriptor(r.name)

\* Unlike forget_runtime_node, this path leaves connections, params and values.
ApplyRemove(r) ==
  /\ r.type = "remove"
  /\ nodes'  = Drop(nodes, {r.node})
  /\ states' = Drop(states, {r.node})
  /\ UNCHANGED <<conns, params, descs, latest>>

ApplyConnectionEntry(r) ==
  /\ IsConnectionEntry(r)
  /\ conns' = Put(conns, r.conn[1], r.conn)
  /\ UNCHANGED <<nodes, states, params, descs, latest>>

\* Every other entry of a snapshot, and every ADD, names a node: the id is not looked at.
ApplyNode(r) ==
  /\ r.type \in {"add", "nodes"}
  /\ ~IsConnectionEntry(r)
  /\ nodes' = Put(nodes, r.node, r.name)
  /\ states' = IF r.type = "nodes" THEN Put(states, r.node, Byte(r.code))
               ELSE IF r.node \in DOMAIN states THEN states
               ELSE Put(states, r.node, DefaultState)
  /\ UNCHANGED <<conns, params, descs, latest>>

RememberResultSnapshot(r) ==
  /\ \/ Applies(r) /\ (ApplyLoad(r) \/ ApplyRemove(r) \/ ApplyConnectionEntry(r) \/ ApplyNode(r))
     \/ ~Applies(r) /\ UNCHANGED <<graphVars, latest>>
  /\ UNCHANGED disk
-----------------------------------------------------------------------------
(* What the command handlers do to the mirror                              *)

RememberLoadedDescriptor(name) == LoadDescriptor(name) /\ UNCHANGED disk

\* The part of forget_runtime_node under runtime_nodes_mutex_ ...
ForgetRuntimeNode(n) == EraseNodes({n}) /\ UNCHANGED <<descs, latest, disk>>

\* ... and forget_latest_values_for_node, under events_mutex_ after it.
ForgetLatestValues(n) == latest' = latest \ {n} /\ UNCHANGED <<graphVars, disk>>

RememberRuntimeNode(n, name) ==
  /\ nodes'  = Put(nodes, n, name)
  /\ states' = Put(states, n, DefaultState)
  /\ UNCHANGED <<conns, params, descs, latest, disk>>

\* Mutant: the state of a node that is not in the mirror is remembered.
RememberAnyNodeState(n, state) ==
  /\ states' = Put(states, n, state)
  /\ UNCHANGED <<nodes, conns, params, descs, latest, disk>>

RememberRuntimeNodeState(n, state) ==
  /\ states' = IF n \in DOMAIN nodes THEN Put(states, n, state) ELSE states
  /\ UNCHANGED <<nodes, conns, params, descs, latest, disk>>

RememberRuntimeConnection(wire) ==
  /\ conns' = Put(conns, wire[1], wire)
  /\ UNCHANGED <<nodes, states, params, descs, latest, disk>>

ForgetRuntimeConnection(c) ==
  /\ conns' = Drop(conns, {c})
  /\ UNCHANGED <<nodes, states, params, descs, latest, disk>>

RememberRuntimeParam(key, value) ==
  /\ params' = Put(params, key, value)
  /\ UNCHANGED <<nodes, states, conns, descs, latest, disk>>

\* Mutants: one of the two node maps is left out.
ClearNodesOnly ==
  /\ nodes' = Empty
  /\ conns' = Empty
  /\ UNCHANGED <<states, params, descs, latest, disk>>

ClearConnectionsOnly ==
  /\ conns' = Empty
  /\ UNCHANGED <<nodes, states, params, descs, latest, disk>>

\* What request_live_runtime_nodes_snapshot clears before it polls.
ClearRuntimeNodes ==
  /\ nodes' = Empty
  /\ states' = Empty
  /\ conns' = Empty
  /\ UNCHANGED <<params, descs, latest, disk>>

\* The telemetry thread's remember_latest_values, for one value of node n.
RememberLatestValue(n) == latest' = latest \cup {n} /\ UNCHANGED <<graphVars, disk>>
-----------------------------------------------------------------------------
(* The file                                                                *)

NoDisk == [nodes |-> Empty, descs |-> {}]

DiskImage ==
  [nodes |-> [n \in DOMAIN nodes |->
               [name  |-> nodes[n],
                state |-> IF n \in DOMAIN states THEN states[n] ELSE DefaultState]],
   descs |-> descs]

PersistRuntimeNodes == disk' = DiskImage /\ UNCHANGED <<graphVars, latest>>

\* The initial segments of a set of keys, in the order a std::map is walked.
InitialSegments(S) == {{x \in S : x < k} : k \in S} \cup {S}

\* What the loader makes of a file whose writer died part of the way: the
\* records that are whole, nodes first (an incomplete header reads as no file).
TruncatedImages ==
  {[nodes |-> Restrict(DiskImage.nodes, K), descs |-> {}] : K \in InitialSegments(DOMAIN nodes)}
    \cup {[nodes |-> DiskImage.nodes, descs |-> D] : D \in InitialSegments(descs)}

\* Mutant: the state byte is skipped.
LoadNodesOnly(image) ==
  /\ nodes'  = [n \in DOMAIN image.nodes |-> image.nodes[n].name]
  /\ states' = Empty
  /\ descs'  = image.descs
  /\ conns'  = Empty
  /\ params' = Empty
  /\ latest' = {}
  /\ disk'   = image

\* load_runtime_nodes_from_disk, in a process whose maps are still empty.
LoadRuntimeNodesFromDisk(image) ==
  /\ nodes'  = [n \in DOMAIN image.nodes |-> image.nodes[n].name]
  /\ states' = [n \in DOMAIN image.nodes |-> image.nodes[n].state]
  /\ descs'  = image.descs
  /\ conns'  = Empty
  /\ params' = Empty
  /\ latest' = {}
  /\ disk'   = image

MirrorInit ==
  /\ nodes = Empty
  /\ states = Empty
  /\ conns = Empty
  /\ params = Empty
  /\ descs = {}
  /\ latest = {}
  /\ disk = NoDisk
-----------------------------------------------------------------------------
IsMap(f, D, R) == DOMAIN f \subseteq D /\ f \in [DOMAIN f -> R]

Wire   == Nat \X Nat \X Nat
Keys   == NodeIds \cup {NoId}
Labels == Names \cup {0}
Bytes  == 0..255
\* A node in the file.
Records == [name : Labels, state : Bytes]

\* What the maps may hold: ids the engine gives out, and NoId where a marker
\* was taken for a node; the name of a marker is empty.
MirrorTypeOK ==
  /\ IsMap(nodes, Keys, Labels)
  /\ IsMap(states, Keys, Bytes)
  /\ IsMap(conns, Nat, Wire)
  /\ IsMap(params, Keys \X Nat, Nat)
  /\ descs \subseteq Names
  /\ latest \subseteq NodeIds
  /\ IsMap(disk.nodes, Keys, Records)
  /\ disk.descs \subseteq Names
  /\ disk = [nodes |-> disk.nodes, descs |-> disk.descs]

\* Each runtime_nodes_ entry has its runtime_node_states_ entry and there is no
\* other: the report would otherwise invent a state, and the loader could not
\* restore one.  Every path of api.cpp that touches one of the two maps has to
\* touch the other.
StatesMatchNodes == DOMAIN states = DOMAIN nodes
=============================================================================
