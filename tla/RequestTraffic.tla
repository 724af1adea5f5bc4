---------------------------- MODULE RequestTraffic ----------------------------
(***************************************************************************)
(* The command requests and the CSV requests of one server.  They share no *)
(* state, so a client that makes both kinds in one behaviour would only    *)
(* multiply the states: a client here makes one kind (a bound).            *)
(***************************************************************************)
EXTENDS Requests, CsvTable

VARIABLE client      \* what the client asks for: "commands" or "csv"

vars == <<requestVars, tableVars, client>>

Init == RequestInit /\ TableInit /\ client \in {"commands", "csv"}

Next ==
  \/ client = "commands" /\ RequestNext /\ UNCHANGED <<tableVars, client>>
  \/ client = "csv" /\ TableNext /\ UNCHANGED <<requestVars, client>>

Spec == Init /\ [][Next]_vars
=============================================================================
