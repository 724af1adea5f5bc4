------------------------------ MODULE Service ------------------------------
(***************************************************************************)
(* What the command side promises to the clients of the API: a request is  *)
(* open until it is replied to, once; a command that is waited for is      *)
(* called accepted only if the realtime engine accepted this very command, *)
(* and refused only if the engine refused it or never got it.  "pending"   *)
(* promises nothing.  Bridge implements it.                                *)
(***************************************************************************)
CONSTANTS Clients,      \* connections, one request at a time each
          Waited        \* the kinds of request whose outcome is waited for

VARIABLES kind,         \* client -> the request it has open, or "none"
          verdict,      \* client -> the engine's answer to it, so far
          reply         \* client -> what it was told

serviceVars == <<kind, verdict, reply>>

Init ==
  /\ kind = [c \in Clients |-> "none"]
  /\ verdict = [c \in Clients |-> "none"]
  /\ reply = [c \in Clients |-> "none"]

Open(c) == kind[c] # "none" /\ reply[c] = "none"

Tell(c, status) ==
  /\ reply' = [reply EXCEPT ![c] = status]
  /\ verdict' = [verdict EXCEPT ![c] = "none"]

Ask(c) ==
  /\ kind[c] = "none"
  /\ \E k \in {"load", "add", "remove", "nodes", "update", "connect", "disconnect",
               "param", "control"} : kind' = [kind EXCEPT ![c] = k]
  /\ \/ UNCHANGED <<verdict, reply>>
     \/ kind'[c] # "nodes" /\ Tell(c, "unavailable")                  \* not sent
     \/ kind'[c] \notin Waited \cup {"nodes"} /\ Tell(c, "accepted")  \* not waited for

\* The engine answers the command of c, which is still waited for.
Decide(c) ==
  /\ Open(c)
  /\ verdict[c] = "none"
  /\ \E v \in {"yes", "no"} : verdict' = [verdict EXCEPT ![c] = v]
  /\ UNCHANGED <<kind, reply>>

Reply(c) ==
  /\ Open(c)
  /\ \/ kind[c] \in Waited /\ verdict[c] = "yes" /\ Tell(c, "accepted")
     \/ kind[c] \in Waited /\ verdict[c] = "no"  /\ Tell(c, "unavailable")
     \/ kind[c] \in Waited                       /\ Tell(c, "pending")
     \/ kind[c] = "nodes"                        /\ Tell(c, "ok")
     \/ kind[c] \notin Waited \cup {"nodes"}     /\ Tell(c, "accepted")
  /\ UNCHANGED kind

Close(c) ==
  /\ reply[c] # "none"
  /\ kind' = [kind EXCEPT ![c] = "none"]
  /\ reply' = [reply EXCEPT ![c] = "none"]
  /\ UNCHANGED verdict

Next == \E c \in Clients : Ask(c) \/ Decide(c) \/ Reply(c) \/ Close(c)

Spec == Init /\ [][Next]_serviceVars
=============================================================================
