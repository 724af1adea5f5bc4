---------------------------- MODULE CommandQueue ----------------------------
(***************************************************************************)
(* The push of a command, from next_seq() to the ring.  Every command      *)
(* route of src/src/api.cpp runs it on its own worker thread with no lock, *)
(* through one of the push_* functions of src/src/api/commands.cpp.        *)
(*                                                                         *)
(* The ring (external) is a single-producer single-consumer queue: the     *)
(* producer reads both positions, writes the slot at head, and publishes   *)
(* head + 1; the consumer reads the slot at tail and publishes tail + 1.   *)
(* What this repository decides is how many threads push at once: every    *)
(* worker of the server.  A command is its sequence number; the fields of  *)
(* the message that push_* fills in are in Requests.                       *)
(***************************************************************************)
EXTENDS Integers, Sequences, FiniteSets

CONSTANTS Producers,    \* threads that push: HTTP workers
          Cap,          \* slots in the ring
          MaxCommands   \* bound: commands

VARIABLES command_seq,  \* command_seq_
          slots,        \* the ring
          head, tail,   \* positions published by the producer and the consumer
          p,            \* producer -> [pc, seq, at]
          accepted,     \* commands whose push returned true
          taken         \* what the engine has popped

vars == <<command_seq, slots, head, tail, p, accepted, taken>>

Idle == [pc |-> "idle", seq |-> 0, at |-> 0]

\* command_seq_.fetch_add(1) + 1, and the message built around it.
NextSeq(t) ==
  /\ p[t].pc = "idle"
  /\ command_seq < MaxCommands
  /\ command_seq' = command_seq + 1
  /\ p' = [p EXCEPT ![t] = [pc |-> "push", seq |-> command_seq + 1, at |-> 0]]
  /\ UNCHANGED <<slots, head, tail, accepted, taken>>

Full(first, next) == next - first = Cap

\* rtsyn_spsc_command_try_push, first part: a full ring is answered 503.
Claim(t) ==
  /\ p[t].pc = "push"
  /\ p' = [p EXCEPT ![t] = IF Full(tail, head) THEN Idle
                           ELSE [@ EXCEPT !.pc = "write", !.at = head]]
  /\ UNCHANGED <<command_seq, slots, head, tail, accepted, taken>>

Write(t) ==
  /\ p[t].pc = "write"
  /\ slots' = [slots EXCEPT ![p[t].at % Cap] = p[t].seq]
  /\ p' = [p EXCEPT ![t].pc = "publish"]
  /\ UNCHANGED <<command_seq, head, tail, accepted, taken>>

\* The push returns true and the handler goes on to 202 or to wait.
Publish(t) ==
  /\ p[t].pc = "publish"
  /\ head' = p[t].at + 1
  /\ accepted' = accepted \cup {p[t].seq}
  /\ p' = [p EXCEPT ![t] = Idle]
  /\ UNCHANGED <<command_seq, slots, tail, taken>>

\* The engine's pop.
Pop ==
  /\ tail < head
  /\ taken' = Append(taken, slots[tail % Cap])
  /\ tail' = tail + 1
  /\ UNCHANGED <<command_seq, slots, head, p, accepted>>

Init ==
  /\ command_seq = 0
  /\ slots = [i \in 0..(Cap - 1) |-> 0]
  /\ head = 0 /\ tail = 0
  /\ p = [t \in Producers |-> Idle]
  /\ accepted = {}
  /\ taken = <<>>

\* The bound on commands is reached and everything is delivered.
Finished ==
  /\ command_seq = MaxCommands /\ tail >= head
  /\ \A t \in Producers : p[t].pc = "idle"
  /\ UNCHANGED vars

Next ==
  \/ \E t \in Producers : NextSeq(t) \/ Claim(t) \/ Write(t) \/ Publish(t)
  \/ Pop
  \/ Finished

Spec == Init /\ [][Next]_vars
-----------------------------------------------------------------------------
\* The commands in the ring, oldest first.
Contents == [i \in 1..(head - tail) |-> slots[(tail + i - 1) % Cap]]

Elements(s) == {s[i] : i \in 1..Len(s)}

\* A command that was accepted (202, or a handler that waits for its result) is
\* in the ring or with the engine, and the engine gets no command twice.
AcceptedDelivered ==
  /\ accepted = Elements(taken) \cup Elements(Contents)
  /\ \A i, j \in 1..Len(taken) : i # j => taken[i] # taken[j]
=============================================================================
