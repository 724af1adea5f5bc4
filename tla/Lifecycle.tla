------------------------------ MODULE Lifecycle ------------------------------
(***************************************************************************)
(* The life of the process: main of src/src/main.cpp, start(), stop(),     *)
(* wait() and the destructor of Api::Impl in src/src/api.cpp, the          *)
(* telemetry thread, the server thread and its HTTP workers.               *)
(*                                                                         *)
(* pc is where the owner of the Api is: main, or another program that      *)
(* holds an Api and calls its members one at a time (Calls).  A thread     *)
(* whose std::thread is still joinable is "done" once its function has     *)
(* returned, and "none" when it was never started or has been joined.      *)
(*                                                                         *)
(* Simplifications.  What a drain or a handler does is in Telemetry and    *)
(* Bridge: here it is a use of the queues.  values_stream_ is in Telemetry *)
(* too.  start() makes its two threads in one step: neither looks at the   *)
(* other before the server thread fails.  The HTTP server is external: it  *)
(* can be stopped only while it listens, and its listen() returns after    *)
(* the handlers that are running have returned.                            *)
(***************************************************************************)
EXTENDS Integers, FiniteSets

CONSTANTS Queues,     \* the shared-memory queues
          Workers,    \* HTTP worker threads
          Valid,      \* is the configuration valid? (a set of answers)
          Calls,      \* what the owner may call besides main's own calls
          MaxCalls    \* bound: such calls

ASSUME LifecycleAssumption ==
  /\ Valid \subseteq BOOLEAN
  /\ Calls \subseteq {"start", "stop", "wait"}
  /\ MaxCalls \in Nat

VARIABLES pc,         \* where the owner is
          then,       \* where it goes after stop()
          exit,       \* the exit status that main has chosen
          opened,     \* the queues that are mapped
          valid,      \* what valid() returns
          signalled,  \* stop_requested
          running,    \* running_
          telemetry,  \* telemetry_thread_
          server,     \* server_thread_
          busy,       \* workers that run a handler
          calls       \* counter of the bound

mainVars   == <<then, exit, opened, valid, calls>>
threadVars == <<telemetry, server, busy>>
vars == <<pc, mainVars, signalled, running, threadVars>>

Go(from, to) == pc = from /\ pc' = to
-----------------------------------------------------------------------------
(* main                                                                    *)

\* All four queues are tried, whatever became of the first ones.
OpenQueues ==
  /\ pc = "open"
  /\ opened' \in SUBSET Queues
  /\ pc' = IF opened' = Queues THEN "start" ELSE "abandon"
  /\ UNCHANGED <<then, exit, valid, calls, signalled, running, threadVars>>

\* Not all were opened: they are closed again, and there is no Api yet.
Abandon ==
  /\ Go("abandon", "exited")
  /\ opened' = {}
  /\ exit' = "failure"
  /\ UNCHANGED <<then, valid, calls, signalled, running, threadVars>>

\* The handlers of SIGINT and SIGTERM are installed after the queues are open.
Signal ==
  /\ pc \notin {"open", "abandon", "exited", "terminated"}
  /\ ~signalled
  /\ signalled' = TRUE
  /\ UNCHANGED <<pc, mainVars, running, threadVars>>

\* The loop looks at nothing but stop_requested.
LeaveLoop ==
  /\ pc = "loop"
  /\ signalled
  /\ pc' = "flag" /\ then' = "close"
  /\ exit' = "success"
  /\ UNCHANGED <<opened, valid, calls, signalled, running, threadVars>>

\* The queues are closed while the Api is still there; its destructor comes next.
CloseQueues ==
  /\ Go("close", "flag")
  /\ opened' = {}
  /\ then' = "exited"
  /\ UNCHANGED <<exit, valid, calls, signalled, running, threadVars>>
-----------------------------------------------------------------------------
(* start()                                                                 *)

\* Mutant: the return after a refused start() leaves the queues to nobody.
StartRefusedOpen ==
  /\ pc = "start"
  /\ ~valid \/ running
  /\ IF then = "none"
     THEN pc' = "flag" /\ then' = "exited" /\ exit' = "failure"
     ELSE pc' = "loop" /\ UNCHANGED <<then, exit>>
  /\ UNCHANGED <<opened, valid, calls, signalled, running, threadVars>>

\* running_.exchange(true) has found it true, or the configuration is not valid.
StartRefused ==
  /\ pc = "start"
  /\ ~valid \/ running
  /\ IF then = "none"
     THEN pc' = "close" /\ exit' = "failure"
     ELSE pc' = "loop" /\ UNCHANGED exit
  /\ UNCHANGED <<then, opened, valid, calls, signalled, running, threadVars>>

\* Assigning to a std::thread that is joinable ends the program.
Joinable(thread) == thread # "none"

StartThreads ==
  /\ pc = "start"
  /\ valid /\ ~running
  /\ running' = TRUE
  /\ IF Joinable(telemetry) \/ Joinable(server)
     THEN pc' = "terminated" /\ UNCHANGED <<telemetry, server, then>>
     ELSE /\ pc' = "loop" /\ then' = "loop"
          /\ telemetry' = "check" /\ server' = "starting"
  /\ UNCHANGED <<exit, opened, valid, calls, signalled, busy>>
-----------------------------------------------------------------------------
(* stop(), from its call to its return                                     *)

LowerFlag ==
  /\ Go("flag", "halt")
  /\ running' = FALSE
  /\ UNCHANGED <<mainVars, signalled, threadVars>>

\* Mutant: server_.stop() is forgotten.
HaltNothing ==
  /\ Go("halt", "join telemetry")
  /\ UNCHANGED <<mainVars, signalled, running, threadVars>>

\* server_.stop(): nothing to stop before listen() or after it.
HaltServer ==
  /\ Go("halt", "join telemetry")
  /\ server' = IF server = "listening" THEN "closing" ELSE server
  /\ UNCHANGED <<mainVars, signalled, running, telemetry, busy>>

\* Mutant: stop() does not wait for the telemetry thread.
JoinNoTelemetry ==
  /\ Go("join telemetry", "join server")
  /\ UNCHANGED <<mainVars, signalled, running, threadVars>>

\* A joinable thread is joined when its function has returned.
Joined(thread) == thread \in {"none", "done"}

JoinTelemetry ==
  /\ Go("join telemetry", "join server")
  /\ Joined(telemetry)
  /\ telemetry' = "none"
  /\ UNCHANGED <<mainVars, signalled, running, server, busy>>

JoinServer ==
  /\ Go("join server", "drain")
  /\ Joined(server)
  /\ server' = "none"
  /\ UNCHANGED <<mainVars, signalled, running, telemetry, busy>>

\* The last drain, and the flush of the CSV sink.
LastDrain ==
  /\ Go("drain", then)
  /\ UNCHANGED <<mainVars, signalled, running, threadVars>>
-----------------------------------------------------------------------------
(* What an owner other than main may do with a started Api                 *)

Call(member) ==
  /\ pc = "loop"
  /\ member \in Calls
  /\ calls < MaxCalls
  /\ calls' = calls + 1
  /\ then' = "loop"
  /\ pc' = CASE member = "start" -> "start"
             [] member = "stop"  -> "flag"
             [] member = "wait"  -> "wait server"
  /\ UNCHANGED <<exit, opened, valid, signalled, running, threadVars>>

WaitServer ==
  /\ Go("wait server", "wait flag")
  /\ Joined(server)
  /\ server' = "none"
  /\ UNCHANGED <<mainVars, signalled, running, telemetry, busy>>

WaitFlag ==
  /\ Go("wait flag", "wait telemetry")
  /\ running' = FALSE
  /\ UNCHANGED <<mainVars, signalled, threadVars>>

\* Mutant: wait() leaves the telemetry thread to the destructor.
WaitNoTelemetry ==
  /\ Go("wait telemetry", "loop")
  /\ UNCHANGED <<mainVars, signalled, running, threadVars>>

WaitTelemetry ==
  /\ Go("wait telemetry", "loop")
  /\ Joined(telemetry)
  /\ telemetry' = "none"
  /\ UNCHANGED <<mainVars, signalled, running, server, busy>>
-----------------------------------------------------------------------------
(* The telemetry thread                                                    *)

CheckRunning ==
  /\ telemetry = "check"
  /\ telemetry' = IF running THEN "drain" ELSE "done"
  /\ UNCHANGED <<pc, mainVars, signalled, running, server, busy>>

Drain ==
  /\ telemetry = "drain"
  /\ telemetry' = "check"
  /\ UNCHANGED <<pc, mainVars, signalled, running, server, busy>>
-----------------------------------------------------------------------------
(* The server thread and its workers                                       *)

\* listen() gets the port, or returns false at once.
Bind ==
  /\ server = "starting"
  /\ server' \in {"listening", "failing"}
  /\ UNCHANGED <<pc, mainVars, signalled, running, telemetry, busy>>

\* The listening socket breaks.
AcceptFails ==
  /\ server = "listening"
  /\ server' = "failing"
  /\ UNCHANGED <<pc, mainVars, signalled, running, telemetry, busy>>

\* Mutant: the failure of listen() is ignored.
ListenReturnsSilently ==
  /\ server \in {"closing", "failing"}
  /\ busy = {}
  /\ server' = "done"
  /\ UNCHANGED <<pc, mainVars, signalled, running, telemetry, busy>>

\* listen() returns when no handler runs any more; running_ falls with a failure.
ListenReturns ==
  /\ server \in {"closing", "failing"}
  /\ busy = {}
  /\ server' = "done"
  /\ running' = (running /\ server = "closing")
  /\ UNCHANGED <<pc, mainVars, signalled, telemetry, busy>>

BeginHandler(h) ==
  /\ server = "listening"
  /\ h \notin busy
  /\ busy' = busy \cup {h}
  /\ UNCHANGED <<pc, mainVars, signalled, running, telemetry, server>>

EndHandler(h) ==
  /\ h \in busy
  /\ busy' = busy \ {h}
  /\ UNCHANGED <<pc, mainVars, signalled, running, telemetry, server>>
-----------------------------------------------------------------------------
Init ==
  /\ pc = "open" /\ then = "none" /\ exit = "none"
  /\ opened = {}
  /\ valid \in Valid
  /\ signalled = FALSE
  /\ running = FALSE
  /\ telemetry = "none" /\ server = "none" /\ busy = {}
  /\ calls = 0

StopStep == LowerFlag \/ HaltServer \/ JoinTelemetry \/ JoinServer \/ LastDrain
WaitStep == WaitServer \/ WaitFlag \/ WaitTelemetry

OwnerStep ==
  \/ OpenQueues \/ Abandon \/ LeaveLoop \/ CloseQueues \/ StartRefused \/ StartThreads
  \/ StopStep \/ WaitStep

TelemetryStep == CheckRunning \/ Drain
ServerStep    == Bind \/ ListenReturns

\* The process has ended, and its threads with it.
Over  == pc \in {"exited", "terminated"}
Ended == Over /\ UNCHANGED vars

Next ==
  \/ OwnerStep \/ Signal
  \/ \E member \in {"start", "stop", "wait"} : Call(member)
  \/ ~Over /\ (TelemetryStep \/ ServerStep \/ AcceptFails)
  \/ ~Over /\ \E h \in Workers : BeginHandler(h) \/ EndHandler(h)
  \/ Ended

Spec == Init /\ [][Next]_vars

\* Threads are scheduled and handlers return (Bridge!EveryRequestReplied);
\* nobody has to send a signal.
Fairness ==
  /\ WF_vars(OwnerStep)
  /\ WF_vars(~Over /\ TelemetryStep)
  /\ WF_vars(~Over /\ ServerStep)
  /\ \A h \in Workers : WF_vars(~Over /\ EndHandler(h))

FairSpec == Spec /\ Fairness
-----------------------------------------------------------------------------
(* Types                                                                   *)

StopPoints == {"flag", "halt", "join telemetry", "join server", "drain"}
WaitPoints == {"wait server", "wait flag", "wait telemetry"}
Points == {"open", "abandon", "start", "loop", "close", "exited", "terminated"}
            \cup StopPoints \cup WaitPoints

Flags == {valid, signalled, running} \subseteq BOOLEAN

Positions ==
  /\ pc \in Points
  /\ then \in {"none", "loop", "close", "exited"}
  /\ exit \in {"none", "failure", "success"}
  /\ opened \subseteq Queues
  /\ telemetry \in {"none", "check", "drain", "done"}
  /\ server \in {"none", "starting", "listening", "closing", "failing", "done"}
  /\ busy \subseteq Workers
  /\ calls \in 0..MaxCalls

\* Every variable keeps its type: the owner's program counter and the states of
\* the two threads are where the code can be.
TypeOK == Flags /\ Positions
-----------------------------------------------------------------------------
(* Safety                                                                  *)

InDestructor == pc \in StopPoints /\ then = "exited"

\* The queues are mapped whenever a handler or the telemetry thread uses them,
\* and when stop() drains the last events; only the stop() of the destructor,
\* which main runs after it has closed the queues, drains queues that are gone.
QueuesMappedInUse ==
  telemetry = "drain" \/ busy # {} \/ (pc = "drain" /\ ~InDestructor) => opened = Queues

\* Every way out of main closes the queues it opened, and no thread of the Api
\* outlives it.
ExitsClean ==
  pc = "exited" =>
    /\ opened = {}
    /\ telemetry = "none" /\ server = "none" /\ busy = {}
    /\ exit # "none"

\* start() ends the program only where an earlier listen() has failed or ended by
\* itself, and neither stop() nor wait() came in between: running_ is false
\* then, but the threads are still joinable.
TerminatesAfterFailedListen == pc = "terminated" => server = "done" /\ telemetry # "none"
-----------------------------------------------------------------------------
(* Liveness                                                                *)

\* stop() returns, whatever the handlers and the telemetry thread are doing when
\* it is called, unless listen() has not yet begun (server_.stop() is lost then,
\* and the server that listens afterwards is never joined).
StopReturns == (pc = "halt" /\ server # "starting") ~> pc \notin StopPoints

\* The telemetry thread ends when listen() has failed, although nobody calls stop().
TelemetryFollowsServer ==
  (server = "failing" /\ telemetry # "none") ~> (telemetry \in {"done", "none"} \/ Over)
=============================================================================
