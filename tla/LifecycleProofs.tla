--------------------------- MODULE LifecycleProofs ---------------------------
(***************************************************************************)
(* What Lifecycle promises, for any queues, workers and calls: by an       *)
(* inductive invariant that says which threads may exist at each point of  *)
(* the owner.                                                              *)
(***************************************************************************)
EXTENDS Lifecycle, TLAPS

NoThreads == telemetry = "none" /\ server = "none"

\* Between the calls of its members an Api has both threads or neither, and
\* running_ is false only if there is none or listen() has returned.
Between ==
  pc \in {"start", "loop", "wait server"} =>
    /\ (telemetry = "none") <=> (server = "none")
    /\ server # "closing"
    /\ running = FALSE => server \in {"none", "done"}

\* Which threads stop() and wait() have already joined.
JoinOrder ==
  /\ pc = "join server" => telemetry = "none"
  /\ pc = "drain" => NoThreads
  /\ pc \in {"wait flag", "wait telemetry"} => server = "none"

\* Where the queues need not be mapped: before an Api exists, and in its destructor.
Unmapped == pc \in {"open", "abandon", "exited"} \/ InDestructor

Mapping ==
  /\ ~Unmapped => opened = Queues
  /\ Unmapped \/ pc = "close" => NoThreads
  /\ InDestructor \/ pc = "exited" => opened = {}

\* main has chosen an exit status on every path to its end.
Paths ==
  /\ pc \in StopPoints => then # "none"
  /\ then = "none" => pc \in {"open", "abandon", "start", "close", "exited"} /\ NoThreads
  /\ then = "exited" => pc \in StopPoints \cup {"exited"}
  /\ pc \in {"close", "exited"} \/ then \in {"close", "exited"} => exit # "none"

Handlers == busy # {} => server \in {"listening", "closing", "failing"}

\* The inductive invariant.
IInv ==
  /\ Positions /\ Between /\ JoinOrder /\ Mapping /\ Paths /\ Handlers
  /\ TerminatesAfterFailedListen
-----------------------------------------------------------------------------
LEMMA InitIInv == Init => IInv
  BY LifecycleAssumption
  DEF Init, IInv, Positions, Between, JoinOrder, Mapping, Paths, Handlers, Unmapped, InDestructor,
      NoThreads, TerminatesAfterFailedListen, LifecycleAssumption, Points, StopPoints, WaitPoints

\* main's own steps, and start().
LEMMA OwnerKeepsIInv ==
  ASSUME IInv,
         OpenQueues \/ Abandon \/ Signal \/ LeaveLoop \/ CloseQueues \/ StartRefused
           \/ StartThreads
  PROVE  IInv'
  <1> USE DEF IInv, Positions, Between, JoinOrder, Mapping, Paths, Handlers, Unmapped,
          InDestructor, NoThreads, TerminatesAfterFailedListen, Points, StopPoints, WaitPoints,
          mainVars, threadVars
  <1>1. CASE OpenQueues
    BY <1>1 DEF OpenQueues
  <1>2. CASE Abandon
    BY <1>2 DEF Abandon, Go
  <1>3. CASE Signal
    <2>1. /\ UNCHANGED <<pc, then, exit, opened, calls>>
          /\ UNCHANGED <<running, telemetry, server, busy>>
      BY <1>3, Zenon DEF Signal
    <2>2. Positions' /\ JoinOrder' /\ Mapping'
      BY <2>1
    <2>3. Paths' /\ Handlers'
      BY <2>1
    <2>4. Between' /\ TerminatesAfterFailedListen'
      BY <2>1
    <2> QED
      BY <2>2, <2>3, <2>4
  <1>4. CASE LeaveLoop
    BY <1>4 DEF LeaveLoop
  <1>5. CASE CloseQueues
    BY <1>5 DEF CloseQueues, Go
  <1>6. CASE StartRefused
    BY <1>6 DEF StartRefused
  <1>7. CASE StartThreads
    <2>1. pc = "start" /\ running = FALSE
      BY <1>7 DEF StartThreads
    <2>2. CASE NoThreads
      BY <1>7, <2>1, <2>2 DEF StartThreads, Joinable
    <2>3. CASE ~NoThreads
      BY <1>7, <2>1, <2>3 DEF StartThreads, Joinable
    <2> QED
      BY <2>2, <2>3
  <1> QED
    BY <1>1, <1>2, <1>3, <1>4, <1>5, <1>6, <1>7

\* stop(), wait(), and their calls.
LEMMA MembersKeepIInv ==
  ASSUME IInv,
         StopStep \/ WaitStep \/ \E member \in {"start", "stop", "wait"} : Call(member)
  PROVE  IInv'
  <1> USE DEF IInv, Positions, Between, JoinOrder, Mapping, Paths, Handlers, Unmapped,
          InDestructor, NoThreads, TerminatesAfterFailedListen, Points, StopPoints, WaitPoints,
          mainVars, threadVars
  <1>1. CASE LowerFlag
    BY <1>1 DEF LowerFlag, Go
  <1>2. CASE HaltServer
    BY <1>2 DEF HaltServer, Go
  <1>3. CASE JoinTelemetry
    BY <1>3 DEF JoinTelemetry, Joined, Go
  <1>4. CASE JoinServer
    BY <1>4 DEF JoinServer, Joined, Go
  <1>5. CASE LastDrain
    BY <1>5 DEF LastDrain, Go
  <1>6. CASE WaitServer
    BY <1>6 DEF WaitServer, Joined, Go
  <1>7. CASE WaitFlag
    BY <1>7 DEF WaitFlag, Go
  <1>8. CASE WaitTelemetry
    BY <1>8 DEF WaitTelemetry, Joined, Go
  <1>9. ASSUME NEW member \in {"start", "stop", "wait"}, Call(member)
        PROVE  IInv'
    <2>1. calls' \in 0..MaxCalls
      <3>1. calls < MaxCalls /\ calls' = calls + 1
        BY <1>9, Zenon DEF Call
      <3>2. calls \in 0..MaxCalls
        BY Zenon
      <3>3. MaxCalls \in Nat
        BY LifecycleAssumption, Zenon DEF LifecycleAssumption
      <3> HIDE DEF IInv
      <3> QED
        BY <3>1, <3>2, <3>3
    <2>2. CASE member = "start"
      BY <1>9, <2>1, <2>2 DEF Call
    <2>3. CASE member = "stop"
      BY <1>9, <2>1, <2>3 DEF Call
    <2>4. CASE member = "wait"
      BY <1>9, <2>1, <2>4 DEF Call
    <2> QED
      BY <2>2, <2>3, <2>4
  <1> QED
    BY <1>1, <1>2, <1>3, <1>4, <1>5, <1>6, <1>7, <1>8, <1>9 DEF StopStep, WaitStep

\* The telemetry thread, the server thread and the workers.
LEMMA ThreadsKeepIInv ==
  ASSUME IInv, ~Over,
         \/ TelemetryStep \/ ServerStep \/ AcceptFails
         \/ \E h \in Workers : BeginHandler(h) \/ EndHandler(h)
  PROVE  IInv'
  <1> USE DEF IInv, Positions, Between, JoinOrder, Mapping, Paths, Handlers, Unmapped,
          InDestructor, NoThreads, TerminatesAfterFailedListen, Points, StopPoints, WaitPoints,
          mainVars, Over
  <1>1. CASE CheckRunning
    BY <1>1 DEF CheckRunning
  <1>2. CASE Drain
    BY <1>2 DEF Drain
  <1>3. CASE Bind
    BY <1>3 DEF Bind
  <1>4. CASE ListenReturns
    BY <1>4 DEF ListenReturns
  <1>5. CASE AcceptFails
    BY <1>5 DEF AcceptFails
  <1>6. ASSUME NEW h \in Workers, BeginHandler(h)
        PROVE  IInv'
    BY <1>6 DEF BeginHandler
  <1>7. ASSUME NEW h \in Workers, EndHandler(h)
        PROVE  IInv'
    BY <1>7 DEF EndHandler
  <1> QED
    BY <1>1, <1>2, <1>3, <1>4, <1>5, <1>6, <1>7 DEF TelemetryStep, ServerStep

LEMMA NextKeepsIInv == IInv /\ [Next]_vars => IInv'
  <1> SUFFICES ASSUME IInv, [Next]_vars
               PROVE  IInv'
    OBVIOUS
  <1>1. CASE UNCHANGED vars
    BY <1>1 DEF IInv, Positions, Between, JoinOrder, Mapping, Paths, Handlers, Unmapped,
       InDestructor, NoThreads, TerminatesAfterFailedListen, vars, mainVars, threadVars
  <1>2. CASE Next
    BY <1>1, <1>2, OwnerKeepsIInv, MembersKeepIInv, ThreadsKeepIInv DEF Next, OwnerStep, Ended
  <1> QED
    BY <1>1, <1>2

\* The invariant holds in every reachable state.
THEOREM SpecIInv == Spec => []IInv
  <1>1. Init => IInv
    BY InitIInv
  <1>2. IInv /\ [Next]_vars => IInv'
    BY NextKeepsIInv
  <1> QED
    BY <1>1, <1>2, PTL DEF Spec

\* Every variable has its type in every reachable state.
THEOREM TypeCorrect == Spec => []TypeOK
  <1>1. Init => Flags
    BY LifecycleAssumption, Zenon DEF Init, Flags, LifecycleAssumption
  <1>2. ASSUME Flags, [Next]_vars
        PROVE  Flags'
    <2> USE <1>2 DEF Flags, mainVars, threadVars, Next, vars, OwnerStep, TelemetryStep, ServerStep,
            StopStep, WaitStep, OpenQueues, Abandon, Signal, LeaveLoop, CloseQueues,
            StartRefused, StartThreads, LowerFlag, HaltServer, JoinTelemetry, JoinServer,
            LastDrain, Call, WaitServer, WaitFlag, WaitTelemetry, CheckRunning, Drain, Bind,
            AcceptFails, ListenReturns, BeginHandler, EndHandler, Ended
    <2>1. valid' = valid
      BY Zenon
    <2>2. signalled' \in {signalled, TRUE}
      BY Zenon
    <2>3. running' \in BOOLEAN
      BY Zenon
    <2> QED
      BY <2>1, <2>2, <2>3, Zenon
  <1>3. Spec => []Flags
    BY <1>1, <1>2, PTL DEF Spec
  <1>4. IInv /\ Flags => TypeOK
    BY DEF IInv, TypeOK
  <1> QED
    BY <1>3, <1>4, SpecIInv, PTL
-----------------------------------------------------------------------------
\* No thread uses a queue that main has closed, and no drain but that of the
\* destructor does: the queues are closed after stop() has joined both threads.
THEOREM QueuesOutliveThreads == Spec => []QueuesMappedInUse
  <1>1. IInv => QueuesMappedInUse
    BY DEF IInv, Positions, Mapping, Unmapped, NoThreads, Handlers, QueuesMappedInUse, InDestructor,
       JoinOrder, StopPoints
  <1> QED
    BY <1>1, SpecIInv, PTL

\* Whatever path main takes, it ends with no queue mapped and no thread running.
THEOREM CleanExit == Spec => []ExitsClean
  <1>1. IInv => ExitsClean
    BY DEF IInv, Mapping, Unmapped, NoThreads, Handlers, Paths, ExitsClean
  <1> QED
    BY <1>1, SpecIInv, PTL

\* std::terminate has one cause: start() after a listen() that ended, with no stop() or wait().
THEOREM OneCauseOfTermination == Spec => []TerminatesAfterFailedListen
  <1>1. IInv => TerminatesAfterFailedListen
    BY DEF IInv
  <1> QED
    BY <1>1, SpecIInv, PTL
=============================================================================
