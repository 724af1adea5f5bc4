----------------------------- MODULE MCLifecycle -----------------------------
(* The instance of Lifecycle that TLC checks. *)
EXTENDS Lifecycle

CONSTANTS h1, h2, command, result, telemetryQueue, values

Workers2  == {h1, h2}
AllQueues == {command, result, telemetryQueue, values}
Either    == BOOLEAN
AllCalls  == {"start", "stop", "wait"}
=============================================================================
