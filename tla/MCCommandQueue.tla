--------------------------- MODULE MCCommandQueue ---------------------------
(* The instance of CommandQueue that TLC checks. *)
EXTENDS CommandQueue

CONSTANTS h1, h2

TwoProducers == {h1, h2}
=============================================================================
