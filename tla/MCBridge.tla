------------------------------ MODULE MCBridge ------------------------------
(***************************************************************************)
(* The instances of Bridge that TLC checks.  The ids are small numbers,    *)
(* and NoId is 65535: UINT32_MAX does not fit in TLC's integers.           *)
(***************************************************************************)
EXTENDS Bridge

CONSTANTS h1, h2, none

Workers1 == {h1}
Workers2 == {h1, h2}
Ids1     == {1}
Ids2     == {1, 2}
NoIds    == {}

State2   == {2}

Lifecycle == {"load", "add", "remove"}
Reports   == {"add", "remove", "nodes"}
Persisted == {"load", "add", "remove", "update", "nodes"}
Graph     == {"load", "add", "remove", "nodes", "control"}
Edits     == {"add", "remove", "update", "connect", "disconnect", "param", "nodes", "value"}

Symmetry == Permutations(Workers2)
=============================================================================
