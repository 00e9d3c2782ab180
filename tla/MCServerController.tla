------------------------- MODULE MCServerController -------------------------
(***************************************************************************)
(* An instance of ServerController for TLC: a service and its successor,   *)
(* whose goroutines overlap, and relay packets for fewer slots.            *)
(***************************************************************************)
EXTENDS ServerController

CONSTANTS s1, s2, p1, p2

=============================================================================
