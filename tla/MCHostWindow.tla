---------------------------- MODULE MCHostWindow ----------------------------
(***************************************************************************)
(* Instance of HostWindow for TLC: a client, a peer's callback, the stream *)
(* loop and a channel of two.                                              *)
(***************************************************************************)
EXTENDS HostWindow

CONSTANTS c1, t1

=============================================================================
