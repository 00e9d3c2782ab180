------------------------------ MODULE MCDesktop ------------------------------
(***************************************************************************)
(* Two parts of the desktop program for TLC: Engine keeps the connection   *)
(* and the peers, HostStream the video of the hub.  They share no state    *)
(* here, and a behaviour is one of either part; while the hub has clients  *)
(* the engine rests, without a server in its settings, and while the       *)
(* engine is at work the hub has none.                                     *)
(*                                                                         *)
(* Engine: two settings of the same server and one without a server, and   *)
(* fewer places in the table than sessions.  HostStream: one client and a  *)
(* queue of two frames.                                                    *)
(***************************************************************************)
EXTENDS Engine, HostStream

CONSTANTS srv, s1, s2, v1

VARIABLE part

MCServerOf == [v \in 0..MaxVersion |-> IF v = MaxVersion THEN NoServer ELSE srv]

MCInit ==
  /\ EngineInit /\ HostInit /\ part \in {"engine", "video"}
  /\ part = "video" => settings = MaxVersion

\* Only a closed engine is at an end.
Closed == ui = "closed" /\ UNCHANGED engineVars

MCNext ==
  /\ UNCHANGED part
  /\ \/ part = "engine" /\ (EngineNext \/ Closed) /\ UNCHANGED hostVars
     \/ part = "video" /\ HostNext /\ UNCHANGED engineVars

MCSpec ==
  MCInit /\ [][MCNext]_<<part, engineVars, hostVars>> /\ EngineFairness /\ HostFairness

=============================================================================
