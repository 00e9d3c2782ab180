---------------------------- MODULE MCFrameQueue ----------------------------
(***************************************************************************)
(* Instance of FrameQueue for TLC: one client with the queue of three      *)
(* frames of the code.                                                     *)
(***************************************************************************)
EXTENDS FrameQueue

CONSTANTS v1

=============================================================================
