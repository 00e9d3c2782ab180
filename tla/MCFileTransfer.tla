---------------------------- MODULE MCFileTransfer ----------------------------
(***************************************************************************)
(* The two ways for a file to come to the desktop, which belong to two     *)
(* programs: FileTransfer to the client, Upload to the web host.  A        *)
(* behaviour is one of either program.                                     *)
(*                                                                         *)
(* One session, and two transfers one after the other; or two requests     *)
(* and two names for them.                                                 *)
(***************************************************************************)
EXTENDS FileTransfer, Upload

CONSTANTS s1, t1, t2, none, r1, r2

VARIABLE program

MCInit == Init /\ UploadInit /\ program \in {"client", "host"}

MCNext ==
  /\ UNCHANGED program
  /\ \/ program = "client" /\ Next /\ UNCHANGED uploadVars
     \/ program = "host" /\ UploadNext /\ UNCHANGED vars

MCSpec == MCInit /\ [][MCNext]_<<program, vars, uploadVars>> /\ Fairness /\ UploadFairness

=============================================================================
