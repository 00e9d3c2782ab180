---------------------------- MODULE MCSignalHub -----------------------------
(***************************************************************************)
(* Instances of SignalHub for TLC: two devices, one of which may come back *)
(* on a second connection, and up to two sessions.                         *)
(***************************************************************************)
EXTENDS SignalHub, TLC

CONSTANTS p1, p2, p3, d1, d2, s1, s2

\* p1 and p3 belong to the same device
MCDeviceOf == [c \in Conn |-> IF c = p2 THEN d2 ELSE d1]

Symmetry == Permutations(Sid)

\* The third connection has not been used.
Spare == serving[p3] = "none" /\ p3 \notin broken

\* The second session needs the first.  Two cases are kept apart from the third
\* connection: the second session, and a hub that closes with a session there or
\* still to come.  Nor does the hub close on two sessions.
MayAdmit(c) == c = p3 => Unused(s2)
MayConnect(s) ==
  /\ s = s2 => ~Unused(s1) /\ Spare /\ ~closing
  /\ closing => Spare
MayBeginClose == Unused(s2) /\ (Spare \/ Unused(s1))

\* Refusals only fill the channels, which offers do with the third connection.
MCRoute(c) ==
  \/ Spare /\ (Flooded(c) \/ ConnectRefused(c))
  \/ \E d \in Device : ConnectFull(c, d) \/ \E s \in Sid : MayConnect(s) /\ Connect(c, d, s)
  \/ \E s \in Sid : Offer(c, s) \/ Close(c, s) \/ CloseAgain(c, s)

\* Only s1 grows old.
MCNext ==
  \/ \E c \in Conn : MayAdmit(c) /\ Admit(c)
  \/ \E c \in Conn : Serve(c) \/ Hangup(c) \/ Deliver(c) \/ MCRoute(c) \/ CloseConn(c)
  \/ Age(s1)
  \/ MayBeginClose /\ BeginClose
  \/ EndClose

MCSpec == Init /\ [][MCNext]_vars /\ HubFairness

=============================================================================
