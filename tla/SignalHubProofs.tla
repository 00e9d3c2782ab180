-------------------------- MODULE SignalHubProofs ---------------------------
(***************************************************************************)
(* For any connections and devices, finitely many session ids and any      *)
(* limits: a session only ever links two devices that are online on the    *)
(* connections it names, what is queued for a device and what it has read  *)
(* tell it of exactly its sessions, no offer comes before its session, and *)
(* a hub that has been closed is empty.                                    *)
(***************************************************************************)
EXTENDS SignalHub, FiniteSetTheorems, SequenceTheorems, TLAPS

\* The part of TypeOK that the tables need; what is queued does not matter here.
TableTypes ==
  /\ serving \in [Conn -> {"none", "admitted", "handshake", "claimed", "online", "left"}]
  /\ online \in [Device -> Conn \cup {Nobody}]
  /\ ends \in [Sid -> SUBSET Conn]
  /\ closing \in BOOLEAN /\ closed \in BOOLEAN

\* A device is entered with a connection of its own.
EnteredItself == \A d \in Device : online[d] # Nobody => DeviceOf[online[d]] = d

\* A session links two connections that are online.
Linked == \A s \in Links : Cardinality(ends[s]) = 2 /\ \A c \in ends[s] : online[DeviceOf[c]] = c

\* Nothing is served any more once close() has returned.
NobodyServed == closed => closing /\ Counted = {}

TableInv == TableTypes /\ EnteredItself /\ OneConnection

HubInv == TableInv /\ Linked /\ NobodyServed

\* Two connections of different devices, or two of one, are two.
LEMMA TwoEnds == ASSUME NEW a, NEW b, a # b PROVE Cardinality({a, b}) = 2
<1>1. IsFiniteSet({a}) /\ Cardinality({a}) = 1
  BY FS_Singleton
<1>2. Cardinality({a} \cup {b}) = 2
  BY <1>1, FS_AddElement
<1>3. {a} \cup {b} = {a, b}
  OBVIOUS
<1> QED
  BY <1>2, <1>3

\* The empty tables of a new hub
LEMMA HubStarts == Init => HubInv
<1> SUFFICES ASSUME Init PROVE HubInv
  OBVIOUS
<1>1. TableTypes /\ EnteredItself
  BY DEF Init, TableTypes, EnteredItself
<1>2. OneConnection
  BY SignalHubAssumption DEF Init, OneConnection
<1>3. Linked /\ NobodyServed
  BY DEF Init, Linked, Links, NobodyServed
<1> QED
  BY <1>1, <1>2, <1>3 DEF HubInv, TableInv

-----------------------------------------------------------------------------
\* Two steps of serve write the table of devices.

\* Register enters a device that is not online.
LEMMA RegisterTable ==
  ASSUME HubInv, NEW c \in Conn, Register(c) PROVE HubInv'
<1> USE DEF HubInv, TableInv
<1>1. TableTypes'
  BY SignalHubAssumption DEF TableTypes, Register, linkVars, hubVars
<1>2. \A d \in Device : online'[d] = IF d = DeviceOf[c] THEN c ELSE online[d]
  BY SignalHubAssumption DEF TableTypes, Register
<1>3. \A b \in Conn : serving'[b] = IF b = c THEN "claimed" ELSE serving[b]
  BY DEF TableTypes, Register
<1>4. EnteredItself'
  BY <1>2, SignalHubAssumption DEF EnteredItself, TableTypes
<1>5. OneConnection'
  BY <1>2, <1>3, SignalHubAssumption DEF OneConnection, Register
<1>6. Linked'
  BY <1>2, SignalHubAssumption DEF Linked, Links, Register, linkVars, TableTypes
<1>7. NobodyServed'
  BY <1>3 DEF NobodyServed, Counted, Register, hubVars
<1> QED
  BY <1>1, <1>4, <1>5, <1>6, <1>7

\* The deferred cleanup of serve takes its own entry and its own sessions.
LEMMA LeaveTable ==
  ASSUME HubInv, NEW c \in Conn, Leave(c) PROVE HubInv'
<1> USE DEF HubInv, TableInv
<1>1. TableTypes'
  BY SignalHubAssumption DEF TableTypes, Leave, farVars, hubVars
<1>2. \A d \in Device : online'[d] = IF d = DeviceOf[c] THEN Nobody ELSE online[d]
  BY SignalHubAssumption DEF TableTypes, Leave
<1>3. \A b \in Conn : serving'[b] = IF b = c THEN "left" ELSE serving[b]
  BY DEF TableTypes, Leave
<1>4. \A s \in Sid : ends'[s] = IF c \in ends[s] THEN {} ELSE ends[s]
  BY DEF Leave
<1>5. serving[c] = "online" /\ online[DeviceOf[c]] = c
  BY DEF Leave, OneConnection
<1>6. EnteredItself'
  BY <1>2, SignalHubAssumption DEF EnteredItself, TableTypes
<1>7. OneConnection'
  <2> SUFFICES ASSUME NEW b \in Conn
               PROVE  serving'[b] \in {"claimed", "online"} <=> online'[DeviceOf[b]] = b
    BY DEF OneConnection
  <2>1. CASE b = c
    BY <2>1, <1>2, <1>3, SignalHubAssumption
  <2>2. CASE b # c
    BY <2>2, <1>2, <1>3, <1>5, SignalHubAssumption DEF OneConnection
  <2> QED
    BY <2>1, <2>2
<1>8. Linked'
  <2> SUFFICES ASSUME NEW s \in Sid, ends'[s] # {}
               PROVE  Cardinality(ends'[s]) = 2 /\ \A b \in ends'[s] : online'[DeviceOf[b]] = b
    BY DEF Linked, Links
  <2>1. ends'[s] = ends[s] /\ c \notin ends[s] /\ s \in Links
    BY <1>4 DEF Links
  <2>2. ASSUME NEW b \in ends[s] PROVE online'[DeviceOf[b]] = b
    <3>1. b \in Conn /\ b # c /\ online[DeviceOf[b]] = b
      BY <2>1 DEF Linked, TableTypes
    <3>2. DeviceOf[b] # DeviceOf[c]
      BY <3>1, <1>5
    <3> QED
      BY <3>1, <3>2, <1>2, SignalHubAssumption
  <2> QED
    BY <2>1, <2>2 DEF Linked
<1>9. NobodyServed'
  BY <1>3, <1>5 DEF NobodyServed, Counted, Leave, hubVars
<1> QED
  BY <1>1, <1>6, <1>7, <1>8, <1>9

-----------------------------------------------------------------------------
\* route writes the table of sessions.

\* A session is entered with two connections that are online, and the others
\* stay or go whole.
LEMMA ConnectTable ==
  ASSUME HubInv, NEW c \in Conn, NEW d \in Device, NEW x \in Sid, Connect(c, d, x)
  PROVE  HubInv'
<1> USE DEF HubInv, TableInv
<1>1. serving' = serving /\ online' = online /\ closing' = closing /\ closed' = closed
  BY DEF Connect, hubVars
<1>2. serving[c] = "online" /\ online[DeviceOf[c]] = c
  BY DEF Connect, Reads, OneConnection
<1>3. online[d] \in Conn /\ online[d] # c
  BY DEF Connect, Callable, TableTypes
<1>4. \A s \in Sid : ends'[s] = IF s = x THEN {c, online[d]} ELSE Prune(s)
  BY DEF Connect
<1>5. TableTypes'
  <2>1. ends' \in [Sid -> SUBSET Conn]
    BY <1>3 DEF Connect, Prune, TableTypes
  <2> QED
    BY <1>1, <2>1 DEF TableTypes
<1>6. EnteredItself' /\ OneConnection'
  BY <1>1 DEF EnteredItself, OneConnection
<1>7. Linked'
  <2> SUFFICES ASSUME NEW s \in Sid, ends'[s] # {}
               PROVE  Cardinality(ends'[s]) = 2 /\ \A b \in ends'[s] : online[DeviceOf[b]] = b
    BY <1>1 DEF Linked, Links
  <2>1. CASE s = x
    <3>1. online[DeviceOf[online[d]]] = online[d]
      BY <1>3, SignalHubAssumption DEF EnteredItself
    <3>2. ends'[s] = {c, online[d]}
      BY <2>1, <1>4
    <3>3. Cardinality({c, online[d]}) = 2
      BY <1>3, TwoEnds
    <3> QED
      BY <3>1, <3>2, <3>3, <1>2
  <2>2. CASE s # x
    <3>1. ends'[s] = ends[s] /\ s \in Links
      BY <2>2, <1>4 DEF Prune, Links
    <3> QED
      BY <3>1 DEF Linked
  <2> QED
    BY <2>1, <2>2
<1>8. NobodyServed'
  BY <1>1 DEF NobodyServed, Counted
<1> QED
  BY <1>5, <1>6, <1>7, <1>8

\* Sessions that go, go whole.
LEMMA LinksGo ==
  ASSUME HubInv, UNCHANGED <<serving, online, hubVars>>,
         ends' \in [Sid -> SUBSET Conn], \A s \in Sid : ends'[s] \in {{}, ends[s]}
  PROVE  HubInv'
BY DEF HubInv, TableInv, TableTypes, EnteredItself, OneConnection, Linked, Links, NobodyServed,
     Counted, hubVars

-----------------------------------------------------------------------------
\* The other steps of serve write neither table.
LEMMA ServeOther ==
  ASSUME HubInv, NEW c \in Conn,
         Admit(c) \/ Upgrade(c) \/ Announce(c) \/ Refused(c) \/ Gone(c)
  PROVE  HubInv'
<1> USE DEF HubInv, TableInv
<1>1. UNCHANGED <<online, ends, closing, closed>>
  BY DEF Admit, Upgrade, Announce, Refused, Gone, linkVars, hubVars
<1>2. PICK v \in {"none", "admitted", "handshake", "online"} :
        /\ serving' = [serving EXCEPT ![c] = v]
        /\ v = "online" <=> serving[c] = "claimed"
        /\ serving[c] # "online"
        /\ v \in {"handshake", "online"} => ~closing \/ serving[c] = "claimed"
        /\ v = "admitted" => ~closing
  BY DEF Admit, Upgrade, Announce, Refused, Gone
<1>3. \A b \in Conn : serving'[b] = IF b = c THEN v ELSE serving[b]
  BY <1>2 DEF TableTypes
<1>4. TableTypes'
  BY <1>1, <1>2 DEF TableTypes
<1>5. EnteredItself' /\ Linked'
  BY <1>1 DEF EnteredItself, Linked, Links
<1>6. OneConnection'
  BY <1>1, <1>2, <1>3 DEF OneConnection
<1>7. NobodyServed'
  BY <1>1, <1>2, <1>3 DEF NobodyServed, Counted
<1> QED
  BY <1>4, <1>5, <1>6, <1>7

\* Every step keeps the tables whole.
LEMMA HubStep == HubInv /\ [Next]_vars => HubInv'
<1> SUFFICES ASSUME HubInv, [Next]_vars PROVE HubInv'
  OBVIOUS
<1>1. ASSUME NEW c \in Conn, Admit(c) \/ Upgrade(c) \/ Announce(c) \/ Refused(c) \/ Gone(c)
      PROVE  HubInv'
  BY <1>1, ServeOther
<1>2. ASSUME NEW c \in Conn, Register(c) PROVE HubInv'
  BY <1>2, RegisterTable
<1>3. ASSUME NEW c \in Conn, Leave(c) PROVE HubInv'
  BY <1>3, LeaveTable
<1>4. ASSUME NEW c \in Conn, NEW d \in Device, NEW s \in Sid, Connect(c, d, s) PROVE HubInv'
  BY <1>4, ConnectTable
<1>5. ASSUME NEW c \in Conn, NEW d \in Device, ConnectFull(c, d) PROVE HubInv'
  <2>1. UNCHANGED <<serving, online, hubVars>> /\ ends' = [s \in Sid |-> Prune(s)]
    BY <1>5 DEF ConnectFull
  <2>2. ends' \in [Sid -> SUBSET Conn] /\ \A s \in Sid : ends'[s] \in {{}, ends[s]}
    BY <2>1 DEF Prune, HubInv, TableInv, TableTypes
  <2> QED
    BY <2>1, <2>2, LinksGo
<1>6. ASSUME NEW c \in Conn, NEW s \in Sid, Close(c, s) PROVE HubInv'
  <2>1. UNCHANGED <<serving, online, hubVars>> /\ ends' = [ends EXCEPT ![s] = {}]
    BY <1>6 DEF Close
  <2>2. ends' \in [Sid -> SUBSET Conn] /\ \A x \in Sid : ends'[x] \in {{}, ends[x]}
    BY <2>1 DEF HubInv, TableInv, TableTypes
  <2> QED
    BY <2>1, <2>2, LinksGo
<1>7. CASE UNCHANGED <<serving, online, ends, closing, closed>>
  BY <1>7 DEF HubInv, TableInv, TableTypes, EnteredItself, OneConnection, Linked, Links,
       NobodyServed, Counted
<1>8. ASSUME NEW c \in Conn, Hangup(c) \/ Deliver(c) \/ Flooded(c) \/ ConnectRefused(c) \/ CloseConn(c)
      PROVE  HubInv'
  BY <1>7, <1>8 DEF Hangup, Deliver, Flooded, ConnectRefused, CloseConn, linkVars, hubVars
<1>9. ASSUME NEW c \in Conn, NEW s \in Sid, Offer(c, s) \/ CloseAgain(c, s) PROVE HubInv'
  BY <1>7, <1>9 DEF Offer, CloseAgain, linkVars, hubVars
<1>10. ASSUME NEW s \in Sid, Age(s) PROVE HubInv'
  BY <1>7, <1>10 DEF Age, hubVars
<1>11. CASE BeginClose \/ EndClose
  <2>1. UNCHANGED <<serving, online, ends>> /\ closing' \in BOOLEAN /\ closed' \in BOOLEAN
    BY <1>11 DEF BeginClose, EndClose, linkVars, HubInv, TableInv, TableTypes
  <2>2. closed' => closing' /\ Counted = {}
    BY <1>11 DEF BeginClose, EndClose, HubInv, NobodyServed
  <2> QED
    BY <2>1, <2>2 DEF HubInv, TableInv, TableTypes, EnteredItself, OneConnection, Linked, Links,
       NobodyServed, Counted
<1>12. CASE UNCHANGED vars
  BY <1>7, <1>12 DEF vars, linkVars, hubVars
<1> QED
  BY <1>1, <1>2, <1>3, <1>4, <1>5, <1>6, <1>8, <1>9, <1>10, <1>11, <1>12 DEF Next, Serve, Route

\* The tables are whole in every state of the hub.
THEOREM TablesWhole == Spec => []HubInv
BY HubStarts, HubStep, PTL DEF Spec

\* Whichever of two connected devices goes, registers anew or is closed by the hub
\* (serve, its cleanup and route), a session links live connections, and a device
\* is online on one.
THEOREM LinksOnline == Spec => []LinksAreOnline
<1>1. HubInv => LinksAreOnline
  BY DEF HubInv, TableInv, LinksAreOnline, Linked
<1> QED
  BY <1>1, TablesWhole, PTL

-----------------------------------------------------------------------------
\* Behind the mark of close nobody is counted anew, and who is broken stays so.
LEMMA ReachStep == TableTypes /\ CloseReaches /\ [Next]_vars => CloseReaches'
<1> SUFFICES ASSUME TableTypes, CloseReaches, [Next]_vars PROVE CloseReaches'
  OBVIOUS
<1> USE DEF TableTypes, CloseReaches, Counted, hubVars
<1>1. ASSUME NEW c \in Conn, Admit(c) PROVE CloseReaches'
  BY <1>1 DEF Admit
<1>2. ASSUME NEW c \in Conn, Upgrade(c) PROVE CloseReaches'
  BY <1>2 DEF Upgrade
<1>3. ASSUME NEW c \in Conn, Register(c) \/ Refused(c) \/ Gone(c) PROVE CloseReaches'
  BY <1>3 DEF Register, Refused, Gone
\* The steps that write out and broken do not touch the wait group.
<1>4. ASSUME UNCHANGED <<closing, toClose>>, broken \subseteq broken', Counted' \subseteq Counted
      PROVE  CloseReaches'
  BY <1>4
<1>5. ASSUME NEW c \in Conn, Announce(c) \/ Leave(c) PROVE CloseReaches'
  <2>1. broken \subseteq broken' /\ UNCHANGED <<closing, toClose>>
    BY <1>5 DEF Announce, Leave, Send
  <2>2. Counted' \subseteq Counted
    BY <1>5 DEF Announce, Leave
  <2> QED
    BY <1>4, <2>1, <2>2
<1>6. ASSUME NEW c \in Conn, Hangup(c) \/ Deliver(c) \/ Route(c) PROVE CloseReaches'
  <2>1. serving' = serving /\ UNCHANGED <<closing, toClose>>
    BY <1>6 DEF Hangup, Deliver, Route, Flooded, ConnectRefused, ConnectFull, Connect, Offer, Close, CloseAgain
  <2>2. broken \subseteq broken'
    BY <1>6 DEF Hangup, Deliver, Route, Flooded, ConnectRefused, ConnectFull, Connect, Offer, Close, CloseAgain, Send
  <2> QED
    BY <1>4, <2>1, <2>2
<1>7. ASSUME NEW c \in Conn, CloseConn(c) PROVE CloseReaches'
  BY <1>7 DEF CloseConn
<1>8. CASE BeginClose
  BY <1>8 DEF BeginClose
<1>9. CASE EndClose \/ UNCHANGED vars \/ \E s \in Sid : Age(s)
  BY <1>9 DEF EndClose, Age, vars
<1> QED
  BY <1>1, <1>2, <1>3, <1>5, <1>6, <1>7, <1>8, <1>9 DEF Next, Serve

\* signalHub.close waits for no connection that it leaves open: whoever was in the
\* handshake when it read the table is closed, and who comes later is not counted.
THEOREM CloseMissesNobody == Spec => []CloseReaches
<1>1. Init => CloseReaches
  BY DEF Init, CloseReaches
<1>2. HubInv => TableTypes
  BY DEF HubInv, TableInv
<1> QED
  BY <1>1, <1>2, TablesWhole, ReachStep, PTL DEF Spec

\* When signalHub.close has returned, no device is online, no session is left and
\* no serve runs, whoever was upgrading, registering or routing when it began.
THEOREM ClosedHubIsEmpty == Spec => []ClosedIsEmpty
<1>1. HubInv => ClosedIsEmpty
  <2> SUFFICES ASSUME HubInv, closed PROVE Links = {} /\ OnlinePeers = {} /\ Counted = {}
    BY DEF ClosedIsEmpty
  <2>1. Counted = {}
    BY DEF HubInv, NobodyServed
  <2>2. \A c \in Conn : online[DeviceOf[c]] # c
    BY <2>1 DEF HubInv, TableInv, TableTypes, OneConnection, Counted
  <2>3. OnlinePeers = {}
    BY <2>2 DEF OnlinePeers, HubInv, TableInv, TableTypes, EnteredItself
  <2>4. Links = {}
    <3> SUFFICES ASSUME NEW s \in Links PROVE FALSE
      OBVIOUS
    <3>1. PICK c \in ends[s] : TRUE
      BY DEF Links
    <3>2. c \in Conn /\ online[DeviceOf[c]] = c
      BY <3>1 DEF HubInv, TableInv, TableTypes, Linked, Links
    <3> QED
      BY <3>2, <2>2
  <2> QED
    BY <2>1, <2>3, <2>4
<1> QED
  BY <1>1, TablesWhole, PTL

-----------------------------------------------------------------------------
\* What the far end of a connection is told.  q is what is queued for it, k the
\* sessions it has been told of, L those that link it and U those of which it
\* has not been told that they are over.

Knows(q, k, s) ==
  \/ \E i \in 1..Len(q) : q[i] = Msg("session", s) /\ \A j \in i..Len(q) : q[j] # Msg("close", s)
  \/ s \in k /\ \A i \in 1..Len(q) : q[i] # Msg("close", s)

\* A session is the first that is said of its id.
SessionsFirst(q, k) ==
  \A i \in 1..Len(q) : q[i].type = "session" =>
    q[i].sid \notin k /\ \A j \in 1..(i - 1) : q[j].sid # q[i].sid

OffersFollow(q, k, L) ==
  \A i \in 1..Len(q) : q[i].type = "offer" /\ q[i].sid \in L =>
    q[i].sid \in k \/ \E j \in 1..i : q[j] = Msg("session", q[i].sid)

Faithful(q, k, L, U) ==
  /\ SessionsFirst(q, k) /\ OffersFollow(q, k, L)
  /\ \A s \in Sid : Knows(q, k, s) <=> s \in L \cup U

LEMMA MsgFacts ==
  ASSUME NEW m \in Messages, NEW t, NEW s
  PROVE  /\ m.type \in {"registered", "session", "close", "offer", "error"}
         /\ m.type \in {"session", "close", "offer"} => m.sid \in Sid
         /\ m = Msg(t, s) <=> m.type = t /\ m.sid = s
         /\ Msg(t, s).type = t /\ Msg(t, s).sid = s
  BY DEF Messages, Msg

\* z is q with r put behind it.
Behind(z, q, r) ==
  /\ Len(q) \in Nat /\ Len(z) \in Nat /\ Len(q) <= Len(z) /\ Len(z) = Len(q) + Len(r)
  /\ \A i \in 1..Len(q) : z[i] = q[i] /\ q[i] \in Messages
  /\ \A i \in 1..Len(z) : i \notin 1..Len(q) => z[i] \in Messages /\ \E j \in 1..Len(r) : z[i] = r[j]
  /\ \A j \in 1..Len(r) : \E i \in 1..Len(z) : i > Len(q) /\ z[i] = r[j]

LEMMA JoinFacts ==
  ASSUME NEW q \in Seq(Messages), NEW r \in Seq(Messages)
  PROVE  Behind(q \o r, q, r)
<1> DEFINE z == q \o r
           n == Len(q)
           k == Len(r)
<1>1. z \in Seq(Messages) /\ n \in Nat /\ k \in Nat /\ Len(z) = n + k
  BY ConcatProperties, LenProperties
<1>2. \A i \in 1..(n + k) : z[i] = IF i <= n THEN q[i] ELSE r[i - n]
  BY ConcatProperties
<1>3. (\A i \in 1..n : q[i] \in Messages) /\ (\A i \in 1..k : r[i] \in Messages)
  BY ElementOfSeq
<1> HIDE DEF z, n, k
<1>4. \A i \in 1..n : i \in 1..(n + k) /\ i <= n
  BY <1>1
<1>5. \A i \in 1..k : n + i \in 1..(n + k) /\ n + i > n /\ ~(n + i <= n) /\ (n + i) - n = i
  BY <1>1
<1>6. \A i \in 1..(n + k) : i \notin 1..n => i - n \in 1..k /\ ~(i <= n)
  BY <1>1
<1>7. \A i \in 1..n : z[i] = q[i]
  BY <1>2, <1>4
<1>8. \A j \in 1..k : \E i \in 1..(n + k) : i > n /\ z[i] = r[j]
  BY <1>2, <1>5
<1>9. \A i \in 1..(n + k) : i \notin 1..n => z[i] \in Messages /\ \E j \in 1..k : z[i] = r[j]
  BY <1>2, <1>3, <1>6
<1>10. n <= Len(z) /\ Len(z) \in Nat /\ Len(z) = n + k
  BY <1>1
<1>11. QED
  BY <1>1, <1>3, <1>7, <1>8, <1>9, <1>10 DEF Behind, z, n, k

\* What is queued behind it, unless it is about s, changes nothing of s.
LEMMA KnowsJoin ==
  ASSUME NEW q, NEW r, NEW z, Behind(z, q, r), NEW k, NEW s,
         \A i \in 1..Len(r) : r[i] # Msg("session", s) /\ r[i] # Msg("close", s)
  PROVE  Knows(z, k, s) <=> Knows(q, k, s)
<1> DEFINE n == Len(q)
           e == Len(z)
<1>1. /\ n \in Nat /\ e \in Nat /\ n <= e
      /\ \A i \in 1..n : i \in 1..e /\ z[i] = q[i]
      /\ \A i \in 1..e : i \notin 1..n => z[i] # Msg("session", s) /\ z[i] # Msg("close", s)
  BY DEF Behind
<1> HIDE DEF n, e
<1>2. (\A i \in 1..n : q[i] # Msg("close", s)) <=> (\A i \in 1..e : z[i] # Msg("close", s))
  BY <1>1
<1>3. \A i \in 1..n : (\A j \in i..n : q[j] # Msg("close", s)) <=> (\A j \in i..e : z[j] # Msg("close", s))
  <2> SUFFICES ASSUME NEW i \in 1..n
               PROVE  (\A j \in i..n : q[j] # Msg("close", s)) <=> (\A j \in i..e : z[j] # Msg("close", s))
    OBVIOUS
  <2>1. \A j \in i..n : j \in 1..n /\ j \in i..e
    BY <1>1
  <2>2. \A j \in i..e : j \in 1..e /\ (j \in 1..n => j \in i..n)
    BY <1>1
  <2>3. QED
    BY <1>1, <2>1, <2>2
<1>4. (\E i \in 1..n : q[i] = Msg("session", s) /\ \A j \in i..n : q[j] # Msg("close", s))
        <=> (\E i \in 1..e : z[i] = Msg("session", s) /\ \A j \in i..e : z[j] # Msg("close", s))
  BY <1>1, <1>3
<1>5. QED
  BY <1>2, <1>4 DEF Knows, n, e

\* An answer to its own request, an offer for a session it is in, or nothing; the
\* sessions that are dropped for their age are not spoken of.
LEMMA SayNothing ==
  ASSUME NEW q, NEW r, NEW z, Behind(z, q, r), NEW k, NEW L \in SUBSET Sid, NEW U \in SUBSET Sid,
         NEW L2 \in SUBSET L, NEW U2, L2 \cup U2 = L \cup U, Faithful(q, k, L, U),
         \A i \in 1..Len(r) : r[i].type \notin {"session", "close"} /\ (r[i].type = "offer" => r[i].sid \in L)
  PROVE  Faithful(z, k, L2, U2)
<1> DEFINE n == Len(q)
           e == Len(z)
<1>1. /\ n \in Nat /\ e \in Nat /\ n <= e
      /\ \A i \in 1..n : i \in 1..e /\ z[i] = q[i] /\ q[i] \in Messages
      /\ \A i \in 1..e : i \notin 1..n =>
           /\ z[i] \in Messages /\ z[i].type \notin {"session", "close"}
           /\ z[i].type = "offer" => z[i].sid \in L
  BY DEF Behind
<1>2. \A s \in Sid : Knows(z, k, s) <=> s \in L2 \cup U2
  <2> SUFFICES ASSUME NEW s \in Sid PROVE Knows(z, k, s) <=> s \in L2 \cup U2
    OBVIOUS
  <2>1. \A i \in 1..Len(r) : r[i] # Msg("session", s) /\ r[i] # Msg("close", s)
    BY DEF Msg
  <2>2. QED
    BY <2>1, KnowsJoin DEF Faithful
<1> HIDE DEF n, e
<1>3. SessionsFirst(z, k)
  <2> SUFFICES ASSUME NEW i \in 1..e, z[i].type = "session"
               PROVE  z[i].sid \notin k /\ \A j \in 1..(i - 1) : z[j].sid # z[i].sid
    BY DEF SessionsFirst, e
  <2>1. i \in 1..n
    BY <1>1
  <2>2. \A j \in 1..(i - 1) : j \in 1..n
    BY <1>1, <2>1
  <2>3. q[i].sid \notin k /\ \A j \in 1..(i - 1) : q[j].sid # q[i].sid
    BY <1>1, <2>1 DEF Faithful, SessionsFirst, n
  <2>4. QED
    BY <1>1, <2>1, <2>2, <2>3
<1>4. OffersFollow(z, k, L2)
  <2> SUFFICES ASSUME NEW i \in 1..e, z[i].type = "offer", z[i].sid \in L2
               PROVE  z[i].sid \in k \/ \E j \in 1..i : z[j] = Msg("session", z[i].sid)
    BY DEF OffersFollow, e
  <2>1. CASE i \in 1..n
    <3>1. \A j \in 1..i : j \in 1..n
      BY <1>1, <2>1
    <3>2. q[i].sid \in k \/ \E j \in 1..i : q[j] = Msg("session", q[i].sid)
      BY <1>1, <2>1 DEF Faithful, OffersFollow, n
    <3>3. QED
      BY <1>1, <2>1, <3>1, <3>2
  <2>2. CASE i \notin 1..n
    <3>1. \A j \in 1..n : j \in 1..i
      BY <1>1, <2>2
    <3>2. Knows(q, k, z[i].sid)
      BY DEF Faithful
    <3>3. z[i].sid \in k \/ \E j \in 1..n : q[j] = Msg("session", z[i].sid)
      BY <3>2 DEF Knows, n
    <3>4. QED
      BY <1>1, <3>1, <3>3
  <2>3. QED
    BY <2>1, <2>2
<1>5. QED
  BY <1>2, <1>3, <1>4 DEF Faithful

\* A session with an id that nothing was said of
LEMMA SaySession ==
  ASSUME NEW q, NEW r, NEW z, Behind(z, q, r), NEW k, NEW L \in SUBSET Sid, NEW U \in SUBSET Sid,
         NEW x \in Sid, NEW L2 \in SUBSET Sid, NEW U2, L2 \subseteq L \cup {x}, L2 \cup U2 = L \cup U \cup {x},
         Faithful(q, k, L, U), x \notin k, \A i \in 1..Len(q) : q[i].sid # x,
         Len(r) = 1, r[1] = Msg("session", x)
  PROVE  Faithful(z, k, L2, U2)
<1> DEFINE n == Len(q)
           e == n + 1
<1>m. Msg("session", x).type = "session" /\ Msg("session", x).sid = x
  BY DEF Msg
<1>1. /\ n \in Nat /\ Len(z) = e
      /\ \A i \in 1..n : z[i] = q[i] /\ q[i] \in Messages
      /\ \A i \in 1..Len(z) : i \notin 1..n => \E j \in 1..1 : z[i] = r[j]
  BY DEF Behind
<1> HIDE DEF n
<1>2. \A i \in 1..e : i \in 1..n \/ i = e
  BY <1>1
<1>3. e \in 1..e /\ e \notin 1..n /\ (\A i \in 1..n : i \in 1..e) /\ (\A i \in e..e : i = e)
  BY <1>1
<1>4. z[e] = Msg("session", x)
  BY <1>1, <1>3
<1> HIDE DEF e
<1>5. \A s \in Sid : Knows(z, k, s) <=> s \in L2 \cup U2
  <2> SUFFICES ASSUME NEW s \in Sid PROVE Knows(z, k, s) <=> s \in L2 \cup U2
    OBVIOUS
  <2>1. CASE s = x
    <3>1. z[e] # Msg("close", x)
      BY <1>4 DEF Msg
    <3>2. Knows(z, k, x)
      BY <1>1, <1>3, <1>4, <3>1 DEF Knows
    <3>3. QED
      BY <2>1, <3>2
  <2>2. CASE s # x
    <3>1. \A i \in 1..Len(r) : r[i] # Msg("session", s) /\ r[i] # Msg("close", s)
      BY <2>2 DEF Msg
    <3>2. Knows(z, k, s) <=> Knows(q, k, s)
      BY <3>1, KnowsJoin
    <3>3. QED
      BY <2>2, <3>2 DEF Faithful
  <2>3. QED
    BY <2>1, <2>2
<1>6. SessionsFirst(z, k)
  <2> SUFFICES ASSUME NEW i \in 1..e, z[i].type = "session"
               PROVE  z[i].sid \notin k /\ \A j \in 1..(i - 1) : z[j].sid # z[i].sid
    BY <1>1 DEF SessionsFirst
  <2>1. \A j \in 1..(i - 1) : j \in 1..n
    BY <1>1 DEF e
  <2>2. CASE i \in 1..n
    <3>1. q[i].sid \notin k /\ \A j \in 1..(i - 1) : q[j].sid # q[i].sid
      BY <1>1, <2>2 DEF Faithful, SessionsFirst, n
    <3>2. QED
      BY <1>1, <2>1, <2>2, <3>1
  <2>3. CASE i = e
    BY <1>1, <1>4, <1>m, <2>1, <2>3 DEF n
  <2>4. QED
    BY <1>2, <2>2, <2>3
<1>7. OffersFollow(z, k, L2)
  <2> SUFFICES ASSUME NEW i \in 1..e, z[i].type = "offer", z[i].sid \in L2
               PROVE  z[i].sid \in k \/ \E j \in 1..i : z[j] = Msg("session", z[i].sid)
    BY <1>1 DEF OffersFollow
  <2>1. i \in 1..n
    BY <1>2, <1>4, <1>m
  <2>2. \A j \in 1..i : j \in 1..n
    BY <1>1, <2>1
  <2>3. z[i] = q[i] /\ q[i].sid \in L
    BY <1>1, <2>1 DEF n
  <2>4. q[i].sid \in k \/ \E j \in 1..i : q[j] = Msg("session", q[i].sid)
    BY <2>1, <2>3 DEF Faithful, OffersFollow, n
  <2>5. QED
    BY <1>1, <2>2, <2>3, <2>4
<1>8. QED
  BY <1>5, <1>6, <1>7 DEF Faithful

\* The sessions that the other end has left or given up
LEMMA SayClosed ==
  ASSUME NEW q, NEW r, NEW z, Behind(z, q, r), NEW k, NEW L \in SUBSET Sid, NEW U \in SUBSET Sid,
         NEW L2 \in SUBSET L, NEW U2, Faithful(q, k, L, U),
         \A i \in 1..Len(r) : r[i].type = "close",
         \A s \in Sid : s \in L2 \cup U2 <=> s \in L \cup U /\ \A i \in 1..Len(r) : r[i] # Msg("close", s)
  PROVE  Faithful(z, k, L2, U2)
<1> DEFINE n == Len(q)
           e == Len(z)
<1>1. /\ n \in Nat /\ e \in Nat /\ n <= e
      /\ \A i \in 1..n : i \in 1..e /\ z[i] = q[i] /\ q[i] \in Messages
      /\ \A i \in 1..e : i \notin 1..n => \E j \in 1..Len(r) : z[i] = r[j]
      /\ \A j \in 1..Len(r) : \E i \in 1..e : i > n /\ z[i] = r[j]
  BY DEF Behind
<1> HIDE DEF n, e
<1>c. \A i \in 1..e : i \notin 1..n => z[i].type = "close"
  BY <1>1
<1>2. ASSUME NEW s \in Sid PROVE Knows(z, k, s) <=> s \in L2 \cup U2
  <2>1. CASE \A i \in 1..Len(r) : r[i] # Msg("close", s)
    <3>1. \A i \in 1..Len(r) : r[i] # Msg("session", s)
      BY DEF Msg
    <3>2. Knows(z, k, s) <=> Knows(q, k, s)
      BY <2>1, <3>1, KnowsJoin
    <3>3. QED
      BY <2>1, <3>2 DEF Faithful
  <2>2. CASE \E i \in 1..Len(r) : r[i] = Msg("close", s)
    <3>1. PICK i \in 1..e : i > n /\ z[i] = Msg("close", s)
      BY <1>1, <2>2
    <3>2. \A j \in 1..e : z[j] = Msg("session", s) => j \in 1..n
      <4>1. Msg("session", s).type # "close"
        BY DEF Msg
      <4>2. QED
        BY <1>c, <4>1
    <3>3. \A j \in 1..n : i \in j..e
      BY <1>1, <3>1
    <3>4. ~Knows(z, k, s)
      BY <3>1, <3>2, <3>3 DEF Knows, e
    <3>5. QED
      BY <2>2, <3>4
  <2>3. QED
    BY <2>1, <2>2
<1>3. SessionsFirst(z, k)
  <2> SUFFICES ASSUME NEW i \in 1..e, z[i].type = "session"
               PROVE  z[i].sid \notin k /\ \A j \in 1..(i - 1) : z[j].sid # z[i].sid
    BY DEF SessionsFirst, e
  <2>1. i \in 1..n
    BY <1>c
  <2>2. \A j \in 1..(i - 1) : j \in 1..n
    BY <1>1, <2>1
  <2>3. q[i].sid \notin k /\ \A j \in 1..(i - 1) : q[j].sid # q[i].sid
    BY <1>1, <2>1 DEF Faithful, SessionsFirst, n
  <2>4. QED
    BY <1>1, <2>1, <2>2, <2>3
<1>4. OffersFollow(z, k, L2)
  <2> SUFFICES ASSUME NEW i \in 1..e, z[i].type = "offer", z[i].sid \in L2
               PROVE  z[i].sid \in k \/ \E j \in 1..i : z[j] = Msg("session", z[i].sid)
    BY DEF OffersFollow, e
  <2>1. i \in 1..n
    BY <1>c
  <2>2. \A j \in 1..i : j \in 1..n
    BY <1>1, <2>1
  <2>3. q[i].sid \in k \/ \E j \in 1..i : q[j] = Msg("session", q[i].sid)
    BY <1>1, <2>1 DEF Faithful, OffersFollow, n
  <2>4. QED
    BY <1>1, <2>1, <2>2, <2>3
<1>5. QED
  BY <1>2, <1>3, <1>4 DEF Faithful

\* What the far end has read, it knows.
Learns(k, m) ==
  CASE m.type = "session" -> k \cup {m.sid}
    [] m.type = "close"   -> k \ {m.sid}
    [] OTHER -> k

LEMMA TakeOne ==
  ASSUME NEW q \in Seq(Messages), q # <<>>, NEW k, NEW L \in SUBSET Sid, NEW U \in SUBSET Sid,
         Faithful(q, k, L, U)
  PROVE  Faithful(Tail(q), Learns(k, Head(q)), L, U)
<1> DEFINE t == Tail(q)
           m == Head(q)
           n == Len(q)
           e == Len(t)
           l == Learns(k, m)
<1>1. /\ n \in Nat \ {0} /\ e = n - 1 /\ m = q[1] /\ m \in Messages
      /\ \A i \in 1..e : t[i] = q[i + 1]
  BY HeadTailProperties, LenProperties, ElementOfSeq
<1> HIDE DEF t, m, n, e
<1>2. /\ 1 \in 1..n
      /\ \A i \in 1..e : i + 1 \in 1..n /\ i + 1 # 1 /\ 1 \in 1..((i + 1) - 1)
      /\ \A i \in 1..n : i = 1 \/ (i - 1 \in 1..e /\ (i - 1) + 1 = i)
  BY <1>1
<1>3. \A i \in 1..n : i # 1 => t[i - 1] = q[i]
  BY <1>1, <1>2
<1>4. ASSUME NEW i \in 1..e, t[i].type = "session"
      PROVE  t[i].sid \notin k /\ t[i].sid # m.sid /\ \A j \in 1..(i - 1) : t[j].sid # t[i].sid
  <2>1. q[i + 1].sid \notin k /\ \A j \in 1..((i + 1) - 1) : q[j].sid # q[i + 1].sid
    BY <1>1, <1>2, <1>4 DEF Faithful, SessionsFirst, n
  <2>2. \A j \in 1..(i - 1) : j \in 1..e /\ j + 1 \in 1..((i + 1) - 1)
    BY <1>1
  <2>3. QED
    BY <1>1, <1>2, <2>1, <2>2
<1>5. m.type = "session" => m.sid \notin k
  BY <1>1, <1>2 DEF Faithful, SessionsFirst, n
<1>6. SessionsFirst(t, l)
  <2>1. l \subseteq k \cup {m.sid}
    BY DEF Learns
  <2>2. QED
    BY <1>4, <2>1 DEF SessionsFirst, e
<1>7. ASSUME NEW s \in Sid PROVE Knows(t, l, s) <=> Knows(q, k, s)
  <2> DEFINE S == Msg("session", s)
             C == Msg("close", s)
             NoCloseT == \A i \in 1..e : t[i] # C
             NoCloseQ == \A i \in 1..n : q[i] # C
             SessT == \E i \in 1..e : t[i] = S /\ \A j \in i..e : t[j] # C
             SessQ == \E i \in 1..n : q[i] = S /\ \A j \in i..n : q[j] # C
  <2>m. S.type = "session" /\ S.sid = s /\ C.type = "close" /\ C.sid = s /\ S # C
    BY DEF Msg
  <2>n. (m = S <=> m.type = "session" /\ m.sid = s) /\ (m = C <=> m.type = "close" /\ m.sid = s)
    BY <1>1, MsgFacts
  <2> HIDE DEF S, C
  <2>1. NoCloseQ <=> NoCloseT /\ m # C
    <3>1. NoCloseQ => NoCloseT /\ m # C
      BY <1>1, <1>2
    <3>2. NoCloseT /\ m # C => NoCloseQ
      BY <1>1, <1>2, <1>3
    <3>3. QED
      BY <3>1, <3>2
  <2>2. SessT => SessQ
    <3> SUFFICES ASSUME NEW i \in 1..e, t[i] = S, \A j \in i..e : t[j] # C PROVE SessQ
      OBVIOUS
    <3>1. \A j \in (i + 1)..n : j - 1 \in i..e /\ j \in 1..n /\ j # 1
      BY <1>1
    <3>2. \A j \in (i + 1)..n : q[j] # C
      BY <1>3, <3>1
    <3>3. QED
      BY <1>1, <1>2, <3>2
  <2>3. SessQ => SessT \/ (m = S /\ NoCloseQ)
    <3> SUFFICES ASSUME NEW i \in 1..n, q[i] = S, \A j \in i..n : q[j] # C PROVE SessT \/ (m = S /\ NoCloseQ)
      OBVIOUS
    <3>1. CASE i = 1
      BY <1>1, <3>1
    <3>2. CASE i # 1
      <4> DEFINE b == i - 1
      <4>1. b \in 1..e /\ t[b] = S
        BY <1>2, <1>3, <3>2
      <4>2. \A j \in b..e : j \in 1..e /\ j + 1 \in i..n
        BY <1>1, <4>1
      <4> HIDE DEF b
      <4>3. \A j \in b..e : t[j] # C
        BY <1>1, <4>2
      <4>4. QED
        BY <4>1, <4>3
    <3>3. QED
      BY <3>1, <3>2
  <2>4. m = S /\ NoCloseQ => SessQ
    BY <1>1, <1>2
  <2>5. (SessT => m # S /\ m # C) /\ (m = S => s \notin k)
    <3>1. \A i \in 1..e : t[i] = S => m.sid # s
      BY <1>4, <2>m
    <3>2. QED
      BY <1>5, <2>m, <3>1
  <2>6. s \in l <=> m = S \/ (s \in k /\ m # C)
    BY <2>n DEF Learns
  <2> HIDE DEF NoCloseT, NoCloseQ, SessT, SessQ
  <2>7. SessT \/ (s \in l /\ NoCloseT) <=> SessQ \/ (s \in k /\ NoCloseQ)
    BY <2>m, <2>1, <2>2, <2>3, <2>4, <2>5, <2>6
  <2>8. Knows(t, l, s) <=> SessT \/ (s \in l /\ NoCloseT)
    BY DEF Knows, SessT, NoCloseT, S, C, e
  <2>9. Knows(q, k, s) <=> SessQ \/ (s \in k /\ NoCloseQ)
    BY DEF Knows, SessQ, NoCloseQ, S, C, n
  <2>10. QED
    BY <2>7, <2>8, <2>9
<1>8. OffersFollow(t, l, L)
  <2> SUFFICES ASSUME NEW i \in 1..e, t[i].type = "offer", t[i].sid \in L
               PROVE  t[i].sid \in l \/ \E j \in 1..i : t[j] = Msg("session", t[i].sid)
    BY DEF OffersFollow, e
  <2> DEFINE s == t[i].sid
  <2>1. s \in Sid /\ t[i] = q[i + 1] /\ i + 1 \in 1..n
    BY <1>1, <1>2
  <2>2. s \in k \/ \E j \in 1..(i + 1) : q[j] = Msg("session", s)
    BY <2>1 DEF Faithful, OffersFollow, n
  <2>3. Knows(t, l, s)
    BY <1>7, <2>1 DEF Faithful
  <2> HIDE DEF s
  <2>4. (m = Msg("session", s) => s \in l) /\ (s \in k /\ m # Msg("close", s) => s \in l)
    BY <1>1, MsgFacts DEF Learns
  <2>5. CASE s \in k /\ m # Msg("close", s)
    BY <2>4, <2>5 DEF s
  <2>6. CASE m = Msg("close", s)
    <3>1. m.sid = s /\ s \notin l
      BY <2>6 DEF Learns, Msg
    <3>2. \A j \in 1..e : t[j] # Msg("session", s)
      <4>1. Msg("session", s).type = "session" /\ Msg("session", s).sid = s
        BY DEF Msg
      <4>2. QED
        BY <1>4, <3>1, <4>1
    <3>3. QED
      BY <2>3, <3>1, <3>2 DEF Knows, e
  <2>7. CASE \E j \in 1..(i + 1) : q[j] = Msg("session", s)
    <3>1. PICK j \in 1..(i + 1) : q[j] = Msg("session", s)
      BY <2>7
    <3>2. CASE j = 1
      BY <1>1, <2>4, <3>1, <3>2 DEF s
    <3>3. CASE j # 1
      <4>1. j \in 1..n /\ j - 1 \in 1..i
        BY <1>1, <3>3
      <4>2. QED
        BY <1>3, <3>1, <3>3, <4>1 DEF s
    <3>4. QED
      BY <3>2, <3>3
  <2>8. QED
    BY <2>2, <2>5, <2>6, <2>7
<1>9. QED
  BY <1>6, <1>7, <1>8 DEF Faithful, t, m

\* The far end gives up a session it has been told of.
LEMMA Forget ==
  ASSUME NEW q, NEW k, NEW L \in SUBSET Sid, NEW U \in SUBSET Sid, NEW x \in k,
         Faithful(q, k, L, U)
  PROVE  Faithful(q, k \ {x}, L \ {x}, U \ {x})
<1>1. \A i \in 1..Len(q) : q[i] # Msg("session", x)
  BY DEF Faithful, SessionsFirst, Msg
<1>2. ~Knows(q, k \ {x}, x)
  BY <1>1 DEF Knows
<1>3. \A s \in Sid : s # x => (Knows(q, k \ {x}, s) <=> Knows(q, k, s))
  BY DEF Knows
<1>4. SessionsFirst(q, k \ {x})
  BY DEF Faithful, SessionsFirst
<1>5. OffersFollow(q, k \ {x}, L \ {x})
  BY DEF Faithful, OffersFollow
<1>6. QED
  BY <1>2, <1>3, <1>4, <1>5 DEF Faithful

-----------------------------------------------------------------------------
\* Every far end that still listens is told the truth.

\* The rest of TypeOK
QueueTypes ==
  /\ out \in [Conn -> Seq(Messages)] /\ \A c \in Conn : Len(out[c]) <= OutCap
  /\ broken \in SUBSET Conn /\ greeted \in SUBSET Conn /\ toClose \in SUBSET Conn
  /\ known \in [Conn -> SUBSET Sid]
  /\ unsaid \in SUBSET (Conn \X Sid) /\ old \in SUBSET Sid

Registered(c) == serving[c] \in {"claimed", "online"}

Dropped(c) == {s \in Sid : <<c, s>> \in unsaid}

\* Nothing is queued for a connection before its device is entered.
Agreed(c) ==
  c \notin broken =>
    /\ Faithful(out[c], known[c], LinksOf(c), Dropped(c))
    /\ ~Registered(c) => out[c] = <<>> /\ known[c] = {} /\ Dropped(c) = {}

\* The id of a session that was dropped is not drawn again while an end has not
\* heard of it.
DroppedApart == \A s \in Links : \A c \in Conn : <<c, s>> \notin unsaid

MailInv == QueueTypes /\ DroppedApart /\ \A c \in Conn : Agreed(c)

LEMMA Shrink ==
  ASSUME NEW q, NEW k, NEW L, NEW U, NEW L2, NEW U2, Faithful(q, k, L, U),
         L2 \subseteq L, L2 \cup U2 = L \cup U
  PROVE  Faithful(q, k, L2, U2)
  BY DEF Faithful, OffersFollow

LEMMA NothingSaid ==
  ASSUME NEW L \in SUBSET Sid, NEW U \in SUBSET Sid
  PROVE  Faithful(<<>>, {}, L, U) <=> L = {} /\ U = {}
<1>1. SessionsFirst(<<>>, {}) /\ OffersFollow(<<>>, {}, L)
  BY DEF SessionsFirst, OffersFollow
<1>2. \A s \in Sid : ~Knows(<<>>, {}, s)
  BY DEF Knows
<1>3. QED
  BY <1>1, <1>2 DEF Faithful

LEMMA AgreedNext ==
  ASSUME NEW b \in Conn, NEW L, NEW U,
         L = {s \in Sid : b \in ends'[s]}, U = {s \in Sid : <<b, s>> \in unsaid'},
         b \notin broken' =>
           /\ Faithful(out'[b], known'[b], L, U)
           /\ serving'[b] \notin {"claimed", "online"} => out'[b] = <<>> /\ known'[b] = {} /\ U = {}
  PROVE  Agreed(b)'
<1>1. LinksOf(b)' = L /\ Dropped(b)' = U
  BY DEF LinksOf, Dropped
<1>2. QED
  BY <1>1 DEF Agreed, Registered, Faithful, Knows, SessionsFirst, OffersFollow, Msg

\* Connections a step says nothing to
LEMMA AgreedSame ==
  ASSUME NEW b \in Conn, Agreed(b), broken \subseteq broken', out'[b] = out[b], known'[b] = known[b],
         Registered(b) => serving'[b] \in {"claimed", "online"} \/ b \in broken',
         \A s \in Sid : b \in ends'[s] => b \in ends[s],
         \A s \in Sid : b \in ends'[s] \/ <<b, s>> \in unsaid' <=> b \in ends[s] \/ <<b, s>> \in unsaid
  PROVE  Agreed(b)'
<1> DEFINE L == {s \in Sid : b \in ends'[s]}
           U == {s \in Sid : <<b, s>> \in unsaid'}
<1>1. L \subseteq LinksOf(b) /\ L \cup U = LinksOf(b) \cup Dropped(b)
  BY DEF LinksOf, Dropped
<1>2. LinksOf(b) \in SUBSET Sid /\ Dropped(b) \in SUBSET Sid
  BY DEF LinksOf, Dropped
<1>3. ASSUME b \notin broken'
      PROVE  /\ Faithful(out'[b], known'[b], L, U)
             /\ serving'[b] \notin {"claimed", "online"} => out'[b] = <<>> /\ known'[b] = {} /\ U = {}
  <2>1. Faithful(out[b], known[b], LinksOf(b), Dropped(b))
    BY <1>3 DEF Agreed
  <2>2. Faithful(out[b], known[b], L, U)
    BY <1>1, <2>1, Shrink
  <2>3. ASSUME serving'[b] \notin {"claimed", "online"} PROVE out[b] = <<>> /\ known[b] = {} /\ U = {}
    <3>1. out[b] = <<>> /\ known[b] = {}
      BY <1>3, <2>3 DEF Agreed
    <3>2. LinksOf(b) = {} /\ Dropped(b) = {}
      BY <1>2, <2>1, <3>1, NothingSaid
    <3>3. QED
      BY <1>1, <3>1, <3>2
  <2>4. QED
    BY <2>2, <2>3
<1>4. QED
  BY <1>3, AgreedNext

\* Whatever is put behind it, no more than the channel holds is kept of it.
LEMMA SendFacts ==
  ASSUME QueueTypes, NEW messages \in [Conn -> Seq(Messages)], Send(messages)
  PROVE  /\ out' \in [Conn -> Seq(Messages)] /\ \A c \in Conn : Len(out'[c]) <= OutCap
         /\ broken' \in SUBSET Conn /\ broken \subseteq broken'
         /\ \A b \in Conn : b \notin broken' => Behind(out'[b], out[b], messages[b])
         /\ \A b \in Conn : messages[b] = <<>> => out'[b] = out[b]
<1> DEFINE Room(b) == Len(out[b]) + Len(messages[b]) <= OutCap
           y(b) == out[b] \o messages[b]
           z(b) == IF b \in broken THEN out[b] ELSE IF Room(b) THEN y(b) ELSE SubSeq(y(b), 1, OutCap)
<1>1. out' = [b \in Conn |-> z(b)] /\ broken' = broken \cup {b \in Conn : ~Room(b)}
  BY DEF Send
<1>2. ASSUME NEW b \in Conn
      PROVE  /\ z(b) \in Seq(Messages) /\ Len(z(b)) <= OutCap
             /\ Room(b) /\ b \notin broken => z(b) = y(b)
             /\ messages[b] = <<>> => z(b) = out[b]
  <2>1. out[b] \in Seq(Messages) /\ messages[b] \in Seq(Messages) /\ Len(out[b]) <= OutCap
    BY DEF QueueTypes
  <2>2. y(b) \in Seq(Messages) /\ Len(y(b)) = Len(out[b]) + Len(messages[b])
    BY <2>1, ConcatProperties
  <2>3. messages[b] = <<>> => y(b) = out[b] /\ Len(messages[b]) = 0
    BY <2>1, ConcatEmptySeq, EmptySeq
  <2>4. Len(out[b]) \in Nat /\ Len(messages[b]) \in Nat /\ OutCap \in Nat
    BY <2>1, LenProperties, SignalHubAssumption
  <2>5. CASE Room(b) \/ b \in broken
    <3>1. messages[b] = <<>> => z(b) = out[b]
      BY <2>3, <2>5
    <3>2. QED
      BY <2>1, <2>2, <2>5, <3>1
  <2>6. CASE ~Room(b) /\ b \notin broken
    <3> DEFINE u == SubSeq(y(b), 1, OutCap)
               a == y(b)
    <3>1. \A i \in 1..OutCap : i \in 1..Len(a)
      BY <2>2, <2>4, <2>6
    <3>2. \A i \in 1..OutCap : a[i] \in Messages
      <4>1. \A i \in 1..Len(a) : a[i] \in Messages
        BY <2>2, ElementOfSeq
      <4>2. QED
        BY <3>1, <4>1
    <3> HIDE DEF a
    <3>3. /\ SubSeq(a, 1, OutCap) \in Seq(Messages)
          /\ Len(SubSeq(a, 1, OutCap)) = IF 1 <= OutCap THEN OutCap - 1 + 1 ELSE 0
      BY <2>4, <3>2, SubSeqProperties
    <3>4. Len(SubSeq(a, 1, OutCap)) <= OutCap
      BY <2>4, <3>3
    <3>5. messages[b] # <<>>
      BY <2>1, <2>3, <2>4, <2>6
    <3>6. QED
      BY <2>6, <3>3, <3>4, <3>5 DEF a
  <2>7. QED
    BY <2>5, <2>6
<1> HIDE DEF z
<1>3. \A b \in Conn : out'[b] = z(b)
  BY <1>1
<1>4. out' \in [Conn -> Seq(Messages)]
  BY <1>1, <1>2
<1>5. ASSUME NEW b \in Conn, b \notin broken' PROVE Behind(out'[b], out[b], messages[b])
  <2>1. out'[b] = y(b)
    BY <1>1, <1>2, <1>3, <1>5
  <2>2. out[b] \in Seq(Messages) /\ messages[b] \in Seq(Messages)
    BY DEF QueueTypes
  <2>3. QED
    BY <2>1, <2>2, JoinFacts
<1>6. QED
  BY <1>1, <1>2, <1>3, <1>4, <1>5 DEF QueueTypes

LEMMA OneFacts ==
  ASSUME NEW m \in Messages, NEW conns
  PROVE  /\ One(m, conns) \in [Conn -> Seq(Messages)]
         /\ \A b \in Conn : /\ b \notin conns => One(m, conns)[b] = <<>>
                            /\ b \in conns => Len(One(m, conns)[b]) = 1 /\ One(m, conns)[b][1] = m
<1>1. <<m>> \in Seq(Messages) /\ <<>> \in Seq(Messages) /\ Len(<<m>>) = 1 /\ <<m>>[1] = m
  OBVIOUS
<1>2. QED
  BY <1>1 DEF One

\* The steps that say nothing: whoever may hang up or be sent away does.
LEMMA MailQuiet ==
  ASSUME MailInv, UNCHANGED <<out, known, ends, unsaid>>,
         broken \subseteq broken', broken' \in SUBSET Conn, greeted' \in SUBSET Conn,
         toClose' \in SUBSET Conn, old' \in SUBSET Sid,
         \A b \in Conn : Registered(b) => serving'[b] \in {"claimed", "online"} \/ b \in broken'
  PROVE  MailInv'
<1>1. QueueTypes'
  BY DEF MailInv, QueueTypes
<1>2. DroppedApart'
  BY DEF MailInv, DroppedApart, Links
<1>3. \A b \in Conn : Agreed(b)'
  BY AgreedSame DEF MailInv
<1>4. QED
  BY <1>1, <1>2, <1>3 DEF MailInv

\* A connection that comes back starts with nothing.
LEMMA MailAdmit == ASSUME HubInv, MailInv, NEW c \in Conn, Admit(c) PROVE MailInv'
<1>1. QueueTypes'
  <2>1. <<>> \in Seq(Messages) /\ Len(<<>>) = 0 /\ 0 <= OutCap
    BY EmptySeq, SignalHubAssumption
  <2>2. \A b \in Conn : out'[b] = IF b = c THEN <<>> ELSE out[b]
    BY DEF Admit, MailInv, QueueTypes
  <2>3. QED
    BY <2>1, <2>2 DEF Admit, MailInv, QueueTypes, hubVars
<1>2. DroppedApart'
  BY DEF Admit, MailInv, DroppedApart, Links
<1>3. ASSUME NEW b \in Conn, b # c PROVE Agreed(b)'
  <2>1. out'[b] = out[b] /\ known'[b] = known[b] /\ serving'[b] = serving[b] /\ (b \in broken' <=> b \in broken)
    BY <1>3 DEF Admit, MailInv, QueueTypes, HubInv, TableInv, TableTypes
  <2>2. ends' = ends /\ \A s \in Sid : <<b, s>> \in unsaid' <=> <<b, s>> \in unsaid
    BY <1>3 DEF Admit
  <2> DEFINE L == {s \in Sid : b \in ends'[s]}
             U == {s \in Sid : <<b, s>> \in unsaid'}
  <2>3. L = LinksOf(b) /\ U = Dropped(b)
    BY <2>2 DEF LinksOf, Dropped
  <2> HIDE DEF L, U
  <2>4. b \notin broken' => /\ Faithful(out'[b], known'[b], L, U)
                            /\ serving'[b] \notin {"claimed", "online"} => out'[b] = <<>> /\ known'[b] = {} /\ U = {}
    BY <2>1, <2>3 DEF MailInv, Agreed, Registered
  <2>5. QED
    BY <2>4, AgreedNext DEF L, U
<1>4. Agreed(c)'
  <2> DEFINE L == {s \in Sid : c \in ends'[s]}
             U == {s \in Sid : <<c, s>> \in unsaid'}
  <2>1. \A s \in Sid : c \notin ends[s]
    <3>1. online[DeviceOf[c]] # c
      BY DEF Admit, HubInv, TableInv, OneConnection
    <3>2. QED
      BY <3>1 DEF HubInv, Linked, Links
  <2>2. L = {} /\ U = {}
    BY <2>1 DEF Admit
  <2>3. out'[c] = <<>> /\ known'[c] = {}
    BY DEF Admit, MailInv, QueueTypes
  <2> HIDE DEF L, U
  <2>4. Faithful(out'[c], known'[c], L, U)
    BY <2>2, <2>3, NothingSaid
  <2>5. QED
    BY <2>2, <2>3, <2>4, AgreedNext DEF L, U
<1>5. QED
  BY <1>1, <1>2, <1>3, <1>4 DEF MailInv

\* Whoever has a session, or is called, is registered.
LEMMA LinkedRegistered ==
  ASSUME HubInv
  PROVE  /\ \A s \in Sid : \A b \in ends[s] : b \in Conn /\ Registered(b)
         /\ \A d \in Device : online[d] # Nobody => online[d] \in Conn /\ Registered(online[d])
<1>1. \A s \in Sid : \A b \in ends[s] : b \in Conn /\ Registered(b)
  BY DEF HubInv, TableInv, TableTypes, Linked, Links, OneConnection, Registered
<1>2. \A d \in Device : online[d] # Nobody => online[d] \in Conn /\ Registered(online[d])
  BY DEF HubInv, TableInv, TableTypes, EnteredItself, OneConnection, Registered
<1>3. QED
  BY <1>1, <1>2

\* A message that opens and ends no session; the aged ones may go with it.
LEMMA MailSays ==
  ASSUME HubInv, MailInv, NEW m \in Messages, NEW conns \in SUBSET Conn, Send(One(m, conns)),
         m.type \notin {"session", "close"},
         m.type = "offer" => \A b \in conns : b \in ends[m.sid],
         \A b \in conns : Registered(b),
         \A b \in Conn : Registered(b) => serving'[b] \in {"claimed", "online"},
         known' = known, greeted' = greeted, toClose' = toClose, old' \in SUBSET Sid, unsaid' \in SUBSET (Conn \X Sid),
         \A b \in Conn : \A s \in Sid : b \in ends'[s] => b \in ends[s],
         \A b \in Conn : \A s \in Sid : b \in ends'[s] \/ <<b, s>> \in unsaid' <=> b \in ends[s] \/ <<b, s>> \in unsaid,
         DroppedApart'
  PROVE  MailInv'
<1> DEFINE r(b) == One(m, conns)[b]
<1>1. One(m, conns) \in [Conn -> Seq(Messages)]
  BY OneFacts
<1>2. /\ out' \in [Conn -> Seq(Messages)] /\ \A c \in Conn : Len(out'[c]) <= OutCap
      /\ broken' \in SUBSET Conn /\ broken \subseteq broken'
      /\ \A b \in Conn : b \notin broken' => Behind(out'[b], out[b], r(b))
      /\ \A b \in Conn : r(b) = <<>> => out'[b] = out[b]
  BY <1>1, SendFacts DEF MailInv
<1>3. QueueTypes'
  BY <1>2 DEF MailInv, QueueTypes
<1>4. ASSUME NEW b \in Conn, b \notin conns PROVE Agreed(b)'
  <2>1. out'[b] = out[b]
    BY <1>2, <1>4, OneFacts
  <2>2. QED
    BY <1>2, <2>1, AgreedSame DEF MailInv
<1>5. ASSUME NEW b \in conns PROVE Agreed(b)'
  <2> DEFINE L == {s \in Sid : b \in ends'[s]}
             U == {s \in Sid : <<b, s>> \in unsaid'}
  <2>1. L \in SUBSET LinksOf(b) /\ L \cup U = LinksOf(b) \cup Dropped(b)
    BY DEF LinksOf, Dropped
  <2>2. LinksOf(b) \in SUBSET Sid /\ Dropped(b) \in SUBSET Sid
    BY DEF LinksOf, Dropped
  <2>3. Len(r(b)) = 1 /\ r(b)[1] = m
    BY OneFacts
  <2>4. m.type = "offer" => m.sid \in LinksOf(b)
    BY MsgFacts DEF LinksOf
  <2> HIDE DEF L, U, r
  <2>5. \A i \in 1..Len(r(b)) : r(b)[i] = m
    BY <2>3
  <2>6. ASSUME b \notin broken' PROVE Faithful(out'[b], known'[b], L, U)
    <3>1. Faithful(out[b], known[b], LinksOf(b), Dropped(b)) /\ Behind(out'[b], out[b], r(b))
      BY <1>2, <2>6 DEF MailInv, Agreed, r
    <3>2. \A i \in 1..Len(r(b)) : /\ r(b)[i].type \notin {"session", "close"}
                                  /\ r(b)[i].type = "offer" => r(b)[i].sid \in LinksOf(b)
      BY <2>4, <2>5
    <3>3. QED
      BY <2>1, <2>2, <3>1, <3>2, SayNothing
  <2>7. QED
    BY <2>6, AgreedNext DEF L, U
<1>6. QED
  BY <1>3, <1>4, <1>5 DEF MailInv

\* What pruning the aged sessions does to what each end is to know
LEMMA PruneFacts ==
  /\ \A s \in Sid : \A b \in Conn : b \in Prune(s) => b \in ends[s]
  /\ \A s \in Sid : \A b \in Conn :
       b \in Prune(s) \/ <<b, s>> \in unsaid \cup Pruned <=> b \in ends[s] \/ <<b, s>> \in unsaid
  /\ Pruned \in SUBSET (Conn \X Sid)
  /\ \A s \in Sid : Prune(s) # {} => Prune(s) = ends[s] /\ \A b \in Conn : <<b, s>> \notin Pruned
  BY DEF Prune, Pruned

LEMMA MailAnnounce == ASSUME HubInv, MailInv, NEW c \in Conn, Announce(c) PROVE MailInv'
<1> DEFINE m == Msg("registered", Nobody)
<1>1. m \in Messages /\ m.type = "registered"
  BY DEF Msg, Messages
<1>2. Send(One(m, {c})) /\ Registered(c) /\ UNCHANGED <<known, greeted, toClose, old, unsaid, ends>>
  BY DEF Announce, Registered, linkVars, farVars, hubVars
<1>3. \A b \in Conn : Registered(b) => serving'[b] \in {"claimed", "online"}
  BY DEF Announce, Registered, HubInv, TableInv, TableTypes
<1>4. DroppedApart' /\ old' \in SUBSET Sid /\ unsaid' \in SUBSET (Conn \X Sid)
  BY <1>2 DEF MailInv, QueueTypes, DroppedApart, Links
<1> HIDE DEF m
<1>5. QED
  BY <1>1, <1>2, <1>3, <1>4, MailSays

LEMMA MailRefused ==
  ASSUME HubInv, MailInv, NEW c \in Conn, ConnectRefused(c) \/ \E d \in Device : ConnectFull(c, d)
  PROVE  MailInv'
<1> DEFINE m == Msg("error", Nobody)
<1>1. m \in Messages /\ m.type = "error"
  BY DEF Msg, Messages
<1>2. Send(One(m, {c})) /\ Registered(c) /\ UNCHANGED <<serving, known, greeted, toClose>>
  BY DEF ConnectRefused, ConnectFull, Reads, Registered, farVars, hubVars
<1>3. \/ UNCHANGED <<ends, old, unsaid>>
      \/ ends' = [s \in Sid |-> Prune(s)] /\ old' = {} /\ unsaid' = unsaid \cup Pruned
  BY DEF ConnectRefused, ConnectFull, linkVars
<1>4. /\ old' \in SUBSET Sid /\ unsaid' \in SUBSET (Conn \X Sid)
      /\ \A b \in Conn : \A s \in Sid : b \in ends'[s] => b \in ends[s]
      /\ \A b \in Conn : \A s \in Sid : b \in ends'[s] \/ <<b, s>> \in unsaid' <=> b \in ends[s] \/ <<b, s>> \in unsaid
  BY <1>3, PruneFacts DEF MailInv, QueueTypes
<1>5. DroppedApart'
  BY <1>3, PruneFacts DEF MailInv, DroppedApart, Links
<1>6. \A b \in Conn : Registered(b) => serving'[b] \in {"claimed", "online"}
  BY <1>2 DEF Registered
<1> HIDE DEF m
<1>7. QED
  BY <1>1, <1>2, <1>4, <1>5, <1>6, MailSays

LEMMA MailOffer == ASSUME HubInv, MailInv, NEW c \in Conn, NEW s \in Sid, Offer(c, s) PROVE MailInv'
<1> DEFINE m == Msg("offer", s)
           conns == ends[s] \ {c}
<1>1. m \in Messages /\ m.type = "offer" /\ m.sid = s
  BY DEF Msg, Messages
<1>2. Send(One(m, conns)) /\ UNCHANGED <<serving, known, greeted, toClose, old, unsaid, ends>>
  BY DEF Offer, linkVars, farVars, hubVars
<1>3. conns \in SUBSET Conn /\ \A b \in conns : b \in ends[s] /\ Registered(b)
  BY LinkedRegistered
<1>4. DroppedApart' /\ old' \in SUBSET Sid /\ unsaid' \in SUBSET (Conn \X Sid)
  BY <1>2 DEF MailInv, QueueTypes, DroppedApart, Links
<1>5. \A b \in Conn : Registered(b) => serving'[b] \in {"claimed", "online"}
  BY <1>2 DEF Registered
<1> HIDE DEF m, conns
<1>6. QED
  BY <1>1, <1>2, <1>3, <1>4, <1>5, MailSays

\* Both ends of a new session are told of it, under an id nobody has heard of.
LEMMA MailConnect ==
  ASSUME HubInv, MailInv, NEW c \in Conn, NEW d \in Device, NEW x \in Sid, Connect(c, d, x)
  PROVE  MailInv'
<1> DEFINE m == Msg("session", x)
           conns == {c, online[d]}
           r(b) == One(m, conns)[b]
<1>1. m \in Messages
  BY DEF Msg, Messages
<1>2. /\ Send(One(m, conns)) /\ Unused(x)
      /\ UNCHANGED <<serving, known, greeted, toClose>> /\ old' = {} /\ unsaid' = unsaid \cup Pruned
      /\ \A s \in Sid : ends'[s] = IF s = x THEN conns ELSE Prune(s)
  BY DEF Connect, farVars, hubVars
<1>3. conns \in SUBSET Conn /\ \A b \in conns : Registered(b)
  <2>1. online[d] \in Conn /\ Registered(online[d])
    BY LinkedRegistered DEF Connect, Callable
  <2>2. Registered(c)
    BY DEF Connect, Reads, Registered
  <2>3. QED
    BY <2>1, <2>2
<1>4. ends[x] = {} /\ \A b \in Conn : /\ x \notin known[b] /\ <<b, x>> \notin unsaid
                                      /\ \A i \in 1..Len(out[b]) : out[b][i].sid # x
  BY <1>2 DEF Unused
<1> HIDE DEF conns, m
<1>5. One(m, conns) \in [Conn -> Seq(Messages)]
  BY <1>1, OneFacts
<1>6. /\ out' \in [Conn -> Seq(Messages)] /\ \A b \in Conn : Len(out'[b]) <= OutCap
      /\ broken' \in SUBSET Conn /\ broken \subseteq broken'
      /\ \A b \in Conn : b \notin broken' => Behind(out'[b], out[b], r(b))
      /\ \A b \in Conn : r(b) = <<>> => out'[b] = out[b]
  BY <1>2, <1>5, SendFacts DEF MailInv
<1>7. QueueTypes'
  BY <1>2, <1>6, PruneFacts DEF MailInv, QueueTypes
<1>8. \A s \in Sid : \A b \in Conn : <<b, s>> \in Pruned => b \in ends[s] /\ Prune(s) = {}
  BY DEF Pruned, Prune
<1>9. DroppedApart'
  <2> SUFFICES ASSUME NEW s \in Sid, ends'[s] # {}, NEW b \in Conn PROVE <<b, s>> \notin unsaid \cup Pruned
    BY <1>2 DEF DroppedApart, Links
  <2>1. CASE s = x
    BY <1>4, <1>8, <2>1
  <2>2. CASE s # x
    BY <1>2, <2>2, PruneFacts DEF MailInv, DroppedApart, Links
  <2>3. QED
    BY <2>1, <2>2
<1>10. \A s \in Sid : \A b \in Conn : s # x =>
         /\ b \in ends'[s] => b \in ends[s]
         /\ b \in ends'[s] \/ <<b, s>> \in unsaid' <=> b \in ends[s] \/ <<b, s>> \in unsaid
  BY <1>2, PruneFacts
<1>11. \A b \in Conn : <<b, x>> \notin unsaid /\ <<b, x>> \notin unsaid' /\ b \notin ends[x] /\ (b \in ends'[x] <=> b \in conns)
  BY <1>2, <1>4, <1>8
<1>12. ASSUME NEW b \in Conn, b \notin conns PROVE Agreed(b)'
  <2>1. out'[b] = out[b]
    BY <1>1, <1>6, <1>12, OneFacts
  <2>2. \A s \in Sid : /\ b \in ends'[s] => b \in ends[s]
                       /\ b \in ends'[s] \/ <<b, s>> \in unsaid' <=> b \in ends[s] \/ <<b, s>> \in unsaid
    BY <1>10, <1>11, <1>12
  <2>3. Registered(b) => serving'[b] \in {"claimed", "online"} \/ b \in broken'
    BY <1>2 DEF Registered
  <2>4. known'[b] = known[b] /\ Agreed(b) /\ broken \subseteq broken'
    BY <1>2, <1>6 DEF MailInv
  <2>5. QED
    BY <2>1, <2>2, <2>3, <2>4, AgreedSame
<1>13. ASSUME NEW b \in conns PROVE Agreed(b)'
  <2> DEFINE L == {s \in Sid : b \in ends'[s]}
             U == {s \in Sid : <<b, s>> \in unsaid'}
  <2>1. /\ L \in SUBSET Sid /\ LinksOf(b) \in SUBSET Sid /\ Dropped(b) \in SUBSET Sid
        /\ L \subseteq LinksOf(b) \cup {x} /\ L \cup U = LinksOf(b) \cup Dropped(b) \cup {x}
    BY <1>3, <1>10, <1>11, <1>13 DEF LinksOf, Dropped
  <2>2. Len(r(b)) = 1 /\ r(b)[1] = Msg("session", x)
    BY <1>1, <1>3, OneFacts DEF m
  <2>3. b \in Conn /\ known'[b] = known[b] /\ serving'[b] \in {"claimed", "online"}
    BY <1>2, <1>3 DEF Registered
  <2> HIDE DEF L, U, r
  <2>4. ASSUME b \notin broken' PROVE Faithful(out'[b], known'[b], L, U)
    <3>1. Faithful(out[b], known[b], LinksOf(b), Dropped(b)) /\ Behind(out'[b], out[b], r(b))
      BY <1>6, <2>3, <2>4 DEF MailInv, Agreed, r
    <3>2. x \notin known[b] /\ \A i \in 1..Len(out[b]) : out[b][i].sid # x
      BY <1>4, <2>3
    <3>3. Faithful(out'[b], known[b], L, U)
      BY <2>1, <2>2, <3>1, <3>2, SaySession
    <3>4. QED
      BY <2>3, <3>3
  <2>5. QED
    BY <2>3, <2>4, AgreedNext DEF L, U
<1>14. QED
  BY <1>7, <1>9, <1>12, <1>13 DEF MailInv

\* A far end that closes a session knew of it; the other one is told.
LEMMA MailClose == ASSUME HubInv, MailInv, NEW c \in Conn, NEW x \in Sid, Close(c, x) PROVE MailInv'
<1> DEFINE m == Msg("close", x)
           conns == ends[x] \ {c}
           r(b) == One(m, conns)[b]
<1>1. m \in Messages /\ m.type = "close"
  BY DEF Msg, Messages
<1>2. /\ Send(One(m, conns)) /\ c \in ends[x] /\ x \in known[c] /\ Registered(c)
      /\ UNCHANGED <<serving, unsaid, greeted, toClose>> /\ old' = old \ {x}
      /\ known' = [known EXCEPT ![c] = @ \ {x}] /\ ends' = [ends EXCEPT ![x] = {}]
  BY DEF Close, Reads, Registered, hubVars
<1>3. /\ \A b \in Conn : known'[b] = IF b = c THEN known[b] \ {x} ELSE known[b]
      /\ \A s \in Sid : ends'[s] = IF s = x THEN {} ELSE ends[s]
  BY <1>2 DEF MailInv, QueueTypes, HubInv, TableInv, TableTypes
<1>4. conns \in SUBSET Conn /\ \A b \in conns : Registered(b)
  BY LinkedRegistered
<1>5. \A b \in Conn : <<b, x>> \notin unsaid
  BY <1>2 DEF MailInv, DroppedApart, Links
<1> HIDE DEF conns, m
<1>6. One(m, conns) \in [Conn -> Seq(Messages)]
  BY <1>1, OneFacts
<1>7. /\ out' \in [Conn -> Seq(Messages)] /\ \A b \in Conn : Len(out'[b]) <= OutCap
      /\ broken' \in SUBSET Conn /\ broken \subseteq broken'
      /\ \A b \in Conn : b \notin broken' => Behind(out'[b], out[b], r(b))
      /\ \A b \in Conn : r(b) = <<>> => out'[b] = out[b]
  BY <1>2, <1>6, SendFacts DEF MailInv
<1>8. QueueTypes'
  BY <1>2, <1>7 DEF MailInv, QueueTypes
<1>9. DroppedApart'
  BY <1>2, <1>3 DEF MailInv, DroppedApart, Links
<1>10. ASSUME NEW b \in Conn PROVE Agreed(b)'
  <2> DEFINE L == {s \in Sid : b \in ends'[s]}
             U == {s \in Sid : <<b, s>> \in unsaid'}
  <2>1. /\ LinksOf(b) \in SUBSET Sid /\ Dropped(b) \in SUBSET Sid
        /\ L = LinksOf(b) \ {x} /\ U = Dropped(b) /\ x \notin Dropped(b)
    BY <1>2, <1>3, <1>5 DEF LinksOf, Dropped
  <2>2. b \notin conns /\ b # c => out'[b] = out[b] /\ x \notin LinksOf(b)
    BY <1>1, <1>7, OneFacts DEF conns, LinksOf
  <2>3. b \in conns => Len(r(b)) = 1 /\ r(b)[1] = Msg("close", x) /\ b # c
    BY <1>1, OneFacts DEF m, conns
  <2>4. c \notin conns /\ out'[c] = out[c]
    BY <1>1, <1>7, OneFacts DEF conns
  <2> HIDE DEF L, U, r
  <2>5. ASSUME b \notin broken' PROVE Faithful(out'[b], known'[b], L, U)
    <3>1. Faithful(out[b], known[b], LinksOf(b), Dropped(b)) /\ Behind(out'[b], out[b], r(b))
      BY <1>7, <2>5 DEF MailInv, Agreed, r
    <3>2. CASE b = c
      <4>1. Faithful(out[b], known[b] \ {x}, LinksOf(b) \ {x}, Dropped(b) \ {x})
        BY <1>2, <2>1, <3>1, <3>2, Forget
      <4>2. QED
        BY <1>3, <2>1, <2>4, <3>2, <4>1
    <3>3. CASE b \in conns
      <4>1. \A i \in 1..Len(r(b)) : r(b)[i] = Msg("close", x)
        <5>1. Len(r(b)) = 1 /\ r(b)[1] = Msg("close", x)
          BY <2>3, <3>3, Zenon
        <5>2. QED
          BY <5>1
      <4>2. \A i \in 1..Len(r(b)) : r(b)[i].type = "close"
        BY <4>1 DEF Msg
      <4>3. L \in SUBSET LinksOf(b)
        BY <2>1
      <4>4. \A s \in Sid : s \in L \cup U <=> s \in LinksOf(b) \cup Dropped(b) /\ \A i \in 1..Len(r(b)) : r(b)[i] # Msg("close", s)
        <5>1. \A s \in Sid : (\A i \in 1..Len(r(b)) : r(b)[i] # Msg("close", s)) <=> s # x
          BY <2>3, <3>3, <4>1 DEF Msg
        <5>2. QED
          BY <2>1, <5>1
      <4>5. Faithful(out'[b], known[b], L, U)
        BY <2>1, <3>1, <4>2, <4>3, <4>4, SayClosed
      <4>6. QED
        BY <1>3, <2>3, <3>3, <4>5
    <3>4. CASE b \notin conns /\ b # c
      <4>1. L = LinksOf(b) /\ U = Dropped(b)
        BY <2>1, <2>2, <3>4
      <4>2. QED
        BY <1>3, <2>2, <3>1, <3>4, <4>1
    <3>5. QED
      BY <3>2, <3>3, <3>4
  <2>6. ASSUME b \notin broken', serving'[b] \notin {"claimed", "online"}
        PROVE  out'[b] = <<>> /\ known'[b] = {} /\ U = {}
    <3>1. ~Registered(b) /\ b # c /\ b \notin conns
      BY <1>2, <1>4, <2>6 DEF Registered
    <3>2. QED
      BY <1>3, <1>7, <2>1, <2>2, <2>6, <3>1 DEF MailInv, Agreed
  <2>7. QED
    BY <2>5, <2>6, AgreedNext DEF L, U
<1>11. QED
  BY <1>8, <1>9, <1>10 DEF MailInv

\* Of a session that had ended, nothing more is to be said.
LEMMA MailCloseAgain ==
  ASSUME HubInv, MailInv, NEW c \in Conn, NEW x \in Sid, CloseAgain(c, x) PROVE MailInv'
<1>1. /\ UNCHANGED <<serving, broken, ends, old, out, greeted, toClose>>
      /\ x \in known[c] /\ c \notin ends[x] /\ Registered(c)
      /\ known' = [known EXCEPT ![c] = @ \ {x}] /\ unsaid' = unsaid \ {<<c, x>>}
  BY DEF CloseAgain, Reads, Registered, hubVars
<1>2. \A b \in Conn : known'[b] = IF b = c THEN known[b] \ {x} ELSE known[b]
  BY <1>1 DEF MailInv, QueueTypes
<1>3. QueueTypes'
  BY <1>1 DEF MailInv, QueueTypes
<1>4. DroppedApart'
  BY <1>1 DEF MailInv, DroppedApart, Links
<1>5. ASSUME NEW b \in Conn, b # c PROVE Agreed(b)'
  <2>1. known'[b] = known[b] /\ \A s \in Sid : <<b, s>> \in unsaid' <=> <<b, s>> \in unsaid
    BY <1>1, <1>2, <1>5
  <2>2. QED
    BY <1>1, <2>1, AgreedSame DEF MailInv, Registered
<1>6. Agreed(c)'
  <2> DEFINE L == {s \in Sid : c \in ends'[s]}
             U == {s \in Sid : <<c, s>> \in unsaid'}
  <2>1. /\ LinksOf(c) \in SUBSET Sid /\ Dropped(c) \in SUBSET Sid
        /\ L = LinksOf(c) \ {x} /\ U = Dropped(c) \ {x}
    BY <1>1 DEF LinksOf, Dropped
  <2> HIDE DEF L, U
  <2>2. ASSUME c \notin broken' PROVE Faithful(out'[c], known'[c], L, U)
    <3>1. Faithful(out[c], known[c], LinksOf(c), Dropped(c))
      BY <1>1, <2>2 DEF MailInv, Agreed
    <3>2. Faithful(out[c], known[c] \ {x}, LinksOf(c) \ {x}, Dropped(c) \ {x})
      BY <1>1, <2>1, <3>1, Forget
    <3>3. QED
      BY <1>1, <1>2, <2>1, <3>2
  <2>3. serving'[c] \in {"claimed", "online"}
    BY <1>1 DEF Registered
  <2>4. QED
    BY <2>2, <2>3, AgreedNext DEF L, U
<1>7. QED
  BY <1>3, <1>4, <1>5, <1>6 DEF MailInv

\* One "close" for each session of a set, whatever the order
LEMMA ClosesFacts ==
  ASSUME NEW S \in SUBSET Sid, NEW q \in Orders(S)
  PROVE  /\ Closes(q) \in Seq(Messages)
         /\ \A i \in 1..Len(Closes(q)) : Closes(q)[i].type = "close"
         /\ \A s \in Sid : (\A i \in 1..Len(Closes(q)) : Closes(q)[i] # Msg("close", s)) <=> s \notin S
<1> DEFINE n == Cardinality(S)
           z == Closes(q)
<1>1. n \in Nat
  BY SignalHubAssumption, FS_Subset, FS_CardinalityType
<1>2. q \in [1..n -> S] /\ DOMAIN q = 1..n /\ \A s \in S : \E i \in 1..n : q[i] = s
  BY DEF Orders
<1> HIDE DEF n
<1>3. \A i \in 1..n : Msg("close", q[i]) \in Messages
  BY <1>2 DEF Msg, Messages
<1>4. z = [i \in 1..n |-> Msg("close", q[i])]
  BY <1>2 DEF Closes
<1>5. z \in [1..n -> Messages] /\ \A i \in 1..n : z[i] = Msg("close", q[i])
  BY <1>3, <1>4
<1> HIDE DEF z
<1>6. z \in Seq(Messages)
  BY <1>1, <1>5, SeqDef
<1>7. DOMAIN z = 1..n /\ DOMAIN z = 1..Len(z) /\ Len(z) \in Nat
  BY <1>5, <1>6, LenProperties
<1>8. \A i \in 1..Len(z) : z[i] = Msg("close", q[i]) /\ q[i] \in S
  BY <1>2, <1>5, <1>7
<1>9. \A s \in S : \E i \in 1..Len(z) : z[i] = Msg("close", s)
  BY <1>2, <1>5, <1>7
<1>10. \A i \in 1..Len(z) : z[i].type = "close" /\ z[i].sid \in S
  <2>1. \A s : Msg("close", s).type = "close" /\ Msg("close", s).sid = s
    BY DEF Msg
  <2>2. QED
    BY <1>8, <2>1
<1>11. \A s \in Sid : (\A i \in 1..Len(z) : z[i] # Msg("close", s)) <=> s \notin S
  <2>1. \A s : Msg("close", s).sid = s
    BY DEF Msg
  <2>2. QED
    BY <1>9, <1>10, <2>1
<1>12. QED
  BY <1>6, <1>10, <1>11 DEF z

\* The other end of each session of a connection that goes is told.
LEMMA MailLeave == ASSUME HubInv, MailInv, NEW c \in Conn, Leave(c) PROVE MailInv'
<1> DEFINE Others == (UNION {ends[s] : s \in LinksOf(c)}) \ {c}
           Shared(o) == LinksOf(c) \cap LinksOf(o)
<1>1. PICK order \in [Others -> UNION {Orders(Shared(o)) : o \in Others}] :
        /\ \A o \in Others : order[o] \in Orders(Shared(o))
        /\ Send([o \in Conn |-> IF o \in Others THEN Closes(order[o]) ELSE <<>>])
  BY DEF Leave
<1> DEFINE messages == [o \in Conn |-> IF o \in Others THEN Closes(order[o]) ELSE <<>>]
           r(b) == messages[b]
<1>2. /\ c \in broken /\ UNCHANGED <<known, greeted, unsaid, toClose>> /\ old' = old \ LinksOf(c)
      /\ \A s \in Sid : ends'[s] = IF c \in ends[s] THEN {} ELSE ends[s]
      /\ \A b \in Conn : serving'[b] = IF b = c THEN "left" ELSE serving[b]
  BY DEF Leave, farVars, hubVars, HubInv, TableInv, TableTypes
<1>3. \A o : Shared(o) \in SUBSET Sid
  BY DEF LinksOf
<1>4. \A b \in Conn : b # c /\ b \notin Others => \A s \in Sid : b \in ends[s] => c \notin ends[s]
  BY DEF LinksOf
<1>5. /\ Others \in SUBSET Conn /\ \A b \in Others : Registered(b)
      /\ \A b \in Others : b # c
  BY LinkedRegistered DEF LinksOf
<1> HIDE DEF Others
<1>6. ASSUME NEW b \in Others
      PROVE  /\ Closes(order[b]) \in Seq(Messages)
             /\ \A i \in 1..Len(Closes(order[b])) : Closes(order[b])[i].type = "close"
             /\ \A s \in Sid : (\A i \in 1..Len(Closes(order[b])) : Closes(order[b])[i] # Msg("close", s)) <=> s \notin Shared(b)
  <2>1. order[b] \in Orders(Shared(b)) /\ Shared(b) \in SUBSET Sid
    BY <1>1, <1>3
  <2> HIDE DEF Shared
  <2>2. QED
    BY <2>1, ClosesFacts
<1>7. messages \in [Conn -> Seq(Messages)]
  BY <1>6, EmptySeq
<1>8. \A b \in Conn : /\ b \in Others => r(b) = Closes(order[b])
                      /\ b \notin Others => r(b) = <<>>
  OBVIOUS
<1>9. Send(messages)
  BY <1>1
<1> HIDE DEF messages
<1>10. /\ out' \in [Conn -> Seq(Messages)] /\ \A b \in Conn : Len(out'[b]) <= OutCap
       /\ broken' \in SUBSET Conn /\ broken \subseteq broken'
       /\ \A b \in Conn : b \notin broken' => Behind(out'[b], out[b], r(b))
       /\ \A b \in Conn : r(b) = <<>> => out'[b] = out[b]
  BY <1>7, <1>9, SendFacts DEF MailInv
<1>11. QueueTypes'
  BY <1>2, <1>10 DEF MailInv, QueueTypes
<1>12. DroppedApart'
  BY <1>2 DEF MailInv, DroppedApart, Links
<1>13. Agreed(c)'
  BY <1>2, <1>10 DEF Agreed
<1>14. ASSUME NEW b \in Conn, b # c, b \notin Others PROVE Agreed(b)'
  <2>1. out'[b] = out[b] /\ known'[b] = known[b] /\ serving'[b] = serving[b]
    BY <1>2, <1>8, <1>10, <1>14
  <2>2. \A s \in Sid : (b \in ends'[s] <=> b \in ends[s]) /\ (<<b, s>> \in unsaid' <=> <<b, s>> \in unsaid)
    BY <1>2, <1>4, <1>14
  <2>3. QED
    BY <1>10, <2>1, <2>2, AgreedSame DEF MailInv, Registered
<1>15. ASSUME NEW b \in Others PROVE Agreed(b)'
  <2> DEFINE L == {s \in Sid : b \in ends'[s]}
             U == {s \in Sid : <<b, s>> \in unsaid'}
  <2>1. b \in Conn /\ known'[b] = known[b] /\ serving'[b] \in {"claimed", "online"}
    BY <1>2, <1>5 DEF Registered
  <2>2. /\ LinksOf(b) \in SUBSET Sid /\ Dropped(b) \in SUBSET Sid /\ L \in SUBSET LinksOf(b)
        /\ L = LinksOf(b) \ Shared(b) /\ U = Dropped(b) /\ U \cap Shared(b) = {}
    BY <1>2, <2>1 DEF LinksOf, Dropped, MailInv, DroppedApart, Links
  <2>3. /\ \A i \in 1..Len(r(b)) : r(b)[i].type = "close"
        /\ \A s \in Sid : (\A i \in 1..Len(r(b)) : r(b)[i] # Msg("close", s)) <=> s \notin Shared(b)
    BY <1>6, <1>8, <2>1
  <2> HIDE DEF L, U, r, Shared
  <2>4. \A s \in Sid : s \in L \cup U <=>
          s \in LinksOf(b) \cup Dropped(b) /\ \A i \in 1..Len(r(b)) : r(b)[i] # Msg("close", s)
    BY <2>2, <2>3
  <2>5. ASSUME b \notin broken' PROVE Faithful(out'[b], known'[b], L, U)
    <3>1. Faithful(out[b], known[b], LinksOf(b), Dropped(b)) /\ Behind(out'[b], out[b], r(b))
      BY <1>10, <2>1, <2>5 DEF MailInv, Agreed, r
    <3>2. Faithful(out'[b], known[b], L, U)
      BY <2>2, <2>3, <2>4, <3>1, SayClosed
    <3>3. QED
      BY <2>1, <3>2
  <2>6. QED
    BY <2>1, <2>5, AgreedNext DEF L, U
<1>16. QED
  BY <1>11, <1>12, <1>13, <1>14, <1>15 DEF MailInv

\* A message is read, in its place in the queue.
LEMMA MailDeliver == ASSUME HubInv, MailInv, NEW c \in Conn, Deliver(c) PROVE MailInv'
<1> DEFINE m == Head(out[c])
<1>1. /\ Registered(c) /\ c \notin broken /\ out[c] # <<>> /\ UNCHANGED <<serving, ends, unsaid, old, toClose>>
      /\ out' = [out EXCEPT ![c] = Tail(@)]
  BY DEF Deliver, Registered, linkVars, hubVars
<1>2. out[c] \in Seq(Messages) /\ Len(out[c]) <= OutCap /\ known[c] \in SUBSET Sid
  BY DEF MailInv, QueueTypes
<1>3. m \in Messages /\ Tail(out[c]) \in Seq(Messages) /\ Len(Tail(out[c])) <= OutCap
  BY <1>1, <1>2, HeadTailProperties, LenProperties, SignalHubAssumption
<1>4. \A b \in Conn : out'[b] = IF b = c THEN Tail(out[c]) ELSE out[b]
  BY <1>1 DEF MailInv, QueueTypes
<1>5. \/ /\ known' = [known EXCEPT ![c] = Learns(known[c], m)]
         /\ UNCHANGED <<broken, greeted>>
      \/ /\ m.type = "registered" /\ greeted' = greeted \cup {c} /\ UNCHANGED <<broken, known>>
      \/ /\ broken' = broken \cup {c} /\ UNCHANGED <<greeted, known>>
  BY DEF Deliver, Learns
<1>6. Learns(known[c], m) \in SUBSET Sid
  <2>1. m.type = "session" => m.sid \in Sid
    BY <1>3, MsgFacts
  <2>2. QED
    BY <1>2, <2>1 DEF Learns
<1>7. m.type = "registered" => Learns(known[c], m) = known[c]
  BY DEF Learns
<1> HIDE DEF m
<1>8. /\ known' \in [Conn -> SUBSET Sid] /\ broken' \in SUBSET Conn /\ greeted' \in SUBSET Conn
      /\ broken \subseteq broken' /\ \A b \in Conn : b # c => known'[b] = known[b]
      /\ c \notin broken' => known'[c] = Learns(known[c], m)
  BY <1>5, <1>6, <1>7 DEF MailInv, QueueTypes
<1>9. QueueTypes'
  <2>1. \A b \in Conn : Len(out'[b]) <= OutCap
    BY <1>3, <1>4 DEF MailInv, QueueTypes
  <2>2. out' \in [Conn -> Seq(Messages)]
    BY <1>1, <1>3 DEF MailInv, QueueTypes
  <2>3. QED
    BY <1>1, <1>8, <2>1, <2>2 DEF MailInv, QueueTypes
<1>10. DroppedApart'
  BY <1>1 DEF MailInv, DroppedApart, Links
<1>11. ASSUME NEW b \in Conn, b # c PROVE Agreed(b)'
  BY <1>1, <1>4, <1>8, <1>11, AgreedSame DEF MailInv, Registered
<1>12. Agreed(c)'
  <2> DEFINE L == {s \in Sid : c \in ends'[s]}
             U == {s \in Sid : <<c, s>> \in unsaid'}
  <2>1. /\ LinksOf(c) \in SUBSET Sid /\ Dropped(c) \in SUBSET Sid
        /\ L = LinksOf(c) /\ U = Dropped(c)
    BY <1>1 DEF LinksOf, Dropped
  <2> HIDE DEF L, U
  <2>2. ASSUME c \notin broken' PROVE Faithful(out'[c], known'[c], L, U)
    <3>1. Faithful(out[c], known[c], LinksOf(c), Dropped(c))
      BY <1>1 DEF MailInv, Agreed
    <3>2. Faithful(Tail(out[c]), Learns(known[c], m), LinksOf(c), Dropped(c))
      BY <1>1, <1>2, <2>1, <3>1, TakeOne DEF m
    <3>3. QED
      BY <1>4, <1>8, <2>1, <2>2, <3>2
  <2>3. serving'[c] \in {"claimed", "online"}
    BY <1>1 DEF Registered
  <2>4. QED
    BY <2>2, <2>3, AgreedNext DEF L, U
<1>13. QED
  BY <1>9, <1>10, <1>11, <1>12 DEF MailInv

\* The steps at which serve, route and close say nothing
LEMMA MailOther ==
  ASSUME HubInv, MailInv, NEW c \in Conn,
         \/ Upgrade(c) \/ Register(c) \/ Refused(c) \/ Gone(c)
         \/ Hangup(c) \/ Flooded(c) \/ CloseConn(c)
  PROVE  MailInv'
<1>1. UNCHANGED <<out, known, ends, unsaid, greeted>>
  BY DEF Upgrade, Register, Refused, Gone, Hangup, Flooded, CloseConn,
       linkVars, farVars
<1>2. broken \subseteq broken' /\ broken' \in SUBSET Conn
  BY DEF Upgrade, Register, Refused, Gone, Hangup, Flooded, CloseConn,
       MailInv, QueueTypes
<1>3. toClose' \in SUBSET Conn /\ old' \in SUBSET Sid
  <2>1. toClose' \in {toClose, toClose \ {c}} /\ old' = old
    BY DEF Upgrade, Register, Refused, Gone, Hangup, Flooded, CloseConn, linkVars, hubVars
  <2>2. QED
    BY <2>1 DEF MailInv, QueueTypes
<1>4. \A b \in Conn : Registered(b) => serving'[b] \in {"claimed", "online"}
  <2>1. \/ serving' = serving
        \/ /\ ~Registered(c) /\ \E v : serving' = [serving EXCEPT ![c] = v]
        \/ serving' = [serving EXCEPT ![c] = "claimed"]
    BY DEF Upgrade, Register, Refused, Gone, Hangup, Flooded, CloseConn, Registered
  <2>2. QED
    BY <2>1 DEF Registered, HubInv, TableInv, TableTypes
<1>5. greeted' \in SUBSET Conn
  BY <1>1 DEF MailInv, QueueTypes
<1>6. QED
  BY <1>1, <1>2, <1>3, <1>4, <1>5, MailQuiet

\* Nothing has been said by a new hub.
LEMMA MailStarts == Init => MailInv
<1> SUFFICES ASSUME Init PROVE MailInv
  OBVIOUS
<1>1. QueueTypes
  BY EmptySeq, SignalHubAssumption DEF Init, QueueTypes
<1>2. DroppedApart
  BY DEF Init, DroppedApart
<1>3. ASSUME NEW c \in Conn PROVE Agreed(c)
  <2>1. LinksOf(c) = {} /\ Dropped(c) = {} /\ out[c] = <<>> /\ known[c] = {}
    BY DEF Init, LinksOf, Dropped
  <2>2. Faithful(<<>>, {}, {}, {})
    BY NothingSaid
  <2>3. QED
    BY <2>1, <2>2 DEF Agreed
<1>4. QED
  BY <1>1, <1>2, <1>3 DEF MailInv

\* Every step leaves each far end with the truth still to read.
LEMMA MailStep == HubInv /\ MailInv /\ [Next]_vars => MailInv'
<1> SUFFICES ASSUME HubInv, MailInv, [Next]_vars PROVE MailInv'
  OBVIOUS
<1>1. ASSUME NEW c \in Conn, Admit(c) PROVE MailInv'
  BY <1>1, MailAdmit
<1>2. ASSUME NEW c \in Conn, Serve(c) PROVE MailInv'
  BY <1>2, MailOther, MailAnnounce, MailLeave DEF Serve
<1>3. ASSUME NEW c \in Conn, Hangup(c) \/ CloseConn(c) PROVE MailInv'
  BY <1>3, MailOther
<1>4. ASSUME NEW c \in Conn, Deliver(c) PROVE MailInv'
  BY <1>4, MailDeliver
<1>5. ASSUME NEW c \in Conn, Route(c) PROVE MailInv'
  <2>1. CASE Flooded(c)
    BY <2>1, MailOther
  <2>2. CASE ConnectRefused(c) \/ \E d \in Device : ConnectFull(c, d)
    BY <2>2, MailRefused
  <2>3. ASSUME NEW d \in Device, NEW s \in Sid, Connect(c, d, s) PROVE MailInv'
    BY <2>3, MailConnect
  <2>4. ASSUME NEW s \in Sid, Offer(c, s) \/ Close(c, s) \/ CloseAgain(c, s) PROVE MailInv'
    BY <2>4, MailOffer, MailClose, MailCloseAgain
  <2>5. QED
    BY <1>5, <2>1, <2>2, <2>3, <2>4 DEF Route
<1>6. CASE BeginClose \/ EndClose \/ \E s \in Sid : Age(s)
  <2>1. UNCHANGED <<serving, broken, ends, unsaid, out, greeted, known>>
    BY <1>6 DEF BeginClose, EndClose, Age, linkVars, farVars
  <2>2. toClose' \in SUBSET Conn /\ old' \in SUBSET Sid
    BY <1>6 DEF BeginClose, EndClose, Age, linkVars, hubVars, Counted, MailInv, QueueTypes
  <2>3. QED
    BY <2>1, <2>2, MailQuiet DEF MailInv, QueueTypes, Registered
<1>7. CASE UNCHANGED vars
  <2>1. UNCHANGED <<serving, broken, ends, old, unsaid, out, greeted, known, toClose>>
    BY <1>7 DEF vars, linkVars, farVars, hubVars
  <2>2. QED
    BY <2>1, MailQuiet DEF MailInv, QueueTypes, Registered
<1>8. QED
  BY <1>1, <1>2, <1>3, <1>4, <1>5, <1>6, <1>7 DEF Next

\* What is queued and what has been read tell each far end the truth, in every state.
THEOREM MailTells == Spec => [](HubInv /\ MailInv)
BY HubStarts, HubStep, MailStarts, MailStep, PTL DEF Spec

\* The tables, the channels and the account of a hub's sessions have their types,
\* and no channel holds more than it has room for, whatever serve, route and close do.
THEOREM TypeCorrect == Spec => []TypeOK
<1>1. HubInv /\ MailInv => TypeOK
  BY DEF HubInv, TableInv, TableTypes, MailInv, QueueTypes, TypeOK
<1>2. QED
  BY <1>1, MailTells, PTL

\* A device that keeps its connection comes to know of exactly its sessions, however
\* connect, close, a full channel and the cleanup of the other end cross; only a
\* session dropped for its age (pruneExpiredLinks) goes without a word.
THEOREM EndsKnowTheSame == Spec => []EndsAgree
<1>1. HubInv /\ MailInv => EndsAgree
  <2> SUFFICES ASSUME MailInv, NEW c \in Conn, NEW s \in Sid, c \notin broken
               PROVE  WillKnow(c, s) <=> c \in ends[s] \/ <<c, s>> \in unsaid
    BY DEF EndsAgree
  <2>1. WillKnow(c, s) <=> Knows(out[c], known[c], s)
    BY DEF WillKnow, Knows
  <2>2. Knows(out[c], known[c], s) <=> s \in LinksOf(c) \cup Dropped(c)
    BY DEF MailInv, Agreed, Faithful
  <2>3. QED
    BY <2>1, <2>2 DEF LinksOf, Dropped
<1>2. QED
  BY <1>1, MailTells, PTL

\* route never puts an offer or an answer in front of the session it belongs to.
THEOREM OffersComeAfter == Spec => []OfferAfterSession
<1>1. HubInv /\ MailInv => OfferAfterSession
  <2> SUFFICES ASSUME MailInv, NEW c \in Conn, c \notin broken, NEW i \in 1..Len(out[c]),
                      out[c][i].type = "offer", c \in ends[out[c][i].sid]
               PROVE  \/ out[c][i].sid \in known[c]
                      \/ \E j \in 1..i : out[c][j] = Msg("session", out[c][i].sid)
    BY DEF OfferAfterSession
  <2>1. out[c][i] \in Messages
    BY ElementOfSeq DEF MailInv, QueueTypes
  <2>2. out[c][i].sid \in LinksOf(c)
    BY <2>1, MsgFacts DEF LinksOf
  <2>3. OffersFollow(out[c], known[c], LinksOf(c))
    BY DEF MailInv, Agreed, Faithful
  <2>4. QED
    BY <2>2, <2>3 DEF OffersFollow
<1>2. QED
  BY <1>1, MailTells, PTL

=============================================================================
