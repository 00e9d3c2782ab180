----------------------------- MODULE SignalHub ------------------------------
(***************************************************************************)
(* The signalHub of the server: devices register over a websocket, ask to  *)
(* be connected to another device, and exchange offer and answer through   *)
(* the session (a link) the hub made for the two.  serve runs once per     *)
(* connection and is its only reader; a goroutine of its own writes what   *)
(* the bounded channel "out" holds.  Whatever looks at online and links    *)
(* does so under mu, in one step here.  What the rate limits let pass is   *)
(* left open.                                                              *)
(*                                                                         *)
(* A connection and a session id are reused once nothing refers to them.   *)
(***************************************************************************)
EXTENDS Naturals, Sequences, FiniteSets

CONSTANTS Conn, Device, Sid,
          DeviceOf,      \* the device whose key signs on a connection
          Nobody,
          MaxPeers,      \* 4096 devices
          MaxLinks,      \* 128 sessions
          MaxPerTarget,  \* 16 sessions of the device that is called
          OutCap         \* 64 messages

ASSUME SignalHubAssumption ==
  /\ DeviceOf \in [Conn -> Device]
  /\ Nobody \notin Conn
  /\ IsFiniteSet(Sid)
  /\ MaxPeers \in Nat /\ MaxLinks \in Nat /\ MaxPerTarget \in Nat /\ OutCap \in Nat

VARIABLES
  serving,   \* how far serve has come with a connection
  broken,    \* connections that are closed: reading and writing fail
  online,    \* device -> its connection
  ends,      \* session id -> the two connections it links, or none
  old,       \* sessions older than 24 hours
  out,       \* peer.out
  greeted,   \* connections whose far end has read "registered"
  known,     \* the sessions the far end of a connection has been told of
  unsaid,    \* a ghost: connections whose session was dropped without a word
  closing,   \* signalHub.closing
  toClose,   \* connections close() has yet to close
  closed     \* close() has returned

linkVars == <<ends, old, unsaid>>
farVars == <<greeted, known>>
hubVars == <<closing, toClose, closed>>
vars == <<serving, broken, online, linkVars, out, farVars, hubVars>>

Msg(t, s) == [type |-> t, sid |-> s]
Messages == [type : {"registered", "error"}, sid : {Nobody}]
              \cup [type : {"session", "close", "offer"}, sid : Sid]

TypeOK ==
  /\ serving \in [Conn -> {"none", "admitted", "handshake", "claimed", "online", "left"}]
  /\ broken \in SUBSET Conn
  /\ online \in [Device -> Conn \cup {Nobody}]
  /\ ends \in [Sid -> SUBSET Conn]
  /\ old \in SUBSET Sid
  /\ out \in [Conn -> Seq(Messages)]
  /\ \A c \in Conn : Len(out[c]) <= OutCap
  /\ greeted \in SUBSET Conn
  /\ known \in [Conn -> SUBSET Sid]
  /\ unsaid \in SUBSET (Conn \X Sid)
  /\ closing \in BOOLEAN /\ closed \in BOOLEAN
  /\ toClose \in SUBSET Conn

-----------------------------------------------------------------------------
\* Helpers

Links == {s \in Sid : ends[s] # {}}
LinksOf(c) == {s \in Sid : c \in ends[s]}
OnlinePeers == {d \in Device : online[d] # Nobody}

\* The connections the wait group counts
Counted == {c \in Conn : serving[c] \notin {"none", "admitted"}}

\* Mutant: a full channel gives up its oldest message, as the frames' channel does
Send_DropOldest(messages) ==
  /\ out' = [c \in Conn |->
       IF c \in broken THEN out[c]
       ELSE LET all == out[c] \o messages[c]
            IN  SubSeq(all, IF Len(all) > OutCap THEN Len(all) - OutCap + 1 ELSE 1, Len(all))]
  /\ UNCHANGED broken

\* peer.send of messages[c] to every connection c: a closed connection takes
\* nothing, and one whose channel is full is closed.
Send(messages) ==
  LET Room(c) == Len(out[c]) + Len(messages[c]) <= OutCap
  IN  /\ out' = [c \in Conn |->
           IF c \in broken THEN out[c]
           ELSE IF Room(c) THEN out[c] \o messages[c]
           ELSE SubSeq(out[c] \o messages[c], 1, OutCap)]
      /\ broken' = broken \cup {c \in Conn : ~Room(c)}

One(m, conns) == [c \in Conn |-> IF c \in conns THEN <<m>> ELSE <<>>]

\* Nothing refers to a session id that is drawn.
Unused(s) ==
  /\ ends[s] = {} /\ \A c \in Conn : s \notin known[c] /\ <<c, s>> \notin unsaid
  /\ \A c \in Conn : \A i \in 1..Len(out[c]) : out[c][i].sid # s

Init ==
  /\ serving = [c \in Conn |-> "none"] /\ broken = {}
  /\ online = [d \in Device |-> Nobody]
  /\ ends = [s \in Sid |-> {}] /\ old = {} /\ unsaid = {}
  /\ out = [c \in Conn |-> <<>>] /\ greeted = {} /\ known = [c \in Conn |-> {}]
  /\ closing = FALSE /\ toClose = {} /\ closed = FALSE

-----------------------------------------------------------------------------
\* serve

\* The number of devices is looked at, and mu given up before the upgrade.
Admit(c) ==
  /\ serving[c] = "none"
  /\ ~closing /\ Cardinality(OnlinePeers) < MaxPeers
  /\ serving' = [serving EXCEPT ![c] = "admitted"]
  /\ broken' = broken \ {c}
  /\ out' = [out EXCEPT ![c] = <<>>] /\ greeted' = greeted \ {c}
  /\ known' = [known EXCEPT ![c] = {}]
  /\ unsaid' = {u \in unsaid : u[1] # c}
  /\ UNCHANGED <<online, ends, old, hubVars>>

\* Mutant: the connection is counted although the hub is closing
Upgrade_Late(c) ==
  /\ serving[c] = "admitted"
  /\ serving' = [serving EXCEPT ![c] = "handshake"]
  /\ UNCHANGED <<broken, online, linkVars, out, farVars, hubVars>>

\* The upgraded connection is entered, unless the hub has begun to close.
Upgrade(c) ==
  /\ serving[c] = "admitted"
  /\ serving' = [serving EXCEPT ![c] = IF closing THEN "none" ELSE "handshake"]
  /\ UNCHANGED <<broken, online, linkVars, out, farVars, hubVars>>

\* Mutant: a second connection of a device takes its place
Register_Again(c) ==
  /\ serving[c] = "handshake" /\ c \notin broken /\ ~closing
  /\ online' = [online EXCEPT ![DeviceOf[c]] = c]
  /\ serving' = [serving EXCEPT ![c] = "claimed"]
  /\ UNCHANGED <<broken, linkVars, out, farVars, hubVars>>

\* The signed registration; a device that is online already is sent away.
Register(c) ==
  /\ serving[c] = "handshake" /\ c \notin broken
  /\ ~closing /\ online[DeviceOf[c]] = Nobody
  /\ online' = [online EXCEPT ![DeviceOf[c]] = c]
  /\ serving' = [serving EXCEPT ![c] = "claimed"]
  /\ UNCHANGED <<broken, linkVars, out, farVars, hubVars>>

\* "registered" is sent after mu was given up; the writer runs already.
Announce(c) ==
  /\ serving[c] = "claimed"
  /\ serving' = [serving EXCEPT ![c] = "online"]
  /\ Send(One(Msg("registered", Nobody), {c}))
  /\ UNCHANGED <<online, linkVars, farVars, hubVars>>

Refused(c) ==
  /\ serving[c] = "handshake"
  /\ c \in broken \/ closing \/ online[DeviceOf[c]] # Nobody
  /\ serving' = [serving EXCEPT ![c] = "none"]
  /\ UNCHANGED <<broken, online, linkVars, out, farVars, hubVars>>

\* The far end hangs up, or is silent for 60 s.
Hangup(c) ==
  /\ serving[c] \in {"handshake", "claimed", "online"} /\ c \notin broken
  /\ broken' = broken \cup {c}
  /\ UNCHANGED <<serving, online, linkVars, out, farVars, hubVars>>

\* The sessions of a set, in any order
Orders(S) == {q \in [1..Cardinality(S) -> S] : \A s \in S : \E i \in DOMAIN q : q[i] = s}

Closes(order) == [i \in DOMAIN order |-> Msg("close", order[i])]

\* Reading fails: the device goes offline, its sessions end, and the other
\* end of each is sent a "close"; the order of a map is any order.
Leave(c) ==
  /\ serving[c] = "online" /\ c \in broken
  /\ serving' = [serving EXCEPT ![c] = "left"]
  /\ online' = [online EXCEPT ![DeviceOf[c]] = Nobody]
  /\ ends' = [s \in Sid |-> IF c \in ends[s] THEN {} ELSE ends[s]]
  /\ old' = old \ LinksOf(c)
  /\ LET Others == (UNION {ends[s] : s \in LinksOf(c)}) \ {c}
     IN  \E order \in [Others -> UNION {Orders(LinksOf(c) \cap LinksOf(o)) : o \in Others}] :
           /\ \A o \in Others : order[o] \in Orders(LinksOf(c) \cap LinksOf(o))
           /\ Send([o \in Conn |-> IF o \in Others THEN Closes(order[o]) ELSE <<>>])
  /\ UNCHANGED <<farVars, unsaid, hubVars>>

\* The connection leaves the table, and the wait group is told.
Gone(c) ==
  /\ serving[c] = "left"
  /\ serving' = [serving EXCEPT ![c] = "none"]
  /\ UNCHANGED <<broken, online, linkVars, out, farVars, hubVars>>

\* The writer sends the next message.  A far end that reads anything else
\* before "registered" hangs up; later it keeps account of its sessions.
Deliver(c) ==
  /\ serving[c] \in {"claimed", "online"} /\ c \notin broken /\ out[c] # <<>>
  /\ LET m == Head(out[c]) IN
       IF c \in greeted
         THEN /\ known' = [known EXCEPT ![c] =
                   CASE m.type = "session" -> @ \cup {m.sid}
                     [] m.type = "close"   -> @ \ {m.sid}
                     [] OTHER -> @]
              /\ UNCHANGED <<broken, greeted>>
         ELSE /\ greeted' = IF m.type = "registered" THEN greeted \cup {c} ELSE greeted
              /\ broken' = IF m.type = "registered" THEN broken ELSE broken \cup {c}
              /\ UNCHANGED known
  /\ out' = [out EXCEPT ![c] = Tail(@)]
  /\ UNCHANGED <<serving, online, linkVars, hubVars>>

-----------------------------------------------------------------------------
\* route: a message of a connection's far end.  A closed connection may still
\* have one in hand.

Reads(c) == serving[c] = "online" /\ c \in greeted

\* More than 240 messages in a minute
Flooded(c) ==
  /\ Reads(c)
  /\ broken' = broken \cup {c}
  /\ UNCHANGED <<serving, online, linkVars, out, farVars, hubVars>>

\* The sessions that stay when the aged ones are pruned
Fresh == Links \ old
FreshOf(c) == LinksOf(c) \ old
Prune(s) == IF s \in old THEN {} ELSE ends[s]
Pruned == {u \in Conn \X Sid : u[2] \in old /\ u[1] \in ends[u[2]]}

Callable(c, d) == online[d] # Nobody /\ online[d] # c

Full(d) == Cardinality(FreshOf(online[d])) >= MaxPerTarget \/ Cardinality(Fresh) >= MaxLinks

\* Too many requests, or nobody to call
ConnectRefused(c) ==
  /\ Reads(c)
  /\ Send(One(Msg("error", Nobody), {c}))
  /\ UNCHANGED <<serving, online, linkVars, farVars, hubVars>>

\* The hub is full, or the device that is called; the old sessions go all the same.
ConnectFull(c, d) ==
  /\ Reads(c) /\ Callable(c, d) /\ Full(d)
  /\ ends' = [s \in Sid |-> Prune(s)] /\ old' = {} /\ unsaid' = unsaid \cup Pruned
  /\ Send(One(Msg("error", Nobody), {c}))
  /\ UNCHANGED <<serving, online, farVars, hubVars>>

Connect(c, d, s) ==
  /\ Reads(c) /\ Callable(c, d) /\ ~Full(d) /\ Unused(s)
  /\ ends' = [x \in Sid |-> IF x = s THEN {c, online[d]} ELSE Prune(x)]
  /\ old' = {} /\ unsaid' = unsaid \cup Pruned
  /\ Send(One(Msg("session", s), {c, online[d]}))
  /\ UNCHANGED <<serving, online, farVars, hubVars>>

\* An offer or an answer for a session of one's own goes to the other end.
Offer(c, s) ==
  /\ Reads(c) /\ s \in known[c] /\ c \in ends[s]
  /\ Send(One(Msg("offer", s), ends[s] \ {c}))
  /\ UNCHANGED <<serving, online, linkVars, farVars, hubVars>>

\* Mutant: the other end does not hear that the session is over
Close_Silent(c, s) ==
  /\ Reads(c) /\ s \in known[c] /\ c \in ends[s]
  /\ known' = [known EXCEPT ![c] = @ \ {s}] /\ UNCHANGED greeted
  /\ ends' = [ends EXCEPT ![s] = {}] /\ old' = old \ {s}
  /\ UNCHANGED <<serving, broken, online, unsaid, out, hubVars>>

\* The far end gives a session up.
Close(c, s) ==
  /\ Reads(c) /\ s \in known[c] /\ c \in ends[s]
  /\ known' = [known EXCEPT ![c] = @ \ {s}] /\ UNCHANGED greeted
  /\ ends' = [ends EXCEPT ![s] = {}] /\ old' = old \ {s}
  /\ Send(One(Msg("close", s), ends[s] \ {c}))
  /\ UNCHANGED <<serving, online, unsaid, hubVars>>

\* A session that has ended meanwhile: the hub ignores it.
CloseAgain(c, s) ==
  /\ Reads(c) /\ s \in known[c] /\ c \notin ends[s]
  /\ known' = [known EXCEPT ![c] = @ \ {s}]
  /\ unsaid' = unsaid \ {<<c, s>>}
  /\ UNCHANGED <<serving, broken, online, ends, old, out, greeted, hubVars>>

-----------------------------------------------------------------------------
\* 24 hours pass for a session; only the next "connect" looks.
Age(s) ==
  /\ s \in Links \ old
  /\ old' = old \cup {s}
  /\ UNCHANGED <<serving, broken, online, ends, unsaid, out, farVars, hubVars>>

\* Mutant: the connections are not closed
BeginClose_Waits ==
  /\ ~closing
  /\ closing' = TRUE /\ toClose' = {}
  /\ UNCHANGED <<serving, broken, online, linkVars, out, farVars, closed>>

\* close() marks the hub, closes the connections of the table, and waits.
BeginClose ==
  /\ ~closing
  /\ closing' = TRUE /\ toClose' = Counted
  /\ UNCHANGED <<serving, broken, online, linkVars, out, farVars, closed>>

CloseConn(c) ==
  /\ c \in toClose
  /\ toClose' = toClose \ {c} /\ broken' = broken \cup {c}
  /\ UNCHANGED <<serving, online, linkVars, out, farVars, closing, closed>>

EndClose ==
  /\ closing /\ ~closed /\ toClose = {} /\ Counted = {}
  /\ closed' = TRUE
  /\ UNCHANGED <<serving, broken, online, linkVars, out, farVars, closing, toClose>>

-----------------------------------------------------------------------------
Serve(c) == Upgrade(c) \/ Register(c) \/ Announce(c) \/ Refused(c) \/ Leave(c) \/ Gone(c)

Route(c) ==
  \/ Flooded(c) \/ ConnectRefused(c)
  \/ \E d \in Device : ConnectFull(c, d) \/ \E s \in Sid : Connect(c, d, s)
  \/ \E s \in Sid : Offer(c, s) \/ Close(c, s) \/ CloseAgain(c, s)

Next ==
  \/ \E c \in Conn : Admit(c) \/ Serve(c) \/ Hangup(c) \/ Deliver(c) \/ Route(c) \/ CloseConn(c)
  \/ \E s \in Sid : Age(s)
  \/ BeginClose \/ EndClose

Spec == Init /\ [][Next]_vars

\* serve and the closing goroutine run; devices and their links owe nothing.
HubFairness == /\ WF_vars(EndClose)
               /\ \A c \in Conn : WF_vars(Serve(c)) /\ WF_vars(CloseConn(c))

FairSpec == Spec /\ HubFairness

-----------------------------------------------------------------------------
\* Properties

\* A device is online on one connection at a time, and on a live one.
OneConnection ==
  \A c \in Conn : serving[c] \in {"claimed", "online"} <=> online[DeviceOf[c]] = c

\* A session links two devices, each online on the very connection it names,
\* whichever of them goes, registers anew or is closed by the hub: the cleanup of
\* a connection takes away its own entry and sessions and no others.
LinksAreOnline ==
  /\ OneConnection
  /\ \A s \in Links : Cardinality(ends[s]) = 2 /\ \A c \in ends[s] : online[DeviceOf[c]] = c

\* What the far end of c will hold for open when it has read everything sent
WillKnow(c, s) ==
  \/ \E i \in 1..Len(out[c]) :
       /\ out[c][i] = Msg("session", s)
       /\ \A j \in i..Len(out[c]) : out[c][j] # Msg("close", s)
  \/ s \in known[c] /\ \A i \in 1..Len(out[c]) : out[c][i] # Msg("close", s)

\* Both ends of a session come to know of it and of its end, in this order,
\* however "connect", "close" and a disconnect of the other end cross.  Only
\* a session dropped for its age goes without a word.
EndsAgree ==
  \A c \in Conn, s \in Sid :
    serving[c] = "online" /\ c \notin broken =>
      (WillKnow(c, s) <=> c \in ends[s] \/ <<c, s>> \in unsaid)

\* An offer or an answer reaches a device only after the session it belongs to.
OfferAfterSession ==
  \A c \in Conn : c \notin broken /\ serving[c] = "online" =>
    \A i \in 1..Len(out[c]) : out[c][i].type = "offer" /\ c \in ends[out[c][i].sid] =>
      \/ out[c][i].sid \in known[c]
      \/ \E j \in 1..i : out[c][j] = Msg("session", out[c][i].sid)

\* When close() returns nobody is online, no session is left, and no serve runs.
ClosedIsEmpty == closed => Links = {} /\ OnlinePeers = {} /\ Counted = {}

\* What close() waits for it has closed, or is about to: no connection is counted
\* after the table was read for the last time.
CloseReaches == closing => Counted \subseteq toClose \cup broken

\* close() returns, whatever the devices are doing.
CloseReturns == closing ~> closed

\* What the device's side requires of the first message after its signature:
\* "registered", and not a session somebody has just asked for.
RegisteredFirst ==
  \A c \in Conn : serving[c] \in {"claimed", "online"} /\ c \notin greeted \cup broken /\ out[c] # <<>>
                  => Head(out[c]).type = "registered"

=============================================================================
