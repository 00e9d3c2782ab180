---------------------------- MODULE GuardedRelay ----------------------------
(***************************************************************************)
(* The relays that a server hands out: a guardedRelay of server/relay.go   *)
(* per service, with MaxSlots slots.  The TURN server calls                *)
(* AllocatePacketConn from its own goroutines and closes what it got when  *)
(* the allocation ends; a read that finds its session gone closes it too;  *)
(* and Close, when the service stops, closes what is left and waits for    *)
(* the calls that are on their way.  Only mu is shared: a socket, a slot   *)
(* and the entry in packets come and go one after the other.               *)
(*                                                                         *)
(* A packet that nothing refers to any more may be allocated again.        *)
(***************************************************************************)
EXTENDS Naturals, FiniteSets

CONSTANTS Service,    \* each has its own guardedRelay
          Packet,     \* guardedPackets
          MaxSlots    \* cap(slots), 256 in the code

ASSUME GuardedRelayAssumption == MaxSlots \in Nat \ {0} /\ IsFiniteSet(Packet)

VARIABLES
  closed,   \* the services whose relay has closed set, or does not exist
  copied,   \* the packets Close found in the table and has not closed yet
  slots,    \* tokens in the channel
  packet    \* where a packet is on its way

relayVars == <<closed, copied, slots, packet>>

\* "entered" counts in pending, "slot" has one, "bound" a socket, "used" an
\* entry in the table.  Close leaves "shut", then "deleted".
Allocating == {"entered", "slot", "bound"}
Steps == Allocating \cup {"used", "shut", "deleted"}

NoPacket == [at |-> "none"]
Record(s, at, pending) == [of |-> s, at |-> at, pending |-> pending]

RelayTypeOK ==
  /\ closed \in SUBSET Service
  /\ copied \in [Service -> SUBSET Packet]
  /\ slots \in [Service -> 0..MaxSlots]
  /\ packet \in [Packet -> [of : Service, at : Steps, pending : BOOLEAN] \cup {NoPacket}]

Of(s) == {p \in Packet : packet[p] # NoPacket /\ packet[p].of = s}
Sockets(s) == {p \in Of(s) : packet[p].at \in {"bound", "used"}}

\* Those that have put a token into slots and not taken it out
Holders(s) == {p \in Of(s) : packet[p].at # "entered"}

\* The table, until release deletes the packet from it
Table(s) == {p \in Of(s) : packet[p].at \in {"used", "shut"} /\ ~packet[p].pending}

\* The wait group: calls of AllocatePacketConn that have not returned
InCalls(s) == {p \in Of(s) : packet[p].pending}

RelayInit ==
  /\ closed = Service
  /\ copied = [s \in Service |-> {}]
  /\ slots = [s \in Service |-> 0]
  /\ packet = [p \in Packet |-> NoPacket]

-----------------------------------------------------------------------------
\* A new guardedRelay, for a service none of whose packets is left
NewRelay(s) ==
  /\ s \in closed /\ Of(s) = {}
  /\ closed' = closed \ {s}
  /\ slots' = [slots EXCEPT ![s] = 0]
  /\ UNCHANGED <<copied, packet>>

\* AllocatePacketConn.  A port outside the range or no slot, and it returns.
Allocate(p, s) ==
  /\ s \notin closed /\ packet[p] = NoPacket
  /\ packet' = [packet EXCEPT ![p] = Record(s, "entered", TRUE)]
  /\ UNCHANGED <<closed, copied, slots>>

NotAllocated(p) ==
  /\ packet[p].at = "entered"
  /\ packet' = [packet EXCEPT ![p] = NoPacket]
  /\ UNCHANGED <<closed, copied, slots>>

TakeSlot(p) ==
  /\ packet[p].at = "entered" /\ slots[packet[p].of] < MaxSlots
  /\ slots' = [slots EXCEPT ![packet[p].of] = @ + 1]
  /\ packet' = [packet EXCEPT ![p] = Record(packet[p].of, "slot", TRUE)]
  /\ UNCHANGED <<closed, copied>>

Bind(p) ==
  /\ packet[p].at = "slot"
  /\ packet' = [packet EXCEPT ![p] = Record(packet[p].of, "bound", TRUE)]
  /\ UNCHANGED <<closed, copied, slots>>

\* Mutant: no socket, and the slot is gone
BindFails_Leak(p) ==
  /\ packet[p].at = "slot"
  /\ packet' = [packet EXCEPT ![p] = NoPacket]
  /\ UNCHANGED <<closed, copied, slots>>

BindFails(p) ==
  /\ packet[p].at = "slot"
  /\ slots' = [slots EXCEPT ![packet[p].of] = @ - 1]
  /\ packet' = [packet EXCEPT ![p] = NoPacket]
  /\ UNCHANGED <<closed, copied>>

Enter(p) ==
  /\ packet[p].at = "bound" /\ packet[p].of \notin closed
  /\ packet' = [packet EXCEPT ![p] = Record(packet[p].of, "used", FALSE)]
  /\ UNCHANGED <<closed, copied, slots>>

\* The second look at closed: the call closes its own socket.
TooLate(p) ==
  /\ packet[p].at = "bound" /\ packet[p].of \in closed
  /\ packet' = [packet EXCEPT ![p] = Record(packet[p].of, "shut", TRUE)]
  /\ UNCHANGED <<closed, copied, slots>>

-----------------------------------------------------------------------------
\* guardedPacket.Close: the socket, and once, whoever calls, release.  Who
\* calls later waits in once.Do until release is through.
Shut(p) ==
  /\ packet[p].at = "used"
  /\ packet' = [packet EXCEPT ![p] = Record(packet[p].of, "shut", packet[p].pending)]
  /\ UNCHANGED <<closed, copied, slots>>

Delete(p) ==
  /\ packet[p].at = "shut"
  /\ packet' = [packet EXCEPT ![p] = Record(packet[p].of, "deleted", packet[p].pending)]
  /\ UNCHANGED <<closed, copied, slots>>

\* A packet Close waits for is done; a call that was too late returns.
Free(p) ==
  /\ packet[p].at = "deleted"
  /\ slots' = [slots EXCEPT ![packet[p].of] = @ - 1]
  /\ packet' = [packet EXCEPT ![p] = NoPacket]
  /\ copied' = [copied EXCEPT ![packet[p].of] = @ \ {p}]
  /\ UNCHANGED closed

\* Close of the relay: closed and the copy of the table in one section of mu
CloseRelay(s) ==
  /\ s \notin closed
  /\ closed' = closed \cup {s}
  /\ copied' = [copied EXCEPT ![s] = Table(s)]
  /\ UNCHANGED <<slots, packet>>

\* Close returns when its packets are closed and pending.Wait is over.
RelayIsClosed(s) == s \in closed /\ copied[s] = {} /\ InCalls(s) = {}

-----------------------------------------------------------------------------
RelayStep(p) ==
  \/ NotAllocated(p) \/ TakeSlot(p) \/ Bind(p) \/ BindFails(p)
  \/ Enter(p) \/ TooLate(p) \/ Delete(p) \/ Free(p)

RelayNext ==
  \/ \E s \in Service : NewRelay(s) \/ CloseRelay(s) \/ \E p \in Packet : Allocate(p, s)
  \/ \E p \in Packet : RelayStep(p) \/ Shut(p)

RelaySpec == RelayInit /\ [][RelayNext]_relayVars

-----------------------------------------------------------------------------
\* Properties

\* Every token in the channel is somebody's who will take it out again, and no
\* more sockets are open than there are slots: on no way through
\* AllocatePacketConn and Close is a slot lost or freed twice.
SlotsConserved ==
  \A s \in Service : slots[s] = Cardinality(Holders(s))

\* When Close has returned no socket of the relay is open, whatever was on its
\* way when it began, and none will be.
ClosedRelayIsEmpty == \A s \in Service : RelayIsClosed(s) => Sockets(s) = {}

=============================================================================
