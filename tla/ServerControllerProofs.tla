----------------------- MODULE ServerControllerProofs -----------------------
(***************************************************************************)
(* Safety of GuardedRelay for any number of services, packets and slots,   *)
(* and of ServerController, which has a relay for each service: services   *)
(* start and stop one at a time, what one held is free when the controller *)
(* says so, and somebody acts on whatever waits.                           *)
(***************************************************************************)
EXTENDS ServerController, FiniteSetTheorems, TLAPS

-----------------------------------------------------------------------------
\* The relay

\* A packet is in its call of AllocatePacketConn until it is entered or given
\* up, and never while it is in use.
CallsPending ==
  \A p \in Packet : packet[p] # NoPacket =>
    /\ packet[p].at \in Allocating => packet[p].pending = TRUE
    /\ packet[p].at = "used" => packet[p].pending = FALSE

\* Nothing in use escapes a Close: what was entered before is in the copy, and
\* nothing is entered after.
CopyComplete ==
  \A p \in Packet : packet[p].at = "used" /\ packet[p].of \in closed => p \in copied[packet[p].of]

RelayInv == RelayTypeOK /\ SlotsConserved /\ CallsPending /\ CopyComplete

USE GuardedRelayAssumption

\* The holders are finitely many.
LEMMA HoldersFinite ==
  ASSUME NEW s \in Service PROVE IsFiniteSet(Holders(s)) /\ Cardinality(Holders(s)) \in Nat
<1>1. Holders(s) \subseteq Packet
  BY DEF Holders, Of
<1>2. QED
  BY <1>1, FS_Subset, FS_CardinalityType

\* A step of one packet that neither takes nor returns a token
LEMMA SameHolders ==
  ASSUME SlotsConserved, slots' = slots, NEW p \in Packet,
         \A x \in Packet \ {p} : packet'[x] = packet[x],
         \A s \in Service : p \in Holders(s)' <=> p \in Holders(s)
  PROVE  SlotsConserved'
<1>1. \A s \in Service, x \in Packet \ {p} : x \in Holders(s)' <=> x \in Holders(s)
  BY DEF Holders, Of
<1>2. \A s \in Service : Holders(s) \subseteq Packet /\ Holders(s)' \subseteq Packet
  BY DEF Holders, Of
<1>3. \A s \in Service : Holders(s)' = Holders(s)
  BY <1>1, <1>2
<1>4. QED
  BY <1>3 DEF SlotsConserved

\* A token goes in with the packet that takes it.
LEMMA OneMore ==
  ASSUME RelayTypeOK, SlotsConserved, NEW p \in Packet, TakeSlot(p), NEW o \in Service, packet[p].of = o
  PROVE  SlotsConserved' /\ slots' \in [Service -> 0..MaxSlots]
<1>1. packet[p] # NoPacket /\ o \in Service /\ packet[p].at = "entered"
  BY DEF TakeSlot, RelayTypeOK, NoPacket
<1>2. Record(o, "slot", TRUE) # NoPacket /\ Record(o, "slot", TRUE).of = o /\ Record(o, "slot", TRUE).at = "slot"
  BY DEF Record, NoPacket
<1>3. packet' = [packet EXCEPT ![p] = Record(o, "slot", TRUE)] /\ slots' = [slots EXCEPT ![o] = @ + 1]
  BY DEF TakeSlot
<1>4. p \notin Holders(o) /\ Holders(o)' = Holders(o) \cup {p}
  BY <1>1, <1>2, <1>3 DEF Holders, Of, RelayTypeOK
<1>5. \A s \in Service \ {o} : Holders(s)' = Holders(s)
  BY <1>1, <1>2, <1>3 DEF Holders, Of, RelayTypeOK
<1>6. Cardinality(Holders(o)') = Cardinality(Holders(o)) + 1
  BY <1>1, <1>4, HoldersFinite, FS_AddElement
<1>7. SlotsConserved'
  BY <1>1, <1>3, <1>5, <1>6 DEF SlotsConserved, RelayTypeOK
<1>8. slots[o] < MaxSlots
  BY DEF TakeSlot
<1>9. QED
  BY <1>1, <1>3, <1>7, <1>8 DEF RelayTypeOK

\* A token comes out with the packet that had it.
LEMMA OneLess ==
  ASSUME RelayTypeOK, SlotsConserved, NEW p \in Packet, packet[p].at \in {"slot", "deleted"},
         NEW o \in Service, packet[p].of = o,
         packet' = [packet EXCEPT ![p] = NoPacket], slots' = [slots EXCEPT ![o] = @ - 1]
  PROVE  SlotsConserved' /\ slots' \in [Service -> 0..MaxSlots]
<1>1. packet[p] # NoPacket /\ o \in Service /\ packet[p].at # "entered"
  BY DEF RelayTypeOK, NoPacket
<1>2. p \in Holders(o) /\ Holders(o)' = Holders(o) \ {p}
  BY <1>1 DEF Holders, Of, RelayTypeOK
<1>3. \A s \in Service \ {o} : Holders(s)' = Holders(s)
  BY <1>1 DEF Holders, Of, RelayTypeOK
<1>4. Cardinality(Holders(o)') = Cardinality(Holders(o)) - 1
  BY <1>1, <1>2, HoldersFinite, FS_RemoveElement, ZenonT(30)
<1>5. SlotsConserved'
  BY <1>1, <1>3, <1>4 DEF SlotsConserved, RelayTypeOK
<1>6. Cardinality(Holders(o)) >= 1
  <2>1. Cardinality(Holders(o)') \in Nat
    BY <1>1, <1>2, HoldersFinite, FS_RemoveElement, FS_CardinalityType
  <2>2. QED
    BY <1>1, <1>4, <2>1, HoldersFinite
<1>7. slots[o] >= 1
  BY <1>1, <1>6 DEF SlotsConserved
<1>8. QED
  BY <1>1, <1>5, <1>7 DEF RelayTypeOK

-----------------------------------------------------------------------------
\* A relay starts with nothing.
LEMMA RelayInitInv == RelayInit => RelayInv
<1> SUFFICES ASSUME RelayInit PROVE RelayInv
  OBVIOUS
<1>1. RelayTypeOK
  BY DEF RelayInit, RelayTypeOK
<1>2. \A s \in Service : Holders(s) = {}
  BY DEF RelayInit, Holders, Of
<1>3. SlotsConserved
  BY <1>2, FS_EmptySet DEF RelayInit, SlotsConserved
<1>4. CallsPending /\ CopyComplete
  BY DEF RelayInit, CallsPending, CopyComplete, NoPacket
<1>5. QED
  BY <1>1, <1>3, <1>4 DEF RelayInv

\* Each step keeps the invariant.
LEMMA RelayNextInv == RelayInv /\ [RelayNext]_relayVars => RelayInv'
<1> SUFFICES ASSUME RelayInv, [RelayNext]_relayVars PROVE RelayInv'
  OBVIOUS
<1> USE DEF RelayInv
<1>r. \A s, a, b : /\ Record(s, a, b) # NoPacket
                   /\ Record(s, a, b).of = s /\ Record(s, a, b).at = a /\ Record(s, a, b).pending = b
  BY DEF Record, NoPacket
<1>t. \A s \in Service, a \in Steps, b \in BOOLEAN :
        Record(s, a, b) \in [of : Service, at : Steps, pending : BOOLEAN]
  BY DEF Record
<1>k. \A p \in Packet : packet[p].at \in Steps =>
        packet[p] # NoPacket /\ packet[p].of \in Service /\ packet[p].pending \in BOOLEAN
  BY DEF RelayTypeOK, NoPacket, Steps, Allocating
<1>1. ASSUME NEW s \in Service, NewRelay(s) PROVE RelayInv'
  <2>1. /\ closed' = closed \ {s} /\ slots' = [slots EXCEPT ![s] = 0]
        /\ UNCHANGED <<copied, packet>> /\ Of(s) = {}
    BY <1>1 DEF NewRelay
  <2>2. RelayTypeOK'
    BY <2>1 DEF RelayTypeOK
  <2>3. \A x \in Service : Holders(x)' = Holders(x)
    BY <2>1 DEF Holders, Of
  <2>4. Holders(s) = {} /\ Cardinality({}) = 0
    BY <2>1, FS_EmptySet DEF Holders
  <2>5. SlotsConserved'
    BY <2>1, <2>3, <2>4 DEF SlotsConserved, RelayTypeOK
  <2>6. CallsPending' /\ CopyComplete'
    BY <2>1 DEF CallsPending, CopyComplete
  <2>7. QED
    BY <2>2, <2>5, <2>6
<1>2. ASSUME NEW s \in Service, CloseRelay(s) PROVE RelayInv'
  <2>1. /\ closed' = closed \cup {s} /\ copied' = [copied EXCEPT ![s] = Table(s)]
        /\ UNCHANGED <<slots, packet>>
    BY <1>2 DEF CloseRelay
  <2>2. RelayTypeOK'
    BY <2>1 DEF RelayTypeOK, Table, Of
  <2>3. SlotsConserved' /\ CallsPending'
    BY <2>1 DEF SlotsConserved, Holders, Of, CallsPending
  <2>4. \A p \in Packet : packet[p].at = "used" /\ packet[p].of = s => p \in Table(s)
    BY DEF Table, Of, CallsPending, NoPacket
  <2>5. CopyComplete'
    <3> SUFFICES ASSUME NEW p \in Packet, packet[p].at = "used", packet[p].of \in closed'
                 PROVE  p \in copied'[packet[p].of]
      BY <2>1 DEF CopyComplete
    <3>1. packet[p].of \in Service
      BY <1>k DEF Steps
    <3>2. QED
      BY <2>1, <2>4, <3>1 DEF CopyComplete, RelayTypeOK
  <2>6. QED
    BY <2>2, <2>3, <2>5
<1>3. ASSUME NEW p \in Packet, NEW s \in Service, Allocate(p, s) PROVE RelayInv'
  <2> DEFINE q == Record(s, "entered", TRUE)
  <2>1. /\ packet[p] = NoPacket /\ packet' = [packet EXCEPT ![p] = q]
        /\ closed' = closed /\ copied' = copied /\ slots' = slots
    BY <1>3 DEF Allocate
  <2>2. q # NoPacket /\ q.of = s /\ q.at = "entered" /\ q.pending = TRUE
    BY DEF Record, NoPacket
  <2>3. q \in [of : Service, at : Steps, pending : BOOLEAN]
    BY DEF Record, Steps, Allocating
  <2> HIDE DEF q
  <2>4. \A x \in Packet : packet'[x] = IF x = p THEN q ELSE packet[x]
    BY <2>1 DEF RelayTypeOK
  <2>5. RelayTypeOK'
    BY <2>1, <2>3 DEF RelayTypeOK
  <2>6. SlotsConserved'
    <3>1. \A x \in Service : p \notin Holders(x)' /\ p \notin Holders(x)
      BY <2>1, <2>2, <2>4 DEF Holders, Of
    <3>2. QED
      BY <2>1, <2>4, <3>1, SameHolders
  <2>7. CallsPending'
    BY <2>2, <2>4 DEF CallsPending
  <2>8. CopyComplete'
    BY <2>1, <2>2, <2>4 DEF CopyComplete
  <2>9. QED
    BY <2>5, <2>6, <2>7, <2>8
\* A packet goes from one step of its call or its Close to the next.
<1>4. ASSUME NEW p \in Packet, NEW a \in Steps, NEW b \in BOOLEAN, packet[p].at \in Steps,
             packet' = [packet EXCEPT ![p] = Record(packet[p].of, a, b)],
             UNCHANGED <<closed, copied, slots>>,
             packet[p].at = "entered" <=> a = "entered",
             a \in Allocating => b, a = "used" => ~b /\ packet[p].of \notin closed
      PROVE  RelayInv'
  <2>1. packet[p] # NoPacket /\ packet[p].of \in Service
    BY <1>4, <1>k
  <2>2. RelayTypeOK'
    BY <1>4, <1>t, <2>1 DEF RelayTypeOK
  <2>3. SlotsConserved'
    <3>1. \A s \in Service : p \in Holders(s)' <=> p \in Holders(s)
      BY <1>4, <1>r, <2>1 DEF Holders, Of, RelayTypeOK
    <3>2. \A x \in Packet \ {p} : packet'[x] = packet[x]
      BY <1>4
    <3>3. slots' = slots
      BY <1>4
    <3>4. QED
      BY <3>1, <3>2, <3>3, SameHolders
  <2>4. \A x \in Packet : packet'[x] = IF x = p THEN Record(packet[p].of, a, b) ELSE packet[x]
    BY <1>4 DEF RelayTypeOK
  <2>5. CallsPending'
    BY <1>4, <2>4, <1>r DEF CallsPending, Allocating
  <2>6. CopyComplete'
    BY <1>4, <2>4, <1>r DEF CopyComplete
  <2>7. QED
    BY <2>2, <2>3, <2>5, <2>6
<1>5. ASSUME NEW p \in Packet, TakeSlot(p) PROVE RelayInv'
  <2> DEFINE q == Record(packet[p].of, "slot", TRUE)
  <2>1. /\ packet[p].at = "entered" /\ packet' = [packet EXCEPT ![p] = q]
        /\ closed' = closed /\ copied' = copied
    BY <1>5 DEF TakeSlot
  <2>2. packet[p].of \in Service
    BY <2>1, <1>k DEF Steps, Allocating
  <2>3. q # NoPacket /\ q.at = "slot" /\ q.pending = TRUE
    BY DEF Record, NoPacket
  <2>4. q \in [of : Service, at : Steps, pending : BOOLEAN]
    BY <2>2 DEF Record, Steps, Allocating
  <2> HIDE DEF q
  <2>5. \A x \in Packet : packet'[x] = IF x = p THEN q ELSE packet[x]
    BY <2>1 DEF RelayTypeOK
  <2>6. SlotsConserved' /\ slots' \in [Service -> 0..MaxSlots]
    BY <1>5, <2>2, OneMore
  <2>7. RelayTypeOK'
    BY <2>1, <2>4, <2>6 DEF RelayTypeOK
  <2>8. CallsPending'
    BY <2>3, <2>5 DEF CallsPending
  <2>9. CopyComplete'
    BY <2>1, <2>3, <2>5 DEF CopyComplete
  <2>10. QED
    BY <2>6, <2>7, <2>8, <2>9
<1>6. ASSUME NEW p \in Packet, NotAllocated(p) PROVE RelayInv'
  <2>1. /\ packet[p].at = "entered" /\ packet' = [packet EXCEPT ![p] = NoPacket]
        /\ UNCHANGED <<closed, copied, slots>>
    BY <1>6 DEF NotAllocated
  <2>2. SlotsConserved'
    <3>1. \A x \in Service : p \in Holders(x)' <=> p \in Holders(x)
      BY <2>1 DEF Holders, Of, RelayTypeOK
    <3>2. QED
      BY <2>1, <3>1, SameHolders
  <2>3. RelayTypeOK' /\ CallsPending' /\ CopyComplete'
    BY <2>1 DEF RelayTypeOK, CallsPending, CopyComplete, NoPacket
  <2>4. QED
    BY <2>2, <2>3
<1>7. ASSUME NEW p \in Packet, BindFails(p) \/ Free(p) PROVE RelayInv'
  <2>1. /\ packet[p].at \in {"slot", "deleted"} /\ packet' = [packet EXCEPT ![p] = NoPacket]
        /\ slots' = [slots EXCEPT ![packet[p].of] = @ - 1] /\ closed' = closed
        /\ copied' = copied \/ copied' = [copied EXCEPT ![packet[p].of] = @ \ {p}]
    BY <1>7 DEF BindFails, Free
  <2>2. SlotsConserved' /\ slots' \in [Service -> 0..MaxSlots]
    <3>1. PICK o \in Service : packet[p].of = o
      BY <2>1, <1>k DEF Steps, Allocating
    <3>2. slots' = [slots EXCEPT ![o] = @ - 1]
      BY <2>1, <3>1
    <3>3. QED
      BY <2>1, <3>1, <3>2, OneLess
  <2>3. RelayTypeOK' /\ CallsPending'
    BY <2>1, <2>2 DEF RelayTypeOK, CallsPending, NoPacket
  <2>4. CopyComplete'
    BY <2>1, <1>k DEF CopyComplete, RelayTypeOK, NoPacket, Steps
  <2>5. QED
    BY <2>2, <2>3, <2>4
<1>8. ASSUME NEW p \in Packet, Bind(p) PROVE RelayInv'
  BY <1>8, <1>4, <1>k DEF Bind, Steps, Allocating
<1>9. ASSUME NEW p \in Packet, Enter(p) PROVE RelayInv'
  <2>1. /\ packet[p].at = "bound" /\ packet[p].of \notin closed /\ UNCHANGED <<closed, copied, slots>>
        /\ packet' = [packet EXCEPT ![p] = Record(packet[p].of, "used", FALSE)]
    BY <1>9 DEF Enter
  <2>2. /\ packet[p].at \in Steps /\ "used" \in Steps /\ FALSE \in BOOLEAN /\ "used" \notin Allocating
        /\ (packet[p].at = "entered" <=> "used" = "entered")
    BY <2>1 DEF Steps, Allocating
  <2>3. QED
    BY <2>1, <2>2, <1>4
<1>10. ASSUME NEW p \in Packet, TooLate(p) PROVE RelayInv'
  BY <1>10, <1>4, <1>k DEF TooLate, Steps, Allocating
<1>11. ASSUME NEW p \in Packet, Shut(p) \/ Delete(p) PROVE RelayInv'
  BY <1>11, <1>4, <1>k DEF Shut, Delete, Steps, Allocating
<1>12. CASE UNCHANGED relayVars
  BY <1>12 DEF relayVars, RelayTypeOK, SlotsConserved, Holders, Of, CallsPending, CopyComplete
<1>13. QED
  BY <1>1, <1>2, <1>3, <1>5, <1>6, <1>7, <1>8, <1>9, <1>10, <1>11, <1>12 DEF RelayNext, RelayStep

\* The inductive invariant of a relay
THEOREM RelayInvariant == RelaySpec => []RelayInv
BY RelayInitInv, RelayNextInv, PTL DEF RelaySpec

\* No way through AllocatePacketConn and Close loses a slot or frees one twice.
THEOREM SlotsAreConserved == RelaySpec => []SlotsConserved
<1>1. RelayInv => SlotsConserved
  BY DEF RelayInv
<1>2. QED
  BY <1>1, RelayInvariant, PTL

\* A relay whose Close has returned has no socket open.
LEMMA EmptyWhenClosed == RelayInv => ClosedRelayIsEmpty
<1> SUFFICES ASSUME RelayInv, NEW s \in Service, RelayIsClosed(s), NEW p \in Sockets(s) PROVE FALSE
  BY DEF ClosedRelayIsEmpty
<1>1. p \in Packet /\ packet[p] # NoPacket /\ packet[p].of = s /\ packet[p].at \in {"bound", "used"}
  BY DEF Sockets, Of
<1>2. CASE packet[p].at = "bound"
  BY <1>1, <1>2 DEF RelayInv, CallsPending, Allocating, RelayIsClosed, InCalls, Of
<1>3. CASE packet[p].at = "used"
  BY <1>1, <1>3 DEF RelayInv, CopyComplete, RelayIsClosed
<1>4. QED
  BY <1>1, <1>2, <1>3

\* When Close has returned no socket is open, and none will be.
THEOREM ClosedIsEmpty == RelaySpec => []ClosedRelayIsEmpty
BY RelayInvariant, EmptyWhenClosed, PTL

-----------------------------------------------------------------------------
\* The controller and its services

USE ServerControllerAssumption

Begun(s) == starter[s] \in {"starting", "failing"}

\* At most one service holds anything: the one that begins, or the active one.
OneHolds ==
  /\ phase \in {"stopped", "starting"} <=> active = NoService
  /\ \A s \in Service : Begun(s) => phase = "starting" /\ s \notin stopped
  /\ \A s1, s2 \in Service : Begun(s1) /\ Begun(s2) => s1 = s2
  /\ \A s \in Service : held[s] # {} => Begun(s) \/ active = s

\* A service is closed only while the controller is stopping it, and is whole
\* until its Close has the lock.
ClosingInv ==
  /\ \A s \in Service : closer[s] # "none" => phase = "stopping" /\ active = s
  /\ \A s \in Service : closer[s] \notin {"none", "lock"} => s \in stopped
  /\ \A s \in Service : closer[s] = "report" => held[s] = {}
  /\ \A s \in Service : active = s /\ closer[s] \in {"none", "lock"} =>
       held[s] = Everything /\ s \notin stopped

\* Its goroutine in Serve ends without an error only when it is closed.
ServingInv ==
  \A s \in Service : Begun(s) \/ (active = s /\ closer[s] \in {"none", "lock", "http"}) =>
    serving[s] # "closed"

\* A start that is not through has not served anybody.
StartingInv ==
  \A s \in Service : Begun(s) =>
    /\ held[s] # Everything => serving[s] = "no"
    /\ starter[s] = "failing" => held[s] # Everything
    /\ serving[s] = "no" => Of(s) = {}

\* The backup's service is the active one until it is stopped.
BackupInv ==
  /\ backup.at = "copying" => \A s \in Service : "db" \notin held[s]
  /\ backup.at = "reading" => backup.of \notin stopped
  /\ backup.at \in {"live", "reading"} /\ backup.of \notin stopped =>
       active = backup.of /\ closer[backup.of] \in {"none", "lock"}

\* A relay that does not exist, or whose Close has returned
NoRelayLeft ==
  \A s \in Service : "relay" \notin held[s] \/ closer[s] \in {"db", "report"} => RelayIsClosed(s)

IInv ==
  TypeOK /\ OneHolds /\ ClosingInv /\ StartingInv /\ BackupInv /\ NoRelayLeft /\ RelayInv
    /\ ServingInv /\ SomebodyActs

-----------------------------------------------------------------------------
\* What the order of startServer is used for
LEMMA FirstFacts ==
  /\ First(0) = {}
  /\ \A n \in 0..6 : /\ First(n) \subseteq Everything
                     /\ First(n) = {} <=> n = 0
                     /\ First(n) = Everything <=> n = 6
                     /\ "relay" \in First(n) <=> n >= 2
                     /\ "db" \in First(n) <=> n >= 1
  /\ \A n \in 1..6 : (Resources[n] = "relay" <=> n = 2) /\ (Resources[n] = "db" <=> n = 1)
BY DEF First, Everything, Resources

\* Every step is a step of the relays, or leaves them alone.
LEMMA RelaysStep == ASSUME [Next]_vars PROVE [RelayNext]_relayVars
BY DEF Next, Starter, Closer, Backup, vars, UserStop, Start, ServeFails, Acquire, AcquireFails,
       GiveBack, StartFails, Started, StopOwn, Done, Report, CloseBegin, CloseHTTP, CloseTURN,
       CloseGenerator, GeneratorClosed, CloseDatabase, Stopped, BackupAsked, BackupLive,
       BackupOffline, BackupDone, NewRelayed, Relayed, ShutRelayed, RelayNext

\* A relay whose Close has returned stays so until there is a new one.
LEMMA ClosedStays ==
  ASSUME RelayInv, [RelayNext]_relayVars, NEW s \in Service, RelayIsClosed(s), ~NewRelay(s)
  PROVE  RelayIsClosed(s)'
<1>1. s \in closed /\ copied[s] = {} /\ InCalls(s) = {}
  BY DEF RelayIsClosed
<1>2. \A p \in Of(s) : packet[p].pending = FALSE /\ packet[p].at \notin Allocating
  BY <1>1 DEF InCalls, RelayInv, CallsPending, RelayTypeOK, Of
<1>3. CASE UNCHANGED relayVars
  BY <1>1, <1>3 DEF relayVars, RelayIsClosed, InCalls, Of
<1>4. ASSUME NEW t \in Service, NewRelay(t) \/ CloseRelay(t) PROVE RelayIsClosed(s)'
  BY <1>1, <1>4 DEF NewRelay, CloseRelay, RelayIsClosed, InCalls, Of, RelayInv, RelayTypeOK
<1>5. ASSUME NEW p \in Packet, NEW q, packet' = [packet EXCEPT ![p] = q],
             closed' = closed, copied'[s] = copied[s] \/ copied'[s] = copied[s] \ {p},
             q # NoPacket /\ q.of = s => q.pending = FALSE
      PROVE  RelayIsClosed(s)'
  <2>1. \A x \in Packet : packet'[x] = IF x = p THEN q ELSE packet[x]
    BY <1>5 DEF RelayInv, RelayTypeOK
  <2>2. \A x \in InCalls(s)' : x = p \/ x \in InCalls(s)
    BY <2>1 DEF InCalls, Of
  <2>3. p \notin InCalls(s)'
    BY <1>5, <2>1 DEF InCalls, Of
  <2>4. QED
    BY <1>1, <1>5, <2>2, <2>3 DEF RelayIsClosed
<1>6. ASSUME NEW p \in Packet, NEW t \in Service, Allocate(p, t) PROVE RelayIsClosed(s)'
  <2>1. t # s /\ Record(t, "entered", TRUE).of = t
    BY <1>1, <1>6 DEF Allocate, Record
  <2>2. QED
    BY <1>5, <1>6, <2>1 DEF Allocate
<1>7. ASSUME NEW p \in Packet, NotAllocated(p) \/ BindFails(p) PROVE RelayIsClosed(s)'
  BY <1>5, <1>7 DEF NotAllocated, BindFails
<1>8. ASSUME NEW p \in Packet, Free(p) PROVE RelayIsClosed(s)'
  <2>1. copied'[s] = copied[s] \/ copied'[s] = copied[s] \ {p}
    BY <1>8 DEF Free, RelayInv, RelayTypeOK
  <2>2. QED
    BY <1>5, <1>8, <2>1 DEF Free
<1>9. ASSUME NEW p \in Packet, TakeSlot(p) \/ Bind(p) \/ Enter(p) \/ TooLate(p) PROVE RelayIsClosed(s)'
  <2>1. packet[p].at \in Allocating
    BY <1>9 DEF TakeSlot, Bind, Enter, TooLate, Allocating
  <2>2. packet[p] # NoPacket
    BY <2>1 DEF Allocating, NoPacket
  <2>3. PICK o \in Service : packet[p].of = o
    BY <2>2 DEF RelayInv, RelayTypeOK
  <2>4. o # s
    BY <1>2, <2>1, <2>2, <2>3 DEF Of
  <2>5. closed' = closed /\ copied' = copied
    BY <1>9 DEF TakeSlot, Bind, Enter, TooLate
  <2>6. PICK a, b : packet' = [packet EXCEPT ![p] = Record(o, a, b)]
    BY <1>9, <2>3 DEF TakeSlot, Bind, Enter, TooLate
  <2>7. Record(o, a, b).of = o
    BY DEF Record
  <2>8. QED
    BY <1>5, <2>4, <2>5, <2>6, <2>7
<1>10. ASSUME NEW p \in Packet, Shut(p) \/ Delete(p) PROVE RelayIsClosed(s)'
  <2>1. packet[p] # NoPacket
    BY <1>10 DEF Shut, Delete, NoPacket
  <2>2. PICK o \in Service : packet[p].of = o
    BY <2>1 DEF RelayInv, RelayTypeOK
  <2>3. o = s => packet[p].pending = FALSE
    BY <1>2, <2>1, <2>2 DEF Of
  <2>4. closed' = closed /\ copied' = copied
    BY <1>10 DEF Shut, Delete
  <2>5. PICK a : packet' = [packet EXCEPT ![p] = Record(o, a, packet[p].pending)]
    BY <1>10, <2>2 DEF Shut, Delete
  <2>6. Record(o, a, packet[p].pending).of = o /\ Record(o, a, packet[p].pending).pending = packet[p].pending
    BY DEF Record
  <2>7. QED
    BY <1>5, <2>3, <2>4, <2>5, <2>6
<1>11. QED
  BY <1>3, <1>4, <1>6, <1>7, <1>8, <1>9, <1>10 DEF RelayNext, RelayStep

\* Packets do not change hands.
LEMMA OfStays ==
  ASSUME RelayTypeOK, NEW s \in Service, Of(s) = {},
         \/ UNCHANGED packet
         \/ \E p \in Packet : RelayStep(p) \/ Shut(p) \/ \E t \in Service \ {s} : Allocate(p, t)
  PROVE  Of(s)' = {}
<1>1. CASE UNCHANGED packet
  BY <1>1 DEF Of
<1>2. ASSUME NEW p \in Packet, NEW q, packet' = [packet EXCEPT ![p] = q], q = NoPacket \/ q.of # s
      PROVE  Of(s)' = {}
  <2>1. \A x \in Packet : packet'[x] = IF x = p THEN q ELSE packet[x]
    BY <1>2 DEF RelayTypeOK
  <2>2. QED
    BY <1>2, <2>1 DEF Of
<1>3. ASSUME NEW p \in Packet, NEW t \in Service \ {s}, Allocate(p, t) PROVE Of(s)' = {}
  <2>1. Record(t, "entered", TRUE).of = t
    BY DEF Record
  <2>2. QED
    BY <1>2, <1>3, <2>1 DEF Allocate
<1>4. ASSUME NEW p \in Packet, RelayStep(p) \/ Shut(p) PROVE Of(s)' = {}
  <2>1. packet[p].at \in Steps
    BY <1>4 DEF RelayStep, Shut, NotAllocated, TakeSlot, Bind, BindFails, Enter, TooLate, Delete, Free,
                Steps, Allocating
  <2>2. packet[p] # NoPacket
    BY <2>1 DEF Steps, Allocating, NoPacket
  <2>3. PICK o \in Service : packet[p].of = o
    BY <2>2 DEF RelayTypeOK
  <2>4. o # s
    BY <2>2, <2>3 DEF Of
  <2>5. CASE packet' = [packet EXCEPT ![p] = NoPacket]
    BY <1>2, <2>5
  <2>6. ASSUME NEW a, NEW b, packet' = [packet EXCEPT ![p] = Record(o, a, b)] PROVE Of(s)' = {}
    <3>1. Record(o, a, b).of = o
      BY DEF Record
    <3>2. QED
      BY <1>2, <2>4, <2>6, <3>1
  <2>7. QED
    BY <1>4, <2>3, <2>5, <2>6
       DEF RelayStep, Shut, NotAllocated, TakeSlot, Bind, BindFails, Enter, TooLate, Delete, Free
<1>5. QED
  BY <1>1, <1>3, <1>4

\* At the start nothing is held.
LEMMA InitIInv == Init => IInv
<1> SUFFICES ASSUME Init PROVE IInv
  OBVIOUS
<1>1. RelayInv
  BY RelayInitInv DEF Init
<1>2. TypeOK
  BY <1>1 DEF Init, TypeOK, RelayInv, Backups, NoBackup, Everything
<1>3. OneHolds /\ ClosingInv /\ StartingInv /\ BackupInv
  BY DEF Init, OneHolds, ClosingInv, StartingInv, BackupInv, Begun, NoBackup
<1>4. NoRelayLeft
  BY DEF Init, RelayInit, NoRelayLeft, RelayIsClosed, InCalls, Of
<1>5. ServingInv /\ SomebodyActs
  BY DEF Init, ServingInv, SomebodyActs, Begun
<1>6. QED
  BY <1>1, <1>2, <1>3, <1>4, <1>5 DEF IInv

-----------------------------------------------------------------------------
\* What the controller, the services and the backup keep
ControlTypeOK ==
  /\ phase \in {"stopped", "starting", "running", "stopping"}
  /\ active \in Service \cup {NoService}
  /\ stopRequested \in BOOLEAN /\ lastError \in BOOLEAN
  /\ starter \in [Service -> {"none", "starting", "failing", "stop", "wait", "report", "halt"}]
  /\ held \in [Service -> SUBSET Everything]
  /\ serving \in [Service -> {"no", "serving", "failed", "closed"}]
  /\ stopped \in SUBSET Service
  /\ closer \in [Service -> {"none", "lock", "http", "turn", "relay", "wait", "db", "report"}]
  /\ backup \in Backups

ControlInv == ControlTypeOK /\ OneHolds /\ ClosingInv /\ BackupInv

\* One service at a time, whoever calls Stop when
LEMMA ControlNext == IInv /\ [Next]_vars => ControlInv'
<1> SUFFICES ASSUME IInv, [Next]_vars PROVE ControlInv'
  OBVIOUS
<1> USE FirstFacts DEF IInv, ControlInv, ControlTypeOK, OneHolds, ClosingInv, BackupInv, Begun,
                       controlVars, serviceVars
<1>t. ControlTypeOK
  BY DEF TypeOK
<1>b. /\ backup.at \in {"none", "offline", "copying", "live", "reading"}
      /\ backup.at \in {"live", "reading"} => backup.of \in Service
      /\ backup.at \notin {"live", "reading"} => backup.of = NoService
  BY DEF TypeOK, Backups
<1>1. ASSUME NEW s \in Service, Start(s) PROVE ControlInv'
  <2>1. \A x \in Service : starter[x] \notin {"starting", "failing"}
    BY <1>1 DEF Start
  <2>2. \A x \in Service : starter'[x] = IF x = s THEN "starting" ELSE starter[x]
    BY <1>t, <1>1 DEF Start
  <2>3. /\ phase' = "starting" /\ active = NoService /\ active' = active /\ held' = held
        /\ closer' = closer /\ backup' = backup /\ stopped' = stopped \ {s} /\ backup.of # s
    BY <1>1 DEF Start
  <2>4. ControlTypeOK'
    BY <1>t, <1>1 DEF Start
  <2>5. OneHolds' /\ ClosingInv'
    BY <1>t, <2>1, <2>2, <2>3
  <2>6. BackupInv'
    BY <1>t, <1>b, <2>3
  <2>7. QED
    BY <2>4, <2>5, <2>6
<1>2. ASSUME UserStop PROVE ControlInv'
  BY <1>t, <1>b, <1>2 DEF UserStop, Stop
<1>3. ASSUME NEW s \in Service, StopOwn(s) PROVE ControlInv'
  BY <1>t, <1>b, <1>3 DEF StopOwn, Stop
<1>4. ASSUME NEW s \in Service, ServeFails(s) PROVE ControlInv'
  BY <1>t, <1>b, <1>4 DEF ServeFails
<1>5. ASSUME NEW s \in Service, AcquireFails(s) PROVE ControlInv'
  BY <1>t, <1>b, <1>5 DEF AcquireFails
<1>6. ASSUME NEW s \in Service, StartFails(s) PROVE ControlInv'
  BY <1>t, <1>b, <1>6 DEF StartFails
<1>7. ASSUME NEW s \in Service, Started(s) PROVE ControlInv'
  BY <1>t, <1>b, <1>7 DEF Started
<1>8. ASSUME NEW s \in Service, Done(s) PROVE ControlInv'
  BY <1>t, <1>b, <1>8 DEF Done
<1>9. ASSUME NEW s \in Service, Report(s) PROVE ControlInv'
  BY <1>t, <1>b, <1>9 DEF Report
<1>10. ASSUME NEW s \in Service, CloseBegin(s) PROVE ControlInv'
  BY <1>t, <1>b, <1>10 DEF CloseBegin, Go
<1>11. ASSUME NEW s \in Service, CloseHTTP(s) PROVE ControlInv'
  BY <1>t, <1>b, <1>11 DEF CloseHTTP, Go
<1>12. ASSUME NEW s \in Service, CloseTURN(s) PROVE ControlInv'
  BY <1>t, <1>b, <1>12 DEF CloseTURN, Go
<1>13. ASSUME NEW s \in Service, CloseGenerator(s) PROVE ControlInv'
  BY <1>t, <1>b, <1>13 DEF CloseGenerator, Go
<1>14. ASSUME NEW s \in Service, GeneratorClosed(s) PROVE ControlInv'
  BY <1>t, <1>b, <1>14 DEF GeneratorClosed, Go
<1>15. ASSUME NEW s \in Service, CloseDatabase(s) PROVE ControlInv'
  BY <1>t, <1>b, <1>15 DEF CloseDatabase, Go
<1>16. ASSUME NEW s \in Service, Stopped(s) PROVE ControlInv'
  BY <1>t, <1>b, <1>16 DEF Stopped, Go
<1>17. ASSUME BackupAsked PROVE ControlInv'
  BY <1>t, <1>b, <1>17 DEF BackupAsked, Backups, NoBackup
<1>18. ASSUME BackupLive PROVE ControlInv'
  BY <1>t, <1>b, <1>18 DEF BackupLive, Backups, NoBackup
<1>19. ASSUME BackupOffline PROVE ControlInv'
  BY <1>t, <1>b, <1>19 DEF BackupOffline, Backups, NoBackup
<1>20. ASSUME BackupDone PROVE ControlInv'
  BY <1>t, <1>b, <1>20 DEF BackupDone, Backups, NoBackup
<1>21. ASSUME NEW s \in Service, NEW n \in 1..6, Acquire(s, n) PROVE ControlInv'
  BY <1>t, <1>b, <1>21 DEF Acquire, Available
<1>22. ASSUME NEW s \in Service, NEW n \in 1..6, GiveBack(s, n) PROVE ControlInv'
  BY <1>t, <1>b, <1>22 DEF GiveBack, Available
<1>23. CASE UNCHANGED <<controlVars, serviceVars, backup>>
  BY <1>t, <1>23
<1>24. QED
  BY <1>1, <1>2, <1>3, <1>4, <1>5, <1>6, <1>7, <1>8, <1>9, <1>10, <1>11, <1>12, <1>13, <1>14, <1>15, <1>16, <1>17, <1>18, <1>19, <1>20, <1>21, <1>22, <1>23
     DEF Next, Starter, Closer, Backup, NewRelayed, Relayed, ShutRelayed, vars

ActsInv == ServingInv /\ SomebodyActs

\* No step leaves the controller waiting for nobody.
LEMMA ActsNext == IInv /\ [Next]_vars => ActsInv'
<1> SUFFICES ASSUME IInv, [Next]_vars PROVE ActsInv'
  OBVIOUS
<1> USE DEF IInv, ActsInv, ServingInv, OneHolds, ClosingInv, SomebodyActs, Begun, controlVars, serviceVars
<1>t. ControlTypeOK
  BY DEF TypeOK, ControlTypeOK
<1> USE DEF ControlTypeOK
<1>1. ASSUME NEW s \in Service, Start(s) PROVE ActsInv'
  BY <1>t, <1>1 DEF Start
<1>2. ASSUME UserStop PROVE ActsInv'
  BY <1>t, <1>2 DEF UserStop, Stop
<1>3. ASSUME NEW s \in Service, StopOwn(s) PROVE ActsInv'
  BY <1>t, <1>3 DEF StopOwn, Stop
<1>4. ASSUME NEW s \in Service, NEW n \in 1..6, Acquire(s, n) \/ GiveBack(s, n) PROVE ActsInv'
  BY <1>t, <1>4 DEF Acquire, GiveBack
<1>5. ASSUME NEW s \in Service, AcquireFails(s) PROVE ActsInv'
  BY <1>t, <1>5 DEF AcquireFails
<1>6. ASSUME NEW s \in Service, StartFails(s) PROVE ActsInv'
  BY <1>t, <1>6 DEF StartFails
<1>7. ASSUME NEW s \in Service, Started(s) PROVE ActsInv'
  BY <1>t, <1>7 DEF Started
<1>8. ASSUME NEW s \in Service, Done(s) \/ Report(s) PROVE ActsInv'
  BY <1>t, <1>8 DEF Done, Report
<1>9. ASSUME NEW s \in Service, Closer(s) PROVE ActsInv'
  BY <1>t, <1>9 DEF Closer, Go, CloseBegin, CloseHTTP, CloseTURN, CloseGenerator, GeneratorClosed,
                    CloseDatabase, Stopped
<1>10. ASSUME NEW s \in Service, ServeFails(s) PROVE ActsInv'
  BY <1>t, <1>10 DEF ServeFails
<1>11. CASE UNCHANGED <<controlVars, serviceVars>>
  BY <1>t, <1>11
<1>12. QED
  BY <1>1, <1>2, <1>3, <1>4, <1>5, <1>6, <1>7, <1>8, <1>9, <1>10, <1>11
     DEF Next, Starter, Backup, BackupAsked, BackupLive, BackupOffline, BackupDone,
         NewRelayed, Relayed, ShutRelayed, vars

\* Nobody is served before the last resource is there.
LEMMA StartingNext == IInv /\ [Next]_vars => StartingInv'
<1> SUFFICES ASSUME IInv, [Next]_vars, NEW s \in Service, Begun(s)'
             PROVE  /\ held[s]' # Everything => serving[s]' = "no"
                    /\ starter[s]' = "failing" => held[s]' # Everything
                    /\ serving[s]' = "no" => Of(s)' = {}
  BY DEF StartingInv
<1> USE DEF IInv, OneHolds, ClosingInv, StartingInv, Begun, controlVars, serviceVars
<1>t. TypeOK /\ RelayTypeOK
  BY DEF TypeOK
<1>1. CASE Start(s)
  BY <1>t, <1>1, FirstFacts DEF Start, TypeOK, relayVars, Of
<1>2. CASE ~Start(s)
  <2>1. Begun(s)
    BY <1>t, <1>2 DEF Next, Starter, Closer, Backup, vars, UserStop, Start, ServeFails, Acquire,
         AcquireFails, GiveBack, StartFails, Started, StopOwn, Stop, Done, Report, CloseBegin, CloseHTTP,
         CloseTURN, CloseGenerator, GeneratorClosed, CloseDatabase, Stopped, Go, BackupAsked,
         BackupLive, BackupOffline, BackupDone, NewRelayed, Relayed, ShutRelayed, TypeOK
  <2>2. /\ held[s]' # Everything => serving[s]' = "no"
        /\ starter[s]' = "failing" => held[s]' # Everything
    BY <1>t, <1>2, <2>1, FirstFacts DEF Next, Starter, Closer, Backup, vars, UserStop, Start, ServeFails, Acquire,
         AcquireFails, GiveBack, StartFails, Started, StopOwn, Stop, Done, Report, CloseBegin, CloseHTTP,
         CloseTURN, CloseGenerator, GeneratorClosed, CloseDatabase, Stopped, Go, BackupAsked,
         BackupLive, BackupOffline, BackupDone, NewRelayed, Relayed, ShutRelayed, TypeOK
  <2>3. ASSUME serving[s]' = "no" PROVE serving[s] = "no"
    BY <1>t, <1>2, <2>1, <2>3 DEF Next, Starter, Closer, Backup, vars, UserStop, Start, ServeFails, Acquire,
         AcquireFails, GiveBack, StartFails, Started, StopOwn, Stop, Done, Report, CloseBegin, CloseHTTP,
         CloseTURN, CloseGenerator, GeneratorClosed, CloseDatabase, Stopped, Go, BackupAsked,
         BackupLive, BackupOffline, BackupDone, NewRelayed, Relayed, ShutRelayed, TypeOK
  <2>4. ASSUME serving[s] = "no" PROVE Of(s)' = {}
    <3>1. \/ UNCHANGED packet
          \/ \E p \in Packet : RelayStep(p) \/ Shut(p) \/ \E t \in Service \ {s} : Allocate(p, t)
      BY <2>4 DEF Next, Starter, Closer, Backup, vars, UserStop, Start, ServeFails, Acquire,
         AcquireFails, GiveBack, StartFails, Started, StopOwn, Stop, Done, Report, CloseBegin, CloseHTTP,
         CloseTURN, CloseGenerator, GeneratorClosed, CloseDatabase, Stopped, Go, BackupAsked,
         BackupLive, BackupOffline, BackupDone, NewRelayed, Relayed, ShutRelayed,
         NewRelay, CloseRelay, relayVars
    <3>2. QED
      BY <1>t, <2>1, <2>4, <3>1, OfStays
  <2>5. QED
    BY <2>2, <2>3, <2>4
<1>3. QED
  BY <1>1, <1>2

\* What was released stays released until it is acquired again.
LEMMA NoRelayNext == IInv /\ [Next]_vars => NoRelayLeft'
<1> SUFFICES ASSUME IInv, [Next]_vars, NEW s \in Service,
                    ("relay" \notin held[s] \/ closer[s] \in {"db", "report"})'
             PROVE  RelayIsClosed(s)'
  BY DEF NoRelayLeft
<1> USE DEF IInv, OneHolds, ClosingInv, StartingInv, Begun, controlVars, serviceVars
<1>t. TypeOK /\ RelayTypeOK
  BY DEF TypeOK
<1>1. ~(\E n \in 1..6 : Acquire(s, n) /\ Resources[n] = "relay")
  BY <1>t, FirstFacts DEF Acquire, TypeOK
<1>2. CASE RelayIsClosed(s)
  <2>1. ASSUME NewRelay(s) PROVE FALSE
    <3>1. s \in closed /\ s \notin closed'
      BY <2>1 DEF NewRelay
    <3>2. \E t \in Service, n \in 1..6 : Acquire(t, n) /\ Resources[n] = "relay" /\ NewRelay(t)
      BY <3>1, ZenonT(40) DEF Next, Starter, Closer, Backup, vars, UserStop, Start, ServeFails, Acquire,
         AcquireFails, GiveBack, StartFails, Started, StopOwn, Stop, Done, Report, CloseBegin, CloseHTTP,
         CloseTURN, CloseGenerator, GeneratorClosed, CloseDatabase, Stopped, Go, BackupAsked,
         BackupLive, BackupOffline, BackupDone, NewRelayed, Relayed, ShutRelayed, relayVars, CloseRelay,
         Allocate, Shut, RelayStep, NotAllocated, TakeSlot, Bind, BindFails, Enter, TooLate, Delete, Free
    <3>3. QED
      BY <1>1, <3>1, <3>2 DEF NewRelay
  <2>2. QED
    BY <1>2, <2>1, RelaysStep, ClosedStays DEF relayVars, RelayIsClosed, InCalls, Of
<1>3. CASE ~RelayIsClosed(s)
  <2>1. "relay" \in held[s] /\ closer[s] \notin {"db", "report"}
    BY <1>3 DEF NoRelayLeft
  <2>2. \/ GeneratorClosed(s)
        \/ \E n \in 1..6 : GiveBack(s, n) /\ Resources[n] = "relay"
    BY <1>t, <2>1, FirstFacts DEF Next, Starter, Closer, Backup, vars, UserStop, Start, ServeFails, Acquire,
         AcquireFails, GiveBack, StartFails, Started, StopOwn, Stop, Done, Report, CloseBegin, CloseHTTP,
         CloseTURN, CloseGenerator, GeneratorClosed, CloseDatabase, Stopped, Go, BackupAsked,
         BackupLive, BackupOffline, BackupDone, NewRelayed, Relayed, ShutRelayed, TypeOK, Everything
  <2>3. CASE GeneratorClosed(s)
    BY <2>3, <1>3 DEF GeneratorClosed
  <2>4. ASSUME NEW n \in 1..6, GiveBack(s, n), Resources[n] = "relay" PROVE RelayIsClosed(s)'
    <3>1. Of(s) = {} /\ CloseRelay(s)
      BY <2>4 DEF GiveBack
    <3>2. QED
      BY <1>t, <3>1 DEF CloseRelay, RelayIsClosed, RelayTypeOK, Table, InCalls, Of
  <2>5. QED
    BY <2>2, <2>3, <2>4
<1>4. QED
  BY <1>2, <1>3

\* Each step keeps the invariant.
LEMMA NextIInv == IInv /\ [Next]_vars => IInv'
<1> SUFFICES ASSUME IInv, [Next]_vars PROVE IInv'
  OBVIOUS
<1>1. RelayInv'
  BY RelaysStep, RelayNextInv DEF IInv
<1>2. ControlInv' /\ StartingInv' /\ NoRelayLeft'
  BY ControlNext, StartingNext, NoRelayNext
<1>3. ServingInv' /\ SomebodyActs'
  BY ActsNext DEF ActsInv
<1>4. TypeOK'
  BY <1>1, <1>2 DEF TypeOK, ControlInv, ControlTypeOK, RelayInv
<1>5. QED
  BY <1>1, <1>2, <1>3, <1>4 DEF IInv, ControlInv

\* The invariant holds in every reachable state.
THEOREM ServerInvariant == Spec => []IInv
BY InitIInv, NextIInv, PTL DEF Spec

\* Every value is of its type.
THEOREM TypeCorrect == Spec => []TypeOK
<1>1. IInv => TypeOK
  BY DEF IInv
<1>2. QED
  BY <1>1, ServerInvariant, PTL

\* "stopped" means that nothing is held and no relay has a socket.
THEOREM NothingLeft == Spec => []StoppedIsFree
<1>1. IInv => StoppedIsFree
  <2> SUFFICES ASSUME IInv, phase = "stopped", NEW s \in Service PROVE held[s] = {} /\ Sockets(s) = {}
    BY DEF StoppedIsFree
  <2>1. held[s] = {}
    BY DEF IInv, OneHolds, Begun, TypeOK
  <2>2. RelayIsClosed(s)
    BY <2>1 DEF IInv, NoRelayLeft
  <2>3. QED
    BY <2>1, <2>2, EmptyWhenClosed DEF IInv, ClosedRelayIsEmpty
<1>2. QED
  BY <1>1, ServerInvariant, PTL

\* "running" means that the active service has everything.
THEOREM RunningHasAll == Spec => []RunningIsWhole
<1>1. IInv => RunningIsWhole
  BY DEF IInv, TypeOK, OneHolds, ClosingInv, RunningIsWhole
<1>2. QED
  BY <1>1, ServerInvariant, PTL

\* A start, a stop and a service that fails by itself always have the goroutine
\* that takes them further: the safety half of StopIsObeyed and FailureIsNoticed.
THEOREM SomebodyAlwaysActs == Spec => []SomebodyActs
<1>1. IInv => SomebodyActs
  BY DEF IInv
<1>2. QED
  BY <1>1, ServerInvariant, PTL

\* No backup reads a database that is closed or another's.
THEOREM BackupIsOfOpen == Spec => []BackupReadsOpen
<1>1. IInv => BackupReadsOpen
  BY DEF IInv, TypeOK, Backups, BackupInv, ClosingInv, BackupReadsOpen, Everything, First, Resources
<1>2. QED
  BY <1>1, ServerInvariant, PTL

\* The relays keep their promises in the server.
THEOREM ServerRelays == Spec => RelaySpec
<1>1. Init => RelayInit
  BY DEF Init
<1>2. QED
  BY <1>1, RelaysStep, PTL DEF Spec, RelaySpec

=============================================================================
