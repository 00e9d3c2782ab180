---------------------------- MODULE EngineProofs ----------------------------
(***************************************************************************)
(* For any sessions, any number of peers and any settings: Reconnect is    *)
(* heard but for one moment, the table of peers keeps its limit although   *)
(* newPeer looks long before it enters, and only a peer that was being     *)
(* built outlives the settings it was built with.                          *)
(***************************************************************************)
EXTENDS Engine, FiniteSetTheorems, TLAPS

\* Every step keeps the state well-typed.
LEMMA TypeStep == EngineTypeOK /\ [EngineNext]_engineVars => EngineTypeOK'
<1> SUFFICES ASSUME EngineTypeOK, [EngineNext]_engineVars PROVE EngineTypeOK'
  OBVIOUS
<1> USE DEF EngineTypeOK, attemptVars, linkVars, uiVars, tableVars, attachVars, live
<1>1. CASE UNCHANGED engineVars
  BY <1>1 DEF engineVars
<1>2. CASE LoopTop \/ ReadGeneration \/ Dial \/ Register \/ Drop \/ Leave
  <2>1. CASE LoopTop
    <3>1. server' \in Server \cup {NoServer}
      BY <2>1, EngineAssumption DEF LoopTop
    <3>2. overlooked' \in BOOLEAN
      BY <2>1, Zenon DEF LoopTop
    <3>3. loop' \in {"ended", "read"} /\ UNCHANGED <<moved, conn, uiVars, tableVars, attachVars>>
      BY <2>1 DEF LoopTop
    <3> QED
      BY <3>1, <3>2, <3>3
  <2>2. CASE Dial
    BY <2>2 DEF Dial, GiveUp, Forget
  <2>3. CASE ReadGeneration
    BY <2>3 DEF ReadGeneration
  <2>4. CASE Drop
    BY <2>4 DEF Drop
  <2>5. CASE Register
    BY <2>5 DEF Register, GiveUp, Forget
  <2>6. CASE Leave
    BY <2>6 DEF Leave, Forget
  <2> QED
    BY <1>2, <2>1, <2>2, <2>3, <2>4, <2>5, <2>6
<1>3. CASE Announced \/ NewPeerFails
  BY <1>3 DEF Announced, NewPeerFails
<1>4. ASSUME NEW s \in Sid, NewPeer(s) PROVE EngineTypeOK'
  BY <1>4 DEF NewPeer
<1>5. ASSUME NEW t \in {UI, Run}, Snapshot(t) PROVE EngineTypeOK'
  BY <1>5 DEF Snapshot
<1>6. ASSUME NEW t \in {UI, Run}, CloseNext(t) PROVE EngineTypeOK'
  BY <1>6 DEF CloseNext, ClosePeers
<1>7. ASSUME NEW t \in {UI, Run}, Kicked(t) PROVE EngineTypeOK'
  BY <1>7 DEF Kicked, KickAll, HangUp
<1>8. ASSUME NEW v \in 0..MaxVersion, Save(v) PROVE EngineTypeOK'
  <2>1. renew' \in BOOLEAN /\ settings' \in 0..MaxVersion /\ ui' = "saved"
    BY <1>8 DEF Save, NewSettings
  <2>2. peer' = peer /\ hangup' = hangup /\ toClose' = toClose
    BY <1>8 DEF Save
  <2>3. behind' \in SUBSET (live' \cup {Run}) /\ hangup' \in SUBSET live' /\ late' \in SUBSET Sid
    BY <1>8, <2>2 DEF Save, NewSettings
  <2>4. UNCHANGED <<linkVars, cancelled, cutting, toClose, peer, attachVars>>
    BY <1>8 DEF Save
  <2>5. /\ settings' \in 0..MaxVersion
        /\ server' \in Server \cup {NoServer} /\ overlooked' \in BOOLEAN
        /\ cancelled' \in BOOLEAN /\ moved' \in BOOLEAN
        /\ renew' \in BOOLEAN /\ cutting' \in BOOLEAN
    BY <2>1, <2>4
  <2>6. /\ conn' \in {"none", "open", "closed"}
        /\ loop' \in {"idle", "read", "dial", "hello", "online", "built", "left", "kick", "ended"}
        /\ ui' \in {"idle", "saved", "kick", "bump", "cut", "host", "closed"}
    BY <2>1, <2>4
  <2>7. /\ toClose' \in [{UI, Run} -> SUBSET Sid]
        /\ peer' \in [Sid -> {"none", "live", "closing", "seen", "unseen", "detached", "gone"}]
        /\ client' \in SUBSET Sid /\ hub' \in SUBSET Sid
        /\ handling' \in [Sid -> {"idle", "looked", "attached"}]
    BY <2>4
  <2> QED
    BY <2>3, <2>5, <2>6, <2>7, Zenon
<1>9. CASE Reconnect \/ Cut \/ Close
  <2>1. CASE Reconnect
    BY <2>1 DEF Reconnect
  <2>2. CASE Cut
    BY <2>2 DEF Cut
  <2>3. CASE Close
    BY <2>3 DEF Close
  <2> QED
    BY <1>9, <2>1, <2>2, <2>3
<1>10. CASE CloseHost
  BY <1>10 DEF CloseHost, KickAll, HangUp
<1>11. ASSUME NEW s \in Sid, PeerClose(s) PROVE EngineTypeOK'
  BY <1>11 DEF PeerClose, ClosePeers
<1>12. ASSUME NEW s \in Sid, PeerStep(s) PROVE EngineTypeOK'
  BY <1>12 DEF PeerStep, Look, Detach, Remove
<1>13. ASSUME NEW s \in Sid, HandleLook(s) \/ Handle(s) \/ Pump(s) PROVE EngineTypeOK'
  BY <1>13 DEF HandleLook, Handle, HandleAttach, HandleSet, Pump, HangUp
<1> QED
  BY <1>1, <1>2, <1>3, <1>4, <1>5, <1>6, <1>7, <1>8, <1>9, <1>10, <1>11, <1>12, <1>13
     DEF EngineNext, RunStep, UIStep

\* Every state is well-typed.
THEOREM TypeCorrect == EngineSpec => []EngineTypeOK
<1>1. EngineInit => EngineTypeOK
  BY DEF EngineInit, EngineTypeOK, live
<1> QED
  BY <1>1, TypeStep, PTL DEF EngineSpec

-----------------------------------------------------------------------------
\* An attempt by a server that is not that of the settings: the generation has
\* moved, or the thread that saved the settings has still to raise it, or it was
\* raised too early for run; or the engine is being closed.
StaleHeard ==
  /\ moved /\ conn = "open" => ui = "cut" /\ cutting
  /\ loop \notin {"online", "built"} => conn = "none"
  /\ cutting => conn # "none"
  /\ cancelled => ui # "idle"
  /\ server # ServerOf[settings] /\ loop \in {"read", "dial", "hello", "online", "built"} =>
       \/ overlooked \/ cancelled
       \/ moved /\ loop # "read"
       \/ renew /\ ui \in {"saved", "kick", "bump"}

\* A connection in use has the present generation, or is about to be closed; and
\* it is to the present server, unless Reconnect came before run read the
\* generation and after loop had read the settings.
THEOREM ReconnectIsHeard == EngineSpec => []GenerationHeard
<1>1. EngineInit => StaleHeard
  BY DEF EngineInit, StaleHeard
<1>2. ASSUME EngineTypeOK, StaleHeard, [EngineNext]_engineVars PROVE StaleHeard'
  <2> USE DEF StaleHeard, EngineTypeOK, attemptVars, linkVars, uiVars, tableVars
  <2>1. CASE UNCHANGED engineVars
    BY <1>2, <2>1 DEF engineVars
  <2>2. CASE LoopTop \/ ReadGeneration \/ Dial \/ Register \/ Leave \/ Drop
    BY <1>2, <2>2 DEF LoopTop, ReadGeneration, Dial, Register, Leave, GiveUp, Forget, Drop
  <2>3. CASE Announced \/ NewPeerFails \/ \E s \in Sid : NewPeer(s)
    BY <1>2, <2>3 DEF Announced, NewPeerFails, NewPeer
  <2>4. ASSUME NEW t \in {UI, Run}, Snapshot(t) \/ CloseNext(t) \/ Kicked(t) PROVE StaleHeard'
    BY <1>2, <2>4 DEF Snapshot, CloseNext, Kicked, Kicking
  <2>5. CASE Reconnect
    <3>1. loop = "read" => overlooked'
      BY <2>5 DEF Reconnect
    <3>2. overlooked => overlooked'
      BY <2>5 DEF Reconnect
    <3>3. cutting' = (conn # "none") /\ (loop \in {"dial", "hello", "online", "built"} => moved')
      BY <2>5 DEF Reconnect
    <3>4. ui' = "cut" /\ UNCHANGED <<server, conn, loop, settings, cancelled, renew>>
      BY <2>5 DEF Reconnect
    <3> QED
      BY <1>2, <3>1, <3>2, <3>3, <3>4
  <2>6. CASE Cut
    BY <1>2, <2>6 DEF Cut
  <2>7. CASE Close \/ CloseHost
    BY <1>2, <2>7 DEF Close, CloseHost
  <2>8. ASSUME NEW v \in 0..MaxVersion, Save(v) PROVE StaleHeard'
    BY <1>2, <2>8 DEF Save, NewSettings
  <2>9. ASSUME NEW s \in Sid, PeerClose(s) \/ PeerStep(s) \/ HandleLook(s) \/ Handle(s) \/ Pump(s)
        PROVE  StaleHeard'
    BY <1>2, <2>9 DEF PeerClose, PeerStep, Look, Detach, Remove, HandleLook, Handle, HandleAttach,
       HandleSet, Pump, HangUp
  <2> QED
    BY <1>2, <2>1, <2>2, <2>3, <2>4, <2>5, <2>6, <2>7, <2>8, <2>9 DEF EngineNext, RunStep, UIStep
<1>3. StaleHeard => GenerationHeard
  BY DEF StaleHeard, GenerationHeard, ServerIsPresent
<1> QED
  BY <1>1, <1>2, <1>3, TypeCorrect, PTL DEF EngineSpec

-----------------------------------------------------------------------------
\* While newPeer builds a connection there is room for it, because nobody else
\* enters peers.
RoomKept ==
  /\ IsFiniteSet(table) /\ Cardinality(table) <= MaxPeers
  /\ loop = "built" => Cardinality(table) < MaxPeers

\* The table changes by one peer that newPeer enters, or takes one out.
TableChange ==
  \/ \E s \in Sid : loop = "built" /\ loop' = "online" /\ table' = table \cup {s}
  \/ /\ table' \in SUBSET table
     /\ loop' = "built" => loop = "built" \/ (Announced /\ table' = table)

\* Every step is such a change: only NewPeer enters peers, and only when built.
LEMMA TableStep == EngineTypeOK /\ [EngineNext]_engineVars => TableChange
<1> SUFFICES ASSUME EngineTypeOK, [EngineNext]_engineVars PROVE TableChange
  OBVIOUS
<1> USE DEF TableChange, EngineTypeOK, attemptVars, linkVars, uiVars, tableVars, attachVars, table, live
<1>1. CASE UNCHANGED engineVars
  BY <1>1 DEF engineVars
<1>2. CASE LoopTop \/ ReadGeneration \/ Dial \/ Register \/ Leave \/ Drop
  BY <1>2 DEF LoopTop, ReadGeneration, Dial, Register, Leave, GiveUp, Forget, Drop
<1>3. CASE Announced \/ NewPeerFails
  BY <1>3 DEF Announced, NewPeerFails
<1>4. ASSUME NEW s \in Sid, NewPeer(s)
      PROVE  TableChange
  BY <1>4 DEF NewPeer
<1>5. ASSUME NEW t \in {UI, Run}, Snapshot(t) \/ CloseNext(t) \/ Kicked(t)
      PROVE  TableChange
  BY <1>5 DEF Snapshot, CloseNext, ClosePeers, Kicked, Kicking
<1>6. CASE Reconnect \/ Cut \/ Close \/ CloseHost
  BY <1>6 DEF Reconnect, Cut, Close, CloseHost
<1>7. ASSUME NEW v \in 0..MaxVersion, Save(v) PROVE TableChange
  BY <1>7 DEF Save
<1>8. ASSUME NEW s \in Sid, PeerClose(s) \/ PeerStep(s)
      PROVE  TableChange
  <2>1. CASE PeerClose(s)
    BY <2>1 DEF PeerClose, ClosePeers
  <2>2. CASE Look(s)
    BY <2>2 DEF Look
  <2>3. CASE Detach(s)
    BY <2>3 DEF Detach
  <2>4. CASE Remove(s)
    BY <2>4 DEF Remove
  <2> QED
    BY <1>8, <2>1, <2>2, <2>3, <2>4 DEF PeerStep
<1>9. ASSUME NEW s \in Sid, HandleLook(s) \/ Handle(s) \/ Pump(s)
      PROVE  TableChange
  BY <1>9 DEF HandleLook, Handle, HandleAttach, HandleSet, Pump, HangUp
<1> HIDE DEF TableChange, EngineTypeOK, table, live
<1> QED
  BY <1>1, <1>2, <1>3, <1>4, <1>5, <1>6, <1>7, <1>8, <1>9 DEF EngineNext, RunStep, UIStep

\* The table never holds more than MaxPeers peers, for any number of sessions.
THEOREM TableIsBounded == EngineSpec => []PeersBounded
<1>1. EngineInit => RoomKept
  <2> SUFFICES ASSUME EngineInit PROVE RoomKept
    OBVIOUS
  <2>1. table = {}
    BY DEF EngineInit, table
  <2> QED
    BY <2>1, FS_EmptySet, EngineAssumption DEF EngineInit, RoomKept
<1>2. ASSUME EngineTypeOK, RoomKept, [EngineNext]_engineVars PROVE RoomKept'
  <2>1. IsFiniteSet(table) /\ Cardinality(table) \in Nat /\ MaxPeers \in Nat
    BY <1>2, FS_CardinalityType, EngineAssumption DEF RoomKept
  <2>2. ASSUME NEW s \in Sid, loop = "built", loop' = "online", table' = table \cup {s} PROVE RoomKept'
    <3>1. IsFiniteSet(table') /\ Cardinality(table') \in Nat /\ Cardinality(table') <= Cardinality(table) + 1
      BY <2>1, <2>2, FS_AddElement
    <3>2. Cardinality(table) < MaxPeers
      BY <1>2, <2>2 DEF RoomKept
    <3>3. Cardinality(table') <= MaxPeers
      BY <2>1, <3>1, <3>2
    <3> QED
      BY <2>2, <3>1, <3>3 DEF RoomKept
  <2>3. ASSUME table' \in SUBSET table, loop' = "built" => loop = "built" \/ (Announced /\ table' = table)
        PROVE  RoomKept'
    <3>1. IsFiniteSet(table') /\ Cardinality(table') \in Nat /\ Cardinality(table') <= Cardinality(table)
      BY <2>1, <2>3, FS_Subset, FS_CardinalityType
    <3>2. Cardinality(table') <= MaxPeers
      BY <1>2, <2>1, <3>1 DEF RoomKept
    <3>3. Announced => Cardinality(table) < MaxPeers
      BY DEF Announced
    <3>4. loop' = "built" => Cardinality(table) < MaxPeers
      BY <1>2, <2>3, <3>3 DEF RoomKept
    <3>5. loop' = "built" => Cardinality(table') < MaxPeers
      BY <2>1, <3>1, <3>4
    <3> QED
      BY <3>1, <3>2, <3>5 DEF RoomKept
  <2> QED
    BY <1>2, <2>2, <2>3, TableStep DEF TableChange
<1>3. RoomKept => PeersBounded
  BY DEF RoomKept, PeersBounded
<1> QED
  BY <1>1, <1>2, <1>3, TypeCorrect, PTL DEF EngineSpec

-----------------------------------------------------------------------------
\* Between Save and the end of DisconnectAll the peers of older settings are
\* those DisconnectAll has still to close, and those newPeer entered meanwhile.
LateOnly ==
  /\ ui \notin {"saved", "kick"} => behind \subseteq late \cup {Run}
  /\ ui = "kick" => behind \subseteq late \cup {Run} \cup toClose[UI]

\* Once settings are saved, a peer of older ones is one that newPeer was building.
THEOREM OnlyLateRemain == EngineSpec => []OnlyLateStay
<1>1. EngineInit => LateOnly
  BY DEF EngineInit, LateOnly
<1>2. ASSUME EngineTypeOK, LateOnly, [EngineNext]_engineVars PROVE LateOnly'
  <2> USE DEF LateOnly, attemptVars, linkVars, uiVars, tableVars
  <2>1. CASE UNCHANGED engineVars
    BY <1>2, <2>1 DEF engineVars
  <2>2. CASE LoopTop \/ ReadGeneration \/ Dial \/ Register \/ Leave \/ Drop
    BY <1>2, <2>2 DEF LoopTop, ReadGeneration, Dial, Register, Leave, GiveUp, Forget, Drop
  <2>3. CASE Announced \/ NewPeerFails
    BY <1>2, <2>3 DEF Announced, NewPeerFails
  <2>4. ASSUME NEW s \in Sid, NewPeer(s) PROVE LateOnly'
    BY <1>2, <2>4 DEF NewPeer
  <2>5. CASE Snapshot(UI)
    BY <1>2, <2>5 DEF Snapshot, EngineTypeOK
  <2>6. CASE Snapshot(Run)
    BY <1>2, <2>6, EngineAssumption DEF Snapshot, EngineTypeOK
  <2>7. ASSUME NEW t \in {UI, Run}, CloseNext(t) PROVE LateOnly'
    BY <1>2, <2>7, EngineAssumption DEF CloseNext, ClosePeers, EngineTypeOK
  <2>8. CASE Kicked(UI)
    BY <1>2, <2>8 DEF Kicked, Kicking, KickAll, HangUp
  <2>9. CASE Kicked(Run)
    BY <1>2, <2>9, EngineAssumption DEF Kicked, KickAll, HangUp
  <2>10. CASE Reconnect \/ Cut \/ Close \/ CloseHost
    BY <1>2, <2>10 DEF Reconnect, Cut, Close, CloseHost, KickAll, HangUp
  <2>11. ASSUME NEW v \in 0..MaxVersion, Save(v) PROVE LateOnly'
    BY <1>2, <2>11 DEF Save
  <2>12. ASSUME NEW s \in Sid, PeerClose(s) PROVE LateOnly'
    BY <1>2, <2>12 DEF PeerClose, ClosePeers
  <2>13. ASSUME NEW s \in Sid, PeerStep(s) \/ HandleLook(s) \/ Handle(s) \/ Pump(s) PROVE LateOnly'
    BY <1>2, <2>13 DEF PeerStep, Look, Detach, Remove, HandleLook, Handle, HandleAttach, HandleSet, Pump, HangUp
  <2> QED
    BY <1>2, <2>1, <2>2, <2>3, <2>4, <2>5, <2>6, <2>7, <2>8, <2>9, <2>10, <2>11, <2>12, <2>13
       DEF EngineNext, RunStep, UIStep
<1>3. LateOnly => OnlyLateStay
  BY DEF LateOnly, OnlyLateStay
<1> QED
  BY <1>1, <1>2, <1>3, TypeCorrect, PTL DEF EngineSpec

-----------------------------------------------------------------------------
\* DisconnectAll of run has still to close what is live.
OutliveInv ==
  /\ loop \in {"idle", "read", "dial", "hello", "ended"} => live = {}
  /\ loop = "kick" => live \subseteq toClose[Run]

\* Once Close has raised the generation nothing registers, and it has still to
\* close the connection it found.
CancelInv ==
  cancelled => /\ ui # "idle"
               /\ ui # "bump" => /\ loop = "hello" => moved
                                 /\ conn = "open" => ui = "cut" /\ cutting

\* Who gets live and who does not: a step of run from "built" enters one peer,
\* nothing else makes one live.
LiveChange ==
  \/ loop = "built" /\ loop' = "online"
  \/ live' \subseteq live /\ loop' = loop

\* Every step but those of run itself is such a change.
LEMMA LiveStep ==
  ASSUME EngineTypeOK, [EngineNext]_engineVars
  PROVE  \/ LiveChange
         \/ LoopTop \/ ReadGeneration \/ Dial \/ Register \/ Leave \/ Announced
         \/ Snapshot(Run) \/ CloseNext(Run) \/ Kicked(Run)
<1> USE DEF LiveChange, live, EngineTypeOK, attemptVars, linkVars, uiVars, tableVars
<1>1. CASE UNCHANGED engineVars
  BY <1>1 DEF engineVars
<1>2. CASE Drop \/ NewPeerFails \/ \E s \in Sid : NewPeer(s)
  BY <1>2 DEF Drop, NewPeerFails, NewPeer
<1>3. CASE Snapshot(UI) \/ CloseNext(UI) \/ Kicked(UI)
  BY <1>3 DEF Snapshot, CloseNext, ClosePeers, Kicked
<1>4. CASE Reconnect \/ Cut \/ Close \/ CloseHost \/ \E v \in 0..MaxVersion : Save(v)
  BY <1>4 DEF Reconnect, Cut, Close, CloseHost, Save
<1>5. ASSUME NEW s \in Sid, PeerClose(s) \/ PeerStep(s) \/ HandleLook(s) \/ Handle(s) \/ Pump(s)
      PROVE  LiveChange
  BY <1>5 DEF PeerClose, ClosePeers, PeerStep, Look, Detach, Remove, HandleLook, Handle,
              HandleAttach, HandleSet, Pump
<1> HIDE DEF LiveChange, live, EngineTypeOK
<1> QED
  BY <1>1, <1>2, <1>3, <1>4, <1>5 DEF EngineNext, RunStep, UIStep

\* No step leaves a peer behind that DisconnectAll of run will not close.
LEMMA OutliveNext ==
  ASSUME EngineTypeOK, OutliveInv, [EngineNext]_engineVars PROVE OutliveInv'
<1> USE DEF OutliveInv
<1>1. toClose'[Run] = toClose[Run] \/ Snapshot(Run) \/ CloseNext(Run)
  BY EngineAssumption DEF EngineTypeOK, engineVars, uiVars, tableVars, EngineNext, RunStep, UIStep, LoopTop, ReadGeneration, Dial, Register, Leave, GiveUp, Forget,
     Announced, NewPeer, NewPeerFails, Drop, Snapshot, CloseNext, Kicked, Reconnect, Cut, Close,
     CloseHost, Save, PeerClose, PeerStep, Look, Detach, Remove, HandleLook, Handle, HandleAttach,
     HandleSet, Pump
<1>2. CASE LiveChange /\ ~Snapshot(Run) /\ ~CloseNext(Run)
  BY <1>1, <1>2 DEF LiveChange
<1>3. CASE LoopTop \/ ReadGeneration \/ Dial \/ Register
  BY <1>3 DEF LoopTop, ReadGeneration, Dial, Register, tableVars, live
<1>4. CASE Leave \/ Announced
  BY <1>4 DEF Leave, Announced
<1>5. CASE Snapshot(Run)
  BY <1>5, EngineAssumption DEF Snapshot, EngineTypeOK, live
<1>6. CASE CloseNext(Run)
  <2>1. loop = "kick" /\ loop' = "kick"
    BY <1>6, EngineAssumption DEF CloseNext, Kicking, linkVars
  <2>2. PICK s \in toClose[Run] : toClose' = [toClose EXCEPT ![Run] = @ \ {s}] /\ ClosePeers({s})
    BY <1>6 DEF CloseNext
  <2>3. toClose'[Run] = toClose[Run] \ {s} /\ s \notin live' /\ live' \subseteq live
    BY <2>2 DEF EngineTypeOK, ClosePeers, live
  <2> QED
    BY <2>1, <2>3
<1>7. CASE Kicked(Run)
  <2>1. live = {} /\ live' = live /\ loop' = "idle"
    BY <1>7, EngineAssumption DEF Kicked, Kicking, live
  <2> QED
    BY <2>1
<1> QED
  BY <1>2, <1>3, <1>4, <1>5, <1>6, <1>7, LiveStep

\* Nothing registers once the generation is raised for good.
LEMMA CancelNext ==
  ASSUME EngineTypeOK, CancelInv, [EngineNext]_engineVars PROVE CancelInv'
<1> USE DEF CancelInv, EngineTypeOK, attemptVars, linkVars, uiVars, tableVars
<1>1. CASE UNCHANGED engineVars
  BY <1>1 DEF engineVars
<1>2. CASE LoopTop \/ ReadGeneration \/ Dial \/ Register \/ Leave \/ Drop
  BY <1>2 DEF LoopTop, ReadGeneration, Dial, Register, Leave, GiveUp, Forget, Drop
<1>3. CASE Announced \/ NewPeerFails \/ \E s \in Sid : NewPeer(s)
  BY <1>3 DEF Announced, NewPeerFails, NewPeer
<1>4. ASSUME NEW t \in {UI, Run}, Snapshot(t) \/ CloseNext(t) \/ Kicked(t) PROVE CancelInv'
  BY <1>4 DEF Snapshot, CloseNext, Kicked, Kicking
<1>5. CASE Reconnect \/ Cut
  BY <1>5 DEF Reconnect, Cut
<1>6. CASE Close \/ CloseHost \/ \E v \in 0..MaxVersion : Save(v)
  BY <1>6 DEF Close, CloseHost, Save
<1>7. ASSUME NEW s \in Sid, PeerClose(s) \/ PeerStep(s) \/ HandleLook(s) \/ Handle(s) \/ Pump(s)
      PROVE  CancelInv'
  BY <1>7 DEF PeerClose, PeerStep, Look, Detach, Remove, HandleLook, Handle, HandleAttach,
     HandleSet, Pump, HangUp
<1> QED
  BY <1>1, <1>2, <1>3, <1>4, <1>5, <1>6, <1>7 DEF EngineNext, RunStep, UIStep

\* Who has been attached, or is, and is live, is in the hub or about to go;
\* a session that has no peer yet has no client either.
ServedInv ==
  \A s \in Sid :
    /\ peer[s] = "none" => s \notin client /\ handling[s] = "idle"
    /\ s \in live /\ (s \in client \/ handling[s] = "attached") => s \in hub \cup hangup

\* Whoever takes a client out of the hub has its peer closed.
LEMMA ServedNext ==
  ASSUME EngineTypeOK, ServedInv, [EngineNext]_engineVars PROVE ServedInv'
<1> USE DEF ServedInv, EngineTypeOK, attemptVars, linkVars, uiVars, tableVars, attachVars, live
<1>1. CASE UNCHANGED engineVars
  BY <1>1 DEF engineVars
<1>2. CASE LoopTop \/ ReadGeneration \/ Dial \/ Register \/ Leave \/ Drop
  BY <1>2 DEF LoopTop, ReadGeneration, Dial, Register, Leave, GiveUp, Forget, Drop
<1>3. CASE Announced \/ NewPeerFails
  BY <1>3 DEF Announced, NewPeerFails
<1>4. ASSUME NEW s \in Sid, NewPeer(s) PROVE ServedInv'
  BY <1>4 DEF NewPeer
<1>5. ASSUME NEW t \in {UI, Run}, Snapshot(t) \/ Kicked(t) PROVE ServedInv'
  BY <1>5 DEF Snapshot, Kicked, KickAll, HangUp
<1>6. ASSUME NEW t \in {UI, Run}, CloseNext(t) PROVE ServedInv'
  BY <1>6 DEF CloseNext, ClosePeers
<1>7. CASE Reconnect \/ Cut \/ Close \/ CloseHost
  BY <1>7 DEF Reconnect, Cut, Close, CloseHost, KickAll, HangUp
<1>8. ASSUME NEW v \in 0..MaxVersion, Save(v) PROVE ServedInv'
  BY <1>8 DEF Save
<1>9. ASSUME NEW s \in Sid, PeerClose(s) PROVE ServedInv'
  BY <1>9 DEF PeerClose, ClosePeers
<1>10. ASSUME NEW s \in Sid, PeerStep(s) PROVE ServedInv'
  BY <1>10 DEF PeerStep, Look, Detach, Remove
<1>11. ASSUME NEW s \in Sid, HandleLook(s) \/ Handle(s) \/ Pump(s) PROVE ServedInv'
  BY <1>11 DEF HandleLook, Handle, HandleAttach, HandleSet, Pump, HangUp
<1> QED
  BY <1>1, <1>2, <1>3, <1>4, <1>5, <1>6, <1>7, <1>8, <1>9, <1>10, <1>11 DEF EngineNext, RunStep, UIStep

\* No peer outlives the connection to the server that announced it or its client in
\* the hub, and no connection is open once Close has cut the one there was.
THEOREM NobodyOutlives == EngineSpec => []NoneOutlives
<1>1. EngineInit => OutliveInv /\ CancelInv /\ ServedInv
  BY DEF EngineInit, OutliveInv, CancelInv, ServedInv, live
<1>2. EngineTypeOK /\ OutliveInv /\ CancelInv /\ ServedInv => NoneOutlives
  BY DEF EngineTypeOK, OutliveInv, CancelInv, ServedInv, NoneOutlives, ServedOrClosing
<1> QED
  BY <1>1, <1>2, OutliveNext, CancelNext, ServedNext, TypeCorrect, PTL DEF EngineSpec

=============================================================================
