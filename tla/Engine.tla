------------------------------- MODULE Engine -------------------------------
(***************************************************************************)
(* The client engine of app/engine: one goroutine (loop) keeps the         *)
(* connection to the signalling server and builds the peers the server     *)
(* announces; the window's thread saves settings and closes the engine;    *)
(* each peer has a goroutine that takes it down, and callbacks that attach *)
(* it to the desktop hub, whose writePump lets go of a dead transport.     *)
(*                                                                         *)
(* Settings are versions that only grow; ServerOf says which server (and   *)
(* which certificate for it) a version names.  A generation is only ever   *)
(* compared with the one run read, so `moved' stands for "they differ";    *)
(* and of the settings a peer was built with it only matters whether they  *)
(* are older than the present ones (`behind').  Close of a closed peer,    *)
(* which does nothing, is left out.                                        *)
(***************************************************************************)
EXTENDS Naturals, FiniteSets

CONSTANTS Sid,        \* the sessions the server announces, each one once
          MaxPeers,   \* 16 in the code
          MaxVersion, \* bounds the settings that are saved
          Server, ServerOf, NoServer,
          UI, Run     \* the threads that call DisconnectAll

ASSUME EngineAssumption ==
  /\ MaxPeers \in Nat \ {0} /\ MaxVersion \in Nat
  /\ NoServer \notin Server
  /\ ServerOf \in [0..MaxVersion -> Server \cup {NoServer}]
  /\ UI # Run

VARIABLES
  settings,   \* state.Settings
  cancelled,  \* ctx
  moved,      \* the generation is not the one run read, while it runs
  server,     \* of the settings loop read last: run dials it, and uses no more of them
  overlooked, \* a ghost: Reconnect came behind that, and before run read the generation
  conn,       \* run's socket, while it is e.conn: "none", "open" or "closed"
  loop,       \* the step of loop and run
  ui,         \* the step of SaveSettings or Close on the window's thread
  renew,      \* the settings saved name another server
  cutting,    \* Reconnect holds run's socket and has not closed it
  toClose,    \* DisconnectAll of a thread: the peers it has not closed yet
  peer,       \* what has become of a session
  behind,     \* peers built with older settings; Run, when newPeer has read such
  late,       \* a ghost: peers entered since the last Save with older settings
  handling,   \* the step of handle, for each peer
  client,     \* peers whose p.client is set
  hub,        \* the peers with a client in the desktop hub
  hangup      \* live peers for which a goroutine is about to call Close

attemptVars == <<server, moved, overlooked>>
linkVars == <<attemptVars, conn, loop>>
uiVars == <<settings, cancelled, ui, renew, cutting>>
tableVars == <<toClose, peer, behind, hangup, late>>
attachVars == <<handling, client, hub>>
engineVars == <<linkVars, uiVars, tableVars, attachVars>>

\* e.peers
table == {s \in Sid : peer[s] \notin {"none", "gone"}}
live == {s \in Sid : peer[s] = "live"}

EngineTypeOK ==
  /\ settings \in 0..MaxVersion
  /\ server \in Server \cup {NoServer} /\ overlooked \in BOOLEAN
  /\ cancelled \in BOOLEAN /\ moved \in BOOLEAN
  /\ renew \in BOOLEAN /\ cutting \in BOOLEAN
  /\ conn \in {"none", "open", "closed"}
  /\ loop \in {"idle", "read", "dial", "hello", "online", "built", "left", "kick", "ended"}
  /\ ui \in {"idle", "saved", "kick", "bump", "cut", "host", "closed"}
  /\ toClose \in [{UI, Run} -> SUBSET Sid]
  /\ peer \in [Sid -> {"none", "live", "closing", "seen", "unseen", "detached", "gone"}]
  /\ behind \in SUBSET (live \cup {Run}) /\ hangup \in SUBSET live
  /\ late \in SUBSET Sid
  /\ client \in SUBSET Sid /\ hub \in SUBSET Sid
  /\ handling \in [Sid -> {"idle", "looked", "attached"}]

\* The settings of earlier starts are loaded.
EngineInit ==
  /\ settings \in 0..MaxVersion /\ server = NoServer /\ overlooked = FALSE
  /\ cancelled = FALSE /\ moved = FALSE /\ conn = "none"
  /\ loop = "idle" /\ ui = "idle" /\ renew = FALSE /\ cutting = FALSE
  /\ toClose = [t \in {UI, Run} |-> {}]
  /\ peer = [s \in Sid |-> "none"] /\ behind = {} /\ hangup = {} /\ late = {}
  /\ client = {} /\ hub = {} /\ handling = [s \in Sid |-> "idle"]

-----------------------------------------------------------------------------
\* loop and run

\* The 3 s between two attempts are over: loop reads the settings, and hands
\* them to run if they name a server.
LoopTop ==
  /\ loop = "idle"
  /\ \/ cancelled /\ loop' = "ended" /\ UNCHANGED attemptVars
     \/ /\ ~cancelled /\ ServerOf[settings] # NoServer
        /\ loop' = "read"
        /\ server' = ServerOf[settings] /\ UNCHANGED <<moved, overlooked>>
  /\ UNCHANGED <<conn, uiVars, tableVars, attachVars>>

\* run reads the generation some time after loop read the settings, and does not
\* hear of a Reconnect between the two.
ReadGeneration ==
  /\ loop = "read"
  /\ moved' = FALSE /\ loop' = "dial"
  /\ UNCHANGED <<server, overlooked, conn, uiVars, tableVars, attachVars>>

\* run returns, and with it goes what was read for it.
Forget == server' = NoServer /\ moved' = FALSE /\ overlooked' = FALSE

GiveUp == loop' = "idle" /\ Forget

\* Closing the engine cancels the dialling.
Dial ==
  /\ loop = "dial"
  /\ \/ ~cancelled /\ loop' = "hello" /\ UNCHANGED attemptVars
     \/ GiveUp
  /\ UNCHANGED <<conn, uiVars, tableVars, attachVars>>

\* Mutant: the generation is not looked at again
Register_Unchecked ==
  /\ loop = "hello"
  /\ \/ conn' = "open" /\ loop' = "online" /\ UNCHANGED attemptVars
     \/ GiveUp /\ UNCHANGED conn
  /\ UNCHANGED <<uiVars, tableVars, attachVars>>

\* The challenge and the registration, which may fail and close the socket;
\* then the check of the generation, and Save.
Register ==
  /\ loop = "hello"
  /\ \/ ~moved /\ conn' = "open" /\ loop' = "online" /\ UNCHANGED attemptVars
     \/ GiveUp /\ UNCHANGED conn
  /\ UNCHANGED <<uiVars, tableVars, attachVars>>

\* The server or the network ends the connection.
Drop ==
  /\ conn = "open"
  /\ conn' = "closed"
  /\ UNCHANGED <<attemptVars, loop, uiVars, tableVars, attachVars>>

\* Mutant: one peer more than the table takes
Announced_OneMore ==
  /\ loop = "online" /\ conn = "open" /\ Cardinality(table) <= MaxPeers
  /\ loop' = "built" /\ behind' = behind \ {Run}
  /\ UNCHANGED <<attemptVars, conn, uiVars, toClose, peer, hangup, late, attachVars>>

\* "session": newPeer finds room and reads the settings.  Only newPeer enters
\* peers, so that there is room at the later of the two if there was before.
\* Without room the session is refused and nothing changes here.
Announced ==
  /\ loop = "online" /\ conn = "open" /\ Cardinality(table) < MaxPeers
  /\ loop' = "built" /\ behind' = behind \ {Run}
  /\ UNCHANGED <<attemptVars, conn, uiVars, toClose, peer, hangup, late, attachVars>>

\* newPeer has built the connection and enters the peer ...
NewPeer(s) ==
  /\ loop = "built" /\ peer[s] = "none"
  /\ loop' = "online"
  /\ peer' = [peer EXCEPT ![s] = "live"]
  /\ IF Run \in behind
       THEN behind' = (behind \ {Run}) \cup {s} /\ late' = late \cup {s}
       ELSE UNCHANGED <<behind, late>>
  /\ UNCHANGED <<attemptVars, conn, uiVars, toClose, hangup, attachVars>>

\* ... or fails before that.
NewPeerFails ==
  /\ loop = "built"
  /\ loop' = "online" /\ behind' = behind \ {Run}
  /\ UNCHANGED <<attemptVars, conn, uiVars, toClose, peer, hangup, late, attachVars>>

\* ReadJSON fails: run's deferred function.  Whoever still holds the socket
\* closes one that is closed.
Leave ==
  /\ loop = "online" /\ conn = "closed"
  /\ conn' = "none" /\ cutting' = FALSE
  /\ loop' = "left" /\ Forget
  /\ UNCHANGED <<settings, cancelled, ui, renew, tableVars, attachVars>>

-----------------------------------------------------------------------------
\* Peer.Close, of every peer of S: the first call marks the peer and starts
\* its goroutine.
ClosePeers(S) ==
  /\ peer' = [s \in Sid |-> IF s \in S \cap live THEN "closing" ELSE peer[s]]
  /\ behind' = behind \ S /\ hangup' = hangup \ S /\ late' = late \ S

\* DisconnectAll, on the window's thread and in run: the peers of the table
\* are closed one by one, then the hub kicks every client it has.
Snapshot(t) ==
  /\ IF t = UI THEN ui = "saved" /\ ui' = "kick" /\ UNCHANGED loop
               ELSE loop = "left" /\ loop' = "kick" /\ UNCHANGED ui
  /\ toClose' = [toClose EXCEPT ![t] = live]
  /\ UNCHANGED <<attemptVars, conn, settings, cancelled, renew, cutting, peer, behind, hangup, late, attachVars>>

Kicking(t) == IF t = UI THEN ui = "kick" ELSE loop = "kick"

CloseNext(t) ==
  /\ Kicking(t)
  /\ \E s \in toClose[t] : toClose' = [toClose EXCEPT ![t] = @ \ {s}] /\ ClosePeers({s})
  /\ UNCHANGED <<linkVars, uiVars, attachVars>>

\* A close message of the hub is the end of the transport: a goroutine closes
\* the peer.
HangUp(S) == hangup' = hangup \cup (S \cap live)

\* Mutant: the clients are forgotten, and not rejected
KickAll_Silent == hub' = {} /\ UNCHANGED hangup

\* KickAll: every client is rejected.
KickAll == hub' = {} /\ HangUp(hub)

Kicked(t) ==
  /\ Kicking(t) /\ toClose[t] = {}
  /\ KickAll
  /\ IF t = UI
       THEN ui' = (IF cancelled THEN "host" ELSE IF renew THEN "bump" ELSE "idle") /\ UNCHANGED loop
       ELSE loop' = "idle" /\ UNCHANGED ui
  /\ UNCHANGED <<attemptVars, conn, settings, cancelled, renew, cutting, toClose, peer, behind, late, handling, client>>

\* The settings change: what was read before is behind.
NewSettings(v) ==
  /\ settings' = v
  /\ behind' = live \cup (IF loop = "built" THEN {Run} ELSE {})
  /\ late' = {}

\* Mutant: the peers are not disconnected when the server is the same
Save_SameServer(v) ==
  /\ ui = "idle" /\ v > settings
  /\ NewSettings(v)
  /\ renew' = (ServerOf[v] # ServerOf[settings])
  /\ ui' = IF renew' THEN "saved" ELSE "idle"
  /\ UNCHANGED <<linkVars, cancelled, cutting, toClose, peer, hangup, attachVars>>

\* SaveSettings, in its critical section; settings that cannot be saved leave
\* everything as it was.  apply follows, which revokes the tokens.
Save(v) ==
  /\ ui = "idle" /\ v > settings
  /\ NewSettings(v)
  /\ renew' = (ServerOf[v] # ServerOf[settings])
  /\ ui' = "saved"
  /\ UNCHANGED <<linkVars, cancelled, cutting, toClose, peer, hangup, attachVars>>

\* Reconnect raises the generation and takes the connection there is.
Reconnect ==
  /\ ui = "bump"
  /\ moved' = (loop \in {"dial", "hello", "online", "built"})
  /\ overlooked' = (overlooked \/ loop = "read")
  /\ cutting' = (conn # "none")
  /\ ui' = "cut"
  /\ UNCHANGED <<server, conn, loop, settings, cancelled, renew, tableVars, attachVars>>

\* c.Close(), on the connection that was there
Cut ==
  /\ ui = "cut"
  /\ conn' = IF cutting THEN "closed" ELSE conn
  /\ cutting' = FALSE
  /\ ui' = IF cancelled THEN "saved" ELSE "idle"
  /\ UNCHANGED <<attemptVars, loop, settings, cancelled, renew, tableVars, attachVars>>

\* Mutant: Close does not reconnect
Close_NoCut ==
  /\ ui = "idle"
  /\ cancelled' = TRUE /\ ui' = "saved"
  /\ UNCHANGED <<linkVars, settings, renew, cutting, tableVars, attachVars>>

\* Close: cancel, Reconnect, DisconnectAll, and the hub last.
Close ==
  /\ ui = "idle"
  /\ cancelled' = TRUE /\ ui' = "bump"
  /\ UNCHANGED <<linkVars, settings, renew, cutting, tableVars, attachVars>>

CloseHost ==
  /\ ui = "host"
  /\ KickAll
  /\ ui' = "closed"
  /\ UNCHANGED <<linkVars, settings, cancelled, renew, cutting, toClose, peer, behind, late, handling, client>>

-----------------------------------------------------------------------------
\* One peer

\* Close is called: by the window, on a "close" of the server, an error, a
\* state of the connection, or by a goroutine the hub started.
PeerClose(s) ==
  /\ s \in live
  /\ ClosePeers({s})
  /\ UNCHANGED <<linkVars, uiVars, toClose, attachVars>>

\* The goroutine of Close reads p.client,
Look(s) ==
  /\ peer[s] = "closing"
  /\ peer' = [peer EXCEPT ![s] = IF s \in client THEN "seen" ELSE "unseen"]
  /\ UNCHANGED <<linkVars, uiVars, toClose, behind, hangup, late, attachVars>>

\* tells the server, closes the connection and detaches the client it saw,
Detach(s) ==
  /\ peer[s] \in {"seen", "unseen"}
  /\ hub' = IF peer[s] = "seen" THEN hub \ {s} ELSE hub
  /\ peer' = [peer EXCEPT ![s] = "detached"]
  /\ UNCHANGED <<linkVars, uiVars, toClose, behind, hangup, late, handling, client>>

\* and takes the peer out of the table.
Remove(s) ==
  /\ peer[s] = "detached"
  /\ peer' = [peer EXCEPT ![s] = "gone"]
  /\ UNCHANGED <<linkVars, uiVars, toClose, behind, hangup, late, attachVars>>

\* handle, on the first message of a called peer: it is not closed, and has no
\* client.
HandleLook(s) ==
  /\ s \in live \ client /\ handling[s] = "idle"
  /\ handling' = [handling EXCEPT ![s] = "looked"]
  /\ UNCHANGED <<linkVars, uiVars, tableVars, client, hub>>

\* The hub, made if there is none, takes the client, or one of the two fails.
HandleAttach(s) ==
  /\ handling[s] = "looked"
  /\ \/ handling' = [handling EXCEPT ![s] = "idle"] /\ UNCHANGED hub
     \/ handling' = [handling EXCEPT ![s] = "attached"] /\ hub' = hub \cup {s}
  /\ UNCHANGED <<linkVars, uiVars, tableVars, client>>

HandleSet(s) ==
  /\ handling[s] = "attached"
  /\ handling' = [handling EXCEPT ![s] = "idle"] /\ client' = client \cup {s}
  /\ UNCHANGED <<linkVars, uiVars, tableVars, hub>>

\* Mutant: writes to a closed peer are taken for sent
Pump_Deaf(s) ==
  /\ s \in hub \cap live
  /\ hub' = hub \ {s} /\ hangup' = hangup \cup {s}
  /\ UNCHANGED <<linkVars, uiVars, toClose, peer, behind, late, handling, client>>

\* writePump: a write to a closed peer fails, and a client without a valid
\* token in time is rejected, which closes its transport.
Pump(s) ==
  /\ s \in hub
  /\ hub' = hub \ {s} /\ HangUp({s})
  /\ UNCHANGED <<linkVars, uiVars, toClose, peer, behind, late, handling, client>>

-----------------------------------------------------------------------------
RunStep == LoopTop \/ ReadGeneration \/ Dial \/ Register \/ Leave
           \/ NewPeerFails \/ \E s \in Sid : NewPeer(s)
           \/ Snapshot(Run) \/ CloseNext(Run) \/ Kicked(Run)

UIStep == Snapshot(UI) \/ CloseNext(UI) \/ Kicked(UI) \/ Reconnect \/ Cut \/ CloseHost

PeerStep(s) == Look(s) \/ Detach(s) \/ Remove(s)

Handle(s) == HandleAttach(s) \/ HandleSet(s)

EngineNext ==
  \/ RunStep \/ Announced \/ Drop
  \/ UIStep \/ Close \/ \E v \in 0..MaxVersion : Save(v)
  \/ \E s \in Sid : PeerClose(s) \/ PeerStep(s) \/ HandleLook(s) \/ Handle(s) \/ Pump(s)

EngineSpec == EngineInit /\ [][EngineNext]_engineVars

\* The threads run; nothing is asked of the server, the network or the user.
\* A dead transport is noticed by the next heartbeat of its writePump, and a
\* goroutine that was started to close a peer does.
EngineFairness ==
  /\ WF_engineVars(RunStep) /\ WF_engineVars(UIStep)
  /\ \A s \in Sid :
       /\ WF_engineVars(PeerStep(s)) /\ WF_engineVars(Handle(s))
       /\ WF_engineVars(s \in hangup /\ PeerClose(s))
       /\ WF_engineVars(s \notin live /\ Pump(s))

EngineFairSpec == EngineSpec /\ EngineFairness

-----------------------------------------------------------------------------
\* Properties

\* What "the server settings have changed" promises, with which run gives up a
\* registration by an older generation: once SaveSettings has returned, a
\* connection in use is to the server of the settings.
ServerIsPresent == ui = "idle" /\ conn = "open" => server = ServerOf[settings]

\* Reconnect is heard unless it comes between loop's read of the settings and
\* run's of the generation: once the generation has moved, a connection in use is
\* closed, or about to be by who moved it, and else it is to the present server.
GenerationHeard ==
  /\ moved /\ conn = "open" => ui = "cut" /\ cutting
  /\ overlooked \/ ServerIsPresent

\* The table never holds more peers than 16, though newPeer looks at it long
\* before it enters one.
PeersBounded == Cardinality(table) <= MaxPeers

\* Once SaveSettings has returned, no peer of older settings is left but one
\* that newPeer was building meanwhile.
OnlyLateStay == ui = "idle" => behind \subseteq late \cup {Run}

\* A live peer that has a client is served by the hub, or about to be closed
\* because the hub let go of it.
ServedOrClosing == client \cap live \subseteq hub \cup hangup

\* Nothing outlives what it needs: no peer is left over from an earlier connection
\* when run dials again or has ended, whoever else closes peers meanwhile; none goes
\* on without its client in the hub; no connection is open once Close has taken the
\* one it found.
NoneOutlives ==
  /\ loop \in {"idle", "read", "dial", "hello", "ended"} => live = {}
  /\ ServedOrClosing
  /\ cancelled /\ ui \in {"saved", "kick", "host", "closed"} => conn # "open"

\* A peer that is closed leaves the table and the desktop hub for good, even when
\* handle attaches it behind the back of its Close: from some point on a session
\* has no peer yet, one that lives, or one that is gone with its client.
ClosedLeaves ==
  \A s \in Sid : <>[](peer[s] \in {"none", "live"} \/ (peer[s] = "gone" /\ s \notin hub))

\* Close leaves nothing running: the loop ends, its socket is closed and no
\* peer and no client is left, whatever was being set up meanwhile.
CloseEnds ==
  <>[](cancelled => loop = "ended" /\ conn = "none" /\ table = {} /\ hub = {})

=============================================================================
