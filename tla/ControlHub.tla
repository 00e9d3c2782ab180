----------------------------- MODULE ControlHub -----------------------------
(***************************************************************************)
(* The StreamHub of core/desktop: who may drive the shared desktop.        *)
(* Every connected client has a reader goroutine, which hands its commands *)
(* to handleClientCommand, and a writePump goroutine, which owns its       *)
(* heartbeat.  Whatever changes the controller or presses a key runs under *)
(* inputMu, in several steps: "at" says which step the section has         *)
(* reached, "who" for which client it runs.  Meanwhile the clock, the      *)
(* person at the machine, the 25 ms ticker of InputController and the      *)
(* AuthManager go on by themselves: they do not take inputMu.              *)
(*                                                                         *)
(* A Client object and a token name are reused once nothing refers to      *)
(* them, which stands for the fresh object or random token of the code.    *)
(***************************************************************************)
EXTENDS Naturals, FiniteSets

CONSTANTS Client,         \* Client objects
          Nobody,         \* currentController == nil
          Token,          \* session tokens of the AuthManager
          NoToken,        \* Client.token == "", not authenticated
          RoleOf,         \* the role a token was issued for
          Keys, Buttons,  \* virtual keys, mouse buttons
          NoInput,
          Chords,         \* combinations BlockedStandardKey refuses
          LeaseSpan,      \* ticks in the 2 s lease
          OverrideSpan,   \* ticks in the 1.5 s of MasterOverride
          MaxClients      \* 64 connections

RoleView == 1
RoleStandard == 2
RoleAdmin == 3

ASSUME ControlHubAssumption ==
  /\ Nobody \notin Client
  /\ NoToken \notin Token
  /\ RoleOf \in [Token -> RoleView..RoleAdmin]
  /\ Keys \cap Buttons = {}
  /\ NoInput \notin Keys \cup Buttons
  /\ Chords \subseteq SUBSET Keys
  /\ LeaseSpan \in Nat \ {0}
  /\ OverrideSpan \in Nat \ {0}
  /\ MaxClients \in Nat

Input == Keys \cup Buttons

VARIABLES
  registered,    \* StreamHub.clients
  closed,        \* clients whose done channel is closed
  late,          \* clients whose approvalWindow passed before they logged in
  token,         \* Client.token; the role comes with it
  reader,        \* where the connection's reader goroutine is
  pump,          \* where the client's writePump goroutine is
  sessions,      \* tokens ValidateToken accepts
  controller,    \* currentController
  lease,         \* ticks until controllerExpiry
  heldBy,        \* pressedKeys and pressedButtons, and for whom (a ghost)
  override,      \* ticks until IsOverridden turns false
  unseen,        \* a physical action the 25 ms ticker has not seen yet
  at, who,       \* the step and the client of the section that holds inputMu
  verb, key,     \* its command, and the key or button of that command
  victims        \* clients kickAllClients removed and has yet to reject

connVars == <<registered, closed, late, token, reader, pump>>
leaseVars == <<controller, lease>>
localVars == <<override, unseen>>
sectionVars == <<at, who, verb, key, victims>>
vars == <<connVars, sessions, leaseVars, heldBy, localVars, sectionVars>>

Verbs == {"take", "down", "up", "tap"}
CommandSteps == {"acquire", "inject", "press", "lift"}
Steps == CommandSteps \cup {"free", "unregister", "depart", "kick"}

TypeOK ==
  /\ registered \in SUBSET Client
  /\ closed \in SUBSET Client
  /\ late \in SUBSET Client
  /\ token \in [Client -> Token \cup {NoToken}]
  /\ reader \in [Client -> {"none", "attaching", "reading", "detach"}]
  /\ pump \in [Client -> {"none", "idle", "expire", "exit"}]
  /\ sessions \in SUBSET Token
  /\ controller \in Client \cup {Nobody}
  /\ lease \in 0..LeaseSpan
  /\ heldBy \in [Input -> Client \cup {Nobody}]
  /\ override \in 0..OverrideSpan
  /\ unseen \in BOOLEAN
  /\ at \in Steps
  /\ who \in Client \cup {Nobody}
  /\ verb \in Verbs
  /\ key \in Input \cup {NoInput}
  /\ victims \in SUBSET Client

-----------------------------------------------------------------------------
\* State predicates of the code

Authed(c) == token[c] # NoToken
Role(c) == IF Authed(c) THEN RoleOf[token[c]] ELSE 0

\* validLocked
Valid(c) == Authed(c) /\ c \in registered /\ token[c] \in sessions

\* Mutant: an approval window that never ends
Alive_NoWindow(c) == c \in registered /\ (Authed(c) => Valid(c))

\* clientAlive
Alive(c) == c \in registered /\ IF Authed(c) THEN Valid(c) ELSE c \notin late

\* MasterOverride.IsOverridden
IsOverridden == override > 0

\* isController
IsController(c) == controller = c /\ lease > 0 /\ Valid(c)

NothingHeld == [i \in Input |-> Nobody]
ReleaseAllKeys == heldBy' = NothingHeld

\* BlockedStandardKey: the chord is complete with k down
Blocked(k) == \E chord \in Chords : chord \subseteq {i \in Keys : heldBy[i] # Nobody} \cup {k}

ClearController == controller' = Nobody /\ lease' = 0

\* inputMu is taken only when it is free, and released at the end of a section
Free == at = "free"
Unlock == at' = "free" /\ who' = Nobody /\ verb' = "take" /\ key' = NoInput
Lock(step, c) == at' = step /\ who' = c /\ UNCHANGED <<verb, key>>

-----------------------------------------------------------------------------
Init ==
  /\ registered = {} /\ closed = {} /\ late = {} /\ victims = {}
  /\ token = [c \in Client |-> NoToken]
  /\ reader = [c \in Client |-> "none"]
  /\ pump = [c \in Client |-> "none"]
  /\ sessions = {}
  /\ controller = Nobody /\ lease = 0
  /\ heldBy = NothingHeld
  /\ override = 0 /\ unseen = FALSE
  /\ at = "free" /\ who = Nobody /\ verb = "take" /\ key = NoInput

-----------------------------------------------------------------------------
\* Connections

\* AttachConnection looks at the number of clients, unlocks mu, and builds a
\* fresh Client; a full host refuses, which changes nothing.
AttachCheck(c) ==
  /\ reader[c] = "none" /\ pump[c] = "none" /\ who # c /\ c \notin victims
  /\ Cardinality(registered) < MaxClients
  /\ reader' = [reader EXCEPT ![c] = "attaching"]
  /\ token' = [token EXCEPT ![c] = NoToken]
  /\ closed' = closed \ {c}
  /\ late' = late \ {c}
  /\ UNCHANGED <<registered, pump, sessions, leaseVars, heldBy, localVars, sectionVars>>

\* registerClient, the writePump and the caller's read loop
Register(c) ==
  /\ reader[c] = "attaching"
  /\ registered' = registered \cup {c}
  /\ reader' = [reader EXCEPT ![c] = "reading"]
  /\ pump' = [pump EXCEPT ![c] = "idle"]
  /\ UNCHANGED <<closed, late, token, sessions, leaseVars, heldBy, localVars, sectionVars>>

\* The peer hangs up, or reading fails because the connection was closed.
ReaderEnds(c) ==
  /\ reader[c] = "reading" /\ (who = c => at \notin CommandSteps)
  /\ reader' = [reader EXCEPT ![c] = "detach"]
  /\ UNCHANGED <<registered, closed, late, token, pump, sessions, leaseVars, heldBy,
                 localVars, sectionVars>>

\* safeSendJSON of any broadcaster closes a client whose jsonChan is full.
TooSlow(c) ==
  /\ c \in registered \ closed
  /\ closed' = closed \cup {c}
  /\ UNCHANGED <<registered, late, token, reader, pump, sessions, leaseVars, heldBy,
                 localVars, sectionVars>>

WindowPasses(c) ==
  /\ c \in registered \ late /\ ~Authed(c)
  /\ late' = late \cup {c}
  /\ UNCHANGED <<registered, closed, token, reader, pump, sessions, leaseVars, heldBy,
                 localVars, sectionVars>>

-----------------------------------------------------------------------------
\* writePump

\* A ticker, a message or a frame finds the client no longer alive: reject().
PumpRejects(c) ==
  /\ pump[c] = "idle" /\ ~Alive(c)
  /\ closed' = closed \cup {c}
  /\ pump' = [pump EXCEPT ![c] = "exit"]
  /\ UNCHANGED <<registered, late, token, reader, sessions, leaseVars, heldBy, localVars,
                 sectionVars>>

\* The done channel is closed, or a write misses its deadline.
PumpEnds(c) ==
  /\ pump[c] = "idle"
  /\ pump' = [pump EXCEPT ![c] = "exit"]
  /\ UNCHANGED <<registered, closed, late, token, reader, sessions, leaseVars, heldBy,
                 localVars, sectionVars>>

\* The 800 ms heartbeat of a client that is alive goes on to expireControl.
Heartbeat(c) ==
  /\ pump[c] = "idle" /\ Alive(c)
  /\ pump' = [pump EXCEPT ![c] = "expire"]
  /\ UNCHANGED <<registered, closed, late, token, reader, sessions, leaseVars, heldBy,
                 localVars, sectionVars>>

\* Mutant: the heartbeat forgets that the lease may have run out
MustExpire_NoExpiry == controller # Nobody /\ (~Valid(controller) \/ IsOverridden)

MustExpire == controller # Nobody /\ (lease = 0 \/ ~Valid(controller) \/ IsOverridden)

ExpireControl(c) ==
  /\ pump[c] = "expire" /\ Free
  /\ pump' = [pump EXCEPT ![c] = "idle"]
  /\ IF MustExpire
       THEN ReleaseAllKeys /\ ClearController
       ELSE UNCHANGED <<leaseVars, heldBy>>
  /\ UNCHANGED <<registered, closed, late, token, reader, sessions, localVars, sectionVars>>

-----------------------------------------------------------------------------
\* unregisterClient, at the end of the reader and of the writePump

Ended(c, by) == IF by = "reader" THEN reader[c] = "detach" ELSE pump[c] = "exit"

Finish(c, by) ==
  IF by = "reader"
    THEN reader' = [reader EXCEPT ![c] = "none"] /\ UNCHANGED pump
    ELSE pump' = [pump EXCEPT ![c] = "none"] /\ UNCHANGED reader

\* The other goroutine, or kickAllClients, was here first.
UnregisterAgain(c, by) ==
  /\ Ended(c, by) /\ Free /\ c \notin registered
  /\ Finish(c, by)
  /\ UNCHANGED <<registered, closed, late, token, sessions, leaseVars, heldBy, localVars,
                 sectionVars>>

\* The part under mu; inputMu stays locked.
UnregisterBegin(c, by) ==
  /\ Ended(c, by) /\ Free /\ c \in registered
  /\ registered' = registered \ {c}
  /\ IF controller = c
       THEN ClearController /\ Lock("unregister", c)  \* wasController
       ELSE UNCHANGED leaseVars /\ Lock("depart", c)
  /\ Finish(c, by)
  /\ UNCHANGED <<closed, late, token, sessions, heldBy, localVars, victims>>

\* Mutant: a leaving controller's keys are not released
UnregisterEnd_KeepsKeys ==
  /\ at \in {"unregister", "depart"}
  /\ closed' = closed \cup {who}
  /\ Unlock
  /\ UNCHANGED <<registered, late, token, reader, pump, sessions, leaseVars, heldBy, localVars,
                 victims>>

UnregisterEnd ==
  /\ at \in {"unregister", "depart"}
  /\ closed' = closed \cup {who}
  /\ IF at = "unregister" THEN ReleaseAllKeys ELSE UNCHANGED heldBy
  /\ Unlock
  /\ UNCHANGED <<registered, late, token, reader, pump, sessions, leaseVars, localVars, victims>>

-----------------------------------------------------------------------------
\* kickAllClients

KickBegin ==
  /\ Free
  /\ victims' = registered
  /\ registered' = {}
  /\ ClearController
  /\ Lock("kick", Nobody)
  /\ UNCHANGED <<closed, late, token, reader, pump, sessions, heldBy, localVars>>

KickEnd ==
  /\ at = "kick"
  /\ closed' = closed \cup victims
  /\ victims' = {}
  /\ ReleaseAllKeys
  /\ Unlock
  /\ UNCHANGED <<registered, late, token, reader, pump, sessions, leaseVars, localVars>>

\* recoverCapture releases the keys once a new capture engine is ready.
RecoverCapture ==
  /\ Free
  /\ ReleaseAllKeys
  /\ UNCHANGED <<connVars, sessions, leaseVars, localVars, sectionVars>>

-----------------------------------------------------------------------------
\* handleClientCommand

Reading(c) == reader[c] = "reading" /\ Free

\* An authenticated client that is no longer valid is rejected.
CommandRejected(c) ==
  /\ Reading(c) /\ Authed(c) /\ ~Valid(c)
  /\ closed' = closed \cup {c}
  /\ UNCHANGED <<registered, late, token, reader, pump, sessions, leaseVars, heldBy, localVars,
                 sectionVars>>

\* auth_token and auth_login, before anything else is accepted
Login(c, t) ==
  /\ Reading(c) /\ ~Authed(c) /\ t \in sessions
  /\ token' = [token EXCEPT ![c] = t]
  /\ late' = late \ {c}
  /\ UNCHANGED <<registered, closed, reader, pump, sessions, leaseVars, heldBy, localVars,
                 sectionVars>>

\* A command that needs the desktop.  "take" stands for those that leave no
\* key down: take_control, switch_monitor, mouse_move, mouse_wheel, type_text;
\* "tap" for the pastes and special keys, which press and release by themselves.

\* The role is looked at before the desktop is asked for, except by the commands
\* that only take it.
Entitled(c, v) == v # "take" => Role(c) >= RoleStandard

\* What a command presses: nothing, a key of its own, or what the client names
Presses(v) ==
  CASE v = "take" -> {NoInput}
    [] v = "tap"  -> Keys
    [] OTHER      -> Input

Dispatch(c, v, i) ==
  /\ Reading(c) /\ Valid(c)
  /\ Entitled(c, v) /\ i \in Presses(v)
  /\ at' = "acquire" /\ who' = c /\ verb' = v /\ key' = i
  /\ UNCHANGED <<connVars, sessions, leaseVars, heldBy, localVars, victims>>

\* release_all_keys
ReleaseKeysCommand(c) ==
  /\ Reading(c) /\ Role(c) >= RoleStandard /\ IsController(c)
  /\ ReleaseAllKeys
  /\ UNCHANGED <<connVars, sessions, leaseVars, localVars, sectionVars>>

\* release_control
ReleaseControl(c) ==
  /\ Reading(c) /\ Valid(c) /\ controller = c
  /\ ReleaseAllKeys /\ ClearController
  /\ UNCHANGED <<connVars, sessions, localVars, sectionVars>>

-----------------------------------------------------------------------------
\* tryAcquireControl

CanAcquire(c) == Role(c) >= RoleStandard /\ Valid(c) /\ ~IsOverridden

OpenDesktop(c) == controller = Nobody \/ lease = 0

\* Mutant: an administrator takes over from another administrator
MayPreempt_Anybody(c) == Role(c) >= RoleAdmin

MayPreempt(c) == Role(c) >= RoleAdmin /\ Role(controller) < RoleAdmin

\* What the section does once the desktop is acquired
Acquired ==
  CASE verb = "take" -> Unlock
    [] verb = "up"   -> at' = "lift" /\ UNCHANGED <<who, verb, key>>
    [] OTHER         -> at' = "inject" /\ UNCHANGED <<who, verb, key>>

\* Mutant: the keys of the previous controller stay down
Grab_KeepsKeys(c) == controller' = c /\ lease' = LeaseSpan /\ UNCHANGED heldBy /\ Acquired

Grab(c) == controller' = c /\ lease' = LeaseSpan /\ ReleaseAllKeys /\ Acquired

Acquire(c) ==
  /\ at = "acquire" /\ who = c
  /\ \/ /\ CanAcquire(c) /\ OpenDesktop(c)
        /\ Grab(c)
     \/ /\ CanAcquire(c) /\ ~OpenDesktop(c) /\ controller = c
        /\ lease' = LeaseSpan /\ Acquired
        /\ UNCHANGED <<controller, heldBy>>
     \/ /\ CanAcquire(c) /\ ~OpenDesktop(c) /\ controller # c /\ MayPreempt(c)
        /\ Grab(c)
     \/ /\ ~CanAcquire(c) \/ (~OpenDesktop(c) /\ controller # c /\ ~MayPreempt(c))
        /\ Unlock
        /\ UNCHANGED <<leaseVars, heldBy>>
  /\ UNCHANGED <<connVars, sessions, localVars, victims>>

-----------------------------------------------------------------------------
\* InputController, called by the section.  SendInput may fail.

\* Mutant: MouseButton without its override check
PressButton_Unchecked ==
  /\ at = "inject" /\ key \in Buttons
  /\ heldBy' = [heldBy EXCEPT ![key] = who]
  /\ Unlock
  /\ UNCHANGED <<connVars, sessions, leaseVars, localVars, victims>>

\* MouseButton looks at the override and presses under one lock.
PressButton ==
  /\ at = "inject" /\ key \in Buttons
  /\ \/ ~IsOverridden /\ heldBy' = [heldBy EXCEPT ![key] = who]
     \/ UNCHANGED heldBy
  /\ Unlock
  /\ UNCHANGED <<connVars, sessions, leaseVars, localVars, victims>>

\* After a key was pressed or refused: a special key or a paste goes on to let go
\* of it whatever came of that, a "key" command is done.
KeyDone == IF verb = "tap" THEN at' = "lift" /\ UNCHANGED <<who, verb, key>> ELSE Unlock

\* SendKey looks at the override before it takes its lock.  Only a "key"
\* command of a Standard client passes BlockedStandardKey first.
CheckKey ==
  /\ at = "inject" /\ key \in Keys
  /\ IF verb = "down" /\ Role(who) < RoleAdmin /\ Blocked(key) THEN Unlock
     ELSE IF IsOverridden THEN KeyDone
     ELSE at' = "press" /\ UNCHANGED <<who, verb, key>>
  /\ UNCHANGED <<connVars, sessions, leaseVars, heldBy, localVars, victims>>

PressKey ==
  /\ at = "press"
  /\ \/ heldBy' = [heldBy EXCEPT ![key] = who]
     \/ UNCHANGED heldBy
  /\ KeyDone
  /\ UNCHANGED <<connVars, sessions, leaseVars, localVars, victims>>

\* Letting go is never refused.
LiftKey ==
  /\ at = "lift"
  /\ \/ heldBy' = [heldBy EXCEPT ![key] = Nobody]
     \/ UNCHANGED heldBy
  /\ Unlock
  /\ UNCHANGED <<connVars, sessions, leaseVars, localVars, victims>>

-----------------------------------------------------------------------------
\* The host: StreamHub.Grant, and the AuthManager behind ValidateToken

\* Mutant: a client authorized anew keeps the desktop
Grant_KeepsControl(c, t) ==
  /\ Free /\ t \in sessions /\ c \in registered
  /\ sessions' = IF token[c] # t THEN sessions \ {token[c]} ELSE sessions
  /\ token' = [token EXCEPT ![c] = t]
  /\ late' = late \ {c}
  /\ UNCHANGED <<registered, closed, reader, pump, leaseVars, heldBy, localVars, sectionVars>>

Grant(c, t) ==
  /\ Free /\ t \in sessions /\ c \in registered
  /\ IF controller = c THEN ClearController /\ ReleaseAllKeys ELSE UNCHANGED <<leaseVars, heldBy>>
  /\ sessions' = IF token[c] # t THEN sessions \ {token[c]} ELSE sessions
  /\ token' = [token EXCEPT ![c] = t]
  /\ late' = late \ {c}
  /\ UNCHANGED <<registered, closed, reader, pump, localVars, sectionVars>>

\* A password or an approved request yields a token nobody has.
Issue(t) ==
  /\ t \notin sessions /\ \A c \in Client : token[c] # t
  /\ sessions' = sessions \cup {t}
  /\ UNCHANGED <<connVars, leaseVars, heldBy, localVars, sectionVars>>

\* RevokeToken, a changed password, or the end of the 24 hours
Revoke(t) ==
  /\ t \in sessions
  /\ sessions' = sessions \ {t}
  /\ UNCHANGED <<connVars, leaseVars, heldBy, localVars, sectionVars>>

-----------------------------------------------------------------------------
\* The person at the machine, the 25 ms ticker, and the clock

\* recordPhysicalAction
PhysicalAction ==
  /\ override' = OverrideSpan /\ unseen' = TRUE
  /\ UNCHANGED <<connVars, sessions, leaseVars, heldBy, sectionVars>>

OverrideTicker ==
  /\ unseen
  /\ unseen' = FALSE
  /\ ReleaseAllKeys
  /\ UNCHANGED <<connVars, sessions, leaseVars, override, sectionVars>>

Tick ==
  /\ lease > 0 \/ override > 0
  /\ lease' = IF lease > 0 THEN lease - 1 ELSE 0
  /\ override' = IF override > 0 THEN override - 1 ELSE 0
  /\ UNCHANGED <<connVars, sessions, controller, heldBy, unseen, sectionVars>>

-----------------------------------------------------------------------------
Goroutines(c) ==
  \/ AttachCheck(c) \/ Register(c) \/ ReaderEnds(c) \/ TooSlow(c) \/ WindowPasses(c)
  \/ PumpRejects(c) \/ PumpEnds(c) \/ Heartbeat(c) \/ ExpireControl(c)
  \/ \E by \in {"reader", "pump"} : UnregisterAgain(c, by) \/ UnregisterBegin(c, by)
  \/ CommandRejected(c) \/ ReleaseKeysCommand(c) \/ ReleaseControl(c)
  \/ \E v \in Verbs, i \in Input \cup {NoInput} : Dispatch(c, v, i)
  \/ \E t \in Token : Login(c, t) \/ Grant(c, t)

Section ==
  \/ \E c \in Client : Acquire(c)
  \/ PressButton \/ CheckKey \/ PressKey \/ LiftKey
  \/ UnregisterEnd \/ KickEnd

Next ==
  \/ \E c \in Client : Goroutines(c)
  \/ Section
  \/ KickBegin \/ RecoverCapture
  \/ \E t \in Token : Issue(t) \/ Revoke(t)
  \/ PhysicalAction \/ OverrideTicker \/ Tick

Spec == Init /\ [][Next]_vars

(***************************************************************************)
(* A goroutine that can run is run, time passes, and a sync.Mutex is not   *)
(* starved: after 1 ms of waiting it is handed over in order, so whoever   *)
(* waits for inputMu gets it although it is free only now and then.  The   *)
(* peers, the host and the person at the machine owe nothing.              *)
(***************************************************************************)
Fairness ==
  /\ WF_vars(Section) /\ WF_vars(Tick) /\ WF_vars(OverrideTicker)
  /\ \A c \in Client :
       /\ WF_vars(Register(c)) /\ WF_vars(WindowPasses(c))
       /\ WF_vars(PumpRejects(c) \/ Heartbeat(c))
       /\ WF_vars(c \in closed /\ PumpEnds(c)) /\ WF_vars(c \in closed /\ ReaderEnds(c))
       /\ SF_vars(ExpireControl(c))
       /\ \A by \in {"reader", "pump"} :
            SF_vars(UnregisterAgain(c, by) \/ UnregisterBegin(c, by))

FairSpec == Spec /\ Fairness

-----------------------------------------------------------------------------
\* Properties

\* The controller is connected, and its role entitles it to control: whoever
\* disconnects, is kicked or is authorized anew as a viewer stops being it.
ControllerEntitled ==
  controller # Nobody => controller \in registered /\ Role(controller) >= RoleStandard

\* Whatever is held down is held for the present controller; between the two
\* steps of unregisterClient for the client that leaves, and between the two
\* of kickAllClients for whoever it was.  No key survives a change of hands.
HeldForController ==
  \A i \in Input : heldBy[i] # Nobody =>
    \/ heldBy[i] = controller
    \/ at = "unregister" /\ heldBy[i] = who
    \/ at = "kick"

\* Once the ticker has seen the person at the machine act, no mouse button is
\* held for a remote client as long as the override lasts (MouseButton looks
\* at the override under the lock that ReleaseAllKeys takes).
ButtonsYield ==
  IsOverridden /\ ~unseen => \A b \in Buttons : heldBy[b] = Nobody

\* The same of every input, as the code says of remote input in general.
InputsYield ==
  IsOverridden /\ ~unseen => \A i \in Input : heldBy[i] = Nobody

\* Keys of a client that is just leaving count as released: nobody can take the
\* desktop before they are.
HeldForHolder == {i \in Input : heldBy[i] # Nobody /\ heldBy[i] = controller}
Administrators == {c \in Client : Role(c) >= RoleAdmin}

Lease == INSTANCE ControlLease
  WITH holder <- controller, Span <- LeaseSpan, down <- HeldForHolder, admin <- Administrators

\* The hub implements the lease, with every handler, heartbeat and kick of the
\* code: nobody loses a live lease to a client that is not an administrator.
ImplementsLease == Lease!Spec

\* A controller whose lease has run out, or whose token has been revoked, does
\* not stay: a heartbeat of any client, at the latest its own, ends its control.
StaleControlEnds ==
  \A c \in Client :
    []<>~(controller = c /\ (lease = 0 \/ ~Valid(c)))

\* A key pressed for a client whose token is revoked comes up again, whichever
\* step the revocation falls into.
RevokedKeysComeUp ==
  \A c \in Client, i \in Input : heldBy[i] = c /\ ~Valid(c) ~> heldBy[i] # c

\* A client that does not authenticate within its window is disconnected and
\* leaves the table.
UnauthenticatedLeaves ==
  \A c \in Client : []<>~(c \in registered /\ ~Authed(c))

=============================================================================
