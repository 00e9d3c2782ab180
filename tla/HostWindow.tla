----------------------------- MODULE HostWindow -----------------------------
(***************************************************************************)
(* The window of app/main.go and the engine it belongs to.  The engine     *)
(* tells the window of everything over one bounded channel, which only the *)
(* window's thread empties: between two looks at the native messages it    *)
(* takes a few events.  The same thread disconnects everybody, saves       *)
(* settings and approves requests, for which it takes inputMu of the       *)
(* desktop hub; and the hub reports the number of its clients over that    *)
(* channel, twice with inputMu held.                                       *)
(*                                                                         *)
(* The sections of inputMu and streamMu are steps of their own, whoever    *)
(* runs them.  mu, the innermost lock, is held by nobody who waits: what   *)
(* happens under it is part of a step.  Of the events only their number    *)
(* matters here.  The end of the stream loop is in HostStream.             *)
(***************************************************************************)
EXTENDS Naturals

CONSTANTS Client,        \* and its writePump
          Caller,        \* goroutines that carry a peer's message to the hub or detach a client
          Loop, Display, \* the stream loop, and the goroutine of DisplayChanged
          Window, Nobody,
          EventCap,  \* 256 events
          PerTick    \* 16 of them in a turn of the loop

VARIABLES
  window,     \* "poll", "events", or waiting: "kick", "hub" (the second time Close
              \* kicks) and "grant" for inputMu, "report" and "last" for room in
              \* Events, "stream" for streamMu; "closed"
  taken,      \* the events it has taken in this turn
  cancelled,  \* ctx of the engine
  events,     \* how many Events holds
  inputMu, streamMu,  \* who holds them
  members,    \* the clients of the hub
  rejected,   \* clients that have been told to go
  pump,       \* a client's goroutine: "entering" in registerClient, "running",
              \* "beat" and "expire" in expireControl, "leaving" and "report" in
              \* unregisterClient, "ended"
  step        \* of the others: "idle"; "input" waits for inputMu, "acting" holds it,
              \* "stream" with it waits for streamMu, "both" holds both, "report"
              \* waits for room; "round" of the loop holds streamMu alone

Task == Caller \cup {Loop, Display}

loopVars == <<window, taken, cancelled>>
clientVars == <<members, rejected, pump>>
hubVars == <<inputMu, streamMu, clientVars, step>>
vars == <<loopVars, events, hubVars>>

Init ==
  /\ window = "poll" /\ taken = 0 /\ cancelled = FALSE
  /\ events = 0
  /\ inputMu = Nobody /\ streamMu = Nobody /\ members = {} /\ rejected = {}
  /\ pump = [c \in Client |-> "ended"] /\ step = [t \in Task |-> "idle"]

\* emit: waits for room, or for the end of the engine.
Emit ==
  \/ events < EventCap /\ events' = events + 1
  \/ cancelled /\ UNCHANGED events

-----------------------------------------------------------------------------
\* The window's thread

\* native.Poll: nothing, or something that neither sends events nor waits
PollOther ==
  /\ window = "poll"
  /\ window' = "events"
  /\ UNCHANGED <<taken, cancelled, events, hubVars>>

\* Everybody is disconnected, by a button or because the settings change.
DisconnectAll ==
  /\ window = "poll"
  /\ window' = "kick"
  /\ UNCHANGED <<taken, cancelled, events, hubVars>>

Approve ==
  /\ window = "poll"
  /\ window' = "grant"
  /\ UNCHANGED <<taken, cancelled, events, hubVars>>

\* The window is closed: main returns, and Engine.Close cancels first.
Quit ==
  /\ window = "poll"
  /\ window' = "kick" /\ cancelled' = TRUE
  /\ UNCHANGED <<taken, events, hubVars>>

\* kickAllClients takes inputMu, and rejects them all ...
Kick ==
  /\ window \in {"kick", "hub"} /\ inputMu = Nobody
  /\ inputMu' = Window
  /\ members' = {} /\ rejected' = rejected \cup members
  /\ window' = IF window = "kick" THEN "report" ELSE "last"
  /\ UNCHANGED <<taken, cancelled, events, streamMu, pump, step>>

\* ... and reports that there are no clients before it gives inputMu back.
\* Close of the engine then closes the hub, which kicks once more,
KickReport ==
  /\ window \in {"report", "last"}
  /\ Emit
  /\ inputMu' = Nobody
  /\ window' = IF window = "last" THEN "stream" ELSE IF cancelled THEN "hub" ELSE "events"
  /\ UNCHANGED <<taken, cancelled, streamMu, clientVars, step>>

\* and takes streamMu to close the devices.
CloseStream ==
  /\ window = "stream" /\ streamMu = Nobody
  /\ window' = "closed"
  /\ UNCHANGED <<taken, cancelled, events, hubVars>>

\* Grant takes inputMu and gives it back.
Grant ==
  /\ window = "grant" /\ inputMu = Nobody
  /\ window' = "events"
  /\ UNCHANGED <<taken, cancelled, events, hubVars>>

TakeEvent ==
  /\ window = "events" /\ taken < PerTick /\ events > 0
  /\ events' = events - 1 /\ taken' = taken + 1
  /\ UNCHANGED <<window, cancelled, hubVars>>

\* Sixteen events, or there is none
TurnEnds ==
  /\ window = "events"
  /\ taken = PerTick \/ events = 0
  /\ window' = "poll" /\ taken' = 0
  /\ UNCHANGED <<cancelled, events, hubVars>>

-----------------------------------------------------------------------------
\* The clients of the hub

\* registerClient enters the client and then reports; writePump starts.
Register(c) ==
  /\ pump[c] = "ended"
  /\ pump' = [pump EXCEPT ![c] = "entering"]
  /\ members' = members \cup {c} /\ rejected' = rejected \ {c}
  /\ UNCHANGED <<loopVars, events, inputMu, streamMu, step>>

RegisterReport(c) ==
  /\ pump[c] = "entering"
  /\ Emit
  /\ pump' = [pump EXCEPT ![c] = "running"]
  /\ UNCHANGED <<loopVars, inputMu, streamMu, members, rejected, step>>

\* A heartbeat of writePump: expireControl, in inputMu.
Beat(c) ==
  /\ pump[c] = "running"
  /\ pump' = [pump EXCEPT ![c] = "beat"]
  /\ UNCHANGED <<loopVars, events, inputMu, streamMu, members, rejected, step>>

Expire(c) ==
  /\ \/ pump[c] = "beat" /\ inputMu = Nobody
        /\ inputMu' = c /\ pump' = [pump EXCEPT ![c] = "expire"]
     \/ pump[c] = "expire"
        /\ inputMu' = Nobody /\ pump' = [pump EXCEPT ![c] = "running"]
  /\ UNCHANGED <<loopVars, events, streamMu, members, rejected, step>>

\* writePump returns: the client was rejected, or writing to it failed.
PumpReturns(c) ==
  /\ pump[c] = "running"
  /\ pump' = [pump EXCEPT ![c] = "leaving"]
  /\ UNCHANGED <<loopVars, events, inputMu, streamMu, members, rejected, step>>

\* Its deferred unregisterClient, of a client the hub still has ...
Unregister(c) ==
  /\ pump[c] = "leaving" /\ inputMu = Nobody
  /\ IF c \in members
       THEN inputMu' = c /\ pump' = [pump EXCEPT ![c] = "report"]
       ELSE UNCHANGED inputMu /\ pump' = [pump EXCEPT ![c] = "ended"]
  /\ members' = members \ {c}
  /\ UNCHANGED <<loopVars, events, streamMu, rejected, step>>

\* ... reports the rest before it gives inputMu back.
UnregisterReport(c) ==
  /\ pump[c] = "report"
  /\ Emit
  /\ inputMu' = Nobody
  /\ pump' = [pump EXCEPT ![c] = "ended"]
  /\ UNCHANGED <<loopVars, streamMu, members, rejected, step>>

-----------------------------------------------------------------------------
\* Everybody else who takes the hub's locks

\* A message of a peer, a peer that is closed, or another display
Start(t) ==
  /\ t # Loop /\ step[t] = "idle"
  /\ step' = [step EXCEPT ![t] = "input"]
  /\ UNCHANGED <<loopVars, events, inputMu, streamMu, clientVars>>

AcquireInput(t) ==
  /\ step[t] = "input" /\ inputMu = Nobody
  /\ inputMu' = t /\ step' = [step EXCEPT ![t] = "acting"]
  /\ UNCHANGED <<loopVars, events, streamMu, clientVars>>

\* A command, a Grant of a login, or a Detach of a client that is gone already
Act(t) ==
  /\ t \in Caller /\ step[t] = "acting"
  /\ inputMu' = Nobody /\ step' = [step EXCEPT ![t] = "idle"]
  /\ UNCHANGED <<loopVars, events, streamMu, clientVars>>

\* Detach: unregisterClient, which ends the writePump, up to its report ...
Detach(t, c) ==
  /\ t \in Caller /\ step[t] = "acting"
  /\ c \in members /\ pump[c] # "entering"
  /\ members' = members \ {c} /\ rejected' = rejected \cup {c}
  /\ step' = [step EXCEPT ![t] = "report"]
  /\ UNCHANGED <<loopVars, events, inputMu, streamMu, pump>>

\* ... and the report.
DetachReport(t) ==
  /\ step[t] = "report"
  /\ Emit
  /\ inputMu' = Nobody /\ step' = [step EXCEPT ![t] = "idle"]
  /\ UNCHANGED <<loopVars, streamMu, clientVars>>

\* recoverCapture, and a command that switches the monitor, go on to streamMu
WantStream(t) ==
  /\ step[t] = "acting"
  /\ step' = [step EXCEPT ![t] = "stream"]
  /\ UNCHANGED <<loopVars, events, inputMu, streamMu, clientVars>>

AcquireStream(t) ==
  /\ step[t] = "stream" /\ streamMu = Nobody
  /\ streamMu' = t /\ step' = [step EXCEPT ![t] = "both"]
  /\ UNCHANGED <<loopVars, events, inputMu, clientVars>>

\* and give both back.
ReleaseBoth(t) ==
  /\ step[t] = "both"
  /\ inputMu' = Nobody /\ streamMu' = Nobody /\ step' = [step EXCEPT ![t] = "idle"]
  /\ UNCHANGED <<loopVars, events, clientVars>>

\* The stream loop captures and encodes in streamMu; with streamMu given back it
\* recovers from an error.
Round ==
  /\ step[Loop] = "idle" /\ streamMu = Nobody
  /\ streamMu' = Loop /\ step' = [step EXCEPT ![Loop] = "round"]
  /\ UNCHANGED <<loopVars, events, inputMu, clientVars>>

RoundEnds ==
  /\ step[Loop] = "round"
  /\ streamMu' = Nobody
  /\ \E next \in {"idle", "input"} : step' = [step EXCEPT ![Loop] = next]
  /\ UNCHANGED <<loopVars, events, inputMu, clientVars>>

\* A peer's callback, the loop of the engine or a broadcast has something to
\* tell the window.
Other ==
  /\ Emit
  /\ UNCHANGED <<loopVars, hubVars>>

-----------------------------------------------------------------------------
Poll == PollOther \/ DisconnectAll \/ Approve \/ Quit
WindowStep == Poll \/ Kick \/ KickReport \/ CloseStream \/ Grant \/ TakeEvent \/ TurnEnds
Leave(c) == Unregister(c) \/ UnregisterReport(c)
TaskStep(t) == AcquireInput(t) \/ Act(t) \/ (\E c \in Client : Detach(t, c)) \/ DetachReport(t)
               \/ WantStream(t) \/ AcquireStream(t) \/ ReleaseBoth(t)

Next ==
  \/ WindowStep \/ Other \/ Round \/ RoundEnds
  \/ \E c \in Client : Register(c) \/ RegisterReport(c) \/ Beat(c) \/ Expire(c) \/ PumpReturns(c) \/ Leave(c)
  \/ \E t \in Task : Start(t) \/ TaskStep(t)

\* Every thread runs, and no lock and no channel passes one over for ever:
\* what waits there is served in turn.
Fairness ==
  /\ SF_vars(WindowStep)
  /\ \A c \in Client :
       /\ SF_vars(RegisterReport(c)) /\ SF_vars(Expire(c)) /\ SF_vars(Leave(c))
       /\ WF_vars(c \in rejected /\ PumpReturns(c))
  /\ \A t \in Task : SF_vars(TaskStep(t))
  /\ WF_vars(RoundEnds)

FairSpec == Init /\ [][Next]_vars /\ Fairness

-----------------------------------------------------------------------------
\* "One goroutine does the writing of a connection, which rules out deadlock":
\* a writePump that returns gets through the clean-up it has deferred.
WritePumpEnds == \A c \in Client : pump[c] = "leaving" ~> pump[c] = "ended"

=============================================================================
