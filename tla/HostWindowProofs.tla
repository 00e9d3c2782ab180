-------------------------- MODULE HostWindowProofs --------------------------
(***************************************************************************)
(* Why the window of HostWindow can stop, for any clients, callbacks, room *)
(* in the channel of events and number of events in a turn.  The locks     *)
(* alone would not stop anybody: inputMu is always taken before streamMu,  *)
(* so that whoever a thread waits for, over both locks, goes on, unless it *)
(* is at a report of the clients that are left.  A wait of the window's    *)
(* thread behind such a report with the channel full has no end, nor has   *)
(* anybody's wait for inputMu then.                                        *)
(***************************************************************************)
EXTENDS HostWindow, TLAPS

\* All that is assumed of the constants: the names of the threads differ.
NamesApart ==
  /\ Client \cap Task = {} /\ Loop \notin Caller /\ Display \notin Caller /\ Loop # Display
  /\ Window \notin Client \cup Task /\ Nobody \notin Client \cup Task /\ Window # Nobody
  /\ EventCap \in Nat

TypeOK ==
  /\ window \in {"poll", "events", "kick", "hub", "grant", "report", "last", "stream", "closed"}
  /\ cancelled \in BOOLEAN /\ events \in 0..EventCap
  /\ inputMu \in Client \cup Task \cup {Window, Nobody} /\ streamMu \in Task \cup {Nobody}
  /\ members \subseteq Client
  /\ pump \in [Client -> {"entering", "running", "beat", "expire", "leaving", "report", "ended"}]
  /\ step \in [Task -> {"idle", "input", "acting", "stream", "both", "report", "round"}]

\* Which steps are the sections of the two locks; and who does what
Sections ==
  /\ inputMu = Window <=> window \in {"report", "last"}
  /\ \A c \in Client : inputMu = c <=> pump[c] \in {"expire", "report"}
  /\ \A t \in Task : inputMu = t <=> step[t] \in {"acting", "stream", "both", "report"}
  /\ \A t \in Task : streamMu = t <=> step[t] \in {"both", "round"}
  /\ \A t \in Task : step[t] = "round" => t = Loop
  /\ window \in {"hub", "last"} => cancelled

IInv == TypeOK /\ Sections

\* Threads that wait for neither lock and no room
CanGo(t) == \/ t \in Client /\ pump[t] = "expire"
            \/ t \in Task /\ step[t] \in {"acting", "both", "round"}

\* Threads in one of the three reports that are made with inputMu held
Reporting(t) == \/ t = Window /\ window \in {"report", "last"}
                \/ t \in Client /\ pump[t] = "report"
                \/ t \in Task /\ step[t] = "report"

\* Who holds a lock goes on; or has inputMu and waits for streamMu, and that is
\* free or its holder goes on; or it is at its report, without streamMu.
OnlyReportsBlock ==
  /\ streamMu # Nobody => CanGo(streamMu)
  /\ inputMu # Nobody => \/ CanGo(inputMu)
                         \/ inputMu # streamMu /\ (streamMu = Nobody \/ CanGo(streamMu)) /\ step[inputMu] = "stream"
                         \/ inputMu # streamMu /\ Reporting(inputMu)

\* The window's thread waits for room, or for the lock of one who does, and
\* nobody else makes any; the engine is not being closed.
Frozen ==
  /\ events = EventCap /\ ~cancelled
  /\ window = "report" \/ (window \in {"kick", "grant"} /\ Reporting(inputMu))

\* Threads that wait for inputMu: a client that leaves or looks after the lease,
\* a command, a Grant, a Detach, the recovery of the capture
Waits(t) == \/ t \in Client /\ pump[t] \in {"leaving", "beat"}
            \/ t \in Task /\ step[t] = "input"

-----------------------------------------------------------------------------
LEMMA InitInv == ASSUME NamesApart PROVE Init => IInv
<1> SUFFICES ASSUME Init PROVE IInv
  OBVIOUS
<1>1. TypeOK
  <2>1. cancelled \in BOOLEAN
    BY DEF Init
  <2>2. events \in 0..EventCap
    BY DEF Init, NamesApart
  <2> QED
    BY <2>1, <2>2 DEF Init, TypeOK
<1>2. Sections
  BY DEF NamesApart, Init, Sections
<1> QED
  BY <1>1, <1>2 DEF IInv

\* Each step keeps the invariant.
LEMMA NextInv == ASSUME NamesApart PROVE IInv /\ [Next]_vars => IInv'
<1> SUFFICES ASSUME IInv, [Next]_vars PROVE IInv'
  OBVIOUS
<1> USE DEF NamesApart, IInv, TypeOK, Sections, loopVars, clientVars, hubVars
<1>1. CASE Poll
  <2>1. /\ window' \in {"events", "kick", "grant"} /\ window = "poll"
        /\ UNCHANGED <<events, inputMu, streamMu, members, pump, step>>
    BY <1>1 DEF Poll, PollOther, DisconnectAll, Approve, Quit
  <2>2. cancelled' \in BOOLEAN
    BY <1>1 DEF Poll, PollOther, DisconnectAll, Approve, Quit
  <2> QED
    BY <2>1, <2>2
<1>2. CASE Kick
  BY <1>2 DEF Kick
<1>3. CASE KickReport
  BY <1>3 DEF KickReport, Emit
<1>4. CASE CloseStream \/ Grant \/ TakeEvent \/ TurnEnds
  BY <1>4 DEF CloseStream, Grant, TakeEvent, TurnEnds
<1>5. CASE Other
  BY <1>5 DEF Other, Emit
<1>6. ASSUME NEW c \in Client,
             Register(c) \/ RegisterReport(c) \/ Beat(c) \/ PumpReturns(c)
      PROVE  IInv'
  BY <1>6 DEF Register, RegisterReport, Beat, PumpReturns, Emit
<1>7. ASSUME NEW c \in Client, Expire(c) PROVE IInv'
  BY <1>7 DEF Expire
<1>8. ASSUME NEW c \in Client, Unregister(c) PROVE IInv'
  <2>1. CASE c \in members
    BY <1>8, <2>1 DEF Unregister
  <2>2. CASE c \notin members
    BY <1>8, <2>2 DEF Unregister
  <2> QED
    BY <2>1, <2>2
<1>9. ASSUME NEW c \in Client, UnregisterReport(c) PROVE IInv'
  BY <1>9 DEF UnregisterReport, Emit
<1>10. ASSUME NEW t \in Task, Start(t) PROVE IInv'
  BY <1>10 DEF Start
<1>11. ASSUME NEW t \in Task, AcquireInput(t) PROVE IInv'
  BY <1>11 DEF AcquireInput
<1>12. ASSUME NEW t \in Task, Act(t) \/ WantStream(t) PROVE IInv'
  BY <1>12 DEF Act, WantStream
<1>13. ASSUME NEW t \in Task, NEW c \in Client, Detach(t, c) PROVE IInv'
  BY <1>13 DEF Detach
<1>14. ASSUME NEW t \in Task, DetachReport(t) PROVE IInv'
  BY <1>14 DEF DetachReport, Emit
<1>15. ASSUME NEW t \in Task, AcquireStream(t) \/ ReleaseBoth(t) PROVE IInv'
  BY <1>15 DEF AcquireStream, ReleaseBoth
<1>16. CASE Round \/ RoundEnds
  BY <1>16 DEF Round, RoundEnds, Task
<1>17. CASE UNCHANGED vars
  BY <1>17 DEF vars
<1> QED
  BY <1>1, <1>2, <1>3, <1>4, <1>5, <1>6, <1>7, <1>8, <1>9, <1>10, <1>11, <1>12, <1>13,
     <1>14, <1>15, <1>16, <1>17
     DEF Next, WindowStep, Leave, TaskStep

\* The locks are taken in one order, by commands, heartbeats, grants, recoveries,
\* rounds and clean-ups alike: no thread that waits for a lock waits for a circle,
\* and what can block everybody is a report that finds no room.
THEOREM LocksAreOrdered == ASSUME NamesApart PROVE FairSpec => []OnlyReportsBlock
<1>1. IInv => OnlyReportsBlock
  BY DEF NamesApart, IInv, TypeOK, Sections, OnlyReportsBlock, CanGo, Reporting
<1> QED
  BY <1>1, InitInv, NextInv, PTL DEF FairSpec

-----------------------------------------------------------------------------
\* Who waits for room while the channel is full does not get it.
LEMMA NoRoom == ASSUME NamesApart, Frozen, Emit PROVE FALSE
BY DEF NamesApart, Frozen, Emit

\* When the window's thread is frozen no step of anybody sets it free, or lets
\* anybody through who waits for inputMu.
LEMMA FrozenStep ==
  ASSUME NamesApart, IInv, [Next]_vars, Frozen
  PROVE  Frozen' /\ \A t \in Client \cup Task : Waits(t) => Waits(t)'
<1> DEFINE Stays == \A t \in Client \cup Task : Waits(t) => Waits(t)'
<1> USE DEF Frozen, Reporting, Waits, IInv, TypeOK, Sections, NamesApart, loopVars, clientVars, hubVars
<1>1. inputMu # Nobody /\ Reporting(inputMu) /\ inputMu # streamMu
  OBVIOUS
<1>2. CASE WindowStep
  BY <1>1, <1>2, NoRoom
     DEF WindowStep, Poll, PollOther, DisconnectAll, Approve, Quit, Kick, KickReport, CloseStream,
         Grant, TakeEvent, TurnEnds
<1>3. CASE Other
  BY <1>3, NoRoom DEF Other
<1>4. ASSUME NEW c \in Client, Register(c) \/ Beat(c) \/ PumpReturns(c) PROVE Frozen' /\ Stays
  BY <1>4 DEF Register, Beat, PumpReturns
<1>5. ASSUME NEW c \in Client, RegisterReport(c) PROVE FALSE
  BY <1>5, NoRoom DEF RegisterReport
<1>6. ASSUME NEW c \in Client, Expire(c) \/ Leave(c) PROVE FALSE
  BY <1>1, <1>6, NoRoom DEF Expire, Leave, Unregister, UnregisterReport
<1>7. ASSUME NEW t \in Task, Start(t) PROVE Frozen' /\ Stays
  BY <1>7 DEF Start
<1>8. ASSUME NEW t \in Task, TaskStep(t) PROVE FALSE
  BY <1>1, <1>8, NoRoom
     DEF TaskStep, AcquireInput, Act, Detach, DetachReport, WantStream, AcquireStream, ReleaseBoth
<1>9. CASE Round \/ RoundEnds
  BY <1>1, <1>9 DEF Round, RoundEnds, Task
<1>10. CASE UNCHANGED vars
  BY <1>10 DEF vars
<1> QED
  BY <1>2, <1>3, <1>4, <1>5, <1>6, <1>7, <1>8, <1>9, <1>10 DEF Next

\* A window that waits with the channel full waits for ever, whatever else runs.
THEOREM FrozenForever == ASSUME NamesApart PROVE FairSpec => [](Frozen => []Frozen)
<1>1. IInv /\ [Next]_vars /\ Frozen => Frozen'
  BY FrozenStep
<1> QED
  BY <1>1, InitInv, NextInv, PTL DEF FairSpec

\* A writePump that returns meanwhile does not get through its clean-up, nor does
\* a command, a heartbeat or a recovery of the picture get inputMu, although every
\* thread and lock is fair: the comment that one writer rules out deadlock does not
\* hold of the window.
THEOREM WaitingIsStuck ==
  ASSUME NamesApart, NEW t \in Client \cup Task
  PROVE  FairSpec => [](Frozen /\ Waits(t) => []Waits(t))
<1>1. IInv /\ [Next]_vars /\ Frozen /\ Waits(t) => Frozen' /\ Waits(t)'
  BY FrozenStep
<1> QED
  BY <1>1, InitInv, NextInv, PTL DEF FairSpec

=============================================================================
