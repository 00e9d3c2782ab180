-------------------------- MODULE ControlHubProofs --------------------------
(***************************************************************************)
(* Theorems about ControlHub for every set of clients, tokens, keys and    *)
(* buttons and every length of the lease and of the override: its          *)
(* invariants, and that it implements ControlLease.                        *)
(***************************************************************************)
EXTENDS ControlHub, TLAPS

\* The two goroutines of a client in the table are still there: either of
\* them ends by way of unregisterClient.
GoroutinesOfRegistered ==
  \A c \in registered : /\ reader[c] \in {"reading", "detach"}
                        /\ pump[c] \in {"idle", "expire", "exit"}

\* What the owner of inputMu may rely on in each of its steps.  Only sections
\* change the controller, so it is still the one tryAcquireControl left.
SectionInv ==
  /\ at \in {"inject", "press", "lift"} => who \in Client /\ controller = who /\ key \in Input
  /\ at = "press" => key \in Keys
  /\ at = "acquire" => who \in Client /\ (key \in Input \/ verb = "take")
  /\ at \in {"unregister", "depart"} => who \in Client
  /\ at \in {"unregister", "kick"} => controller = Nobody

\* Without a controller there is no expiry left over.
NoLease == controller = Nobody => lease = 0

IInv == /\ TypeOK
        /\ GoroutinesOfRegistered
        /\ SectionInv
        /\ NoLease
        /\ ControllerEntitled
        /\ HeldForController
        /\ ButtonsYield

-----------------------------------------------------------------------------
\* A hub that has just been built holds no key and has no controller.
LEMMA InitIInv == Init => IInv
<1> SUFFICES ASSUME Init PROVE IInv
  OBVIOUS
<1>1. TypeOK
  <2>1. lease \in 0..LeaseSpan /\ override \in 0..OverrideSpan
    BY ControlHubAssumption DEF Init
  <2>2. heldBy \in [Input -> Client \cup {Nobody}]
    BY DEF Init, NothingHeld
  <2>3. QED
    BY <2>1, <2>2 DEF Init, TypeOK, Steps, CommandSteps, Verbs
<1>2. GoroutinesOfRegistered /\ SectionInv /\ NoLease /\ ControllerEntitled
  BY DEF Init, GoroutinesOfRegistered, SectionInv, NoLease, ControllerEntitled
<1>3. HeldForController /\ ButtonsYield
  BY DEF Init, HeldForController, ButtonsYield, NothingHeld, Input
<1>4. QED
  BY <1>1, <1>2, <1>3 DEF IInv

\* Every step keeps the types: only the sections take values from one variable to another.
LEMMA TypeStep == IInv /\ [Next]_vars => TypeOK'
<1> SUFFICES ASSUME IInv, [Next]_vars PROVE TypeOK'
  OBVIOUS
<1> USE DEF IInv, TypeOK, SectionInv, Steps, CommandSteps, Verbs, Input
<1>1. ASSUME NEW c \in Client,
        AttachCheck(c) \/ Register(c) \/ ReaderEnds(c) \/ TooSlow(c) \/ WindowPasses(c)
         \/ PumpRejects(c) \/ PumpEnds(c) \/ Heartbeat(c) \/ CommandRejected(c)
  PROVE  TypeOK'
  BY ControlHubAssumption, <1>1 DEF AttachCheck, Register, ReaderEnds, TooSlow, WindowPasses,
      PumpRejects, PumpEnds, Heartbeat, CommandRejected, Free, Reading, Authed, Valid, Alive,
      leaseVars, localVars, sectionVars
<1>2. ASSUME NEW t \in Token,
        Issue(t) \/ Revoke(t)
  PROVE  TypeOK'
  BY ControlHubAssumption, <1>2 DEF Issue, Revoke, connVars, leaseVars, localVars, sectionVars
<1>3. ASSUME NEW c \in Client, ExpireControl(c) PROVE TypeOK'
  BY ControlHubAssumption, <1>3 DEF ExpireControl, ReleaseAllKeys, NothingHeld, ClearController,
      Free, MustExpire, Authed, Valid, IsOverridden, leaseVars, localVars, sectionVars
<1>4. ASSUME NEW c \in Client, NEW by \in {"reader", "pump"}, UnregisterAgain(c, by)
  PROVE  TypeOK'
  BY ControlHubAssumption, <1>4 DEF UnregisterAgain, Free, Finish, Ended, leaseVars, localVars,
      sectionVars
<1>5. ASSUME NEW c \in Client, NEW by \in {"reader", "pump"}, UnregisterBegin(c, by)
  PROVE  TypeOK'
  BY ControlHubAssumption, <1>5 DEF UnregisterBegin, ClearController, Free, Lock, Finish, Ended,
      leaseVars, localVars
<1>6. ASSUME NEW c \in Client, ReleaseKeysCommand(c) PROVE TypeOK'
  BY ControlHubAssumption, <1>6 DEF ReleaseKeysCommand, ReleaseAllKeys, NothingHeld, Free,
      Reading, Role, Authed, Valid, IsController, connVars, leaseVars, localVars, sectionVars
<1>7. ASSUME NEW c \in Client, ReleaseControl(c) PROVE TypeOK'
  BY ControlHubAssumption, <1>7 DEF ReleaseControl, ReleaseAllKeys, NothingHeld, ClearController,
      Free, Reading, Authed, Valid, connVars, localVars, sectionVars
<1>8. ASSUME NEW c \in Client, NEW v \in Verbs, NEW i \in Input \cup {NoInput}, Dispatch(c, v, i)
  PROVE  TypeOK'
  BY ControlHubAssumption, <1>8 DEF Dispatch, Entitled, Presses, Free, Reading, Role, Authed, Valid, connVars,
      leaseVars, localVars
<1>9. ASSUME NEW c \in Client, NEW t \in Token, Login(c, t) PROVE TypeOK'
  BY ControlHubAssumption, <1>9 DEF Login, Free, Reading, Authed, leaseVars, localVars,
      sectionVars
<1>10. ASSUME NEW c \in Client, NEW t \in Token, Grant(c, t) PROVE TypeOK'
  BY ControlHubAssumption, <1>10 DEF Grant, ReleaseAllKeys, NothingHeld, ClearController, Free,
      leaseVars, localVars, sectionVars
<1>11. ASSUME NEW c \in Client, Acquire(c) PROVE TypeOK'
  BY ControlHubAssumption, <1>11 DEF Acquire, ReleaseAllKeys, NothingHeld, Unlock, Grab, Acquired,
      CanAcquire, OpenDesktop, MayPreempt, Role, Authed, Valid, IsOverridden, connVars, leaseVars,
      localVars
<1>12. ASSUME PressButton PROVE TypeOK'
  BY ControlHubAssumption, <1>12 DEF PressButton, Unlock, IsOverridden, connVars, leaseVars,
      localVars
<1>13. ASSUME CheckKey PROVE TypeOK'
  BY ControlHubAssumption, <1>13 DEF CheckKey, KeyDone, Unlock, Role, Authed, IsOverridden, Blocked,
      connVars, leaseVars, localVars
<1>14. ASSUME PressKey PROVE TypeOK'
  BY ControlHubAssumption, <1>14 DEF PressKey, KeyDone, Unlock, connVars, leaseVars, localVars
<1>15. ASSUME LiftKey PROVE TypeOK'
  BY ControlHubAssumption, <1>15 DEF LiftKey, Unlock, connVars, leaseVars, localVars
<1>16. ASSUME UnregisterEnd PROVE TypeOK'
  BY ControlHubAssumption, <1>16 DEF UnregisterEnd, ReleaseAllKeys, NothingHeld, Unlock,
      leaseVars, localVars
<1>17. ASSUME KickEnd PROVE TypeOK'
  BY ControlHubAssumption, <1>17 DEF KickEnd, ReleaseAllKeys, NothingHeld, Unlock, leaseVars,
      localVars
<1>18. ASSUME KickBegin PROVE TypeOK'
  BY ControlHubAssumption, <1>18 DEF KickBegin, ClearController, Free, Lock, localVars
<1>19. ASSUME RecoverCapture PROVE TypeOK'
  BY ControlHubAssumption, <1>19 DEF RecoverCapture, ReleaseAllKeys, NothingHeld, Free, connVars,
      leaseVars, localVars, sectionVars
<1>20. ASSUME PhysicalAction PROVE TypeOK'
  BY ControlHubAssumption, <1>20 DEF PhysicalAction, connVars, leaseVars, sectionVars
<1>21. ASSUME OverrideTicker PROVE TypeOK'
  BY ControlHubAssumption, <1>21 DEF OverrideTicker, ReleaseAllKeys, NothingHeld, connVars,
      leaseVars, sectionVars
<1>22. ASSUME Tick PROVE TypeOK'
  BY ControlHubAssumption, <1>22 DEF Tick, connVars, sectionVars
<1>23. CASE UNCHANGED vars
  BY <1>23 DEF vars, connVars, leaseVars, localVars, sectionVars
<1>24. QED
  BY <1>1, <1>2, <1>3, <1>4, <1>5, <1>6, <1>7, <1>8, <1>9, <1>10, <1>11, <1>12, <1>13, <1>14,
      <1>15, <1>16, <1>17, <1>18, <1>19, <1>20, <1>21, <1>22, <1>23 DEF Next, Goroutines, Section

\* A client enters the table with both goroutines and leaves it before either is gone.
LEMMA GoroutinesStep == IInv /\ [Next]_vars => GoroutinesOfRegistered'
<1> SUFFICES ASSUME IInv, [Next]_vars PROVE GoroutinesOfRegistered'
  OBVIOUS
<1> USE DEF IInv, TypeOK, GoroutinesOfRegistered
<1>1. ASSUME NEW c \in Client,
        TooSlow(c) \/ WindowPasses(c) \/ ExpireControl(c) \/ CommandRejected(c)
         \/ ReleaseKeysCommand(c) \/ ReleaseControl(c) \/ Acquire(c)
  PROVE  GoroutinesOfRegistered'
  BY <1>1 DEF TooSlow, WindowPasses, ExpireControl, CommandRejected, ReleaseKeysCommand,
      ReleaseControl, Acquire, ReleaseAllKeys, NothingHeld, ClearController, Free, Unlock,
      Reading, Grab, Acquired, CanAcquire, OpenDesktop, MayPreempt, MustExpire, Role, Authed,
      Valid, IsController, IsOverridden, connVars, leaseVars, localVars, sectionVars
<1>2. ASSUME NEW c \in Client, NEW t \in Token,
        Login(c, t) \/ Grant(c, t)
  PROVE  GoroutinesOfRegistered'
  BY <1>2 DEF Login, Grant, ReleaseAllKeys, NothingHeld, ClearController, Free, Reading, Authed,
      leaseVars, localVars, sectionVars
<1>3. ASSUME 
        PressButton \/ CheckKey \/ PressKey \/ LiftKey \/ UnregisterEnd \/ KickEnd
  PROVE  GoroutinesOfRegistered'
  BY <1>3 DEF PressButton, CheckKey, PressKey, KeyDone, LiftKey, UnregisterEnd, KickEnd, ReleaseAllKeys,
      NothingHeld, Unlock, Role, Authed, IsOverridden, Blocked, connVars, leaseVars, localVars
<1>4. ASSUME 
        RecoverCapture \/ PhysicalAction \/ OverrideTicker \/ Tick
  PROVE  GoroutinesOfRegistered'
  BY <1>4 DEF RecoverCapture, PhysicalAction, OverrideTicker, Tick, ReleaseAllKeys, NothingHeld,
      Free, connVars, leaseVars, localVars, sectionVars
<1>5. ASSUME NEW t \in Token,
        Issue(t) \/ Revoke(t)
  PROVE  GoroutinesOfRegistered'
  BY <1>5 DEF Issue, Revoke, connVars, leaseVars, localVars, sectionVars
<1>6. ASSUME NEW c \in Client, AttachCheck(c) PROVE GoroutinesOfRegistered'
  BY <1>6 DEF AttachCheck, leaseVars, localVars, sectionVars
<1>7. ASSUME NEW c \in Client, Register(c) PROVE GoroutinesOfRegistered'
  BY <1>7 DEF Register, leaseVars, localVars, sectionVars
<1>8. ASSUME NEW c \in Client, ReaderEnds(c) PROVE GoroutinesOfRegistered'
  BY <1>8 DEF ReaderEnds, leaseVars, localVars, sectionVars
<1>9. ASSUME NEW c \in Client, PumpRejects(c) PROVE GoroutinesOfRegistered'
  BY <1>9 DEF PumpRejects, Authed, Valid, Alive, leaseVars, localVars, sectionVars
<1>10. ASSUME NEW c \in Client, PumpEnds(c) PROVE GoroutinesOfRegistered'
  BY <1>10 DEF PumpEnds, leaseVars, localVars, sectionVars
<1>11. ASSUME NEW c \in Client, Heartbeat(c) PROVE GoroutinesOfRegistered'
  BY <1>11 DEF Heartbeat, Authed, Valid, Alive, leaseVars, localVars, sectionVars
<1>12. ASSUME NEW c \in Client, NEW by \in {"reader", "pump"}, UnregisterAgain(c, by)
  PROVE  GoroutinesOfRegistered'
  BY <1>12 DEF UnregisterAgain, Free, Finish, Ended, leaseVars, localVars, sectionVars
<1>13. ASSUME NEW c \in Client, NEW by \in {"reader", "pump"}, UnregisterBegin(c, by)
  PROVE  GoroutinesOfRegistered'
  BY <1>13 DEF UnregisterBegin, ClearController, Free, Lock, Finish, Ended, leaseVars, localVars
<1>14. ASSUME NEW c \in Client, NEW v \in Verbs, NEW i \in Input \cup {NoInput}, Dispatch(c, v, i)
  PROVE  GoroutinesOfRegistered'
  BY <1>14 DEF Dispatch, Entitled, Presses, Free, Reading, Role, Authed, Valid, connVars, leaseVars, localVars
<1>15. ASSUME KickBegin PROVE GoroutinesOfRegistered'
  BY <1>15 DEF KickBegin, ClearController, Free, Lock, localVars
<1>16. CASE UNCHANGED vars
  BY <1>16 DEF vars, connVars, leaseVars, localVars, sectionVars
<1>17. QED
  BY <1>1, <1>2, <1>3, <1>4, <1>5, <1>6, <1>7, <1>8, <1>9, <1>10, <1>11, <1>12, <1>13, <1>14,
      <1>15, <1>16 DEF Next, Goroutines, Section

\* A section runs alone: nothing else changes the controller, the step or its command.
LEMMA SectionStep == IInv /\ [Next]_vars => SectionInv'
<1> SUFFICES ASSUME IInv, [Next]_vars PROVE SectionInv'
  OBVIOUS
<1> USE DEF IInv, TypeOK, SectionInv, Steps, CommandSteps, Verbs, Input
<1>1. ASSUME NEW c \in Client,
        AttachCheck(c) \/ Register(c) \/ ReaderEnds(c) \/ TooSlow(c) \/ WindowPasses(c)
         \/ PumpRejects(c) \/ PumpEnds(c) \/ Heartbeat(c) \/ CommandRejected(c)
  PROVE  SectionInv'
  BY <1>1 DEF AttachCheck, Register, ReaderEnds, TooSlow, WindowPasses, PumpRejects, PumpEnds,
      Heartbeat, CommandRejected, Free, Reading, Authed, Valid, Alive, leaseVars, localVars,
      sectionVars
<1>2. ASSUME 
        RecoverCapture \/ OverrideTicker
  PROVE  SectionInv'
  BY <1>2 DEF RecoverCapture, OverrideTicker, ReleaseAllKeys, NothingHeld, Free, connVars,
      leaseVars, localVars, sectionVars
<1>3. ASSUME NEW c \in Client, NEW t \in Token,
        Login(c, t) \/ Grant(c, t)
  PROVE  SectionInv'
  BY <1>3 DEF Login, Grant, ReleaseAllKeys, NothingHeld, ClearController, Free, Reading, Authed,
      leaseVars, localVars, sectionVars
<1>4. ASSUME NEW t \in Token,
        Issue(t) \/ Revoke(t)
  PROVE  SectionInv'
  BY <1>4 DEF Issue, Revoke, connVars, leaseVars, localVars, sectionVars
<1>5. ASSUME 
        PhysicalAction \/ Tick
  PROVE  SectionInv'
  BY <1>5 DEF PhysicalAction, Tick, connVars, leaseVars, sectionVars
<1>6. ASSUME 
        PressButton \/ LiftKey \/ UnregisterEnd \/ KickEnd
  PROVE  SectionInv'
  BY <1>6 DEF PressButton, LiftKey, UnregisterEnd, KickEnd, ReleaseAllKeys, NothingHeld, Unlock,
      IsOverridden, connVars, leaseVars, localVars
<1>7. ASSUME NEW c \in Client,
        ReleaseControl(c) \/ ExpireControl(c)
  PROVE  SectionInv'
  BY <1>7 DEF ReleaseControl, ExpireControl, ReleaseAllKeys, NothingHeld, ClearController, Free,
      Reading, MustExpire, Authed, Valid, IsOverridden, connVars, leaseVars, localVars,
      sectionVars
<1>8. ASSUME NEW c \in Client, NEW by \in {"reader", "pump"}, UnregisterAgain(c, by)
  PROVE  SectionInv'
  BY <1>8 DEF UnregisterAgain, Free, Finish, Ended, leaseVars, localVars, sectionVars
<1>9. ASSUME NEW c \in Client, NEW by \in {"reader", "pump"}, UnregisterBegin(c, by)
  PROVE  SectionInv'
  BY <1>9 DEF UnregisterBegin, ClearController, Free, Lock, Finish, Ended, leaseVars, localVars
<1>10. ASSUME NEW c \in Client, ReleaseKeysCommand(c) PROVE SectionInv'
  BY <1>10 DEF ReleaseKeysCommand, ReleaseAllKeys, NothingHeld, Free, Reading, Role, Authed,
      Valid, IsController, connVars, leaseVars, localVars, sectionVars
<1>11. ASSUME NEW c \in Client, NEW v \in Verbs, NEW i \in Input \cup {NoInput}, Dispatch(c, v, i)
  PROVE  SectionInv'
  BY <1>11 DEF Dispatch, Entitled, Presses, Free, Reading, Role, Authed, Valid, connVars, leaseVars, localVars
<1>12. ASSUME NEW c \in Client, Acquire(c) PROVE SectionInv'
  BY <1>12 DEF Acquire, ReleaseAllKeys, NothingHeld, Unlock, Grab, Acquired, CanAcquire,
      OpenDesktop, MayPreempt, Role, Authed, Valid, IsOverridden, connVars, leaseVars, localVars
<1>13. ASSUME CheckKey PROVE SectionInv'
  BY <1>13 DEF CheckKey, KeyDone, Unlock, Role, Authed, IsOverridden, Blocked, connVars, leaseVars,
      localVars
<1>14. ASSUME PressKey PROVE SectionInv'
  BY <1>14 DEF PressKey, KeyDone, Unlock, connVars, leaseVars, localVars
<1>15. ASSUME KickBegin PROVE SectionInv'
  BY <1>15 DEF KickBegin, ClearController, Free, Lock, localVars
<1>16. CASE UNCHANGED vars
  BY <1>16 DEF vars, connVars, leaseVars, localVars, sectionVars
<1>17. QED
  BY <1>1, <1>2, <1>3, <1>4, <1>5, <1>6, <1>7, <1>8, <1>9, <1>10, <1>11, <1>12, <1>13, <1>14,
      <1>15, <1>16 DEF Next, Goroutines, Section

\* controllerExpiry is reset wherever currentController becomes nil.
LEMMA NoLeaseStep == IInv /\ [Next]_vars => NoLease'
<1> SUFFICES ASSUME IInv, [Next]_vars PROVE NoLease'
  OBVIOUS
<1> USE DEF IInv, TypeOK, NoLease
<1>1. ASSUME NEW c \in Client,
        AttachCheck(c) \/ Register(c) \/ ReaderEnds(c) \/ TooSlow(c) \/ WindowPasses(c)
         \/ PumpRejects(c) \/ PumpEnds(c) \/ Heartbeat(c) \/ CommandRejected(c)
  PROVE  NoLease'
  BY <1>1 DEF AttachCheck, Register, ReaderEnds, TooSlow, WindowPasses, PumpRejects, PumpEnds,
      Heartbeat, CommandRejected, Free, Reading, Authed, Valid, Alive, leaseVars, localVars,
      sectionVars
<1>2. ASSUME NEW c \in Client,
        ReleaseKeysCommand(c) \/ ExpireControl(c) \/ ReleaseControl(c)
  PROVE  NoLease'
  BY <1>2 DEF ReleaseKeysCommand, ExpireControl, ReleaseControl, ReleaseAllKeys, NothingHeld,
      ClearController, Free, Reading, MustExpire, Role, Authed, Valid, IsController, IsOverridden,
      connVars, leaseVars, localVars, sectionVars
<1>3. ASSUME NEW c \in Client, NEW by \in {"reader", "pump"},
        UnregisterAgain(c, by) \/ UnregisterBegin(c, by)
  PROVE  NoLease'
  BY <1>3 DEF UnregisterAgain, UnregisterBegin, ClearController, Free, Lock, Finish, Ended,
      leaseVars, localVars, sectionVars
<1>4. ASSUME NEW c \in Client, NEW t \in Token,
        Login(c, t) \/ Grant(c, t)
  PROVE  NoLease'
  BY <1>4 DEF Login, Grant, ReleaseAllKeys, NothingHeld, ClearController, Free, Reading, Authed,
      leaseVars, localVars, sectionVars
<1>5. ASSUME 
        PressButton \/ CheckKey \/ PressKey \/ LiftKey \/ UnregisterEnd \/ KickEnd \/ KickBegin
         \/ RecoverCapture \/ OverrideTicker \/ PhysicalAction
  PROVE  NoLease'
  BY <1>5 DEF PressButton, CheckKey, PressKey, KeyDone, LiftKey, UnregisterEnd, KickEnd, KickBegin,
      RecoverCapture, OverrideTicker, PhysicalAction, ReleaseAllKeys, NothingHeld,
      ClearController, Free, Unlock, Lock, Role, Authed, IsOverridden, Blocked, connVars,
      leaseVars, localVars, sectionVars
<1>6. ASSUME NEW t \in Token,
        Issue(t) \/ Revoke(t)
  PROVE  NoLease'
  BY <1>6 DEF Issue, Revoke, connVars, leaseVars, localVars, sectionVars
<1>7. ASSUME NEW c \in Client, NEW v \in Verbs, NEW i \in Input \cup {NoInput}, Dispatch(c, v, i)
  PROVE  NoLease'
  BY <1>7 DEF Dispatch, Entitled, Presses, Free, Reading, Role, Authed, Valid, connVars, leaseVars, localVars
<1>8. ASSUME NEW c \in Client, Acquire(c) PROVE NoLease'
  BY ControlHubAssumption, <1>8 DEF Acquire, ReleaseAllKeys, NothingHeld, Unlock, Grab, Acquired, CanAcquire,
      OpenDesktop, MayPreempt, Role, Authed, Valid, IsOverridden, connVars, leaseVars, localVars
<1>9. ASSUME Tick PROVE NoLease'
  BY <1>9 DEF Tick, connVars, sectionVars
<1>10. CASE UNCHANGED vars
  BY <1>10 DEF vars, connVars, leaseVars, localVars, sectionVars
<1>11. QED
  BY <1>1, <1>2, <1>3, <1>4, <1>5, <1>6, <1>7, <1>8, <1>9, <1>10 DEF Next, Goroutines, Section

\* Whoever leaves the table or changes its token stops being the controller.
LEMMA EntitledStep == IInv /\ [Next]_vars => ControllerEntitled'
<1> SUFFICES ASSUME IInv, [Next]_vars PROVE ControllerEntitled'
  OBVIOUS
<1> USE DEF IInv, TypeOK, SectionInv, GoroutinesOfRegistered, ControllerEntitled,
           Role, Authed, RoleStandard
<1>1. ASSUME NEW c \in Client,
        Register(c) \/ ReaderEnds(c) \/ TooSlow(c) \/ WindowPasses(c) \/ PumpRejects(c)
         \/ PumpEnds(c) \/ Heartbeat(c) \/ CommandRejected(c)
  PROVE  ControllerEntitled'
  BY ControlHubAssumption, <1>1 DEF Register, ReaderEnds, TooSlow, WindowPasses, PumpRejects,
      PumpEnds, Heartbeat, CommandRejected, Free, Reading, Authed, Valid, Alive, leaseVars,
      localVars, sectionVars
<1>2. ASSUME 
        RecoverCapture \/ OverrideTicker
  PROVE  ControllerEntitled'
  BY ControlHubAssumption, <1>2 DEF RecoverCapture, OverrideTicker, ReleaseAllKeys, NothingHeld,
      Free, connVars, leaseVars, localVars, sectionVars
<1>3. ASSUME 
        PressButton \/ CheckKey \/ PressKey \/ LiftKey \/ UnregisterEnd \/ KickEnd
  PROVE  ControllerEntitled'
  BY ControlHubAssumption, <1>3 DEF PressButton, CheckKey, PressKey, KeyDone, LiftKey, UnregisterEnd,
      KickEnd, ReleaseAllKeys, NothingHeld, Unlock, Role, Authed, IsOverridden, Blocked, connVars,
      leaseVars, localVars
<1>4. ASSUME NEW t \in Token,
        Issue(t) \/ Revoke(t)
  PROVE  ControllerEntitled'
  BY ControlHubAssumption, <1>4 DEF Issue, Revoke, connVars, leaseVars, localVars, sectionVars
<1>5. ASSUME 
        PhysicalAction \/ Tick
  PROVE  ControllerEntitled'
  BY ControlHubAssumption, <1>5 DEF PhysicalAction, Tick, connVars, leaseVars, sectionVars
<1>6. ASSUME NEW c \in Client,
        ExpireControl(c) \/ ReleaseControl(c)
  PROVE  ControllerEntitled'
  BY ControlHubAssumption, <1>6 DEF ExpireControl, ReleaseControl, ReleaseAllKeys, NothingHeld,
      ClearController, Free, Reading, MustExpire, Authed, Valid, IsOverridden, connVars,
      leaseVars, localVars, sectionVars
<1>7. ASSUME NEW c \in Client, AttachCheck(c) PROVE ControllerEntitled'
  BY ControlHubAssumption, <1>7 DEF AttachCheck, leaseVars, localVars, sectionVars
<1>8. ASSUME NEW c \in Client, NEW by \in {"reader", "pump"}, UnregisterAgain(c, by)
  PROVE  ControllerEntitled'
  BY ControlHubAssumption, <1>8 DEF UnregisterAgain, Free, Finish, Ended, leaseVars, localVars,
      sectionVars
<1>9. ASSUME NEW c \in Client, NEW by \in {"reader", "pump"}, UnregisterBegin(c, by)
  PROVE  ControllerEntitled'
  BY ControlHubAssumption, <1>9 DEF UnregisterBegin, ClearController, Free, Lock, Finish, Ended,
      leaseVars, localVars
<1>10. ASSUME NEW c \in Client, ReleaseKeysCommand(c) PROVE ControllerEntitled'
  BY ControlHubAssumption, <1>10 DEF ReleaseKeysCommand, ReleaseAllKeys, NothingHeld, Free,
      Reading, Role, Authed, Valid, IsController, connVars, leaseVars, localVars, sectionVars
<1>11. ASSUME NEW c \in Client, NEW v \in Verbs, NEW i \in Input \cup {NoInput}, Dispatch(c, v, i)
  PROVE  ControllerEntitled'
  BY ControlHubAssumption, <1>11 DEF Dispatch, Entitled, Presses, Free, Reading, Role, Authed, Valid, connVars,
      leaseVars, localVars
<1>12. ASSUME NEW c \in Client, NEW t \in Token, Login(c, t) PROVE ControllerEntitled'
  BY ControlHubAssumption, <1>12 DEF Login, Free, Reading, Authed, leaseVars, localVars,
      sectionVars
<1>13. ASSUME NEW c \in Client, NEW t \in Token, Grant(c, t) PROVE ControllerEntitled'
  BY ControlHubAssumption, <1>13 DEF Grant, ReleaseAllKeys, NothingHeld, ClearController, Free,
      leaseVars, localVars, sectionVars
<1>14. ASSUME NEW c \in Client, Acquire(c) PROVE ControllerEntitled'
  BY ControlHubAssumption, <1>14 DEF Acquire, ReleaseAllKeys, NothingHeld, Unlock, Grab, Acquired,
      CanAcquire, OpenDesktop, MayPreempt, Role, Authed, Valid, IsOverridden, connVars, leaseVars,
      localVars
<1>15. ASSUME KickBegin PROVE ControllerEntitled'
  BY ControlHubAssumption, <1>15 DEF KickBegin, ClearController, Free, Lock, localVars
<1>16. CASE UNCHANGED vars
  BY <1>16 DEF vars, connVars, leaseVars, localVars, sectionVars
<1>17. QED
  BY <1>1, <1>2, <1>3, <1>4, <1>5, <1>6, <1>7, <1>8, <1>9, <1>10, <1>11, <1>12, <1>13, <1>14,
      <1>15, <1>16 DEF Next, Goroutines, Section

\* Keys come up with the lease they were pressed under.
LEMMA HeldStep == IInv /\ [Next]_vars => HeldForController'
<1> SUFFICES ASSUME IInv, [Next]_vars PROVE HeldForController'
  OBVIOUS
<1> USE DEF IInv, TypeOK, SectionInv, HeldForController, Input
<1>1. ASSUME NEW c \in Client,
        AttachCheck(c) \/ Register(c) \/ ReaderEnds(c) \/ TooSlow(c) \/ WindowPasses(c)
         \/ PumpRejects(c) \/ PumpEnds(c) \/ Heartbeat(c) \/ CommandRejected(c)
  PROVE  HeldForController'
  BY <1>1 DEF AttachCheck, Register, ReaderEnds, TooSlow, WindowPasses, PumpRejects, PumpEnds,
      Heartbeat, CommandRejected, Free, Reading, Authed, Valid, Alive, leaseVars, localVars,
      sectionVars
<1>2. ASSUME 
        RecoverCapture \/ OverrideTicker
  PROVE  HeldForController'
  BY <1>2 DEF RecoverCapture, OverrideTicker, ReleaseAllKeys, NothingHeld, Free, connVars,
      leaseVars, localVars, sectionVars
<1>3. ASSUME NEW t \in Token,
        Issue(t) \/ Revoke(t)
  PROVE  HeldForController'
  BY <1>3 DEF Issue, Revoke, connVars, leaseVars, localVars, sectionVars
<1>4. ASSUME 
        PhysicalAction \/ Tick
  PROVE  HeldForController'
  BY <1>4 DEF PhysicalAction, Tick, connVars, leaseVars, sectionVars
<1>5. ASSUME NEW c \in Client,
        ExpireControl(c) \/ ReleaseControl(c)
  PROVE  HeldForController'
  BY <1>5 DEF ExpireControl, ReleaseControl, ReleaseAllKeys, NothingHeld, ClearController, Free,
      Reading, MustExpire, Authed, Valid, IsOverridden, connVars, leaseVars, localVars,
      sectionVars
<1>6. ASSUME NEW c \in Client, NEW by \in {"reader", "pump"}, UnregisterAgain(c, by)
  PROVE  HeldForController'
  BY <1>6 DEF UnregisterAgain, Free, Finish, Ended, leaseVars, localVars, sectionVars
<1>7. ASSUME NEW c \in Client, NEW by \in {"reader", "pump"}, UnregisterBegin(c, by)
  PROVE  HeldForController'
  BY <1>7 DEF UnregisterBegin, ClearController, Free, Lock, Finish, Ended, leaseVars, localVars
<1>8. ASSUME NEW c \in Client, ReleaseKeysCommand(c) PROVE HeldForController'
  BY <1>8 DEF ReleaseKeysCommand, ReleaseAllKeys, NothingHeld, Free, Reading, Role, Authed, Valid,
      IsController, connVars, leaseVars, localVars, sectionVars
<1>9. ASSUME NEW c \in Client, NEW v \in Verbs, NEW i \in Input \cup {NoInput}, Dispatch(c, v, i)
  PROVE  HeldForController'
  BY <1>9 DEF Dispatch, Entitled, Presses, Free, Reading, Role, Authed, Valid, connVars, leaseVars, localVars
<1>10. ASSUME NEW c \in Client, NEW t \in Token, Login(c, t) PROVE HeldForController'
  BY <1>10 DEF Login, Free, Reading, Authed, leaseVars, localVars, sectionVars
<1>11. ASSUME NEW c \in Client, NEW t \in Token, Grant(c, t) PROVE HeldForController'
  BY <1>11 DEF Grant, ReleaseAllKeys, NothingHeld, ClearController, Free, leaseVars, localVars,
      sectionVars
<1>12. ASSUME NEW c \in Client, Acquire(c) PROVE HeldForController'
  BY <1>12 DEF Acquire, ReleaseAllKeys, NothingHeld, Unlock, Grab, Acquired, CanAcquire,
      OpenDesktop, MayPreempt, Role, Authed, Valid, IsOverridden, connVars, leaseVars, localVars
<1>13. ASSUME PressButton PROVE HeldForController'
  BY <1>13 DEF PressButton, Unlock, IsOverridden, connVars, leaseVars, localVars
<1>14. ASSUME CheckKey PROVE HeldForController'
  BY <1>14 DEF CheckKey, KeyDone, Unlock, Role, Authed, IsOverridden, Blocked, connVars, leaseVars,
      localVars
<1>15. ASSUME PressKey PROVE HeldForController'
  BY <1>15 DEF PressKey, KeyDone, Unlock, connVars, leaseVars, localVars
<1>16. ASSUME LiftKey PROVE HeldForController'
  BY <1>16 DEF LiftKey, Unlock, connVars, leaseVars, localVars
<1>17. ASSUME UnregisterEnd PROVE HeldForController'
  BY <1>17 DEF UnregisterEnd, ReleaseAllKeys, NothingHeld, Unlock, leaseVars, localVars
<1>18. ASSUME KickEnd PROVE HeldForController'
  BY <1>18 DEF KickEnd, ReleaseAllKeys, NothingHeld, Unlock, leaseVars, localVars
<1>19. ASSUME KickBegin PROVE HeldForController'
  BY <1>19 DEF KickBegin, ClearController, Free, Lock, localVars
<1>20. CASE UNCHANGED vars
  BY <1>20 DEF vars, connVars, leaseVars, localVars, sectionVars
<1>21. QED
  BY <1>1, <1>2, <1>3, <1>4, <1>5, <1>6, <1>7, <1>8, <1>9, <1>10, <1>11, <1>12, <1>13, <1>14,
      <1>15, <1>16, <1>17, <1>18, <1>19, <1>20 DEF Next, Goroutines, Section

\* MouseButton looks at the override in the same step as it presses.
LEMMA ButtonsStep == IInv /\ [Next]_vars => ButtonsYield'
<1> SUFFICES ASSUME IInv, [Next]_vars PROVE ButtonsYield'
  OBVIOUS
<1> USE DEF IInv, TypeOK, SectionInv, ButtonsYield, Input, IsOverridden
<1>1. ASSUME NEW c \in Client,
        AttachCheck(c) \/ Register(c) \/ ReaderEnds(c) \/ TooSlow(c) \/ WindowPasses(c)
         \/ PumpRejects(c) \/ PumpEnds(c) \/ Heartbeat(c) \/ CommandRejected(c)
  PROVE  ButtonsYield'
  BY ControlHubAssumption, <1>1 DEF AttachCheck, Register, ReaderEnds, TooSlow, WindowPasses,
      PumpRejects, PumpEnds, Heartbeat, CommandRejected, Free, Reading, Authed, Valid, Alive,
      leaseVars, localVars, sectionVars
<1>2. ASSUME NEW c \in Client, NEW by \in {"reader", "pump"},
        UnregisterAgain(c, by) \/ UnregisterBegin(c, by)
  PROVE  ButtonsYield'
  BY ControlHubAssumption, <1>2 DEF UnregisterAgain, UnregisterBegin, ClearController, Free, Lock,
      Finish, Ended, leaseVars, localVars, sectionVars
<1>3. ASSUME NEW c \in Client, NEW t \in Token,
        Login(c, t) \/ Grant(c, t)
  PROVE  ButtonsYield'
  BY ControlHubAssumption, <1>3 DEF Login, Grant, ReleaseAllKeys, NothingHeld, ClearController,
      Free, Reading, Authed, leaseVars, localVars, sectionVars
<1>4. ASSUME NEW c \in Client,
        ReleaseKeysCommand(c) \/ ReleaseControl(c) \/ ExpireControl(c)
  PROVE  ButtonsYield'
  BY ControlHubAssumption, <1>4 DEF ReleaseKeysCommand, ReleaseControl, ExpireControl,
      ReleaseAllKeys, NothingHeld, ClearController, Free, Reading, MustExpire, Role, Authed,
      Valid, IsController, IsOverridden, connVars, leaseVars, localVars, sectionVars
<1>5. ASSUME NEW t \in Token,
        Issue(t) \/ Revoke(t)
  PROVE  ButtonsYield'
  BY ControlHubAssumption, <1>5 DEF Issue, Revoke, connVars, leaseVars, localVars, sectionVars
<1>6. ASSUME 
        UnregisterEnd \/ KickEnd \/ KickBegin \/ RecoverCapture \/ OverrideTicker
  PROVE  ButtonsYield'
  BY ControlHubAssumption, <1>6 DEF UnregisterEnd, KickEnd, KickBegin, RecoverCapture,
      OverrideTicker, ReleaseAllKeys, NothingHeld, ClearController, Free, Unlock, Lock, connVars,
      leaseVars, localVars, sectionVars
<1>7. ASSUME NEW c \in Client, NEW v \in Verbs, NEW i \in Input \cup {NoInput}, Dispatch(c, v, i)
  PROVE  ButtonsYield'
  BY ControlHubAssumption, <1>7 DEF Dispatch, Entitled, Presses, Free, Reading, Role, Authed, Valid, connVars,
      leaseVars, localVars
<1>8. ASSUME NEW c \in Client, Acquire(c) PROVE ButtonsYield'
  BY ControlHubAssumption, <1>8 DEF Acquire, ReleaseAllKeys, NothingHeld, Unlock, Grab, Acquired,
      CanAcquire, OpenDesktop, MayPreempt, Role, Authed, Valid, IsOverridden, connVars, leaseVars,
      localVars
<1>9. ASSUME PressButton PROVE ButtonsYield'
  BY ControlHubAssumption, <1>9 DEF PressButton, Unlock, IsOverridden, connVars, leaseVars,
      localVars
<1>10. ASSUME CheckKey PROVE ButtonsYield'
  BY ControlHubAssumption, <1>10 DEF CheckKey, KeyDone, Unlock, Role, Authed, IsOverridden, Blocked,
      connVars, leaseVars, localVars
<1>11. ASSUME PressKey PROVE ButtonsYield'
  BY ControlHubAssumption, <1>11 DEF PressKey, KeyDone, Unlock, connVars, leaseVars, localVars
<1>12. ASSUME LiftKey PROVE ButtonsYield'
  BY ControlHubAssumption, <1>12 DEF LiftKey, Unlock, connVars, leaseVars, localVars
<1>13. ASSUME PhysicalAction PROVE ButtonsYield'
  BY ControlHubAssumption, <1>13 DEF PhysicalAction, connVars, leaseVars, sectionVars
<1>14. ASSUME Tick PROVE ButtonsYield'
  BY ControlHubAssumption, <1>14 DEF Tick, connVars, sectionVars
<1>15. CASE UNCHANGED vars
  BY <1>15 DEF vars, connVars, leaseVars, localVars, sectionVars
<1>16. QED
  BY <1>1, <1>2, <1>3, <1>4, <1>5, <1>6, <1>7, <1>8, <1>9, <1>10, <1>11, <1>12, <1>13, <1>14,
      <1>15 DEF Next, Goroutines, Section

-----------------------------------------------------------------------------
\* The inductive invariant, from the lemmas above.
THEOREM Inductive == Spec => []IInv
<1>1. IInv /\ [Next]_vars => IInv'
  BY TypeStep, GoroutinesStep, SectionStep, NoLeaseStep, EntitledStep, HeldStep, ButtonsStep DEF IInv
<1>2. QED
  BY InitIInv, <1>1, PTL DEF Spec

-----------------------------------------------------------------------------
\* Types of the hub's variables, for every instance.
THEOREM TypeCorrect == Spec => []TypeOK
<1>1. IInv => TypeOK
  BY DEF IInv
<1>2. QED
  BY Inductive, <1>1, PTL

\* currentController is always a connected client with a role that may control:
\* unregisterClient, kickAllClients and Grant all clear it in time.
THEOREM ControllerIsEntitled == Spec => []ControllerEntitled
<1>1. IInv => ControllerEntitled
  BY DEF IInv
<1>2. QED
  BY Inductive, <1>1, PTL

\* No key or button stays down for somebody who has lost the desktop, except
\* inside the very section that is about to release it.
THEOREM KeysFollowControl == Spec => []HeldForController
<1>1. IInv => HeldForController
  BY DEF IInv
<1>2. QED
  BY Inductive, <1>1, PTL

\* While the person at the machine is active, remote mouse buttons stay up.
THEOREM ButtonsYieldToLocal == Spec => []ButtonsYield
<1>1. IInv => ButtonsYield
  BY DEF IInv
<1>2. QED
  BY Inductive, <1>1, PTL

-----------------------------------------------------------------------------
\* ControlHub implements ControlLease: the initial state maps to the initial state,
\* and every step of a goroutine maps to a step of the lease or leaves it alone.

USE DEF Lease!leaseVars

\* What the lease does not see
LEMMA Unseen ==
  UNCHANGED <<controller, lease, heldBy, token>> => UNCHANGED Lease!leaseVars
BY DEF HeldForHolder, Administrators, Role, Authed

\* ReleaseAllKeys empties the set of inputs held down for anybody.
LEMMA ReleasedForAll == ReleaseAllKeys => HeldForHolder' = {}
BY DEF ReleaseAllKeys, NothingHeld, HeldForHolder

\* A client's role is one of the four numbers of auth.Role, none included.
LEMMA RoleIsNumber == ASSUME TypeOK, NEW c \in Client PROVE Role(c) \in 0..3
BY ControlHubAssumption DEF TypeOK, Role, Authed, RoleView, RoleAdmin

\* Without a change of token nobody becomes or stops being an administrator.
LEMMA SameTokens == UNCHANGED token => UNCHANGED Administrators
BY DEF Administrators, Role, Authed

\* A change of one client's token changes at most that client's standing.
LEMMA OneToken ==
  ASSUME NEW c \in Client, NEW t, TypeOK, token' = [token EXCEPT ![c] = t]
  PROVE  Administrators' \in {Administrators \cup {c}, Administrators \ {c}}
<1>1. \A d \in Client \ {c} : Role(d)' = Role(d)
  BY DEF Role, Authed, TypeOK
<1>2. CASE Role(c)' >= RoleAdmin
  <2>1. Administrators' = Administrators \cup {c}
    BY <1>1, <1>2 DEF Administrators
  <2>2. QED
    BY <2>1
<1>3. CASE ~(Role(c)' >= RoleAdmin)
  <2>1. Administrators' = Administrators \ {c}
    BY <1>1, <1>3 DEF Administrators
  <2>2. QED
    BY <2>1
<1>4. QED
  BY <1>2, <1>3

\* Control is given up and the keys count as released.
LEMMA Dropped ==
  ASSUME TypeOK, ControllerEntitled, controller # Nobody, ClearController, HeldForHolder' = {},
         Administrators' \in {Administrators, Administrators \cup {controller},
                              Administrators \ {controller}}
  PROVE  Lease!Next
<1>1. controller \in Client
  BY DEF TypeOK
<1>2. Lease!Drop(controller)
  BY <1>1 DEF Lease!Drop, ClearController
<1>3. QED
  BY <1>1, <1>2 DEF Lease!Next

\* Keys come up while the controller stays: key up, the ticker, release_all_keys.
LEMMA Lifted ==
  ASSUME UNCHANGED <<controller, lease, token>>, HeldForHolder' \subseteq HeldForHolder
  PROVE  Lease!Next
<1>1. Lease!Lift
  BY SameTokens DEF Lease!Lift
<1>2. QED
  BY <1>1 DEF Lease!Next

-----------------------------------------------------------------------------
\* A hub that has just been built is a free lease.
LEMMA RefineInit == Init => Lease!Init
BY DEF Init, Lease!Init, HeldForHolder, Administrators, NothingHeld, Role, Authed, RoleAdmin

\* tryAcquireControl takes a free desktop, renews, or preempts as the lease allows.
LEMMA RefineAcquire ==
  ASSUME IInv, NEW c \in Client, Acquire(c)
  PROVE  [Lease!Next]_(Lease!leaseVars)
<1> USE DEF Acquire
<1>1. UNCHANGED Administrators
  BY SameTokens DEF connVars
<1>2. CASE CanAcquire(c) /\ OpenDesktop(c)
  <2>1. Lease!Take(c)
    BY <1>1, <1>2, ReleasedForAll DEF Lease!Take, Grab, OpenDesktop
  <2>2. QED
    BY <2>1 DEF Lease!Next
<1>3. CASE CanAcquire(c) /\ ~OpenDesktop(c) /\ controller = c
  <2>1. Lease!Renew(c)
    BY <1>1, <1>3 DEF Lease!Renew, OpenDesktop, HeldForHolder, IInv, TypeOK
  <2>2. QED
    BY <2>1 DEF Lease!Next
<1>4. CASE CanAcquire(c) /\ ~OpenDesktop(c) /\ controller # c /\ MayPreempt(c)
  <2>1. controller # Nobody /\ controller \notin Administrators
    BY <1>4, RoleIsNumber DEF OpenDesktop, MayPreempt, Administrators, RoleAdmin, IInv, TypeOK
  <2>2. Lease!Preempt(c)
    BY <1>1, <1>4, <2>1, ReleasedForAll DEF Lease!Preempt, Grab, MayPreempt, Administrators
  <2>3. QED
    BY <2>2 DEF Lease!Next
<1>5. CASE UNCHANGED <<leaseVars, heldBy>>
  BY <1>5, Unseen DEF leaseVars, connVars
<1>6. QED
  BY <1>2, <1>3, <1>4, <1>5

\* Grant gives a client another token; a controller loses control in that step.
LEMMA RefineGrant ==
  ASSUME IInv, NEW c \in Client, NEW t \in Token, Grant(c, t)
  PROVE  [Lease!Next]_(Lease!leaseVars)
<1> USE DEF Grant, IInv
<1>1. Administrators' \in {Administrators \cup {c}, Administrators \ {c}}
  BY OneToken
<1>2. CASE controller = c
  BY <1>1, <1>2, ControlHubAssumption, Dropped, ReleasedForAll
<1>3. CASE controller # c
  <2>1. Lease!Requalify(c)
    BY <1>1, <1>3 DEF Lease!Requalify, leaseVars, HeldForHolder
  <2>2. QED
    BY <2>1 DEF Lease!Next
<1>4. QED
  BY <1>2, <1>3

\* A client that is not the controller logs in, or is a fresh object.
LEMMA RefineToken ==
  ASSUME IInv, NEW c \in Client, NEW t, controller # c, UNCHANGED <<leaseVars, heldBy>>,
         token' = [token EXCEPT ![c] = t]
  PROVE  [Lease!Next]_(Lease!leaseVars)
<1>1. Administrators' \in {Administrators \cup {c}, Administrators \ {c}}
  BY OneToken DEF IInv
<1>2. Lease!Requalify(c)
  BY <1>1 DEF Lease!Requalify, leaseVars, HeldForHolder
<1>3. QED
  BY <1>2 DEF Lease!Next

\* SendInput presses a key or button for the controller, or fails.
LEMMA RefinePress ==
  ASSUME IInv, PressButton \/ PressKey
  PROVE  [Lease!Next]_(Lease!leaseVars)
<1> USE DEF PressButton, PressKey, KeyDone, connVars, leaseVars
<1>1. CASE UNCHANGED heldBy
  BY <1>1, Unseen
<1>2. CASE heldBy' = [heldBy EXCEPT ![key] = who]
  <2>1. controller = who /\ who \in Client /\ key \in Input
    BY DEF IInv, SectionInv
  <2>2. HeldForHolder' = HeldForHolder \cup {key}
    BY <1>2, <2>1, ControlHubAssumption DEF HeldForHolder, IInv, TypeOK
  <2>3. Lease!Press(key)
    BY <2>1, <2>2, SameTokens, ControlHubAssumption DEF Lease!Press
  <2>4. QED
    BY <2>1, <2>3 DEF Lease!Next
<1>3. QED
  BY <1>1, <1>2

\* Every step of the hub is a step of the lease, or leaves the lease alone.
LEMMA RefineNext == IInv /\ [Next]_vars => [Lease!Next]_(Lease!leaseVars)
<1> SUFFICES ASSUME IInv, [Next]_vars PROVE [Lease!Next]_(Lease!leaseVars)
  OBVIOUS
<1> USE DEF IInv, connVars, leaseVars
<1>1. ASSUME NEW c \in Client,
             Register(c) \/ ReaderEnds(c) \/ TooSlow(c) \/ WindowPasses(c) \/ PumpRejects(c)
             \/ PumpEnds(c) \/ Heartbeat(c) \/ CommandRejected(c)
      PROVE  UNCHANGED Lease!leaseVars
  BY <1>1, Unseen DEF Register, ReaderEnds, TooSlow, WindowPasses, PumpRejects, PumpEnds,
     Heartbeat, CommandRejected
<1>2. ASSUME NEW t \in Token, Issue(t) \/ Revoke(t)
      PROVE  UNCHANGED Lease!leaseVars
  BY <1>2, Unseen DEF Issue, Revoke
<1>3. ASSUME NEW c \in Client, NEW by \in {"reader", "pump"}, UnregisterAgain(c, by)
      PROVE  UNCHANGED Lease!leaseVars
  BY <1>3, Unseen DEF UnregisterAgain
<1>4. ASSUME NEW c \in Client, NEW v \in Verbs, NEW i \in Input \cup {NoInput}, Dispatch(c, v, i)
      PROVE  UNCHANGED Lease!leaseVars
  BY <1>4, Unseen DEF Dispatch, Entitled, Presses
<1>5. CASE CheckKey \/ PhysicalAction
  BY <1>5, Unseen DEF CheckKey, KeyDone, PhysicalAction
<1>6. CASE RecoverCapture \/ OverrideTicker
  BY <1>6, ReleasedForAll, Lifted DEF RecoverCapture, OverrideTicker
<1>7. ASSUME NEW c \in Client, ReleaseKeysCommand(c) PROVE Lease!Next
  BY <1>7, ReleasedForAll, Lifted DEF ReleaseKeysCommand
<1>8. CASE LiftKey
  <2>1. HeldForHolder' \subseteq HeldForHolder
    BY <1>8 DEF LiftKey, HeldForHolder, TypeOK
  <2>2. QED
    BY <1>8, <2>1, Lifted DEF LiftKey
<1>9. ASSUME NEW c \in Client, AttachCheck(c) PROVE [Lease!Next]_(Lease!leaseVars)
  <2>1. controller # c
    BY <1>9, ControlHubAssumption
    DEF AttachCheck, ControllerEntitled, GoroutinesOfRegistered
  <2>2. QED
    BY <1>9, <2>1, RefineToken DEF AttachCheck
<1>10. ASSUME NEW c \in Client, NEW t \in Token, Login(c, t)
       PROVE  [Lease!Next]_(Lease!leaseVars)
  <2>1. controller # c
    BY <1>10, ControlHubAssumption DEF Login, ControllerEntitled, Role, Authed, RoleStandard
  <2>2. QED
    BY <1>10, <2>1, RefineToken DEF Login
<1>11. ASSUME NEW c \in Client, NEW t \in Token, Grant(c, t)
       PROVE  [Lease!Next]_(Lease!leaseVars)
  BY <1>11, RefineGrant
<1>12. ASSUME NEW c \in Client, ExpireControl(c) PROVE [Lease!Next]_(Lease!leaseVars)
  <2>1. CASE MustExpire
    BY <1>12, <2>1, ReleasedForAll, SameTokens, Dropped DEF ExpireControl, MustExpire
  <2>2. CASE ~MustExpire
    BY <1>12, <2>2, Unseen DEF ExpireControl
  <2>3. QED
    BY <2>1, <2>2
<1>13. ASSUME NEW c \in Client, ReleaseControl(c) PROVE Lease!Next
  BY <1>13, ReleasedForAll, SameTokens, Dropped, ControlHubAssumption DEF ReleaseControl
<1>14. ASSUME NEW c \in Client, NEW by \in {"reader", "pump"}, UnregisterBegin(c, by)
       PROVE  [Lease!Next]_(Lease!leaseVars)
  <2>1. CASE controller = c
    <3>1. HeldForHolder' = {}
      BY <1>14, <2>1 DEF UnregisterBegin, ClearController, HeldForHolder
    <3>2. QED
      BY <1>14, <2>1, <3>1, SameTokens, Dropped, ControlHubAssumption DEF UnregisterBegin
  <2>2. CASE controller # c
    BY <1>14, <2>2, Unseen DEF UnregisterBegin
  <2>3. QED
    BY <2>1, <2>2
<1>15. CASE UnregisterEnd
  <2>1. HeldForHolder' \subseteq HeldForHolder
    BY <1>15, ReleasedForAll DEF UnregisterEnd, HeldForHolder
  <2>2. QED
    BY <1>15, <2>1, Lifted DEF UnregisterEnd
<1>16. CASE KickBegin
  <2>1. HeldForHolder' = {}
    BY <1>16 DEF KickBegin, ClearController, HeldForHolder
  <2>2. CASE controller = Nobody
    <3>1. HeldForHolder = {}
      BY <2>2 DEF HeldForHolder
    <3>2. QED
      BY <1>16, <2>1, <2>2, <3>1, SameTokens DEF KickBegin, ClearController, NoLease
  <2>3. CASE controller # Nobody
    BY <1>16, <2>1, <2>3, SameTokens, Dropped DEF KickBegin
  <2>4. QED
    BY <2>2, <2>3
<1>17. CASE KickEnd
  BY <1>17, ReleasedForAll, Lifted DEF KickEnd
<1>18. CASE Tick
  <2>1. UNCHANGED HeldForHolder /\ UNCHANGED Administrators
    BY <1>18, SameTokens DEF Tick, HeldForHolder
  <2>2. CASE lease > 0
    BY <1>18, <2>1, <2>2 DEF Tick, Lease!Tick, Lease!Next
  <2>3. CASE ~(lease > 0)
    BY <1>18, <2>1, <2>3, ControlHubAssumption DEF Tick, TypeOK
  <2>4. QED
    BY <2>2, <2>3
<1>19. CASE PressButton \/ PressKey
  BY <1>19, RefinePress
<1>20. ASSUME NEW c \in Client, Acquire(c) PROVE [Lease!Next]_(Lease!leaseVars)
  BY <1>20, RefineAcquire
<1>21. CASE UNCHANGED vars
  BY <1>21, Unseen DEF vars
<1>22. QED
  BY <1>1, <1>2, <1>3, <1>4, <1>5, <1>6, <1>7, <1>8, <1>9, <1>10, <1>11, <1>12, <1>13, <1>14,
     <1>15, <1>16, <1>17, <1>18, <1>19, <1>20, <1>21 DEF Next, Goroutines, Section

\* The hub implements the control lease: no interleaving of commands, heartbeats,
\* disconnections, kicks, grants and revocations breaks a promise of ControlLease.
THEOREM HubImplementsLease == Spec => ImplementsLease
<1>1. Init => Lease!Init
  BY RefineInit
<1>2. IInv /\ [Next]_vars => [Lease!Next]_(Lease!leaseVars)
  BY RefineNext
<1>3. QED
  BY <1>1, <1>2, Inductive, PTL DEF Spec, ImplementsLease, Lease!Spec

=============================================================================
