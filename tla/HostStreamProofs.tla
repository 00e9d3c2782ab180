-------------------------- MODULE HostStreamProofs --------------------------
(***************************************************************************)
(* For any clients and any capacity of their queues: the queues never hold *)
(* the rest of a broken GOP, nobody who waits for a key frame is forgotten *)
(* and, as HostStream implements FrameQueue, the same holds with its       *)
(* capture engine and encoder.                                             *)
(***************************************************************************)
EXTENDS HostStream, SequenceTheorems, TLAPS

USE FrameQueueAssumption

Kinds == {"key", "delta", "orphan"}

\* What the steps below use of queues.
LEMMA AppendFacts ==
  ASSUME NEW s \in Seq(Kinds), NEW k \in Kinds
  PROVE  /\ Append(s, k) \in Seq(Kinds) /\ Len(Append(s, k)) = Len(s) + 1
         /\ Append(s, k) # <<>>
         /\ Head(Append(s, k)) = IF s = <<>> THEN k ELSE Head(s)
BY AppendProperties, HeadTailAppend

\* What is left of a queue when a frame is taken
LEMMA TailFacts ==
  ASSUME NEW s \in Seq(Kinds), s # <<>>
  PROVE  Tail(s) \in Seq(Kinds) /\ Len(Tail(s)) = Len(s) - 1
BY HeadTailProperties

\* An empty queue is a queue.
LEMMA EmptyFacts == <<>> \in Seq(Kinds) /\ Len(<<>>) <= QueueCap
BY EmptySeq

\* Every step keeps the state well-typed.
LEMMA FramesTypeStep == TypeOK /\ [Next]_vars => TypeOK'
<1> SUFFICES ASSUME TypeOK, [Next]_vars PROVE TypeOK'
  OBVIOUS
<1> USE DEF streamVars, clientVars, queueVars, viewVars, TypeOK
<1>1. CASE UNCHANGED vars
  BY <1>1 DEF vars
<1>2. CASE Encode \/ Broadcast \/ AskKey \/ Done \/ RequestKeyframe \/ KickAllClients
  BY <1>2 DEF Encode, Broadcast, AskKey, Done, RequestKeyframe, KickAllClients
<1>3. ASSUME NEW c \in Client, Attach(c) \/ Authorize(c) \/ Welcome(c) \/ Revoke(c) \/ Hangup(c)
      PROVE  TypeOK'
  <2>1. CASE Attach(c)
    <3>1. queue' \in [Client -> Seq(Kinds)] /\ \A d \in Client : Len(queue'[d]) <= QueueCap
      BY <2>1, EmptyFacts DEF Attach, Kinds
    <3> QED
      BY <2>1, <3>1 DEF Attach, Kinds
  <2> QED
    BY <1>3, <2>1 DEF Authorize, Welcome, Revoke, Hangup
<1>4. ASSUME NEW c \in Client, Refuse(c) \/ Overflow(c) \/ DrainEnd(c) PROVE TypeOK'
  BY <1>4 DEF Refuse, Overflow, DrainEnd
<1>5. ASSUME NEW c \in Client, Push(c) PROVE TypeOK'
  <2>1. Kind(c) \in Kinds
    BY DEF Kind, Kinds
  <2>2. Append(queue[c], Kind(c)) \in Seq(Kinds) /\ Len(Append(queue[c], Kind(c))) = Len(queue[c]) + 1
    BY <2>1, AppendFacts DEF Kinds
  <2>3. queue' \in [Client -> Seq(Kinds)] /\ \A d \in Client : Len(queue'[d]) <= QueueCap
    BY <1>5, <2>2 DEF Push, Kinds
  <2> QED
    BY <1>5, <2>3 DEF Push, Kinds
<1>6. ASSUME NEW c \in Client, DrainOne(c) \/ Take(c) PROVE TypeOK'
  <2>1. queue[c] # <<>> /\ queue[c] \in Seq(Kinds) /\ queue' = [queue EXCEPT ![c] = Tail(@)]
    BY <1>6 DEF DrainOne, Take, Kinds
  <2>2. Tail(queue[c]) \in Seq(Kinds) /\ Len(Tail(queue[c])) = Len(queue[c]) - 1
    BY <2>1, TailFacts
  <2>3. queue' \in [Client -> Seq(Kinds)] /\ \A d \in Client : Len(queue'[d]) <= QueueCap
    BY <2>1, <2>2 DEF Kinds
  <2>4. shown' \in [Client -> {"none", "whole", "torn", "orphan"}]
    <3>1. Shows(c) \in {"none", "whole", "torn", "orphan"}
      BY DEF Shows
    <3> QED
      BY <1>6, <3>1 DEF DrainOne, Take
  <2> QED
    BY <1>6, <2>3, <2>4 DEF DrainOne, Take, Kinds
<1> QED
  BY <1>1, <1>2, <1>3, <1>4, <1>5, <1>6 DEF Next, Stream

\* The initial state is well-typed.
LEMMA InitTyped == Init => TypeOK
<1> SUFFICES ASSUME Init PROVE TypeOK
  OBVIOUS
<1>1. queue \in [Client -> Seq(Kinds)] /\ \A c \in Client : Len(queue[c]) <= QueueCap
  <2>1. \A c \in Client : queue[c] = <<>>
    BY DEF Init
  <2> QED
    BY <2>1, EmptyFacts DEF Init
<1>2. shown \in [Client -> {"none", "whole", "torn", "orphan"}]
  BY DEF Init
<1> QED
  BY <1>1, <1>2 DEF Init, TypeOK, Kinds

\* Every state is well-typed.
THEOREM FramesTypeCorrect == Spec => []TypeOK
<1>1. Init => TypeOK
  BY InitTyped
<1> QED
  BY <1>1, FramesTypeStep, PTL DEF Spec

-----------------------------------------------------------------------------
\* Only the client at hand is drained.
OneDrained ==
  /\ at # "drain" => draining = {}
  /\ \A c, d \in draining : c = d

\* A client that lost a frame waits for a key frame, or has one at the head.
TornWaits ==
  \A c \in Client \ draining :
    c \in torn => IF queue[c] = <<>> THEN c \in needsKey ELSE Head(queue[c]) = "key"

\* Who waits for a key frame will be given the one in hand, or it has been
\* asked for, or will be.
Awaited(c) ==
  \/ keyNext
  \/ at = "encoded" /\ isKey
  \/ at \in {"offer", "drain"} /\ isKey /\ c \in todo
  \/ c \in draining
  \/ at = "ask"

AllAwaited == \A c \in Client : c \in needsKey \cap valid \cap open => c \in welcome \/ Awaited(c)

QueueInv == TypeOK /\ OneDrained /\ TornWaits /\ AllAwaited

\* A new hub asks for a key frame, and every client waits for one.
LEMMA QueueInvInit == Init => QueueInv
BY InitTyped DEF Init, QueueInv, OneDrained, TornWaits, AllAwaited

\* Only Overflow begins a drain, when there is none.
LEMMA OneDrainedStep == TypeOK /\ OneDrained /\ [Next]_vars => OneDrained'
<1> SUFFICES ASSUME TypeOK, OneDrained, [Next]_vars PROVE OneDrained'
  OBVIOUS
<1> USE DEF streamVars, OneDrained
<1>1. CASE UNCHANGED vars
  BY <1>1 DEF vars
<1>2. CASE Encode \/ Broadcast \/ AskKey \/ Done \/ RequestKeyframe \/ KickAllClients
  BY <1>2 DEF Encode, Broadcast, AskKey, Done, RequestKeyframe, KickAllClients
<1>3. ASSUME NEW c \in Client,
             Attach(c) \/ Authorize(c) \/ Welcome(c) \/ Revoke(c) \/ Hangup(c) \/ Take(c) \/ DrainOne(c)
      PROVE  OneDrained'
  BY <1>3 DEF Attach, Authorize, Welcome, Revoke, Hangup, Take, DrainOne
<1>4. ASSUME NEW c \in Client, Refuse(c) \/ Overflow(c) \/ DrainEnd(c) \/ Push(c) PROVE OneDrained'
  BY <1>4 DEF Refuse, Overflow, DrainEnd, Push
<1> QED
  BY <1>1, <1>2, <1>3, <1>4 DEF Next, Stream

\* A frame is torn off by a drain alone, which ends with the need of a key frame.
LEMMA TornWaitsStep ==
  TypeOK /\ OneDrained /\ TornWaits /\ [Next]_vars => TornWaits'
<1> SUFFICES ASSUME TypeOK, OneDrained, TornWaits, [Next]_vars PROVE TornWaits'
  OBVIOUS
<1> USE DEF streamVars, clientVars, queueVars, viewVars, TornWaits
<1>0. queue \in [Client -> Seq(Kinds)]
  BY DEF TypeOK, Kinds
<1>1. CASE UNCHANGED vars
  BY <1>1 DEF vars
<1>2. CASE Encode \/ Broadcast \/ AskKey \/ Done \/ RequestKeyframe \/ KickAllClients
  BY <1>2 DEF Encode, Broadcast, AskKey, Done, RequestKeyframe, KickAllClients
<1>3. ASSUME NEW c \in Client, Attach(c) \/ Authorize(c) \/ Welcome(c) \/ Revoke(c) \/ Hangup(c)
      PROVE  TornWaits'
  BY <1>0, <1>3 DEF Attach, Authorize, Welcome, Revoke, Hangup
<1>4. ASSUME NEW c \in Client, Refuse(c) PROVE TornWaits'
  BY <1>4 DEF Refuse
<1>5. ASSUME NEW c \in Client, Push(c) PROVE TornWaits'
  <2>1. Kind(c) \in Kinds /\ (c \in needsKey => Kind(c) = "key")
    BY <1>5 DEF Kind, Kinds, Push
  <2>2. c \notin draining
    BY <1>5 DEF OneDrained, Push
  <2>3. queue'[c] # <<>> /\ Head(queue'[c]) = IF queue[c] = <<>> THEN Kind(c) ELSE Head(queue[c])
    BY <1>0, <1>5, <2>1, AppendFacts DEF Push
  <2> QED
    BY <1>0, <1>5, <2>1, <2>2, <2>3 DEF Push
<1>6. ASSUME NEW c \in Client, Overflow(c) PROVE TornWaits'
  BY <1>6 DEF Overflow, OneDrained
<1>7. ASSUME NEW c \in Client, DrainOne(c) PROVE TornWaits'
  BY <1>0, <1>7 DEF DrainOne
<1>8. ASSUME NEW c \in Client, DrainEnd(c) PROVE TornWaits'
  BY <1>8 DEF DrainEnd, OneDrained
<1>9. ASSUME NEW c \in Client, Take(c) PROVE TornWaits'
  BY <1>0, <1>9 DEF Take
<1> QED
  BY <1>1, <1>2, <1>3, <1>4, <1>5, <1>6, <1>7, <1>8, <1>9 DEF Next, Stream

\* A need that arises is heard in the same step, or by a step that is under way.
LEMMA AllAwaitedStep ==
  TypeOK /\ OneDrained /\ AllAwaited /\ [Next]_vars => AllAwaited'
<1> SUFFICES ASSUME TypeOK, OneDrained, AllAwaited, [Next]_vars PROVE AllAwaited'
  OBVIOUS
<1> USE DEF streamVars, clientVars, queueVars, viewVars, AllAwaited, Awaited
<1>0. at \in {"idle", "encoded", "offer", "drain", "ask"} /\ keyNext \in BOOLEAN /\ isKey \in BOOLEAN
  BY DEF TypeOK
<1>1. CASE UNCHANGED vars
  BY <1>1 DEF vars
<1>2. CASE Encode
  BY <1>0, <1>2 DEF Encode
<1>3. CASE Broadcast
  BY <1>0, <1>3 DEF Broadcast
<1>4. CASE AskKey \/ Done \/ RequestKeyframe \/ KickAllClients
  BY <1>0, <1>4 DEF AskKey, Done, RequestKeyframe, KickAllClients
<1>5. ASSUME NEW c \in Client, Attach(c) \/ Authorize(c) \/ Welcome(c)
      PROVE  AllAwaited'
  BY <1>0, <1>5 DEF Attach, Authorize, Welcome
<1>6. ASSUME NEW c \in Client, Revoke(c) \/ Hangup(c) \/ Take(c) \/ DrainOne(c) PROVE AllAwaited'
  BY <1>0, <1>6 DEF Revoke, Hangup, Take, DrainOne
<1>7. ASSUME NEW c \in Client, Refuse(c) \/ Push(c) PROVE AllAwaited'
  BY <1>0, <1>7 DEF Refuse, Push
<1>8. ASSUME NEW c \in Client, Overflow(c) PROVE AllAwaited'
  <2>1. at = "offer" /\ draining = {} /\ at' = "drain" /\ draining' = {c} /\ todo' = todo \ {c}
    BY <1>8 DEF Overflow, OneDrained
  <2>2. UNCHANGED <<keyNext, isKey, needsKey, valid, open, welcome>>
    BY <1>8 DEF Overflow
  <2> QED
    BY <1>0, <2>1, <2>2
<1>9. ASSUME NEW c \in Client, DrainEnd(c) PROVE AllAwaited'
  BY <1>0, <1>9 DEF DrainEnd
<1> QED
  BY <1>1, <1>2, <1>3, <1>4, <1>5, <1>6, <1>7, <1>8, <1>9 DEF Next, Stream

\* The parts of the invariant hold together.
LEMMA QueueInvariant == Spec => []QueueInv
<1>1. TypeOK /\ QueueInv /\ [Next]_vars /\ TypeOK' => QueueInv'
  BY OneDrainedStep, TornWaitsStep, AllAwaitedStep DEF QueueInv
<1> QED
  BY <1>1, QueueInvInit, FramesTypeCorrect, PTL DEF Spec

\* Outside of a drain a queue never holds the rest of a broken GOP.
THEOREM QueuesAreWhole == Spec => []QueueWhole
<1>1. QueueInv => QueueWhole
  BY DEF QueueInv, TornWaits, QueueWhole
<1> QED
  BY <1>1, QueueInvariant, PTL

\* Whoever waits for a key frame has been heard when the loop encodes.
THEOREM KeysAreRequested == Spec => []KeyRequested
<1>1. QueueInv => KeyRequested
  BY DEF QueueInv, TypeOK, OneDrained, AllAwaited, Awaited, KeyRequested
<1> QED
  BY <1>1, QueueInvariant, PTL

-----------------------------------------------------------------------------
\* A step of HostStream is a step of FrameQueue, or leaves its state alone.
LEMMA HostStep == TypeOK /\ [HostNext]_hostVars => [Next]_vars
<1> SUFFICES ASSUME TypeOK, [HostNext]_hostVars PROVE [Next]_vars
  OBVIOUS
<1> USE DEF Next, Stream
<1>1. CASE UNCHANGED hostVars
  BY <1>1 DEF hostVars
<1>2. CASE Clients \/ Offers \/ RequestKeyframe
  BY <1>2 DEF Clients, Offers
<1>3. CASE HostEncode \/ CloseKick
  BY <1>3 DEF HostEncode, CloseKick
<1>4. CASE EncodeFails \/ LoopSkips \/ Lose \/ Later \/ CloseDone \/ CloseDevices
  BY <1>4 DEF EncodeFails, LoopSkips, Lose, Later, CloseDone, CloseDevices
<1>5. ASSUME NewEncoder, UNCHANGED OtherFrameVars PROVE RequestKeyframe \/ UNCHANGED vars
  BY <1>5 DEF NewEncoder, OtherFrameVars, RequestKeyframe, vars, streamVars, TypeOK
<1>6. CASE SwitchMonitor
  <2>1. NewEncoder /\ UNCHANGED OtherFrameVars
    BY <1>6 DEF SwitchMonitor, OtherFrameVars
  <2> QED
    BY <1>5, <2>1
<1>7. ASSUME Recover(NoEngine) \/ Recover(NewEngineOnly) PROVE UNCHANGED vars
  BY <1>7 DEF Recover, NoEngine, NewEngineOnly
<1>8. ASSUME Recover(NewEngine) PROVE RequestKeyframe \/ UNCHANGED vars
  BY <1>5, <1>8 DEF Recover, NewEngine
<1> QED
  BY <1>1, <1>2, <1>3, <1>4, <1>6, <1>7, <1>8 DEF HostNext, Devices, LoopRecovers, RecoverDisplay

\* The devices keep their types too, and no queue holds more than QueueCap frames.
THEOREM HostTypeCorrect == HostSpec => []HostTypeOK
<1>1. HostInit => HostTypeOK
  BY InitTyped DEF HostInit, HostTypeOK
<1>2. ASSUME HostTypeOK, [HostNext]_hostVars PROVE HostTypeOK'
  <2>1. TypeOK'
    BY <1>2, HostStep, FramesTypeStep DEF HostTypeOK
  <2>2. UNCHANGED deviceVars \/ Devices
    BY <1>2 DEF HostNext, hostVars
  <2>3. /\ capture' \in {"open", "lost", "closed"} /\ encoder' \in {"fits", "misfit", "none"}
        /\ trouble' \in BOOLEAN /\ recent' \in BOOLEAN
        /\ closing' \in {"no", "done", "kicked", "over"}
    BY <1>2, <2>2 DEF HostTypeOK, deviceVars, Devices, HostEncode, EncodeFails, LoopSkips,
       Lose, Later, LoopRecovers, RecoverDisplay, Recover, NoEngine, NewEngine, NewEngineOnly, NewEncoder,
       SwitchMonitor, CloseDone, CloseKick, CloseDevices
  <2> QED
    BY <2>1, <2>3 DEF HostTypeOK
<1> QED
  BY <1>1, <1>2, PTL DEF HostSpec

\* The hub with its devices implements the frame queues.
THEOREM HostImplementsFrames == HostSpec => ImplementsFrames
<1>1. HostInit => Init /\ TypeOK
  BY InitTyped DEF HostInit
<1> QED
  BY <1>1, FramesTypeStep, HostStep, PTL DEF HostSpec, ImplementsFrames, Spec

\* The queues of the hub never hold the rest of a broken GOP, and nobody who
\* waits for a key frame is forgotten.
THEOREM HostQueues == HostSpec => [](QueueWhole /\ KeyRequested)
BY HostImplementsFrames, QueuesAreWhole, KeysAreRequested, PTL DEF ImplementsFrames

\* Nothing opens a capture engine once Close has released it.
THEOREM CaptureIsReleased == HostSpec => []CaptureReleased
<1>1. HostInit => CaptureReleased
  BY DEF HostInit, CaptureReleased
<1>2. CaptureReleased /\ [HostNext]_hostVars => CaptureReleased'
  BY DEF CaptureReleased, HostNext, hostVars, deviceVars, Devices, HostEncode, EncodeFails, LoopSkips,
     Lose, Later, LoopRecovers, RecoverDisplay, Recover, NoEngine, NewEngine, NewEngineOnly,
     SwitchMonitor, CloseDone, CloseKick, CloseDevices
<1> QED
  BY <1>1, <1>2, PTL DEF HostSpec

=============================================================================
