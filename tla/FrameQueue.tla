----------------------------- MODULE FrameQueue -----------------------------
(***************************************************************************)
(* The video of core/desktop.  One streaming loop captures, encodes and    *)
(* broadcasts a frame at a time; every client has a queue of QueueCap      *)
(* frames (sendChan) that its writePump empties.  A client that falls      *)
(* behind loses its whole queue and gets nothing until the next key frame, *)
(* which the hub asks of the encoder.  enqueueFrame holds queueMu, but the *)
(* writePump receives from the channel without it.                         *)
(*                                                                         *)
(* A frame is "key", or "delta" if its predecessor was queued too, or      *)
(* "orphan" if it was not; the code only tells key frames from the others. *)
(***************************************************************************)
EXTENDS Naturals, Sequences

CONSTANTS Client,
          QueueCap   \* cap(sendChan), 3 in the code

ASSUME FrameQueueAssumption == QueueCap \in Nat \ {0}

VARIABLES
  keyNext,    \* the encoder's next frame is a key frame
  at,         \* the step of the streaming loop
  isKey,      \* the frame in hand is a key frame
  todo,       \* the clients of the snapshot that have not been offered it
  draining,   \* the client whose queue is being drained, in a set
  queue,      \* sendChan
  needsKey,   \* Client.needsKey
  valid,      \* clients whose token is valid
  welcome,    \* clients just authorized, whose sendInitInfo is under way
  open,       \* clients whose done channel is open
  missed,     \* a ghost: clients that did not get the stream's last frame
  torn,       \* a ghost: clients that lack a frame queued before their head
  shown       \* a ghost: the frame the writePump sent last

streamVars == <<keyNext, at, isKey, todo, draining>>
clientVars == <<valid, welcome, open>>
queueVars == <<queue, needsKey, missed>>
viewVars == <<torn, shown>>
vars == <<streamVars, clientVars, queueVars, viewVars>>

TypeOK ==
  /\ keyNext \in BOOLEAN /\ isKey \in BOOLEAN
  /\ at \in {"idle", "encoded", "offer", "drain", "ask"}
  /\ todo \in SUBSET Client /\ draining \in SUBSET Client
  /\ queue \in [Client -> Seq({"key", "delta", "orphan"})]
  /\ \A c \in Client : Len(queue[c]) <= QueueCap
  /\ needsKey \in SUBSET Client /\ missed \in SUBSET Client
  /\ valid \in SUBSET Client /\ welcome \in SUBSET Client /\ open \in SUBSET Client
  /\ torn \in SUBSET Client
  /\ shown \in [Client -> {"none", "whole", "torn", "orphan"}]

\* Every client starts with needsKey set, and the encoder with a key frame.
Init ==
  /\ keyNext = TRUE /\ at = "idle" /\ isKey = FALSE /\ todo = {} /\ draining = {}
  /\ queue = [c \in Client |-> <<>>]
  /\ needsKey = Client /\ missed = Client /\ torn = Client
  /\ valid = {} /\ welcome = {} /\ open = Client
  /\ shown = [c \in Client |-> "none"]

-----------------------------------------------------------------------------
\* AttachConnection builds a Client; the name of one nothing refers to is used
\* again.
Attach(c) ==
  /\ c \notin open \cup welcome \cup todo \cup draining
  /\ open' = open \cup {c} /\ valid' = valid \ {c}
  /\ queue' = [queue EXCEPT ![c] = <<>>]
  /\ needsKey' = needsKey \cup {c} /\ missed' = missed \cup {c} /\ torn' = torn \cup {c}
  /\ shown' = [shown EXCEPT ![c] = "none"]
  /\ UNCHANGED <<streamVars, welcome>>

\* Authorization

\* auth_token, auth_login or Grant, in the critical section that sets the token
Authorize(c) ==
  /\ c \in open
  /\ valid' = valid \cup {c} /\ welcome' = welcome \cup {c}
  /\ UNCHANGED <<streamVars, open, queueVars, viewVars>>

\* sendInitInfo comes to RequestKeyframe after that.
Welcome(c) ==
  /\ c \in welcome
  /\ welcome' = welcome \ {c}
  /\ keyNext' = TRUE
  /\ UNCHANGED <<at, isKey, todo, draining, valid, open, queueVars, viewVars>>

Revoke(c) ==
  /\ c \in valid
  /\ valid' = valid \ {c}
  /\ UNCHANGED <<streamVars, welcome, open, queueVars, viewVars>>

\* kickAllClients, which also closes every client
KickAllClients ==
  /\ valid' = {} /\ open' = {}
  /\ UNCHANGED <<streamVars, welcome, queueVars, viewVars>>

\* request_keyframe of a client, or a new encoder for another monitor
RequestKeyframe ==
  /\ ~keyNext
  /\ keyNext' = TRUE
  /\ UNCHANGED <<at, isKey, todo, draining, clientVars, queueVars, viewVars>>

-----------------------------------------------------------------------------
\* startStreamingLoop

\* The encoder owes a key frame to whoever asked, and may give one unasked.
Encode ==
  /\ at = "idle" /\ valid \cap open # {}
  /\ isKey' \in IF keyNext THEN {TRUE} ELSE BOOLEAN
  /\ keyNext' = FALSE
  /\ at' = "encoded"
  /\ UNCHANGED <<todo, draining, clientVars, queueVars, viewVars>>

\* broadcast takes the snapshot of the clients that are valid now.
Broadcast ==
  /\ at = "encoded"
  /\ at' = "offer"
  /\ todo' = valid
  /\ missed' = missed \cup (Client \ valid)
  /\ UNCHANGED <<keyNext, isKey, draining, clientVars, queue, needsKey, viewVars>>

Kind(c) == IF isKey THEN "key" ELSE IF c \in missed THEN "orphan" ELSE "delta"

\* enqueueFrame: nothing for a closed client, and no delta for one that needs a key
Refuse(c) ==
  /\ at = "offer" /\ c \in todo
  /\ c \notin open \/ (c \in needsKey /\ ~isKey)
  /\ missed' = missed \cup {c}
  /\ todo' = todo \ {c}
  /\ UNCHANGED <<keyNext, at, isKey, draining, clientVars, queue, needsKey, viewVars>>

Push(c) ==
  /\ at = "offer" /\ c \in todo \cap open /\ (c \in needsKey => isKey)
  /\ Len(queue[c]) < QueueCap
  /\ queue' = [queue EXCEPT ![c] = Append(@, Kind(c))]
  /\ needsKey' = needsKey \ {c} /\ missed' = missed \ {c}
  /\ todo' = todo \ {c}
  /\ UNCHANGED <<keyNext, at, isKey, draining, clientVars, viewVars>>

\* The queue is full: the frame in hand is lost, and the queue drained.
Overflow(c) ==
  /\ at = "offer" /\ c \in todo \cap open /\ (c \in needsKey => isKey)
  /\ Len(queue[c]) = QueueCap
  /\ at' = "drain" /\ draining' = {c}
  /\ todo' = todo \ {c} /\ missed' = missed \cup {c}
  /\ UNCHANGED <<keyNext, isKey, clientVars, queue, needsKey, viewVars>>

DrainOne(c) ==
  /\ c \in draining /\ queue[c] # <<>>
  /\ queue' = [queue EXCEPT ![c] = Tail(@)]
  /\ torn' = torn \cup {c}
  /\ UNCHANGED <<streamVars, clientVars, needsKey, missed, shown>>

\* Mutant: the overflow is forgotten
DrainEnd_NoNeed(c) ==
  /\ c \in draining /\ queue[c] = <<>>
  /\ draining' = {} /\ at' = "ask"
  /\ UNCHANGED <<keyNext, isKey, todo, clientVars, queue, needsKey, missed, viewVars>>

DrainEnd(c) ==
  /\ c \in draining /\ queue[c] = <<>>
  /\ needsKey' = needsKey \cup {c}
  /\ draining' = {} /\ at' = "ask"
  /\ UNCHANGED <<keyNext, isKey, todo, clientVars, queue, missed, viewVars>>

\* enqueueFrame returned true
AskKey ==
  /\ at = "ask"
  /\ keyNext' = TRUE
  /\ at' = "offer"
  /\ UNCHANGED <<isKey, todo, draining, clientVars, queueVars, viewVars>>

Done ==
  /\ at = "offer" /\ todo = {}
  /\ at' = "idle"
  /\ UNCHANGED <<keyNext, isKey, todo, draining, clientVars, queueVars, viewVars>>

-----------------------------------------------------------------------------
\* writePump

\* What the viewer makes of the frame at the head
Shows(c) ==
  IF Head(queue[c]) = "key" THEN "whole"
  ELSE IF Head(queue[c]) = "orphan" THEN "orphan"
  ELSE IF c \in torn THEN "torn"
  ELSE IF shown[c] = "orphan" THEN "orphan" ELSE "whole"

\* A frame goes out; a key frame starts a new GOP.
Take(c) ==
  /\ c \in open \cap valid /\ queue[c] # <<>>
  /\ queue' = [queue EXCEPT ![c] = Tail(@)]
  /\ torn' = IF Head(queue[c]) = "key" THEN torn \ {c} ELSE torn
  /\ shown' = [shown EXCEPT ![c] = Shows(c)]
  /\ UNCHANGED <<streamVars, clientVars, needsKey, missed>>

\* A heartbeat or a frame finds the token invalid, or a write fails.
Hangup(c) ==
  /\ c \in open
  /\ open' = open \ {c}
  /\ UNCHANGED <<streamVars, valid, welcome, queueVars, viewVars>>

-----------------------------------------------------------------------------
Stream ==
  \/ Encode \/ Broadcast \/ AskKey \/ Done
  \/ \E c \in Client : Refuse(c) \/ Push(c) \/ Overflow(c) \/ DrainOne(c) \/ DrainEnd(c)

Next ==
  \/ Stream
  \/ RequestKeyframe \/ KickAllClients
  \/ \E c \in Client :
       Attach(c) \/ Authorize(c) \/ Welcome(c) \/ Revoke(c) \/ Take(c) \/ Hangup(c)

Spec == Init /\ [][Next]_vars

-----------------------------------------------------------------------------
\* Properties

\* Outside of a drain a queue never holds the rest of a broken GOP: whoever
\* lost a frame finds a key frame at the head, or one that a gap in its
\* authorization, not the queue, cut off.
QueueWhole ==
  \A c \in Client \ draining :
    c \in torn /\ queue[c] # <<>> => Head(queue[c]) # "delta"

\* Nobody who waits for a key frame is forgotten: when the loop goes to
\* encode, it is asked for, or a sendInitInfo will ask for it.
KeyRequested ==
  at = "idle" => needsKey \cap valid \cap open \subseteq welcome \cup (IF keyNext THEN Client ELSE {})

\* What enqueueFrame says of itself: "On loss, discard the dependent GOP and
\* wait for a fresh keyframe".  The writePump never sends a frame whose GOP has
\* lost a frame in the queue.
NoTornGop == \A c \in Client : shown[c] # "torn"

=============================================================================
