----------------------------- MODULE HostStream -----------------------------
(***************************************************************************)
(* The capture engine and the encoder behind the frames of FrameQueue, and *)
(* the end of the hub.  The streaming loop holds streamMu while it         *)
(* captures and encodes, recoverCapture and switchMonitor hold it while    *)
(* they replace the engine or the encoder, and Close while it takes both   *)
(* away: each of them is a step here.                                      *)
(***************************************************************************)
EXTENDS FrameQueue

VARIABLES
  capture,   \* capEngine: "open", "lost" (its captures fail) or "closed"
  encoder,   \* "fits" the current monitor, "misfit" or "none"
  trouble,   \* the loop saw an error and is about to call recoverCapture
  recent,    \* lastRecovery is less than 2 s ago
  closing    \* Close: "no", "done" is closed, clients are "kicked", it is "over"

deviceVars == <<capture, encoder, trouble, recent, closing>>
hostVars == <<vars, deviceVars>>

HostTypeOK ==
  /\ TypeOK
  /\ capture \in {"open", "lost", "closed"} /\ encoder \in {"fits", "misfit", "none"}
  /\ trouble \in BOOLEAN /\ recent \in BOOLEAN
  /\ closing \in {"no", "done", "kicked", "over"}

\* newStreamHub starts an engine and an encoder, or fails.
HostInit ==
  /\ Init
  /\ capture = "open" /\ encoder = "fits" /\ trouble = FALSE /\ recent = FALSE
  /\ closing = "no"

-----------------------------------------------------------------------------
\* The loop

Watched == valid \cap open # {}

\* A frame is captured and encoded.
HostEncode ==
  /\ ~trouble /\ capture = "open" /\ encoder = "fits"
  /\ Encode
  /\ UNCHANGED deviceVars

\* Mutant: the loop goes on with the frame it did not get
EncodeFails_GoesOn ==
  /\ at = "idle" /\ Watched /\ ~trouble /\ encoder # "none"
  /\ capture # "open" \/ encoder = "misfit"
  /\ at' = "encoded"
  /\ UNCHANGED <<keyNext, isKey, todo, draining, clientVars, queueVars, viewVars, deviceVars>>

\* The engine or the encoder returns an error; streamMu is given up.
EncodeFails ==
  /\ at = "idle" /\ Watched /\ ~trouble /\ encoder # "none"
  /\ capture # "open" \/ encoder = "misfit"
  /\ trouble' = TRUE
  /\ UNCHANGED <<vars, capture, encoder, recent, closing>>

\* The desktop is switched or the display changes: captures fail from now on.
Lose ==
  /\ capture = "open"
  /\ capture' = "lost"
  /\ UNCHANGED <<vars, encoder, trouble, recent, closing>>

\* Mutant: the request for a key frame is lost with the old encoder
NewEncoder_NoKey == encoder' = "fits" /\ keyNext' = FALSE

\* A new encoder starts with a key frame.
NewEncoder == encoder' = "fits" /\ keyNext' = TRUE

OtherFrameVars == <<at, isKey, todo, draining, clientVars, queueVars, viewVars>>

\* recoverCapture after the checks: no engine starts, and the old one has been
\* closed by then ...
NoEngine ==
  /\ capture' = "closed"
  /\ UNCHANGED <<vars, encoder>>

\* ... or one starts, with an encoder for its monitor ...
NewEngine ==
  /\ capture' = "open"
  /\ NewEncoder
  /\ UNCHANGED OtherFrameVars

\* ... or without: the old encoder stays, whether it fits or not.
NewEngineOnly ==
  /\ capture' = "open"
  /\ encoder' \in {encoder, "misfit"}
  /\ UNCHANGED vars

\* Mutant: a closed hub is recovered
Recover_Closed(Result) ==
  /\ ~recent
  /\ recent' = TRUE
  /\ Result
  /\ UNCHANGED closing

Recover(Result) ==
  /\ closing = "no" /\ ~recent
  /\ recent' = TRUE
  /\ Result
  /\ UNCHANGED closing

\* recoverCapture of the loop; it does nothing soon after the last one, nor
\* when the hub is closed.
LoopRecovers(Result) == trouble /\ trouble' = FALSE /\ Recover(Result)

LoopSkips ==
  /\ trouble /\ (closing # "no" \/ recent)
  /\ trouble' = FALSE
  /\ UNCHANGED <<vars, capture, encoder, recent, closing>>

\* RecoverDisplay, which the window calls when the display has changed
RecoverDisplay ==
  /\ Recover(NoEngine) \/ Recover(NewEngine) \/ Recover(NewEngineOnly)
  /\ UNCHANGED trouble

\* Mutant: the throttle is never lifted
Later_Not ==
  /\ recent /\ closing # "no"
  /\ recent' = FALSE
  /\ UNCHANGED <<vars, capture, encoder, trouble, closing>>

Later ==
  /\ recent
  /\ recent' = FALSE
  /\ UNCHANGED <<vars, capture, encoder, trouble, closing>>

\* switchMonitor of a controller: the encoder of the other monitor starts, or
\* the old one and its monitor stay.
SwitchMonitor ==
  /\ Watched
  /\ NewEncoder
  /\ UNCHANGED <<OtherFrameVars, capture, trouble, recent, closing>>

-----------------------------------------------------------------------------
\* Close

CloseDone ==
  /\ closing = "no"
  /\ closing' = "done"
  /\ UNCHANGED <<vars, capture, encoder, trouble, recent>>

CloseKick ==
  /\ closing = "done"
  /\ closing' = "kicked"
  /\ KickAllClients
  /\ UNCHANGED <<capture, encoder, trouble, recent>>

CloseDevices ==
  /\ closing = "kicked"
  /\ closing' = "over"
  /\ encoder' = "none" /\ capture' = "closed"
  /\ UNCHANGED <<vars, trouble, recent>>

-----------------------------------------------------------------------------
Clients ==
  \E c \in Client :
    Attach(c) \/ Authorize(c) \/ Welcome(c) \/ Revoke(c) \/ Take(c) \/ Hangup(c)

Offers ==
  \/ Broadcast \/ AskKey \/ Done
  \/ \E c \in Client : Refuse(c) \/ Push(c) \/ Overflow(c) \/ DrainOne(c) \/ DrainEnd(c)

Devices ==
  \/ HostEncode \/ EncodeFails \/ LoopSkips \/ Lose \/ Later
  \/ LoopRecovers(NoEngine) \/ LoopRecovers(NewEngine) \/ LoopRecovers(NewEngineOnly)
  \/ RecoverDisplay \/ SwitchMonitor
  \/ CloseDone \/ CloseKick \/ CloseDevices

HostNext == Devices \/ ((Clients \/ Offers \/ RequestKeyframe) /\ UNCHANGED deviceVars)

HostSpec == HostInit /\ [][HostNext]_hostVars

\* The loop and sendInitInfo run and 2 s pass; an engine and an encoder start
\* when the loop recovers again and again, a capture succeeds now and then, and
\* the window does not report changes of the display forever.  Nothing is asked
\* of the writePumps: a peer may read as slowly as it likes.
HostFairness ==
  /\ WF_hostVars(Offers /\ UNCHANGED deviceVars) /\ SF_hostVars(HostEncode)
  /\ WF_hostVars(EncodeFails) /\ WF_hostVars(LoopSkips) /\ WF_hostVars(Later)
  /\ SF_hostVars(LoopRecovers(NewEngine)) /\ <>[][~RecoverDisplay]_hostVars
  /\ \A c \in Client : WF_hostVars(Welcome(c) /\ UNCHANGED deviceVars)

HostFairSpec == HostSpec /\ HostFairness

-----------------------------------------------------------------------------
\* Properties

\* Once Close has released the capture engine nothing opens another one: not
\* the loop that was about to recover, nor the window's RecoverDisplay.
CaptureReleased == closing = "over" => capture = "closed"

\* To the clients the loop of the devices is the loop of FrameQueue: what is
\* shown there of their queues holds here.
ImplementsFrames == Spec

\* A client that waits for a key frame and stays authorized gets one into its
\* queue while the hub is not closed, however often its queue overflowed, it
\* was revoked and granted again, or the capture was lost.
KeyArrives ==
  \A c \in Client :
    []<>~(closing = "no" /\ c \in needsKey \cap valid \cap open)

=============================================================================
