---------------------------- MODULE FileTransfer ----------------------------
(***************************************************************************)
(* Sending files to the host: the goroutine of SendFiles at the caller and *)
(* the receiver at the host (app/engine/files.go), joined by a reliable    *)
(* and ordered data channel, with the 30 s timer of an open file, the      *)
(* slots that all sessions share, cancels, closes and revocation.          *)
(*                                                                         *)
(* Only a header says which transfer it belongs to; data, its end and a    *)
(* cancel do not.  Here they do, for SavedWhole alone.                     *)
(* Names of transfers that nothing refers to, and of sessions that are     *)
(* over, are used again.                                                   *)
(***************************************************************************)
EXTENDS Naturals, Sequences, FiniteSets

CONSTANTS Session, Transfer,
          NoTransfer,  \* the receiver's before the first header
          MaxSlots,    \* cap(transferSlots), 4 in the code
          AckCap,      \* cap(fileAck), 8 in the code
          MaxFiles,    \* files of a batch, 100 in the code
          MaxSize,     \* chunks of a file
          Window       \* bound: messages under way before the next file or chunk

ASSUME FileTransferAssumption ==
  /\ NoTransfer \notin Transfer
  /\ MaxSlots \in Nat \ {0} /\ AckCap \in Nat \ {0}
  /\ MaxFiles \in Nat \ {0} /\ Window \in Nat \ {0}
  /\ MaxSize \in Nat /\ IsFiniteSet(Session)

VARIABLES
  link,         \* the peer connection, as the host closes it
  authorized,   \* sessions for which CanTransfer holds
  toHost, toCaller,               \* the data channel
  sender, cancelled, fileAck,     \* caller: the goroutine, fileCancel closed, the channel
  transfer, batch, open, slots,   \* host: fields of the receiver
  tokens,       \* in transferSlots
  armed, quiet, callbacks,        \* the timer: running, 30 s since updated, started
  saved         \* files moved to their place since the last SendFiles

netVars == <<link, authorized, toHost, toCaller>>
callerVars == <<sender, cancelled, fileAck>>
fileVars == <<open, slots, tokens, armed, quiet>>
hostVars == <<transfer, batch, fileVars, callbacks, saved>>
vars == <<netVars, callerVars, hostVars>>

Size == 0..MaxSize
File == Transfer \X (1..MaxFiles)

\* The size is what begin announced; "good" while the chunks are those of the
\* file, in order.
NoFile == [file |-> <<>>]
OpenFile(f, size, got, good) == [file |-> f, size |-> size, got |-> got, good |-> good]

Idle == [at |-> "idle"]
Sending(at, t, count, no, sent, length) ==
  [at |-> at, transfer |-> t, count |-> count, no |-> no, sent |-> sent, length |-> length]

Waits == {"batch_ready", "ready", "saved"}
Acks == [type : Waits \cup {"error", "cancelled"}, transfer : Transfer \cup {NoTransfer}]

Messages ==
  [type : {"batch"}, transfer : Transfer, count : 1..MaxFiles, total : 0..(MaxFiles * MaxSize)]
    \cup [type : {"begin"}, transfer : Transfer, no : 1..MaxFiles, size : Size]
    \cup [type : {"data"}, of : File, i : 1..MaxSize]
    \cup [type : {"end"}, of : File, length : Size]
    \cup [type : {"cancel"}]

TypeOK ==
  /\ link \in [Session -> {"up", "closing", "down"}]
  /\ authorized \in SUBSET Session
  /\ \A s \in Session : /\ \A i \in DOMAIN toHost[s] : toHost[s][i] \in Messages
                        /\ \A i \in DOMAIN toCaller[s] : toCaller[s][i] \in Acks
                        /\ \A i \in DOMAIN fileAck[s] : fileAck[s][i] \in Acks
                        /\ Len(fileAck[s]) <= AckCap
  /\ sender \in [Session -> {Idle} \cup
       [at : Waits \cup {"next", "data"}, transfer : Transfer, count : 1..MaxFiles,
        no : 0..MaxFiles, sent : Size, length : Size]]
  /\ cancelled \in SUBSET Session
  /\ transfer \in [Session -> Transfer \cup {NoTransfer}]
  /\ batch \in [Session -> [count : 0..MaxFiles, left : 0..(MaxFiles * MaxSize)]]
  /\ open \in [Session -> {NoFile} \cup [file : File, size : Size, got : Size, good : BOOLEAN]]
  /\ slots \in SUBSET Session /\ tokens \in 0..MaxSlots
  /\ armed \in SUBSET Session /\ quiet \in SUBSET Session
  /\ callbacks \in [Session -> SUBSET File]
  /\ saved \in [Session -> SUBSET [of : File, whole : BOOLEAN]]

NoBatch == [count |-> 0, left |-> 0]

Init ==
  /\ link = [s \in Session |-> "up"] /\ authorized = {}
  /\ toHost = [s \in Session |-> <<>>] /\ toCaller = [s \in Session |-> <<>>]
  /\ sender = [s \in Session |-> Idle] /\ cancelled = {}
  /\ fileAck = [s \in Session |-> <<>>]
  /\ transfer = [s \in Session |-> NoTransfer]
  /\ batch = [s \in Session |-> NoBatch]
  /\ open = [s \in Session |-> NoFile] /\ slots = {} /\ tokens = 0
  /\ armed = {} /\ quiet = {} /\ callbacks = [s \in Session |-> {}]
  /\ saved = [s \in Session |-> {}]

-----------------------------------------------------------------------------
\* The caller

\* A channel that is closed takes nothing.
Send(s, m) ==
  toHost' = IF link[s] = "down" THEN toHost ELSE [toHost EXCEPT ![s] = Append(@, m)]

\* The goroutine fails: outside the first wait it tells the host, who cleans up.
Fail(s) ==
  /\ sender' = [sender EXCEPT ![s] = Idle]
  /\ cancelled' = cancelled \ {s}
  /\ IF sender[s].at = "batch_ready" THEN UNCHANGED toHost ELSE Send(s, [type |-> "cancel"])

Becomes(s, at, no, sent, length) ==
  sender' = [sender EXCEPT ![s] = Sending(at, @.transfer, @.count, no, sent, length)]

Mentions(s, t) ==
  \/ transfer[s] = t
  \/ sender[s] # Idle /\ sender[s].transfer = t
  \/ \E i \in DOMAIN toHost[s] : toHost[s][i].type \in {"batch", "begin"} /\ toHost[s][i].transfer = t
  \/ \E i \in DOMAIN toHost[s] : toHost[s][i].type \in {"data", "end"} /\ toHost[s][i].of[1] = t
  \/ \E i \in DOMAIN toCaller[s] : toCaller[s][i].transfer = t
  \/ \E i \in DOMAIN fileAck[s] : fileAck[s][i].transfer = t
  \/ open[s] # NoFile /\ open[s].file[1] = t
  \/ \E f \in callbacks[s] : f[1] = t

\* SendFiles, and the goroutine until its first wait
SendFiles(s, t) ==
  /\ link[s] # "down" /\ sender[s] = Idle /\ ~Mentions(s, t)
  /\ Len(toHost[s]) < Window
  /\ \E n \in 1..MaxFiles, total \in 0..(MaxFiles * MaxSize) :
       /\ total <= n * MaxSize
       /\ sender' = [sender EXCEPT ![s] = Sending("batch_ready", t, n, 0, 0, 0)]
       /\ Send(s, [type |-> "batch", transfer |-> t, count |-> n, total |-> total])
  /\ saved' = [saved EXCEPT ![s] = {}]
  /\ UNCHANGED <<link, authorized, toCaller, cancelled, fileAck, transfer, batch, fileVars, callbacks>>

\* CancelFiles, or the Close of the caller's peer; nothing when nothing is sent
CancelFiles(s) ==
  /\ cancelled' = IF sender[s] = Idle THEN cancelled ELSE cancelled \cup {s}
  /\ UNCHANGED <<netVars, sender, fileAck, hostVars>>

\* sendFile: the size is read again, and what is then read may differ from it.
SendBegin(s) ==
  /\ sender[s].at = "next" /\ sender[s].no < sender[s].count /\ link[s] # "down"
  /\ fileAck' = [fileAck EXCEPT ![s] = <<>>]
  /\ \E size, length \in Size :
       /\ Send(s, [type |-> "begin", transfer |-> sender[s].transfer, no |-> sender[s].no + 1, size |-> size])
       /\ Becomes(s, "ready", sender[s].no, 0, length)
  /\ UNCHANGED <<link, authorized, toCaller, cancelled, hostVars>>

AllSaved(s) ==
  /\ sender[s].at = "next" /\ sender[s].no = sender[s].count
  /\ sender' = [sender EXCEPT ![s] = Idle]
  /\ cancelled' = cancelled \ {s}
  /\ UNCHANGED <<netVars, fileAck, hostVars>>

Current(s) == <<sender[s].transfer, sender[s].no + 1>>

\* While no more than so much is buffered
SendData(s) ==
  /\ sender[s].at = "data" /\ sender[s].sent < sender[s].length
  /\ link[s] # "down" /\ Len(toHost[s]) < Window
  /\ Send(s, [type |-> "data", of |-> Current(s), i |-> sender[s].sent + 1])
  /\ Becomes(s, "data", sender[s].no, sender[s].sent + 1, sender[s].length)
  /\ UNCHANGED <<link, authorized, toCaller, cancelled, fileAck, hostVars>>

SendEnd(s) ==
  /\ sender[s].at = "data" /\ sender[s].sent = sender[s].length /\ link[s] # "down"
  /\ Send(s, [type |-> "end", of |-> Current(s), length |-> sender[s].length])
  /\ Becomes(s, "saved", sender[s].no, 0, 0)
  /\ UNCHANGED <<link, authorized, toCaller, cancelled, fileAck, hostVars>>

\* Mutant: whatever the host answers is taken for what is awaited
WaitAck_AnyType(s) ==
  /\ sender[s].at \in Waits /\ fileAck[s] # <<>>
  /\ fileAck' = [fileAck EXCEPT ![s] = Tail(@)]
  /\ IF Head(fileAck[s]).transfer # sender[s].transfer THEN UNCHANGED sender
     ELSE CASE sender[s].at = "batch_ready" -> Becomes(s, "next", 0, 0, 0)
            [] sender[s].at = "ready" -> Becomes(s, "data", sender[s].no, 0, sender[s].length)
            [] sender[s].at = "saved" -> Becomes(s, "next", sender[s].no + 1, 0, 0)
  /\ UNCHANGED <<netVars, cancelled, hostVars>>

\* waitAck: an acknowledgement of another transfer is passed over.
WaitAck(s) ==
  /\ sender[s].at \in Waits /\ fileAck[s] # <<>>
  /\ fileAck' = [fileAck EXCEPT ![s] = Tail(@)]
  /\ LET ack == Head(fileAck[s]) IN
       \/ /\ ack.transfer # sender[s].transfer
          /\ UNCHANGED <<sender, cancelled, toHost>>
       \/ /\ ack.transfer = sender[s].transfer /\ ack.type # sender[s].at
          /\ Fail(s)
       \/ /\ ack.transfer = sender[s].transfer /\ ack.type = sender[s].at
          /\ CASE ack.type = "batch_ready" -> Becomes(s, "next", 0, 0, 0)
               [] ack.type = "ready" -> Becomes(s, "data", sender[s].no, 0, sender[s].length)
               [] ack.type = "saved" -> Becomes(s, "next", sender[s].no + 1, 0, 0)
          /\ UNCHANGED <<cancelled, toHost>>
  /\ UNCHANGED <<link, authorized, toCaller, hostVars>>

\* Mutant: only the first wait has a timer
TimesOut_FirstOnly(s) ==
  /\ sender[s].at = "batch_ready"
  /\ Fail(s)
  /\ UNCHANGED <<link, authorized, toCaller, fileAck, hostVars>>

\* 30 s without the acknowledgement
TimesOut(s) ==
  /\ sender[s].at \in Waits
  /\ Fail(s)
  /\ UNCHANGED <<link, authorized, toCaller, fileAck, hostVars>>

\* The cancel, which nobody looks at between two files
Interrupted(s) ==
  /\ s \in cancelled /\ sender[s].at \in Waits \cup {"data"}
  /\ Fail(s)
  /\ UNCHANGED <<link, authorized, toCaller, fileAck, hostVars>>

FileFails(s) ==
  /\ \/ sender[s].at = "data"
     \/ sender[s].at = "next" /\ sender[s].no < sender[s].count
  /\ Fail(s)
  /\ UNCHANGED <<link, authorized, toCaller, fileAck, hostVars>>

\* The file is not to be opened or read; or the channel is closed.
ReadFails(s) == link[s] # "down" /\ FileFails(s)
SendFails(s) == link[s] = "down" /\ FileFails(s)

\* OnMessage of the caller's channel: what does not fit is dropped.
Deliver(s) ==
  /\ toCaller[s] # <<>>
  /\ toCaller' = [toCaller EXCEPT ![s] = Tail(@)]
  /\ fileAck' = IF Len(fileAck[s]) < AckCap
                   THEN [fileAck EXCEPT ![s] = Append(@, Head(toCaller[s]))] ELSE fileAck
  /\ UNCHANGED <<link, authorized, toHost, sender, cancelled, hostVars>>

-----------------------------------------------------------------------------
\* The host: receiver.message is one section of the receiver's mu.

Freed(s) == IF s \in slots THEN tokens - 1 ELSE tokens

\* cleanup: timer, file with its removal, slot; quiet means nothing without a file.
Cleanup(s) ==
  /\ open' = [open EXCEPT ![s] = NoFile]
  /\ armed' = armed \ {s} /\ quiet' = quiet \ {s}
  /\ slots' = slots \ {s}
  /\ tokens' = Freed(s)

Message(s, type) ==
  /\ link[s] # "down" /\ toHost[s] # <<>> /\ Len(toCaller[s]) < Window
  /\ Head(toHost[s]).type = type
  /\ toHost' = [toHost EXCEPT ![s] = Tail(@)]

Reply(s, kind, t) ==
  toCaller' = IF link[s] = "down" THEN toCaller
              ELSE [toCaller EXCEPT ![s] = Append(@, [type |-> kind, transfer |-> t])]

\* A header sets transfer before anything is looked at.
Unauthorized(s) ==
  /\ s \notin authorized
  /\ \E type \in {"batch", "begin", "data", "end", "cancel"} :
       /\ Message(s, type)
       /\ transfer' = IF type \in {"batch", "begin"}
                         THEN [transfer EXCEPT ![s] = Head(toHost[s]).transfer] ELSE transfer
  /\ Cleanup(s)
  /\ Reply(s, "error", transfer'[s])
  /\ UNCHANGED <<link, authorized, callerVars, batch, callbacks, saved>>

\* The limit may have been lowered since the caller was told it.
ReceiveBatch(s) ==
  /\ s \in authorized /\ Message(s, "batch")
  /\ Cleanup(s)
  /\ transfer' = [transfer EXCEPT ![s] = Head(toHost[s]).transfer]
  /\ \/ /\ batch' = [batch EXCEPT ![s] = [count |-> Head(toHost[s]).count, left |-> Head(toHost[s]).total]]
        /\ Reply(s, "batch_ready", transfer'[s])
     \/ /\ batch' = [batch EXCEPT ![s] = NoBatch]
        /\ Reply(s, "error", transfer'[s])
  /\ UNCHANGED <<link, authorized, callerVars, callbacks, saved>>

\* The comparison of the transfer finds it equal: it has just been set.
Allowed(s, m) == batch[s].count >= 1 /\ m.size <= batch[s].left

Begin(s) ==
  /\ s \in authorized /\ Message(s, "begin")
  /\ transfer' = [transfer EXCEPT ![s] = Head(toHost[s]).transfer]

Budget(s) ==
  batch' = [batch EXCEPT ![s] = [count |-> @.count - 1, left |-> @.left - Head(toHost[s]).size]]

BeginRefused(s) ==
  /\ Begin(s) /\ ~Allowed(s, Head(toHost[s]))
  /\ Cleanup(s)
  /\ Reply(s, "error", transfer'[s])
  /\ UNCHANGED <<link, authorized, callerVars, batch, callbacks, saved>>

\* Mutant: no file, and the slot stays
BeginFails_Leak(s) ==
  /\ Begin(s) /\ Allowed(s, Head(toHost[s])) /\ Freed(s) < MaxSlots
  /\ Budget(s)
  /\ open' = [open EXCEPT ![s] = NoFile] /\ armed' = armed \ {s} /\ quiet' = quiet \ {s}
  /\ slots' = slots \cup {s} /\ tokens' = Freed(s) + 1
  /\ Reply(s, "error", transfer'[s])
  /\ UNCHANGED <<link, authorized, callerVars, callbacks, saved>>

\* No slot, or no file: the batch has got smaller.
BeginFails(s) ==
  /\ Begin(s) /\ Allowed(s, Head(toHost[s]))
  /\ Budget(s)
  /\ Cleanup(s)
  /\ Reply(s, "error", transfer'[s])
  /\ UNCHANGED <<link, authorized, callerVars, callbacks, saved>>

\* Mutant: only data starts the timer
BeginReady_NoTimer(s) ==
  /\ Begin(s) /\ Allowed(s, Head(toHost[s])) /\ Freed(s) < MaxSlots
  /\ Budget(s)
  /\ LET m == Head(toHost[s]) IN
       open' = [open EXCEPT ![s] = OpenFile(<<m.transfer, m.no>>, m.size, 0, TRUE)]
  /\ armed' = armed \ {s} /\ quiet' = quiet \ {s}
  /\ slots' = slots \cup {s} /\ tokens' = Freed(s) + 1
  /\ Reply(s, "ready", transfer'[s])
  /\ UNCHANGED <<link, authorized, callerVars, callbacks, saved>>

BeginReady(s) ==
  /\ Begin(s) /\ Allowed(s, Head(toHost[s])) /\ Freed(s) < MaxSlots
  /\ Budget(s)
  /\ LET m == Head(toHost[s]) IN
       open' = [open EXCEPT ![s] = OpenFile(<<m.transfer, m.no>>, m.size, 0, TRUE)]
  /\ armed' = armed \cup {s} /\ quiet' = quiet \ {s}
  /\ slots' = slots \cup {s} /\ tokens' = Freed(s) + 1
  /\ Reply(s, "ready", transfer'[s])
  /\ UNCHANGED <<link, authorized, callerVars, callbacks, saved>>

\* No file is open, more comes than was announced, or the disk is full.
DataRefused(s) ==
  /\ s \in authorized /\ Message(s, "data")
  /\ Cleanup(s)
  /\ Reply(s, "error", transfer[s])
  /\ UNCHANGED <<link, authorized, callerVars, transfer, batch, callbacks, saved>>

Data(s) ==
  /\ s \in authorized /\ Message(s, "data")
  /\ open[s] # NoFile /\ open[s].got < open[s].size
  /\ LET m == Head(toHost[s]) IN
       open' = [open EXCEPT ![s] = OpenFile(@.file, @.size, @.got + 1,
                                            @.good /\ m.of = @.file /\ m.i = @.got + 1)]
  /\ armed' = armed \cup {s} /\ quiet' = quiet \ {s}
  /\ UNCHANGED <<link, authorized, toCaller, callerVars, transfer, batch, slots, tokens, callbacks, saved>>

\* Mutant: the file is closed, and whether it was moved is forgotten
EndRefused_Saved(s) ==
  /\ s \in authorized /\ Message(s, "end")
  /\ Cleanup(s)
  /\ Reply(s, "saved", transfer[s])
  /\ UNCHANGED <<link, authorized, callerVars, transfer, batch, callbacks, saved>>

\* The file is not whole, the disk is full, or authority was lost just now.
EndRefused(s) ==
  /\ s \in authorized /\ Message(s, "end")
  /\ Cleanup(s)
  /\ Reply(s, "error", transfer[s])
  /\ UNCHANGED <<link, authorized, callerVars, transfer, batch, callbacks, saved>>

\* Mutant: what is missing is not looked at
Complete_Anyhow(s) == open[s] # NoFile

Complete(s) == open[s] # NoFile /\ open[s].got = open[s].size

End(s) ==
  /\ s \in authorized /\ Message(s, "end") /\ Complete(s)
  /\ LET m == Head(toHost[s]) IN
       saved' = [saved EXCEPT ![s] = @ \cup {[of |-> open[s].file,
                   whole |-> open[s].good /\ m.of = open[s].file /\ open[s].got = m.length
                               /\ m.length = open[s].size]}]
  /\ Cleanup(s)
  /\ Reply(s, "saved", transfer[s])
  /\ UNCHANGED <<link, authorized, callerVars, transfer, batch, callbacks>>

Cancel(s) ==
  /\ s \in authorized /\ Message(s, "cancel")
  /\ batch' = [batch EXCEPT ![s] = NoBatch]
  /\ Cleanup(s)
  /\ Reply(s, "cancelled", transfer[s])
  /\ UNCHANGED <<link, authorized, callerVars, transfer, callbacks, saved>>

Receive(s) ==
  \/ Unauthorized(s) \/ ReceiveBatch(s) \/ BeginRefused(s) \/ BeginFails(s) \/ BeginReady(s)
  \/ DataRefused(s) \/ Data(s) \/ EndRefused(s) \/ End(s) \/ Cancel(s)

-----------------------------------------------------------------------------
\* The timer of an open file: its callback has to wait for mu.

TimePasses(s) ==
  /\ open[s] # NoFile /\ s \notin quiet
  /\ quiet' = quiet \cup {s}
  /\ UNCHANGED <<netVars, callerVars, transfer, batch, open, slots, tokens, armed, callbacks, saved>>

Expire(s) ==
  /\ s \in armed /\ s \in quiet
  /\ armed' = armed \ {s}
  /\ callbacks' = [callbacks EXCEPT ![s] = @ \cup {open[s].file}]
  /\ UNCHANGED <<netVars, callerVars, transfer, batch, open, slots, tokens, quiet, saved>>

Callback(s) ==
  /\ Len(toCaller[s]) < Window
  /\ \E f \in callbacks[s] :
       /\ callbacks' = [callbacks EXCEPT ![s] = @ \ {f}]
       /\ \/ /\ open[s].file = f /\ s \in quiet
             /\ Cleanup(s) /\ Reply(s, "error", transfer[s])
          \/ /\ open[s].file = f /\ s \notin quiet
             /\ armed' = armed \cup {s}
             /\ UNCHANGED <<open, slots, tokens, quiet, toCaller>>
          \/ /\ open[s].file # f
             /\ UNCHANGED <<fileVars, toCaller>>
  /\ UNCHANGED <<link, authorized, toHost, callerVars, transfer, batch, saved>>

-----------------------------------------------------------------------------
\* The session: Close of the host's peer closes the receiver first, then the
\* channel and with it the client at the hub.

CloseReceiver(s) ==
  /\ link[s] = "up"
  /\ link' = [link EXCEPT ![s] = "closing"]
  /\ Cleanup(s)
  /\ UNCHANGED <<authorized, toHost, toCaller, callerVars, transfer, batch, callbacks, saved>>

CloseChannel(s) ==
  /\ link[s] = "closing"
  /\ link' = [link EXCEPT ![s] = "down"]
  /\ authorized' = authorized \ {s}
  /\ toHost' = [toHost EXCEPT ![s] = <<>>] /\ toCaller' = [toCaller EXCEPT ![s] = <<>>]
  /\ UNCHANGED <<callerVars, hostVars>>

\* Another session, with a receiver and a channel of its own
Connect(s) ==
  /\ link[s] = "down" /\ sender[s] = Idle /\ open[s] = NoFile /\ callbacks[s] = {}
  /\ link' = [link EXCEPT ![s] = "up"]
  /\ fileAck' = [fileAck EXCEPT ![s] = <<>>]
  /\ transfer' = [transfer EXCEPT ![s] = NoTransfer] /\ batch' = [batch EXCEPT ![s] = NoBatch]
  /\ UNCHANGED <<authorized, toHost, toCaller, sender, cancelled, fileVars, callbacks, saved>>

\* A login, and revocation by the AuthManager or an administrator
Authorize(s) ==
  /\ link[s] = "up"
  /\ \/ authorized' = authorized \cup {s}
     \/ authorized' = authorized \ {s}
  /\ UNCHANGED <<link, toHost, toCaller, callerVars, hostVars>>

-----------------------------------------------------------------------------
Sender(s) ==
  \/ SendBegin(s) \/ AllSaved(s) \/ SendData(s) \/ SendEnd(s)
  \/ WaitAck(s) \/ TimesOut(s) \/ Interrupted(s) \/ SendFails(s)

Timer(s) == Expire(s) \/ Callback(s)

Next ==
  \E s \in Session :
    \/ \E t \in Transfer : SendFiles(s, t)
    \/ CancelFiles(s) \/ Sender(s) \/ ReadFails(s)
    \/ Deliver(s) \/ Receive(s)
    \/ TimePasses(s) \/ Timer(s)
    \/ CloseReceiver(s) \/ CloseChannel(s) \/ Connect(s) \/ Authorize(s)

Spec == Init /\ [][Next]_vars

\* Goroutines run, the channel delivers, time passes.
Fairness ==
  \A s \in Session :
    /\ WF_vars(Sender(s)) /\ WF_vars(Deliver(s)) /\ WF_vars(Receive(s))
    /\ WF_vars(TimePasses(s)) /\ WF_vars(Expire(s)) /\ WF_vars(Callback(s))

FairSpec == Spec /\ Fairness

-----------------------------------------------------------------------------
\* Properties

\* A token is in the channel for each open file of any session and for nothing else.
TokensConserved ==
  /\ tokens = Cardinality(slots) /\ tokens <= MaxSlots
  /\ slots = {s \in Session : open[s] # NoFile}

\* Every open file has its timer running, or the callback of it on its way.
OpenIsWatched ==
  \A s \in Session : open[s] # NoFile => s \in armed \/ open[s].file \in callbacks[s]

\* "At most four files are written at once" (app/README.md:35): no token is lost on
\* any way a file can end, none is taken out twice, and none stays with a file that
\* has been forgotten, however data, callbacks and refusals of it cross.
SlotsConserved == TokensConserved /\ OpenIsWatched

\* What is moved to its place is what the caller read, whole, in order and as long
\* as was announced, whatever was cancelled, refused or left over before it; and it
\* is moved once, so that no second end of it is under way.
SavedWhole ==
  \A s \in Session : \A f \in saved[s] :
    /\ f.whole
    /\ \A i \in DOMAIN toHost[s] : toHost[s][i].type = "end" => toHost[s][i].of # f.of

\* What the caller counts as saved has been saved: no late acknowledgement is
\* taken for that of a file.
ToldIsSaved ==
  \A s \in Session : sender[s] # Idle =>
    \A i \in 1..sender[s].no : \E f \in saved[s] : f.of = <<sender[s].transfer, i>>

\* Of the files a caller has begun, the one whose end is under way although the
\* caller has given up may come late.
LateFiles(s) ==
  {toHost[s][i].of : i \in {j \in DOMAIN toHost[s] :
     toHost[s][j].type = "end" /\ (sender[s] = Idle \/ toHost[s][j].of[1] # sender[s].transfer)}}

doings == [s \in Session |-> IF sender[s] = Idle THEN Idle
             ELSE [transfer |-> sender[s].transfer, count |-> sender[s].count, no |-> sender[s].no]]
storeds == [s \in Session |-> {f.of : f \in saved[s]}]
lates == [s \in Session |-> LateFiles(s)]

Batch == INSTANCE FileBatch WITH Nothing <- Idle, doing <- doings, stored <- storeds, late <- lates

\* Caller and host keep the promises of FileBatch: the files of a batch arrive one
\* after the other, each once and counted when it has, and of a batch that was given
\* up at most one file comes late, before anything of the next one.
ImplementsBatch == Batch!Spec

\* "30 s without progress, a cancel, a lost connection or revocation cleans up
\* the unfinished file" (app/README.md:35): no file stays open.
UnfinishedEnds == \A s \in Session : []<>(open[s] = NoFile)

\* A batch comes to its end, although acknowledgements that do not fit into
\* fileAck are dropped.
BatchEnds == \A s \in Session : []<>(sender[s] = Idle)

=============================================================================
