------------------------- MODULE FileTransferProofs -------------------------
(***************************************************************************)
(* Of FileTransfer, for any sessions and files: the slots, the types, that *)
(* what is saved is whole and saved once, that what the caller counts has  *)
(* been saved, and that caller and host implement FileBatch.               *)
(* Of Upload, for any requests: what it has put on the desktop stays.      *)
(***************************************************************************)
EXTENDS FileTransfer, Upload, FiniteSetTheorems, SequenceTheorems, TLAPS

USE FileTransferAssumption DEF FileTransferAssumption

\* The receivers of all sessions share the tokens; what a message does to the
\* fields of one of them is one of three things.
SlotInv ==
  /\ TokensConserved
  /\ slots \in SUBSET Session
  /\ DOMAIN open = Session
  /\ \A s \in Session : open[s] # NoFile => open[s].file # <<>>

\* An open file is one.
LEMMA OpenIsSome ==
  ASSUME NEW f, f # <<>>, NEW size, NEW got, NEW good
  PROVE  OpenFile(f, size, got, good) # NoFile /\ OpenFile(f, size, got, good).file = f
<1>1. OpenFile(f, size, got, good).file = f
  BY DEF OpenFile
<1>2. NoFile.file = <<>>
  BY DEF NoFile
<1>3. QED
  BY <1>1, <1>2

\* The token of a receiver that has one can be taken out.
LEMMA FreedTokens ==
  ASSUME SlotInv, NEW s \in Session
  PROVE  /\ IsFiniteSet(slots \ {s}) /\ Freed(s) = Cardinality(slots \ {s})
         /\ Freed(s) \in Nat /\ Freed(s) <= MaxSlots
<1>1. IsFiniteSet(slots)
  BY FS_Subset DEF SlotInv
<1>2. IsFiniteSet(slots \ {s}) /\ Cardinality(slots \ {s}) = IF s \in slots THEN Cardinality(slots) - 1 ELSE Cardinality(slots)
  BY <1>1, FS_RemoveElement
<1>3. Cardinality(slots) \in Nat /\ Cardinality(slots \ {s}) \in Nat
  BY <1>1, <1>2, FS_CardinalityType
<1>4. tokens = Cardinality(slots) /\ tokens <= MaxSlots
  BY DEF SlotInv, TokensConserved
<1>5. MaxSlots \in Nat
  OBVIOUS
<1>6. Freed(s) = Cardinality(slots \ {s})
  BY <1>2, <1>4 DEF Freed
<1>7. Freed(s) <= MaxSlots
  BY <1>3, <1>4, <1>5 DEF Freed
<1>8. QED
  BY <1>2, <1>3, <1>6, <1>7

\* cleanup gives back what the receiver has.
LEMMA CleanupKeeps == ASSUME SlotInv, NEW s \in Session, Cleanup(s) PROVE SlotInv'
<1>1. /\ open' = [open EXCEPT ![s] = NoFile] /\ slots' = slots \ {s} /\ tokens' = Freed(s)
  BY DEF Cleanup
<1>2. tokens' = Cardinality(slots') /\ tokens' <= MaxSlots
  BY <1>1, FreedTokens
<1>3. \A x \in Session : open'[x] = IF x = s THEN NoFile ELSE open[x]
  BY <1>1 DEF SlotInv
<1>4. slots' = {x \in Session : open'[x] # NoFile}
  BY <1>1, <1>3 DEF SlotInv, TokensConserved
<1>5. QED
  BY <1>1, <1>2, <1>4 DEF SlotInv, TokensConserved

\* A begin takes one.
LEMMA BeginKeeps == ASSUME SlotInv, NEW s \in Session, BeginReady(s) PROVE SlotInv'
<1>1. PICK a, b, size : open' = [open EXCEPT ![s] = OpenFile(<<a, b>>, size, 0, TRUE)]
  BY DEF BeginReady
<1> DEFINE q == OpenFile(<<a, b>>, size, 0, TRUE)
<1>q. q # NoFile /\ q.file # <<>>
  <2>1. <<a, b>> # <<>>
    OBVIOUS
  <2>2. QED
    BY <2>1, OpenIsSome
<1>o. open' = [open EXCEPT ![s] = q]
  BY <1>1
<1> HIDE DEF q
<1>2. slots' = slots \cup {s} /\ tokens' = Freed(s) + 1 /\ Freed(s) < MaxSlots
  BY DEF BeginReady
<1>3. \A x \in Session : open'[x] = IF x = s THEN q ELSE open[x]
  BY <1>o DEF SlotInv
<1>4. slots' = {x \in Session : open'[x] # NoFile}
  BY <1>2, <1>3, <1>q DEF SlotInv, TokensConserved
<1>5. slots' = (slots \ {s}) \cup {s}
  BY <1>2
<1>6. Cardinality(slots') = Cardinality(slots \ {s}) + 1
  BY <1>5, FreedTokens, FS_AddElement
<1>f. Freed(s) = Cardinality(slots \ {s}) /\ Freed(s) \in Nat
  BY FreedTokens
<1>7. tokens' = Cardinality(slots') /\ tokens' <= MaxSlots
  BY <1>2, <1>6, <1>f
<1>8. QED
  BY <1>o, <1>q, <1>2, <1>3, <1>4, <1>7 DEF SlotInv, TokensConserved

\* Data goes to the file that is open.
LEMMA DataKeeps == ASSUME SlotInv, NEW s \in Session, Data(s) PROVE SlotInv'
<1>1. open[s] # NoFile /\ UNCHANGED <<slots, tokens>>
  BY DEF Data
<1>2. PICK f, size, got, good : f = open[s].file /\ open' = [open EXCEPT ![s] = OpenFile(f, size, got, good)]
  BY DEF Data, SlotInv
<1> DEFINE q == OpenFile(f, size, got, good)
<1>q. q # NoFile /\ q.file # <<>>
  <2>1. f # <<>>
    BY <1>1, <1>2 DEF SlotInv
  <2>2. QED
    BY <2>1, OpenIsSome
<1>o. open' = [open EXCEPT ![s] = q]
  BY <1>2
<1> HIDE DEF q
<1>3. \A x \in Session : open'[x] = IF x = s THEN q ELSE open[x]
  BY <1>o DEF SlotInv
<1>4. QED
  BY <1>1, <1>o, <1>q, <1>3 DEF SlotInv, TokensConserved

\* Every other step leaves the receivers alone.
LEMMA SlotNext == SlotInv /\ [Next]_vars => SlotInv'
<1> SUFFICES ASSUME SlotInv, [Next]_vars PROVE SlotInv'
  OBVIOUS
<1>1. CASE UNCHANGED <<open, slots, tokens>>
  BY <1>1 DEF SlotInv, TokensConserved
<1>2. ASSUME NEW s \in Session, Receive(s) \/ Callback(s) \/ CloseReceiver(s)
      PROVE  \/ UNCHANGED <<open, slots, tokens>>
             \/ Cleanup(s) \/ BeginReady(s) \/ Data(s)
  BY <1>2 DEF Receive, Callback, CloseReceiver, Unauthorized, ReceiveBatch, BeginRefused, BeginFails,
              DataRefused, EndRefused, End, Cancel, fileVars
<1>3. ASSUME NEW s \in Session,
             \/ \E t \in Transfer : SendFiles(s, t)
             \/ CancelFiles(s) \/ Sender(s) \/ ReadFails(s) \/ Deliver(s) \/ TimePasses(s)
             \/ Expire(s) \/ CloseChannel(s) \/ Connect(s) \/ Authorize(s)
      PROVE  UNCHANGED <<open, slots, tokens>>
  BY <1>3 DEF Sender, SendFiles, CancelFiles, SendBegin, AllSaved, SendData, SendEnd, WaitAck, TimesOut,
              Interrupted, ReadFails, SendFails, FileFails, Deliver, TimePasses, Expire, CloseChannel,
              Connect, Authorize, hostVars, fileVars
<1>4. CASE UNCHANGED vars
  BY <1>1, <1>4 DEF vars, hostVars, fileVars
<1>5. QED
  BY <1>1, <1>2, <1>3, <1>4, CleanupKeeps, BeginKeeps, DataKeeps DEF Next, Timer

LEMMA SlotInit == Init => SlotInv
<1> SUFFICES ASSUME Init PROVE SlotInv
  OBVIOUS
<1>1. tokens = 0 /\ slots = {} /\ open = [s \in Session |-> NoFile]
  BY DEF Init
<1>2. tokens = Cardinality(slots) /\ tokens <= MaxSlots
  BY <1>1, FS_EmptySet
<1>3. QED
  BY <1>1, <1>2 DEF SlotInv, TokensConserved

-----------------------------------------------------------------------------
\* Types

Senders ==
  {Idle} \cup [at : Waits \cup {"next", "data"}, transfer : Transfer, count : 1..MaxFiles,
               no : 0..MaxFiles, sent : Size, length : Size]
OpenFiles == {NoFile} \cup [file : File, size : Size, got : Size, good : BOOLEAN]
Batches == [count : 0..MaxFiles, left : 0..(MaxFiles * MaxSize)]

NetTypes ==
  /\ link \in [Session -> {"up", "closing", "down"}]
  /\ authorized \in SUBSET Session
  /\ toHost \in [Session -> Seq(Messages)] /\ toCaller \in [Session -> Seq(Acks)]

\* While a file is under way there is one left of the batch.
CallerTypes ==
  /\ sender \in [Session -> Senders]
  /\ cancelled \in SUBSET Session
  /\ fileAck \in [Session -> Seq(Acks)]
  /\ \A s \in Session : Len(fileAck[s]) <= AckCap
  /\ \A s \in Session : sender[s].at \in {"ready", "data", "saved"} => sender[s].no < sender[s].count

\* A timer runs for a file.
HostTypes ==
  /\ transfer \in [Session -> Transfer \cup {NoTransfer}]
  /\ batch \in [Session -> Batches]
  /\ open \in [Session -> OpenFiles]
  /\ armed \in SUBSET Session /\ quiet \in SUBSET Session
  /\ \A s \in armed : open[s] # NoFile
  /\ callbacks \in [Session -> SUBSET File]
  /\ saved \in [Session -> SUBSET [of : File, whole : BOOLEAN]]

TypeInv == NetTypes /\ CallerTypes /\ HostTypes

LEMMA AppendFacts ==
  ASSUME NEW S, NEW q \in Seq(S), NEW m \in S
  PROVE  /\ Append(q, m) \in Seq(S) /\ Len(Append(q, m)) = Len(q) + 1
         /\ \A i \in 1..Len(q) : Append(q, m)[i] = q[i]
         /\ Append(q, m)[Len(q) + 1] = m
  OBVIOUS

LEMMA EmptyFacts ==
  ASSUME NEW S, NEW q \in Seq(S)
  PROVE  Len(q) \in Nat /\ (Len(q) = 0 <=> q = <<>>)
  OBVIOUS

LEMMA TailFacts ==
  ASSUME NEW S, NEW q \in Seq(S), q # <<>>
  PROVE  /\ Head(q) \in S /\ Head(q) = q[1] /\ Len(q) \in Nat \ {0}
         /\ Tail(q) \in Seq(S) /\ Len(Tail(q)) = Len(q) - 1
         /\ \A i \in 1..(Len(q) - 1) : Tail(q)[i] = q[i + 1]
  OBVIOUS

LEMMA SendTypes ==
  ASSUME NetTypes, NEW s \in Session, NEW m \in Messages, Send(s, m)
  PROVE  toHost' \in [Session -> Seq(Messages)]
<1>1. Append(toHost[s], m) \in Seq(Messages)
  <2>1. toHost[s] \in Seq(Messages)
    BY DEF NetTypes
  <2>2. QED
    BY <2>1, AppendFacts
<1>2. QED
  BY <1>1 DEF Send, NetTypes

LEMMA ReplyTypes ==
  ASSUME NetTypes, NEW s \in Session, NEW kind \in Waits \cup {"error", "cancelled"},
         NEW t \in Transfer \cup {NoTransfer}, Reply(s, kind, t)
  PROVE  toCaller' \in [Session -> Seq(Acks)]
<1> DEFINE a == [type |-> kind, transfer |-> t]
<1>1. a \in Acks
  BY DEF Acks
<1>2. toCaller[s] \in Seq(Acks)
  BY DEF NetTypes
<1>3. Append(toCaller[s], a) \in Seq(Acks)
  BY <1>1, <1>2, AppendFacts
<1>4. QED
  BY <1>3 DEF Reply, NetTypes

\* What a message is, by its type
LEMMA MessageFacts ==
  ASSUME NEW m \in Messages
  PROVE  /\ m.type \in {"batch", "begin", "data", "end", "cancel"}
         /\ m.type = "batch" => m.transfer \in Transfer /\ m.count \in 1..MaxFiles
                                  /\ m.total \in 0..(MaxFiles * MaxSize)
         /\ m.type = "begin" => m.transfer \in Transfer /\ m.no \in 1..MaxFiles /\ m.size \in Size
         /\ m.type = "data" => m.of \in File /\ m.i \in 1..MaxSize
         /\ m.type = "end" => m.of \in File /\ m.length \in Size
  BY DEF Messages

\* What a sender is that is not idle
LEMMA SenderFacts ==
  ASSUME CallerTypes, NEW s \in Session
  PROVE  /\ sender[s].at # "idle" =>
              /\ sender[s] # Idle
              /\ sender[s].at \in Waits \cup {"next", "data"} /\ sender[s].transfer \in Transfer
              /\ sender[s].count \in 1..MaxFiles /\ sender[s].no \in 0..MaxFiles
              /\ sender[s].sent \in Size /\ sender[s].length \in Size
         /\ sender[s].at = "idle" => sender[s] = Idle
<1>1. sender[s] \in Senders
  BY DEF CallerTypes
<1>2. Idle.at = "idle"
  BY DEF Idle
<1>3. QED
  BY <1>1, <1>2 DEF Senders, Waits

LEMMA BecomesTypes ==
  ASSUME CallerTypes, NEW s \in Session, NEW at \in Waits \cup {"next", "data"},
         NEW no \in 0..MaxFiles, NEW sent \in Size, NEW length \in Size,
         sender[s].at # "idle", at \in {"ready", "data", "saved"} => no < sender[s].count,
         Becomes(s, at, no, sent, length)
  PROVE  /\ sender' \in [Session -> Senders]
         /\ \A x \in Session : sender'[x].at \in {"ready", "data", "saved"} => sender'[x].no < sender'[x].count
         /\ sender'[s] = Sending(at, sender[s].transfer, sender[s].count, no, sent, length)
         /\ \A x \in Session : x # s => sender'[x] = sender[x]
<1> DEFINE q == Sending(at, sender[s].transfer, sender[s].count, no, sent, length)
<1>1. q \in Senders
  BY SenderFacts DEF Sending, Senders
<1>2. q.at = at /\ q.no = no /\ q.count = sender[s].count
  BY DEF Sending
<1>3. sender' = [sender EXCEPT ![s] = q]
  BY DEF Becomes
<1> HIDE DEF q
<1>4. \A x \in Session : sender'[x] = IF x = s THEN q ELSE sender[x]
  BY <1>3 DEF CallerTypes
<1>5. sender' \in [Session -> Senders]
  BY <1>1, <1>3 DEF CallerTypes
<1>6. \A x \in Session : sender'[x].at \in {"ready", "data", "saved"} => sender'[x].no < sender'[x].count
  BY <1>2, <1>4 DEF CallerTypes
<1>7. QED
  BY <1>4, <1>5, <1>6 DEF q

LEMMA FailTypes ==
  ASSUME NetTypes, CallerTypes, NEW s \in Session, Fail(s)
  PROVE  /\ toHost' \in [Session -> Seq(Messages)]
         /\ sender' \in [Session -> Senders] /\ cancelled' \in SUBSET Session
         /\ \A x \in Session : sender'[x].at \in {"ready", "data", "saved"} => sender'[x].no < sender'[x].count
<1>1. [type |-> "cancel"] \in Messages
  BY DEF Messages
<1>2. toHost' \in [Session -> Seq(Messages)]
  BY <1>1, SendTypes DEF Fail, NetTypes
<1>3. \A x \in Session : sender'[x] = IF x = s THEN Idle ELSE sender[x]
  BY DEF Fail, CallerTypes
<1>4. Idle.at = "idle"
  BY DEF Idle
<1>5. QED
  BY <1>2, <1>3, <1>4 DEF Fail, CallerTypes, Senders

LEMMA AckFacts ==
  ASSUME NEW a \in Acks
  PROVE  a.type \in Waits \cup {"error", "cancelled"} /\ a.transfer \in Transfer \cup {NoTransfer}
  BY DEF Acks

\* The steps of the caller
LEMMA CallerKeeps ==
  ASSUME TypeInv, NEW s \in Session,
         \/ \E t \in Transfer : SendFiles(s, t)
         \/ CancelFiles(s) \/ Sender(s) \/ ReadFails(s) \/ Deliver(s)
  PROVE  TypeInv'
<1> USE DEF TypeInv
<1>s. /\ sender[s] \in Senders
      /\ \A x \in Session : sender[x].at \in {"ready", "data", "saved"} => sender[x].no < sender[x].count
  BY DEF CallerTypes
<1>1. ASSUME NEW t \in Transfer, SendFiles(s, t) PROVE TypeInv'
  <2>1. PICK n \in 1..MaxFiles, total \in 0..(MaxFiles * MaxSize) :
          /\ sender' = [sender EXCEPT ![s] = Sending("batch_ready", t, n, 0, 0, 0)]
          /\ Send(s, [type |-> "batch", transfer |-> t, count |-> n, total |-> total])
    BY <1>1 DEF SendFiles
  <2>2. [type |-> "batch", transfer |-> t, count |-> n, total |-> total] \in Messages
    BY DEF Messages
  <2>3. toHost' \in [Session -> Seq(Messages)]
    BY <2>1, <2>2, SendTypes
  <2> DEFINE q == Sending("batch_ready", t, n, 0, 0, 0)
  <2>4. q \in Senders /\ q.at = "batch_ready"
    BY DEF Sending, Senders, Waits, Size
  <2> HIDE DEF q
  <2>5. \A x \in Session : sender'[x] = IF x = s THEN q ELSE sender[x]
    BY <2>1 DEF CallerTypes, q
  <2>6. sender' \in [Session -> Senders]
    BY <2>1, <2>4 DEF CallerTypes, q
  <2>7. NetTypes'
    BY <1>1, <2>3 DEF SendFiles, NetTypes
  <2>8. CallerTypes'
    BY <1>1, <1>s, <2>4, <2>5, <2>6 DEF SendFiles, CallerTypes
  <2>9. HostTypes'
    BY <1>1 DEF SendFiles, HostTypes, fileVars
  <2>10. QED
    BY <2>7, <2>8, <2>9
<1>2. CASE CancelFiles(s)
  BY <1>2 DEF CancelFiles, NetTypes, CallerTypes, HostTypes, netVars, hostVars, fileVars
<1>3. CASE SendBegin(s)
  <2>0. sender[s].at = "next" /\ sender[s].no < sender[s].count
    BY <1>3 DEF SendBegin
  <2>1. PICK size \in Size, length \in Size :
          /\ Send(s, [type |-> "begin", transfer |-> sender[s].transfer, no |-> sender[s].no + 1, size |-> size])
          /\ Becomes(s, "ready", sender[s].no, 0, length)
    BY <1>3 DEF SendBegin
  <2>2. [type |-> "begin", transfer |-> sender[s].transfer, no |-> sender[s].no + 1, size |-> size] \in Messages
    BY <2>0, SenderFacts DEF Messages
  <2>3. toHost' \in [Session -> Seq(Messages)]
    BY <2>1, <2>2, SendTypes
  <2>4. 0 \in Size
    BY DEF Size
  <2>5. /\ sender' \in [Session -> Senders]
        /\ \A x \in Session : sender'[x].at \in {"ready", "data", "saved"} => sender'[x].no < sender'[x].count
    BY <2>0, <2>1, <2>4, BecomesTypes, SenderFacts DEF Waits
  <2>6. fileAck' = [fileAck EXCEPT ![s] = <<>>]
    BY <1>3 DEF SendBegin
  <2>7. fileAck' \in [Session -> Seq(Acks)] /\ \A x \in Session : Len(fileAck'[x]) <= AckCap
    BY <2>6 DEF CallerTypes
  <2>8. CallerTypes'
    BY <1>3, <2>5, <2>7 DEF SendBegin, CallerTypes
  <2>9. NetTypes' /\ HostTypes'
    BY <1>3, <2>3 DEF SendBegin, NetTypes, HostTypes, hostVars, fileVars
  <2>10. QED
    BY <2>8, <2>9
<1>4. CASE AllSaved(s)
  <2>1. \A x \in Session : sender'[x] = IF x = s THEN Idle ELSE sender[x]
    BY <1>4 DEF AllSaved, CallerTypes
  <2>2. Idle.at = "idle" /\ Idle \in Senders
    BY DEF Idle, Senders
  <2>3. CallerTypes'
    BY <1>4, <2>1, <2>2, <1>s DEF AllSaved, CallerTypes
  <2>4. QED
    BY <1>4, <2>3 DEF AllSaved, NetTypes, HostTypes, netVars, hostVars, fileVars
<1>5. CASE SendData(s)
  <2>0. sender[s].at = "data" /\ sender[s].sent < sender[s].length
    BY <1>5 DEF SendData
  <2>1. sender[s].sent + 1 \in 1..MaxSize /\ sender[s].no + 1 \in 1..MaxFiles /\ Current(s) \in File
    BY <2>0, <1>s, SenderFacts DEF Size, Current, File
  <2>2. [type |-> "data", of |-> Current(s), i |-> sender[s].sent + 1] \in Messages
    BY <2>1 DEF Messages
  <2>3. toHost' \in [Session -> Seq(Messages)]
    BY <1>5, <2>2, SendTypes DEF SendData
  <2>4. sender[s].sent + 1 \in Size
    BY <2>1 DEF Size
  <2>5. /\ sender' \in [Session -> Senders]
        /\ \A x \in Session : sender'[x].at \in {"ready", "data", "saved"} => sender'[x].no < sender'[x].count
    BY <1>5, <1>s, <2>0, <2>4, BecomesTypes, SenderFacts DEF SendData
  <2>6. CallerTypes'
    BY <1>5, <2>5 DEF SendData, CallerTypes
  <2>7. QED
    BY <1>5, <2>3, <2>6 DEF SendData, NetTypes, HostTypes, hostVars, fileVars
<1>6. CASE SendEnd(s)
  <2>0. sender[s].at = "data"
    BY <1>6 DEF SendEnd
  <2>1. sender[s].no + 1 \in 1..MaxFiles /\ Current(s) \in File
    BY <2>0, <1>s, SenderFacts DEF Current, File
  <2>2. [type |-> "end", of |-> Current(s), length |-> sender[s].length] \in Messages
    BY <2>0, <2>1, SenderFacts DEF Messages
  <2>3. toHost' \in [Session -> Seq(Messages)]
    BY <1>6, <2>2, SendTypes DEF SendEnd
  <2>4. 0 \in Size
    BY DEF Size
  <2>5. /\ sender' \in [Session -> Senders]
        /\ \A x \in Session : sender'[x].at \in {"ready", "data", "saved"} => sender'[x].no < sender'[x].count
    BY <1>6, <1>s, <2>0, <2>4, BecomesTypes, SenderFacts DEF SendEnd, Waits
  <2>6. CallerTypes'
    BY <1>6, <2>5 DEF SendEnd, CallerTypes
  <2>7. QED
    BY <1>6, <2>3, <2>6 DEF SendEnd, NetTypes, HostTypes, hostVars, fileVars
<1>7. CASE WaitAck(s)
  <2>0. sender[s].at \in Waits /\ fileAck[s] # <<>> /\ sender[s].at # "idle"
    BY <1>7 DEF WaitAck, Waits
  <2>1. fileAck' = [fileAck EXCEPT ![s] = Tail(@)] /\ fileAck[s] \in Seq(Acks)
    BY <1>7 DEF WaitAck, CallerTypes
  <2>2. Tail(fileAck[s]) \in Seq(Acks) /\ Len(Tail(fileAck[s])) <= Len(fileAck[s]) /\ Head(fileAck[s]) \in Acks
    BY <2>0, <2>1, TailFacts
  <2>3. fileAck' \in [Session -> Seq(Acks)] /\ \A x \in Session : Len(fileAck'[x]) <= AckCap
    <3>1. \A x \in Session : fileAck'[x] = IF x = s THEN Tail(fileAck[s]) ELSE fileAck[x]
      BY <2>1 DEF CallerTypes
    <3>2. Len(fileAck[s]) \in Nat /\ Len(Tail(fileAck[s])) \in Nat
      BY <2>1, <2>2
    <3>3. QED
      BY <2>1, <2>2, <3>1, <3>2 DEF CallerTypes
  <2>4. UNCHANGED <<link, authorized, toCaller, hostVars>>
    BY <1>7 DEF WaitAck
  <2>5. /\ toHost' \in [Session -> Seq(Messages)]
        /\ sender' \in [Session -> Senders] /\ cancelled' \in SUBSET Session
        /\ \A x \in Session : sender'[x].at \in {"ready", "data", "saved"} => sender'[x].no < sender'[x].count
    <3>1. CASE UNCHANGED <<sender, cancelled, toHost>>
      BY <3>1 DEF CallerTypes, NetTypes
    <3>2. CASE Fail(s)
      BY <3>2, FailTypes
    <3>3. CASE /\ Head(fileAck[s]).type = sender[s].at
               /\ CASE Head(fileAck[s]).type = "batch_ready" -> Becomes(s, "next", 0, 0, 0)
                    [] Head(fileAck[s]).type = "ready" -> Becomes(s, "data", sender[s].no, 0, sender[s].length)
                    [] Head(fileAck[s]).type = "saved" -> Becomes(s, "next", sender[s].no + 1, 0, 0)
               /\ UNCHANGED <<cancelled, toHost>>
      <4>0. 0 \in Size /\ 0 \in 0..MaxFiles
        BY DEF Size
      <4>1. CASE Head(fileAck[s]).type = "batch_ready"
        <5>1. Becomes(s, "next", 0, 0, 0)
          BY <3>3, <4>1
        <5>2. QED
          BY <2>0, <3>3, <4>0, <5>1, BecomesTypes DEF CallerTypes, NetTypes
      <4>2. CASE Head(fileAck[s]).type = "ready"
        <5>1. Becomes(s, "data", sender[s].no, 0, sender[s].length) /\ sender[s].no < sender[s].count
          BY <3>3, <4>2, <1>s
        <5>2. QED
          BY <2>0, <3>3, <4>0, <5>1, BecomesTypes, SenderFacts DEF CallerTypes, NetTypes
      <4>3. CASE Head(fileAck[s]).type = "saved"
        <5>1. Becomes(s, "next", sender[s].no + 1, 0, 0) /\ sender[s].no < sender[s].count
          BY <3>3, <4>3, <1>s
        <5>2. sender[s].no + 1 \in 0..MaxFiles
          BY <2>0, <5>1, SenderFacts
        <5>3. QED
          BY <2>0, <3>3, <4>0, <5>1, <5>2, BecomesTypes DEF CallerTypes, NetTypes
      <4>4. QED
        BY <2>0, <3>3, <4>1, <4>2, <4>3 DEF Waits
    <3>4. QED
      BY <1>7, <3>1, <3>2, <3>3 DEF WaitAck
  <2>6. QED
    BY <2>3, <2>4, <2>5 DEF CallerTypes, NetTypes, HostTypes, hostVars, fileVars
<1>8. CASE TimesOut(s) \/ Interrupted(s) \/ SendFails(s) \/ ReadFails(s)
  <2>1. Fail(s) /\ UNCHANGED <<link, authorized, toCaller, fileAck, hostVars>>
    BY <1>8 DEF TimesOut, Interrupted, SendFails, ReadFails, FileFails
  <2>2. QED
    BY <2>1, FailTypes DEF CallerTypes, NetTypes, HostTypes, hostVars, fileVars
<1>9. CASE Deliver(s)
  <2>1. toCaller[s] \in Seq(Acks) /\ toCaller[s] # <<>> /\ fileAck[s] \in Seq(Acks)
    BY <1>9 DEF Deliver, NetTypes, CallerTypes
  <2>2. Head(toCaller[s]) \in Acks /\ Tail(toCaller[s]) \in Seq(Acks)
    BY <2>1, TailFacts
  <2> DEFINE q == Append(fileAck[s], Head(toCaller[s]))
  <2>3. q \in Seq(Acks) /\ Len(q) = Len(fileAck[s]) + 1 /\ Len(fileAck[s]) \in Nat
    BY <2>1, <2>2, AppendFacts
  <2>4. fileAck' = IF Len(fileAck[s]) < AckCap THEN [fileAck EXCEPT ![s] = q] ELSE fileAck
    BY <1>9 DEF Deliver
  <2> HIDE DEF q
  <2>5. fileAck' \in [Session -> Seq(Acks)] /\ \A x \in Session : Len(fileAck'[x]) <= AckCap
    BY <2>3, <2>4 DEF CallerTypes
  <2>6. toCaller' \in [Session -> Seq(Acks)]
    BY <1>9, <2>2 DEF Deliver, NetTypes
  <2>7. QED
    BY <1>9, <2>5, <2>6 DEF Deliver, CallerTypes, NetTypes, HostTypes, hostVars, fileVars
<1>10. QED
  BY <1>1, <1>2, <1>3, <1>4, <1>5, <1>6, <1>7, <1>8, <1>9 DEF Sender

LEMMA CleanupTypes ==
  ASSUME HostTypes, NEW s \in Session, Cleanup(s)
  PROVE  /\ open' \in [Session -> OpenFiles]
         /\ armed' \in SUBSET Session /\ quiet' \in SUBSET Session
         /\ \A x \in armed' : open'[x] # NoFile
  BY DEF Cleanup, HostTypes, OpenFiles

LEMMA MessageTypes ==
  ASSUME NetTypes, NEW s \in Session, NEW type, Message(s, type)
  PROVE  /\ toHost' \in [Session -> Seq(Messages)]
         /\ Head(toHost[s]) \in Messages /\ Head(toHost[s]).type = type
<1>1. toHost[s] \in Seq(Messages) /\ toHost[s] # <<>>
  BY DEF Message, NetTypes
<1>2. Head(toHost[s]) \in Messages /\ Tail(toHost[s]) \in Seq(Messages)
  BY <1>1, TailFacts
<1>3. QED
  BY <1>2 DEF Message, NetTypes

\* What all refusals of a message have in common
LEMMA RefusalTypes ==
  ASSUME TypeInv, NEW s \in Session, NEW type, NEW kind \in Waits \cup {"error", "cancelled"},
         Message(s, type), Cleanup(s),
         transfer' \in [Session -> Transfer \cup {NoTransfer}], Reply(s, kind, transfer'[s]),
         batch' \in [Session -> Batches],
         saved' \in [Session -> SUBSET [of : File, whole : BOOLEAN]],
         UNCHANGED <<link, authorized, callerVars, callbacks>>
  PROVE  TypeInv'
<1>1. toHost' \in [Session -> Seq(Messages)]
  BY MessageTypes DEF TypeInv
<1>2. transfer'[s] \in Transfer \cup {NoTransfer}
  OBVIOUS
<1>3. toCaller' \in [Session -> Seq(Acks)]
  BY <1>2, ReplyTypes DEF TypeInv
<1>4. NetTypes'
  BY <1>1, <1>3 DEF TypeInv, NetTypes
<1>5. CallerTypes'
  BY DEF TypeInv, CallerTypes, callerVars
<1>6. HostTypes'
  BY CleanupTypes DEF TypeInv, HostTypes
<1>7. QED
  BY <1>4, <1>5, <1>6 DEF TypeInv

\* The budget of a batch does not fall below zero.
LEMMA BudgetTypes ==
  ASSUME HostTypes, NEW s \in Session, Head(toHost[s]).size \in Size,
         Allowed(s, Head(toHost[s])), Budget(s)
  PROVE  batch' \in [Session -> Batches]
<1>1. /\ batch[s].count \in 0..MaxFiles /\ batch[s].left \in 0..(MaxFiles * MaxSize)
  BY DEF HostTypes, Batches
<1>2. MaxFiles * MaxSize \in Nat
  OBVIOUS
<1> DEFINE most == MaxFiles * MaxSize
<1>3. batch[s].count - 1 \in 0..MaxFiles
  BY <1>1 DEF Allowed
<1>4. batch[s].left - Head(toHost[s]).size \in 0..most
  <2>1. batch[s].left \in 0..most /\ most \in Nat /\ Head(toHost[s]).size \in Nat
    BY <1>1, <1>2 DEF Size
  <2>2. Head(toHost[s]).size <= batch[s].left
    BY DEF Allowed
  <2> HIDE DEF most
  <2>3. QED
    BY <2>1, <2>2
<1>5. [count |-> batch[s].count - 1, left |-> batch[s].left - Head(toHost[s]).size] \in Batches
  BY <1>3, <1>4 DEF Batches
<1>6. QED
  BY <1>5 DEF Budget, HostTypes

\* The sections of message
LEMMA ReceiveKeeps == ASSUME TypeInv, NEW s \in Session, Receive(s) PROVE TypeInv'
<1> USE DEF TypeInv
<1>t. transfer \in [Session -> Transfer \cup {NoTransfer}] /\ batch \in [Session -> Batches]
      /\ saved \in [Session -> SUBSET [of : File, whole : BOOLEAN]]
  BY DEF HostTypes
<1>0. "error" \in Waits \cup {"error", "cancelled"} /\ "cancelled" \in Waits \cup {"error", "cancelled"}
      /\ "batch_ready" \in Waits /\ "ready" \in Waits /\ "saved" \in Waits
  BY DEF Waits
<1>n. NoBatch \in Batches
  <2>1. MaxFiles * MaxSize \in Nat
    OBVIOUS
  <2>2. 0 \in 0..(MaxFiles * MaxSize)
    BY <2>1
  <2>3. QED
    BY <2>2 DEF NoBatch, Batches
<1>1. CASE Unauthorized(s)
  <2>1. PICK type \in {"batch", "begin", "data", "end", "cancel"} :
          /\ Message(s, type)
          /\ transfer' = IF type \in {"batch", "begin"}
                            THEN [transfer EXCEPT ![s] = Head(toHost[s]).transfer] ELSE transfer
    BY <1>1 DEF Unauthorized
  <2>2. Head(toHost[s]) \in Messages /\ Head(toHost[s]).type = type
    BY <2>1, MessageTypes
  <2>3. transfer' \in [Session -> Transfer \cup {NoTransfer}]
    BY <2>1, <2>2, <1>t, MessageFacts
  <2>4. QED
    BY <1>1, <1>0, <1>t, <2>1, <2>3, RefusalTypes DEF Unauthorized
<1>2. CASE ReceiveBatch(s)
  <2>1. Message(s, "batch") /\ transfer' = [transfer EXCEPT ![s] = Head(toHost[s]).transfer]
    BY <1>2 DEF ReceiveBatch
  <2>2. Head(toHost[s]) \in Messages /\ Head(toHost[s]).type = "batch"
    BY <2>1, MessageTypes
  <2>3. /\ Head(toHost[s]).transfer \in Transfer /\ Head(toHost[s]).count \in 1..MaxFiles
        /\ Head(toHost[s]).total \in 0..(MaxFiles * MaxSize)
    BY <2>2, MessageFacts
  <2>4. transfer' \in [Session -> Transfer \cup {NoTransfer}]
    BY <2>1, <2>3, <1>t
  <2>5. [count |-> Head(toHost[s]).count, left |-> Head(toHost[s]).total] \in Batches
    BY <2>3 DEF Batches
  <2>6. /\ batch' \in [Session -> Batches]
        /\ \E kind \in Waits \cup {"error", "cancelled"} : Reply(s, kind, transfer'[s])
    BY <1>2, <1>0, <1>t, <1>n, <2>5 DEF ReceiveBatch
  <2>7. Cleanup(s) /\ UNCHANGED <<link, authorized, callerVars, callbacks, saved>>
    BY <1>2 DEF ReceiveBatch
  <2>8. QED
    BY <1>t, <2>1, <2>4, <2>6, <2>7, RefusalTypes
<1>3. CASE BeginRefused(s) \/ BeginFails(s)
  <2>1. Message(s, "begin") /\ transfer' = [transfer EXCEPT ![s] = Head(toHost[s]).transfer]
    BY <1>3 DEF BeginRefused, BeginFails, Begin
  <2>2. Head(toHost[s]).transfer \in Transfer /\ Head(toHost[s]).size \in Size
    BY <2>1, MessageTypes, MessageFacts
  <2>3. transfer' \in [Session -> Transfer \cup {NoTransfer}]
    BY <2>1, <2>2, <1>t
  <2>4. batch' \in [Session -> Batches]
    BY <1>3, <1>t, <2>2, BudgetTypes DEF BeginRefused, BeginFails
  <2>5. Cleanup(s) /\ Reply(s, "error", transfer'[s]) /\ UNCHANGED <<link, authorized, callerVars, callbacks, saved>>
    BY <1>3 DEF BeginRefused, BeginFails
  <2>6. QED
    BY <1>0, <1>t, <2>1, <2>3, <2>4, <2>5, RefusalTypes
<1>4. CASE BeginReady(s)
  <2>1. Message(s, "begin") /\ transfer' = [transfer EXCEPT ![s] = Head(toHost[s]).transfer]
    BY <1>4 DEF BeginReady, Begin
  <2> DEFINE m == Head(toHost[s])
             q == OpenFile(<<m.transfer, m.no>>, m.size, 0, TRUE)
  <2>2. m.transfer \in Transfer /\ m.no \in 1..MaxFiles /\ m.size \in Size
    BY <2>1, MessageTypes, MessageFacts
  <2>3. transfer' \in [Session -> Transfer \cup {NoTransfer}] /\ transfer'[s] \in Transfer \cup {NoTransfer}
    BY <2>1, <2>2, <1>t
  <2>4. batch' \in [Session -> Batches]
    BY <1>4, <2>2, BudgetTypes DEF BeginReady
  <2>5. q \in OpenFiles /\ q # NoFile
    <3>1. <<m.transfer, m.no>> \in File /\ <<m.transfer, m.no>> # <<>> /\ 0 \in Size
      BY <2>2 DEF File, Size
    <3>2. q # NoFile
      BY <3>1, OpenIsSome
    <3>3. q \in OpenFiles
      BY <2>2, <3>1 DEF OpenFile, OpenFiles
    <3>4. QED
      BY <3>2, <3>3
  <2>6. open' = [open EXCEPT ![s] = q]
    BY <1>4 DEF BeginReady
  <2> HIDE DEF q
  <2>7. open' \in [Session -> OpenFiles] /\ \A x \in armed' : open'[x] # NoFile
    BY <1>4, <2>5, <2>6 DEF BeginReady, HostTypes
  <2>8. HostTypes'
    BY <1>4, <2>3, <2>4, <2>7 DEF BeginReady, HostTypes
  <2>9. Reply(s, "ready", transfer'[s])
    BY <1>4 DEF BeginReady
  <2>10. toCaller' \in [Session -> Seq(Acks)]
    BY <1>0, <2>3, <2>9, ReplyTypes
  <2>11. toHost' \in [Session -> Seq(Messages)]
    BY <2>1, MessageTypes
  <2>12. NetTypes' /\ CallerTypes'
    BY <1>4, <2>10, <2>11 DEF BeginReady, NetTypes, CallerTypes, callerVars
  <2>13. QED
    BY <2>8, <2>12
<1>5. CASE DataRefused(s) \/ EndRefused(s) \/ Cancel(s)
  <2>1. /\ \E type \in {"data", "end", "cancel"} : Message(s, type)
        /\ \E kind \in Waits \cup {"error", "cancelled"} : Reply(s, kind, transfer'[s])
        /\ Cleanup(s) /\ UNCHANGED <<link, authorized, callerVars, transfer, callbacks, saved>>
    BY <1>5, <1>0 DEF DataRefused, EndRefused, Cancel
  <2>2. batch' \in [Session -> Batches]
    BY <1>5, <1>t, <1>n DEF DataRefused, EndRefused, Cancel
  <2>3. QED
    BY <1>t, <2>1, <2>2, RefusalTypes
<1>6. CASE Data(s)
  <2> DEFINE m == Head(toHost[s])
             q == OpenFile(open[s].file, open[s].size, open[s].got + 1,
                           open[s].good /\ m.of = open[s].file /\ m.i = open[s].got + 1)
  <2>1. Message(s, "data") /\ open[s] # NoFile /\ open[s].got < open[s].size
    BY <1>6 DEF Data
  <2>2. open' = [open EXCEPT ![s] = q]
    BY <1>6 DEF Data, HostTypes
  <2>3. /\ open[s].file \in File /\ open[s].size \in Size /\ open[s].got \in Size
        /\ open[s].good \in BOOLEAN /\ open[s].file # <<>>
    BY <2>1 DEF HostTypes, OpenFiles, File
  <2>4. open[s].got + 1 \in Size
    BY <2>1, <2>3 DEF Size
  <2>5. (open[s].good /\ m.of = open[s].file /\ m.i = open[s].got + 1) \in BOOLEAN
    OBVIOUS
  <2>6. q \in OpenFiles
    BY <2>3, <2>4, <2>5 DEF OpenFile, OpenFiles
  <2>7. q # NoFile
    BY <2>3, OpenIsSome
  <2> HIDE DEF q
  <2>8. open' \in [Session -> OpenFiles] /\ \A x \in armed' : open'[x] # NoFile
    BY <1>6, <2>2, <2>6, <2>7 DEF Data, HostTypes
  <2>9. HostTypes'
    BY <1>6, <2>8 DEF Data, HostTypes
  <2>10. toHost' \in [Session -> Seq(Messages)]
    BY <2>1, MessageTypes
  <2>11. NetTypes' /\ CallerTypes'
    BY <1>6, <2>10 DEF Data, NetTypes, CallerTypes, callerVars
  <2>12. QED
    BY <2>9, <2>11
<1>7. CASE End(s)
  <2> DEFINE m == Head(toHost[s])
             f == [of |-> open[s].file,
                   whole |-> open[s].good /\ m.of = open[s].file /\ open[s].got = m.length
                               /\ m.length = open[s].size]
  <2>1. Message(s, "end") /\ open[s] # NoFile /\ saved' = [saved EXCEPT ![s] = @ \cup {f}]
    BY <1>7 DEF End, Complete
  <2>2. open[s].file \in File /\ open[s].good \in BOOLEAN
    BY <2>1 DEF HostTypes, OpenFiles
  <2>3. f \in [of : File, whole : BOOLEAN]
    BY <2>2
  <2> HIDE DEF f
  <2>4. saved' \in [Session -> SUBSET [of : File, whole : BOOLEAN]]
    BY <1>t, <2>1, <2>3
  <2>5. Cleanup(s) /\ Reply(s, "saved", transfer'[s]) /\ UNCHANGED <<link, authorized, callerVars, transfer, batch, callbacks>>
    BY <1>7 DEF End
  <2>6. QED
    BY <1>0, <1>t, <2>1, <2>4, <2>5, RefusalTypes
<1>8. QED
  BY <1>1, <1>2, <1>3, <1>4, <1>5, <1>6, <1>7 DEF Receive

\* The timer, and the session
LEMMA SessionKeeps ==
  ASSUME TypeInv, NEW s \in Session,
         \/ TimePasses(s) \/ Timer(s) \/ CloseReceiver(s) \/ CloseChannel(s) \/ Connect(s) \/ Authorize(s)
  PROVE  TypeInv'
<1> USE DEF TypeInv
<1>1. CASE TimePasses(s)
  BY <1>1 DEF TimePasses, NetTypes, CallerTypes, HostTypes, netVars, callerVars
<1>2. CASE Expire(s)
  <2>1. open[s].file \in File
    BY <1>2 DEF Expire, HostTypes, OpenFiles
  <2>2. HostTypes'
    BY <1>2, <2>1 DEF Expire, HostTypes
  <2>3. QED
    BY <1>2, <2>2 DEF Expire, NetTypes, CallerTypes, netVars, callerVars
<1>3. CASE Callback(s)
  <2>1. PICK f \in callbacks[s] :
         /\ callbacks' = [callbacks EXCEPT ![s] = @ \ {f}]
         /\ \/ /\ open[s].file = f /\ s \in quiet
               /\ Cleanup(s) /\ Reply(s, "error", transfer[s])
            \/ /\ open[s].file = f /\ s \notin quiet
               /\ armed' = armed \cup {s}
               /\ UNCHANGED <<open, slots, tokens, quiet, toCaller>>
            \/ /\ open[s].file # f
               /\ UNCHANGED <<fileVars, toCaller>>
    BY <1>3 DEF Callback
  <2>2. f \in File /\ f # <<>>
    <3>1. callbacks[s] \subseteq File
      BY DEF HostTypes
    <3>2. <<>> \notin File
      BY DEF File
    <3>3. QED
      BY <2>1, <3>1, <3>2
  <2>3. open[s].file = f => open[s] # NoFile
    <3>1. NoFile.file = <<>>
      BY DEF NoFile
    <3>2. QED
      BY <2>2, <3>1
  <2>4. /\ open' \in [Session -> OpenFiles]
        /\ armed' \in SUBSET Session /\ quiet' \in SUBSET Session
        /\ \A x \in armed' : open'[x] # NoFile
    <3>1. CASE Cleanup(s)
      BY <3>1, CleanupTypes
    <3>2. CASE open[s].file = f /\ armed' = armed \cup {s} /\ UNCHANGED <<open, quiet>>
      BY <2>3, <3>2 DEF HostTypes
    <3>3. CASE UNCHANGED fileVars
      BY <3>3 DEF HostTypes, fileVars
    <3>4. QED
      BY <2>1, <3>1, <3>2, <3>3
  <2>5. toCaller' \in [Session -> Seq(Acks)]
    <3>1. transfer[s] \in Transfer \cup {NoTransfer} /\ "error" \in Waits \cup {"error", "cancelled"}
      BY DEF HostTypes
    <3>2. QED
      BY <2>1, <3>1, ReplyTypes DEF NetTypes, fileVars
  <2>6. callbacks' \in [Session -> SUBSET File]
    BY <2>1 DEF HostTypes
  <2>7. QED
    BY <1>3, <2>4, <2>5, <2>6 DEF Callback, NetTypes, CallerTypes, HostTypes, callerVars
<1>4. CASE CloseReceiver(s)
  BY <1>4, CleanupTypes DEF CloseReceiver, NetTypes, CallerTypes, HostTypes, callerVars
<1>5. CASE CloseChannel(s)
  BY <1>5 DEF CloseChannel, NetTypes, CallerTypes, HostTypes, callerVars, hostVars, fileVars
<1>6. CASE Connect(s)
  <2>1. NoBatch \in Batches
    <3>1. MaxFiles * MaxSize \in Nat
      OBVIOUS
    <3>2. 0 \in 0..(MaxFiles * MaxSize)
      BY <3>1
    <3>3. QED
      BY <3>2 DEF NoBatch, Batches
  <2>2. HostTypes'
    BY <1>6, <2>1 DEF Connect, HostTypes, fileVars
  <2>3. NetTypes'
    BY <1>6 DEF Connect, NetTypes
  <2>4. fileAck' = [fileAck EXCEPT ![s] = <<>>] /\ Len(<<>>) <= AckCap
    BY <1>6 DEF Connect
  <2>5. CallerTypes'
    BY <1>6, <2>4 DEF Connect, CallerTypes
  <2>6. QED
    BY <2>2, <2>3, <2>5
<1>7. CASE Authorize(s)
  BY <1>7 DEF Authorize, NetTypes, CallerTypes, HostTypes, callerVars, hostVars, fileVars
<1>8. QED
  BY <1>1, <1>2, <1>3, <1>4, <1>5, <1>6, <1>7 DEF Timer

LEMMA TypeNext == TypeInv /\ [Next]_vars => TypeInv'
<1> SUFFICES ASSUME TypeInv, [Next]_vars PROVE TypeInv'
  OBVIOUS
<1>1. CASE UNCHANGED vars
  BY <1>1 DEF TypeInv, NetTypes, CallerTypes, HostTypes, vars, netVars, callerVars, hostVars, fileVars
<1>2. CASE Next
  BY <1>2, CallerKeeps, ReceiveKeeps, SessionKeeps DEF Next
<1>3. QED
  BY <1>1, <1>2

LEMMA TypeInit == Init => TypeInv
<1> SUFFICES ASSUME Init PROVE TypeInv
  OBVIOUS
<1>1. NoBatch \in Batches
  <2>1. MaxFiles * MaxSize \in Nat
    OBVIOUS
  <2>2. 0 \in 0..(MaxFiles * MaxSize)
    BY <2>1
  <2>3. QED
    BY <2>2 DEF NoBatch, Batches
<1>2. NetTypes
  BY DEF Init, NetTypes
<1>3. CallerTypes
  BY DEF Init, CallerTypes, Senders, Idle
<1>4. HostTypes
  BY <1>1 DEF Init, HostTypes, OpenFiles
<1>5. QED
  BY <1>2, <1>3, <1>4 DEF TypeInv

\* For any sessions, transfers and limits the variables keep their types: the
\* budget of a batch does not fall below zero, and no token is taken out of an
\* empty channel, which would wait for ever with mu held.
THEOREM TypeCorrect == Spec => []TypeOK
<1>1. TypeInv /\ SlotInv => TypeOK
  <2> SUFFICES ASSUME TypeInv, SlotInv PROVE TypeOK
    OBVIOUS
  <2>1. ASSUME NEW s \in Session
        PROVE  /\ \A i \in DOMAIN toHost[s] : toHost[s][i] \in Messages
               /\ \A i \in DOMAIN toCaller[s] : toCaller[s][i] \in Acks
               /\ \A i \in DOMAIN fileAck[s] : fileAck[s][i] \in Acks
               /\ Len(fileAck[s]) <= AckCap
    <3>1. toHost[s] \in Seq(Messages) /\ toCaller[s] \in Seq(Acks) /\ fileAck[s] \in Seq(Acks)
      BY DEF TypeInv, NetTypes, CallerTypes
    <3>2. QED
      BY <3>1 DEF TypeInv, CallerTypes
  <2>2. slots \in SUBSET Session /\ tokens \in 0..MaxSlots
    <3>1. IsFiniteSet(slots)
      BY FS_Subset DEF SlotInv
    <3>2. Cardinality(slots) \in Nat
      BY <3>1, FS_CardinalityType
    <3>3. QED
      BY <3>2 DEF SlotInv, TokensConserved
  <2>3. QED
    BY <2>1, <2>2 DEF TypeOK, TypeInv, NetTypes, CallerTypes, HostTypes, Senders, OpenFiles, Batches
<1>2. Init => SlotInv
  BY SlotInit
<1>3. QED
  BY <1>1, <1>2, TypeInit, TypeNext, SlotNext, PTL DEF Spec

\* An open file keeps its timer until the callback of it has cleaned up.
LEMMA WatchNext == TypeInv /\ SlotInv /\ OpenIsWatched /\ [Next]_vars => OpenIsWatched'
<1> SUFFICES ASSUME TypeInv, SlotInv, OpenIsWatched, [Next]_vars PROVE OpenIsWatched'
  OBVIOUS
<1>t. DOMAIN open = Session /\ armed \in SUBSET Session /\ callbacks \in [Session -> SUBSET File]
  BY DEF TypeInv, HostTypes
<1>1. CASE UNCHANGED <<open, armed, callbacks>>
  BY <1>1 DEF OpenIsWatched
<1>2. ASSUME NEW s \in Session, Cleanup(s), UNCHANGED callbacks PROVE OpenIsWatched'
  BY <1>t, <1>2 DEF OpenIsWatched, Cleanup
<1>3. ASSUME NEW s \in Session, BeginReady(s) \/ Data(s) PROVE OpenIsWatched'
  <2>1. armed' = armed \cup {s} /\ UNCHANGED callbacks
    BY <1>3 DEF BeginReady, Data
  <2>2. \A x \in Session \ {s} : open'[x] = open[x]
    BY <1>t, <1>3 DEF BeginReady, Data
  <2>3. QED
    BY <2>1, <2>2 DEF OpenIsWatched
<1>4. ASSUME NEW s \in Session, Expire(s) PROVE OpenIsWatched'
  BY <1>t, <1>4 DEF OpenIsWatched, Expire
<1>5. ASSUME NEW s \in Session, Callback(s) PROVE OpenIsWatched'
  <2>1. PICK f \in callbacks[s] :
          /\ callbacks' = [callbacks EXCEPT ![s] = @ \ {f}]
          /\ \/ open[s].file = f /\ s \in quiet /\ Cleanup(s)
             \/ open[s].file = f /\ armed' = armed \cup {s} /\ open' = open
             \/ open[s].file # f /\ UNCHANGED fileVars
    BY <1>5 DEF Callback
  <2>2. \A x \in Session : callbacks'[x] = IF x = s THEN callbacks[x] \ {f} ELSE callbacks[x]
    BY <1>t, <2>1
  <2>3. CASE Cleanup(s)
    BY <1>t, <2>2, <2>3 DEF OpenIsWatched, Cleanup
  <2>4. CASE armed' = armed \cup {s} /\ open' = open
    BY <2>2, <2>4 DEF OpenIsWatched
  <2>5. CASE open[s].file # f /\ UNCHANGED fileVars
    BY <2>2, <2>5 DEF OpenIsWatched, fileVars
  <2>6. QED
    BY <2>1, <2>3, <2>4, <2>5
<1>6. ASSUME NEW s \in Session, Receive(s) \/ CloseReceiver(s)
      PROVE  (Cleanup(s) /\ UNCHANGED callbacks) \/ BeginReady(s) \/ Data(s)
  BY <1>6 DEF Receive, CloseReceiver, Unauthorized, ReceiveBatch, BeginRefused, BeginFails,
              DataRefused, EndRefused, End, Cancel
<1>7. ASSUME NEW s \in Session,
             \/ \E t \in Transfer : SendFiles(s, t)
             \/ CancelFiles(s) \/ Sender(s) \/ ReadFails(s) \/ Deliver(s) \/ TimePasses(s)
             \/ CloseChannel(s) \/ Connect(s) \/ Authorize(s)
      PROVE  UNCHANGED <<open, armed, callbacks>>
  BY <1>7 DEF Sender, SendFiles, CancelFiles, SendBegin, AllSaved, SendData, SendEnd, WaitAck, TimesOut,
              Interrupted, ReadFails, SendFails, FileFails, Deliver, TimePasses, CloseChannel,
              Connect, Authorize, hostVars, fileVars
<1>8. CASE UNCHANGED vars
  BY <1>1, <1>8 DEF vars, hostVars, fileVars
<1>9. QED
  BY <1>1, <1>2, <1>3, <1>4, <1>5, <1>6, <1>7, <1>8 DEF Next, Timer

\* No token is lost, none taken out twice and none left with a file nobody looks
\* after, however files and sessions end.
THEOREM SlotsAreConserved == Spec => []SlotsConserved
<1>1. Init => SlotInv /\ OpenIsWatched
  BY SlotInit DEF Init, OpenIsWatched
<1>2. SlotInv /\ OpenIsWatched => SlotsConserved
  BY DEF SlotInv, SlotsConserved
<1>3. QED
  BY <1>1, <1>2, TypeInit, TypeNext, SlotNext, WatchNext, PTL DEF Spec

-----------------------------------------------------------------------------
\* What is saved is whole

Parts == {"data", "end"}
Leads == {"begin", "data"}

\* A place in a file is the file with the number of its chunks before it: where
\* a message leaves the one who reads it, and where a message belongs.
Reached(m) == IF m.type = "begin" THEN <<<<m.transfer, m.no>>, 0>> ELSE <<m.of, m.i>>
Needs(m) == IF m.type = "data" THEN <<m.of, m.i - 1>> ELSE <<m.of, m.length>>

\* The file that is open, if one is, has been written up to this place.
Written(f, at) == f # NoFile => f.good /\ <<f.file, f.got>> = at

\* In the channel each part of a file is behind the one before it.
Queued(s) ==
  \A i \in 1..(Len(toHost[s]) - 1) :
    toHost[s][i + 1].type \in Parts =>
      toHost[s][i].type \in Leads /\ Reached(toHost[s][i]) = Needs(toHost[s][i + 1])

\* A part that comes to an open file is the next of that file.
Arrives(s) ==
  toHost[s] # <<>> /\ Head(toHost[s]).type \in Parts => Written(open[s], Needs(Head(toHost[s])))

\* What the sender sends next follows what was last in the channel.
Follows(s, at) ==
  IF toHost[s] = <<>> THEN Written(open[s], at)
  ELSE toHost[s][Len(toHost[s])].type \in Leads /\ Reached(toHost[s][Len(toHost[s])]) = at

Sent(s) ==
  /\ sender[s].at = "ready" => sender[s].sent = 0
  /\ link[s] # "down" /\ sender[s].at \in {"ready", "data"} => Follows(s, <<Current(s), sender[s].sent>>)

Whole(s) == Queued(s) /\ Arrives(s) /\ Sent(s) /\ \A f \in saved[s] : f.whole

WholeInv == \A s \in Session : Whole(s)

LEMMA WholeSame ==
  ASSUME NEW s \in Session, Whole(s), toHost'[s] = toHost[s], open'[s] = open[s],
         sender'[s] = sender[s], link'[s] = link[s], saved'[s] = saved[s]
  PROVE  Whole(s)'
<1>1. Queued(s)' /\ Arrives(s)'
  BY DEF Whole, Queued, Arrives, Written, Reached, Needs
<1>2. Sent(s)'
  BY DEF Whole, Sent, Follows, Current, Written, Reached
<1>3. QED
  BY <1>1, <1>2 DEF Whole

\* A message is put into the channel.
LEMMA PushKeeps ==
  ASSUME TypeInv, NEW s \in Session, Whole(s), NEW m \in Messages,
         toHost'[s] = Append(toHost[s], m), open'[s] = open[s],
         m.type \in Parts => Follows(s, Needs(m))
  PROVE  /\ Queued(s)' /\ Arrives(s)' /\ toHost'[s] # <<>>
         /\ toHost'[s][Len(toHost'[s])] = m
<1> DEFINE q == toHost[s]
<1>1. q \in Seq(Messages)
  BY DEF TypeInv, NetTypes
<1>2. /\ toHost'[s] \in Seq(Messages) /\ Len(toHost'[s]) = Len(q) + 1
      /\ \A i \in 1..Len(q) : toHost'[s][i] = q[i]
      /\ toHost'[s][Len(q) + 1] = m
  BY <1>1, AppendFacts
<1>3. Len(q) \in Nat
  BY <1>1
<1>4. toHost'[s] # <<>> /\ Head(toHost'[s]) = toHost'[s][1]
  BY <1>2, <1>3
<1>5. CASE q = <<>>
  <2>1. Len(toHost'[s]) = 1 /\ toHost'[s][1] = m
    BY <1>2, <1>5
  <2>2. Queued(s)'
    BY <2>1 DEF Queued
  <2>3. Arrives(s)'
    BY <1>4, <1>5, <2>1 DEF Arrives, Follows, Needs, Written
  <2>4. QED
    BY <1>4, <2>1, <2>2, <2>3
<1>6. CASE q # <<>>
  <2>1. Len(q) >= 1
    BY <1>1, <1>6
  <2>2. ASSUME NEW i \in 1..(Len(toHost'[s]) - 1), toHost'[s][i + 1].type \in Parts
        PROVE  toHost'[s][i].type \in Leads /\ Reached(toHost'[s][i]) = Needs(toHost'[s][i + 1])
    <3>1. CASE i = Len(q)
      <4>1. toHost'[s][i + 1] = m /\ toHost'[s][i] = q[Len(q)]
        BY <1>2, <2>1, <1>3, <3>1
      <4>2. QED
        BY <1>6, <2>2, <4>1 DEF Follows
    <3>2. CASE i # Len(q)
      <4>1. i \in 1..(Len(q) - 1) /\ i + 1 \in 1..Len(q) /\ i \in 1..Len(q)
        BY <1>2, <1>3, <3>2
      <4>2. toHost'[s][i + 1] = q[i + 1] /\ toHost'[s][i] = q[i]
        BY <1>2, <4>1
      <4>3. QED
        BY <2>2, <4>1, <4>2 DEF Whole, Queued
    <3>3. QED
      BY <3>1, <3>2
  <2>3. Queued(s)'
    BY <2>2 DEF Queued, Reached, Needs
  <2>4. Head(toHost'[s]) = Head(q)
    BY <1>2, <1>4, <2>1, <1>1, <1>3
  <2>5. Arrives(s)'
    BY <1>6, <2>4 DEF Whole, Arrives, Written, Needs
  <2>6. QED
    BY <1>2, <1>4, <2>3, <2>5
<1>7. QED
  BY <1>5, <1>6

\* The first message is taken out; where it leads is where the file is then.
LEMMA PopKeeps ==
  ASSUME TypeInv, NEW s \in Session, Whole(s), toHost[s] # <<>>, toHost'[s] = Tail(toHost[s]),
         Head(toHost[s]).type \in Leads => Written(open'[s], Reached(Head(toHost[s]))),
         Head(toHost[s]).type \notin Leads => open'[s] = NoFile,
         sender'[s] = sender[s], link'[s] = link[s]
  PROVE  Queued(s)' /\ Arrives(s)' /\ Sent(s)'
<1> DEFINE q == toHost[s]
<1>1. q \in Seq(Messages)
  BY DEF TypeInv, NetTypes
<1>2. /\ Head(q) = q[1] /\ Len(q) \in Nat \ {0}
      /\ toHost'[s] \in Seq(Messages) /\ Len(toHost'[s]) = Len(q) - 1
      /\ \A i \in 1..(Len(q) - 1) : toHost'[s][i] = q[i + 1]
  BY <1>1, TailFacts
<1>3. ASSUME NEW i \in 1..(Len(toHost'[s]) - 1), toHost'[s][i + 1].type \in Parts
      PROVE  toHost'[s][i].type \in Leads /\ Reached(toHost'[s][i]) = Needs(toHost'[s][i + 1])
  <2>1. i + 1 \in 1..(Len(q) - 1) /\ i \in 1..(Len(q) - 1)
    BY <1>2
  <2>2. toHost'[s][i + 1] = q[(i + 1) + 1] /\ toHost'[s][i] = q[i + 1]
    BY <1>2, <2>1
  <2>3. QED
    BY <1>3, <2>1, <2>2 DEF Whole, Queued
<1>4. Queued(s)'
  BY <1>3 DEF Queued, Reached, Needs
<1>5. Arrives(s)'
  <2>1. SUFFICES ASSUME toHost'[s] # <<>>, Head(toHost'[s]).type \in Parts
                 PROVE  Written(open'[s], Needs(Head(toHost'[s])))
    BY DEF Arrives, Written, Needs
  <2>2. Head(toHost'[s]) = toHost'[s][1] /\ Len(toHost'[s]) >= 1
    BY <1>2, <2>1
  <2>3. 1 \in 1..(Len(q) - 1)
    BY <1>2, <2>2
  <2>4. toHost'[s][1] = q[1 + 1]
    BY <1>2, <2>3
  <2>5. q[1].type \in Leads /\ Reached(q[1]) = Needs(q[1 + 1])
    BY <2>1, <2>2, <2>3, <2>4 DEF Whole, Queued
  <2>6. QED
    BY <1>2, <2>2, <2>4, <2>5
<1>6. ASSUME NEW at, Follows(s, at)
      PROVE  IF toHost'[s] = <<>> THEN Written(open'[s], at)
             ELSE toHost'[s][Len(toHost'[s])].type \in Leads /\ Reached(toHost'[s][Len(toHost'[s])]) = at
  <2>1. q[Len(q)].type \in Leads /\ Reached(q[Len(q)]) = at
    BY <1>6 DEF Follows
  <2> DEFINE n == Len(q)
             k == Len(toHost'[s])
  <2>n. n \in Nat /\ n >= 1 /\ k = n - 1 /\ (k = 0 <=> toHost'[s] = <<>>)
    <3>1. n \in Nat /\ (n = 0 <=> q = <<>>) /\ (k = 0 <=> toHost'[s] = <<>>)
      BY <1>1, <1>2, EmptyFacts
    <3>2. k = n - 1
      BY <1>2
    <3> HIDE DEF n, k
    <3>3. QED
      BY <3>1, <3>2
  <2>m. q[1] = Head(q) /\ \A i \in 1..k : toHost'[s][i] = q[i + 1]
    BY <1>1, <1>2
  <2> HIDE DEF n, k
  <2>2. CASE n = 1
    <3>1. toHost'[s] = <<>>
      BY <2>n, <2>2
    <3>2. q[n] = Head(q)
      BY <2>m, <2>2
    <3>3. QED
      BY <2>1, <3>1, <3>2 DEF n
  <2>3. CASE n # 1
    <3>1. k \in 1..k /\ k + 1 = n /\ toHost'[s] # <<>>
      BY <2>n, <2>3
    <3>2. toHost'[s][k] = q[n]
      BY <2>m, <3>1
    <3>3. QED
      BY <2>1, <3>1, <3>2 DEF n, k
  <2>4. QED
    BY <2>2, <2>3
<1>7. Sent(s)'
  BY <1>6 DEF Whole, Sent, Follows, Current, Written, Reached
<1>8. QED
  BY <1>4, <1>5, <1>7

\* A step of one session leaves the others alone.
Apart(x) ==
  /\ toHost'[x] = toHost[x] /\ open'[x] = open[x] /\ sender'[x] = sender[x]
  /\ link'[x] = link[x] /\ saved'[x] = saved[x]
  /\ toCaller'[x] = toCaller[x] /\ fileAck'[x] = fileAck[x] /\ transfer'[x] = transfer[x]

LEMMA FailApart ==
  ASSUME TypeInv, NEW s \in Session, Fail(s), NEW x \in Session, x # s
  PROVE  sender'[x] = sender[x] /\ toHost'[x] = toHost[x]
  BY DEF Fail, Send, TypeInv, NetTypes, CallerTypes

LEMMA CallerApart ==
  ASSUME TypeInv, NEW s \in Session, NEW x \in Session, x # s,
         \/ \E t \in Transfer : SendFiles(s, t)
         \/ CancelFiles(s) \/ Sender(s) \/ ReadFails(s) \/ Deliver(s)
  PROVE  Apart(x)
<1> USE DEF TypeInv
<1>1. CASE \E t \in Transfer : SendFiles(s, t)
  BY <1>1 DEF Apart, SendFiles, Send, NetTypes, CallerTypes, HostTypes, fileVars
<1>2. CASE CancelFiles(s) \/ AllSaved(s)
  BY <1>2 DEF Apart, CancelFiles, AllSaved, NetTypes, CallerTypes, HostTypes, netVars, hostVars, fileVars
<1>3. CASE SendBegin(s) \/ SendData(s) \/ SendEnd(s)
  BY <1>3 DEF Apart, SendBegin, SendData, SendEnd, Send, Becomes, NetTypes, CallerTypes, HostTypes, hostVars, fileVars
<1>4. CASE WaitAck(s)
  <2>1. fileAck'[x] = fileAck[x] /\ UNCHANGED <<link, authorized, toCaller, hostVars>>
    BY <1>4 DEF WaitAck, CallerTypes
  <2>2. \/ UNCHANGED <<sender, toHost>>
        \/ Fail(s)
        \/ /\ UNCHANGED toHost
           /\ \E at, no, sent, length : Becomes(s, at, no, sent, length)
    BY <1>4 DEF WaitAck, Acks, Waits
  <2>3. sender'[x] = sender[x] /\ toHost'[x] = toHost[x]
    BY <2>2, FailApart DEF Becomes, CallerTypes
  <2>4. QED
    BY <2>1, <2>3 DEF Apart, hostVars, fileVars
<1>5. CASE TimesOut(s) \/ Interrupted(s) \/ SendFails(s) \/ ReadFails(s)
  <2>1. Fail(s) /\ UNCHANGED <<link, authorized, toCaller, fileAck, hostVars>>
    BY <1>5 DEF TimesOut, Interrupted, SendFails, ReadFails, FileFails
  <2>2. QED
    BY <2>1, FailApart DEF Apart, hostVars, fileVars
<1>6. CASE Deliver(s)
  BY <1>6 DEF Apart, Deliver, NetTypes, CallerTypes, hostVars, fileVars
<1>7. QED
  BY <1>1, <1>2, <1>3, <1>4, <1>5, <1>6 DEF Sender

LEMMA HostApart ==
  ASSUME TypeInv, NEW s \in Session, NEW x \in Session, x # s,
         \/ Receive(s) \/ TimePasses(s) \/ Timer(s)
         \/ CloseReceiver(s) \/ CloseChannel(s) \/ Connect(s) \/ Authorize(s)
  PROVE  Apart(x)
<1> USE DEF TypeInv, Apart, NetTypes, CallerTypes, HostTypes, netVars, callerVars, hostVars, fileVars
<1>1. CASE Unauthorized(s)
  BY <1>1 DEF Unauthorized, Message, Cleanup, Reply
<1>2. CASE ReceiveBatch(s)
  BY <1>2 DEF ReceiveBatch, Message, Cleanup, Reply
<1>3. CASE BeginRefused(s) \/ BeginFails(s)
  BY <1>3 DEF BeginRefused, BeginFails, Begin, Message, Cleanup, Reply
<1>4. CASE BeginReady(s)
  BY <1>4 DEF BeginReady, Begin, Message, Reply
<1>5. CASE DataRefused(s) \/ EndRefused(s) \/ Cancel(s)
  BY <1>5 DEF DataRefused, EndRefused, Cancel, Message, Cleanup, Reply
<1>6. CASE Data(s)
  BY <1>6 DEF Data, Message
<1>7. CASE End(s)
  BY <1>7 DEF End, Message, Cleanup, Reply
<1>8. CASE TimePasses(s) \/ Expire(s) \/ Authorize(s) \/ CloseChannel(s) \/ Connect(s) \/ CloseReceiver(s)
  BY <1>8 DEF TimePasses, Expire, Authorize, CloseChannel, Connect, CloseReceiver, Cleanup
<1>9. CASE Callback(s)
  BY <1>9 DEF Callback, Cleanup, Reply
<1>10. QED
  BY <1>1, <1>2, <1>3, <1>4, <1>5, <1>6, <1>7, <1>8, <1>9 DEF Receive, Timer

\* Failing, the sender is idle and has put nothing but a cancel into the channel.
LEMMA FailWhole ==
  ASSUME TypeInv, NEW s \in Session, Whole(s), Fail(s),
         UNCHANGED <<link, hostVars>>
  PROVE  Whole(s)'
<1>1. sender'[s] = Idle /\ Idle.at = "idle"
  BY DEF Fail, TypeInv, CallerTypes, Idle
<1>2. Sent(s)'
  BY <1>1 DEF Sent
<1>3. open' = open /\ saved' = saved
  BY DEF hostVars, fileVars
<1>4. CASE toHost'[s] = toHost[s]
  BY <1>2, <1>3, <1>4 DEF Whole, Queued, Arrives, Written, Reached, Needs
<1>5. CASE toHost'[s] # toHost[s]
  <2> DEFINE m == [type |-> "cancel"]
  <2>1. m \in Messages /\ m.type \notin Parts
    BY DEF Messages, Parts
  <2>2. toHost'[s] = Append(toHost[s], m)
    BY <1>5 DEF Fail, Send, TypeInv, NetTypes
  <2> HIDE DEF m
  <2>3. QED
    BY <1>2, <1>3, <2>1, <2>2, PushKeeps DEF Whole
<1>6. QED
  BY <1>4, <1>5

\* The caller puts one part behind the other.
LEMMA CallerWhole ==
  ASSUME TypeInv, NEW s \in Session, Whole(s),
         \/ \E t \in Transfer : SendFiles(s, t)
         \/ CancelFiles(s) \/ Sender(s) \/ ReadFails(s) \/ Deliver(s)
  PROVE  Whole(s)'
<1>t. /\ sender[s].at # "idle" => sender[s] # Idle
      /\ DOMAIN sender = Session /\ DOMAIN toHost = Session /\ DOMAIN saved = Session
  BY SenderFacts DEF TypeInv, NetTypes, CallerTypes, HostTypes
<1>0. CASE UNCHANGED <<toHost, open, link, saved>> /\ Sent(s)'
  BY <1>0 DEF Whole, Queued, Arrives, Written, Reached, Needs
<1>1. ASSUME NEW t \in Transfer, SendFiles(s, t) PROVE Whole(s)'
  <2>1. PICK n \in 1..MaxFiles, total \in 0..(MaxFiles * MaxSize) :
          /\ sender' = [sender EXCEPT ![s] = Sending("batch_ready", t, n, 0, 0, 0)]
          /\ Send(s, [type |-> "batch", transfer |-> t, count |-> n, total |-> total])
    BY <1>1 DEF SendFiles
  <2> DEFINE m == [type |-> "batch", transfer |-> t, count |-> n, total |-> total]
  <2>2. m \in Messages /\ m.type \notin Parts
    BY DEF Messages, Parts
  <2>3. toHost'[s] = Append(toHost[s], m)
    BY <1>1, <1>t, <2>1 DEF SendFiles, Send
  <2>4. sender'[s].at = "batch_ready"
    BY <1>t, <2>1 DEF Sending
  <2>5. open'[s] = open[s] /\ saved'[s] = {}
    BY <1>1, <1>t DEF SendFiles, fileVars
  <2> HIDE DEF m
  <2>6. Queued(s)' /\ Arrives(s)'
    BY <2>2, <2>3, <2>5, PushKeeps
  <2>7. QED
    BY <2>4, <2>5, <2>6 DEF Whole, Sent
<1>2. CASE CancelFiles(s) \/ Deliver(s)
  BY <1>2, WholeSame DEF CancelFiles, Deliver, netVars, hostVars, fileVars
<1>3. CASE SendBegin(s)
  <2>0. sender[s].at = "next" /\ sender[s].no < sender[s].count
    BY <1>3 DEF SendBegin
  <2>1. PICK size \in Size, length \in Size :
          /\ Send(s, [type |-> "begin", transfer |-> sender[s].transfer, no |-> sender[s].no + 1, size |-> size])
          /\ Becomes(s, "ready", sender[s].no, 0, length)
    BY <1>3 DEF SendBegin
  <2> DEFINE m == [type |-> "begin", transfer |-> sender[s].transfer, no |-> sender[s].no + 1, size |-> size]
  <2>2. m \in Messages
    BY <2>0, SenderFacts DEF Messages, TypeInv
  <2>3. toHost'[s] = Append(toHost[s], m)
    BY <1>3, <1>t, <2>1 DEF SendBegin, Send
  <2>4. sender'[s] = Sending("ready", sender[s].transfer, sender[s].count, sender[s].no, 0, length)
    BY <1>t, <2>1 DEF Becomes
  <2>5. sender'[s].sent = 0 /\ Current(s)' = Current(s)
    BY <2>4 DEF Sending, Current
  <2>6. m.type \notin Parts /\ m.type \in Leads /\ Reached(m) = <<Current(s), 0>>
    BY DEF Parts, Leads, Reached, Current
  <2>7. open'[s] = open[s] /\ saved'[s] = saved[s] /\ link'[s] = link[s]
    BY <1>3 DEF SendBegin, hostVars, fileVars
  <2> HIDE DEF m
  <2>8. Queued(s)' /\ Arrives(s)' /\ toHost'[s] # <<>> /\ toHost'[s][Len(toHost'[s])] = m
    BY <2>2, <2>3, <2>6, <2>7, PushKeeps
  <2>9. Sent(s)'
    BY <2>5, <2>6, <2>8 DEF Sent, Follows, Reached
  <2>10. QED
    BY <2>7, <2>8, <2>9 DEF Whole
<1>4. CASE AllSaved(s)
  <2>1. sender'[s].at = "idle"
    BY <1>4, <1>t DEF AllSaved, Idle
  <2>2. QED
    BY <1>0, <1>4, <2>1 DEF AllSaved, Sent, netVars, hostVars, fileVars
<1>5. CASE SendData(s)
  <2>0. sender[s].at = "data" /\ sender[s].sent < sender[s].length /\ link[s] # "down"
    BY <1>5 DEF SendData
  <2> DEFINE m == [type |-> "data", of |-> Current(s), i |-> sender[s].sent + 1]
  <2>1. sender[s].sent \in Size /\ sender[s].length \in Size /\ sender[s].no < sender[s].count
    BY <2>0, SenderFacts DEF TypeInv, CallerTypes
  <2>2. sender[s].sent + 1 \in 1..MaxSize /\ Current(s) \in File /\ (sender[s].sent + 1) - 1 = sender[s].sent
    BY <2>0, <2>1, SenderFacts DEF Size, Current, File, TypeInv
  <2>3. m \in Messages
    BY <2>2 DEF Messages
  <2>4. toHost'[s] = Append(toHost[s], m)
    BY <1>5, <1>t, <2>0 DEF SendData, Send
  <2>5. sender'[s] = Sending("data", sender[s].transfer, sender[s].count, sender[s].no, sender[s].sent + 1, sender[s].length)
    BY <1>5, <1>t DEF SendData, Becomes
  <2>6. sender'[s].at = "data" /\ sender'[s].sent = sender[s].sent + 1 /\ Current(s)' = Current(s)
    BY <2>5 DEF Sending, Current
  <2>7. m.type \in Leads /\ Reached(m) = <<Current(s), sender[s].sent + 1>> /\ Needs(m) = <<Current(s), sender[s].sent>>
    BY <2>2 DEF Leads, Reached, Needs
  <2>8. Follows(s, Needs(m))
    BY <2>0, <2>7 DEF Whole, Sent
  <2>9. open'[s] = open[s] /\ saved'[s] = saved[s]
    BY <1>5 DEF SendData, hostVars, fileVars
  <2> HIDE DEF m
  <2>10. Queued(s)' /\ Arrives(s)' /\ toHost'[s] # <<>> /\ toHost'[s][Len(toHost'[s])] = m
    BY <2>3, <2>4, <2>8, <2>9, PushKeeps
  <2>11. Sent(s)'
    BY <2>6, <2>7, <2>10 DEF Sent, Follows, Reached
  <2>12. QED
    BY <2>9, <2>10, <2>11 DEF Whole
<1>6. CASE SendEnd(s)
  <2>0. sender[s].at = "data" /\ sender[s].sent = sender[s].length /\ link[s] # "down"
    BY <1>6 DEF SendEnd
  <2> DEFINE m == [type |-> "end", of |-> Current(s), length |-> sender[s].length]
  <2>1. sender[s].length \in Size /\ sender[s].no < sender[s].count
    BY <2>0, SenderFacts DEF TypeInv, CallerTypes
  <2>2. Current(s) \in File
    BY <2>0, <2>1, SenderFacts DEF Current, File, TypeInv
  <2>3. m \in Messages
    BY <2>1, <2>2 DEF Messages
  <2>4. toHost'[s] = Append(toHost[s], m)
    BY <1>6, <1>t, <2>0 DEF SendEnd, Send
  <2>5. sender'[s].at = "saved"
    BY <1>6, <1>t DEF SendEnd, Becomes, Sending
  <2>6. Needs(m) = <<Current(s), sender[s].sent>>
    BY <2>0 DEF Needs
  <2>7. Follows(s, Needs(m))
    BY <2>0, <2>6 DEF Whole, Sent
  <2>8. open'[s] = open[s] /\ saved'[s] = saved[s]
    BY <1>6 DEF SendEnd, hostVars, fileVars
  <2> HIDE DEF m
  <2>9. Queued(s)' /\ Arrives(s)'
    BY <2>3, <2>4, <2>7, <2>8, PushKeeps
  <2>10. QED
    BY <2>5, <2>8, <2>9 DEF Whole, Sent
<1>7. CASE WaitAck(s)
  <2>0. UNCHANGED <<link, hostVars>> /\ open' = open /\ saved' = saved
    BY <1>7 DEF WaitAck, hostVars, fileVars
  <2>1. CASE UNCHANGED <<sender, toHost>>
    BY <2>0, <2>1, WholeSame
  <2>2. CASE Fail(s)
    BY <2>0, <2>2, FailWhole
  <2>3. CASE UNCHANGED toHost /\ \E no, length : Becomes(s, "next", no, 0, length)
    <3>1. sender'[s].at = "next"
      BY <1>t, <2>3 DEF Becomes, Sending
    <3>2. QED
      BY <1>0, <2>0, <2>3, <3>1 DEF Sent
  <2>4. CASE /\ UNCHANGED toHost /\ sender[s].at = "ready"
             /\ Becomes(s, "data", sender[s].no, 0, sender[s].length)
    <3>1. sender'[s] = Sending("data", sender[s].transfer, sender[s].count, sender[s].no, 0, sender[s].length)
      BY <1>t, <2>4 DEF Becomes
    <3>2. sender'[s].at = "data" /\ sender'[s].sent = 0 /\ Current(s)' = Current(s)
      BY <3>1 DEF Sending, Current
    <3>3. link[s] # "down" => Follows(s, <<Current(s), 0>>)
      BY <2>4 DEF Whole, Sent
    <3>4. Sent(s)'
      BY <2>0, <2>4, <3>2, <3>3 DEF Sent, Follows, Written, Reached
    <3>5. QED
      BY <1>0, <2>0, <2>4, <3>4
  <2>5. QED
    BY <1>7, <2>1, <2>2, <2>3, <2>4 DEF WaitAck, Waits
<1>8. CASE TimesOut(s) \/ Interrupted(s) \/ SendFails(s) \/ ReadFails(s)
  BY <1>8, FailWhole DEF TimesOut, Interrupted, SendFails, ReadFails, FileFails
<1>9. QED
  BY <1>1, <1>2, <1>3, <1>4, <1>5, <1>6, <1>7, <1>8 DEF Sender

\* The host takes the parts in the order in which they were put there.
LEMMA ReceiveWhole == ASSUME TypeInv, NEW s \in Session, Whole(s), Receive(s) PROVE Whole(s)'
<1>t. /\ DOMAIN toHost = Session /\ DOMAIN open = Session /\ DOMAIN saved = Session
      /\ open[s] \in OpenFiles
  BY DEF TypeInv, NetTypes, HostTypes
<1>1. ASSUME NEW type, Message(s, type)
      PROVE  /\ toHost[s] # <<>> /\ toHost'[s] = Tail(toHost[s])
             /\ Head(toHost[s]) \in Messages /\ Head(toHost[s]).type = type
  BY <1>1, <1>t, MessageTypes DEF Message, TypeInv
<1>2. ASSUME NEW type, Message(s, type), open'[s] = NoFile, sender'[s] = sender[s], link'[s] = link[s],
             \A f \in saved'[s] : f.whole
      PROVE  Whole(s)'
  <2>1. Queued(s)' /\ Arrives(s)' /\ Sent(s)'
    BY <1>1, <1>2, PopKeeps DEF Written
  <2>2. QED
    BY <1>2, <2>1 DEF Whole
<1>3. CASE \/ Unauthorized(s) \/ ReceiveBatch(s) \/ BeginRefused(s) \/ BeginFails(s)
           \/ DataRefused(s) \/ EndRefused(s) \/ Cancel(s)
  <2>1. /\ \E type : Message(s, type)
        /\ Cleanup(s) /\ UNCHANGED <<link, callerVars, saved>>
    BY <1>3 DEF Unauthorized, ReceiveBatch, BeginRefused, BeginFails, Begin, DataRefused, EndRefused, Cancel
  <2>2. open'[s] = NoFile /\ saved'[s] = saved[s] /\ sender' = sender
    BY <2>1, <1>t DEF Cleanup, callerVars
  <2>3. \A f \in saved'[s] : f.whole
    BY <2>2 DEF Whole
  <2>4. QED
    BY <1>2, <2>1, <2>2, <2>3
<1>4. CASE BeginReady(s)
  <2> DEFINE m == Head(toHost[s])
             q == OpenFile(<<m.transfer, m.no>>, m.size, 0, TRUE)
  <2>1. Message(s, "begin") /\ open'[s] = q
    BY <1>4, <1>t DEF BeginReady, Begin
  <2>2. m.type = "begin" /\ Reached(m) = <<<<m.transfer, m.no>>, 0>>
    BY <1>1, <2>1 DEF Reached
  <2>3. q.good /\ q.file = <<m.transfer, m.no>> /\ q.got = 0
    BY DEF OpenFile
  <2>4. Written(open'[s], Reached(m))
    BY <2>1, <2>2, <2>3 DEF Written
  <2>5. /\ sender'[s] = sender[s] /\ link'[s] = link[s] /\ saved'[s] = saved[s]
    BY <1>4 DEF BeginReady, callerVars
  <2>6. m.type \in Leads
    BY <2>2 DEF Leads
  <2> HIDE DEF q
  <2>7. Queued(s)' /\ Arrives(s)' /\ Sent(s)'
    BY <1>1, <2>1, <2>4, <2>5, <2>6, PopKeeps
  <2>8. QED
    BY <2>5, <2>7 DEF Whole
<1>5. CASE Data(s)
  <2> DEFINE m == Head(toHost[s])
             f == open[s]
             q == OpenFile(f.file, f.size, f.got + 1, f.good /\ m.of = f.file /\ m.i = f.got + 1)
  <2>1. Message(s, "data") /\ f # NoFile /\ open'[s] = q
    BY <1>5, <1>t DEF Data
  <2>2. m \in Messages /\ m.type = "data" /\ toHost[s] # <<>>
    BY <1>1, <2>1
  <2>3. m.i \in 1..MaxSize /\ Needs(m) = <<m.of, m.i - 1>> /\ Reached(m) = <<m.of, m.i>>
    BY <2>2, MessageFacts DEF Needs, Reached
  <2>4. f.good /\ f.file = m.of /\ f.got = m.i - 1
    BY <2>1, <2>2, <2>3 DEF Whole, Arrives, Parts, Written
  <2>5. q.good /\ q.file = m.of /\ q.got = m.i
    <3>1. f.got + 1 = m.i
      BY <2>3, <2>4
    <3>2. QED
      BY <2>4, <3>1 DEF OpenFile
  <2>6. Written(open'[s], Reached(m)) /\ m.type \in Leads
    BY <2>1, <2>2, <2>3, <2>5 DEF Written, Leads
  <2>7. /\ sender'[s] = sender[s] /\ link'[s] = link[s] /\ saved'[s] = saved[s]
    BY <1>5 DEF Data, callerVars
  <2> HIDE DEF q
  <2>8. Queued(s)' /\ Arrives(s)' /\ Sent(s)'
    BY <1>1, <2>1, <2>6, <2>7, PopKeeps
  <2>9. QED
    BY <2>7, <2>8 DEF Whole
<1>6. CASE End(s)
  <2> DEFINE m == Head(toHost[s])
             f == open[s]
             g == [of |-> f.file,
                   whole |-> f.good /\ m.of = f.file /\ f.got = m.length /\ m.length = f.size]
  <2>1. Message(s, "end") /\ f # NoFile /\ f.got = f.size /\ saved'[s] = saved[s] \cup {g}
    BY <1>6, <1>t DEF End, Complete
  <2>2. m.type = "end" /\ toHost[s] # <<>>
    BY <1>1, <2>1
  <2>3. f.good /\ f.file = m.of /\ f.got = m.length
    BY <2>1, <2>2 DEF Whole, Arrives, Parts, Written, Needs
  <2>4. g.whole
    BY <2>1, <2>3
  <2> HIDE DEF g
  <2>5. \A x \in saved'[s] : x.whole
    BY <2>1, <2>4 DEF Whole
  <2>6. open'[s] = NoFile /\ sender'[s] = sender[s] /\ link'[s] = link[s]
    BY <1>6, <1>t DEF End, Cleanup, callerVars
  <2>7. QED
    BY <1>2, <2>1, <2>5, <2>6
<1>7. QED
  BY <1>3, <1>4, <1>5, <1>6 DEF Receive

\* Closing the file breaks nothing, and a channel that closes takes its contents along.
LEMMA SessionWhole ==
  ASSUME TypeInv, NEW s \in Session, Whole(s),
         \/ TimePasses(s) \/ Timer(s) \/ CloseReceiver(s) \/ CloseChannel(s) \/ Connect(s) \/ Authorize(s)
  PROVE  Whole(s)'
<1>t. DOMAIN toHost = Session /\ DOMAIN open = Session /\ DOMAIN link = Session
  BY DEF TypeInv, NetTypes, HostTypes
<1>1. CASE TimePasses(s) \/ Expire(s) \/ Authorize(s)
  BY <1>1, WholeSame DEF TimePasses, Expire, Authorize, netVars, callerVars, hostVars, fileVars
<1>2. ASSUME open'[s] = NoFile, link[s] = "down" => link'[s] = "down",
             UNCHANGED <<toHost, sender, saved>>
      PROVE  Whole(s)'
  <2>1. Queued(s)' /\ Arrives(s)'
    BY <1>2 DEF Whole, Queued, Arrives, Written, Reached, Needs
  <2>2. Sent(s)'
    <3>1. ASSUME NEW at, Follows(s, at)
          PROVE  IF toHost'[s] = <<>> THEN Written(open'[s], at)
                 ELSE toHost'[s][Len(toHost'[s])].type \in Leads /\ Reached(toHost'[s][Len(toHost'[s])]) = at
      BY <1>2, <3>1 DEF Follows, Written
    <3>2. link'[s] # "down" => link[s] # "down"
      BY <1>2
    <3>3. QED
      BY <1>2, <3>1, <3>2 DEF Whole, Sent, Follows, Current, Written, Reached
  <2>3. QED
    BY <1>2, <2>1, <2>2 DEF Whole
<1>3. CASE CloseReceiver(s)
  BY <1>2, <1>3, <1>t DEF CloseReceiver, Cleanup, callerVars
<1>4. CASE Callback(s)
  <2>1. UNCHANGED <<link, toHost, sender, saved>> /\ (open' = open \/ open'[s] = NoFile)
    BY <1>4, <1>t DEF Callback, Cleanup, callerVars, fileVars
  <2>2. QED
    BY <1>2, <2>1, WholeSame
<1>5. CASE CloseChannel(s)
  <2>1. toHost'[s] = <<>> /\ link'[s] = "down" /\ UNCHANGED <<open, sender, saved>>
    BY <1>5, <1>t DEF CloseChannel, callerVars, hostVars, fileVars
  <2>2. Len(toHost'[s]) = 0
    BY <2>1
  <2>3. Queued(s)'
    BY <2>2 DEF Queued
  <2>4. QED
    BY <2>1, <2>3 DEF Whole, Arrives, Sent
<1>6. CASE Connect(s)
  <2>1. UNCHANGED <<toHost, open, sender, saved>> /\ sender[s].at = "idle"
    BY <1>6 DEF Connect, fileVars, Idle
  <2>2. Sent(s)'
    BY <2>1 DEF Sent
  <2>3. QED
    BY <2>1, <2>2 DEF Whole, Queued, Arrives, Written, Reached, Needs
<1>7. QED
  BY <1>1, <1>3, <1>4, <1>5, <1>6 DEF Timer

LEMMA WholeNext == TypeInv /\ WholeInv /\ [Next]_vars => WholeInv'
<1> SUFFICES ASSUME TypeInv, WholeInv, [Next]_vars, NEW x \in Session PROVE Whole(x)'
  BY DEF WholeInv
<1>1. Whole(x)
  BY DEF WholeInv
<1>2. CASE UNCHANGED vars
  BY <1>1, <1>2, WholeSame DEF vars, netVars, callerVars, hostVars, fileVars
<1>3. ASSUME NEW s \in Session,
             \/ \E t \in Transfer : SendFiles(s, t)
             \/ CancelFiles(s) \/ Sender(s) \/ ReadFails(s) \/ Deliver(s)
      PROVE  Whole(x)'
  BY <1>1, <1>3, CallerWhole, CallerApart, WholeSame DEF Apart
<1>4. ASSUME NEW s \in Session,
             \/ Receive(s) \/ TimePasses(s) \/ Timer(s)
             \/ CloseReceiver(s) \/ CloseChannel(s) \/ Connect(s) \/ Authorize(s)
      PROVE  Whole(x)'
  BY <1>1, <1>4, ReceiveWhole, SessionWhole, HostApart, WholeSame DEF Apart
<1>5. QED
  BY <1>2, <1>3, <1>4 DEF Next

LEMMA WholeInit == Init => WholeInv
  BY DEF Init, WholeInv, Whole, Queued, Arrives, Sent, Idle

-----------------------------------------------------------------------------
\* What the caller counts as saved has been saved

\* The end of a file of a transfer, and the acknowledgement that one was saved
EndsOf(t) == {m \in Messages : m.type = "end" /\ m.of[1] = t}
SavedAck(t) == {a \in Acks : a.type = "saved" /\ a.transfer = t}

Has(q, M) == \E i \in 1..Len(q) : q[i] \in M
AtMostOne(q, M) == \A i \in 1..Len(q) : \A j \in 1..Len(q) : q[i] \in M /\ q[j] \in M => i = j

SavedFile(s, f) == \E g \in saved[s] : g.of = f

\* Of the sender's transfer there is at most one end or acknowledgement of a saved
\* file under way, and only while the sender waits for it; the acknowledgement
\* means that the file it waits for has been saved.
Awaited(s) ==
  LET E == EndsOf(sender[s].transfer)
      A == SavedAck(sender[s].transfer)
  IN  /\ AtMostOne(toHost[s], E) /\ AtMostOne(toCaller[s], A) /\ AtMostOne(fileAck[s], A)
      /\ Has(toHost[s], E) => ~Has(toCaller[s], A) /\ ~Has(fileAck[s], A)
      /\ Has(toCaller[s], A) => ~Has(fileAck[s], A)
      /\ Has(toHost[s], E) =>
           sender[s].at = "saved" /\ \A i \in 1..Len(toHost[s]) : toHost[s][i] \in E => toHost[s][i].of = Current(s)
      /\ Has(toCaller[s], A) \/ Has(fileAck[s], A) => sender[s].at = "saved" /\ SavedFile(s, Current(s))

Counted(s) == \A i \in 1..sender[s].no : SavedFile(s, <<sender[s].transfer, i>>)

Told(s) ==
  /\ open[s] # NoFile => open[s].file[1] = transfer[s]
  /\ sender[s] # Idle => Awaited(s) /\ Counted(s)

ToldInv == \A s \in Session : Told(s)

LEMMA HasAppend ==
  ASSUME NEW S, NEW q \in Seq(S), NEW m \in S, NEW M
  PROVE  /\ Has(Append(q, m), M) <=> Has(q, M) \/ m \in M
         /\ AtMostOne(q, M) /\ (m \in M => ~Has(q, M)) => AtMostOne(Append(q, m), M)
<1> DEFINE r == Append(q, m)
<1>1. /\ Len(r) = Len(q) + 1 /\ Len(q) \in Nat
      /\ \A i \in 1..Len(q) : r[i] = q[i]
      /\ r[Len(q) + 1] = m
  BY AppendFacts
<1> HIDE DEF r
<1>2. \A i \in 1..Len(r) : i \in 1..Len(q) \/ i = Len(q) + 1
  BY <1>1
<1>3. \A i \in 1..Len(q) : i \in 1..Len(r)
  BY <1>1
<1>4. Len(q) + 1 \in 1..Len(r)
  BY <1>1
<1>5. Has(r, M) <=> Has(q, M) \/ m \in M
  BY <1>1, <1>2, <1>3, <1>4 DEF Has
<1>6. AtMostOne(q, M) /\ (m \in M => ~Has(q, M)) => AtMostOne(r, M)
  BY <1>1, <1>2 DEF Has, AtMostOne
<1>7. QED
  BY <1>5, <1>6 DEF r

LEMMA HasTail ==
  ASSUME NEW S, NEW q \in Seq(S), q # <<>>, NEW M
  PROVE  /\ Has(Tail(q), M) => Has(q, M)
         /\ AtMostOne(q, M) => AtMostOne(Tail(q), M)
         /\ Head(q) \in M => Has(q, M)
         /\ AtMostOne(q, M) /\ Head(q) \in M => ~Has(Tail(q), M)
<1> DEFINE r == Tail(q)
           n == Len(q)
           k == Len(r)
<1>1. /\ n \in Nat \ {0} /\ k = n - 1 /\ Head(q) = q[1]
      /\ \A i \in 1..(n - 1) : r[i] = q[i + 1]
  BY TailFacts
<1> HIDE DEF r, n, k
<1>2. \A i \in 1..k : i + 1 \in 1..n /\ i + 1 # 1 /\ r[i] = q[i + 1]
  BY <1>1
<1>3. 1 \in 1..n
  BY <1>1
<1>4. \A i \in 1..k : \A j \in 1..k : i + 1 = j + 1 => i = j
  BY <1>1
<1>5. Has(r, M) => Has(q, M)
  BY <1>2 DEF Has, n, k
<1>6. AtMostOne(q, M) => AtMostOne(r, M)
  BY <1>2, <1>4 DEF AtMostOne, n, k
<1>7. Head(q) \in M => Has(q, M)
  BY <1>1, <1>3 DEF Has, n
<1>8. AtMostOne(q, M) /\ Head(q) \in M => ~Has(r, M)
  BY <1>1, <1>2, <1>3 DEF Has, AtMostOne, n, k
<1>9. QED
  BY <1>5, <1>6, <1>7, <1>8 DEF r

LEMMA HasEmpty == ASSUME NEW M PROVE ~Has(<<>>, M) /\ AtMostOne(<<>>, M)
  BY DEF Has, AtMostOne

\* One queue holds no more of M than the other.
Fewer(r, q, M) ==
  /\ Has(r, M) => Has(q, M)
  /\ AtMostOne(q, M) => AtMostOne(r, M)
  /\ \A i \in 1..Len(r) : r[i] \in M => \E j \in 1..Len(q) : r[i] = q[j]

LEMMA FewerFacts ==
  ASSUME NEW S, NEW q \in Seq(S), NEW M
  PROVE  /\ Fewer(q, q, M) /\ Fewer(<<>>, q, M)
         /\ q # <<>> => Fewer(Tail(q), q, M)
         /\ \A m \in S : m \notin M => Fewer(Append(q, m), q, M)
<1>1. Fewer(q, q, M) /\ Fewer(<<>>, q, M)
  BY DEF Fewer, Has, AtMostOne
<1>2. ASSUME q # <<>> PROVE Fewer(Tail(q), q, M)
  <2> DEFINE r == Tail(q)
             n == Len(q)
             k == Len(r)
  <2>1. n \in Nat \ {0} /\ k = n - 1 /\ \A i \in 1..(n - 1) : r[i] = q[i + 1]
    BY <1>2, TailFacts
  <2> HIDE DEF r, n, k
  <2>2. \A i \in 1..k : i + 1 \in 1..n /\ r[i] = q[i + 1]
    BY <2>1
  <2>3. \A i \in 1..k : \E j \in 1..n : r[i] = q[j]
    BY <2>2
  <2>4. (Has(r, M) => Has(q, M)) /\ (AtMostOne(q, M) => AtMostOne(r, M))
    BY <1>2, HasTail DEF r
  <2>5. QED
    BY <2>3, <2>4 DEF Fewer, r, n, k
<1>3. ASSUME NEW m \in S, m \notin M PROVE Fewer(Append(q, m), q, M)
  <2> DEFINE r == Append(q, m)
  <2>1. /\ Len(r) = Len(q) + 1 /\ Len(q) \in Nat
        /\ \A i \in 1..Len(q) : r[i] = q[i]
        /\ r[Len(q) + 1] = m
    BY AppendFacts
  <2>2. (Has(r, M) => Has(q, M)) /\ (AtMostOne(q, M) => AtMostOne(r, M))
    BY <1>3, HasAppend
  <2> HIDE DEF r
  <2>3. \A i \in 1..Len(r) : i \in 1..Len(q) \/ i = Len(q) + 1
    BY <2>1
  <2>4. QED
    BY <1>3, <2>1, <2>2, <2>3 DEF Fewer, r
<1>4. QED
  BY <1>1, <1>2, <1>3

\* Nothing that is awaited is added, and the sender still waits for it.
LEMMA FewerKeeps ==
  ASSUME NEW s \in Session, Awaited(s),
         Fewer(toHost'[s], toHost[s], EndsOf(sender[s].transfer)),
         Fewer(toCaller'[s], toCaller[s], SavedAck(sender[s].transfer)),
         Fewer(fileAck'[s], fileAck[s], SavedAck(sender[s].transfer)),
         sender'[s].transfer = sender[s].transfer, sender'[s].no = sender[s].no,
         sender[s].at = "saved" => sender'[s].at = "saved",
         saved[s] \subseteq saved'[s]
  PROVE  Awaited(s)'
<1> DEFINE E == EndsOf(sender[s].transfer)
           A == SavedAck(sender[s].transfer)
<1>1. E' = E /\ A' = A /\ Current(s)' = Current(s)
  BY DEF EndsOf, SavedAck, Current, Messages, Acks, File, Size, Waits
<1> HIDE DEF E, A
<1>2. SavedFile(s, Current(s)) => SavedFile(s, Current(s))'
  BY <1>1 DEF SavedFile
<1>3. /\ AtMostOne(toHost'[s], E) /\ AtMostOne(toCaller'[s], A) /\ AtMostOne(fileAck'[s], A)
      /\ Has(toHost'[s], E) => Has(toHost[s], E)
      /\ Has(toCaller'[s], A) => Has(toCaller[s], A)
      /\ Has(fileAck'[s], A) => Has(fileAck[s], A)
  BY DEF Fewer, Awaited, E, A
<1>4. ASSUME Has(toHost'[s], E)
      PROVE  /\ sender'[s].at = "saved"
             /\ \A i \in 1..Len(toHost'[s]) : toHost'[s][i] \in E => toHost'[s][i].of = Current(s)
  <2>1. sender[s].at = "saved" /\ \A i \in 1..Len(toHost[s]) : toHost[s][i] \in E => toHost[s][i].of = Current(s)
    BY <1>3, <1>4 DEF Awaited, E
  <2>2. \A i \in 1..Len(toHost'[s]) : toHost'[s][i] \in E => \E j \in 1..Len(toHost[s]) : toHost'[s][i] = toHost[s][j]
    BY DEF Fewer, E
  <2>3. QED
    BY <2>1, <2>2
<1>5. Has(toCaller'[s], A) \/ Has(fileAck'[s], A) => sender'[s].at = "saved" /\ SavedFile(s, Current(s))'
  BY <1>2, <1>3 DEF Awaited, A
<1>6. /\ Has(toHost'[s], E) => ~Has(toCaller'[s], A) /\ ~Has(fileAck'[s], A)
      /\ Has(toCaller'[s], A) => ~Has(fileAck'[s], A)
  BY <1>3 DEF Awaited, E, A
<1> DEFINE E2 == EndsOf(sender[s].transfer)'
           A2 == SavedAck(sender[s].transfer)'
<1>7. E2 = E /\ A2 = A
  BY <1>1 DEF E, A
<1> HIDE DEF E2, A2
<1>8. /\ AtMostOne(toHost'[s], E2) /\ AtMostOne(toCaller'[s], A2) /\ AtMostOne(fileAck'[s], A2)
      /\ Has(toHost'[s], E2) => ~Has(toCaller'[s], A2) /\ ~Has(fileAck'[s], A2)
      /\ Has(toCaller'[s], A2) => ~Has(fileAck'[s], A2)
      /\ Has(toHost'[s], E2) =>
           sender'[s].at = "saved" /\ \A i \in 1..Len(toHost'[s]) : toHost'[s][i] \in E2 => toHost'[s][i].of = Current(s)'
      /\ Has(toCaller'[s], A2) \/ Has(fileAck'[s], A2) => sender'[s].at = "saved" /\ SavedFile(s, Current(s))'
  BY <1>1, <1>3, <1>4, <1>5, <1>6, <1>7
<1>9. QED
  BY <1>8 DEF Awaited, E2, A2, Has, AtMostOne

LEMMA CountedKeeps ==
  ASSUME NEW s \in Session, Counted(s), sender'[s].transfer = sender[s].transfer,
         sender'[s].no = sender[s].no, saved[s] \subseteq saved'[s]
  PROVE  Counted(s)'
  BY DEF Counted, SavedFile

LEMMA ToldSame ==
  ASSUME TypeInv, NEW s \in Session, Told(s), toHost'[s] = toHost[s], toCaller'[s] = toCaller[s],
         fileAck'[s] = fileAck[s], sender'[s] = sender[s], saved'[s] = saved[s],
         open'[s] = open[s] \/ open'[s] = NoFile, transfer'[s] = transfer[s]
  PROVE  Told(s)'
<1>1. open'[s] # NoFile => open'[s].file[1] = transfer'[s]
  BY DEF Told
<1>2. toHost[s] \in Seq(Messages) /\ toCaller[s] \in Seq(Acks) /\ fileAck[s] \in Seq(Acks)
  BY DEF TypeInv, NetTypes, CallerTypes
<1>3. ASSUME sender[s] # Idle PROVE Awaited(s)' /\ Counted(s)'
  BY <1>2, <1>3, FewerFacts, FewerKeeps, CountedKeeps DEF Told
<1>4. Idle' = Idle /\ NoFile' = NoFile
  BY DEF Idle, NoFile
<1>5. QED
  BY <1>1, <1>3, <1>4 DEF Told

\* While the sender does not wait for it, none of it is under way.
LEMMA NoneUnderWay ==
  ASSUME NEW s \in Session, Awaited(s), sender[s].at # "saved"
  PROVE  /\ ~Has(toHost[s], EndsOf(sender[s].transfer))
         /\ ~Has(toCaller[s], SavedAck(sender[s].transfer)) /\ ~Has(fileAck[s], SavedAck(sender[s].transfer))
  BY DEF Awaited

\* What Awaited asks of the next state, for the transfer t it has then
LEMMA AwaitedNext ==
  ASSUME NEW s \in Session, NEW t, sender'[s].transfer = t,
         AtMostOne(toHost'[s], EndsOf(t)), AtMostOne(toCaller'[s], SavedAck(t)), AtMostOne(fileAck'[s], SavedAck(t)),
         Has(toHost'[s], EndsOf(t)) => ~Has(toCaller'[s], SavedAck(t)) /\ ~Has(fileAck'[s], SavedAck(t)),
         Has(toCaller'[s], SavedAck(t)) => ~Has(fileAck'[s], SavedAck(t)),
         Has(toHost'[s], EndsOf(t)) =>
           /\ sender'[s].at = "saved"
           /\ \A i \in 1..Len(toHost'[s]) : toHost'[s][i] \in EndsOf(t) => toHost'[s][i].of = Current(s)',
         Has(toCaller'[s], SavedAck(t)) \/ Has(fileAck'[s], SavedAck(t)) =>
           sender'[s].at = "saved" /\ SavedFile(s, Current(s))'
  PROVE  Awaited(s)'
<1> DEFINE E == EndsOf(t)
           A == SavedAck(t)
           E2 == EndsOf(sender[s].transfer)'
           A2 == SavedAck(sender[s].transfer)'
<1>1. E2 = E /\ A2 = A
  BY DEF EndsOf, SavedAck, Messages, Acks, File, Size, Waits
<1> HIDE DEF E, A, E2, A2
<1>2. /\ AtMostOne(toHost'[s], E2) /\ AtMostOne(toCaller'[s], A2) /\ AtMostOne(fileAck'[s], A2)
      /\ Has(toHost'[s], E2) => ~Has(toCaller'[s], A2) /\ ~Has(fileAck'[s], A2)
      /\ Has(toCaller'[s], A2) => ~Has(fileAck'[s], A2)
      /\ Has(toHost'[s], E2) =>
           sender'[s].at = "saved" /\ \A i \in 1..Len(toHost'[s]) : toHost'[s][i] \in E2 => toHost'[s][i].of = Current(s)'
      /\ Has(toCaller'[s], A2) \/ Has(fileAck'[s], A2) => sender'[s].at = "saved" /\ SavedFile(s, Current(s))'
  BY <1>1 DEF E, A
<1>3. QED
  BY <1>2 DEF Awaited, E2, A2, Has, AtMostOne

LEMMA NoneIsOne == ASSUME NEW q, NEW M, ~Has(q, M) PROVE AtMostOne(q, M)
  BY DEF Has, AtMostOne

LEMMA NoneAwaited ==
  ASSUME NEW s \in Session, NEW t, sender'[s].transfer = t, ~Has(toHost'[s], EndsOf(t)),
         ~Has(toCaller'[s], SavedAck(t)), ~Has(fileAck'[s], SavedAck(t))
  PROVE  Awaited(s)'
  BY AwaitedNext, NoneIsOne

\* The steps that neither count a file nor end one
LEMMA ToldKeeps ==
  ASSUME NEW s \in Session, Told(s),
         open'[s] # NoFile => open'[s].file[1] = transfer'[s],
         sender'[s] # Idle =>
           /\ sender[s] # Idle
           /\ sender'[s].transfer = sender[s].transfer /\ sender'[s].no = sender[s].no
           /\ sender[s].at = "saved" => sender'[s].at = "saved"
           /\ Fewer(toHost'[s], toHost[s], EndsOf(sender[s].transfer))
           /\ Fewer(toCaller'[s], toCaller[s], SavedAck(sender[s].transfer))
           /\ Fewer(fileAck'[s], fileAck[s], SavedAck(sender[s].transfer)),
         saved[s] \subseteq saved'[s]
  PROVE  Told(s)'
<1>1. ASSUME sender'[s] # Idle PROVE Awaited(s)' /\ Counted(s)'
  BY <1>1, FewerKeeps, CountedKeeps DEF Told
<1>2. Idle' = Idle /\ NoFile' = NoFile
  BY DEF Idle, NoFile
<1>3. QED
  BY <1>1, <1>2 DEF Told

\* The caller counts a file for its acknowledgement alone, and names a transfer
\* that nothing under way belongs to.
LEMMA CallerTold ==
  ASSUME TypeInv, NEW s \in Session, Told(s),
         \/ \E t \in Transfer : SendFiles(s, t)
         \/ CancelFiles(s) \/ Sender(s) \/ ReadFails(s) \/ Deliver(s)
  PROVE  Told(s)'
<1> DEFINE E == EndsOf(sender[s].transfer)
           A == SavedAck(sender[s].transfer)
<1>t. /\ sender[s].at # "idle" => sender[s] # Idle
      /\ DOMAIN sender = Session /\ DOMAIN toHost = Session /\ DOMAIN toCaller = Session
      /\ DOMAIN fileAck = Session /\ DOMAIN saved = Session
      /\ toHost[s] \in Seq(Messages) /\ toCaller[s] \in Seq(Acks) /\ fileAck[s] \in Seq(Acks)
  BY SenderFacts DEF TypeInv, NetTypes, CallerTypes, HostTypes
<1>f. /\ Fewer(toHost[s], toHost[s], E) /\ Fewer(toCaller[s], toCaller[s], A) /\ Fewer(fileAck[s], fileAck[s], A)
      /\ Fewer(<<>>, fileAck[s], A)
      /\ toCaller[s] # <<>> => Fewer(Tail(toCaller[s]), toCaller[s], A)
      /\ fileAck[s] # <<>> => Fewer(Tail(fileAck[s]), fileAck[s], A)
      /\ \A m \in Messages : m \notin E => Fewer(Append(toHost[s], m), toHost[s], E)
      /\ \A m \in Acks : m \notin A => Fewer(Append(fileAck[s], m), fileAck[s], A)
  BY <1>t, FewerFacts
<1>o. open[s] # NoFile => open[s].file[1] = transfer[s]
  BY DEF Told
<1>i. ASSUME sender'[s] = Idle, open' = open, transfer' = transfer PROVE Told(s)'
  BY <1>i, <1>o DEF Told, Idle, NoFile
<1> HIDE DEF E, A
<1>1. ASSUME NEW t \in Transfer, SendFiles(s, t) PROVE Told(s)'
  <2>1. PICK n \in 1..MaxFiles, total \in 0..(MaxFiles * MaxSize) :
          /\ sender' = [sender EXCEPT ![s] = Sending("batch_ready", t, n, 0, 0, 0)]
          /\ Send(s, [type |-> "batch", transfer |-> t, count |-> n, total |-> total])
    BY <1>1 DEF SendFiles
  <2> DEFINE m == [type |-> "batch", transfer |-> t, count |-> n, total |-> total]
  <2>2. m \in Messages /\ m \notin EndsOf(t)
    BY DEF Messages, EndsOf
  <2>3. toHost'[s] = Append(toHost[s], m)
    BY <1>1, <1>t, <2>1 DEF SendFiles, Send
  <2>4. sender'[s].transfer = t /\ sender'[s].no = 0
    BY <1>t, <2>1 DEF Sending
  <2>5. UNCHANGED <<toCaller, fileAck, open, transfer>>
    BY <1>1 DEF SendFiles, fileVars
  <2> HIDE DEF m
  <2>6. ~Has(toHost[s], EndsOf(t))
    <3>1. \A i \in DOMAIN toHost[s] : toHost[s][i].type = "end" => toHost[s][i].of[1] # t
      BY <1>1 DEF SendFiles, Mentions
    <3>2. DOMAIN toHost[s] = 1..Len(toHost[s])
      BY <1>t
    <3>3. QED
      BY <3>1, <3>2 DEF Has, EndsOf
  <2>7. ~Has(toCaller[s], SavedAck(t)) /\ ~Has(fileAck[s], SavedAck(t))
    <3>1. /\ \A i \in DOMAIN toCaller[s] : toCaller[s][i].transfer # t
          /\ \A i \in DOMAIN fileAck[s] : fileAck[s][i].transfer # t
      BY <1>1 DEF SendFiles, Mentions
    <3>2. DOMAIN toCaller[s] = 1..Len(toCaller[s]) /\ DOMAIN fileAck[s] = 1..Len(fileAck[s])
      BY <1>t
    <3>3. QED
      BY <3>1, <3>2 DEF Has, SavedAck
  <2>8. ~Has(toHost'[s], EndsOf(t))
    BY <1>t, <2>2, <2>3, <2>6, HasAppend
  <2>9. Awaited(s)'
    BY <2>4, <2>5, <2>7, <2>8, NoneAwaited
  <2>10. Counted(s)'
    BY <2>4 DEF Counted
  <2>11. QED
    BY <1>o, <2>5, <2>9, <2>10 DEF Told, NoFile
<1>2. CASE CancelFiles(s)
  BY <1>2, <1>f, <1>o, ToldKeeps DEF CancelFiles, netVars, hostVars, fileVars, E, A
<1>3. CASE SendBegin(s)
  <2>1. PICK size \in Size, length \in Size :
          /\ Send(s, [type |-> "begin", transfer |-> sender[s].transfer, no |-> sender[s].no + 1, size |-> size])
          /\ Becomes(s, "ready", sender[s].no, 0, length)
    BY <1>3 DEF SendBegin
  <2> DEFINE m == [type |-> "begin", transfer |-> sender[s].transfer, no |-> sender[s].no + 1, size |-> size]
  <2>2. sender[s].at = "next" /\ sender[s].no < sender[s].count /\ sender[s] # Idle
    BY <1>3, <1>t DEF SendBegin
  <2>3. m \in Messages /\ m \notin E
    BY <2>2, SenderFacts DEF Messages, TypeInv, EndsOf, E
  <2>4. toHost'[s] = Append(toHost[s], m)
    BY <1>3, <1>t, <2>1 DEF SendBegin, Send
  <2>5. sender'[s].transfer = sender[s].transfer /\ sender'[s].no = sender[s].no
    BY <1>t, <2>1 DEF Becomes, Sending
  <2>6. fileAck'[s] = <<>> /\ UNCHANGED <<toCaller, open, transfer, saved>>
    BY <1>3, <1>t DEF SendBegin, hostVars, fileVars
  <2> HIDE DEF m
  <2>7. QED
    BY <1>f, <1>o, <2>2, <2>3, <2>4, <2>5, <2>6, ToldKeeps DEF E, A
<1>4. CASE AllSaved(s)
  BY <1>4, <1>i, <1>t DEF AllSaved, hostVars, fileVars
<1>5. CASE SendData(s)
  <2> DEFINE m == [type |-> "data", of |-> Current(s), i |-> sender[s].sent + 1]
  <2>1. sender[s].at = "data" /\ sender[s].sent < sender[s].length /\ sender[s] # Idle
    BY <1>5, <1>t DEF SendData
  <2>2. sender[s].sent \in Size /\ sender[s].length \in Size /\ sender[s].no < sender[s].count
    BY <2>1, SenderFacts DEF TypeInv, CallerTypes
  <2>3. sender[s].sent + 1 \in 1..MaxSize /\ Current(s) \in File
    BY <2>1, <2>2, SenderFacts DEF Size, Current, File, TypeInv
  <2>4. m \in Messages /\ m \notin E
    BY <2>3 DEF Messages, EndsOf, E
  <2>5. toHost'[s] = Append(toHost[s], m)
    BY <1>5, <1>t DEF SendData, Send
  <2>6. sender'[s].transfer = sender[s].transfer /\ sender'[s].no = sender[s].no
    BY <1>5, <1>t DEF SendData, Becomes, Sending
  <2>7. UNCHANGED <<toCaller, fileAck, open, transfer, saved>>
    BY <1>5 DEF SendData, hostVars, fileVars
  <2> HIDE DEF m
  <2>8. QED
    BY <1>f, <1>o, <2>1, <2>4, <2>5, <2>6, <2>7, ToldKeeps DEF E, A
<1>6. CASE SendEnd(s)
  <2> DEFINE m == [type |-> "end", of |-> Current(s), length |-> sender[s].length]
  <2>1. sender[s].at = "data" /\ sender[s] # Idle /\ link[s] # "down"
    BY <1>6, <1>t DEF SendEnd
  <2>2. sender[s].length \in Size /\ sender[s].no < sender[s].count
    BY <2>1, SenderFacts DEF TypeInv, CallerTypes
  <2>3. Current(s) \in File
    BY <2>1, <2>2, SenderFacts DEF Current, File, TypeInv
  <2>4. m \in Messages /\ m.of = Current(s)
    BY <2>2, <2>3 DEF Messages
  <2>5. toHost'[s] = Append(toHost[s], m)
    BY <1>6, <1>t, <2>1 DEF SendEnd, Send
  <2>6. sender'[s] = Sending("saved", sender[s].transfer, sender[s].count, sender[s].no, 0, 0)
    BY <1>6, <1>t DEF SendEnd, Becomes
  <2>7. /\ sender'[s].at = "saved" /\ sender'[s].transfer = sender[s].transfer
        /\ sender'[s].no = sender[s].no /\ Current(s)' = Current(s)
    BY <2>6 DEF Sending, Current
  <2>8. UNCHANGED <<toCaller, fileAck, open, transfer, saved>>
    BY <1>6 DEF SendEnd, hostVars, fileVars
  <2> HIDE DEF m
  <2>9. ~Has(toHost[s], E) /\ ~Has(toCaller[s], A) /\ ~Has(fileAck[s], A)
    BY <2>1, NoneUnderWay DEF Told, E, A
  <2>10. AtMostOne(toHost'[s], E)
    BY <1>t, <2>4, <2>5, <2>9, HasAppend, NoneIsOne
  <2>11. \A i \in 1..Len(toHost'[s]) : toHost'[s][i] \in E => toHost'[s][i].of = Current(s)'
    <3>1. /\ Len(toHost'[s]) = Len(toHost[s]) + 1 /\ Len(toHost[s]) \in Nat
          /\ \A i \in 1..Len(toHost[s]) : toHost'[s][i] = toHost[s][i]
          /\ toHost'[s][Len(toHost[s]) + 1] = m
      BY <1>t, <2>4, <2>5, AppendFacts
    <3>2. \A i \in 1..Len(toHost'[s]) : i \in 1..Len(toHost[s]) \/ i = Len(toHost[s]) + 1
      BY <3>1
    <3>3. QED
      BY <2>4, <2>7, <2>9, <3>1, <3>2 DEF Has
  <2>12. Awaited(s)'
    BY <2>7, <2>8, <2>9, <2>10, <2>11, AwaitedNext, NoneIsOne DEF E, A
  <2>13. Counted(s)'
    BY <2>1, <2>7, <2>8, CountedKeeps DEF Told
  <2>14. QED
    BY <1>o, <2>8, <2>12, <2>13 DEF Told, NoFile
<1>7. CASE WaitAck(s)
  <2> DEFINE ack == Head(fileAck[s])
  <2>0. /\ sender[s].at \in Waits /\ sender[s] # Idle /\ fileAck[s] # <<>>
        /\ fileAck'[s] = Tail(fileAck[s]) /\ UNCHANGED <<toCaller, open, transfer, saved>>
    BY <1>7, <1>t DEF WaitAck, Waits, hostVars, fileVars
  <2>1. CASE UNCHANGED <<sender, cancelled, toHost>>
    BY <1>f, <1>o, <2>0, <2>1, ToldKeeps DEF E, A
  <2>2. CASE Fail(s)
    BY <1>i, <1>t, <2>0, <2>2 DEF Fail
  <2>3. CASE sender[s].at = "ready" /\ Becomes(s, "data", sender[s].no, 0, sender[s].length) /\ UNCHANGED toHost
    <3>1. sender'[s].transfer = sender[s].transfer /\ sender'[s].no = sender[s].no
      BY <1>t, <2>3 DEF Becomes, Sending
    <3>2. QED
      BY <1>f, <1>o, <2>0, <2>3, <3>1, ToldKeeps DEF E, A
  <2>4. CASE sender[s].at = "batch_ready" /\ Becomes(s, "next", 0, 0, 0) /\ UNCHANGED toHost
    <3>1. sender'[s].transfer = sender[s].transfer /\ sender'[s].no = 0
      BY <1>t, <2>4 DEF Becomes, Sending
    <3>2. ~Has(toHost[s], E) /\ ~Has(toCaller[s], A) /\ ~Has(fileAck[s], A)
      BY <2>0, <2>4, NoneUnderWay DEF Told, E, A
    <3>3. ~Has(fileAck'[s], A)
      BY <1>t, <2>0, <3>2, HasTail
    <3>4. Awaited(s)'
      BY <2>0, <2>4, <3>1, <3>2, <3>3, NoneAwaited DEF E, A
    <3>5. Counted(s)'
      BY <3>1 DEF Counted
    <3>6. QED
      BY <1>o, <2>0, <3>4, <3>5 DEF Told, NoFile
  <2>5. CASE /\ ack.transfer = sender[s].transfer /\ ack.type = "saved" /\ sender[s].at = "saved"
             /\ Becomes(s, "next", sender[s].no + 1, 0, 0) /\ UNCHANGED toHost
    <3>1. sender'[s].transfer = sender[s].transfer /\ sender'[s].no = sender[s].no + 1
      BY <1>t, <2>5 DEF Becomes, Sending
    <3>2. ack \in A
      BY <1>t, <2>0, <2>5, TailFacts DEF SavedAck, A
    <3>3. Has(fileAck[s], A) /\ AtMostOne(fileAck[s], A)
      BY <1>t, <2>0, <3>2, HasTail DEF Told, Awaited, A
    <3>4. ~Has(toHost[s], E) /\ ~Has(toCaller[s], A) /\ SavedFile(s, Current(s))
      BY <2>0, <3>3 DEF Told, Awaited, E, A
    <3>5. ~Has(fileAck'[s], A)
      BY <1>t, <2>0, <3>2, <3>3, HasTail
    <3>6. Awaited(s)'
      BY <2>0, <2>5, <3>1, <3>4, <3>5, NoneAwaited DEF E, A
    <3>7. Counted(s)'
      <4>1. sender[s].no \in Nat
        BY <2>0, SenderFacts DEF TypeInv, Waits
      <4>2. \A i \in 1..(sender[s].no + 1) : i \in 1..sender[s].no \/ i = sender[s].no + 1
        BY <4>1
      <4>3. \A i \in 1..(sender[s].no + 1) : SavedFile(s, <<sender[s].transfer, i>>)
        BY <2>0, <3>4, <4>2 DEF Told, Counted, Current
      <4>4. QED
        BY <2>0, <3>1, <4>3 DEF Counted, SavedFile
    <3>8. QED
      BY <1>o, <2>0, <3>6, <3>7 DEF Told, NoFile
  <2>6. QED
    BY <1>7, <2>1, <2>2, <2>3, <2>4, <2>5 DEF WaitAck, Waits
<1>8. CASE TimesOut(s) \/ Interrupted(s) \/ SendFails(s) \/ ReadFails(s)
  <2>1. Fail(s) /\ UNCHANGED hostVars
    BY <1>8 DEF TimesOut, Interrupted, SendFails, ReadFails, FileFails
  <2>2. QED
    BY <1>i, <1>t, <2>1 DEF Fail, hostVars, fileVars
<1>9. CASE Deliver(s)
  <2> DEFINE ack == Head(toCaller[s])
  <2>1. /\ toCaller[s] # <<>> /\ toCaller'[s] = Tail(toCaller[s]) /\ ack \in Acks
        /\ fileAck'[s] = Append(fileAck[s], ack) \/ fileAck'[s] = fileAck[s]
        /\ UNCHANGED <<toHost, sender, open, transfer, saved>>
    BY <1>9, <1>t, TailFacts DEF Deliver, hostVars, fileVars
  <2> HIDE DEF ack
  <2>2. CASE ack \notin A
    BY <1>f, <1>o, <2>1, <2>2, ToldKeeps DEF E, A
  <2>3. CASE ack \in A /\ sender[s] # Idle
    <3>1. Awaited(s) /\ Has(toCaller[s], A) /\ AtMostOne(toCaller[s], A)
      BY <1>t, <2>1, <2>3, HasTail DEF Told, Awaited, A, ack
    <3>2. /\ ~Has(toHost[s], E) /\ ~Has(fileAck[s], A)
          /\ sender[s].at = "saved" /\ SavedFile(s, Current(s))
      BY <3>1 DEF Awaited, E, A
    <3>3. ~Has(toCaller'[s], A)
      BY <1>t, <2>1, <2>3, <3>1, HasTail DEF ack
    <3>4. AtMostOne(fileAck'[s], A)
      <4>1. AtMostOne(fileAck[s], A)
        BY <3>2, NoneIsOne
      <4>2. AtMostOne(Append(fileAck[s], ack), A)
        BY <1>t, <2>1, <3>2, <4>1, HasAppend
      <4>3. QED
        BY <2>1, <4>1, <4>2
    <3>5. SavedFile(s, Current(s))'
      BY <2>1, <3>2 DEF SavedFile, Current
    <3>6. Awaited(s)'
      BY <2>1, <3>2, <3>3, <3>4, <3>5, AwaitedNext, NoneIsOne DEF E, A
    <3>7. Counted(s)'
      BY <2>1, <2>3, CountedKeeps DEF Told
    <3>8. QED
      BY <1>o, <2>1, <3>6, <3>7 DEF Told, NoFile
  <2>4. CASE sender[s] = Idle
    BY <1>i, <2>1, <2>4
  <2>5. QED
    BY <2>2, <2>3, <2>4
<1>10. QED
  BY <1>1, <1>2, <1>3, <1>4, <1>5, <1>6, <1>7, <1>8, <1>9 DEF Sender

\* The host answers the end of a file with "saved" when it has saved that file, and
\* nothing else with it.
LEMMA ReceiveTold == ASSUME TypeInv, NEW s \in Session, Whole(s), Told(s), Receive(s) PROVE Told(s)'
<1> DEFINE E == EndsOf(sender[s].transfer)
           A == SavedAck(sender[s].transfer)
           m == Head(toHost[s])
<1>t. /\ DOMAIN toHost = Session /\ DOMAIN toCaller = Session /\ DOMAIN open = Session
      /\ DOMAIN transfer = Session /\ DOMAIN saved = Session
      /\ toHost[s] \in Seq(Messages) /\ toCaller[s] \in Seq(Acks) /\ open[s] \in OpenFiles
      /\ transfer' \in [Session -> Transfer \cup {NoTransfer}]
  BY ReceiveKeeps DEF TypeInv, NetTypes, HostTypes
<1>f. /\ Fewer(toCaller[s], toCaller[s], A) /\ Fewer(fileAck[s], fileAck[s], A)
      /\ toHost[s] # <<>> => Fewer(Tail(toHost[s]), toHost[s], E)
      /\ \A a \in Acks : a \notin A => Fewer(Append(toCaller[s], a), toCaller[s], A)
  <2>1. fileAck[s] \in Seq(Acks)
    BY DEF TypeInv, CallerTypes
  <2>2. QED
    BY <1>t, <2>1, FewerFacts
<1>1. ASSUME NEW type, Message(s, type)
      PROVE  /\ toHost[s] # <<>> /\ toHost'[s] = Tail(toHost[s])
             /\ m \in Messages /\ m.type = type /\ link[s] # "down"
  BY <1>1, <1>t, MessageTypes DEF Message, TypeInv
<1> HIDE DEF E, A, m
<1>2. ASSUME NEW type, Message(s, type), NEW a \in Acks, a \notin A,
             toCaller'[s] = toCaller[s] \/ toCaller'[s] = Append(toCaller[s], a),
             UNCHANGED callerVars, saved[s] \subseteq saved'[s],
             open'[s] # NoFile => open'[s].file[1] = transfer'[s]
      PROVE  Told(s)'
  <2>1. Fewer(toHost'[s], toHost[s], E) /\ Fewer(toCaller'[s], toCaller[s], A) /\ Fewer(fileAck'[s], fileAck[s], A)
    BY <1>1, <1>2, <1>f DEF callerVars
  <2>2. sender' = sender
    BY <1>2 DEF callerVars
  <2>3. QED
    BY <1>2, <2>1, <2>2, ToldKeeps DEF E, A
<1>3. ASSUME NEW kind \in Waits \cup {"error", "cancelled"}, NEW t \in Transfer \cup {NoTransfer}, Reply(s, kind, t)
      PROVE  LET a == [type |-> kind, transfer |-> t]
             IN  /\ a \in Acks /\ (kind # "saved" => a \notin A)
                 /\ toCaller'[s] = toCaller[s] \/ toCaller'[s] = Append(toCaller[s], a)
  BY <1>3, <1>t DEF Reply, Acks, A, SavedAck
<1>4. ASSUME NEW type, Message(s, type), NEW kind \in {"batch_ready", "error", "cancelled"},
             Reply(s, kind, transfer'[s]), Cleanup(s), UNCHANGED <<callerVars, saved>>
      PROVE  Told(s)'
  <2>1. open'[s] = NoFile
    BY <1>4, <1>t DEF Cleanup
  <2>2. transfer'[s] \in Transfer \cup {NoTransfer} /\ kind \in Waits \cup {"error", "cancelled"} /\ kind # "saved"
    BY <1>t DEF Waits
  <2>3. QED
    BY <1>2, <1>3, <1>4, <2>1, <2>2
<1>5. CASE Unauthorized(s) \/ BeginRefused(s) \/ BeginFails(s)
  BY <1>4, <1>5 DEF Unauthorized, BeginRefused, BeginFails, Begin
<1>6. CASE ReceiveBatch(s)
  BY <1>4, <1>6 DEF ReceiveBatch
<1>7. CASE DataRefused(s) \/ EndRefused(s) \/ Cancel(s)
  BY <1>4, <1>7 DEF DataRefused, EndRefused, Cancel
<1>8. CASE BeginReady(s)
  <2> DEFINE q == OpenFile(<<m.transfer, m.no>>, m.size, 0, TRUE)
  <2>1. Message(s, "begin") /\ open'[s] = q /\ transfer'[s] = m.transfer /\ Reply(s, "ready", transfer'[s])
    BY <1>8, <1>t DEF BeginReady, Begin, m
  <2>2. q.file[1] = m.transfer
    BY DEF OpenFile
  <2>3. transfer'[s] \in Transfer \cup {NoTransfer} /\ "ready" \in Waits /\ UNCHANGED <<callerVars, saved>>
    BY <1>8, <1>t DEF BeginReady, Waits
  <2> DEFINE a == [type |-> "ready", transfer |-> transfer'[s]]
  <2>4. a \in Acks /\ a \notin A
    BY <2>3 DEF Acks, A, SavedAck
  <2>5. toCaller'[s] = toCaller[s] \/ toCaller'[s] = Append(toCaller[s], a)
    BY <1>t, <2>1 DEF Reply
  <2> HIDE DEF q, a
  <2>6. open'[s] # NoFile => open'[s].file[1] = transfer'[s]
    BY <2>1, <2>2 DEF q
  <2>7. QED
    BY <1>2, <2>1, <2>3, <2>4, <2>5, <2>6
<1>9. CASE Data(s)
  <2> DEFINE f == open[s]
             q == OpenFile(f.file, f.size, f.got + 1, f.good /\ m.of = f.file /\ m.i = f.got + 1)
  <2>1. Message(s, "data") /\ f # NoFile /\ open'[s] = q /\ UNCHANGED <<toCaller, callerVars, transfer, saved>>
    BY <1>9, <1>t DEF Data, m
  <2>2. q.file = f.file /\ f.file[1] = transfer[s]
    BY <2>1 DEF OpenFile, Told
  <2>3. [type |-> "error", transfer |-> NoTransfer] \in Acks /\ [type |-> "error", transfer |-> NoTransfer] \notin A
    BY DEF Acks, A, SavedAck
  <2> HIDE DEF q
  <2>4. QED
    BY <1>2, <2>1, <2>2, <2>3
<1>10. CASE End(s)
  <2> DEFINE f == open[s]
             a == [type |-> "saved", transfer |-> transfer[s]]
             g == [of |-> f.file,
                   whole |-> f.good /\ m.of = f.file /\ f.got = m.length /\ m.length = f.size]
  <2>1. /\ Message(s, "end") /\ f # NoFile /\ saved'[s] = saved[s] \cup {g}
        /\ Reply(s, "saved", transfer[s]) /\ UNCHANGED <<callerVars, transfer>> /\ open'[s] = NoFile
    BY <1>10, <1>t DEF End, Complete, Cleanup, m
  <2>2. m.type = "end" /\ m \in Messages /\ toHost[s] # <<>> /\ toHost'[s] = Tail(toHost[s]) /\ link[s] # "down"
    BY <1>1, <2>1
  <2>3. f.file = m.of
    BY <2>1, <2>2 DEF Whole, Arrives, Parts, Written, Needs, m
  <2>4. m.of[1] = transfer[s]
    BY <2>1, <2>3 DEF Told
  <2>5. g.of = m.of
    BY <2>3
  <2>6. transfer[s] \in Transfer \cup {NoTransfer} /\ "saved" \in Waits
    BY DEF TypeInv, HostTypes, Waits
  <2>7. a \in Acks /\ toCaller'[s] = Append(toCaller[s], a)
    BY <1>t, <2>1, <2>2, <2>6 DEF Acks, Reply
  <2>8. (a \in A <=> transfer[s] = sender[s].transfer) /\ (m \in E <=> transfer[s] = sender[s].transfer)
    BY <2>2, <2>4, <2>7 DEF A, E, SavedAck, EndsOf
  <2> HIDE DEF a, g
  <2>9. CASE transfer[s] # sender[s].transfer
    <3>1. a \in Acks /\ a \notin A /\ saved[s] \subseteq saved'[s]
      BY <2>1, <2>7, <2>8, <2>9
    <3>2. Message(s, "end") /\ UNCHANGED callerVars /\ open'[s] = NoFile
      BY <2>1
    <3>3. toCaller'[s] = toCaller[s] \/ toCaller'[s] = Append(toCaller[s], a)
      BY <2>7
    <3>4. QED
      BY <1>2, <3>1, <3>2, <3>3
  <2>10. CASE transfer[s] = sender[s].transfer /\ sender[s] # Idle
    <3>1. Has(toHost[s], E) /\ AtMostOne(toHost[s], E) /\ Awaited(s)
      BY <1>t, <2>2, <2>8, <2>10, HasTail DEF Told, Awaited, E, m
    <3>2. ~Has(toCaller[s], A) /\ ~Has(fileAck[s], A) /\ sender[s].at = "saved"
      BY <3>1 DEF Awaited, E, A
    <3>3. m.of = Current(s)
      <4>1. m = toHost[s][1] /\ 1 \in 1..Len(toHost[s])
        BY <1>t, <2>2, TailFacts DEF m
      <4>2. QED
        BY <2>8, <2>10, <3>1, <4>1 DEF Awaited, E
    <3>4. ~Has(toHost'[s], E)
      BY <1>t, <2>2, <2>8, <2>10, <3>1, HasTail DEF m
    <3>5. AtMostOne(toCaller'[s], A)
      <4>1. AtMostOne(toCaller[s], A)
        BY <3>2, NoneIsOne
      <4>2. QED
        BY <1>t, <2>7, <3>2, <4>1, HasAppend
    <3>6. sender' = sender /\ fileAck' = fileAck /\ Current(s)' = Current(s)
      BY <2>1 DEF callerVars, Current
    <3>7. SavedFile(s, Current(s))'
      BY <2>1, <2>5, <3>3, <3>6 DEF SavedFile
    <3>8. Awaited(s)'
      BY <3>2, <3>4, <3>5, <3>6, <3>7, AwaitedNext, NoneIsOne DEF E, A
    <3>9. Counted(s)'
      BY <2>1, <2>10, <3>6, CountedKeeps DEF Told
    <3>10. QED
      BY <2>1, <3>8, <3>9 DEF Told, NoFile
  <2>11. CASE sender[s] = Idle
    BY <2>1, <2>11 DEF Told, callerVars, Idle, NoFile
  <2>12. QED
    BY <2>9, <2>10, <2>11
<1>11. QED
  BY <1>5, <1>6, <1>7, <1>8, <1>9, <1>10 DEF Receive

\* The steps of the timer and of the session say nothing of a saved file.
LEMMA SessionTold ==
  ASSUME TypeInv, NEW s \in Session, Told(s),
         \/ TimePasses(s) \/ Timer(s) \/ CloseReceiver(s) \/ CloseChannel(s) \/ Connect(s) \/ Authorize(s)
  PROVE  Told(s)'
<1> DEFINE A == SavedAck(sender[s].transfer)
<1>t. /\ DOMAIN toHost = Session /\ DOMAIN toCaller = Session /\ DOMAIN open = Session /\ DOMAIN fileAck = Session
      /\ toHost[s] \in Seq(Messages) /\ toCaller[s] \in Seq(Acks) /\ fileAck[s] \in Seq(Acks)
  BY DEF TypeInv, NetTypes, CallerTypes, HostTypes
<1>1. CASE TimePasses(s) \/ Expire(s) \/ Authorize(s)
  BY <1>1, ToldSame DEF TimePasses, Expire, Authorize, netVars, callerVars, hostVars, fileVars
<1>2. CASE CloseReceiver(s)
  BY <1>2, <1>t, ToldSame DEF CloseReceiver, Cleanup, callerVars
<1>3. CASE Callback(s)
  <2>1. /\ UNCHANGED <<toHost, callerVars, transfer, saved>>
        /\ open' = open \/ open'[s] = NoFile
        /\ toCaller' = toCaller \/ Reply(s, "error", transfer[s])
    BY <1>3, <1>t DEF Callback, Cleanup, fileVars
  <2>2. CASE toCaller' = toCaller
    BY <2>1, <2>2, ToldSame DEF callerVars
  <2>3. CASE Reply(s, "error", transfer[s])
    <3> DEFINE a == [type |-> "error", transfer |-> transfer[s]]
    <3>1. a \in Acks /\ a \notin A
      BY DEF TypeInv, HostTypes, Acks, SavedAck
    <3>2. toCaller'[s] = toCaller[s] \/ toCaller'[s] = Append(toCaller[s], a)
      BY <1>t, <2>3 DEF Reply
    <3> HIDE DEF a
    <3>3. Fewer(toCaller'[s], toCaller[s], A) /\ Fewer(fileAck[s], fileAck[s], A)
      BY <1>t, <3>1, <3>2, FewerFacts
    <3>4. Fewer(toHost[s], toHost[s], EndsOf(sender[s].transfer))
      BY <1>t, FewerFacts
    <3>5. open'[s] # NoFile => open'[s].file[1] = transfer'[s]
      BY <2>1 DEF Told
    <3>6. sender' = sender /\ fileAck' = fileAck
      BY <2>1 DEF callerVars
    <3>7. QED
      BY <2>1, <3>3, <3>4, <3>5, <3>6, ToldKeeps
  <2>4. QED
    BY <2>1, <2>2, <2>3
<1>4. CASE CloseChannel(s)
  <2>1. /\ toHost'[s] = <<>> /\ toCaller'[s] = <<>>
        /\ UNCHANGED <<sender, fileAck, open, transfer, saved>>
    BY <1>4, <1>t DEF CloseChannel, callerVars, hostVars, fileVars
  <2>2. /\ Fewer(toHost'[s], toHost[s], EndsOf(sender[s].transfer))
        /\ Fewer(toCaller'[s], toCaller[s], A) /\ Fewer(fileAck'[s], fileAck[s], A)
    BY <1>t, <2>1, FewerFacts
  <2>3. open[s] # NoFile => open[s].file[1] = transfer[s]
    BY DEF Told
  <2>4. QED
    BY <2>1, <2>2, <2>3, ToldKeeps
<1>5. CASE Connect(s)
  BY <1>5, ToldKeeps DEF Connect, fileVars
<1>6. QED
  BY <1>1, <1>2, <1>3, <1>4, <1>5 DEF Timer

LEMMA ToldNext == TypeInv /\ WholeInv /\ ToldInv /\ [Next]_vars => ToldInv'
<1> SUFFICES ASSUME TypeInv, WholeInv, ToldInv, [Next]_vars, NEW x \in Session PROVE Told(x)'
  BY DEF ToldInv
<1>1. Told(x) /\ Whole(x)
  BY DEF ToldInv, WholeInv
<1>2. CASE UNCHANGED vars
  BY <1>1, <1>2, ToldSame DEF vars, netVars, callerVars, hostVars, fileVars
<1>3. ASSUME NEW s \in Session,
             \/ \E t \in Transfer : SendFiles(s, t)
             \/ CancelFiles(s) \/ Sender(s) \/ ReadFails(s) \/ Deliver(s)
      PROVE  Told(x)'
  BY <1>1, <1>3, CallerTold, CallerApart, ToldSame DEF Apart
<1>4. ASSUME NEW s \in Session,
             \/ Receive(s) \/ TimePasses(s) \/ Timer(s)
             \/ CloseReceiver(s) \/ CloseChannel(s) \/ Connect(s) \/ Authorize(s)
      PROVE  Told(x)'
  BY <1>1, <1>4, ReceiveTold, SessionTold, HostApart, ToldSame DEF Apart
<1>5. QED
  BY <1>2, <1>3, <1>4 DEF Next

LEMMA ToldInit == Init => ToldInv
  BY DEF Init, ToldInv, Told

\* For any sessions and files: each file the caller counts has been saved at the
\* host, although acknowledgements come late, are dropped when fileAck is full,
\* and those of another transfer are passed over.
THEOREM CountedIsSaved == Spec => []ToldIsSaved
<1>1. ToldInv => ToldIsSaved
  BY DEF ToldInv, Told, Counted, SavedFile, ToldIsSaved
<1>2. QED
  BY <1>1, TypeInit, TypeNext, WholeInit, WholeNext, ToldInit, ToldNext, PTL DEF Spec

-----------------------------------------------------------------------------
\* Batches: that FileTransfer implements FileBatch

AllEnds == {m \in Messages : m.type = "end"}
PastEnds(t) == {m \in AllEnds : m.of[1] # t}
Headers(t) == {m \in Messages : m.type \in {"batch", "begin"} /\ m.transfer = t}
AcksOf(t) == {a \in Acks : a.transfer = t}

Ahead(q, M, N) == \A i \in 1..Len(q) : \A j \in 1..Len(q) : q[i] \in M /\ q[j] \in N => i < j

\* While the end of a file of an earlier transfer is under way, the host has not
\* come to the sender's transfer yet, whose header is behind it.
Past(s) ==
  Has(toHost[s], PastEnds(sender[s].transfer)) =>
    /\ sender[s].at = "batch_ready" /\ transfer[s] # sender[s].transfer
    /\ ~Has(toCaller[s], AcksOf(sender[s].transfer)) /\ ~Has(fileAck[s], AcksOf(sender[s].transfer))
    /\ Ahead(toHost[s], PastEnds(sender[s].transfer), Headers(sender[s].transfer))

\* At most one end is under way, of whichever transfer.
InTurn(s) ==
  /\ AtMostOne(toHost[s], AllEnds)
  /\ sender[s] # Idle => Past(s)
  /\ sender[s].at = "batch_ready" => sender[s].no = 0

\* A file whose end is under way has not been saved, nor has one that the sender
\* has not come to.
Once(s) ==
  /\ \A i \in 1..Len(toHost[s]) : toHost[s][i] \in AllEnds => ~SavedFile(s, toHost[s][i].of)
  /\ sender[s] # Idle => \A f \in saved[s] : f.of[1] = sender[s].transfer =>
       f.of[2] <= sender[s].no \/ (sender[s].at = "saved" /\ f.of[2] = sender[s].no + 1)

BatchInv == \A s \in Session : InTurn(s) /\ Once(s)

\* What a step of the caller does to a batch: it begins one,
Begins(s) ==
  /\ sender[s] = Idle
  /\ \E t \in Transfer, n \in 1..MaxFiles :
       /\ ~Mentions(s, t)
       /\ sender'[s] = Sending("batch_ready", t, n, 0, 0, 0)
       /\ \E m \in Messages : m.type = "batch" /\ m.transfer = t /\ toHost'[s] = Append(toHost[s], m)
  /\ saved'[s] = {} /\ toCaller'[s] = toCaller[s] /\ fileAck'[s] = fileAck[s]

\* ends it,
Stops(s) ==
  /\ sender[s] # Idle /\ sender'[s] = Idle
  /\ \/ toHost'[s] = toHost[s]
     \/ \E m \in Messages : m.type = "cancel" /\ toHost'[s] = Append(toHost[s], m)
  /\ saved'[s] = saved[s]

\* goes on with a file,
Moves(s) ==
  /\ sender[s].at \in {"next", "ready", "data"} /\ sender[s] # Idle
  /\ sender'[s].at \in {"ready", "data"} /\ sender'[s] # Idle
  /\ sender'[s].transfer = sender[s].transfer
  /\ sender'[s].no = sender[s].no /\ sender'[s].count = sender[s].count
  /\ \/ toHost'[s] = toHost[s]
     \/ \E m \in Messages : m.type \in Leads /\ toHost'[s] = Append(toHost[s], m)
  /\ saved'[s] = saved[s]

\* sends its end,
Ends(s) ==
  /\ sender[s].at = "data" /\ sender[s] # Idle
  /\ sender'[s].at = "saved" /\ sender'[s] # Idle
  /\ sender'[s].transfer = sender[s].transfer
  /\ sender'[s].no = sender[s].no /\ sender'[s].count = sender[s].count
  /\ \E m \in Messages : m.type = "end" /\ m.of = Current(s) /\ toHost'[s] = Append(toHost[s], m)
  /\ saved'[s] = saved[s]

\* hears of something else, or
Hears(s) ==
  /\ sender'[s] = sender[s] /\ toHost'[s] = toHost[s] /\ saved'[s] = saved[s]
  /\ \A M : Has(toCaller'[s], M) \/ Has(fileAck'[s], M) => Has(toCaller[s], M) \/ Has(fileAck[s], M)

\* accepts the acknowledgement it waits for.
Accepts(s) ==
  /\ sender[s] # Idle /\ sender'[s] # Idle
  /\ sender'[s].transfer = sender[s].transfer /\ sender'[s].count = sender[s].count
  /\ sender'[s].at = "next"
  /\ \/ /\ sender[s].at = "batch_ready" /\ sender'[s].no = 0
        /\ Has(fileAck[s], AcksOf(sender[s].transfer))
     \/ /\ sender[s].at = "saved" /\ sender'[s].no = sender[s].no + 1
        /\ Has(fileAck[s], SavedAck(sender[s].transfer))
  /\ toHost'[s] = toHost[s] /\ saved'[s] = saved[s]

LEMMA CallerSteps ==
  ASSUME TypeInv, NEW s \in Session,
         \/ \E t \in Transfer : SendFiles(s, t)
         \/ CancelFiles(s) \/ Sender(s) \/ ReadFails(s) \/ Deliver(s)
  PROVE  /\ transfer'[s] = transfer[s]
         /\ Begins(s) \/ Stops(s) \/ Moves(s) \/ Ends(s) \/ Hears(s) \/ Accepts(s)
         /\ Stops(s) => AllSaved(s) \/ sender[s].at = "batch_ready" \/ sender[s].no < sender[s].count
<1>t. /\ sender[s].at # "idle" => sender[s] # Idle
      /\ DOMAIN sender = Session /\ DOMAIN toHost = Session /\ DOMAIN toCaller = Session
      /\ DOMAIN fileAck = Session /\ DOMAIN saved = Session
      /\ toHost[s] \in Seq(Messages) /\ toCaller[s] \in Seq(Acks) /\ fileAck[s] \in Seq(Acks)
  BY SenderFacts DEF TypeInv, NetTypes, CallerTypes, HostTypes
<1>i. \A at, t, n, no, sent, length : Sending(at, t, n, no, sent, length).at = at
                                      /\ (at # "idle" => Sending(at, t, n, no, sent, length) # Idle)
  BY DEF Sending, Idle
<1>b. ASSUME NEW at, NEW no, NEW sent, NEW length, at # "idle", Becomes(s, at, no, sent, length)
      PROVE  /\ sender'[s].at = at /\ sender'[s] # Idle /\ sender'[s].no = no
             /\ sender'[s].transfer = sender[s].transfer /\ sender'[s].count = sender[s].count
  BY <1>b, <1>i, <1>t DEF Becomes, Sending
<1>w. sender[s].at \in Waits \cup {"data"} => sender[s].at = "batch_ready" \/ sender[s].no < sender[s].count
  BY DEF Waits, TypeInv, CallerTypes
<1>f. ASSUME Fail(s), sender[s] # Idle, saved' = saved PROVE Stops(s)
  <2>1. [type |-> "cancel"] \in Messages
    BY DEF Messages
  <2>2. sender'[s] = Idle /\ (toHost'[s] = toHost[s] \/ toHost'[s] = Append(toHost[s], [type |-> "cancel"]))
    BY <1>f, <1>t DEF Fail, Send
  <2>3. QED
    BY <1>f, <2>1, <2>2 DEF Stops
<1>1. ASSUME NEW t \in Transfer, SendFiles(s, t) PROVE transfer'[s] = transfer[s] /\ Begins(s) /\ ~Stops(s)
  <2>1. PICK n \in 1..MaxFiles, total \in 0..(MaxFiles * MaxSize) :
          /\ sender' = [sender EXCEPT ![s] = Sending("batch_ready", t, n, 0, 0, 0)]
          /\ Send(s, [type |-> "batch", transfer |-> t, count |-> n, total |-> total])
    BY <1>1 DEF SendFiles
  <2> DEFINE m == [type |-> "batch", transfer |-> t, count |-> n, total |-> total]
  <2>2. m \in Messages /\ m.type = "batch" /\ m.transfer = t
    BY DEF Messages
  <2>3. toHost'[s] = Append(toHost[s], m)
    BY <1>1, <1>t, <2>1 DEF SendFiles, Send
  <2>4. sender'[s] = Sending("batch_ready", t, n, 0, 0, 0) /\ saved'[s] = {}
    BY <1>1, <1>t, <2>1 DEF SendFiles
  <2>5. sender[s] = Idle /\ ~Mentions(s, t) /\ UNCHANGED <<toCaller, fileAck, transfer>>
    BY <1>1 DEF SendFiles
  <2> HIDE DEF m
  <2>6. QED
    BY <2>2, <2>3, <2>4, <2>5 DEF Begins, Stops
<1>2. CASE CancelFiles(s)
  BY <1>2 DEF CancelFiles, netVars, hostVars, Hears, Stops, fileVars
<1>3. CASE SendBegin(s)
  <2>1. PICK size \in Size, length \in Size :
          /\ Send(s, [type |-> "begin", transfer |-> sender[s].transfer, no |-> sender[s].no + 1, size |-> size])
          /\ Becomes(s, "ready", sender[s].no, 0, length)
    BY <1>3 DEF SendBegin
  <2> DEFINE m == [type |-> "begin", transfer |-> sender[s].transfer, no |-> sender[s].no + 1, size |-> size]
  <2>2. sender[s].at = "next" /\ sender[s].no < sender[s].count /\ sender[s] # Idle
    BY <1>3, <1>t DEF SendBegin
  <2>3. m \in Messages /\ m.type \in Leads
    BY <2>2, SenderFacts DEF Messages, TypeInv, Leads
  <2>4. toHost'[s] = Append(toHost[s], m)
    BY <1>3, <1>t, <2>1 DEF SendBegin, Send
  <2>5. UNCHANGED <<transfer, saved>>
    BY <1>3 DEF SendBegin, hostVars
  <2> HIDE DEF m
  <2>6. QED
    BY <1>b, <2>1, <2>2, <2>3, <2>4, <2>5 DEF Moves, Stops
<1>4. CASE AllSaved(s)
  BY <1>4, <1>t DEF AllSaved, hostVars, fileVars, netVars, Stops
<1>5. CASE SendData(s)
  <2> DEFINE m == [type |-> "data", of |-> Current(s), i |-> sender[s].sent + 1]
  <2>1. sender[s].at = "data" /\ sender[s].sent < sender[s].length /\ sender[s] # Idle
    BY <1>5, <1>t DEF SendData
  <2>2. sender[s].sent \in Size /\ sender[s].length \in Size /\ sender[s].no < sender[s].count
    BY <2>1, SenderFacts DEF TypeInv, CallerTypes
  <2>3. sender[s].sent + 1 \in 1..MaxSize /\ Current(s) \in File
    BY <2>1, <2>2, SenderFacts DEF Size, Current, File, TypeInv
  <2>4. m \in Messages /\ m.type \in Leads
    BY <2>3 DEF Messages, Leads
  <2>5. toHost'[s] = Append(toHost[s], m) /\ Becomes(s, "data", sender[s].no, sender[s].sent + 1, sender[s].length)
    BY <1>5, <1>t DEF SendData, Send
  <2>6. UNCHANGED <<transfer, saved>>
    BY <1>5 DEF SendData, hostVars
  <2> HIDE DEF m
  <2>7. QED
    BY <1>b, <2>1, <2>4, <2>5, <2>6 DEF Moves, Stops
<1>6. CASE SendEnd(s)
  <2> DEFINE m == [type |-> "end", of |-> Current(s), length |-> sender[s].length]
  <2>1. sender[s].at = "data" /\ sender[s] # Idle /\ link[s] # "down"
    BY <1>6, <1>t DEF SendEnd
  <2>2. sender[s].length \in Size /\ sender[s].no < sender[s].count
    BY <2>1, SenderFacts DEF TypeInv, CallerTypes
  <2>3. Current(s) \in File
    BY <2>1, <2>2, SenderFacts DEF Current, File, TypeInv
  <2>4. m \in Messages /\ m.type = "end" /\ m.of = Current(s)
    BY <2>2, <2>3 DEF Messages
  <2>5. toHost'[s] = Append(toHost[s], m) /\ Becomes(s, "saved", sender[s].no, 0, 0)
    BY <1>6, <1>t, <2>1 DEF SendEnd, Send
  <2>6. UNCHANGED <<transfer, saved>>
    BY <1>6 DEF SendEnd, hostVars
  <2> HIDE DEF m
  <2>7. QED
    BY <1>b, <2>1, <2>4, <2>5, <2>6 DEF Ends, Stops
<1>7. CASE WaitAck(s)
  <2> DEFINE ack == Head(fileAck[s])
  <2>0. /\ sender[s].at \in Waits /\ sender[s] # Idle /\ fileAck[s] # <<>>
        /\ fileAck'[s] = Tail(fileAck[s]) /\ UNCHANGED <<toCaller, transfer, saved>>
    BY <1>7, <1>t DEF WaitAck, Waits, hostVars, fileVars
  <2>h. ack \in Acks /\ \A M : (Has(Tail(fileAck[s]), M) => Has(fileAck[s], M)) /\ (ack \in M => Has(fileAck[s], M))
    BY <1>t, <2>0, TailFacts, HasTail
  <2> HIDE DEF ack
  <2>1. CASE UNCHANGED <<sender, cancelled, toHost>>
    BY <2>0, <2>1, <2>h DEF Hears, Stops
  <2>2. CASE Fail(s)
    BY <1>f, <1>w, <2>0, <2>2
  <2>3. CASE sender[s].at = "ready" /\ Becomes(s, "data", sender[s].no, 0, sender[s].length) /\ UNCHANGED toHost
    BY <1>b, <2>0, <2>3 DEF Moves, Stops
  <2>4. CASE /\ sender[s].at = "batch_ready" /\ ack.transfer = sender[s].transfer
             /\ Becomes(s, "next", 0, 0, 0) /\ UNCHANGED toHost
    <3>1. ack \in AcksOf(sender[s].transfer)
      BY <2>4, <2>h DEF AcksOf
    <3>2. QED
      BY <1>b, <2>0, <2>4, <2>h, <3>1 DEF Accepts, Stops
  <2>5. CASE /\ ack.transfer = sender[s].transfer /\ ack.type = "saved" /\ sender[s].at = "saved"
             /\ Becomes(s, "next", sender[s].no + 1, 0, 0) /\ UNCHANGED toHost
    <3>1. ack \in SavedAck(sender[s].transfer)
      BY <2>5, <2>h DEF SavedAck
    <3>2. QED
      BY <1>b, <2>0, <2>5, <2>h, <3>1 DEF Accepts, Stops
  <2>6. QED
    BY <1>7, <2>1, <2>2, <2>3, <2>4, <2>5 DEF WaitAck, Waits, ack
<1>8. CASE TimesOut(s) \/ Interrupted(s) \/ SendFails(s) \/ ReadFails(s)
  <2>1. Fail(s) /\ UNCHANGED hostVars /\ sender[s] # Idle
    BY <1>8, <1>t DEF TimesOut, Interrupted, SendFails, ReadFails, FileFails, Waits
  <2>2. sender[s].at = "batch_ready" \/ sender[s].no < sender[s].count
    BY <1>8, <1>w DEF TimesOut, Interrupted, SendFails, ReadFails, FileFails
  <2>3. QED
    BY <1>f, <2>1, <2>2 DEF hostVars, fileVars
<1>9. CASE Deliver(s)
  <2> DEFINE ack == Head(toCaller[s])
  <2>1. /\ toCaller[s] # <<>> /\ toCaller'[s] = Tail(toCaller[s]) /\ ack \in Acks
        /\ fileAck'[s] = Append(fileAck[s], ack) \/ fileAck'[s] = fileAck[s]
        /\ UNCHANGED <<toHost, sender, transfer, saved>>
    BY <1>9, <1>t, TailFacts DEF Deliver, hostVars, fileVars
  <2>2. \A M : /\ Has(Tail(toCaller[s]), M) => Has(toCaller[s], M)
               /\ ack \in M => Has(toCaller[s], M)
               /\ Has(Append(fileAck[s], ack), M) <=> Has(fileAck[s], M) \/ ack \in M
    BY <1>t, <2>1, HasTail, HasAppend
  <2> HIDE DEF ack
  <2>3. QED
    BY <2>1, <2>2 DEF Hears, Stops
<1>10. QED
  BY <1>1, <1>2, <1>3, <1>4, <1>5, <1>6, <1>7, <1>8, <1>9 DEF Sender

\* What a step of the host does to a batch: it answers or not, for the transfer
\* it has come to, and
Answers(s) ==
  /\ sender'[s] = sender[s] /\ fileAck'[s] = fileAck[s]
  /\ \/ toCaller'[s] = toCaller[s] \/ toCaller'[s] = <<>>
     \/ \E a \in Acks : a.transfer = transfer'[s] /\ toCaller'[s] = Append(toCaller[s], a)

\* takes a message and leaves it at that,
Takes(s) ==
  /\ toHost[s] # <<>> /\ toHost'[s] = Tail(toHost[s]) /\ saved'[s] = saved[s]
  /\ \/ transfer'[s] = transfer[s]
     \/ Head(toHost[s]) \in Headers(transfer'[s])

\* takes the end of a file and saves that file,
Stores(s) ==
  /\ toHost[s] # <<>> /\ toHost'[s] = Tail(toHost[s]) /\ Head(toHost[s]) \in AllEnds
  /\ transfer'[s] = transfer[s]
  /\ \E g : g.of = Head(toHost[s]).of /\ saved'[s] = saved[s] \cup {g}

\* takes none, or
Rests(s) ==
  /\ toHost'[s] = toHost[s] \/ toHost'[s] = <<>>
  /\ transfer'[s] = transfer[s] /\ saved'[s] = saved[s]

\* is another session's.
Connects(s) ==
  /\ sender[s] = Idle /\ sender'[s] = Idle
  /\ toHost'[s] = toHost[s] /\ saved'[s] = saved[s]

LEMMA HostSteps ==
  ASSUME TypeInv, NEW s \in Session, Whole(s),
         \/ Receive(s) \/ TimePasses(s) \/ Timer(s)
         \/ CloseReceiver(s) \/ CloseChannel(s) \/ Connect(s) \/ Authorize(s)
  PROVE  (Answers(s) /\ (Takes(s) \/ Stores(s) \/ Rests(s))) \/ Connects(s)
<1> DEFINE m == Head(toHost[s])
<1>t. /\ DOMAIN toHost = Session /\ DOMAIN toCaller = Session /\ DOMAIN open = Session
      /\ DOMAIN transfer = Session /\ DOMAIN saved = Session
      /\ toHost[s] \in Seq(Messages) /\ toCaller[s] \in Seq(Acks) /\ open[s] \in OpenFiles
      /\ transfer[s] \in Transfer \cup {NoTransfer}
  BY DEF TypeInv, NetTypes, HostTypes
<1>1. ASSUME NEW type, Message(s, type)
      PROVE  /\ toHost[s] # <<>> /\ toHost'[s] = Tail(toHost[s])
             /\ m \in Messages /\ m.type = type
  BY <1>1, <1>t, MessageTypes DEF Message, TypeInv
<1>2. ASSUME NEW type, Message(s, type), type \in {"batch", "begin"}, transfer' = [transfer EXCEPT ![s] = m.transfer]
      PROVE  m \in Headers(transfer'[s]) /\ transfer'[s] \in Transfer
  BY <1>1, <1>2, <1>t, MessageFacts DEF Headers
<1>3. ASSUME NEW kind \in Waits \cup {"error", "cancelled"}, transfer'[s] \in Transfer \cup {NoTransfer},
             Reply(s, kind, transfer'[s]), UNCHANGED callerVars
      PROVE  Answers(s)
  <2> DEFINE a == [type |-> kind, transfer |-> transfer'[s]]
  <2>1. a \in Acks /\ a.transfer = transfer'[s]
    BY <1>3 DEF Acks
  <2>2. toCaller'[s] = toCaller[s] \/ toCaller'[s] = Append(toCaller[s], a)
    BY <1>3, <1>t DEF Reply
  <2> HIDE DEF a
  <2>3. QED
    BY <1>3, <2>1, <2>2 DEF Answers, callerVars
<1> HIDE DEF m
<1>4. CASE Unauthorized(s)
  <2>1. PICK type \in {"batch", "begin", "data", "end", "cancel"} :
          /\ Message(s, type)
          /\ transfer' = IF type \in {"batch", "begin"}
                            THEN [transfer EXCEPT ![s] = m.transfer] ELSE transfer
    BY <1>4 DEF Unauthorized, m
  <2>2. Reply(s, "error", transfer'[s]) /\ UNCHANGED <<callerVars, saved>>
    BY <1>4 DEF Unauthorized
  <2>3. transfer'[s] \in Transfer \cup {NoTransfer} /\ (transfer'[s] = transfer[s] \/ m \in Headers(transfer'[s]))
    BY <1>2, <1>t, <2>1
  <2>4. Takes(s)
    BY <1>1, <2>1, <2>2, <2>3 DEF Takes, m
  <2>5. Answers(s)
    BY <1>3, <2>2, <2>3
  <2>6. QED
    BY <2>4, <2>5
<1>5. CASE ReceiveBatch(s) \/ BeginRefused(s) \/ BeginFails(s) \/ BeginReady(s)
  <2>1. PICK type \in {"batch", "begin"} :
          Message(s, type) /\ transfer' = [transfer EXCEPT ![s] = m.transfer]
    BY <1>5 DEF ReceiveBatch, BeginRefused, BeginFails, BeginReady, Begin, m
  <2>2. PICK kind \in {"batch_ready", "ready", "error"} : Reply(s, kind, transfer'[s])
    BY <1>5 DEF ReceiveBatch, BeginRefused, BeginFails, BeginReady
  <2>3. UNCHANGED <<callerVars, saved>>
    BY <1>5 DEF ReceiveBatch, BeginRefused, BeginFails, BeginReady
  <2>4. m \in Headers(transfer'[s]) /\ transfer'[s] \in Transfer
    BY <1>2, <2>1
  <2>5. Takes(s)
    BY <1>1, <2>1, <2>3, <2>4 DEF Takes, m
  <2>6. kind \in Waits \cup {"error", "cancelled"}
    BY DEF Waits
  <2>7. Answers(s)
    BY <1>3, <2>2, <2>3, <2>4, <2>6
  <2>8. QED
    BY <2>5, <2>7
<1>6. CASE DataRefused(s) \/ EndRefused(s) \/ Cancel(s)
  <2>1. /\ \E type : Message(s, type)
        /\ UNCHANGED <<transfer, callerVars, saved>>
    BY <1>6 DEF DataRefused, EndRefused, Cancel
  <2>2. PICK kind \in {"error", "cancelled"} : Reply(s, kind, transfer[s])
    BY <1>6 DEF DataRefused, EndRefused, Cancel
  <2>3. Takes(s)
    BY <1>1, <2>1 DEF Takes
  <2>4. Answers(s)
    BY <1>3, <1>t, <2>1, <2>2
  <2>5. QED
    BY <2>3, <2>4
<1>7. CASE Data(s)
  BY <1>1, <1>7 DEF Data, Takes, Answers, callerVars
<1>8. CASE End(s)
  <2> DEFINE f == open[s]
             g == [of |-> f.file,
                   whole |-> f.good /\ m.of = f.file /\ f.got = m.length /\ m.length = f.size]
  <2>1. /\ Message(s, "end") /\ f # NoFile /\ saved'[s] = saved[s] \cup {g}
        /\ Reply(s, "saved", transfer[s]) /\ UNCHANGED <<callerVars, transfer>>
    BY <1>8, <1>t DEF End, Complete, m
  <2>2. m.type = "end" /\ m \in Messages /\ toHost[s] # <<>> /\ toHost'[s] = Tail(toHost[s])
    BY <1>1, <2>1
  <2>3. g.of = m.of
    BY <2>1, <2>2 DEF Whole, Arrives, Parts, Written, Needs, m
  <2>4. m \in AllEnds
    BY <2>2 DEF AllEnds
  <2> HIDE DEF g
  <2>5. Stores(s)
    BY <2>1, <2>2, <2>3, <2>4 DEF Stores, m
  <2>6. "saved" \in Waits
    BY DEF Waits
  <2>7. Answers(s)
    BY <1>3, <1>t, <2>1, <2>6
  <2>8. QED
    BY <2>5, <2>7
<1>9. CASE TimePasses(s) \/ Expire(s) \/ Authorize(s)
  BY <1>9 DEF TimePasses, Expire, Authorize, netVars, callerVars, hostVars, fileVars, Rests, Answers
<1>10. CASE CloseReceiver(s)
  BY <1>10 DEF CloseReceiver, callerVars, Rests, Answers
<1>11. CASE CloseChannel(s)
  BY <1>11, <1>t DEF CloseChannel, callerVars, hostVars, Rests, Answers
<1>12. CASE Callback(s)
  <2>1. /\ UNCHANGED <<toHost, callerVars, transfer, saved>>
        /\ toCaller' = toCaller \/ Reply(s, "error", transfer[s])
    BY <1>12 DEF Callback
  <2>2. Rests(s)
    BY <2>1 DEF Rests
  <2>3. Answers(s)
    BY <1>3, <1>t, <2>1 DEF Answers, callerVars
  <2>4. QED
    BY <2>2, <2>3
<1>13. CASE Connect(s)
  BY <1>13 DEF Connect, Connects
<1>14. QED
  BY <1>4, <1>5, <1>6, <1>7, <1>8, <1>9, <1>10, <1>11, <1>12, <1>13 DEF Receive, Timer

LEMMA EndFacts ==
  ASSUME NEW t
  PROVE  /\ \A m \in Messages : m.type = "end" <=> m \in AllEnds
         /\ \A m : m \in AllEnds <=> m \in EndsOf(t) \/ m \in PastEnds(t)
         /\ \A m : m \in EndsOf(t) => m.of[1] = t
         /\ \A m : m \in PastEnds(t) => m.of[1] # t
         /\ \A m \in Messages : m.type # "end" => m \notin EndsOf(t) /\ m \notin PastEnds(t)
  BY DEF AllEnds, PastEnds, EndsOf

LEMMA HasParts ==
  ASSUME NEW q, NEW t
  PROVE  Has(q, AllEnds) <=> Has(q, EndsOf(t)) \/ Has(q, PastEnds(t))
  BY EndFacts DEF Has

LEMMA AheadFacts ==
  ASSUME NEW S, NEW q \in Seq(S), NEW M, NEW N
  PROVE  /\ ~Has(q, N) => Ahead(q, M, N)
         /\ \A m \in S : m \notin M /\ Ahead(q, M, N) => Ahead(Append(q, m), M, N)
         /\ q # <<>> /\ Ahead(q, M, N) => Ahead(Tail(q), M, N)
         /\ q # <<>> /\ Head(q) \in N /\ Ahead(q, M, N) => ~Has(q, M)
<1> DEFINE n == Len(q)
<1>1. ~Has(q, N) => Ahead(q, M, N)
  BY DEF Has, Ahead
<1>2. ASSUME NEW m \in S, m \notin M, Ahead(q, M, N) PROVE Ahead(Append(q, m), M, N)
  <2> DEFINE r == Append(q, m)
             k == Len(r)
  <2>1. n \in Nat /\ k = n + 1 /\ (\A i \in 1..n : r[i] = q[i]) /\ r[n + 1] = m
    BY AppendFacts
  <2> HIDE DEF r, n, k
  <2>2. \A i \in 1..k : i \in 1..n \/ i = n + 1
    BY <2>1
  <2>3. \A i \in 1..n : i < n + 1
    BY <2>1
  <2>4. QED
    BY <1>2, <2>1, <2>2, <2>3 DEF Ahead, r, n, k
<1>3. ASSUME q # <<>>, Ahead(q, M, N) PROVE Ahead(Tail(q), M, N)
  <2> DEFINE r == Tail(q)
             k == Len(r)
  <2>1. n \in Nat \ {0} /\ k = n - 1 /\ \A i \in 1..(n - 1) : r[i] = q[i + 1]
    BY <1>3, TailFacts
  <2> HIDE DEF r, n, k
  <2>2. \A i \in 1..k : i + 1 \in 1..n /\ r[i] = q[i + 1]
    BY <2>1
  <2>3. \A i \in 1..k : \A j \in 1..k : i + 1 < j + 1 => i < j
    BY <2>1
  <2>4. QED
    BY <1>3, <2>2, <2>3 DEF Ahead, r, n, k
<1>4. ASSUME q # <<>>, Head(q) \in N, Ahead(q, M, N) PROVE ~Has(q, M)
  <2>1. n \in Nat \ {0} /\ Head(q) = q[1]
    BY <1>4, TailFacts
  <2> HIDE DEF n
  <2>2. 1 \in 1..n /\ \A i \in 1..n : ~(i < 1)
    BY <2>1
  <2>3. QED
    BY <1>4, <2>1, <2>2 DEF Ahead, Has, n
<1>5. QED
  BY <1>1, <1>2, <1>3, <1>4

\* What Past asks of the next state, for the transfer t the sender has then
LEMMA PastNext ==
  ASSUME NEW s \in Session, NEW t, sender'[s].transfer = t,
         Has(toHost'[s], PastEnds(t)) =>
           /\ sender'[s].at = "batch_ready" /\ transfer'[s] # t
           /\ ~Has(toCaller'[s], AcksOf(t)) /\ ~Has(fileAck'[s], AcksOf(t))
           /\ Ahead(toHost'[s], PastEnds(t), Headers(t))
  PROVE  Past(s)'
<1> DEFINE M == PastEnds(t)
           A == AcksOf(t)
           N == Headers(t)
           M2 == PastEnds(sender[s].transfer)'
           A2 == AcksOf(sender[s].transfer)'
           N2 == Headers(sender[s].transfer)'
<1>1. M2 = M /\ A2 = A /\ N2 = N
  BY DEF PastEnds, AllEnds, AcksOf, Headers, Messages, Acks, File, Size, Waits
<1> HIDE DEF M, A, N, M2, A2, N2
<1>2. Has(toHost'[s], M2) =>
           /\ sender'[s].at = "batch_ready" /\ transfer'[s] # sender'[s].transfer
           /\ ~Has(toCaller'[s], A2) /\ ~Has(fileAck'[s], A2)
           /\ Ahead(toHost'[s], M2, N2)
  BY <1>1 DEF M, A, N
<1>3. QED
  BY <1>2 DEF Past, M2, A2, N2, Has, Ahead

\* The steps after which the sender has the transfer it had
LEMMA PastKeeps ==
  ASSUME NEW s \in Session, Past(s), sender'[s].transfer = sender[s].transfer,
         Has(toHost'[s], PastEnds(sender[s].transfer)) =>
           /\ Has(toHost[s], PastEnds(sender[s].transfer))
           /\ sender[s].at = "batch_ready" => sender'[s].at = "batch_ready"
           /\ transfer'[s] # sender[s].transfer
           /\ ~Has(toCaller'[s], AcksOf(sender[s].transfer)) /\ ~Has(fileAck'[s], AcksOf(sender[s].transfer))
           /\ Ahead(toHost'[s], PastEnds(sender[s].transfer), Headers(sender[s].transfer))
  PROVE  Past(s)'
<1> DEFINE t == sender[s].transfer
<1>1. Has(toHost[s], PastEnds(t)) => sender[s].at = "batch_ready"
  BY DEF Past
<1> HIDE DEF t
<1>2. sender'[s].transfer = t
  BY DEF t
<1>3. Has(toHost'[s], PastEnds(t)) =>
           /\ sender'[s].at = "batch_ready" /\ transfer'[s] # t
           /\ ~Has(toCaller'[s], AcksOf(t)) /\ ~Has(fileAck'[s], AcksOf(t))
           /\ Ahead(toHost'[s], PastEnds(t), Headers(t))
  BY <1>1 DEF t
<1>4. QED
  BY <1>2, <1>3, PastNext

LEMMA InTurnNext ==
  ASSUME NEW s \in Session, AtMostOne(toHost'[s], AllEnds), sender'[s] # Idle => Past(s)',
         sender'[s].at = "batch_ready" => sender'[s].no = 0
  PROVE  InTurn(s)'
<1> DEFINE M == AllEnds
           M2 == AllEnds'
<1>1. M2 = M /\ Idle' = Idle
  BY DEF AllEnds, Messages, File, Size, Idle
<1> HIDE DEF M, M2
<1>2. AtMostOne(toHost'[s], M2)
  BY <1>1 DEF M
<1>3. QED
  BY <1>1, <1>2 DEF InTurn, M2, AtMostOne

LEMMA CallerInTurn ==
  ASSUME TypeInv, NEW s \in Session, Told(s), InTurn(s), transfer'[s] = transfer[s],
         Begins(s) \/ Stops(s) \/ Moves(s) \/ Ends(s) \/ Hears(s) \/ Accepts(s)
  PROVE  InTurn(s)'
<1> DEFINE t == sender[s].transfer
           q == toHost[s]
<1>t. q \in Seq(Messages) /\ Idle' = Idle /\ Idle.at = "idle" /\ AtMostOne(q, AllEnds)
  BY DEF TypeInv, NetTypes, Idle, InTurn
<1>p. ASSUME NEW m \in Messages, m.type # "end"
      PROVE  AtMostOne(Append(q, m), AllEnds) /\ \A x : Has(Append(q, m), PastEnds(x)) <=> Has(q, PastEnds(x))
  <2>1. m \notin AllEnds /\ \A x : m \notin PastEnds(x)
    BY <1>p DEF AllEnds, PastEnds
  <2>2. QED
    BY <1>t, <2>1, HasAppend
<1>n. ASSUME sender[s] # Idle, sender[s].at # "batch_ready" PROVE ~Has(q, PastEnds(t))
  BY <1>n DEF InTurn, Past
<1> HIDE DEF q, t
<1>1. CASE Begins(s)
  <2>1. PICK x \in Transfer, n \in 1..MaxFiles, m \in Messages :
          /\ ~Mentions(s, x) /\ sender'[s] = Sending("batch_ready", x, n, 0, 0, 0)
          /\ m.type = "batch" /\ toHost'[s] = Append(q, m)
    BY <1>1 DEF Begins, q
  <2>2. sender'[s].transfer = x /\ sender'[s].at = "batch_ready" /\ sender'[s].no = 0
    BY <2>1 DEF Sending
  <2>3. toCaller'[s] = toCaller[s] /\ fileAck'[s] = fileAck[s]
    BY <1>1 DEF Begins
  <2>4. transfer[s] # x /\ ~Has(toCaller[s], AcksOf(x)) /\ ~Has(fileAck[s], AcksOf(x)) /\ ~Has(q, Headers(x))
    <3>1. toCaller[s] \in Seq(Acks) /\ fileAck[s] \in Seq(Acks)
      BY DEF TypeInv, NetTypes, CallerTypes
    <3>2. /\ transfer[s] # x
          /\ \A i \in DOMAIN q : ~(q[i].type \in {"batch", "begin"} /\ q[i].transfer = x)
          /\ \A i \in DOMAIN toCaller[s] : toCaller[s][i].transfer # x
          /\ \A i \in DOMAIN fileAck[s] : fileAck[s][i].transfer # x
      BY <2>1 DEF Mentions, q
    <3>3. DOMAIN q = 1..Len(q) /\ DOMAIN toCaller[s] = 1..Len(toCaller[s]) /\ DOMAIN fileAck[s] = 1..Len(fileAck[s])
      BY <1>t, <3>1
    <3>4. QED
      BY <3>2, <3>3 DEF Has, AcksOf, Headers
  <2>5. Ahead(Append(q, m), PastEnds(x), Headers(x))
    <3>1. m \notin PastEnds(x)
      BY <2>1 DEF PastEnds, AllEnds
    <3>2. QED
      BY <1>t, <2>4, <3>1, AheadFacts
  <2>6. Past(s)'
    BY <2>1, <2>2, <2>3, <2>4, <2>5, PastNext
  <2>7. QED
    BY <1>p, <2>1, <2>2, <2>6, InTurnNext
<1>2. CASE Stops(s)
  <2>1. AtMostOne(toHost'[s], AllEnds) /\ sender'[s] = Idle
    BY <1>2, <1>p, <1>t DEF Stops, q
  <2>2. QED
    BY <1>t, <2>1, InTurnNext
<1>3. CASE Moves(s)
  <2>1. /\ sender[s] # Idle /\ sender[s].at # "batch_ready" /\ sender'[s].at # "batch_ready"
        /\ sender'[s].transfer = t
        /\ toHost'[s] = q \/ \E m \in Messages : m.type # "end" /\ toHost'[s] = Append(q, m)
    BY <1>3 DEF Moves, Leads, q, t
  <2>2. AtMostOne(toHost'[s], AllEnds) /\ ~Has(toHost'[s], PastEnds(t))
    BY <1>n, <1>p, <1>t, <2>1
  <2>3. QED
    BY <2>1, <2>2, PastNext, InTurnNext
<1>4. CASE Ends(s)
  <2>1. PICK m \in Messages : m.type = "end" /\ m.of = Current(s) /\ toHost'[s] = Append(q, m)
    BY <1>4 DEF Ends, q
  <2>2. /\ sender[s] # Idle /\ sender[s].at = "data" /\ sender'[s].at = "saved" /\ sender'[s].transfer = t
    BY <1>4 DEF Ends, t
  <2>3. m \in AllEnds /\ m \notin PastEnds(t)
    BY <2>1 DEF AllEnds, PastEnds, Current, t
  <2>4. ~Has(q, EndsOf(t)) /\ ~Has(q, PastEnds(t))
    BY <1>n, <2>2, NoneUnderWay DEF Told, q, t
  <2>5. ~Has(q, AllEnds)
    BY <2>4, HasParts
  <2>6. AtMostOne(toHost'[s], AllEnds) /\ ~Has(toHost'[s], PastEnds(t))
    BY <1>t, <2>1, <2>3, <2>4, <2>5, HasAppend
  <2>7. QED
    BY <2>2, <2>6, PastNext, InTurnNext
<1>5. CASE Hears(s)
  <2>1. sender'[s] = sender[s] /\ toHost'[s] = q
    BY <1>5 DEF Hears, q
  <2>2. ~Has(toCaller[s], AcksOf(t)) /\ ~Has(fileAck[s], AcksOf(t)) => ~Has(toCaller'[s], AcksOf(t)) /\ ~Has(fileAck'[s], AcksOf(t))
    BY <1>5 DEF Hears
  <2>3. sender[s] # Idle => Past(s)'
    <3>1. ASSUME sender[s] # Idle PROVE Past(s)
      BY <3>1 DEF InTurn
    <3>2. QED
      BY <2>1, <2>2, <3>1, PastKeeps DEF Past, q, t
  <2>4. sender'[s].at = "batch_ready" => sender'[s].no = 0
    BY <2>1 DEF InTurn
  <2>5. QED
    BY <1>t, <2>1, <2>3, <2>4, InTurnNext
<1>6. CASE Accepts(s)
  <2>1. sender[s] # Idle /\ sender'[s].transfer = t /\ sender'[s].at = "next" /\ toHost'[s] = q
    BY <1>6 DEF Accepts, q, t
  <2>2. sender[s].at = "batch_ready" => Has(fileAck[s], AcksOf(t))
    BY <1>6 DEF Accepts, t
  <2>3. ~Has(q, PastEnds(t))
    BY <2>1, <2>2 DEF InTurn, Past, q, t
  <2>4. QED
    BY <1>t, <2>1, <2>3, PastNext, InTurnNext
<1>7. QED
  BY <1>1, <1>2, <1>3, <1>4, <1>5, <1>6

\* What the host takes from the channel, and what it answers while the header of
\* the sender's transfer is behind the end of another
LEMMA HostInTurn ==
  ASSUME TypeInv, NEW s \in Session, InTurn(s),
         (Answers(s) /\ (Takes(s) \/ Stores(s) \/ Rests(s))) \/ Connects(s)
  PROVE  InTurn(s)'
<1> DEFINE t == sender[s].transfer
           q == toHost[s]
           P == PastEnds(t)
           A == AcksOf(t)
<1>t. /\ q \in Seq(Messages) /\ toCaller[s] \in Seq(Acks)
      /\ Idle' = Idle /\ AtMostOne(q, AllEnds) /\ AtMostOne(<<>>, AllEnds)
      /\ \A M : ~Has(<<>>, M)
  BY HasEmpty DEF TypeInv, NetTypes, Idle, InTurn
<1> HIDE DEF q, t, P, A
<1>1. CASE Connects(s)
  <2>1. sender[s] = Idle /\ sender'[s] = Idle /\ toHost'[s] = q
    BY <1>1 DEF Connects, q
  <2>2. sender'[s].at # "batch_ready"
    BY <2>1 DEF Idle
  <2>3. QED
    BY <1>t, <2>1, <2>2, InTurnNext
<1>2. ASSUME Answers(s), sender[s] # Idle, Past(s),
             Has(toHost'[s], P) => /\ Has(q, P) /\ transfer'[s] # t
                                   /\ Ahead(q, P, Headers(t)) => Ahead(toHost'[s], P, Headers(t))
      PROVE  Past(s)'
  <2>1. sender'[s] = sender[s] /\ fileAck'[s] = fileAck[s]
    BY <1>2 DEF Answers
  <2>2. ASSUME Has(toHost'[s], P) PROVE ~Has(toCaller'[s], A)
    <3>1. transfer'[s] # t /\ ~Has(toCaller[s], A)
      BY <1>2, <2>2 DEF Past, q, t, P, A
    <3>2. \A a \in Acks : a.transfer = transfer'[s] => a \notin A
      BY <3>1 DEF A, AcksOf
    <3>3. ~Has(<<>>, A) /\ \A a \in Acks : a \notin A => ~Has(Append(toCaller[s], a), A)
      BY <1>t, <3>1, HasAppend, HasEmpty
    <3>4. QED
      BY <1>2, <3>1, <3>2, <3>3 DEF Answers
  <2>3. Has(q, P) => ~Has(fileAck[s], A) /\ Ahead(q, P, Headers(t))
    BY <1>2 DEF Past, q, t, P, A
  <2>4. QED
    BY <1>2, <2>1, <2>2, <2>3, PastKeeps DEF q, t, P, A
<1>3. ASSUME Answers(s), AtMostOne(toHost'[s], AllEnds),
             sender[s] # Idle /\ Past(s) => Past(s)'
      PROVE  InTurn(s)'
  <2>1. sender'[s] = sender[s]
    BY <1>3 DEF Answers
  <2>2. (sender[s].at = "batch_ready" => sender[s].no = 0) /\ (sender[s] # Idle => Past(s))
    BY DEF InTurn
  <2>3. QED
    BY <1>3, <1>t, <2>1, <2>2, InTurnNext
<1>4. CASE Answers(s) /\ Takes(s)
  <2>1. q # <<>> /\ toHost'[s] = Tail(q)
    BY <1>4 DEF Takes, q
  <2>2. ASSUME Past(s), Has(toHost'[s], P)
        PROVE  /\ Has(q, P) /\ transfer'[s] # t
               /\ Ahead(q, P, Headers(t)) => Ahead(toHost'[s], P, Headers(t))
    <3>1. Has(q, P) /\ (Ahead(q, P, Headers(t)) => Ahead(toHost'[s], P, Headers(t)))
      BY <1>t, <2>1, <2>2, HasTail, AheadFacts
    <3>2. transfer[s] # t /\ Ahead(q, P, Headers(t))
      BY <2>2, <3>1 DEF Past, q, t, P
    <3>3. Head(q) \notin Headers(t)
      BY <1>t, <2>1, <3>1, <3>2, AheadFacts
    <3>4. transfer'[s] # t
      BY <1>4, <3>2, <3>3 DEF Takes, q
    <3>5. QED
      BY <3>1, <3>4
  <2>3. sender[s] # Idle /\ Past(s) => Past(s)'
    BY <1>2, <1>4, <2>2
  <2>4. AtMostOne(toHost'[s], AllEnds)
    BY <1>t, <2>1, HasTail
  <2>5. QED
    BY <1>3, <1>4, <2>3, <2>4
<1>5. CASE Answers(s) /\ Stores(s)
  <2>1. q # <<>> /\ toHost'[s] = Tail(q) /\ Head(q) \in AllEnds
    BY <1>5 DEF Stores, q
  <2>2. ~Has(toHost'[s], AllEnds) /\ AtMostOne(toHost'[s], AllEnds)
    BY <1>t, <2>1, HasTail
  <2>3. ~Has(toHost'[s], P)
    BY <2>2, HasParts DEF P
  <2>4. QED
    BY <1>2, <1>3, <1>5, <2>2, <2>3
<1>6. CASE Answers(s) /\ Rests(s)
  <2>1. (toHost'[s] = q \/ toHost'[s] = <<>>) /\ transfer'[s] = transfer[s]
    BY <1>6 DEF Rests, q
  <2>2. AtMostOne(toHost'[s], AllEnds) /\ (Has(toHost'[s], P) => toHost'[s] = q)
    BY <1>t, <2>1
  <2>3. Past(s) /\ Has(q, P) => transfer[s] # t
    BY DEF Past, q, t, P
  <2>4. sender[s] # Idle /\ Past(s) => Past(s)'
    BY <1>2, <1>6, <2>1, <2>2, <2>3
  <2>5. QED
    BY <1>3, <1>6, <2>2, <2>4
<1>7. QED
  BY <1>1, <1>4, <1>5, <1>6

\* A queue that is emptied, or of which messages are taken, has what it had.
LEMMA OnceKeeps ==
  ASSUME TypeInv, NEW s \in Session, Once(s), Fewer(toHost'[s], toHost[s], AllEnds), saved'[s] = saved[s],
         sender'[s] # Idle =>
           /\ sender[s] # Idle
           /\ sender'[s].transfer = sender[s].transfer
           /\ \/ sender'[s].no = sender[s].no /\ (sender[s].at = "saved" => sender'[s].at = "saved")
              \/ sender'[s].no = sender[s].no + 1
  PROVE  Once(s)'
<1> DEFINE M == AllEnds
           M2 == AllEnds'
<1>1. M2 = M /\ Idle' = Idle
  BY DEF AllEnds, Messages, File, Size, Idle
<1>2. ASSUME NEW i \in 1..Len(toHost'[s]), toHost'[s][i] \in M
      PROVE  \A g \in saved'[s] : g.of # toHost'[s][i].of
  <2>1. PICK j \in 1..Len(toHost[s]) : toHost'[s][i] = toHost[s][j]
    BY <1>2 DEF Fewer
  <2>2. ~SavedFile(s, toHost[s][j].of)
    BY <1>2, <2>1 DEF Once
  <2>3. QED
    BY <2>1, <2>2 DEF SavedFile
<1> HIDE DEF M, M2
<1>3. ASSUME sender'[s] # Idle, NEW f \in saved'[s], f.of[1] = sender'[s].transfer
      PROVE  f.of[2] <= sender'[s].no \/ (sender'[s].at = "saved" /\ f.of[2] = sender'[s].no + 1)
  <2> DEFINE k == f.of[2]
             n == sender[s].no
             n2 == sender'[s].no
  <2>1. k <= n \/ (sender[s].at = "saved" /\ k = n + 1)
    BY <1>3 DEF Once
  <2>2. k \in Nat /\ n \in Nat
    <3>1. f \in saved[s] /\ sender[s] # Idle
      BY <1>3
    <3>2. f.of \in File
      BY <3>1 DEF TypeInv, HostTypes
    <3>3. QED
      BY <3>1, <3>2, SenderFacts DEF TypeInv, File
  <2>3. (n2 = n /\ (sender[s].at = "saved" => sender'[s].at = "saved")) \/ n2 = n + 1
    BY <1>3
  <2> HIDE DEF k, n, n2
  <2>4. k <= n2 \/ (sender'[s].at = "saved" /\ k = n2 + 1)
    BY <2>1, <2>2, <2>3
  <2>5. QED
    BY <2>4 DEF k, n2
<1>4. QED
  BY <1>1, <1>2, <1>3 DEF Once, M2, SavedFile

LEMMA OnceNext ==
  ASSUME TypeInv, NEW s \in Session, Told(s), InTurn(s), Once(s),
         \/ Begins(s) \/ Stops(s) \/ Moves(s) \/ Ends(s) \/ Hears(s) \/ Accepts(s)
         \/ (Answers(s) /\ (Takes(s) \/ Stores(s) \/ Rests(s))) \/ Connects(s)
  PROVE  Once(s)'
<1> DEFINE q == toHost[s]
<1>t. q \in Seq(Messages) /\ Idle' = Idle /\ AtMostOne(q, AllEnds)
  BY DEF TypeInv, NetTypes, Idle, InTurn
<1>f. /\ Fewer(q, q, AllEnds) /\ Fewer(<<>>, q, AllEnds) /\ (q # <<>> => Fewer(Tail(q), q, AllEnds))
      /\ \A m \in Messages : m.type # "end" => Fewer(Append(q, m), q, AllEnds)
  <2>1. \A m \in Messages : m.type # "end" => m \notin AllEnds
    BY DEF AllEnds
  <2>2. QED
    BY <1>t, <2>1, FewerFacts
<1> HIDE DEF q
<1>1. CASE Begins(s)
  BY <1>1 DEF Begins, Once, SavedFile
<1>2. CASE Stops(s)
  <2>1. \/ toHost'[s] = q
        \/ \E m \in Messages : m.type # "end" /\ toHost'[s] = Append(q, m)
    BY <1>2 DEF Stops, q
  <2>2. Fewer(toHost'[s], q, AllEnds)
    BY <1>f, <2>1
  <2>3. sender'[s] = Idle /\ saved'[s] = saved[s]
    BY <1>2 DEF Stops
  <2>4. QED
    BY <2>2, <2>3, OnceKeeps DEF q
<1>3. CASE Moves(s)
  <2>1. \/ toHost'[s] = q
        \/ \E m \in Messages : m.type # "end" /\ toHost'[s] = Append(q, m)
    BY <1>3 DEF Moves, Leads, q
  <2>2. Fewer(toHost'[s], q, AllEnds)
    BY <1>f, <2>1
  <2>3. QED
    BY <1>3, <2>2, OnceKeeps DEF Moves, q
<1>4. CASE Ends(s)
  <2>1. PICK m \in Messages : m.type = "end" /\ m.of = Current(s) /\ toHost'[s] = Append(q, m)
    BY <1>4 DEF Ends, q
  <2>2. /\ sender[s] # Idle /\ sender[s].at = "data" /\ sender'[s].at = "saved" /\ saved'[s] = saved[s]
        /\ sender'[s].transfer = sender[s].transfer /\ sender'[s].no = sender[s].no
    BY <1>4 DEF Ends
  <2>3. ~SavedFile(s, Current(s))
    <3>1. sender[s].no \in Nat
      BY <2>2, SenderFacts DEF TypeInv
    <3> DEFINE n == sender[s].no
               c == Current(s)
    <3>2. c[1] = sender[s].transfer /\ c[2] = n + 1
      BY DEF Current
    <3>3. \A f \in saved[s] : f.of[1] = sender[s].transfer => f.of[2] <= n
      BY <2>2 DEF Once
    <3> HIDE DEF n, c
    <3>4. ~(c[2] <= n)
      BY <3>1, <3>2 DEF n
    <3>5. QED
      BY <3>2, <3>3, <3>4 DEF SavedFile, c
  <2>4. ASSUME NEW i \in 1..Len(toHost'[s]), toHost'[s][i] \in AllEnds
        PROVE  \A g \in saved[s] : g.of # toHost'[s][i].of
    <3>1. \/ i \in 1..Len(q) /\ toHost'[s][i] = q[i]
          \/ toHost'[s][i] = m
      BY <1>t, <2>1, AppendFacts
    <3>2. CASE i \in 1..Len(q) /\ toHost'[s][i] = q[i]
      BY <2>4, <3>2 DEF Once, SavedFile, q
    <3>3. CASE toHost'[s][i] = m
      BY <2>1, <2>3, <3>3 DEF SavedFile
    <3>4. QED
      BY <3>1, <3>2, <3>3
  <2>5. AllEnds' = AllEnds
    BY DEF AllEnds, Messages, File, Size
  <2>6. \A f \in saved[s] : f.of[1] = sender[s].transfer => f.of[2] <= sender[s].no
    BY <2>2 DEF Once
  <2>7. QED
    BY <2>2, <2>4, <2>5, <2>6 DEF Once, SavedFile
<1>5. CASE Hears(s)
  BY <1>5, <1>f, OnceKeeps DEF Hears, q
<1>6. CASE Accepts(s)
  <2>1. \/ sender'[s].no = sender[s].no /\ sender[s].at # "saved"
        \/ sender'[s].no = sender[s].no + 1
    BY <1>6 DEF Accepts, InTurn
  <2>2. QED
    BY <1>6, <1>f, <2>1, OnceKeeps DEF Accepts, q
<1>7. CASE Answers(s) /\ (Takes(s) \/ Rests(s))
  <2>1. Fewer(toHost'[s], q, AllEnds)
    BY <1>7, <1>f DEF Takes, Rests, q
  <2>2. QED
    BY <1>7, <1>t, <2>1, OnceKeeps DEF Answers, Takes, Rests, q
<1>8. CASE Answers(s) /\ Stores(s)
  <2> DEFINE m == Head(q)
             t == sender[s].transfer
  <2>1. q # <<>> /\ toHost'[s] = Tail(q) /\ m \in AllEnds /\ sender'[s] = sender[s]
    BY <1>8 DEF Answers, Stores, q
  <2>2. PICK g : g.of = m.of /\ saved'[s] = saved[s] \cup {g}
    BY <1>8 DEF Stores, q
  <2>3. ~Has(toHost'[s], AllEnds) /\ AllEnds' = AllEnds
    <3>1. AllEnds' = AllEnds
      BY DEF AllEnds, Messages, File, Size
    <3>2. QED
      BY <1>t, <2>1, <3>1, HasTail
  <2>4. ASSUME sender[s] # Idle, g.of[1] = t PROVE sender[s].at = "saved" /\ g.of[2] = sender[s].no + 1
    <3>1. m \in EndsOf(t)
      BY <2>1, <2>2, <2>4 DEF AllEnds, EndsOf
    <3>2. m = q[1] /\ 1 \in 1..Len(q)
      BY <1>t, <2>1, TailFacts
    <3> HIDE DEF m
    <3>3. Has(q, EndsOf(t))
      BY <3>1, <3>2 DEF Has
    <3>4. sender[s].at = "saved" /\ m.of = Current(s)
      BY <2>4, <3>1, <3>2, <3>3 DEF Told, Awaited, q
    <3>5. QED
      BY <2>2, <3>4 DEF Current, m
  <2>5. \A i \in 1..Len(toHost'[s]) : toHost'[s][i] \notin AllEnds
    BY <2>3 DEF Has
  <2>6. sender[s] # Idle => \A f \in saved[s] : f.of[1] = t =>
           f.of[2] <= sender[s].no \/ (sender[s].at = "saved" /\ f.of[2] = sender[s].no + 1)
    BY DEF Once
  <2> HIDE DEF m
  <2>7. QED
    BY <1>t, <2>1, <2>2, <2>3, <2>4, <2>5, <2>6 DEF Once
<1>9. CASE Connects(s)
  BY <1>9, <1>f, <1>t, OnceKeeps DEF Connects, q
<1>10. QED
  BY <1>1, <1>2, <1>3, <1>4, <1>5, <1>6, <1>7, <1>8, <1>9

LEMMA BatchNext == TypeInv /\ WholeInv /\ ToldInv /\ BatchInv /\ [Next]_vars => BatchInv'
<1> SUFFICES ASSUME TypeInv, WholeInv, ToldInv, BatchInv, [Next]_vars, NEW x \in Session
             PROVE  InTurn(x)' /\ Once(x)'
  BY DEF BatchInv
<1>1. Whole(x) /\ Told(x) /\ InTurn(x) /\ Once(x)
  BY DEF WholeInv, ToldInv, BatchInv
<1>2. ASSUME Hears(x), transfer'[x] = transfer[x] PROVE InTurn(x)' /\ Once(x)'
  BY <1>1, <1>2, CallerInTurn, OnceNext
<1>3. CASE UNCHANGED vars
  BY <1>2, <1>3 DEF vars, netVars, callerVars, hostVars, Hears
<1>4. ASSUME NEW s \in Session,
             \/ \E t \in Transfer : SendFiles(s, t)
             \/ CancelFiles(s) \/ Sender(s) \/ ReadFails(s) \/ Deliver(s)
      PROVE  InTurn(x)' /\ Once(x)'
  <2>1. CASE x = s
    BY <1>1, <1>4, <2>1, CallerSteps, CallerInTurn, OnceNext
  <2>2. CASE x # s
    BY <1>2, <1>4, <2>2, CallerApart DEF Apart, Hears
  <2>3. QED
    BY <2>1, <2>2
<1>5. ASSUME NEW s \in Session,
             \/ Receive(s) \/ TimePasses(s) \/ Timer(s)
             \/ CloseReceiver(s) \/ CloseChannel(s) \/ Connect(s) \/ Authorize(s)
      PROVE  InTurn(x)' /\ Once(x)'
  <2>1. CASE x = s
    BY <1>1, <1>5, <2>1, HostSteps, HostInTurn, OnceNext
  <2>2. CASE x # s
    BY <1>2, <1>5, <2>2, HostApart DEF Apart, Hears
  <2>3. QED
    BY <2>1, <2>2
<1>6. QED
  BY <1>3, <1>4, <1>5 DEF Next

LEMMA BatchInit == Init => BatchInv
  BY HasEmpty DEF Init, BatchInv, InTurn, Once, Idle

\* For any sessions, files and sizes: what has been moved to its place is what
\* the caller read, whole and in order, although data and its end do not name
\* their file and transfers are cancelled, refused and time out in the middle; and
\* nothing is under way that would have it moved again.
THEOREM SavedIsWhole == Spec => []SavedWhole
<1>1. TypeInv /\ WholeInv /\ BatchInv => SavedWhole
  <2> SUFFICES ASSUME TypeInv, WholeInv, BatchInv, NEW s \in Session, NEW f \in saved[s],
                      NEW i \in DOMAIN toHost[s], toHost[s][i].type = "end"
               PROVE  f.whole /\ toHost[s][i].of # f.of
    BY DEF SavedWhole, WholeInv, Whole
  <2>1. f.whole
    BY DEF WholeInv, Whole
  <2>2. toHost[s] \in Seq(Messages)
    BY DEF TypeInv, NetTypes
  <2>3. i \in 1..Len(toHost[s]) /\ toHost[s][i] \in AllEnds
    BY <2>2 DEF AllEnds
  <2>4. QED
    BY <2>1, <2>3 DEF BatchInv, Once, SavedFile
<1>2. QED
  BY <1>1, TypeInit, TypeNext, WholeInit, WholeNext, ToldInit, ToldNext, BatchInit, BatchNext, PTL DEF Spec

\* The files of the messages of M in a queue
FilesOf(q, M) == {f \in File : \E i \in 1..Len(q) : q[i] \in M /\ q[i].of = f}

\* The ends that the one who sends now is no longer asked about
LateEnds(x) == IF x = Idle THEN AllEnds ELSE PastEnds(x.transfer)

LEMMA FilesOfFacts ==
  ASSUME NEW q \in Seq(Messages), NEW M, M \subseteq AllEnds
  PROVE  /\ ~Has(q, M) => FilesOf(q, M) = {}
         /\ \A m \in Messages : m \notin M => FilesOf(Append(q, m), M) = FilesOf(q, M)
         /\ q # <<>> /\ Head(q) \notin M => FilesOf(Tail(q), M) = FilesOf(q, M)
         /\ \A i \in 1..Len(q) : AtMostOne(q, M) /\ q[i] \in M => FilesOf(q, M) = {q[i].of}
<1> DEFINE n == Len(q)
<1>1. ~Has(q, M) => FilesOf(q, M) = {}
  BY DEF Has, FilesOf
<1>2. ASSUME NEW m \in Messages, m \notin M PROVE FilesOf(Append(q, m), M) = FilesOf(q, M)
  <2> DEFINE r == Append(q, m)
             k == Len(r)
  <2>1. n \in Nat /\ k = n + 1 /\ (\A i \in 1..n : r[i] = q[i]) /\ r[n + 1] = m
    BY AppendFacts
  <2> HIDE DEF r, n, k
  <2>2. (\A i \in 1..k : i \in 1..n \/ i = n + 1) /\ (\A i \in 1..n : i \in 1..k)
    BY <2>1
  <2>3. \A f : (\E i \in 1..k : r[i] \in M /\ r[i].of = f) <=> \E i \in 1..n : q[i] \in M /\ q[i].of = f
    BY <1>2, <2>1, <2>2
  <2>4. QED
    BY <2>3 DEF FilesOf, r, n, k
<1>3. ASSUME q # <<>>, Head(q) \notin M PROVE FilesOf(Tail(q), M) = FilesOf(q, M)
  <2> DEFINE r == Tail(q)
             k == Len(r)
  <2>1. n \in Nat \ {0} /\ k = n - 1 /\ q[1] \notin M /\ \A i \in 1..(n - 1) : r[i] = q[i + 1]
    BY <1>3, TailFacts
  <2> HIDE DEF r, n, k
  <2>2. \A i \in 1..k : i + 1 \in 1..n /\ r[i] = q[i + 1]
    BY <2>1
  <2>3. \A i \in 1..n : i = 1 \/ \E j \in 1..k : i = j + 1
    <3>1. \A i \in 1..n : i # 1 => i - 1 \in 1..k /\ i = (i - 1) + 1
      BY <2>1
    <3>2. QED
      BY <3>1
  <2>4. ASSUME NEW f, NEW i \in 1..n, q[i] \in M, q[i].of = f PROVE \E j \in 1..k : r[j] \in M /\ r[j].of = f
    <3>1. PICK j \in 1..k : i = j + 1
      BY <2>1, <2>3, <2>4
    <3>2. r[j] = q[i]
      BY <2>2, <3>1
    <3>3. QED
      BY <2>4, <3>2
  <2>5. ASSUME NEW f, NEW i \in 1..k, r[i] \in M, r[i].of = f PROVE \E j \in 1..n : q[j] \in M /\ q[j].of = f
    BY <2>2, <2>5
  <2>6. QED
    BY <2>4, <2>5 DEF FilesOf, r, n, k
<1>4. ASSUME NEW i \in 1..Len(q), AtMostOne(q, M), q[i] \in M PROVE FilesOf(q, M) = {q[i].of}
  <2>1. q[i].of \in File
    BY <1>4, MessageFacts DEF AllEnds
  <2>2. QED
    BY <1>4, <2>1 DEF FilesOf, AtMostOne
<1>5. QED
  BY <1>1, <1>2, <1>3, <1>4

\* What is late, by the queue and the one who sends now
LEMMA LateFilesAre ==
  ASSUME NEW q \in Seq(Messages), NEW x
  PROVE  {q[i].of : i \in {j \in DOMAIN q : q[j].type = "end" /\ (x = Idle \/ q[j].of[1] # x.transfer)}}
           = FilesOf(q, LateEnds(x))
<1> DEFINE Late(m) == m.type = "end" /\ (x = Idle \/ m.of[1] # x.transfer)
<1>1. DOMAIN q = 1..Len(q) /\ \A i \in 1..Len(q) : q[i] \in Messages
  OBVIOUS
<1>2. \A m \in Messages : (Late(m) <=> m \in LateEnds(x)) /\ (Late(m) => m.of \in File)
  BY MessageFacts DEF LateEnds, AllEnds, PastEnds
<1> HIDE DEF Late
<1>3. {q[i].of : i \in {j \in DOMAIN q : Late(q[j])}} = FilesOf(q, LateEnds(x))
  BY <1>1, <1>2 DEF FilesOf
<1>4. QED
  BY <1>3 DEF Late

Doing(s) == IF sender[s] = Idle THEN Idle
            ELSE [transfer |-> sender[s].transfer, count |-> sender[s].count, no |-> sender[s].no]
StoredFiles(s) == {f.of : f \in saved[s]}
Lates(s) == FilesOf(toHost[s], LateEnds(sender[s]))

LEMMA SessionOf ==
  ASSUME TypeInv, TypeInv', NEW s \in Session, \A x \in Session : x # s => Apart(x)
  PROVE  /\ doings[s] = Doing(s) /\ storeds[s] = StoredFiles(s) /\ lates[s] = Lates(s)
         /\ doings' = [doings EXCEPT ![s] = Doing(s)']
         /\ storeds' = [storeds EXCEPT ![s] = StoredFiles(s)']
         /\ lates' = [lates EXCEPT ![s] = FilesOf(toHost'[s], LateEnds(sender'[s]))]
<1>1. ASSUME NEW x \in Session
      PROVE  LateFiles(x) = Lates(x) /\ LateFiles(x)' = FilesOf(toHost'[x], LateEnds(sender'[x]))
  <2>1. toHost[x] \in Seq(Messages) /\ toHost'[x] \in Seq(Messages) /\ Idle' = Idle
    BY DEF TypeInv, NetTypes, Idle
  <2>2. LateFiles(x) = Lates(x)
    BY <2>1, LateFilesAre DEF LateFiles, Lates
  <2>3. LateFiles(x)' = FilesOf(toHost'[x], LateEnds(sender'[x]))
    BY <2>1, LateFilesAre DEF LateFiles
  <2>4. QED
    BY <2>2, <2>3
<1>2. doings[s] = Doing(s) /\ storeds[s] = StoredFiles(s) /\ lates[s] = Lates(s)
  BY <1>1 DEF doings, storeds, lates, Doing, StoredFiles
<1>3. doings' = [doings EXCEPT ![s] = Doing(s)']
  BY DEF doings, Doing, Apart, Idle
<1>4. storeds' = [storeds EXCEPT ![s] = StoredFiles(s)']
  BY DEF storeds, StoredFiles, Apart
<1>5. lates' = [lates EXCEPT ![s] = FilesOf(toHost'[s], LateEnds(sender'[s]))]
  <2>1. lates' = [x \in Session |-> FilesOf(toHost'[x], LateEnds(sender'[x]))]
    BY <1>1 DEF lates
  <2>2. lates = [x \in Session |-> FilesOf(toHost[x], LateEnds(sender[x]))]
    BY <1>1 DEF lates, Lates
  <2>3. \A x \in Session : x # s => toHost'[x] = toHost[x] /\ sender'[x] = sender[x]
    BY DEF Apart
  <2>4. QED
    BY <2>1, <2>2, <2>3
<1>6. QED
  BY <1>2, <1>3, <1>4, <1>5

LEMMA BatchIs ==
  ASSUME NEW s \in Session, NEW d, NEW f, NEW l,
         doings' = [doings EXCEPT ![s] = d], storeds' = [storeds EXCEPT ![s] = f], lates' = [lates EXCEPT ![s] = l]
  PROVE  /\ d = doings[s] => doings' = doings
         /\ f = storeds[s] => storeds' = storeds
         /\ l = lates[s] => lates' = lates
         /\ \/ \E t \in Transfer, n \in 1..MaxFiles : Batch!Start(s, t, n)
            \/ Batch!Store(s) \/ Batch!Count(s) \/ Batch!Finish(s)
            \/ Batch!GiveUp(s) \/ Batch!StoreLate(s) \/ Batch!Lose(s)
            => Batch!Next
<1>1. /\ d = doings[s] => doings' = doings
      /\ f = storeds[s] => storeds' = storeds
      /\ l = lates[s] => lates' = lates
  <2>1. /\ DOMAIN doings = Session /\ doings = [x \in Session |-> doings[x]]
        /\ DOMAIN storeds = Session /\ storeds = [x \in Session |-> storeds[x]]
        /\ DOMAIN lates = Session /\ lates = [x \in Session |-> lates[x]]
    BY DEF doings, storeds, lates
  <2>2. QED
    BY <2>1
<1>2. \/ \E t \in Transfer, n \in 1..MaxFiles : Batch!Start(s, t, n)
      \/ Batch!Store(s) \/ Batch!Count(s) \/ Batch!Finish(s)
      \/ Batch!GiveUp(s) \/ Batch!StoreLate(s) \/ Batch!Lose(s)
      => Batch!Next
  BY DEF Batch!Next
<1>3. QED
  BY <1>1, <1>2

\* What the steps of the caller are to a batch
LEMMA CallerBatch ==
  ASSUME TypeInv, TypeInv', NEW s \in Session, Told(s), InTurn(s), Once(s),
         \A x \in Session : x # s => Apart(x),
         Begins(s) \/ Stops(s) \/ Moves(s) \/ Ends(s) \/ Hears(s) \/ Accepts(s),
         Stops(s) => AllSaved(s) \/ sender[s].at = "batch_ready" \/ sender[s].no < sender[s].count
  PROVE  [Batch!Next]_<<doings, storeds, lates>>
<1> DEFINE q == toHost[s]
           t == sender[s].transfer
           d == Doing(s)'
           f == StoredFiles(s)'
           l == FilesOf(toHost'[s], LateEnds(sender'[s]))
<1>t. /\ q \in Seq(Messages) /\ AtMostOne(q, AllEnds)
      /\ \A x : PastEnds(x) \subseteq AllEnds /\ EndsOf(x) \subseteq AllEnds
  BY DEF TypeInv, NetTypes, InTurn, PastEnds, EndsOf, AllEnds
<1>0. /\ doings[s] = Doing(s) /\ storeds[s] = StoredFiles(s) /\ lates[s] = Lates(s)
      /\ doings' = [doings EXCEPT ![s] = d] /\ storeds' = [storeds EXCEPT ![s] = f] /\ lates' = [lates EXCEPT ![s] = l]
  BY SessionOf
<1>d. d = IF sender'[s] = Idle THEN Idle
          ELSE [transfer |-> sender'[s].transfer, count |-> sender'[s].count, no |-> sender'[s].no]
  BY DEF Doing, Idle
<1>f. (saved'[s] = saved[s] => f = storeds[s]) /\ (saved'[s] = {} => f = {})
  BY <1>0 DEF StoredFiles
<1>p. ASSUME sender[s] # Idle, sender[s].at # "batch_ready" PROVE ~Has(q, PastEnds(t)) /\ lates[s] = {}
  <2>1. ~Has(q, PastEnds(t))
    BY <1>p DEF InTurn, Past
  <2>2. lates[s] = FilesOf(q, PastEnds(t))
    BY <1>0, <1>p DEF Lates, LateEnds
  <2>3. QED
    BY <1>t, <2>1, <2>2, FilesOfFacts
<1> HIDE DEF q, t, d, f, l
<1>b. /\ d = doings[s] => doings' = doings
      /\ f = storeds[s] => storeds' = storeds
      /\ l = lates[s] => lates' = lates
      /\ \/ \E x \in Transfer, n \in 1..MaxFiles : Batch!Start(s, x, n)
         \/ Batch!Store(s) \/ Batch!Count(s) \/ Batch!Finish(s)
         \/ Batch!GiveUp(s) \/ Batch!StoreLate(s) \/ Batch!Lose(s)
         => Batch!Next
  BY <1>0, BatchIs
<1>1. CASE Begins(s)
  <2>1. PICK x \in Transfer, n \in 1..MaxFiles, m \in Messages :
          /\ ~Mentions(s, x) /\ sender'[s] = Sending("batch_ready", x, n, 0, 0, 0)
          /\ m.type = "batch" /\ toHost'[s] = Append(q, m)
    BY <1>1 DEF Begins, q
  <2>2. sender[s] = Idle /\ saved'[s] = {}
    BY <1>1 DEF Begins
  <2>3. /\ sender'[s] # Idle /\ sender'[s].transfer = x /\ sender'[s].count = n /\ sender'[s].no = 0
    BY <2>1 DEF Sending, Idle
  <2>4. doings[s] = Idle /\ d = [transfer |-> x, count |-> n, no |-> 0] /\ f = {}
    BY <1>0, <1>d, <1>f, <2>2, <2>3 DEF Doing
  <2>5. \A i \in 1..Len(q) : q[i] \in AllEnds => q[i].of[1] # x
    <3>1. DOMAIN q = 1..Len(q)
      BY <1>t
    <3>2. \A i \in DOMAIN q : q[i].type = "end" => q[i].of[1] # x
      BY <2>1 DEF Mentions, q
    <3>3. QED
      BY <3>1, <3>2 DEF AllEnds
  <2>6. lates[s] = FilesOf(q, AllEnds) /\ l = FilesOf(Append(q, m), PastEnds(x))
    BY <1>0, <2>1, <2>2, <2>3 DEF Lates, LateEnds, q, l
  <2>7. FilesOf(q, PastEnds(x)) = FilesOf(q, AllEnds)
    BY <2>5 DEF FilesOf, PastEnds
  <2>8. FilesOf(Append(q, m), PastEnds(x)) = FilesOf(q, PastEnds(x))
    BY <1>t, <2>1, FilesOfFacts DEF PastEnds, AllEnds
  <2>9. \A g \in lates[s] : g[1] # x
    BY <2>5, <2>6 DEF FilesOf
  <2>10. Batch!Start(s, x, n)
    BY <1>0, <1>b, <2>4, <2>6, <2>7, <2>8, <2>9 DEF Batch!Start, Batch!Doing
  <2>11. QED
    BY <1>b, <2>10
<1>2. CASE Stops(s)
  <2>1. /\ sender[s] # Idle /\ sender'[s] = Idle /\ saved'[s] = saved[s]
        /\ toHost'[s] = q \/ \E m \in Messages : m.type = "cancel" /\ toHost'[s] = Append(q, m)
    BY <1>2 DEF Stops, q
  <2>2. l = FilesOf(q, AllEnds)
    <3>1. l = FilesOf(toHost'[s], AllEnds)
      BY <2>1 DEF l, LateEnds
    <3>2. \A m \in Messages : m.type = "cancel" => FilesOf(Append(q, m), AllEnds) = FilesOf(q, AllEnds)
      BY <1>t, FilesOfFacts DEF AllEnds
    <3>3. ASSUME NEW m \in Messages, m.type = "cancel", toHost'[s] = Append(q, m) PROVE l = FilesOf(q, AllEnds)
      BY <3>1, <3>2, <3>3
    <3>4. QED
      BY <2>1, <3>1, <3>3
  <2>3. d = Idle /\ f = storeds[s] /\ doings[s] # Idle /\ doings[s].no = sender[s].no /\ doings[s].count = sender[s].count
        /\ Batch!Current(s) = Current(s)
    <3>1. [transfer |-> sender[s].transfer, count |-> sender[s].count, no |-> sender[s].no] # Idle
      BY DEF Idle
    <3>2. QED
      BY <1>0, <1>d, <1>f, <2>1, <3>1 DEF Doing, Batch!Current, Current
  <2>4. CASE Has(q, EndsOf(t))
    <3>1. sender[s].at = "saved" /\ \A i \in 1..Len(q) : q[i] \in EndsOf(t) => q[i].of = Current(s)
      BY <2>1, <2>4 DEF Told, Awaited, q, t
    <3>2. PICK i \in 1..Len(q) : q[i] \in EndsOf(t)
      BY <2>4 DEF Has
    <3>3. q[i] \in AllEnds /\ q[i].of = Current(s)
      BY <1>t, <3>1, <3>2
    <3>4. l = {Current(s)}
      BY <1>t, <2>2, <3>3, FilesOfFacts
    <3>5. Current(s) \notin storeds[s]
      BY <1>0, <3>3 DEF Once, SavedFile, StoredFiles, q
    <3>6. sender[s].no < sender[s].count
      BY <3>1 DEF TypeInv, CallerTypes
    <3>7. lates[s] = {}
      BY <1>p, <2>1, <3>1
    <3>8. Batch!GiveUp(s)
      BY <1>0, <1>b, <2>3, <3>4, <3>5, <3>6, <3>7 DEF Batch!GiveUp, Batch!Left
    <3>9. QED
      BY <1>b, <3>8
  <2>5. CASE ~Has(q, EndsOf(t))
    <3>1. l = lates[s]
      <4>1. \A i \in 1..Len(q) : q[i] \in AllEnds <=> q[i] \in PastEnds(t)
        BY <2>5, EndFacts DEF Has
      <4>2. FilesOf(q, AllEnds) = FilesOf(q, PastEnds(t))
        BY <4>1 DEF FilesOf
      <4>3. QED
        BY <1>0, <2>1, <2>2, <4>2 DEF Lates, LateEnds, q, t
    <3>2. CASE sender[s].no < sender[s].count
      <4>1. Batch!GiveUp(s)
        BY <1>0, <1>b, <2>3, <3>1, <3>2 DEF Batch!GiveUp, Batch!Left
      <4>2. QED
        BY <1>b, <4>1
    <3>3. CASE sender[s].at = "batch_ready"
      <4>1. sender[s].no = 0 /\ sender[s].count \in 1..MaxFiles
        BY <3>3, SenderFacts DEF InTurn, TypeInv
      <4>2. sender[s].no < sender[s].count
        BY <4>1
      <4>3. QED
        BY <3>2, <4>2
    <3>4. CASE AllSaved(s)
      <4>1. sender[s].at # "batch_ready" /\ sender[s].no = sender[s].count
        BY <3>4 DEF AllSaved
      <4>2. lates[s] = {}
        BY <1>p, <2>1, <4>1
      <4>3. Batch!Finish(s)
        BY <1>0, <1>b, <2>3, <3>1, <4>1, <4>2 DEF Batch!Finish
      <4>4. QED
        BY <1>b, <4>3
    <3>5. QED
      BY <1>2, <3>2, <3>3, <3>4
  <2>6. QED
    BY <2>4, <2>5
<1>3. ASSUME sender[s] # Idle, sender'[s] # Idle, sender'[s].transfer = t,
             sender'[s].no = sender[s].no, sender'[s].count = sender[s].count,
             \/ toHost'[s] = q
             \/ \E m \in Messages : m \notin PastEnds(t) /\ toHost'[s] = Append(q, m),
             saved'[s] = saved[s]
      PROVE  UNCHANGED <<doings, storeds, lates>>
  <2>1. l = lates[s]
    <3>1. lates[s] = FilesOf(q, PastEnds(t)) /\ l = FilesOf(toHost'[s], PastEnds(t))
      BY <1>0, <1>3 DEF Lates, LateEnds, q, l, t
    <3>2. \A m \in Messages : m \notin PastEnds(t) => FilesOf(Append(q, m), PastEnds(t)) = FilesOf(q, PastEnds(t))
      BY <1>t, FilesOfFacts
    <3>3. QED
      BY <1>3, <3>1, <3>2
  <2>2. d = doings[s]
    BY <1>0, <1>d, <1>3 DEF Doing, t
  <2>3. QED
    BY <1>3, <1>b, <1>f, <2>1, <2>2
<1>4. CASE Moves(s)
  <2>1. \A m \in Messages : m.type \in Leads => m \notin PastEnds(t)
    BY DEF Leads, PastEnds, AllEnds
  <2>2. QED
    BY <1>3, <1>4, <2>1 DEF Moves, q, t
<1>5. CASE Ends(s)
  <2>1. \A m \in Messages : m.of = Current(s) => m \notin PastEnds(t)
    BY DEF PastEnds, Current, t
  <2>2. QED
    BY <1>3, <1>5, <2>1 DEF Ends, q, t
<1>6. CASE Hears(s)
  <2>1. d = doings[s] /\ l = lates[s] /\ f = storeds[s]
    BY <1>0, <1>d, <1>f, <1>6 DEF Hears, Doing, Lates, l
  <2>2. QED
    BY <1>b, <2>1
<1>7. CASE Accepts(s)
  <2>1. /\ sender[s] # Idle /\ sender'[s] # Idle /\ sender'[s].transfer = t /\ sender'[s].count = sender[s].count
        /\ toHost'[s] = q /\ saved'[s] = saved[s]
    BY <1>7 DEF Accepts, q, t
  <2>2. CASE sender[s].at = "batch_ready" /\ sender'[s].no = 0
    <3>1. sender'[s].no = sender[s].no
      BY <2>2 DEF InTurn
    <3>2. QED
      BY <1>3, <2>1, <3>1
  <2>3. CASE /\ sender[s].at = "saved" /\ sender'[s].no = sender[s].no + 1
             /\ Has(fileAck[s], SavedAck(t))
    <3>1. SavedFile(s, Current(s))
      BY <2>1, <2>3 DEF Told, Awaited, t
    <3>2. /\ doings[s] = [transfer |-> t, count |-> sender[s].count, no |-> sender[s].no]
          /\ d = [transfer |-> t, count |-> sender[s].count, no |-> sender[s].no + 1]
      BY <1>0, <1>d, <2>1, <2>3 DEF Doing, t
    <3>3. doings[s] # Idle /\ Batch!Current(s) = Current(s)
      BY <3>2 DEF Idle, Batch!Current, Current, t
    <3>4. sender[s].no < sender[s].count
      BY <2>3 DEF TypeInv, CallerTypes
    <3>5. lates[s] = {} /\ l = lates[s]
      BY <1>0, <1>p, <2>1, <2>3 DEF Lates, LateEnds, q, l, t
    <3>6. Current(s) \in storeds[s]
      BY <1>0, <3>1 DEF SavedFile, StoredFiles
    <3>7. Batch!Count(s)
      BY <1>0, <1>b, <1>f, <2>1, <3>2, <3>3, <3>4, <3>5, <3>6 DEF Batch!Count, Batch!Left, Batch!Doing
    <3>8. QED
      BY <1>b, <3>7
  <2>4. QED
    BY <1>7, <2>2, <2>3 DEF Accepts, t
<1>8. QED
  BY <1>1, <1>2, <1>4, <1>5, <1>6, <1>7

\* What the steps of the host are to a batch
LEMMA HostBatch ==
  ASSUME TypeInv, TypeInv', NEW s \in Session, Told(s), InTurn(s), Once(s),
         \A x \in Session : x # s => Apart(x),
         (Answers(s) /\ (Takes(s) \/ Stores(s) \/ Rests(s))) \/ Connects(s)
  PROVE  [Batch!Next]_<<doings, storeds, lates>>
<1> DEFINE q == toHost[s]
           m == Head(q)
           t == sender[s].transfer
           M == LateEnds(sender[s])
           d == Doing(s)'
           f == StoredFiles(s)'
           l == FilesOf(toHost'[s], LateEnds(sender'[s]))
<1>t. /\ q \in Seq(Messages) /\ AtMostOne(q, AllEnds) /\ M \subseteq AllEnds /\ sender'[s] = sender[s]
  BY DEF TypeInv, NetTypes, InTurn, LateEnds, PastEnds, AllEnds, Answers, Connects
<1>0. /\ doings[s] = Doing(s) /\ storeds[s] = StoredFiles(s) /\ lates[s] = FilesOf(q, M)
      /\ doings' = [doings EXCEPT ![s] = d] /\ storeds' = [storeds EXCEPT ![s] = f] /\ lates' = [lates EXCEPT ![s] = l]
  BY SessionOf DEF Lates
<1>d. d = doings[s] /\ l = FilesOf(toHost'[s], M)
  BY <1>0, <1>t DEF Doing, Idle
<1>f. saved'[s] = saved[s] => f = storeds[s]
  BY <1>0 DEF StoredFiles
<1>o. AtMostOne(q, M)
  BY <1>t DEF AtMostOne
<1>e. FilesOf(<<>>, M) = {}
  BY HasEmpty DEF FilesOf, Has
<1> HIDE DEF q, m, t, M, d, f, l
<1>b. /\ d = doings[s] => doings' = doings
      /\ f = storeds[s] => storeds' = storeds
      /\ l = lates[s] => lates' = lates
      /\ Batch!Store(s) \/ Batch!StoreLate(s) \/ Batch!Lose(s) => Batch!Next
  BY <1>0, BatchIs
<1>1. ASSUME saved'[s] = saved[s], l = lates[s] \/ l = {} PROVE [Batch!Next]_<<doings, storeds, lates>>
  <2>1. CASE l = lates[s]
    BY <1>1, <1>b, <1>d, <1>f, <2>1
  <2>2. CASE l = {} /\ lates[s] # {}
    <3>1. Batch!Lose(s)
      BY <1>0, <1>1, <1>b, <1>d, <1>f, <2>2 DEF Batch!Lose
    <3>2. QED
      BY <1>b, <3>1
  <2>3. QED
    BY <1>1, <2>1, <2>2
<1>2. CASE Connects(s) \/ (Answers(s) /\ Rests(s))
  <2>1. saved'[s] = saved[s] /\ (toHost'[s] = q \/ toHost'[s] = <<>>)
    BY <1>2 DEF Connects, Rests, q
  <2>2. QED
    BY <1>0, <1>1, <1>d, <1>e, <2>1
<1>h. ASSUME q # <<>>, toHost'[s] = Tail(q)
      PROVE  /\ m \notin M => l = lates[s]
             /\ m \in M => lates[s] = {m.of} /\ l = {}
             /\ m = q[1] /\ 1 \in 1..Len(q)
  <2>1. m = q[1] /\ 1 \in 1..Len(q) /\ Tail(q) \in Seq(Messages)
    BY <1>h, <1>t, TailFacts DEF m
  <2>2. m \notin M => FilesOf(Tail(q), M) = FilesOf(q, M)
    BY <1>h, <1>t, FilesOfFacts DEF m
  <2>3. ASSUME m \in M PROVE FilesOf(q, M) = {m.of} /\ FilesOf(Tail(q), M) = {}
    <3>1. FilesOf(q, M) = {m.of}
      BY <1>o, <1>t, <2>1, <2>3, FilesOfFacts
    <3>2. ~Has(Tail(q), M)
      BY <1>h, <1>o, <1>t, <2>3, HasTail DEF m
    <3>3. QED
      BY <1>t, <2>1, <3>1, <3>2, FilesOfFacts
  <2>4. QED
    BY <1>0, <1>d, <1>h, <2>1, <2>2, <2>3
<1>3. CASE Answers(s) /\ Takes(s)
  <2>1. q # <<>> /\ toHost'[s] = Tail(q) /\ saved'[s] = saved[s]
    BY <1>3 DEF Takes, q
  <2>2. QED
    BY <1>1, <1>h, <2>1
<1>4. CASE Answers(s) /\ Stores(s)
  <2>1. q # <<>> /\ toHost'[s] = Tail(q) /\ m \in AllEnds
    BY <1>4 DEF Stores, q, m
  <2>2. f = storeds[s] \cup {m.of}
    BY <1>0, <1>4 DEF Stores, StoredFiles, f, q, m
  <2>3. m.of \notin storeds[s]
    BY <1>0, <1>h, <2>1 DEF Once, SavedFile, StoredFiles, q
  <2>4. CASE m \in M
    <3>1. doings[s] # Idle => doings[s].no = 0
      <4>1. ASSUME sender[s] # Idle PROVE sender[s].no = 0
        <5>1. Has(q, PastEnds(t))
          BY <1>h, <2>1, <2>4, <4>1 DEF Has, M, t, LateEnds
        <5>2. QED
          BY <4>1, <5>1 DEF InTurn, Past, q, t
      <4>2. QED
        BY <1>0, <4>1 DEF Doing
    <3>2. lates[s] = {m.of} /\ l = {}
      BY <1>h, <2>1, <2>4
    <3>3. Batch!StoreLate(s)
      BY <1>0, <1>b, <1>d, <2>2, <2>3, <3>1, <3>2 DEF Batch!StoreLate
    <3>4. QED
      BY <1>b, <3>3
  <2>5. CASE m \notin M
    <3>1. sender[s] # Idle /\ m \in EndsOf(t)
      BY <2>1, <2>5, EndFacts DEF M, LateEnds, t
    <3>2. Has(q, EndsOf(t))
      BY <1>h, <2>1, <3>1 DEF Has
    <3>3. sender[s].at = "saved" /\ m.of = Current(s)
      BY <1>h, <2>1, <3>1, <3>2 DEF Told, Awaited, q, t
    <3>4. sender[s].no < sender[s].count
      BY <3>3 DEF TypeInv, CallerTypes
    <3>5. lates[s] = {} /\ l = lates[s]
      <4>1. ~Has(q, M)
        BY <3>1, <3>3 DEF InTurn, Past, M, LateEnds, q
      <4>2. QED
        BY <1>0, <1>h, <1>t, <2>1, <2>5, <4>1, FilesOfFacts
    <3>6. doings[s] = [transfer |-> t, count |-> sender[s].count, no |-> sender[s].no]
      BY <1>0, <3>1 DEF Doing, t
    <3>7. doings[s] # Idle /\ Batch!Current(s) = m.of
      BY <3>3, <3>6 DEF Idle, Batch!Current, Current, t
    <3>8. Batch!Store(s)
      BY <1>0, <1>b, <1>d, <2>2, <2>3, <3>4, <3>5, <3>6, <3>7 DEF Batch!Store, Batch!Left
    <3>9. QED
      BY <1>b, <3>8
  <2>6. QED
    BY <2>4, <2>5
<1>5. QED
  BY <1>2, <1>3, <1>4

\* For any sessions, files and limits: every step of caller and host is one of
\* FileBatch, or none.
THEOREM TransfersAreBatches == Spec => ImplementsBatch
<1>1. Init => Batch!Init
  BY DEF Init, Batch!Init, doings, storeds, lates, LateFiles
<1>2. TypeInv /\ TypeInv' /\ WholeInv /\ ToldInv /\ BatchInv /\ [Next]_vars => [Batch!Next]_<<doings, storeds, lates>>
  <2> SUFFICES ASSUME TypeInv, TypeInv', WholeInv, ToldInv, BatchInv, [Next]_vars
               PROVE  [Batch!Next]_<<doings, storeds, lates>>
    OBVIOUS
  <2>0. \A s \in Session : Whole(s) /\ Told(s) /\ InTurn(s) /\ Once(s)
    BY DEF WholeInv, ToldInv, BatchInv
  <2>1. CASE UNCHANGED vars
    BY <2>1 DEF vars, netVars, callerVars, hostVars, doings, storeds, lates, LateFiles, Idle
  <2>2. ASSUME NEW s \in Session,
               \/ \E t \in Transfer : SendFiles(s, t)
               \/ CancelFiles(s) \/ Sender(s) \/ ReadFails(s) \/ Deliver(s)
        PROVE  [Batch!Next]_<<doings, storeds, lates>>
    <3>1. \A x \in Session : x # s => Apart(x)
      BY <2>2, CallerApart
    <3>2. QED
      BY <2>0, <2>2, <3>1, CallerSteps, CallerBatch
  <2>3. ASSUME NEW s \in Session,
               \/ Receive(s) \/ TimePasses(s) \/ Timer(s)
               \/ CloseReceiver(s) \/ CloseChannel(s) \/ Connect(s) \/ Authorize(s)
        PROVE  [Batch!Next]_<<doings, storeds, lates>>
    <3>1. \A x \in Session : x # s => Apart(x)
      BY <2>3, HostApart
    <3>2. QED
      BY <2>0, <2>3, <3>1, HostSteps, HostBatch
  <2>4. QED
    BY <2>1, <2>2, <2>3 DEF Next
<1>3. QED
  BY <1>1, <1>2, TypeInit, TypeNext, WholeInit, WholeNext, ToldInit, ToldNext, BatchInit, BatchNext, PTL
  DEF Spec, ImplementsBatch, Batch!Spec, Batch!batchVars

-----------------------------------------------------------------------------
\* Uploads

\* What is on its way has what UploadedStays asks of it: a file that may be
\* moved is whole, and its token was valid when it was looked at; a token that
\* is valid has not ended since the request entered.
UploadInv ==
  /\ DOMAIN place = Place /\ DOMAIN results = Request
  /\ DOMAIN stage = Request /\ DOMAIN temp = Request
  /\ \A r \in Request :
       /\ results[r] \subseteq Place
       /\ stage[r] \in {"copied", "move"} => temp[r] = "whole"
       /\ stage[r] = "move" => r \notin cut
       /\ stage[r] # "none" /\ r \in valid => r \notin cut
  /\ UploadedStays

\* The record of an upload is none of the other two things a place can hold.
LEMMA UploadIsNeither ==
  ASSUME NEW r
  PROVE  LET u == [by |-> r, whole |-> TRUE, allowed |-> TRUE]
         IN  u # Free /\ u.by = r /\ DOMAIN u # DOMAIN Other
<1> DEFINE u == [by |-> r, whole |-> TRUE, allowed |-> TRUE]
<1>1. DOMAIN u = {"by", "whole", "allowed"}
  OBVIOUS
<1>2. DOMAIN Free = {"by"} /\ DOMAIN Other = {"by"}
  BY DEF Free, Other
<1>3. "whole" \in DOMAIN u /\ "whole" \notin DOMAIN Free /\ "whole" \notin DOMAIN Other
  BY <1>1, <1>2
<1>4. QED
  BY <1>3

\* The steps of one request that leave the desktop alone.
LEMMA RequestKeeps ==
  ASSUME UploadInv, NEW r \in Request,
         \/ BeginPart(r) \/ ReadChunk(r) \/ ReadEnd(r) \/ BodyEnds(r) \/ CheckUpload(r)
         \/ UploadFails(r) \/ NameTaken(r) \/ LoginUpload(r) \/ RevokeUpload(r) \/ Disconnect(r)
  PROVE  UploadInv'
<1>1. UNCHANGED desktopVars
  BY DEF BeginPart, ReadChunk, ReadEnd, BodyEnds, CheckUpload, UploadFails, Return, NameTaken,
         LoginUpload, RevokeUpload, Disconnect
<1>2. UploadedStays'
  BY <1>1 DEF UploadInv, UploadedStays, desktopVars
<1>3. DOMAIN stage' = Request /\ DOMAIN temp' = Request
  BY DEF UploadInv, BeginPart, ReadChunk, ReadEnd, BodyEnds, CheckUpload, UploadFails, Return,
         NameTaken, LoginUpload, RevokeUpload, Disconnect, partVars
<1>4. \A q \in Request : stage'[q] \in {"copied", "move"} => temp'[q] = "whole"
  BY DEF UploadInv, BeginPart, ReadChunk, ReadEnd, BodyEnds, CheckUpload, UploadFails, Return,
         NameTaken, LoginUpload, RevokeUpload, Disconnect, MayRead, partVars
<1>5. \A q \in Request : /\ stage'[q] = "move" => q \notin cut'
                         /\ stage'[q] # "none" /\ q \in valid' => q \notin cut'
  <2>1. CASE LoginUpload(r)
    BY <2>1 DEF UploadInv, LoginUpload
  <2>2. CASE RevokeUpload(r)
    BY <2>2 DEF UploadInv, RevokeUpload
  <2>3. CASE CheckUpload(r)
    BY <2>3 DEF UploadInv, CheckUpload
  <2>4. CASE BeginPart(r) \/ ReadChunk(r) \/ ReadEnd(r) \/ BodyEnds(r) \/ UploadFails(r)
             \/ NameTaken(r) \/ Disconnect(r)
    BY <2>4 DEF UploadInv, BeginPart, ReadChunk, ReadEnd, BodyEnds, UploadFails, Return,
                NameTaken, Disconnect, MayRead, partVars
  <2>5. QED
    BY <2>1, <2>2, <2>3, <2>4
<1>6. QED
  BY <1>1, <1>2, <1>3, <1>4, <1>5 DEF UploadInv, desktopVars

\* A request that enters has put nothing there yet.
LEMMA EnterKeeps == ASSUME UploadInv, NEW r \in Request, EnterUpload(r) PROVE UploadInv'
<1>1. \A q \in Request : results'[q] = IF q = r THEN {} ELSE results[q]
  BY DEF UploadInv, EnterUpload
<1>2. ASSUME NEW q \in Request, NEW p \in results'[q]
      PROVE  place'[p] = [by |-> q, whole |-> TRUE, allowed |-> TRUE]
  <2>1. q # r /\ p \in results[q] /\ p \in Place
    BY <1>1, <1>2 DEF UploadInv
  <2>2. place[p] = [by |-> q, whole |-> TRUE, allowed |-> TRUE]
    BY <2>1 DEF UploadInv, UploadedStays
  <2>3. place[p].by = q
    BY <2>2, UploadIsNeither
  <2>4. place'[p] = place[p]
    BY <2>1, <2>3 DEF UploadInv, EnterUpload
  <2>5. QED
    BY <2>2, <2>4
<1>3. UploadedStays'
  BY <1>2 DEF UploadedStays
<1>4. QED
  BY <1>1, <1>3 DEF UploadInv, EnterUpload

\* A move takes a free place, so no other request has its file there.
LEMMA MoveKeeps == ASSUME UploadInv, NEW r \in Request, MoveUpload(r) PROVE UploadInv'
<1> DEFINE t == tried[r]
<1>1. t \in Place /\ place[t] = Free /\ Uploaded(r) = [by |-> r, whole |-> TRUE, allowed |-> TRUE]
  BY DEF UploadInv, MoveUpload, Uploaded
<1>2. \A p \in Place : place'[p] = IF p = t THEN Uploaded(r) ELSE place[p]
  BY DEF UploadInv, MoveUpload
<1>3. \A q \in Request : results'[q] = IF q = r THEN results[q] \cup {t} ELSE results[q]
  BY DEF UploadInv, MoveUpload
<1>4. \A q \in Request : t \notin results[q]
  BY <1>1, UploadIsNeither DEF UploadInv, UploadedStays
<1>5. ASSUME NEW q \in Request, NEW p \in results'[q]
      PROVE  place'[p] = [by |-> q, whole |-> TRUE, allowed |-> TRUE]
  <2>1. CASE p = t
    BY <2>1, <1>1, <1>2, <1>3, <1>4, <1>5
  <2>2. CASE p # t
    <3>1. p \in results[q] /\ p \in Place
      BY <2>2, <1>3, <1>5 DEF UploadInv
    <3>2. QED
      BY <2>2, <3>1, <1>2 DEF UploadInv, UploadedStays
  <2>3. QED
    BY <2>1, <2>2
<1>6. UploadedStays'
  BY <1>5 DEF UploadedStays
<1>7. \A q \in Request : results'[q] \subseteq Place
  BY <1>1, <1>3 DEF UploadInv
<1>8. QED
  BY <1>6, <1>7 DEF UploadInv, MoveUpload

\* The user fills a free place, or empties one, which nobody has then.
LEMMA UserKeeps == ASSUME UploadInv, NEW p \in Place, UserPuts(p) \/ UserTakes(p) PROVE UploadInv'
<1>1. \A x \in Place : x # p => place'[x] = place[x]
  BY DEF UploadInv, UserPuts, UserTakes
<1>2. \A q \in Request : results'[q] \subseteq results[q] /\ p \notin results'[q]
  <2>1. CASE UserPuts(p)
    BY <2>1, UploadIsNeither DEF UploadInv, UploadedStays, UserPuts
  <2>2. CASE UserTakes(p)
    BY <2>2 DEF UploadInv, UserTakes
  <2>3. QED
    BY <2>1, <2>2
<1>3. UploadedStays'
  BY <1>1, <1>2 DEF UploadInv, UploadedStays
<1>4. DOMAIN place' = Place /\ DOMAIN results' = Request
  BY DEF UploadInv, UserPuts, UserTakes
<1>5. UNCHANGED <<stage, temp, valid, cut>>
  BY DEF UserPuts, UserTakes, partVars
<1>6. QED
  BY <1>2, <1>3, <1>4, <1>5 DEF UploadInv

\* For any requests, files and candidates: what a request has moved to the
\* desktop is whole and allowed, and lies there until the user takes it,
\* although commitUpload of other requests tries the same names.
THEOREM UploadsStay == UploadSpec => []UploadedStays
<1>1. UploadInit => UploadInv
  BY DEF UploadInit, UploadInv, UploadedStays
<1>2. UploadInv /\ [UploadNext]_uploadVars => UploadInv'
  <2> SUFFICES ASSUME UploadInv, [UploadNext]_uploadVars PROVE UploadInv'
    OBVIOUS
  <2>1. CASE UNCHANGED uploadVars
    BY <2>1 DEF UploadInv, UploadedStays, uploadVars, partVars, desktopVars
  <2>2. QED
    BY <2>1, RequestKeeps, EnterKeeps, MoveKeeps, UserKeeps DEF UploadNext, HandleUpload
<1>3. UploadInv => UploadedStays
  BY DEF UploadInv
<1>4. QED
  BY <1>1, <1>2, <1>3, PTL DEF UploadSpec

=============================================================================
