------------------------------ MODULE FileBatch ------------------------------
(***************************************************************************)
(* What sending files to a desktop promises, without channels, headers,    *)
(* acknowledgements, timers or slots: the files of a batch are stored one  *)
(* after the other, each of them once, and the next one only when the      *)
(* caller has counted the one before.  The caller counts what is stored.   *)
(* When it gives up, at most the file it was at may still be stored late;  *)
(* by the time anything of a later batch is stored, that is decided.       *)
(* FileTransfer implements this specification.                             *)
(***************************************************************************)
EXTENDS Naturals

CONSTANTS Session, Transfer,
          MaxFiles,   \* files of a batch
          Nothing     \* what a caller does that sends nothing

VARIABLES doing,      \* the batch a caller sends, with the files it has counted
          stored,     \* the files stored since it began
          late        \* the file of an earlier batch that may still be stored

batchVars == <<doing, stored, late>>

Doing(t, n, k) == [transfer |-> t, count |-> n, no |-> k]

\* The file a batch is at
Current(s) == <<doing[s].transfer, doing[s].no + 1>>
Left(s) == doing[s] # Nothing /\ doing[s].no < doing[s].count

Init ==
  /\ doing = [s \in Session |-> Nothing]
  /\ stored = [s \in Session |-> {}]
  /\ late = [s \in Session |-> {}]

Start(s, t, n) ==
  /\ doing[s] = Nothing /\ \A f \in late[s] : f[1] # t
  /\ doing' = [doing EXCEPT ![s] = Doing(t, n, 0)]
  /\ stored' = [stored EXCEPT ![s] = {}]
  /\ UNCHANGED late

Store(s) ==
  /\ Left(s) /\ late[s] = {} /\ Current(s) \notin stored[s]
  /\ stored' = [stored EXCEPT ![s] = @ \cup {Current(s)}]
  /\ UNCHANGED <<doing, late>>

Count(s) ==
  /\ Left(s) /\ late[s] = {} /\ Current(s) \in stored[s]
  /\ doing' = [doing EXCEPT ![s] = Doing(@.transfer, @.count, @.no + 1)]
  /\ UNCHANGED <<stored, late>>

Finish(s) ==
  /\ doing[s] # Nothing /\ doing[s].no = doing[s].count /\ late[s] = {}
  /\ doing' = [doing EXCEPT ![s] = Nothing]
  /\ UNCHANGED <<stored, late>>

GiveUp(s) ==
  /\ Left(s)
  /\ doing' = [doing EXCEPT ![s] = Nothing]
  /\ \/ UNCHANGED late
     \/ /\ late[s] = {} /\ Current(s) \notin stored[s]
        /\ late' = [late EXCEPT ![s] = {Current(s)}]
  /\ UNCHANGED stored

\* Before anything of the batch that is sent by now
StoreLate(s) ==
  /\ doing[s] # Nothing => doing[s].no = 0
  /\ \E f \in late[s] : f \notin stored[s] /\ stored' = [stored EXCEPT ![s] = @ \cup {f}]
  /\ late' = [late EXCEPT ![s] = {}]
  /\ UNCHANGED doing

Lose(s) ==
  /\ late[s] # {}
  /\ late' = [late EXCEPT ![s] = {}]
  /\ UNCHANGED <<doing, stored>>

Next ==
  \E s \in Session :
    \/ \E t \in Transfer, n \in 1..MaxFiles : Start(s, t, n)
    \/ Store(s) \/ Count(s) \/ Finish(s) \/ GiveUp(s) \/ StoreLate(s) \/ Lose(s)

Spec == Init /\ [][Next]_batchVars

=============================================================================
