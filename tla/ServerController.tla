-------------------------- MODULE ServerController --------------------------
(***************************************************************************)
(* The life cycle of the signalling server: serverController with its      *)
(* goroutines (server/controller.go), the runningServer each start makes   *)
(* (server/service.go), and the service's relay (GuardedRelay).            *)
(*                                                                         *)
(* Start and Stop are sections of mu and return; a goroutine does the      *)
(* work.  A service acquires the database, the ports and the rest one by   *)
(* one, gives back what it has when one is not to be had, and is closed    *)
(* step by step under its operations lock, which Backup takes too.         *)
(* A Service is one call of startServer and what comes of it; the name of  *)
(* one nothing refers to is used again.                                    *)
(***************************************************************************)
EXTENDS GuardedRelay, Sequences

CONSTANT NoService

ASSUME ServerControllerAssumption == NoService \notin Service

VARIABLES
  phase, active, stopRequested, lastError,   \* serverController
  starter,    \* where the goroutine of a service's Start is
  held,       \* what the service has acquired
  serving,    \* its goroutine in srv.Serve, and what is in done
  stopped,    \* services with stopped set
  closer,     \* where the goroutine of the Stop that closes it is
  backup      \* the backup under way; the window starts one at a time

controlVars == <<phase, active, stopRequested, lastError>>
serviceVars == <<starter, held, serving, stopped, closer>>
vars == <<controlVars, serviceVars, backup, relayVars>>

\* In the order of startServer
Resources == <<"db", "relay", "udp", "tls", "turn", "https">>
First(n) == {Resources[i] : i \in 1..n}
Everything == First(6)

Backups == [at : {"none", "offline", "copying"}, of : {NoService}]
             \cup [at : {"live", "reading"}, of : Service]
NoBackup == [at |-> "none", of |-> NoService]

TypeOK ==
  /\ RelayTypeOK
  /\ phase \in {"stopped", "starting", "running", "stopping"}
  /\ active \in Service \cup {NoService}
  /\ stopRequested \in BOOLEAN /\ lastError \in BOOLEAN
  /\ starter \in [Service -> {"none", "starting", "failing", "stop", "wait", "report", "halt"}]
  /\ held \in [Service -> SUBSET Everything]
  /\ serving \in [Service -> {"no", "serving", "failed", "closed"}]
  /\ stopped \in SUBSET Service
  /\ closer \in [Service -> {"none", "lock", "http", "turn", "relay", "wait", "db", "report"}]
  /\ backup \in Backups

Init ==
  /\ phase = "stopped" /\ active = NoService /\ stopRequested = FALSE /\ lastError = FALSE
  /\ starter = [s \in Service |-> "none"]
  /\ held = [s \in Service |-> {}]
  /\ serving = [s \in Service |-> "no"]
  /\ stopped = {}
  /\ closer = [s \in Service |-> "none"]
  /\ backup = NoBackup
  /\ RelayInit

-----------------------------------------------------------------------------
\* Start: the phase changes at once, the goroutine begins.
Start(s) ==
  /\ phase = "stopped"
  /\ starter[s] = "none" /\ closer[s] = "none" /\ backup.of # s /\ Of(s) = {}
  /\ phase' = "starting" /\ lastError' = FALSE /\ stopRequested' = FALSE
  /\ starter' = [starter EXCEPT ![s] = "starting"]
  /\ serving' = [serving EXCEPT ![s] = "no"]
  /\ stopped' = stopped \ {s}
  /\ UNCHANGED <<active, held, closer, backup, relayVars>>

\* startServer

\* bbolt's lock is exclusive against a reader too, a port is bound once.
Available(r) ==
  /\ r # "relay" => \A s \in Service : r \notin held[s]
  /\ r = "db" => backup.at # "copying"

\* The n-th resource; the last one is served at once.
Acquire(s, n) ==
  /\ starter[s] = "starting" /\ held[s] = First(n - 1)
  /\ Available(Resources[n])
  /\ held' = [held EXCEPT ![s] = First(n)]
  /\ serving' = IF n = 6 THEN [serving EXCEPT ![s] = "serving"] ELSE serving
  /\ IF Resources[n] = "relay" THEN NewRelay(s) ELSE UNCHANGED relayVars
  /\ UNCHANGED <<controlVars, starter, stopped, closer, backup>>

\* Taken by this server, or by another program, or the settings are wrong
AcquireFails(s) ==
  /\ starter[s] = "starting" /\ held[s] # Everything
  /\ starter' = [starter EXCEPT ![s] = "failing"]
  /\ UNCHANGED <<controlVars, held, serving, stopped, closer, backup, relayVars>>

\* The deferred cleanup, the last first
GiveBack(s, n) ==
  /\ starter[s] = "failing" /\ held[s] = First(n)
  /\ held' = [held EXCEPT ![s] = First(n - 1)]
  /\ IF Resources[n] = "relay" THEN CloseRelay(s) ELSE UNCHANGED relayVars
  /\ UNCHANGED <<controlVars, starter, serving, stopped, closer, backup>>

\* Mutant: an error of startServer, before its cleanup
StartFails_Early(s) ==
  /\ starter[s] = "failing"
  /\ phase' = "stopped" /\ lastError' = TRUE
  /\ starter' = [starter EXCEPT ![s] = "none"]
  /\ UNCHANGED <<active, stopRequested, held, serving, stopped, closer, backup, relayVars>>

StartFails(s) ==
  /\ starter[s] = "failing" /\ held[s] = {}
  /\ phase' = "stopped" /\ lastError' = TRUE
  /\ starter' = [starter EXCEPT ![s] = "none"]
  /\ UNCHANGED <<active, stopRequested, held, serving, stopped, closer, backup, relayVars>>

\* Mutant: a stop that came during the start is forgotten
Started_NoStop(s) ==
  /\ starter[s] = "starting" /\ held[s] = Everything
  /\ active' = s /\ phase' = "running"
  /\ starter' = [starter EXCEPT ![s] = "wait"]
  /\ UNCHANGED <<stopRequested, lastError, held, serving, stopped, closer, backup, relayVars>>

Started(s) ==
  /\ starter[s] = "starting" /\ held[s] = Everything
  /\ active' = s /\ phase' = "running"
  /\ starter' = [starter EXCEPT ![s] = IF stopRequested THEN "stop" ELSE "wait"]
  /\ UNCHANGED <<stopRequested, lastError, held, serving, stopped, closer, backup, relayVars>>

-----------------------------------------------------------------------------
\* Stop, whoever calls: it takes effect on the phase it finds.
Stop ==
  /\ stopRequested' = (stopRequested \/ phase = "starting")
  /\ phase' = IF phase = "running" THEN "stopping" ELSE phase
  /\ closer' = IF phase = "running" THEN [closer EXCEPT ![active] = "lock"] ELSE closer

\* The window's button, or its end
UserStop ==
  /\ phase \in {"starting", "running"}
  /\ Stop
  /\ UNCHANGED <<active, lastError, starter, held, serving, stopped, backup, relayVars>>

\* The goroutine of Start calls it for a stop that came too early, or when its
\* service has failed.
StopOwn(s) ==
  /\ starter[s] \in {"stop", "halt"}
  /\ Stop
  /\ starter' = [starter EXCEPT ![s] = "none"]
  /\ UNCHANGED <<active, lastError, held, serving, stopped, backup, relayVars>>

\* srv.Serve returns an error.
ServeFails(s) ==
  /\ serving[s] = "serving"
  /\ serving' = [serving EXCEPT ![s] = "failed"]
  /\ UNCHANGED <<controlVars, starter, held, stopped, closer, backup, relayVars>>

\* Mutant: the end of a service that failed is not noticed
Done_Ignored(s) ==
  /\ starter[s] = "wait" /\ serving[s] \in {"failed", "closed"}
  /\ starter' = [starter EXCEPT ![s] = "none"]
  /\ UNCHANGED <<controlVars, held, serving, stopped, closer, backup, relayVars>>

\* <-service.done
Done(s) ==
  /\ starter[s] = "wait" /\ serving[s] \in {"failed", "closed"}
  /\ starter' = [starter EXCEPT ![s] = IF serving[s] = "failed" THEN "report" ELSE "none"]
  /\ UNCHANGED <<controlVars, held, serving, stopped, closer, backup, relayVars>>

Report(s) ==
  /\ starter[s] = "report"
  /\ lastError' = (lastError \/ active = s)
  /\ starter' = [starter EXCEPT ![s] = "halt"]
  /\ UNCHANGED <<phase, active, stopRequested, held, serving, stopped, closer, backup, relayVars>>

-----------------------------------------------------------------------------
\* runningServer.Close, in the goroutine of Stop

Go(s, from, to) == closer[s] = from /\ closer' = [closer EXCEPT ![s] = to]

CloseBegin(s) ==
  /\ Go(s, "lock", "http")
  /\ ~(backup.at = "reading" /\ backup.of = s)
  /\ stopped' = stopped \cup {s}
  /\ UNCHANGED <<controlVars, starter, held, serving, backup, relayVars>>

\* http, listener and the hub with its connections (SignalHub)
CloseHTTP(s) ==
  /\ Go(s, "http", "turn")
  /\ held' = [held EXCEPT ![s] = @ \ {"https"}]
  /\ serving' = [serving EXCEPT ![s] = IF @ = "serving" THEN "closed" ELSE @]
  /\ UNCHANGED <<controlVars, starter, stopped, backup, relayVars>>

\* The TURN server closes its ports; its goroutines may be in AllocatePacketConn.
CloseTURN(s) ==
  /\ Go(s, "turn", "relay")
  /\ held' = [held EXCEPT ![s] = @ \ {"turn", "udp", "tls"}]
  /\ UNCHANGED <<controlVars, starter, serving, stopped, backup, relayVars>>

CloseGenerator(s) ==
  /\ Go(s, "relay", "wait")
  /\ CloseRelay(s)
  /\ UNCHANGED <<controlVars, starter, held, serving, stopped, backup>>

GeneratorClosed(s) ==
  /\ Go(s, "wait", "db")
  /\ RelayIsClosed(s)
  /\ UNCHANGED <<controlVars, starter, held, serving, stopped, backup, relayVars>>

CloseDatabase(s) ==
  /\ Go(s, "db", "report")
  /\ held' = [held EXCEPT ![s] = {}]
  /\ UNCHANGED <<controlVars, starter, serving, stopped, backup, relayVars>>

Stopped(s) ==
  /\ Go(s, "report", "none")
  /\ active' = IF active = s THEN NoService ELSE active
  /\ phase' = IF active = s THEN "stopped" ELSE phase
  /\ UNCHANGED <<stopRequested, lastError, starter, held, serving, stopped, backup, relayVars>>

-----------------------------------------------------------------------------
\* Backup: of the service that is active, or of the file when none is

Locked(s) == closer[s] \in {"http", "turn", "relay", "wait", "db"}

BackupAsked ==
  /\ backup = NoBackup /\ phase \in {"stopped", "running"}
  /\ backup' = IF active # NoService THEN [at |-> "live", of |-> active]
                 ELSE [at |-> "offline", of |-> NoService]
  /\ UNCHANGED <<controlVars, serviceVars, relayVars>>

\* Mutant: the service may have been closed since it was asked for
BackupLive_Stopped ==
  /\ backup.at = "live" /\ ~Locked(backup.of)
  /\ backup' = [at |-> "reading", of |-> backup.of]
  /\ UNCHANGED <<controlVars, serviceVars, relayVars>>

BackupLive ==
  /\ backup.at = "live" /\ ~Locked(backup.of)
  /\ backup' = IF backup.of \in stopped THEN NoBackup ELSE [at |-> "reading", of |-> backup.of]
  /\ UNCHANGED <<controlVars, serviceVars, relayVars>>

\* bbolt waits a second for the lock of the file.
BackupOffline ==
  /\ backup.at = "offline"
  /\ backup' = IF \A s \in Service : "db" \notin held[s]
                 THEN [at |-> "copying", of |-> NoService] ELSE NoBackup
  /\ UNCHANGED <<controlVars, serviceVars, relayVars>>

BackupDone ==
  /\ backup.at \in {"reading", "copying"}
  /\ backup' = NoBackup
  /\ UNCHANGED <<controlVars, serviceVars, relayVars>>

-----------------------------------------------------------------------------
\* The TURN server allocates for sessions of the hub, which exist only once the
\* service serves, and may be about to when it has been closed.
NewRelayed(p) ==
  /\ \E s \in Service : serving[s] # "no" /\ Allocate(p, s)
  /\ UNCHANGED <<controlVars, serviceVars, backup>>

Relayed(p) == RelayStep(p) /\ UNCHANGED <<controlVars, serviceVars, backup>>

ShutRelayed(p) == Shut(p) /\ UNCHANGED <<controlVars, serviceVars, backup>>

Starter(s) ==
  \/ \E n \in 1..6 : Acquire(s, n) \/ GiveBack(s, n)
  \/ AcquireFails(s) \/ StartFails(s) \/ Started(s)
  \/ StopOwn(s) \/ Done(s) \/ Report(s)

Closer(s) ==
  \/ CloseBegin(s) \/ CloseHTTP(s) \/ CloseTURN(s) \/ CloseGenerator(s)
  \/ GeneratorClosed(s) \/ CloseDatabase(s) \/ Stopped(s)

Backup == BackupAsked \/ BackupLive \/ BackupOffline \/ BackupDone

Next ==
  \/ UserStop
  \/ \E s \in Service : Start(s) \/ ServeFails(s) \/ Starter(s) \/ Closer(s)
  \/ Backup
  \/ \E p \in Packet : NewRelayed(p) \/ Relayed(p) \/ ShutRelayed(p)

Spec == Init /\ [][Next]_vars

\* Goroutines run, and what they wait for outside has time limits: lookups and
\* locks of files.  Nothing is asked of the user or the TURN clients.
Fairness ==
  /\ \A s \in Service : WF_vars(Starter(s)) /\ WF_vars(Closer(s))
  /\ WF_vars(BackupLive \/ BackupOffline \/ BackupDone)
  /\ \A p \in Packet :
       /\ WF_vars(Relayed(p))
       /\ WF_vars(packet[p] # NoPacket /\ p \in copied[packet[p].of] /\ ShutRelayed(p))

FairSpec == Spec /\ Fairness

-----------------------------------------------------------------------------
\* Properties

\* "Stopping closes every connection and frees the ports; it can be started
\* again" (server/README.md:17): when the controller says "stopped" nothing is
\* held by any service and no relay has a socket.
StoppedIsFree ==
  phase = "stopped" => \A s \in Service : held[s] = {} /\ Sockets(s) = {}

\* While the controller says "running" its service has everything it started
\* with, though goroutines of earlier ones may still be about to call Stop.
RunningIsWhole == phase = "running" => active # NoService /\ held[active] = Everything

\* A backup reads a database that is open: that of the service under whose lock
\* it is, or the file while no service has it.
BackupReadsOpen ==
  /\ backup.at = "reading" => "db" \in held[backup.of]
  /\ backup.at = "copying" => \A s \in Service : "db" \notin held[s]

\* Whatever the controller waits for, somebody is left to do it: a start has its
\* goroutine, a service that runs has one that sees it fail or calls Stop for the
\* stop that came too early, a stop has the one that closes.
SomebodyActs ==
  /\ phase = "starting" => \E s \in Service : starter[s] \in {"starting", "failing"}
  /\ phase = "running" => starter[active] \in {"stop", "wait", "report", "halt"}
  /\ phase = "running" /\ stopRequested => starter[active] = "stop"
  /\ phase = "stopping" => closer[active] # "none"

\* A stop is obeyed, also one that comes while the service starts, and every
\* stop comes to its end, whatever the relays and a backup are doing.
StopIsObeyed ==
  (phase = "starting" /\ stopRequested) \/ phase = "stopping" ~> phase = "stopped"

\* A service that fails by itself does not stay "running".
FailureIsNoticed ==
  \A s \in Service : serving[s] = "failed" /\ active = s ~> active # s

=============================================================================
