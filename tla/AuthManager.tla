---------------------------- MODULE AuthManager -----------------------------
(***************************************************************************)
(* The AuthManager of core/auth: one password per role, the tokens it has  *)
(* issued, requests that wait for the person at the host, and the failed   *)
(* logins of each address.  Every method holds mu from its first line to   *)
(* its last, so a method is one step.  Nothing runs in the background:     *)
(* what has run out is swept (cleanupLocked) when the next method starts,  *)
(* and what has run out and is not swept yet must not count either.        *)
(*                                                                         *)
(* Time is counted in ticks.  A token and a request id are drawn at        *)
(* random; here they are reused once nothing refers to them.               *)
(***************************************************************************)
EXTENDS Naturals, FiniteSets

CONSTANTS Token, NoToken,
          Request,       \* request ids
          Addr,          \* clientIP: an address, or whatever the caller counts by
          Password,
          NoPassword,    \* "", no login with a password for this role
          Minute,        \* ticks in a minute: window, block and approval
          Kept,          \* ticks in the five minutes a request is kept
          Day,           \* ticks in the 24 hours of a token
          MaxGuesses,    \* 5 failures block an address
          MaxSessions,   \* 4096
          MaxPending,    \* 16
          MaxRequests,   \* 256
          MaxFailing     \* 4096 addresses

RoleNone == 0
Roles == 1..3

ASSUME AuthManagerAssumption ==
  /\ NoToken \notin Token
  /\ NoPassword \notin Password
  /\ Minute \in Nat \ {0} /\ Kept \in Nat /\ Kept >= Minute /\ Day \in Nat \ {0}
  /\ MaxGuesses \in Nat \ {0}
  /\ MaxSessions \in Nat /\ MaxPending \in Nat /\ MaxRequests \in Nat /\ MaxFailing \in Nat

VARIABLES
  password,   \* viewPwd, standardPwd, adminPwd
  sessions,   \* token -> its session
  requests,   \* request id -> its request
  failures    \* address -> its failed logins

vars == <<password, sessions, requests, failures>>

\* "from" is a ghost: the password that was given, or NoPassword for an approval.
Session == [role : Roles, age : 0..Day+1, from : Password \cup {NoPassword}]
NoSession == [role |-> RoleNone, age |-> 0, from |-> NoPassword]

AuthRequest == [status : {"pending", "approved", "rejected", "expired"},
                addr : Addr, age : 0..Kept+1, role : Roles \cup {RoleNone},
                token : Token \cup {NoToken}]
NoRequest == [status |-> "none"]

Waiting(a) == [status |-> "pending", addr |-> a, age |-> 0, role |-> RoleNone, token |-> NoToken]
Decided(q, s) == [status |-> s, addr |-> q.addr, age |-> q.age, role |-> q.role, token |-> q.token]
Granted(q, role, t) ==
  [status |-> "approved", addr |-> q.addr, age |-> q.age, role |-> role, token |-> t]

LoginFailures == [count : 0..MaxGuesses, age : 0..2*Minute+1, block : 0..Minute]
NoFailure == [count |-> 0]
Failure(n, age, block) == [count |-> n, age |-> age, block |-> block]

TypeOK ==
  /\ password \in [Roles -> Password \cup {NoPassword}]
  /\ sessions \in [Token -> Session \cup {NoSession}]
  /\ requests \in [Request -> AuthRequest \cup {NoRequest}]
  /\ failures \in [Addr -> LoginFailures \cup {NoFailure}]

-----------------------------------------------------------------------------
\* Helpers

Issued(s) == {t \in Token : s[t] # NoSession}
Stored(q) == {r \in Request : q[r] # NoRequest}
Pending(q) == {r \in Request : q[r].status = "pending"}
Failing(f) == {a \in Addr : f[a] # NoFailure}

\* ValidateToken: a token that has run out does not count, swept or not.
Valid(t) == sessions[t] # NoSession /\ sessions[t].age <= Day

\* cleanupLocked, for each of the three tables
CleanSessions ==
  [t \in Token |-> IF sessions[t].age >= Day THEN NoSession ELSE sessions[t]]

CleanRequests ==
  [r \in Request |->
     CASE requests[r] = NoRequest -> NoRequest
       [] requests[r] # NoRequest /\ requests[r].age > Kept -> NoRequest
       [] requests[r].status = "pending" /\ requests[r].age \in Minute..Kept ->
            Decided(requests[r], "expired")
       [] OTHER -> requests[r]]

\* Mutant: an entry is forgotten although its block is in force
CleanFailures_Blocked ==
  [a \in Addr |-> IF failures[a] # NoFailure /\ failures[a].age >= Minute
                    THEN NoFailure ELSE failures[a]]

CleanFailures ==
  [a \in Addr |-> IF /\ failures[a] # NoFailure
                     /\ failures[a].age > 2*Minute /\ failures[a].block = 0
                    THEN NoFailure ELSE failures[a]]

Clean == /\ sessions' = CleanSessions
         /\ requests' = CleanRequests
         /\ failures' = CleanFailures

\* No session and no request has the token.
Fresh(t) == sessions[t] = NoSession /\ \A r \in Stored(requests) : requests[r].token # t

\* Passwords of two roles differ, unless there are none.
Distinct(p) == \A r1, r2 \in Roles : r1 # r2 /\ p[r1] # NoPassword => p[r1] # p[r2]

-----------------------------------------------------------------------------
\* NewAuthManager, and the settings its owner applies before anything else
Init ==
  /\ password \in {p \in [Roles -> Password \cup {NoPassword}] : Distinct(p)}
  /\ sessions = [t \in Token |-> NoSession]
  /\ requests = [r \in Request |-> NoRequest]
  /\ failures = [a \in Addr |-> NoFailure]

\* Mutant: tokens survive the passwords they were issued for
ApplyPasswords_KeepsTokens(p) ==
  /\ Distinct(p)
  /\ password' = p
  /\ UNCHANGED <<sessions, requests, failures>>

\* ApplyPasswords, and GenerateRandomPasswords, whose three PINs differ
ApplyPasswords(p) ==
  /\ Distinct(p)
  /\ password' = p
  /\ sessions' = [t \in Token |-> NoSession]
  /\ UNCHANGED <<requests, failures>>

\* SetPassword: a password another role has is refused; the tokens of the
\* role whose password changes are gone.
SetPassword(role, p) ==
  /\ p # NoPassword => \A other \in Roles \ {role} : password[other] # p
  /\ password' = [password EXCEPT ![role] = p]
  /\ sessions' = [t \in Token |-> IF sessions[t].role = role THEN NoSession ELSE sessions[t]]
  /\ UNCHANGED <<requests, failures>>

-----------------------------------------------------------------------------
\* AuthenticateByPassword

\* The roles p is the password of; the code asks for the highest one first.
RolesOf(p) == {r \in Roles : p # NoPassword /\ password[r] = p}

\* generateTokenLocked
Issue(t, role, p) ==
  sessions' = [CleanSessions EXCEPT ![t] = [role |-> role, age |-> 0, from |-> p]]

Room == Cardinality(Issued(CleanSessions)) < MaxSessions

\* The address is blocked, or the table of addresses is full.
Blocked(a) == CleanFailures[a] # NoFailure /\ CleanFailures[a].block > 0

NoPlace(a) == CleanFailures[a] = NoFailure /\ Cardinality(Failing(CleanFailures)) >= MaxFailing

LoginRefused(a) ==
  /\ Blocked(a) \/ NoPlace(a)
  /\ Clean
  /\ UNCHANGED password

\* The entry of an address at the time of an attempt: a new one, or one whose
\* minute is over, starts from zero.
Entry(a) ==
  LET f == CleanFailures[a]
  IN  IF f = NoFailure \/ f.age >= Minute THEN Failure(0, 0, 0) ELSE f

LoginFails(a, p) ==
  /\ ~Blocked(a) /\ ~NoPlace(a) /\ RolesOf(p) = {}
  /\ LET n == Entry(a).count + 1
     IN  failures' = [CleanFailures EXCEPT ![a] =
           Failure(n, Entry(a).age, IF n >= MaxGuesses THEN Minute ELSE 0)]
  /\ sessions' = CleanSessions /\ requests' = CleanRequests
  /\ UNCHANGED password

Login(a, p, t) ==
  /\ ~Blocked(a) /\ ~NoPlace(a)
  /\ \E role \in RolesOf(p) :
       /\ \A r \in RolesOf(p) : r <= role
       /\ Fresh(t) /\ Room
       /\ Issue(t, role, p)
  /\ failures' = [CleanFailures EXCEPT ![a] = NoFailure]
  /\ requests' = CleanRequests
  /\ UNCHANGED password

\* The right password, and no room for another session
LoginFull(a, p) ==
  /\ ~Blocked(a) /\ ~NoPlace(a) /\ RolesOf(p) # {} /\ ~Room
  /\ failures' = [CleanFailures EXCEPT ![a] = NoFailure]
  /\ sessions' = CleanSessions /\ requests' = CleanRequests
  /\ UNCHANGED password

-----------------------------------------------------------------------------
\* Requests

Waits(a) == \E r \in Pending(CleanRequests) : CleanRequests[r].addr = a

FullOfRequests ==
  \/ Cardinality(Pending(CleanRequests)) >= MaxPending
  \/ Cardinality(Stored(CleanRequests)) >= MaxRequests

\* The address has a request that waits, and is given that one; or there is
\* no room.
CreateNothing(a) ==
  /\ Waits(a) \/ FullOfRequests
  /\ Clean
  /\ UNCHANGED password

CreateRequest(a, r) ==
  /\ ~Waits(a) /\ ~FullOfRequests /\ requests[r] = NoRequest
  /\ requests' = [CleanRequests EXCEPT ![r] = Waiting(a)]
  /\ sessions' = CleanSessions /\ failures' = CleanFailures
  /\ UNCHANGED password

\* Mutant: a request is approved without another look at its status
ApproveRequest_Anyway(r, role, t) ==
  /\ r \in Stored(CleanRequests)
  /\ Fresh(t) /\ Room
  /\ Issue(t, role, NoPassword)
  /\ requests' = [CleanRequests EXCEPT ![r] = Granted(CleanRequests[r], role, t)]
  /\ failures' = CleanFailures
  /\ UNCHANGED password

\* Mutant: the request was pending the last time somebody swept
ApproveRequest_Stale(r, role, t) ==
  /\ r \in Pending(requests)
  /\ Fresh(t) /\ Room
  /\ Issue(t, role, NoPassword)
  /\ requests' = [requests EXCEPT ![r] = Granted(requests[r], role, t)]
  /\ failures' = CleanFailures
  /\ UNCHANGED password

ApproveRequest(r, role, t) ==
  /\ r \in Pending(CleanRequests)
  /\ Fresh(t) /\ Room
  /\ Issue(t, role, NoPassword)
  /\ requests' = [CleanRequests EXCEPT ![r] = Granted(CleanRequests[r], role, t)]
  /\ failures' = CleanFailures
  /\ UNCHANGED password

RejectRequest(r) ==
  /\ r \in Pending(CleanRequests)
  /\ requests' = [CleanRequests EXCEPT ![r] = Decided(CleanRequests[r], "rejected")]
  /\ sessions' = CleanSessions /\ failures' = CleanFailures
  /\ UNCHANGED password

\* A decision that comes too late, or again, or with no room for its token
DecideNothing(r) ==
  /\ r \notin Pending(CleanRequests) \/ ~Room
  /\ Clean
  /\ UNCHANGED password

\* GetRequestStatus, which only sweeps; its own look at the age comes after.
GetRequestStatus(r) ==
  /\ r \in Stored(requests)
  /\ Clean
  /\ UNCHANGED password

-----------------------------------------------------------------------------
RevokeToken(t) ==
  /\ sessions[t] # NoSession
  /\ sessions' = [sessions EXCEPT ![t] = NoSession]
  /\ UNCHANGED <<password, requests, failures>>

RevokeAllTokens ==
  /\ sessions' = [t \in Token |-> NoSession]
  /\ UNCHANGED <<password, requests, failures>>

\* Cleanup, with the heartbeat of every connected client
Cleanup == Clean /\ UNCHANGED password

\* The clock; ages beyond the last one that matters are one.
Older(n, cap) == IF n < cap THEN n + 1 ELSE n

OlderSession(s) ==
  IF s = NoSession THEN s ELSE [role |-> s.role, age |-> Older(s.age, Day + 1), from |-> s.from]

OlderRequest(q) ==
  IF q = NoRequest THEN q
    ELSE [status |-> q.status, addr |-> q.addr, age |-> Older(q.age, Kept + 1),
          role |-> q.role, token |-> q.token]

OlderFailure(f) ==
  IF f = NoFailure THEN f
    ELSE Failure(f.count, Older(f.age, 2*Minute + 1), IF f.block > 0 THEN f.block - 1 ELSE 0)

Tick ==
  /\ sessions' = [t \in Token |-> OlderSession(sessions[t])]
  /\ requests' = [r \in Request |-> OlderRequest(requests[r])]
  /\ failures' = [a \in Addr |-> OlderFailure(failures[a])]
  /\ UNCHANGED password

-----------------------------------------------------------------------------
Owner ==
  \/ \E p \in [Roles -> Password \cup {NoPassword}] : ApplyPasswords(p)
  \/ \E role \in Roles, p \in Password \cup {NoPassword} : SetPassword(role, p)
  \/ \E t \in Token : RevokeToken(t)
  \/ RevokeAllTokens
  \/ \E r \in Request :
       RejectRequest(r) \/ DecideNothing(r) \/ \E role \in Roles, t \in Token : ApproveRequest(r, role, t)

Visitor(a) ==
  \/ LoginRefused(a)
  \/ \E p \in Password \cup {NoPassword} :
       LoginFails(a, p) \/ LoginFull(a, p) \/ \E t \in Token : Login(a, p, t)
  \/ CreateNothing(a)
  \/ \E r \in Request : CreateRequest(a, r)

Next ==
  \/ Owner
  \/ \E a \in Addr : Visitor(a)
  \/ \E r \in Request : GetRequestStatus(r)
  \/ Cleanup
  \/ Tick

Spec == Init /\ [][Next]_vars

-----------------------------------------------------------------------------
\* Properties

\* A password names one role: SetPassword and ApplyPasswords keep them apart.
PasswordsDistinct == Distinct(password)

\* A token that a password was given for is valid no longer than the password
\* is the one of its role, and has that role.
TokensFollowPasswords ==
  \A t \in Token : Valid(t) /\ sessions[t].from # NoPassword =>
    password[sessions[t].role] = sessions[t].from

\* A session that was granted is shown by the request it was granted for, with
\* its role, until the request is forgotten: at least four minutes.  Nobody
\* holds a session that the person at the host did not grant, or granted once.
GrantsShown ==
  \A t \in Token :
    Valid(t) /\ sessions[t].from = NoPassword /\ sessions[t].age + Minute <= Kept + 1 =>
      \E r \in Stored(requests) : /\ requests[r].status = "approved"
                                 /\ requests[r].token = t
                                 /\ requests[r].role = sessions[t].role

\* An address has at most one request waiting, and the tables keep to their
\* limits, whatever expires, is decided or is swept in between.
OnePending ==
  \A r1, r2 \in Pending(requests) : requests[r1].addr = requests[r2].addr => r1 = r2

WithinLimits ==
  /\ Cardinality(Pending(requests)) <= MaxPending
  /\ Cardinality(Stored(requests)) <= MaxRequests
  /\ Cardinality(Issued(sessions)) <= MaxSessions
  /\ Cardinality(Failing(failures)) <= MaxFailing

\* An address that has used up its guesses is blocked, or its minute is over
\* and the next guess is counted from zero: no block can follow a block without
\* MaxGuesses new failures.
BlocksEnd ==
  \A a \in Failing(failures) : failures[a].count >= MaxGuesses =>
    failures[a].block > 0 \/ failures[a].age >= Minute

\* A block that is in force is not lifted, forgotten or started anew, and runs
\* down with the clock only.
BlockHolds(a) ==
  failures[a].block > 0 =>
    /\ failures'[a] # NoFailure
    /\ failures'[a].count = failures[a].count
    /\ failures'[a].block \in {failures[a].block, failures[a].block - 1}

BlocksHold == [][\A a \in Failing(failures) : BlockHolds(a)]_vars

\* Decisions are final: a request that was approved, rejected or has expired
\* stays so until it is forgotten, and it is only approved within its minute.
Final(r) ==
  \/ requests'[r] = NoRequest
  \/ /\ requests[r].status # "pending" /\ requests'[r].status = requests[r].status
     /\ requests'[r].role = requests[r].role /\ requests'[r].token = requests[r].token
  \/ requests[r].status = "pending" /\ (requests'[r].status = "approved" => requests[r].age < Minute)

DecisionsAreFinal == [][\A r \in Stored(requests) : Final(r)]_vars

=============================================================================
