------------------------- MODULE AuthManagerProofs --------------------------
(***************************************************************************)
(* Safety of AuthManager for any number of tokens, requests, addresses and *)
(* passwords, and any length of the minute and the day.                    *)
(*                                                                         *)
(* The methods change three tables in a few ways.  SessionStep,            *)
(* RequestStep and FailureStep say in which, one table at a time; the      *)
(* invariants are proved from these.  GrantSteps relates two tables.       *)
(***************************************************************************)
EXTENDS AuthManager, FiniteSetTheorems, TLAPS

\* TokensFollowPasswords of every session in the table, also of one that has
\* run out.
SessionsFollow ==
  \A t \in Token : sessions[t].from # NoPassword => password[sessions[t].role] = sessions[t].from

\* Why a block ends with a count that starts anew: it lasts a minute from the
\* failure on, and the entry is at least as old as the block is spent.
BlocksRunDown ==
  \A a \in Failing(failures) : failures[a].count >= MaxGuesses =>
    failures[a].age + failures[a].block >= Minute

IInv == TypeOK /\ PasswordsDistinct /\ SessionsFollow /\ OnePending /\ BlocksRunDown

-----------------------------------------------------------------------------
\* The ways in which a step changes the requests
RequestStep ==
  \/ requests' = requests
  \/ requests' = CleanRequests
  \/ \E a \in Addr, r \in Request :
       /\ ~Waits(a) /\ ~FullOfRequests /\ requests[r] = NoRequest
       /\ requests' = [CleanRequests EXCEPT ![r] = Waiting(a)]
  \/ \E r \in Pending(CleanRequests), role \in Roles, t \in Token :
       requests' = [CleanRequests EXCEPT ![r] = Granted(CleanRequests[r], role, t)]
  \/ \E r \in Pending(CleanRequests) :
       requests' = [CleanRequests EXCEPT ![r] = Decided(CleanRequests[r], "rejected")]
  \/ requests' = [r \in Request |-> OlderRequest(requests[r])]

\* The ways in which a step changes the failures
Failed(a) ==
  LET n == Entry(a).count + 1
  IN  Failure(n, Entry(a).age, IF n >= MaxGuesses THEN Minute ELSE 0)

FailureStep ==
  \/ failures' = failures
  \/ failures' = CleanFailures
  \/ \E a \in Addr : /\ ~Blocked(a) /\ ~NoPlace(a)
                     /\ failures' = [CleanFailures EXCEPT ![a] = Failed(a)]
  \/ \E a \in Addr : ~Blocked(a) /\ failures' = [CleanFailures EXCEPT ![a] = NoFailure]
  \/ failures' = [a \in Addr |-> OlderFailure(failures[a])]

\* The ways in which a step changes the passwords and the sessions
SessionStep ==
  \/ password' = password /\ sessions' = sessions
  \/ password' = password /\ sessions' = CleanSessions
  \/ /\ password' = password
     /\ \E t \in Token, role \in Roles, p \in Password \cup {NoPassword} :
          (p # NoPassword => password[role] = p) /\ Room /\ Issue(t, role, p)
  \/ /\ password' = password
     /\ \E t \in Token : sessions' = [sessions EXCEPT ![t] = NoSession]
  \/ password' = password /\ sessions' = [t \in Token |-> OlderSession(sessions[t])]
  \/ password' = password /\ sessions' = [t \in Token |-> NoSession]
  \/ \E p \in [Roles -> Password \cup {NoPassword}] : ApplyPasswords(p)
  \/ \E role \in Roles, p \in Password \cup {NoPassword} : SetPassword(role, p)

\* Each method is one of these ways for each of the tables.
LEMMA OwnerSteps == ASSUME Owner PROVE RequestStep /\ FailureStep /\ SessionStep
<1>1. CASE \E p \in [Roles -> Password \cup {NoPassword}] : ApplyPasswords(p)
  <2>1. UNCHANGED <<requests, failures>>
    BY <1>1 DEF ApplyPasswords
  <2>2. QED
    BY <1>1, <2>1 DEF RequestStep, FailureStep, SessionStep
<1>2. CASE \E role \in Roles, p \in Password \cup {NoPassword} : SetPassword(role, p)
  <2>1. UNCHANGED <<requests, failures>>
    BY <1>2 DEF SetPassword
  <2>2. QED
    BY <1>2, <2>1 DEF RequestStep, FailureStep, SessionStep
<1>3. CASE \E t \in Token : RevokeToken(t)
  <2>1. /\ UNCHANGED <<password, requests, failures>>
        /\ \E t \in Token : sessions' = [sessions EXCEPT ![t] = NoSession]
    BY <1>3 DEF RevokeToken
  <2>2. QED
    BY <2>1 DEF RequestStep, FailureStep, SessionStep
<1>4. CASE RevokeAllTokens
  <2>1. UNCHANGED <<password, requests, failures>> /\ sessions' = [t \in Token |-> NoSession]
    BY <1>4 DEF RevokeAllTokens
  <2>2. QED
    BY <2>1 DEF RequestStep, FailureStep, SessionStep
<1>5. ASSUME NEW r \in Request, RejectRequest(r)
      PROVE  RequestStep /\ FailureStep /\ SessionStep
  BY <1>5 DEF RejectRequest, RequestStep, FailureStep, SessionStep
<1>6. ASSUME NEW r \in Request, DecideNothing(r)
      PROVE  RequestStep /\ FailureStep /\ SessionStep
  BY <1>6 DEF DecideNothing, Clean, RequestStep, FailureStep, SessionStep
<1>7. ASSUME NEW r \in Request, NEW role \in Roles, NEW t \in Token, ApproveRequest(r, role, t)
      PROVE  RequestStep /\ FailureStep /\ SessionStep
  <2>1. /\ password' = password /\ failures' = CleanFailures
        /\ Room /\ Issue(t, role, NoPassword) /\ r \in Pending(CleanRequests)
        /\ requests' = [CleanRequests EXCEPT ![r] = Granted(CleanRequests[r], role, t)]
    BY <1>7 DEF ApproveRequest
  <2>2. QED
    BY <2>1 DEF RequestStep, FailureStep, SessionStep
<1>8. QED
  BY <1>1, <1>2, <1>3, <1>4, <1>5, <1>6, <1>7 DEF Owner

\* So is each method a client calls.
LEMMA VisitorSteps ==
  ASSUME NEW a \in Addr, Visitor(a) PROVE RequestStep /\ FailureStep /\ SessionStep
<1>1. CASE LoginRefused(a) \/ CreateNothing(a)
  BY <1>1 DEF LoginRefused, CreateNothing, Clean, RequestStep, FailureStep, SessionStep
<1>2. ASSUME NEW p \in Password \cup {NoPassword}, LoginFails(a, p)
      PROVE  RequestStep /\ FailureStep /\ SessionStep
  BY <1>2 DEF LoginFails, Failed, RequestStep, FailureStep, SessionStep
<1>3. ASSUME NEW p \in Password \cup {NoPassword}, LoginFull(a, p)
      PROVE  RequestStep /\ FailureStep /\ SessionStep
  BY <1>3 DEF LoginFull, RequestStep, FailureStep, SessionStep
<1>4. ASSUME NEW p \in Password \cup {NoPassword}, NEW t \in Token, Login(a, p, t)
      PROVE  RequestStep /\ FailureStep /\ SessionStep
  <2>1. /\ password' = password /\ requests' = CleanRequests
        /\ ~Blocked(a) /\ failures' = [CleanFailures EXCEPT ![a] = NoFailure]
    BY <1>4 DEF Login
  <2>2. PICK role \in Roles : password[role] = p /\ Room /\ Issue(t, role, p)
    BY <1>4 DEF Login, RolesOf
  <2>3. QED
    BY <2>1, <2>2 DEF RequestStep, FailureStep, SessionStep
<1>5. ASSUME NEW r \in Request, CreateRequest(a, r)
      PROVE  RequestStep /\ FailureStep /\ SessionStep
  BY <1>5 DEF CreateRequest, RequestStep, FailureStep, SessionStep
<1>6. QED
  BY <1>1, <1>2, <1>3, <1>4, <1>5 DEF Visitor

\* And so is every step.
LEMMA Steps == ASSUME [Next]_vars PROVE RequestStep /\ FailureStep /\ SessionStep
<1>1. CASE UNCHANGED vars
  BY <1>1 DEF vars, RequestStep, FailureStep, SessionStep
<1>2. CASE Cleanup \/ \E r \in Request : GetRequestStatus(r)
  BY <1>2 DEF Cleanup, GetRequestStatus, Clean, RequestStep, FailureStep, SessionStep
<1>3. CASE Tick
  BY <1>3 DEF Tick, RequestStep, FailureStep, SessionStep
<1>4. QED
  BY <1>1, <1>2, <1>3, OwnerSteps, VisitorSteps DEF Next

-----------------------------------------------------------------------------
USE AuthManagerAssumption

\* What the sweep leaves of each table
LEMMA CleanRequest ==
  ASSUME TypeOK, NEW r \in Request
  PROVE  /\ CleanRequests[r] \in AuthRequest \cup {NoRequest}
         /\ requests[r] = NoRequest => CleanRequests[r] = NoRequest
         /\ CleanRequests[r] # NoRequest =>
              /\ requests[r] # NoRequest
              /\ CleanRequests[r].addr = requests[r].addr
              /\ CleanRequests[r].age = requests[r].age
              /\ CleanRequests[r].role = requests[r].role
              /\ CleanRequests[r].token = requests[r].token
              /\ \/ CleanRequests[r].status = requests[r].status
                 \/ requests[r].status = "pending" /\ CleanRequests[r].status = "expired"
         /\ r \in Pending(CleanRequests) =>
              CleanRequests[r] = requests[r] /\ CleanRequests[r] \in AuthRequest /\ requests[r].age < Minute
         /\ requests[r] # NoRequest /\ requests[r].age <= Kept => CleanRequests[r] # NoRequest
<1>1. CASE requests[r] = NoRequest
  BY <1>1 DEF CleanRequests, NoRequest, Pending
<1>2. CASE requests[r] # NoRequest /\ requests[r].age > Kept
  <2>1. CleanRequests[r] = NoRequest
    BY <1>2 DEF CleanRequests
  <2>2. ~(requests[r].age <= Kept)
    BY <1>2 DEF TypeOK, AuthRequest
  <2>3. QED
    BY <1>2, <2>1, <2>2 DEF NoRequest, Pending
<1>3. CASE requests[r] # NoRequest /\ requests[r].age <= Kept
  <2>1. requests[r] \in AuthRequest /\ requests[r].age \in Nat
    BY <1>3 DEF TypeOK, AuthRequest
  <2>2. CASE requests[r].status = "pending" /\ requests[r].age \in Minute..Kept
    <3>1. CleanRequests[r] = Decided(requests[r], "expired")
      BY <1>3, <2>1, <2>2 DEF CleanRequests
    <3>2. QED
      BY <1>3, <2>1, <2>2, <3>1 DEF Decided, AuthRequest, NoRequest, Pending
  <2>3. CASE ~(requests[r].status = "pending" /\ requests[r].age \in Minute..Kept)
    <3>1. CleanRequests[r] = requests[r]
      BY <1>3, <2>1, <2>3 DEF CleanRequests
    <3>2. requests[r].status = "pending" => requests[r].age < Minute
      BY <1>3, <2>1, <2>3
    <3>3. QED
      BY <1>3, <2>1, <3>1, <3>2 DEF Pending
  <2>4. QED
    BY <2>2, <2>3
<1>4. QED
  <2>1. requests[r] \in AuthRequest \/ requests[r] = NoRequest
    BY DEF TypeOK
  <2>2. requests[r] \in AuthRequest => requests[r].age \in Nat
    BY DEF AuthRequest
  <2>3. QED
    BY <1>1, <1>2, <1>3, <2>1, <2>2

\* The sweep forgets an address only when no block of it is in force.
LEMMA CleanFailure ==
  ASSUME TypeOK, NEW a \in Addr
  PROVE  CleanFailures[a] = failures[a] \/ (CleanFailures[a] = NoFailure /\ failures[a].block = 0)
BY DEF CleanFailures, TypeOK

\* The sweep leaves a session as it is or removes it.
LEMMA CleanSession ==
  ASSUME TypeOK, NEW t \in Token
  PROVE  CleanSessions[t] = sessions[t] \/ CleanSessions[t] = NoSession
BY DEF CleanSessions, TypeOK

-----------------------------------------------------------------------------
\* Types

\* Requests keep their type, swept, decided or one tick older.
LEMMA RequestTypes ==
  ASSUME TypeOK, RequestStep
  PROVE  requests' \in [Request -> AuthRequest \cup {NoRequest}]
<1>1. CleanRequests \in [Request -> AuthRequest \cup {NoRequest}]
  <2>1. \A r \in Request : CleanRequests[r] \in AuthRequest \cup {NoRequest}
    BY CleanRequest
  <2>2. QED
    BY <2>1 DEF CleanRequests
<1>2. \A a \in Addr : Waiting(a) \in AuthRequest
  BY DEF Waiting, AuthRequest
<1>3. \A q \in AuthRequest, role \in Roles, t \in Token : Granted(q, role, t) \in AuthRequest
  BY DEF Granted, AuthRequest
<1>4. \A q \in AuthRequest : Decided(q, "rejected") \in AuthRequest
  BY DEF Decided, AuthRequest
<1>5. \A r \in Pending(CleanRequests) : CleanRequests[r] \in AuthRequest
  BY CleanRequest DEF Pending
<1>6. \A q \in AuthRequest \cup {NoRequest} : OlderRequest(q) \in AuthRequest \cup {NoRequest}
  BY DEF OlderRequest, Older, AuthRequest, NoRequest
<1>7. ASSUME NEW r \in Request, NEW q \in AuthRequest, requests' = [CleanRequests EXCEPT ![r] = q]
      PROVE  requests' \in [Request -> AuthRequest \cup {NoRequest}]
  BY <1>1, <1>7
<1>8. CASE requests' = [r \in Request |-> OlderRequest(requests[r])]
  BY <1>6, <1>8 DEF TypeOK
<1>9. CASE requests' = requests \/ requests' = CleanRequests
  BY <1>1, <1>9 DEF TypeOK
<1>10. QED
  BY <1>2, <1>3, <1>4, <1>5, <1>7, <1>8, <1>9 DEF RequestStep, Pending

\* A count stays within its range as a new attempt finds it below the limit.
LEMMA FailureTypes ==
  ASSUME TypeOK, BlocksEnd, FailureStep
  PROVE  failures' \in [Addr -> LoginFailures \cup {NoFailure}]
<1>1. CleanFailures \in [Addr -> LoginFailures \cup {NoFailure}]
  BY DEF CleanFailures, TypeOK
<1>2. ASSUME NEW a \in Addr, ~Blocked(a) PROVE Failed(a) \in LoginFailures
  <2>1. Entry(a) \in LoginFailures /\ Entry(a).count < MaxGuesses
    <3>1. CASE CleanFailures[a] = NoFailure
      BY <3>1 DEF Entry, Failure, LoginFailures
    <3>2. CASE CleanFailures[a] # NoFailure
      <4>1. CleanFailures[a] = failures[a] /\ failures[a] \in LoginFailures /\ a \in Failing(failures)
        BY <1>1, <3>2, CleanFailure DEF Failing, TypeOK
      <4>2. failures[a].block = 0 /\ failures[a].count \in 0..MaxGuesses /\ failures[a].age \in Nat
        BY <1>2, <3>2, <4>1 DEF Blocked, LoginFailures
      <4>3. failures[a].count >= MaxGuesses => failures[a].age >= Minute
        BY <4>1, <4>2 DEF BlocksEnd
      <4>4. QED
        BY <3>2, <4>1, <4>2, <4>3 DEF Entry, Failure, LoginFailures
    <3>3. QED
      BY <3>1, <3>2
  <2>2. QED
    BY <2>1 DEF Failed, Failure, LoginFailures
<1>3. \A f \in LoginFailures \cup {NoFailure} : OlderFailure(f) \in LoginFailures \cup {NoFailure}
  BY DEF OlderFailure, Older, Failure, LoginFailures, NoFailure
<1>4. QED
  BY <1>1, <1>2, <1>3 DEF FailureStep, TypeOK

\* Sessions and passwords keep their types.
LEMMA SessionTypes ==
  ASSUME TypeOK, SessionStep
  PROVE  /\ password' \in [Roles -> Password \cup {NoPassword}]
         /\ sessions' \in [Token -> Session \cup {NoSession}]
<1>1. CleanSessions \in [Token -> Session \cup {NoSession}]
  BY DEF CleanSessions, TypeOK
<1>2. ASSUME NEW t \in Token, NEW role \in Roles, NEW p \in Password \cup {NoPassword}, Issue(t, role, p)
      PROVE  sessions' \in [Token -> Session \cup {NoSession}]
  <2>1. [role |-> role, age |-> 0, from |-> p] \in Session
    BY DEF Session
  <2>2. QED
    BY <1>1, <1>2, <2>1 DEF Issue
<1>3. \A s \in Session \cup {NoSession} : OlderSession(s) \in Session \cup {NoSession}
  BY DEF OlderSession, Older, Session, NoSession
<1>4. ASSUME NEW p \in [Roles -> Password \cup {NoPassword}], ApplyPasswords(p)
      PROVE  /\ password' \in [Roles -> Password \cup {NoPassword}]
             /\ sessions' \in [Token -> Session \cup {NoSession}]
  BY <1>4 DEF ApplyPasswords
<1>5. ASSUME NEW role \in Roles, NEW p \in Password \cup {NoPassword}, SetPassword(role, p)
      PROVE  /\ password' \in [Roles -> Password \cup {NoPassword}]
             /\ sessions' \in [Token -> Session \cup {NoSession}]
  BY <1>5 DEF SetPassword, TypeOK
<1>6. QED
  BY <1>1, <1>2, <1>3, <1>4, <1>5 DEF SessionStep, TypeOK

-----------------------------------------------------------------------------
\* The invariants, table by table

\* Only CreateRequest makes a request pending, and it has looked for another
\* one of the address in the table it extends.
LEMMA OnePendingKept ==
  ASSUME TypeOK, OnePending, RequestStep
  PROVE  OnePending'
<1>0. CleanRequests = [r \in Request |-> CleanRequests[r]]
  BY DEF CleanRequests
<1>1. \A r \in Pending(CleanRequests) : r \in Pending(requests) /\ CleanRequests[r] = requests[r]
  BY CleanRequest DEF Pending
<1>2. \A r1, r2 \in Pending(CleanRequests) : CleanRequests[r1].addr = CleanRequests[r2].addr => r1 = r2
  BY <1>1 DEF OnePending
<1>3. CASE requests' = requests \/ requests' = CleanRequests
  BY <1>2, <1>3 DEF OnePending, Pending
<1>4. ASSUME NEW a \in Addr, NEW r \in Request, ~Waits(a), requests[r] = NoRequest,
             requests' = [CleanRequests EXCEPT ![r] = Waiting(a)]
      PROVE  OnePending'
  <2>1. requests' = [x \in Request |-> IF x = r THEN Waiting(a) ELSE CleanRequests[x]]
    BY <1>0, <1>4
  <2>2. \A x \in Pending(CleanRequests) : CleanRequests[x].addr # a
    BY <1>4 DEF Waits
  <2>3. Waiting(a).addr = a
    BY DEF Waiting
  <2>4. \A x \in Pending(requests') : x # r => x \in Pending(CleanRequests) /\ requests'[x] = CleanRequests[x]
    BY <2>1 DEF Pending
  <2>5. requests'[r] = Waiting(a)
    BY <2>1
  <2>6. \A x1, x2 \in Pending(requests') : requests'[x1].addr = requests'[x2].addr => x1 = x2
    BY <1>2, <2>2, <2>3, <2>4, <2>5
  <2>7. QED
    BY <2>6 DEF OnePending
<1>5. ASSUME NEW r \in Pending(CleanRequests), NEW q, q.status # "pending",
             requests' = [CleanRequests EXCEPT ![r] = q]
      PROVE  OnePending'
  <2>1. requests' = [x \in Request |-> IF x = r THEN q ELSE CleanRequests[x]]
    BY <1>0, <1>5
  <2>2. QED
    BY <1>2, <1>5, <2>1 DEF OnePending, Pending
<1>6. CASE requests' = [r \in Request |-> OlderRequest(requests[r])]
  <2>1. \A r \in Request : r \in Pending(requests)' => r \in Pending(requests)
    BY <1>6 DEF Pending, OlderRequest
  <2>2. \A r \in Pending(requests) : requests'[r].addr = requests[r].addr
    BY <1>6 DEF Pending, OlderRequest, NoRequest
  <2>3. QED
    BY <2>1, <2>2 DEF OnePending, Pending
<1>7. \A q, role, t : Granted(q, role, t).status # "pending" /\ Decided(q, "rejected").status # "pending"
  BY DEF Granted, Decided
<1>8. QED
  BY <1>3, <1>4, <1>5, <1>6, <1>7 DEF RequestStep

\* A failure that reaches the limit starts a block of a minute; while it runs
\* down the entry ages as fast, and an attempt after that starts from zero.
LEMMA BlocksRunDownKept ==
  ASSUME TypeOK, BlocksRunDown, FailureStep
  PROVE  BlocksRunDown'
<1>1. CASE failures' = failures \/ failures' = CleanFailures
  BY <1>1, CleanFailure DEF BlocksRunDown, Failing
<1>2. ASSUME NEW a \in Addr, NEW f, failures' = [CleanFailures EXCEPT ![a] = f],
             f # NoFailure => (f.count >= MaxGuesses => f.age + f.block >= Minute)
      PROVE  BlocksRunDown'
  <2>1. failures' = [x \in Addr |-> IF x = a THEN f ELSE CleanFailures[x]]
    BY <1>2 DEF CleanFailures
  <2>2. QED
    BY <1>2, <2>1, CleanFailure DEF BlocksRunDown, Failing
<1>3. ASSUME NEW a \in Addr, ~Blocked(a), Failed(a).count >= MaxGuesses
      PROVE  Failed(a).age + Failed(a).block >= Minute
  <2>1. Failed(a).block = Minute /\ Failed(a).age = Entry(a).age
    BY <1>3 DEF Failed, Failure
  <2>2. Entry(a).age \in Nat
    BY CleanFailure DEF Entry, Failure, TypeOK, LoginFailures
  <2>3. QED
    BY <2>1, <2>2
<1>4. CASE failures' = [a \in Addr |-> OlderFailure(failures[a])]
  <2> SUFFICES ASSUME NEW a \in Addr, failures'[a] # NoFailure, failures'[a].count >= MaxGuesses
               PROVE  failures'[a].age + failures'[a].block >= Minute
    BY DEF BlocksRunDown, Failing
  <2>1. failures[a] # NoFailure /\ failures[a] \in LoginFailures
    BY <1>4 DEF OlderFailure, TypeOK
  <2>2. failures'[a] = Failure(failures[a].count, Older(failures[a].age, 2*Minute + 1),
                               IF failures[a].block > 0 THEN failures[a].block - 1 ELSE 0)
    BY <1>4, <2>1 DEF OlderFailure
  <2>3. failures[a].age + failures[a].block >= Minute
    BY <2>1, <2>2 DEF BlocksRunDown, Failing, Failure
  <2>4. failures[a].age \in 0..2*Minute+1 /\ failures[a].block \in 0..Minute
    BY <2>1 DEF LoginFailures
  <2>5. /\ failures'[a].age = Older(failures[a].age, 2*Minute + 1)
        /\ failures'[a].block = IF failures[a].block > 0 THEN failures[a].block - 1 ELSE 0
    BY <2>2 DEF Failure
  <2>6. QED
    BY <2>3, <2>4, <2>5 DEF Older
<1>5. QED
  BY <1>1, <1>2, <1>3, <1>4 DEF FailureStep

\* When the block is spent the minute of its entry is over.
LEMMA RunDownEnds == TypeOK /\ BlocksRunDown => BlocksEnd
BY DEF BlocksRunDown, BlocksEnd, Failing, TypeOK, LoginFailures

\* A password changes together with the sessions it was given for.
LEMMA PasswordsKept ==
  ASSUME TypeOK, PasswordsDistinct, SessionsFollow, SessionStep
  PROVE  PasswordsDistinct' /\ SessionsFollow'
<1>1. ASSUME password' = password,
             \A t \in Token : sessions'[t] = sessions[t] \/ sessions'[t] = NoSession
      PROVE  PasswordsDistinct' /\ SessionsFollow'
  BY <1>1 DEF PasswordsDistinct, Distinct, SessionsFollow, NoSession
<1>2. CASE password' = password /\ (sessions' = sessions \/ sessions' = CleanSessions)
  BY <1>1, <1>2, CleanSession
<1>3. ASSUME password' = password, NEW t \in Token, NEW role \in Roles,
             NEW p \in Password \cup {NoPassword}, p # NoPassword => password[role] = p, Issue(t, role, p)
      PROVE  PasswordsDistinct' /\ SessionsFollow'
  <2>1. \A x \in Token : \/ x = t /\ sessions'[x] = [role |-> role, age |-> 0, from |-> p]
                         \/ x # t /\ (sessions'[x] = sessions[x] \/ sessions'[x] = NoSession)
    BY <1>3, CleanSession DEF Issue, CleanSessions
  <2>2. SessionsFollow'
    BY <1>3, <2>1 DEF SessionsFollow, NoSession
  <2>3. QED
    BY <1>3, <2>2 DEF PasswordsDistinct, Distinct
<1>4. CASE password' = password /\ \E t \in Token : sessions' = [sessions EXCEPT ![t] = NoSession]
  BY <1>1, <1>4 DEF TypeOK
<1>5. CASE password' = password /\ sessions' = [t \in Token |-> OlderSession(sessions[t])]
  <2>1. \A t \in Token : sessions'[t].from = sessions[t].from /\ sessions'[t].role = sessions[t].role
    BY <1>5 DEF OlderSession
  <2>2. QED
    BY <1>5, <2>1 DEF PasswordsDistinct, Distinct, SessionsFollow
<1>6. CASE password' = password /\ sessions' = [t \in Token |-> NoSession]
  BY <1>1, <1>6
<1>7. CASE \E p \in [Roles -> Password \cup {NoPassword}] : ApplyPasswords(p)
  BY <1>7 DEF ApplyPasswords, PasswordsDistinct, SessionsFollow, NoSession
<1>8. ASSUME NEW role \in Roles, NEW p \in Password \cup {NoPassword}, SetPassword(role, p)
      PROVE  PasswordsDistinct' /\ SessionsFollow'
  <2>1. password' = [r \in Roles |-> IF r = role THEN p ELSE password[r]]
    BY <1>8 DEF SetPassword, TypeOK
  <2>2. p # NoPassword => \A r \in Roles : r # role => password[r] # p
    BY <1>8 DEF SetPassword
  <2>3. PasswordsDistinct'
    BY <2>1, <2>2 DEF PasswordsDistinct, Distinct
  <2>4. \A t \in Token : IF sessions[t].role = role THEN sessions'[t] = NoSession
                                                    ELSE sessions'[t] = sessions[t]
    BY <1>8 DEF SetPassword
  <2>5. \A t \in Token : sessions[t].from # NoPassword => sessions[t].role \in Roles
    BY DEF TypeOK, Session, NoSession
  <2>6. SessionsFollow'
    BY <2>1, <2>4, <2>5 DEF SessionsFollow, NoSession
  <2>7. QED
    BY <2>3, <2>6
<1>9. QED
  BY <1>2, <1>3, <1>4, <1>5, <1>6, <1>7, <1>8 DEF SessionStep

-----------------------------------------------------------------------------
\* The inductive invariant, and the properties the runs check

\* It holds of a new manager,
LEMMA InitIInv == Init => IInv
<1> SUFFICES ASSUME Init PROVE IInv
  OBVIOUS
<1>1. TypeOK
  BY DEF Init, TypeOK
<1>2. SessionsFollow
  BY DEF Init, SessionsFollow, NoSession
<1>3. OnePending
  BY DEF Init, OnePending, Pending, NoRequest
<1>4. BlocksRunDown /\ PasswordsDistinct
  BY DEF Init, BlocksRunDown, Failing, PasswordsDistinct
<1>5. QED
  BY <1>1, <1>2, <1>3, <1>4 DEF IInv

\* and every step keeps it.
LEMMA NextIInv == IInv /\ [Next]_vars => IInv'
<1> SUFFICES ASSUME IInv, [Next]_vars PROVE IInv'
  OBVIOUS
<1>1. RequestStep /\ FailureStep /\ SessionStep
  BY Steps
<1>2. TypeOK'
  BY <1>1, RunDownEnds, RequestTypes, FailureTypes, SessionTypes DEF IInv, TypeOK
<1>3. QED
  BY <1>1, <1>2, OnePendingKept, BlocksRunDownKept, PasswordsKept DEF IInv

\* The invariant the theorems below rest on
THEOREM Invariant == Spec => []IInv
BY InitIInv, NextIInv, PTL DEF Spec

\* The tables keep their types for any number of tokens, requests and addresses.
THEOREM TypeCorrect == Spec => []TypeOK
<1>1. IInv => TypeOK
  BY DEF IInv
<1>2. QED
  BY <1>1, Invariant, PTL

\* ApplyPasswords and SetPassword keep the passwords of the three roles apart.
THEOREM PasswordsAreDistinct == Spec => []PasswordsDistinct
<1>1. IInv => PasswordsDistinct
  BY DEF IInv
<1>2. QED
  BY <1>1, Invariant, PTL

\* A token is valid no longer than the password it was given for.
THEOREM TokensFollow == Spec => []TokensFollowPasswords
<1>1. IInv => TokensFollowPasswords
  BY DEF IInv, SessionsFollow, TokensFollowPasswords
<1>2. QED
  BY <1>1, Invariant, PTL

\* CreateRequest never makes a second pending request for an address.
THEOREM OneRequestWaits == Spec => []OnePending
<1>1. IInv => OnePending
  BY DEF IInv
<1>2. QED
  BY <1>1, Invariant, PTL

\* An address that used up its guesses gets all of them back after its block.
THEOREM BlocksDoEnd == Spec => []BlocksEnd
<1>1. IInv => BlocksEnd
  BY RunDownEnds DEF IInv
<1>2. QED
  BY <1>1, Invariant, PTL

-----------------------------------------------------------------------------
\* Action properties

\* cleanupLocked ends what is pending and forgets what is old; a decision needs
\* a request that is still pending after that.
THEOREM DecisionsFinal == Spec => DecisionsAreFinal
<1>1. ASSUME IInv, [Next]_vars, NEW r \in Stored(requests) PROVE Final(r)
  <2> USE DEF Final
  <2>1. TypeOK /\ RequestStep /\ r \in Request /\ requests[r] # NoRequest
    BY <1>1, Steps DEF IInv, Stored
  <2>2. CASE requests' = requests
    BY <2>1, <2>2 DEF TypeOK, AuthRequest
  <2>3. CASE requests'[r] = CleanRequests[r]
    BY <2>1, <2>3, CleanRequest DEF TypeOK, AuthRequest
  <2>4. CASE /\ r \in Pending(CleanRequests)
             /\ \E q : requests' = [CleanRequests EXCEPT ![r] = q]
    BY <2>1, <2>4, CleanRequest DEF Pending
  <2>5. CASE requests' = [x \in Request |-> OlderRequest(requests[x])]
    BY <2>1, <2>5 DEF OlderRequest
  <2>6. ASSUME NEW x \in Request, NEW q, requests' = [CleanRequests EXCEPT ![x] = q]
        PROVE  x = r \/ requests'[r] = CleanRequests[r]
    BY <2>1, <2>6 DEF CleanRequests
  <2>7. ASSUME NEW x \in Request, NEW q, x \in Pending(CleanRequests) \/ requests[x] = NoRequest,
               requests' = [CleanRequests EXCEPT ![x] = q]
        PROVE  Final(r)
    BY <2>1, <2>3, <2>4, <2>6, <2>7
  <2>8. \/ requests' = requests \/ requests' = CleanRequests
        \/ \E x \in Request : \E q : /\ x \in Pending(CleanRequests) \/ requests[x] = NoRequest
                                     /\ requests' = [CleanRequests EXCEPT ![x] = q]
        \/ requests' = [x \in Request |-> OlderRequest(requests[x])]
    <3>1. \A x \in Pending(CleanRequests) : x \in Request
      BY DEF Pending
    <3> HIDE DEF Final
    <3> QED
      BY <2>1, <3>1 DEF RequestStep
  <2>9. CASE requests' = CleanRequests
    BY <2>3, <2>9
  <2> HIDE DEF Final
  <2>10. QED
    BY <2>2, <2>5, <2>7, <2>8, <2>9
<1>2. IInv /\ [Next]_vars => [\A r \in Stored(requests) : Final(r)]_vars
  BY <1>1
<1>3. QED
  BY <1>2, Invariant, PTL DEF Spec, DecisionsAreFinal

\* Only the clock takes from a block: an attempt is refused before it counts,
\* and cleanupLocked spares the entry.
THEOREM BlocksDoHold == Spec => BlocksHold
<1>1. ASSUME IInv, [Next]_vars, NEW a \in Failing(failures), failures[a].block > 0 PROVE BlockHolds(a)
  <2> USE DEF BlockHolds
  <2>1. TypeOK /\ FailureStep /\ a \in Addr /\ failures[a] # NoFailure /\ failures[a] \in LoginFailures
    BY <1>1, Steps DEF IInv, Failing, TypeOK
  <2>2. CleanFailures[a] = failures[a]
    BY <1>1, <2>1, CleanFailure DEF LoginFailures
  <2>3. Blocked(a)
    BY <1>1, <2>1, <2>2 DEF Blocked
  <2>4. CASE failures'[a] = failures[a]
    BY <2>1, <2>4 DEF LoginFailures
  <2>5. ASSUME NEW x \in Addr, NEW f, ~Blocked(x), failures' = [CleanFailures EXCEPT ![x] = f]
        PROVE  failures'[a] = failures[a]
    BY <2>1, <2>2, <2>3, <2>5 DEF CleanFailures
  <2>6. CASE failures' = [x \in Addr |-> OlderFailure(failures[x])]
    <3>1. failures'[a] = Failure(failures[a].count, Older(failures[a].age, 2*Minute + 1),
                                 failures[a].block - 1)
      BY <1>1, <2>1, <2>6 DEF OlderFailure
    <3>2. failures'[a] # NoFailure
      BY <3>1 DEF Failure, NoFailure
    <3>3. QED
      BY <3>1, <3>2 DEF Failure
  <2>7. \/ failures' = failures \/ failures' = CleanFailures
        \/ \E x \in Addr : \E f : ~Blocked(x) /\ failures' = [CleanFailures EXCEPT ![x] = f]
        \/ failures' = [x \in Addr |-> OlderFailure(failures[x])]
    BY <2>1 DEF FailureStep
  <2>8. CASE failures' = failures \/ failures' = CleanFailures
    BY <2>2, <2>4, <2>8
  <2>9. ASSUME NEW x \in Addr, NEW f, ~Blocked(x), failures' = [CleanFailures EXCEPT ![x] = f]
        PROVE  BlockHolds(a)
    BY <2>4, <2>5, <2>9
  <2> HIDE DEF BlockHolds
  <2>10. QED
    BY <2>6, <2>7, <2>8, <2>9
<1>2. IInv /\ [Next]_vars => [\A a \in Failing(failures) : BlockHolds(a)]_vars
  BY <1>1 DEF BlockHolds
<1>3. QED
  BY <1>2, Invariant, PTL DEF Spec, BlocksHold

-----------------------------------------------------------------------------
\* The limits of the tables

\* WithinLimits, of tables that are finite
Limited(S, n) == IsFiniteSet(S) /\ Cardinality(S) <= n

Limits ==
  /\ Limited(Pending(requests), MaxPending) /\ Limited(Stored(requests), MaxRequests)
  /\ Limited(Issued(sessions), MaxSessions) /\ Limited(Failing(failures), MaxFailing)

\* A table that loses entries keeps its limit,
LEMMA LimitedSubset ==
  ASSUME NEW S, NEW n \in Nat, Limited(S, n), NEW T, T \subseteq S PROVE Limited(T, n)
<1>1. IsFiniteSet(T) /\ Cardinality(T) <= Cardinality(S)
  BY FS_Subset DEF Limited
<1>2. Cardinality(S) \in Nat /\ Cardinality(T) \in Nat
  BY <1>1, FS_CardinalityType DEF Limited
<1> QED
  BY <1>1, <1>2 DEF Limited

\* and one below its limit may get one entry.
LEMMA LimitedRoom ==
  ASSUME NEW S, NEW n \in Nat, Limited(S, n), ~(Cardinality(S) >= n),
         NEW x, NEW T, T \subseteq S \cup {x}
  PROVE  Limited(T, n)
<1>1. IsFiniteSet(S) /\ Cardinality(S) \in Nat
  BY FS_CardinalityType DEF Limited
<1>2. /\ IsFiniteSet(S \cup {x})
      /\ Cardinality(S \cup {x}) = IF x \in S THEN Cardinality(S) ELSE Cardinality(S) + 1
  BY <1>1, FS_AddElement
<1>3. Cardinality(S \cup {x}) \in Nat
  BY <1>2, FS_CardinalityType
<1>4. Limited(S \cup {x}, n)
  BY <1>1, <1>2, <1>3 DEF Limited
<1> QED
  BY <1>4, LimitedSubset

\* generateTokenLocked counts what the sweep has left.
LEMMA SessionLimit ==
  ASSUME TypeOK, Limited(Issued(sessions), MaxSessions), SessionStep
  PROVE  Limited(Issued(sessions'), MaxSessions)
<1>1. Issued(CleanSessions) \subseteq Issued(sessions)
  BY CleanSession DEF Issued
<1>2. Limited(Issued(CleanSessions), MaxSessions)
  BY <1>1, LimitedSubset
<1>3. ASSUME \A t \in Token : sessions'[t] = sessions[t] \/ sessions'[t] = NoSession
      PROVE  Limited(Issued(sessions'), MaxSessions)
  <2>1. Issued(sessions') \subseteq Issued(sessions)
    BY <1>3 DEF Issued
  <2> QED
    BY <2>1, LimitedSubset
<1>4. ASSUME NEW t \in Token, NEW role \in Roles, NEW p, Room, Issue(t, role, p)
      PROVE  Limited(Issued(sessions'), MaxSessions)
  <2>1. ~(Cardinality(Issued(CleanSessions)) >= MaxSessions)
    <3>1. Cardinality(Issued(CleanSessions)) \in Nat
      BY <1>2, FS_CardinalityType DEF Limited
    <3> QED
      BY <1>4, <3>1 DEF Room
  <2>2. Issued(sessions') \subseteq Issued(CleanSessions) \cup {t}
    BY <1>4 DEF Issued, Issue, CleanSessions
  <2> QED
    BY <1>2, <2>1, <2>2, LimitedRoom
<1>5. CASE sessions' = [t \in Token |-> OlderSession(sessions[t])]
  <2>1. Issued(sessions') \subseteq Issued(sessions)
    BY <1>5 DEF Issued, OlderSession
  <2> QED
    BY <2>1, LimitedSubset
<1>6. CASE sessions' = sessions \/ sessions' = CleanSessions \/ sessions' = [t \in Token |-> NoSession]
  BY <1>3, <1>6, CleanSession
<1>7. CASE \E t \in Token : sessions' = [sessions EXCEPT ![t] = NoSession]
  BY <1>3, <1>7 DEF TypeOK
<1>8. CASE \E p \in [Roles -> Password \cup {NoPassword}] : ApplyPasswords(p)
  BY <1>6, <1>8 DEF ApplyPasswords
<1>9. CASE \E role \in Roles, p \in Password \cup {NoPassword} : SetPassword(role, p)
  BY <1>3, <1>9 DEF SetPassword
<1> QED
  BY <1>4, <1>5, <1>6, <1>7, <1>8, <1>9 DEF SessionStep

\* AuthenticateByPassword counts the addresses the sweep has left.
LEMMA FailureLimit ==
  ASSUME TypeOK, Limited(Failing(failures), MaxFailing), FailureStep
  PROVE  Limited(Failing(failures'), MaxFailing)
<1>1. Failing(CleanFailures) \subseteq Failing(failures)
  BY CleanFailure DEF Failing
<1>2. Limited(Failing(CleanFailures), MaxFailing)
  BY <1>1, LimitedSubset
<1>3. CASE failures' = failures \/ failures' = CleanFailures
  BY <1>2, <1>3
<1>4. ASSUME NEW a \in Addr, ~NoPlace(a), NEW f, failures' = [CleanFailures EXCEPT ![a] = f]
      PROVE  Limited(Failing(failures'), MaxFailing)
  <2>1. failures' = [x \in Addr |-> IF x = a THEN f ELSE CleanFailures[x]]
    BY <1>4 DEF CleanFailures
  <2>2. CASE CleanFailures[a] # NoFailure
    <3>1. Failing(failures') \subseteq Failing(CleanFailures)
      BY <2>1, <2>2 DEF Failing
    <3> QED
      BY <3>1, <1>2, LimitedSubset
  <2>3. CASE CleanFailures[a] = NoFailure
    <3>1. ~(Cardinality(Failing(CleanFailures)) >= MaxFailing)
      BY <1>4, <2>3 DEF NoPlace
    <3>2. Failing(failures') \subseteq Failing(CleanFailures) \cup {a}
      BY <2>1 DEF Failing
    <3> QED
      BY <1>2, <3>1, <3>2, LimitedRoom
  <2> QED
    BY <2>2, <2>3
<1>5. ASSUME NEW a \in Addr, failures' = [CleanFailures EXCEPT ![a] = NoFailure]
      PROVE  Limited(Failing(failures'), MaxFailing)
  <2>1. Failing(failures') \subseteq Failing(CleanFailures)
    BY <1>5 DEF Failing, CleanFailures
  <2> QED
    BY <2>1, <1>2, LimitedSubset
<1>6. CASE failures' = [a \in Addr |-> OlderFailure(failures[a])]
  <2>1. Failing(failures') \subseteq Failing(failures)
    BY <1>6 DEF Failing, OlderFailure
  <2> QED
    BY <2>1, LimitedSubset
<1> QED
  BY <1>3, <1>4, <1>5, <1>6 DEF FailureStep

\* CreateRequest counts what waits and what is stored after the sweep.
LEMMA RequestLimit ==
  ASSUME TypeOK, Limited(Pending(requests), MaxPending), Limited(Stored(requests), MaxRequests),
         RequestStep
  PROVE  Limited(Pending(requests'), MaxPending) /\ Limited(Stored(requests'), MaxRequests)
<1> DEFINE Fits(q) == Limited(Pending(q), MaxPending) /\ Limited(Stored(q), MaxRequests)
<1>1. Pending(CleanRequests) \subseteq Pending(requests) /\ Stored(CleanRequests) \subseteq Stored(requests)
  BY CleanRequest DEF Pending, Stored
<1>2. Fits(CleanRequests)
  BY <1>1, LimitedSubset
<1>3. ASSUME requests' = requests \/ requests' = CleanRequests PROVE Fits(requests')
  BY <1>2, <1>3
<1>4. ASSUME NEW a \in Addr, NEW r \in Request, ~FullOfRequests,
             requests' = [CleanRequests EXCEPT ![r] = Waiting(a)]
      PROVE  Fits(requests')
  <2>1. /\ Pending(requests') \subseteq Pending(CleanRequests) \cup {r}
        /\ Stored(requests') \subseteq Stored(CleanRequests) \cup {r}
    BY <1>4 DEF Pending, Stored, CleanRequests
  <2>2. /\ ~(Cardinality(Pending(CleanRequests)) >= MaxPending)
        /\ ~(Cardinality(Stored(CleanRequests)) >= MaxRequests)
    BY <1>4 DEF FullOfRequests
  <2> QED
    BY <1>2, <2>1, <2>2, LimitedRoom
<1>5. ASSUME NEW r \in Pending(CleanRequests), NEW q, q.status # "pending",
             requests' = [CleanRequests EXCEPT ![r] = q]
      PROVE  Fits(requests')
  <2>1. r \in Stored(CleanRequests)
    BY DEF Pending, Stored, NoRequest
  <2>2. requests' = [x \in Request |-> IF x = r THEN q ELSE CleanRequests[x]]
    BY <1>5 DEF CleanRequests
  <2>3. /\ Pending(requests') \subseteq Pending(CleanRequests)
        /\ Stored(requests') \subseteq Stored(CleanRequests)
    BY <1>5, <2>1, <2>2 DEF Pending, Stored
  <2> QED
    BY <1>2, <2>3, LimitedSubset
<1>6. ASSUME requests' = [r \in Request |-> OlderRequest(requests[r])] PROVE Fits(requests')
  <2>1. Pending(requests') \subseteq Pending(requests) /\ Stored(requests') \subseteq Stored(requests)
    BY <1>6 DEF Pending, Stored, OlderRequest
  <2> QED
    BY <2>1, LimitedSubset
<1>7. \A q, role, t : Granted(q, role, t).status # "pending" /\ Decided(q, "rejected").status # "pending"
  BY DEF Granted, Decided
<1>8. ASSUME NEW r \in Pending(CleanRequests), NEW role, NEW t,
             \/ requests' = [CleanRequests EXCEPT ![r] = Granted(CleanRequests[r], role, t)]
             \/ requests' = [CleanRequests EXCEPT ![r] = Decided(CleanRequests[r], "rejected")]
      PROVE  Fits(requests')
  BY <1>5, <1>7, <1>8
<1>9. ASSUME \E a \in Addr, r \in Request :
             /\ ~Waits(a) /\ ~FullOfRequests /\ requests[r] = NoRequest
             /\ requests' = [CleanRequests EXCEPT ![r] = Waiting(a)]
      PROVE  Fits(requests')
  BY <1>4, <1>9
<1> HIDE DEF Fits
<1>10. Fits(requests')
  BY <1>3, <1>6, <1>8, <1>9 DEF RequestStep
<1> QED
  BY <1>10 DEF Fits

\* The tables never hold more than their limits, whatever expires, is decided or is
\* swept in between (CreateRequest, AuthenticateByPassword, generateTokenLocked).
THEOREM LimitsHold == Spec => []WithinLimits
<1>1. Init => Limits
  <2> SUFFICES ASSUME Init PROVE Limits
    OBVIOUS
  <2>1. Pending(requests) = {} /\ Stored(requests) = {} /\ Issued(sessions) = {} /\ Failing(failures) = {}
    BY DEF Init, Pending, Stored, Issued, Failing, NoRequest
  <2>2. \A n \in Nat : Limited({}, n)
    BY FS_EmptySet DEF Limited
  <2> QED
    BY <2>1, <2>2 DEF Limits
<1>2. IInv /\ Limits /\ [Next]_vars => Limits'
  <2> SUFFICES ASSUME IInv, Limits, [Next]_vars PROVE Limits'
    OBVIOUS
  <2>1. TypeOK /\ RequestStep /\ FailureStep /\ SessionStep
    BY Steps DEF IInv
  <2>2. Limited(Issued(sessions'), MaxSessions)
    BY <2>1, SessionLimit DEF Limits
  <2>3. Limited(Failing(failures'), MaxFailing)
    BY <2>1, FailureLimit DEF Limits
  <2>4. Limited(Pending(requests'), MaxPending) /\ Limited(Stored(requests'), MaxRequests)
    BY <2>1, RequestLimit DEF Limits
  <2> QED
    BY <2>2, <2>3, <2>4 DEF Limits, Issued, Failing, Pending, Stored
<1>3. Limits => WithinLimits
  BY DEF Limits, Limited, WithinLimits
<1> QED
  BY <1>1, <1>2, <1>3, Invariant, PTL DEF Spec

-----------------------------------------------------------------------------
\* What is granted is shown

\* Request r shows that t was granted, and is older than the session by less than
\* the minute in which it had to be decided.
ShownBy(r, t) ==
  /\ requests[r] # NoRequest /\ requests[r].status = "approved"
  /\ requests[r].token = t /\ requests[r].role = sessions[t].role
  /\ requests[r].age < sessions[t].age + Minute

Shown ==
  \A t \in Token :
    Valid(t) /\ sessions[t].from = NoPassword /\ sessions[t].age + Minute <= Kept + 1 =>
      \E r \in Request : ShownBy(r, t)

\* A step that grants nothing: a session that has no password ends or stays, and so
\* does an approval that is not old.
Stays(r) ==
  requests[r] # NoRequest /\ requests[r].status = "approved" /\ requests[r].age <= Kept =>
    requests'[r] = requests[r]

GrantsNothing ==
  /\ \A t \in Token : sessions'[t] \in {sessions[t], NoSession} \/ sessions'[t].from # NoPassword
  /\ \A r \in Request : Stays(r)

\* The sweep spares an approval that is not old,
LEMMA ApprovalIsKept ==
  ASSUME TypeOK, NEW r \in Request,
         requests[r] # NoRequest, requests[r].status = "approved", requests[r].age <= Kept
  PROVE  CleanRequests[r] = requests[r]
<1>1. requests[r].age \in Nat
  BY DEF TypeOK, AuthRequest
<1>2. CleanRequests[r] # NoRequest
  BY CleanRequest
<1>3. ~(requests[r].age > Kept)
  BY <1>1
<1> QED
  BY <1>3 DEF CleanRequests

\* as does every change of a request that waits or is new.
LEMMA ApprovalStays ==
  ASSUME TypeOK, NEW r \in Request,
         \/ requests' = requests \/ requests' = CleanRequests
         \/ \E x \in Request : \E q : /\ x \in Pending(CleanRequests) \/ requests[x] = NoRequest
                                      /\ requests' = [CleanRequests EXCEPT ![x] = q]
  PROVE  Stays(r)
<1> SUFFICES ASSUME requests[r] # NoRequest, requests[r].status = "approved", requests[r].age <= Kept
             PROVE  requests'[r] = requests[r]
  BY DEF Stays
<1>1. CleanRequests[r] = requests[r]
  BY ApprovalIsKept
<1>2. ASSUME NEW x \in Request, NEW q, x \in Pending(CleanRequests) \/ requests[x] = NoRequest,
             requests' = [CleanRequests EXCEPT ![x] = q]
      PROVE  requests'[r] = requests[r]
  <2>1. x # r
    BY <1>1, <1>2 DEF Pending
  <2> QED
    BY <1>1, <1>2, <2>1 DEF CleanRequests
<1> QED
  BY <1>1, <1>2

\* Only ApproveRequest grants, and only the clock makes anything older.
LEMMA GrantSteps ==
  ASSUME TypeOK, [Next]_vars
  PROVE  \/ Tick \/ GrantsNothing
         \/ \E r \in Request, role \in Roles, t \in Token : ApproveRequest(r, role, t)
<1> DEFINE Undecided ==
      \/ requests' = requests \/ requests' = CleanRequests
      \/ \E x \in Request : \E q : /\ x \in Pending(CleanRequests) \/ requests[x] = NoRequest
                                   /\ requests' = [CleanRequests EXCEPT ![x] = q]
      Unissued == \A t \in Token : \/ sessions'[t] \in {sessions[t], NoSession}
                                   \/ sessions'[t].from # NoPassword
<1>0. Undecided /\ Unissued => GrantsNothing
  BY ApprovalStays DEF GrantsNothing
<1>1. ASSUME sessions' = sessions \/ sessions' = CleanSessions PROVE Unissued
  BY <1>1, CleanSession
<1>2. CASE UNCHANGED vars
  BY <1>0, <1>1, <1>2 DEF vars
<1>3. CASE Cleanup \/ \E r \in Request : GetRequestStatus(r) \/ DecideNothing(r)
  BY <1>0, <1>1, <1>3 DEF Cleanup, GetRequestStatus, DecideNothing, Clean
<1>4. ASSUME NEW r \in Request, RejectRequest(r) PROVE GrantsNothing
  <2>1. Undecided
    BY <1>4 DEF RejectRequest
  <2> QED
    BY <1>0, <1>1, <1>4, <2>1 DEF RejectRequest
<1>5. CASE \/ \E p \in [Roles -> Password \cup {NoPassword}] : ApplyPasswords(p)
           \/ \E role \in Roles, p \in Password \cup {NoPassword} : SetPassword(role, p)
           \/ \E t \in Token : RevokeToken(t)
           \/ RevokeAllTokens
  <2>1. requests' = requests
    BY <1>5 DEF ApplyPasswords, SetPassword, RevokeToken, RevokeAllTokens
  <2>2. \A t \in Token : sessions'[t] \in {sessions[t], NoSession}
    BY <1>5 DEF ApplyPasswords, SetPassword, RevokeToken, RevokeAllTokens, TypeOK
  <2> QED
    BY <1>0, <2>1, <2>2
<1>6. ASSUME NEW a \in Addr, Visitor(a) PROVE GrantsNothing
  <2>1. CASE LoginRefused(a) \/ CreateNothing(a)
    BY <1>0, <1>1, <2>1 DEF LoginRefused, CreateNothing, Clean
  <2>2. CASE \E p \in Password \cup {NoPassword} : LoginFails(a, p) \/ LoginFull(a, p)
    BY <1>0, <1>1, <2>2 DEF LoginFails, LoginFull
  <2>3. ASSUME NEW p \in Password \cup {NoPassword}, NEW t \in Token, Login(a, p, t)
        PROVE  GrantsNothing
    <3>1. PICK role \in Roles : p # NoPassword /\ Issue(t, role, p)
      BY <2>3 DEF Login, RolesOf
    <3>2. Unissued
      BY <3>1, CleanSession DEF Issue, CleanSessions
    <3>3. Undecided
      BY <2>3 DEF Login
    <3> QED
      BY <1>0, <3>2, <3>3
  <2>4. ASSUME NEW r \in Request, CreateRequest(a, r) PROVE GrantsNothing
    <3>1. Undecided
      BY <2>4 DEF CreateRequest
    <3> QED
      BY <1>0, <1>1, <2>4, <3>1 DEF CreateRequest
  <2> QED
    BY <1>6, <2>1, <2>2, <2>3, <2>4 DEF Visitor
<1> HIDE DEF Undecided, Unissued
<1> QED
  BY <1>2, <1>3, <1>4, <1>5, <1>6 DEF Next, Owner

\* A token without a password is shown by its request from ApproveRequest on.
LEMMA ShownKept == ASSUME TypeOK, Shown, [Next]_vars PROVE Shown'
<1> SUFFICES ASSUME NEW t \in Token,
                    Valid(t)', sessions'[t].from = NoPassword, sessions'[t].age + Minute <= Kept + 1
             PROVE  \E r \in Request : ShownBy(r, t)'
  BY DEF Shown
<1>1. sessions'[t] # NoSession /\ sessions'[t].age <= Day
  BY DEF Valid
<1>2. ASSUME sessions'[t] = sessions[t], \A r \in Request : Stays(r)
      PROVE  \E r \in Request : ShownBy(r, t)'
  <2>1. PICK r \in Request : ShownBy(r, t)
    BY <1>1, <1>2 DEF Shown, Valid
  <2>2. sessions[t] \in Session /\ requests[r] \in AuthRequest
    BY <1>1, <1>2, <2>1 DEF TypeOK, ShownBy
  <2>3. requests[r].age <= Kept
    BY <1>2, <2>1, <2>2 DEF ShownBy, Session, AuthRequest
  <2>4. requests'[r] = requests[r]
    BY <1>2, <2>1, <2>3 DEF ShownBy, Stays
  <2> QED
    BY <1>2, <2>1, <2>4 DEF ShownBy
<1>3. CASE GrantsNothing
  BY <1>1, <1>2, <1>3 DEF GrantsNothing
<1>4. CASE Tick
  <2>1. sessions'[t] = OlderSession(sessions[t]) /\ sessions[t] # NoSession /\ sessions[t] \in Session
    BY <1>1, <1>4 DEF Tick, OlderSession, TypeOK
  <2>2. /\ sessions'[t].role = sessions[t].role /\ sessions'[t].from = sessions[t].from
        /\ sessions'[t].age = Older(sessions[t].age, Day + 1)
    BY <2>1 DEF OlderSession
  <2>3. sessions[t].age \in Nat /\ sessions'[t].age = sessions[t].age + 1
    BY <1>1, <2>1, <2>2 DEF Older, Session
  <2>4. PICK r \in Request : ShownBy(r, t)
    BY <1>1, <2>1, <2>2, <2>3 DEF Shown, Valid
  <2>5. requests'[r] = OlderRequest(requests[r]) /\ requests[r] \in AuthRequest
    BY <1>4, <2>4 DEF Tick, TypeOK, ShownBy
  <2>6. /\ requests'[r].status = "approved" /\ requests'[r].token = t
        /\ requests'[r].role = sessions[t].role
        /\ requests'[r].age = Older(requests[r].age, Kept + 1)
    BY <2>4, <2>5 DEF ShownBy, OlderRequest
  <2>7. requests[r].age \in Nat /\ requests'[r].age <= requests[r].age + 1 /\ requests'[r].age \in Nat
    BY <2>5, <2>6 DEF Older, AuthRequest
  <2>8. requests'[r] # NoRequest
    BY <2>6 DEF NoRequest
  <2>9. requests'[r].age < sessions'[t].age + Minute
    BY <2>3, <2>4, <2>7 DEF ShownBy
  <2> QED
    BY <2>2, <2>6, <2>8, <2>9 DEF ShownBy
<1>5. ASSUME NEW r \in Request, NEW role \in Roles, NEW x \in Token, ApproveRequest(r, role, x)
      PROVE  \E y \in Request : ShownBy(y, t)'
  <2>1. /\ r \in Pending(CleanRequests) /\ Issue(x, role, NoPassword)
        /\ requests' = [CleanRequests EXCEPT ![r] = Granted(CleanRequests[r], role, x)]
    BY <1>5 DEF ApproveRequest
  <2>2. CASE x = t
    <3>1. sessions'[t] = [role |-> role, age |-> 0, from |-> NoPassword]
      BY <2>1, <2>2 DEF Issue, CleanSessions
    <3>2. requests'[r] = Granted(requests[r], role, t) /\ requests[r].age < Minute
      BY <2>1, <2>2, CleanRequest DEF CleanRequests
    <3>3. requests[r] \in AuthRequest
      BY <2>1, CleanRequest
    <3>4. requests'[r] # NoRequest
      BY <3>2 DEF Granted, NoRequest
    <3> QED
      BY <3>1, <3>2, <3>3, <3>4 DEF ShownBy, Granted, AuthRequest
  <2>3. CASE x # t
    <3>1. sessions'[t] = sessions[t]
      BY <1>1, <2>1, <2>3, CleanSession DEF Issue, CleanSessions
    <3>2. \A y \in Request : Stays(y)
      BY <2>1, ApprovalStays
    <3> QED
      BY <1>2, <3>1, <3>2
  <2> QED
    BY <2>2, <2>3
<1> QED
  BY <1>3, <1>4, <1>5, GrantSteps

\* Nobody holds a session that ApproveRequest did not grant, or granted once.
THEOREM GrantsAreShown == Spec => []GrantsShown
<1>1. Init => Shown
  BY DEF Init, Shown, Valid
<1>2. IInv /\ Shown /\ [Next]_vars => Shown'
  BY ShownKept DEF IInv
<1>3. Shown => GrantsShown
  BY DEF Shown, GrantsShown, ShownBy, Stored
<1> QED
  BY <1>1, <1>2, <1>3, Invariant, PTL DEF Spec

=============================================================================
