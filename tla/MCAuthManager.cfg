SPECIFICATION Spec
CONSTANTS
  t1 = t1
  t2 = t2
  t3 = t3
  r1 = r1
  r2 = r2
  r3 = r3
  a1 = a1
  a2 = a2
  p1 = p1
  Token = {t1, t2, t3}
  NoToken = NoToken
  Request = {r1, r2, r3}
  Addr = {a1, a2}
  Password = {p1}
  NoPassword = NoPassword
  Minute = 2
  Kept = 2
  Day = 1
  MaxGuesses = 2
  MaxSessions = 2
  MaxPending = 2
  MaxRequests = 2
  MaxFailing = 1
SYMMETRY Symmetry
INVARIANTS TokensFollowPasswords GrantsShown
PROPERTIES BlocksHold DecisionsAreFinal
