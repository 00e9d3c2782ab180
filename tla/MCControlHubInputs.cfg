SPECIFICATION FairSpec
CONSTANTS
  c1 = c1
  c2 = c2
  Client = {c1}
  Nobody = Nobody
  tView = tView
  tStandard = tStandard
  tAdmin = tAdmin
  Token = {tView, tStandard}
  NoToken = NoToken
  RoleOf <- MCRoleOf
  k1 = k1
  k2 = k2
  b1 = b1
  Keys = {k1, k2}
  Buttons = {b1}
  NoInput = NoInput
  Chords <- MCChords
  LeaseSpan = 1
  OverrideSpan = 2
  MaxClients = 1
INVARIANTS ButtonsYield ControllerEntitled
PROPERTIES StaleControlEnds RevokedKeysComeUp UnauthenticatedLeaves
