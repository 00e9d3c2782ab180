SPECIFICATION Spec
CONSTANTS
  c1 = c1
  c2 = c2
  Client = {c1, c2}
  Nobody = Nobody
  tView = tView
  tStandard = tStandard
  tAdmin = tAdmin
  Token = {tStandard, tAdmin}
  NoToken = NoToken
  RoleOf <- MCRoleOf
  k1 = k1
  k2 = k2
  b1 = b1
  Keys = {k1}
  Buttons = {}
  NoInput = NoInput
  Chords = {}
  LeaseSpan = 1
  OverrideSpan = 1
  MaxClients = 2
SYMMETRY Symmetry
INVARIANT HeldForController
PROPERTY ImplementsLease
