SPECIFICATION EngineSpec
CONSTANTS
  first = first
  second = second
  s1 = s1
  UI = UI
  Run = Run
  NoServer = NoServer
  Server = {first, second}
  ServerOf <- MCServerOf
  Sid = {s1}
  MaxPeers = 1
  MaxVersion = 1
INVARIANT ServerIsPresent
CHECK_DEADLOCK FALSE
