SPECIFICATION MCSpec
CONSTANTS
  srv = srv
  s1 = s1
  s2 = s2
  UI = UI
  Run = Run
  NoServer = NoServer
  Server = {srv}
  ServerOf <- MCServerOf
  Sid = {s1, s2}
  MaxPeers = 1
  MaxVersion = 2
  v1 = v1
  Client = {v1}
  QueueCap = 2
INVARIANTS GenerationHeard PeersBounded OnlyLateStay NoneOutlives QueueWhole KeyRequested CaptureReleased
PROPERTIES ClosedLeaves CloseEnds KeyArrives ImplementsFrames
