SPECIFICATION Spec
CONSTANTS
  p1 = p1
  p2 = p2
  p3 = p3
  d1 = d1
  d2 = d2
  s1 = s1
  s2 = s2
  Conn = {p1, p2}
  Device = {d1, d2}
  Sid = {s1, s2}
  DeviceOf <- MCDeviceOf
  Nobody = Nobody
  MaxPeers = 2
  MaxLinks = 2
  MaxPerTarget = 2
  OutCap = 2
SYMMETRY Symmetry
INVARIANT RegisteredFirst
CHECK_DEADLOCK FALSE
