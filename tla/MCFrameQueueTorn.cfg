SPECIFICATION Spec
CONSTANTS
  v1 = v1
  Client = {v1}
  QueueCap = 3
INVARIANT NoTornGop
