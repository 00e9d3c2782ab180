SPECIFICATION FairSpec
CONSTANTS
  s1 = s1
  s2 = s2
  p1 = p1
  p2 = p2
  Service = {s1, s2}
  NoService = NoService
  Packet = {p1, p2}
  MaxSlots = 1
INVARIANTS StoppedIsFree BackupReadsOpen SlotsConserved
PROPERTIES StopIsObeyed FailureIsNoticed
