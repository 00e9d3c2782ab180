SPECIFICATION FairSpec
CONSTANTS
  c1 = c1
  t1 = t1
  Client = {c1}
  Caller = {t1}
  Loop = Loop
  Display = Display
  Window = Window
  Nobody = Nobody
  EventCap = 2
  PerTick = 1
PROPERTY WritePumpEnds
CHECK_DEADLOCK FALSE
