SPECIFICATION MCSpec
CONSTANTS
  s1 = s1
  t1 = t1
  t2 = t2
  none = none
  NoTransfer = none
  Session = {s1}
  Transfer = {t1, t2}
  MaxSlots = 1
  AckCap = 1
  MaxFiles = 2
  MaxSize = 1
  Window = 3
  r1 = r1
  r2 = r2
  Request = {r1, r2}
  MaxUploads = 2
  MaxParts = 1
  MaxChunks = 1
  MaxTries = 2
INVARIANTS
  SlotsConserved
  SavedWhole
  ToldIsSaved
  UploadedStays
PROPERTIES
  ImplementsBatch
  UnfinishedEnds
  BatchEnds
  UploadEnds
