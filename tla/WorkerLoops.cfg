SPECIFICATION FairLoopsSpec
CONSTANTS
  Jobs = {1, 2}
  Undeletable = {1}
  MaxRetries = 1
  Workers = {w1, w2}
  WakeBufferSize = 1
INVARIANTS
  TypeOK
  LoopsTypeOK
  NoWakeLost
PROPERTIES
  OnlyRetriesLoseTheirFile
  PendingIsClaimed
  OldFilesGo
