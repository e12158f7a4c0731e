SPECIFICATION FairSpec
CONSTANTS
  t1 = t1
  c1 = c1
  c2 = c2
  Turns = {t1}
  Compactors = {c1, c2}
  KeepRecent = 2
  MaxRows = 4
  MaxMessages = 3
  MaxSegments = 1
  MaxId = 6
INVARIANTS
  TypeOK
  NothingForgotten
  Auditable
  RecentKeptVerbatim
  ReplayComplete
PROPERTIES
  FloorNeverRetreats
  LedgerSpec
  CompactionAnswers
