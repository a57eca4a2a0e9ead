\* Two threads take turns on one log, moving handles and keeping drafts; one that
\* begins a second transaction waits for itself.
SPECIFICATION Spec
CONSTANTS
  primary = primary
  replica = replica
  Threads = {t1, t2}
  Nobody = nobody
  Logs = {primary}
  empty = empty
  Characters <- MCCharacters
  HeaderOnly <- MCHeaderOnly
  GivenSize <- MCGivenSize
  Slots = {s1, s2}
  Contents = {c1, empty}
  MoveValid = TRUE
  KeepLog = TRUE
  Careful = TRUE
  MaxLen = 3
  MaxFaults = 1
CHECK_DEADLOCK FALSE
INVARIANTS
  TypeOK
  OneTransaction
  TransactingMeansLive
  HeaderHonest
  ChainIntact
  SegmentsSurviveTheWire
PROPERTIES
  ImplementsLedger
