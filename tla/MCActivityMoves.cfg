\* A valid transaction on one log is assigned to one on another log.
SPECIFICATION Spec
CONSTANTS
  primary = primary
  replica = replica
  Threads = {t1, t2}
  Nobody = nobody
  Logs = {primary, replica}
  empty = empty
  Characters <- MCCharacters
  HeaderOnly <- MCHeaderOnly
  GivenSize <- MCGivenSize
  Slots = {s1, s2}
  Contents = {c1, empty}
  MoveValid = TRUE
  KeepLog = FALSE
  Careful = TRUE
  MaxLen = 1
  MaxFaults = 1
CHECK_DEADLOCK FALSE
INVARIANTS
  TransactingMeansLive
