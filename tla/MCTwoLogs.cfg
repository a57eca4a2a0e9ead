\* A primary log and its replica: segments cut from one are written to the
\* other.  Threads may wait for each other, or for themselves.
SPECIFICATION Spec
CONSTANTS
  primary = primary
  replica = replica
  Threads = {t1, t2}
  Nobody = nobody
  Logs = {primary, replica}
  empty = empty
  Characters <- MCCharacters
  HeaderOnly <- MCHeaderOnly
  GivenSize <- MCGivenSize
  Slots = {s1, s2}
  Contents = {c1}
  MoveValid = TRUE
  KeepLog = TRUE
  Careful = TRUE
  MaxLen = 3
  MaxFaults = 0
SYMMETRY MCSymmetry
CHECK_DEADLOCK FALSE
INVARIANTS
  ChainIntact
  HeaderHonest
PROPERTIES
  ImplementsLedger
