\* Every short text is resolved node by node.  A resolution ends.
SPECIFICATION Spec
CONSTANTS
  Letters <- MCLetters
  MaxLength = 7
INVARIANTS
  TypeOK
  
  CarbonCopy
CHECK_DEADLOCK FALSE
