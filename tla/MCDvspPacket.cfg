\* Three packets and four blocks.  What a program does after it has deleted a
\* block twice is not defined, so it may stop.
SPECIFICATION Spec
CONSTANTS
  nothing = nothing
  short = short
  long = long
  Packets = {p1, p2, p3}
  Blocks = {b1, b2, b3, b4}
  Contents = {nothing, short, long}
  SizeOf <- MCSizeOf
  Null = Null
  Free = Free
INVARIANTS
  PacketTypeOK
  Ownership
  CarriesWhatItWasGiven
CHECK_DEADLOCK FALSE
