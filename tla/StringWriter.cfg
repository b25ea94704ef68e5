\* Short strings over three kinds of bytes, every byte value, several capacities.
CONSTANTS
  Values <- MCValues
  Caps <- MCCaps
  Block = 2
  Threshold = 4
SPECIFICATION Spec
CHECK_DEADLOCK FALSE
INVARIANTS
  TypeOK
  RunsAreSafe
  StaysInside
  WritesReference
PROPERTIES
  Terminates
