\* Two rows, filled twice.
CONSTANTS
  Rows = 2
  Uses = 2
SPECIFICATION Spec
INVARIANTS
  ReadsWhatWasWritten
CHECK_DEADLOCK FALSE
