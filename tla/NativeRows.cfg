\* Well-formed and malformed rows, with room enough and without.
CONSTANTS
  Half = 128
  Views <- MCViews
  Sizes <- MCSizes
SPECIFICATION NativeSpec
INVARIANTS
  AcceptsOnlyWellFormed
  BlamesOnlyIllFormed
  BackendsAgree
PROPERTIES
  ImplementsCalls
