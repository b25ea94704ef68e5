\* Limits small enough for small batches to reach them, and output buffers too small.
CONSTANTS
  Nil = Nil
  Half = 256
  MaxUint32 = 3
  MaxInt = 384
  TrustUTF8 = TRUE
  Batches <- Small
  Caps <- SmallCaps
  MaxRetained = 200
SPECIFICATION Spec
INVARIANTS
  NeverInvalid
  RefusesExactly
  EstimateExact
  WritesPrefix
