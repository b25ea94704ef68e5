\* Batches of up to two orders, one after the other in one workspace.
CONSTANTS
  Nil = Nil
  Half = 256
  MaxUint32 = 255
  MaxInt = 32767
  TrustUTF8 = FALSE
  Batches <- MCBatches
  Caps <- NoCaps
  MaxRetained = 256
SPECIFICATION Spec
INVARIANTS
  PackedWell
  PreallocatesExactly
  PoolBounded
  EncodesReference
