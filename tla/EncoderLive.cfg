\* Three goroutines in MarshalPacked, CodeSize and Close, with fairness.
CONSTANTS
  Procs = {p1, p2, p3}
  None = None
  Scratches = {s1}
  NoScratch = NoScratch
  a = a
  b = b
  bad = bad
  Orders <- MCOrders
  BadOrders <- MCBadOrders
  Batches <- NoBatch
  PackedBatches <- OnePacked
  TrustUTF8 = FALSE
  NativeSize = 195
  NilPacked = NilPacked
  ZeroPacked = ZeroPacked
  MaxRetained = 1
  ZeroRow = ZeroRow
  Garbage = Garbage
SPECIFICATION Spec
INVARIANTS
  NoUseAfterClose
  DestroyedOnce
PROPERTIES
  CallsReturn
