\* The documented rule that Close waits for the Marshal calls under way.
CONSTANTS
  Procs = {p1, p2}
  None = None
  Scratches = {s1, s2}
  NoScratch = NoScratch
  a = a
  b = b
  bad = bad
  Orders <- MCOrders
  BadOrders <- MCBadOrders
  Batches <- OneBatch
  PackedBatches <- OnePacked
  TrustUTF8 = FALSE
  NativeSize = 195
  NilPacked = NilPacked
  ZeroPacked = ZeroPacked
  MaxRetained = 1
  ZeroRow = ZeroRow
  Garbage = Garbage
SPECIFICATION HSpec
INVARIANTS
  WaitsForMarshals
