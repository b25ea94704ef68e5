\* Two goroutines, two workspaces reused for longer and shorter batches, against the contract.
CONSTANTS
  Procs = {p1, p2}
  None = None
  Scratches = {s1, s2}
  NoScratch = NoScratch
  a = a
  b = b
  bad = bad
  Orders <- MCOrders
  BadOrders <- MCBadOrders
  Batches <- MCBatches
  PackedBatches <- MCPacked
  TrustUTF8 = FALSE
  NativeSize = 195
  NilPacked = NilPacked
  ZeroPacked = ZeroPacked
  MaxRetained = 2
  ZeroRow = ZeroRow
  Garbage = Garbage
SPECIFICATION Spec
INVARIANTS
  TypeOK
  AnswersOwnBatch
  ScratchExclusive
PROPERTIES
  ImplementsContract
