\* Every integer of twelve bits.
CONSTANTS
  Half = 2048
  BufferSize = 5
  Spares <- MCSpares
  Quotient <- MCQuotient
SPECIFICATION Spec
INVARIANTS
  BufferHolds
  DecimalBytes
  WrittenAsCounted
