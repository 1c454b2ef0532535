\* Every kind of builder descriptor and every failing step of build; then,
\* on a built mapping of a 4-bit usize size, every msync and range_end call.
CONSTANTS
  W = 4
  Sizes = {0, 5, 15}
SPECIFICATION Spec
INVARIANT RangeChecksMatchReference
INVARIANT NoLeakedHandles
INVARIANT TypeOK
CHECK_DEADLOCK FALSE
