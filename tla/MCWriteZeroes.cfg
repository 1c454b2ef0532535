\* Lengths below, at and above the buffer cap; every successful write_at
\* writes at least one byte.  The call returns, so final states are expected.
CONSTANTS
  Lengths = {0, 1, 2, 3, 4, 7}
  BufMax = 3
  MinWrite = 1
SPECIFICATION Spec
INVARIANT TypeOK
INVARIANT ZeroesExactlyRange
PROPERTY Terminates
CHECK_DEADLOCK FALSE
