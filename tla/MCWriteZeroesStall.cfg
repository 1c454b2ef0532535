\* write_at may return Ok(0) for a non-empty buffer.
CONSTANTS
  Lengths = {0, 1, 2, 3, 4, 7}
  BufMax = 3
  MinWrite = 0
SPECIFICATION Spec
PROPERTY Terminates
CHECK_DEADLOCK FALSE
