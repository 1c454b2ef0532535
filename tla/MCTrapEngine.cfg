\* Exceptions only: trap entry matches the ISA reference, xRET round trip.
CONSTANTS
  XLEN = 64
  Codes <- MCCodes
  Intrs = {FALSE}
  TrapPcs <- MCTrapPcs
  BootCsrs <- MCBootCsrs
SPECIFICATION Spec
INVARIANT TypeOK
INVARIANT TrapMatchesReference
PROPERTY TrapReturnRestores
