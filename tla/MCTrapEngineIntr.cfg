\* Interrupts: xcause must carry the interrupt bit (bit XLEN-1).
CONSTANTS
  XLEN = 64
  Codes <- MCIntrCodes
  Intrs = {TRUE}
  TrapPcs <- MCTrapPcs
  BootCsrs <- MCBootCsrs
SPECIFICATION Spec
INVARIANT TrapMatchesReference
