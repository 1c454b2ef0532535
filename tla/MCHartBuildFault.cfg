\* System mode, cache on: a jump to a page the page table maps outside RAM.
CONSTANTS
  XLEN = 64
  PageSize = 8
  NumPages = 4
  Programs <- HoleProgs
  Xlat <- OutsideXlat
  UserMode = FALSE
  BootPc = 0
  BootCsrs <- SysBootCsrs
  CacheInit = {TRUE}
  SigHandler = 0
  MaxSignals = 0
SPECIFICATION Spec
INVARIANT GuestErrorsAreTraps
