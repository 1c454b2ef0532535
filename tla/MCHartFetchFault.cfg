\* System mode, cache on: a jump to an unmapped page.
CONSTANTS
  XLEN = 64
  PageSize = 8
  NumPages = 4
  Programs <- HoleProgs
  Xlat <- HoleXlat
  UserMode = FALSE
  BootPc = 0
  BootCsrs <- SysBootCsrs
  CacheInit = {TRUE}
  SigHandler = 0
  MaxSignals = 0
SPECIFICATION Spec
INVARIANT FetchFaultEpc
