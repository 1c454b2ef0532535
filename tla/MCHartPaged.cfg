\* System mode with a page table that is not the identity, cache off:
\* does the uncached loop fetch what the ISA fetches?
CONSTANTS
  XLEN = 64
  PageSize = 8
  NumPages = 4
  Programs <- SwapProgs
  Xlat <- SwapXlat
  UserMode = FALSE
  BootPc = 0
  BootCsrs <- SysBootCsrs
  CacheInit = {FALSE}
  SigHandler = 0
  MaxSignals = 0
SPECIFICATION Spec
PROPERTY IsaSpec
