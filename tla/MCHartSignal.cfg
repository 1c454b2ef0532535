\* User mode: a signal polled while a jump's want_pc is pending breaks the user-mode refinement.
CONSTANTS
  XLEN = 64
  PageSize = 8
  NumPages = 3
  Programs <- UserProgs
  Xlat <- IdentityXlat
  UserMode = TRUE
  BootPc = 0
  BootCsrs <- SysBootCsrs
  CacheInit = {TRUE, FALSE}
  SigHandler = 12
  MaxSignals = 1
SPECIFICATION Spec
PROPERTY UserIsaSpec
