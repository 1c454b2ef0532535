\* System mode: an illegal instruction in firmware.
CONSTANTS
  XLEN = 64
  PageSize = 8
  NumPages = 4
  Programs <- IllegalProgs
  Xlat <- IdentityXlat
  UserMode = FALSE
  BootPc = 0
  BootCsrs <- SysBootCsrs
  CacheInit = {TRUE, FALSE}
  SigHandler = 0
  MaxSignals = 0
SPECIFICATION Spec
INVARIANT GuestErrorsAreTraps
