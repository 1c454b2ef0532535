\* System mode, block cache on or off at entry: the interpreter implements
\* the ISA machine and the block cache keeps blocks inside their page.
CONSTANTS
  XLEN = 64
  PageSize = 8
  NumPages = 4
  Programs <- SysFamily
  Xlat <- IdentityXlat
  UserMode = FALSE
  BootPc = 0
  BootCsrs <- SysBootCsrs
  CacheInit = {TRUE, FALSE}
  SigHandler = 0
  MaxSignals = 0
SPECIFICATION Spec
INVARIANT TypeOK
INVARIANT BlockWithinPage
PROPERTY IsaSpec
