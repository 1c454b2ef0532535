\* User mode over a family of programs: syscalls, host signals, cache on or off at entry.
CONSTANTS
  XLEN = 64
  PageSize = 8
  NumPages = 3
  Programs <- UserFamily
  Xlat <- IdentityXlat
  UserMode = TRUE
  BootPc = 0
  BootCsrs <- SysBootCsrs
  CacheInit = {TRUE, FALSE}
  SigHandler = 12
  MaxSignals = 2
SPECIFICATION Spec
PROPERTY SignalEventuallyDelivered
PROPERTY SyscallResumesAfterEcall
PROPERTY ProcessProgress
\* exit and a fatal user trap end the process: the hart really stops there.
CHECK_DEADLOCK FALSE
