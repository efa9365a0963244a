SPECIFICATION Spec
CONSTANTS
  NPROC = 4
  NSEM = 2
  NSTACK = 4
  InitPrio = 1
  Prios = {1, 2}
  NewPrios = {}
  Delays = {}
  Waits = {}
  Counts = {0, 2}
  Messages = {}
  Calls <- Scheduled
  Platform = "arm-qemu"
  QUANTUM = 2
  SIGN = 8
  MaxCount = 2
INVARIANTS
  CurrIsHighest
  SemCountAgrees
  DeferralsPaired
PROPERTIES
  DispatchesHighest
  NoSwitchWhileDeferred
  FifoRelease
