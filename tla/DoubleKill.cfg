SPECIFICATION Spec
CONSTANTS
  NPROC = 4
  NSEM = 0
  NSTACK = 4
  InitPrio = 1
  Prios = {1}
  NewPrios = {}
  Delays = {}
  Waits = {}
  Counts = {}
  Messages = {}
  Calls <- KillingAndReceiving
  Platform = "arm-qemu"
  QUANTUM = 2
  SIGN = 8
  MaxCount = 1
INVARIANTS
  HaltsWithLast
CHECK_DEADLOCK FALSE
