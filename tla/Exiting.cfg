SPECIFICATION Spec
CONSTANTS
  NPROC = 4
  NSEM = 0
  NSTACK = 4
  InitPrio = 1
  Prios = {0, 1}
  NewPrios = {}
  Delays = {}
  Waits = {}
  Counts = {}
  Messages = {}
  Calls <- Exiting
  Platform = "arm-qemu"
  QUANTUM = 2
  SIGN = 8
  MaxCount = 1
INVARIANTS
  StacksOwned
  PrcountExact
  HaltsWithLast
CHECK_DEADLOCK FALSE
