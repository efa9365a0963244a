SPECIFICATION Spec
CONSTANTS
  NPROC = 4
  NSEM = 0
  NSTACK = 4
  InitPrio = 2
  Prios = {1, 2}
  NewPrios = {1, 3}
  Delays = {}
  Waits = {}
  Counts = {}
  Messages = {}
  Calls <- Reprioritising
  Platform = "arm-qemu"
  QUANTUM = 2
  SIGN = 8
  MaxCount = 1
PROPERTIES
  DispatchesHighest
