SPECIFICATION Spec
CONSTANTS
  NPROC = 3
  NSEM = 0
  NSTACK = 4
  InitPrio = 1
  Prios = {1}
  NewPrios = {}
  Delays = {1, 3}
  Waits = {}
  Counts = {}
  Messages = {}
  Calls <- Clocking
  Platform = "arm-qemu"
  QUANTUM = 2
  SIGN = 2
  MaxCount = 1
PROPERTIES
  DelayAsAsked
