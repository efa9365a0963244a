SPECIFICATION FairSpec
CONSTANTS
  NPROC = 3
  NSEM = 0
  NSTACK = 4
  InitPrio = 1
  Prios = {1}
  NewPrios = {}
  Delays = {1}
  Waits = {0}
  Counts = {}
  Messages = {}
  Calls <- Clocking
  Platform = "arm-qemu"
  QUANTUM = 2
  SIGN = 8
  MaxCount = 1
PROPERTIES
  DelayEnds
