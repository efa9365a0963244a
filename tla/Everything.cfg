SPECIFICATION Spec
CONSTANTS
  NPROC = 3
  NSEM = 1
  NSTACK = 3
  InitPrio = 1
  Prios = {1}
  NewPrios = {2}
  Delays = {1}
  Waits = {1}
  Counts = {0}
  Messages = {7}
  Calls <- Everything
  Platform = "arm-bbb"
  QUANTUM = 2
  SIGN = 8
  MaxCount = 0
INVARIANTS
  TypeOK
  QueuesAgree
  NullReady
  ReadySorted
PROPERTIES
  MessageKept
CHECK_DEADLOCK FALSE
