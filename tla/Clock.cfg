SPECIFICATION FairSpec
CONSTANTS
  NPROC = 4
  NSEM = 0
  NSTACK = 4
  InitPrio = 1
  Prios = {1}
  NewPrios = {}
  Delays = {0, 1, 3}
  Waits = {2}
  Counts = {}
  Messages = {7}
  Calls <- Clocked
  Platform = "arm-qemu"
  QUANTUM = 2
  SIGN = 8
  MaxCount = 1
INVARIANTS
  MessagesAgree
  NoneOverdue
PROPERTIES
  TimersImplemented
  EqualsTakeTurns
