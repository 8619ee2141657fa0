SPECIFICATION Spec
CONSTANTS
  Devices = {c1, ld}
  Cpus = {c1}
  Loader = ld
  NumProcs = 3
  Inputs <- AllInputs
  TimeSlot = 2
  MaxTime = 4
CHECK_DEADLOCK FALSE
INVARIANTS
  TypeOK
  ClockStalls
