SPECIFICATION Spec
CONSTANTS
  Devices = {c1, c2, ld}
  Cpus = {c1, c2}
  Loader = ld
  NumProcs = 3
  Inputs <- ManyInputs
  TimeSlot = 2
  MaxTime = 8
INVARIANT
  OwnMemory
