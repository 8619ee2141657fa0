SPECIFICATION Spec
CONSTANTS
  Devices = {c1, ld}
  Cpus = {c1}
  Loader = ld
  NumProcs = 1
  Inputs <- DocExample
  TimeSlot = 2
  MaxTime = 4
PROPERTY
  EveryCpuStops
