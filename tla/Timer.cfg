SPECIFICATION FairSpec
CONSTANTS
  Devices = {d1, d2, d3}
  MaxTime = 1
INVARIANTS
  TypeOK
  NoRaceOnDone
  NoLostWakeup
  TimerOutlivesDevices
  NoUseAfterFree
PROPERTIES
  SlotBarrier
  ImplementsTimeSlots
  NextSlotReturns
  SimulationEnds
