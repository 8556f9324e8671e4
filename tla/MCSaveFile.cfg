SPECIFICATION Spec
CONSTANTS
  Absent = Absent
  Torn = Torn
  NotOpen = NotOpen
  MaxVersion = 4
  MaxFaults = 3
INVARIANTS
  SavedIsOnDisk
  CopyAtEveryStep
  CopyAfterOneFault
PROPERTIES
  ImplementsDurableCopy
