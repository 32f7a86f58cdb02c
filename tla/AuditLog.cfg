\* One writer that crashes and restarts, on a file that never fails.
SPECIFICATION Spec
CONSTANTS
  Writers = {w1}
  Contents = {sign, submit}
  Long = {}
  Faults = {}
  MaxEvents = 5
  MaxFaults = 0
  MaxCrashes = 3
CHECK_DEADLOCK FALSE
INVARIANTS
  InnerDeletionDetected
PROPERTIES
  RecordsHistory
