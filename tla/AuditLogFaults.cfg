\* Two writers on one file, every kind of fault, entries too long for the tail
\* reader.
SPECIFICATION Spec
CONSTANTS
  Writers = {w1, w2}
  Contents = {sign, submit}
  Long = {submit}
  Faults = {"oserror", "torn"}
  MaxEvents = 4
  MaxFaults = 2
  MaxCrashes = 1
SYMMETRY Symmetry
CHECK_DEADLOCK FALSE
INVARIANTS
  BreaksAccounted
  LossAccounted
PROPERTY AppendOnly
