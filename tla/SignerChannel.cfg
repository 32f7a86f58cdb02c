\* One call (calls share nothing but the lives of the processes), three processes
\* that follow one another on the path, the three retries of the code.
SPECIFICATION FairSpec
CONSTANTS
  Calls = {c1}
  Instances = {i1, i2, i3}
  None = None
  MaxRetries = 3
CHECK_DEADLOCK FALSE
INVARIANTS DuplicatesExcused OnlyOwnersServed
PROPERTIES QuietAfterAnswer KeepsSubmission EveryCallEnds
