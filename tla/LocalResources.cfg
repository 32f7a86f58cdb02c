\* Three calls and closes of one client; two files, two releases and two download
\* runs; two code lists.
SPECIFICATION ResourceSpec
CONSTANTS
  Calls = {c1, c2, c3}
  Closers = {x1, x2, x3}
  Clients = {k1, k2, k3, k4, k5}
  Specs <- TwoFiles
  Readers = {r1}
  MaxReleases = 2
  MaxRuns = 2
  Lists = {"document_types", "country"}
  Edec = {"document_types"}
  ListReleases <- FourReleases
  None = None
CHECK_DEADLOCK FALSE
INVARIANTS
  OrphansBounded
  ZeroMeansComplete
  ValidMeansConforms
  LoadFailuresExcused
  AnswersNewest
