\* One tool call, one SMP that publishes two endpoints.
SPECIFICATION Spec
CONSTANTS
  Calls = {c1}
  Hosts = {h1}
  Allowed = {h1}
  None = None
  MaxRetries = 0
  MaxMoves = 0
CHECK_DEADLOCK FALSE
INVARIANT CertificateOfEndpoint
