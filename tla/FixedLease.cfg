SPECIFICATION Spec
CONSTANTS
  Adapters = {"asciibox", "codespaces", "digitalocean", "incus"}
  LateCreates = FALSE
  MaxClaims = 2
  MaxAttempts = 3
  MaxRequests = 3
INVARIANTS TypeOK OneIdentity Custody
PROPERTY CleanupIsFinal
CHECK_DEADLOCK FALSE
