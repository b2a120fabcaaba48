\* A new or an old installation, two crashes, two ports taken at the wrong time.
SPECIFICATION Spec
CONSTANTS
  Ports = {1, 2, 3}
  Fixed = 1
  Retries = 1
  Numbers = {1, 2, 3, 4, 5, 6}
  MaxCrashes = 2
  MaxGrabs = 2
INVARIANTS KnownPassword IdentityMatches RunsAsSaved
PROPERTIES Kept ComesUp
\* The crashes are bounded, and a program that is up may run for ever.
CHECK_DEADLOCK FALSE
