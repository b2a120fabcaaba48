\* Every command to every loop.
SPECIFICATION FairSpec
CONSTANTS
  UniCmds = {"relay", "auth", "badauth", "other", "partial"}
  BiCmds = {"relay"}
  DgCmds = {"relay", "other"}
  AuthTimeout = 3
  MaxSent = 2
INVARIANTS RelayedAuthenticated LoopsAlive OneForgotten
PROPERTIES WaitsEnd
\* The client may have sent all it will ever send.
CHECK_DEADLOCK FALSE
