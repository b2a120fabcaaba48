\* Expected to be violated: a node change overlaps a regeneration or a password change.
SPECIFICATION Spec
CONSTANTS
  r1 = r1
  r2 = r2
  a = a
  b = b
  good = good
  other = other
  invalid = invalid
  deaf = deaf
  tunnel = tunnel
  h1 = h1
  None = None
  Main = Main
  Reqs = {r1, r2}
  Names = {a, b}
  Ports <- MCPorts
  Tags = {good, other, invalid, deaf, tunnel}
  InvalidTags = {invalid}
  DeafTags = {deaf}
  TunnelTags = {}
  Hosts = {h1}
  Ops <- AllOps
  InitConfig <- InitTcp
  Retries = 1
  SaveOutcomes = {"ok"}
  MaxInFlight = 2
  ForeignSocks = {}
  Polite = FALSE
  Linger = {}
  Impatient = {}
  MaxStops = 0
INVARIANTS RevokedStaysRevoked
\* The requests are finite in number: when all are answered the system rests.
CHECK_DEADLOCK FALSE
