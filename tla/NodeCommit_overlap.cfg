\* Two requests at a time, and a crash or a shutdown.
SPECIFICATION Spec
CONSTANTS
  r1 = r1
  r2 = r2
  a = a
  b = b
  good = good
  other = other
  invalid = invalid
  deaf = deaf
  tunnel = tunnel
  h1 = h1
  None = None
  Main = Main
  Reqs = {r1, r2}
  Names = {a, b}
  Ports <- MCPorts
  Tags = {good, other, invalid, deaf, tunnel}
  InvalidTags = {invalid}
  DeafTags = {deaf}
  TunnelTags = {}
  Hosts = {h1}
  Ops <- OverlapOps
  InitConfig <- InitTcp
  Retries = 1
  SaveOutcomes = {"ok"}
  MaxInFlight = 2
  ForeignSocks = {}
  Polite = FALSE
  Linger = {}
  Impatient = {r1, r2}
  MaxStops = 1
INVARIANTS TypeOK HandlesLive StoredChecked
SYMMETRY Symmetry
\* The requests are finite in number: when all are answered the system rests.
CHECK_DEADLOCK FALSE
