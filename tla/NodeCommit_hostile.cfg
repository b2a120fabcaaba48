\* One request at a time; other programs take any port, sockets linger, saves
\* fail early or late, tunnels report their host at any time.
SPECIFICATION Spec
CONSTANTS
  r1 = r1
  r2 = r2
  a = a
  b = b
  good = good
  other = other
  invalid = invalid
  deaf = deaf
  tunnel = tunnel
  h1 = h1
  None = None
  Main = Main
  Reqs = {r1}
  Names = {a, b}
  Ports <- MCPorts
  Tags = {good, other, invalid, deaf, tunnel}
  InvalidTags = {invalid}
  DeafTags = {deaf}
  TunnelTags = {tunnel}
  Hosts = {h1}
  Ops <- AllOps
  InitConfig <- InitTunnel
  Retries = 1
  SaveOutcomes = {"ok", "fail", "late"}
  MaxInFlight = 1
  ForeignSocks <- TcpSocks
  Polite = FALSE
  Linger <- TcpSocks
  Impatient = {}
  MaxStops = 0
INVARIANTS NoOrphans StatusTruthful
PROPERTIES AckedIsServed
\* The requests are finite in number: when all are answered the system rests.
CHECK_DEADLOCK FALSE
