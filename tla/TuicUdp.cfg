\* Every order of arrival, on either loop, with losses and dissociations.
SPECIFICATION Spec
CONSTANTS
  p = p
  q = q
  s = s
  a = a
  b = b
  None = None
  Assocs = {a, b}
  Packets = {p, q, s}
  AssocOf <- MCAssocOf
  PktId <- MCPktId
  Fragments <- MCFragments
  Unresolvable = {q}
  MaxDissociations = 1
INVARIANTS SentWhole SentOnce SocketsAccounted
\* The client has sent all its packets.
CHECK_DEADLOCK FALSE
