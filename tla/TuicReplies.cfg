\* Three sessions on two association ids, three packets.
SPECIFICATION Spec
CONSTANTS
  Sessions = {s1, s2, s3}
  Ids = 2
  Room = 1
  Streams = 2
  MaxPackets = 3
  None = None
INVARIANTS OwnReplies
PROPERTIES NoneHeldUp
\* The sessions and their packets are finite in number.
CHECK_DEADLOCK FALSE
