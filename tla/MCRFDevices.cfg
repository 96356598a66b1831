SPECIFICATION FairSpec
CONSTANTS
  server = server
  client = client
  imu = imu
  Nodes <- McNodes
  Senders <- McSenders
  Board <- McBoard
  MaxStarts <- McMaxStarts
  MAX_MSG_COUNT = 2
  Repeat = 2
INVARIANTS
  TypeOK
  AcceptsFresh
  OverrunAtTheEnd
  ReachesTheNode
PROPERTY
  Arrives
\* The processes end once they were started MaxStarts times.
CHECK_DEADLOCK FALSE
