SPECIFICATION FairSpec
CONSTANTS
  master = master
  slave = slave
  Peers <- McPeers
  TF_PeerBit <- McPeerBit
  IdCount = 2
  TF_MAX_ID_LST = 2
  OthersSlots = {0, 1}
  Timeouts <- McTimeouts
  Lifetime = 1
  Rate = 1
  MaxQueries <- McMaxQueries
  MaxRestarts = 1
INVARIANTS
  TypeOK
  OnlyResetsMislead
  AwaitedIdsDistinct
PROPERTY
  IsExchange
