SPECIFICATION FairSpec
CONSTANTS
  Users = {u1, u2}
  Calls <- McAllCalls
  NoJob = NoJob
  TF_SENDBUF_LEN = 10
  TF_PeerBit = TRUE
  TF_USE_MUTEX = TRUE
  MaxCalls = 4
  ByteBase = 2
  TF_ID_BYTES = 2
  TF_LEN_BYTES = 2
  TF_TYPE_BYTES = 1
  TF_CKSUM_BYTES = 2
  TF_CKSUM_NONE = FALSE
  TF_USE_SOF_BYTE = TRUE
  TF_SOF_BYTE = 1
  TF_CksumStart <- McStart
  TF_CksumAdd <- McAdd
  TF_CksumEnd <- McEnd
INVARIANTS
  TypeOK
  LineIsFrames
  SendBufferInBounds
  LockedByOne
PROPERTY
  LockReleased
\* The users stop calling after MaxCalls calls.
CHECK_DEADLOCK FALSE
