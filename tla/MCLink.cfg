SPECIFICATION LinkSpec
CONSTANTS
  Users = {u1, u2}
  Calls <- McCalls
  NoJob = NoJob
  TF_SENDBUF_LEN = 10
  TF_PeerBit = TRUE
  TF_USE_MUTEX = FALSE
  MaxCalls = 3
  ByteBase = 2
  TF_ID_BYTES = 2
  TF_LEN_BYTES = 2
  TF_TYPE_BYTES = 1
  TF_CKSUM_BYTES = 2
  TF_CKSUM_NONE = FALSE
  TF_USE_SOF_BYTE = TRUE
  TF_SOF_BYTE = 1
  TF_CksumStart <- McStart
  TF_CksumAdd <- McAdd
  TF_CksumEnd <- McEnd
  TF_MAX_PAYLOAD_RX = 2
  TF_PARSER_TIMEOUT_TICKS = 2
  NoMsg = NoMsg
  MaxRestarts = 1
INVARIANTS
  LineIsFrames
PROPERTY
  LockReleased
  IsChannel
\* The users stop calling after MaxCalls calls.
CHECK_DEADLOCK FALSE
