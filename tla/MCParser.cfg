SPECIFICATION Spec
CONSTANTS
  ByteBase = 2
  TF_ID_BYTES = 1
  TF_LEN_BYTES = 2
  TF_TYPE_BYTES = 1
  TF_CKSUM_BYTES = 1
  TF_CKSUM_NONE = FALSE
  TF_USE_SOF_BYTE = TRUE
  TF_SOF_BYTE = 1
  TF_CksumStart <- McStart
  TF_CksumAdd <- XorAdd
  TF_CksumEnd <- McEnd
  TF_MAX_PAYLOAD_RX = 2
  TF_PARSER_TIMEOUT_TICKS = 2
  NoMsg = NoMsg
  PeerMessages <- McPeerMessages
INVARIANTS
  TypeOK
  DeliveredAsSent
  BufferInBounds
  CleanFrameDelivered
