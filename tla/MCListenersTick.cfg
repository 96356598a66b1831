SPECIFICATION Spec
CONSTANTS
  TF_MAX_ID_LST = 2
  TF_MAX_TYPE_LST = 1
  TF_MAX_GEN_LST = 1
  Requests <- McTimedRequests
  Messages <- McMessages
  Free = Free
  SelfRemoval = FALSE
  TickPreempts = TRUE
  MaxRegs = 3
  MaxDepth = 3
INVARIANT
  UserdataReleasedOnce
