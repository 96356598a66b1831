SPECIFICATION Spec
CONSTANTS
  TF_MAX_ID_LST = 2
  TF_MAX_TYPE_LST = 1
  TF_MAX_GEN_LST = 1
  Requests <- McPlainRequests
  Messages <- McMessages
  Free = Free
  SelfRemoval = TRUE
  TickPreempts = FALSE
  MaxRegs = 3
  MaxDepth = 3
INVARIANT
  RegistrationsKept
