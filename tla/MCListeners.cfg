SPECIFICATION FairSpec
CONSTANTS
  TF_MAX_ID_LST = 2
  TF_MAX_TYPE_LST = 1
  TF_MAX_GEN_LST = 1
  Requests <- McRequests
  Messages <- McMessages
  Free = Free
  SelfRemoval = FALSE
  TickPreempts = FALSE
  MaxRegs = 3
  MaxDepth = 3
INVARIANTS
  TypeOK
  CountsCoverListeners
  RegistrationsKept
  UserdataReleasedOnce
  ExpiresOnTime
  NoneSkipped
PROPERTY
  ListenerEnds
