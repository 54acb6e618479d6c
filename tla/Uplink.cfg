SPECIFICATION FairSpec
CONSTANTS
  Clients = {c1, c2}
  Cap = 2
  MaxVersion = 2
  AcceptMayFail = TRUE
  MayStop = TRUE
  None = None
INVARIANTS
  UplinkTypeOK
  NoMissedUpdate
PROPERTIES
  EveryUpdateArrives
  ClientsAreServed
