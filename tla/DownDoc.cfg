SPECIFICATION FairSpec
CONSTANTS
  Clients = {c1}
  Cap = 2
  MaxVersion = 1
  AcceptMayFail = FALSE
  MayStop = TRUE
  None = None
PROPERTIES
  DownIsShown
