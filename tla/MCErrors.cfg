\* No worker takes what the error controllers put on ErrorResponses.
SPECIFICATION FairSpec
CONSTANTS
  d1 = d1
  d2 = d2
  p1 = p1
  p2 = p2
  None = None
  Device <- OneDevice
  Payer <- OnePayer
  CreatedAt <- OwnSecond
  HubKinds <- ErrorKinds
  MaxMsg = 3
  MaxAuth = 1
  MaxTrx = 2
  MaxDeliver = 1
  MaxRepeats = 0
  MaxFaults = 0
  MaxCrashes = 0
  MaxExpiries = 0
PROPERTIES
  ErrorIsHandled
CHECK_DEADLOCK FALSE
