\* The late write of transferRequestHandler turns COMMITTED into RESERVED.
SPECIFICATION Spec
CONSTANTS
  d1 = d1
  d2 = d2
  p1 = p1
  p2 = p2
  None = None
  Device <- OneDevice
  Payer <- OnePayer
  CreatedAt <- OwnSecond
  HubKinds <- WillingKinds
  MaxMsg = 2
  MaxAuth = 1
  MaxTrx = 1
  MaxDeliver = 1
  MaxRepeats = 0
  MaxFaults = 0
  MaxCrashes = 0
  MaxExpiries = 0
PROPERTIES
  CommittedStaysCommitted
CHECK_DEADLOCK FALSE
