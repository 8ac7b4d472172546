\* README.md:8 has another initiation cancel the previous transaction; the late
\* write of a handler undoes it.
SPECIFICATION Spec
CONSTANTS
  d1 = d1
  d2 = d2
  p1 = p1
  p2 = p2
  None = None
  Device <- OneDevice
  Payer <- OnePayer
  CreatedAt <- OwnSecond
  HubKinds <- ApprovalKinds
  MaxMsg = 2
  MaxAuth = 2
  MaxTrx = 2
  MaxDeliver = 1
  MaxRepeats = 0
  MaxFaults = 0
  MaxCrashes = 0
  MaxExpiries = 0
PROPERTIES
  CancelledStaysCancelled
CHECK_DEADLOCK FALSE
