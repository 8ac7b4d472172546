\* The hub may report an error for a quote or a transfer: with the error handler at
\* work fulfilled transfers and refunds are answered, unless an await throws.
SPECIFICATION ErrorSpec
CONSTANTS
  d1 = d1
  p1 = p1
  None = None
  Device <- OneDevice
  Payer <- OnePayer
  CreatedAt <- OwnSecond
  HubKinds <- FailingKinds
  MaxMsg = 3
  MaxAuth = 1
  MaxTrx = 2
  MaxDeliver = 1
  MaxRepeats = 0
  MaxFaults = 1
  MaxCrashes = 0
  MaxExpiries = 0
INVARIANTS
  OneVerdict
  
PROPERTIES
  FulfilledIsSettled
  RefundIsSettled
CHECK_DEADLOCK FALSE
