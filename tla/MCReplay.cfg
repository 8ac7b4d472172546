\* A reversal advice sent again makes a second refund of one withdrawal.
SPECIFICATION Spec
CONSTANTS
  d1 = d1
  d2 = d2
  p1 = p1
  p2 = p2
  None = None
  Device <- OneDevice
  Payer <- OnePayer
  CreatedAt <- OwnSecond
  HubKinds <- WillingKinds
  MaxMsg = 4
  MaxAuth = 1
  MaxTrx = 3
  MaxDeliver = 1
  MaxRepeats = 0
  MaxFaults = 0
  MaxCrashes = 0
  MaxExpiries = 0
INVARIANTS
  OneRefundPerTransaction
CHECK_DEADLOCK FALSE
