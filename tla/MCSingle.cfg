\* One terminal that authorizes, pays and reverses; the hub may turn the transaction
\* down, abort its transfer, and repeat any one of its messages.
SPECIFICATION Spec
CONSTANTS
  d1 = d1
  d2 = d2
  p1 = p1
  p2 = p2
  None = None
  Device <- OneDevice
  Payer <- OnePayer
  CreatedAt <- OwnSecond
  HubKinds <- AnswerKinds
  MaxMsg = 3
  MaxAuth = 1
  MaxTrx = 2
  MaxDeliver = 2
  MaxRepeats = 1
  MaxFaults = 0
  MaxCrashes = 0
  MaxExpiries = 0
INVARIANTS
  TypeOK
  ApprovedMeansCommitted
  OneVerdict
  NoRefusalAfterFulfilment
  
  FulfilledOnce
  RefundGoesItsOwnWay
PROPERTIES
  ExpiredQuoteStaysExpired
CHECK_DEADLOCK FALSE
