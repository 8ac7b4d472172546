\* Nothing fails, the hub accepts and commits, and a transaction or a quote may
\* expire: the terminal gets its answers.
SPECIFICATION FairSpec
CONSTANTS
  d1 = d1
  d2 = d2
  p1 = p1
  p2 = p2
  None = None
  Device <- OneDevice
  Payer <- OnePayer
  CreatedAt <- OwnSecond
  HubKinds <- WillingKinds
  MaxMsg = 3
  MaxAuth = 1
  MaxTrx = 2
  MaxDeliver = 1
  MaxRepeats = 0
  MaxFaults = 0
  MaxCrashes = 0
  MaxExpiries = 1

  
PROPERTIES
  FulfilledIsAnswered
  RefundIsAnswered
CHECK_DEADLOCK FALSE
