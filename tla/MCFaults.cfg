\* An await throws and the process crashes once, wherever they like: the inductive
\* invariants of the proofs hold and the promise about cash is kept.
SPECIFICATION Spec
CONSTANTS
  d1 = d1
  d2 = d2
  p1 = p1
  p2 = p2
  None = None
  Device <- OneDevice
  Payer <- OnePayer
  CreatedAt <- OwnSecond
  HubKinds <- WillingKinds
  MaxMsg = 3
  MaxAuth = 1
  MaxTrx = 2
  MaxDeliver = 1
  MaxRepeats = 0
  MaxFaults = 1
  MaxCrashes = 1
  MaxExpiries = 0
INVARIANTS
  
  History

  
CHECK_DEADLOCK FALSE
