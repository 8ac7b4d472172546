\* Two terminals whose transactions have one payer and one second, or one terminal
\* that starts again while its first transaction is in flight.
SPECIFICATION Spec
CONSTANTS
  d1 = d1
  d2 = d2
  p1 = p1
  p2 = p2
  None = None
  Device <- TwoDevices
  Payer <- OnePayer
  CreatedAt <- SameSecond
  HubKinds <- ApprovalKinds
  MaxMsg = 3
  MaxAuth = 2
  MaxTrx = 3
  MaxDeliver = 1
  MaxRepeats = 0
  MaxFaults = 0
  MaxCrashes = 0
  MaxExpiries = 0
INVARIANTS
  LinksStayOnTerminal
  PasswordFollowsApproval
  OneVerdict
SYMMETRY Terminals
CHECK_DEADLOCK FALSE
