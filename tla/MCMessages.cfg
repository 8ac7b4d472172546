\* One connection, three messages stored in two seconds, an await that throws.
SPECIFICATION RelaySpec
CONSTANTS
  c1 = c1
  c2 = c2
  Conn <- OneConnection
  MaxMsg = 3
  MaxAnswers = 0
  MaxFaults = 1
  Trace <- BothTraces
  Second <- Seconds
  Fee <- NoFees
  AdaptorFee = 25
INVARIANTS
  RelayIInv
  
  RefusedOnlyUnknown
  AdviceFindsItsMessage
CHECK_DEADLOCK FALSE
