\* Two connections that come and go share the answers to a message.
SPECIFICATION RelayFairSpec
CONSTANTS
  c1 = c1
  c2 = c2
  Conn <- TwoConnections
  MaxMsg = 1
  MaxAnswers = 2
  MaxFaults = 1
  Trace <- OneTrace
  Second <- Seconds
  Fee <- Fees
  AdaptorFee = 25
INVARIANTS
  RelayIInv
  AnsweredOnce
  LostOnlyUnheard
  FeeIsShown
PROPERTIES
  ClosedTakesOnlyReversals
  AnswerIsWritten
  ArrivedIsQueued
CHECK_DEADLOCK FALSE
