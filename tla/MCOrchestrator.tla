--------------------------- MODULE MCOrchestrator ---------------------------
(***************************************************************************)
(* Instances of Orchestrator for TLC.                                      *)
(***************************************************************************)
EXTENDS CashRefinement, OrchestratorHistory, TLC

CONSTANTS d1, d2, p1, p2

OneDevice == {d1}
TwoDevices == {d1, d2}
OnePayer == {p1}
TwoPayers == {p1, p2}
Terminals == Permutations(TwoDevices)

\* Every transaction in its own second, or all in one.
OwnSecond == [t \in TrxId |-> t]
SameSecond == [t \in TrxId |-> 0]

AllKinds == AboutTransaction \cup AboutTransfer
\* Nobody rejects, aborts or reports an error.
WillingKinds ==
  {"parties", "accepted", "quoteRequest", "authorization", "transferRequest",
   "quoteResponse", "committed"}
\* Up to the approval on the terminal, the password and the reversal.
ApprovalKinds == {"parties", "accepted", "quoteRequest", "authorization"}
\* They may also turn the transaction down.
AnswerKinds == WillingKinds \cup {"rejected", "aborted"}
\* The FSP of a refund's payee reports an error.
ErrorKinds == WillingKinds \cup {"quoteError"}
=============================================================================
