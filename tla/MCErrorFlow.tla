---------------------------- MODULE MCErrorFlow ----------------------------
(***************************************************************************)
(* An instance of ErrorFlow for TLC.                                       *)
(***************************************************************************)
EXTENDS ErrorFlow

CONSTANTS d1, p1

OneDevice == {d1}
OnePayer == {p1}
OwnSecond == [t \in TrxId |-> t]

\* Quotes and transfers may fail.
FailingKinds ==
  {"parties", "accepted", "quoteRequest", "authorization", "transferRequest",
   "quoteResponse", "committed", "quoteError", "transferError"}
=============================================================================
