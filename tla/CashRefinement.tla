--------------------------- MODULE CashRefinement ---------------------------
(***************************************************************************)
(* Orchestrator implements CashPromise: what has happened to a transaction *)
(* is read off the calls made to the hub, its answers and the answers      *)
(* given to terminals.                                                     *)
(***************************************************************************)
EXTENDS OrchestratorInvariant

TransferOf(t) == {<<t, n>> : n \in 1..MaxDeliver}
Made(call, t) == \E x \in TransferOf(t) : <<call, x>> \in sent
Moved(t) == \E x \in TransferOf(t) : Committed(x)
Approved(t, type) == \E m \in Linked(t, type) : <<m, "approved">> \in responses

Happened(t, step) ==
  CASE step = "requested" -> <<"postTransactionRequests", t>> \in sent
    [] step = "quoted" -> <<"putQuotes", t>> \in sent
    [] step = "shown" -> Approved(t, "authorizationRequest")
    [] step = "entered" -> <<"putAuthorizations", t>> \in sent
    [] step = "fulfilled" -> Made("putTransfers", t)
    [] step = "debited" -> Moved(t)
    [] step = "dispensed" -> Approved(t, "financialRequest")
    [] step = "reversed" -> Linked(t, "reversalRequest") # {}
    [] step = "asked" -> <<"postQuotes", t>> \in sent
    [] step = "paid" -> Made("postTransfers", t)
    [] step = "credited" -> Moved(t)
    [] step = "confirmed" -> Approved(t, "reversalRequest")

StepsOfTrx(t) ==
  IF IsRefund(t) THEN {"asked", "paid", "credited", "confirmed"}
    ELSE {"requested", "quoted", "shown", "entered", "fulfilled", "debited",
          "dispensed", "reversed"}

Promise == INSTANCE CashPromise WITH
  Trx <- TrxId, Till <- Device, Nobody <- None,
  terminal <- [t \in TrxId |-> transactions[t].lpsKey],
  original <- [t \in TrxId |-> transactions[t].original],
  done <- [t \in TrxId |-> {step \in StepsOfTrx(t) : Happened(t, step)}]

\* Whatever is repeated, delayed, reversed, thrown or lost, each step of the
\* orchestrator is a step of CashPromise or nothing a customer can see: what
\* happens to a transaction happens in order and once, and is not undone.
KeepsPromise == Promise!PromiseSpec
=============================================================================
