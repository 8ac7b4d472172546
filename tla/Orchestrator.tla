---------------------------- MODULE Orchestrator ----------------------------
(***************************************************************************)
(* The orchestrator of the Mojaloop adaptor: the handlers at work on their *)
(* queues, with terminals, hub, clock and failures around them, and what   *)
(* it owes to terminals and hub.                                           *)
(***************************************************************************)
EXTENDS AuthorizationFlow, FinancialFlow, ReversalFlow, Environment

Handler ==
  \/ LegacyAuthorizationRequestHandler
  \/ PartiesResponseHandler
  \/ TransactionRequestResponseHandler
  \/ QuotesRequestHandler
  \/ AuthorizationRequestHandler
  \/ LegacyFinancialRequestHandler
  \/ TransferRequestHandler
  \/ TransferResponseHandler
  \/ LegacyReversalHandler
  \/ QuoteResponseHandler

Terminal(d) ==
  SendAuthorizationRequest(d) \/ SendFinancialRequest(d) \/ SendReversalAdvice(d)

Next ==
  \/ \E q \in WorkerQueue : Take(q)
  \/ Handler
  \/ \E d \in Device : Terminal(d)
  \/ \E h \in HubMessage : Deliver(h)
  \/ \E t \in TrxId : ExpireTransaction(t) \/ ExpireQuote(t)
  \/ Crash

Spec == Init /\ [][Next]_vars

\* Workers do not sleep while there is a job, and handlers go on: what they
\* await comes or throws.  The hub sends what it has been prompted to send.
\* Terminals, clock and failures are under no obligation.
Fairness ==
  /\ \A q \in WorkerQueue : WF_vars(Take(q))
  /\ WF_vars(LegacyAuthorizationRequestHandler)
  /\ WF_vars(PartiesResponseHandler)
  /\ WF_vars(TransactionRequestResponseHandler)
  /\ WF_vars(QuotesRequestHandler)
  /\ WF_vars(AuthorizationRequestHandler)
  /\ WF_vars(LegacyFinancialRequestHandler)
  /\ WF_vars(TransferRequestHandler)
  /\ WF_vars(TransferResponseHandler)
  /\ WF_vars(LegacyReversalHandler)
  /\ WF_vars(QuoteResponseHandler)
  /\ \A h \in HubMessage : WF_vars(Deliver(h))

FairSpec == Spec /\ Fairness

-----------------------------------------------------------------------------
(* Safety. *)

Committed(x) == HasDelivered(<<"committed", x>>)

\* What makes message m worth an approval.
Earned(m) ==
  CASE lpsMessages[m].type = "financialRequest" ->
         \E x \in TransferId :
           /\ <<x[1], m>> \in links /\ ~IsRefund(x[1])
           /\ <<"putTransfers", x>> \in sent /\ Committed(x)
    [] lpsMessages[m].type = "reversalRequest" ->
         \E x \in TransferId :
           /\ <<x[1], m>> \in links /\ IsRefund(x[1])
           /\ <<"postTransfers", x>> \in sent /\ Committed(x)
    [] OTHER -> TRUE

\* A terminal is told "approved" for a financial request, and dispenses, only
\* after the hub has committed the transfer the adaptor fulfilled for the
\* transaction of that request; for a reversal advice only after the hub has
\* committed the transfer the adaptor made for the refund of that advice
\* (transfer-response-handler.ts).
ApprovedMeansCommitted ==
  \A m \in MsgId : <<m, "approved">> \in responses => Earned(m)

\* The one-time password is sent on only for a transaction whose own quote the
\* hub has and whose fees have been shown on the terminal that sent the
\* password, and to a known FSP (legacy-financial-request-handler.ts).
PasswordFollowsApproval ==
  \A t \in TrxId :
    <<"putAuthorizations", t>> \in sent =>
      /\ transactions[t].fspId
      /\ <<"putQuotes", t>> \in sent
      /\ \E m \in Linked(t, "authorizationRequest") :
           <<m, "approved">> \in responses
      /\ \E m \in Linked(t, "financialRequest") :
           lpsMessages[m].lpsKey = transactions[t].lpsKey

\* A transfer is fulfilled only when its row has been stored, and never a
\* second time, however often the hub asks (transfer-request-handler.ts).
FulfilledOnce ==
  /\ \A x \in TransferId :
       <<"putTransfers", x>> \in sent => transfers[x] # "none"
  /\ At(TR, "putTransfers") =>
       /\ transfers[WorkTransfer(TR)] = "RECEIVED"
       /\ <<"putTransfers", WorkTransfer(TR)>> \notin sent

\* What makes withdrawal o worth a refund for terminal d.
MayRefund(o, d) ==
  /\ Exists(o) /\ ~IsRefund(o)
  /\ \E n \in 1..MaxDeliver : Committed(<<o, n>>)
  /\ \E m \in Linked(o, "reversalRequest") :
       lpsMessages[m].lpsKey = d /\ <<o, lpsMessages[m].about>> \in links

\* A refund exists only for a withdrawal the hub has committed, on the advice
\* of the terminal that made the withdrawal and about a message of it; no
\* refund is refunded (legacy-reversals-handler.ts).
RefundOnlyCommitted ==
  \A t \in TrxId :
    IsRefund(t) => MayRefund(transactions[t].original, transactions[t].lpsKey)

\* Money leaves the adaptor only for a refund the hub has been asked to quote,
\* and no refund asks an FSP for a transaction request
\* (quote-response-handler.ts, parties-response-handler.ts).
RefundGoesItsOwnWay ==
  \A t \in TrxId :
    /\ (\E n \in 1..MaxDeliver : <<"postTransfers", <<t, n>>>> \in sent) =>
         IsRefund(t) /\ <<"postQuotes", t>> \in sent
    /\ IsRefund(t) =>
         /\ <<"postTransactionRequests", t>> \notin sent
         /\ <<"putAuthorizations", t>> \notin sent

\* A message and the transactions it is linked to belong to one terminal, so
\* that no terminal gets the answer to another one's request.
LinksStayOnTerminal ==
  \A t \in TrxId, m \in MsgId :
    <<t, m>> \in links => transactions[t].lpsKey = lpsMessages[m].lpsKey

\* The hub has repeated nothing and no await has thrown.
Undisturbed == budget.repeats = MaxRepeats /\ budget.faults = MaxFaults

\* As long as the hub repeats nothing and no await throws, no request of a
\* terminal is both approved and declared invalid.
OneVerdict ==
  Undisturbed =>
    \A m \in MsgId :
      ~(<<m, "approved">> \in responses /\ <<m, "invalid">> \in responses)

\* Under the same conditions no transfer is both fulfilled and refused.
NoRefusalAfterFulfilment ==
  Undisturbed =>
    \A x \in TransferId :
      ~(<<"putTransfers", x>> \in sent /\ <<"putTransfersError", x>> \in sent)

\* The quote of a withdrawal that has expired, by time or by a reversal, does
\* not come to life again: this is what keeps a reversed transaction from
\* being fulfilled when its state is overwritten.
ExpiredQuoteStaysExpired ==
  [][\A t \in TrxId :
       ~IsRefund(t) /\ quotes[t] = "expired" => quotes'[t] = "expired"]_vars

-----------------------------------------------------------------------------
(* Liveness. *)

Answered(m) == <<m, "approved">> \in responses \/ <<m, "invalid">> \in responses

\* A fulfilled transfer the hub commits is answered to the terminal, reversed
\* or not.
FulfilledIsAnswered ==
  \A t \in TrxId :
    (\E n \in 1..MaxDeliver : <<"putTransfers", <<t, n>>>> \in sent)
      ~> \E m \in Linked(t, "financialRequest") : Answered(m)

\* A refund once made is answered to the terminal that advised the reversal
\* (legacy-reversals-handler.ts, quote-response-handler.ts,
\* transfer-response-handler.ts).
RefundIsAnswered ==
  \A t \in TrxId :
    IsRefund(t) ~> \E m \in Linked(t, "reversalRequest") : Answered(m)

\* Another request names the payer of m or comes from its terminal.
Contested(m) ==
  \E k \in Received({"authorizationRequest"}) :
    /\ k # m
    /\ \/ lpsMessages[k].lpsKey = lpsMessages[m].lpsKey
       \/ lpsMessages[k].payer = lpsMessages[m].payer

\* A terminal gets an answer to its authorization request, whatever other
\* terminals do with other payers; a request that is contested may never be
\* answered (quote-request-handler.ts, authorization-request-handler.ts,
\* parties-response-handler.ts).
AuthorizationIsAnswered ==
  \A m \in MsgId :
    lpsMessages[m].type = "authorizationRequest" ~> Answered(m) \/ Contested(m)

-----------------------------------------------------------------------------
(* What documents and tests say and the code does not do. *)

\* README.md:8: another transaction initiation cancels the previous one.
CancelledStaysCancelled ==
  [][\A t \in TrxId :
       transactions[t].state = "transactionCancelled"
         => transactions'[t].state = "transactionCancelled"]_vars

\* A replayed reversal advice makes no second refund
\* (test/handlers/legacy-reversal-handler.test.ts:247).
OneRefundPerTransaction ==
  \A t, u \in TrxId :
    IsRefund(t) /\ IsRefund(u) /\ t # u
      => transactions[t].original # transactions[u].original

\* A transfer the hub has committed is COMMITTED in the table from then on
\* (test/handlers/transfer-response-handler.test.ts:129).
CommittedStaysCommitted ==
  [][\A x \in TransferId :
       transfers[x] = "COMMITTED" => transfers'[x] = "COMMITTED"]_vars

\* The error the hub reports is taken off its queue and handled
\* (test/handlers/error-response-handler.test.ts:68).
ErrorIsHandled ==
  queue["ErrorResponses"] # <<>> ~> queue["ErrorResponses"] = <<>>
=============================================================================
