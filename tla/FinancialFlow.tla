--------------------------- MODULE FinancialFlow ---------------------------
(***************************************************************************)
(* From the financial request of a terminal, which carries the one-time    *)
(* password, to its answer: the password goes to the FSP of the payer, the *)
(* hub prepares a transfer, the adaptor fulfils it, and when the hub has   *)
(* committed it the terminal may dispense.                                 *)
(***************************************************************************)
EXTENDS AdaptorState

LF == "LegacyFinancialRequests"
TR == "TransferRequests"
TX == "TransferResponses"

-----------------------------------------------------------------------------
(* legacyFinancialRequestHandler *)

\* Mutant: the transaction may be one of another terminal.
LFFind_AnyTerminal ==
  /\ At(LF, "start")
  /\ LET open == {t \in TrxId : transactions[t].state = "authSent"} IN
     \/ open = {} /\ Done(LF)
     \/ \E t \in Latest(open) : Begin(LF, "relate", t, 0, {})
  /\ UNCHANGED <<environment, transactions, links, quotes, transfers, outputs>>

\* The request names no transaction: it is for the youngest one of its
\* terminal that is authSent.  When there is none nothing is answered.
LFFind ==
  /\ At(LF, "start")
  /\ LET open == {t \in TrxId :
                    /\ transactions[t].state = "authSent"
                    /\ transactions[t].lpsKey
                         = lpsMessages[JobMessage(LF)].lpsKey} IN
     \/ open = {} /\ Done(LF)
     \/ \E t \in Latest(open) : Begin(LF, "relate", t, 0, {})
  /\ UNCHANGED <<environment, transactions, links, quotes, transfers, outputs>>

LFRelate ==
  /\ At(LF, "relate")
  /\ Relate(work[LF].trx, JobMessage(LF))
  /\ Goto(LF, "putAuthorizations")
  /\ UNCHANGED <<environment, transactions, quotes, transfers, outputs>>

LFPutAuthorizations ==
  /\ Call(LF, "putAuthorizations")
  /\ Goto(LF, "updateState")
  /\ UNCHANGED <<environment, transactions, links, quotes, transfers,
                 responses>>

LFUpdateState ==
  /\ At(LF, "updateState")
  /\ SetState(work[LF].trx, "financialRequestSent")
  /\ Done(LF)
  /\ UNCHANGED <<environment, links, quotes, transfers, outputs>>

LFThrow == Throw(LF, {}, {})

LegacyFinancialRequestHandler ==
  LFFind \/ LFRelate \/ LFPutAuthorizations \/ LFUpdateState
    \/ LFThrow

-----------------------------------------------------------------------------
(* transferRequestHandler *)

TRMayFulfil(t) == IsValid(t) /\ quotes[t] = "live"

\* The transfer names the transactionId of its ILP packet; no row has it until
\* the transaction request has been accepted.
TRValidate ==
  /\ At(TR, "start")
  /\ LET t == work[TR].job[2] IN
     \/ /\ transactions[t].transactionId /\ TRMayFulfil(t)
        /\ Begin(TR, "insertTransfer", t, 1, {})
        /\ UNCHANGED sent
     \/ /\ transactions[t].transactionId /\ ~TRMayFulfil(t)
        /\ Begin(TR, "putTransfersError", t, 1, {})
        /\ UNCHANGED sent
     \/ /\ ~transactions[t].transactionId
        /\ sent' = sent \cup {<<"putTransfersError", <<t, 1>>>>}
        /\ Done(TR)
  /\ UNCHANGED <<environment, transactions, links, quotes, transfers,
                 responses>>

\* Mutant: the transfer is upserted.
TRInsertTransfer_Upsert ==
  /\ At(TR, "insertTransfer")
  /\ transfers' = [transfers EXCEPT ![WorkTransfer(TR)] = "RECEIVED"]
  /\ Goto(TR, "putTransfers")
  /\ UNCHANGED <<environment, transactions, links, quotes, outputs>>

\* A transfer that is already there violates the primary key: the handler's
\* catch refuses it.
TRInsertTransfer ==
  /\ At(TR, "insertTransfer")
  /\ \/ /\ transfers[WorkTransfer(TR)] = "none"
        /\ transfers' = [transfers EXCEPT ![WorkTransfer(TR)] = "RECEIVED"]
        /\ Goto(TR, "putTransfers")
        /\ UNCHANGED sent
     \/ /\ transfers[WorkTransfer(TR)] # "none"
        /\ sent' = sent \cup {<<"putTransfersError", WorkTransfer(TR)>>}
        /\ Done(TR)
        /\ UNCHANGED transfers
  /\ UNCHANGED <<environment, transactions, links, quotes, responses>>

\* The fulfilment leaves the adaptor.
TRPutTransfers ==
  /\ Call(TR, "putTransfers")
  /\ Goto(TR, "updateState")
  /\ UNCHANGED <<environment, transactions, links, quotes, transfers,
                 responses>>

TRUpdateState ==
  /\ At(TR, "updateState")
  /\ SetState(work[TR].trx, "fulfillmentSent")
  /\ Goto(TR, "updateTransfer")
  /\ UNCHANGED <<environment, links, quotes, transfers, outputs>>

\* Mutant: the fulfilment is taken for the commitment.
TRUpdateTransfer_Committed ==
  /\ At(TR, "updateTransfer")
  /\ transfers' = [transfers EXCEPT ![WorkTransfer(TR)] = "COMMITTED"]
  /\ Done(TR)
  /\ UNCHANGED <<environment, transactions, links, quotes, outputs>>

\* Written whatever the transfer has become since it was inserted.
TRUpdateTransfer ==
  /\ At(TR, "updateTransfer")
  /\ transfers' = [transfers EXCEPT ![WorkTransfer(TR)] = "RESERVED"]
  /\ Done(TR)
  /\ UNCHANGED <<environment, transactions, links, quotes, outputs>>

TRPutTransfersError ==
  /\ Call(TR, "putTransfersError")
  /\ Goto(TR, "refuse")
  /\ UNCHANGED <<environment, transactions, links, quotes, transfers,
                 responses>>

\* Mutant: the return after the refusal is missing.
TRRefuse_NoReturn ==
  /\ At(TR, "refuse")
  /\ Goto(TR, "insertTransfer")
  /\ UNCHANGED <<environment, transactions, links, quotes, transfers, outputs>>

\* Without a linked message the handler throws, and its catch repeats the
\* error it has already sent.
TRRefuse ==
  /\ At(TR, "refuse")
  /\ LET requests == Linked(work[TR].trx, "financialRequest") IN
     \/ \E m \in requests : Respond(m, "invalid")
     \/ requests = {} /\ UNCHANGED responses
  /\ Done(TR)
  /\ UNCHANGED <<environment, transactions, links, quotes, transfers, sent>>

TRThrow == Throw(TR, {<<"putTransfersError", <<work[TR].job[2], 1>>>>}, {})

TransferRequestHandler ==
  TRValidate \/ TRInsertTransfer \/ TRPutTransfers \/ TRUpdateState
    \/ TRUpdateTransfer \/ TRPutTransfersError \/ TRRefuse \/ TRThrow

-----------------------------------------------------------------------------
(* transferResponseHandler: for withdrawals and for refunds. *)

\* Mutant: the transferState of the answer is not looked at.
TXRead_AnyState ==
  /\ At(TX, "start")
  /\ LET x == work[TX].job[2] IN Begin(TX, "approve", x[1], x[2], {})
  /\ UNCHANGED <<environment, transactions, links, quotes, transfers, outputs>>

\* Mutant: only valid transactions are answered.
TXRead_ValidOnly ==
  /\ At(TX, "start")
  /\ LET x == work[TX].job[2] IN
     \/ /\ work[TX].job[1] = "committed" /\ IsValid(x[1])
        /\ Begin(TX, "approve", x[1], x[2], {})
     \/ (work[TX].job[1] # "committed" \/ ~IsValid(x[1])) /\ Done(TX)
  /\ UNCHANGED <<environment, transactions, links, quotes, transfers, outputs>>

\* Nothing is done about a transfer the hub has not committed.
TXRead ==
  /\ At(TX, "start")
  /\ LET x == work[TX].job[2] IN
     \/ /\ transfers[x] # "none" /\ work[TX].job[1] = "committed"
        /\ Begin(TX, "approve", x[1], x[2], {})
     \/ /\ transfers[x] = "none" \/ work[TX].job[1] # "committed"
        /\ Done(TX)
  /\ UNCHANGED <<environment, transactions, links, quotes, transfers, outputs>>

\* Mutant: refunds are answered like withdrawals, and so never.
TXApprove_NoRefunds ==
  /\ At(TX, "approve")
  /\ LET requests == Linked(work[TX].trx, "financialRequest") IN
     \/ /\ \E m \in requests : Respond(m, "approved")
        /\ Goto(TX, "updateState")
     \/ requests = {} /\ Done(TX) /\ UNCHANGED responses
  /\ UNCHANGED <<environment, transactions, links, quotes, transfers, sent>>

\* The message the answer is for: any of those linked.  Without one the
\* handler throws, and its catch only logs.
TXApprove ==
  /\ At(TX, "approve")
  /\ LET t == work[TX].trx
         requests == Linked(t, IF IsRefund(t) THEN "reversalRequest"
                                              ELSE "financialRequest") IN
     \/ /\ \E m \in requests : Respond(m, "approved")
        /\ Goto(TX, "updateState")
     \/ requests = {} /\ Done(TX) /\ UNCHANGED responses
  /\ UNCHANGED <<environment, transactions, links, quotes, transfers, sent>>

TXUpdateState ==
  /\ At(TX, "updateState")
  /\ SetState(work[TX].trx, "financialResponse")
  /\ Goto(TX, "updateTransfer")
  /\ UNCHANGED <<environment, links, quotes, transfers, outputs>>

TXUpdateTransfer ==
  /\ At(TX, "updateTransfer")
  /\ transfers' = [transfers EXCEPT ![WorkTransfer(TX)] = "COMMITTED"]
  /\ Done(TX)
  /\ UNCHANGED <<environment, transactions, links, quotes, outputs>>

TXThrow == Throw(TX, {}, {})

TransferResponseHandler ==
  TXRead \/ TXApprove \/ TXUpdateState \/ TXUpdateTransfer \/ TXThrow
=============================================================================
