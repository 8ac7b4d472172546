------------------------- MODULE AuthorizationFlow -------------------------
(***************************************************************************)
(* From the authorization request of a terminal to its answer: the payer   *)
(* is looked up, a transaction request is sent to its FSP, the FSP asks    *)
(* for a quote and for the authorization of the payer, and the terminal is *)
(* told the fees and asked for the one-time password.                      *)
(***************************************************************************)
EXTENDS AdaptorState

LA == "LegacyAuthorizationRequests"
PR == "PartiesResponse"
TRR == "TransactionRequestResponses"
QR == "QuoteRequests"
AR == "AuthorizationRequests"

-----------------------------------------------------------------------------
(* legacyAuthorizationRequestHandler *)

\* Every transaction of the terminal that is not complete is cancelled.
LACancelIncomplete ==
  /\ At(LA, "start")
  /\ LET stale == Incomplete(lpsMessages[JobMessage(LA)].lpsKey) IN
     transactions' =
       [t \in TrxId |->
          IF t \in stale
            THEN [transactions[t] EXCEPT !.state = "transactionCancelled"]
            ELSE transactions[t]]
  /\ Goto(LA, "insertTransaction")
  /\ UNCHANGED <<environment, links, quotes, transfers, outputs>>

LAInsertTransaction ==
  /\ At(LA, "insertTransaction")
  /\ \E t \in NextTrx :
       /\ transactions' =
            [transactions EXCEPT ![t] =
               [NoTransaction EXCEPT
                  !.state = "transactionReceived",
                  !.lpsKey = lpsMessages[JobMessage(LA)].lpsKey,
                  !.payer = lpsMessages[JobMessage(LA)].payer]]
       /\ Begin(LA, "relate", t, 0, {})
  /\ UNCHANGED <<environment, links, quotes, transfers, outputs>>

LARelate ==
  /\ At(LA, "relate")
  /\ Relate(work[LA].trx, JobMessage(LA))
  /\ Goto(LA, "getParties")
  /\ UNCHANGED <<environment, transactions, quotes, transfers, outputs>>

LAGetParties ==
  /\ Call(LA, "getParties")
  /\ Done(LA)
  /\ UNCHANGED <<environment, transactions, links, quotes, transfers,
                 responses>>

LAThrow == Throw(LA, {}, {<<JobMessage(LA), "invalid">>})

LegacyAuthorizationRequestHandler ==
  LACancelIncomplete \/ LAInsertTransaction \/ LARelate \/ LAGetParties
    \/ LAThrow

-----------------------------------------------------------------------------
(* partiesResponseHandler *)

\* Mutant: the answer goes to the youngest transaction of any payer.
PRFind_AnyPayer ==
  /\ At(PR, "start")
  /\ LET waiting == {t \in TrxId :
                       transactions[t].state = "transactionReceived"} IN
     \/ waiting = {} /\ Done(PR)
     \/ \E t \in Latest(waiting) : Begin(PR, "updateParty", t, 0, {})
  /\ UNCHANGED <<environment, transactions, links, quotes, transfers, outputs>>

\* The answer names only the MSISDN: it goes to the youngest transaction of
\* that payer that still waits for one.
PRFind ==
  /\ At(PR, "start")
  /\ LET waiting == {t \in TrxId :
                       /\ transactions[t].state = "transactionReceived"
                       /\ transactions[t].payer
                            = transactions[work[PR].job[2]].payer} IN
     \/ waiting = {} /\ Done(PR)
     \/ \E t \in Latest(waiting) : Begin(PR, "updateParty", t, 0, {})
  /\ UNCHANGED <<environment, transactions, links, quotes, transfers, outputs>>

PRUpdateParty ==
  /\ At(PR, "updateParty")
  /\ transactions' = [transactions EXCEPT ![work[PR].trx].fspId = TRUE]
  /\ Goto(PR, "postTransactionRequests")
  /\ UNCHANGED <<environment, links, quotes, transfers, outputs>>

PRPostTransactionRequests ==
  /\ Call(PR, "postTransactionRequests")
  /\ Done(PR)
  /\ UNCHANGED <<environment, transactions, links, quotes, transfers,
                 responses>>

PRThrow == Throw(PR, {}, {})

PartiesResponseHandler ==
  PRFind \/ PRUpdateParty \/ PRPostTransactionRequests \/ PRThrow

-----------------------------------------------------------------------------
(* transactionRequestResponseHandler *)

\* The state is read here and written back by TRRRespond.
TRRRead ==
  /\ At(TRR, "start")
  /\ LET t == work[TRR].job[2]
         seen == IF transactions[t].state = "transactionCancelled"
                   THEN {"cancelled"} ELSE {} IN
     \/ work[TRR].job[1] = "accepted" /\ Begin(TRR, "respond", t, 0, seen)
     \/ work[TRR].job[1] = "rejected" /\ Begin(TRR, "reject", t, 0, {})
  /\ UNCHANGED <<environment, transactions, links, quotes, transfers, outputs>>

TRRRespond ==
  /\ At(TRR, "respond")
  /\ transactions' =
       [transactions EXCEPT
          ![work[TRR].trx].transactionId = TRUE,
          ![work[TRR].trx].state = IF "cancelled" \in work[TRR].seen
                                     THEN "transactionCancelled"
                                     ELSE "transactionResponded"]
  /\ Done(TRR)
  /\ UNCHANGED <<environment, links, quotes, transfers, outputs>>

\* Mutant: a state of the enumeration no other handler knows.
TRRReject_Declined ==
  /\ At(TRR, "reject")
  /\ SetState(work[TRR].trx, "transactionDeclined")
  /\ Done(TRR)
  /\ UNCHANGED <<environment, links, quotes, transfers, outputs>>

TRRReject ==
  /\ At(TRR, "reject")
  /\ SetState(work[TRR].trx, "transactionCancelled")
  /\ Done(TRR)
  /\ UNCHANGED <<environment, links, quotes, transfers, outputs>>

TRRThrow ==
  Throw(TRR, {<<"putTransactionRequestsError", work[TRR].job[2]>>}, {})

TransactionRequestResponseHandler ==
  TRRRead \/ TRRRespond \/ TRRReject \/ TRRThrow

-----------------------------------------------------------------------------
(* quotesRequestHandler *)

QRValidate ==
  /\ At(QR, "start")
  /\ LET t == work[QR].job[2] IN
     \/ IsValid(t) /\ Begin(QR, "insertQuote", t, 0, {})
     \/ ~IsValid(t) /\ Begin(QR, "putQuotesError", t, 0, {})
  /\ UNCHANGED <<environment, transactions, links, quotes, transfers, outputs>>

\* Mutant: the quote is upserted.
QRInsertQuote_Upsert ==
  /\ At(QR, "insertQuote")
  /\ quotes' = [quotes EXCEPT ![work[QR].trx] = "live"]
  /\ Goto(QR, "putQuotes")
  /\ UNCHANGED <<environment, transactions, links, transfers, outputs>>

\* A second quote with the same id violates the primary key: the handler's
\* catch refuses it.
QRInsertQuote ==
  /\ At(QR, "insertQuote")
  /\ \/ /\ quotes[work[QR].trx] = "none"
        /\ quotes' = [quotes EXCEPT ![work[QR].trx] = "live"]
        /\ Goto(QR, "putQuotes")
        /\ UNCHANGED sent
     \/ /\ quotes[work[QR].trx] # "none"
        /\ sent' = sent \cup {<<"putQuotesError", work[QR].trx>>}
        /\ Done(QR)
        /\ UNCHANGED quotes
  /\ UNCHANGED <<environment, transactions, links, transfers, responses>>

QRPutQuotes ==
  /\ Call(QR, "putQuotes")
  /\ Goto(QR, "updateState")
  /\ UNCHANGED <<environment, transactions, links, quotes, transfers,
                 responses>>

\* Mutant: the state authorizationRequestHandler writes.
QRUpdateState_AuthSent ==
  /\ At(QR, "updateState")
  /\ SetState(work[QR].trx, "authSent")
  /\ Done(QR)
  /\ UNCHANGED <<environment, links, quotes, transfers, outputs>>

QRUpdateState ==
  /\ At(QR, "updateState")
  /\ SetState(work[QR].trx, "quoteResponded")
  /\ Done(QR)
  /\ UNCHANGED <<environment, links, quotes, transfers, outputs>>

QRPutQuotesError ==
  /\ Call(QR, "putQuotesError")
  /\ Goto(QR, "refuse")
  /\ UNCHANGED <<environment, transactions, links, quotes, transfers,
                 responses>>

\* Without a linked message the handler throws, and its catch repeats the
\* error it has already sent.
QRRefuse ==
  /\ At(QR, "refuse")
  /\ LET requests == Linked(work[QR].trx, "authorizationRequest") IN
     \/ \E m \in requests : Respond(m, "invalid")
     \/ requests = {} /\ UNCHANGED responses
  /\ Done(QR)
  /\ UNCHANGED <<environment, transactions, links, quotes, transfers, sent>>

QRThrow == Throw(QR, {<<"putQuotesError", work[QR].job[2]>>}, {})

QuotesRequestHandler ==
  QRValidate \/ QRInsertQuote \/ QRPutQuotes \/ QRUpdateState
    \/ QRPutQuotesError \/ QRRefuse \/ QRThrow

-----------------------------------------------------------------------------
(* authorizationRequestHandler *)

ARMayApprove(t) == IsValid(t) /\ quotes[t] = "live"

\* The transaction, its quote and its message are read before anything is
\* decided; a transaction without a message is an error of the handler.
ARValidate ==
  /\ At(AR, "start")
  /\ LET t == work[AR].job[2]
         requests == Linked(t, "authorizationRequest") IN
     \/ /\ requests # {} /\ ARMayApprove(t)
        /\ Begin(AR, "approve", t, 0, {})
        /\ UNCHANGED sent
     \/ /\ requests # {} /\ ~ARMayApprove(t)
        /\ Begin(AR, "putAuthorizationsError", t, 0, {})
        /\ UNCHANGED sent
     \/ /\ requests = {}
        /\ sent' = sent \cup {<<"putAuthorizationsError", t>>}
        /\ Done(AR)
  /\ UNCHANGED <<environment, transactions, links, quotes, transfers,
                 responses>>

\* The terminal can be told before the transaction is authSent.
ARApprove ==
  /\ At(AR, "approve")
  /\ \E m \in Linked(work[AR].trx, "authorizationRequest") :
       Respond(m, "approved")
  /\ Goto(AR, "updateState")
  /\ UNCHANGED <<environment, transactions, links, quotes, transfers, sent>>

ARUpdateState ==
  /\ At(AR, "updateState")
  /\ SetState(work[AR].trx, "authSent")
  /\ Done(AR)
  /\ UNCHANGED <<environment, links, quotes, transfers, outputs>>

ARPutAuthorizationsError ==
  /\ Call(AR, "putAuthorizationsError")
  /\ Goto(AR, "refuse")
  /\ UNCHANGED <<environment, transactions, links, quotes, transfers,
                 responses>>

\* Mutant: the return after the refusal is missing.
ARRefuse_NoReturn ==
  /\ At(AR, "refuse")
  /\ \E m \in Linked(work[AR].trx, "authorizationRequest") :
       Respond(m, "invalid")
  /\ Goto(AR, "approve")
  /\ UNCHANGED <<environment, transactions, links, quotes, transfers, sent>>

ARRefuse ==
  /\ At(AR, "refuse")
  /\ \E m \in Linked(work[AR].trx, "authorizationRequest") :
       Respond(m, "invalid")
  /\ Done(AR)
  /\ UNCHANGED <<environment, transactions, links, quotes, transfers, sent>>

ARThrow ==
  Throw(AR, {<<"putAuthorizationsError", work[AR].job[2]>>}, {})

AuthorizationRequestHandler ==
  ARValidate \/ ARApprove \/ ARUpdateState \/ ARPutAuthorizationsError
    \/ ARRefuse \/ ARThrow
=============================================================================
