---------------------------- MODULE ReversalFlow ----------------------------
(***************************************************************************)
(* From the reversal advice of a terminal to its answer: the transaction   *)
(* is cancelled and its quote expired; when its transfer has been          *)
(* committed a refund transaction is made, for which the adaptor is the    *)
(* payer: it asks the FSP for a quote and makes the transfer.              *)
(***************************************************************************)
EXTENDS AdaptorState

LR == "LegacyReversalRequests"
QX == "QuoteResponses"

-----------------------------------------------------------------------------
(* legacyReversalHandler *)

\* Nothing is done for a message that already has its refund.
LRCheckReplay ==
  /\ At(LR, "start")
  /\ \/ /\ \E t \in TrxId : <<t, JobMessage(LR)>> \in links /\ IsRefund(t)
        /\ Done(LR)
     \/ /\ ~\E t \in TrxId : <<t, JobMessage(LR)>> \in links /\ IsRefund(t)
        /\ Goto(LR, "find")
  /\ UNCHANGED <<environment, transactions, links, quotes, transfers, outputs>>

\* The transaction of the terminal the advised message is linked to, with its
\* quote and one of its transfers.
LRFind ==
  /\ At(LR, "find")
  /\ LET m == JobMessage(LR)
         found == {t \in TrxId :
                     /\ transactions[t].lpsKey = lpsMessages[m].lpsKey
                     /\ <<t, lpsMessages[m].about>> \in links} IN
     \/ /\ found = {} \/ \E t \in found : ~transactions[t].transactionId
        /\ Respond(m, "invalid")
        /\ Done(LR)
     \/ \E t \in found :
          LET mine == {n \in 1..MaxDeliver : transfers[<<t, n>>] # "none"}
              live == IF quotes[t] = "live" THEN {"live"} ELSE {} IN
          /\ transactions[t].transactionId
          /\ \/ mine = {} /\ Begin(LR, "relate", t, 0, live)
             \/ \E n \in mine :
                  Begin(LR, "relate", t, n,
                        live \cup IF transfers[<<t, n>>] = "COMMITTED"
                                    THEN {"committed"} ELSE {})
          /\ UNCHANGED responses
  /\ UNCHANGED <<environment, transactions, links, quotes, transfers, sent>>

LRRelate ==
  /\ At(LR, "relate")
  /\ Relate(work[LR].trx, JobMessage(LR))
  /\ Goto(LR, "cancel")
  /\ UNCHANGED <<environment, transactions, quotes, transfers, outputs>>

\* Mutant: any transfer is refunded.
LRRefundOrDone_AnyTransfer ==
  IF work[LR].nth # 0 THEN Goto(LR, "insertRefund") ELSE Done(LR)

\* A transaction whose transfer was not committed when it was read gets
\* neither a refund nor an answer.
LRRefundOrDone ==
  IF "committed" \in work[LR].seen THEN Goto(LR, "insertRefund") ELSE Done(LR)

LRCancel ==
  /\ At(LR, "cancel")
  /\ SetState(work[LR].trx, "transactionCancelled")
  /\ IF "live" \in work[LR].seen THEN Goto(LR, "expireQuote")
                                 ELSE LRRefundOrDone
  /\ UNCHANGED <<environment, links, quotes, transfers, outputs>>

LRExpireQuote ==
  /\ At(LR, "expireQuote")
  /\ quotes' = [quotes EXCEPT ![work[LR].trx] = "expired"]
  /\ LRRefundOrDone
  /\ UNCHANGED <<environment, transactions, links, transfers, outputs>>

\* Mutant: the parties are not swapped.
LRInsertRefund_SameParties ==
  /\ At(LR, "insertRefund")
  /\ LET original == work[LR].trx IN
     \E t \in NextTrx :
       /\ transactions' =
            [transactions EXCEPT ![t] =
               [transactions[original] EXCEPT
                  !.state = "transactionReceived", !.original = original]]
       /\ Begin(LR, "relateRefund", t, 0, {})
  /\ UNCHANGED <<environment, links, quotes, transfers, outputs>>

\* The parties are swapped: the payer of a refund is the terminal, and no
\* MSISDN.  It keeps the expiration of the transaction it refunds.
LRInsertRefund ==
  /\ At(LR, "insertRefund")
  /\ LET original == work[LR].trx IN
     \E t \in NextTrx :
       /\ transactions' =
            [transactions EXCEPT ![t] =
               [NoTransaction EXCEPT
                  !.state = "transactionReceived",
                  !.lpsKey = transactions[original].lpsKey,
                  !.fspId = TRUE, !.transactionId = TRUE,
                  !.expired = transactions[original].expired,
                  !.original = original]]
       /\ Begin(LR, "relateRefund", t, 0, {})
  /\ UNCHANGED <<environment, links, quotes, transfers, outputs>>

LRRelateRefund ==
  /\ At(LR, "relateRefund")
  /\ Relate(work[LR].trx, JobMessage(LR))
  /\ Goto(LR, "insertQuote")
  /\ UNCHANGED <<environment, transactions, quotes, transfers, outputs>>

\* The quote has no expiration yet, which isExpired takes for a past one.
LRInsertQuote ==
  /\ At(LR, "insertQuote")
  /\ quotes' = [quotes EXCEPT ![work[LR].trx] = "expired"]
  /\ Goto(LR, "postQuotes")
  /\ UNCHANGED <<environment, transactions, links, transfers, outputs>>

LRPostQuotes ==
  /\ Call(LR, "postQuotes")
  /\ Done(LR)
  /\ UNCHANGED <<environment, transactions, links, quotes, transfers,
                 responses>>

\* The catch also covers what fails once the refund has been created.
LRThrow == Throw(LR, {}, {<<JobMessage(LR), "invalid">>})

LegacyReversalHandler ==
  LRCheckReplay \/ LRFind \/ LRRelate \/ LRCancel \/ LRExpireQuote
    \/ LRInsertRefund \/ LRRelateRefund \/ LRInsertQuote \/ LRPostQuotes
    \/ LRThrow

-----------------------------------------------------------------------------
(* quoteResponseHandler *)

\* The quote takes the expiration of the answer; neither the transaction nor
\* an earlier answer is looked at.
QXUpdateQuote ==
  /\ At(QX, "start")
  /\ LET t == work[QX].job[2] IN
     \/ /\ quotes[t] # "none"
        /\ quotes' = [quotes EXCEPT ![t] = "live"]
        /\ Begin(QX, "insertTransfer", t, 0, {})
     \/ quotes[t] = "none" /\ Done(QX) /\ UNCHANGED quotes
  /\ UNCHANGED <<environment, transactions, links, transfers, outputs>>

\* A fresh id: the first ordinal no transfer of the transaction has.
QXInsertTransfer ==
  /\ At(QX, "insertTransfer")
  /\ LET t == work[QX].trx IN
     \E n \in 1..MaxDeliver :
       /\ transfers[<<t, n>>] = "none"
       /\ \A k \in 1..(n - 1) : transfers[<<t, k>>] # "none"
       /\ transfers' = [transfers EXCEPT ![<<t, n>>] = "RESERVED"]
       /\ Begin(QX, "postTransfers", t, n, {})
  /\ UNCHANGED <<environment, transactions, links, quotes, outputs>>

QXPostTransfers ==
  /\ Call(QX, "postTransfers")
  /\ Done(QX)
  /\ UNCHANGED <<environment, transactions, links, quotes, transfers,
                 responses>>

QXThrow == Throw(QX, {}, {})

QuoteResponseHandler ==
  QXUpdateQuote \/ QXInsertTransfer \/ QXPostTransfers \/ QXThrow
=============================================================================
