--------------------------- MODULE HandlerProofs ---------------------------
(***************************************************************************)
(* The steps of the handlers of AuthorizationFlow, FinancialFlow and       *)
(* ReversalFlow keep the invariant of Orchestrator.                        *)
(***************************************************************************)
EXTENDS OrchestratorFrame

-----------------------------------------------------------------------------
(* legacyAuthorizationRequestHandler *)

\* Cancelling what is incomplete makes nothing authSent.
LEMMA LACancelIncompleteStep ==
  ASSUME IInv, LACancelIncomplete
  PROVE  IInv'
<1> DEFINE stale == Incomplete(lpsMessages[JobMessage(LA)].lpsKey)
<1>1. /\ UNCHANGED <<lpsMessages, queue, delivered, budget, links, quotes,
                     transfers, sent, responses>>
      /\ work[LA].pc = "start" /\ Goto(LA, "insertTransaction")
      /\ LA \in WorkerQueue
  BY QueueNames DEF LACancelIncomplete, environment, outputs, At
<1>2. \A t \in TrxId :
        transactions'[t] =
          IF t \in stale
            THEN [transactions[t] EXCEPT !.state = "transactionCancelled"]
            ELSE transactions[t]
  BY DEF LACancelIncomplete
<1>3. \A t \in TrxId : transactions[t] \in Transaction /\ (t \in stale => Exists(t))
  BY DEF IInv, TypeOK, Incomplete, Exists
<1>4. transactions' \in [TrxId -> Transaction]
  BY <1>3 DEF LACancelIncomplete, Transaction, TransactionState
<1>5. ASSUME NEW t \in TrxId
      PROVE  /\ transactions'[t].lpsKey = transactions[t].lpsKey
             /\ transactions'[t].payer = transactions[t].payer
             /\ transactions'[t].fspId = transactions[t].fspId
             /\ transactions'[t].original = transactions[t].original
             /\ t \in stale => transactions'[t].state = "transactionCancelled"
             /\ t \notin stale => transactions'[t] = transactions[t]
             /\ t \in stale => Exists(t)
  <2>1. CASE t \in stale
    BY <1>2, <1>3, <2>1 DEF Transaction
  <2>2. CASE t \notin stale
    BY <1>2, <2>2
  <2> QED
    BY <2>1, <2>2, <1>3
<1> HIDE DEF stale
<1>6. /\ RowsStay /\ NoneBecomesAuthSent
      /\ \A t \in TrxId : IsRefund(t)' => IsRefund(t)
  BY <1>5 DEF RowsStay, NoneBecomesAuthSent, Exists, IsRefund
<1>7. TransactionsOK'
  BY <1>5 DEF IInv, TransactionsOK, Exists, Withdrawal, Refund, IsRefund
<1>8. \A t \in TrxId : IsRefund(t)' => Refund(t)
  BY <1>6 DEF IInv, TransactionsOK, Exists, Refund, IsRefund, NoTransaction
<1>9. Grows
  BY <1>1, <1>6 DEF Grows, MessagesStay, TransfersStay, DeliveredStay, HasDelivered
<1>10. /\ work' \in [WorkerQueue -> Worker] /\ Only(LA)
       /\ work'[LA].pc = "insertTransaction" /\ WorkerOK(LA)'
  <2>1. "insertTransaction" \in StepsOf(LA) /\ "insertTransaction" \in Searching
    BY Steps DEF Searching
  <2> QED
    BY <1>1, <1>9, <2>1, GotoKept
<1>11. Knows(LA)'
  BY <1>10, KnowsOwn DEF KnowsLA
<1>12. TypeOK'
  BY <1>1, <1>4, <1>10 DEF IInv, TypeOK
<1>13. LA # TR
  BY DEF LA, TR
<1> QED
  BY <1>1, <1>6, <1>7, <1>8, <1>9, <1>10, <1>11, <1>12, <1>13, StepKept

\* The new withdrawal has its message's terminal and its payer's MSISDN.
LEMMA LAInsertTransactionStep ==
  ASSUME IInv, LAInsertTransaction
  PROVE  IInv'
<1> DEFINE m == JobMessage(LA)
           row == [NoTransaction EXCEPT
                     !.state = "transactionReceived",
                     !.lpsKey = lpsMessages[m].lpsKey,
                     !.payer = lpsMessages[m].payer]
<1>1. PICK t \in NextTrx :
        /\ transactions' = [transactions EXCEPT ![t] = row]
        /\ Begin(LA, "relate", t, 0, {})
  BY DEF LAInsertTransaction
<1>2. /\ UNCHANGED <<lpsMessages, queue, delivered, budget, links, quotes,
                     transfers, sent, responses>>
      /\ work[LA].pc = "insertTransaction"
      /\ LA \in WorkerQueue /\ LA \in LegacyQueue /\ LA # TR
  BY QueueNames DEF LAInsertTransaction, environment, outputs, At
<1>3. /\ m \in MsgId /\ lpsMessages[m].lpsKey \in Device
      /\ lpsMessages[m].payer \in Payer
  BY <1>2, MessageOf DEF IInv, MessagesOK
<1>4. /\ row \in Transaction /\ row.state = "transactionReceived"
      /\ row.lpsKey = lpsMessages[m].lpsKey /\ row.payer \in Payer
      /\ row.original = 0
  BY <1>3 DEF Transaction, TransactionState, NoTransaction
<1> HIDE DEF row
<1>5. /\ t \in TrxId /\ ~Exists(t)
      /\ transactions' \in [TrxId -> Transaction]
      /\ RowsStay
      /\ \A u \in TrxId : u # t => transactions'[u] = transactions[u]
      /\ transactions'[t] = row
      /\ NoneBecomesAuthSent
  BY <1>1, <1>4, InsertStep DEF IInv
<1>6. TransactionsOK'
  BY <1>4, <1>5 DEF IInv, TransactionsOK, Exists, Withdrawal, Refund, IsRefund
<1>7. \A u \in TrxId : IsRefund(u)' => Refund(u)
  BY <1>4, <1>5 DEF IInv, TransactionsOK, Exists, Refund, IsRefund, NoTransaction
<1>8. Grows
  BY <1>2, <1>5 DEF Grows, MessagesStay, TransfersStay, DeliveredStay, HasDelivered
<1>9. Withdrawal(t)'
  BY <1>4, <1>5 DEF Withdrawal, Exists, IsRefund
<1>10. /\ work' \in [WorkerQueue -> Worker] /\ Only(LA)
       /\ work'[LA].pc = "relate" /\ work'[LA].trx = t
       /\ work'[LA].job = work[LA].job /\ WorkerOK(LA)'
  <2>1. "relate" \in StepsOf(LA) /\ 0 \in 0..MaxDeliver /\ {} \in SUBSET Seen
        /\ LA # QX
    BY Steps, BoundsAssumption DEF LA, QX
  <2>2. /\ Begin(LA, "relate", t, 0, {}) /\ work[LA].pc # "idle"
        /\ LA \in WorkerQueue /\ t \in TrxId
    BY <1>1, <1>2, <1>5
  <2> QED
    BY <1>8, <1>9, <2>1, <2>2, BeginKept
<1>11. Knows(LA)'
  <2>1. OwnMessage(LA)'
    <3>1. JobMessage(LA)' = m
      BY <1>10 DEF JobMessage
    <3>2. transactions'[work'[LA].trx].lpsKey = lpsMessages[m].lpsKey
      BY <1>4, <1>5, <1>10
    <3> QED
      BY <1>2, <3>1, <3>2 DEF OwnMessage
  <2> QED
    BY <2>1, KnowsOwn DEF KnowsLA
<1>12. TypeOK'
  BY <1>2, <1>5, <1>10 DEF IInv, TypeOK
<1> QED
  BY <1>2, <1>5, <1>6, <1>7, <1>8, <1>10, <1>11, <1>12, StepKept

\* The new transaction and its message are of one terminal.
LEMMA LARelateStep ==
  ASSUME IInv, LARelate
  PROVE  IInv'
<1> DEFINE m == JobMessage(LA)
           t == work[LA].trx
<1>1. /\ UNCHANGED <<lpsMessages, queue, delivered, budget, transactions, quotes,
                     transfers, sent, responses>>
      /\ work[LA].pc = "relate" /\ Goto(LA, "getParties")
      /\ links' = links \cup {<<t, m>>}
      /\ LA \in WorkerQueue /\ LA \in LegacyQueue /\ LA # TR
  BY QueueNames DEF LARelate, Relate, environment, outputs, At
<1>2. m \in MsgId /\ Stored(m)
  BY <1>1, MessageOf
<1>3. t \in TrxId /\ Withdrawal(t)
  BY <1>1, TrxOf DEF Searching
<1>4. transactions[t].lpsKey = lpsMessages[m].lpsKey
  BY <1>1 DEF IInv, Knowledge, KnowsLA, OwnMessage
<1>5. Grows /\ NoneBecomesAuthSent
  BY <1>1, OnlyAdds
<1>6. LinksOK'
  BY <1>1, <1>2, <1>3, <1>4, <1>5, LinksKept DEF Withdrawal
<1>7. /\ work' \in [WorkerQueue -> Worker] /\ Only(LA)
      /\ work'[LA].pc = "getParties" /\ work'[LA].trx = t
      /\ work'[LA].job = work[LA].job /\ WorkerOK(LA)'
  <2>1. "getParties" \in StepsOf(LA) /\ "relate" \notin Searching
    BY Steps DEF Searching
  <2> QED
    BY <1>1, <1>5, <2>1, GotoKept
<1>8. Knows(LA)'
  BY <1>1, <1>4, <1>7, KnowsOwn DEF KnowsLA, OwnMessage, JobMessage
<1>9. TypeOK'
  BY <1>1, <1>2, <1>3, <1>7 DEF IInv, TypeOK
<1> QED
  BY <1>1, <1>5, <1>6, <1>7, <1>8, <1>9, StepKept

\* The payer that is looked up is that of a withdrawal.
LEMMA LAGetPartiesStep ==
  ASSUME IInv, LAGetParties
  PROVE  IInv'
<1>1. LA \in WorkerQueue /\ "getParties" \in CallStep
  BY QueueNames DEF CallStep, TransactionCall
<1> QED
  BY <1>1, CallDoneKept DEF LAGetParties

\* The catch declares the request invalid, which no one has to earn.
LEMMA LAThrowStep ==
  ASSUME IInv, LAThrow
  PROVE  IInv'
<1>1. Throw(LA, {}, {<<JobMessage(LA), "invalid">>})
      /\ work[LA].pc # "idle" /\ LA \in LegacyQueue /\ LA \in WorkerQueue
  BY QueueNames DEF LAThrow, Throw, At
<1>2. JobMessage(LA) \in MsgId /\ Stored(JobMessage(LA))
  BY <1>1, MessageOf
<1> QED
  BY <1>1, <1>2, ThrowKept DEF Response

\* Every step of legacyAuthorizationRequestHandler.
LEMMA LegacyAuthorizationRequestHandlerStep ==
  ASSUME IInv, LegacyAuthorizationRequestHandler
  PROVE  IInv'
BY LACancelIncompleteStep, LAInsertTransactionStep, LARelateStep,
   LAGetPartiesStep, LAThrowStep DEF LegacyAuthorizationRequestHandler

-----------------------------------------------------------------------------
(* partiesResponseHandler *)

\* Only a withdrawal has the MSISDN of a payer: the one found is one.
LEMMA PRFindStep ==
  ASSUME IInv, PRFind
  PROVE  IInv'
<1> DEFINE p == transactions[work[PR].job[2]].payer
           waiting == {t \in TrxId :
                         /\ transactions[t].state = "transactionReceived"
                         /\ transactions[t].payer = p}
<1>1. /\ UNCHANGED <<environment, transactions, links, quotes, transfers, outputs>>
      /\ work[PR].pc = "start"
      /\ PR \in WorkerQueue /\ PR # TR
      /\ Done(PR) \/ \E t \in Latest(waiting) : Begin(PR, "updateParty", t, 0, {})
  BY QueueNames DEF PRFind, At
<1>2. p \in Payer
  BY <1>1, HubTrxOf DEF IInv, TransactionsOK, PR, QX
<1>3. Grows
  <2>1. /\ UNCHANGED <<lpsMessages, transactions, transfers, delivered>>
        /\ UNCHANGED <<links, sent, responses>>
    BY <1>1 DEF environment, outputs
  <2> QED
    BY <2>1, OnlyAdds
<1>4. CASE Done(PR)
  BY <1>1, <1>4, DoneKept, MoveKept
<1>5. ASSUME NEW t \in Latest(waiting), Begin(PR, "updateParty", t, 0, {})
      PROVE  IInv'
  <2>1. /\ t \in TrxId /\ Exists(t) /\ transactions[t].payer = p
    BY DEF Latest, Exists
  <2>2. Withdrawal(t)
    BY <1>2, <2>1, NoneAssumption
    DEF IInv, TransactionsOK, Withdrawal, Refund, IsRefund
  <2>3. Withdrawal(t)'
    BY <1>3, <2>1, <2>2, KindsStay
  <2>4. /\ work' \in [WorkerQueue -> Worker] /\ Only(PR)
        /\ work'[PR].pc = "updateParty" /\ WorkerOK(PR)'
    <3>1. "updateParty" \in StepsOf(PR) /\ 0 \in 0..MaxDeliver
          /\ {} \in SUBSET Seen /\ PR # QX
      BY Steps, BoundsAssumption DEF PR, QX
    <3>2. PR \in WorkerQueue /\ work[PR].pc # "idle"
      BY <1>1
    <3> QED
      BY <1>3, <1>5, <2>1, <2>3, <3>1, <3>2, BeginKept
  <2>5. Knows(PR)'
    BY <2>4, KnowsOwn DEF KnowsPR
  <2> QED
    BY <1>1, <2>4, <2>5, MoveKept
<1> QED
  BY <1>1, <1>4, <1>5

\* The FSP is set and stays set.
LEMMA PRUpdatePartyStep ==
  ASSUME IInv, PRUpdateParty
  PROVE  IInv'
<1> DEFINE t == work[PR].trx
           row == [transactions[t] EXCEPT !.fspId = TRUE]
<1>1. /\ UNCHANGED <<environment, links, quotes, transfers, outputs>>
      /\ UNCHANGED <<lpsMessages, queue, delivered, budget, links, quotes,
                     transfers, sent, responses>>
      /\ work[PR].pc = "updateParty" /\ Goto(PR, "postTransactionRequests")
      /\ transactions' = [transactions EXCEPT ![t].fspId = TRUE]
      /\ PR \in WorkerQueue /\ PR # TR
  BY QueueNames DEF PRUpdateParty, environment, outputs, At
<1>2. t \in TrxId /\ Withdrawal(t) /\ transactions[t] \in Transaction
  BY <1>1, TrxOf DEF Searching, IInv, TypeOK
<1>3. /\ row \in Transaction /\ row.fspId
      /\ row.state = transactions[t].state
      /\ row.lpsKey = transactions[t].lpsKey
      /\ row.payer = transactions[t].payer
      /\ row.original = transactions[t].original
  BY <1>2 DEF Transaction
<1>4. transactions' = [transactions EXCEPT ![t] = row]
  BY <1>1
<1> HIDE DEF row, t
<1>5. /\ Grows /\ NoneBecomesAuthSent
      /\ transactions' \in [TrxId -> Transaction]
      /\ transactions'[t] = row
      /\ TransactionsOK'
      /\ \A u \in TrxId : IsRefund(u)' => Refund(u)
  BY <1>1, <1>2, <1>3, <1>4, RowKept
<1>6. /\ work' \in [WorkerQueue -> Worker] /\ Only(PR)
      /\ work'[PR].pc = "postTransactionRequests" /\ work'[PR].trx = work[PR].trx
      /\ WorkerOK(PR)'
  <2>1. "postTransactionRequests" \in StepsOf(PR) /\ "updateParty" \notin Searching
    BY Steps DEF Searching
  <2> QED
    BY <1>1, <1>5, <2>1, GotoKept
<1>7. Knows(PR)'
  BY <1>3, <1>5, <1>6, KnowsOwn DEF KnowsPR, t
<1>8. TypeOK'
  BY <1>1, <1>5, <1>6 DEF IInv, TypeOK
<1> QED
  BY <1>1, <1>5, <1>6, <1>7, <1>8, StepKept

\* The transaction request goes out for a withdrawal with an FSP.
LEMMA PRPostTransactionRequestsStep ==
  ASSUME IInv, PRPostTransactionRequests
  PROVE  IInv'
<1>1. PR \in WorkerQueue /\ "postTransactionRequests" \in CallStep
  BY QueueNames DEF CallStep, TransactionCall
<1> QED
  BY <1>1, CallDoneKept DEF PRPostTransactionRequests

\* The catch only logs.
LEMMA PRThrowStep ==
  ASSUME IInv, PRThrow
  PROVE  IInv'
BY QueueNames, QuietThrowKept DEF PRThrow

\* Every step of partiesResponseHandler.
LEMMA PartiesResponseHandlerStep ==
  ASSUME IInv, PartiesResponseHandler
  PROVE  IInv'
BY PRFindStep, PRUpdatePartyStep, PRPostTransactionRequestsStep, PRThrowStep
DEF PartiesResponseHandler

-----------------------------------------------------------------------------
(* transactionRequestResponseHandler *)

\* The transaction the hub answers about is a withdrawal.
LEMMA TRRReadStep ==
  ASSUME IInv, TRRRead
  PROVE  IInv'
<1> DEFINE t == work[TRR].job[2]
           seen == IF transactions[t].state = "transactionCancelled"
                     THEN {"cancelled"} ELSE {}
<1>1. /\ UNCHANGED <<environment, transactions, links, quotes, transfers, outputs>>
      /\ work[TRR].pc = "start"
      /\ TRR \in WorkerQueue /\ TRR # TR /\ TRR # QX
      /\ Begin(TRR, "respond", t, 0, seen) \/ Begin(TRR, "reject", t, 0, {})
  BY QueueNames DEF TRRRead, At, TRR, QX
<1>2. PICK next \in {"respond", "reject"}, s \in SUBSET Seen :
        Begin(TRR, next, t, 0, s)
  <2>1. seen \in SUBSET Seen /\ {} \in SUBSET Seen
    BY DEF Seen
  <2> QED
    BY <1>1, <2>1
<1> HIDE DEF seen
<1>3. t \in TrxId /\ Withdrawal(t)
  BY <1>1, HubTrxOf
<1>4. Grows
  <2>1. /\ UNCHANGED <<lpsMessages, transactions, transfers, delivered>>
        /\ UNCHANGED <<links, sent, responses>>
    BY <1>1 DEF environment, outputs
  <2> QED
    BY <2>1, OnlyAdds
<1>5. \A u \in TrxId : u = t => Withdrawal(u)'
  BY <1>3, <1>4, KindsStay
<1>6. /\ work' \in [WorkerQueue -> Worker] /\ Only(TRR) /\ WorkerOK(TRR)'
  <2>1. next \in StepsOf(TRR) /\ 0 \in 0..MaxDeliver
    BY Steps, BoundsAssumption
  <2>2. \A u \in TrxId : u = t => Begin(TRR, next, u, 0, s)
    BY <1>2
  <2>3. TRR \in WorkerQueue /\ work[TRR].pc # "idle" /\ TRR # QX
    BY <1>1
  <2> HIDE DEF t
  <2> QED
    BY <1>3, <1>4, <1>5, <2>1, <2>2, <2>3, BeginKept
<1> QED
  BY <1>1, <1>6, KnowsOwn, MoveKept

\* Whatever state is written back, it is not authSent.
LEMMA TRRRespondStep ==
  ASSUME IInv, TRRRespond
  PROVE  IInv'
<1> DEFINE t == work[TRR].trx
           state == IF "cancelled" \in work[TRR].seen
                      THEN "transactionCancelled" ELSE "transactionResponded"
           row == [transactions[t] EXCEPT !.transactionId = TRUE, !.state = state]
<1>1. /\ UNCHANGED <<environment, links, quotes, transfers, outputs>>
      /\ UNCHANGED <<lpsMessages, queue, delivered, budget, links, quotes,
                     transfers, sent, responses>>
      /\ work[TRR].pc = "respond" /\ Done(TRR)
      /\ TRR \in WorkerQueue /\ TRR # TR
  BY QueueNames DEF TRRRespond, environment, outputs, At
<1>2. t \in TrxId /\ Withdrawal(t) /\ transactions[t] \in Transaction
  BY <1>1, TrxOf DEF Searching, IInv, TypeOK
<1>3. /\ row \in Transaction
      /\ row.state \in {"transactionCancelled", "transactionResponded"}
      /\ row.lpsKey = transactions[t].lpsKey
      /\ row.payer = transactions[t].payer
      /\ row.original = transactions[t].original
      /\ transactions[t].fspId => row.fspId
  BY <1>2 DEF Transaction, TransactionState
<1>4. transactions' = [transactions EXCEPT ![t] = row]
  BY <1>2 DEF TRRRespond, Transaction, IInv, TypeOK
<1> HIDE DEF row, t
<1>5. /\ Grows /\ NoneBecomesAuthSent
      /\ transactions' \in [TrxId -> Transaction]
      /\ TransactionsOK'
      /\ \A u \in TrxId : IsRefund(u)' => Refund(u)
  BY <1>1, <1>2, <1>3, <1>4, RowKept
<1>6. /\ work' \in [WorkerQueue -> Worker] /\ Only(TRR)
      /\ WorkerOK(TRR)' /\ Knows(TRR)'
  BY <1>1, DoneKept
<1>7. TypeOK'
  BY <1>1, <1>5, <1>6 DEF IInv, TypeOK
<1> QED
  BY <1>1, <1>5, <1>6, <1>7, StepKept

\* A rejected transaction is cancelled.
LEMMA TRRRejectStep ==
  ASSUME IInv, TRRReject
  PROVE  IInv'
<1>1. /\ UNCHANGED <<environment, links, quotes, transfers, outputs>>
      /\ work[TRR].pc = "reject" /\ Done(TRR)
      /\ SetState(work[TRR].trx, "transactionCancelled")
      /\ TRR \in WorkerQueue
      /\ "transactionCancelled" \in TransactionState
  BY QueueNames DEF TRRReject, At, TransactionState
<1>2. work[TRR].trx \in TrxId /\ Exists(work[TRR].trx)
  BY <1>1, TrxOf DEF Searching, Withdrawal
<1> QED
  BY <1>1, <1>2, StateDoneKept

\* The catch reports an error to the hub.
LEMMA TRRThrowStep ==
  ASSUME IInv, TRRThrow
  PROVE  IInv'
<1> DEFINE c == <<"putTransactionRequestsError", work[TRR].job[2]>>
<1>1. Throw(TRR, {c}, {}) /\ TRR \in WorkerQueue /\ work[TRR].pc # "idle"
  BY QueueNames DEF TRRThrow, Throw, At
<1>2. work[TRR].job[2] \in TrxId
  BY <1>1, HubTrxOf
<1>3. {c} \in SUBSET HubCall /\ {} \in SUBSET Response
      /\ c[1] \notin WithdrawalCall
                       \cup {"postQuotes", "putTransfers", "postTransfers"}
  BY <1>2 DEF HubCall, TransactionCall, WithdrawalCall
<1> HIDE DEF c
<1> QED
  BY <1>1, <1>3, ThrowKept

\* Every step of transactionRequestResponseHandler.
LEMMA TransactionRequestResponseHandlerStep ==
  ASSUME IInv, TransactionRequestResponseHandler
  PROVE  IInv'
BY TRRReadStep, TRRRespondStep, TRRRejectStep, TRRThrowStep
DEF TransactionRequestResponseHandler

-----------------------------------------------------------------------------
(* quotesRequestHandler *)

\* The quote is asked for a withdrawal whose FSP is known.
LEMMA QRValidateStep ==
  ASSUME IInv, QRValidate
  PROVE  IInv'
<1> DEFINE t == work[QR].job[2]
<1>1. /\ UNCHANGED <<environment, transactions, links, quotes, transfers, outputs>>
      /\ work[QR].pc = "start"
      /\ QR \in WorkerQueue /\ QR # TR /\ QR # QX
      /\ Begin(QR, "insertQuote", t, 0, {}) \/ Begin(QR, "putQuotesError", t, 0, {})
  BY QueueNames DEF QRValidate, At, QR, QX
<1>2. PICK next \in {"insertQuote", "putQuotesError"}, n \in {0}, s \in {{}} :
        Begin(QR, next, t, n, s)
  BY <1>1
<1>3. t \in TrxId /\ Withdrawal(t) /\ transactions[t].fspId
  BY <1>1, HubTrxOf
<1> HIDE DEF t
<1>4. UNCHANGED transactions /\ Grows
  <2>1. /\ UNCHANGED <<lpsMessages, transactions, transfers, delivered>>
        /\ UNCHANGED <<links, sent, responses>>
    BY <1>1 DEF environment, outputs
  <2> QED
    BY <2>1, OnlyAdds
<1>5. \A u \in TrxId : u = t => Withdrawal(u)' /\ transactions'[u].fspId
  BY <1>3, <1>4, KindsStay
<1>6. /\ work' \in [WorkerQueue -> Worker] /\ Only(QR) /\ WorkerOK(QR)'
      /\ work'[QR].trx = t
  <2>1. next \in StepsOf(QR) /\ n \in 0..MaxDeliver /\ s \in SUBSET Seen
    BY Steps, BoundsAssumption
  <2>2. \A u \in TrxId : u = t => Begin(QR, next, u, n, s)
    BY <1>2
  <2>3. QR \in WorkerQueue /\ work[QR].pc # "idle" /\ QR # QX
    BY <1>1
  <2> QED
    BY <1>3, <1>4, <1>5, <2>1, <2>2, <2>3, BeginKept
<1>7. Knows(QR)'
  BY <1>3, <1>5, <1>6, KnowsOwn DEF KnowsQR
<1> QED
  BY <1>1, <1>6, <1>7, MoveKept

\* A new quote, or an error for a second one.
LEMMA QRInsertQuoteStep ==
  ASSUME IInv, QRInsertQuote
  PROVE  IInv'
<1> DEFINE t == work[QR].trx
<1>1. /\ UNCHANGED <<environment, transactions, links, transfers, responses>>
      /\ work[QR].pc = "insertQuote"
      /\ QR \in WorkerQueue /\ QR # TR
  BY QueueNames DEF QRInsertQuote, At
<1>2. t \in TrxId
  BY <1>1, TrxOf DEF Searching
<1>3. CASE /\ quotes' = [quotes EXCEPT ![t] = "live"]
           /\ Goto(QR, "putQuotes") /\ UNCHANGED sent
  <2>1. /\ UNCHANGED <<lpsMessages, transactions, transfers, delivered>>
        /\ UNCHANGED <<links, sent, responses>>
    BY <1>1, <1>3 DEF environment
  <2>2. Grows
    BY <2>1, OnlyAdds
  <2>3. "putQuotes" \in StepsOf(QR) /\ "insertQuote" \notin Searching
    BY Steps DEF Searching
  <2>4. /\ work' \in [WorkerQueue -> Worker] /\ Only(QR) /\ WorkerOK(QR)'
        /\ work'[QR].trx = t
    BY <1>1, <1>3, <2>2, <2>3, GotoKept
  <2>5. Knows(QR)'
    BY <1>1, <2>1, <2>4, KnowsOwn DEF KnowsQR, IInv, Knowledge
  <2>6. quotes' \in [TrxId -> QuoteState] /\ responses' \in SUBSET Response
    BY <1>3, <2>1 DEF IInv, TypeOK, QuoteState
  <2> QED
    BY <1>1, <1>3, <2>1, <2>4, <2>5, <2>6, AnswerKept
<1>4. CASE /\ sent' = sent \cup {<<"putQuotesError", t>>}
           /\ Done(QR) /\ UNCHANGED quotes
  <2> DEFINE c == <<"putQuotesError", t>>
  <2>1. c \in HubCall /\ c[1] \notin WithdrawalCall
                          \cup {"postQuotes", "putTransfers", "postTransfers"}
    BY <1>2 DEF HubCall, TransactionCall, WithdrawalCall
  <2>2. UNCHANGED <<environment, transactions, links, quotes, transfers, responses>>
    BY <1>1, <1>4
  <2>3. sent' = sent \cup {c} /\ Done(QR) /\ QR \in WorkerQueue
    BY <1>1, <1>4
  <2> HIDE DEF c
  <2> QED
    BY <2>1, <2>2, <2>3, RefuseKept
<1> QED
  BY <1>3, <1>4 DEF QRInsertQuote

\* The quote goes out for a withdrawal whose FSP is known.
LEMMA QRPutQuotesStep ==
  ASSUME IInv, QRPutQuotes
  PROVE  IInv'
<1>1. /\ QR \in WorkerQueue /\ "putQuotes" \in CallStep
      /\ "updateState" \in StepsOf(QR) /\ "updateState" \in Pc
  BY QueueNames, Steps DEF CallStep, TransactionCall, Pc, DatabaseStep
<1>2. Goto(QR, "updateState")
  BY DEF QRPutQuotes
<1>3. work'[QR].pc = "updateState"
  BY <1>1, <1>2, GotoWork DEF IInv
<1>4. Knows(QR)'
  BY <1>3, KnowsOwn DEF KnowsQR
<1> QED
  BY <1>1, <1>4, CallGotoKept DEF QRPutQuotes

\* The late write makes nothing authSent.
LEMMA QRUpdateStateStep ==
  ASSUME IInv, QRUpdateState
  PROVE  IInv'
<1>1. /\ UNCHANGED <<environment, links, quotes, transfers, outputs>>
      /\ work[QR].pc = "updateState" /\ Done(QR)
      /\ SetState(work[QR].trx, "quoteResponded")
      /\ QR \in WorkerQueue
      /\ "quoteResponded" \in TransactionState
  BY QueueNames DEF QRUpdateState, At, TransactionState
<1>2. work[QR].trx \in TrxId /\ Withdrawal(work[QR].trx) /\ Exists(work[QR].trx)
  BY <1>1, TrxOf DEF Searching, Withdrawal
<1> QED
  BY <1>1, <1>2, StateDoneKept

\* An error reported to the hub.
LEMMA QRPutQuotesErrorStep ==
  ASSUME IInv, QRPutQuotesError
  PROVE  IInv'
<1>1. /\ QR \in WorkerQueue /\ "putQuotesError" \in CallStep
      /\ "refuse" \in StepsOf(QR) /\ "refuse" \in Pc
  BY QueueNames, Steps DEF CallStep, TransactionCall, Pc
<1>2. Goto(QR, "refuse")
  BY DEF QRPutQuotesError
<1>3. work'[QR].pc = "refuse"
  BY <1>1, <1>2, GotoWork DEF IInv
<1>4. Knows(QR)'
  BY <1>3, KnowsOwn DEF KnowsQR
<1> QED
  BY <1>1, <1>4, CallGotoKept DEF QRPutQuotesError

\* A refusal is an answer no one has to earn.
LEMMA QRRefuseStep ==
  ASSUME IInv, QRRefuse
  PROVE  IInv'
<1>1. /\ QR \in WorkerQueue /\ Done(QR)
      /\ UNCHANGED <<environment, transactions, links, quotes, transfers, sent>>
  BY QueueNames DEF QRRefuse
<1>2. \/ UNCHANGED responses
      \/ \E m \in Linked(work[QR].trx, "authorizationRequest") : Respond(m, "invalid")
  BY DEF QRRefuse
<1>3. UNCHANGED responses \/ \E m \in MsgId : Stored(m) /\ Respond(m, "invalid")
  BY <1>2, LinkedType
<1> QED
  BY <1>1, <1>3, InvalidKept

\* The catch reports an error to the hub.
LEMMA QRThrowStep ==
  ASSUME IInv, QRThrow
  PROVE  IInv'
<1> DEFINE c == <<"putQuotesError", work[QR].job[2]>>
<1>1. Throw(QR, {c}, {}) /\ QR \in WorkerQueue /\ work[QR].pc # "idle"
  BY QueueNames DEF QRThrow, Throw, At
<1>2. work[QR].job[2] \in TrxId
  BY <1>1, HubTrxOf
<1>3. {c} \in SUBSET HubCall /\ {} \in SUBSET Response
      /\ c[1] \notin WithdrawalCall
                       \cup {"postQuotes", "putTransfers", "postTransfers"}
  BY <1>2 DEF HubCall, TransactionCall, WithdrawalCall
<1> HIDE DEF c
<1> QED
  BY <1>1, <1>3, ThrowKept

\* Every step of quotesRequestHandler.
LEMMA QuotesRequestHandlerStep ==
  ASSUME IInv, QuotesRequestHandler
  PROVE  IInv'
BY QRValidateStep, QRInsertQuoteStep, QRPutQuotesStep, QRUpdateStateStep,
   QRPutQuotesErrorStep, QRRefuseStep, QRThrowStep DEF QuotesRequestHandler

-----------------------------------------------------------------------------
(* authorizationRequestHandler *)

\* The authorization is asked for a transaction whose quote the hub has.
LEMMA ARValidateStep ==
  ASSUME IInv, ARValidate
  PROVE  IInv'
<1> DEFINE t == work[AR].job[2]
<1>1. /\ UNCHANGED <<environment, transactions, links, quotes, transfers, responses>>
      /\ work[AR].pc = "start"
      /\ AR \in WorkerQueue /\ AR # TR /\ AR # QX
  BY QueueNames DEF ARValidate, At, AR, QX
<1>2. /\ t \in TrxId /\ Withdrawal(t) /\ transactions[t].fspId
      /\ <<"putQuotes", t>> \in sent
  BY <1>1, HubTrxOf DEF AR, QX, TR
<1>3. ASSUME NEW next \in {"approve", "putAuthorizationsError"},
             NEW n \in {0}, NEW s \in {{}}, Begin(AR, next, t, n, s),
             UNCHANGED sent
      PROVE  IInv'
  <2> HIDE DEF t
  <2>1. /\ UNCHANGED <<lpsMessages, transactions, transfers, delivered>>
        /\ UNCHANGED <<links, sent, responses>>
        /\ UNCHANGED outputs
    BY <1>1, <1>3 DEF environment, outputs
  <2>2. Grows
    BY <2>1, OnlyAdds
  <2>3. \A u \in TrxId : u = t =>
          /\ Withdrawal(u)' /\ transactions'[u].fspId
          /\ <<"putQuotes", u>> \in sent'
    BY <1>2, <2>1, <2>2, KindsStay
  <2>4. /\ work' \in [WorkerQueue -> Worker] /\ Only(AR) /\ WorkerOK(AR)'
        /\ work'[AR].trx = t /\ work'[AR].pc = next
    <3>1. next \in StepsOf(AR) /\ n \in 0..MaxDeliver /\ s \in SUBSET Seen
      BY Steps, BoundsAssumption
    <3>2. \A u \in TrxId : u = t => Begin(AR, next, u, n, s)
      BY <1>3
    <3>3. AR \in WorkerQueue /\ work[AR].pc # "idle" /\ AR # QX
      BY <1>1
    <3> QED
      BY <1>2, <2>2, <2>3, <3>1, <3>2, <3>3, BeginKept
  <2>5. Knows(AR)'
    BY <1>2, <2>3, <2>4, KnowsOwn DEF KnowsAR
  <2> QED
    BY <1>1, <2>1, <2>4, <2>5, MoveKept
<1>4. CASE sent' = sent \cup {<<"putAuthorizationsError", t>>} /\ Done(AR)
  <2> DEFINE c == <<"putAuthorizationsError", t>>
  <2>1. c \in HubCall /\ c[1] \notin WithdrawalCall
                          \cup {"postQuotes", "putTransfers", "postTransfers"}
    BY <1>2 DEF HubCall, TransactionCall, WithdrawalCall
  <2>2. sent' = sent \cup {c} /\ Done(AR) /\ AR \in WorkerQueue
    BY <1>1, <1>4
  <2> HIDE DEF c
  <2> QED
    BY <1>1, <2>1, <2>2, RefuseKept
<1> QED
  BY <1>3, <1>4 DEF ARValidate

\* The fees are shown: from here on the transaction may become authSent.
LEMMA ARApproveStep ==
  ASSUME IInv, ARApprove
  PROVE  IInv'
<1> DEFINE t == work[AR].trx
<1>1. /\ UNCHANGED <<environment, transactions, links, quotes, transfers, sent>>
      /\ UNCHANGED <<lpsMessages, transactions, transfers, delivered>>
      /\ work[AR].pc = "approve" /\ Goto(AR, "updateState")
      /\ AR \in WorkerQueue /\ AR # TR
  BY QueueNames DEF ARApprove, At, environment
<1>2. PICK m \in Linked(t, "authorizationRequest") :
        responses' = responses \cup {<<m, "approved">>}
  BY DEF ARApprove, Respond
<1>3. /\ m \in MsgId /\ lpsMessages[m].type = "authorizationRequest" /\ Stored(m)
      /\ t \in TrxId /\ Withdrawal(t)
  BY <1>1, <1>2, LinkedType, TrxOf DEF Searching
<1>4. Grows
  BY <1>1, <1>2, OnlyAdds
<1>5. /\ work' \in [WorkerQueue -> Worker] /\ Only(AR) /\ WorkerOK(AR)'
      /\ work'[AR].trx = t /\ work'[AR].pc = "updateState"
  <2>1. "updateState" \in StepsOf(AR) /\ "approve" \notin Searching
    BY Steps DEF Searching
  <2> QED
    BY <1>1, <1>4, <2>1, GotoKept
<1>6. Knows(AR)'
  <2>1. transactions'[t].fspId /\ <<"putQuotes", t>> \in sent'
    BY <1>1 DEF IInv, Knowledge, KnowsAR
  <2>2. \A u : u = t => Shown(u)'
    BY <1>1, <1>2, <2>1 DEF Shown, Linked
  <2> HIDE DEF t
  <2>3. KnowsAR'
    BY <1>5, <2>1, <2>2 DEF KnowsAR, Shown, Linked
  <2> QED
    BY <2>3, KnowsOwn
<1>7. /\ quotes' \in [TrxId -> QuoteState]
      /\ responses \subseteq responses' /\ responses' \in SUBSET Response
  BY <1>1, <1>2, <1>3 DEF IInv, TypeOK, Response
<1>8. Earned(m)
  BY <1>3 DEF Earned
<1>9. \A k \in MsgId, r \in {"approved", "invalid"} :
        <<k, r>> \in responses' /\ <<k, r>> \notin responses =>
          Stored(k) /\ (r = "approved" => Earned(k))
  <2>1. \A k \in MsgId, r \in {"approved", "invalid"} :
          <<k, r>> \in responses' /\ <<k, r>> \notin responses => k = m
    BY <1>2
  <2> QED
    BY <1>3, <1>8, <2>1
<1> QED
  BY <1>1, <1>5, <1>6, <1>7, <1>9, AnswerKept

\* A transaction becomes authSent after its fees have been shown.
LEMMA ARUpdateStateStep ==
  ASSUME IInv, ARUpdateState
  PROVE  IInv'
<1> DEFINE t == work[AR].trx
<1>1. /\ UNCHANGED <<environment, links, quotes, transfers, outputs>>
      /\ UNCHANGED <<lpsMessages, queue, delivered, budget, links, quotes,
                     transfers, sent, responses>>
      /\ work[AR].pc = "updateState" /\ Done(AR)
      /\ SetState(t, "authSent")
      /\ AR \in WorkerQueue /\ AR # TR
      /\ "authSent" \in TransactionState
  BY QueueNames DEF ARUpdateState, At, TransactionState, environment, outputs
<1>2. t \in TrxId /\ Withdrawal(t) /\ Exists(t) /\ Shown(t)
  BY <1>1, TrxOf DEF Searching, Withdrawal, IInv, Knowledge, KnowsAR
<1>3. /\ Grows
      /\ transactions' \in [TrxId -> Transaction]
      /\ TransactionsOK'
      /\ \A u \in TrxId : IsRefund(u)' => Refund(u)
      /\ \A u \in TrxId :
           transactions'[u].state = "authSent" =>
             transactions[u].state = "authSent" \/ u = t
  BY <1>1, <1>2, StateKept
<1>4. /\ work' \in [WorkerQueue -> Worker] /\ Only(AR)
      /\ work'[AR].pc = "idle" /\ WorkerOK(AR)' /\ Knows(AR)'
  BY <1>1, DoneKept
<1>5. SentOK'
  <2>1. \A u \in TrxId :
          transactions'[u].state = "authSent" =>
            transactions[u].state = "authSent" \/ (Exists(u) /\ Shown(u))
    BY <1>2, <1>3
  <2>2. MayCall(sent' \ sent)
    BY <1>1 DEF MayCall
  <2> QED
    BY <1>3, <2>1, <2>2, SentKept
<1>6. TypeOK'
  BY <1>1, <1>3, <1>4 DEF IInv, TypeOK
<1> QED
  BY <1>1, <1>3, <1>4, <1>5, <1>6, StepKept

\* An error reported to the hub.
LEMMA ARPutAuthorizationsErrorStep ==
  ASSUME IInv, ARPutAuthorizationsError
  PROVE  IInv'
<1>1. /\ AR \in WorkerQueue /\ "putAuthorizationsError" \in CallStep
      /\ "refuse" \in StepsOf(AR) /\ "refuse" \in Pc
  BY QueueNames, Steps DEF CallStep, TransactionCall, Pc
<1>2. Goto(AR, "refuse")
  BY DEF ARPutAuthorizationsError
<1>3. work'[AR].pc = "refuse"
  BY <1>1, <1>2, GotoWork DEF IInv
<1>4. Knows(AR)'
  BY <1>3, KnowsOwn DEF KnowsAR
<1> QED
  BY <1>1, <1>4, CallGotoKept DEF ARPutAuthorizationsError

\* A refusal is an answer no one has to earn.
LEMMA ARRefuseStep ==
  ASSUME IInv, ARRefuse
  PROVE  IInv'
<1>1. /\ AR \in WorkerQueue /\ Done(AR)
      /\ UNCHANGED <<environment, transactions, links, quotes, transfers, sent>>
  BY QueueNames DEF ARRefuse
<1>2. \E m \in MsgId : Stored(m) /\ Respond(m, "invalid")
  BY LinkedType DEF ARRefuse
<1> QED
  BY <1>1, <1>2, InvalidKept

\* The catch reports an error to the hub.
LEMMA ARThrowStep ==
  ASSUME IInv, ARThrow
  PROVE  IInv'
<1> DEFINE c == <<"putAuthorizationsError", work[AR].job[2]>>
<1>1. Throw(AR, {c}, {}) /\ AR \in WorkerQueue /\ work[AR].pc # "idle"
  BY QueueNames DEF ARThrow, Throw, At
<1>2. work[AR].job[2] \in TrxId
  BY <1>1, HubTrxOf
<1>3. {c} \in SUBSET HubCall /\ {} \in SUBSET Response
      /\ c[1] \notin WithdrawalCall
                       \cup {"postQuotes", "putTransfers", "postTransfers"}
  BY <1>2 DEF HubCall, TransactionCall, WithdrawalCall
<1> HIDE DEF c
<1> QED
  BY <1>1, <1>3, ThrowKept

\* Every step of authorizationRequestHandler.
LEMMA AuthorizationRequestHandlerStep ==
  ASSUME IInv, AuthorizationRequestHandler
  PROVE  IInv'
BY ARValidateStep, ARApproveStep, ARUpdateStateStep,
   ARPutAuthorizationsErrorStep, ARRefuseStep, ARThrowStep
DEF AuthorizationRequestHandler

-----------------------------------------------------------------------------
(* legacyFinancialRequestHandler *)

\* The transaction found is authSent and of the request's terminal.
LEMMA LFFindStep ==
  ASSUME IInv, LFFind
  PROVE  IInv'
<1> DEFINE m == JobMessage(LF)
           open == {t \in TrxId :
                      /\ transactions[t].state = "authSent"
                      /\ transactions[t].lpsKey = lpsMessages[m].lpsKey}
<1>1. /\ UNCHANGED <<environment, transactions, links, quotes, transfers, outputs>>
      /\ UNCHANGED <<lpsMessages, transactions, transfers, delivered>>
      /\ UNCHANGED <<links, sent, responses>>
      /\ work[LF].pc = "start"
      /\ LF \in WorkerQueue /\ LF # TR /\ LF # QX
      /\ Done(LF) \/ \E t \in Latest(open) : Begin(LF, "relate", t, 0, {})
  BY QueueNames DEF LFFind, At, LF, QX, environment, outputs
<1>2. Grows
  BY <1>1, OnlyAdds
<1>3. CASE Done(LF)
  BY <1>1, <1>3, DoneKept, MoveKept
<1>4. ASSUME NEW t \in Latest(open), NEW n \in {0}, NEW s \in {{}},
             Begin(LF, "relate", t, n, s)
      PROVE  IInv'
  <2>1. /\ t \in TrxId /\ transactions[t].state = "authSent"
        /\ transactions[t].lpsKey = lpsMessages[m].lpsKey
    <3> HIDE DEF open
    <3>1. t \in open
      BY DEF Latest
    <3> QED BY <3>1 DEF open
  <2>2. Withdrawal(t) /\ Shown(t) /\ Exists(t)
    BY <2>1 DEF IInv, TransactionsOK, SentOK, Withdrawal, Refund, Exists
  <2>3. Withdrawal(t)' /\ Shown(t)'
    BY <1>2, <2>1, <2>2, KindsStay, ShownStays
  <2>4. /\ work' \in [WorkerQueue -> Worker] /\ Only(LF) /\ WorkerOK(LF)'
        /\ work'[LF].trx = t /\ work'[LF].job = work[LF].job
    <3>1. "relate" \in StepsOf(LF) /\ n \in 0..MaxDeliver /\ s \in SUBSET Seen
      BY Steps, BoundsAssumption
    <3>2. LF \in WorkerQueue /\ work[LF].pc # "idle" /\ LF # QX
      BY <1>1
    <3> QED
      BY <1>2, <1>4, <2>1, <2>3, <3>1, <3>2, BeginKept
  <2>5. work'[LF].pc = "relate"
    <3>1. work \in [WorkerQueue -> Worker]
      BY DEF IInv, TypeOK
    <3> QED BY <1>1, <1>4, <3>1 DEF Begin, Worker
  <2>6. OwnMessage(LF)'
    <3>1. JobMessage(LF)' = m
      BY <2>4 DEF JobMessage
    <3> QED
      BY <1>1, <2>1, <2>4, <3>1 DEF OwnMessage
  <2>7. Shown(work[LF].trx)'
    BY <2>3, <2>4 DEF Shown, Linked
  <2>8. Knows(LF)'
    BY <2>5, <2>6, <2>7, KnowsOwn DEF KnowsLF
  <2> QED
    BY <1>1, <2>4, <2>8, MoveKept
<1> QED
  BY <1>1, <1>3, <1>4

\* The request and its transaction are of one terminal.
LEMMA LFRelateStep ==
  ASSUME IInv, LFRelate
  PROVE  IInv'
<1> DEFINE m == JobMessage(LF)
           t == work[LF].trx
<1>1. /\ UNCHANGED <<lpsMessages, queue, delivered, budget, transactions, quotes,
                     transfers, sent, responses>>
      /\ work[LF].pc = "relate" /\ Goto(LF, "putAuthorizations")
      /\ links' = links \cup {<<t, m>>}
      /\ LF \in WorkerQueue /\ LF \in LegacyQueue /\ LF # TR
  BY QueueNames DEF LFRelate, Relate, environment, outputs, At
<1>2. m \in MsgId /\ Stored(m)
  BY <1>1, MessageOf
<1>3. t \in TrxId /\ Withdrawal(t) /\ Exists(t)
  BY <1>1, TrxOf DEF Searching, Withdrawal
<1>4. transactions[t].lpsKey = lpsMessages[m].lpsKey /\ Shown(t)
  BY <1>1 DEF IInv, Knowledge, KnowsLF, OwnMessage
<1>5. Grows /\ NoneBecomesAuthSent
  BY <1>1, OnlyAdds
<1>6. LinksOK'
  BY <1>1, <1>2, <1>3, <1>4, <1>5, LinksKept DEF Withdrawal
<1>7. /\ work' \in [WorkerQueue -> Worker] /\ Only(LF)
      /\ work'[LF].pc = "putAuthorizations" /\ work'[LF].trx = t
      /\ work'[LF].job = work[LF].job /\ WorkerOK(LF)'
  <2>1. "putAuthorizations" \in StepsOf(LF) /\ "relate" \notin Searching
    BY Steps DEF Searching
  <2> QED
    BY <1>1, <1>5, <2>1, GotoKept
<1>8. \A u \in TrxId : u = t => Shown(u)'
  BY <1>3, <1>4, <1>5, ShownStays
<1>9. Knows(LF)'
  <2>1. JobMessage(LF)' = m
    BY <1>7 DEF JobMessage
  <2>2. OwnMessage(LF)'
    BY <1>1, <1>4, <1>7, <2>1 DEF OwnMessage
  <2> HIDE DEF t, m
  <2>3. Shown(work[LF].trx)'
    BY <1>3, <1>7, <1>8 DEF Shown, Linked
  <2>4. <<work'[LF].trx, JobMessage(LF)'>> \in links'
    BY <1>1, <1>7, <2>1
  <2> QED
    BY <2>2, <2>3, <2>4, KnowsOwn DEF KnowsLF
<1>10. TypeOK'
  BY <1>1, <1>2, <1>3, <1>7 DEF IInv, TypeOK
<1> QED
  BY <1>1, <1>5, <1>6, <1>7, <1>9, <1>10, StepKept

\* The password goes out for fees that have been shown on its terminal.
LEMMA LFPutAuthorizationsStep ==
  ASSUME IInv, LFPutAuthorizations
  PROVE  IInv'
<1>1. /\ LF \in WorkerQueue /\ "putAuthorizations" \in CallStep
      /\ "updateState" \in StepsOf(LF) /\ "updateState" \in Pc
  BY QueueNames, Steps DEF CallStep, TransactionCall, Pc, DatabaseStep
<1>2. Goto(LF, "updateState")
  BY DEF LFPutAuthorizations
<1>3. work'[LF].pc = "updateState"
  BY <1>1, <1>2, GotoWork DEF IInv
<1>4. Knows(LF)'
  BY <1>3, KnowsOwn DEF KnowsLF
<1> QED
  BY <1>1, <1>4, CallGotoKept DEF LFPutAuthorizations

\* A transaction leaves authSent.
LEMMA LFUpdateStateStep ==
  ASSUME IInv, LFUpdateState
  PROVE  IInv'
<1>1. /\ UNCHANGED <<environment, links, quotes, transfers, outputs>>
      /\ work[LF].pc = "updateState" /\ Done(LF)
      /\ SetState(work[LF].trx, "financialRequestSent")
      /\ LF \in WorkerQueue
      /\ "financialRequestSent" \in TransactionState
  BY QueueNames DEF LFUpdateState, At, TransactionState
<1>2. work[LF].trx \in TrxId /\ Withdrawal(work[LF].trx) /\ Exists(work[LF].trx)
  BY <1>1, TrxOf DEF Searching, Withdrawal
<1> QED
  BY <1>1, <1>2, StateDoneKept

\* The catch only logs.
LEMMA LFThrowStep ==
  ASSUME IInv, LFThrow
  PROVE  IInv'
BY QueueNames, QuietThrowKept DEF LFThrow

\* Every step of legacyFinancialRequestHandler.
LEMMA LegacyFinancialRequestHandlerStep ==
  ASSUME IInv, LegacyFinancialRequestHandler
  PROVE  IInv'
BY LFFindStep, LFRelateStep, LFPutAuthorizationsStep, LFUpdateStateStep,
   LFThrowStep DEF LegacyFinancialRequestHandler

-----------------------------------------------------------------------------
(* transferRequestHandler *)

\* The transfer is asked for a withdrawal.
LEMMA TRValidateStep ==
  ASSUME IInv, TRValidate
  PROVE  IInv'
<1> DEFINE t == work[TR].job[2]
<1>1. /\ UNCHANGED <<environment, transactions, links, quotes, transfers, responses>>
      /\ work[TR].pc = "start"
      /\ TR \in WorkerQueue /\ TR # QX
  BY QueueNames DEF TRValidate, At, TR, QX
<1>2. t \in TrxId /\ Withdrawal(t)
  BY <1>1, HubTrxOf
<1>3. ASSUME NEW next \in {"insertTransfer", "putTransfersError"},
             NEW n \in {1}, NEW s \in {{}}, Begin(TR, next, t, n, s),
             UNCHANGED sent
      PROVE  IInv'
  <2> HIDE DEF t
  <2>1. /\ UNCHANGED <<lpsMessages, transactions, transfers, delivered>>
        /\ UNCHANGED <<links, sent, responses>>
        /\ UNCHANGED outputs
    BY <1>1, <1>3 DEF environment, outputs
  <2>2. Grows
    BY <2>1, OnlyAdds
  <2>3. \A u \in TrxId : u = t => Withdrawal(u)'
    BY <1>2, <2>1, <2>2, KindsStay
  <2>4. n \in 1..MaxDeliver
    BY BoundsAssumption
  <2>5. /\ work' \in [WorkerQueue -> Worker] /\ Only(TR) /\ WorkerOK(TR)'
        /\ work'[TR].trx = t /\ work'[TR].nth = n /\ work'[TR].pc = next
    <3>1. next \in StepsOf(TR) /\ n \in 0..MaxDeliver /\ s \in SUBSET Seen
      BY Steps, BoundsAssumption
    <3>2. \A u \in TrxId : u = t => Begin(TR, next, u, n, s)
      BY <1>3
    <3>3. TR \in WorkerQueue /\ work[TR].pc # "idle" /\ TR # QX
      BY <1>1
    <3> QED
      BY <1>2, <2>2, <2>3, <3>1, <3>2, <3>3, BeginKept
  <2>6. WorkTransfer(TR)' \in TransferId
    BY <1>2, <2>4, <2>5 DEF WorkTransfer, TransferId
  <2>7. Knows(TR)'
    BY <2>5, <2>6, KnowsOwn DEF KnowsTR, WorkTransfer
  <2>8. work'[TR].pc # "putTransfers"
    BY <2>5
  <2> QED
    BY <1>1, <2>1, <2>5, <2>7, <2>8, MoveKept
<1>4. CASE sent' = sent \cup {<<"putTransfersError", <<t, 1>>>>} /\ Done(TR)
  <2> DEFINE c == <<"putTransfersError", <<t, 1>>>>
  <2>1. <<t, 1>> \in TransferId
    BY <1>2, BoundsAssumption DEF TransferId
  <2>2. c \in HubCall /\ c[1] \notin WithdrawalCall
                          \cup {"postQuotes", "putTransfers", "postTransfers"}
    BY <2>1 DEF HubCall, TransferCall, WithdrawalCall
  <2>3. sent' = sent \cup {c} /\ Done(TR) /\ TR \in WorkerQueue
    BY <1>1, <1>4
  <2> HIDE DEF c
  <2> QED
    BY <1>1, <2>2, <2>3, RefuseKept
<1> QED
  BY <1>3, <1>4 DEF TRValidate

\* The transfer is new, so that it cannot have been fulfilled.
LEMMA TRInsertTransferStep ==
  ASSUME IInv, TRInsertTransfer
  PROVE  IInv'
<1> DEFINE x == WorkTransfer(TR)
<1>1. /\ UNCHANGED <<environment, transactions, links, quotes, responses>>
      /\ UNCHANGED <<lpsMessages, queue, delivered, budget>>
      /\ work[TR].pc = "insertTransfer"
      /\ TR \in WorkerQueue
  BY QueueNames DEF TRInsertTransfer, At, environment
<1>2. /\ x \in TransferId /\ work[TR].trx \in TrxId /\ Withdrawal(work[TR].trx)
      /\ x[1] = work[TR].trx
  BY <1>1, TrxOf DEF Searching, IInv, Knowledge, KnowsTR, WorkTransfer
<1>3. CASE /\ transfers[x] = "none"
           /\ transfers' = [transfers EXCEPT ![x] = "RECEIVED"]
           /\ Goto(TR, "putTransfers") /\ UNCHANGED sent
  <2>1. /\ transfers' \in [TransferId -> TransferState]
        /\ transfers'[x] = "RECEIVED"
        /\ \A y \in TransferId : y # x => transfers'[y] = transfers[y]
    BY <1>2, <1>3 DEF IInv, TypeOK, TransferState
  <2>2. Grows /\ NoneBecomesAuthSent
    BY <1>1, <1>3, <2>1 DEF Grows, RowsStay, MessagesStay, TransfersStay,
       DeliveredStay, HasDelivered, NoneBecomesAuthSent, Exists
  <2>3. /\ work' \in [WorkerQueue -> Worker] /\ Only(TR) /\ WorkerOK(TR)'
        /\ work'[TR].pc = "putTransfers"
        /\ work'[TR].trx = work[TR].trx /\ work'[TR].nth = work[TR].nth
    <3>1. "putTransfers" \in StepsOf(TR) /\ "insertTransfer" \notin Searching
      BY Steps DEF Searching
    <3> QED
      BY <1>1, <1>3, <2>2, <3>1, GotoKept
  <2>4. WorkTransfer(TR)' = x
    BY <2>3 DEF WorkTransfer
  <2> HIDE DEF x
  <2>5. Knows(TR)'
    BY <1>2, <2>1, <2>4, KnowsOwn DEF KnowsTR
  <2>6. TransfersOK'
    <3>1. SUFFICES ASSUME NEW y \in TransferId
                   PROVE  /\ transfers'[y] # "none" => Exists(y[1])'
                          /\ transfers'[y] = "COMMITTED" => Committed(y)'
      BY DEF TransfersOK
    <3>2. /\ transfers'[y] # "none" => Exists(y[1])
          /\ transfers'[y] = "COMMITTED" => Committed(y)
      BY <1>2, <2>1 DEF IInv, TransfersOK, Withdrawal
    <3>3. y[1] \in TrxId
      BY DEF TransferId
    <3> QED
      BY <2>2, <3>2, <3>3, RowStays, CommittedStays
  <2>7. SentOK'
    <3>1. \A u \in TrxId :
            transactions'[u].state = "authSent" =>
              transactions[u].state = "authSent" \/ (Exists(u) /\ Shown(u))
      BY <1>1
    <3>2. MayCall(sent' \ sent)
      BY <1>3 DEF MayCall
    <3> QED
      BY <2>2, <3>1, <3>2, SentKept
  <2>8. <<"putTransfers", x>> \notin sent'
    BY <1>2, <1>3 DEF IInv, SentOK
  <2>9. FulfilledOnce'
    <3>1. \A y \in TransferId :
            <<"putTransfers", y>> \in sent' => transfers'[y] # "none"
      BY <2>7 DEF SentOK
    <3> QED
      BY <2>1, <2>4, <2>8, <3>1 DEF FulfilledOnce
  <2>10. TypeOK'
    BY <1>1, <1>3, <2>1, <2>3 DEF IInv, TypeOK
  <2> QED
    BY <1>1, <1>3, <2>2, <2>3, <2>5, <2>6, <2>7, <2>9, <2>10, StepKept
<1>4. CASE /\ sent' = sent \cup {<<"putTransfersError", x>>}
           /\ Done(TR) /\ UNCHANGED transfers
  <2> DEFINE c == <<"putTransfersError", x>>
  <2>1. c \in HubCall /\ c[1] \notin WithdrawalCall
                          \cup {"postQuotes", "putTransfers", "postTransfers"}
    BY <1>2 DEF HubCall, TransferCall, WithdrawalCall
  <2>2. UNCHANGED <<environment, transactions, links, quotes, transfers, responses>>
    BY <1>1, <1>4
  <2>3. sent' = sent \cup {c} /\ Done(TR) /\ TR \in WorkerQueue
    BY <1>1, <1>4
  <2> HIDE DEF c
  <2> QED
    BY <2>1, <2>2, <2>3, RefuseKept
<1> QED
  BY <1>3, <1>4 DEF TRInsertTransfer

\* The fulfilment leaves once, and its worker moves on.
LEMMA TRPutTransfersStep ==
  ASSUME IInv, TRPutTransfers
  PROVE  IInv'
<1>1. /\ TR \in WorkerQueue /\ "putTransfers" \in CallStep
      /\ "updateState" \in StepsOf(TR) /\ "updateState" \in Pc
  BY QueueNames, Steps DEF CallStep, TransferCall, Pc, DatabaseStep
<1>2. /\ Call(TR, "putTransfers") /\ Goto(TR, "updateState")
      /\ work[TR].pc = "putTransfers"
      /\ UNCHANGED <<environment, transactions, links, quotes, transfers, responses>>
  BY DEF TRPutTransfers, Call, At
<1>3. /\ work'[TR].pc = "updateState"
      /\ work'[TR].trx = work[TR].trx /\ work'[TR].nth = work[TR].nth
  BY <1>1, <1>2, GotoWork DEF IInv
<1>4. WorkTransfer(TR) \in TransferId /\ transfers[WorkTransfer(TR)] # "none"
  BY <1>2 DEF IInv, Knowledge, KnowsTR, Searching
<1>5. WorkTransfer(TR)' = WorkTransfer(TR)
  BY <1>3 DEF WorkTransfer
<1>6. Knows(TR)'
  BY <1>2, <1>4, <1>5, KnowsOwn DEF KnowsTR
<1> QED
  BY <1>1, <1>2, <1>6, CallGotoKept

\* The late write makes nothing authSent.
LEMMA TRUpdateStateStep ==
  ASSUME IInv, TRUpdateState
  PROVE  IInv'
<1>1. /\ UNCHANGED <<environment, links, quotes, transfers, outputs>>
      /\ work[TR].pc = "updateState" /\ Goto(TR, "updateTransfer")
      /\ work[TR].pc \notin Searching
      /\ SetState(work[TR].trx, "fulfillmentSent")
      /\ TR \in WorkerQueue
      /\ "fulfillmentSent" \in TransactionState
      /\ "updateTransfer" \in StepsOf(TR) /\ "updateTransfer" \in Pc
  BY QueueNames, Steps DEF TRUpdateState, At, TransactionState, Searching, Pc,
     DatabaseStep
<1>2. work[TR].trx \in TrxId /\ Withdrawal(work[TR].trx) /\ Exists(work[TR].trx)
  BY <1>1, TrxOf DEF Withdrawal
<1>3. /\ work'[TR].pc = "updateTransfer"
      /\ work'[TR].trx = work[TR].trx /\ work'[TR].nth = work[TR].nth
  BY <1>1, GotoWork DEF IInv
<1>4. WorkTransfer(TR) \in TransferId /\ transfers[WorkTransfer(TR)] # "none"
  BY <1>1 DEF IInv, Knowledge, KnowsTR, Searching
<1>5. WorkTransfer(TR)' = WorkTransfer(TR)
  BY <1>3 DEF WorkTransfer
<1>6. Knows(TR)'
  BY <1>1, <1>4, <1>5, KnowsOwn DEF KnowsTR
<1> QED
  BY <1>1, <1>2, <1>6, StateGotoKept

\* RESERVED claims nothing of the hub.
LEMMA TRUpdateTransferStep ==
  ASSUME IInv, TRUpdateTransfer
  PROVE  IInv'
<1> DEFINE x == WorkTransfer(TR)
<1>1. /\ UNCHANGED <<environment, transactions, links, quotes, outputs>>
      /\ UNCHANGED <<lpsMessages, queue, delivered, budget, sent, responses>>
      /\ work[TR].pc = "updateTransfer" /\ Done(TR)
      /\ transfers' = [transfers EXCEPT ![x] = "RESERVED"]
      /\ TR \in WorkerQueue
  BY QueueNames DEF TRUpdateTransfer, At, environment, outputs
<1>2. x \in TransferId /\ transfers[x] # "none"
  BY <1>1 DEF Searching, IInv, Knowledge, KnowsTR
<1>3. /\ transfers' \in [TransferId -> TransferState]
      /\ transfers'[x] = "RESERVED"
      /\ \A y \in TransferId : y # x => transfers'[y] = transfers[y]
  BY <1>1, <1>2 DEF IInv, TypeOK, TransferState
<1>4. Grows /\ NoneBecomesAuthSent
  BY <1>1, <1>2, <1>3 DEF Grows, RowsStay, MessagesStay, TransfersStay,
     DeliveredStay, HasDelivered, NoneBecomesAuthSent, Exists
<1>5. /\ work' \in [WorkerQueue -> Worker] /\ Only(TR)
      /\ work'[TR].pc = "idle" /\ WorkerOK(TR)' /\ Knows(TR)'
  BY <1>1, DoneKept
<1> HIDE DEF x
<1>6. TransfersOK'
  <2>1. SUFFICES ASSUME NEW y \in TransferId
                 PROVE  /\ transfers'[y] # "none" => Exists(y[1])'
                        /\ transfers'[y] = "COMMITTED" => Committed(y)'
    BY DEF TransfersOK
  <2>2. /\ transfers'[y] # "none" => Exists(y[1])
        /\ transfers'[y] = "COMMITTED" => Committed(y)
    BY <1>2, <1>3 DEF IInv, TransfersOK
  <2>3. y[1] \in TrxId
    BY DEF TransferId
  <2> QED
    BY <1>4, <2>2, <2>3, RowStays, CommittedStays
<1>7. SentOK'
  <2>1. \A u \in TrxId :
          transactions'[u].state = "authSent" =>
            transactions[u].state = "authSent" \/ (Exists(u) /\ Shown(u))
    BY <1>1
  <2>2. MayCall(sent' \ sent)
    BY <1>1 DEF MayCall
  <2> QED
    BY <1>4, <2>1, <2>2, SentKept
<1>8. FulfilledOnce'
  BY <1>5, <1>7, FulfilledKept
<1>9. TypeOK'
  BY <1>1, <1>3, <1>5 DEF IInv, TypeOK
<1> QED
  BY <1>1, <1>4, <1>5, <1>6, <1>7, <1>8, <1>9, StepKept

\* An error reported to the hub.
LEMMA TRPutTransfersErrorStep ==
  ASSUME IInv, TRPutTransfersError
  PROVE  IInv'
<1>1. /\ TR \in WorkerQueue /\ "putTransfersError" \in CallStep
      /\ "refuse" \in StepsOf(TR) /\ "refuse" \in Pc
  BY QueueNames, Steps DEF CallStep, TransferCall, Pc
<1>2. /\ Call(TR, "putTransfersError") /\ Goto(TR, "refuse")
      /\ work[TR].pc = "putTransfersError"
      /\ UNCHANGED <<environment, transactions, links, quotes, transfers, responses>>
  BY DEF TRPutTransfersError, Call, At
<1>3. /\ work'[TR].pc = "refuse"
      /\ work'[TR].trx = work[TR].trx /\ work'[TR].nth = work[TR].nth
  BY <1>1, <1>2, GotoWork DEF IInv
<1>4. WorkTransfer(TR) \in TransferId
  BY <1>2 DEF IInv, Knowledge, KnowsTR, Searching
<1>5. WorkTransfer(TR)' = WorkTransfer(TR)
  BY <1>3 DEF WorkTransfer
<1>6. Knows(TR)'
  BY <1>3, <1>4, <1>5, KnowsOwn DEF KnowsTR
<1> QED
  BY <1>1, <1>2, <1>6, CallGotoKept

\* A refusal is an answer no one has to earn.
LEMMA TRRefuseStep ==
  ASSUME IInv, TRRefuse
  PROVE  IInv'
<1>1. /\ TR \in WorkerQueue /\ Done(TR)
      /\ UNCHANGED <<environment, transactions, links, quotes, transfers, sent>>
  BY QueueNames DEF TRRefuse
<1>2. \/ UNCHANGED responses
      \/ \E m \in Linked(work[TR].trx, "financialRequest") : Respond(m, "invalid")
  BY DEF TRRefuse
<1>3. UNCHANGED responses \/ \E m \in MsgId : Stored(m) /\ Respond(m, "invalid")
  BY <1>2, LinkedType
<1> QED
  BY <1>1, <1>3, InvalidKept

\* The catch reports an error to the hub.
LEMMA TRThrowStep ==
  ASSUME IInv, TRThrow
  PROVE  IInv'
<1> DEFINE c == <<"putTransfersError", <<work[TR].job[2], 1>>>>
<1>1. Throw(TR, {c}, {}) /\ TR \in WorkerQueue /\ work[TR].pc # "idle"
  BY QueueNames DEF TRThrow, Throw, At
<1>2. <<work[TR].job[2], 1>> \in TransferId
  BY <1>1, HubTrxOf, BoundsAssumption DEF TransferId
<1>3. {c} \in SUBSET HubCall /\ {} \in SUBSET Response
      /\ c[1] \notin WithdrawalCall
                       \cup {"postQuotes", "putTransfers", "postTransfers"}
  BY <1>2 DEF HubCall, TransferCall, WithdrawalCall
<1> HIDE DEF c
<1> QED
  BY <1>1, <1>3, ThrowKept

\* Every step of transferRequestHandler.
LEMMA TransferRequestHandlerStep ==
  ASSUME IInv, TransferRequestHandler
  PROVE  IInv'
BY TRValidateStep, TRInsertTransferStep, TRPutTransfersStep, TRUpdateStateStep,
   TRUpdateTransferStep, TRPutTransfersErrorStep, TRRefuseStep, TRThrowStep
DEF TransferRequestHandler

-----------------------------------------------------------------------------
(* transferResponseHandler *)

\* The worker goes on only with a transfer the hub has committed.
LEMMA TXReadStep ==
  ASSUME IInv, TXRead
  PROVE  IInv'
<1> DEFINE x == work[TX].job[2]
<1>1. /\ UNCHANGED <<environment, transactions, links, quotes, transfers, outputs>>
      /\ UNCHANGED <<lpsMessages, transactions, transfers, delivered>>
      /\ UNCHANGED <<links, sent, responses>>
      /\ work[TX].pc = "start"
      /\ TX \in WorkerQueue /\ TX # TR /\ TX \notin LegacyQueue
      /\ TX \notin {LA, PR, TRR, QR, AR, LF, TR} /\ TX # QX
  BY QueueNames DEF TXRead, At, environment, outputs, LegacyQueue, LA, PR, TRR,
     QR, AR, LF, TR, TX, QX
<1>2. Grows
  BY <1>1, OnlyAdds
<1>3. CASE Done(TX)
  BY <1>1, <1>3, DoneKept, MoveKept
<1>4. CASE /\ transfers[x] # "none" /\ work[TX].job[1] = "committed"
           /\ Begin(TX, "approve", x[1], x[2], {})
  <2>1. /\ work[TX].job \in HubMessage /\ QueueOf(work[TX].job) = TX
        /\ HasDelivered(work[TX].job)
    BY <1>1 DEF IInv, WorkersOK, WorkerOK, Justified
  <2>2. x \in TransferId /\ work[TX].job = <<"committed", x>>
    BY <1>4, <2>1 DEF HubMessage, AboutTransfer, AboutTransaction
  <2>3. Committed(x)
    BY <2>1, <2>2 DEF Committed
  <2>4. /\ x[1] \in TrxId /\ x[2] \in 0..MaxDeliver /\ x = <<x[1], x[2]>>
    BY <2>2 DEF TransferId
  <2>5. /\ work' \in [WorkerQueue -> Worker] /\ Only(TX) /\ WorkerOK(TX)'
        /\ work'[TX].trx = x[1] /\ work'[TX].nth = x[2]
    <3>1. "approve" \in StepsOf(TX) /\ TX \in WorkerQueue /\ work[TX].pc # "idle"
      BY <1>1, Steps
    <3>2. /\ TX \notin {LA, PR, TRR, QR, AR, LF, TR} /\ TX # QX
      BY DEF LA, PR, TRR, QR, AR, LF, TR, TX, QX
    <3>3. \A u \in TrxId, k \in 0..MaxDeliver, r \in SUBSET Seen :
            u = x[1] /\ k = x[2] /\ r = {} => Begin(TX, "approve", u, k, r)
      BY <1>4
    <3>4. {} \in SUBSET Seen
      OBVIOUS
    <3> HIDE DEF x
    <3>5. ASSUME NEW u \in TrxId, NEW k \in 0..MaxDeliver, NEW r \in SUBSET Seen,
                 Begin(TX, "approve", u, k, r)
          PROVE  /\ work' \in [WorkerQueue -> Worker] /\ Only(TX) /\ WorkerOK(TX)'
                 /\ work'[TX].trx = u /\ work'[TX].nth = k
      BY <1>2, <3>1, <3>2, <3>5, BeginKept
    <3> QED
      BY <2>4, <3>3, <3>4, <3>5
  <2>6. WorkTransfer(TX)' = x
    BY <2>4, <2>5 DEF WorkTransfer
  <2>7. \A y : y = x => Committed(y)'
    BY <1>1, <2>3 DEF Committed, HasDelivered
  <2> HIDE DEF x
  <2>8. KnowsTX'
    BY <1>1, <1>4, <2>2, <2>6, <2>7 DEF KnowsTX, Committed, HasDelivered
  <2> QED
    BY <1>1, <2>5, <2>8, KnowsOwn, MoveKept
<1> QED
  BY <1>3, <1>4 DEF TXRead

\* A committed transfer was fulfilled for a withdrawal or made for a refund.
LEMMA CommittedCalls ==
  ASSUME IInv, NEW x \in TransferId, Committed(x)
  PROVE  /\ x[1] \in TrxId
         /\ Withdrawal(x[1]) => <<"putTransfers", x>> \in sent
         /\ Refund(x[1]) => <<"postTransfers", x>> \in sent
<1> DEFINE h == <<"committed", x>>
<1>1. h \in HubMessage /\ HasDelivered(h)
  BY DEF Committed, HubMessage, AboutTransfer
<1>2. PromptedBy(h) \cap sent # {}
  BY <1>1 DEF IInv, DeliveredOK
<1>3. PromptedBy(h) = {<<"putTransfers", x>>, <<"postTransfers", x>>}
  BY DEF PromptedBy
<1>4. \/ <<"putTransfers", x>> \in sent /\ Withdrawal(x[1])
      \/ <<"postTransfers", x>> \in sent /\ Refund(x[1])
  BY <1>2, <1>3 DEF IInv, SentOK
<1> QED
  BY <1>4 DEF TransferId, Withdrawal, Refund

\* The committed transfer earns the approval of the request or the
\* advice its transaction is linked to.
LEMMA TXApproveStep ==
  ASSUME IInv, TXApprove
  PROVE  IInv'
<1> DEFINE t == work[TX].trx
           x == WorkTransfer(TX)
           type == IF IsRefund(t) THEN "reversalRequest" ELSE "financialRequest"
<1>1. /\ UNCHANGED <<environment, transactions, links, quotes, transfers, sent>>
      /\ UNCHANGED <<lpsMessages, transactions, transfers, delivered>>
      /\ work[TX].pc = "approve"
      /\ TX \in WorkerQueue /\ TX # TR
  BY QueueNames DEF TXApprove, At, environment
<1>2. CASE Done(TX) /\ UNCHANGED responses
  BY <1>1, <1>2, InvalidKept
<1>3. ASSUME NEW m \in Linked(t, type), Respond(m, "approved"),
             Goto(TX, "updateState")
      PROVE  IInv'
  <2>1. responses' = responses \cup {<<m, "approved">>}
    BY <1>3 DEF Respond
  <2>2. /\ m \in MsgId /\ lpsMessages[m].type = type /\ Stored(m)
        /\ t \in TrxId /\ <<t, m>> \in links /\ Exists(t)
    BY <1>3, LinkedType DEF IInv, LinksOK
  <2>3. /\ x \in TransferId /\ transfers[x] # "none" /\ Committed(x)
        /\ x[1] = t
    BY <1>1 DEF IInv, Knowledge, KnowsTX, Searching, WorkTransfer
  <2>4. Grows
    BY <1>1, <2>1, OnlyAdds
  <2>5. /\ work' \in [WorkerQueue -> Worker] /\ Only(TX) /\ WorkerOK(TX)'
        /\ work'[TX].trx = work[TX].trx /\ work'[TX].nth = work[TX].nth
    <3>1. "updateState" \in StepsOf(TX) /\ "approve" \notin Searching
      BY Steps DEF Searching
    <3> QED
      BY <1>1, <1>3, <2>4, <3>1, GotoKept
  <2>6. Knows(TX)'
    <3>1. WorkTransfer(TX)' = x
      BY <2>5 DEF WorkTransfer
    <3>2. \A y \in TransferId : y = x => Committed(y)'
      BY <2>3, <2>4, CommittedStays
    <3> HIDE DEF x
    <3>3. KnowsTX'
      BY <1>1, <2>3, <3>1, <3>2 DEF KnowsTX, Committed, HasDelivered
    <3> QED
      BY <3>3, KnowsOwn
  <2>7. Earned(m)
    <3>1. CASE IsRefund(t)
      <4>1. <<"postTransfers", x>> \in sent
        BY <2>2, <2>3, <3>1, CommittedCalls DEF Refund
      <4>2. lpsMessages[m].type = "reversalRequest"
        BY <2>2, <3>1
      <4>3. \E y \in TransferId :
              /\ <<y[1], m>> \in links /\ IsRefund(y[1])
              /\ <<"postTransfers", y>> \in sent /\ Committed(y)
        BY <2>2, <2>3, <3>1, <4>1
      <4> QED
        BY <4>2, <4>3 DEF Earned
    <3>2. CASE ~IsRefund(t)
      <4>1. <<"putTransfers", x>> \in sent
        BY <2>2, <2>3, <3>2, CommittedCalls DEF Withdrawal
      <4>2. lpsMessages[m].type = "financialRequest"
        BY <2>2, <3>2
      <4>3. \E y \in TransferId :
              /\ <<y[1], m>> \in links /\ ~IsRefund(y[1])
              /\ <<"putTransfers", y>> \in sent /\ Committed(y)
        BY <2>2, <2>3, <3>2, <4>1
      <4> QED
        BY <4>2, <4>3 DEF Earned
    <3> QED
      BY <3>1, <3>2
  <2>8. /\ quotes' \in [TrxId -> QuoteState]
        /\ responses \subseteq responses' /\ responses' \in SUBSET Response
    BY <1>1, <2>1, <2>2 DEF IInv, TypeOK, Response
  <2>9. \A k \in MsgId, r \in {"approved", "invalid"} :
          <<k, r>> \in responses' /\ <<k, r>> \notin responses =>
            Stored(k) /\ (r = "approved" => Earned(k))
    <3>1. \A k \in MsgId, r \in {"approved", "invalid"} :
            <<k, r>> \in responses' /\ <<k, r>> \notin responses => k = m
      BY <2>1
    <3> QED
      BY <2>2, <2>7, <3>1
  <2> QED
    BY <1>1, <2>5, <2>6, <2>8, <2>9, AnswerKept
<1> QED
  BY <1>2, <1>3 DEF TXApprove

\* A refund may have the state financialResponse.
LEMMA TXUpdateStateStep ==
  ASSUME IInv, TXUpdateState
  PROVE  IInv'
<1> DEFINE x == WorkTransfer(TX)
<1>1. /\ UNCHANGED <<environment, links, quotes, transfers, outputs>>
      /\ UNCHANGED transfers
      /\ work[TX].pc = "updateState" /\ Goto(TX, "updateTransfer")
      /\ work[TX].pc \notin Searching
      /\ SetState(work[TX].trx, "financialResponse")
      /\ TX \in WorkerQueue
      /\ "financialResponse" \in TransactionState
      /\ "updateTransfer" \in StepsOf(TX) /\ "updateTransfer" \in Pc
  BY QueueNames, Steps DEF TXUpdateState, At, TransactionState, Searching, Pc,
     DatabaseStep
<1>2. /\ x \in TransferId /\ transfers[x] # "none" /\ Committed(x)
      /\ x[1] = work[TX].trx
  BY <1>1 DEF IInv, Knowledge, KnowsTX, WorkTransfer
<1>3. work[TX].trx \in TrxId /\ Exists(work[TX].trx)
  BY <1>1, <1>2, TrxOf DEF IInv, TransfersOK
<1>4. /\ work'[TX].pc = "updateTransfer"
      /\ work'[TX].trx = work[TX].trx /\ work'[TX].nth = work[TX].nth
  BY <1>1, GotoWork DEF IInv
<1>5. WorkTransfer(TX)' = x
  BY <1>4 DEF WorkTransfer
<1>6. Grows => Knows(TX)'
  <2>1. SUFFICES ASSUME Grows PROVE Knows(TX)'
    OBVIOUS
  <2>2. \A y \in TransferId : y = x => Committed(y)'
    BY <1>2, <2>1, CommittedStays
  <2> HIDE DEF x
  <2>3. KnowsTX'
    BY <1>1, <1>2, <1>5, <2>2 DEF KnowsTX, Committed, HasDelivered
  <2> QED
    BY <2>3, KnowsOwn
<1> QED
  BY <1>1, <1>3, <1>6, StateGotoKept

\* COMMITTED is written for a transfer the hub has committed.
LEMMA TXUpdateTransferStep ==
  ASSUME IInv, TXUpdateTransfer
  PROVE  IInv'
<1> DEFINE x == WorkTransfer(TX)
<1>1. /\ UNCHANGED <<environment, transactions, links, quotes, outputs>>
      /\ UNCHANGED <<lpsMessages, queue, delivered, budget, sent, responses>>
      /\ work[TX].pc = "updateTransfer" /\ Done(TX)
      /\ transfers' = [transfers EXCEPT ![x] = "COMMITTED"]
      /\ TX \in WorkerQueue /\ TR \in WorkerQueue /\ TX # TR
  BY QueueNames DEF TXUpdateTransfer, At, environment, outputs
<1>2. x \in TransferId /\ transfers[x] # "none" /\ Committed(x)
  BY <1>1 DEF Searching, IInv, Knowledge, KnowsTX
<1>3. /\ transfers' \in [TransferId -> TransferState]
      /\ transfers'[x] = "COMMITTED"
      /\ \A y \in TransferId : y # x => transfers'[y] = transfers[y]
  BY <1>1, <1>2 DEF IInv, TypeOK, TransferState
<1>4. Grows /\ NoneBecomesAuthSent
  BY <1>1, <1>2, <1>3 DEF Grows, RowsStay, MessagesStay, TransfersStay,
     DeliveredStay, HasDelivered, NoneBecomesAuthSent, Exists
<1>5. /\ work' \in [WorkerQueue -> Worker] /\ Only(TX)
      /\ work'[TX].pc = "idle" /\ WorkerOK(TX)' /\ Knows(TX)'
  BY <1>1, DoneKept
<1> HIDE DEF x
<1>6. TransfersOK'
  <2>1. SUFFICES ASSUME NEW y \in TransferId
                 PROVE  /\ transfers'[y] # "none" => Exists(y[1])'
                        /\ transfers'[y] = "COMMITTED" => Committed(y)'
    BY DEF TransfersOK
  <2>2. /\ transfers'[y] # "none" => Exists(y[1])
        /\ transfers'[y] = "COMMITTED" => Committed(y)
    BY <1>2, <1>3 DEF IInv, TransfersOK
  <2>3. y[1] \in TrxId
    BY DEF TransferId
  <2> QED
    BY <1>4, <2>2, <2>3, RowStays, CommittedStays
<1>7. SentOK'
  <2>1. \A u \in TrxId :
          transactions'[u].state = "authSent" =>
            transactions[u].state = "authSent" \/ (Exists(u) /\ Shown(u))
    BY <1>1
  <2>2. MayCall(sent' \ sent)
    BY <1>1 DEF MayCall
  <2> QED
    BY <1>4, <2>1, <2>2, SentKept
<1>8. FulfilledOnce'
  <2>1. ASSUME work[TR].pc = "putTransfers"
        PROVE  /\ WorkTransfer(TR) \in TransferId
               /\ WorkTransfer(TR) # x
    <3>1. /\ WorkTransfer(TR) \in TransferId
          /\ <<"putTransfers", WorkTransfer(TR)>> \notin sent
          /\ Withdrawal(WorkTransfer(TR)[1])
      BY <1>1, <2>1, TrxOf
      DEF IInv, Knowledge, KnowsTR, FulfilledOnce, At, Searching, WorkTransfer
    <3> QED
      BY <1>2, <3>1, CommittedCalls
  <2>2. work'[TR] = work[TR]
    BY <1>1, <1>5 DEF Only
  <2>3. work[TR].pc = "putTransfers" =>
          transfers'[WorkTransfer(TR)] = transfers[WorkTransfer(TR)]
    BY <1>3, <2>1
  <2> QED
    BY <1>1, <1>7, <2>2, <2>3, FulfilledKept DEF WorkTransfer
<1>9. TypeOK'
  BY <1>1, <1>3, <1>5 DEF IInv, TypeOK
<1> QED
  BY <1>1, <1>4, <1>5, <1>6, <1>7, <1>8, <1>9, StepKept

\* The catch only logs.
LEMMA TXThrowStep ==
  ASSUME IInv, TXThrow
  PROVE  IInv'
BY QueueNames, QuietThrowKept DEF TXThrow

\* Every step of transferResponseHandler.
LEMMA TransferResponseHandlerStep ==
  ASSUME IInv, TransferResponseHandler
  PROVE  IInv'
BY TXReadStep, TXApproveStep, TXUpdateStateStep, TXUpdateTransferStep,
   TXThrowStep DEF TransferResponseHandler

-----------------------------------------------------------------------------
(* legacyReversalHandler, quoteResponseHandler *)

\* The queue of legacyReversalHandler is none of the others.
LEMMA LRWorker ==
  /\ LR \in WorkerQueue /\ LR \in LegacyQueue /\ LR # TR /\ LR # QX
  /\ LR \notin {LA, PR, TRR, QR, AR, LF, TR}
BY QueueNames DEF LA, PR, TRR, QR, AR, LF, TR, LR, QX

\* The queue of quoteResponseHandler is none of the others.
LEMMA QXWorker ==
  /\ QX \in WorkerQueue /\ QX \notin LegacyQueue /\ QX # TR
  /\ QX \notin {LA, PR, TRR, QR, AR, LF, TR}
BY QueueNames DEF LegacyQueue, LA, PR, TRR, QR, AR, LF, TR, LR, QX

-----------------------------------------------------------------------------
(* legacyReversalHandler *)

\* The check for a replay changes nothing but the worker.
LEMMA LRCheckReplayStep ==
  ASSUME IInv, LRCheckReplay
  PROVE  IInv'
<1>1. /\ UNCHANGED <<environment, transactions, links, quotes, transfers, outputs>>
      /\ UNCHANGED <<lpsMessages, transactions, transfers, delivered>>
      /\ UNCHANGED <<links, sent, responses>>
      /\ work[LR].pc = "start"
      /\ Done(LR) \/ Goto(LR, "find")
  BY DEF LRCheckReplay, At, environment, outputs
<1>2. CASE Done(LR)
  BY <1>1, <1>2, LRWorker, DoneKept, MoveKept
<1>3. CASE Goto(LR, "find")
  <2>1. Grows
    BY <1>1, OnlyAdds
  <2>2. "find" \in StepsOf(LR) /\ "find" \in Searching
    BY Steps DEF Searching
  <2>3. /\ work' \in [WorkerQueue -> Worker] /\ Only(LR) /\ WorkerOK(LR)'
        /\ work'[LR].pc = "find"
    BY <1>1, <1>3, <2>1, <2>2, LRWorker, GotoKept
  <2>4. Knows(LR)'
    BY <2>3, KnowsOwn DEF KnowsLR
  <2> QED
    BY <1>1, <2>3, <2>4, LRWorker, MoveKept
<1> QED
  BY <1>1, <1>2, <1>3

\* The transaction found is linked to the message the advice is about, and
\* no refund is: COMMITTED in its table means committed by the hub.
LEMMA LRFindStep ==
  ASSUME IInv, LRFind
  PROVE  IInv'
<1> DEFINE m == JobMessage(LR)
           found == {t \in TrxId :
                       /\ transactions[t].lpsKey = lpsMessages[m].lpsKey
                       /\ <<t, lpsMessages[m].about>> \in links}
<1>1. /\ UNCHANGED <<environment, transactions, links, quotes, transfers, sent>>
      /\ UNCHANGED <<lpsMessages, transactions, transfers, delivered>>
      /\ UNCHANGED <<links, sent>>
      /\ work[LR].pc = "find"
  BY DEF LRFind, At, environment
<1>2. /\ m \in MsgId /\ Stored(m)
      /\ lpsMessages[m].type = "reversalRequest"
  BY <1>1, LRWorker, MessageOf
<1>3. CASE Respond(m, "invalid") /\ Done(LR)
  BY <1>1, <1>2, <1>3, LRWorker, InvalidKept
<1>4. ASSUME NEW t \in found, NEW n \in 0..MaxDeliver, NEW s \in SUBSET Seen,
             Begin(LR, "relate", t, n, s), UNCHANGED responses,
             "committed" \in s =>
               n \in 1..MaxDeliver /\ transfers[<<t, n>>] = "COMMITTED"
      PROVE  IInv'
  <2>1. /\ t \in TrxId /\ transactions[t].lpsKey = lpsMessages[m].lpsKey
        /\ <<t, lpsMessages[m].about>> \in links
    OBVIOUS
  <2>2. Withdrawal(t)
    <3>1. /\ lpsMessages[m].about \in MsgId
          /\ lpsMessages[lpsMessages[m].about].type # "reversalRequest"
      BY <1>2 DEF IInv, MessagesOK
    <3> QED
      BY <2>1, <3>1 DEF IInv, LinksOK, Withdrawal
  <2>3. Grows
    BY <1>1, <1>4, OnlyAdds
  <2>4. "committed" \in s => Due(t, m)
    <3>1. ASSUME "committed" \in s
          PROVE  \E k \in 1..MaxDeliver : Committed(<<t, k>>)
      <4>1. n \in 1..MaxDeliver /\ <<t, n>> \in TransferId
        BY <1>4, <2>1, <3>1 DEF TransferId
      <4>2. Committed(<<t, n>>)
        BY <1>4, <3>1, <4>1 DEF IInv, TransfersOK
      <4> QED
        BY <4>1, <4>2
    <3> QED
      BY <2>1, <2>2, <3>1 DEF Due
  <2> HIDE DEF m
  <2>5. /\ Withdrawal(t)'
        /\ \A k \in MsgId : k = m /\ "committed" \in s => Due(t, k)'
    BY <1>2, <2>1, <2>2, <2>3, <2>4, KindsStay, DueStays
  <2>6. /\ work' \in [WorkerQueue -> Worker] /\ Only(LR) /\ WorkerOK(LR)'
        /\ work'[LR].pc = "relate"
        /\ work'[LR].trx = t /\ work'[LR].seen = s
        /\ work'[LR].job = work[LR].job
    <3>1. "relate" \in StepsOf(LR) /\ work[LR].pc # "idle"
      BY <1>1, Steps
    <3> QED
      BY <1>4, <2>1, <2>3, <3>1, LRWorker, BeginKept
  <2>7. JobMessage(LR)' = m
    BY <2>6 DEF JobMessage, m
  <2>8. OwnMessage(LR)'
    BY <1>1, <2>1, <2>6, <2>7 DEF OwnMessage
  <2>9. Withdrawal(work[LR].trx)'
    BY <2>5, <2>6 DEF Withdrawal, Exists, IsRefund
  <2>10. "committed" \in work'[LR].seen => Due(work[LR].trx, JobMessage(LR))'
    BY <1>2, <2>5, <2>6, <2>7 DEF Due, Withdrawal, Exists, IsRefund, Committed,
       HasDelivered
  <2>11. Knows(LR)'
    BY <2>6, <2>8, <2>9, <2>10, KnowsOwn DEF KnowsLR
  <2>12. UNCHANGED outputs
    BY <1>1, <1>4 DEF outputs
  <2> QED
    BY <1>1, <2>6, <2>11, <2>12, LRWorker, MoveKept
<1>5. \/ Respond(m, "invalid") /\ Done(LR)
      \/ \E t \in found, n \in 0..MaxDeliver, s \in SUBSET Seen :
           /\ Begin(LR, "relate", t, n, s) /\ UNCHANGED responses
           /\ "committed" \in s =>
                n \in 1..MaxDeliver /\ transfers[<<t, n>>] = "COMMITTED"
  <2> DEFINE mine(t) == {n \in 1..MaxDeliver : transfers[<<t, n>>] # "none"}
             live(t) == IF quotes[t] = "live" THEN {"live"} ELSE {}
             read(t, n) == live(t) \cup IF transfers[<<t, n>>] = "COMMITTED"
                                          THEN {"committed"} ELSE {}
  <2>1. \/ Respond(m, "invalid") /\ Done(LR)
        \/ \E t \in found :
             /\ \/ Begin(LR, "relate", t, 0, live(t))
                \/ \E n \in mine(t) : Begin(LR, "relate", t, n, read(t, n))
             /\ UNCHANGED responses
    BY DEF LRFind
  <2>2. ASSUME NEW t \in found, UNCHANGED responses,
               NEW n \in {0}, Begin(LR, "relate", t, n, live(t))
        PROVE  \E k \in 0..MaxDeliver, s \in SUBSET Seen :
                 /\ Begin(LR, "relate", t, k, s)
                 /\ "committed" \notin s
    <3>1. n \in 0..MaxDeliver /\ live(t) \in SUBSET Seen /\ "committed" \notin live(t)
      BY BoundsAssumption DEF Seen
    <3> QED
      BY <2>2, <3>1
  <2>3. ASSUME NEW t \in found, UNCHANGED responses,
               NEW n \in mine(t), Begin(LR, "relate", t, n, read(t, n))
        PROVE  \E k \in 0..MaxDeliver, s \in SUBSET Seen :
                 /\ Begin(LR, "relate", t, k, s)
                 /\ "committed" \in s =>
                      k \in 1..MaxDeliver /\ transfers[<<t, k>>] = "COMMITTED"
    <3>1. /\ n \in 0..MaxDeliver /\ n \in 1..MaxDeliver
          /\ read(t, n) \in SUBSET Seen
          /\ "committed" \in read(t, n) => transfers[<<t, n>>] = "COMMITTED"
      BY BoundsAssumption DEF Seen
    <3> QED
      BY <2>3, <3>1
  <2> HIDE DEF found, mine, live, read
  <2> QED
    BY <2>1, <2>2, <2>3
<1> QED
  BY <1>3, <1>4, <1>5

\* The facts the steps after LRFind share.
LEMMA LRHolds ==
  ASSUME IInv, work[LR].pc \in {"relate", "cancel", "expireQuote", "insertRefund"}
  PROVE  /\ JobMessage(LR) \in MsgId /\ Stored(JobMessage(LR))
         /\ lpsMessages[JobMessage(LR)].type = "reversalRequest"
         /\ work[LR].trx \in TrxId
         /\ Withdrawal(work[LR].trx) /\ Exists(work[LR].trx)
         /\ OwnMessage(LR)
         /\ "committed" \in work[LR].seen => Due(work[LR].trx, JobMessage(LR))
         /\ work[LR].pc # "relate" => <<work[LR].trx, JobMessage(LR)>> \in links
<1>1. work[LR].pc # "idle" /\ work[LR].pc \notin Searching
  BY DEF Searching
<1> QED
  BY <1>1, LRWorker, MessageOf, TrxOf
  DEF IInv, Knowledge, KnowsLR, Withdrawal

\* A reversal that goes on with the same transaction keeps what it knows.
LEMMA LRGoesOn ==
  ASSUME IInv, Grows,
         work[LR].pc \in {"relate", "cancel", "expireQuote", "insertRefund"},
         work'[LR].pc \in {"relate", "cancel", "expireQuote", "insertRefund"},
         work'[LR].pc # "relate" =>
           <<work[LR].trx, JobMessage(LR)>> \in links',
         work'[LR].pc = "insertRefund" => "committed" \in work[LR].seen,
         work'[LR].trx = work[LR].trx, work'[LR].job = work[LR].job,
         work'[LR].seen = work[LR].seen
  PROVE  Knows(LR)'
<1> DEFINE t == work[LR].trx
           m == JobMessage(LR)
<1>1. /\ m \in MsgId /\ Stored(m) /\ t \in TrxId /\ Withdrawal(t) /\ Exists(t)
      /\ OwnMessage(LR)
      /\ "committed" \in work[LR].seen => Due(t, m)
  BY LRHolds
<1>2. /\ lpsMessages'[m] = lpsMessages[m]
      /\ transactions'[t].lpsKey = transactions[t].lpsKey
  BY <1>1, RowStays DEF Grows, MessagesStay
<1>3. JobMessage(LR)' = m
  BY DEF JobMessage
<1>4. OwnMessage(LR)'
  BY <1>1, <1>2, <1>3 DEF OwnMessage
<1> HIDE DEF t, m
<1>5. \A u \in TrxId : u = t => Withdrawal(u)'
  BY <1>1, KindsStay
<1>6. \A u \in TrxId, k \in MsgId :
        u = t /\ k = m /\ "committed" \in work[LR].seen => Due(u, k)'
  BY <1>1, DueStays
<1>7. work'[LR].trx = t
  BY DEF t
<1>8. Withdrawal(work[LR].trx)'
  BY <1>1, <1>5, <1>7 DEF Withdrawal, Exists, IsRefund
<1>9. "committed" \in work'[LR].seen => Due(work[LR].trx, JobMessage(LR))'
  BY <1>1, <1>3, <1>6, <1>7 DEF Due, Withdrawal, Exists, IsRefund, Committed,
     HasDelivered
<1>10. work'[LR].pc # "relate" => <<work'[LR].trx, JobMessage(LR)'>> \in links'
  BY <1>3, <1>7 DEF t, m
<1> QED
  BY <1>4, <1>8, <1>9, <1>10, KnowsOwn DEF KnowsLR

\* The advice and its transaction are of one terminal.
LEMMA LRRelateStep ==
  ASSUME IInv, LRRelate
  PROVE  IInv'
<1> DEFINE m == JobMessage(LR)
           t == work[LR].trx
<1>1. /\ UNCHANGED <<lpsMessages, queue, delivered, budget, transactions, quotes,
                     transfers, sent, responses>>
      /\ work[LR].pc = "relate" /\ Goto(LR, "cancel")
      /\ links' = links \cup {<<t, m>>}
  BY DEF LRRelate, Relate, environment, outputs, At
<1>2. /\ m \in MsgId /\ Stored(m) /\ t \in TrxId /\ Exists(t)
      /\ lpsMessages[m].type = "reversalRequest"
      /\ transactions[t].lpsKey = lpsMessages[m].lpsKey
  BY <1>1, LRHolds DEF OwnMessage
<1>3. Grows /\ NoneBecomesAuthSent
  BY <1>1, OnlyAdds
<1>4. LinksOK'
  BY <1>1, <1>2, <1>3, LinksKept
<1>5. /\ work' \in [WorkerQueue -> Worker] /\ Only(LR) /\ WorkerOK(LR)'
      /\ work'[LR].pc = "cancel" /\ work'[LR].trx = t
      /\ work'[LR].job = work[LR].job /\ work'[LR].seen = work[LR].seen
  <2>1. "cancel" \in StepsOf(LR) /\ "relate" \notin Searching
    BY Steps DEF Searching
  <2> QED
    BY <1>1, <1>3, <2>1, LRWorker, GotoKept
<1>6. Knows(LR)'
  BY <1>1, <1>3, <1>5, LRGoesOn
<1>7. TypeOK'
  BY <1>1, <1>2, <1>5 DEF IInv, TypeOK
<1> QED
  BY <1>1, <1>3, <1>4, <1>5, <1>6, <1>7, LRWorker, StepKept

\* The transaction is cancelled, and a refund goes on only if it is due.
LEMMA LRCancelStep ==
  ASSUME IInv, LRCancel
  PROVE  IInv'
<1> DEFINE t == work[LR].trx
           state == "transactionCancelled"
<1>1. /\ UNCHANGED <<environment, links, quotes, transfers, outputs>>
      /\ work[LR].pc = "cancel" /\ work[LR].pc \notin Searching
      /\ SetState(t, state)
      /\ state \in TransactionState /\ state # "authSent"
      /\ \/ Done(LR)
         \/ Goto(LR, "expireQuote")
         \/ "committed" \in work[LR].seen /\ Goto(LR, "insertRefund")
  BY DEF LRCancel, LRRefundOrDone, At, TransactionState, Searching
<1>2. t \in TrxId /\ Withdrawal(t) /\ Exists(t) /\ <<t, JobMessage(LR)>> \in links
  BY <1>1, LRHolds
<1>3. CASE Done(LR)
  BY <1>1, <1>2, <1>3, LRWorker, StateDoneKept
<1>4. ASSUME NEW next \in {"expireQuote", "insertRefund"}, Goto(LR, next),
             next = "insertRefund" => "committed" \in work[LR].seen
      PROVE  IInv'
  <2>1. /\ next \in StepsOf(LR) /\ next \in Pc /\ next # "putTransfers"
    BY Steps, LRWorker, StepsAreSteps
  <2>2. /\ work'[LR].pc = next /\ work'[LR].trx = t
        /\ work'[LR].job = work[LR].job /\ work'[LR].seen = work[LR].seen
    BY <1>4, <2>1, LRWorker, GotoWork DEF IInv
  <2>3. ASSUME Grows PROVE Knows(LR)'
    <3>1. <<work[LR].trx, JobMessage(LR)>> \in links'
      BY <1>2, <2>3 DEF Grows
    <3> QED
      BY <1>1, <1>4, <2>2, <2>3, <3>1, LRGoesOn
  <2> QED
    BY <1>1, <1>2, <1>4, <2>1, <2>3, LRWorker, StateGotoKept
<1> QED
  BY <1>1, <1>3, <1>4

\* The quote is expired, and a refund goes on only if it is due.
LEMMA LRExpireQuoteStep ==
  ASSUME IInv, LRExpireQuote
  PROVE  IInv'
<1>1. /\ UNCHANGED <<environment, transactions, links, transfers, sent>>
      /\ UNCHANGED <<lpsMessages, transactions, transfers, delivered>>
      /\ UNCHANGED <<links, sent, responses>>
      /\ work[LR].pc = "expireQuote" /\ work[LR].pc \notin Searching
      /\ quotes' = [quotes EXCEPT ![work[LR].trx] = "expired"]
      /\ \/ Done(LR)
         \/ "committed" \in work[LR].seen /\ Goto(LR, "insertRefund")
  BY DEF LRExpireQuote, LRRefundOrDone, At, Searching, environment, outputs
<1>2. Grows
  BY <1>1, OnlyAdds
<1>3. /\ quotes' \in [TrxId -> QuoteState]
      /\ responses \subseteq responses' /\ responses' \in SUBSET Response
      /\ responses' = responses
  BY <1>1 DEF IInv, TypeOK, QuoteState
<1>4. /\ work' \in [WorkerQueue -> Worker] /\ Only(LR) /\ WorkerOK(LR)'
      /\ Knows(LR)'
  <2>1. CASE Done(LR)
    BY <2>1, LRWorker, DoneKept
  <2>2. CASE "committed" \in work[LR].seen /\ Goto(LR, "insertRefund")
    <3>1. "insertRefund" \in StepsOf(LR)
      BY Steps
    <3>2. /\ work' \in [WorkerQueue -> Worker] /\ Only(LR) /\ WorkerOK(LR)'
          /\ work'[LR].pc = "insertRefund" /\ work'[LR].trx = work[LR].trx
          /\ work'[LR].job = work[LR].job /\ work'[LR].seen = work[LR].seen
      BY <1>1, <1>2, <2>2, <3>1, LRWorker, GotoKept
    <3>3. <<work[LR].trx, JobMessage(LR)>> \in links'
      BY <1>1, LRHolds
    <3>4. Knows(LR)'
      BY <1>1, <1>2, <2>2, <3>2, <3>3, LRGoesOn
    <3> QED
      BY <3>2, <3>4
  <2> QED
    BY <1>1, <2>1, <2>2
<1> QED
  BY <1>1, <1>3, <1>4, LRWorker, AnswerKept

\* The refund of a committed withdrawal its terminal takes back.
LEMMA LRInsertRefundStep ==
  ASSUME IInv, LRInsertRefund
  PROVE  IInv'
<1> DEFINE m == JobMessage(LR)
           o == work[LR].trx
           row == [NoTransaction EXCEPT
                     !.state = "transactionReceived",
                     !.lpsKey = transactions[o].lpsKey,
                     !.fspId = TRUE, !.transactionId = TRUE,
                     !.expired = transactions[o].expired,
                     !.original = o]
<1>1. PICK t \in NextTrx :
        /\ transactions' = [transactions EXCEPT ![t] = row]
        /\ Begin(LR, "relateRefund", t, 0, {})
  BY DEF LRInsertRefund
<1>2. /\ UNCHANGED <<lpsMessages, queue, delivered, budget, links, quotes,
                     transfers, sent, responses>>
      /\ work[LR].pc = "insertRefund"
  BY DEF LRInsertRefund, environment, outputs, At
<1>3. /\ m \in MsgId /\ lpsMessages[m].type = "reversalRequest"
      /\ o \in TrxId /\ Exists(o) /\ ~IsRefund(o)
      /\ transactions[o].lpsKey = lpsMessages[m].lpsKey
      /\ <<o, m>> \in links /\ Due(o, m)
  BY <1>2, LRHolds DEF IInv, Knowledge, KnowsLR, Withdrawal, OwnMessage
<1>4. MayRefund(o, transactions[o].lpsKey)
  BY <1>3 DEF MayRefund, Due, Linked
<1>5. transactions[o] \in Transaction /\ 0 \notin TrxId
  BY <1>3 DEF IInv, TypeOK, TrxId
<1> HIDE DEF o
<1>6. /\ row \in Transaction /\ row.state = "transactionReceived"
      /\ row.lpsKey = transactions[o].lpsKey /\ row.payer = None
      /\ row.original = o
  BY <1>3, <1>5 DEF Transaction, TransactionState, NoTransaction
<1> HIDE DEF row
<1>7. /\ t \in TrxId /\ ~Exists(t)
      /\ transactions' \in [TrxId -> Transaction]
      /\ RowsStay
      /\ \A u \in TrxId : u # t => transactions'[u] = transactions[u]
      /\ transactions'[t] = row
      /\ NoneBecomesAuthSent
  BY <1>1, <1>6, InsertStep DEF IInv
<1>8. o # 0
  BY <1>3, <1>5
<1>9. TransactionsOK'
  BY <1>6, <1>7, <1>8
  DEF IInv, TransactionsOK, Exists, Withdrawal, Refund, IsRefund
<1>10. Grows
  BY <1>2, <1>7 DEF Grows, MessagesStay, TransfersStay, DeliveredStay, HasDelivered
<1>11. /\ work' \in [WorkerQueue -> Worker] /\ Only(LR)
       /\ work'[LR].pc = "relateRefund" /\ work'[LR].trx = t
       /\ work'[LR].job = work[LR].job /\ WorkerOK(LR)'
  <2>1. /\ "relateRefund" \in StepsOf(LR) /\ 0 \in 0..MaxDeliver
        /\ {} \in SUBSET Seen
    BY Steps, BoundsAssumption
  <2>2. /\ Begin(LR, "relateRefund", t, 0, {}) /\ work[LR].pc # "idle"
        /\ t \in TrxId
    BY <1>1, <1>2, <1>7
  <2> QED
    BY <1>10, <2>1, <2>2, LRWorker, BeginKept
<1>12. TypeOK'
  BY <1>2, <1>7, <1>11 DEF IInv, TypeOK
<1>13. RefundOnlyCommitted'
  <2>1. ASSUME NEW u \in TrxId, IsRefund(u)', ~Refund(u)
        PROVE  MayRefund(transactions'[u].original, transactions'[u].lpsKey)
    <3>1. u = t
      BY <1>7, <2>1, RefundsExist DEF IsRefund
    <3> QED
      BY <1>4, <1>6, <1>7, <3>1
  <2> QED
    BY <1>9, <1>10, <1>12, <2>1, RefundsKept
<1>14. Knows(LR)'
  <2>1. JobMessage(LR)' = m
    BY <1>11 DEF JobMessage
  <2>2. transactions'[work'[LR].trx].lpsKey = lpsMessages[m].lpsKey
    BY <1>3, <1>6, <1>7, <1>11
  <2>3. OwnMessage(LR)'
    BY <1>2, <2>1, <2>2 DEF OwnMessage
  <2>4. Refund(work[LR].trx)'
    BY <1>6, <1>7, <1>8, <1>11 DEF Refund, Exists, IsRefund
  <2> QED
    BY <1>11, <2>3, <2>4, KnowsOwn DEF KnowsLR
<1> QED
  BY <1>2, <1>7, <1>9, <1>10, <1>11, <1>12, <1>13, <1>14, LRWorker, StepKept

\* What the worker holds once it has made the refund.
LEMMA LRRefundHolds ==
  ASSUME IInv, work[LR].pc \in {"relateRefund", "insertQuote", "postQuotes"}
  PROVE  /\ JobMessage(LR) \in MsgId /\ Stored(JobMessage(LR))
         /\ lpsMessages[JobMessage(LR)].type = "reversalRequest"
         /\ work[LR].trx \in TrxId /\ Refund(work[LR].trx)
         /\ OwnMessage(LR)
<1>1. work[LR].pc # "idle" /\ work[LR].pc \notin Searching
  BY DEF Searching
<1> QED
  BY <1>1, LRWorker, MessageOf, TrxOf DEF IInv, Knowledge, KnowsLR

\* A reversal that goes on with the refund keeps what it knows.
LEMMA LRRefundGoesOn ==
  ASSUME IInv, UNCHANGED <<lpsMessages, transactions>>,
         work[LR].pc \in {"relateRefund", "insertQuote", "postQuotes"},
         work'[LR].pc \in {"insertQuote", "postQuotes"},
         work'[LR].trx = work[LR].trx, work'[LR].job = work[LR].job
  PROVE  Knows(LR)'
<1>1. JobMessage(LR)' = JobMessage(LR)
  BY DEF JobMessage
<1>2. OwnMessage(LR)'
  BY <1>1, LRRefundHolds DEF OwnMessage
<1>3. Refund(work[LR].trx)'
  BY LRRefundHolds DEF Refund, Exists, IsRefund
<1> QED
  BY <1>2, <1>3, KnowsOwn DEF KnowsLR

\* A refund is linked to the advice that asked for it.
LEMMA LRRelateRefundStep ==
  ASSUME IInv, LRRelateRefund
  PROVE  IInv'
<1> DEFINE m == JobMessage(LR)
           t == work[LR].trx
<1>1. /\ UNCHANGED <<lpsMessages, queue, delivered, budget, transactions, quotes,
                     transfers, sent, responses>>
      /\ UNCHANGED <<lpsMessages, transactions>>
      /\ work[LR].pc = "relateRefund" /\ Goto(LR, "insertQuote")
      /\ links' = links \cup {<<t, m>>}
  BY DEF LRRelateRefund, Relate, environment, outputs, At
<1>2. /\ m \in MsgId /\ Stored(m) /\ t \in TrxId /\ Exists(t)
      /\ lpsMessages[m].type = "reversalRequest"
      /\ transactions[t].lpsKey = lpsMessages[m].lpsKey
  BY <1>1, LRRefundHolds DEF OwnMessage, Refund
<1>3. Grows /\ NoneBecomesAuthSent
  BY <1>1, OnlyAdds
<1>4. LinksOK'
  BY <1>1, <1>2, <1>3, LinksKept
<1>5. /\ work' \in [WorkerQueue -> Worker] /\ Only(LR) /\ WorkerOK(LR)'
      /\ work'[LR].pc = "insertQuote" /\ work'[LR].trx = t
      /\ work'[LR].job = work[LR].job
  <2>1. "insertQuote" \in StepsOf(LR) /\ "relateRefund" \notin Searching
    BY Steps DEF Searching
  <2> QED
    BY <1>1, <1>3, <2>1, LRWorker, GotoKept
<1>6. Knows(LR)'
  BY <1>1, <1>5, LRRefundGoesOn
<1>7. TypeOK'
  BY <1>1, <1>2, <1>5 DEF IInv, TypeOK
<1> QED
  BY <1>1, <1>3, <1>4, <1>5, <1>6, <1>7, LRWorker, StepKept

\* The quote of a refund claims nothing.
LEMMA LRInsertQuoteStep ==
  ASSUME IInv, LRInsertQuote
  PROVE  IInv'
<1>1. /\ UNCHANGED <<environment, transactions, links, transfers, sent>>
      /\ UNCHANGED <<lpsMessages, transactions, transfers, delivered>>
      /\ UNCHANGED <<links, sent, responses>>
      /\ UNCHANGED <<lpsMessages, transactions>>
      /\ work[LR].pc = "insertQuote" /\ work[LR].pc \notin Searching
      /\ quotes' = [quotes EXCEPT ![work[LR].trx] = "expired"]
      /\ Goto(LR, "postQuotes")
  BY DEF LRInsertQuote, At, Searching, environment, outputs
<1>2. Grows
  BY <1>1, OnlyAdds
<1>3. /\ quotes' \in [TrxId -> QuoteState]
      /\ responses \subseteq responses' /\ responses' \in SUBSET Response
      /\ responses' = responses
  BY <1>1 DEF IInv, TypeOK, QuoteState
<1>4. /\ work' \in [WorkerQueue -> Worker] /\ Only(LR) /\ WorkerOK(LR)'
      /\ work'[LR].pc = "postQuotes" /\ work'[LR].trx = work[LR].trx
      /\ work'[LR].job = work[LR].job
  <2>1. "postQuotes" \in StepsOf(LR)
    BY Steps
  <2> QED
    BY <1>1, <1>2, <2>1, LRWorker, GotoKept
<1>5. Knows(LR)'
  BY <1>1, <1>4, LRRefundGoesOn
<1> QED
  BY <1>1, <1>3, <1>4, <1>5, LRWorker, AnswerKept

\* The quote is asked for a refund.
LEMMA LRPostQuotesStep ==
  ASSUME IInv, LRPostQuotes
  PROVE  IInv'
<1>1. "postQuotes" \in CallStep
  BY DEF CallStep, TransactionCall
<1> QED
  BY <1>1, LRWorker, CallDoneKept DEF LRPostQuotes

\* The catch declares the advice invalid, which no one has to earn.
LEMMA LRThrowStep ==
  ASSUME IInv, LRThrow
  PROVE  IInv'
<1>1. /\ Throw(LR, {}, {<<JobMessage(LR), "invalid">>})
      /\ work[LR].pc # "idle"
  BY DEF LRThrow, Throw, At
<1>2. JobMessage(LR) \in MsgId /\ Stored(JobMessage(LR))
  BY <1>1, LRWorker, MessageOf
<1> QED
  BY <1>1, <1>2, LRWorker, ThrowKept DEF Response

\* Every step of legacyReversalHandler.
LEMMA LegacyReversalHandlerStep ==
  ASSUME IInv, LegacyReversalHandler
  PROVE  IInv'
BY LRCheckReplayStep, LRFindStep, LRRelateStep, LRCancelStep, LRExpireQuoteStep,
   LRInsertRefundStep, LRRelateRefundStep, LRInsertQuoteStep, LRPostQuotesStep,
   LRThrowStep DEF LegacyReversalHandler

-----------------------------------------------------------------------------
(* quoteResponseHandler *)

\* The answer is about a refund the hub has been asked to quote.
LEMMA QXUpdateQuoteStep ==
  ASSUME IInv, QXUpdateQuote
  PROVE  IInv'
<1> DEFINE t == work[QX].job[2]
<1>1. /\ UNCHANGED <<environment, transactions, links, transfers, sent>>
      /\ UNCHANGED <<lpsMessages, transactions, transfers, delivered>>
      /\ UNCHANGED <<links, sent, responses>>
      /\ work[QX].pc = "start"
  BY DEF QXUpdateQuote, At, environment, outputs
<1>2. /\ t \in TrxId /\ Refund(t) /\ <<"postQuotes", t>> \in sent
  BY <1>1, HubTrxOf, QXWorker
<1>3. Grows
  BY <1>1, OnlyAdds
<1>4. /\ responses \subseteq responses' /\ responses' \in SUBSET Response
      /\ responses' = responses
  BY <1>1 DEF IInv, TypeOK
<1>5. CASE Done(QX) /\ UNCHANGED quotes
  <2>1. quotes' \in [TrxId -> QuoteState]
    BY <1>5 DEF IInv, TypeOK
  <2>2. /\ work' \in [WorkerQueue -> Worker] /\ Only(QX) /\ WorkerOK(QX)'
        /\ Knows(QX)'
    BY <1>5, QXWorker, DoneKept
  <2> QED
    BY <1>1, <1>4, <2>1, <2>2, QXWorker, AnswerKept
<1>6. ASSUME quotes' = [quotes EXCEPT ![t] = "live"],
             NEW n \in {0}, NEW s \in {{}}, Begin(QX, "insertTransfer", t, n, s)
      PROVE  IInv'
  <2>1. quotes' \in [TrxId -> QuoteState]
    BY <1>6 DEF IInv, TypeOK, QuoteState
  <2> HIDE DEF t
  <2>2. \A u \in TrxId : u = t => Refund(u)' /\ <<"postQuotes", u>> \in sent
    BY <1>2, <1>3, KindsStay
  <2>3. \A u \in TrxId : u = t => Begin(QX, "insertTransfer", u, n, s)
    BY <1>6
  <2>4. /\ "insertTransfer" \in StepsOf(QX) /\ n \in 0..MaxDeliver
        /\ s \in SUBSET Seen /\ work[QX].pc # "idle"
    BY <1>1, Steps, BoundsAssumption
  <2>5. /\ work' \in [WorkerQueue -> Worker] /\ Only(QX) /\ WorkerOK(QX)'
        /\ work'[QX].pc = "insertTransfer"
    BY <1>2, <1>3, <2>2, <2>3, <2>4, QXWorker, BeginKept
  <2>6. Knows(QX)'
    BY <2>5, KnowsOwn DEF KnowsQX
  <2> QED
    BY <1>1, <1>4, <2>1, <2>5, <2>6, QXWorker, AnswerKept
<1> QED
  BY <1>5, <1>6 DEF QXUpdateQuote

\* The new transfer names a refund that exists.
LEMMA QXInsertTransferStep ==
  ASSUME IInv, QXInsertTransfer
  PROVE  IInv'
<1> DEFINE t == work[QX].trx
<1>1. /\ UNCHANGED <<transactions, links, quotes, lpsMessages, queue, delivered,
                     budget, sent, responses>>
      /\ work[QX].pc = "insertTransfer"
  BY DEF QXInsertTransfer, At, environment, outputs
<1>2. /\ t \in TrxId /\ Refund(t) /\ <<"postQuotes", t>> \in sent
  BY <1>1, TrxOf, QXWorker DEF Searching
<1>3. PICK n \in 1..MaxDeliver :
        /\ transfers' = [transfers EXCEPT ![<<t, n>>] = "RESERVED"]
        /\ Begin(QX, "postTransfers", t, n, {})
  BY DEF QXInsertTransfer
<1> DEFINE x == <<t, n>>
<1>4. x \in TransferId /\ x[1] = t
  BY <1>2 DEF TransferId
<1>5. /\ transfers' \in [TransferId -> TransferState]
      /\ transfers'[x] = "RESERVED"
      /\ \A y \in TransferId : y # x => transfers'[y] = transfers[y]
  BY <1>3, <1>4 DEF IInv, TypeOK, TransferState
<1>6. Grows /\ NoneBecomesAuthSent
  BY <1>1, <1>4, <1>5 DEF Grows, RowsStay, MessagesStay, TransfersStay,
     DeliveredStay, HasDelivered, NoneBecomesAuthSent, Exists
<1>7. /\ work' \in [WorkerQueue -> Worker] /\ Only(QX) /\ WorkerOK(QX)'
      /\ work'[QX].pc = "postTransfers"
      /\ work'[QX].trx = t /\ work'[QX].nth = n
  <2>1. /\ "postTransfers" \in StepsOf(QX) /\ {} \in SUBSET Seen
        /\ n \in 0..MaxDeliver /\ work[QX].pc # "idle"
    BY <1>1, Steps, BoundsAssumption
  <2> HIDE DEF t
  <2>2. \A u \in TrxId : u = t => Refund(u)' /\ <<"postQuotes", u>> \in sent
    BY <1>2, <1>6, KindsStay
  <2>3. \A u \in TrxId, s \in SUBSET Seen :
          u = t /\ s = {} => Begin(QX, "postTransfers", u, n, s)
    BY <1>3
  <2>4. ASSUME NEW u \in TrxId, NEW s \in SUBSET Seen,
               Begin(QX, "postTransfers", u, n, s),
               Refund(u)', <<"postQuotes", u>> \in sent
        PROVE  /\ work' \in [WorkerQueue -> Worker] /\ Only(QX) /\ WorkerOK(QX)'
               /\ work'[QX].pc = "postTransfers"
               /\ work'[QX].trx = u /\ work'[QX].nth = n
    BY <1>6, <2>1, <2>4, QXWorker, BeginKept
  <2> QED
    BY <1>2, <2>1, <2>2, <2>3, <2>4
<1>8. WorkTransfer(QX)' \in TransferId
  BY <1>4, <1>7 DEF WorkTransfer
<1>9. Knows(QX)'
  BY <1>8, KnowsOwn DEF KnowsQX
<1> HIDE DEF x
<1>10. TransfersOK'
  <2>1. SUFFICES ASSUME NEW y \in TransferId
                 PROVE  /\ transfers'[y] # "none" => Exists(y[1])'
                        /\ transfers'[y] = "COMMITTED" => Committed(y)'
    BY DEF TransfersOK
  <2>2. /\ transfers'[y] # "none" => Exists(y[1])
        /\ transfers'[y] = "COMMITTED" => Committed(y)
    BY <1>2, <1>4, <1>5 DEF IInv, TransfersOK, Refund
  <2>3. y[1] \in TrxId
    BY DEF TransferId
  <2> QED
    BY <1>6, <2>2, <2>3, RowStays, CommittedStays
<1>11. SentOK'
  <2>1. \A u \in TrxId :
          transactions'[u].state = "authSent" =>
            transactions[u].state = "authSent" \/ (Exists(u) /\ Shown(u))
    BY <1>1
  <2>2. MayCall(sent' \ sent)
    BY <1>1 DEF MayCall
  <2> QED
    BY <1>6, <2>1, <2>2, SentKept
\* The worker of TransferRequests is about a withdrawal, and so not about x.
<1>12. FulfilledOnce'
  <2>1. work'[TR] = work[TR]
    BY <1>7, QXWorker, QueueNames DEF Only
  <2>2. ASSUME work[TR].pc = "putTransfers"
        PROVE  transfers'[WorkTransfer(TR)] = transfers[WorkTransfer(TR)]
    <3>1. /\ WorkTransfer(TR) \in TransferId /\ Withdrawal(work[TR].trx)
      BY <2>2, TrxOf, QueueNames DEF IInv, Knowledge, KnowsTR, Searching
    <3>2. WorkTransfer(TR) # x
      BY <1>2, <1>4, <3>1 DEF WorkTransfer, Withdrawal, Refund
    <3> QED
      BY <1>5, <3>1, <3>2
  <2>3. WorkTransfer(TR)' = WorkTransfer(TR)
    BY <2>1 DEF WorkTransfer
  <2> QED
    BY <1>1, <1>11, <2>1, <2>2, <2>3, FulfilledKept
<1>13. TypeOK'
  BY <1>1, <1>5, <1>7 DEF IInv, TypeOK
<1> QED
  BY <1>1, <1>6, <1>7, <1>9, <1>10, <1>11, <1>12, <1>13, QXWorker, StepKept

\* Money leaves for a refund that has been quoted.
LEMMA QXPostTransfersStep ==
  ASSUME IInv, QXPostTransfers
  PROVE  IInv'
<1>1. "postTransfers" \in CallStep
  BY DEF CallStep, TransferCall
<1> QED
  BY <1>1, QXWorker, CallDoneKept DEF QXPostTransfers

\* The catch only logs.
LEMMA QXThrowStep ==
  ASSUME IInv, QXThrow
  PROVE  IInv'
BY QXWorker, QuietThrowKept DEF QXThrow

\* Every step of quoteResponseHandler.
LEMMA QuoteResponseHandlerStep ==
  ASSUME IInv, QuoteResponseHandler
  PROVE  IInv'
BY QXUpdateQuoteStep, QXInsertTransferStep, QXPostTransfersStep, QXThrowStep
DEF QuoteResponseHandler
=============================================================================
