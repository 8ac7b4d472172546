-------------------------- MODULE ErrorFlowProofs --------------------------
(***************************************************************************)
(* The orchestrator with the error handler at work keeps what Orchestrator *)
(* keeps: its steps take nothing away from the invariant, from the history *)
(* and from the promise made to customers.                                 *)
(***************************************************************************)
EXTENDS ErrorFlow, CashProofs

-----------------------------------------------------------------------------
(* The worker of the error handler. *)

\* EF is the one queue none of the other workers has.
LEMMA ErrorQueue ==
  EF \in Queue /\ EF \notin WorkerQueue /\ EF \notin LegacyQueue
BY DEF EF, Queue, WorkerQueue, LegacyQueue

\* The transaction found is the one the hub has reported the error about: a
\* refund, or a withdrawal whose transfer has been fulfilled.
LEMMA ErrorIsTold ==
  ASSUME IInv, ErrorWorkOK, errorWork.pc # "idle",
         NEW t \in ErrorTransaction(errorWork.job)
  PROVE  /\ t \in TrxId
         /\ ErrorTold(t)
         /\ Refund(t)
              \/ (Withdrawal(t) /\ Fulfilled(t) /\ errorWork.job[1] # "quoteError")
<1>1. PICK h : h = errorWork.job
  OBVIOUS
<1>2. h \in HubMessage /\ HasDelivered(h) /\ t \in ErrorTransaction(h)
  BY <1>1, ErrorQueue DEF ErrorWorkOK, Justified
<1>3. CASE h[1] = "quoteError"
  <2>1. h[2] \in TrxId /\ h = <<"quoteError", h[2]>>
    BY <1>2, <1>3 DEF HubMessage, AboutTransfer
  <2>2. t = h[2]
    BY <1>2, <1>3 DEF ErrorTransaction
  <2>3. HasDelivered(<<"quoteError", t>>)
    BY <1>2, <2>1, <2>2
  <2> QED
    BY <2>1, <2>2, <2>3, QuoteErrorCalls DEF ErrorTold
<1>4. CASE h[1] = "transferError"
  <2>1. h[2] \in TransferId /\ h = <<"transferError", h[2]>>
    BY <1>2, <1>4 DEF HubMessage, AboutTransaction
  <2>2. PICK u \in TrxId, n \in 1..MaxDeliver : h[2] = <<u, n>>
    BY <2>1 DEF TransferId
  <2>3. t = h[2][1]
    BY <1>2, <1>4 DEF ErrorTransaction
  <2>4. t = u
    BY <2>2, <2>3
  <2>5. HasDelivered(<<"transferError", <<t, n>>>>)
    BY <1>2, <2>1, <2>2, <2>4
  <2>6. \/ Withdrawal(t) /\ <<"putTransfers", <<t, n>>>> \in sent
        \/ Refund(t)
    BY <2>4, <2>5, TransferErrorCalls
  <2> QED
    BY <1>1, <1>4, <2>4, <2>5, <2>6 DEF ErrorTold, Fulfilled
<1>5. CASE h[1] \notin {"quoteError", "transferError"}
  BY <1>2, <1>5 DEF ErrorTransaction
<1> QED
  BY <1>3, <1>4, <1>5

-----------------------------------------------------------------------------
(* Its steps keep the invariant. *)

\* It takes the first error of its queue, which is justified.
LEMMA EFTakeStep ==
  ASSUME IInv, EFTake
  PROVE  IInv' /\ ErrorWorkOK'
<1>1. /\ queue[EF] # <<>> /\ queue' = [queue EXCEPT ![EF] = Tail(@)]
      /\ errorWork'.job = Head(queue[EF])
      /\ UNCHANGED <<lpsMessages, transactions, links, quotes, transfers>>
      /\ UNCHANGED <<work, sent, responses, delivered, budget>>
  BY DEF EFTake, tables, outputs
<1>2. /\ queue \in [Queue -> Seq(Job)] /\ EF \in Queue
      /\ \A p \in Queue : \A i \in 1..Len(queue[p]) : Justified(p, queue[p][i])
  BY ErrorQueue DEF IInv, TypeOK, QueuesOK
<1>3. /\ queue[EF] \in Seq(Job)
      /\ queue' \in [Queue -> Seq(Job)]
      /\ queue'[EF] = Tail(queue[EF])
      /\ \A p \in Queue : p # EF => queue'[p] = queue[p]
  BY <1>1, <1>2
<1>4. Grows /\ NoneBecomesAuthSent
  BY <1>1, OnlyAdds
<1>5. \A p \in Queue : \A i \in 1..Len(queue[p]) :
        \A j : j = queue[p][i] => Justified(p, j)'
  BY <1>2, <1>4, JustifiedStays
<1>6. QueuesOK'
  <2>1. SUFFICES ASSUME NEW p \in Queue, NEW i \in 1..Len(queue'[p])
                 PROVE  Justified(p, queue[p][i])'
    BY DEF QueuesOK
  <2>2. CASE p = EF
    <3>1. queue[p] \in Seq(Job) /\ queue[p] # <<>> /\ queue'[p] = Tail(queue[p])
      BY <1>1, <1>3, <2>2
    <3>2. i + 1 \in 1..Len(queue[p]) /\ queue'[p][i] = queue[p][i + 1]
      BY <3>1, TailElements
    <3> QED
      BY <1>5, <3>2 DEF Justified
  <2>3. CASE p # EF
    BY <1>3, <1>5, <2>3 DEF Justified
  <2> QED
    BY <2>2, <2>3
<1>7. \A j : j = Head(queue[EF]) => Justified(EF, j)'
  <2>1. 1 \in 1..Len(queue[EF]) /\ Head(queue[EF]) = queue[EF][1]
    BY <1>1, <1>3
  <2> QED
    BY <1>2, <1>5, <2>1
<1>8. WorkersOK' /\ Knowledge'
  BY <1>1, <1>4, ResidentsKept
<1>9. TypeOK'
  BY <1>1, <1>3 DEF IInv, TypeOK
<1>10. MessagesOK' /\ TransactionsOK' /\ DeliveredOK'
  BY <1>1, <1>4, MessagesKept, TransactionsKept, DeliveredKept
<1>11. \A t \in TrxId : IsRefund(t)' => Refund(t)
  BY <1>1, RefundsExist DEF IsRefund
<1>12. IInv'
  BY <1>1, <1>4, <1>6, <1>8, <1>9, <1>10, <1>11, EnvironmentKept
<1> QED
  BY <1>1, <1>7, <1>12 DEF Justified, ErrorWorkOK

\* An await of it throws.
LEMMA EFThrowStep ==
  ASSUME IInv, EFThrow
  PROVE  IInv' /\ ~Undisturbed'
<1>1. /\ budget.faults > 0
      /\ budget' = [budget EXCEPT !.faults = @ - 1]
      /\ UNCHANGED <<lpsMessages, transactions, links, quotes, transfers>>
      /\ UNCHANGED <<queue, work, sent, responses, delivered>>
  BY DEF EFThrow, tables, outputs
<1>2. budget \in Budget
  BY DEF IInv, TypeOK
<1>3. budget' \in Budget /\ ~Undisturbed'
  BY <1>1, <1>2, BoundsAssumption DEF Budget, Undisturbed
<1>4. Grows /\ NoneBecomesAuthSent
  BY <1>1, OnlyAdds
<1>5. MessagesOK' /\ TransactionsOK' /\ QueuesOK' /\ DeliveredOK'
  BY <1>1, <1>4, MessagesKept, TransactionsKept, QueuesKept, DeliveredKept
<1>6. WorkersOK' /\ Knowledge'
  BY <1>1, <1>4, ResidentsKept
<1>7. TypeOK'
  BY <1>1, <1>3 DEF IInv, TypeOK
<1>8. \A u \in TrxId : IsRefund(u)' => Refund(u)
  BY <1>1, RefundsExist DEF IsRefund
<1>9. IInv'
  BY <1>1, <1>4, <1>5, <1>6, <1>7, <1>8, EnvironmentKept
<1> QED
  BY <1>3, <1>9

\* It cancels the transaction.
LEMMA EFCancelStep ==
  ASSUME IInv, ErrorWorkOK, EFCancel
  PROVE  IInv' /\ OwnersKept
<1>1. PICK t \in ErrorTransaction(errorWork.job) :
        SetState(t, "transactionCancelled")
  BY DEF EFCancel
<1>2. /\ errorWork.pc # "idle"
      /\ UNCHANGED <<environment, links, quotes, transfers, outputs>>
      /\ UNCHANGED <<lpsMessages, queue, delivered, budget>>
      /\ UNCHANGED <<links, quotes, transfers, work, sent, responses>>
  BY DEF EFCancel, environment, outputs
<1>3. t \in TrxId /\ Exists(t)
  BY <1>2, ErrorIsTold DEF Refund, Withdrawal
<1>4. PICK state \in TransactionState : state = "transactionCancelled"
  BY DEF TransactionState
<1>5. /\ Grows /\ NoneBecomesAuthSent
      /\ transactions' \in [TrxId -> Transaction]
      /\ TransactionsOK'
      /\ \A u \in TrxId : IsRefund(u)' => Refund(u)
  BY <1>1, <1>2, <1>3, <1>4, StateKept
<1>6. MessagesOK' /\ QueuesOK' /\ DeliveredOK'
  BY <1>2, <1>5, MessagesKept, QueuesKept, DeliveredKept
<1>7. WorkersOK' /\ Knowledge'
  BY <1>2, <1>5, ResidentsKept
<1>8. TypeOK'
  BY <1>2, <1>5 DEF IInv, TypeOK
<1>9. IInv'
  BY <1>2, <1>5, <1>6, <1>7, <1>8, EnvironmentKept
<1>10. OwnersKept
  BY <1>1, SetStateOwners
<1> QED
  BY <1>9, <1>10

\* It declares a message of the transaction invalid.
LEMMA EFAnswerStep ==
  ASSUME IInv, EFAnswer
  PROVE  IInv'
<1>1. /\ UNCHANGED <<environment, transactions, links, transfers, sent>>
      /\ UNCHANGED <<quotes, work>>
  BY DEF EFAnswer
<1>2. UNCHANGED responses \/ \E m \in MsgId : Stored(m) /\ Respond(m, "invalid")
  <2>1. ASSUME NEW t, NEW type, NEW m \in Linked(t, type), Respond(m, "invalid")
        PROVE  \E k \in MsgId : Stored(k) /\ Respond(k, "invalid")
    BY <2>1, LinkedType
  <2> QED
    BY <2>1 DEF EFAnswer, ErrorMessages
<1>3. /\ TRR \in WorkerQueue /\ TRR # TR /\ Only(TRR) /\ Knows(TRR)'
      /\ work' \in [WorkerQueue -> Worker]
  BY <1>1, QueueNames, KnowsOwn DEF Only, IInv, TypeOK, TRR, TR
<1>4. /\ quotes' \in [TrxId -> QuoteState]
      /\ responses \subseteq responses' /\ responses' \in SUBSET Response
      /\ \A m \in MsgId, r \in {"approved", "invalid"} :
           <<m, r>> \in responses' /\ <<m, r>> \notin responses =>
             Stored(m) /\ (r = "approved" => Earned(m))
  BY <1>1, <1>2 DEF IInv, TypeOK, Respond, Response
<1>5. WorkerOK(TRR)'
  <2>1. Grows
    BY <1>1, <1>4, OnlyAdds DEF environment
  <2> QED
    BY <1>1, <1>3, <2>1, WorkerStays
<1> QED
  BY <1>1, <1>3, <1>4, <1>5, AnswerKept

-----------------------------------------------------------------------------
(* Its steps keep the history. *)

\* The message of a refund or of a fulfilled withdrawal is declared invalid:
\* the hub has reported the error, and so committed nothing.
LEMMA ErrorAnswerRemembered ==
  ASSUME IInv, Remembered, TransfersOnce, NEW t \in TrxId, ErrorTold(t),
         NEW m \in MsgId, <<t, m>> \in links,
         lpsMessages[m].type = IF IsRefund(t) THEN "reversalRequest"
                                              ELSE "financialRequest",
         ~IsRefund(t) => Fulfilled(t),
         Respond(m, "invalid"),
         UNCHANGED <<lpsMessages, transactions, links, queue, work, sent,
                     delivered, budget>>
  PROVE  Remembered'
<1>1. /\ responses' = responses \cup {<<m, "invalid">>}
      /\ \A k \in MsgId : k # m => Answered(k)' = Answered(k)
  BY DEF Respond, Answered
<1>2. \A u \in TrxId :
        <<u, m>> \in links /\ (IsRefund(t) => IsRefund(u)) => u = t
  BY DEF Remembered, LinkedOnce
<1>3. JobsOnce' /\ OwnTransaction' /\ LinkedOnce'
  BY DEF Remembered, JobsOnce, ServedOnce, Waits, OwnTransaction, LinkedOnce,
     IsRefund, Undisturbed
<1>4. LegacyJobsFresh'
  <2>1. \A k \in MsgId : Untouched(k) => Untouched(k)'
    BY <1>1 DEF Untouched, Answered
  <2>2. ASSUME NEW q \in LegacyQueue, work[q].pc \in BeforeLink
        PROVE  Untouched(JobMessage(q))'
    <3>1. Untouched(JobMessage(q)) /\ JobMessage(q) \in MsgId
      BY <2>2, BusyMessage DEF Remembered, LegacyJobsFresh, BeforeLink
    <3>2. PICK k \in MsgId : k = JobMessage(q)
      BY <3>1
    <3>3. Untouched(k)'
      BY <2>1, <3>1, <3>2
    <3> QED
      BY <3>2, <3>3 DEF JobMessage, Untouched, Answered
  <2>3. ASSUME work[LR].pc \in BeforeRefund
        PROVE  Unrefunded(JobMessage(LR))'
    <3>1. LR \in LegacyQueue /\ LA # LR /\ LF # LR
      BY DEF LegacyQueue, LR, LA, LF
    <3>2. /\ Unrefunded(JobMessage(LR))
          /\ JobMessage(LR) \in MsgId
          /\ lpsMessages[JobMessage(LR)].type = "reversalRequest"
      BY <2>3, <3>1, BusyMessage
      DEF Remembered, LegacyJobsFresh, BeforeRefund, BeforeLink, TypeOf
    <3>3. JobMessage(LR) # m
      BY <3>2 DEF Unrefunded
    <3>4. \A r : <<JobMessage(LR), r>> \in responses' =>
                   <<JobMessage(LR), r>> \in responses
      BY <1>1, <3>3
    <3> QED
      BY <3>2, <3>4 DEF JobMessage, Unrefunded, Answered, IsRefund
  <2>4. \A q \in LegacyQueue, k \in MsgId :
          Waits(q, <<"lps", k>>)' => Untouched(k)'
    BY <2>1 DEF Remembered, LegacyJobsFresh, Waits
  <2> QED
    BY <2>2, <2>3, <2>4 DEF LegacyJobsFresh
<1>5. ASSUME NEW u \in TrxId
      PROVE  CausesOf(u)'
  <2>1. CausesOf(u) /\ CausesOf(t)
    BY DEF Remembered, CausesKnown
  <2>2. \A h : HasDelivered(h)' = HasDelivered(h)
    BY DEF HasDelivered
  <2>3. \A k \in Linked(u, "authorizationRequest") :
          <<k, "approved">> \in responses' =>
            HasDelivered(<<"authorization", u>>)
    BY <1>1, <2>1 DEF CausesOf
  <2>4. ASSUME NEW k \in Linked(u, "financialRequest"),
               <<k, "invalid">> \in responses'
        PROVE  HasDelivered(<<"transferRequest", u>>)
    <3>1. k \in MsgId /\ <<u, k>> \in links /\ lpsMessages[k].type = "financialRequest"
      BY <2>4 DEF Linked
    <3>2. CASE k = m
      BY <1>2, <2>1, <3>1, <3>2 DEF CausesOf
    <3>3. CASE k # m
      BY <1>1, <2>1, <2>4, <3>3 DEF CausesOf
    <3> QED
      BY <3>2, <3>3
  <2>5. \A type : Linked(u, type)' = Linked(u, type)
    BY DEF Linked
  <2>6. /\ Fulfilled(u)' = Fulfilled(u) /\ Refused(u)' = Refused(u)
        /\ sent' = sent
    BY DEF Fulfilled, Refused
  <2> QED
    BY <2>1, <2>2, <2>3, <2>4, <2>5, <2>6 DEF CausesOf
<1>6. ASSUME Undisturbed', NEW u \in TrxId
      PROVE  Verdicts(u)'
  <2>1. /\ QuoteOpen(u) /\ AuthorizationOpen(u) /\ TransferOpen(u)
        /\ RefusalFinal(u)
        /\ TransferOpen(t)
    BY <1>6 DEF Remembered, VerdictsKnown, Undisturbed
  <2>2. /\ DeliveredStay /\ Shrinks
        /\ \A h : HasDelivered(h)' = HasDelivered(h)
    BY DEF DeliveredStay, HasDelivered, Shrinks, Open, Waits
  <2>3. /\ \A type : Linked(u, type)' = Linked(u, type)
        /\ Fulfilled(u)' = Fulfilled(u) /\ Refused(u)' = Refused(u)
        /\ ErrorTold(u)' = ErrorTold(u) /\ IsRefund(u)' = IsRefund(u)
    BY <2>2 DEF Linked, Fulfilled, Refused, ErrorTold, IsRefund
  <2>4. \A k \in Linked(u, "authorizationRequest") :
          /\ Answered(k)' = Answered(k)
          /\ <<k, "invalid">> \in responses' => <<k, "invalid">> \in responses
    BY <1>1 DEF Linked
  <2>5. QuoteOpen(u)' /\ AuthorizationOpen(u)'
    BY <2>1, <2>2, <2>3, <2>4
    DEF QuoteOpen, AuthorizationOpen, Unanswered, Shrinks
  <2>6. TransferOpen(u)'
    <3>1. CASE m \notin Linked(u, "financialRequest")
      <4>1. \A k \in Linked(u, "financialRequest") :
              k \in MsgId /\ k # m
        BY <3>1 DEF Linked
      <4>2. Unanswered(u, "financialRequest") =>
              Unanswered(u, "financialRequest")'
        BY <1>1, <2>3, <4>1 DEF Unanswered
      <4> QED
        BY <2>1, <2>2, <2>3, <4>2, TransferSame
    <3>2. CASE m \in Linked(u, "financialRequest")
      <4>1. u = t /\ Fulfilled(t)
        BY <1>2, <3>2 DEF Linked
      <4>2. ~Open(TR, <<"transferRequest", u>>, Undecided)'
        BY <2>1, <2>2, <4>1 DEF TransferOpen, Shrinks
      <4> QED
        BY <2>1, <2>2, <2>3, <4>2 DEF TransferOpen, Shrinks
    <3> QED
      BY <3>1, <3>2
  <2>7. RefusalFinal(u)'
    <3>1. ASSUME NEW k \in Linked(u, "financialRequest"),
                 <<k, "invalid">> \in responses'
          PROVE  ~Fulfilled(u) \/ ErrorTold(u)
      <4>1. k \in MsgId /\ <<u, k>> \in links /\ lpsMessages[k].type = "financialRequest"
        BY <3>1 DEF Linked
      <4>2. CASE k = m
        BY <1>2, <4>1, <4>2
      <4>3. CASE k # m
        BY <1>1, <2>1, <3>1, <4>3 DEF RefusalFinal
      <4> QED
        BY <4>2, <4>3
    <3>2. ASSUME NEW k \in Linked(u, "reversalRequest"),
                 <<k, "invalid">> \in responses'
          PROVE  ~IsRefund(u) \/ ErrorTold(u)
      <4>1. k \in MsgId /\ <<u, k>> \in links /\ lpsMessages[k].type = "reversalRequest"
        BY <3>2 DEF Linked
      <4>2. CASE k = m
        BY <1>2, <4>1, <4>2
      <4>3. CASE k # m
        BY <1>1, <2>1, <3>2, <4>3 DEF RefusalFinal
      <4> QED
        BY <4>2, <4>3
    <3> QED
      BY <2>1, <2>2, <2>3, <2>4, <3>1, <3>2 DEF RefusalFinal
  <2> QED
    BY <2>5, <2>6, <2>7 DEF Verdicts
<1>7. OneVerdict'
  <2>1. ASSUME Undisturbed, <<m, "approved">> \in responses
        PROVE  FALSE
    <3>1. Earned(m)
      BY <2>1 DEF IInv, ApprovedMeansCommitted
    <3>2. PICK x \in TransferId :
            /\ <<x[1], m>> \in links /\ Committed(x)
            /\ IsRefund(t) => IsRefund(x[1])
      BY <3>1 DEF Earned
    <3>3. PICK u \in TrxId, n \in 1..MaxDeliver : x = <<u, n>>
      BY DEF TransferId
    <3>4. u = t
      BY <1>2, <3>2, <3>3
    <3> QED
      BY <2>1, <3>2, <3>3, <3>4, CommittedHasNoError
  <2> QED
    BY <1>1, <2>1 DEF Remembered, OneVerdict, Undisturbed
<1> QED
  BY <1>3, <1>4, <1>5, <1>6, <1>7
  DEF Remembered, CausesKnown, VerdictsKnown, Verdicts

\* It answers, if there is whom to answer.
LEMMA EFAnswerHistory ==
  ASSUME IInv, History, ErrorWorkOK, EFAnswer
  PROVE  History'
<1>1. /\ UNCHANGED <<lpsMessages, transactions, links, queue, work, sent,
                     delivered, budget>>
      /\ errorWork.pc = "answer"
  BY DEF EFAnswer, environment
<1>2. Remembered /\ TransfersOnce
  BY DEF History
<1>3. OwnersKept /\ LinkedOriginalsKept
  BY <1>1 DEF OwnersKept, LinkedOriginalsKept
<1>4. TransfersOnce'
  BY <1>1, <1>2, SilenceTransfers DEF Undisturbed
<1>5. PICK t \in ErrorTransaction(errorWork.job) :
        \/ UNCHANGED responses
        \/ \E m \in ErrorMessages(errorWork.job, t) : Respond(m, "invalid")
  BY DEF EFAnswer
<1>6. /\ t \in TrxId /\ ErrorTold(t)
      /\ Refund(t)
           \/ (Withdrawal(t) /\ Fulfilled(t) /\ errorWork.job[1] # "quoteError")
  BY <1>1, ErrorIsTold
<1>7. CASE UNCHANGED responses
  BY <1>1, <1>2, <1>3, <1>7, ResidentsRemembered, <1>4 DEF History, Undisturbed
<1>8. ASSUME NEW m \in ErrorMessages(errorWork.job, t), Respond(m, "invalid")
      PROVE  Remembered'
  <2>1. m \in Linked(t, IF IsRefund(t) THEN "reversalRequest"
                                       ELSE "financialRequest")
    <3>1. CASE IsRefund(t)
      BY <3>1 DEF ErrorMessages
    <3>2. CASE ~IsRefund(t)
      BY <1>6, <3>2 DEF ErrorMessages, Refund
    <3> QED
      BY <3>1, <3>2
  <2>2. /\ m \in MsgId /\ <<t, m>> \in links
        /\ lpsMessages[m].type = IF IsRefund(t) THEN "reversalRequest"
                                                ELSE "financialRequest"
    BY <2>1 DEF Linked
  <2>3. ~IsRefund(t) => Fulfilled(t)
    BY <1>6 DEF Refund
  <2> QED
    BY <1>1, <1>2, <1>6, <1>8, <2>2, <2>3, ErrorAnswerRemembered
<1> QED
  BY <1>4, <1>5, <1>7, <1>8 DEF History

\* Its other steps tell nobody anything.
LEMMA ErrorSilence ==
  ASSUME IInv, History, OwnersKept, Undisturbed' => Undisturbed,
         \A q \in WorkerQueue : queue'[q] = queue[q],
         UNCHANGED <<lpsMessages, links, work, sent, responses, delivered>>
  PROVE  History'
<1>1. Remembered /\ TransfersOnce
  BY DEF History
<1>2. LinkedOriginalsKept
  BY DEF OwnersKept, LinkedOriginalsKept
<1>3. Remembered'
  BY <1>1, <1>2, ResidentsRemembered
<1>4. TransfersOnce'
  BY <1>1, QueueNames, SilenceTransfers
<1> QED
  BY <1>3, <1>4 DEF History

-----------------------------------------------------------------------------
(* The orchestrator with the error handler at work. *)

\* What the hub has said stays said, whatever the orchestrator does.
LEMMA NextDelivered ==
  ASSUME IInv, Next
  PROVE  \A h \in HubMessage : HasDelivered(h) => HasDelivered(h)'
<1>1. CASE Handler
  <2>1. \/ QuoteResponseHandler
        \/ \E q \in {LA, PR, TRR, QR, AR, LF, TR, TX, LR} : Elsewhere(q)
    BY <1>1, LegacyAuthorizationRequestHandlerElsewhere,
       PartiesResponseHandlerElsewhere,
       TransactionRequestResponseHandlerElsewhere,
       QuotesRequestHandlerElsewhere, AuthorizationRequestHandlerElsewhere,
       LegacyFinancialRequestHandlerElsewhere, TransferRequestHandlerElsewhere,
       TransferResponseHandlerElsewhere, LegacyReversalHandlerElsewhere
    DEF Handler
  <2>2. UNCHANGED delivered
    BY <2>1
    DEF Elsewhere, QuoteResponseHandler, QXUpdateQuote, QXInsertTransfer,
        QXPostTransfers, QXThrow, Throw, environment
  <2> QED
    BY <2>2 DEF HasDelivered
<1>2. CASE \E h \in HubMessage : Deliver(h)
  <2>1. PICK h \in HubMessage : delivered' = [delivered EXCEPT ![h] = @ + 1]
    BY <1>2 DEF Deliver
  <2>2. delivered \in [HubMessage -> 0..MaxDeliver]
    BY DEF IInv, TypeOK
  <2> QED
    BY <2>1, <2>2, BoundsAssumption DEF HasDelivered
<1>3. CASE ~Handler /\ ~\E h \in HubMessage : Deliver(h)
  <2>1. UNCHANGED delivered
    BY <1>3
    DEF Next, Take, Terminal, SendAuthorizationRequest, SendFinancialRequest,
        SendReversalAdvice, Receive, ExpireTransaction, ExpireQuote, Crash
  <2> QED
    BY <2>1 DEF HasDelivered
<1> QED
  BY <1>1, <1>2, <1>3

\* The steps of the error handler.
EFSteps == EFTake \/ ErrorResponseHandler

\* They keep the invariant, and no customer notices them
\* (error-response-handler.ts).
LEMMA EFStepKeeps ==
  ASSUME ErrorInv, EFSteps
  PROVE  ErrorInv' /\ [Promise!PromiseNext]_Promise!promises
<1>1. IInv /\ History /\ Owned /\ ErrorWorkOK
  BY DEF ErrorInv
<1>2. IInv' /\ History' /\ ErrorWorkOK' /\ OwnersKept /\ Unnoticed({})
  <2>1. CASE EFTake
    <3>1. /\ queue' = [queue EXCEPT ![EF] = Tail(@)]
          /\ UNCHANGED <<lpsMessages, transactions, links, delivered, work, sent,
                         responses, budget>>
      BY <2>1 DEF EFTake, tables, outputs
    <3>2. \A q \in WorkerQueue : queue'[q] = queue[q]
      BY <1>1, <3>1, ErrorQueue DEF IInv, TypeOK, Queue
    <3>3. OwnersKept /\ Unnoticed({})
      BY <3>1 DEF OwnersKept, Unnoticed
    <3> QED
      BY <1>1, <2>1, <3>1, <3>2, <3>3, EFTakeStep, ErrorSilence DEF Undisturbed
  <2>2. CASE EFFind
    <3>1. UNCHANGED vars /\ (errorWork'.pc # "idle" => errorWork'.job = errorWork.job)
      <4>1. UNCHANGED vars
        BY <2>2 DEF EFFind
      <4>2. \/ errorWork' = NoErrorWork
            \/ \E pc \in {"cancel", "answer"} :
                 errorWork' = [errorWork EXCEPT !.pc = pc]
        BY <2>2 DEF EFFind
      <4>3. CASE errorWork' = NoErrorWork
        BY <4>1, <4>3 DEF NoErrorWork
      <4>4. ASSUME NEW pc, errorWork' = [errorWork EXCEPT !.pc = pc]
            PROVE  errorWork'.job = errorWork.job
        BY <4>4
      <4> QED
        BY <4>1, <4>2, <4>3, <4>4
    <3>2. ErrorWorkOK'
      <4>1. errorWork.pc # "idle"
        BY <2>2 DEF EFFind
      <4> QED
        BY <1>1, <3>1, <4>1 DEF ErrorWorkOK, Justified, vars, HasDelivered
    <3>3. OwnersKept /\ Unnoticed({})
      BY <3>1 DEF OwnersKept, Unnoticed, vars
    <3> QED
      BY <1>1, <3>1, <3>2, <3>3, StutterStep, HistoryInductive
  <2>3. CASE EFCancel
    <3>1. /\ UNCHANGED <<lpsMessages, links, delivered, work, sent, responses,
                         budget, queue>>
          /\ errorWork.pc # "idle" /\ errorWork'.job = errorWork.job
      BY <2>3 DEF EFCancel, environment, outputs
    <3>2. ErrorWorkOK'
      BY <1>1, <3>1 DEF ErrorWorkOK, Justified, HasDelivered
    <3>3. IInv' /\ OwnersKept
      BY <1>1, <2>3, EFCancelStep
    <3>4. Unnoticed({})
      BY <3>1 DEF Unnoticed
    <3> QED
      BY <1>1, <3>1, <3>2, <3>3, <3>4, ErrorSilence DEF Undisturbed
  <2>4. CASE EFAnswer
    <3>1. /\ UNCHANGED <<lpsMessages, transactions, links, delivered, sent>>
          /\ errorWork'.pc = "idle"
          /\ responses \subseteq responses'
          /\ \A r \in responses' : r \in responses \/ r[2] = "invalid"
      BY <2>4 DEF EFAnswer, environment, Respond, NoErrorWork
    <3>2. OwnersKept /\ Unnoticed({}) /\ ErrorWorkOK'
      BY <3>1 DEF OwnersKept, Unnoticed, ErrorWorkOK
    <3> QED
      BY <1>1, <2>4, <3>2, EFAnswerStep, EFAnswerHistory
  <2>5. CASE EFThrow
    <3>1. /\ UNCHANGED <<lpsMessages, transactions, links, delivered, work, sent,
                         responses, queue>>
          /\ errorWork'.pc = "idle"
      BY <2>5 DEF EFThrow, tables, outputs, NoErrorWork
    <3>2. OwnersKept /\ Unnoticed({}) /\ ErrorWorkOK'
      BY <3>1 DEF OwnersKept, Unnoticed, ErrorWorkOK
    <3> QED
      BY <1>1, <2>5, <3>1, <3>2, EFThrowStep, ErrorSilence
  <2> QED
    BY <2>1, <2>2, <2>3, <2>4, <2>5 DEF EFSteps, ErrorResponseHandler
<1>3. [Promise!PromiseNext]_Promise!promises
  BY <1>1, <1>2, UnnoticedKeeps
<1>4. Owned'
  <2>1. SUFFICES ASSUME NEW t \in TrxId, Exists(t)'
                 PROVE  transactions'[t].lpsKey \in Device
    BY DEF Owned
  <2>2. transactions'[t].lpsKey = transactions[t].lpsKey
    BY <1>2 DEF OwnersKept
  <2>3. CASE Exists(t)
    BY <1>1, <2>2, <2>3 DEF Owned
  <2>4. CASE ~Exists(t)
    <3>1. transactions[t] = NoTransaction
      BY <1>1, <2>4 DEF IInv, TransactionsOK
    <3>2. transactions'[t].payer = None /\ transactions'[t].original = 0
      BY <1>2, <3>1 DEF OwnersKept, NoTransaction
    <3>3. TransactionsOK'
      BY <1>2 DEF IInv
    <3>4. transactions'[t].payer \in Payer
      BY <2>1, <3>2, <3>3 DEF TransactionsOK, Withdrawal, IsRefund
    <3> QED
      BY <3>2, <3>4, NoneAssumption
  <2> QED
    BY <2>3, <2>4
<1> QED
  BY <1>2, <1>3, <1>4 DEF ErrorInv

\* A step of the orchestrator keeps it as well.
LEMMA OthersKeep ==
  ASSUME ErrorInv, Others
  PROVE  ErrorInv' /\ [Promise!PromiseNext]_Promise!promises
<1>1. IInv /\ History /\ Remembered /\ Owned /\ ErrorWorkOK /\ Next
  BY DEF ErrorInv, Others, History
<1>2. IInv' /\ History'
  BY <1>1, InvariantInductive, HistoryInductive
<1>3. Owned'
  BY <1>1, <1>2, OwnedStep
<1>4. [Promise!PromiseNext]_Promise!promises
  BY <1>1, StepKeepsPromise
<1>5. ErrorWorkOK'
  <2>1. errorWork' = errorWork \/ errorWork'.pc = "idle"
    BY DEF Others, NoErrorWork
  <2>2. \A h \in HubMessage : HasDelivered(h) => HasDelivered(h)'
    BY <1>1, NextDelivered
  <2> QED
    BY <1>1, <2>1, <2>2, ErrorQueue DEF ErrorWorkOK, Justified
<1> QED
  BY <1>2, <1>3, <1>4, <1>5 DEF ErrorInv

\* With the error handler at work every reachable state satisfies the
\* invariant and has the history of Orchestrator (error-response-handler.ts).
THEOREM ErrorInvariance == ErrorSpec => []ErrorInv
<1>1. Init /\ errorWork = NoErrorWork => ErrorInv
  BY InvariantInit, HistoryInit, PromiseStart
  DEF ErrorInv, ErrorWorkOK, NoErrorWork
<1>2. ErrorInv /\ [ErrorNext]_errorVars => ErrorInv'
  <2>1. SUFFICES ASSUME ErrorInv, [ErrorNext]_errorVars PROVE ErrorInv'
    OBVIOUS
  <2>2. CASE EFSteps
    BY <2>1, <2>2, EFStepKeeps
  <2>3. CASE Others
    BY <2>1, <2>3, OthersKeep
  <2>4. CASE UNCHANGED errorVars
    <3>1. UNCHANGED vars /\ UNCHANGED errorWork
      BY <2>4 DEF errorVars
    <3>2. IInv' /\ History'
      BY <2>1, <3>1, StutterStep, HistoryInductive DEF ErrorInv
    <3>3. Owned' /\ ErrorWorkOK'
      BY <2>1, <3>1
      DEF ErrorInv, Owned, Exists, ErrorWorkOK, Justified, HasDelivered, vars
    <3> QED
      BY <3>2, <3>3 DEF ErrorInv
  <2> QED
    BY <2>1, <2>2, <2>3, <2>4 DEF ErrorNext, EFSteps
<1> QED
  BY <1>1, <1>2, PTL DEF ErrorSpec

\* Nor is a terminal told two verdicts when the error handler is one of those
\* that tell them, as long as the hub repeats nothing and no await throws: what
\* the hub has committed it does not report an error in
\* (error-response-handler.ts, transfer-response-handler.ts).
THEOREM ErrorVerdictSafety == ErrorSpec => []OneVerdict
<1>1. ErrorInv => OneVerdict
  BY DEF ErrorInv, History, Remembered
<1> QED
  BY <1>1, ErrorInvariance, PTL

\* A terminal is told "approved" for a financial request or a reversal advice
\* only after the hub has committed, with the error handler at work as well.
THEOREM ErrorApprovalSafety == ErrorSpec => []ApprovedMeansCommitted
<1>1. ErrorInv => ApprovedMeansCommitted
  BY DEF ErrorInv, IInv
<1> QED
  BY <1>1, ErrorInvariance, PTL

\* A transfer that has been fulfilled is not refused with the error handler at
\* work, as long as the hub repeats nothing and no await throws.
THEOREM ErrorFulfilmentIsFinal == ErrorSpec => []NoRefusalAfterFulfilment
<1>1. ErrorInv => NoRefusalAfterFulfilment
  BY HistoryForbidsRefusal DEF ErrorInv
<1> QED
  BY <1>1, ErrorInvariance, PTL

\* And what happens to a transaction happens in the order CashPromise promises:
\* the cancellations and answers of the error handler undo nothing of it.
THEOREM ErrorPromiseKept == ErrorSpec => KeepsPromise
<1>1. Init => Promise!PromiseInit
  BY PromiseStart
<1>2. ErrorInv /\ [ErrorNext]_errorVars => [Promise!PromiseNext]_Promise!promises
  <2>1. SUFFICES ASSUME ErrorInv, [ErrorNext]_errorVars
                 PROVE  [Promise!PromiseNext]_Promise!promises
    OBVIOUS
  <2>2. CASE EFSteps
    BY <2>1, <2>2, EFStepKeeps
  <2>3. CASE Others
    BY <2>1, <2>3, OthersKeep
  <2>4. CASE UNCHANGED errorVars
    BY <2>1, <2>4, StepKeepsPromise DEF errorVars, ErrorInv, History
  <2> QED
    BY <2>1, <2>2, <2>3, <2>4 DEF ErrorNext, EFSteps
<1> QED
  BY <1>1, <1>2, ErrorInvariance, PTL
  DEF ErrorSpec, KeepsPromise, Promise!PromiseSpec
=============================================================================
