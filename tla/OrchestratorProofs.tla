------------------------- MODULE OrchestratorProofs -------------------------
(***************************************************************************)
(* The invariant of Orchestrator is inductive: the steps of terminals,     *)
(* hub, clock and failures keep it as well, and so Orchestrator has the    *)
(* safety properties that follow from it.                                  *)
(***************************************************************************)
EXTENDS HandlerProofs

-----------------------------------------------------------------------------
(* Steps in which no handler runs. *)

\* What is left to prove of a step that neither calls nor answers.
LEMMA EnvironmentKept ==
  ASSUME IInv, TypeOK', Grows, NoneBecomesAuthSent,
         UNCHANGED <<links, transfers, sent, responses>>,
         MessagesOK', DeliveredOK', QueuesOK', WorkersOK', Knowledge',
         TransactionsOK', \A t \in TrxId : IsRefund(t)' => Refund(t),
         work'[TR].pc = "putTransfers" => work'[TR] = work[TR]
  PROVE  IInv'
<1>1. LinksOK'
  BY LinksKept
<1>2. TransfersOK'
  BY TransfersKept
<1>3. SentOK'
  <2>1. MayCall(sent' \ sent)
    BY DEF MayCall
  <2>2. \A t \in TrxId :
          transactions'[t].state = "authSent" =>
            transactions[t].state = "authSent" \/ (Exists(t) /\ Shown(t))
    BY DEF NoneBecomesAuthSent
  <2> QED
    BY <2>1, <2>2, SentKept
<1>4. ResponsesOK'
  BY ResponsesKept
<1>5. ApprovedMeansCommitted'
  BY ApprovedKept
<1>6. PasswordFollowsApproval'
  BY PasswordKept
<1>7. FulfilledOnce'
  <2>1. work'[TR] = work[TR] => WorkTransfer(TR)' = WorkTransfer(TR)
    BY DEF WorkTransfer
  <2> QED
    BY <1>3, <2>1, FulfilledKept
<1>8. RefundOnlyCommitted'
  BY RefundsKept
<1> QED
  BY <1>1, <1>2, <1>3, <1>4, <1>5, <1>6, <1>7, <1>8 DEF IInv

\* Workers that do not move.
LEMMA ResidentsKept ==
  ASSUME IInv, Grows, UNCHANGED work
  PROVE  WorkersOK' /\ Knowledge'
<1>1. TRR \in WorkerQueue /\ Only(TRR) /\ Knows(TRR)'
  BY QueueNames, KnowsOwn DEF Only
<1>2. WorkersOK'
  BY WorkerStays DEF WorkersOK
<1> QED
  BY <1>1, <1>2, KnowledgeKept

\* A justified job is put at the end of its queue.
LEMMA AppendKept ==
  ASSUME IInv, Grows, NEW q \in Queue, NEW j \in Job,
         queue' = [queue EXCEPT ![q] = Append(@, j)], Justified(q, j)'
  PROVE  QueuesOK' /\ queue' \in [Queue -> Seq(Job)]
<1>1. queue \in [Queue -> Seq(Job)]
  BY DEF IInv, TypeOK
<1>2. /\ queue' \in [Queue -> Seq(Job)]
      /\ queue'[q] = Append(queue[q], j)
      /\ \A p \in Queue : p # q => queue'[p] = queue[p]
  BY <1>1
<1>3. SUFFICES ASSUME NEW p \in Queue, NEW i \in 1..Len(queue'[p])
               PROVE  Justified(p, queue[p][i])'
  BY <1>2 DEF QueuesOK
<1>4. \/ queue'[p][i] = j /\ p = q
      \/ i \in 1..Len(queue[p]) /\ queue'[p][i] = queue[p][i]
  BY <1>1, <1>2
<1>5. CASE queue'[p][i] = j /\ p = q
  BY <1>5 DEF Justified
<1>6. CASE i \in 1..Len(queue[p]) /\ queue'[p][i] = queue[p][i]
  <2>1. \A k : k = queue[p][i] => Justified(p, k)'
    BY <1>6, JustifiedStays DEF IInv, QueuesOK
  <2> QED
    BY <1>6, <2>1 DEF Justified
<1> QED
  BY <1>4, <1>5, <1>6

\* The elements of a tail are those of the sequence, one further.
LEMMA TailElements ==
  ASSUME NEW S, NEW s \in Seq(S), s # <<>>, NEW i \in 1..Len(Tail(s))
  PROVE  i + 1 \in 1..Len(s) /\ Tail(s)[i] = s[i + 1]
OBVIOUS

\* A worker takes a job (index.ts): it keeps what justifies it.
LEMMA TakeStep ==
  ASSUME IInv, NEW q \in WorkerQueue, Take(q)
  PROVE  IInv'
<1>1. /\ work' \in [WorkerQueue -> Worker] /\ Only(q)
      /\ work'[q].pc = "start" /\ work'[q].job = queue[q][1]
      /\ queue[q] # <<>> /\ queue' \in [Queue -> Seq(Job)]
      /\ queue'[q] = Tail(queue[q])
      /\ \A p \in Queue : p # q => queue'[p] = queue[p]
  BY TakeWork DEF IInv
<1>2. /\ UNCHANGED <<lpsMessages, transactions, transfers, delivered>>
      /\ UNCHANGED <<links, quotes, sent, responses, budget>>
  BY DEF Take, tables, outputs
<1>3. Grows /\ NoneBecomesAuthSent
  BY <1>2, OnlyAdds
<1>4. /\ q \in Queue /\ queue \in [Queue -> Seq(Job)]
      /\ \A p \in Queue : \A i \in 1..Len(queue[p]) : Justified(p, queue[p][i])
  BY DEF IInv, TypeOK, QueuesOK, Queue
<1>5. \A p \in Queue : \A i \in 1..Len(queue[p]) :
        \A j : j = queue[p][i] => Justified(p, j)'
  BY <1>3, <1>4, JustifiedStays
<1>6. QueuesOK'
  <2>1. SUFFICES ASSUME NEW p \in Queue, NEW i \in 1..Len(queue'[p])
                 PROVE  Justified(p, queue[p][i])'
    BY DEF QueuesOK
  <2>2. CASE p = q
    <3>1. queue[p] \in Seq(Job) /\ queue[p] # <<>> /\ queue'[p] = Tail(queue[p])
      BY <1>1, <1>4, <2>2
    <3>2. i + 1 \in 1..Len(queue[p]) /\ queue'[p][i] = queue[p][i + 1]
      BY <3>1, TailElements
    <3> QED
      BY <1>5, <3>2 DEF Justified
  <2>3. CASE p # q
    BY <1>1, <1>5, <2>3 DEF Justified
  <2> QED
    BY <2>2, <2>3
<1>7. WorkerOK(q)'
  <2>1. 1 \in 1..Len(queue[q])
    BY <1>1, <1>4
  <2>2. Justified(q, work[q].job)'
    BY <1>1, <1>4, <1>5, <2>1 DEF Justified
  <2> QED
    BY <1>1, <2>2 DEF WorkerOK, StepsOf, Searching
<1>8. Knows(q)'
  BY <1>1 DEF Knows, KnowsLA, KnowsPR, KnowsQR, KnowsAR, KnowsLF, KnowsTR,
     KnowsTX, KnowsLR, KnowsQX, Searching
<1>9. WorkersOK' /\ Knowledge'
  BY <1>1, <1>3, <1>7, <1>8, WorkersKept, KnowledgeKept
<1>10. TypeOK'
  BY <1>1, <1>2 DEF IInv, TypeOK
<1>11. MessagesOK' /\ TransactionsOK' /\ DeliveredOK'
  BY <1>2, <1>3, MessagesKept, TransactionsKept, DeliveredKept
<1>12. \A t \in TrxId : IsRefund(t)' => Refund(t)
  BY <1>2, RefundsExist DEF IsRefund
<1>13. work'[TR].pc = "putTransfers" => work'[TR] = work[TR]
  BY <1>1, QueueNames DEF Only
<1> QED
  BY <1>2, <1>3, <1>6, <1>9, <1>10, <1>11, <1>12, <1>13, EnvironmentKept

\* The hub sends what it has been prompted to send: a justified job.
LEMMA DeliverStep ==
  ASSUME IInv, NEW h \in HubMessage, Deliver(h)
  PROVE  IInv'
<1>1. /\ UNCHANGED <<lpsMessages, transactions, links, quotes, transfers, work,
                     sent, responses>>
      /\ delivered' = [delivered EXCEPT ![h] = @ + 1]
      /\ queue' = [queue EXCEPT ![QueueOf(h)] = Append(@, h)]
      /\ PromptedBy(h) \cap sent # {}
      /\ delivered[h] = 0 \/ delivered[h] \in 1..(MaxDeliver - 1)
  BY DEF Deliver, tables, outputs
<1>2. budget' \in Budget
  BY BoundsAssumption DEF Deliver, IInv, TypeOK, Budget
<1>3. delivered \in [HubMessage -> 0..MaxDeliver]
  BY DEF IInv, TypeOK
<1>4. /\ delivered' \in [HubMessage -> 0..MaxDeliver]
      /\ delivered'[h] > 0
      /\ \A k \in HubMessage : k # h => delivered'[k] = delivered[k]
  BY <1>1, <1>3, BoundsAssumption
<1>5. Grows /\ NoneBecomesAuthSent
  BY <1>1, <1>4 DEF Grows, RowsStay, MessagesStay, TransfersStay, DeliveredStay,
     HasDelivered, NoneBecomesAuthSent, Exists
<1>6. /\ QueueOf(h) \in Queue /\ QueueOf(h) \notin LegacyQueue /\ h \in Job
  BY KindOf DEF Job
<1>7. Justified(QueueOf(h), h)'
  BY <1>4, <1>6 DEF Justified, HasDelivered
<1>8. QueuesOK' /\ queue' \in [Queue -> Seq(Job)]
  BY <1>1, <1>5, <1>6, <1>7, AppendKept
<1>9. DeliveredOK'
  BY <1>1, <1>4 DEF IInv, DeliveredOK, HasDelivered, PromptedBy
<1>10. MessagesOK' /\ TransactionsOK'
  BY <1>1, MessagesKept, TransactionsKept
<1>11. WorkersOK' /\ Knowledge'
  BY <1>1, <1>5, ResidentsKept
<1>12. TypeOK'
  BY <1>1, <1>2, <1>4, <1>8 DEF IInv, TypeOK
<1>13. \A t \in TrxId : IsRefund(t)' => Refund(t)
  BY <1>1, RefundsExist DEF IsRefund
<1> QED
  BY <1>1, <1>5, <1>8, <1>9, <1>10, <1>11, <1>12, <1>13, EnvironmentKept

\* A message from a terminal: stored, with the type its queue stands for.
LEMMA ReceiveStep ==
  ASSUME IInv, NEW type, NEW q \in LegacyQueue, NEW d \in Device,
         NEW p \in Payer \cup {None}, NEW about \in MsgId \cup {0},
         Receive(type, q, d, p, about),
         type = CASE q = LA -> "authorizationRequest"
                  [] q = LF -> "financialRequest"
                  [] OTHER -> "reversalRequest",
         type = "authorizationRequest" => p \in Payer,
         type = "reversalRequest" =>
           /\ about \in MsgId
           /\ lpsMessages[about].type \in {"authorizationRequest", "financialRequest"}
  PROVE  IInv'
<1> DEFINE row == [type |-> type, lpsKey |-> d, payer |-> p, about |-> about]
<1>1. PICK m \in NextMsg :
        /\ lpsMessages' = [lpsMessages EXCEPT ![m] = row]
        /\ queue' = [queue EXCEPT ![q] = Append(@, <<"lps", m>>)]
  BY DEF Receive
<1>2. UNCHANGED <<transactions, links, quotes, transfers, work, sent, responses,
                  delivered, budget>>
  BY DEF Receive, outputs
<1>3. /\ m \in MsgId /\ ~Stored(m)
      /\ lpsMessages \in [MsgId -> LpsMessage]
  BY DEF NextMsg, Stored, IInv, TypeOK
<1>4. row \in LpsMessage /\ row.type = type /\ type # "none"
  BY DEF LpsMessage, LegacyMessageType
<1>5. /\ lpsMessages' \in [MsgId -> LpsMessage]
      /\ lpsMessages'[m] = row
      /\ \A k \in MsgId : k # m => lpsMessages'[k] = lpsMessages[k]
  BY <1>1, <1>3, <1>4
<1>6. Grows /\ NoneBecomesAuthSent
  BY <1>2, <1>3, <1>5 DEF Grows, RowsStay, MessagesStay, TransfersStay,
     DeliveredStay, HasDelivered, NoneBecomesAuthSent, Exists
<1>7. q \in Queue /\ <<"lps", m>> \in LpsJob /\ <<"lps", m>> \in Job
  BY <1>3 DEF Queue, WorkerQueue, LpsJob, Job
<1>8. Justified(q, <<"lps", m>>)'
  BY <1>4, <1>5, <1>7 DEF Justified
<1>9. QueuesOK' /\ queue' \in [Queue -> Seq(Job)]
  BY <1>1, <1>6, <1>7, <1>8, AppendKept
<1>10. MessagesOK'
  <2>1. SUFFICES ASSUME NEW k \in MsgId
                 PROVE  /\ Stored(k)' => lpsMessages'[k].lpsKey \in Device
                        /\ lpsMessages'[k].type = "authorizationRequest" =>
                             lpsMessages'[k].payer \in Payer
                        /\ lpsMessages'[k].type = "reversalRequest" =>
                             /\ lpsMessages'[k].about \in MsgId
                             /\ lpsMessages'[lpsMessages'[k].about].type
                                  \in {"authorizationRequest", "financialRequest"}
    BY DEF MessagesOK
  <2>2. CASE k = m
    <3>1. type = "reversalRequest" =>
            lpsMessages'[about] = lpsMessages[about] /\ about \in MsgId
      BY <1>3, <1>5 DEF Stored
    <3> QED
      BY <1>4, <1>5, <2>2, <3>1
  <2>3. CASE k # m
    <3>1. /\ lpsMessages'[k] = lpsMessages[k] /\ (Stored(k)' <=> Stored(k))
          /\ lpsMessages[k].type = "reversalRequest" =>
               lpsMessages'[lpsMessages[k].about] = lpsMessages[lpsMessages[k].about]
      BY <1>3, <1>5, <2>3 DEF IInv, MessagesOK, Stored
    <3> QED
      BY <3>1 DEF IInv, MessagesOK
  <2> QED
    BY <2>2, <2>3
<1>11. TransactionsOK' /\ DeliveredOK'
  BY <1>2, <1>6, TransactionsKept, DeliveredKept
<1>12. WorkersOK' /\ Knowledge'
  BY <1>2, <1>6, ResidentsKept
<1>13. TypeOK'
  BY <1>2, <1>5, <1>9 DEF IInv, TypeOK
<1>14. \A t \in TrxId : IsRefund(t)' => Refund(t)
  BY <1>2, RefundsExist DEF IsRefund
<1> QED
  BY <1>2, <1>6, <1>9, <1>10, <1>11, <1>12, <1>13, <1>14, EnvironmentKept

\* Each of the three messages of a terminal keeps the invariant.
LEMMA TerminalStep ==
  ASSUME IInv, NEW d \in Device, Terminal(d)
  PROVE  IInv'
<1>1. /\ LA \in LegacyQueue /\ LF \in LegacyQueue /\ LR \in LegacyQueue
      /\ LA = "LegacyAuthorizationRequests" /\ LF = "LegacyFinancialRequests"
      /\ LR = "LegacyReversalRequests"
      /\ LA # LF /\ LA # LR /\ LF # LR
  BY DEF LegacyQueue, LA, LF, LR
<1>2. CASE SendAuthorizationRequest(d)
  <2>1. PICK p \in Payer : Receive("authorizationRequest", LA, d, p, 0)
    BY <1>1, <1>2 DEF SendAuthorizationRequest
  <2>2. ASSUME NEW z \in {0}, Receive("authorizationRequest", LA, d, p, z)
        PROVE  IInv'
    BY <1>1, <2>2, ReceiveStep
  <2> QED
    BY <2>1, <2>2
<1>3. CASE SendFinancialRequest(d)
  <2>1. PICK m \in MsgId : Receive("financialRequest", LF, d, None, m)
    BY <1>1, <1>3 DEF SendFinancialRequest
  <2>2. ASSUME NEW p \in {None}, Receive("financialRequest", LF, d, p, m)
        PROVE  IInv'
    BY <1>1, <2>2, ReceiveStep
  <2> QED
    BY <2>1, <2>2
<1>4. CASE SendReversalAdvice(d)
  <2>1. PICK m \in Received({"authorizationRequest", "financialRequest"}) :
          Receive("reversalRequest", LR, d, None, m)
    BY <1>1, <1>4 DEF SendReversalAdvice
  <2>2. /\ m \in MsgId
        /\ lpsMessages[m].type \in {"authorizationRequest", "financialRequest"}
    BY DEF Received
  <2>3. ASSUME NEW p \in {None}, Receive("reversalRequest", LR, d, p, m)
        PROVE  IInv'
    BY <1>1, <2>2, <2>3, ReceiveStep
  <2> QED
    BY <2>1, <2>3
<1> QED
  BY <1>2, <1>3, <1>4 DEF Terminal

\* An expiration that passes takes nothing away.
LEMMA ExpireTransactionStep ==
  ASSUME IInv, NEW t \in TrxId, ExpireTransaction(t)
  PROVE  IInv'
<1>1. /\ UNCHANGED <<lpsMessages, links, quotes, transfers, queue, work, sent,
                     responses, delivered>>
      /\ transactions' =
           [u \in TrxId |->
              IF u = t \/ transactions[u].original = t
                THEN [transactions[u] EXCEPT !.expired = TRUE]
                ELSE transactions[u]]
      /\ Exists(t)
  BY DEF ExpireTransaction, outputs
<1>2. budget' \in Budget
  <2>1. /\ budget \in Budget /\ budget.expiries > 0
        /\ budget' = [budget EXCEPT !.expiries = @ - 1]
    BY DEF ExpireTransaction, Expiry, IInv, TypeOK
  <2> QED
    BY <2>1, BoundsAssumption DEF Budget
<1>3. transactions \in [TrxId -> Transaction]
  BY DEF IInv, TypeOK
<1>4. \A u \in TrxId :
        /\ transactions'[u] \in Transaction
        /\ transactions'[u].state = transactions[u].state
        /\ transactions'[u].lpsKey = transactions[u].lpsKey
        /\ transactions'[u].payer = transactions[u].payer
        /\ transactions'[u].original = transactions[u].original
        /\ transactions'[u].fspId = transactions[u].fspId
  BY <1>1, <1>3 DEF Transaction
<1>5. transactions' \in [TrxId -> Transaction]
  BY <1>1, <1>4
<1>6. Grows /\ NoneBecomesAuthSent
  BY <1>1, <1>4 DEF Grows, RowsStay, MessagesStay, TransfersStay, DeliveredStay,
     HasDelivered, NoneBecomesAuthSent, Exists
\* A row that does not exist is about no transaction.
<1>7. TransactionsOK'
  <2>1. SUFFICES ASSUME NEW u \in TrxId
                 PROVE  /\ ~Exists(u)' => transactions'[u] = NoTransaction
                        /\ Withdrawal(u)' => transactions'[u].payer \in Payer
                        /\ Refund(u)' =>
                             /\ transactions'[u].payer = None
                             /\ transactions'[u].state \in
                                  {"transactionReceived", "transactionCancelled",
                                   "financialResponse"}
    BY DEF TransactionsOK
  <2>2. ~Exists(u) => transactions'[u] = NoTransaction
    <3>1. ASSUME ~Exists(u)
          PROVE  u # t /\ transactions[u].original # t
      BY <1>1, <3>1 DEF IInv, TransactionsOK, NoTransaction, TrxId
    <3> QED
      BY <1>1, <3>1 DEF IInv, TransactionsOK
  <2> QED
    BY <1>4, <2>2 DEF IInv, TransactionsOK, Exists, Withdrawal, Refund, IsRefund
<1>8. MessagesOK' /\ QueuesOK' /\ DeliveredOK'
  BY <1>1, <1>6, MessagesKept, QueuesKept, DeliveredKept
<1>9. WorkersOK' /\ Knowledge'
  BY <1>1, <1>6, ResidentsKept
<1>10. TypeOK'
  BY <1>1, <1>2, <1>5 DEF IInv, TypeOK
<1>11. \A u \in TrxId : IsRefund(u)' => Refund(u)
  BY <1>4, RefundsExist DEF IsRefund
<1> QED
  BY <1>1, <1>6, <1>7, <1>8, <1>9, <1>10, <1>11, EnvironmentKept

\* A quote that expires takes nothing away.
LEMMA ExpireQuoteStep ==
  ASSUME IInv, NEW t \in TrxId, ExpireQuote(t)
  PROVE  IInv'
<1>1. /\ UNCHANGED <<lpsMessages, transactions, transfers, delivered>>
      /\ UNCHANGED <<links, transfers, sent, responses>>
      /\ UNCHANGED <<queue, work>>
      /\ quotes' = [quotes EXCEPT ![t] = "expired"]
  BY DEF ExpireQuote, outputs
<1>2. budget' \in Budget
  <2>1. /\ budget \in Budget /\ budget.expiries > 0
        /\ budget' = [budget EXCEPT !.expiries = @ - 1]
    BY DEF ExpireQuote, Expiry, IInv, TypeOK
  <2> QED
    BY <2>1, BoundsAssumption DEF Budget
<1>3. Grows /\ NoneBecomesAuthSent
  BY <1>1, OnlyAdds
<1>4. MessagesOK' /\ TransactionsOK' /\ QueuesOK' /\ DeliveredOK'
  BY <1>1, <1>3, MessagesKept, TransactionsKept, QueuesKept, DeliveredKept
<1>5. WorkersOK' /\ Knowledge'
  BY <1>1, <1>3, ResidentsKept
<1>6. TypeOK'
  BY <1>1, <1>2 DEF IInv, TypeOK, QuoteState
<1>7. \A u \in TrxId : IsRefund(u)' => Refund(u)
  BY <1>1, RefundsExist DEF IsRefund
<1> QED
  BY <1>1, <1>3, <1>4, <1>5, <1>6, <1>7, EnvironmentKept

\* The restarted process works on nothing and so owes nothing.
LEMMA CrashStep ==
  ASSUME IInv, Crash
  PROVE  IInv'
<1>1. /\ UNCHANGED <<lpsMessages, transactions, transfers, delivered>>
      /\ UNCHANGED <<links, transfers, sent, responses>>
      /\ UNCHANGED <<queue, quotes>>
      /\ work' = [q \in WorkerQueue |-> Idle]
  BY DEF Crash, tables, outputs
<1>2. budget' \in Budget
  <2>1. /\ budget \in Budget /\ budget.crashes > 0
        /\ budget' = [budget EXCEPT !.crashes = @ - 1]
    BY DEF Crash, IInv, TypeOK
  <2> QED
    BY <2>1, BoundsAssumption DEF Budget
<1>3. Grows /\ NoneBecomesAuthSent
  BY <1>1, OnlyAdds
<1>4. MessagesOK' /\ TransactionsOK' /\ QueuesOK' /\ DeliveredOK'
  BY <1>1, <1>3, MessagesKept, TransactionsKept, QueuesKept, DeliveredKept
<1>5. /\ work' \in [WorkerQueue -> Worker]
      /\ \A q \in WorkerQueue : work'[q].pc = "idle"
  BY <1>1, IdleType DEF Idle, Fresh
<1>6. WorkersOK'
  BY <1>5, IdleKnows DEF WorkersOK
<1>7. Knowledge'
  <2>1. \A q \in WorkerQueue : Knows(q)'
    BY <1>5, IdleKnows
  <2>2. /\ Knows(LA)' /\ Knows(PR)' /\ Knows(QR)' /\ Knows(AR)' /\ Knows(LF)'
        /\ Knows(TR)' /\ Knows(TX)' /\ Knows(LR)' /\ Knows(QX)'
    BY <2>1, QueueNames DEF Knows
  <2> QED
    BY <2>2 DEF Knows, Knowledge
<1>8. TypeOK'
  BY <1>1, <1>2, <1>5 DEF IInv, TypeOK
<1>9. \A u \in TrxId : IsRefund(u)' => Refund(u)
  BY <1>1, RefundsExist DEF IsRefund
<1>10. work'[TR].pc # "putTransfers"
  BY <1>5, QueueNames
<1> QED
  BY <1>1, <1>3, <1>4, <1>6, <1>7, <1>8, <1>9, <1>10, EnvironmentKept

-----------------------------------------------------------------------------
(* The invariant is inductive. *)

\* Empty tables, queues and ledgers satisfy the invariant.
LEMMA InvariantInit ==
  ASSUME Init
  PROVE  IInv
<1>1. TypeOK
  <2>1. NoMessage \in LpsMessage /\ NoTransaction \in Transaction
    BY DEF NoMessage, LpsMessage, LegacyMessageType, NoTransaction, Transaction
  <2>2. budget \in Budget
    BY BoundsAssumption DEF Init, Budget
  <2>3. /\ delivered \in [HubMessage -> 0..MaxDeliver]
        /\ queue \in [Queue -> Seq(Job)]
        /\ work \in [WorkerQueue -> Worker]
    BY BoundsAssumption, IdleType DEF Init
  <2> QED
    BY <2>1, <2>2, <2>3 DEF Init, TypeOK, QuoteState, TransferState
<1>2. MessagesOK /\ TransactionsOK /\ LinksOK /\ TransfersOK
  BY DEF Init, MessagesOK, TransactionsOK, LinksOK, TransfersOK, Stored,
     NoMessage, NoTransaction, Exists, Withdrawal, Refund
<1>3. SentOK /\ DeliveredOK /\ ResponsesOK
  BY DEF Init, SentOK, DeliveredOK, ResponsesOK, HasDelivered, NoTransaction
<1>4. QueuesOK
  BY DEF Init, QueuesOK
<1>5. /\ \A q \in WorkerQueue : work[q].pc = "idle"
      /\ LA \in WorkerQueue /\ PR \in WorkerQueue /\ QR \in WorkerQueue
      /\ AR \in WorkerQueue /\ LF \in WorkerQueue /\ TR \in WorkerQueue
      /\ TX \in WorkerQueue /\ LR \in WorkerQueue /\ QX \in WorkerQueue
  BY QueueNames DEF Init, Idle, Fresh
<1>6. WorkersOK
  BY <1>5 DEF WorkersOK, WorkerOK, StepsOf, Searching
<1>7. Knowledge
  BY <1>5 DEF Knowledge, KnowsLA, KnowsPR, KnowsQR, KnowsAR, KnowsLF, KnowsTR,
     KnowsTX, KnowsLR, KnowsQX, Searching
<1>8. ApprovedMeansCommitted /\ PasswordFollowsApproval /\ FulfilledOnce
  BY <1>5 DEF Init, ApprovedMeansCommitted, PasswordFollowsApproval,
     FulfilledOnce, At
<1>9. RefundOnlyCommitted
  BY DEF Init, RefundOnlyCommitted, IsRefund, NoTransaction
<1> QED
  BY <1>1, <1>2, <1>3, <1>4, <1>6, <1>7, <1>8, <1>9 DEF IInv

\* Every step of every handler keeps the invariant.
LEMMA HandlerStep ==
  ASSUME IInv, Handler
  PROVE  IInv'
BY LegacyAuthorizationRequestHandlerStep, PartiesResponseHandlerStep,
   TransactionRequestResponseHandlerStep, QuotesRequestHandlerStep,
   AuthorizationRequestHandlerStep, LegacyFinancialRequestHandlerStep,
   TransferRequestHandlerStep, TransferResponseHandlerStep,
   LegacyReversalHandlerStep, QuoteResponseHandlerStep DEF Handler

\* A step that changes nothing.
LEMMA StutterStep ==
  ASSUME IInv, UNCHANGED vars
  PROVE  IInv'
<1>1. /\ UNCHANGED <<lpsMessages, transactions, transfers, delivered>>
      /\ UNCHANGED <<links, transfers, sent, responses>>
      /\ UNCHANGED <<queue, work, quotes, budget>>
  BY DEF vars
<1>2. Grows /\ NoneBecomesAuthSent
  BY <1>1, OnlyAdds
<1>3. MessagesOK' /\ TransactionsOK' /\ QueuesOK' /\ DeliveredOK'
  BY <1>1, <1>2, MessagesKept, TransactionsKept, QueuesKept, DeliveredKept
<1>4. WorkersOK' /\ Knowledge'
  BY <1>1, <1>2, ResidentsKept
<1>5. TypeOK'
  BY <1>1 DEF IInv, TypeOK
<1>6. \A u \in TrxId : IsRefund(u)' => Refund(u)
  BY <1>1, RefundsExist DEF IsRefund
<1> QED
  BY <1>1, <1>2, <1>3, <1>4, <1>5, <1>6, EnvironmentKept

\* IInv is inductive: no step of a handler, of a terminal, of the hub, of the
\* clock and no failure takes it away.
THEOREM InvariantInductive == IInv /\ [Next]_vars => IInv'
<1> SUFFICES ASSUME IInv, [Next]_vars PROVE IInv'
  OBVIOUS
<1>1. CASE \E q \in WorkerQueue : Take(q)
  BY <1>1, TakeStep
<1>2. CASE Handler
  BY <1>2, HandlerStep
<1>3. CASE \E d \in Device : Terminal(d)
  BY <1>3, TerminalStep
<1>4. CASE \E h \in HubMessage : Deliver(h)
  BY <1>4, DeliverStep
<1>5. CASE \E t \in TrxId : ExpireTransaction(t) \/ ExpireQuote(t)
  BY <1>5, ExpireTransactionStep, ExpireQuoteStep
<1>6. CASE Crash
  BY <1>6, CrashStep
<1>7. CASE UNCHANGED vars
  BY <1>7, StutterStep
<1> QED
  BY <1>1, <1>2, <1>3, <1>4, <1>5, <1>6, <1>7 DEF Next

\* Every reachable state satisfies the invariant.
THEOREM Invariance == Spec => []IInv
<1>1. Init => IInv
  BY InvariantInit
<1>2. IInv /\ [Next]_vars => IInv'
  BY InvariantInductive
<1> QED
  BY <1>1, <1>2, PTL DEF Spec

-----------------------------------------------------------------------------
(* What follows. *)

\* Tables, queues, workers and ledgers hold what they are declared to hold.
THEOREM TypeCorrectness == Spec => []TypeOK
<1>1. IInv => TypeOK
  BY DEF IInv
<1> QED
  BY <1>1, Invariance, PTL

\* No terminal dispenses on an approval without a committed transfer of its
\* own transaction, whatever is repeated, fails or crashes
\* (transfer-response-handler.ts).
THEOREM ApprovalSafety == Spec => []ApprovedMeansCommitted
<1>1. IInv => ApprovedMeansCommitted
  BY DEF IInv
<1> QED
  BY <1>1, Invariance, PTL

\* No one-time password leaves the adaptor before the fees of its transaction
\* have been shown (legacy-financial-request-handler.ts).
THEOREM PasswordSafety == Spec => []PasswordFollowsApproval
<1>1. IInv => PasswordFollowsApproval
  BY DEF IInv
<1> QED
  BY <1>1, Invariance, PTL

\* No transfer is fulfilled twice, nor one without a row
\* (transfer-request-handler.ts).
THEOREM FulfilmentSafety == Spec => []FulfilledOnce
<1>1. IInv => FulfilledOnce
  BY DEF IInv
<1> QED
  BY <1>1, Invariance, PTL

\* Only committed withdrawals are refunded, on the advice of their terminal
\* (legacy-reversals-handler.ts).
THEOREM RefundSafety == Spec => []RefundOnlyCommitted
<1>1. IInv => RefundOnlyCommitted
  BY DEF IInv
<1> QED
  BY <1>1, Invariance, PTL

\* A refund goes the way of a refund, a withdrawal that of a withdrawal
\* (quote-response-handler.ts, parties-response-handler.ts).
THEOREM RefundWaySafety == Spec => []RefundGoesItsOwnWay
<1>1. IInv => RefundGoesItsOwnWay
  <2>1. SUFFICES ASSUME IInv, NEW t \in TrxId
                 PROVE  /\ (\E n \in 1..MaxDeliver :
                              <<"postTransfers", <<t, n>>>> \in sent) =>
                             IsRefund(t) /\ <<"postQuotes", t>> \in sent
                        /\ IsRefund(t) =>
                             /\ <<"postTransactionRequests", t>> \notin sent
                             /\ <<"putAuthorizations", t>> \notin sent
    BY DEF RefundGoesItsOwnWay
  <2>2. ASSUME NEW n \in 1..MaxDeliver, <<"postTransfers", <<t, n>>>> \in sent
        PROVE  IsRefund(t) /\ <<"postQuotes", t>> \in sent
    <3>1. <<t, n>> \in TransferId /\ <<t, n>>[1] = t
      BY DEF TransferId
    <3> QED
      BY <2>1, <2>2, <3>1 DEF IInv, SentOK, Refund
  <2>3. ASSUME NEW c \in {"postTransactionRequests", "putAuthorizations"},
               IsRefund(t)
        PROVE  <<c, t>> \notin sent
    BY <2>1, <2>3 DEF IInv, SentOK, WithdrawalCall, Withdrawal
  <2> QED
    BY <2>2, <2>3
<1> QED
  BY <1>1, Invariance, PTL

\* No terminal gets the answer to the request of another one: links stay on
\* one terminal (legacy-reversals-handler.ts).
THEOREM LinkSafety == Spec => []LinksStayOnTerminal
<1>1. IInv => LinksStayOnTerminal
  BY DEF IInv, LinksOK, LinksStayOnTerminal
<1> QED
  BY <1>1, Invariance, PTL

\* The quote of a withdrawal never comes to life again once it has expired, by
\* time or by a reversal: the quote row is never inserted twice, and only
\* quotes of refunds are updated (quote-request-handler.ts,
\* legacy-reversals-handler.ts, quote-response-handler.ts).
THEOREM ExpirySafety == Spec => ExpiredQuoteStaysExpired
<1> DEFINE Stays == \A t \in TrxId :
                      ~IsRefund(t) /\ quotes[t] = "expired"
                        => quotes'[t] = "expired"
<1>1. ASSUME IInv, Next PROVE Stays
  <2>1. CASE UNCHANGED quotes
    BY <2>1
  <2>2. CASE QRInsertQuote
    <3>1. work[QR].pc \notin Searching /\ QR \in WorkerQueue
      BY <2>2, QueueNames DEF QRInsertQuote, At, Searching
    <3>2. work[QR].trx \in TrxId /\ quotes \in [TrxId -> QuoteState]
      BY <1>1, <3>1, TrxOf DEF IInv, TypeOK
    <3> QED
      BY <2>2, <3>2 DEF QRInsertQuote
  <2>3. CASE LRExpireQuote \/ LRInsertQuote
    BY <1>1, <2>3 DEF LRExpireQuote, LRInsertQuote, IInv, TypeOK
  <2>4. CASE QXUpdateQuote
    <3>1. work[QX].job[2] \in TrxId /\ IsRefund(work[QX].job[2])
      BY <1>1, <2>4, HubTrxOf DEF QXUpdateQuote, At, Refund
    <3> QED
      BY <1>1, <2>4, <3>1 DEF QXUpdateQuote, IInv, TypeOK
  <2>5. CASE \E t \in TrxId : ExpireQuote(t)
    BY <1>1, <2>5 DEF ExpireQuote, IInv, TypeOK
  <2>6. CASE \/ LegacyAuthorizationRequestHandler \/ PartiesResponseHandler
             \/ TransactionRequestResponseHandler
    BY <2>1, <2>6
    DEF LegacyAuthorizationRequestHandler, LACancelIncomplete,
        LAInsertTransaction, LARelate, LAGetParties, LAThrow,
        PartiesResponseHandler, PRFind, PRUpdateParty, PRPostTransactionRequests,
        PRThrow, TransactionRequestResponseHandler, TRRRead, TRRRespond,
        TRRReject, TRRThrow, Throw, tables
  <2>7. CASE QuotesRequestHandler \/ AuthorizationRequestHandler
    BY <2>1, <2>2, <2>7
    DEF QuotesRequestHandler, QRValidate, QRPutQuotes, QRUpdateState,
        QRPutQuotesError, QRRefuse, QRThrow, AuthorizationRequestHandler,
        ARValidate, ARApprove, ARUpdateState, ARPutAuthorizationsError, ARRefuse,
        ARThrow, Throw, tables
  <2>8. CASE \/ LegacyFinancialRequestHandler \/ TransferRequestHandler
             \/ TransferResponseHandler
    BY <2>1, <2>8
    DEF LegacyFinancialRequestHandler, LFFind, LFRelate, LFPutAuthorizations,
        LFUpdateState, LFThrow, TransferRequestHandler, TRValidate,
        TRInsertTransfer, TRPutTransfers, TRUpdateState, TRUpdateTransfer,
        TRPutTransfersError, TRRefuse, TRThrow, TransferResponseHandler, TXRead,
        TXApprove, TXUpdateState, TXUpdateTransfer, TXThrow, Throw, tables
  <2>9. CASE LegacyReversalHandler \/ QuoteResponseHandler
    BY <2>1, <2>3, <2>4, <2>9
    DEF LegacyReversalHandler, LRCheckReplay, LRFind, LRRelate, LRCancel,
        LRInsertRefund, LRRelateRefund, LRPostQuotes, LRThrow,
        QuoteResponseHandler, QXInsertTransfer, QXPostTransfers, QXThrow, Throw,
        tables
  <2>10. CASE Handler
    BY <2>6, <2>7, <2>8, <2>9, <2>10 DEF Handler
  <2>11. CASE \/ \E q \in WorkerQueue : Take(q)
              \/ \E h \in HubMessage : Deliver(h)
              \/ Crash
    BY <2>1, <2>11 DEF Take, Deliver, Crash, tables
  <2>12. CASE \/ \E d \in Device : Terminal(d)
              \/ \E t \in TrxId : ExpireTransaction(t)
    BY <2>1, <2>12 DEF Terminal, SendAuthorizationRequest, SendFinancialRequest,
       SendReversalAdvice, Receive, ExpireTransaction
  <2> QED
    BY <1>1, <2>5, <2>10, <2>11, <2>12 DEF Next
<1>2. IInv /\ [Next]_vars => [Stays]_vars
  BY <1>1
<1> QED
  BY <1>2, Invariance, PTL DEF Spec, ExpiredQuoteStaysExpired
=============================================================================
