------------------------- MODULE OrchestratorFrame -------------------------
(***************************************************************************)
(* What the steps of Orchestrator do and never take back; each part of its *)
(* invariant, for a step that leaves alone the state this part is about;   *)
(* and together, what is left to prove of a step of a worker.              *)
(***************************************************************************)
EXTENDS OrchestratorInvariant, TLAPS

-----------------------------------------------------------------------------
(* Single steps: their types, and what no step takes back. *)

\* Only the worker of q moves.
Only(q) == \A p \in WorkerQueue : p # q => work'[p] = work[p]

\* What a worker that goes on at another step keeps.
LEMMA GotoWork ==
  ASSUME TypeOK, NEW q \in WorkerQueue, NEW pc \in Pc, Goto(q, pc)
  PROVE  /\ work' \in [WorkerQueue -> Worker]
         /\ Only(q)
         /\ work'[q].pc = pc
         /\ work'[q].job = work[q].job
         /\ work'[q].trx = work[q].trx
         /\ work'[q].nth = work[q].nth
         /\ work'[q].seen = work[q].seen
BY DEF TypeOK, Goto, Only, Worker

\* What a worker holds once it has its transaction.
LEMMA BeginWork ==
  ASSUME TypeOK, NEW q \in WorkerQueue, NEW pc \in Pc, NEW t \in TrxId,
         NEW n \in 0..MaxDeliver, NEW seen \in SUBSET Seen,
         Begin(q, pc, t, n, seen)
  PROVE  /\ work' \in [WorkerQueue -> Worker]
         /\ Only(q)
         /\ work'[q].pc = pc
         /\ work'[q].job = work[q].job
         /\ work'[q].trx = t
         /\ work'[q].nth = n
         /\ work'[q].seen = seen
BY DEF TypeOK, Begin, Only, Worker

\* An idle worker is a worker.
LEMMA IdleType == Idle \in Worker
BY BoundsAssumption DEF Idle, Fresh, Worker, Pc, NoJob

\* A worker that is done is idle, and no other one moves.
LEMMA DoneWork ==
  ASSUME TypeOK, NEW q \in WorkerQueue, Done(q)
  PROVE  /\ work' \in [WorkerQueue -> Worker]
         /\ Only(q)
         /\ work'[q] = Idle
         /\ work'[q].pc = "idle"
BY IdleType DEF TypeOK, Done, Only, Idle, Fresh

\* A worker that takes a job starts with the first of its queue.
LEMMA TakeWork ==
  ASSUME TypeOK, NEW q \in WorkerQueue, Take(q)
  PROVE  /\ work' \in [WorkerQueue -> Worker]
         /\ Only(q)
         /\ work'[q].pc = "start"
         /\ work'[q].job = queue[q][1]
         /\ queue[q] # <<>>
         /\ queue' \in [Queue -> Seq(Job)]
         /\ queue'[q] = Tail(queue[q])
         /\ \A p \in Queue : p # q => queue'[p] = queue[p]
<1>1. q \in Queue /\ queue[q] \in Seq(Job) /\ queue[q] # <<>>
  BY DEF TypeOK, Take, Queue
<1>2. Head(queue[q]) \in Job /\ Head(queue[q]) = queue[q][1] /\ Tail(queue[q]) \in Seq(Job)
  BY <1>1
<1>3. Fresh("start", Head(queue[q])) \in Worker
  BY <1>2, BoundsAssumption DEF Worker, Pc, Fresh
<1> QED
  BY <1>1, <1>2, <1>3 DEF TypeOK, Take, Only, Fresh

-----------------------------------------------------------------------------
(* What no step takes back. *)

\* Rows of transactions stay, and keep what is written once.
RowsStay ==
  \A t \in TrxId :
    Exists(t) =>
      /\ transactions'[t].state # "none"
      /\ transactions'[t].original = transactions[t].original
      /\ transactions'[t].payer = transactions[t].payer
      /\ transactions'[t].lpsKey = transactions[t].lpsKey
      /\ transactions[t].fspId => transactions'[t].fspId

\* The rows of lpsMessages never change.
MessagesStay ==
  \A m \in MsgId : Stored(m) => lpsMessages'[m] = lpsMessages[m]

TransfersStay ==
  \A x \in TransferId : transfers[x] # "none" => transfers'[x] # "none"

\* Only authorizationRequestHandler makes a transaction authSent.
NoneBecomesAuthSent ==
  \A t \in TrxId :
    transactions'[t].state = "authSent" => transactions[t].state = "authSent"

DeliveredStay ==
  \A h \in HubMessage : HasDelivered(h) => delivered'[h] > 0

Grows ==
  /\ RowsStay
  /\ MessagesStay
  /\ TransfersStay
  /\ DeliveredStay
  /\ links \subseteq links'
  /\ sent \subseteq sent'
  /\ responses \subseteq responses'

\* Writing the state of a transaction changes no other row.
LEMMA SetStateStep ==
  ASSUME TypeOK, NEW t \in TrxId, NEW state \in TransactionState,
         SetState(t, state), Exists(t)
  PROVE  /\ transactions' \in [TrxId -> Transaction]
         /\ RowsStay
         /\ \A u \in TrxId : u # t => transactions'[u] = transactions[u]
         /\ transactions'[t].state = state
         /\ transactions'[t].fspId = transactions[t].fspId
         /\ state # "authSent" => NoneBecomesAuthSent
<1>1. transactions \in [TrxId -> Transaction] /\ state # "none"
  BY DEF TypeOK, TransactionState
<1>2. transactions' = [transactions EXCEPT ![t].state = state]
  BY DEF SetState
<1>3. /\ transactions' \in [TrxId -> Transaction]
      /\ \A u \in TrxId : u # t => transactions'[u] = transactions[u]
      /\ transactions'[t] = [transactions[t] EXCEPT !.state = state]
  BY <1>1, <1>2 DEF Transaction
<1> QED
  BY <1>1, <1>3 DEF Exists, Transaction, RowsStay, NoneBecomesAuthSent

\* Inserting a row changes no other one.
LEMMA InsertStep ==
  ASSUME TypeOK, TransactionsOK, NEW t \in NextTrx, NEW row \in Transaction,
         row.state = "transactionReceived",
         transactions' = [transactions EXCEPT ![t] = row]
  PROVE  /\ t \in TrxId
         /\ ~Exists(t)
         /\ transactions' \in [TrxId -> Transaction]
         /\ RowsStay
         /\ \A u \in TrxId : u # t => transactions'[u] = transactions[u]
         /\ transactions'[t] = row
         /\ NoneBecomesAuthSent
BY DEF TypeOK, NextTrx, Exists, RowsStay, NoneBecomesAuthSent

-----------------------------------------------------------------------------
(* What follows for the invariant from a step that only adds. *)

\* What a transaction is, it stays.
LEMMA KindsStay ==
  ASSUME Grows, NEW t \in TrxId
  PROVE  /\ Withdrawal(t) => Withdrawal(t)'
         /\ Refund(t) => Refund(t)'
BY DEF Grows, RowsStay, Withdrawal, Refund, Exists, IsRefund

\* What the hub has committed it has committed for good.
LEMMA CommittedStays ==
  ASSUME Grows, NEW x \in TransferId, Committed(x)
  PROVE  Committed(x)'
BY DEF Grows, DeliveredStay, Committed, HasDelivered, HubMessage, AboutTransfer

\* No message loses its transaction.
LEMMA LinkedStays ==
  ASSUME IInv, Grows, NEW t \in TrxId, NEW type,
         NEW m \in Linked(t, type)
  PROVE  m \in MsgId /\ m \in Linked(t, type)'
BY DEF IInv, LinksOK, Grows, MessagesStay, Linked, Stored

\* Fees that have been shown stay shown.
LEMMA ShownStays ==
  ASSUME IInv, Grows, NEW t \in TrxId, Exists(t), Shown(t)
  PROVE  Shown(t)'
<1>1. transactions'[t].fspId /\ <<"putQuotes", t>> \in sent'
  BY DEF Grows, RowsStay, Shown
<1>2. PICK m \in Linked(t, "authorizationRequest") :
        <<m, "approved">> \in responses
  BY DEF Shown
<1>3. m \in Linked(t, "authorizationRequest")'
  BY <1>2, LinkedStays
<1>4. <<m, "approved">> \in responses'
  BY <1>2 DEF Grows
<1> QED
  BY <1>1, <1>3, <1>4 DEF Shown

\* A job of a legacy queue names a stored message.
LEMMA LegacyJob ==
  ASSUME NEW q \in LegacyQueue, NEW j, Justified(q, j)
  PROVE  j[2] \in MsgId /\ Stored(j[2])
BY DEF Justified, LpsJob, Stored, LegacyQueue, LA, LF

\* What justifies a job is never taken back.
LEMMA JustifiedStays ==
  ASSUME Grows, NEW q \in Queue, NEW j, Justified(q, j)
  PROVE  Justified(q, j)'
<1>1. CASE q \in LegacyQueue
  BY <1>1, LegacyJob DEF Justified, Grows, MessagesStay
<1>2. CASE q \notin LegacyQueue
  BY <1>2 DEF Justified, Grows, DeliveredStay, HasDelivered
<1> QED
  BY <1>1, <1>2

\* A refund that is due stays due.
LEMMA DueStays ==
  ASSUME IInv, Grows, NEW t \in TrxId, NEW m \in MsgId, Stored(m), Due(t, m)
  PROVE  Due(t, m)'
<1>1. Withdrawal(t)' /\ transactions'[t].lpsKey = transactions[t].lpsKey
  BY KindsStay DEF Due, Withdrawal, Grows, RowsStay
<1>2. lpsMessages'[m] = lpsMessages[m]
  BY DEF Grows, MessagesStay
<1>3. PICK n \in 1..MaxDeliver : Committed(<<t, n>>)
  BY DEF Due
<1>4. Committed(<<t, n>>)'
  BY <1>3, CommittedStays DEF TransferId
<1> QED
  BY <1>1, <1>2, <1>3, <1>4 DEF Due, Grows

\* What a worker is about.
LEMMA WorkerFacts ==
  ASSUME IInv, Grows, NEW q \in WorkerQueue
  PROVE  /\ work[q].pc \in StepsOf(q)
         /\ work[q].pc # "idle" /\ q \in LegacyQueue =>
              /\ JobMessage(q) \in MsgId
              /\ Stored(JobMessage(q))
              /\ lpsMessages'[JobMessage(q)] = lpsMessages[JobMessage(q)]
         /\ work[q].pc \notin Searching =>
              /\ work[q].trx \in TrxId
              /\ q \in {LA, PR, TRR, QR, AR, LF, TR} => Withdrawal(work[q].trx)
              /\ q = QX => Refund(work[q].trx)
              /\ q = QX => <<"postQuotes", work[q].trx>> \in sent
<1>1. WorkerOK(q)
  BY DEF IInv, WorkersOK
<1>2. work[q].pc # "idle" /\ q \in LegacyQueue =>
        /\ JobMessage(q) \in MsgId
        /\ Stored(JobMessage(q))
  BY <1>1, LegacyJob DEF WorkerOK, JobMessage
<1>3. work[q].pc # "idle" /\ q \in LegacyQueue =>
        lpsMessages'[JobMessage(q)] = lpsMessages[JobMessage(q)]
  BY <1>2 DEF Grows, MessagesStay
<1> QED
  BY <1>1, <1>2, <1>3 DEF WorkerOK

\* The job of a busy worker stays justified.
LEMMA JobStays ==
  ASSUME IInv, Grows, NEW q \in WorkerQueue, work[q].pc # "idle",
         work'[q].job = work[q].job
  PROVE  Justified(q, work[q].job)'
<1>1. \A j : j = work[q].job => Justified(q, j)
  BY DEF IInv, WorkersOK, WorkerOK
<1>2. \A j : j = work[q].job => Justified(q, j)'
  BY <1>1, JustifiedStays DEF Queue
<1>3. \A j : j = work'[q].job => Justified(q, j)'
  BY <1>2
<1> QED
  BY <1>3 DEF Justified

\* The transaction of a busy worker stays what it is.
LEMMA TrxStays ==
  ASSUME IInv, Grows, NEW q \in WorkerQueue, work[q].pc \notin Searching,
         work'[q].trx = work[q].trx
  PROVE  /\ q \in {LA, PR, TRR, QR, AR, LF, TR} => Withdrawal(work[q].trx)'
         /\ q = QX => Refund(work[q].trx)'
         /\ q = QX => <<"postQuotes", work[q].trx>> \in sent'
<1>1. work[q].trx \in TrxId
  BY WorkerFacts
<1>2. \A t \in TrxId : t = work[q].trx =>
        /\ q \in {LA, PR, TRR, QR, AR, LF, TR} => Withdrawal(t)
        /\ q = QX => Refund(t)
        /\ q = QX => <<"postQuotes", t>> \in sent
  BY WorkerFacts
<1>3. \A t \in TrxId : t = work[q].trx =>
        /\ q \in {LA, PR, TRR, QR, AR, LF, TR} => Withdrawal(t)'
        /\ q = QX => Refund(t)'
        /\ q = QX => <<"postQuotes", t>> \in sent'
  BY <1>2, KindsStay DEF Grows
<1> QED
  BY <1>1, <1>3 DEF Withdrawal, Refund, Exists, IsRefund

\* A row keeps its terminal, its origin and its FSP.
LEMMA RowStays ==
  ASSUME Grows, NEW t \in TrxId, Exists(t)
  PROVE  /\ Exists(t)'
         /\ transactions'[t].lpsKey = transactions[t].lpsKey
         /\ transactions'[t].original = transactions[t].original
         /\ transactions[t].fspId => transactions'[t].fspId
BY DEF Grows, RowsStay, Exists

\* A worker that does not move keeps what it knows.
LEMMA KnowsLAStays ==
  ASSUME IInv, Grows, work'[LA] = work[LA]
  PROVE  KnowsLA'
<1>1. SUFFICES ASSUME work[LA].pc \in {"relate", "getParties"}
               PROVE  OwnMessage(LA)'
  BY DEF KnowsLA
<1>2. /\ work[LA].trx \in TrxId /\ Exists(work[LA].trx)
      /\ lpsMessages'[JobMessage(LA)] = lpsMessages[JobMessage(LA)]
  BY <1>1, WorkerFacts
  DEF WorkerQueue, LegacyQueue, LA, Searching, Withdrawal
<1>3. transactions'[work[LA].trx].lpsKey = transactions[work[LA].trx].lpsKey
  BY <1>2, RowStays
<1> QED
  BY <1>1, <1>2, <1>3 DEF IInv, Knowledge, KnowsLA, OwnMessage, JobMessage

\* For partiesResponseHandler.
LEMMA KnowsPRStays ==
  ASSUME IInv, Grows, work'[PR] = work[PR]
  PROVE  KnowsPR'
<1>1. SUFFICES ASSUME work[PR].pc = "postTransactionRequests"
               PROVE  transactions'[work[PR].trx].fspId
  BY DEF KnowsPR
<1>2. work[PR].trx \in TrxId /\ Exists(work[PR].trx)
  BY <1>1, WorkerFacts DEF WorkerQueue, PR, Searching, Withdrawal
<1> QED
  BY <1>1, <1>2, RowStays DEF IInv, Knowledge, KnowsPR

\* For quotesRequestHandler.
LEMMA KnowsQRStays ==
  ASSUME IInv, Grows, work'[QR] = work[QR]
  PROVE  KnowsQR'
<1>1. SUFFICES ASSUME work[QR].pc \in {"insertQuote", "putQuotes"}
               PROVE  transactions'[work[QR].trx].fspId
  BY DEF KnowsQR
<1>2. work[QR].trx \in TrxId /\ Exists(work[QR].trx)
  BY <1>1, WorkerFacts DEF WorkerQueue, QR, Searching, Withdrawal
<1> QED
  BY <1>1, <1>2, RowStays DEF IInv, Knowledge, KnowsQR

\* For authorizationRequestHandler.
LEMMA KnowsARStays ==
  ASSUME IInv, Grows, work'[AR] = work[AR]
  PROVE  KnowsAR'
<1>1. SUFFICES ASSUME work[AR].pc \in {"approve", "updateState"}
               PROVE  KnowsAR'
  BY DEF KnowsAR
<1>2. work[AR].trx \in TrxId /\ Exists(work[AR].trx)
  BY <1>1, WorkerFacts DEF WorkerQueue, AR, Searching, Withdrawal
<1>3. /\ transactions'[work[AR].trx].fspId
      /\ <<"putQuotes", work[AR].trx>> \in sent'
  BY <1>1, <1>2, RowStays DEF IInv, Knowledge, KnowsAR, Grows
<1>4. work[AR].pc = "updateState" => Shown(work[AR].trx)'
  BY <1>2, ShownStays DEF IInv, Knowledge, KnowsAR
<1> QED
  BY <1>3, <1>4 DEF KnowsAR, Shown, Linked

\* For legacyFinancialRequestHandler.
LEMMA KnowsLFStays ==
  ASSUME IInv, Grows, work'[LF] = work[LF]
  PROVE  KnowsLF'
<1>1. SUFFICES ASSUME work[LF].pc \in {"relate", "putAuthorizations"}
               PROVE  KnowsLF'
  BY DEF KnowsLF
<1>2. /\ work[LF].trx \in TrxId /\ Exists(work[LF].trx)
      /\ lpsMessages'[JobMessage(LF)] = lpsMessages[JobMessage(LF)]
  BY <1>1, WorkerFacts
  DEF WorkerQueue, LegacyQueue, LF, Searching, Withdrawal
<1>3. Shown(work[LF].trx)' /\ OwnMessage(LF)'
  BY <1>1, <1>2, RowStays, ShownStays
  DEF IInv, Knowledge, KnowsLF, OwnMessage, JobMessage, Shown, Linked
<1>4. work[LF].pc = "putAuthorizations" =>
        <<work[LF].trx, JobMessage(LF)>> \in links'
  BY DEF IInv, Knowledge, KnowsLF, Grows
<1> QED
  BY <1>3, <1>4 DEF KnowsLF, JobMessage, Shown, Linked

\* For transferRequestHandler.
LEMMA KnowsTRStays ==
  ASSUME IInv, Grows, work'[TR] = work[TR]
  PROVE  KnowsTR'
BY DEF IInv, Knowledge, KnowsTR, WorkTransfer, Grows, TransfersStay, Searching

\* For transferResponseHandler.
LEMMA KnowsTXStays ==
  ASSUME IInv, Grows, work'[TX] = work[TX]
  PROVE  KnowsTX'
<1>1. SUFFICES ASSUME work[TX].pc \notin Searching
               PROVE  KnowsTX'
  BY DEF KnowsTX
<1>2. /\ WorkTransfer(TX) \in TransferId
      /\ transfers[WorkTransfer(TX)] # "none"
      /\ Committed(WorkTransfer(TX))
  BY <1>1 DEF IInv, Knowledge, KnowsTX
<1>3. Committed(WorkTransfer(TX))' /\ transfers'[WorkTransfer(TX)] # "none"
  BY <1>2, CommittedStays DEF Grows, TransfersStay, WorkTransfer, Committed,
     HasDelivered
<1> QED
  BY <1>2, <1>3 DEF KnowsTX, WorkTransfer

\* For legacyReversalHandler.
LEMMA KnowsLRStays ==
  ASSUME IInv, Grows, work'[LR] = work[LR]
  PROVE  KnowsLR'
<1> DEFINE t == work[LR].trx
           m == JobMessage(LR)
<1>1. SUFFICES ASSUME work[LR].pc \notin Searching
               PROVE  KnowsLR'
  BY DEF KnowsLR, Searching
<1>2. /\ t \in TrxId /\ m \in MsgId /\ Stored(m)
      /\ lpsMessages'[m] = lpsMessages[m]
      /\ m' = m /\ t' = t
  BY <1>1, WorkerFacts DEF WorkerQueue, LegacyQueue, LR, Searching, JobMessage
<1>3. work[LR].pc \in {"relate", "cancel", "expireQuote", "insertRefund"} =>
        /\ Withdrawal(t)'
        /\ OwnMessage(LR)'
        /\ "committed" \in work[LR].seen => Due(t, m)'
  BY <1>2, KindsStay, RowStays, DueStays
  DEF IInv, Knowledge, KnowsLR, OwnMessage, Withdrawal
<1>4. work[LR].pc \in {"relateRefund", "insertQuote", "postQuotes"} =>
        Refund(t)' /\ OwnMessage(LR)'
  BY <1>2, KindsStay, RowStays
  DEF IInv, Knowledge, KnowsLR, OwnMessage, Refund
<1>5. /\ work[LR].pc \in {"cancel", "expireQuote", "insertRefund"} =>
           <<t, m>> \in links'
      /\ work[LR].pc = "insertRefund" => "committed" \in work[LR].seen
  BY DEF IInv, Knowledge, KnowsLR, Grows
<1> QED
  BY <1>2, <1>3, <1>4, <1>5 DEF KnowsLR

\* For quoteResponseHandler.
LEMMA KnowsQXStays ==
  ASSUME IInv, work'[QX] = work[QX]
  PROVE  KnowsQX'
BY DEF IInv, Knowledge, KnowsQX, WorkTransfer

-----------------------------------------------------------------------------
(* The parts of the invariant. *)

\* What the worker of q must know of its own state.
Knows(q) ==
  /\ q = LA => KnowsLA
  /\ q = PR => KnowsPR
  /\ q = QR => KnowsQR
  /\ q = AR => KnowsAR
  /\ q = LF => KnowsLF
  /\ q = TR => KnowsTR
  /\ q = TX => KnowsTX
  /\ q = LR => KnowsLR
  /\ q = QX => KnowsQX

\* Knows(q) is the part of Knowledge that is about the worker of q.
LEMMA KnowsOwn ==
  /\ KnowsLA' => Knows(LA)'
  /\ KnowsPR' => Knows(PR)'
  /\ Knows(TRR)'
  /\ KnowsQR' => Knows(QR)'
  /\ KnowsAR' => Knows(AR)'
  /\ KnowsLF' => Knows(LF)'
  /\ KnowsTR' => Knows(TR)'
  /\ KnowsTX' => Knows(TX)'
  /\ KnowsLR' => Knows(LR)'
  /\ KnowsQX' => Knows(QX)'
BY DEF Knows, LA, PR, TRR, QR, AR, LF, TR, TX, LR, QX

\* Only the worker that moves can lose what it knows.
LEMMA KnowledgeKept ==
  ASSUME IInv, Grows, NEW q \in WorkerQueue, Only(q), Knows(q)'
  PROVE  Knowledge'
<1>1. \A p \in {LA, PR, QR, AR, LF, TR, TX, LR, QX} :
        p \in WorkerQueue /\ (p # q => work'[p] = work[p])
  BY DEF Only, WorkerQueue, LegacyQueue, LA, PR, QR, AR, LF, TR, TX, LR, QX
<1>2. KnowsLA' /\ KnowsPR' /\ KnowsQR'
  BY <1>1, KnowsLAStays, KnowsPRStays, KnowsQRStays DEF Knows
<1>3. KnowsAR' /\ KnowsLF' /\ KnowsTR'
  BY <1>1, KnowsARStays, KnowsLFStays, KnowsTRStays DEF Knows
<1>4. KnowsTX' /\ KnowsLR' /\ KnowsQX'
  BY <1>1, KnowsTXStays, KnowsLRStays, KnowsQXStays DEF Knows
<1> QED
  BY <1>2, <1>3, <1>4 DEF Knowledge

\* A worker that does not move stays in order.
LEMMA WorkerStays ==
  ASSUME IInv, Grows, NEW q \in WorkerQueue, work'[q] = work[q]
  PROVE  WorkerOK(q)'
<1>1. work'[q].pc \in StepsOf(q)
  BY WorkerFacts
<1>2. work'[q].pc # "idle" => Justified(q, work[q].job)'
  BY JobStays
<1>3. work'[q].pc \notin Searching =>
        /\ work'[q].trx \in TrxId
        /\ q \in {LA, PR, TRR, QR, AR, LF, TR} => Withdrawal(work[q].trx)'
        /\ q = QX =>
             Refund(work[q].trx)' /\ <<"postQuotes", work'[q].trx>> \in sent'
  BY WorkerFacts, TrxStays
<1> QED
  BY <1>1, <1>2, <1>3 DEF WorkerOK

\* Only the worker that moves can get out of order.
LEMMA WorkersKept ==
  ASSUME IInv, Grows, NEW q \in WorkerQueue, Only(q), WorkerOK(q)'
  PROVE  WorkersOK'
<1>1. SUFFICES ASSUME NEW p \in WorkerQueue
               PROVE  WorkerOK(p)'
  BY DEF WorkersOK
<1>2. CASE p = q
  BY <1>2
<1>3. CASE p # q
  BY <1>3, WorkerStays DEF Only
<1> QED
  BY <1>2, <1>3

\* A worker that is done owes nothing.
LEMMA IdleKnows ==
  ASSUME NEW q \in WorkerQueue, work'[q].pc = "idle"
  PROVE  WorkerOK(q)' /\ Knows(q)'
<1>1. WorkerOK(q)'
  BY DEF WorkerOK, StepsOf, Searching
<1>2. Knows(q)'
  BY DEF Knows, KnowsLA, KnowsPR, KnowsQR, KnowsAR, KnowsLF, KnowsTR, KnowsTX,
     KnowsLR, KnowsQX, Searching
<1> QED
  BY <1>1, <1>2

-----------------------------------------------------------------------------
\* Transactions nobody writes stay in order.
LEMMA TransactionsKept ==
  ASSUME IInv, UNCHANGED transactions
  PROVE  TransactionsOK'
BY DEF IInv, TransactionsOK, Exists, Withdrawal, Refund, IsRefund

\* Messages nobody writes stay in order.
LEMMA MessagesKept ==
  ASSUME IInv, UNCHANGED lpsMessages
  PROVE  MessagesOK'
BY DEF IInv, MessagesOK, Stored

\* The links stay in order when the new ones are.
LEMMA LinksKept ==
  ASSUME IInv, Grows,
         \A t \in TrxId, m \in MsgId :
           <<t, m>> \in links' /\ <<t, m>> \notin links =>
             /\ Exists(t) /\ Stored(m)
             /\ transactions[t].lpsKey = lpsMessages[m].lpsKey
             /\ IsRefund(t) => lpsMessages[m].type = "reversalRequest"
  PROVE  LinksOK'
<1>1. SUFFICES ASSUME NEW t \in TrxId, NEW m \in MsgId, <<t, m>> \in links'
               PROVE  /\ Exists(t)' /\ Stored(m)'
                      /\ transactions'[t].lpsKey = lpsMessages'[m].lpsKey
                      /\ IsRefund(t)' =>
                           lpsMessages'[m].type = "reversalRequest"
  BY DEF LinksOK
<1>2. /\ Exists(t) /\ Stored(m)
      /\ transactions[t].lpsKey = lpsMessages[m].lpsKey
      /\ IsRefund(t) => lpsMessages[m].type = "reversalRequest"
  BY <1>1 DEF IInv, LinksOK
<1>3. lpsMessages'[m] = lpsMessages[m]
  BY <1>2 DEF Grows, MessagesStay
<1> QED
  BY <1>2, <1>3, RowStays DEF Stored, IsRefund

\* Transfers nobody writes stay in order.
LEMMA TransfersKept ==
  ASSUME IInv, Grows, UNCHANGED transfers
  PROVE  TransfersOK'
<1>1. SUFFICES ASSUME NEW x \in TransferId
               PROVE  /\ transfers'[x] # "none" => Exists(x[1])'
                      /\ transfers'[x] = "COMMITTED" => Committed(x)'
  BY DEF TransfersOK
<1>2. /\ transfers[x] # "none" => Exists(x[1])
      /\ transfers[x] = "COMMITTED" => Committed(x)
  BY DEF IInv, TransfersOK
<1>3. x[1] \in TrxId
  BY DEF TransferId
<1> QED
  BY <1>2, <1>3, RowStays, CommittedStays

\* A call to be added is one that may be made.
MayCall(S) ==
  /\ \A c \in WithdrawalCall, t \in TrxId : <<c, t>> \in S => Withdrawal(t)
  /\ \A t \in TrxId :
       /\ <<"postTransactionRequests", t>> \in S => transactions[t].fspId
       /\ <<"putQuotes", t>> \in S => transactions[t].fspId
       /\ <<"postQuotes", t>> \in S => Refund(t)
  /\ \A x \in TransferId :
       /\ <<"putTransfers", x>> \in S => Withdrawal(x[1]) /\ transfers[x] # "none"
       /\ <<"postTransfers", x>> \in S =>
            Refund(x[1]) /\ <<"postQuotes", x[1]>> \in sent

\* The calls stay in order when the new ones are, and a transaction
\* becomes authSent only once its fees have been shown.
LEMMA SentKept ==
  ASSUME IInv, Grows,
         MayCall(sent' \ sent),
         \A t \in TrxId :
           transactions'[t].state = "authSent" =>
             transactions[t].state = "authSent" \/ (Exists(t) /\ Shown(t))
  PROVE  SentOK'
<1>1. ASSUME NEW c \in WithdrawalCall, NEW t \in TrxId, <<c, t>> \in sent'
      PROVE  Withdrawal(t)'
  <2>1. Withdrawal(t)
    BY <1>1 DEF IInv, SentOK, MayCall
  <2> QED
    BY <2>1, KindsStay
<1>2. ASSUME NEW t \in TrxId
      PROVE  /\ <<"postTransactionRequests", t>> \in sent' =>
                  transactions'[t].fspId
             /\ <<"putQuotes", t>> \in sent' => transactions'[t].fspId
             /\ <<"postQuotes", t>> \in sent' => Refund(t)'
             /\ transactions'[t].state = "authSent" => Shown(t)'
  <2>1. \A c \in {"postTransactionRequests", "putQuotes"} :
          <<c, t>> \in sent' => Withdrawal(t) /\ transactions[t].fspId
    BY DEF IInv, SentOK, MayCall, WithdrawalCall
  <2>2. <<"postQuotes", t>> \in sent' => Refund(t)
    BY DEF IInv, SentOK, MayCall
  <2>3. transactions'[t].state = "authSent" => Exists(t) /\ Shown(t)
    BY DEF IInv, SentOK, Exists
  <2>4. transactions'[t].state = "authSent" => Shown(t)'
    BY <2>3, ShownStays
  <2>5. <<"postQuotes", t>> \in sent' => Refund(t)'
    BY <2>2, KindsStay
  <2> QED
    BY <2>1, <2>4, <2>5, RowStays DEF Withdrawal
<1>3. ASSUME NEW x \in TransferId
      PROVE  /\ <<"putTransfers", x>> \in sent' =>
                  Withdrawal(x[1])' /\ transfers'[x] # "none"
             /\ <<"postTransfers", x>> \in sent' =>
                  Refund(x[1])' /\ <<"postQuotes", x[1]>> \in sent'
  <2>1. x[1] \in TrxId
    BY DEF TransferId
  <2>2. /\ <<"putTransfers", x>> \in sent' =>
             Withdrawal(x[1]) /\ transfers[x] # "none"
        /\ <<"postTransfers", x>> \in sent' =>
             Refund(x[1]) /\ <<"postQuotes", x[1]>> \in sent
    BY DEF IInv, SentOK, MayCall
  <2>3. /\ Withdrawal(x[1]) => Withdrawal(x[1])'
        /\ Refund(x[1]) => Refund(x[1])'
    BY <2>1, KindsStay
  <2> QED
    BY <2>2, <2>3 DEF Grows, TransfersStay
<1> QED
  BY <1>1, <1>2, <1>3 DEF SentOK

\* What the hub has been prompted to send stays prompted.
LEMMA DeliveredKept ==
  ASSUME IInv, Grows, UNCHANGED delivered
  PROVE  DeliveredOK'
BY DEF IInv, DeliveredOK, HasDelivered, Grows, PromptedBy

\* The answers stay in order when the new ones name stored messages.
LEMMA ResponsesKept ==
  ASSUME IInv, Grows,
         \A m \in MsgId, r \in {"approved", "invalid"} :
           <<m, r>> \in responses' => <<m, r>> \in responses \/ Stored(m)
  PROVE  ResponsesOK'
BY DEF IInv, ResponsesOK, Grows, MessagesStay, Stored

\* Jobs that wait stay justified.
LEMMA QueuesKept ==
  ASSUME IInv, Grows, UNCHANGED queue
  PROVE  QueuesOK'
<1>1. SUFFICES ASSUME NEW q \in Queue, NEW i \in 1..Len(queue'[q])
               PROVE  Justified(q, queue[q][i])'
  BY DEF QueuesOK
<1>2. \A j : j = queue[q][i] => Justified(q, j)
  BY <1>1 DEF IInv, QueuesOK
<1>3. \A j : j = queue[q][i] => Justified(q, j)'
  BY <1>2, JustifiedStays
<1> QED
  BY <1>3 DEF Justified

\* What has earned an approval keeps it.
LEMMA EarnedStays ==
  ASSUME IInv, Grows, NEW m \in MsgId, Stored(m), Earned(m)
  PROVE  Earned(m)'
<1>1. lpsMessages'[m] = lpsMessages[m]
  BY DEF Grows, MessagesStay
<1>2. \A t \in TrxId :
        <<t, m>> \in links =>
          <<t, m>> \in links' /\ transactions'[t].original = transactions[t].original
  BY RowStays DEF IInv, LinksOK, Grows
<1>3. \A x \in TransferId : x[1] \in TrxId /\ (Committed(x) => Committed(x)')
  BY CommittedStays DEF TransferId
<1>4. sent \subseteq sent'
  BY DEF Grows
<1>5. CASE lpsMessages[m].type = "financialRequest"
  <2>1. PICK x \in TransferId :
          /\ <<x[1], m>> \in links /\ ~IsRefund(x[1])
          /\ <<"putTransfers", x>> \in sent /\ Committed(x)
    BY <1>5 DEF Earned
  <2>2. /\ <<x[1], m>> \in links' /\ ~IsRefund(x[1])'
        /\ <<"putTransfers", x>> \in sent' /\ Committed(x)'
    BY <2>1, <1>2, <1>3, <1>4 DEF IsRefund
  <2> QED
    BY <1>1, <1>5, <2>2 DEF Earned
<1>6. CASE lpsMessages[m].type = "reversalRequest"
  <2>1. PICK x \in TransferId :
          /\ <<x[1], m>> \in links /\ IsRefund(x[1])
          /\ <<"postTransfers", x>> \in sent /\ Committed(x)
    BY <1>6 DEF Earned
  <2>2. /\ <<x[1], m>> \in links' /\ IsRefund(x[1])'
        /\ <<"postTransfers", x>> \in sent' /\ Committed(x)'
    BY <2>1, <1>2, <1>3, <1>4 DEF IsRefund
  <2> QED
    BY <1>1, <1>6, <2>2 DEF Earned
<1>7. CASE lpsMessages[m].type \notin {"financialRequest", "reversalRequest"}
  BY <1>1, <1>7 DEF Earned
<1> QED
  BY <1>5, <1>6, <1>7

\* ApprovedMeansCommitted holds when every new approval is earned.
LEMMA ApprovedKept ==
  ASSUME IInv, Grows,
         \A m \in MsgId :
           <<m, "approved">> \in responses' /\ <<m, "approved">> \notin responses
             => Stored(m) /\ Earned(m)
  PROVE  ApprovedMeansCommitted'
<1>1. SUFFICES ASSUME NEW m \in MsgId, <<m, "approved">> \in responses'
               PROVE  Earned(m)'
  BY DEF ApprovedMeansCommitted
<1>2. Stored(m) /\ Earned(m)
  BY <1>1 DEF IInv, ResponsesOK, ApprovedMeansCommitted
<1> QED
  BY <1>2, EarnedStays

\* The password for t has come from the terminal of t.
PasswordGiven(t) ==
  \E m \in Linked(t, "financialRequest") :
    lpsMessages[m].lpsKey = transactions[t].lpsKey

\* PasswordFollowsApproval holds when every new password belongs to
\* fees that have been shown.
LEMMA PasswordKept ==
  ASSUME IInv, Grows,
         \A t \in TrxId :
           <<"putAuthorizations", t>> \in sent'
             /\ <<"putAuthorizations", t>> \notin sent =>
               Withdrawal(t) /\ Shown(t) /\ PasswordGiven(t)
  PROVE  PasswordFollowsApproval'
<1>1. SUFFICES ASSUME NEW t \in TrxId, <<"putAuthorizations", t>> \in sent'
               PROVE  Shown(t)' /\ PasswordGiven(t)'
  BY DEF PasswordFollowsApproval, Shown, PasswordGiven
<1>2. Exists(t) /\ Shown(t) /\ PasswordGiven(t)
  BY <1>1 DEF IInv, SentOK, WithdrawalCall, Withdrawal,
     PasswordFollowsApproval, Shown, PasswordGiven
<1>3. PICK m \in Linked(t, "financialRequest") :
        lpsMessages[m].lpsKey = transactions[t].lpsKey
  BY <1>2 DEF PasswordGiven
<1>4. /\ m \in Linked(t, "financialRequest")'
      /\ lpsMessages'[m] = lpsMessages[m]
  BY <1>3, LinkedStays DEF Linked, Grows, MessagesStay, Stored
<1> QED
  BY <1>2, <1>3, <1>4, ShownStays, RowStays DEF PasswordGiven

\* FulfilledOnce holds unless transferRequestHandler arrives at its
\* fulfilment in this step.
LEMMA FulfilledKept ==
  ASSUME IInv, SentOK',
         work'[TR].pc = "putTransfers" =>
           /\ WorkTransfer(TR)' = WorkTransfer(TR)
           /\ work[TR].pc = "putTransfers"
           /\ transfers'[WorkTransfer(TR)] = transfers[WorkTransfer(TR)]
           /\ <<"putTransfers", WorkTransfer(TR)>> \in sent' =>
                <<"putTransfers", WorkTransfer(TR)>> \in sent
  PROVE  FulfilledOnce'
<1>1. \A x \in TransferId :
        <<"putTransfers", x>> \in sent' => transfers'[x] # "none"
  BY DEF SentOK
<1>2. ASSUME work'[TR].pc = "putTransfers"
      PROVE  /\ transfers'[WorkTransfer(TR)'] = "RECEIVED"
             /\ <<"putTransfers", WorkTransfer(TR)'>> \notin sent'
  BY <1>2 DEF IInv, FulfilledOnce, At
<1> QED
  BY <1>1, <1>2 DEF FulfilledOnce, At

\* A withdrawal that may be refunded stays so.
LEMMA MayRefundStays ==
  ASSUME IInv, Grows, NEW o \in TrxId, NEW d, MayRefund(o, d)
  PROVE  MayRefund(o, d)'
<1>1. Exists(o)' /\ ~IsRefund(o)'
  BY RowStays DEF MayRefund, IsRefund
<1>2. PICK n \in 1..MaxDeliver : Committed(<<o, n>>)
  BY DEF MayRefund
<1>3. Committed(<<o, n>>)'
  BY <1>2, CommittedStays DEF TransferId
<1>4. PICK m \in Linked(o, "reversalRequest") :
        lpsMessages[m].lpsKey = d /\ <<o, lpsMessages[m].about>> \in links
  BY DEF MayRefund
<1>5. /\ m \in Linked(o, "reversalRequest")'
      /\ lpsMessages'[m] = lpsMessages[m]
      /\ <<o, lpsMessages[m].about>> \in links'
  BY <1>4, LinkedStays DEF Linked, Grows, MessagesStay, Stored
<1> QED
  BY <1>1, <1>2, <1>3, <1>4, <1>5 DEF MayRefund

\* RefundOnlyCommitted holds when every new refund may be made.
LEMMA RefundsKept ==
  ASSUME IInv, Grows, TypeOK', TransactionsOK',
         \A t \in TrxId :
           IsRefund(t)' /\ ~Refund(t) =>
             MayRefund(transactions'[t].original, transactions'[t].lpsKey)
  PROVE  RefundOnlyCommitted'
<1>1. SUFFICES ASSUME NEW t \in TrxId, IsRefund(t)'
               PROVE  MayRefund(transactions[t].original, transactions[t].lpsKey)'
  BY DEF RefundOnlyCommitted
<1>2. transactions'[t].original \in TrxId
  BY <1>1 DEF TypeOK, Transaction, IsRefund
<1>3. \A o, d : o = transactions'[t].original /\ d = transactions'[t].lpsKey =>
        MayRefund(o, d)
  BY <1>1, RowStays DEF IInv, RefundOnlyCommitted, Refund
<1>4. \A o \in TrxId : \A d :
        o = transactions'[t].original /\ d = transactions'[t].lpsKey =>
          MayRefund(o, d)'
  BY <1>3, MayRefundStays
<1> QED
  BY <1>2, <1>4 DEF MayRefund, Exists, IsRefund

-----------------------------------------------------------------------------
(* The steps of a worker. *)

\* The queues by the names of their handlers.
LEMMA QueueNames ==
  /\ {LA, PR, TRR, QR, AR, LF, TR, TX, LR, QX} = WorkerQueue
  /\ {LA, LF, LR} = LegacyQueue
  /\ TR \notin {LA, PR, TRR, QR, AR, LF, TX, LR, QX}
BY DEF WorkerQueue, LegacyQueue, LA, PR, TRR, QR, AR, LF, TR, TX, LR, QX

\* The steps of each handler, one by one.
LEMMA Steps ==
  /\ {"insertTransaction", "relate", "getParties"} \subseteq StepsOf(LA)
  /\ {"updateParty", "postTransactionRequests"} \subseteq StepsOf(PR)
  /\ {"respond", "reject"} \subseteq StepsOf(TRR)
  /\ {"insertQuote", "putQuotes", "updateState", "putQuotesError", "refuse"}
       \subseteq StepsOf(QR)
  /\ {"approve", "updateState", "putAuthorizationsError", "refuse"}
       \subseteq StepsOf(AR)
  /\ {"relate", "putAuthorizations", "updateState"} \subseteq StepsOf(LF)
  /\ {"insertTransfer", "putTransfers", "updateState", "updateTransfer",
       "putTransfersError", "refuse"} \subseteq StepsOf(TR)
  /\ {"approve", "updateState", "updateTransfer"} \subseteq StepsOf(TX)
  /\ {"find", "relate", "cancel", "expireQuote", "insertRefund",
       "relateRefund", "insertQuote", "postQuotes"} \subseteq StepsOf(LR)
  /\ {"insertTransfer", "postTransfers"} \subseteq StepsOf(QX)
BY DEF StepsOf, LA, PR, TRR, QR, AR, LF, TR, TX, LR, QX

\* The steps of a handler are values of pc.
LEMMA StepsAreSteps ==
  ASSUME NEW q \in WorkerQueue
  PROVE  StepsOf(q) \subseteq Pc
BY DEF WorkerQueue, LegacyQueue, StepsOf, LA, PR, TRR, QR, AR, LF, TR, TX, LR,
   Pc, DatabaseStep, CallStep, TransactionCall, TransferCall

\* A worker that goes on with the same transaction stays in order.
LEMMA GotoKept ==
  ASSUME IInv, Grows, NEW q \in WorkerQueue, NEW pc \in StepsOf(q), Goto(q, pc),
         work[q].pc # "idle",
         pc \in Searching \/ work[q].pc \notin Searching
  PROVE  /\ work' \in [WorkerQueue -> Worker] /\ Only(q)
         /\ work'[q].pc = pc
         /\ work'[q].job = work[q].job
         /\ work'[q].trx = work[q].trx
         /\ work'[q].nth = work[q].nth
         /\ work'[q].seen = work[q].seen
         /\ WorkerOK(q)'
<1>1. /\ work' \in [WorkerQueue -> Worker] /\ Only(q)
      /\ work'[q].pc = pc
      /\ work'[q].job = work[q].job
      /\ work'[q].trx = work[q].trx
      /\ work'[q].nth = work[q].nth
      /\ work'[q].seen = work[q].seen
  BY GotoWork, StepsAreSteps DEF IInv
<1>2. Justified(q, work[q].job)'
  BY <1>1, JobStays
<1>3. pc \notin Searching =>
        /\ work'[q].trx \in TrxId
        /\ q \in {LA, PR, TRR, QR, AR, LF, TR} => Withdrawal(work[q].trx)'
        /\ q = QX =>
             Refund(work[q].trx)' /\ <<"postQuotes", work'[q].trx>> \in sent'
  BY <1>1, WorkerFacts, TrxStays
<1> QED
  BY <1>1, <1>2, <1>3 DEF WorkerOK

\* A worker that goes on with a transaction it may have stays in order.
LEMMA BeginKept ==
  ASSUME IInv, Grows, NEW q \in WorkerQueue, NEW pc \in StepsOf(q),
         NEW t \in TrxId, NEW n \in 0..MaxDeliver, NEW seen \in SUBSET Seen,
         Begin(q, pc, t, n, seen),
         work[q].pc # "idle",
         q \in {LA, PR, TRR, QR, AR, LF, TR} => Withdrawal(t)',
         q = QX => Refund(t)' /\ <<"postQuotes", t>> \in sent
  PROVE  /\ work' \in [WorkerQueue -> Worker] /\ Only(q)
         /\ work'[q].pc = pc
         /\ work'[q].job = work[q].job
         /\ work'[q].trx = t
         /\ work'[q].nth = n
         /\ work'[q].seen = seen
         /\ WorkerOK(q)'
<1>1. /\ work' \in [WorkerQueue -> Worker] /\ Only(q)
      /\ work'[q].pc = pc
      /\ work'[q].job = work[q].job
      /\ work'[q].trx = t
      /\ work'[q].nth = n
      /\ work'[q].seen = seen
  BY BeginWork, StepsAreSteps DEF IInv
<1>2. Justified(q, work[q].job)'
  BY <1>1, JobStays
<1>3. /\ work'[q].trx \in TrxId
      /\ q \in {LA, PR, TRR, QR, AR, LF, TR} => Withdrawal(work[q].trx)'
      /\ q = QX =>
           Refund(work[q].trx)' /\ <<"postQuotes", work'[q].trx>> \in sent'
  BY <1>1 DEF Grows, Withdrawal, Refund, Exists, IsRefund
<1> QED
  BY <1>1, <1>2, <1>3 DEF WorkerOK

\* A worker that is done is in order and needs to know nothing.
LEMMA DoneKept ==
  ASSUME IInv, NEW q \in WorkerQueue, Done(q)
  PROVE  /\ work' \in [WorkerQueue -> Worker] /\ Only(q)
         /\ work'[q].pc = "idle"
         /\ WorkerOK(q)' /\ Knows(q)'
<1>1. work' \in [WorkerQueue -> Worker] /\ Only(q) /\ work'[q].pc = "idle"
  BY DoneWork DEF IInv
<1> QED
  BY <1>1, IdleKnows

\* What is left to prove of a step of the worker of q: only what concerns the
\* state it changes.
LEMMA StepKept ==
  ASSUME IInv, TypeOK', Grows,
         NEW q \in WorkerQueue, Only(q), WorkerOK(q)', Knows(q)',
         UNCHANGED <<lpsMessages, queue, delivered>>,
         \/ UNCHANGED transactions
         \/ TransactionsOK' /\ \A t \in TrxId : IsRefund(t)' => Refund(t)
         \/ TransactionsOK' /\ RefundOnlyCommitted',
         UNCHANGED links \/ LinksOK',
         UNCHANGED transfers \/ TransfersOK',
         (UNCHANGED sent /\ NoneBecomesAuthSent) \/ SentOK',
         UNCHANGED sent \/ PasswordFollowsApproval',
         UNCHANGED responses \/ (ResponsesOK' /\ ApprovedMeansCommitted'),
         \/ /\ UNCHANGED <<transfers, sent>>
            /\ q # TR \/ work'[q].pc # "putTransfers"
         \/ FulfilledOnce'
  PROVE  IInv'
<1>1. MessagesOK' /\ DeliveredOK' /\ QueuesOK'
  BY MessagesKept, DeliveredKept, QueuesKept
<1>2. TransactionsOK'
  BY TransactionsKept
<1>3. RefundOnlyCommitted'
  <2>1. CASE \A t \in TrxId : IsRefund(t)' => Refund(t)
    BY <1>2, <2>1, RefundsKept
  <2>2. CASE UNCHANGED transactions
    <3>1. \A t \in TrxId : IsRefund(t)' => Refund(t)
      BY <2>2 DEF IInv, TransactionsOK, NoTransaction, IsRefund, Refund
    <3> QED
      BY <1>2, <3>1, RefundsKept
  <2> QED
    BY <2>1, <2>2
<1>4. LinksOK'
  BY LinksKept
<1>5. TransfersOK'
  BY TransfersKept
<1>6. SentOK'
  <2>1. CASE UNCHANGED sent /\ NoneBecomesAuthSent
    <3>1. MayCall(sent' \ sent)
      BY <2>1 DEF MayCall
    <3>2. \A t \in TrxId :
            transactions'[t].state = "authSent" =>
              transactions[t].state = "authSent" \/ (Exists(t) /\ Shown(t))
      BY <2>1 DEF NoneBecomesAuthSent
    <3> QED
      BY <3>1, <3>2, SentKept
  <2> QED
    BY <2>1
<1>7. PasswordFollowsApproval'
  BY PasswordKept
<1>8. ResponsesOK' /\ ApprovedMeansCommitted'
  BY ResponsesKept, ApprovedKept
<1>9. FulfilledOnce'
  <2>1. CASE /\ UNCHANGED <<transfers, sent>>
             /\ q # TR \/ work'[q].pc # "putTransfers"
    <3>1. TR \in WorkerQueue
      BY DEF WorkerQueue, TR
    <3>2. work'[TR].pc = "putTransfers" => work'[TR] = work[TR]
      BY <2>1, <3>1 DEF Only
    <3> QED
      BY <1>6, <2>1, <3>2, FulfilledKept DEF WorkTransfer
  <2> QED
    BY <2>1
<1>10. WorkersOK' /\ Knowledge'
  BY WorkersKept, KnowledgeKept
<1> QED
  BY <1>1, <1>2, <1>3, <1>4, <1>5, <1>6, <1>7, <1>8, <1>9, <1>10 DEF IInv

-----------------------------------------------------------------------------
(* What a worker is about when it moves. *)

\* A row with an original is a refund.
LEMMA RefundsExist ==
  ASSUME IInv, NEW t \in TrxId, IsRefund(t)
  PROVE  Refund(t)
BY DEF IInv, TransactionsOK, NoTransaction, Exists, Refund, IsRefund

\* What the transaction of a busy worker is.
LEMMA TrxOf ==
  ASSUME IInv, NEW q \in WorkerQueue, work[q].pc \notin Searching
  PROVE  /\ work[q].trx \in TrxId
         /\ q \in {LA, PR, TRR, QR, AR, LF, TR} => Withdrawal(work[q].trx)
         /\ q = QX => Refund(work[q].trx)
         /\ q = QX => <<"postQuotes", work[q].trx>> \in sent
BY DEF IInv, WorkersOK, WorkerOK

\* What the message of a busy legacy worker is.
LEMMA MessageOf ==
  ASSUME IInv, NEW q \in LegacyQueue, work[q].pc # "idle"
  PROVE  /\ JobMessage(q) \in MsgId
         /\ lpsMessages[JobMessage(q)] \in LpsMessage
         /\ Stored(JobMessage(q))
         /\ lpsMessages[JobMessage(q)].lpsKey \in Device
         /\ q = LA => lpsMessages[JobMessage(q)].type = "authorizationRequest"
         /\ q = LF => lpsMessages[JobMessage(q)].type = "financialRequest"
         /\ q = LR => lpsMessages[JobMessage(q)].type = "reversalRequest"
<1>1. q \in WorkerQueue
  BY DEF WorkerQueue
<1>2. Justified(q, work[q].job)
  BY <1>1 DEF IInv, WorkersOK, WorkerOK
<1>3. JobMessage(q) \in MsgId /\ Stored(JobMessage(q))
  BY <1>2, LegacyJob DEF JobMessage
<1>4. lpsMessages[JobMessage(q)].type =
        CASE q = LA -> "authorizationRequest"
          [] q = LF -> "financialRequest"
          [] OTHER -> "reversalRequest"
  BY <1>2 DEF Justified, JobMessage
<1>5. /\ q = LA => lpsMessages[JobMessage(q)].type = "authorizationRequest"
      /\ q = LF => lpsMessages[JobMessage(q)].type = "financialRequest"
      /\ q = LR => lpsMessages[JobMessage(q)].type = "reversalRequest"
  BY <1>4 DEF LA, LF, LR
<1> QED
  BY <1>3, <1>5 DEF IInv, TypeOK, MessagesOK

\* What the job of a busy worker of another queue is.
LEMMA HubJobOf ==
  ASSUME IInv, NEW q \in WorkerQueue, q \notin LegacyQueue,
         work[q].pc # "idle"
  PROVE  /\ work[q].job \in HubMessage
         /\ QueueOf(work[q].job) = q
         /\ PromptedBy(work[q].job) \cap sent # {}
<1>1. Justified(q, work[q].job)
  BY DEF IInv, WorkersOK, WorkerOK
<1> QED
  BY <1>1 DEF Justified, IInv, DeliveredOK

\* The kinds of message each queue holds, and what they name.
LEMMA KindOf ==
  ASSUME NEW h \in HubMessage
  PROVE  /\ QueueOf(h) = PR => h[1] = "parties"
         /\ QueueOf(h) = TRR => h[1] \in {"accepted", "rejected"}
         /\ QueueOf(h) = QR => h[1] = "quoteRequest"
         /\ QueueOf(h) = AR => h[1] = "authorization"
         /\ QueueOf(h) = TR => h[1] = "transferRequest"
         /\ QueueOf(h) = TX => h[1] \in {"committed", "aborted"}
         /\ QueueOf(h) = QX => h[1] = "quoteResponse"
         /\ h[1] \in AboutTransaction => h[2] \in TrxId
         /\ h[1] \in AboutTransfer => h[2] \in TransferId
         /\ QueueOf(h) \in Queue /\ QueueOf(h) \notin LegacyQueue
<1>1. /\ h[1] \in AboutTransaction \cup AboutTransfer
      /\ h[1] \in AboutTransaction => h[2] \in TrxId
      /\ h[1] \in AboutTransfer => h[2] \in TransferId
  BY DEF HubMessage, AboutTransaction, AboutTransfer
<1>2. /\ QueueOf(h) = PR => h[1] = "parties"
      /\ QueueOf(h) = TRR => h[1] \in {"accepted", "rejected"}
      /\ QueueOf(h) = QR => h[1] = "quoteRequest"
      /\ QueueOf(h) = AR => h[1] = "authorization"
  BY DEF QueueOf, PR, TRR, QR, AR
<1>3. /\ QueueOf(h) = TR => h[1] = "transferRequest"
      /\ QueueOf(h) = TX => h[1] \in {"committed", "aborted"}
      /\ QueueOf(h) = QX => h[1] = "quoteResponse"
  BY DEF QueueOf, TR, TX, QX
<1>4. QueueOf(h) \in Queue /\ QueueOf(h) \notin LegacyQueue
  BY DEF QueueOf, Queue, WorkerQueue, LegacyQueue
<1> QED
  BY <1>1, <1>2, <1>3, <1>4

\* What the hub tells a handler is about what the adaptor has asked it.
LEMMA HubTrxOf ==
  ASSUME IInv, NEW q \in {PR, TRR, QR, AR, TR, QX}, work[q].pc # "idle"
  PROVE  /\ work[q].job[2] \in TrxId
         /\ q # QX => Withdrawal(work[q].job[2])
         /\ q \in {QR, AR} => transactions[work[q].job[2]].fspId
         /\ q = AR => <<"putQuotes", work[q].job[2]>> \in sent
         /\ q = QX => /\ Refund(work[q].job[2])
                      /\ <<"postQuotes", work[q].job[2]>> \in sent
         /\ q = TRR => work[q].job[1] \in {"accepted", "rejected"}
<1> DEFINE h == work[q].job
<1>1. q \in WorkerQueue /\ q \notin LegacyQueue
  BY QueueNames DEF LegacyQueue, PR, TRR, QR, AR, TR, QX
<1>2. h \in HubMessage /\ QueueOf(h) = q /\ PromptedBy(h) \cap sent # {}
  BY <1>1, HubJobOf
<1> HIDE DEF h
<1>3. /\ q = PR => h[1] = "parties"
      /\ q = TRR => h[1] \in {"accepted", "rejected"}
      /\ q = QR => h[1] = "quoteRequest"
      /\ q = AR => h[1] = "authorization"
      /\ q = TR => h[1] = "transferRequest"
      /\ q = QX => h[1] = "quoteResponse"
  BY <1>2, KindOf
<1>4. h[2] \in TrxId
  BY <1>2, <1>3, KindOf DEF AboutTransaction
<1>5. /\ q = PR => <<"getParties", h[2]>> \in sent
      /\ q \in {TRR, QR} => <<"postTransactionRequests", h[2]>> \in sent
      /\ q = AR => <<"putQuotes", h[2]>> \in sent
      /\ q = TR => <<"putAuthorizations", h[2]>> \in sent
      /\ q = QX => <<"postQuotes", h[2]>> \in sent
  BY <1>2, <1>3 DEF PromptedBy, TRR, QR
<1>6. q # QX => Withdrawal(h[2])
  BY <1>4, <1>5 DEF IInv, SentOK, WithdrawalCall
<1>7. /\ q \in {QR, AR} => transactions[h[2]].fspId
      /\ q = QX => Refund(h[2])
  BY <1>4, <1>5 DEF IInv, SentOK
<1> QED
  BY <1>3, <1>4, <1>5, <1>6, <1>7 DEF h

-----------------------------------------------------------------------------
(* Steps that only add links, calls or answers. *)

\* A step that only adds links, calls and answers takes nothing away.
LEMMA OnlyAdds ==
  ASSUME UNCHANGED <<lpsMessages, transactions, transfers, delivered>>,
         links \subseteq links', sent \subseteq sent',
         responses \subseteq responses'
  PROVE  Grows /\ NoneBecomesAuthSent
BY DEF Grows, RowsStay, MessagesStay, TransfersStay, DeliveredStay,
   HasDelivered, NoneBecomesAuthSent, Exists

\* Every call a worker is about to make is one it may make.
LEMMA CallingAllowed ==
  ASSUME IInv, NEW q \in WorkerQueue, work[q].pc \in CallStep
  PROVE  /\ Calling(q) \in HubCall
         /\ MayCall({Calling(q)})
         /\ Calling(q)[1] = work[q].pc
         /\ work[q].pc = "putAuthorizations" =>
              /\ Calling(q)[2] = work[q].trx
              /\ Shown(work[q].trx) /\ PasswordGiven(work[q].trx)
<1>1. work[q].pc \notin Searching
  BY DEF CallStep, TransactionCall, TransferCall, Searching
<1>2. work[q].pc \in StepsOf(q)
  BY DEF IInv, WorkersOK, WorkerOK
<1>3. work[q].trx \in TrxId
  BY <1>1, TrxOf
<1>4. CASE work[q].pc \in TransactionCall
  <2>1. Calling(q) = <<work[q].pc, work[q].trx>> /\ Calling(q) \in HubCall
    BY <1>3, <1>4 DEF Calling, TransactionCall, TransferCall, HubCall
  <2>2. work[q].pc \in WithdrawalCall => Withdrawal(work[q].trx)
    <3>1. work[q].pc \in WithdrawalCall => q \in {LA, PR, TRR, QR, AR, LF, TR}
      BY <1>2, QueueNames
      DEF StepsOf, WithdrawalCall, LA, PR, TRR, QR, AR, LF, TR, TX, LR, QX
    <3>2. q \in {LA, PR, TRR, QR, AR, LF, TR} => Withdrawal(work[q].trx)
      BY <1>1, TrxOf
    <3> QED BY <3>1, <3>2
  <2>3. work[q].pc = "postTransactionRequests" => transactions[work[q].trx].fspId
    BY <1>2, QueueNames
    DEF StepsOf, LA, PR, TRR, QR, AR, LF, TR, TX, LR, QX, IInv, Knowledge, KnowsPR
  <2>4. work[q].pc = "putQuotes" => transactions[work[q].trx].fspId
    BY <1>2, QueueNames
    DEF StepsOf, LA, PR, TRR, QR, AR, LF, TR, TX, LR, QX, IInv, Knowledge, KnowsQR
  <2>5. work[q].pc = "postQuotes" => Refund(work[q].trx)
    BY <1>2, QueueNames
    DEF StepsOf, LA, PR, TRR, QR, AR, LF, TR, TX, LR, QX, IInv, Knowledge, KnowsLR
  <2>6. MayCall({Calling(q)})
    BY <1>4, <2>1, <2>2, <2>3, <2>4, <2>5 DEF MayCall, TransactionCall
  <2>7. work[q].pc = "putAuthorizations" =>
          Shown(work[q].trx) /\ PasswordGiven(work[q].trx)
    <3>1. SUFFICES ASSUME work[q].pc = "putAuthorizations"
                   PROVE  Shown(work[q].trx) /\ PasswordGiven(work[q].trx)
      OBVIOUS
    <3>2. q = LF
      BY <1>2, <3>1, QueueNames
      DEF StepsOf, LA, PR, TRR, QR, AR, LF, TR, TX, LR, QX
    <3>3. /\ Shown(work[q].trx) /\ OwnMessage(q)
          /\ <<work[q].trx, JobMessage(q)>> \in links
      BY <3>1, <3>2 DEF IInv, Knowledge, KnowsLF
    <3>4. JobMessage(q) \in Linked(work[q].trx, "financialRequest")
      BY <3>1, <3>2, <3>3, MessageOf, QueueNames DEF Linked
    <3> QED
      BY <3>3, <3>4 DEF PasswordGiven, OwnMessage
  <2> QED
    BY <2>1, <2>6, <2>7
<1>5. CASE work[q].pc \in TransferCall
  <2>1. q \in {TR, QX}
    BY <1>2, <1>5, QueueNames
    DEF StepsOf, TransferCall, LA, PR, TRR, QR, AR, LF, TR, TX, LR, QX
  <2>2. WorkTransfer(q) \in TransferId
    BY <1>1, <1>2, <1>5, <2>1
    DEF StepsOf, TransferCall, LA, PR, TRR, QR, AR, LF, TR, TX, LR, QX, IInv,
        Knowledge, KnowsTR, KnowsQX
  <2>3. Calling(q) = <<work[q].pc, WorkTransfer(q)>> /\ Calling(q) \in HubCall
    BY <1>5, <2>2 DEF Calling, HubCall
  <2>4. work[q].pc = "putTransfers" =>
          Withdrawal(work[q].trx) /\ transfers[WorkTransfer(q)] # "none"
    BY <1>1, <1>2, <2>1, TrxOf
    DEF StepsOf, LA, PR, TRR, QR, AR, LF, TR, TX, LR, QX, IInv, Knowledge, KnowsTR
  <2>5. work[q].pc = "postTransfers" =>
          Refund(work[q].trx) /\ <<"postQuotes", work[q].trx>> \in sent
    BY <1>1, <1>2, <2>1, TrxOf
    DEF StepsOf, LA, PR, TRR, QR, AR, LF, TR, TX, LR, QX
  <2>6. WorkTransfer(q)[1] = work[q].trx
    BY DEF WorkTransfer
  <2>7. MayCall({Calling(q)})
    BY <1>5, <2>3, <2>4, <2>5, <2>6 DEF MayCall, TransferCall, WithdrawalCall
  <2> QED
    BY <1>5, <2>3, <2>7 DEF TransferCall
<1> QED
  BY <1>4, <1>5 DEF CallStep

\* Calls are added by the worker of q.
LEMMA CallsKept ==
  ASSUME IInv, Grows, UNCHANGED <<transactions, transfers>>,
         NEW q \in WorkerQueue, Only(q),
         q = TR => work'[TR].pc # "putTransfers",
         MayCall(sent' \ sent),
         \A c \in sent' \ sent :
           /\ c[1] = "putAuthorizations" =>
                /\ c[2] \in TrxId
                /\ Withdrawal(c[2]) /\ Shown(c[2]) /\ PasswordGiven(c[2])
           /\ c[1] = "putTransfers" => q = TR
  PROVE  SentOK' /\ PasswordFollowsApproval' /\ FulfilledOnce'
<1>1. SentOK'
  <2>1. \A t \in TrxId :
          transactions'[t].state = "authSent" =>
            transactions[t].state = "authSent" \/ (Exists(t) /\ Shown(t))
    OBVIOUS
  <2> QED
    BY <2>1, SentKept
<1>2. PasswordFollowsApproval'
  <2>1. ASSUME NEW t \in TrxId,
               <<"putAuthorizations", t>> \in sent',
               <<"putAuthorizations", t>> \notin sent
        PROVE  Withdrawal(t) /\ Shown(t) /\ PasswordGiven(t)
    <3> DEFINE c == <<"putAuthorizations", t>>
    <3>1. c \in sent' \ sent /\ c[1] = "putAuthorizations" /\ c[2] = t
      BY <2>1
    <3>2. Withdrawal(c[2]) /\ Shown(c[2]) /\ PasswordGiven(c[2])
      BY <3>1
    <3> QED
      BY <3>2
  <2> QED
    BY <2>1, PasswordKept
<1>3. ASSUME work'[TR].pc = "putTransfers"
      PROVE  /\ q # TR /\ work'[TR] = work[TR]
             /\ <<"putTransfers", WorkTransfer(TR)>> \in sent' =>
                  <<"putTransfers", WorkTransfer(TR)>> \in sent
  <2>1. q # TR /\ TR \in WorkerQueue
    BY <1>3, QueueNames
  <2>2. work'[TR] = work[TR]
    BY <2>1 DEF Only
  <2>3. ASSUME <<"putTransfers", WorkTransfer(TR)>> \in sent' \ sent
        PROVE  FALSE
    <3>1. <<"putTransfers", WorkTransfer(TR)>>[1] = "putTransfers"
      OBVIOUS
    <3> QED
      BY <2>1, <2>3, <3>1
  <2> QED
    BY <2>1, <2>2, <2>3
<1>4. FulfilledOnce'
  BY <1>1, <1>3, FulfilledKept DEF WorkTransfer
<1> QED
  BY <1>1, <1>2, <1>4

\* A call to the hub keeps what the invariant says of calls.
LEMMA CallKept ==
  ASSUME IInv, NEW q \in WorkerQueue, NEW pc \in CallStep, Call(q, pc),
         Only(q), work'[q].pc # "putTransfers",
         UNCHANGED <<environment, transactions, links, quotes, transfers, responses>>
  PROVE  /\ Grows /\ NoneBecomesAuthSent
         /\ sent' \in SUBSET HubCall
         /\ SentOK' /\ PasswordFollowsApproval' /\ FulfilledOnce'
<1>1. work[q].pc = pc /\ sent' = sent \cup {Calling(q)}
  BY DEF Call, At
<1>2. Grows /\ NoneBecomesAuthSent
  BY <1>1, OnlyAdds DEF environment
<1>3. /\ Calling(q) \in HubCall
      /\ MayCall({Calling(q)})
      /\ Calling(q)[1] = pc
      /\ pc = "putAuthorizations" =>
           /\ Calling(q)[2] = work[q].trx
           /\ Shown(work[q].trx) /\ PasswordGiven(work[q].trx)
  BY <1>1, CallingAllowed
<1>4. sent' \in SUBSET HubCall
  BY <1>1, <1>3 DEF IInv, TypeOK
<1>5. work[q].pc \notin Searching /\ work[q].pc \in StepsOf(q)
  BY <1>1 DEF CallStep, TransactionCall, TransferCall, Searching, IInv,
     WorkersOK, WorkerOK
<1>6. work[q].trx \in TrxId
  BY <1>5, TrxOf
<1>7. pc = "putAuthorizations" => Withdrawal(work[q].trx)
  BY <1>1, <1>5, TrxOf, QueueNames
  DEF StepsOf, LA, PR, TRR, QR, AR, LF, TR, TX, LR, QX
<1>8. pc = "putTransfers" => q = TR
  BY <1>1, <1>5, QueueNames
  DEF StepsOf, LA, PR, TRR, QR, AR, LF, TR, TX, LR, QX
<1>9. MayCall(sent' \ sent)
  BY <1>1, <1>3 DEF MayCall
<1>10. \A c \in sent' \ sent :
         /\ c[1] = "putAuthorizations" =>
              /\ c[2] \in TrxId
              /\ Withdrawal(c[2]) /\ Shown(c[2]) /\ PasswordGiven(c[2])
         /\ c[1] = "putTransfers" => q = TR
  <2>1. \A c \in sent' \ sent : c = Calling(q)
    BY <1>1
  <2> QED
    BY <2>1, <1>3, <1>6, <1>7, <1>8
<1>11. UNCHANGED <<transactions, transfers>>
  OBVIOUS
<1>12. SentOK' /\ PasswordFollowsApproval' /\ FulfilledOnce'
  BY <1>2, <1>9, <1>10, <1>11, CallsKept
<1> QED
  BY <1>2, <1>4, <1>12

\* A call to the hub as the last step of a handler.
LEMMA CallDoneKept ==
  ASSUME IInv, NEW q \in WorkerQueue, NEW pc \in CallStep, Call(q, pc), Done(q),
         UNCHANGED <<environment, transactions, links, quotes, transfers, responses>>
  PROVE  IInv'
<1>1. UNCHANGED <<lpsMessages, queue, delivered, budget>>
  BY DEF environment
<1>2. /\ work' \in [WorkerQueue -> Worker] /\ Only(q)
      /\ work'[q].pc = "idle" /\ WorkerOK(q)' /\ Knows(q)'
  BY DoneKept
<1>3. work'[q].pc # "putTransfers"
  BY <1>2
<1>4. /\ Grows /\ NoneBecomesAuthSent
      /\ sent' \in SUBSET HubCall
      /\ SentOK' /\ PasswordFollowsApproval' /\ FulfilledOnce'
  BY <1>2, <1>3, CallKept
<1>5. TypeOK'
  BY <1>1, <1>2, <1>4 DEF IInv, TypeOK
<1> QED
  BY <1>1, <1>2, <1>4, <1>5, StepKept

\* A call to the hub the handler goes on after.
LEMMA CallGotoKept ==
  ASSUME IInv, NEW q \in WorkerQueue, NEW pc \in CallStep, Call(q, pc),
         NEW next \in StepsOf(q), Goto(q, next), next # "putTransfers",
         UNCHANGED <<environment, transactions, links, quotes, transfers, responses>>,
         Grows => Knows(q)'
  PROVE  IInv'
<1>1. UNCHANGED <<lpsMessages, queue, delivered, budget>>
  BY DEF environment
<1>2. work[q].pc = pc /\ pc # "idle" /\ pc \notin Searching
  BY DEF Call, At, CallStep, TransactionCall, TransferCall, Searching
<1>3. Only(q) /\ work'[q].pc = next
  BY GotoWork, StepsAreSteps DEF IInv
<1>4. /\ Grows /\ NoneBecomesAuthSent
      /\ sent' \in SUBSET HubCall
      /\ SentOK' /\ PasswordFollowsApproval' /\ FulfilledOnce'
  BY <1>3, CallKept
<1>5. /\ work' \in [WorkerQueue -> Worker] /\ WorkerOK(q)'
  BY <1>2, <1>4, GotoKept
<1>6. TypeOK'
  BY <1>1, <1>4, <1>5 DEF IInv, TypeOK
<1> QED
  BY <1>1, <1>3, <1>4, <1>5, <1>6, StepKept

\* A throw whose catch reports an error to the hub and declares requests
\* invalid.
LEMMA ThrowKept ==
  ASSUME IInv, NEW q \in WorkerQueue,
         NEW calls \in SUBSET HubCall,
         \A c \in calls : c[1] \notin
           WithdrawalCall \cup {"postQuotes", "putTransfers", "postTransfers"},
         NEW answers \in SUBSET Response,
         \A a \in answers : a[2] = "invalid" /\ Stored(a[1]),
         Throw(q, calls, answers)
  PROVE  IInv'
<1>1. PICK arrived \in SUBSET IF work[q].pc \in CallStep THEN {Calling(q)} ELSE {} :
        sent' = sent \cup arrived \cup calls
  BY DEF Throw
<1>2. /\ UNCHANGED <<lpsMessages, transactions, links, quotes, transfers, queue,
                     delivered>>
      /\ responses' = responses \cup answers /\ Done(q)
      /\ budget.faults > 0 /\ budget' = [budget EXCEPT !.faults = @ - 1]
  BY DEF Throw, tables
<1>3. Grows /\ NoneBecomesAuthSent
  BY <1>1, <1>2, OnlyAdds
<1>4. /\ work' \in [WorkerQueue -> Worker] /\ Only(q) /\ work'[q].pc = "idle"
      /\ WorkerOK(q)' /\ Knows(q)'
  BY <1>2, DoneKept
<1>5. ASSUME NEW c \in arrived
      PROVE  /\ c = Calling(q) /\ c \in HubCall /\ MayCall({c})
             /\ c[1] = work[q].pc /\ work[q].pc \in CallStep
             /\ c[1] = "putAuthorizations" =>
                  c[2] = work[q].trx /\ Shown(c[2]) /\ PasswordGiven(c[2])
  <2>1. work[q].pc \in CallStep /\ c = Calling(q)
    BY <1>5, <1>1
  <2>2. /\ Calling(q) \in HubCall
        /\ MayCall({Calling(q)})
        /\ Calling(q)[1] = work[q].pc
        /\ work[q].pc = "putAuthorizations" =>
             /\ Calling(q)[2] = work[q].trx
             /\ Shown(work[q].trx) /\ PasswordGiven(work[q].trx)
    BY <2>1, CallingAllowed
  <2> QED
    BY <2>1, <2>2
<1>6. MayCall(sent' \ sent)
  <2>1. \A c \in arrived : MayCall({c})
    BY <1>5
  <2>2. MayCall(arrived)
    BY <2>1 DEF MayCall
  <2>3. MayCall(calls)
    <3>1. ASSUME NEW n, NEW y, <<n, y>> \in calls
          PROVE  n \notin WithdrawalCall
                   \cup {"postQuotes", "putTransfers", "postTransfers"}
      <4>1. <<n, y>>[1] = n
        OBVIOUS
      <4> QED
        BY <3>1, <4>1
    <3> QED
      BY <3>1 DEF MayCall, WithdrawalCall
  <2> QED
    BY <1>1, <2>2, <2>3 DEF MayCall
<1>7. work[q].pc \in CallStep =>
        /\ work[q].trx \in TrxId
        /\ work[q].pc = "putAuthorizations" => Withdrawal(work[q].trx)
        /\ work[q].pc = "putTransfers" => q = TR
  <2>1. work[q].pc \in StepsOf(q)
    BY DEF IInv, WorkersOK, WorkerOK
  <2>2. work[q].pc \in CallStep => work[q].pc \notin Searching
    BY DEF CallStep, TransactionCall, TransferCall, Searching
  <2>3. work[q].pc = "putAuthorizations" => q = LF
    BY <2>1, QueueNames DEF StepsOf, LA, PR, TRR, QR, AR, LF, TR, TX, LR, QX
  <2>4. work[q].pc = "putTransfers" => q = TR
    BY <2>1, QueueNames DEF StepsOf, LA, PR, TRR, QR, AR, LF, TR, TX, LR, QX
  <2> QED
    BY <2>2, <2>3, <2>4, TrxOf
<1>8. \A c \in sent' \ sent :
        /\ c[1] = "putAuthorizations" =>
             /\ c[2] \in TrxId
             /\ Withdrawal(c[2]) /\ Shown(c[2]) /\ PasswordGiven(c[2])
        /\ c[1] = "putTransfers" => q = TR
  BY <1>1, <1>5, <1>7 DEF WithdrawalCall
<1>9. SentOK' /\ PasswordFollowsApproval' /\ FulfilledOnce'
  BY <1>2, <1>3, <1>4, <1>6, <1>8, CallsKept
<1>10. ResponsesOK' /\ ApprovedMeansCommitted'
  <2>1. \A m \in MsgId, r \in {"approved", "invalid"} :
          <<m, r>> \in responses' /\ <<m, r>> \notin responses =>
            Stored(m) /\ r = "invalid"
    BY <1>2
  <2> QED
    BY <1>3, <2>1, ResponsesKept, ApprovedKept
<1>11. TypeOK'
  <2>1. sent' \in SUBSET HubCall /\ responses' \in SUBSET Response
    BY <1>1, <1>2, <1>5 DEF IInv, TypeOK
  <2>2. budget' \in Budget
    <3>1. budget \in Budget
      BY DEF IInv, TypeOK
    <3>2. budget.faults - 1 \in 0..MaxFaults
      BY <1>2, <3>1, BoundsAssumption DEF Budget
    <3> QED
      BY <1>2, <3>1, <3>2 DEF Budget
  <2> QED
    BY <1>2, <1>4, <2>1, <2>2 DEF IInv, TypeOK
<1> QED
  BY <1>2, <1>3, <1>4, <1>9, <1>10, <1>11, StepKept

\* A step that at most answers terminals or writes a quote.
LEMMA AnswerKept ==
  ASSUME IInv, NEW q \in WorkerQueue, Only(q),
         work' \in [WorkerQueue -> Worker], WorkerOK(q)', Knows(q)',
         q # TR \/ work'[q].pc # "putTransfers",
         UNCHANGED <<environment, transactions, links, transfers, sent>>,
         quotes' \in [TrxId -> QuoteState],
         responses \subseteq responses', responses' \in SUBSET Response,
         \A m \in MsgId, r \in {"approved", "invalid"} :
           <<m, r>> \in responses' /\ <<m, r>> \notin responses =>
             Stored(m) /\ (r = "approved" => Earned(m))
  PROVE  IInv'
<1>1. UNCHANGED <<lpsMessages, queue, delivered, budget, transactions, links,
                  transfers, sent>>
  BY DEF environment
<1>2. Grows /\ NoneBecomesAuthSent
  BY <1>1, OnlyAdds
<1>3. TypeOK'
  BY <1>1 DEF IInv, TypeOK
<1>4. ResponsesOK' /\ ApprovedMeansCommitted'
  BY <1>2, ResponsesKept, ApprovedKept
<1> QED
  BY <1>1, <1>2, <1>3, <1>4, StepKept

\* A step that does nothing but go on.
LEMMA MoveKept ==
  ASSUME IInv, NEW q \in WorkerQueue, Only(q),
         work' \in [WorkerQueue -> Worker], WorkerOK(q)', Knows(q)',
         q # TR \/ work'[q].pc # "putTransfers",
         UNCHANGED <<environment, transactions, links, quotes, transfers, outputs>>
  PROVE  IInv'
<1>1. UNCHANGED <<environment, transactions, links, transfers, sent>>
  BY DEF outputs
<1>2. UNCHANGED <<quotes, responses>>
  BY DEF outputs
<1>3. /\ quotes' \in [TrxId -> QuoteState]
      /\ responses \subseteq responses' /\ responses' \in SUBSET Response
      /\ \A m \in MsgId, r \in {"approved", "invalid"} :
           <<m, r>> \in responses' /\ <<m, r>> \notin responses =>
             Stored(m) /\ (r = "approved" => Earned(m))
  BY <1>2 DEF IInv, TypeOK
<1> QED
  BY <1>1, <1>3, AnswerKept

\* A step that sets the state of transaction t.
LEMMA StateKept ==
  ASSUME IInv, NEW t \in TrxId, Exists(t), NEW state \in TransactionState,
         SetState(t, state),
         \/ Withdrawal(t)
         \/ state \in {"transactionReceived", "transactionCancelled",
                       "financialResponse"},
         UNCHANGED <<environment, links, quotes, transfers, outputs>>
  PROVE  /\ Grows
         /\ transactions' \in [TrxId -> Transaction]
         /\ TransactionsOK'
         /\ \A u \in TrxId : IsRefund(u)' => Refund(u)
         /\ \A u \in TrxId :
              transactions'[u].state = "authSent" =>
                \/ transactions[u].state = "authSent"
                \/ u = t /\ state = "authSent"
         /\ state # "authSent" => NoneBecomesAuthSent
<1>1. /\ transactions' \in [TrxId -> Transaction]
      /\ RowsStay
      /\ \A u \in TrxId : u # t => transactions'[u] = transactions[u]
      /\ transactions'[t].state = state
      /\ transactions'[t].fspId = transactions[t].fspId
      /\ state # "authSent" => NoneBecomesAuthSent
  BY SetStateStep DEF IInv
<1>2. /\ transactions'[t].original = transactions[t].original
      /\ transactions'[t].payer = transactions[t].payer
  BY <1>1 DEF RowsStay
<1>3. Grows
  BY <1>1 DEF Grows, MessagesStay, TransfersStay, DeliveredStay, HasDelivered,
     environment, outputs
<1>4. TransactionsOK'
  <2>1. SUFFICES ASSUME NEW u \in TrxId
                 PROVE  /\ ~Exists(u)' => transactions'[u] = NoTransaction
                        /\ Withdrawal(u)' => transactions'[u].payer \in Payer
                        /\ Refund(u)' =>
                             /\ transactions'[u].payer = None
                             /\ transactions'[u].state \in
                                  {"transactionReceived", "transactionCancelled",
                                   "financialResponse"}
    BY DEF TransactionsOK
  <2>2. CASE u = t
    BY <1>1, <1>2, <2>2 DEF IInv, TransactionsOK, Exists, Withdrawal, Refund,
       IsRefund, TransactionState
  <2>3. CASE u # t
    BY <1>1, <2>3 DEF IInv, TransactionsOK, Exists, Withdrawal, Refund, IsRefund
  <2> QED
    BY <2>2, <2>3
<1>5. \A u \in TrxId : IsRefund(u)' => Refund(u)
  BY <1>1, <1>2 DEF IInv, TransactionsOK, NoTransaction, Exists, Refund, IsRefund
<1> QED
  BY <1>1, <1>3, <1>4, <1>5

\* A throw whose catch only logs.
LEMMA QuietThrowKept ==
  ASSUME IInv, NEW q \in WorkerQueue, Throw(q, {}, {})
  PROVE  IInv'
<1>1. {} \in SUBSET HubCall /\ {} \in SUBSET Response
  OBVIOUS
<1> QED
  BY <1>1, ThrowKept

\* Writing the state of a transaction as the last step of a handler.
LEMMA StateDoneKept ==
  ASSUME IInv, NEW q \in WorkerQueue, NEW t \in TrxId, Exists(t),
         NEW state \in TransactionState, state # "authSent",
         SetState(t, state),
         \/ Withdrawal(t)
         \/ state \in {"transactionReceived", "transactionCancelled",
                       "financialResponse"},
         Done(q),
         UNCHANGED <<environment, links, quotes, transfers, outputs>>
  PROVE  IInv'
<1>1. /\ UNCHANGED <<lpsMessages, queue, delivered, budget>>
      /\ UNCHANGED <<links, quotes, transfers, sent, responses>>
  BY DEF environment, outputs
<1>2. /\ Grows /\ NoneBecomesAuthSent
      /\ transactions' \in [TrxId -> Transaction]
      /\ TransactionsOK'
      /\ \A u \in TrxId : IsRefund(u)' => Refund(u)
  BY StateKept
<1>3. /\ work' \in [WorkerQueue -> Worker] /\ Only(q)
      /\ work'[q].pc = "idle" /\ WorkerOK(q)' /\ Knows(q)'
  BY DoneKept
<1>4. TypeOK'
  BY <1>1, <1>2, <1>3 DEF IInv, TypeOK
<1> QED
  BY <1>1, <1>2, <1>3, <1>4, StepKept

\* Writing the state of a transaction and going on.
LEMMA StateGotoKept ==
  ASSUME IInv, NEW q \in WorkerQueue, NEW t \in TrxId, Exists(t),
         NEW state \in TransactionState, state # "authSent",
         SetState(t, state),
         \/ Withdrawal(t)
         \/ state \in {"transactionReceived", "transactionCancelled",
                       "financialResponse"},
         NEW next \in StepsOf(q), Goto(q, next), next # "putTransfers",
         work[q].pc \notin Searching,
         UNCHANGED <<environment, links, quotes, transfers, outputs>>,
         Grows => Knows(q)'
  PROVE  IInv'
<1>1. /\ UNCHANGED <<lpsMessages, queue, delivered, budget>>
      /\ UNCHANGED <<links, quotes, transfers, sent, responses>>
  BY DEF environment, outputs
<1>2. /\ Grows /\ NoneBecomesAuthSent
      /\ transactions' \in [TrxId -> Transaction]
      /\ TransactionsOK'
      /\ \A u \in TrxId : IsRefund(u)' => Refund(u)
  BY StateKept
<1>3. work[q].pc # "idle"
  BY DEF Searching
<1>4. /\ work' \in [WorkerQueue -> Worker] /\ Only(q)
      /\ work'[q].pc = next /\ WorkerOK(q)'
  BY <1>2, <1>3, GotoKept
<1>5. TypeOK'
  BY <1>1, <1>2, <1>4 DEF IInv, TypeOK
<1> QED
  BY <1>1, <1>2, <1>4, <1>5, StepKept

\* A step that writes other columns of a withdrawal.
LEMMA RowKept ==
  ASSUME IInv, NEW t \in TrxId, Withdrawal(t), NEW row \in Transaction,
         transactions' = [transactions EXCEPT ![t] = row],
         row.state \notin {"none", "authSent"} \/ row.state = transactions[t].state,
         row.lpsKey = transactions[t].lpsKey,
         row.payer = transactions[t].payer,
         row.original = transactions[t].original,
         transactions[t].fspId => row.fspId,
         UNCHANGED <<environment, links, quotes, transfers, outputs>>
  PROVE  /\ Grows /\ NoneBecomesAuthSent
         /\ transactions' \in [TrxId -> Transaction]
         /\ transactions'[t] = row
         /\ TransactionsOK'
         /\ \A u \in TrxId : IsRefund(u)' => Refund(u)
<1>1. /\ transactions' \in [TrxId -> Transaction]
      /\ transactions'[t] = row
      /\ \A u \in TrxId : u # t => transactions'[u] = transactions[u]
  BY DEF IInv, TypeOK
<1>2. RowsStay /\ NoneBecomesAuthSent
  BY <1>1 DEF RowsStay, NoneBecomesAuthSent, Withdrawal, Exists
<1>3. Grows
  BY <1>2 DEF Grows, MessagesStay, TransfersStay, DeliveredStay, HasDelivered,
     environment, outputs
<1>4. TransactionsOK'
  <2>1. ASSUME NEW u \in TrxId, u # t
        PROVE  /\ ~Exists(u)' => transactions'[u] = NoTransaction
               /\ Withdrawal(u)' => transactions'[u].payer \in Payer
               /\ Refund(u)' =>
                    /\ transactions'[u].payer = None
                    /\ transactions'[u].state \in
                         {"transactionReceived", "transactionCancelled",
                          "financialResponse"}
    BY <1>1, <2>1 DEF IInv, TransactionsOK, Exists, Withdrawal, Refund, IsRefund
  <2>2. /\ Exists(t)' /\ ~IsRefund(t)' /\ transactions'[t].payer \in Payer
    BY <1>1 DEF IInv, TransactionsOK, Exists, Withdrawal, IsRefund
  <2> QED
    BY <2>1, <2>2 DEF TransactionsOK, Refund
<1>5. \A u \in TrxId : IsRefund(u)' => IsRefund(u)
  BY <1>1 DEF IsRefund
<1> QED
  BY <1>1, <1>2, <1>3, <1>4, <1>5, RefundsExist

\* A step whose only effect is an error reported to the hub.
LEMMA RefuseKept ==
  ASSUME IInv, NEW q \in WorkerQueue, NEW c \in HubCall,
         c[1] \notin WithdrawalCall \cup {"postQuotes", "putTransfers", "postTransfers"},
         sent' = sent \cup {c}, Done(q),
         UNCHANGED <<environment, transactions, links, quotes, transfers, responses>>
  PROVE  IInv'
<1>1. UNCHANGED <<lpsMessages, queue, delivered, budget>>
  BY DEF environment
<1>2. /\ work' \in [WorkerQueue -> Worker] /\ Only(q)
      /\ work'[q].pc = "idle" /\ WorkerOK(q)' /\ Knows(q)'
  BY DoneKept
<1>3. Grows /\ NoneBecomesAuthSent
  BY <1>1, OnlyAdds
<1>4. MayCall(sent' \ sent)
  <2>1. ASSUME NEW n, NEW y, <<n, y>> \in sent' \ sent
        PROVE  n \notin WithdrawalCall
                 \cup {"postQuotes", "putTransfers", "postTransfers"}
    <3>1. <<n, y>> = c /\ <<n, y>>[1] = n
      BY <2>1
    <3> QED
      BY <3>1
  <2> QED
    BY <2>1 DEF MayCall, WithdrawalCall
<1>5. \A d \in sent' \ sent : d[1] \notin {"putAuthorizations", "putTransfers"}
  BY DEF WithdrawalCall
<1>6. SentOK' /\ PasswordFollowsApproval' /\ FulfilledOnce'
  BY <1>2, <1>3, <1>4, <1>5, CallsKept
<1>7. TypeOK'
  BY <1>1, <1>2 DEF IInv, TypeOK
<1> QED
  BY <1>1, <1>2, <1>3, <1>6, <1>7, StepKept

\* What a linked message of a type is.
LEMMA LinkedType ==
  ASSUME IInv, NEW t, NEW type, NEW m \in Linked(t, type)
  PROVE  /\ m \in MsgId /\ <<t, m>> \in links /\ lpsMessages[m].type = type
         /\ t \in TrxId /\ Stored(m)
BY DEF IInv, TypeOK, LinksOK, Linked

\* A step that at most declares requests invalid.
LEMMA InvalidKept ==
  ASSUME IInv, NEW q \in WorkerQueue, Done(q),
         UNCHANGED <<environment, transactions, links, quotes, transfers, sent>>,
         UNCHANGED responses
           \/ \E m \in MsgId : Stored(m) /\ Respond(m, "invalid")
  PROVE  IInv'
<1>1. /\ work' \in [WorkerQueue -> Worker] /\ Only(q)
      /\ work'[q].pc = "idle" /\ WorkerOK(q)' /\ Knows(q)'
  BY DoneKept
<1>2. /\ quotes' \in [TrxId -> QuoteState]
      /\ responses \subseteq responses' /\ responses' \in SUBSET Response
      /\ \A m \in MsgId, r \in {"approved", "invalid"} :
           <<m, r>> \in responses' /\ <<m, r>> \notin responses =>
             Stored(m) /\ (r = "approved" => Earned(m))
  BY DEF IInv, TypeOK, Respond, Response
<1> QED
  BY <1>1, <1>2, AnswerKept
=============================================================================
