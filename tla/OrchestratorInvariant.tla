----------------------- MODULE OrchestratorInvariant -----------------------
(***************************************************************************)
(* The inductive invariant of Orchestrator.  It says what the rows, the    *)
(* calls, the jobs and the workers owe to each other, and implies the      *)
(* safety properties of Orchestrator that repeated messages, throwing      *)
(* awaits and crashes leave standing.                                      *)
(***************************************************************************)
EXTENDS Orchestrator

Stored(m) == lpsMessages[m].type # "none"
Withdrawal(t) == Exists(t) /\ ~IsRefund(t)
Refund(t) == Exists(t) /\ IsRefund(t)

-----------------------------------------------------------------------------
(* Tables. *)

MessagesOK ==
  \A m \in MsgId :
    /\ Stored(m) => lpsMessages[m].lpsKey \in Device
    /\ lpsMessages[m].type = "authorizationRequest" =>
         lpsMessages[m].payer \in Payer
    /\ lpsMessages[m].type = "reversalRequest" =>
         /\ lpsMessages[m].about \in MsgId
         /\ lpsMessages[lpsMessages[m].about].type
              \in {"authorizationRequest", "financialRequest"}

\* Only withdrawals have an MSISDN for a payer, and refunds go through few
\* states.
TransactionsOK ==
  \A t \in TrxId :
    /\ ~Exists(t) => transactions[t] = NoTransaction
    /\ Withdrawal(t) => transactions[t].payer \in Payer
    /\ Refund(t) =>
         /\ transactions[t].payer = None
         /\ transactions[t].state \in {"transactionReceived",
              "transactionCancelled", "financialResponse"}

LinksOK ==
  \A t \in TrxId, m \in MsgId :
    <<t, m>> \in links =>
      /\ Exists(t) /\ Stored(m)
      /\ transactions[t].lpsKey = lpsMessages[m].lpsKey
      /\ IsRefund(t) => lpsMessages[m].type = "reversalRequest"

TransfersOK ==
  \A x \in TransferId :
    /\ transfers[x] # "none" => Exists(x[1])
    /\ transfers[x] = "COMMITTED" => Committed(x)

-----------------------------------------------------------------------------
(* Calls and answers. *)

WithdrawalCall ==
  {"getParties", "postTransactionRequests", "putQuotes", "putAuthorizations"}

\* The fees of t have been shown on its terminal.
Shown(t) ==
  /\ transactions[t].fspId
  /\ <<"putQuotes", t>> \in sent
  /\ \E m \in Linked(t, "authorizationRequest") : <<m, "approved">> \in responses

SentOK ==
  /\ \A c \in WithdrawalCall, t \in TrxId : <<c, t>> \in sent => Withdrawal(t)
  /\ \A t \in TrxId :
       /\ <<"postTransactionRequests", t>> \in sent => transactions[t].fspId
       /\ <<"putQuotes", t>> \in sent => transactions[t].fspId
       /\ <<"postQuotes", t>> \in sent => Refund(t)
       /\ transactions[t].state = "authSent" => Shown(t)
  /\ \A x \in TransferId :
       /\ <<"putTransfers", x>> \in sent =>
            Withdrawal(x[1]) /\ transfers[x] # "none"
       /\ <<"postTransfers", x>> \in sent =>
            Refund(x[1]) /\ <<"postQuotes", x[1]>> \in sent

DeliveredOK ==
  \A h \in HubMessage : HasDelivered(h) => PromptedBy(h) \cap sent # {}

ResponsesOK == \A m \in MsgId, r \in {"approved", "invalid"} :
  <<m, r>> \in responses => Stored(m)

-----------------------------------------------------------------------------
(* Jobs and workers. *)

\* The job is one of queue q, and what it is about has happened.
Justified(q, j) ==
  IF q \in LegacyQueue
    THEN /\ j \in LpsJob
         /\ lpsMessages[j[2]].type =
              CASE q = LA -> "authorizationRequest"
                [] q = LF -> "financialRequest"
                [] OTHER -> "reversalRequest"
    ELSE j \in HubMessage /\ QueueOf(j) = q /\ HasDelivered(j)

QueuesOK ==
  \A q \in Queue : \A i \in 1..Len(queue[q]) : Justified(q, queue[q][i])

\* The steps of each handler before and after it has its transaction.
Searching == {"idle", "start", "insertTransaction", "find"}
StepsOf(q) ==
  {"idle", "start"} \cup
  CASE q = LA -> {"insertTransaction", "relate", "getParties"}
    [] q = PR -> {"updateParty", "postTransactionRequests"}
    [] q = TRR -> {"respond", "reject"}
    [] q = QR -> {"insertQuote", "putQuotes", "updateState",
                  "putQuotesError", "refuse"}
    [] q = AR -> {"approve", "updateState", "putAuthorizationsError",
                  "refuse"}
    [] q = LF -> {"relate", "putAuthorizations", "updateState"}
    [] q = TR -> {"insertTransfer", "putTransfers", "updateState",
                  "updateTransfer", "putTransfersError", "refuse"}
    [] q = TX -> {"approve", "updateState", "updateTransfer"}
    [] q = LR -> {"find", "relate", "cancel", "expireQuote", "insertRefund",
                  "relateRefund", "insertQuote", "postQuotes"}
    [] OTHER -> {"insertTransfer", "postTransfers"}

\* The refund of t that the advice m asks for is due: the hub has committed.
Due(t, m) ==
  /\ Withdrawal(t)
  /\ \E n \in 1..MaxDeliver : Committed(<<t, n>>)
  /\ <<t, lpsMessages[m].about>> \in links
  /\ transactions[t].lpsKey = lpsMessages[m].lpsKey

\* What each worker knows of its transaction, message or transfer at each of
\* its steps.
OwnMessage(q) ==
  transactions[work[q].trx].lpsKey = lpsMessages[JobMessage(q)].lpsKey

KnowsLA == work[LA].pc \in {"relate", "getParties"} => OwnMessage(LA)

KnowsPR ==
  work[PR].pc = "postTransactionRequests" => transactions[work[PR].trx].fspId

KnowsQR ==
  work[QR].pc \in {"insertQuote", "putQuotes"} =>
    transactions[work[QR].trx].fspId

KnowsAR ==
  /\ work[AR].pc \in {"approve", "updateState"} =>
       /\ transactions[work[AR].trx].fspId
       /\ <<"putQuotes", work[AR].trx>> \in sent
  /\ work[AR].pc = "updateState" => Shown(work[AR].trx)

KnowsLF ==
  /\ work[LF].pc \in {"relate", "putAuthorizations"} =>
       Shown(work[LF].trx) /\ OwnMessage(LF)
  /\ work[LF].pc = "putAuthorizations" =>
       <<work[LF].trx, JobMessage(LF)>> \in links

KnowsTR ==
  /\ work[TR].pc \notin Searching => WorkTransfer(TR) \in TransferId
  /\ work[TR].pc \in {"putTransfers", "updateState", "updateTransfer"} =>
       transfers[WorkTransfer(TR)] # "none"

KnowsTX ==
  work[TX].pc \notin Searching =>
    /\ WorkTransfer(TX) \in TransferId
    /\ transfers[WorkTransfer(TX)] # "none"
    /\ Committed(WorkTransfer(TX))

KnowsLR ==
  /\ work[LR].pc \in {"relate", "cancel", "expireQuote", "insertRefund"} =>
       /\ Withdrawal(work[LR].trx)
       /\ OwnMessage(LR)
       /\ "committed" \in work[LR].seen => Due(work[LR].trx, JobMessage(LR))
  /\ work[LR].pc \in {"cancel", "expireQuote", "insertRefund"} =>
       <<work[LR].trx, JobMessage(LR)>> \in links
  /\ work[LR].pc = "insertRefund" => "committed" \in work[LR].seen
  /\ work[LR].pc \in {"relateRefund", "insertQuote", "postQuotes"} =>
       Refund(work[LR].trx) /\ OwnMessage(LR)

KnowsQX == work[QX].pc = "postTransfers" => WorkTransfer(QX) \in TransferId

Knowledge ==
  /\ KnowsLA /\ KnowsPR /\ KnowsQR /\ KnowsAR /\ KnowsLF
  /\ KnowsTR /\ KnowsTX /\ KnowsLR /\ KnowsQX

WorkerOK(q) ==
  /\ work[q].pc \in StepsOf(q)
  /\ work[q].pc # "idle" => Justified(q, work[q].job)
  /\ work[q].pc \notin Searching =>
       /\ work[q].trx \in TrxId
       /\ q \in {LA, PR, TRR, QR, AR, LF, TR} => Withdrawal(work[q].trx)
       /\ q = QX =>
            Refund(work[q].trx) /\ <<"postQuotes", work[q].trx>> \in sent

WorkersOK == \A q \in WorkerQueue : WorkerOK(q)

IInv ==
  /\ TypeOK
  /\ MessagesOK
  /\ TransactionsOK
  /\ LinksOK
  /\ TransfersOK
  /\ SentOK
  /\ DeliveredOK
  /\ ResponsesOK
  /\ QueuesOK
  /\ WorkersOK
  /\ Knowledge
  /\ ApprovedMeansCommitted
  /\ PasswordFollowsApproval
  /\ FulfilledOnce
  /\ RefundOnlyCommitted

\* Every existing transaction has a terminal.
Owned == \A t \in TrxId : Exists(t) => transactions[t].lpsKey \in Device
=============================================================================
