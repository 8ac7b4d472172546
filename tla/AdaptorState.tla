---------------------------- MODULE AdaptorState ----------------------------
(***************************************************************************)
(* The state the parts of the Mojaloop adaptor share: the database tables  *)
(* (src/models, migrations), the Redis backed queues of index.ts, the one  *)
(* worker each queue has, and what has been sent to the Mojaloop hub and   *)
(* to the legacy payment system (LPS).  The handlers of src/handlers are   *)
(* modelled in the modules AuthorizationFlow, FinancialFlow and            *)
(* ReversalFlow, which extend this one.                                    *)
(*                                                                         *)
(* A handler runs from one await to the next in one step.  work[q].pc      *)
(* names the await the worker of queue q performs next; for a call to the  *)
(* hub it is the name of the method of the client.                         *)
(***************************************************************************)
EXTENDS Naturals, Sequences, FiniteSets

CONSTANTS
  Device,      \* lpsKeys: the terminals of the legacy payment system
  Payer,       \* MSISDNs of the payers
  None,        \* no device, no payer
  MaxMsg,      \* bound on the legacy messages received
  MaxAuth,     \* bound on the authorization requests among them
  MaxTrx,      \* bound on the transactions created, refunds included
  MaxDeliver,  \* how often the hub delivers the same message
  MaxRepeats,  \* bound on the messages it repeats in all
  MaxFaults,   \* bound on the awaits that throw
  MaxCrashes,  \* bound on the crashes of the process
  MaxExpiries, \* bound on the transactions and quotes that expire
  HubKinds,    \* the kinds of message the hub sends in a run
  CreatedAt    \* the second each transaction is created in

MsgId == 1..MaxMsg
TrxId == 1..MaxTrx

ASSUME BoundsAssumption ==
  /\ MaxMsg \in Nat /\ MaxAuth \in Nat /\ MaxTrx \in Nat
  /\ MaxDeliver \in Nat \ {0} /\ MaxRepeats \in Nat
  /\ MaxFaults \in Nat /\ MaxCrashes \in Nat /\ MaxExpiries \in Nat

ASSUME NoneAssumption == None \notin Device \cup Payer

\* Transactions are numbered in the order they are created in; created_at has
\* a resolution of one second, so that several may share their second.
ASSUME CreatedAtAssumption ==
  /\ CreatedAt \in [TrxId -> Nat]
  /\ \A t, u \in TrxId : t < u => CreatedAt[t] <= CreatedAt[u]

\* A transfer of transaction t: the n-th that names it.
TransferId == TrxId \X (1..MaxDeliver)

-----------------------------------------------------------------------------
(* The tables. *)

LegacyMessageType ==
  {"none", "authorizationRequest", "financialRequest", "reversalRequest"}

\* about: for a reversal advice the message its field 90 names, for a financial
\* request the authorization request whose approval the terminal showed; only
\* the former is something the code can see.
LpsMessage ==
  [type : LegacyMessageType, lpsKey : Device \cup {None},
   payer : Payer \cup {None}, about : MsgId \cup {0}]

NoMessage == [type |-> "none", lpsKey |-> None, payer |-> None, about |-> 0]

\* The states of models/transaction.ts that some handler writes.
TransactionState ==
  {"transactionReceived", "transactionResponded", "quoteResponded", "authSent",
   "financialRequestSent", "fulfillmentSent", "financialResponse",
   "transactionCancelled"}

\* fspId and transactionId: is the column set.  expired: has expiration passed.
\* original: the transaction a refund refunds, 0 for a withdrawal.
Transaction ==
  [state : TransactionState \cup {"none"}, lpsKey : Device \cup {None},
   payer : Payer \cup {None}, fspId : BOOLEAN, transactionId : BOOLEAN,
   expired : BOOLEAN, original : TrxId \cup {0}]

NoTransaction ==
  [state |-> "none", lpsKey |-> None, payer |-> None, fspId |-> FALSE,
   transactionId |-> FALSE, expired |-> FALSE, original |-> 0]

QuoteState == {"none", "live", "expired"}
TransferState == {"none", "RECEIVED", "RESERVED", "COMMITTED"}

-----------------------------------------------------------------------------
(* Messages, queues and workers. *)

\* What the hub sends to the HTTP server of the adaptor: <<kind, id>>.  All that
\* <<"parties", t>> tells the adaptor about t is the MSISDN of its payer.
AboutTransaction ==
  {"parties", "accepted", "rejected", "quoteRequest", "authorization",
   "transferRequest", "quoteResponse", "transactionRequestError",
   "authorizationError", "quoteError"}
AboutTransfer == {"committed", "aborted", "transferError"}
HubMessage ==
  (AboutTransaction \X TrxId) \cup (AboutTransfer \X TransferId)

\* What the relay puts on a queue names the row of lpsMessages it stored.
LpsJob == {"lps"} \X MsgId
Job == HubMessage \cup LpsJob

\* The queues of index.ts that have a worker, and the one that has none.
LegacyQueue ==
  {"LegacyAuthorizationRequests", "LegacyFinancialRequests",
   "LegacyReversalRequests"}
WorkerQueue ==
  LegacyQueue \cup
  {"PartiesResponse", "TransactionRequestResponses", "QuoteRequests",
   "AuthorizationRequests", "TransferRequests", "TransferResponses",
   "QuoteResponses"}
Queue == WorkerQueue \cup {"ErrorResponses"}

\* Which queue the controllers put a message of the hub on.
QueueOf(h) ==
  CASE h[1] = "parties" -> "PartiesResponse"
    [] h[1] \in {"accepted", "rejected"} -> "TransactionRequestResponses"
    [] h[1] = "quoteRequest" -> "QuoteRequests"
    [] h[1] = "authorization" -> "AuthorizationRequests"
    [] h[1] = "transferRequest" -> "TransferRequests"
    [] h[1] \in {"committed", "aborted"} -> "TransferResponses"
    [] h[1] = "quoteResponse" -> "QuoteResponses"
    [] OTHER -> "ErrorResponses"

\* What the adaptor sends to the hub: <<method of the client, id>>.
TransactionCall ==
  {"getParties", "postTransactionRequests", "putTransactionRequestsError",
   "putQuotes", "putQuotesError", "putAuthorizations",
   "putAuthorizationsError", "postQuotes"}
TransferCall == {"putTransfers", "putTransfersError", "postTransfers"}
HubCall ==
  (TransactionCall \X TrxId) \cup (TransferCall \X TransferId)

Response == MsgId \X {"approved", "invalid"}

\* seen: what the handler read and remembers over its next awaits.  nth: the
\* transfer <<trx, nth>> it is about.
Seen == {"cancelled", "live", "committed"}
DatabaseStep ==
  {"insertTransaction", "relate", "updateParty", "respond", "reject",
   "insertQuote", "updateState", "insertTransfer", "updateTransfer", "find",
   "cancel", "expireQuote", "insertRefund", "relateRefund"}
CallStep == TransactionCall \cup TransferCall
Pc == {"idle", "start", "approve", "refuse"} \cup DatabaseStep \cup CallStep

NoJob == <<"none", 0>>
Worker ==
  [pc : Pc, job : Job \cup {NoJob}, trx : TrxId \cup {0},
   nth : 0..MaxDeliver, seen : SUBSET Seen]
Fresh(pc, job) ==
  [pc |-> pc, job |-> job, trx |-> 0, nth |-> 0, seen |-> {}]
Idle == Fresh("idle", NoJob)

-----------------------------------------------------------------------------
VARIABLES
  lpsMessages,  \* table lpsMessages
  transactions, \* tables transactions and transactionParties
  links,        \* table transactionsLpsMessages
  quotes,       \* table quotes: the quote of each transaction
  transfers,    \* table transfers
  queue,        \* the waiting jobs of each queue
  work,         \* what the worker of each queue is doing
  sent,         \* every call made to the hub
  responses,    \* everything put on the lps1...Responses queues
  delivered,    \* how often the hub has delivered each of its messages
  budget        \* repetitions, faults, crashes, expiries to come

tables == <<lpsMessages, transactions, links, quotes, transfers>>
outputs == <<sent, responses>>
environment == <<lpsMessages, queue, delivered, budget>>
vars == <<lpsMessages, transactions, links, quotes, transfers, queue, work,
          sent, responses, delivered, budget>>

Budget ==
  [repeats : 0..MaxRepeats, faults : 0..MaxFaults, crashes : 0..MaxCrashes,
   expiries : 0..MaxExpiries]

\* The tables hold rows, the queues hold jobs and a worker does one of them.
TypeOK ==
  /\ lpsMessages \in [MsgId -> LpsMessage]
  /\ transactions \in [TrxId -> Transaction]
  /\ links \in SUBSET (TrxId \X MsgId)
  /\ quotes \in [TrxId -> QuoteState]
  /\ transfers \in [TransferId -> TransferState]
  /\ queue \in [Queue -> Seq(Job)]
  /\ work \in [WorkerQueue -> Worker]
  /\ sent \in SUBSET HubCall
  /\ responses \in SUBSET Response
  /\ delivered \in [HubMessage -> 0..MaxDeliver]
  /\ budget \in Budget

Init ==
  /\ lpsMessages = [m \in MsgId |-> NoMessage]
  /\ transactions = [t \in TrxId |-> NoTransaction]
  /\ links = {}
  /\ quotes = [t \in TrxId |-> "none"]
  /\ transfers = [x \in TransferId |-> "none"]
  /\ queue = [q \in Queue |-> <<>>]
  /\ work = [q \in WorkerQueue |-> Idle]
  /\ sent = {}
  /\ responses = {}
  /\ delivered = [h \in HubMessage |-> 0]
  /\ budget = [repeats |-> MaxRepeats, faults |-> MaxFaults,
               crashes |-> MaxCrashes, expiries |-> MaxExpiries]

-----------------------------------------------------------------------------
(* Reading the tables. *)

Exists(t) == transactions[t].state # "none"

\* Transaction.isValid, for a transaction that exists.
IsValid(t) ==
  /\ transactions[t].state # "transactionCancelled"
  /\ ~transactions[t].expired

IsRefund(t) == transactions[t].original # 0

\* Transaction.modifiers.incomplete
Incomplete(lpsKey) ==
  {t \in TrxId :
     /\ transactions[t].lpsKey = lpsKey
     /\ transactions[t].state
          \notin {"none", "transactionCancelled", "financialResponse"}}

\* The relation lpsMessages of transaction t, where type is as given.
Linked(t, type) ==
  {m \in MsgId : <<t, m>> \in links /\ lpsMessages[m].type = type}

\* orderBy('created_at', 'desc').first(): any of those of the last second.
Latest(T) == {t \in T : \A u \in T : CreatedAt[u] <= CreatedAt[t]}

\* The id the next row of transactions gets.
NextTrx == {t \in TrxId : ~Exists(t) /\ \A u \in TrxId : u < t => Exists(u)}

-----------------------------------------------------------------------------
(* The steps of a worker. *)

At(q, pc) == work[q].pc = pc

\* The worker of q takes the next job of its queue (concurrency 1).
Take(q) ==
  /\ At(q, "idle")
  /\ queue[q] # <<>>
  /\ queue' = [queue EXCEPT ![q] = Tail(@)]
  /\ work' = [work EXCEPT ![q] = Fresh("start", Head(queue[q]))]
  /\ UNCHANGED <<tables, outputs, delivered, budget>>

Goto(q, pc) == work' = [work EXCEPT ![q].pc = pc]

\* The worker has found or created transaction t and goes on at pc.
Begin(q, pc, t, nth, seen) ==
  work' = [work EXCEPT ![q] = [@ EXCEPT !.pc = pc, !.trx = t, !.nth = nth,
                                        !.seen = seen]]

Done(q) == work' = [work EXCEPT ![q] = Idle]

SetState(t, state) ==
  transactions' = [transactions EXCEPT ![t].state = state]

Relate(t, m) == links' = links \cup {<<t, m>>}

Respond(m, response) == responses' = responses \cup {<<m, response>>}

\* The message a legacy handler's job names, and the transfer of a handler.
JobMessage(q) == work[q].job[2]
WorkTransfer(q) == <<work[q].trx, work[q].nth>>

\* The call to the hub the worker of q is about to make.
Calling(q) ==
  <<work[q].pc,
    IF work[q].pc \in TransferCall THEN WorkTransfer(q) ELSE work[q].trx>>

\* The worker of q makes the call pc to the hub.
Call(q, pc) ==
  /\ At(q, pc)
  /\ sent' = sent \cup {Calling(q)}

\* An await of the handler of q throws and its catch makes the calls and puts
\* the answers given.  A call to the hub may have arrived all the same: the
\* client gives up after its timeout.
Throw(q, calls, answers) ==
  /\ ~At(q, "idle")
  /\ budget.faults > 0
  /\ budget' = [budget EXCEPT !.faults = @ - 1]
  /\ \E arrived \in SUBSET IF work[q].pc \in CallStep THEN {Calling(q)}
                                                       ELSE {} :
       sent' = sent \cup arrived \cup calls
  /\ responses' = responses \cup answers
  /\ Done(q)
  /\ UNCHANGED <<tables, queue, delivered>>
=============================================================================
