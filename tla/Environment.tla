---------------------------- MODULE Environment ----------------------------
(***************************************************************************)
(* What surrounds the handlers: the terminals behind the relay, the        *)
(* Mojaloop hub behind the HTTP controllers, the clock, and the crash of   *)
(* the process.  The relay and the controllers are taken at their word     *)
(* here: what arrives is stored and put on its queue in one step.          *)
(***************************************************************************)
EXTENDS AdaptorState

-----------------------------------------------------------------------------
(* Terminals. *)

NextMsg ==
  {m \in MsgId :
     /\ lpsMessages[m].type = "none"
     /\ \A k \in MsgId : k < m => lpsMessages[k].type # "none"}

\* BaseTcpRelay, on 'data': the message is stored and put on its queue.
Receive(type, q, lpsKey, payer, about) ==
  /\ \E m \in NextMsg :
       /\ lpsMessages' =
            [lpsMessages EXCEPT ![m] =
               [type |-> type, lpsKey |-> lpsKey, payer |-> payer,
                about |-> about]]
       /\ queue' = [queue EXCEPT ![q] = Append(@, <<"lps", m>>)]
  /\ UNCHANGED <<transactions, links, quotes, transfers, work, outputs,
                 delivered, budget>>

Received(types) == {m \in MsgId : lpsMessages[m].type \in types}

\* Bound: every authorization request and every reversal advice may create a
\* transaction.
RoomForTransaction ==
  Cardinality(Received({"authorizationRequest", "reversalRequest"})) < MaxTrx

SendAuthorizationRequest(d) ==
  /\ RoomForTransaction
  /\ Cardinality(Received({"authorizationRequest"})) < MaxAuth
  /\ \E p \in Payer :
       Receive("authorizationRequest", "LegacyAuthorizationRequests", d, p, 0)

\* A terminal asks for the password once its last authorization request has
\* been approved, and sends one financial request for it.
SendFinancialRequest(d) ==
  \E m \in MsgId :
    /\ lpsMessages[m].lpsKey = d
    /\ lpsMessages[m].type = "authorizationRequest"
    /\ <<m, "approved">> \in responses
    /\ \A k \in MsgId :
         lpsMessages[k].lpsKey = d =>
           /\ lpsMessages[k].type = "authorizationRequest" => k <= m
           /\ lpsMessages[k].type = "financialRequest"
                => lpsMessages[k].about # m
    /\ Receive("financialRequest", "LegacyFinancialRequests", d, None, m)

\* A terminal may take back any request it has sent, answered or not, and
\* repeats its advice until it has the answer.  The relay finds the request by
\* the time and trace number of field 90 alone, and may find that of another
\* terminal.
SendReversalAdvice(d) ==
  /\ RoomForTransaction
  /\ \E m \in Received({"authorizationRequest", "financialRequest"}) :
       Receive("reversalRequest", "LegacyReversalRequests", d, None, m)

-----------------------------------------------------------------------------
(* The hub. *)

HasDelivered(h) == delivered[h] > 0

\* The calls of the adaptor that make the hub send h: one of them is enough.
PromptedBy(h) ==
  CASE h[1] = "parties" -> {<<"getParties", h[2]>>}
    [] h[1] \in {"accepted", "rejected", "quoteRequest",
                 "transactionRequestError"}
         -> {<<"postTransactionRequests", h[2]>>}
    [] h[1] = "authorization" -> {<<"putQuotes", h[2]>>}
    [] h[1] \in {"transferRequest", "authorizationError"}
         -> {<<"putAuthorizations", h[2]>>}
    [] h[1] \in {"quoteResponse", "quoteError"} -> {<<"postQuotes", h[2]>>}
    [] OTHER -> {<<"putTransfers", h[2]>>, <<"postTransfers", h[2]>>}

\* What the hub has told otherwise: it accepts or rejects a transaction
\* request, commits or aborts a transfer, answers a request for a quote or
\* reports an error, and asks for no quote for a request it has rejected.
Contradicts(h) ==
  CASE h[1] \in {"accepted", "quoteRequest"} -> {<<"rejected", h[2]>>}
    [] h[1] = "rejected" -> {<<"accepted", h[2]>>, <<"quoteRequest", h[2]>>}
    [] h[1] = "committed" -> {<<"aborted", h[2]>>, <<"transferError", h[2]>>}
    [] h[1] \in {"aborted", "transferError"} -> {<<"committed", h[2]>>}
    [] h[1] = "quoteResponse" -> {<<"quoteError", h[2]>>}
    [] h[1] = "quoteError" -> {<<"quoteResponse", h[2]>>}
    [] OTHER -> {}

\* The hub sends h, once more when it gets no answer, and a controller puts
\* it on its queue.
Deliver(h) ==
  /\ h[1] \in HubKinds
  /\ \/ delivered[h] = 0 /\ UNCHANGED budget
     \/ /\ delivered[h] \in 1..(MaxDeliver - 1) /\ budget.repeats > 0
        /\ budget' = [budget EXCEPT !.repeats = @ - 1]
  /\ PromptedBy(h) \cap sent # {}
  /\ \A k \in Contradicts(h) : ~HasDelivered(k)
  /\ delivered' = [delivered EXCEPT ![h] = @ + 1]
  /\ queue' = [queue EXCEPT ![QueueOf(h)] = Append(@, h)]
  /\ UNCHANGED <<tables, work, outputs>>

-----------------------------------------------------------------------------
(* Time and failure. *)

Expiry ==
  /\ budget.expiries > 0
  /\ budget' = [budget EXCEPT !.expiries = @ - 1]

\* The expiration of a transaction passes, and that of the refunds it has
\* been copied to.
ExpireTransaction(t) ==
  /\ Expiry
  /\ Exists(t) /\ ~IsRefund(t) /\ ~transactions[t].expired
  /\ transactions' =
       [u \in TrxId |->
          IF u = t \/ transactions[u].original = t
            THEN [transactions[u] EXCEPT !.expired = TRUE]
            ELSE transactions[u]]
  /\ UNCHANGED <<lpsMessages, links, quotes, transfers, queue, work, outputs,
                 delivered>>

ExpireQuote(t) ==
  /\ Expiry
  /\ quotes[t] = "live"
  /\ quotes' = [quotes EXCEPT ![t] = "expired"]
  /\ UNCHANGED <<lpsMessages, transactions, links, transfers, queue, work,
                 outputs, delivered>>

\* The process dies and is started again.  Database and queues survive, the
\* jobs being worked on are lost: nothing schedules them again.
Crash ==
  /\ budget.crashes > 0
  /\ \E q \in WorkerQueue : ~At(q, "idle")
  /\ budget' = [budget EXCEPT !.crashes = @ - 1]
  /\ work' = [q \in WorkerQueue |-> Idle]
  /\ UNCHANGED <<tables, queue, outputs, delivered>>
=============================================================================
