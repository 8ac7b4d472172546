------------------------ MODULE OrchestratorHistory ------------------------
(***************************************************************************)
(* What the state of Orchestrator tells about the past: which jobs have    *)
(* been served, what each of them has led to and what cannot have happened *)
(* yet.  History is inductive together with IInv; the verdicts of          *)
(* Orchestrator and the refinement of CashPromise follow from the two.     *)
(***************************************************************************)
EXTENDS OrchestratorInvariant

\* Job j waits on queue q.
Waits(q, j) == \E i \in 1..Len(queue[q]) : queue[q][i] = j

\* No job is on its queue twice, or waits while it is being worked on.
ServedOnce(q) ==
  /\ \A i, j \in 1..Len(queue[q]) : queue[q][i] = queue[q][j] => i = j
  /\ work[q].pc # "idle" => ~Waits(q, work[q].job)

\* Only what the hub repeats can be served again.
JobsOnce ==
  \A q \in WorkerQueue : q \in LegacyQueue \/ Undisturbed => ServedOnce(q)

-----------------------------------------------------------------------------
(* Legacy messages. *)

\* Nothing has been made of message m yet.
Untouched(m) ==
  /\ \A t \in TrxId : <<t, m>> \notin links
  /\ ~Answered(m)

Unrefunded(m) ==
  /\ \A t \in TrxId : <<t, m>> \in links => ~IsRefund(t)
  /\ ~Answered(m)

\* The steps before a legacy handler links its message, and those before the
\* reversal handler links its advice to a refund.
BeforeLink == {"start", "insertTransaction", "find", "relate"}
BeforeRefund ==
  BeforeLink \cup {"cancel", "expireQuote", "insertRefund", "relateRefund"}

\* A message is untouched until its own handler links it; a reversal advice is
\* not answered and has no refund until its handler has made one.
LegacyJobsFresh ==
  /\ \A q \in LegacyQueue :
       /\ \A m \in MsgId : Waits(q, <<"lps", m>>) => Untouched(m)
       /\ work[q].pc \in BeforeLink => Untouched(JobMessage(q))
  /\ work[LR].pc \in BeforeRefund => Unrefunded(JobMessage(LR))

\* A request is linked to one transaction, an advice to one refund.
LinkedOnce ==
  \A m \in MsgId, t, u \in TrxId :
    /\ <<t, m>> \in links
    /\ <<u, m>> \in links
    /\ lpsMessages[m].type = "reversalRequest" => IsRefund(t) /\ IsRefund(u)
    => t = u

-----------------------------------------------------------------------------
(* Messages of the hub. *)

\* These workers stay with the transaction their job names.
OwnTransaction ==
  /\ \A q \in {QR, AR, TR} :
       work[q].pc \notin Searching => work[q].trx = work[q].job[2]
  /\ work[TR].pc \notin Searching => work[TR].nth = 1

Fulfilled(t) == \E n \in 1..MaxDeliver : <<"putTransfers", <<t, n>>>> \in sent
Refused(t) == \E n \in 1..MaxDeliver : <<"putTransfersError", <<t, n>>>> \in sent

\* Each call and each answer has its reason among what the hub has sent.
CausesOf(t) ==
  /\ <<"putQuotes", t>> \in sent => HasDelivered(<<"quoteRequest", t>>)
  /\ Fulfilled(t) \/ Refused(t) => HasDelivered(<<"transferRequest", t>>)
  /\ \A m \in Linked(t, "authorizationRequest") :
       <<m, "approved">> \in responses => HasDelivered(<<"authorization", t>>)
  /\ \A m \in Linked(t, "financialRequest") :
       <<m, "invalid">> \in responses => HasDelivered(<<"transferRequest", t>>)

CausesKnown == \A t \in TrxId : CausesOf(t)

\* The steps before a handler has carried its decision out, and those before
\* the transfer handler has decided to refuse.
Undecided ==
  {"start", "insertQuote", "putQuotes", "putQuotesError", "approve",
   "putAuthorizationsError", "insertTransfer", "putTransfers",
   "putTransfersError", "refuse"}
BeforeFulfil == {"start", "insertTransfer", "putTransfers"}

\* Message h of the hub still waits on q, or is worked on at one of steps.
Open(q, h, steps) ==
  \/ Waits(q, h)
  \/ work[q].pc \in steps /\ work[q].job = h

Unanswered(t, type) == \A m \in Linked(t, type) : ~Answered(m)

\* What a handler has not decided yet nobody else has.
QuoteOpen(t) ==
  Open(QR, <<"quoteRequest", t>>, Undecided) =>
    <<"putQuotes", t>> \notin sent /\ Unanswered(t, "authorizationRequest")

AuthorizationOpen(t) ==
  Open(AR, <<"authorization", t>>, Undecided) =>
    Unanswered(t, "authorizationRequest")

TransferOpen(t) ==
  /\ Open(TR, <<"transferRequest", t>>, Undecided) =>
       ~Fulfilled(t) /\ Unanswered(t, "financialRequest")
  /\ Open(TR, <<"transferRequest", t>>, BeforeFulfil) => ~Refused(t)

\* The hub has reported an error in the quote or in a transfer of t.
ErrorTold(t) ==
  \/ HasDelivered(<<"quoteError", t>>)
  \/ \E n \in 1..MaxDeliver : HasDelivered(<<"transferError", <<t, n>>>>)

\* What has been refused is not pursued; what has been pursued is refused only
\* when the hub reports an error.
RefusalFinal(t) ==
  /\ \A m \in Linked(t, "authorizationRequest") :
       <<m, "invalid">> \in responses =>
         /\ HasDelivered(<<"quoteRequest", t>>)
         /\ <<"putQuotes", t>> \in sent => HasDelivered(<<"authorization", t>>)
  /\ \A m \in Linked(t, "financialRequest") :
       <<m, "invalid">> \in responses => ~Fulfilled(t) \/ ErrorTold(t)
  /\ \A m \in Linked(t, "reversalRequest") :
       <<m, "invalid">> \in responses => ~IsRefund(t) \/ ErrorTold(t)
  /\ ~(Fulfilled(t) /\ Refused(t))

VerdictsKnown ==
  Undisturbed =>
    \A t \in TrxId :
      QuoteOpen(t) /\ AuthorizationOpen(t) /\ TransferOpen(t) /\ RefusalFinal(t)

\* Every call and answer has its reason, and as long as nothing disturbs no
\* verdict contradicts another.
Remembered ==
  /\ JobsOnce
  /\ LegacyJobsFresh
  /\ LinkedOnce
  /\ OwnTransaction
  /\ CausesKnown
  /\ VerdictsKnown
  /\ OneVerdict

-----------------------------------------------------------------------------
(* Transfers. *)

Paid(t, n) == <<"postTransfers", <<t, n>>>> \in sent

\* The steps before the transfer of a refund is made.
BeforePayment == {"start", "insertTransfer", "postTransfers"}

\* A refund is paid because of its quote, and once unless the hub repeats that.
PaidOnce(t) ==
  /\ \A n \in 1..MaxDeliver :
       Paid(t, n) => HasDelivered(<<"quoteResponse", t>>)
  /\ Undisturbed =>
       /\ \A n, k \in 1..MaxDeliver : Paid(t, n) /\ Paid(t, k) => n = k
       /\ Open(QX, <<"quoteResponse", t>>, BeforePayment) =>
            \A n \in 1..MaxDeliver : ~Paid(t, n)

\* The hub does not report an error in what it has done.
HubConsistent ==
  /\ \A t \in TrxId :
       ~(HasDelivered(<<"quoteResponse", t>>) /\ HasDelivered(<<"quoteError", t>>))
  /\ \A x \in TransferId :
       ~(HasDelivered(<<"committed", x>>) /\ HasDelivered(<<"transferError", x>>))

\* A transaction has the one transfer its messages tell of.
TransfersOnce ==
  /\ work[QX].pc \notin Searching => work[QX].trx = work[QX].job[2]
  /\ \A x \in TransferId : <<"putTransfers", x>> \in sent => x[2] = 1
  /\ \A t \in TrxId : PaidOnce(t)
  /\ HubConsistent

\* No job is served twice unless the hub repeats it, and every call, answer and
\* transfer is one the messages of terminals and hub give reason for
\* (index.ts, controllers, and the handlers of src/handlers).
History == Remembered /\ TransfersOnce
=============================================================================
