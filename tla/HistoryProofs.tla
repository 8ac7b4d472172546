--------------------------- MODULE HistoryProofs ---------------------------
(***************************************************************************)
(* History is inductive together with the invariant of Orchestrator.       *)
(***************************************************************************)
EXTENDS OrchestratorHistory, OrchestratorProofs

-----------------------------------------------------------------------------
(* How the worker of q may move. *)

\* Worker q does not come back to steps.
NoReturn(q, steps) == work'[q].pc \in steps => work[q].pc \in steps

Moves(q) ==
  /\ Only(q)
  /\ work[q].pc # "idle"
  /\ work'[q].pc # "idle" => work'[q].job = work[q].job
  /\ q \in LegacyQueue => NoReturn(q, BeforeLink)
  /\ q = LR => NoReturn(q, BeforeRefund)
  /\ q \in {QR, AR, TR} =>
       /\ NoReturn(q, Undecided)
       /\ work'[q].pc \notin Searching => work'[q].trx = work[q].job[2]
  /\ q = TR =>
       /\ NoReturn(q, BeforeFulfil)
       /\ work'[q].pc \notin Searching => work'[q].nth = 1

\* Transactions keep their terminal, their payer and the withdrawal they refund.
OwnersKept ==
  \A t \in TrxId :
    /\ transactions'[t].lpsKey = transactions[t].lpsKey
    /\ transactions'[t].payer = transactions[t].payer
    /\ transactions'[t].original = transactions[t].original

\* The same for those that are linked.
LinkedOriginalsKept ==
  \A t \in TrxId, m \in MsgId :
    <<t, m>> \in links => transactions'[t].original = transactions[t].original

\* A worker that is done.
LEMMA DoneMoves ==
  ASSUME IInv, NEW q \in WorkerQueue, work[q].pc # "idle", Done(q)
  PROVE  Moves(q) /\ work'[q].pc = "idle"
<1>1. Only(q) /\ work'[q].pc = "idle"
  BY DoneWork DEF IInv
<1> QED
  BY <1>1 DEF Moves, NoReturn, BeforeLink, BeforeRefund, Undecided,
     BeforeFulfil, Searching

\* A worker that goes on with its transaction.
LEMMA GotoMoves ==
  ASSUME IInv, Remembered, NEW q \in WorkerQueue, NEW pc \in Pc, Goto(q, pc),
         work[q].pc # "idle",
         pc \in Searching \/ work[q].pc \notin Searching,
         q \in LegacyQueue /\ pc \in BeforeLink => work[q].pc \in BeforeLink,
         q = LR /\ pc \in BeforeRefund => work[q].pc \in BeforeRefund,
         q \in {QR, AR, TR} /\ pc \in Undecided => work[q].pc \in Undecided,
         q = TR /\ pc \in BeforeFulfil => work[q].pc \in BeforeFulfil
  PROVE  Moves(q) /\ work'[q].pc = pc
<1>1. /\ Only(q)
      /\ work'[q].pc = pc
      /\ work'[q].job = work[q].job
      /\ work'[q].trx = work[q].trx
      /\ work'[q].nth = work[q].nth
  BY GotoWork DEF IInv
<1>2. /\ q \in {QR, AR, TR} /\ work[q].pc \notin Searching =>
           work[q].trx = work[q].job[2]
      /\ q = TR /\ work[q].pc \notin Searching => work[q].nth = 1
  BY DEF Remembered, OwnTransaction
<1> QED
  BY <1>1, <1>2 DEF Moves, NoReturn

\* A worker that has found or created its transaction.
LEMMA BeginMoves ==
  ASSUME IInv, NEW q \in WorkerQueue, NEW pc \in Pc, NEW t \in TrxId,
         NEW n \in 0..MaxDeliver, NEW seen \in SUBSET Seen,
         Begin(q, pc, t, n, seen),
         work[q].pc # "idle",
         q \in LegacyQueue /\ pc \in BeforeLink => work[q].pc \in BeforeLink,
         q = LR /\ pc \in BeforeRefund => work[q].pc \in BeforeRefund,
         q \in {QR, AR, TR} => work[q].pc = "start" /\ t = work[q].job[2],
         q = TR => n = 1
  PROVE  Moves(q) /\ work'[q].pc = pc
<1>1. /\ Only(q)
      /\ work'[q].pc = pc
      /\ work'[q].job = work[q].job
      /\ work'[q].trx = t
      /\ work'[q].nth = n
  BY BeginWork DEF IInv
<1>2. "start" \in Undecided /\ "start" \in BeforeFulfil
  BY DEF Undecided, BeforeFulfil
<1> QED
  BY <1>1, <1>2 DEF Moves, NoReturn

-----------------------------------------------------------------------------
(* The parts of Remembered, for a step of a worker. *)

\* Jobs are served once: the worker goes on with the one it has.
LEMMA JobsKept ==
  ASSUME Remembered, NEW q \in WorkerQueue, Moves(q), UNCHANGED queue,
         Undisturbed' => Undisturbed
  PROVE  JobsOnce'
<1>1. SUFFICES ASSUME NEW p \in WorkerQueue, p \in LegacyQueue \/ Undisturbed'
               PROVE  ServedOnce(p)'
  BY DEF JobsOnce
<1>2. ServedOnce(p)
  BY <1>1 DEF Remembered, JobsOnce
<1>3. work'[p].pc # "idle" => work[p].pc # "idle" /\ work'[p].job = work[p].job
  BY DEF Moves, Only
<1> QED
  BY <1>2, <1>3 DEF ServedOnce, Waits

\* And workers stay with their transactions.
LEMMA OwnKept ==
  ASSUME Remembered, NEW q \in WorkerQueue, Moves(q)
  PROVE  OwnTransaction'
<1>1. /\ \A p \in {QR, AR, TR} :
           work[p].pc \notin Searching => work[p].trx = work[p].job[2]
      /\ work[TR].pc \notin Searching => work[TR].nth = 1
  BY DEF Remembered, OwnTransaction
<1>2. "idle" \in Searching /\ \A p \in {QR, AR, TR} : p \in WorkerQueue
  BY QueueNames DEF Searching
<1>3. ASSUME NEW p \in {QR, AR, TR}, work'[p].pc \notin Searching
      PROVE  work'[p].trx = work'[p].job[2]
  BY <1>1, <1>2, <1>3 DEF Moves, Only
<1>4. work'[TR].pc \notin Searching => work'[TR].nth = 1
  BY <1>1, <1>2 DEF Moves, Only
<1> QED
  BY <1>3, <1>4 DEF OwnTransaction

\* The messages each legacy handler is for.
TypeOf(q) ==
  CASE q = LA -> "authorizationRequest"
    [] q = LF -> "financialRequest"
    [] OTHER -> "reversalRequest"

\* No message is for two handlers.
LEMMA TypesDiffer ==
  ASSUME NEW p \in LegacyQueue, NEW q \in LegacyQueue, TypeOf(p) = TypeOf(q)
  PROVE  p = q
BY DEF TypeOf, LegacyQueue, LA, LF, LR

\* A job that waits for a legacy handler names a message for it.
LEMMA WaitingMessage ==
  ASSUME IInv, NEW q \in LegacyQueue, NEW m \in MsgId, Waits(q, <<"lps", m>>)
  PROVE  Stored(m) /\ lpsMessages[m].type = TypeOf(q)
<1>1. PICK i \in 1..Len(queue[q]) : queue[q][i] = <<"lps", m>>
  BY DEF Waits
<1>2. Justified(q, queue[q][i])
  BY DEF IInv, QueuesOK, Queue, WorkerQueue
<1>3. \A j : j = <<"lps", m>> /\ Justified(q, j) =>
        lpsMessages[m].type = TypeOf(q)
  BY DEF Justified, TypeOf
<1>4. lpsMessages[m].type = TypeOf(q)
  BY <1>1, <1>2, <1>3
<1> QED
  BY <1>4 DEF Stored, TypeOf

\* And so does the job it is working on.
LEMMA BusyMessage ==
  ASSUME IInv, NEW q \in LegacyQueue, work[q].pc # "idle"
  PROVE  /\ JobMessage(q) \in MsgId
         /\ work[q].job = <<"lps", JobMessage(q)>>
         /\ lpsMessages[JobMessage(q)].type = TypeOf(q)
<1>1. Justified(q, work[q].job)
  BY DEF IInv, WorkersOK, WorkerOK, WorkerQueue
<1>2. \A j : j = work[q].job /\ Justified(q, j) =>
        /\ j[2] \in MsgId /\ j = <<"lps", j[2]>>
        /\ lpsMessages[j[2]].type = TypeOf(q)
  BY DEF Justified, TypeOf, LpsJob
<1> QED
  BY <1>1, <1>2 DEF JobMessage

\* Why a step of worker q may link m to t.
MayLink(q, t, m) ==
  /\ q \in LegacyQueue
  /\ m = JobMessage(q)
  /\ work'[q].pc \notin BeforeLink
  /\ q = LR /\ work'[q].pc \in BeforeRefund => transactions'[t].original = 0

\* Why it may answer m.
MayAnswer(q, m) ==
  \/ /\ q \in LegacyQueue
     /\ m = JobMessage(q)
     /\ work'[q].pc = "idle"
  \/ \E t \in TrxId :
       /\ <<t, m>> \in links
       /\ lpsMessages[m].type = "reversalRequest" => IsRefund(t)

\* What links and answers a step may add.
AddsOnlyOwn(q) ==
  /\ \A t \in TrxId, m \in MsgId :
       <<t, m>> \in links' => <<t, m>> \in links \/ MayLink(q, t, m)
  /\ \A m \in MsgId : Answered(m)' => Answered(m) \/ MayAnswer(q, m)

\* Only its own handler lays hands on a message first.
LEMMA UntouchedKept ==
  ASSUME NEW q \in WorkerQueue, AddsOnlyOwn(q),
         NEW m \in MsgId, Untouched(m),
         q \in LegacyQueue /\ m = JobMessage(q) => work'[q].pc \in BeforeLink
  PROVE  Untouched(m)'
<1>1. "idle" \notin BeforeLink
  BY DEF BeforeLink
<1> QED
  BY <1>1 DEF AddsOnlyOwn, Untouched, MayLink, MayAnswer, Answered

\* What legacy handlers have yet to do they have not done.
LEMMA LegacyKept ==
  ASSUME IInv, Remembered, NEW q \in WorkerQueue, Moves(q), AddsOnlyOwn(q),
         LinkedOriginalsKept, UNCHANGED <<lpsMessages, queue>>
  PROVE  LegacyJobsFresh'
<1>1. ASSUME NEW p \in LegacyQueue, NEW m \in MsgId, Waits(p, <<"lps", m>>)
      PROVE  Untouched(m)'
  <2>1. Untouched(m) /\ lpsMessages[m].type = TypeOf(p)
    BY <1>1, WaitingMessage DEF Remembered, LegacyJobsFresh
  <2>2. ServedOnce(p)
    BY DEF Remembered, JobsOnce, WorkerQueue
  <2>3. ~(q \in LegacyQueue /\ m = JobMessage(q))
    <3>1. SUFFICES ASSUME q \in LegacyQueue, m = JobMessage(q)
                   PROVE  FALSE
      OBVIOUS
    <3>2. work[q].pc # "idle"
      BY DEF Moves
    <3>3. p = q /\ work[q].job = <<"lps", m>>
      BY <2>1, <3>1, <3>2, BusyMessage, TypesDiffer
    <3> QED
      BY <1>1, <2>2, <3>2, <3>3 DEF ServedOnce
  <2> QED
    BY <2>1, <2>3, UntouchedKept
<1>2. ASSUME NEW p \in LegacyQueue, work'[p].pc \in BeforeLink
      PROVE  Untouched(JobMessage(p))'
  <2>1. work[p].pc \in BeforeLink /\ work'[p].job = work[p].job
    BY <1>2 DEF Moves, Only, NoReturn, WorkerQueue, BeforeLink
  <2>2. work[p].pc # "idle"
    BY <2>1 DEF BeforeLink
  <2>3. /\ JobMessage(p) \in MsgId
        /\ lpsMessages[JobMessage(p)].type = TypeOf(p)
    BY <2>2, BusyMessage
  <2>4. Untouched(JobMessage(p))
    BY <2>1 DEF Remembered, LegacyJobsFresh
  <2>5. q \in LegacyQueue /\ JobMessage(p) = JobMessage(q) => q = p
    BY <2>3, BusyMessage, TypesDiffer DEF Moves
  <2>6. \A m \in MsgId : m = JobMessage(p) => Untouched(m)'
    <3>1. SUFFICES ASSUME NEW m \in MsgId, m = JobMessage(p)
                   PROVE  Untouched(m)'
      OBVIOUS
    <3>2. Untouched(m)
      BY <2>4, <3>1
    <3> QED
      BY <1>2, <2>5, <3>1, <3>2, UntouchedKept
  <2>7. JobMessage(p)' = JobMessage(p)
    BY <2>1 DEF JobMessage
  <2> QED
    BY <2>3, <2>6, <2>7 DEF Untouched, Answered
<1>3. ASSUME work'[LR].pc \in BeforeRefund
      PROVE  Unrefunded(JobMessage(LR))'
  <2>1. LR \in LegacyQueue /\ LR \in WorkerQueue /\ LA # LR /\ LF # LR
    BY DEF LegacyQueue, WorkerQueue, LR, LA, LF
  <2>2. work[LR].pc \in BeforeRefund /\ work'[LR].job = work[LR].job
    BY <1>3, <2>1 DEF Moves, Only, NoReturn, BeforeRefund, BeforeLink
  <2>3. work[LR].pc # "idle" /\ work'[LR].pc # "idle"
    BY <1>3, <2>2 DEF BeforeRefund, BeforeLink
  <2>4. PICK m \in MsgId : m = JobMessage(LR)
    BY <2>1, <2>3, BusyMessage
  <2>5. lpsMessages[m].type = "reversalRequest" /\ Unrefunded(m)
    BY <2>1, <2>2, <2>3, <2>4, BusyMessage
    DEF TypeOf, Remembered, LegacyJobsFresh
  <2>6. ASSUME q \in LegacyQueue, m = JobMessage(q)
        PROVE  q = LR
    <3>1. work[q].pc # "idle"
      BY DEF Moves
    <3>2. lpsMessages[m].type = TypeOf(q) /\ lpsMessages[m].type = TypeOf(LR)
      BY <2>1, <2>3, <2>4, <2>6, <3>1, BusyMessage
    <3> QED
      BY <2>1, <2>6, <3>2, TypesDiffer
  <2>7. JobMessage(LR)' = m
    BY <2>2, <2>4 DEF JobMessage
  <2>8. ASSUME NEW t \in TrxId, <<t, m>> \in links'
        PROVE  transactions'[t].original = 0
    <3>1. CASE <<t, m>> \in links
      BY <2>4, <2>5, <3>1 DEF Unrefunded, IsRefund, LinkedOriginalsKept
    <3>2. CASE MayLink(q, t, m)
      BY <1>3, <2>6, <3>2 DEF MayLink
    <3> QED
      BY <2>4, <2>8, <3>1, <3>2 DEF AddsOnlyOwn
  <2>9. ~Answered(m)'
    BY <2>3, <2>4, <2>5, <2>6 DEF AddsOnlyOwn, MayAnswer, Unrefunded
  <2> QED
    BY <2>7, <2>8, <2>9 DEF Unrefunded, IsRefund, Answered
<1>4. \A p \in LegacyQueue, m \in MsgId :
        Waits(p, <<"lps", m>>)' => Waits(p, <<"lps", m>>)
  BY DEF Waits
<1> QED
  BY <1>1, <1>2, <1>3, <1>4 DEF LegacyJobsFresh

\* Links that stay keep their transactions apart.
LEMMA LinkedSame ==
  ASSUME Remembered, LinkedOriginalsKept, UNCHANGED <<lpsMessages, links>>
  PROVE  LinkedOnce'
BY DEF Remembered, LinkedOnce, LinkedOriginalsKept, IsRefund

\* And so does a new one to a message that has none, or none to a refund.
LEMMA LinkedNew ==
  ASSUME Remembered, LinkedOriginalsKept, UNCHANGED lpsMessages,
         NEW t \in TrxId, NEW m \in MsgId, links' = links \cup {<<t, m>>},
         \A u \in TrxId : <<u, m>> \in links =>
           lpsMessages[m].type = "reversalRequest" /\ ~IsRefund(u)
  PROVE  LinkedOnce'
<1>1. SUFFICES ASSUME NEW k \in MsgId, NEW u \in TrxId, NEW v \in TrxId,
                      <<u, k>> \in links', <<v, k>> \in links',
                      lpsMessages[k].type = "reversalRequest" =>
                        IsRefund(u)' /\ IsRefund(v)'
               PROVE  u = v
  BY DEF LinkedOnce
<1>2. CASE k = m
  <2>1. ASSUME NEW w \in TrxId, <<w, m>> \in links
        PROVE  lpsMessages[m].type = "reversalRequest" /\ ~IsRefund(w)'
    BY <2>1 DEF LinkedOriginalsKept, IsRefund
  <2> QED
    BY <1>1, <1>2, <2>1
<1>3. CASE k # m
  BY <1>1, <1>3 DEF Remembered, LinkedOnce, LinkedOriginalsKept, IsRefund
<1> QED
  BY <1>2, <1>3

-----------------------------------------------------------------------------
(* Causes and verdicts, for a transaction nothing new is said about. *)

NothingNew(t) ==
  /\ <<"putQuotes", t>> \in sent' => <<"putQuotes", t>> \in sent
  /\ Fulfilled(t)' => Fulfilled(t)
  /\ Refused(t)' => Refused(t)
  /\ \A m \in MsgId, r \in {"approved", "invalid"} :
       <<t, m>> \in links' /\ <<m, r>> \in responses' =>
         \/ <<t, m>> \in links /\ <<m, r>> \in responses
         \/ lpsMessages[m].type = "reversalRequest" /\ r = "approved"
  /\ \A m \in MsgId :
       <<t, m>> \in links => transactions'[t].original = transactions[t].original

\* What is open was so before.
Shrinks ==
  /\ \A h : Open(QR, h, Undecided)' => Open(QR, h, Undecided)
  /\ \A h : Open(AR, h, Undecided)' => Open(AR, h, Undecided)
  /\ \A h : Open(TR, h, Undecided)' => Open(TR, h, Undecided)
  /\ \A h : Open(TR, h, BeforeFulfil)' => Open(TR, h, BeforeFulfil)

Verdicts(t) ==
  QuoteOpen(t) /\ AuthorizationOpen(t) /\ TransferOpen(t) /\ RefusalFinal(t)

\* Its causes stay what they are.
LEMMA CausesSame ==
  ASSUME NEW t \in TrxId, CausesOf(t), NothingNew(t), DeliveredStay,
         UNCHANGED lpsMessages
  PROVE  CausesOf(t)'
<1>1. \A h \in HubMessage : HasDelivered(h) => HasDelivered(h)'
  BY DEF DeliveredStay, HasDelivered
<1>2. /\ <<"quoteRequest", t>> \in HubMessage
      /\ <<"authorization", t>> \in HubMessage
      /\ <<"transferRequest", t>> \in HubMessage
  BY DEF HubMessage, AboutTransaction
<1>3. /\ <<"putQuotes", t>> \in sent' => HasDelivered(<<"quoteRequest", t>>)'
      /\ Fulfilled(t)' \/ Refused(t)' => HasDelivered(<<"transferRequest", t>>)'
  BY <1>1, <1>2 DEF CausesOf, NothingNew
<1>4. ASSUME NEW m \in Linked(t, "authorizationRequest")',
             <<m, "approved">> \in responses'
      PROVE  HasDelivered(<<"authorization", t>>)'
  BY <1>1, <1>2, <1>4 DEF CausesOf, NothingNew, Linked
<1>5. ASSUME NEW m \in Linked(t, "financialRequest")',
             <<m, "invalid">> \in responses'
      PROVE  HasDelivered(<<"transferRequest", t>>)'
  BY <1>1, <1>2, <1>5 DEF CausesOf, NothingNew, Linked
<1> QED
  BY <1>3, <1>4, <1>5 DEF CausesOf

\* Errors that have been reported have been.
LEMMA ErrorStays ==
  ASSUME NEW t \in TrxId, DeliveredStay, ErrorTold(t)
  PROVE  ErrorTold(t)'
<1>1. \A h \in HubMessage : HasDelivered(h) => HasDelivered(h)'
  BY DEF DeliveredStay, HasDelivered
<1>2. /\ <<"quoteError", t>> \in HubMessage
      /\ \A n \in 1..MaxDeliver : <<"transferError", <<t, n>>>> \in HubMessage
  BY DEF HubMessage, AboutTransaction, AboutTransfer, TransferId
<1> QED
  BY <1>1, <1>2 DEF ErrorTold

\* And so do the verdicts.
LEMMA VerdictsSame ==
  ASSUME NEW t \in TrxId, Verdicts(t), NothingNew(t), Shrinks, DeliveredStay,
         UNCHANGED lpsMessages
  PROVE  Verdicts(t)'
<1>1. \A type \in {"authorizationRequest", "financialRequest"} :
        Unanswered(t, type) => Unanswered(t, type)'
  BY DEF NothingNew, Unanswered, Linked, Answered
<1>2. QuoteOpen(t)' /\ AuthorizationOpen(t)' /\ TransferOpen(t)'
  BY <1>1 DEF Verdicts, QuoteOpen, AuthorizationOpen, TransferOpen, NothingNew,
     Shrinks
<1>3. /\ HasDelivered(<<"quoteRequest", t>>) => HasDelivered(<<"quoteRequest", t>>)'
      /\ HasDelivered(<<"authorization", t>>) => HasDelivered(<<"authorization", t>>)'
  BY DEF DeliveredStay, HasDelivered, HubMessage, AboutTransaction
<1>4. ASSUME NEW m \in Linked(t, "authorizationRequest")',
             <<m, "invalid">> \in responses'
      PROVE  /\ HasDelivered(<<"quoteRequest", t>>)'
             /\ <<"putQuotes", t>> \in sent' => HasDelivered(<<"authorization", t>>)'
  BY <1>3, <1>4 DEF Verdicts, RefusalFinal, NothingNew, Linked
<1>5. ASSUME NEW m \in Linked(t, "financialRequest")',
             <<m, "invalid">> \in responses'
      PROVE  ~Fulfilled(t)' \/ ErrorTold(t)'
  BY <1>5, ErrorStays DEF Verdicts, RefusalFinal, NothingNew, Linked
<1>6. ASSUME NEW m \in Linked(t, "reversalRequest")',
             <<m, "invalid">> \in responses'
      PROVE  ~IsRefund(t)' \/ ErrorTold(t)'
  BY <1>6, ErrorStays DEF Verdicts, RefusalFinal, NothingNew, Linked, IsRefund
<1>7. ~(Fulfilled(t)' /\ Refused(t)')
  BY DEF Verdicts, RefusalFinal, NothingNew
<1>8. RefusalFinal(t)'
  BY <1>4, <1>5, <1>6, <1>7 DEF RefusalFinal
<1> QED
  BY <1>2, <1>8 DEF Verdicts

\* A worker that moves opens nothing.
LEMMA MovesShrink ==
  ASSUME NEW q \in WorkerQueue, Moves(q), UNCHANGED queue
  PROVE  Shrinks
<1>1. /\ QR \in WorkerQueue /\ AR \in WorkerQueue /\ TR \in WorkerQueue
      /\ "idle" \notin Undecided /\ "idle" \notin BeforeFulfil
  BY QueueNames DEF Undecided, BeforeFulfil
<1>2. ASSUME NEW p \in {QR, AR, TR}, work'[p].pc \in Undecided
      PROVE  work[p].pc \in Undecided /\ work'[p].job = work[p].job
  BY <1>1, <1>2 DEF Moves, Only, NoReturn
<1>3. ASSUME work'[TR].pc \in BeforeFulfil
      PROVE  work[TR].pc \in BeforeFulfil /\ work'[TR].job = work[TR].job
  BY <1>1, <1>3 DEF Moves, Only, NoReturn
<1> QED
  BY <1>2, <1>3 DEF Shrinks, Open, Waits

-----------------------------------------------------------------------------
(* What is left to prove of a step of a worker. *)

\* Each transaction a step says something new about needs its own proof.
LEMMA StepRemembered ==
  ASSUME IInv, Remembered, NEW q \in WorkerQueue, Moves(q), AddsOnlyOwn(q),
         LinkedOriginalsKept, DeliveredStay, UNCHANGED <<lpsMessages, queue>>,
         Undisturbed' => Undisturbed,
         LinkedOnce', OneVerdict',
         \A t \in TrxId :
           NothingNew(t) \/ (CausesOf(t)' /\ (Undisturbed' => Verdicts(t)'))
  PROVE  Remembered'
<1>1. Shrinks
  BY MovesShrink
<1>2. CausesKnown'
  <2>1. ASSUME NEW t \in TrxId, NothingNew(t)
        PROVE  CausesOf(t)'
    BY <2>1, CausesSame DEF Remembered, CausesKnown
  <2> QED
    BY <2>1 DEF CausesKnown
<1>3. VerdictsKnown'
  <2>1. ASSUME NEW t \in TrxId, NothingNew(t), Undisturbed'
        PROVE  Verdicts(t)'
    <3>1. Verdicts(t)
      BY <2>1 DEF Remembered, VerdictsKnown, Verdicts
    <3> QED
      BY <1>1, <2>1, <3>1, VerdictsSame
  <2> QED
    BY <2>1 DEF VerdictsKnown, Verdicts
<1> QED
  BY <1>2, <1>3, JobsKept, LegacyKept, OwnKept DEF Remembered

\* The calls that are remembered.
Telling == {"putQuotes", "putTransfers", "putTransfersError"}
QuietCalls == \A c \in sent' : c \in sent \/ c[1] \notin Telling

\* Without one of them, calls say nothing new.
LEMMA QuietCallsSame ==
  ASSUME QuietCalls, NEW t \in TrxId
  PROVE  /\ <<"putQuotes", t>> \in sent' => <<"putQuotes", t>> \in sent
         /\ Fulfilled(t)' => Fulfilled(t)
         /\ Refused(t)' => Refused(t)
BY DEF QuietCalls, Telling, Fulfilled, Refused

\* A step that links nothing and answers nothing.
LEMMA QuietRemembered ==
  ASSUME IInv, Remembered, NEW q \in WorkerQueue, Moves(q), QuietCalls,
         LinkedOriginalsKept, UNCHANGED <<environment, links, responses>>
  PROVE  Remembered'
<1>1. UNCHANGED <<lpsMessages, queue, delivered, budget, links, responses>>
  BY DEF environment
<1>2. (Undisturbed' => Undisturbed) /\ DeliveredStay
  BY <1>1 DEF Undisturbed, DeliveredStay, HasDelivered
<1>3. AddsOnlyOwn(q)
  BY <1>1 DEF AddsOnlyOwn, Answered
<1>4. LinkedOnce'
  BY <1>1, LinkedSame
<1>5. OneVerdict'
  BY <1>1, <1>2 DEF Remembered, OneVerdict
<1>6. ASSUME NEW t \in TrxId
      PROVE  NothingNew(t)
  BY <1>1, QuietCallsSame DEF NothingNew, LinkedOriginalsKept
<1> QED
  BY <1>1, <1>2, <1>3, <1>4, <1>5, <1>6, StepRemembered

\* A step that links a message nothing has been said about.
LEMMA LinkRemembered ==
  ASSUME IInv, Remembered, NEW q \in WorkerQueue, Moves(q),
         NEW t \in TrxId, NEW m \in MsgId, links' = links \cup {<<t, m>>},
         MayLink(q, t, m), ~Answered(m),
         \A u \in TrxId : <<u, m>> \in links =>
           lpsMessages[m].type = "reversalRequest" /\ ~IsRefund(u),
         UNCHANGED <<environment, transactions, outputs>>
  PROVE  Remembered'
<1>1. UNCHANGED <<lpsMessages, queue, delivered, budget, transactions, sent,
                  responses>>
  BY DEF environment, outputs
<1>2. (Undisturbed' => Undisturbed) /\ DeliveredStay /\ LinkedOriginalsKept
  BY <1>1 DEF Undisturbed, DeliveredStay, HasDelivered, LinkedOriginalsKept
<1>3. AddsOnlyOwn(q)
  BY <1>1 DEF AddsOnlyOwn, Answered
<1>4. LinkedOnce'
  BY <1>1, <1>2, LinkedNew
<1>5. OneVerdict'
  BY <1>1, <1>2 DEF Remembered, OneVerdict
<1>6. ASSUME NEW u \in TrxId
      PROVE  NothingNew(u)
  BY <1>1, <1>2 DEF NothingNew, LinkedOriginalsKept, Answered, Fulfilled, Refused
<1> QED
  BY <1>1, <1>2, <1>3, <1>4, <1>5, <1>6, StepRemembered

\* A step that makes a call that is remembered, about t.
LEMMA CallRemembered ==
  ASSUME IInv, Remembered, NEW q \in WorkerQueue, Moves(q),
         NEW t \in TrxId, NEW c, sent' = sent \cup {c},
         \A u \in TrxId : u # t =>
           /\ c # <<"putQuotes", u>>
           /\ \A n \in 1..MaxDeliver : /\ c # <<"putTransfers", <<u, n>>>>
                                       /\ c # <<"putTransfersError", <<u, n>>>>,
         CausesOf(t)', Undisturbed => Verdicts(t)',
         UNCHANGED <<environment, transactions, links, responses>>
  PROVE  Remembered'
<1>1. UNCHANGED <<lpsMessages, queue, delivered, budget, links, responses>>
  BY DEF environment
<1>2. /\ Undisturbed' => Undisturbed
      /\ DeliveredStay /\ LinkedOriginalsKept
  BY <1>1 DEF Undisturbed, DeliveredStay, HasDelivered, LinkedOriginalsKept
<1>3. AddsOnlyOwn(q)
  BY <1>1 DEF AddsOnlyOwn, Answered
<1>4. LinkedOnce'
  BY <1>1, <1>2, LinkedSame
<1>5. OneVerdict'
  BY <1>1, <1>2 DEF Remembered, OneVerdict
<1>6. ASSUME NEW u \in TrxId, u # t
      PROVE  NothingNew(u)
  BY <1>1, <1>2, <1>6 DEF NothingNew, LinkedOriginalsKept, Fulfilled, Refused
<1> QED
  BY <1>1, <1>2, <1>3, <1>4, <1>5, <1>6, StepRemembered

\* A step that answers message m.
LEMMA AnswerRemembered ==
  ASSUME IInv, Remembered, NEW q \in WorkerQueue, Moves(q),
         NEW m \in MsgId, NEW r \in {"approved", "invalid"}, Respond(m, r),
         MayAnswer(q, m),
         Undisturbed => \A v \in {"approved", "invalid"} \ {r} :
                          <<m, v>> \notin responses,
         \A t \in TrxId : <<t, m>> \in links =>
           \/ lpsMessages[m].type = "reversalRequest" /\ r = "approved"
           \/ CausesOf(t)' /\ (Undisturbed => Verdicts(t)'),
         UNCHANGED <<environment, transactions, links, sent>>
  PROVE  Remembered'
<1>1. /\ UNCHANGED <<lpsMessages, queue, delivered, budget, links, sent>>
      /\ responses' = responses \cup {<<m, r>>}
  BY DEF environment, Respond
<1>2. /\ Undisturbed' => Undisturbed
      /\ DeliveredStay /\ LinkedOriginalsKept
  BY <1>1 DEF Undisturbed, DeliveredStay, HasDelivered, LinkedOriginalsKept
<1>3. AddsOnlyOwn(q)
  BY <1>1 DEF AddsOnlyOwn, Answered
<1>4. LinkedOnce'
  BY <1>1, <1>2, LinkedSame
<1>5. OneVerdict'
  <2>1. SUFFICES ASSUME Undisturbed, NEW k \in MsgId
                 PROVE  ~(<<k, "approved">> \in responses'
                            /\ <<k, "invalid">> \in responses')
    BY <1>2 DEF OneVerdict
  <2>2. ~(<<k, "approved">> \in responses /\ <<k, "invalid">> \in responses)
    BY <2>1 DEF Remembered, OneVerdict
  <2> QED
    BY <1>1, <2>1, <2>2
<1>6. ASSUME NEW t \in TrxId,
             <<t, m>> \in links =>
               lpsMessages[m].type = "reversalRequest" /\ r = "approved"
      PROVE  NothingNew(t)
  BY <1>1, <1>2, <1>6 DEF NothingNew, LinkedOriginalsKept, Fulfilled, Refused
<1> QED
  BY <1>1, <1>2, <1>3, <1>4, <1>5, <1>6, StepRemembered

-----------------------------------------------------------------------------
(* Jobs of the hub. *)

KindFor(q) ==
  CASE q = QR -> "quoteRequest" [] q = AR -> "authorization"
    [] q = TR -> "transferRequest"

\* The job of a busy worker, which the hub has sent.
LEMMA HubJobIs ==
  ASSUME IInv, NEW q \in {QR, AR, TR}, work[q].pc # "idle"
  PROVE  /\ work[q].job[2] \in TrxId
         /\ work[q].job = <<KindFor(q), work[q].job[2]>>
         /\ HasDelivered(work[q].job)
         /\ PromptedBy(work[q].job) \cap sent # {}
<1>1. q \in WorkerQueue /\ q \notin LegacyQueue
  BY QueueNames DEF LegacyQueue, QR, AR, TR
<1>2. PICK h \in HubMessage : h = work[q].job
  BY <1>1, HubJobOf
<1>3. QueueOf(h) = q /\ PromptedBy(h) \cap sent # {}
  BY <1>1, <1>2, HubJobOf
<1>4. HasDelivered(h)
  BY <1>1, <1>2 DEF IInv, WorkersOK, WorkerOK, Justified
<1>5. h[1] = KindFor(q) /\ h[2] \in TrxId
  BY <1>3, KindOf DEF KindFor, QR, AR, TR, AboutTransaction
<1>6. h = <<h[1], h[2]>>
  BY DEF HubMessage
<1> QED
  BY <1>2, <1>3, <1>4, <1>5, <1>6

\* What is open the hub has sent.
LEMMA OpenDelivered ==
  ASSUME IInv, NEW q \in {QR, AR, TR}, NEW h, NEW steps, "idle" \notin steps,
         Open(q, h, steps)
  PROVE  h \in HubMessage /\ HasDelivered(h)
<1>1. q \in WorkerQueue /\ q \in Queue /\ q \notin LegacyQueue
  BY QueueNames DEF LegacyQueue, QR, AR, TR, Queue
<1>2. CASE Waits(q, h)
  <2>1. PICK i \in 1..Len(queue[q]) : queue[q][i] = h
    BY <1>2 DEF Waits
  <2>2. Justified(q, queue[q][i])
    BY <1>1 DEF IInv, QueuesOK
  <2> QED
    BY <1>1, <2>1, <2>2 DEF Justified
<1>3. CASE work[q].pc \in steps /\ work[q].job = h
  BY <1>1, <1>3 DEF IInv, WorkersOK, WorkerOK, Justified
<1> QED
  BY <1>2, <1>3 DEF Open

\* A job that is decided or done is not open any more.
LEMMA JobClosed ==
  ASSUME IInv, Remembered, NEW q \in {QR, AR, TR}, Moves(q), UNCHANGED queue,
         Undisturbed, NEW steps, work'[q].pc \notin steps
  PROVE  \A h : h = work[q].job => ~Open(q, h, steps)'
<1>1. work[q].pc # "idle" /\ ServedOnce(q)
  BY QueueNames DEF Moves, Remembered, JobsOnce
<1>2. ~Waits(q, work[q].job)
  BY <1>1 DEF ServedOnce
<1> QED
  BY <1>2 DEF Open, Waits

-----------------------------------------------------------------------------
(* What no step does to a transaction. *)

\* Writing the state of a transaction leaves its terminal alone.
LEMMA SetStateOwners ==
  ASSUME IInv, NEW t, NEW state, SetState(t, state)
  PROVE  OwnersKept
<1>1. transactions \in [TrxId -> Transaction]
  BY DEF IInv, TypeOK
<1>2. transactions' = [transactions EXCEPT ![t].state = state]
  BY DEF SetState
<1> QED
  BY <1>1, <1>2 DEF OwnersKept, Transaction

\* Only a new transaction gets a terminal or something to refund.
LEMMA OwnersStep ==
  ASSUME IInv, Next
  PROVE  OwnersKept \/ LAInsertTransaction \/ LRInsertRefund
<1>1. CASE UNCHANGED transactions
  BY <1>1 DEF OwnersKept
<1>2. CASE LACancelIncomplete
  <2>1. transactions \in [TrxId -> Transaction]
    BY DEF IInv, TypeOK
  <2>2. PICK stale \in {Incomplete(lpsMessages[JobMessage(LA)].lpsKey)} :
          transactions' =
            [t \in TrxId |->
               IF t \in stale
                 THEN [transactions[t] EXCEPT !.state = "transactionCancelled"]
                 ELSE transactions[t]]
    BY <1>2 DEF LACancelIncomplete
  <2> QED
    BY <2>1, <2>2 DEF OwnersKept, Transaction
<1>3. CASE PRUpdateParty \/ TRRRespond
  <2>1. transactions \in [TrxId -> Transaction]
    BY DEF IInv, TypeOK
  <2>2. ASSUME NEW t, transactions' = [transactions EXCEPT ![t].fspId = TRUE]
        PROVE  OwnersKept
    BY <2>1, <2>2 DEF OwnersKept, Transaction
  <2>3. ASSUME NEW t, NEW state,
               transactions' = [transactions EXCEPT ![t].transactionId = TRUE,
                                                    ![t].state = state]
        PROVE  OwnersKept
    BY <2>1, <2>3 DEF OwnersKept, Transaction
  <2> QED
    BY <1>3, <2>2, <2>3 DEF PRUpdateParty, TRRRespond
<1>4. CASE TRRReject \/ QRUpdateState \/ ARUpdateState \/ LFUpdateState
  BY <1>4, SetStateOwners DEF TRRReject, QRUpdateState, ARUpdateState, LFUpdateState
<1>5. CASE TRUpdateState \/ TXUpdateState \/ LRCancel
  BY <1>5, SetStateOwners DEF TRUpdateState, TXUpdateState, LRCancel
<1>6. CASE \E t \in TrxId : ExpireTransaction(t)
  <2>1. transactions \in [TrxId -> Transaction]
    BY DEF IInv, TypeOK
  <2>2. PICK t \in TrxId :
          transactions' =
            [u \in TrxId |->
               IF u = t \/ transactions[u].original = t
                 THEN [transactions[u] EXCEPT !.expired = TRUE]
                 ELSE transactions[u]]
    BY <1>6 DEF ExpireTransaction
  <2> QED
    BY <2>1, <2>2 DEF OwnersKept, Transaction
<1>7. CASE LegacyAuthorizationRequestHandler \/ PartiesResponseHandler
  BY <1>1, <1>2, <1>3, <1>7
  DEF LegacyAuthorizationRequestHandler, LARelate, LAGetParties, LAThrow,
      PartiesResponseHandler, PRFind, PRPostTransactionRequests, PRThrow, Throw,
      tables
<1>8. CASE TransactionRequestResponseHandler \/ QuotesRequestHandler
  BY <1>1, <1>3, <1>4, <1>8
  DEF TransactionRequestResponseHandler, TRRRead, TRRThrow,
      QuotesRequestHandler, QRValidate, QRInsertQuote, QRPutQuotes,
      QRPutQuotesError, QRRefuse, QRThrow, Throw, tables
<1>9. CASE AuthorizationRequestHandler \/ LegacyFinancialRequestHandler
  BY <1>1, <1>4, <1>9
  DEF AuthorizationRequestHandler, ARValidate, ARApprove,
      ARPutAuthorizationsError, ARRefuse, ARThrow,
      LegacyFinancialRequestHandler, LFFind, LFRelate, LFPutAuthorizations,
      LFThrow, Throw, tables
<1>10. CASE TransferRequestHandler \/ TransferResponseHandler
  BY <1>1, <1>5, <1>10
  DEF TransferRequestHandler, TRValidate, TRInsertTransfer, TRPutTransfers,
      TRUpdateTransfer, TRPutTransfersError, TRRefuse, TRThrow,
      TransferResponseHandler, TXRead, TXApprove, TXUpdateTransfer, TXThrow,
      Throw, tables
<1>11. CASE LegacyReversalHandler \/ QuoteResponseHandler
  BY <1>1, <1>5, <1>11
  DEF LegacyReversalHandler, LRCheckReplay, LRFind, LRRelate, LRExpireQuote,
      LRRelateRefund, LRInsertQuote, LRPostQuotes, LRThrow,
      QuoteResponseHandler, QXUpdateQuote, QXInsertTransfer, QXPostTransfers,
      QXThrow, Throw, tables
<1>12. CASE Handler
  BY <1>7, <1>8, <1>9, <1>10, <1>11, <1>12 DEF Handler
<1>13. CASE \/ \E q \in WorkerQueue : Take(q)
            \/ \E h \in HubMessage : Deliver(h)
            \/ Crash
  BY <1>1, <1>13 DEF Take, Deliver, Crash, tables
<1>14. CASE \/ \E d \in Device : Terminal(d)
            \/ \E t \in TrxId : ExpireQuote(t)
  BY <1>1, <1>14 DEF Terminal, SendAuthorizationRequest, SendFinancialRequest,
     SendReversalAdvice, Receive, ExpireQuote
<1> QED
  BY <1>6, <1>12, <1>13, <1>14 DEF Next

\* A linked transaction is not new.
LEMMA LinkedOriginalsStep ==
  ASSUME IInv, Next
  PROVE  LinkedOriginalsKept
<1>1. ASSUME NEW t \in NextTrx, NEW row,
             transactions' = [transactions EXCEPT ![t] = row]
      PROVE  LinkedOriginalsKept
  <2>1. \A u \in TrxId : Exists(u) => u # t
    BY DEF NextTrx
  <2>2. \A u \in TrxId, m \in MsgId : <<u, m>> \in links => Exists(u)
    BY DEF IInv, LinksOK
  <2>3. \A u \in TrxId : u # t => transactions'[u] = transactions[u]
    BY <1>1 DEF IInv, TypeOK
  <2> QED
    BY <2>1, <2>2, <2>3 DEF LinkedOriginalsKept
<1>2. CASE OwnersKept
  BY <1>2 DEF OwnersKept, LinkedOriginalsKept
<1> QED
  BY <1>1, <1>2, OwnersStep DEF LAInsertTransaction, LRInsertRefund

-----------------------------------------------------------------------------
(* Steps that Remembered does not tell from others. *)

\* Going from one step to another brings q back to nothing it has left.
Forward(q, from, to) ==
  /\ to \in Pc
  /\ from # "idle"
  /\ q \in LegacyQueue /\ to \in BeforeLink => from \in BeforeLink
  /\ q = LR /\ to \in BeforeRefund => from \in BeforeRefund
  /\ q \in {QR, AR, TR} /\ to \in Undecided => from \in Undecided
  /\ q = TR /\ to \in BeforeFulfil => from \in BeforeFulfil

\* So do all handlers go.
LEMMA AllForward ==
  /\ Forward(LA, "start", "insertTransaction")
  /\ Forward(LA, "insertTransaction", "relate")
  /\ Forward(LA, "relate", "getParties")
  /\ Forward(PR, "start", "updateParty")
  /\ Forward(PR, "updateParty", "postTransactionRequests")
  /\ Forward(TRR, "start", "respond") /\ Forward(TRR, "start", "reject")
  /\ Forward(QR, "start", "insertQuote") /\ Forward(QR, "start", "putQuotesError")
  /\ Forward(QR, "insertQuote", "putQuotes")
  /\ Forward(QR, "putQuotes", "updateState")
  /\ Forward(QR, "putQuotesError", "refuse")
  /\ Forward(AR, "start", "approve")
  /\ Forward(AR, "start", "putAuthorizationsError")
  /\ Forward(AR, "approve", "updateState")
  /\ Forward(AR, "putAuthorizationsError", "refuse")
  /\ Forward(LF, "start", "relate") /\ Forward(LF, "relate", "putAuthorizations")
  /\ Forward(LF, "putAuthorizations", "updateState")
  /\ Forward(TR, "start", "insertTransfer")
  /\ Forward(TR, "start", "putTransfersError")
  /\ Forward(TR, "insertTransfer", "putTransfers")
  /\ Forward(TR, "putTransfers", "updateState")
  /\ Forward(TR, "updateState", "updateTransfer")
  /\ Forward(TR, "putTransfersError", "refuse")
  /\ Forward(TX, "start", "approve") /\ Forward(TX, "approve", "updateState")
  /\ Forward(TX, "updateState", "updateTransfer")
  /\ Forward(LR, "start", "find") /\ Forward(LR, "find", "relate")
  /\ Forward(LR, "relate", "cancel") /\ Forward(LR, "cancel", "expireQuote")
  /\ Forward(LR, "cancel", "insertRefund")
  /\ Forward(LR, "expireQuote", "insertRefund")
  /\ Forward(LR, "insertRefund", "relateRefund")
  /\ Forward(LR, "relateRefund", "insertQuote")
  /\ Forward(LR, "insertQuote", "postQuotes")
  /\ Forward(QX, "start", "insertTransfer")
  /\ Forward(QX, "insertTransfer", "postTransfers")
<1>1. ASSUME NEW q, NEW from, NEW to, to \in Pc, from # "idle"
      PROVE  /\ to \notin BeforeLink \cup BeforeRefund \cup Undecided =>
                  Forward(q, from, to)
             /\ q \notin {QR, AR, TR} =>
                  /\ q \notin LegacyQueue => Forward(q, from, to)
                  /\ from \in BeforeLink => Forward(q, from, to)
                  /\ from \in BeforeRefund /\ to \notin BeforeLink
                       => Forward(q, from, to)
             /\ q \notin LegacyQueue /\ from \in Undecided =>
                  /\ from \in BeforeFulfil => Forward(q, from, to)
                  /\ to \notin BeforeFulfil => Forward(q, from, to)
  <2>1. /\ q = LR => q \in LegacyQueue
        /\ q = TR => q \in {QR, AR, TR}
        /\ from \in BeforeLink => from \in BeforeRefund
        /\ to \in BeforeFulfil => to \in Undecided
    BY QueueNames DEF BeforeRefund, BeforeFulfil, Undecided
  <2>2. to \notin BeforeLink \cup BeforeRefund \cup Undecided =>
          Forward(q, from, to)
    BY <1>1, <2>1 DEF Forward
  <2>3. ASSUME q \notin {QR, AR, TR}
        PROVE  /\ q \notin LegacyQueue => Forward(q, from, to)
               /\ from \in BeforeLink => Forward(q, from, to)
               /\ from \in BeforeRefund /\ to \notin BeforeLink
                    => Forward(q, from, to)
    BY <1>1, <2>1, <2>3 DEF Forward
  <2>4. ASSUME q \notin LegacyQueue, from \in Undecided
        PROVE  /\ from \in BeforeFulfil => Forward(q, from, to)
               /\ to \notin BeforeFulfil => Forward(q, from, to)
    BY <1>1, <2>1, <2>4 DEF Forward
  <2> QED
    BY <2>2, <2>3, <2>4
<1>2. /\ \A q \in {PR, TRR, TX, QX} : q \notin LegacyQueue /\ q \notin {QR, AR, TR}
      /\ \A q \in {LA, LF, LR} : q \notin {QR, AR, TR}
      /\ \A q \in {QR, AR, TR} : q \notin LegacyQueue
  BY DEF LegacyQueue, LA, PR, TRR, QR, AR, LF, TR, TX, LR, QX
<1>3. /\ Forward(LA, "start", "insertTransaction")
      /\ Forward(LA, "insertTransaction", "relate")
      /\ Forward(LA, "relate", "getParties")
  BY <1>1, <1>2 DEF BeforeLink, BeforeRefund, Undecided, BeforeFulfil, Pc,
     DatabaseStep, CallStep, TransactionCall, TransferCall
<1>4. /\ Forward(PR, "start", "updateParty")
      /\ Forward(PR, "updateParty", "postTransactionRequests")
  BY <1>1, <1>2 DEF BeforeLink, BeforeRefund, Undecided, BeforeFulfil, Pc,
     DatabaseStep, CallStep, TransactionCall, TransferCall
<1>5. /\ Forward(TRR, "start", "respond")
      /\ Forward(TRR, "start", "reject")
  BY <1>1, <1>2 DEF BeforeLink, BeforeRefund, Undecided, BeforeFulfil, Pc,
     DatabaseStep, CallStep, TransactionCall, TransferCall
<1>6. /\ Forward(QR, "start", "insertQuote")
      /\ Forward(QR, "start", "putQuotesError")
      /\ Forward(QR, "insertQuote", "putQuotes")
      /\ Forward(QR, "putQuotes", "updateState")
      /\ Forward(QR, "putQuotesError", "refuse")
  BY <1>1, <1>2 DEF BeforeLink, BeforeRefund, Undecided, BeforeFulfil, Pc,
     DatabaseStep, CallStep, TransactionCall, TransferCall
<1>7. /\ Forward(AR, "start", "approve")
      /\ Forward(AR, "start", "putAuthorizationsError")
      /\ Forward(AR, "approve", "updateState")
      /\ Forward(AR, "putAuthorizationsError", "refuse")
  BY <1>1, <1>2 DEF BeforeLink, BeforeRefund, Undecided, BeforeFulfil, Pc,
     DatabaseStep, CallStep, TransactionCall, TransferCall
<1>8. /\ Forward(LF, "start", "relate")
      /\ Forward(LF, "relate", "putAuthorizations")
      /\ Forward(LF, "putAuthorizations", "updateState")
  BY <1>1, <1>2 DEF BeforeLink, BeforeRefund, Undecided, BeforeFulfil, Pc,
     DatabaseStep, CallStep, TransactionCall, TransferCall
<1>9. /\ Forward(TR, "start", "insertTransfer")
      /\ Forward(TR, "start", "putTransfersError")
      /\ Forward(TR, "insertTransfer", "putTransfers")
      /\ Forward(TR, "putTransfers", "updateState")
      /\ Forward(TR, "updateState", "updateTransfer")
      /\ Forward(TR, "putTransfersError", "refuse")
  BY <1>1, <1>2 DEF BeforeLink, BeforeRefund, Undecided, BeforeFulfil, Pc,
     DatabaseStep, CallStep, TransactionCall, TransferCall
<1>10. /\ Forward(TX, "start", "approve")
      /\ Forward(TX, "approve", "updateState")
      /\ Forward(TX, "updateState", "updateTransfer")
  BY <1>1, <1>2 DEF BeforeLink, BeforeRefund, Undecided, BeforeFulfil, Pc,
     DatabaseStep, CallStep, TransactionCall, TransferCall
<1>11. /\ Forward(LR, "start", "find")
      /\ Forward(LR, "find", "relate")
      /\ Forward(LR, "relate", "cancel")
      /\ Forward(LR, "cancel", "expireQuote")
      /\ Forward(LR, "cancel", "insertRefund")
      /\ Forward(LR, "expireQuote", "insertRefund")
      /\ Forward(LR, "insertRefund", "relateRefund")
      /\ Forward(LR, "relateRefund", "insertQuote")
      /\ Forward(LR, "insertQuote", "postQuotes")
  BY <1>1, <1>2 DEF BeforeLink, BeforeRefund, Undecided, BeforeFulfil, Pc,
     DatabaseStep, CallStep, TransactionCall, TransferCall
<1>12. /\ Forward(QX, "start", "insertTransfer")
      /\ Forward(QX, "insertTransfer", "postTransfers")
  BY <1>1, <1>2 DEF BeforeLink, BeforeRefund, Undecided, BeforeFulfil, Pc,
     DatabaseStep, CallStep, TransactionCall, TransferCall
<1> QED
  BY <1>3, <1>4, <1>5, <1>6, <1>7, <1>8, <1>9, <1>10, <1>11, <1>12

\* The worker is done.
LEMMA QuietDone ==
  ASSUME IInv, Remembered, LinkedOriginalsKept, NEW q \in WorkerQueue,
         work[q].pc # "idle", Done(q), QuietCalls,
         UNCHANGED <<environment, links, responses>>
  PROVE  Remembered'
BY DoneMoves, QuietRemembered

\* It goes on.
LEMMA QuietGoto ==
  ASSUME IInv, Remembered, LinkedOriginalsKept, NEW q \in WorkerQueue, NEW to,
         Forward(q, work[q].pc, to), Goto(q, to),
         to \in Searching \/ work[q].pc \notin Searching, QuietCalls,
         UNCHANGED <<environment, links, responses>>
  PROVE  Remembered'
<1>1. Moves(q)
  BY GotoMoves DEF Forward
<1> QED
  BY <1>1, QuietRemembered

\* It has found or created its transaction.
LEMMA QuietBegin ==
  ASSUME IInv, Remembered, LinkedOriginalsKept, NEW q \in WorkerQueue, NEW to,
         NEW t \in TrxId, NEW n \in 0..MaxDeliver, NEW seen \in SUBSET Seen,
         Forward(q, work[q].pc, to), Begin(q, to, t, n, seen),
         q \in {QR, AR, TR} => work[q].pc = "start" /\ t = work[q].job[2],
         q = TR => n = 1, QuietCalls,
         UNCHANGED <<environment, links, responses>>
  PROVE  Remembered'
<1>1. Moves(q)
  BY BeginMoves DEF Forward
<1> QED
  BY <1>1, QuietRemembered

\* These calls are quiet.
LEMMA QuietCall ==
  ASSUME NEW q, NEW pc, Call(q, pc), pc \notin Telling
  PROVE  QuietCalls
BY DEF Call, At, Calling, QuietCalls

-----------------------------------------------------------------------------
(* Calls and answers have their causes. *)

HasCause(c) ==
  \A t \in TrxId :
    /\ c = <<"putQuotes", t>> => HasDelivered(<<"quoteRequest", t>>)
    /\ \A n \in 1..MaxDeliver :
         /\ c = <<"putTransfers", <<t, n>>>> =>
              HasDelivered(<<"transferRequest", t>>)
         /\ c = <<"putTransfersError", <<t, n>>>> =>
              HasDelivered(<<"transferRequest", t>>)

\* The workers that make the calls that are remembered.
LEMMA TellingWorker ==
  ASSUME IInv, NEW q \in WorkerQueue, work[q].pc \in Telling
  PROVE  q = IF work[q].pc = "putQuotes" THEN QR ELSE TR
BY DEF IInv, WorkersOK, WorkerOK, StepsOf, Telling, WorkerQueue, LegacyQueue,
   LA, PR, TRR, QR, AR, LF, TR, TX, LR, QX

\* A call a worker is about to make has a cause: the job of the worker.
LEMMA CallingHasCause ==
  ASSUME IInv, Remembered, NEW q \in WorkerQueue, work[q].pc \in CallStep
  PROVE  HasCause(Calling(q))
<1> DEFINE t == work[q].job[2]
<1>1. CASE work[q].pc = "putQuotes"
  <2>1. q = QR
    BY <1>1, TellingWorker DEF Telling
  <2>2. /\ work[q].trx = t /\ work[q].job = <<"quoteRequest", t>>
        /\ HasDelivered(work[q].job)
    <3>1. work[q].trx = t
      BY <1>1, <2>1 DEF Remembered, OwnTransaction, Searching
    <3>2. work[q].job = <<KindFor(q), t>> /\ HasDelivered(work[q].job)
      BY <1>1, <2>1, HubJobIs
    <3> QED
      BY <2>1, <3>1, <3>2 DEF KindFor, QR, AR, TR
  <2>3. Calling(q) = <<"putQuotes", t>>
    BY <1>1, <2>2 DEF Calling, TransferCall
  <2> HIDE DEF t
  <2> QED
    BY <2>2, <2>3 DEF HasCause
<1>2. CASE work[q].pc \in {"putTransfers", "putTransfersError"}
  <2>1. q = TR
    BY <1>2, TellingWorker DEF Telling
  <2>2. /\ work[q].trx = t /\ work[q].job = <<"transferRequest", t>>
        /\ HasDelivered(work[q].job)
    BY <1>2, <2>1, HubJobIs
    DEF Remembered, OwnTransaction, Searching, KindFor, QR, AR, TR
  <2>3. Calling(q) = <<work[q].pc, <<t, work[q].nth>>>>
    BY <1>2, <2>2 DEF Calling, TransferCall, WorkTransfer
  <2> HIDE DEF t
  <2> QED
    BY <1>2, <2>2, <2>3 DEF HasCause
<1>3. CASE work[q].pc \notin Telling
  BY <1>3 DEF HasCause, Calling, Telling
<1> QED
  BY <1>1, <1>2, <1>3 DEF Telling

\* Causes stay causes when what is new has its own.
LEMMA CausesGrow ==
  ASSUME NEW t \in TrxId, CausesOf(t), DeliveredStay, UNCHANGED lpsMessages,
         \A c \in sent' : c \in sent \/ HasCause(c),
         \A m \in Linked(t, "authorizationRequest")' :
           <<m, "approved">> \in responses' =>
             \/ <<t, m>> \in links /\ <<m, "approved">> \in responses
             \/ HasDelivered(<<"authorization", t>>),
         \A m \in Linked(t, "financialRequest")' :
           <<m, "invalid">> \in responses' =>
             \/ <<t, m>> \in links /\ <<m, "invalid">> \in responses
             \/ HasDelivered(<<"transferRequest", t>>)
  PROVE  CausesOf(t)'
<1>1. /\ HasDelivered(<<"quoteRequest", t>>) => HasDelivered(<<"quoteRequest", t>>)'
      /\ HasDelivered(<<"authorization", t>>) => HasDelivered(<<"authorization", t>>)'
      /\ HasDelivered(<<"transferRequest", t>>) =>
           HasDelivered(<<"transferRequest", t>>)'
  BY DEF DeliveredStay, HasDelivered, HubMessage, AboutTransaction
<1>2. <<"putQuotes", t>> \in sent' => HasDelivered(<<"quoteRequest", t>>)'
  BY <1>1 DEF CausesOf, HasCause
<1>3. Fulfilled(t)' => HasDelivered(<<"transferRequest", t>>)'
  BY <1>1 DEF CausesOf, HasCause, Fulfilled
<1>4. Refused(t)' => HasDelivered(<<"transferRequest", t>>)'
  BY <1>1 DEF CausesOf, HasCause, Refused
<1>5. ASSUME NEW m \in Linked(t, "authorizationRequest")',
             <<m, "approved">> \in responses'
      PROVE  HasDelivered(<<"authorization", t>>)'
  BY <1>1, <1>5 DEF CausesOf, Linked
<1>6. ASSUME NEW m \in Linked(t, "financialRequest")',
             <<m, "invalid">> \in responses'
      PROVE  HasDelivered(<<"transferRequest", t>>)'
  BY <1>1, <1>6 DEF CausesOf, Linked
<1> QED
  BY <1>2, <1>3, <1>4, <1>5, <1>6 DEF CausesOf

\* An await that throws disturbs: what is left are the causes.
LEMMA ThrowRemembered ==
  ASSUME IInv, Remembered, LinkedOriginalsKept, NEW q \in WorkerQueue,
         NEW calls, NEW answers, Throw(q, calls, answers),
         \A c \in calls : HasCause(c),
         \A a \in answers :
           q \in {LA, LR} /\ a = <<JobMessage(q), "invalid">>
  PROVE  Remembered'
<1>1. /\ UNCHANGED <<lpsMessages, links, queue, delivered>>
      /\ responses' = responses \cup answers
      /\ work[q].pc # "idle" /\ Done(q)
  BY DEF Throw, tables, At
<1>2. Moves(q) /\ work'[q].pc = "idle"
  BY <1>1, DoneMoves
<1>3. ~Undisturbed'
  <2>1. /\ budget \in Budget /\ budget.faults > 0
        /\ budget' = [budget EXCEPT !.faults = @ - 1]
    BY DEF Throw, IInv, TypeOK
  <2>2. budget'.faults = budget.faults - 1 /\ budget.faults \in 0..MaxFaults
    BY <2>1 DEF Budget
  <2> QED
    BY <2>1, <2>2, BoundsAssumption DEF Undisturbed
<1>4. \A a \in answers : /\ q \in LegacyQueue
                         /\ lpsMessages[JobMessage(q)].type
                              \in {"authorizationRequest", "reversalRequest"}
  BY <1>1, QueueNames, MessageOf
<1>5. AddsOnlyOwn(q)
  BY <1>1, <1>2, <1>4 DEF AddsOnlyOwn, MayAnswer, Answered
<1>6. DeliveredStay
  BY <1>1 DEF DeliveredStay, HasDelivered
<1>7. \A c \in sent' : c \in sent \/ HasCause(c)
  <2>1. PICK arrived \in SUBSET IF work[q].pc \in CallStep THEN {Calling(q)}
                                                           ELSE {} :
          sent' = sent \cup arrived \cup calls
    BY DEF Throw
  <2> QED
    BY <2>1, CallingHasCause
<1>8. CausesKnown'
  <2>1. SUFFICES ASSUME NEW t \in TrxId
                 PROVE  CausesOf(t)'
    BY DEF CausesKnown
  <2>2. CausesOf(t)
    BY DEF Remembered, CausesKnown
  <2>3. ASSUME NEW m \in MsgId, NEW r \in {"approved", "invalid"},
               <<m, r>> \in responses', <<m, r>> \notin responses
        PROVE  /\ r = "invalid"
               /\ lpsMessages[m].type
                    \in {"authorizationRequest", "reversalRequest"}
    BY <1>1, <1>4, <2>3
  <2>4. \A m \in Linked(t, "authorizationRequest")' :
          <<m, "approved">> \in responses' =>
            <<t, m>> \in links /\ <<m, "approved">> \in responses
    BY <1>1, <2>3 DEF Linked
  <2>5. \A m \in Linked(t, "financialRequest")' :
          <<m, "invalid">> \in responses' =>
            <<t, m>> \in links /\ <<m, "invalid">> \in responses
    BY <1>1, <2>3 DEF Linked
  <2> QED
    BY <1>1, <1>6, <1>7, <2>2, <2>4, <2>5, CausesGrow
<1>9. JobsOnce' /\ LegacyJobsFresh' /\ OwnTransaction' /\ LinkedOnce'
  BY <1>1, <1>2, <1>3, <1>5, JobsKept, LegacyKept, OwnKept, LinkedSame
<1>10. VerdictsKnown' /\ OneVerdict'
  BY <1>3 DEF VerdictsKnown, OneVerdict
<1> QED
  BY <1>8, <1>9, <1>10 DEF Remembered

\* Most handlers throw without telling anyone.
LEMMA QuietThrow ==
  ASSUME IInv, Remembered, LinkedOriginalsKept, NEW q \in WorkerQueue,
         Throw(q, {}, {})
  PROVE  Remembered'
BY ThrowRemembered

\* A legacy handler links its message, which is untouched.
LEMMA RelateRemembered ==
  ASSUME IInv, Remembered, NEW q \in LegacyQueue, NEW to, work[q].pc = "relate",
         Relate(work[q].trx, JobMessage(q)), Goto(q, to),
         Forward(q, "relate", to), to \notin BeforeLink \cup Searching,
         q = LR => ~IsRefund(work[q].trx),
         UNCHANGED <<environment, transactions, outputs>>
  PROVE  Remembered'
<1> DEFINE m == JobMessage(q)
           t == work[q].trx
<1>1. q \in WorkerQueue /\ "relate" \notin Searching /\ "relate" # "idle"
  BY DEF WorkerQueue, Searching
<1>2. Moves(q) /\ work'[q].pc = to
  BY <1>1, GotoMoves DEF Forward
<1>3. m \in MsgId /\ t \in TrxId
  BY <1>1, MessageOf, TrxOf
<1>4. Untouched(m)
  BY DEF Remembered, LegacyJobsFresh, BeforeLink
<1>5. MayLink(q, t, m)
  BY <1>2 DEF MayLink, IsRefund
<1>6. links' = links \cup {<<t, m>>}
  BY DEF Relate
<1> HIDE DEF m, t
<1>7. \A u \in TrxId : <<u, m>> \in links =>
        lpsMessages[m].type = "reversalRequest" /\ ~IsRefund(u)
  BY <1>4 DEF Untouched
<1>8. ~Answered(m)
  BY <1>4 DEF Untouched
<1> QED
  BY <1>1, <1>2, <1>3, <1>5, <1>6, <1>7, <1>8, LinkRemembered

-----------------------------------------------------------------------------
(* The handlers of AuthorizationFlow. *)

\* legacyAuthorizationRequestHandler
LEMMA LegacyAuthorizationRequestHandlerRemembered ==
  ASSUME IInv, Remembered, LinkedOriginalsKept, LegacyAuthorizationRequestHandler
  PROVE  Remembered'
<1> LA \in WorkerQueue /\ LA \in LegacyQueue /\ LA \notin {QR, AR, TR, LR}
  BY QueueNames DEF LA, QR, AR, TR, LR
<1>1. CASE LACancelIncomplete
  <2>1. /\ work[LA].pc = "start" /\ Goto(LA, "insertTransaction")
        /\ UNCHANGED <<environment, links, sent, responses>>
    BY <1>1 DEF LACancelIncomplete, At, outputs
  <2>2. "insertTransaction" \in Searching /\ QuietCalls
    BY <2>1 DEF Searching, QuietCalls
  <2> QED
    BY <2>1, <2>2, AllForward, QuietGoto
<1>2. CASE LAInsertTransaction
  <2>1. /\ work[LA].pc = "insertTransaction"
        /\ UNCHANGED <<environment, links, sent, responses>>
    BY <1>2 DEF LAInsertTransaction, At, outputs
  <2>2. PICK t \in NextTrx : Begin(LA, "relate", t, 0, {})
    BY <1>2 DEF LAInsertTransaction
  <2>3. t \in TrxId /\ QuietCalls
    BY <2>1 DEF NextTrx, QuietCalls
  <2>4. ASSUME NEW n \in {0}, NEW s \in {{}}, Begin(LA, "relate", t, n, s)
        PROVE  Remembered'
    <3>1. n \in 0..MaxDeliver /\ s \in SUBSET Seen
      BY BoundsAssumption
    <3> QED
      BY <2>1, <2>3, <2>4, <3>1, AllForward, QuietBegin
  <2> QED
    BY <2>2, <2>4
<1>3. CASE LARelate
  <2>1. "getParties" \notin BeforeLink \cup Searching
    BY DEF BeforeLink, Searching
  <2> QED
    BY <1>3, <2>1, AllForward, RelateRemembered DEF LARelate, At
<1>4. CASE LAGetParties
  <2>1. /\ work[LA].pc # "idle" /\ Done(LA)
        /\ UNCHANGED <<environment, links, responses>>
    BY <1>4 DEF LAGetParties, Call, At
  <2>2. QuietCalls
    BY <1>4, QuietCall DEF LAGetParties, Telling
  <2> QED
    BY <2>1, <2>2, QuietDone
<1>5. CASE LAThrow
  BY <1>5, ThrowRemembered DEF LAThrow
<1> QED
  BY <1>1, <1>2, <1>3, <1>4, <1>5 DEF LegacyAuthorizationRequestHandler

\* A worker that has looked its transaction up, or found none.
LEMMA LookRemembered ==
  ASSUME IInv, Remembered, LinkedOriginalsKept, NEW q \in WorkerQueue, NEW to,
         work[q].pc # "idle", Forward(q, work[q].pc, to),
         q \notin {QR, AR, TR}, NEW T \in SUBSET TrxId,
         Done(q) \/ \E t \in T : Begin(q, to, t, 0, {}), QuietCalls,
         UNCHANGED <<environment, links, responses>>
  PROVE  Remembered'
<1>1. CASE Done(q)
  BY <1>1, QuietDone
<1>2. ASSUME NEW t \in T, NEW n \in {0}, NEW s \in {{}}, Begin(q, to, t, n, s)
      PROVE  Remembered'
  <2>1. n \in 0..MaxDeliver /\ s \in SUBSET Seen /\ t \in TrxId
    BY BoundsAssumption
  <2> QED
    BY <1>2, <2>1, QuietBegin
<1> QED
  BY <1>1, <1>2

\* partiesResponseHandler
LEMMA PartiesResponseHandlerRemembered ==
  ASSUME IInv, Remembered, LinkedOriginalsKept, PartiesResponseHandler
  PROVE  Remembered'
<1> PR \in WorkerQueue /\ PR \notin LegacyQueue /\ PR \notin {QR, AR, TR}
  BY QueueNames DEF LegacyQueue, PR, QR, AR, TR
<1>1. CASE PRFind
  <2>1. /\ work[PR].pc = "start"
        /\ UNCHANGED <<environment, links, sent, responses>>
    BY <1>1 DEF PRFind, At, outputs
  <2>2. PICK T \in SUBSET TrxId :
          Done(PR) \/ \E t \in T : Begin(PR, "updateParty", t, 0, {})
    BY <1>1 DEF PRFind, Latest
  <2> QED
    BY <2>1, <2>2, AllForward, LookRemembered DEF QuietCalls
<1>2. CASE PRUpdateParty
  <2>1. /\ work[PR].pc = "updateParty" /\ Goto(PR, "postTransactionRequests")
        /\ UNCHANGED <<environment, links, sent, responses>>
    BY <1>2 DEF PRUpdateParty, At, outputs
  <2> QED
    BY <2>1, AllForward, QuietGoto DEF QuietCalls, Searching
<1>3. CASE PRPostTransactionRequests
  <2>1. /\ work[PR].pc # "idle" /\ Done(PR)
        /\ UNCHANGED <<environment, links, responses>>
    BY <1>3 DEF PRPostTransactionRequests, Call, At
  <2>2. QuietCalls
    BY <1>3, QuietCall DEF PRPostTransactionRequests, Telling
  <2> QED
    BY <2>1, <2>2, QuietDone
<1>4. CASE PRThrow
  BY <1>4, QuietThrow DEF PRThrow
<1> QED
  BY <1>1, <1>2, <1>3, <1>4 DEF PartiesResponseHandler

\* transactionRequestResponseHandler
LEMMA TransactionRequestResponseHandlerRemembered ==
  ASSUME IInv, Remembered, LinkedOriginalsKept, TransactionRequestResponseHandler
  PROVE  Remembered'
<1> TRR \in WorkerQueue /\ TRR \notin LegacyQueue /\ TRR \notin {QR, AR, TR}
  BY QueueNames DEF LegacyQueue, TRR, QR, AR, TR
<1>1. CASE TRRRead
  <2>1. /\ work[TRR].pc = "start"
        /\ UNCHANGED <<environment, links, sent, responses>>
    BY <1>1 DEF TRRRead, At, outputs
  <2>2. work[TRR].job[2] \in TrxId /\ QuietCalls
    BY <2>1, HubTrxOf DEF QuietCalls
  <2>3. PICK to \in {"respond", "reject"}, seen \in {{}, {"cancelled"}} :
          Begin(TRR, to, work[TRR].job[2], 0, seen)
    BY <1>1 DEF TRRRead
  <2>4. ASSUME NEW n \in {0}, Begin(TRR, to, work[TRR].job[2], n, seen)
        PROVE  Remembered'
    <3>1. n \in 0..MaxDeliver /\ seen \in SUBSET Seen
      BY BoundsAssumption DEF Seen
    <3>2. Forward(TRR, "start", to)
      BY AllForward
    <3> QED
      BY <2>1, <2>2, <2>4, <3>1, <3>2, QuietBegin
  <2> QED
    BY <2>3, <2>4
<1>2. CASE TRRRespond \/ TRRReject
  <2>1. /\ work[TRR].pc # "idle" /\ Done(TRR)
        /\ UNCHANGED <<environment, links, sent, responses>>
    BY <1>2 DEF TRRRespond, TRRReject, At, outputs
  <2> QED
    BY <2>1, QuietDone DEF QuietCalls
<1>3. CASE TRRThrow
  BY <1>3, ThrowRemembered DEF TRRThrow, HasCause
<1> QED
  BY <1>1, <1>2, <1>3 DEF TransactionRequestResponseHandler

-----------------------------------------------------------------------------
(* Verdicts on the transaction of a handler that decides. *)

\* These workers and the transaction of their job.
LEMMA HubWork ==
  ASSUME IInv, Remembered, NEW q \in {QR, AR, TR}, work[q].pc \notin Searching
  PROVE  /\ work[q].trx \in TrxId
         /\ work[q].job = <<KindFor(q), work[q].trx>>
         /\ HasDelivered(<<KindFor(q), work[q].trx>>)
         /\ PromptedBy(<<KindFor(q), work[q].trx>>) \cap sent # {}
<1>1. work[q].pc # "idle" /\ work[q].trx = work[q].job[2]
  BY DEF Remembered, OwnTransaction, Searching
<1>2. /\ work[q].job[2] \in TrxId
      /\ work[q].job = <<KindFor(q), work[q].job[2]>>
      /\ HasDelivered(work[q].job)
      /\ PromptedBy(work[q].job) \cap sent # {}
  BY <1>1, HubJobIs
<1> QED
  BY <1>1, <1>2

\* The kinds of job of these workers.
LEMMA KindNames ==
  /\ KindFor(QR) = "quoteRequest"
  /\ KindFor(AR) = "authorization"
  /\ KindFor(TR) = "transferRequest"
BY DEF KindFor, QR, AR, TR

\* What is said of quotes leaves the verdict on the transfer alone.
LEMMA TransferSame ==
  ASSUME NEW t \in TrxId, TransferOpen(t), Shrinks,
         Fulfilled(t)' => Fulfilled(t), Refused(t)' => Refused(t),
         Unanswered(t, "financialRequest") => Unanswered(t, "financialRequest")'
  PROVE  TransferOpen(t)'
BY DEF TransferOpen, Shrinks

\* Nor do refusals of other kinds change.
LEMMA RefusalSame ==
  ASSUME NEW t \in TrxId, RefusalFinal(t),
         UNCHANGED <<lpsMessages, links, transactions>>, DeliveredStay,
         Fulfilled(t)' => Fulfilled(t), Refused(t)' => Refused(t),
         \A m \in MsgId :
           lpsMessages[m].type \in {"financialRequest", "reversalRequest"}
             /\ <<m, "invalid">> \in responses' => <<m, "invalid">> \in responses,
         \A m \in Linked(t, "authorizationRequest") :
           <<m, "invalid">> \in responses' =>
             /\ HasDelivered(<<"quoteRequest", t>>)'
             /\ <<"putQuotes", t>> \in sent' => HasDelivered(<<"authorization", t>>)'
  PROVE  RefusalFinal(t)'
<1>1. \A type : Linked(t, type)' = Linked(t, type)
  BY DEF Linked
<1>2. ~(Fulfilled(t)' /\ Refused(t)')
  BY DEF RefusalFinal
<1>3. \A m \in Linked(t, "financialRequest") :
        <<m, "invalid">> \in responses' => ~Fulfilled(t)' \/ ErrorTold(t)'
  BY ErrorStays DEF RefusalFinal, Linked
<1>4. \A m \in Linked(t, "reversalRequest") :
        <<m, "invalid">> \in responses' => ~IsRefund(t)' \/ ErrorTold(t)'
  BY ErrorStays DEF RefusalFinal, Linked, IsRefund
<1> QED
  BY <1>1, <1>2, <1>3, <1>4 DEF RefusalFinal

-----------------------------------------------------------------------------
(* quotesRequestHandler *)

\* A quote is sent for a request nothing has been said about.
LEMMA QRPutQuotesRemembered ==
  ASSUME IInv, Remembered, QRPutQuotes
  PROVE  Remembered'
<1>1. /\ work[QR].pc = "putQuotes" /\ Goto(QR, "updateState")
      /\ sent' = sent \cup {Calling(QR)}
      /\ UNCHANGED <<environment, transactions, links, responses>>
      /\ UNCHANGED <<queue, lpsMessages, delivered, transactions, links, responses>>
      /\ QR \in WorkerQueue
  BY QueueNames DEF QRPutQuotes, Call, At, environment
<1>2. "putQuotes" \notin Searching /\ "putQuotes" \in Undecided
  BY DEF Searching, Undecided
<1>3. Moves(QR) /\ work'[QR].pc = "updateState"
  BY <1>1, <1>2, AllForward, GotoMoves DEF Forward
<1>4. PICK t \in TrxId : t = work[QR].trx
  BY <1>1, <1>2, HubWork
<1> DEFINE h == <<"quoteRequest", t>>
<1>5. work[QR].job = h
  BY <1>1, <1>2, <1>4, HubWork, KindNames
<1>6. Calling(QR) = <<"putQuotes", t>>
  BY <1>1, <1>4 DEF Calling, TransferCall
<1>7. DeliveredStay /\ Shrinks
  BY <1>1, <1>3, MovesShrink DEF DeliveredStay, HasDelivered
<1>8. CausesOf(t)'
  <2>1. CausesOf(t)
    BY <1>4 DEF Remembered, CausesKnown
  <2>2. \A c \in sent' : c \in sent \/ HasCause(c)
    BY <1>1, CallingHasCause DEF CallStep, TransactionCall
  <2> QED
    BY <1>1, <1>4, <1>7, <2>1, <2>2, CausesGrow DEF Linked
<1>9. ASSUME Undisturbed
      PROVE  Verdicts(t)'
  <2>1. QuoteOpen(t) /\ AuthorizationOpen(t) /\ TransferOpen(t) /\ RefusalFinal(t)
    BY <1>4, <1>9 DEF Remembered, VerdictsKnown
  <2>2. Open(QR, h, Undecided)
    BY <1>1, <1>2, <1>5 DEF Open
  <2>3. Unanswered(t, "authorizationRequest")
    BY <2>1, <2>2 DEF QuoteOpen
  <2>4. ~Open(QR, h, Undecided)'
    <3>1. "updateState" \notin Undecided /\ QR \in {QR, AR, TR}
      BY DEF Undecided
    <3> QED
      BY <1>1, <1>3, <1>5, <1>9, <3>1, JobClosed
  <2>5. QuoteOpen(t)'
    BY <2>4 DEF QuoteOpen
  <2>6. \A type : Unanswered(t, type)' = Unanswered(t, type)
    BY <1>1 DEF Unanswered, Linked, Answered
  <2>7. AuthorizationOpen(t)'
    BY <1>7, <2>1, <2>6 DEF AuthorizationOpen, Shrinks
  <2>8. Fulfilled(t)' = Fulfilled(t) /\ Refused(t)' = Refused(t)
    BY <1>1, <1>6 DEF Fulfilled, Refused
  <2>9. TransferOpen(t)'
    BY <1>4, <1>7, <2>1, <2>6, <2>8, TransferSame
  <2>10. \A m \in Linked(t, "authorizationRequest") :
           <<m, "invalid">> \notin responses'
    BY <1>1, <2>3 DEF Unanswered, Answered
  <2>11. RefusalFinal(t)'
    BY <1>1, <1>4, <1>7, <2>1, <2>8, <2>10, RefusalSame
  <2> QED
    BY <2>5, <2>7, <2>9, <2>11 DEF Verdicts
<1>10. \A u \in TrxId : u # t =>
        /\ Calling(QR) # <<"putQuotes", u>>
        /\ \A n \in 1..MaxDeliver :
             /\ Calling(QR) # <<"putTransfers", <<u, n>>>>
             /\ Calling(QR) # <<"putTransfersError", <<u, n>>>>
  BY <1>6
<1> QED
  BY <1>1, <1>3, <1>4, <1>8, <1>9, <1>10, CallRemembered

\* A request is refused before a quote has been sent for it.
LEMMA QRRefuseRemembered ==
  ASSUME IInv, Remembered, LinkedOriginalsKept, QRRefuse
  PROVE  Remembered'
<1>1. /\ work[QR].pc = "refuse" /\ Done(QR)
      /\ UNCHANGED <<environment, transactions, links, sent>>
      /\ UNCHANGED <<queue, lpsMessages, delivered, transactions, links, sent>>
      /\ QR \in WorkerQueue
  BY QueueNames DEF QRRefuse, At, environment
<1>2. "refuse" \notin Searching /\ "refuse" \in Undecided
  BY DEF Searching, Undecided
<1>3. Moves(QR) /\ work'[QR].pc = "idle"
  BY <1>1, DoneMoves
<1>4. PICK t \in TrxId : t = work[QR].trx
  BY <1>1, <1>2, HubWork
<1> DEFINE h == <<"quoteRequest", t>>
<1>5. work[QR].job = h /\ HasDelivered(h)
  BY <1>1, <1>2, <1>4, HubWork, KindNames
<1>6. DeliveredStay /\ Shrinks
  BY <1>1, <1>3, MovesShrink DEF DeliveredStay, HasDelivered
<1>7. CASE UNCHANGED responses
  BY <1>1, <1>7, QuietDone DEF QuietCalls
<1>8. ASSUME NEW m \in Linked(t, "authorizationRequest"), Respond(m, "invalid")
      PROVE  Remembered'
  <2>1. /\ m \in MsgId /\ <<t, m>> \in links
        /\ lpsMessages[m].type = "authorizationRequest"
        /\ responses' = responses \cup {<<m, "invalid">>}
    BY <1>8 DEF Linked, Respond
  <2>2. MayAnswer(QR, m)
    BY <1>4, <2>1 DEF MayAnswer
  <2>3. ASSUME Undisturbed
        PROVE  /\ <<"putQuotes", t>> \notin sent
               /\ Unanswered(t, "authorizationRequest")
    <3>1. Open(QR, h, Undecided)
      BY <1>1, <1>2, <1>5 DEF Open
    <3> QED
      BY <1>4, <2>3, <3>1 DEF Remembered, VerdictsKnown, QuoteOpen
  <2>4. ASSUME Undisturbed
        PROVE  <<m, "approved">> \notin responses
    BY <1>8, <2>3, <2>4 DEF Unanswered, Answered
  <2>5. CausesOf(t)'
    <3>1. CausesOf(t)
      BY <1>4 DEF Remembered, CausesKnown
    <3>2. \A k \in MsgId : <<k, "approved">> \in responses' =>
                             <<k, "approved">> \in responses
      BY <2>1
    <3>3. \A k \in MsgId : lpsMessages[k].type = "financialRequest"
                             /\ <<k, "invalid">> \in responses' =>
                               <<k, "invalid">> \in responses
      BY <2>1
    <3> QED
      BY <1>1, <1>4, <1>6, <3>1, <3>2, <3>3, CausesGrow DEF Linked
  <2>6. ASSUME Undisturbed
        PROVE  Verdicts(t)'
    <3>1. QuoteOpen(t) /\ AuthorizationOpen(t) /\ TransferOpen(t) /\ RefusalFinal(t)
      BY <1>4, <2>6 DEF Remembered, VerdictsKnown
    <3>2. QuoteOpen(t)'
      <4>1. "idle" \notin Undecided /\ QR \in {QR, AR, TR}
        BY DEF Undecided
      <4>2. ~Open(QR, h, Undecided)'
        BY <1>1, <1>3, <1>5, <2>6, <4>1, JobClosed
      <4> QED
        BY <4>2 DEF QuoteOpen
    <3>3. AuthorizationOpen(t)'
      <4>1. SUFFICES ASSUME Open(AR, <<"authorization", t>>, Undecided)
                     PROVE  FALSE
        BY <1>6 DEF AuthorizationOpen, Shrinks
      <4>2. /\ <<"authorization", t>> \in HubMessage
            /\ HasDelivered(<<"authorization", t>>)
        BY <4>1, OpenDelivered DEF Undecided
      <4>3. PromptedBy(<<"authorization", t>>) \cap sent # {}
        BY <4>2 DEF IInv, DeliveredOK
      <4> QED
        BY <2>3, <2>6, <4>3 DEF PromptedBy
    <3>4. Fulfilled(t)' = Fulfilled(t) /\ Refused(t)' = Refused(t)
      BY <1>1 DEF Fulfilled, Refused
    <3>5. Unanswered(t, "financialRequest") => Unanswered(t, "financialRequest")'
      BY <1>1, <2>1 DEF Unanswered, Linked, Answered
    <3>6. TransferOpen(t)'
      BY <1>4, <1>6, <3>1, <3>4, <3>5, TransferSame
    <3>7. \A k \in MsgId :
            lpsMessages[k].type \in {"financialRequest", "reversalRequest"}
              /\ <<k, "invalid">> \in responses' => <<k, "invalid">> \in responses
      BY <2>1
    <3>8. /\ HasDelivered(<<"quoteRequest", t>>)'
          /\ <<"putQuotes", t>> \notin sent'
      BY <1>1, <1>5, <2>3, <2>6 DEF HasDelivered
    <3>9. RefusalFinal(t)'
      BY <1>1, <1>4, <1>6, <3>1, <3>4, <3>7, <3>8, RefusalSame
    <3> QED
      BY <3>2, <3>3, <3>6, <3>9 DEF Verdicts
  <2>7. \A u \in TrxId : <<u, m>> \in links => u = t
    BY <1>4, <2>1 DEF Remembered, LinkedOnce
  <2> QED
    BY <1>1, <1>3, <1>8, <2>1, <2>2, <2>4, <2>5, <2>6, <2>7, AnswerRemembered
<1> QED
  BY <1>4, <1>7, <1>8 DEF QRRefuse

\* A request is validated, its quote stored, its state written or its error
\* sent: nothing Remembered knows of.
LEMMA QuotesRequestHandlerRemembered ==
  ASSUME IInv, Remembered, LinkedOriginalsKept, QuotesRequestHandler
  PROVE  Remembered'
<1> QR \in WorkerQueue /\ QR \notin LegacyQueue /\ QR # TR
  BY QueueNames DEF LegacyQueue, QR, TR
<1>1. CASE QRValidate
  <2>1. /\ work[QR].pc = "start"
        /\ UNCHANGED <<environment, links, sent, responses>>
    BY <1>1 DEF QRValidate, At, outputs
  <2>2. work[QR].job[2] \in TrxId /\ QuietCalls
    BY <2>1, HubTrxOf DEF QuietCalls
  <2>3. PICK to \in {"insertQuote", "putQuotesError"} :
          Begin(QR, to, work[QR].job[2], 0, {})
    BY <1>1 DEF QRValidate
  <2>4. ASSUME NEW n \in {0}, NEW s \in {{}}, Begin(QR, to, work[QR].job[2], n, s)
        PROVE  Remembered'
    <3>1. n \in 0..MaxDeliver /\ s \in SUBSET Seen /\ Forward(QR, "start", to)
      BY BoundsAssumption, AllForward
    <3> QED
      BY <2>1, <2>2, <2>4, <3>1, QuietBegin
  <2> QED
    BY <2>3, <2>4
<1>2. CASE QRInsertQuote
  <2>1. /\ work[QR].pc = "insertQuote"
        /\ UNCHANGED <<environment, links, responses>>
    BY <1>2 DEF QRInsertQuote, At
  <2>2. CASE Goto(QR, "putQuotes") /\ UNCHANGED sent
    BY <2>1, <2>2, AllForward, QuietGoto DEF QuietCalls, Searching
  <2>3. CASE /\ sent' = sent \cup {<<"putQuotesError", work[QR].trx>>}
             /\ Done(QR)
    BY <2>1, <2>3, QuietDone DEF QuietCalls, Telling
  <2> QED
    BY <1>2, <2>2, <2>3 DEF QRInsertQuote
<1>3. CASE QRUpdateState
  <2>1. /\ work[QR].pc # "idle" /\ Done(QR)
        /\ UNCHANGED <<environment, links, sent, responses>>
    BY <1>3 DEF QRUpdateState, At, outputs
  <2> QED
    BY <2>1, QuietDone DEF QuietCalls
<1>4. CASE QRPutQuotesError
  <2>1. /\ work[QR].pc = "putQuotesError" /\ Goto(QR, "refuse")
        /\ UNCHANGED <<environment, links, responses>>
    BY <1>4 DEF QRPutQuotesError, Call, At
  <2>2. QuietCalls
    BY <1>4, QuietCall DEF QRPutQuotesError, Telling
  <2> QED
    BY <2>1, <2>2, AllForward, QuietGoto DEF Searching
<1>5. CASE QRThrow
  BY <1>5, ThrowRemembered DEF QRThrow, HasCause
<1> QED
  BY <1>1, <1>2, <1>3, <1>4, <1>5, QRPutQuotesRemembered, QRRefuseRemembered
  DEF QuotesRequestHandler

-----------------------------------------------------------------------------
(* authorizationRequestHandler *)

\* The terminal is told the one verdict there is on its request.
LEMMA AuthorizationAnswered ==
  ASSUME IInv, Remembered, work[AR].pc \in {"approve", "refuse"}, Moves(AR),
         work'[AR].pc \notin Undecided,
         NEW m \in Linked(work[AR].trx, "authorizationRequest"),
         NEW r \in {"approved", "invalid"}, Respond(m, r),
         UNCHANGED <<environment, transactions, links, sent>>
  PROVE  Remembered'
<1>1. /\ UNCHANGED <<queue, lpsMessages, delivered, transactions, links, sent>>
      /\ AR \in WorkerQueue
  BY QueueNames DEF environment
<1>2. /\ work[AR].pc \notin Searching /\ work[AR].pc \in Undecided
      /\ AR \in {QR, AR, TR}
  BY DEF Searching, Undecided
<1>3. PICK t \in TrxId : t = work[AR].trx
  BY <1>2, HubWork
<1> DEFINE h == <<"authorization", t>>
<1>4. /\ work[AR].job = h /\ HasDelivered(h)
      /\ PromptedBy(h) \cap sent # {}
  BY <1>2, <1>3, HubWork, KindNames
<1>5. <<"putQuotes", t>> \in sent
  BY <1>4 DEF PromptedBy
<1>6. DeliveredStay /\ Shrinks
  BY <1>1, MovesShrink DEF DeliveredStay, HasDelivered
<1>7. /\ m \in MsgId /\ <<t, m>> \in links
      /\ lpsMessages[m].type = "authorizationRequest"
      /\ responses' = responses \cup {<<m, r>>}
  BY <1>3 DEF Linked, Respond
<1>8. MayAnswer(AR, m)
  BY <1>7 DEF MayAnswer
<1>9. Undisturbed => Unanswered(t, "authorizationRequest")
  <2>1. Open(AR, h, Undecided)
    BY <1>2, <1>4 DEF Open
  <2> QED
    BY <2>1 DEF Remembered, VerdictsKnown, AuthorizationOpen
<1>10. Undisturbed => \A v \in {"approved", "invalid"} \ {r} :
                        <<m, v>> \notin responses
  BY <1>3, <1>9 DEF Unanswered, Answered
<1>11. CausesOf(t)'
  <2>1. CausesOf(t)
    BY DEF Remembered, CausesKnown
  <2>2. \A k \in MsgId : lpsMessages[k].type = "financialRequest"
                           /\ <<k, "invalid">> \in responses' =>
                             <<k, "invalid">> \in responses
    BY <1>7
  <2> QED
    BY <1>1, <1>4, <1>6, <2>1, <2>2, CausesGrow DEF Linked
<1>12. ASSUME Undisturbed
       PROVE  Verdicts(t)'
  <2>1. QuoteOpen(t) /\ AuthorizationOpen(t) /\ TransferOpen(t) /\ RefusalFinal(t)
    BY <1>12 DEF Remembered, VerdictsKnown
  <2>2. QuoteOpen(t)'
    BY <1>5, <1>6, <2>1 DEF QuoteOpen, Shrinks
  <2>3. AuthorizationOpen(t)'
    <3>1. ~Open(AR, h, Undecided)'
      BY <1>1, <1>2, <1>4, <1>12, JobClosed
    <3> QED
      BY <3>1 DEF AuthorizationOpen
  <2>4. Fulfilled(t)' = Fulfilled(t) /\ Refused(t)' = Refused(t)
    BY <1>1 DEF Fulfilled, Refused
  <2>5. Unanswered(t, "financialRequest") => Unanswered(t, "financialRequest")'
    BY <1>1, <1>7 DEF Unanswered, Linked, Answered
  <2>6. TransferOpen(t)'
    BY <1>6, <2>1, <2>4, <2>5, TransferSame
  <2>7. \A k \in MsgId :
          lpsMessages[k].type \in {"financialRequest", "reversalRequest"}
            /\ <<k, "invalid">> \in responses' => <<k, "invalid">> \in responses
    BY <1>7
  <2>8. HasDelivered(<<"quoteRequest", t>>)' /\ HasDelivered(h)'
    BY <1>1, <1>4, <1>5 DEF Remembered, CausesKnown, CausesOf, HasDelivered
  <2>9. RefusalFinal(t)'
    BY <1>1, <1>6, <2>1, <2>4, <2>7, <2>8, RefusalSame
  <2> QED
    BY <2>2, <2>3, <2>6, <2>9 DEF Verdicts
<1>13. \A u \in TrxId : <<u, m>> \in links => u = t
  BY <1>7 DEF Remembered, LinkedOnce
<1> QED
  BY <1>1, <1>7, <1>8, <1>10, <1>11, <1>12, <1>13, AnswerRemembered

\* An authorization is answered, or its own state written or its error sent.
LEMMA AuthorizationRequestHandlerRemembered ==
  ASSUME IInv, Remembered, LinkedOriginalsKept, AuthorizationRequestHandler
  PROVE  Remembered'
<1> AR \in WorkerQueue /\ AR \notin LegacyQueue /\ AR # TR
  BY QueueNames DEF LegacyQueue, AR, TR
<1>1. CASE ARValidate
  <2>1. /\ work[AR].pc = "start"
        /\ UNCHANGED <<environment, links, responses>>
    BY <1>1 DEF ARValidate, At, outputs
  <2>2. work[AR].job[2] \in TrxId
    BY <2>1, HubTrxOf
  <2>3. ASSUME NEW to \in {"approve", "putAuthorizationsError"},
               NEW n \in {0}, NEW s \in {{}}, Begin(AR, to, work[AR].job[2], n, s),
               UNCHANGED sent
        PROVE  Remembered'
    <3>1. n \in 0..MaxDeliver /\ s \in SUBSET Seen /\ Forward(AR, "start", to)
      BY BoundsAssumption, AllForward
    <3>2. QuietCalls
      BY <2>3 DEF QuietCalls
    <3> QED
      BY <2>1, <2>2, <2>3, <3>1, <3>2, QuietBegin
  <2>4. CASE /\ sent' = sent \cup {<<"putAuthorizationsError", work[AR].job[2]>>}
             /\ Done(AR)
    BY <2>1, <2>4, QuietDone DEF QuietCalls, Telling
  <2> QED
    BY <1>1, <2>3, <2>4 DEF ARValidate
<1>2. CASE ARApprove
  <2>1. /\ work[AR].pc = "approve" /\ Goto(AR, "updateState")
        /\ UNCHANGED <<environment, transactions, links, sent>>
    BY <1>2 DEF ARApprove, At
  <2>2. Moves(AR) /\ work'[AR].pc = "updateState"
    BY <2>1, AllForward, GotoMoves DEF Searching, Forward
  <2> QED
    BY <1>2, <2>1, <2>2, AuthorizationAnswered DEF ARApprove, Undecided
<1>3. CASE ARUpdateState
  <2>1. /\ work[AR].pc # "idle" /\ Done(AR)
        /\ UNCHANGED <<environment, links, sent, responses>>
    BY <1>3 DEF ARUpdateState, At, outputs
  <2> QED
    BY <2>1, QuietDone DEF QuietCalls
<1>4. CASE ARPutAuthorizationsError
  <2>1. /\ work[AR].pc = "putAuthorizationsError" /\ Goto(AR, "refuse")
        /\ UNCHANGED <<environment, links, responses>>
    BY <1>4 DEF ARPutAuthorizationsError, Call, At
  <2>2. QuietCalls
    BY <1>4, QuietCall DEF ARPutAuthorizationsError, Telling
  <2> QED
    BY <2>1, <2>2, AllForward, QuietGoto DEF Searching
<1>5. CASE ARRefuse
  <2>1. /\ work[AR].pc = "refuse" /\ Done(AR)
        /\ UNCHANGED <<environment, transactions, links, sent>>
    BY <1>5 DEF ARRefuse, At
  <2>2. Moves(AR) /\ work'[AR].pc = "idle"
    BY <2>1, DoneMoves
  <2> QED
    BY <1>5, <2>1, <2>2, AuthorizationAnswered DEF ARRefuse, Undecided
<1>6. CASE ARThrow
  BY <1>6, ThrowRemembered DEF ARThrow, HasCause
<1> QED
  BY <1>1, <1>2, <1>3, <1>4, <1>5, <1>6 DEF AuthorizationRequestHandler

-----------------------------------------------------------------------------
(* The handlers of FinancialFlow. *)

\* legacyFinancialRequestHandler
LEMMA LegacyFinancialRequestHandlerRemembered ==
  ASSUME IInv, Remembered, LinkedOriginalsKept, LegacyFinancialRequestHandler
  PROVE  Remembered'
<1> LF \in WorkerQueue /\ LF \in LegacyQueue /\ LF \notin {QR, AR, TR, LR}
  BY QueueNames DEF LF, QR, AR, TR, LR
<1>1. CASE LFFind
  <2>1. /\ work[LF].pc = "start"
        /\ UNCHANGED <<environment, links, sent, responses>>
    BY <1>1 DEF LFFind, At, outputs
  <2>2. PICK T \in SUBSET TrxId :
          Done(LF) \/ \E t \in T : Begin(LF, "relate", t, 0, {})
    BY <1>1 DEF LFFind, Latest
  <2> QED
    BY <2>1, <2>2, AllForward, LookRemembered DEF QuietCalls
<1>2. CASE LFRelate
  <2>1. "putAuthorizations" \notin BeforeLink \cup Searching
    BY DEF BeforeLink, Searching
  <2> QED
    BY <1>2, <2>1, AllForward, RelateRemembered DEF LFRelate, At
<1>3. CASE LFPutAuthorizations
  <2>1. /\ work[LF].pc = "putAuthorizations" /\ Goto(LF, "updateState")
        /\ UNCHANGED <<environment, links, responses>>
    BY <1>3 DEF LFPutAuthorizations, Call, At
  <2>2. QuietCalls
    BY <1>3, QuietCall DEF LFPutAuthorizations, Telling
  <2> QED
    BY <2>1, <2>2, AllForward, QuietGoto DEF Searching
<1>4. CASE LFUpdateState
  <2>1. /\ work[LF].pc # "idle" /\ Done(LF)
        /\ UNCHANGED <<environment, links, sent, responses>>
    BY <1>4 DEF LFUpdateState, At, outputs
  <2> QED
    BY <2>1, QuietDone DEF QuietCalls
<1>5. CASE LFThrow
  BY <1>5, QuietThrow DEF LFThrow
<1> QED
  BY <1>1, <1>2, <1>3, <1>4, <1>5 DEF LegacyFinancialRequestHandler

\* The verdict on a quote, when only transfers are spoken of.
LEMMA QuoteSame ==
  ASSUME NEW t \in TrxId, QuoteOpen(t), AuthorizationOpen(t), Shrinks,
         <<"putQuotes", t>> \in sent' => <<"putQuotes", t>> \in sent,
         UNCHANGED <<lpsMessages, links>>,
         \A m \in MsgId :
           lpsMessages[m].type = "authorizationRequest" /\ Answered(m)'
             => Answered(m)
  PROVE  QuoteOpen(t)' /\ AuthorizationOpen(t)'
<1>1. Unanswered(t, "authorizationRequest") =>
        Unanswered(t, "authorizationRequest")'
  BY DEF Unanswered, Linked, Answered
<1> QED
  BY <1>1 DEF QuoteOpen, AuthorizationOpen, Shrinks

\* A transfer is refused before it has been fulfilled, and not fulfilled then.
LEMMA RefusalSent ==
  ASSUME IInv, Remembered, Moves(TR),
         work[TR].pc \in Undecided, work'[TR].pc \notin BeforeFulfil,
         sent' = sent \cup {<<"putTransfersError", <<work[TR].job[2], 1>>>>},
         UNCHANGED <<environment, transactions, links, responses>>
  PROVE  Remembered'
<1>1. /\ UNCHANGED <<queue, lpsMessages, delivered, transactions, links, responses>>
      /\ TR \in WorkerQueue /\ TR \in {QR, AR, TR}
  BY QueueNames DEF environment
<1>2. PICK t \in TrxId : t = work[TR].job[2]
  BY <1>1, HubJobIs DEF Moves
<1> DEFINE h == <<"transferRequest", t>>
           c == <<"putTransfersError", <<t, 1>>>>
<1>3. work[TR].job = h /\ HasDelivered(h)
  BY <1>1, <1>2, HubJobIs, KindNames DEF Moves
<1>4. sent' = sent \cup {c} /\ HasCause(c)
  BY <1>2, <1>3 DEF HasCause
<1>5. DeliveredStay /\ Shrinks
  BY <1>1, MovesShrink DEF DeliveredStay, HasDelivered
<1>6. CausesOf(t)'
  <2>1. CausesOf(t)
    BY DEF Remembered, CausesKnown
  <2>2. \A d \in sent' : d \in sent \/ HasCause(d)
    BY <1>4
  <2> QED
    BY <1>1, <1>5, <2>1, <2>2, CausesGrow DEF Linked
<1>7. ASSUME Undisturbed
      PROVE  Verdicts(t)'
  <2>1. QuoteOpen(t) /\ AuthorizationOpen(t) /\ TransferOpen(t) /\ RefusalFinal(t)
    BY <1>7 DEF Remembered, VerdictsKnown
  <2>2. Open(TR, h, Undecided)
    BY <1>3 DEF Open
  <2>3. ~Fulfilled(t) /\ Fulfilled(t)' = Fulfilled(t)
    BY <1>4, <2>1, <2>2 DEF TransferOpen, Fulfilled
  <2>4. QuoteOpen(t)' /\ AuthorizationOpen(t)'
    BY <1>1, <1>4, <1>5, <2>1, QuoteSame DEF Answered
  <2>5. TransferOpen(t)'
    <3>1. ~Open(TR, h, BeforeFulfil)'
      BY <1>1, <1>3, <1>7, JobClosed
    <3>2. Unanswered(t, "financialRequest")' = Unanswered(t, "financialRequest")
      BY <1>1 DEF Unanswered, Linked, Answered
    <3>3. Open(TR, h, Undecided)' => ~Fulfilled(t) /\ Unanswered(t, "financialRequest")
      BY <1>5, <2>1 DEF TransferOpen, Shrinks
    <3> QED
      BY <2>3, <3>1, <3>2, <3>3 DEF TransferOpen
  <2>6. RefusalFinal(t)'
    <3>1. \A type : Linked(t, type)' = Linked(t, type)
      BY <1>1 DEF Linked
    <3>2. /\ HasDelivered(<<"quoteRequest", t>>)' = HasDelivered(<<"quoteRequest", t>>)
          /\ HasDelivered(<<"authorization", t>>)' = HasDelivered(<<"authorization", t>>)
      BY <1>1 DEF HasDelivered
    <3>3. \A m \in Linked(t, "authorizationRequest") :
            <<m, "invalid">> \in responses' =>
              /\ HasDelivered(<<"quoteRequest", t>>)'
              /\ <<"putQuotes", t>> \in sent' => HasDelivered(<<"authorization", t>>)'
      BY <1>1, <1>4, <2>1, <3>2 DEF RefusalFinal
    <3>4. \A m \in Linked(t, "reversalRequest") :
            <<m, "invalid">> \in responses' => ~IsRefund(t)' \/ ErrorTold(t)'
      BY <1>1, <2>1 DEF RefusalFinal, IsRefund, ErrorTold, HasDelivered
    <3> QED
      BY <2>3, <3>1, <3>3, <3>4 DEF RefusalFinal
  <2> QED
    BY <2>4, <2>5, <2>6 DEF Verdicts
<1> QED
  BY <1>1, <1>4, <1>6, <1>7, CallRemembered

\* The transfer of the worker.
LEMMA OwnTransfer ==
  ASSUME Remembered, work[TR].pc \notin Searching
  PROVE  WorkTransfer(TR) = <<work[TR].job[2], 1>>
BY DEF Remembered, OwnTransaction, WorkTransfer

\* A transfer is fulfilled that has not been refused.
LEMMA TRPutTransfersRemembered ==
  ASSUME IInv, Remembered, TRPutTransfers
  PROVE  Remembered'
<1>1. /\ work[TR].pc = "putTransfers" /\ Goto(TR, "updateState")
      /\ sent' = sent \cup {Calling(TR)}
      /\ UNCHANGED <<environment, transactions, links, responses>>
      /\ UNCHANGED <<queue, lpsMessages, delivered, transactions, links, responses>>
      /\ TR \in WorkerQueue /\ TR \in {QR, AR, TR}
  BY QueueNames DEF TRPutTransfers, Call, At, environment
<1>2. /\ "putTransfers" \notin Searching
      /\ "putTransfers" \in Undecided /\ "putTransfers" \in BeforeFulfil
      /\ "updateState" \notin Undecided /\ "updateState" \notin BeforeFulfil
  BY DEF Searching, Undecided, BeforeFulfil
<1>3. Moves(TR) /\ work'[TR].pc = "updateState"
  BY <1>1, <1>2, AllForward, GotoMoves DEF Forward
<1>4. PICK t \in TrxId : t = work[TR].job[2]
  BY <1>1, <1>3, HubJobIs DEF Moves
<1> DEFINE h == <<"transferRequest", t>>
           c == <<"putTransfers", <<t, 1>>>>
<1>5. work[TR].job = h /\ HasDelivered(h)
  BY <1>1, <1>3, <1>4, HubJobIs, KindNames DEF Moves
<1>6. Calling(TR) = c
  BY <1>1, <1>2, <1>4, OwnTransfer DEF Calling, TransferCall
<1>7. sent' = sent \cup {c} /\ HasCause(c)
  BY <1>1, <1>5, <1>6 DEF HasCause
<1>8. DeliveredStay /\ Shrinks
  BY <1>1, <1>3, MovesShrink DEF DeliveredStay, HasDelivered
<1>9. CausesOf(t)'
  <2>1. CausesOf(t)
    BY DEF Remembered, CausesKnown
  <2>2. \A d \in sent' : d \in sent \/ HasCause(d)
    BY <1>7
  <2> QED
    BY <1>1, <1>8, <2>1, <2>2, CausesGrow DEF Linked
<1>10. ASSUME Undisturbed
       PROVE  Verdicts(t)'
  <2>1. QuoteOpen(t) /\ AuthorizationOpen(t) /\ TransferOpen(t) /\ RefusalFinal(t)
    BY <1>10 DEF Remembered, VerdictsKnown
  <2>2. Open(TR, h, Undecided) /\ Open(TR, h, BeforeFulfil)
    BY <1>1, <1>2, <1>5 DEF Open
  <2>3. Unanswered(t, "financialRequest") /\ ~Refused(t)
    BY <2>1, <2>2 DEF TransferOpen
  <2>4. QuoteOpen(t)' /\ AuthorizationOpen(t)'
    BY <1>1, <1>7, <1>8, <2>1, QuoteSame DEF Answered
  <2>5. TransferOpen(t)'
    <3>1. ~Open(TR, h, Undecided)' /\ ~Open(TR, h, BeforeFulfil)'
      BY <1>1, <1>2, <1>3, <1>5, <1>10, JobClosed
    <3> QED
      BY <3>1 DEF TransferOpen
  <2>6. RefusalFinal(t)'
    <3>1. \A type : Linked(t, type)' = Linked(t, type)
      BY <1>1 DEF Linked
    <3>2. /\ HasDelivered(<<"quoteRequest", t>>)' = HasDelivered(<<"quoteRequest", t>>)
          /\ HasDelivered(<<"authorization", t>>)' = HasDelivered(<<"authorization", t>>)
      BY <1>1 DEF HasDelivered
    <3>3. \A m \in Linked(t, "authorizationRequest") :
            <<m, "invalid">> \in responses' =>
              /\ HasDelivered(<<"quoteRequest", t>>)'
              /\ <<"putQuotes", t>> \in sent' => HasDelivered(<<"authorization", t>>)'
      BY <1>1, <1>7, <2>1, <3>2 DEF RefusalFinal
    <3>4. \A m \in Linked(t, "reversalRequest") :
            <<m, "invalid">> \in responses' => ~IsRefund(t)' \/ ErrorTold(t)'
      BY <1>1, <2>1 DEF RefusalFinal, IsRefund, ErrorTold, HasDelivered
    <3>5. \A m \in Linked(t, "financialRequest") :
            <<m, "invalid">> \notin responses'
      BY <1>1, <2>3 DEF Unanswered, Answered
    <3>6. ~Refused(t)'
      BY <1>7, <2>3 DEF Refused
    <3> QED
      BY <3>1, <3>3, <3>4, <3>5, <3>6 DEF RefusalFinal
  <2> QED
    BY <2>4, <2>5, <2>6 DEF Verdicts
<1> QED
  BY <1>1, <1>3, <1>7, <1>9, <1>10, CallRemembered

\* The terminal is told of a refusal before anything has been fulfilled.
LEMMA TRRefuseRemembered ==
  ASSUME IInv, Remembered, LinkedOriginalsKept, TRRefuse
  PROVE  Remembered'
<1>1. /\ work[TR].pc = "refuse" /\ Done(TR)
      /\ UNCHANGED <<environment, transactions, links, sent>>
      /\ UNCHANGED <<queue, lpsMessages, delivered, transactions, links, sent>>
      /\ TR \in WorkerQueue /\ TR \in {QR, AR, TR}
  BY QueueNames DEF TRRefuse, At, environment
<1>2. /\ "refuse" \notin Searching /\ "refuse" \in Undecided
      /\ "idle" \notin Undecided /\ "idle" \notin BeforeFulfil
  BY DEF Searching, Undecided, BeforeFulfil
<1>3. Moves(TR) /\ work'[TR].pc = "idle"
  BY <1>1, DoneMoves
<1>4. PICK t \in TrxId : t = work[TR].trx
  BY <1>1, <1>2, HubWork
<1> DEFINE h == <<"transferRequest", t>>
<1>5. work[TR].job = h /\ HasDelivered(h)
  BY <1>1, <1>2, <1>4, HubWork, KindNames
<1>6. DeliveredStay /\ Shrinks
  BY <1>1, <1>3, MovesShrink DEF DeliveredStay, HasDelivered
<1>7. CASE UNCHANGED responses
  BY <1>1, <1>7, QuietDone DEF QuietCalls
<1>8. ASSUME NEW m \in Linked(t, "financialRequest"), Respond(m, "invalid")
      PROVE  Remembered'
  <2>1. /\ m \in MsgId /\ <<t, m>> \in links
        /\ lpsMessages[m].type = "financialRequest"
        /\ responses' = responses \cup {<<m, "invalid">>}
    BY <1>8 DEF Linked, Respond
  <2>2. MayAnswer(TR, m)
    BY <1>4, <2>1 DEF MayAnswer
  <2>3. ASSUME Undisturbed
        PROVE  ~Fulfilled(t) /\ Unanswered(t, "financialRequest")
    <3>1. Open(TR, h, Undecided)
      BY <1>1, <1>2, <1>5 DEF Open
    <3> QED
      BY <1>4, <2>3, <3>1 DEF Remembered, VerdictsKnown, TransferOpen
  <2>4. ASSUME Undisturbed
        PROVE  <<m, "approved">> \notin responses
    BY <1>8, <2>3, <2>4 DEF Unanswered, Answered
  <2>5. CausesOf(t)'
    <3>1. CausesOf(t)
      BY <1>4 DEF Remembered, CausesKnown
    <3>2. \A k \in MsgId : <<k, "approved">> \in responses' =>
                             <<k, "approved">> \in responses
      BY <2>1
    <3> QED
      BY <1>1, <1>4, <1>5, <1>6, <3>1, <3>2, CausesGrow DEF Linked
  <2>6. ASSUME Undisturbed
        PROVE  Verdicts(t)'
    <3>1. QuoteOpen(t) /\ AuthorizationOpen(t) /\ TransferOpen(t) /\ RefusalFinal(t)
      BY <1>4, <2>6 DEF Remembered, VerdictsKnown
    <3>2. QuoteOpen(t)' /\ AuthorizationOpen(t)'
      <4>1. \A k \in MsgId :
              lpsMessages[k].type = "authorizationRequest" /\ Answered(k)'
                => Answered(k)
        BY <1>1, <2>1 DEF Answered
      <4> QED
        BY <1>1, <1>4, <1>6, <3>1, <4>1, QuoteSame
    <3>3. TransferOpen(t)'
      <4>1. ~Open(TR, h, Undecided)' /\ ~Open(TR, h, BeforeFulfil)'
        BY <1>1, <1>2, <1>3, <1>5, <2>6, JobClosed
      <4> QED
        BY <4>1 DEF TransferOpen
    <3>4. RefusalFinal(t)'
      <4>1. \A type : Linked(t, type)' = Linked(t, type)
        BY <1>1 DEF Linked
      <4>2. \A k \in Linked(t, "authorizationRequest") \cup Linked(t, "reversalRequest") :
              <<k, "invalid">> \in responses' => <<k, "invalid">> \in responses
        BY <2>1 DEF Linked
      <4>3. /\ HasDelivered(<<"quoteRequest", t>>)' = HasDelivered(<<"quoteRequest", t>>)
            /\ HasDelivered(<<"authorization", t>>)' = HasDelivered(<<"authorization", t>>)
        BY <1>1 DEF HasDelivered
      <4>4. \A k \in Linked(t, "authorizationRequest") :
              <<k, "invalid">> \in responses' =>
                /\ HasDelivered(<<"quoteRequest", t>>)'
                /\ <<"putQuotes", t>> \in sent' => HasDelivered(<<"authorization", t>>)'
        BY <1>1, <3>1, <4>2, <4>3 DEF RefusalFinal
      <4>5. \A k \in Linked(t, "reversalRequest") :
              <<k, "invalid">> \in responses' => ~IsRefund(t)' \/ ErrorTold(t)'
        BY <1>1, <3>1, <4>2 DEF RefusalFinal, IsRefund, ErrorTold, HasDelivered
      <4>6. ~Fulfilled(t)'
        BY <1>1, <2>3, <2>6 DEF Fulfilled
      <4> QED
        BY <4>1, <4>4, <4>5, <4>6 DEF RefusalFinal
    <3> QED
      BY <3>2, <3>3, <3>4 DEF Verdicts
  <2>7. \A u \in TrxId : <<u, m>> \in links => u = t
    BY <1>4, <2>1 DEF Remembered, LinkedOnce
  <2> QED
    BY <1>1, <1>3, <1>8, <2>1, <2>2, <2>4, <2>5, <2>6, <2>7, AnswerRemembered
<1> QED
  BY <1>4, <1>7, <1>8 DEF TRRefuse

\* A transfer is validated and stored, or refused, and its state written.
LEMMA TransferRequestHandlerRemembered ==
  ASSUME IInv, Remembered, LinkedOriginalsKept, TransferRequestHandler
  PROVE  Remembered'
<1> TR \in WorkerQueue /\ TR \notin LegacyQueue /\ TR \in {QR, AR, TR}
  BY QueueNames DEF LegacyQueue, TR
<1>1. CASE TRValidate
  <2>1. /\ work[TR].pc = "start"
        /\ UNCHANGED <<environment, transactions, links, responses>>
    BY <1>1 DEF TRValidate, At
  <2>2. work[TR].job[2] \in TrxId
    BY <2>1, HubTrxOf
  <2>3. ASSUME NEW to \in {"insertTransfer", "putTransfersError"},
               NEW n \in {1}, NEW s \in {{}}, Begin(TR, to, work[TR].job[2], n, s),
               UNCHANGED sent
        PROVE  Remembered'
    <3>1. n \in 0..MaxDeliver /\ s \in SUBSET Seen /\ Forward(TR, "start", to)
      BY BoundsAssumption, AllForward
    <3>2. QuietCalls
      BY <2>3 DEF QuietCalls
    <3> QED
      BY <2>1, <2>2, <2>3, <3>1, <3>2, QuietBegin
  <2>4. CASE /\ sent' = sent \cup {<<"putTransfersError", <<work[TR].job[2], 1>>>>}
             /\ Done(TR)
    <3>1. Moves(TR) /\ work'[TR].pc = "idle"
      BY <2>1, <2>4, DoneMoves
    <3> QED
      BY <2>1, <2>4, <3>1, RefusalSent DEF Undecided, BeforeFulfil
  <2> QED
    BY <1>1, <2>3, <2>4 DEF TRValidate
<1>2. CASE TRInsertTransfer
  <2>1. /\ work[TR].pc = "insertTransfer"
        /\ UNCHANGED <<environment, transactions, links, responses>>
    BY <1>2 DEF TRInsertTransfer, At
  <2>2. CASE Goto(TR, "putTransfers") /\ UNCHANGED sent
    BY <2>1, <2>2, AllForward, QuietGoto DEF QuietCalls, Searching
  <2>3. CASE /\ sent' = sent \cup {<<"putTransfersError", WorkTransfer(TR)>>}
             /\ Done(TR)
    <3>1. Moves(TR) /\ work'[TR].pc = "idle"
      BY <2>1, <2>3, DoneMoves
    <3>2. WorkTransfer(TR) = <<work[TR].job[2], 1>>
      BY <2>1, OwnTransfer DEF Searching
    <3> QED
      BY <2>1, <2>3, <3>1, <3>2, RefusalSent DEF Undecided, BeforeFulfil
  <2> QED
    BY <1>2, <2>2, <2>3 DEF TRInsertTransfer
<1>3. CASE TRUpdateState
  <2>1. /\ work[TR].pc = "updateState" /\ Goto(TR, "updateTransfer")
        /\ UNCHANGED <<environment, links, sent, responses>>
    BY <1>3 DEF TRUpdateState, At, outputs
  <2> QED
    BY <2>1, AllForward, QuietGoto DEF QuietCalls, Searching
<1>4. CASE TRUpdateTransfer
  <2>1. /\ work[TR].pc # "idle" /\ Done(TR)
        /\ UNCHANGED <<environment, links, sent, responses>>
    BY <1>4 DEF TRUpdateTransfer, At, outputs
  <2> QED
    BY <2>1, QuietDone DEF QuietCalls
<1>5. CASE TRPutTransfersError
  <2>1. /\ work[TR].pc = "putTransfersError" /\ Goto(TR, "refuse")
        /\ sent' = sent \cup {Calling(TR)}
        /\ UNCHANGED <<environment, transactions, links, responses>>
    BY <1>5 DEF TRPutTransfersError, Call, At
  <2>2. Moves(TR) /\ work'[TR].pc = "refuse"
    BY <2>1, AllForward, GotoMoves DEF Searching, Forward
  <2>3. Calling(TR) = <<"putTransfersError", <<work[TR].job[2], 1>>>>
    BY <2>1, OwnTransfer DEF Calling, TransferCall, Searching
  <2> QED
    BY <2>1, <2>2, <2>3, RefusalSent DEF Undecided, BeforeFulfil
<1>6. CASE TRThrow
  <2>1. Throw(TR, {<<"putTransfersError", <<work[TR].job[2], 1>>>>}, {})
    BY <1>6 DEF TRThrow
  <2>2. HasDelivered(<<"transferRequest", work[TR].job[2]>>)
    BY <2>1, HubJobIs, KindNames DEF Throw, At
  <2>3. HasCause(<<"putTransfersError", <<work[TR].job[2], 1>>>>)
    BY <2>2 DEF HasCause
  <2> QED
    BY <2>1, <2>3, ThrowRemembered
<1> QED
  BY <1>1, <1>2, <1>3, <1>4, <1>5, <1>6, TRPutTransfersRemembered,
     TRRefuseRemembered
  DEF TransferRequestHandler

-----------------------------------------------------------------------------
(* Errors the hub reports. *)

\* The error in a quote is about a refund.
LEMMA QuoteErrorCalls ==
  ASSUME IInv, NEW t \in TrxId, HasDelivered(<<"quoteError", t>>)
  PROVE  Refund(t)
<1>1. <<"quoteError", t>> \in HubMessage
  BY DEF HubMessage, AboutTransaction
<1>2. PromptedBy(<<"quoteError", t>>) = {<<"postQuotes", t>>}
  BY DEF PromptedBy
<1>3. <<"postQuotes", t>> \in sent
  BY <1>1, <1>2 DEF IInv, DeliveredOK
<1> QED
  BY <1>3 DEF IInv, SentOK

\* The error in a transfer is about one the adaptor has made or fulfilled.
LEMMA TransferErrorCalls ==
  ASSUME IInv, NEW t \in TrxId, NEW n \in 1..MaxDeliver,
         HasDelivered(<<"transferError", <<t, n>>>>)
  PROVE  \/ Withdrawal(t) /\ <<"putTransfers", <<t, n>>>> \in sent
         \/ Refund(t) /\ Paid(t, n)
<1>1. PICK x \in TransferId : x = <<t, n>>
  BY DEF TransferId
<1>2. <<"transferError", x>> \in HubMessage
  BY DEF HubMessage, AboutTransfer
<1>3. PromptedBy(<<"transferError", x>>)
        = {<<"putTransfers", x>>, <<"postTransfers", x>>}
  BY DEF PromptedBy
<1>4. <<"putTransfers", x>> \in sent \/ <<"postTransfers", x>> \in sent
  BY <1>1, <1>2, <1>3 DEF IInv, DeliveredOK
<1>5. x[1] = t
  BY <1>1
<1> QED
  BY <1>1, <1>4, <1>5 DEF IInv, SentOK, Paid

\* The hub reports no error about a transaction it has committed a transfer
\* for, which is the only one.
LEMMA CommittedHasNoError ==
  ASSUME IInv, TransfersOnce, Undisturbed, NEW t \in TrxId,
         NEW n \in 1..MaxDeliver, Committed(<<t, n>>)
  PROVE  ~ErrorTold(t)
<1>1. PICK x \in TransferId : x = <<t, n>>
  BY DEF TransferId
<1>2. x[1] = t /\ x[2] = n /\ Committed(x)
  BY <1>1
<1>3. /\ Withdrawal(t) => <<"putTransfers", x>> \in sent
      /\ Refund(t) => Paid(t, n)
  BY <1>1, <1>2, CommittedCalls DEF Paid
<1>4. PaidOnce(t)
  BY DEF TransfersOnce
<1>5. ASSUME HasDelivered(<<"quoteError", t>>)
      PROVE  FALSE
  <2>1. HasDelivered(<<"quoteResponse", t>>)
    BY <1>3, <1>4, <1>5, QuoteErrorCalls DEF PaidOnce
  <2> QED
    BY <1>5, <2>1 DEF TransfersOnce, HubConsistent
<1>6. ASSUME NEW k \in 1..MaxDeliver,
             HasDelivered(<<"transferError", <<t, k>>>>)
      PROVE  FALSE
  <2>1. PICK y \in TransferId : y = <<t, k>>
    BY DEF TransferId
  <2>2. y[1] = t /\ y[2] = k
    BY <2>1
  <2>3. \/ Withdrawal(t) /\ <<"putTransfers", y>> \in sent
        \/ Refund(t) /\ Paid(t, k)
    BY <1>6, <2>1, TransferErrorCalls
  <2>4. k = n
    <3>1. CASE Refund(t) /\ Paid(t, k)
      BY <1>3, <1>4, <3>1 DEF PaidOnce
    <3>2. CASE Withdrawal(t) /\ <<"putTransfers", y>> \in sent
      BY <1>2, <1>3, <2>2, <3>2 DEF TransfersOnce
    <3> QED
      BY <2>3, <3>1, <3>2
  <2>5. HasDelivered(<<"transferError", x>>)
    BY <1>1, <1>6, <2>4
  <2> QED
    BY <1>2, <2>5 DEF TransfersOnce, HubConsistent, Committed
<1> QED
  BY <1>5, <1>6 DEF ErrorTold

\* The terminal is told of a commitment: nobody has told it otherwise.
LEMMA TXApproveRemembered ==
  ASSUME IInv, Remembered, TransfersOnce, LinkedOriginalsKept,
         TXApprove
  PROVE  Remembered'
<1>1. /\ work[TX].pc = "approve"
      /\ UNCHANGED <<environment, transactions, links, sent>>
      /\ UNCHANGED <<queue, lpsMessages, delivered, transactions, links, sent>>
      /\ TX \in WorkerQueue /\ TX \notin LegacyQueue /\ TX \notin {QR, AR, TR}
      /\ TX # LR
  BY QueueNames DEF TXApprove, At, environment, LegacyQueue, TX, QR, AR, TR, LR
<1>2. "approve" \notin Searching /\ "updateState" \notin Searching
  BY DEF Searching
<1>3. PICK t \in TrxId, n \in 1..MaxDeliver :
        /\ t = work[TX].trx /\ n = work[TX].nth
        /\ Committed(<<t, n>>) /\ <<t, n>> \in TransferId
  BY <1>1, <1>2 DEF IInv, Knowledge, KnowsTX, WorkTransfer, TransferId
<1>4. CASE UNCHANGED responses /\ Done(TX)
  BY <1>1, <1>4, QuietDone DEF QuietCalls
<1>5. ASSUME NEW m \in Linked(t, IF IsRefund(t) THEN "reversalRequest"
                                             ELSE "financialRequest"),
             Respond(m, "approved"), Goto(TX, "updateState")
      PROVE  Remembered'
  <2>1. /\ m \in MsgId /\ <<t, m>> \in links
        /\ lpsMessages[m].type = IF IsRefund(t) THEN "reversalRequest"
                                                ELSE "financialRequest"
        /\ responses' = responses \cup {<<m, "approved">>}
    BY <1>5 DEF Linked, Respond
  <2>2. Moves(TX)
    BY <1>1, <1>2, <1>5, AllForward, GotoMoves DEF Forward
  <2>3. DeliveredStay /\ Shrinks
    BY <1>1, <2>2, MovesShrink DEF DeliveredStay, HasDelivered
  <2>4. MayAnswer(TX, m)
    BY <2>1 DEF MayAnswer
  <2>5. \A r \in {"approved", "invalid"} \ {"approved"} : r = "invalid"
    OBVIOUS
  <2>6. CASE IsRefund(t)
    <3>1. lpsMessages[m].type = "reversalRequest"
      BY <2>1, <2>6
    <3>2. Undisturbed => <<m, "invalid">> \notin responses
      BY <1>3, <2>1, <2>6, <3>1, CommittedHasNoError DEF Remembered, VerdictsKnown, RefusalFinal, Linked
    <3> QED
      BY <1>1, <1>5, <2>1, <2>2, <2>4, <2>5, <3>1, <3>2, AnswerRemembered
  <2>7. CASE ~IsRefund(t)
    <3>1. lpsMessages[m].type = "financialRequest" /\ Withdrawal(t)
      BY <2>1, <2>7 DEF IInv, LinksOK, Withdrawal
    <3>2. Fulfilled(t)
      BY <1>3, <3>1, CommittedCalls DEF Fulfilled
    <3>3. ASSUME Undisturbed
          PROVE  Verdicts(t) /\ <<m, "invalid">> \notin responses
      <4>1. Verdicts(t)
        BY <3>3 DEF Remembered, VerdictsKnown, Verdicts
      <4> QED
        BY <1>3, <2>1, <3>1, <3>2, <3>3, <4>1, CommittedHasNoError
        DEF Verdicts, RefusalFinal, Linked
    <3>4. CausesOf(t)'
      <4>1. CausesOf(t)
        BY DEF Remembered, CausesKnown
      <4>2. \A k \in MsgId : <<k, "invalid">> \in responses' =>
                               <<k, "invalid">> \in responses
        BY <2>1
      <4>3. \A k \in MsgId : lpsMessages[k].type = "authorizationRequest"
                               /\ <<k, "approved">> \in responses' =>
                                 <<k, "approved">> \in responses
        BY <2>1, <3>1
      <4> QED
        BY <1>1, <2>3, <4>1, <4>2, <4>3, CausesGrow DEF Linked
    <3>5. ASSUME Undisturbed
          PROVE  Verdicts(t)'
      <4>1. QuoteOpen(t) /\ AuthorizationOpen(t) /\ TransferOpen(t) /\ RefusalFinal(t)
        BY <3>3, <3>5 DEF Verdicts
      <4>2. QuoteOpen(t)' /\ AuthorizationOpen(t)'
        <5>1. \A k \in MsgId :
                lpsMessages[k].type = "authorizationRequest" /\ Answered(k)'
                  => Answered(k)
          BY <1>1, <2>1, <3>1 DEF Answered
        <5> QED
          BY <1>1, <2>3, <4>1, <5>1, QuoteSame
      <4>3. Fulfilled(t)' = Fulfilled(t) /\ Refused(t)' = Refused(t)
        BY <1>1 DEF Fulfilled, Refused
      <4>4. TransferOpen(t)'
        BY <2>3, <3>2, <4>1, <4>3 DEF TransferOpen, Shrinks
      <4>5. RefusalFinal(t)'
        <5>1. \A type : Linked(t, type)' = Linked(t, type)
          BY <1>1 DEF Linked
        <5>2. \A k \in MsgId :
                <<k, "invalid">> \in responses' => <<k, "invalid">> \in responses
          BY <2>1
        <5>3. /\ HasDelivered(<<"quoteRequest", t>>)' = HasDelivered(<<"quoteRequest", t>>)
              /\ HasDelivered(<<"authorization", t>>)' = HasDelivered(<<"authorization", t>>)
          BY <1>1 DEF HasDelivered
        <5>4. /\ \A k \in Linked(t, "authorizationRequest") : k \in MsgId
              /\ \A k \in Linked(t, "reversalRequest") : k \in MsgId
              /\ \A k \in Linked(t, "financialRequest") : k \in MsgId
          BY DEF Linked
        <5>5. \A k \in Linked(t, "authorizationRequest") :
                <<k, "invalid">> \in responses' =>
                  /\ HasDelivered(<<"quoteRequest", t>>)'
                  /\ <<"putQuotes", t>> \in sent' => HasDelivered(<<"authorization", t>>)'
          BY <1>1, <4>1, <5>2, <5>3, <5>4 DEF RefusalFinal
        <5>6. \A k \in Linked(t, "reversalRequest") :
                <<k, "invalid">> \in responses' => ~IsRefund(t)' \/ ErrorTold(t)'
          BY <2>3, <1>1, <4>1, <5>2, <5>4, ErrorStays DEF RefusalFinal, IsRefund
        <5>7. \A k \in Linked(t, "financialRequest") :
                <<k, "invalid">> \in responses' => ~Fulfilled(t)' \/ ErrorTold(t)'
          BY <2>3, <4>1, <4>3, <5>2, <5>4, ErrorStays DEF RefusalFinal
        <5>8. ~(Fulfilled(t)' /\ Refused(t)')
          BY <4>1, <4>3 DEF RefusalFinal
        <5> QED
          BY <5>1, <5>5, <5>6, <5>7, <5>8 DEF RefusalFinal
      <4> QED
        BY <4>2, <4>4, <4>5 DEF Verdicts
    <3>6. \A u \in TrxId : <<u, m>> \in links => u = t
      BY <2>1, <3>1 DEF Remembered, LinkedOnce
    <3> QED
      BY <1>1, <1>5, <2>1, <2>2, <2>4, <2>5, <3>3, <3>4, <3>5, <3>6,
         AnswerRemembered
  <2> QED
    BY <2>6, <2>7
<1> QED
  BY <1>3, <1>4, <1>5 DEF TXApprove

\* transferResponseHandler
LEMMA TransferResponseHandlerRemembered ==
  ASSUME IInv, Remembered, TransfersOnce, LinkedOriginalsKept,
         TransferResponseHandler
  PROVE  Remembered'
<1> TX \in WorkerQueue /\ TX \notin {QR, AR, TR}
  BY QueueNames DEF TX, QR, AR, TR
<1>1. CASE TXRead
  <2>1. /\ work[TX].pc = "start" /\ QuietCalls
        /\ UNCHANGED <<environment, links, responses>>
    BY <1>1 DEF TXRead, At, outputs, QuietCalls
  <2>2. CASE Done(TX)
    BY <2>1, <2>2, QuietDone
  <2>3. ASSUME work[TX].job[1] = "committed", NEW s \in {{}},
               Begin(TX, "approve", work[TX].job[2][1], work[TX].job[2][2], s)
        PROVE  Remembered'
    <3>1. work[TX].job[2] \in TransferId
      BY <2>1, <2>3, QueueNames
      DEF IInv, WorkersOK, WorkerOK, Justified, HubMessage, AboutTransaction,
          AboutTransfer, QueueOf, TX, LegacyQueue
    <3>2. PICK t \in TrxId, n \in 1..MaxDeliver : work[TX].job[2] = <<t, n>>
      BY <3>1 DEF TransferId
    <3>3. /\ Begin(TX, "approve", t, n, s) /\ n \in 0..MaxDeliver
          /\ s \in SUBSET Seen /\ Forward(TX, "start", "approve")
      BY <2>3, <3>2, BoundsAssumption, AllForward
    <3> QED
      BY <2>1, <3>3, QuietBegin
  <2> QED
    BY <1>1, <2>2, <2>3 DEF TXRead
<1>2. CASE TXUpdateState
  <2>1. /\ work[TX].pc = "updateState" /\ Goto(TX, "updateTransfer")
        /\ UNCHANGED <<environment, links, sent, responses>>
    BY <1>2 DEF TXUpdateState, At, outputs
  <2> QED
    BY <2>1, AllForward, QuietGoto DEF QuietCalls, Searching
<1>3. CASE TXUpdateTransfer
  <2>1. /\ work[TX].pc # "idle" /\ Done(TX)
        /\ UNCHANGED <<environment, links, sent, responses>>
    BY <1>3 DEF TXUpdateTransfer, At, outputs
  <2> QED
    BY <2>1, QuietDone DEF QuietCalls
<1>4. CASE TXThrow
  BY <1>4, QuietThrow DEF TXThrow
<1> QED
  BY <1>1, <1>2, <1>3, <1>4, TXApproveRemembered DEF TransferResponseHandler

-----------------------------------------------------------------------------
(* The handlers of ReversalFlow. *)

\* A reversal advice that finds nothing is answered, which nobody has done.
LEMMA LRFindRemembered ==
  ASSUME IInv, Remembered, LinkedOriginalsKept, LRFind
  PROVE  Remembered'
<1>1. /\ work[LR].pc = "find" /\ LR \in LegacyQueue /\ LR \in WorkerQueue
      /\ LR \notin {QR, AR, TR}
      /\ UNCHANGED <<environment, transactions, links, sent>>
  BY QueueNames DEF LRFind, At, LR, QR, AR, TR
<1>2. PICK m \in MsgId : m = JobMessage(LR)
  BY <1>1, MessageOf
<1>3. CASE Respond(m, "invalid") /\ Done(LR)
  <2>1. Moves(LR) /\ work'[LR].pc = "idle"
    BY <1>1, <1>3, DoneMoves
  <2>2. Untouched(m)
    BY <1>1, <1>2 DEF Remembered, LegacyJobsFresh, BeforeLink
  <2>3. \A v \in {"approved", "invalid"} \ {"invalid"} : <<m, v>> \notin responses
    BY <2>2 DEF Untouched, Answered
  <2>4. \A t \in TrxId : <<t, m>> \notin links
    BY <2>2 DEF Untouched
  <2>5. MayAnswer(LR, m)
    BY <1>1, <1>2, <2>1 DEF MayAnswer
  <2> QED
    BY <1>1, <1>3, <2>1, <2>3, <2>4, <2>5, AnswerRemembered
<1>4. ASSUME UNCHANGED responses, NEW t \in TrxId, NEW n \in 0..MaxDeliver,
             NEW s \in SUBSET Seen, Begin(LR, "relate", t, n, s)
      PROVE  Remembered'
  BY <1>1, <1>4, AllForward, QuietBegin DEF QuietCalls
<1>5. CASE ~(Respond(m, "invalid") /\ Done(LR))
  <2>1. PICK t \in TrxId :
          LET mine == {n \in 1..MaxDeliver : transfers[<<t, n>>] # "none"}
              live == IF quotes[t] = "live" THEN {"live"} ELSE {} IN
          /\ \/ mine = {} /\ Begin(LR, "relate", t, 0, live)
             \/ \E n \in mine :
                  Begin(LR, "relate", t, n,
                        live \cup IF transfers[<<t, n>>] = "COMMITTED"
                                    THEN {"committed"} ELSE {})
          /\ UNCHANGED responses
    BY <1>2, <1>5 DEF LRFind
  <2> DEFINE live == IF quotes[t] = "live" THEN {"live"} ELSE {}
             seen(n) == live \cup IF transfers[<<t, n>>] = "COMMITTED"
                                    THEN {"committed"} ELSE {}
  <2>2. live \in SUBSET Seen /\ \A n : seen(n) \in SUBSET Seen
    BY DEF Seen
  <2>3. \/ Begin(LR, "relate", t, 0, live)
        \/ \E n \in 1..MaxDeliver : Begin(LR, "relate", t, n, seen(n))
    BY <2>1
  <2> HIDE DEF live, seen
  <2>4. 0 \in 0..MaxDeliver /\ \A n \in 1..MaxDeliver : n \in 0..MaxDeliver
    BY BoundsAssumption
  <2> QED
    BY <1>4, <2>1, <2>2, <2>3, <2>4
<1> QED
  BY <1>3, <1>5, <1>2

\* An advice that has no refund yet gets one.
LEMMA LRRelateRefundRemembered ==
  ASSUME IInv, Remembered, LRRelateRefund
  PROVE  Remembered'
<1>1. /\ work[LR].pc = "relateRefund" /\ LR \in LegacyQueue /\ LR \in WorkerQueue
      /\ Relate(work[LR].trx, JobMessage(LR)) /\ Goto(LR, "insertQuote")
      /\ UNCHANGED <<environment, transactions, outputs>>
  BY QueueNames DEF LRRelateRefund, At, LR
<1>2. PICK m \in MsgId : m = JobMessage(LR) /\ lpsMessages[m].type = "reversalRequest"
  BY <1>1, MessageOf
<1>3. PICK t \in TrxId : t = work[LR].trx
  BY <1>1, TrxOf DEF Searching
<1>4. Moves(LR) /\ work'[LR].pc = "insertQuote"
  BY <1>1, AllForward, GotoMoves DEF Searching, Forward
<1>5. Unrefunded(m)
  BY <1>1, <1>2 DEF Remembered, LegacyJobsFresh, BeforeRefund
<1>6. MayLink(LR, t, m)
  BY <1>1, <1>2, <1>4 DEF MayLink, BeforeLink, BeforeRefund
<1>7. links' = links \cup {<<t, m>>}
  BY <1>1, <1>2, <1>3 DEF Relate
<1> QED
  BY <1>1, <1>2, <1>4, <1>5, <1>6, <1>7, LinkRemembered DEF Unrefunded

\* legacyReversalHandler
LEMMA LegacyReversalHandlerRemembered ==
  ASSUME IInv, Remembered, LinkedOriginalsKept, LegacyReversalHandler
  PROVE  Remembered'
<1> LR \in WorkerQueue /\ LR \in LegacyQueue /\ LR \notin {QR, AR, TR}
  BY QueueNames DEF LR, QR, AR, TR
<1>1. CASE LRCheckReplay
  <2>1. /\ work[LR].pc = "start" /\ QuietCalls
        /\ UNCHANGED <<environment, links, responses>>
    BY <1>1 DEF LRCheckReplay, At, outputs, QuietCalls
  <2>2. Done(LR) \/ Goto(LR, "find")
    BY <1>1 DEF LRCheckReplay
  <2> QED
    BY <2>1, <2>2, AllForward, QuietGoto, QuietDone DEF Searching
<1>2. CASE LRRelate
  <2>1. "cancel" \notin BeforeLink \cup Searching
    BY DEF BeforeLink, Searching
  <2>2. ~IsRefund(work[LR].trx)
    BY <1>2 DEF LRRelate, At, IInv, Knowledge, KnowsLR, Withdrawal
  <2> QED
    BY <1>2, <2>1, <2>2, AllForward, RelateRemembered DEF LRRelate, At
<1>3. CASE LRCancel
  <2>1. /\ work[LR].pc = "cancel" /\ QuietCalls
        /\ UNCHANGED <<environment, links, responses>>
    BY <1>3 DEF LRCancel, At, outputs, QuietCalls
  <2>2. Goto(LR, "expireQuote") \/ Goto(LR, "insertRefund") \/ Done(LR)
    BY <1>3 DEF LRCancel, LRRefundOrDone
  <2> QED
    BY <2>1, <2>2, AllForward, QuietGoto, QuietDone DEF Searching
<1>4. CASE LRExpireQuote
  <2>1. /\ work[LR].pc = "expireQuote" /\ QuietCalls
        /\ UNCHANGED <<environment, links, responses>>
    BY <1>4 DEF LRExpireQuote, At, outputs, QuietCalls
  <2>2. Goto(LR, "insertRefund") \/ Done(LR)
    BY <1>4 DEF LRExpireQuote, LRRefundOrDone
  <2> QED
    BY <2>1, <2>2, AllForward, QuietGoto, QuietDone DEF Searching
<1>5. CASE LRInsertRefund
  <2>1. /\ work[LR].pc = "insertRefund" /\ QuietCalls
        /\ UNCHANGED <<environment, links, responses>>
    BY <1>5 DEF LRInsertRefund, At, outputs, QuietCalls
  <2>2. PICK t \in NextTrx : Begin(LR, "relateRefund", t, 0, {})
    BY <1>5 DEF LRInsertRefund
  <2>3. t \in TrxId
    BY DEF NextTrx
  <2>4. ASSUME NEW n \in {0}, NEW s \in {{}}, Begin(LR, "relateRefund", t, n, s)
        PROVE  Remembered'
    <3>1. n \in 0..MaxDeliver /\ s \in SUBSET Seen
      BY BoundsAssumption
    <3> QED
      BY <2>1, <2>3, <2>4, <3>1, AllForward, QuietBegin
  <2> QED
    BY <2>2, <2>4
<1>6. CASE LRInsertQuote
  <2>1. /\ work[LR].pc = "insertQuote" /\ Goto(LR, "postQuotes") /\ QuietCalls
        /\ UNCHANGED <<environment, links, responses>>
    BY <1>6 DEF LRInsertQuote, At, outputs, QuietCalls
  <2> QED
    BY <2>1, AllForward, QuietGoto DEF Searching
<1>7. CASE LRPostQuotes
  <2>1. /\ work[LR].pc # "idle" /\ Done(LR)
        /\ UNCHANGED <<environment, links, responses>>
    BY <1>7 DEF LRPostQuotes, Call, At
  <2>2. QuietCalls
    BY <1>7, QuietCall DEF LRPostQuotes, Telling
  <2> QED
    BY <2>1, <2>2, QuietDone
<1>8. CASE LRThrow
  BY <1>8, ThrowRemembered DEF LRThrow
<1> QED
  BY <1>1, <1>2, <1>3, <1>4, <1>5, <1>6, <1>7, <1>8, LRFindRemembered,
     LRRelateRefundRemembered
  DEF LegacyReversalHandler

\* quoteResponseHandler
LEMMA QuoteResponseHandlerRemembered ==
  ASSUME IInv, Remembered, LinkedOriginalsKept, QuoteResponseHandler
  PROVE  Remembered'
<1> QX \in WorkerQueue /\ QX \notin {QR, AR, TR}
  BY QueueNames DEF QX, QR, AR, TR
<1>1. CASE QXUpdateQuote
  <2>1. /\ work[QX].pc = "start" /\ QuietCalls
        /\ UNCHANGED <<environment, links, responses>>
    BY <1>1 DEF QXUpdateQuote, At, outputs, QuietCalls
  <2>2. PICK T \in SUBSET TrxId :
          Done(QX) \/ \E t \in T : Begin(QX, "insertTransfer", t, 0, {})
    <3>1. {work[QX].job[2]} \in SUBSET TrxId
      BY <2>1, HubTrxOf
    <3>2. \/ Done(QX)
          \/ Begin(QX, "insertTransfer", work[QX].job[2], 0, {})
      BY <1>1 DEF QXUpdateQuote
    <3> QED
      BY <3>1, <3>2
  <2> QED
    BY <2>1, <2>2, AllForward, LookRemembered
<1>2. CASE QXInsertTransfer
  <2>1. /\ work[QX].pc = "insertTransfer" /\ QuietCalls
        /\ UNCHANGED <<environment, links, responses>>
    BY <1>2 DEF QXInsertTransfer, At, outputs, QuietCalls
  <2>2. PICK n \in 1..MaxDeliver :
          Begin(QX, "postTransfers", work[QX].trx, n, {})
    BY <1>2 DEF QXInsertTransfer
  <2>3. work[QX].trx \in TrxId
    BY <2>1, TrxOf DEF Searching
  <2>4. ASSUME NEW s \in {{}}, Begin(QX, "postTransfers", work[QX].trx, n, s)
        PROVE  Remembered'
    <3>1. n \in 0..MaxDeliver /\ s \in SUBSET Seen
      BY BoundsAssumption
    <3> QED
      BY <2>1, <2>3, <2>4, <3>1, AllForward, QuietBegin
  <2> QED
    BY <2>2, <2>4
<1>3. CASE QXPostTransfers
  <2>1. /\ work[QX].pc # "idle" /\ Done(QX)
        /\ UNCHANGED <<environment, links, responses>>
    BY <1>3 DEF QXPostTransfers, Call, At
  <2>2. QuietCalls
    BY <1>3, QuietCall DEF QXPostTransfers, Telling
  <2> QED
    BY <2>1, <2>2, QuietDone
<1>4. CASE QXThrow
  BY <1>4, QuietThrow DEF QXThrow
<1> QED
  BY <1>1, <1>2, <1>3, <1>4 DEF QuoteResponseHandler

-----------------------------------------------------------------------------
(* Steps in which no handler runs. *)

\* What is left to prove of a step that tells nobody anything and opens nothing.
LEMMA SilenceRemembered ==
  ASSUME Remembered, LinkedOriginalsKept, Shrinks, Undisturbed' => Undisturbed,
         JobsOnce', LegacyJobsFresh', OwnTransaction',
         UNCHANGED <<lpsMessages, links, sent, responses, delivered>>
  PROVE  Remembered'
<1>1. DeliveredStay
  BY DEF DeliveredStay, HasDelivered
<1>2. \A t \in TrxId : NothingNew(t)
  BY DEF NothingNew, LinkedOriginalsKept, Fulfilled, Refused
<1>3. LinkedOnce'
  BY LinkedSame
<1>4. CausesKnown'
  BY <1>1, <1>2, CausesSame DEF Remembered, CausesKnown
<1>5. VerdictsKnown'
  <2>1. ASSUME Undisturbed', NEW t \in TrxId
        PROVE  Verdicts(t)'
    <3>1. Verdicts(t)
      BY <2>1 DEF Remembered, VerdictsKnown, Verdicts
    <3> QED
      BY <1>1, <1>2, <3>1, VerdictsSame
  <2> QED
    BY <2>1 DEF VerdictsKnown, Verdicts
<1>6. OneVerdict'
  BY DEF Remembered, OneVerdict
<1> QED
  BY <1>3, <1>4, <1>5, <1>6 DEF Remembered

\* The head of a queue is not on its tail, nor is anything there twice.
LEMMA TailOnce ==
  ASSUME NEW S, NEW s \in Seq(S), s # <<>>,
         \A i, j \in 1..Len(s) : s[i] = s[j] => i = j
  PROVE  /\ \A i, j \in 1..Len(Tail(s)) : Tail(s)[i] = Tail(s)[j] => i = j
         /\ \A i \in 1..Len(Tail(s)) : Tail(s)[i] # s[1]
<1>1. ASSUME NEW i \in 1..Len(Tail(s))
      PROVE  /\ i + 1 \in 1..Len(s) /\ Tail(s)[i] = s[i + 1]
             /\ i + 1 # 1 /\ 1 \in 1..Len(s)
  BY <1>1, TailElements
<1>2. ASSUME NEW i \in 1..Len(Tail(s)), NEW j \in 1..Len(Tail(s)),
             Tail(s)[i] = Tail(s)[j]
      PROVE  i = j
  <2>1. i + 1 = j + 1
    BY <1>1, <1>2
  <2> QED
    BY <2>1
<1> QED
  BY <1>1, <1>2

\* A worker that takes a job opens nothing that did not wait.
LEMMA TakeOpens ==
  ASSUME IInv, NEW q \in WorkerQueue, Take(q)
  PROVE  /\ \A p \in WorkerQueue : \A j : Waits(p, j)' => Waits(p, j)
         /\ Waits(q, work'[q].job)
         /\ \A p \in WorkerQueue : \A h, steps :
              Open(p, h, steps)' => Open(p, h, steps)
<1>1. /\ Only(q)
      /\ work'[q].pc = "start" /\ work'[q].job = queue[q][1]
      /\ queue[q] # <<>> /\ queue'[q] = Tail(queue[q])
      /\ \A p \in Queue : p # q => queue'[p] = queue[p]
  BY TakeWork DEF IInv
<1>3. /\ q \in Queue /\ queue[q] \in Seq(Job)
      /\ \A p \in WorkerQueue : p \in Queue
  BY DEF IInv, TypeOK, Queue, WorkerQueue
<1>4. 1 \in 1..Len(queue[q])
  BY <1>1, <1>3
<1>5. ASSUME NEW p \in WorkerQueue, NEW j, Waits(p, j)'
      PROVE  Waits(p, j)
  <2>1. CASE p = q
    <3>1. PICK i \in 1..Len(Tail(queue[q])) : Tail(queue[q])[i] = j
      BY <1>1, <1>5, <2>1 DEF Waits
    <3>2. i + 1 \in 1..Len(queue[q]) /\ queue[q][i + 1] = j
      BY <1>1, <1>3, <3>1, TailElements
    <3> QED
      BY <2>1, <3>2 DEF Waits
  <2>2. CASE p # q
    BY <1>1, <1>3, <1>5, <2>2 DEF Waits
  <2> QED
    BY <2>1, <2>2
<1>6. Waits(q, work'[q].job)
  BY <1>1, <1>4 DEF Waits
<1>7. ASSUME NEW p \in WorkerQueue, NEW h, NEW steps, Open(p, h, steps)'
      PROVE  Open(p, h, steps)
  BY <1>1, <1>5, <1>6, <1>7 DEF Open, Only
<1> QED
  BY <1>5, <1>6, <1>7

\* A worker takes a job that waits nowhere else.
LEMMA TakeRemembered ==
  ASSUME IInv, Remembered, LinkedOriginalsKept, NEW q \in WorkerQueue, Take(q)
  PROVE  Remembered'
<1>1. /\ Only(q)
      /\ work'[q].pc = "start" /\ work'[q].job = queue[q][1]
      /\ queue[q] # <<>> /\ queue'[q] = Tail(queue[q])
      /\ \A p \in Queue : p # q => queue'[p] = queue[p]
  BY TakeWork DEF IInv
<1>2. UNCHANGED <<lpsMessages, transactions, links, sent, responses, delivered,
                  budget>>
  BY DEF Take, tables, outputs
<1>3. /\ q \in Queue /\ queue[q] \in Seq(Job)
      /\ \A p \in WorkerQueue : p \in Queue
      /\ WorkerQueue \cap LegacyQueue = LegacyQueue
  BY DEF IInv, TypeOK, Queue, WorkerQueue
<1>4. 1 \in 1..Len(queue[q])
  BY <1>1, <1>3
<1>5. /\ \A p \in WorkerQueue : \A j : Waits(p, j)' => Waits(p, j)
      /\ Waits(q, work'[q].job)
  BY TakeOpens
<1>7. JobsOnce'
  <2>1. SUFFICES ASSUME NEW p \in WorkerQueue, ServedOnce(p)
                 PROVE  ServedOnce(p)'
    BY <1>2 DEF Remembered, JobsOnce, Undisturbed
  <2>2. CASE p = q
    <3>1. \A i, j \in 1..Len(queue[q]) : queue[q][i] = queue[q][j] => i = j
      BY <2>1, <2>2 DEF ServedOnce
    <3>2. /\ \A i, j \in 1..Len(queue'[q]) : queue'[q][i] = queue'[q][j] => i = j
          /\ \A i \in 1..Len(queue'[q]) : queue'[q][i] # queue[q][1]
      BY <1>1, <1>3, <3>1, TailOnce
    <3> QED
      BY <1>1, <2>2, <3>2 DEF ServedOnce, Waits
  <2>3. CASE p # q
    BY <1>1, <1>3, <2>1, <2>3 DEF ServedOnce, Waits, Only
  <2> QED
    BY <2>2, <2>3
<1>8. LegacyJobsFresh'
  <2>1. \A m \in MsgId : (Untouched(m) => Untouched(m)') /\ (Unrefunded(m) => Unrefunded(m)')
    BY <1>2 DEF Untouched, Unrefunded, Answered, IsRefund
  <2>2. ASSUME NEW p \in LegacyQueue
        PROVE  /\ \A m \in MsgId : Waits(p, <<"lps", m>>)' => Untouched(m)'
               /\ work'[p].pc \in BeforeLink => Untouched(JobMessage(p))'
    <3>1. p \in WorkerQueue
      BY <1>3
    <3>2. \A m \in MsgId : Waits(p, <<"lps", m>>)' => Untouched(m)'
      BY <1>5, <2>1, <3>1 DEF Remembered, LegacyJobsFresh
    <3>3. CASE p = q
      <4>1. Justified(q, queue[q][1])
        BY <1>3, <1>4 DEF IInv, QueuesOK
      <4>2. queue[q][1] \in LpsJob
        BY <2>2, <3>3, <4>1 DEF Justified
      <4>3. PICK m \in MsgId : work'[q].job = <<"lps", m>>
        BY <1>1, <4>2 DEF LpsJob
      <4>4. Untouched(m)'
        BY <1>5, <2>1, <2>2, <3>3, <4>3 DEF Remembered, LegacyJobsFresh
      <4> QED
        BY <3>2, <3>3, <4>3, <4>4 DEF JobMessage, Untouched, Answered
    <3>4. CASE p # q
      <4>1. work'[p] = work[p]
        BY <1>1, <3>1, <3>4 DEF Only
      <4>2. work[p].pc \in BeforeLink => Untouched(work[p].job[2])
        BY <2>2 DEF Remembered, LegacyJobsFresh, JobMessage
      <4>3. work[p].pc \in BeforeLink => work[p].job[2] \in MsgId
        BY <2>2, <3>1, MessageOf DEF JobMessage, BeforeLink
      <4> QED
        BY <1>2, <3>2, <4>1, <4>2 DEF JobMessage, Untouched, Answered
    <3> QED
      BY <3>3, <3>4
  <2>3. work'[LR].pc \in BeforeRefund => Unrefunded(JobMessage(LR))'
    <3>1. LR \in LegacyQueue /\ LR \in WorkerQueue /\ "start" \in BeforeLink
      BY QueueNames DEF LegacyQueue, LR, BeforeLink
    <3>2. CASE LR = q
      BY <1>1, <2>2, <3>1, <3>2 DEF Untouched, Unrefunded, Answered
    <3>3. CASE LR # q
      <4>1. work'[LR] = work[LR]
        BY <1>1, <3>1, <3>3 DEF Only
      <4> QED
        BY <1>2, <4>1 DEF Remembered, LegacyJobsFresh, JobMessage, Unrefunded,
           Answered, IsRefund
    <3> QED
      BY <3>2, <3>3
  <2> QED
    BY <2>2, <2>3 DEF LegacyJobsFresh
<1>9. OwnTransaction'
  <2>1. "start" \in Searching /\ {QR, AR, TR} \subseteq WorkerQueue
    BY QueueNames DEF Searching
  <2> QED
    BY <1>1, <2>1 DEF Remembered, OwnTransaction, Only
<1>10. Shrinks
  BY TakeOpens, QueueNames DEF Shrinks
<1> QED
  BY <1>2, <1>7, <1>8, <1>9, <1>10, SilenceRemembered DEF Undisturbed

\* Nothing of it changes as long as workers, their queues and messages do not.
LEMMA ResidentsRemembered ==
  ASSUME IInv, Remembered, LinkedOriginalsKept, Undisturbed' => Undisturbed,
         \A q \in WorkerQueue : queue'[q] = queue[q],
         UNCHANGED <<lpsMessages, links, work, sent, responses, delivered>>
  PROVE  Remembered'
<1> /\ \A p \in LegacyQueue : p \in WorkerQueue
    /\ QR \in WorkerQueue /\ AR \in WorkerQueue /\ TR \in WorkerQueue
  BY QueueNames DEF WorkerQueue
<1>1. Shrinks
  BY DEF Shrinks, Open, Waits
<1>2. JobsOnce' /\ OwnTransaction'
  BY DEF Remembered, JobsOnce, ServedOnce, Waits, OwnTransaction
<1>3. \A m \in MsgId : (Untouched(m) => Untouched(m)') /\ (Unrefunded(m) => Unrefunded(m)')
  BY DEF Untouched, Unrefunded, Answered, IsRefund, LinkedOriginalsKept
<1>4. LegacyJobsFresh'
  <2>1. \A p \in LegacyQueue, m \in MsgId :
          Waits(p, <<"lps", m>>)' => Untouched(m)'
    BY <1>3 DEF Remembered, LegacyJobsFresh, Waits
  <2>2. \A p \in LegacyQueue : work'[p].pc \in BeforeLink => Untouched(JobMessage(p))'
    BY DEF Remembered, LegacyJobsFresh, JobMessage, Untouched, Answered
  <2>3. work'[LR].pc \in BeforeRefund => Unrefunded(JobMessage(LR))'
    <3>1. SUFFICES ASSUME work[LR].pc \in BeforeRefund
                   PROVE  Unrefunded(JobMessage(LR))'
      OBVIOUS
    <3>2. Unrefunded(work[LR].job[2])
      BY <3>1 DEF Remembered, LegacyJobsFresh, JobMessage
    <3>3. ASSUME NEW t \in TrxId, <<t, work[LR].job[2]>> \in links
          PROVE  transactions'[t].original = 0
      <4>1. transactions[t].original = 0
        BY <3>2, <3>3 DEF Unrefunded, IsRefund
      <4>2. work[LR].job[2] \in MsgId
        BY <3>3 DEF IInv, TypeOK
      <4> QED
        BY <3>3, <4>1, <4>2 DEF LinkedOriginalsKept
    <3> QED
      BY <3>2, <3>3 DEF Unrefunded, JobMessage, Answered, IsRefund
  <2> QED
    BY <2>1, <2>2, <2>3 DEF LegacyJobsFresh
<1> QED
  BY <1>1, <1>2, <1>4, SilenceRemembered

\* Time passes, or nothing happens.
LEMMA TimeRemembered ==
  ASSUME IInv, Remembered, LinkedOriginalsKept,
         \/ \E t \in TrxId : ExpireTransaction(t) \/ ExpireQuote(t)
         \/ UNCHANGED vars
  PROVE  Remembered'
<1>1. UNCHANGED <<lpsMessages, links, queue, work, sent, responses, delivered>>
  BY DEF ExpireTransaction, ExpireQuote, outputs, vars
<1>2. Undisturbed' => Undisturbed
  <2>1. budget \in Budget
    BY DEF IInv, TypeOK
  <2>2. budget' = budget \/ budget' = [budget EXCEPT !.expiries = @ - 1]
    BY DEF ExpireTransaction, ExpireQuote, Expiry, vars
  <2> QED
    BY <2>1, <2>2 DEF Undisturbed, Budget
<1> QED
  BY <1>1, <1>2, ResidentsRemembered

\* Workers that are all idle have nothing to remember.
LEMMA CrashRemembered ==
  ASSUME IInv, Remembered, LinkedOriginalsKept, Crash
  PROVE  Remembered'
<1>1. /\ UNCHANGED <<lpsMessages, transactions, links, queue, sent, responses, delivered>>
      /\ \A q \in WorkerQueue : work'[q].pc = "idle"
  BY DEF Crash, tables, outputs, Idle, Fresh
<1>2. Undisturbed' => Undisturbed
  BY DEF Crash, Undisturbed, IInv, TypeOK, Budget
<1>3. /\ QR \in WorkerQueue /\ AR \in WorkerQueue /\ TR \in WorkerQueue
      /\ LR \in WorkerQueue /\ \A q \in LegacyQueue : q \in WorkerQueue
  BY QueueNames DEF WorkerQueue
<1>4. /\ "idle" \in Searching /\ "idle" \notin BeforeLink /\ "idle" \notin BeforeRefund
      /\ "idle" \notin Undecided /\ "idle" \notin BeforeFulfil
  BY DEF Searching, BeforeLink, BeforeRefund, Undecided, BeforeFulfil
<1>5. Shrinks
  BY <1>1, <1>3, <1>4 DEF Shrinks, Open, Waits
<1>6. JobsOnce' /\ OwnTransaction'
  BY <1>1, <1>2, <1>3, <1>4 DEF Remembered, JobsOnce, ServedOnce, Waits, OwnTransaction
<1>7. LegacyJobsFresh'
  BY <1>1, <1>3, <1>4 DEF Remembered, LegacyJobsFresh, Waits, Untouched, Answered
<1> QED
  BY <1>1, <1>2, <1>5, <1>6, <1>7, SilenceRemembered

\* What waits after a job has been put at the end of its queue.
LEMMA AppendWaits ==
  ASSUME IInv, NEW q \in Queue, NEW j \in Job,
         queue' = [queue EXCEPT ![q] = Append(@, j)]
  PROVE  /\ \A p \in Queue : p # q => queue'[p] = queue[p]
         /\ \A k : Waits(q, k)' => Waits(q, k) \/ k = j
         /\ ~Waits(q, j) /\ (\A i, k \in 1..Len(queue[q]) :
                               queue[q][i] = queue[q][k] => i = k)
              => \A i, k \in 1..Len(queue'[q]) :
                   queue'[q][i] = queue'[q][k] => i = k
<1>1. queue \in [Queue -> Seq(Job)]
  BY DEF IInv, TypeOK
<1>2. /\ queue'[q] = Append(queue[q], j) /\ queue[q] \in Seq(Job)
      /\ \A p \in Queue : p # q => queue'[p] = queue[p]
  BY <1>1
<1>3. ASSUME NEW i \in 1..Len(queue'[q])
      PROVE  \/ i \in 1..Len(queue[q]) /\ queue'[q][i] = queue[q][i]
             \/ i = Len(queue[q]) + 1 /\ queue'[q][i] = j
  BY <1>2
<1>4. \A k : Waits(q, k)' => Waits(q, k) \/ k = j
  BY <1>3 DEF Waits
<1>5. ASSUME ~Waits(q, j),
             \A i, k \in 1..Len(queue[q]) : queue[q][i] = queue[q][k] => i = k,
             NEW i \in 1..Len(queue'[q]), NEW k \in 1..Len(queue'[q]),
             queue'[q][i] = queue'[q][k]
      PROVE  i = k
  <2>1. \A l \in 1..Len(queue[q]) : queue[q][l] # j
    BY <1>5 DEF Waits
  <2>2. \/ i \in 1..Len(queue[q]) /\ queue'[q][i] = queue[q][i]
        \/ i = Len(queue[q]) + 1 /\ queue'[q][i] = j
    BY <1>3
  <2>3. \/ k \in 1..Len(queue[q]) /\ queue'[q][k] = queue[q][k]
        \/ k = Len(queue[q]) + 1 /\ queue'[q][k] = j
    BY <1>3
  <2> QED
    BY <1>5, <2>1, <2>2, <2>3
<1> QED
  BY <1>2, <1>4, <1>5

\* What the hub sends for the first time is not being worked on: nothing that
\* depends on it has been said.
LEMMA DeliverRemembered ==
  ASSUME IInv, Remembered, LinkedOriginalsKept, NEW h \in HubMessage, Deliver(h)
  PROVE  Remembered'
<1>1. /\ UNCHANGED <<lpsMessages, transactions, links, work, sent, responses>>
      /\ queue' = [queue EXCEPT ![QueueOf(h)] = Append(@, h)]
      /\ PromptedBy(h) \cap sent # {}
      /\ delivered' = [delivered EXCEPT ![h] = @ + 1]
  BY DEF Deliver, tables, outputs
<1>2. /\ QueueOf(h) \in Queue /\ QueueOf(h) \notin LegacyQueue /\ h \in Job
      /\ \A q \in LegacyQueue : q \in Queue /\ q \in WorkerQueue
      /\ \A q \in WorkerQueue : q \in Queue
  BY KindOf DEF Job, Queue, WorkerQueue
<1>3. /\ \A q \in Queue : q # QueueOf(h) => queue'[q] = queue[q]
      /\ \A k : Waits(QueueOf(h), k)' => Waits(QueueOf(h), k) \/ k = h
      /\ LET q == QueueOf(h) IN
         ~Waits(q, h) /\ (\A i, k \in 1..Len(queue[q]) :
                             queue[q][i] = queue[q][k] => i = k)
           => \A i, k \in 1..Len(queue'[q]) :
                queue'[q][i] = queue'[q][k] => i = k
  BY <1>1, <1>2, AppendWaits
<1>4. \A q \in Queue : \A k : Waits(q, k)' => Waits(q, k) \/ k = h
  BY <1>3 DEF Waits
<1>5. DeliveredStay
  <2>1. delivered \in [HubMessage -> 0..MaxDeliver]
    BY DEF IInv, TypeOK
  <2> QED
    BY <1>1, <2>1, BoundsAssumption DEF DeliveredStay, HasDelivered
<1>6. Undisturbed' => Undisturbed /\ ~HasDelivered(h)
  <2>1. budget \in Budget
    BY DEF IInv, TypeOK
  <2>2. \/ delivered[h] = 0 /\ budget' = budget
        \/ budget.repeats > 0 /\ budget' = [budget EXCEPT !.repeats = @ - 1]
    BY DEF Deliver
  <2> QED
    BY <2>1, <2>2, BoundsAssumption DEF Undisturbed, Budget, HasDelivered
<1>7. ASSUME Undisturbed'
      PROVE  /\ \A q \in WorkerQueue : work[q].pc # "idle" => work[q].job # h
             /\ ~Waits(QueueOf(h), h)
  <2>1. ~HasDelivered(h)
    BY <1>6, <1>7
  <2>2. \A q \in WorkerQueue : work[q].pc # "idle" => Justified(q, work[q].job)
    BY DEF IInv, WorkersOK, WorkerOK
  <2>3. \A q \in LegacyQueue : h \notin LpsJob
    BY DEF HubMessage, LpsJob, AboutTransaction, AboutTransfer
  <2>4. \A q \in Queue : ~Justified(q, h)
    BY <2>1, <2>3 DEF Justified
  <2>5. \A i \in 1..Len(queue[QueueOf(h)]) :
          Justified(QueueOf(h), queue[QueueOf(h)][i])
    BY <1>2 DEF IInv, QueuesOK
  <2> QED
    BY <1>2, <2>2, <2>4, <2>5 DEF Waits
<1>8. JobsOnce'
  <2>1. SUFFICES ASSUME NEW q \in WorkerQueue, q \in LegacyQueue \/ Undisturbed'
                 PROVE  ServedOnce(q)'
    BY DEF JobsOnce
  <2>2. ServedOnce(q)
    BY <1>6, <2>1 DEF Remembered, JobsOnce
  <2>3. CASE q # QueueOf(h)
    BY <1>1, <1>2, <1>3, <2>2, <2>3 DEF ServedOnce, Waits
  <2>4. CASE q = QueueOf(h)
    <3>1. /\ \A i, j \in 1..Len(queue[q]) : queue[q][i] = queue[q][j] => i = j
          /\ work[q].pc # "idle" => ~Waits(q, work[q].job)
      BY <2>2 DEF ServedOnce
    <3>2. Undisturbed'
      BY <1>2, <2>1, <2>4
    <3>3. \A i, j \in 1..Len(queue'[q]) : queue'[q][i] = queue'[q][j] => i = j
      BY <1>3, <1>7, <2>4, <3>1, <3>2
    <3>4. work[q].pc # "idle" => ~Waits(q, work[q].job)'
      BY <1>1, <1>3, <1>7, <2>4, <3>1, <3>2 DEF Waits
    <3> QED
      BY <1>1, <3>3, <3>4 DEF ServedOnce, Waits
  <2> QED
    BY <2>3, <2>4
<1>9. LegacyJobsFresh'
  <2>1. \A q \in LegacyQueue, m \in MsgId :
          Waits(q, <<"lps", m>>)' => Untouched(m)'
    <3>1. \A q \in LegacyQueue : queue'[q] = queue[q]
      BY <1>2, <1>3
    <3>2. \A q \in LegacyQueue, m \in MsgId :
            Waits(q, <<"lps", m>>)' => Waits(q, <<"lps", m>>)
      BY <3>1 DEF Waits
    <3> QED
      BY <1>1, <3>2 DEF Remembered, LegacyJobsFresh, Untouched, Answered
  <2>2. /\ \A q \in LegacyQueue :
             work'[q].pc \in BeforeLink => Untouched(JobMessage(q))'
        /\ work'[LR].pc \in BeforeRefund => Unrefunded(JobMessage(LR))'
    BY <1>1 DEF Remembered, LegacyJobsFresh, JobMessage, Untouched, Unrefunded,
       Answered, IsRefund
  <2> QED
    BY <2>1, <2>2 DEF LegacyJobsFresh
<1>10. LinkedOnce' /\ OwnTransaction' /\ OneVerdict'
  BY <1>1, <1>6 DEF Remembered, LinkedOnce, OwnTransaction, OneVerdict, IsRefund
<1>11. CausesKnown'
  <2>1. \A t \in TrxId : NothingNew(t)
    BY <1>1 DEF NothingNew, Fulfilled, Refused
  <2> QED
    BY <1>1, <1>5, <2>1, CausesSame DEF Remembered, CausesKnown
<1>12. ASSUME Undisturbed', NEW t \in TrxId
       PROVE  Verdicts(t)'
  <2>1. /\ QuoteOpen(t) /\ AuthorizationOpen(t) /\ TransferOpen(t) /\ RefusalFinal(t)
        /\ CausesOf(t) /\ ~HasDelivered(h)
    BY <1>6, <1>12 DEF Remembered, CausesKnown, VerdictsKnown
  <2>2. ASSUME NEW q \in WorkerQueue, NEW k, NEW steps, Open(q, k, steps)'
        PROVE  Open(q, k, steps) \/ k = h
    BY <1>1, <1>2, <1>4, <2>2 DEF Open
  <2>3. /\ \A type : Unanswered(t, type)' = Unanswered(t, type)
        /\ Fulfilled(t)' = Fulfilled(t) /\ Refused(t)' = Refused(t)
    BY <1>1 DEF Unanswered, Linked, Answered, Fulfilled, Refused
  <2>4. ASSUME h = <<"quoteRequest", t>>
        PROVE  <<"putQuotes", t>> \notin sent /\ Unanswered(t, "authorizationRequest")
    <3>1. <<"putQuotes", t>> \notin sent
      BY <2>1, <2>4 DEF CausesOf
    <3>2. \A m \in Linked(t, "authorizationRequest") : <<m, "invalid">> \notin responses
      BY <2>1, <2>4 DEF RefusalFinal
    <3>3. ~HasDelivered(<<"authorization", t>>)
      <4>1. <<"authorization", t>> \in HubMessage
        BY DEF HubMessage, AboutTransaction
      <4> QED
        BY <3>1, <4>1 DEF IInv, DeliveredOK, PromptedBy
    <3> QED
      BY <2>1, <3>1, <3>2, <3>3 DEF CausesOf, Unanswered, Answered
  <2>5. ASSUME h = <<"authorization", t>>
        PROVE  Unanswered(t, "authorizationRequest")
    <3>1. <<"putQuotes", t>> \in sent
      BY <1>1, <2>5 DEF PromptedBy
    <3> QED
      BY <2>1, <2>5, <3>1 DEF CausesOf, RefusalFinal, Unanswered, Answered
  <2>6. ASSUME h = <<"transferRequest", t>>
        PROVE  ~Fulfilled(t) /\ ~Refused(t) /\ Unanswered(t, "financialRequest")
    <3>1. ~Fulfilled(t) /\ ~Refused(t)
      BY <2>1, <2>6 DEF CausesOf
    <3>2. ASSUME NEW m \in Linked(t, "financialRequest"), <<m, "approved">> \in responses
          PROVE  FALSE
      <4>1. m \in MsgId /\ <<t, m>> \in links /\ lpsMessages[m].type = "financialRequest"
        BY <3>2 DEF Linked
      <4>2. PICK x \in TransferId : <<x[1], m>> \in links /\ <<"putTransfers", x>> \in sent
        BY <3>2, <4>1 DEF IInv, ApprovedMeansCommitted, Earned
      <4>3. PICK u \in TrxId, n \in 1..MaxDeliver : x = <<u, n>>
        BY DEF TransferId
      <4>4. u = t
        BY <4>1, <4>2, <4>3 DEF Remembered, LinkedOnce
      <4> QED
        BY <3>1, <4>2, <4>3, <4>4 DEF Fulfilled
    <3> QED
      BY <2>1, <2>6, <3>1, <3>2 DEF CausesOf, Unanswered, Answered
  <2>7. QuoteOpen(t)' /\ AuthorizationOpen(t)'
    BY <1>1, <2>1, <2>2, <2>3, <2>4, <2>5, QueueNames DEF QuoteOpen, AuthorizationOpen
  <2>8. TransferOpen(t)'
    BY <2>1, <2>2, <2>3, <2>6, QueueNames DEF TransferOpen
  <2>9. RefusalFinal(t)'
    <3>1. /\ HasDelivered(<<"quoteRequest", t>>) => HasDelivered(<<"quoteRequest", t>>)'
          /\ HasDelivered(<<"authorization", t>>) => HasDelivered(<<"authorization", t>>)'
      BY <1>5 DEF DeliveredStay, HasDelivered, HubMessage, AboutTransaction
    <3>2. \A m \in Linked(t, "authorizationRequest") :
            <<m, "invalid">> \in responses' =>
              /\ HasDelivered(<<"quoteRequest", t>>)'
              /\ <<"putQuotes", t>> \in sent' => HasDelivered(<<"authorization", t>>)'
      BY <1>1, <2>1, <3>1 DEF RefusalFinal
    <3> QED
      BY <1>1, <1>5, <2>1, <2>3, <3>2, RefusalSame
  <2> QED
    BY <2>7, <2>8, <2>9 DEF Verdicts
<1> QED
  BY <1>8, <1>9, <1>10, <1>11, <1>12 DEF Remembered, VerdictsKnown, Verdicts

\* A new message: nothing has been made of it.
LEMMA ReceiveRemembered ==
  ASSUME IInv, Remembered, NEW type, NEW q \in LegacyQueue, NEW d, NEW p,
         NEW about, Receive(type, q, d, p, about)
  PROVE  Remembered'
<1> DEFINE row == [type |-> type, lpsKey |-> d, payer |-> p, about |-> about]
<1>1. PICK m \in NextMsg :
        /\ lpsMessages' = [lpsMessages EXCEPT ![m] = row]
        /\ queue' = [queue EXCEPT ![q] = Append(@, <<"lps", m>>)]
  BY DEF Receive
<1>2. UNCHANGED <<transactions, links, work, sent, responses, delivered, budget>>
  BY DEF Receive, outputs
<1>3. /\ m \in MsgId /\ ~Stored(m)
      /\ \A k \in MsgId : k # m => lpsMessages'[k] = lpsMessages[k]
  BY <1>1 DEF NextMsg, Stored, IInv, TypeOK
<1>4. Untouched(m)
  BY <1>3 DEF IInv, LinksOK, ResponsesOK, Untouched, Answered
<1>5. /\ q \in Queue /\ q \in WorkerQueue
      /\ \A r \in WorkerQueue : r \in Queue
      /\ \A r \in LegacyQueue : r \in WorkerQueue
      /\ QR \in WorkerQueue \ LegacyQueue /\ AR \in WorkerQueue \ LegacyQueue
      /\ TR \in WorkerQueue \ LegacyQueue
  BY QueueNames DEF Queue, WorkerQueue, LegacyQueue, QR, AR, TR
<1> DEFINE j == <<"lps", m>>
<1>6. j \in Job
  BY <1>3 DEF Job, LpsJob
<1>7. /\ \A r \in Queue : r # q => queue'[r] = queue[r]
      /\ \A k : Waits(q, k)' => Waits(q, k) \/ k = j
      /\ ~Waits(q, j) /\ (\A i, k \in 1..Len(queue[q]) :
                             queue[q][i] = queue[q][k] => i = k)
           => \A i, k \in 1..Len(queue'[q]) :
                queue'[q][i] = queue'[q][k] => i = k
  BY <1>1, <1>5, <1>6, AppendWaits
<1>8. ~Waits(q, j) /\ (work[q].pc # "idle" => work[q].job # j)
  <2>1. ~Waits(q, j)
    BY <1>3, WaitingMessage
  <2>2. work[q].pc # "idle" => Justified(q, work[q].job)
    BY <1>5 DEF IInv, WorkersOK, WorkerOK
  <2>3. work[q].pc # "idle" => Stored(work[q].job[2])
    BY <2>2, LegacyJob
  <2> QED
    BY <1>3, <2>1, <2>3
<1> HIDE DEF j
<1>9. JobsOnce'
  <2>1. SUFFICES ASSUME NEW r \in WorkerQueue, r \in LegacyQueue \/ Undisturbed'
                 PROVE  ServedOnce(r)'
    BY DEF JobsOnce
  <2>2. ServedOnce(r)
    BY <1>2, <2>1 DEF Remembered, JobsOnce, Undisturbed
  <2>3. CASE r # q
    BY <1>2, <1>5, <1>7, <2>2, <2>3 DEF ServedOnce, Waits
  <2>4. CASE r = q
    <3>1. /\ \A i, k \in 1..Len(queue[q]) : queue[q][i] = queue[q][k] => i = k
          /\ work[q].pc # "idle" => ~Waits(q, work[q].job)
      BY <2>2, <2>4 DEF ServedOnce
    <3>2. \A i, k \in 1..Len(queue'[q]) : queue'[q][i] = queue'[q][k] => i = k
      BY <1>7, <1>8, <3>1
    <3>3. work[q].pc # "idle" => ~Waits(q, work[q].job)'
      BY <1>2, <1>7, <1>8, <3>1 DEF Waits
    <3> QED
      BY <1>2, <2>4, <3>2, <3>3 DEF ServedOnce, Waits
  <2> QED
    BY <2>3, <2>4
<1>10. LegacyJobsFresh'
  <2>1. ASSUME NEW r \in LegacyQueue, NEW n \in MsgId, Waits(r, <<"lps", n>>)'
        PROVE  Untouched(n)'
    <3>1. Waits(r, <<"lps", n>>) \/ n = m
      <4>1. CASE r = q
        BY <1>7, <2>1, <4>1 DEF j
      <4>2. CASE r # q
        BY <1>5, <1>7, <2>1, <4>2 DEF Waits
      <4> QED
        BY <4>1, <4>2
    <3>2. Untouched(n)
      BY <1>4, <2>1, <3>1 DEF Remembered, LegacyJobsFresh
    <3> QED
      BY <1>2, <3>2 DEF Untouched, Answered
  <2>2. /\ \A r \in LegacyQueue :
             work'[r].pc \in BeforeLink => Untouched(JobMessage(r))'
        /\ work'[LR].pc \in BeforeRefund => Unrefunded(JobMessage(LR))'
    BY <1>2 DEF Remembered, LegacyJobsFresh, JobMessage, Untouched, Unrefunded,
       Answered, IsRefund
  <2> QED
    BY <2>1, <2>2 DEF LegacyJobsFresh
<1>11. \A t \in TrxId, k \in MsgId :
         <<t, k>> \in links => lpsMessages'[k] = lpsMessages[k]
  BY <1>3, <1>4 DEF Untouched
<1>12. LinkedOnce' /\ OwnTransaction' /\ OneVerdict'
  BY <1>2, <1>11
  DEF Remembered, LinkedOnce, OwnTransaction, OneVerdict, Undisturbed, IsRefund
<1>13. \A t \in TrxId : \A kind : Linked(t, kind)' = Linked(t, kind)
  BY <1>2, <1>11 DEF Linked
<1>14. CausesKnown'
  <2>1. SUFFICES ASSUME NEW t \in TrxId
                 PROVE  CausesOf(t)'
    BY DEF CausesKnown
  <2>2. CausesOf(t)
    BY DEF Remembered, CausesKnown
  <2>3. /\ Fulfilled(t)' = Fulfilled(t) /\ Refused(t)' = Refused(t)
        /\ \A h : HasDelivered(h)' = HasDelivered(h)
    BY <1>2 DEF Fulfilled, Refused, HasDelivered
  <2> QED
    BY <1>2, <1>13, <2>2, <2>3 DEF CausesOf
<1>15. ASSUME Undisturbed', NEW t \in TrxId
       PROVE  Verdicts(t)'
  <2>1. QuoteOpen(t) /\ AuthorizationOpen(t) /\ TransferOpen(t) /\ RefusalFinal(t)
    BY <1>2, <1>15 DEF Remembered, VerdictsKnown, Undisturbed
  <2>2. ASSUME NEW r \in {QR, AR, TR}, NEW k, NEW steps
        PROVE  Open(r, k, steps)' = Open(r, k, steps)
    <3>1. queue'[r] = queue[r]
      BY <1>5, <1>7
    <3> QED
      BY <1>2, <3>1 DEF Open, Waits
  <2>3. /\ \A kind : Unanswered(t, kind)' = Unanswered(t, kind)
        /\ Fulfilled(t)' = Fulfilled(t) /\ Refused(t)' = Refused(t)
        /\ \A h : HasDelivered(h)' = HasDelivered(h)
    BY <1>2, <1>13 DEF Unanswered, Answered, Fulfilled, Refused, HasDelivered
  <2>4. QuoteOpen(t)' /\ AuthorizationOpen(t)' /\ TransferOpen(t)'
    BY <1>2, <2>1, <2>2, <2>3 DEF QuoteOpen, AuthorizationOpen, TransferOpen
  <2>5. RefusalFinal(t)'
    BY <1>2, <1>13, <2>1, <2>3 DEF RefusalFinal, IsRefund, ErrorTold
  <2> QED
    BY <2>4, <2>5 DEF Verdicts
<1> QED
  BY <1>9, <1>10, <1>12, <1>14, <1>15 DEF Remembered, VerdictsKnown, Verdicts

\* The three messages of a terminal.
LEMMA TerminalRemembered ==
  ASSUME IInv, Remembered, NEW d \in Device, Terminal(d)
  PROVE  Remembered'
<1>1. CASE SendAuthorizationRequest(d)
  BY <1>1, ReceiveRemembered DEF SendAuthorizationRequest, LegacyQueue
<1>2. CASE SendFinancialRequest(d)
  BY <1>2, ReceiveRemembered DEF SendFinancialRequest, LegacyQueue
<1>3. CASE SendReversalAdvice(d)
  BY <1>3, ReceiveRemembered DEF SendReversalAdvice, LegacyQueue
<1> QED
  BY <1>1, <1>2, <1>3 DEF Terminal

-----------------------------------------------------------------------------
(* The transfers of a transaction. *)

TransferCalls == {"putTransfers", "postTransfers"}

\* A step in which no refund is paid and the hub says nothing.
LEMMA TransfersLast ==
  ASSUME TransfersOnce, Undisturbed' => Undisturbed, UNCHANGED delivered,
         \A x \in TransferId : <<"putTransfers", x>> \in sent' =>
           <<"putTransfers", x>> \in sent \/ x[2] = 1,
         \A t \in TrxId, n \in 1..MaxDeliver : Paid(t, n)' => Paid(t, n),
         work'[QX].pc \notin Searching => work'[QX].trx = work'[QX].job[2],
         Undisturbed' =>
           \A h : Open(QX, h, BeforePayment)' => Open(QX, h, BeforePayment)
  PROVE  TransfersOnce'
<1>1. \A h : HasDelivered(h)' = HasDelivered(h)
  BY DEF HasDelivered
<1>2. ASSUME NEW t \in TrxId
      PROVE  PaidOnce(t)'
  <2>1. PaidOnce(t)
    BY DEF TransfersOnce
  <2> QED
    BY <1>1, <2>1 DEF PaidOnce
<1>3. HubConsistent'
  BY <1>1 DEF TransfersOnce, HubConsistent
<1>4. \A x \in TransferId : <<"putTransfers", x>> \in sent' => x[2] = 1
  BY DEF TransfersOnce
<1> QED
  BY <1>2, <1>3, <1>4 DEF TransfersOnce

\* What a handler of another queue does: its worker alone moves, and it fulfils
\* a transfer, if at all, as its next call.
Elsewhere(q) ==
  /\ Only(q)
  /\ UNCHANGED <<queue, delivered>>
  /\ budget' = budget \/ ~Undisturbed'
  /\ \A c \in sent' : c \in sent \/ c = Calling(q) \/ c[1] \notin TransferCalls

\* A worker that moves, moves alone.
LEMMA MovesAlone ==
  ASSUME IInv, NEW q \in WorkerQueue
  PROVE  /\ \A pc : Goto(q, pc) => Only(q)
         /\ \A pc, t, n, seen : Begin(q, pc, t, n, seen) => Only(q)
         /\ Done(q) => Only(q)
BY DEF Goto, Begin, Done, Only, IInv, TypeOK

\* It makes at most its next call, or reports an error.
LEMMA MoveElsewhere ==
  ASSUME NEW q \in WorkerQueue, Only(q), UNCHANGED environment,
         \A c \in sent' :
           c \in sent \/ c = Calling(q) \/ c[1] \notin TransferCalls
  PROVE  Elsewhere(q)
BY DEF Elsewhere, environment

\* A worker whose await throws.
LEMMA ThrowElsewhere ==
  ASSUME IInv, NEW q \in WorkerQueue, NEW calls, NEW answers,
         Throw(q, calls, answers), \A c \in calls : c[1] \notin TransferCalls
  PROVE  Elsewhere(q)
<1>1. work \in [WorkerQueue -> Worker] /\ budget \in Budget
  BY DEF IInv, TypeOK
<1>2. PICK arrived \in SUBSET {Calling(q)} : sent' = sent \cup arrived \cup calls
  BY DEF Throw
<1>3. Only(q)
  BY <1>1 DEF Throw, Done, Only
<1>4. ~Undisturbed'
  BY <1>1 DEF Throw, Undisturbed, Budget
<1> QED
  BY <1>2, <1>3, <1>4 DEF Throw, Elsewhere

\* legacyAuthorizationRequestHandler
LEMMA LegacyAuthorizationRequestHandlerElsewhere ==
  ASSUME IInv, LegacyAuthorizationRequestHandler
  PROVE  Elsewhere(LA)
<1>1. LA \in WorkerQueue
  BY QueueNames
<1>2. CASE LAThrow
  BY <1>1, <1>2, ThrowElsewhere DEF LAThrow
<1>3. CASE ~LAThrow
  <2>1. Only(LA) /\ UNCHANGED environment
    BY <1>1, <1>3, MovesAlone
    DEF LegacyAuthorizationRequestHandler, LACancelIncomplete,
        LAInsertTransaction, LARelate, LAGetParties
  <2>2. \A c \in sent' : c \in sent \/ c = Calling(LA)
    BY <1>3
    DEF LegacyAuthorizationRequestHandler, LACancelIncomplete,
        LAInsertTransaction, LARelate, LAGetParties, Call, outputs
  <2> QED
    BY <1>1, <2>1, <2>2, MoveElsewhere
<1> QED
  BY <1>2, <1>3

\* partiesResponseHandler
LEMMA PartiesResponseHandlerElsewhere ==
  ASSUME IInv, PartiesResponseHandler
  PROVE  Elsewhere(PR)
<1>1. PR \in WorkerQueue
  BY QueueNames
<1>2. CASE PRThrow
  BY <1>1, <1>2, ThrowElsewhere DEF PRThrow, TransferCalls
<1>3. CASE ~PRThrow
  <2>1. Only(PR) /\ UNCHANGED environment
    BY <1>1, <1>3, MovesAlone
    DEF PartiesResponseHandler, PRFind, PRUpdateParty,
        PRPostTransactionRequests
  <2>2. \A c \in sent' :
          c \in sent \/ c = Calling(PR) \/ c[1] \notin TransferCalls
    BY <1>3
    DEF PartiesResponseHandler, PRFind, PRUpdateParty,
        PRPostTransactionRequests, Call, outputs, SetState, TransferCalls
  <2> QED
    BY <1>1, <2>1, <2>2, MoveElsewhere
<1> QED
  BY <1>2, <1>3

\* transactionRequestResponseHandler
LEMMA TransactionRequestResponseHandlerElsewhere ==
  ASSUME IInv, TransactionRequestResponseHandler
  PROVE  Elsewhere(TRR)
<1>1. TRR \in WorkerQueue
  BY QueueNames
<1>2. CASE TRRThrow
  BY <1>1, <1>2, ThrowElsewhere DEF TRRThrow, TransferCalls
<1>3. CASE ~TRRThrow
  <2>1. Only(TRR) /\ UNCHANGED environment
    BY <1>1, <1>3, MovesAlone
    DEF TransactionRequestResponseHandler, TRRRead, TRRRespond, TRRReject
  <2>2. \A c \in sent' :
          c \in sent \/ c = Calling(TRR) \/ c[1] \notin TransferCalls
    BY <1>3
    DEF TransactionRequestResponseHandler, TRRRead, TRRRespond, TRRReject,
        Call, outputs, SetState, TransferCalls
  <2> QED
    BY <1>1, <2>1, <2>2, MoveElsewhere
<1> QED
  BY <1>2, <1>3

\* quotesRequestHandler
LEMMA QuotesRequestHandlerElsewhere ==
  ASSUME IInv, QuotesRequestHandler
  PROVE  Elsewhere(QR)
<1>1. QR \in WorkerQueue
  BY QueueNames
<1>2. CASE QRThrow
  BY <1>1, <1>2, ThrowElsewhere DEF QRThrow, TransferCalls
<1>3. CASE ~QRThrow
  <2>1. Only(QR) /\ UNCHANGED environment
    BY <1>1, <1>3, MovesAlone
    DEF QuotesRequestHandler, QRValidate, QRInsertQuote, QRPutQuotes,
        QRUpdateState, QRPutQuotesError, QRRefuse
  <2>2. \A c \in sent' :
          c \in sent \/ c = Calling(QR) \/ c[1] \notin TransferCalls
    BY <1>3
    DEF QuotesRequestHandler, QRValidate, QRInsertQuote, QRPutQuotes,
        QRUpdateState, QRPutQuotesError, QRRefuse, Call, outputs, SetState,
        TransferCalls
  <2> QED
    BY <1>1, <2>1, <2>2, MoveElsewhere
<1> QED
  BY <1>2, <1>3

\* authorizationRequestHandler
LEMMA AuthorizationRequestHandlerElsewhere ==
  ASSUME IInv, AuthorizationRequestHandler
  PROVE  Elsewhere(AR)
<1>1. AR \in WorkerQueue
  BY QueueNames
<1>2. CASE ARThrow
  BY <1>1, <1>2, ThrowElsewhere DEF ARThrow, TransferCalls
<1>3. CASE ~ARThrow
  <2>1. Only(AR) /\ UNCHANGED environment
    BY <1>1, <1>3, MovesAlone
    DEF AuthorizationRequestHandler, ARValidate, ARApprove, ARUpdateState,
        ARPutAuthorizationsError, ARRefuse
  <2>2. \A c \in sent' :
          c \in sent \/ c = Calling(AR) \/ c[1] \notin TransferCalls
    BY <1>3
    DEF AuthorizationRequestHandler, ARValidate, ARApprove, ARUpdateState,
        ARPutAuthorizationsError, ARRefuse, Call, outputs, SetState,
        TransferCalls
  <2> QED
    BY <1>1, <2>1, <2>2, MoveElsewhere
<1> QED
  BY <1>2, <1>3

\* legacyFinancialRequestHandler
LEMMA LegacyFinancialRequestHandlerElsewhere ==
  ASSUME IInv, LegacyFinancialRequestHandler
  PROVE  Elsewhere(LF)
<1>1. LF \in WorkerQueue
  BY QueueNames
<1>2. CASE LFThrow
  BY <1>1, <1>2, ThrowElsewhere DEF LFThrow, TransferCalls
<1>3. CASE ~LFThrow
  <2>1. Only(LF) /\ UNCHANGED environment
    BY <1>1, <1>3, MovesAlone
    DEF LegacyFinancialRequestHandler, LFFind, LFRelate,
        LFPutAuthorizations, LFUpdateState
  <2>2. \A c \in sent' :
          c \in sent \/ c = Calling(LF) \/ c[1] \notin TransferCalls
    BY <1>3
    DEF LegacyFinancialRequestHandler, LFFind, LFRelate,
        LFPutAuthorizations, LFUpdateState, Call, outputs, SetState,
        TransferCalls
  <2> QED
    BY <1>1, <2>1, <2>2, MoveElsewhere
<1> QED
  BY <1>2, <1>3

\* transferRequestHandler
LEMMA TransferRequestHandlerElsewhere ==
  ASSUME IInv, TransferRequestHandler
  PROVE  Elsewhere(TR)
<1>1. TR \in WorkerQueue
  BY QueueNames
<1>2. CASE TRThrow
  BY <1>1, <1>2, ThrowElsewhere DEF TRThrow, TransferCalls
<1>3. CASE ~TRThrow
  <2>1. Only(TR) /\ UNCHANGED environment
    BY <1>1, <1>3, MovesAlone
    DEF TransferRequestHandler, TRValidate, TRInsertTransfer,
        TRPutTransfers, TRUpdateState, TRUpdateTransfer,
        TRPutTransfersError, TRRefuse
  <2>2. \A c \in sent' :
          c \in sent \/ c = Calling(TR) \/ c[1] \notin TransferCalls
    BY <1>3
    DEF TransferRequestHandler, TRValidate, TRInsertTransfer,
        TRPutTransfers, TRUpdateState, TRUpdateTransfer,
        TRPutTransfersError, TRRefuse, Call, outputs, SetState,
        TransferCalls
  <2> QED
    BY <1>1, <2>1, <2>2, MoveElsewhere
<1> QED
  BY <1>2, <1>3

\* transferResponseHandler
LEMMA TransferResponseHandlerElsewhere ==
  ASSUME IInv, TransferResponseHandler
  PROVE  Elsewhere(TX)
<1>1. TX \in WorkerQueue
  BY QueueNames
<1>2. CASE TXThrow
  BY <1>1, <1>2, ThrowElsewhere DEF TXThrow, TransferCalls
<1>3. CASE ~TXThrow
  <2>1. Only(TX) /\ UNCHANGED environment
    BY <1>1, <1>3, MovesAlone
    DEF TransferResponseHandler, TXRead, TXApprove, TXUpdateState,
        TXUpdateTransfer
  <2>2. \A c \in sent' :
          c \in sent \/ c = Calling(TX) \/ c[1] \notin TransferCalls
    BY <1>3
    DEF TransferResponseHandler, TXRead, TXApprove, TXUpdateState,
        TXUpdateTransfer, Call, outputs, SetState, TransferCalls
  <2> QED
    BY <1>1, <2>1, <2>2, MoveElsewhere
<1> QED
  BY <1>2, <1>3

\* legacyReversalHandler
LEMMA LegacyReversalHandlerElsewhere ==
  ASSUME IInv, LegacyReversalHandler
  PROVE  Elsewhere(LR)
<1>1. LR \in WorkerQueue
  BY QueueNames
<1>2. CASE LRThrow
  BY <1>1, <1>2, ThrowElsewhere DEF LRThrow, TransferCalls
<1>3. CASE ~LRThrow
  <2>1. Only(LR) /\ UNCHANGED environment
    BY <1>1, <1>3, MovesAlone
    DEF LegacyReversalHandler, LRCheckReplay, LRFind, LRRelate, LRCancel,
        LRExpireQuote, LRInsertRefund, LRRelateRefund, LRInsertQuote,
        LRPostQuotes, LRRefundOrDone
  <2>2. \A c \in sent' :
          c \in sent \/ c = Calling(LR) \/ c[1] \notin TransferCalls
    BY <1>3
    DEF LegacyReversalHandler, LRCheckReplay, LRFind, LRRelate, LRCancel,
        LRExpireQuote, LRInsertRefund, LRRelateRefund, LRInsertQuote,
        LRPostQuotes, LRRefundOrDone, Call, outputs, SetState, TransferCalls
  <2> QED
    BY <1>1, <2>1, <2>2, MoveElsewhere
<1> QED
  BY <1>2, <1>3

\* None of these steps pays a refund.
LEMMA ElsewhereTransfers ==
  ASSUME IInv, Remembered, TransfersOnce, NEW q \in WorkerQueue, q # QX,
         Elsewhere(q)
  PROVE  TransfersOnce'
<1>1. /\ QX \in WorkerQueue
      /\ work'[QX] = work[QX]
      /\ UNCHANGED <<queue, delivered>>
  BY QueueNames DEF Elsewhere, Only
<1>2. Undisturbed' => Undisturbed
  BY DEF Elsewhere, Undisturbed
<1>3. work[q].pc \in StepsOf(q)
  BY DEF IInv, WorkersOK, WorkerOK
<1>4. /\ work[q].pc = "putTransfers" => q = TR
      /\ work[q].pc # "postTransfers"
  BY <1>3 DEF StepsOf, WorkerQueue, LegacyQueue, LA, PR, TRR, QR, AR, LF, TR, TX,
     LR, QX
<1>5. ASSUME NEW x \in TransferId, <<"putTransfers", x>> \in sent',
             <<"putTransfers", x>> \notin sent
      PROVE  x[2] = 1
  <2>1. <<"putTransfers", x>> = Calling(q)
    BY <1>5 DEF Elsewhere, TransferCalls
  <2>2. work[q].pc = "putTransfers" /\ x = WorkTransfer(q)
    BY <2>1 DEF Calling, TransferCall
  <2>3. work[TR].nth = 1
    BY <1>4, <2>2 DEF Remembered, OwnTransaction, Searching
  <2> QED
    BY <1>4, <2>2, <2>3 DEF WorkTransfer
<1>6. ASSUME NEW t \in TrxId, NEW n \in 1..MaxDeliver, Paid(t, n)'
      PROVE  Paid(t, n)
  <2>1. <<"postTransfers", <<t, n>>>> # Calling(q)
    BY <1>4 DEF Calling
  <2> QED
    BY <1>6, <2>1 DEF Elsewhere, TransferCalls, Paid
<1>7. \A h : Open(QX, h, BeforePayment)' => Open(QX, h, BeforePayment)
  BY <1>1 DEF Open, Waits
<1>8. work'[QX].pc \notin Searching => work'[QX].trx = work'[QX].job[2]
  BY <1>1 DEF TransfersOnce
<1> QED
  BY <1>1, <1>2, <1>5, <1>6, <1>7, <1>8, TransfersLast

\* The worker that pays a refund works on the quote of that refund.
LEMMA Paying ==
  ASSUME IInv, TransfersOnce, work[QX].pc = "postTransfers"
  PROVE  \E t \in TrxId, n \in 1..MaxDeliver :
           /\ work[QX].job = <<"quoteResponse", t>>
           /\ HasDelivered(<<"quoteResponse", t>>)
           /\ Calling(QX) = <<"postTransfers", <<t, n>>>>
<1>1. QX \in WorkerQueue /\ QX \notin LegacyQueue
  BY QueueNames DEF LegacyQueue, QX
<1>2. PICK t \in TrxId, n \in 1..MaxDeliver : WorkTransfer(QX) = <<t, n>>
  BY DEF IInv, Knowledge, KnowsQX, TransferId
<1>3. t = work[QX].job[2]
  BY <1>2 DEF TransfersOnce, Searching, WorkTransfer
<1>4. /\ work[QX].job \in HubMessage /\ QueueOf(work[QX].job) = QX
      /\ HasDelivered(work[QX].job)
  BY <1>1 DEF IInv, WorkersOK, WorkerOK, Justified
<1>5. work[QX].job = <<"quoteResponse", t>>
  BY <1>3, <1>4 DEF QueueOf, QX, HubMessage, AboutTransaction, AboutTransfer
<1>6. Calling(QX) = <<"postTransfers", <<t, n>>>>
  BY <1>2 DEF Calling, TransferCall
<1> QED
  BY <1>4, <1>5, <1>6

\* The refund of a quote is paid: it had not been.
LEMMA QXPostTransfersTransfers ==
  ASSUME IInv, Remembered, TransfersOnce, QXPostTransfers
  PROVE  TransfersOnce'
<1>1. /\ QX \in WorkerQueue
      /\ work[QX].pc = "postTransfers"
      /\ work'[QX].pc = "idle"
      /\ UNCHANGED <<queue, delivered, budget>>
      /\ sent' = sent \cup {Calling(QX)}
  BY QueueNames, DoneWork
  DEF QXPostTransfers, Call, At, environment, IInv
<1>2. PICK t \in TrxId, n \in 1..MaxDeliver :
        /\ work[QX].job = <<"quoteResponse", t>>
        /\ HasDelivered(<<"quoteResponse", t>>)
        /\ Calling(QX) = <<"postTransfers", <<t, n>>>>
  BY <1>1, Paying
<1>3. \A h : HasDelivered(h)' = HasDelivered(h)
  BY <1>1 DEF HasDelivered
<1>4. ASSUME NEW u \in TrxId, NEW k \in 1..MaxDeliver, Paid(u, k)', ~Paid(u, k)
      PROVE  u = t /\ k = n
  <2>1. <<"postTransfers", <<u, k>>>> = <<"postTransfers", <<t, n>>>>
    BY <1>1, <1>2, <1>4 DEF Paid
  <2> QED
    BY <2>1
<1>5. ASSUME NEW h, Open(QX, h, BeforePayment)'
      PROVE  Waits(QX, h)
  BY <1>1, <1>5 DEF Open, Waits, BeforePayment
<1>6. ASSUME NEW u \in TrxId
      PROVE  PaidOnce(u)'
  <2>1. PaidOnce(u)
    BY DEF TransfersOnce
  <2>2. CASE u # t
    <3>1. \A k \in 1..MaxDeliver : Paid(u, k)' => Paid(u, k)
      BY <1>4, <2>2
    <3>2. Open(QX, <<"quoteResponse", u>>, BeforePayment)'
            => Open(QX, <<"quoteResponse", u>>, BeforePayment)
      BY <1>5 DEF Open
    <3>3. Undisturbed' => Undisturbed
      BY <1>1 DEF Undisturbed
    <3> QED
      BY <1>3, <2>1, <3>1, <3>2, <3>3 DEF PaidOnce
  <2>3. CASE u = t
    <3>1. \A k \in 1..MaxDeliver :
            Paid(u, k)' => HasDelivered(<<"quoteResponse", u>>)'
      BY <1>2, <1>3, <2>3
    <3>2. ASSUME Undisturbed'
          PROVE  /\ \A k \in 1..MaxDeliver : ~Paid(u, k)
                 /\ ~Waits(QX, <<"quoteResponse", u>>)
      <4>1. Undisturbed
        BY <1>1, <3>2 DEF Undisturbed
      <4>2. Open(QX, <<"quoteResponse", u>>, BeforePayment)
        BY <1>1, <1>2, <2>3 DEF Open, BeforePayment
      <4>3. ServedOnce(QX)
        BY <1>1, <4>1 DEF Remembered, JobsOnce
      <4> QED
        BY <1>1, <1>2, <2>1, <2>3, <4>1, <4>2, <4>3 DEF PaidOnce, ServedOnce
    <3>3. Undisturbed' =>
            \A k, l \in 1..MaxDeliver : Paid(u, k)' /\ Paid(u, l)' => k = l
      BY <1>4, <3>2
    <3>4. Undisturbed' => ~Open(QX, <<"quoteResponse", u>>, BeforePayment)'
      BY <1>5, <3>2
    <3> QED
      BY <3>1, <3>3, <3>4 DEF PaidOnce
  <2> QED
    BY <2>2, <2>3
<1>7. HubConsistent'
  BY <1>3 DEF TransfersOnce, HubConsistent
<1>8. \A x \in TransferId : <<"putTransfers", x>> \in sent' => x[2] = 1
  BY <1>1, <1>2 DEF TransfersOnce
<1> QED
  BY <1>1, <1>6, <1>7, <1>8 DEF TransfersOnce, Searching

\* A refund whose await throws may have been paid all the same, because of its
\* quote; nothing is promised from then on.
LEMMA QXThrowTransfers ==
  ASSUME IInv, TransfersOnce, QXThrow
  PROVE  TransfersOnce'
<1>1. /\ QX \in WorkerQueue
      /\ work'[QX].pc = "idle"
      /\ UNCHANGED delivered
  BY QueueNames, DoneWork DEF QXThrow, Throw, IInv
<1>2. ~Undisturbed'
  BY DEF QXThrow, Throw, Undisturbed, IInv, TypeOK, Budget
<1>3. work[QX].pc \in {"idle", "start", "insertTransfer", "postTransfers"}
  BY <1>1 DEF IInv, WorkersOK, WorkerOK, StepsOf, LA, PR, TRR, QR, AR, LF, TR,
     TX, LR, QX
<1>4. \A c \in sent' :
        c \in sent \/ (work[QX].pc = "postTransfers" /\ c = Calling(QX))
  <2>1. PICK arrived \in SUBSET IF work[QX].pc \in CallStep THEN {Calling(QX)}
                                                            ELSE {} :
          sent' = sent \cup arrived
    BY DEF QXThrow, Throw
  <2>2. work[QX].pc \in CallStep => work[QX].pc = "postTransfers"
    BY <1>3 DEF CallStep, TransactionCall, TransferCall
  <2> QED
    BY <2>1, <2>2
<1>5. \A h : HasDelivered(h)' = HasDelivered(h)
  BY <1>1 DEF HasDelivered
<1>6. ASSUME NEW u \in TrxId, NEW k \in 1..MaxDeliver, Paid(u, k)'
      PROVE  HasDelivered(<<"quoteResponse", u>>)
  <2>1. CASE Paid(u, k)
    BY <2>1 DEF TransfersOnce, PaidOnce
  <2>2. CASE ~Paid(u, k)
    <3>1. /\ work[QX].pc = "postTransfers"
          /\ Calling(QX) = <<"postTransfers", <<u, k>>>>
      BY <1>4, <1>6, <2>2 DEF Paid
    <3>2. PICK t \in TrxId, n \in 1..MaxDeliver :
            /\ HasDelivered(<<"quoteResponse", t>>)
            /\ <<"postTransfers", <<u, k>>>> = <<"postTransfers", <<t, n>>>>
      BY <3>1, Paying
    <3>3. u = t
      BY <3>2
    <3> QED
      BY <3>2, <3>3
  <2> QED
    BY <2>1, <2>2
<1>7. \A u \in TrxId : PaidOnce(u)'
  BY <1>2, <1>5, <1>6 DEF PaidOnce
<1>8. HubConsistent'
  BY <1>5 DEF TransfersOnce, HubConsistent
<1>9. \A x \in TransferId : <<"putTransfers", x>> \in sent' => x[2] = 1
  BY <1>4 DEF TransfersOnce, Calling
<1> QED
  BY <1>1, <1>7, <1>8, <1>9 DEF TransfersOnce, Searching

\* quoteResponseHandler
LEMMA QuoteResponseHandlerTransfers ==
  ASSUME IInv, Remembered, TransfersOnce, QuoteResponseHandler
  PROVE  TransfersOnce'
<1>1. QX \in WorkerQueue /\ work \in [WorkerQueue -> Worker]
  BY QueueNames DEF IInv, TypeOK
<1>2. CASE QXUpdateQuote \/ QXInsertTransfer
  <2>1. /\ work[QX].pc \in {"start", "insertTransfer"}
        /\ UNCHANGED <<queue, sent, delivered, budget>>
    BY <1>2 DEF QXUpdateQuote, QXInsertTransfer, At, environment, outputs
  <2>2. \/ work'[QX].pc = "idle"
        \/ /\ work'[QX].pc \in {"insertTransfer", "postTransfers"}
           /\ work'[QX].job = work[QX].job
           /\ work'[QX].trx = work[QX].job[2]
    <3>1. CASE QXUpdateQuote
      <4>1. \/ Done(QX)
            \/ Begin(QX, "insertTransfer", work[QX].job[2], 0, {})
        BY <3>1 DEF QXUpdateQuote
      <4>2. CASE Done(QX)
        BY <1>1, <4>2 DEF Done, Idle, Fresh
      <4>3. CASE Begin(QX, "insertTransfer", work[QX].job[2], 0, {})
        BY <1>1, <4>3 DEF Begin, Worker
      <4> QED
        BY <4>1, <4>2, <4>3
    <3>2. CASE QXInsertTransfer
      <4>1. work[QX].trx = work[QX].job[2]
        BY <3>2 DEF QXInsertTransfer, At, TransfersOnce, Searching
      <4> QED
        BY <1>1, <3>2, <4>1 DEF QXInsertTransfer, Begin
    <3> QED
      BY <1>2, <3>1, <3>2
  <2>3. \A h : Open(QX, h, BeforePayment)' => Open(QX, h, BeforePayment)
    BY <2>1, <2>2 DEF Open, Waits, BeforePayment
  <2>4. \A t \in TrxId, n \in 1..MaxDeliver : Paid(t, n)' => Paid(t, n)
    BY <2>1 DEF Paid
  <2>5. Undisturbed' => Undisturbed
    BY <2>1 DEF Undisturbed
  <2>6. work'[QX].pc \notin Searching => work'[QX].trx = work'[QX].job[2]
    BY <2>2 DEF Searching
  <2> QED
    BY <2>1, <2>3, <2>4, <2>5, <2>6, TransfersLast
<1>3. CASE QXPostTransfers
  BY <1>3, QXPostTransfersTransfers
<1>4. CASE QXThrow
  BY <1>4, QXThrowTransfers
<1> QED
  BY <1>2, <1>3, <1>4 DEF QuoteResponseHandler

\* A worker that takes a quote of a refund finds it unpaid, as it waited.
LEMMA TakeTransfers ==
  ASSUME IInv, TransfersOnce, NEW q \in WorkerQueue, Take(q)
  PROVE  TransfersOnce'
<1>1. UNCHANGED <<sent, delivered, budget>>
  BY DEF Take, outputs
<1>2. /\ QX \in WorkerQueue
      /\ \A h : Open(QX, h, BeforePayment)' => Open(QX, h, BeforePayment)
  BY TakeOpens, QueueNames
<1>3. work'[QX].pc \notin Searching => work'[QX].trx = work'[QX].job[2]
  <2>1. Only(q) /\ work'[q].pc = "start"
    BY TakeWork DEF IInv
  <2> QED
    BY <1>2, <2>1 DEF TransfersOnce, Only, Searching
<1>4. \A t \in TrxId, n \in 1..MaxDeliver : Paid(t, n)' => Paid(t, n)
  BY <1>1 DEF Paid
<1>5. Undisturbed' => Undisturbed
  BY <1>1 DEF Undisturbed
<1> QED
  BY <1>1, <1>2, <1>3, <1>4, <1>5, TransfersLast

\* A step that says nothing and leaves the worker and the queue of the quotes.
LEMMA SilenceTransfers ==
  ASSUME TransfersOnce, Undisturbed' => Undisturbed,
         UNCHANGED <<sent, delivered>>, queue'[QX] = queue[QX],
         work'[QX] = work[QX] \/ work'[QX].pc = "idle"
  PROVE  TransfersOnce'
<1>1. \A h : Open(QX, h, BeforePayment)' => Open(QX, h, BeforePayment)
  BY DEF Open, Waits, BeforePayment
<1>2. work'[QX].pc \notin Searching => work'[QX].trx = work'[QX].job[2]
  BY DEF TransfersOnce, Searching
<1>3. \A t \in TrxId, n \in 1..MaxDeliver : Paid(t, n)' => Paid(t, n)
  BY DEF Paid
<1> QED
  BY <1>1, <1>2, <1>3, TransfersLast

\* What terminals send pays nothing.
LEMMA TerminalTransfers ==
  ASSUME IInv, TransfersOnce, NEW d \in Device, Terminal(d)
  PROVE  TransfersOnce'
<1>1. \A type, p, m :
        \A q \in LegacyQueue : Receive(type, q, d, p, m) =>
          UNCHANGED <<sent, delivered, work, budget>> /\ queue'[QX] = queue[QX]
  <2>1. QX \notin LegacyQueue /\ QX \in Queue /\ LegacyQueue \subseteq Queue
    BY QueueNames DEF LegacyQueue, QX, Queue
  <2>2. queue \in [Queue -> Seq(Job)]
    BY DEF IInv, TypeOK
  <2> QED
    BY <2>1, <2>2 DEF Receive, outputs
<1>2. UNCHANGED <<sent, delivered, work, budget>> /\ queue'[QX] = queue[QX]
  BY <1>1
  DEF Terminal, SendAuthorizationRequest, SendFinancialRequest,
      SendReversalAdvice, LegacyQueue
<1> QED
  BY <1>2, SilenceTransfers DEF Undisturbed

\* Nor do time and crashes.
LEMMA TimeTransfers ==
  ASSUME IInv, TransfersOnce,
         \/ \E t \in TrxId : ExpireTransaction(t) \/ ExpireQuote(t)
         \/ UNCHANGED vars
         \/ Crash
  PROVE  TransfersOnce'
<1>1. UNCHANGED <<sent, delivered, queue>>
  BY DEF ExpireTransaction, ExpireQuote, Crash, outputs, vars
<1>2. Undisturbed' => Undisturbed
  BY DEF ExpireTransaction, ExpireQuote, Expiry, Crash, vars, Undisturbed, IInv,
     TypeOK, Budget
<1>3. work'[QX] = work[QX] \/ work'[QX].pc = "idle"
  BY QueueNames
  DEF ExpireTransaction, ExpireQuote, Crash, vars, Idle, Fresh
<1> QED
  BY <1>1, <1>2, <1>3, SilenceTransfers

\* What the hub says for the first time has not been acted on, and it does not
\* contradict itself.
LEMMA DeliverTransfers ==
  ASSUME IInv, Remembered, TransfersOnce, NEW h \in HubMessage, Deliver(h)
  PROVE  TransfersOnce'
<1>1. /\ UNCHANGED <<work, sent>>
      /\ queue' = [queue EXCEPT ![QueueOf(h)] = Append(@, h)]
      /\ delivered' = [delivered EXCEPT ![h] = @ + 1]
      /\ \A k \in Contradicts(h) : ~HasDelivered(k)
  BY DEF Deliver, outputs
<1>2. delivered \in [HubMessage -> 0..MaxDeliver] /\ budget \in Budget
  BY DEF IInv, TypeOK
<1>3. \A k : HasDelivered(k)' = HasDelivered(k) \/ k = h
  BY <1>1, <1>2 DEF HasDelivered
<1>4. \A k \in HubMessage : HasDelivered(k) => HasDelivered(k)'
  BY <1>1, <1>2, BoundsAssumption DEF HasDelivered
<1>5. Undisturbed' => Undisturbed /\ ~HasDelivered(h)
  <2>1. \/ delivered[h] = 0 /\ budget' = budget
        \/ budget.repeats > 0 /\ budget' = [budget EXCEPT !.repeats = @ - 1]
    BY DEF Deliver
  <2> QED
    BY <1>2, <2>1, BoundsAssumption DEF Undisturbed, Budget, HasDelivered
<1>6. \A k : Waits(QX, k)' => Waits(QX, k) \/ k = h
  <2>1. QueueOf(h) \in Queue /\ h \in Job /\ QX \in Queue
    BY KindOf, QueueNames DEF Job, Queue, WorkerQueue
  <2>2. /\ \A p \in Queue : p # QueueOf(h) => queue'[p] = queue[p]
        /\ \A k : Waits(QueueOf(h), k)' => Waits(QueueOf(h), k) \/ k = h
    BY <1>1, <2>1, AppendWaits
  <2> QED
    BY <2>1, <2>2 DEF Waits
<1>7. ASSUME NEW t \in TrxId
      PROVE  PaidOnce(t)'
  <2>1. PaidOnce(t) /\ <<"quoteResponse", t>> \in HubMessage
    BY DEF TransfersOnce, HubMessage, AboutTransaction
  <2>2. \A n \in 1..MaxDeliver : Paid(t, n)' = Paid(t, n)
    BY <1>1 DEF Paid
  <2>3. Open(QX, <<"quoteResponse", t>>, BeforePayment)'
          => \/ Open(QX, <<"quoteResponse", t>>, BeforePayment)
             \/ h = <<"quoteResponse", t>>
    BY <1>1, <1>6 DEF Open
  <2>4. Undisturbed' /\ h = <<"quoteResponse", t>> =>
          \A n \in 1..MaxDeliver : ~Paid(t, n)
    BY <1>5, <2>1 DEF PaidOnce
  <2> QED
    BY <1>4, <1>5, <2>1, <2>2, <2>3, <2>4 DEF PaidOnce
<1>8. HubConsistent'
  <2>1. ASSUME NEW t \in TrxId, HasDelivered(<<"quoteResponse", t>>)',
               HasDelivered(<<"quoteError", t>>)'
        PROVE  FALSE
    <3>1. CASE h = <<"quoteResponse", t>>
      BY <1>1, <1>3, <2>1, <3>1 DEF Contradicts
    <3>2. CASE h = <<"quoteError", t>>
      BY <1>1, <1>3, <2>1, <3>2 DEF Contradicts
    <3> QED
      BY <1>3, <2>1, <3>1, <3>2 DEF TransfersOnce, HubConsistent
  <2>2. ASSUME NEW x \in TransferId, HasDelivered(<<"committed", x>>)',
               HasDelivered(<<"transferError", x>>)'
        PROVE  FALSE
    <3>1. CASE h = <<"committed", x>>
      BY <1>1, <1>3, <2>2, <3>1 DEF Contradicts
    <3>2. CASE h = <<"transferError", x>>
      BY <1>1, <1>3, <2>2, <3>2 DEF Contradicts
    <3> QED
      BY <1>3, <2>2, <3>1, <3>2 DEF TransfersOnce, HubConsistent
  <2> QED
    BY <2>1, <2>2 DEF HubConsistent
<1> QED
  BY <1>1, <1>7, <1>8 DEF TransfersOnce

-----------------------------------------------------------------------------
(* The history is inductive. *)

\* Nothing has happened yet.
LEMMA HistoryInit ==
  ASSUME Init
  PROVE  History
<1>1. /\ \A q \in WorkerQueue : work[q].pc = "idle" /\ queue[q] = <<>>
      /\ \A q \in LegacyQueue : q \in WorkerQueue
      /\ QR \in WorkerQueue /\ AR \in WorkerQueue /\ TR \in WorkerQueue
      /\ LR \in WorkerQueue /\ QX \in WorkerQueue
      /\ links = {} /\ sent = {} /\ responses = {}
  BY QueueNames DEF Init, Idle, Fresh, Queue, WorkerQueue
<1>2. \A q \in WorkerQueue : \A j : ~Waits(q, j)
  BY <1>1 DEF Waits
<1>3. JobsOnce
  BY <1>1 DEF JobsOnce, ServedOnce
<1>4. LegacyJobsFresh
  BY <1>1, <1>2 DEF LegacyJobsFresh, BeforeLink, BeforeRefund
<1>5. LinkedOnce /\ OwnTransaction /\ CausesKnown /\ OneVerdict
  BY <1>1 DEF LinkedOnce, OwnTransaction, Searching, CausesKnown, CausesOf,
     Fulfilled, Refused, OneVerdict
<1>6. \A q \in {QR, AR, TR} : \A j :
        ~Open(q, j, Undecided) /\ ~Open(q, j, BeforeFulfil)
  BY <1>1, <1>2 DEF Open, Undecided, BeforeFulfil
<1>7. VerdictsKnown
  BY <1>1, <1>6 DEF VerdictsKnown, QuoteOpen, AuthorizationOpen, TransferOpen,
     RefusalFinal, Fulfilled
<1>8. TransfersOnce
  <2>1. \A h \in HubMessage : ~HasDelivered(h)
    BY DEF Init, HasDelivered
  <2>2. HubConsistent
    BY <2>1 DEF HubConsistent, HubMessage, AboutTransaction, AboutTransfer
  <2>3. \A t \in TrxId : PaidOnce(t)
    BY <1>1 DEF PaidOnce, Paid
  <2> QED
    BY <1>1, <2>2, <2>3 DEF TransfersOnce, Searching
<1> QED
  BY <1>3, <1>4, <1>5, <1>7, <1>8 DEF History, Remembered

\* No step of a handler takes up what it has left, says what it has no reason
\* for, or contradicts what has been said.
LEMMA HandlerRemembered ==
  ASSUME IInv, Remembered, TransfersOnce, LinkedOriginalsKept, Handler
  PROVE  Remembered'
BY LegacyAuthorizationRequestHandlerRemembered,
   PartiesResponseHandlerRemembered,
   TransactionRequestResponseHandlerRemembered,
   QuotesRequestHandlerRemembered, AuthorizationRequestHandlerRemembered,
   LegacyFinancialRequestHandlerRemembered, TransferRequestHandlerRemembered,
   TransferResponseHandlerRemembered, LegacyReversalHandlerRemembered,
   QuoteResponseHandlerRemembered
DEF Handler

\* Nor does one pay a refund a second time.
LEMMA HandlerTransfers ==
  ASSUME IInv, Remembered, TransfersOnce, Handler
  PROVE  TransfersOnce'
<1>1. \/ QuoteResponseHandler
      \/ \E q \in {LA, PR, TRR, QR, AR, LF, TR, TX, LR} : Elsewhere(q)
  BY LegacyAuthorizationRequestHandlerElsewhere,
     PartiesResponseHandlerElsewhere,
     TransactionRequestResponseHandlerElsewhere,
     QuotesRequestHandlerElsewhere, AuthorizationRequestHandlerElsewhere,
     LegacyFinancialRequestHandlerElsewhere, TransferRequestHandlerElsewhere,
     TransferResponseHandlerElsewhere, LegacyReversalHandlerElsewhere
  DEF Handler
<1>2. ASSUME NEW q \in {LA, PR, TRR, QR, AR, LF, TR, TX, LR}
      PROVE  q \in WorkerQueue /\ q # QX
  BY QueueNames DEF LA, PR, TRR, QR, AR, LF, TR, TX, LR, QX
<1> QED
  BY <1>1, <1>2, ElsewhereTransfers, QuoteResponseHandlerTransfers

\* No step falsifies the history.
THEOREM HistoryInductive == IInv /\ History /\ [Next]_vars => History'
<1> SUFFICES ASSUME IInv, Remembered, TransfersOnce, [Next]_vars
             PROVE  Remembered' /\ TransfersOnce'
  BY DEF History
<1>1. LinkedOriginalsKept
  BY LinkedOriginalsStep DEF vars, LinkedOriginalsKept
<1>2. CASE \E q \in WorkerQueue : Take(q)
  BY <1>1, <1>2, TakeRemembered, TakeTransfers
<1>3. CASE Handler
  BY <1>1, <1>3, HandlerRemembered, HandlerTransfers
<1>4. CASE \E d \in Device : Terminal(d)
  BY <1>4, TerminalRemembered, TerminalTransfers
<1>5. CASE \E h \in HubMessage : Deliver(h)
  BY <1>1, <1>5, DeliverRemembered, DeliverTransfers
<1>6. CASE \/ \E t \in TrxId : ExpireTransaction(t) \/ ExpireQuote(t)
           \/ UNCHANGED vars
  BY <1>1, <1>6, TimeRemembered, TimeTransfers
<1>7. CASE Crash
  BY <1>1, <1>7, CrashRemembered, TimeTransfers
<1> QED
  BY <1>2, <1>3, <1>4, <1>5, <1>6, <1>7 DEF Next

\* Every reachable state has the history its ledgers, links and queues tell.
THEOREM HistoryInvariance == Spec => []History
<1>1. Init => IInv /\ History
  BY InvariantInit, HistoryInit
<1>2. (IInv /\ History) /\ [Next]_vars => (IInv /\ History)'
  BY InvariantInductive, HistoryInductive
<1> QED
  BY <1>1, <1>2, PTL DEF Spec

\* No terminal is told both that its request is approved and that it is
\* invalid, as long as the hub repeats nothing and no await throws
\* (authorization-request-handler.ts, quote-request-handler.ts,
\* transfer-request-handler.ts, transfer-response-handler.ts,
\* legacy-reversals-handler.ts).
THEOREM VerdictSafety == Spec => []OneVerdict
<1>1. History => OneVerdict
  BY DEF History, Remembered
<1> QED
  BY <1>1, HistoryInvariance, PTL

\* By its history a fulfilled transfer is not refused.
LEMMA HistoryForbidsRefusal ==
  ASSUME History
  PROVE  NoRefusalAfterFulfilment
<1>1. SUFFICES ASSUME Undisturbed, NEW x \in TransferId,
                      <<"putTransfers", x>> \in sent,
                      <<"putTransfersError", x>> \in sent
               PROVE  FALSE
  BY DEF NoRefusalAfterFulfilment
<1>2. PICK t \in TrxId, n \in 1..MaxDeliver : x = <<t, n>>
  BY DEF TransferId
<1>3. ~(Fulfilled(t) /\ Refused(t))
  BY <1>1 DEF History, Remembered, VerdictsKnown, RefusalFinal
<1> QED
  BY <1>1, <1>2, <1>3 DEF Fulfilled, Refused

\* As long as the hub repeats nothing and no await throws, it is not sent an
\* error for a transfer that has been fulfilled, or the reverse
\* (transfer-request-handler.ts).
THEOREM FulfilmentIsFinal == Spec => []NoRefusalAfterFulfilment
BY HistoryForbidsRefusal, HistoryInvariance, PTL
=============================================================================
