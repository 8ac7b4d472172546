----------------------------- MODULE CashProofs -----------------------------
(***************************************************************************)
(* Orchestrator implements CashPromise: every step of a handler, of a      *)
(* terminal or of the hub is a step of CashPromise or one that no customer *)
(* can see.                                                                *)
(***************************************************************************)
EXTENDS CashRefinement, HistoryProofs

-----------------------------------------------------------------------------
(* Steps of CashPromise. *)

\* What has happened and is not undone.
Lasting ==
  \A t \in TrxId : \A s \in StepsOfTrx(t) : Happened(t, s) => Happened(t, s)'

\* Nothing has happened but step s of t.
OnlyHappens(t, s) ==
  \A u \in TrxId : \A r \in StepsOfTrx(u) :
    Happened(u, r)' => Happened(u, r) \/ (u = t /\ r = s)

\* A step in which nothing happens.
LEMMA NothingHappens ==
  ASSUME OwnersKept, Lasting,
         \A t \in TrxId : \A s \in StepsOfTrx(t) : Happened(t, s)' => Happened(t, s)
  PROVE  UNCHANGED Promise!promises
<1>1. \A t \in TrxId : StepsOfTrx(t)' = StepsOfTrx(t)
  BY DEF OwnersKept, StepsOfTrx, IsRefund
<1>2. \A t \in TrxId : {s \in StepsOfTrx(t) : Happened(t, s)}'
                         = {s \in StepsOfTrx(t) : Happened(t, s)}
  BY <1>1 DEF Lasting
<1> QED
  BY <1>2 DEF Promise!promises, OwnersKept

\* The first time that something happens.
LEMMA FirstTime ==
  ASSUME OwnersKept, Lasting, NEW t \in TrxId, NEW s \in StepsOfTrx(t),
         OnlyHappens(t, s), transactions[t].lpsKey # None,
         \A b \in Promise!Before(s) : b \in StepsOfTrx(t) /\ Happened(t, b)
  PROVE  [Promise!PromiseNext]_Promise!promises
<1> DEFINE past(u) == {r \in StepsOfTrx(u) : Happened(u, r)}
<1>1. \A u \in TrxId : StepsOfTrx(u)' = StepsOfTrx(u)
  BY DEF OwnersKept, StepsOfTrx, IsRefund
<1>2. CASE Happened(t, s) \/ ~Happened(t, s)'
  <2>1. \A u \in TrxId : \A r \in StepsOfTrx(u) : Happened(u, r)' => Happened(u, r)
    BY <1>2 DEF OnlyHappens, Lasting
  <2> QED
    BY <2>1, NothingHappens
<1>3. CASE ~Happened(t, s) /\ Happened(t, s)'
  <2>1. \A u \in TrxId : u # t => past(u)' = past(u)
    BY <1>1 DEF Lasting, OnlyHappens
  <2>2. past(t)' = past(t) \cup {s} /\ s \notin past(t)
    BY <1>1, <1>3 DEF Lasting, OnlyHappens
  <2>3. Promise!Before(s) \subseteq past(t)
    OBVIOUS
  <2> HIDE DEF past
  <2>4. [u \in TrxId |-> past(u)'] = [[u \in TrxId |-> past(u)] EXCEPT ![t] = @ \cup {s}]
    BY <2>1, <2>2
  <2>5. Promise!Happen(t, s)
    BY <2>2, <2>3, <2>4 DEF Promise!Happen, Promise!Opened, OwnersKept, past
  <2>6. s \in Promise!StepsFor(t)
    BY DEF Promise!StepsFor, Promise!WithdrawalSteps, Promise!RefundSteps,
       StepsOfTrx, IsRefund
  <2> QED
    BY <2>5, <2>6 DEF Promise!PromiseNext
<1> QED
  BY <1>2, <1>3

-----------------------------------------------------------------------------
(* What a step adds to calls, answers, links and commitments. *)

\* The calls that customers notice, and what has happened once they are made.
VisibleCall ==
  {"postTransactionRequests", "putQuotes", "putAuthorizations", "putTransfers",
   "postQuotes", "postTransfers"}
StepOf(call) ==
  CASE call = "postTransactionRequests" -> "requested"
    [] call = "putQuotes" -> "quoted"
    [] call = "putAuthorizations" -> "entered"
    [] call = "putTransfers" -> "fulfilled"
    [] call = "postQuotes" -> "asked"
    [] call = "postTransfers" -> "paid"
CallOf(c) == IF c[1] \in TransferCall THEN c[2][1] ELSE c[2]

\* Nothing is added but what is named.
CallsAdd(C) == \A c \in sent' : c[1] \in VisibleCall => c \in sent \cup C
AnswersAdd(A) ==
  \A m \in MsgId :
    <<m, "approved">> \in responses' => <<m, "approved">> \in responses \/ m \in A
LinksAdd(L) == links' \subseteq links \cup L
CommitsAdd(X) == \A x \in TransferId : Committed(x)' => Committed(x) \/ x \in X

\* Nothing is taken away.
LedgersGrow ==
  /\ sent \subseteq sent'
  /\ responses \subseteq responses'
  /\ links \subseteq links'
  /\ DeliveredStay
  /\ MessagesStay

CallStepsOfTrx == {"requested", "quoted", "entered", "fulfilled", "asked", "paid"}
AnswerStepsOfTrx == {"shown", "dispensed", "confirmed"}
MoneyStepsOfTrx == {"debited", "credited"}

AnswerType(s) ==
  CASE s = "shown" -> "authorizationRequest"
    [] s = "dispensed" -> "financialRequest"
    [] s = "confirmed" -> "reversalRequest"

\* Every step of a transaction is one of these.
LEMMA StepNames ==
  ASSUME NEW t \in TrxId, NEW s \in StepsOfTrx(t)
  PROVE  /\ s \in CallStepsOfTrx \cup AnswerStepsOfTrx \cup MoneyStepsOfTrx
                    \cup {"reversed"}
         /\ s \in {"confirmed", "credited", "asked", "paid"} <=> IsRefund(t)
BY DEF StepsOfTrx, CallStepsOfTrx, AnswerStepsOfTrx, MoneyStepsOfTrx

\* What happens by a call.
LEMMA HappensByCall ==
  ASSUME NEW C, CallsAdd(C), NEW t \in TrxId, NEW s \in CallStepsOfTrx,
         Happened(t, s)', ~Happened(t, s)
  PROVE  \E c \in C : c[1] \in VisibleCall /\ s = StepOf(c[1]) /\ t = CallOf(c)
<1>1. ASSUME NEW call \in VisibleCall, call \notin TransferCall,
             <<call, t>> \in sent', <<call, t>> \notin sent, s = StepOf(call)
      PROVE  \E c \in C : c[1] \in VisibleCall /\ s = StepOf(c[1]) /\ t = CallOf(c)
  BY <1>1 DEF CallsAdd, CallOf
<1>2. ASSUME NEW call \in VisibleCall, call \in TransferCall,
             Made(call, t)', ~Made(call, t), s = StepOf(call)
      PROVE  \E c \in C : c[1] \in VisibleCall /\ s = StepOf(c[1]) /\ t = CallOf(c)
  <2>1. PICK n \in 1..MaxDeliver : <<call, <<t, n>>>> \in sent'
    BY <1>2 DEF Made, TransferOf
  <2>2. <<call, <<t, n>>>> \notin sent
    BY <1>2 DEF Made, TransferOf
  <2> QED
    BY <1>2, <2>1, <2>2 DEF CallsAdd, CallOf
<1>3. CASE s \in {"requested", "quoted", "entered", "asked"}
  BY <1>1, <1>3 DEF Happened, StepOf, VisibleCall, TransferCall
<1>4. CASE s \in {"fulfilled", "paid"}
  BY <1>2, <1>4 DEF Happened, StepOf, VisibleCall, TransferCall
<1> QED
  BY <1>3, <1>4 DEF CallStepsOfTrx

\* What happens by a commitment of the hub.
LEMMA HappensByMoney ==
  ASSUME NEW X, CommitsAdd(X), NEW t \in TrxId, NEW s \in MoneyStepsOfTrx,
         Happened(t, s)', ~Happened(t, s)
  PROVE  \E x \in X : x[1] = t
<1>1. Moved(t)' /\ ~Moved(t)
  BY DEF Happened, MoneyStepsOfTrx
<1>2. PICK n \in 1..MaxDeliver : Committed(<<t, n>>)'
  BY <1>1 DEF Moved, TransferOf
<1>3. ~Committed(<<t, n>>) /\ <<t, n>> \in TransferId
  BY <1>1 DEF Moved, TransferOf, TransferId
<1> QED
  BY <1>2, <1>3 DEF CommitsAdd

\* What happens by an answer or by a link.
LEMMA HappensByAnswer ==
  ASSUME IInv, MessagesStay, NEW A, AnswersAdd(A), NEW L, LinksAdd(L),
         \A l \in L : l \in TrxId \X MsgId /\ Stored(l[2]),
         NEW t \in TrxId, NEW s \in AnswerStepsOfTrx,
         Happened(t, s)', ~Happened(t, s)
  PROVE  \E m \in MsgId :
           /\ lpsMessages[m].type = AnswerType(s)
           /\ <<t, m>> \in links \cup L
           /\ m \in A \/ <<m, "approved">> \in responses
           /\ m \in A \/ <<t, m>> \in L
<1>1. Approved(t, AnswerType(s))' /\ ~Approved(t, AnswerType(s))
  BY DEF Happened, AnswerStepsOfTrx, AnswerType
<1>2. PICK m \in MsgId :
        /\ <<t, m>> \in links' /\ lpsMessages'[m].type = AnswerType(s)
        /\ <<m, "approved">> \in responses'
  BY <1>1 DEF Approved, Linked
<1>3. <<t, m>> \in links \cup L /\ (m \in A \/ <<m, "approved">> \in responses)
  BY <1>2 DEF AnswersAdd, LinksAdd
<1>4. Stored(m)
  BY <1>3 DEF IInv, LinksOK
<1>5. lpsMessages[m].type = AnswerType(s)
  BY <1>2, <1>4 DEF MessagesStay
<1>6. ~(<<t, m>> \in links /\ <<m, "approved">> \in responses)
  BY <1>1, <1>5 DEF Approved, Linked
<1> QED
  BY <1>3, <1>5, <1>6

\* What happens by a reversal advice.
LEMMA HappensByAdvice ==
  ASSUME IInv, MessagesStay, NEW L, LinksAdd(L),
         \A l \in L : l \in TrxId \X MsgId /\ Stored(l[2]),
         NEW t \in TrxId, Happened(t, "reversed")', ~Happened(t, "reversed")
  PROVE  \E m \in MsgId :
           <<t, m>> \in L /\ lpsMessages[m].type = "reversalRequest"
<1>1. Linked(t, "reversalRequest")' # {} /\ Linked(t, "reversalRequest") = {}
  BY DEF Happened
<1>2. PICK m \in MsgId :
        <<t, m>> \in links' /\ lpsMessages'[m].type = "reversalRequest"
  BY <1>1 DEF Linked
<1>3. <<t, m>> \in links \cup L
  BY <1>2 DEF LinksAdd
<1>4. Stored(m)
  BY <1>3 DEF IInv, LinksOK
<1>5. lpsMessages[m].type = "reversalRequest"
  BY <1>2, <1>4 DEF MessagesStay
<1> QED
  BY <1>1, <1>3, <1>5 DEF Linked

\* No answer and no link is new.
LEMMA NoAnswerHappens ==
  ASSUME IInv, MessagesStay, AnswersAdd({}), LinksAdd({}), NEW t \in TrxId,
         NEW s \in AnswerStepsOfTrx \cup {"reversed"}, Happened(t, s)'
  PROVE  Happened(t, s)
<1>1. PICK none \in {{}} : none = {}
  OBVIOUS
<1>2. /\ AnswersAdd(none) /\ LinksAdd(none)
      /\ \A l \in none : l \in TrxId \X MsgId /\ Stored(l[2])
  BY <1>1
<1>3. ASSUME s \in AnswerStepsOfTrx, ~Happened(t, s)
      PROVE  FALSE
  <2>1. \E m \in MsgId : m \in none \/ <<t, m>> \in none
    BY <1>2, <1>3, HappensByAnswer
  <2> QED
    BY <1>1, <2>1
<1>4. ASSUME s = "reversed", ~Happened(t, s)
      PROVE  FALSE
  <2>1. \E m \in MsgId : <<t, m>> \in none
    BY <1>2, <1>4, HappensByAdvice
  <2> QED
    BY <1>1, <2>1
<1> QED
  BY <1>3, <1>4

\* What has happened is not undone when nothing is taken away.
LEMMA LedgersLast ==
  ASSUME IInv, LedgersGrow
  PROVE  Lasting
<1>1. SUFFICES ASSUME NEW t \in TrxId, NEW s \in StepsOfTrx(t), Happened(t, s)
               PROVE  Happened(t, s)'
  BY DEF Lasting
<1>2. ASSUME NEW type, NEW m \in Linked(t, type)
      PROVE  m \in Linked(t, type)'
  BY <1>2 DEF IInv, LinksOK, LedgersGrow, MessagesStay, Linked, Stored
<1>3. \A type : Approved(t, type) => Approved(t, type)'
  <2>1. SUFFICES ASSUME NEW type, Approved(t, type) PROVE Approved(t, type)'
    OBVIOUS
  <2>2. PICK m \in Linked(t, type) : <<m, "approved">> \in responses
    BY <2>1 DEF Approved
  <2>3. m \in Linked(t, type)' /\ <<m, "approved">> \in responses'
    BY <1>2, <2>2 DEF LedgersGrow
  <2> QED
    BY <2>3 DEF Approved
<1>4. Moved(t) => Moved(t)'
  BY DEF LedgersGrow, DeliveredStay, Moved, TransferOf, Committed, HasDelivered,
     HubMessage, AboutTransfer, TransferId
<1>5. \A call : Made(call, t) => Made(call, t)'
  BY DEF LedgersGrow, Made
<1>6. CASE s \in CallStepsOfTrx
  BY <1>1, <1>5, <1>6 DEF CallStepsOfTrx, Happened, LedgersGrow
<1>7. CASE s \in AnswerStepsOfTrx
  BY <1>1, <1>3, <1>7 DEF AnswerStepsOfTrx, Happened
<1>8. CASE s \in MoneyStepsOfTrx
  BY <1>1, <1>4, <1>8 DEF MoneyStepsOfTrx, Happened
<1>9. CASE s = "reversed"
  BY <1>1, <1>2, <1>9 DEF Happened
<1> QED
  BY <1>6, <1>7, <1>8, <1>9, StepNames

-----------------------------------------------------------------------------
(* Steps that customers do not notice, and those of one kind. *)

Silent == CallsAdd({}) /\ AnswersAdd({}) /\ LinksAdd({}) /\ CommitsAdd({})

\* A step that adds nothing customers notice.
LEMMA SilentStep ==
  ASSUME IInv, LedgersGrow, Silent
  PROVE  \A t \in TrxId : \A s \in StepsOfTrx(t) : Happened(t, s)' => Happened(t, s)
<1>1. SUFFICES ASSUME NEW t \in TrxId, NEW s \in StepsOfTrx(t),
                      Happened(t, s)', ~Happened(t, s)
               PROVE  FALSE
  OBVIOUS
<1>2. MessagesStay
  BY DEF LedgersGrow
<1>3. CASE s \in CallStepsOfTrx
  BY <1>1, <1>3, HappensByCall DEF Silent
<1>4. CASE s \in AnswerStepsOfTrx
  BY <1>1, <1>2, <1>4, NoAnswerHappens DEF Silent
<1>5. CASE s \in MoneyStepsOfTrx
  BY <1>1, <1>5, HappensByMoney DEF Silent
<1>6. CASE s = "reversed"
  BY <1>1, <1>2, <1>6, NoAnswerHappens DEF Silent
<1> QED
  BY <1>3, <1>4, <1>5, <1>6, StepNames

\* Such a step stutters.
LEMMA SilentStutters ==
  ASSUME IInv, OwnersKept, LedgersGrow, Silent
  PROVE  UNCHANGED Promise!promises
BY SilentStep, LedgersLast, NothingHappens

\* Transactions that have a worker have a terminal.
LEMMA OwnerKnown ==
  ASSUME Owned, NEW t \in TrxId, Withdrawal(t) \/ Refund(t)
  PROVE  transactions[t].lpsKey # None /\ transactions[t].lpsKey \in Device
BY NoneAssumption DEF Owned, Withdrawal, Refund

\* Each visible call is made by one worker, when it may be.
LEMMA CallInOrder ==
  ASSUME IInv, Remembered, NEW q \in WorkerQueue, work[q].pc \in VisibleCall
  PROVE  /\ work[q].trx \in TrxId
         /\ Withdrawal(work[q].trx) \/ Refund(work[q].trx)
         /\ StepOf(work[q].pc) \in StepsOfTrx(work[q].trx)
         /\ \A b \in Promise!Before(StepOf(work[q].pc)) :
              b \in StepsOfTrx(work[q].trx) /\ Happened(work[q].trx, b)
<1>1. work[q].pc \in StepsOf(q) /\ work[q].pc \notin Searching
  BY DEF IInv, WorkersOK, WorkerOK, VisibleCall, Searching
<1>2. PICK t \in TrxId : t = work[q].trx
  BY <1>1, TrxOf
<1>3. CASE work[q].pc = "postTransactionRequests"
  <2>1. q = PR
    BY <1>1, <1>3, QueueNames DEF StepsOf
  <2>2. Withdrawal(t)
    BY <1>1, <1>2, <2>1, TrxOf
  <2> QED
    BY <1>2, <1>3, <2>2 DEF StepOf, StepsOfTrx, Withdrawal, Promise!Before
<1>4. CASE work[q].pc = "putQuotes"
  <2>1. q = QR
    BY <1>1, <1>4, QueueNames DEF StepsOf
  <2>2. Withdrawal(t)
    BY <1>1, <1>2, <2>1, TrxOf
  <2>3. PromptedBy(<<"quoteRequest", t>>) \cap sent # {}
    BY <1>1, <1>2, <2>1, HubWork, KindNames
  <2>4. <<"postTransactionRequests", t>> \in sent
    BY <2>3 DEF PromptedBy
  <2> QED
    BY <1>2, <1>4, <2>2, <2>4
    DEF StepOf, StepsOfTrx, Withdrawal, Promise!Before, Happened
<1>5. CASE work[q].pc = "putAuthorizations"
  <2>1. q = LF
    BY <1>1, <1>5, QueueNames DEF StepsOf
  <2>2. Withdrawal(t)
    BY <1>1, <1>2, <2>1, TrxOf
  <2>3. Shown(t)
    BY <1>2, <1>5, <2>1 DEF IInv, Knowledge, KnowsLF
  <2>4. Happened(t, "shown")
    BY <2>3 DEF Shown, Happened, Approved
  <2> QED
    BY <1>2, <1>5, <2>2, <2>4 DEF StepOf, StepsOfTrx, Withdrawal, Promise!Before
<1>6. CASE work[q].pc = "putTransfers"
  <2>1. q = TR
    BY <1>1, <1>6, QueueNames DEF StepsOf
  <2>2. Withdrawal(t)
    BY <1>1, <1>2, <2>1, TrxOf
  <2>3. PromptedBy(<<"transferRequest", t>>) \cap sent # {}
    BY <1>1, <1>2, <2>1, HubWork, KindNames
  <2>4. <<"putAuthorizations", t>> \in sent
    BY <2>3 DEF PromptedBy
  <2> QED
    BY <1>2, <1>6, <2>2, <2>4
    DEF StepOf, StepsOfTrx, Withdrawal, Promise!Before, Happened
<1>7. CASE work[q].pc = "postQuotes"
  <2>1. q = LR
    BY <1>1, <1>7, QueueNames DEF StepsOf
  <2>2. Refund(t)
    BY <1>2, <1>7, <2>1 DEF IInv, Knowledge, KnowsLR
  <2> QED
    BY <1>2, <1>7, <2>2 DEF StepOf, StepsOfTrx, Refund, Promise!Before
<1>8. CASE work[q].pc = "postTransfers"
  <2>1. q = QX
    BY <1>1, <1>8, QueueNames DEF StepsOf
  <2>2. Refund(t) /\ <<"postQuotes", t>> \in sent
    BY <1>1, <1>2, <2>1, TrxOf
  <2> QED
    BY <1>2, <1>8, <2>2
    DEF StepOf, StepsOfTrx, Refund, Promise!Before, Happened
<1> QED
  BY <1>3, <1>4, <1>5, <1>6, <1>7, <1>8 DEF VisibleCall

\* A worker that has made its call, or not.
LEMMA CallKeeps ==
  ASSUME IInv, Remembered, Owned, OwnersKept, LedgersGrow, NEW q \in WorkerQueue,
         CallsAdd({Calling(q)}), AnswersAdd({}), LinksAdd({}), CommitsAdd({})
  PROVE  [Promise!PromiseNext]_Promise!promises
<1>1. Calling(q)[1] = work[q].pc
  BY DEF Calling
<1>2. CASE work[q].pc \notin VisibleCall
  <2>1. Silent
    BY <1>1, <1>2 DEF Silent, CallsAdd
  <2> QED
    BY <2>1, SilentStutters
<1>3. CASE work[q].pc \in VisibleCall
  <2>1. PICK t \in TrxId : t = work[q].trx
    BY <1>3, CallInOrder
  <2>2. PICK s \in StepsOfTrx(t) : s = StepOf(work[q].pc)
    BY <1>3, <2>1, CallInOrder
  <2>3. transactions[t].lpsKey # None
    BY <1>3, <2>1, CallInOrder, OwnerKnown
  <2>4. \A b \in Promise!Before(s) : b \in StepsOfTrx(t) /\ Happened(t, b)
    BY <1>3, <2>1, <2>2, CallInOrder
  <2>5. CallOf(Calling(q)) = t
    BY <2>1 DEF CallOf, Calling, WorkTransfer
  <2>6. OnlyHappens(t, s)
    <3>1. SUFFICES ASSUME NEW u \in TrxId, NEW r \in StepsOfTrx(u),
                          Happened(u, r)', ~Happened(u, r)
                   PROVE  u = t /\ r = s
      BY DEF OnlyHappens
    <3>2. MessagesStay
      BY DEF LedgersGrow
    <3>3. CASE r \in CallStepsOfTrx
      BY <1>1, <2>2, <2>5, <3>1, <3>3, HappensByCall
    <3>4. CASE r \in AnswerStepsOfTrx
      BY <3>1, <3>2, <3>4, NoAnswerHappens
    <3>5. CASE r \in MoneyStepsOfTrx
      BY <3>1, <3>5, HappensByMoney
    <3>6. CASE r = "reversed"
      BY <3>1, <3>2, <3>6, NoAnswerHappens
    <3> QED
      BY <3>3, <3>4, <3>5, <3>6, StepNames
  <2> QED
    BY <2>3, <2>4, <2>6, LedgersLast, FirstTime
<1> QED
  BY <1>2, <1>3

\* A terminal has been told "approved" about step s of t, which was due.
LEMMA AnswerKeeps ==
  ASSUME IInv, Remembered, OwnersKept, LedgersGrow, NEW t \in TrxId,
         NEW s \in StepsOfTrx(t), s \in AnswerStepsOfTrx,
         NEW m \in Linked(t, AnswerType(s)),
         CallsAdd({}), AnswersAdd({m}), LinksAdd({}), CommitsAdd({}),
         transactions[t].lpsKey # None,
         \A b \in Promise!Before(s) : b \in StepsOfTrx(t) /\ Happened(t, b)
  PROVE  [Promise!PromiseNext]_Promise!promises
<1>1. m \in MsgId /\ <<t, m>> \in links /\ lpsMessages[m].type = AnswerType(s)
  BY DEF Linked
<1>2. OnlyHappens(t, s)
  <2>1. SUFFICES ASSUME NEW u \in TrxId, NEW r \in StepsOfTrx(u),
                        Happened(u, r)', ~Happened(u, r)
                 PROVE  u = t /\ r = s
    BY DEF OnlyHappens
  <2>2. MessagesStay
    BY DEF LedgersGrow
  <2>3. CASE r \in CallStepsOfTrx
    BY <2>1, <2>3, HappensByCall
  <2>4. CASE r \in AnswerStepsOfTrx
    <3>1. PICK none \in {{}} : none = {}
      OBVIOUS
    <3>2. PICK just \in {{m}} : just = {m}
      OBVIOUS
    <3>3. /\ AnswersAdd(just) /\ LinksAdd(none)
          /\ \A l \in none : l \in TrxId \X MsgId /\ Stored(l[2])
      BY <3>1, <3>2
    <3>4. \E k \in MsgId :
            /\ lpsMessages[k].type = AnswerType(r)
            /\ <<u, k>> \in links \cup none
            /\ k \in just \/ <<u, k>> \in none
      BY <2>1, <2>2, <2>4, <3>3, HappensByAnswer
    <3>5. lpsMessages[m].type = AnswerType(r) /\ <<u, m>> \in links
      BY <3>1, <3>2, <3>4
    <3>6. r = s
      BY <1>1, <2>4, <3>5 DEF AnswerType, AnswerStepsOfTrx
    <3>7. lpsMessages[m].type = "reversalRequest" => IsRefund(t) /\ IsRefund(u)
      BY <1>1, <2>4, <3>5, <3>6, StepNames DEF AnswerType, AnswerStepsOfTrx
    <3> QED
      BY <1>1, <3>5, <3>6, <3>7 DEF Remembered, LinkedOnce
  <2>5. CASE r \in MoneyStepsOfTrx
    BY <2>1, <2>5, HappensByMoney
  <2>6. CASE r = "reversed"
    BY <1>1, <2>1, <2>2, <2>6, HappensByAdvice DEF LinksAdd, Happened, Linked,
       LedgersGrow, MessagesStay, IInv, LinksOK
  <2> QED
    BY <2>3, <2>4, <2>5, <2>6, StepNames
<1> QED
  BY <1>2, LedgersLast, FirstTime

\* A message that is not answered has been linked.
LEMMA LinkKeeps ==
  ASSUME IInv, Remembered, Owned, OwnersKept, LedgersGrow, NEW t \in TrxId,
         NEW m \in MsgId, Stored(m), ~Answered(m), Withdrawal(t) \/ Refund(t),
         CallsAdd({}), AnswersAdd({}), LinksAdd({<<t, m>>}), CommitsAdd({})
  PROVE  [Promise!PromiseNext]_Promise!promises
<1>1. ASSUME NEW u \in TrxId, NEW r \in StepsOfTrx(u),
             Happened(u, r)', ~Happened(u, r)
      PROVE  u = t /\ r = "reversed"
  <2>1. MessagesStay
    BY DEF LedgersGrow
  <2>2. CASE r \in CallStepsOfTrx
    BY <1>1, <2>2, HappensByCall
  <2>3. PICK none \in {{}}, just \in {{<<t, m>>}} :
          none = {} /\ just = {<<t, m>>}
    OBVIOUS
  <2>4. /\ AnswersAdd(none) /\ LinksAdd(just)
        /\ \A l \in just : l \in TrxId \X MsgId /\ Stored(l[2])
    BY <2>3
  <2>5. CASE r \in AnswerStepsOfTrx
    <3>1. \E k \in MsgId :
            /\ k \in none \/ <<k, "approved">> \in responses
            /\ k \in none \/ <<u, k>> \in just
      BY <1>1, <2>1, <2>4, <2>5, HappensByAnswer
    <3>2. <<m, "approved">> \in responses
      BY <2>3, <3>1
    <3> QED
      BY <3>2 DEF Answered
  <2>6. CASE r \in MoneyStepsOfTrx
    BY <1>1, <2>6, HappensByMoney
  <2>7. CASE r = "reversed"
    <3>1. \E k \in MsgId : <<u, k>> \in just
      BY <1>1, <2>1, <2>4, <2>7, HappensByAdvice
    <3> QED
      BY <2>3, <2>7, <3>1
  <2> QED
    BY <2>2, <2>5, <2>6, <2>7, StepNames
<1>2. CASE IsRefund(t)
  <2>1. \A u \in TrxId : \A r \in StepsOfTrx(u) : Happened(u, r)' => Happened(u, r)
    <3>1. "reversed" \notin StepsOfTrx(t)
      BY <1>2 DEF StepsOfTrx
    <3> QED
      BY <1>1, <3>1
  <2> QED
    BY <2>1, LedgersLast, NothingHappens
<1>3. CASE ~IsRefund(t)
  <2>1. PICK s \in StepsOfTrx(t) : s = "reversed"
    BY <1>3 DEF StepsOfTrx
  <2>2. OnlyHappens(t, s)
    BY <1>1, <2>1 DEF OnlyHappens
  <2>3. \A b \in Promise!Before(s) : b \in StepsOfTrx(t) /\ Happened(t, b)
    BY <2>1 DEF Promise!Before
  <2> QED
    BY <2>2, <2>3, OwnerKnown, LedgersLast, FirstTime
<1> QED
  BY <1>2, <1>3

\* The hub has committed a transfer.
LEMMA CommitKeeps ==
  ASSUME IInv, Remembered, Owned, OwnersKept, LedgersGrow, NEW x \in TransferId,
         {<<"putTransfers", x>>, <<"postTransfers", x>>} \cap sent # {},
         CallsAdd({}), AnswersAdd({}), LinksAdd({}), CommitsAdd({x})
  PROVE  [Promise!PromiseNext]_Promise!promises
<1>1. PICK t \in TrxId, n \in 1..MaxDeliver : x = <<t, n>>
  BY DEF TransferId
<1>2. PICK s : s = IF IsRefund(t) THEN "credited" ELSE "debited"
  OBVIOUS
<1>3. s \in StepsOfTrx(t)
  BY <1>2 DEF StepsOfTrx
<1>4. /\ <<"putTransfers", x>> \in sent => Withdrawal(t)
      /\ <<"postTransfers", x>> \in sent => Refund(t)
  BY <1>1 DEF IInv, SentOK
<1>5. transactions[t].lpsKey # None
  BY <1>4, OwnerKnown
<1>6. \A b \in Promise!Before(s) : b \in StepsOfTrx(t) /\ Happened(t, b)
  <2>1. CASE IsRefund(t)
    <3>1. <<"postTransfers", x>> \in sent
      BY <1>4, <2>1 DEF Withdrawal
    <3>2. Happened(t, "paid")
      BY <1>1, <3>1 DEF Happened, Made, TransferOf
    <3> QED
      BY <1>2, <2>1, <3>2 DEF Promise!Before, StepsOfTrx
  <2>2. CASE ~IsRefund(t)
    <3>1. <<"putTransfers", x>> \in sent
      BY <1>4, <2>2 DEF Refund
    <3>2. Happened(t, "fulfilled")
      BY <1>1, <3>1 DEF Happened, Made, TransferOf
    <3> QED
      BY <1>2, <2>2, <3>2 DEF Promise!Before, StepsOfTrx
  <2> QED
    BY <2>1, <2>2
<1>7. OnlyHappens(t, s)
  <2>1. SUFFICES ASSUME NEW u \in TrxId, NEW r \in StepsOfTrx(u),
                        Happened(u, r)', ~Happened(u, r)
                 PROVE  u = t /\ r = s
    BY DEF OnlyHappens
  <2>2. MessagesStay
    BY DEF LedgersGrow
  <2>3. CASE r \in CallStepsOfTrx
    BY <2>1, <2>3, HappensByCall
  <2>4. CASE r \in AnswerStepsOfTrx \cup {"reversed"}
    BY <2>1, <2>2, <2>4, NoAnswerHappens
  <2>5. CASE r \in MoneyStepsOfTrx
    <3>1. u = t
      BY <1>1, <2>1, <2>5, HappensByMoney
    <3> QED
      BY <1>2, <2>5, <3>1, StepNames DEF StepsOfTrx, MoneyStepsOfTrx
  <2> QED
    BY <2>3, <2>4, <2>5, StepNames
<1> QED
  BY <1>3, <1>5, <1>6, <1>7, LedgersLast, FirstTime

-----------------------------------------------------------------------------
(* New transactions. *)

\* Nothing has happened to a transaction that is not there.
LEMMA Unborn ==
  ASSUME IInv, NEW t \in TrxId, ~Exists(t)
  PROVE  /\ transactions[t] = NoTransaction
         /\ \A s \in CallStepsOfTrx \cup AnswerStepsOfTrx \cup MoneyStepsOfTrx
                    \cup {"reversed"} : ~Happened(t, s)
<1>1. transactions[t] = NoTransaction
  BY DEF IInv, TransactionsOK
<1>2. /\ \A c \in WithdrawalCall : <<c, t>> \notin sent
      /\ <<"postQuotes", t>> \notin sent
  BY DEF IInv, SentOK, Withdrawal, Refund
<1>3. \A type : Linked(t, type) = {}
  BY DEF IInv, LinksOK, Linked
<1>4. \A x \in TransferOf(t) : /\ <<"putTransfers", x>> \notin sent
                               /\ <<"postTransfers", x>> \notin sent
  BY DEF IInv, SentOK, Withdrawal, Refund, TransferOf, TransferId
<1>5. \A x \in TransferOf(t) : ~Committed(x)
  <2>1. SUFFICES ASSUME NEW n \in 1..MaxDeliver, Committed(<<t, n>>)
                 PROVE  FALSE
    BY DEF TransferOf
  <2>2. <<t, n>> \in TransferOf(t)
    BY DEF TransferOf
  <2>3. <<"committed", <<t, n>>>> \in HubMessage
    BY DEF HubMessage, AboutTransfer, TransferId
  <2>4. PromptedBy(<<"committed", <<t, n>>>>) \cap sent # {}
    BY <2>1, <2>3 DEF Committed, IInv, DeliveredOK
  <2> QED
    BY <1>4, <2>2, <2>4 DEF PromptedBy
<1>6. \A s \in CallStepsOfTrx : ~Happened(t, s)
  BY <1>2, <1>4 DEF Happened, CallStepsOfTrx, WithdrawalCall, Made
<1>7. \A s \in AnswerStepsOfTrx \cup {"reversed"} : ~Happened(t, s)
  BY <1>3 DEF Happened, AnswerStepsOfTrx, Approved
<1>8. \A s \in MoneyStepsOfTrx : ~Happened(t, s)
  BY <1>5 DEF Happened, MoneyStepsOfTrx, Moved
<1> QED
  BY <1>1, <1>6, <1>7, <1>8

\* An insertion opens a transaction to which nothing has happened.
LEMMA InsertKeeps ==
  ASSUME IInv, LedgersGrow, Silent, NEW t \in NextTrx, NEW row \in Transaction,
         transactions' = [transactions EXCEPT ![t] = row]
  PROVE  /\ t \in TrxId /\ transactions[t].lpsKey = None
         /\ [u \in TrxId |-> transactions[u].lpsKey]'
              = [[u \in TrxId |-> transactions[u].lpsKey] EXCEPT ![t] = row.lpsKey]
         /\ [u \in TrxId |-> transactions[u].original]'
              = [[u \in TrxId |-> transactions[u].original]
                   EXCEPT ![t] = row.original]
         /\ [u \in TrxId |-> {s \in StepsOfTrx(u) : Happened(u, s)}]'
              = [u \in TrxId |-> {s \in StepsOfTrx(u) : Happened(u, s)}]
<1>1. t \in TrxId /\ ~Exists(t)
  BY DEF NextTrx
<1>2. transactions \in [TrxId -> Transaction]
  BY DEF IInv, TypeOK
<1>3. /\ transactions'[t] = row
      /\ \A u \in TrxId : u # t => transactions'[u] = transactions[u]
  BY <1>1, <1>2
<1>4. /\ transactions[t].lpsKey = None
      /\ \A s \in StepsOfTrx(t) : ~Happened(t, s)
  BY <1>1, Unborn, StepNames DEF NoTransaction
<1>5. /\ [u \in TrxId |-> transactions[u].lpsKey]'
           = [[u \in TrxId |-> transactions[u].lpsKey] EXCEPT ![t] = row.lpsKey]
      /\ [u \in TrxId |-> transactions[u].original]'
           = [[u \in TrxId |-> transactions[u].original] EXCEPT ![t] = row.original]
  <2>1. \A u \in TrxId :
          /\ transactions'[u].lpsKey =
               IF u = t THEN row.lpsKey ELSE transactions[u].lpsKey
          /\ transactions'[u].original =
               IF u = t THEN row.original ELSE transactions[u].original
    BY <1>3
  <2>2. [u \in TrxId |-> transactions'[u].lpsKey]
          = [[u \in TrxId |-> transactions[u].lpsKey] EXCEPT ![t] = row.lpsKey]
    BY <1>1, <2>1
  <2>3. [u \in TrxId |-> transactions'[u].original]
          = [[u \in TrxId |-> transactions[u].original] EXCEPT ![t] = row.original]
    BY <1>1, <2>1
  <2> QED
    BY <2>2, <2>3
<1>6. ASSUME NEW u \in TrxId, u # t
      PROVE  {s \in StepsOfTrx(u) : Happened(u, s)}'
               = {s \in StepsOfTrx(u) : Happened(u, s)}
  <2>1. StepsOfTrx(u)' = StepsOfTrx(u)
    BY <1>3, <1>6 DEF StepsOfTrx, IsRefund
  <2>2. \A s \in StepsOfTrx(u) : Happened(u, s)' <=> Happened(u, s)
    BY SilentStep, LedgersLast DEF Lasting
  <2> QED
    BY <2>1, <2>2
<1>7. {s \in StepsOfTrx(t) : Happened(t, s)}' = {s \in StepsOfTrx(t) : Happened(t, s)}
  <2>1. \A s \in StepsOfTrx(t)' : ~Happened(t, s)'
    <3>1. SUFFICES ASSUME NEW s \in StepsOfTrx(t)', Happened(t, s)'
                   PROVE  FALSE
      OBVIOUS
    <3>2. PICK none \in {{}} : none = {}
      OBVIOUS
    <3>3. /\ CallsAdd(none) /\ AnswersAdd(none) /\ LinksAdd(none) /\ CommitsAdd(none)
          /\ \A l \in none : l \in TrxId \X MsgId /\ Stored(l[2])
          /\ MessagesStay
      BY <3>2 DEF Silent, LedgersGrow
    <3>4. ~Happened(t, s)
      BY <1>1, <3>1, Unborn
      DEF StepsOfTrx, CallStepsOfTrx, AnswerStepsOfTrx, MoneyStepsOfTrx
    <3>5. CASE s \in CallStepsOfTrx
      BY <1>1, <3>1, <3>2, <3>3, <3>4, <3>5, HappensByCall
    <3>6. CASE s \in AnswerStepsOfTrx \cup {"reversed"}
      BY <1>1, <3>1, <3>2, <3>3, <3>4, <3>6, NoAnswerHappens
    <3>7. CASE s \in MoneyStepsOfTrx
      BY <1>1, <3>1, <3>2, <3>3, <3>4, <3>7, HappensByMoney
    <3> QED
      BY <3>1, <3>5, <3>6, <3>7
      DEF StepsOfTrx, CallStepsOfTrx, AnswerStepsOfTrx, MoneyStepsOfTrx
  <2> QED
    BY <1>4, <2>1
<1> QED
  BY <1>1, <1>4, <1>5, <1>6, <1>7

\* A withdrawal is opened for the terminal that asks for it.
LEMMA WithdrawalOpens ==
  ASSUME IInv, LedgersGrow, Silent, LAInsertTransaction
  PROVE  Promise!PromiseNext
<1>1. work[LA].pc # "idle" /\ LA \in LegacyQueue
  BY QueueNames DEF LAInsertTransaction, At
<1>2. PICK m \in MsgId : m = JobMessage(LA)
  BY <1>1, MessageOf
<1>3. /\ lpsMessages[m] \in LpsMessage /\ lpsMessages[m].lpsKey \in Device
  BY <1>1, <1>2, MessageOf
<1>4. PICK row : row = [NoTransaction EXCEPT
                          !.state = "transactionReceived",
                          !.lpsKey = lpsMessages[m].lpsKey,
                          !.payer = lpsMessages[m].payer]
  OBVIOUS
<1>5. PICK t \in NextTrx : transactions' = [transactions EXCEPT ![t] = row]
  BY <1>2, <1>4 DEF LAInsertTransaction
<1>6. row \in Transaction /\ row.lpsKey \in Device /\ row.original = 0
  BY <1>3, <1>4
  DEF Transaction, NoTransaction, LpsMessage, TransactionState
<1>7. t \in TrxId /\ ~Exists(t) /\ transactions[t].original = 0
  BY <1>5, Unborn DEF NextTrx, NoTransaction
<1>8. [u \in TrxId |-> transactions[u].original]'
        = [u \in TrxId |-> transactions[u].original]
  BY <1>5, <1>6, <1>7, InsertKeeps
<1>9. Promise!OpenWithdrawal(t, row.lpsKey)
  BY <1>5, <1>6, <1>7, <1>8, InsertKeeps DEF Promise!OpenWithdrawal, Promise!Opened
<1> QED
  BY <1>6, <1>7, <1>9 DEF Promise!PromiseNext

\* A refund is opened for a withdrawal that has been debited and taken back.
LEMMA RefundOpens ==
  ASSUME IInv, Owned, LedgersGrow, Silent, LRInsertRefund
  PROVE  Promise!PromiseNext
<1>1. work[LR].pc = "insertRefund" /\ LR \in LegacyQueue
  BY QueueNames DEF LRInsertRefund, At
<1>2. PICK m \in MsgId : m = JobMessage(LR)
  BY <1>1, MessageOf
<1>3. lpsMessages[m].type = "reversalRequest"
  BY <1>1, <1>2, MessageOf
<1>4. PICK o \in TrxId : o = work[LR].trx
  BY <1>1, TrxOf, QueueNames DEF Searching
<1>5. Withdrawal(o) /\ Due(o, m) /\ <<o, m>> \in links
  BY <1>1, <1>2, <1>4 DEF IInv, Knowledge, KnowsLR
<1>6. Happened(o, "debited") /\ Happened(o, "reversed")
  BY <1>2, <1>3, <1>5 DEF Due, Happened, Moved, TransferOf, Linked
<1>7. PICK row : row = [NoTransaction EXCEPT
                          !.state = "transactionReceived",
                          !.lpsKey = transactions[o].lpsKey,
                          !.fspId = TRUE, !.transactionId = TRUE,
                          !.expired = transactions[o].expired,
                          !.original = o]
  OBVIOUS
<1>8. PICK t \in NextTrx : transactions' = [transactions EXCEPT ![t] = row]
  BY <1>4, <1>7 DEF LRInsertRefund
<1>9. transactions[o] \in Transaction
  BY DEF IInv, TypeOK
<1>10. row \in Transaction /\ row.lpsKey = transactions[o].lpsKey /\ row.original = o
  BY <1>7, <1>9 DEF Transaction, NoTransaction, TransactionState
<1>11. /\ transactions[o].lpsKey # None /\ transactions[o].original = 0
       /\ {"debited", "reversed"} \subseteq {s \in StepsOfTrx(o) : Happened(o, s)}
  BY <1>5, <1>6, OwnerKnown DEF Withdrawal, IsRefund, StepsOfTrx
<1>12. Promise!OpenRefund(t, o)
  <2>1. t \in TrxId /\ transactions[t].lpsKey = None
    BY <1>8, <1>10, InsertKeeps
  <2>2. /\ [u \in TrxId |-> transactions[u].lpsKey]'
             = [[u \in TrxId |-> transactions[u].lpsKey] EXCEPT
                  ![t] = [u \in TrxId |-> transactions[u].lpsKey][o]]
        /\ [u \in TrxId |-> transactions[u].original]'
             = [[u \in TrxId |-> transactions[u].original] EXCEPT ![t] = o]
    <3>1. /\ [u \in TrxId |-> transactions[u].lpsKey]'
               = [[u \in TrxId |-> transactions[u].lpsKey] EXCEPT ![t] = row.lpsKey]
          /\ [u \in TrxId |-> transactions[u].original]'
               = [[u \in TrxId |-> transactions[u].original]
                    EXCEPT ![t] = row.original]
      BY <1>8, <1>10, InsertKeeps
    <3>2. row.lpsKey = [u \in TrxId |-> transactions[u].lpsKey][o]
      BY <1>10
    <3> QED
      BY <1>10, <3>1, <3>2
  <2>3. [u \in TrxId |-> {s \in StepsOfTrx(u) : Happened(u, s)}]'
          = [u \in TrxId |-> {s \in StepsOfTrx(u) : Happened(u, s)}]
    BY <1>8, <1>10, InsertKeeps
  <2> QED
    BY <1>11, <2>1, <2>2, <2>3 DEF Promise!OpenRefund, Promise!Opened
<1> QED
  BY <1>8, <1>12 DEF Promise!PromiseNext, NextTrx

-----------------------------------------------------------------------------
(* Every step of Orchestrator. *)

\* Existing transactions keep their terminals, and new ones get one.
LEMMA OwnedStep ==
  ASSUME IInv, IInv', Owned, Next
  PROVE  Owned'
<1>1. CASE OwnersKept
  <2>1. SUFFICES ASSUME NEW t \in TrxId, Exists(t)'
                 PROVE  transactions'[t].lpsKey \in Device
    BY DEF Owned
  <2>2. CASE Exists(t)
    BY <1>1, <2>2 DEF Owned, OwnersKept
  <2>3. CASE ~Exists(t)
    <3>1. transactions[t] = NoTransaction
      BY <2>3 DEF IInv, TransactionsOK
    <3>2. transactions'[t].payer = None /\ transactions'[t].original = 0
      BY <1>1, <3>1 DEF OwnersKept, NoTransaction
    <3>3. Withdrawal(t)'
      BY <2>1, <3>2 DEF Withdrawal, IsRefund
    <3>4. TransactionsOK'
      BY DEF IInv
    <3>5. transactions'[t].payer \in Payer
      BY <3>3, <3>4 DEF TransactionsOK
    <3> QED
      BY <3>2, <3>5, NoneAssumption
  <2> QED
    BY <2>2, <2>3
<1>2. ASSUME NEW t \in NextTrx, NEW row, row.lpsKey \in Device,
             transactions' = [transactions EXCEPT ![t] = row]
      PROVE  Owned'
  <2>1. transactions \in [TrxId -> Transaction] /\ t \in TrxId
    BY DEF IInv, TypeOK, NextTrx
  <2>2. /\ transactions'[t] = row
        /\ \A u \in TrxId : u # t => transactions'[u] = transactions[u]
    BY <1>2, <2>1
  <2> QED
    BY <1>2, <2>2 DEF Owned, Exists
<1>3. CASE LAInsertTransaction
  <2>1. work[LA].pc # "idle" /\ LA \in LegacyQueue
    BY <1>3, QueueNames DEF LAInsertTransaction, At
  <2>2. lpsMessages[JobMessage(LA)].lpsKey \in Device
    BY <2>1, MessageOf
  <2>3. PICK row : row = [NoTransaction EXCEPT
                            !.state = "transactionReceived",
                            !.lpsKey = lpsMessages[JobMessage(LA)].lpsKey,
                            !.payer = lpsMessages[JobMessage(LA)].payer]
    OBVIOUS
  <2>4. row.lpsKey \in Device
    BY <2>2, <2>3 DEF NoTransaction
  <2>5. \E t \in NextTrx : transactions' = [transactions EXCEPT ![t] = row]
    BY <1>3, <2>3 DEF LAInsertTransaction
  <2> QED
    BY <1>2, <2>4, <2>5
<1>4. CASE LRInsertRefund
  <2>1. PICK o \in TrxId : o = work[LR].trx
    BY <1>4, TrxOf, QueueNames DEF LRInsertRefund, At, Searching
  <2>2. Withdrawal(o)
    BY <1>4, <2>1 DEF LRInsertRefund, At, IInv, Knowledge, KnowsLR
  <2>3. PICK row : row = [NoTransaction EXCEPT
                            !.state = "transactionReceived",
                            !.lpsKey = transactions[o].lpsKey,
                            !.fspId = TRUE, !.transactionId = TRUE,
                            !.expired = transactions[o].expired,
                            !.original = o]
    OBVIOUS
  <2>4. row.lpsKey \in Device
    BY <2>2, <2>3, OwnerKnown DEF NoTransaction
  <2>5. \E t \in NextTrx : transactions' = [transactions EXCEPT ![t] = row]
    BY <1>4, <2>1, <2>3 DEF LRInsertRefund
  <2> QED
    BY <1>2, <2>4, <2>5
<1> QED
  BY <1>1, <1>3, <1>4, OwnersStep

\* Nothing is said but by calls and answers customers do not notice.
Unnoticed(C) ==
  /\ UNCHANGED <<lpsMessages, links, delivered>>
  /\ sent \subseteq sent'
  /\ responses \subseteq responses'
  /\ \A c \in sent' : c \in sent \/ c \in C \/ c[1] \notin VisibleCall
  /\ \A r \in responses' : r \in responses \/ r[2] = "invalid"

\* Such a step takes nothing away and adds nothing else.
LEMMA UnnoticedAdds ==
  ASSUME NEW C, Unnoticed(C)
  PROVE  /\ LedgersGrow
         /\ CallsAdd(C) /\ AnswersAdd({}) /\ LinksAdd({}) /\ CommitsAdd({})
<1>1. LedgersGrow
  BY DEF Unnoticed, LedgersGrow, DeliveredStay, MessagesStay, HasDelivered
<1>2. CallsAdd(C) /\ AnswersAdd({}) /\ LinksAdd({})
  BY DEF Unnoticed, CallsAdd, AnswersAdd, LinksAdd
<1>3. CommitsAdd({})
  BY DEF Unnoticed, CommitsAdd, Committed, HasDelivered
<1> QED
  BY <1>1, <1>2, <1>3

\* What customers do not notice is no step of CashPromise.
LEMMA UnnoticedKeeps ==
  ASSUME IInv, OwnersKept, Unnoticed({})
  PROVE  [Promise!PromiseNext]_Promise!promises
BY UnnoticedAdds, SilentStutters DEF Silent

\* A call is made, and nothing else happens.
LEMMA CallStepKeeps ==
  ASSUME IInv, Remembered, Owned, OwnersKept, NEW q \in WorkerQueue, NEW pc,
         Call(q, pc), UNCHANGED <<environment, links, responses>>
  PROVE  [Promise!PromiseNext]_Promise!promises
<1>1. Unnoticed({Calling(q)})
  BY DEF Unnoticed, Call, environment
<1> QED
  BY <1>1, UnnoticedAdds, CallKeeps

\* An await throws, its call made or not.
LEMMA ThrowKeeps ==
  ASSUME IInv, Remembered, Owned, OwnersKept, NEW q \in WorkerQueue, NEW calls,
         NEW answers, Throw(q, calls, answers),
         \A c \in calls : c[1] \notin VisibleCall,
         \A r \in answers : r[2] = "invalid"
  PROVE  [Promise!PromiseNext]_Promise!promises
<1>1. PICK arrived \in SUBSET {Calling(q)} : sent' = sent \cup arrived \cup calls
  BY DEF Throw
<1>2. /\ UNCHANGED <<lpsMessages, links, delivered>>
      /\ responses' = responses \cup answers
  BY DEF Throw, tables
<1>3. Unnoticed({Calling(q)})
  BY <1>1, <1>2 DEF Unnoticed
<1> QED
  BY <1>3, UnnoticedAdds, CallKeeps

\* A legacy handler has linked its message, which is not answered.
LEMMA RelateKeeps ==
  ASSUME IInv, Remembered, Owned, OwnersKept, NEW q \in LegacyQueue,
         work[q].pc \notin Searching, ~Answered(JobMessage(q)),
         Withdrawal(work[q].trx) \/ Refund(work[q].trx),
         Relate(work[q].trx, JobMessage(q)), UNCHANGED <<environment, outputs>>
  PROVE  [Promise!PromiseNext]_Promise!promises
<1>1. q \in WorkerQueue /\ work[q].pc # "idle"
  BY DEF WorkerQueue, Searching
<1>2. PICK t \in TrxId : t = work[q].trx
  BY <1>1, TrxOf
<1>3. PICK m \in MsgId : m = JobMessage(q)
  BY <1>1, MessageOf
<1>4. Stored(m)
  BY <1>1, <1>3, MessageOf
<1>5. /\ links' = links \cup {<<t, m>>}
      /\ UNCHANGED <<lpsMessages, delivered, sent, responses>>
  BY <1>2, <1>3 DEF Relate, environment, outputs
<1>6. LedgersGrow
  BY <1>5 DEF LedgersGrow, DeliveredStay, MessagesStay, HasDelivered
<1>7. /\ CallsAdd({}) /\ AnswersAdd({}) /\ LinksAdd({<<t, m>>})
  BY <1>5 DEF CallsAdd, AnswersAdd, LinksAdd
<1>8. CommitsAdd({})
  BY <1>5 DEF CommitsAdd, Committed, HasDelivered
<1> QED
  BY <1>2, <1>3, <1>4, <1>6, <1>7, <1>8, LinkKeeps

-----------------------------------------------------------------------------
(* The handlers of AuthorizationFlow. *)

\* legacyAuthorizationRequestHandler
LEMMA LegacyAuthorizationRequestHandlerKeeps ==
  ASSUME IInv, Remembered, Owned, OwnersKept \/ LAInsertTransaction,
         LegacyAuthorizationRequestHandler
  PROVE  [Promise!PromiseNext]_Promise!promises
<1> LA \in WorkerQueue /\ LA \in LegacyQueue
  BY QueueNames
<1>1. CASE LAInsertTransaction
  <2>1. Unnoticed({})
    BY <1>1 DEF LAInsertTransaction, Unnoticed, environment, outputs
  <2> QED
    BY <1>1, <2>1, UnnoticedAdds, WithdrawalOpens DEF Silent
<1>2. CASE OwnersKept /\ LACancelIncomplete
  BY <1>2, UnnoticedKeeps DEF LACancelIncomplete, Unnoticed, environment, outputs
<1>3. CASE OwnersKept /\ LARelate
  <2>1. /\ work[LA].pc = "relate" /\ Relate(work[LA].trx, JobMessage(LA))
        /\ UNCHANGED <<environment, outputs>>
    BY <1>3 DEF LARelate, At
  <2>2. work[LA].pc \notin Searching /\ work[LA].pc \in BeforeLink
    BY <2>1 DEF Searching, BeforeLink
  <2>3. ~Answered(JobMessage(LA))
    BY <2>2 DEF Remembered, LegacyJobsFresh, Untouched
  <2>4. Withdrawal(work[LA].trx)
    BY <2>2, TrxOf
  <2> QED
    BY <1>3, <2>1, <2>2, <2>3, <2>4, RelateKeeps
<1>4. CASE OwnersKept /\ LAGetParties
  BY <1>4, CallStepKeeps DEF LAGetParties
<1>5. CASE OwnersKept /\ LAThrow
  BY <1>5, ThrowKeeps DEF LAThrow
<1> QED
  BY <1>1, <1>2, <1>3, <1>4, <1>5 DEF LegacyAuthorizationRequestHandler

\* partiesResponseHandler
LEMMA PartiesResponseHandlerKeeps ==
  ASSUME IInv, Remembered, Owned, OwnersKept, PartiesResponseHandler
  PROVE  [Promise!PromiseNext]_Promise!promises
<1> PR \in WorkerQueue
  BY QueueNames
<1>1. CASE PRFind \/ PRUpdateParty
  BY <1>1, UnnoticedKeeps
  DEF PRFind, PRUpdateParty, Unnoticed, environment, outputs
<1>2. CASE PRPostTransactionRequests
  BY <1>2, CallStepKeeps DEF PRPostTransactionRequests
<1>3. CASE PRThrow
  BY <1>3, ThrowKeeps DEF PRThrow
<1> QED
  BY <1>1, <1>2, <1>3 DEF PartiesResponseHandler

\* transactionRequestResponseHandler
LEMMA TransactionRequestResponseHandlerKeeps ==
  ASSUME IInv, Remembered, Owned, OwnersKept, TransactionRequestResponseHandler
  PROVE  [Promise!PromiseNext]_Promise!promises
<1> TRR \in WorkerQueue
  BY QueueNames
<1>1. CASE TRRRead \/ TRRRespond \/ TRRReject
  BY <1>1, UnnoticedKeeps
  DEF TRRRead, TRRRespond, TRRReject, Unnoticed, environment, outputs
<1>2. CASE TRRThrow
  BY <1>2, ThrowKeeps DEF TRRThrow, VisibleCall
<1> QED
  BY <1>1, <1>2 DEF TransactionRequestResponseHandler

\* quotesRequestHandler
LEMMA QuotesRequestHandlerKeeps ==
  ASSUME IInv, Remembered, Owned, OwnersKept, QuotesRequestHandler
  PROVE  [Promise!PromiseNext]_Promise!promises
<1> QR \in WorkerQueue
  BY QueueNames
<1>1. CASE QRValidate \/ QRUpdateState
  BY <1>1, UnnoticedKeeps
  DEF QRValidate, QRUpdateState, Unnoticed, environment, outputs
<1>2. CASE QRInsertQuote
  BY <1>2, UnnoticedKeeps DEF QRInsertQuote, Unnoticed, environment, VisibleCall
<1>3. CASE QRRefuse
  BY <1>3, UnnoticedKeeps DEF QRRefuse, Respond, Unnoticed, environment
<1>4. CASE QRPutQuotes \/ QRPutQuotesError
  BY <1>4, CallStepKeeps DEF QRPutQuotes, QRPutQuotesError
<1>5. CASE QRThrow
  BY <1>5, ThrowKeeps DEF QRThrow, VisibleCall
<1> QED
  BY <1>1, <1>2, <1>3, <1>4, <1>5 DEF QuotesRequestHandler

\* The terminal is shown the fees of a quote the hub has.
LEMMA ARApproveKeeps ==
  ASSUME IInv, Remembered, Owned, OwnersKept, ARApprove
  PROVE  [Promise!PromiseNext]_Promise!promises
<1>1. work[AR].pc = "approve" /\ AR \in WorkerQueue
  BY QueueNames DEF ARApprove, At
<1>2. work[AR].pc \notin Searching
  BY <1>1 DEF Searching
<1>3. PICK t \in TrxId : t = work[AR].trx
  BY <1>1, <1>2, TrxOf
<1>4. Withdrawal(t)
  BY <1>1, <1>2, <1>3, TrxOf
<1>5. PICK m \in Linked(t, "authorizationRequest") : Respond(m, "approved")
  BY <1>3 DEF ARApprove
<1>6. /\ UNCHANGED <<lpsMessages, links, delivered, sent>>
      /\ responses' = responses \cup {<<m, "approved">>}
  BY <1>5 DEF ARApprove, environment, Respond
<1>7. LedgersGrow
  BY <1>6 DEF LedgersGrow, DeliveredStay, MessagesStay, HasDelivered
<1>8. CallsAdd({}) /\ AnswersAdd({m}) /\ LinksAdd({}) /\ CommitsAdd({})
  BY <1>6 DEF CallsAdd, AnswersAdd, LinksAdd, CommitsAdd, Committed, HasDelivered
<1>9. PICK s \in StepsOfTrx(t) : s = "shown"
  BY <1>4 DEF StepsOfTrx, Withdrawal
<1>10. s \in AnswerStepsOfTrx /\ m \in Linked(t, AnswerType(s))
  BY <1>9 DEF AnswerStepsOfTrx, AnswerType
<1>11. \A b \in Promise!Before(s) : b \in StepsOfTrx(t) /\ Happened(t, b)
  <2>1. <<"putQuotes", t>> \in sent
    BY <1>1, <1>3 DEF IInv, Knowledge, KnowsAR
  <2> QED
    BY <1>4, <1>9, <2>1 DEF Promise!Before, StepsOfTrx, Withdrawal, Happened
<1> QED
  BY <1>4, <1>7, <1>8, <1>10, <1>11, OwnerKnown, AnswerKeeps

\* authorizationRequestHandler
LEMMA AuthorizationRequestHandlerKeeps ==
  ASSUME IInv, Remembered, Owned, OwnersKept, AuthorizationRequestHandler
  PROVE  [Promise!PromiseNext]_Promise!promises
<1> AR \in WorkerQueue
  BY QueueNames
<1>1. CASE ARValidate
  BY <1>1, UnnoticedKeeps DEF ARValidate, Unnoticed, environment, VisibleCall
<1>2. CASE ARUpdateState
  BY <1>2, UnnoticedKeeps DEF ARUpdateState, Unnoticed, environment, outputs
<1>3. CASE ARRefuse
  BY <1>3, UnnoticedKeeps DEF ARRefuse, Respond, Unnoticed, environment
<1>4. CASE ARPutAuthorizationsError
  BY <1>4, CallStepKeeps DEF ARPutAuthorizationsError
<1>5. CASE ARThrow
  BY <1>5, ThrowKeeps DEF ARThrow, VisibleCall
<1> QED
  BY <1>1, <1>2, <1>3, <1>4, <1>5, ARApproveKeeps DEF AuthorizationRequestHandler

-----------------------------------------------------------------------------
(* The handlers of FinancialFlow. *)

\* legacyFinancialRequestHandler
LEMMA LegacyFinancialRequestHandlerKeeps ==
  ASSUME IInv, Remembered, Owned, OwnersKept, LegacyFinancialRequestHandler
  PROVE  [Promise!PromiseNext]_Promise!promises
<1> LF \in WorkerQueue /\ LF \in LegacyQueue
  BY QueueNames
<1>1. CASE LFFind \/ LFUpdateState
  BY <1>1, UnnoticedKeeps
  DEF LFFind, LFUpdateState, Unnoticed, environment, outputs
<1>2. CASE LFRelate
  <2>1. /\ work[LF].pc = "relate" /\ Relate(work[LF].trx, JobMessage(LF))
        /\ UNCHANGED <<environment, outputs>>
    BY <1>2 DEF LFRelate, At
  <2>2. work[LF].pc \notin Searching /\ work[LF].pc \in BeforeLink
    BY <2>1 DEF Searching, BeforeLink
  <2>3. ~Answered(JobMessage(LF))
    BY <2>2 DEF Remembered, LegacyJobsFresh, Untouched
  <2>4. Withdrawal(work[LF].trx)
    BY <2>2, TrxOf
  <2> QED
    BY <2>1, <2>2, <2>3, <2>4, RelateKeeps
<1>3. CASE LFPutAuthorizations
  BY <1>3, CallStepKeeps DEF LFPutAuthorizations
<1>4. CASE LFThrow
  BY <1>4, ThrowKeeps DEF LFThrow
<1> QED
  BY <1>1, <1>2, <1>3, <1>4 DEF LegacyFinancialRequestHandler

\* transferRequestHandler
LEMMA TransferRequestHandlerKeeps ==
  ASSUME IInv, Remembered, Owned, OwnersKept, TransferRequestHandler
  PROVE  [Promise!PromiseNext]_Promise!promises
<1> TR \in WorkerQueue
  BY QueueNames
<1>1. CASE TRValidate
  BY <1>1, UnnoticedKeeps DEF TRValidate, Unnoticed, environment, VisibleCall
<1>2. CASE TRInsertTransfer
  BY <1>2, UnnoticedKeeps
  DEF TRInsertTransfer, Unnoticed, environment, VisibleCall
<1>3. CASE TRUpdateState \/ TRUpdateTransfer
  BY <1>3, UnnoticedKeeps
  DEF TRUpdateState, TRUpdateTransfer, Unnoticed, environment, outputs
<1>4. CASE TRRefuse
  BY <1>4, UnnoticedKeeps DEF TRRefuse, Respond, Unnoticed, environment
<1>5. CASE TRPutTransfers \/ TRPutTransfersError
  BY <1>5, CallStepKeeps DEF TRPutTransfers, TRPutTransfersError
<1>6. CASE TRThrow
  BY <1>6, ThrowKeeps DEF TRThrow, VisibleCall
<1> QED
  BY <1>1, <1>2, <1>3, <1>4, <1>5, <1>6 DEF TransferRequestHandler

\* The terminal may dispense, or is paid back: the hub has committed.
LEMMA TXApproveKeeps ==
  ASSUME IInv, Remembered, Owned, OwnersKept, TXApprove
  PROVE  [Promise!PromiseNext]_Promise!promises
<1>1. work[TX].pc = "approve" /\ TX \in WorkerQueue
  BY QueueNames DEF TXApprove, At
<1>2. work[TX].pc \notin Searching
  BY <1>1 DEF Searching
<1>3. PICK t \in TrxId, n \in 1..MaxDeliver :
        t = work[TX].trx /\ n = work[TX].nth /\ Committed(<<t, n>>)
  BY <1>1, <1>2 DEF IInv, Knowledge, KnowsTX, WorkTransfer, TransferId
<1>4. UNCHANGED <<lpsMessages, links, delivered, sent>>
  BY DEF TXApprove, environment
<1>5. CASE UNCHANGED responses
  BY <1>4, <1>5, UnnoticedKeeps DEF Unnoticed
<1>6. ASSUME NEW m \in Linked(t, IF IsRefund(t) THEN "reversalRequest"
                                             ELSE "financialRequest"),
             Respond(m, "approved")
      PROVE  [Promise!PromiseNext]_Promise!promises
  <2>1. responses' = responses \cup {<<m, "approved">>}
    BY <1>6 DEF Respond
  <2>2. LedgersGrow
    BY <1>4, <2>1 DEF LedgersGrow, DeliveredStay, MessagesStay, HasDelivered
  <2>3. CallsAdd({}) /\ AnswersAdd({m}) /\ LinksAdd({}) /\ CommitsAdd({})
    BY <1>4, <2>1
    DEF CallsAdd, AnswersAdd, LinksAdd, CommitsAdd, Committed, HasDelivered
  <2>4. transactions[t].lpsKey # None
    <3>1. Exists(t)
      BY <1>6 DEF Linked, IInv, LinksOK
    <3> QED
      BY <3>1, OwnerKnown DEF Withdrawal, Refund
  <2>5. Moved(t)
    BY <1>3 DEF Moved, TransferOf
  <2>6. PICK s \in StepsOfTrx(t) :
          s = IF IsRefund(t) THEN "confirmed" ELSE "dispensed"
    BY DEF StepsOfTrx
  <2>7. s \in AnswerStepsOfTrx /\ m \in Linked(t, AnswerType(s))
    BY <1>6, <2>6 DEF AnswerStepsOfTrx, AnswerType
  <2>8. \A b \in Promise!Before(s) : b \in StepsOfTrx(t) /\ Happened(t, b)
    BY <2>5, <2>6 DEF Promise!Before, StepsOfTrx, Happened
  <2> QED
    BY <2>2, <2>3, <2>4, <2>7, <2>8, AnswerKeeps
<1> QED
  BY <1>3, <1>5, <1>6 DEF TXApprove

\* transferResponseHandler
LEMMA TransferResponseHandlerKeeps ==
  ASSUME IInv, Remembered, Owned, OwnersKept, TransferResponseHandler
  PROVE  [Promise!PromiseNext]_Promise!promises
<1> TX \in WorkerQueue
  BY QueueNames
<1>1. CASE TXRead \/ TXUpdateState \/ TXUpdateTransfer
  BY <1>1, UnnoticedKeeps
  DEF TXRead, TXUpdateState, TXUpdateTransfer, Unnoticed, environment, outputs
<1>2. CASE TXThrow
  BY <1>2, ThrowKeeps DEF TXThrow
<1> QED
  BY <1>1, <1>2, TXApproveKeeps DEF TransferResponseHandler

-----------------------------------------------------------------------------
(* The handlers of ReversalFlow. *)

\* The advice is linked to the withdrawal it takes back, or to its refund.
LEMMA LRRelateKeeps ==
  ASSUME IInv, Remembered, Owned, OwnersKept, LRRelate \/ LRRelateRefund
  PROVE  [Promise!PromiseNext]_Promise!promises
<1>1. /\ work[LR].pc \in {"relate", "relateRefund"}
      /\ Relate(work[LR].trx, JobMessage(LR))
      /\ UNCHANGED <<environment, outputs>>
      /\ LR \in LegacyQueue
  BY QueueNames DEF LRRelate, LRRelateRefund, At
<1>2. work[LR].pc \notin Searching /\ work[LR].pc \in BeforeRefund
  BY <1>1 DEF Searching, BeforeRefund, BeforeLink
<1>3. ~Answered(JobMessage(LR))
  BY <1>2 DEF Remembered, LegacyJobsFresh, Unrefunded
<1>4. Withdrawal(work[LR].trx) \/ Refund(work[LR].trx)
  BY <1>1 DEF IInv, Knowledge, KnowsLR
<1> QED
  BY <1>1, <1>2, <1>3, <1>4, RelateKeeps

\* legacyReversalHandler
LEMMA LegacyReversalHandlerKeeps ==
  ASSUME IInv, Remembered, Owned, OwnersKept \/ LRInsertRefund,
         LegacyReversalHandler
  PROVE  [Promise!PromiseNext]_Promise!promises
<1> LR \in WorkerQueue
  BY QueueNames
<1>1. CASE LRInsertRefund
  <2>1. Unnoticed({})
    BY <1>1 DEF LRInsertRefund, Unnoticed, environment, outputs
  <2> QED
    BY <1>1, <2>1, UnnoticedAdds, RefundOpens DEF Silent
<1>2. CASE OwnersKept /\ (LRCheckReplay \/ LRCancel)
  BY <1>2, UnnoticedKeeps
  DEF LRCheckReplay, LRCancel, Unnoticed, environment, outputs
<1>3. CASE OwnersKept /\ (LRExpireQuote \/ LRInsertQuote)
  BY <1>3, UnnoticedKeeps
  DEF LRExpireQuote, LRInsertQuote, Unnoticed, environment, outputs
<1>4. CASE OwnersKept /\ LRFind
  <2>1. UNCHANGED <<lpsMessages, links, delivered, sent>>
    BY <1>4 DEF LRFind, environment
  <2>2. \/ UNCHANGED responses
        \/ responses' = responses \cup {<<JobMessage(LR), "invalid">>}
    BY <1>4 DEF LRFind, Respond
  <2>3. Unnoticed({})
    BY <2>1, <2>2 DEF Unnoticed
  <2> QED
    BY <1>4, <2>3, UnnoticedKeeps
<1>5. CASE OwnersKept /\ (LRRelate \/ LRRelateRefund)
  BY <1>5, LRRelateKeeps
<1>6. CASE OwnersKept /\ LRPostQuotes
  BY <1>6, CallStepKeeps DEF LRPostQuotes
<1>7. CASE OwnersKept /\ LRThrow
  BY <1>7, ThrowKeeps DEF LRThrow
<1> QED
  BY <1>1, <1>2, <1>3, <1>4, <1>5, <1>6, <1>7 DEF LegacyReversalHandler

\* quoteResponseHandler
LEMMA QuoteResponseHandlerKeeps ==
  ASSUME IInv, Remembered, Owned, OwnersKept, QuoteResponseHandler
  PROVE  [Promise!PromiseNext]_Promise!promises
<1> QX \in WorkerQueue
  BY QueueNames
<1>1. CASE QXUpdateQuote \/ QXInsertTransfer
  BY <1>1, UnnoticedKeeps
  DEF QXUpdateQuote, QXInsertTransfer, Unnoticed, environment, outputs
<1>2. CASE QXPostTransfers
  BY <1>2, CallStepKeeps DEF QXPostTransfers
<1>3. CASE QXThrow
  BY <1>3, ThrowKeeps DEF QXThrow
<1> QED
  BY <1>1, <1>2, <1>3 DEF QuoteResponseHandler

-----------------------------------------------------------------------------
(* The environment, and every step. *)

\* A message of the hub.
LEMMA DeliverKeeps ==
  ASSUME IInv, Remembered, Owned, OwnersKept, NEW h \in HubMessage, Deliver(h)
  PROVE  [Promise!PromiseNext]_Promise!promises
<1>1. /\ UNCHANGED <<lpsMessages, links, sent, responses>>
      /\ delivered' = [delivered EXCEPT ![h] = @ + 1]
      /\ PromptedBy(h) \cap sent # {}
  BY DEF Deliver, tables, outputs
<1>2. delivered \in [HubMessage -> 0..MaxDeliver]
  BY DEF IInv, TypeOK
<1>3. \A k \in HubMessage :
        /\ HasDelivered(k) => delivered'[k] > 0
        /\ HasDelivered(k)' => HasDelivered(k) \/ k = h
  BY <1>1, <1>2, BoundsAssumption DEF HasDelivered
<1>4. LedgersGrow
  BY <1>1, <1>3 DEF LedgersGrow, DeliveredStay, MessagesStay
<1>5. CallsAdd({}) /\ AnswersAdd({}) /\ LinksAdd({})
  BY <1>1 DEF CallsAdd, AnswersAdd, LinksAdd
<1>6. \A x \in TransferId : <<"committed", x>> \in HubMessage
  BY DEF HubMessage, AboutTransfer
<1>7. CASE h[1] = "committed"
  <2>1. PICK x \in TransferId : h = <<"committed", x>>
    BY <1>7 DEF HubMessage, AboutTransaction, AboutTransfer
  <2>2. {<<"putTransfers", x>>, <<"postTransfers", x>>} \cap sent # {}
    BY <1>1, <2>1 DEF PromptedBy
  <2>3. CommitsAdd({x})
    BY <1>3, <1>6, <2>1 DEF CommitsAdd, Committed
  <2> QED
    BY <1>4, <1>5, <2>2, <2>3, CommitKeeps
<1>8. CASE h[1] # "committed"
  <2>1. CommitsAdd({})
    BY <1>3, <1>6, <1>8 DEF CommitsAdd, Committed
  <2> QED
    BY <1>4, <1>5, <2>1, SilentStutters DEF Silent
<1> QED
  BY <1>7, <1>8

\* A new message of a terminal is linked to nothing.
LEMMA ReceiveKeeps ==
  ASSUME IInv, OwnersKept, NEW type, NEW q, NEW lpsKey, NEW payer, NEW about,
         Receive(type, q, lpsKey, payer, about)
  PROVE  [Promise!PromiseNext]_Promise!promises
<1>1. UNCHANGED <<links, sent, responses, delivered>>
  BY DEF Receive, outputs
<1>2. MessagesStay
  <2>1. PICK m \in NextMsg :
          lpsMessages' = [lpsMessages EXCEPT ![m] =
               [type |-> type, lpsKey |-> lpsKey, payer |-> payer,
                about |-> about]]
    BY DEF Receive
  <2>2. \A k \in MsgId : Stored(k) => k # m
    BY DEF NextMsg, Stored
  <2> QED
    BY <2>1, <2>2 DEF MessagesStay, IInv, TypeOK
<1>3. LedgersGrow
  BY <1>1, <1>2 DEF LedgersGrow, DeliveredStay, HasDelivered
<1>4. Silent
  BY <1>1
  DEF Silent, CallsAdd, AnswersAdd, LinksAdd, CommitsAdd, Committed, HasDelivered
<1> QED
  BY <1>3, <1>4, SilentStutters

\* What surrounds the handlers.
LEMMA EnvironmentKeeps ==
  ASSUME IInv, Remembered, Owned, OwnersKept,
         \/ \E q \in WorkerQueue : Take(q)
         \/ \E d \in Device : Terminal(d)
         \/ \E h \in HubMessage : Deliver(h)
         \/ \E t \in TrxId : ExpireTransaction(t) \/ ExpireQuote(t)
         \/ Crash
  PROVE  [Promise!PromiseNext]_Promise!promises
<1>1. CASE \/ \E q \in WorkerQueue : Take(q)
           \/ \E t \in TrxId : ExpireTransaction(t) \/ ExpireQuote(t)
           \/ Crash
  <2>1. UNCHANGED <<lpsMessages, links, delivered, sent, responses>>
    BY <1>1 DEF Take, ExpireTransaction, ExpireQuote, Crash, tables, outputs
  <2> QED
    BY <2>1, UnnoticedKeeps DEF Unnoticed
<1>2. CASE \E d \in Device : Terminal(d)
  BY <1>2, ReceiveKeeps DEF Terminal, SendAuthorizationRequest,
     SendFinancialRequest, SendReversalAdvice
<1> QED
  BY <1>1, <1>2, DeliverKeeps

\* Every step is one of CashPromise, or none that a customer can see.
LEMMA StepKeepsPromise ==
  ASSUME IInv, Remembered, Owned, [Next]_vars
  PROVE  [Promise!PromiseNext]_Promise!promises
<1>1. CASE UNCHANGED vars
  <2>1. UNCHANGED <<lpsMessages, transactions, links, delivered, sent, responses>>
    BY <1>1 DEF vars
  <2>2. OwnersKept /\ Unnoticed({})
    BY <2>1 DEF OwnersKept, Unnoticed
  <2> QED
    BY <2>2, UnnoticedKeeps
<1>2. CASE Next /\ LAInsertTransaction
  BY <1>2, LegacyAuthorizationRequestHandlerKeeps
  DEF LegacyAuthorizationRequestHandler
<1>3. CASE Next /\ LRInsertRefund
  BY <1>3, LegacyReversalHandlerKeeps DEF LegacyReversalHandler
<1>4. CASE OwnersKept /\ Handler
  BY <1>4, LegacyAuthorizationRequestHandlerKeeps, PartiesResponseHandlerKeeps,
     TransactionRequestResponseHandlerKeeps, QuotesRequestHandlerKeeps,
     AuthorizationRequestHandlerKeeps, LegacyFinancialRequestHandlerKeeps,
     TransferRequestHandlerKeeps, TransferResponseHandlerKeeps,
     LegacyReversalHandlerKeeps, QuoteResponseHandlerKeeps
  DEF Handler
<1>5. CASE Next /\ OwnersKept /\ ~Handler
  BY <1>5, EnvironmentKeeps DEF Next
<1> QED
  BY <1>1, <1>2, <1>3, <1>4, <1>5, OwnersStep

\* At first nothing has happened.
LEMMA PromiseStart ==
  ASSUME Init
  PROVE  Promise!PromiseInit /\ Owned
<1>1. \A t \in TrxId : transactions[t] = NoTransaction
  BY DEF Init
<1>2. \A t \in TrxId :
        transactions[t].lpsKey = None /\ transactions[t].original = 0 /\ ~Exists(t)
  BY <1>1 DEF NoTransaction, Exists
<1>3. IInv
  BY InvariantInit
<1>4. \A t \in TrxId : {s \in StepsOfTrx(t) : Happened(t, s)} = {}
  BY <1>2, <1>3, Unborn, StepNames
<1>5. Promise!PromiseInit
  BY <1>2, <1>4 DEF Promise!PromiseInit
<1> QED
  BY <1>2, <1>5 DEF Owned

\* Whatever is repeated, delayed, reversed, thrown or lost: what the handlers
\* do is what CashPromise allows.  A payer is debited only after having been
\* asked, shown the fees and having entered the password, cash is dispensed
\* only after that, and is paid back only for what has been debited and taken
\* back (src/handlers, index.ts).
THEOREM PromiseKept == Spec => KeepsPromise
<1>1. Init => Promise!PromiseInit /\ Owned
  BY PromiseStart
<1>2. IInv /\ Remembered /\ Owned /\ [Next]_vars => [Promise!PromiseNext]_Promise!promises
  BY StepKeepsPromise
<1>3. IInv /\ IInv' /\ Owned /\ [Next]_vars => Owned'
  <2>1. CASE UNCHANGED vars
    BY <2>1 DEF vars, Owned, Exists
  <2> QED
    BY <2>1, OwnedStep
<1>4. History => Remembered
  BY DEF History
<1> QED
  BY <1>1, <1>2, <1>3, <1>4, Invariance, HistoryInvariance, PTL
  DEF Spec, KeepsPromise, Promise!PromiseSpec
=============================================================================
