----------------------------- MODULE ErrorFlow -----------------------------
(***************************************************************************)
(* errorResponseHandler, which takes the errors the hub reports and turns  *)
(* the transaction down.  index.ts starts no worker for its queue: this is *)
(* the orchestrator with the worker the handler was written for.           *)
(***************************************************************************)
EXTENDS OrchestratorHistory

VARIABLE errorWork  \* what the worker of ErrorResponses is doing

EF == "ErrorResponses"
errorVars == <<vars, errorWork>>

NoErrorWork == [pc |-> "idle", job |-> NoJob]

\* The transaction an error is about; for other kinds of error there is none.
ErrorTransaction(h) ==
  CASE h[1] = "quoteError" -> {t \in TrxId : t = h[2] /\ quotes[t] # "none"}
    [] h[1] = "transferError" -> {x[1] : x \in {h[2]} \cap
                                     {y \in TransferId : transfers[y] # "none"}}
    [] OTHER -> {}

\* Mutant: the type of the error decides, for refunds as well.
ErrorMessages_NoRefunds(h, t) ==
  Linked(t, IF h[1] = "quoteError" THEN "authorizationRequest"
                                   ELSE "financialRequest")

\* Mutant: the request that opened the transaction is answered.
ErrorMessages_First(h, t) ==
  Linked(t, IF IsRefund(t) THEN "reversalRequest" ELSE "authorizationRequest")

\* The messages of t that may be told: that of the step that failed, and for
\* a refund the advice.
ErrorMessages(h, t) ==
  Linked(t, IF IsRefund(t) THEN "reversalRequest"
            ELSE IF h[1] = "quoteError" THEN "authorizationRequest"
                                        ELSE "financialRequest")

EFTake ==
  /\ errorWork.pc = "idle"
  /\ queue[EF] # <<>>
  /\ queue' = [queue EXCEPT ![EF] = Tail(@)]
  /\ errorWork' = [pc |-> "find", job |-> Head(queue[EF])]
  /\ UNCHANGED <<tables, work, outputs, delivered, budget>>

\* What is not found throws, and is logged.
EFFind ==
  /\ errorWork.pc = "find"
  /\ LET found == ErrorTransaction(errorWork.job) IN
     \/ \E t \in found :
          errorWork' = [errorWork EXCEPT
                          !.pc = IF IsValid(t) THEN "cancel" ELSE "answer"]
     \/ found = {} /\ errorWork' = NoErrorWork
  /\ UNCHANGED vars

EFCancel ==
  /\ errorWork.pc = "cancel"
  /\ \E t \in ErrorTransaction(errorWork.job) : SetState(t, "transactionCancelled")
  /\ errorWork' = [errorWork EXCEPT !.pc = "answer"]
  /\ UNCHANGED <<environment, links, quotes, transfers, work, outputs>>

EFAnswer ==
  /\ errorWork.pc = "answer"
  /\ \E t \in ErrorTransaction(errorWork.job) :
       LET told == ErrorMessages(errorWork.job, t) IN
       \/ \E m \in told : Respond(m, "invalid")
       \/ told = {} /\ UNCHANGED responses
  /\ errorWork' = NoErrorWork
  /\ UNCHANGED <<environment, transactions, links, quotes, transfers, work,
                 sent>>

EFThrow ==
  /\ errorWork.pc # "idle"
  /\ budget.faults > 0
  /\ budget' = [budget EXCEPT !.faults = @ - 1]
  /\ errorWork' = NoErrorWork
  /\ UNCHANGED <<tables, queue, work, outputs, delivered>>

ErrorResponseHandler == EFFind \/ EFCancel \/ EFAnswer \/ EFThrow

\* A crash takes the job of this worker with it too.
Others ==
  /\ Next
  /\ errorWork' = IF budget'.crashes = budget.crashes THEN errorWork
                                                      ELSE NoErrorWork

ErrorNext == EFTake \/ ErrorResponseHandler \/ Others

ErrorSpec ==
  /\ Init /\ errorWork = NoErrorWork
  /\ [][ErrorNext]_errorVars
  /\ Fairness
  /\ WF_errorVars(EFTake) /\ WF_errorVars(ErrorResponseHandler)

-----------------------------------------------------------------------------
\* A fulfilled transfer is answered to the terminal, whether the hub commits it
\* or reports an error, as long as no await throws.
FulfilledIsSettled ==
  \A t \in TrxId :
    (\E n \in 1..MaxDeliver : <<"putTransfers", <<t, n>>>> \in sent)
      ~> \/ \E m \in Linked(t, "financialRequest") : Answered(m)
         \/ ~Undisturbed

\* No terminal waits for an answer to its reversal that an error in the quote
\* or the transfer of the refund has made impossible, as long as no await
\* throws.
RefundIsSettled ==
  \A t \in TrxId :
    IsRefund(t) ~> \/ \E m \in Linked(t, "reversalRequest") : Answered(m)
                   \/ ~Undisturbed

-----------------------------------------------------------------------------
\* What it works on is an error the hub has reported.
ErrorWorkOK == errorWork.pc # "idle" => Justified(EF, errorWork.job)

\* Every reachable state satisfies the invariants of Orchestrator, with the error
\* handler at work as well; no step can leave them.
ErrorInv == IInv /\ History /\ Owned /\ ErrorWorkOK
=============================================================================
