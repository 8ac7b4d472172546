---------------------------- MODULE CashPromise ----------------------------
(***************************************************************************)
(* What the adaptor promises about cash: a terminal dispenses for its      *)
(* withdrawal only after the payer has been asked, has seen the fees, has  *)
(* entered the password and has been debited, in this order; money flows   *)
(* back only for a withdrawal that has been debited and that its terminal  *)
(* has taken back.  Nothing that has happened is undone.                   *)
(*                                                                         *)
(* No tables, queues, workers or retries: one transaction makes one step   *)
(* at a time.  CashRefinement says how Orchestrator implements this.       *)
(***************************************************************************)
EXTENDS Naturals

CONSTANTS
  Trx,      \* withdrawals and refunds, which are not 0
  Till,     \* the terminals: where cash is dispensed
  Nobody    \* none of the terminals

VARIABLES
  terminal, \* the terminal of each transaction, Nobody if there is none yet
  original, \* the withdrawal a refund pays back, 0 for a withdrawal
  done      \* what has happened to each transaction

promises == <<terminal, original, done>>

-----------------------------------------------------------------------------
\* What happens to a withdrawal, each after the one before it.  "reversed", the
\* terminal taking it back, may happen at any time.
WithdrawalSteps ==
  {"requested", "quoted", "shown", "entered", "fulfilled", "debited",
   "dispensed", "reversed"}
RefundSteps == {"asked", "paid", "credited", "confirmed"}

StepsFor(t) == IF original[t] = 0 THEN WithdrawalSteps ELSE RefundSteps

Before(step) ==
  CASE step = "quoted" -> {"requested"}
    [] step = "shown" -> {"quoted"}
    [] step = "entered" -> {"shown"}
    [] step = "fulfilled" -> {"entered"}
    [] step = "debited" -> {"fulfilled"}
    [] step = "dispensed" -> {"debited"}
    [] step = "paid" -> {"asked"}
    [] step = "credited" -> {"paid"}
    [] step = "confirmed" -> {"credited"}
    [] OTHER -> {}

Opened(t) == terminal[t] # Nobody

PromiseInit ==
  /\ terminal = [t \in Trx |-> Nobody]
  /\ original = [t \in Trx |-> 0]
  /\ done = [t \in Trx |-> {}]

OpenWithdrawal(t, d) ==
  /\ ~Opened(t)
  /\ terminal' = [terminal EXCEPT ![t] = d]
  /\ UNCHANGED <<original, done>>

\* A refund is opened for the terminal that made and reversed the withdrawal.
OpenRefund(t, o) ==
  /\ ~Opened(t)
  /\ Opened(o) /\ original[o] = 0
  /\ {"debited", "reversed"} \subseteq done[o]
  /\ terminal' = [terminal EXCEPT ![t] = terminal[o]]
  /\ original' = [original EXCEPT ![t] = o]
  /\ UNCHANGED done

Happen(t, step) ==
  /\ Opened(t)
  /\ step \notin done[t] /\ step \in done'[t]
  /\ Before(step) \subseteq done[t]
  /\ done' = [done EXCEPT ![t] = @ \cup {step}]
  /\ UNCHANGED <<terminal, original>>

PromiseNext ==
  \E t \in Trx :
    \/ \E d \in Till : OpenWithdrawal(t, d)
    \/ \E o \in Trx : OpenRefund(t, o)
    \/ \E step \in StepsFor(t) : Happen(t, step)

PromiseSpec == PromiseInit /\ [][PromiseNext]_promises
=============================================================================
