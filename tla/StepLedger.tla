------------------------------ MODULE StepLedger ------------------------------
(***************************************************************************)
(* What a durable run promises about the executions of its steps, with no  *)
(* worker, lease, crash or reconciliation in sight: every step has a       *)
(* budget of executions, each start is paid from it, the budget grows only *)
(* by an explicit grant for a step that has run, and a step that needs an  *)
(* approval does not start without it.                                     *)
(***************************************************************************)
EXTENDS Integers

CONSTANTS Steps, Gated, Budget

VARIABLES
    authorised,     \* the user approved the plan
    credit,         \* executions a step may still start
    started         \* executions a step has started

ledgerVars == <<authorised, credit, started>>

LedgerInit ==
    /\ authorised = FALSE
    /\ credit = Budget
    /\ started = [s \in Steps |-> 0]

Authorise ==
    /\ authorised' = TRUE
    /\ UNCHANGED <<credit, started>>

Start(s) ==
    /\ credit[s] > 0
    /\ s \in Gated => authorised
    /\ credit' = [credit EXCEPT ![s] = @ - 1]
    /\ started' = [started EXCEPT ![s] = @ + 1]
    /\ UNCHANGED authorised

Grant(s) ==
    /\ started[s] > 0
    /\ credit' = [credit EXCEPT ![s] = @ + 1]
    /\ UNCHANGED <<authorised, started>>

LedgerNext ==
    \/ Authorise
    \/ \E s \in Steps : Start(s) \/ Grant(s)

LedgerSpec == LedgerInit /\ [][LedgerNext]_ledgerVars
===============================================================================
