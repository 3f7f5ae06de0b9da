---------------------------- MODULE Reconciliation ----------------------------
(***************************************************************************)
(* The decision that app/runs/reconciliation.py takes about one failed     *)
(* step: may it be put back to pending, is it already done, or does it     *)
(* need a human.  The decision is a pure function of the persisted row,    *)
(* the tool attempts recorded for the step and the outcome of a provider   *)
(* readback.                                                               *)
(*                                                                         *)
(* Tools are abstract values: only membership in the set of write tools,   *)
(* in the step's contract and in the set of idempotent writes matters.     *)
(***************************************************************************)

CONSTANTS
    WriteTools,         \* WRITE_TOOLS of app/tools/contracts.py
    IdempotentWrites    \* _INTRINSICALLY_IDEMPOTENT_WRITES

Decisions == {"safe_to_retry", "already_completed", "manual_required"}

Categories ==
    {"none", "transient", "permanent", "tool_selection", "worker",
     "worker_reconciliation"}

(* One persisted tool call: ok is FALSE when its result carries an error   *)
(* or success=False.                                                       *)
Execution == [tool : WriteTools, ok : BOOLEAN]

(* What the first transaction of a resume knows about the failed step.     *)
(* required is the tool set of its write contract, {} when there is none.  *)
StepEvidence ==
    [readOnly    : BOOLEAN,
     chatBlocked : BOOLEAN,
     required    : SUBSET WriteTools,
     executions  : SUBSET Execution,
     history     : SUBSET WriteTools,
     category    : Categories]

Attempted(e) == {x.tool : x \in e.executions}
AttemptedRequired(e) == Attempted(e) \cap e.required
ExplicitlyFailed(e) == \A x \in e.executions : ~x.ok

\* Mutant: an interrupted write that recorded nothing never happened.
DecideFromHistory(e) ==
    IF e.history # {} THEN "manual_required" ELSE "safe_to_retry"

(* Nothing in the row says a required tool was called: only the history of *)
(* tool attempts and the failure category can block the retry.             *)
DecideUnattempted(e) ==
    IF e.history # {} \/ e.category = "worker_reconciliation"
    THEN "manual_required"
    ELSE "safe_to_retry"

(* A required tool was called: trust the readback, and repeat only writes  *)
(* that are idempotent and failed explicitly.                              *)
DecideAttempted(e, verified) ==
    IF verified THEN "already_completed"
    ELSE IF Attempted(e) \subseteq IdempotentWrites /\ ExplicitlyFailed(e)
         THEN "safe_to_retry"
         ELSE "manual_required"

Decide(e, verified) ==
    IF e.chatBlocked THEN "manual_required"
    ELSE IF e.readOnly THEN "safe_to_retry"
    ELSE IF e.required = {} THEN "manual_required"
    ELSE IF AttemptedRequired(e) = {} THEN DecideUnattempted(e)
    ELSE DecideAttempted(e, verified)
===============================================================================
