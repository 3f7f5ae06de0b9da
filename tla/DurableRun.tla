------------------------------ MODULE DurableRun ------------------------------
(***************************************************************************)
(* One durable run: its row in agent_runs, its steps in agent_run_steps,   *)
(* its approval in run_approvals, the workers that lease and execute it    *)
(* (app/runs/worker.py), the user requests that create, clarify, approve   *)
(* and cancel it (app/runs/repository.py) and the resume requests that     *)
(* reconcile a failed step (app/api/routes/runs.py).                       *)
(*                                                                         *)
(* An action is one database statement or transaction, or one external     *)
(* call, together with the local computation that follows it; everything   *)
(* else may happen in between.                                             *)
(***************************************************************************)
EXTENDS Integers, FiniteSets, Sequences

CONSTANTS
    Steps,          \* the sequence numbers of the plan's steps
    Tools,          \* the write tools
    Contract,       \* required_tools of each step's write contract, in order
    NeedsApproval,  \* the run's requires_approval
    Gated,          \* the steps with requires_approval
    Idempotent,     \* _INTRINSICALLY_IDEMPOTENT_WRITES
    Deps,           \* the dependencies of each step
    ReadAttempts,   \* max_attempts of a read step; a write step has 1
    BatchLimit,     \* worker_step_concurrency
    Workers,        \* the worker loops
    Resumers,       \* the concurrent resume requests
    Nobody,         \* lease_owner NULL
    MaxCrashes,     \* bound: worker processes that die
    MaxStalls,      \* bound: leases that run out under a live worker
    MaxResumes      \* bound: resume requests accepted

\* a read has no contract, and validate_plan refuses a write without one
Reads  == {s \in Steps : Contract[s] = <<>>}
Writes == Steps \ Reads

RequiredTools(s) == {Contract[s][i] : i \in DOMAIN Contract[s]}

ASSUME StepsAssumption ==
    /\ Steps \subseteq Nat
    /\ IsFiniteSet(Steps)
    /\ Contract \in [Steps -> Seq(Tools)]
    /\ \A s \in Steps : Cardinality(RequiredTools(s)) = Len(Contract[s])
    /\ Gated \subseteq Writes
    /\ NeedsApproval \in BOOLEAN
    /\ Gated # {} => NeedsApproval
    /\ Idempotent \subseteq Tools

\* validate_plan: a dependency precedes the step that names it
ASSUME DepsAssumption ==
    /\ Deps \in [Steps -> SUBSET Steps]
    /\ \A s \in Steps : \A d \in Deps[s] : d < s

ASSUME BoundsAssumption ==
    /\ ReadAttempts \in Nat \ {0}
    /\ BatchLimit \in Nat \ {0}
    /\ IsFiniteSet(Workers)
    /\ Nobody \notin Workers
    /\ {MaxCrashes, MaxStalls, MaxResumes} \subseteq Nat

R == INSTANCE Reconciliation
        WITH WriteTools <- Tools, IdempotentWrites <- Idempotent

-------------------------------------------------------------------------------

VARIABLES
    runStatus,      \* agent_runs.status
    leaseOwner,     \* agent_runs.lease_owner
    leaseLive,      \* lease_expires_at >= now()
    approval,       \* the status of the run's approval row
    stepStatus,     \* agent_run_steps.status
    attempts,       \* agent_run_steps.attempt_count
    category,       \* agent_run_steps.error_category
    output,         \* the tool_executions persisted in output_data
    history,        \* write tools with a row in agent_tool_attempts
    pc,             \* where each worker is in worker_loop
    batch,          \* the steps it claimed in this turn of the loop
    task,           \* what the coroutine of each claimed step is doing
    executions,     \* the results of the write tools it has called so far
    verdict,        \* the failure category or terminal status it will write
    resumeStep,     \* the failed step a resume request works on
    decision,       \* what it decided
    calls,          \* history variable: attempts of a step that issued a tool
    resumed,        \* history variable: safe_to_retry resumes of a step
    faults          \* history variable: crashes, stalls and resumes so far

runVars    == <<runStatus, leaseOwner, leaseLive, approval>>
stepVars   == <<stepStatus, attempts, category, output, history>>
taskVars   == <<batch, task, executions>>
workerVars == <<pc, taskVars, verdict>>
resumeVars == <<resumeStep, decision>>
ghostVars  == <<calls, resumed, faults>>
vars == <<runVars, stepVars, workerVars, resumeVars, ghostVars>>

Active   == {"queued", "running", "awaiting_approval", "awaiting_clarification"}
Terminal == {"completed", "partial", "failed", "cancelled"}
RunStatuses == Active \cup Terminal \cup {"absent"}

StepStatuses ==
    {"absent", "pending", "awaiting_approval", "running",
     "completed", "failed", "cancelled"}

(* What a coroutine of _execute_step is doing.  It is "calling" while the  *)
(* external call of a write is in flight and "refused" once a result came  *)
(* back as an error; it ends "done" or with the category of the exception  *)
(* that it raised.                                                         *)
ErrorKinds == {"transient", "permanent"}
TaskStates == {"none", "working", "calling", "refused", "done", "tool_selection"}
              \cup ErrorKinds

Locations ==
    {"idle", "starting", "polling", "claiming", "executing", "raising",
     "abandoning", "reconciling", "finalizing", "closing"}

NoStep == 0 - 1

TypeOK ==
    /\ runStatus \in RunStatuses
    /\ leaseOwner \in Workers \cup {Nobody}
    /\ leaseLive \in BOOLEAN
    /\ approval \in {"none", "pending", "approved", "rejected", "expired"}
    /\ stepStatus \in [Steps -> StepStatuses]
    /\ attempts \in [Steps -> Nat]
    /\ category \in [Steps -> R!Categories]
    /\ output \in [Steps -> SUBSET R!Execution]
    /\ history \in [Steps -> SUBSET Tools]
    /\ pc \in [Workers -> Locations]
    /\ batch \in [Workers -> SUBSET Steps]
    /\ task \in [Workers -> [Steps -> TaskStates]]
    /\ executions \in [Workers -> [Steps -> SUBSET R!Execution]]
    /\ verdict \in [Workers -> R!Categories \cup Terminal]
    /\ resumeStep \in [Resumers -> Steps \cup {NoStep}]
    /\ decision \in [Resumers -> R!Decisions]
    /\ calls \in [Steps -> [Tools -> Nat]]
    /\ resumed \in [Steps -> Nat]
    /\ faults \in [crashes : Nat, stalls : Nat, resumes : Nat]

MaxAttempts(s) == IF s \in Reads THEN ReadAttempts ELSE 1
StepsIn(status) == {s \in Steps : stepStatus[s] = status}
Least(S) == CHOOSE s \in S : \A t \in S : s <= t

Init ==
    /\ runStatus = "absent"
    /\ leaseOwner = Nobody
    /\ leaseLive = FALSE
    /\ approval = "none"
    /\ stepStatus = [s \in Steps |-> "absent"]
    /\ attempts = [s \in Steps |-> 0]
    /\ category = [s \in Steps |-> "none"]
    /\ output = [s \in Steps |-> {}]
    /\ history = [s \in Steps |-> {}]
    /\ pc = [w \in Workers |-> "idle"]
    /\ batch = [w \in Workers |-> {}]
    /\ task = [w \in Workers |-> [s \in Steps |-> "none"]]
    /\ executions = [w \in Workers |-> [s \in Steps |-> {}]]
    /\ verdict = [w \in Workers |-> "none"]
    /\ resumeStep = [u \in Resumers |-> NoStep]
    /\ decision = [u \in Resumers |-> "manual_required"]
    /\ calls = [s \in Steps |-> [t \in Tools |-> 0]]
    /\ resumed = [s \in Steps |-> 0]
    /\ faults = [crashes |-> 0, stalls |-> 0, resumes |-> 0]

-------------------------------------------------------------------------------
(* The user's requests: app/runs/repository.py.                            *)

(* A plan that validate_plan refuses is recorded as a failed run.          *)
CreateInvalidRun ==
    /\ runStatus = "absent"
    /\ runStatus' = "failed"
    /\ UNCHANGED <<leaseOwner, leaseLive, approval, stepVars, workerVars,
                   resumeVars, ghostVars>>

(* create_run: the steps of a gated plan wait for the approval, whether or *)
(* not the run first waits for a clarification.                            *)
CreateRun ==
    /\ runStatus = "absent"
    /\ \E clarify \in BOOLEAN :
          /\ runStatus' = IF clarify THEN "awaiting_clarification"
                          ELSE IF NeedsApproval THEN "awaiting_approval"
                          ELSE "queued"
          /\ approval' = IF NeedsApproval /\ ~clarify THEN "pending" ELSE "none"
    /\ stepStatus' = [s \in Steps |->
                        IF s \in Gated THEN "awaiting_approval" ELSE "pending"]
    /\ UNCHANGED <<leaseOwner, leaseLive, attempts, category, output, history,
                   workerVars, resumeVars, ghostVars>>

\* Mutant: an answered run goes straight to the workers.
ClarifyAndQueue ==
    /\ runStatus = "awaiting_clarification"
    /\ runStatus' = "queued"
    /\ approval' = IF NeedsApproval THEN "pending" ELSE approval
    /\ stepStatus' = [s \in Steps |-> "pending"]
    /\ UNCHANGED <<leaseOwner, leaseLive, attempts, category, output, history,
                   workerVars, resumeVars, ghostVars>>

(* clarify_run with the last answer: the plan is rebuilt and every step,   *)
(* gated or not, is inserted as pending.                                   *)
ClarifyRun ==
    /\ runStatus = "awaiting_clarification"
    /\ runStatus' = IF NeedsApproval THEN "awaiting_approval" ELSE "queued"
    /\ approval' = IF NeedsApproval THEN "pending" ELSE approval
    /\ stepStatus' = [s \in Steps |-> "pending"]
    /\ attempts' = [s \in Steps |-> 0]
    /\ category' = [s \in Steps |-> "none"]
    /\ output' = [s \in Steps |-> {}]
    /\ history' = [s \in Steps |-> {}]
    /\ UNCHANGED <<leaseOwner, leaseLive, workerVars, resumeVars, ghostVars>>

(* decide_run: the approval row is checked, the run's status is not.       *)
DecideRun ==
    /\ approval = "pending"
    /\ \E approved \in BOOLEAN :
          /\ approval' = IF approved THEN "approved" ELSE "rejected"
          /\ runStatus' = IF approved THEN "queued" ELSE "cancelled"
          /\ stepStatus' = [s \in Steps |->
                IF stepStatus[s] # "awaiting_approval" THEN stepStatus[s]
                ELSE IF approved THEN "pending" ELSE "cancelled"]
    /\ UNCHANGED <<leaseOwner, leaseLive, attempts, category, output, history,
                   workerVars, resumeVars, ghostVars>>

(* decide_run after expires_at: the row expires, the run keeps waiting.    *)
DecideTooLate ==
    /\ approval = "pending"
    /\ approval' = "expired"
    /\ UNCHANGED <<runStatus, leaseOwner, leaseLive, stepVars, workerVars,
                   resumeVars, ghostVars>>

(* cancel_run changes the status alone.                                    *)
CancelRun ==
    /\ runStatus \in {"queued", "awaiting_approval", "running"}
    /\ runStatus' = "cancelled"
    /\ UNCHANGED <<leaseOwner, leaseLive, approval, stepVars, workerVars,
                   resumeVars, ghostVars>>

-------------------------------------------------------------------------------
(* The worker: app/runs/worker.py.                                         *)

\* Mutant: a dependency only has to be over.
ReadyAfterFailure ==
    {s \in StepsIn("pending") :
        \A d \in Deps[s] : stepStatus[d] \in {"completed", "failed"}}

Ready ==
    {s \in StepsIn("pending") : \A d \in Deps[s] : stepStatus[d] = "completed"}

\* Mutants: an attempt too many, and no limit at all.
MayRetryOnceMore(S) ==
    /\ S \subseteq Reads
    /\ \A s \in S : attempts[s] <= MaxAttempts(s)
MayAlwaysRetry(S) == S \subseteq Reads

MayRetry(S) ==
    /\ S \subseteq Reads
    /\ \A s \in S : attempts[s] < MaxAttempts(s)

SetSteps(S, status, cause) ==
    /\ stepStatus' = [s \in Steps |-> IF s \in S THEN status ELSE stepStatus[s]]
    /\ category' = [s \in Steps |-> IF s \in S THEN cause ELSE category[s]]
    /\ UNCHANGED <<attempts, output, history>>

\* Mutant: a status that agent_runs does not know.
BrokenIncomplete(completed) == IF completed # {} THEN "incomplete" ELSE "failed"

Broken(completed) == IF completed # {} THEN "partial" ELSE "failed"

Lease(w) ==
    /\ runStatus' = "running"
    /\ leaseOwner' = w
    /\ leaseLive' = TRUE
    /\ pc' = [pc EXCEPT ![w] = "starting"]

Release(status) ==
    /\ runStatus' = status
    /\ leaseOwner' = Nobody
    /\ leaseLive' = FALSE

(* claim_run on a queued run.                                              *)
ClaimQueued(w) ==
    /\ pc[w] = "idle"
    /\ runStatus = "queued"
    /\ Lease(w)
    /\ UNCHANGED <<approval, stepVars, taskVars, verdict, resumeVars, ghostVars>>

\* Mutants: a running run is claimed whatever its lease says, or only if a
\* step of it was interrupted.
ReclaimRunning(w) ==
    /\ pc[w] = "idle"
    /\ runStatus = "running"
    /\ MayRetry(StepsIn("running"))
    /\ SetSteps(StepsIn("running"), "pending", "worker")
    /\ Lease(w)
    /\ UNCHANGED <<approval, taskVars, verdict, resumeVars, ghostVars>>
ReclaimInterrupted(w) == StepsIn("running") # {} /\ ~leaseLive /\ ReclaimRunning(w)

(* claim_run on an expired lease that left nothing, or only reads with     *)
(* attempts to spare, interrupted.                                         *)
ReclaimAndContinue(w) ==
    /\ pc[w] = "idle"
    /\ runStatus = "running" /\ ~leaseLive
    /\ MayRetry(StepsIn("running"))
    /\ SetSteps(StepsIn("running"), "pending", "worker")
    /\ Lease(w)
    /\ UNCHANGED <<approval, taskVars, verdict, resumeVars, ghostVars>>

(* claim_run on an expired lease that interrupted a write, or a read that  *)
(* has no attempt left: the run ends here and nobody executes it.          *)
ReclaimAndFail(w) ==
    /\ pc[w] = "idle"
    /\ runStatus = "running" /\ ~leaseLive
    /\ ~MayRetry(StepsIn("running"))
    /\ SetSteps(StepsIn("running"), "failed",
                IF StepsIn("running") \subseteq Reads
                THEN "worker" ELSE "worker_reconciliation")
    /\ Release(Broken(StepsIn("completed")))
    /\ UNCHANGED <<approval, workerVars, resumeVars, ghostVars>>

(* execute_run needs the user's credentials before the loop.               *)
LoadCredentials(w) ==
    /\ pc[w] = "starting"
    /\ \E connected \in BOOLEAN :
          /\ pc' = [pc EXCEPT ![w] = IF connected THEN "polling" ELSE "raising"]
          /\ verdict' = [verdict EXCEPT ![w] =
                            IF connected THEN "none" ELSE "permanent"]
    /\ UNCHANGED <<runVars, stepVars, taskVars, resumeVars, ghostVars>>

(* The loop only stops for a cancelled run; it never checks the lease.     *)
PollStatus(w) ==
    /\ pc[w] = "polling"
    /\ pc' = [pc EXCEPT ![w] = IF runStatus = "cancelled" THEN "idle" ELSE "claiming"]
    /\ UNCHANGED <<runVars, stepVars, taskVars, verdict, resumeVars, ghostVars>>

(* _claim_step: the first ready step, one statement each.                  *)
ClaimStep(w) ==
    /\ pc[w] = "claiming"
    /\ Cardinality(batch[w]) < BatchLimit
    /\ Ready # {}
    /\ LET s == Least(Ready) IN
          /\ stepStatus' = [stepStatus EXCEPT ![s] = "running"]
          /\ attempts' = [attempts EXCEPT ![s] = @ + 1]
          /\ batch' = [batch EXCEPT ![w] = @ \cup {s}]
          /\ task' = [task EXCEPT ![w][s] = "working"]
    /\ UNCHANGED <<runVars, category, output, history, pc, executions, verdict,
                   resumeVars, ghostVars>>

(* With nothing claimed the run is finished, or its graph is blocked.      *)
Dispatch(w) ==
    /\ pc[w] = "claiming"
    /\ Cardinality(batch[w]) >= BatchLimit \/ Ready = {}
    /\ LET blocked == batch[w] = {} /\ StepsIn("pending") # {} IN
          /\ pc' = [pc EXCEPT ![w] = IF batch[w] # {} THEN "executing"
                                     ELSE IF blocked THEN "raising"
                                     ELSE "reconciling"]
          /\ verdict' = [verdict EXCEPT ![w] = IF blocked THEN "permanent" ELSE "none"]
    /\ UNCHANGED <<runVars, stepVars, taskVars, resumeVars, ghostVars>>

-------------------------------------------------------------------------------
(* _execute_step, one coroutine for each step of the batch.                *)

Executing(w, s) == pc[w] = "executing" /\ s \in batch[w]

Accepted(results) == {x.tool : x \in {y \in results : y.ok}}
Missing(w, s) == RequiredTools(s) \ Accepted(executions[w][s])

\* next_ordered_required_tool
NextTool(w, s) ==
    Contract[s][Least({i \in DOMAIN Contract[s] : Contract[s][i] \in Missing(w, s)})]

(* A write tool is invoked: from here on the provider may have acted.      *)
BeginCall(w, s) ==
    /\ Executing(w, s)
    /\ task[w][s] = "working"
    /\ Missing(w, s) # {}
    /\ task' = [task EXCEPT ![w][s] = "calling"]
    /\ calls' = [calls EXCEPT ![s][NextTool(w, s)] = @ + 1]
    /\ UNCHANGED <<runVars, stepVars, pc, batch, executions, verdict, resumeVars,
                   resumed, faults>>

(* execute_tool_call returns and records the attempt, whatever its result. *)
(* Once the contract is met, the rest of the model's response is still     *)
(* executed: it may call a tool again, and be refused.                     *)
EndCall(w, s) ==
    /\ Executing(w, s)
    /\ task[w][s] = "calling"
    /\ LET t == NextTool(w, s)
           Return(results, state) ==
              /\ executions' = [executions EXCEPT ![w][s] = @ \cup results]
              /\ task' = [task EXCEPT ![w][s] = state]
       IN  /\ \/ Return({[tool |-> t, ok |-> TRUE]}, "working")
              \/ Return({[tool |-> t, ok |-> FALSE]}, "refused")
              \/ /\ Missing(w, s) = {t}
                 /\ \E again \in RequiredTools(s) :
                       Return({[tool |-> t, ok |-> TRUE],
                               [tool |-> again, ok |-> FALSE]}, "refused")
           /\ history' = [history EXCEPT ![s] = @ \cup {t}]
    /\ UNCHANGED <<runVars, stepStatus, attempts, category, output, pc, batch,
                   verdict, resumeVars, ghostVars>>

(* The step's row is written by its id alone: neither its status, nor its  *)
(* attempt, nor the run's lease is looked at.                              *)
PersistStep(w, s, status, cause, state) ==
    /\ stepStatus' = [stepStatus EXCEPT ![s] = status]
    /\ category' = [category EXCEPT ![s] = cause]
    /\ output' = [output EXCEPT ![s] = executions[w][s]]
    /\ task' = [task EXCEPT ![w][s] = state]
    /\ UNCHANGED <<runVars, attempts, history, pc, batch, executions, verdict,
                   resumeVars, ghostVars>>

(* The contract is met and the result is verified.                         *)
SucceedStep(w, s) ==
    /\ Executing(w, s)
    /\ task[w][s] = "working"
    /\ Missing(w, s) = {}
    /\ PersistStep(w, s, "completed", "none", "done")

(* The agent gave up, possibly between two tools of the contract, a tool   *)
(* was refused, or the verification failed.                                *)
FailStep(w, s) ==
    /\ Executing(w, s)
    /\ task[w][s] \in {"working", "refused"}
    /\ \E cause \in ErrorKinds \cup {"tool_selection"} :
          /\ cause = "tool_selection" => task[w][s] = "working" /\ Missing(w, s) # {}
          /\ PersistStep(w, s, "failed", cause, cause)

(* The coroutine raises before it writes the row: the step stays running.  *)
RaiseStep(w, s) ==
    /\ Executing(w, s)
    /\ task[w][s] \in {"working", "refused"}
    /\ \E cause \in ErrorKinds : task' = [task EXCEPT ![w][s] = cause]
    /\ UNCHANGED <<runVars, stepVars, pc, batch, executions, verdict, resumeVars,
                   ghostVars>>

(* asyncio.gather: the first failure in claim order is raised.             *)
Gather(w) ==
    /\ pc[w] = "executing"
    /\ \A s \in batch[w] :
          task[w][s] \in {"done", "tool_selection"} \cup ErrorKinds
    /\ LET failures == {s \in batch[w] : task[w][s] # "done"} IN
          /\ pc' = [pc EXCEPT ![w] = IF failures = {} THEN "polling" ELSE "raising"]
          /\ verdict' = [verdict EXCEPT ![w] =
                IF failures = {} THEN "none" ELSE task[w][Least(failures)]]
    /\ batch' = [batch EXCEPT ![w] = {}]
    /\ task' = [task EXCEPT ![w] = [s \in Steps |-> "none"]]
    /\ executions' = [executions EXCEPT ![w] = [s \in Steps |-> {}]]
    /\ UNCHANGED <<runVars, stepVars, resumeVars, ghostVars>>

-------------------------------------------------------------------------------
(* How execute_run ends.                                                   *)

(* The exception handler's transaction: interrupted reads are queued again *)
(* after a transient failure, whatever became of the run meanwhile.        *)
RetryReads(w) ==
    /\ pc[w] = "raising"
    /\ verdict[w] = "transient"
    /\ StepsIn("running") # {} /\ MayRetry(StepsIn("running"))
    /\ SetSteps(StepsIn("running"), "pending", "transient")
    /\ Release("queued")
    /\ pc' = [pc EXCEPT ![w] = "idle"]
    /\ verdict' = [verdict EXCEPT ![w] = "none"]
    /\ UNCHANGED <<approval, taskVars, resumeVars, ghostVars>>

(* Otherwise the handler gives the run up.                                 *)
GiveUp(w) ==
    /\ pc[w] = "raising"
    /\ ~(/\ verdict[w] = "transient"
         /\ StepsIn("running") # {} /\ MayRetry(StepsIn("running")))
    /\ pc' = [pc EXCEPT ![w] = "abandoning"]
    /\ UNCHANGED <<runVars, stepVars, taskVars, verdict, resumeVars, ghostVars>>

\* Mutant: interrupted writes are left for a reconciliation.
FailRunningReads(w) ==
    /\ pc[w] = "abandoning"
    /\ SetSteps(StepsIn("running") \cap Reads, "failed", verdict[w])
    /\ pc' = [pc EXCEPT ![w] = "closing"]
    /\ verdict' = [verdict EXCEPT ![w] = Broken(StepsIn("completed"))]
    /\ UNCHANGED <<runVars, taskVars, resumeVars, ghostVars>>

(* Every running step of the run fails, and the steps are read back.       *)
FailRunningSteps(w) ==
    /\ pc[w] = "abandoning"
    /\ SetSteps(StepsIn("running"), "failed", verdict[w])
    /\ pc' = [pc EXCEPT ![w] = "closing"]
    /\ verdict' = [verdict EXCEPT ![w] = Broken(StepsIn("completed"))]
    /\ UNCHANGED <<runVars, taskVars, resumeVars, ghostVars>>

\* Mutant: one call that was accepted is proof enough.
MayVerifyPartly(s) == \E x \in output[s] : x.ok

(* verify_executions_detailed may pass on what a step's row says was done. *)
MayVerify(s) == output[s] # {} /\ \A x \in output[s] : x.ok

(* _reconcile_verified_failed_siblings: failed writes whose persisted      *)
(* executions pass a readback now are completed.                           *)
ReconcileSiblings(w) ==
    /\ pc[w] = "reconciling"
    /\ \E S \in SUBSET {s \in StepsIn("failed") \cap Writes : MayVerify(s)} :
          SetSteps(S, "completed", "none")
    /\ pc' = [pc EXCEPT ![w] = "finalizing"]
    /\ UNCHANGED <<runVars, taskVars, verdict, resumeVars, ghostVars>>

\* Mutant: nothing is left to do, so all is done.
ReadOutcomeIdle(w) ==
    /\ pc[w] = "finalizing"
    /\ verdict' = [verdict EXCEPT ![w] =
            IF StepsIn("pending") = {} THEN "completed" ELSE "partial"]
    /\ pc' = [pc EXCEPT ![w] = "closing"]
    /\ UNCHANGED <<runVars, stepVars, taskVars, resumeVars, ghostVars>>

(* The steps are read; the run's row is written in a later statement.      *)
ReadOutcome(w) ==
    /\ pc[w] = "finalizing"
    /\ verdict' = [verdict EXCEPT ![w] =
            IF StepsIn("completed") = Steps THEN "completed" ELSE "partial"]
    /\ pc' = [pc EXCEPT ![w] = "closing"]
    /\ UNCHANGED <<runVars, stepVars, taskVars, resumeVars, ghostVars>>

(* The terminal status is written by the run's id alone.                   *)
WriteOutcome(w) ==
    /\ pc[w] = "closing"
    /\ Release(verdict[w])
    /\ pc' = [pc EXCEPT ![w] = "idle"]
    /\ verdict' = [verdict EXCEPT ![w] = "none"]
    /\ UNCHANGED <<approval, stepVars, taskVars, resumeVars, ghostVars>>

-------------------------------------------------------------------------------
(* Leases and crashes.                                                     *)

(* _heartbeat renews the lease while the run is running and still owned,   *)
(* even a lease that has already run out.                                  *)
Heartbeat(w) ==
    /\ pc[w] # "idle"
    /\ runStatus = "running" /\ leaseOwner = w
    /\ ~leaseLive
    /\ leaseLive' = TRUE
    /\ UNCHANGED <<runStatus, leaseOwner, approval, stepVars, workerVars,
                   resumeVars, ghostVars>>

(* The lease of a worker that died, or never returned, runs out.           *)
LeaseTimesOut ==
    /\ runStatus = "running" /\ leaseLive
    /\ leaseOwner \in Workers /\ pc[leaseOwner] = "idle"
    /\ leaseLive' = FALSE
    /\ UNCHANGED <<runStatus, leaseOwner, approval, stepVars, workerVars,
                   resumeVars, ghostVars>>

(* The lease runs out under a live worker: the heartbeat task died on a    *)
(* database error, or the event loop was held up.                          *)
LeaseStalls ==
    /\ faults.stalls < MaxStalls
    /\ runStatus = "running" /\ leaseLive
    /\ leaseOwner \in Workers /\ pc[leaseOwner] # "idle"
    /\ leaseLive' = FALSE
    /\ faults' = [faults EXCEPT !.stalls = @ + 1]
    /\ UNCHANGED <<runStatus, leaseOwner, approval, stepVars, workerVars,
                   resumeVars, calls, resumed>>

(* The process dies; only the database and the provider remember.          *)
Crash(w) ==
    /\ faults.crashes < MaxCrashes
    /\ pc[w] # "idle"
    /\ pc' = [pc EXCEPT ![w] = "idle"]
    /\ batch' = [batch EXCEPT ![w] = {}]
    /\ task' = [task EXCEPT ![w] = [s \in Steps |-> "none"]]
    /\ executions' = [executions EXCEPT ![w] = [s \in Steps |-> {}]]
    /\ verdict' = [verdict EXCEPT ![w] = "none"]
    /\ faults' = [faults EXCEPT !.crashes = @ + 1]
    /\ UNCHANGED <<runVars, stepVars, resumeVars, calls, resumed>>

-------------------------------------------------------------------------------
(* _reconcile_and_resume: two transactions with the decision in between.   *)

EvidenceOf(s, chatBlocked) ==
    [readOnly    |-> s \in Reads,
     chatBlocked |-> chatBlocked,
     required    |-> RequiredTools(s),
     executions  |-> output[s],
     history     |-> history[s],
     category    |-> category[s]]

(* The failed step is snapshot under its lock and the lock is released.    *)
BeginResume(u, s) ==
    /\ resumeStep[u] = NoStep
    /\ faults.resumes < MaxResumes
    /\ runStatus \in {"failed", "partial"}
    /\ stepStatus[s] = "failed"
    /\ \E chatBlocked, verified \in BOOLEAN :
          /\ chatBlocked => s \in Writes
          /\ verified => MayVerify(s)
          /\ decision' = [decision EXCEPT ![u] =
                            R!Decide(EvidenceOf(s, chatBlocked), verified)]
    /\ resumeStep' = [resumeStep EXCEPT ![u] = s]
    /\ faults' = [faults EXCEPT !.resumes = @ + 1]
    /\ UNCHANGED <<runVars, stepVars, workerVars, calls, resumed>>

(* Only the step's status is checked again before the decision is applied. *)
RejectResume(u) ==
    /\ resumeStep[u] # NoStep
    /\ stepStatus[resumeStep[u]] # "failed" \/ decision[u] = "manual_required"
    /\ resumeStep' = [resumeStep EXCEPT ![u] = NoStep]
    /\ UNCHANGED <<runVars, stepVars, workerVars, decision, ghostVars>>

\* Mutant: a retry restarts the plan from the failed step on.
ApplyResumeOnwards(u) ==
    /\ resumeStep[u] # NoStep
    /\ decision[u] # "manual_required"
    /\ LET s == resumeStep[u]
           retry == decision[u] = "safe_to_retry"
       IN  /\ stepStatus[s] = "failed"
           /\ IF retry THEN SetSteps({t \in Steps : t >= s}, "pending", "none")
              ELSE SetSteps({s}, "completed", "none")
           /\ resumed' = [resumed EXCEPT ![s] = IF retry THEN @ + 1 ELSE @]
    /\ Release("queued")
    /\ resumeStep' = [resumeStep EXCEPT ![u] = NoStep]
    /\ UNCHANGED <<approval, workerVars, decision, calls, faults>>

ApplyResume(u) ==
    /\ resumeStep[u] # NoStep
    /\ decision[u] # "manual_required"
    /\ LET s == resumeStep[u]
           retry == decision[u] = "safe_to_retry"
       IN  /\ stepStatus[s] = "failed"
           /\ SetSteps({s}, IF retry THEN "pending" ELSE "completed", "none")
           /\ resumed' = [resumed EXCEPT ![s] = IF retry THEN @ + 1 ELSE @]
    /\ Release("queued")
    /\ resumeStep' = [resumeStep EXCEPT ![u] = NoStep]
    /\ UNCHANGED <<approval, workerVars, decision, calls, faults>>

-------------------------------------------------------------------------------

UserRequest ==
    \/ CreateInvalidRun \/ CreateRun \/ ClarifyRun
    \/ DecideRun \/ DecideTooLate \/ CancelRun

TaskStep(w, s) ==
    \/ BeginCall(w, s) \/ EndCall(w, s)
    \/ SucceedStep(w, s) \/ FailStep(w, s) \/ RaiseStep(w, s)

WorkerStep(w) ==
    \/ ClaimQueued(w) \/ ReclaimAndContinue(w) \/ ReclaimAndFail(w)
    \/ LoadCredentials(w) \/ PollStatus(w) \/ ClaimStep(w) \/ Dispatch(w)
    \/ \E s \in Steps : TaskStep(w, s)
    \/ Gather(w) \/ RetryReads(w) \/ GiveUp(w) \/ FailRunningSteps(w)
    \/ ReconcileSiblings(w) \/ ReadOutcome(w) \/ WriteOutcome(w)

Fault ==
    \/ LeaseStalls
    \/ \E w \in Workers : Crash(w)

Resume ==
    \E u \in Resumers :
       \/ \E s \in Steps : BeginResume(u, s)
       \/ RejectResume(u)
       \/ ApplyResume(u)

Next ==
    \/ UserRequest
    \/ \E w \in Workers : WorkerStep(w) \/ Heartbeat(w)
    \/ LeaseTimesOut
    \/ Fault
    \/ Resume

Spec == Init /\ [][Next]_vars

(* A worker loop that has something to do does it: it polls for runs, and  *)
(* every tool call returns.  Time passes, so that a dead worker's lease    *)
(* runs out.  Users, crashes and stalls are never obliged to happen.       *)
Fairness ==
    /\ \A w \in Workers : WF_vars(WorkerStep(w))
    /\ WF_vars(LeaseTimesOut)

FairSpec == Spec /\ Fairness
-------------------------------------------------------------------------------
(* Properties that hold whatever the workers, the leases and the users do. *)

(* Writes do not retry blindly: beyond the first, every external call that *)
(* a write step issues is paid for by a resume that was judged safe, and a *)
(* read never takes more attempts than max_attempts and its resumes        *)
(* (_claim_step, the handler of execute_run and claim_run's recovery are   *)
(* the only ways a step runs again).                                       *)
RetryBudget ==
    \A s \in Steps :
        /\ attempts[s] <= MaxAttempts(s) + resumed[s]
        /\ \A t \in Tools : calls[s][t] <= attempts[s]

(* No external write of a gated step is ever issued without the user's     *)
(* approval of the plan (create_run, clarify_run and decide_run).          *)
ApprovalGate ==
    \A s \in Gated, t \in Tools : calls[s][t] > 0 => approval = "approved"

(* The run implements the ledger of executions: approvals authorise, a     *)
(* claimed step is a start, a safe_to_retry resume is a grant.             *)
Ledger == INSTANCE StepLedger
            WITH Budget     <- [s \in Steps |-> MaxAttempts(s)],
                 authorised <- (approval = "approved"),
                 credit     <- [s \in Steps |->
                                  MaxAttempts(s) + resumed[s] - attempts[s]],
                 started    <- attempts

ImplementsLedger == Ledger!LedgerSpec

(* A run that a worker may take or holds settles: it is finished, failed   *)
(* or cancelled in the end, through crashes and expired leases.            *)
RunSettles ==
    runStatus \in {"queued", "running"} ~> runStatus \in Terminal

(* Properties that need the lease to outlive its worker's execution and    *)
(* one resume request at a time: nothing in the code fences a step or a    *)
(* run against a second executor.                                          *)

(* At most one worker executes the run.                                    *)
SingleExecutor ==
    \A v, w \in Workers : pc[v] # "idle" /\ pc[w] # "idle" => v = w

(* A write that may not be repeated is issued by one attempt of its step:  *)
(* no crash, retry or reconciliation makes a worker call the provider      *)
(* again.                                                                  *)
NoRepeatedWrite ==
    \A s \in Steps, t \in Tools \ Idempotent : calls[s][t] <= 1

(* "Supported writes are read back from Google before completion is        *)
(* claimed" (docs/OPERATIONS.md): a write counts as completed only when    *)
(* the provider accepted a call, and its row shows no refused one.         *)
CompletedWritesWereAccepted ==
    \A s \in Writes : stepStatus[s] = "completed" =>
        output[s] # {} /\ \A x \in output[s] : x.ok

(* A run is never falsely finalized as completed (ReadOutcome decides from *)
(* steps read before WriteOutcome writes the run).                         *)
CompletedMeansComplete ==
    runStatus = "completed" => StepsIn("completed") = Steps

(* A run that has ended has no step in flight that could still change it.  *)
EndedMeansQuiet ==
    runStatus \in {"completed", "partial", "failed"} => StepsIn("running") = {}

(* A step runs, and counts as completed, on completed dependencies only.   *)
DependencyOrder ==
    \A s \in Steps : stepStatus[s] \in {"running", "completed"} =>
        \A d \in Deps[s] : stepStatus[d] = "completed"

(* Completed steps never reset.                                            *)
CompletedStepsStay ==
    [][\A s \in Steps :
          stepStatus[s] = "completed" => stepStatus'[s] = "completed"]_vars

-------------------------------------------------------------------------------
(* What the documentation says of the system, and the code does not keep.  *)

(* "Terminal states are completed, partial, failed, and cancelled"         *)
(* (knowledge/schemas/durable-run.md): what the user was told is cancelled *)
(* is not put back to work.                                                *)
CancelledNeverRuns ==
    [][runStatus = "cancelled" => runStatus' \notin {"queued", "running"}]_vars

(* "its required tools ... must succeed in the declared order/mode"        *)
(* (docs/ARCHITECTURE.md): a completed write has called every tool of its  *)
(* contract with success.  The readback that completes a failed step looks *)
(* at the recorded executions alone, never at the contract.                *)
ContractFulfilled ==
    \A s \in Writes : stepStatus[s] = "completed" =>
        RequiredTools(s) \subseteq Accepted(output[s])
===============================================================================
