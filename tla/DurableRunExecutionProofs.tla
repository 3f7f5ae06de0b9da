----------------------- MODULE DurableRunExecutionProofs -----------------------
(***************************************************************************)
(* What holds of a durable run while the lease outlives its worker's       *)
(* execution and resume requests come one at a time: a single executor,    *)
(* ordered steps, honest outcomes and no repeated write.                   *)
(*                                                                         *)
(* Neither hypothesis is enforced by the code, and the theorems are false  *)
(* without them: the counterexamples are the runs StaleOverwrite and       *)
(* ConcurrentResume.                                                       *)
(***************************************************************************)
EXTENDS DurableRunBudgetProofs

-------------------------------------------------------------------------------
(* The hypotheses.                                                         *)

\* a live worker's heartbeat always comes before its lease runs out
LeasesHold == MaxStalls = 0

\* resume requests are not concurrent
OneResumer == \A u, v \in Resumers : u = v

\* the write tools of a step are all idempotent, or none of them is
UniformContracts ==
    \A s \in Steps : \/ RequiredTools(s) \subseteq Idempotent
                     \/ RequiredTools(s) \cap Idempotent = {}

-------------------------------------------------------------------------------
(* The inductive invariant, one layer on the other.                        *)

(* A worker that is not idle holds the live lease, or the run has been     *)
(* cancelled under it; a resume request in flight keeps the run ended.     *)
LeaseInv ==
    /\ SingleExecutor
    /\ \A w \in Workers : pc[w] # "idle" =>
          \/ runStatus = "cancelled"
          \/ runStatus = "running" /\ leaseOwner = w /\ leaseLive
    /\ \A u \in Resumers : resumeStep[u] # NoStep => runStatus \in {"failed", "partial"}
    /\ approval = "pending" => NeedsApproval

(* The running steps are the claimed steps of the one executor, as far as  *)
(* their coroutines have not ended; outside a batch nothing is running.    *)
BatchOf(w) ==
    /\ pc[w] \notin {"claiming", "executing"} => batch[w] = {}
    /\ \A s \in Steps \ batch[w] : task[w][s] = "none" /\ executions[w][s] = {}
    /\ pc[w] = "claiming" =>
          /\ StepsIn("running") = batch[w]
          /\ \A s \in batch[w] : task[w][s] = "working"
    /\ pc[w] = "executing" =>
          /\ StepsIn("running") \subseteq batch[w]
          /\ \A s \in batch[w] :
                /\ task[w][s] \in {"working", "calling", "refused"} =>
                      stepStatus[s] = "running"
                /\ task[w][s] = "done" => stepStatus[s] = "completed"
    /\ pc[w] \in {"starting", "polling", "reconciling", "finalizing", "closing"} =>
          StepsIn("running") = {}

BatchInv ==
    /\ \A w \in Workers : BatchOf(w)
    /\ runStatus \in {"queued", "completed", "partial", "failed"} =>
          StepsIn("running") = {}

(* A step that has been claimed had its dependencies completed, and what a *)
(* worker is about to say of the whole run is true of its steps.           *)
OrderInv ==
    /\ \A s \in Steps : stepStatus[s] \in {"running", "completed", "failed"} =>
          \A d \in Deps[s] : stepStatus[d] = "completed"
    /\ \A w \in Workers : pc[w] = "closing" /\ verdict[w] = "completed" =>
          StepsIn("completed") = Steps
    /\ CompletedMeansComplete

(* A coroutine that goes on has seen no refusal, and a resume that will    *)
(* complete its step has read the step back.                               *)
AcceptInv ==
    /\ CompletedWritesWereAccepted
    /\ \A w \in Workers, s \in Steps : task[w][s] \in {"working", "calling"} =>
          \A x \in executions[w][s] : x.ok
    /\ \A u \in Resumers :
          resumeStep[u] # NoStep /\ decision[u] = "already_completed" =>
              MayVerify(resumeStep[u])

(* A write that may not be repeated leaves its step out of reach of every  *)
(* retry: the call is in flight, or the step's row or its history of tool  *)
(* attempts tells the reconciliation that something may have happened.     *)
Recorded(s) == history[s] # {} \/ category[s] = "worker_reconciliation"

Unrepeated == Tools \ Idempotent

IssuedOf(s, t) ==
    calls[s][t] > 0 =>
        /\ calls[s][t] = 1
        /\ t \in RequiredTools(s)
        /\ stepStatus[s] \in {"running", "failed", "completed"}
        /\ stepStatus[s] = "failed" => Recorded(s)
        /\ \A w \in Workers :
              /\ stepStatus[s] = "running" /\ pc[w] # "idle" =>
                    history[s] # {} \/ task[w][s] = "calling"
              /\ task[w][s] = "working" => t \notin Missing(w, s)
              /\ task[w][s] = "calling" => t \notin Missing(w, s) \ {NextTool(w, s)}

IssuedInv ==
    /\ \A s \in Steps, t \in Unrepeated : IssuedOf(s, t)
    /\ \A u \in Resumers :
          resumeStep[u] # NoStep /\ decision[u] = "safe_to_retry" =>
              \A t \in Unrepeated : calls[resumeStep[u]][t] = 0

-------------------------------------------------------------------------------
(* The lease.                                                              *)

LEMMA StallsType ==
    ASSUME TypeInv, LeasesHold
    PROVE  ~ LeaseStalls
<1>1. faults.stalls \in Nat
  BY DEF TypeInv, TypeOK
<1>. QED
  BY <1>1 DEF LeasesHold, LeaseStalls

LEMMA LeaseInvUserRequest ==
    ASSUME TypeInv, StartInv, LeaseInv, UserRequest
    PROVE  LeaseInv'
<1> USE DEF LeaseInv, SingleExecutor, Started, NothingStarted, StartInv,
            workerVars, taskVars, resumeVars, stepVars
<1>1. CASE CreateInvalidRun
  BY <1>1 DEF CreateInvalidRun
<1>2. CASE CreateRun
  BY <1>2 DEF CreateRun
<1>3. CASE ClarifyRun
  BY <1>3 DEF ClarifyRun
<1>4. CASE DecideRun
  BY <1>4 DEF DecideRun
<1>5. CASE DecideTooLate
  BY <1>5 DEF DecideTooLate
<1>6. CASE CancelRun
  BY <1>6 DEF CancelRun
<1>. QED
  BY <1>1, <1>2, <1>3, <1>4, <1>5, <1>6 DEF UserRequest

(* A worker takes the run only when all are idle, and lets it go when it   *)
(* becomes idle itself.                                                    *)
LEMMA LeaseInvWorkerStep ==
    ASSUME TypeInv, LeaseInv, NEW w \in Workers, WorkerStep(w)
    PROVE  LeaseInv'
<1> USE DEF LeaseInv, SingleExecutor, TypeInv, TypeOK,
            workerVars, taskVars, resumeVars, ghostVars, runVars, stepVars
<1>1. CASE ClaimQueued(w)
  BY <1>1 DEF ClaimQueued, Lease
<1>2. CASE ReclaimAndContinue(w)
  BY <1>2 DEF ReclaimAndContinue, Lease
<1>3. CASE ReclaimAndFail(w)
  BY <1>3 DEF ReclaimAndFail, Release
<1>4. CASE LoadCredentials(w)
  BY <1>4 DEF LoadCredentials
<1>5. CASE PollStatus(w)
  BY <1>5 DEF PollStatus
<1>6. CASE ClaimStep(w)
  BY <1>6 DEF ClaimStep
<1>7. CASE Dispatch(w)
  BY <1>7 DEF Dispatch
<1>8. CASE \E s \in Steps : TaskStep(w, s)
  BY <1>8 DEF TaskStep, BeginCall, EndCall, SucceedStep, FailStep, RaiseStep,
              PersistStep
<1>9. CASE Gather(w)
  BY <1>9 DEF Gather
<1>10. CASE RetryReads(w)
  BY <1>10 DEF RetryReads, Release
<1>11. CASE GiveUp(w)
  BY <1>11 DEF GiveUp
<1>12. CASE FailRunningSteps(w)
  BY <1>12 DEF FailRunningSteps
<1>13. CASE ReconcileSiblings(w)
  BY <1>13 DEF ReconcileSiblings
<1>14. CASE ReadOutcome(w)
  BY <1>14 DEF ReadOutcome
<1>15. CASE WriteOutcome(w)
  BY <1>15 DEF WriteOutcome, Release
<1>. QED
  BY <1>1, <1>2, <1>3, <1>4, <1>5, <1>6, <1>7, <1>8, <1>9, <1>10, <1>11, <1>12,
     <1>13, <1>14, <1>15 DEF WorkerStep

LEMMA LeaseInvInductive ==
    ASSUME LeasesHold, OneResumer, TypeInv, StartInv, LeaseInv, [Next]_vars
    PROVE  LeaseInv'
<1> USE DEF workerVars, taskVars, resumeVars, ghostVars, runVars, stepVars
<1>1. ASSUME NEW w \in Workers, Heartbeat(w) PROVE LeaseInv'
  BY <1>1 DEF Heartbeat, LeaseInv, SingleExecutor
<1>2. CASE LeaseTimesOut
  BY <1>2 DEF LeaseTimesOut, LeaseInv, SingleExecutor
<1>3. ASSUME NEW w \in Workers, Crash(w) PROVE LeaseInv'
  BY <1>3 DEF Crash, LeaseInv, SingleExecutor, TypeInv, TypeOK
<1>4. ASSUME NEW u \in Resumers, NEW s \in Steps, BeginResume(u, s)
      PROVE  LeaseInv'
  BY <1>4 DEF BeginResume, LeaseInv, SingleExecutor, TypeInv, TypeOK
<1>5. ASSUME NEW u \in Resumers, RejectResume(u) PROVE LeaseInv'
  BY <1>5 DEF RejectResume, LeaseInv, SingleExecutor, TypeInv, TypeOK
<1>6. ASSUME NEW u \in Resumers, ApplyResume(u) PROVE LeaseInv'
  <2>1. \A v \in Resumers : resumeStep'[v] = NoStep
    BY <1>6 DEF ApplyResume, OneResumer, TypeInv, TypeOK
  <2>2. /\ runStatus \in {"failed", "partial"}
        /\ UNCHANGED <<approval, workerVars>>
    BY <1>6 DEF ApplyResume, LeaseInv
  <2>. QED
    BY <2>1, <2>2 DEF LeaseInv, SingleExecutor
<1>7. CASE UNCHANGED vars
  BY <1>7 DEF vars, LeaseInv, SingleExecutor
<1>. QED
  BY <1>1, <1>2, <1>3, <1>4, <1>5, <1>6, <1>7, StallsType, LeaseInvUserRequest,
     LeaseInvWorkerStep DEF Next, Fault, Resume

-------------------------------------------------------------------------------
(* The batch.                                                              *)

(* A request that finds the run untouched leaves nothing running.          *)
LEMMA BatchInvUntouched ==
    ASSUME BatchInv, NothingStarted, UNCHANGED workerVars,
           \A s \in Steps : stepStatus'[s] # "running"
    PROVE  BatchInv'
<1>1. StepsIn("running")' = {}
  BY DEF StepsIn
<1>2. \A w \in Workers :
          /\ pc'[w] = "idle"
          /\ batch'[w] = {}
          /\ \A s \in Steps : task'[w][s] = "none" /\ executions'[w][s] = {}
  BY DEF NothingStarted, BatchInv, BatchOf, workerVars, taskVars
<1>. QED
  BY <1>1, <1>2 DEF BatchInv, BatchOf

LEMMA BatchInvUserRequest ==
    ASSUME TypeInv, StartInv, LeaseInv, BatchInv, UserRequest
    PROVE  BatchInv'
<1>1. CASE runStatus \in {"absent", "awaiting_clarification"} \/ approval = "pending"
  <2>1. NothingStarted
    BY <1>1 DEF StartInv, Started, LeaseInv
  <2>2. UNCHANGED workerVars
    BY DEF UserRequest, CreateInvalidRun, CreateRun, ClarifyRun, DecideRun,
           DecideTooLate, CancelRun
  <2>3. \A s \in Steps : stepStatus[s] # "running"
    BY <2>1 DEF NothingStarted
  <2>4. \A s \in Steps : stepStatus'[s] # "running"
    BY <2>3 DEF UserRequest, CreateInvalidRun, CreateRun, ClarifyRun, DecideRun,
                DecideTooLate, CancelRun, stepVars
  <2>. QED
    BY <2>1, <2>2, <2>4, BatchInvUntouched
<1>2. CASE ~ (runStatus \in {"absent", "awaiting_clarification"} \/ approval = "pending")
  <2>1. CancelRun
    BY <1>2 DEF UserRequest, CreateInvalidRun, CreateRun, ClarifyRun, DecideRun,
                DecideTooLate
  <2>. QED
    BY <2>1 DEF CancelRun, BatchInv, BatchOf, StepsIn, workerVars, taskVars, stepVars
<1>. QED
  BY <1>1, <1>2

(* A step of the executor: the other workers are idle and stay it.         *)
LEMMA OthersStayIdle ==
    ASSUME TypeInv, LeaseInv, BatchInv, NEW w \in Workers, WorkerStep(w),
           NEW v \in Workers, v # w
    PROVE  /\ pc[v] = "idle"
           /\ pc'[v] = pc[v]
           /\ batch'[v] = batch[v]
           /\ \A s \in Steps : /\ task'[v][s] = task[v][s]
                               /\ executions'[v][s] = executions[v][s]
<1>1. pc[v] = "idle"
  <2>1. CASE ClaimQueued(w) \/ ReclaimAndContinue(w) \/ ReclaimAndFail(w)
    BY <2>1 DEF ClaimQueued, ReclaimAndContinue, ReclaimAndFail, LeaseInv
  <2>2. CASE pc[w] # "idle"
    BY <2>2 DEF LeaseInv, SingleExecutor
  <2>. QED
    BY <2>1, <2>2 DEF WorkerStep, LoadCredentials, PollStatus, ClaimStep, Dispatch,
           TaskStep, BeginCall, EndCall, SucceedStep, FailStep, RaiseStep, Executing,
           Gather, RetryReads, GiveUp, FailRunningSteps, ReconcileSiblings,
           ReadOutcome, WriteOutcome
<1> USE DEF TypeInv, TypeOK, workerVars, taskVars
<1>2. pc'[v] = pc[v] /\ batch'[v] = batch[v]
  BY DEF WorkerStep, ClaimQueued, ReclaimAndContinue, ReclaimAndFail, Lease,
         LoadCredentials, PollStatus, ClaimStep, Dispatch, TaskStep, BeginCall,
         EndCall, SucceedStep, FailStep, RaiseStep, PersistStep, Gather, RetryReads,
         GiveUp, FailRunningSteps, ReconcileSiblings, ReadOutcome, WriteOutcome
<1>3. ASSUME NEW s \in Steps
      PROVE  task'[v][s] = task[v][s] /\ executions'[v][s] = executions[v][s]
  BY DEF WorkerStep, ClaimQueued, ReclaimAndContinue, ReclaimAndFail, Lease,
         LoadCredentials, PollStatus, ClaimStep, Dispatch, TaskStep, BeginCall,
         EndCall, SucceedStep, FailStep, RaiseStep, PersistStep, Gather, RetryReads,
         GiveUp, FailRunningSteps, ReconcileSiblings, ReadOutcome, WriteOutcome
<1>. QED
  BY <1>1, <1>2, <1>3

(* What the executor does to the run leaves nothing running in a run that  *)
(* is queued or has ended.                                                 *)
LEMMA BatchInvTaskStep ==
    ASSUME TypeInv, BatchInv, NEW w \in Workers, NEW s \in Steps, TaskStep(w, s)
    PROVE  BatchOf(w)' /\ StepsIn("running")' \subseteq StepsIn("running")
<1> USE DEF TypeInv, TypeOK, StepsIn, ErrorKinds, Executing,
            workerVars, taskVars, resumeVars, ghostVars, runVars, stepVars
<1>1. pc[w] = "executing" /\ s \in batch[w] /\ BatchOf(w)
  BY DEF TaskStep, BeginCall, EndCall, SucceedStep, FailStep, RaiseStep, BatchInv
<1>2. CASE BeginCall(w, s)
  BY <1>1, <1>2 DEF BeginCall, BatchOf
<1>3. CASE EndCall(w, s)
  <2>1. /\ task[w][s] = "calling"
        /\ UNCHANGED <<stepStatus, pc, batch>>
        /\ \E state \in {"working", "refused"} : task' = [task EXCEPT ![w][s] = state]
        /\ \A r \in Steps \ {s} : executions'[w][r] = executions[w][r]
    BY <1>3 DEF EndCall
  <2>. QED
    BY <1>1, <2>1 DEF BatchOf
<1>4. CASE SucceedStep(w, s)
  BY <1>1, <1>4 DEF SucceedStep, PersistStep, BatchOf
<1>5. CASE FailStep(w, s)
  BY <1>1, <1>5 DEF FailStep, PersistStep, BatchOf
<1>6. CASE RaiseStep(w, s)
  BY <1>1, <1>6 DEF RaiseStep, BatchOf
<1>. QED
  BY <1>2, <1>3, <1>4, <1>5, <1>6 DEF TaskStep

LEMMA BatchInvWorkerStep ==
    ASSUME TypeInv, LeaseInv, BatchInv, NEW w \in Workers, WorkerStep(w)
    PROVE  BatchInv'
<1> USE DEF TypeInv, TypeOK, StepsIn,
            workerVars, taskVars, resumeVars, ghostVars, runVars, stepVars
<1> DEFINE Quiet == runStatus \in {"queued", "completed", "partial", "failed"} =>
                        StepsIn("running") = {}
<1>1. BatchOf(w) /\ Quiet
  BY DEF BatchInv
<1>2. pc[w] # "idle" => runStatus \in {"running", "cancelled"}
  BY DEF LeaseInv
<1>3. ASSUME NEW v \in Workers, v # w PROVE BatchOf(v)'
  BY <1>3, OthersStayIdle DEF BatchInv, BatchOf
<1>4. BatchOf(w)' /\ Quiet'
  <2>1. CASE ClaimQueued(w)
    BY <1>1, <2>1 DEF ClaimQueued, Lease, BatchOf
  <2>2. CASE ReclaimAndContinue(w)
    BY <1>1, <2>2 DEF ReclaimAndContinue, SetSteps, Lease, BatchOf
  <2>3. CASE ReclaimAndFail(w)
    BY <1>1, <2>3 DEF ReclaimAndFail, SetSteps, Release, BatchOf
  <2>4. CASE LoadCredentials(w)
    BY <1>1, <2>4 DEF LoadCredentials, BatchOf
  <2>5. CASE PollStatus(w)
    BY <1>1, <1>2, <2>5 DEF PollStatus, BatchOf
  <2>6. CASE ClaimStep(w)
    <3> DEFINE s == Least(Ready)
    <3>1. s \in Steps /\ stepStatus[s] = "pending"
      <4>1. Ready \subseteq StepsIn("pending") /\ Ready # {}
        BY <2>6 DEF ClaimStep, Ready
      <4>2. s \in Ready
        BY <4>1, LeastIsMember, StepsAssumption
      <4>. QED
        BY <4>1, <4>2
    <3> HIDE DEF s
    <3>2. /\ pc[w] = "claiming"
          /\ stepStatus' = [stepStatus EXCEPT ![s] = "running"]
          /\ batch' = [batch EXCEPT ![w] = @ \cup {s}]
          /\ task' = [task EXCEPT ![w][s] = "working"]
          /\ UNCHANGED <<runVars, pc, executions>>
      BY <2>6 DEF ClaimStep, s
    <3>. QED
      BY <1>1, <1>2, <3>1, <3>2 DEF BatchOf
  <2>7. CASE Dispatch(w)
    BY <1>1, <1>2, <2>7 DEF Dispatch, BatchOf
  <2>8. CASE \E s \in Steps : TaskStep(w, s)
    <3>1. runStatus' = runStatus
      BY <2>8 DEF TaskStep, BeginCall, EndCall, SucceedStep, FailStep, RaiseStep,
                  PersistStep
    <3>. QED
      BY <1>1, <2>8, <3>1, BatchInvTaskStep
  <2>9. CASE Gather(w)
    BY <1>1, <1>2, <2>9 DEF Gather, BatchOf
  <2>10. CASE RetryReads(w)
    BY <1>1, <2>10 DEF RetryReads, SetSteps, Release, BatchOf
  <2>11. CASE GiveUp(w)
    BY <1>1, <2>11 DEF GiveUp, BatchOf
  <2>12. CASE FailRunningSteps(w)
    BY <1>1, <1>2, <2>12 DEF FailRunningSteps, SetSteps, BatchOf
  <2>13. CASE ReconcileSiblings(w)
    BY <1>1, <1>2, <2>13 DEF ReconcileSiblings, SetSteps, BatchOf
  <2>14. CASE ReadOutcome(w)
    BY <1>1, <2>14 DEF ReadOutcome, BatchOf
  <2>15. CASE WriteOutcome(w)
    BY <1>1, <2>15 DEF WriteOutcome, Release, BatchOf
  <2>. QED
    BY <2>1, <2>2, <2>3, <2>4, <2>5, <2>6, <2>7, <2>8, <2>9, <2>10, <2>11, <2>12,
       <2>13, <2>14, <2>15 DEF WorkerStep
<1>. QED
  BY <1>3, <1>4 DEF BatchInv

LEMMA BatchInvInductive ==
    ASSUME LeasesHold, TypeInv, StartInv, LeaseInv, BatchInv, [Next]_vars
    PROVE  BatchInv'
<1> USE DEF workerVars, taskVars, resumeVars, ghostVars, runVars, stepVars
<1>1. ASSUME UNCHANGED <<runStatus, stepStatus, workerVars>> PROVE BatchInv'
  BY <1>1 DEF BatchInv, BatchOf, StepsIn
<1>2. ASSUME NEW w \in Workers, Heartbeat(w) PROVE BatchInv'
  BY <1>1, <1>2 DEF Heartbeat
<1>3. CASE LeaseTimesOut
  BY <1>1, <1>3 DEF LeaseTimesOut
<1>4. ASSUME NEW w \in Workers, Crash(w) PROVE BatchInv'
  BY <1>4 DEF Crash, BatchInv, BatchOf, StepsIn, TypeInv, TypeOK
<1>5. ASSUME NEW u \in Resumers, NEW s \in Steps, BeginResume(u, s)
      PROVE  BatchInv'
  BY <1>1, <1>5 DEF BeginResume
<1>6. ASSUME NEW u \in Resumers, RejectResume(u) PROVE BatchInv'
  BY <1>1, <1>6 DEF RejectResume
<1>7. ASSUME NEW u \in Resumers, ApplyResume(u) PROVE BatchInv'
  <2>1. /\ runStatus \in {"failed", "partial"}
        /\ \A w \in Workers : pc[w] = "idle"
    BY <1>7 DEF ApplyResume, LeaseInv
  <2>2. \A s \in Steps : stepStatus'[s] # "running"
    <3>1. \A s \in Steps : stepStatus[s] # "running"
      BY <2>1 DEF BatchInv, StepsIn
    <3>. QED
      BY <1>7, <3>1 DEF ApplyResume, SetSteps
  <2>3. UNCHANGED workerVars
    BY <1>7 DEF ApplyResume
  <2>. QED
    BY <2>1, <2>2, <2>3 DEF BatchInv, BatchOf, StepsIn
<1>8. CASE UNCHANGED vars
  BY <1>1, <1>8 DEF vars
<1>. QED
  BY <1>2, <1>3, <1>4, <1>5, <1>6, <1>7, <1>8, StallsType, BatchInvUserRequest,
     BatchInvWorkerStep DEF Next, Fault, Resume

-------------------------------------------------------------------------------
(* The steps.                                                              *)

(* A coroutine works on a step that is running, and moves no other.        *)
LEMMA TaskStepRuns ==
    ASSUME TypeInv, BatchInv, NEW w \in Workers, NEW s \in Steps, TaskStep(w, s)
    PROVE  /\ pc[w] = "executing" /\ s \in batch[w]
           /\ task[w][s] \in {"working", "calling", "refused"}
           /\ stepStatus[s] = "running"
           /\ stepStatus'[s] \in {"running", "completed", "failed"}
           /\ \A r \in Steps \ {s} : stepStatus'[r] = stepStatus[r]
<1>1. /\ pc[w] = "executing" /\ s \in batch[w]
      /\ task[w][s] \in {"working", "calling", "refused"}
  BY DEF TaskStep, BeginCall, EndCall, SucceedStep, FailStep, RaiseStep, Executing
<1>2. stepStatus[s] = "running"
  BY <1>1 DEF BatchInv, BatchOf
<1>3. /\ stepStatus'[s] \in {"running", "completed", "failed"}
      /\ \A r \in Steps \ {s} : stepStatus'[r] = stepStatus[r]
  BY <1>2 DEF TaskStep, BeginCall, EndCall, SucceedStep, FailStep, RaiseStep,
              PersistStep, stepVars, TypeInv, TypeOK
<1>. QED
  BY <1>1, <1>2, <1>3

(* The one place where a step is claimed.                                  *)
LEMMA ClaimStepMoves ==
    ASSUME TypeInv, NEW w \in Workers, ClaimStep(w)
    PROVE  \E s \in Ready :
              /\ s \in Steps /\ stepStatus[s] = "pending"
              /\ \A d \in Deps[s] : stepStatus[d] = "completed"
              /\ stepStatus' = [stepStatus EXCEPT ![s] = "running"]
              /\ batch' = [batch EXCEPT ![w] = @ \cup {s}]
              /\ task' = [task EXCEPT ![w][s] = "working"]
<1>1. Least(Ready) \in Ready
  <2>1. Ready \in SUBSET Nat /\ Ready # {}
    BY StepsAssumption DEF ClaimStep, Ready, StepsIn
  <2>. QED
    BY <2>1, LeastIsMember
<1>. QED
  BY <1>1 DEF ClaimStep, Ready, StepsIn

(* Every way in which a step's status moves.                               *)
LEMMA StepMoves ==
    ASSUME LeasesHold, TypeInv, StartInv, LeaseInv, BatchInv, [Next]_vars,
           NEW s \in Steps, stepStatus'[s] # stepStatus[s]
    PROVE  \/ /\ stepStatus[s] \in {"absent", "pending", "awaiting_approval", "cancelled"}
              /\ stepStatus'[s] \in {"pending", "awaiting_approval", "cancelled"}
           \/ /\ stepStatus[s] = "pending" /\ stepStatus'[s] = "running"
              /\ \A d \in Deps[s] : stepStatus[d] = "completed"
           \/ /\ stepStatus[s] = "running"
              /\ stepStatus'[s] \in {"pending", "failed", "completed"}
           \/ /\ stepStatus[s] = "failed"
              /\ stepStatus'[s] \in {"pending", "completed"}
<1> USE DEF StepsIn, TypeInv, TypeOK, stepVars
<1>1. CASE UserRequest
  <2>1. NothingStarted
    BY <1>1 DEF UserRequest, CreateInvalidRun, CreateRun, ClarifyRun, DecideRun,
                DecideTooLate, CancelRun, StartInv, Started, LeaseInv
  <2>. QED
    BY <1>1, <2>1 DEF UserRequest, CreateInvalidRun, CreateRun, ClarifyRun,
                DecideRun, DecideTooLate, CancelRun, NothingStarted
<1>2. ASSUME NEW w \in Workers, WorkerStep(w)
      PROVE  \/ /\ stepStatus[s] = "pending" /\ stepStatus'[s] = "running"
                /\ \A d \in Deps[s] : stepStatus[d] = "completed"
             \/ /\ stepStatus[s] = "running"
                /\ stepStatus'[s] \in {"pending", "failed", "completed"}
             \/ stepStatus[s] = "failed" /\ stepStatus'[s] = "completed"
  <2>1. CASE ClaimStep(w)
    BY <2>1, ClaimStepMoves
  <2>2. CASE \E r \in Steps : TaskStep(w, r)
    BY <2>2, TaskStepRuns
  <2>3. CASE ReclaimAndContinue(w) \/ ReclaimAndFail(w) \/ RetryReads(w)
             \/ FailRunningSteps(w) \/ ReconcileSiblings(w)
    BY <2>3 DEF ReclaimAndContinue, ReclaimAndFail, RetryReads, FailRunningSteps,
                ReconcileSiblings, SetSteps
  <2>. QED
    BY <1>2, <2>1, <2>2, <2>3 DEF WorkerStep, ClaimQueued, LoadCredentials, PollStatus,
       Dispatch, Gather, GiveUp, ReadOutcome, WriteOutcome
<1>3. CASE Resume
  BY <1>3 DEF Resume, BeginResume, RejectResume, ApplyResume, SetSteps
<1>. QED
  BY <1>1, <1>2, <1>3, StallsType DEF Next, Fault, Heartbeat, LeaseTimesOut, Crash, vars

LEMMA CompletedStay ==
    ASSUME LeasesHold, TypeInv, StartInv, LeaseInv, BatchInv, [Next]_vars
    PROVE  \A s \in Steps : stepStatus[s] = "completed" => stepStatus'[s] = "completed"
BY StepMoves

LEMMA OrderInvInductive ==
    ASSUME LeasesHold, TypeInv, StartInv, LeaseInv, BatchInv, OrderInv, [Next]_vars
    PROVE  OrderInv'
<1>1. ASSUME NEW s \in Steps, stepStatus'[s] \in {"running", "completed", "failed"},
             NEW d \in Deps[s]
      PROVE  stepStatus'[d] = "completed"
  <2>1. d \in Steps
    BY DepsAssumption
  <2>2. stepStatus[d] = "completed"
    BY <1>1, StepMoves DEF OrderInv
  <2>. QED
    BY <2>1, <2>2, CompletedStay
<1>2. StepsIn("completed") = Steps => StepsIn("completed")' = Steps
  BY CompletedStay DEF StepsIn
<1>3. ASSUME NEW w \in Workers, pc'[w] = "closing", verdict'[w] = "completed"
      PROVE  StepsIn("completed") = Steps
  <2> SUFFICES ASSUME ~ (pc[w] = "closing" /\ verdict[w] = "completed")
               PROVE  StepsIn("completed") = Steps
    BY DEF OrderInv
  <2> USE <1>3 DEF TypeInv, TypeOK, workerVars, taskVars
  <2>1. ASSUME NEW v \in Workers, WorkerStep(v) PROVE StepsIn("completed") = Steps
    BY <2>1 DEF WorkerStep, ClaimQueued, ReclaimAndContinue, ReclaimAndFail, Lease,
         LoadCredentials, PollStatus, ClaimStep, Dispatch, TaskStep, BeginCall,
         EndCall, SucceedStep, FailStep, RaiseStep, PersistStep, Gather, RetryReads,
         GiveUp, FailRunningSteps, ReconcileSiblings, ReadOutcome, WriteOutcome, Broken
  <2>. QED
    BY <2>1, StallsType DEF Next, UserRequest, CreateInvalidRun, CreateRun, ClarifyRun,
         DecideRun, DecideTooLate, CancelRun, Heartbeat, LeaseTimesOut, Fault, Crash,
         Resume, BeginResume, RejectResume, ApplyResume, vars
<1>4. ASSUME runStatus' = "completed" PROVE StepsIn("completed") = Steps
  <2> SUFFICES ASSUME runStatus # "completed"
               PROVE  StepsIn("completed") = Steps
    BY DEF OrderInv, CompletedMeansComplete
  <2> USE <1>4 DEF runVars
  <2>1. ASSUME NEW w \in Workers, WorkerStep(w) PROVE StepsIn("completed") = Steps
    BY <2>1 DEF WorkerStep, ClaimQueued, ReclaimAndContinue, ReclaimAndFail, Lease,
         Release, LoadCredentials, PollStatus, ClaimStep, Dispatch, TaskStep, BeginCall,
         EndCall, SucceedStep, FailStep, RaiseStep, PersistStep, Gather, RetryReads,
         GiveUp, FailRunningSteps, ReconcileSiblings, ReadOutcome, WriteOutcome, Broken,
         OrderInv
  <2>. QED
    BY <2>1, StallsType DEF Next, UserRequest, CreateInvalidRun, CreateRun, ClarifyRun,
         DecideRun, DecideTooLate, CancelRun, Heartbeat, LeaseTimesOut, Fault, Crash,
         Resume, BeginResume, RejectResume, ApplyResume, Release, vars
<1>. QED
  BY <1>1, <1>2, <1>3, <1>4 DEF OrderInv, CompletedMeansComplete

-------------------------------------------------------------------------------
(* What a completed write has behind it.                                   *)

\* a resume that completes its step has a readback that succeeded
LEMMA DecideVerified ==
    ASSUME NEW e, NEW verified \in BOOLEAN, R!Decide(e, verified) = "already_completed"
    PROVE  verified
BY DEF R!Decide, R!DecideUnattempted, R!DecideAttempted

LEMMA WritesHaveTools ==
    ASSUME NEW s \in Writes
    PROVE  RequiredTools(s) # {}
<1>1. Contract[s] \in Seq(Tools) /\ Contract[s] # <<>>
  BY StepsAssumption DEF Writes, Reads
<1>2. 1 \in DOMAIN Contract[s]
  BY <1>1
<1>. QED
  BY <1>2 DEF RequiredTools

LEMMA ReadsHaveNone ==
    ASSUME NEW s \in Reads
    PROVE  RequiredTools(s) = {}
<1>1. DOMAIN Contract[s] = {}
  BY DEF Reads
<1>. QED
  BY <1>1 DEF RequiredTools

LEMMA AcceptInvTaskStep ==
    ASSUME TypeInv, LeaseInv, BatchInv, AcceptInv,
           NEW w \in Workers, NEW s \in Steps, TaskStep(w, s)
    PROVE  AcceptInv'
<1>0. \A u \in Resumers : resumeStep[u] = NoStep /\ resumeStep'[u] = NoStep
  <2>1. pc[w] # "idle"
    BY TaskStepRuns
  <2>2. UNCHANGED resumeStep
    BY DEF TaskStep, BeginCall, EndCall, SucceedStep, FailStep, RaiseStep,
           PersistStep, resumeVars
  <2>. QED
    BY <2>1, <2>2 DEF LeaseInv
<1>1. stepStatus[s] = "running" /\ s \in batch[w]
  BY TaskStepRuns
<1> USE DEF AcceptInv, CompletedWritesWereAccepted, TypeInv, TypeOK, stepVars
<1>2. CASE BeginCall(w, s)
  BY <1>0, <1>2 DEF BeginCall
<1>3. CASE EndCall(w, s)
  <2>1. /\ UNCHANGED <<stepStatus, output>>
        /\ task[w][s] = "calling"
        /\ task'[w][s] = "working" =>
              executions'[w][s] = executions[w][s] \cup {[tool |-> NextTool(w, s), ok |-> TRUE]}
        /\ task'[w][s] \in {"working", "refused"}
        /\ \A v \in Workers, r \in Steps : <<v, r>> # <<w, s>> =>
              task'[v][r] = task[v][r] /\ executions'[v][r] = executions[v][r]
    BY <1>3 DEF EndCall
  <2>2. ASSUME NEW v \in Workers, NEW r \in Steps, task'[v][r] \in {"working", "calling"},
               NEW x \in executions'[v][r]
        PROVE  x.ok
    <3>1. CASE <<v, r>> = <<w, s>>
      BY <2>1, <2>2, <3>1
    <3>2. CASE <<v, r>> # <<w, s>>
      BY <2>1, <2>2, <3>2
    <3>. QED
      BY <3>1, <3>2
  <2>. QED
    BY <1>0, <2>1, <2>2
<1>4. CASE SucceedStep(w, s)
  <2>1. /\ stepStatus' = [stepStatus EXCEPT ![s] = "completed"]
        /\ output' = [output EXCEPT ![s] = executions[w][s]]
        /\ task' = [task EXCEPT ![w][s] = "done"]
        /\ UNCHANGED executions
        /\ task[w][s] = "working" /\ Missing(w, s) = {}
    BY <1>4 DEF SucceedStep, PersistStep
  <2>2. s \in Writes => executions[w][s] # {}
    BY <2>1, WritesHaveTools DEF Missing, Accepted
  <2>3. \A x \in executions[w][s] : x.ok
    BY <2>1
  <2>. QED
    BY <1>0, <2>1, <2>2, <2>3
<1>5. CASE FailStep(w, s)
  <2>1. \E cause \in ErrorKinds \cup {"tool_selection"} :
            /\ stepStatus' = [stepStatus EXCEPT ![s] = "failed"]
            /\ output' = [output EXCEPT ![s] = executions[w][s]]
            /\ task' = [task EXCEPT ![w][s] = cause]
            /\ UNCHANGED executions
    BY <1>5 DEF FailStep, PersistStep
  <2>. QED
    BY <1>0, <2>1 DEF ErrorKinds
<1>6. CASE RaiseStep(w, s)
  BY <1>0, <1>6 DEF RaiseStep, ErrorKinds
<1>. QED
  BY <1>2, <1>3, <1>4, <1>5, <1>6 DEF TaskStep

LEMMA AcceptInvWorkerStep ==
    ASSUME TypeInv, LeaseInv, BatchInv, AcceptInv, NEW w \in Workers, WorkerStep(w)
    PROVE  AcceptInv'
<1> USE DEF AcceptInv, CompletedWritesWereAccepted, TypeInv, TypeOK, StepsIn, MayVerify,
            workerVars, taskVars, resumeVars, ghostVars, runVars, stepVars
<1>1. CASE ClaimQueued(w) \/ LoadCredentials(w) \/ PollStatus(w) \/ Dispatch(w)
           \/ GiveUp(w) \/ ReadOutcome(w) \/ WriteOutcome(w)
  BY <1>1 DEF ClaimQueued, LoadCredentials, PollStatus, Dispatch, GiveUp,
              ReadOutcome, WriteOutcome
<1>2. CASE ReclaimAndContinue(w) \/ ReclaimAndFail(w) \/ RetryReads(w)
           \/ FailRunningSteps(w)
  <2>1. UNCHANGED <<output, task, executions, resumeStep, decision>>
    BY <1>2 DEF ReclaimAndContinue, ReclaimAndFail, RetryReads, FailRunningSteps,
                SetSteps
  <2>2. \A s \in Steps : stepStatus'[s] = "completed" => stepStatus[s] = "completed"
    BY <1>2 DEF ReclaimAndContinue, ReclaimAndFail, RetryReads, FailRunningSteps,
                SetSteps
  <2>. QED
    BY <2>1, <2>2 DEF Writes
<1>3. CASE ReconcileSiblings(w)
  <2>1. UNCHANGED <<output, task, executions, resumeStep, decision>>
    BY <1>3 DEF ReconcileSiblings, SetSteps
  <2>2. \A s \in Writes : stepStatus'[s] = "completed" =>
            stepStatus[s] = "completed" \/ MayVerify(s)
    BY <1>3 DEF ReconcileSiblings, SetSteps, Writes
  <2>3. CompletedWritesWereAccepted'
    <3> SUFFICES ASSUME NEW s \in Writes, stepStatus'[s] = "completed"
                 PROVE  MayVerify(s)
      BY <2>1
    <3>. QED
      BY <2>2
  <2> HIDE DEF CompletedWritesWereAccepted
  <2>. QED
    BY <2>1, <2>3
<1>4. CASE ClaimStep(w)
  <2>1. PICK s \in Steps :
            /\ stepStatus[s] = "pending"
            /\ stepStatus' = [stepStatus EXCEPT ![s] = "running"]
            /\ task' = [task EXCEPT ![w][s] = "working"]
    BY <1>4, ClaimStepMoves
  <2>2. UNCHANGED <<output, executions, resumeStep, decision>>
    BY <1>4 DEF ClaimStep
  <2>3. executions[w][s] = {}
    <3>1. s \notin batch[w]
      BY <1>4, <2>1 DEF ClaimStep, BatchInv, BatchOf
    <3>. QED
      BY <3>1 DEF BatchInv, BatchOf
  <2>. QED
    BY <2>1, <2>2, <2>3
<1>5. CASE Gather(w)
  BY <1>5 DEF Gather
<1>. QED
  BY <1>1, <1>2, <1>3, <1>4, <1>5, AcceptInvTaskStep DEF WorkerStep

LEMMA AcceptInvInductive ==
    ASSUME LeasesHold, OneResumer, TypeInv, StartInv, LeaseInv, BatchInv, AcceptInv,
           [Next]_vars
    PROVE  AcceptInv'
<1> USE DEF AcceptInv, CompletedWritesWereAccepted, MayVerify,
            workerVars, taskVars, resumeVars, ghostVars, runVars, stepVars
<1>1. ASSUME UNCHANGED <<stepStatus, output, task, executions>>,
             \A u \in Resumers : resumeStep'[u] = NoStep
                \/ (resumeStep'[u] = resumeStep[u] /\ decision'[u] = decision[u])
      PROVE  AcceptInv'
  BY <1>1
<1>2. CASE UserRequest
  <2>1. CASE NothingStarted
    <3>1. /\ \A s \in Steps : stepStatus[s] # "completed"
          /\ \A u \in Resumers : resumeStep[u] = NoStep
      BY <2>1 DEF NothingStarted
    <3>2. /\ \A s \in Steps : stepStatus'[s] # "completed"
          /\ UNCHANGED <<task, executions, resumeStep>>
      BY <1>2, <3>1 DEF UserRequest, CreateInvalidRun, CreateRun, ClarifyRun,
                        DecideRun, DecideTooLate, CancelRun
    <3>3. \A s \in Writes : s \in Steps
      BY DEF Writes
    <3>. QED
      BY <3>1, <3>2, <3>3
  <2>2. CASE ~ NothingStarted
    <3>1. CancelRun
      BY <1>2, <2>2 DEF UserRequest, CreateInvalidRun, CreateRun, ClarifyRun,
                        DecideRun, DecideTooLate, StartInv, Started, LeaseInv
    <3>. QED
      BY <1>1, <3>1 DEF CancelRun
  <2>. QED
    BY <2>1, <2>2
<1>3. ASSUME NEW w \in Workers, Heartbeat(w) PROVE AcceptInv'
  BY <1>1, <1>3 DEF Heartbeat
<1>4. CASE LeaseTimesOut
  BY <1>1, <1>4 DEF LeaseTimesOut
<1>5. ASSUME NEW w \in Workers, Crash(w) PROVE AcceptInv'
  BY <1>5 DEF Crash, TypeInv, TypeOK
<1>6. ASSUME NEW u \in Resumers, NEW s \in Steps, BeginResume(u, s)
      PROVE  AcceptInv'
  <2>1. /\ UNCHANGED <<stepStatus, output, task, executions>>
        /\ resumeStep' = [resumeStep EXCEPT ![u] = s]
    BY <1>6 DEF BeginResume
  <2>2. \A v \in Resumers : v = u
    BY DEF OneResumer
  <2>3. ASSUME decision'[u] = "already_completed" PROVE MayVerify(s)
    <3>1. PICK chatBlocked \in BOOLEAN, verified \in BOOLEAN :
              /\ verified => MayVerify(s)
              /\ decision' = [decision EXCEPT ![u] =
                                R!Decide(EvidenceOf(s, chatBlocked), verified)]
      BY <1>6 DEF BeginResume
    <3>2. R!Decide(EvidenceOf(s, chatBlocked), verified) = "already_completed"
      BY <2>3, <3>1 DEF TypeInv, TypeOK
    <3>. QED
      BY <3>1, <3>2, DecideVerified
  <2>. QED
    BY <2>1, <2>2, <2>3 DEF TypeInv, TypeOK
<1>7. ASSUME NEW u \in Resumers, RejectResume(u) PROVE AcceptInv'
  BY <1>1, <1>7 DEF RejectResume, TypeInv, TypeOK
<1>8. ASSUME NEW u \in Resumers, ApplyResume(u) PROVE AcceptInv'
  <2>1. /\ resumeStep[u] \in Steps
        /\ decision[u] \in {"safe_to_retry", "already_completed"}
        /\ UNCHANGED <<output, task, executions, decision>>
        /\ stepStatus' = [s \in Steps |-> IF s \in {resumeStep[u]}
              THEN IF decision[u] = "safe_to_retry" THEN "pending" ELSE "completed"
              ELSE stepStatus[s]]
    BY <1>8 DEF ApplyResume, SetSteps, TypeInv, TypeOK, R!Decisions
  <2>2. \A v \in Resumers : resumeStep'[v] = NoStep
    BY <1>8 DEF ApplyResume, OneResumer, TypeInv, TypeOK
  <2>3. resumeStep[u] # NoStep
    BY <1>8 DEF ApplyResume
  <2>4. ASSUME NEW s \in Writes, stepStatus'[s] = "completed" PROVE MayVerify(s)
    <3>1. CASE s = resumeStep[u]
      BY <2>1, <2>3, <2>4, <3>1 DEF Writes
    <3>2. CASE s # resumeStep[u]
      BY <2>1, <2>4, <3>2 DEF Writes
    <3>. QED
      BY <3>1, <3>2
  <2>. QED
    BY <2>1, <2>2, <2>4
<1>9. CASE UNCHANGED vars
  BY <1>1, <1>9 DEF vars
<1>. QED
  BY <1>2, <1>3, <1>4, <1>5, <1>6, <1>7, <1>8, <1>9, StallsType, AcceptInvWorkerStep
     DEF Next, Fault, Resume

-------------------------------------------------------------------------------
(* The writes that may not be repeated.                                    *)

(* What was issued and may not be repeated is never judged safe to retry.  *)
LEMMA RecordedIsNotRetried ==
    ASSUME UniformContracts, NEW s \in Steps, NEW t \in RequiredTools(s) \ Idempotent,
           Recorded(s), NEW chatBlocked \in BOOLEAN, NEW verified \in BOOLEAN
    PROVE  R!Decide(EvidenceOf(s, chatBlocked), verified) # "safe_to_retry"
<1> DEFINE e == EvidenceOf(s, chatBlocked)
<1>0. s \notin Reads
  BY ReadsHaveNone
<1>1. /\ ~ e.readOnly
      /\ e.required = RequiredTools(s) /\ e.history = history[s]
      /\ e.category = category[s]
  BY <1>0 DEF EvidenceOf
<1> HIDE DEF e
<1>2. CASE R!AttemptedRequired(e) = {}
  BY <1>1, <1>2 DEF R!Decide, R!DecideUnattempted, Recorded, e
<1>3. CASE R!AttemptedRequired(e) # {}
  <2>1. ~ (R!Attempted(e) \subseteq Idempotent)
    BY <1>1, <1>3 DEF R!AttemptedRequired, UniformContracts
  <2>. QED
    BY <1>1, <1>3, <2>1 DEF R!Decide, R!DecideAttempted, e
<1>. QED
  BY <1>2, <1>3

(* A step whose own data do not move, of workers that stay where they are. *)
LEMMA IssuedOfFrame ==
    ASSUME NEW s \in Steps, NEW t \in Unrepeated, IssuedOf(s, t),
           calls'[s][t] = calls[s][t],
           stepStatus'[s] = stepStatus[s] \/ stepStatus'[s] = "completed",
           history'[s] = history[s], category'[s] = category[s],
           \A w \in Workers :
              /\ pc[w] = "idle" => pc'[w] = "idle" \/ stepStatus[s] # "running"
              /\ \/ pc'[w] = "idle" /\ task'[w][s] = "none"
                 \/ task'[w][s] = task[w][s] /\ executions'[w][s] = executions[w][s]
    PROVE  IssuedOf(s, t)'
<1>1. \A w \in Workers : executions'[w][s] = executions[w][s] =>
          Missing(w, s)' = Missing(w, s) /\ NextTool(w, s)' = NextTool(w, s)
  BY DEF Missing, NextTool
<1>. QED
  BY <1>1 DEF IssuedOf, Recorded

LEMMA IssuedOfTaskStep ==
    ASSUME TypeInv, LeaseInv, BatchInv,
           NEW w \in Workers, NEW s \in Steps, TaskStep(w, s),
           NEW r \in Steps, NEW t \in Unrepeated, IssuedOf(r, t)
    PROVE  IssuedOf(r, t)'
<1> USE DEF TypeInv, TypeOK, workerVars, taskVars, resumeVars, ghostVars, runVars,
            stepVars
<1>1. /\ pc[w] = "executing" /\ s \in batch[w] /\ stepStatus[s] = "running"
      /\ \A q \in Steps \ {s} : stepStatus'[q] = stepStatus[q]
  BY TaskStepRuns
<1>2. pc' = pc
  BY DEF TaskStep, BeginCall, EndCall, SucceedStep, FailStep, RaiseStep, PersistStep
<1>3. CASE r # s
  <2>1. /\ calls'[r] = calls[r] /\ history'[r] = history[r] /\ category'[r] = category[r]
    BY <1>3 DEF TaskStep, BeginCall, EndCall, SucceedStep, FailStep, RaiseStep,
                PersistStep
  <2>2. \A v \in Workers : task'[v][r] = task[v][r]
    <3>1. \E state : task' = [task EXCEPT ![w][s] = state]
      BY Zenon DEF TaskStep, BeginCall, EndCall, SucceedStep, FailStep, RaiseStep,
                   PersistStep
    <3>. QED
      BY <1>3, <3>1
  <2>3. \A v \in Workers : executions'[v][r] = executions[v][r]
    BY <1>3 DEF TaskStep, BeginCall, EndCall, SucceedStep, FailStep, RaiseStep,
                PersistStep
  <2>. QED
    BY <1>1, <1>2, <1>3, <2>1, <2>2, <2>3, IssuedOfFrame
<1>4. CASE r = s
  <2>1. \A v \in Workers \ {w} : pc'[v] = "idle" /\ task'[v][s] = "none"
    <3>1. \A v \in Workers \ {w} : pc[v] = "idle"
      BY <1>1 DEF LeaseInv, SingleExecutor
    <3>2. \A v \in Workers \ {w} : task[v][s] = "none"
      <4>1. \A v \in Workers \ {w} : BatchOf(v)
        BY DEF BatchInv
      <4>. QED
        BY <3>1, <4>1 DEF BatchOf
    <3>3. \A v \in Workers \ {w} : task'[v][s] = task[v][s]
      BY DEF TaskStep, BeginCall, EndCall, SucceedStep, FailStep, RaiseStep,
             PersistStep
    <3>. QED
      BY <1>2, <3>1, <3>2, <3>3
  <2>2. calls[s][t] \in Nat
    BY DEF Unrepeated
  <2>3. CASE BeginCall(w, s)
    <3>1. /\ NextTool(w, s) \in Missing(w, s) /\ NextTool(w, s) \in Tools
          /\ task[w][s] = "working" /\ task'[w][s] = "calling"
          /\ calls' = [calls EXCEPT ![s][NextTool(w, s)] = @ + 1]
          /\ UNCHANGED <<stepVars, executions>>
      BY <2>3, NextToolIsMissing DEF BeginCall
    <3>2. Missing(w, s)' = Missing(w, s) /\ NextTool(w, s)' = NextTool(w, s)
      BY <3>1 DEF Missing, NextTool
    <3>3. Missing(w, s) \subseteq RequiredTools(s)
      BY DEF Missing
    <3>4. CASE t = NextTool(w, s)
      <4>1. calls[s][t] = 0
        BY <1>4, <2>2, <3>1, <3>4 DEF IssuedOf
      <4>2. calls'[s][t] = 1
        BY <3>1, <3>4, <4>1
      <4>. QED
        BY <1>1, <1>4, <2>1, <3>1, <3>2, <3>3, <3>4, <4>2 DEF IssuedOf
    <3>5. CASE t # NextTool(w, s)
      <4>1. calls'[s][t] = calls[s][t]
        BY <3>1, <3>5 DEF Unrepeated
      <4>. QED
        BY <1>1, <1>4, <2>1, <3>1, <3>2, <4>1 DEF IssuedOf
    <3>. QED
      BY <3>4, <3>5
  <2>4. CASE EndCall(w, s)
    <3>1. /\ task[w][s] = "calling" /\ task'[w][s] \in {"working", "refused"}
          /\ task'[w][s] = "working" =>
                executions'[w][s] =
                    executions[w][s] \cup {[tool |-> NextTool(w, s), ok |-> TRUE]}
          /\ history'[s] # {}
          /\ UNCHANGED <<calls, stepStatus>>
      BY <2>4 DEF EndCall
    <3>2. ASSUME task'[w][s] = "working", calls[s][t] > 0 PROVE t \notin Missing(w, s)'
      <4>1. t \notin Missing(w, s) \ {NextTool(w, s)}
        BY <1>4, <3>1, <3>2 DEF IssuedOf
      <4>2. NextTool(w, s) \in Accepted(executions'[w][s])
        <5>1. [tool |-> NextTool(w, s), ok |-> TRUE].tool = NextTool(w, s)
          OBVIOUS
        <5>. QED
          BY <3>1, <3>2, <5>1 DEF Accepted
      <4>3. Missing(w, s)' \subseteq Missing(w, s)
        BY <3>1, <3>2 DEF Missing, Accepted
      <4>. QED
        BY <4>1, <4>2, <4>3 DEF Missing
    <3>. QED
      BY <1>1, <1>4, <2>1, <3>1, <3>2 DEF IssuedOf
  <2>5. CASE SucceedStep(w, s)
    <3>1. /\ stepStatus'[s] = "completed" /\ task'[w][s] = "done"
          /\ UNCHANGED calls
      BY <2>5 DEF SucceedStep, PersistStep
    <3>. QED
      BY <1>4, <2>1, <3>1 DEF IssuedOf
  <2>6. CASE FailStep(w, s)
    <3>1. /\ stepStatus'[s] = "failed"
          /\ task[w][s] # "calling" /\ task'[w][s] \in {"tool_selection"} \cup ErrorKinds
          /\ UNCHANGED <<calls, history>>
      BY <2>6 DEF FailStep, PersistStep
    <3>. QED
      BY <1>1, <1>4, <2>1, <3>1 DEF IssuedOf, Recorded, ErrorKinds
  <2>7. CASE RaiseStep(w, s)
    <3>1. /\ task[w][s] # "calling" /\ task'[w][s] \in ErrorKinds
          /\ UNCHANGED <<calls, stepVars>>
      BY <2>7 DEF RaiseStep
    <3>. QED
      BY <1>1, <1>4, <2>1, <3>1 DEF IssuedOf, Recorded, ErrorKinds
  <2>. QED
    BY <2>3, <2>4, <2>5, <2>6, <2>7 DEF TaskStep
<1>. QED
  BY <1>3, <1>4

LEMMA IssuedOfWorkerStep ==
    ASSUME TypeInv, LeaseInv, BatchInv, NEW w \in Workers, WorkerStep(w),
           NEW s \in Steps, NEW t \in Unrepeated, IssuedOf(s, t)
    PROVE  IssuedOf(s, t)'
<1> USE DEF TypeInv, TypeOK, workerVars, taskVars, resumeVars, ghostVars, runVars,
            stepVars
<1>1. ASSUME NEW v \in Workers, v # w
      PROVE  /\ pc'[v] = pc[v] /\ pc[v] = "idle"
             /\ task'[v][s] = task[v][s] /\ executions'[v][s] = executions[v][s]
  BY <1>1, OthersStayIdle
<1>2. calls[s][t] > 0 => ~ (stepStatus[s] = "running" /\ StepsIn("running") \subseteq Reads)
  BY ReadsHaveNone DEF IssuedOf, StepsIn
<1>3. pc[w] \notin {"claiming", "executing"} => task[w][s] = "none"
  BY DEF BatchInv, BatchOf
<1>4. CASE ClaimQueued(w)
  <2>1. stepStatus[s] # "running"
    BY <1>4 DEF ClaimQueued, BatchInv, StepsIn
  <2>. QED
    BY <1>1, <1>4, <2>1, IssuedOfFrame DEF ClaimQueued, Lease
<1>5. CASE ReclaimAndContinue(w)
  <2>1. calls[s][t] > 0 => stepStatus[s] # "running"
    BY <1>2, <1>5 DEF ReclaimAndContinue, MayRetry
  <2>. QED
    BY <1>1, <1>3, <1>5, <2>1 DEF ReclaimAndContinue, SetSteps, Lease, StepsIn, IssuedOf,
                                  Recorded, Missing, NextTool
<1>6. CASE ReclaimAndFail(w)
  <2>1. calls[s][t] > 0 /\ stepStatus[s] = "running" =>
            stepStatus'[s] = "failed" /\ category'[s] = "worker_reconciliation"
    BY <1>2, <1>6 DEF ReclaimAndFail, SetSteps, StepsIn
  <2>2. stepStatus[s] # "running" =>
            stepStatus'[s] = stepStatus[s] /\ category'[s] = category[s]
    BY <1>6 DEF ReclaimAndFail, SetSteps, StepsIn
  <2>3. UNCHANGED <<calls, history, workerVars>>
    BY <1>6 DEF ReclaimAndFail, SetSteps
  <2>. QED
    BY <2>1, <2>2, <2>3 DEF IssuedOf, Recorded, Missing, NextTool
<1>7. CASE LoadCredentials(w) \/ PollStatus(w) \/ Dispatch(w) \/ GiveUp(w)
           \/ ReadOutcome(w) \/ WriteOutcome(w)
  <2>1. UNCHANGED <<calls, stepVars, task, executions>> /\ pc[w] # "idle"
    BY <1>7 DEF LoadCredentials, PollStatus, Dispatch, GiveUp, ReadOutcome, WriteOutcome
  <2>. QED
    BY <1>1, <2>1, IssuedOfFrame
<1>8. CASE ClaimStep(w)
  <2>1. PICK r \in Steps :
            /\ stepStatus[r] = "pending"
            /\ stepStatus' = [stepStatus EXCEPT ![r] = "running"]
            /\ task' = [task EXCEPT ![w][r] = "working"]
    BY <1>8, ClaimStepMoves
  <2>2. UNCHANGED <<calls, history, category, executions, pc>> /\ pc[w] # "idle"
    BY <1>8 DEF ClaimStep
  <2>3. CASE r = s
    BY <2>1, <2>2, <2>3 DEF IssuedOf
  <2>4. CASE r # s
    BY <1>1, <2>1, <2>2, <2>4, IssuedOfFrame
  <2>. QED
    BY <2>3, <2>4
<1>9. CASE \E r \in Steps : TaskStep(w, r)
  BY <1>9, IssuedOfTaskStep
<1>10. CASE Gather(w)
  <2>1. task[w][s] \notin {"working", "calling"}
    BY <1>10 DEF Gather, BatchInv, BatchOf, ErrorKinds
  <2>2. /\ UNCHANGED <<calls, stepVars>> /\ pc[w] # "idle"
        /\ task'[w][s] = "none"
    BY <1>10 DEF Gather
  <2>. QED
    BY <1>1, <2>1, <2>2 DEF IssuedOf, Recorded, Missing, NextTool
<1>11. CASE RetryReads(w)
  <2>1. calls[s][t] > 0 => stepStatus[s] # "running"
    BY <1>2, <1>11 DEF RetryReads, MayRetry
  <2>. QED
    BY <1>1, <1>3, <1>11, <2>1 DEF RetryReads, SetSteps, StepsIn, IssuedOf, Recorded,
                                   Missing, NextTool
<1>12. CASE FailRunningSteps(w)
  <2>1. calls[s][t] > 0 /\ stepStatus[s] = "running" => history[s] # {}
    BY <1>3, <1>12 DEF FailRunningSteps, IssuedOf
  <2>. QED
    BY <1>1, <1>3, <1>12, <2>1 DEF FailRunningSteps, SetSteps, StepsIn, IssuedOf, Recorded,
                                   Missing, NextTool
<1>13. CASE ReconcileSiblings(w)
  <2>1. /\ stepStatus'[s] = "completed" \/ UNCHANGED <<stepStatus[s], category[s]>>
        /\ UNCHANGED <<calls, history, task, executions>> /\ pc[w] # "idle"
    BY <1>13 DEF ReconcileSiblings, SetSteps
  <2>. QED
    BY <1>1, <1>3, <2>1 DEF IssuedOf, Recorded, Missing, NextTool
<1>. QED
  BY <1>4, <1>5, <1>6, <1>7, <1>8, <1>9, <1>10, <1>11, <1>12, <1>13 DEF WorkerStep

(* No request in flight while a step is worked on: what is issued then does *)
(* not touch a decision to retry.                                          *)
LEMMA RetriesStayUnissued ==
    ASSUME TypeInv, StartInv, LeaseInv, BatchInv, IssuedInv, [Next]_vars,
           ~ \E u \in Resumers, s \in Steps : BeginResume(u, s),
           NEW u \in Resumers, resumeStep'[u] # NoStep, decision'[u] = "safe_to_retry",
           NEW t \in Unrepeated
    PROVE  calls'[resumeStep'[u]][t] = 0
<1> USE DEF workerVars, taskVars, resumeVars, ghostVars, runVars, stepVars
<1>1. resumeStep'[u] = resumeStep[u] /\ decision'[u] = decision[u]
  <2>1. UserRequest => UNCHANGED resumeVars
    BY DEF UserRequest, CreateInvalidRun, CreateRun, ClarifyRun, DecideRun,
           DecideTooLate, CancelRun
  <2>2. ASSUME NEW w \in Workers, WorkerStep(w) PROVE UNCHANGED resumeVars
    BY <2>2 DEF WorkerStep, ClaimQueued, ReclaimAndContinue, ReclaimAndFail,
         LoadCredentials, PollStatus, ClaimStep, Dispatch, TaskStep, BeginCall, EndCall,
         SucceedStep, FailStep, RaiseStep, PersistStep, Gather, RetryReads, GiveUp,
         FailRunningSteps, ReconcileSiblings, ReadOutcome, WriteOutcome
  <2>3. ASSUME NEW v \in Resumers, RejectResume(v) \/ ApplyResume(v)
        PROVE  resumeStep' = [resumeStep EXCEPT ![v] = NoStep] /\ UNCHANGED decision
    BY <2>3 DEF RejectResume, ApplyResume
  <2>4. \/ resumeStep' = resumeStep /\ decision' = decision
        \/ \E v \in Resumers :
              resumeStep' = [resumeStep EXCEPT ![v] = NoStep] /\ decision' = decision
    BY <2>1, <2>2, <2>3 DEF Next, Heartbeat, LeaseTimesOut, Fault, LeaseStalls, Crash,
       Resume, vars
  <2>. QED
    BY <2>4 DEF TypeInv, TypeOK
<1>2. runStatus \in {"failed", "partial"} /\ \A w \in Workers : pc[w] = "idle"
  BY <1>1 DEF LeaseInv
<1>3. calls' = calls
  <2>1. ASSUME NEW w \in Workers, WorkerStep(w) PROVE calls' = calls
    <3>1. ~ \E s \in Steps : TaskStep(w, s)
      BY <1>2, TaskStepRuns
    <3>. QED
      BY <2>1, <3>1 DEF WorkerStep, ClaimQueued, ReclaimAndContinue, ReclaimAndFail,
         LoadCredentials, PollStatus, ClaimStep, Dispatch, Gather, RetryReads, GiveUp,
         FailRunningSteps, ReconcileSiblings, ReadOutcome, WriteOutcome
  <2>2. UserRequest => calls' = calls
    BY DEF UserRequest, CreateInvalidRun, CreateRun, ClarifyRun, DecideRun,
           DecideTooLate, CancelRun
  <2>. QED
    BY <2>1, <2>2 DEF Next, Heartbeat, LeaseTimesOut, Fault, LeaseStalls, Crash,
       Resume, BeginResume, RejectResume, ApplyResume, vars
<1>. QED
  BY <1>1, <1>3 DEF IssuedInv

LEMMA IssuedInvInductive ==
    ASSUME LeasesHold, OneResumer, UniformContracts,
           TypeInv, StartInv, LeaseInv, BatchInv, IssuedInv, [Next]_vars
    PROVE  IssuedInv'
<1> USE DEF workerVars, taskVars, resumeVars, ghostVars, runVars, stepVars
<1>1. ASSUME NEW s \in Steps, NEW t \in Unrepeated PROVE IssuedOf(s, t)'
  <2>1. IssuedOf(s, t)
    BY DEF IssuedInv
  <2>2. ASSUME UNCHANGED <<calls, stepVars, pc, task, executions>>
        PROVE  IssuedOf(s, t)'
    BY <2>1, <2>2, IssuedOfFrame
  <2>3. CASE UserRequest
    <3>1. CASE NothingStarted
      <4>1. calls[s][t] = 0
        BY <3>1 DEF NothingStarted, Unrepeated
      <4>2. UNCHANGED calls
        BY <2>3 DEF UserRequest, CreateInvalidRun, CreateRun, ClarifyRun, DecideRun,
                    DecideTooLate, CancelRun
      <4>. QED
        BY <4>1, <4>2 DEF IssuedOf
    <3>2. CASE ~ NothingStarted
      <4>1. CancelRun
        BY <2>3, <3>2 DEF UserRequest, CreateInvalidRun, CreateRun, ClarifyRun,
                          DecideRun, DecideTooLate, StartInv, Started, LeaseInv
      <4>. QED
        BY <2>2, <4>1 DEF CancelRun
    <3>. QED
      BY <3>1, <3>2
  <2>4. ASSUME NEW w \in Workers, Heartbeat(w) PROVE IssuedOf(s, t)'
    BY <2>2, <2>4 DEF Heartbeat
  <2>5. CASE LeaseTimesOut
    BY <2>2, <2>5 DEF LeaseTimesOut
  <2>6. ASSUME NEW w \in Workers, Crash(w) PROVE IssuedOf(s, t)'
    <3>1. \A v \in Workers :
              \/ pc'[v] = "idle" /\ task'[v][s] = "none"
              \/ pc'[v] = pc[v] /\ task'[v][s] = task[v][s]
                    /\ executions'[v][s] = executions[v][s]
      BY <2>6 DEF Crash, TypeInv, TypeOK
    <3>2. UNCHANGED <<calls, stepVars>>
      BY <2>6 DEF Crash
    <3>. QED
      BY <2>1, <3>1, <3>2, IssuedOfFrame
  <2>7. ASSUME NEW u \in Resumers, NEW r \in Steps, BeginResume(u, r)
        PROVE  IssuedOf(s, t)'
    BY <2>2, <2>7 DEF BeginResume
  <2>8. ASSUME NEW u \in Resumers, RejectResume(u) PROVE IssuedOf(s, t)'
    BY <2>2, <2>8 DEF RejectResume
  <2>9. ASSUME NEW u \in Resumers, ApplyResume(u) PROVE IssuedOf(s, t)'
    <3>1. /\ resumeStep[u] # NoStep
          /\ decision[u] \in {"safe_to_retry", "already_completed"}
          /\ UNCHANGED <<calls, history, pc, task, executions>>
          /\ stepStatus' = [r \in Steps |-> IF r \in {resumeStep[u]}
                THEN IF decision[u] = "safe_to_retry" THEN "pending" ELSE "completed"
                ELSE stepStatus[r]]
          /\ category' = [r \in Steps |-> IF r \in {resumeStep[u]} THEN "none"
                                          ELSE category[r]]
      BY <2>9 DEF ApplyResume, SetSteps, TypeInv, TypeOK, R!Decisions
    <3>2. CASE s # resumeStep[u]
      BY <2>1, <3>1, <3>2, IssuedOfFrame
    <3>3. CASE s = resumeStep[u] /\ decision[u] = "safe_to_retry"
      BY <3>1, <3>3 DEF IssuedInv, IssuedOf
    <3>4. CASE s = resumeStep[u] /\ decision[u] = "already_completed"
      BY <2>1, <3>1, <3>4 DEF IssuedOf, Recorded, Missing, NextTool
    <3>. QED
      BY <3>1, <3>2, <3>3, <3>4
  <2>10. CASE UNCHANGED vars
    BY <2>2, <2>10 DEF vars
  <2>. QED
    BY <2>1, <2>3, <2>4, <2>5, <2>6, <2>7, <2>8, <2>9, <2>10, StallsType,
       IssuedOfWorkerStep DEF Next, Fault, Resume
<1>2. ASSUME NEW u \in Resumers, resumeStep'[u] # NoStep, decision'[u] = "safe_to_retry",
             NEW t \in Unrepeated
      PROVE  calls'[resumeStep'[u]][t] = 0
  <2>1. CASE ~ \E v \in Resumers, s \in Steps : BeginResume(v, s)
    BY <1>2, <2>1, RetriesStayUnissued
  <2>2. ASSUME NEW v \in Resumers, NEW s \in Steps, BeginResume(v, s)
        PROVE  calls'[resumeStep'[u]][t] = 0
    <3>1. v = u
      BY DEF OneResumer
    <3>2. PICK chatBlocked \in BOOLEAN, verified \in BOOLEAN :
              decision' = [decision EXCEPT ![u] =
                              R!Decide(EvidenceOf(s, chatBlocked), verified)]
      BY <2>2, <3>1 DEF BeginResume
    <3>3. R!Decide(EvidenceOf(s, chatBlocked), verified) = "safe_to_retry"
      BY <1>2, <3>2 DEF TypeInv, TypeOK
    <3>4. /\ resumeStep'[u] = s /\ calls' = calls
          /\ stepStatus[s] = "failed"
      BY <2>2, <3>1 DEF BeginResume, TypeInv, TypeOK
    <3>5. calls[s][t] \in Nat
      BY DEF TypeInv, TypeOK, Unrepeated
    <3>6. ASSUME calls[s][t] > 0 PROVE FALSE
      <4>1. t \in RequiredTools(s) \ Idempotent /\ Recorded(s)
        BY <3>4, <3>6 DEF IssuedInv, IssuedOf, Unrepeated
      <4>. QED
        BY <3>3, <4>1, RecordedIsNotRetried
    <3>. QED
      BY <3>4, <3>5, <3>6
  <2>. QED
    BY <2>1, <2>2
<1>. QED
  BY <1>1, <1>2 DEF IssuedInv

-------------------------------------------------------------------------------
(* The invariant, and what follows from it.                                *)

ExecutionInv == RunInv /\ LeaseInv /\ BatchInv /\ OrderInv /\ AcceptInv

LEMMA ExecutionInvInit == Init => ExecutionInv
<1> SUFFICES ASSUME Init PROVE ExecutionInv
  OBVIOUS
<1>1. RunInv
  BY RunInvInit
<1>2. LeaseInv
  BY DEF Init, LeaseInv, SingleExecutor
<1>3. BatchInv
  BY DEF Init, BatchInv, BatchOf, StepsIn
<1>4. OrderInv
  BY DEF Init, OrderInv, CompletedMeansComplete
<1>5. AcceptInv
  BY DEF Init, AcceptInv, CompletedWritesWereAccepted, Writes
<1>. QED
  BY <1>1, <1>2, <1>3, <1>4, <1>5 DEF ExecutionInv

(* The leases, batches, orders and acceptances of the run are coherent in  *)
(* every reachable state, under the two hypotheses.                        *)
THEOREM ExecutionInvHolds ==
    ASSUME LeasesHold, OneResumer
    PROVE  Spec => []ExecutionInv
<1>1. ExecutionInv /\ [Next]_vars => ExecutionInv'
  BY RunInvInductive, LeaseInvInductive, BatchInvInductive, OrderInvInductive,
     AcceptInvInductive DEF ExecutionInv, RunInv
<1>. QED
  BY <1>1, ExecutionInvInit, PTL DEF Spec

(* At most one worker executes the run: leases that outlive their workers' *)
(* turns are mutual exclusion, through crashes, expiry and cancellation.   *)
THEOREM OneExecutor ==
    ASSUME LeasesHold, OneResumer
    PROVE  Spec => []SingleExecutor
<1>1. ExecutionInv => SingleExecutor
  BY DEF ExecutionInv, LeaseInv
<1>. QED
  BY <1>1, ExecutionInvHolds, PTL

(* A run that has ended has no step in flight, so that nothing changes it  *)
(* behind the status the user was given.                                   *)
THEOREM EndedRunsAreQuiet ==
    ASSUME LeasesHold, OneResumer
    PROVE  Spec => []EndedMeansQuiet
<1>1. ExecutionInv => EndedMeansQuiet
  BY DEF ExecutionInv, BatchInv, EndedMeansQuiet
<1>. QED
  BY <1>1, ExecutionInvHolds, PTL

(* Steps run, and count as completed, on completed dependencies alone,     *)
(* whatever is retried, reclaimed or resumed.                              *)
THEOREM DependenciesComeFirst ==
    ASSUME LeasesHold, OneResumer
    PROVE  Spec => []DependencyOrder
<1>1. ExecutionInv => DependencyOrder
  BY DEF ExecutionInv, OrderInv, DependencyOrder
<1>. QED
  BY <1>1, ExecutionInvHolds, PTL

(* A run is completed only when every one of its steps is, although the    *)
(* steps are read before the run's row is written.                         *)
THEOREM CompletionIsHonest ==
    ASSUME LeasesHold, OneResumer
    PROVE  Spec => []CompletedMeansComplete
<1>1. ExecutionInv => CompletedMeansComplete
  BY DEF ExecutionInv, OrderInv
<1>. QED
  BY <1>1, ExecutionInvHolds, PTL

(* A write counts as completed only on accepted calls, by execution,       *)
(* sibling readback or resume alike.                                       *)
THEOREM CompletedWritesAreBacked ==
    ASSUME LeasesHold, OneResumer
    PROVE  Spec => []CompletedWritesWereAccepted
<1>1. ExecutionInv => CompletedWritesWereAccepted
  BY DEF ExecutionInv, AcceptInv
<1>. QED
  BY <1>1, ExecutionInvHolds, PTL

(* No step of the system takes a completed step back.                      *)
THEOREM CompletionIsFinal ==
    ASSUME LeasesHold, OneResumer
    PROVE  Spec => CompletedStepsStay
<1>1. ExecutionInv /\ [Next]_vars =>
        [\A s \in Steps : stepStatus[s] = "completed" => stepStatus'[s] = "completed"]_vars
  BY CompletedStay DEF ExecutionInv, RunInv
<1>. QED
  BY <1>1, ExecutionInvHolds, PTL DEF Spec, CompletedStepsStay

(* A write that may not be repeated is issued at most once, provided that  *)
(* no contract mixes idempotent tools with others: a mixed one may hide    *)
(* the call behind the explicit failure of an idempotent tool.             *)
THEOREM WritesAreNotRepeated ==
    ASSUME LeasesHold, OneResumer, UniformContracts
    PROVE  Spec => []NoRepeatedWrite
<1>1. Init => IssuedInv
  BY DEF Init, IssuedInv, IssuedOf, Unrepeated
<1>2. ExecutionInv /\ IssuedInv /\ [Next]_vars => IssuedInv'
  BY IssuedInvInductive DEF ExecutionInv, RunInv
<1>3. ExecutionInv /\ IssuedInv => NoRepeatedWrite
  <2> SUFFICES ASSUME ExecutionInv, IssuedInv, NEW s \in Steps, NEW t \in Tools \ Idempotent
               PROVE  calls[s][t] <= 1
    BY DEF NoRepeatedWrite
  <2>1. calls[s][t] \in Nat
    BY DEF ExecutionInv, RunInv, TypeInv, TypeOK
  <2>2. calls[s][t] > 0 => calls[s][t] = 1
    BY DEF IssuedInv, IssuedOf, Unrepeated
  <2>. QED
    BY <2>1, <2>2
<1>. QED
  BY <1>1, <1>2, <1>3, ExecutionInvHolds, PTL DEF Spec

===============================================================================
