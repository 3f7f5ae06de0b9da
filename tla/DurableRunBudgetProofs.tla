------------------------ MODULE DurableRunBudgetProofs ------------------------
(***************************************************************************)
(* What holds of a durable run however its workers, leases and resume      *)
(* requests interleave: nothing starts before the approval, and every      *)
(* execution of a step is paid for; so that it implements StepLedger.      *)
(***************************************************************************)
EXTENDS DurableRunTypeProofs

-------------------------------------------------------------------------------
(* The inductive invariant.                                                *)

(* No worker, attempt, external call or resume request has touched the run.*)
NothingStarted ==
    /\ \A w \in Workers :
          /\ pc[w] = "idle"
          /\ batch[w] = {}
          /\ \A s \in Steps : task[w][s] = "none"
    /\ \A s \in Steps :
          /\ attempts[s] = 0
          /\ stepStatus[s] \in {"absent", "pending", "awaiting_approval", "cancelled"}
          /\ \A t \in Tools : calls[s][t] = 0
    /\ \A u \in Resumers : resumeStep[u] = NoStep

(* The user has asked for the run, and has approved it if need be.         *)
Started ==
    /\ runStatus \notin {"absent", "awaiting_clarification"}
    /\ NeedsApproval => approval = "approved"

StartInv ==
    /\ ~ Started => NothingStarted /\ runStatus \notin {"queued", "running"}
    /\ runStatus \in {"absent", "awaiting_clarification"} => approval = "none"

(* A step that may be claimed has an attempt left, and one that has left   *)
(* pending has had one.                                                    *)
AttemptInv ==
    \A s \in Steps :
        /\ attempts[s] <= MaxAttempts(s) + resumed[s]
        /\ stepStatus[s] \in {"pending", "awaiting_approval"} =>
              attempts[s] < MaxAttempts(s) + resumed[s]
        /\ stepStatus[s] \in {"running", "completed", "failed"} => attempts[s] > 0
        /\ \A w \in Workers : s \in batch[w] => attempts[s] > 0

(* The workers whose attempt at s may still issue t for the first time: an *)
(* attempt that has not called its tool holds that call in reserve.        *)
Owing(s, t) ==
    {w \in Workers : /\ t \in Missing(w, s)
                     /\ \/ task[w][s] = "working"
                        \/ task[w][s] = "calling" /\ t # NextTool(w, s)}

CallInv ==
    \A s \in Steps, t \in Tools :
        calls[s][t] + Cardinality(Owing(s, t)) <= attempts[s]

LEMMA MaxAttemptsType == \A s \in Steps : MaxAttempts(s) \in Nat \ {0}
BY BoundsAssumption DEF MaxAttempts

LEMMA FirstAttemptIsPaid ==
    \A s \in Steps, n \in Nat : 0 < MaxAttempts(s) + n
BY MaxAttemptsType

-------------------------------------------------------------------------------
(* Nothing but a user's request touches a run that has not started.        *)

LEMMA OnlyUsersStart ==
    ASSUME TypeInv, StartInv, Next, ~ UserRequest
    PROVE  Started /\ Started'
<1> USE DEF StartInv, NothingStarted
<1>1. ASSUME NEW w \in Workers, pc[w] # "idle" PROVE Started
  BY <1>1
<1>2. ASSUME runStatus \in {"queued", "running"} PROVE Started
  BY <1>2
<1>3. ASSUME NEW u \in Resumers, resumeStep[u] # NoStep PROVE Started
  BY <1>3
<1>4. ASSUME NEW s \in Steps, stepStatus[s] = "failed" PROVE Started
  BY <1>4
<1>5. ASSUME Started, approval' = approval,
             runStatus' \in {runStatus, "queued", "running"} \cup Terminal
      PROVE  Started'
  BY <1>5 DEF Started, Terminal
<1> USE DEF runVars
<1>6. ASSUME NEW w \in Workers, WorkerStep(w)
      PROVE  Started /\ Started'
  <2>1. CASE ClaimQueued(w)
    BY <2>1, <1>2, <1>5 DEF ClaimQueued, Lease
  <2>2. CASE ReclaimAndContinue(w)
    BY <2>2, <1>2, <1>5 DEF ReclaimAndContinue, Lease
  <2>3. CASE ReclaimAndFail(w)
    BY <2>3, <1>2, <1>5 DEF ReclaimAndFail, Release, Broken, Terminal
  <2>4. CASE LoadCredentials(w)
    BY <2>4, <1>1, <1>5 DEF LoadCredentials
  <2>5. CASE PollStatus(w)
    BY <2>5, <1>1, <1>5 DEF PollStatus
  <2>6. CASE ClaimStep(w)
    BY <2>6, <1>1, <1>5 DEF ClaimStep
  <2>7. CASE Dispatch(w)
    BY <2>7, <1>1, <1>5 DEF Dispatch
  <2>8. ASSUME NEW s \in Steps, TaskStep(w, s)
        PROVE  Started /\ Started'
    BY <2>8, <1>1, <1>5 DEF TaskStep, BeginCall, EndCall, SucceedStep, FailStep,
                            RaiseStep, PersistStep, Executing
  <2>9. CASE Gather(w)
    BY <2>9, <1>1, <1>5 DEF Gather
  <2>10. CASE RetryReads(w)
    BY <2>10, <1>1, <1>5 DEF RetryReads, Release
  <2>11. CASE GiveUp(w)
    BY <2>11, <1>1, <1>5 DEF GiveUp
  <2>12. CASE FailRunningSteps(w)
    BY <2>12, <1>1, <1>5 DEF FailRunningSteps
  <2>13. CASE ReconcileSiblings(w)
    BY <2>13, <1>1, <1>5 DEF ReconcileSiblings
  <2>14. CASE ReadOutcome(w)
    BY <2>14, <1>1, <1>5 DEF ReadOutcome
  <2>15. CASE WriteOutcome(w)
    BY <2>15, <1>1, <1>5 DEF WriteOutcome, Release, TypeInv, VerdictOK
  <2>. QED
    BY <1>6, <2>1, <2>2, <2>3, <2>4, <2>5, <2>6, <2>7, <2>8, <2>9, <2>10, <2>11,
       <2>12, <2>13, <2>14, <2>15 DEF WorkerStep
<1>7. ASSUME NEW w \in Workers, Heartbeat(w) \/ Crash(w)
      PROVE  Started /\ Started'
  BY <1>7, <1>1, <1>5 DEF Heartbeat, Crash
<1>8. CASE LeaseTimesOut \/ LeaseStalls
  BY <1>8, <1>2, <1>5 DEF LeaseTimesOut, LeaseStalls
<1>9. ASSUME NEW u \in Resumers, NEW s \in Steps, BeginResume(u, s)
      PROVE  Started /\ Started'
  BY <1>9, <1>4, <1>5 DEF BeginResume
<1>10. ASSUME NEW u \in Resumers, RejectResume(u) \/ ApplyResume(u)
       PROVE  Started /\ Started'
  BY <1>10, <1>3, <1>5 DEF RejectResume, ApplyResume, Release
<1>. QED
  BY <1>6, <1>7, <1>8, <1>9, <1>10 DEF Next, Fault, Resume

LEMMA StartInvInductive ==
    ASSUME TypeInv, StartInv, [Next]_vars
    PROVE  StartInv'
<1> USE DEF workerVars, taskVars, resumeVars, ghostVars, stepVars
<1>1. CASE Next /\ ~ UserRequest
  BY <1>1, OnlyUsersStart DEF StartInv, Started
<1>2. CASE UserRequest
  <2>1. CASE CreateInvalidRun
    BY <2>1 DEF CreateInvalidRun, StartInv, Started, NothingStarted
  <2>2. CASE CreateRun
    BY <2>2 DEF CreateRun, StartInv, Started, NothingStarted
  <2>3. CASE ClarifyRun
    BY <2>3 DEF ClarifyRun, StartInv, Started, NothingStarted
  <2>4. CASE DecideRun
    BY <2>4 DEF DecideRun, StartInv, Started, NothingStarted
  <2>5. CASE DecideTooLate
    BY <2>5 DEF DecideTooLate, StartInv, Started, NothingStarted
  <2>6. CASE CancelRun
    BY <2>6 DEF CancelRun, StartInv, Started, NothingStarted
  <2>. QED
    BY <1>2, <2>1, <2>2, <2>3, <2>4, <2>5, <2>6 DEF UserRequest
<1>3. CASE UNCHANGED vars
  BY <1>3 DEF vars, runVars, StartInv, Started, NothingStarted
<1>. QED
  BY <1>1, <1>2, <1>3

-------------------------------------------------------------------------------
(* Attempts: each is paid from max_attempts or from a resume.              *)

LEMMA AttemptInvInductive ==
    ASSUME TypeInv, StartInv, AttemptInv, [Next]_vars
    PROVE  AttemptInv'
<1> USE MaxAttemptsType
    DEF workerVars, taskVars, resumeVars, ghostVars, runVars, stepVars,
        TypeInv, TypeOK, AttemptInv, StepsIn
<1>1. CASE UserRequest
  <2>1. CASE CreateInvalidRun
    BY <2>1 DEF CreateInvalidRun
  <2>0. ASSUME runStatus \in {"absent", "awaiting_clarification"},
               \A s \in Steps : stepStatus'[s] \in {"pending", "awaiting_approval"},
               \A s \in Steps : attempts'[s] = 0,
               UNCHANGED <<batch, resumed>>
        PROVE  AttemptInv'
    <3>1. NothingStarted
      BY <2>0 DEF StartInv, Started
    <3>2. \A w \in Workers : batch'[w] = {}
      BY <2>0, <3>1 DEF NothingStarted
    <3>3. ASSUME NEW s \in Steps PROVE 0 < MaxAttempts(s) + resumed'[s]
      <4>1. resumed'[s] \in Nat
        BY <2>0
      <4>. QED BY <4>1, FirstAttemptIsPaid
    <3>. QED
      BY <2>0, <3>2, <3>3
  <2>2. CASE CreateRun
    <3>1. \A s \in Steps : attempts'[s] = 0
      BY <2>2 DEF CreateRun, StartInv, Started, NothingStarted
    <3>. QED
      BY <2>2, <2>0, <3>1 DEF CreateRun
  <2>3. CASE ClarifyRun
    BY <2>3, <2>0 DEF ClarifyRun
  <2>4. CASE DecideRun
    BY <2>4 DEF DecideRun
  <2>5. CASE DecideTooLate
    BY <2>5 DEF DecideTooLate
  <2>6. CASE CancelRun
    BY <2>6 DEF CancelRun
  <2>. QED
    BY <1>1, <2>1, <2>2, <2>3, <2>4, <2>5, <2>6 DEF UserRequest
<1>2. ASSUME NEW w \in Workers, WorkerStep(w)
      PROVE  AttemptInv'
  <2>1. CASE ClaimQueued(w)
    BY <2>1 DEF ClaimQueued
  <2>2. CASE ReclaimAndContinue(w)
    BY <2>2 DEF ReclaimAndContinue, SetSteps, MayRetry
  <2>3. CASE ReclaimAndFail(w)
    BY <2>3 DEF ReclaimAndFail, SetSteps
  <2>4. CASE LoadCredentials(w)
    BY <2>4 DEF LoadCredentials
  <2>5. CASE PollStatus(w)
    BY <2>5 DEF PollStatus
  <2>6. CASE ClaimStep(w)
    <3> DEFINE s == Least(Ready)
    <3>1. s \in Ready
      <4>1. Ready \subseteq Nat
        BY StepsAssumption DEF Ready, StepsIn
      <4>2. Ready # {}
        BY <2>6 DEF ClaimStep
      <4>. QED
        BY <4>1, <4>2, LeastIsMember
    <3>2. s \in Steps /\ stepStatus[s] = "pending"
      BY <3>1 DEF Ready
    <3> HIDE DEF s
    <3>3. /\ stepStatus' = [stepStatus EXCEPT ![s] = "running"]
          /\ attempts' = [attempts EXCEPT ![s] = @ + 1]
          /\ batch' = [batch EXCEPT ![w] = @ \cup {s}]
          /\ UNCHANGED resumed
      BY <2>6 DEF ClaimStep, s
    <3>. QED
      BY <3>2, <3>3
  <2>7. CASE Dispatch(w)
    BY <2>7 DEF Dispatch
  <2>8. ASSUME NEW s \in Steps, TaskStep(w, s)
        PROVE  AttemptInv'
    <3>1. CASE BeginCall(w, s)
      BY <3>1 DEF BeginCall
    <3>2. CASE EndCall(w, s)
      BY <3>2 DEF EndCall
    <3>3. CASE SucceedStep(w, s)
      BY <3>3 DEF SucceedStep, PersistStep, Executing
    <3>4. CASE FailStep(w, s)
      BY <3>4 DEF FailStep, PersistStep, Executing
    <3>5. CASE RaiseStep(w, s)
      BY <3>5 DEF RaiseStep
    <3>. QED
      BY <2>8, <3>1, <3>2, <3>3, <3>4, <3>5 DEF TaskStep
  <2>9. CASE Gather(w)
    BY <2>9 DEF Gather
  <2>10. CASE RetryReads(w)
    BY <2>10 DEF RetryReads, SetSteps, MayRetry
  <2>11. CASE GiveUp(w)
    BY <2>11 DEF GiveUp
  <2>12. CASE FailRunningSteps(w)
    BY <2>12 DEF FailRunningSteps, SetSteps
  <2>13. CASE ReconcileSiblings(w)
    BY <2>13 DEF ReconcileSiblings, SetSteps
  <2>14. CASE ReadOutcome(w)
    BY <2>14 DEF ReadOutcome
  <2>15. CASE WriteOutcome(w)
    BY <2>15 DEF WriteOutcome
  <2>. QED
    BY <1>2, <2>1, <2>2, <2>3, <2>4, <2>5, <2>6, <2>7, <2>8, <2>9, <2>10, <2>11,
       <2>12, <2>13, <2>14, <2>15 DEF WorkerStep
<1>3. ASSUME NEW w \in Workers, Heartbeat(w) PROVE AttemptInv'
  BY <1>3 DEF Heartbeat
<1>4. CASE LeaseTimesOut \/ LeaseStalls
  BY <1>4 DEF LeaseTimesOut, LeaseStalls
<1>5. ASSUME NEW w \in Workers, Crash(w) PROVE AttemptInv'
  BY <1>5 DEF Crash
<1>6. ASSUME NEW u \in Resumers, NEW s \in Steps, BeginResume(u, s)
      PROVE  AttemptInv'
  BY <1>6 DEF BeginResume
<1>7. ASSUME NEW u \in Resumers, RejectResume(u) PROVE AttemptInv'
  BY <1>7 DEF RejectResume
<1>8. ASSUME NEW u \in Resumers, ApplyResume(u) PROVE AttemptInv'
  <2> DEFINE s == resumeStep[u]
             retry == decision[u] = "safe_to_retry"
  <2>1. /\ s \in Steps \cup {NoStep}
        /\ stepStatus[s] = "failed"
        /\ stepStatus' = [t \in Steps |-> IF t = s
                            THEN IF retry THEN "pending" ELSE "completed"
                            ELSE stepStatus[t]]
        /\ resumed' = [resumed EXCEPT ![s] = IF retry THEN @ + 1 ELSE @]
        /\ UNCHANGED <<attempts, batch>>
    BY <1>8 DEF ApplyResume, SetSteps
  <2> HIDE DEF s, retry
  <2>. QED
    BY <2>1
<1>9. CASE UNCHANGED vars
  BY <1>9 DEF vars
<1>. QED
  BY <1>1, <1>2, <1>3, <1>4, <1>5, <1>6, <1>7, <1>8, <1>9 DEF Next, Fault, Resume


-------------------------------------------------------------------------------
(* External calls: an attempt issues each tool at most once.               *)

(* The attempts that still owe a call are attempts of finitely many        *)
(* workers, so that they can be counted.                                   *)
LEMMA OwingFinite ==
    ASSUME NEW s \in Steps, NEW t \in Tools
    PROVE  /\ IsFiniteSet(Owing(s, t)) /\ Cardinality(Owing(s, t)) \in Nat
           /\ IsFiniteSet(Owing(s, t)') /\ Cardinality(Owing(s, t)') \in Nat
<1>1. Owing(s, t) \in SUBSET Workers /\ Owing(s, t)' \in SUBSET Workers
  BY DEF Owing
<1>. QED
  BY <1>1, FS_Subset, FS_CardinalityType, BoundsAssumption

(* A step that issues nothing and lets no attempt owe more.                *)
LEMMA OwingShrinks ==
    ASSUME TypeInv, CallInv, UNCHANGED <<calls, attempts>>,
           \A s \in Steps, t \in Tools : Owing(s, t)' \subseteq Owing(s, t)
    PROVE  CallInv'
<1> SUFFICES ASSUME NEW s \in Steps, NEW t \in Tools
             PROVE  calls[s][t] + Cardinality(Owing(s, t)') <= attempts[s]
  BY DEF CallInv
<1>1. Cardinality(Owing(s, t)') <= Cardinality(Owing(s, t))
  BY OwingFinite, FS_Subset
<1>2. calls[s][t] + Cardinality(Owing(s, t)) <= attempts[s]
  BY DEF CallInv
<1>. QED
  BY <1>1, <1>2, OwingFinite DEF TypeInv, TypeOK

LEMMA CallInvTaskStep ==
    ASSUME TypeInv, CallInv, NEW w \in Workers, NEW s \in Steps, TaskStep(w, s)
    PROVE  CallInv'
<1> USE DEF workerVars, taskVars, resumeVars, ghostVars, runVars, stepVars,
            TypeInv, TypeOK
<1>1. CASE BeginCall(w, s)
  <2> DEFINE t == NextTool(w, s)
  <2>1. t \in Missing(w, s) /\ t \in Tools
    BY <1>1, NextToolIsMissing DEF BeginCall
  <2>2. \A v \in Workers, r \in Steps :
            Missing(v, r)' = Missing(v, r) /\ NextTool(v, r)' = NextTool(v, r)
    BY <1>1 DEF BeginCall, Missing, NextTool
  <2>3. \A v \in Workers, r \in Steps : <<v, r>> # <<w, s>> => task'[v][r] = task[v][r]
    BY <1>1 DEF BeginCall
  <2>4. task[w][s] = "working" /\ task'[w][s] = "calling"
    BY <1>1 DEF BeginCall
  <2>5. UNCHANGED attempts /\ calls' = [calls EXCEPT ![s][t] = @ + 1]
    BY <1>1 DEF BeginCall
  <2> HIDE DEF t, TypeInv, TypeOK
  <2>8. \A r \in Steps, q \in Tools :
            Owing(r, q)' \subseteq Owing(r, q)
    BY <2>2, <2>3, <2>4 DEF Owing
  <2> SUFFICES ASSUME NEW r \in Steps, NEW q \in Tools
               PROVE  calls'[r][q] + Cardinality(Owing(r, q)') <= attempts[r]
    BY <2>5 DEF CallInv
  <2>9. calls[r][q] + Cardinality(Owing(r, q)) <= attempts[r]
    BY DEF CallInv
  <2>10. calls[r][q] \in Nat /\ attempts[r] \in Nat
    BY DEF TypeInv, TypeOK
  <2>11. CASE r = s /\ q = t
    <3>1. calls'[r][q] = calls[r][q] + 1
      BY <2>1, <2>5, <2>11 DEF TypeInv, TypeOK
    <3>2. w \in Owing(r, q) /\ Owing(r, q)' = Owing(r, q) \ {w}
      BY <2>1, <2>2, <2>3, <2>4, <2>11 DEF Owing, t
    <3>3. Cardinality(Owing(r, q)') = Cardinality(Owing(r, q)) - 1
      BY <3>2, OwingFinite, FS_RemoveElement
    <3>. QED
      BY <2>9, <2>10, <3>1, <3>3, OwingFinite
  <2>12. CASE ~ (r = s /\ q = t)
    <3>1. calls'[r][q] = calls[r][q]
      BY <2>5, <2>12 DEF TypeInv, TypeOK
    <3>2. Cardinality(Owing(r, q)') <= Cardinality(Owing(r, q))
      BY <2>8, OwingFinite, FS_Subset
    <3>. QED
      BY <2>9, <2>10, <3>1, <3>2, OwingFinite
  <2>. QED
    BY <2>11, <2>12
<1>2. CASE EndCall(w, s)
  <2>1. /\ task[w][s] = "calling"
        /\ task'[w][s] \in {"working", "refused"}
        /\ \A v \in Workers, r \in Steps :
              <<v, r>> # <<w, s>> => /\ task'[v][r] = task[v][r]
                                     /\ executions'[v][r] = executions[v][r]
        /\ executions[w][s] \subseteq executions'[w][s]
        /\ task'[w][s] = "working" =>
              [tool |-> NextTool(w, s), ok |-> TRUE] \in executions'[w][s]
    BY <1>2 DEF EndCall
  <2>2. \A v \in Workers, r \in Steps :
            <<v, r>> # <<w, s>> => /\ Missing(v, r)' = Missing(v, r)
                                   /\ NextTool(v, r)' = NextTool(v, r)
    BY <2>1 DEF Missing, NextTool
  <2>3. Missing(w, s)' \subseteq Missing(w, s)
    BY <2>1 DEF Missing, Accepted
  <2>4. task'[w][s] = "working" => NextTool(w, s) \notin Missing(w, s)'
    <3> SUFFICES ASSUME task'[w][s] = "working"
                 PROVE  NextTool(w, s) \in Accepted(executions'[w][s])
      BY DEF Missing
    <3>1. [tool |-> NextTool(w, s), ok |-> TRUE].tool = NextTool(w, s)
      OBVIOUS
    <3>. QED
      BY <2>1, <3>1 DEF Accepted
  <2>5. \A r \in Steps, q \in Tools : Owing(r, q)' \subseteq Owing(r, q)
    <3> HIDE DEF TypeInv, TypeOK
    <3>. QED BY <2>1, <2>2, <2>3, <2>4 DEF Owing
  <2>6. UNCHANGED <<calls, attempts>>
    BY <1>2 DEF EndCall
  <2>. QED
    BY <2>5, <2>6, OwingShrinks
<1>3. ASSUME UNCHANGED <<calls, attempts, executions>>,
             \E state \in {"done", "tool_selection"} \cup ErrorKinds :
                task' = [task EXCEPT ![w][s] = state]
      PROVE  CallInv'
  <2>1. \A r \in Steps, q \in Tools : Owing(r, q)' \subseteq Owing(r, q)
    BY <1>3 DEF Owing, Missing, NextTool, ErrorKinds
  <2>. QED
    BY <1>3, <2>1, OwingShrinks
<1>4. CASE SucceedStep(w, s)
  BY <1>3, <1>4 DEF SucceedStep, PersistStep
<1>5. CASE FailStep(w, s)
  BY <1>3, <1>5 DEF FailStep, PersistStep
<1>6. CASE RaiseStep(w, s)
  BY <1>3, <1>6 DEF RaiseStep
<1>. QED
  BY <1>1, <1>2, <1>4, <1>5, <1>6 DEF TaskStep


LEMMA CallInvInductive ==
    ASSUME TypeInv, StartInv, CallInv, [Next]_vars
    PROVE  CallInv'
<1> USE DEF workerVars, taskVars, resumeVars, ghostVars, runVars, stepVars
<1>1. ASSUME UNCHANGED <<calls, attempts, task, executions>>
      PROVE  CallInv'
  <2>1. \A s \in Steps, t \in Tools : Owing(s, t)' \subseteq Owing(s, t)
    BY <1>1 DEF Owing, Missing, NextTool
  <2>. QED
    BY <1>1, <2>1, OwingShrinks
<1>2. ASSUME NEW w \in Workers, UNCHANGED <<calls, attempts>>,
             task' = [task EXCEPT ![w] = [s \in Steps |-> "none"]],
             executions' = [executions EXCEPT ![w] = [s \in Steps |-> {}]]
      PROVE  CallInv'
  <2>1. \A v \in Workers, s \in Steps :
            \/ task'[v][s] = "none"
            \/ task'[v][s] = task[v][s] /\ executions'[v][s] = executions[v][s]
    BY <1>2 DEF TypeInv, TypeOK
  <2>2. \A s \in Steps, t \in Tools : Owing(s, t)' \subseteq Owing(s, t)
    BY <2>1 DEF Owing, Missing, NextTool
  <2>. QED
    BY <1>2, <2>2, OwingShrinks
<1>3. CASE ClarifyRun
  <2>1. NothingStarted
    BY <1>3 DEF ClarifyRun, StartInv, Started
  <2> SUFFICES ASSUME NEW s \in Steps, NEW t \in Tools
               PROVE  calls'[s][t] + Cardinality(Owing(s, t)') <= attempts'[s]
    BY DEF CallInv
  <2>2. calls'[s][t] = 0 /\ attempts'[s] = 0
    BY <1>3, <2>1 DEF ClarifyRun, NothingStarted
  <2>3. Owing(s, t)' = {}
    BY <1>3, <2>1 DEF ClarifyRun, NothingStarted, Owing
  <2>. QED
    BY <2>2, <2>3, FS_EmptySet
<1>4. CASE UserRequest
  BY <1>1, <1>3, <1>4 DEF UserRequest, CreateInvalidRun, CreateRun, DecideRun,
                          DecideTooLate, CancelRun
<1>5. ASSUME NEW w \in Workers, ClaimStep(w) PROVE CallInv'
  <2> DEFINE s == Least(Ready)
  <2>1. s \in Steps
    <3>1. Ready \subseteq Steps /\ Ready # {}
      BY <1>5 DEF ClaimStep, Ready, StepsIn
    <3>. QED
      BY <3>1, LeastIsMember, StepsAssumption
  <2> HIDE DEF s
  <2>2. /\ attempts' = [attempts EXCEPT ![s] = @ + 1]
        /\ task' = [task EXCEPT ![w][s] = "working"]
        /\ UNCHANGED <<calls, executions>>
    BY <1>5 DEF ClaimStep, s
  <2>3. \A r \in Steps, t \in Tools :
            Owing(r, t)' \subseteq IF r = s THEN Owing(r, t) \cup {w} ELSE Owing(r, t)
    BY <2>1, <2>2 DEF Owing, Missing, NextTool, TypeInv, TypeOK
  <2> SUFFICES ASSUME NEW r \in Steps, NEW t \in Tools
               PROVE  calls[r][t] + Cardinality(Owing(r, t)') <= attempts'[r]
    BY <2>2 DEF CallInv
  <2>4. /\ calls[r][t] + Cardinality(Owing(r, t)) <= attempts[r]
        /\ calls[r][t] \in Nat /\ attempts[r] \in Nat
    BY DEF CallInv, TypeInv, TypeOK
  <2>5. CASE r = s
    <3>1. attempts'[r] = attempts[r] + 1
      BY <2>1, <2>2, <2>5 DEF TypeInv, TypeOK
    <3>2. /\ IsFiniteSet(Owing(r, t) \cup {w})
          /\ Cardinality(Owing(r, t) \cup {w}) <= Cardinality(Owing(r, t)) + 1
      <4>1. IsFiniteSet(Owing(r, t)) /\ Cardinality(Owing(r, t)) \in Nat
        BY OwingFinite
      <4> HIDE DEF Owing
      <4>2. /\ IsFiniteSet(Owing(r, t) \cup {w})
            /\ Cardinality(Owing(r, t) \cup {w}) =
                  IF w \in Owing(r, t) THEN Cardinality(Owing(r, t))
                  ELSE Cardinality(Owing(r, t)) + 1
        BY <4>1, FS_AddElement
      <4>. QED
        BY <4>1, <4>2
    <3>3. Owing(r, t)' \in SUBSET (Owing(r, t) \cup {w})
      BY <2>3, <2>5
    <3>4. /\ Cardinality(Owing(r, t)') <= Cardinality(Owing(r, t) \cup {w})
          /\ Cardinality(Owing(r, t) \cup {w}) \in Nat
      BY <3>2, <3>3, FS_Subset, FS_CardinalityType
    <3>. QED
      BY <2>4, <3>1, <3>2, <3>4, OwingFinite
  <2>6. CASE r # s
    <3>1. attempts'[r] = attempts[r]
      BY <2>2, <2>6 DEF TypeInv, TypeOK
    <3>2. Cardinality(Owing(r, t)') <= Cardinality(Owing(r, t))
      BY <2>3, <2>6, OwingFinite, FS_Subset
    <3>. QED
      BY <2>4, <3>1, <3>2, OwingFinite
  <2>. QED
    BY <2>5, <2>6
<1>6. ASSUME NEW w \in Workers, WorkerStep(w) PROVE CallInv'
  <2>1. CASE ClaimQueued(w) \/ LoadCredentials(w) \/ PollStatus(w) \/ Dispatch(w)
             \/ GiveUp(w) \/ ReadOutcome(w) \/ WriteOutcome(w)
    BY <1>1, <2>1 DEF ClaimQueued, LoadCredentials, PollStatus, Dispatch, GiveUp,
                      ReadOutcome, WriteOutcome
  <2>2. CASE ReclaimAndContinue(w) \/ ReclaimAndFail(w) \/ RetryReads(w)
             \/ FailRunningSteps(w) \/ ReconcileSiblings(w)
    BY <1>1, <2>2 DEF ReclaimAndContinue, ReclaimAndFail, RetryReads,
                      FailRunningSteps, ReconcileSiblings, SetSteps
  <2>3. CASE Gather(w)
    BY <1>2, <2>3 DEF Gather
  <2>. QED
    BY <1>5, <1>6, <2>1, <2>2, <2>3, CallInvTaskStep DEF WorkerStep
<1>7. ASSUME NEW w \in Workers, Heartbeat(w) PROVE CallInv'
  BY <1>1, <1>7 DEF Heartbeat
<1>8. CASE LeaseTimesOut \/ LeaseStalls
  BY <1>1, <1>8 DEF LeaseTimesOut, LeaseStalls
<1>9. ASSUME NEW w \in Workers, Crash(w) PROVE CallInv'
  BY <1>2, <1>9 DEF Crash
<1>10. CASE Resume
  BY <1>1, <1>10 DEF Resume, BeginResume, RejectResume, ApplyResume, SetSteps
<1>11. CASE UNCHANGED vars
  BY <1>1, <1>11 DEF vars
<1>. QED
  BY <1>4, <1>6, <1>7, <1>8, <1>9, <1>10, <1>11 DEF Next, Fault

-------------------------------------------------------------------------------
(* The invariant, and what follows from it.                                *)

RunInv == TypeInv /\ StartInv /\ AttemptInv /\ CallInv

LEMMA RunInvInit == Init => RunInv
<1> SUFFICES ASSUME Init PROVE RunInv
  OBVIOUS
<1>1. TypeInv
  BY TypeInvInit
<1>2. StartInv /\ AttemptInv
  BY MaxAttemptsType DEF Init, StartInv, Started, NothingStarted, AttemptInv
<1>3. CallInv
  <2> SUFFICES ASSUME NEW s \in Steps, NEW t \in Tools
               PROVE  calls[s][t] + Cardinality(Owing(s, t)) <= attempts[s]
    BY DEF CallInv
  <2>1. Owing(s, t) = {} /\ calls[s][t] = 0 /\ attempts[s] = 0
    BY DEF Init, Owing
  <2>. QED
    BY <2>1, FS_EmptySet
<1>. QED
  BY <1>1, <1>2, <1>3 DEF RunInv

LEMMA RunInvInductive == RunInv /\ [Next]_vars => RunInv'
BY TypeInvInductive, StartInvInductive, AttemptInvInductive, CallInvInductive
   DEF RunInv

THEOREM RunInvHolds == Spec => []RunInv
BY RunInvInit, RunInvInductive, PTL DEF Spec

(* Writes do not retry blindly: whatever workers, leases and resumes do,   *)
(* the attempts of a step stay within max_attempts and its safe_to_retry   *)
(* resumes, and an attempt issues each external call at most once.         *)
THEOREM RetriesArePaid == Spec => []RetryBudget
<1>1. RunInv => RetryBudget
  <2> SUFFICES ASSUME RunInv, NEW s \in Steps
               PROVE  /\ attempts[s] <= MaxAttempts(s) + resumed[s]
                      /\ \A t \in Tools : calls[s][t] <= attempts[s]
    BY DEF RetryBudget
  <2>1. attempts[s] <= MaxAttempts(s) + resumed[s]
    BY DEF RunInv, AttemptInv
  <2>2. ASSUME NEW t \in Tools PROVE calls[s][t] <= attempts[s]
    <3>1. /\ calls[s][t] + Cardinality(Owing(s, t)) <= attempts[s]
          /\ calls[s][t] \in Nat /\ attempts[s] \in Nat
      BY DEF RunInv, CallInv, TypeInv, TypeOK
    <3>. QED
      BY <3>1, OwingFinite
  <2>. QED
    BY <2>1, <2>2
<1>. QED
  BY <1>1, RunInvHolds, PTL

(* No external call of a gated step precedes the user's approval, however  *)
(* clarification, expiry, cancellation and resumption interleave.          *)
THEOREM WritesAreApproved == Spec => []ApprovalGate
<1>1. RunInv => ApprovalGate
  <2> SUFFICES ASSUME RunInv, NEW s \in Gated, NEW t \in Tools,
                      approval # "approved"
               PROVE  calls[s][t] = 0
    BY DEF ApprovalGate
  <2>1. s \in Steps /\ NeedsApproval
    BY StepsAssumption DEF Writes
  <2>. QED
    BY <2>1 DEF RunInv, StartInv, Started, NothingStarted
<1>. QED
  BY <1>1, RunInvHolds, PTL

-------------------------------------------------------------------------------
(* A durable run implements the ledger of executions: the only steps that  *)
(* the ledger sees are the user's approval, the claim of a step and the    *)
(* safe_to_retry resume of a failed one.                                   *)

(* The values that the refinement mapping gives to the ledger's variables. *)
Credit == [s \in Steps |-> MaxAttempts(s) + resumed[s] - attempts[s]]
Authorised == approval = "approved"

LEMMA InitRefines == Init => Ledger!LedgerInit
<1> SUFFICES ASSUME Init PROVE Ledger!LedgerInit
  OBVIOUS
<1>1. \A s \in Steps : MaxAttempts(s) + resumed[s] - attempts[s] = MaxAttempts(s)
  BY MaxAttemptsType DEF Init
<1>. QED
  BY <1>1 DEF Init, Ledger!LedgerInit

(* Most steps leave the ledger alone.                                      *)
LEMMA Unseen ==
    ASSUME UNCHANGED <<attempts, resumed>>,
           Authorised' = Authorised
    PROVE  UNCHANGED Ledger!ledgerVars
BY DEF Ledger!ledgerVars, Authorised

(* The claim of a step spends one of its credits.                          *)
LEMMA ClaimRefines ==
    ASSUME RunInv, NEW w \in Workers, ClaimStep(w)
    PROVE  \E s \in Steps : Ledger!Start(s)
<1>1. PICK s \in Steps : s = Least(Ready) /\ stepStatus[s] = "pending"
  <2>1. Least(Ready) \in Ready
    BY LeastIsMember, StepsAssumption DEF ClaimStep, Ready, StepsIn
  <2>. QED
    BY <2>1 DEF Ready, StepsIn
<1>2. /\ attempts' = [attempts EXCEPT ![s] = @ + 1]
      /\ UNCHANGED <<approval, resumed>>
  BY <1>1 DEF ClaimStep, runVars, ghostVars
<1>3. attempts \in [Steps -> Nat] /\ resumed \in [Steps -> Nat]
  BY DEF RunInv, TypeInv, TypeOK
<1>4. MaxAttempts(s) + resumed[s] - attempts[s] > 0
  BY <1>1, <1>3, MaxAttemptsType DEF RunInv, AttemptInv
<1>5. s \in Gated => Authorised
  BY <1>1, StepsAssumption DEF RunInv, StartInv, Started, NothingStarted, Authorised,
              ClaimStep
<1>6. Credit' = [Credit EXCEPT ![s] = @ - 1]
  <2>1. \A t \in Steps : Credit'[t] = IF t = s THEN Credit[t] - 1 ELSE Credit[t]
    BY <1>1, <1>2, <1>3, MaxAttemptsType DEF Credit
  <2>. QED
    BY <2>1 DEF Credit
<1>7. Ledger!Start(s)
  BY <1>1, <1>2, <1>4, <1>5, <1>6 DEF Ledger!Start, Credit, Authorised
<1>. QED
  BY <1>7

(* A resume that was judged safe grants a credit to a step that has run.   *)
LEMMA ResumeRefines ==
    ASSUME RunInv, NEW u \in Resumers, ApplyResume(u)
    PROVE  (\E s \in Steps : Ledger!Grant(s)) \/ UNCHANGED Ledger!ledgerVars
<1>1. PICK s \in Steps : /\ s = resumeStep[u]
                         /\ stepStatus[s] = "failed"
                         /\ UNCHANGED <<approval, attempts>>
  BY DEF RunInv, TypeInv, TypeOK, ApplyResume, SetSteps
<1>2. attempts \in [Steps -> Nat] /\ resumed \in [Steps -> Nat]
  BY DEF RunInv, TypeInv, TypeOK
<1>3. attempts[s] > 0
  BY <1>1 DEF RunInv, AttemptInv
<1>4. CASE decision[u] = "safe_to_retry"
  <2>1. resumed' = [resumed EXCEPT ![s] = @ + 1]
    BY <1>1, <1>4 DEF ApplyResume
  <2>2. Credit' = [Credit EXCEPT ![s] = @ + 1]
    <3>1. \A t \in Steps : Credit'[t] = IF t = s THEN Credit[t] + 1 ELSE Credit[t]
      BY <1>1, <1>2, <2>1, MaxAttemptsType DEF Credit
    <3>. QED
      BY <3>1 DEF Credit
  <2>3. Ledger!Grant(s)
    BY <1>1, <1>3, <2>2 DEF Ledger!Grant, Credit, Authorised
  <2>. QED
    BY <2>3
<1>5. CASE decision[u] # "safe_to_retry"
  <2>1. UNCHANGED resumed
    BY <1>2, <1>5 DEF ApplyResume
  <2>. QED
    BY <1>1, <2>1, Unseen DEF Authorised
<1>. QED
  BY <1>4, <1>5

(* An approval authorises; nothing else that a user asks for is seen.      *)
LEMMA UserRequestRefines ==
    ASSUME RunInv, UserRequest
    PROVE  Ledger!Authorise \/ UNCHANGED Ledger!ledgerVars
<1> USE DEF ghostVars, stepVars
<1>1. CASE CreateInvalidRun \/ CancelRun
  BY <1>1, Unseen DEF CreateInvalidRun, CancelRun, Authorised
<1>2. CASE CreateRun \/ DecideTooLate
  BY <1>2, Unseen DEF CreateRun, DecideTooLate, Authorised, RunInv, StartInv
<1>3. CASE ClarifyRun
  <2>1. approval = "none" /\ NothingStarted
    BY <1>3 DEF ClarifyRun, RunInv, StartInv, Started
  <2>2. attempts' = attempts
    BY <1>3, <2>1 DEF ClarifyRun, NothingStarted, RunInv, TypeInv, TypeOK
  <2>. QED
    BY <1>3, <2>1, <2>2, Unseen DEF ClarifyRun, Authorised
<1>4. CASE DecideRun
  <2>1. UNCHANGED <<attempts, resumed>>
    BY <1>4 DEF DecideRun
  <2>2. CASE approval' = "approved"
    BY <2>1, <2>2 DEF Ledger!Authorise
  <2>3. CASE approval' # "approved"
    BY <1>4, <2>1, <2>3, Unseen DEF DecideRun, Authorised
  <2>. QED
    BY <2>2, <2>3
<1>. QED
  BY <1>1, <1>2, <1>3, <1>4 DEF UserRequest

LEMMA StepRefines ==
    ASSUME RunInv, [Next]_vars
    PROVE  [Ledger!LedgerNext]_(Ledger!ledgerVars)
<1> USE DEF workerVars, taskVars, resumeVars, ghostVars, runVars, stepVars
<1>1. ASSUME NEW w \in Workers, WorkerStep(w), ~ ClaimStep(w)
      PROVE  UNCHANGED <<approval, attempts, resumed>>
  <2>1. CASE ClaimQueued(w) \/ LoadCredentials(w) \/ PollStatus(w) \/ Dispatch(w)
             \/ GiveUp(w) \/ ReadOutcome(w) \/ WriteOutcome(w) \/ Gather(w)
    BY <2>1 DEF ClaimQueued, LoadCredentials, PollStatus, Dispatch, GiveUp,
                ReadOutcome, WriteOutcome, Gather
  <2>2. CASE ReclaimAndContinue(w) \/ ReclaimAndFail(w) \/ RetryReads(w)
             \/ FailRunningSteps(w) \/ ReconcileSiblings(w)
    BY <2>2 DEF ReclaimAndContinue, ReclaimAndFail, RetryReads,
                FailRunningSteps, ReconcileSiblings, SetSteps
  <2>3. ASSUME NEW s \in Steps, TaskStep(w, s)
        PROVE  UNCHANGED <<approval, attempts, resumed>>
    BY <2>3 DEF TaskStep, BeginCall, EndCall, SucceedStep, FailStep, RaiseStep,
                PersistStep
  <2>. QED
    BY <1>1, <2>1, <2>2, <2>3 DEF WorkerStep
<1>2. ASSUME NEW w \in Workers, Heartbeat(w) \/ Crash(w)
      PROVE  UNCHANGED <<approval, attempts, resumed>>
  BY <1>2 DEF Heartbeat, Crash
<1>3. CASE LeaseTimesOut \/ LeaseStalls \/ UNCHANGED vars
  BY <1>3, Unseen DEF LeaseTimesOut, LeaseStalls, vars, Authorised
<1>4. ASSUME NEW u \in Resumers,
             RejectResume(u) \/ \E s \in Steps : BeginResume(u, s)
      PROVE  UNCHANGED <<approval, attempts, resumed>>
  BY <1>4 DEF RejectResume, BeginResume
<1>5. ASSUME UNCHANGED <<approval, attempts, resumed>>
      PROVE  UNCHANGED Ledger!ledgerVars
  BY <1>5, Unseen DEF Authorised
<1>. QED
  BY <1>1, <1>2, <1>3, <1>4, <1>5, UserRequestRefines, ClaimRefines, ResumeRefines
     DEF Next, Fault, Resume, Ledger!LedgerNext

(* Every behaviour of the workers, users and resume requests is one of the *)
(* ledger: an execution of a step is authorised and paid for.              *)
THEOREM RunImplementsLedger == Spec => ImplementsLedger
<1>1. RunInv /\ [Next]_vars => [Ledger!LedgerNext]_(Ledger!ledgerVars)
  BY StepRefines
<1>. QED
  BY <1>1, InitRefines, RunInvHolds, PTL
     DEF Spec, ImplementsLedger, Ledger!LedgerSpec
===============================================================================
