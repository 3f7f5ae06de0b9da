------------------------- MODULE DurableRunTypeProofs -------------------------
(***************************************************************************)
(* Type correctness of DurableRun for every plan, any number of workers    *)
(* and resume requests, and any number of crashes, stalls and resumes.     *)
(***************************************************************************)
EXTENDS DurableRun, FiniteSetTheorems, WellFoundedInduction, TLAPS

-------------------------------------------------------------------------------
(* Lemmas about the operators of the model.                                *)

(* A nonempty set of step numbers has a least element, which Least picks.  *)
LEMMA LeastIsMember ==
    ASSUME NEW S \in SUBSET Nat, S # {}
    PROVE  Least(S) \in S
<1> DEFINE Less == {p \in Nat \X Nat : p[1] < p[2]}
<1>0. IsWellFoundedOn(Less, Nat)
  BY NatLessThanWellFounded DEF OpToRel
<1>1. PICK s \in S : \A t \in S : ~ (<<t, s>> \in Less)
  <2> HIDE DEF Less
  <2>. QED BY <1>0, WFMin, Zenon
<1>2. ASSUME NEW t \in S PROVE s <= t
  <2>1. s \in Nat /\ t \in Nat
    OBVIOUS
  <2>2. t < s => <<t, s>> \in Less
    BY <2>1
  <2>. QED
    BY <1>1, <2>1, <2>2
<1>. QED
  BY <1>2 DEF Least

(* The reconciliation always reaches one of its three decisions.           *)
LEMMA DecideType ==
    ASSUME NEW e, NEW verified \in BOOLEAN
    PROVE  R!Decide(e, verified) \in R!Decisions
BY DEF R!Decide, R!Decisions, R!DecideUnattempted, R!DecideAttempted

LEMMA RequiredToolsAreTools ==
    ASSUME NEW s \in Steps
    PROVE  RequiredTools(s) \subseteq Tools
<1>1. Contract[s] \in Seq(Tools)
  BY StepsAssumption
<1>2. \A i \in DOMAIN Contract[s] : Contract[s][i] \in Tools
  BY <1>1
<1>. QED
  BY <1>2 DEF RequiredTools

(* A tool that is missing is a tool of the contract, and the next one to   *)
(* be called is missing.                                                   *)
LEMMA NextToolIsMissing ==
    ASSUME NEW w \in Workers, NEW s \in Steps, Missing(w, s) # {}
    PROVE  /\ NextTool(w, s) \in Missing(w, s)
           /\ NextTool(w, s) \in Tools
<1> DEFINE I == {i \in DOMAIN Contract[s] : Contract[s][i] \in Missing(w, s)}
<1>1. Contract[s] \in Seq(Tools)
  BY StepsAssumption
<1>2. I \in SUBSET Nat /\ I # {}
  BY <1>1 DEF Missing, RequiredTools
<1>3. NextTool(w, s) = Contract[s][Least(I)]
  BY DEF NextTool
<1>. HIDE DEF I
<1>4. Least(I) \in I
  BY <1>2, LeastIsMember
<1>5. Least(I) \in DOMAIN Contract[s] /\ Contract[s][Least(I)] \in Missing(w, s)
  BY <1>4 DEF I
<1>. QED
  BY <1>1, <1>3, <1>5

LEMMA FaultsType ==
    ASSUME NEW f \in [crashes : Nat, stalls : Nat, resumes : Nat]
    PROVE  /\ [f EXCEPT !.crashes = @ + 1] \in [crashes : Nat, stalls : Nat, resumes : Nat]
           /\ [f EXCEPT !.stalls = @ + 1] \in [crashes : Nat, stalls : Nat, resumes : Nat]
           /\ [f EXCEPT !.resumes = @ + 1] \in [crashes : Nat, stalls : Nat, resumes : Nat]
OBVIOUS

-------------------------------------------------------------------------------
(* Type correctness.  TypeOK is not inductive alone: a worker writes its   *)
(* verdict into a step as a category and into the run as a status, and the *)
(* tool whose call returns has to be a tool of the step's contract.        *)

VerdictOK ==
    \A w \in Workers :
        /\ pc[w] \in {"raising", "abandoning"} => verdict[w] \in R!Categories
        /\ pc[w] = "closing" => verdict[w] \in Terminal

CallingOK ==
    \A w \in Workers, s \in Steps :
        task[w][s] = "calling" => Missing(w, s) # {}

TypeInv == TypeOK /\ VerdictOK /\ CallingOK

LEMMA TypeInvInit == Init => TypeInv
<1> SUFFICES ASSUME Init PROVE TypeInv
  OBVIOUS
<1>1. TypeOK
  BY DEF Init, TypeOK, RunStatuses, StepStatuses, R!Categories, R!Decisions,
         TaskStates, Locations
<1>2. VerdictOK /\ CallingOK
  BY DEF Init, VerdictOK, CallingOK
<1>. QED
  BY <1>1, <1>2 DEF TypeInv

LEMMA TypeInvUserRequest == TypeInv /\ UserRequest => TypeInv'
<1> SUFFICES ASSUME TypeInv, UserRequest PROVE TypeInv'
  OBVIOUS
<1> USE DEF TypeInv, TypeOK, VerdictOK, CallingOK, Missing, RunStatuses, Active,
            Terminal, StepStatuses, R!Categories,
            workerVars, taskVars, resumeVars, ghostVars, stepVars
<1>1. CASE CreateInvalidRun
  BY <1>1 DEF CreateInvalidRun
<1>2. CASE CreateRun
  BY <1>2 DEF CreateRun
<1>3. CASE ClarifyRun
  BY <1>3 DEF ClarifyRun
<1>4. CASE DecideRun
  BY <1>4 DEF DecideRun
<1>5. CASE DecideTooLate
  BY <1>5 DEF DecideTooLate
<1>6. CASE CancelRun
  BY <1>6 DEF CancelRun
<1>. QED
  BY <1>1, <1>2, <1>3, <1>4, <1>5, <1>6 DEF UserRequest


(* One coroutine: only the task, the row and the history of the step move. *)
LEMMA TypeInvTaskStep ==
    ASSUME TypeInv, NEW w \in Workers, NEW s \in Steps, TaskStep(w, s)
    PROVE  TypeInv'
<1> USE DEF TypeInv, TypeOK, VerdictOK, CallingOK, StepStatuses, TaskStates,
            ErrorKinds, R!Categories, Missing, Executing,
            workerVars, taskVars, resumeVars, ghostVars, runVars, stepVars
<1>1. CASE BeginCall(w, s)
  <2>1. NextTool(w, s) \in Tools
    BY <1>1, NextToolIsMissing DEF BeginCall
  <2>2. calls' \in [Steps -> [Tools -> Nat]]
    BY <1>1, <2>1 DEF BeginCall
  <2>3. task' \in [Workers -> [Steps -> TaskStates]] /\ CallingOK'
    BY <1>1 DEF BeginCall
  <2>. QED
    BY <1>1, <2>2, <2>3 DEF BeginCall
<1>2. CASE EndCall(w, s)
  <2>1. NextTool(w, s) \in Tools /\ RequiredTools(s) \subseteq Tools
    <3>1. Missing(w, s) # {}
      BY <1>2 DEF EndCall
    <3>. QED
      BY <3>1, NextToolIsMissing, RequiredToolsAreTools
  <2> DEFINE Result(t, b) == [tool |-> t, ok |-> b]
             Return(results, state) ==
                /\ executions' = [executions EXCEPT ![w][s] = @ \cup results]
                /\ task' = [task EXCEPT ![w][s] = state]
  <2>2. \E results \in SUBSET R!Execution, state \in {"working", "refused"} :
            Return(results, state)
    <3>1. \A t \in Tools, b \in BOOLEAN : Result(t, b) \in R!Execution
      BY DEF R!Execution
    <3>2. \/ Return({Result(NextTool(w, s), TRUE)}, "working")
          \/ Return({Result(NextTool(w, s), FALSE)}, "refused")
          \/ \E again \in RequiredTools(s) :
                Return({Result(NextTool(w, s), TRUE), Result(again, FALSE)}, "refused")
      BY <1>2 DEF EndCall
    <3>3. /\ {Result(NextTool(w, s), TRUE)} \in SUBSET R!Execution
          /\ {Result(NextTool(w, s), FALSE)} \in SUBSET R!Execution
          /\ \A again \in RequiredTools(s) :
                {Result(NextTool(w, s), TRUE), Result(again, FALSE)}
                    \in SUBSET R!Execution
      <4> HIDE DEF Result
      <4>. QED BY <2>1, <3>1
    <3> HIDE DEF Result, Return
    <3>. QED
      BY <3>2, <3>3
  <2>3. executions' \in [Workers -> [Steps -> SUBSET R!Execution]]
    <3> HIDE DEF R!Execution
    <3>. QED BY <2>2
  <2>4. task' \in [Workers -> [Steps -> TaskStates]]
    BY <2>2
  <2>5. CallingOK'
    BY <2>2
  <2>6. history' \in [Steps -> SUBSET Tools]
    BY <1>2, <2>1 DEF EndCall
  <2>. QED
    BY <1>2, <2>3, <2>4, <2>5, <2>6 DEF EndCall
<1>3. CASE SucceedStep(w, s)
  BY <1>3 DEF SucceedStep, PersistStep
<1>4. CASE FailStep(w, s)
  BY <1>4 DEF FailStep, PersistStep
<1>5. CASE RaiseStep(w, s)
  BY <1>5 DEF RaiseStep
<1>. QED
  BY <1>1, <1>2, <1>3, <1>4, <1>5 DEF TaskStep

LEMMA TypeInvWorkerStep ==
    ASSUME TypeInv, NEW w \in Workers, WorkerStep(w)
    PROVE  TypeInv'
<1> USE DEF TypeInv, TypeOK, VerdictOK, CallingOK, RunStatuses, Active, Terminal,
            StepStatuses, Locations, TaskStates, ErrorKinds, R!Categories,
            workerVars, taskVars, resumeVars, ghostVars, runVars, stepVars
<1>1. CASE ClaimQueued(w)
  BY <1>1 DEF ClaimQueued, Lease, Missing
<1>2. CASE ReclaimAndContinue(w)
  BY <1>2 DEF ReclaimAndContinue, SetSteps, Lease, Missing
<1>3. CASE ReclaimAndFail(w)
  BY <1>3 DEF ReclaimAndFail, SetSteps, Release, Broken, Missing
<1>4. CASE LoadCredentials(w)
  BY <1>4 DEF LoadCredentials, Missing
<1>5. CASE PollStatus(w)
  BY <1>5 DEF PollStatus, Missing
<1>6. CASE ClaimStep(w)
  <2> DEFINE s == Least(Ready)
  <2>1. s \in Steps
    <3>1. Ready \subseteq Steps /\ Ready # {}
      BY <1>6 DEF ClaimStep, Ready, StepsIn
    <3>. QED
      BY <3>1, LeastIsMember, StepsAssumption
  <2> HIDE DEF s
  <2>2. /\ stepStatus' = [stepStatus EXCEPT ![s] = "running"]
        /\ attempts' = [attempts EXCEPT ![s] = @ + 1]
        /\ batch' = [batch EXCEPT ![w] = @ \cup {s}]
        /\ task' = [task EXCEPT ![w][s] = "working"]
    BY <1>6 DEF ClaimStep, s
  <2>. QED
    BY <1>6, <2>1, <2>2 DEF ClaimStep, Missing
<1>7. CASE Dispatch(w)
  BY <1>7 DEF Dispatch, Missing
<1>8. CASE \E s \in Steps : TaskStep(w, s)
  BY <1>8, TypeInvTaskStep
<1>9. CASE Gather(w)
  <2> DEFINE failures == {s \in batch[w] : task[w][s] # "done"}
  <2>1. failures # {} => task[w][Least(failures)] \in R!Categories
    <3> SUFFICES ASSUME failures # {} PROVE Least(failures) \in failures
      BY <1>9 DEF Gather
    <3>1. failures \in SUBSET Nat
      BY StepsAssumption
    <3>. QED
      BY <3>1, LeastIsMember
  <2>2. verdict' \in [Workers -> R!Categories \cup Terminal] /\ VerdictOK'
    BY <1>9, <2>1 DEF Gather
  <2>3. /\ batch' \in [Workers -> SUBSET Steps]
        /\ task' \in [Workers -> [Steps -> TaskStates]]
        /\ executions' \in [Workers -> [Steps -> SUBSET R!Execution]]
        /\ pc' \in [Workers -> Locations]
    BY <1>9 DEF Gather
  <2>4. CallingOK'
    BY <1>9 DEF Gather, Missing
  <2>. QED
    BY <1>9, <2>2, <2>3, <2>4 DEF Gather
<1>10. CASE RetryReads(w)
  BY <1>10 DEF RetryReads, SetSteps, Release, Missing
<1>11. CASE GiveUp(w)
  BY <1>11 DEF GiveUp, Missing
<1>12. CASE FailRunningSteps(w)
  BY <1>12 DEF FailRunningSteps, SetSteps, Broken, Missing
<1>13. CASE ReconcileSiblings(w)
  BY <1>13 DEF ReconcileSiblings, SetSteps, Missing
<1>14. CASE ReadOutcome(w)
  BY <1>14 DEF ReadOutcome, Missing
<1>15. CASE WriteOutcome(w)
  BY <1>15 DEF WriteOutcome, Release, Missing
<1>. QED
  BY <1>1, <1>2, <1>3, <1>4, <1>5, <1>6, <1>7, <1>8, <1>9, <1>10, <1>11, <1>12,
     <1>13, <1>14, <1>15 DEF WorkerStep

LEMMA TypeInvEnvironment ==
    ASSUME TypeInv,
           \/ \E w \in Workers : Heartbeat(w)
           \/ LeaseTimesOut
           \/ Fault
           \/ Resume
    PROVE  TypeInv'
<1> USE DEF TypeInv, TypeOK, VerdictOK, CallingOK, RunStatuses, Active, Terminal,
            StepStatuses, Locations, TaskStates, ErrorKinds, R!Categories,
            workerVars, taskVars, resumeVars, ghostVars, runVars, stepVars
<1>1. ASSUME NEW w \in Workers, Heartbeat(w) PROVE TypeInv'
  BY <1>1 DEF Heartbeat, Missing
<1>2. CASE LeaseTimesOut
  BY <1>2 DEF LeaseTimesOut, Missing
<1>3. CASE LeaseStalls
  <2>1. faults' \in [crashes : Nat, stalls : Nat, resumes : Nat]
    BY <1>3, FaultsType DEF LeaseStalls
  <2>. QED
    BY <1>3, <2>1 DEF LeaseStalls, Missing
<1>4. ASSUME NEW w \in Workers, Crash(w) PROVE TypeInv'
  <2>1. faults' \in [crashes : Nat, stalls : Nat, resumes : Nat]
    BY <1>4, FaultsType DEF Crash
  <2>2. /\ batch' \in [Workers -> SUBSET Steps]
        /\ task' \in [Workers -> [Steps -> TaskStates]]
        /\ executions' \in [Workers -> [Steps -> SUBSET R!Execution]]
        /\ pc' \in [Workers -> Locations]
        /\ verdict' \in [Workers -> R!Categories \cup Terminal]
    BY <1>4 DEF Crash
  <2>3. VerdictOK' /\ CallingOK'
    BY <1>4 DEF Crash, Missing
  <2>. QED
    BY <1>4, <2>1, <2>2, <2>3 DEF Crash
<1>5. ASSUME NEW u \in Resumers, NEW s \in Steps, BeginResume(u, s) PROVE TypeInv'
  <2>1. faults' \in [crashes : Nat, stalls : Nat, resumes : Nat]
    BY <1>5, FaultsType DEF BeginResume
  <2>2. decision' \in [Resumers -> R!Decisions]
    BY <1>5, DecideType DEF BeginResume
  <2>. QED
    BY <1>5, <2>1, <2>2 DEF BeginResume, Missing
<1>6. ASSUME NEW u \in Resumers, RejectResume(u) PROVE TypeInv'
  BY <1>6 DEF RejectResume, Missing
<1>7. ASSUME NEW u \in Resumers, ApplyResume(u) PROVE TypeInv'
  <2> DEFINE s == resumeStep[u]
  <2>1. /\ stepStatus' \in [Steps -> StepStatuses]
        /\ category' \in [Steps -> R!Categories]
    BY <1>7 DEF ApplyResume, SetSteps
  <2>2. resumed' \in [Steps -> Nat]
    BY <1>7 DEF ApplyResume, SetSteps
  <2>3. resumeStep' \in [Resumers -> Steps \cup {NoStep}]
    BY <1>7 DEF ApplyResume
  <2>4. runStatus' = "queued" /\ leaseOwner' = Nobody /\ leaseLive' = FALSE
    BY <1>7 DEF ApplyResume, Release
  <2>5. UNCHANGED <<approval, attempts, output, history, workerVars, decision,
                    calls, faults>>
    BY <1>7 DEF ApplyResume, SetSteps
  <2>. QED
    BY <2>1, <2>2, <2>3, <2>4, <2>5 DEF Missing
<1>. QED
  BY <1>1, <1>2, <1>3, <1>4, <1>5, <1>6, <1>7 DEF Fault, Resume

LEMMA TypeInvStutter == TypeInv /\ UNCHANGED vars => TypeInv'
BY DEF vars, TypeInv, TypeOK, VerdictOK, CallingOK, Missing,
       workerVars, taskVars, resumeVars, ghostVars, runVars, stepVars

LEMMA TypeInvInductive == TypeInv /\ [Next]_vars => TypeInv'
BY TypeInvUserRequest, TypeInvWorkerStep, TypeInvEnvironment, TypeInvStutter
   DEF Next

THEOREM TypeInvHolds == Spec => []TypeInv
BY TypeInvInit, TypeInvInductive, PTL DEF Spec

(* Every reachable state of the model has the type that the tables and the *)
(* worker's local variables have in the code.                              *)
THEOREM TypesHold == Spec => []TypeOK
<1>1. TypeInv => TypeOK
  BY DEF TypeInv
<1>. QED
  BY <1>1, TypeInvHolds, PTL

===============================================================================
