---------------------------- MODULE CodingRunProofs ----------------------------
(***************************************************************************)
(* What holds of a coding run for any plans, any number of workers and any *)
(* number of crashes and stalled leases.                                   *)
(***************************************************************************)
EXTENDS CodingRun, TLAPS

-------------------------------------------------------------------------------
(* The inductive invariant.                                                *)

(* A run with a lease is in the phase of the claim that holds it, and that *)
(* claim is the last one: the fence lets no other worker through.          *)
LeaseInv ==
    /\ lease # Null => status \in Leased /\ lease = attempts
    /\ \A w \in Workers : pc[w] # "idle" =>
          /\ job[w].phase \in Leased
          /\ job[w].attempt \in 1..attempts
          /\ Owns(w) => status = job[w].phase
    /\ \A v, w \in Workers :
          pc[v] # "idle" /\ pc[w] # "idle" /\ job[v].attempt = job[w].attempt
             => v = w

(* What a worker has in hand at each place of its work, and the owner      *)
(* before a decision.                                                      *)
JobInv ==
    /\ \A w \in Workers :
          /\ job[w].retry => job[w].phase # "ci_running"
          /\ pc[w] \in {"drafting", "opening"} => job[w].phase = "executing"
          /\ pc[w] \in {"drafting", "opening", "recording"} => job[w].plan \in Plans
    /\ status = "awaiting_approval" => plan \in shown

(* The owner consents once, to the plan that is frozen, and from then on   *)
(* the plan stays and executions are of that plan.                         *)
ConsentInv ==
    /\ status \in {"absent", "queued", "planning", "awaiting_approval"} =>
          consented = {}
    /\ status \in {"approved", "executing"} => plan \in consented
    /\ consented \subseteq {plan}
    /\ \A w \in Workers : pc[w] # "idle" /\ job[w].phase = "executing" =>
          job[w].plan \in consented

HasPull(w) == At(w, "recording", "executing")
HasBranch(w) == pc[w] = "opening" \/ HasPull(w)

(* Whoever created the branch goes on to record it, and nobody else.       *)
BranchInv ==
    /\ PublishedWithConsent
    /\ CandidateIsTheBranch
    /\ \A w \in Workers :
          /\ HasBranch(w) => branch[job[w].plan] = job[w].attempt
          /\ HasPull(w) => job[w].plan \in pulls

(* Attempts that were not recoveries, by what the run has reached.         *)
BudgetInv ==
    /\ status = "absent" => attempts = 0
    /\ status = "queued" => attempts < MaxAttempts + recovered
    /\ status \in {"planning", "awaiting_approval", "approved"} =>
          attempts <= MaxAttempts + recovered
    /\ status \in {"executing", "published"} =>
          attempts <= MaxAttempts + 1 + recovered
    /\ AttemptBudget

CoreInv == TypeOK /\ LeaseInv /\ JobInv

CodingInv == CoreInv /\ ConsentInv /\ BranchInv /\ BudgetInv
-------------------------------------------------------------------------------

(* Types, leases and jobs are preserved together: a claim is new because   *)
(* attempts only grow, and a lease is cleared whenever its phase is left.  *)
LEMMA CoreInvInductive == CoreInv /\ [Next]_vars => CoreInv'
<1> SUFFICES ASSUME CoreInv, [Next]_vars
             PROVE  CoreInv'
  OBVIOUS
<1> USE CodingBoundsAssumption, PlansAssumption
    DEF CoreInv, TypeOK, LeaseInv, JobInv, Owns, Leased, Ended, Statuses,
        Locations, Job, Null, rowVars, buildVars, githubVars, workerVars,
        userVars, ghostVars
<1>1. CASE CreateRun
  BY <1>1 DEF CreateRun
<1>2. CASE LinkBuild
  BY <1>2 DEF LinkBuild
<1>3. CASE DecideRun
  <2>1. TypeOK'
    BY <1>3 DEF DecideRun, Decide, Approve, Reject
  <2>2. LeaseInv'
    BY <1>3 DEF DecideRun, Decide, Approve, Reject
  <2>3. JobInv'
    BY <1>3 DEF DecideRun, Decide, Approve, Reject
  <2> QED BY <2>1, <2>2, <2>3
<1>4. CASE ExpireApproval
  BY <1>4 DEF ExpireApproval
<1>5. CASE CancelRun
  <2>1. TypeOK'
    BY <1>5 DEF CancelRun
  <2>2. LeaseInv'
    BY <1>5 DEF CancelRun
  <2>3. JobInv'
    BY <1>5 DEF CancelRun
  <2> QED BY <2>1, <2>2, <2>3
<1>6. CASE AttestBuild
  <2>1. TypeOK'
    BY <1>6 DEF AttestBuild
  <2>2. LeaseInv'
    BY <1>6 DEF AttestBuild
  <2>3. JobInv'
    BY <1>6 DEF AttestBuild
  <2> QED BY <2>1, <2>2, <2>3
<1>7. CASE FailBuild \/ CancelBuild
  BY <1>7 DEF FailBuild, CancelBuild
<1>8. ASSUME NEW w \in Workers, Claim(w) PROVE CoreInv'
  BY <1>8 DEF Claim, Claimable, Phase
<1>9. ASSUME NEW w \in Workers, Raise(w) PROVE CoreInv'
  BY <1>9 DEF Raise, GoTo
<1>10. ASSUME NEW w \in Workers, HandleFailure(w) PROVE CoreInv'
  BY <1>10 DEF HandleFailure, Release, Owns, MayRetry, AfterFailure, Finish,
      GoTo, NoJob
<1>11. ASSUME NEW w \in Workers, PlanInSandbox(w) PROVE CoreInv'
  BY <1>11 DEF PlanInSandbox, At, GoTo
<1>12. ASSUME NEW w \in Workers, RecordPlan(w) PROVE CoreInv'
  BY <1>12 DEF RecordPlan, At, Release, Owns, Finish, GoTo, NoJob
<1>13. ASSUME NEW w \in Workers, ExecuteInSandbox(w) PROVE CoreInv'
  BY <1>13 DEF ExecuteInSandbox, At, GoTo
<1>14. ASSUME NEW w \in Workers, CreateBranch(w) PROVE CoreInv'
  BY <1>14 DEF CreateBranch, GoTo
<1>15. ASSUME NEW w \in Workers, OpenPull(w) PROVE CoreInv'
  BY <1>15 DEF OpenPull, GoTo
<1>16. ASSUME NEW w \in Workers, RecordPublication(w) PROVE CoreInv'
  BY <1>16 DEF RecordPublication, At, Release, Owns, Finish, GoTo, NoJob
<1>17. ASSUME NEW w \in Workers, MonitorChecks(w) PROVE CoreInv'
  BY <1>17 DEF MonitorChecks, At, Release, Owns, Finish, GoTo, NoJob
<1>18. ASSUME NEW w \in Workers, Heartbeat(w) PROVE CoreInv'
  BY <1>18 DEF Heartbeat, Owns
<1>19. ASSUME NEW w \in Workers, Crash(w) PROVE CoreInv'
  BY <1>19 DEF Crash, Finish, GoTo, NoJob
<1>20. CASE LeaseTimesOut
  BY <1>20 DEF LeaseTimesOut
<1>21. CASE LeaseStalls
  <2>0. faults' \in [crashes : Nat, stalls : Nat]
    BY <1>21 DEF LeaseStalls
  <2>1. TypeOK'
    BY <1>21, <2>0 DEF LeaseStalls
  <2>2. LeaseInv'
    BY <1>21 DEF LeaseStalls
  <2>3. JobInv'
    BY <1>21 DEF LeaseStalls
  <2> QED BY <2>1, <2>2, <2>3
<1>22. CASE UNCHANGED vars
  BY <1>22 DEF vars, Owns
<1> QED
  BY <1>1, <1>2, <1>3, <1>4, <1>5, <1>6, <1>7, <1>8, <1>9, <1>10, <1>11,
      <1>12, <1>13, <1>14, <1>15, <1>16, <1>17, <1>18, <1>19, <1>20, <1>21,
      <1>22 DEF Next, Request, WorkerStep

(* Only a worker that still owns a planning lease changes the plan, and no *)
(* run returns to planning once it was approved.                           *)
LEMMA ConsentInvInductive == CoreInv /\ ConsentInv /\ [Next]_vars => ConsentInv'
<1> SUFFICES ASSUME CoreInv /\ ConsentInv, [Next]_vars
             PROVE  ConsentInv'
  OBVIOUS
<1> USE DEF CoreInv, TypeOK, LeaseInv, JobInv, Owns, Leased, Ended, Statuses,
        Locations, Job, Null, ConsentInv, rowVars, buildVars, githubVars,
        workerVars, userVars, ghostVars
<1>1. CASE CreateRun
  BY <1>1 DEF CreateRun
<1>2. CASE LinkBuild
  BY <1>2 DEF LinkBuild
<1>3. CASE DecideRun
  BY <1>3 DEF DecideRun, Decide, Approve, Reject
<1>4. CASE ExpireApproval
  BY <1>4 DEF ExpireApproval
<1>5. CASE CancelRun
  BY <1>5 DEF CancelRun
<1>6. CASE AttestBuild
  BY <1>6 DEF AttestBuild
<1>7. CASE FailBuild \/ CancelBuild
  BY <1>7 DEF FailBuild, CancelBuild
<1>8. ASSUME NEW w \in Workers, Claim(w) PROVE ConsentInv'
  BY <1>8 DEF Claim, Claimable, Phase
<1>9. ASSUME NEW w \in Workers, Raise(w) PROVE ConsentInv'
  BY <1>9 DEF Raise, GoTo
<1>10. ASSUME NEW w \in Workers, HandleFailure(w) PROVE ConsentInv'
  BY <1>10 DEF HandleFailure, Release, Owns, MayRetry, AfterFailure, Finish,
      GoTo, NoJob
<1>11. ASSUME NEW w \in Workers, PlanInSandbox(w) PROVE ConsentInv'
  BY <1>11 DEF PlanInSandbox, At, GoTo
<1>12. ASSUME NEW w \in Workers, RecordPlan(w) PROVE ConsentInv'
  BY <1>12 DEF RecordPlan, At, Release, Owns, Finish, GoTo, NoJob
<1>13. ASSUME NEW w \in Workers, ExecuteInSandbox(w) PROVE ConsentInv'
  BY <1>13 DEF ExecuteInSandbox, At, GoTo
<1>14. ASSUME NEW w \in Workers, CreateBranch(w) PROVE ConsentInv'
  BY <1>14 DEF CreateBranch, GoTo
<1>15. ASSUME NEW w \in Workers, OpenPull(w) PROVE ConsentInv'
  BY <1>15 DEF OpenPull, GoTo
<1>16. ASSUME NEW w \in Workers, RecordPublication(w) PROVE ConsentInv'
  BY <1>16 DEF RecordPublication, At, Release, Owns, Finish, GoTo, NoJob
<1>17. ASSUME NEW w \in Workers, MonitorChecks(w) PROVE ConsentInv'
  BY <1>17 DEF MonitorChecks, At, Release, Owns, Finish, GoTo, NoJob
<1>18. ASSUME NEW w \in Workers, Heartbeat(w) PROVE ConsentInv'
  BY <1>18 DEF Heartbeat, Owns
<1>19. ASSUME NEW w \in Workers, Crash(w) PROVE ConsentInv'
  BY <1>19 DEF Crash, Finish, GoTo, NoJob
<1>20. CASE LeaseTimesOut
  BY <1>20 DEF LeaseTimesOut
<1>21. CASE LeaseStalls
  BY <1>21 DEF LeaseStalls
<1>22. CASE UNCHANGED vars
  BY <1>22 DEF vars
<1> QED
  BY <1>1, <1>2, <1>3, <1>4, <1>5, <1>6, <1>7, <1>8, <1>9, <1>10, <1>11,
      <1>12, <1>13, <1>14, <1>15, <1>16, <1>17, <1>18, <1>19, <1>20, <1>21,
      <1>22 DEF Next, Request, WorkerStep

(* A branch is created once, by the attempt whose commit goes on record.   *)
LEMMA BranchInvInductive == CoreInv /\ ConsentInv /\ BranchInv /\ [Next]_vars => BranchInv'
<1> SUFFICES ASSUME CoreInv /\ ConsentInv /\ BranchInv, [Next]_vars
             PROVE  BranchInv'
  OBVIOUS
<1> USE PlansAssumption
    DEF CoreInv, TypeOK, LeaseInv, JobInv, Owns, Leased, Ended, Statuses,
        Locations, Job, Null, ConsentInv, BranchInv, PublishedWithConsent,
        CandidateIsTheBranch, HasBranch, HasPull, At, rowVars, buildVars,
        githubVars, workerVars, userVars, ghostVars
<1>1. CASE CreateRun
  BY <1>1 DEF CreateRun
<1>2. CASE LinkBuild
  BY <1>2 DEF LinkBuild
<1>3. CASE DecideRun
  BY <1>3 DEF DecideRun, Decide, Approve, Reject
<1>4. CASE ExpireApproval
  BY <1>4 DEF ExpireApproval
<1>5. CASE CancelRun
  BY <1>5 DEF CancelRun
<1>6. CASE AttestBuild
  BY <1>6 DEF AttestBuild
<1>7. CASE FailBuild \/ CancelBuild
  BY <1>7 DEF FailBuild, CancelBuild
<1>8. ASSUME NEW w \in Workers, Claim(w) PROVE BranchInv'
  BY <1>8 DEF Claim, Claimable, Phase
<1>9. ASSUME NEW w \in Workers, Raise(w) PROVE BranchInv'
  BY <1>9 DEF Raise, GoTo
<1>10. ASSUME NEW w \in Workers, HandleFailure(w) PROVE BranchInv'
  BY <1>10 DEF HandleFailure, Release, Owns, MayRetry, AfterFailure, Finish,
      GoTo, NoJob
<1>11. ASSUME NEW w \in Workers, PlanInSandbox(w) PROVE BranchInv'
  BY <1>11 DEF PlanInSandbox, At, GoTo
<1>12. ASSUME NEW w \in Workers, RecordPlan(w) PROVE BranchInv'
  BY <1>12 DEF RecordPlan, At, Release, Owns, Finish, GoTo, NoJob
<1>13. ASSUME NEW w \in Workers, ExecuteInSandbox(w) PROVE BranchInv'
  BY <1>13 DEF ExecuteInSandbox, At, GoTo
<1>14. ASSUME NEW w \in Workers, CreateBranch(w) PROVE BranchInv'
  <2>1. /\ pc[w] = "drafting" /\ job[w].plan \in Plans
        /\ job[w].plan = plan /\ plan \in consented
        /\ job[w].attempt # Null
    BY <1>14 DEF CreateBranch
  <2>2. CASE branch[job[w].plan] # Null
    BY <1>14, <2>2 DEF CreateBranch, GoTo
  <2>3. CASE branch[job[w].plan] = Null
    <3>1. /\ branch' = [branch EXCEPT ![job[w].plan] = job[w].attempt]
          /\ pc' = [pc EXCEPT ![w] = "opening"]
          /\ UNCHANGED <<rowVars, buildVars, pulls, job, userVars, ghostVars>>
      BY <1>14, <2>3 DEF CreateBranch, GoTo
    <3>2. commit = Null /\ buildCommit = Null
      BY <2>1, <2>3
    <3>3. PublishedWithConsent'
      BY <2>1, <3>1 DEF userVars
    <3>4. CandidateIsTheBranch'
      BY <3>1, <3>2 DEF rowVars, buildVars
    <3>5. ASSUME NEW v \in Workers
          PROVE  /\ HasBranch(v)' => branch'[job'[v].plan] = job'[v].attempt
                 /\ HasPull(v)' => job'[v].plan \in pulls'
      <4>1. CASE v = w
        BY <2>1, <3>1, <4>1
      <4>2. CASE v # w
        <5>1. pc'[v] = pc[v] /\ job' = job /\ pulls' = pulls
          BY <3>1, <4>2
        <5>2. pc[v] # "idle" => job[v].attempt # Null
          OBVIOUS
        <5> QED BY <2>1, <2>3, <3>1, <5>1, <5>2
      <4> QED BY <4>1, <4>2
    <3> QED BY <3>3, <3>4, <3>5
  <2> QED BY <2>2, <2>3
<1>15. ASSUME NEW w \in Workers, OpenPull(w) PROVE BranchInv'
  <2>1. /\ pc[w] = "opening" /\ pc' = [pc EXCEPT ![w] = "recording"]
        /\ pulls' = pulls \cup {job[w].plan}
        /\ UNCHANGED <<commit, buildCommit, plan, branch, job, consented>>
    BY <1>15 DEF OpenPull, GoTo
  <2>2. PublishedWithConsent' /\ CandidateIsTheBranch'
    BY <2>1
  <2>3. ASSUME NEW v \in Workers
        PROVE  /\ HasBranch(v)' => branch'[job'[v].plan] = job'[v].attempt
               /\ HasPull(v)' => job'[v].plan \in pulls'
    BY <2>1
  <2> QED BY <2>2, <2>3
<1>16. ASSUME NEW w \in Workers, RecordPublication(w) PROVE BranchInv'
  BY <1>16 DEF RecordPublication, At, Release, Owns, Finish, GoTo, NoJob
<1>17. ASSUME NEW w \in Workers, MonitorChecks(w) PROVE BranchInv'
  BY <1>17 DEF MonitorChecks, At, Release, Owns, Finish, GoTo, NoJob
<1>18. ASSUME NEW w \in Workers, Heartbeat(w) PROVE BranchInv'
  BY <1>18 DEF Heartbeat, Owns
<1>19. ASSUME NEW w \in Workers, Crash(w) PROVE BranchInv'
  BY <1>19 DEF Crash, Finish, GoTo, NoJob
<1>20. CASE LeaseTimesOut
  BY <1>20 DEF LeaseTimesOut
<1>21. CASE LeaseStalls
  BY <1>21 DEF LeaseStalls
<1>22. CASE UNCHANGED vars
  BY <1>22 DEF vars
<1> QED
  BY <1>1, <1>2, <1>3, <1>4, <1>5, <1>6, <1>7, <1>8, <1>9, <1>10, <1>11,
      <1>12, <1>13, <1>14, <1>15, <1>16, <1>17, <1>18, <1>19, <1>20, <1>21,
      <1>22 DEF Next, Request, WorkerStep

(* A retry is only granted below max_attempts; the phases after it are     *)
(* entered once, or through a recovered lease.                             *)
LEMMA BudgetInvInductive == CoreInv /\ BudgetInv /\ [Next]_vars => BudgetInv'
<1> SUFFICES ASSUME CoreInv /\ BudgetInv, [Next]_vars
             PROVE  BudgetInv'
  OBVIOUS
<1> USE CodingBoundsAssumption
    DEF CoreInv, TypeOK, LeaseInv, JobInv, Owns, Leased, Ended, Statuses,
        Locations, Job, Null, BudgetInv, AttemptBudget, rowVars,
        buildVars, githubVars, workerVars, userVars, ghostVars
<1>1. CASE CreateRun
  BY <1>1 DEF CreateRun
<1>2. CASE LinkBuild
  BY <1>2 DEF LinkBuild
<1>3. CASE DecideRun
  BY <1>3 DEF DecideRun, Decide, Approve, Reject
<1>4. CASE ExpireApproval
  BY <1>4 DEF ExpireApproval
<1>5. CASE CancelRun
  BY <1>5 DEF CancelRun
<1>6. CASE AttestBuild
  BY <1>6 DEF AttestBuild
<1>7. CASE FailBuild \/ CancelBuild
  BY <1>7 DEF FailBuild, CancelBuild
<1>8. ASSUME NEW w \in Workers, Claim(w) PROVE BudgetInv'
  BY <1>8 DEF Claim, Claimable, Phase
<1>9. ASSUME NEW w \in Workers, Raise(w) PROVE BudgetInv'
  BY <1>9 DEF Raise, GoTo
<1>10. ASSUME NEW w \in Workers, HandleFailure(w) PROVE BudgetInv'
  BY <1>10 DEF HandleFailure, Release, Owns, MayRetry, AfterFailure, Finish,
      GoTo, NoJob
<1>11. ASSUME NEW w \in Workers, PlanInSandbox(w) PROVE BudgetInv'
  BY <1>11 DEF PlanInSandbox, At, GoTo
<1>12. ASSUME NEW w \in Workers, RecordPlan(w) PROVE BudgetInv'
  BY <1>12 DEF RecordPlan, At, Release, Owns, Finish, GoTo, NoJob
<1>13. ASSUME NEW w \in Workers, ExecuteInSandbox(w) PROVE BudgetInv'
  BY <1>13 DEF ExecuteInSandbox, At, GoTo
<1>14. ASSUME NEW w \in Workers, CreateBranch(w) PROVE BudgetInv'
  BY <1>14 DEF CreateBranch, GoTo
<1>15. ASSUME NEW w \in Workers, OpenPull(w) PROVE BudgetInv'
  BY <1>15 DEF OpenPull, GoTo
<1>16. ASSUME NEW w \in Workers, RecordPublication(w) PROVE BudgetInv'
  BY <1>16 DEF RecordPublication, At, Release, Owns, Finish, GoTo, NoJob
<1>17. ASSUME NEW w \in Workers, MonitorChecks(w) PROVE BudgetInv'
  BY <1>17 DEF MonitorChecks, At, Release, Owns, Finish, GoTo, NoJob
<1>18. ASSUME NEW w \in Workers, Heartbeat(w) PROVE BudgetInv'
  BY <1>18 DEF Heartbeat, Owns
<1>19. ASSUME NEW w \in Workers, Crash(w) PROVE BudgetInv'
  BY <1>19 DEF Crash, Finish, GoTo, NoJob
<1>20. CASE LeaseTimesOut
  BY <1>20 DEF LeaseTimesOut
<1>21. CASE LeaseStalls
  BY <1>21 DEF LeaseStalls
<1>22. CASE UNCHANGED vars
  BY <1>22 DEF vars
<1> QED
  BY <1>1, <1>2, <1>3, <1>4, <1>5, <1>6, <1>7, <1>8, <1>9, <1>10, <1>11,
      <1>12, <1>13, <1>14, <1>15, <1>16, <1>17, <1>18, <1>19, <1>20, <1>21,
      <1>22 DEF Next, Request, WorkerStep

-------------------------------------------------------------------------------

LEMMA CodingInvInit == Init => CodingInv
<1> SUFFICES ASSUME Init PROVE CodingInv
  OBVIOUS
<1> USE DEF Init
<1>1. TypeOK
  <2>1. NoJob \in Job
    BY DEF NoJob, Job, Null
  <2> QED BY <2>1 DEF TypeOK, Statuses, Leased, Ended, Locations, Null
<1>2. LeaseInv
  BY DEF LeaseInv
<1>3. JobInv
  BY DEF JobInv, NoJob
<1>4. ConsentInv
  BY DEF ConsentInv
<1>5. BranchInv
  BY DEF BranchInv, PublishedWithConsent, CandidateIsTheBranch, HasBranch,
      HasPull, At
<1>6. BudgetInv
  BY CodingBoundsAssumption DEF BudgetInv, AttemptBudget
<1> QED
  BY <1>1, <1>2, <1>3, <1>4, <1>5, <1>6 DEF CodingInv, CoreInv

THEOREM CodingInvHolds == Spec => []CodingInv
<1>1. Init => CodingInv
  BY CodingInvInit
<1>2. CodingInv /\ [Next]_vars => CodingInv'
  BY CoreInvInductive, ConsentInvInductive, BranchInvInductive,
      BudgetInvInductive
     DEF CodingInv
<1> QED
  BY <1>1, <1>2, PTL DEF Spec

(* The types of the row, the build, GitHub's branches and the workers.     *)
THEOREM TypesHold == Spec => []TypeOK
<1>1. CodingInv => TypeOK
  BY DEF CodingInv, CoreInv
<1> QED
  BY <1>1, CodingInvHolds, PTL

(* Nothing reaches the repository without the owner's approval of that     *)
(* very plan, whatever happens to leases and workers.                      *)
THEOREM PublicationNeedsConsent == Spec => []PublishedWithConsent
<1>1. CodingInv => PublishedWithConsent
  BY DEF CodingInv, BranchInv
<1> QED
  BY <1>1, CodingInvHolds, PTL

(* The commit on record is the one at the head of the plan's branch.       *)
THEOREM RecordsTellTheBranch == Spec => []CandidateIsTheBranch
<1>1. CodingInv => CandidateIsTheBranch
  BY DEF CodingInv, BranchInv
<1> QED
  BY <1>1, CodingInvHolds, PTL

(* Attempts are bounded by max_attempts, two later phases and recoveries.  *)
THEOREM AttemptsAreBounded == Spec => []AttemptBudget
<1>1. CodingInv => AttemptBudget
  BY DEF CodingInv, BudgetInv
<1> QED
  BY <1>1, CodingInvHolds, PTL

-------------------------------------------------------------------------------
(* A completed run has no lease, so every fenced update passes it by.      *)

LEMMA CompletedStep ==
    ASSUME CodingInv, [Next]_vars, status = "completed"
    PROVE  status' = "completed"
<1> USE DEF CodingInv, CoreInv, TypeOK, LeaseInv, Leased, Null, rowVars,
        buildVars, githubVars, workerVars, userVars, ghostVars
<1>1. lease = Null
  OBVIOUS
<1>2. ASSUME NEW w \in Workers, pc[w] # "idle" PROVE ~ Owns(w)
  BY <1>1, <1>2 DEF Owns
<1>3. ASSUME Request PROVE status' = "completed"
  BY <1>3 DEF Request, CreateRun, LinkBuild, DecideRun, Decide, ExpireApproval,
              CancelRun, AttestBuild, FailBuild, CancelBuild, rowVars
<1>4. ASSUME NEW w \in Workers, WorkerStep(w) PROVE status' = "completed"
  <2>1. ~ Claim(w)
    BY DEF Claim, Claimable
  <2>2. CASE HandleFailure(w) \/ RecordPlan(w) \/ RecordPublication(w) \/ MonitorChecks(w)
    BY <1>2, <2>2 DEF HandleFailure, RecordPlan, RecordPublication,
        MonitorChecks,
                      At, Release
  <2>3. CASE \/ Raise(w) \/ PlanInSandbox(w) \/ ExecuteInSandbox(w)
             \/ CreateBranch(w) \/ OpenPull(w)
    BY <2>3 DEF Raise, PlanInSandbox, ExecuteInSandbox, CreateBranch,
        OpenPull, rowVars
  <2> QED BY <1>4, <2>1, <2>2, <2>3 DEF WorkerStep
<1>5. ASSUME NEW w \in Workers, Heartbeat(w) \/ Crash(w) PROVE status' = "completed"
  BY <1>5 DEF Heartbeat, Crash, rowVars
<1>6. CASE LeaseTimesOut \/ LeaseStalls
  BY <1>6 DEF LeaseTimesOut, LeaseStalls
<1>7. CASE UNCHANGED vars
  BY <1>7 DEF vars, rowVars
<1> QED
  BY <1>3, <1>4, <1>5, <1>6, <1>7 DEF Next

(* No late worker, handler, decision or cancellation undoes a completion.  *)
THEOREM CompletionIsFinal == Spec => CompletedIsFinal
<1>1. CodingInv /\ [Next]_vars => [status = "completed" => status' = "completed"]_vars
  BY CompletedStep
<1> QED
  BY <1>1, CodingInvHolds, PTL DEF Spec, CompletedIsFinal

-------------------------------------------------------------------------------
(* The run implements the abstract publication.                            *)

Branches == {p \in Plans : branch[p] # Null}

LEMMA InitPublishes == Init => Publication!PublicationInit
BY DEF Init, Publication!PublicationInit

(* What the publication sees does not change.                              *)
LEMMA Unseen ==
    ASSUME UNCHANGED <<shown, consented, branch>>
    PROVE  UNCHANGED Publication!publicationVars
BY DEF Publication!publicationVars

LEMMA RequestPublishes ==
    ASSUME CodingInv, Request
    PROVE  [Publication!PublicationNext]_(Publication!publicationVars)
<1>1. CASE DecideRun
  <2>1. /\ status = "awaiting_approval" /\ plan \in shown /\ plan \in Plans
        /\ consented = {}
    BY <1>1 DEF CodingInv, CoreInv, TypeOK, JobInv, ConsentInv, DecideRun,
        Decide
  <2>2. UNCHANGED <<shown, branch>> /\ consented' \in {consented, {plan}}
    BY <1>1, <2>1 DEF DecideRun, Decide, Approve, Reject, githubVars
  <2>3. CASE consented' = {plan}
    BY <2>1, <2>2, <2>3 DEF Publication!PublicationNext, Publication!Consent
  <2>4. CASE consented' = consented
    BY <2>2, <2>4, Unseen
  <2> QED BY <2>2, <2>3, <2>4
<1>2. CASE \/ CreateRun \/ LinkBuild \/ ExpireApproval \/ CancelRun
           \/ AttestBuild \/ FailBuild \/ CancelBuild
  BY <1>2, Unseen DEF CreateRun, LinkBuild, ExpireApproval, CancelRun,
      AttestBuild,
                      FailBuild, CancelBuild, userVars, githubVars
<1> QED
  BY <1>1, <1>2 DEF Request

LEMMA WorkerPublishes ==
    ASSUME CodingInv, NEW w \in Workers, WorkerStep(w)
    PROVE  [Publication!PublicationNext]_(Publication!publicationVars)
<1>1. CASE RecordPlan(w)
  <2>1. job[w].plan \in Plans
    BY <1>1 DEF CodingInv, CoreInv, JobInv, RecordPlan, At
  <2>2. shown' = shown \cup {job[w].plan} /\ UNCHANGED <<consented, branch>>
    BY <1>1 DEF RecordPlan, githubVars
  <2> QED
    BY <2>1, <2>2 DEF Publication!PublicationNext, Publication!Propose
<1>2. CASE CreateBranch(w)
  <2>1. /\ job[w].plan \in Plans /\ job[w].plan \in consented
        /\ job[w].attempt # Null /\ branch \in [Plans -> Nat]
    BY <1>2 DEF CodingInv, CoreInv, TypeOK, LeaseInv, JobInv, ConsentInv,
                CreateBranch, Null
  <2>2. UNCHANGED <<shown, consented>>
    BY <1>2 DEF CreateBranch, userVars
  <2>3. CASE branch' = [branch EXCEPT ![job[w].plan] = job[w].attempt]
    <3>1. {p \in Plans : branch'[p] # Null} = Branches \cup {job[w].plan}
      BY <2>1, <2>3 DEF Branches
    <3> QED
      BY <2>1, <2>2, <3>1
         DEF Branches, Publication!PublicationNext, Publication!Publish
  <2>4. CASE UNCHANGED branch
    BY <2>2, <2>4, Unseen
  <2> QED BY <1>2, <2>3, <2>4 DEF CreateBranch
<1>3. CASE \/ Claim(w) \/ Raise(w) \/ HandleFailure(w) \/ PlanInSandbox(w)
           \/ ExecuteInSandbox(w) \/ OpenPull(w) \/ RecordPublication(w)
           \/ MonitorChecks(w)
  BY <1>3, Unseen DEF Claim, Raise, HandleFailure, PlanInSandbox,
      ExecuteInSandbox,
                      OpenPull, RecordPublication, MonitorChecks, userVars, githubVars
<1> QED
  BY <1>1, <1>2, <1>3 DEF WorkerStep

(* Initial states map to initial states, and every step to a proposal, a   *)
(* consent, a publication or a stutter.                                    *)
THEOREM RunImplementsPublication == Spec => ImplementsPublication
<1>1. CodingInv /\ [Next]_vars
        => [Publication!PublicationNext]_(Publication!publicationVars)
  <2> SUFFICES ASSUME CodingInv, [Next]_vars
               PROVE  [Publication!PublicationNext]_(Publication!publicationVars)
    OBVIOUS
  <2>1. CASE Request
    BY <2>1, RequestPublishes
  <2>2. ASSUME NEW w \in Workers, WorkerStep(w)
        PROVE  [Publication!PublicationNext]_(Publication!publicationVars)
    BY <2>2, WorkerPublishes
  <2>3. ASSUME \/ \E w \in Workers : Heartbeat(w) \/ Crash(w)
               \/ LeaseTimesOut \/ LeaseStalls
               \/ UNCHANGED vars
        PROVE  UNCHANGED <<shown, consented, branch>>
    BY <2>3 DEF Heartbeat, Crash, LeaseTimesOut, LeaseStalls, vars,
        userVars, githubVars
  <2> QED BY <2>1, <2>2, <2>3, Unseen DEF Next
<1> QED
  BY <1>1, InitPublishes, CodingInvHolds, PTL
     DEF Spec, ImplementsPublication, Publication!PublicationSpec
===============================================================================
