------------------------------- MODULE CodingRun -------------------------------
(***************************************************************************)
(* One hosted coding run: its row in coding_runs, the candidate build that *)
(* may be linked to it, the requests of its owner (app/coding/repository), *)
(* the workers that plan, execute, publish and watch the checks            *)
(* (app/coding/worker.py), trusted CI (app/api/routes/admin.py) and the    *)
(* branch and pull request at GitHub.                                      *)
(*                                                                         *)
(* An action is one transaction, or one external call, together with the   *)
(* local computation that follows it.                                      *)
(***************************************************************************)
EXTENDS Integers, FiniteSets

CONSTANTS
    Plans,          \* the frozen plans that a planner may produce
    NoPlan,         \* plan_hash NULL
    Workers,        \* the coding worker loops
    MaxAttempts,    \* coding_runs.max_attempts
    MaxCrashes,     \* bound: worker processes that die
    MaxStalls       \* bound: leases that run out under a live worker

ASSUME PlansAssumption == NoPlan \notin Plans

ASSUME CodingBoundsAssumption ==
    /\ MaxAttempts \in Nat \ {0}
    /\ {MaxCrashes, MaxStalls} \subseteq Nat

(* lease_owner is different in every claim.  So is attempt_count, which    *)
(* stands for it; it also stands for the commit that the attempt creates.  *)
Null == 0

VARIABLES
    status,         \* coding_runs.status
    lease,          \* lease_owner: the attempt that holds it, or Null
    leaseLive,      \* lease_expires_at >= now()
    attempts,       \* attempt_count
    plan,           \* plan_hash, which is also approval_action_hash
    approval,       \* approval_status
    commit,         \* candidate_commit: the attempt that created it, or Null
    build,          \* candidate_builds.status, "none" without a build
    linked,         \* candidate_builds.coding_run_id is this run
    buildCommit,    \* candidate_builds.candidate_commit
    branch,         \* GitHub: the commit at the head of each plan's branch
    pulls,          \* GitHub: the plans with a draft pull request
    pc,             \* where each worker is in process_one_coding_run
    job,            \* its row of the claim, and its local variables
    shown,          \* history variable: plans announced for approval
    consented,      \* history variable: plans the owner sent an approval of
    recovered,      \* history variable: claims of an expired lease
    faults          \* history variable: crashes and stalls so far

rowVars    == <<status, lease, leaseLive, attempts, plan, approval, commit>>
buildVars  == <<build, linked, buildCommit>>
githubVars == <<branch, pulls>>
workerVars == <<pc, job>>
userVars   == <<shown, consented>>
ghostVars  == <<recovered, faults>>
vars == <<rowVars, buildVars, githubVars, workerVars, userVars, ghostVars>>

Leased == {"planning", "executing", "ci_running"}
Ended  == {"completed", "failed", "blocked", "cancelled"}
Statuses ==
    {"absent", "queued", "awaiting_approval", "approved", "published"}
    \cup Leased \cup Ended

Locations ==
    {"idle", "working", "drafting", "opening", "recording", "failing"}

Job ==
    [phase   : Leased \cup {"none"},    \* row["status"]
     attempt : Nat,                     \* row["lease_owner"]
     plan    : Plans \cup {NoPlan},     \* row["plan_hash"], or the new plan
     linked  : BOOLEAN,                 \* linked_build_id is not None
     retry   : BOOLEAN]                 \* exc.retryable

NoJob == [phase |-> "none", attempt |-> Null, plan |-> NoPlan,
          linked |-> FALSE, retry |-> FALSE]

TypeOK ==
    /\ status \in Statuses
    /\ lease \in Nat
    /\ leaseLive \in BOOLEAN
    /\ attempts \in Nat
    /\ plan \in Plans \cup {NoPlan}
    /\ approval \in {"not_requested", "pending", "approved", "rejected", "expired"}
    /\ commit \in Nat
    /\ build \in {"none", "queued", "investigating", "drafted", "validated",
                  "failed", "cancelled"}
    /\ linked \in BOOLEAN
    /\ buildCommit \in Nat
    /\ branch \in [Plans -> Nat]
    /\ pulls \subseteq Plans
    /\ pc \in [Workers -> Locations]
    /\ job \in [Workers -> Job]
    /\ shown \subseteq Plans
    /\ consented \subseteq Plans
    /\ recovered \in Nat
    /\ faults \in [crashes : Nat, stalls : Nat]

Init ==
    /\ status = "absent"
    /\ lease = Null
    /\ leaseLive = FALSE
    /\ attempts = 0
    /\ plan = NoPlan
    /\ approval = "not_requested"
    /\ commit = Null
    /\ build = "none"
    /\ linked = FALSE
    /\ buildCommit = Null
    /\ branch = [p \in Plans |-> Null]
    /\ pulls = {}
    /\ pc = [w \in Workers |-> "idle"]
    /\ job = [w \in Workers |-> NoJob]
    /\ shown = {}
    /\ consented = {}
    /\ recovered = 0
    /\ faults = [crashes |-> 0, stalls |-> 0]

-------------------------------------------------------------------------------
(* Requests: app/coding/repository.py and app/improvements/builder.py.     *)

(* create_coding_run, for a user or for a candidate build that exists.     *)
CreateRun ==
    /\ status = "absent"
    /\ status' = "queued"
    /\ build' \in {"none", "queued"}
    /\ UNCHANGED <<lease, leaseLive, attempts, plan, approval, commit, linked,
                   buildCommit, githubVars, workerVars, userVars, ghostVars>>

(* enqueue_durable_coding_run_for_build links the build in a statement of  *)
(* its own, after the run was committed and may have been claimed, and     *)
(* whatever has become of the build.                                       *)
LinkBuild ==
    /\ build # "none" /\ ~linked
    /\ linked' = TRUE
    /\ build' = "investigating"
    /\ UNCHANGED <<rowVars, buildCommit, githubVars, workerVars, userVars, ghostVars>>

(* The owner's decision p, on a plan that some event announced.            *)
Approve(p) ==
    /\ status' = "approved"
    /\ approval' = "approved"
    /\ consented' = consented \cup {p}
    /\ UNCHANGED build

Reject ==
    /\ status' = "cancelled"
    /\ approval' = "rejected"
    /\ build' = IF linked /\ build \notin {"validated", "cancelled"}
                THEN "cancelled" ELSE build
    /\ UNCHANGED consented

Decide(p) ==
    /\ status = "awaiting_approval"
    /\ Approve(p) \/ Reject
    /\ UNCHANGED <<lease, leaseLive, attempts, plan, commit, linked, buildCommit,
                   githubVars, workerVars, shown, ghostVars>>

\* Mutant: the hash of the decision is not compared with the frozen plan's.
DecideAnyPlan == \E p \in shown : Decide(p)

(* decide_coding_run.  A decision after approval_expires_at changes        *)
(* nothing: its update is rolled back by the exception it raises.          *)
DecideRun == Decide(plan)

(* apply_retention blocks a run whose approval has expired.                *)
ExpireApproval ==
    /\ status = "awaiting_approval"
    /\ status' = "blocked"
    /\ approval' = "expired"
    /\ UNCHANGED <<lease, leaseLive, attempts, plan, commit, buildVars,
                   githubVars, workerVars, userVars, ghostVars>>

(* cancel_coding_run; a linked build is left as it is.                     *)
CancelRun ==
    /\ status \notin {"absent", "completed", "cancelled"}
    /\ status' = "cancelled"
    /\ approval' = IF approval = "pending" THEN "rejected" ELSE approval
    /\ lease' = Null
    /\ leaseLive' = FALSE
    /\ UNCHANGED <<attempts, plan, commit, buildVars, githubVars, workerVars,
                   userVars, ghostVars>>

(* attest_candidate_build: trusted CI vouches for a drafted build, and the *)
(* run it is linked to is completed, by its id, whatever has become of it. *)
AttestBuild ==
    /\ build = "drafted" /\ linked
    /\ build' = "validated"
    /\ status' = "completed"
    /\ commit' = buildCommit
    /\ lease' = Null
    /\ leaseLive' = FALSE
    /\ UNCHANGED <<attempts, plan, approval, linked, buildCommit, githubVars,
                   workerVars, userVars, ghostVars>>

(* remediate_candidate_validation_failure fails the build and starts a new *)
(* one; the run is left as it is.                                          *)
FailBuild ==
    /\ build = "drafted"
    /\ build' = "failed"
    /\ UNCHANGED <<rowVars, linked, buildCommit, githubVars, workerVars,
                   userVars, ghostVars>>

(* dispatch_retryable_candidate_builds cancels builds that are not drafted *)
(* when their proposal is rejected or the builder's policy has changed;    *)
(* the run is left as it is.                                               *)
CancelBuild ==
    /\ build \in {"queued", "investigating"}
    /\ build' = "cancelled"
    /\ UNCHANGED <<rowVars, linked, buildCommit, githubVars, workerVars,
                   userVars, ghostVars>>

-------------------------------------------------------------------------------
(* process_one_coding_run.                                                 *)

\* Mutant: an interrupted execution is not recovered.
ClaimableUnlessExecuting ==
    \/ status \in {"queued", "approved"}
    \/ status \in Leased \ {"executing"} /\ lease # Null /\ ~leaseLive
    \/ status = "published" /\ ~linked

(* A lease that is NULL is not one that has expired.                       *)
Claimable ==
    \/ status \in {"queued", "approved"}
    \/ status \in Leased /\ lease # Null /\ ~leaseLive
    \/ status = "published" /\ ~linked

Phase ==
    CASE status \in {"queued", "planning"}    -> "planning"
      [] status \in {"approved", "executing"} -> "executing"
      [] OTHER                                -> "ci_running"

(* _claim; a recovered lease is an attempt like any other.                 *)
Claim(w) ==
    /\ pc[w] = "idle"
    /\ Claimable
    /\ status' = Phase
    /\ lease' = attempts + 1
    /\ leaseLive' = TRUE
    /\ attempts' = attempts + 1
    /\ pc' = [pc EXCEPT ![w] = "working"]
    /\ job' = [job EXCEPT ![w] = [phase |-> Phase, attempt |-> attempts + 1,
                                  plan |-> plan, linked |-> FALSE, retry |-> FALSE]]
    /\ recovered' = IF status \in Leased THEN recovered + 1 ELSE recovered
    /\ UNCHANGED <<plan, approval, commit, buildVars, githubVars, userVars, faults>>

At(w, location, phase) == pc[w] = location /\ job[w].phase = phase
GoTo(w, location) == pc' = [pc EXCEPT ![w] = location]

Finish(w) ==
    /\ GoTo(w, "idle")
    /\ job' = [job EXCEPT ![w] = NoJob]

(* An UPDATE ... WHERE lease_owner = $1 finds the row, and gives the lease *)
(* back, or changes nothing.                                               *)
Owns(w) == lease = job[w].attempt

Release(w, next) ==
    /\ status' = IF Owns(w) THEN next ELSE status
    /\ lease' = IF Owns(w) THEN Null ELSE lease
    /\ leaseLive' = (leaseLive /\ ~Owns(w))

(* The step raises, before or inside a transaction that is then undone.    *)
(* Only the sandbox raises errors that may be retried.                     *)
Raise(w) ==
    /\ pc[w] \in Locations \ {"idle", "failing"}
    /\ GoTo(w, "failing")
    /\ \E retry \in BOOLEAN :
          /\ retry => pc[w] = "working" /\ job[w].phase # "ci_running"
          /\ job' = [job EXCEPT ![w].retry = retry]
    /\ UNCHANGED <<rowVars, buildVars, githubVars, userVars, ghostVars>>

(* _plan: the sandbox freezes a plan.                                      *)
PlanInSandbox(w) ==
    /\ At(w, "working", "planning")
    /\ \E p \in Plans : job' = [job EXCEPT ![w].plan = p]
    /\ GoTo(w, "recording")
    /\ UNCHANGED <<rowVars, buildVars, githubVars, userVars, ghostVars>>

(* _plan's transaction: the row is fenced by the lease; the artifacts and  *)
(* the event that announces the plan are not.                              *)
RecordPlan(w) ==
    /\ At(w, "recording", "planning")
    /\ Release(w, "awaiting_approval")
    /\ plan' = IF Owns(w) THEN job[w].plan ELSE plan
    /\ approval' = IF Owns(w) THEN "pending" ELSE approval
    /\ shown' = shown \cup {job[w].plan}
    /\ Finish(w)
    /\ UNCHANGED <<attempts, commit, buildVars, githubVars, consented, ghostVars>>

(* _execute: the approved plan passes in a fresh sandbox, then the linked  *)
(* build is looked up.                                                     *)
ExecuteInSandbox(w) ==
    /\ At(w, "working", "executing")
    /\ job[w].plan # NoPlan
    /\ job' = [job EXCEPT ![w].linked = linked]
    /\ GoTo(w, "drafting")
    /\ UNCHANGED <<rowVars, buildVars, githubVars, userVars, ghostVars>>

\* Mutant: a branch that exists is taken for one's own.
CreateBranchOrReuse(w) ==
    /\ pc[w] = "drafting"
    /\ branch' = [branch EXCEPT ![job[w].plan] =
                    IF @ = Null THEN job[w].attempt ELSE @]
    /\ GoTo(w, "opening")
    /\ UNCHANGED <<rowVars, buildVars, pulls, job, userVars, ghostVars>>

(* _publish_draft: the branch is named after the run and the plan; GitHub  *)
(* refuses to create it twice (publication_conflict).                      *)
CreateBranch(w) ==
    /\ pc[w] = "drafting"
    /\ IF branch[job[w].plan] = Null
       THEN /\ branch' = [branch EXCEPT ![job[w].plan] = job[w].attempt]
            /\ GoTo(w, "opening")
       ELSE GoTo(w, "failing") /\ UNCHANGED branch
    /\ UNCHANGED <<rowVars, buildVars, pulls, job, userVars, ghostVars>>

OpenPull(w) ==
    /\ pc[w] = "opening"
    /\ pulls' = pulls \cup {job[w].plan}
    /\ GoTo(w, "recording")
    /\ UNCHANGED <<rowVars, buildVars, branch, job, userVars, ghostVars>>

(* _execute's transaction: the run is fenced, its linked build is not.     *)
RecordPublication(w) ==
    /\ At(w, "recording", "executing")
    /\ Release(w, "published")
    /\ commit' = IF Owns(w) THEN job[w].attempt ELSE commit
    /\ build' = IF job[w].linked THEN "drafted" ELSE build
    /\ buildCommit' = IF job[w].linked THEN job[w].attempt ELSE buildCommit
    /\ Finish(w)
    /\ UNCHANGED <<attempts, plan, approval, linked, githubVars, userVars, ghostVars>>

(* _monitor_ci: the checks have all passed, or some are still to come.     *)
(* Checks that failed, or that took too long, raise.                       *)
MonitorChecks(w) ==
    /\ At(w, "working", "ci_running")
    /\ \E passed \in BOOLEAN :
          Release(w, IF passed THEN "completed" ELSE "ci_running")
    /\ Finish(w)
    /\ UNCHANGED <<attempts, plan, approval, commit, buildVars, githubVars,
                   userVars, ghostVars>>

\* Mutants: an attempt too many; an approved run is planned again.
MayRetryOnceMore(w) == job[w].retry /\ job[w].attempt <= MaxAttempts
AfterFailureReplan(w, retry) == IF retry THEN "queued" ELSE "failed"

MayRetry(w) == job[w].retry /\ job[w].attempt < MaxAttempts

\* Mutant: the phase is written where the status belongs.
AfterFailurePhase(w, retry) == IF retry THEN "retry_wait" ELSE "failed"

AfterFailure(w, retry) ==
    IF ~retry THEN "failed"
    ELSE IF job[w].phase = "executing" THEN "approved"
    ELSE "queued"

\* Mutant: the handler names the run by its id alone.
HandleFailureUnfenced(w) ==
    /\ pc[w] = "failing"
    /\ status' = AfterFailure(w, MayRetry(w))
    /\ lease' = Null
    /\ leaseLive' = FALSE
    /\ Finish(w)
    /\ UNCHANGED <<attempts, plan, approval, commit, buildVars, githubVars,
                   userVars, ghostVars>>

(* The handlers of process_one_coding_run: the run is fenced, its linked   *)
(* build (_mark_linked_build_failed) is not.                               *)
HandleFailure(w) ==
    /\ pc[w] = "failing"
    /\ Release(w, AfterFailure(w, MayRetry(w)))
    /\ build' = IF /\ ~MayRetry(w) /\ linked
                   /\ build \notin {"validated", "cancelled", "failed"}
                THEN "failed" ELSE build
    /\ Finish(w)
    /\ UNCHANGED <<attempts, plan, approval, commit, linked, buildCommit,
                   githubVars, userVars, ghostVars>>

-------------------------------------------------------------------------------
(* Leases and crashes.                                                     *)

(* _heartbeat renews a lease that is still owned, expired or not.          *)
Heartbeat(w) ==
    /\ pc[w] # "idle"
    /\ Owns(w) /\ status \in {"planning", "executing"}
    /\ ~leaseLive
    /\ leaseLive' = TRUE
    /\ UNCHANGED <<status, lease, attempts, plan, approval, commit, buildVars,
                   githubVars, workerVars, userVars, ghostVars>>

Held == \E w \in Workers : pc[w] # "idle" /\ Owns(w)

(* The lease of a worker that died runs out.                               *)
LeaseTimesOut ==
    /\ lease # Null /\ leaseLive /\ ~Held
    /\ leaseLive' = FALSE
    /\ UNCHANGED <<status, lease, attempts, plan, approval, commit, buildVars,
                   githubVars, workerVars, userVars, ghostVars>>

(* The lease runs out under a live worker: its heartbeat failed, its event *)
(* loop was held up, or it watches checks, when nothing renews the lease.  *)
LeaseStalls ==
    /\ faults.stalls < MaxStalls
    /\ lease # Null /\ leaseLive /\ Held
    /\ leaseLive' = FALSE
    /\ faults' = [faults EXCEPT !.stalls = @ + 1]
    /\ UNCHANGED <<status, lease, attempts, plan, approval, commit, buildVars,
                   githubVars, workerVars, userVars, recovered>>

Crash(w) ==
    /\ faults.crashes < MaxCrashes
    /\ pc[w] # "idle"
    /\ Finish(w)
    /\ faults' = [faults EXCEPT !.crashes = @ + 1]
    /\ UNCHANGED <<rowVars, buildVars, githubVars, userVars, recovered>>

-------------------------------------------------------------------------------

Request ==
    \/ CreateRun \/ LinkBuild \/ DecideRun \/ ExpireApproval \/ CancelRun
    \/ AttestBuild \/ FailBuild \/ CancelBuild

WorkerStep(w) ==
    \/ Claim(w) \/ Raise(w) \/ HandleFailure(w)
    \/ PlanInSandbox(w) \/ RecordPlan(w)
    \/ ExecuteInSandbox(w) \/ CreateBranch(w) \/ OpenPull(w) \/ RecordPublication(w)
    \/ MonitorChecks(w)

Next ==
    \/ Request
    \/ \E w \in Workers : WorkerStep(w) \/ Heartbeat(w) \/ Crash(w)
    \/ LeaseTimesOut
    \/ LeaseStalls

Spec == Init /\ [][Next]_vars

(* Worker loops poll and every call returns; time passes.                  *)
Fairness ==
    /\ \A w \in Workers : WF_vars(WorkerStep(w))
    /\ WF_vars(LeaseTimesOut)

FairSpec == Spec /\ Fairness

-------------------------------------------------------------------------------
(* Only a plan that the owner approved reaches the repository, whoever     *)
(* lost which lease (decide_coding_run, _claim and the fences of _plan).   *)
PublishedWithConsent ==
    \A p \in Plans : branch[p] # Null => p \in consented

(* The commit on record, of the run and of its build, is the head of the   *)
(* branch of the run's plan, and that branch has its pull request: what    *)
(* trusted CI attests is what was published (_publish_draft).              *)
CandidateIsTheBranch ==
    \A c \in {commit, buildCommit} \ {Null} :
        plan \in pulls /\ branch[plan] = c

(* A completed run stays completed.                                        *)
CompletedIsFinal ==
    [][status = "completed" => status' = "completed"]_vars

(* Beyond the attempts of max_attempts, a run is claimed once to execute   *)
(* the plan, once to watch the checks, and once for each lease recovered   *)
(* (_claim itself has no limit).                                           *)
AttemptBudget == attempts <= MaxAttempts + 2 + recovered

(* The run implements the abstract publication: one consent at most, and   *)
(* nothing published without it.                                           *)
Publication == INSTANCE GovernedPublication
                 WITH proposed  <- shown,
                      consent   <- consented,
                      published <- {p \in Plans : branch[p] # Null}

ImplementsPublication == Publication!PublicationSpec

(* Work that a worker may take, or holds, gets somewhere: to the owner, to *)
(* the repository or to an end.                                            *)
WorkAdvances ==
    status \in {"queued", "planning", "approved", "executing"}
        ~> status \in {"awaiting_approval", "published"} \cup Ended

(* "monitor trusted checks, and time out stalled CI"                       *)
(* (project_progress_upgrade.md): a run that waits for checks ends.        *)
StalledChecksEnd == status = "ci_running" ~> status \in Ended
===============================================================================
