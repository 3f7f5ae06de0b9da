# google-connector-app: a TLA+ verification project

The application lets a user ask, in a chat, for work across Google services
(Gmail, Drive, Sheets, Chat, Calendar). Every request is planned and becomes a
*durable run*: a row in Postgres with an ordered plan of steps, executed by
worker loops that lease it, call language-model agents and Google's APIs,
survive crashes, and let the user approve, cancel and resume. A *coding run*
plans a change to a repository, asks its owner to approve the plan, executes it
in a sandbox and opens a draft pull request. The application also changes
itself: failures become *improvement proposals*, language-model agents *build*
candidates for them, and reviewers, canaries and trusted workflows decide what
reaches users. What tools have read is indexed by background jobs. This
directory models the parts of the program where several actors share that
database and any of them may stop between two statements, and the planner whose
decisions they carry out.

## 1. Inventory

| Component | State | Operations | Hard behaviour |
|---|---|---|---|
| Durable run worker (`app/runs/worker.py`) | `agent_runs` (status, lease), `agent_run_steps` (status, attempts, output, category), local task set | `claim_run`, `_claim_step`, `_execute_step`, `execute_run` and its exception handler, `_heartbeat`, `worker_loop` | two workers on one run, leases, crashes between statements, retries, partial failure in a batch |
| Run requests (`app/runs/repository.py`) | the same rows, `run_approvals` | `create_run`, `clarify_run`, `decide_run`, `cancel_run` | requests that race the worker, approvals that expire |
| Resume and reconciliation (`app/api/routes/runs.py`, `app/runs/reconciliation.py`, `app/runs/verifier.py`) | `output_data`, `agent_tool_attempts` | `_reconcile_and_resume`, `reconcile_failed_step`, `_reconcile_verified_failed_siblings` | locks released during a provider readback, stale evidence |
| Agent execution of a step (`app/agents/supervisor.py`, `app/tools/contracts.py`) | the executions of the attempt | ordered write contract, tool calls, recorded attempts | failure between two tools of a contract |
| Planning and policy (`app/runs/request_analysis.py`, `planner.py`, `context.py`, `informational.py`, `content_policy.py`) | none; reads the session's turns | text to services, intent, approval, questions; then steps, dependencies, contracts, gates; a second plan when questions are answered | many overlapping rules; the plan after a clarification forgets what the first one knew |
| Coding runs (`app/coding/repository.py`, `app/coding/worker.py`) | `coding_runs`, approvals, artifacts, the GitHub branch and pull request | create, decide, cancel, claim, plan, execute, publish, monitor CI | lease of 300 s under sandbox calls of up to 960 s, side effects at GitHub that a second attempt meets again |
| Candidate builder (`app/improvements/builder.py`, `builder_tools.py`, `retry.py`, `scripts/run_candidate_builder.py`, routes of `admin.py`) | `candidate_builds` with a checkpoint and its files, the spend on record | enqueue, dispatch, lease or claim, roles of bounded model turns, checkpoints, retry, submit, report a failure, trusted CI, remediation | two runtimes on one table, attempts cut anywhere and resumed, lost reports |
| Candidate governance (`app/api/routes/admin.py`, `app/improvements/analyzer.py`, `publisher.py`, `routing.py`) | proposals, canaries, OKF bundles, pull requests, runs pinned to a canary | draft pull request, canary approval, deployment, activation, judgement, roll back, promotion, merge, production | several reviewers and workflows, drafts that arrive late, GitHub's answers that get lost |
| Embedding jobs and source sync (`app/rag/jobs.py`, `user_sync.py`, `ingestion.py`) | job rows with leases, attempts, dead letters; live chunks | enqueue under caps, claim, read, embed, write the difference, complete, fail, requeue, sync | work that outlives its lease, a stale picture across the embedding |
| Artifact cleanup (`app/api/routes/runs.py`) | `artifact_cleanup_requests` and the artifact's row | request, confirm, reject, act at Google, record | a restart between any two steps, expiry inside a transaction that is rolled back |
| Retention and account deletion (`app/runs/retention.py`) | every table, by age or by user | sweep, delete | rows removed under other actors |
| Retrieval (`app/rag/chunking.py`, `embedder.py`, `retriever.py`) | vectors | chunk, embed, rank | none (numeric, I/O) |
| Failure intelligence (`app/improvements/failure_intelligence.py`, `app/mlops/`) | incidents, clusters | aggregate, propose, enqueue builds | incidents that reach a proposal under review |
| Rust coding runtime (`coding_runtime/`) | a workspace on disk | policy checks, local tools | sequential |
| Authentication, feature flags, OKF bundles | request scoped | look-ups | none |
| Web and mobile clients | caches | render, poll | own no durable state |

`PROJECT.json` lists the same components with their status, and, under
`hazards`, what is hard to test in this code and at which line.

What makes each component correct:

* **worker, requests, resume**: a write is never repeated blindly; nothing is
  written before the approval; a step runs on completed dependencies; completed
  steps stay; a run that ended is quiet and says the truth; a run settles.
* **coding runs**: nothing is published without the approval of the very plan
  that is executed; one pull request per run; a run ends; a linked candidate
  build never says something else than its run.
* **planner**: a run never waits for itself; nothing is written that the current
  statement did not ask for; what needs an approval waits for it; questions end.
* **candidate builds**: no draft without its review; the spend stays in the
  budget over all attempts; a build is worked on, waits in the queue, or is
  finished, and what is finished stays so.
* **governance**: users are routed to what was validated and deployed, main gets
  what was promoted, knowledge becomes trusted last, runs are never left to a
  candidate that is gone.
* **jobs and index**: the queues drain; the caps hold; a source's index is one
  result, not a mixture.
* **cleanup**: an action is confirmed first, taken once, and recorded as it was.

## 2. The modules

| Module | Role |
|---|---|
| `DurableRun` | one run: database rows, worker loops, user requests, resumes, faults |
| `Reconciliation` | the resume decision as a pure operator; `DurableRun` instantiates it |
| `StepLedger` | abstract specification: authorised, paid executions of steps |
| `DurableRunTypeProofs`, `DurableRunBudgetProofs` | the theorems about a run with any faults, and the refinement |
| `DurableRunExecutionProofs` | the theorems about a run whose leases outlive their workers |
| `RequestAnalysis` | what a request is taken to ask for: services, intent, policy, questions, from the patterns its text matches |
| `RunPlanner` | the plan made of it, its validation, the run that is created, and the plan after a clarification; extends `RequestAnalysis` |
| `RunPlannerProofs` | the theorems about every request |
| `MCDurableRun` | sentences, the plans `RunPlanner` makes of them, and symmetry for TLC |
| `CodingRun` | one coding run: its row, the linked candidate build, requests, worker loops, trusted CI, the branch and pull request at GitHub, faults |
| `GovernedPublication` | abstract specification: plans are shown, one is consented to, only that one is published |
| `CodingRunProofs` | the theorems about it |
| `CandidateBuild`, `MCCandidateBuild` | the builds of one proposal and the generators of both runtimes |
| `CandidateBuildProofs` | the theorems about the builds |
| `CandidateGovernance`, `MCCandidateGovernance` | proposals, canaries, pull requests, promotion, pinned runs, bundles |
| `CandidateGovernanceProofs` | the theorems about governance |
| `SourceIndex` | embedding jobs, source syncs, live chunks, credentials, retention |
| `ArtifactCleanup` | the cleanup requests of one artifact |
| `UserData`, `MCUserData` | `SourceIndex` and `ArtifactCleanup` composed: processes, credentials and the deletion of the account are shared |
| `UserDataProofs` | the theorems about the composition, and so about both of its parts |

The planner's plan is the constant of `DurableRun` (`Steps`, `Deps`, `Contract`,
`Gated`, `NeedsApproval`); `CandidateBuild` ends where a build is drafted or
validated, which is where `CandidateGovernance` begins; `CodingRun` has the
coding runtime's side of a build.

`CodingRun` has few constants and needs no MC module: its `.cfg` files
instantiate it directly.

### 2.1 `DurableRun` and the code

An action is one statement or transaction of Postgres, or one external call,
together with the local computation up to the next one. Everything may happen
between two actions.

| Variables | Code |
|---|---|
| `runStatus`, `leaseOwner`, `leaseLive` | `agent_runs.status`, `lease_owner`, and whether `lease_expires_at` is in the future |
| `approval` | the status of the run's row in `run_approvals` |
| `stepStatus`, `attempts`, `category`, `output` | `agent_run_steps.status`, `attempt_count`, `error_category`, `output_data.tool_executions` |
| `history` | write tools with a row in `agent_tool_attempts` |
| `pc`, `batch`, `task`, `executions`, `verdict` | where a worker is in `worker_loop`/`execute_run`, and its local variables |
| `resumeStep`, `decision` | the local variables of `_reconcile_and_resume` between its two transactions |
| `calls`, `resumed`, `faults` | history variables: attempts of a step that issued a tool, resumes judged safe, faults so far |

| Actions | Code |
|---|---|
| `CreateInvalidRun`, `CreateRun`, `ClarifyRun`, `DecideRun`, `DecideTooLate`, `CancelRun` | `create_run`, `clarify_run`, `decide_run`, `cancel_run` |
| `ClaimQueued`, `ReclaimAndContinue`, `ReclaimAndFail` | the branches of `claim_run` |
| `LoadCredentials`, `PollStatus`, `ClaimStep`, `Dispatch` | `execute_run` up to `asyncio.gather` |
| `BeginCall`, `EndCall`, `SucceedStep`, `FailStep`, `RaiseStep` | `_execute_step` with the supervisor's write contract |
| `Gather`, `RetryReads`, `GiveUp`, `FailRunningSteps` | the gather and the exception handler |
| `ReconcileSiblings`, `ReadOutcome`, `WriteOutcome` | the end of `execute_run` |
| `Heartbeat`, `LeaseTimesOut`, `LeaseStalls`, `Crash` | `_heartbeat`, time, and faults |
| `BeginResume`, `RejectResume`, `ApplyResume` | `_reconcile_and_resume` |

Abstractions, all of them choices that only add behaviours or remove data that
no property tells apart:

* a step's read tools, the model's conversation, retrieval context and token
  budgets are not there; a read is a step with an empty contract;
* the provider's readback is a nondeterministic answer, except that it cannot
  confirm executions the row itself records as refused;
* a tool's arguments and results are reduced to *accepted* or *refused*;
* `calls` counts the attempts of a step that issued a tool, since one attempt
  may repeat a call inside one model response;
* database errors inside a worker's handler are modelled as a crash of that
  worker at the same place;
* one run: the queue's `SKIP LOCKED` only chooses between runs. Admission
  limits across runs and idempotency keys are left out (section 7); the routing
  of runs to executors is in `CandidateGovernance`;
* events, incidents, percentages, phases, `current_step_id` and
  `side_effect_integrity` are not state that any guard of the code reads.

### 2.2 `CodingRun` and the code

| Variables | Code |
|---|---|
| `status`, `attempts`, `plan`, `approval`, `commit` | columns of `coding_runs`; `plan` is `plan_hash`, which is also `approval_action_hash` |
| `lease`, `leaseLive` | `lease_owner` and whether `lease_expires_at` is in the future. `lease_owner` is fresh in every claim, and so is `attempt_count`, which stands for it |
| `build`, `linked`, `buildCommit` | `candidate_builds.status`, `coding_run_id`, `candidate_commit` |
| `branch`, `pulls` | GitHub: the commit at the head of a plan's branch, the plans with a pull request. Modelled from how `_publish_draft` uses it: creating a branch that exists is refused |
| `pc`, `job` | where a worker is in `process_one_coding_run`, the row its claim returned and its local variables |
| `shown`, `consented`, `recovered`, `faults` | history variables |

| Actions | Code |
|---|---|
| `CreateRun`, `DecideRun`, `CancelRun` | `create_coding_run`, `decide_coding_run`, `cancel_coding_run` |
| `LinkBuild` | the second statement of `enqueue_durable_coding_run_for_build` |
| `ExpireApproval` | the retention sweep's update of expired approvals |
| `AttestBuild`, `FailBuild`, `CancelBuild` | `attest_candidate_build`, `remediate_candidate_validation_failure`, `dispatch_retryable_candidate_builds`, as far as they touch a linked build |
| `Claim`, `Heartbeat` | `_claim`, `_heartbeat` |
| `PlanInSandbox`, `RecordPlan` | `_plan`: the sandbox call, then the transaction |
| `ExecuteInSandbox`, `CreateBranch`, `OpenPull`, `RecordPublication` | `_execute` and `_publish_draft`: a crash may come between any two of them |
| `MonitorChecks` | `_monitor_ci` |
| `Raise`, `HandleFailure` | an exception, and the handlers of `process_one_coding_run` |
| `LeaseTimesOut`, `LeaseStalls`, `Crash` | time, and faults |

Abstractions:

* an attempt that executes creates one commit, named by its attempt; the tree
  of files, the sandbox's steps and the artifacts are not there;
* checks at GitHub answer *passed*, *still to come*, or raise, at any time;
* `available_at` delays are time passing, and events, tokens, artifacts and the
  optional cache are not state that a guard of the code reads;
* a decision that comes too late is no action: the exception it raises rolls
  its own update back (see section 4), so it changes nothing;
* database errors inside a handler are a crash at the same place;
* deletion of a run and the routing by `executor_version` are left out; the
  builders that work on builds without a coding run are `CandidateBuild`.

### 2.3 `RequestAnalysis`, `RunPlanner` and the code

The code reads text with regular expressions. A `Request` is what they find: a
set of *signals* (one for each pattern), the service nouns with and without the
ones inside addresses, the channels, the number of addresses, for each service
the operations in the order of the text and the one nearest to its noun, the
client's timezone, and the two turns of the session that a statement may be read
with. Every operator after that is the code's own combination of these findings
and is named after what it decides:

| Operators | Code |
|---|---|
| `Contextual`, `ExternalWrite`, `Explicit`, `Composition`, ... | `analyze_request_statement` |
| `ContentQuestions`, `Prospective` | `analyze_content_request` |
| `Context` | `analyze_conversation_context` and its helpers |
| `RoutedIntent` | `classify_workspace_intent` |
| `Detected`, `Authority`, `Intent`, `ActionServices`, `Write`, `HighRisk`, `ClassifiedQuestions` | `classify_request` |
| `Operation`, `Operations` | `infer_operation`, `infer_operation_sequence` |
| `PolicyServices`, `RequiresApproval`, `PlanQuestions`, `PlanSteps`, `Dependencies`, `RequiredTools`, `GatedSteps` | `build_plan`, `WRITE_CONTRACTS` |
| `Valid`, `Authorized` | `validate_plan`, `_service_authorization` |
| `RunDeps`, `RunContract`, `RunGated`, `CreatedStatus` | `create_run` |
| `Refused`, `Taken`, `Combined`, `Clarified`, `ClarifiedStatus` | `_normalize_clarification_answers`, `clarify_run` |

Left out: the patterns themselves (two signals that exclude one another in text
may occur together here, which only adds requests), the arguments, titles and
objectives of steps, the values of answers, and the routing plan's prices. A
step's tools are those its contract requires.

Since a translation of so many rules is easily wrong, it was compared with the
code: signals were extracted from generated sentences by the code's own
patterns, the code and the operators were run side by side, and all of about
5000 compared decisions (services, intent, write, approval, questions,
operations, dependencies, gates, validity, the second plan) agreed. That
comparison is not part of the project; what stays are the `ASSUME`s of
`MCDurableRun` (section 3).

### 2.4 `CandidateBuild` and the code

| Variables | Code |
|---|---|
| `builds` | `candidate_builds`: status, roles, policy version, `checkpoint` (phase, role, round, tokens, finished authors, restarts), whether the staged files pass `validate_staged`, the spend, the last failure and whether a retry is due; a history field holds the verdict of the review |
| `proposal` | whether the proposal is retired, and its candidate state |
| `gens` | each generator: a GitHub job (`run_candidate_builder.py`) or a process of the embedded builder, with its local variables |
| `orphans`, `starts`, `faults` | history variables |

| Actions | Code |
|---|---|
| `Enqueue`, `DispatchRetries`, `Dispatch`, `PolicyRollover`, `RetireProposal` | the enqueuing of builds, `dispatch_retryable_candidate_builds`, the workflow dispatch, a new generation policy, a decision on the proposal |
| `Lease` | `candidate_builder_input`, which leases the build it hands out |
| `Claim` | the claim in `process_one_candidate_build` |
| `EnterRole`, `RoleStops`, `ToolTurn`, `RejectedTurn`, `LastRoundFails`, `AuthorAccepted`, `ReviewerApproves`, `ReviewerRejects` | `generate_candidate_draft` and the loop of `_groq_tool_json`, each turn with its checkpoint |
| `ProviderFailure`, `Timeout` | exceptions of a turn |
| `Submit` | `store_candidate_draft`, by callback or in the process |
| `ReportFailure`, `EmbeddedFailure` | the two failure handlers with `candidate_retry_decision` |
| `CiPasses`, `CiFails` | the attestation, and the remediation build |
| `Lose` | a killed job, or a lost report |

Abstractions: a turn costs a member of `Costs`; the files of a build are missing,
good or broken; what a tool stages is any of them; fallback to another provider
inside a turn is part of the turn.

### 2.5 `CandidateGovernance` and the code

| Variables | Code |
|---|---|
| `proposals`, `canaries`, `builds`, `bundles`, `notices` | `improvement_proposals`, `improvement_canaries`, `candidate_builds`, `okf_bundle_versions`, the queued mails that carry a draft pull request |
| `runs` | `agent_runs` assigned to a candidate: queued, resumed or parked, and on which canary |
| `publishing`, `promoting` | requests between their transactions and their calls to GitHub, with the version, hash and pull request of the row they have read |
| `pulls`, `main` | GitHub, from how `publisher.py` uses it: pull requests by the version they show, merged commits |
| `overlapped`, `disturbed`, `lost` | history variables: canary approvals that overlapped; proposals a build changed after their review; unanswered creations |

A version is a number: 0 is NULL, *-b* the draft of build *b* before it has a
commit, *b* its commit, and one more what an administrator registered by hand;
`content_hash` is the version it was computed from.

| Actions | Code |
|---|---|
| `Propose`, `LacksEvidence`, `Enqueue` | `create_or_update_proposal` for a cluster, an inadmissible incident, the queueing of a build |
| `StoreDraft`, `CodingDraft`, `PlanRejected`, `CiAttests`, `NewPolicyAttempt`, `Register` | `store_candidate_draft`, the coding worker's draft, a refused coding plan, `attest_candidate_build`, `new_policy_candidate_attempt`, `register_improvement_candidate` |
| `Reserve`, `Publish`, `AnswerIsLost`, `PublicationFails` | the reservation of a draft pull request and `publish_github_draft` |
| `DecideOkf`, `ApproveCanaries`, `RefuseCanary`, `Expire` | the reviewers' decisions, and the expiry of a proposal |
| `AttestDeployment`, `Activate`, `Passes`, `RollsBack` | the deployment workflow, `evaluate_active_canaries`, roll back |
| `AssignRun`, `Resume`, `StartRun`, `CancelRun` | `resolve_executor_assignment` and what becomes of the run |
| `ApprovePromotion`, `Merge`, `PromotionFails`, `RecordMerge`, `RefusePromotion`, `AttestProduction` | `decide_promotion` with the merge at GitHub between its two transactions, the production attestation |

Abstractions: a canary's measurements are a verdict; rollout percentages and the
hash of a user are one choice (`AssignRun`); a decision names the hash its
author saw and does nothing when that changed.

### 2.6 `SourceIndex`, `ArtifactCleanup`, `UserData` and the code

| Variables | Code |
|---|---|
| `jobs`, `syncs` | `embedding_jobs` and `rag_source_sync_jobs`: status, attempts, whether the lease runs, whether it has a `completed_at`, whether it died of the timestamp error that `requeue_timestamp_failed_jobs` looks for |
| `live` | `rag_chunks` with `deleted_at IS NULL`, by source: pairs of a position and a text |
| `credentials` | users with a row of `google_oauth_credentials` |
| `embedding`, `syncing` | each process's two loops and their local variables; `lost` is what the loop names by id and somebody has deleted: its row, or the chunks it saw |
| `artifact`, `requests`, `deciding` | `agent_artifacts`, `artifact_cleanup_requests`, requests inside `decide_artifact_cleanup` |
| `undone` | Google: what was deleted, cancelled or unshared |
| `indexed`, `disturbed`, `readmitted`, `calls` | history variables: the result with chunks that was indexed last; sources whose index is known to be torn; jobs pending again without an admission; calls of Google for a request |
| `budget` | the bound: how often users, retention, failures and faults may act |

| Actions | Code |
|---|---|
| `ToolResult`, `EnqueueItem` | `enqueue_tool_result` under its advisory lock, from an agent and from a sync |
| `Claim`, `ReadChunks`, `WriteChunks`, `Complete`, `Fail` | `embedding_worker_loop` and `index_tool_result`: the picture of the chunks, then, after the embedding, the difference to it, written by position and removed by id |
| `NothingToIndex`, `NothingChanged` | the early returns of `index_tool_result`: the chunker found nothing (ingestion.py:88), or everything is there already (ingestion.py:128) |
| `RequestSync`, `ClaimSync`, `Requeue`, `LoadCredentials`, `SaveRefreshed`, `Collect`, `CompleteSync`, `Unauthorized`, `FailSync` | `user_sync.py` |
| `JobLeaseEnds`, `SyncLeaseEnds`, `LeaseLapses`, `Restart` | time, a lease that ends under its worker, a process that stops |
| `Consent`, `Disconnect`, `DeleteUserData`, `ExpireJob`, `ExpireChunks` | OAuth, `delete_user_data`, the retention sweep |
| `RequestCleanup`, `ConfirmationExpires`, `Decide`, `RetryPopulation`, `LoadForCleanup`, `SaveForCleanup`, `CallGoogle`, `GoogleRefuses`, `NeedsAPerson`, `Finish`, `Forget` | `request_artifact_cleanup` and `decide_artifact_cleanup`, each transaction and each call |

Abstractions: the parent sections go with their chunks (one that changed alone
takes the longer path, which `ReadChunks` allows at any time); a result is of one
source: an item without chunks in a listing of several leaves its source as it
is, as a blank document does; a failed row is due again at any moment; what a
file's population is retried with is an answer that either succeeds or needs a
person. A job is named by its key, which is unique; a worker whose row
retention deletes holds an id that a new row of that key does not have (`lost`).

### 2.7 The abstract specifications

`StepLedger` has no workers, leases, crashes or resumes. A step has a budget of
executions; a start is paid from it; only an explicit grant for a step that has
run enlarges it; a gated step does not start before the authorisation.
`DurableRun` implements it under the mapping *authorised* = the approval row is
approved, *started* = `attempt_count`, *credit* = `max_attempts` plus safe
resumes minus attempts.

`GovernedPublication` has no workers either. Plans are shown; the owner consents
to at most one shown plan, for good; only a plan with consent is published.
`CodingRun` implements it under the mapping *proposed* = plans that an event
announced, *consent* = plans the owner approved, *published* = plans that have a
branch. The announcing event is written even by a worker that lost its lease,
which is why several plans may be shown while only one is ever frozen.

## 3. What the runs check

The durable runs use two workers where a second one matters; a step's number is its
position in the plan. The plans are those `RunPlanner` makes of real sentences
(see below).

| Run | Instance | Checks | What it shows |
|---|---|---|---|
| `DurableRunSafe` | the plan of "find the contact, send an email and share the file": three steps, the share after the look-up, both writes gated; batch of two, two workers, one crash, two resumes by one requester, no stall | `SingleExecutor`, `NoRepeatedWrite`, `CompletedWritesWereAccepted`, `CompletedMeansComplete`, `EndedMeansQuiet`, `DependencyOrder`, `CompletedStepsStay`, `RunSettles` | what the design promises holds as long as a lease outlives its live worker and resumes of a run do not overlap, and a run always ends |
| `DurableRunUnfenced` | the plan of "find the contact and send an email"; one stall, two overlapping resumes | `TypeOK`, `RetryBudget`, `ApprovalGate`, `ImplementsLedger` | what holds without those two assumptions |
| `CancelThenApprove` | a gated mail | `CancelledNeverRuns` | disagreement: cancel, then approve, executes |
| `ConcurrentResume` | two resume requests | `NoRepeatedWrite` | disagreement: a stale decision is applied after another retry |
| `StaleEvidence` | resolve a chat, then send | `NoRepeatedWrite` | disagreement: old executions hide an interrupted send |
| `StaleOverwrite` | one stalled lease | `CompletedStepsStay` | disagreement: the first owner overwrites the second's result |
| `HalfContract` | create a sheet, then write it | `ContractFulfilled` | disagreement: a readback completes half a contract |
| `CodingRunSafe` | two plans, two workers, three attempts, two crashes, one stalled lease | `TypeOK`, `PublishedWithConsent`, `CandidateIsTheBranch`, `AttemptBudget`, `CompletedIsFinal`, `ImplementsPublication`, `WorkAdvances` | what a coding run promises its owner survives lost leases and crashes between a commit at GitHub and its record |
| `StalledChecks` | one plan, one worker, no fault | `StalledChecksEnd` | disagreement: a run whose checks are pending is looked at once and then waits for ever |
| `CandidateBuildSafe` | the builds of one proposal: one GitHub runner and one embedded builder, two rounds for a role, a budget of four turns, three attempts of the first build and one of the second, one fault, one incident | `TypeOK`, `DraftWasReviewed`, `RecordedSpend`, `InvestigatingHasAWorker`, `RetryHasAuthority`, `FinishedStaysFinished` | cut and resumed by either runtime, a build stays reviewed, within its budget, and on somebody's list |
| `CandidateGovernanceSafe` | two proposals that exchange roles, one run, one bundle, two builds, two canaries and two pull requests in all | `TypeOK`, `CanariesWereValidated`, `ActiveIsDeployed`, `OneCodeCanary`, `MainIsGoverned`, `NeverStartedRunsReturn`, `OnePullRequest`, `KnowledgeIsReleased`, `ClosedStaysClosed` | the staged approvals hold across late drafts, lost answers and second candidates; the exceptions are named (`disturbed`, `overlapped`, `lost`) and are findings of section 4 |
| `UserDataSafe` | two processes, two users with a source each, caps of one and two jobs, two attempts; a long version of each, and a short or a blank one; a sum of ten small instances | `DataTypeOK`, `IndexIsOneResult`, `AdmissionHolds`, `ActsOnce`, `IsOnRecord`, `WorkSettles` | the queues drain, the index mends itself, and a cleanup acts at most once and is recorded as it was, while users leave, leases lapse and processes restart |

**The plans, and the planner's own checks.** `MCDurableRun` gives five sentences
as requests and asserts (`ASSUME`, evaluated by every run of it) that they are
valid, ask nothing, and become exactly the plans the runs above instantiate:
among them that "send the same mail to B without asking" runs ungated, and that
"list my chat spaces" plans a message (section 4). On variations of
the sentences, with turns of a session, unnamed services and no timezone, it checks
what section 5 proves of every request, and what is not proved: whoever answers
every question, where all have typed answers, is asked at
most twice, and the second round may ask for a timezone the client had sent.

**Why the bounds are enough.** The plan of `DurableRunSafe` has what plans can
combine: two steps that are claimed as one batch, a dependent one, a read and
both kinds of write, gated and (the read) not. The crash may come anywhere, the
recovery's owner included; two resumes let a resumed step fail again.
`MaxAttempts` is the code's (3 for a
read, 1 for a write) there, and 2 for the read elsewhere. The contracts of two
tools live in their own runs because their interleavings with crashes are
independent of the plan's shape. The proofs of section 5 hold for every value of
these bounds. `CodingRunSafe` needs a second plan, so that a planner that was
superseded may show or approve a different one, and a second worker, so that
the first may still be publishing when its lease is recovered; two crashes and a
stall let a recovered attempt be interrupted too, and three attempts, the code's
default, leave room for a retry after each.

`CandidateBuildSafe` has one generator of each runtime, since their guards
differ and each meets the other's leases; two rounds are the least with a round
that is not the last one; a budget of four turns runs out in the middle of a
remediation; a third attempt follows a resumed one. In `CandidateGovernanceSafe`
two builds let one proposal meet a second candidate, or two proposals compete
for the runtime; two canaries let a roll back be followed by a new one; two pull
requests let an unanswered creation be repeated. In `UserDataSafe` the bounds of
one instance would multiply, so a state's `budget` is one of ten, each with a
different thing in plenty and the others scarce: jobs that fail and lose their
worker, retention, an account whose data go and come back, a completed job that
fails late, a sync beside jobs, a sync beside a deletion, failing and
restarted syncs, cleanups beside a deletion, cleanups that are cut short. Two
versions of a source that differ in length and in text show a torn index, a
blank one is never compared with what is there; caps of one and two make two
requests race for the last place.

The coverage of the passing runs is complete: every action and every
disjunct fires.

**`CHECK_DEADLOCK FALSE`** is right here: a run that has settled has nothing
left to do until somebody resumes it, and resumes are bounded; a coding
run that has ended, or waits for its owner, does nothing either; a build that is
validated, a proposal that is published and a queue that is empty wait for the
next incident, reviewer or tool result.

**The assumption of `DurableRunSafe`.** Nothing in the code fences a worker that
lost its lease: `_execute_step` and the final updates name rows by id alone
(worker.py:1765, 1887, 1907, 1991), and a resume re-checks only the step's
status. The safety properties therefore need *MaxStalls = 0* (a live worker's
heartbeat always gets through) and one requester. That is an assumption about
the deployment, not something the code establishes. The theorems of
`DurableRunExecutionProofs` name the same two as their hypotheses, `LeasesHold`
and `OneResumer`, and `NoRepeatedWrite` needs a third, `UniformContracts`: no
contract mixes tools that may be repeated with tools that may not, as the
contracts of the run's plan do not. None of the three can be dropped:
`StaleOverwrite`, `ConcurrentResume` and `StaleEvidence` each negate one and
find the property violated.

**Fairness.** `WF(WorkerStep(w))`: `worker_loop` polls for ever, and every tool
call has a time-out, so a loop with something to do does it. `WF(LeaseTimesOut)`:
time passes. Users, crashes, stalls and heartbeats are never obliged to act.
The coding worker is alike: `coding_worker_loop` polls, catches what a pass
raises, and bounds its sandbox and GitHub calls; neither the owner, nor
retention, nor trusted CI has to act for `WorkAdvances`. One thing the fairness takes for granted: `claim_run` does not raise. An
exception there ends the loop's task (worker.py:2052) until the process is
restarted.

`UserDataSafe` assumes that some embedding loop and some sync loop goes on while
it can (both poll for ever and their calls to Google and to the embedder return
or raise), and that a lease whose worker is gone ends. Users, requeues and
restarts are never obliged to act. `WorkSettles` says that then, from every
state, all jobs and syncs are worked off. A late failure may end one of the two
sync loops there (section 4), and the other one goes on. The builder and the governance runs state no liveness: a build
whose failure report is lost, and a proposal nobody decides, wait for ever.

## 4. Disagreements between the code and its documentation

The six `violation` runs are listed under `findings` with the sentence they
contradict. What follows was met while modelling and has no run of its own. Some
of it is visible in the models' actions; where a property had to be weakened for
it, the history variable that names the exception is given.

**Durable runs** (`app/runs/`), by traces of the same model that differ only in
the statement involved:

* the final updates of a worker overwrite a cancellation (worker.py:1887, 1907,
  1991), and the retry branch of the handler queues a run that was cancelled
  meanwhile (worker.py:1954);
* a run that fails before it claims a step, for missing credentials, keeps all
  its steps pending, and no request can resume it, since a resume needs a failed
  step (`app/api/routes/runs.py:187-195`);
* after a stall, a worker of a durable run can finalize a run as completed from steps it read
  before another worker changed them (worker.py:1866-1907);
* retention soft-deletes runs that wait for a clarification (`retention.py:20`);
  an approval that expires leaves its run waiting (`repository.py:774`); the
  global cap is counted under a lock per user (`repository.py:349`).

**The planner**, each confirmed by running it on the sentence:

* "list my chat spaces" plans an ungated `chat.send` (planner.py:124, 216), and
  "check my calendar and reschedule the meeting" an ungated update, although
  `docs/ARCHITECTURE.md:25` says "High-risk writes pause in
  awaiting_approval";
* questions that have no typed answer (outcome, content, link, conversation,
  passages, gloss) can be answered by nothing: `clarify_run` plans the immutable
  request again (planner.py:806-815, content_policy.py:152,
  repository.py:492-509). This is theorem `UntypedQuestionsStay`;
* that second planning has neither the client's timezone nor the session, and
  is not validated (repository.py:492-509); a date answered before the timezone
  is stored unread and asked for again (repository.py:114-126);
* a plan of reads alone may need an approval, for nothing: hence `NeedsApproval`
  beside `Gated` in `DurableRun`;
* `validate_plan` raises `KeyError` for a dependency it does not know
  (planner.py:1335).

**Coding runs** (`app/coding/`):

* the linked build is written without the fence that protects the run's row
  (`RecordPublication`, `HandleFailure`): a worker that lost its lease leaves a
  cancelled or failed run with a drafted build, and `AttestBuild` then completes
  that run by its id;
* a worker that dies after `CreateBranch` leaves a branch that the next attempt
  meets as `publication_conflict`: the run fails although its draft was
  published, and the pull request stays behind;
* a linked run that is `published` waits for trusted CI alone: when the
  attestation fails, `FailBuild` touches the build and the run stays published;
* a decision after the deadline raises inside its transaction, so the *expired*
  status it writes is undone, and the run waits until retention blocks it;
* the run and its link to the build are committed one after the other, and in
  between the older builder may claim the build, unlike what
  `docs/CODING_AGENT_ARCHITECTURE.md:178-180` says.

**Candidate builds** (`app/improvements/`, `app/api/routes/admin.py`):

* a second runner's refused lease reports a failure that requeues or fails the
  build of the first (admin.py:434, 511);
* the failure handler of an embedded builder takes back a build that was
  cancelled, drafted or validated meanwhile (builder.py:2109; the exception in
  `FinishedStaysFinished`);
* a lost failure report leaves a build `investigating` for ever
  (run_candidate_builder.py:130; `orphans`);
* after a remediation the reviewer may resume the conversation of its earlier
  review (builder.py:1657), and may approve files that do not validate;
* the lease cancels the build of a retired proposal in the transaction that its
  own exception rolls back (admin.py:440), and a draft is accepted for a
  retired proposal;
* preflight and structural retries repeat without spending, provider retries
  have no limit, the chain of remediations has none, and the embedded builder
  takes the oldest failing build again at once, ahead of all others
  (builder.py:2050); the clone made for a remediation is never dispatched;
* tools allow 60 calls and reads beyond 120 000 bytes, checkpoints 30 and
  120 000: an attempt past those can no longer be saved.

**Candidate governance**:

* a published code proposal's canary stays *passed* and, like the pending canary
  of an expired proposal, counts as the one occupant of the runtime: no later
  code candidate can be approved (admin.py:1270, 1587; `docs/OPERATIONS.md:69-72`);
* two overlapping approvals of different canaries both succeed (`overlapped`);
* a second build's draft or attestation changes the version under a canary, an
  inadmissible incident sets a validated candidate back to a diagnosis
  (failure_intelligence.py:560-566), a new policy attempt too (`disturbed`);
* a draft pull request published by the coding worker has no number on record:
  its promotion always fails (publisher.py:270). A merge whose record is lost to
  a crash is stuck; a reservation left *queued* is never retried; an unanswered
  creation leaves a pull request nobody knows (`lost`);
* a re-staged bundle keeps its rejected status, and one changed after its
  approval is activated without another;
* retiring a proposal rolls back only its latest started canary, and runs that
  wait for their user stay pinned to it (what `NeverStartedRunsReturn` leaves
  out); a refused coding plan overwrites any status of a proposal;
* canaries are created with the control version "current", which no worker that
  declares a version claims (admin.py:1654, worker.py:83), and unfinished runs
  count in their judgement (analyzer.py:361);
* `store_candidate_draft` replaces the manifest and loses `theme_id`
  (`docs/OPERATIONS.md:59-60`); incidents of a resolved cluster attach to the
  published proposal (failure_intelligence.py:456).

**Jobs, index, credentials, retention**:

* two workers may leave an index that mixes two results (ingestion.py:91-160);
  an older job that is retried overwrites a newer result (both: `disturbed`);
  a content that returns to an earlier version is deduplicated by the completed
  job of that version and the index stays at the one between (jobs.py:49);
* a result without chunks is never compared with what is indexed
  (ingestion.py:88, against `docs/COMPLETION_AUDIT_2026-07-20.md:92`: *ingestion
  incrementally hashes and tombstones both levels*): its job completes, and what
  the document, sheet or file said before stays searchable, also when only the
  export failed (user_sync.py:70-73). The action is `NothingToIndex`, and
  `IndexIsOneResult` is therefore about the last result *with* chunks;
* a worker that lost its row and then fails reopens a completed job (jobs.py:95;
  `readmitted`); the same failure of a sync meets the unique index inside the
  handler and ends the loop (user_sync.py:264, migration 014:41; the `Ended`
  loops of the model), and a requeue exceeds the caps (user_sync.py:158);
* a sync completes although the caps refused its items; reclaiming has no limit
  of attempts (jobs.py:60);
* a refresh of credentials in flight inserts them again after a disconnect
  (oauth_credentials.py:91, against `docs/PRIVACY_AND_LEARNING.md:6`); the
  deletion of an account leaves its jobs and parent sections (retention.py:56);
  dead letters that never completed are never deleted
  (`docs/PRIVACY_AND_LEARNING.md:3` says 14 days), while a job that did, and was
  made pending again, goes by its first `completed_at` (retention.py:16); chunks that did not change for 90 days go although their source was
  synced again (retention.py:18).

**Artifact cleanup** (runs.py):

* the expiry's *rejected* is rolled back by the exception that reports it
  (678-683); a crash while *executing* blocks further requests for ever; a hash
  names the action but not the row; *manual_required* is computed and never
  stored (709);
* *preserve* after a deletion shows an artifact as retained that is in the bin,
  and a cleanup whose answer was lost is recorded as failed though it happened.
  `IsOnRecord` is what remains true of the record.

## 5. What is proved

TLAPS checks the theorems below for every plan, every number of workers,
processes, generators, requesters, users and proposals, and every bound on
faults and retries. Every invariant and every action property that a passing
run checks is one of them. What they assume of the constants are the named
`ASSUME`s of the modules, which TLC evaluates on every run:

* `DurableRun`: steps are a finite set of numbers, a dependency precedes the
  step that names it, contracts list a tool once, only steps with a contract are
  gated, workers are finite, bounds are naturals;
* `CodingRun`: a missing plan is no plan, bounds are naturals;
* `CandidateBuild`: a runner is not an embedded builder; the budget is positive,
  turns cost a positive bounded number of tokens, limits are naturals;
* `CandidateGovernance`: a missing bundle is neither a bundle nor a proposal,
  proposals are finite, bounds are naturals;
* `SourceIndex`: a source belongs to a user, the jobs that may have died of an
  earlier release's timestamp error are finite, a result has one chunk at a
  position (the chunker numbers them) or none at all, limits are naturals;
  `UserData`: the artifact's owner is a user.

`RunPlannerProofs` assumes nothing. Where a theorem needs more, its statement
says so as a hypothesis.

About `RunPlanner`, for every request:

| Theorem | States |
|---|---|
| `DependenciesComeFirst` | steps are numbered 1, 2, ... and depend on smaller numbers only |
| `GatedStepsAreWrites` | in a valid plan, a gated step has a write contract, and the run asks for an approval |
| `WritesAreAuthorized` | a write in a valid plan has the word of the current statement, or is the one an explicit reference resolves to |
| `UntypedQuestionsStay` | outside a continued conversation, a question without a typed answer is asked again whatever is answered: the defect of section 4, as a theorem |
| `TypedQuestionsSettle` | outside a continued conversation, whoever answers all that is asked, twice, is asked nothing more if every question was a typed one |

The first two discharge, for the plans the planner makes, what the theorems
about `DurableRun` assume of a plan; that a contract lists a tool once is checked
by `ASSUME`s only. **The argument.** `Before` is shown to be the strict
total order of a number (`BeforeIsRank`), so that counting predecessors numbers
the finite set of steps without gaps (`NumberGrows`, `StepOfNumber`), and
dependencies, which are defined by `Before`, come earlier. For the questions,
`ClarifiedForgets` says what the second planning has lost, `ClarifiedReadsTheSame`
that nothing in the wording is among it, and `UntypedQuestionsAgree` that
untyped questions depend on the wording alone.

About `DurableRun`, with no assumption on leases or resumes:

| Theorem | States |
|---|---|
| `TypesHold` | `Spec => []TypeOK` |
| `RetriesArePaid` | `Spec => []RetryBudget` |
| `WritesAreApproved` | `Spec => []ApprovalGate` |
| `RunImplementsLedger` | `Spec => ImplementsLedger` |

**The argument.** `TypeOK` is strengthened to `TypeInv`: a worker's verdict is
what its location writes next, and a task is only *calling* while a tool of the
contract is missing. `RunInv` adds three invariants.

* `StartInv`: until the user has asked for the run and approved it if need be,
  nothing has started and the run is neither queued nor running. `ApprovalGate`
  alone is not inductive, since `clarify_run` makes gated steps pending before
  the approval.
* `AttemptInv`: a pending step has an attempt to spare. This is why three
  different ways back to pending (handler, recovery, resume) share one budget.
* `CallInv`: the calls of a tool plus the workers that still *owe* it
  (`Owing`, counted as a cardinality) never exceed the attempts. Without the
  owing workers, two unfenced executors of one step could seem to call more
  often than the step was started.

The refinement then maps `_claim_step` to `Start`, a safe resume to `Grant`,
the approval to `Authorise`, and everything else to a stutter.

About `DurableRun`, if `LeasesHold` (no live lease runs out under its worker)
and `OneResumer` (one request at a time resumes the run); see section 3 for why,
and for the runs that violate the properties without them:

| Theorem | States |
|---|---|
| `OneExecutor` | `Spec => []SingleExecutor` |
| `EndedRunsAreQuiet` | `Spec => []EndedMeansQuiet` |
| `DependenciesComeFirst` | `Spec => []DependencyOrder` |
| `CompletionIsHonest` | `Spec => []CompletedMeansComplete` |
| `CompletedWritesAreBacked` | `Spec => []CompletedWritesWereAccepted` |
| `CompletionIsFinal` | `Spec => CompletedStepsStay` |
| `WritesAreNotRepeated` | `Spec => []NoRepeatedWrite`, if moreover `UniformContracts` |

**The argument.** `ExecutionInv` adds four layers to `RunInv`, each inductive
relative to those below it.

* `LeaseInv`: a worker that is not idle holds the live lease, or the run was
  cancelled under it; while a resume is between its two transactions the run
  has ended. The exception matters: `SingleExecutor` has to survive a
  cancellation that leaves a worker at work on a run nobody else may claim.
* `BatchInv`: the running steps are those of the one executor's batch whose
  coroutines have not ended, and nothing runs outside a batch. From it and
  `LeaseInv` follows how a step's status may move (`StepMoves`), which is
  `CompletedStepsStay`, and on which `OrderInv` rests.
* `OrderInv`: a running or completed step has completed dependencies, and a
  worker about to write *completed* has completed steps still.
* `AcceptInv`: a coroutine that goes on saw no refusal; a resume that will
  complete a step has read it back.

`NoRepeatedWrite` needs `IssuedInv`: once a tool that may not be repeated was
called, its step is out of reach of every retry, because the call is in flight
or because the row's category or the step's `agent_tool_attempts` make the
reconciliation see that something may have happened. With a contract that mixes
the two kinds of tools that is false, since an explicit failure of the
idempotent one hides the call of the other: this is the run `StaleEvidence`.

About `CodingRun`, with no assumption on leases:

| Theorem | States |
|---|---|
| `TypesHold` | `Spec => []TypeOK` |
| `PublicationNeedsConsent` | `Spec => []PublishedWithConsent` |
| `RecordsTellTheBranch` | `Spec => []CandidateIsTheBranch` |
| `AttemptsAreBounded` | `Spec => []AttemptBudget` |
| `CompletionIsFinal` | `Spec => CompletedIsFinal` |
| `RunImplementsPublication` | `Spec => ImplementsPublication` |

**The argument.** None of these is inductive. `CodingInv` is the conjunction of

* `LeaseInv`: a lease belongs to the last attempt and to a leased status; the
  worker that owns it is in the phase the status says; two workers never share
  an attempt. This is what makes a fenced update sound: whoever passes the
  fence is the one worker the row is about.
* `JobInv`: what a worker carries at each location; an executing worker has the
  frozen plan, which nobody replaces once it was approved.
* `ConsentInv`: at most one consent, to the frozen plan, and an executing
  status only after it.
* `BranchInv`: a branch carries a commit of an attempt already made; a worker
  between `CreateBranch` and its record is the author of the branch's head, so
  the commit it records, fenced or not, is what GitHub shows.
* `BudgetInv`: the attempt bound of each status (planning, executing,
  watching), which `AttemptBudget` alone would forget.

The refinement maps `RecordPlan` to `Propose`, an approval to `Consent`,
`CreateBranch` to `Publish`, and everything else to a stutter.

About `CandidateBuild`, for any number of generators of both runtimes:

| Theorem | States |
|---|---|
| `BuildTypes` | `Spec => []TypeOK` |
| `DraftsAreReviewed` | `Spec => []DraftWasReviewed` |
| `SpendingIsBounded` | `Spec => []RecordedSpend` |
| `InvestigationsAreManned` | `Spec => []InvestigatingHasAWorker` |
| `RetriesHaveAuthority` | `Spec => []RetryHasAuthority` |
| `FinishedBuildsStay` | `Spec => FinishedStaysFinished` |

**The argument.** `BuildInv` relates what is in a row to what the generators at
work carry in memory. `WorkInv` and `RoleInv`: a generator that is not idle has
a build, and takes its turns in a role. `SpendInv`: the tokens in a row, in its
checkpoint and in memory are all below the budget plus one turn; all three are
needed, since each is restored from another after an interruption. `SubmitInv`:
a draft on its way to be stored carries the verdict its build needs, which
`DraftWasReviewed` alone would learn too late. `RowInv`: ids are given without
a gap. The proof has two halves, lemma by lemma: how each action may move the
rows and the generators (`RowMoves`, `WorkMoves`), and that such moves keep
the invariant (`MovesKeepInv`).

About `CandidateGovernance`, for any finite number of proposals:

| Theorem | States |
|---|---|
| `GovernanceHolds` | `Spec => []GovernanceInv`, the inductive invariant |
| `GovernanceTypes` | `Spec => []TypeOK` |
| `CanariesAreValidated` | `Spec => []CanariesWereValidated` |
| `ActiveCanariesAreDeployed` | `Spec => []ActiveIsDeployed` |
| `CodeCanariesAreAlone` | `Spec => []OneCodeCanary` |
| `MergesAreGoverned` | `Spec => []MainIsGoverned` |
| `QueuedRunsHaveExecutors` | `Spec => []NeverStartedRunsReturn` |
| `PullRequestsAreUnique` | `Spec => []OnePullRequest` |
| `KnowledgeIsGoverned` | `Spec => KnowledgeIsReleased` |
| `ClosedProposalsStay` | `Spec => ClosedStaysClosed` |

**The argument.** The properties compare what several tables and GitHub say, so
`GovernanceInv` ties these together.

* `TrustInv`, `VersionInv`, `HashInv`: a validation CI reported is of the version
  it stands beside; a commit that a proposal or a promotion names is that of a
  draft; and a draft whose hash was ever to be published, or is being promoted
  with the row that the first transaction froze, is a candidate only as CI
  attested it. The last one is what makes *the hash that was promoted* and
  *the commit that is merged* the same build: without it the coding worker's
  drafts, which have a commit before CI saw them, would break
  `MainIsGoverned`.
* `StartInv` and `JourneyInv`: canaries of a proposal start one after the other,
  and as long as no build disturbs a proposal, its status says which canary it
  has (`Canaried`) and what may be promoted and merged (`Promoted`).
* `CommitInv`, `MergeInv`, `PullInv`: what is in main is validated under its
  hash, a recorded merge is in main, and a notice stands for the one pull
  request or its publication.

Each conjunct has a lemma that takes a step and says it is kept; they share
lemmas about what a step may do to the tables (`BuildersStep`, `BuildsStep`,
`CanariesStep`, `CandidatesStep`, `MainMoves`), so that few of them look at
all the actions. TLC checked `GovernanceInv` on the instance of
`CandidateGovernanceSafe` before the proof. The bundle's release
(`KnowledgeIsReleased`) rests on a guard of `attest_production` that is easily
overlooked, `production_merge` (admin.py:1248): with three builds, one more than
the run has, a disturbed proposal whose manifest was replaced would reach
production without a merge if it were not there.

About `UserData`, and so about `SourceIndex` and `ArtifactCleanup` in it:

| Theorem | States |
|---|---|
| `DataTypes` | `DataSpec => []DataTypeOK` |
| `IndexedAsRead` | `DataSpec => []IndexIsOneResult` |
| `CapsAreKept` | `DataSpec => []AdmissionHolds` |
| `CleanupsActOnce` | `DataSpec => []ActsOnce` |
| `CleanupsAreOnRecord` | `DataSpec => []IsOnRecord` |

**The argument.** Four invariants, one on the other.

* `TypeInv`: the types, and that a sync loop's row is there, since these rows are
  never deleted.
* `ChunkInv`: `IndexIsOneResult` is inductive once a source has one live chunk at
  a position (`PositionInv`), stale picture or not: then a difference to the
  right picture leaves exactly the new result (`RewrittenIsTheResult`), and no
  difference means that it was there (`UnchangedIsTheResult`). A picture is right
  if it equals the live chunks and their rows have not been deleted since; a
  result without chunks leaves both sides as they were.
* `CapsInv`: only admissions make jobs pending that nobody made pending again
  (`OthersAdmitNone`), and an admission counts a finite table under its lock.
* `CleanupInv`: a decision owns its request (`OwnsRequest`): it is executing, no
  other process decides it, and Google has not been called for it before the
  decision's own call. `ActsOnce` alone says nothing of the process that is
  about to call. `RequestInv` keeps the record, the calls and what was undone
  together until the account goes.

**Only model-checked.** Liveness (`RunSettles`, `WorkAdvances`, `WorkSettles`)
is out of the prover's reach, since its steps under fairness speak of `ENABLED`.
The violation runs are counterexamples and need no proof. That the planner's
questions end for the requests of `MCDurableRun`, and that a contract lists
a tool once, is evaluated by `ASSUME`s of that module. The bounds of the models
on faults, incidents, canaries and pull requests are constants of the theorems
too. A violation of a safety property takes finitely many of them, so that, with
the theorems holding for every value, the bounds cut nothing off.

## 6. Plan

Done: the planner; the durable run with its requests, resumes and ledger; the
coding run with its publication; the candidate builds of both runtimes; the
governance of candidates from proposal to production; jobs, syncs, index,
retention, deletion and cleanups; and, for each of them, the proofs of what its
passing run checks, liveness apart. Next, in order:

1. `RunAdmission` (`create_run` across users): idempotency keys, per-user and
   global caps of active runs, whose lock is per user.
2. The composition of `CandidateBuild` with `CodingRun` over one
   `candidate_builds` row: today each has its own view of the other's writes.
3. An abstract specification of governance (what reaches users and main, and by
   whose word) that `CandidateGovernance` refines for undisturbed proposals.

## 7. Not modelled

* **The regular expressions of the planner**, the arguments of tools, prompts
  and answers: text. The rules over what they find are modelled.
* **Typed execution inside a tool** and the vector side of retrieval: numeric
  and sequential, with tests of their own, no shared state.
* **Admission of runs** (caps, idempotency keys): planned, see section 6.
* **The Rust coding runtime**: a sequential policy checker over a workspace that
  one process owns; `CodingRun` models its calls by their outcomes.
* **Authentication, feature flags, the web and mobile clients**: request scoped,
  or without durable state. Credentials are modelled where jobs and cleanups
  use them.
* **Analytics of failures** (`app/mlops/`, clustering and themes): best effort;
  what they do to a proposal is in `CandidateGovernance`.
