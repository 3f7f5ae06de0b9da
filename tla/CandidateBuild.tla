----------------------------- MODULE CandidateBuild -----------------------------
(***************************************************************************)
(* The candidate builds of one improvement proposal (the legacy runtime,   *)
(* with which the settings start): the rows of candidate_builds and        *)
(* candidate_build_files, the generators that work on them, which are      *)
(* GitHub runners (scripts/run_candidate_builder.py, through the callbacks *)
(* of app/api/routes/admin.py) and the embedded builder                    *)
(* (process_one_candidate_build), the retry authority of                   *)
(* app/improvements/retry.py, and trusted CI.                              *)
(*                                                                         *)
(* A generator plays roles: an author, the reviewer when the build has two *)
(* roles, and once an author who answers the reviewer.  A role is a bounded*)
(* loop of model turns; every turn but the last ends in a checkpoint.      *)
(* An action is one transaction, or one model turn with the checkpoint     *)
(* that follows it.                                                        *)
(***************************************************************************)
EXTENDS Integers, Sequences, FiniteSets

CONSTANTS
    Runners,        \* GitHub jobs that may run at a time
    Embedded,       \* processes of the embedded builder
    MaxRounds,      \* role -> BUILDER_AUTHOR_MAX_ROUNDS or ..REVIEWER..
    RoleLimit,      \* role -> BUILDER_*_ROLE_TOKEN_LIMIT
    FinalRounds,    \* the last rounds of a role, in which it must finish
    HardFileRound,  \* BUILDER_AUTHOR_HARD_FILE_ROUND
    Reserve,        \* tokens kept for the final answer
    Budget,         \* effective_builder_token_budget
    Costs,          \* what one model turn may cost
    MaxFaults,      \* bound: deployments of a new policy, retirements of the
                    \* proposal, and generators or reports lost
    MaxIncidents,   \* bound: builds enqueued for incidents
    MaxStarts       \* bound: the attempts that begin on each build, and so
                    \* the builds that may come to exist

Builds     == 1 .. Len(MaxStarts)   \* in the order of created_at
Generators == Runners \cup Embedded
Authors    == {"author", "remediation"}
Roles      == Authors \cup {"reviewer"}

ASSUME GeneratorsAssumption == Runners \cap Embedded = {}

ASSUME BudgetAssumption ==
    /\ Budget \in Nat \ {0}
    /\ Costs \subseteq Nat \ {0} /\ \E c \in Costs : \A d \in Costs : d <= c
    /\ MaxRounds \in [Roles -> Nat \ {0}]
    /\ RoleLimit \in [Roles -> Nat \ {0}]
    /\ {FinalRounds, HardFileRound, Reserve, MaxFaults, MaxIncidents} \subseteq Nat
    /\ MaxStarts \in Seq(Nat) /\ MaxStarts # <<>>

VARIABLES
    builds,         \* candidate_builds, with the files of each build
    proposal,       \* the proposal's state, as far as builds look at it
    gens,           \* where each generator is, and its local variables
    orphans,        \* history variable: builds whose generator was lost, or
                    \* whose failure report was
    starts,         \* history variable: the attempts of each build so far
    faults          \* history variable: what MaxFaults bounds

ghostVars == <<orphans, starts, faults>>
vars == <<builds, proposal, gens, ghostVars>>

Statuses  == {"absent", "queued", "investigating", "drafted", "validated",
              "failed", "cancelled"}
Classes   == {"none", "provider", "terminal", "budget", "files", "other"}
Verdicts  == {"none", "approved", "rejected"}

(* Staged files; validate_staged rejects those that are broken.            *)
Files == {"none", "good", "broken"}

(* checkpoint->'generation_checkpoint'                                     *)
Checkpoint ==
    [phase : {"none", "role", "author"}, role : Roles \cup {"none"},
     round : Nat, roleTokens : Nat, done : SUBSET Authors,
     restarts : Nat, errs : BOOLEAN, tokens : Nat]

NoCheckpoint == [phase |-> "none", role |-> "none", round |-> 0, roleTokens |-> 0,
                 done |-> {}, restarts |-> 0, errs |-> FALSE, tokens |-> 0]

(* Where a role stands when an attempt resumes it.                         *)
Progress ==
    [role : Roles \cup {"none"}, round : Nat, roleTokens : Nat,
     restarts : Nat, errs : BOOLEAN]

Fresh == [role |-> "none", round |-> 0, roleTokens |-> 0, restarts |-> 0, errs |-> FALSE]

(* An exception, as error_type and runner_retryable describe it.           *)
Failure   == [class : Classes, retryable : BOOLEAN]
NoFailure == [class |-> "none", retryable |-> FALSE]

Build ==
    [status : Statuses, multi : BOOLEAN, ci : BOOLEAN, current : BOOLEAN,
     ckpt : Checkpoint, files : Files, tokens : Nat, commit : BOOLEAN,
     failure : Failure,             \* last_runner_failure
     due : BOOLEAN,                 \* last_runner_failure.retryable
     compacted : BOOLEAN,           \* its retry_reason is compact_role_restart
     verdict : Verdicts]            \* history: the review the draft had

NoBuild ==
    [status |-> "absent", multi |-> FALSE, ci |-> FALSE, current |-> TRUE,
     ckpt |-> NoCheckpoint, files |-> "none", tokens |-> 0, commit |-> FALSE,
     failure |-> NoFailure, due |-> FALSE, compacted |-> FALSE, verdict |-> "none"]

Generator ==
    [pc : {"idle", "starting", "entering", "turn", "submitting", "failing"},
     build : Builds, resume : Progress, role : Roles \cup {"none"},
     round : Nat, roleTokens : Nat, spent : Nat, staged : Files,
     done : SUBSET Authors, remediate : BOOLEAN,
     errs : BOOLEAN, restarts : Nat, verdict : Verdicts,
     saved : BOOLEAN, failure : Failure]

Idle(b) ==
    [pc |-> "idle", build |-> b, resume |-> Fresh, role |-> "none",
     round |-> 0, roleTokens |-> 0, spent |-> 0, staged |-> "none",
     done |-> {}, remediate |-> FALSE, errs |-> FALSE, restarts |-> 0,
     verdict |-> "none", saved |-> FALSE, failure |-> NoFailure]

TypeOK ==
    /\ builds \in [Builds -> Build]
    /\ proposal \in [retired : BOOLEAN, candidate : {"diagnosis", "draft", "validated"}]
    /\ gens \in [Generators -> Generator]
    /\ orphans \subseteq Builds
    /\ starts \in [Builds -> Nat]
    /\ faults \in Nat

Init ==
    /\ builds = [b \in Builds |-> NoBuild]
    /\ proposal = [retired |-> FALSE, candidate |-> "diagnosis"]
    /\ gens = [g \in Generators |-> Idle(1)]
    /\ orphans = {}
    /\ starts = [b \in Builds |-> 0]
    /\ faults = 0

BuildOf(g)      == builds[gens[g].build]
Rest(g)         == gens' = [gens EXCEPT ![g] = Idle(1)]
Become(g, next) == gens' = [gens EXCEPT ![g] = next]

(* The generation raised f: where the handler of the exception begins.     *)
Failing(gen, f) == [Idle(gen.build) EXCEPT !.pc = "failing", !.failure = f]

Fault(class, retryable) == [class |-> class, retryable |-> retryable]

(* An exception that is no CandidateBuilderFailure: the runner finds it    *)
(* retryable only if it is the provider's or the network's, the embedded   *)
(* builder always.                                                         *)
Unclassified(g) == Fault("other", g \in Embedded)

-------------------------------------------------------------------------------
(* candidate_retry_decision                                                *)

(* A phase and a role to resume from; rounds that are left are part of it. *)
ValidCheckpoint(bd) ==
    \/ bd.ckpt.phase = "author" /\ bd.files # "none"
    \/ bd.ckpt.phase = "role" /\ bd.ckpt.role # "none"

RoundsLeft(ck) ==
    ck.phase = "role" => ck.round < MaxRounds[ck.role]

ProviderRetry(f) == f.class = "provider" /\ f.retryable

(* Mutant: the budget is the business of the generator alone.              *)
ResumableAnyBudget(bd) == ValidCheckpoint(bd) /\ RoundsLeft(bd.ckpt)

Resumable(bd) ==
    /\ ValidCheckpoint(bd)
    /\ RoundsLeft(bd.ckpt)
    /\ bd.tokens < Budget

CompactRestart(bd, f) ==
    /\ ~ProviderRetry(f)
    /\ Resumable(bd)
    /\ f.class = "budget" /\ f.retryable
    /\ bd.ckpt.restarts < 1 /\ ~bd.compacted

StructuralRetry(bd, f) ==
    /\ Resumable(bd)
    /\ f.class \notin {"budget", "terminal"}
    /\ f.class = "files" => bd.files # "none"

RetryDecision(bd, f) ==
    /\ ~bd.commit
    /\ f.class # "terminal"
    /\ ProviderRetry(f) \/ CompactRestart(bd, f) \/ StructuralRetry(bd, f)

(* compact_role_restart_checkpoint                                         *)
Compacted(ck) ==
    [ck EXCEPT !.phase = "role", !.round = 0, !.roleTokens = 0,
               !.restarts = @ + 1]

(* What both failure handlers write.                                       *)
AfterFailure(bd, f) ==
    LET compact  == ~bd.commit /\ CompactRestart(bd, f)
        eligible == RetryDecision(bd, f)
    IN  [bd EXCEPT !.status = IF eligible THEN "queued" ELSE "failed",
                   !.failure = f, !.due = eligible, !.compacted = compact,
                   !.ckpt = IF compact THEN Compacted(@) ELSE @]

-------------------------------------------------------------------------------
(* The rows: app/improvements/failure_intelligence.py, analyzer.py and     *)
(* app/api/routes/admin.py.                                                *)

(* The id that an INSERT gives.                                            *)
Rows     == {b \in Builds : builds[b].status # "absent"}
IsNew(b) == b = Cardinality(Rows) + 1

(* enqueue_candidate_build, for each incident that is given this proposal. *)
Enqueue(b) ==
    /\ IsNew(b) /\ b <= MaxIncidents
    /\ ~proposal.retired
    /\ \E multi \in BOOLEAN :
          builds' = [builds EXCEPT ![b].status = "queued", ![b].multi = multi]
    /\ UNCHANGED <<proposal, gens, ghostVars>>

Disturb == faults < MaxFaults /\ faults' = faults + 1

(* A deployment changes the builder's policy version.                      *)
PolicyRollover ==
    /\ \E b \in Rows : builds[b].current
    /\ builds' = [b \in Builds |->
          IF b \in Rows THEN [builds[b] EXCEPT !.current = FALSE] ELSE builds[b]]
    /\ Disturb
    /\ UNCHANGED <<proposal, gens, orphans, starts>>

(* A reviewer rejects the proposal, or it expires or is rolled back.       *)
RetireProposal ==
    /\ ~proposal.retired
    /\ proposal' = [proposal EXCEPT !.retired = TRUE]
    /\ Disturb
    /\ UNCHANGED <<builds, gens, orphans, starts>>

(* workflow_dispatch of the runner: at once, by an operator, or for a      *)
(* retry that is due.                                                      *)
Begin(g, next) ==
    /\ gens[g].pc = "idle"
    /\ starts[next.build] < MaxStarts[next.build]
    /\ starts' = [starts EXCEPT ![next.build] = @ + 1]
    /\ Become(g, next)

Dispatch(r, b) ==
    /\ b \in Rows
    /\ Begin(r, [Idle(b) EXCEPT !.pc = "starting"])
    /\ UNCHANGED <<builds, proposal, orphans, faults>>

Stale(bd) ==
    /\ bd.status \in {"queued", "investigating"}
    /\ proposal.retired \/ ~bd.current

Due(bd) ==
    /\ bd.status = "queued" /\ bd.due
    /\ ~proposal.retired /\ bd.current

(* dispatch_retryable_candidate_builds                                     *)
DispatchRetries ==
    /\ builds' = [b \in Builds |->
          IF Stale(builds[b]) THEN [builds[b] EXCEPT !.status = "cancelled"]
          ELSE builds[b]]
    /\ \/ \E r \in Runners, b \in Builds :
             /\ Due(builds[b])
             /\ Begin(r, [Idle(b) EXCEPT !.pc = "starting"])
       \/ UNCHANGED <<gens, starts>>
    /\ UNCHANGED <<proposal, orphans, faults>>

(* Trusted CI ran the draft: attest_candidate_build.                       *)
CiPasses(b) ==
    /\ builds[b].status = "drafted"
    /\ builds' = [builds EXCEPT ![b].status = "validated", ![b].commit = TRUE]
    /\ proposal' = [proposal EXCEPT !.candidate = "validated"]
    /\ UNCHANGED <<gens, ghostVars>>

(* remediate_candidate_validation_failure clones the build with its files. *)
CiFails(b, clone) ==
    /\ builds[b].status = "drafted"
    /\ IsNew(clone)
    /\ builds' = [builds EXCEPT
          ![b].status = "failed",
          ![clone] = [NoBuild EXCEPT !.status = "queued", !.multi = TRUE,
                                     !.ci = TRUE, !.files = builds[b].files]]
    /\ UNCHANGED <<proposal, gens, ghostVars>>

-------------------------------------------------------------------------------
(* A generator takes a build.                                              *)

ProgressOf(ck) ==
    [role |-> ck.role, round |-> ck.round, roleTokens |-> ck.roleTokens,
     restarts |-> ck.restarts, errs |-> ck.errs]

(* The start of generate_candidate_draft: what it resumes.                 *)
Start(bd, b) ==
    LET kept == bd.ckpt.phase = "author" => bd.files # "none"
        ck   == IF kept THEN bd.ckpt ELSE NoCheckpoint
    IN  [Idle(b) EXCEPT
            !.pc = "entering", !.spent = ck.tokens, !.done = ck.done,
            !.staged = bd.files,
            !.resume = IF ck.phase = "role" THEN ProgressOf(ck) ELSE Fresh,
            !.remediate = ck.role = "remediation" \/ "remediation" \in ck.done]

(* candidate_builder_input.  Its cancellation of a retired proposal's      *)
(* build is rolled back by the exception that reports it.                  *)
Leasable(bd) ==
    /\ ~proposal.retired
    /\ \/ bd.status = "queued"
       \/ bd.status = "failed" /\ RetryDecision(bd, bd.failure)

Lease(r) ==
    /\ gens[r].pc = "starting"
    /\ IF Leasable(BuildOf(r))
       THEN /\ builds' = [builds EXCEPT ![gens[r].build].status = "investigating"]
            /\ Become(r, Start(BuildOf(r), gens[r].build))
       ELSE /\ Become(r, Failing(gens[r], Unclassified(r)))
            /\ UNCHANGED builds
    /\ UNCHANGED <<proposal, ghostVars>>

(* process_one_candidate_build, its first transaction.                     *)
Claimable(bd) ==
    /\ bd.status = "queued"
    /\ ~proposal.retired
    /\ bd.current

Claim(e) ==
    /\ \E b \in Builds :
          /\ Claimable(builds[b])
          /\ \A other \in 1 .. (b - 1) : ~Claimable(builds[other])
          /\ builds' = [builds EXCEPT ![b].status = "investigating"]
          /\ Begin(e, Start(builds[b], b))
    /\ UNCHANGED <<proposal, orphans, faults>>

-------------------------------------------------------------------------------
(* The roles of generate_candidate_draft.                                  *)

FirstRole(bd) == IF bd.ci THEN "remediation" ELSE "author"

(* Mutant: a reviewer that was interrupted counts as done.                 *)
NextRoleAfterResume(gen, bd) ==
    CASE FirstRole(bd) \notin gen.done -> FirstRole(bd)
      [] gen.remediate /\ "remediation" \notin gen.done -> "remediation"
      [] (bd.multi \/ gen.remediate) /\ gen.resume.role # "reviewer" -> "reviewer"
      [] OTHER -> "none"

NextRole(gen, bd) ==
    CASE FirstRole(bd) \notin gen.done -> FirstRole(bd)
      [] gen.remediate /\ "remediation" \notin gen.done -> "remediation"
      [] bd.multi \/ gen.remediate -> "reviewer"
      [] OTHER -> "none"

(* The checkpoint of a role in progress.                                   *)
RoleCheckpoint(gen) ==
    [phase |-> "role", role |-> gen.role, round |-> gen.round,
     roleTokens |-> gen.roleTokens, done |-> gen.done,
     restarts |-> gen.restarts, errs |-> gen.errs, tokens |-> gen.spent]

(* Mutant: a phase that no reader of checkpoints knows.                    *)
AuthorCheckpointRenamed(gen) ==
    [NoCheckpoint EXCEPT !.phase = "author_completed", !.done = gen.done,
                         !.tokens = gen.spent]

AuthorCheckpoint(gen) ==
    [NoCheckpoint EXCEPT !.phase = "author", !.done = gen.done, !.tokens = gen.spent]

(* store_candidate_checkpoint accepts ck, and the generator goes on as     *)
(* next.                                                                   *)
Save(g, next, ck) ==
    /\ BuildOf(g).status = "investigating"
    /\ ck.phase = "role" => ck.round < MaxRounds[ck.role] /\ ck.role \notin ck.done
    /\ builds' = [builds EXCEPT
          ![next.build].ckpt = ck,
          ![next.build].files = next.staged,
          ![next.build].tokens = IF ck.tokens > @ THEN ck.tokens ELSE @]
    /\ Become(g, [next EXCEPT !.saved = TRUE])

(* It refuses: the build is no longer investigating, or the tools let the  *)
(* role go past what a checkpoint may say of its calls and bytes.          *)
SaveRefused(g, ck) ==
    /\ BuildOf(g).status = "investigating" => ck.phase = "role"
    /\ Become(g, Failing(gens[g], Unclassified(g)))
    /\ UNCHANGED builds

SaveOrFail(g, next, ck) == Save(g, next, ck) \/ SaveRefused(g, ck)

Fail(g, f) ==
    /\ Become(g, Failing(gens[g], f))
    /\ UNCHANGED builds

(* An author plays once in an attempt.  The reviewer may play twice, and   *)
(* starts both times from the conversation that was resumed.               *)
Enter(gen, role) ==
    LET progress == IF gen.resume.role = role THEN gen.resume ELSE Fresh
    IN  [gen EXCEPT !.pc = "turn", !.role = role, !.round = progress.round,
                    !.roleTokens = progress.roleTokens, !.errs = progress.errs,
                    !.restarts = progress.restarts,
                    !.resume = IF role = @.role /\ role \in Authors THEN Fresh ELSE @,
                    !.verdict = IF role \in Authors THEN "none" ELSE @]

EnterRole(g) ==
    LET gen  == gens[g]
        role == NextRole(gen, BuildOf(g))
        next == Enter(gen, role)
    IN  /\ gen.pc = "entering"
        /\ \/ /\ role = "none"
              /\ Become(g, [gen EXCEPT !.pc = "submitting"])
              /\ UNCHANGED builds
           \/ /\ role # "none" /\ gen.spent >= Budget
              /\ Fail(g, Fault("other", TRUE))
           \/ /\ role = "reviewer" /\ gen.spent < Budget /\ gen.staged = "broken"
              /\ Fail(g, Fault("other", FALSE))
           \/ /\ role # "none" /\ gen.spent < Budget
              /\ ~(role = "reviewer" /\ gen.staged = "broken")
              /\ IF role = "remediation" /\ gen.resume.role # role
                 THEN SaveOrFail(g, next, RoleCheckpoint(next))
                 ELSE Become(g, next) /\ UNCHANGED builds
        /\ UNCHANGED <<proposal, ghostVars>>

-------------------------------------------------------------------------------
(* One round of _groq_tool_json.                                           *)

(* Mutant: every role has its limit, whatever the others spent.            *)
RoleBudgetAlone(gen) == RoleLimit[gen.role]

RoleBudget(gen) ==
    LET left == Budget - (gen.spent - gen.roleTokens)
    IN  IF RoleLimit[gen.role] < left THEN RoleLimit[gen.role] ELSE left

OutOfTokens(gen) == gen.roleTokens >= RoleBudget(gen)

NoFilesYet(gen) == gen.role \in Authors /\ gen.staged = "none"

(* The checks before the model is asked.                                   *)
HardFileRoundMissed(gen) ==
    NoFilesYet(gen) /\ gen.round >= HardFileRound /\ ~gen.errs

MayAsk(gen) == ~OutOfTokens(gen) /\ ~HardFileRoundMissed(gen)

Finalizing(gen) ==
    LET left == RoleBudget(gen) - gen.roleTokens
    IN  \/ gen.round >= MaxRounds[gen.role] - FinalRounds
        \/ /\ RoleBudget(gen) >= Reserve /\ left <= Reserve
           /\ gen.role = "reviewer" \/ gen.staged # "none"

LastRound(gen) == gen.round >= MaxRounds[gen.role] - 1

RoleStops(g) ==
    LET gen == gens[g]
    IN  /\ gen.pc = "turn" /\ ~MayAsk(gen)
        /\ Fail(g, IF NoFilesYet(gen) THEN Fault("files", FALSE)
                   ELSE Fault("budget", TRUE))
        /\ UNCHANGED <<proposal, ghostVars>>

(* The model answers, for a price.                                         *)
Answered(gen, cost) ==
    [gen EXCEPT !.roleTokens = @ + cost, !.spent = @ + cost]

Onward(gen) == [gen EXCEPT !.round = @ + 1]

(* stage, apply_patch and discard of builder_tools.py: what a turn's calls *)
(* leave staged, when some are denied and others not.                      *)
StagedByTools == Files

(* With calls of tools.                                                    *)
ToolTurn(g) ==
    LET gen == gens[g]
    IN  /\ gen.pc = "turn" /\ MayAsk(gen) /\ ~Finalizing(gen)
        /\ \E cost \in Costs, staged \in StagedByTools :
              LET next == Onward([Answered(gen, cost) EXCEPT !.staged = staged])
              IN  SaveOrFail(g, next, RoleCheckpoint(next))
        /\ UNCHANGED <<proposal, ghostVars>>

(* With an answer that is no JSON, asks for closed tools, or breaks the    *)
(* contract of the role.  An author's files are staged all the same.       *)
Malformed(gen, cost) == Onward(Answered(gen, cost))

ContractBroken(gen, cost, staged) ==
    [Malformed(gen, cost) EXCEPT !.errs = gen.role \in Authors, !.staged = staged]

RejectedTurn(g) ==
    LET gen == gens[g]
    IN  /\ gen.pc = "turn" /\ MayAsk(gen) /\ ~LastRound(gen)
        /\ \E cost \in Costs, staged \in Files :
              /\ gen.role = "reviewer" => staged = gen.staged
              /\ \E next \in {Malformed(gen, cost), ContractBroken(gen, cost, staged)} :
                    SaveOrFail(g, next, RoleCheckpoint(next))
        /\ UNCHANGED <<proposal, ghostVars>>

LastRoundFails(g) ==
    LET gen == gens[g]
    IN  /\ gen.pc = "turn" /\ MayAsk(gen) /\ LastRound(gen)
        /\ \/ Fail(g, Unclassified(g))
           \/ gen.role \in Authors /\ Fail(g, Fault("other", TRUE))
           \/ Fail(g, Fault("terminal", gen.role \in Authors))
        /\ UNCHANGED <<proposal, ghostVars>>

(* With an author's contract that stands, over files that validate.        *)
AuthorAccepted(g) ==
    LET gen == gens[g]
    IN  /\ gen.pc = "turn" /\ MayAsk(gen) /\ gen.role \in Authors
        /\ \E cost \in Costs :
              LET next == [Answered(gen, cost) EXCEPT
                              !.pc = "entering", !.staged = "good",
                              !.done = @ \cup {gen.role}]
              IN  SaveOrFail(g, next, AuthorCheckpoint(next))
        /\ UNCHANGED <<proposal, ghostVars>>

(* With the reviewer's envelope.  The final contract is checked once more  *)
(* over the staged files, or those of a candidate the reviewer revised.*)
ReviewerApproves(g) ==
    LET gen == gens[g]
    IN  /\ gen.pc = "turn" /\ MayAsk(gen) /\ gen.role = "reviewer"
        /\ \/ \E cost \in Costs, files \in Files \ {"none"} :
                 /\ gen.staged # "none" => files = gen.staged
                 /\ Become(g, [Answered(gen, cost) EXCEPT
                       !.pc = "submitting", !.staged = files, !.verdict = "approved"])
                 /\ UNCHANGED builds
           \/ \E class \in {"other", "terminal"} : Fail(g, Fault(class, TRUE))
        /\ UNCHANGED <<proposal, ghostVars>>

MayRemediate(gen) == "remediation" \notin gen.done

ReviewerRejects(g) ==
    LET gen == gens[g]
    IN  /\ gen.pc = "turn" /\ MayAsk(gen) /\ gen.role = "reviewer"
        /\ IF MayRemediate(gen)
           THEN \E cost \in Costs :
                   /\ Become(g, [Answered(gen, cost) EXCEPT
                         !.pc = "entering", !.remediate = TRUE, !.verdict = "rejected"])
                   /\ UNCHANGED builds
           ELSE Fail(g, Fault("terminal", FALSE))
        /\ UNCHANGED <<proposal, ghostVars>>

(* _candidate_completion runs out of models, or the network fails.  Some   *)
(* errors of the provider, such as a bad request, a runner does not retry. *)
ProviderFailure(g) ==
    LET gen == gens[g]
    IN  /\ \/ gen.pc = "turn"
           \/ gen.pc \in {"starting", "entering", "submitting"} /\ g \in Runners
        /\ \/ Fail(g, Fault("provider", TRUE))
           \/ g \in Runners /\ Fail(g, Fault("provider", FALSE))
           \/ Fail(g, Unclassified(g))
           \/ Fail(g, Fault("other", TRUE))
        /\ UNCHANGED <<proposal, ghostVars>>

(* asyncio.wait_for; without a checkpoint the runner's code is unknown to  *)
(* the retry policy.                                                       *)
Timeout(g) ==
    /\ gens[g].pc \in {"entering", "turn"}
    /\ Fail(g, IF gens[g].saved \/ g \in Embedded THEN Fault("provider", TRUE)
               ELSE Fault("other", FALSE))
    /\ UNCHANGED <<proposal, ghostVars>>

-------------------------------------------------------------------------------
(* How an attempt ends.                                                    *)

(* Mutant: only a validated build refuses a draft.                         *)
DraftableUnlessValidated(bd) == bd.status # "validated"

(* store_candidate_draft replaces the checkpoint, and the candidate of the *)
(* proposal, whatever has become of the proposal.                          *)
Draftable(bd) == bd.status \in {"queued", "investigating"}

Submit(g) ==
    LET gen == gens[g]
    IN  /\ gen.pc = "submitting"
        /\ IF Draftable(BuildOf(g))
           THEN /\ builds' = [builds EXCEPT ![gen.build] =
                      [@ EXCEPT !.status = "drafted", !.files = gen.staged,
                                !.tokens = gen.spent, !.ckpt = NoCheckpoint,
                                !.failure = NoFailure, !.due = FALSE,
                                !.compacted = FALSE, !.verdict = gen.verdict]]
                /\ proposal' = [proposal EXCEPT !.candidate = "draft"]
                /\ Rest(g)
           ELSE /\ Become(g, Failing(gen, Unclassified(g)))
                /\ UNCHANGED <<builds, proposal>>
        /\ UNCHANGED ghostVars

(* Mutant: only a failure that will be retried is written.                 *)
ReportRetryable(r) ==
    LET gen == gens[r]
    IN  /\ gen.pc = "failing"
        /\ builds' = IF Draftable(BuildOf(r)) /\ RetryDecision(BuildOf(r), gen.failure)
                     THEN [builds EXCEPT ![gen.build] = AfterFailure(@, gen.failure)]
                     ELSE builds
        /\ Rest(r)
        /\ UNCHANGED <<proposal, ghostVars>>

(* candidate_builder_failure                                               *)
ReportFailure(r) ==
    LET gen == gens[r]
    IN  /\ gen.pc = "failing"
        /\ builds' = IF Draftable(BuildOf(r))
                     THEN [builds EXCEPT ![gen.build] = AfterFailure(@, gen.failure)]
                     ELSE builds
        /\ Rest(r)
        /\ UNCHANGED <<proposal, ghostVars>>

(* The handler in process_one_candidate_build: it does not look at the     *)
(* status that it overwrites.                                              *)
EmbeddedFailure(e) ==
    LET gen == gens[e]
    IN  /\ gen.pc = "failing"
        /\ builds' = [builds EXCEPT ![gen.build] = AfterFailure(@, gen.failure)]
        /\ Rest(e)
        /\ UNCHANGED <<proposal, ghostVars>>

(* The job is killed (timeout-minutes, a new deployment), or the report of *)
(* its failure is lost.                                                    *)
Lose(g) ==
    /\ gens[g].pc # "idle"
    /\ Rest(g)
    /\ orphans' = orphans \cup {gens[g].build}
    /\ Disturb
    /\ UNCHANGED <<builds, proposal, starts>>

-------------------------------------------------------------------------------
Work(g) ==
    \/ EnterRole(g)
    \/ RoleStops(g)
    \/ ToolTurn(g)
    \/ RejectedTurn(g)
    \/ LastRoundFails(g)
    \/ AuthorAccepted(g)
    \/ ReviewerApproves(g)
    \/ ReviewerRejects(g)
    \/ Submit(g)

Attempt(g) ==
    \/ Work(g)
    \/ g \in Runners /\ (Lease(g) \/ ReportFailure(g))
    \/ g \in Embedded /\ EmbeddedFailure(g)

Next ==
    \/ \E b \in Builds : Enqueue(b) \/ CiPasses(b)
    \/ \E b, clone \in Builds : CiFails(b, clone)
    \/ PolicyRollover \/ RetireProposal \/ DispatchRetries
    \/ \E r \in Runners, b \in Builds : Dispatch(r, b)
    \/ \E e \in Embedded : Claim(e)
    \/ \E g \in Generators :
          Attempt(g) \/ ProviderFailure(g) \/ Timeout(g) \/ Lose(g)

Spec == Init /\ [][Next]_vars

-------------------------------------------------------------------------------
(* Properties                                                              *)

(* A build with two roles is drafted only after the independent reviewer   *)
(* approved it, and no author has touched it since, however often the      *)
(* attempt was cut and resumed, by whichever generator.                    *)
DraftWasReviewed ==
    \A b \in Builds :
        builds[b].status \in {"drafted", "validated"} /\ builds[b].multi
            => builds[b].verdict = "approved"

MaxCost == CHOOSE c \in Costs : \A d \in Costs : d <= c

(* Whatever is resumed, compacted or taken over, the tokens on record for  *)
(* a build pass its budget by less than one model turn.                    *)
RecordedSpend == \A b \in Builds : builds[b].tokens < Budget + MaxCost

(* A build is investigating only while a generator works on it, unless a   *)
(* generator of it was lost: refused leases, stale retries and double      *)
(* dispatches never leave it waiting for nobody.                           *)
InvestigatingHasAWorker ==
    \A b \in Builds :
        builds[b].status = "investigating" =>
            \/ b \in orphans
            \/ \E g \in Generators :
                  gens[g].pc \in {"entering", "turn", "submitting", "failing"}
                  /\ gens[g].build = b

(* A build that waits for a retry on the strength of its checkpoint can be *)
(* resumed from it: a role with rounds left, or the files of a finished    *)
(* author, and tokens to spend.                                            *)
RetryHasAuthority ==
    \A b \in Builds :
        builds[b].status = "queued" /\ builds[b].due
        /\ builds[b].failure.class # "provider" =>
            /\ builds[b].tokens < Budget
            /\ builds[b].ckpt.phase = "author" => builds[b].files # "none"
            /\ builds[b].ckpt.phase # "none"
            /\ builds[b].ckpt.role # "none" => RoundsLeft(builds[b].ckpt)

(* What was finished stays finished: a draft leaves only for CI, validated *)
(* and cancelled builds are never worked on again, except by the failure   *)
(* handler of an embedded builder that still holds the build.              *)
FinishedStaysFinished ==
    [][\A b \in Builds :
          \/ builds[b].status \notin {"drafted", "validated", "cancelled"}
          \/ \E e \in Embedded : gens[e].pc = "failing" /\ gens[e].build = b
          \/ builds'[b].status = builds[b].status
          \/ CiPasses(b) \/ \E clone \in Builds : CiFails(b, clone)]_vars
===============================================================================
