-------------------------- MODULE CandidateGovernance --------------------------
(***************************************************************************)
(* What becomes of a candidate: the rows of improvement_proposals,         *)
(* improvement_canaries and okf_bundle_versions, the decisions of the      *)
(* reviewers and the attestations of the trusted workflows                 *)
(* (app/api/routes/admin.py), the periodic judgement of the canaries       *)
(* (app/improvements/analyzer.py), the pull requests at GitHub             *)
(* (app/improvements/publisher.py), the proposals that failures give rise  *)
(* to (app/improvements/failure_intelligence.py) and the agent runs that   *)
(* are pinned to a canary (app/improvements/routing.py).                   *)
(*                                                                         *)
(* How a build comes to its draft is CandidateBuild's subject, and         *)
(* CodingRun's; here a build is queued, then drafted by one of the two     *)
(* runtimes, then validated by CI.                                         *)
(*                                                                         *)
(* An action is one transaction, or one call to GitHub.  A decision names  *)
(* the hash that its author reviewed and changes nothing if the proposal   *)
(* has another by then: the decisions below are those with the right hash. *)
(***************************************************************************)
EXTENDS Integers, Sequences, FiniteSets

CONSTANTS
    Proposals,      \* rows of improvement_proposals that may come to exist
    Runs,           \* agent runs that may be pinned to a canary at a time
    Bundles,        \* the OKF bundles that candidates may stage
    None,           \* no bundle, or no proposal
    MaxBuilds,      \* bound: candidate builds
    MaxCanaries,    \* bound: rows of improvement_canaries
    MaxPulls        \* bound: pull requests that are open or being created

ASSUME NoneAssumption == None \notin Bundles \cup Proposals

ASSUME ProposalsAssumption == IsFiniteSet(Proposals)

ASSUME BoundsAssumption ==
    /\ MaxBuilds \in Nat \ {0}
    /\ {MaxCanaries, MaxPulls} \subseteq Nat

Builds == 1 .. MaxBuilds

(* candidate_version: NULL, "build-b" of a draft that has no commit yet,   *)
(* the commit of build b, or what an administrator registered by hand.     *)
NoVersion  == 0
Draft(b)   == -b
Commit(b)  == b
Registered == MaxBuilds + 1
Versions   == - MaxBuilds .. Registered

(* The head of a branch with the files of version v; CI has a commit to    *)
(* attest only if they are those of a draft.                               *)
HeadOf(v) == IF v < NoVersion THEN Commit(-v) ELSE NoVersion

VARIABLES
    proposals,      \* improvement_proposals
    builds,         \* candidate_builds
    canaries,       \* improvement_canaries, those of each proposal in a sequence
    runs,           \* agent_runs with cohort_assignment = 'candidate'
    bundles,        \* okf_bundle_versions.publication_status
    notices,        \* improvement_notifications of the draft pull request that are
                    \* queued or sent: one that failed may be queued again
    publishing,     \* requests that are publishing a draft pull request
    promoting,      \* where decide_promotion is after its first transaction
    pulls,          \* GitHub: the pull requests of publish_github_draft
    main,           \* GitHub: the merged commits, each with its proposal and
                    \* the hash whose promotion was approved
    overlapped,     \* history variable: canary approvals have overlapped
    disturbed,      \* history variable: proposals that builds changed after
                    \* their review
    lost            \* history variable: proposals whose new pull request was
                    \* not answered

githubVars == <<pulls, main>>
ghostVars  == <<overlapped, disturbed, lost>>
requestVars == <<notices, publishing, promoting>>
vars == <<proposals, builds, canaries, runs, bundles, requestVars,
          githubVars, ghostVars>>

(* closed stands for rejected, expired and rolled_back.                    *)
Statuses ==
    {"absent", "awaiting_review", "changes_requested", "closed",
     "approved_for_canary", "canary_active", "awaiting_promotion",
     "approved_for_publication", "production_pending", "published"}

Proposal ==
    [status : Statuses,
     state : {"diagnosis_only", "implementation_draft", "validated_implementation",
              "deployed_canary"},
     kind : {"diagnosis", "code", "okf"},
     version : Versions,
     hash : Versions,               \* content_hash: the version it was made of
     trusted : BOOLEAN,             \* validation_report.trusted_identity
     deployed : BOOLEAN,            \* deployment_evidence is of candidate_version
     bundle : Bundles \cup {None},      \* of candidate_manifest, as are:
     okf : {"none", "awaiting_review", "approved", "changes_requested"},
     pull : Versions,               \* draft_pr: the version it shows
     merge : Versions]              \* production_merge.commit_sha

NoProposal ==
    [status |-> "absent", state |-> "diagnosis_only", kind |-> "diagnosis",
     version |-> NoVersion, hash |-> NoVersion, trusted |-> FALSE,
     deployed |-> FALSE, bundle |-> None, okf |-> "none",
     pull |-> NoVersion, merge |-> NoVersion]

Build ==
    [status : {"absent", "queued", "drafted", "validated", "cancelled"},
     proposal : Proposals \cup {None}, kind : {"code", "okf"}, onBranch : BOOLEAN]

Occupied == {"pending", "active", "passed"}

Canary ==
    [status : Occupied \cup {"rolled_back"}, routing : BOOLEAN,
     version : Versions, start : Nat]       \* start orders started_at; 0 is NULL

(* canary is the proposal and the place of its row.  A run that waits for  *)
(* its user is parked, and resumed when it is queued afterwards.  From its *)
(* first step on nothing here changes a run: it is forgotten.              *)
Run ==
    [at : {"absent", "parked", "resumed", "queued"},
     canary : (Proposals \X Nat) \cup {<<>>}]

NoRun == [at |-> "absent", canary |-> <<>>]

Idle == [at |-> "idle", version |-> NoVersion, hash |-> NoVersion, pull |-> NoVersion]

TypeOK ==
    /\ proposals \in [Proposals -> Proposal]
    /\ builds \in [Builds -> Build]
    /\ canaries \in [Proposals -> Seq(Canary)]
    /\ runs \in [Runs -> Run]
    /\ bundles \in [Bundles -> {"absent", "validated", "canary", "trusted",
                                "rejected", "rolled_back"}]
    /\ notices \subseteq Proposals
    /\ publishing \subseteq [proposal : Proposals, hash : Versions]
    /\ promoting \in [Proposals -> [at : {"idle", "approved", "merged"},
                                    version : Versions, hash : Versions,
                                    pull : Versions]]
    /\ pulls \subseteq Proposals \X Versions
    /\ main \subseteq [commit : Builds, proposal : Proposals, hash : Versions]
    /\ disturbed \subseteq Proposals
    /\ overlapped \in BOOLEAN
    /\ lost \subseteq Proposals

Init ==
    /\ proposals = [p \in Proposals |-> NoProposal]
    /\ builds = [b \in Builds |-> [status |-> "absent", kind |-> "code",
                                   proposal |-> None, onBranch |-> FALSE]]
    /\ canaries = [p \in Proposals |-> <<>>]
    /\ runs = [r \in Runs |-> NoRun]
    /\ bundles = [k \in Bundles |-> "absent"]
    /\ notices = {}
    /\ publishing = {}
    /\ promoting = [p \in Proposals |-> Idle]
    /\ pulls = {} /\ main = {}
    /\ overlapped = FALSE /\ disturbed = {} /\ lost = {}

Exists(p) == proposals[p].status # "absent"

(* A build of p changes the proposal.  Builds do not look at its status.   *)
Touch(p) ==
    disturbed' = IF proposals[p].status \in {"awaiting_review", "changes_requested"}
                 THEN disturbed ELSE disturbed \cup {p}

UnchangedButBuilds == UNCHANGED <<canaries, runs, requestVars, githubVars, overlapped, lost>>

-------------------------------------------------------------------------------
(* Proposals and their builds                                              *)

(* The statuses in which a proposal no longer collects the incidents of    *)
(* its cluster.                                                            *)
Closed == {"absent", "closed", "approved_for_publication"}

(* create_or_update_proposal for the first incident of a cluster, and      *)
(* create_theme_proposal: each proposal is of a cluster or theme of its    *)
(* own.                                                                    *)
Propose(p) ==
    /\ ~Exists(p)
    /\ proposals' = [proposals EXCEPT ![p].status = "awaiting_review"]
    /\ UNCHANGED <<builds, bundles, disturbed>> /\ UnchangedButBuilds

BuildsOf(p) == {b \in Builds : builds[b].status # "absent" /\ builds[b].proposal = p}
IsNew(b)    == b = 1 + Cardinality({c \in Builds : builds[c].status # "absent"})

QueueBuild(b, p) == [builds EXCEPT ![b].status = "queued", ![b].proposal = p]

(* enqueue_candidate_build, with every incident that finds the proposal of *)
(* its cluster open.                                                       *)
Enqueue(p, b) ==
    /\ IsNew(b) /\ proposals[p].status \notin Closed
    /\ builds' = QueueBuild(b, p)
    /\ UNCHANGED <<proposals, bundles, disturbed>> /\ UnchangedButBuilds

(* An incident of the cluster that is not fit for a build: whatever        *)
(* candidate the open proposal has is called a diagnosis again.  (Nothing  *)
(* reads its state after its review.)                                      *)
LacksEvidence(p) ==
    /\ proposals[p].status \in {"awaiting_review", "changes_requested"}
    /\ proposals' = [proposals EXCEPT ![p].state = "diagnosis_only"]
    /\ UNCHANGED <<builds, bundles, disturbed>> /\ UnchangedButBuilds

(* new_policy_candidate_attempt *)
NewPolicyAttempt(b, clone) ==
    LET p == builds[b].proposal
    IN  /\ builds[b].status = "cancelled"
        /\ proposals[p].state = "diagnosis_only"
        /\ \A c \in BuildsOf(p) : builds[c].status = "cancelled"
        /\ IsNew(clone)
        /\ builds' = QueueBuild(clone, p)
        /\ UNCHANGED <<proposals, bundles, disturbed>> /\ UnchangedButBuilds

(* store_candidate_draft: a new hash, and a new candidate_manifest.        *)
StoreDraft(b) ==
    LET p == builds[b].proposal
    IN  /\ builds[b].status = "queued"
        /\ \E kind \in {"code", "okf"} :
              /\ builds' = [builds EXCEPT ![b].status = "drafted", ![b].kind = kind]
              /\ proposals' = [proposals EXCEPT
                    ![p] = [NoProposal EXCEPT
                              !.status = proposals[p].status,
                              !.state = "implementation_draft", !.kind = kind,
                              !.version = Draft(b), !.hash = Draft(b)]]
        /\ Touch(p)
        /\ UNCHANGED bundles /\ UnchangedButBuilds

(* The coding worker publishes: the hash, the report and the rest of the   *)
(* manifest stay, and draft_pr, by which a promotion merges, is not set.   *)
CodingDraft(b) ==
    LET p == builds[b].proposal
    IN  /\ builds[b].status = "queued"
        /\ builds' = [builds EXCEPT ![b].status = "drafted", ![b].kind = "code",
                                    ![b].onBranch = TRUE]
        /\ proposals' = [proposals EXCEPT ![p].state = "implementation_draft",
                            ![p].kind = "code", ![p].version = Commit(b),
                            ![p].deployed = FALSE]
        /\ Touch(p)
        /\ UNCHANGED bundles /\ UnchangedButBuilds

(* The owner of the coding run rejects its plan.                           *)
PlanRejected(b) ==
    LET p == builds[b].proposal
    IN  /\ builds[b].status = "queued"
        /\ builds' = [builds EXCEPT ![b].status = "cancelled"]
        /\ proposals' = [proposals EXCEPT ![p].status = "changes_requested",
                                          ![p].state = "diagnosis_only"]
        /\ Touch(p)
        /\ UNCHANGED bundles /\ UnchangedButBuilds

(* stage_okf_candidate_bundle: content that was staged before keeps its    *)
(* publication_status.  A trusted bundle is part of the content of those   *)
(* staged later.                                                           *)
Stage(k) == [bundles EXCEPT ![k] = IF @ = "absent" THEN "validated" ELSE @]

(* attest_candidate_build *)
CiAttests(b) ==
    LET p == builds[b].proposal
        valid == [proposals[p] EXCEPT !.state = "validated_implementation",
                    !.version = Commit(b), !.hash = Commit(b), !.trusted = TRUE,
                    !.deployed = @ /\ proposals[p].version = Commit(b)]
    IN  /\ builds[b].status = "drafted" /\ builds[b].onBranch
        /\ builds' = [builds EXCEPT ![b].status = "validated"]
        /\ \/ /\ builds[b].kind = "code"
              /\ proposals' = [proposals EXCEPT ![p] = valid]
              /\ UNCHANGED bundles
           \/ /\ builds[b].kind = "okf"
              /\ \E k \in Bundles :
                    /\ bundles[k] # "trusted"
                    /\ bundles' = Stage(k)
                    /\ proposals' = [proposals EXCEPT
                          ![p] = [valid EXCEPT !.bundle = k, !.okf = "awaiting_review"]]
        /\ Touch(p)
        /\ UnchangedButBuilds

(* Mutant: the report of the administrator is kept beside that of CI.      *)
RegisterBesideReport(p) ==
    /\ proposals[p].status \in {"awaiting_review", "changes_requested"}
    /\ proposals' = [proposals EXCEPT
          ![p] = [NoProposal EXCEPT !.status = "awaiting_review", !.kind = "code",
                    !.state = "validated_implementation", !.version = Registered,
                       !.hash = Registered, !.trusted = proposals[p].trusted]]
    /\ UNCHANGED <<builds, bundles, disturbed>> /\ UnchangedButBuilds

(* register_improvement_candidate, of a code candidate                     *)
Register(p) ==
    /\ proposals[p].status \in {"awaiting_review", "changes_requested"}
    /\ proposals' = [proposals EXCEPT
          ![p] = [NoProposal EXCEPT !.status = "awaiting_review", !.kind = "code",
                    !.state = "validated_implementation",
                       !.version = Registered, !.hash = Registered]]
    /\ UNCHANGED <<builds, bundles, disturbed>> /\ UnchangedButBuilds

-------------------------------------------------------------------------------
(* The draft pull request                                                  *)

(* A diagnosis, or a proposal without files, has nothing to publish: its   *)
(* request fails at once.  (The publication of a candidate that was        *)
(* registered by hand, which CI never validates, is left out.)             *)
Publishable(p) ==
    /\ proposals[p].state \in {"implementation_draft", "validated_implementation"}
    /\ proposals[p].hash \notin {NoVersion, Registered}

(* Mutant: a publication that was sent is begun again.                     *)
ReserveAgain(p) ==
    /\ proposals[p].status = "awaiting_review" /\ Publishable(p)
    /\ Cardinality(pulls) + Cardinality(publishing) < MaxPulls
    /\ notices' = notices \cup {p}
    /\ publishing' = publishing \cup {[proposal |-> p, hash |-> proposals[p].hash]}
    /\ UNCHANGED <<proposals, builds, canaries, runs, bundles, promoting,
                   githubVars, ghostVars>>

(* _reserve_external_notification                                          *)
Reserve(p) ==
    /\ proposals[p].status = "awaiting_review" /\ Publishable(p)
    /\ p \notin notices
    /\ Cardinality(pulls) + Cardinality(publishing) < MaxPulls
    /\ notices' = notices \cup {p}
    /\ publishing' = publishing \cup {[proposal |-> p, hash |-> proposals[p].hash]}
    /\ UNCHANGED <<proposals, builds, canaries, runs, bundles, promoting,
                   githubVars, ghostVars>>

(* publish_github_draft names the branch for the hash; GitHub has one pull *)
(* request for a branch.                                                   *)
CreatePull(x) ==
    /\ <<x.proposal, x.hash>> \notin pulls
    /\ pulls' = pulls \cup {<<x.proposal, x.hash>>}
    /\ publishing' = publishing \ {x}
    /\ builds' = [b \in Builds |->
                    IF HeadOf(x.hash) = Commit(b)
                    THEN [builds[b] EXCEPT !.onBranch = TRUE] ELSE builds[b]]
    /\ UNCHANGED <<canaries, runs, bundles, promoting, main, overlapped, disturbed>>

(* publish_proposal_draft: draft_pr goes to whatever candidate the         *)
(* proposal has by now.                                                    *)
Publish(x) ==
    /\ CreatePull(x)
    /\ proposals' = [proposals EXCEPT ![x.proposal].pull = x.hash]
    /\ UNCHANGED <<notices, lost>>

(* The pull request is created, but the answer does not arrive; or it does *)
(* and nobody is left to record it, and the notice is queued for ever.     *)
AnswerIsLost(x) ==
    /\ CreatePull(x)
    /\ notices' \in {notices, notices \ {x.proposal}}
    /\ lost' = lost \cup {x.proposal}
    /\ UNCHANGED proposals

(* GitHub refuses, or it is not reached.                                   *)
PublicationFails(x) ==
    /\ publishing' = publishing \ {x}
    /\ notices' = notices \ {x.proposal}
    /\ UNCHANGED <<proposals, builds, canaries, runs, bundles, promoting, githubVars,
                   ghostVars>>

-------------------------------------------------------------------------------
(* Review                                                                  *)

(* Mutant: the bundle is given the reviewer's word for its status.         *)
DecideOkfVerbatim(p) ==
    LET k == proposals[p].bundle
    IN  /\ proposals[p].status = "awaiting_review" /\ k # None
        /\ \/ /\ proposals' = [proposals EXCEPT ![p].okf = "approved"]
              /\ UNCHANGED bundles
           \/ /\ proposals' = [proposals EXCEPT ![p].okf = "changes_requested",
                                                ![p].status = "changes_requested"]
              /\ bundles' = [bundles EXCEPT ![k] = IF @ = "validated" THEN "changes_requested" ELSE @]
        /\ UNCHANGED <<builds, canaries, runs, requestVars, githubVars, overlapped, disturbed, lost>>

(* decide_candidate_okf *)
DecideOkf(p) ==
    LET k == proposals[p].bundle
    IN  /\ proposals[p].status = "awaiting_review" /\ k # None
        /\ \/ /\ proposals' = [proposals EXCEPT ![p].okf = "approved"]
              /\ UNCHANGED bundles
           \/ /\ proposals' = [proposals EXCEPT ![p].okf = "changes_requested",
                                                ![p].status = "changes_requested"]
              /\ bundles' = [bundles EXCEPT ![k] = IF @ = "validated" THEN "rejected" ELSE @]
        /\ UNCHANGED <<builds, canaries, runs, requestVars, githubVars, overlapped, disturbed, lost>>

CanaryRows(q) == {canaries[q][i] : i \in DOMAIN canaries[q]}
Occupies(q)   == \E c \in CanaryRows(q) : c.status \in Occupied
RowCount      == Cardinality(UNION {{p} \X DOMAIN canaries[p] : p \in Proposals})

(* Mutant: a canary that passed no longer occupies the runtime.            *)
CompetingActive(p) ==
    proposals[p].kind = "code"
    /\ \E q \in Proposals \ {p} :
          /\ proposals[q].kind = "code"
          /\ \E c \in CanaryRows(q) : c.status \in {"pending", "active"}

Competing(p) ==
    proposals[p].kind = "code"
    /\ \E q \in Proposals \ {p} : proposals[q].kind = "code" /\ Occupies(q)

(* Mutant: the bundle need not have been read.                             *)
ApprovableUnread(p) ==
    LET row == proposals[p]
    IN  /\ row.status = "awaiting_review"
        /\ row.state = "validated_implementation" /\ row.trusted
        /\ ~Competing(p)
        /\ row.okf # "changes_requested"

Approvable(p) ==
    LET row == proposals[p]
    IN  /\ row.status = "awaiting_review"
        /\ row.state = "validated_implementation" /\ row.trusted
        /\ ~Competing(p)
        /\ row.bundle # None => row.okf = "approved"

Pending(v) == [status |-> "pending", routing |-> FALSE, version |-> v, start |-> 0]

(* decide_canary, approved.  The competing canaries are counted under the  *)
(* lock of the proposal's own row: approvals of several proposals that     *)
(* overlap do not see one another's rows.  OKF, which is not deployed, is  *)
(* given its evidence at once.                                             *)
ApproveCanaries(S) ==
    /\ S # {} /\ \A p \in S : Approvable(p)
    /\ RowCount + Cardinality(S) <= MaxCanaries
    /\ proposals' = [p \in Proposals |->
          IF p \notin S THEN proposals[p]
          ELSE [proposals[p] EXCEPT
                  !.status = "approved_for_canary",
                  !.deployed = @ \/ proposals[p].kind = "okf"]]
    /\ canaries' = [p \in Proposals |->
          IF p \notin S THEN canaries[p]
          ELSE Append(canaries[p], Pending(proposals[p].version))]
    /\ overlapped' = (overlapped \/ Cardinality(S) > 1)
    /\ UNCHANGED <<builds, runs, bundles, requestVars, githubVars, disturbed, lost>>

(* Runs that are queued and have run no step go back to control.           *)
ToControl(p, i) ==
    runs' = [r \in Runs |->
               IF runs[r].canary = <<p, i>> /\ runs[r].at \in {"queued", "resumed"}
               THEN NoRun ELSE runs[r]]

(* ORDER BY started_at DESC NULLS LAST, id DESC; the ids are random.       *)
Latest(p) ==
    {i \in DOMAIN canaries[p] :
        \A j \in DOMAIN canaries[p] : canaries[p][j].start <= canaries[p][i].start}

(* _retire_candidate_routing *)
Retire(p, okfState) ==
    /\ \/ canaries[p] = <<>> /\ UNCHANGED <<canaries, runs>>
       \/ \E i \in Latest(p) :
             /\ canaries' = [canaries EXCEPT
                   ![p][i].routing = FALSE,
                   ![p][i].status = IF @ \in Occupied THEN "rolled_back" ELSE @]
             /\ ToControl(p, i)
    /\ bundles' = [k \in Bundles |->
                     IF k = proposals[p].bundle /\ bundles[k] \in {"validated", "canary"}
                     THEN okfState ELSE bundles[k]]

Refuse(p) ==
    /\ \/ /\ proposals' = [proposals EXCEPT ![p].status = "closed"]
          /\ Retire(p, "rejected")
       \/ /\ proposals' = [proposals EXCEPT ![p].status = "changes_requested"]
          /\ Retire(p, "rolled_back")
    /\ UNCHANGED <<builds, requestVars, githubVars, ghostVars>>

(* decide_canary, rejected or changes_requested                            *)
RefuseCanary(p) == proposals[p].status = "awaiting_review" /\ Refuse(p)

(* Mutant: a proposal whose canary runs can expire.                        *)
ExpireUnderCanary(p) ==
    /\ proposals[p].status \in {"awaiting_review", "changes_requested", "approved_for_canary",
                               "canary_active"}
    /\ proposals' = [proposals EXCEPT ![p].status = "closed"]
    /\ UNCHANGED <<builds, canaries, runs, bundles, requestVars, githubVars, ghostVars>>

(* expire_stale_proposals *)
Expire(p) ==
    /\ proposals[p].status \in {"awaiting_review", "changes_requested", "approved_for_canary"}
    /\ proposals' = [proposals EXCEPT ![p].status = "closed"]
    /\ UNCHANGED <<builds, canaries, runs, bundles, requestVars, githubVars, ghostVars>>

-------------------------------------------------------------------------------
(* The canary                                                              *)

(* attest_candidate_deployment: the workflow checked the version out.  The *)
(* registration of a deployment is not for code, and gives OKF nothing     *)
(* that its approval does not give.                                        *)
AttestDeployment(p) ==
    /\ proposals[p].status = "approved_for_canary"
    /\ proposals[p].version \in Builds
    /\ proposals' = [proposals EXCEPT ![p].deployed = TRUE]
    /\ UNCHANGED <<builds, bundles, disturbed>> /\ UnchangedButBuilds

(* Mutant: the canary is activated without its deployment.                 *)
ActivateUndeployed(p, i) ==
    LET row == proposals[p]
    IN  /\ row.status = "approved_for_canary"
        /\ canaries[p][i].status = "pending"
        /\ row.bundle # None => bundles[row.bundle] = "validated"
        /\ proposals' = [proposals EXCEPT ![p].status = "canary_active",
                                          ![p].state = "deployed_canary"]
        /\ canaries' = [canaries EXCEPT ![p][i].status = "active", ![p][i].routing = TRUE,
                            ![p][i].start = 1 + Cardinality({j \in DOMAIN canaries[p] :
                                                               canaries[p][j].start > 0})]
        /\ bundles' = [k \in Bundles |-> IF k = row.bundle THEN "canary" ELSE bundles[k]]
        /\ UNCHANGED <<builds, runs, requestVars, githubVars, ghostVars>>

(* activate_canary *)
Activate(p, i) ==
    LET row == proposals[p]
    IN  /\ row.status = "approved_for_canary"
        /\ row.deployed
        /\ canaries[p][i].status = "pending"
        /\ row.bundle # None => bundles[row.bundle] = "validated"
        /\ proposals' = [proposals EXCEPT ![p].status = "canary_active",
                                          ![p].state = "deployed_canary"]
        /\ canaries' = [canaries EXCEPT ![p][i].status = "active", ![p][i].routing = TRUE,
                            ![p][i].start = 1 + Cardinality({j \in DOMAIN canaries[p] :
                                                               canaries[p][j].start > 0})]
        /\ bundles' = [k \in Bundles |-> IF k = row.bundle THEN "canary" ELSE bundles[k]]
        /\ UNCHANGED <<builds, runs, requestVars, githubVars, ghostVars>>

(* create_run, with resolve_executor_assignment: the run is queued, or it  *)
(* waits for its user's answer or approval.                                *)
AssignRun(r, p, i) ==
    /\ runs[r].at = "absent"
    /\ canaries[p][i].status = "active" /\ canaries[p][i].routing
    /\ \E at \in {"queued", "parked"} :
          runs' = [runs EXCEPT ![r] = [at |-> at, canary |-> <<p, i>>]]
    /\ UNCHANGED <<proposals, builds, canaries, bundles, requestVars, githubVars,
                   ghostVars>>

(* The executor of a candidate is scaled down when its canary ends.        *)
HasExecutor(r) ==
    \E p \in Proposals : \E i \in DOMAIN canaries[p] :
        runs[r].canary = <<p, i>> /\ canaries[p][i].routing

(* The user answers or approves.                                           *)
Resume(r) == runs[r].at = "parked" /\ runs' = [runs EXCEPT ![r].at = "resumed"]

(* A worker of the candidate claims the run, or its user cancels it.       *)
StartRun(r) ==
    /\ runs[r].at \in {"queued", "resumed"} /\ HasExecutor(r)
    /\ runs' = [runs EXCEPT ![r] = NoRun]

CancelRun(r) == runs[r].at # "absent" /\ runs' = [runs EXCEPT ![r] = NoRun]

(* evaluate_active_canaries; what assess_canary makes of the samples is    *)
(* any verdict.  It writes the proposal's status whatever that is.         *)
Passes(p, i) ==
    /\ canaries[p][i].status = "active"
    /\ canaries' = [canaries EXCEPT ![p][i].status = "passed"]
    /\ proposals' = [proposals EXCEPT ![p].status = "awaiting_promotion"]
    /\ UNCHANGED <<builds, runs, bundles, requestVars, githubVars, overlapped, disturbed, lost>>

(* Mutant: the rollback leaves the queued runs to the candidate.           *)
RollsBackRouting(p, i) ==
    /\ canaries[p][i].status = "active"
    /\ canaries' = [canaries EXCEPT ![p][i].status = "rolled_back",
                                    ![p][i].routing = FALSE]
    /\ proposals' = [proposals EXCEPT ![p].status = "closed"]
    /\ bundles' = [k \in Bundles |->
                     IF k = proposals[p].bundle /\ bundles[k] = "canary"
                     THEN "rolled_back" ELSE bundles[k]]
    /\ UNCHANGED <<builds, runs, requestVars, githubVars, ghostVars>>

RollsBack(p, i) ==
    /\ canaries[p][i].status = "active"
    /\ canaries' = [canaries EXCEPT ![p][i].status = "rolled_back",
                                    ![p][i].routing = FALSE]
    /\ ToControl(p, i)
    /\ proposals' = [proposals EXCEPT ![p].status = "closed"]
    /\ bundles' = [k \in Bundles |->
                     IF k = proposals[p].bundle /\ bundles[k] = "canary"
                     THEN "rolled_back" ELSE bundles[k]]
    /\ UNCHANGED <<builds, requestVars, githubVars, ghostVars>>

-------------------------------------------------------------------------------
(* Promotion                                                               *)

Promotable(p) ==
    /\ proposals[p].status = "awaiting_promotion"
    /\ \E c \in CanaryRows(p) : c.status = "passed"
    /\ proposals[p].bundle # None => bundles[proposals[p].bundle] = "canary"

(* decide_promotion, approved: its first transaction, whose row goes on to *)
(* promote_candidate_pr.                                                   *)
ApprovePromotion(p) ==
    /\ Promotable(p) /\ promoting[p] = Idle
    /\ proposals' = [proposals EXCEPT ![p].status = "approved_for_publication"]
    /\ promoting' = [promoting EXCEPT
                       ![p] = [at |-> "approved", version |-> proposals[p].version,
                               hash |-> proposals[p].hash, pull |-> proposals[p].pull]]
    /\ UNCHANGED <<builds, canaries, runs, bundles, notices, publishing,
                   githubVars, overlapped, disturbed, lost>>

RefusePromotion(p) == proposals[p].status = "awaiting_promotion" /\ Refuse(p)

(* Mutant: the merge does not name the commit.                             *)
MergeableHead(p) == HeadOf(promoting[p].pull) # NoVersion

(* PUT pulls/{number}/merge with the number and the sha of the frozen row: *)
(* GitHub compares the sha with the head of that pull request.             *)
Mergeable(p) ==
    /\ HeadOf(promoting[p].pull) # NoVersion
    /\ HeadOf(promoting[p].pull) = promoting[p].version

(* promote_candidate_pr *)
Merge(p) ==
    /\ promoting[p].at = "approved" /\ Mergeable(p)
    /\ main' = main \cup {[commit |-> HeadOf(promoting[p].pull), proposal |-> p,
                           hash |-> promoting[p].hash]}
    /\ promoting' = [promoting EXCEPT ![p].at = "merged"]
    /\ UNCHANGED <<proposals, builds, canaries, runs, bundles, notices, publishing,
                   pulls, ghostVars>>

(* No draft_pr, GitHub refuses, it is not reached or its answer is lost,   *)
(* or the request dies: the proposal stays approved_for_publication, from  *)
(* which no decision leads.                                                *)
PromotionFails(p) ==
    /\ promoting[p] # Idle
    /\ promoting' = [promoting EXCEPT ![p] = Idle]
    /\ UNCHANGED <<proposals, builds, canaries, runs, bundles, notices, publishing,
                   githubVars, ghostVars>>

(* decide_promotion: its second transaction                                *)
RecordMerge(p) ==
    /\ promoting[p].at = "merged"
    /\ promoting' = [promoting EXCEPT ![p] = Idle]
    /\ proposals' = [proposals EXCEPT ![p].status = "production_pending",
                                      ![p].merge = promoting[p].version]
    /\ UNCHANGED <<builds, canaries, runs, bundles, notices, publishing,
                   githubVars, ghostVars>>

(* attest_promoted_production: the deployment of the merged commit, which  *)
(* the manifest must still name.  The canary stays 'passed'.               *)
AttestProduction(p) ==
    LET k == proposals[p].bundle
    IN  /\ proposals[p].status = "production_pending"
        /\ proposals[p].merge # NoVersion
        /\ \E i \in Latest(p) :
              /\ canaries[p][i].status = "passed"
              /\ canaries' = [canaries EXCEPT ![p][i].routing = FALSE]
              /\ ToControl(p, i)
        /\ k # None => bundles[k] = "canary"
        /\ bundles' = [j \in Bundles |-> IF j = k THEN "trusted" ELSE bundles[j]]
        /\ proposals' = [proposals EXCEPT ![p].status = "published"]
        /\ UNCHANGED <<builds, requestVars, githubVars, ghostVars>>

-------------------------------------------------------------------------------
BuildNext ==
    \/ \E p \in Proposals : Propose(p) \/ LacksEvidence(p) \/ Register(p)
    \/ \E p \in Proposals, b \in Builds : Enqueue(p, b)
    \/ \E b \in Builds : StoreDraft(b) \/ CodingDraft(b) \/ PlanRejected(b) \/ CiAttests(b)
    \/ \E b, clone \in Builds : NewPolicyAttempt(b, clone)

PullNext ==
    \/ \E p \in Proposals : Reserve(p)
    \/ \E x \in publishing : Publish(x) \/ AnswerIsLost(x) \/ PublicationFails(x)

ReviewNext ==
    \/ \E S \in SUBSET Proposals : ApproveCanaries(S)
    \/ \E p \in Proposals :
          \/ DecideOkf(p)
          \/ RefuseCanary(p)
          \/ Expire(p)
          \/ AttestDeployment(p)
    \/ \E p \in Proposals : \E i \in DOMAIN canaries[p] :
          Activate(p, i) \/ Passes(p, i) \/ RollsBack(p, i)

RunNext ==
    \/ \E r \in Runs, p \in Proposals : \E i \in DOMAIN canaries[p] : AssignRun(r, p, i)
    \/ /\ \E r \in Runs : Resume(r) \/ StartRun(r) \/ CancelRun(r)
       /\ UNCHANGED <<proposals, builds, canaries, bundles, requestVars, githubVars,
                      ghostVars>>

PromotionNext ==
    \E p \in Proposals :
        \/ ApprovePromotion(p)
        \/ RefusePromotion(p)
        \/ Merge(p)
        \/ PromotionFails(p)
        \/ RecordMerge(p)
        \/ AttestProduction(p)

Next == BuildNext \/ PullNext \/ ReviewNext \/ RunNext \/ PromotionNext

Spec == Init /\ [][Next]_vars

-------------------------------------------------------------------------------
(* Properties.  A build that reaches a proposal after its review changes   *)
(* the candidate, or the status, under the reviewers' feet (disturbed);    *)
(* approvals of two canaries that overlap do not see one another           *)
(* (overlapped).  What holds in spite of them is stated without them.      *)

(* Whatever drafts, registrations and attestations follow one another, a   *)
(* canary is a commit that trusted CI validated for its proposal.          *)
CanariesWereValidated ==
    \A p \in Proposals : \A c \in CanaryRows(p) :
        /\ c.version \in Builds
        /\ builds[c.version].status = "validated" /\ builds[c.version].proposal = p

(* An active canary routes users to the commit that was deployed and       *)
(* verified.                                                               *)
ActiveIsDeployed ==
    \A p \in Proposals \ disturbed : \A c \in CanaryRows(p) :
        c.status = "active" => proposals[p].version = c.version /\ proposals[p].deployed

(* One code candidate at a time occupies the isolated runtime.             *)
OneCodeCanary ==
    \A p, q \in Proposals \ disturbed :
        /\ p # q
        /\ proposals[p].kind = "code" /\ proposals[q].kind = "code"
        /\ Occupies(p) /\ Occupies(q)
        => overlapped

(* What is merged is what CI validated and a reviewer promoted by its      *)
(* hash, across lost answers, second drafts and second pull requests; and, *)
(* unless the candidate changed after its review, what passed the canary.  *)
MainIsGoverned ==
    \A m \in main :
        /\ builds[m.commit].status = "validated" /\ m.hash = m.commit
        /\ m.proposal \in disturbed
           \/ \E c \in CanaryRows(m.proposal) : c.status = "passed" /\ c.version = m.commit

(* A run that was queued for a candidate and has done nothing is not left  *)
(* to it when the canary ends; runs that waited for their user are.        *)
NeverStartedRunsReturn ==
    \A r \in Runs :
        runs[r].at = "queued" => HasExecutor(r)

(* Knowledge becomes trusted when the commit that carries it is in         *)
(* production, a reviewer approved the bundle, and its canary passed.      *)
KnowledgeIsReleased ==
    [][\A k \in Bundles :
          bundles[k] # "trusted" /\ bundles'[k] = "trusted" =>
              \E p \in Proposals :
                  /\ proposals[p].bundle = k
                  /\ \E m \in main : m.proposal = p /\ m.commit = proposals[p].merge
                  /\ p \in disturbed \/ proposals[p].okf = "approved"]_vars

(* However many drafts it has and whoever publishes them, a proposal has   *)
(* one pull request, unless GitHub's answer to the creation of one is lost.*)
OnePullRequest ==
    \A p \in Proposals \ lost : Cardinality({x \in pulls : x[1] = p}) <= 1

(* What was refused, has expired or is published is not taken up again.    *)
ClosedStaysClosed ==
    [][\A p \in Proposals \ disturbed' :
          proposals[p].status \in {"closed", "published"} =>
              proposals'[p].status = proposals[p].status]_vars
===============================================================================
