-------------------------- MODULE CandidateBuildProofs --------------------------
(***************************************************************************)
(* The safety of candidate builds for any number of generators and builds, *)
(* any rounds, limits, budget and costs: reviews, spending, workers and    *)
(* the authority of retries, whatever is cut, resumed, dispatched twice or *)
(* lost.                                                                   *)
(***************************************************************************)
EXTENDS CandidateBuild, FiniteSetTheorems, TLAPS

-------------------------------------------------------------------------------
(* The inductive invariant.                                                *)

(* Ids are given without a gap, and an id that was not given has no row.   *)
RowInv ==
    /\ \E n \in 0 .. Len(MaxStarts) : Rows = 1 .. n
    /\ \A b \in Builds \ Rows : builds[b] = NoBuild

(* A generator that is not idle has taken a build that exists.             *)
WorkInv == \A g \in Generators : gens[g].pc # "idle" => gens[g].build \in Rows

(* What was spent, in an attempt or on the record it resumes from, passes  *)
(* the budget by less than one turn.                                       *)
Limit == Budget + MaxCost

SpendInv ==
    /\ \A b \in Builds : builds[b].tokens < Limit /\ builds[b].ckpt.tokens < Limit
    /\ \A g \in Generators : gens[g].spent < Limit

(* Only a role takes turns.                                                *)
RoleInv == \A g \in Generators : gens[g].pc = "turn" => gens[g].role \in Roles

(* A draft on its way carries the approval that its build needs.           *)
SubmitInv ==
    \A g \in Generators :
        gens[g].pc = "submitting" /\ BuildOf(g).multi => gens[g].verdict = "approved"

BuildInv ==
    /\ TypeOK
    /\ RowInv
    /\ WorkInv
    /\ RoleInv
    /\ SpendInv
    /\ SubmitInv
    /\ DraftWasReviewed
    /\ InvestigatingHasAWorker
    /\ RetryHasAuthority

-------------------------------------------------------------------------------
(* Lemmas about the operators of the model.                                *)

Busy == {"entering", "turn", "submitting", "failing"}

LEMMA MaxCostIsLargest == MaxCost \in Costs /\ \A cost \in Costs : cost <= MaxCost
<1>1. \E c \in Costs : \A d \in Costs : d <= c
  BY BudgetAssumption
<1>. QED
  BY <1>1 DEF MaxCost

LEMMA LimitType == Limit \in Nat \ {0} /\ Budget <= Limit
BY MaxCostIsLargest, BudgetAssumption DEF Limit

LEMMA FirstBuild == 1 \in Builds /\ Len(MaxStarts) \in Nat
BY BudgetAssumption DEF Builds

LEMMA RecordTypes ==
    /\ NoCheckpoint \in Checkpoint
    /\ Fresh \in Progress
    /\ NoFailure \in Failure
    /\ NoBuild \in Build
    /\ \A b \in Builds : Idle(b) \in Generator /\ Idle(b).pc = "idle"
                         /\ Idle(b).build = b /\ Idle(b).spent = 0
<1>1. NoCheckpoint \in Checkpoint
  BY DEF NoCheckpoint, Checkpoint
<1>2. Fresh \in Progress
  BY DEF Fresh, Progress
<1>3. NoFailure \in Failure
  BY DEF NoFailure, Failure, Classes
<1>4. NoBuild \in Build
  BY <1>1, <1>3 DEF NoBuild, Build, Statuses, Files, Verdicts
<1>5. ASSUME NEW b \in Builds
      PROVE  /\ Idle(b) \in Generator /\ Idle(b).pc = "idle"
             /\ Idle(b).build = b /\ Idle(b).spent = 0
  BY <1>2, <1>3 DEF Idle, Generator, Files, Verdicts
<1>. QED
  BY <1>1, <1>2, <1>3, <1>4, <1>5

LEMMA FaultType ==
    ASSUME NEW class \in Classes, NEW retryable \in BOOLEAN
    PROVE  Fault(class, retryable) \in Failure
BY DEF Fault, Failure

LEMMA UnclassifiedType ==
    ASSUME NEW g
    PROVE  Unclassified(g) \in Failure
BY DEF Unclassified, Fault, Failure, Classes

LEMMA FailingType ==
    ASSUME NEW gen \in Generator, NEW f \in Failure
    PROVE  /\ Failing(gen, f) \in Generator
           /\ Failing(gen, f).pc = "failing" /\ Failing(gen, f).build = gen.build
           /\ Failing(gen, f).spent = 0 /\ Failing(gen, f).failure = f
<1>1. gen.build \in Builds
  BY DEF Generator
<1>2. Fresh \in Progress
  BY RecordTypes
<1>. QED
  BY <1>1, <1>2 DEF Failing, Idle, Generator, Files, Verdicts

\* an attempt begins with what the checkpoint has kept
LEMMA StartType ==
    ASSUME NEW bd \in Build, NEW b \in Builds
    PROVE  /\ Start(bd, b) \in Generator
           /\ Start(bd, b).pc = "entering" /\ Start(bd, b).build = b
           /\ Start(bd, b).spent \in {0, bd.ckpt.tokens}
<1> DEFINE kept == bd.ckpt.phase = "author" => bd.files # "none"
           ck   == IF kept THEN bd.ckpt ELSE NoCheckpoint
<1>1. bd.ckpt \in Checkpoint /\ bd.files \in Files
  BY DEF Build
<1>2. ck \in Checkpoint /\ (ck = bd.ckpt \/ ck = NoCheckpoint)
  BY <1>1, RecordTypes
<1>3. ck.tokens \in {0, bd.ckpt.tokens}
  BY <1>2 DEF NoCheckpoint
<1>. HIDE DEF ck
<1> DEFINE resume == IF ck.phase = "role" THEN ProgressOf(ck) ELSE Fresh
           remediate == ck.role = "remediation" \/ "remediation" \in ck.done
<1>4. resume \in Progress
  BY <1>2, RecordTypes DEF Checkpoint, Progress, ProgressOf
<1>5. remediate \in BOOLEAN
  OBVIOUS
<1>6. Start(bd, b) = [Idle(b) EXCEPT !.pc = "entering", !.spent = ck.tokens,
                         !.done = ck.done, !.staged = bd.files, !.resume = resume,
                         !.remediate = remediate]
  BY DEF Start, ck
<1>7. ck.tokens \in Nat /\ ck.done \in SUBSET Authors
  BY <1>2 DEF Checkpoint
<1>. HIDE DEF resume, remediate
<1>8. Idle(b) \in Generator /\ Idle(b).build = b
  BY RecordTypes
<1> DEFINE begun == [Idle(b) EXCEPT !.pc = "entering", !.spent = ck.tokens,
                                    !.done = ck.done]
<1>9. /\ begun \in Generator
      /\ begun.pc = "entering" /\ begun.build = b /\ begun.spent = ck.tokens
  BY <1>7, <1>8 DEF Generator
<1>10. Start(bd, b) = [begun EXCEPT !.staged = bd.files, !.resume = resume,
                                    !.remediate = remediate]
  BY <1>6
<1>. HIDE DEF begun
<1>. QED
  BY <1>1, <1>3, <1>4, <1>5, <1>9, <1>10 DEF Generator

LEMMA CompactedType ==
    ASSUME NEW ck \in Checkpoint
    PROVE  /\ Compacted(ck) \in Checkpoint
           /\ Compacted(ck).phase = "role" /\ Compacted(ck).round = 0
           /\ Compacted(ck).role = ck.role /\ Compacted(ck).tokens = ck.tokens
<1>1. ck.restarts + 1 \in Nat
  BY DEF Checkpoint
<1>. QED
  BY <1>1 DEF Compacted, Checkpoint

\* a failure settles a row or leaves it to be retried
LEMMA AfterFailureType ==
    ASSUME NEW bd \in Build, NEW f \in Failure
    PROVE  LET after == AfterFailure(bd, f)
           IN  /\ after \in Build
               /\ after.status \in {"queued", "failed"}
               /\ after.due => RetryDecision(bd, f)
               /\ after.failure = f /\ after.files = bd.files
               /\ after.multi = bd.multi
               /\ after.tokens = bd.tokens /\ after.ckpt.tokens = bd.ckpt.tokens
               /\ after.ckpt \in {bd.ckpt, Compacted(bd.ckpt)}
<1> DEFINE compact  == ~bd.commit /\ CompactRestart(bd, f)
           eligible == RetryDecision(bd, f)
           status   == IF eligible THEN "queued" ELSE "failed"
           ckpt     == IF compact THEN Compacted(bd.ckpt) ELSE bd.ckpt
<1>1. bd.ckpt \in Checkpoint /\ bd.commit \in BOOLEAN
  BY DEF Build
<1>2. /\ ckpt \in Checkpoint /\ ckpt.tokens = bd.ckpt.tokens
      /\ ckpt \in {bd.ckpt, Compacted(bd.ckpt)}
  BY <1>1, CompactedType
<1>3. compact \in BOOLEAN /\ eligible \in BOOLEAN
  BY DEF CompactRestart, RetryDecision
<1>4. AfterFailure(bd, f) =
        [bd EXCEPT !.status = status, !.failure = f, !.due = eligible,
                   !.compacted = compact, !.ckpt = ckpt]
  BY DEF AfterFailure
<1>5. status \in {"queued", "failed"}
  OBVIOUS
<1>6. eligible => RetryDecision(bd, f)
  OBVIOUS
<1>. HIDE DEF compact, eligible, status, ckpt
<1>7. AfterFailure(bd, f) \in Build
  BY <1>2, <1>3, <1>4, <1>5 DEF Build, Statuses
<1>8. /\ AfterFailure(bd, f).status = status /\ AfterFailure(bd, f).failure = f
      /\ AfterFailure(bd, f).due = eligible /\ AfterFailure(bd, f).ckpt = ckpt
      /\ AfterFailure(bd, f).files = bd.files /\ AfterFailure(bd, f).multi = bd.multi
      /\ AfterFailure(bd, f).tokens = bd.tokens
  BY <1>4 DEF Build
<1>. QED
  BY <1>2, <1>5, <1>6, <1>7, <1>8

-------------------------------------------------------------------------------
(* What the work of a generator does: it goes on, or fails, with the build *)
(* it has, and stores at most a checkpoint in a row under investigation.   *)

Goes(g, next) ==
    /\ gens' = [gens EXCEPT ![g] = next]
    /\ next \in Generator
    /\ next.build = gens[g].build
    /\ next.pc \in Busy
    /\ next.spent < Limit
    /\ next.pc = "turn" => next.role \in Roles
    /\ next.pc = "submitting" /\ BuildOf(g).multi => next.verdict = "approved"

Stores(g) ==
    \/ UNCHANGED builds
    \/ /\ BuildOf(g).status = "investigating"
       /\ \E ck \in Checkpoint, files \in Files, tokens \in Nat :
             /\ ck.tokens < Limit /\ tokens < Limit
             /\ builds' = [builds EXCEPT ![gens[g].build] =
                              [@ EXCEPT !.ckpt = ck, !.files = files, !.tokens = tokens]]

Works(g) == Stores(g) /\ \E next \in Generator : Goes(g, next)

LEMMA FailWorks ==
    ASSUME TypeOK, NEW g \in Generators, NEW f \in Failure, Fail(g, f)
    PROVE  Works(g)
<1>1. gens[g] \in Generator
  BY DEF TypeOK
<1>2. Goes(g, Failing(gens[g], f))
  BY <1>1, FailingType, LimitType DEF Fail, Become, Goes, Busy
<1>. QED
  BY <1>1, <1>2, FailingType DEF Works, Stores, Fail

\* a checkpoint is accepted, or refused
LEMMA SaveWorks ==
    ASSUME TypeOK, SpendInv, NEW g \in Generators,
           NEW next \in Generator, next.build = gens[g].build,
           next.pc \in {"entering", "turn"}, next.pc = "turn" => next.role \in Roles,
           next.spent < Limit,
           NEW ck \in Checkpoint, ck.tokens = next.spent,
           SaveOrFail(g, next, ck)
    PROVE  Works(g)
<1>1. CASE SaveRefused(g, ck)
  BY <1>1, FailWorks, UnclassifiedType DEF SaveRefused, Fail
<1>2. CASE Save(g, next, ck)
  <2> DEFINE b == gens[g].build
             saved == [next EXCEPT !.saved = TRUE]
             tokens == IF ck.tokens > builds[b].tokens THEN ck.tokens ELSE builds[b].tokens
  <2>1. b \in Builds /\ builds[b] \in Build /\ next.staged \in Files
    BY DEF TypeOK, Generator
  <2>2. builds[b].tokens \in Nat /\ builds[b].tokens < Limit /\ ck.tokens \in Nat
    BY <2>1 DEF SpendInv, Build, Checkpoint
  <2>3. saved \in Generator /\ saved.build = next.build /\ saved.pc = next.pc
        /\ saved.spent = next.spent /\ saved.role = next.role
    BY DEF Generator
  <2>4. Goes(g, saved)
    BY <1>2, <2>3 DEF Save, Become, Goes, Busy
  <2>5. tokens \in Nat /\ tokens < Limit
    BY <2>2
  <2>6. builds' = [builds EXCEPT ![b] = [builds[b] EXCEPT
                      !.ckpt = ck, !.files = next.staged, !.tokens = tokens]]
    BY <1>2, <2>1 DEF Save, TypeOK
  <2>7. BuildOf(g).status = "investigating"
    BY <1>2 DEF Save
  <2>. HIDE DEF tokens, saved
  <2>. QED
    BY <2>1, <2>3, <2>4, <2>5, <2>6, <2>7 DEF Works, Stores
<1>. QED
  BY <1>1, <1>2 DEF SaveOrFail

LEMMA RoleCheckpointType ==
    ASSUME NEW gen \in Generator
    PROVE  /\ RoleCheckpoint(gen) \in Checkpoint /\ RoleCheckpoint(gen).tokens = gen.spent
           /\ AuthorCheckpoint(gen) \in Checkpoint /\ AuthorCheckpoint(gen).tokens = gen.spent
<1>1. RoleCheckpoint(gen) \in Checkpoint /\ RoleCheckpoint(gen).tokens = gen.spent
  BY DEF RoleCheckpoint, Generator, Checkpoint
<1>2. AuthorCheckpoint(gen) \in Checkpoint /\ AuthorCheckpoint(gen).tokens = gen.spent
  BY DEF AuthorCheckpoint, NoCheckpoint, Generator, Checkpoint
<1>. QED
  BY <1>1, <1>2

\* whoever asks the model has tokens left, and pays for one turn
LEMMA AnsweredType ==
    ASSUME NEW gen \in Generator, gen.role \in Roles, MayAsk(gen), NEW cost \in Costs
    PROVE  /\ Answered(gen, cost) \in Generator
           /\ Answered(gen, cost).spent < Limit
           /\ Answered(gen, cost).build = gen.build /\ Answered(gen, cost).pc = gen.pc
           /\ Answered(gen, cost).role = gen.role
<1>1. /\ gen.spent \in Nat /\ gen.roleTokens \in Nat /\ RoleLimit[gen.role] \in Nat
      /\ cost \in Nat /\ cost <= MaxCost /\ MaxCost \in Nat /\ Budget \in Nat
  BY BudgetAssumption, MaxCostIsLargest DEF Generator
<1>2. gen.spent < Budget
  BY <1>1 DEF MayAsk, OutOfTokens, RoleBudget
<1>3. gen.spent + cost \in Nat /\ gen.roleTokens + cost \in Nat /\ gen.spent + cost < Limit
  BY <1>1, <1>2 DEF Limit
<1>4. /\ Answered(gen, cost) \in Generator
      /\ Answered(gen, cost).spent < Limit
      /\ Answered(gen, cost).build = gen.build /\ Answered(gen, cost).pc = gen.pc
      /\ Answered(gen, cost).role = gen.role
  BY <1>3 DEF Answered, Generator
<1>. QED
  BY <1>4

LEMMA OnwardType ==
    ASSUME NEW gen \in Generator
    PROVE  /\ Onward(gen) \in Generator /\ Onward(gen).spent = gen.spent
           /\ Onward(gen).build = gen.build /\ Onward(gen).pc = gen.pc
           /\ Onward(gen).role = gen.role
BY DEF Onward, Generator

LEMMA RolesOfFiles == Authors \subseteq Roles /\ "reviewer" \in Roles
BY DEF Roles

\* a role is entered, from where it stood or afresh
LEMMA EnterType ==
    ASSUME NEW gen \in Generator, NEW role \in Roles
    PROVE  /\ Enter(gen, role) \in Generator
           /\ Enter(gen, role).pc = "turn" /\ Enter(gen, role).role = role
           /\ Enter(gen, role).build = gen.build /\ Enter(gen, role).spent = gen.spent
<1> DEFINE progress == IF gen.resume.role = role THEN gen.resume ELSE Fresh
           resume == IF role = gen.resume.role /\ role \in Authors THEN Fresh
                                                                 ELSE gen.resume
           verdict == IF role \in Authors THEN "none" ELSE gen.verdict
<1>1. progress \in Progress /\ resume \in Progress /\ verdict \in Verdicts
  BY RecordTypes DEF Generator, Verdicts
<1> DEFINE entered == [gen EXCEPT !.pc = "turn", !.role = role, !.resume = resume,
                                  !.verdict = verdict]
<1>2. Enter(gen, role) =
        [entered EXCEPT !.round = progress.round, !.roleTokens = progress.roleTokens,
                        !.errs = progress.errs, !.restarts = progress.restarts]
  BY DEF Enter, Generator
<1>. HIDE DEF progress, resume, verdict
<1>3. /\ entered \in Generator
      /\ entered.pc = "turn" /\ entered.role = role
      /\ entered.build = gen.build /\ entered.spent = gen.spent
  BY <1>1 DEF Generator
<1>. HIDE DEF entered
<1>4. /\ progress.round \in Nat /\ progress.roleTokens \in Nat
      /\ progress.errs \in BOOLEAN /\ progress.restarts \in Nat
  BY <1>1 DEF Progress
<1>. QED
  BY <1>2, <1>3, <1>4 DEF Generator

LEMMA EnterRoleWorks ==
    ASSUME TypeOK, SpendInv, NEW g \in Generators, EnterRole(g)
    PROVE  Works(g)
<1> DEFINE gen  == gens[g]
           role == NextRole(gen, BuildOf(g))
           next == Enter(gen, role)
<1>1. gen \in Generator /\ gen.spent < Limit /\ gen.pc = "entering"
  BY DEF TypeOK, SpendInv, EnterRole
<1>2. /\ role \in Roles \cup {"none"}
      /\ role = "none" => ~BuildOf(g).multi
  BY DEF NextRole, FirstRole, Roles, Authors
<1>3. CASE role = "none" /\ Become(g, [gen EXCEPT !.pc = "submitting"]) /\ UNCHANGED builds
  <2>1. /\ [gen EXCEPT !.pc = "submitting"] \in Generator
        /\ [gen EXCEPT !.pc = "submitting"].build = gen.build
        /\ [gen EXCEPT !.pc = "submitting"].pc = "submitting"
        /\ [gen EXCEPT !.pc = "submitting"].spent = gen.spent
    BY <1>1 DEF Generator
  <2>. QED
    BY <2>1, <1>1, <1>2, <1>3 DEF Works, Goes, Stores, Become, Busy
<1>4. CASE \E f \in {Fault("other", TRUE), Fault("other", FALSE)} : Fail(g, f)
  BY <1>4, FaultType, FailWorks DEF Classes
<1>5. ASSUME role # "none"
      PROVE  /\ next \in Generator /\ next.pc = "turn" /\ next.role = role
             /\ next.build = gen.build /\ next.spent = gen.spent /\ role \in Roles
  BY <1>1, <1>2, <1>5, EnterType
<1>. HIDE DEF next, role
<1>6. CASE role # "none" /\ Become(g, next) /\ UNCHANGED builds
  BY <1>1, <1>5, <1>6 DEF Works, Goes, Stores, Become, Busy
<1>7. CASE role # "none" /\ SaveOrFail(g, next, RoleCheckpoint(next))
  BY <1>1, <1>5, <1>7, RoleCheckpointType, SaveWorks
<1>. QED
  BY <1>3, <1>4, <1>6, <1>7 DEF EnterRole, role, next

\* one turn of a role
LEMMA TurnWorks ==
    ASSUME TypeOK, RoleInv, SpendInv, NEW g \in Generators,
           \/ RoleStops(g) \/ ToolTurn(g) \/ RejectedTurn(g) \/ LastRoundFails(g)
           \/ AuthorAccepted(g) \/ ReviewerApproves(g) \/ ReviewerRejects(g)
    PROVE  Works(g)
<1> DEFINE gen == gens[g]
<1>1. gen \in Generator /\ gen.pc = "turn" /\ gen.role \in Roles
  BY DEF TypeOK, RoleInv, RoleStops, ToolTurn, RejectedTurn, LastRoundFails,
         AuthorAccepted, ReviewerApproves, ReviewerRejects
<1>2. \A class \in Classes, retryable \in BOOLEAN : Fail(g, Fault(class, retryable)) => Works(g)
  BY FaultType, FailWorks
<1>3. /\ {"files", "budget", "other", "terminal"} \subseteq Classes
      /\ (gen.role \in Authors) \in BOOLEAN
  BY DEF Classes
<1>4. CASE RoleStops(g)
  BY <1>2, <1>3, <1>4 DEF RoleStops
<1>5. CASE LastRoundFails(g)
  BY <1>2, <1>3, <1>5, FailWorks, UnclassifiedType DEF LastRoundFails
<1>6. ASSUME MayAsk(gen), NEW cost \in Costs, NEW staged \in Files, NEW errs \in BOOLEAN
      PROVE  LET next == [Answered(gen, cost) EXCEPT !.staged = staged]
                 broken == [Onward(Answered(gen, cost)) EXCEPT !.errs = errs, !.staged = staged]
             IN  \A n \in {Onward(next), Onward(Answered(gen, cost)), broken} :
                     /\ n \in Generator /\ n.build = gen.build /\ n.pc = "turn"
                     /\ n.role = gen.role /\ n.spent < Limit
  <2> DEFINE answered == Answered(gen, cost)
             next == [answered EXCEPT !.staged = staged]
             onward == Onward(answered)
             broken == [onward EXCEPT !.errs = errs, !.staged = staged]
  <2>1. /\ answered \in Generator /\ answered.spent < Limit
        /\ answered.build = gen.build /\ answered.pc = "turn" /\ answered.role = gen.role
    BY <1>1, <1>6, AnsweredType
  <2>. HIDE DEF answered
  <2>2. /\ next \in Generator /\ next.spent < Limit
        /\ next.build = gen.build /\ next.pc = "turn" /\ next.role = gen.role
    BY <2>1 DEF Generator
  <2>3. /\ onward \in Generator /\ onward.spent < Limit
        /\ onward.build = gen.build /\ onward.pc = "turn" /\ onward.role = gen.role
    BY <2>1, OnwardType
  <2>. HIDE DEF next, onward
  <2>4. /\ Onward(next) \in Generator /\ Onward(next).spent < Limit
        /\ Onward(next).build = gen.build /\ Onward(next).pc = "turn"
        /\ Onward(next).role = gen.role
    BY <2>2, OnwardType
  <2>5. /\ broken \in Generator /\ broken.spent < Limit
        /\ broken.build = gen.build /\ broken.pc = "turn" /\ broken.role = gen.role
    BY <2>3 DEF Generator
  <2>. QED
    BY <2>3, <2>4, <2>5 DEF next, onward, answered
<1>7. ASSUME NEW n \in Generator, n.build = gen.build, n.pc = "turn",
             n.role = gen.role, n.spent < Limit, SaveOrFail(g, n, RoleCheckpoint(n))
      PROVE  Works(g)
  BY <1>1, <1>7, RoleCheckpointType, SaveWorks
<1>8. CASE ToolTurn(g)
  <2>1. PICK cost \in Costs, staged \in Files :
          LET n == Onward([Answered(gen, cost) EXCEPT !.staged = staged])
          IN  SaveOrFail(g, n, RoleCheckpoint(n))
    BY <1>8 DEF ToolTurn, StagedByTools
  <2>2. MayAsk(gen)
    BY <1>8 DEF ToolTurn
  <2>. QED
    BY <2>1, <2>2, <1>6, <1>7
<1>9. CASE RejectedTurn(g)
  <2>1. PICK cost \in Costs, staged \in Files :
          \E n \in {Malformed(gen, cost), ContractBroken(gen, cost, staged)} :
              SaveOrFail(g, n, RoleCheckpoint(n))
    BY <1>9 DEF RejectedTurn
  <2>2. MayAsk(gen)
    BY <1>9 DEF RejectedTurn
  <2>. QED
    BY <2>1, <2>2, <1>3, <1>6, <1>7 DEF Malformed, ContractBroken
<1>10. CASE AuthorAccepted(g)
  <2>1. PICK cost \in Costs :
          LET n == [Answered(gen, cost) EXCEPT !.pc = "entering", !.staged = "good",
                                               !.done = @ \cup {gen.role}]
          IN  SaveOrFail(g, n, AuthorCheckpoint(n))
    BY <1>10 DEF AuthorAccepted
  <2> DEFINE answered == Answered(gen, cost)
             done == answered.done \cup {gen.role}
             n == [answered EXCEPT !.pc = "entering", !.staged = "good", !.done = done]
  <2>2. MayAsk(gen) /\ gen.role \in Authors
    BY <1>10 DEF AuthorAccepted
  <2>3. answered \in Generator /\ answered.spent < Limit /\ answered.build = gen.build
    BY <2>2, <1>1, AnsweredType
  <2>4. SaveOrFail(g, n, AuthorCheckpoint(n))
    BY <2>1
  <2>. HIDE DEF answered
  <2>5. done \in SUBSET Authors
    BY <2>2, <2>3 DEF Generator
  <2>. HIDE DEF done
  <2>6. n \in Generator /\ n.build = gen.build /\ n.pc = "entering" /\ n.spent < Limit
    BY <2>3, <2>5 DEF Generator, Files
  <2>. HIDE DEF n
  <2>. QED
    BY <2>4, <2>6, RoleCheckpointType, SaveWorks
<1>11. CASE ReviewerApproves(g)
  <2>1. CASE \E class \in {"other", "terminal"} : Fail(g, Fault(class, TRUE))
    BY <2>1, <1>2, <1>3
  <2>2. ASSUME NEW cost \in Costs, NEW files \in Files,
               Become(g, [Answered(gen, cost) EXCEPT
                   !.pc = "submitting", !.staged = files, !.verdict = "approved"]),
               UNCHANGED builds
        PROVE  Works(g)
    <3> DEFINE answered == Answered(gen, cost)
               n == [answered EXCEPT !.pc = "submitting", !.staged = files,
                                     !.verdict = "approved"]
    <3>1. answered \in Generator /\ answered.spent < Limit /\ answered.build = gen.build
      BY <1>1, <1>11, AnsweredType DEF ReviewerApproves
    <3>2. Become(g, n)
      BY <2>2
    <3>. HIDE DEF answered
    <3>3. /\ n \in Generator /\ n.build = gen.build /\ n.pc = "submitting"
          /\ n.spent < Limit /\ n.verdict = "approved"
      BY <3>1 DEF Generator, Verdicts
    <3>. HIDE DEF n
    <3>. QED
      BY <2>2, <3>2, <3>3 DEF Works, Goes, Stores, Become, Busy
  <2>. QED
    BY <2>1, <2>2, <1>11 DEF ReviewerApproves
<1>12. CASE ReviewerRejects(g)
  <2>1. CASE Fail(g, Fault("terminal", FALSE))
    BY <2>1, <1>2, <1>3
  <2>2. ASSUME NEW cost \in Costs,
               Become(g, [Answered(gen, cost) EXCEPT
                   !.pc = "entering", !.remediate = TRUE, !.verdict = "rejected"]),
               UNCHANGED builds
        PROVE  Works(g)
    <3> DEFINE answered == Answered(gen, cost)
               n == [answered EXCEPT !.pc = "entering", !.remediate = TRUE,
                                     !.verdict = "rejected"]
    <3>1. answered \in Generator /\ answered.spent < Limit /\ answered.build = gen.build
      BY <1>1, <1>12, AnsweredType DEF ReviewerRejects
    <3>2. Become(g, n)
      BY <2>2
    <3>. HIDE DEF answered
    <3>3. n \in Generator /\ n.build = gen.build /\ n.pc = "entering" /\ n.spent < Limit
      BY <3>1 DEF Generator, Verdicts
    <3>. HIDE DEF n
    <3>. QED
      BY <2>2, <3>2, <3>3 DEF Works, Goes, Stores, Become, Busy
  <2>. QED
    BY <2>1, <2>2, <1>12 DEF ReviewerRejects
<1>. QED
  BY <1>4, <1>5, <1>8, <1>9, <1>10, <1>11, <1>12

LEMMA InterruptionWorks ==
    ASSUME TypeOK, NEW g \in Generators, ProviderFailure(g) \/ Timeout(g)
    PROVE  Works(g)
<1>1. \A f \in {Fault("provider", TRUE), Fault("provider", FALSE), Fault("other", TRUE),
                Fault("other", FALSE), Unclassified(g)} : Fail(g, f) => Works(g)
  BY FaultType, UnclassifiedType, FailWorks DEF Classes
<1>. QED
  BY <1>1 DEF ProviderFailure, Timeout

-------------------------------------------------------------------------------
(* What any step may do to a row ...                                       *)

Kept(b) ==
    \/ builds'[b] = builds[b]
    \/ b \in Rows /\ \E current \in BOOLEAN :
          builds'[b] = [builds[b] EXCEPT !.current = current]

Stored(b) ==
    /\ builds[b].status = "investigating"
    /\ \E ck \in Checkpoint, files \in Files, tokens \in Nat :
          /\ ck.tokens < Limit /\ tokens < Limit
          /\ builds'[b] = [builds[b] EXCEPT !.ckpt = ck, !.files = files, !.tokens = tokens]

Created(b) ==
    /\ IsNew(b)
    /\ builds'[b] \in Build
    /\ builds'[b].status = "queued" /\ ~builds'[b].due
    /\ builds'[b].tokens = 0 /\ builds'[b].ckpt = NoCheckpoint

Taken(b) ==
    /\ builds[b].status \in {"queued", "failed"}
    /\ builds'[b] = [builds[b] EXCEPT !.status = "investigating"]

Cancelled(b) ==
    /\ builds[b].status \in {"queued", "investigating"}
    /\ builds'[b] = [builds[b] EXCEPT !.status = "cancelled"]

Tested(b) ==
    /\ builds[b].status = "drafted"
    /\ CiPasses(b) \/ \E clone \in Builds : CiFails(b, clone)
    /\ \/ builds'[b] = [builds[b] EXCEPT !.status = "validated", !.commit = TRUE]
       \/ builds'[b] = [builds[b] EXCEPT !.status = "failed"]

Drafted(b) ==
    /\ Draftable(builds[b])
    /\ builds'[b] \in Build
    /\ builds'[b].status = "drafted" /\ builds'[b].ckpt = NoCheckpoint
    /\ builds'[b].tokens < Limit
    /\ builds'[b].multi = builds[b].multi
    /\ builds[b].multi => builds'[b].verdict = "approved"

Failed(b) ==
    /\ \/ Draftable(builds[b])
       \/ \E e \in Embedded : gens[e].pc = "failing" /\ gens[e].build = b
    /\ \E f \in Failure : builds'[b] = AfterFailure(builds[b], f)

RowMoves(b) ==
    \/ Kept(b) \/ Stored(b) \/ Created(b) \/ Taken(b)
    \/ Cancelled(b) \/ Tested(b) \/ Drafted(b) \/ Failed(b)

RowsMove ==
    /\ builds' = [b \in Builds |-> builds'[b]]
    /\ \A b \in Builds : RowMoves(b)

(* ... to a generator ...                                                  *)
Went(g) ==
    /\ gens[g].pc # "idle"
    /\ gens'[g] \in Generator
    /\ gens'[g].build = gens[g].build
    /\ gens'[g].pc \in Busy
    /\ gens'[g].spent < Limit
    /\ gens'[g].pc = "turn" => gens'[g].role \in Roles
    /\ gens'[g].pc = "submitting" /\ BuildOf(g).multi => gens'[g].verdict = "approved"

Began(g) ==
    /\ gens[g].pc = "idle"
    /\ gens'[g] \in Generator
    /\ gens'[g].build \in Rows
    /\ gens'[g].pc \in {"starting", "entering"}
    /\ gens'[g].spent < Limit

Rested(g) == gens'[g] = Idle(1)

GeneratorsMove ==
    /\ gens' = [g \in Generators |-> gens'[g]]
    /\ \A g \in Generators : gens'[g] = gens[g] \/ Went(g) \/ Began(g) \/ Rested(g)

(* ... and to the builds under investigation.                              *)
WorkersMove ==
    /\ \A b \in Builds : builds'[b].status = "investigating" =>
          \/ builds[b].status = "investigating"
          \/ \E g \in Generators : gens'[g].pc \in Busy /\ gens'[g].build = b
    /\ \A g \in Generators : gens[g].pc \in Busy =>
          \/ gens'[g].pc \in Busy /\ gens'[g].build = gens[g].build
          \/ gens[g].build \in orphans'
          \/ builds'[gens[g].build].status # "investigating"
    /\ orphans \subseteq orphans'

Moves == RowsMove /\ GeneratorsMove /\ WorkersMove

(* What TypeOK says of the variables that say nothing of rows.             *)
RestTyped ==
    /\ proposal \in [retired : BOOLEAN, candidate : {"diagnosis", "draft", "validated"}]
    /\ orphans \subseteq Builds
    /\ starts \in [Builds -> Nat]
    /\ faults \in Nat

\* an id that is given is the next one
LEMMA NewIsNext ==
    ASSUME RowInv, NEW b \in Builds, IsNew(b)
    PROVE  /\ b \notin Rows /\ builds[b] = NoBuild
           /\ \E n \in 0 .. Len(MaxStarts) : Rows \cup {b} = 1 .. n
<1>1. PICK n \in 0 .. Len(MaxStarts) : Rows = 1 .. n
  BY DEF RowInv
<1>2. n \in Nat /\ Len(MaxStarts) \in Nat
  BY <1>1, FirstBuild
<1>3. Cardinality(1 .. n) = n
  BY <1>2, FS_Interval
<1>4. b = n + 1
  BY <1>1, <1>3 DEF IsNew
<1>5. b \notin Rows
  BY <1>1, <1>2, <1>4
<1>6. Rows \cup {b} = 1 .. (n + 1) /\ n + 1 \in 0 .. Len(MaxStarts)
  BY <1>1, <1>2, <1>4 DEF Builds
<1>. QED
  BY <1>5, <1>6 DEF RowInv

\* what a moved row is
LEMMA MovedRow ==
    ASSUME TypeOK, RowInv, WorkInv, SpendInv, DraftWasReviewed, RetryHasAuthority,
           NEW b \in Builds, RowMoves(b)
    PROVE  /\ builds'[b] \in Build
           /\ b \in Rows => builds'[b].status # "absent" /\ builds'[b].multi = builds[b].multi
           /\ b \notin Rows => builds'[b] = builds[b] \/ Created(b)
           /\ builds'[b].tokens < Limit /\ builds'[b].ckpt.tokens < Limit
           /\ builds'[b].status \in {"drafted", "validated"} /\ builds'[b].multi
                => builds'[b].verdict = "approved"
           /\ builds'[b].status = "queued" /\ builds'[b].due
              /\ builds'[b].failure.class # "provider" =>
                  /\ builds'[b].tokens < Budget
                  /\ builds'[b].ckpt.phase = "author" => builds'[b].files # "none"
                  /\ builds'[b].ckpt.phase # "none"
                  /\ builds'[b].ckpt.role # "none" => RoundsLeft(builds'[b].ckpt)
<1> DEFINE Authority(bd) ==
        bd.status = "queued" /\ bd.due /\ bd.failure.class # "provider" =>
            /\ bd.tokens < Budget
            /\ bd.ckpt.phase = "author" => bd.files # "none"
            /\ bd.ckpt.phase # "none"
            /\ bd.ckpt.role # "none" => RoundsLeft(bd.ckpt)
        Reviewed(bd) ==
            bd.status \in {"drafted", "validated"} /\ bd.multi => bd.verdict = "approved"
<1>1. /\ builds[b] \in Build
      /\ builds[b].tokens < Limit /\ builds[b].ckpt.tokens < Limit
      /\ Reviewed(builds[b]) /\ Authority(builds[b])
      /\ b \in Rows <=> builds[b].status # "absent"
  BY DEF TypeOK, SpendInv, DraftWasReviewed, RetryHasAuthority, Rows
<1>2. CASE Kept(b)
  BY <1>1, <1>2 DEF Kept, Build
<1>3. CASE Stored(b)
  <2>1. PICK ck \in Checkpoint, files \in Files, tokens \in Nat :
          /\ ck.tokens < Limit /\ tokens < Limit
          /\ builds'[b] = [builds[b] EXCEPT !.ckpt = ck, !.files = files, !.tokens = tokens]
    BY <1>3 DEF Stored
  <2>2. /\ builds'[b] \in Build /\ builds'[b].status = "investigating"
        /\ builds'[b].ckpt = ck /\ builds'[b].tokens = tokens
        /\ builds'[b].multi = builds[b].multi
    BY <1>1, <1>3, <2>1 DEF Stored, Build
  <2>. QED
    BY <1>1, <1>3, <2>1, <2>2 DEF Stored
<1>4. CASE Created(b)
  <2>1. b \notin Rows
    BY <1>4, NewIsNext DEF Created
  <2>. QED
    BY <1>4, <2>1, LimitType DEF Created, NoCheckpoint
<1>5. CASE Taken(b) \/ Cancelled(b)
  BY <1>1, <1>5 DEF Taken, Cancelled, Build, Statuses
<1>6. CASE Tested(b)
  BY <1>1, <1>6 DEF Tested, Build, Statuses
<1>7. CASE Drafted(b)
  BY <1>1, <1>7, LimitType DEF Drafted, NoCheckpoint, Draftable
<1>8. CASE Failed(b) /\ b \in Rows
  <2>1. PICK f \in Failure : builds'[b] = AfterFailure(builds[b], f)
    BY <1>8 DEF Failed
  <2>2. LET after == builds'[b]
        IN  /\ after \in Build
            /\ after.status \in {"queued", "failed"}
            /\ after.due => RetryDecision(builds[b], f)
            /\ after.failure = f /\ after.files = builds[b].files
            /\ after.multi = builds[b].multi
            /\ after.tokens = builds[b].tokens
            /\ after.ckpt.tokens = builds[b].ckpt.tokens
            /\ after.ckpt \in {builds[b].ckpt, Compacted(builds[b].ckpt)}
    BY <1>1, <2>1, AfterFailureType
  <2>3. ASSUME builds'[b].due, f.class # "provider" PROVE Authority(builds'[b])
    <3>1. Resumable(builds[b])
      BY <2>2, <2>3 DEF RetryDecision, ProviderRetry, CompactRestart, StructuralRetry
    <3>2. CASE builds'[b].ckpt = builds[b].ckpt
      BY <3>1, <3>2, <2>2 DEF Resumable, ValidCheckpoint
    <3>3. CASE builds'[b].ckpt = Compacted(builds[b].ckpt)
      <4>1. builds[b].ckpt \in Checkpoint
        BY <1>1 DEF Build
      <4>2. builds'[b].ckpt.phase = "role" /\ builds'[b].ckpt.round = 0
            /\ builds'[b].ckpt.role = builds[b].ckpt.role
        BY <3>3, <4>1, CompactedType
      <4>3. builds[b].ckpt.role # "none" => MaxRounds[builds[b].ckpt.role] \in Nat \ {0}
        BY <4>1, BudgetAssumption DEF Checkpoint
      <4>. QED
        BY <3>1, <4>2, <4>3, <2>2 DEF Resumable, RoundsLeft
    <3>. QED
      BY <3>2, <3>3, <2>2
  <2>. QED
    BY <1>1, <1>8, <2>2, <2>3
<1>9. CASE Failed(b) /\ b \notin Rows
  <2>1. FALSE
    BY <1>1, <1>9 DEF Failed, Draftable, WorkInv, Generators
  <2>. QED
    BY <2>1
<1>. QED
  BY <1>2, <1>3, <1>4, <1>5, <1>6, <1>7, <1>8, <1>9 DEF RowMoves

\* the steps keep the invariant, because of what they may do
LEMMA MovesKeepInv ==
    ASSUME BuildInv, Moves, RestTyped'
    PROVE  BuildInv'
<1>1. ASSUME NEW b \in Builds
      PROVE  /\ builds'[b] \in Build
             /\ b \in Rows => builds'[b].status # "absent" /\ builds'[b].multi = builds[b].multi
             /\ b \notin Rows => builds'[b] = builds[b] \/ Created(b)
             /\ builds'[b].tokens < Limit /\ builds'[b].ckpt.tokens < Limit
             /\ builds'[b].status \in {"drafted", "validated"} /\ builds'[b].multi
                  => builds'[b].verdict = "approved"
             /\ builds'[b].status = "queued" /\ builds'[b].due
                /\ builds'[b].failure.class # "provider" =>
                    /\ builds'[b].tokens < Budget
                    /\ builds'[b].ckpt.phase = "author" => builds'[b].files # "none"
                    /\ builds'[b].ckpt.phase # "none"
                    /\ builds'[b].ckpt.role # "none" => RoundsLeft(builds'[b].ckpt)
  BY MovedRow DEF BuildInv, Moves, RowsMove
<1>2. ASSUME NEW g \in Generators
      PROVE  gens[g] \in Generator /\ gens'[g] \in Generator
  <2>1. gens[g] \in Generator /\ Idle(1) \in Generator
    BY RecordTypes, FirstBuild DEF BuildInv, TypeOK
  <2>. QED
    BY <2>1 DEF Moves, GeneratorsMove, Went, Began, Rested
<1>3. TypeOK'
  BY <1>1, <1>2 DEF TypeOK, RestTyped, Moves, RowsMove, GeneratorsMove
<1>4. Rows \subseteq Rows'
  BY <1>1 DEF Rows
<1>5. RowInv'
  <2>1. CASE \A b \in Builds \ Rows : builds'[b] = builds[b]
    <3>1. Rows' = Rows
      BY <1>4, <2>1 DEF Rows
    <3>. QED
      BY <2>1, <3>1 DEF BuildInv, RowInv
  <2>2. ASSUME NEW b \in Builds \ Rows, Created(b) PROVE RowInv'
    <3>1. b \in Rows'
      BY <2>2 DEF Created, Rows
    <3>2. ASSUME NEW c \in Builds \ Rows, c # b PROVE builds'[c] = builds[c]
      <4>1. ~Created(c)
        BY <2>2, <3>2 DEF Created, IsNew
      <4>. QED
        BY <4>1, <1>1
    <3>3. Rows' = Rows \cup {b}
      BY <1>4, <3>1, <3>2 DEF Rows
    <3>4. \E n \in 0 .. Len(MaxStarts) : Rows' = 1 .. n
      BY <2>2, <3>3, NewIsNext DEF BuildInv, Created
    <3>. QED
      BY <3>2, <3>3, <3>4 DEF BuildInv, RowInv
  <2>. QED
    BY <2>1, <2>2, <1>1
<1>6. WorkInv'
  BY <1>4, RecordTypes, FirstBuild
  DEF WorkInv, BuildInv, Moves, GeneratorsMove, Went, Began, Rested
<1>7. ASSUME NEW g \in Generators
      PROVE  /\ gens'[g].pc = "turn" => gens'[g].role \in Roles
             /\ gens'[g].spent < Limit
  BY RecordTypes, FirstBuild, LimitType
  DEF BuildInv, RoleInv, SpendInv, Moves, GeneratorsMove, Went, Began, Rested
<1>8. RoleInv' /\ SpendInv'
  BY <1>1, <1>7 DEF RoleInv, SpendInv
<1>9. SubmitInv'
  <2> SUFFICES ASSUME NEW g \in Generators,
                      gens'[g].pc = "submitting", builds'[gens'[g].build].multi
               PROVE  gens'[g].verdict = "approved"
    BY DEF SubmitInv, BuildOf
  <2>1. gens'[g] = gens[g] \/ Went(g)
    BY RecordTypes, FirstBuild DEF Moves, GeneratorsMove, Began, Rested
  <2>2. gens[g].pc # "idle" /\ gens'[g].build = gens[g].build
    BY <2>1 DEF Went
  <2>3. gens[g].build \in Rows
    BY <2>2 DEF BuildInv, WorkInv
  <2>4. BuildOf(g).multi
    BY <2>2, <2>3, <1>1 DEF BuildOf, Rows
  <2>. QED
    BY <2>1, <2>4 DEF Went, BuildInv, SubmitInv
<1>10. DraftWasReviewed' /\ RetryHasAuthority'
  BY <1>1 DEF DraftWasReviewed, RetryHasAuthority
<1>11. InvestigatingHasAWorker'
  <2> SUFFICES ASSUME NEW b \in Builds, builds'[b].status = "investigating", b \notin orphans'
               PROVE  \E g \in Generators : gens'[g].pc \in Busy /\ gens'[g].build = b
    BY DEF InvestigatingHasAWorker, Busy
  <2>1. CASE builds[b].status = "investigating"
    <3>1. b \notin orphans
      BY DEF Moves, WorkersMove
    <3>2. PICK g \in Generators : gens[g].pc \in Busy /\ gens[g].build = b
      BY <2>1, <3>1 DEF BuildInv, InvestigatingHasAWorker, Busy
    <3>. QED
      BY <3>2 DEF Moves, WorkersMove
  <2>2. CASE builds[b].status # "investigating"
    BY <2>2 DEF Moves, WorkersMove
  <2>. QED
    BY <2>1, <2>2
<1>. QED
  BY <1>3, <1>5, <1>6, <1>8, <1>9, <1>10, <1>11 DEF BuildInv

-------------------------------------------------------------------------------
(* Every action moves rows, generators and workers so.                     *)

(* A generator goes on with its build.                                     *)
LEMMA WorkMoves ==
    ASSUME BuildInv, NEW g \in Generators, gens[g].pc # "idle", Works(g),
           UNCHANGED orphans
    PROVE  Moves
<1>1. PICK next \in Generator : Goes(g, next)
  BY DEF Works
<1>2. gens'[g] = next /\ \A h \in Generators \ {g} : gens'[h] = gens[h]
  BY <1>1 DEF Goes, BuildInv, TypeOK
<1>3. GeneratorsMove
  <2>1. Went(g)
    BY <1>1, <1>2 DEF Goes, Went
  <2>. QED
    BY <2>1, <1>1, <1>2 DEF GeneratorsMove, Goes, BuildInv, TypeOK
<1>4. RowsMove /\ \A b \in Builds : Kept(b) \/ Stored(b)
  <2>1. CASE UNCHANGED builds
    BY <2>1 DEF RowsMove, RowMoves, Kept, BuildInv, TypeOK
  <2>2. CASE ~UNCHANGED builds
    <3> DEFINE b == gens[g].build
    <3>1. PICK ck \in Checkpoint, files \in Files, tokens \in Nat :
            /\ ck.tokens < Limit /\ tokens < Limit
            /\ builds' = [builds EXCEPT ![b] =
                    [builds[b] EXCEPT !.ckpt = ck, !.files = files, !.tokens = tokens]]
      BY <2>2 DEF Works, Stores
    <3>2. builds[b].status = "investigating" /\ b \in Builds
      BY <2>2 DEF Works, Stores, BuildOf, BuildInv, TypeOK, Generator
    <3>. HIDE DEF b
    <3>3. /\ builds'[b] = [builds[b] EXCEPT !.ckpt = ck, !.files = files, !.tokens = tokens]
          /\ \A c \in Builds \ {b} : builds'[c] = builds[c]
      BY <3>1, <3>2 DEF BuildInv, TypeOK
    <3>4. Stored(b)
      <4>1. \E k \in Checkpoint, f \in Files, n \in Nat :
              /\ k.tokens < Limit /\ n < Limit
              /\ builds'[b] = [builds[b] EXCEPT !.ckpt = k, !.files = f, !.tokens = n]
        <5>. WITNESS ck \in Checkpoint, files \in Files, tokens \in Nat
        <5>. QED
          BY <3>1, <3>3
      <4>. QED
        BY <4>1, <3>2, Zenon DEF Stored
    <3>5. builds' = [c \in Builds |-> builds'[c]]
      BY <3>1 DEF BuildInv, TypeOK
    <3>. QED
      BY <3>3, <3>4, <3>5 DEF RowsMove, RowMoves, Kept
  <2>. QED
    BY <2>1, <2>2
<1>5. ASSUME NEW b \in Builds PROVE builds'[b].status = builds[b].status
  <2>1. builds[b] \in Build /\ RowMoves(b) /\ (Kept(b) \/ Stored(b))
    BY <1>4 DEF RowsMove, BuildInv, TypeOK
  <2>. QED
    BY <2>1 DEF Kept, Stored, Build
<1>6. WorkersMove
  BY <1>1, <1>2, <1>5 DEF WorkersMove, Goes
<1>. QED
  BY <1>3, <1>4, <1>6 DEF Moves

\* rows change but no generator, and none comes under investigation
LEMMA RowsAlone ==
    ASSUME BuildInv, RowsMove, UNCHANGED <<gens, orphans>>,
           \A b \in Builds : builds'[b].status = "investigating" =>
               builds[b].status = "investigating"
    PROVE  Moves
BY DEF Moves, GeneratorsMove, WorkersMove, BuildInv, TypeOK

\* one generator begins, rests or takes the next stage
LEMMA GeneratorAlone ==
    ASSUME BuildInv, NEW g \in Generators, NEW next \in Generator,
           gens' = [gens EXCEPT ![g] = next]
    PROVE  /\ gens' = [h \in Generators |-> gens'[h]]
           /\ gens'[g] = next /\ \A h \in Generators \ {g} : gens'[h] = gens[h]
BY DEF BuildInv, TypeOK

LEMMA EnqueueMoves ==
    ASSUME BuildInv, NEW b \in Builds, Enqueue(b)
    PROVE  Moves
<1>1. PICK multi \in BOOLEAN : builds' = [builds EXCEPT ![b].status = "queued", ![b].multi = multi]
  BY DEF Enqueue
<1>2. builds[b] = NoBuild
  BY NewIsNext DEF Enqueue, BuildInv
<1>3. /\ builds'[b] = [NoBuild EXCEPT !.status = "queued", !.multi = multi]
      /\ \A c \in Builds \ {b} : builds'[c] = builds[c]
      /\ builds' = [c \in Builds |-> builds'[c]]
  BY <1>1, <1>2 DEF BuildInv, TypeOK
<1>4. NoBuild \in Build /\ ~NoBuild.due /\ NoBuild.tokens = 0 /\ NoBuild.ckpt = NoCheckpoint
  BY RecordTypes DEF NoBuild
<1>5. Created(b)
  BY <1>3, <1>4 DEF Created, Enqueue, Build, Statuses
<1>6. RowsMove
  BY <1>3, <1>5 DEF RowsMove, RowMoves, Kept
<1>7. \A c \in Builds : builds'[c].status = "investigating" => builds[c].status = "investigating"
  BY <1>3, <1>5 DEF Created
<1>. QED
  BY <1>6, <1>7, RowsAlone DEF Enqueue, ghostVars

LEMMA CiMoves ==
    ASSUME BuildInv, NEW b \in Builds,
           CiPasses(b) \/ \E clone \in Builds : CiFails(b, clone)
    PROVE  Moves
<1>1. builds[b].status = "drafted" /\ b \in Rows /\ UNCHANGED <<gens, orphans>>
  BY DEF CiPasses, CiFails, Rows, ghostVars
<1>2. CASE CiPasses(b)
  <2>1. /\ builds'[b] = [builds[b] EXCEPT !.status = "validated", !.commit = TRUE]
        /\ \A c \in Builds \ {b} : builds'[c] = builds[c]
        /\ builds' = [c \in Builds |-> builds'[c]]
    BY <1>2 DEF CiPasses, BuildInv, TypeOK
  <2>2. builds'[b].status = "validated"
    BY <2>1 DEF BuildInv, TypeOK, Build
  <2>3. RowsMove
    BY <1>1, <1>2, <2>1 DEF RowsMove, RowMoves, Kept, Tested
  <2>. QED
    BY <1>1, <2>1, <2>2, <2>3, RowsAlone
<1>3. ASSUME NEW clone \in Builds, CiFails(b, clone) PROVE Moves
  <2> DEFINE new == [NoBuild EXCEPT !.status = "queued", !.multi = TRUE,
                                    !.ci = TRUE, !.files = builds[b].files]
  <2>1. clone # b /\ IsNew(clone)
    BY <1>1, <1>3, NewIsNext DEF CiFails, BuildInv
  <2>2. /\ builds'[b] = [builds[b] EXCEPT !.status = "failed"]
        /\ builds'[clone] = new
        /\ \A c \in Builds \ {b, clone} : builds'[c] = builds[c]
        /\ builds' = [c \in Builds |-> builds'[c]]
    BY <1>3, <2>1 DEF CiFails, BuildInv, TypeOK
  <2>3. builds[b].files \in Files /\ builds'[b].status = "failed"
    BY <2>2 DEF BuildInv, TypeOK, Build
  <2>4. NoBuild \in Build /\ ~NoBuild.due /\ NoBuild.tokens = 0 /\ NoBuild.ckpt = NoCheckpoint
    BY RecordTypes DEF NoBuild
  <2>5. /\ new \in Build /\ new.status = "queued" /\ ~new.due /\ new.tokens = 0
        /\ new.ckpt = NoCheckpoint
    BY <2>3, <2>4 DEF Build, Statuses
  <2>. HIDE DEF new
  <2>6. Created(clone) /\ Tested(b)
    BY <1>1, <1>3, <2>1, <2>2, <2>5 DEF Created, Tested
  <2>7. RowsMove
    BY <2>2, <2>6 DEF RowsMove, RowMoves, Kept
  <2>. QED
    BY <1>1, <2>2, <2>3, <2>5, <2>7, RowsAlone
<1>. QED
  BY <1>2, <1>3

LEMMA PolicyMoves ==
    ASSUME BuildInv, PolicyRollover
    PROVE  Moves
<1>1. builds' = [b \in Builds |->
          IF b \in Rows THEN [builds[b] EXCEPT !.current = FALSE] ELSE builds[b]]
  BY DEF PolicyRollover
<1>2. ASSUME NEW b \in Builds PROVE Kept(b) /\ builds'[b].status = builds[b].status
  <2>1. CASE b \in Rows
    BY <1>1, <2>1 DEF Kept, BuildInv, TypeOK, Build
  <2>2. CASE b \notin Rows
    BY <1>1, <2>2 DEF Kept
  <2>. QED
    BY <2>1, <2>2
<1>3. RowsMove
  BY <1>1, <1>2 DEF RowsMove, RowMoves
<1>. QED
  BY <1>2, <1>3, RowsAlone DEF PolicyRollover

\* no row changes
LEMMA RowsRest ==
    ASSUME BuildInv, UNCHANGED builds
    PROVE  RowsMove
BY DEF RowsMove, RowMoves, Kept, BuildInv, TypeOK

\* a generator begins with a build that exists
LEMMA BeginMoves ==
    ASSUME BuildInv, NEW g \in Generators, NEW next \in Generator, Begin(g, next),
           next.build \in Rows, next.pc \in {"starting", "entering"}, next.spent < Limit,
           UNCHANGED orphans
    PROVE  /\ GeneratorsMove
           /\ \A h \in Generators : gens[h].pc \in Busy => gens'[h] = gens[h]
           /\ gens'[g] = next
           /\ starts' \in [Builds -> Nat]
<1>1. gens[g].pc = "idle" /\ gens' = [gens EXCEPT ![g] = next]
  BY DEF Begin, Become
<1>2. /\ gens' = [h \in Generators |-> gens'[h]]
      /\ gens'[g] = next /\ \A h \in Generators \ {g} : gens'[h] = gens[h]
  BY <1>1, GeneratorAlone
<1>3. Began(g)
  BY <1>1, <1>2 DEF Began
<1>4. starts' \in [Builds -> Nat]
  <2>1. next.build \in Builds /\ starts \in [Builds -> Nat]
    BY DEF Rows, BuildInv, TypeOK
  <2>2. starts' = [starts EXCEPT ![next.build] = starts[next.build] + 1]
    BY DEF Begin
  <2>. QED
    BY <2>1, <2>2
<1>. QED
  BY <1>1, <1>2, <1>3, <1>4 DEF GeneratorsMove, Busy

LEMMA StartingType ==
    ASSUME NEW b \in Builds
    PROVE  /\ [Idle(b) EXCEPT !.pc = "starting"] \in Generator
           /\ [Idle(b) EXCEPT !.pc = "starting"].build = b
           /\ [Idle(b) EXCEPT !.pc = "starting"].pc = "starting"
           /\ [Idle(b) EXCEPT !.pc = "starting"].spent < Limit
<1>1. Idle(b) \in Generator /\ Idle(b).build = b /\ Idle(b).spent = 0
  BY RecordTypes
<1>. QED
  BY <1>1, LimitType DEF Generator

LEMMA DispatchMoves ==
    ASSUME BuildInv, NEW r \in Runners, NEW b \in Builds, Dispatch(r, b)
    PROVE  Moves /\ starts' \in [Builds -> Nat]
<1>1. UNCHANGED <<builds, orphans>> /\ b \in Rows /\ r \in Generators
  BY DEF Dispatch, Generators
<1>2. /\ GeneratorsMove
      /\ \A h \in Generators : gens[h].pc \in Busy => gens'[h] = gens[h]
      /\ starts' \in [Builds -> Nat]
  BY <1>1, BeginMoves, StartingType DEF Dispatch
<1>3. WorkersMove
  BY <1>1, <1>2 DEF WorkersMove
<1>. QED
  BY <1>1, <1>2, <1>3, RowsRest DEF Moves

LEMMA DispatchRetriesMoves ==
    ASSUME BuildInv, DispatchRetries
    PROVE  Moves /\ starts' \in [Builds -> Nat]
<1>1. builds' = [b \in Builds |->
          IF Stale(builds[b]) THEN [builds[b] EXCEPT !.status = "cancelled"]
                              ELSE builds[b]]
  BY DEF DispatchRetries
<1>2. ASSUME NEW b \in Builds
      PROVE  /\ Kept(b) \/ Cancelled(b)
             /\ builds'[b].status = "investigating" => builds[b].status = "investigating"
  BY <1>1 DEF Kept, Cancelled, Stale, BuildInv, TypeOK, Build
<1>3. RowsMove
  BY <1>1, <1>2 DEF RowsMove, RowMoves
<1>4. CASE UNCHANGED <<gens, starts>>
  BY <1>2, <1>3, <1>4, RowsAlone DEF DispatchRetries, BuildInv, TypeOK
<1>5. ASSUME NEW r \in Runners, NEW b \in Builds, Due(builds[b]),
             Begin(r, [Idle(b) EXCEPT !.pc = "starting"])
      PROVE  Moves /\ starts' \in [Builds -> Nat]
  <2>1. b \in Rows /\ r \in Generators /\ UNCHANGED orphans
    BY <1>5 DEF Due, Rows, Generators, DispatchRetries
  <2>2. /\ GeneratorsMove
        /\ \A h \in Generators : gens[h].pc \in Busy => gens'[h] = gens[h]
        /\ starts' \in [Builds -> Nat]
    BY <1>5, <2>1, BeginMoves, StartingType
  <2>3. WorkersMove
    BY <1>2, <2>1, <2>2 DEF WorkersMove
  <2>. QED
    BY <1>3, <2>2, <2>3 DEF Moves
<1>. QED
  BY <1>4, <1>5 DEF DispatchRetries

\* a row comes under the investigation of the generator that takes it
LEMMA TakenMoves ==
    ASSUME BuildInv, NEW b \in Builds, builds[b].status \in {"queued", "failed"},
           builds' = [builds EXCEPT ![b].status = "investigating"]
    PROVE  /\ RowsMove
           /\ builds'[b].status = "investigating"
           /\ \A c \in Builds \ {b} : builds'[c] = builds[c]
<1>1. /\ builds'[b] = [builds[b] EXCEPT !.status = "investigating"]
      /\ \A c \in Builds \ {b} : builds'[c] = builds[c]
      /\ builds' = [c \in Builds |-> builds'[c]]
  BY DEF BuildInv, TypeOK
<1>2. Taken(b)
  BY <1>1 DEF Taken
<1>3. builds'[b].status = "investigating"
  BY <1>1 DEF BuildInv, TypeOK, Build
<1>. QED
  BY <1>1, <1>2, <1>3 DEF RowsMove, RowMoves, Kept

LEMMA ClaimMoves ==
    ASSUME BuildInv, NEW e \in Embedded, Claim(e)
    PROVE  Moves /\ starts' \in [Builds -> Nat]
<1>1. PICK b \in Builds : /\ Claimable(builds[b])
                          /\ builds' = [builds EXCEPT ![b].status = "investigating"]
                          /\ Begin(e, Start(builds[b], b))
  BY DEF Claim
<1>2. /\ builds[b] \in Build /\ builds[b].ckpt.tokens < Limit
      /\ builds[b].status = "queued" /\ b \in Rows
      /\ e \in Generators /\ UNCHANGED orphans
  BY <1>1 DEF BuildInv, TypeOK, SpendInv, Claimable, Rows, Generators, Claim
<1> DEFINE next == Start(builds[b], b)
<1>3. next \in Generator /\ next.pc = "entering" /\ next.build = b /\ next.spent < Limit
  BY <1>2, StartType, LimitType
<1>4. Begin(e, next)
  BY <1>1
<1>. HIDE DEF next
<1>5. /\ GeneratorsMove
      /\ \A h \in Generators : gens[h].pc \in Busy => gens'[h] = gens[h]
      /\ gens'[e] = next
      /\ starts' \in [Builds -> Nat]
  BY <1>2, <1>3, <1>4, BeginMoves
<1>6. /\ RowsMove /\ \A c \in Builds \ {b} : builds'[c] = builds[c]
  BY <1>1, <1>2, TakenMoves
<1>7. WorkersMove
  BY <1>2, <1>3, <1>5, <1>6 DEF WorkersMove, Busy
<1>. QED
  BY <1>5, <1>6, <1>7 DEF Moves

LEMMA LeaseMoves ==
    ASSUME BuildInv, NEW r \in Runners, Lease(r)
    PROVE  Moves
<1> DEFINE b == gens[r].build
<1>1. /\ r \in Generators /\ gens[r] \in Generator /\ gens[r].pc = "starting"
      /\ b \in Builds /\ builds[b] \in Build /\ builds[b].ckpt.tokens < Limit
      /\ UNCHANGED orphans
  BY DEF BuildInv, TypeOK, SpendInv, Generators, Generator, Lease, ghostVars
<1>2. CASE Leasable(builds[b])
  <2> DEFINE next == Start(builds[b], b)
  <2>1. next \in Generator /\ next.pc = "entering" /\ next.build = b /\ next.spent < Limit
    BY <1>1, StartType, LimitType
  <2>2. gens' = [gens EXCEPT ![r] = next]
        /\ builds' = [builds EXCEPT ![b].status = "investigating"]
    BY <1>2 DEF Lease, BuildOf, Become
  <2>3. builds[b].status \in {"queued", "failed"}
    BY <1>2 DEF Leasable
  <2>. HIDE DEF next, b
  <2>4. /\ gens' = [h \in Generators |-> gens'[h]]
        /\ gens'[r] = next /\ \A h \in Generators \ {r} : gens'[h] = gens[h]
    BY <1>1, <2>1, <2>2, GeneratorAlone
  <2>5. Went(r)
    BY <1>1, <2>1, <2>4 DEF Went, Busy, b
  <2>6. RowsMove /\ \A c \in Builds \ {b} : builds'[c] = builds[c]
    BY <1>1, <2>2, <2>3, TakenMoves
  <2>7. GeneratorsMove
    BY <2>4, <2>5 DEF GeneratorsMove
  <2>8. WorkersMove
    BY <1>1, <2>1, <2>4, <2>6 DEF WorkersMove, Busy
  <2>. QED
    BY <2>6, <2>7, <2>8 DEF Moves
<1>3. CASE ~Leasable(builds[b])
  <2>1. Fail(r, Unclassified(r))
    BY <1>3 DEF Lease, BuildOf, Fail
  <2>2. Works(r)
    BY <1>1, <2>1, FailWorks, UnclassifiedType DEF BuildInv
  <2>. QED
    BY <1>1, <2>2, WorkMoves
<1>. QED
  BY <1>2, <1>3

\* a generator rests, and leaves its build settled or lost
LEMMA RestMoves ==
    ASSUME BuildInv, NEW g \in Generators, Rest(g), orphans \subseteq orphans',
           RowsMove, \A c \in Builds \ {gens[g].build} : builds'[c] = builds[c],
           \/ builds'[gens[g].build].status # "investigating"
           \/ builds' = builds /\ gens[g].build \in orphans'
    PROVE  Moves
<1>1. /\ gens' = [h \in Generators |-> gens'[h]]
      /\ gens'[g] = Idle(1) /\ \A h \in Generators \ {g} : gens'[h] = gens[h]
  BY RecordTypes, FirstBuild, GeneratorAlone DEF Rest
<1>2. GeneratorsMove
  BY <1>1 DEF GeneratorsMove, Rested
<1>3. WorkersMove
  BY <1>1 DEF WorkersMove
<1>. QED
  BY <1>2, <1>3 DEF Moves

LEMMA SubmitMoves ==
    ASSUME BuildInv, NEW g \in Generators, Submit(g)
    PROVE  Moves
<1> DEFINE b == gens[g].build
<1>1. /\ gens[g] \in Generator /\ gens[g].pc = "submitting" /\ b \in Builds
      /\ builds[b] \in Build /\ gens[g].spent < Limit /\ UNCHANGED orphans
      /\ builds[b].multi => gens[g].verdict = "approved"
  BY DEF BuildInv, TypeOK, SpendInv, SubmitInv, BuildOf, Generator, Submit, ghostVars
<1>2. CASE Draftable(builds[b])
  <2> DEFINE draft == [builds[b] EXCEPT !.status = "drafted", !.files = gens[g].staged,
                                !.tokens = gens[g].spent, !.ckpt = NoCheckpoint,
                                !.failure = NoFailure, !.due = FALSE,
                                !.compacted = FALSE, !.verdict = gens[g].verdict]
  <2>1. builds' = [builds EXCEPT ![b] = draft] /\ Rest(g)
    BY <1>1, <1>2 DEF Submit, BuildOf, BuildInv, TypeOK
  <2>2. /\ gens[g].staged \in Files /\ gens[g].spent \in Nat
        /\ gens[g].verdict \in Verdicts
        /\ NoCheckpoint \in Checkpoint /\ NoFailure \in Failure
    BY <1>1, RecordTypes DEF Generator
  <2> DEFINE half == [builds[b] EXCEPT !.status = "drafted", !.files = gens[g].staged,
                                !.tokens = gens[g].spent, !.ckpt = NoCheckpoint]
  <2>3. /\ half \in Build /\ half.status = "drafted" /\ half.tokens = gens[g].spent
        /\ half.ckpt = NoCheckpoint /\ half.multi = builds[b].multi
    BY <1>1, <2>2 DEF Build, Statuses
  <2>4. draft = [half EXCEPT !.failure = NoFailure, !.due = FALSE, !.compacted = FALSE,
                             !.verdict = gens[g].verdict]
    OBVIOUS
  <2>. HIDE DEF half, draft
  <2>5. /\ draft \in Build /\ draft.status = "drafted" /\ draft.tokens = gens[g].spent
        /\ draft.ckpt = NoCheckpoint /\ draft.multi = builds[b].multi
        /\ draft.verdict = gens[g].verdict
    BY <2>2, <2>3, <2>4 DEF Build
  <2>6. /\ builds'[b] = draft /\ \A c \in Builds \ {b} : builds'[c] = builds[c]
        /\ builds' = [c \in Builds |-> builds'[c]]
    BY <1>1, <2>1 DEF BuildInv, TypeOK
  <2>7. Drafted(b)
    BY <1>1, <1>2, <2>5, <2>6 DEF Drafted
  <2>8. RowsMove
    BY <2>6, <2>7 DEF RowsMove, RowMoves, Kept
  <2>. QED
    BY <1>1, <2>1, <2>5, <2>6, <2>8, RestMoves
<1>3. CASE ~Draftable(builds[b])
  <2>1. Fail(g, Unclassified(g))
    BY <1>3 DEF Submit, BuildOf, Fail
  <2>2. Works(g)
    BY <1>1, <2>1, FailWorks, UnclassifiedType DEF BuildInv
  <2>. QED
    BY <1>1, <2>2, WorkMoves
<1>. QED
  BY <1>2, <1>3

LEMMA FailureMoves ==
    ASSUME BuildInv, NEW g \in Generators,
           \/ g \in Runners /\ ReportFailure(g)
           \/ g \in Embedded /\ EmbeddedFailure(g)
    PROVE  Moves
<1> DEFINE b == gens[g].build
           f == gens[g].failure
<1>1. /\ gens[g].pc = "failing" /\ b \in Builds /\ f \in Failure
      /\ builds[b] \in Build /\ UNCHANGED orphans /\ Rest(g)
  BY DEF BuildInv, TypeOK, Generator, ReportFailure, EmbeddedFailure, ghostVars
<1>2. CASE builds' = [builds EXCEPT ![b] = AfterFailure(builds[b], f)]
           /\ (Draftable(builds[b]) \/ g \in Embedded)
  <2>1. /\ builds'[b] = AfterFailure(builds[b], f)
        /\ \A c \in Builds \ {b} : builds'[c] = builds[c]
        /\ builds' = [c \in Builds |-> builds'[c]]
    BY <1>1, <1>2 DEF BuildInv, TypeOK
  <2>2. builds'[b].status \in {"queued", "failed"}
    BY <1>1, <2>1, AfterFailureType
  <2>3. Failed(b)
    BY <1>1, <1>2, <2>1 DEF Failed
  <2>4. RowsMove
    BY <2>1, <2>3 DEF RowsMove, RowMoves, Kept
  <2>. QED
    BY <1>1, <2>1, <2>2, <2>4, RestMoves
<1>3. CASE UNCHANGED builds /\ ~Draftable(builds[b])
  BY <1>1, <1>3, RowsRest, RestMoves DEF Draftable
<1>. QED
  BY <1>2, <1>3 DEF ReportFailure, EmbeddedFailure, BuildOf, BuildInv, TypeOK

LEMMA LoseMoves ==
    ASSUME BuildInv, NEW g \in Generators, Lose(g)
    PROVE  Moves /\ orphans' \subseteq Builds
<1>1. gens[g].build \in Builds
  BY DEF BuildInv, TypeOK, Generator
<1>2. Rest(g) /\ UNCHANGED builds /\ orphans' = orphans \cup {gens[g].build}
  BY DEF Lose
<1>. QED
  BY <1>1, <1>2, RowsRest, RestMoves DEF BuildInv, TypeOK

-------------------------------------------------------------------------------
(* The invariant holds, and what follows from it.                          *)

LEMMA InitInv == Init => BuildInv
<1> SUFFICES ASSUME Init PROVE BuildInv
  OBVIOUS
<1>1. /\ NoBuild \in Build /\ NoBuild.status = "absent" /\ NoBuild.tokens = 0
      /\ NoBuild.ckpt.tokens = 0
  BY RecordTypes DEF NoBuild, NoCheckpoint
<1>2. Idle(1) \in Generator /\ Idle(1).pc = "idle" /\ Idle(1).spent = 0
  BY RecordTypes, FirstBuild
<1>3. /\ \A b \in Builds : builds[b] = NoBuild
      /\ \A g \in Generators : gens[g] = Idle(1)
  BY DEF Init
<1>4. TypeOK
  BY <1>1, <1>2 DEF Init, TypeOK
<1>5. Rows = {} /\ 1 .. 0 = {} /\ 0 \in 0 .. Len(MaxStarts)
  BY <1>1, <1>3, FirstBuild DEF Rows
<1>6. RowInv
  BY <1>3, <1>5 DEF RowInv
<1>7. WorkInv /\ RoleInv /\ SubmitInv
  BY <1>2, <1>3 DEF WorkInv, RoleInv, SubmitInv
<1>8. SpendInv
  BY <1>1, <1>2, <1>3, LimitType DEF SpendInv
<1>9. DraftWasReviewed /\ InvestigatingHasAWorker /\ RetryHasAuthority
  BY <1>1, <1>3 DEF DraftWasReviewed, InvestigatingHasAWorker, RetryHasAuthority
<1>. QED
  BY <1>4, <1>6, <1>7, <1>8, <1>9 DEF BuildInv

\* every step moves rows, generators and workers as above
LEMMA NextMoves ==
    ASSUME BuildInv, Next
    PROVE  Moves /\ RestTyped'
<1>. RestTyped
  BY DEF BuildInv, TypeOK, RestTyped
<1>1. ASSUME NEW b \in Builds, Enqueue(b) PROVE Moves /\ RestTyped'
  BY <1>1, EnqueueMoves DEF Enqueue, ghostVars, RestTyped
<1>2. ASSUME NEW b \in Builds, CiPasses(b) PROVE Moves /\ RestTyped'
  BY <1>2, CiMoves DEF CiPasses, ghostVars, RestTyped
<1>3. ASSUME NEW b \in Builds, NEW clone \in Builds, CiFails(b, clone)
      PROVE  Moves /\ RestTyped'
  BY <1>3, CiMoves DEF CiFails, ghostVars, RestTyped
<1>4. CASE PolicyRollover
  BY <1>4, PolicyMoves DEF PolicyRollover, Disturb, RestTyped
<1>5. CASE RetireProposal
  <2>1. UNCHANGED <<builds, gens, orphans, starts>>
    BY <1>5 DEF RetireProposal
  <2>2. Moves
    BY <2>1, RowsRest, RowsAlone
  <2>3. faults' \in Nat
    BY <1>5 DEF RetireProposal, Disturb, RestTyped
  <2>4. proposal' \in [retired : BOOLEAN, candidate : {"diagnosis", "draft", "validated"}]
    BY <1>5 DEF RetireProposal, RestTyped
  <2>. QED
    BY <2>1, <2>2, <2>3, <2>4 DEF RestTyped
<1>6. CASE DispatchRetries
  BY <1>6, DispatchRetriesMoves DEF DispatchRetries, RestTyped
<1>7. ASSUME NEW r \in Runners, NEW b \in Builds, Dispatch(r, b)
      PROVE  Moves /\ RestTyped'
  BY <1>7, DispatchMoves DEF Dispatch, RestTyped
<1>8. ASSUME NEW e \in Embedded, Claim(e) PROVE Moves /\ RestTyped'
  BY <1>8, ClaimMoves DEF Claim, RestTyped
<1>9. ASSUME NEW g \in Generators,
             \/ EnterRole(g) \/ RoleStops(g) \/ ToolTurn(g) \/ RejectedTurn(g)
             \/ LastRoundFails(g) \/ AuthorAccepted(g) \/ ReviewerApproves(g)
             \/ ReviewerRejects(g) \/ ProviderFailure(g) \/ Timeout(g)
      PROVE  Moves /\ RestTyped'
  <2>1. UNCHANGED <<proposal, orphans, starts, faults>>
    BY <1>9 DEF EnterRole, RoleStops, ToolTurn, RejectedTurn, LastRoundFails,
       AuthorAccepted, ReviewerApproves, ReviewerRejects, ProviderFailure, Timeout, ghostVars
  <2>2. gens[g].pc # "idle"
    BY <1>9 DEF EnterRole, RoleStops, ToolTurn, RejectedTurn, LastRoundFails,
       AuthorAccepted, ReviewerApproves, ReviewerRejects, ProviderFailure, Timeout
  <2>3. Works(g)
    BY <1>9, EnterRoleWorks, TurnWorks, InterruptionWorks DEF BuildInv
  <2>. QED
    BY <2>1, <2>2, <2>3, WorkMoves DEF RestTyped
<1>10. ASSUME NEW g \in Generators, Submit(g) PROVE Moves /\ RestTyped'
  <2>1. RestTyped'
    BY <1>10 DEF Submit, RestTyped, ghostVars
  <2>. QED
    BY <1>10, <2>1, SubmitMoves
<1>11. ASSUME NEW g \in Runners, Lease(g) PROVE Moves /\ RestTyped'
  BY <1>11, LeaseMoves DEF Lease, ghostVars, RestTyped
<1>12. ASSUME NEW g \in Generators,
              \/ g \in Runners /\ ReportFailure(g)
              \/ g \in Embedded /\ EmbeddedFailure(g)
       PROVE  Moves /\ RestTyped'
  BY <1>12, FailureMoves DEF ReportFailure, EmbeddedFailure, ghostVars, RestTyped
<1>13. ASSUME NEW g \in Generators, Lose(g) PROVE Moves /\ RestTyped'
  BY <1>13, LoseMoves DEF Lose, Disturb, RestTyped
<1>. QED
  BY <1>1, <1>2, <1>3, <1>4, <1>5, <1>6, <1>7, <1>8, <1>9, <1>10, <1>11, <1>12, <1>13
  DEF Next, Attempt, Work

\* a step that changes nothing keeps the invariant
LEMMA IdleStep ==
    ASSUME BuildInv, UNCHANGED vars
    PROVE  BuildInv'
BY DEF vars, ghostVars, BuildInv, TypeOK, RowInv, Rows, WorkInv, RoleInv, SpendInv,
       SubmitInv, BuildOf, DraftWasReviewed, InvestigatingHasAWorker, RetryHasAuthority

(* Rows, generators and what they carry stay within the invariant: nobody  *)
(* works without a build, and no draft travels without its approval.       *)
THEOREM BuildInvHolds == Spec => []BuildInv
<1>1. BuildInv /\ [Next]_vars => BuildInv'
  BY NextMoves, MovesKeepInv, IdleStep
<1>. QED
  BY <1>1, InitInv, PTL DEF Spec

(* Types of the rows, of every checkpoint a generator stores, and of what  *)
(* a generator keeps in memory.                                            *)
THEOREM BuildTypes == Spec => []TypeOK
<1>1. BuildInv => TypeOK
  BY DEF BuildInv
<1>. QED
  BY <1>1, BuildInvHolds, PTL

(* A draft of two roles was approved by the reviewer, after the last turn  *)
(* of an author, whatever attempts it took.                                *)
THEOREM DraftsAreReviewed == Spec => []DraftWasReviewed
<1>1. BuildInv => DraftWasReviewed
  BY DEF BuildInv
<1>. QED
  BY <1>1, BuildInvHolds, PTL

(* Over all attempts, resumed or taken over, a build's recorded tokens     *)
(* pass the budget by less than one turn of the model.                     *)
THEOREM SpendingIsBounded == Spec => []RecordedSpend
<1>1. BuildInv => RecordedSpend
  BY DEF BuildInv, SpendInv, RecordedSpend, Limit
<1>. QED
  BY <1>1, BuildInvHolds, PTL

(* No refused lease, stale retry or double dispatch leaves a build under   *)
(* an investigation that nobody conducts.                                  *)
THEOREM InvestigationsAreManned == Spec => []InvestigatingHasAWorker
<1>1. BuildInv => InvestigatingHasAWorker
  BY DEF BuildInv
<1>. QED
  BY <1>1, BuildInvHolds, PTL

(* What is queued for a retry can be resumed: candidate_retry_decision is  *)
(* right about the checkpoint that the next attempt will read.             *)
THEOREM RetriesHaveAuthority == Spec => []RetryHasAuthority
<1>1. BuildInv => RetryHasAuthority
  BY DEF BuildInv
<1>. QED
  BY <1>1, BuildInvHolds, PTL

(* Only CI takes a draft further, and only the failure handler of an       *)
(* embedded builder, which looks at no status, reopens what was finished.  *)
THEOREM FinishedBuildsStay == Spec => FinishedStaysFinished
<1> DEFINE Stays(b) ==
        \/ builds[b].status \notin {"drafted", "validated", "cancelled"}
        \/ \E e \in Embedded : gens[e].pc = "failing" /\ gens[e].build = b
        \/ builds'[b].status = builds[b].status
        \/ CiPasses(b) \/ \E clone \in Builds : CiFails(b, clone)
<1>1. ASSUME BuildInv, Next, NEW b \in Builds PROVE Stays(b)
  <2>1. RowMoves(b) /\ builds[b] \in Build
    BY <1>1, NextMoves DEF Moves, RowsMove, BuildInv, TypeOK
  <2>2. Created(b) => builds[b].status = "absent"
    BY <1>1, NewIsNext DEF Created, NoBuild, BuildInv
  <2>3. Kept(b) => builds'[b].status = builds[b].status
    BY <2>1 DEF Kept, Build
  <2>. QED
    BY <2>1, <2>2, <2>3
    DEF RowMoves, Stored, Taken, Cancelled, Tested, Drafted, Failed, Draftable
<1>2. BuildInv /\ [Next]_vars => [\A b \in Builds : Stays(b)]_vars
  BY <1>1
<1>. QED
  BY <1>2, BuildInvHolds, PTL DEF Spec, FinishedStaysFinished
===============================================================================
