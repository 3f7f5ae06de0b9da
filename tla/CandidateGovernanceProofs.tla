----------------------- MODULE CandidateGovernanceProofs -----------------------
(***************************************************************************)
(* The safety of governance for any number of proposals, builds, canaries, *)
(* runs, bundles and pull requests: what canaries, main and the trusted    *)
(* knowledge are made of, whichever builds, decisions, publications and    *)
(* judgements interleave.                                                  *)
(***************************************************************************)
EXTENDS CandidateGovernance, FiniteSetTheorems, SequenceTheorems, TLAPS

-------------------------------------------------------------------------------
(* The inductive invariant.                                                *)

Given == {b \in Builds : builds[b].status # "absent"}

(* Ids are given without a gap, each to a build of a proposal.             *)
BuildsInv ==
    /\ \E n \in 0 .. MaxBuilds : Given = 1 .. n
    /\ \A b \in Given : builds[b].proposal \in Proposals

Validated(v, p) ==
    v \in Builds /\ builds[v].status = "validated" /\ builds[v].proposal = p

(* A validation that CI reported is of the version it stands beside.       *)
TrustInv ==
    \A p \in Proposals :
        proposals[p].state = "validated_implementation" /\ proposals[p].trusted
            => Validated(proposals[p].version, p)

HasDraft(b) == builds[b].status \in {"drafted", "validated"}

(* A commit that a proposal or a promotion names is that of a draft.       *)
VersionInv ==
    \A p \in Proposals, b \in Builds :
        b \in {proposals[p].version, promoting[p].version} => HasDraft(b)

(* The hashes that a proposal has, is being published with, shows, and is  *)
(* being promoted with.                                                    *)
HashesOf(p) ==
    {proposals[p].hash, proposals[p].pull, promoting[p].pull}
        \cup {x.hash : x \in {y \in publishing : y.proposal = p}}

(* A draft whose hash was ever to be published is no coding run's: the     *)
(* commit of its branch is a candidate only as CI attested it.             *)
HashInv ==
    \A p \in Proposals, b \in Builds :
        Draft(b) \in HashesOf(p) =>
            /\ HasDraft(b)
            /\ \A at \in {proposals[p], promoting[p]} :
                  at.version = b => builds[b].status = "validated" /\ at.hash = b

Started(rows) == {i \in DOMAIN rows : rows[i].start > 0}

(* The canaries of a proposal start one after the other.                   *)
StartInv ==
    \A p \in Proposals : \A i \in DOMAIN canaries[p] :
        /\ canaries[p][i].status = "pending" => canaries[p][i].start = 0
        /\ canaries[p][i].start <= Cardinality(Started(canaries[p]))

(* The canary that a status speaks of.                                     *)
Carried(status) ==
    IF status \in {"absent", "awaiting_review", "changes_requested"} THEN {}
    ELSE IF status \in {"approved_for_canary", "closed"} THEN {"pending"}
    ELSE IF status = "canary_active" THEN {"active"}
    ELSE {"passed"}

Merged == {"approved_for_publication", "production_pending", "published"}

Passed(rows, v) ==
    \E i \in DOMAIN rows : rows[i].status = "passed" /\ rows[i].version = v

(* A proposal that no build has changed after its review has at most the   *)
(* canary that its status speaks of, which is the latest that started, of  *)
(* the version under review; its bundle was read; and what is promoted or  *)
(* merged passed its canary.                                               *)
Canaried(row, rows) ==
    /\ \A i \in DOMAIN rows : rows[i].status \in Occupied =>
          rows[i].status \in Carried(row.status) /\ rows[i].version = row.version
    /\ \A i, j \in DOMAIN rows :
          rows[i].status \in Occupied /\ rows[j].status \in Occupied => i = j
    /\ \A i \in DOMAIN rows : rows[i].status \in {"active", "passed"} =>
          \A j \in DOMAIN rows \ {i} : rows[j].start < rows[i].start
    /\ row.status = "canary_active" => row.deployed
    /\ Carried(row.status) # {} /\ row.status # "closed" /\ row.bundle # None
          => row.okf = "approved"

Promoted(row, rows, promo, commits) ==
    /\ promo.at # "idle" =>
          /\ row.status = "approved_for_publication"
          /\ Passed(rows, promo.version)
    /\ \A c \in commits : row.status \in Merged /\ Passed(rows, c)

CommitsOf(p) == {m.commit : m \in {n \in main : n.proposal = p}}

JourneyInv ==
    \A p \in Proposals \ disturbed :
        /\ Canaried(proposals[p], canaries[p])
        /\ Promoted(proposals[p], canaries[p], promoting[p], CommitsOf(p))

CommitInv ==
    \A m \in main : builds[m.commit].status = "validated" /\ m.hash = m.commit

(* A merge that is recorded is in main.                                    *)
MergeInv ==
    \A p \in Proposals :
        /\ proposals[p].merge # NoVersion => proposals[p].merge \in CommitsOf(p)
        /\ promoting[p].at = "merged" => promoting[p].version \in CommitsOf(p)

PullsOf(p)      == {x \in pulls : x[1] = p}
PublishingOf(p) == {x \in publishing : x.proposal = p}

(* The notice stands for the only pull request, or its publication.        *)
PullInv ==
    \A p \in Proposals \ lost :
        /\ PullsOf(p) = {} \/ PublishingOf(p) = {}
        /\ PullsOf(p) \cup PublishingOf(p) # {} => p \in notices
        /\ \A x, y \in PullsOf(p) : x = y
        /\ \A x, y \in PublishingOf(p) : x = y

GovernanceInv ==
    /\ TypeOK
    /\ BuildsInv
    /\ TrustInv
    /\ VersionInv
    /\ HashInv
    /\ CanariesWereValidated
    /\ StartInv
    /\ JourneyInv
    /\ OneCodeCanary
    /\ CommitInv
    /\ MergeInv
    /\ NeverStartedRunsReturn
    /\ PullInv

-------------------------------------------------------------------------------
(* Lemmas about rows of canaries.                                          *)

LEMMA RowsType ==
    ASSUME NEW rows \in Seq(Canary)
    PROVE  /\ Len(rows) \in Nat /\ DOMAIN rows = 1 .. Len(rows)
           /\ \A i \in DOMAIN rows : rows[i] \in Canary
           /\ IsFiniteSet(Started(rows)) /\ Cardinality(Started(rows)) \in Nat
<1>1. Len(rows) \in Nat /\ DOMAIN rows = 1 .. Len(rows)
  BY LenProperties
<1>2. \A i \in DOMAIN rows : rows[i] \in Canary
  BY <1>1, ElementOfSeq
<1>3. IsFiniteSet(1 .. Len(rows)) /\ Started(rows) \subseteq 1 .. Len(rows)
  BY <1>1, FS_Interval DEF Started
<1>. QED
  BY <1>1, <1>2, <1>3, FS_Subset, FS_CardinalityType

LEMMA RowChanged ==
    ASSUME NEW rows \in Seq(Canary), NEW i \in DOMAIN rows, NEW c \in Canary
    PROVE  LET next == [rows EXCEPT ![i] = c]
           IN  /\ next \in Seq(Canary) /\ DOMAIN next = DOMAIN rows
               /\ next[i] = c /\ \A j \in DOMAIN rows \ {i} : next[j] = rows[j]
BY RowsType, ExceptSeq

LEMMA RowAdded ==
    ASSUME NEW rows \in Seq(Canary), NEW c \in Canary
    PROVE  LET next == Append(rows, c)
               last == Len(rows) + 1
           IN  /\ next \in Seq(Canary) /\ DOMAIN next = DOMAIN rows \cup {last}
               /\ last \notin DOMAIN rows
               /\ next[last] = c /\ \A j \in DOMAIN rows : next[j] = rows[j]
<1>1. /\ Append(rows, c) \in Seq(Canary)
      /\ Len(Append(rows, c)) = Len(rows) + 1
      /\ Append(rows, c)[Len(rows) + 1] = c
      /\ \A j \in 1 .. Len(rows) : Append(rows, c)[j] = rows[j]
  OBVIOUS
<1>2. Len(rows) \in Nat /\ DOMAIN rows = 1 .. Len(rows)
  BY RowsType
<1>3. DOMAIN Append(rows, c) = 1 .. (Len(rows) + 1)
  BY <1>1, RowsType
<1>. QED
  BY <1>1, <1>2, <1>3

LEMMA PendingType ==
    ASSUME NEW v \in Versions
    PROVE  Pending(v) \in Canary
BY DEF Pending, Canary, Occupied

\* the rows with the latest start
LEMMA LatestIsUnique ==
    ASSUME NEW p \in Proposals, canaries[p] \in Seq(Canary), NEW i \in DOMAIN canaries[p],
           \A j \in DOMAIN canaries[p] \ {i} : canaries[p][j].start < canaries[p][i].start
    PROVE  \A k \in Latest(p) : k = i
<1>1. \A j \in DOMAIN canaries[p] : canaries[p][j].start \in Nat
  BY RowsType DEF Canary
<1>. QED
  BY <1>1 DEF Latest

-------------------------------------------------------------------------------
(* What a step may do to the canaries of a proposal.                       *)

Activated(p, i, c) ==
    /\ canaries[p][i].status = "pending"
    /\ c = [canaries[p][i] EXCEPT !.status = "active", !.routing = TRUE,
                                  !.start = 1 + Cardinality(Started(canaries[p]))]

Judged(p, i, c) ==
    /\ canaries[p][i].status = "active"
    /\ c = [canaries[p][i] EXCEPT !.status = "passed"]

Ended(p, i, c) ==
    \E status \in {canaries[p][i].status, "rolled_back"} :
        c = [canaries[p][i] EXCEPT !.routing = FALSE, !.status = status]

RowTo(p, i, c) ==
    canaries' = [canaries EXCEPT ![p] = [canaries[p] EXCEPT ![i] = c]]

RowsMove ==
    \/ UNCHANGED canaries /\ (RunNext \/ UNCHANGED runs)
    \/ \E S \in SUBSET Proposals :
          /\ ApproveCanaries(S)
          /\ \A p \in S : Approvable(p)
          /\ canaries' = [p \in Proposals |->
                IF p \notin S THEN canaries[p]
                ELSE Append(canaries[p], Pending(proposals[p].version))]
          /\ UNCHANGED runs
    \/ \E p \in Proposals : \E i \in DOMAIN canaries[p] : \E c \in Canary :
          /\ RowTo(p, i, c)
          /\ \/ (Activated(p, i, c) \/ Judged(p, i, c)) /\ UNCHANGED runs
             \/ Ended(p, i, c) /\ ToControl(p, i)

LEMMA EndedType ==
    ASSUME NEW p \in Proposals, canaries[p] \in Seq(Canary), NEW i \in DOMAIN canaries[p],
           NEW status \in {canaries[p][i].status, "rolled_back"}
    PROVE  [canaries[p][i] EXCEPT !.routing = FALSE, !.status = status] \in Canary
<1>1. canaries[p][i] \in Canary
  BY RowsType
<1>2. status \in Occupied \cup {"rolled_back"}
  BY <1>1 DEF Canary
<1>. QED
  BY <1>1, <1>2 DEF Canary

LEMMA ActivateRows ==
    ASSUME TypeOK, NEW p \in Proposals, NEW i \in DOMAIN canaries[p], Activate(p, i)
    PROVE  \E c \in Canary : RowTo(p, i, c) /\ Activated(p, i, c) /\ UNCHANGED runs
<1> DEFINE n == 1 + Cardinality(Started(canaries[p]))
           c == [canaries[p][i] EXCEPT !.status = "active", !.routing = TRUE, !.start = n]
<1>1. /\ canaries[p] \in Seq(Canary) /\ canaries[p][i] \in Canary
      /\ n \in Nat
  BY RowsType DEF TypeOK
<1>2. Started(canaries[p]) = {j \in DOMAIN canaries[p] : canaries[p][j].start > 0}
  BY DEF Started
<1>3. canaries' = [canaries EXCEPT ![p][i].status = "active", ![p][i].routing = TRUE,
                            ![p][i].start = n]
  BY <1>2 DEF Activate
<1>. HIDE DEF n
<1>4. canaries' = [canaries EXCEPT ![p] = [canaries[p] EXCEPT ![i] = c]]
  BY <1>1, <1>3 DEF TypeOK
<1>5. c \in Canary
  BY <1>1 DEF Canary, Occupied
<1>. QED
  BY <1>4, <1>5 DEF RowTo, Activated, Activate, n

LEMMA JudgeRows ==
    ASSUME TypeOK, NEW p \in Proposals, NEW i \in DOMAIN canaries[p]
    PROVE  /\ Passes(p, i) =>
                \E c \in Canary : RowTo(p, i, c) /\ Judged(p, i, c) /\ UNCHANGED runs
           /\ RollsBack(p, i) =>
                \E c \in Canary : RowTo(p, i, c) /\ Ended(p, i, c) /\ ToControl(p, i)
                                  /\ c.status = "rolled_back"
<1> DEFINE row == canaries[p][i]
           passed == [row EXCEPT !.status = "passed"]
           ended == [row EXCEPT !.routing = FALSE, !.status = "rolled_back"]
<1>1. canaries[p] \in Seq(Canary) /\ row \in Canary
  BY RowsType DEF TypeOK
<1>2. passed \in Canary /\ ended \in Canary /\ ended.status = "rolled_back"
  BY <1>1 DEF Canary, Occupied
<1>3. Passes(p, i) => RowTo(p, i, passed) /\ Judged(p, i, passed) /\ UNCHANGED runs
  BY <1>1 DEF Passes, RowTo, Judged, TypeOK
<1>4. ASSUME RollsBack(p, i) PROVE RowTo(p, i, ended) /\ ToControl(p, i)
  <2> DEFINE other == [row EXCEPT !.status = "rolled_back", !.routing = FALSE]
  <2>1. canaries' = [canaries EXCEPT ![p] = [canaries[p] EXCEPT ![i] = other]]
    BY <1>1, <1>4 DEF RollsBack, TypeOK
  <2>2. other = ended
    BY <1>1 DEF Canary
  <2>. QED
    BY <1>4, <2>1, <2>2 DEF RollsBack, RowTo
<1>5. Ended(p, i, ended)
  BY DEF Ended
<1>. QED
  BY <1>2, <1>3, <1>4, <1>5

LEMMA RetireRows ==
    ASSUME TypeOK, NEW p \in Proposals, NEW state, Retire(p, state)
    PROVE  \/ UNCHANGED <<canaries, runs>> /\ canaries[p] = <<>>
           \/ \E i \in Latest(p) : \E c \in Canary :
                 /\ RowTo(p, i, c) /\ Ended(p, i, c) /\ ToControl(p, i)
                 /\ c.status \notin Occupied
<1>1. SUFFICES ASSUME NEW i \in Latest(p),
                      canaries' = [canaries EXCEPT
                         ![p][i].routing = FALSE,
                         ![p][i].status = IF @ \in Occupied THEN "rolled_back" ELSE @],
                      ToControl(p, i)
               PROVE  \E c \in Canary :
                         /\ RowTo(p, i, c) /\ Ended(p, i, c) /\ ToControl(p, i)
                         /\ c.status \notin Occupied
  BY DEF Retire
<1> DEFINE row == canaries[p][i]
           status == IF row.status \in Occupied THEN "rolled_back" ELSE row.status
           ended == [row EXCEPT !.routing = FALSE, !.status = status]
<1>2. i \in DOMAIN canaries[p] /\ canaries[p] \in Seq(Canary) /\ row \in Canary
  BY RowsType DEF TypeOK, Latest
<1>3. status \in {row.status, "rolled_back"} /\ status \notin Occupied
  BY DEF Occupied
<1>4. canaries' = [canaries EXCEPT ![p] = [canaries[p] EXCEPT ![i] = ended]]
  BY <1>1, <1>2 DEF TypeOK
<1>. HIDE DEF status
<1>5. ended \in Canary /\ ended.status = status
  BY <1>2, <1>3, EndedType DEF Canary
<1>. QED
  BY <1>1, <1>3, <1>4, <1>5 DEF RowTo, Ended

LEMMA ProductionRows ==
    ASSUME TypeOK, NEW p \in Proposals, AttestProduction(p)
    PROVE  \E i \in Latest(p) : \E c \in Canary :
              /\ RowTo(p, i, c) /\ Ended(p, i, c) /\ ToControl(p, i)
              /\ canaries[p][i].status = "passed" /\ c.status = "passed"
<1>1. PICK i \in Latest(p) : /\ canaries[p][i].status = "passed"
                             /\ canaries' = [canaries EXCEPT ![p][i].routing = FALSE]
                             /\ ToControl(p, i)
  BY DEF AttestProduction
<1> DEFINE row == canaries[p][i]
           ended == [row EXCEPT !.routing = FALSE, !.status = row.status]
<1>2. i \in DOMAIN canaries[p] /\ canaries[p] \in Seq(Canary) /\ row \in Canary
  BY RowsType DEF TypeOK, Latest
<1>3. canaries' = [canaries EXCEPT ![p] = [canaries[p] EXCEPT ![i] = ended]]
  <2>1. ended = [row EXCEPT !.routing = FALSE]
    BY <1>2 DEF Canary
  <2>. QED
    BY <1>1, <1>2, <2>1 DEF TypeOK
<1>4. ended \in Canary /\ ended.status = "passed"
  BY <1>1, <1>2, EndedType DEF Canary
<1>. QED
  BY <1>1, <1>3, <1>4 DEF RowTo, Ended

LEMMA BuildsLeaveCanaries ==
    ASSUME BuildNext
    PROVE  UNCHANGED <<canaries, runs, notices, publishing, promoting, pulls, main,
                       overlapped, lost>>
BY DEF BuildNext, Propose, LacksEvidence, Register, Enqueue, StoreDraft, CodingDraft,
       PlanRejected, CiAttests, NewPolicyAttempt, UnchangedButBuilds, requestVars, githubVars

LEMMA PullsLeaveCanaries ==
    ASSUME PullNext
    PROVE  UNCHANGED <<canaries, runs, bundles, promoting, main, overlapped, disturbed>>
BY DEF PullNext, Reserve, Publish, AnswerIsLost, PublicationFails, CreatePull,
       githubVars, ghostVars

LEMMA RefuseRows ==
    ASSUME TypeOK, NEW p \in Proposals, Refuse(p)
    PROVE  \/ UNCHANGED <<canaries, runs>> /\ canaries[p] = <<>>
           \/ \E i \in Latest(p) : \E c \in Canary :
                 /\ RowTo(p, i, c) /\ Ended(p, i, c) /\ ToControl(p, i)
                 /\ c.status \notin Occupied
BY RetireRows DEF Refuse

LEMMA CanariesStep ==
    ASSUME TypeOK, Next
    PROVE  RowsMove
<1>1. CASE BuildNext \/ PullNext \/ RunNext
  BY <1>1, BuildsLeaveCanaries, PullsLeaveCanaries DEF RunNext, AssignRun, RowsMove
<1>2. ASSUME NEW S \in SUBSET Proposals, ApproveCanaries(S) PROVE RowsMove
  BY <1>2 DEF ApproveCanaries, RowsMove
<1>3. ASSUME NEW p \in Proposals,
             \/ DecideOkf(p) \/ Expire(p) \/ AttestDeployment(p)
             \/ ApprovePromotion(p) \/ Merge(p) \/ PromotionFails(p) \/ RecordMerge(p)
      PROVE  RowsMove
  BY <1>3 DEF DecideOkf, Expire, AttestDeployment, ApprovePromotion, Merge,
     PromotionFails, RecordMerge, UnchangedButBuilds, RowsMove
<1>4. ASSUME NEW p \in Proposals, RefuseCanary(p) \/ RefusePromotion(p) PROVE RowsMove
  BY <1>4, RefuseRows DEF RefuseCanary, RefusePromotion, Latest, RowsMove
<1>5. ASSUME NEW p \in Proposals, AttestProduction(p) PROVE RowsMove
  BY <1>5, ProductionRows DEF Latest, RowsMove
<1>6. ASSUME NEW p \in Proposals, NEW i \in DOMAIN canaries[p],
             Activate(p, i) \/ Passes(p, i) \/ RollsBack(p, i)
      PROVE  RowsMove
  BY <1>6, ActivateRows, JudgeRows DEF RowsMove
<1>. QED
  BY <1>1, <1>2, <1>3, <1>4, <1>5, <1>6 DEF Next, ReviewNext, PromotionNext

-------------------------------------------------------------------------------
(* Builds only grow older.                                                 *)

Ages(b) ==
    /\ b \in Given => b \in Given' /\ builds'[b].proposal = builds[b].proposal
    /\ HasDraft(b) => HasDraft(b)'
    /\ builds[b].status = "validated" => builds'[b].status = "validated"

BuildsAge ==
    /\ builds' \in [Builds -> Build]
    /\ \A b \in Builds : Ages(b)
    /\ BuildsInv'

LEMMA BuildIds == Builds \subseteq Nat \ {0} /\ MaxBuilds \in Nat
BY BoundsAssumption DEF Builds

\* an id that is given is the next one
LEMMA NewIsNext ==
    ASSUME BuildsInv, NEW b \in Builds, IsNew(b)
    PROVE  /\ b \notin Given
           /\ \E n \in 0 .. MaxBuilds : Given \cup {b} = 1 .. n
<1>1. PICK n \in 0 .. MaxBuilds : Given = 1 .. n
  BY DEF BuildsInv
<1>2. n \in Nat /\ Cardinality(1 .. n) = n
  BY <1>1, BuildIds, FS_Interval
<1>3. b = n + 1
  <2>1. b = 1 + Cardinality(Given)
    BY DEF IsNew, Given
  <2>. QED
    BY <1>1, <1>2, <2>1
<1>4. b \notin Given
  BY <1>1, <1>2, <1>3
<1>5. Given \cup {b} = 1 .. (n + 1) /\ n + 1 \in 0 .. MaxBuilds
  BY <1>1, <1>2, <1>3, BuildIds DEF Builds
<1>. QED
  BY <1>4, <1>5

LEMMA QueuedAges ==
    ASSUME TypeOK, BuildsInv, NEW b \in Builds, NEW p \in Proposals, IsNew(b),
           builds' = QueueBuild(b, p)
    PROVE  BuildsAge
<1>1. /\ builds'[b] = [builds[b] EXCEPT !.status = "queued", !.proposal = p]
      /\ \A c \in Builds \ {b} : builds'[c] = builds[c]
      /\ builds' = [c \in Builds |-> builds'[c]]
  BY DEF QueueBuild, TypeOK
<1>2. b \notin Given /\ \E n \in 0 .. MaxBuilds : Given \cup {b} = 1 .. n
  BY NewIsNext
<1>3. /\ builds'[b] \in Build /\ builds'[b].status = "queued"
      /\ builds'[b].proposal = p
  <2>1. builds[b] \in Build
    BY DEF TypeOK
  <2>. QED
    BY <1>1, <2>1 DEF Build
<1>4. Given' = Given \cup {b}
  BY <1>1, <1>3 DEF Given
<1>5. BuildsInv'
  <2>1. \A c \in Given' : builds'[c].proposal \in Proposals
    BY <1>1, <1>3, <1>4 DEF BuildsInv, Given
  <2>. QED
    BY <1>2, <1>4, <2>1 DEF BuildsInv
<1>6. \A c \in Builds : Ages(c)
  BY <1>1, <1>2, <1>4 DEF Ages, HasDraft, Given
<1>7. builds' \in [Builds -> Build]
  BY <1>1, <1>3 DEF TypeOK
<1>. QED
  BY <1>5, <1>6, <1>7 DEF BuildsAge

\* one build takes its next status
LEMMA ProgressAges ==
    ASSUME TypeOK, BuildsInv, NEW b \in Builds, NEW row \in Build,
           builds' = [builds EXCEPT ![b] = row], row.proposal = builds[b].proposal,
           \/ builds[b].status = "queued" /\ row.status \in {"drafted", "cancelled"}
           \/ builds[b].status = "drafted" /\ row.status = "validated"
    PROVE  BuildsAge
<1>1. /\ builds'[b] = row /\ \A c \in Builds \ {b} : builds'[c] = builds[c]
      /\ builds' \in [Builds -> Build]
  BY DEF TypeOK
<1>2. Given' = Given
  BY <1>1 DEF Given
<1>3. BuildsInv'
  BY <1>1, <1>2 DEF BuildsInv, Given
<1>4. \A c \in Builds : Ages(c)
  BY <1>1, <1>2 DEF Ages, HasDraft
<1>. QED
  BY <1>1, <1>3, <1>4 DEF BuildsAge

LEMMA BranchAges ==
    ASSUME TypeOK, BuildsInv, NEW x, CreatePull(x)
    PROVE  BuildsAge
<1>1. ASSUME NEW b \in Builds
      PROVE  /\ builds'[b] \in Build /\ builds'[b].status = builds[b].status
             /\ builds'[b].proposal = builds[b].proposal
  <2>1. builds[b] \in Build
    BY DEF TypeOK
  <2>. QED
    BY <2>1 DEF CreatePull, Build
<1>2. builds' \in [Builds -> Build]
  BY <1>1 DEF CreatePull
<1>3. Given' = Given
  BY <1>1 DEF Given
<1>4. BuildsInv'
  BY <1>1, <1>3 DEF BuildsInv, Given
<1>5. \A b \in Builds : Ages(b)
  BY <1>1, <1>3 DEF Ages, HasDraft
<1>. QED
  BY <1>2, <1>4, <1>5 DEF BuildsAge

LEMMA SameAges ==
    ASSUME TypeOK, BuildsInv, UNCHANGED builds
    PROVE  BuildsAge
BY DEF BuildsAge, TypeOK, BuildsInv, Given, Ages, HasDraft

LEMMA BuildsStep ==
    ASSUME TypeOK, BuildsInv, Next
    PROVE  BuildsAge
<1>1. ASSUME NEW p \in Proposals, Propose(p) \/ LacksEvidence(p) \/ Register(p)
      PROVE  BuildsAge
  BY <1>1, SameAges DEF Propose, LacksEvidence, Register
<1>2. ASSUME NEW p \in Proposals, NEW b \in Builds, Enqueue(p, b) PROVE BuildsAge
  BY <1>2, QueuedAges DEF Enqueue
<1>3. ASSUME NEW b \in Builds, NEW clone \in Builds, NewPolicyAttempt(b, clone)
      PROVE  BuildsAge
  <2>1. builds[b].proposal \in Proposals
    BY <1>3 DEF NewPolicyAttempt, BuildsInv, Given
  <2>. QED
    BY <1>3, <2>1, QueuedAges DEF NewPolicyAttempt
<1>4. ASSUME NEW b \in Builds,
             StoreDraft(b) \/ CodingDraft(b) \/ PlanRejected(b) \/ CiAttests(b)
      PROVE  BuildsAge
  <2>1. builds[b] \in Build
    BY DEF TypeOK
  <2>2. CASE StoreDraft(b)
    <3>1. PICK kind \in {"code", "okf"} :
              builds' = [builds EXCEPT ![b].status = "drafted", ![b].kind = kind]
      BY <2>2 DEF StoreDraft
    <3> DEFINE row == [builds[b] EXCEPT !.status = "drafted", !.kind = kind]
    <3>2. /\ row \in Build /\ row.status = "drafted"
          /\ row.proposal = builds[b].proposal
      BY <2>1 DEF Build
    <3>3. builds' = [builds EXCEPT ![b] = row]
      BY <3>1 DEF TypeOK
    <3>. QED
      BY <2>2, <3>2, <3>3, ProgressAges DEF StoreDraft
  <2>3. CASE CodingDraft(b)
    <3> DEFINE row == [builds[b] EXCEPT !.status = "drafted", !.kind = "code",
                                        !.onBranch = TRUE]
    <3>1. /\ row \in Build /\ row.status = "drafted"
          /\ row.proposal = builds[b].proposal
      BY <2>1 DEF Build
    <3>2. builds' = [builds EXCEPT ![b] = row]
      BY <2>3 DEF CodingDraft, TypeOK
    <3>. QED
      BY <2>3, <3>1, <3>2, ProgressAges DEF CodingDraft
  <2>4. CASE PlanRejected(b)
    <3> DEFINE row == [builds[b] EXCEPT !.status = "cancelled"]
    <3>1. /\ row \in Build /\ row.status = "cancelled"
          /\ row.proposal = builds[b].proposal
      BY <2>1 DEF Build
    <3>2. builds' = [builds EXCEPT ![b] = row]
      BY <2>4 DEF PlanRejected, TypeOK
    <3>. QED
      BY <2>4, <3>1, <3>2, ProgressAges DEF PlanRejected
  <2>5. CASE CiAttests(b)
    <3> DEFINE row == [builds[b] EXCEPT !.status = "validated"]
    <3>1. /\ row \in Build /\ row.status = "validated"
          /\ row.proposal = builds[b].proposal
      BY <2>1 DEF Build
    <3>2. builds' = [builds EXCEPT ![b] = row]
      BY <2>5 DEF CiAttests, TypeOK
    <3>. QED
      BY <2>5, <3>1, <3>2, ProgressAges DEF CiAttests
  <2>. QED
    BY <1>4, <2>2, <2>3, <2>4, <2>5
<1>5. CASE PullNext
  <2>1. ASSUME NEW p \in Proposals, Reserve(p) PROVE BuildsAge
    BY <2>1, SameAges DEF Reserve
  <2>2. ASSUME NEW x \in publishing, PublicationFails(x) PROVE BuildsAge
    BY <2>2, SameAges DEF PublicationFails
  <2>3. ASSUME NEW x \in publishing, Publish(x) \/ AnswerIsLost(x) PROVE BuildsAge
    BY <2>3, BranchAges DEF Publish, AnswerIsLost
  <2>. QED
    BY <1>5, <2>1, <2>2, <2>3 DEF PullNext
<1>6. CASE ReviewNext \/ RunNext \/ PromotionNext
  <2>1. UNCHANGED builds
    <3>1. CASE ReviewNext
      <4>1. ASSUME NEW p \in Proposals,
                   DecideOkf(p) \/ RefuseCanary(p) \/ Expire(p) \/ AttestDeployment(p)
            PROVE  UNCHANGED builds
        BY <4>1 DEF DecideOkf, RefuseCanary, Refuse, Expire, AttestDeployment
      <4>2. ASSUME NEW p \in Proposals, NEW i \in DOMAIN canaries[p],
                   Activate(p, i) \/ Passes(p, i) \/ RollsBack(p, i)
            PROVE  UNCHANGED builds
        BY <4>2 DEF Activate, Passes, RollsBack
      <4>. QED
        BY <3>1, <4>1, <4>2 DEF ReviewNext, ApproveCanaries
    <3>2. CASE RunNext
      BY <3>2 DEF RunNext, AssignRun
    <3>3. CASE PromotionNext
      BY <3>3 DEF PromotionNext, ApprovePromotion, RefusePromotion, Refuse, Merge,
         PromotionFails, RecordMerge, AttestProduction
    <3>. QED
      BY <1>6, <3>1, <3>2, <3>3
  <2>. QED
    BY <2>1, SameAges
<1>. QED
  BY <1>1, <1>2, <1>3, <1>4, <1>5, <1>6 DEF Next, BuildNext

-------------------------------------------------------------------------------
(* What a step may do to the candidate of a proposal.                      *)

UnderReview == {"awaiting_review", "changes_requested"}

(* Decisions and judgements leave the candidate as it is.                  *)
Decided(p) ==
    /\ \A field \in {"version", "hash", "pull", "trusted", "kind", "bundle"} :
          proposals'[p][field] = proposals[p][field]
    /\ proposals'[p].state = "validated_implementation"
          => proposals[p].state = "validated_implementation"
    /\ proposals'[p].merge = proposals[p].merge \/ RecordMerge(p)

Drafted(p, b) ==
    /\ builds[b].status = "queued" /\ HasDraft(b)'
    /\ proposals'[p].version = Draft(b) /\ proposals'[p].hash = Draft(b)
    /\ proposals'[p].pull = NoVersion /\ proposals'[p].merge = NoVersion
    /\ ~proposals'[p].trusted

Coded(p, b) ==
    /\ builds[b].status = "queued" /\ HasDraft(b)'
    /\ proposals'[p].version = Commit(b)
    /\ \A field \in {"hash", "pull", "merge"} : proposals'[p][field] = proposals[p][field]
    /\ proposals'[p].state = "implementation_draft"

Attested(p, b) ==
    /\ Validated(b, p)'
    /\ proposals'[p].version = Commit(b) /\ proposals'[p].hash = Commit(b)
    /\ \A field \in {"pull", "merge"} : proposals'[p][field] = proposals[p][field]

ByHand(p) ==
    /\ proposals'[p].version = Registered /\ proposals'[p].hash = Registered
    /\ proposals'[p].pull = NoVersion /\ proposals'[p].merge = NoVersion
    /\ ~proposals'[p].trusted

Built(p) ==
    \/ Decided(p)
    \/ \E b \in Builds : Drafted(p, b) \/ Coded(p, b) \/ Attested(p, b)
    \/ ByHand(p)

(* A build, or whoever registers a candidate, changes one proposal.        *)
ChangesCandidate(p) ==
    /\ \A q \in Proposals \ {p} : proposals'[q] = proposals[q]
    /\ proposals' \in [Proposals -> Proposal]
    /\ Built(p)
    /\ \/ UNCHANGED proposals
       \/ p \in disturbed'
       \/ proposals[p].status \in UnderReview \cup {"absent"}
          /\ proposals'[p].status \in UnderReview \cup {"absent"}
    /\ disturbed \subseteq disturbed' /\ disturbed' \subseteq Proposals
    /\ bundles' \in [Bundles -> {"absent", "validated", "canary", "trusted",
                                 "rejected", "rolled_back"}]
    /\ \A k \in Bundles : bundles'[k] = "trusted" => bundles[k] = "trusted"

LEMMA VersionTypes ==
    /\ NoVersion \in Versions /\ Registered \in Versions /\ Registered \notin Builds
    /\ \A b \in Builds : /\ Draft(b) \in Versions /\ Draft(b) < 0
                         /\ Commit(b) \in Versions /\ Commit(b) = b /\ b > 0
    /\ \A v \in Versions : v \in Int
    /\ NoVersion = 0
BY BuildIds DEF NoVersion, Registered, Versions, Draft, Commit, Builds

LEMMA NoProposalType == NoProposal \in Proposal /\ NoProposal.status = "absent"
BY VersionTypes DEF NoProposal, Proposal, Statuses

\* what a proposal becomes when its row is replaced
LEMMA Replaced ==
    ASSUME TypeOK, NEW p \in Proposals, NEW row \in Proposal,
           proposals' = [proposals EXCEPT ![p] = row]
    PROVE  /\ proposals'[p] = row /\ \A q \in Proposals \ {p} : proposals'[q] = proposals[q]
           /\ proposals' \in [Proposals -> Proposal]
BY DEF TypeOK

LEMMA TouchType ==
    ASSUME TypeOK, NEW p \in Proposals, Touch(p)
    PROVE  /\ disturbed \subseteq disturbed' /\ disturbed' \subseteq Proposals
           /\ proposals[p].status \in UnderReview \/ p \in disturbed'
BY DEF Touch, TypeOK, UnderReview

LEMMA OpenBuilds ==
    ASSUME TypeOK, BuildsInv, NEW p \in Proposals, Propose(p) \/ LacksEvidence(p) \/ Register(p)
    PROVE  ChangesCandidate(p)
<1>1. proposals[p] \in Proposal /\ UNCHANGED <<bundles, disturbed>>
  BY DEF TypeOK, Propose, LacksEvidence, Register
<1>2. CASE Propose(p)
  <2> DEFINE row == [proposals[p] EXCEPT !.status = "awaiting_review"]
  <2>1. proposals' = [proposals EXCEPT ![p] = row] /\ row \in Proposal
    BY <1>1, <1>2 DEF Propose, TypeOK, Proposal, Statuses
  <2>2. /\ proposals'[p] = row /\ \A q \in Proposals \ {p} : proposals'[q] = proposals[q]
        /\ proposals' \in [Proposals -> Proposal]
    BY <2>1, Replaced
  <2>3. Decided(p) /\ proposals'[p].status = "awaiting_review"
    BY <1>1, <2>2 DEF Decided, Proposal
  <2>. QED
    BY <1>1, <1>2, <2>2, <2>3 DEF ChangesCandidate, Built, UnderReview, Propose, Exists, TypeOK
<1>3. CASE LacksEvidence(p)
  <2> DEFINE row == [proposals[p] EXCEPT !.state = "diagnosis_only"]
  <2>1. proposals' = [proposals EXCEPT ![p] = row] /\ row \in Proposal
    BY <1>1, <1>3 DEF LacksEvidence, TypeOK, Proposal
  <2>2. /\ proposals'[p] = row /\ \A q \in Proposals \ {p} : proposals'[q] = proposals[q]
        /\ proposals' \in [Proposals -> Proposal]
    BY <2>1, Replaced
  <2>3. Decided(p) /\ proposals'[p].status = proposals[p].status
    BY <1>1, <2>2 DEF Decided, Proposal
  <2>. QED
    BY <1>1, <1>3, <2>2, <2>3 DEF ChangesCandidate, Built, UnderReview, LacksEvidence, TypeOK
<1>4. CASE Register(p)
  <2> DEFINE row == [NoProposal EXCEPT !.status = "awaiting_review", !.kind = "code",
                       !.state = "validated_implementation",
                       !.version = Registered, !.hash = Registered]
  <2>1. proposals' = [proposals EXCEPT ![p] = row]
    BY <1>4 DEF Register
  <2>2. /\ row \in Proposal /\ row.status = "awaiting_review"
        /\ row.version = Registered /\ row.hash = Registered
        /\ row.pull = NoVersion /\ row.merge = NoVersion /\ ~row.trusted
    BY VersionTypes DEF NoProposal, Proposal, Statuses
  <2>. HIDE DEF row
  <2>3. /\ proposals'[p] = row /\ \A q \in Proposals \ {p} : proposals'[q] = proposals[q]
        /\ proposals' \in [Proposals -> Proposal]
    BY <2>1, <2>2, Replaced
  <2>4. ByHand(p)
    BY <2>2, <2>3 DEF ByHand
  <2>. QED
    BY <1>1, <1>4, <2>2, <2>3, <2>4 DEF ChangesCandidate, Built, UnderReview, Register, TypeOK
<1>. QED
  BY <1>2, <1>3, <1>4

LEMMA QueueBuilds ==
    ASSUME TypeOK, BuildsInv, NEW p \in Proposals, UNCHANGED <<proposals, bundles, disturbed>>
    PROVE  ChangesCandidate(p)
BY DEF ChangesCandidate, Built, Decided, TypeOK

LEMMA DraftBuilds ==
    ASSUME TypeOK, BuildsInv, NEW b \in Builds, StoreDraft(b)
    PROVE  ChangesCandidate(builds[b].proposal) /\ builds[b].proposal \in Proposals
<1> DEFINE p == builds[b].proposal
<1>1. PICK kind \in {"code", "okf"} :
          /\ builds' = [builds EXCEPT ![b].status = "drafted", ![b].kind = kind]
          /\ proposals' = [proposals EXCEPT
                ![p] = [NoProposal EXCEPT
                          !.status = proposals[p].status,
                          !.state = "implementation_draft", !.kind = kind,
                          !.version = Draft(b), !.hash = Draft(b)]]
  BY DEF StoreDraft
<1> DEFINE row == [NoProposal EXCEPT !.status = proposals[p].status,
                          !.state = "implementation_draft", !.kind = kind,
                          !.version = Draft(b), !.hash = Draft(b)]
<1>2. /\ p \in Proposals /\ proposals[p].status \in Statuses
      /\ builds[b].status = "queued" /\ UNCHANGED bundles
  BY DEF StoreDraft, BuildsInv, Given, TypeOK, Proposal
<1>3. /\ row \in Proposal /\ row.status = proposals[p].status
      /\ row.version = Draft(b) /\ row.hash = Draft(b)
      /\ row.pull = NoVersion /\ row.merge = NoVersion /\ ~row.trusted
  BY <1>2, VersionTypes DEF NoProposal, Proposal
<1>4. proposals' = [proposals EXCEPT ![p] = row]
  BY <1>1
<1>. HIDE DEF row, p
<1>5. /\ proposals'[p] = row /\ \A q \in Proposals \ {p} : proposals'[q] = proposals[q]
      /\ proposals' \in [Proposals -> Proposal]
  BY <1>2, <1>3, <1>4, Replaced
<1>6. HasDraft(b)'
  BY <1>1 DEF HasDraft, TypeOK, Build
<1>7. Drafted(p, b)
  BY <1>2, <1>3, <1>5, <1>6 DEF Drafted
<1>8. /\ disturbed \subseteq disturbed' /\ disturbed' \subseteq Proposals
      /\ proposals[p].status \in UnderReview \/ p \in disturbed'
  BY <1>2, TouchType DEF StoreDraft, p
<1>. QED
  BY <1>2, <1>3, <1>5, <1>7, <1>8 DEF ChangesCandidate, Built, TypeOK, p

LEMMA CodingBuilds ==
    ASSUME TypeOK, BuildsInv, NEW b \in Builds, CodingDraft(b)
    PROVE  ChangesCandidate(builds[b].proposal) /\ builds[b].proposal \in Proposals
<1> DEFINE p == builds[b].proposal
           row == [proposals[p] EXCEPT !.state = "implementation_draft", !.kind = "code",
                                       !.version = Commit(b), !.deployed = FALSE]
<1>1. /\ p \in Proposals /\ proposals[p] \in Proposal
      /\ builds[b].status = "queued" /\ UNCHANGED bundles
  BY DEF CodingDraft, BuildsInv, Given, TypeOK
<1>2. proposals' = [proposals EXCEPT ![p] = row]
  BY <1>1 DEF CodingDraft, TypeOK
<1>3. /\ row \in Proposal /\ row.status = proposals[p].status
      /\ row.version = Commit(b) /\ row.state = "implementation_draft"
      /\ row.hash = proposals[p].hash /\ row.pull = proposals[p].pull
      /\ row.merge = proposals[p].merge
  BY <1>1, VersionTypes DEF Proposal
<1>4. HasDraft(b)'
  BY DEF CodingDraft, HasDraft, TypeOK, Build
<1>5. /\ disturbed \subseteq disturbed' /\ disturbed' \subseteq Proposals
      /\ proposals[p].status \in UnderReview \/ p \in disturbed'
  BY <1>1, TouchType DEF CodingDraft
<1>. HIDE DEF row, p
<1>6. /\ proposals'[p] = row /\ \A q \in Proposals \ {p} : proposals'[q] = proposals[q]
      /\ proposals' \in [Proposals -> Proposal]
  BY <1>1, <1>2, <1>3, Replaced
<1>7. Coded(p, b)
  BY <1>1, <1>3, <1>4, <1>6 DEF Coded
<1>. QED
  BY <1>1, <1>3, <1>5, <1>6, <1>7 DEF ChangesCandidate, Built, TypeOK, p

LEMMA RejectedBuilds ==
    ASSUME TypeOK, BuildsInv, NEW b \in Builds, PlanRejected(b)
    PROVE  ChangesCandidate(builds[b].proposal) /\ builds[b].proposal \in Proposals
<1> DEFINE p == builds[b].proposal
           row == [proposals[p] EXCEPT !.status = "changes_requested",
                                       !.state = "diagnosis_only"]
<1>1. /\ p \in Proposals /\ proposals[p] \in Proposal /\ UNCHANGED bundles
  BY DEF PlanRejected, BuildsInv, Given, TypeOK
<1>2. proposals' = [proposals EXCEPT ![p] = row]
  BY <1>1 DEF PlanRejected, TypeOK
<1>3. row \in Proposal
  BY <1>1 DEF Proposal, Statuses
<1>4. /\ disturbed \subseteq disturbed' /\ disturbed' \subseteq Proposals
      /\ proposals[p].status \in UnderReview \/ p \in disturbed'
  BY <1>1, TouchType DEF PlanRejected
<1>5. /\ proposals'[p] = row /\ \A q \in Proposals \ {p} : proposals'[q] = proposals[q]
      /\ proposals' \in [Proposals -> Proposal]
  BY <1>1, <1>2, <1>3, Replaced
<1>6. Decided(p) /\ proposals'[p].status = "changes_requested"
  BY <1>1, <1>5 DEF Decided, Proposal
<1>. HIDE DEF row, p
<1>. QED
  BY <1>1, <1>4, <1>5, <1>6 DEF ChangesCandidate, Built, UnderReview, TypeOK, p

LEMMA AttestBuilds ==
    ASSUME TypeOK, BuildsInv, NEW b \in Builds, CiAttests(b)
    PROVE  ChangesCandidate(builds[b].proposal) /\ builds[b].proposal \in Proposals
<1> DEFINE p == builds[b].proposal
           valid == [proposals[p] EXCEPT !.state = "validated_implementation",
                       !.version = Commit(b), !.hash = Commit(b), !.trusted = TRUE,
                       !.deployed = @ /\ proposals[p].version = Commit(b)]
<1>1. /\ p \in Proposals /\ proposals[p] \in Proposal
      /\ builds[b] \in Build /\ builds[b].status = "drafted"
  BY DEF CiAttests, BuildsInv, Given, TypeOK
<1>2. /\ valid \in Proposal /\ valid.status = proposals[p].status
      /\ valid.version = Commit(b) /\ valid.hash = Commit(b)
      /\ valid.pull = proposals[p].pull /\ valid.merge = proposals[p].merge
  BY <1>1, VersionTypes DEF Proposal
<1>3. Validated(b, p)'
  BY <1>1 DEF CiAttests, Validated, TypeOK, Build
<1>4. /\ disturbed \subseteq disturbed' /\ disturbed' \subseteq Proposals
      /\ proposals[p].status \in UnderReview \/ p \in disturbed'
  BY <1>1, TouchType DEF CiAttests
<1>5. \/ proposals' = [proposals EXCEPT ![p] = valid] /\ UNCHANGED bundles
      \/ \E k \in Bundles :
            /\ bundles' = Stage(k)
            /\ proposals' = [proposals EXCEPT
                  ![p] = [valid EXCEPT !.bundle = k, !.okf = "awaiting_review"]]
  BY DEF CiAttests
<1>. HIDE DEF valid, p
<1>6. ASSUME NEW row \in Proposal, proposals' = [proposals EXCEPT ![p] = row],
             row.status = valid.status, row.version = valid.version,
             row.hash = valid.hash, row.pull = valid.pull, row.merge = valid.merge,
             bundles' \in [Bundles -> {"absent", "validated", "canary", "trusted",
                                       "rejected", "rolled_back"}],
             \A k \in Bundles : bundles'[k] = "trusted" => bundles[k] = "trusted"
      PROVE  ChangesCandidate(p)
  <2>1. /\ proposals'[p] = row /\ \A q \in Proposals \ {p} : proposals'[q] = proposals[q]
        /\ proposals' \in [Proposals -> Proposal]
    BY <1>1, <1>6, Replaced
  <2>2. Attested(p, b)
    BY <1>2, <1>3, <1>6, <2>1 DEF Attested
  <2>. QED
    BY <1>2, <1>4, <1>6, <2>1, <2>2 DEF ChangesCandidate, Built
<1>7. CASE proposals' = [proposals EXCEPT ![p] = valid] /\ UNCHANGED bundles
  <2>1. bundles' \in [Bundles -> {"absent", "validated", "canary", "trusted",
                                  "rejected", "rolled_back"}]
        /\ \A j \in Bundles : bundles'[j] = "trusted" => bundles[j] = "trusted"
    BY <1>7 DEF TypeOK
  <2>2. proposals' = [proposals EXCEPT ![p] = valid] /\ valid \in Proposal
    BY <1>2, <1>7
  <2>. QED
    BY <1>1, <1>6, <2>1, <2>2 DEF p
<1>8. ASSUME NEW k \in Bundles, bundles' = Stage(k),
             proposals' = [proposals EXCEPT
                  ![p] = [valid EXCEPT !.bundle = k, !.okf = "awaiting_review"]]
      PROVE  ChangesCandidate(p)
  <2> DEFINE row == [valid EXCEPT !.bundle = k, !.okf = "awaiting_review"]
  <2>1. /\ row \in Proposal /\ row.status = valid.status /\ row.version = valid.version
        /\ row.hash = valid.hash /\ row.pull = valid.pull /\ row.merge = valid.merge
    BY <1>2 DEF Proposal
  <2>2. bundles' \in [Bundles -> {"absent", "validated", "canary", "trusted",
                                  "rejected", "rolled_back"}]
        /\ \A j \in Bundles : bundles'[j] = "trusted" => bundles[j] = "trusted"
    BY <1>8 DEF Stage, TypeOK
  <2>. HIDE DEF row
  <2>3. proposals' = [proposals EXCEPT ![p] = row]
    BY <1>8 DEF row
  <2>. QED
    BY <1>6, <2>1, <2>2, <2>3
<1>. QED
  BY <1>1, <1>5, <1>7, <1>8 DEF p

LEMMA BuildersStep ==
    ASSUME TypeOK, BuildsInv, BuildNext
    PROVE  \E p \in Proposals : ChangesCandidate(p)
<1>1. ASSUME NEW p \in Proposals, NEW b \in Builds, Enqueue(p, b) PROVE ChangesCandidate(p)
  BY <1>1, QueueBuilds DEF Enqueue
<1>2. ASSUME NEW b \in Builds, NEW clone \in Builds, NewPolicyAttempt(b, clone)
      PROVE  \E p \in Proposals : ChangesCandidate(p)
  <2>1. builds[b].proposal \in Proposals
    BY <1>2 DEF NewPolicyAttempt, BuildsInv, Given
  <2>. QED
    BY <1>2, <2>1, QueueBuilds DEF NewPolicyAttempt
<1>. QED
  BY <1>1, <1>2, OpenBuilds, DraftBuilds, CodingBuilds, RejectedBuilds, AttestBuilds
  DEF BuildNext

(* The answer to a publication goes to the candidate that there is.        *)
Shown(p) ==
    \E x \in publishing :
        /\ x.proposal = p
        /\ proposals'[p] = [proposals[p] EXCEPT !.pull = x.hash]

CandidatesStay ==
    /\ proposals' \in [Proposals -> Proposal]
    /\ \A p \in Proposals : Decided(p) \/ Shown(p)

LEMMA RowStays ==
    ASSUME TypeOK, NEW p \in Proposals, NEW row \in Proposal,
           proposals' = [proposals EXCEPT ![p] = row],
           \A field \in {"version", "hash", "pull", "trusted", "kind", "bundle"} :
              row[field] = proposals[p][field],
           row.state \in {proposals[p].state, "deployed_canary"},
           row.merge = proposals[p].merge \/ RecordMerge(p)
    PROVE  CandidatesStay
<1>1. /\ proposals'[p] = row /\ \A q \in Proposals \ {p} : proposals'[q] = proposals[q]
      /\ proposals' \in [Proposals -> Proposal]
  BY Replaced
<1>2. Decided(p)
  BY <1>1 DEF Decided
<1>3. \A q \in Proposals \ {p} : Decided(q)
  BY <1>1 DEF Decided
<1>. QED
  BY <1>1, <1>2, <1>3 DEF CandidatesStay

LEMMA SameCandidates ==
    ASSUME TypeOK, UNCHANGED proposals
    PROVE  CandidatesStay
BY DEF CandidatesStay, Decided, TypeOK

\* a step that writes a status, and at most the evidence of a deployment
LEMMA StatusStays ==
    ASSUME TypeOK, NEW p \in Proposals, NEW status \in Statuses,
           proposals' = [proposals EXCEPT ![p].status = status]
    PROVE  CandidatesStay /\ proposals'[p] = [proposals[p] EXCEPT !.status = status]
<1> DEFINE row == [proposals[p] EXCEPT !.status = status]
<1>1. proposals[p] \in Proposal
  BY DEF TypeOK
<1>2. proposals' = [proposals EXCEPT ![p] = row]
  BY DEF TypeOK
<1>3. /\ row \in Proposal /\ row.state = proposals[p].state
      /\ row.merge = proposals[p].merge
      /\ \A field \in {"version", "hash", "pull", "trusted", "kind", "bundle"} :
            row[field] = proposals[p][field]
  BY <1>1 DEF Proposal
<1>. HIDE DEF row
<1>4. CandidatesStay /\ proposals'[p] = row
  BY <1>2, <1>3, RowStays, Replaced
<1>. QED
  BY <1>4 DEF row

LEMMA PullsStay ==
    ASSUME TypeOK, PullNext
    PROVE  CandidatesStay
<1>1. ASSUME NEW p \in Proposals, Reserve(p) PROVE CandidatesStay
  BY <1>1, SameCandidates DEF Reserve
<1>2. ASSUME NEW x \in publishing, AnswerIsLost(x) \/ PublicationFails(x)
      PROVE  CandidatesStay
  BY <1>2, SameCandidates DEF AnswerIsLost, PublicationFails
<1>3. ASSUME NEW x \in publishing, Publish(x) PROVE CandidatesStay
  <2> DEFINE p == x.proposal
             row == [proposals[p] EXCEPT !.pull = x.hash]
  <2>1. p \in Proposals /\ x.hash \in Versions /\ proposals[p] \in Proposal
    BY DEF TypeOK
  <2>2. proposals' = [proposals EXCEPT ![p] = row] /\ row \in Proposal
    BY <1>3, <2>1 DEF Publish, TypeOK, Proposal
  <2>3. /\ proposals'[p] = row /\ \A q \in Proposals \ {p} : proposals'[q] = proposals[q]
        /\ proposals' \in [Proposals -> Proposal]
    BY <2>1, <2>2, Replaced
  <2>4. Shown(p)
    BY <2>3 DEF Shown
  <2>5. \A q \in Proposals \ {p} : Decided(q)
    BY <2>3 DEF Decided
  <2>. QED
    BY <2>3, <2>4, <2>5 DEF CandidatesStay
<1>. QED
  BY <1>1, <1>2, <1>3 DEF PullNext

LEMMA ReviewsStay ==
    ASSUME TypeOK, ReviewNext
    PROVE  CandidatesStay
<1>. {"closed", "changes_requested", "awaiting_promotion"} \subseteq Statuses
  BY DEF Statuses
<1>1. ASSUME NEW S \in SUBSET Proposals, ApproveCanaries(S) PROVE CandidatesStay
  <2>1. ASSUME NEW p \in Proposals PROVE proposals'[p] \in Proposal /\ Decided(p)
    <3>1. proposals[p] \in Proposal
      BY DEF TypeOK
    <3>2. proposals'[p] = IF p \notin S THEN proposals[p]
              ELSE [proposals[p] EXCEPT !.status = "approved_for_canary",
                      !.deployed = proposals[p].deployed \/ proposals[p].kind = "okf"]
      BY <1>1, <3>1 DEF ApproveCanaries, Proposal
    <3>3. CASE p \notin S
      BY <3>1, <3>2, <3>3 DEF Decided
    <3>4. CASE p \in S
      <4> DEFINE deployed == proposals[p].deployed \/ proposals[p].kind = "okf"
                 row == [proposals[p] EXCEPT !.status = "approved_for_canary",
                                             !.deployed = deployed]
      <4>1. proposals'[p] = row
        BY <3>2, <3>4
      <4>2. deployed \in BOOLEAN
        OBVIOUS
      <4>. HIDE DEF deployed
      <4>3. row \in Proposal
        BY <3>1, <4>2 DEF Proposal, Statuses
      <4>4. /\ row.state = proposals[p].state /\ row.merge = proposals[p].merge
            /\ \A field \in {"version", "hash", "pull", "trusted", "kind", "bundle"} :
                  row[field] = proposals[p][field]
        BY <3>1 DEF Proposal
      <4>. HIDE DEF row
      <4>. QED
        BY <4>1, <4>3, <4>4 DEF Decided
    <3>. QED
      BY <3>3, <3>4
  <2>. QED
    BY <1>1, <2>1 DEF CandidatesStay, ApproveCanaries
<1>2. ASSUME NEW p \in Proposals, DecideOkf(p) PROVE CandidatesStay
  <2> DEFINE read == [proposals[p] EXCEPT !.okf = "approved"]
             back == [proposals[p] EXCEPT !.okf = "changes_requested",
                                          !.status = "changes_requested"]
  <2>1. proposals[p] \in Proposal
    BY DEF TypeOK
  <2>2. \A row \in {read, back} :
          /\ row \in Proposal /\ row.state = proposals[p].state
          /\ row.merge = proposals[p].merge
          /\ \A field \in {"version", "hash", "pull", "trusted", "kind", "bundle"} :
                row[field] = proposals[p][field]
    <3>1. read \in Proposal /\ back \in Proposal
      BY <2>1 DEF Proposal, Statuses
    <3>2. /\ read.state = proposals[p].state /\ read.merge = proposals[p].merge
          /\ \A field \in {"version", "hash", "pull", "trusted", "kind", "bundle"} :
                read[field] = proposals[p][field]
      BY <2>1 DEF Proposal
    <3>3. /\ back.state = proposals[p].state /\ back.merge = proposals[p].merge
          /\ \A field \in {"version", "hash", "pull", "trusted", "kind", "bundle"} :
                back[field] = proposals[p][field]
      BY <2>1 DEF Proposal
    <3>. QED
      BY <3>1, <3>2, <3>3
  <2>3. \E row \in {read, back} : proposals' = [proposals EXCEPT ![p] = row]
    BY <1>2 DEF DecideOkf, TypeOK
  <2>. HIDE DEF read, back
  <2>. QED
    BY <2>2, <2>3, RowStays
<1>3. ASSUME NEW p \in Proposals, RefuseCanary(p) \/ Expire(p) PROVE CandidatesStay
  BY <1>3, StatusStays DEF RefuseCanary, Refuse, Expire
<1>4. ASSUME NEW p \in Proposals, AttestDeployment(p) PROVE CandidatesStay
  <2> DEFINE row == [proposals[p] EXCEPT !.deployed = TRUE]
  <2>1. proposals[p] \in Proposal
    BY DEF TypeOK
  <2>2. proposals' = [proposals EXCEPT ![p] = row]
    BY <1>4 DEF AttestDeployment, TypeOK
  <2>3. /\ row \in Proposal /\ row.state = proposals[p].state
        /\ row.merge = proposals[p].merge
        /\ \A field \in {"version", "hash", "pull", "trusted", "kind", "bundle"} :
              row[field] = proposals[p][field]
    BY <2>1 DEF Proposal
  <2>. HIDE DEF row
  <2>. QED
    BY <2>2, <2>3, RowStays
<1>5. ASSUME NEW p \in Proposals, NEW i \in DOMAIN canaries[p], Activate(p, i)
      PROVE  CandidatesStay
  <2> DEFINE row == [proposals[p] EXCEPT !.status = "canary_active",
                                         !.state = "deployed_canary"]
  <2>1. proposals[p] \in Proposal
    BY DEF TypeOK
  <2>2. proposals' = [proposals EXCEPT ![p] = row]
    BY <1>5 DEF Activate, TypeOK
  <2>3. /\ row \in Proposal /\ row.state = "deployed_canary"
        /\ row.merge = proposals[p].merge
        /\ \A field \in {"version", "hash", "pull", "trusted", "kind", "bundle"} :
              row[field] = proposals[p][field]
    BY <2>1 DEF Proposal, Statuses
  <2>. HIDE DEF row
  <2>. QED
    BY <2>2, <2>3, RowStays
<1>6. ASSUME NEW p \in Proposals, NEW i \in DOMAIN canaries[p],
             Passes(p, i) \/ RollsBack(p, i)
      PROVE  CandidatesStay
  BY <1>6, StatusStays DEF Passes, RollsBack
<1>. QED
  BY <1>1, <1>2, <1>3, <1>4, <1>5, <1>6 DEF ReviewNext

LEMMA PromotionsStay ==
    ASSUME TypeOK, PromotionNext
    PROVE  CandidatesStay
<1>. {"closed", "changes_requested", "approved_for_publication", "published"}
       \subseteq Statuses
  BY DEF Statuses
<1>1. ASSUME NEW p \in Proposals,
             ApprovePromotion(p) \/ RefusePromotion(p) \/ AttestProduction(p)
      PROVE  CandidatesStay
  BY <1>1, StatusStays DEF ApprovePromotion, RefusePromotion, Refuse, AttestProduction
<1>2. ASSUME NEW p \in Proposals, Merge(p) \/ PromotionFails(p) PROVE CandidatesStay
  BY <1>2, SameCandidates DEF Merge, PromotionFails
<1>3. ASSUME NEW p \in Proposals, RecordMerge(p) PROVE CandidatesStay
  <2> DEFINE row == [proposals[p] EXCEPT !.status = "production_pending",
                                         !.merge = promoting[p].version]
  <2>1. proposals[p] \in Proposal /\ promoting[p].version \in Versions
    BY DEF TypeOK
  <2>2. proposals' = [proposals EXCEPT ![p] = row]
    BY <1>3 DEF RecordMerge, TypeOK
  <2>3. /\ row \in Proposal /\ row.state = proposals[p].state
        /\ \A field \in {"version", "hash", "pull", "trusted", "kind", "bundle"} :
              row[field] = proposals[p][field]
    BY <2>1 DEF Proposal, Statuses
  <2>. HIDE DEF row
  <2>. QED
    BY <1>3, <2>2, <2>3, RowStays
<1>. QED
  BY <1>1, <1>2, <1>3 DEF PromotionNext

LEMMA CandidatesStep ==
    ASSUME TypeOK, BuildsInv, Next
    PROVE  /\ proposals' \in [Proposals -> Proposal]
           /\ \A p \in Proposals : Built(p) \/ Shown(p)
<1>1. CASE BuildNext
  <2>1. PICK p \in Proposals : ChangesCandidate(p)
    BY <1>1, BuildersStep
  <2>2. \A q \in Proposals \ {p} : Decided(q)
    BY <2>1 DEF ChangesCandidate, Decided
  <2>. QED
    BY <2>1, <2>2 DEF ChangesCandidate, Built
<1>2. CASE RunNext
  BY <1>2, SameCandidates DEF RunNext, AssignRun, CandidatesStay, Built
<1>. QED
  BY <1>1, <1>2, PullsStay, ReviewsStay, PromotionsStay DEF Next, CandidatesStay, Built

-------------------------------------------------------------------------------
(* Types                                                                   *)

BundleStates ==
    {"absent", "validated", "canary", "trusted", "rejected", "rolled_back"}

LEMMA HeadType ==
    ASSUME NEW v \in Versions, HeadOf(v) # NoVersion
    PROVE  HeadOf(v) \in Builds /\ v = Draft(HeadOf(v))
BY BuildIds DEF HeadOf, Versions, Registered, Commit, NoVersion, Draft, Builds

LEMMA RunTypes == NoRun \in Run /\ NoRun.at = "absent"
BY DEF NoRun, Run

LEMMA ToControlType ==
    ASSUME TypeOK, NEW p, NEW i, ToControl(p, i)
    PROVE  /\ runs' \in [Runs -> Run]
           /\ \A r \in Runs : runs'[r].at = "queued" =>
                 runs'[r] = runs[r] /\ runs[r].canary # <<p, i>>
BY RunTypes DEF ToControl, TypeOK

LEMMA RefuseTypes ==
    ASSUME TypeOK, NEW p \in Proposals, Refuse(p)
    PROVE  bundles' \in [Bundles -> BundleStates] /\ runs' \in [Runs -> Run]
<1>1. ASSUME NEW state \in {"rejected", "rolled_back"}, Retire(p, state)
      PROVE  bundles' \in [Bundles -> BundleStates] /\ runs' \in [Runs -> Run]
  <2>1. bundles' \in [Bundles -> BundleStates]
    BY <1>1 DEF Retire, TypeOK, BundleStates
  <2>2. runs' \in [Runs -> Run]
    BY <1>1, ToControlType DEF Retire, TypeOK
  <2>. QED
    BY <2>1, <2>2
<1>. QED
  BY <1>1 DEF Refuse

LEMMA ReviewTypes ==
    ASSUME TypeOK, ReviewNext
    PROVE  /\ bundles' \in [Bundles -> BundleStates] /\ runs' \in [Runs -> Run]
           /\ overlapped' \in BOOLEAN
           /\ UNCHANGED <<requestVars, githubVars, disturbed, lost>>
<1>1. ASSUME NEW S \in SUBSET Proposals, ApproveCanaries(S)
      PROVE  /\ UNCHANGED <<bundles, runs, requestVars, githubVars, disturbed, lost>>
             /\ overlapped' \in BOOLEAN
  BY <1>1 DEF ApproveCanaries, TypeOK
<1>2. ASSUME NEW p \in Proposals, DecideOkf(p)
      PROVE  /\ bundles' \in [Bundles -> BundleStates]
             /\ UNCHANGED <<runs, requestVars, githubVars, ghostVars>>
  BY <1>2 DEF DecideOkf, TypeOK, BundleStates, ghostVars
<1>3. ASSUME NEW p \in Proposals, RefuseCanary(p)
      PROVE  /\ bundles' \in [Bundles -> BundleStates] /\ runs' \in [Runs -> Run]
             /\ UNCHANGED <<requestVars, githubVars, ghostVars>>
  BY <1>3, RefuseTypes DEF RefuseCanary, Refuse
<1>4. ASSUME NEW p \in Proposals, Expire(p) \/ AttestDeployment(p)
      PROVE  UNCHANGED <<bundles, runs, requestVars, githubVars, ghostVars>>
  BY <1>4 DEF Expire, AttestDeployment, UnchangedButBuilds, ghostVars
<1>5. ASSUME NEW p \in Proposals, NEW i \in DOMAIN canaries[p],
             Activate(p, i) \/ Passes(p, i)
      PROVE  /\ bundles' \in [Bundles -> BundleStates]
             /\ UNCHANGED <<runs, requestVars, githubVars, ghostVars>>
  BY <1>5 DEF Activate, Passes, TypeOK, BundleStates, ghostVars
<1>6. ASSUME NEW p \in Proposals, NEW i \in DOMAIN canaries[p], RollsBack(p, i)
      PROVE  /\ bundles' \in [Bundles -> BundleStates] /\ runs' \in [Runs -> Run]
             /\ UNCHANGED <<requestVars, githubVars, ghostVars>>
  <2>1. bundles' \in [Bundles -> BundleStates]
    BY <1>6 DEF RollsBack, TypeOK, BundleStates
  <2>. QED
    BY <1>6, <2>1, ToControlType DEF RollsBack
<1>7. bundles \in [Bundles -> BundleStates] /\ runs \in [Runs -> Run] /\ overlapped \in BOOLEAN
  BY DEF TypeOK, BundleStates
<1>. QED
  BY <1>1, <1>2, <1>3, <1>4, <1>5, <1>6, <1>7 DEF ReviewNext, ghostVars

LEMMA PullTypes ==
    ASSUME TypeOK, PullNext
    PROVE  /\ notices' \subseteq Proposals /\ lost' \subseteq Proposals
           /\ publishing' \subseteq [proposal : Proposals, hash : Versions]
           /\ pulls' \subseteq Proposals \X Versions
           /\ lost \subseteq lost'
<1>1. ASSUME NEW p \in Proposals, Reserve(p)
      PROVE  /\ notices' = notices \cup {p}
             /\ publishing' \subseteq [proposal : Proposals, hash : Versions]
             /\ UNCHANGED <<pulls, lost>>
  <2>1. proposals[p].hash \in Versions
    BY DEF TypeOK, Proposal
  <2>. QED
    BY <1>1, <2>1 DEF Reserve, TypeOK, githubVars, ghostVars
<1>2. ASSUME NEW x \in publishing, Publish(x) \/ AnswerIsLost(x) \/ PublicationFails(x)
      PROVE  /\ notices' \subseteq notices /\ publishing' = publishing \ {x}
             /\ lost' \in {lost, lost \cup {x.proposal}}
             /\ pulls' \in {pulls, pulls \cup {<<x.proposal, x.hash>>}}
  BY <1>2 DEF Publish, AnswerIsLost, PublicationFails, CreatePull, githubVars, ghostVars
<1>3. \A x \in publishing : x.proposal \in Proposals /\ x.hash \in Versions
  BY DEF TypeOK
<1>. QED
  BY <1>1, <1>2, <1>3 DEF PullNext, TypeOK

Promotion == [at : {"idle", "approved", "merged"},
              version : Versions, hash : Versions, pull : Versions]

LEMMA PromotionTypes ==
    ASSUME TypeOK, PromotionNext
    PROVE  /\ bundles' \in [Bundles -> BundleStates] /\ runs' \in [Runs -> Run]
           /\ promoting' \in [Proposals -> Promotion]
           /\ main' \subseteq [commit : Builds, proposal : Proposals, hash : Versions]
           /\ main \subseteq main'
           /\ UNCHANGED <<notices, publishing, pulls, ghostVars>>
<1>. /\ promoting \in [Proposals -> Promotion] /\ runs \in [Runs -> Run]
     /\ bundles \in [Bundles -> BundleStates]
     /\ main \subseteq [commit : Builds, proposal : Proposals, hash : Versions]
     /\ \A p \in Proposals : proposals[p] \in Proposal
  BY DEF TypeOK, Promotion, BundleStates
<1>1. ASSUME NEW p \in Proposals, ApprovePromotion(p)
      PROVE  /\ promoting' \in [Proposals -> Promotion]
             /\ UNCHANGED <<bundles, runs, main, notices, publishing, pulls, ghostVars>>
  <2>1. [at |-> "approved", version |-> proposals[p].version, hash |-> proposals[p].hash,
         pull |-> proposals[p].pull] \in Promotion
    BY DEF Promotion, Proposal
  <2>. QED
    BY <1>1, <2>1 DEF ApprovePromotion, githubVars, ghostVars
<1>2. ASSUME NEW p \in Proposals, RefusePromotion(p)
      PROVE  /\ bundles' \in [Bundles -> BundleStates] /\ runs' \in [Runs -> Run]
             /\ UNCHANGED <<promoting, main, notices, publishing, pulls, ghostVars>>
  BY <1>2, RefuseTypes DEF RefusePromotion, Refuse, requestVars, githubVars
<1>3. ASSUME NEW p \in Proposals, Merge(p)
      PROVE  /\ promoting' \in [Proposals -> Promotion]
             /\ main' \subseteq [commit : Builds, proposal : Proposals, hash : Versions]
             /\ main \subseteq main'
             /\ UNCHANGED <<bundles, runs, notices, publishing, pulls, ghostVars>>
  <2>1. HeadOf(promoting[p].pull) \in Builds /\ promoting[p].hash \in Versions
    BY <1>3, HeadType DEF Merge, Mergeable, Proposal, Promotion
  <2>2. [promoting[p] EXCEPT !.at = "merged"] \in Promotion
    BY DEF Promotion
  <2>. QED
    BY <1>3, <2>1, <2>2 DEF Merge
<1>4. ASSUME NEW p \in Proposals, PromotionFails(p) \/ RecordMerge(p)
      PROVE  /\ promoting' \in [Proposals -> Promotion]
             /\ UNCHANGED <<bundles, runs, main, notices, publishing, pulls, ghostVars>>
  <2>1. Idle \in Promotion
    BY VersionTypes DEF Idle, Promotion
  <2>. QED
    BY <1>4, <2>1 DEF PromotionFails, RecordMerge, githubVars
<1>5. ASSUME NEW p \in Proposals, AttestProduction(p)
      PROVE  /\ bundles' \in [Bundles -> BundleStates] /\ runs' \in [Runs -> Run]
             /\ UNCHANGED <<promoting, main, notices, publishing, pulls, ghostVars>>
  <2>1. bundles' \in [Bundles -> BundleStates]
    BY <1>5 DEF AttestProduction, BundleStates
  <2>2. runs' \in [Runs -> Run]
    BY <1>5, ToControlType DEF AttestProduction
  <2>. QED
    BY <1>5, <2>1, <2>2 DEF AttestProduction, requestVars, githubVars
<1>. QED
  BY <1>1, <1>2, <1>3, <1>4, <1>5 DEF PromotionNext

LEMMA RunNextTypes ==
    ASSUME TypeOK, RunNext
    PROVE  /\ runs' \in [Runs -> Run]
           /\ UNCHANGED <<proposals, builds, canaries, bundles, requestVars, githubVars,
                          ghostVars>>
<1>1. ASSUME NEW r \in Runs, NEW p \in Proposals, NEW i \in DOMAIN canaries[p],
             AssignRun(r, p, i)
      PROVE  runs' \in [Runs -> Run]
  <2>1. i \in Nat
    BY RowsType DEF TypeOK
  <2>2. \A at \in {"queued", "parked"} : [at |-> at, canary |-> <<p, i>>] \in Run
    BY <2>1 DEF Run
  <2>. QED
    BY <1>1, <2>2 DEF AssignRun, TypeOK
<1>2. ASSUME NEW r \in Runs, Resume(r) \/ StartRun(r) \/ CancelRun(r)
      PROVE  runs' \in [Runs -> Run]
  <2> DEFINE places == (Proposals \X Nat) \cup {<<>>}
  <2>1. runs[r] \in Run /\ [runs[r] EXCEPT !.at = "resumed"] \in Run
    <3>1. runs[r] \in Run
      BY DEF TypeOK
    <3>2. Run = [at : {"absent", "parked", "resumed", "queued"}, canary : places]
      BY DEF Run
    <3>. HIDE DEF places
    <3>. QED
      BY <3>1, <3>2
  <2>2. \E run \in {NoRun, [runs[r] EXCEPT !.at = "resumed"]} :
            runs' = [runs EXCEPT ![r] = run]
    BY <1>2 DEF Resume, StartRun, CancelRun, TypeOK
  <2>3. runs \in [Runs -> Run]
    BY DEF TypeOK
  <2>. QED
    BY <2>1, <2>2, <2>3, RunTypes
<1>. QED
  BY <1>1, <1>2 DEF RunNext, AssignRun

LEMMA RowsMoveType ==
    ASSUME TypeOK, RowsMove
    PROVE  canaries' \in [Proposals -> Seq(Canary)]
<1>1. \A p \in Proposals : /\ canaries[p] \in Seq(Canary)
                           /\ Pending(proposals[p].version) \in Canary
  BY PendingType DEF TypeOK, Proposal
<1>2. ASSUME NEW S \in SUBSET Proposals,
             canaries' = [p \in Proposals |->
                IF p \notin S THEN canaries[p]
                ELSE Append(canaries[p], Pending(proposals[p].version))]
      PROVE  canaries' \in [Proposals -> Seq(Canary)]
  BY <1>1, <1>2, RowAdded
<1>3. ASSUME NEW p \in Proposals, NEW i \in DOMAIN canaries[p], NEW c \in Canary,
             RowTo(p, i, c)
      PROVE  canaries' \in [Proposals -> Seq(Canary)]
  <2>1. [canaries[p] EXCEPT ![i] = c] \in Seq(Canary)
    BY <1>1, RowChanged
  <2>. QED
    BY <1>3, <2>1 DEF RowTo, TypeOK
<1>. QED
  BY <1>2, <1>3 DEF RowsMove, TypeOK

LEMMA TypesStep ==
    ASSUME TypeOK, BuildsInv, Next
    PROVE  TypeOK'
<1>1. /\ proposals' \in [Proposals -> Proposal] /\ builds' \in [Builds -> Build]
      /\ canaries' \in [Proposals -> Seq(Canary)]
  BY CandidatesStep, BuildsStep, CanariesStep, RowsMoveType DEF BuildsAge
<1>2. CASE BuildNext
  <2>1. PICK p \in Proposals : ChangesCandidate(p)
    BY <1>2, BuildersStep
  <2>. QED
    BY <1>1, <1>2, <2>1, BuildsLeaveCanaries DEF ChangesCandidate, TypeOK
<1>3. CASE PullNext
  BY <1>1, <1>3, PullTypes, PullsLeaveCanaries DEF TypeOK
<1>4. CASE ReviewNext
  BY <1>1, <1>4, ReviewTypes DEF TypeOK, requestVars, githubVars, BundleStates
<1>5. CASE RunNext
  BY <1>1, <1>5, RunNextTypes DEF TypeOK, requestVars, githubVars, ghostVars
<1>6. CASE PromotionNext
  BY <1>1, <1>6, PromotionTypes DEF TypeOK, ghostVars, BundleStates, Promotion
<1>. QED
  BY <1>2, <1>3, <1>4, <1>5, <1>6 DEF Next

-------------------------------------------------------------------------------
(* Versions, hashes and what is merged                                     *)

LEMMA ValidatedStays ==
    ASSUME BuildsAge, NEW v, NEW p, Validated(v, p)
    PROVE  Validated(v, p)'
<1>1. v \in Given
  BY DEF Validated, Given
<1>. QED
  BY <1>1 DEF BuildsAge, Ages, Validated

\* a draft is no commit, and each build has its own
LEMMA DraftIds ==
    ASSUME NEW b \in Builds, NEW c \in Builds
    PROVE  Draft(b) # c /\ Draft(b) # Commit(c) /\ (Draft(b) = Draft(c) => b = c)
BY BuildIds DEF Draft, Commit, Builds

LEMMA TrustStep ==
    ASSUME GovernanceInv, Next
    PROVE  TrustInv'
<1>1. BuildsAge /\ \A p \in Proposals : Built(p) \/ Shown(p)
  BY BuildsStep, CandidatesStep DEF GovernanceInv
<1> SUFFICES ASSUME NEW p \in Proposals,
                    proposals'[p].state = "validated_implementation", proposals'[p].trusted
             PROVE  Validated(proposals[p].version, p)'
  BY DEF TrustInv
<1>2. CASE /\ proposals'[p].version = proposals[p].version
           /\ proposals[p].trusted
           /\ proposals[p].state = "validated_implementation"
  <2> DEFINE v == proposals[p].version
  <2>1. Validated(v, p)
    BY <1>2 DEF GovernanceInv, TrustInv
  <2>2. v \in Builds /\ v \in Given
    BY <2>1 DEF Validated, Given
  <2>3. builds'[v].status = "validated" /\ builds'[v].proposal = p
    BY <1>1, <2>1, <2>2 DEF BuildsAge, Ages, Validated
  <2>. QED
    BY <1>2, <2>2, <2>3 DEF Validated
<1>3. Decided(p) => /\ proposals'[p].version = proposals[p].version
                    /\ proposals'[p].trusted = proposals[p].trusted
                    /\ proposals[p].state = "validated_implementation"
  BY DEF Decided
<1>4. Shown(p) => /\ proposals'[p].version = proposals[p].version
                  /\ proposals'[p].trusted = proposals[p].trusted
                  /\ proposals'[p].state = proposals[p].state
  <2> SUFFICES ASSUME NEW x, proposals'[p] = [proposals[p] EXCEPT !.pull = x]
               PROVE  \A field \in {"version", "trusted", "state"} :
                         proposals'[p][field] = proposals[p][field]
    BY DEF Shown
  <2>1. proposals[p] \in Proposal
    BY DEF GovernanceInv, TypeOK
  <2>. QED
    BY <2>1 DEF Proposal
<1>5. CASE \E b \in Builds : Attested(p, b)
  BY <1>5 DEF Attested, Commit, Validated
<1>. QED
  BY <1>1, <1>2, <1>3, <1>4, <1>5 DEF Built, Drafted, Coded, ByHand

\* what a proposal names next, it named before, or a build gave it
LEMMA VersionMoves ==
    ASSUME GovernanceInv, Next, NEW p \in Proposals
    PROVE  \/ /\ proposals'[p].version = proposals[p].version
              /\ proposals'[p].hash = proposals[p].hash
           \/ \E b \in Builds : Drafted(p, b) \/ Coded(p, b) \/ Attested(p, b)
           \/ ByHand(p)
<1>1. Decided(p) => /\ proposals'[p].version = proposals[p].version
                    /\ proposals'[p].hash = proposals[p].hash
  BY DEF Decided
<1>2. Shown(p) => /\ proposals'[p].version = proposals[p].version
                  /\ proposals'[p].hash = proposals[p].hash
  BY DEF Shown, GovernanceInv, TypeOK, Proposal
<1>3. Built(p) \/ Shown(p)
  BY CandidatesStep DEF GovernanceInv
<1>. QED
  BY <1>1, <1>2, <1>3 DEF Built

LEMMA PromotingMoves ==
    ASSUME GovernanceInv, Next, NEW p \in Proposals
    PROVE  /\ \E at \in {promoting[p], Idle, proposals[p]} :
                 /\ promoting'[p].version = at.version /\ promoting'[p].hash = at.hash
                 /\ promoting'[p].pull = at.pull
           /\ \/ promoting'[p].at \in {"idle", "approved"}
              \/ promoting'[p] = promoting[p]
              \/ Merge(p) /\ promoting'[p].version = promoting[p].version
<1>. /\ promoting \in [Proposals -> Promotion] /\ promoting[p] \in Promotion
     /\ proposals[p] \in Proposal
  BY DEF GovernanceInv, TypeOK, Promotion
<1>1. CASE promoting'[p] = promoting[p]
  BY <1>1
<1>2. CASE promoting'[p] # promoting[p]
  <2>1. PICK q \in Proposals : ApprovePromotion(q) \/ Merge(q) \/ PromotionFails(q)
                               \/ RecordMerge(q)
    <3>1. CASE BuildNext \/ PullNext \/ ReviewNext \/ RunNext
      BY <1>2, <3>1, BuildsLeaveCanaries, PullsLeaveCanaries, ReviewTypes, RunNextTypes
      DEF requestVars, GovernanceInv
    <3>2. ASSUME NEW q \in Proposals, RefusePromotion(q) \/ AttestProduction(q)
          PROVE  UNCHANGED promoting
      BY <3>2 DEF RefusePromotion, Refuse, AttestProduction, requestVars
    <3>. QED
      BY <1>2, <3>1, <3>2 DEF Next, PromotionNext
  <2>2. q = p
    BY <1>2, <2>1 DEF ApprovePromotion, Merge, PromotionFails, RecordMerge
  <2>3. CASE ApprovePromotion(p)
    BY <2>3 DEF ApprovePromotion
  <2>4. CASE Merge(p)
    <3>1. promoting'[p] = [promoting[p] EXCEPT !.at = "merged"]
      BY <2>4 DEF Merge
    <3>. QED
      BY <2>4, <3>1 DEF Promotion
  <2>5. CASE PromotionFails(p) \/ RecordMerge(p)
    BY <2>5 DEF PromotionFails, RecordMerge, Idle
  <2>. QED
    BY <2>1, <2>2, <2>3, <2>4, <2>5
<1>. QED
  BY <1>1, <1>2

LEMMA IdleNamesNothing ==
    /\ Idle.version = NoVersion /\ Idle.pull = NoVersion /\ Idle.at = "idle"
    /\ NoVersion \notin Builds
BY VersionTypes DEF Idle

LEMMA VersionStep ==
    ASSUME GovernanceInv, Next
    PROVE  VersionInv'
<1>1. BuildsAge
  BY BuildsStep DEF GovernanceInv
<1>2. ASSUME NEW p \in Proposals, NEW b \in Builds, proposals'[p].version = b
      PROVE  HasDraft(b)'
  <2>1. CASE proposals'[p].version = proposals[p].version
    BY <1>1, <1>2, <2>1 DEF GovernanceInv, VersionInv, BuildsAge, Ages
  <2>2. ASSUME NEW c \in Builds, Drafted(p, c) PROVE FALSE
    BY <1>2, <2>2, DraftIds DEF Drafted
  <2>3. ASSUME NEW c \in Builds, Coded(p, c) PROVE HasDraft(b)'
    BY <1>2, <2>3, VersionTypes DEF Coded
  <2>4. ASSUME NEW c \in Builds, Attested(p, c) PROVE HasDraft(b)'
    BY <1>2, <2>4, VersionTypes DEF Attested, Validated, HasDraft
  <2>5. CASE ByHand(p)
    BY <1>2, <2>5, VersionTypes DEF ByHand
  <2>. QED
    BY <2>1, <2>2, <2>3, <2>4, <2>5, VersionMoves
<1>3. ASSUME NEW p \in Proposals, NEW b \in Builds, promoting'[p].version = b
      PROVE  HasDraft(b)'
  <2>1. HasDraft(b)
    BY <1>3, PromotingMoves, IdleNamesNothing DEF GovernanceInv, VersionInv
  <2>. QED
    BY <1>1, <2>1 DEF BuildsAge, Ages
<1>. QED
  BY <1>2, <1>3 DEF VersionInv

\* a hash that a proposal comes to have is that of its draft, or of no draft
LEMMA HashMoves ==
    ASSUME GovernanceInv, Next, NEW p \in Proposals, NEW b \in Builds,
           Draft(b) \in HashesOf(p)'
    PROVE  Draft(b) \in HashesOf(p) \/ Drafted(p, b)
<1>1. /\ \A x \in publishing : x.proposal = p => x.hash \in HashesOf(p)
      /\ {proposals[p].hash, proposals[p].pull, promoting[p].pull} \subseteq HashesOf(p)
  BY DEF HashesOf
<1>2. ASSUME NEW x \in publishing', x.proposal = p PROVE x.hash \in HashesOf(p)
  <2>1. CASE publishing' \subseteq publishing
    BY <1>1, <1>2, <2>1
  <2>2. ASSUME NEW q \in Proposals, Reserve(q) PROVE x.hash \in HashesOf(p)
    <3>1. x \in publishing \/ x = [proposal |-> q, hash |-> proposals[q].hash]
      BY <2>2 DEF Reserve
    <3>. QED
      BY <1>1, <1>2, <3>1
  <2>3. PullNext => publishing' \subseteq publishing \/ \E q \in Proposals : Reserve(q)
    BY DEF PullNext, Publish, AnswerIsLost, PublicationFails, CreatePull
  <2>4. ~PullNext => UNCHANGED publishing
    BY BuildsLeaveCanaries, ReviewTypes, RunNextTypes, PromotionTypes
    DEF Next, requestVars, GovernanceInv
  <2>. QED
    BY <2>1, <2>2, <2>3, <2>4
<1>3. ASSUME Draft(b) \in {proposals'[p].hash, proposals'[p].pull}
      PROVE  Draft(b) \in HashesOf(p) \/ Drafted(p, b)
  <2>1. CASE Decided(p)
    <3>1. proposals'[p].hash = proposals[p].hash /\ proposals'[p].pull = proposals[p].pull
      BY <2>1 DEF Decided
    <3>. QED
      BY <1>1, <1>3, <3>1
  <2>2. CASE Shown(p)
    <3>1. PICK x \in publishing :
            x.proposal = p /\ proposals'[p] = [proposals[p] EXCEPT !.pull = x.hash]
      BY <2>2 DEF Shown
    <3>2. proposals'[p].hash = proposals[p].hash /\ proposals'[p].pull = x.hash
      BY <3>1 DEF GovernanceInv, TypeOK, Proposal
    <3>. QED
      BY <1>1, <1>3, <3>1, <3>2
  <2>3. ASSUME NEW c \in Builds, Drafted(p, c) PROVE Drafted(p, b)
    <3>1. c = b
      BY <1>3, <2>3, VersionTypes, DraftIds DEF Drafted
    <3>. QED
      BY <2>3, <3>1
  <2>4. ASSUME NEW c \in Builds, Coded(p, c) \/ Attested(p, c)
        PROVE  Draft(b) \in HashesOf(p)
    <3>1. /\ proposals'[p].pull = proposals[p].pull
          /\ proposals'[p].hash \in {proposals[p].hash, Commit(c)}
      BY <2>4 DEF Coded, Attested
    <3>2. Draft(b) # Commit(c)
      BY DraftIds
    <3>. QED
      BY <1>1, <1>3, <3>1, <3>2
  <2>5. CASE ByHand(p)
    <3>1. Draft(b) # Registered /\ Draft(b) # NoVersion
      BY BuildIds, VersionTypes DEF Registered
    <3>. QED
      BY <1>3, <2>5, <3>1 DEF ByHand
  <2>. QED
    BY <2>1, <2>2, <2>3, <2>4, <2>5, CandidatesStep DEF GovernanceInv, Built
<1>4. \/ Draft(b) \in {proposals'[p].hash, proposals'[p].pull, promoting'[p].pull}
      \/ \E x \in publishing' : x.proposal = p /\ x.hash = Draft(b)
  BY DEF HashesOf
<1>5. ASSUME promoting'[p].pull = Draft(b) PROVE Draft(b) \in HashesOf(p)
  BY <1>1, <1>5, PromotingMoves, IdleNamesNothing, VersionTypes
<1>. QED
  BY <1>2, <1>3, <1>4, <1>5

LEMMA HashStep ==
    ASSUME GovernanceInv, Next
    PROVE  HashInv'
<1>1. BuildsAge
  BY BuildsStep DEF GovernanceInv
<1> SUFFICES ASSUME NEW p \in Proposals, NEW b \in Builds, Draft(b) \in HashesOf(p)'
             PROVE  /\ HasDraft(b)'
                    /\ proposals'[p].version = b =>
                          builds'[b].status = "validated" /\ proposals'[p].hash = b
                    /\ promoting'[p].version = b =>
                          builds'[b].status = "validated" /\ promoting'[p].hash = b
  BY DEF HashInv
<1>2. CASE Draft(b) \in HashesOf(p)
  <2>1. /\ HasDraft(b)
        /\ \A at \in {proposals[p], promoting[p]} :
              at.version = b => builds[b].status = "validated" /\ at.hash = b
    BY <1>2 DEF GovernanceInv, HashInv
  <2>2. HasDraft(b)' /\ (builds[b].status = "validated" => builds'[b].status = "validated")
    BY <1>1, <2>1 DEF BuildsAge, Ages
  <2>3. ASSUME promoting'[p].version = b
        PROVE  builds'[b].status = "validated" /\ promoting'[p].hash = b
    BY <2>1, <2>2, <2>3, PromotingMoves, IdleNamesNothing
  <2>4. ASSUME proposals'[p].version = b
        PROVE  builds'[b].status = "validated" /\ proposals'[p].hash = b
    <3>1. CASE /\ proposals'[p].version = proposals[p].version
               /\ proposals'[p].hash = proposals[p].hash
      BY <2>1, <2>2, <2>4, <3>1
    <3>2. ASSUME NEW c \in Builds, Drafted(p, c) PROVE FALSE
      BY <2>4, <3>2, DraftIds DEF Drafted
    <3>3. ASSUME NEW c \in Builds, Coded(p, c) PROVE FALSE
      BY <2>1, <2>4, <3>3, VersionTypes DEF Coded, HasDraft
    <3>4. ASSUME NEW c \in Builds, Attested(p, c)
          PROVE  builds'[b].status = "validated" /\ proposals'[p].hash = b
      BY <2>4, <3>4, VersionTypes DEF Attested, Validated
    <3>5. CASE ByHand(p)
      BY <2>4, <3>5, VersionTypes DEF ByHand
    <3>. QED
      BY <3>1, <3>2, <3>3, <3>4, <3>5, VersionMoves
  <2>. QED
    BY <2>2, <2>3, <2>4
<1>3. CASE Drafted(p, b)
  <2>1. HasDraft(b)' /\ ~HasDraft(b) /\ proposals'[p].version # b
    BY <1>3, DraftIds DEF Drafted, HasDraft
  <2>2. promoting'[p].version # b
    BY <2>1, PromotingMoves, IdleNamesNothing DEF GovernanceInv, VersionInv
  <2>. QED
    BY <2>1, <2>2
<1>. QED
  BY <1>2, <1>3, HashMoves

LEMMA MainMoves ==
    ASSUME GovernanceInv, Next
    PROVE  /\ main \subseteq main'
           /\ \A m \in main' \ main :
                 /\ m.proposal \in Proposals /\ Merge(m.proposal)
                 /\ m.commit = promoting[m.proposal].version
                 /\ builds[m.commit].status = "validated" /\ m.hash = m.commit
                 /\ m.commit \in Builds
<1>1. ASSUME NEW p \in Proposals, Merge(p)
      PROVE  LET m == [commit |-> HeadOf(promoting[p].pull), proposal |-> p,
                       hash |-> promoting[p].hash]
             IN  /\ main' = main \cup {m}
                 /\ m.commit = promoting[p].version
                 /\ builds[m.commit].status = "validated" /\ m.hash = m.commit
                 /\ m.commit \in Builds
  <2> DEFINE b == HeadOf(promoting[p].pull)
  <2>1. b \in Builds /\ promoting[p].pull = Draft(b) /\ promoting[p].version = b
    BY <1>1, HeadType DEF Merge, Mergeable, GovernanceInv, TypeOK
  <2>2. Draft(b) \in HashesOf(p)
    BY <2>1 DEF HashesOf
  <2>3. builds[b].status = "validated" /\ promoting[p].hash = b
    BY <2>1, <2>2 DEF GovernanceInv, HashInv
  <2>. QED
    BY <1>1, <2>1, <2>3 DEF Merge
<1>2. CASE ~\E p \in Proposals : Merge(p)
  <2>1. ASSUME NEW p \in Proposals,
               \/ ApprovePromotion(p) \/ RefusePromotion(p) \/ PromotionFails(p)
               \/ RecordMerge(p) \/ AttestProduction(p)
        PROVE  UNCHANGED main
    BY <2>1 DEF ApprovePromotion, RefusePromotion, Refuse, PromotionFails, RecordMerge,
       AttestProduction, githubVars
  <2>2. UNCHANGED main
    BY <1>2, <2>1, BuildsLeaveCanaries, PullsLeaveCanaries, ReviewTypes, RunNextTypes
    DEF Next, PromotionNext, githubVars, GovernanceInv
  <2>. QED
    BY <2>2
<1>. QED
  BY <1>1, <1>2

LEMMA CommitStep ==
    ASSUME GovernanceInv, Next
    PROVE  CommitInv'
<1>1. BuildsAge
  BY BuildsStep DEF GovernanceInv
<1> SUFFICES ASSUME NEW m \in main'
             PROVE  builds'[m.commit].status = "validated" /\ m.hash = m.commit
  BY DEF CommitInv
<1>2. /\ builds[m.commit].status = "validated" /\ m.hash = m.commit
      /\ m.commit \in Builds
  BY MainMoves DEF GovernanceInv, CommitInv, TypeOK
<1>. QED
  BY <1>1, <1>2 DEF BuildsAge, Ages

LEMMA MergeStep ==
    ASSUME GovernanceInv, Next
    PROVE  MergeInv'
<1> SUFFICES ASSUME NEW p \in Proposals
             PROVE  /\ proposals'[p].merge # NoVersion =>
                          proposals'[p].merge \in CommitsOf(p)'
                    /\ promoting'[p].at = "merged" =>
                          promoting'[p].version \in CommitsOf(p)'
  BY DEF MergeInv
<1>1. CommitsOf(p) \subseteq CommitsOf(p)'
  BY MainMoves DEF CommitsOf
<1>2. ASSUME proposals'[p].merge # NoVersion PROVE proposals'[p].merge \in CommitsOf(p)
  <2>1. CASE proposals'[p].merge = proposals[p].merge
    BY <1>2, <2>1 DEF GovernanceInv, MergeInv
  <2>2. CASE RecordMerge(p)
    <3>1. proposals'[p].merge = promoting[p].version
      BY <2>2 DEF RecordMerge, GovernanceInv, TypeOK, Proposal
    <3>. QED
      BY <2>2, <3>1 DEF RecordMerge, GovernanceInv, MergeInv
  <2>3. Shown(p) => proposals'[p].merge = proposals[p].merge
    BY DEF Shown, GovernanceInv, TypeOK, Proposal
  <2>4. Built(p) \/ Shown(p)
    BY CandidatesStep DEF GovernanceInv
  <2>. QED
    BY <1>2, <2>1, <2>2, <2>3, <2>4 DEF Built, Decided, Drafted, Coded, Attested, ByHand
<1>3. ASSUME promoting'[p].at = "merged"
      PROVE  promoting'[p].version \in CommitsOf(p)'
  <2>1. CASE promoting'[p] = promoting[p]
    BY <1>1, <1>3, <2>1 DEF GovernanceInv, MergeInv
  <2>2. CASE Merge(p) /\ promoting'[p].version = promoting[p].version
    <3>1. HeadOf(promoting[p].pull) = promoting[p].version
      BY <2>2 DEF Merge, Mergeable
    <3>2. [commit |-> promoting[p].version, proposal |-> p, hash |-> promoting[p].hash]
              \in main'
      BY <2>2, <3>1 DEF Merge
    <3>. QED
      BY <2>2, <3>2 DEF CommitsOf
  <2>. QED
    BY <1>3, <2>1, <2>2, PromotingMoves
<1>. QED
  BY <1>1, <1>2, <1>3

-------------------------------------------------------------------------------
(* The canaries of one proposal                                            *)

RowsNext(p) ==
    \/ canaries'[p] = canaries[p]
    \/ Approvable(p) /\ canaries'[p] = Append(canaries[p], Pending(proposals[p].version))
    \/ \E i \in DOMAIN canaries[p] : \E c \in Canary :
          /\ canaries'[p] = [canaries[p] EXCEPT ![i] = c]
          /\ Activated(p, i, c) \/ Judged(p, i, c) \/ Ended(p, i, c)

LEMMA RowsOfOne ==
    ASSUME TypeOK, RowsMove, NEW p \in Proposals
    PROVE  RowsNext(p)
<1>1. CASE UNCHANGED canaries
  BY <1>1 DEF RowsNext
<1>2. ASSUME NEW S \in SUBSET Proposals, \A q \in S : Approvable(q),
             canaries' = [q \in Proposals |->
                IF q \notin S THEN canaries[q]
                ELSE Append(canaries[q], Pending(proposals[q].version))]
      PROVE  RowsNext(p)
  <2>1. canaries'[p] = IF p \notin S THEN canaries[p]
                       ELSE Append(canaries[p], Pending(proposals[p].version))
    BY <1>2
  <2>. QED
    BY <1>2, <2>1 DEF RowsNext
<1>3. ASSUME NEW q \in Proposals, NEW i \in DOMAIN canaries[q], NEW c \in Canary,
             RowTo(q, i, c), Activated(q, i, c) \/ Judged(q, i, c) \/ Ended(q, i, c)
      PROVE  RowsNext(p)
  <2>1. canaries'[p] = IF p = q THEN [canaries[q] EXCEPT ![i] = c] ELSE canaries[p]
    BY <1>3 DEF RowTo, TypeOK
  <2>. QED
    BY <1>3, <2>1 DEF RowsNext
<1>. QED
  BY <1>1, <1>2, <1>3 DEF RowsMove

LEMMA RowsKeepVersions ==
    ASSUME TypeOK, NEW p \in Proposals, RowsNext(p), NEW i \in DOMAIN canaries'[p]
    PROVE  \/ i \in DOMAIN canaries[p] /\ canaries'[p][i].version = canaries[p][i].version
           \/ Approvable(p) /\ canaries'[p][i] = Pending(proposals[p].version)
<1>1. /\ canaries[p] \in Seq(Canary) /\ \A j \in DOMAIN canaries[p] : canaries[p][j] \in Canary
      /\ Pending(proposals[p].version) \in Canary
  BY RowsType, PendingType DEF TypeOK, Proposal
<1>2. CASE canaries'[p] = Append(canaries[p], Pending(proposals[p].version)) /\ Approvable(p)
  BY <1>1, <1>2, RowAdded
<1>3. ASSUME NEW j \in DOMAIN canaries[p], NEW c \in Canary,
             canaries'[p] = [canaries[p] EXCEPT ![j] = c],
             Activated(p, j, c) \/ Judged(p, j, c) \/ Ended(p, j, c)
      PROVE  i \in DOMAIN canaries[p] /\ canaries'[p][i].version = canaries[p][i].version
  <2>1. c.version = canaries[p][j].version
    <3>1. canaries[p][j] \in Canary
      BY <1>1
    <3>. QED
      BY <1>3, <3>1 DEF Activated, Judged, Ended, Canary
  <2>. QED
    BY <1>1, <1>3, <2>1, RowChanged
<1>. QED
  BY <1>2, <1>3 DEF RowsNext

LEMMA ValidatedRowsStep ==
    ASSUME GovernanceInv, Next
    PROVE  CanariesWereValidated'
<1>1. TypeOK /\ BuildsAge
  BY BuildsStep DEF GovernanceInv
<1> SUFFICES ASSUME NEW p \in Proposals, NEW i \in DOMAIN canaries'[p]
             PROVE  LET v == canaries'[p][i].version
                    IN  /\ v \in Builds /\ builds'[v].status = "validated"
                        /\ builds'[v].proposal = p
  BY DEF CanariesWereValidated, CanaryRows
<1> DEFINE v == canaries'[p][i].version
<1>2. Validated(v, p)
  <2>1. RowsNext(p)
    BY <1>1, CanariesStep, RowsOfOne
  <2>2. CASE i \in DOMAIN canaries[p] /\ v = canaries[p][i].version
    BY <2>2 DEF GovernanceInv, CanariesWereValidated, CanaryRows, Validated
  <2>3. CASE Approvable(p) /\ canaries'[p][i] = Pending(proposals[p].version)
    <3>1. v = proposals[p].version
      BY <2>3 DEF Pending
    <3>. QED
      BY <2>3, <3>1 DEF GovernanceInv, TrustInv, Approvable
  <2>. QED
    BY <1>1, <2>1, <2>2, <2>3, RowsKeepVersions
<1>. HIDE DEF v
<1>3. v \in Builds /\ v \in Given
  BY <1>2 DEF Validated, Given
<1>. QED
  BY <1>1, <1>2, <1>3 DEF BuildsAge, Ages, Validated, v

\* the rows that have started, when one row is written
LEMMA StartedRows ==
    ASSUME NEW rows \in Seq(Canary), NEW i \in DOMAIN rows, NEW c \in Canary
    PROVE  LET next == [rows EXCEPT ![i] = c]
           IN  /\ c.start = rows[i].start => Started(next) = Started(rows)
               /\ rows[i].start = 0 /\ c.start > 0 =>
                     Cardinality(Started(next)) = 1 + Cardinality(Started(rows))
<1> DEFINE next == [rows EXCEPT ![i] = c]
<1>1. /\ DOMAIN next = DOMAIN rows /\ next[i] = c
      /\ \A j \in DOMAIN rows \ {i} : next[j] = rows[j]
  BY RowChanged
<1>2. c.start = rows[i].start => Started(next) = Started(rows)
  BY <1>1 DEF Started
<1>3. ASSUME rows[i].start = 0, c.start > 0
      PROVE  Cardinality(Started(next)) = 1 + Cardinality(Started(rows))
  <2>1. i \notin Started(rows)
    BY <1>3 DEF Started
  <2>2. Started(next) = Started(rows) \cup {i}
    BY <1>1, <1>3 DEF Started
  <2>3. IsFiniteSet(Started(rows)) /\ Cardinality(Started(rows)) \in Nat
    BY RowsType
  <2>4. Cardinality(Started(rows) \cup {i}) = Cardinality(Started(rows)) + 1
    BY <2>1, <2>3, FS_AddElement
  <2>. HIDE DEF next
  <2>. QED
    BY <2>2, <2>3, <2>4
<1>. QED
  BY <1>2, <1>3

LEMMA StartStep ==
    ASSUME GovernanceInv, Next
    PROVE  StartInv'
<1> SUFFICES ASSUME NEW p \in Proposals
             PROVE  \A i \in DOMAIN canaries'[p] :
                       /\ canaries'[p][i].status = "pending" => canaries'[p][i].start = 0
                       /\ canaries'[p][i].start <= Cardinality(Started(canaries'[p]))
  BY DEF StartInv
<1> DEFINE rows == canaries[p]
           next == canaries'[p]
           n == Cardinality(Started(rows))
<1>1. /\ rows \in Seq(Canary) /\ DOMAIN rows = 1 .. Len(rows) /\ Len(rows) \in Nat
      /\ \A j \in DOMAIN rows : rows[j] \in Canary
      /\ n \in Nat
      /\ Pending(proposals[p].version) \in Canary
  BY RowsType, PendingType DEF GovernanceInv, TypeOK, Proposal
<1>2. \A j \in DOMAIN rows : /\ rows[j].status = "pending" => rows[j].start = 0
                             /\ rows[j].start <= n /\ rows[j].start \in Nat
  BY <1>1 DEF GovernanceInv, StartInv, Canary
<1>3. RowsNext(p)
  BY CanariesStep, RowsOfOne DEF GovernanceInv
<1>4. CASE next = rows
  BY <1>2, <1>4
<1>5. CASE next = Append(rows, Pending(proposals[p].version))
  <2>1. /\ DOMAIN next = DOMAIN rows \cup {Len(rows) + 1}
        /\ next[Len(rows) + 1] = Pending(proposals[p].version)
        /\ \A j \in DOMAIN rows : next[j] = rows[j]
    BY <1>1, <1>5, RowAdded
  <2>2. Pending(proposals[p].version).start = 0
    BY DEF Pending
  <2>3. Started(next) = Started(rows)
    BY <2>1, <2>2 DEF Started
  <2>. QED
    BY <1>1, <1>2, <2>1, <2>2, <2>3
<1>6. ASSUME NEW i \in DOMAIN rows, NEW c \in Canary, next = [rows EXCEPT ![i] = c],
             Activated(p, i, c) \/ Judged(p, i, c) \/ Ended(p, i, c)
      PROVE  \A j \in DOMAIN next :
                /\ next[j].status = "pending" => next[j].start = 0
                /\ next[j].start <= Cardinality(Started(next))
  <2>1. /\ DOMAIN next = DOMAIN rows /\ next[i] = c
        /\ \A j \in DOMAIN rows \ {i} : next[j] = rows[j]
    BY <1>1, <1>6, RowChanged
  <2>2. rows[i] \in Canary
    BY <1>1
  <2>. HIDE DEF rows, next
  <2>3. CASE Activated(p, i, c)
    <3>1. c.status = "active" /\ c.start = 1 + n /\ rows[i].status = "pending"
      BY <1>1, <2>2, <2>3 DEF Activated, Canary, rows
    <3>2. rows[i].start = 0 /\ c.start > 0
      BY <1>1, <1>2, <3>1
    <3>3. Cardinality(Started(next)) = 1 + n
      BY <1>1, <1>6, <3>2, StartedRows
    <3>. HIDE DEF n
    <3>. QED
      BY <1>1, <1>2, <2>1, <3>1, <3>3
  <2>4. CASE Judged(p, i, c) \/ Ended(p, i, c)
    <3>1. c.start = rows[i].start /\ c.status \in {rows[i].status, "passed", "rolled_back"}
      BY <2>2, <2>4 DEF Judged, Ended, Canary, rows
    <3>2. Started(next) = Started(rows)
      BY <1>1, <1>6, <3>1, StartedRows
    <3>. QED
      BY <1>2, <2>1, <3>1, <3>2
  <2>. QED
    BY <1>6, <2>3, <2>4
<1>. QED
  BY <1>3, <1>4, <1>5, <1>6 DEF RowsNext

-------------------------------------------------------------------------------
(* The runs that never started                                             *)

LEMMA ReturnStep ==
    ASSUME GovernanceInv, Next
    PROVE  NeverStartedRunsReturn'
<1>1. TypeOK /\ RowsMove
  BY CanariesStep DEF GovernanceInv
<1> SUFFICES ASSUME NEW r \in Runs, runs'[r].at = "queued"
             PROVE  HasExecutor(r)'
  BY DEF NeverStartedRunsReturn
<1>2. runs[r].at = "queued" =>
         \E q \in Proposals : \E j \in DOMAIN canaries[q] :
            runs[r].canary = <<q, j>> /\ canaries[q][j].routing
  BY DEF GovernanceInv, NeverStartedRunsReturn, HasExecutor
<1>3. CASE UNCHANGED canaries /\ runs'[r] = runs[r]
  BY <1>2, <1>3 DEF HasExecutor
<1>4. CASE RunNext
  <2>1. ASSUME NEW s \in Runs, NEW p \in Proposals, NEW i \in DOMAIN canaries[p],
               AssignRun(s, p, i)
        PROVE  HasExecutor(r)'
    <3>1. UNCHANGED canaries /\ canaries[p][i].routing
      BY <2>1 DEF AssignRun
    <3>2. runs'[r] = runs[r] \/ runs'[r].canary = <<p, i>>
      BY <1>1, <2>1 DEF AssignRun, TypeOK
    <3>. QED
      BY <1>3, <3>1, <3>2 DEF HasExecutor
  <2>2. ASSUME NEW s \in Runs, Resume(s) \/ StartRun(s) \/ CancelRun(s)
        PROVE  runs'[r] = runs[r]
    <3>1. runs[s] \in Run
      BY <1>1 DEF TypeOK
    <3>2. s # r
      <4>1. Resume(s) => runs'[s].at = "resumed"
        BY <1>1, <3>1 DEF Resume, TypeOK, Run
      <4>2. StartRun(s) \/ CancelRun(s) => runs'[s].at = "absent"
        BY <1>1 DEF StartRun, CancelRun, TypeOK, NoRun
      <4>. QED
        BY <2>2, <4>1, <4>2
    <3>. QED
      BY <1>1, <2>2, <3>2 DEF Resume, StartRun, CancelRun, TypeOK
  <2>. QED
    BY <1>3, <1>4, <2>1, <2>2, RunNextTypes, <1>1 DEF RunNext
<1>5. CASE UNCHANGED canaries /\ UNCHANGED runs
  BY <1>3, <1>5
<1>6. ASSUME NEW S \in SUBSET Proposals, UNCHANGED runs,
             canaries' = [p \in Proposals |->
                IF p \notin S THEN canaries[p]
                ELSE Append(canaries[p], Pending(proposals[p].version))]
      PROVE  HasExecutor(r)'
  <2>1. PICK q \in Proposals : \E j \in DOMAIN canaries[q] :
           runs[r].canary = <<q, j>> /\ canaries[q][j].routing
    BY <1>2, <1>6
  <2>2. PICK j \in DOMAIN canaries[q] : runs[r].canary = <<q, j>> /\ canaries[q][j].routing
    BY <2>1
  <2>3. canaries[q] \in Seq(Canary) /\ Pending(proposals[q].version) \in Canary
    BY <1>1, PendingType DEF TypeOK, Proposal
  <2>4. j \in DOMAIN canaries'[q] /\ canaries'[q][j] = canaries[q][j]
    BY <1>6, <2>3, RowAdded
  <2>. QED
    BY <1>6, <2>2, <2>4 DEF HasExecutor
<1>7. ASSUME NEW p \in Proposals, NEW i \in DOMAIN canaries[p], NEW c \in Canary,
             RowTo(p, i, c),
             \/ (Activated(p, i, c) \/ Judged(p, i, c)) /\ UNCHANGED runs
             \/ Ended(p, i, c) /\ ToControl(p, i)
      PROVE  HasExecutor(r)'
  <2>1. runs'[r] = runs[r]
    BY <1>1, <1>7, ToControlType
  <2>2. PICK q \in Proposals : \E j \in DOMAIN canaries[q] :
           runs[r].canary = <<q, j>> /\ canaries[q][j].routing
    BY <1>2, <2>1
  <2>3. PICK j \in DOMAIN canaries[q] : runs[r].canary = <<q, j>> /\ canaries[q][j].routing
    BY <2>2
  <2>4. canaries[p] \in Seq(Canary) /\ canaries[p][i] \in Canary
    BY <1>1, RowsType DEF TypeOK
  <2>5. CASE q # p \/ j # i
    <3>1. j \in DOMAIN canaries'[q] /\ canaries'[q][j] = canaries[q][j]
      BY <1>1, <1>7, <2>4, <2>5, RowChanged DEF RowTo, TypeOK
    <3>. QED
      BY <2>1, <2>3, <3>1 DEF HasExecutor
  <2>6. CASE q = p /\ j = i
    <3>1. c.routing
      <4>1. ~Ended(p, i, c) \/ ~ToControl(p, i)
        BY <1>1, <2>3, <2>6, ToControlType
      <4>2. CASE Activated(p, i, c)
        BY <2>4, <4>2 DEF Activated, Canary
      <4>3. CASE Judged(p, i, c)
        <5>1. c.routing = canaries[p][i].routing
          BY <2>4, <4>3 DEF Judged, Canary
        <5>. QED
          BY <2>3, <2>6, <5>1
      <4>. QED
        BY <1>7, <4>1, <4>2, <4>3
    <3>2. i \in DOMAIN canaries'[p] /\ canaries'[p][i] = c
      BY <1>1, <1>7, <2>4, RowChanged DEF RowTo, TypeOK
    <3>. QED
      BY <2>1, <2>3, <2>6, <3>1, <3>2 DEF HasExecutor
  <2>. QED
    BY <2>5, <2>6
<1>. QED
  BY <1>1, <1>4, <1>5, <1>6, <1>7 DEF RowsMove

-------------------------------------------------------------------------------
(* The pull requests                                                       *)

OnePull(p) ==
    /\ PullsOf(p) = {} \/ PublishingOf(p) = {}
    /\ PullsOf(p) \cup PublishingOf(p) # {} => p \in notices
    /\ \A x, y \in PullsOf(p) : x = y
    /\ \A x, y \in PublishingOf(p) : x = y

LEMMA PullStep ==
    ASSUME GovernanceInv, Next
    PROVE  PullInv'
<1> SUFFICES ASSUME NEW p \in Proposals \ lost'
             PROVE  OnePull(p)'
  BY DEF PullInv, OnePull
<1>1. p \notin lost => OnePull(p)
  BY DEF GovernanceInv, PullInv, OnePull
<1>2. CASE ~PullNext
  <2>1. UNCHANGED <<notices, publishing, pulls, lost>>
    BY <1>2, BuildsLeaveCanaries, ReviewTypes, RunNextTypes, PromotionTypes
    DEF Next, requestVars, githubVars, ghostVars, GovernanceInv
  <2>. QED
    BY <1>1, <2>1 DEF OnePull, PullsOf, PublishingOf
<1>3. CASE PullNext
  <2>1. p \notin lost
    BY <1>3, PullTypes DEF GovernanceInv
  <2>2. ASSUME NEW q \in Proposals, Reserve(q) PROVE OnePull(p)'
    <3> DEFINE new == [proposal |-> q, hash |-> proposals[q].hash]
    <3>1. /\ PullsOf(p)' = PullsOf(p)
          /\ PublishingOf(p)' = PublishingOf(p) \cup (IF q = p THEN {new} ELSE {})
          /\ notices' = notices \cup {q} /\ q \notin notices
      BY <2>2 DEF Reserve, PullsOf, PublishingOf, githubVars
    <3>2. CASE q = p
      <4>1. PullsOf(p) = {} /\ PublishingOf(p) = {}
        BY <1>1, <2>1, <3>1, <3>2 DEF OnePull
      <4>. HIDE DEF new
      <4>2. PullsOf(p)' = {} /\ PublishingOf(p)' = {new} /\ p \in notices'
        BY <3>1, <3>2, <4>1
      <4>. QED
        BY <4>2 DEF OnePull
    <3>3. CASE q # p
      BY <1>1, <2>1, <3>1, <3>3 DEF OnePull
    <3>. QED
      BY <3>2, <3>3
  <2>3. ASSUME NEW x \in publishing,
               Publish(x) \/ AnswerIsLost(x) \/ PublicationFails(x)
        PROVE  OnePull(p)'
    <3>1. /\ PullsOf(p)' = PullsOf(p)
             \/ /\ PullsOf(p)' = PullsOf(p) \cup {<<x.proposal, x.hash>>}
                /\ x.proposal = p /\ notices' = notices
          /\ PublishingOf(p)' = PublishingOf(p) \ {x}
          /\ notices' \in {notices, notices \ {x.proposal}}
      <4>1. CASE PublicationFails(x)
        BY <4>1 DEF PublicationFails, PullsOf, PublishingOf, githubVars
      <4>2. CASE Publish(x)
        BY <4>2 DEF Publish, CreatePull, PullsOf, PublishingOf
      <4>3. CASE AnswerIsLost(x)
        <5>1. x.proposal # p
          BY <4>3 DEF AnswerIsLost
        <5>. QED
          BY <4>3, <5>1 DEF AnswerIsLost, CreatePull, PullsOf, PublishingOf
      <4>. QED
        BY <2>3, <4>1, <4>2, <4>3
    <3>2. CASE x.proposal # p
      BY <1>1, <2>1, <3>1, <3>2 DEF OnePull
    <3>3. CASE x.proposal = p
      <4>1. x \in PublishingOf(p)
        BY <3>3 DEF PublishingOf
      <4>2. PullsOf(p) = {} /\ PublishingOf(p)' = {} /\ p \in notices
        BY <1>1, <2>1, <3>1, <4>1 DEF OnePull
      <4>. QED
        BY <3>1, <4>2 DEF OnePull
    <3>. QED
      BY <3>2, <3>3
  <2>. QED
    BY <1>3, <2>2, <2>3 DEF PullNext
<1>. QED
  BY <1>2, <1>3

-------------------------------------------------------------------------------
(* The journey of a candidate from its review to production                *)

Journey(row, rows, promo, commits) ==
    /\ Canaried(row, rows)
    /\ Promoted(row, rows, promo, commits)

LEMMA SameJourney ==
    ASSUME NEW row, NEW next, NEW rows, NEW promo, NEW commits,
           Journey(row, rows, promo, commits),
           \A field \in {"status", "version", "deployed", "bundle", "okf"} :
              next[field] = row[field]
    PROVE  Journey(next, rows, promo, commits)
<1>1. /\ next.status = row.status /\ next.version = row.version
      /\ next.deployed = row.deployed /\ next.bundle = row.bundle /\ next.okf = row.okf
  OBVIOUS
<1>. QED
  BY <1>1 DEF Journey, Canaried, Promoted

\* without a canary, a proposal is under review, or closed
LEMMA QuietJourney ==
    ASSUME NEW row, NEW next, NEW rows, NEW later, NEW promo, NEW commits,
           Journey(row, rows, promo, commits), row.status \notin Merged,
           next.status \in UnderReview \cup {"absent", "closed"},
           \A i \in DOMAIN later : later[i].status \notin Occupied
    PROVE  Journey(next, later, promo, commits)
<1>1. promo.at = "idle" /\ commits = {}
  BY DEF Journey, Promoted, Merged
<1>2. Canaried(next, later)
  BY DEF Canaried, Carried, Occupied, UnderReview
<1>. QED
  BY <1>1, <1>2 DEF Journey, Promoted

LEMMA NoCanary ==
    ASSUME NEW row, NEW rows, Canaried(row, rows), Carried(row.status) = {}
    PROVE  \A i \in DOMAIN rows : rows[i].status \notin Occupied
BY DEF Canaried

LEMMA ApprovedJourney ==
    ASSUME NEW row, NEW next, NEW rows \in Seq(Canary), NEW promo, NEW commits,
           Journey(row, rows, promo, commits),
           row.status = "awaiting_review", row.version \in Versions,
           row.bundle # None => row.okf = "approved",
           next.status = "approved_for_canary", next.version = row.version,
           next.bundle = row.bundle, next.okf = row.okf
    PROVE  Journey(next, Append(rows, Pending(row.version)), promo, commits)
<1> DEFINE c == Pending(row.version)
           later == Append(rows, c)
           last == Len(rows) + 1
<1>1. /\ c \in Canary /\ c.status = "pending" /\ c.version = row.version
  BY PendingType DEF Pending
<1>2. \A i \in DOMAIN rows : rows[i].status \notin Occupied
  BY NoCanary DEF Journey, Carried
<1>3. /\ DOMAIN later = DOMAIN rows \cup {last} /\ later[last] = c
      /\ \A j \in DOMAIN rows : later[j] = rows[j]
  BY <1>1, RowAdded
<1>4. promo.at = "idle" /\ commits = {}
  BY DEF Journey, Promoted, Merged
<1>. HIDE DEF later, last, c
<1>5. \A i \in DOMAIN later : later[i].status \in Occupied => i = last
  BY <1>2, <1>3
<1>6. Canaried(next, later)
  BY <1>1, <1>3, <1>5 DEF Canaried, Carried, Occupied
<1>. QED
  BY <1>4, <1>6 DEF Journey, Promoted, later, c

LEMMA ExpiredJourney ==
    ASSUME NEW row, NEW next, NEW rows, NEW promo, NEW commits,
           Journey(row, rows, promo, commits), row.status = "approved_for_canary",
           next.status = "closed", next.version = row.version
    PROVE  Journey(next, rows, promo, commits)
BY DEF Journey, Canaried, Promoted, Carried, Merged

LEMMA DeployedJourney ==
    ASSUME NEW row, NEW next, NEW rows, NEW promo, NEW commits,
           Journey(row, rows, promo, commits), row.status = "approved_for_canary",
           next.status = row.status, next.version = row.version,
           next.bundle = row.bundle, next.okf = row.okf
    PROVE  Journey(next, rows, promo, commits)
BY DEF Journey, Canaried, Promoted, Carried, Merged

\* the canary of the proposal takes its next status
LEMMA MovedRow ==
    ASSUME NEW row, NEW rows \in Seq(Canary), NEW i \in DOMAIN rows, NEW c \in Canary,
           Canaried(row, rows), rows[i].status \in Occupied
    PROVE  LET later == [rows EXCEPT ![i] = c]
           IN  /\ DOMAIN later = DOMAIN rows /\ later[i] = c
               /\ \A j \in DOMAIN rows \ {i} :
                     later[j] = rows[j] /\ later[j].status \notin Occupied
BY RowChanged DEF Canaried

LEMMA ActiveJourney ==
    ASSUME NEW row, NEW next, NEW rows \in Seq(Canary), NEW promo, NEW commits,
           NEW i \in DOMAIN rows, NEW c \in Canary,
           Journey(row, rows, promo, commits), row.status = "approved_for_canary",
           rows[i].status = "pending", next.status = "canary_active",
           \A field \in {"version", "deployed", "bundle", "okf"} : next[field] = row[field],
           row.deployed,
           c.status = "active", c.version = rows[i].version,
           \A j \in DOMAIN rows : rows[j].start < c.start
    PROVE  Journey(next, [rows EXCEPT ![i] = c], promo, commits)
<1> DEFINE later == [rows EXCEPT ![i] = c]
<1>1. /\ next.version = row.version /\ next.deployed
      /\ next.bundle = row.bundle /\ next.okf = row.okf
  OBVIOUS
<1>2. promo.at = "idle" /\ commits = {}
  BY DEF Journey, Promoted, Merged
<1>3. rows[i].version = row.version /\ (row.bundle # None => row.okf = "approved")
  BY DEF Journey, Canaried, Carried, Occupied
<1>4. /\ DOMAIN later = DOMAIN rows /\ later[i] = c
      /\ \A j \in DOMAIN rows \ {i} : later[j] = rows[j] /\ later[j].status \notin Occupied
  BY MovedRow DEF Journey, Occupied
<1>. HIDE DEF later
<1>5. Canaried(next, later)
  BY <1>1, <1>3, <1>4 DEF Canaried, Carried, Occupied
<1>. QED
  BY <1>2, <1>5 DEF Journey, Promoted, later

LEMMA PassedJourney ==
    ASSUME NEW row, NEW next, NEW rows \in Seq(Canary), NEW promo, NEW commits,
           NEW i \in DOMAIN rows, NEW c \in Canary,
           Journey(row, rows, promo, commits),
           rows[i].status = "active", next.status = "awaiting_promotion",
           \A field \in {"version", "deployed", "bundle", "okf"} : next[field] = row[field],
           c.status = "passed", c.version = rows[i].version, c.start = rows[i].start,
           row.status \in Statuses
    PROVE  Journey(next, [rows EXCEPT ![i] = c], promo, commits)
<1> DEFINE later == [rows EXCEPT ![i] = c]
<1>1. /\ next.version = row.version /\ next.deployed = row.deployed
      /\ next.bundle = row.bundle /\ next.okf = row.okf
  OBVIOUS
<1>2. row.status = "canary_active"
  BY DEF Journey, Canaried, Carried, Occupied
<1>3. promo.at = "idle" /\ commits = {}
  BY <1>2 DEF Journey, Promoted, Merged
<1>4. /\ rows[i].version = row.version /\ (row.bundle # None => row.okf = "approved")
      /\ \A j \in DOMAIN rows \ {i} : rows[j].start < rows[i].start
  BY <1>2 DEF Journey, Canaried, Carried, Occupied
<1>5. /\ DOMAIN later = DOMAIN rows /\ later[i] = c
      /\ \A j \in DOMAIN rows \ {i} : later[j] = rows[j] /\ later[j].status \notin Occupied
  BY MovedRow DEF Journey, Occupied
<1>. HIDE DEF later
<1>6. Canaried(next, later)
  BY <1>1, <1>4, <1>5 DEF Canaried, Carried, Occupied
<1>. QED
  BY <1>3, <1>6 DEF Journey, Promoted, later

LEMMA RolledBackJourney ==
    ASSUME NEW row, NEW next, NEW rows \in Seq(Canary), NEW promo, NEW commits,
           NEW i \in DOMAIN rows, NEW c \in Canary,
           Journey(row, rows, promo, commits),
           rows[i].status = "active", next.status = "closed", c.status = "rolled_back"
    PROVE  Journey(next, [rows EXCEPT ![i] = c], promo, commits)
<1> DEFINE later == [rows EXCEPT ![i] = c]
<1>1. row.status = "canary_active"
  BY DEF Journey, Canaried, Carried, Occupied
<1>2. \A j \in DOMAIN later : later[j].status \notin Occupied
  BY MovedRow DEF Journey, Occupied
<1>. HIDE DEF later
<1>3. Journey(next, later, promo, commits)
  BY <1>1, <1>2, QuietJourney DEF Merged
<1>. QED
  BY <1>3 DEF later

LEMMA PromotedJourney ==
    ASSUME NEW row, NEW next, NEW rows, NEW promo, NEW later, NEW commits,
           Journey(row, rows, promo, commits), row.status = "awaiting_promotion",
           \E i \in DOMAIN rows : rows[i].status = "passed",
           next.status = "approved_for_publication",
           \A field \in {"version", "bundle", "okf"} : next[field] = row[field],
           later.version = row.version
    PROVE  Journey(next, rows, later, commits)
<1>1. next.version = row.version /\ next.bundle = row.bundle /\ next.okf = row.okf
  OBVIOUS
<1>2. Passed(rows, row.version)
  BY DEF Journey, Canaried, Carried, Occupied, Passed
<1>3. Canaried(next, rows)
  BY <1>1 DEF Journey, Canaried, Carried
<1>4. commits = {}
  BY DEF Journey, Promoted, Merged
<1>. QED
  BY <1>2, <1>3, <1>4 DEF Journey, Promoted

LEMMA MergedJourney ==
    ASSUME NEW row, NEW rows, NEW promo, NEW later, NEW commits,
           Journey(row, rows, promo, commits), promo.at = "approved",
           later.version = promo.version
    PROVE  Journey(row, rows, later, commits \cup {promo.version})
BY DEF Journey, Promoted, Merged

LEMMA IdleJourney ==
    ASSUME NEW row, NEW rows, NEW promo, NEW commits, Journey(row, rows, promo, commits)
    PROVE  Journey(row, rows, Idle, commits)
BY DEF Journey, Promoted, Idle

LEMMA RecordedJourney ==
    ASSUME NEW row, NEW next, NEW rows, NEW promo, NEW commits,
           Journey(row, rows, promo, commits), promo.at = "merged",
           next.status = "production_pending",
           \A field \in {"version", "bundle", "okf"} : next[field] = row[field]
    PROVE  Journey(next, rows, Idle, commits)
<1>1. next.version = row.version /\ next.bundle = row.bundle /\ next.okf = row.okf
  OBVIOUS
<1>2. row.status = "approved_for_publication"
  BY DEF Journey, Promoted
<1>3. Canaried(next, rows)
  BY <1>1, <1>2 DEF Journey, Canaried, Carried
<1>. QED
  BY <1>2, <1>3 DEF Journey, Promoted, Merged, Idle

LEMMA PublishedJourney ==
    ASSUME NEW row, NEW next, NEW rows \in Seq(Canary), NEW promo, NEW commits,
           NEW i \in DOMAIN rows, NEW c \in Canary,
           Journey(row, rows, promo, commits), row.status = "production_pending",
           next.status = "published",
           \A field \in {"version", "bundle", "okf"} : next[field] = row[field],
           \A field \in {"status", "version", "start"} : c[field] = rows[i][field]
    PROVE  Journey(next, [rows EXCEPT ![i] = c], promo, commits)
<1> DEFINE later == [rows EXCEPT ![i] = c]
<1>1. /\ next.version = row.version /\ next.bundle = row.bundle /\ next.okf = row.okf
      /\ c.status = rows[i].status /\ c.version = rows[i].version /\ c.start = rows[i].start
  OBVIOUS
<1>2. promo.at = "idle"
  BY DEF Journey, Promoted
<1>3. /\ DOMAIN later = DOMAIN rows /\ later[i] = c
      /\ \A j \in DOMAIN rows \ {i} : later[j] = rows[j]
  BY RowChanged
<1>. HIDE DEF later
<1>4. \A j \in DOMAIN rows : /\ later[j].status = rows[j].status
                             /\ later[j].version = rows[j].version
                             /\ later[j].start = rows[j].start
  BY <1>1, <1>3
<1>5. Canaried(next, later)
  BY <1>1, <1>3, <1>4 DEF Journey, Canaried, Carried
<1>6. \A v : Passed(rows, v) => Passed(later, v)
  BY <1>3, <1>4 DEF Passed
<1>. QED
  BY <1>2, <1>5, <1>6 DEF Journey, Promoted, Merged, later

JourneyOf(p) == Journey(proposals[p], canaries[p], promoting[p], CommitsOf(p))

LEMMA JourneyAnew == JourneyInv <=> \A p \in Proposals \ disturbed : JourneyOf(p)
BY DEF JourneyInv, JourneyOf, Journey

LEMMA JourneyElsewhere ==
    ASSUME NEW p \in Proposals, JourneyOf(p),
           proposals'[p] = proposals[p], canaries'[p] = canaries[p],
           promoting'[p] = promoting[p], CommitsOf(p)' = CommitsOf(p)
    PROVE  JourneyOf(p)'
BY DEF JourneyOf

LEMMA JourneyBuilds ==
    ASSUME GovernanceInv, BuildNext, NEW p \in Proposals \ disturbed', JourneyOf(p)
    PROVE  JourneyOf(p)'
<1>1. UNCHANGED <<canaries, promoting, main>>
  BY BuildsLeaveCanaries
<1>2. CommitsOf(p)' = CommitsOf(p)
  BY <1>1 DEF CommitsOf
<1>3. PICK q \in Proposals : ChangesCandidate(q)
  BY BuildersStep DEF GovernanceInv
<1>4. CASE proposals'[p] = proposals[p]
  BY <1>1, <1>2, <1>4, JourneyElsewhere
<1>5. CASE /\ proposals[p].status \in UnderReview \cup {"absent"}
           /\ proposals'[p].status \in UnderReview \cup {"absent"}
  <2>1. Carried(proposals[p].status) = {} /\ proposals[p].status \notin Merged
    BY <1>5 DEF Carried, UnderReview, Merged
  <2>2. \A i \in DOMAIN canaries[p] : canaries[p][i].status \notin Occupied
    BY <2>1, NoCanary DEF JourneyOf, Journey
  <2>3. Journey(proposals'[p], canaries[p], promoting[p], CommitsOf(p))
    BY <1>5, <2>1, <2>2, QuietJourney DEF JourneyOf
  <2>. QED
    BY <1>1, <1>2, <2>3 DEF JourneyOf
<1>. QED
  BY <1>3, <1>4, <1>5 DEF ChangesCandidate

LEMMA JourneyPulls ==
    ASSUME GovernanceInv, PullNext, NEW p \in Proposals, JourneyOf(p)
    PROVE  JourneyOf(p)'
<1>1. UNCHANGED <<canaries, promoting, main>>
  BY PullsLeaveCanaries
<1>2. CommitsOf(p)' = CommitsOf(p)
  BY <1>1 DEF CommitsOf
<1>3. CASE proposals'[p] = proposals[p]
  BY <1>1, <1>2, <1>3, JourneyElsewhere
<1>4. ASSUME NEW x, proposals'[p] = [proposals[p] EXCEPT !.pull = x] PROVE JourneyOf(p)'
  <2>1. \A field \in {"status", "version", "deployed", "bundle", "okf"} :
           proposals'[p][field] = proposals[p][field]
    <3>1. proposals[p] \in Proposal
      BY DEF GovernanceInv, TypeOK
    <3>. QED
      BY <1>4, <3>1 DEF Proposal
  <2>2. Journey(proposals'[p], canaries[p], promoting[p], CommitsOf(p))
    BY <2>1, SameJourney DEF JourneyOf
  <2>. QED
    BY <1>1, <1>2, <2>2 DEF JourneyOf
<1>5. \/ proposals'[p] = proposals[p]
      \/ \E x : proposals'[p] = [proposals[p] EXCEPT !.pull = x]
  <2>1. ASSUME NEW x \in publishing, Publish(x)
        PROVE  proposals'[p] \in {proposals[p], [proposals[p] EXCEPT !.pull = x.hash]}
    <3>1. proposals' = [proposals EXCEPT ![x.proposal] =
                            [proposals[x.proposal] EXCEPT !.pull = x.hash]]
      BY <2>1 DEF Publish
    <3>. QED
      BY <3>1 DEF GovernanceInv, TypeOK
  <2>. QED
    BY <2>1 DEF PullNext, Reserve, AnswerIsLost, PublicationFails
<1>. QED
  BY <1>3, <1>4, <1>5

\* the status is written, and the latest canary is retired
LEMMA RefusedJourney ==
    ASSUME GovernanceInv, NEW p \in Proposals, JourneyOf(p), Refuse(p),
           proposals[p].status \in {"awaiting_review", "awaiting_promotion"}
    PROVE  JourneyOf(p)'
<1>1. UNCHANGED <<promoting, main>>
  BY DEF Refuse, requestVars, githubVars
<1>2. CommitsOf(p)' = CommitsOf(p)
  BY <1>1 DEF CommitsOf
<1>3. proposals'[p].status \in {"closed", "changes_requested"}
  BY DEF Refuse, GovernanceInv, TypeOK, Proposal
<1>4. ASSUME NEW j \in DOMAIN canaries'[p], canaries'[p][j].status \in Occupied PROVE FALSE
  <2>1. TypeOK /\ canaries[p] \in Seq(Canary)
    BY DEF GovernanceInv, TypeOK
  <2>2. \A k \in DOMAIN canaries[p] :
           canaries[p][k].status \in Occupied => canaries[p][k].status = "passed"
    BY DEF JourneyOf, Journey, Canaried, Carried
  <2>3. ~UNCHANGED canaries \/ canaries[p] # <<>>
    BY <1>4
  <2>4. PICK i \in Latest(p) : \E c \in Canary :
           RowTo(p, i, c) /\ c.status \notin Occupied
    BY <2>1, <2>3, RefuseRows
  <2>5. PICK c \in Canary : RowTo(p, i, c) /\ c.status \notin Occupied
    BY <2>4
  <2>6. i \in DOMAIN canaries[p] /\ canaries'[p] = [canaries[p] EXCEPT ![i] = c]
    BY <2>1, <2>5 DEF Latest, RowTo, TypeOK
  <2>7. j \in DOMAIN canaries[p] /\ j # i /\ canaries[p][j].status \in Occupied
    BY <1>4, <2>1, <2>5, <2>6, RowChanged
  <2>8. \A k \in DOMAIN canaries[p] \ {j} : canaries[p][k].start < canaries[p][j].start
    BY <2>2, <2>7 DEF JourneyOf, Journey, Canaried
  <2>. QED
    BY <2>1, <2>4, <2>7, <2>8, LatestIsUnique
<1>5. Journey(proposals'[p], canaries'[p], promoting[p], CommitsOf(p))
  BY <1>3, <1>4, QuietJourney DEF JourneyOf, Merged, UnderReview
<1>. QED
  BY <1>1, <1>2, <1>5 DEF JourneyOf

LEMMA JourneyReviews ==
    ASSUME GovernanceInv, ReviewNext, NEW p \in Proposals, JourneyOf(p)
    PROVE  JourneyOf(p)'
<1>1. /\ TypeOK /\ UNCHANGED <<promoting, main>>
      /\ proposals[p] \in Proposal /\ canaries[p] \in Seq(Canary)
      /\ \A i \in DOMAIN canaries[p] : canaries[p][i] \in Canary
  BY ReviewTypes, RowsType DEF GovernanceInv, TypeOK, requestVars, githubVars
<1>2. CommitsOf(p)' = CommitsOf(p)
  BY <1>1 DEF CommitsOf
<1> SUFFICES \/ proposals'[p] = proposals[p] /\ canaries'[p] = canaries[p]
             \/ Journey(proposals'[p], canaries'[p], promoting[p], CommitsOf(p))
             \/ JourneyOf(p)'
  BY <1>1, <1>2 DEF JourneyOf
<1>3. ASSUME NEW S \in SUBSET Proposals, ApproveCanaries(S)
      PROVE  \/ proposals'[p] = proposals[p] /\ canaries'[p] = canaries[p]
             \/ Journey(proposals'[p], canaries'[p], promoting[p], CommitsOf(p))
  <2>1. CASE p \notin S
    BY <1>3, <2>1 DEF ApproveCanaries
  <2>2. CASE p \in S
    <3>1. /\ proposals'[p] = [proposals[p] EXCEPT !.status = "approved_for_canary",
                  !.deployed = proposals[p].deployed \/ proposals[p].kind = "okf"]
          /\ canaries'[p] = Append(canaries[p], Pending(proposals[p].version))
      BY <1>1, <1>3, <2>2 DEF ApproveCanaries, Proposal
    <3>2. /\ proposals'[p].status = "approved_for_canary"
          /\ proposals'[p].version = proposals[p].version
          /\ proposals'[p].bundle = proposals[p].bundle
          /\ proposals'[p].okf = proposals[p].okf
          /\ proposals[p].version \in Versions
      BY <1>1, <3>1 DEF Proposal
    <3>3. /\ proposals[p].status = "awaiting_review"
          /\ proposals[p].bundle # None => proposals[p].okf = "approved"
      BY <1>3, <2>2 DEF ApproveCanaries, Approvable
    <3>4. Journey(proposals'[p], Append(canaries[p], Pending(proposals[p].version)),
                  promoting[p], CommitsOf(p))
      BY <1>1, <3>2, <3>3, ApprovedJourney DEF JourneyOf
    <3>. QED
      BY <3>1, <3>4
  <2>. QED
    BY <2>1, <2>2
<1>4. ASSUME NEW q \in Proposals, q # p,
             \/ DecideOkf(q) \/ RefuseCanary(q) \/ Expire(q) \/ AttestDeployment(q)
             \/ \E i \in DOMAIN canaries[q] : Activate(q, i) \/ Passes(q, i) \/ RollsBack(q, i)
      PROVE  proposals'[p] = proposals[p] /\ canaries'[p] = canaries[p]
  <2>1. Refuse(q) => proposals'[p] = proposals[p] /\ canaries'[p] = canaries[p]
    BY <1>1, <1>4 DEF Refuse, Retire, TypeOK
  <2>2. DecideOkf(q) \/ Expire(q) \/ AttestDeployment(q)
           => proposals'[p] = proposals[p] /\ canaries'[p] = canaries[p]
    BY <1>1, <1>4 DEF DecideOkf, Expire, AttestDeployment, UnchangedButBuilds, TypeOK
  <2>3. ASSUME NEW i \in DOMAIN canaries[q], Activate(q, i) \/ Passes(q, i) \/ RollsBack(q, i)
        PROVE  proposals'[p] = proposals[p] /\ canaries'[p] = canaries[p]
    <3>1. CASE Activate(q, i)
      BY <1>1, <1>4, <3>1 DEF Activate, TypeOK
    <3>2. CASE Passes(q, i)
      BY <1>1, <1>4, <3>2 DEF Passes, TypeOK
    <3>3. CASE RollsBack(q, i)
      BY <1>1, <1>4, <3>3 DEF RollsBack, TypeOK
    <3>. QED
      BY <2>3, <3>1, <3>2, <3>3
  <2>. QED
    BY <1>4, <2>1, <2>2, <2>3 DEF RefuseCanary
<1>5. CASE DecideOkf(p)
  <2>1. /\ canaries' = canaries /\ proposals[p].status = "awaiting_review"
        /\ proposals'[p].status \in UnderReview
    BY <1>1, <1>5 DEF DecideOkf, UnderReview, TypeOK, Proposal
  <2>2. \A i \in DOMAIN canaries[p] : canaries[p][i].status \notin Occupied
    BY <2>1, NoCanary DEF JourneyOf, Journey, Carried
  <2>. QED
    BY <2>1, <2>2, QuietJourney DEF JourneyOf, Merged
<1>6. CASE RefuseCanary(p)
  BY <1>6, RefusedJourney DEF RefuseCanary
<1>7. CASE Expire(p)
  <2>1. /\ canaries' = canaries /\ proposals'[p].status = "closed"
        /\ proposals'[p].version = proposals[p].version
    BY <1>1, <1>7 DEF Expire, TypeOK, Proposal
  <2>2. CASE proposals[p].status = "approved_for_canary"
    BY <2>1, <2>2, ExpiredJourney DEF JourneyOf
  <2>3. CASE proposals[p].status \in UnderReview
    <3>1. \A i \in DOMAIN canaries[p] : canaries[p][i].status \notin Occupied
      BY <2>3, NoCanary DEF JourneyOf, Journey, Carried, UnderReview
    <3>. QED
      BY <2>1, <2>3, <3>1, QuietJourney DEF JourneyOf, Merged, UnderReview
  <2>. QED
    BY <1>7, <2>2, <2>3 DEF Expire, UnderReview
<1>8. CASE AttestDeployment(p)
  <2>1. /\ canaries' = canaries /\ proposals[p].status = "approved_for_canary"
        /\ proposals'[p].status = proposals[p].status
        /\ proposals'[p].version = proposals[p].version
        /\ proposals'[p].bundle = proposals[p].bundle /\ proposals'[p].okf = proposals[p].okf
    BY <1>1, <1>8 DEF AttestDeployment, UnchangedButBuilds, TypeOK, Proposal
  <2>. QED
    BY <2>1, DeployedJourney DEF JourneyOf
<1>9. ASSUME NEW i \in DOMAIN canaries[p], Activate(p, i)
      PROVE  Journey(proposals'[p], canaries'[p], promoting[p], CommitsOf(p))
  <2>1. PICK c \in Canary : RowTo(p, i, c) /\ Activated(p, i, c)
    BY <1>1, <1>9, ActivateRows
  <2>2. canaries[p][i] \in Canary /\ Cardinality(Started(canaries[p])) \in Nat
    BY <1>1, RowsType
  <2>3. /\ canaries'[p] = [canaries[p] EXCEPT ![i] = c]
        /\ c.status = "active" /\ c.version = canaries[p][i].version
        /\ c.start = 1 + Cardinality(Started(canaries[p]))
    BY <1>1, <2>1, <2>2 DEF RowTo, Activated, TypeOK, Canary
  <2>4. \A j \in DOMAIN canaries[p] : canaries[p][j].start < c.start
    <3>1. \A j \in DOMAIN canaries[p] :
             /\ canaries[p][j].start <= Cardinality(Started(canaries[p]))
             /\ canaries[p][j].start \in Nat
      BY <1>1 DEF GovernanceInv, StartInv, Canary
    <3>. QED
      BY <2>2, <2>3, <3>1
  <2>5. /\ proposals[p].status = "approved_for_canary" /\ proposals[p].deployed
        /\ canaries[p][i].status = "pending"
        /\ proposals'[p] = [proposals[p] EXCEPT !.status = "canary_active",
                                                !.state = "deployed_canary"]
    BY <1>1, <1>9 DEF Activate, TypeOK
  <2>6. /\ proposals'[p].status = "canary_active"
        /\ \A field \in {"version", "deployed", "bundle", "okf"} :
              proposals'[p][field] = proposals[p][field]
    BY <1>1, <2>5 DEF Proposal
  <2>7. Journey(proposals[p], canaries[p], promoting[p], CommitsOf(p))
    BY DEF JourneyOf
  <2>8. Journey(proposals'[p], [canaries[p] EXCEPT ![i] = c], promoting[p], CommitsOf(p))
    BY <1>1, <2>3, <2>4, <2>5, <2>6, <2>7, ActiveJourney
  <2>. QED
    BY <2>3, <2>8
<1>10. ASSUME NEW i \in DOMAIN canaries[p], Passes(p, i)
       PROVE  Journey(proposals'[p], canaries'[p], promoting[p], CommitsOf(p))
  <2>1. PICK c \in Canary : RowTo(p, i, c) /\ Judged(p, i, c)
    BY <1>1, <1>10, JudgeRows
  <2>2. canaries[p][i] \in Canary /\ proposals[p].status \in Statuses
    BY <1>1 DEF Proposal
  <2>3. /\ canaries'[p] = [canaries[p] EXCEPT ![i] = c]
        /\ canaries[p][i].status = "active" /\ c.status = "passed"
        /\ c.version = canaries[p][i].version /\ c.start = canaries[p][i].start
    BY <1>1, <2>1, <2>2 DEF RowTo, Judged, TypeOK, Canary
  <2>4. proposals'[p] = [proposals[p] EXCEPT !.status = "awaiting_promotion"]
    BY <1>1, <1>10 DEF Passes, TypeOK
  <2>5. /\ proposals'[p].status = "awaiting_promotion"
        /\ \A field \in {"version", "deployed", "bundle", "okf"} :
              proposals'[p][field] = proposals[p][field]
    BY <1>1, <2>4 DEF Proposal
  <2>6. Journey(proposals[p], canaries[p], promoting[p], CommitsOf(p))
    BY DEF JourneyOf
  <2>7. Journey(proposals'[p], [canaries[p] EXCEPT ![i] = c], promoting[p], CommitsOf(p))
    BY <1>1, <2>2, <2>3, <2>5, <2>6, PassedJourney
  <2>. QED
    BY <2>3, <2>7
<1>11. ASSUME NEW i \in DOMAIN canaries[p], RollsBack(p, i)
       PROVE  Journey(proposals'[p], canaries'[p], promoting[p], CommitsOf(p))
  <2>1. PICK c \in Canary : RowTo(p, i, c) /\ c.status = "rolled_back"
    BY <1>1, <1>11, JudgeRows
  <2>2. canaries'[p] = [canaries[p] EXCEPT ![i] = c] /\ canaries[p][i].status = "active"
    BY <1>1, <1>11, <2>1 DEF RowTo, RollsBack, TypeOK
  <2>3. proposals'[p].status = "closed"
    BY <1>1, <1>11 DEF RollsBack, TypeOK, Proposal
  <2>. QED
    BY <1>1, <2>1, <2>2, <2>3, RolledBackJourney DEF JourneyOf
<1>. QED
  BY <1>3, <1>4, <1>5, <1>6, <1>7, <1>8, <1>9, <1>10, <1>11 DEF ReviewNext

LEMMA JourneyPromotions ==
    ASSUME GovernanceInv, PromotionNext, NEW p \in Proposals, JourneyOf(p)
    PROVE  JourneyOf(p)'
<1>1. /\ TypeOK /\ proposals[p] \in Proposal /\ canaries[p] \in Seq(Canary)
      /\ \A i \in DOMAIN canaries[p] : canaries[p][i] \in Canary
      /\ promoting \in [Proposals -> Promotion]
  BY RowsType DEF GovernanceInv, TypeOK, Promotion
<1>2. ASSUME NEW q \in Proposals, q # p,
             \/ ApprovePromotion(q) \/ RefusePromotion(q) \/ Merge(q)
             \/ PromotionFails(q) \/ RecordMerge(q) \/ AttestProduction(q)
      PROVE  JourneyOf(p)'
  <2>1. CommitsOf(p)' = CommitsOf(p)
    BY <1>2 DEF ApprovePromotion, RefusePromotion, Refuse, Merge, PromotionFails,
       RecordMerge, AttestProduction, githubVars, CommitsOf
  <2>2. proposals'[p] = proposals[p] /\ promoting'[p] = promoting[p]
    BY <1>1, <1>2 DEF ApprovePromotion, RefusePromotion, Refuse, Merge, PromotionFails,
       RecordMerge, AttestProduction, requestVars, TypeOK
  <2>3. canaries'[p] = canaries[p]
    BY <1>1, <1>2 DEF ApprovePromotion, RefusePromotion, Refuse, Retire, Merge,
       PromotionFails, RecordMerge, AttestProduction, TypeOK
  <2>. QED
    BY <2>1, <2>2, <2>3, JourneyElsewhere
<1>3. CASE ApprovePromotion(p)
  <2>1. /\ canaries' = canaries /\ CommitsOf(p)' = CommitsOf(p)
        /\ proposals[p].status = "awaiting_promotion"
        /\ \E i \in DOMAIN canaries[p] : canaries[p][i].status = "passed"
    BY <1>3 DEF ApprovePromotion, Promotable, CanaryRows, githubVars, CommitsOf
  <2>2. /\ proposals'[p] = [proposals[p] EXCEPT !.status = "approved_for_publication"]
        /\ promoting'[p].version = proposals[p].version
    BY <1>1, <1>3 DEF ApprovePromotion, TypeOK
  <2>3. /\ proposals'[p].status = "approved_for_publication"
        /\ \A field \in {"version", "bundle", "okf"} :
              proposals'[p][field] = proposals[p][field]
    BY <1>1, <2>2 DEF Proposal
  <2>4. Journey(proposals[p], canaries[p], promoting[p], CommitsOf(p))
    BY DEF JourneyOf
  <2>5. Journey(proposals'[p], canaries[p], promoting'[p], CommitsOf(p))
    BY <2>1, <2>2, <2>3, <2>4, PromotedJourney
  <2>. QED
    BY <2>1, <2>5 DEF JourneyOf
<1>4. CASE RefusePromotion(p)
  BY <1>4, RefusedJourney DEF RefusePromotion
<1>5. CASE Merge(p)
  <2>1. UNCHANGED <<proposals, canaries>> /\ promoting[p].at = "approved"
    BY <1>5 DEF Merge
  <2>2. promoting'[p] = [promoting[p] EXCEPT !.at = "merged"]
    BY <1>1, <1>5 DEF Merge
  <2>3. promoting'[p].version = promoting[p].version
    BY <1>1, <2>2 DEF Promotion
  <2>4. CommitsOf(p)' = CommitsOf(p) \cup {promoting[p].version}
    <3>1. HeadOf(promoting[p].pull) = promoting[p].version
      BY <1>5 DEF Merge, Mergeable
    <3> DEFINE m == [commit |-> promoting[p].version, proposal |-> p,
                     hash |-> promoting[p].hash]
    <3>2. main' = main \cup {m} /\ m.proposal = p /\ m.commit = promoting[p].version
      BY <1>5, <3>1 DEF Merge
    <3>. HIDE DEF m
    <3>3. {n \in main' : n.proposal = p} = {n \in main : n.proposal = p} \cup {m}
      BY <3>2
    <3>. QED
      BY <3>2, <3>3 DEF CommitsOf
  <2>5. Journey(proposals[p], canaries[p], promoting'[p],
                CommitsOf(p) \cup {promoting[p].version})
    BY <2>1, <2>3, MergedJourney DEF JourneyOf
  <2>. QED
    BY <2>1, <2>4, <2>5 DEF JourneyOf
<1>6. CASE PromotionFails(p)
  <2>1. /\ UNCHANGED <<proposals, canaries>> /\ CommitsOf(p)' = CommitsOf(p)
        /\ promoting'[p] = Idle
    BY <1>1, <1>6 DEF PromotionFails, githubVars, CommitsOf
  <2>2. Journey(proposals[p], canaries[p], Idle, CommitsOf(p))
    BY IdleJourney DEF JourneyOf
  <2>. QED
    BY <2>1, <2>2 DEF JourneyOf
<1>7. CASE RecordMerge(p)
  <2>1. /\ UNCHANGED canaries /\ CommitsOf(p)' = CommitsOf(p)
        /\ promoting[p].at = "merged" /\ promoting'[p] = Idle
    BY <1>1, <1>7 DEF RecordMerge, githubVars, CommitsOf
  <2>2. proposals'[p] = [proposals[p] EXCEPT !.status = "production_pending",
                                             !.merge = promoting[p].version]
    BY <1>1, <1>7 DEF RecordMerge, TypeOK
  <2>3. /\ proposals'[p].status = "production_pending"
        /\ \A field \in {"version", "bundle", "okf"} :
              proposals'[p][field] = proposals[p][field]
    BY <1>1, <2>2 DEF Proposal
  <2>4. Journey(proposals[p], canaries[p], promoting[p], CommitsOf(p))
    BY DEF JourneyOf
  <2>5. Journey(proposals'[p], canaries[p], Idle, CommitsOf(p))
    BY <2>1, <2>3, <2>4, RecordedJourney
  <2>. QED
    BY <2>1, <2>5 DEF JourneyOf
<1>8. CASE AttestProduction(p)
  <2>1. PICK i \in Latest(p) : \E c \in Canary :
           RowTo(p, i, c) /\ Ended(p, i, c) /\ canaries[p][i].status = "passed"
           /\ c.status = "passed"
    BY <1>1, <1>8, ProductionRows
  <2>2. PICK c \in Canary :
           RowTo(p, i, c) /\ Ended(p, i, c) /\ canaries[p][i].status = "passed"
           /\ c.status = "passed"
    BY <2>1
  <2>3. /\ i \in DOMAIN canaries[p] /\ canaries[p][i] \in Canary
        /\ canaries'[p] = [canaries[p] EXCEPT ![i] = c]
    BY <1>1, <2>2 DEF Latest, RowTo, TypeOK
  <2>4. \A field \in {"status", "version", "start"} : c[field] = canaries[p][i][field]
    <3>1. c.version = canaries[p][i].version /\ c.start = canaries[p][i].start
      BY <2>2, <2>3 DEF Ended, Canary
    <3>. QED
      BY <2>2, <3>1
  <2>5. /\ UNCHANGED promoting /\ CommitsOf(p)' = CommitsOf(p)
        /\ proposals[p].status = "production_pending"
        /\ proposals'[p] = [proposals[p] EXCEPT !.status = "published"]
    BY <1>1, <1>8 DEF AttestProduction, requestVars, githubVars, CommitsOf, TypeOK
  <2>6. /\ proposals'[p].status = "published"
        /\ \A field \in {"version", "bundle", "okf"} :
              proposals'[p][field] = proposals[p][field]
    BY <1>1, <2>5 DEF Proposal
  <2>7. Journey(proposals[p], canaries[p], promoting[p], CommitsOf(p))
    BY DEF JourneyOf
  <2>8. Journey(proposals'[p], [canaries[p] EXCEPT ![i] = c], promoting[p], CommitsOf(p))
    BY <1>1, <2>3, <2>4, <2>5, <2>6, <2>7, PublishedJourney
  <2>. QED
    BY <2>3, <2>5, <2>8 DEF JourneyOf
<1>. QED
  BY <1>2, <1>3, <1>4, <1>5, <1>6, <1>7, <1>8 DEF PromotionNext

LEMMA DisturbedGrows ==
    ASSUME GovernanceInv, Next
    PROVE  disturbed \subseteq disturbed'
<1>1. CASE BuildNext
  BY <1>1, BuildersStep DEF ChangesCandidate, GovernanceInv
<1>. QED
  BY <1>1, PullsLeaveCanaries, ReviewTypes, RunNextTypes, PromotionTypes
  DEF Next, ghostVars, GovernanceInv

LEMMA JourneyStep ==
    ASSUME GovernanceInv, Next
    PROVE  JourneyInv'
<1>1. \A p \in Proposals \ disturbed' : JourneyOf(p)
  BY DisturbedGrows, JourneyAnew DEF GovernanceInv
<1>2. ASSUME NEW p \in Proposals \ disturbed' PROVE JourneyOf(p)'
  <2>1. JourneyOf(p)
    BY <1>1
  <2>2. CASE RunNext
    <3>1. UNCHANGED <<proposals, canaries, promoting, main>>
      BY <2>2, RunNextTypes DEF requestVars, githubVars, GovernanceInv
    <3>. QED
      BY <2>1, <3>1 DEF JourneyOf, CommitsOf
  <2>. QED
    BY <2>1, <2>2, JourneyBuilds, JourneyPulls, JourneyReviews, JourneyPromotions DEF Next
<1>. QED
  BY <1>2 DEF JourneyInv, JourneyOf, Journey

-------------------------------------------------------------------------------
(* The code canaries                                                       *)

LEMMA KindStays ==
    ASSUME GovernanceInv, Next, NEW p \in Proposals \ disturbed', Occupies(p)
    PROVE  proposals'[p].kind = proposals[p].kind
<1>1. CASE BuildNext
  <2>1. PICK q \in Proposals : ChangesCandidate(q)
    BY <1>1, BuildersStep DEF GovernanceInv
  <2>2. proposals[p].status \notin UnderReview \cup {"absent"}
    <3>1. Canaried(proposals[p], canaries[p])
      BY DisturbedGrows DEF GovernanceInv, JourneyInv
    <3>. QED
      BY <3>1 DEF Occupies, CanaryRows, Canaried, Carried, UnderReview
  <2>. QED
    BY <2>1, <2>2 DEF ChangesCandidate
<1>2. CASE ~BuildNext
  <2>1. CandidatesStay
    BY <1>2, PullsStay, ReviewsStay, PromotionsStay, RunNextTypes, SameCandidates
    DEF Next, GovernanceInv
  <2>2. Shown(p) => proposals'[p].kind = proposals[p].kind
    BY DEF Shown, GovernanceInv, TypeOK, Proposal
  <2>3. Decided(p) => proposals'[p].kind = proposals[p].kind
    BY DEF Decided
  <2>. QED
    BY <2>1, <2>2, <2>3 DEF CandidatesStay
<1>. QED
  BY <1>1, <1>2

\* only an approval adds a canary
LEMMA OccupantsStay ==
    ASSUME GovernanceInv, Next, ~\E S \in SUBSET Proposals : ApproveCanaries(S),
           NEW p \in Proposals, Occupies(p)'
    PROVE  Occupies(p)
<1>1. TypeOK /\ RowsMove /\ canaries[p] \in Seq(Canary)
  BY CanariesStep DEF GovernanceInv, TypeOK
<1>2. PICK j \in DOMAIN canaries'[p] : canaries'[p][j].status \in Occupied
  BY DEF Occupies, CanaryRows
<1>3. CASE canaries'[p] = canaries[p]
  BY <1>2, <1>3 DEF Occupies, CanaryRows
<1>4. ASSUME NEW i \in DOMAIN canaries[p], NEW c \in Canary, RowTo(p, i, c),
             Activated(p, i, c) \/ Judged(p, i, c) \/ Ended(p, i, c)
      PROVE  Occupies(p)
  <2>1. canaries'[p] = [canaries[p] EXCEPT ![i] = c] /\ canaries[p][i] \in Canary
    BY <1>1, <1>4, RowsType DEF RowTo, TypeOK
  <2>2. c.status \in Occupied => canaries[p][i].status \in Occupied
    BY <1>4, <2>1 DEF Activated, Judged, Ended, Canary, Occupied
  <2>3. j \in DOMAIN canaries[p] /\ canaries[p][j].status \in Occupied
    BY <1>1, <1>2, <2>1, <2>2, RowChanged
  <2>. QED
    BY <2>3 DEF Occupies, CanaryRows
<1>5. ASSUME NEW q \in Proposals, NEW i \in DOMAIN canaries[q], NEW c \in Canary,
             RowTo(q, i, c), q # p
      PROVE  canaries'[p] = canaries[p]
  BY <1>1, <1>5 DEF RowTo, TypeOK
<1>. QED
  BY <1>1, <1>3, <1>4, <1>5 DEF RowsMove

LEMMA PairIsTwo ==
    ASSUME NEW S, IsFiniteSet(S), NEW p \in S, NEW q \in S, p # q
    PROVE  Cardinality(S) > 1
<1>1. IsFiniteSet({p}) /\ Cardinality({p}) = 1 /\ q \notin {p}
  BY FS_Singleton
<1>2. IsFiniteSet({p} \cup {q}) /\ Cardinality({p} \cup {q}) = Cardinality({p}) + 1
  BY <1>1, FS_AddElement
<1>3. Cardinality({p} \cup {q}) <= Cardinality(S) /\ Cardinality(S) \in Nat
  BY FS_Subset, FS_CardinalityType
<1>. QED
  BY <1>1, <1>2, <1>3

LEMMA OneCodeStep ==
    ASSUME GovernanceInv, Next
    PROVE  OneCodeCanary'
<1> SUFFICES ASSUME NEW p \in Proposals \ disturbed', NEW q \in Proposals \ disturbed',
                    p # q, proposals'[p].kind = "code", proposals'[q].kind = "code",
                    Occupies(p)', Occupies(q)'
             PROVE  overlapped'
  BY DEF OneCodeCanary
<1>1. p \notin disturbed /\ q \notin disturbed
  BY DisturbedGrows
<1>2. ASSUME ~\E S \in SUBSET Proposals : ApproveCanaries(S) PROVE overlapped'
  <2>1. Occupies(p) /\ Occupies(q)
    BY <1>2, OccupantsStay
  <2>2. proposals[p].kind = "code" /\ proposals[q].kind = "code"
    BY <2>1, KindStays
  <2>3. overlapped
    BY <1>1, <2>1, <2>2 DEF GovernanceInv, OneCodeCanary
  <2>4. UNCHANGED overlapped
    <3>1. CASE ReviewNext
      <4>1. ASSUME NEW r \in Proposals,
                   DecideOkf(r) \/ RefuseCanary(r) \/ Expire(r) \/ AttestDeployment(r)
            PROVE  UNCHANGED overlapped
        BY <4>1 DEF DecideOkf, RefuseCanary, Refuse, Expire, AttestDeployment,
           UnchangedButBuilds, ghostVars
      <4>2. ASSUME NEW r \in Proposals, NEW i \in DOMAIN canaries[r],
                   Activate(r, i) \/ Passes(r, i) \/ RollsBack(r, i)
            PROVE  UNCHANGED overlapped
        BY <4>2 DEF Activate, Passes, RollsBack, ghostVars
      <4>. QED
        BY <1>2, <3>1, <4>1, <4>2 DEF ReviewNext
    <3>. QED
      BY <3>1, BuildsLeaveCanaries, PullsLeaveCanaries, RunNextTypes, PromotionTypes
      DEF Next, ghostVars, GovernanceInv
  <2>. QED
    BY <2>3, <2>4
<1>3. ASSUME NEW S \in SUBSET Proposals, ApproveCanaries(S) PROVE overlapped'
  <2>1. /\ overlapped' = (overlapped \/ Cardinality(S) > 1)
        /\ \A r \in S : Approvable(r)
    BY <1>3 DEF ApproveCanaries
  <2>2. \A r \in Proposals : /\ r \notin S => /\ proposals'[r] = proposals[r]
                                              /\ canaries'[r] = canaries[r]
                             /\ proposals'[r].kind = proposals[r].kind
    <3> SUFFICES ASSUME NEW r \in Proposals
                 PROVE  /\ r \notin S => /\ proposals'[r] = proposals[r]
                                        /\ canaries'[r] = canaries[r]
                        /\ proposals'[r].kind = proposals[r].kind
      OBVIOUS
    <3>1. /\ canaries'[r] = IF r \notin S THEN canaries[r]
                            ELSE Append(canaries[r], Pending(proposals[r].version))
          /\ proposals'[r] = IF r \notin S THEN proposals[r]
                ELSE [proposals[r] EXCEPT !.status = "approved_for_canary",
                        !.deployed = @ \/ proposals[r].kind = "okf"]
      BY <1>3 DEF ApproveCanaries
    <3>2. proposals[r] \in Proposal
      BY DEF GovernanceInv, TypeOK
    <3>. QED
      BY <3>1, <3>2 DEF Proposal
  <2>3. ASSUME NEW r \in S, NEW s \in Proposals \ S, r # s,
               proposals'[r].kind = "code", proposals'[s].kind = "code", Occupies(s)'
        PROVE  FALSE
    <3>1. Occupies(s)
      BY <2>2, <2>3 DEF Occupies, CanaryRows
    <3>. QED
      BY <2>1, <2>2, <2>3, <3>1 DEF Approvable, Competing
  <2>4. CASE p \notin S /\ q \notin S
    <3>1. Occupies(p) /\ Occupies(q)
      BY <2>2, <2>4 DEF Occupies, CanaryRows
    <3>. QED
      BY <1>1, <2>1, <2>2, <3>1 DEF GovernanceInv, OneCodeCanary
  <2>5. CASE p \in S /\ q \in S
    <3>1. IsFiniteSet(S)
      BY ProposalsAssumption, FS_Subset
    <3>. QED
      BY <2>1, <2>5, <3>1, PairIsTwo
  <2>. QED
    BY <2>3, <2>4, <2>5
<1>. QED
  BY <1>2, <1>3

-------------------------------------------------------------------------------
(* The theorems                                                            *)

LEMMA InitGoverned ==
    ASSUME Init
    PROVE  GovernanceInv
<1>1. /\ \A p \in Proposals : /\ proposals[p] = NoProposal /\ canaries[p] = <<>>
                              /\ promoting[p] = Idle
      /\ \A b \in Builds : builds[b].status = "absent"
      /\ \A r \in Runs : runs[r] = NoRun
      /\ publishing = {} /\ pulls = {} /\ main = {} /\ notices = {}
  BY DEF Init
<1>2. /\ NoProposal.version = NoVersion /\ NoProposal.hash = NoVersion
      /\ NoProposal.pull = NoVersion /\ NoProposal.merge = NoVersion
      /\ NoProposal.state = "diagnosis_only" /\ NoProposal.status = "absent"
  BY DEF NoProposal
<1>3. /\ DOMAIN <<>> = {} /\ <<>> \in Seq(Canary)
      /\ NoVersion \notin Builds /\ \A b \in Builds : Draft(b) # NoVersion
  BY VersionTypes
<1>4. TypeOK
  <2>1. proposals \in [Proposals -> Proposal] /\ runs \in [Runs -> Run]
    BY NoProposalType, RunTypes DEF Init
  <2>2. promoting \in [Proposals -> Promotion]
    BY VersionTypes DEF Init, Idle, Promotion
  <2>3. builds \in [Builds -> Build]
    BY DEF Init, Build
  <2>4. canaries \in [Proposals -> Seq(Canary)]
    BY <1>3 DEF Init
  <2>. QED
    BY <2>1, <2>2, <2>3, <2>4 DEF Init, TypeOK, Promotion
<1>5. BuildsInv
  <2>1. Given = 1 .. 0
    BY <1>1 DEF Given
  <2>. QED
    BY <2>1, BuildIds DEF BuildsInv
<1>6. TrustInv /\ VersionInv
  BY <1>1, <1>2, <1>3 DEF TrustInv, VersionInv, Idle
<1>7. HashInv
  <2>1. \A p \in Proposals : HashesOf(p) = {NoVersion}
    BY <1>1, <1>2 DEF HashesOf, Idle
  <2>. QED
    BY <1>3, <2>1 DEF HashInv
<1>8. CanariesWereValidated /\ StartInv /\ OneCodeCanary
  BY <1>1, <1>3 DEF CanariesWereValidated, StartInv, OneCodeCanary, Occupies, CanaryRows
<1>9. JourneyInv
  <2>1. ASSUME NEW p \in Proposals PROVE Journey(proposals[p], canaries[p], promoting[p], CommitsOf(p))
    <3>1. CommitsOf(p) = {} /\ promoting[p].at = "idle"
      BY <1>1 DEF CommitsOf, Idle
    <3>2. Canaried(proposals[p], canaries[p])
      BY <1>1, <1>2, <1>3 DEF Canaried, Carried
    <3>. QED
      BY <3>1, <3>2 DEF Journey, Promoted
  <2>. QED
    BY <2>1 DEF JourneyInv, Journey
<1>10. CommitInv /\ MergeInv /\ NeverStartedRunsReturn
  BY <1>1, <1>2 DEF CommitInv, MergeInv, NeverStartedRunsReturn, Idle, NoRun
<1>11. PullInv
  BY <1>1 DEF PullInv, PullsOf, PublishingOf
<1>. QED
  BY <1>4, <1>5, <1>6, <1>7, <1>8, <1>9, <1>10, <1>11 DEF GovernanceInv

LEMMA SameGoverned ==
    ASSUME GovernanceInv, UNCHANGED vars
    PROVE  GovernanceInv'
<1>. USE DEF vars, requestVars, githubVars, ghostVars
<1>1. TypeOK' /\ BuildsInv' /\ TrustInv' /\ VersionInv'
  BY DEF GovernanceInv, TypeOK, BuildsInv, Given, TrustInv, Validated, VersionInv, HasDraft
<1>2. HashInv' /\ StartInv' /\ MergeInv' /\ CommitInv'
  BY DEF GovernanceInv, HashInv, HasDraft, HashesOf, StartInv, MergeInv, CommitsOf, CommitInv
<1>3. CanariesWereValidated' /\ OneCodeCanary' /\ NeverStartedRunsReturn'
  BY DEF GovernanceInv, CanariesWereValidated, OneCodeCanary, Occupies, CanaryRows,
     NeverStartedRunsReturn, HasExecutor
<1>4. JourneyInv' /\ PullInv'
  BY DEF GovernanceInv, JourneyInv, CommitsOf, PullInv, PullsOf, PublishingOf
<1>. QED
  BY <1>1, <1>2, <1>3, <1>4 DEF GovernanceInv

(* Builds, reviews, publications, judgements and promotions keep the       *)
(* invariant from which the properties below follow.                       *)
THEOREM GovernanceHolds == Spec => []GovernanceInv
<1>1. GovernanceInv /\ [Next]_vars => GovernanceInv'
  <2>1. GovernanceInv /\ Next => GovernanceInv'
    BY TypesStep, BuildsStep, TrustStep, VersionStep, HashStep, ValidatedRowsStep,
       StartStep, JourneyStep, OneCodeStep, CommitStep, MergeStep, ReturnStep, PullStep
    DEF GovernanceInv, BuildsAge
  <2>. QED
    BY <2>1, SameGoverned
<1>. QED
  BY InitGoverned, <1>1, PTL DEF Spec

(* Every row of the tables, and every pull request and merge at GitHub,    *)
(* has its type, whatever the number of proposals, builds and canaries.    *)
THEOREM GovernanceTypes == Spec => []TypeOK
<1>1. GovernanceInv => TypeOK
  BY DEF GovernanceInv
<1>. QED
  BY <1>1, GovernanceHolds, PTL

(* The canaries that the routing offers to users are commits that trusted  *)
(* CI validated for that proposal, however registrations, attestations and *)
(* second drafts follow one another.                                       *)
THEOREM CanariesAreValidated == Spec => []CanariesWereValidated
<1>1. GovernanceInv => CanariesWereValidated
  BY DEF GovernanceInv
<1>. QED
  BY <1>1, GovernanceHolds, PTL

(* activate_canary routes users to no commit but the one whose deployment  *)
(* was attested.                                                           *)
THEOREM ActiveCanariesAreDeployed == Spec => []ActiveIsDeployed
<1>1. ASSUME GovernanceInv PROVE ActiveIsDeployed
  <2> SUFFICES ASSUME NEW p \in Proposals \ disturbed, NEW i \in DOMAIN canaries[p],
                      canaries[p][i].status = "active"
               PROVE  /\ proposals[p].version = canaries[p][i].version
                      /\ proposals[p].deployed
    BY DEF ActiveIsDeployed, CanaryRows
  <2>1. Canaried(proposals[p], canaries[p]) /\ proposals[p].status \in Statuses
    BY <1>1 DEF GovernanceInv, JourneyInv, TypeOK, Proposal
  <2>2. /\ "active" \in Carried(proposals[p].status)
        /\ canaries[p][i].version = proposals[p].version
    BY <2>1 DEF Canaried, Occupied
  <2>3. proposals[p].status = "canary_active"
    BY <2>2 DEF Carried
  <2>. QED
    BY <2>1, <2>2, <2>3 DEF Canaried
<1>. QED
  BY <1>1, GovernanceHolds, PTL

(* Two code candidates never hold the isolated runtime, unless their       *)
(* approvals overlapped.                                                   *)
THEOREM CodeCanariesAreAlone == Spec => []OneCodeCanary
<1>1. GovernanceInv => OneCodeCanary
  BY DEF GovernanceInv
<1>. QED
  BY <1>1, GovernanceHolds, PTL

(* promote_candidate_pr merges nothing that CI did not validate under the  *)
(* hash that was approved, nor, undisturbed, what did not pass its canary. *)
THEOREM MergesAreGoverned == Spec => []MainIsGoverned
<1>1. ASSUME GovernanceInv PROVE MainIsGoverned
  <2> SUFFICES ASSUME NEW m \in main, m.proposal \notin disturbed
               PROVE  \E c \in CanaryRows(m.proposal) :
                         c.status = "passed" /\ c.version = m.commit
    BY <1>1 DEF GovernanceInv, CommitInv, MainIsGoverned
  <2>1. m.proposal \in Proposals /\ m.commit \in CommitsOf(m.proposal)
    BY <1>1 DEF GovernanceInv, TypeOK, CommitsOf
  <2>2. Passed(canaries[m.proposal], m.commit)
    BY <1>1, <2>1 DEF GovernanceInv, JourneyInv, Promoted
  <2>. QED
    BY <2>2 DEF Passed, CanaryRows
<1>. QED
  BY <1>1, GovernanceHolds, PTL

(* When a canary ends, the runs that are still queued for it are pinned to *)
(* control again in the same transaction: none waits for an executor that  *)
(* is gone.                                                                *)
THEOREM QueuedRunsHaveExecutors == Spec => []NeverStartedRunsReturn
<1>1. GovernanceInv => NeverStartedRunsReturn
  BY DEF GovernanceInv
<1>. QED
  BY <1>1, GovernanceHolds, PTL

(* The notice that a publication reserves keeps a proposal to one pull     *)
(* request.                                                                *)
THEOREM PullRequestsAreUnique == Spec => []OnePullRequest
<1>1. ASSUME GovernanceInv PROVE OnePullRequest
  <2> SUFFICES ASSUME NEW p \in Proposals \ lost PROVE Cardinality(PullsOf(p)) <= 1
    BY DEF OnePullRequest, PullsOf
  <2>1. \A x, y \in PullsOf(p) : x = y
    BY <1>1 DEF GovernanceInv, PullInv
  <2>2. CASE PullsOf(p) = {}
    BY <2>2, FS_EmptySet
  <2>3. ASSUME NEW x \in PullsOf(p) PROVE Cardinality(PullsOf(p)) <= 1
    <3>1. PullsOf(p) = {x}
      BY <2>1
    <3>2. Cardinality({x}) = 1
      BY FS_Singleton
    <3>. QED
      BY <3>1, <3>2
  <2>. QED
    BY <2>2, <2>3
<1>. QED
  BY <1>1, GovernanceHolds, PTL

\* only the attestation of production makes a bundle trusted
LEMMA TrustIsAttested ==
    ASSUME GovernanceInv, Next, NEW k \in Bundles, bundles[k] # "trusted",
           bundles'[k] = "trusted"
    PROVE  \E p \in Proposals : AttestProduction(p) /\ proposals[p].bundle = k
<1>1. ASSUME NEW p \in Proposals, Refuse(p) PROVE FALSE
  <2>1. \E state \in {"rejected", "rolled_back"} : Retire(p, state)
    BY <1>1 DEF Refuse
  <2>. QED
    BY <2>1 DEF Retire
<1>2. ~BuildNext
  BY BuildersStep DEF ChangesCandidate, GovernanceInv
<1>3. ~PullNext /\ ~RunNext
  BY PullsLeaveCanaries, RunNextTypes DEF GovernanceInv
<1>4. ~ReviewNext
  <2>1. \A S \in SUBSET Proposals : ~ApproveCanaries(S)
    BY DEF ApproveCanaries
  <2>2. ASSUME NEW p \in Proposals,
               DecideOkf(p) \/ RefuseCanary(p) \/ Expire(p) \/ AttestDeployment(p)
        PROVE  FALSE
    BY <1>1, <2>2 DEF DecideOkf, RefuseCanary, Expire, AttestDeployment, GovernanceInv, TypeOK
  <2>3. ASSUME NEW p \in Proposals, NEW i \in DOMAIN canaries[p],
               Activate(p, i) \/ Passes(p, i) \/ RollsBack(p, i)
        PROVE  FALSE
    BY <2>3 DEF Activate, Passes, RollsBack
  <2>. QED
    BY <2>1, <2>2, <2>3 DEF ReviewNext
<1>5. PICK p \in Proposals : AttestProduction(p)
  BY <1>1, <1>2, <1>3, <1>4
  DEF Next, PromotionNext, ApprovePromotion, RefusePromotion, Merge, PromotionFails, RecordMerge
<1>6. proposals[p].bundle = k
  BY <1>5 DEF AttestProduction
<1>. QED
  BY <1>5, <1>6

(* Knowledge is trusted only when the merge that the manifest names is in  *)
(* main, and its bundle was read and approved.                             *)
THEOREM KnowledgeIsGoverned == Spec => KnowledgeIsReleased
<1>1. ASSUME GovernanceInv, Next, NEW k \in Bundles, bundles[k] # "trusted",
             bundles'[k] = "trusted"
      PROVE  \E p \in Proposals :
                /\ proposals[p].bundle = k
                /\ \E m \in main : m.proposal = p /\ m.commit = proposals[p].merge
                /\ p \in disturbed \/ proposals[p].okf = "approved"
  <2>1. PICK p \in Proposals : AttestProduction(p) /\ proposals[p].bundle = k
    BY <1>1, TrustIsAttested
  <2>2. proposals[p].merge \in CommitsOf(p)
    BY <1>1, <2>1 DEF AttestProduction, GovernanceInv, MergeInv
  <2>3. p \notin disturbed => proposals[p].okf = "approved"
    <3>1. k # None /\ proposals[p].status = "production_pending"
      BY <2>1, NoneAssumption DEF AttestProduction
    <3>2. p \notin disturbed => Canaried(proposals[p], canaries[p])
      BY <1>1 DEF GovernanceInv, JourneyInv
    <3>. QED
      BY <2>1, <3>1, <3>2 DEF Canaried, Carried
  <2>. QED
    BY <2>1, <2>2, <2>3 DEF CommitsOf
<1>2. GovernanceInv /\ [Next]_vars =>
         [\A k \in Bundles :
             bundles[k] # "trusted" /\ bundles'[k] = "trusted" =>
                 \E p \in Proposals :
                     /\ proposals[p].bundle = k
                     /\ \E m \in main : m.proposal = p /\ m.commit = proposals[p].merge
                     /\ p \in disturbed \/ proposals[p].okf = "approved"]_vars
  BY <1>1
<1>. QED
  BY <1>2, GovernanceHolds, PTL DEF Spec, KnowledgeIsReleased

(* No decision, judgement or late promotion takes up a proposal that was   *)
(* refused, has expired or is published.                                   *)
THEOREM ClosedProposalsStay == Spec => ClosedStaysClosed
<1>1. ASSUME GovernanceInv, Next, NEW p \in Proposals \ disturbed',
             proposals[p].status \in {"closed", "published"}
      PROVE  proposals'[p].status = proposals[p].status
  <2>1. /\ Canaried(proposals[p], canaries[p])
        /\ Promoted(proposals[p], canaries[p], promoting[p], CommitsOf(p))
        /\ proposals[p] \in Proposal
    BY <1>1, DisturbedGrows DEF GovernanceInv, JourneyInv, TypeOK
  <2>2. CASE BuildNext
    <3>1. PICK q \in Proposals : ChangesCandidate(q)
      BY <1>1, <2>2, BuildersStep DEF GovernanceInv
    <3>. QED
      BY <1>1, <3>1 DEF ChangesCandidate, UnderReview
  <2>3. CASE PullNext
    <3>1. ASSUME NEW x \in publishing, Publish(x)
          PROVE  proposals'[p].status = proposals[p].status
      <4>1. proposals' = [proposals EXCEPT ![x.proposal] =
                              [proposals[x.proposal] EXCEPT !.pull = x.hash]]
        BY <3>1 DEF Publish
      <4>2. proposals'[p] \in {proposals[p], [proposals[p] EXCEPT !.pull = x.hash]}
        BY <1>1, <4>1 DEF GovernanceInv, TypeOK
      <4>. QED
        BY <2>1, <4>2 DEF Proposal
    <3>. QED
      BY <2>3, <3>1 DEF PullNext, Reserve, AnswerIsLost, PublicationFails
  <2>4. CASE RunNext
    BY <1>1, <2>4, RunNextTypes DEF GovernanceInv
  <2>5. CASE ReviewNext
    <3>1. ASSUME NEW S \in SUBSET Proposals, ApproveCanaries(S)
          PROVE  proposals'[p].status = proposals[p].status
      BY <1>1, <3>1 DEF ApproveCanaries, Approvable
    <3>2. ASSUME NEW q \in Proposals, proposals'[p] # proposals[p],
                 DecideOkf(q) \/ RefuseCanary(q) \/ Expire(q) \/ AttestDeployment(q)
          PROVE  FALSE
      BY <1>1, <3>2 DEF DecideOkf, RefuseCanary, Refuse, Expire, AttestDeployment,
         GovernanceInv, TypeOK
    <3>3. ASSUME NEW q \in Proposals, NEW i \in DOMAIN canaries[q],
                 Activate(q, i) \/ Passes(q, i) \/ RollsBack(q, i),
                 proposals'[p] # proposals[p]
          PROVE  FALSE
      <4>1. q = p
        BY <1>1, <3>3 DEF Activate, Passes, RollsBack, GovernanceInv, TypeOK
      <4>2. canaries[p][i].status = "active"
        BY <1>1, <3>3, <4>1 DEF Activate, Passes, RollsBack
      <4>. QED
        BY <1>1, <2>1, <4>1, <4>2 DEF Canaried, Carried, Occupied
    <3>. QED
      BY <2>5, <3>1, <3>2, <3>3 DEF ReviewNext
  <2>6. CASE PromotionNext
    <3>1. ASSUME NEW q \in Proposals, proposals'[p] # proposals[p],
                 ApprovePromotion(q) \/ RefusePromotion(q) \/ AttestProduction(q)
          PROVE  FALSE
      BY <1>1, <3>1 DEF ApprovePromotion, Promotable, RefusePromotion, Refuse,
         AttestProduction, GovernanceInv, TypeOK
    <3>2. ASSUME NEW q \in Proposals, proposals'[p] # proposals[p], RecordMerge(q)
          PROVE  FALSE
      <4>1. q = p
        BY <1>1, <3>2 DEF RecordMerge, GovernanceInv, TypeOK
      <4>. QED
        BY <1>1, <2>1, <3>2, <4>1 DEF RecordMerge, Promoted
    <3>. QED
      BY <2>6, <3>1, <3>2 DEF PromotionNext, Merge, PromotionFails
  <2>. QED
    BY <1>1, <2>2, <2>3, <2>4, <2>5, <2>6 DEF Next
<1>2. GovernanceInv /\ [Next]_vars =>
         [\A p \in Proposals \ disturbed' :
             proposals[p].status \in {"closed", "published"} =>
                 proposals'[p].status = proposals[p].status]_vars
  BY <1>1
<1>. QED
  BY <1>2, GovernanceHolds, PTL DEF Spec, ClosedStaysClosed

===============================================================================
