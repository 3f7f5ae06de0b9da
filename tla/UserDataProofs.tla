----------------------------- MODULE UserDataProofs -----------------------------
(***************************************************************************)
(* The safety of UserData for any number of processes, users, sources and  *)
(* results, any caps and any bounds on what may happen: the index and the  *)
(* caps of SourceIndex and the cleanups of ArtifactCleanup hold in their   *)
(* composition, where both write the credentials, a restart stops both and *)
(* the deletion of an account reaches into both.                           *)
(***************************************************************************)
EXTENDS UserData, FiniteSetTheorems, SequenceTheorems, TLAPS

-------------------------------------------------------------------------------
(* The inductive invariant.                                                *)

(* A loop works on a row that is there: sync rows are never deleted.       *)
SyncRowInv ==
    \A p \in Processes : IsBusy(syncing[p]) =>
        syncing[p].row \in DOMAIN syncs[syncing[p].user]

(* A source has one live chunk at a position, stale picture or not.        *)
PositionInv ==
    \A s \in Sources : \A c, d \in live[s] : c[1] = d[1] => c = d

(* The table of jobs has finitely many rows.                               *)
Rows == {k \in Keys : jobs[k].status # "absent"}

(* A decision owns its request: it is executing, no other process decides  *)
(* it, and Google has not been called for it before the call is made.      *)
Deciders == {p \in Processes : deciding[p] # Idle}

OwnsRequest(p) ==
    LET i == deciding[p].row
    IN  /\ i \in DOMAIN calls
        /\ artifact.exists => /\ requests[i].status = "executing"
                              /\ requests[i].action = deciding[p].action
        /\ \A q \in Deciders : deciding[q].row = i => q = p
        /\ deciding[p].phase \in {"refreshing", "authorized", "manual_required"} =>
              deciding[p].action \in Cleanup!Effects
        /\ deciding[p].phase \in {"confirmed", "refreshing", "authorized",
                                  "manual_required"} => calls[i] = 0
        /\ deciding[p].phase = "done" /\ deciding[p].action \in Cleanup!Effects =>
              calls[i] = 1 /\ deciding[p].action \in undone

DecisionInv == \A p \in Deciders : OwnsRequest(p)

(* Every request has its count of calls, until the account goes; an effect *)
(* is on record with the very request that called for it.                  *)
RequestInv ==
    /\ artifact.exists => Len(calls) = Len(requests)
    /\ ~ artifact.exists => requests = <<>>
    /\ artifact.exists => \A action \in undone : \E i \in DOMAIN requests :
          requests[i].action = action /\ calls[i] = 1

CleanupInv ==
    /\ Cleanup!CleanupTypeOK
    /\ DecisionInv
    /\ RequestInv
    /\ ActsOnce
    /\ IsOnRecord

-------------------------------------------------------------------------------
(* Lemmas about the operators of the model.                                *)

LEMMA KeyIsPair ==
    ASSUME NEW k \in Keys
    PROVE  k[1] \in Sources /\ k[2] \in Results
BY DEF Keys

LEMMA ChunksAreTexts ==
    ASSUME NEW r \in Results
    PROVE  Chunks[r] \subseteq Texts
BY DEF Texts

LEMMA SpendType ==
    ASSUME budget \in [Bounded -> Nat], NEW thing \in Bounded, Spend(thing)
    PROVE  budget' \in [Bounded -> Nat]
BY DEF Spend

\* what a claim, a completion and a failure make of a row
LEMMA RowsType ==
    ASSUME NEW row \in RowType
    PROVE  /\ Absent \in RowType /\ NewRow \in RowType /\ LegacyRow \in RowType
           /\ ClaimedRow(row) \in RowType
           /\ CompletedRow(row) \in RowType
           /\ \A attempt \in Nat : FailedRow(row, attempt) \in RowType
           /\ [row EXCEPT !.leased = FALSE] \in RowType
           /\ [Absent EXCEPT !.status = "failed"] \in RowType
<1> USE DEF RowType, Pending, Settled
<1>1. Absent \in RowType /\ NewRow \in RowType /\ LegacyRow \in RowType
  BY LimitsAssumption DEF Absent, NewRow, LegacyRow
<1>2. ClaimedRow(row) \in RowType /\ CompletedRow(row) \in RowType
  <2>1. row.attempts + 1 \in Nat
    OBVIOUS
  <2>2. ClaimedRow(row) \in RowType
    BY <2>1, Zenon DEF ClaimedRow
  <2>3. CompletedRow(row) \in RowType
    BY DEF CompletedRow
  <2>. QED
    BY <2>1, <2>2, <2>3
<1>3. ASSUME NEW attempt \in Nat PROVE FailedRow(row, attempt) \in RowType
  BY DEF FailedRow
<1>4. /\ [row EXCEPT !.leased = FALSE] \in RowType
      /\ [Absent EXCEPT !.status = "failed"] \in RowType
  BY DEF Absent
<1>. QED
  BY <1>1, <1>2, <1>3, <1>4

(* The difference that an indexing writes leaves the chunks of the result, *)
(* if what it saw is what there is; and one chunk at a position anyway.    *)
LEMMA RewrittenPositions ==
    ASSUME NEW r \in Results, NEW old, NEW seen, NEW removed,
           \A c, d \in old : c[1] = d[1] => c = d
    PROVE  \A c, d \in Rewritten(old, Changed(r, seen), removed) : c[1] = d[1] => c = d
BY ChunksAssumption DEF Rewritten, Changed

LEMMA RewrittenIsTheResult ==
    ASSUME NEW r \in Results, NEW old,
           \A c, d \in old : c[1] = d[1] => c = d
    PROVE  Rewritten(old, Changed(r, old), Removed(r, old)) = Chunks[r]
<1> DEFINE replaced == {c[1] : c \in Changed(r, old) \cup Removed(r, old)}
<1>1. ASSUME NEW c \in old, c[1] \notin replaced PROVE c \in Chunks[r]
  <2>1. PICK d \in Chunks[r] : d[1] = c[1]
    BY <1>1 DEF Removed
  <2>2. d \in old
    BY <1>1, <2>1 DEF Changed
  <2>. QED
    BY <2>1, <2>2
<1>2. ASSUME NEW d \in Chunks[r], d \in old PROVE d[1] \notin replaced
  BY <1>2, ChunksAssumption DEF Changed, Removed
<1>3. Rewritten(old, Changed(r, old), Removed(r, old)) =
          {c \in old : c[1] \notin replaced} \cup Changed(r, old)
  BY DEF Rewritten
<1>. HIDE DEF replaced
<1>. QED
  BY <1>1, <1>2, <1>3 DEF Changed

\* index_tool_result may return: nothing has changed
LEMMA UnchangedIsTheResult ==
    ASSUME NEW r \in Results, NEW old,
           \A c, d \in old : c[1] = d[1] => c = d,
           Changed(r, old) = {}, Removed(r, old) = {}
    PROVE  old = Chunks[r]
<1>1. Chunks[r] \subseteq old
  BY DEF Changed
<1>2. ASSUME NEW c \in old PROVE c \in Chunks[r]
  <2>1. PICK d \in Chunks[r] : d[1] = c[1]
    BY <1>2 DEF Removed
  <2>. QED
    BY <2>1, <1>1, <1>2
<1>. QED
  BY <1>1, <1>2

LEMMA RewrittenType ==
    ASSUME NEW r \in Results, NEW old \in SUBSET Texts, NEW seen, NEW removed
    PROVE  Rewritten(old, Changed(r, seen), removed) \in SUBSET Texts
BY ChunksAreTexts DEF Rewritten, Changed

-------------------------------------------------------------------------------
(* The types of the index.                                                 *)

TypeInv == TypeOK /\ SyncRowInv

\* a loop that is busy holds the record of its work
LEMMA BusyLoops ==
    ASSUME TypeInv, NEW p \in Processes
    PROVE  /\ IsBusy(embedding[p]) => embedding[p] \in EmbeddingWork
           /\ IsBusy(syncing[p]) =>
                 /\ syncing[p] \in SyncWork
                 /\ syncing[p].row \in DOMAIN syncs[syncing[p].user]
                 /\ SyncRow(p) \in RowType
<1>1. IsBusy(embedding[p]) => embedding[p] \in EmbeddingWork
  BY DEF TypeInv, TypeOK, IsBusy
<1>2. IsBusy(syncing[p]) => syncing[p] \in SyncWork
  BY DEF TypeInv, TypeOK, IsBusy
<1>3. ASSUME IsBusy(syncing[p]) PROVE syncing[p].row \in DOMAIN syncs[syncing[p].user]
  BY <1>3 DEF TypeInv, SyncRowInv
<1>4. ASSUME IsBusy(syncing[p]) PROVE SyncRow(p) \in RowType
  <2>1. syncs[syncing[p].user] \in Seq(RowType)
    BY <1>2, <1>4 DEF TypeInv, TypeOK, SyncWork
  <2>. QED
    BY <1>3, <1>4, <2>1 DEF SyncRow
<1>. QED
  BY <1>1, <1>2, <1>3, <1>4

\* the row of a job is replaced
LEMMA JobsType ==
    ASSUME jobs \in [Keys -> RowType], NEW k \in Keys, NEW row \in RowType
    PROVE  /\ [jobs EXCEPT ![k] = row] \in [Keys -> RowType]
           /\ \A p \in Processes :
                 embedding[p].key = k /\ SetRow(p, row) => jobs' \in [Keys -> RowType]
BY DEF SetRow

\* the row of a sync is replaced, or added
LEMMA SyncsType ==
    ASSUME syncs \in [Users -> Seq(RowType)], NEW u \in Users, NEW row \in RowType
    PROVE  /\ \A i \in DOMAIN syncs[u] :
                /\ [syncs EXCEPT ![u][i] = row] \in [Users -> Seq(RowType)]
                /\ \A v \in Users :
                      DOMAIN syncs[v] \subseteq DOMAIN [syncs EXCEPT ![u][i] = row][v]
           /\ [syncs EXCEPT ![u] = Append(@, row)] \in [Users -> Seq(RowType)]
           /\ \A v \in Users :
                 DOMAIN syncs[v] \subseteq DOMAIN [syncs EXCEPT ![u] = Append(@, row)][v]
<1>1. syncs[u] \in Seq(RowType)
  OBVIOUS
<1>2. ASSUME NEW i \in DOMAIN syncs[u]
      PROVE  /\ [syncs EXCEPT ![u][i] = row] \in [Users -> Seq(RowType)]
             /\ \A v \in Users :
                   DOMAIN syncs[v] \subseteq DOMAIN [syncs EXCEPT ![u][i] = row][v]
  <2>1. [syncs[u] EXCEPT ![i] = row] \in Seq(RowType)
    BY <1>1, <1>2, ExceptSeq
  <2>2. DOMAIN [syncs[u] EXCEPT ![i] = row] = DOMAIN syncs[u]
    OBVIOUS
  <2>3. [syncs EXCEPT ![u][i] = row] = [syncs EXCEPT ![u] = [syncs[u] EXCEPT ![i] = row]]
    OBVIOUS
  <2>. QED
    BY <2>1, <2>2, <2>3
<1>3. Append(syncs[u], row) \in Seq(RowType) /\ DOMAIN syncs[u] \subseteq DOMAIN Append(syncs[u], row)
  BY <1>1
<1>. QED
  BY <1>2, <1>3

LEMMA TypeInvEmbedding ==
    ASSUME TypeInv, NEW p \in Processes,
           EmbeddingStep(p) \/ \E k \in Keys : Claim(p, k)
    PROVE  TypeInv'
<1> USE DEF TypeInv, TypeOK, SyncRowInv, rowVars, ghostVars
<1>1. ASSUME NEW k \in Keys, Claim(p, k) PROVE TypeInv'
  <2>1. jobs' \in [Keys -> RowType]
    BY <1>1, RowsType, JobsType DEF Claim
  <2>2. embedding' \in [Processes -> {Idle} \cup EmbeddingWork]
    <3>1. jobs[k].attempts + 1 \in Nat \ {0}
      BY DEF RowType
    <3>. QED
      BY <1>1, <3>1 DEF Claim, EmbeddingWork
  <2>. QED
    BY <1>1, <2>1, <2>2 DEF Claim
<1>2. CASE ReadChunks(p)
  <2>1. /\ embedding[p] \in EmbeddingWork
        /\ live[embedding[p].key[1]] \subseteq Texts
    BY <1>2, BusyLoops, KeyIsPair DEF ReadChunks, InPhase, EmbeddingWork
  <2>2. [embedding[p] EXCEPT !.phase = "embedding", !.seen = live[embedding[p].key[1]]]
            \in EmbeddingWork
    BY <2>1 DEF EmbeddingWork
  <2>3. embedding' \in [Processes -> {Idle} \cup EmbeddingWork]
    BY <1>2, <2>2 DEF ReadChunks
  <2>. QED
    BY <1>2, <2>3 DEF ReadChunks
<1>3. CASE WriteChunks(p)
  <2> DEFINE s == embedding[p].key[1]
             r == embedding[p].key[2]
             lost == embedding[p].lost
  <2>1. embedding[p] \in EmbeddingWork /\ s \in Sources /\ r \in Results
    BY <1>3, BusyLoops, KeyIsPair DEF WriteChunks, InPhase, EmbeddingWork
  <2>2. live' \in [Sources -> SUBSET Texts]
    BY <1>3, <2>1, RewrittenType DEF WriteChunks
  <2>3. indexed' \in [Sources -> {{}} \cup {{q} : q \in Results}]
    BY <1>3, <2>1 DEF WriteChunks
  <2>4. disturbed' \subseteq Sources
    BY <1>3, <2>1 DEF WriteChunks
  <2>5. embedding' \in [Processes -> {Idle} \cup EmbeddingWork]
    <3>1. [embedding[p] EXCEPT !.phase = "indexed", !.seen = {}, !.lost = lost \ {"chunks"}]
              \in EmbeddingWork
      BY <2>1 DEF EmbeddingWork
    <3>. QED
      BY <1>3, <3>1 DEF WriteChunks
  <2>. QED
    BY <1>3, <2>2, <2>3, <2>4, <2>5 DEF WriteChunks
<1>4. CASE Complete(p)
  <2>1. embedding[p].key \in Keys
    BY <1>4, BusyLoops DEF Complete, InPhase, EmbeddingWork
  <2>2. jobs' \in [Keys -> RowType]
    BY <1>4, <2>1, RowsType, JobsType DEF Complete
  <2>. QED
    BY <1>4, <2>2 DEF Complete
<1>5. CASE Fail(p)
  <2>1. embedding[p].key \in Keys /\ embedding[p].attempt \in Nat
    BY <1>5, BusyLoops DEF Fail, EmbeddingWork
  <2>2. jobs' \in [Keys -> RowType] /\ readmitted' \subseteq Keys
    BY <1>5, <2>1, RowsType, JobsType DEF Fail
  <2>3. budget' \in [Bounded -> Nat]
    BY <1>5, SpendType DEF Fail, Bounded
  <2>. QED
    BY <1>5, <2>2, <2>3 DEF Fail
<1>6. CASE NothingToIndex(p) \/ NothingChanged(p)
  <2> DEFINE s == embedding[p].key[1]
             r == embedding[p].key[2]
  <2>1. embedding[p] \in EmbeddingWork /\ s \in Sources /\ r \in Results
    BY <1>6, BusyLoops, KeyIsPair DEF NothingToIndex, NothingChanged, InPhase, EmbeddingWork
  <2>2. embedding' \in [Processes -> {Idle} \cup EmbeddingWork]
    <3>1. [embedding[p] EXCEPT !.phase = "indexed"] \in EmbeddingWork
      BY <2>1 DEF EmbeddingWork
    <3>. QED
      BY <1>6, <3>1 DEF NothingToIndex, NothingChanged
  <2>3. /\ indexed' \in [Sources -> {{}} \cup {{q} : q \in Results}]
        /\ disturbed' \subseteq Sources
    <3>1. CASE NothingToIndex(p)
      BY <2>1, <3>1 DEF NothingToIndex
    <3>2. CASE NothingChanged(p)
      BY <2>1, <3>2 DEF NothingChanged
    <3>. QED
      BY <1>6, <3>1, <3>2
  <2>. QED
    BY <1>6, <2>2, <2>3 DEF NothingToIndex, NothingChanged
<1>. QED
  BY <1>1, <1>2, <1>3, <1>4, <1>5, <1>6 DEF EmbeddingStep

(* A loop of syncs moves: the rows of its user keep their places.          *)
LEMMA LoopMoves ==
    ASSUME TypeInv, NEW p \in Processes, NEW work \in {Idle, Ended} \cup SyncWork,
           IsBusy(work) => work.row \in DOMAIN syncs'[work.user],
           \A u \in Users : DOMAIN syncs[u] \subseteq DOMAIN syncs'[u],
           syncing' = [syncing EXCEPT ![p] = work]
    PROVE  /\ syncing' \in [Processes -> {Idle, Ended} \cup SyncWork]
           /\ SyncRowInv'
<1>1. syncing' \in [Processes -> {Idle, Ended} \cup SyncWork]
  BY DEF TypeInv, TypeOK
<1>2. ASSUME NEW q \in Processes, IsBusy(syncing'[q])
      PROVE  syncing'[q].row \in DOMAIN syncs'[syncing'[q].user]
  <2>1. CASE q = p
    BY <2>1, <1>2 DEF TypeInv, TypeOK
  <2>2. CASE q # p
    <3>1. syncing'[q] = syncing[q]
      BY <2>2 DEF TypeInv, TypeOK
    <3>2. syncing[q].user \in Users /\ syncing[q].row \in DOMAIN syncs[syncing[q].user]
      BY <3>1, <1>2, BusyLoops DEF SyncWork
    <3>. QED
      BY <3>1, <3>2
  <2>. QED
    BY <2>1, <2>2
<1>. QED
  BY <1>1, <1>2 DEF SyncRowInv, IsBusy

\* the rows of the table change, the loops do not
LEMMA RowsMove ==
    ASSUME TypeInv, \A u \in Users : DOMAIN syncs[u] \subseteq DOMAIN syncs'[u],
           UNCHANGED syncing
    PROVE  SyncRowInv'
<1>1. ASSUME NEW q \in Processes, IsBusy(syncing[q])
      PROVE  syncing[q].row \in DOMAIN syncs'[syncing[q].user]
  BY <1>1, BusyLoops DEF SyncWork
<1>. QED
  BY <1>1 DEF SyncRowInv, IsBusy

LEMMA TypeInvAdmit ==
    ASSUME TypeInv, NEW k \in Keys, Admit(k)
    PROVE  jobs' \in [Keys -> RowType] /\ readmitted' \subseteq Keys
<1>1. Absent \in RowType /\ NewRow \in RowType
  BY RowsType, LimitsAssumption DEF RowType, Pending, Settled, Absent, NewRow
<1>. QED
  BY <1>1, JobsType DEF Admit, TypeInv, TypeOK

LEMMA TypeInvSync ==
    ASSUME TypeInv, NEW p \in Processes,
           SyncStep(p) \/ \E u \in Users : ClaimSync(p, u)
    PROVE  TypeInv'
<1> USE DEF rowVars, ghostVars
<1>1. ASSUME NEW u \in Users, ClaimSync(p, u) PROVE TypeInv'
  <2>1. PICK i \in DOMAIN syncs[u] :
          /\ syncs' = [syncs EXCEPT ![u][i] = ClaimedRow(syncs[u][i])]
          /\ syncing' = [syncing EXCEPT ![p] =
                          [user |-> u, row |-> i, attempt |-> syncs[u][i].attempts + 1,
                           phase |-> "claimed", items |-> {}]]
    BY <1>1 DEF ClaimSync
  <2> DEFINE work == [user |-> u, row |-> i, attempt |-> syncs[u][i].attempts + 1,
                      phase |-> "claimed", items |-> {}]
  <2>2. syncs[u] \in Seq(RowType) /\ syncs[u][i] \in RowType /\ i \in Nat \ {0}
    BY DEF TypeInv, TypeOK
  <2>3. ClaimedRow(syncs[u][i]) \in RowType /\ syncs[u][i].attempts + 1 \in Nat \ {0}
    <3>1. syncs[u][i].attempts \in Nat
      BY <2>2 DEF RowType
    <3>2. ClaimedRow(syncs[u][i]) \in RowType
      BY <2>2, RowsType, Zenon
    <3>. QED
      BY <3>1, <3>2
  <2>4. /\ syncs' \in [Users -> Seq(RowType)]
        /\ \A v \in Users : DOMAIN syncs[v] \subseteq DOMAIN syncs'[v]
    BY <2>1, <2>3, SyncsType DEF TypeInv, TypeOK
  <2>5. work \in SyncWork /\ work.row \in DOMAIN syncs'[work.user]
    BY <2>2, <2>3, <2>4 DEF SyncWork
  <2>6. syncing' \in [Processes -> {Idle, Ended} \cup SyncWork] /\ SyncRowInv'
    <3>1. syncing' = [syncing EXCEPT ![p] = work]
      BY <2>1
    <3>. HIDE DEF work
    <3>. QED
      BY <3>1, <2>4, <2>5, LoopMoves
  <2>. QED
    BY <1>1, <2>4, <2>6 DEF ClaimSync, TypeInv, TypeOK
<1>2. ASSUME NEW work \in {Idle, Ended} \cup SyncWork,
             IsBusy(work) => work.user = syncing[p].user /\ work.row = syncing[p].row,
             IsBusy(syncing[p]), UNCHANGED syncs,
             syncing' = [syncing EXCEPT ![p] = work]
      PROVE  /\ syncing' \in [Processes -> {Idle, Ended} \cup SyncWork]
             /\ SyncRowInv'
  BY <1>2, BusyLoops, LoopMoves
<1>3. ASSUME IsBusy(syncing[p])
      PROVE  /\ syncing[p] \in SyncWork /\ syncing[p].user \in Users
             /\ \A phase \in {"claimed", "requeued", "refreshing", "collected"},
                   items \in SUBSET Keys :
                   /\ [syncing[p] EXCEPT !.phase = phase, !.items = items] \in SyncWork
                   /\ [syncing[p] EXCEPT !.phase = phase] \in SyncWork
                   /\ [syncing[p] EXCEPT !.items = items] \in SyncWork
  BY <1>3, BusyLoops DEF SyncWork
<1>4. ASSUME NEW phase \in {"claimed", "requeued", "refreshing", "collected"},
             IsBusy(syncing[p]), UNCHANGED syncs, GoTo(p, phase)
      PROVE  /\ syncing' \in [Processes -> {Idle, Ended} \cup SyncWork]
             /\ SyncRowInv'
  <2> DEFINE work == [syncing[p] EXCEPT !.phase = phase]
  <2>1. syncing' = [syncing EXCEPT ![p] = work]
    BY <1>4 DEF GoTo
  <2>2. work \in SyncWork /\ work.user = syncing[p].user /\ work.row = syncing[p].row
    BY <1>3, <1>4 DEF SyncWork
  <2>. HIDE DEF work
  <2>. QED
    BY <2>1, <2>2, <1>2, <1>4
<1>5. ASSUME IsBusy(syncing[p]), UNCHANGED syncs, Collect(p)
      PROVE  /\ syncing' \in [Processes -> {Idle, Ended} \cup SyncWork]
             /\ SyncRowInv'
  <2>1. PICK items \in SUBSET Keys :
          syncing' = [syncing EXCEPT ![p].phase = "collected", ![p].items = items]
    BY <1>5 DEF Collect
  <2> DEFINE work == [syncing[p] EXCEPT !.phase = "collected", !.items = items]
  <2>2. syncing' = [syncing EXCEPT ![p] = work]
    BY <2>1 DEF TypeInv, TypeOK
  <2>3. work \in SyncWork /\ work.user = syncing[p].user /\ work.row = syncing[p].row
    BY <1>3, <1>5 DEF SyncWork
  <2>. HIDE DEF work
  <2>. QED
    BY <2>2, <2>3, <1>2, <1>5
<1>6. CASE Requeue(p)
  <2>1. syncing' \in [Processes -> {Idle, Ended} \cup SyncWork] /\ SyncRowInv'
    BY <1>6, <1>4 DEF Requeue, SyncIn
  <2>2. [Absent EXCEPT !.status = "failed"] \in RowType
    BY DEF RowType, Absent, Pending
  <2>3. jobs' \in [Keys -> RowType] /\ readmitted' \subseteq Keys
    BY <1>6, <2>2 DEF Requeue, TypeInv, TypeOK
  <2>. QED
    BY <1>6, <2>1, <2>3 DEF Requeue, TypeInv, TypeOK
<1>7. CASE LoadCredentials(p)
  <2>1. syncing' \in [Processes -> {Idle, Ended} \cup SyncWork] /\ SyncRowInv'
    BY <1>7, <1>4, <1>5 DEF LoadCredentials, SyncIn
  <2>. QED
    BY <1>7, <2>1 DEF LoadCredentials, TypeInv, TypeOK
<1>8. CASE SaveRefreshed(p)
  <2>1. syncing' \in [Processes -> {Idle, Ended} \cup SyncWork] /\ SyncRowInv'
    BY <1>8, <1>5 DEF SaveRefreshed, SyncIn
  <2>2. credentials' \subseteq Users
    BY <1>8, <1>3 DEF SaveRefreshed, SyncIn, TypeInv, TypeOK
  <2>. QED
    BY <1>8, <2>1, <2>2 DEF SaveRefreshed, TypeInv, TypeOK
<1>9. CASE EnqueueItem(p)
  <2>1. PICK k \in syncing[p].items :
          /\ Admit(k) \/ Refuse(k)
          /\ syncing' = [syncing EXCEPT ![p].items = @ \ {k}]
    BY <1>9 DEF EnqueueItem
  <2> DEFINE work == [syncing[p] EXCEPT !.items = @ \ {k}]
  <2>2. syncing' = [syncing EXCEPT ![p] = work]
    BY <2>1
  <2>3. /\ work \in SyncWork /\ work.user = syncing[p].user /\ work.row = syncing[p].row
        /\ k \in Keys
    BY <1>3, <1>9 DEF EnqueueItem, SyncIn, SyncWork
  <2>4. syncing' \in [Processes -> {Idle, Ended} \cup SyncWork] /\ SyncRowInv'
    <3>. HIDE DEF work
    <3>. QED
      BY <2>2, <2>3, <1>2, <1>9 DEF EnqueueItem, SyncIn
  <2>5. jobs' \in [Keys -> RowType] /\ readmitted' \subseteq Keys
    BY <2>1, <2>3, TypeInvAdmit DEF Refuse, TypeInv, TypeOK
  <2>. QED
    BY <1>9, <2>4, <2>5 DEF EnqueueItem, TypeInv, TypeOK
<1>10. ASSUME NEW row \in RowType, NEW work \in {Idle, Ended}, IsBusy(syncing[p]),
              \/ syncs' = [syncs EXCEPT ![syncing[p].user][syncing[p].row] = row]
              \/ UNCHANGED syncs,
              syncing' = [syncing EXCEPT ![p] = work]
       PROVE  /\ syncs' \in [Users -> Seq(RowType)]
              /\ syncing' \in [Processes -> {Idle, Ended} \cup SyncWork]
              /\ SyncRowInv'
  <2>1. /\ syncs' \in [Users -> Seq(RowType)]
        /\ \A v \in Users : DOMAIN syncs[v] \subseteq DOMAIN syncs'[v]
    <3>1. /\ syncing[p].user \in Users
          /\ syncing[p].row \in DOMAIN syncs[syncing[p].user]
          /\ syncs \in [Users -> Seq(RowType)]
      BY <1>3, <1>10, BusyLoops DEF TypeInv, TypeOK
    <3>2. CASE UNCHANGED syncs
      BY <3>1, <3>2
    <3>3. CASE syncs' = [syncs EXCEPT ![syncing[p].user][syncing[p].row] = row]
      <4>1. [syncs EXCEPT ![syncing[p].user][syncing[p].row] = row] \in [Users -> Seq(RowType)]
        BY <3>1, SyncsType
      <4>2. \A v \in Users : DOMAIN syncs[v] \subseteq
                DOMAIN [syncs EXCEPT ![syncing[p].user][syncing[p].row] = row][v]
        BY <3>1, SyncsType
      <4>. QED
        BY <3>3, <4>1, <4>2
    <3>. QED
      BY <3>2, <3>3, <1>10
  <2>. QED
    BY <1>10, <2>1, LoopMoves DEF IsBusy
<1>11. CASE CompleteSync(p)
  <2>1. CompletedRow(SyncRow(p)) \in RowType
    BY <1>11, BusyLoops, RowsType DEF CompleteSync, SyncIn, RowType
  <2>2. /\ syncs' \in [Users -> Seq(RowType)]
        /\ syncing' \in [Processes -> {Idle, Ended} \cup SyncWork]
        /\ SyncRowInv'
    <3>1. syncs' = [syncs EXCEPT ![syncing[p].user][syncing[p].row] = CompletedRow(SyncRow(p))]
      BY <1>11 DEF CompleteSync, SyncRow
    <3>. QED
      BY <3>1, <2>1, <1>10, <1>11 DEF CompleteSync, SyncIn
  <2>. QED
    BY <1>11, <2>2 DEF CompleteSync, TypeInv, TypeOK
<1>12. CASE FailSync(p)
  <2> DEFINE failed == FailedRow(SyncRow(p), syncing[p].attempt)
  <2>1. failed \in RowType
    BY <1>12, <1>3, BusyLoops, RowsType DEF FailSync, SyncWork
  <2>2. /\ \/ syncs' = [syncs EXCEPT ![syncing[p].user][syncing[p].row] = failed]
           \/ UNCHANGED syncs
        /\ \E work \in {Idle, Ended} : syncing' = [syncing EXCEPT ![p] = work]
    BY <1>12 DEF FailSync
  <2>3. /\ syncs' \in [Users -> Seq(RowType)]
        /\ syncing' \in [Processes -> {Idle, Ended} \cup SyncWork]
        /\ SyncRowInv'
    <3>. HIDE DEF failed
    <3>. QED
      BY <2>1, <2>2, <1>10, <1>12 DEF FailSync
  <2>4. budget' \in [Bounded -> Nat]
    BY <1>12, SpendType DEF FailSync, TypeInv, TypeOK, Bounded
  <2>. QED
    BY <1>12, <2>3, <2>4 DEF FailSync, TypeInv, TypeOK
<1>. QED
  BY <1>1, <1>6, <1>7, <1>8, <1>9, <1>11, <1>12 DEF SyncStep

\* a lease ends: the row is as it was, but for the lease
LEMMA TypeInvLeases ==
    ASSUME TypeInv,
           \/ \E k \in Keys : JobLeaseEnds(k)
           \/ \E u \in Users : SyncLeaseEnds(u)
           \/ LeaseLapses
    PROVE  TypeInv'
<1> USE DEF rowVars, ghostVars
<1>1. ASSUME NEW k \in Keys, jobs' = [jobs EXCEPT ![k].leased = FALSE]
      PROVE  jobs' \in [Keys -> RowType]
  <2>1. [jobs[k] EXCEPT !.leased = FALSE] \in RowType
    BY DEF TypeInv, TypeOK, RowType
  <2>. QED
    BY <1>1, <2>1 DEF TypeInv, TypeOK
<1>2. ASSUME NEW u \in Users, NEW i \in DOMAIN syncs[u],
             syncs' = [syncs EXCEPT ![u][i].leased = FALSE], UNCHANGED syncing
      PROVE  syncs' \in [Users -> Seq(RowType)] /\ SyncRowInv'
  <2> DEFINE row == [syncs[u][i] EXCEPT !.leased = FALSE]
  <2>1. syncs[u][i] \in RowType
    BY DEF TypeInv, TypeOK
  <2>2. row \in RowType
    BY <2>1 DEF RowType
  <2>3. syncs' = [syncs EXCEPT ![u][i] = row]
    BY <1>2
  <2>. HIDE DEF row
  <2>4. syncs' \in [Users -> Seq(RowType)]
    BY <2>2, <2>3, SyncsType DEF TypeInv, TypeOK
  <2>5. \A v \in Users : DOMAIN syncs[v] \subseteq DOMAIN syncs'[v]
    BY <2>2, <2>3, SyncsType DEF TypeInv, TypeOK
  <2>. QED
    BY <1>2, <2>4, <2>5, RowsMove
<1>3. ASSUME NEW k \in Keys, JobLeaseEnds(k) PROVE TypeInv'
  BY <1>3, <1>1 DEF JobLeaseEnds, TypeInv, TypeOK, SyncRowInv
<1>4. ASSUME NEW u \in Users, SyncLeaseEnds(u) PROVE TypeInv'
  <2>1. syncs' \in [Users -> Seq(RowType)] /\ SyncRowInv'
    BY <1>4, <1>2 DEF SyncLeaseEnds
  <2>. QED
    BY <1>4, <2>1 DEF SyncLeaseEnds, TypeInv, TypeOK
<1>5. CASE LeaseLapses
  <2>1. jobs' \in [Keys -> RowType]
    BY <1>5, <1>1 DEF LeaseLapses, TypeInv, TypeOK
  <2>2. syncs' \in [Users -> Seq(RowType)] /\ SyncRowInv'
    BY <1>5, <1>2 DEF LeaseLapses, TypeInv, TypeOK, SyncRowInv
  <2>3. budget' \in [Bounded -> Nat]
    BY <1>5, SpendType DEF LeaseLapses, Bounded, TypeInv, TypeOK
  <2>. QED
    BY <1>5, <2>1, <2>2, <2>3 DEF LeaseLapses, TypeInv, TypeOK
<1>. QED
  BY <1>3, <1>4, <1>5

\* the row or the chunks that some loops name by id are deleted
LEMMA LoopsLose ==
    ASSUME TypeInv, NEW what \in {"chunks", "row"}, NEW S \in SUBSET Processes,
           \A p \in S : IsBusy(embedding[p]),
           embedding' = [p \in Processes |-> IF p \in S THEN Lose(p, what) ELSE embedding[p]]
    PROVE  embedding' \in [Processes -> {Idle} \cup EmbeddingWork]
<1>1. ASSUME NEW p \in S PROVE Lose(p, what) \in EmbeddingWork
  BY <1>1, BusyLoops DEF Lose, EmbeddingWork
<1>. QED
  BY <1>1 DEF TypeInv, TypeOK

\* what tools, users and retention do
LEMMA TypeInvOutside ==
    ASSUME TypeInv,
           \/ \E k \in Keys : ToolResult(k) \/ ExpireJob(k)
           \/ \E s \in Sources : ExpireChunks(s)
           \/ \E u \in Users : RequestSync(u) \/ Consent(u) \/ Disconnect(u)
           \/ \E u \in Users : DeleteUserData(u)
    PROVE  TypeInv'
<1> USE DEF rowVars, ghostVars, Bounded
<1>0. Absent \in RowType /\ NewRow \in RowType
  BY LimitsAssumption DEF RowType, Pending, Settled, Absent, NewRow
<1>1. ASSUME NEW k \in Keys, ToolResult(k) PROVE TypeInv'
  BY <1>1, TypeInvAdmit, SpendType DEF ToolResult, TypeInv, TypeOK, SyncRowInv
<1>2. ASSUME NEW k \in Keys, ExpireJob(k) PROVE TypeInv'
  <2>1. embedding' \in [Processes -> {Idle} \cup EmbeddingWork]
    <3> DEFINE S == {p \in Processes : WorksOnJob(p, k)}
    <3>1. embedding' = [p \in Processes |-> IF p \in S THEN Lose(p, "row") ELSE embedding[p]]
      BY <1>2 DEF ExpireJob
    <3>. QED
      BY <3>1, LoopsLose DEF WorksOnJob
  <2>. QED
    BY <1>0, <1>2, <2>1, JobsType, SpendType DEF ExpireJob, TypeInv, TypeOK, SyncRowInv
<1>3. ASSUME NEW s \in Sources, ExpireChunks(s) PROVE TypeInv'
  <2>1. live' \in [Sources -> SUBSET Texts]
    BY <1>3 DEF ExpireChunks, TypeInv, TypeOK
  <2>. QED
    BY <1>3, <2>1, SpendType DEF ExpireChunks, TypeInv, TypeOK, SyncRowInv
<1>4. ASSUME NEW u \in Users, RequestSync(u) PROVE TypeInv'
  <2>1. syncs' \in [Users -> Seq(RowType)]
    BY <1>0, <1>4, SyncsType DEF RequestSync, TypeInv, TypeOK
  <2>2. \A v \in Users : DOMAIN syncs[v] \subseteq DOMAIN syncs'[v]
    BY <1>0, <1>4, SyncsType DEF RequestSync, TypeInv, TypeOK
  <2>3. SyncRowInv'
    BY <1>4, <2>2, RowsMove DEF RequestSync
  <2>. QED
    BY <1>4, <2>1, <2>3, SpendType DEF RequestSync, TypeInv, TypeOK
<1>5. ASSUME NEW u \in Users, Consent(u) \/ Disconnect(u) PROVE TypeInv'
  BY <1>5, SpendType DEF Consent, Disconnect, TypeInv, TypeOK, SyncRowInv
<1>6. ASSUME NEW u \in Users, DeleteUserData(u) PROVE TypeInv'
  <2>1. /\ live' \in [Sources -> SUBSET Texts]
        /\ indexed' \in [Sources -> {{}} \cup {{q} : q \in Results}]
    BY <1>6 DEF DeleteUserData, TypeInv, TypeOK
  <2>2. embedding' \in [Processes -> {Idle} \cup EmbeddingWork]
    <3> DEFINE S == {p \in Processes :
                       InPhase(p, "embedding") /\ embedding[p].key[1] \in OwnedBy(u)}
    <3>1. embedding' = [p \in Processes |-> IF p \in S THEN Lose(p, "chunks") ELSE embedding[p]]
      BY <1>6 DEF DeleteUserData
    <3>. QED
      BY <3>1, LoopsLose DEF InPhase
  <2>. QED
    BY <1>6, <2>1, <2>2, SpendType DEF DeleteUserData, TypeInv, TypeOK, SyncRowInv
<1>. QED
  BY <1>1, <1>2, <1>3, <1>4, <1>5, <1>6

LEMMA TypeInvRestart ==
    ASSUME TypeInv, NEW p \in Processes, Restart(p)
    PROVE  TypeInv'
<1>1. syncing' \in [Processes -> {Idle, Ended} \cup SyncWork] /\ SyncRowInv'
  BY LoopMoves DEF Restart, rowVars, IsBusy
<1>2. budget' \in [Bounded -> Nat]
  BY SpendType DEF Restart, Bounded, TypeInv, TypeOK
<1>. QED
  BY <1>1, <1>2 DEF Restart, TypeInv, TypeOK, rowVars, ghostVars

\* the cleanup writes the credentials and spends the same budget
LEMMA TypeInvCleanup ==
    ASSUME TypeInv, CleanupStep
    PROVE  TypeInv'
<1>1. ASSUME NEW thing \in Bounded, Cleanup!Spend(thing)
      PROVE  budget' \in [Bounded -> Nat]
  BY <1>1 DEF Cleanup!Spend, TypeInv, TypeOK
<1>2. budget' \in [Bounded -> Nat] /\ credentials' \subseteq Users
  BY <1>1, UserAssumption
  DEF CleanupStep, Cleanup!CleanupNext, Cleanup!RequestCleanup, Cleanup!ConfirmationExpires,
      Cleanup!Decide, Cleanup!RetryPopulation, Cleanup!LoadForCleanup,
      Cleanup!SaveForCleanup, Cleanup!NeedsAPerson, Cleanup!CallGoogle,
      Cleanup!GoogleRefuses, Cleanup!Finish, Bounded, TypeInv, TypeOK
<1>. QED
  BY <1>2 DEF CleanupStep, TypeInv, TypeOK, SyncRowInv, ghostVars

(* The tables and loops are well typed, and a loop's row is there, in every *)
(* reachable state.                                                        *)
THEOREM TypeInvHolds == DataSpec => []TypeInv
<1>1. DataInit => TypeInv
  <2> SUFFICES ASSUME DataInit PROVE TypeInv
    OBVIOUS
  <2>1. Absent \in RowType /\ LegacyRow \in RowType
    BY LimitsAssumption DEF RowType, Pending, Settled, Absent, LegacyRow
  <2>. QED
    BY <2>1, LimitsAssumption DEF DataInit, Init, TypeInv, TypeOK, SyncRowInv, IsBusy
<1>2. TypeInv /\ [DataNext]_allVars => TypeInv'
  <2> SUFFICES ASSUME TypeInv, [DataNext]_allVars PROVE TypeInv'
    OBVIOUS
  <2>1. CASE IndexOnly(IndexNext)
    BY <2>1, TypeInvEmbedding, TypeInvSync, TypeInvLeases, TypeInvOutside
    DEF IndexOnly, IndexNext
  <2>2. CASE CleanupStep
    BY <2>2, TypeInvCleanup
  <2>3. ASSUME NEW p \in Processes, RestartProcess(p) PROVE TypeInv'
    BY <2>3, TypeInvRestart DEF RestartProcess
  <2>4. ASSUME NEW u \in Users, DeleteAccount(u) PROVE TypeInv'
    BY <2>4, TypeInvOutside DEF DeleteAccount
  <2>5. CASE UNCHANGED allVars
    BY <2>5 DEF allVars, vars, rowVars, ghostVars, TypeInv, TypeOK, SyncRowInv
  <2>. QED
    BY <2>1, <2>2, <2>3, <2>4, <2>5 DEF DataNext
<1>. QED
  BY <1>1, <1>2, PTL DEF DataSpec

-------------------------------------------------------------------------------
(* The index: a source has one live chunk at a position, and, unless it is *)
(* disturbed, the chunks of the result indexed last.                       *)

ChunkInv == PositionInv /\ IndexIsOneResult

LEMMA ChunkInvWrite ==
    ASSUME TypeInv, ChunkInv, NEW p \in Processes, WriteChunks(p)
    PROVE  ChunkInv'
<1> DEFINE s == embedding[p].key[1]
           r == embedding[p].key[2]
           seen == embedding[p].seen
           gone == "chunks" \in embedding[p].lost
           removed == IF gone THEN {} ELSE Removed(r, seen)
<1>1. s \in Sources /\ r \in Results
  BY BusyLoops, KeyIsPair DEF WriteChunks, InPhase, EmbeddingWork
<1>2. /\ live' = [live EXCEPT ![s] = Rewritten(live[s], Changed(r, seen), removed)]
      /\ indexed' = [indexed EXCEPT ![s] = {r}]
      /\ disturbed' = IF seen = live[s] /\ ~gone THEN disturbed \ {s} ELSE disturbed \cup {s}
  BY DEF WriteChunks
<1>. HIDE DEF s, r, seen, gone
<1>3. /\ live'[s] = Rewritten(live[s], Changed(r, seen), removed) /\ indexed'[s] = {r}
      /\ \A t \in Sources \ {s} : live'[t] = live[t] /\ indexed'[t] = indexed[t]
  BY <1>1, <1>2 DEF TypeInv, TypeOK
<1>4. \A c, d \in live[s] : c[1] = d[1] => c = d
  BY <1>1 DEF ChunkInv, PositionInv
<1>5. PositionInv'
  <2>1. \A c, d \in live'[s] : c[1] = d[1] => c = d
    BY <1>1, <1>3, <1>4, RewrittenPositions
  <2>. QED
    BY <2>1, <1>3 DEF ChunkInv, PositionInv
<1>6. ASSUME NEW t \in Sources \ disturbed'
      PROVE  live'[t] = UNION {Chunks[q] : q \in indexed'[t]}
  <2>1. CASE t = s
    <3>1. seen = live[s] /\ removed = Removed(r, seen)
      BY <2>1, <1>2
    <3>2. live'[s] = Chunks[r]
      BY <3>1, <1>1, <1>3, <1>4, RewrittenIsTheResult
    <3>3. UNION {Chunks[q] : q \in {r}} = Chunks[r]
      OBVIOUS
    <3>. QED
      BY <2>1, <3>2, <3>3, <1>3
  <2>2. CASE t # s
    <3>1. t \in Sources \ disturbed
      BY <2>2, <1>2
    <3>. QED
      BY <3>1, <2>2, <1>3 DEF ChunkInv, IndexIsOneResult
  <2>. QED
    BY <2>1, <2>2
<1>. QED
  BY <1>5, <1>6 DEF ChunkInv, IndexIsOneResult

LEMMA ChunkInvUnchanged ==
    ASSUME TypeInv, ChunkInv, NEW p \in Processes, NothingChanged(p)
    PROVE  ChunkInv'
<1> DEFINE s == embedding[p].key[1]
           r == embedding[p].key[2]
<1>1. s \in Sources /\ r \in Results
  BY BusyLoops, KeyIsPair DEF NothingChanged, InPhase, EmbeddingWork
<1>2. /\ Changed(r, live[s]) = {} /\ Removed(r, live[s]) = {}
      /\ indexed' = [indexed EXCEPT ![s] = {r}]
      /\ disturbed' = disturbed \ {s} /\ live' = live
  BY DEF NothingChanged, rowVars
<1>. HIDE DEF s, r
<1>3. live[s] = Chunks[r]
  BY <1>1, <1>2, UnchangedIsTheResult DEF ChunkInv, PositionInv
<1>4. UNION {Chunks[q] : q \in {r}} = Chunks[r]
  OBVIOUS
<1>5. ASSUME NEW t \in Sources \ disturbed'
      PROVE  live'[t] = UNION {Chunks[q] : q \in indexed'[t]}
  BY <1>1, <1>2, <1>3, <1>4 DEF ChunkInv, IndexIsOneResult, TypeInv, TypeOK
<1>. QED
  BY <1>2, <1>5 DEF ChunkInv, PositionInv, IndexIsOneResult

LEMMA ChunkInvTaken ==
    ASSUME TypeInv, ChunkInv,
           (\E s \in Sources : ExpireChunks(s)) \/ \E u \in Users : DeleteUserData(u)
    PROVE  ChunkInv'
<1>1. ASSUME NEW s \in Sources, ExpireChunks(s) PROVE ChunkInv'
  <2>1. /\ \A t \in Sources : live'[t] \subseteq live[t]
        /\ \A t \in Sources \ {s} : live'[t] = live[t]
    BY <1>1 DEF ExpireChunks, TypeInv, TypeOK
  <2>2. PositionInv'
    BY <2>1 DEF ChunkInv, PositionInv
  <2>3. IndexIsOneResult'
    BY <1>1, <2>1 DEF ExpireChunks, ChunkInv, IndexIsOneResult
  <2>. QED
    BY <2>2, <2>3 DEF ChunkInv
<1>2. ASSUME NEW u \in Users, DeleteUserData(u) PROVE ChunkInv'
  <2>1. ASSUME NEW t \in Sources
        PROVE  /\ t \in OwnedBy(u) => live'[t] = {} /\ indexed'[t] = {}
               /\ t \notin OwnedBy(u) =>
                    /\ live'[t] = live[t] /\ indexed'[t] = indexed[t]
                    /\ t \in disturbed <=> t \in disturbed'
    BY <1>2 DEF DeleteUserData
  <2>2. PositionInv'
    BY <2>1 DEF ChunkInv, PositionInv
  <2>3. UNION {Chunks[r] : r \in {}} = {}
    OBVIOUS
  <2>4. ASSUME NEW t \in Sources \ disturbed'
        PROVE  live'[t] = UNION {Chunks[r] : r \in indexed'[t]}
    BY <2>1, <2>3 DEF ChunkInv, IndexIsOneResult
  <2>. QED
    BY <2>2, <2>4 DEF ChunkInv, IndexIsOneResult
<1>. QED
  BY <1>1, <1>2

(* The live chunks of a source that no write or retention has disturbed    *)
(* are those of the last result that had chunks, whichever processes index *)
(* it in between: index_tool_result writes only the difference to what it  *)
(* read, and nothing at all for a result without chunks.                   *)
THEOREM IndexedAsRead == DataSpec => []IndexIsOneResult
<1>1. DataInit => ChunkInv
  <2>1. UNION {Chunks[r] : r \in {}} = {}
    OBVIOUS
  <2>. QED
    BY <2>1 DEF DataInit, Init, ChunkInv, PositionInv, IndexIsOneResult
<1>2. TypeInv /\ ChunkInv /\ [DataNext]_allVars => ChunkInv'
  <2> SUFFICES ASSUME TypeInv, ChunkInv, [DataNext]_allVars PROVE ChunkInv'
    OBVIOUS
  <2> USE DEF rowVars, ghostVars
  <2>1. CASE UNCHANGED <<live, indexed, disturbed>>
    BY <2>1 DEF ChunkInv, PositionInv, IndexIsOneResult
  <2>2. ASSUME NEW p \in Processes,
               EmbeddingStep(p) \/ (\E k \in Keys : Claim(p, k))
        PROVE  ChunkInv'
    BY <2>1, <2>2, ChunkInvWrite, ChunkInvUnchanged
    DEF EmbeddingStep, NothingToIndex, ReadChunks, Complete, Fail, Claim
  <2>3. ASSUME NEW p \in Processes,
               SyncStep(p) \/ (\E u \in Users : ClaimSync(p, u))
        PROVE  ChunkInv'
    BY <2>1, <2>3
    DEF SyncStep, ClaimSync, Requeue, LoadCredentials, SaveRefreshed, EnqueueItem,
        CompleteSync, FailSync
  <2>4. ASSUME NEW k \in Keys, ToolResult(k) \/ JobLeaseEnds(k) \/ ExpireJob(k)
        PROVE  ChunkInv'
    BY <2>1, <2>4 DEF ToolResult, JobLeaseEnds, ExpireJob
  <2>5. ASSUME NEW u \in Users,
               RequestSync(u) \/ SyncLeaseEnds(u) \/ Consent(u) \/ Disconnect(u)
        PROVE  ChunkInv'
    BY <2>1, <2>5 DEF RequestSync, SyncLeaseEnds, Consent, Disconnect
  <2>6. CASE IndexOnly(IndexNext)
    BY <2>1, <2>2, <2>3, <2>4, <2>5, <2>6, ChunkInvTaken
    DEF IndexOnly, IndexNext, LeaseLapses
  <2>7. CASE DataNext
    BY <2>1, <2>6, <2>7, ChunkInvTaken
    DEF DataNext, CleanupStep, RestartProcess, Restart, DeleteAccount
  <2>. QED
    BY <2>1, <2>7 DEF allVars, vars
<1>3. ChunkInv => IndexIsOneResult
  BY DEF ChunkInv
<1>. QED
  BY <1>1, <1>2, <1>3, TypeInvHolds, PTL DEF DataSpec

-------------------------------------------------------------------------------
(* The caps: every step but an admission leaves no more jobs pending, of   *)
(* those that nobody made pending again.                                   *)

CapsInv == IsFiniteSet(Rows) /\ AdmissionHolds

AdmittedJobs == PendingJobs \ readmitted

AdmitsNone == Rows' \subseteq Rows /\ AdmittedJobs' \subseteq AdmittedJobs

\* the pending jobs are rows, so that they can be counted
LEMMA PendingIsFinite ==
    ASSUME IsFiniteSet(Rows)
    PROVE  /\ IsFiniteSet(PendingJobs) /\ IsFiniteSet(AdmittedJobs)
           /\ Cardinality(PendingJobs) \in Nat
           /\ Cardinality(AdmittedJobs) <= Cardinality(PendingJobs)
           /\ \A u \in Users :
                /\ IsFiniteSet(PendingOf(u)) /\ IsFiniteSet(PendingOf(u) \ readmitted)
                /\ Cardinality(PendingOf(u)) \in Nat
                /\ Cardinality(PendingOf(u) \ readmitted) <= Cardinality(PendingOf(u))
<1>1. PendingJobs \subseteq Rows
  BY DEF PendingJobs, Rows, Pending
<1>2. IsFiniteSet(PendingJobs) /\ Cardinality(PendingJobs) \in Nat
  BY <1>1, FS_Subset, FS_CardinalityType
<1>3. /\ IsFiniteSet(AdmittedJobs)
      /\ Cardinality(AdmittedJobs) <= Cardinality(PendingJobs)
  BY <1>2, FS_Subset DEF AdmittedJobs
<1>4. ASSUME NEW u \in Users
      PROVE  /\ IsFiniteSet(PendingOf(u)) /\ IsFiniteSet(PendingOf(u) \ readmitted)
             /\ Cardinality(PendingOf(u)) \in Nat
             /\ Cardinality(PendingOf(u) \ readmitted) <= Cardinality(PendingOf(u))
  <2>1. IsFiniteSet(PendingOf(u))
    <3>1. PendingOf(u) \subseteq PendingJobs
      BY DEF PendingOf
    <3>. QED
      BY <3>1, <1>2, FS_Subset
  <2>. QED
    BY <2>1, FS_Subset, FS_CardinalityType
<1>. QED
  BY <1>2, <1>3, <1>4

LEMMA CapsKept ==
    ASSUME CapsInv, AdmitsNone
    PROVE  CapsInv'
<1>1. IsFiniteSet(Rows')
  BY FS_Subset DEF CapsInv, AdmitsNone
<1>2. ASSUME NEW S, NEW T, IsFiniteSet(S), T \subseteq S, NEW cap \in Nat,
             Cardinality(S) <= cap
      PROVE  Cardinality(T) <= cap
  <2>1. Cardinality(T) \in Nat /\ Cardinality(S) \in Nat /\ Cardinality(T) <= Cardinality(S)
    BY <1>2, FS_Subset, FS_CardinalityType
  <2>. QED
    BY <2>1, <1>2
<1>3. Cardinality(AdmittedJobs') <= MaxGlobal
  BY <1>2, PendingIsFinite, LimitsAssumption
  DEF CapsInv, AdmitsNone, AdmissionHolds, AdmittedJobs
<1>4. ASSUME NEW u \in Users
      PROVE  Cardinality((PendingOf(u) \ readmitted)') <= MaxPerUser
  <2>1. (PendingOf(u) \ readmitted)' \subseteq PendingOf(u) \ readmitted
    BY DEF AdmitsNone, AdmittedJobs, PendingOf
  <2>. QED
    BY <2>1, <1>2, PendingIsFinite, LimitsAssumption DEF CapsInv, AdmissionHolds
<1>. QED
  BY <1>1, <1>3, <1>4 DEF CapsInv, AdmissionHolds, AdmittedJobs

LEMMA CapsAdmit ==
    ASSUME TypeInv, CapsInv, NEW k \in Keys, Admit(k)
    PROVE  CapsInv'
<1>1. /\ Rows' \subseteq Rows \cup {k}
      /\ AdmittedJobs' \subseteq AdmittedJobs \cup {k}
      /\ \A u \in Users : (PendingOf(u) \ readmitted)' \subseteq (PendingOf(u) \ readmitted) \cup {k}
      /\ \A u \in Users : u # Owner[k[1]] =>
            (PendingOf(u) \ readmitted)' \subseteq PendingOf(u) \ readmitted
  BY DEF Admit, Rows, AdmittedJobs, PendingOf, PendingJobs, TypeInv, TypeOK
<1>2. IsFiniteSet(Rows')
  BY <1>1, FS_AddElement, FS_Subset DEF CapsInv
<1>3. ASSUME NEW S, NEW T, IsFiniteSet(S), T \subseteq S \cup {k}, NEW cap \in Nat,
             Cardinality(S) < cap
      PROVE  Cardinality(T) <= cap
  <2>1. /\ IsFiniteSet(S \cup {k})
        /\ Cardinality(S) \in Nat /\ Cardinality(S \cup {k}) \in Nat
        /\ Cardinality(S \cup {k}) <= Cardinality(S) + 1
    <3>1. /\ IsFiniteSet(S \cup {k})
          /\ Cardinality(S \cup {k}) =
                IF k \in S THEN Cardinality(S) ELSE Cardinality(S) + 1
      BY <1>3, FS_AddElement, Zenon
    <3>2. Cardinality(S) \in Nat
      BY <1>3, FS_CardinalityType
    <3>. QED
      BY <3>1, <3>2
  <2>2. Cardinality(T) \in Nat /\ Cardinality(T) <= Cardinality(S \cup {k})
    BY <1>3, <2>1, FS_Subset, FS_CardinalityType
  <2>. QED
    BY <2>1, <2>2, <1>3
<1>4. Cardinality(AdmittedJobs') <= MaxGlobal
  <2>1. Cardinality(AdmittedJobs) < MaxGlobal
    BY PendingIsFinite, FS_CardinalityType, LimitsAssumption DEF CapsInv, Admit, Admitted
  <2>. QED
    BY <2>1, <1>1, <1>3, PendingIsFinite, LimitsAssumption DEF CapsInv
<1>5. ASSUME NEW u \in Users
      PROVE  Cardinality((PendingOf(u) \ readmitted)') <= MaxPerUser
  <2>1. IsFiniteSet(PendingOf(u) \ readmitted)
    BY PendingIsFinite DEF CapsInv
  <2>2. CASE u = Owner[k[1]]
    <3>1. Cardinality(PendingOf(u) \ readmitted) < MaxPerUser
      BY <2>2, PendingIsFinite, FS_CardinalityType, LimitsAssumption
      DEF CapsInv, Admit, Admitted
    <3>. QED
      BY <3>1, <2>1, <1>1, <1>3, LimitsAssumption
  <2>3. CASE u # Owner[k[1]]
    <3>1. /\ (PendingOf(u) \ readmitted)' \subseteq PendingOf(u) \ readmitted
          /\ Cardinality(PendingOf(u) \ readmitted) <= MaxPerUser
      BY <2>3, <1>1 DEF CapsInv, AdmissionHolds
    <3>2. /\ Cardinality((PendingOf(u) \ readmitted)') \in Nat
          /\ Cardinality(PendingOf(u) \ readmitted) \in Nat
          /\ Cardinality((PendingOf(u) \ readmitted)') <= Cardinality(PendingOf(u) \ readmitted)
      BY <3>1, <2>1, FS_Subset, FS_CardinalityType
    <3>. QED
      BY <3>1, <3>2, LimitsAssumption
  <2>. QED
    BY <2>2, <2>3
<1>. QED
  BY <1>2, <1>4, <1>5 DEF CapsInv, AdmissionHolds, AdmittedJobs

\* a row is replaced: it is pending afterwards only if it was, or readmitted
LEMMA RowReplaced ==
    ASSUME TypeInv, NEW k \in Keys, NEW row,
           jobs' = [jobs EXCEPT ![k] = row],
           row.status # "absent" => jobs[k].status # "absent",
           row.status \in Pending => jobs[k].status \in Pending \/ k \in readmitted',
           readmitted \subseteq readmitted'
    PROVE  AdmitsNone
BY DEF AdmitsNone, Rows, AdmittedJobs, PendingJobs, TypeInv, TypeOK

LEMMA OthersAdmitNone ==
    ASSUME TypeInv,
           \/ \E p \in Processes : EmbeddingStep(p) \/ \E k \in Keys : Claim(p, k)
           \/ \E p \in Processes : Requeue(p)
           \/ \E k \in Keys : JobLeaseEnds(k) \/ ExpireJob(k)
           \/ LeaseLapses
           \/ UNCHANGED <<jobs, readmitted>>
    PROVE  AdmitsNone
<1> USE DEF ghostVars
<1>1. CASE UNCHANGED <<jobs, readmitted>>
  BY <1>1 DEF AdmitsNone, Rows, AdmittedJobs, PendingJobs
<1>2. ASSUME NEW p \in Processes, NEW k \in Keys, Claim(p, k) PROVE AdmitsNone
  <2>1. /\ jobs[k].status \in Pending
        /\ ClaimedRow(jobs[k]).status = "running"
    BY <1>2 DEF Claim, Claimable, Pending, ClaimedRow, TypeInv, TypeOK, RowType
  <2>. QED
    BY <1>2, <2>1, RowReplaced DEF Claim, Pending
<1>3. ASSUME NEW p \in Processes, EmbeddingStep(p) PROVE AdmitsNone
  <2>1. CASE NothingToIndex(p) \/ ReadChunks(p) \/ NothingChanged(p) \/ WriteChunks(p)
    BY <1>1, <2>1 DEF NothingToIndex, ReadChunks, NothingChanged, WriteChunks, rowVars
  <2>2. CASE Complete(p)
    <3> DEFINE k == embedding[p].key
    <3>1. k \in Keys /\ jobs[k] \in RowType
      BY <2>2, BusyLoops DEF Complete, InPhase, EmbeddingWork, TypeInv, TypeOK
    <3>2. CompletedRow(jobs[k]).status = "completed"
      BY <3>1 DEF CompletedRow, RowType
    <3>3. CASE RowIsGone(p)
      BY <1>1, <2>2, <3>3 DEF Complete, SetRow
    <3>4. CASE ~RowIsGone(p)
      BY <2>2, <3>1, <3>2, <3>4, RowReplaced DEF Complete, SetRow, RowIsGone, Pending
    <3>. QED
      BY <3>3, <3>4
  <2>3. CASE Fail(p)
    <3> DEFINE k == embedding[p].key
               row == FailedRow(jobs[k], embedding[p].attempt)
    <3>1. k \in Keys /\ jobs[k] \in RowType
      BY <2>3, BusyLoops DEF Fail, EmbeddingWork, TypeInv, TypeOK
    <3>2. row.status # "absent" /\ readmitted \subseteq readmitted'
      BY <2>3, <3>1 DEF Fail, FailedRow, RowType
    <3>3. CASE RowIsGone(p)
      BY <1>1, <2>3, <3>3 DEF Fail, SetRow
    <3>4. CASE ~RowIsGone(p)
      <4>1. /\ jobs' = [jobs EXCEPT ![k] = row] /\ jobs[k].status # "absent"
            /\ jobs[k].status \in Settled => k \in readmitted'
        BY <2>3, <3>4 DEF Fail, SetRow, RowIsGone
      <4>2. jobs[k].status \in Pending \/ k \in readmitted'
        BY <3>1, <4>1 DEF RowType
      <4>. QED
        BY <4>1, <4>2, <3>1, <3>2, RowReplaced
    <3>. QED
      BY <3>3, <3>4
  <2>. QED
    BY <1>3, <2>1, <2>2, <2>3 DEF EmbeddingStep
<1>4. ASSUME NEW p \in Processes, Requeue(p) PROVE AdmitsNone
  BY <1>4 DEF Requeue, AdmitsNone, Rows, AdmittedJobs, PendingJobs, Pending
<1>5. ASSUME NEW k \in Keys, jobs[k].status = "running",
             jobs' = [jobs EXCEPT ![k].leased = FALSE], UNCHANGED readmitted
      PROVE  AdmitsNone
  <2>1. /\ jobs' = [jobs EXCEPT ![k] = [jobs[k] EXCEPT !.leased = FALSE]]
        /\ [jobs[k] EXCEPT !.leased = FALSE].status = "running"
    BY <1>5 DEF TypeInv, TypeOK, RowType
  <2>. QED
    BY <1>5, <2>1, RowReplaced DEF Pending
<1>6. ASSUME NEW k \in Keys, ExpireJob(k) PROVE AdmitsNone
  BY <1>6, RowReplaced DEF ExpireJob, Absent, Pending
<1>. QED
  BY <1>1, <1>2, <1>3, <1>4, <1>5, <1>6 DEF JobLeaseEnds, LeaseLapses

(* The caps for what was admitted hold for every set of users and          *)
(* processes, whichever loop or request admits (enqueue_tool_result).      *)
THEOREM CapsAreKept == DataSpec => []AdmissionHolds
<1>1. DataInit => CapsInv
  <2> SUFFICES ASSUME DataInit PROVE CapsInv
    OBVIOUS
  <2>1. Rows \subseteq Legacy
    BY DEF DataInit, Init, Rows, Absent
  <2>2. PendingJobs = {}
    BY DEF DataInit, Init, PendingJobs, Absent, LegacyRow, Pending
  <2>3. IsFiniteSet(Rows)
    BY <2>1, SourcesAssumption, FS_Subset
  <2>4. /\ PendingJobs \ readmitted = {}
        /\ \A u \in Users : PendingOf(u) \ readmitted = {}
    BY <2>2 DEF PendingOf
  <2>5. /\ Cardinality(PendingJobs \ readmitted) <= MaxGlobal
        /\ \A u \in Users : Cardinality(PendingOf(u) \ readmitted) <= MaxPerUser
    BY <2>4, FS_EmptySet, LimitsAssumption
  <2>. QED
    BY <2>3, <2>5 DEF CapsInv, AdmissionHolds
<1>2. TypeInv /\ CapsInv /\ [DataNext]_allVars => CapsInv'
  <2> SUFFICES ASSUME TypeInv, CapsInv, [DataNext]_allVars PROVE CapsInv'
    OBVIOUS
  <2> USE DEF rowVars, ghostVars
  <2>1. CASE AdmitsNone
    BY <2>1, CapsKept
  <2>2. ASSUME NEW p \in Processes, EnqueueItem(p) PROVE CapsInv'
    <3>1. PICK k \in syncing[p].items : Admit(k) \/ Refuse(k)
      BY <2>2 DEF EnqueueItem
    <3>2. k \in Keys
      BY <2>2, BusyLoops DEF EnqueueItem, SyncIn, SyncWork
    <3>. QED
      BY <2>1, <3>1, <3>2, CapsAdmit, OthersAdmitNone DEF Refuse
  <2>3. ASSUME NEW p \in Processes,
               EmbeddingStep(p) \/ SyncStep(p)
               \/ (\E k \in Keys : Claim(p, k)) \/ (\E u \in Users : ClaimSync(p, u))
        PROVE  CapsInv'
    BY <2>1, <2>2, <2>3, OthersAdmitNone
    DEF SyncStep, ClaimSync, LoadCredentials, SaveRefreshed, CompleteSync, FailSync
  <2>4. ASSUME NEW k \in Keys, ToolResult(k) \/ JobLeaseEnds(k) \/ ExpireJob(k)
        PROVE  CapsInv'
    BY <2>1, <2>4, CapsAdmit, OthersAdmitNone DEF ToolResult
  <2>5. ASSUME NEW u \in Users,
               RequestSync(u) \/ SyncLeaseEnds(u) \/ Consent(u) \/ Disconnect(u)
               \/ DeleteUserData(u)
        PROVE  CapsInv'
    BY <2>1, <2>5, OthersAdmitNone
    DEF RequestSync, SyncLeaseEnds, Consent, Disconnect, DeleteUserData
  <2>6. CASE IndexOnly(IndexNext)
    BY <2>1, <2>3, <2>4, <2>5, <2>6, OthersAdmitNone
    DEF IndexOnly, IndexNext, ExpireChunks
  <2>7. CASE DataNext
    BY <2>1, <2>5, <2>6, <2>7, OthersAdmitNone
    DEF DataNext, CleanupStep, RestartProcess, Restart, DeleteAccount
  <2>. QED
    BY <2>1, <2>7, OthersAdmitNone DEF allVars, vars
<1>3. CapsInv => AdmissionHolds
  BY DEF CapsInv
<1>. QED
  BY <1>1, <1>2, <1>3, TypeInvHolds, PTL DEF DataSpec

-------------------------------------------------------------------------------
(* The cleanups.                                                           *)

\* what a decision is about, as the invariant knows it
LEMMA DecisionIsOwned ==
    ASSUME CleanupInv, NEW p \in Processes, deciding[p] # Idle
    PROVE  /\ deciding[p] \in Cleanup!Decision
           /\ deciding[p].row \in DOMAIN calls
           /\ artifact.exists => /\ deciding[p].row \in DOMAIN requests
                                 /\ requests[deciding[p].row].status = "executing"
                                 /\ requests[deciding[p].row].action = deciding[p].action
           /\ \A q \in Deciders : deciding[q].row = deciding[p].row => q = p
<1>1. deciding[p] \in Cleanup!Decision
  BY DEF CleanupInv, Cleanup!CleanupTypeOK
<1>2. p \in Deciders
  BY DEF Deciders
<1>3. artifact.exists => DOMAIN calls = DOMAIN requests
  BY DEF CleanupInv, RequestInv, Cleanup!CleanupTypeOK
<1>. QED
  BY <1>1, <1>2, <1>3 DEF CleanupInv, DecisionInv, OwnsRequest

\* a decision goes on by itself
LEMMA PhaseMoves ==
    ASSUME CleanupInv, NEW p \in Processes, deciding[p] # Idle,
           NEW phase \in {"refreshing", "authorized", "done", "failed", "manual_required"},
           phase \in {"refreshing", "authorized", "manual_required"} =>
               deciding[p].action \in Cleanup!Effects /\ calls[deciding[p].row] = 0,
           phase = "done" => deciding[p].action \notin Cleanup!Effects,
           Cleanup!Becomes(p, phase),
           UNCHANGED <<artifact, requests, undone, calls>>
    PROVE  CleanupInv'
<1>1. /\ deciding'[p] = [deciding[p] EXCEPT !.phase = phase]
      /\ \A q \in Processes \ {p} : deciding'[q] = deciding[q]
  BY DEF Cleanup!Becomes, CleanupInv, Cleanup!CleanupTypeOK
<1>2. /\ deciding'[p] \in Cleanup!Decision
      /\ deciding'[p].row = deciding[p].row /\ deciding'[p].action = deciding[p].action
      /\ deciding'[p].phase = phase
  BY <1>1, DecisionIsOwned DEF Cleanup!Decision
<1>3. Cleanup!CleanupTypeOK'
  BY <1>2 DEF Cleanup!Becomes, CleanupInv, Cleanup!CleanupTypeOK
<1>4. p \in Deciders /\ Deciders' \subseteq Deciders
  BY <1>1 DEF Deciders
<1>5. DecisionInv'
  <2> SUFFICES ASSUME NEW q \in Deciders' PROVE OwnsRequest(q)'
    BY DEF DecisionInv
  <2>1. \A r \in Deciders' : deciding'[r].row = deciding[r].row
    BY <1>1, <1>2 DEF Deciders
  <2>2. CASE q = p
    BY <2>1, <2>2, <1>2, <1>4, DecisionIsOwned DEF OwnsRequest
  <2>3. CASE q # p
    <3>1. deciding'[q] = deciding[q] /\ q \in Deciders
      BY <2>3, <1>1, <1>4 DEF Deciders
    <3>. QED
      BY <3>1, <2>1, <1>4 DEF CleanupInv, DecisionInv, OwnsRequest
  <2>. QED
    BY <2>2, <2>3
<1>6. RequestInv' /\ ActsOnce' /\ IsOnRecord'
  BY DEF CleanupInv, RequestInv, ActsOnce, Cleanup!CleanupActsOnce,
         IsOnRecord, Cleanup!CleanupIsOnRecord
<1>. QED
  BY <1>3, <1>5, <1>6 DEF CleanupInv

\* the effects are on record because their requests are
LEMMA RecordHolds ==
    ASSUME RequestInv', ActsOnce', Cleanup!CleanupTypeOK',
           artifact'.exists => \A i \in DOMAIN requests' :
               requests'[i].status = "completed" /\ requests'[i].action \in Cleanup!Effects
                   => calls'[i] = 1 /\ requests'[i].action \in undone',
           artifact'.exists => \A action \in Cleanup!Effects :
               artifact'.state = Cleanup!CleanupState[action] => action \in undone'
    PROVE  IsOnRecord'
<1>1. ASSUME artifact'.exists, NEW action \in undone'
      PROVE  \E i \in DOMAIN requests' :
                /\ requests'[i].action = action
                /\ requests'[i].status \in {"executing", "completed", "failed"}
  <2>1. PICK i \in DOMAIN requests' : requests'[i].action = action /\ calls'[i] = 1
    BY <1>1 DEF RequestInv
  <2>2. i \in DOMAIN calls'
    BY <1>1 DEF RequestInv, Cleanup!CleanupTypeOK
  <2>. QED
    BY <1>1, <2>1, <2>2 DEF ActsOnce, Cleanup!CleanupActsOnce
<1>. QED
  BY <1>1 DEF IsOnRecord, Cleanup!CleanupIsOnRecord

\* a request is asked for, or an artifact is kept
LEMMA CleanupRequested ==
    ASSUME CleanupInv, NEW action \in Cleanup!Actions, Cleanup!RequestCleanup(action)
    PROVE  CleanupInv'
<1> DEFINE new == [action |-> action, fresh |-> TRUE,
                   status |-> IF action = "preserve" THEN "completed"
                                                     ELSE "awaiting_confirmation"]
<1>1. /\ requests \in Seq(Cleanup!Request) /\ calls \in Seq(Nat)
      /\ Len(calls) = Len(requests) /\ artifact.exists
      /\ artifact \in [exists : BOOLEAN, state : {Cleanup!CleanupState[a] : a \in Cleanup!Actions}]
  BY DEF Cleanup!RequestCleanup, CleanupInv, Cleanup!CleanupTypeOK, RequestInv
<1>2. new \in Cleanup!Request
  BY DEF Cleanup!Request, Cleanup!Open
<1>3. /\ requests' = Append(requests, new) /\ calls' = Append(calls, 0)
      /\ UNCHANGED <<deciding, undone>>
      /\ artifact'.exists /\ artifact' \in [exists : BOOLEAN,
                                            state : {Cleanup!CleanupState[a] : a \in Cleanup!Actions}]
      /\ artifact'.state = artifact.state \/ artifact'.state = Cleanup!CleanupState["preserve"]
  BY <1>1 DEF Cleanup!RequestCleanup
<1>. HIDE DEF new
<1>4. /\ requests' \in Seq(Cleanup!Request) /\ calls' \in Seq(Nat)
      /\ Len(calls') = Len(requests')
      /\ DOMAIN requests' = 1 .. (Len(requests) + 1) /\ DOMAIN requests = 1 .. Len(requests)
      /\ DOMAIN calls' = 1 .. (Len(requests) + 1) /\ DOMAIN calls = 1 .. Len(requests)
      /\ requests'[Len(requests) + 1] = new /\ calls'[Len(requests) + 1] = 0
      /\ \A i \in DOMAIN requests : requests'[i] = requests[i] /\ calls'[i] = calls[i]
  BY <1>1, <1>2, <1>3
<1>5. Cleanup!CleanupTypeOK'
  BY <1>3, <1>4 DEF CleanupInv, Cleanup!CleanupTypeOK
<1>6. DecisionInv'
  <2> SUFFICES ASSUME NEW q \in Deciders' PROVE OwnsRequest(q)'
    BY DEF DecisionInv
  <2>1. OwnsRequest(q) /\ Deciders' = Deciders
    BY <1>3 DEF CleanupInv, DecisionInv, Deciders
  <2>. QED
    BY <2>1, <1>1, <1>3, <1>4 DEF OwnsRequest
<1>7. RequestInv'
  <2>1. ASSUME NEW effect \in undone
        PROVE  \E i \in DOMAIN requests' : requests'[i].action = effect /\ calls'[i] = 1
    <3>1. PICK i \in DOMAIN requests : requests[i].action = effect /\ calls[i] = 1
      BY <1>1 DEF CleanupInv, RequestInv
    <3>. QED
      BY <3>1, <1>4
  <2>. QED
    BY <2>1, <1>3, <1>4 DEF RequestInv
<1>8. ActsOnce'
  BY <1>1, <1>3, <1>4 DEF CleanupInv, ActsOnce, Cleanup!CleanupActsOnce
<1>9. /\ \A i \in DOMAIN requests' :
            requests'[i].status = "completed" /\ requests'[i].action \in Cleanup!Effects
                => calls'[i] = 1 /\ requests'[i].action \in undone'
      /\ \A effect \in Cleanup!Effects :
            artifact'.state = Cleanup!CleanupState[effect] => effect \in undone'
  <2>1. ASSUME NEW i \in DOMAIN requests',
               requests'[i].status = "completed", requests'[i].action \in Cleanup!Effects
        PROVE  calls'[i] = 1 /\ requests'[i].action \in undone'
    <3>1. new.status = "completed" => new.action \notin Cleanup!Effects
      BY DEF new, Cleanup!Effects
    <3>. QED
      BY <3>1, <2>1, <1>1, <1>3, <1>4 DEF CleanupInv, IsOnRecord, Cleanup!CleanupIsOnRecord
  <2>2. \A effect \in Cleanup!Effects :
            Cleanup!CleanupState[effect] # Cleanup!CleanupState["preserve"]
    BY DEF Cleanup!Effects, Cleanup!CleanupState
  <2>. QED
    BY <2>1, <2>2, <1>1, <1>3 DEF CleanupInv, IsOnRecord, Cleanup!CleanupIsOnRecord
<1>10. IsOnRecord'
  BY <1>5, <1>7, <1>8, <1>9, RecordHolds
<1>. QED
  BY <1>5, <1>6, <1>7, <1>8, <1>10 DEF CleanupInv

\* one request changes, but not what it is about
LEMMA RequestMoves ==
    ASSUME CleanupInv, NEW i \in DOMAIN requests, NEW new \in Cleanup!Request,
           new.action = requests[i].action, requests' = [requests EXCEPT ![i] = new]
    PROVE  /\ requests' \in Seq(Cleanup!Request) /\ Len(requests') = Len(requests)
           /\ DOMAIN requests' = DOMAIN requests
           /\ requests'[i] = new
           /\ \A j \in DOMAIN requests \ {i} : requests'[j] = requests[j]
           /\ \A j \in DOMAIN requests : requests'[j].action = requests[j].action
<1>1. requests \in Seq(Cleanup!Request)
  BY DEF CleanupInv, Cleanup!CleanupTypeOK
<1>2. requests' \in Seq(Cleanup!Request)
  BY <1>1, ExceptSeq
<1>. QED
  BY <1>1, <1>2

\* a confirmation that is too late can no longer be given
LEMMA ConfirmationExpired ==
    ASSUME CleanupInv, Cleanup!ConfirmationExpires
    PROVE  CleanupInv'
<1>1. PICK i \in DOMAIN requests : requests' = [requests EXCEPT ![i].fresh = FALSE]
  BY DEF Cleanup!ConfirmationExpires
<1> DEFINE new == [requests[i] EXCEPT !.fresh = FALSE]
<1>2. requests[i] \in Cleanup!Request
  BY DEF CleanupInv, Cleanup!CleanupTypeOK
<1>3. /\ new \in Cleanup!Request
      /\ new.action = requests[i].action /\ new.status = requests[i].status
  BY <1>2 DEF Cleanup!Request
<1>4. requests' = [requests EXCEPT ![i] = new]
  BY <1>1
<1>. HIDE DEF new
<1>5. /\ requests' \in Seq(Cleanup!Request) /\ Len(requests') = Len(requests)
      /\ DOMAIN requests' = DOMAIN requests
      /\ \A j \in DOMAIN requests : /\ requests'[j].action = requests[j].action
                                    /\ requests'[j].status = requests[j].status
  BY <1>3, <1>4, RequestMoves
<1>6. UNCHANGED <<artifact, deciding, undone, calls>>
  BY DEF Cleanup!ConfirmationExpires
<1>7. Cleanup!CleanupTypeOK'
  BY <1>5, <1>6 DEF CleanupInv, Cleanup!CleanupTypeOK
<1>8. DecisionInv'
  <2>1. ASSUME NEW q \in Deciders' PROVE OwnsRequest(q)'
    <3>1. q \in Deciders /\ q \in Processes /\ deciding[q] # Idle /\ OwnsRequest(q)
          /\ Deciders' = Deciders
      BY <1>6 DEF CleanupInv, DecisionInv, Deciders
    <3>. QED
      BY <3>1, <1>5, <1>6, DecisionIsOwned DEF OwnsRequest
  <2>. QED
    BY <2>1 DEF DecisionInv
<1>9. RequestInv'
  BY <1>5, <1>6 DEF CleanupInv, RequestInv
<1>10. ActsOnce'
  BY <1>5, <1>6 DEF CleanupInv, ActsOnce, Cleanup!CleanupActsOnce, Cleanup!CleanupTypeOK, RequestInv
<1>11. IsOnRecord'
  BY <1>5, <1>6 DEF CleanupInv, IsOnRecord, Cleanup!CleanupIsOnRecord
<1>. QED
  BY <1>7, <1>8, <1>9, <1>10, <1>11 DEF CleanupInv

\* the newest request that awaits it is confirmed or rejected
LEMMA CleanupDecided ==
    ASSUME CleanupInv, NEW p \in Processes, NEW action \in Cleanup!Actions,
           NEW approved \in BOOLEAN, Cleanup!Decide(p, action, approved)
    PROVE  CleanupInv'
<1> DEFINE status == IF approved THEN "executing" ELSE "rejected"
<1>1. PICK i \in DOMAIN requests :
        /\ requests[i].status = "awaiting_confirmation" /\ requests[i].action = action
        /\ requests' = [requests EXCEPT ![i].status = status]
        /\ deciding' = IF approved
                         THEN [deciding EXCEPT ![p] = [row |-> i, action |-> action,
                                                       phase |-> "confirmed"]]
                         ELSE deciding
  BY DEF Cleanup!Decide, Cleanup!Awaited
<1> DEFINE new == [requests[i] EXCEPT !.status = status]
           decision == [row |-> i, action |-> action, phase |-> "confirmed"]
<1>2. /\ requests \in Seq(Cleanup!Request) /\ calls \in Seq(Nat)
      /\ Len(calls) = Len(requests) /\ artifact.exists
  BY <1>1 DEF CleanupInv, Cleanup!CleanupTypeOK, RequestInv
<1>3. /\ new \in Cleanup!Request /\ new.action = action /\ new.status = status
      /\ requests' = [requests EXCEPT ![i] = new]
  <2>1. status \in {"executing", "rejected"} /\ requests[i] \in Cleanup!Request
    BY <1>2
  <2>. HIDE DEF status
  <2>2. new \in Cleanup!Request /\ new.action = action /\ new.status = status
    BY <2>1, <1>1 DEF Cleanup!Request, Cleanup!Open
  <2>3. requests' = [requests EXCEPT ![i] = new]
    BY <1>1
  <2>. QED
    BY <2>2, <2>3
<1>4. /\ deciding[p] = Idle /\ UNCHANGED <<artifact, undone, calls>>
  BY DEF Cleanup!Decide
<1>. HIDE DEF new
<1>5. /\ requests' \in Seq(Cleanup!Request) /\ Len(requests') = Len(requests)
      /\ DOMAIN requests' = DOMAIN requests /\ DOMAIN requests = DOMAIN calls
      /\ requests'[i] = new
      /\ \A j \in DOMAIN requests \ {i} : requests'[j] = requests[j]
      /\ \A j \in DOMAIN requests : requests'[j].action = requests[j].action
  <2>1. DOMAIN requests = DOMAIN calls
    BY <1>2
  <2>. QED
    BY <2>1, <1>1, <1>3, RequestMoves
<1>6. calls[i] = 0
  BY <1>1, <1>2, <1>5 DEF CleanupInv, ActsOnce, Cleanup!CleanupActsOnce
<1>7. decision \in Cleanup!Decision /\ decision.row = i
  BY <1>2 DEF Cleanup!Decision
<1>8. /\ \A q \in Processes \ {p} : deciding'[q] = deciding[q]
      /\ approved => deciding'[p] = decision
      /\ ~approved => deciding' = deciding
  BY <1>1 DEF CleanupInv, Cleanup!CleanupTypeOK
<1>9. Cleanup!CleanupTypeOK'
  BY <1>1, <1>4, <1>5, <1>7 DEF CleanupInv, Cleanup!CleanupTypeOK
<1>. HIDE DEF status, decision
<1>10. \A q \in Deciders : deciding[q].row # i
  BY <1>1, <1>2 DEF CleanupInv, DecisionInv, OwnsRequest
<1>11. ASSUME NEW q \in Deciders' PROVE OwnsRequest(q)'
  <2>1. CASE q = p
    <3>1. /\ approved /\ deciding'[p] = decision
          /\ \A r \in Deciders' : r # p => r \in Deciders /\ deciding'[r] = deciding[r]
      BY <2>1, <1>4, <1>8 DEF Deciders
    <3>2. decision.action = action /\ decision.phase = "confirmed" /\ status = "executing"
      BY <3>1 DEF decision, status
    <3>. QED
      BY <2>1, <3>1, <3>2, <1>3, <1>4, <1>5, <1>6, <1>7, <1>10 DEF OwnsRequest
  <2>2. CASE q # p
    <3>1. q \in Deciders /\ deciding'[q] = deciding[q] /\ deciding[q].row \in DOMAIN requests \ {i}
      BY <2>2, <1>2, <1>5, <1>8, <1>10, DecisionIsOwned DEF Deciders
    <3>2. \A r \in Deciders' : deciding'[r].row = deciding[q].row => r = q
      <4> SUFFICES ASSUME NEW r \in Deciders', deciding'[r].row = deciding[q].row
                   PROVE  r = q
        OBVIOUS
      <4>1. CASE r = p /\ approved
        BY <4>1, <3>1, <1>7, <1>8
      <4>2. CASE deciding'[r] = deciding[r]
        BY <4>2, <3>1, DecisionIsOwned DEF Deciders
      <4>. QED
        BY <4>1, <4>2, <1>8 DEF Deciders
    <3>. QED
      BY <3>1, <3>2, <1>4, <1>5 DEF CleanupInv, DecisionInv, OwnsRequest
  <2>. QED
    BY <2>1, <2>2
<1>12. RequestInv'
  BY <1>2, <1>4, <1>5 DEF CleanupInv, RequestInv
<1>13. ActsOnce'
  BY <1>4, <1>5, <1>6 DEF CleanupInv, ActsOnce, Cleanup!CleanupActsOnce
<1>14. IsOnRecord'
  <2>1. status # "completed"
    BY DEF status
  <2>2. \A j \in DOMAIN requests' :
            requests'[j].status = "completed" /\ requests'[j].action \in Cleanup!Effects
                => calls'[j] = 1 /\ requests'[j].action \in undone'
    BY <2>1, <1>2, <1>3, <1>4, <1>5 DEF CleanupInv, IsOnRecord, Cleanup!CleanupIsOnRecord
  <2>3. \A effect \in Cleanup!Effects :
            artifact'.state = Cleanup!CleanupState[effect] => effect \in undone'
    BY <1>2, <1>4 DEF CleanupInv, IsOnRecord, Cleanup!CleanupIsOnRecord
  <2>. QED
    BY <2>2, <2>3, <1>9, <1>12, <1>13, RecordHolds
<1>. QED
  BY <1>9, <1>11, <1>12, <1>13, <1>14 DEF CleanupInv, DecisionInv

\* Google does what the request asks for
LEMMA GoogleCalled ==
    ASSUME CleanupInv, NEW p \in Processes, Cleanup!CallGoogle(p)
    PROVE  CleanupInv'
<1> DEFINE i == deciding[p].row
           effect == deciding[p].action
<1>1. /\ deciding[p] # Idle /\ deciding[p].phase = "authorized" /\ p \in Deciders
      /\ undone' = undone \cup {effect}
      /\ calls' = [calls EXCEPT ![i] = @ + 1]
      /\ UNCHANGED <<artifact, requests>>
  BY DEF Cleanup!CallGoogle, Cleanup!DecidingIn, Deciders
<1>2. PICK phase \in {"done", "failed"} : Cleanup!Becomes(p, phase)
  BY DEF Cleanup!CallGoogle
<1>3. /\ OwnsRequest(p) /\ deciding[p] \in Cleanup!Decision
      /\ artifact.exists => i \in DOMAIN requests
  BY <1>1, DecisionIsOwned DEF CleanupInv, DecisionInv
<1>4. /\ i \in DOMAIN calls /\ calls[i] = 0 /\ effect \in Cleanup!Effects
      /\ calls \in Seq(Nat)
  BY <1>1, <1>3 DEF OwnsRequest, CleanupInv, Cleanup!CleanupTypeOK
<1>5. /\ deciding'[p] = [deciding[p] EXCEPT !.phase = phase]
      /\ \A q \in Processes \ {p} : deciding'[q] = deciding[q]
  BY <1>2 DEF Cleanup!Becomes, CleanupInv, Cleanup!CleanupTypeOK
<1>6. /\ deciding'[p] \in Cleanup!Decision
      /\ deciding'[p].row = i /\ deciding'[p].action = effect /\ deciding'[p].phase = phase
  BY <1>3, <1>5 DEF Cleanup!Decision
<1>7. /\ calls' \in Seq(Nat) /\ Len(calls') = Len(calls) /\ DOMAIN calls' = DOMAIN calls
      /\ calls'[i] = 1 /\ \A j \in DOMAIN calls \ {i} : calls'[j] = calls[j]
  <2>1. calls' = [calls EXCEPT ![i] = 1]
    BY <1>1, <1>4
  <2>2. calls' \in Seq(Nat)
    BY <2>1, <1>4, ExceptSeq
  <2>. QED
    BY <2>1, <2>2, <1>4
<1>8. Cleanup!CleanupTypeOK'
  BY <1>1, <1>2, <1>4, <1>6, <1>7
  DEF Cleanup!Becomes, CleanupInv, Cleanup!CleanupTypeOK
<1>9. Deciders' \subseteq Deciders
  BY <1>1, <1>5 DEF Deciders
<1>. HIDE DEF i, effect
<1>10. ASSUME NEW q \in Deciders' PROVE OwnsRequest(q)'
  <2>1. \A r \in Deciders' : deciding'[r].row = deciding[r].row
    BY <1>5, <1>6 DEF Deciders, i
  <2>2. CASE q = p
    BY <2>1, <2>2, <1>1, <1>2, <1>3, <1>4, <1>6, <1>7, <1>9 DEF OwnsRequest, i, effect
  <2>3. CASE q # p
    <3>1. q \in Deciders /\ deciding'[q] = deciding[q] /\ OwnsRequest(q)
      BY <2>3, <1>5, <1>9 DEF Deciders, CleanupInv, DecisionInv
    <3>2. deciding[q].row # i
      BY <3>1, <2>3, <1>1, <1>3 DEF OwnsRequest, i
    <3>. QED
      BY <3>1, <3>2, <2>1, <1>1, <1>7, <1>9 DEF OwnsRequest
  <2>. QED
    BY <2>2, <2>3
<1>11. artifact.exists => requests[i].status = "executing" /\ requests[i].action = effect
  BY <1>3 DEF OwnsRequest, i, effect
<1>12. RequestInv'
  BY <1>1, <1>3, <1>4, <1>7, <1>11 DEF CleanupInv, RequestInv
<1>13. ActsOnce'
  BY <1>1, <1>7, <1>11 DEF CleanupInv, ActsOnce, Cleanup!CleanupActsOnce
<1>14. IsOnRecord'
  <2>1. ASSUME artifact'.exists
        PROVE  /\ \A j \in DOMAIN requests' :
                    requests'[j].status = "completed" /\ requests'[j].action \in Cleanup!Effects
                        => calls'[j] = 1 /\ requests'[j].action \in undone'
               /\ \A action \in Cleanup!Effects :
                    artifact'.state = Cleanup!CleanupState[action] => action \in undone'
    <3>1. DOMAIN requests = DOMAIN calls
      BY <2>1, <1>1 DEF CleanupInv, RequestInv, Cleanup!CleanupTypeOK
    <3>. QED
      BY <3>1, <2>1, <1>1, <1>7, <1>11 DEF CleanupInv, IsOnRecord, Cleanup!CleanupIsOnRecord
  <2>. QED
    BY <2>1, <1>8, <1>12, <1>13, RecordHolds
<1>. QED
  BY <1>8, <1>10, <1>12, <1>13, <1>14 DEF CleanupInv, DecisionInv

\* decisions that end, or never were: what the others decide stays theirs
LEMMA DecisionEnds ==
    ASSUME CleanupInv, NEW p \in Processes,
           deciding' = [deciding EXCEPT ![p] = Idle], UNCHANGED <<undone, calls>>,
           artifact'.exists = artifact.exists,
           artifact.exists => \A q \in Deciders \ {p} :
               requests'[deciding[q].row] = requests[deciding[q].row]
    PROVE  /\ DecisionInv' /\ deciding' \in [Processes -> {Idle} \cup Cleanup!Decision]
<1>1. /\ \A q \in Processes \ {p} : deciding'[q] = deciding[q]
      /\ deciding'[p] = Idle
      /\ deciding' \in [Processes -> {Idle} \cup Cleanup!Decision]
  BY DEF CleanupInv, Cleanup!CleanupTypeOK
<1>2. Deciders' = Deciders \ {p}
  BY <1>1 DEF Deciders
<1>3. ASSUME NEW q \in Deciders' PROVE OwnsRequest(q)'
  <2>1. q \in Deciders \ {p} /\ OwnsRequest(q)
    BY <1>2 DEF CleanupInv, DecisionInv
  <2>2. \A r \in Deciders' : r \in Deciders /\ deciding'[r] = deciding[r]
    BY <1>1, <1>2 DEF Deciders
  <2>. QED
    BY <2>1, <2>2 DEF OwnsRequest
<1>. QED
  BY <1>1, <1>3 DEF DecisionInv

\* the outcome is written over the request, and the artifact
LEMMA CleanupFinished ==
    ASSUME CleanupInv, NEW p \in Processes, Cleanup!Finish(p)
    PROVE  CleanupInv'
<1> DEFINE i == deciding[p].row
           phase == deciding[p].phase
           done == phase = "done"
           status == IF done THEN "completed" ELSE phase
<1>1. /\ deciding[p] # Idle /\ phase \in {"done", "failed", "manual_required"}
      /\ deciding' = [deciding EXCEPT ![p] = Idle]
      /\ UNCHANGED <<undone, calls>> /\ p \in Deciders
  BY DEF Cleanup!Finish, Deciders
<1>2. CASE ~artifact.exists
  <2>1. UNCHANGED <<requests, artifact>>
    BY <1>2 DEF Cleanup!Finish
  <2>2. DecisionInv' /\ deciding' \in [Processes -> {Idle} \cup Cleanup!Decision]
    BY <2>1, <1>1, <1>2, DecisionEnds
  <2>. QED
    BY <2>1, <2>2, <1>1
    DEF CleanupInv, Cleanup!CleanupTypeOK, RequestInv, ActsOnce, Cleanup!CleanupActsOnce,
        IsOnRecord, Cleanup!CleanupIsOnRecord
<1>3. CASE artifact.exists
  <2> DEFINE new == [requests[i] EXCEPT !.status = status]
  <2>1. /\ requests' = [requests EXCEPT ![i] = new]
        /\ artifact' = IF done THEN [artifact EXCEPT !.state =
                                         Cleanup!CleanupState[deciding[p].action]]
                               ELSE artifact
    BY <1>3 DEF Cleanup!Finish
  <2>2. /\ i \in DOMAIN requests /\ requests[i] \in Cleanup!Request
        /\ requests[i].action = deciding[p].action /\ OwnsRequest(p)
        /\ deciding[p] \in Cleanup!Decision
        /\ DOMAIN requests = DOMAIN calls
    BY <1>1, <1>3, DecisionIsOwned
    DEF CleanupInv, DecisionInv, RequestInv, Cleanup!CleanupTypeOK
  <2>3. new \in Cleanup!Request /\ new.action = requests[i].action /\ new.status = status
    <3>1. status \in {"completed", "failed", "manual_required"}
      BY <1>1
    <3>. HIDE DEF status
    <3>. QED
      BY <2>2, <3>1 DEF Cleanup!Request
  <2>. HIDE DEF new
  <2>4. /\ requests' \in Seq(Cleanup!Request) /\ Len(requests') = Len(requests)
        /\ DOMAIN requests' = DOMAIN requests
        /\ requests'[i] = new
        /\ \A j \in DOMAIN requests \ {i} : requests'[j] = requests[j]
        /\ \A j \in DOMAIN requests : requests'[j].action = requests[j].action
    BY <2>1, <2>2, <2>3, RequestMoves
  <2>5. /\ artifact' \in [exists : BOOLEAN,
                          state : {Cleanup!CleanupState[a] : a \in Cleanup!Actions}]
        /\ artifact'.exists
        /\ ~done => artifact' = artifact
        /\ done => artifact'.state = Cleanup!CleanupState[deciding[p].action]
    <3>1. deciding[p].action \in Cleanup!Actions
      BY <2>2 DEF Cleanup!Decision
    <3>. QED
      BY <3>1, <2>1, <1>3 DEF CleanupInv, Cleanup!CleanupTypeOK
  <2>6. DecisionInv' /\ deciding' \in [Processes -> {Idle} \cup Cleanup!Decision]
    <3>1. ASSUME NEW q \in Deciders \ {p}
          PROVE  requests'[deciding[q].row] = requests[deciding[q].row]
      <4>1. deciding[q].row \in DOMAIN requests \ {i}
        BY <1>1, <1>3, <2>2, DecisionIsOwned DEF Deciders
      <4>. QED
        BY <4>1, <2>4
    <3>. QED
      BY <3>1, <1>1, <1>3, <2>5, DecisionEnds
  <2>7. Cleanup!CleanupTypeOK'
    BY <1>1, <2>4, <2>5, <2>6 DEF CleanupInv, Cleanup!CleanupTypeOK
  <2>8. RequestInv'
    BY <1>1, <1>3, <2>4, <2>5 DEF CleanupInv, RequestInv
  <2>9. ActsOnce'
    <3>1. calls[i] = 1 => status \in {"completed", "failed"}
      BY <1>1, <2>2 DEF OwnsRequest
    <3>. HIDE DEF status
    <3>. QED
      BY <3>1, <1>1, <1>3, <2>2, <2>3, <2>4, <2>5
      DEF CleanupInv, ActsOnce, Cleanup!CleanupActsOnce
  <2>10. \A j \in DOMAIN requests' :
            requests'[j].status = "completed" /\ requests'[j].action \in Cleanup!Effects
                => calls'[j] = 1 /\ requests'[j].action \in undone'
    <3>1. ASSUME status = "completed", deciding[p].action \in Cleanup!Effects
          PROVE  calls[i] = 1 /\ deciding[p].action \in undone
      BY <3>1, <1>1, <2>2 DEF OwnsRequest
    <3>. HIDE DEF status
    <3>. QED
      BY <3>1, <1>1, <1>3, <2>2, <2>3, <2>4
      DEF CleanupInv, IsOnRecord, Cleanup!CleanupIsOnRecord
  <2>11. \A effect \in Cleanup!Effects :
            artifact'.state = Cleanup!CleanupState[effect] => effect \in undone'
    <3>1. CASE ~done
      BY <3>1, <1>1, <1>3, <2>5 DEF CleanupInv, IsOnRecord, Cleanup!CleanupIsOnRecord
    <3>2. CASE done
      <4>1. deciding[p].action \in Cleanup!Effects => deciding[p].action \in undone
        BY <3>2, <2>2 DEF OwnsRequest
      <4>2. \A a \in Cleanup!Actions, effect \in Cleanup!Effects :
                Cleanup!CleanupState[a] = Cleanup!CleanupState[effect] => a = effect
        BY DEF Cleanup!Actions, Cleanup!Effects, Cleanup!CleanupState
      <4>3. deciding[p].action \in Cleanup!Actions
        BY <2>2 DEF Cleanup!Decision
      <4>. HIDE DEF done, phase
      <4>. QED
        BY <3>2, <4>1, <4>2, <4>3, <2>5, <1>1
    <3>. QED
      BY <3>1, <3>2
  <2>12. IsOnRecord'
    BY <2>7, <2>8, <2>9, <2>10, <2>11, RecordHolds
  <2>. QED
    BY <2>6, <2>7, <2>8, <2>9, <2>12 DEF CleanupInv
<1>. QED
  BY <1>2, <1>3

\* a process goes, or the account and with it the rows
LEMMA CleanupCutShort ==
    ASSUME CleanupInv,
           (\E p \in Processes : Cleanup!Forget(p)) \/ Cleanup!DeleteArtifact
    PROVE  CleanupInv'
<1>1. ASSUME NEW p \in Processes, Cleanup!Forget(p) PROVE CleanupInv'
  <2>1. DecisionInv' /\ deciding' \in [Processes -> {Idle} \cup Cleanup!Decision]
    BY <1>1, DecisionEnds DEF Cleanup!Forget
  <2>. QED
    BY <2>1, <1>1
    DEF Cleanup!Forget, CleanupInv, Cleanup!CleanupTypeOK, RequestInv, ActsOnce,
        Cleanup!CleanupActsOnce, IsOnRecord, Cleanup!CleanupIsOnRecord
<1>2. CASE Cleanup!DeleteArtifact
  <2>1. ~artifact'.exists /\ requests' = <<>> /\ UNCHANGED <<deciding, undone, calls>>
    BY <1>2 DEF Cleanup!DeleteArtifact, CleanupInv, Cleanup!CleanupTypeOK
  <2>2. Cleanup!CleanupTypeOK'
    <3>1. artifact' \in [exists : BOOLEAN,
                          state : {Cleanup!CleanupState[a] : a \in Cleanup!Actions}]
      BY <1>2 DEF Cleanup!DeleteArtifact, CleanupInv, Cleanup!CleanupTypeOK
    <3>2. requests' \in Seq(Cleanup!Request)
      BY <2>1
    <3>. QED
      BY <3>1, <3>2, <2>1 DEF CleanupInv, Cleanup!CleanupTypeOK
  <2>3. DecisionInv'
    BY <2>1 DEF CleanupInv, DecisionInv, OwnsRequest, Deciders
  <2>. QED
    BY <2>1, <2>2, <2>3
    DEF CleanupInv, RequestInv, ActsOnce, Cleanup!CleanupActsOnce,
        IsOnRecord, Cleanup!CleanupIsOnRecord
<1>. QED
  BY <1>1, <1>2

(* The decisions own their requests, and the record is honest, in every    *)
(* reachable state.                                                        *)
THEOREM CleanupInvHolds == DataSpec => []CleanupInv
<1>1. DataInit => CleanupInv
  <2> SUFFICES ASSUME DataInit PROVE CleanupInv
    OBVIOUS
  <2>1. /\ artifact = [exists |-> TRUE, state |-> Cleanup!CleanupState["preserve"]]
        /\ requests = <<>> /\ undone = {} /\ calls = <<>>
        /\ deciding = [p \in Processes |-> Idle]
    BY DEF DataInit, Cleanup!CleanupInit
  <2>2. /\ Cleanup!CleanupTypeOK /\ DecisionInv /\ RequestInv /\ ActsOnce
    BY <2>1
    DEF Cleanup!CleanupTypeOK, Cleanup!Actions, DecisionInv, Deciders, RequestInv,
        ActsOnce, Cleanup!CleanupActsOnce
  <2>3. \A effect \in Cleanup!Effects :
            Cleanup!CleanupState["preserve"] # Cleanup!CleanupState[effect]
    BY DEF Cleanup!Effects, Cleanup!CleanupState
  <2>4. IsOnRecord
    BY <2>1, <2>3 DEF IsOnRecord, Cleanup!CleanupIsOnRecord
  <2>. QED
    BY <2>2, <2>4 DEF CleanupInv
<1>2. CleanupInv /\ [DataNext]_allVars => CleanupInv'
  <2> SUFFICES ASSUME CleanupInv, [DataNext]_allVars PROVE CleanupInv'
    OBVIOUS
  <2>1. CASE UNCHANGED <<artifact, requests, deciding, undone, calls>>
    BY <2>1
    DEF CleanupInv, Cleanup!CleanupTypeOK, DecisionInv, OwnsRequest, Deciders, RequestInv,
        ActsOnce, Cleanup!CleanupActsOnce, IsOnRecord, Cleanup!CleanupIsOnRecord
  <2>2. ASSUME NEW p \in Processes,
               \/ Cleanup!RetryPopulation(p) \/ Cleanup!LoadForCleanup(p)
               \/ Cleanup!SaveForCleanup(p) \/ Cleanup!NeedsAPerson(p)
               \/ Cleanup!GoogleRefuses(p)
        PROVE  CleanupInv'
    <3>1. OwnsRequest(p) /\ p \in Deciders /\ deciding[p] # Idle
      BY <2>2
      DEF Cleanup!RetryPopulation, Cleanup!LoadForCleanup, Cleanup!SaveForCleanup,
          Cleanup!NeedsAPerson, Cleanup!GoogleRefuses, Cleanup!DecidingIn, Deciders,
          CleanupInv, DecisionInv
    <3>2. CASE Cleanup!RetryPopulation(p)
      BY <3>1, <3>2, PhaseMoves DEF Cleanup!RetryPopulation, Cleanup!Effects
    <3>3. CASE Cleanup!LoadForCleanup(p)
      BY <3>1, <3>3, PhaseMoves
      DEF Cleanup!LoadForCleanup, Cleanup!DecidingIn, OwnsRequest
    <3>4. CASE Cleanup!SaveForCleanup(p) \/ Cleanup!NeedsAPerson(p) \/ Cleanup!GoogleRefuses(p)
      BY <3>1, <3>4, PhaseMoves
      DEF Cleanup!SaveForCleanup, Cleanup!NeedsAPerson, Cleanup!GoogleRefuses,
          Cleanup!DecidingIn, OwnsRequest
    <3>. QED
      BY <2>2, <3>2, <3>3, <3>4
  <2>3. CASE CleanupStep
    BY <2>2, <2>3, CleanupRequested, ConfirmationExpired, CleanupDecided, GoogleCalled,
       CleanupFinished
    DEF CleanupStep, Cleanup!CleanupNext
  <2>4. CASE DataNext
    BY <2>1, <2>3, <2>4, CleanupCutShort
    DEF DataNext, IndexOnly, RestartProcess, DeleteAccount
  <2>. QED
    BY <2>1, <2>4 DEF allVars
<1>. QED
  BY <1>1, <1>2, PTL DEF DataSpec

(* Every row, loop and decision of the index and of the cleanups is well   *)
(* formed.                                                                 *)
THEOREM DataTypes == DataSpec => []DataTypeOK
<1>1. TypeInv /\ CleanupInv => DataTypeOK
  BY DEF TypeInv, CleanupInv, DataTypeOK
<1>. QED
  BY <1>1, TypeInvHolds, CleanupInvHolds, PTL

(* A cleanup request calls Google at most once, and never after it was     *)
(* rejected, for any number of processes that decide it                    *)
(* (decide_artifact_cleanup).                                              *)
THEOREM CleanupsActOnce == DataSpec => []ActsOnce
<1>1. CleanupInv => ActsOnce
  BY DEF CleanupInv
<1>. QED
  BY <1>1, CleanupInvHolds, PTL

(* What the cleanup requests and the artifact say happened has happened,   *)
(* and what happened is on record, while the artifact has its row.         *)
THEOREM CleanupsAreOnRecord == DataSpec => []IsOnRecord
<1>1. CleanupInv => IsOnRecord
  BY DEF CleanupInv
<1>. QED
  BY <1>1, CleanupInvHolds, PTL

===============================================================================
