------------------------------ MODULE SourceIndex ------------------------------
(***************************************************************************)
(* How what a tool has read becomes searchable: the rows of embedding_jobs *)
(* (app/rag/jobs.py) and of rag_source_sync_jobs (app/rag/user_sync.py),   *)
(* the loops that work them off, the live rows of rag_chunks that          *)
(* index_tool_result writes (app/rag/ingestion.py), the user's Google      *)
(* credentials (app/db/oauth_credentials.py) and what retention and the    *)
(* deletion of an account take away (app/runs/retention.py).               *)
(*                                                                         *)
(* An action is one transaction or one statement.  Every process runs one  *)
(* loop of each kind (app/api/main.py, app/runs/worker_entry.py).  Time is *)
(* abstract: a row that failed is due again at any moment.  What users,    *)
(* budget and time do is bounded by a budget that the initial state picks. *)
(*                                                                         *)
(* Left out: the parent sections, which are written and removed with the   *)
(* chunks; the payload cap, which refuses a result before anything else;   *)
(* and an error of the database inside a handler.                          *)
(***************************************************************************)
EXTENDS Integers, Sequences, FiniteSets

CONSTANTS
    Processes,      \* API and worker processes
    Users,
    Sources,        \* external items that tools read
    Owner,          \* whose account a source belongs to
    Results,        \* what a tool may return for a source
    Chunks,         \* the chunks of a result: pairs of a position and a text;
                    \* none for a blank document or a sheet without rows
    Reads,          \* which results a source may have
    Legacy,         \* pairs of a source and a result whose jobs may have died
                    \* of the timestamp error of an earlier release
    Idle,           \* a loop that has no row
    Ended,          \* a loop whose task has ended with an exception
    MaxAttempts,    \* max_attempts of both tables
    MaxPerUser,     \* max_embedding_jobs_per_user
    MaxGlobal,      \* max_embedding_jobs_global
    Budgets         \* bound: how often each of the Bounded things may happen

Bounded ==
    {"result",      \* a tool answers an agent
     "sync",        \* a user asks for a sync
     "account",     \* a user consents, disconnects or deletes the account's data
     "age",         \* retention finds something old
     "failure",     \* a chunker, an embedder, Google or the database fails
     "fault",       \* a process restarts, or a lease runs out under it
     "cleanup"}     \* a user asks for, or decides on, a cleanup of an artifact

Keys  == {k \in Sources \X Results : k[2] \in Reads[k[1]]}
Texts == UNION {Chunks[r] : r \in Results}

ASSUME SourcesAssumption ==
    /\ Owner \in [Sources -> Users]
    /\ Reads \in [Sources -> SUBSET Results]
    /\ Legacy \subseteq Keys /\ IsFiniteSet(Legacy)

ASSUME ChunksAssumption ==
    \A r \in Results : \A c, d \in Chunks[r] : c[1] = d[1] => c = d

ASSUME LimitsAssumption ==
    /\ MaxAttempts \in Nat \ {0}
    /\ {MaxPerUser, MaxGlobal} \subseteq Nat
    /\ Budgets \subseteq [Bounded -> Nat]

VARIABLES
    jobs,           \* embedding_jobs
    live,           \* rag_chunks with deleted_at IS NULL, for each source
    syncs,          \* rag_source_sync_jobs, those of each user in a sequence
    credentials,    \* users with a row of google_oauth_credentials
    embedding,      \* where embedding_worker_loop of each process is
    syncing,        \* where rag_source_sync_worker_loop of each process is
    budget,         \* bound: what may still happen
    indexed,        \* history variable: for each source, the result with chunks
                    \* that was indexed last
    disturbed,      \* history variable: sources whose last indexing wrote after
                    \* its picture had become stale, or that lost chunks since
    readmitted      \* history variable: jobs that are pending again although
                    \* nobody admitted them again

rowVars   == <<jobs, live, syncs, credentials>>
ghostVars == <<indexed, disturbed, readmitted>>
vars      == <<rowVars, embedding, syncing, budget, ghostVars>>

Spend(thing) ==
    /\ budget[thing] > 0
    /\ budget' = [budget EXCEPT ![thing] = @ - 1]

Pending  == {"queued", "failed", "running"}
Settled  == {"completed", "dead_letter"}

(* known: the row died of the timestamp error that an earlier release had; *)
(* done: it has a completed_at.                                            *)
Absent == [status |-> "absent", attempts |-> 0,
           leased |-> FALSE, known |-> FALSE, done |-> FALSE]
LegacyRow == [Absent EXCEPT !.status = "dead_letter",
                            !.attempts = MaxAttempts, !.known = TRUE]
NewRow == [Absent EXCEPT !.status = "queued"]

PendingJobs    == {k \in Keys : jobs[k].status \in Pending}
PendingOf(u)   == {k \in PendingJobs : Owner[k[1]] = u}

-----------------------------------------------------------------------------
(* enqueue_tool_result: the caps are read and the row is written under one *)
(* advisory lock; a result that has a row already, whatever its status, is *)
(* not written again.                                                      *)
(* Mutant: a full queue takes one more.                                 *)
AdmittedAtTheCap(k) ==
    /\ Cardinality(PendingJobs) <= MaxGlobal
    /\ Cardinality(PendingOf(Owner[k[1]])) <= MaxPerUser
    /\ jobs[k].status = "absent"

Admitted(k) ==
    /\ Cardinality(PendingJobs) < MaxGlobal
    /\ Cardinality(PendingOf(Owner[k[1]])) < MaxPerUser
    /\ jobs[k].status = "absent"

Admit(k) ==
    /\ Admitted(k)
    /\ jobs' = [jobs EXCEPT ![k] = NewRow]
    /\ readmitted' = readmitted \ {k}

Refuse(k) == ~Admitted(k) /\ UNCHANGED <<jobs, readmitted>>

(* A tool has answered an agent: _persist_safely runs beside the agent.    *)
ToolResult(k) ==
    /\ Spend("result")
    /\ Admit(k)
    /\ UNCHANGED <<live, syncs, credentials, embedding, syncing, indexed, disturbed>>

-----------------------------------------------------------------------------
(* The rows that a loop may claim: the queued, the failed that are due, and*)
(* the running whose lease has run out.  No number of attempts excludes a  *)
(* row.                                                                    *)
(* Mutant: a row whose worker went is not claimed again.                *)
ClaimableOnce(row) == row.status \in {"queued", "failed"}

Claimable(row) ==
    \/ row.status \in {"queued", "failed"}
    \/ row.status = "running" /\ ~row.leased

ClaimedRow(row) ==
    [row EXCEPT !.status = "running", !.attempts = @ + 1, !.leased = TRUE]

CompletedRow(row) ==
    [row EXCEPT !.status = "completed", !.leased = FALSE, !.done = TRUE]

(* Mutant: a status that the table does not have.                       *)
FailedRowMisnamed(row, attempt) ==
    [row EXCEPT !.status = IF attempt >= MaxAttempts THEN "exhausted" ELSE "failed",
                !.leased = FALSE, !.known = FALSE]

(* The handler decides by the attempt it claimed, not by the row as it is. *)
FailedRow(row, attempt) ==
    [row EXCEPT !.status = IF attempt >= MaxAttempts THEN "dead_letter" ELSE "failed",
                !.leased = FALSE,
                !.known = FALSE]

IsBusy(loop) == loop \notin {Idle, Ended}

Claim(p, k) ==
    /\ embedding[p] = Idle
    /\ Claimable(jobs[k])
    /\ jobs' = [jobs EXCEPT ![k] = ClaimedRow(@)]
    /\ embedding' = [embedding EXCEPT ![p] =
                        [key |-> k, attempt |-> jobs[k].attempts + 1,
                         phase |-> "claimed", seen |-> {}, lost |-> {}]]
    /\ UNCHANGED <<live, syncs, credentials, syncing, budget, ghostVars>>

InPhase(p, phase) == IsBusy(embedding[p]) /\ embedding[p].phase = phase

(* index_tool_result returns when the chunker has found nothing: the job   *)
(* is done, and what the source had indexed stays.                         *)
NothingToIndex(p) ==
    /\ InPhase(p, "claimed")
    /\ Chunks[embedding[p].key[2]] = {}
    /\ embedding' = [embedding EXCEPT ![p].phase = "indexed"]
    /\ UNCHANGED <<rowVars, syncing, budget, ghostVars>>

(* It reads the live chunks on a connection of its own, which it gives back*)
(* before it embeds.                                                       *)
ReadChunks(p) ==
    /\ InPhase(p, "claimed")
    /\ Chunks[embedding[p].key[2]] # {}
    /\ embedding' = [embedding EXCEPT ![p].phase = "embedding",
                                      ![p].seen = live[embedding[p].key[1]]]
    /\ UNCHANGED <<rowVars, syncing, budget, ghostVars>>

Changed(r, seen) == Chunks[r] \ seen
(* Mutant: chunks past the end of a shorter result stay.                *)
RemovedNever(r, seen) == {}

Removed(r, seen) == {c \in seen : \A d \in Chunks[r] : d[1] # c[1]}

(* It returns as well if nothing has changed, unless a section has.        *)
NothingChanged(p) ==
    /\ InPhase(p, "claimed")
    /\ LET s == embedding[p].key[1]
           r == embedding[p].key[2]
       IN  /\ Chunks[r] # {}
           /\ Changed(r, live[s]) = {} /\ Removed(r, live[s]) = {}
           /\ indexed' = [indexed EXCEPT ![s] = {r}]
           /\ disturbed' = disturbed \ {s}
    /\ embedding' = [embedding EXCEPT ![p].phase = "indexed"]
    /\ UNCHANGED <<rowVars, syncing, budget, readmitted>>

(* What the transaction leaves of a source: it writes the changed chunks   *)
(* over their positions and removes the others.                            *)
Rewritten(old, changed, removed) ==
    LET replaced == {c[1] : c \in changed \cup removed}
    IN  {c \in old : c[1] \notin replaced} \cup changed

(* Chunks are written by position and removed by id.  A position keeps its *)
(* id, also when its chunk is removed and comes back, until the deletion of*)
(* the account takes the row.                                              *)
WriteChunks(p) ==
    /\ InPhase(p, "embedding")
    /\ LET s    == embedding[p].key[1]
           r    == embedding[p].key[2]
           seen == embedding[p].seen
           gone == "chunks" \in embedding[p].lost
           removed == IF gone THEN {} ELSE Removed(r, seen)
       IN  /\ live' = [live EXCEPT ![s] = Rewritten(@, Changed(r, seen), removed)]
           /\ indexed' = [indexed EXCEPT ![s] = {r}]
           /\ disturbed' = IF seen = live[s] /\ ~gone THEN disturbed \ {s}
                                                      ELSE disturbed \cup {s}
    /\ embedding' = [embedding EXCEPT ![p].phase = "indexed", ![p].seen = {},
                                      ![p].lost = @ \ {"chunks"}]
    /\ UNCHANGED <<jobs, syncs, credentials, syncing, budget, readmitted>>

(* UPDATE ... WHERE id: a row that retention has deleted stays deleted,    *)
(* whatever has its key now, and nothing asks whether the row is still this*)
(* process's.                                                              *)
RowIsGone(p) ==
    "row" \in embedding[p].lost \/ jobs[embedding[p].key].status = "absent"

SetRow(p, row) ==
    jobs' = IF RowIsGone(p) THEN jobs ELSE [jobs EXCEPT ![embedding[p].key] = row]

Complete(p) ==
    /\ InPhase(p, "indexed")
    /\ SetRow(p, CompletedRow(jobs[embedding[p].key]))
    /\ embedding' = [embedding EXCEPT ![p] = Idle]
    /\ UNCHANGED <<live, syncs, credentials, syncing, budget, ghostVars>>

(* The chunker, the embedder or the database fails, or 90 seconds pass.    *)
Fail(p) ==
    /\ IsBusy(embedding[p])
    /\ Spend("failure")
    /\ LET k == embedding[p].key
       IN  /\ SetRow(p, FailedRow(jobs[k], embedding[p].attempt))
           /\ readmitted' = IF jobs[k].status \in Settled /\ ~RowIsGone(p)
                               THEN readmitted \cup {k} ELSE readmitted
    /\ embedding' = [embedding EXCEPT ![p] = Idle]
    /\ UNCHANGED <<live, syncs, credentials, syncing, indexed, disturbed>>

-----------------------------------------------------------------------------
(* enqueue_user_sync: one active row for a user, which a second request is *)
(* shown instead of a new one.                                             *)
ActiveSyncs(u) == {i \in DOMAIN syncs[u] : syncs[u][i].status \in Pending}

RequestSync(u) ==
    /\ ActiveSyncs(u) = {}
    /\ Spend("sync")
    /\ syncs' = [syncs EXCEPT ![u] = Append(@, NewRow)]
    /\ UNCHANGED <<jobs, live, credentials, embedding, syncing, ghostVars>>

ClaimSync(p, u) ==
    /\ syncing[p] = Idle
    /\ \E i \in DOMAIN syncs[u] :
        /\ Claimable(syncs[u][i])
        /\ syncs' = [syncs EXCEPT ![u][i] = ClaimedRow(@)]
        /\ syncing' = [syncing EXCEPT ![p] =
                          [user |-> u, row |-> i, attempt |-> syncs[u][i].attempts + 1,
                           phase |-> "claimed", items |-> {}]]
    /\ UNCHANGED <<jobs, live, credentials, embedding, budget, ghostVars>>

SyncIn(p, phase) == IsBusy(syncing[p]) /\ syncing[p].phase = phase

GoTo(p, phase) == syncing' = [syncing EXCEPT ![p].phase = phase]

(* requeue_timestamp_failed_jobs, if the request asked for it: the jobs are*)
(* pending again without regard to the caps.                               *)
Requeue(p) ==
    /\ SyncIn(p, "claimed")
    /\ LET again == {k \in Keys : /\ Owner[k[1]] = syncing[p].user
                                  /\ jobs[k].status = "dead_letter"
                                  /\ jobs[k].known}
       IN  /\ again # {}
           /\ jobs' = [k \in Keys |-> IF k \in again THEN [Absent EXCEPT !.status = "failed"]
                                                     ELSE jobs[k]]
           /\ readmitted' = readmitted \cup again
    /\ GoTo(p, "requeued")
    /\ UNCHANGED <<live, syncs, credentials, embedding, budget, indexed, disturbed>>

(* The collectors read every source before the first item is enqueued.     *)
OneResultEach(items) == \A k, l \in items : k[1] = l[1] => k = l

Collect(p) ==
    \E items \in SUBSET {k \in Keys : Owner[k[1]] = syncing[p].user} :
        /\ OneResultEach(items)
        /\ syncing' = [syncing EXCEPT ![p].phase = "collected", ![p].items = items]

(* load_google_credentials: an access token that has expired is refreshed  *)
(* at Google before anything is read.                                      *)
LoadCredentials(p) ==
    /\ SyncIn(p, "claimed") \/ SyncIn(p, "requeued")
    /\ syncing[p].user \in credentials
    /\ Collect(p) \/ GoTo(p, "refreshing")
    /\ UNCHANGED <<rowVars, embedding, budget, ghostVars>>

(* ... and the answer is saved with the statement that the consent uses,   *)
(* which inserts the row if there is none.                                 *)
SaveRefreshed(p) ==
    /\ SyncIn(p, "refreshing")
    /\ credentials' = credentials \cup {syncing[p].user}
    /\ Collect(p)
    /\ UNCHANGED <<jobs, live, syncs, embedding, budget, ghostVars>>

(* An item that is not accepted is counted as skipped.                     *)
EnqueueItem(p) ==
    /\ SyncIn(p, "collected")
    /\ \E k \in syncing[p].items :
        /\ Admit(k) \/ Refuse(k)
        /\ syncing' = [syncing EXCEPT ![p].items = @ \ {k}]
    /\ UNCHANGED <<live, syncs, credentials, embedding, budget, indexed, disturbed>>

(* A row that ends is the subject of an UPDATE by id here too, and a late  *)
(* failure may make an ended row active again.                             *)
SyncRow(p) == syncs[syncing[p].user][syncing[p].row]

CompleteSync(p) ==
    /\ SyncIn(p, "collected")
    /\ syncing[p].items = {}
    /\ syncs' = [syncs EXCEPT ![syncing[p].user][syncing[p].row] = CompletedRow(@)]
    /\ syncing' = [syncing EXCEPT ![p] = Idle]
    /\ UNCHANGED <<jobs, live, credentials, embedding, budget, ghostVars>>

(* Without credentials, or with a scope that was not granted, a sync fails.*)
Unauthorized(p) ==
    /\ SyncIn(p, "claimed") \/ SyncIn(p, "requeued")
    /\ syncing[p].user \notin credentials

(* The unique index refuses a second active row: the error leaves the      *)
(* handler, and with it the loop.                                          *)
FailSync(p) ==
    /\ IsBusy(syncing[p])
    /\ IF Unauthorized(p) THEN UNCHANGED budget ELSE Spend("failure")
    /\ LET u      == syncing[p].user
           failed == FailedRow(SyncRow(p), syncing[p].attempt)
           second == /\ failed.status \in Pending
                     /\ ActiveSyncs(u) \ {syncing[p].row} # {}
       IN  IF second
             THEN /\ syncing' = [syncing EXCEPT ![p] = Ended]
                  /\ UNCHANGED syncs
             ELSE /\ syncing' = [syncing EXCEPT ![p] = Idle]
                  /\ syncs' = [syncs EXCEPT ![u][syncing[p].row] = failed]
    /\ UNCHANGED <<jobs, live, credentials, embedding, ghostVars>>

-----------------------------------------------------------------------------
(* Leases and processes.                                                   *)

WorksOnJob(p, k) ==
    IsBusy(embedding[p]) /\ embedding[p].key = k /\ "row" \notin embedding[p].lost

(* No process works on the row any more: 2 and 12 minutes pass.            *)
JobLeaseEnds(k) ==
    /\ jobs[k].status = "running" /\ jobs[k].leased
    /\ \A p \in Processes : ~WorksOnJob(p, k)
    /\ jobs' = [jobs EXCEPT ![k].leased = FALSE]
    /\ UNCHANGED <<live, syncs, credentials, embedding, syncing, budget, ghostVars>>

WorksOnSync(p, u, i) ==
    IsBusy(syncing[p]) /\ syncing[p].user = u /\ syncing[p].row = i

SyncLeaseEnds(u) ==
    /\ \E i \in DOMAIN syncs[u] :
        /\ syncs[u][i].status = "running" /\ syncs[u][i].leased
        /\ \A p \in Processes : ~WorksOnSync(p, u, i)
        /\ syncs' = [syncs EXCEPT ![u][i].leased = FALSE]
    /\ UNCHANGED <<jobs, live, credentials, embedding, syncing, budget, ghostVars>>

(* The same under a process whose loop, or whose connection, is held up.   *)
LeaseLapses ==
    /\ Spend("fault")
    /\ \/ \E k \in Keys :
            /\ jobs[k].status = "running" /\ jobs[k].leased
            /\ \E p \in Processes : WorksOnJob(p, k)
            /\ jobs' = [jobs EXCEPT ![k].leased = FALSE]
            /\ UNCHANGED syncs
       \/ \E u \in Users : \E i \in DOMAIN syncs[u] :
            /\ syncs[u][i].status = "running" /\ syncs[u][i].leased
            /\ \E p \in Processes : WorksOnSync(p, u, i)
            /\ syncs' = [syncs EXCEPT ![u][i].leased = FALSE]
            /\ UNCHANGED jobs
    /\ UNCHANGED <<live, credentials, embedding, syncing, ghostVars>>

(* A process goes, with both its loops, and starts again.                  *)
Restart(p) ==
    /\ Spend("fault")
    /\ embedding' = [embedding EXCEPT ![p] = Idle]
    /\ syncing' = [syncing EXCEPT ![p] = Idle]
    /\ UNCHANGED <<rowVars, ghostVars>>

-----------------------------------------------------------------------------
(* The user and retention.                                                 *)

(* google_callback                                                         *)
Consent(u) ==
    /\ u \notin credentials
    /\ Spend("account")
    /\ credentials' = credentials \cup {u}
    /\ UNCHANGED <<jobs, live, syncs, embedding, syncing, ghostVars>>

(* disconnect_google                                                       *)
Disconnect(u) ==
    /\ u \in credentials
    /\ Spend("account")
    /\ credentials' = credentials \ {u}
    /\ UNCHANGED <<jobs, live, syncs, embedding, syncing, ghostVars>>

OwnedBy(u) == {s \in Sources : Owner[s] = u}

(* What a loop still names by id is deleted under it.                      *)
Lose(p, what) == [embedding[p] EXCEPT !.lost = @ \cup {what}]

(* delete_user_data: neither the embedding jobs nor the sync requests go.  *)
DeleteUserData(u) ==
    /\ Spend("account")
    /\ live' = [s \in Sources |-> IF s \in OwnedBy(u) THEN {} ELSE live[s]]
    /\ credentials' = credentials \ {u}
    /\ indexed' = [s \in Sources |-> IF s \in OwnedBy(u) THEN {} ELSE indexed[s]]
    /\ disturbed' = disturbed \ OwnedBy(u)
    /\ embedding' = [p \in Processes |->
                        IF InPhase(p, "embedding") /\ embedding[p].key[1] \in OwnedBy(u)
                          THEN Lose(p, "chunks") ELSE embedding[p]]
    /\ UNCHANGED <<jobs, syncs, syncing, readmitted>>

(* apply_retention: a job 14 days after it was completed, whatever became  *)
(* of it since; a chunk 90 days after it was last written, though the      *)
(* source was read since and had not changed.                              *)
ExpireJob(k) ==
    /\ jobs[k].done
    /\ Spend("age")
    /\ jobs' = [jobs EXCEPT ![k] = Absent]
    /\ embedding' = [p \in Processes |-> IF WorksOnJob(p, k) THEN Lose(p, "row")
                                                            ELSE embedding[p]]
    /\ UNCHANGED <<live, syncs, credentials, syncing, ghostVars>>

ExpireChunks(s) ==
    /\ Spend("age")
    /\ \E old \in SUBSET live[s] \ {{}} : live' = [live EXCEPT ![s] = @ \ old]
    /\ disturbed' = disturbed \cup {s}
    /\ UNCHANGED <<jobs, syncs, credentials, embedding, syncing, indexed, readmitted>>

-----------------------------------------------------------------------------
Init ==
    /\ \E dead \in SUBSET Legacy :
        jobs = [k \in Keys |-> IF k \in dead THEN LegacyRow ELSE Absent]
    /\ live = [s \in Sources |-> {}]
    /\ syncs = [u \in Users |-> <<>>]
    /\ credentials = {}
    /\ embedding = [p \in Processes |-> Idle]
    /\ syncing = [p \in Processes |-> Idle]
    /\ budget \in Budgets
    /\ indexed = [s \in Sources |-> {}]
    /\ disturbed = {}
    /\ readmitted = {}

EmbeddingStep(p) ==
    \/ NothingToIndex(p) \/ ReadChunks(p) \/ NothingChanged(p)
    \/ WriteChunks(p) \/ Complete(p) \/ Fail(p)

SyncStep(p) ==
    \/ Requeue(p) \/ LoadCredentials(p) \/ SaveRefreshed(p)
    \/ EnqueueItem(p) \/ CompleteSync(p) \/ FailSync(p)

IndexNext ==
    \/ \E p \in Processes :
        \/ EmbeddingStep(p)
        \/ SyncStep(p)
        \/ \E k \in Keys : Claim(p, k)
        \/ \E u \in Users : ClaimSync(p, u)
    \/ \E k \in Keys : ToolResult(k) \/ JobLeaseEnds(k) \/ ExpireJob(k)
    \/ \E s \in Sources : ExpireChunks(s)
    \/ \E u \in Users :
        RequestSync(u) \/ SyncLeaseEnds(u) \/ Consent(u) \/ Disconnect(u)
    \/ LeaseLapses

Next ==
    \/ IndexNext
    \/ \E p \in Processes : Restart(p)
    \/ \E u \in Users : DeleteUserData(u)

Spec == Init /\ [][Next]_vars

(* Some loop that can go on with its row, or take one that is due, does so;*)
(* and a lease without a worker runs out.                                  *)
Fairness ==
    /\ WF_vars(\E p \in Processes : EmbeddingStep(p) \/ \E k \in Keys : Claim(p, k))
    /\ WF_vars(\E p \in Processes : SyncStep(p) \/ \E u \in Users : ClaimSync(p, u))
    /\ WF_vars((\E k \in Keys : JobLeaseEnds(k)) \/ \E u \in Users : SyncLeaseEnds(u))

FairSpec == Spec /\ Fairness

-----------------------------------------------------------------------------
RowType ==
    [status : {"absent"} \cup Pending \cup Settled,
     attempts : Nat, leased : BOOLEAN, known : BOOLEAN, done : BOOLEAN]

(* What a loop holds while it works on a row.                              *)
EmbeddingWork ==
    [key : Keys, attempt : Nat \ {0},
     phase : {"claimed", "embedding", "indexed"},
     seen : SUBSET Texts, lost : SUBSET {"chunks", "row"}]

SyncWork ==
    [user : Users, row : Nat \ {0}, attempt : Nat \ {0},
     phase : {"claimed", "requeued", "refreshing", "collected"},
     items : SUBSET Keys]

(* Every table and loop is well formed.  No column stops a row from being  *)
(* claimed for ever: a row whose worker goes is claimed once more for each *)
(* process that fails.                                                     *)
TypeOK ==
    /\ jobs \in [Keys -> RowType]
    /\ live \in [Sources -> SUBSET Texts]
    /\ syncs \in [Users -> Seq(RowType)]
    /\ credentials \subseteq Users
    /\ embedding \in [Processes -> {Idle} \cup EmbeddingWork]
    /\ syncing \in [Processes -> {Idle, Ended} \cup SyncWork]
    /\ budget \in [Bounded -> Nat]
    /\ indexed \in [Sources -> {{}} \cup {{r} : r \in Results}]
    /\ disturbed \subseteq Sources
    /\ readmitted \subseteq Keys

(* The live chunks of a source are those of one result, the last one that  *)
(* had chunks, although an indexing writes only the difference to what it  *)
(* read before it embedded: unless the write came after the picture was    *)
(* stale, or retention took chunks.  The next undisturbed one mends it.  A *)
(* result without chunks is no such result: what the source said before it *)
(* was emptied stays.                                                      *)
IndexIsOneResult ==
    \A s \in Sources \ disturbed : live[s] = UNION {Chunks[r] : r \in indexed[s]}

(* The durable caps hold for what was admitted, whichever loop or request  *)
(* admits: what exceeds them came back by a requeue, or by the failure of  *)
(* a worker that had lost its row.                                         *)
AdmissionHolds ==
    /\ Cardinality(PendingJobs \ readmitted) <= MaxGlobal
    /\ \A u \in Users : Cardinality(PendingOf(u) \ readmitted) <= MaxPerUser

Drained == PendingJobs = {} /\ \A u \in Users : ActiveSyncs(u) = {}

(* Every admitted job, and every sync that a user asked for, comes to an   *)
(* end: it is completed, dead or deleted, whatever worker it loses.  What  *)
(* users ask for is bounded here, so that the queues drain together.       *)
WorkSettles == []<>Drained
===============================================================================
