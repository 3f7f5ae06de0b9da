---------------------------- MODULE ArtifactCleanup ----------------------------
(***************************************************************************)
(* How a user takes back what a run has made: the rows of                  *)
(* artifact_cleanup_requests for one artifact and the two requests of the  *)
(* API that make and decide them (app/api/routes/runs.py).                 *)
(*                                                                         *)
(* Nothing outside changes before the user has confirmed the exact action: *)
(* the confirmation carries a hash of the user, the artifact and the       *)
(* action, so that it names an action and not a row.  An action is one     *)
(* transaction, or one call to Google.                                     *)
(*                                                                         *)
(* Other modules own the credentials and the budget.  What the population  *)
(* of a file is retried with is DurableRun's reconciliation: here it is    *)
(* possible or needs a person.                                             *)
(***************************************************************************)
EXTENDS Integers, Sequences, FiniteSets

CONSTANTS
    Processes,      \* processes of the API, each deciding one request at a time
    User,           \* the owner of the artifact
    ArtifactType,   \* "drive", "docs", "sheets", "calendar", ...
    SafeToDelete,   \* the run has created it
    PermissionId,   \* the metadata name the permission that was given
    Idle            \* a process that decides nothing

Effects == {"delete", "cancel_event", "rollback_sharing"}
Actions == Effects \cup {"preserve", "retry_population"}

CleanupState ==
    [preserve |-> "retained", delete |-> "deleted", cancel_event |-> "cancelled",
     rollback_sharing |-> "sharing_rolled_back",
     retry_population |-> "population_retried"]

Open == {"awaiting_confirmation", "executing"}

VARIABLES
    credentials,    \* users with a row of google_oauth_credentials
    budget,         \* bound: what may still happen
    artifact,       \* agent_artifacts: the row, until the account is deleted
    requests,       \* artifact_cleanup_requests, in the order of requested_at
    deciding,       \* where decide_artifact_cleanup of each process is
    undone,         \* Google: the actions that have taken effect
    calls           \* history variable: calls to Google for each request

cleanupVars == <<artifact, requests, deciding, undone, calls>>

Spend(thing) ==
    /\ budget[thing] > 0
    /\ budget' = [budget EXCEPT ![thing] = @ - 1]

-----------------------------------------------------------------------------
Permitted(action) ==
    /\ action = "delete" => ArtifactType \in {"drive", "docs", "sheets"} /\ SafeToDelete
    /\ action = "cancel_event" => ArtifactType = "calendar"
    /\ action = "rollback_sharing" => ArtifactType = "drive"

(* The unique index: one open request of an action.                        *)
IsOpen(action) ==
    \E i \in DOMAIN requests : requests[i].action = action /\ requests[i].status \in Open

(* request_artifact_cleanup                                                *)
RequestCleanup(action) ==
    /\ artifact.exists
    /\ Permitted(action)
    /\ action # "preserve" => ~IsOpen(action)
    /\ Spend("cleanup")
    /\ requests' = Append(requests,
           [action |-> action, fresh |-> TRUE,
            status |-> IF action = "preserve" THEN "completed"
                                              ELSE "awaiting_confirmation"])
    /\ artifact' = IF action = "preserve"
                     THEN [artifact EXCEPT !.state = CleanupState[action]]
                     ELSE artifact
    /\ calls' = Append(calls, 0)
    /\ UNCHANGED <<credentials, deciding, undone>>

(* 30 minutes pass.                                                        *)
ConfirmationExpires ==
    /\ Spend("age")
    /\ \E i \in DOMAIN requests :
        /\ requests[i].status = "awaiting_confirmation" /\ requests[i].fresh
        /\ requests' = [requests EXCEPT ![i].fresh = FALSE]
    /\ UNCHANGED <<credentials, artifact, deciding, undone, calls>>

(* The request that a decision is about: the newest that awaits one.       *)
(* Mutant: the newest request, whatever its status.                     *)
LastRequest ==
    {i \in DOMAIN requests : i = Len(requests)}

Awaited ==
    {i \in DOMAIN requests :
        /\ requests[i].status = "awaiting_confirmation"
        /\ \A j \in DOMAIN requests :
            requests[j].status = "awaiting_confirmation" => j <= i}

(* decide_artifact_cleanup, its transaction.  The row that has expired is  *)
(* marked rejected, but the error that follows rolls the mark back: such a *)
(* decision changes nothing.                                               *)
Decide(p, action, approved) ==
    /\ deciding[p] = Idle
    /\ \E i \in Awaited :
        /\ requests[i].action = action
        /\ requests[i].fresh
        /\ Spend("cleanup")
        /\ requests' = [requests EXCEPT ![i].status =
                           IF approved THEN "executing" ELSE "rejected"]
        /\ deciding' = IF approved
                         THEN [deciding EXCEPT ![p] = [row |-> i, action |-> action,
                                                       phase |-> "confirmed"]]
                         ELSE deciding
    /\ UNCHANGED <<credentials, artifact, undone, calls>>

-----------------------------------------------------------------------------
(* ... and what it does after the transaction.                             *)
DecidingIn(p, phase) == deciding[p] # Idle /\ deciding[p].phase = phase

Becomes(p, phase) == deciding' = [deciding EXCEPT ![p].phase = phase]

RetryPopulation(p) ==
    /\ DecidingIn(p, "confirmed")
    /\ deciding[p].action = "retry_population"
    /\ Becomes(p, "done") \/ Becomes(p, "failed")
    /\ UNCHANGED <<credentials, budget, artifact, requests, undone, calls>>

LoadForCleanup(p) ==
    /\ DecidingIn(p, "confirmed")
    /\ deciding[p].action \in Effects
    /\ IF User \in credentials THEN Becomes(p, "authorized") \/ Becomes(p, "refreshing")
                               ELSE Becomes(p, "failed")
    /\ UNCHANGED <<credentials, budget, artifact, requests, undone, calls>>

SaveForCleanup(p) ==
    /\ DecidingIn(p, "refreshing")
    /\ credentials' = credentials \cup {User}
    /\ Becomes(p, "authorized")
    /\ UNCHANGED <<budget, artifact, requests, undone, calls>>

Unnamed(p) == deciding[p].action = "rollback_sharing" /\ ~PermissionId

(* The call to Google, which may be refused, or whose answer may be lost.  *)
NeedsAPerson(p) ==
    /\ DecidingIn(p, "authorized")
    /\ Unnamed(p)
    /\ Becomes(p, "manual_required")
    /\ UNCHANGED <<credentials, budget, artifact, requests, undone, calls>>

CallGoogle(p) ==
    /\ DecidingIn(p, "authorized")
    /\ ~Unnamed(p)
    /\ undone' = undone \cup {deciding[p].action}
    /\ calls' = [calls EXCEPT ![deciding[p].row] = @ + 1]
    /\ \/ Becomes(p, "done") /\ UNCHANGED budget
       \/ Becomes(p, "failed") /\ Spend("failure")
    /\ UNCHANGED <<credentials, artifact, requests>>

(* Mutant: the answer of Google is not looked at.                       *)
GoogleRefusesUnseen(p) ==
    /\ DecidingIn(p, "authorized")
    /\ ~Unnamed(p)
    /\ Spend("failure")
    /\ Becomes(p, "done")
    /\ UNCHANGED <<credentials, artifact, requests, undone, calls>>

GoogleRefuses(p) ==
    /\ DecidingIn(p, "authorized")
    /\ ~Unnamed(p)
    /\ Spend("failure")
    /\ Becomes(p, "failed")
    /\ UNCHANGED <<credentials, artifact, requests, undone, calls>>

(* The rows are updated by id: those of a deleted account are gone.        *)
Finish(p) ==
    /\ deciding[p] # Idle
    /\ deciding[p].phase \in {"done", "failed", "manual_required"}
    /\ IF ~artifact.exists
         THEN UNCHANGED <<requests, artifact>>
         ELSE LET done == deciding[p].phase = "done"
              IN  /\ requests' = [requests EXCEPT ![deciding[p].row].status =
                                     IF done THEN "completed" ELSE deciding[p].phase]
                  /\ artifact' = IF done
                       THEN [artifact EXCEPT !.state = CleanupState[deciding[p].action]]
                       ELSE artifact
    /\ deciding' = [deciding EXCEPT ![p] = Idle]
    /\ UNCHANGED <<credentials, budget, undone, calls>>

-----------------------------------------------------------------------------
(* What others do to the artifact: the process goes; the account goes, and *)
(* with agent_runs every row that belongs to a run.                        *)
Forget(p) ==
    /\ deciding' = [deciding EXCEPT ![p] = Idle]
    /\ UNCHANGED <<artifact, requests, undone, calls>>

DeleteArtifact ==
    /\ artifact' = [artifact EXCEPT !.exists = FALSE]
    /\ requests' = <<>>
    /\ UNCHANGED <<deciding, undone, calls>>

CleanupInit ==
    /\ artifact = [exists |-> TRUE, state |-> CleanupState["preserve"]]
    /\ requests = <<>>
    /\ deciding = [p \in Processes |-> Idle]
    /\ undone = {}
    /\ calls = <<>>

CleanupNext ==
    \/ \E action \in Actions : RequestCleanup(action)
    \/ ConfirmationExpires
    \/ \E p \in Processes :
        \/ \E action \in Actions, approved \in BOOLEAN : Decide(p, action, approved)
        \/ RetryPopulation(p) \/ LoadForCleanup(p) \/ SaveForCleanup(p)
        \/ NeedsAPerson(p) \/ CallGoogle(p) \/ GoogleRefuses(p) \/ Finish(p)

-----------------------------------------------------------------------------
Request ==
    [action : Actions, fresh : BOOLEAN,
     status : Open \cup {"completed", "rejected", "failed", "manual_required"}]

Decision ==
    [row : Nat \ {0}, action : Actions,
     phase : {"confirmed", "refreshing", "authorized", "done", "failed",
              "manual_required"}]

CleanupTypeOK ==
    /\ artifact \in [exists : BOOLEAN,
                     state : {CleanupState[a] : a \in Actions}]
    /\ requests \in Seq(Request)
    /\ deciding \in [Processes -> {Idle} \cup Decision]
    /\ undone \subseteq Effects
    /\ calls \in Seq(Nat)

(* A request acts on Google at most once, however many confirmations       *)
(* arrive and wherever they are handled, and never after it was rejected.  *)
CleanupActsOnce ==
    \A i \in DOMAIN calls :
        /\ calls[i] <= 1
        /\ artifact.exists /\ calls[i] = 1 =>
               requests[i].status \in {"executing", "completed", "failed"}

(* What the records say happened has happened, and what happened is on     *)
(* record: a completed request has taken effect, an effect has a request   *)
(* that was confirmed and is completed, under way or failed.               *)
CleanupIsOnRecord ==
    artifact.exists =>
        /\ \A i \in DOMAIN requests :
            requests[i].status = "completed" /\ requests[i].action \in Effects
                => calls[i] = 1 /\ requests[i].action \in undone
        /\ \A action \in Effects :
            artifact.state = CleanupState[action] => action \in undone
        /\ \A action \in undone : \E i \in DOMAIN requests :
            /\ requests[i].action = action
            /\ requests[i].status \in {"executing", "completed", "failed"}
===============================================================================
