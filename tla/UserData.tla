-------------------------------- MODULE UserData --------------------------------
(***************************************************************************)
(* What the service keeps of its users outside their runs: the index of    *)
(* their sources (SourceIndex) and the cleanup of what their runs made     *)
(* (ArtifactCleanup).  The two meet in the credentials, which a loop or a  *)
(* decision may refresh and so write again, in the processes, which a      *)
(* restart stops with everything they do, and in the deletion of an        *)
(* account, one transaction over the tables of both.                       *)
(***************************************************************************)
EXTENDS SourceIndex

CONSTANTS
    User,           \* the user one of whose artifacts may be cleaned up
    ArtifactType, SafeToDelete, PermissionId

ASSUME UserAssumption == User \in Users

ASSUME ArtifactAssumption == {SafeToDelete, PermissionId} \subseteq BOOLEAN

VARIABLES artifact, requests, deciding, undone, calls

Cleanup == INSTANCE ArtifactCleanup

allVars == <<vars, artifact, requests, deciding, undone, calls>>

IndexOnly(step) == step /\ UNCHANGED <<artifact, requests, deciding, undone, calls>>

CleanupStep ==
    /\ Cleanup!CleanupNext
    /\ UNCHANGED <<jobs, live, syncs, embedding, syncing, ghostVars>>

RestartProcess(p) == Restart(p) /\ Cleanup!Forget(p)

DeleteAccount(u) ==
    /\ DeleteUserData(u)
    /\ IF u = User THEN Cleanup!DeleteArtifact
                   ELSE UNCHANGED <<artifact, requests, deciding, undone, calls>>

DataInit == Init /\ Cleanup!CleanupInit

DataNext ==
    \/ IndexOnly(IndexNext)
    \/ CleanupStep
    \/ \E p \in Processes : RestartProcess(p)
    \/ \E u \in Users : DeleteAccount(u)

DataSpec == DataInit /\ [][DataNext]_allVars

(* The fairness of the index alone: nothing drives a decision to its end.  *)
FairDataSpec == DataSpec /\ Fairness

(* Every row, loop and decision has one of the states of its table or of   *)
(* its coroutine.                                                          *)
DataTypeOK == TypeOK /\ Cleanup!CleanupTypeOK

(* A cleanup request acts on Google at most once and never after it was    *)
(* rejected, also when processes restart under a decision and the account  *)
(* goes (decide_artifact_cleanup).                                         *)
ActsOnce == Cleanup!CleanupActsOnce

(* What the cleanup requests and the artifact say happened at Google has   *)
(* happened, and what happened is on record, while the artifact has a row. *)
IsOnRecord == Cleanup!CleanupIsOnRecord
===============================================================================
