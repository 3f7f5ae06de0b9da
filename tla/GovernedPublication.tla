-------------------------- MODULE GovernedPublication --------------------------
(***************************************************************************)
(* What a coding run promises about the outside world, with no worker,     *)
(* lease, retry or crash in sight: plans are shown to the user, the user   *)
(* consents to at most one of them, once and for all, and only a plan with *)
(* consent reaches the repository.                                         *)
(***************************************************************************)
CONSTANT Plans

VARIABLES
    proposed,       \* plans the user has been shown
    consent,        \* the plan the user approved
    published       \* plans that have a branch at GitHub

publicationVars == <<proposed, consent, published>>

PublicationInit ==
    /\ proposed = {}
    /\ consent = {}
    /\ published = {}

Propose(p) ==
    /\ proposed' = proposed \cup {p}
    /\ UNCHANGED <<consent, published>>

Consent(p) ==
    /\ p \in proposed
    /\ consent = {}
    /\ consent' = {p}
    /\ UNCHANGED <<proposed, published>>

Publish(p) ==
    /\ p \in consent
    /\ published' = published \cup {p}
    /\ UNCHANGED <<proposed, consent>>

PublicationNext == \E p \in Plans : Propose(p) \/ Consent(p) \/ Publish(p)

PublicationSpec == PublicationInit /\ [][PublicationNext]_publicationVars
===============================================================================
