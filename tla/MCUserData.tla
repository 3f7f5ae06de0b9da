------------------------------ MODULE MCUserData ------------------------------
(* Two processes, two users with a source each, that have two versions     *)
(* each: a long one, and a short one with another text or a blank one.     *)
EXTENDS UserData, TLC

CONSTANTS p1, p2, u1, u2, s1, s2, Long, Short, Blank

MCProcesses == {p1, p2}
MCUsers     == {u1, u2}
MCSources   == {s1, s2}
MCOwner     == (s1 :> u1) @@ (s2 :> u2)
MCResults   == {Long, Short, Blank}
MCChunks    == (Long :> {<<1, "a">>, <<2, "b">>}) @@ (Short :> {<<1, "c">>})
               @@ (Blank :> {})
MCReads     == (s1 :> {Long, Short}) @@ (s2 :> {Long, Blank})
MCLegacy    == {<<s1, Long>>}

Bound(result, sync, account, age, failure, fault, cleanup) ==
    [result |-> result, sync |-> sync, account |-> account, age |-> age,
     failure |-> failure, fault |-> fault, cleanup |-> cleanup]

(* A sum of small instances, each with a different thing in plenty.        *)
MCBudgets ==
    {Bound(3, 0, 0, 0, 2, 1, 0),    \* jobs that fail, and lose their worker
     Bound(2, 0, 1, 2, 1, 0, 0),    \* jobs and retention
     Bound(3, 0, 1, 1, 0, 0, 0),    \* chunks that go and come back in between
     Bound(1, 0, 0, 1, 1, 2, 0),    \* a completed job that fails late
     Bound(2, 1, 1, 0, 0, 0, 0),    \* jobs beside a sync
     Bound(1, 1, 2, 0, 0, 0, 0),    \* a sync beside the user who goes
     Bound(0, 1, 1, 0, 1, 1, 0),    \* a sync that fails, and loses its worker
     Bound(0, 2, 0, 0, 0, 1, 0),    \* a late failure of a sync
     Bound(0, 0, 2, 1, 1, 0, 4),    \* cleanups beside the user who goes
     Bound(0, 0, 1, 0, 1, 1, 5)}    \* cleanups that fail, or are cut short
===============================================================================
