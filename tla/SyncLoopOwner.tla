---------------------------- MODULE SyncLoopOwner ----------------------------
(***************************************************************************)
(* What the scheduler promises of its run loops (spec.md 4.3 and its      *)
(* ordering guarantees): the scheduler is Stopped or Running; at most one *)
(* loop instance runs on a live stop signal, its owner; a loop becomes    *)
(* the owner only while the scheduler is Running and no loop owns it; and *)
(* ownership ends only when the stop signal is closed, by Stop or by the  *)
(* stop-then-start of a restart, never by a second loop taking over.      *)
(***************************************************************************)
CONSTANT Loops      \* loop instances; 0 is none of them

VARIABLES
    active,     \* the phase is Running
    owner       \* the loop on the live stop signal, or 0

ovars == <<active, owner>>

OInit == active = FALSE /\ owner = 0

\* Start from Stopped marks the scheduler Running.
Activate ==
    /\ ~active
    /\ active' = TRUE
    /\ UNCHANGED owner

\* The launched loop runs on the live signal.
Acquire(l) ==
    /\ active /\ owner = 0
    /\ owner' = l
    /\ UNCHANGED active

\* Stop, or the first half of a restart, closes the live signal; a restart
\* may leave the scheduler Running.
Close ==
    /\ active
    /\ owner' = 0
    /\ active' \in BOOLEAN

ONext == Activate \/ (\E l \in Loops : Acquire(l)) \/ Close

OSpec == OInit /\ [][ONext]_ovars
=============================================================================
