------------------------ MODULE StoreSchedulerProofs ------------------------
(***************************************************************************)
(* Proofs about the scheduler of package store: with its calls serialized *)
(* (the management handler holds h.mu around UpdateConfig), at most one  *)
(* run loop is ever on an open stop channel, for every bound on the calls.*)
(* The double close, and the loops it leaves behind, are TLC's.            *)
(***************************************************************************)
EXTENDS StoreScheduler, TLAPS

CPCs == {"idle", "start", "stop", "spawn"}

LoopRec == [ch : Nat, pc : LoopPCs, ctx : BOOLEAN]

\* The type invariant, with generations in Nat rather than 0..MaxCalls.
PTypeOK ==
    /\ running \in BOOLEAN /\ wedged \in BOOLEAN
    /\ cfgSet \in BOOLEAN /\ hasStore \in BOOLEAN /\ cfgRO \in BOOLEAN
    /\ stopCh \in Nat
    /\ closed \subseteq Nat
    /\ loops \in [LoopIds -> LoopRec]
    /\ cpc \in CPCs
    /\ calls \in 0..MaxCalls

IInv == PTypeOK /\ StoreInv

LEMMA InitIInv == SInit => IInv
<1> SUFFICES ASSUME SInit PROVE IInv
  OBVIOUS
<1>1. NoLoop \in LoopRec
  BY DEF NoLoop, LoopRec, LoopPCs
<1>2. PTypeOK
  <2>1. loops \in [LoopIds -> LoopRec]
    BY <1>1 DEF SInit
  <2>2. calls \in 0..MaxCalls /\ stopCh \in Nat /\ closed \subseteq Nat
    BY MaxCallsAssumption DEF SInit
  <2>. QED
    BY <2>1, <2>2 DEF SInit, PTypeOK, CPCs
<1>3. \A l \in LoopIds : loops[l].pc = "none"
  BY DEF SInit, NoLoop
<1>4. StoreInv
  BY <1>3 DEF SInit, StoreInv, Uncancelled, AtMostOneUncancelledLoop, LoopIds
<1>. QED
  BY <1>2, <1>4 DEF IInv

(* A step of loop l that keeps its channel and moves it to a point other  *)
(* than "none", leaving every other variable and loop alone, keeps IInv:  *)
(* a loop on an open channel after the step was one before it.           *)
LEMMA LoopFrame ==
    ASSUME IInv, NEW l \in LoopIds,
           loops[l].pc \notin {"none", "exit"},
           loops' \in [LoopIds -> LoopRec],
           \A m \in LoopIds \ {l} : loops'[m] = loops[m],
           loops'[l].ch = loops[l].ch,
           loops'[l].pc # "none",
           UNCHANGED <<running, stopCh, closed, wedged, cfgSet, hasStore,
                       cfgRO, cpc, calls>>
    PROVE  IInv'
<1>1. PTypeOK'
  BY DEF IInv, PTypeOK
<1>2. \A m \in LoopIds : Uncancelled(m)' => Uncancelled(m)
  BY DEF Uncancelled
<1>3. \A m \in LoopIds : loops'[m].pc = "none" <=> loops[m].pc = "none"
  OBVIOUS
<1>4. StoreInv'
  BY <1>2, <1>3 DEF IInv, StoreInv, AtMostOneUncancelledLoop, Uncancelled
<1>. QED
  BY <1>1, <1>4 DEF IInv

\* The loop's steps are of that shape.
LEMMA LoopStepIInv ==
    ASSUME IInv, NEW l \in LoopIds, LoopNext(l)
    PROVE  IInv'
<1>. DEFINE Keep(pc) == [loops EXCEPT ![l].pc = pc]
<1>1. ASSUME NEW pc \in LoopPCs \ {"none"},
             loops[l].pc \notin {"none", "exit"},
             loops' = Keep(pc),
             UNCHANGED <<running, stopCh, closed, wedged, cfgSet, hasStore,
                         cfgRO, cpc, calls>>
      PROVE  IInv'
  <2>1. loops' \in [LoopIds -> LoopRec]
    BY <1>1 DEF IInv, PTypeOK, LoopRec
  <2>. QED
    BY <1>1, <2>1, LoopFrame DEF IInv, PTypeOK
<1>2. CASE CancelCtx(l)
  <2>1. loops' \in [LoopIds -> LoopRec]
    BY <1>2 DEF CancelCtx, IInv, PTypeOK, LoopRec
  <2>2. loops'[l].ch = loops[l].ch /\ loops'[l].pc = loops[l].pc
    BY <1>2 DEF CancelCtx, IInv, PTypeOK, LoopRec
  <2>3. \A m \in LoopIds \ {l} : loops'[m] = loops[m]
    BY <1>2 DEF CancelCtx
  <2>. QED
    BY <1>2, <2>1, <2>2, <2>3, LoopFrame DEF CancelCtx
<1>3. CASE LoopRead(l)
  BY <1>3, <1>1 DEF LoopRead, SetLoop, LoopPCs
<1>4. CASE TimerFires(l)
  BY <1>4, <1>1 DEF TimerFires, SetLoop, LoopPCs
<1>5. CASE WaitCancelled(l)
  BY <1>5, <1>1 DEF WaitCancelled, SetLoop, LoopPCs
<1>6. CASE IdleTick(l)
  BY <1>6, <1>1 DEF IdleTick, SetLoop, LoopPCs
<1>7. CASE IdleCancelled(l)
  BY <1>7, <1>1 DEF IdleCancelled, SetLoop, LoopPCs
<1>8. CASE SyncBegin(l)
  BY <1>8, <1>1 DEF SyncBegin, SetLoop, LoopPCs
<1>9. CASE PullDone(l)
  BY <1>9, <1>1 DEF PullDone, SetLoop, LoopPCs
<1>. QED
  BY <1>2, <1>3, <1>4, <1>5, <1>6, <1>7, <1>8, <1>9 DEF LoopNext

(* A new call takes the next slot, which no loop has yet.                  *)
LEMMA CallIInv ==
    ASSUME IInv, CallStart \/ CallStop \/ UpdateConfig
    PROVE  IInv'
<1>1. /\ calls' = calls + 1 /\ calls < MaxCalls
      /\ cpc' \in CPCs
      /\ UNCHANGED <<running, stopCh, closed, loops>>
  BY DEF CallStart, CallStop, UpdateConfig, CPCs
<1>2. calls' \in LoopIds /\ calls' \in 0..MaxCalls
  BY <1>1, MaxCallsAssumption DEF IInv, PTypeOK, LoopIds
<1>3. PTypeOK'
  BY <1>1, <1>2 DEF CallStart, CallStop, UpdateConfig, IInv, PTypeOK
<1>4. loops[calls'].pc = "none"
  <2>1. calls' > calls
    BY <1>1 DEF IInv, PTypeOK
  <2>. QED
    BY <1>2, <2>1 DEF IInv, StoreInv
<1>5. cpc' # "spawn"
  BY DEF CallStart, CallStop, UpdateConfig
<1>6. \A l \in LoopIds : Uncancelled(l)' <=> Uncancelled(l)
  BY <1>1 DEF Uncancelled
<1>7. StoreInv'
  BY <1>1, <1>2, <1>4, <1>5, <1>6
  DEF IInv, StoreInv, AtMostOneUncancelledLoop, PTypeOK
<1>. QED
  BY <1>3, <1>7 DEF IInv

(* After a step that leaves no loop on an open channel, the caller idle  *)
(* or about to spawn into a fresh slot, IInv holds again.                  *)
LEMMA NoUncancelledIInv ==
    ASSUME IInv, PTypeOK',
           \A l \in LoopIds : ~Uncancelled(l)',
           UNCHANGED <<loops, calls>>,
           stopCh <= stopCh',
           cpc' # "idle" => cpc = "start" /\ cpc' = "spawn" /\ running'
    PROVE  IInv'
<1>1. \A l \in LoopIds : loops[l].pc # "none" => loops[l].ch <= stopCh'
  BY DEF IInv, PTypeOK, StoreInv, LoopRec
<1>. QED
  BY <1>1 DEF IInv, StoreInv, AtMostOneUncancelledLoop

\* A Panic leaves the caller idle; the current channel was already closed.
LEMMA PanicIInv ==
    ASSUME IInv, Panic
    PROVE  IInv'
<1>1. PTypeOK'
  BY DEF IInv, PTypeOK, Panic, CPCs
<1>2. \A l \in LoopIds : ~Uncancelled(l)'
  BY DEF Panic, IInv, StoreInv, Uncancelled
<1>. QED
  BY <1>1, <1>2, NoUncancelledIInv DEF Panic, IInv, PTypeOK

(* Start closes the running loop's channel before it marks the scheduler *)
(* running again; a stopped scheduler has no loop on an open channel.    *)
LEMMA StartLockedIInv ==
    ASSUME IInv, StartLocked
    PROVE  IInv'
<1>1. PTypeOK'
  BY DEF IInv, PTypeOK, StartLocked, CPCs
<1>2. \A l \in LoopIds : ~Uncancelled(l)'
  BY DEF StartLocked, IInv, StoreInv, Uncancelled
<1>3. stopCh <= stopCh'
  BY DEF StartLocked, IInv, PTypeOK
<1>. QED
  BY <1>1, <1>2, <1>3, NoUncancelledIInv DEF StartLocked

\* Stop closes the channel of the running loop.
LEMMA StopLockedIInv ==
    ASSUME IInv, StopLocked
    PROVE  IInv'
<1>1. PTypeOK'
  BY DEF IInv, PTypeOK, StopLocked, CPCs
<1>2. \A l \in LoopIds : ~Uncancelled(l)'
  BY DEF StopLocked, IInv, StoreInv, Uncancelled
<1>. QED
  BY <1>1, <1>2, NoUncancelledIInv DEF StopLocked, IInv, PTypeOK

(* Spawn puts the one new loop on the current channel; while a spawn is  *)
(* pending no loop is on an open channel.                                  *)
LEMMA SpawnIInv ==
    ASSUME IInv, Spawn
    PROVE  IInv'
<1>1. /\ calls \in LoopIds /\ running /\ loops[calls].pc = "none"
      /\ \A l \in LoopIds : ~Uncancelled(l)
  BY DEF Spawn, IInv, StoreInv
<1>2. PTypeOK'
  BY <1>1 DEF IInv, PTypeOK, Spawn, CPCs, LoopRec, LoopPCs
<1>3. \A l \in LoopIds : Uncancelled(l)' => l = calls
  BY <1>1 DEF Spawn, Uncancelled
<1>4. loops'[calls] = [ch |-> stopCh, pc |-> "read", ctx |-> FALSE]
  BY <1>1 DEF Spawn, IInv, PTypeOK
<1>5. \A l \in LoopIds \ {calls} : loops'[l] = loops[l]
  BY DEF Spawn, IInv, PTypeOK
<1>6. StoreInv'
  BY <1>1, <1>3, <1>4, <1>5 DEF Spawn, IInv, PTypeOK, StoreInv,
     AtMostOneUncancelledLoop, Uncancelled
<1>. QED
  BY <1>2, <1>6 DEF IInv

\* The flag is not part of the invariant.
LEMMA SetReadOnlyIInv ==
    ASSUME IInv, SetReadOnly
    PROVE  IInv'
BY DEF SetReadOnly, IInv, PTypeOK, StoreInv, AtMostOneUncancelledLoop,
   Uncancelled

\* IInv is inductive.
LEMMA NextIInv == IInv /\ [SNext]_svars => IInv'
<1> SUFFICES ASSUME IInv, [SNext]_svars PROVE IInv'
  OBVIOUS
<1>1. CASE CallStart \/ CallStop \/ UpdateConfig
  BY <1>1, CallIInv
<1>2. CASE Panic
  BY <1>2, PanicIInv
<1>3. CASE StartLocked
  BY <1>3, StartLockedIInv
<1>4. CASE Spawn
  BY <1>4, SpawnIInv
<1>5. CASE StopLocked
  BY <1>5, StopLockedIInv
<1>6. CASE SetReadOnly
  BY <1>6, SetReadOnlyIInv
<1>7. CASE \E l \in LoopIds : LoopNext(l)
  BY <1>7, LoopStepIInv
<1>8. CASE UNCHANGED svars
  BY <1>8 DEF svars, IInv, PTypeOK, StoreInv, AtMostOneUncancelledLoop,
     Uncancelled
<1>. QED
  BY <1>1, <1>2, <1>3, <1>4, <1>5, <1>6, <1>7, <1>8 DEF SNext, CallerNext

(* For every bound on the calls, the scheduler's state keeps StoreInv:    *)
(* every loop is on a generation up to s.stopCh's, each call spawns into  *)
(* its own slot, and a loop on an open channel is on s.stopCh while the  *)
(* scheduler is running.  The run StoreScheduler_live checks it for four *)
(* calls.                                                                 *)
THEOREM StoreSchedulerInv == SSpec => []StoreInv
<1>1. IInv => StoreInv
  BY DEF IInv
<1>. QED
  BY InitIInv, NextIInv, <1>1, PTL DEF SSpec

(* Start and Stop, called one at a time, never leave two run loops on     *)
(* open stop channels: a restart closes the old loop's channel before it *)
(* spawns the new loop (what the spec asks: no two loop instances).       *)
THEOREM OneUncancelledLoop == SSpec => []AtMostOneUncancelledLoop
<1>1. IInv => AtMostOneUncancelledLoop
  BY DEF IInv, StoreInv
<1>. QED
  BY InitIInv, NextIInv, <1>1, PTL DEF SSpec

-----------------------------------------------------------------------------
(* The refinement of SyncLoopOwner.  Owner names the one loop on an open *)
(* channel, which the invariant makes unique.                             *)

\* A loop on an open channel is the owner.
LEMMA OwnerIsUncancelled ==
    ASSUME IInv, NEW l \in LoopIds, Uncancelled(l)
    PROVE  Owner = l
BY DEF IInv, StoreInv, AtMostOneUncancelledLoop, Owner

\* The same after a step.
LEMMA OwnerIsUncancelledPrimed ==
    ASSUME IInv', NEW l \in LoopIds, Uncancelled(l)'
    PROVE  Owner' = l
BY DEF IInv, StoreInv, AtMostOneUncancelledLoop, Owner

(* A step after which every loop on an open channel was on one before    *)
(* either keeps the owner or ends its ownership while running.             *)
LEMMA OwnerShrinks ==
    ASSUME IInv, IInv',
           \A m \in LoopIds : Uncancelled(m)' => Uncancelled(m)
    PROVE  Owner' = Owner \/ (Owner' = 0 /\ running)
<1>1. CASE \E m \in LoopIds : Uncancelled(m)'
  <2>1. PICK m \in LoopIds : Uncancelled(m)'
    BY <1>1
  <2>2. Owner' = m /\ Owner = m
    BY <2>1, OwnerIsUncancelled, OwnerIsUncancelledPrimed
  <2>. QED
    BY <2>2
<1>2. CASE ~\E m \in LoopIds : Uncancelled(m)'
  <2>1. Owner' = 0
    BY <1>2 DEF Owner
  <2>2. CASE \E m \in LoopIds : Uncancelled(m)
    BY <2>1, <2>2 DEF IInv, StoreInv
  <2>3. CASE ~\E m \in LoopIds : Uncancelled(m)
    BY <2>1, <2>3 DEF Owner
  <2>. QED
    BY <2>2, <2>3
<1>. QED
  BY <1>1, <1>2

(* A loop step changes only its own loop's program point and ctx, and    *)
(* starts from a loop that has neither exited nor not been spawned.      *)
LEMMA LoopShape ==
    ASSUME IInv, NEW l \in LoopIds, LoopNext(l)
    PROVE  /\ loops[l].pc \notin {"none", "exit"}
           /\ \A m \in LoopIds \ {l} : loops'[m] = loops[m]
           /\ loops'[l].ch = loops[l].ch
           /\ UNCHANGED <<running, closed>>
<1>. DEFINE Keep(pc) == [loops EXCEPT ![l].pc = pc]
<1>1. ASSUME NEW pc, loops[l].pc \notin {"none", "exit"}, loops' = Keep(pc),
             UNCHANGED <<running, closed>>
      PROVE  /\ loops[l].pc \notin {"none", "exit"}
             /\ \A m \in LoopIds \ {l} : loops'[m] = loops[m]
             /\ loops'[l].ch = loops[l].ch
             /\ UNCHANGED <<running, closed>>
  BY <1>1 DEF IInv, PTypeOK
<1>2. CASE CancelCtx(l)
  BY <1>2 DEF CancelCtx, IInv, PTypeOK
<1>3. CASE LoopRead(l)
  BY <1>3, <1>1 DEF LoopRead, SetLoop
<1>4. CASE TimerFires(l)
  BY <1>4, <1>1 DEF TimerFires, SetLoop
<1>5. CASE WaitCancelled(l)
  BY <1>5, <1>1 DEF WaitCancelled, SetLoop
<1>6. CASE IdleTick(l)
  BY <1>6, <1>1 DEF IdleTick, SetLoop
<1>7. CASE IdleCancelled(l)
  BY <1>7, <1>1 DEF IdleCancelled, SetLoop
<1>8. CASE SyncBegin(l)
  BY <1>8, <1>1 DEF SyncBegin, SetLoop
<1>9. CASE PullDone(l)
  BY <1>9, <1>1 DEF PullDone, SetLoop
<1>. QED
  BY <1>2, <1>3, <1>4, <1>5, <1>6, <1>7, <1>8, <1>9 DEF LoopNext

\* Every step of the scheduler is a step of SyncLoopOwner or leaves its
\* variables alone.
LEMMA RefineStep ==
    ASSUME IInv, [SNext]_svars
    PROVE  [Own!ONext]_Own!ovars
<1>0. IInv'
  BY NextIInv
<1>. USE DEF Own!ONext, Own!ovars, Own!Activate, Own!Acquire, Own!Close
<1>1. CASE CallStart \/ CallStop \/ UpdateConfig \/ Panic \/ SetReadOnly
  <2>1. \A m \in LoopIds : Uncancelled(m)' <=> Uncancelled(m)
    BY <1>1 DEF CallStart, CallStop, UpdateConfig, Panic, SetReadOnly,
       Uncancelled
  <2>2. Owner' = Owner
    BY <2>1 DEF Owner
  <2>. QED
    BY <1>1, <2>2 DEF CallStart, CallStop, UpdateConfig, Panic, SetReadOnly
<1>2. CASE StartLocked \/ StopLocked
  <2>1. \A m \in LoopIds : ~Uncancelled(m)'
    BY <1>2 DEF StartLocked, StopLocked, IInv, StoreInv, Uncancelled
  <2>2. Owner' = 0
    BY <2>1 DEF Owner
  <2>3. CASE running
    <3>1. running' \in BOOLEAN
      BY <1>0 DEF IInv, PTypeOK
    <3>. QED
      BY <2>2, <2>3, <3>1
  <2>4. CASE ~running
    <3>1. Owner = 0
      BY <2>4 DEF Owner, IInv, StoreInv
    <3>2. CASE running'
      BY <2>2, <2>4, <3>1, <3>2
    <3>3. CASE ~running'
      <4>1. running' = running
        BY <1>0, <2>4, <3>3 DEF IInv, PTypeOK
      <4>. QED
        BY <2>2, <3>1, <4>1
    <3>. QED
      BY <3>2, <3>3
  <2>. QED
    BY <2>3, <2>4
<1>3. CASE Spawn
  <2>1. /\ calls \in LoopIds /\ running
        /\ \A l \in LoopIds : ~Uncancelled(l)
    BY <1>3 DEF Spawn, IInv, StoreInv
  <2>2. Owner = 0
    BY <2>1 DEF Owner
  <2>3. loops'[calls] = [ch |-> stopCh, pc |-> "read", ctx |-> FALSE]
    BY <1>3, <2>1 DEF Spawn, IInv, PTypeOK
  <2>4. \A l \in LoopIds \ {calls} : ~Uncancelled(l)'
    BY <1>3, <2>1 DEF Spawn, Uncancelled
  \* A restart over a closed channel spawns a loop that is already cancelled.
  <2>5. CASE stopCh \in closed
    <3>1. ~Uncancelled(calls)'
      BY <1>3, <2>3, <2>5 DEF Spawn, Uncancelled
    <3>2. \A l \in LoopIds : ~Uncancelled(l)'
      BY <1>3, <2>4, <3>1 DEF Spawn
    <3>3. Owner' = 0
      BY <3>2 DEF Owner
    <3>. QED
      BY <1>3, <2>2, <3>3 DEF Spawn
  <2>6. CASE stopCh \notin closed
    <3>1. Uncancelled(calls)'
      BY <1>3, <2>3, <2>6 DEF Spawn, Uncancelled
    <3>2. Owner' = calls
      BY <1>0, <1>3, <2>1, <3>1, OwnerIsUncancelledPrimed DEF Spawn
    <3>. QED
      BY <1>3, <2>1, <2>2, <3>2 DEF Spawn
  <2>. QED
    BY <2>5, <2>6
<1>4. CASE \E l \in LoopIds : LoopNext(l)
  <2>1. PICK l \in LoopIds : LoopNext(l)
    BY <1>4
  <2>2. /\ \A m \in LoopIds : Uncancelled(m)' => Uncancelled(m)
        /\ UNCHANGED running
    BY <2>1, LoopShape DEF Uncancelled
  <2>3. Owner' = Owner \/ (Owner' = 0 /\ running)
    BY <1>0, <2>2, OwnerShrinks
  <2>. QED
    BY <2>2, <2>3
<1>5. CASE UNCHANGED svars
  BY <1>5 DEF svars, Owner, Uncancelled
<1>. QED
  BY <1>1, <1>2, <1>3, <1>4, <1>5 DEF SNext, CallerNext

(* The scheduler implements SyncLoopOwner (the run StoreScheduler_live   *)
(* checks it for four calls): with calls serialized, a loop gets an open *)
(* channel only while running and while no other loop has one, and loses *)
(* it only to a close.                                                    *)
THEOREM Refinement == SSpec => OwnerRefinement
<1>1. SInit => Own!OInit
  <2> SUFFICES ASSUME SInit PROVE Own!OInit
    OBVIOUS
  <2>1. \A l \in LoopIds : ~Uncancelled(l)
    BY DEF SInit, Uncancelled, NoLoop
  <2>. QED
    BY <2>1 DEF Own!OInit, Owner, SInit
<1>. QED
  BY <1>1, InitIInv, NextIInv, RefineStep, PTL
  DEF SSpec, OwnerRefinement, Own!OSpec
=============================================================================
