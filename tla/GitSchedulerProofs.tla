------------------------- MODULE GitSchedulerProofs -------------------------
(***************************************************************************)
(* Proofs about the scheduler model GitScheduler:                          *)
(*   - TypeCorrect: every reachable state is well typed, for every set of  *)
(*     callers and every call bound;                                       *)
(*   - SingleCallerOneUncancelledLoop: when one goroutine uses the API at  *)
(*     a time (the control plane, which holds h.mu around UpdateConfig),   *)
(*     at most one run loop is ever on an open stop channel.  The          *)
(*     invariant is not inductive alone; SchedulerInv strengthens it with  *)
(*     the generation structure of the stop channels.                      *)
(***************************************************************************)
EXTENDS GitScheduler, TLAPS

-----------------------------------------------------------------------------
(* Type correctness.                                                      *)

(* TypeOK in two groups: the Boolean flags, which Zenon handles well, and *)
(* the numbers, sets and functions, which need the SMT solver.             *)
TypeBools ==
    /\ running \in BOOLEAN
    /\ wedged \in BOOLEAN
    /\ cfgSet \in BOOLEAN
    /\ hasStore \in BOOLEAN
    /\ cfgRO \in BOOLEAN
    /\ pending \in BOOLEAN
    /\ discarded \in BOOLEAN

TypeData ==
    /\ stopCh \in Nat
    /\ closed \subseteq Nat
    /\ loops \in [LoopIds -> LoopRec]
    /\ cpc \in [Callers -> CallerPCs]
    /\ myCall \in [Callers -> 0..MaxCalls]
    /\ calls \in 0..MaxCalls

LEMMA TypeSplit == TypeOK <=> TypeBools /\ TypeData
BY Zenon DEF TypeOK, TypeBools, TypeData

LEMMA InitTypeOK == Init => TypeOK
<1> SUFFICES ASSUME Init PROVE TypeBools /\ TypeData
  BY TypeSplit
<1>1. TypeBools
  BY Zenon DEF Init, TypeBools
<1>2. TypeData
  BY MaxCallsAssumption DEF Init, TypeData, NoLoop, LoopRec, LoopPCs, CallerPCs
<1>3. QED
  BY <1>1, <1>2

LEMMA CallerTypeOK ==
    ASSUME TypeOK, NEW c \in Callers, CallerNext(c)
    PROVE  TypeOK'
<1> USE MaxCallsAssumption
<1>1. TypeBools'
  BY Zenon DEF CallerNext, Start, Stop, Spawn, UpdateConfig, UpdateConfigStart,
               UpdateConfigStop, StartLocked, StopLocked, Panic, TypeOK, TypeBools
<1>2. TypeData'
  (* Zenon computes what each step does to the data variables; the SMT    *)
  (* solver then checks the types, without the Boolean flags in the way.  *)
  <2> DEFINE Call == /\ calls < MaxCalls /\ calls' = calls + 1
                     /\ myCall' = [myCall EXCEPT ![c] = calls + 1]
             NoCall == UNCHANGED <<myCall, calls>>
             SetPC(S) == \E v \in S : cpc' = [cpc EXCEPT ![c] = v]
             Closing == /\ stopCh' \in {stopCh, stopCh + 1}
                        /\ closed' \subseteq closed \cup {stopCh}
                        /\ loops' = loops
  <2>1. CASE Start(c) \/ Stop(c)
    <3>1. Call /\ Closing /\ SetPC({"spawn", "idle", "dead"})
      BY <2>1, Zenon DEF Start, Stop, BeginCall, StartLocked, StopLocked, Panic
    <3>2. QED
      BY <3>1 DEF TypeOK, TypeData, CallerPCs
  <2>2. CASE UpdateConfigStart(c) \/ UpdateConfigStop(c)
    <3>1. NoCall /\ Closing /\ SetPC({"spawn", "idle", "dead"})
      BY <2>2, Zenon DEF UpdateConfigStart, UpdateConfigStop, StartLocked,
                         StopLocked, Panic
    <3>2. QED
      BY <3>1 DEF TypeOK, TypeData, CallerPCs
  <2>3. CASE UpdateConfig(c)
    <3>1. Call /\ UNCHANGED <<stopCh, closed, loops>>
          /\ SetPC({"upd_start", "upd_stop", "idle"})
      BY <2>3, Zenon DEF UpdateConfig, BeginCall
    <3>2. QED
      BY <3>1 DEF TypeOK, TypeData, CallerPCs
  <2>4. CASE Spawn(c)
    BY <2>4 DEF Spawn, TypeOK, TypeData, LoopRec, LoopPCs, CallerPCs
  <2>5. QED
    BY <2>1, <2>2, <2>3, <2>4 DEF CallerNext
<1>3. QED
  BY <1>1, <1>2, Zenon DEF TypeOK, TypeBools, TypeData

LEMMA LoopTypeOK ==
    ASSUME TypeOK, NEW l \in LoopIds, LoopNext(l)
    PROVE  TypeOK'
<1> USE DEF TypeOK, LoopRec, LoopPCs, SetLoop, LoopStep, LoopVarsUnchanged
<1>1. CASE CancelCtx(l)
  BY <1>1 DEF CancelCtx
<1>2. CASE LoopRead(l)
  BY <1>2 DEF LoopRead
<1>3. CASE LoopCheck(l)
  BY <1>3 DEF LoopCheck
<1>4. CASE SyncBegin(l)
  BY <1>4 DEF SyncBegin
<1>5. CASE PullSucceeds(l)
  BY <1>5 DEF PullSucceeds
<1>6. CASE PullFails(l)
  BY <1>6 DEF PullFails
<1>7. CASE SyncCallback(l)
  BY <1>7 DEF SyncCallback
<1>8. CASE TimerFires(l) \/ WaitCancelled(l) \/ IdleTick(l) \/ IdleCancelled(l)
  BY <1>8 DEF TimerFires, WaitCancelled, IdleTick, IdleCancelled
<1>9. QED
  BY <1>1, <1>2, <1>3, <1>4, <1>5, <1>6, <1>7, <1>8 DEF LoopNext

LEMMA EnvTypeOK ==
    ASSUME TypeOK, EnvNext
    PROVE  TypeOK'
BY DEF EnvNext, SetReadOnlyStorage, LocalWrite, PushLocal, TypeOK

LEMMA NextTypeOK == TypeOK /\ [Next]_vars => TypeOK'
<1> SUFFICES ASSUME TypeOK, [Next]_vars PROVE TypeOK'
  OBVIOUS
<1>1. CASE \E c \in Callers : CallerNext(c)
  BY <1>1, CallerTypeOK
<1>2. CASE \E l \in LoopIds : LoopNext(l)
  BY <1>2, LoopTypeOK
<1>3. CASE EnvNext
  BY <1>3, EnvTypeOK
<1>4. CASE UNCHANGED vars
  BY <1>4 DEF vars, TypeOK
<1>5. QED
  BY <1>1, <1>2, <1>3, <1>4 DEF Next

(* Every reachable state of the scheduler model is well typed.            *)
THEOREM TypeCorrect == Spec => []TypeOK
BY InitTypeOK, NextTypeOK, PTL DEF Spec

-----------------------------------------------------------------------------
(* One uncancelled loop under a serialized control plane.                 *)

\* The part of SchedulerInv beyond the types.
Core ==
    /\ ChannelGenerations
    /\ LoopsOnKnownChannels
    /\ OpenLoopMeansRunning
    /\ SpawnAfterAllClosed
    /\ AtMostOneUncancelledLoop

\* One goroutine calls the scheduler API (h.mu held around UpdateConfig).
SingleCaller == \A c1, c2 \in Callers : c1 = c2

\* While c is in the API, every other caller is between calls or dead.
OthersQuiet(c) == \A d \in Callers \ {c} : cpc[d] \in {"idle", "dead"}

\* A step that keeps every loop's channel and whether it was started.
LoopShapeKept ==
    \A k \in LoopIds : /\ loops'[k].ch = loops[k].ch
                       /\ (loops'[k].pc = "none") = (loops[k].pc = "none")

LEMMA InitCore == Init => Core
BY DEF Init, Core, ChannelGenerations, LoopsOnKnownChannels,
       OpenLoopMeansRunning, SpawnAfterAllClosed, AtMostOneUncancelledLoop,
       Uncancelled, Spawned, NoLoop

(* Steps of the loops and of the environment leave every conjunct of Core  *)
(* alone: they touch neither the channels nor the callers, and they only   *)
(* move a started loop between started program points.                    *)
LEMMA FrameCore ==
    ASSUME TypeOK, Core, LoopShapeKept,
           UNCHANGED <<running, stopCh, closed, cpc>>
    PROVE  Core'
BY DEF Core, LoopShapeKept, ChannelGenerations, LoopsOnKnownChannels,
       OpenLoopMeansRunning, SpawnAfterAllClosed, AtMostOneUncancelledLoop,
       Uncancelled, Spawned

LEMMA LoopShape ==
    ASSUME TypeOK, NEW l \in LoopIds, LoopNext(l)
    PROVE  LoopShapeKept /\ UNCHANGED <<running, stopCh, closed, cpc>>
<1> USE DEF TypeOK, LoopRec, LoopShapeKept, SetLoop, LoopStep, LoopVarsUnchanged
<1>1. CASE CancelCtx(l)
  BY <1>1 DEF CancelCtx
<1>2. CASE LoopRead(l)
  BY <1>2 DEF LoopRead
<1>3. CASE LoopCheck(l) \/ SyncBegin(l)
  BY <1>3 DEF LoopCheck, SyncBegin
<1>4. CASE PullSucceeds(l) \/ PullFails(l) \/ SyncCallback(l)
  BY <1>4 DEF PullSucceeds, PullFails, SyncCallback
<1>5. CASE TimerFires(l) \/ WaitCancelled(l) \/ IdleTick(l) \/ IdleCancelled(l)
  BY <1>5 DEF TimerFires, WaitCancelled, IdleTick, IdleCancelled
<1>6. QED
  BY <1>1, <1>2, <1>3, <1>4, <1>5 DEF LoopNext

(* Closing the current channel cancels every loop started so far: each  *)
(* is on a generation up to the current one, and the older ones are all *)
(* closed already.                                                        *)
LEMMA CloseCurrentCancelsAll ==
    ASSUME TypeOK, ChannelGenerations, LoopsOnKnownChannels,
           closed' = closed \cup {stopCh}, loops' = loops
    PROVE  \A l \in LoopIds : Spawned(l) => loops[l].ch \in closed'
<1> SUFFICES ASSUME NEW l \in LoopIds, Spawned(l)
             PROVE  loops[l].ch \in closed'
  OBVIOUS
<1>1. loops[l].ch \in Nat /\ stopCh \in Nat /\ loops[l].ch <= stopCh
  BY DEF TypeOK, LoopRec, LoopsOnKnownChannels
<1>2. CASE loops[l].ch = stopCh
  BY <1>2
<1>3. CASE loops[l].ch # stopCh
  <2>1. loops[l].ch \in 0..(stopCh - 1)
    BY <1>1, <1>3
  <2>. QED
    BY <2>1 DEF ChannelGenerations
<1>. QED
  BY <1>2, <1>3

\* What the unlocked Start and Stop leave of the caller's program point.
CallerResult(c) ==
    \/ running' = TRUE /\ cpc' = [cpc EXCEPT ![c] = "spawn"]
    \/ running' = FALSE /\ cpc' = [cpc EXCEPT ![c] = "idle"]

(* The locked part of Start keeps Core when no other caller is about to   *)
(* spawn: a restart closes the current channel and moves to a fresh one,  *)
(* so every loop started so far is cancelled, and a start from stopped    *)
(* finds no uncancelled loop (OpenLoopMeansRunning).                      *)
LEMMA StartLockedCore ==
    ASSUME NEW c \in Callers, TypeOK, Core, OthersQuiet(c), StartLocked(c),
           loops' = loops, cpc[c] # "spawn"
    PROVE  Core'
<1> USE DEF Core, ChannelGenerations, LoopsOnKnownChannels,
            OpenLoopMeansRunning, SpawnAfterAllClosed, AtMostOneUncancelledLoop,
            Uncancelled, Spawned, OthersQuiet, TypeOK
<1>1. CASE running /\ stopCh \in closed
  <2>1. /\ UNCHANGED <<running, stopCh, closed>>
        /\ cpc' = [cpc EXCEPT ![c] = "dead"]
    BY <1>1, Zenon DEF StartLocked, Panic
  <2>2. QED
    BY <2>1
<1>2. CASE ~running
  <2>1. UNCHANGED <<stopCh, closed>> /\ CallerResult(c)
    BY <1>2, Zenon DEF StartLocked, CallerResult
  <2>2. \A l \in LoopIds : Spawned(l) => loops[l].ch \in closed
    BY <1>2
  <2>3. QED
    BY <2>1, <2>2 DEF CallerResult
<1>3. CASE running /\ stopCh \notin closed
  <2>1. /\ closed' = closed \cup {stopCh}
        /\ stopCh' = stopCh + 1
        /\ CallerResult(c)
    BY <1>3, Zenon DEF StartLocked, CallerResult
  <2>2. \A l \in LoopIds : Spawned(l) => loops[l].ch \in closed'
    BY <2>1, CloseCurrentCancelsAll
  <2>3. ChannelGenerations'
    BY <2>1 DEF TypeOK
  <2>4. LoopsOnKnownChannels'
    BY <2>1 DEF TypeOK, LoopRec
  <2>5. \A l \in LoopIds : ~Uncancelled(l)'
    BY <2>2
  <2>6. SpawnAfterAllClosed'
    BY <2>1, <2>2 DEF CallerResult
  <2>7. QED
    BY <2>3, <2>4, <2>5, <2>6
<1>4. QED
  BY <1>1, <1>2, <1>3

(* The locked part of Stop keeps Core: closing the current channel cancels *)
(* every loop started so far (they are all on a channel no newer than it). *)
LEMMA StopLockedCore ==
    ASSUME NEW c \in Callers, TypeOK, Core, OthersQuiet(c), StopLocked(c),
           loops' = loops, cpc[c] # "spawn"
    PROVE  Core'
<1> USE DEF Core, ChannelGenerations, LoopsOnKnownChannels,
            OpenLoopMeansRunning, SpawnAfterAllClosed, AtMostOneUncancelledLoop,
            Uncancelled, Spawned, OthersQuiet, TypeOK
<1>1. CASE ~running
  <2>1. /\ UNCHANGED <<running, stopCh, closed>>
        /\ cpc' = [cpc EXCEPT ![c] = "idle"]
    BY <1>1, Zenon DEF StopLocked
  <2>2. QED
    BY <2>1
<1>2. CASE running /\ stopCh \in closed
  <2>1. /\ UNCHANGED <<running, stopCh, closed>>
        /\ cpc' = [cpc EXCEPT ![c] = "dead"]
    BY <1>2, Zenon DEF StopLocked, Panic
  <2>2. QED
    BY <2>1
<1>3. CASE running /\ stopCh \notin closed
  <2>1. /\ closed' = closed \cup {stopCh}
        /\ stopCh' = stopCh
        /\ running' = FALSE
        /\ cpc' = [cpc EXCEPT ![c] = "idle"]
    BY <1>3, Zenon DEF StopLocked
  <2>2. \A l \in LoopIds : Spawned(l) => loops[l].ch \in closed'
    BY <2>1, CloseCurrentCancelsAll
  <2>3. QED
    BY <2>1, <2>2
<1>4. QED
  BY <1>1, <1>2, <1>3

(* Spawn starts the loop on the current channel.  SpawnAfterAllClosed says *)
(* every earlier loop is cancelled by then, so the new loop is the only    *)
(* one that may be uncancelled.                                            *)
LEMMA SpawnCore ==
    ASSUME NEW c \in Callers, TypeOK, Core, OthersQuiet(c), Spawn(c)
    PROVE  Core'
<1> USE DEF Core, ChannelGenerations, LoopsOnKnownChannels,
            OpenLoopMeansRunning, SpawnAfterAllClosed, AtMostOneUncancelledLoop,
            Uncancelled, Spawned, OthersQuiet, TypeOK
<1>1. /\ cpc[c] = "spawn"
      /\ loops' = [loops EXCEPT ![myCall[c]] =
                      [ch |-> stopCh, pc |-> "read", ctx |-> FALSE]]
      /\ cpc' = [cpc EXCEPT ![c] = "idle"]
      /\ UNCHANGED <<running, stopCh, closed>>
  BY Zenon DEF Spawn
<1>2. \A l \in LoopIds : Spawned(l) => loops[l].ch \in closed
  BY <1>1
<1>3. QED
  BY <1>1, <1>2

(* UpdateConfig only stores the config and records its decision.          *)
LEMMA UpdateConfigCore ==
    ASSUME NEW c \in Callers, TypeOK, Core, OthersQuiet(c), UpdateConfig(c)
    PROVE  Core'
<1> USE DEF Core, ChannelGenerations, LoopsOnKnownChannels,
            OpenLoopMeansRunning, SpawnAfterAllClosed, AtMostOneUncancelledLoop,
            Uncancelled, Spawned, OthersQuiet, TypeOK
<1>1. /\ cpc[c] = "idle"
      /\ \E v \in {"upd_start", "upd_stop", "idle"} : cpc' = [cpc EXCEPT ![c] = v]
      /\ UNCHANGED <<running, stopCh, closed, loops>>
  BY Zenon DEF UpdateConfig, BeginCall
<1>2. QED
  BY <1>1

LEMMA CallerCore ==
    ASSUME NEW c \in Callers, TypeOK, Core, OthersQuiet(c), CallerNext(c)
    PROVE  Core'
<1>1. CASE Start(c)
  <2>1. StartLocked(c) /\ loops' = loops /\ cpc[c] # "spawn"
    BY <1>1, Zenon DEF Start, BeginCall
  <2>2. QED
    BY <2>1, StartLockedCore
<1>2. CASE Stop(c)
  <2>1. StopLocked(c) /\ loops' = loops /\ cpc[c] # "spawn"
    BY <1>2, Zenon DEF Stop, BeginCall
  <2>2. QED
    BY <2>1, StopLockedCore
<1>3. CASE UpdateConfigStart(c)
  <2>1. StartLocked(c) /\ loops' = loops /\ cpc[c] # "spawn"
    BY <1>3, Zenon DEF UpdateConfigStart
  <2>2. QED
    BY <2>1, StartLockedCore
<1>4. CASE UpdateConfigStop(c)
  <2>1. StopLocked(c) /\ loops' = loops /\ cpc[c] # "spawn"
    BY <1>4, Zenon DEF UpdateConfigStop
  <2>2. QED
    BY <2>1, StopLockedCore
<1>5. QED
  BY <1>1, <1>2, <1>3, <1>4, SpawnCore, UpdateConfigCore DEF CallerNext

LEMMA EnvFrame ==
    ASSUME EnvNext
    PROVE  UNCHANGED <<running, stopCh, closed, cpc, loops>>
BY Zenon DEF EnvNext, SetReadOnlyStorage, LocalWrite, PushLocal

LEMMA NextCore ==
    ASSUME TypeOK, Core, SingleCaller, [Next]_vars
    PROVE  Core'
<1>1. CASE \E c \in Callers : CallerNext(c)
  <2>1. PICK c \in Callers : CallerNext(c)
    BY <1>1
  <2>2. OthersQuiet(c)
    BY DEF SingleCaller, OthersQuiet
  <2>3. QED
    BY <2>1, <2>2, CallerCore
<1>2. CASE \E l \in LoopIds : LoopNext(l)
  BY <1>2, LoopShape, FrameCore
<1>3. CASE EnvNext
  <2>1. LoopShapeKept /\ UNCHANGED <<running, stopCh, closed, cpc>>
    BY <1>3, EnvFrame DEF LoopShapeKept
  <2>2. QED
    BY <2>1, FrameCore
<1>4. CASE UNCHANGED vars
  <2>1. LoopShapeKept /\ UNCHANGED <<running, stopCh, closed, cpc>>
    BY <1>4 DEF vars, LoopShapeKept
  <2>2. QED
    BY <2>1, FrameCore
<1>5. QED
  BY <1>1, <1>2, <1>3, <1>4 DEF Next

(* When one goroutine at a time drives the scheduler (the management       *)
(* handler holds h.mu around UpdateConfig, which calls Start and Stop),    *)
(* at most one run loop is ever on an open stop channel: Start closes the  *)
(* old channel before it replaces it, so no loop outlives a Stop.          *)
THEOREM SingleCallerOneUncancelledLoop ==
    ASSUME SingleCaller
    PROVE  Spec => []AtMostOneUncancelledLoop
<1>1. Init => TypeOK /\ Core
  BY InitTypeOK, InitCore
<1>2. TypeOK /\ Core /\ [Next]_vars => TypeOK' /\ Core'
  BY NextTypeOK, NextCore
<1>3. TypeOK /\ Core => AtMostOneUncancelledLoop
  BY DEF Core
<1>4. QED
  BY <1>1, <1>2, <1>3, PTL DEF Spec

(* The same invariant, with the types, is the inductive SchedulerInv that  *)
(* the serial run checks.                                                  *)
THEOREM SingleCallerSchedulerInv ==
    ASSUME SingleCaller
    PROVE  Spec => []SchedulerInv
<1>1. Init => TypeOK /\ Core
  BY InitTypeOK, InitCore
<1>2. TypeOK /\ Core /\ [Next]_vars => TypeOK' /\ Core'
  BY NextTypeOK, NextCore
<1>3. TypeOK /\ Core => SchedulerInv
  BY DEF Core, SchedulerInv
<1>4. QED
  BY <1>1, <1>2, <1>3, PTL DEF Spec

-----------------------------------------------------------------------------
(* Refinement of SyncLoopOwner.                                           *)

(* A caller that will spawn has a loop slot of its own: the number of the *)
(* call it is executing (BeginCall), which UpdateConfig hands on to the   *)
(* Start it calls.                                                        *)
SpawnSlot ==
    \A c \in Callers : cpc[c] \in {"spawn", "upd_start"} => myCall[c] \in LoopIds

(* A step of caller c changes no other caller's program point.           *)
LEMMA CallerOwnPC ==
    ASSUME NEW c \in Callers, CallerNext(c)
    PROVE  \E v \in CallerPCs : cpc' = [cpc EXCEPT ![c] = v]
BY Zenon DEF CallerNext, Start, Stop, UpdateConfig, UpdateConfigStart,
             UpdateConfigStop, Spawn, StartLocked, StopLocked, Panic, CallerPCs

(* No caller is about to spawn at the start.                              *)
LEMMA InitSpawnSlot == Init => SpawnSlot
BY DEF Init, SpawnSlot

(* A new call takes the next free number; a Start that UpdateConfig calls *)
(* keeps the number of the UpdateConfig call.                             *)
LEMMA CallerSpawnSlot ==
    ASSUME NEW c \in Callers, TypeOK, SpawnSlot, CallerNext(c)
    PROVE  SpawnSlot'
<1>1. PICK v \in CallerPCs : cpc' = [cpc EXCEPT ![c] = v]
  BY CallerOwnPC
<1>2. CASE Start(c) \/ Stop(c) \/ UpdateConfig(c)
  <2>1. calls \in 0..(MaxCalls - 1)
        /\ myCall' = [myCall EXCEPT ![c] = calls + 1]
    BY <1>2, MaxCallsAssumption DEF Start, Stop, UpdateConfig, BeginCall, TypeOK
  <2>2. myCall'[c] \in LoopIds
    BY <2>1, MaxCallsAssumption DEF TypeOK, LoopIds
  <2>3. \A d \in Callers \ {c} : cpc'[d] = cpc[d] /\ myCall'[d] = myCall[d]
    BY <1>1, <2>1 DEF TypeOK
  <2>4. QED
    BY <2>2, <2>3 DEF SpawnSlot
<1>3. CASE UpdateConfigStart(c)
  BY <1>1, <1>3 DEF UpdateConfigStart, SpawnSlot, TypeOK
<1>4. CASE UpdateConfigStop(c) \/ Spawn(c)
  <2>1. cpc'[c] \in {"idle", "dead"} /\ myCall' = myCall
    BY <1>4, Zenon DEF UpdateConfigStop, Spawn, StopLocked, Panic, TypeOK
  <2>2. QED
    BY <1>1, <2>1 DEF SpawnSlot, TypeOK
<1>5. QED
  BY <1>2, <1>3, <1>4 DEF CallerNext

LEMMA NextSpawnSlot == TypeOK /\ SpawnSlot /\ [Next]_vars => SpawnSlot'
<1> SUFFICES ASSUME TypeOK, SpawnSlot, [Next]_vars PROVE SpawnSlot'
  OBVIOUS
<1>1. CASE \E c \in Callers : CallerNext(c)
  BY <1>1, CallerSpawnSlot
<1>2. CASE (\E l \in LoopIds : LoopNext(l)) \/ EnvNext \/ UNCHANGED vars
  <2>1. UNCHANGED <<cpc, myCall>>
    BY <1>2, LoopShape, EnvFrame
    DEF LoopNext, CancelCtx, LoopRead, LoopCheck, SyncBegin, PullSucceeds,
        PullFails, SyncCallback, TimerFires, WaitCancelled, IdleTick,
        IdleCancelled, LoopVarsUnchanged, EnvNext, SetReadOnlyStorage,
        LocalWrite, PushLocal, vars
  <2>2. QED
    BY <2>1 DEF SpawnSlot
<1>3. QED
  BY <1>1, <1>2 DEF Next

(* The owner is the one loop on an open channel, before and after a step. *)
LEMMA OwnerIsUncancelled ==
    ASSUME Core, NEW l \in LoopIds, Uncancelled(l)
    PROVE  Owner = l
BY DEF Core, AtMostOneUncancelledLoop, Owner

LEMMA OwnerIsUncancelledPrimed ==
    ASSUME Core', NEW l \in LoopIds, Uncancelled(l)'
    PROVE  Owner' = l
BY DEF Core, AtMostOneUncancelledLoop, Owner

(* A step that keeps the running flag, the closed channels and the shape *)
(* of every loop is a stutter of the abstract view.                       *)
LEMMA OwnerKept ==
    ASSUME LoopShapeKept, UNCHANGED <<running, closed>>
    PROVE  UNCHANGED <<running, Owner>>
<1>1. \A m \in LoopIds : Uncancelled(m)' <=> Uncancelled(m)
  BY DEF LoopShapeKept, Uncancelled, Spawned
<1>2. QED
  BY <1>1 DEF Owner

(* The loops and the closed channels decide the owner.                   *)
LEMMA OwnerSameLoops ==
    ASSUME loops' = loops, closed' = closed
    PROVE  Owner' = Owner
BY DEF Owner, Uncancelled, Spawned

(* The locked part of Start is a Close when it restarts a running         *)
(* scheduler (every loop is cancelled), an Activate or a stutter from     *)
(* Stopped (no loop is on an open channel then), and a stutter when it    *)
(* panics.                                                                *)
LEMMA StartLockedRefines ==
    ASSUME NEW c \in Callers, TypeOK, Core, StartLocked(c), loops' = loops,
           TypeOK'
    PROVE  [Own!ONext]_Own!ovars
<1> USE DEF Own!ONext, Own!ovars, Own!Activate, Own!Close
<1>1. CASE running /\ stopCh \in closed
  <2>1. UNCHANGED <<running, closed>> /\ LoopShapeKept
    BY <1>1 DEF StartLocked, Panic, LoopShapeKept
  <2>2. QED
    BY <2>1, OwnerKept
<1>2. CASE running /\ stopCh \notin closed
  <2>1. closed' = closed \cup {stopCh}
    BY <1>2 DEF StartLocked
  <2>2. \A m \in LoopIds : ~Uncancelled(m)'
    <3>1. \A m \in LoopIds : Spawned(m) => loops[m].ch \in closed'
      BY <2>1, CloseCurrentCancelsAll DEF Core
    <3>2. QED
      BY <3>1 DEF Uncancelled, Spawned
  <2>3. Owner' = 0
    BY <2>2 DEF Owner
  <2>4. running' \in BOOLEAN
    BY DEF TypeOK
  <2>5. QED
    BY <1>2, <2>3, <2>4
<1>3. CASE ~running
  <2>1. closed' = closed
    BY <1>3 DEF StartLocked
  <2>2. UNCHANGED Owner
    BY <2>1, OwnerSameLoops
  <2>3. Owner = 0
    BY <1>3 DEF Owner, Core, OpenLoopMeansRunning
  <2>4. running' \in BOOLEAN /\ running \in BOOLEAN
    BY DEF TypeOK
  <2>5. CASE running'
    <3>1. Own!Activate
      BY <1>3, <2>2, <2>5, <2>4
    <3>2. QED
      BY <3>1
  <2>6. CASE ~running'
    <3>1. running' = running /\ Owner' = Owner
      BY <1>3, <2>2, <2>4, <2>6
    <3>2. QED
      BY <3>1
  <2>7. QED
    BY <2>5, <2>6
<1>4. QED
  BY <1>1, <1>2, <1>3

(* The locked part of Stop is a Close of a running scheduler, or a       *)
(* stutter.                                                               *)
LEMMA StopLockedRefines ==
    ASSUME NEW c \in Callers, TypeOK, Core, StopLocked(c), loops' = loops
    PROVE  [Own!ONext]_Own!ovars
<1> USE DEF Own!ONext, Own!ovars, Own!Close
<1>1. CASE running /\ stopCh \notin closed
  <2>1. closed' = closed \cup {stopCh} /\ running' = FALSE
    BY <1>1 DEF StopLocked, Panic
  <2>2. \A m \in LoopIds : ~Uncancelled(m)'
    <3>1. \A m \in LoopIds : Spawned(m) => loops[m].ch \in closed'
      BY <2>1, CloseCurrentCancelsAll DEF Core
    <3>2. QED
      BY <3>1 DEF Uncancelled, Spawned
  <2>3. Owner' = 0
    BY <2>2 DEF Owner
  <2>4. QED
    BY <1>1, <2>1, <2>3
<1>2. CASE ~(running /\ stopCh \notin closed)
  <2>1. UNCHANGED <<running, closed>> /\ LoopShapeKept
    BY <1>2 DEF StopLocked, Panic, LoopShapeKept
  <2>2. QED
    BY <2>1, OwnerKept
<1>3. QED
  BY <1>1, <1>2

(* go s.run(s.stopCh) is the Acquire of the new loop's slot, or a stutter *)
(* when it starts on a channel that is already closed (the restart from  *)
(* Stopped that kept a closed channel).                                   *)
LEMMA SpawnRefines ==
    ASSUME NEW c \in Callers, TypeOK, Core, SpawnSlot, Spawn(c), Core'
    PROVE  [Own!ONext]_Own!ovars
<1> USE DEF Own!ONext, Own!ovars, Own!Acquire
<1>0. PICK k \in LoopIds : k = myCall[c]
  BY DEF Spawn, SpawnSlot
<1>1. /\ k \in LoopIds /\ running
      /\ \A l \in LoopIds : ~Uncancelled(l)
  BY <1>0 DEF Spawn, Core, SpawnAfterAllClosed, Uncancelled
<1>2. Owner = 0
  BY <1>1 DEF Owner
<1>3. /\ loops'[k] = [ch |-> stopCh, pc |-> "read", ctx |-> FALSE]
      /\ \A l \in LoopIds \ {k} : loops'[l] = loops[l]
      /\ UNCHANGED <<running, closed>>
  BY <1>0, <1>1 DEF Spawn, TypeOK
<1>4. \A l \in LoopIds \ {k} : ~Uncancelled(l)'
  BY <1>1, <1>3 DEF Uncancelled, Spawned
<1>5. CASE stopCh \in closed
  <2>1. \A l \in LoopIds : ~Uncancelled(l)'
    BY <1>3, <1>4, <1>5 DEF Uncancelled
  <2>2. Owner' = 0
    BY <2>1 DEF Owner
  <2>3. QED
    BY <1>2, <1>3, <2>2
<1>6. CASE stopCh \notin closed
  <2>1. Uncancelled(k)'
    BY <1>3, <1>6 DEF Uncancelled, Spawned
  <2>2. Owner' = k
    BY <1>1, <2>1, OwnerIsUncancelledPrimed
  <2>3. QED
    BY <1>1, <1>2, <1>3, <2>2
<1>7. QED
  BY <1>5, <1>6

(* Every step of a caller that finds the others quiet is a step of       *)
(* SyncLoopOwner or a stutter of it.                                     *)
LEMMA CallerRefines ==
    ASSUME NEW c \in Callers, TypeOK, Core, SpawnSlot, OthersQuiet(c),
           CallerNext(c)
    PROVE  [Own!ONext]_Own!ovars
<1>0. TypeOK' /\ Core'
  BY CallerTypeOK, CallerCore
<1>1. CASE Start(c) \/ UpdateConfigStart(c)
  <2>1. StartLocked(c) /\ loops' = loops
    BY <1>1 DEF Start, UpdateConfigStart
  <2>2. QED
    BY <1>0, <2>1, StartLockedRefines
<1>2. CASE Stop(c) \/ UpdateConfigStop(c)
  <2>1. StopLocked(c) /\ loops' = loops
    BY <1>2 DEF Stop, UpdateConfigStop
  <2>2. QED
    BY <2>1, StopLockedRefines
<1>3. CASE Spawn(c)
  BY <1>0, <1>3, SpawnRefines
<1>4. CASE UpdateConfig(c)
  <2>1. UNCHANGED <<running, closed>> /\ LoopShapeKept
    BY <1>4 DEF UpdateConfig, LoopShapeKept
  <2>2. QED
    BY <2>1, OwnerKept DEF Own!ovars
<1>5. QED
  BY <1>1, <1>2, <1>3, <1>4 DEF CallerNext

(* The loops and the environment never change the abstract view.         *)
LEMMA FrameRefines ==
    ASSUME TypeOK, (\E l \in LoopIds : LoopNext(l)) \/ EnvNext
    PROVE  UNCHANGED <<running, Owner>>
<1>1. CASE \E l \in LoopIds : LoopNext(l)
  BY <1>1, LoopShape, OwnerKept
<1>2. CASE EnvNext
  <2>1. UNCHANGED <<running, closed>> /\ LoopShapeKept
    BY <1>2, EnvFrame DEF LoopShapeKept
  <2>2. QED
    BY <2>1, OwnerKept
<1>3. QED
  BY <1>1, <1>2

(* With one caller at a time, the scheduler implements SyncLoopOwner     *)
(* (the serial run checks it for four calls): a loop gets an open stop    *)
(* channel only while running and no other loop has one, and loses it     *)
(* only to the close of a Stop or of a restart.                           *)
THEOREM SingleCallerRefinement ==
    ASSUME SingleCaller
    PROVE  Spec => OwnerRefinement
<1> DEFINE Inv == TypeOK /\ Core /\ SpawnSlot
<1>1. Init => Inv
  BY InitTypeOK, InitCore, InitSpawnSlot
<1>2. Inv /\ [Next]_vars => Inv'
  BY NextTypeOK, NextCore, NextSpawnSlot
<1>3. Init => Own!OInit
  <2> SUFFICES ASSUME Init PROVE Own!OInit
    OBVIOUS
  <2>1. \A l \in LoopIds : ~Uncancelled(l)
    BY DEF Init, Uncancelled, Spawned, NoLoop
  <2>2. QED
    BY <2>1 DEF Own!OInit, Owner, Init
<1>4. Inv /\ [Next]_vars => [Own!ONext]_Own!ovars
  <2> SUFFICES ASSUME Inv, [Next]_vars PROVE [Own!ONext]_Own!ovars
    OBVIOUS
  <2>1. CASE \E c \in Callers : CallerNext(c)
    <3>1. PICK c \in Callers : CallerNext(c)
      BY <2>1
    <3>2. OthersQuiet(c)
      BY DEF SingleCaller, OthersQuiet
    <3>3. QED
      BY <3>1, <3>2, CallerRefines
  <2>2. CASE (\E l \in LoopIds : LoopNext(l)) \/ EnvNext
    BY <2>2, FrameRefines DEF Own!ovars
  <2>3. CASE UNCHANGED vars
    BY <2>3 DEF vars, Own!ovars, Owner, Uncancelled, Spawned
  <2>4. QED
    BY <2>1, <2>2, <2>3 DEF Next
<1>5. QED
  BY <1>1, <1>2, <1>3, <1>4, PTL DEF Spec, OwnerRefinement, Own!OSpec

=====
