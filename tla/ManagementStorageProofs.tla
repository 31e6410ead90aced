----------------------- MODULE ManagementStorageProofs -----------------------
(***************************************************************************)
(* Proofs about the control plane composed with the scheduler             *)
(* (ManagementStorage):                                                    *)
(*   - MTypeCorrect: every reachable state is well typed;                 *)
(*   - HmuSerializesScheduler: a request inside UpdateConfig holds h.mu;  *)
(*   - ControlPlaneOneUncancelledLoop: any number of concurrent storage   *)
(*     requests never leave two run loops on open stop channels.          *)
(* The scheduler lemmas of GitSchedulerProofs need only that the other    *)
(* callers are quiet while one is in the API (OthersQuiet); here h.mu     *)
(* provides that.                                                          *)
(***************************************************************************)
EXTENDS ManagementStorage, GitSchedulerProofs

\* Program points of a caller inside the scheduler API.
InAPI == {"upd_start", "upd_stop", "spawn"}

\* Program points of a handler between h.mu.Lock() and h.mu.Unlock().
UnderLock == {"sched", "in_sched"}

(* The strengthening of SchedulerCallsUnderHmu: a handler between Lock    *)
(* and Unlock is the one holding h.mu.                                    *)
HandlerHoldsHmu == \A r \in Callers : hpc[r] \in UnderLock => hmu = r

-----------------------------------------------------------------------------
(* Type correctness.                                                      *)

\* The control plane's part of MTypeOK.
MData ==
    /\ cfgIv \in Intervals
    /\ hmu \in Callers \cup {NoReq}
    /\ hpc \in [Callers -> HPCs]
    /\ req \in [Callers -> [op : {"none", "ro", "iv"}, ro : BOOLEAN,
                            iv : {0} \cup Intervals]]
    /\ side \in SideFiles
    /\ events \in 0..MaxEvents
    /\ edits \in 0..MaxEdits

(* MTypeOK is not inductive: UpdateStorageLocked copies the request's     *)
(* interval into Config State, which is typed only because a handler past *)
(* idle carries the operation it parsed, and an interval request carries  *)
(* an interval of at least one minute (parseIntField).                    *)
ReqShape ==
    \A r \in Callers :
        /\ hpc[r] # "idle" => req[r].op \in {"ro", "iv"}
        /\ req[r].op = "iv" => req[r].iv \in Intervals

(* MTypeOK is the scheduler's types and the control plane's.             *)
LEMMA MTypeSplit == MTypeOK <=> TypeOK /\ MData
BY Zenon DEF MTypeOK, MData

\* The interval of a side file is omitted or one of Intervals.
LEMMA SideFilesIv ==
    ASSUME NEW f \in SideFiles
    PROVE  f.iv \in {0} \cup Intervals
BY DEF SideFiles

\* A write event keeps the event count in its range.
LEMMA NotifyType ==
    ASSUME events \in 0..MaxEvents, Notify
    PROVE  events' \in 0..MaxEvents
BY MaxEventsAssumption DEF Notify

(* The boot state is well typed; loop 1 exists since MaxCalls >= 1.      *)
LEMMA MInitType == MInit => MTypeOK
<1> SUFFICES ASSUME MInit PROVE TypeOK /\ MData
  BY MTypeSplit
<1>1. TypeBools
  BY DEF MInit, TypeBools, LoadedRO, Booted
<1>2. TypeData
  BY MaxCallsAssumption, BootCallAssumption
  DEF MInit, TypeData, NoLoop, LoopRec, LoopPCs, CallerPCs, Booted
<1>3. MData
  BY MaxEventsAssumption, MaxEditsAssumption DEF MInit, MData, HPCs
<1>4. QED
  BY <1>1, <1>2, <1>3, TypeSplit

\* The requests' records.
ReqRecs == [op : {"none", "ro", "iv"}, ro : BOOLEAN, iv : {0} \cup Intervals]

(* The snapshot step overwrites one field of a request's record.         *)
LEMMA ReqExcept ==
    ASSUME NEW x \in ReqRecs, NEW v \in {0} \cup Intervals, NEW b \in BOOLEAN
    PROVE  /\ [x EXCEPT !.iv = v] \in ReqRecs
           /\ [x EXCEPT !.ro = b] \in ReqRecs
<1>1. /\ x = [op |-> x.op, ro |-> x.ro, iv |-> x.iv]
      /\ x.op \in {"none", "ro", "iv"} /\ x.ro \in BOOLEAN
      /\ x.iv \in {0} \cup Intervals
  BY DEF ReqRecs
<1>2. [x EXCEPT !.iv = v] = [op |-> x.op, ro |-> x.ro, iv |-> v]
  BY <1>1
<1>3. [x EXCEPT !.ro = b] = [op |-> x.op, ro |-> b, iv |-> x.iv]
  BY <1>1
<1>4. QED
  BY <1>1, <1>2, <1>3 DEF ReqRecs

(* ... and keeps its operation, and the interval unless that is the field. *)
LEMMA ReqExceptFields ==
    ASSUME NEW x \in ReqRecs, NEW v, NEW b
    PROVE  /\ [x EXCEPT !.iv = v].op = x.op
           /\ [x EXCEPT !.ro = b].op = x.op
           /\ [x EXCEPT !.ro = b].iv = x.iv
BY DEF ReqRecs

(* A step that leaves the scheduler alone, except perhaps for the Config  *)
(* State flag, keeps its types.                                           *)
LEMMA SchedFrameType ==
    ASSUME TypeOK, cfgRO' \in BOOLEAN,
           UNCHANGED <<running, stopCh, closed, wedged, cfgSet, hasStore,
                       loops, cpc, myCall, calls, pending, discarded>>
    PROVE  TypeOK'
BY DEF TypeOK

(* A step that leaves the scheduler alone keeps its types.              *)
LEMMA SchedUnchangedType ==
    ASSUME TypeOK, SchedUnchanged
    PROVE  TypeOK'
BY DEF TypeOK, SchedUnchanged, vars

(* The handler steps: only CallUpdateConfig enters the scheduler; the     *)
(* others change at most the Config State flag among its variables.       *)
LEMMA HandlerType ==
    ASSUME MTypeOK, ReqShape, NEW r \in Callers, HandlerNext(r)
    PROVE  MTypeOK'
<1>0. TypeOK /\ MData
  BY MTypeSplit
<1>1. TypeOK'
  <2>1. CASE UpdateStorageLocked(r)
    <3>1. cfgRO' \in BOOLEAN
      BY <1>0, <2>1 DEF UpdateStorageLocked, TypeOK, MData
    <3>2. QED
      BY <1>0, <2>1, <3>1, SchedFrameType DEF UpdateStorageLocked
  <2>2. CASE CallUpdateConfig(r)
    BY <1>0, <2>2, CallerTypeOK DEF CallUpdateConfig, CallerNext
  <2>3. CASE ~UpdateStorageLocked(r) /\ ~CallUpdateConfig(r)
    <3>1. SchedUnchanged
      BY <2>3, Zenon
      DEF HandlerNext, PutStorageReadOnly, PutStorageSyncInterval,
          EnsureCanEnableReadOnly, UpdateStorageUnlock, PersistConfig,
          PersistSnapshot, PersistBothTruncate, PersistBothWrite
    <3>2. QED
      BY <1>0, <3>1, SchedUnchangedType
  <2>4. QED
    BY <2>1, <2>2, <2>3
<1>2. MData'
  <2> USE <1>0, IntervalsAssumption, MaxEventsAssumption, MaxEditsAssumption
  <2> USE DEF MData, HPCs, SetPC
  <2>1. CASE PutStorageReadOnly(r)
    BY <2>1 DEF PutStorageReadOnly
  <2>2. CASE PutStorageSyncInterval(r)
    BY <2>2 DEF PutStorageSyncInterval
  <2>3. CASE EnsureCanEnableReadOnly(r)
    BY <2>3 DEF EnsureCanEnableReadOnly
  <2>4. CASE UpdateStorageLocked(r)
    BY <2>4 DEF UpdateStorageLocked, ReqShape
  <2>5. CASE CallUpdateConfig(r)
    BY <2>5 DEF CallUpdateConfig
  <2>6. CASE UpdateStorageUnlock(r)
    BY <2>6 DEF UpdateStorageUnlock
  <2>7. CASE PersistConfig(r)
    BY <2>7 DEF PersistConfig
  <2>8. CASE PersistSnapshot(r)
    <3>1. /\ req[r] \in ReqRecs
          /\ cfgIv \in {0} \cup Intervals
          /\ cfgRO \in BOOLEAN
      BY DEF ReqRecs, TypeOK
    <3>2. req' = [req EXCEPT ![r] = IF req[r].op = "ro"
                                       THEN [req[r] EXCEPT !.iv = cfgIv]
                                       ELSE [req[r] EXCEPT !.ro = cfgRO]]
      BY <2>8, Zenon DEF PersistSnapshot
    <3>3. req' \in [Callers -> ReqRecs]
      BY <3>1, <3>2, ReqExcept DEF ReqRecs
    <3>4. QED
      BY <2>8, <3>3 DEF PersistSnapshot, ReqRecs
  <2>9. CASE PersistBothTruncate(r)
    <3>1. side' \in SideFiles /\ events' \in 0..MaxEvents
      <4>1. CASE side' = Corrupt /\ Notify
        BY <4>1, NotifyType DEF SideFiles, Corrupt
      <4>2. QED
        BY <2>9, <4>1 DEF PersistBothTruncate
    <3>2. QED
      BY <2>9, <3>1 DEF PersistBothTruncate
  <2>10. CASE PersistBothWrite(r)
    <3>1. side' \in SideFiles /\ events' \in 0..MaxEvents
      <4>1. CASE side' = Doc(req[r].ro, req[r].iv) /\ Notify
        BY <4>1, NotifyType DEF SideFiles, Doc
      <4>2. QED
        BY <2>10, <4>1 DEF PersistBothWrite
    <3>2. QED
      BY <2>10, <3>1 DEF PersistBothWrite
  <2>11. QED
    BY <2>1, <2>2, <2>3, <2>4, <2>5, <2>6, <2>7, <2>8, <2>9, <2>10
    DEF HandlerNext
<1>3. QED
  BY <1>1, <1>2, Zenon DEF MTypeOK, MData

(* The scheduler's own steps keep the types (GitSchedulerProofs).        *)
LEMMA SchedType ==
    ASSUME MTypeOK, SchedNext
    PROVE  MTypeOK'
<1>1. TypeOK'
  <2>1. CASE \E r \in Callers :
               UpdateConfigStart(r) \/ UpdateConfigStop(r) \/ Spawn(r)
    BY <2>1, CallerTypeOK DEF CallerNext, MTypeOK
  <2>2. CASE \E l \in LoopIds : LoopNext(l)
    BY <2>2, LoopTypeOK DEF MTypeOK
  <2>3. CASE LocalWrite \/ PushLocal
    BY <2>3, EnvTypeOK DEF EnvNext, MTypeOK
  <2>4. QED
    BY <2>1, <2>2, <2>3 DEF SchedNext
<1>2. MData'
  BY MTypeSplit DEF SchedNext, mvars, MData
<1>3. QED
  BY <1>1, <1>2, Zenon DEF MTypeOK, MData

(* Every step keeps the types, given the shape of the requests.           *)
LEMMA MNextType == MTypeOK /\ ReqShape /\ [MNext]_allVars => MTypeOK'
<1> SUFFICES ASSUME MTypeOK, ReqShape, [MNext]_allVars PROVE MTypeOK'
  OBVIOUS
<1>1. CASE \E r \in Callers : HandlerNext(r)
  BY <1>1, HandlerType
<1>2. CASE SchedNext
  BY <1>2, SchedType
<1>0. TypeOK /\ MData
  BY MTypeSplit
<1>3. CASE WatcherReload
  <2>0. side.iv \in {0} \cup Intervals
    BY <1>0, SideFilesIv DEF MData
  <2>1a. cfgIv' \in Intervals
    BY <1>0, <1>3, <2>0 DEF WatcherReload, MData, LoadedIv
  <2>1b. events' \in 0..MaxEvents
    BY <1>0, <1>3, MaxEventsAssumption DEF WatcherReload, MData
  <2>1. cfgRO' \in BOOLEAN /\ MData'
    BY <1>0, <1>3, <2>1a, <2>1b DEF WatcherReload, MData, LoadedRO
  <2>2. TypeOK'
    BY <1>0, <1>3, <2>1, SchedFrameType DEF WatcherReload
  <2>3. QED
    BY <2>1, <2>2, Zenon DEF MTypeOK, MData
<1>4. CASE EditSideFile
  <2>1. TypeOK'
    BY <1>0, <1>4, SchedUnchangedType DEF EditSideFile
  <2>1a. side' \in SideFiles
    BY <1>4 DEF EditSideFile
  <2>1b. events' \in 0..MaxEvents
    BY <1>0, <1>4, NotifyType DEF EditSideFile, MData
  <2>1c. edits' \in 0..MaxEdits
    BY <1>0, <1>4, MaxEditsAssumption DEF EditSideFile, MData
  <2>2. MData'
    BY <1>0, <1>4, <2>1a, <2>1b, <2>1c DEF EditSideFile, MData
  <2>3. QED
    BY <2>1, <2>2, Zenon DEF MTypeOK, MData
<1>5. CASE UNCHANGED allVars
  BY <1>5 DEF allVars, vars, mvars, MTypeOK, TypeOK
<1>6. QED
  BY <1>1, <1>2, <1>3, <1>4, <1>5 DEF MNext

(* At boot no handler has started and no request is parsed.              *)
LEMMA MInitReqShape == MInit => ReqShape
<1> SUFFICES ASSUME MInit, NEW r \in Callers
             PROVE  /\ hpc[r] # "idle" => req[r].op \in {"ro", "iv"}
                    /\ req[r].op = "iv" => req[r].iv \in Intervals
  BY DEF ReqShape
<1>1. hpc[r] = "idle" /\ req[r].op = "none"
  BY DEF MInit
<1>2. QED
  BY <1>1

(* Only the two PUT handlers set a request's operation, each with a value  *)
(* it parsed; the snapshot step overwrites the other field only.          *)
LEMMA MNextReqShape == MTypeOK /\ ReqShape /\ [MNext]_allVars => ReqShape'
<1> SUFFICES ASSUME MTypeOK, ReqShape, [MNext]_allVars PROVE ReqShape'
  OBVIOUS
<1> USE DEF ReqShape, MTypeOK
<1>1. CASE \E r \in Callers : HandlerNext(r)
  <2>1. PICK r \in Callers : HandlerNext(r)
    BY <1>1
  <2> USE DEF SetPC
  <2>2. CASE PutStorageReadOnly(r) \/ PutStorageSyncInterval(r)
    BY <2>2 DEF PutStorageReadOnly, PutStorageSyncInterval
  <2>3. CASE PersistSnapshot(r)
    <3>1. req[r] \in ReqRecs /\ cfgRO \in BOOLEAN
      BY DEF ReqRecs, TypeOK
    <3>2. req' = [req EXCEPT ![r] = IF req[r].op = "ro"
                                       THEN [req[r] EXCEPT !.iv = cfgIv]
                                       ELSE [req[r] EXCEPT !.ro = cfgRO]]
      BY <2>3, Zenon DEF PersistSnapshot
    <3>2a. /\ [req[r] EXCEPT !.iv = cfgIv].op = req[r].op
           /\ [req[r] EXCEPT !.ro = cfgRO].op = req[r].op
           /\ [req[r] EXCEPT !.ro = cfgRO].iv = req[r].iv
      BY <3>1, ReqExceptFields
    <3>3. req'[r].op = req[r].op
          /\ (req[r].op # "ro" => req'[r].iv = req[r].iv)
      BY <3>2, <3>2a
    <3>4. QED
      BY <2>3, <3>3 DEF PersistSnapshot
  <2>4. CASE ~PutStorageReadOnly(r) /\ ~PutStorageSyncInterval(r)
             /\ ~PersistSnapshot(r)
    <3>1. /\ req' = req /\ hpc[r] # "idle"
          /\ \E pc \in HPCs \ {"idle"} : SetPC(r, pc)
      BY <2>1, <2>4, Zenon
      DEF HandlerNext, EnsureCanEnableReadOnly, UpdateStorageLocked,
          CallUpdateConfig, UpdateStorageUnlock, PersistConfig,
          PersistBothTruncate, PersistBothWrite, HPCs
    <3>2. QED
      BY <3>1
  <2>5. QED
    BY <2>2, <2>3, <2>4
<1>2. CASE SchedNext \/ WatcherReload \/ EditSideFile \/ UNCHANGED allVars
  <2>1. UNCHANGED <<hpc, req>>
    BY <1>2 DEF SchedNext, mvars, WatcherReload, EditSideFile, allVars
  <2>2. QED
    BY <2>1
<1>3. QED
  BY <1>1, <1>2 DEF MNext

\* The inductive invariant behind the types.
TypeInv == MTypeOK /\ ReqShape

(* Every reachable state of the composed model is well typed.            *)
THEOREM MTypeCorrect == MSpec => []MTypeOK
<1>1. MInit => TypeInv
  BY MInitType, MInitReqShape DEF TypeInv
<1>2. TypeInv /\ [MNext]_allVars => TypeInv'
  BY MNextType, MNextReqShape DEF TypeInv
<1>3. QED
  BY <1>1, <1>2, PTL DEF MSpec, TypeInv

-----------------------------------------------------------------------------
(* h.mu serializes the scheduler's callers.                               *)

\* The inductive invariant of the composition.
MInv ==
    /\ MTypeOK
    /\ ReqShape
    /\ Core
    /\ HandlerHoldsHmu
    /\ SchedulerCallsUnderHmu

\* Both h.mu conjuncts.
HmuInv == HandlerHoldsHmu /\ SchedulerCallsUnderHmu

(* Whoever holds h.mu is the only caller that may be inside the API.     *)
LEMMA HolderAlone ==
    ASSUME MTypeOK, SchedulerCallsUnderHmu, NEW c \in Callers, hmu = c
    PROVE  OthersQuiet(c)
BY DEF OthersQuiet, SchedulerCallsUnderHmu, MTypeOK, TypeOK, CallerPCs

(* At boot h.mu is free and nobody is inside the API.                    *)
LEMMA MInitHmu == MInit => HmuInv
BY NoReqAssumption
DEF MInit, HmuInv, HandlerHoldsHmu, SchedulerCallsUnderHmu, UnderLock

(* Lock takes h.mu only when it is free, when nobody is between Lock and *)
(* Unlock or inside the API; Unlock releases it only after UpdateConfig   *)
(* has returned; the handler steps outside the lock, the loops, the       *)
(* environment and the watcher leave h.mu and the callers alone.          *)
LEMMA MNextHmu ==
    ASSUME MTypeOK, HmuInv, [MNext]_allVars
    PROVE  HmuInv'
<1> USE NoReqAssumption
<1> USE DEF HmuInv, HandlerHoldsHmu, SchedulerCallsUnderHmu, UnderLock,
            InAPI, MTypeOK, TypeOK, SetPC
<1>1. CASE \E r \in Callers : HandlerNext(r)
  <2>1. PICK r \in Callers : HandlerNext(r)
    BY <1>1
  <2>2. CASE UpdateStorageLocked(r)
    BY <2>2 DEF UpdateStorageLocked
  <2>3. CASE CallUpdateConfig(r)
    <3>0. CallerNext(r)
      BY <2>3 DEF CallUpdateConfig, CallerNext
    <3>1. PICK v \in CallerPCs : cpc' = [cpc EXCEPT ![r] = v]
      BY <3>0, CallerOwnPC
    <3>2. QED
      BY <2>3, <3>1 DEF CallUpdateConfig
  <2>4. CASE UpdateStorageUnlock(r)
    BY <2>4 DEF UpdateStorageUnlock, SchedUnchanged, vars
  <2>5. CASE ~UpdateStorageLocked(r) /\ ~CallUpdateConfig(r)
             /\ ~UpdateStorageUnlock(r)
    <3>1. /\ UNCHANGED <<hmu, cpc>>
          /\ \E pc \in HPCs \ UnderLock : SetPC(r, pc)
      BY <2>1, <2>5, Zenon
      DEF HandlerNext, PutStorageReadOnly, PutStorageSyncInterval,
          EnsureCanEnableReadOnly, PersistConfig, PersistSnapshot,
          PersistBothTruncate, PersistBothWrite, SchedUnchanged, vars, HPCs
    <3>2. QED
      BY <3>1
  <2>6. QED
    BY <2>2, <2>3, <2>4, <2>5
<1>2. CASE SchedNext
  <2>1. UNCHANGED <<hmu, hpc>>
    BY <1>2 DEF SchedNext, mvars
  <2>2. CASE \E r \in Callers :
               UpdateConfigStart(r) \/ UpdateConfigStop(r) \/ Spawn(r)
    <3>1. PICK r \in Callers :
               UpdateConfigStart(r) \/ UpdateConfigStop(r) \/ Spawn(r)
      BY <2>2
    <3>2. cpc[r] \in InAPI
      BY <3>1 DEF UpdateConfigStart, UpdateConfigStop, Spawn
    <3>3. PICK v \in CallerPCs : cpc' = [cpc EXCEPT ![r] = v]
      BY <3>1, CallerOwnPC DEF CallerNext
    <3>4. QED
      BY <2>1, <3>2, <3>3
  <2>3. CASE (\E l \in LoopIds : LoopNext(l)) \/ LocalWrite \/ PushLocal
    <3>1. UNCHANGED cpc
      BY <2>3, LoopShape, EnvFrame DEF EnvNext
    <3>2. QED
      BY <2>1, <3>1
  <2>4. QED
    BY <1>2, <2>2, <2>3 DEF SchedNext
<1>3. CASE WatcherReload \/ EditSideFile \/ UNCHANGED allVars
  <2>1. UNCHANGED <<hmu, hpc, cpc>>
    BY <1>3 DEF WatcherReload, EditSideFile, SchedUnchanged, vars, allVars,
                mvars
  <2>2. QED
    BY <2>1
<1>4. QED
  BY <1>1, <1>2, <1>3 DEF MNext

-----------------------------------------------------------------------------
(* One uncancelled loop, for any number of concurrent requests.          *)

(* The boot state: loop 1 on stop channel 0, running, when read-only is  *)
(* on and a token store is configured; otherwise no loop.                *)
LEMMA MInitCore == MInit => Core
<1> SUFFICES ASSUME MInit PROVE Core
  OBVIOUS
<1>1. \A l \in LoopIds : Spawned(l) => l = 1 /\ Booted /\ loops[l].ch = 0
  BY DEF MInit, Spawned, NoLoop
<1>2. ChannelGenerations /\ LoopsOnKnownChannels
  BY <1>1 DEF MInit, ChannelGenerations, LoopsOnKnownChannels
<1>3. OpenLoopMeansRunning /\ SpawnAfterAllClosed
  BY <1>1 DEF MInit, OpenLoopMeansRunning, SpawnAfterAllClosed, Uncancelled
<1>4. AtMostOneUncancelledLoop
  BY <1>1 DEF AtMostOneUncancelledLoop, Uncancelled
<1>5. QED
  BY <1>2, <1>3, <1>4 DEF Core

(* A step that leaves the loops, the channels and the callers alone.     *)
LEMMA StillCore ==
    ASSUME TypeOK, Core, UNCHANGED <<running, stopCh, closed, cpc, loops>>
    PROVE  Core'
<1>1. LoopShapeKept
  BY DEF LoopShapeKept
<1>2. QED
  BY <1>1, FrameCore

(* The scheduler steps of the composition keep Core: a caller inside the *)
(* API holds h.mu, so every other caller is quiet (HolderAlone) and the   *)
(* scheduler lemmas apply; everything else is a frame step.               *)
LEMMA MNextCore ==
    ASSUME MTypeOK, Core, HmuInv, [MNext]_allVars
    PROVE  Core'
<1>0. TypeOK
  BY DEF MTypeOK
<1>1. CASE \E r \in Callers : HandlerNext(r)
  <2>1. PICK r \in Callers : HandlerNext(r)
    BY <1>1
  <2>2. CASE CallUpdateConfig(r)
    <3>1. hmu = r
      BY <2>2 DEF CallUpdateConfig, HmuInv, HandlerHoldsHmu, UnderLock
    <3>2. OthersQuiet(r)
      BY <3>1, HolderAlone DEF HmuInv
    <3>3. CallerNext(r)
      BY <2>2 DEF CallUpdateConfig, CallerNext
    <3>4. QED
      BY <1>0, <3>2, <3>3, CallerCore
  <2>3. CASE ~CallUpdateConfig(r)
    <3>1. UNCHANGED <<running, stopCh, closed, cpc, loops>>
      BY <2>1, <2>3, Zenon
      DEF HandlerNext, PutStorageReadOnly, PutStorageSyncInterval,
          EnsureCanEnableReadOnly, UpdateStorageLocked, UpdateStorageUnlock,
          PersistConfig, PersistSnapshot, PersistBothTruncate,
          PersistBothWrite, SchedUnchanged, vars
    <3>2. QED
      BY <1>0, <3>1, StillCore
  <2>4. QED
    BY <2>2, <2>3
<1>2. CASE SchedNext
  <2>1. CASE \E r \in Callers :
               UpdateConfigStart(r) \/ UpdateConfigStop(r) \/ Spawn(r)
    <3>1. PICK r \in Callers :
               UpdateConfigStart(r) \/ UpdateConfigStop(r) \/ Spawn(r)
      BY <2>1
    <3>2. hmu = r
      BY <3>1 DEF UpdateConfigStart, UpdateConfigStop, Spawn, HmuInv,
                  SchedulerCallsUnderHmu
    <3>3. OthersQuiet(r)
      BY <3>2, HolderAlone DEF HmuInv
    <3>4. QED
      BY <1>0, <3>1, <3>3, CallerCore DEF CallerNext
  <2>2. CASE \E l \in LoopIds : LoopNext(l)
    BY <1>0, <2>2, LoopShape, FrameCore
  <2>3. CASE LocalWrite \/ PushLocal
    BY <1>0, <2>3, EnvFrame, StillCore DEF EnvNext
  <2>4. QED
    BY <1>2, <2>1, <2>2, <2>3 DEF SchedNext
<1>3. CASE WatcherReload \/ EditSideFile \/ UNCHANGED allVars
  <2>1. UNCHANGED <<running, stopCh, closed, cpc, loops>>
    BY <1>3 DEF WatcherReload, EditSideFile, SchedUnchanged, vars, allVars
  <2>2. QED
    BY <1>0, <2>1, StillCore
<1>4. QED
  BY <1>1, <1>2, <1>3 DEF MNext

(* MInv is inductive: it holds at boot ...                               *)
LEMMA MInitInv == MInit => MInv
BY MInitType, MInitReqShape, MInitCore, MInitHmu DEF MInv, HmuInv

(* ... and every step of the composition keeps it.                       *)
LEMMA MNextInv == MInv /\ [MNext]_allVars => MInv'
BY MNextType, MNextReqShape, MNextCore, MNextHmu DEF MInv, HmuInv

(* A request inside UpdateConfig, in the Start or Stop it calls or before *)
(* the "go s.run" of that Start, always holds h.mu: the storage handlers  *)
(* serialize the scheduler's callers (part_004 364-386, 396-411).         *)
THEOREM HmuSerializesScheduler == MSpec => []SchedulerCallsUnderHmu
<1>1. MInv => SchedulerCallsUnderHmu
  BY DEF MInv
<1>2. QED
  BY MInitInv, MNextInv, <1>1, PTL DEF MSpec

(* However many storage requests run at once, at most one run loop is on *)
(* an open stop channel: the control plane never leaves two sync loops    *)
(* that a Stop cannot both reach.                                          *)
THEOREM ControlPlaneOneUncancelledLoop == MSpec => []AtMostOneUncancelledLoop
<1>1. MInv => AtMostOneUncancelledLoop
  BY DEF MInv, Core
<1>2. QED
  BY MInitInv, MNextInv, <1>1, PTL DEF MSpec

-----------------------------------------------------------------------------
(* The composition drives the scheduler only through SyncLoopOwner's    *)
(* steps.                                                                 *)

(* A step of the composition other than a scheduler call leaves the      *)
(* scheduler alone, or is a loop or repository step.                      *)
LEMMA MNonCallerFrame ==
    ASSUME \/ \E r \in Callers : HandlerNext(r) /\ ~CallUpdateConfig(r)
           \/ WatcherReload \/ EditSideFile \/ UNCHANGED allVars
    PROVE  UNCHANGED <<running, stopCh, closed, cpc, myCall, loops>>
BY Zenon
DEF HandlerNext, PutStorageReadOnly, PutStorageSyncInterval,
    EnsureCanEnableReadOnly, UpdateStorageLocked, UpdateStorageUnlock,
    PersistConfig, PersistSnapshot, PersistBothTruncate, PersistBothWrite,
    SchedUnchanged, vars, WatcherReload, EditSideFile, allVars

(* Every scheduler call of the composition has its caller hold h.mu, so  *)
(* no other caller is inside the API.                                     *)
LEMMA MCallerQuiet ==
    ASSUME MInv,
           NEW r \in Callers,
           \/ CallUpdateConfig(r)
           \/ (UpdateConfigStart(r) \/ UpdateConfigStop(r) \/ Spawn(r))
    PROVE  CallerNext(r) /\ OthersQuiet(r)
<1>1. CallerNext(r)
  BY DEF CallUpdateConfig, CallerNext
<1>2. hmu = r
  BY DEF CallUpdateConfig, UpdateConfigStart, UpdateConfigStop, Spawn, MInv,
         HandlerHoldsHmu, SchedulerCallsUnderHmu, UnderLock
<1>3. QED
  BY <1>1, <1>2, HolderAlone DEF MInv

(* The Spawn slot of every caller inside the API is a loop number in the  *)
(* composition too.                                                       *)
LEMMA MInitSpawnSlot == MInit => SpawnSlot
BY DEF MInit, SpawnSlot

LEMMA MNextSpawnSlot ==
    ASSUME MInv, SpawnSlot, [MNext]_allVars
    PROVE  SpawnSlot'
<1>0. TypeOK
  BY DEF MInv, MTypeOK
<1>1. CASE \E r \in Callers : CallUpdateConfig(r)
           \/ (UpdateConfigStart(r) \/ UpdateConfigStop(r) \/ Spawn(r))
  BY <1>0, <1>1, MCallerQuiet, CallerSpawnSlot
<1>2. CASE SchedNext /\ \E l \in LoopIds : LoopNext(l)
  <2>1. UNCHANGED <<cpc, myCall>>
    BY <1>0, <1>2, LoopShape
    DEF LoopNext, CancelCtx, LoopRead, LoopCheck, SyncBegin, PullSucceeds,
        PullFails, SyncCallback, TimerFires, WaitCancelled, IdleTick,
        IdleCancelled, LoopVarsUnchanged
  <2>2. QED
    BY <2>1 DEF SpawnSlot
<1>3. CASE SchedNext /\ (LocalWrite \/ PushLocal)
  BY <1>3 DEF LocalWrite, PushLocal, SpawnSlot
<1>4. CASE \/ \E r \in Callers : HandlerNext(r) /\ ~CallUpdateConfig(r)
           \/ WatcherReload \/ EditSideFile \/ UNCHANGED allVars
  BY <1>4, MNonCallerFrame DEF SpawnSlot
<1>5. QED
  BY <1>1, <1>2, <1>3, <1>4 DEF MNext, SchedNext

(* Each step of the composition is a SyncLoopOwner step or a stutter.     *)
LEMMA MNextRefines ==
    ASSUME MInv, SpawnSlot, [MNext]_allVars
    PROVE  [Own!ONext]_Own!ovars
<1>0. TypeOK /\ Core
  BY DEF MInv, MTypeOK
<1>1. CASE \E r \in Callers : CallUpdateConfig(r)
           \/ (UpdateConfigStart(r) \/ UpdateConfigStop(r) \/ Spawn(r))
  BY <1>0, <1>1, MCallerQuiet, CallerRefines
<1>2. CASE SchedNext /\ ((\E l \in LoopIds : LoopNext(l)) \/ LocalWrite \/ PushLocal)
  <2>1. UNCHANGED <<running, Owner>>
    BY <1>0, <1>2, FrameRefines DEF EnvNext
  <2>2. QED
    BY <2>1 DEF Own!ovars
<1>3. CASE \/ \E r \in Callers : HandlerNext(r) /\ ~CallUpdateConfig(r)
           \/ WatcherReload \/ EditSideFile \/ UNCHANGED allVars
  <2>1. UNCHANGED <<running, stopCh, closed, cpc, myCall, loops>>
    BY <1>3, MNonCallerFrame
  <2>2. Owner' = Owner
    BY <2>1, OwnerSameLoops
  <2>3. QED
    BY <2>1, <2>2 DEF Own!ovars
<1>4. QED
  BY <1>1, <1>2, <1>3 DEF MNext, SchedNext

(* However the storage handlers, the watcher and hand edits interleave,  *)
(* the scheduler they drive starts a sync loop only when Running with no *)
(* loop on an open stop channel, and Stop or a restarting Start cancels  *)
(* the loop it replaces: every step refines SyncLoopOwner's.              *)
THEOREM ControlPlaneOwnerSteps == MSpec => OwnerSteps
<1>1. MInit => MInv /\ SpawnSlot
  BY MInitInv, MInitSpawnSlot
<1>2. MInv /\ SpawnSlot /\ [MNext]_allVars => (MInv /\ SpawnSlot)'
  BY MNextInv, MNextSpawnSlot
<1>3. MInv /\ SpawnSlot /\ [MNext]_allVars => [Own!ONext]_Own!ovars
  BY MNextRefines
<1>4. QED
  BY <1>1, <1>2, <1>3, PTL DEF MSpec, OwnerSteps
=============================================================================
