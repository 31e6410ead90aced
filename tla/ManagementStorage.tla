-------------------------- MODULE ManagementStorage --------------------------
(***************************************************************************)
(* The management control plane's storage endpoints (src/unnamed/part_004) *)
(* composed with the scheduler (GitScheduler), the side file               *)
(* data/read_only_storage.json and its watcher (package config, embedded   *)
(* in src/ARCHITECTURE.md).                                                *)
(*                                                                         *)
(* Each element of Callers is one HTTP request to PUT storage/readonly or  *)
(* PUT storage/sync-interval; the request is also the scheduler's caller   *)
(* when its handler calls s.UpdateConfig while holding h.mu.  The watcher  *)
(* goroutine reloads Config State on every write event of the side file;  *)
(* an operator may edit the side file by hand.                             *)
(*                                                                         *)
(* os.WriteFile truncates the file before it writes the new content, and  *)
(* each of the two is a write event: the watcher may read the empty file  *)
(* in between, which does not parse.                                       *)
(***************************************************************************)
EXTENDS GitScheduler

CONSTANTS
    Intervals,  \* sync intervals (minutes) a request or an edit may carry
    MaxEvents,  \* bound on the watcher's queued events
    MaxEdits,   \* bound on hand edits of the side file
    NoReq       \* h.mu is not held for writing

ASSUME IntervalsAssumption == Intervals \subseteq Nat \ {0}
ASSUME MaxEventsAssumption == MaxEvents \in Nat
ASSUME MaxEditsAssumption == MaxEdits \in Nat
ASSUME NoReqAssumption == NoReq \notin Callers
\* A booted scheduler has made its first call (the Start of loop 1).
ASSUME BootCallAssumption == MaxCalls >= 1

VARIABLES
    cfgIv,      \* Config State: syncIntervalMinutes
    hmu,        \* the request holding h.mu for writing, or NoReq
    hpc,        \* hpc[r]: where the handler of request r is
    req,        \* req[r]: the operation of r and the two values it persists
    side,       \* contents of the side file
    events,     \* write events of the side file not yet seen by the watcher
    edits       \* hand edits of the side file so far

mvars == <<cfgIv, hmu, hpc, req, side, events, edits>>

allVars == <<vars, mvars>>

\* Handler program points, in the order of PutStorageReadOnly and
\* PutStorageSyncInterval with the helpers they call.
HPCs == {"idle", "gate", "lock", "sched", "in_sched", "persist", "snap",
         "truncate", "write", "done"}

\* The side file: absent, present but not valid JSON (an empty file
\* included), or a ReadOnlyStorageConfig; iv = 0 is an omitted interval.
SideFiles == [st : {"absent", "corrupt"}, ro : {FALSE}, iv : {0}]
             \cup [st : {"valid"}, ro : BOOLEAN, iv : {0} \cup Intervals]

Absent == [st |-> "absent", ro |-> FALSE, iv |-> 0]
Corrupt == [st |-> "corrupt", ro |-> FALSE, iv |-> 0]
Doc(ro, iv) == [st |-> "valid", ro |-> ro, iv |-> iv]

\* LoadReadOnlyStorageConfig (ARCHITECTURE.md 229-256): an absent file and
\* a file that does not parse both give read-only false; the interval is
\* taken only when positive.
LoadedRO(f) == f.st = "valid" /\ f.ro
LoadedIv(f, old) == IF f.st = "valid" /\ f.iv > 0 THEN f.iv ELSE old

\* A write event for the watcher (saturating at the bound).
Notify == events' = IF events < MaxEvents THEN events + 1 ELSE events

-----------------------------------------------------------------------------
(* Start-up: Config State is loaded from the side file, the scheduler is   *)
(* built with the config and started when read-only is on (its first loop *)
(* is loop 1, on stop channel 0); no request is in flight.  The side file *)
(* says read-only only after the gate let it be enabled, so the working   *)
(* copy then holds no local change.                                       *)
Booted == cfgRO /\ hasStore

MInit ==
    /\ side \in SideFiles
    /\ cfgRO = LoadedRO(side)
    /\ cfgIv \in Intervals
    /\ cfgIv = LoadedIv(side, cfgIv)
    /\ hasStore \in BOOLEAN
    /\ pending \in BOOLEAN
    /\ cfgRO => ~pending
    /\ discarded = FALSE
    /\ cfgSet = TRUE
    /\ running = Booted
    /\ stopCh = 0
    /\ closed = {}
    /\ wedged = FALSE
    /\ loops = [l \in LoopIds |->
                 IF Booted /\ l = 1 THEN [ch |-> 0, pc |-> "read", ctx |-> FALSE]
                                     ELSE NoLoop]
    /\ calls = IF Booted THEN 1 ELSE 0
    /\ cpc = [c \in Callers |-> "idle"]
    /\ myCall = [c \in Callers |-> 0]
    /\ hmu = NoReq
    /\ hpc = [r \in Callers |-> "idle"]
    /\ req = [r \in Callers |-> [op |-> "none", ro |-> FALSE, iv |-> 0]]
    /\ events = 0
    /\ edits = 0

SetPC(r, pc) == hpc' = [hpc EXCEPT ![r] = pc]

\* The handler steps below leave the scheduler and the repository alone.
SchedUnchanged == UNCHANGED vars

\* PutStorageReadOnly (part_004 313-330): a body with a Boolean value;
\* enabling read-only goes through ensureCanEnableReadOnly first.  An
\* invalid body is answered 400 and changes nothing.
PutStorageReadOnly(r) ==
    /\ hpc[r] = "idle"
    /\ \E v \in BOOLEAN :
          /\ req' = [req EXCEPT ![r] = [op |-> "ro", ro |-> v, iv |-> 0]]
          /\ SetPC(r, IF v THEN "gate" ELSE "lock")
    /\ SchedUnchanged
    /\ UNCHANGED <<cfgIv, hmu, side, events, edits>>

\* PutStorageSyncInterval (part_004 347-361): parseIntField accepts a whole
\* number of at least one minute (the others are answered 400).
PutStorageSyncInterval(r) ==
    /\ hpc[r] = "idle"
    /\ \E n \in Intervals :
          req' = [req EXCEPT ![r] = [op |-> "iv", ro |-> FALSE, iv |-> n]]
    /\ SetPC(r, "lock")
    /\ SchedUnchanged
    /\ UNCHANGED <<cfgIv, hmu, side, events, edits>>

\* ensureCanEnableReadOnly (573-590), outside h.mu: HasPendingLocalChanges
\* fails without a token store (500) and refuses with pending changes (400).
EnsureCanEnableReadOnly(r) ==
    /\ hpc[r] = "gate"
    /\ SetPC(r, IF hasStore /\ ~pending THEN "lock" ELSE "done")
    /\ SchedUnchanged
    /\ UNCHANGED <<cfgIv, hmu, req, side, events, edits>>

\* updateStorageReadOnly / updateStorageSyncInterval (364-370, 396-401):
\* take h.mu and set the field in Config State.
UpdateStorageLocked(r) ==
    /\ hpc[r] = "lock"
    /\ hmu = NoReq
    /\ hmu' = r
    /\ IF req[r].op = "ro"
          THEN cfgRO' = req[r].ro /\ UNCHANGED cfgIv
          ELSE cfgIv' = req[r].iv /\ UNCHANGED cfgRO
    /\ SetPC(r, "sched")
    /\ UNCHANGED <<running, stopCh, closed, wedged, cfgSet, hasStore, loops,
                   cpc, myCall, calls, pending, discarded>>
    /\ UNCHANGED <<req, side, events, edits>>

\* h.scheduler.UpdateConfig(cfgSnapshot) (374, 405), still under h.mu.
CallUpdateConfig(r) ==
    /\ hpc[r] = "sched"
    /\ UpdateConfig(r)
    /\ SetPC(r, "in_sched")
    /\ UNCHANGED <<cfgIv, hmu, req, side, events, edits>>

\* Mutant of UpdateStorageUnlock: h.mu is released as soon as UpdateConfig
\* has decided, before the Start or Stop it goes on to has finished.
UpdateStorageUnlockEarly(r) ==
    /\ hpc[r] = "in_sched"
    /\ cpc[r] # "dead"
    /\ hmu' = NoReq
    /\ SetPC(r, "persist")
    /\ SchedUnchanged
    /\ UNCHANGED <<cfgIv, req, side, events, edits>>

\* Mutant of UpdateStorageUnlock: the h.mu.Unlock() is missing.
UpdateStorageUnlockKeepsLock(r) ==
    /\ hpc[r] = "in_sched"
    /\ cpc[r] = "idle"
    /\ SetPC(r, "persist")
    /\ SchedUnchanged
    /\ UNCHANGED <<cfgIv, hmu, req, side, events, edits>>

\* UpdateConfig has returned (the Start or Stop it called included), and
\* h.mu is released (386, 411).  A caller that panicked inside the
\* scheduler never returns here, and h.mu stays locked.
UpdateStorageUnlock(r) ==
    /\ hpc[r] = "in_sched"
    /\ cpc[r] = "idle"
    /\ hmu' = NoReq
    /\ SetPC(r, "persist")
    /\ SchedUnchanged
    /\ UNCHANGED <<cfgIv, req, side, events, edits>>

\* persistConfig -> persist(nil) (240-258): h.mu is taken to snapshot the
\* config and released, then the main config file is saved; its error is
\* dropped by the caller.
PersistConfig(r) ==
    /\ hpc[r] = "persist"
    /\ hmu = NoReq
    /\ SetPC(r, "snap")
    /\ SchedUnchanged
    /\ UNCHANGED <<cfgIv, hmu, req, side, events, edits>>

\* persistReadOnlyToJSONAfterUnlock / persistSyncIntervalToJSONAfterUnlock
\* (460-488): read the other field of Config State under h.mu.RLock().
PersistSnapshot(r) ==
    /\ hpc[r] = "snap"
    /\ hmu = NoReq
    /\ req' = [req EXCEPT ![r] = IF req[r].op = "ro"
                                    THEN [@ EXCEPT !.iv = cfgIv]
                                    ELSE [@ EXCEPT !.ro = cfgRO]]
    /\ SetPC(r, "truncate")
    /\ SchedUnchanged
    /\ UNCHANGED <<cfgIv, hmu, side, events, edits>>

\* persistBothToJSONAfterUnlock (422-439, 452): nothing is written when
\* the side file does not parse (return at 437) or os.WriteFile cannot
\* open it; otherwise WriteFile truncates it, a write event, and a file
\* that did not exist is created empty.
PersistBothTruncate(r) ==
    /\ hpc[r] = "truncate"
    /\ \/ /\ SetPC(r, "done")
          /\ UNCHANGED <<side, events>>
       \/ /\ side.st # "corrupt"
          /\ side' = Corrupt
          /\ Notify
          /\ SetPC(r, "write")
    /\ SchedUnchanged
    /\ UNCHANGED <<cfgIv, hmu, req, edits>>

\* The content is written (a write event), or the write fails and leaves
\* the file empty (452-455).
PersistBothWrite(r) ==
    /\ hpc[r] = "write"
    /\ \/ /\ side' = Doc(req[r].ro, req[r].iv)
          /\ Notify
       \/ UNCHANGED <<side, events>>
    /\ SetPC(r, "done")
    /\ SchedUnchanged
    /\ UNCHANGED <<cfgIv, hmu, req, edits>>

-----------------------------------------------------------------------------
(* The watcher goroutine (ARCHITECTURE.md 274-305) and the operator.      *)

\* A write event of the side file: LoadReadOnlyStorageConfig sets the
\* read-only flag and, when positive, the interval.  The scheduler is not
\* told.
WatcherReload ==
    /\ events > 0
    /\ events' = events - 1
    /\ cfgRO' = LoadedRO(side)
    /\ cfgIv' = LoadedIv(side, cfgIv)
    /\ UNCHANGED <<running, stopCh, closed, wedged, cfgSet, hasStore, loops,
                   cpc, myCall, calls, pending, discarded>>
    /\ UNCHANGED <<hmu, hpc, req, side, edits>>

\* An operator or an orchestration tool rewrites the side file.
EditSideFile ==
    /\ edits < MaxEdits
    /\ edits' = edits + 1
    /\ \E f \in SideFiles \ {Absent} : side' = f
    /\ Notify
    /\ SchedUnchanged
    /\ UNCHANGED <<cfgIv, hmu, hpc, req>>

-----------------------------------------------------------------------------
HandlerNext(r) ==
    \/ PutStorageReadOnly(r) \/ PutStorageSyncInterval(r)
    \/ EnsureCanEnableReadOnly(r) \/ UpdateStorageLocked(r)
    \/ CallUpdateConfig(r) \/ UpdateStorageUnlock(r) \/ PersistConfig(r)
    \/ PersistSnapshot(r) \/ PersistBothTruncate(r) \/ PersistBothWrite(r)

\* The scheduler's own steps: the Start or Stop UpdateConfig goes on to,
\* the loops and the repository.  Nothing else calls the scheduler API.
SchedNext ==
    /\ \/ \E r \in Callers :
             UpdateConfigStart(r) \/ UpdateConfigStop(r) \/ Spawn(r)
       \/ \E l \in LoopIds : LoopNext(l)
       \/ LocalWrite
       \/ PushLocal
    /\ UNCHANGED mvars

MNext ==
    \/ \E r \in Callers : HandlerNext(r)
    \/ SchedNext
    \/ WatcherReload
    \/ EditSideFile

MSpec == MInit /\ [][MNext]_allVars

(* Fairness: every handler goroutine, every scheduler caller and every   *)
(* loop goroutine that can take a step eventually does (Go schedules all  *)
(* runnable goroutines, and sync.Mutex hands the lock on in starvation    *)
(* mode); the watcher eventually handles a queued event.  Nothing forces  *)
(* the environment: local writes and hand edits may never happen.         *)
MFairSpec ==
    /\ MSpec
    /\ \A r \in Callers : WF_allVars(HandlerNext(r))
    /\ \A r \in Callers :
          WF_allVars((UpdateConfigStart(r) \/ UpdateConfigStop(r) \/ Spawn(r))
                     /\ UNCHANGED mvars)
    /\ \A l \in LoopIds : WF_allVars(LoopNext(l) /\ UNCHANGED mvars)
    /\ WF_allVars(WatcherReload)

-----------------------------------------------------------------------------
(* Properties.                                                            *)

MTypeOK ==
    /\ TypeOK
    /\ cfgIv \in Intervals
    /\ hmu \in Callers \cup {NoReq}
    /\ hpc \in [Callers -> HPCs]
    /\ req \in [Callers -> [op : {"none", "ro", "iv"}, ro : BOOLEAN,
                            iv : {0} \cup Intervals]]
    /\ side \in SideFiles
    /\ events \in 0..MaxEvents
    /\ edits \in 0..MaxEdits

(* Local changes are never thrown away by a hard reset: PutStorageReadOnly *)
(* refuses to enable read-only while HasPendingLocalChanges reports any    *)
(* (spec: the control plane never silently discards local changes).       *)
NoLocalChangeDiscarded == ~discarded

(* h.mu serializes the scheduler's callers: a request that is inside     *)
(* UpdateConfig (deciding, in the Start or Stop it calls, or before the   *)
(* "go s.run" of that Start) holds h.mu.  Releasing h.mu any earlier lets *)
(* a second request's Start or Stop interleave with the first.            *)
SchedulerCallsUnderHmu ==
    \A r \in Callers : cpc[r] \in {"upd_start", "upd_stop", "spawn"} => hmu = r

(* Whatever the storage handlers, the watcher and the hand edits do, the  *)
(* scheduler they drive hands the sync loop on only as SyncLoopOwner       *)
(* allows: a new loop is started only once no loop is on an open stop      *)
(* channel and the scheduler is Running, and Stop closes the current       *)
(* channel before anything else can start.  (The composition boots with a  *)
(* loop already started, so only the steps of SyncLoopOwner are stated.)   *)
OwnerSteps == [][Own!ONext]_Own!ovars

\* No request is in flight and the watcher has seen every write.
Quiescent ==
    /\ \A r \in Callers : hpc[r] \in {"idle", "done"}
    /\ events = 0

(* When the control plane is at rest, the scheduler runs exactly when     *)
(* Config State says read-only (spec: the in-memory value is committed    *)
(* once accepted, and UpdateConfig makes the scheduler start or stop to   *)
(* match it).  The watcher's reload sets the flag but never tells the     *)
(* scheduler.                                                             *)
QuiescentSchedulerMatchesFlag ==
    Quiescent /\ hasStore => (cfgRO <=> running)

(* Every management request that has begun is eventually answered: h.mu  *)
(* is released after UpdateConfig returns, and nothing holds it for ever. *)
(* A panic inside UpdateConfig (double close) leaves h.mu locked.         *)
RequestsComplete ==
    \A r \in Callers : hpc[r] # "idle" ~> hpc[r] = "done"

=============================================================================
