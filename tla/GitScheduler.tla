---------------------------- MODULE GitScheduler ----------------------------
(***************************************************************************)
(* The read-only sync scheduler (GitScheduler, src/unnamed/part_003).      *)
(*                                                                         *)
(* Actors:                                                                 *)
(*   - callers of the public API (Start, Stop, UpdateConfig), one process  *)
(*     per element of Callers.  The management handler calls the API      *)
(*     while holding its own mutex h.mu, so a single caller models the     *)
(*     serialized control plane and several callers model unserialized    *)
(*     use;                                                               *)
(*   - the run loops started by Start (goroutine s.run), one per loop id,  *)
(*     each with its cancel helper goroutine (the <-stopCh; cancel()      *)
(*     goroutine);                                                        *)
(*   - the environment: the shared Config State flag (read-only) that the  *)
(*     control plane and the file watcher set, and the repository         *)
(*     collaborator, where local writes make "pending" changes.           *)
(*                                                                         *)
(* Stop channels are numbered generations: stopCh is the generation the   *)
(* scheduler currently holds, closed the set of generations that have     *)
(* been closed.  Closing a closed channel panics in Go; the panic unwinds *)
(* past s.mu.Unlock() (there is no defer), so the mutex stays locked for  *)
(* ever: wedged.                                                           *)
(***************************************************************************)
EXTENDS Naturals

CONSTANTS
    Callers,    \* the goroutines that call Start / Stop / UpdateConfig
    MaxCalls    \* bound on the number of API calls in one behaviour

ASSUME CallersAssumption == Callers # {}
ASSUME MaxCallsAssumption == MaxCalls \in Nat

VARIABLES
    running,    \* s.running
    stopCh,     \* generation of s.stopCh
    closed,     \* generations of stop channels already closed
    wedged,     \* s.mu is held for ever by a goroutine that panicked
    cfgSet,     \* s.config # nil
    hasStore,   \* s.tokenStore # nil (fixed at construction)
    cfgRO,      \* the shared Config State flag cfg.IsReadOnlyStorage()
    loops,      \* loops[l]: goroutine s.run number l
    cpc,        \* cpc[c]: where caller c is in the scheduler API
    myCall,     \* myCall[c]: number of the API call c is executing
    calls,      \* number of API calls made so far
    pending,    \* the working copy holds uncommitted or unpushed changes
    discarded   \* a hard reset has thrown local changes away

vars == <<running, stopCh, closed, wedged, cfgSet, hasStore, cfgRO, loops,
          cpc, myCall, calls, pending, discarded>>

LoopIds == 1..MaxCalls

\* Program points of a run loop; "none" for a goroutine never started.
LoopPCs == {"none", "read", "check", "sync", "pull", "callback", "wait",
            "idle", "exited"}

\* Program points of a caller: between calls, after Start released the
\* lock but before "go s.run(s.stopCh)", after UpdateConfig decided to
\* start or to stop, and dead after a panic while holding s.mu.
CallerPCs == {"idle", "spawn", "upd_start", "upd_stop", "dead"}

LoopRec == [ch : Nat, pc : LoopPCs, ctx : BOOLEAN]

NoLoop == [ch |-> 0, pc |-> "none", ctx |-> FALSE]

Spawned(l) == loops[l].pc # "none"

-----------------------------------------------------------------------------
(* Initial state: NewGitScheduler(cfg, store) (part_003 lines 26-33).     *)
Init ==
    /\ running = FALSE
    /\ stopCh = 0
    /\ closed = {}
    /\ wedged = FALSE
    /\ cfgSet \in BOOLEAN
    /\ hasStore \in BOOLEAN
    /\ cfgRO \in BOOLEAN
    /\ loops = [l \in LoopIds |-> NoLoop]
    /\ cpc = [c \in Callers |-> "idle"]
    /\ myCall = [c \in Callers |-> 0]
    /\ calls = 0
    /\ pending \in BOOLEAN
    /\ discarded = FALSE

\* A caller begins a public API call.
BeginCall(c) ==
    /\ cpc[c] = "idle"
    /\ calls < MaxCalls
    /\ calls' = calls + 1
    /\ myCall' = [myCall EXCEPT ![c] = calls + 1]

\* close() of a closed channel panics while s.mu is held: the caller dies
\* and the mutex is never unlocked.
Panic(c) ==
    /\ wedged' = TRUE
    /\ cpc' = [cpc EXCEPT ![c] = "dead"]
    /\ UNCHANGED <<running, stopCh, closed>>

\* Mutant of StartLocked: a restart replaces s.stopCh without closing the
\* old channel first.
StartLockedKeepsOldChannel(c) ==
    /\ ~wedged
    /\ \/ /\ running /\ stopCh \in closed
          /\ Panic(c)
       \/ /\ ~(running /\ stopCh \in closed)
          /\ closed' = closed
          /\ stopCh' = IF running THEN stopCh + 1 ELSE stopCh
          /\ running' = (cfgSet /\ hasStore)
          /\ cpc' = [cpc EXCEPT ![c] = IF cfgSet /\ hasStore THEN "spawn"
                                                             ELSE "idle"]
          /\ UNCHANGED wedged

\* Mutant of StopLocked: Stop clears s.running but forgets close(s.stopCh).
StopLockedWithoutClose(c) ==
    /\ ~wedged
    /\ \/ /\ ~running
          /\ cpc' = [cpc EXCEPT ![c] = "idle"]
          /\ UNCHANGED <<running, stopCh, closed, wedged>>
       \/ /\ running
          /\ running' = FALSE
          /\ cpc' = [cpc EXCEPT ![c] = "idle"]
          /\ UNCHANGED <<stopCh, closed, wedged>>

(* The locked part of Start (lines 46-69): stop a running loop by closing *)
(* and replacing the stop channel, refuse a nil config or token store,    *)
(* otherwise mark running and go on to spawn the loop.                    *)
StartLocked(c) ==
    /\ ~wedged
    /\ \/ /\ running /\ stopCh \in closed
          /\ Panic(c)
       \/ /\ ~(running /\ stopCh \in closed)
          /\ closed' = IF running THEN closed \cup {stopCh} ELSE closed
          /\ stopCh' = IF running THEN stopCh + 1 ELSE stopCh
          /\ running' = (cfgSet /\ hasStore)
          /\ cpc' = [cpc EXCEPT ![c] = IF cfgSet /\ hasStore THEN "spawn"
                                                             ELSE "idle"]
          /\ UNCHANGED wedged

(* The locked part of Stop (lines 81-92): nothing if not running,         *)
(* otherwise close the current stop channel (not replaced) and clear      *)
(* running.                                                               *)
StopLocked(c) ==
    /\ ~wedged
    /\ \/ /\ ~running
          /\ cpc' = [cpc EXCEPT ![c] = "idle"]
          /\ UNCHANGED <<running, stopCh, closed, wedged>>
       \/ /\ running /\ stopCh \in closed
          /\ Panic(c)
       \/ /\ running /\ stopCh \notin closed
          /\ closed' = closed \cup {stopCh}
          /\ running' = FALSE
          /\ cpc' = [cpc EXCEPT ![c] = "idle"]
          /\ UNCHANGED <<stopCh, wedged>>

Start(c) ==
    /\ BeginCall(c)
    /\ StartLocked(c)
    /\ UNCHANGED <<cfgSet, hasStore, cfgRO, loops, pending, discarded>>

Stop(c) ==
    /\ BeginCall(c)
    /\ StopLocked(c)
    /\ UNCHANGED <<cfgSet, hasStore, cfgRO, loops, pending, discarded>>

(* "go s.run(s.stopCh)" (line 74): s.stopCh is read after the unlock.     *)
Spawn(c) ==
    /\ cpc[c] = "spawn"
    /\ loops' = [loops EXCEPT ![myCall[c]] =
                    [ch |-> stopCh, pc |-> "read", ctx |-> FALSE]]
    /\ cpc' = [cpc EXCEPT ![c] = "idle"]
    /\ UNCHANGED <<running, stopCh, closed, wedged, cfgSet, hasStore, cfgRO,
                   myCall, calls, pending, discarded>>

(* UpdateConfig (lines 267-283): under s.mu store the config and compare  *)
(* the desired state (read-only flag) with the running flag.              *)
UpdateConfig(c) ==
    /\ BeginCall(c)
    /\ ~wedged
    /\ cfgSet' = TRUE
    /\ cpc' = [cpc EXCEPT ![c] =
                 IF cfgRO /\ ~running THEN "upd_start"
                 ELSE IF ~cfgRO /\ running THEN "upd_stop"
                 ELSE "idle"]
    /\ UNCHANGED <<running, stopCh, closed, wedged, hasStore, cfgRO, loops,
                   pending, discarded>>

(* UpdateConfig calls Start or Stop on the decision it took (285-292).    *)
UpdateConfigStart(c) ==
    /\ cpc[c] = "upd_start"
    /\ StartLocked(c)
    /\ UNCHANGED <<cfgSet, hasStore, cfgRO, loops, myCall, calls, pending,
                   discarded>>

UpdateConfigStop(c) ==
    /\ cpc[c] = "upd_stop"
    /\ StopLocked(c)
    /\ UNCHANGED <<cfgSet, hasStore, cfgRO, loops, myCall, calls, pending,
                   discarded>>

-----------------------------------------------------------------------------
(* The run loop l (lines 98-164) and sync (167-196).                      *)

SetLoop(l, field, v) == loops' = [loops EXCEPT ![l][field] = v]

LoopStep(l, from, to) ==
    /\ loops[l].pc = from
    /\ SetLoop(l, "pc", to)

LoopVarsUnchanged ==
    UNCHANGED <<running, stopCh, closed, wedged, cfgSet, hasStore, cfgRO,
                cpc, myCall, calls, pending, discarded>>

\* The helper goroutine: <-stopCh; cancel() (lines 105-108).
CancelCtx(l) ==
    /\ Spawned(l)
    /\ loops[l].ch \in closed
    /\ ~loops[l].ctx
    /\ SetLoop(l, "ctx", TRUE)
    /\ LoopVarsUnchanged

\* Read running under s.mu; exit when not running (lines 112-120).
LoopRead(l) ==
    /\ ~wedged
    /\ LoopStep(l, "read", IF running THEN "check" ELSE "exited")
    /\ LoopVarsUnchanged

\* cfg.IsReadOnlyStorage() chooses the sync branch or the idle branch (123).
LoopCheck(l) ==
    /\ LoopStep(l, "check", IF cfgRO THEN "sync" ELSE "idle")
    /\ LoopVarsUnchanged

\* sync() re-reads s.config.IsReadOnlyStorage() (line 170); when it is off
\* the sync is skipped and the loop arms its timer.
SyncBegin(l) ==
    /\ LoopStep(l, "sync", IF cfgRO THEN "pull" ELSE "wait")
    /\ LoopVarsUnchanged

(* EnsureRepository, then pullChanges: fetch, resolve origin/HEAD, main or *)
(* master, hard reset (lines 172-178, 202-263).  Any of these steps may   *)
(* fail; the hard reset is all or nothing, and on success the working     *)
(* copy equals the remote: local changes are gone.                        *)
PullSucceeds(l) ==
    /\ LoopStep(l, "pull", "callback")
    /\ pending' = FALSE
    /\ discarded' = (discarded \/ pending)
    /\ UNCHANGED <<running, stopCh, closed, wedged, cfgSet, hasStore, cfgRO,
                   cpc, myCall, calls>>

PullFails(l) ==
    /\ LoopStep(l, "pull", "wait")
    /\ LoopVarsUnchanged

\* The completion callback is read under s.mu and invoked (lines 182-188).
SyncCallback(l) ==
    /\ ~wedged
    /\ LoopStep(l, "callback", "wait")
    /\ LoopVarsUnchanged

\* select on the interval timer and ctx.Done() (lines 137-151).
TimerFires(l) ==
    /\ LoopStep(l, "wait", "read")
    /\ LoopVarsUnchanged

WaitCancelled(l) ==
    /\ loops[l].ctx
    /\ LoopStep(l, "wait", "exited")
    /\ LoopVarsUnchanged

\* Read-only off: select on ctx.Done() and a one-second tick (155-161).
IdleTick(l) ==
    /\ LoopStep(l, "idle", "read")
    /\ LoopVarsUnchanged

IdleCancelled(l) ==
    /\ loops[l].ctx
    /\ LoopStep(l, "idle", "exited")
    /\ LoopVarsUnchanged

-----------------------------------------------------------------------------
(* The environment.                                                       *)

\* cfg.SetReadOnlyStorage(b): the Config State setter, used by the control
\* plane and by the file watcher's reload.
SetReadOnlyStorage(b) ==
    /\ cfgRO' = b
    /\ UNCHANGED <<running, stopCh, closed, wedged, cfgSet, hasStore, loops,
                   cpc, myCall, calls, pending, discarded>>

\* The token store writes a credential while read-only is off: the write
\* is local until it is pushed.
LocalWrite ==
    /\ ~cfgRO
    /\ pending' = TRUE
    /\ UNCHANGED <<running, stopCh, closed, wedged, cfgSet, hasStore, cfgRO,
                   loops, cpc, myCall, calls, discarded>>

\* The token store commits and pushes its local changes; it does not push
\* while read-only is on.
PushLocal ==
    /\ ~cfgRO
    /\ pending
    /\ pending' = FALSE
    /\ UNCHANGED <<running, stopCh, closed, wedged, cfgSet, hasStore, cfgRO,
                   loops, cpc, myCall, calls, discarded>>

-----------------------------------------------------------------------------
CallerNext(c) ==
    \/ Start(c) \/ Stop(c) \/ Spawn(c)
    \/ UpdateConfig(c) \/ UpdateConfigStart(c) \/ UpdateConfigStop(c)

LoopNext(l) ==
    \/ CancelCtx(l) \/ LoopRead(l) \/ LoopCheck(l) \/ SyncBegin(l)
    \/ PullSucceeds(l) \/ PullFails(l) \/ SyncCallback(l)
    \/ TimerFires(l) \/ WaitCancelled(l) \/ IdleTick(l) \/ IdleCancelled(l)

EnvNext ==
    \/ \E b \in BOOLEAN : SetReadOnlyStorage(b)
    \/ LocalWrite
    \/ PushLocal

Next ==
    \/ \E c \in Callers : CallerNext(c)
    \/ \E l \in LoopIds : LoopNext(l)
    \/ EnvNext

Spec == Init /\ [][Next]_vars

-----------------------------------------------------------------------------
(* Properties.                                                            *)

TypeOK ==
    /\ running \in BOOLEAN
    /\ stopCh \in Nat
    /\ closed \subseteq Nat
    /\ wedged \in BOOLEAN
    /\ cfgSet \in BOOLEAN
    /\ hasStore \in BOOLEAN
    /\ cfgRO \in BOOLEAN
    /\ loops \in [LoopIds -> LoopRec]
    /\ cpc \in [Callers -> CallerPCs]
    /\ myCall \in [Callers -> 0..MaxCalls]
    /\ calls \in 0..MaxCalls
    /\ pending \in BOOLEAN
    /\ discarded \in BOOLEAN

\* A loop that a later close() can still cancel: started, on an open channel.
Uncancelled(l) == Spawned(l) /\ loops[l].ch \notin closed

(* At most one run loop is ever uncancelled: Start closes the previous    *)
(* stop channel before it replaces it, so a Stop (one close of s.stopCh)  *)
(* reaches every loop still running.  Two uncancelled loops would both    *)
(* sync the same working copy and survive every Stop but one.             *)
AtMostOneUncancelledLoop ==
    \A l1, l2 \in LoopIds : Uncancelled(l1) /\ Uncancelled(l2) => l1 = l2

(* Stop and Start never close a stop channel that is already closed (the  *)
(* spec: closing an already-closed signal is a programming error to guard *)
(* against; repeated Start is "safe").  In Go this panics with s.mu held. *)
NoCloseOfClosedChannel == ~wedged

(* At most one run loop is inside a fetch and hard reset at any time (the *)
(* spec: no two loop instances run concurrently for the same scheduler).  *)
NoConcurrentPulls ==
    \A l1, l2 \in LoopIds :
        loops[l1].pc = "pull" /\ loops[l2].pc = "pull" => l1 = l2

-----------------------------------------------------------------------------
(* The inductive strengthening of AtMostOneUncancelledLoop for a single    *)
(* caller, in named parts: stop channels are generations below stopCh,    *)
(* all older ones closed; a loop on an open channel exists only while the *)
(* scheduler runs and no spawn is pending; a pending spawn comes after    *)
(* every earlier loop's channel was closed.                               *)
ChannelGenerations ==
    /\ \A g \in 0..(stopCh - 1) : g \in closed
    /\ closed \subseteq 0..stopCh

LoopsOnKnownChannels ==
    \A l \in LoopIds : Spawned(l) => loops[l].ch <= stopCh

OpenLoopMeansRunning ==
    \A l \in LoopIds : Uncancelled(l) =>
        running /\ \A c \in Callers : cpc[c] # "spawn"

SpawnAfterAllClosed ==
    \A c \in Callers : cpc[c] = "spawn" =>
        /\ running
        /\ \A l \in LoopIds : Spawned(l) => loops[l].ch \in closed

SchedulerInv ==
    /\ TypeOK
    /\ ChannelGenerations
    /\ LoopsOnKnownChannels
    /\ OpenLoopMeansRunning
    /\ SpawnAfterAllClosed
    /\ AtMostOneUncancelledLoop

-----------------------------------------------------------------------------
(* The abstract view: s.running is the phase, and the loop on an open     *)
(* stop channel, if any, is the owner.                                    *)
Owner ==
    IF \E l \in LoopIds : Uncancelled(l)
    THEN CHOOSE l \in LoopIds : Uncancelled(l)
    ELSE 0

Own == INSTANCE SyncLoopOwner WITH Loops <- LoopIds, active <- running,
                                   owner <- Owner

(* The git scheduler implements SyncLoopOwner: a loop gets an open stop   *)
(* channel only while running and no loop has one (go s.run after Start), *)
(* and loses it only by the close of Stop or of a restart's Start.        *)
OwnerRefinement == Own!OSpec

=============================================================================
