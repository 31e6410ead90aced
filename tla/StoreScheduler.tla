---------------------------- MODULE StoreScheduler ----------------------------
(***************************************************************************)
(* The sync scheduler of package store (src/internal/store/scheduler.go).  *)
(*                                                                         *)
(* One caller uses the scheduler's API (Start, Stop, UpdateConfig) one    *)
(* call at a time, as the management handler does under h.mu.  Each call  *)
(* spawns at most one run goroutine; loops[l] is the goroutine spawned by *)
(* call l.  Stop channels are numbered by generation: stopCh is the one   *)
(* s.stopCh holds, closed the generations already closed.  A close of a   *)
(* closed channel panics with s.mu held (no defer): the mutex stays       *)
(* locked for ever, which is wedged.                                       *)
(*                                                                         *)
(* The read-only flag cfg.Storage.ReadOnly is a plain field of the shared *)
(* config that the handler and the watcher write without s.mu.           *)
(***************************************************************************)
EXTENDS Naturals

CONSTANT MaxCalls   \* bound on the API calls of the caller

ASSUME MaxCallsAssumption == MaxCalls \in Nat

VARIABLES
    running,    \* s.running
    stopCh,     \* generation of s.stopCh
    closed,     \* generations already closed
    wedged,     \* s.mu is locked for ever after a panic
    cfgSet,     \* s.config != nil
    hasStore,   \* s.tokenStore != nil
    cfgRO,      \* cfg.Storage.ReadOnly
    loops,      \* loops[l]: channel, program point and ctx of goroutine l
    cpc,        \* where the caller is: idle, start, stop or spawn
    calls       \* API calls made so far

svars == <<running, stopCh, closed, wedged, cfgSet, hasStore, cfgRO,
           loops, cpc, calls>>

LoopIds == 1..MaxCalls

LoopPCs == {"none", "read", "wait", "idle", "sync", "pull", "exit"}

NoLoop == [ch |-> 0, pc |-> "none", ctx |-> FALSE]

\* NewGitScheduler (25-32): a fresh open channel, not running.
SInit ==
    /\ running = FALSE
    /\ stopCh = 0
    /\ closed = {}
    /\ wedged = FALSE
    /\ cfgSet \in BOOLEAN
    /\ hasStore \in BOOLEAN
    /\ cfgRO \in BOOLEAN
    /\ loops = [l \in LoopIds |-> NoLoop]
    /\ cpc = "idle"
    /\ calls = 0

SetLoop(l, pc) == loops' = [loops EXCEPT ![l].pc = pc]

-----------------------------------------------------------------------------
(* The caller.                                                             *)

\* The caller calls Start or Stop directly (at boot, or any serialized
\* caller of the API).
CallStart ==
    /\ cpc = "idle" /\ calls < MaxCalls
    /\ calls' = calls + 1 /\ cpc' = "start"
    /\ UNCHANGED <<running, stopCh, closed, wedged, cfgSet, hasStore, cfgRO,
                   loops>>

CallStop ==
    /\ cpc = "idle" /\ calls < MaxCalls
    /\ calls' = calls + 1 /\ cpc' = "stop"
    /\ UNCHANGED <<running, stopCh, closed, wedged, cfgSet, hasStore, cfgRO,
                   loops>>

(* UpdateConfig (228-256) with a non-nil config: under s.mu it stores the *)
(* config and reads the flag and s.running, then unlocks and calls Start  *)
(* or Stop when they differ.                                              *)
UpdateConfig ==
    /\ cpc = "idle" /\ calls < MaxCalls
    /\ ~wedged
    /\ calls' = calls + 1
    /\ cfgSet' = TRUE
    /\ cpc' = CASE cfgRO /\ ~running -> "start"
                [] ~cfgRO /\ running -> "stop"
                [] OTHER -> "idle"
    /\ UNCHANGED <<running, stopCh, closed, wedged, hasStore, cfgRO, loops>>

\* close(s.stopCh) of a closed channel panics with s.mu held; the call
\* unwinds (gin recovers) and s.mu is never unlocked.
Panic ==
    /\ cpc \in {"start", "stop"} /\ running /\ ~wedged
    /\ stopCh \in closed
    /\ wedged' = TRUE /\ cpc' = "idle"
    /\ UNCHANGED <<running, stopCh, closed, cfgSet, hasStore, cfgRO, loops,
                   calls>>

\* Mutant of StartLocked: a restart does not close the old channel.
StartLockedKeepsChannel ==
    /\ cpc = "start" /\ ~wedged
    /\ ~(running /\ stopCh \in closed)
    /\ stopCh' = IF running THEN stopCh + 1 ELSE stopCh
    /\ UNCHANGED closed
    /\ running' = (cfgSet /\ hasStore /\ cfgRO)
    /\ cpc' = IF cfgSet /\ hasStore /\ cfgRO THEN "spawn" ELSE "idle"
    /\ UNCHANGED <<wedged, cfgSet, hasStore, cfgRO, loops, calls>>

(* Start (36-67) under s.mu: a running scheduler is stopped first (its    *)
(* channel closed and replaced); a nil config, a nil store or read-only   *)
(* off return with the scheduler stopped; otherwise it is marked running. *)
(* A stopped scheduler keeps its channel, closed or not.                  *)
StartLocked ==
    /\ cpc = "start" /\ ~wedged
    /\ ~(running /\ stopCh \in closed)
    /\ stopCh' = IF running THEN stopCh + 1 ELSE stopCh
    /\ closed' = IF running THEN closed \cup {stopCh} ELSE closed
    /\ running' = (cfgSet /\ hasStore /\ cfgRO)
    /\ cpc' = IF cfgSet /\ hasStore /\ cfgRO THEN "spawn" ELSE "idle"
    /\ UNCHANGED <<wedged, cfgSet, hasStore, cfgRO, loops, calls>>

\* go s.run(s.stopCh) (72), after the unlock: the loop gets the channel
\* s.stopCh holds now.
Spawn ==
    /\ cpc = "spawn"
    /\ loops' = [loops EXCEPT ![calls] = [ch |-> stopCh, pc |-> "read",
                                          ctx |-> FALSE]]
    /\ cpc' = "idle"
    /\ UNCHANGED <<running, stopCh, closed, wedged, cfgSet, hasStore, cfgRO,
                   calls>>

\* Mutant of StopLocked: Stop marks the scheduler stopped but keeps the
\* channel open.
StopLockedWithoutClose ==
    /\ cpc = "stop" /\ ~wedged
    /\ ~(running /\ stopCh \in closed)
    /\ UNCHANGED closed
    /\ running' = FALSE
    /\ cpc' = "idle"
    /\ UNCHANGED <<stopCh, wedged, cfgSet, hasStore, cfgRO, loops, calls>>

\* Stop (78-93) under s.mu: a no-op when stopped, else close the channel.
StopLocked ==
    /\ cpc = "stop" /\ ~wedged
    /\ ~(running /\ stopCh \in closed)
    /\ closed' = IF running THEN closed \cup {stopCh} ELSE closed
    /\ running' = FALSE
    /\ cpc' = "idle"
    /\ UNCHANGED <<stopCh, wedged, cfgSet, hasStore, cfgRO, loops, calls>>

\* updateStorageReadOnly of the older handler (part_005 358-364) writes
\* cfg.Storage.ReadOnly without s.mu, whatever the scheduler is doing.
SetReadOnly ==
    /\ cfgRO' = ~cfgRO
    /\ UNCHANGED <<running, stopCh, closed, wedged, cfgSet, hasStore, loops,
                   cpc, calls>>

-----------------------------------------------------------------------------
(* The run goroutine l (96-158) and its cancel goroutine.                 *)

\* The goroutine of 103-106 cancels ctx once the loop's channel is closed.
CancelCtx(l) ==
    /\ loops[l].pc \notin {"none", "exit"}
    /\ loops[l].ch \in closed /\ ~loops[l].ctx
    /\ loops' = [loops EXCEPT ![l].ctx = TRUE]
    /\ UNCHANGED <<running, stopCh, closed, wedged, cfgSet, hasStore, cfgRO,
                   cpc, calls>>

\* 108-121: read s.config and s.running under s.mu; exit when not running,
\* wait for the timer when read-only, else poll.
LoopRead(l) ==
    /\ loops[l].pc = "read" /\ ~wedged
    /\ SetLoop(l, IF ~running THEN "exit"
                  ELSE IF cfgSet /\ cfgRO THEN "wait" ELSE "idle")
    /\ UNCHANGED <<running, stopCh, closed, wedged, cfgSet, hasStore, cfgRO,
                   cpc, calls>>

\* 132-136: the timer fires first; sync.
TimerFires(l) ==
    /\ loops[l].pc = "wait"
    /\ SetLoop(l, "sync")
    /\ UNCHANGED <<running, stopCh, closed, wedged, cfgSet, hasStore, cfgRO,
                   cpc, calls>>

\* Mutant of WaitCancelled: the wait has no ctx.Done() case.
WaitIgnoresCtx(l) == FALSE /\ loops[l].pc = "wait"

\* 137-144: ctx is done; stop the timer and exit.
WaitCancelled(l) ==
    /\ loops[l].pc = "wait" /\ loops[l].ctx
    /\ SetLoop(l, "exit")
    /\ UNCHANGED <<running, stopCh, closed, wedged, cfgSet, hasStore, cfgRO,
                   cpc, calls>>

\* 153-155: a second passes; read the config again.
IdleTick(l) ==
    /\ loops[l].pc = "idle"
    /\ SetLoop(l, "read")
    /\ UNCHANGED <<running, stopCh, closed, wedged, cfgSet, hasStore, cfgRO,
                   cpc, calls>>

\* 150-152: ctx is done; exit.
IdleCancelled(l) ==
    /\ loops[l].pc = "idle" /\ loops[l].ctx
    /\ SetLoop(l, "exit")
    /\ UNCHANGED <<running, stopCh, closed, wedged, cfgSet, hasStore, cfgRO,
                   cpc, calls>>

(* sync (161-181) reads s.config.Storage.ReadOnly without s.mu: read-only *)
(* off skips; otherwise EnsureRepository may fail, or the pull starts.   *)
SyncBegin(l) ==
    /\ loops[l].pc = "sync"
    /\ \/ ~cfgRO /\ SetLoop(l, "read")
       \/ cfgRO /\ SetLoop(l, "pull")
       \/ cfgRO /\ SetLoop(l, "read")
    /\ UNCHANGED <<running, stopCh, closed, wedged, cfgSet, hasStore, cfgRO,
                   cpc, calls>>

(* pullChanges (185-224): a non-forced pull; it succeeds, is up to date,  *)
(* or fails (no repository, a dirty worktree, a non-fast-forward, the    *)
(* network), and the loop goes round either way.                          *)
PullDone(l) ==
    /\ loops[l].pc = "pull"
    /\ SetLoop(l, "read")
    /\ UNCHANGED <<running, stopCh, closed, wedged, cfgSet, hasStore, cfgRO,
                   cpc, calls>>

LoopNext(l) ==
    \/ CancelCtx(l) \/ LoopRead(l) \/ TimerFires(l) \/ WaitCancelled(l)
    \/ IdleTick(l) \/ IdleCancelled(l) \/ SyncBegin(l) \/ PullDone(l)

CallerNext ==
    \/ CallStart \/ CallStop \/ UpdateConfig
    \/ Panic \/ StartLocked \/ Spawn \/ StopLocked

SNext ==
    \/ CallerNext
    \/ SetReadOnly
    \/ \E l \in LoopIds : LoopNext(l)

SSpec == SInit /\ [][SNext]_svars

(* Every goroutine runs until it blocks, so each loop step, and the      *)
(* cancel goroutine's step, is weakly fair.  Go's select picks uniformly among the ready cases, so a ctx    *)
(* case that is ready each time the loop waits is eventually taken:      *)
(* strong fairness of the two cancellation cases.                         *)
SFairSpec ==
    /\ SSpec
    /\ \A l \in LoopIds :
          /\ WF_svars(LoopNext(l))
          /\ WF_svars(CancelCtx(l))
          /\ SF_svars(WaitCancelled(l))
          /\ SF_svars(IdleCancelled(l))

-----------------------------------------------------------------------------
STypeOK ==
    /\ running \in BOOLEAN /\ wedged \in BOOLEAN
    /\ cfgSet \in BOOLEAN /\ hasStore \in BOOLEAN /\ cfgRO \in BOOLEAN
    /\ stopCh \in 0..MaxCalls
    /\ closed \subseteq 0..MaxCalls
    /\ loops \in [LoopIds -> [ch : 0..MaxCalls, pc : LoopPCs, ctx : BOOLEAN]]
    /\ cpc \in {"idle", "start", "stop", "spawn"}
    /\ calls \in 0..MaxCalls

\* A loop that has not exited and whose channel is still open.
Uncancelled(l) == loops[l].pc \notin {"none", "exit"} /\ loops[l].ch \notin closed

(* At most one run loop is on an open stop channel: a restart closes the *)
(* old loop's channel before it spawns the new one (spec: no two loop    *)
(* instances run concurrently).                                          *)
AtMostOneUncancelledLoop ==
    \A l1, l2 \in LoopIds : Uncancelled(l1) /\ Uncancelled(l2) => l1 = l2

(* A loop whose stop channel has been closed eventually exits, unless the *)
(* scheduler is wedged: a restart sets s.running again, which the old     *)
(* loop also reads, so only its ctx case gets it out.                     *)
LoopsEventuallyExit ==
    \A l \in LoopIds :
        (loops[l].pc \notin {"none", "exit"} /\ loops[l].ch \in closed)
            ~> (loops[l].pc = "exit" \/ wedged)

(* The inductive strengthening of AtMostOneUncancelledLoop.  A loop is   *)
(* only ever on a generation up to the current one, so the fresh channel *)
(* of a restart has no loop; each call spawns at most once, into its own *)
(* slot; and a loop on an open channel is on the current one, while the *)
(* scheduler is running and no spawn is pending, which is what keeps a   *)
(* second loop off that channel.                                          *)
StoreInv ==
    /\ \A l \in LoopIds : loops[l].pc # "none" => loops[l].ch <= stopCh
    /\ cpc # "idle" => calls \in LoopIds
    /\ \A l \in LoopIds : l > calls => loops[l].pc = "none"
    /\ cpc \in {"start", "spawn"} => loops[calls].pc = "none"
    /\ cpc = "spawn" => running
    /\ \A l \in LoopIds :
          Uncancelled(l) => loops[l].ch = stopCh /\ running /\ cpc # "spawn"
    /\ AtMostOneUncancelledLoop

(* The loop on an open stop channel, or 0.                                *)
Owner ==
    IF \E l \in LoopIds : Uncancelled(l)
    THEN CHOOSE l \in LoopIds : Uncancelled(l)
    ELSE 0

Own == INSTANCE SyncLoopOwner WITH Loops <- LoopIds, active <- running,
                                   owner <- Owner

(* The scheduler implements SyncLoopOwner with s.running as the phase and *)
(* the loop on an open channel as the owner: a loop takes over only from *)
(* no loop, while running, and a loop loses its open channel only by a    *)
(* close under Stop or Start.                                             *)
OwnerRefinement == Own!OSpec
=============================================================================
