----------------------------- MODULE SyncInterval -----------------------------
(***************************************************************************)
(* The length of the run loop's timer (part_003 lines 130-134):           *)
(*                                                                         *)
(*   syncInterval := time.Duration(cfg.SyncIntervalMinutes()) * time.Minute *)
(*   if syncInterval <= 0 { syncInterval = 60 * time.Minute }              *)
(*                                                                         *)
(* time.Duration is a signed integer counting nanoseconds, DurationModulus *)
(* = 2^64 values in Go, and the product wraps.  PutStorageSyncInterval accepts    *)
(* any whole number of minutes of at least one (parseIntField has no upper *)
(* bound), so the interval the operator asked for is not always the one   *)
(* the timer gets.                                                         *)
(*                                                                         *)
(* The state machine is the Config State interval, set by the control     *)
(* plane, and the timer the loop arms from it after a sync.                *)
(***************************************************************************)
EXTENDS Integers

CONSTANTS
    DurationModulus,  \* number of values of time.Duration (2^64)
    MinuteNs,   \* time.Minute in the Duration's unit
    MaxMinutes  \* largest interval a request carries in the model

ASSUME ModulusAssumption ==
    DurationModulus \in Nat /\ DurationModulus >= 2 /\ DurationModulus % 2 = 0
ASSUME MinuteAssumption == MinuteNs \in Nat \ {0}
ASSUME MaxMinutesAssumption == MaxMinutes \in Nat \ {0}

\* Two's-complement wrap-around of an integer product to a Duration.
WrapDuration(x) ==
    LET u == x % DurationModulus
    IN  IF u >= DurationModulus \div 2 THEN u - DurationModulus ELSE u

\* Mutant of TimerLength: the interval is taken in seconds, not minutes.
TimerLengthSeconds(m) ==
    LET d == WrapDuration(m * (MinuteNs \div 60))
    IN  IF d <= 0 THEN 60 * MinuteNs ELSE d

(* The timer length the loop computes from an interval of m minutes.      *)
TimerLength(m) ==
    LET d == WrapDuration(m * MinuteNs)
    IN  IF d <= 0 THEN 60 * MinuteNs ELSE d

VARIABLES
    interval,   \* cfg.SyncIntervalMinutes()
    timer,      \* length of the timer the loop armed last (0: none yet)
    armed       \* the interval that timer was computed from

ivars == <<interval, timer, armed>>

\* minSyncIntervalMinutes and the accepted bodies of PutStorageSyncInterval.
Accepted == 1..MaxMinutes

SInit ==
    /\ interval \in Accepted
    /\ timer = 0
    /\ armed = 0

\* PutStorageSyncInterval (part_004 347-361) sets the interval.
SetSyncInterval ==
    /\ \E m \in Accepted : interval' = m
    /\ UNCHANGED <<timer, armed>>

\* After a sync the loop arms its timer from the interval (part_003 130-137).
ArmTimer ==
    /\ timer' = TimerLength(interval)
    /\ armed' = interval
    /\ UNCHANGED interval

SNext == SetSyncInterval \/ ArmTimer

SSpec == SInit /\ [][SNext]_ivars

-----------------------------------------------------------------------------
STypeOK ==
    /\ interval \in Accepted
    /\ timer \in Int
    /\ armed \in {0} \cup Accepted

(* The timer waits the interval the operator set (the spec: the scheduler *)
(* syncs every SyncIntervalMinutes minutes; PutStorageSyncInterval answers *)
(* 200 for every whole number of at least one minute).  A product beyond  *)
(* the Duration's range wraps: to a negative length, which the fallback   *)
(* turns into one hour, or to a positive one of any size.                 *)
TimerHonoursInterval == timer = armed * MinuteNs

=============================================================================
