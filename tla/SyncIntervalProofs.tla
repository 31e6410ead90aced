-------------------------- MODULE SyncIntervalProofs --------------------------
(***************************************************************************)
(* Proofs about the run loop's timer length.  Below the Duration's       *)
(* threshold the product does not wrap and the timer is the interval; at  *)
(* Go's 64-bit Duration the threshold is 153722867 minutes; above it,    *)
(* up to twice that, the product wraps to a negative length that becomes *)
(* the one-hour fallback.                                                  *)
(***************************************************************************)
EXTENDS SyncInterval, TLAPS

\* Half the Duration's range is a natural number below the range.
LEMMA HalfBelowModulus ==
    DurationModulus \div 2 \in Nat /\ DurationModulus \div 2 < DurationModulus
  BY ModulusAssumption

\* A non-negative product below half the range is its own wrap.
LEMMA WrapSmall ==
    ASSUME NEW x \in Nat, x < DurationModulus \div 2
    PROVE  WrapDuration(x) = x
<1>1. x < DurationModulus
  BY HalfBelowModulus, ModulusAssumption
<1>2. x % DurationModulus = x
  BY <1>1, ModulusAssumption
<1>3. ~(x >= DurationModulus \div 2)
  BY HalfBelowModulus, ModulusAssumption
<1>. QED
  BY <1>2, <1>3 DEF WrapDuration

\* An interval whose product stays below half the Duration's range does
\* not wrap: the timer is exactly that many minutes.
LEMMA NoWrapBelowHalf ==
    ASSUME NEW m \in Nat \ {0},
           m * MinuteNs < DurationModulus \div 2
    PROVE  TimerLength(m) = m * MinuteNs
<1>1. m * MinuteNs \in Nat \ {0}
  BY MinuteAssumption
<1>2. WrapDuration(m * MinuteNs) = m * MinuteNs
  BY <1>1, WrapSmall
<1>. QED
  BY <1>1, <1>2 DEF TimerLength

STypeInv ==
    /\ interval \in Accepted
    /\ timer \in Int
    /\ armed \in {0} \cup Accepted

SInv == STypeInv /\ TimerHonoursInterval

(* When every accepted interval is below the threshold                    *)
(* (MaxMinutes * MinuteNs < DurationModulus / 2), every timer the loop    *)
(* arms waits exactly the interval the control plane set: the run        *)
(* SyncInterval_safe checks the same on a 16-bit Duration.               *)
THEOREM HonouredBelowThreshold ==
    ASSUME MaxMinutes * MinuteNs < DurationModulus \div 2
    PROVE  SSpec => []TimerHonoursInterval
<1>1. SInit => SInv
  BY MinuteAssumption DEF SInit, SInv, STypeInv, TimerHonoursInterval, Accepted
<1>2. SInv /\ [SNext]_ivars => SInv'
  <2> SUFFICES ASSUME SInv, [SNext]_ivars PROVE SInv'
    OBVIOUS
  <2>1. CASE SetSyncInterval
    BY <2>1 DEF SetSyncInterval, SInv, STypeInv, TimerHonoursInterval
  <2>2. CASE ArmTimer
    <3>1. interval \in Nat \ {0} /\ interval * MinuteNs < DurationModulus \div 2
      <4>1. interval \in 1..MaxMinutes
        BY DEF SInv, STypeInv, Accepted
      <4>2. interval * MinuteNs <= MaxMinutes * MinuteNs
        BY <4>1, MinuteAssumption, MaxMinutesAssumption
      <4>. QED
        BY <4>1, <4>2, MinuteAssumption, MaxMinutesAssumption,
           ModulusAssumption
    <3>2. TimerLength(interval) = interval * MinuteNs
      BY <3>1, NoWrapBelowHalf
    <3>3. TimerLength(interval) \in Int
      BY <3>2, MinuteAssumption, <3>1
    <3>. QED
      BY <2>2, <3>2, <3>3 DEF ArmTimer, SInv, STypeInv, TimerHonoursInterval,
         Accepted
  <2>3. CASE UNCHANGED ivars
    BY <2>3 DEF ivars, SInv, STypeInv, TimerHonoursInterval
  <2>. QED
    BY <2>1, <2>2, <2>3 DEF SNext
<1>3. SInv => TimerHonoursInterval
  BY DEF SInv
<1>. QED
  BY <1>1, <1>2, <1>3, PTL DEF SSpec

(* An interval whose product lands in the upper half of the Duration's  *)
(* range, which PutStorageSyncInterval accepts (at Go's 64-bit Duration,  *)
(* from 153722868 minutes up), wraps to a negative length, and the loop   *)
(* waits the one-hour fallback instead: the run SyncInterval_overflow     *)
(* finds this on a 16-bit Duration.                                        *)
THEOREM WrapsToFallback ==
    ASSUME NEW m \in Nat,
           DurationModulus \div 2 <= m * MinuteNs,
           m * MinuteNs < DurationModulus
    PROVE  TimerLength(m) = 60 * MinuteNs
<1>1. m * MinuteNs \in Nat
  BY MinuteAssumption
<1>2. (m * MinuteNs) % DurationModulus = m * MinuteNs
  BY <1>1, ModulusAssumption
<1>3. WrapDuration(m * MinuteNs) \in Int /\ WrapDuration(m * MinuteNs) < 0
  BY <1>1, <1>2, ModulusAssumption DEF WrapDuration
<1>. QED
  BY <1>3 DEF TimerLength
=============================================================================
