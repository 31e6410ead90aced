------------------------- MODULE MC_SyncInterval ----------------------------
(* Model-checking instance of SyncInterval: TLC's integers are 32 bits, so *)
(* time.Duration is scaled down to 16 bits and a minute to 60 units; the  *)
(* wrap-around happens at the same place relative to the range.           *)
EXTENDS SyncInterval

\* 2^16
MCModulus == 65536

MCMinuteNs == 60

\* The largest interval whose product still fits: (2^15 - 1) \div 60 = 546.
MCSafeMinutes == (MCModulus \div 2 - 1) \div MCMinuteNs

\* Past the positive wrap: 1093 * 60 = 65580 wraps to 44.
MCAllMinutes == 1100
=============================================================================
