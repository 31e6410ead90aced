--------------------------- MODULE MC_GitScheduler ---------------------------
(* Model-checking instance of GitScheduler: caller identities are model  *)
(* values, the call bound is a small number.                              *)
EXTENDS GitScheduler

CONSTANTS c1

\* The serialized control plane: one caller.
MCCallersSerial == {c1}
=============================================================================
