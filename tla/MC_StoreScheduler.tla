-------------------------- MODULE MC_StoreScheduler --------------------------
(* Model-checking instance of StoreScheduler.                              *)
EXTENDS StoreScheduler
=============================================================================
