------------------------- MODULE MC_BruteForceGuard -------------------------
(* Model-checking instance of BruteForceGuard: seven requests from one IP *)
(* as model values, the code's threshold of five failures.               *)
EXTENDS BruteForceGuard, TLC

CONSTANTS q1, q2, q3, q4, q5, q6, q7

MCRequests == {q1, q2, q3, q4, q5, q6, q7}

\* Requests are interchangeable.
MCSymmetry == Permutations(MCRequests)
=============================================================================
