------------------------ MODULE MC_ManagementStorage ------------------------
(* Model-checking instance of ManagementStorage: requests are model       *)
(* values, intervals a set of two.                                        *)
EXTENDS ManagementStorage, TLC

CONSTANTS r1, r2, r3

\* Two concurrent management requests.
MCRequests2 == {r1, r2}

\* Three concurrent management requests.
MCRequests3 == {r1, r2, r3}

\* One interval for the runs about the scheduler, two for the runs about
\* which value the side file keeps.
MCIntervals1 == {1}

MCIntervals2 == {1, 2}

\* Requests are interchangeable (safety runs only).
MCSymmetry == Permutations(MCRequests2)
=============================================================================
