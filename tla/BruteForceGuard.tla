--------------------------- MODULE BruteForceGuard ---------------------------
(***************************************************************************)
(* The brute-force guard of the management Middleware (part_004 105-237)  *)
(* for one remote client IP.                                               *)
(*                                                                         *)
(* Each element of Requests is one HTTP request from that IP, carrying a  *)
(* missing, wrong or right management key.  The guard's state is the     *)
(* attemptInfo of the IP (count, blockedUntil) under h.attemptsMu; the   *)
(* ban check and the failure count are separate critical sections, with  *)
(* the key comparison (bcrypt, slow) between them.  Time is a counter    *)
(* that the environment advances; blockedUntil = 0 is the zero time.    *)
(*                                                                         *)
(* guesses counts the wrong keys the server has compared for this IP     *)
(* since its attempt state was last cleared (ban expired, or a right    *)
(* key): what an attacker learns per ban period.                         *)
(***************************************************************************)
EXTENDS Naturals, FiniteSets

CONSTANTS
    Requests,       \* the requests from one remote IP
    MaxInFlight,    \* how many of them the client has open at once
    MaxFailures,    \* maxFailures (5 in the code)
    BanDuration,    \* banDuration, in clock ticks
    MaxTime         \* bound on the clock

ASSUME GuardAssumption ==
    /\ IsFiniteSet(Requests)
    /\ MaxInFlight \in Nat \ {0}
    /\ MaxFailures \in Nat \ {0}
    /\ BanDuration \in Nat \ {0}
    /\ MaxTime \in Nat \ {0}

VARIABLES
    now,            \* time.Now()
    count,          \* failedAttempts[ip].count (0 while there is no entry)
    blockedUntil,   \* failedAttempts[ip].blockedUntil
    allowRemote,    \* remote management allowed (config or env override)
    keySet,         \* a secret hash or MANAGEMENT_PASSWORD is configured
    rpc,            \* rpc[r]: where request r is in the Middleware
    key,            \* key[r]: the key request r carries
    guesses         \* wrong keys compared since the state was last cleared

gvars == <<now, count, blockedUntil, allowRemote, keySet, rpc, key, guesses>>

Keys == {"missing", "wrong", "right"}

RPCs == {"idle", "check", "auth", "fail", "done"}

InFlight == {r \in Requests : rpc[r] \in {"check", "auth", "fail"}}

Banned == blockedUntil # 0 /\ now < blockedUntil

GInit ==
    /\ now = 1
    /\ count = 0
    /\ blockedUntil = 0
    /\ allowRemote \in BOOLEAN
    /\ keySet \in BOOLEAN
    /\ rpc = [r \in Requests |-> "idle"]
    /\ key = [r \in Requests |-> "missing"]
    /\ guesses = 0

SetRPC(r, pc) == rpc' = [rpc EXCEPT ![r] = pc]

\* A request from the IP arrives with some key.
Arrive(r) ==
    /\ rpc[r] = "idle"
    /\ Cardinality(InFlight) < MaxInFlight
    /\ \E k \in Keys : key' = [key EXCEPT ![r] = k]
    /\ SetRPC(r, "check")
    /\ UNCHANGED <<now, count, blockedUntil, allowRemote, keySet, guesses>>

\* Mutant of BanCheck: an expired ban is not cleared.
BanCheckKeepsExpiredBan(r) ==
    /\ rpc[r] = "check"
    /\ \/ /\ Banned
          /\ SetRPC(r, "done")
       \/ /\ ~Banned
          /\ SetRPC(r, IF allowRemote /\ keySet THEN "auth" ELSE "done")
    /\ UNCHANGED <<now, count, blockedUntil, allowRemote, keySet, key, guesses>>

(* The ban check under attemptsMu (lines 127-142): a live ban answers 403; *)
(* an expired one is cleared with the count.  Then, outside the lock,    *)
(* remote management disabled or no key configured answer 403 (145-171). *)
BanCheck(r) ==
    /\ rpc[r] = "check"
    /\ \/ /\ Banned
          /\ SetRPC(r, "done")
          /\ UNCHANGED <<count, blockedUntil, guesses>>
       \/ /\ ~Banned
          /\ IF blockedUntil # 0
                THEN /\ blockedUntil' = 0 /\ count' = 0 /\ guesses' = 0
                ELSE UNCHANGED <<count, blockedUntil, guesses>>
          /\ SetRPC(r, IF allowRemote /\ keySet THEN "auth" ELSE "done")
    /\ UNCHANGED <<now, allowRemote, keySet, key>>

(* The key is compared (lines 173-235): a missing key fails without a     *)
(* comparison; a right key clears the IP's state under attemptsMu and    *)
(* passes; a wrong key is compared and fails.                            *)
Authenticate(r) ==
    /\ rpc[r] = "auth"
    /\ \/ /\ key[r] = "missing"
          /\ SetRPC(r, "fail")
          /\ UNCHANGED <<count, blockedUntil, guesses>>
       \/ /\ key[r] = "right"
          /\ count' = 0 /\ blockedUntil' = 0 /\ guesses' = 0
          /\ SetRPC(r, "done")
       \/ /\ key[r] = "wrong"
          /\ guesses' = guesses + 1
          /\ SetRPC(r, "fail")
          /\ UNCHANGED <<count, blockedUntil>>
    /\ UNCHANGED <<now, allowRemote, keySet, key>>

\* Mutant of Fail: the ban starts one failure late.
FailLateBan(r) ==
    /\ rpc[r] = "fail"
    /\ IF count + 1 > MaxFailures
          THEN /\ blockedUntil' = now + BanDuration /\ count' = 0
          ELSE /\ count' = count + 1 /\ UNCHANGED blockedUntil
    /\ SetRPC(r, "done")
    /\ UNCHANGED <<now, allowRemote, keySet, key, guesses>>

(* fail() (lines 151-164): under attemptsMu count the failure; the        *)
(* maxFailures-th one bans the IP for banDuration and resets the count.   *)
Fail(r) ==
    /\ rpc[r] = "fail"
    /\ IF count + 1 >= MaxFailures
          THEN /\ blockedUntil' = now + BanDuration /\ count' = 0
          ELSE /\ count' = count + 1 /\ UNCHANGED blockedUntil
    /\ SetRPC(r, "done")
    /\ UNCHANGED <<now, allowRemote, keySet, key, guesses>>

\* The clock advances.
Tick ==
    /\ now < MaxTime
    /\ now' = now + 1
    /\ UNCHANGED <<count, blockedUntil, allowRemote, keySet, rpc, key, guesses>>

GNext ==
    \/ \E r \in Requests :
          Arrive(r) \/ BanCheck(r) \/ Authenticate(r) \/ Fail(r)
    \/ Tick

GSpec == GInit /\ [][GNext]_gvars

-----------------------------------------------------------------------------
GTypeOK ==
    /\ now \in 1..MaxTime
    /\ count \in 0..MaxFailures
    /\ blockedUntil \in 0..(MaxTime + BanDuration)
    /\ allowRemote \in BOOLEAN
    /\ keySet \in BOOLEAN
    /\ rpc \in [Requests -> RPCs]
    /\ key \in [Requests -> Keys]
    /\ guesses \in Nat

(* An IP gets at most maxFailures wrong keys compared before it is banned *)
(* and until the ban expires (the Middleware's promise: five failures    *)
(* ban the IP for thirty minutes).                                       *)
GuessesBounded == guesses <= MaxFailures

-----------------------------------------------------------------------------
(* The inductive strengthening of GuessesBounded for a client with one    *)
(* request open at a time.  Past the ban check and before its failure is *)
(* counted there is at most one request; without a ban the guesses are   *)
(* bounded by the count plus the one wrong key not counted yet; with a   *)
(* ban set, the count was reset and no request is past the check.        *)
PastCheck(r) == rpc[r] \in {"auth", "fail"}

\* A wrong key has been compared and its failure is not counted yet.
Uncounted == \E r \in Requests : rpc[r] = "fail" /\ key[r] = "wrong"

GuardInv ==
    /\ \A r1, r2 \in Requests :
          r1 \in InFlight /\ r2 \in InFlight => r1 = r2
    /\ count < MaxFailures
    /\ blockedUntil = 0 =>
          \/ guesses <= count
          \/ Uncounted /\ guesses <= count + 1
    /\ blockedUntil # 0 =>
          /\ count = 0
          /\ guesses <= MaxFailures
          /\ \A r \in Requests : ~PastCheck(r)

=============================================================================
