------------------------ MODULE BruteForceGuardProofs ------------------------
(***************************************************************************)
(* Proofs about the brute-force guard: a client that keeps one request    *)
(* open at a time gets at most maxFailures wrong keys compared per ban    *)
(* period, for every threshold, ban length, clock bound and set of        *)
(* requests.  (With two requests open, TLC shows that it does not hold.)  *)
(***************************************************************************)
EXTENDS BruteForceGuard, FiniteSetTheorems, TLAPS

\* The type invariant without the bounds that only the model's clock needs.
PTypeOK ==
    /\ now \in Nat
    /\ count \in Nat
    /\ blockedUntil \in Nat
    /\ allowRemote \in BOOLEAN
    /\ keySet \in BOOLEAN
    /\ rpc \in [Requests -> RPCs]
    /\ key \in [Requests -> Keys]
    /\ guesses \in Nat

IInv == PTypeOK /\ GuardInv

\* A serial client: it opens a request only when none is in flight.
LEMMA ArriveAlone ==
    ASSUME MaxInFlight = 1, PTypeOK,
           Cardinality(InFlight) < MaxInFlight
    PROVE  \A s \in Requests : rpc[s] \notin {"check", "auth", "fail"}
<1>1. IsFiniteSet(InFlight) /\ Cardinality(InFlight) \in Nat
    BY GuardAssumption, FS_Subset, FS_CardinalityType DEF InFlight
<1>2. Cardinality(InFlight) = 0
    BY <1>1
<1>3. InFlight = {}
    BY <1>1, <1>2, FS_EmptySet
<1>4. QED
    BY <1>3 DEF InFlight

LEMMA InitIInv == GInit => IInv
BY GuardAssumption DEF GInit, IInv, PTypeOK, GuardInv, InFlight, Uncounted,
                       PastCheck, Keys, RPCs

LEMMA IInvBounded == IInv => GuessesBounded
BY GuardAssumption DEF IInv, PTypeOK, GuardInv, Uncounted, GuessesBounded

\* A step of request r moves r alone and leaves the other program points.
LEMMA ArriveIInv ==
    ASSUME MaxInFlight = 1, IInv, NEW r \in Requests, Arrive(r)
    PROVE  IInv'
<1>1. \A s \in Requests : rpc[s] \notin {"check", "auth", "fail"}
    BY ArriveAlone DEF Arrive, IInv
<1>2. PTypeOK'
    BY DEF Arrive, SetRPC, IInv, PTypeOK, RPCs, Keys
<1>3. \A s \in Requests : rpc'[s] \in {"check", "auth", "fail"} => s = r
    BY <1>1 DEF Arrive, SetRPC, IInv, PTypeOK
<1>4. ~Uncounted' /\ ~Uncounted
    BY <1>1, <1>3 DEF Arrive, SetRPC, IInv, PTypeOK, Uncounted
<1>5. \A s \in Requests : ~PastCheck(s)'
    BY <1>1, <1>3 DEF Arrive, SetRPC, IInv, PTypeOK, PastCheck
<1>6. QED
    BY <1>2, <1>3, <1>4, <1>5
    DEF Arrive, IInv, GuardInv, InFlight

LEMMA BanCheckIInv ==
    ASSUME IInv, NEW r \in Requests, BanCheck(r)
    PROVE  IInv'
<1>1. rpc[r] = "check" /\ \A s \in Requests \ {r} : ~PastCheck(s)
    BY DEF BanCheck, IInv, GuardInv, InFlight, PastCheck
<1>2. \A s \in Requests : s # r => rpc'[s] = rpc[s] /\ key'[s] = key[s]
    BY DEF BanCheck, SetRPC, IInv, PTypeOK
<1>3. rpc'[r] \in {"auth", "done"} /\ key' = key
    BY DEF BanCheck, SetRPC, IInv, PTypeOK
<1>4. ~Uncounted' /\ ~Uncounted
    BY <1>1, <1>2, <1>3 DEF IInv, PTypeOK, Uncounted, PastCheck
<1>5. PTypeOK'
    BY <1>3 DEF BanCheck, SetRPC, IInv, PTypeOK, RPCs
<1>6. \A s1, s2 \in Requests :
          s1 \in InFlight' /\ s2 \in InFlight' => s1 = s2
    BY <1>1, <1>2, <1>3 DEF IInv, GuardInv, InFlight, PastCheck
<1>7. CASE Banned
    <2>1. UNCHANGED <<count, blockedUntil, guesses>> /\ rpc'[r] = "done"
        BY <1>7 DEF BanCheck, SetRPC, IInv, PTypeOK, Banned
    <2>2. QED
        BY <1>1, <1>2, <1>4, <1>5, <1>6, <2>1
        DEF IInv, GuardInv, PastCheck
<1>8. CASE ~Banned /\ blockedUntil # 0
    <2>1. blockedUntil' = 0 /\ count' = 0 /\ guesses' = 0
        BY <1>8 DEF BanCheck
    <2>2. QED
        BY <1>4, <1>5, <1>6, <2>1, GuardAssumption DEF IInv, GuardInv
<1>9. CASE ~Banned /\ blockedUntil = 0
    <2>1. UNCHANGED <<count, blockedUntil, guesses>>
        BY <1>9 DEF BanCheck
    <2>2. guesses' <= count'
        BY <1>4, <1>9, <2>1 DEF IInv, GuardInv
    <2>3. QED
        BY <1>5, <1>6, <1>9, <2>1, <2>2 DEF IInv, GuardInv
<1>10. QED
    BY <1>7, <1>8, <1>9

\* A request past the ban check is the only one in flight, and no ban is set.
LEMMA PastCheckAlone ==
    ASSUME IInv, NEW r \in Requests, PastCheck(r)
    PROVE  /\ blockedUntil = 0
           /\ \A s \in Requests : s # r => rpc[s] \notin {"check", "auth", "fail"}
BY DEF IInv, GuardInv, InFlight, PastCheck

LEMMA AuthenticateIInv ==
    ASSUME IInv, NEW r \in Requests, Authenticate(r)
    PROVE  IInv'
<1>1. /\ blockedUntil = 0
      /\ \A s \in Requests : s # r => rpc[s] \notin {"check", "auth", "fail"}
    BY PastCheckAlone DEF Authenticate, PastCheck
<1>2. ~Uncounted
    BY <1>1 DEF Authenticate, IInv, PTypeOK, Uncounted
<1>3. /\ \A s \in Requests : s # r => rpc'[s] = rpc[s]
      /\ rpc'[r] \in {"fail", "done"}
      /\ key' = key
      /\ UNCHANGED <<now, allowRemote, keySet>>
    BY DEF Authenticate, SetRPC, IInv, PTypeOK
<1>4. \A s1, s2 \in Requests :
          s1 \in InFlight' /\ s2 \in InFlight' => s1 = s2
    BY <1>1, <1>3 DEF InFlight
<1>5. CASE key[r] = "missing"
    <2>1. UNCHANGED <<count, blockedUntil, guesses>> /\ rpc'[r] = "fail"
        BY <1>5 DEF Authenticate, SetRPC, IInv, PTypeOK
    <2>2. ~Uncounted'
        BY <1>1, <1>3, <1>5, <2>1 DEF IInv, PTypeOK, Uncounted
    <2>3. PTypeOK'
        BY <2>1 DEF Authenticate, SetRPC, IInv, PTypeOK, RPCs
    <2>4. QED
        BY <1>1, <1>2, <1>4, <2>1, <2>2, <2>3 DEF IInv, GuardInv
<1>6. CASE key[r] = "right"
    <2>1. count' = 0 /\ blockedUntil' = 0 /\ guesses' = 0 /\ rpc'[r] = "done"
        BY <1>6 DEF Authenticate, SetRPC, IInv, PTypeOK
    <2>3. PTypeOK'
        BY <2>1 DEF Authenticate, SetRPC, IInv, PTypeOK, RPCs
    <2>4. GuardInv'
        <3>1. count' < MaxFailures
            BY <2>1, GuardAssumption
        <3>2. guesses' <= count'
            BY <2>1
        <3>3. QED
            BY <1>4, <2>1, <3>1, <3>2 DEF GuardInv
    <2>5. QED
        BY <2>3, <2>4 DEF IInv
<1>7. CASE key[r] = "wrong"
    <2>1. /\ guesses' = guesses + 1 /\ rpc'[r] = "fail"
          /\ UNCHANGED <<count, blockedUntil>>
        BY <1>7 DEF Authenticate, SetRPC, IInv, PTypeOK
    <2>2. Uncounted'
        BY <1>3, <1>7, <2>1 DEF Uncounted
    <2>3. PTypeOK'
        BY <2>1 DEF Authenticate, SetRPC, IInv, PTypeOK, RPCs
    <2>4. QED
        BY <1>1, <1>2, <1>4, <2>1, <2>2, <2>3 DEF IInv, GuardInv, PTypeOK
<1>8. QED
    BY <1>5, <1>6, <1>7 DEF IInv, PTypeOK, Keys

LEMMA FailIInv ==
    ASSUME IInv, NEW r \in Requests, Fail(r)
    PROVE  IInv'
<1>1. /\ blockedUntil = 0
      /\ \A s \in Requests : s # r => rpc[s] \notin {"check", "auth", "fail"}
    BY PastCheckAlone DEF Fail, PastCheck
<1>2. guesses <= count + 1
    BY <1>1 DEF IInv, GuardInv, PTypeOK
<1>3. /\ \A s \in Requests : s # r => rpc'[s] = rpc[s]
      /\ rpc'[r] = "done"
      /\ UNCHANGED <<now, allowRemote, keySet, key, guesses>>
    BY DEF Fail, SetRPC, IInv, PTypeOK
<1>4. /\ \A s \in Requests : rpc'[s] \notin {"check", "auth", "fail"}
      /\ ~Uncounted'
      /\ \A s \in Requests : ~PastCheck(s)'
    BY <1>1, <1>3 DEF Uncounted, PastCheck
<1>5. \A s1, s2 \in Requests :
          s1 \in InFlight' /\ s2 \in InFlight' => s1 = s2
    BY <1>4 DEF InFlight
<1>6. CASE count + 1 >= MaxFailures
    <2>1. blockedUntil' = now + BanDuration /\ count' = 0
        BY <1>6 DEF Fail
    <2>2. PTypeOK' /\ blockedUntil' # 0
        BY <2>1, GuardAssumption DEF Fail, SetRPC, IInv, PTypeOK, RPCs
    <2>3. guesses' <= MaxFailures
        BY <1>2, <1>3, GuardAssumption DEF IInv, GuardInv, PTypeOK
    <2>4. QED
        BY <1>4, <1>5, <2>1, <2>2, <2>3, GuardAssumption DEF IInv, GuardInv
<1>7. CASE count + 1 < MaxFailures
    <2>1. count' = count + 1 /\ blockedUntil' = 0
        BY <1>1, <1>7, GuardAssumption DEF Fail, IInv, PTypeOK
    <2>2. PTypeOK'
        BY <2>1 DEF Fail, SetRPC, IInv, PTypeOK, RPCs
    <2>3. QED
        BY <1>2, <1>3, <1>4, <1>5, <1>7, <2>1, <2>2 DEF IInv, GuardInv, PTypeOK
<1>8. QED
    BY <1>6, <1>7, GuardAssumption DEF IInv, PTypeOK

LEMMA TickIInv ==
    ASSUME IInv, Tick
    PROVE  IInv'
<1>1. PTypeOK'
    BY DEF Tick, IInv, PTypeOK
<1>2. GuardInv'
    BY DEF Tick, IInv, GuardInv, InFlight, Uncounted, PastCheck
<1>3. QED
    BY <1>1, <1>2 DEF IInv

LEMMA StepIInv ==
    ASSUME MaxInFlight = 1, IInv, [GNext]_gvars
    PROVE  IInv'
<1>1. CASE \E r \in Requests : Arrive(r)
    BY <1>1, ArriveIInv
<1>2. CASE \E r \in Requests : BanCheck(r)
    BY <1>2, BanCheckIInv
<1>3. CASE \E r \in Requests : Authenticate(r)
    BY <1>3, AuthenticateIInv
<1>4. CASE \E r \in Requests : Fail(r)
    BY <1>4, FailIInv
<1>5. CASE Tick
    BY <1>5, TickIInv
<1>6. CASE UNCHANGED gvars
    BY <1>6 DEF gvars, IInv, PTypeOK, GuardInv, InFlight, Uncounted, PastCheck
<1>7. QED
    BY <1>1, <1>2, <1>3, <1>4, <1>5, <1>6 DEF GNext

(* A client that keeps one request open at a time gets at most            *)
(* maxFailures wrong management keys compared by the Middleware before it *)
(* is banned and until the ban expires, for every threshold, ban length   *)
(* and number of requests (the serial run checks the code's threshold of  *)
(* five; the concurrent run shows the bound fails with two requests open). *)
THEOREM SerialGuessesBounded ==
    ASSUME MaxInFlight = 1
    PROVE  GSpec => []GuessesBounded
<1>1. GInit => IInv
    BY InitIInv
<1>2. IInv /\ [GNext]_gvars => IInv'
    BY StepIInv
<1>3. IInv => GuessesBounded
    BY IInvBounded
<1>4. QED
    BY <1>1, <1>2, <1>3, PTL DEF GSpec

(* The same client: GuardInv, the invariant the run guard_serial checks, *)
(* holds in every reachable state.                                        *)
THEOREM SerialGuardInv ==
    ASSUME MaxInFlight = 1
    PROVE  GSpec => []GuardInv
<1>1. GInit => IInv
    BY InitIInv
<1>2. IInv /\ [GNext]_gvars => IInv'
    BY StepIInv
<1>3. IInv => GuardInv
    BY DEF IInv
<1>4. QED
    BY <1>1, <1>2, <1>3, PTL DEF GSpec

=============================================================================
