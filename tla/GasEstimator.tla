----------------------------- MODULE GasEstimator -----------------------------
(* The SDK's gas estimator: concurrent estimates of one operation share a    *)
(* cache entry, which they read and write between awaits.                    *)
EXTENDS Integers

CONSTANTS
    Estimator,      \* concurrent calls of estimate() with one cache key
    Costs,          \* raw costs a simulation may report, or the heuristic give
    Tolerance,      \* ACCURACY_TOLERANCE_PERCENT
    CacheTtl,       \* cacheTtlMs, in steps of the clock
    MaxClock        \* bound: the last moment looked at

ASSUME GasAssumption ==
    Costs \subseteq Nat \ {0} /\ Tolerance \in Nat /\ CacheTtl \in Nat /\ MaxClock \in Nat

VARIABLES
    entry,      \* this.cache.get(key): total, and when it expires
    asking,     \* where each call is, and the multiplier it found
    clock,
    computed    \* the last total computed afresh, and when

gasVars == <<entry, asking, clock, computed>>

Multipliers == {1, 2}   \* DEFAULT_MULTIPLIER, and doubled on a congested network
NoEntry == [total |-> 0, expires |-> 0]
Waiting(at, m) == [at |-> at, multiplier |-> m, total |-> 0]

GasInit ==
    /\ entry = NoEntry /\ clock = 0 /\ computed = [total |-> 0, when |-> 0]
    /\ asking = [e \in Estimator |-> Waiting("idle", 1)]

Estimate(e) ==
    /\ asking[e].at = "idle"
    /\ asking' = [asking EXCEPT ![e] = Waiting("stats", 1)]
    /\ UNCHANGED <<entry, clock, computed>>

\* Mutant: an entry is served however old it is.
HitForEver(en, t) == en # NoEntry
Hit(en, t) == en # NoEntry /\ en.expires > t

(* resolveMultiplier() has answered, without the fee statistics if they      *)
(* could not be had: the cache is asked now.                                 *)
StatsAnswered(e, m) ==
    /\ asking[e].at = "stats"
    /\ asking' = [asking EXCEPT ![e] =
                    IF Hit(entry, clock)
                    THEN [at |-> "answered", multiplier |-> m, total |-> entry.total]
                    ELSE Waiting("simulating", m)]
    /\ UNCHANGED <<entry, clock, computed>>

Distance(a, b) == IF a > b THEN a - b ELSE b - a

(* A computed total close to the previous one gives way to it. *)
Kept(fresh, prev) ==
    prev # NoEntry /\ 100 * Distance(fresh, prev.total) <= Tolerance * prev.total

(* The simulation has answered, or the heuristic stands in for it: the entry *)
(* of that moment, written meanwhile by another call or not, is replaced.    *)
Simulated(e, cost) ==
    LET fresh == cost * asking[e].multiplier
        total == IF Kept(fresh, entry) THEN entry.total ELSE fresh IN
    /\ asking[e].at = "simulating"
    /\ entry' = [total |-> total, expires |-> clock + CacheTtl]
    /\ computed' = [total |-> fresh, when |-> clock]
    /\ asking' = [asking EXCEPT ![e] = [@ EXCEPT !.at = "answered", !.total = total]]
    /\ UNCHANGED clock

EstimateReturned(e) ==
    /\ asking[e].at = "answered" /\ asking' = [asking EXCEPT ![e] = Waiting("idle", 1)]
    /\ UNCHANGED <<entry, clock, computed>>

ClearCache == entry' = NoEntry /\ UNCHANGED <<asking, clock, computed>>

Elapse == clock < MaxClock /\ clock' = clock + 1 /\ UNCHANGED <<entry, asking, computed>>

GasNext ==
    \/ \E e \in Estimator :
         \/ Estimate(e) \/ EstimateReturned(e)
         \/ \E m \in Multipliers : StatsAnswered(e, m)
         \/ \E cost \in Costs : Simulated(e, cost)
    \/ ClearCache \/ Elapse

GasSpec == GasInit /\ [][GasNext]_gasVars

-----------------------------------------------------------------------------
(* Properties *)

(* Whatever estimate() answers, from the cache or after a drift it ignored,  *)
(* and whichever calls wrote the entry in between, is within the tolerance   *)
(* of a total computed within the cache's time to live.                      *)
AnswersAreCurrent ==
    [][\A e \in Estimator :
         asking'[e].at = "answered" /\ asking[e].at # "answered" =>
           /\ 100 * Distance(computed'.total, asking'[e].total) <= Tolerance * asking'[e].total
           /\ clock - computed'.when <= CacheTtl]_gasVars
=============================================================================
