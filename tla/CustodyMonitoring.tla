-------------------------- MODULE CustodyMonitoring --------------------------
(* The custody monitor: a cycle of checks that startMonitoring() runs once   *)
(* and then from an interval timer.                                          *)
(*                                                                           *)
(* Only `handle` is remembered of the timers, and it is written when the     *)
(* first cycle is over: calls that come during that cycle do not see it.     *)
EXTENDS Integers, Sequences, FiniteSets

CONSTANTS MaxStarts,    \* bound: calls that start monitoring
          MaxCycles     \* bound: cycles under way at once

VARIABLES
    handle,     \* this.monitoringInterval: the interval it names, 0 for none
    live,       \* the intervals that run
    cycles,     \* monitoring cycles under way, each waiting for an answer
    starts,     \* starts made so far: the next interval is named by it
    overlapped  \* a start was made beside another, or with one running

monitorVars == <<handle, live, cycles, starts, overlapped>>

(* A cycle asks for the alerts, then for the custodians, and sends what it   *)
(* found: a check that fails has found nothing and does not end the cycle.   *)
Phases == <<"attestations", "reputation", "sending">>
Cycle(origin, n) == [origin |-> origin, n |-> n, phase |-> 1]

Starting(cs) == \E c \in cs : c.origin = "start"

MonitorInit ==
    /\ handle = 0 /\ live = {} /\ cycles = {} /\ starts = 0 /\ overlapped = FALSE

(* startMonitoring(), with the handle as it then is: the first cycle starts. *)
Started(h) ==
    /\ starts < MaxStarts /\ starts' = starts + 1
    /\ cycles' = cycles \cup {Cycle("start", starts + 1)}
    /\ overlapped' = (overlapped \/ h # 0 \/ Starting(cycles))

StartMonitoring == Started(handle) /\ UNCHANGED <<handle, live>>

\* Mutant: the interval is forgotten without being cleared.
ClearedNothing == live

(* clearInterval(): the interval the handle names. *)
Cleared == live \ {handle}

StopMonitoring ==
    /\ live' = Cleared /\ handle' = 0
    /\ UNCHANGED <<cycles, starts, overlapped>>

(* updateConfig() with another frequency: stops and starts anew if it        *)
(* believes that monitoring runs.                                            *)
UpdateConfig ==
    /\ handle # 0
    /\ live' = Cleared /\ handle' = 0
    /\ Started(0)

(* An interval starts a cycle whether or not its last one is over. *)
IntervalFires(i) ==
    /\ i \in live /\ Cardinality(cycles) < MaxCycles
    /\ Cycle("tick", i) \notin cycles
    /\ cycles' = cycles \cup {Cycle("tick", i)}
    /\ UNCHANGED <<handle, live, starts, overlapped>>

(* A check is answered or fails; nothing found means nothing to send. *)
CheckAnswered(c) ==
    /\ c \in cycles /\ c.phase < Len(Phases)
    /\ cycles' = (cycles \ {c}) \cup {[c EXCEPT !.phase = @ + 1]}
    /\ UNCHANGED <<handle, live, starts, overlapped>>

(* The alerts are sent, or there are none; sending may fail.  A start goes   *)
(* on to set its interval.                                                   *)
CycleEnds(c) ==
    /\ c \in cycles /\ c.phase = Len(Phases)
    /\ cycles' = cycles \ {c}
    /\ IF c.origin = "start" THEN handle' = c.n /\ live' = live \cup {c.n}
       ELSE UNCHANGED <<handle, live>>
    /\ UNCHANGED <<starts, overlapped>>

MonitorNext ==
    \/ StartMonitoring \/ StopMonitoring \/ UpdateConfig
    \/ \E i \in live : IntervalFires(i)
    \/ \E c \in cycles : CheckAnswered(c) \/ CycleEnds(c)

MonitorSpec == MonitorInit /\ [][MonitorNext]_monitorVars

-----------------------------------------------------------------------------
(* Properties *)

(* getMonitoringStatus() tells the truth: when it says active an interval    *)
(* runs, and unless starts overlapped no interval runs that it denies, one   *)
(* left by a stop or a change of frequency during a first cycle included.    *)
StatusIsTrue ==
    /\ handle # 0 => handle \in live
    /\ ~overlapped => live \subseteq {handle}

=============================================================================
