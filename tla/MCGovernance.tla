---------------------------- MODULE MCGovernance ----------------------------
(* Instances of Governance and DistributionFreeze for TLC.  A behaviour is   *)
(* one of a host that exposes every operation of the shared governance, or   *)
(* one of the dividend distributor, whose proposals lift its freeze.         *)
EXTENDS DistributionFreeze

CONSTANTS a, b, c

ThreeOwners == <<a, b, c>>

\* Scaled: parameter changes are reviewed twice as long as the rest.
Reviews == [General |-> 1, ParameterChange |-> 2, Emergency |-> 1]

\* A council of one member and one of two that decide together.
TwoCouncils == {<< <<c>>, 1>>, << <<a, c>>, 2>>}

-----------------------------------------------------------------------------
VARIABLE host       \* "shared" or "distributor": whose contract this is

\* The bounds of the host that exposes everything: one proposal, three ticks.
SharedBound == Len(proposals') <= 1 /\ now' <= 3

HostInit == FreezeInit /\ host \in {"shared", "distributor"}

HostNext ==
    /\ UNCHANGED host
    /\ \/ host = "shared" /\ Next /\ SharedBound /\ UNCHANGED frozen
       \/ host = "distributor" /\ FreezeNext

HostSpec == HostInit /\ [][HostNext]_<<freezeVars, host>>
=============================================================================
