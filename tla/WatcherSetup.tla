---------------------------- MODULE WatcherSetup ----------------------------
(***************************************************************************)
(* New, Run and the HeapMonitor that Run creates: what New lets through is *)
(* what the thresholds are computed from.                                  *)
(***************************************************************************)
EXTENDS WatcherConfig, HeapMonitor

CONSTANT NoLimit  \* math.MaxInt64, the limit of a process without GOMEMLIMIT

vars == <<cvars, hvars>>

TypeOK == ConfigTypeOK /\ MonitorTypeOK

Init == ConfigInit /\ MonitorInit

TierPcts == <<cfg.tier.tier1, cfg.tier.tier2, cfg.tier.tier3>>

\* Run reads the limit and returns without one.
Run ==
  \E l \in Limit \cup {NoLimit} :
    /\ l # NoLimit
    /\ NewHeapMonitor(l, TierPcts)
    /\ StartRun

Poll == running /\ (Read \/ ReadBad) /\ UNCHANGED cvars

Next == (New /\ UNCHANGED hvars) \/ Run \/ Poll

Spec == Init /\ [][Next]_vars
=============================================================================
