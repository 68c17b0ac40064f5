---------------------------- MODULE HeapMonitor ----------------------------
(***************************************************************************)
(* heap_monitor.go: the thresholds NewHeapMonitor computes in unsigned     *)
(* arithmetic of the machine, and the tier Read reports for the two memory *)
(* metrics of the runtime.                                                 *)
(***************************************************************************)
EXTENDS Integers

CONSTANTS
  Word,    \* uint64 counts modulo this, 2^64
  Limit,   \* values of GOMEMLIMIT
  Bytes    \* values of a memory metric

ASSUME WordAssumption ==
  /\ Word \in Nat \ {0}
  /\ Limit \subseteq Nat
  /\ \A l \in Limit : l < Word
  /\ Bytes \subseteq Nat

\* No product of a limit and a percentage is cut off.  Run satisfies this: it
\* does not start without a limit, and real ones are far below 2^64 / 100.
NoOverflow == \A l \in Limit : l * 99 < Word

\* What New lets through: a negative percentage, too.
Percentages == {p \in [1..3 -> Int] : p[1] < p[2] /\ p[2] < p[3] /\ p[3] < 100}

VARIABLES
  limit, pct,  \* the arguments of NewHeapMonitor
  thresholds,  \* in bytes
  inuse, tier, \* what Read returned last
  known        \* the runtime knew the metrics then

hvars == <<limit, pct, thresholds, inuse, tier, known>>

MonitorTypeOK ==
  /\ limit \in Limit \cup {0}
  /\ pct \in [1..3 -> Int]
  /\ thresholds \in [1..3 -> 0..(Word - 1)]
  /\ inuse \in 0..(Word - 1)
  /\ tier \in 0..3
  /\ known \in BOOLEAN

\* Mutant: the division comes first.
ThresholdDivided(l, p) == (l \div 100) * p

\* goMemLimit * tier / 100, evaluated from the left in uint64, where a negative
\* percentage is as large as Word minus it.
Threshold(l, p) == ((l * p) % Word) \div 100

\* Mutant: a threshold has to be exceeded.
TierOfAbove(bytes) ==
  CASE bytes > thresholds[3] -> 3
    [] bytes <= thresholds[3] /\ bytes > thresholds[2] -> 2
    [] bytes <= thresholds[3] /\ bytes <= thresholds[2] /\ bytes > thresholds[1] -> 1
    [] OTHER -> 0

TierOf(bytes) ==
  CASE bytes >= thresholds[3] -> 3
    [] bytes < thresholds[3] /\ bytes >= thresholds[2] -> 2
    [] bytes < thresholds[3] /\ bytes < thresholds[2] /\ bytes >= thresholds[1] -> 1
    [] OTHER -> 0

\* There is no monitor yet, or one of nothing.
MonitorInit ==
  /\ limit = 0 /\ pct = [i \in 1..3 |-> 0] /\ thresholds = [i \in 1..3 |-> 0]
  /\ inuse = 0 /\ tier = 0 /\ known = FALSE

\* Nothing has been read with the new monitor.
NewHeapMonitor(l, p) ==
  /\ limit' = l
  /\ pct' = p
  /\ thresholds' = [i \in 1..3 |-> Threshold(l, p[i])]
  /\ inuse' = 0 /\ tier' = 0 /\ known' = FALSE

\* HeapInuse is the sum of the objects and unused metrics.
Read ==
  \E objects, unused \in Bytes :
    /\ inuse' = (objects + unused) % Word
    /\ tier' = TierOf(inuse')
    /\ known' = TRUE
    /\ UNCHANGED <<limit, pct, thresholds>>

\* A runtime that does not know the metrics: the heap counts as normal.
ReadBad ==
  /\ inuse' = 0
  /\ tier' = 0
  /\ known' = FALSE
  /\ UNCHANGED <<limit, pct, thresholds>>

MonitorNext ==
  \/ \E l \in Limit, p \in Percentages : NewHeapMonitor(l, p)
  \/ Read \/ ReadBad

MonitorSpec == MonitorInit /\ [][MonitorNext]_hvars

-----------------------------------------------------------------------------
\* A tier is never missed: a heap at or above the percentage, computed
\* without rounding, is reported at least at its tier by a Read that works.
\* A tier with a negative percentage is never reached, however: its threshold
\* wraps around to more than the machine can hold.
NeverLate ==
  known => \A i \in 1..3 :
    pct[i] > 0 /\ inuse * 100 >= limit * pct[i] => tier >= i

\* Nor is it reported early, by more than the byte that the division drops.
NeverEarly ==
  \A i \in 1..3 : tier >= i => (inuse + 1) * 100 > limit * pct[i]
=============================================================================
