--------------------------- MODULE WatcherTiming ---------------------------
(***************************************************************************)
(* Watcher.Run watched by a clock and by counters of its dumps, which the  *)
(* program does not have: how often it dumps at most, and how late.        *)
(***************************************************************************)
EXTENDS WatcherRun

CONSTANT MaxTime  \* bound on the clock, for model checking

ASSUME MaxTimeAssumption == MaxTime \in Nat

VARIABLES
  now,      \* ticks since Init
  dumps2,   \* dumps of tier 2 completed
  dumps3,   \* dumps of tier 3 completed
  overdue   \* ticks Run has waited in select while a dump was due

tvars == <<vars, now, dumps2, dumps3, overdue>>

TTypeOK ==
  /\ TypeOK
  /\ now \in Nat /\ dumps2 \in Nat /\ dumps3 \in Nat /\ overdue \in Nat

TInit == Init /\ now = 0 /\ dumps2 = 0 /\ dumps3 = 0 /\ overdue = 0

DumpIsDue == pc = "select" /\ (Due("2") \/ Due("3"))

Completes(label) == pc = "write" /\ pc' # "write" /\ job = label

TInstant ==
  /\ Instant
  /\ dumps2' = IF Completes("2") THEN dumps2 + 1 ELSE dumps2
  /\ dumps3' = IF Completes("3") THEN dumps3 + 1 ELSE dumps3
  /\ overdue' = IF DumpIsDue' THEN overdue ELSE 0
  /\ UNCHANGED now

TAdvance ==
  /\ now < MaxTime
  /\ Advance
  /\ now' = now + 1
  /\ overdue' = IF DumpIsDue THEN overdue + 1 ELSE 0
  /\ UNCHANGED <<dumps2, dumps3>>

TNext == TInstant \/ TAdvance

TSpec == TInit /\ [][TNext]_tvars

-----------------------------------------------------------------------------
\* config.go: a cooldown is the minimal interval between the dumps of its
\* tier, so that a drawn-out shortage of memory does not fill the disk.
\* However the heap moves between the tiers, n dumps of a tier take at least
\* n - 1 cooldowns.
RateBounded ==
  /\ dumps2 > 0 => (dumps2 - 1) * CooldownTier2 + since2 <= now
  /\ dumps3 > 0 => (dumps3 - 1) * CooldownTier3 + since3 <= now

\* A dump that is due waits in the select for at most the polling interval
\* in force, whatever the loop did before: no change of interval, tick that
\* was dropped or earlier dump postpones it further.
DumpIsPrompt == overdue <= interval
=============================================================================
