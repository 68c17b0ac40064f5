----------------------------- MODULE WatcherRun -----------------------------
(***************************************************************************)
(* The goroutine of Watcher.Run (watcher.go) with the CPU profiler it      *)
(* drives (internal/cpuprofiler) and everything that acts on them from     *)
(* outside: the heap, Stop(), the cancellation of the context, the HTTP    *)
(* handler that forces a dump, and a CPU profile started by somebody else. *)
(*                                                                         *)
(* The clock advances in ticks.  What the code keeps as a point in time    *)
(* (lastDumpAt2, lastDumpAt3) is here the time elapsed since, and it       *)
(* saturates at the cooldown it is compared with.                          *)
(***************************************************************************)
EXTENDS Integers

CONSTANTS
  PollInterval,   \* cfg.PollInterval
  FastPoll,       \* fastPollInterval, 500 ms
  CooldownTier2,  \* cfg.CooldownTier2
  CooldownTier3,  \* cfg.CooldownTier3
  HasLimit,       \* GOMEMLIMIT is set
  HasUploader,    \* cfg.Uploader is not NoopUploader: peer scans are on
  Disturbed       \* there are forced dumps and other users of the CPU profile

ASSUME IntervalAssumption ==
  /\ PollInterval \in Nat \ {0}
  /\ FastPoll \in Nat \ {0}
  /\ CooldownTier2 \in Nat \ {0}
  /\ CooldownTier3 \in Nat \ {0}

ASSUME SwitchAssumption ==
  HasLimit \in BOOLEAN /\ HasUploader \in BOOLEAN /\ Disturbed \in BOOLEAN

VARIABLES
  pc,         \* where Run is: select waits, dump and write are in writeDump
  job,        \* the tier label of the last dump Run began
  heap,       \* HeapTier that heap.Read would return now
  interval,   \* currentInterval
  wait,       \* time until the ticker fires
  tick,       \* the ticker's channel holds a tick
  scanTick,   \* the scan ticker's channel holds one
  since2,     \* time since lastDumpAt2, at most CooldownTier2
  since3,     \* time since lastDumpAt3, at most CooldownTier3
  stopped,    \* stopCh is closed
  cancelled,  \* ctx is done
  running,    \* profiler.running
  cpu,        \* who owns the CPU profile of the Go runtime
  hasCpu      \* the last dump of Run got a CPU profile

profile == <<running, cpu>>
timer == <<interval, wait, tick>>
signals == <<stopped, cancelled, scanTick>>
ages == <<since2, since3>>

vars == <<pc, job, heap, timer, signals, ages, profile, hasCpu>>

Tier == 0..3

TypeOK ==
  /\ pc \in {"start", "select", "dump", "write", "returned"}
  /\ job \in {"none", "2", "3", "shutdown"}
  /\ heap \in Tier
  /\ interval \in {PollInterval, FastPoll}
  /\ wait \in 1..interval
  /\ tick \in BOOLEAN /\ scanTick \in BOOLEAN
  /\ since2 \in 0..CooldownTier2
  /\ since3 \in 0..CooldownTier3
  /\ stopped \in BOOLEAN /\ cancelled \in BOOLEAN
  /\ running \in BOOLEAN
  /\ cpu \in {"off", "watcher", "other"}
  /\ hasCpu \in BOOLEAN

\* lastDumpAt2 and lastDumpAt3 are the zero time: both cooldowns are over.
Init ==
  /\ pc = "start"
  /\ job = "none"
  /\ heap \in Tier
  /\ interval = PollInterval /\ wait = PollInterval /\ tick = FALSE
  /\ since2 = CooldownTier2 /\ since3 = CooldownTier3
  /\ stopped = FALSE /\ cancelled = FALSE /\ scanTick = FALSE
  /\ running = FALSE
  /\ cpu = "off"
  /\ hasCpu = FALSE

-----------------------------------------------------------------------------
(* internal/cpuprofiler: the three methods, each under the profiler's mutex. *)

\* Mutant: the error of StartCPUProfile is not looked at.
EnsureRunningIgnoresError ==
  IF running
    THEN UNCHANGED profile
    ELSE running' = TRUE /\ cpu' = IF cpu = "off" THEN "watcher" ELSE cpu

\* StartCPUProfile fails, silently, while another profile is being taken.
EnsureRunning ==
  IF running \/ cpu = "other"
    THEN UNCHANGED profile
    ELSE running' = TRUE /\ cpu' = "watcher"

StopProfile ==
  /\ running' = FALSE
  /\ cpu' = IF running THEN "off" ELSE cpu

\* Snapshot ends the profile as Stop does and hands its data to the caller.
Snapshot == StopProfile

-----------------------------------------------------------------------------
(* Watcher.Run. *)

\* Mutant: the ticker is not reset.
SetIntervalKeepsWait(d) ==
  /\ tick' = FALSE
  /\ interval' = d
  /\ UNCHANGED wait

\* Mutant: it is reset to the interval in force, before the new one is.
SetIntervalOld(d) ==
  /\ tick' = FALSE
  /\ interval' = d
  /\ wait' = IF d = interval THEN wait ELSE interval

\* ticker.Reset drops a tick that is waiting and starts a full interval.
SetInterval(d) ==
  /\ tick' = FALSE
  /\ interval' = d
  /\ wait' = IF d = interval THEN wait ELSE d

Start ==
  /\ pc = "start"
  /\ pc' = IF HasLimit THEN "select" ELSE "returned"
  /\ UNCHANGED <<job, heap, timer, signals, ages, profile, hasCpu>>

\* Mutant: no cooldown.
DueAtOnce(label) ==
  (label = "3" /\ heap = 3) \/ (label = "2" /\ heap = 2)

\* Mutant: the comparison with the cooldown of tier 3 is turned round.
DueTooEarly(label) ==
  \/ label = "3" /\ heap = 3 /\ since3 < CooldownTier3
  \/ label = "2" /\ heap = 2 /\ since2 >= CooldownTier2

\* The dump a tier asks for, when its cooldown is over.
Due(label) ==
  \/ label = "3" /\ heap = 3 /\ since3 >= CooldownTier3
  \/ label = "2" /\ heap = 2 /\ since2 >= CooldownTier2

\* Mutant: the profile is not stopped when the heap has calmed down.
TickNormalKeepsProfile ==
  /\ pc = "select" /\ tick
  /\ heap = 0
  /\ SetInterval(PollInterval)
  /\ UNCHANGED <<pc, job, heap, signals, ages, profile, hasCpu>>

TickNormal ==
  /\ pc = "select" /\ tick
  /\ heap = 0
  /\ StopProfile
  /\ SetInterval(PollInterval)
  /\ UNCHANGED <<pc, job, heap, signals, ages, hasCpu>>

\* Tier 1, or a higher tier whose cooldown is not over.
TickWatch ==
  /\ pc = "select" /\ tick
  /\ heap # 0
  /\ ~Due("2") /\ ~Due("3")
  /\ EnsureRunning
  /\ SetInterval(FastPoll)
  /\ UNCHANGED <<pc, job, heap, signals, ages, hasCpu>>

\* Mutant: a dump without EnsureRunning.
TickDumpNoProfile ==
  /\ pc = "select" /\ tick
  /\ \E label \in {"2", "3"} : Due(label) /\ job' = label
  /\ SetInterval(FastPoll)
  /\ pc' = "dump"
  /\ UNCHANGED <<heap, signals, ages, profile, hasCpu>>

TickDump ==
  /\ pc = "select" /\ tick
  /\ \E label \in {"2", "3"} : Due(label) /\ job' = label
  /\ EnsureRunning
  /\ SetInterval(FastPoll)
  /\ pc' = "dump"
  /\ UNCHANGED <<heap, signals, ages, hasCpu>>

\* Mutant: tier 2 is not enough for the final dump.
StopCaseTier3 ==
  /\ pc = "select" /\ stopped
  /\ StopProfile
  /\ IF heap > 2
       THEN pc' = "dump" /\ job' = "shutdown"
       ELSE pc' = "returned" /\ UNCHANGED job
  /\ UNCHANGED <<heap, timer, signals, ages, hasCpu>>

\* The profile is stopped before the heap is read for the final dump.
StopCase ==
  /\ pc = "select" /\ stopped
  /\ StopProfile
  /\ IF heap >= 2
       THEN pc' = "dump" /\ job' = "shutdown"
       ELSE pc' = "returned" /\ UNCHANGED job
  /\ UNCHANGED <<heap, timer, signals, ages, hasCpu>>

\* Mutant: Run returns with the profile running.
CancelCaseLeaks ==
  /\ pc = "select" /\ cancelled
  /\ pc' = "returned"
  /\ UNCHANGED <<job, heap, timer, signals, ages, profile, hasCpu>>

CancelCase ==
  /\ pc = "select" /\ cancelled
  /\ StopProfile
  /\ pc' = "returned"
  /\ UNCHANGED <<job, heap, timer, signals, ages, hasCpu>>

\* StartupUpload runs in a goroutine of its own.
ScanCase ==
  /\ pc = "select" /\ scanTick
  /\ scanTick' = FALSE
  /\ UNCHANGED <<pc, job, heap, timer, stopped, cancelled, ages, profile, hasCpu>>

\* Mutant: the return after the final dump is missing.
AfterDumpGoesOn == pc' = "select"

AfterDump == pc' = IF job = "shutdown" THEN "returned" ELSE "select"

\* MkdirAll fails: the error is logged and the cooldown does not start.
DumpFails ==
  /\ pc = "dump"
  /\ AfterDump
  /\ UNCHANGED <<job, heap, timer, signals, ages, profile, hasCpu>>

TakeSnapshot ==
  /\ pc = "dump"
  /\ hasCpu' = running
  /\ Snapshot
  /\ pc' = "write"
  /\ UNCHANGED <<job, heap, timer, signals, ages>>

\* WriteAll and the rest of writeDumpNamed return; the cooldown starts.
DumpDone ==
  /\ pc = "write"
  /\ since2' = IF job = "2" THEN 0 ELSE since2
  /\ since3' = IF job = "3" THEN 0 ELSE since3
  /\ AfterDump
  /\ UNCHANGED <<job, heap, timer, signals, profile, hasCpu>>

RunStep ==
  \/ Start \/ TickNormal \/ TickWatch \/ TickDump \/ StopCase \/ CancelCase
  \/ ScanCase \/ DumpFails \/ TakeSnapshot \/ DumpDone

-----------------------------------------------------------------------------
(* Everything else. *)

HeapMove ==
  /\ heap' \in Tier \ {heap}
  /\ UNCHANGED <<pc, job, timer, signals, ages, profile, hasCpu>>

Stop ==
  /\ ~stopped
  /\ stopped' = TRUE
  /\ UNCHANGED <<pc, job, heap, timer, cancelled, scanTick, ages, profile, hasCpu>>

Cancel ==
  /\ ~cancelled
  /\ cancelled' = TRUE
  /\ UNCHANGED <<pc, job, heap, timer, stopped, scanTick, ages, profile, hasCpu>>

\* ForceDumpHandler writes a dump of its own and takes the profile with it.
ForceDump ==
  /\ Disturbed
  /\ Snapshot
  /\ UNCHANGED <<pc, job, heap, timer, signals, ages, hasCpu>>

OtherProfileStarts ==
  /\ Disturbed
  /\ cpu = "off"
  /\ cpu' = "other"
  /\ UNCHANGED <<pc, job, heap, timer, signals, ages, running, hasCpu>>

OtherProfileStops ==
  /\ cpu = "other"
  /\ cpu' = "off"
  /\ UNCHANGED <<pc, job, heap, timer, signals, ages, running, hasCpu>>

\* A case of the select that is ready is taken before time goes on.  While a
\* dump is written the tickers go on, each with room for one tick.
CaseReady == tick \/ scanTick \/ stopped \/ cancelled

Advance ==
  /\ pc \in {"dump", "write"} \/ (pc = "select" /\ ~CaseReady)
  /\ IF wait = 1
       THEN tick' = TRUE /\ wait' = interval
       ELSE wait' = wait - 1 /\ UNCHANGED tick
  /\ since2' = IF since2 < CooldownTier2 THEN since2 + 1 ELSE since2
  /\ since3' = IF since3 < CooldownTier3 THEN since3 + 1 ELSE since3
  /\ scanTick' \in {scanTick, scanTick \/ HasUploader}
  /\ UNCHANGED <<pc, job, heap, interval, stopped, cancelled, profile, hasCpu>>

\* The steps that take no time, and the passing of time.
Instant ==
  \/ RunStep
  \/ HeapMove \/ Stop \/ Cancel
  \/ ForceDump \/ OtherProfileStarts \/ OtherProfileStops

Next == Instant \/ Advance

Spec == Init /\ [][Next]_vars

\* Run takes its steps, the clock runs, and select chooses at random among
\* the cases that are ready: one that is ready again and again is taken.
Fairness ==
  /\ WF_vars(RunStep)
  /\ WF_vars(Advance)
  /\ SF_vars(StopCase)
  /\ SF_vars(CancelCase)
  /\ SF_vars(TickNormal \/ TickWatch \/ TickDump)

FairSpec == Spec /\ Fairness

-----------------------------------------------------------------------------
\* The watcher never believes in a profile it does not own, and never
\* forgets one it does: it would stop somebody else's, or leak its own.
ProfileOwned == running <=> cpu = "watcher"

\* The service is not profiled for ever by a watcher that has returned.
ReleasedAtExit == pc \in {"start", "returned"} => ~running

\* Left alone by other users of the profiler, every dump that a tick began
\* carries the CPU profile; the shutdown dump is another matter.
TickDumpsCarryProfile ==
  pc = "write" /\ job \in {"2", "3"} /\ ~Disturbed => hasCpu

\* Stop() or the end of the context makes Run return, however busy the
\* ticker keeps the select.
Terminates == stopped \/ cancelled ~> pc = "returned"

\* A heap that stays at tier 3 is dumped again and again, as long as Run
\* runs: no cooldown, interval change or failed dump silences the watcher.
KeepsDumping ==
  <>[](heap = 3) => []<>((pc = "dump" /\ job = "3") \/ pc = "returned")

\* A heap that has calmed down is no longer profiled.
ProfileEnds == <>[](heap = 0) => <>[](~running)
=============================================================================
