--------------------------- MODULE WatcherProofs ----------------------------
(* Proofs about the loop of Run, for every interval, cooldown and time       *)
(* bound: WatcherRun, then WatcherTiming, WatcherShutdown and WatcherNotify. *)
EXTENDS WatcherNotify, FiniteSetTheorems, TLAPS

LEMMA RunTypeInit == Init => TypeOK
<1> SUFFICES ASSUME Init PROVE TypeOK
  OBVIOUS
<1>1. interval \in {PollInterval, FastPoll} /\ wait \in 1..interval
  BY IntervalAssumption DEF Init
<1>2. since2 \in 0..CooldownTier2 /\ since3 \in 0..CooldownTier3
  BY IntervalAssumption DEF Init
<1>3. /\ tick \in BOOLEAN /\ scanTick \in BOOLEAN
      /\ stopped \in BOOLEAN /\ cancelled \in BOOLEAN
      /\ running \in BOOLEAN /\ hasCpu \in BOOLEAN
  BY Zenon DEF Init
<1>4. /\ pc \in {"start", "select", "dump", "write", "returned"}
      /\ job \in {"none", "2", "3", "shutdown"}
      /\ heap \in Tier
      /\ cpu \in {"off", "watcher", "other"}
  BY DEF Init
<1> QED
  BY <1>1, <1>2, <1>3, <1>4 DEF TypeOK

LEMMA SetIntervalType ==
  ASSUME TypeOK, NEW d \in {PollInterval, FastPoll}, SetInterval(d)
  PROVE  interval' \in {PollInterval, FastPoll} /\ wait' \in 1..interval'
         /\ tick' \in BOOLEAN
<1>1. interval' = d /\ tick' = FALSE
  BY DEF SetInterval
<1>2. wait' \in 1..d
  BY IntervalAssumption DEF SetInterval, TypeOK
<1> QED
  BY <1>1, <1>2

LEMMA ProfileType ==
  ASSUME TypeOK, EnsureRunning \/ StopProfile
  PROVE  running' \in BOOLEAN /\ cpu' \in {"off", "watcher", "other"}
BY DEF TypeOK, EnsureRunning, StopProfile, profile

LEMMA RunTypeStep == TypeOK /\ [Next]_vars => TypeOK'
<1> SUFFICES ASSUME TypeOK, [Next]_vars PROVE TypeOK'
  OBVIOUS
<1> USE IntervalAssumption, SwitchAssumption
    DEF TypeOK, Tier, timer, signals, ages, profile
<1>1. CASE Start
  BY <1>1 DEF Start
<1>2. CASE TickNormal
  BY <1>2, SetIntervalType, ProfileType DEF TickNormal
<1>3. CASE TickWatch
  BY <1>3, SetIntervalType, ProfileType DEF TickWatch
<1>4. CASE TickDump
  BY <1>4, SetIntervalType, ProfileType DEF TickDump
<1>5. CASE StopCase
  BY <1>5 DEF StopCase, StopProfile
<1>6. CASE CancelCase
  BY <1>6 DEF CancelCase, StopProfile
<1>7. CASE ScanCase
  BY <1>7 DEF ScanCase
<1>8. CASE DumpFails
  BY <1>8 DEF DumpFails, AfterDump
<1>9. CASE TakeSnapshot
  BY <1>9 DEF TakeSnapshot, Snapshot, StopProfile
<1>10. CASE DumpDone
  BY <1>10 DEF DumpDone, AfterDump
<1>11. CASE HeapMove
  BY <1>11 DEF HeapMove
<1>12. CASE Stop
  BY <1>12 DEF Stop
<1>13. CASE Cancel
  BY <1>13 DEF Cancel
<1>14. CASE ForceDump
  BY <1>14 DEF ForceDump, Snapshot, StopProfile
<1>15. CASE OtherProfileStarts
  BY <1>15 DEF OtherProfileStarts
<1>16. CASE OtherProfileStops
  BY <1>16 DEF OtherProfileStops
<1>17. CASE Advance
  <2>1. wait' \in 1..interval'
    BY <1>17 DEF Advance
  <2>2. since2' \in 0..CooldownTier2 /\ since3' \in 0..CooldownTier3
    BY <1>17 DEF Advance
  <2>3. tick' \in BOOLEAN
    BY <1>17, Zenon DEF Advance
  <2>4. scanTick' \in BOOLEAN
    <3>1. scanTick' = scanTick \/ scanTick' = (scanTick \/ HasUploader)
      BY <1>17, Zenon DEF Advance
    <3> QED
      BY <3>1, Zenon
  <2>5. UNCHANGED <<pc, job, heap, interval, stopped, cancelled, running, cpu,
                    hasCpu>>
    BY <1>17 DEF Advance
  <2> QED
    BY <2>1, <2>2, <2>3, <2>4, <2>5
<1>18. CASE UNCHANGED vars
  BY <1>18 DEF vars
<1> QED
  BY <1>1, <1>2, <1>3, <1>4, <1>5, <1>6, <1>7, <1>8, <1>9, <1>10, <1>11,
     <1>12, <1>13, <1>14, <1>15, <1>16, <1>17, <1>18 DEF Next, Instant, RunStep

(* The loop keeps its variables within their types: in particular the       *)
(* ticker always has between one tick and a whole interval to go.          *)
THEOREM RunTypeCorrect == Spec => []TypeOK
BY RunTypeInit, RunTypeStep, PTL DEF Spec

-----------------------------------------------------------------------------
(***************************************************************************)
(* Run starts the profile only in a tick, and on the two ways out it stops *)
(* it first; between that and the return there is only the final dump.     *)
(***************************************************************************)
ProfileInv ==
  /\ ProfileOwned
  /\ pc \in {"start", "returned"} => ~running
  /\ job = "shutdown" => ~running /\ pc \in {"dump", "write", "returned"}

LEMMA ProfileInvStep == TypeOK /\ ProfileInv /\ [Next]_vars => ProfileInv'
<1> SUFFICES ASSUME TypeOK, ProfileInv, [Next]_vars PROVE ProfileInv'
  OBVIOUS
<1> USE DEF TypeOK, ProfileInv, ProfileOwned, timer, signals, ages, profile
<1>1. CASE Start
  BY <1>1 DEF Start
<1>2. CASE TickNormal
  BY <1>2 DEF TickNormal, StopProfile, SetInterval
<1>3. CASE TickWatch
  BY <1>3 DEF TickWatch, EnsureRunning, SetInterval
<1>4. CASE TickDump
  BY <1>4 DEF TickDump, EnsureRunning, SetInterval
<1>5. CASE StopCase
  BY <1>5 DEF StopCase, StopProfile
<1>6. CASE CancelCase
  BY <1>6 DEF CancelCase, StopProfile
<1>7. CASE ScanCase
  BY <1>7 DEF ScanCase
<1>8. CASE DumpFails
  BY <1>8 DEF DumpFails, AfterDump
<1>9. CASE TakeSnapshot
  BY <1>9 DEF TakeSnapshot, Snapshot, StopProfile
<1>10. CASE DumpDone
  BY <1>10 DEF DumpDone, AfterDump
<1>11. CASE HeapMove \/ Stop \/ Cancel \/ Advance
  BY <1>11 DEF HeapMove, Stop, Cancel, Advance
<1>12. CASE ForceDump
  BY <1>12 DEF ForceDump, Snapshot, StopProfile
<1>13. CASE OtherProfileStarts
  BY <1>13 DEF OtherProfileStarts
<1>14. CASE OtherProfileStops
  BY <1>14 DEF OtherProfileStops
<1>15. CASE UNCHANGED vars
  BY <1>15 DEF vars
<1> QED
  BY <1>1, <1>2, <1>3, <1>4, <1>5, <1>6, <1>7, <1>8, <1>9, <1>10, <1>11,
     <1>12, <1>13, <1>14, <1>15 DEF Next, Instant, RunStep

LEMMA ProfileInvariant == Spec => []ProfileInv
<1>1. Init => ProfileInv
  BY DEF Init, ProfileInv, ProfileOwned
<1> QED
  BY <1>1, ProfileInvStep, RunTypeCorrect, PTL DEF Spec

(* The profiler's flag and the runtime agree on who owns the CPU profile,   *)
(* whoever else starts, stops or snatches one.                             *)
THEOREM ProfileIsOwned == Spec => []ProfileOwned
<1>1. ProfileInv => ProfileOwned
  BY DEF ProfileInv
<1> QED
  BY <1>1, ProfileInvariant, PTL

(* A Run that has returned has left no CPU profile running.                *)
THEOREM ProfileIsReleased == Spec => []ReleasedAtExit
<1>1. ProfileInv => ReleasedAtExit
  BY DEF ProfileInv, ReleasedAtExit
<1> QED
  BY <1>1, ProfileInvariant, PTL

-----------------------------------------------------------------------------
(* Without anybody else at the profiler, a tick that begins a dump leaves    *)
(* the profile running, and nothing stops it before the snapshot.            *)
CarryInv ==
  ~Disturbed =>
    /\ cpu # "other"
    /\ pc = "dump" /\ job \in {"2", "3"} => running
    /\ pc = "write" /\ job \in {"2", "3"} => hasCpu

LEMMA CarryInvStep == TypeOK /\ CarryInv /\ [Next]_vars => CarryInv'
<1> SUFFICES ASSUME TypeOK, CarryInv, [Next]_vars PROVE CarryInv'
  OBVIOUS
<1> USE DEF TypeOK, CarryInv, timer, signals, ages, profile
<1>1. CASE Start
  BY <1>1 DEF Start
<1>2. CASE TickNormal \/ TickWatch
  BY <1>2 DEF TickNormal, TickWatch, StopProfile, EnsureRunning
<1>3. CASE TickDump
  BY <1>3 DEF TickDump, EnsureRunning
<1>4. CASE StopCase \/ CancelCase
  BY <1>4 DEF StopCase, CancelCase, StopProfile
<1>5. CASE TakeSnapshot
  BY <1>5 DEF TakeSnapshot, Snapshot, StopProfile
<1>6. CASE DumpFails \/ DumpDone
  BY <1>6 DEF DumpFails, DumpDone, AfterDump
<1>7. CASE ScanCase \/ HeapMove \/ Stop \/ Cancel \/ Advance
  BY <1>7 DEF ScanCase, HeapMove, Stop, Cancel, Advance
<1>8. CASE ForceDump \/ OtherProfileStarts \/ OtherProfileStops
  BY <1>8 DEF ForceDump, OtherProfileStarts, OtherProfileStops
<1>9. CASE UNCHANGED vars
  BY <1>9 DEF vars
<1> QED
  BY <1>1, <1>2, <1>3, <1>4, <1>5, <1>6, <1>7, <1>8, <1>9 DEF Next, Instant, RunStep

(* watcher.go 423-454 and 523: every dump that a tick began has a CPU        *)
(* profile, if the watcher has the profiler for itself.                      *)
THEOREM DumpsCarryProfile == Spec => []TickDumpsCarryProfile
<1>1. Init => CarryInv
  BY DEF Init, CarryInv
<1>2. CarryInv => TickDumpsCarryProfile
  BY DEF CarryInv, TickDumpsCarryProfile
<1> QED
  BY <1>1, <1>2, CarryInvStep, RunTypeCorrect, PTL DEF Spec

-----------------------------------------------------------------------------
(* WatcherTiming and WatcherShutdown *)

LEMMA TimedIsRun == TSpec => Spec
<1>1. TInit => Init
  BY DEF TInit
<1>2. [TNext]_tvars => [Next]_vars
  BY DEF TNext, TInstant, TAdvance, Next, tvars
<1> QED
  BY <1>1, <1>2, PTL DEF TSpec, Spec

LEMMA TimedType == TSpec => []TTypeOK
<1> DEFINE Counters == now \in Nat /\ dumps2 \in Nat /\ dumps3 \in Nat /\ overdue \in Nat
<1>1. TInit => Counters
  BY DEF TInit
<1>2. Counters /\ [TNext]_tvars => Counters'
  BY DEF TNext, TInstant, TAdvance, tvars
<1>3. TypeOK /\ Counters => TTypeOK
  BY DEF TTypeOK
<1> QED
  BY <1>1, <1>2, <1>3, TimedIsRun, RunTypeCorrect, PTL DEF TSpec

-----------------------------------------------------------------------------
(***************************************************************************)
(* A dump of a tier begins when its cooldown is over, and no other dump    *)
(* can complete, and restart it, before that one has.                      *)
(***************************************************************************)
CooldownOver ==
  pc \in {"dump", "write"} =>
    /\ job = "3" => since3 = CooldownTier3
    /\ job = "2" => since2 = CooldownTier2

LEMMA CooldownOverStep ==
  TypeOK /\ CooldownOver /\ [Next]_vars => CooldownOver'
<1> SUFFICES ASSUME TypeOK, CooldownOver, [Next]_vars PROVE CooldownOver'
  OBVIOUS
<1> USE DEF CooldownOver, timer, signals, ages, profile
<1>1. CASE Start \/ TickNormal \/ TickWatch \/ CancelCase \/ ScanCase
  BY <1>1 DEF Start, TickNormal, TickWatch, CancelCase, ScanCase
<1>2. CASE TickDump
  BY <1>2, IntervalAssumption DEF TickDump, Due, TypeOK
<1>3. CASE StopCase
  BY <1>3 DEF StopCase
<1>4. CASE DumpFails \/ TakeSnapshot \/ DumpDone
  BY <1>4 DEF DumpFails, TakeSnapshot, DumpDone, AfterDump
<1>5. CASE HeapMove \/ Stop \/ Cancel
  BY <1>5 DEF HeapMove, Stop, Cancel
<1>6. CASE ForceDump \/ OtherProfileStarts \/ OtherProfileStops
  BY <1>6 DEF ForceDump, OtherProfileStarts, OtherProfileStops
<1>7. CASE Advance
  BY <1>7, IntervalAssumption DEF Advance, TypeOK
<1>8. CASE UNCHANGED vars
  BY <1>8 DEF vars
<1> QED
  BY <1>1, <1>2, <1>3, <1>4, <1>5, <1>6, <1>7, <1>8 DEF Next, Instant, RunStep

LEMMA CooldownOverInvariant == TSpec => []CooldownOver
<1>1. Init => CooldownOver
  BY DEF Init, CooldownOver
<1> QED
  BY <1>1, CooldownOverStep, TimedIsRun, RunTypeCorrect, PTL DEF Spec

(* What an instant does to an age: it starts over when a dump completes.   *)
LEMMA AgesInInstant ==
  ASSUME Instant
  PROVE  /\ since2' = IF Completes("2") THEN 0 ELSE since2
         /\ since3' = IF Completes("3") THEN 0 ELSE since3
<1> USE DEF Completes, timer, signals, ages, profile
<1>1. CASE Start \/ TickNormal \/ TickWatch \/ TickDump \/ StopCase
           \/ CancelCase \/ ScanCase
  BY <1>1 DEF Start, TickNormal, TickWatch, TickDump, StopCase, CancelCase,
     ScanCase
<1>2. CASE DumpFails \/ TakeSnapshot
  BY <1>2 DEF DumpFails, TakeSnapshot
<1>3. CASE DumpDone
  BY <1>3 DEF DumpDone, AfterDump
<1>4. CASE HeapMove \/ Stop \/ Cancel
  BY <1>4 DEF HeapMove, Stop, Cancel
<1>5. CASE ForceDump \/ OtherProfileStarts \/ OtherProfileStops
  BY <1>5 DEF ForceDump, OtherProfileStarts, OtherProfileStops
<1> QED
  BY <1>1, <1>2, <1>3, <1>4, <1>5 DEF Instant, RunStep

LEMMA NextDump ==
  ASSUME NEW n \in Nat, NEW c \in Nat
  PROVE  ((n + 1) - 1) * c = (n - 1) * c + c
OBVIOUS

(* n dumps of a tier take at least n - 1 cooldowns of that tier.           *)
THEOREM RateIsBounded == TSpec => []RateBounded
<1>1. TInit => RateBounded
  BY DEF TInit, RateBounded
<1>2. TTypeOK /\ CooldownOver /\ RateBounded /\ [TNext]_tvars => RateBounded'
  <2> SUFFICES ASSUME TTypeOK, CooldownOver, RateBounded, [TNext]_tvars
               PROVE  RateBounded'
    OBVIOUS
  <2>1. CASE TInstant
    <3>1. CASE Completes("3")
      <4>1. since3 = CooldownTier3 /\ since3' = 0 /\ dumps3' = dumps3 + 1
            /\ now' = now
        BY <2>1, <3>1, AgesInInstant DEF TInstant, Completes, CooldownOver
      <4>2. since2' = since2 /\ dumps2' = dumps2
        BY <2>1, <3>1, AgesInInstant DEF TInstant, Completes
      <4>3. CASE dumps3 = 0
        BY <4>1, <4>2, <4>3, IntervalAssumption DEF RateBounded, TTypeOK
      <4>4. CASE dumps3 > 0
        <5>1. (dumps3 - 1) * CooldownTier3 + CooldownTier3 <= now
          BY <4>1, <4>4 DEF RateBounded
        <5>2. (dumps3' - 1) * CooldownTier3 + since3' <= now'
          BY <4>1, <5>1, NextDump, IntervalAssumption DEF TTypeOK
        <5> QED
          BY <4>1, <4>2, <5>2 DEF RateBounded
      <4> QED
        BY <4>3, <4>4 DEF TTypeOK
    <3>2. CASE Completes("2")
      <4>1. since2 = CooldownTier2 /\ since2' = 0 /\ dumps2' = dumps2 + 1
            /\ now' = now
        BY <2>1, <3>2, AgesInInstant DEF TInstant, Completes, CooldownOver
      <4>2. since3' = since3 /\ dumps3' = dumps3
        BY <2>1, <3>2, AgesInInstant DEF TInstant, Completes
      <4>3. CASE dumps2 = 0
        BY <4>1, <4>2, <4>3, IntervalAssumption DEF RateBounded, TTypeOK
      <4>4. CASE dumps2 > 0
        <5>1. (dumps2 - 1) * CooldownTier2 + CooldownTier2 <= now
          BY <4>1, <4>4 DEF RateBounded
        <5>2. (dumps2' - 1) * CooldownTier2 + since2' <= now'
          BY <4>1, <5>1, NextDump, IntervalAssumption DEF TTypeOK
        <5> QED
          BY <4>1, <4>2, <5>2 DEF RateBounded
      <4> QED
        BY <4>3, <4>4 DEF TTypeOK
    <3>3. CASE ~Completes("2") /\ ~Completes("3")
      BY <2>1, <3>3, AgesInInstant DEF TInstant, RateBounded
    <3> QED
      BY <3>1, <3>2, <3>3
  <2>2. CASE TAdvance
    <3>1. /\ since2' <= since2 + 1 /\ since3' <= since3 + 1
          /\ since2' \in Nat /\ since3' \in Nat
      BY <2>2, IntervalAssumption DEF TAdvance, Advance, TTypeOK, TypeOK
    <3>2. now' = now + 1 /\ dumps2' = dumps2 /\ dumps3' = dumps3
      BY <2>2 DEF TAdvance
    <3>3. /\ (dumps2 - 1) * CooldownTier2 \in Int
          /\ (dumps3 - 1) * CooldownTier3 \in Int
      BY IntervalAssumption DEF TTypeOK
    <3> QED
      BY <3>1, <3>2, <3>3 DEF RateBounded, TTypeOK, TypeOK
  <2>3. CASE UNCHANGED tvars
    BY <2>3 DEF tvars, vars, ages, RateBounded
  <2> QED
    BY <2>1, <2>2, <2>3 DEF TNext
<1> QED
  BY <1>1, <1>2, TimedType, CooldownOverInvariant, PTL DEF TSpec

-----------------------------------------------------------------------------
(***************************************************************************)
(* What a due dump has waited and what the ticker has still to go make at  *)
(* most an interval; a tick that is there is taken before time goes on.    *)
(***************************************************************************)
OverdueInv ==
  /\ ~DumpIsDue => overdue = 0
  /\ tick => overdue <= interval
  /\ ~tick => overdue + wait <= interval

(* Only a tick touches the ticker, and it leaves no dump due in the select. *)
LEMMA TimerInInstant ==
  ASSUME TypeOK, Instant
  PROVE  \/ UNCHANGED timer
         \/ ~DumpIsDue' /\ wait' \in 1..interval' /\ interval' \in Nat
<1> USE DEF timer, signals, ages, profile
<1>1. CASE TickNormal
  <2>1. ~DumpIsDue'
    BY <1>1 DEF TickNormal, DumpIsDue, Due
  <2>2. wait' \in 1..interval' /\ interval' \in Nat
    BY <1>1, IntervalAssumption DEF TickNormal, SetInterval, TypeOK
  <2> QED
    BY <2>1, <2>2
<1>2. CASE TickWatch
  <2>1. ~DumpIsDue'
    BY <1>2 DEF TickWatch, DumpIsDue, Due
  <2>2. wait' \in 1..interval' /\ interval' \in Nat
    BY <1>2, IntervalAssumption DEF TickWatch, SetInterval, TypeOK
  <2> QED
    BY <2>1, <2>2
<1>3. CASE TickDump
  <2>1. ~DumpIsDue'
    BY <1>3 DEF TickDump, DumpIsDue
  <2>2. wait' \in 1..interval' /\ interval' \in Nat
    BY <1>3, IntervalAssumption DEF TickDump, SetInterval, TypeOK
  <2> QED
    BY <2>1, <2>2
<1>4. CASE Start \/ StopCase \/ CancelCase \/ ScanCase \/ DumpFails
           \/ TakeSnapshot \/ DumpDone
  BY <1>4 DEF Start, StopCase, CancelCase, ScanCase, DumpFails, TakeSnapshot,
     DumpDone
<1>5. CASE HeapMove \/ Stop \/ Cancel \/ ForceDump \/ OtherProfileStarts
           \/ OtherProfileStops
  BY <1>5 DEF HeapMove, Stop, Cancel, ForceDump, OtherProfileStarts,
     OtherProfileStops
<1> QED
  BY <1>1, <1>2, <1>3, <1>4, <1>5 DEF Instant, RunStep

LEMMA NothingOverdue ==
  ASSUME NEW o, NEW w, NEW i \in Nat, o = 0, w \in 1..i
  PROVE  o <= i /\ o + w <= i
OBVIOUS

LEMMA OverdueStep ==
  TTypeOK /\ OverdueInv /\ [TNext]_tvars => OverdueInv'
<1> SUFFICES ASSUME TTypeOK, OverdueInv, [TNext]_tvars PROVE OverdueInv'
  OBVIOUS
<1>0. TypeOK /\ overdue \in Nat /\ interval \in Nat /\ wait \in 1..interval
  BY IntervalAssumption DEF TTypeOK, TypeOK
<1>1. CASE TInstant
  <2>1. ~DumpIsDue' => overdue' = 0
    BY <1>1 DEF TInstant
  <2>2. overdue' = overdue \/ overdue' = 0
    BY <1>1 DEF TInstant
  <2>3. CASE UNCHANGED timer
    BY <1>0, <2>1, <2>2, <2>3 DEF OverdueInv, timer
  <2>4. CASE ~DumpIsDue' /\ wait' \in 1..interval' /\ interval' \in Nat
    <3>0. overdue' = 0
      BY <2>1, <2>4
    <3>1. overdue' <= interval' /\ overdue' + wait' <= interval'
      BY <2>4, <3>0, NothingOverdue
    <3> QED
      BY <2>1, <3>1, Zenon DEF OverdueInv
  <2> QED
    BY <1>0, <1>1, <2>3, <2>4, TimerInInstant DEF TInstant
<1>2. CASE TAdvance
  <2>1. UNCHANGED <<pc, heap, interval>>
    BY <1>2 DEF TAdvance, Advance
  <2>2. CASE DumpIsDue
    <3>1. ~tick /\ overdue' = overdue + 1
      BY <1>2, <2>2 DEF TAdvance, Advance, DumpIsDue, CaseReady
    <3>2. DumpIsDue'
      BY <1>2, <2>1, <2>2, <1>0, IntervalAssumption
         DEF TAdvance, Advance, DumpIsDue, Due, TypeOK
    <3>3. \/ wait = 1 /\ tick'
          \/ wait # 1 /\ wait' = wait - 1 /\ ~tick'
      BY <1>2, <3>1 DEF TAdvance, Advance
    <3> QED
      BY <1>0, <2>1, <3>1, <3>2, <3>3 DEF OverdueInv
  <2>3. CASE ~DumpIsDue
    <3>1. overdue' = 0
      BY <1>2, <2>3 DEF TAdvance
    <3>2. wait' \in 1..interval'
      BY <1>0, <1>2, <2>1 DEF TAdvance, Advance
    <3> QED
      <4>0. interval' \in Nat
        BY <1>0, <2>1
      <4>1. overdue' <= interval' /\ overdue' + wait' <= interval'
        BY <3>1, <3>2, <4>0, NothingOverdue
      <4> QED
        BY <3>1, <4>1, Zenon DEF OverdueInv
  <2> QED
    BY <2>2, <2>3
<1>3. CASE UNCHANGED tvars
  BY <1>3 DEF tvars, vars, timer, ages, OverdueInv, DumpIsDue, Due
<1> QED
  BY <1>1, <1>2, <1>3 DEF TNext

(* A dump that is due waits for at most one polling interval.              *)
THEOREM DumpsArePrompt == TSpec => []DumpIsPrompt
<1>1. TInit => OverdueInv
  BY IntervalAssumption DEF TInit, Init, OverdueInv
<1>2. TTypeOK /\ OverdueInv => DumpIsPrompt
  <2> SUFFICES ASSUME TTypeOK, OverdueInv PROVE DumpIsPrompt
    OBVIOUS
  <2>1. interval \in Nat /\ wait \in 1..interval /\ overdue \in Nat
    BY IntervalAssumption DEF TTypeOK, TypeOK
  <2> QED
    BY <2>1 DEF OverdueInv, DumpIsPrompt
<1> QED
  BY <1>1, <1>2, OverdueStep, TimedType, PTL DEF TSpec

-----------------------------------------------------------------------------
(***************************************************************************)
(* Without a cancellation Run returns only after Stop(), and it does so    *)
(* from the stop case, where the heap is read, or after the final dump.    *)
(***************************************************************************)
ShutdownInv ==
  /\ stopFirst \in BOOLEAN /\ hotSinceStop \in BOOLEAN
  /\ hotSinceStop => stopFirst /\ heap >= 2
  /\ stopped /\ ~cancelled => stopFirst
  /\ ~cancelled /\ job = "shutdown" => stopped
  /\ pc = "returned" /\ HasLimit /\ ~cancelled =>
       stopped /\ (hotSinceStop => job = "shutdown")

LEMMA ObservedStep ==
  ASSUME TypeOK, ShutdownInv, SNext
  PROVE  /\ stopFirst' \in BOOLEAN /\ hotSinceStop' \in BOOLEAN
         /\ stopFirst => stopFirst'
         /\ hotSinceStop' => stopFirst' /\ heap' >= 2
         /\ stopFirst /\ hotSinceStop' => hotSinceStop
         /\ stopped' # stopped /\ ~cancelled => stopFirst'
<1>1. stopFirst' \in BOOLEAN /\ hotSinceStop' \in BOOLEAN
  BY Zenon DEF SNext
<1>2. stopFirst' = (stopFirst \/ (stopped' # stopped /\ ~cancelled))
  BY DEF SNext
<1>3. hotSinceStop' = (stopFirst' /\ heap' >= 2 /\ (stopFirst => hotSinceStop))
  BY DEF SNext
<1> QED
  BY <1>1, <1>2, <1>3 DEF ShutdownInv

LEMMA ShutdownStep == TypeOK /\ ShutdownInv /\ [SNext]_svars => ShutdownInv'
<1>1. CASE UNCHANGED svars
  BY <1>1 DEF svars, tvars, vars, signals, ShutdownInv
<1>2. ASSUME TypeOK, ShutdownInv, SNext
      PROVE  ShutdownInv'
  <2>1. CASE CancelCase \/ StopCase \/ DumpFails \/ DumpDone
    BY <1>2, <2>1, ObservedStep, SwitchAssumption
    DEF CancelCase, StopCase, DumpFails, DumpDone, AfterDump, signals, ShutdownInv, TypeOK
  <2>2. CASE Start
    BY <1>2, <2>2, ObservedStep, SwitchAssumption DEF Start, signals, ShutdownInv, TypeOK
  <2>3. CASE TickNormal \/ TickWatch \/ TickDump \/ ScanCase \/ TakeSnapshot
    BY <1>2, <2>3, ObservedStep
    DEF TickNormal, TickWatch, TickDump, ScanCase, TakeSnapshot, signals, ShutdownInv, TypeOK
  <2>4. CASE Stop \/ Cancel
    BY <1>2, <2>4, ObservedStep DEF Stop, Cancel, ShutdownInv, TypeOK
  <2>5. CASE HeapMove \/ ForceDump \/ OtherProfileStarts \/ OtherProfileStops \/ Advance
    BY <1>2, <2>5, ObservedStep
    DEF HeapMove, ForceDump, OtherProfileStarts, OtherProfileStops, Advance, signals,
        ShutdownInv, TypeOK
  <2> QED
    BY <1>2, <2>1, <2>2, <2>3, <2>4, <2>5
    DEF SNext, TNext, TInstant, TAdvance, Instant, RunStep
<1> QED
  BY <1>1, <1>2

(* watcher.go 407-421: Stop() alone gets its final dump when the heap has    *)
(* been at tier 2 or above since, whatever Run was doing.                    *)
THEOREM StopAloneGetsDump == SSpec => []StopAloneDumps
<1>1. SInit => ShutdownInv
  BY DEF SInit, TInit, Init, ShutdownInv
<1>2. ShutdownInv => StopAloneDumps
  BY DEF ShutdownInv, StopAloneDumps, Began
<1>3. SSpec => TSpec
  <2>1. SInit => TInit
    BY DEF SInit
  <2>2. [SNext]_svars => [TNext]_tvars
    BY DEF SNext, svars
  <2> QED
    BY <2>1, <2>2, PTL DEF SSpec, TSpec
<1> QED
  BY <1>1, <1>2, <1>3, ShutdownStep, TimedIsRun, RunTypeCorrect, PTL DEF SSpec

-----------------------------------------------------------------------------
(* WatcherNotify *)

LEMMA QuotientsDiffer ==
  ASSUME NEW c \in Nat \ {0}, NEW a \in Nat, NEW b \in Nat, a + c <= b
  PROVE  a \div c # b \div c
<1> DEFINE p == a \div c
           q == b \div c
<1>1. /\ p \in Int /\ q \in Int
      /\ c * p <= a /\ a < c * p + c
      /\ c * q <= b /\ b < c * q + c
  OBVIOUS
<1>2. p = q => c * p = c * q
  OBVIOUS
<1>3. c * p \in Int /\ c * q \in Int
  BY <1>1
<1> HIDE DEF p, q
<1>4. p # q
  BY <1>1, <1>2, <1>3
<1> QED
  BY <1>4 DEF p, q

LEMMA QuotientsGrow ==
  ASSUME NEW c \in Nat \ {0}, NEW a \in Nat, NEW b \in Nat, a <= b
  PROVE  a \div c \in 0..(b \div c)
<1> DEFINE p == a \div c
           q == b \div c
<1>1. /\ p \in Nat /\ q \in Nat
      /\ c * p <= a /\ a < c * p + c
      /\ c * q <= b /\ b < c * q + c
  OBVIOUS
<1> HIDE DEF p, q
<1>2. p <= q
  <2> SUFFICES ASSUME q + 1 <= p PROVE FALSE
    BY <1>1
  <2>1. c * (q + 1) <= c * p
    BY <1>1
  <2>2. c * (q + 1) = c * q + c /\ c * p \in Int /\ c * q \in Int
    BY <1>1
  <2> QED
    BY <1>1, <2>1, <2>2
<1> QED
  BY <1>1, <1>2 DEF p, q

(* So many things, of which any two are c apart, fit into NotifyTimeout.     *)
LEMMA ApartFit ==
  ASSUME NEW c \in Nat \ {0}, NEW first \in Int, NEW S, NEW time \in [S -> Int],
         \A x \in S : first <= time[x] /\ time[x] - first < NotifyTimeout,
         \A x, y \in S : x # y => time[x] + c <= time[y] \/ time[y] + c <= time[x]
  PROVE  IsFiniteSet(S) /\ Cardinality(S) \in Nat /\ Cardinality(S) <= Room(c)
<1> DEFINE span == NotifyTimeout - 1
           T == 0..(span \div c)
           slot == [x \in S |-> (time[x] - first) \div c]
<1>1. span \in Nat /\ span \div c \in Nat
  BY NotifyAssumption, QuotientsGrow
<1>2. \A x \in S : time[x] - first \in Nat /\ time[x] - first <= span
  BY NotifyAssumption
<1>3. slot \in [S -> T]
  BY <1>1, <1>2, QuotientsGrow
<1>4. ASSUME NEW x \in S, NEW y \in S, x # y
      PROVE  slot[x] # slot[y]
  <2>1. CASE time[x] + c <= time[y]
    <3>1. (time[x] - first) + c <= time[y] - first
      BY <2>1
    <3> QED
      BY <1>2, <3>1, QuotientsDiffer
  <2>2. CASE time[y] + c <= time[x]
    <3>1. (time[y] - first) + c <= time[x] - first
      BY <2>2
    <3> QED
      BY <1>2, <3>1, QuotientsDiffer
  <2> QED
    BY <1>4, <2>1, <2>2
<1> HIDE DEF slot
<1>5. slot \in Injection(S, T)
  BY <1>3, <1>4 DEF Injection, IsInjective
<1>6. IsFiniteSet(T) /\ Cardinality(T) = Room(c)
  BY <1>1, FS_Interval DEF Room
<1> HIDE DEF T
<1>7. IsFiniteSet(S) /\ Cardinality(S) <= Cardinality(T)
  BY <1>5, <1>6, FS_Injection
<1> QED
  BY <1>6, <1>7, FS_CardinalityType

Of(label) == {n \in pending : n.label = label}

Apart(label, cooldown) ==
  \A m, n \in Of(label) : m # n => m.sent + cooldown <= n.sent \/ n.sent + cooldown <= m.sent

(***************************************************************************)
(* What is under way was sent within the last NotifyTimeout, and what was  *)
(* sent of one tier a cooldown apart, the last no later than the time its  *)
(* cooldown counts from.  Of the shutdown dump there is one notification,  *)
(* when Run has returned.                                                  *)
(***************************************************************************)
PendingInv ==
  /\ pending \subseteq [label : {"2", "3", "shutdown"}, nr : Nat, sent : Nat]
  /\ \A n \in pending : n.sent <= now /\ now - n.sent < NotifyTimeout
  /\ \A n \in Of("2") : n.sent + since2 <= now
  /\ \A n \in Of("3") : n.sent + since3 <= now
  /\ Apart("2", CooldownTier2) /\ Apart("3", CooldownTier3)
  /\ Of("shutdown") # {} => pc = "returned"
  /\ \A m, n \in Of("shutdown") : m = n
  /\ pc \in {"dump", "write"} => job # "none"

LEMMA LabelOfDump ==
  TypeOK /\ (pc \in {"dump", "write"} => job # "none") /\ Next
    => (pc' \in {"dump", "write"} => job' # "none")
BY DEF Next, Instant, RunStep, Start, TickNormal, TickWatch, TickDump, StopCase, CancelCase,
       ScanCase, DumpFails, TakeSnapshot, DumpDone, AfterDump, HeapMove, Stop, Cancel,
       ForceDump, OtherProfileStarts, OtherProfileStops, Advance

(* Run does not come back, and returns after a shutdown dump.                *)
LEMMA WayOut ==
  ASSUME Next
  PROVE  /\ pc = "returned" => pc' = "returned"
         /\ Completed => pc' = IF job = "shutdown" THEN "returned" ELSE "select"
BY DEF Completed, Next, Instant, RunStep, Start, TickNormal, TickWatch, TickDump, StopCase, CancelCase,
       ScanCase, DumpFails, TakeSnapshot, DumpDone, AfterDump, HeapMove, Stop, Cancel,
       ForceDump, OtherProfileStarts, OtherProfileStops, Advance

LEMMA AgesFollow ==
  ASSUME NEW S, NEW age \in Int, NEW age1 \in Int, NEW t \in Int, NEW t1 \in Int,
         \A n \in S : n.sent \in Int /\ n.sent + age <= t,
         age1 + t <= age + t1
  PROVE  \A n \in S : n.sent + age1 <= t1
<1>1. \A sent \in Int : sent + age <= t => sent + age1 <= t1
  OBVIOUS
<1> QED
  BY <1>1

(* A subset of what is under way, when time or the ages have not got ahead.  *)
LEMMA PendingShrinks ==
  ASSUME PendingInv, TTypeOK, TTypeOK', pending' \subseteq pending, now <= now',
         \A n \in pending' : now' - n.sent < NotifyTimeout,
         since2' + now <= since2 + now', since3' + now <= since3 + now',
         pc = "returned" => pc' = "returned",
         pc' \in {"dump", "write"} => job' # "none"
  PROVE  PendingInv'
<1>1. /\ now \in Nat /\ now' \in Nat
      /\ since2 \in Int /\ since3 \in Int /\ since2' \in Int /\ since3' \in Int
  BY DEF TTypeOK, TypeOK
<1>2. \A label : Of(label)' \subseteq Of(label)
  BY DEF Of
<1>3. \A n \in pending : n.sent \in Nat
  BY DEF PendingInv
<1>4. \A label : \A n \in Of(label)' : n \in pending
  BY <1>2 DEF Of
<1>5. \A n \in pending' : n.sent <= now'
  BY <1>1, <1>3 DEF PendingInv
<1>6. \A n \in Of("2")' : n.sent + since2' <= now'
  <2>1. \A n \in Of("2")' : n.sent \in Int /\ n.sent + since2 <= now
    BY <1>2, <1>3, <1>4 DEF PendingInv
  <2> DEFINE S == Of("2")'
  <2> HIDE DEF S
  <2>2. \A n \in S : n.sent \in Int /\ n.sent + since2 <= now
    BY <2>1 DEF S
  <2>3. \A n \in S : n.sent + since2' <= now'
    <3>1. PICK t \in Int, t1 \in Int, a \in Int, b \in Int :
            now = t /\ now' = t1 /\ since2 = a /\ since2' = b
      BY <1>1
    <3>2. \A n \in S : n.sent \in Int /\ n.sent + a <= t
      BY <2>2, <3>1
    <3>3. b + t <= a + t1
      BY <3>1
    <3>4. \A n \in S : n.sent + b <= t1
      BY <3>2, <3>3, AgesFollow
    <3> QED
      BY <3>1, <3>4
  <2> QED
    BY <2>3 DEF S
<1>7. \A n \in Of("3")' : n.sent + since3' <= now'
  <2>1. \A n \in Of("3")' : n.sent \in Int /\ n.sent + since3 <= now
    BY <1>2, <1>3, <1>4 DEF PendingInv
  <2> DEFINE S == Of("3")'
  <2> HIDE DEF S
  <2>2. \A n \in S : n.sent \in Int /\ n.sent + since3 <= now
    BY <2>1 DEF S
  <2>3. \A n \in S : n.sent + since3' <= now'
    <3>1. PICK t \in Int, t1 \in Int, a \in Int, b \in Int :
            now = t /\ now' = t1 /\ since3 = a /\ since3' = b
      BY <1>1
    <3>2. \A n \in S : n.sent \in Int /\ n.sent + a <= t
      BY <2>2, <3>1
    <3>3. b + t <= a + t1
      BY <3>1
    <3>4. \A n \in S : n.sent + b <= t1
      BY <3>2, <3>3, AgesFollow
    <3> QED
      BY <3>1, <3>4
  <2> QED
    BY <2>3 DEF S
<1>8. Apart("2", CooldownTier2)' /\ Apart("3", CooldownTier3)'
  BY <1>2 DEF PendingInv, Apart
<1>9. /\ Of("shutdown")' # {} => pc' = "returned"
      /\ \A m, n \in Of("shutdown")' : m = n
  BY <1>2 DEF PendingInv
<1> QED
  BY <1>5, <1>6, <1>7, <1>8, <1>9 DEF PendingInv

LEMMA PendingStep ==
  TTypeOK /\ TTypeOK' /\ CooldownOver /\ PendingInv /\ [NNext]_nvars => PendingInv'
<1> SUFFICES ASSUME TTypeOK, TTypeOK', CooldownOver, PendingInv, [NNext]_nvars
             PROVE  PendingInv'
  OBVIOUS
<1>0. /\ now \in Nat /\ now' \in Nat /\ dumps2 + dumps3 \in Nat
      /\ since2 \in Nat /\ since3 \in Nat /\ since2' \in Nat /\ since3' \in Nat
      /\ CooldownTier2 \in Nat \ {0} /\ CooldownTier3 \in Nat \ {0}
  BY IntervalAssumption DEF TTypeOK, TypeOK
<1>1. CASE UNCHANGED <<svars, pending>>
  BY <1>1, PendingShrinks, <1>0 DEF svars, tvars, vars, ages, PendingInv
<1>2. CASE (RenderFails \/ Answered) /\ UNCHANGED svars
  <2>1. pending' \subseteq pending
    BY <1>2 DEF RenderFails, Answered, Ends
  <2>2. UNCHANGED <<now, since2, since3, pc, job>>
    BY <1>2 DEF svars, tvars, vars, ages
  <2>3. \A n \in pending' : now' - n.sent < NotifyTimeout
    BY <2>1, <2>2 DEF PendingInv
  <2>4. pc' \in {"dump", "write"} => job' # "none"
    BY <2>2 DEF PendingInv
  <2>5. now <= now' /\ since2' + now <= since2 + now' /\ since3' + now <= since3 + now'
    BY <1>0, <2>2
  <2> QED
    BY <2>1, <2>2, <2>3, <2>4, <2>5, PendingShrinks
<1>3. CASE TAdvance /\ Older
  <2>1. pending' \subseteq pending /\ \A n \in pending' : now' - n.sent < NotifyTimeout
    BY <1>3 DEF Older
  <2>2. /\ now' = now + 1 /\ UNCHANGED <<pc, job>>
        /\ since2' <= since2 + 1 /\ since3' <= since3 + 1
    BY <1>0, <1>3 DEF TAdvance, Advance
  <2>3. pc' \in {"dump", "write"} => job' # "none"
    BY <2>2 DEF PendingInv
  <2>4. now <= now' /\ since2' + now <= since2 + now' /\ since3' + now <= since3 + now'
    <3>1. PICK t \in Int, a2 \in Int, a3 \in Int, b2 \in Int, b3 \in Int :
            now = t /\ since2 = a2 /\ since3 = a3 /\ since2' = b2 /\ since3' = b3
      BY <1>0
    <3>2. now' = t + 1 /\ b2 <= a2 + 1 /\ b3 <= a3 + 1
      BY <2>2, <3>1
    <3> QED
      BY <3>1, <3>2
  <2> QED
    BY <2>1, <2>2, <2>3, <2>4, PendingShrinks
<1>4. ASSUME TInstant
      PROVE  /\ now' = now
             /\ since2' = IF Completes("2") THEN 0 ELSE since2
             /\ since3' = IF Completes("3") THEN 0 ELSE since3
             /\ pc = "returned" => pc' = "returned"
             /\ Completed => pc' = IF job = "shutdown" THEN "returned" ELSE "select"
             /\ pc' \in {"dump", "write"} => job' # "none"
  <2>1. Instant /\ Next /\ now' = now
    BY <1>4 DEF TInstant, Next
  <2>2. pc' \in {"dump", "write"} => job' # "none"
    BY <2>1, LabelOfDump DEF TTypeOK, PendingInv
  <2> QED
    BY <2>1, <2>2, AgesInInstant, WayOut
<1>5. CASE TInstant /\ ~Completed /\ UNCHANGED pending
  <2>1. \A n \in pending' : now' - n.sent < NotifyTimeout
    BY <1>4, <1>5 DEF PendingInv
  <2>2. since2' = since2 /\ since3' = since3
    BY <1>4, <1>5 DEF Completes, Completed
  <2> QED
    BY <1>0, <1>4, <1>5, <2>1, <2>2, PendingShrinks
<1>6. CASE TInstant /\ Completed /\ Notify
  <2> DEFINE new == [label |-> job, nr |-> dumps2 + dumps3, sent |-> now]
  <2>1. /\ pending' = pending \cup {new}
        /\ new.label = job /\ new.sent = now
        /\ job \in {"2", "3", "shutdown"}
        /\ new \in [label : {"2", "3", "shutdown"}, nr : Nat, sent : Nat]
    <3>1. job \in {"2", "3", "shutdown"}
      BY <1>6 DEF Completed, TTypeOK, TypeOK, PendingInv
    <3> QED
      BY <1>0, <1>6, <3>1 DEF Notify
  <2> HIDE DEF new
  <2>2. /\ now' = now
        /\ since2' = IF job = "2" THEN 0 ELSE since2
        /\ since3' = IF job = "3" THEN 0 ELSE since3
        /\ job = "2" => since2 = CooldownTier2
        /\ job = "3" => since3 = CooldownTier3
    BY <1>4, <1>6 DEF Completes, Completed, CooldownOver
  <2>3. \A label : Of(label)' = IF label = job THEN Of(label) \cup {new} ELSE Of(label)
    BY <2>1 DEF Of
  <2>4. \A n \in pending : n.sent \in Nat /\ n.sent <= now
    BY DEF PendingInv
  <2>5. \A label : \A n \in Of(label) : n.sent \in Nat /\ n.sent <= now
    BY <2>4 DEF Of
  <2>6. \A n \in pending' : n.sent <= now' /\ now' - n.sent < NotifyTimeout
    BY <1>0, <2>1, <2>2, NotifyAssumption DEF PendingInv
  <2>7. \A n \in Of("2")' : n.sent + since2' <= now'
    BY <1>0, <2>1, <2>2, <2>3, <2>5 DEF PendingInv
  <2>8. \A n \in Of("3")' : n.sent + since3' <= now'
    BY <1>0, <2>1, <2>2, <2>3, <2>5 DEF PendingInv
  <2>9. Apart("2", CooldownTier2)'
    <3>1. \A n \in Of("2") : job = "2" => n.sent + CooldownTier2 <= new.sent
      BY <2>1, <2>2 DEF PendingInv
    <3> QED
      BY <2>3, <3>1 DEF Apart, PendingInv
  <2>10. Apart("3", CooldownTier3)'
    <3>1. \A n \in Of("3") : job = "3" => n.sent + CooldownTier3 <= new.sent
      BY <2>1, <2>2 DEF PendingInv
    <3> QED
      BY <2>3, <3>1 DEF Apart, PendingInv
  <2>11. /\ Of("shutdown")' # {} => pc' = "returned"
         /\ \A m, n \in Of("shutdown")' : m = n
    <3>1. pc = "write" /\ Of("shutdown") = {}
      BY <1>6 DEF Completed, PendingInv
    <3>2. pc' = IF job = "shutdown" THEN "returned" ELSE "select"
      BY <1>4, <1>6
    <3> QED
      BY <2>3, <3>1, <3>2
  <2>12. pc' \in {"dump", "write"} => job' # "none"
    BY <1>4, <1>6
  <2>13. pending' \subseteq [label : {"2", "3", "shutdown"}, nr : Nat, sent : Nat]
    BY <2>1 DEF PendingInv
  <2> QED
    BY <2>6, <2>7, <2>8, <2>9, <2>10, <2>11, <2>12, <2>13 DEF PendingInv
<1>7. TInstant => now' = now
  BY <1>4
<1>8. TAdvance => now' # now
  BY <1>0 DEF TAdvance
<1> QED
  BY <1>1, <1>2, <1>3, <1>5, <1>6, <1>7, <1>8 DEF NNext, SNext, TNext, nvars

(* watcher.go 609-637: no more notifications are under way than the          *)
(* cooldowns have room for in a NotifyTimeout, for every cooldown and        *)
(* timeout, and whatever the channel does.                                   *)
THEOREM NotifiersAreBounded == NSpec => []NotifiersBounded
<1>1. NInit => PendingInv
  BY DEF NInit, SInit, TInit, Init, PendingInv, Of, Apart
<1>2. PendingInv /\ TTypeOK => NotifiersBounded
  <2> SUFFICES ASSUME PendingInv, TTypeOK PROVE NotifiersBounded
    OBVIOUS
  <2> DEFINE A == Of("2")
             B == Of("3")
             C == Of("shutdown")
  <2>1. \A n \in pending : n.sent \in Int /\ now - n.sent < NotifyTimeout /\ n.sent <= now
    BY DEF PendingInv
  <2>2. now \in Nat /\ NotifyTimeout \in Nat \ {0}
        /\ CooldownTier2 \in Nat \ {0} /\ CooldownTier3 \in Nat \ {0}
    BY NotifyAssumption, IntervalAssumption DEF TTypeOK
  <2>3. ASSUME NEW label, NEW c \in Nat \ {0}, Apart(label, c)
        PROVE  /\ IsFiniteSet(Of(label)) /\ Cardinality(Of(label)) \in Nat
               /\ Cardinality(Of(label)) <= Room(c)
    <3> DEFINE S == Of(label)
               time == [n \in S |-> n.sent]
               first == now - NotifyTimeout + 1
    <3>1. \A n \in S : n \in pending /\ n.sent \in Int /\ time[n] = n.sent
      BY <2>1 DEF Of
    <3>2. time \in [S -> Int] /\ first \in Int
      BY <2>2, <3>1
    <3>3. \A n \in S : first <= time[n] /\ time[n] - first < NotifyTimeout
      BY <2>1, <2>2, <3>1
    <3>4. \A m, n \in S : m # n => time[m] + c <= time[n] \/ time[n] + c <= time[m]
      BY <2>3, <3>1 DEF Apart
    <3> HIDE DEF S, time, first
    <3>5. IsFiniteSet(S) /\ Cardinality(S) \in Nat /\ Cardinality(S) <= Room(c)
      BY <3>2, <3>3, <3>4, ApartFit
    <3> QED
      BY <3>5 DEF S
  <2>4. /\ IsFiniteSet(A) /\ Cardinality(A) \in Nat /\ Cardinality(A) <= Room(CooldownTier2)
        /\ IsFiniteSet(B) /\ Cardinality(B) \in Nat /\ Cardinality(B) <= Room(CooldownTier3)
    BY <2>2, <2>3 DEF PendingInv
  <2>5. IsFiniteSet(C) /\ Cardinality(C) \in Nat /\ Cardinality(C) <= 1
    <3>1. CASE C = {}
      <4>1. IsFiniteSet({}) /\ Cardinality({}) = 0
        BY FS_EmptySet
      <4> HIDE DEF C
      <4> QED
        BY <3>1, <4>1
    <3>2. CASE C # {}
      <4>1. PICK n : C = {n}
        BY <3>2 DEF PendingInv
      <4>2. IsFiniteSet({n}) /\ Cardinality({n}) = 1
        BY FS_Singleton
      <4> HIDE DEF C
      <4> QED
        BY <4>1, <4>2
    <3> QED
      BY <3>1, <3>2
  <2>6. pending = (A \cup B) \cup C
    BY DEF PendingInv, Of
  <2> HIDE DEF A, B, C
  <2>7. IsFiniteSet(A \cup B) /\ Cardinality(A \cup B) <= Cardinality(A) + Cardinality(B)
        /\ Cardinality(A \cup B) \in Nat
    <3>1. IsFiniteSet(A \cup B) /\ IsFiniteSet(A \cap B)
      BY <2>4, FS_Union, FS_Intersection
    <3>2. Cardinality(A \cap B) \in Nat /\ Cardinality(A \cup B) \in Nat
      BY <3>1, FS_CardinalityType
    <3>3. Cardinality(A \cup B) = Cardinality(A) + Cardinality(B) - Cardinality(A \cap B)
      BY <2>4, FS_Union
    <3> QED
      BY <2>4, <3>1, <3>2, <3>3
  <2>8. Cardinality((A \cup B) \cup C) <= Cardinality(A \cup B) + Cardinality(C)
        /\ Cardinality((A \cup B) \cup C) \in Nat
    <3>1. IsFiniteSet((A \cup B) \cup C) /\ IsFiniteSet((A \cup B) \cap C)
      BY <2>5, <2>7, FS_Union, FS_Intersection
    <3>2. Cardinality((A \cup B) \cap C) \in Nat /\ Cardinality((A \cup B) \cup C) \in Nat
      BY <3>1, FS_CardinalityType
    <3>3. Cardinality((A \cup B) \cup C)
            = Cardinality(A \cup B) + Cardinality(C) - Cardinality((A \cup B) \cap C)
      BY <2>5, <2>7, FS_Union
    <3> QED
      BY <2>5, <2>7, <3>2, <3>3
  <2>9. Room(CooldownTier2) \in Int /\ Room(CooldownTier3) \in Int
    BY <2>2 DEF Room
  <2> QED
    BY <2>4, <2>5, <2>6, <2>7, <2>8, <2>9 DEF NotifiersBounded
<1>3. NSpec => TSpec
  <2>1. NInit => TInit
    BY DEF NInit, SInit
  <2>2. [NNext]_nvars => [TNext]_tvars
    BY DEF NNext, SNext, nvars, svars
  <2> QED
    BY <2>1, <2>2, PTL DEF NSpec, TSpec
<1> QED
  BY <1>1, <1>2, <1>3, PendingStep, TimedType, CooldownOverInvariant, PTL DEF NSpec
=============================================================================
