------------------------- MODULE WatcherSetupProofs -------------------------
(* Proofs about WatcherSetup, for all configurations, limits and heaps.      *)
EXTENDS WatcherSetup, HeapMonitorProofs

Timed == phase \in {"timed", "registered", "checked", "healed", "ready", "panicked"}

(* What New has established by the time it reaches each phase.               *)
Established ==
  /\ cfg \in Config
  /\ phase = "filled" \/ Timed => cfg.time.scan # 0
  /\ Timed => TimesOK
  /\ phase \in {"checked", "healed", "ready"} => PctsOK
  /\ phase = "ready" => Ordered
  /\ running => phase = "ready"
  /\ OnlyScanPanics

LEMMA EstablishedInit == Init => Established
BY ConfigAssumption
DEF Init, ConfigInit, Established, Timed, Config, OnlyScanPanics

LEMMA OrDefaultTyped ==
  ASSUME NEW S, NEW given \in [S -> Int], NEW default \in [S -> Int],
         \A f \in S : default[f] # 0
  PROVE  /\ OrDefault(given, default) \in [S -> Int]
         /\ \A f \in S : OrDefault(given, default)[f] # 0
BY DEF OrDefault

LEMMA HealValues ==
  ASSUME NEW t \in [TierField -> Int]
  PROVE  /\ HealUpper(t)["tier1"] = t["tier1"]
         /\ HealUpper(t)["tier2"] = IF t["tier2"] >= t["tier3"] THEN 80 ELSE t["tier2"]
         /\ HealUpper(t)["tier3"] = IF t["tier2"] >= t["tier3"] THEN 90 ELSE t["tier3"]
         /\ HealLower(t)["tier1"] = IF t["tier1"] >= t["tier2"] THEN 70 ELSE t["tier1"]
         /\ HealLower(t)["tier2"] = IF t["tier1"] >= t["tier2"] THEN 80 ELSE t["tier2"]
         /\ HealLower(t)["tier3"] = t["tier3"]
BY DEF HealUpper, HealLower, TierField

LEMMA HealTyped ==
  ASSUME NEW t \in [TierField -> Int]
  PROVE  HealUpper(t) \in [TierField -> Int] /\ HealLower(t) \in [TierField -> Int]
<1>1. \A f \in TierField : HealUpper(t)[f] \in Int /\ HealLower(t)[f] \in Int
  BY HealValues DEF TierField
<1>2. /\ HealUpper(t) = [f \in TierField |-> HealUpper(t)[f]]
      /\ HealLower(t) = [f \in TierField |-> HealLower(t)[f]]
  BY DEF HealUpper, HealLower
<1> QED
  BY <1>1, <1>2

LEMMA HealBelow100 ==
  ASSUME NEW t \in [TierField -> Int], \A f \in TierField : t[f] < 100
  PROVE  \A f \in TierField : HealUpper(t)[f] < 100 /\ HealLower(t)[f] < 100
BY HealValues DEF TierField

LEMMA EstablishedStep == Established /\ [Next]_vars => Established'
<1> SUFFICES ASSUME Established, [Next]_vars PROVE Established'
  OBVIOUS
<1> USE DEF Established, OnlyScanPanics, Timed
<1>0. /\ cfg \in Config /\ cfg = [tier |-> cfg.tier, time |-> cfg.time]
      /\ cfg.tier \in [TierField -> Int] /\ cfg.time \in [TimeField -> Int]
  BY DEF Config
<1>1. CASE SetDefaults
  <2>1. /\ DefaultTier \in [TierField -> Int]
        /\ DefaultTime \in [TimeField -> Int]
        /\ \A f \in TierField : DefaultTier[f] # 0
        /\ \A f \in TimeField : DefaultTime[f] # 0
    BY DEF DefaultTier, DefaultTime, TierField, TimeField
  <2>2. /\ OrDefault(cfg.tier, DefaultTier) \in [TierField -> Int]
        /\ OrDefault(cfg.time, DefaultTime) \in [TimeField -> Int]
        /\ OrDefault(cfg.time, DefaultTime)["scan"] # 0
    BY <1>0, <2>1, OrDefaultTyped DEF TimeField
  <2> QED
    BY <1>1, <2>2 DEF SetDefaults, Config
<1>2. CASE CheckTimes
  BY <1>2 DEF CheckTimes, TimesOK
<1>3. CASE RegisterCounter
  BY <1>3 DEF RegisterCounter, TimesOK
<1>4. CASE CheckPcts
  BY <1>4 DEF CheckPcts, TimesOK, PctsOK
<1>5. CASE Heal
  <2> DEFINE t == HealLower(HealUpper(cfg.tier))
  <2>1. \A f \in TierField : cfg.tier[f] < 100
    BY <1>5 DEF Heal, PctsOK
  <2>2. t \in [TierField -> Int] /\ \A f \in TierField : t[f] < 100
    BY <1>0, <2>1, HealTyped, HealBelow100
  <2>3. cfg' = [cfg EXCEPT !.tier = t] /\ phase' = "healed" /\ running' = running
    BY <1>5 DEF Heal
  <2> HIDE DEF t
  <2>4. cfg' = [tier |-> t, time |-> cfg.time]
    BY <1>0, <2>3
  <2>5. cfg' \in Config /\ cfg'.time = cfg.time /\ cfg'.tier = t
    BY <1>0, <2>2, <2>4 DEF Config
  <2>6. ~running /\ cfg.time.scan # 0 /\ TimesOK
    BY <1>5 DEF Heal
  <2> QED
    BY <2>2, <2>3, <2>5, <2>6 DEF TimesOK, PctsOK
<1>6. CASE CheckAgain
  BY <1>6 DEF CheckAgain, TimesOK, PctsOK, Ordered
<1>7. CASE StartRun
  <2>1. cfg.time.poll > 0 /\ cfg.time.scan # 0 /\ cfg.time.scan \in Int
    BY <1>0, <1>7 DEF StartRun, TimesOK, TimeField
  <2>2. /\ UNCHANGED cfg
        /\ PctsOK' /\ Ordered' /\ TimesOK'
    BY <1>7 DEF StartRun, TimesOK, PctsOK, Ordered
  <2>3. /\ running' => phase' = "ready"
        /\ phase' \in {"ready", "panicked"}
        /\ phase' = "panicked" => HasUploader /\ ~(cfg.time.scan > 0)
    BY <1>7, <2>1 DEF StartRun
  <2> QED
    BY <2>1, <2>2, <2>3
<1>8. CASE UNCHANGED cvars
  BY <1>8 DEF cvars, TimesOK, PctsOK, Ordered
<1> QED
  BY <1>1, <1>2, <1>3, <1>4, <1>5, <1>6, <1>7, <1>8
  DEF Next, New, Run, Poll, vars

(* Of the durations New lets through, only a negative ScanInterval can make  *)
(* the tickers of Run panic.                                                 *)
THEOREM OnlyScanIntervalPanics == Spec => []OnlyScanPanics
<1>1. Established => OnlyScanPanics
  BY DEF Established
<1> QED
  BY <1>1, EstablishedInit, EstablishedStep, PTL DEF Spec

(* The warning of validateAndHeal names the values in force.                 *)
THEOREM WarningsAreTrue == Spec => WarningIsTrue
<1> DEFINE W == phase = "checked" =>
                  /\ \A r \in healed' : cfg'.tier[r[1]] = r[2]
                  /\ \A f \in TierField :
                       cfg'.tier[f] # cfg.tier[f] => \E r \in healed' : r[1] = f
<1>1. Established /\ [Next]_vars => [W]_cvars
  <2> SUFFICES ASSUME Established, Next, phase = "checked" PROVE W \/ UNCHANGED cvars
    BY DEF vars
  <2>1. Heal
    BY DEF Established, Next, New, Run, Poll, SetDefaults, CheckTimes, RegisterCounter,
           CheckPcts, CheckAgain, StartRun
  <2> DEFINE u == HealUpper(cfg.tier)
             t == HealLower(u)
  <2>2. cfg \in Config /\ cfg.tier \in [TierField -> Int]
    BY DEF Established, Config
  <2>3. cfg'.tier = t /\ healed' = UpperResets(cfg.tier) \cup LowerResets(u)
    BY <2>1, <2>2 DEF Heal, Config
  <2>4. u \in [TierField -> Int]
    BY <2>2, HealTyped
  <2>5. /\ u["tier1"] = cfg.tier["tier1"]
        /\ u["tier2"] = IF cfg.tier["tier2"] >= cfg.tier["tier3"] THEN 80 ELSE cfg.tier["tier2"]
        /\ u["tier3"] = IF cfg.tier["tier2"] >= cfg.tier["tier3"] THEN 90 ELSE cfg.tier["tier3"]
    BY <2>2, HealValues
  <2>6. /\ t["tier1"] = IF u["tier1"] >= u["tier2"] THEN 70 ELSE u["tier1"]
        /\ t["tier2"] = IF u["tier1"] >= u["tier2"] THEN 80 ELSE u["tier2"]
        /\ t["tier3"] = u["tier3"]
    BY <2>4, HealValues
  <2>7. healed' =
          (IF cfg.tier["tier2"] >= cfg.tier["tier3"]
             THEN {<<"tier2", 80>>, <<"tier3", 90>>} ELSE {}) \cup
          (IF u["tier1"] >= u["tier2"] THEN {<<"tier1", 70>>, <<"tier2", 80>>} ELSE {})
    BY <2>3 DEF UpperResets, LowerResets
  <2> HIDE DEF u, t
  <2>8. \A r \in healed' : t[r[1]] = r[2]
    BY <2>5, <2>6, <2>7
  <2>9. \A f \in TierField : t[f] # cfg.tier[f] => \E r \in healed' : r[1] = f
    <3>1. /\ t["tier1"] # cfg.tier["tier1"] => <<"tier1", 70>> \in healed'
          /\ t["tier2"] # cfg.tier["tier2"] => <<"tier2", 80>> \in healed'
          /\ t["tier3"] # cfg.tier["tier3"] => <<"tier3", 90>> \in healed'
      BY <2>5, <2>6, <2>7
    <3>2. <<"tier1", 70>>[1] = "tier1" /\ <<"tier2", 80>>[1] = "tier2" /\ <<"tier3", 90>>[1] = "tier3"
      OBVIOUS
    <3> QED
      BY <3>1, <3>2 DEF TierField
  <2> QED
    BY <2>3, <2>8, <2>9
<1>2. Spec => [][W]_cvars
  BY <1>1, EstablishedInit, EstablishedStep, PTL DEF Spec
<1> QED
  BY <1>2 DEF WarningIsTrue

(* New and Run use the HeapMonitor as its own specification allows: it is    *)
(* created only with percentages in order and below 100.                     *)
THEOREM SetupUsesMonitor == Spec => MonitorSpec
<1>1. Init => MonitorInit
  BY DEF Init
<1>2. Established /\ [Next]_vars => [MonitorNext]_hvars
  <2> SUFFICES ASSUME Established, [Next]_vars PROVE MonitorNext \/ UNCHANGED hvars
    OBVIOUS
  <2>1. CASE Run
    <3>1. PICK l \in Limit : NewHeapMonitor(l, TierPcts) /\ StartRun
      BY <2>1 DEF Run
    <3>2. cfg.tier \in [TierField -> Int] /\ Ordered /\ PctsOK
      BY <3>1 DEF StartRun, Established, Config
    <3>3. TierPcts \in Percentages
      BY <3>2 DEF TierPcts, Percentages, Ordered, PctsOK, TierField
    <3> QED
      BY <3>1, <3>3 DEF MonitorNext
  <2>2. CASE Poll
    BY <2>2 DEF Poll, MonitorNext
  <2>3. CASE (New /\ UNCHANGED hvars) \/ UNCHANGED vars
    BY <2>3 DEF vars
  <2> QED
    BY <2>1, <2>2, <2>3 DEF Next
<1> QED
  BY <1>1, <1>2, EstablishedInit, EstablishedStep, PTL DEF Spec, MonitorSpec

(* For a Watcher that New returned, the tiers are those of its percentages:  *)
(* none is missed and none comes early.                                      *)
THEOREM TiersAreExact ==
  ASSUME NoOverflow
  PROVE  Spec => [](NeverLate /\ NeverEarly)
BY SetupUsesMonitor, TiersNeverLate, TiersNeverEarly, PTL

-----------------------------------------------------------------------------
LEMMA ThresholdInWord ==
  ASSUME NEW l \in Nat, NEW p \in Int
  PROVE  Threshold(l, p) \in 0..(Word - 1)
<1> DEFINE product == l * p
<1>1. product \in Int /\ Word \in Nat \ {0}
  BY WordAssumption
<1> HIDE DEF product
<1>2. product % Word \in 0..(Word - 1)
  BY <1>1
<1>3. (product % Word) \div 100 \in 0..(Word - 1)
  BY <1>1, <1>2
<1> QED
  BY <1>3 DEF Threshold, product

LEMMA MonitorTyped == MonitorTypeOK /\ [Run \/ Read \/ ReadBad]_hvars /\ cfg \in Config => MonitorTypeOK'
<1> SUFFICES ASSUME MonitorTypeOK, [Run \/ Read \/ ReadBad]_hvars, cfg \in Config
             PROVE  MonitorTypeOK'
  OBVIOUS
<1> USE DEF MonitorTypeOK
<1>1. CASE Run
  <2>1. PICK l \in Limit : NewHeapMonitor(l, TierPcts)
    BY <1>1 DEF Run
  <2>2. l \in Nat /\ TierPcts \in [1..3 -> Int] /\ 0 \in 0..(Word - 1)
    BY WordAssumption DEF TierPcts, Config, TierField
  <2>3. thresholds' \in [1..3 -> 0..(Word - 1)]
    BY <2>1, <2>2, ThresholdInWord DEF NewHeapMonitor
  <2>4. known' \in BOOLEAN
    BY <2>1, Zenon DEF NewHeapMonitor
  <2>5. limit' \in Limit \cup {0} /\ pct' \in [1..3 -> Int]
    BY <2>1, <2>2, Zenon DEF NewHeapMonitor
  <2>6. inuse' \in 0..(Word - 1) /\ tier' \in 0..3
    BY <2>1, <2>2 DEF NewHeapMonitor
  <2> QED
    BY <2>3, <2>4, <2>5, <2>6
<1>2. CASE Read
  <2>1. PICK objects \in Bytes, unused \in Bytes :
          inuse' = (objects + unused) % Word /\ tier' = TierOf(inuse')
    BY <1>2 DEF Read
  <2>2. inuse' \in 0..(Word - 1)
    BY <2>1, WordAssumption
  <2>3. tier' \in 0..3
    BY <2>1 DEF TierOf
  <2>4. known' \in BOOLEAN /\ UNCHANGED <<limit, pct, thresholds>>
    BY <1>2, Zenon DEF Read
  <2> QED
    BY <2>2, <2>3, <2>4
<1>3. CASE ReadBad
  <2>1. known' \in BOOLEAN /\ UNCHANGED <<limit, pct, thresholds>>
    BY <1>3, Zenon DEF ReadBad
  <2>2. inuse' \in 0..(Word - 1) /\ tier' \in 0..3
    BY <1>3, WordAssumption DEF ReadBad
  <2> QED
    BY <2>1, <2>2
<1>4. CASE UNCHANGED hvars
  BY <1>4 DEF hvars
<1> QED
  BY <1>1, <1>2, <1>3, <1>4

LEMMA ConfigTyped == ConfigTypeOK /\ Established' /\ [New \/ StartRun]_cvars => ConfigTypeOK'
<1> SUFFICES ASSUME ConfigTypeOK, Established', [New \/ StartRun]_cvars
             PROVE  ConfigTypeOK'
  OBVIOUS
<1>0. cfg' \in Config /\ (running' => phase' = "ready")
  BY DEF Established
<1> USE <1>0 DEF ConfigTypeOK
<1>1. CASE SetDefaults
  BY <1>1 DEF SetDefaults
<1>2. CASE CheckTimes
  BY <1>2 DEF CheckTimes
<1>3. CASE RegisterCounter
  BY <1>3 DEF RegisterCounter
<1>4. CASE CheckPcts
  BY <1>4 DEF CheckPcts
<1>5. CASE Heal
  BY <1>5 DEF Heal, UpperResets, LowerResets, TierField
<1>6. CASE CheckAgain
  BY <1>6 DEF CheckAgain
<1>7. CASE StartRun
  <2>1. running' \in BOOLEAN
    BY <1>7 DEF StartRun
  <2> QED
    BY <1>7, <2>1 DEF StartRun
<1>8. CASE UNCHANGED cvars
  BY <1>8 DEF cvars
<1> QED
  BY <1>1, <1>2, <1>3, <1>4, <1>5, <1>6, <1>7, <1>8 DEF New

(* Every variable of WatcherSetup keeps its type: no threshold leaves the    *)
(* unsigned word whatever percentage New lets through, and Run is under way  *)
(* only with a configuration that is ready (watcher.go 115-227, 349-387).    *)
THEOREM TypeCorrect == Spec => []TypeOK
<1>1. Init => TypeOK
  <2> SUFFICES ASSUME Init PROVE TypeOK
    OBVIOUS
  <2>1. cfg \in Config
    BY EstablishedInit DEF Established
  <2>2. 0 \in 0..(Word - 1)
    BY WordAssumption
  <2>3. ConfigTypeOK
    BY <2>1, Zenon DEF Init, ConfigInit, ConfigTypeOK
  <2>4. known \in BOOLEAN
    BY Zenon DEF Init, MonitorInit
  <2>5. MonitorTypeOK
    BY <2>2, <2>4 DEF Init, MonitorInit, MonitorTypeOK
  <2> QED
    BY <2>3, <2>5 DEF TypeOK
<1>2. TypeOK /\ Established /\ Established' /\ [Next]_vars => TypeOK'
  <2> SUFFICES ASSUME TypeOK, Established, Established', [Next]_vars PROVE TypeOK'
    OBVIOUS
  <2>1. [New \/ StartRun]_cvars /\ [Run \/ Read \/ ReadBad]_hvars
    BY DEF Next, Run, Poll, vars
  <2>2. cfg \in Config
    BY DEF Established
  <2> QED
    BY <2>1, <2>2, ConfigTyped, MonitorTyped DEF TypeOK
<1> QED
  BY <1>1, <1>2, EstablishedInit, EstablishedStep, PTL DEF Spec
=============================================================================
