--------------------------- MODULE WatcherConfig ---------------------------
(***************************************************************************)
(* What New and validateAndHeal (watcher.go) and setDefaults (config.go)   *)
(* make of a configuration, and what Run then relies on.  Only the fields  *)
(* that a check or a panic depends on are kept; 0 stands for "not given".  *)
(***************************************************************************)
EXTENDS Integers

CONSTANTS
  Pct,        \* percentages a client may configure
  Duration,   \* durations a client may configure
  HasUploader \* cfg.Uploader is given

ASSUME ConfigAssumption ==
  /\ Pct \subseteq Int
  /\ Duration \subseteq Int
  /\ HasUploader \in BOOLEAN

TierField == {"tier1", "tier2", "tier3"}
TimeField == {"poll", "cooldown2", "cooldown3", "scan"}

Config == [tier : [TierField -> Int], time : [TimeField -> Int]]

DefaultTier == [tier1 |-> 70, tier2 |-> 80, tier3 |-> 90]

\* In seconds.
DefaultTime == [poll |-> 5, cooldown2 |-> 300, cooldown3 |-> 60, scan |-> 300]

VARIABLES
  cfg,      \* the configuration as it stands
  phase,    \* how far New and Run are
  healed,   \* the ResetValues of the config_warning, a tier for each entry
  registry, \* what the metric's name stands for in cfg.Registerer
  running   \* Run has passed the creation of its tickers

cvars == <<cfg, phase, healed, registry, running>>

ConfigTypeOK ==
  /\ cfg \in Config
  /\ phase \in {"given", "filled", "timed", "registered", "checked", "healed",
               "ready", "refused", "panicked"}
  /\ healed \in SUBSET (TierField \X Int)
  /\ registry \in {"nothing", "counter", "other"}
  /\ running \in BOOLEAN
  /\ running => phase = "ready"

ConfigInit ==
  /\ cfg \in [tier : [TierField -> Pct], time : [TimeField -> Duration]]
  /\ phase = "given"
  /\ healed = {}
  /\ registry \in {"nothing", "counter", "other"}
  /\ running = FALSE

-----------------------------------------------------------------------------
OrDefault(given, default) ==
  [f \in DOMAIN given |-> IF given[f] = 0 THEN default[f] ELSE given[f]]

SetDefaults ==
  /\ phase = "given"
  /\ cfg' = [tier |-> OrDefault(cfg.tier, DefaultTier),
             time |-> OrDefault(cfg.time, DefaultTime)]
  /\ phase' = "filled"
  /\ UNCHANGED <<healed, registry, running>>

\* Mutant: only zero is refused, which the defaults have replaced already.
TimesNonZero == \A f \in {"poll", "cooldown2", "cooldown3"} : cfg.time[f] # 0

\* time.NewTicker panics unless its interval is positive.
TimesOK == \A f \in {"poll", "cooldown2", "cooldown3"} : cfg.time[f] > 0

PctsOK == \A f \in TierField : cfg.tier[f] < 100

CheckTimes ==
  /\ phase = "filled"
  /\ phase' = IF TimesOK THEN "timed" ELSE "refused"
  /\ UNCHANGED <<cfg, healed, registry, running>>

\* registerCounter: a counter of an earlier Watcher is used again, and stays
\* registered when New refuses the configuration after all.
RegisterCounter ==
  /\ phase = "timed"
  /\ phase' = IF registry = "other" THEN "refused" ELSE "registered"
  /\ registry' = IF registry = "nothing" THEN "counter" ELSE registry
  /\ UNCHANGED <<cfg, healed, running>>

CheckPcts ==
  /\ phase = "registered"
  /\ phase' = IF PctsOK THEN "checked" ELSE "refused"
  /\ UNCHANGED <<cfg, healed, registry, running>>

\* Mutant: one of the two tiers is not reset.
HealUpperHalf(t) == IF t.tier2 >= t.tier3 THEN [t EXCEPT !.tier3 = 90] ELSE t

\* Tier 2 and 3 first, then tier 1 and what has become of tier 2.
HealUpper(t) ==
  IF t.tier2 >= t.tier3 THEN [t EXCEPT !.tier2 = 80, !.tier3 = 90] ELSE t

HealLower(t) ==
  IF t.tier1 >= t.tier2 THEN [t EXCEPT !.tier1 = 70, !.tier2 = 80] ELSE t

\* What validateAndHeal collects in resetValues along the way.
UpperResets(t) ==
  IF t.tier2 >= t.tier3 THEN {<<"tier2", 80>>, <<"tier3", 90>>} ELSE {}

LowerResets(t) ==
  IF t.tier1 >= t.tier2 THEN {<<"tier1", 70>>, <<"tier2", 80>>} ELSE {}

Heal ==
  /\ phase = "checked"
  /\ LET upper == HealUpper(cfg.tier) IN
       /\ cfg' = [cfg EXCEPT !.tier = HealLower(upper)]
       /\ healed' = UpperResets(cfg.tier) \cup LowerResets(upper)
  /\ phase' = "healed"
  /\ UNCHANGED <<registry, running>>

Ordered == cfg.tier.tier1 < cfg.tier.tier2 /\ cfg.tier.tier2 < cfg.tier.tier3

CheckAgain ==
  /\ phase = "healed"
  /\ phase' = IF Ordered THEN "ready" ELSE "refused"
  /\ UNCHANGED <<cfg, healed, registry, running>>

\* Mutant: Run does not wait for New to succeed.
StartRunUnchecked ==
  /\ ~running
  /\ running' = TRUE
  /\ UNCHANGED <<cfg, phase, healed, registry>>

\* Run creates the ticker of the poll and, with an uploader, that of the scan.
StartRun ==
  /\ phase = "ready"
  /\ ~running
  /\ LET starts == cfg.time.poll > 0 /\ (HasUploader => cfg.time.scan > 0) IN
       /\ running' = starts
       /\ phase' = IF starts THEN "ready" ELSE "panicked"
  /\ UNCHANGED <<cfg, healed, registry>>

New == SetDefaults \/ CheckTimes \/ RegisterCounter \/ CheckPcts \/ Heal \/ CheckAgain

ConfigSpec == ConfigInit /\ [][New \/ StartRun]_cvars

-----------------------------------------------------------------------------
\* The config_warning tells the truth: every value it reports as reset is the
\* one in force, once both heals are done, and an order that was right is
\* left alone.
WarningIsTrue ==
  [][phase = "checked" =>
       /\ \A r \in healed' : cfg'.tier[r[1]] = r[2]
       /\ \A f \in TierField :
            cfg'.tier[f] # cfg.tier[f] => \E r \in healed' : r[1] = f]_cvars

\* watcher.go says of New, and again of Run: after a successful New no
\* configuration makes Run panic.  time.NewTicker panics when its interval is
\* not positive.
NewPreventsPanic == phase # "panicked"

\* What New's checks do achieve: the poll ticker is always created, and only a
\* negative ScanInterval, which New does not look at, breaks the promise.
OnlyScanPanics == phase = "panicked" => HasUploader /\ cfg.time.scan < 0

\* watcher.go: validateAndHeal corrects a wrong order of the tiers; percentages
\* below 100 are not refused.
HealSucceeds == [][phase = "healed" => phase' = "ready"]_cvars
=============================================================================
