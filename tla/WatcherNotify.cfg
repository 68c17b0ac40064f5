\* How often and how late Run dumps, what its notifications keep going and
\* what Stop() gets, within MaxTime ticks.
SPECIFICATION NSpec
CONSTANTS
  PollInterval = 3
  FastPoll = 2
  CooldownTier2 = 4
  CooldownTier3 = 2
  MaxTime = 9
  NotifyTimeout = 3
  HasLimit = TRUE
  HasUploader = FALSE
  Disturbed = FALSE
INVARIANTS
  RateBounded
  DumpIsPrompt
  TickDumpsCarryProfile
  StopAloneDumps
  NotifiersBounded
