\* Stop(), then the cancellation.
SPECIFICATION SSpec
CONSTANTS
  PollInterval = 3
  FastPoll = 2
  CooldownTier2 = 3
  CooldownTier3 = 2
  MaxTime = 4
  HasLimit = TRUE
  HasUploader = FALSE
  Disturbed = FALSE
INVARIANTS
  StopFirstDumps
