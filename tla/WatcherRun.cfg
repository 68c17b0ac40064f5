\* Everything that can disturb the loop does.
SPECIFICATION FairSpec
CONSTANTS
  PollInterval = 3
  FastPoll = 2
  CooldownTier2 = 3
  CooldownTier3 = 2
  HasLimit = TRUE
  HasUploader = TRUE
  Disturbed = TRUE
INVARIANTS
  TypeOK
  ProfileOwned
  ReleasedAtExit
PROPERTIES
  Terminates
  KeepsDumping
  ProfileEnds
