\* Durations that are not given, or negative.
SPECIFICATION ConfigSpec
CONSTANTS
  Pct = {0}
  Duration <- MCDuration
  HasUploader = TRUE
CHECK_DEADLOCK FALSE
INVARIANTS
  NewPreventsPanic
