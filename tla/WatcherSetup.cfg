\* Every combination of percentages and durations, and every heap size around
\* the thresholds that come of them.
SPECIFICATION Spec
CONSTANTS
  Pct <- MCPct
  Duration <- MCDuration
  HasUploader = TRUE
  Word = 16384
  Limit <- MCLimit
  NoLimit = 8191
  Bytes <- MCBytes
CHECK_DEADLOCK FALSE
INVARIANTS
  TypeOK
  OnlyScanPanics
  NeverLate
  NeverEarly
PROPERTIES
  WarningIsTrue
