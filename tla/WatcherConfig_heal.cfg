\* Tiers that the heal itself puts out of order.
SPECIFICATION ConfigSpec
CONSTANTS
  Pct = {0, 60, 75}
  Duration = {0}
  HasUploader = FALSE
CHECK_DEADLOCK FALSE
PROPERTIES
  HealSucceeds
