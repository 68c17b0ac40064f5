\* Two uploaders that both saw the lock of a killed one.
SPECIFICATION Spec
CONSTANTS
  Uploader <- MCUploader
  MaxCrashes = 1
  MaxFaults = 0
  u1 = u1
  u2 = u2
  u3 = u3
  None = None
  UploadTimeout <- MCSame
  Grace = 2
  Slack = 1
  AgeCap = 4
SYMMETRY MCSymmetry
INVARIANTS
  MutualExclusion
