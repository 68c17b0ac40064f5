\* The lock until somebody is killed, and what survives of it then.
SPECIFICATION FairSpec
CONSTANTS
  Uploader <- MCUploader
  MaxCrashes = 2
  MaxFaults = 1
  u1 = u1
  u2 = u2
  u3 = u3
  None = None
  UploadTimeout <- MCClose
  Grace = 3
  Slack = 1
  AgeCap = 5
INVARIANTS
  TypeOK
  HolderOwnsLock
  StaleMeansDead
  BoundedRework
PROPERTIES
  OneAtATime
  UploadedForGood
  EventuallyStored
  EventuallyUploaded
