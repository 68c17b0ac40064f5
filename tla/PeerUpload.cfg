\* Two services; the storage refuses the dump that each scan meets first.
SPECIFICATION FairSpec
CONSTANTS
  Dump = {1, 2}
  g1 = g1
  g2 = g2
  Scan <- MCScan
  None = None
  Broken = {1}
  Crowded = {1}
  FileCount = 1
  UploadTimeout = 1
  DumpTTL = 4
  ScanGap = 1
  MaxNew = 1
  MaxLost = 1
INVARIANTS
  TypeOK
  ScansBounded
  MarkedIsStored
  NotByAge
PROPERTIES
  NoneStarves
  MarkedAges
