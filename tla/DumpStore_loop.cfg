\* The loop of Run alone, killed and refused by the file system.
SPECIFICATION Spec
CONSTANTS
  run = run
  force = force
  None = None
  Writer <- MCLoop
  Service <- MCLoopService
  MaxDumps = 2
  DumpTTL = 2
  FileCount = 2
  Start = 2
  MaxTime = 5
  MaxFaults = 2
  MaxFoiled = 1
  MaxCrashes = 1
INVARIANTS
  TypeOK
  DirsBounded
  EachErrorCostsOneFile
  ExpiredGone
