\* The loop and a forced dump.
SPECIFICATION Spec
CONSTANTS
  run = run
  force = force
  None = None
  Writer <- MCPair
  Service <- MCOneService
  MaxDumps = 2
  DumpTTL = 0
  FileCount = 2
  Start = 1
  MaxTime = 4
  MaxFaults = 0
  MaxFoiled = 3
  MaxCrashes = 0
INVARIANTS
  DirsBounded
PROPERTIES
  NewestKept
