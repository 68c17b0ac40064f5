\* Two requests for a profile that is written, written again and removed, or
\* one request for a page while two dumps come and go.
SPECIFICATION FairSpec
CONSTANTS
  r1 = r1
  r2 = r2
  Request <- MCRequest
  MaxVersion = 4
  Dump = {1, 2}
  None = None
INVARIANTS
  TypeOK
  NeverOlder
  PageIsExact
PROPERTIES
  CacheSettles
