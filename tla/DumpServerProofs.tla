-------------------------- MODULE DumpServerProofs --------------------------
(* Proofs about DumpServer, for any number of requests and dumps.            *)
EXTENDS DumpServer, FiniteSetTheorems, TLAPS

(* What is cached under a ModTime is at least as new as the ModTime, and so  *)
(* is what a request has built or found for the one it saw.                  *)
CacheInv ==
  /\ version \in Nat
  /\ cached \in [mtime : Nat, content : Nat]
  /\ pc \in [Request -> {"idle", "lookup", "build", "store", "serve"}]
  /\ seen \in [Request -> Nat] /\ got \in [Request -> Nat]
  /\ cached.mtime <= cached.content
  /\ \A r \in Request : seen[r] <= version
  /\ \A r \in Request : pc[r] \in {"store", "serve"} => seen[r] <= got[r]

LEMMA CacheInvInit == CacheInit => CacheInv
BY DEF CacheInit, CacheInv

LEMMA HandleKeepsInv ==
  ASSUME CacheInv, NEW r \in Request, Handle(r)
  PROVE  CacheInv'
<1> USE DEF CacheInv, Goto, cacheVars
<1>1. CASE NotFound(r)
  BY <1>1 DEF NotFound
<1>2. CASE Stat(r)
  BY <1>2 DEF Stat
<1>3. CASE Lookup(r)
  BY <1>3 DEF Lookup
<1>4. CASE Build(r)
  BY <1>4 DEF Build
<1>5. CASE BuildFails(r)
  BY <1>5 DEF BuildFails
<1>6. CASE Store(r)
  BY <1>6 DEF Store
<1>7. CASE Serve(r)
  BY <1>7 DEF Serve
<1> QED
  BY <1>1, <1>2, <1>3, <1>4, <1>5, <1>6, <1>7 DEF Handle

LEMMA CacheNextKeepsInv == CacheInv /\ CacheNext => CacheInv'
<1> SUFFICES ASSUME CacheInv, CacheNext PROVE CacheInv'
  OBVIOUS
<1>1. CASE \E r \in Request : Handle(r)
  BY <1>1, HandleKeepsInv
<1>2. CASE CreateFile \/ FinishFile \/ RemoveFile
  BY <1>2 DEF CreateFile, FinishFile, RemoveFile, CacheInv
<1> QED
  BY <1>1, <1>2 DEF CacheNext

LEMMA PageKeepsCache == Page \/ (\E d \in Dump : Write(d) \/ Remove(d)) => UNCHANGED cacheVars
BY DEF Page, Route, List, Card, StatsView, Download, Ask, Begin, EntryInfo, ListDirFiles,
       WriteJSON, RenderDumpList, ReadRuntimeStats, Rendered, ReadStats, ServeFile,
       Answered, Stay, Write, Remove, Changes

LEMMA CacheInvStep == CacheInv /\ [Next]_vars => CacheInv'
<1>1. CacheInv /\ UNCHANGED cacheVars => CacheInv'
  BY DEF CacheInv, cacheVars
<1> QED
  BY <1>1, CacheNextKeepsInv, PageKeepsCache DEF Next, vars

(* server_pprof.go 49-147: nobody is answered with a profile older than the  *)
(* file it saw, for any number of requests and rewrites.                     *)
THEOREM NobodyGetsOlder == Spec => []NeverOlder
<1>1. CacheInv => NeverOlder
  BY DEF CacheInv, NeverOlder
<1>2. Init => CacheInv
  BY CacheInvInit DEF Init
<1> QED
  BY <1>1, <1>2, CacheInvStep, PTL DEF Spec

-----------------------------------------------------------------------------
Exact(d) == listed[d] = IF content[d] = Absent THEN None ELSE content[d]

(* What is known of a dump that has not changed since the request began,     *)
(* wherever the request is.                                                  *)
ExactSoFar(d) ==
  /\ pc2 = "walk" =>
       /\ d \in todo => content[d] # Absent
       /\ at = d => content[d] # Absent
       /\ d \notin todo /\ at # d => Exact(d)
  /\ pc2 = "card" => at = d /\ content[d] # Absent
  /\ pc2 = "render" =>
       /\ Exact(d)
       /\ d \in shown => Readable(d)
       /\ d \notin todo /\ Readable(d) => d \in shown
  /\ pc2 = "read" => at = d
  /\ pc2 = "send" => at = d /\ content[d] >= HalfStats

PageInv ==
  /\ content \in [Dump -> Absent..Profile]
  /\ listed = [d \in Dump |-> listed[d]]
  /\ pc2 = "idle" => listed = Blank /\ at = None
  /\ pc2 \in {"idle", "walk", "card"} => shown = {}
  /\ \A d \in Dump \ changed : ExactSoFar(d)
  /\ PageIsExact

LEMMA PageInvInit == Init => PageInv
BY DEF Init, PageInv, ExactSoFar, PageIsExact, Blank, Answers, Absent, Profile

(* The handlers and what they leave alone.                                   *)
LEMMA PageInvStep == PageInv /\ [Next]_vars => PageInv'
<1> SUFFICES ASSUME PageInv, [Next]_vars PROVE PageInv'
  OBVIOUS
<1> USE DumpAssumption
    DEF PageInv, PageIsExact, ExactSoFar, Exact, Answers, Readable, Stay,
        Absent, Empty, HalfStats, Stats, Profile
<1>1. CASE \E d \in Dump : Write(d) \/ Remove(d)
  <2>1. PICK d \in Dump, c \in Absent..Profile : Changes(d, c)
    BY <1>1 DEF Write, Remove
  <2> QED
    BY <2>1 DEF Changes, pageVars
<1>2. CASE Route
  <2>1. CASE List
    BY <2>1 DEF List, Begin, Blank
  <2>2. ASSUME NEW d \in Dump, Card(d)
        PROVE  PageInv'
    BY <2>2 DEF Card, Ask, Begin, Blank
  <2>3. ASSUME NEW d \in Dump, StatsView(d)
        PROVE  PageInv'
    BY <2>3 DEF StatsView, Ask, Begin, Blank
  <2>4. ASSUME NEW d \in Dump, Download(d)
        PROVE  PageInv'
    BY <2>4 DEF Download, Ask, Begin, Blank
  <2> QED
    BY <1>2, <2>1, <2>2, <2>3, <2>4 DEF Route
<1>3. CASE EntryInfo
  <2> DEFINE first == First(todo)
  <2>1. /\ pc2 = "walk" /\ at = None
        /\ todo' = todo \ {first}
        /\ at' = IF content[first] = Absent THEN None ELSE first
        /\ UNCHANGED <<pc2, listed, shown, changed, content>>
    BY <1>3 DEF EntryInfo
  <2> HIDE DEF first
  <2> QED
    BY <2>1
<1>4. CASE ListDirFiles
  BY <1>4 DEF ListDirFiles
<1>5. CASE WriteJSON
  BY <1>5 DEF WriteJSON
<1>6. CASE RenderDumpList
  BY <1>6 DEF RenderDumpList
<1>7. CASE ReadRuntimeStats
  <2> DEFINE last == Last(todo)
  <2>1. /\ pc2 = "render"
        /\ todo' = todo \ {last}
        /\ shown' = IF Readable(last) THEN shown \cup {last} ELSE shown
        /\ UNCHANGED <<pc2, at, listed, changed, content>>
    BY <1>7 DEF ReadRuntimeStats
  <2> HIDE DEF last
  <2> QED
    BY <2>1
<1>8. CASE Rendered
  BY <1>8 DEF Rendered
<1>9. CASE ReadStats
  BY <1>9 DEF ReadStats
<1>10. CASE ServeFile
  BY <1>10 DEF ServeFile
<1>11. CASE Answered
  BY <1>11 DEF Answered, Blank
<1>12. CASE UNCHANGED <<content, pageVars, changed>>
  BY <1>12 DEF pageVars
<1> QED
  BY <1>1, <1>2, <1>3, <1>4, <1>5, <1>6, <1>7, <1>8, <1>9, <1>10, <1>11, <1>12
  DEF Next, Page, vars, Idle

(* server.go 114-282, server_html.go 359-472: a page is exact about every    *)
(* dump that stays as it is while the page is put together, for any number   *)
(* of dumps.                                                                 *)
THEOREM PagesAreExact == Spec => []PageIsExact
<1>1. PageInv => PageIsExact
  BY DEF PageInv
<1> QED
  BY <1>1, PageInvInit, PageInvStep, PTL DEF Spec

-----------------------------------------------------------------------------
LEMMA CacheTyped == CacheTypeOK /\ CacheInv /\ CacheInv' /\ [CacheNext]_cacheVars => CacheTypeOK'
<1> SUFFICES ASSUME CacheTypeOK, CacheInv, CacheInv', [CacheNext]_cacheVars
             PROVE  CacheTypeOK'
  OBVIOUS
<1>0. /\ MaxVersion \in Nat /\ version \in 0..MaxVersion
      /\ \A r \in Request : seen[r] \in 0..MaxVersion /\ got[r] \in 0..MaxVersion
  BY VersionAssumption DEF CacheTypeOK
<1>1. cached'.mtime > 0 => cached'.content > 0
  BY DEF CacheInv
<1>2. pc' \in [Request -> {"idle", "lookup", "build", "store", "serve"}]
  BY DEF CacheInv
<1>3. ASSUME NEW r \in Request, Handle(r)
      PROVE  CacheTypeOK'
  <2> USE <1>0 DEF CacheTypeOK
  <2>1. UNCHANGED <<exists, complete, version>>
    BY <1>3, Zenon DEF Handle, NotFound, Stat, Lookup, Build, BuildFails, Store, Serve, cacheVars
  <2>2. cached' \in [mtime : 0..MaxVersion, content : 0..MaxVersion]
    BY <1>3 DEF Handle, NotFound, Stat, Lookup, Build, BuildFails, Store, Serve, cacheVars
  <2>3. seen' \in [Request -> 0..MaxVersion]
    BY <1>3 DEF Handle, NotFound, Stat, Lookup, Build, BuildFails, Store, Serve, cacheVars
  <2>4. got' \in [Request -> 0..MaxVersion]
    <3>1. cached.content \in 0..MaxVersion
      OBVIOUS
    <3> QED
      BY <1>3, <3>1 DEF Handle, NotFound, Stat, Lookup, Build, BuildFails, Store, Serve, cacheVars
  <2> QED
    BY <1>1, <1>2, <2>1, <2>2, <2>3, <2>4
<1>4. ASSUME CreateFile \/ FinishFile \/ RemoveFile
      PROVE  CacheTypeOK'
  <2>1. exists' \in BOOLEAN /\ complete' \in BOOLEAN
    BY <1>4, Zenon DEF CreateFile, FinishFile, RemoveFile, CacheTypeOK
  <2>2. version' \in 0..MaxVersion
    BY <1>0, <1>4 DEF CreateFile, FinishFile, RemoveFile
  <2>3. UNCHANGED <<cached, pc, seen, got>>
    BY <1>4 DEF CreateFile, FinishFile, RemoveFile
  <2> QED
    BY <2>1, <2>2, <2>3 DEF CacheTypeOK
<1>5. CASE UNCHANGED cacheVars
  BY <1>5 DEF cacheVars, CacheTypeOK
<1> QED
  BY <1>3, <1>4, <1>5 DEF CacheNext

LEMMA FirstOfTodo ==
  ASSUME NEW S \in SUBSET Dump, S # {}
  PROVE  First(S) \in S
<1>1. S \subseteq Nat
  BY DumpAssumption
<1>2. PICK d \in S : \A e \in S : ~ (<<e, d>> \in OpToRel(<, Nat))
  BY <1>1, NatLessThanWellFounded, WFMin
<1>3. ASSUME NEW e \in S PROVE d <= e
  <2>1. SUFFICES ASSUME e < d PROVE FALSE
    BY <1>1
  <2>2. <<e, d>> \in Nat \X Nat /\ <<e, d>>[1] < <<e, d>>[2]
    BY <1>1, <2>1
  <2>3. <<e, d>> \in OpToRel(<, Nat)
    BY <2>2, Zenon DEF OpToRel
  <2> QED
    BY <1>2, <2>3
<1> QED
  BY <1>3 DEF First

(* There are finitely many directories, so that one comes last.              *)
LEMMA LastOfTodo ==
  ASSUME NEW S \in SUBSET Dump, S # {}
  PROVE  Last(S) \in S
<1> DEFINE Later(d) == {e \in S : e > d}
           T == {Later(d) : d \in S}
           R == StrictSubsetOrdering(S)
<1>1. S \subseteq Nat /\ IsFiniteSet(S)
  BY DumpAssumption, FS_Subset
<1>2. T \subseteq FiniteSubsetsOf(S) /\ T # {}
  <2>1. \A d \in S : Later(d) \in SUBSET S /\ IsFiniteSet(Later(d))
    BY <1>1, FS_Subset
  <2> HIDE DEF Later
  <2> QED
    BY <2>1 DEF FiniteSubsetsOf
<1>3. IsWellFoundedOn(R, FiniteSubsetsOf(S))
  BY <1>1, FS_StrictSubsetOrderingWellFounded
<1> HIDE DEF T, R
<1>4. \E x \in T : \A y \in T : ~ (<<y, x>> \in R)
  BY <1>2, <1>3, WFMin
<1>5. PICK d \in S : \A y \in T : ~ (<<y, Later(d)>> \in R)
  BY <1>4 DEF T
<1>6. Later(d) = {}
  <2> SUFFICES ASSUME NEW e \in Later(d) PROVE FALSE
    OBVIOUS
  <2>1. e \in S /\ e > d
    OBVIOUS
  <2>2. Later(e) \subseteq Later(d) /\ e \notin Later(e)
    <3>1. ~ (e > e) /\ \A f \in S : f > e => f > d
      BY <1>1, <2>1
    <3> QED
      BY <3>1
  <2>3. Later(e) \in SUBSET S /\ Later(d) \in SUBSET S /\ Later(e) # Later(d)
    BY <2>2
  <2>4. Later(e) \in T
    BY <2>1 DEF T
  <2> HIDE DEF Later
  <2>5. <<Later(e), Later(d)>> \in R
    BY <2>2, <2>3 DEF R, StrictSubsetOrdering
  <2> QED
    BY <1>5, <2>4, <2>5
<1>7. \A e \in S : d >= e
  <2>1. \A e \in S : ~ (e > d)
    BY <1>6
  <2> QED
    BY <1>1, <2>1
<1> QED
  BY <1>7 DEF Last

LEMMA PageTyped == PageTypeOK /\ [Next]_vars => PageTypeOK'
<1> SUFFICES ASSUME PageTypeOK, [Next]_vars PROVE PageTypeOK'
  OBVIOUS
<1> USE DEF PageTypeOK, Stay, Answers, Absent, Empty, HalfStats, Stats, Profile
<1>0. todo \in SUBSET Dump /\ None \notin Nat
  BY DumpAssumption
<1>1. CASE \E d \in Dump : Write(d) \/ Remove(d)
  <2>1. PICK d \in Dump, c \in Absent..Profile : Changes(d, c)
    BY <1>1 DEF Write, Remove
  <2> QED
    BY <2>1 DEF Changes, pageVars
<1>2. CASE List
  BY <1>2 DEF List, Begin
<1>3. ASSUME NEW d \in Dump, Card(d) \/ StatsView(d) \/ Download(d)
      PROVE  PageTypeOK'
  <2>1. PICK label \in {"card", "read", "send"}, found \in 0..4 : Ask(label, d, found)
    BY <1>3 DEF Card, StatsView, Download
  <2> QED
    BY <2>1 DEF Ask, Begin
<1>4. CASE EntryInfo
  <2> DEFINE first == First(todo)
  <2>1. first \in Dump
    BY <1>0, <1>4, FirstOfTodo DEF EntryInfo
  <2>2. /\ todo' = todo \ {first}
        /\ at' = IF content[first] = Absent THEN None ELSE first
        /\ UNCHANGED <<pc2, listed, shown, changed, asks, content>>
    BY <1>4 DEF EntryInfo
  <2> HIDE DEF first
  <2> QED
    BY <2>1, <2>2
<1>5. CASE ListDirFiles
  <2>1. at \in Dump
    BY <1>5 DEF ListDirFiles
  <2> QED
    BY <1>5, <2>1 DEF ListDirFiles
<1>6. CASE WriteJSON \/ RenderDumpList
  BY <1>6 DEF WriteJSON, RenderDumpList
<1>7. CASE ReadRuntimeStats
  <2> DEFINE last == Last(todo)
  <2>1. last \in Dump
    BY <1>0, <1>7, LastOfTodo DEF ReadRuntimeStats
  <2>2. /\ todo' = todo \ {last}
        /\ shown' \in {shown, shown \cup {last}}
        /\ UNCHANGED <<pc2, at, listed, changed, asks, content>>
    BY <1>7 DEF ReadRuntimeStats
  <2> HIDE DEF last
  <2> QED
    BY <2>1, <2>2
<1>8. CASE Rendered \/ ReadStats \/ ServeFile
  BY <1>8 DEF Rendered, ReadStats, ServeFile
<1>9. CASE Answered
  BY <1>9 DEF Answered, Blank
<1>10. CASE UNCHANGED <<asks, content, pageVars, changed>>
  BY <1>10 DEF pageVars
<1> QED
  BY <1>1, <1>2, <1>3, <1>4, <1>5, <1>6, <1>7, <1>8, <1>9, <1>10
  DEF Next, Page, Route, vars, Idle

(* Every variable of DumpServer keeps its type: above all, the directory     *)
(* that a handler goes on with is one that it has found.                     *)
THEOREM TypeCorrect == Spec => []TypeOK
<1>1. Init => TypeOK
  <2> SUFFICES ASSUME Init PROVE TypeOK
    OBVIOUS
  <2>1. CacheTypeOK
    <3>1. 0 \in 0..MaxVersion
      BY VersionAssumption
    <3>2. exists \in BOOLEAN /\ complete \in BOOLEAN
      BY Zenon DEF Init, CacheInit
    <3> QED
      BY <3>1, <3>2 DEF Init, CacheInit, CacheTypeOK
  <2>2. PageTypeOK
    BY DEF Init, PageTypeOK, Blank, Absent, Profile
  <2> QED
    BY <2>1, <2>2 DEF TypeOK
<1>2. Init => CacheInv
  BY CacheInvInit DEF Init
<1>3. [Next]_vars => [CacheNext]_cacheVars
  BY PageKeepsCache DEF Next, vars
<1> QED
  BY <1>1, <1>2, <1>3, CacheInvStep, CacheTyped, PageTyped, PTL DEF Spec, TypeOK
=============================================================================
