-------------------------- MODULE DumpStoreProofs --------------------------
(* Proofs about DumpStore, for every number of writers, files and faults.   *)
EXTENDS DumpStore, FiniteSetTheorems, WellFoundedInduction, TLAPS

Cleaning(w) == pc[w] \in {"ttl", "max", "unlink", "rmdir"}
Writing(w) == pc[w] \in {"mkdir", "write", "sync", "done"}
Removing(w) == pc[w] \in {"unlink", "rmdir"}

(* What the locals of a writer are at each of its steps.  The entries still  *)
(* to be looked at and those that DumpTTL spared are different, which is why *)
(* a victim among the latter can only have been chosen by MaxDumps.          *)
Locals(w) ==
  /\ IF Removing(w) THEN victim[w] \in Names ELSE victim[w] = None
  /\ Writing(w) => name[w] \in Names
  /\ pc[w] \in {"write", "sync"} => next[w] \in Files
  /\ pc[w] \in {"idle", "max", "mkdir"} \/ victim[w] \in dumps[w] => todo[w] = {}
  /\ todo[w] \cap dumps[w] = {}

Typed == TypeOK /\ \A w \in Writer : Locals(w)

LEMMA NamesFinite == IsFiniteSet(Names)
<1> DEFINE Services == {Service[w] : w \in Writer}
<1>1. Service \in Surjection(Writer, Services)
  BY StoreAssumption DEF Surjection
<1>2. IsFiniteSet(Services)
  BY <1>1, StoreAssumption, FS_Surjection
<1>3. IsFiniteSet(0..MaxTime)
  BY StoreAssumption, FS_Interval
<1> QED
  BY <1>2, <1>3, FS_Product DEF Names

LEMMA NameIsPair ==
  ASSUME NEW n \in Names
  PROVE  n[1] \in Nat /\ n[2] \in 0..MaxTime /\ n = <<n[1], n[2]>>
BY StoreAssumption DEF Names

LEMMA BeforeIsOrder ==
  ASSUME NEW m \in Names, NEW n \in Names, NEW o \in Names
  PROVE  /\ ~ Before(m, m)
         /\ Before(m, n) /\ Before(n, o) => Before(m, o)
         /\ m = n \/ Before(m, n) \/ Before(n, m)
BY NameIsPair, StoreAssumption DEF Before

(* A finite set of names has a first one: the one with the fewest before it. *)
LEMMA FirstExists ==
  ASSUME NEW S \in SUBSET Names, S # {}
  PROVE  FirstOf(S) \in S /\ \A n \in S : n = FirstOf(S) \/ Before(FirstOf(S), n)
<1> DEFINE Earlier(n) == {m \in S : Before(m, n)}
           T == {Earlier(n) : n \in S}
           R == StrictSubsetOrdering(S)
<1>1. IsFiniteSet(S)
  BY NamesFinite, FS_Subset
<1>2. T \subseteq FiniteSubsetsOf(S) /\ T # {}
  <2>1. \A n \in S : Earlier(n) \in SUBSET S /\ IsFiniteSet(Earlier(n))
    BY <1>1, FS_Subset
  <2> HIDE DEF Earlier
  <2> QED
    BY <2>1 DEF FiniteSubsetsOf
<1>3. IsWellFoundedOn(R, FiniteSubsetsOf(S))
  BY FS_StrictSubsetOrderingWellFounded
<1> HIDE DEF T, R
<1>4. \E x \in T : \A y \in T : ~ (<<y, x>> \in R)
  BY <1>2, <1>3, WFMin
<1>5. PICK n \in S : \A y \in T : ~ (<<y, Earlier(n)>> \in R)
  BY <1>4 DEF T
<1>6. Earlier(n) = {}
  <2> SUFFICES ASSUME NEW m \in Earlier(n) PROVE FALSE
    OBVIOUS
  <2>1. m \in Names /\ n \in Names /\ m \in S
    OBVIOUS
  <2>2. Earlier(m) \subseteq Earlier(n) /\ m \notin Earlier(m)
    BY <2>1, BeforeIsOrder
  <2>3. Earlier(m) \in T /\ <<Earlier(m), Earlier(n)>> \in R
    BY <2>1, <2>2 DEF T, R, StrictSubsetOrdering
  <2> QED
    BY <1>5, <2>3
<1>7. \A m \in S : m = n \/ Before(n, m)
  BY <1>6, BeforeIsOrder
<1> QED
  BY <1>7 DEF FirstOf

-----------------------------------------------------------------------------
LEMMA TypedInit == Init => Typed
<1> SUFFICES ASSUME Init PROVE Typed
  OBVIOUS
<1>1. /\ Start \in Start..MaxTime /\ 1 \in 1..FileCount + 1 /\ 0 \in 0..2
      /\ 0 \in 0..MaxFaults /\ 0 \in 0..MaxFoiled /\ 0 \in 0..MaxCrashes
  BY StoreAssumption
<1>2. dirs \subseteq Names /\ doomed \subseteq Names
  BY DEF Init
<1>3. Empty \in [Files -> {"none", "ok", "mixed"} \cup Writer]
      /\ Complete \in [Files -> {"none", "ok", "mixed"} \cup Writer]
  BY DEF Empty, Complete
<1>4. file \in [Names -> [Files -> {"none", "ok", "mixed"} \cup Writer]]
      /\ \A n \in Names \ dirs : file[n] = Empty
  BY <1>3 DEF Init
<1>5. mtime \in [Names -> 0..MaxTime]
  BY NameIsPair DEF Init
<1>6. TypeOK
  BY <1>1, <1>2, <1>4, <1>5 DEF Init, TypeOK
<1> QED
  BY <1>6 DEF Init, Typed, Locals, Removing, Writing

LEMMA TouchTyped ==
  ASSUME Typed, NEW n \in Names, NEW changed, Touch(n, changed)
  PROVE  mtime' \in [Names -> 0..MaxTime]
BY StoreAssumption DEF Touch, Typed, TypeOK

(* Writers that leave writeDumpNamed have no locals left to be wrong.        *)
LEMMA ForgetTyped ==
  ASSUME Typed, NEW W \in SUBSET Writer, Forget(W),
         UNCHANGED <<now, disk, begun, doomed, foiled>>,
         faults' \in 0..MaxFaults, crashes' \in 0..MaxCrashes
  PROVE  Typed'
<1>1. 1 \in 1..FileCount + 1
  BY StoreAssumption
<1>2. TypeOK'
  BY <1>1 DEF Forget, Typed, TypeOK, disk
<1>3. ASSUME NEW w \in Writer PROVE Locals(w)'
  BY DEF Forget, Typed, Locals, Removing, Writing
<1> QED
  BY <1>2, <1>3 DEF Typed

LEMMA NewNameTyped ==
  ASSUME Typed, NEW w \in Writer
  PROVE  NewName(w) \in Names /\ NewName(w)[2] = now
BY StoreAssumption DEF NewName, Names, Typed, TypeOK

(* After the removal of its victim a writer goes on with its phase, or gives *)
(* up the second one.                                                        *)
LEMMA AfterRemovalTyped ==
  ASSUME Typed, NEW w \in Writer, NEW ok \in BOOLEAN, Removing(w),
         AfterRemoval(w, ok), UNCHANGED <<now, todo, next>>
  PROVE  /\ pc' \in [Writer -> {"idle", "ttl", "max", "unlink", "rmdir", "mkdir",
                                "write", "sync", "done"}]
         /\ dumps' \in [Writer -> SUBSET Names]
         /\ victim' \in [Writer -> Names \cup {None}]
         /\ name' \in [Writer -> Names \cup {None}]
         /\ \A v \in Writer : Locals(v)'
<1>1. victim' = [victim EXCEPT ![w] = None] /\ victim[w] \in Names
  BY DEF AfterRemoval, Typed, Locals, Removing
<1>2. CASE victim[w] \in dumps[w] /\ ~ok
  <2>1. /\ name' = [name EXCEPT ![w] = NewName(w)]
        /\ dumps' = [dumps EXCEPT ![w] = {}]
        /\ pc' = [pc EXCEPT ![w] = "mkdir"]
    BY <1>2 DEF AfterRemoval, TakeName, Goto
  <2> QED
    BY <1>1, <1>2, <2>1, NewNameTyped, NoneAssumption
    DEF Typed, TypeOK, Locals, Removing, Writing
<1>3. CASE ~(victim[w] \in dumps[w] /\ ~ok)
  <2>1. /\ dumps' = [dumps EXCEPT ![w] = @ \ {victim[w]}]
        /\ pc' = [pc EXCEPT ![w] = IF victim[w] \in dumps[w] THEN "max" ELSE "ttl"]
        /\ name' = name
    BY <1>3 DEF AfterRemoval, Goto
  <2> QED
    BY <1>1, <2>1, NoneAssumption DEF Typed, TypeOK, Locals, Removing, Writing
<1> QED
  BY <1>2, <1>3

LEMMA NextFileTyped ==
  ASSUME Typed, NEW w \in Writer, pc[w] \in {"write", "sync"}, NextFile(w),
         UNCHANGED <<todo, dumps, victim, name>>
  PROVE  /\ pc' \in [Writer -> {"idle", "ttl", "max", "unlink", "rmdir", "mkdir",
                                "write", "sync", "done"}]
         /\ next' \in [Writer -> 1..FileCount + 1]
         /\ \A v \in Writer : Locals(v)'
<1>1. next[w] \in 1..FileCount /\ FileCount \in Nat
  BY StoreAssumption DEF Typed, Locals, Files
<1>2. next' = [next EXCEPT ![w] = @ + 1]
      /\ pc' = [pc EXCEPT ![w] = IF next[w] = FileCount THEN "done" ELSE "write"]
  BY DEF NextFile, Goto
<1>3. next' \in [Writer -> 1..FileCount + 1]
  BY <1>1, <1>2 DEF Typed, TypeOK
<1>4. next[w] # FileCount => next[w] + 1 \in Files
  BY <1>1 DEF Files
<1> QED
  BY <1>1, <1>2, <1>3, <1>4 DEF Typed, TypeOK, Locals, Removing, Writing

(* One step of each action keeps the types and the locals.                   *)
LEMMA TypedStep == Typed /\ [Next]_vars => Typed'
<1> SUFFICES ASSUME Typed, [Next]_vars PROVE Typed'
  OBVIOUS
<1> USE StoreAssumption, NoneAssumption
<1>1. ASSUME NEW w \in Writer, ReadDir(w) PROVE Typed'
  BY <1>1 DEF ReadDir, Typed, TypeOK, Locals, Removing, Writing, Goto, disk, counters
<1>2. ASSUME NEW w \in Writer, TTLNext(w) PROVE Typed'
  <2> DEFINE n == FirstOf(todo[w])
  <2>1. n \in todo[w] /\ n \in Names
    BY <1>2, FirstExists DEF TTLNext, Typed, TypeOK
  <2> HIDE DEF n
  <2>2. /\ pc[w] = "ttl"
        /\ todo' = [todo EXCEPT ![w] = @ \ {n}]
        /\ UNCHANGED <<now, dirs, file, mtime, cutoff, name, next, begun, doomed,
                       foiled, faults, crashes>>
    BY <1>2 DEF TTLNext, n, disk, counters
  <2>3. \/ /\ victim' = [victim EXCEPT ![w] = n]
           /\ pc' = [pc EXCEPT ![w] = "unlink"]
           /\ UNCHANGED dumps
        \/ /\ dumps' = [dumps EXCEPT ![w] = @ \cup {n}]
           /\ UNCHANGED <<pc, victim>>
    BY <1>2 DEF TTLNext, n, StartRemoval, Goto
  <2>4. /\ todo' \in [Writer -> SUBSET Names] /\ dumps' \in [Writer -> SUBSET Names]
        /\ victim' \in [Writer -> Names \cup {None}]
    <3>1. /\ todo \in [Writer -> SUBSET Names] /\ dumps \in [Writer -> SUBSET Names]
          /\ victim \in [Writer -> Names \cup {None}]
      BY DEF Typed, TypeOK
    <3>2. todo' \in [Writer -> SUBSET Names]
      BY <2>2, <3>1
    <3>3. dumps' \in [Writer -> SUBSET Names]
      BY <2>1, <2>3, <3>1
    <3>4. victim' \in [Writer -> Names \cup {None}]
      BY <2>1, <2>3, <3>1
    <3> QED
      BY <3>2, <3>3, <3>4
  <2>5. TypeOK'
    BY <2>2, <2>3, <2>4 DEF Typed, TypeOK
  <2>6. ASSUME NEW v \in Writer, v # w PROVE Locals(v)'
    BY <2>2, <2>3, <2>6 DEF Typed, TypeOK, Locals, Removing, Writing
  <2>7. Locals(w)'
    BY <2>1, <2>2, <2>3 DEF Typed, TypeOK, Locals, Removing, Writing
  <2> QED
    BY <2>5, <2>6, <2>7 DEF Typed
<1>3. ASSUME NEW w \in Writer, TTLDone(w) PROVE Typed'
  BY <1>3 DEF TTLDone, Typed, TypeOK, Locals, Removing, Writing, Goto, disk, counters
<1>4. ASSUME NEW w \in Writer, MaxNext(w) PROVE Typed'
  <2> DEFINE n == FirstOf(dumps[w])
  <2>1. Cardinality(dumps[w]) # 0
    BY <1>4 DEF MaxNext, TooMany
  <2>2. n \in dumps[w] /\ n \in Names
    BY <2>1, FirstExists, FS_EmptySet DEF Typed, TypeOK
  <2> HIDE DEF n
  <2>3. /\ pc[w] = "max"
        /\ victim' = [victim EXCEPT ![w] = n]
        /\ pc' = [pc EXCEPT ![w] = "unlink"]
        /\ UNCHANGED <<now, dirs, file, mtime, todo, dumps, cutoff, name, next,
                       begun, doomed, foiled, faults, crashes>>
    BY <1>4 DEF MaxNext, StartRemoval, Goto, n, disk, counters
  <2> QED
    BY <2>2, <2>3 DEF Typed, TypeOK, Locals, Removing, Writing
<1>5. ASSUME NEW w \in Writer, MaxDone(w) PROVE Typed'
  <2>1. NewName(w) \in Names
    BY NewNameTyped
  <2> QED
    BY <1>5, <2>1
    DEF MaxDone, TakeName, Typed, TypeOK, Locals, Removing, Writing, Goto, disk, counters
<1>6. ASSUME NEW w \in Writer, Unlink(w) PROVE Typed'
  <2>1. victim[w] \in Names
    BY <1>6 DEF Unlink, Typed, Locals, Removing
  <2>2. mtime' \in [Names -> 0..MaxTime]
    BY <1>6, <2>1, TouchTyped DEF Unlink
  <2>3. PICK k \in Files : /\ file[victim[w]][k] # "none"
                          /\ file' = [file EXCEPT ![victim[w]][k] = "none"]
    BY <1>6 DEF Unlink
  <2>4. file' \in [Names -> [Files -> {"none", "ok", "mixed"} \cup Writer]]
    BY <2>1, <2>3 DEF Typed, TypeOK
  <2>5. victim[w] \in dirs
    BY <2>1, <2>3 DEF Typed, TypeOK, Empty
  <2> QED
    BY <1>6, <2>1, <2>2, <2>3, <2>4, <2>5
    DEF Unlink, Typed, TypeOK, Locals, Removing, Writing, local, counters
<1>7. ASSUME NEW w \in Writer, RmdirOk(w) PROVE Typed'
  <2>1. victim[w] \in Names
    BY <1>7 DEF RmdirOk, Typed, Locals, Removing
  <2> USE <1>7, AfterRemovalTyped DEF RmdirOk, Removing
  <2>2. /\ dirs' = dirs \ {victim[w]} /\ file' = file /\ file[victim[w]] = Empty
        /\ mtime' = [mtime EXCEPT ![victim[w]] = 0]
        /\ doomed' = doomed \ {victim[w]}
        /\ UNCHANGED <<now, todo, cutoff, next, begun, foiled, faults, crashes>>
    BY DEF counters
  <2>3. mtime' \in [Names -> 0..MaxTime]
    BY <2>1, <2>2 DEF Typed, TypeOK
  <2> QED
    BY <2>1, <2>2, <2>3 DEF Typed, TypeOK
<1>8. ASSUME NEW w \in Writer, RemoveAllFails(w) PROVE Typed'
  <2>1. faults' \in 0..MaxFaults /\ foiled' \in 0..MaxFoiled /\ Removing(w)
    BY <1>8 DEF RemoveAllFails, Fault, Foiled, Typed, TypeOK, Removing
  <2> QED
    BY <1>8, <2>1, AfterRemovalTyped DEF RemoveAllFails, disk, Typed, TypeOK
<1>9. ASSUME NEW w \in Writer, Mkdir(w) PROVE Typed'
  <2>1. name[w] \in Names
    BY <1>9 DEF Mkdir, Typed, Locals, Writing
  <2>2. mtime' \in [Names -> 0..MaxTime]
    BY <1>9, <2>1, TouchTyped DEF Mkdir
  <2>3. begun' \in [Names -> 0..2]
    BY <1>9, <2>1 DEF Mkdir, Typed, TypeOK
  <2>4. next' \in [Writer -> 1..FileCount + 1] /\ 1 \in Files
    BY <1>9 DEF Mkdir, Typed, TypeOK, Files
  <2> QED
    BY <1>9, <2>1, <2>2, <2>3, <2>4
    DEF Mkdir, Typed, TypeOK, Locals, Removing, Writing, Goto, counters
<1>10. ASSUME NEW w \in Writer, MkdirFails(w) PROVE Typed'
  BY <1>10, ForgetTyped DEF MkdirFails, LeaveDump, Fault, Typed, TypeOK
<1>11. ASSUME NEW w \in Writer, CreateFile(w) PROVE Typed'
  <2>1. name[w] \in dirs /\ name[w] \in Names /\ next[w] \in Files
    BY <1>11 DEF CreateFile, Typed, TypeOK, Locals
  <2>2. mtime' \in [Names -> 0..MaxTime]
    BY <1>11, <2>1, TouchTyped DEF CreateFile
  <2>3. file' \in [Names -> [Files -> {"none", "ok", "mixed"} \cup Writer]]
    BY <1>11, <2>1 DEF CreateFile, Typed, TypeOK
  <2> QED
    BY <1>11, <2>1, <2>2, <2>3
    DEF CreateFile, Typed, TypeOK, Locals, Removing, Writing, Goto, counters
<1>12. ASSUME NEW w \in Writer, CreateFails(w) PROVE Typed'
  <2>1. faults' \in 0..MaxFaults
    BY <1>12 DEF CreateFails, Fault, Typed, TypeOK
  <2> QED
    BY <1>12, <2>1, NextFileTyped DEF CreateFails, disk, Typed, TypeOK
<1>13. ASSUME NEW w \in Writer, SyncFile(w) PROVE Typed'
  <2>1. name[w] \in Names /\ next[w] \in Files
    BY <1>13 DEF SyncFile, Typed, Locals, Writing
  <2>2. PICK content \in {"none", "ok", "mixed"} \cup Writer :
          /\ file' = [file EXCEPT ![name[w]][next[w]] = content]
          /\ file[name[w]][next[w]] = "none" => content = "none"
    <3> DEFINE before == file[name[w]][next[w]]
    <3>1. before \in {"none", "ok", "mixed"} \cup Writer
      BY <2>1 DEF Typed, TypeOK
    <3>2. PICK content \in IF before = w THEN {"ok"}
                         ELSE IF before = "none" THEN {"none"} ELSE {before, "mixed"} :
            file' = [file EXCEPT ![name[w]][next[w]] = content]
      BY <1>13 DEF SyncFile
    <3> HIDE DEF before
    <3>3. content \in {"none", "ok", "mixed"} \cup Writer /\ (before = "none" => content = "none")
      BY <3>1, <3>2
    <3> QED
      BY <3>2, <3>3 DEF before
  <2>3. file' \in [Names -> [Files -> {"none", "ok", "mixed"} \cup Writer]]
    BY <2>1, <2>2 DEF Typed, TypeOK
  <2>4. \A n \in Names \ dirs : file'[n] = Empty
    <3> SUFFICES ASSUME NEW n \in Names \ dirs PROVE file'[n] = Empty
      OBVIOUS
    <3>1. file[n] = Empty
      BY DEF Typed, TypeOK
    <3>2. CASE n = name[w]
      BY <2>1, <2>2, <3>1, <3>2 DEF Empty, Typed, TypeOK
    <3>3. CASE n # name[w]
      BY <2>1, <2>2, <3>1, <3>3 DEF Typed, TypeOK
    <3> QED
      BY <3>2, <3>3
  <2> QED
    BY <1>13, <2>3, <2>4, NextFileTyped DEF SyncFile, counters, Typed, TypeOK
<1>14. ASSUME NEW w \in Writer, SyncFails(w) PROVE Typed'
  <2>1. faults' \in 0..MaxFaults
    BY <1>14 DEF SyncFails, Fault, Typed, TypeOK
  <2> QED
    BY <1>14, <2>1, NextFileTyped DEF SyncFails, disk, Typed, TypeOK
<1>15. ASSUME NEW w \in Writer, Return(w) PROVE Typed'
  BY <1>15, ForgetTyped DEF Return, LeaveDump, counters, Typed, TypeOK
<1>16. ASSUME NEW s, Crash(s) PROVE Typed'
  BY <1>16, ForgetTyped DEF Crash, Typed, TypeOK
<1>17. CASE Tick
  BY <1>17 DEF Tick, Typed, TypeOK, Locals, Removing, Writing, disk, local, counters
<1>18. CASE UNCHANGED vars
  BY <1>18 DEF vars, Typed, TypeOK, Locals, Removing, Writing, disk, local, counters
<1>19. ASSUME NEW w \in Writer, ReadDirFails(w) PROVE Typed'
  <2>1. NewName(w) \in Names /\ faults' \in 0..MaxFaults
    BY <1>19, NewNameTyped DEF ReadDirFails, Fault, Typed, TypeOK
  <2> QED
    BY <1>19, <2>1
    DEF ReadDirFails, TakeName, Typed, TypeOK, Locals, Removing, Writing, Goto, disk
<1>20. ASSUME NEW w \in Writer, InfoFails(w) PROVE Typed'
  <2> DEFINE n == FirstOf(todo[w])
  <2>1. n \in todo[w] /\ n \in Names /\ faults' \in 0..MaxFaults
    BY <1>20, FirstExists DEF InfoFails, Fault, Typed, TypeOK
  <2> HIDE DEF n
  <2>2. /\ pc[w] = "ttl"
        /\ todo' = [todo EXCEPT ![w] = @ \ {n}]
        /\ dumps' = [dumps EXCEPT ![w] = @ \cup {n}]
        /\ UNCHANGED <<now, dirs, file, mtime, pc, cutoff, victim, name, next, begun,
                       doomed, foiled, crashes>>
    BY <1>20 DEF InfoFails, n, disk
  <2> QED
    BY <2>1, <2>2 DEF Typed, TypeOK, Locals, Removing, Writing
<1>21. ASSUME NEW w \in Writer, Emptied(w) PROVE Typed'
  <2>1. victim[w] \in Names
    BY <1>21 DEF Emptied, Typed, Locals, Removing
  <2> QED
    BY <1>21, <2>1
    DEF Emptied, Typed, TypeOK, Locals, Removing, Writing, Goto, disk, counters
<1>22. ASSUME NEW w \in Writer, Cleanup(w) PROVE Typed'
  BY <1>22, <1>1, <1>2, <1>3, <1>4, <1>5, <1>6, <1>7, <1>8, <1>19, <1>20, <1>21 DEF Cleanup
<1>23. ASSUME NEW w \in Writer, WriteDump(w) PROVE Typed'
  BY <1>23, <1>9, <1>10, <1>11, <1>12, <1>13, <1>14, <1>15 DEF WriteDump
<1> QED
  BY <1>16, <1>17, <1>18, <1>22, <1>23 DEF Next

(* watcher.go, cleanup.go, dump.go: whatever fails and whoever is killed,    *)
(* files lie only in directories that are there, and no writer acts on a     *)
(* victim or a name that it has not got.                                     *)
THEOREM TypeCorrect == Spec => []TypeOK
<1>1. Spec => []Typed
  BY TypedInit, TypedStep, PTL DEF Spec
<1> QED
  BY <1>1, PTL DEF Typed

-----------------------------------------------------------------------------
(* What a step leaves alone: the locals of the other writers.  A kill takes  *)
(* them, but then the writer is idle.                                        *)
Same(v) ==
  /\ pc'[v] = pc[v] /\ todo'[v] = todo[v] /\ dumps'[v] = dumps[v]
  /\ cutoff'[v] = cutoff[v] /\ victim'[v] = victim[v] /\ name'[v] = name[v]
  /\ next'[v] = next[v]

LEMMA RemovalOfOthers ==
  ASSUME Typed, NEW w \in Writer, NEW ok \in BOOLEAN, AfterRemoval(w, ok),
         UNCHANGED <<todo, cutoff, next>>, NEW v \in Writer \ {w}
  PROVE  Same(v)
<1>1. CASE victim[w] \in dumps[w] /\ ~ok
  BY <1>1 DEF AfterRemoval, TakeName, Goto, Same, Typed, TypeOK
<1>2. CASE ~(victim[w] \in dumps[w] /\ ~ok)
  BY <1>2 DEF AfterRemoval, Goto, Same, Typed, TypeOK
<1> QED
  BY <1>1, <1>2

LEMMA LocalsOfOthers ==
  ASSUME Typed, NEW w \in Writer, Cleanup(w) \/ WriteDump(w), NEW v \in Writer \ {w}
  PROVE  Same(v)
<1>1. CASE ReadDir(w)
  BY <1>1 DEF ReadDir, Goto, Same, Typed, TypeOK
<1>2. CASE TTLNext(w)
  <2>1. /\ todo' = [todo EXCEPT ![w] = @ \ {FirstOf(todo[w])}]
        /\ \/ /\ StartRemoval(w, FirstOf(todo[w])) /\ dumps' = dumps
           \/ /\ dumps' = [dumps EXCEPT ![w] = @ \cup {FirstOf(todo[w])}]
              /\ pc' = pc /\ victim' = victim
        /\ UNCHANGED <<cutoff, name, next>>
    BY <1>2 DEF TTLNext
  <2> QED
    BY <2>1 DEF StartRemoval, Goto, Same, Typed, TypeOK
<1>3. CASE TTLDone(w)
  BY <1>3 DEF TTLDone, Goto, Same, Typed, TypeOK
<1>4. CASE MaxNext(w)
  BY <1>4 DEF MaxNext, StartRemoval, Goto, Same, Typed, TypeOK
<1>5. CASE MaxDone(w)
  BY <1>5 DEF MaxDone, TakeName, Goto, Same, Typed, TypeOK
<1>6. CASE Unlink(w)
  BY <1>6 DEF Unlink, local, Same
<1>7. CASE RmdirOk(w)
  BY <1>7, RemovalOfOthers DEF RmdirOk
<1>8. CASE RemoveAllFails(w)
  BY <1>8, RemovalOfOthers DEF RemoveAllFails
<1>9. CASE Mkdir(w)
  BY <1>9 DEF Mkdir, Goto, Same, Typed, TypeOK
<1>10. CASE MkdirFails(w)
  BY <1>10 DEF MkdirFails, LeaveDump, Forget, Same, Typed, TypeOK
<1>11. CASE CreateFile(w)
  BY <1>11 DEF CreateFile, Goto, Same, Typed, TypeOK
<1>12. CASE CreateFails(w)
  BY <1>12 DEF CreateFails, NextFile, Goto, Same, Typed, TypeOK
<1>13. CASE SyncFile(w)
  BY <1>13 DEF SyncFile, NextFile, Goto, Same, Typed, TypeOK
<1>14. CASE SyncFails(w)
  BY <1>14 DEF SyncFails, NextFile, Goto, Same, Typed, TypeOK
<1>15. CASE Return(w)
  BY <1>15 DEF Return, LeaveDump, Forget, Same, Typed, TypeOK
<1>16. CASE ReadDirFails(w)
  BY <1>16 DEF ReadDirFails, TakeName, Goto, Same, Typed, TypeOK
<1>17. CASE InfoFails(w)
  <2>1. /\ todo' = [todo EXCEPT ![w] = @ \ {FirstOf(todo[w])}]
        /\ dumps' = [dumps EXCEPT ![w] = @ \cup {FirstOf(todo[w])}]
        /\ UNCHANGED <<pc, cutoff, victim, name, next>>
    BY <1>17 DEF InfoFails
  <2> QED
    BY <2>1 DEF Same, Typed, TypeOK
<1>18. CASE Emptied(w)
  BY <1>18 DEF Emptied, Goto, Same, Typed, TypeOK
<1> QED
  BY <1>1, <1>2, <1>3, <1>4, <1>5, <1>6, <1>7, <1>8, <1>9, <1>10, <1>11, <1>12,
     <1>13, <1>14, <1>15, <1>16, <1>17, <1>18 DEF Cleanup, WriteDump

LEMMA ForgottenOrSame ==
  ASSUME Typed, NEW W \in SUBSET Writer, Forget(W), NEW v \in Writer
  PROVE  IF v \in W THEN pc'[v] = "idle" /\ dumps'[v] = {} /\ todo'[v] = {} ELSE Same(v)
BY DEF Forget, Same, Typed, TypeOK

(* A step that is neither a kill nor a tick is taken by one writer.          *)
LEMMA StepIsOfWriter ==
  ASSUME [Next]_vars
  PROVE  \/ \E w \in Writer : Cleanup(w) \/ WriteDump(w)
         \/ \E w \in Writer : Crash(Service[w])
         \/ /\ UNCHANGED <<disk, local, begun, doomed, counters>>
            /\ now' = now \/ Tick
<1>1. CASE Tick
  BY <1>1 DEF Tick
<1>2. CASE UNCHANGED vars
  BY <1>2 DEF vars
<1> QED
  BY <1>1, <1>2 DEF Next

(* Errors are never forgotten.                                               *)
LEMMA ErrorsGrow ==
  ASSUME Typed, [Next]_vars
  PROVE  /\ faults \in Nat /\ foiled \in Nat /\ faults' \in Nat /\ foiled' \in Nat
         /\ faults' >= faults /\ foiled' >= foiled
<1>1. faults \in Nat /\ foiled \in 0..MaxFoiled /\ MaxFoiled \in Nat
  BY StoreAssumption DEF Typed, TypeOK
<1>2. faults' \in {faults, faults + 1}
  BY DEF Next, vars, Cleanup, WriteDump, ReadDir, ReadDirFails, TTLNext, InfoFails,
     TTLDone, MaxNext, MaxDone, Emptied, Unlink, RmdirOk, RemoveAllFails, Mkdir,
     MkdirFails, CreateFile, CreateFails, SyncFile, SyncFails, Return, Crash, Tick,
     Fault, counters
<1>3. foiled' = foiled \/ Foiled
  BY DEF Next, vars, Cleanup, WriteDump, ReadDir, ReadDirFails, TTLNext, InfoFails,
     TTLDone, MaxNext, MaxDone, Emptied, Unlink, RmdirOk, RemoveAllFails, Mkdir,
     MkdirFails, CreateFile, CreateFails, SyncFile, SyncFails, Return, Crash, Tick,
     counters
<1> QED
  BY <1>1, <1>2, <1>3 DEF Foiled

-----------------------------------------------------------------------------
(* The removal of n is under way and nothing has been written to n since.    *)
Going(w, n) ==
  n = victim[w] /\ (pc[w] = "unlink" \/ (pc[w] = "rmdir" /\ file[n] = Empty))

(* While a cleanup runs, every directory that had expired when it began is   *)
(* still on its list, or it is just being removed.                           *)
Swept(w) ==
  Cleaning(w) \/ pc[w] = "mkdir" =>
    /\ cutoff[w] < now
    /\ \A n \in dirs : mtime[n] > cutoff[w] \/ n \in todo[w] \/ Going(w, n)

ExpiryInv == DumpTTL > 0 /\ faults = 0 => \A w \in Writer : Swept(w)

(* With DumpTTL, a directory that is new or gets its first file is as young  *)
(* as the clock; nothing else makes one look younger or older.               *)
LEMMA DiskTouched ==
  ASSUME Typed, [Next]_vars, DumpTTL > 0, NEW n \in dirs'
  PROVE  /\ n \in Names /\ now' >= now /\ now \in Int /\ now' \in Int
         /\ (n \in dirs /\ mtime'[n] = mtime[n]) \/ mtime'[n] = now
         /\ file[n] = Empty /\ file'[n] # Empty => mtime'[n] = now
<1>1. Typed' /\ now \in Int /\ now' \in Int /\ n \in Names
  <2>1. Typed'
    BY TypedStep
  <2> QED
    BY <2>1, StoreAssumption DEF Typed, TypeOK
<1> USE DEF Typed, TypeOK, disk, local, counters
<1>2. CASE UNCHANGED disk /\ (now' = now \/ now' = now + 1)
  BY <1>1, <1>2
<1>3. ASSUME NEW w \in Writer, Unlink(w) PROVE
         /\ now' >= now
         /\ (n \in dirs /\ mtime'[n] = mtime[n]) \/ mtime'[n] = now
         /\ file[n] = Empty /\ file'[n] # Empty => mtime'[n] = now
  <2>1. victim[w] \in Names
    BY <1>3 DEF Unlink, Locals, Removing
  <2>2. file[n] = Empty => file'[n] = Empty
    BY <1>1, <1>3, <2>1 DEF Unlink, Empty
  <2> QED
    BY <1>1, <1>3, <2>1, <2>2 DEF Unlink, Touch
<1>4. ASSUME NEW w \in Writer, RmdirOk(w) PROVE
         /\ now' >= now /\ n \in dirs /\ mtime'[n] = mtime[n] /\ file' = file
  BY <1>1, <1>4 DEF RmdirOk
<1>5. ASSUME NEW w \in Writer, Mkdir(w) PROVE
         /\ now' >= now
         /\ (n \in dirs /\ mtime'[n] = mtime[n]) \/ mtime'[n] = now
         /\ file' = file
  <2>1. name[w] \in Names
    BY <1>5 DEF Mkdir, Locals, Writing
  <2> QED
    BY <1>1, <1>5, <2>1 DEF Mkdir, Touch
<1>6. ASSUME NEW w \in Writer, CreateFile(w) PROVE
         /\ now' >= now
         /\ (n \in dirs /\ mtime'[n] = mtime[n]) \/ mtime'[n] = now
         /\ file[n] = Empty /\ file'[n] # Empty => mtime'[n] = now
  <2>1. name[w] \in Names /\ next[w] \in Files
    BY <1>6 DEF CreateFile, Locals, Writing
  <2>2. file[name[w]] = Empty => file[name[w]][next[w]] = "none"
    BY <2>1 DEF Empty
  <2> QED
    BY <1>1, <1>6, <2>1, <2>2 DEF CreateFile, Touch
<1>7. ASSUME NEW w \in Writer, SyncFile(w) PROVE
         /\ now' >= now /\ n \in dirs /\ mtime'[n] = mtime[n]
         /\ file[n] = Empty /\ file'[n] # Empty => mtime'[n] = now
  <2>1. name[w] \in Names /\ next[w] \in Files /\ now' = now /\ mtime' = mtime /\ dirs' = dirs
    BY <1>7 DEF SyncFile, Locals, Writing
  <2>2. PICK content : file' = [file EXCEPT ![name[w]][next[w]] = content]
                       /\ (file[name[w]][next[w]] = "none" => content = "none")
    BY <1>7, NoneAssumption DEF SyncFile
  <2>3. ASSUME file[n] = Empty PROVE file'[n] = Empty
    <3>1. CASE n # name[w]
      BY <1>1, <2>1, <2>2, <2>3, <3>1
    <3>2. CASE n = name[w]
      BY <1>1, <2>1, <2>2, <2>3, <3>2 DEF Empty
    <3> QED
      BY <3>1, <3>2
  <2> QED
    BY <1>1, <2>1, <2>3
<1>8. ASSUME NEW w \in Writer, Cleanup(w) \/ WriteDump(w) PROVE
         \/ Unlink(w) \/ RmdirOk(w) \/ Mkdir(w) \/ CreateFile(w) \/ SyncFile(w)
         \/ (UNCHANGED disk /\ now' = now)
  BY <1>8 DEF Cleanup, WriteDump, ReadDir, ReadDirFails, TTLNext, InfoFails, TTLDone,
     MaxNext, MaxDone, Emptied, RemoveAllFails, MkdirFails, CreateFails, SyncFails,
     Return
<1>9. ASSUME NEW s, Crash(s) PROVE UNCHANGED disk /\ now' = now
  BY <1>9 DEF Crash
<1>10. \/ \E w \in Writer : Unlink(w) \/ RmdirOk(w) \/ Mkdir(w) \/ CreateFile(w) \/ SyncFile(w)
      \/ /\ UNCHANGED disk
         /\ now' = now \/ now' = now + 1
  <2> HIDE DEF Typed, TypeOK, disk, local, counters
  <2> QED
    BY <1>8, <1>9, StepIsOfWriter DEF Tick
<1> HIDE DEF Typed, TypeOK, disk, local, counters
<1> QED
  BY <1>1, <1>2, <1>3, <1>4, <1>5, <1>6, <1>7, <1>10

(* Whatever others do meanwhile is too young for this cleanup to mind.       *)
LEMMA SweptByOthers ==
  ASSUME Typed, [Next]_vars, DumpTTL > 0, NEW v \in Writer, Same(v), Swept(v)
  PROVE  Swept(v)'
<1> SUFFICES ASSUME Cleaning(v)' \/ pc'[v] = "mkdir"
             PROVE  /\ cutoff'[v] < now'
                    /\ \A n \in dirs' : mtime'[n] > cutoff'[v] \/ n \in todo'[v] \/ Going(v, n)'
  BY DEF Swept
<1>1. /\ cutoff[v] < now /\ cutoff'[v] = cutoff[v] /\ cutoff[v] \in Int
      /\ \A n \in dirs : mtime[n] > cutoff[v] \/ n \in todo[v] \/ Going(v, n)
  BY DEF Same, Swept, Cleaning, Typed, TypeOK
<1>2. now \in Int /\ now' \in Int /\ now' >= now
  <2>1. now' = now \/ now' = now + 1
    BY DEF Next, vars, Cleanup, WriteDump, ReadDir, ReadDirFails, TTLNext, InfoFails,
       TTLDone, MaxNext, MaxDone, Emptied, Unlink, RmdirOk, RemoveAllFails, Mkdir,
       MkdirFails, CreateFile, CreateFails, SyncFile, SyncFails, Return, Crash, Tick
  <2> QED
    BY <2>1, StoreAssumption DEF Typed, TypeOK
<1>3. ASSUME NEW n \in dirs'
      PROVE  mtime'[n] > cutoff[v] \/ n \in todo[v] \/ Going(v, n)'
  <2>1. CASE mtime'[n] = now
    BY <1>1, <1>2, <2>1
  <2>2. CASE mtime'[n] # now
    <3>1. n \in dirs /\ mtime'[n] = mtime[n] /\ (file[n] = Empty => file'[n] = Empty)
      BY <1>3, <2>2, DiskTouched
    <3>2. Going(v, n) => Going(v, n)'
      BY <3>1 DEF Going, Same, Empty
    <3> QED
      BY <1>1, <3>1, <3>2
  <2> QED
    BY <2>1, <2>2
<1> QED
  BY <1>1, <1>2, <1>3 DEF Same

(* Its own steps take a directory from the list only when it is young enough *)
(* or about to go, and if no system call fails what is about to go goes.     *)
LEMMA SweptByItself ==
  ASSUME Typed, [Next]_vars, DumpTTL > 0, faults = 0, faults' = 0,
         NEW w \in Writer, Cleanup(w) \/ WriteDump(w), Swept(w)
  PROVE  Swept(w)'
<1>0. now \in Int /\ cutoff[w] \in Int /\ (\A n \in dirs : mtime[n] \in Int) /\ DumpTTL \in Nat
  BY StoreAssumption DEF Typed, TypeOK
<1> USE DEF Typed, TypeOK, disk, local, counters
<1>1. CASE ReadDir(w)
  BY <1>0, <1>1 DEF ReadDir, Swept
<1>2. CASE TTLNext(w)
  <2>1. PICK f : /\ pc[w] = "ttl"
                 /\ todo' = [todo EXCEPT ![w] = @ \ {f}]
                 /\ UNCHANGED <<now, dirs, file, mtime, cutoff>>
                 /\ \/ Expired(w, f) /\ StartRemoval(w, f)
                    \/ ~ Expired(w, f)
    BY <1>2 DEF TTLNext
  <2>2. cutoff[w] < now /\ \A n \in dirs : mtime[n] > cutoff[w] \/ n \in todo[w]
    BY <2>1 DEF Swept, Cleaning, Going
  <2>3. /\ todo'[w] = todo[w] \ {f} /\ cutoff'[w] = cutoff[w] /\ now' = now
        /\ mtime' = mtime /\ dirs' = dirs
    BY <2>1
  <2>4. ASSUME f \in dirs PROVE mtime[f] > cutoff[w] \/ Going(w, f)'
    <3>1. CASE ~ Expired(w, f)
      BY <1>0, <2>4, <3>1 DEF Expired
    <3>2. CASE Expired(w, f) /\ StartRemoval(w, f)
      BY <3>2 DEF StartRemoval, Goto, Going
    <3> QED
      BY <2>1, <3>1, <3>2
  <2> QED
    BY <2>2, <2>3, <2>4 DEF Swept
<1>3. CASE TTLDone(w)
  BY <1>3 DEF TTLDone, Goto, Swept, Cleaning, Going
<1>4. CASE MaxNext(w)
  BY <1>4 DEF MaxNext, StartRemoval, Goto, Swept, Cleaning, Going
<1>5. CASE MaxDone(w)
  BY <1>5 DEF MaxDone, TakeName, Goto, Swept, Cleaning, Going
<1>6. CASE Unlink(w)
  <2>1. /\ pc[w] = "unlink" /\ pc' = pc
        /\ UNCHANGED <<now, dirs, cutoff, todo, victim>>
    BY <1>6 DEF Unlink
  <2>2. /\ cutoff[w] < now
        /\ \A n \in dirs : mtime[n] > cutoff[w] \/ n \in todo[w] \/ n = victim[w]
    BY <2>1 DEF Swept, Cleaning, Going
  <2>3. \A n \in dirs : n # victim[w] => mtime'[n] = mtime[n]
    BY <1>6 DEF Unlink, Touch
  <2>4. Going(w, victim[w])'
    BY <2>1 DEF Going
  <2> QED
    BY <2>1, <2>2, <2>3, <2>4 DEF Swept
<1>10. CASE Emptied(w)
  <2>1. /\ pc[w] = "unlink" /\ pc'[w] = "rmdir" /\ file[victim[w]] = Empty
        /\ UNCHANGED <<now, dirs, file, mtime, cutoff, todo, victim>>
    BY <1>10 DEF Emptied, Goto
  <2>2. /\ cutoff[w] < now
        /\ \A n \in dirs : mtime[n] > cutoff[w] \/ n \in todo[w] \/ n = victim[w]
    BY <2>1 DEF Swept, Cleaning, Going
  <2>3. Going(w, victim[w])'
    BY <2>1 DEF Going, Empty
  <2> QED
    BY <2>1, <2>2, <2>3 DEF Swept
<1>11. CASE ReadDirFails(w) \/ InfoFails(w)
  BY <1>11 DEF ReadDirFails, InfoFails, Fault
<1>7. CASE RmdirOk(w)
  <2>1. /\ pc[w] = "rmdir" /\ dirs' = dirs \ {victim[w]}
        /\ mtime' = [mtime EXCEPT ![victim[w]] = 0]
        /\ UNCHANGED <<now, cutoff, todo>>
    BY <1>7 DEF RmdirOk
  <2>2. /\ cutoff[w] < now
        /\ \A n \in dirs : mtime[n] > cutoff[w] \/ n \in todo[w] \/ n = victim[w]
    BY <2>1 DEF Swept, Cleaning, Going
  <2> QED
    BY <2>1, <2>2 DEF Swept
<1>8. CASE RemoveAllFails(w)
  <2>1. /\ pc[w] = "rmdir" /\ file[victim[w]] # Empty
        /\ UNCHANGED <<now, cutoff, todo, dirs, mtime>>
    BY <1>8 DEF RemoveAllFails, Fault
  <2>2. cutoff[w] < now /\ \A n \in dirs : mtime[n] > cutoff[w] \/ n \in todo[w]
    BY <2>1 DEF Swept, Cleaning, Going
  <2> QED
    BY <2>1, <2>2 DEF Swept
<1>9. CASE WriteDump(w)
  <2>1. pc'[w] \notin {"ttl", "max", "unlink", "rmdir", "mkdir"}
    BY <1>0, <1>9 DEF WriteDump, Mkdir, MkdirFails, CreateFile, CreateFails, SyncFile,
       SyncFails, Return, LeaveDump, Forget, NextFile, Goto
  <2> QED
    BY <2>1 DEF Swept, Cleaning
<1> HIDE DEF Typed, TypeOK, disk, local, counters
<1> QED
  BY <1>1, <1>2, <1>3, <1>4, <1>5, <1>6, <1>7, <1>8, <1>9, <1>10, <1>11 DEF Cleanup

LEMMA ExpiryStep == Typed /\ ExpiryInv /\ [Next]_vars => ExpiryInv'
<1> SUFFICES ASSUME Typed, ExpiryInv, [Next]_vars, DumpTTL > 0, faults' = 0, NEW v \in Writer
             PROVE  Swept(v)'
  BY DEF ExpiryInv
<1>1. faults = 0 /\ Swept(v)
  BY ErrorsGrow DEF ExpiryInv
<1>2. CASE \E w \in Writer : Cleanup(w) \/ WriteDump(w)
  BY <1>1, <1>2, SweptByItself, SweptByOthers, LocalsOfOthers
<1>3. ASSUME NEW w \in Writer, Crash(Service[w]) PROVE Swept(v)'
  <2>1. pc'[v] = "idle" \/ Same(v)
    BY <1>3, ForgottenOrSame DEF Crash
  <2> QED
    BY <1>1, <2>1, SweptByOthers DEF Swept, Cleaning
<1>4. CASE UNCHANGED <<disk, local, begun, doomed, counters>>
  <2>1. Same(v)
    BY <1>4 DEF Same, local
  <2> QED
    BY <1>1, <2>1, SweptByOthers
<1> QED
  BY <1>2, <1>3, <1>4, StepIsOfWriter

(* cleanup.go, the TTL phase: when cleanup returns without an error, whatever *)
(* was expired when it began is gone, although other writers make, remove    *)
(* and fill directories behind its back.                                     *)
THEOREM CleanupSweeps == Spec => []ExpiredGone
<1>1. Init => ExpiryInv
  BY DEF Init, ExpiryInv, Swept, Cleaning
<1>2. Typed /\ ExpiryInv => ExpiredGone
  <2> SUFFICES ASSUME Typed, ExpiryInv, NEW w \in Writer, pc[w] = "mkdir", DumpTTL > 0,
                      faults = 0, NEW n \in dirs
               PROVE  mtime[n] > cutoff[w]
    BY DEF ExpiredGone
  <2> QED
    BY DEF ExpiryInv, Swept, Going, Typed, Locals
<1> QED
  BY <1>1, <1>2, TypedInit, TypedStep, ExpiryStep, PTL DEF Spec

-----------------------------------------------------------------------------
(* A writer that writes the files of its dump.                               *)
Open(w) == pc[w] \in {"write", "sync"}

(* A directory that one dump wrote and no cleanup touched.                   *)
Intact(n) == n \in dirs \ doomed /\ begun[n] <= 1

(* Who writes to a directory has begun a dump there, and two that write to   *)
(* the same have begun two; a name is never older than the start, a dump     *)
(* found on the disk always is.                                              *)
Accounted ==
  /\ \A w \in Writer : Open(w) => begun[name[w]] >= 1
  /\ \A v, w \in Writer : Open(v) /\ Open(w) /\ v # w /\ name[v] = name[w] => begun[name[w]] = 2
  /\ \A w \in Writer : Writing(w) => name[w][2] >= Start
  /\ \A n \in dirs : begun[n] = 0 => n[2] < Start

(* The files a writer has passed are complete but for one per error, those   *)
(* ahead are absent, and the one in its hands is its own.                    *)
Missing(f, n, i) == {k \in Files : k < i /\ f[n][k] # "ok"}
Progress(w) ==
  /\ \A k \in Files : k > next[w] => file[name[w]][k] = "none"
  /\ file[name[w]][next[w]] = IF pc[w] = "sync" THEN w ELSE "none"
  /\ Cardinality(Missing(file, name[w], next[w])) <= faults

(* The files of n that are not complete although a later one was begun.      *)
Lost(f, n) == {k \in Files : f[n][k] # "ok" /\ \E j \in Files : j > k /\ f[n][j] # "none"}

DamageInv ==
  /\ Accounted
  /\ \A w \in Writer : Open(w) /\ Intact(name[w]) => Progress(w)
  /\ \A n \in dirs : Intact(n) => Cardinality(Lost(file, n)) <= faults

LEMMA FilesFinite == ASSUME NEW S \in SUBSET Files PROVE IsFiniteSet(S) /\ Cardinality(S) \in Nat
<1>1. IsFiniteSet(Files)
  BY FS_Interval, StoreAssumption DEF Files
<1> QED
  BY <1>1, FS_Subset, FS_CardinalityType

LEMMA CardOfSubset ==
  ASSUME NEW S, IsFiniteSet(S), NEW T \in SUBSET S
  PROVE  Cardinality(T) <= Cardinality(S) /\ Cardinality(T) \in Nat /\ Cardinality(S) \in Nat
BY FS_Subset, FS_CardinalityType

(* What one step of w does to its own progress and to the directories.       *)
LEMMA WriterStep ==
  ASSUME Typed, NEW w \in Writer, Cleanup(w) \/ WriteDump(w)
  PROVE  \/ Mkdir(w)
         \/ /\ begun' = begun /\ dirs' \subseteq dirs
            /\ Open(w)' => Open(w) /\ name'[w] = name[w]
            /\ Writing(w)' => (Writing(w) /\ name'[w] = name[w]) \/ name'[w] = NewName(w)
<1> USE DEF Open, Writing, disk, Typed, TypeOK
<1>1. CASE ReadDir(w) \/ InfoFails(w) \/ TTLDone(w) \/ MaxNext(w) \/ Unlink(w) \/ Emptied(w)
  BY <1>1 DEF ReadDir, InfoFails, TTLDone, MaxNext, StartRemoval, Unlink, Emptied, local, Goto
<1>2. CASE TTLNext(w)
  <2>1. PICK f : /\ StartRemoval(w, f) \/ pc' = pc
                 /\ UNCHANGED <<dirs, begun, name>> /\ pc[w] = "ttl"
    BY <1>2 DEF TTLNext
  <2> QED
    BY <2>1 DEF StartRemoval, Goto
<1>3. CASE MaxDone(w) \/ ReadDirFails(w)
  BY <1>3 DEF MaxDone, ReadDirFails, TakeName, Goto
<1>4. ASSUME NEW ok \in BOOLEAN, AfterRemoval(w, ok), pc[w] \in {"unlink", "rmdir"}
      PROVE  pc'[w] \in {"ttl", "max"} \/ (pc'[w] = "mkdir" /\ name'[w] = NewName(w))
  <2>1. CASE victim[w] \in dumps[w] /\ ~ok
    BY <1>4, <2>1 DEF AfterRemoval, TakeName, Goto
  <2>2. CASE ~(victim[w] \in dumps[w] /\ ~ok)
    BY <1>4, <2>2 DEF AfterRemoval, Goto
  <2> QED
    BY <2>1, <2>2
<1>5. CASE RmdirOk(w) \/ RemoveAllFails(w)
  BY <1>4, <1>5 DEF RmdirOk, RemoveAllFails
<1>6. CASE MkdirFails(w) \/ Return(w)
  BY <1>6 DEF MkdirFails, Return, LeaveDump, Forget
<1>7. CASE CreateFile(w) \/ CreateFails(w) \/ SyncFile(w) \/ SyncFails(w)
  BY <1>7 DEF CreateFile, CreateFails, SyncFile, SyncFails, NextFile, Goto
<1> QED
  BY <1>1, <1>2, <1>3, <1>5, <1>6, <1>7 DEF Cleanup, WriteDump

LEMMA AccountedStep == Typed /\ Accounted /\ [Next]_vars => Accounted'
<1> SUFFICES ASSUME Typed, Accounted, [Next]_vars PROVE Accounted'
  OBVIOUS
<1>0. Typed' /\ Start \in Nat
  BY TypedStep, StoreAssumption
<1>1. ASSUME NEW w \in Writer, Mkdir(w) PROVE Accounted'
  <2>1. /\ name[w] \in Names /\ pc[w] = "mkdir"
        /\ begun' = [begun EXCEPT ![name[w]] = IF @ = 0 THEN 1 ELSE 2]
        /\ dirs' = dirs \cup {name[w]} /\ name' = name
        /\ pc' = [pc EXCEPT ![w] = "write"]
    BY <1>1 DEF Mkdir, Goto, Typed, Locals, Writing
  <2>2. begun \in [Names -> 0..2] /\ \A v \in Writer : Open(v) => name[v] \in Names
    BY DEF Typed, TypeOK, Locals, Open, Writing
  <2>3. /\ \A v \in Writer : Open(v)' => begun'[name'[v]] >= 1
        /\ \A u, v \in Writer : Open(u)' /\ Open(v)' /\ u # v /\ name'[u] = name'[v]
                                  => begun'[name'[v]] = 2
    BY <2>1, <2>2 DEF Accounted, Open, Typed, TypeOK
  <2>4. \A v \in Writer : Writing(v)' => name'[v][2] >= Start
    BY <2>1 DEF Accounted, Writing, Typed, TypeOK
  <2>5. \A n \in dirs' : begun'[n] = 0 => n[2] < Start
    BY <2>1, <2>2 DEF Accounted, Typed, TypeOK
  <2> QED
    BY <2>3, <2>4, <2>5 DEF Accounted
<1>2. ASSUME begun' = begun, dirs' \subseteq dirs,
             \A v \in Writer :
               /\ Open(v)' => Open(v) /\ name'[v] = name[v]
               /\ Writing(v)' => (Writing(v) /\ name'[v] = name[v]) \/ name'[v] = NewName(v)
      PROVE  Accounted'
  <2>1. \A v \in Writer : NewName(v)[2] >= Start
    BY NewNameTyped, <1>0 DEF Typed, TypeOK
  <2>2. \A v \in Writer : Open(v)' => begun'[name'[v]] >= 1
    BY <1>2 DEF Accounted
  <2>3. ASSUME NEW u \in Writer, NEW v \in Writer, Open(u)', Open(v)', u # v, name'[u] = name'[v]
        PROVE  begun'[name'[v]] = 2
    BY <1>2, <2>3 DEF Accounted
  <2>4. ASSUME NEW v \in Writer, Writing(v)' PROVE name'[v][2] >= Start
    BY <1>2, <2>1, <2>4 DEF Accounted
  <2>5. \A n \in dirs' : begun'[n] = 0 => n[2] < Start
    BY <1>2 DEF Accounted
  <2> QED
    BY <2>2, <2>3, <2>4, <2>5 DEF Accounted
<1>3. ASSUME NEW v \in Writer, Same(v) \/ pc'[v] = "idle"
      PROVE  /\ Open(v)' => Open(v) /\ name'[v] = name[v]
             /\ Writing(v)' => Writing(v) /\ name'[v] = name[v]
  BY <1>3 DEF Same, Open, Writing
<1>4. ASSUME NEW w \in Writer, Cleanup(w) \/ WriteDump(w), ~ Mkdir(w) PROVE Accounted'
  <2>1. \A v \in Writer \ {w} : Same(v)
    BY <1>4, LocalsOfOthers
  <2> QED
    BY <1>2, <1>3, <1>4, <2>1, WriterStep
<1>5. ASSUME NEW w \in Writer, Crash(Service[w]) PROVE Accounted'
  <2>1. \A v \in Writer : Same(v) \/ pc'[v] = "idle"
    BY <1>5, ForgottenOrSame DEF Crash
  <2> QED
    BY <1>2, <1>3, <1>5, <2>1 DEF Crash, disk
<1>6. CASE UNCHANGED <<disk, local, begun, doomed, counters>>
  <2>1. \A v \in Writer : Same(v)
    BY <1>6 DEF local, Same
  <2> QED
    BY <1>2, <1>3, <1>6, <2>1 DEF disk
<1> QED
  BY <1>1, <1>4, <1>5, <1>6, StepIsOfWriter

(* A directory is the same after a step, or worse than a claim is made for,  *)
(* or the step is of the writer that writes to it.                           *)
LEMMA DirectoryKept ==
  ASSUME Typed, [Next]_vars, NEW n \in Names, Intact(n)'
  PROVE  \/ Intact(n) /\ file'[n] = file[n] /\ begun'[n] = begun[n]
         \/ \E w \in Writer : /\ name[w] = n
                              /\ Mkdir(w) \/ CreateFile(w) \/ SyncFile(w)
<1> USE DEF Intact, disk, Typed, TypeOK
<1>1. CASE UNCHANGED <<disk, begun, doomed>>
  BY <1>1
<1>2. ASSUME NEW w \in Writer, Unlink(w) \/ Emptied(w)
      PROVE  Intact(n) /\ file'[n] = file[n] /\ begun'[n] = begun[n]
  BY <1>2 DEF Unlink, Emptied
<1>3. ASSUME NEW w \in Writer, RmdirOk(w)
      PROVE  Intact(n) /\ file'[n] = file[n] /\ begun'[n] = begun[n]
  BY <1>3 DEF RmdirOk
<1>4. ASSUME NEW w \in Writer, name[w] # n, Mkdir(w)
      PROVE  Intact(n) /\ file'[n] = file[n] /\ begun'[n] = begun[n]
  BY <1>4 DEF Mkdir
<1>5. ASSUME NEW w \in Writer, name[w] # n, CreateFile(w)
      PROVE  Intact(n) /\ file'[n] = file[n] /\ begun'[n] = begun[n]
  BY <1>5 DEF CreateFile
<1>6. ASSUME NEW w \in Writer, name[w] # n, SyncFile(w)
      PROVE  Intact(n) /\ file'[n] = file[n] /\ begun'[n] = begun[n]
  BY <1>6 DEF SyncFile
<1>7. ASSUME NEW w \in Writer, Cleanup(w) \/ WriteDump(w)
      PROVE  \/ Unlink(w) \/ Emptied(w) \/ RmdirOk(w)
             \/ Mkdir(w) \/ CreateFile(w) \/ SyncFile(w)
             \/ UNCHANGED <<disk, begun, doomed>>
  BY <1>7 DEF Cleanup, WriteDump, ReadDir, ReadDirFails, TTLNext, InfoFails, TTLDone,
     MaxNext, MaxDone, RemoveAllFails, MkdirFails, CreateFails, SyncFails, Return
<1>8. ASSUME NEW w \in Writer, Crash(Service[w]) PROVE UNCHANGED <<disk, begun, doomed>>
  BY <1>8 DEF Crash
<1> HIDE DEF Intact, disk, Typed, TypeOK
<1> QED
  BY <1>1, <1>2, <1>3, <1>4, <1>5, <1>6, <1>7, <1>8, StepIsOfWriter

(* The progress of a writer is not disturbed by the others.                  *)
LEMMA ProgressByOthers ==
  ASSUME Typed, Accounted, [Next]_vars, NEW v \in Writer, Same(v), Open(v)', Intact(name[v])',
         name[v] \in Names, Open(v) /\ Intact(name[v]) => Progress(v)
  PROVE  Progress(v)'
<1>1. Open(v) /\ name'[v] = name[v]
  BY DEF Same, Open
<1>2. CASE Intact(name[v]) /\ file'[name[v]] = file[name[v]]
  <2>1. Progress(v) /\ next'[v] = next[v] /\ pc'[v] = pc[v]
    BY <1>1, <1>2 DEF Same
  <2>2. Missing(file, name[v], next[v])' = Missing(file, name[v], next[v])
    BY <1>1, <1>2, <2>1 DEF Missing
  <2>3. Cardinality(Missing(file, name[v], next[v])) \in Nat
    BY FilesFinite DEF Missing
  <2> QED
    BY <1>1, <1>2, <2>1, <2>2, <2>3, ErrorsGrow DEF Progress
<1>3. ASSUME NEW w \in Writer, name[w] = name[v], Mkdir(w) \/ CreateFile(w) \/ SyncFile(w)
      PROVE  FALSE
  <2>0. pc'[w] # pc[w]
    BY <1>3 DEF Mkdir, CreateFile, SyncFile, NextFile, Goto, Typed, TypeOK
  <2>1. w # v /\ begun[name[v]] >= 1 /\ begun[name[v]] \in 0..2
    BY <1>1, <2>0 DEF Accounted, Same, Typed, TypeOK
  <2>2. CASE Mkdir(w)
    BY <1>3, <2>1, <2>2 DEF Mkdir, Intact, Typed, TypeOK
  <2>3. CASE CreateFile(w) \/ SyncFile(w)
    <3>1. Open(w) /\ begun' = begun
      BY <2>3 DEF CreateFile, SyncFile, Open
    <3>2. begun[name[v]] = 2
      BY <1>1, <1>3, <2>1, <3>1 DEF Accounted
    <3> QED
      BY <1>1, <3>1, <3>2 DEF Intact
  <2> QED
    BY <1>3, <2>2, <2>3
<1> QED
  BY <1>1, <1>2, <1>3, DirectoryKept

(* A writer passes a file that is complete, or that cost an error.           *)
LEMMA ProgressByItself ==
  ASSUME Typed, Accounted, [Next]_vars, NEW w \in Writer, Cleanup(w) \/ WriteDump(w),
         Open(w)', Intact(name[w])', Open(w) /\ Intact(name[w]) => Progress(w)
  PROVE  Progress(w)'
<1>0. /\ Typed' /\ faults \in Nat /\ faults' \in Nat /\ faults' >= faults
      /\ Files \subseteq Int /\ Files = 1..FileCount /\ FileCount \in Nat /\ 1 \in Files
  BY TypedStep, ErrorsGrow, StoreAssumption DEF Files
<1>1. CASE Mkdir(w)
  <2>1. /\ name[w] \in Names /\ name' = name /\ next'[w] = 1 /\ pc'[w] = "write"
        /\ begun' = [begun EXCEPT ![name[w]] = IF @ = 0 THEN 1 ELSE 2] /\ file' = file
    BY <1>1 DEF Mkdir, Goto, Typed, TypeOK, Locals, Writing
  <2>2. begun[name[w]] = 0
    BY <2>1 DEF Intact, Typed, TypeOK
  <2>3. name[w] \notin dirs
    BY <1>0, <1>1, <2>1, <2>2, NameIsPair, StoreAssumption DEF Accounted, Writing, Mkdir
  <2>4. file'[name[w]] = Empty
    BY <2>1, <2>3 DEF Typed, TypeOK
  <2>5. /\ \A k \in Files : file'[name[w]][k] = "none"
        /\ Cardinality(Missing(file', name[w], 1)) = 0
    <3>1. Missing(file', name[w], 1) = {}
      BY <1>0 DEF Missing
    <3> QED
      BY <2>4, <3>1, FS_EmptySet DEF Empty
  <2> QED
    BY <1>0, <2>1, <2>5 DEF Progress
<1>2. ASSUME ~ Mkdir(w) PROVE Open(w) /\ name'[w] = name[w]
  BY <1>2, WriterStep
<1>3. ASSUME Open(w) PROVE name[w] \in Names /\ next[w] \in Files
  BY <1>3 DEF Typed, Locals, Open, Writing
<1>4. CASE CreateFile(w)
  <2>1. /\ name[w] \in Names /\ next[w] \in Files /\ Open(w)
        /\ file' = [file EXCEPT ![name[w]][next[w]] = w] /\ pc'[w] = "sync"
        /\ UNCHANGED <<name, next, dirs, doomed, begun>>
    BY <1>3, <1>4 DEF CreateFile, Goto, Open, Typed, TypeOK
  <2>2. Progress(w)
    BY <2>1 DEF Intact
  <2>3. /\ file'[name[w]][next[w]] = w
        /\ \A k \in Files : k # next[w] => file'[name[w]][k] = file[name[w]][k]
    BY <2>1 DEF Typed, TypeOK
  <2>4. Missing(file, name[w], next[w])' = Missing(file, name[w], next[w])
    BY <1>0, <2>1, <2>3 DEF Missing
  <2>5. Cardinality(Missing(file, name[w], next[w])) \in Nat
    BY FilesFinite DEF Missing
  <2> QED
    BY <1>0, <2>1, <2>2, <2>3, <2>4, <2>5 DEF Progress
<1>5. ASSUME Open(w), NextFile(w), name'[w] = name[w], Intact(name[w]),
             \A k \in Files : k # next[w] => file'[name[w]][k] = file[name[w]][k],
             file'[name[w]][next[w]] = "ok" \/ faults' = faults + 1
      PROVE  Progress(w)'
  <2>1. /\ name[w] \in Names /\ next[w] \in Files /\ Progress(w)
        /\ next'[w] = next[w] + 1 /\ pc'[w] = "write" /\ next[w] + 1 \in Files
    BY <1>0, <1>3, <1>5 DEF NextFile, Goto, Typed, TypeOK, Open
  <2> DEFINE M == Missing(file, name[w], next[w])
             P == Missing(file', name[w], next[w])
             Q == Missing(file', name[w], next[w] + 1)
  <2>2. P = M
    BY <1>0, <1>5, <2>1 DEF Missing
  <2>3. Cardinality(M) \in Nat /\ Cardinality(M) <= faults /\ IsFiniteSet(M)
    BY <2>1, FilesFinite DEF Missing, Progress
  <2>4. Q = IF file'[name[w]][next[w]] = "ok" THEN P ELSE P \cup {next[w]}
    BY <1>0, <1>5, <2>1 DEF Missing
  <2>5. Cardinality(Q) <= faults'
    <3>1. CASE file'[name[w]][next[w]] = "ok"
      BY <1>0, <2>2, <2>3, <2>4, <3>1
    <3>2. CASE file'[name[w]][next[w]] # "ok"
      <4>1. next[w] \notin M
        BY <1>0, <2>1 DEF Missing
      <4> HIDE DEF M, P, Q
      <4>2. Cardinality(Q) = Cardinality(M) + 1
        BY <2>2, <2>3, <2>4, <3>2, <4>1, FS_AddElement
      <4> QED
        BY <1>0, <1>5, <2>3, <3>2, <4>2
    <3> QED
      BY <3>1, <3>2
  <2>6. \A k \in Files : k >= next[w] + 1 => file'[name[w]][k] = "none"
    BY <1>0, <1>5, <2>1 DEF Progress
  <2> QED
    BY <1>0, <1>5, <2>1, <2>5, <2>6 DEF Progress
<1>6. CASE CreateFails(w)
  <2>1. /\ Open(w) /\ NextFile(w) /\ file' = file
        /\ UNCHANGED <<dirs, doomed, begun, name>>
        /\ name[w] \in dirs => faults' = faults + 1
    BY <1>6 DEF CreateFails, Open, disk, Fault
  <2> QED
    BY <1>5, <2>1 DEF Intact
<1>7. CASE SyncFile(w)
  <2>1. PICK content :
          /\ Open(w) /\ NextFile(w) /\ UNCHANGED <<dirs, doomed, begun, name>>
          /\ pc[w] = "sync" /\ file' = [file EXCEPT ![name[w]][next[w]] = content]
          /\ file[name[w]][next[w]] = w => content = "ok"
    BY <1>7 DEF SyncFile, Open
  <2>2. Intact(name[w]) /\ name[w] \in Names /\ next[w] \in Files
    BY <1>3, <2>1 DEF Intact
  <2>3. content = "ok"
    BY <2>1, <2>2 DEF Progress
  <2>4. /\ file'[name[w]][next[w]] = "ok"
        /\ \A k \in Files : k # next[w] => file'[name[w]][k] = file[name[w]][k]
    BY <2>1, <2>2, <2>3 DEF Typed, TypeOK
  <2> QED
    BY <1>5, <2>1, <2>2, <2>4
<1>8. CASE SyncFails(w)
  <2>1. /\ Open(w) /\ NextFile(w) /\ file' = file
        /\ UNCHANGED <<dirs, doomed, begun, name>>
        /\ faults' = faults + 1
    BY <1>8 DEF SyncFails, Open, disk, Fault
  <2> QED
    BY <1>5, <2>1 DEF Intact
<1>9. ASSUME ~ Mkdir(w), ~ CreateFile(w), ~ CreateFails(w), ~ SyncFile(w), ~ SyncFails(w)
      PROVE  FALSE
  <2>1. Open(w)
    BY <1>2, <1>9
  <2>2. WriteDump(w) => Return(w)
    BY <1>9, <2>1 DEF WriteDump, MkdirFails, Open
  <2> QED
    BY <1>9, <2>1, <2>2 DEF Open, Cleanup, ReadDir, ReadDirFails, TTLNext, InfoFails,
       TTLDone, MaxNext, MaxDone, Emptied, Unlink, RmdirOk, RemoveAllFails, Return
<1> QED
  BY <1>1, <1>4, <1>6, <1>7, <1>8, <1>9

(* The lost files of a directory that was being written are among those its  *)
(* writer has passed.                                                        *)
LEMMA LostArePassed ==
  ASSUME NEW f, NEW n \in Names, NEW i \in Files, NEW bound \in Nat,
         \A k \in Files : k > i => f[n][k] = "none",
         Cardinality(Missing(f, n, i)) <= bound
  PROVE  Cardinality(Lost(f, n)) <= bound
<1>1. Lost(f, n) \subseteq Missing(f, n, i)
  BY DEF Lost, Missing, Files
<1>2. IsFiniteSet(Missing(f, n, i))
  BY FilesFinite DEF Missing
<1>3. Cardinality(Lost(f, n)) <= Cardinality(Missing(f, n, i))
      /\ Cardinality(Lost(f, n)) \in Nat /\ Cardinality(Missing(f, n, i)) \in Nat
  BY <1>1, <1>2, CardOfSubset
<1> QED
  BY <1>3

LEMMA DamageStep == Typed /\ DamageInv /\ [Next]_vars => DamageInv'
<1> SUFFICES ASSUME Typed, DamageInv, [Next]_vars PROVE DamageInv'
  OBVIOUS
<1>0. /\ Typed' /\ Accounted /\ Accounted'
      /\ faults \in Nat /\ faults' \in Nat /\ faults' >= faults
  BY TypedStep, AccountedStep, ErrorsGrow DEF DamageInv
<1>1. ASSUME NEW v \in Writer, Open(v)', Intact(name[v])' PROVE Progress(v)'
  <2>1. Open(v) /\ Intact(name[v]) => Progress(v)
    BY DEF DamageInv
  <2>2. ASSUME Same(v) PROVE Progress(v)'
    <3>1. name[v] \in Names
      BY <1>1, <2>2 DEF Same, Open, Typed, Locals, Writing
    <3> QED
      BY <1>0, <1>1, <2>1, <2>2, <3>1, ProgressByOthers
  <2>3. ASSUME NEW w \in Writer, Cleanup(w) \/ WriteDump(w) PROVE Progress(v)'
    <3>1. CASE v = w
      BY <1>0, <1>1, <2>1, <2>3, <3>1, ProgressByItself
    <3>2. CASE v # w
      BY <2>2, <2>3, <3>2, LocalsOfOthers
    <3> QED
      BY <3>1, <3>2
  <2>4. ASSUME NEW w \in Writer, Crash(Service[w]) PROVE Progress(v)'
    <3>1. Same(v)
      BY <1>1, <2>4, ForgottenOrSame DEF Crash, Open
    <3> QED
      BY <2>2, <3>1
  <2>5. CASE UNCHANGED <<disk, local, begun, doomed, counters>>
    <3>1. Same(v)
      BY <2>5 DEF Same, local
    <3> QED
      BY <2>2, <3>1
  <2> QED
    BY <2>3, <2>4, <2>5, StepIsOfWriter
<1>2. ASSUME NEW n \in dirs', Intact(n)' PROVE Cardinality(Lost(file', n)) <= faults'
  <2>1. n \in Names
    BY <1>0 DEF Typed, TypeOK
  <2>2. CASE Intact(n) /\ file'[n] = file[n]
    <3>1. Lost(file', n) = Lost(file, n)
      BY <2>2 DEF Lost
    <3>2. Cardinality(Lost(file, n)) \in Nat /\ Cardinality(Lost(file, n)) <= faults
      BY <2>2, FilesFinite DEF Lost, DamageInv, Intact
    <3> QED
      BY <1>0, <3>1, <3>2
  <2>3. ASSUME NEW w \in Writer, name[w] = n, Mkdir(w) PROVE Cardinality(Lost(file', n)) <= faults'
    <3>1. name'[w] = n /\ Open(w)' /\ next'[w] = 1 /\ 1 \in Files
      BY <2>3, StoreAssumption DEF Mkdir, Goto, Open, Typed, TypeOK, Files
    <3>2. Progress(w)'
      BY <1>1, <1>2, <3>1
    <3> QED
      BY <1>0, <2>1, <3>1, <3>2, LostArePassed DEF Progress
  <2>4. ASSUME NEW w \in Writer, name[w] = n, CreateFile(w) \/ SyncFile(w)
        PROVE  Cardinality(Lost(file', n)) <= faults'
    <3>1. PICK content :
            /\ Open(w) /\ UNCHANGED <<dirs, doomed, begun>>
            /\ file' = [file EXCEPT ![n][next[w]] = content]
      BY <2>4 DEF CreateFile, SyncFile, Open
    <3>2. Progress(w) /\ next[w] \in Files /\ Files \subseteq Int
      BY <1>2, <2>4, <3>1 DEF DamageInv, Intact, Typed, Locals, Open, Files
    <3>3. \A k \in Files : k # next[w] => file'[n][k] = file[n][k]
      BY <2>1, <3>1 DEF Typed, TypeOK
    <3>4. Missing(file', n, next[w]) = Missing(file, n, next[w])
      <4>1. \A k \in Files : k < next[w] => file'[n][k] = file[n][k]
        BY <3>2, <3>3
      <4> QED
        BY <4>1 DEF Missing
    <3>5. Cardinality(Missing(file, n, next[w])) \in Nat
      BY FilesFinite DEF Missing
    <3>6. /\ Cardinality(Missing(file', n, next[w])) <= faults'
          /\ \A k \in Files : k > next[w] => file'[n][k] = "none"
      <4>1. /\ Cardinality(Missing(file, n, next[w])) <= faults
            /\ \A k \in Files : k > next[w] => file[n][k] = "none"
        BY <2>4, <3>2 DEF Progress
      <4> QED
        BY <1>0, <3>2, <3>3, <3>4, <3>5, <4>1
    <3> QED
      BY <1>0, <2>1, <3>2, <3>6, LostArePassed
  <2> QED
    BY <1>2, <2>1, <2>2, <2>3, <2>4, DirectoryKept
<1> QED
  BY <1>0, <1>1, <1>2 DEF DamageInv

(* dump.WriteAll after writeDumpNamed: as long as nobody else writes to a     *)
(* dump or removes it, each file that is not whole although a later one was  *)
(* begun is one that a system call failed for; a kill at any moment costs at *)
(* most the file in hand.                                                    *)
THEOREM DamageIsLimited == Spec => []EachErrorCostsOneFile
<1>1. Init => DamageInv
  <2> SUFFICES ASSUME Init PROVE DamageInv
    OBVIOUS
  <2>1. \A w \in Writer : ~ Open(w) /\ ~ Writing(w)
    BY DEF Init, Open, Writing
  <2>2. Accounted
    BY <2>1 DEF Accounted, Init
  <2>3. ASSUME NEW n \in dirs PROVE Cardinality(Lost(file, n)) <= faults
    <3>1. n \in Names /\ file[n] = Complete
      BY DEF Init
    <3>2. Lost(file, n) = {}
      BY <3>1 DEF Lost, Complete
    <3>3. Cardinality(Lost(file, n)) = 0 /\ faults = 0
      BY <3>2, FS_EmptySet DEF Init
    <3> QED
      BY <3>3
  <2> QED
    BY <2>1, <2>2, <2>3 DEF DamageInv
<1>2. DamageInv => EachErrorCostsOneFile
  BY DEF DamageInv, Intact, Lost, EachErrorCostsOneFile
<1> QED
  BY <1>1, <1>2, TypedInit, TypedStep, DamageStep, PTL DEF Spec

-----------------------------------------------------------------------------
(* At least MaxDumps - 1 directories are younger than n.                     *)
Enough(n) == Cardinality(Newer(n)) >= MaxDumps - 1

(* When only MaxDumps is set, a cleanup destroys what it saw enough younger  *)
(* directories of, and of what it saw there are still enough on the disk.    *)
Spares(w) ==
  /\ pc[w] # "ttl"
  /\ Removing(w) => victim[w] \in dumps[w] /\ Enough(victim[w])
  /\ \A n \in dumps[w] : Cardinality({m \in dumps[w] : m[2] > n[2]}) >= MaxDumps - 1 => Enough(n)

NewestInv == \A w \in Writer : Spares(w)

LEMMA CardOfNames ==
  ASSUME NEW S \in SUBSET Names, NEW T \in SUBSET S
  PROVE  /\ Cardinality(T) \in Nat /\ Cardinality(S) \in Nat /\ Cardinality(T) <= Cardinality(S)
         /\ IsFiniteSet(S)
BY NamesFinite, FS_Subset, CardOfSubset

(* To take away a directory that has enough younger ones leaves enough to    *)
(* every other: the younger ones of the victim are younger than its elders.  *)
LEMMA EnoughStays ==
  ASSUME Typed, Typed', NEW n \in Names, Enough(n),
         \/ dirs \subseteq dirs'
         \/ \E v \in Names : Enough(v) /\ dirs' = dirs \ {v}
  PROVE  Enough(n)'
<1>0. /\ n[2] \in Int /\ MaxDumps \in Nat
      /\ dirs \subseteq Names /\ dirs' \subseteq Names /\ \A m \in Names : m[2] \in Int
  BY NameIsPair, StoreAssumption DEF Typed, TypeOK
<1> DEFINE NewerThen == {m \in dirs' : m[2] > n[2]}
<1>1. NewerThen \subseteq Names
  BY <1>0
<1>2. CASE Newer(n) \subseteq NewerThen
  <2>1. Cardinality(Newer(n)) <= Cardinality(NewerThen)
        /\ Cardinality(Newer(n)) \in Nat /\ Cardinality(NewerThen) \in Nat
    BY <1>1, <1>2, CardOfNames
  <2> QED
    BY <1>0, <2>1 DEF Enough, Newer
<1>3. ASSUME NEW v \in Names, Enough(v), Newer(v) \subseteq NewerThen PROVE Enough(n)'
  <2>1. Cardinality(Newer(v)) <= Cardinality(NewerThen)
        /\ Cardinality(Newer(v)) \in Nat /\ Cardinality(NewerThen) \in Nat
    BY <1>1, <1>3, CardOfNames
  <2> QED
    BY <1>0, <1>3, <2>1 DEF Enough, Newer
<1>4. ASSUME NEW v \in Names, Enough(v), dirs' = dirs \ {v} PROVE Enough(n)'
  <2>1. CASE v[2] > n[2]
    <3>1. Newer(v) \subseteq NewerThen
      BY <1>0, <1>4, <2>1 DEF Newer
    <3> QED
      BY <1>3, <1>4, <3>1
  <2>2. CASE ~ (v[2] > n[2])
    <3>1. Newer(n) \subseteq NewerThen
      BY <1>4, <2>2 DEF Newer
    <3> QED
      BY <1>2, <3>1
  <2> QED
    BY <2>1, <2>2
<1>5. CASE dirs \subseteq dirs'
  BY <1>2, <1>5 DEF Newer
<1> QED
  BY <1>4, <1>5

(* How a step changes the set of directories.                                *)
LEMMA DirsStep ==
  ASSUME Typed, [Next]_vars
  PROVE  \/ dirs' = dirs
         \/ \E w \in Writer : Mkdir(w) /\ dirs' = dirs \cup {name[w]}
         \/ \E w \in Writer : RmdirOk(w) /\ dirs' = dirs \ {victim[w]}
<1>1. ASSUME NEW w \in Writer, Cleanup(w) \/ WriteDump(w)
      PROVE  Mkdir(w) \/ RmdirOk(w) \/ dirs' = dirs
  BY <1>1 DEF Cleanup, WriteDump, ReadDir, ReadDirFails, TTLNext, InfoFails, TTLDone,
     MaxNext, MaxDone, Emptied, Unlink, RemoveAllFails, MkdirFails, CreateFile,
     CreateFails, SyncFile, SyncFails, Return, disk
<1>2. ASSUME NEW w \in Writer, Crash(Service[w]) PROVE dirs' = dirs
  BY <1>2 DEF Crash, disk
<1> QED
  BY <1>1, <1>2, StepIsOfWriter DEF disk, Mkdir, RmdirOk

LEMMA EnoughStep ==
  ASSUME Typed, NewestInv, [Next]_vars, NEW n \in Names, Enough(n)
  PROVE  Enough(n)'
<1>1. ASSUME NEW w \in Writer, RmdirOk(w)
      PROVE  victim[w] \in Names /\ Enough(victim[w])
  BY <1>1 DEF RmdirOk, NewestInv, Spares, Typed, Locals, Removing
<1>2. dirs \subseteq dirs' \/ \E v \in Names : Enough(v) /\ dirs' = dirs \ {v}
  BY <1>1, DirsStep
<1> QED
  BY <1>2, EnoughStays, TypedStep

(* A list of a cleanup that only gets shorter stays good.                    *)
LEMMA SparesShorter ==
  ASSUME Typed, NewestInv, [Next]_vars, NEW w \in Writer, dumps'[w] \subseteq dumps[w],
         pc'[w] # "ttl",
         Removing(w)' => victim'[w] \in dumps'[w] /\ Enough(victim'[w])
  PROVE  Spares(w)'
<1>1. /\ dumps[w] \subseteq Names /\ MaxDumps \in Nat /\ victim[w] \in Names \cup {None}
      /\ victim'[w] \in Names \cup {None} /\ dumps'[w] \subseteq Names
  BY TypedStep, StoreAssumption DEF Typed, TypeOK
<1>2. ASSUME NEW n \in dumps'[w],
             Cardinality({m \in dumps'[w] : m[2] > n[2]}) >= MaxDumps - 1
      PROVE  Enough(n)'
  <2> DEFINE Then == {m \in dumps'[w] : m[2] > n[2]}
             Now == {m \in dumps[w] : m[2] > n[2]}
  <2>1. Now \in SUBSET Names /\ Then \in SUBSET Now
    BY <1>1
  <2>2. /\ Cardinality(Then) <= Cardinality(Now)
        /\ Cardinality(Then) \in Nat /\ Cardinality(Now) \in Nat
    BY <2>1, CardOfNames
  <2>3. Cardinality(Now) >= MaxDumps - 1
    BY <1>1, <1>2, <2>2
  <2>4. Enough(n) /\ n \in Names
    BY <1>1, <1>2, <2>3 DEF NewestInv, Spares
  <2> QED
    BY <2>4, EnoughStep
<1>3. ASSUME Removing(w)' PROVE victim'[w] \in dumps'[w] /\ Enough(victim[w])'
  <2>1. PICK v : v = victim'[w] /\ v \in Names /\ v \in dumps'[w] /\ Enough(v)
    BY <1>1, <1>3
  <2>2. Enough(v)'
    BY <2>1, EnoughStep
  <2> QED
    BY <2>1, <2>2 DEF Enough, Newer
<1> QED
  BY <1>2, <1>3 DEF Spares

OneService == DumpTTL = 0 /\ \A v, w \in Writer : Service[v] = Service[w]

(* Within a service the first directory of a list is the oldest: of a list   *)
(* of MaxDumps or more, at least MaxDumps - 1 are younger.                   *)
LEMMA OldestHasEnough ==
  ASSUME OneService, NEW S \in SUBSET Names, S # {}, Cardinality(S) >= MaxDumps
  PROVE  Cardinality({m \in S : m[2] > FirstOf(S)[2]}) >= MaxDumps - 1
<1> DEFINE f == FirstOf(S)
           Younger == {m \in S : m[2] > f[2]}
<1>1. f \in S /\ \A m \in S : m = f \/ Before(f, m)
  BY FirstExists
<1> HIDE DEF f
<1>2. \A m \in S : m[1] = f[1]
  BY <1>1 DEF OneService, Names
<1>3. \A m \in S : m[1] \in Nat /\ m[2] \in Int
  BY NameIsPair
<1>4. Younger = S \ {f}
  BY <1>1, <1>2, <1>3 DEF Before
<1>5. IsFiniteSet(S) /\ Cardinality(S) \in Nat /\ MaxDumps \in Nat
  BY CardOfNames, StoreAssumption
<1>6. Cardinality(S \ {f}) = Cardinality(S) - 1
  BY <1>1, <1>5, FS_RemoveElement
<1> HIDE DEF Younger
<1>7. Cardinality(Younger) >= MaxDumps - 1
  BY <1>4, <1>5, <1>6
<1> QED
  BY <1>7 DEF f, Younger

LEMMA NewestStep == OneService /\ Typed /\ NewestInv /\ [Next]_vars => NewestInv'
<1> SUFFICES ASSUME OneService, Typed, NewestInv, [Next]_vars, NEW v \in Writer PROVE Spares(v)'
  BY DEF NewestInv
<1>0. Typed' /\ Spares(v) /\ DumpTTL = 0
  BY TypedStep DEF NewestInv, OneService
<1>1. CASE Same(v)
  BY <1>0, <1>1, SparesShorter DEF Same, Spares, Removing
<1>2. ASSUME NEW w \in Writer, Crash(Service[w]) PROVE Spares(v)'
  <2>1. Same(v) \/ (pc'[v] = "idle" /\ dumps'[v] = {})
    BY <1>2, ForgottenOrSame DEF Crash
  <2> QED
    BY <1>1, <2>1 DEF Spares, Removing
<1>3. CASE Cleanup(v) \/ WriteDump(v)
  <2> USE <1>0 DEF Typed, TypeOK
  <2>1. CASE ReadDir(v)
    <3>1. /\ pc'[v] = "max" /\ dumps'[v] = dirs /\ dirs' = dirs
      BY <2>1 DEF ReadDir, Goto, disk
    <3> QED
      BY <3>1 DEF Spares, Removing, Enough, Newer
  <2>2. CASE TTLNext(v) \/ InfoFails(v) \/ TTLDone(v)
    BY <2>2 DEF TTLNext, InfoFails, TTLDone, Spares
  <2>3. CASE MaxNext(v)
    <3> DEFINE f == FirstOf(dumps[v])
    <3>1. /\ pc'[v] = "unlink" /\ victim'[v] = f /\ dumps'[v] = dumps[v]
          /\ Cardinality(dumps[v]) >= MaxDumps /\ MaxDumps > 0
      BY <2>3 DEF MaxNext, TooMany, StartRemoval, Goto
    <3>2. dumps[v] # {} /\ dumps[v] \in SUBSET Names
      <4>1. Cardinality(dumps[v]) # 0
        BY <3>1, StoreAssumption
      <4> QED
        BY <4>1, FS_EmptySet
    <3>3. f \in dumps[v] /\ Cardinality({m \in dumps[v] : m[2] > f[2]}) >= MaxDumps - 1
      BY <3>1, <3>2, OldestHasEnough, FirstExists
    <3> HIDE DEF f
    <3>4. Enough(f)
      BY <3>3 DEF Spares
    <3> QED
      BY <3>1, <3>3, <3>4, SparesShorter
  <2>4. CASE MaxDone(v) \/ ReadDirFails(v)
    BY <2>4, SparesShorter DEF MaxDone, ReadDirFails, TakeName, Goto, Removing
  <2>5. CASE Unlink(v) \/ Emptied(v)
    BY <2>5, SparesShorter DEF Unlink, Emptied, local, Goto, Removing, Spares
  <2>6. ASSUME NEW ok \in BOOLEAN, pc[v] \in {"unlink", "rmdir"}, AfterRemoval(v, ok)
        PROVE  Spares(v)'
    <3>1. victim[v] \in dumps[v]
      BY <2>6 DEF Spares, Removing
    <3>2. dumps'[v] \subseteq dumps[v] /\ pc'[v] \in {"max", "mkdir"}
      <4>1. CASE ok
        BY <2>6, <3>1, <4>1 DEF AfterRemoval, Goto
      <4>2. CASE ~ok
        BY <2>6, <3>1, <4>2 DEF AfterRemoval, TakeName, Goto
      <4> QED
        BY <4>1, <4>2
    <3> QED
      BY <3>2, SparesShorter DEF Removing
  <2>7. CASE RmdirOk(v) \/ RemoveAllFails(v)
    BY <2>6, <2>7 DEF RmdirOk, RemoveAllFails
  <2>8. CASE WriteDump(v)
    <3>1. dumps'[v] \subseteq dumps[v] /\ pc'[v] \in {"idle", "write", "sync", "done"}
      BY <2>8 DEF WriteDump, Mkdir, MkdirFails, CreateFile, CreateFails, SyncFile,
         SyncFails, Return, LeaveDump, Forget, NextFile, Goto
    <3> QED
      BY <3>1, SparesShorter DEF Removing
  <2> HIDE DEF Typed, TypeOK
  <2> QED
    BY <1>3, <2>1, <2>2, <2>3, <2>4, <2>5, <2>7, <2>8 DEF Cleanup
<1>4. CASE UNCHANGED <<disk, local, begun, doomed, counters>>
  BY <1>1, <1>4 DEF local, Same
<1> QED
  BY <1>1, <1>2, <1>3, <1>4, LocalsOfOthers, StepIsOfWriter

Gone(n, k) == file[n][k] # "none" /\ file'[n][k] = "none"

(* A file that is written does not disappear by that.                        *)
LEMMA OnlyRemovalsLose ==
  ASSUME Typed, [Next]_vars, NEW n \in dirs,
         n \notin dirs' \/ \E k \in Files : Gone(n, k)
  PROVE  \E w \in Writer : Removing(w) /\ victim[w] = n
<1>1. n \in Names /\ "none" \notin Writer
  BY NoneAssumption DEF Typed, TypeOK
<1>2. CASE n \notin dirs'
  BY <1>2, DirsStep DEF RmdirOk, Removing
<1>3. ASSUME file' # file PROVE \E w \in Writer : Unlink(w) \/ CreateFile(w) \/ SyncFile(w)
  <2>1. ASSUME NEW w \in Writer, Cleanup(w) \/ WriteDump(w)
        PROVE  Unlink(w) \/ CreateFile(w) \/ SyncFile(w)
    BY <1>3, <2>1 DEF Cleanup, WriteDump, ReadDir, ReadDirFails, TTLNext, InfoFails,
       TTLDone, MaxNext, MaxDone, Emptied, RmdirOk, RemoveAllFails, Mkdir,
       MkdirFails, CreateFails, SyncFails, Return, disk
  <2>2. ASSUME NEW w \in Writer, Crash(Service[w]) PROVE FALSE
    BY <1>3, <2>2 DEF Crash, disk
  <2> QED
    BY <1>3, <2>1, <2>2, StepIsOfWriter DEF disk
<1>4. ASSUME NEW w \in Writer, NEW k \in Files, Gone(n, k), CreateFile(w) \/ SyncFile(w)
      PROVE  FALSE
  <2>1. name[w] \in Names /\ next[w] \in Files
    BY <1>4 DEF CreateFile, SyncFile, Typed, Locals, Writing
  <2>2. PICK content :
          /\ file' = [file EXCEPT ![name[w]][next[w]] = content]
          /\ content = "none" => file[name[w]][next[w]] = "none"
    BY <1>1, <1>4 DEF CreateFile, SyncFile
  <2>3. file'[n][k] = file[n][k] \/ (name[w] = n /\ next[w] = k /\ file'[n][k] = content)
    BY <1>1, <1>4, <2>1, <2>2 DEF Typed, TypeOK
  <2> QED
    BY <1>4, <2>2, <2>3 DEF Gone
<1>5. ASSUME NEW w \in Writer, Unlink(w), NEW k \in Files, Gone(n, k)
      PROVE  Removing(w) /\ victim[w] = n
  BY <1>1, <1>5 DEF Unlink, Removing, Gone, Typed, TypeOK
<1>6. ASSUME NEW k \in Files, Gone(n, k) PROVE file' # file
  BY <1>6 DEF Gone
<1> QED
  BY <1>2, <1>3, <1>4, <1>5, <1>6

(* cleanup.go, the MaxDumps phase: however many writers run it at once on     *)
(* lists that are out of date, none of the newest MaxDumps - 1 dumps of a    *)
(* service is touched.                                                       *)
THEOREM NewestSpared == OneService => (Spec => NewestKept)
<1> SUFFICES ASSUME OneService PROVE Spec => NewestKept
  OBVIOUS
<1>1. Init => NewestInv
  BY DEF Init, NewestInv, Spares, Removing
<1>2. Typed /\ NewestInv /\ [Next]_vars =>
        [\A n \in dirs : n \notin dirs' \/ (\E k \in Files : Gone(n, k))
           => Cardinality(Newer(n)) >= MaxDumps - 1]_vars
  BY OnlyRemovalsLose DEF NewestInv, Spares, Enough
<1> QED
  BY <1>1, <1>2, TypedInit, TypedStep, NewestStep, PTL DEF Spec, NewestKept, Gone

-----------------------------------------------------------------------------
(* Why DirsBounded holds.  Number the cleanups in the order of their ReadDir *)
(* (t), and let T be where the last of them stood, in this order, that found *)
(* room.  The writers ahead of k are those about to make their directory and *)
(* those that listed the disk before k; each may add one directory.  What T  *)
(* found room for, and what a later cleanup has on its list, already allows  *)
(* for the writers ahead.  The numbers are not part of the program: some     *)
(* choice of them exists in every state.                                     *)
Ahead(t, k) == {u \in Writer : pc[u] = "mkdir" \/ (Cleaning(u) /\ t[u] < k)}

\* The directories that this cleanup does not know of.
Unseen(w) == dirs \ (todo[w] \cup dumps[w] \cup {victim[w]})

Slack == Cardinality(Writer) - 1 + faults + foiled

Order(t, T, N) ==
  /\ t \in [Writer -> Nat] /\ T \in Nat /\ N \in Nat /\ T < N
  /\ \A u \in Writer : Cleaning(u) => t[u] < N /\ t[u] # T
  /\ \A u, v \in Writer : Cleaning(u) /\ Cleaning(v) /\ u # v => t[u] # t[v]
  /\ Cardinality(dirs) + Cardinality(Ahead(t, T)) <= MaxDumps + Slack
  /\ \A w \in Writer : Cleaning(w) /\ t[w] > T =>
       Cardinality(Unseen(w)) + Cardinality(Ahead(t, t[w])) <= Slack

OrderInv == MaxDumps > 0 /\ foiled < MaxFoiled => \E t, T, N : Order(t, T, N)

LEMMA CardOfWriters ==
  ASSUME NEW S \in SUBSET Writer
  PROVE  /\ IsFiniteSet(S) /\ Cardinality(S) \in Nat
         /\ Cardinality(Writer) \in Nat /\ Cardinality(Writer) >= 1
<1>1. IsFiniteSet(S) /\ Cardinality(S) \in Nat /\ Cardinality(Writer) \in Nat
  BY StoreAssumption, FS_Subset, FS_CardinalityType
<1>2. Cardinality(Writer) # 0
  BY StoreAssumption, FS_EmptySet
<1> QED
  BY <1>1, <1>2

LEMMA CardOfAhead ==
  ASSUME NEW t, NEW k
  PROVE  /\ IsFiniteSet(Ahead(t, k)) /\ Cardinality(Ahead(t, k)) \in Nat
         /\ IsFiniteSet(Ahead(t, k)') /\ Cardinality(Ahead(t, k)') \in Nat
BY CardOfWriters DEF Ahead

LEMMA CardOfUnseen ==
  ASSUME Typed, Typed', NEW w \in Writer
  PROVE  /\ IsFiniteSet(dirs) /\ IsFiniteSet(dirs') /\ IsFiniteSet(Unseen(w)) /\ IsFiniteSet(Unseen(w)')
         /\ Cardinality(dirs) \in Nat /\ Cardinality(dirs') \in Nat
         /\ Cardinality(Unseen(w)) \in Nat /\ Cardinality(Unseen(w)') \in Nat
<1>1. dirs \in SUBSET Names /\ dirs' \in SUBSET Names
  BY DEF Typed, TypeOK
<1>2. Unseen(w) \subseteq dirs /\ Unseen(w)' \subseteq dirs'
  BY DEF Unseen
<1> QED
  BY <1>1, <1>2, CardOfNames

LEMMA CardPlusOne ==
  ASSUME NEW S, IsFiniteSet(S), NEW x, NEW T \in SUBSET (S \cup {x})
  PROVE  Cardinality(T) <= Cardinality(S) + 1
<1>1. IsFiniteSet(S \cup {x}) /\ Cardinality(S \cup {x}) <= Cardinality(S) + 1
      /\ Cardinality(S) \in Nat
  BY FS_AddElement, FS_CardinalityType
<1>2. /\ Cardinality(T) <= Cardinality(S \cup {x}) /\ Cardinality(T) \in Nat
      /\ Cardinality(S \cup {x}) \in Nat
  BY <1>1, CardOfSubset
<1> QED
  BY <1>1, <1>2

LEMMA CardMinusOne ==
  ASSUME NEW S, IsFiniteSet(S), NEW x \in S, NEW T \in SUBSET (S \ {x})
  PROVE  Cardinality(T) <= Cardinality(S) - 1
<1>1. IsFiniteSet(S \ {x}) /\ Cardinality(S \ {x}) = Cardinality(S) - 1
  BY FS_RemoveElement
<1>2. Cardinality(T) <= Cardinality(S \ {x})
  BY <1>1, CardOfSubset
<1> QED
  BY <1>1, <1>2

(* The numbers may stay if the directories grow by x, the writers ahead by y *)
(* and the errors by x + y.                                                  *)
LEMMA OrderKept ==
  ASSUME Typed, Typed', NEW t, NEW T, NEW N, Order(t, T, N),
         NEW x \in Int, NEW y \in Int, Slack + x + y <= Slack', Slack \in Int, Slack' \in Int,
         Cardinality(dirs') <= Cardinality(dirs) + x,
         \A k \in Nat : k >= T => Cardinality(Ahead(t, k)') <= Cardinality(Ahead(t, k)) + y,
         \A v \in Writer : Cleaning(v)' =>
           Cleaning(v) /\ Cardinality(Unseen(v)') <= Cardinality(Unseen(v)) + x
  PROVE  Order(t, T, N)'
<1>0. t \in [Writer -> Nat] /\ T \in Nat /\ MaxDumps \in Nat
  BY StoreAssumption DEF Order
<1>1. Cardinality(dirs') + Cardinality(Ahead(t, T)') <= MaxDumps + Slack'
  <2>1. /\ Cardinality(dirs) \in Nat /\ Cardinality(dirs') \in Nat
        /\ Cardinality(Ahead(t, T)) \in Nat /\ Cardinality(Ahead(t, T)') \in Nat
    BY CardOfUnseen, CardOfAhead, StoreAssumption
  <2>2. /\ Cardinality(dirs) + Cardinality(Ahead(t, T)) <= MaxDumps + Slack
        /\ Cardinality(Ahead(t, T)') <= Cardinality(Ahead(t, T)) + y
    BY <1>0 DEF Order
  <2> QED
    BY <1>0, <2>1, <2>2
<1>2. ASSUME NEW w \in Writer, Cleaning(w)', t[w] > T
      PROVE  Cardinality(Unseen(w)') + Cardinality(Ahead(t, t[w])') <= Slack'
  <2>1. /\ Cardinality(Unseen(w)) \in Nat /\ Cardinality(Unseen(w)') \in Nat
        /\ Cardinality(Ahead(t, t[w])) \in Nat /\ Cardinality(Ahead(t, t[w])') \in Nat
    BY CardOfUnseen, CardOfAhead
  <2>2. /\ Cardinality(Unseen(w)) + Cardinality(Ahead(t, t[w])) <= Slack
        /\ Cardinality(Unseen(w)') <= Cardinality(Unseen(w)) + x
    BY <1>2 DEF Order
  <2>3. Cardinality(Ahead(t, t[w])') <= Cardinality(Ahead(t, t[w])) + y
    BY <1>0, <1>2
  <2> QED
    BY <2>1, <2>2, <2>3
<1> QED
  BY <1>1, <1>2 DEF Order

LEMMA SlackGrows ==
  ASSUME Typed, [Next]_vars
  PROVE  /\ Slack \in Int /\ Slack' \in Int /\ Slack <= Slack'
         /\ \A w \in Writer : foiled' < MaxFoiled /\ (RemoveAllFails(w) \/ ReadDirFails(w))
              => Slack + 1 <= Slack'
<1>1. /\ Cardinality(Writer) \in Nat /\ faults \in Nat /\ foiled \in Nat
      /\ faults' \in Nat /\ foiled' \in Nat /\ faults' >= faults /\ foiled' >= foiled
      /\ MaxFoiled \in Nat
  BY CardOfWriters, ErrorsGrow, StoreAssumption
<1>2. ASSUME NEW w \in Writer, RemoveAllFails(w) \/ ReadDirFails(w), foiled' < MaxFoiled
      PROVE  Slack + 1 <= Slack'
  <2>1. CASE Foiled
    BY <1>1, <1>2, <2>1 DEF Foiled, Slack
  <2>2. CASE Fault
    BY <1>1, <2>2 DEF Fault, Slack
  <2> QED
    BY <1>2, <2>1, <2>2 DEF RemoveAllFails, ReadDirFails
<1>3. Slack \in Int /\ Slack' \in Int /\ Slack <= Slack'
  BY <1>1 DEF Slack
<1> QED
  BY <1>2, <1>3

(* Steps that add neither a directory nor a writer ahead.                    *)
LEMMA OrderFrame ==
  ASSUME Typed, [Next]_vars, NEW t, NEW T, NEW N, Order(t, T, N), dirs' \subseteq dirs,
         \A v \in Writer : /\ pc'[v] = "mkdir" => pc[v] = "mkdir"
                           /\ Cleaning(v)' => Cleaning(v) /\ Unseen(v)' \subseteq Unseen(v)
  PROVE  Order(t, T, N)'
<1>1. Typed' /\ Slack \in Int /\ Slack' \in Int /\ Slack <= Slack'
  BY TypedStep, SlackGrows
<1>2. Cardinality(dirs') <= Cardinality(dirs)
  <2>1. IsFiniteSet(dirs)
    BY <1>1, CardOfUnseen, StoreAssumption
  <2> QED
    BY <2>1, CardOfSubset
<1>3. \A k \in Nat : Cardinality(Ahead(t, k)') <= Cardinality(Ahead(t, k))
  <2>1. \A k \in Nat : Ahead(t, k)' \subseteq Ahead(t, k)
    BY DEF Ahead
  <2> QED
    BY <2>1, CardOfAhead, CardOfSubset
<1>4. \A v \in Writer : Cleaning(v)' => Cardinality(Unseen(v)') <= Cardinality(Unseen(v))
  BY <1>1, CardOfUnseen, CardOfSubset
<1>5. /\ Slack + 0 + 0 <= Slack' /\ Cardinality(dirs') <= Cardinality(dirs) + 0
      /\ \A k \in Nat : k >= T => Cardinality(Ahead(t, k)') <= Cardinality(Ahead(t, k)) + 0
      /\ \A v \in Writer : Cleaning(v)' =>
           Cleaning(v) /\ Cardinality(Unseen(v)') <= Cardinality(Unseen(v)) + 0
  BY <1>1, <1>2, <1>3, <1>4, CardOfAhead, CardOfUnseen, StoreAssumption
<1> QED
  BY <1>1, <1>5, OrderKept

(* A cleanup that begins knows of every directory, and is behind all others. *)
LEMMA OrderReadDir ==
  ASSUME Typed, [Next]_vars, NEW t, NEW T, NEW N, Order(t, T, N), NEW w \in Writer, ReadDir(w)
  PROVE  Order([t EXCEPT ![w] = N], T, N + 1)'
<1> DEFINE t1 == [t EXCEPT ![w] = N]
<1>0. /\ Typed' /\ t \in [Writer -> Nat] /\ T \in Nat /\ N \in Nat /\ T < N
      /\ t1 \in [Writer -> Nat] /\ t1[w] = N /\ \A v \in Writer : v # w => t1[v] = t[v]
  BY TypedStep DEF Order
<1>1. /\ dirs' = dirs /\ pc[w] = "idle" /\ Cleaning(w)' /\ pc'[w] # "mkdir"
      /\ \A v \in Writer : v # w => pc'[v] = pc[v] /\ Unseen(v)' = Unseen(v)
      /\ todo'[w] \cup dumps'[w] = dirs
      /\ Slack' = Slack /\ Slack \in Int
  BY SlackGrows DEF ReadDir, Goto, Cleaning, Unseen, Slack, counters, disk, Typed, TypeOK
<1> HIDE DEF t1
<1>2. \A v \in Writer : v # w => (Cleaning(v)' <=> Cleaning(v))
  BY <1>1 DEF Cleaning
<1>3. ASSUME NEW k \in Nat, k <= N PROVE Ahead(t1, k)' \subseteq Ahead(t, k)
  BY <1>0, <1>1, <1>2, <1>3 DEF Ahead
<1>4. ASSUME NEW k \in Nat, k <= N PROVE Cardinality(Ahead(t1, k)') <= Cardinality(Ahead(t, k))
  BY <1>3, <1>4, CardOfAhead, CardOfSubset
<1>5. Cardinality(dirs') + Cardinality(Ahead(t1, T)') <= MaxDumps + Slack'
  <2>1. /\ Cardinality(dirs) \in Nat /\ MaxDumps \in Nat
        /\ Cardinality(Ahead(t, T)) \in Nat /\ Cardinality(Ahead(t1, T)') \in Nat
    BY <1>0, CardOfUnseen, CardOfAhead, StoreAssumption
  <2>2. Cardinality(Ahead(t1, T)') <= Cardinality(Ahead(t, T))
    BY <1>0, <1>4
  <2>3. Cardinality(dirs) + Cardinality(Ahead(t, T)) <= MaxDumps + Slack
    BY DEF Order
  <2> QED
    BY <1>1, <2>1, <2>2, <2>3
<1>6. ASSUME NEW v \in Writer, Cleaning(v)', t1[v] > T
      PROVE  Cardinality(Unseen(v)') + Cardinality(Ahead(t1, t1[v])') <= Slack'
  <2>1. CASE v = w
    <3>1. Unseen(w)' = {}
      BY <1>1 DEF Unseen
    <3>2. Ahead(t1, N)' \subseteq Writer \ {w}
      BY <1>0, <1>1 DEF Ahead
    <3>3. Cardinality(Ahead(t1, N)') <= Cardinality(Writer) - 1
      BY <3>2, CardMinusOne, StoreAssumption
    <3>4. Cardinality(Unseen(w)') = 0
      BY <3>1, FS_EmptySet
    <3>5. /\ faults \in Nat /\ foiled \in Nat /\ Cardinality(Writer) \in Nat
          /\ Cardinality(Ahead(t1, N)') \in Nat
      BY ErrorsGrow, CardOfWriters, CardOfAhead
    <3>6. Cardinality(Writer) - 1 <= Slack'
      BY <1>1, <3>5 DEF Slack
    <3>7. t1[v] = N
      BY <1>0, <2>1
    <3> QED
      BY <1>1, <2>1, <3>3, <3>4, <3>5, <3>6, <3>7
  <2>2. CASE v # w
    <3>1. Cleaning(v) /\ t1[v] = t[v] /\ t[v] \in Nat /\ t[v] <= N
      BY <1>0, <1>2, <1>6, <2>2 DEF Order
    <3>2. Cardinality(Unseen(v)) + Cardinality(Ahead(t, t[v])) <= Slack
      BY <1>6, <3>1 DEF Order
    <3>3. Cardinality(Ahead(t1, t[v])') <= Cardinality(Ahead(t, t[v]))
      BY <1>4, <3>1
    <3>4. /\ Cardinality(Unseen(v)) \in Nat /\ Cardinality(Ahead(t, t[v])) \in Nat
          /\ Cardinality(Ahead(t1, t[v])') \in Nat
      BY <1>0, CardOfUnseen, CardOfAhead
    <3> QED
      BY <1>1, <2>2, <3>1, <3>2, <3>3, <3>4
  <2> QED
    BY <2>1, <2>2
<1>7. \A u \in Writer : Cleaning(u)' => t1[u] < N + 1 /\ t1[u] # T
  <2>1. ASSUME NEW u \in Writer, Cleaning(u)', u # w PROVE t[u] < N /\ t[u] # T /\ t[u] \in Nat
    BY <1>0, <1>2, <2>1 DEF Order
  <2> QED
    BY <1>0, <2>1
<1>8. \A u, v \in Writer : Cleaning(u)' /\ Cleaning(v)' /\ u # v => t1[u] # t1[v]
  <2>1. ASSUME NEW u \in Writer, Cleaning(u)', u # w PROVE t1[u] # N /\ Cleaning(u) /\ t1[u] = t[u]
    BY <1>0, <1>2, <2>1 DEF Order
  <2> QED
    BY <1>0, <2>1 DEF Order
<1>9. Order(t1, T, N + 1)'
  BY <1>0, <1>5, <1>6, <1>7, <1>8 DEF Order
<1> QED
  BY <1>9 DEF t1

(* A cleanup that finds room counts what it knows of.                        *)
LEMMA OrderMaxDone ==
  ASSUME Typed, [Next]_vars, MaxDumps > 0, NEW t, NEW T, NEW N, Order(t, T, N),
         NEW w \in Writer, MaxDone(w)
  PROVE  Order(t, T, N)' \/ Order(t, t[w], N)'
<1>0. /\ Typed' /\ t \in [Writer -> Nat] /\ T \in Nat /\ N \in Nat /\ T < N
      /\ Cleaning(w) /\ t[w] # T /\ t[w] < N
  BY TypedStep DEF Order, MaxDone, Cleaning
<1>1. /\ dirs' = dirs /\ pc[w] = "max" /\ pc'[w] = "mkdir"
      /\ \A v \in Writer : v # w => pc'[v] = pc[v] /\ Unseen(v)' = Unseen(v)
      /\ Slack' = Slack /\ Slack \in Int /\ MaxDumps \in Nat
  BY SlackGrows, StoreAssumption
  DEF MaxDone, TakeName, Goto, Unseen, Slack, counters, disk, Typed, TypeOK
<1>2. /\ ~ Cleaning(w)'
      /\ \A v \in Writer : v # w => (Cleaning(v)' <=> Cleaning(v))
  BY <1>1 DEF Cleaning
<1>3. ASSUME NEW k \in Nat, k > t[w] PROVE Ahead(t, k)' = Ahead(t, k)
  BY <1>0, <1>1, <1>2, <1>3 DEF Ahead
<1>4. CASE t[w] < T
  <2>1. /\ Slack + 0 + 0 <= Slack' /\ Slack' \in Int
        /\ Cardinality(dirs') <= Cardinality(dirs) + 0
    BY <1>0, <1>1, CardOfUnseen
  <2>2. \A k \in Nat : k >= T => Cardinality(Ahead(t, k)') <= Cardinality(Ahead(t, k)) + 0
    BY <1>0, <1>3, <1>4, CardOfAhead
  <2>3. \A v \in Writer : Cleaning(v)' =>
          Cleaning(v) /\ Cardinality(Unseen(v)') <= Cardinality(Unseen(v)) + 0
    BY <1>0, <1>1, <1>2, CardOfUnseen
  <2> QED
    BY <1>0, <1>1, <2>1, <2>2, <2>3, OrderKept
<1>5. CASE t[w] > T
  <2>1. Cardinality(Unseen(w)) + Cardinality(Ahead(t, t[w])) <= Slack
    BY <1>0, <1>5 DEF Order
  <2>2. Cardinality(dumps[w]) <= MaxDumps - 1 /\ Cardinality(dumps[w]) \in Nat /\ IsFiniteSet(dumps[w])
    <3>1. dumps[w] \in SUBSET Names
      BY DEF Typed, TypeOK
    <3>2. IsFiniteSet(dumps[w]) /\ Cardinality(dumps[w]) \in Nat
      BY <3>1, CardOfNames
    <3> QED
      BY <1>1, <3>2 DEF MaxDone, TooMany
  <2>3. Cardinality(dirs) <= Cardinality(Unseen(w)) + Cardinality(dumps[w])
    <3>1. dirs \subseteq Unseen(w) \cup dumps[w]
      BY <1>1, NoneAssumption DEF Unseen, Typed, TypeOK, Locals, Removing
    <3>2. IsFiniteSet(Unseen(w)) /\ Cardinality(Unseen(w)) \in Nat
      BY <1>0, CardOfUnseen
    <3>3. /\ IsFiniteSet(Unseen(w) \cup dumps[w])
          /\ Cardinality(Unseen(w) \cup dumps[w]) <= Cardinality(Unseen(w)) + Cardinality(dumps[w])
      <4>1. Cardinality(Unseen(w) \cap dumps[w]) \in Nat
        BY <2>2, <3>2, FS_Intersection, FS_CardinalityType
      <4>2. /\ IsFiniteSet(Unseen(w) \cup dumps[w])
            /\ Cardinality(Unseen(w) \cup dumps[w]) =
                 Cardinality(Unseen(w)) + Cardinality(dumps[w]) - Cardinality(Unseen(w) \cap dumps[w])
        BY <2>2, <3>2, FS_Union
      <4> QED
        BY <2>2, <3>2, <4>1, <4>2
    <3>4. /\ Cardinality(dirs) <= Cardinality(Unseen(w) \cup dumps[w])
          /\ Cardinality(dirs) \in Nat /\ Cardinality(Unseen(w) \cup dumps[w]) \in Nat
      BY <3>1, <3>3, CardOfSubset
    <3> QED
      BY <2>2, <3>2, <3>3, <3>4
  <2>4. Cardinality(Ahead(t, t[w])') <= Cardinality(Ahead(t, t[w])) + 1
    <3>1. Ahead(t, t[w])' \subseteq Ahead(t, t[w]) \cup {w}
      BY <1>0, <1>1, <1>2 DEF Ahead
    <3> QED
      BY <3>1, CardOfAhead, CardPlusOne
  <2>5. Cardinality(dirs') + Cardinality(Ahead(t, t[w])') <= MaxDumps + Slack'
    <3>1. /\ Cardinality(Unseen(w)) \in Nat /\ Cardinality(dirs) \in Nat
          /\ Cardinality(Ahead(t, t[w])) \in Nat /\ Cardinality(Ahead(t, t[w])') \in Nat
      BY <1>0, CardOfUnseen, CardOfAhead
    <3> QED
      BY <1>1, <2>1, <2>2, <2>3, <2>4, <3>1
  <2>6. ASSUME NEW v \in Writer, Cleaning(v)', t[v] > t[w]
        PROVE  Cardinality(Unseen(v)') + Cardinality(Ahead(t, t[v])') <= Slack'
    <3>1. v # w /\ Cleaning(v) /\ t[v] > T /\ Ahead(t, t[v])' = Ahead(t, t[v])
      BY <1>0, <1>2, <1>3, <1>5, <2>6
    <3> QED
      BY <1>1, <3>1 DEF Order
  <2>7. \A u \in Writer : Cleaning(u)' => u # w /\ Cleaning(u)
    BY <1>2
  <2> DEFINE T1 == t[w]
  <2>8. /\ \A u \in Writer : Cleaning(u)' => t[u] < N /\ t[u] # T1
        /\ \A u, v \in Writer : Cleaning(u)' /\ Cleaning(v)' /\ u # v => t[u] # t[v]
    BY <1>0, <2>7 DEF Order
  <2>9. T1 \in Nat /\ T1 < N
    BY <1>0
  <2> QED
    BY <1>0, <2>5, <2>6, <2>8, <2>9 DEF Order
<1> QED
  BY <1>0, <1>4, <1>5

(* A removal that fails: the phase of DumpTTL forgets a directory that is    *)
(* still there, the phase of MaxDumps goes on as if it had found room.       *)
LEMMA OrderRemovalFails ==
  ASSUME Typed, [Next]_vars, foiled' < MaxFoiled, NEW t, NEW T, NEW N, Order(t, T, N),
         NEW w \in Writer, RemoveAllFails(w)
  PROVE  Order(t, T, N)'
<1>0. /\ Typed' /\ t \in [Writer -> Nat] /\ Slack \in Int /\ Slack' \in Int /\ Slack + 1 <= Slack'
  BY TypedStep, SlackGrows DEF Order
<1>1. /\ dirs' = dirs /\ todo' = todo /\ Removing(w) /\ Cleaning(w)
      /\ \A v \in Writer : v # w => pc'[v] = pc[v] /\ Unseen(v)' = Unseen(v)
  <2>1. \A v \in Writer \ {w} : Same(v)
    BY RemovalOfOthers DEF RemoveAllFails
  <2> QED
    BY <2>1 DEF Same, Unseen, RemoveAllFails, disk, Cleaning, Removing
<1>2. \A v \in Writer : v # w => (Cleaning(v)' <=> Cleaning(v))
  BY <1>1 DEF Cleaning
<1>3. CASE victim[w] \in dumps[w]
  <2>1. pc'[w] = "mkdir"
    BY <1>3 DEF RemoveAllFails, AfterRemoval, TakeName, Goto, Typed, TypeOK
  <2>2. ASSUME NEW k PROVE Cardinality(Ahead(t, k)') <= Cardinality(Ahead(t, k)) + 1
    <3>1. Ahead(t, k)' \subseteq Ahead(t, k) \cup {w}
      BY <1>1, <1>2 DEF Ahead
    <3> QED
      BY <3>1, CardOfAhead, CardPlusOne
  <2>3. /\ Slack + 0 + 1 <= Slack' /\ Cardinality(dirs') <= Cardinality(dirs) + 0
        /\ \A v \in Writer : Cleaning(v)' =>
             Cleaning(v) /\ Cardinality(Unseen(v)') <= Cardinality(Unseen(v)) + 0
    BY <1>0, <1>1, <1>2, <2>1, CardOfUnseen DEF Cleaning
  <2> QED
    BY <1>0, <2>2, <2>3, OrderKept
<1>4. CASE victim[w] \notin dumps[w]
  <2>1. pc'[w] = "ttl" /\ Unseen(w)' \subseteq Unseen(w) \cup {victim[w]}
    BY <1>1, <1>4 DEF RemoveAllFails, AfterRemoval, Goto, Unseen, Typed, TypeOK
  <2>2. Cardinality(Unseen(w)') <= Cardinality(Unseen(w)) + 1
    BY <1>0, <2>1, CardOfUnseen, CardPlusOne
  <2>3. ASSUME NEW k PROVE Cardinality(Ahead(t, k)') <= Cardinality(Ahead(t, k)) + 0
    <3>1. Ahead(t, k)' \subseteq Ahead(t, k)
      BY <1>1, <1>2, <2>1 DEF Ahead
    <3>2. /\ Cardinality(Ahead(t, k)') <= Cardinality(Ahead(t, k))
          /\ Cardinality(Ahead(t, k)) \in Nat
      BY <3>1, CardOfAhead, CardOfSubset
    <3> QED
      BY <3>2
  <2>4. \A v \in Writer : Cleaning(v)' =>
          Cleaning(v) /\ Cardinality(Unseen(v)') <= Cardinality(Unseen(v)) + 1
    BY <1>0, <1>1, <1>2, <2>2, CardOfUnseen
  <2>5. Slack + 1 + 0 <= Slack' /\ Cardinality(dirs') <= Cardinality(dirs) + 1
    BY <1>0, <1>1, CardOfUnseen
  <2> QED
    BY <1>0, <2>3, <2>4, <2>5, OrderKept
<1> QED
  BY <1>3, <1>4

(* Without a list, a writer goes on as if it had found room.                 *)
LEMMA OrderReadDirFails ==
  ASSUME Typed, [Next]_vars, foiled' < MaxFoiled, NEW t, NEW T, NEW N, Order(t, T, N),
         NEW w \in Writer, ReadDirFails(w)
  PROVE  Order(t, T, N)'
<1>0. /\ Typed' /\ t \in [Writer -> Nat] /\ Slack \in Int /\ Slack' \in Int /\ Slack + 1 <= Slack'
  BY TypedStep, SlackGrows DEF Order
<1>1. /\ dirs' = dirs /\ pc'[w] = "mkdir"
      /\ \A v \in Writer : v # w => pc'[v] = pc[v] /\ Unseen(v)' = Unseen(v)
  BY DEF ReadDirFails, TakeName, Goto, Unseen, disk, Typed, TypeOK
<1>2. \A v \in Writer : Cleaning(v)' => v # w /\ Cleaning(v)
  BY <1>1 DEF Cleaning
<1>3. ASSUME NEW k PROVE Cardinality(Ahead(t, k)') <= Cardinality(Ahead(t, k)) + 1
  <2>1. Ahead(t, k)' \subseteq Ahead(t, k) \cup {w}
    BY <1>1, <1>2 DEF Ahead
  <2> QED
    BY <2>1, CardOfAhead, CardPlusOne
<1>4. /\ Slack + 0 + 1 <= Slack' /\ Cardinality(dirs') <= Cardinality(dirs) + 0
      /\ \A v \in Writer : Cleaning(v)' =>
           Cleaning(v) /\ Cardinality(Unseen(v)') <= Cardinality(Unseen(v)) + 0
  BY <1>0, <1>1, <1>2, CardOfUnseen
<1> QED
  BY <1>0, <1>3, <1>4, OrderKept

(* The new directory takes the place that its writer had ahead.              *)
LEMMA OrderMkdir ==
  ASSUME Typed, [Next]_vars, NEW t, NEW T, NEW N, Order(t, T, N), NEW w \in Writer, Mkdir(w)
  PROVE  Order(t, T, N)'
<1>0. Typed' /\ t \in [Writer -> Nat] /\ Slack \in Int /\ Slack' \in Int /\ Slack <= Slack'
  BY TypedStep, SlackGrows DEF Order
<1>1. /\ dirs' = dirs \cup {name[w]} /\ pc[w] = "mkdir" /\ pc'[w] = "write"
      /\ \A v \in Writer : v # w => pc'[v] = pc[v]
      /\ \A v \in Writer : Unseen(v)' \subseteq Unseen(v) \cup {name[w]}
  BY DEF Mkdir, Goto, Unseen, Typed, TypeOK
<1>2. \A v \in Writer : Cleaning(v)' => Cleaning(v)
  BY <1>1 DEF Cleaning
<1>3. ASSUME NEW k PROVE Cardinality(Ahead(t, k)') <= Cardinality(Ahead(t, k)) + (-1)
  <2>1. w \in Ahead(t, k) /\ Ahead(t, k)' \subseteq Ahead(t, k) \ {w}
    BY <1>1 DEF Ahead, Cleaning
  <2>2. Cardinality(Ahead(t, k)') <= Cardinality(Ahead(t, k)) - 1
        /\ Cardinality(Ahead(t, k)) \in Nat
    BY <2>1, CardOfAhead, CardMinusOne
  <2> QED
    BY <2>2
<1>4. Cardinality(dirs') <= Cardinality(dirs) + 1
  BY <1>0, <1>1, CardOfUnseen, CardPlusOne
<1>5. \A v \in Writer : Cardinality(Unseen(v)') <= Cardinality(Unseen(v)) + 1
  BY <1>0, <1>1, CardOfUnseen, CardPlusOne
<1>6. Slack + 1 + (-1) <= Slack'
  BY <1>0
<1> QED
  BY <1>0, <1>2, <1>3, <1>4, <1>5, <1>6, OrderKept

LEMMA OrderStep == Typed /\ OrderInv /\ [Next]_vars => OrderInv'
<1> SUFFICES ASSUME Typed, OrderInv, [Next]_vars, MaxDumps > 0, foiled' < MaxFoiled
             PROVE  (\E t, T, N : Order(t, T, N))'
  BY DEF OrderInv
<1>0. foiled < MaxFoiled /\ Typed'
  BY ErrorsGrow, TypedStep, StoreAssumption
<1>1. PICK t, T, N : Order(t, T, N)
  BY <1>0 DEF OrderInv
<1>2. ASSUME NEW v \in Writer, Same(v), dirs' \subseteq dirs
      PROVE  /\ pc'[v] = "mkdir" => pc[v] = "mkdir"
             /\ Cleaning(v)' => Cleaning(v) /\ Unseen(v)' \subseteq Unseen(v)
  BY <1>2 DEF Same, Cleaning, Unseen
<1>3. ASSUME NEW w \in Writer, Cleanup(w) \/ WriteDump(w), dirs' \subseteq dirs,
             pc'[w] = "mkdir" => pc[w] = "mkdir",
             Cleaning(w)' => Cleaning(w) /\ Unseen(w)' \subseteq Unseen(w)
      PROVE  Order(t, T, N)'
  BY <1>1, <1>2, <1>3, LocalsOfOthers, OrderFrame
<1>4. ASSUME NEW w \in Writer, TTLNext(w) PROVE Order(t, T, N)'
  <2>1. PICK f : /\ f \in todo[w] /\ todo' = [todo EXCEPT ![w] = @ \ {f}]
                 /\ pc[w] = "ttl" /\ UNCHANGED dirs
                 /\ \/ StartRemoval(w, f) /\ UNCHANGED dumps
                    \/ dumps' = [dumps EXCEPT ![w] = @ \cup {f}] /\ UNCHANGED <<pc, victim>>
    BY <1>4, FirstExists DEF TTLNext, Typed, TypeOK, disk
  <2>2. victim[w] \notin dirs
    BY <2>1, NoneAssumption DEF Typed, TypeOK, Locals, Removing
  <2>3. /\ Cleaning(w) /\ pc'[w] # "mkdir" /\ Unseen(w)' \subseteq Unseen(w)
    BY <2>1, <2>2 DEF StartRemoval, Goto, Cleaning, Unseen, Typed, TypeOK
  <2> QED
    BY <1>3, <1>4, <2>1, <2>3 DEF Cleanup
<1>13. ASSUME NEW w \in Writer, InfoFails(w) PROVE Order(t, T, N)'
  <2>1. PICK f : /\ todo' = [todo EXCEPT ![w] = @ \ {f}] /\ dumps' = [dumps EXCEPT ![w] = @ \cup {f}]
                 /\ pc[w] = "ttl" /\ UNCHANGED <<dirs, pc, victim>>
    BY <1>13 DEF InfoFails, disk
  <2>2. /\ Cleaning(w) /\ pc'[w] # "mkdir" /\ Unseen(w)' \subseteq Unseen(w)
    BY <2>1 DEF Cleaning, Unseen, Typed, TypeOK
  <2> QED
    BY <1>3, <1>13, <2>1, <2>2 DEF Cleanup
<1>5. ASSUME NEW w \in Writer, MaxNext(w) PROVE Order(t, T, N)'
  <2>1. victim[w] \notin dirs
    BY <1>5, NoneAssumption DEF MaxNext, Typed, TypeOK, Locals, Removing
  <2>2. /\ Cleaning(w) /\ pc'[w] # "mkdir" /\ Unseen(w)' \subseteq Unseen(w) /\ dirs' = dirs
    BY <1>5, <2>1 DEF MaxNext, StartRemoval, Goto, Cleaning, Unseen, disk, Typed, TypeOK
  <2> QED
    BY <1>3, <1>5, <2>2 DEF Cleanup
<1>6. ASSUME NEW w \in Writer, TTLDone(w) \/ Unlink(w) \/ Emptied(w) PROVE Order(t, T, N)'
  <2>1. /\ Cleaning(w) /\ pc'[w] # "mkdir" /\ Unseen(w)' \subseteq Unseen(w) /\ dirs' = dirs
    BY <1>6 DEF TTLDone, Unlink, Emptied, Goto, Cleaning, Unseen, disk, local, Typed, TypeOK
  <2> QED
    BY <1>3, <1>6, <2>1 DEF Cleanup
<1>7. ASSUME NEW w \in Writer, RmdirOk(w) PROVE Order(t, T, N)'
  <2>1. /\ Cleaning(w) /\ pc'[w] # "mkdir" /\ Unseen(w)' \subseteq Unseen(w) /\ dirs' \subseteq dirs
    BY <1>7 DEF RmdirOk, AfterRemoval, Goto, Cleaning, Unseen, Typed, TypeOK
  <2> QED
    BY <1>3, <1>7, <2>1 DEF Cleanup
<1>8. ASSUME NEW w \in Writer, WriteDump(w), ~ Mkdir(w) PROVE Order(t, T, N)'
  <2>1. dirs' = dirs /\ pc'[w] \in {"idle", "write", "sync", "done"}
    BY <1>8 DEF WriteDump, MkdirFails, CreateFile, CreateFails, SyncFile, SyncFails, Return,
       LeaveDump, Forget, NextFile, Goto, disk, Typed, TypeOK
  <2> QED
    BY <1>3, <1>8, <2>1 DEF Cleaning
<1>9. ASSUME NEW w \in Writer, Crash(Service[w]) PROVE Order(t, T, N)'
  <2>1. dirs' = dirs /\ \A v \in Writer : Same(v) \/ pc'[v] = "idle"
    BY <1>9, ForgottenOrSame DEF Crash, disk
  <2> QED
    BY <1>1, <1>2, <2>1, OrderFrame DEF Cleaning
<1>10. CASE UNCHANGED <<disk, local, begun, doomed, counters>>
  <2>1. dirs' = dirs /\ \A v \in Writer : Same(v)
    BY <1>10 DEF disk, local, Same
  <2> QED
    BY <1>1, <1>2, <2>1, OrderFrame
<1>11. ASSUME NEW w \in Writer, ReadDir(w) \/ MaxDone(w)
       PROVE  (\E t1, T1, N1 : Order(t1, T1, N1))'
  BY <1>1, <1>11, OrderReadDir, OrderMaxDone
<1>12. ASSUME NEW w \in Writer, RemoveAllFails(w) \/ ReadDirFails(w) \/ Mkdir(w)
       PROVE  Order(t, T, N)'
  BY <1>1, <1>12, OrderRemovalFails, OrderReadDirFails, OrderMkdir
<1> QED
  BY <1>4, <1>5, <1>6, <1>7, <1>8, <1>9, <1>10, <1>11, <1>12, <1>13, StepIsOfWriter
     DEF Cleanup

(* cleanup.go, the MaxDumps phase: there are never more directories than      *)
(* MaxDumps, plus one for each other writer that can be between its cleanup  *)
(* and its Mkdir, plus one for each removal that failed.                     *)
THEOREM BoundKept == Spec => []DirsBounded
<1>1. Init => OrderInv
  <2> SUFFICES ASSUME Init, MaxDumps > 0 PROVE \E t, T, N : Order(t, T, N)
    BY DEF OrderInv
  <2>1. \A w \in Writer : ~ Cleaning(w) /\ pc[w] # "mkdir"
    BY DEF Init, Cleaning
  <2> DEFINE zero == [w \in Writer |-> 0]
  <2>2. Ahead(zero, 0) = {}
    BY <2>1 DEF Ahead
  <2>3. Cardinality(Ahead(zero, 0)) = 0
    BY <2>2, FS_EmptySet
  <2>4. /\ Cardinality(dirs) <= MaxDumps /\ MaxDumps \in Nat /\ faults = 0 /\ foiled = 0
        /\ Cardinality(Writer) \in Nat /\ Cardinality(Writer) >= 1
    BY CardOfWriters, StoreAssumption DEF Init
  <2>5. Cardinality(dirs) \in Nat
    BY TypedInit, CardOfNames DEF Typed, TypeOK
  <2>6. Cardinality(dirs) + Cardinality(Ahead(zero, 0)) <= MaxDumps + Slack
    BY <2>3, <2>4, <2>5 DEF Slack
  <2>7. zero \in [Writer -> Nat]
    OBVIOUS
  <2> HIDE DEF zero
  <2>8. Order(zero, 0, 1)
    BY <2>1, <2>6, <2>7 DEF Order
  <2> QED
    BY <2>8
<1>2. Typed /\ OrderInv => DirsBounded
  <2> SUFFICES ASSUME Typed, OrderInv, MaxDumps > 0, foiled < MaxFoiled
               PROVE  Cardinality(dirs) <= MaxDumps + Cardinality(Writer) - 1 + faults + foiled
    BY DEF DirsBounded
  <2>1. PICK t, T, N : Order(t, T, N)
    BY DEF OrderInv
  <2>2. /\ Cardinality(dirs) \in Nat /\ Cardinality(Ahead(t, T)) \in Nat
        /\ Cardinality(Writer) \in Nat /\ MaxDumps \in Nat /\ faults \in Nat /\ foiled \in Nat
    BY CardOfNames, CardOfAhead, CardOfWriters, StoreAssumption DEF Typed, TypeOK
  <2>3. Cardinality(dirs) + Cardinality(Ahead(t, T)) <= MaxDumps + Slack
    BY <2>1 DEF Order
  <2> QED
    BY <2>2, <2>3 DEF Slack
<1> QED
  BY <1>1, <1>2, TypedInit, TypedStep, OrderStep, PTL DEF Spec
=============================================================================
