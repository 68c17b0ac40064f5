-------------------------- MODULE PeerUploadProofs --------------------------
(* Proofs about PeerUpload, for every number of dumps and goroutines.        *)
EXTENDS PeerUpload, FiniteSetTheorems, TLAPS

LEMMA Goroutines ==
  /\ IsFiniteSet(Goroutine) /\ None \notin Goroutine
  /\ Scan \subseteq Goroutine /\ Dump \subseteq Goroutine
BY PeerAssumption, FS_Union DEF Goroutine

(* A lock file is in a directory that is there.                              *)
LockIsPresent == \A d \in Dump : lock[d] # None => d \in present

(* WriteAll puts no more files into a directory than it has gone through.    *)
WrittenFirst == \A d \in Dump : files[d] <= written[d]

Typed == TypeOK /\ LockIsPresent /\ WrittenFirst

LEMMA TypedInit == Init => Typed
<1> SUFFICES ASSUME Init PROVE Typed
  OBVIOUS
<1>1. /\ 0 \in 0..FileCount /\ FileCount \in 0..FileCount /\ 0 \in 0..UploadTimeout
      /\ 0 \in 0..DumpTTL /\ 0 \in 0..MaxLost /\ 0 \in 0..ScanGap
  BY PeerAssumption
<1>2. TypeOK
  BY <1>1 DEF Init, TypeOK
<1>3. WrittenFirst
  BY <1>1, <1>2 DEF Init, TypeOK, WrittenFirst
<1> QED
  BY <1>2, <1>3 DEF Init, Typed, LockIsPresent

LEMMA NextOfTodo ==
  ASSUME Typed, NEW g \in Goroutine, Lockable(NextOf(g))
  PROVE  NextOf(g) \in Dump \cap present /\ lock[NextOf(g)] = None
BY DEF Lockable, Typed, TypeOK

LEMMA CopiedTyped ==
  ASSUME Typed, NEW g \in Goroutine, at[g] \in Dump
  PROVE  Copied(g) \subseteq 0..FileCount
<1>1. FileCount \in Nat /\ seen[g] \in 0..FileCount /\ files[at[g]] \in 0..FileCount
  BY PeerAssumption DEF Typed, TypeOK
<1> QED
  BY <1>1 DEF Copied

(* One step of each action keeps the types.                                  *)
LEMMA TypedStep == Typed /\ [Next]_vars => Typed'
<1> SUFFICES ASSUME Typed, [Next]_vars PROVE Typed'
  OBVIOUS
<1> USE PeerAssumption, Goroutines DEF Typed, LockIsPresent, WrittenFirst
<1>1. ASSUME NEW d \in Dump, Mkdir(d) PROVE Typed'
  BY <1>1 DEF Mkdir, TypeOK, worker, removal, history, Touch
<1>2. ASSUME NEW d \in Dump, WriteFile(d) PROVE Typed'
  <2>1. written' \in [Dump -> 0..FileCount] /\ written'[d] = written[d] + 1
    BY <1>2 DEF WriteFile, TypeOK
  <2>2. files' \in [Dump -> 0..FileCount] /\ idle' \in [Dump -> 0..DumpTTL]
    BY <1>2 DEF WriteFile, TypeOK, Touch
  <2>3. TypeOK'
    BY <1>2, <2>1, <2>2 DEF WriteFile, TypeOK, worker, removal, history
  <2> QED
    BY <1>2, <2>1, <2>3 DEF WriteFile, TypeOK
<1>3. ASSUME NEW d \in Dump, Finish(d) PROVE Typed'
  <2>1. todo' \in [Goroutine -> SUBSET Dump]
    BY <1>3 DEF Finish, TypeOK
  <2> QED
    BY <1>3, <2>1 DEF Finish, TypeOK, dir, removal, history
<1>4. ASSUME NEW d \in Dump, WriterKilled(d) PROVE Typed'
  BY <1>4 DEF WriterKilled, TypeOK, dir, worker, removal, history
<1>5. ASSUME NEW d \in Dump, PickVictim(d) PROVE Typed'
  BY <1>5 DEF PickVictim, TypeOK, writer, dir, worker, history
<1>6. ASSUME NEW g \in Goroutine, Check(g) \/ Skip(g) \/ OpenRefused(g) PROVE Typed'
  <2>1. todo' \in [Goroutine -> SUBSET Dump] /\ past' \subseteq Goroutine
    <3>1. todo' \in {todo, [todo EXCEPT ![g] = @ \ {NextOf(g)}]}
      BY <1>6 DEF Check, Skip, OpenRefused, Pass
    <3>2. past' \in {past, past \cup {g}, past \ {g}}
      BY <1>6 DEF Check, Skip, OpenRefused
    <3>3. todo \in [Goroutine -> SUBSET Dump] /\ past \subseteq Goroutine
      BY DEF TypeOK
    <3> QED
      BY <3>1, <3>2, <3>3
  <2>2. UNCHANGED <<writer, dir, at, seen, held, quiet, removal, history>>
    BY <1>6 DEF Check, Skip, OpenRefused
  <2> QED
    BY <2>1, <2>2 DEF TypeOK, writer, dir, removal, history
<1>7. ASSUME NEW g \in Goroutine, Begin(g) PROVE Typed'
  <2> DEFINE d == NextOf(g)
  <2>1. d \in Dump \cap present /\ lock[d] = None
    BY <1>7, NextOfTodo DEF Begin
  <2> HIDE DEF d
  <2>2. /\ lock' = [lock EXCEPT ![d] = g]
        /\ idle' = [idle EXCEPT ![d] = 0]
        /\ todo' = [todo EXCEPT ![g] = @ \ {d}]
        /\ at' = [at EXCEPT ![g] = d]
        /\ seen' = [seen EXCEPT ![g] = files[d]]
        /\ held' = [held EXCEPT ![g] = 0]
        /\ early' = IF d \in finished THEN early ELSE early \cup {d}
        /\ past' = past \ {g}
        /\ UNCHANGED <<written, begun, finished, present, files, marked, quiet,
                       victims, emptied, stored, spoiled, lost>>
    BY <1>7 DEF Begin, Pass, Touch, writer, removal, d
  <2>3. TypeOK'
    BY <2>1, <2>2 DEF TypeOK
  <2> QED
    BY <2>1, <2>2, <2>3 DEF TypeOK
<1>8. ASSUME NEW g \in Goroutine, UploadOk(g) PROVE Typed'
  <2>1. at[g] \in Dump
    BY <1>8 DEF UploadOk
  <2>2. PICK n \in Copied(g) :
          stored' = [stored EXCEPT ![at[g]] = IF n > @ THEN n ELSE @]
    BY <1>8 DEF UploadOk
  <2>3. n \in 0..FileCount
    BY <2>1, CopiedTyped
  <2>4. stored' \in [Dump -> 0..FileCount]
    BY <2>1, <2>2, <2>3 DEF TypeOK
  <2>5. marked' \subseteq present
    <3>1. marked' = IF lock[at[g]] = None THEN marked ELSE marked \cup {at[g]}
      BY <1>8 DEF UploadOk
    <3>2. lock[at[g]] # None => at[g] \in present
      BY <2>1
    <3> QED
      BY <3>1, <3>2 DEF TypeOK
  <2>6. TypeOK'
    BY <1>8, <2>1, <2>4, <2>5 DEF UploadOk, Unlock, Leave, Touch, TypeOK, writer, removal
  <2> QED
    BY <1>8, <2>1, <2>6 DEF UploadOk, Unlock, TypeOK, writer
<1>9. ASSUME NEW g \in Goroutine, UploadFails(g) PROVE Typed'
  BY <1>9 DEF UploadFails, Unlock, Leave, Touch, TypeOK, writer, removal, history
<1>10. ASSUME NEW d \in Dump, Unlink(d) PROVE Typed'
  <2>1. lost' \in 0..MaxLost
    BY <1>10 DEF Unlink, TypeOK
  <2>2. files' = [files EXCEPT ![d] = 0] /\ lock' = [lock EXCEPT ![d] = None]
    BY <1>10 DEF Unlink
  <2>3. TypeOK'
    BY <1>10, <2>1, <2>2 DEF Unlink, Touch, TypeOK, writer, worker
  <2> QED
    BY <1>10, <2>2, <2>3 DEF Unlink, TypeOK, writer
<1>11. ASSUME NEW d \in Dump, RmdirOk(d) PROVE Typed'
  BY <1>11 DEF RmdirOk, Removed, Empty, TypeOK, writer, worker, history
<1>12. ASSUME NEW d \in Dump, RmdirFails(d) PROVE Typed'
  BY <1>12 DEF RmdirFails, Removed, TypeOK, writer, dir, worker, history
<1>13. CASE Tick
  <2>1. held' \in [Goroutine -> 0..UploadTimeout]
    BY <1>13 DEF Tick, Waiting, Uploading, TypeOK
  <2>2. idle' \in [Dump -> 0..DumpTTL]
    BY <1>13 DEF Tick, TypeOK
  <2>3. todo' \in [Goroutine -> SUBSET Dump] /\ quiet' \in 0..ScanGap
    BY <1>13 DEF Tick, TypeOK
  <2> QED
    BY <1>13, <2>1, <2>2, <2>3 DEF Tick, TypeOK, writer, removal, history
<1>14. CASE UNCHANGED vars
  BY <1>14 DEF vars, writer, dir, worker, removal, history, TypeOK
<1> QED
  BY <1>1, <1>2, <1>3, <1>4, <1>5, <1>6, <1>7, <1>8, <1>9, <1>10, <1>11, <1>12, <1>13, <1>14
  DEF Next, Step, Write, Work, Remove

(* The directories, the goroutines and the storage stay what they are.       *)
THEOREM TypeCorrect == Spec => []TypeOK
<1>1. Spec => []Typed
  BY TypedInit, TypedStep, PTL DEF Spec
<1> QED
  BY <1>1, PTL DEF Typed

-----------------------------------------------------------------------------
Locked == {d \in Dump : lock[d] # None}

LEMMA FiniteSides ==
  ASSUME Typed
  PROVE  /\ IsFiniteSet(Uploading) /\ IsFiniteSet(Locked)
         /\ Cardinality(Uploading) \in Nat /\ Cardinality(Locked) \in Nat
         /\ lost \in Nat
<1>1. Uploading \in SUBSET Goroutine /\ Locked \in SUBSET Dump
  BY DEF Uploading, Locked
<1>2. IsFiniteSet(Uploading) /\ IsFiniteSet(Locked)
  BY <1>1, FS_Subset, PeerAssumption, Goroutines
<1> QED
  BY <1>2, FS_CardinalityType, PeerAssumption DEF Typed, TypeOK

(* A lock is taken with every upload, and the upload that loses its lock to  *)
(* the retention is counted.                                                 *)
LEMMA ScansBoundedStep == Typed /\ ScansBounded /\ [Next]_vars => ScansBounded'
<1> SUFFICES ASSUME Typed, ScansBounded, [Next]_vars PROVE ScansBounded'
  OBVIOUS
<1> DEFINE U == Uploading
           L == Locked
<1>0. /\ IsFiniteSet(U) /\ IsFiniteSet(L)
      /\ Cardinality(U) \in Nat /\ Cardinality(L) \in Nat /\ lost \in Nat
      /\ Cardinality(U) <= Cardinality(L) + lost
  BY FiniteSides DEF ScansBounded, Locked
<1>1. ASSUME NEW g \in Goroutine, Begin(g) PROVE ScansBounded'
  <2> DEFINE d == NextOf(g)
  <2>1. d \in Dump /\ d \notin L /\ d # None /\ g # None
    BY <1>1, NextOfTodo, PeerAssumption, Goroutines DEF Begin, Locked
  <2>2. g \notin U
    BY <1>1 DEF Begin, Arrived, Uploading
  <2>3. U' = U \cup {g} /\ L' = L \cup {d}
    BY <1>1, <2>1 DEF Begin, Uploading, Locked, Typed, TypeOK
  <2>4. Cardinality(U') = Cardinality(U) + 1 /\ Cardinality(L') = Cardinality(L) + 1
    BY <1>0, <2>1, <2>2, <2>3, FS_AddElement
  <2>5. lost' = lost
    BY <1>1 DEF Begin
  <2> QED
    BY <1>0, <2>4, <2>5 DEF ScansBounded, Locked
<1>2. ASSUME NEW g \in Goroutine, UploadOk(g) \/ UploadFails(g) PROVE ScansBounded'
  <2> DEFINE d == at[g]
  <2>1. g \in U /\ d \in Dump
    BY <1>2, PeerAssumption DEF UploadOk, UploadFails, Uploading, Typed, TypeOK
  <2>2. U' = U \ {g} /\ L' = L \ {d}
    BY <1>2, <2>1 DEF UploadOk, UploadFails, Leave, Unlock, Uploading, Locked, Typed, TypeOK
  <2>3. /\ Cardinality(U') = Cardinality(U) - 1
        /\ Cardinality(L') = IF d \in L THEN Cardinality(L) - 1 ELSE Cardinality(L)
    BY <1>0, <2>1, <2>2, FS_RemoveElement
  <2>4. lost' = lost
    BY <1>2 DEF UploadOk, UploadFails, history
  <2> QED
    BY <1>0, <2>3, <2>4 DEF ScansBounded, Locked
<1>3. ASSUME NEW d \in Dump, Unlink(d) PROVE ScansBounded'
  <2>1. U' = U /\ L' = L \ {d}
    BY <1>3 DEF Unlink, worker, Uploading, Locked, Typed, TypeOK
  <2>2. Cardinality(L') = IF d \in L THEN Cardinality(L) - 1 ELSE Cardinality(L)
    BY <1>0, <2>1, FS_RemoveElement
  <2>3. lost' = IF d \in L THEN lost + 1 ELSE lost
    BY <1>3 DEF Unlink, Locked
  <2> QED
    BY <1>0, <2>1, <2>2, <2>3 DEF ScansBounded, Locked
<1>4. CASE UNCHANGED <<at, lock, lost>>
  BY <1>0, <1>4 DEF ScansBounded, Uploading
<1> QED
  BY <1>1, <1>2, <1>3, <1>4
  DEF Next, Step, Write, Work, Remove, Mkdir, WriteFile, Finish, WriterKilled, PickVictim,
      Check, Skip, OpenRefused, RmdirOk, RmdirFails, Tick, vars, dir, worker, history

(* However many scans run into a storage that hangs, no more goroutines wait *)
(* for it than hold a lock or have lost theirs to the retention.             *)
THEOREM ScansAreBounded == Spec => []ScansBounded
<1>1. Init => ScansBounded
  <2> SUFFICES ASSUME Init PROVE ScansBounded
    OBVIOUS
  <2>1. Uploading = {} /\ Locked = {} /\ lost = 0
    BY DEF Init, Uploading, Locked
  <2>2. Cardinality({}) = 0
    BY FS_EmptySet
  <2> QED
    BY <2>1, <2>2 DEF ScansBounded, Locked
<1> QED
  BY <1>1, TypedInit, TypedStep, ScansBoundedStep, PTL DEF Spec

-----------------------------------------------------------------------------
Clean(d) == d \notin early \cup spoiled

(* Without an early start and without the retention in between, an upload    *)
(* began with all the files there will ever be.                              *)
Whole ==
  /\ \A d \in Dump \ spoiled : stored[d] <= files[d]
  /\ \A g \in Goroutine : at[g] # None /\ Clean(at[g]) =>
       at[g] \in finished /\ seen[g] = files[at[g]]
  /\ \A d \in marked : Clean(d) => d \in finished /\ stored[d] = files[d]

LEMMA WholeInit == Init => Whole
BY PeerAssumption DEF Init, Whole

LEMMA WholeStep == Typed /\ Whole /\ [Next]_vars => Whole'
<1> SUFFICES ASSUME Typed, Whole, [Next]_vars PROVE Whole'
  OBVIOUS
<1> USE PeerAssumption DEF Clean
<1>1. ASSUME NEW d \in Dump, WriteFile(d) PROVE Whole'
  <2>1. /\ d \notin finished
        /\ files' \in {files, [files EXCEPT ![d] = @ + 1]}
        /\ UNCHANGED <<stored, early, spoiled, marked, finished, at, seen>>
    BY <1>1 DEF WriteFile, worker, history
  <2>2. files'[d] \in {files[d], files[d] + 1} /\ \A e \in Dump \ {d} : files'[e] = files[e]
    BY <2>1 DEF Typed, TypeOK
  <2>3. \A e \in Dump : stored[e] \in Nat /\ files[e] \in Nat
    BY DEF Typed, TypeOK
  <2>4. \A e \in Dump \ spoiled : stored[e] <= files'[e]
    <3>1. \A e \in Dump \ spoiled : stored[e] <= files[e]
      BY DEF Whole
    <3> QED
      BY <2>2, <2>3, <3>1
  <2>5. \A g \in Goroutine : at[g] # None /\ at[g] \notin early \cup spoiled =>
          at[g] \in finished /\ seen[g] = files'[at[g]]
    <3> SUFFICES ASSUME NEW g \in Goroutine, at[g] # None, at[g] \notin early \cup spoiled
                 PROVE  at[g] \in finished /\ seen[g] = files'[at[g]]
      OBVIOUS
    <3>1. at[g] \in Dump
      BY DEF Typed, TypeOK
    <3>2. at[g] \in finished /\ seen[g] = files[at[g]]
      BY DEF Whole
    <3> QED
      BY <2>1, <2>2, <3>1, <3>2
  <2>6. \A e \in marked : e \notin early \cup spoiled => e \in finished /\ stored[e] = files'[e]
    BY <2>1, <2>2 DEF Whole, Typed, TypeOK
  <2> QED
    BY <2>1, <2>4, <2>5, <2>6 DEF Whole
<1>2. ASSUME NEW d \in Dump, Finish(d) \/ WriterKilled(d) PROVE Whole'
  BY <1>2 DEF Finish, WriterKilled, dir, worker, history, Whole
<1>3. ASSUME NEW g \in Goroutine, Begin(g) PROVE Whole'
  <2> DEFINE d == NextOf(g)
  <2>1. d \in Dump
    BY <1>3, NextOfTodo DEF Begin
  <2>2. /\ at' = [at EXCEPT ![g] = d] /\ seen' = [seen EXCEPT ![g] = files[d]]
        /\ early' = IF d \in finished THEN early ELSE early \cup {d}
        /\ UNCHANGED <<files, finished, marked, stored, spoiled>>
    BY <1>3 DEF Begin, writer
  <2> HIDE DEF d
  <2> QED
    BY <2>1, <2>2 DEF Whole, Typed, TypeOK
<1>4. ASSUME NEW g \in Goroutine, UploadOk(g) PROVE Whole'
  <2> DEFINE d == at[g]
  <2>1. d \in Dump /\ d # None
    BY <1>4 DEF UploadOk
  <2>2. PICK n \in Copied(g) : stored' = [stored EXCEPT ![d] = IF n > @ THEN n ELSE @]
    BY <1>4 DEF UploadOk
  <2>3. /\ at' = [at EXCEPT ![g] = None] /\ seen' = [seen EXCEPT ![g] = 0]
        /\ UNCHANGED <<files, finished, early, spoiled>>
        /\ marked' \subseteq marked \cup {d}
    BY <1>4 DEF UploadOk, Leave, writer
  <2>4. d \notin spoiled => n <= files[d] /\ n \in Nat
    BY <2>1 DEF Copied, Typed, TypeOK
  <2>5. Clean(d) => n = files[d] /\ d \in finished
    <3> SUFFICES ASSUME Clean(d) PROVE n = files[d] /\ d \in finished
      OBVIOUS
    <3>1. seen[g] = files[d] /\ d \in finished /\ files[d] \in Nat
      BY <2>1 DEF Whole, Typed, TypeOK
    <3>2. n \in files[d]..files[d]
      BY <3>1 DEF Copied
    <3> QED
      BY <3>1, <3>2
  <2>6. stored \in [Dump -> Nat] /\ files \in [Dump -> Nat]
    BY DEF Typed, TypeOK
  <2>7. \A e \in Dump \ spoiled : stored'[e] <= files[e]
    BY <2>1, <2>2, <2>4, <2>6 DEF Whole
  <2>8. Clean(d) => stored'[d] = files[d]
    <3> SUFFICES ASSUME Clean(d) PROVE stored'[d] = files[d]
      OBVIOUS
    <3>1. n = files[d] /\ stored[d] <= files[d]
      BY <2>1, <2>5 DEF Whole
    <3>2. stored'[d] = IF n > stored[d] THEN n ELSE stored[d]
      BY <2>1, <2>2, <2>6
    <3>3. stored[d] \in Nat /\ files[d] \in Nat
      BY <2>1, <2>6
    <3> HIDE DEF d
    <3> QED
      BY <3>1, <3>2, <3>3
  <2>9. \A e \in Dump : e # d => stored'[e] = stored[e]
    BY <2>1, <2>2, <2>6
  <2>10. \A h \in Goroutine : at'[h] # None => at'[h] = at[h] /\ seen'[h] = seen[h]
    <3>1. at \in [Goroutine -> Dump \cup {None}] /\ seen \in [Goroutine -> 0..FileCount]
      BY DEF Typed, TypeOK
    <3>2. at' = [at EXCEPT ![g] = None] /\ seen' = [seen EXCEPT ![g] = 0]
      BY <2>3
    <3> HIDE DEF d
    <3> QED
      BY <3>1, <3>2
  <2>11. \A h \in Goroutine : at'[h] # None /\ at'[h] \notin early \cup spoiled =>
           at'[h] \in finished /\ seen'[h] = files[at'[h]]
    BY <2>10 DEF Whole
  <2>12. \A e \in marked' :
           e \notin early \cup spoiled => e \in finished /\ stored'[e] = files[e]
    <3> SUFFICES ASSUME NEW e \in marked', e \notin early \cup spoiled
                 PROVE  e \in finished /\ stored'[e] = files[e]
      OBVIOUS
    <3>1. CASE e = d
      BY <3>1, <2>5, <2>8
    <3>2. CASE e # d
      BY <3>2, <2>3, <2>9 DEF Whole, Typed, TypeOK
    <3> QED
      BY <3>1, <3>2
  <2> QED
    BY <2>3, <2>7, <2>11, <2>12 DEF Whole
<1>5. ASSUME NEW g \in Goroutine, UploadFails(g) PROVE Whole'
  BY <1>5 DEF UploadFails, Leave, writer, history, Whole, Typed, TypeOK
<1>6. ASSUME NEW d \in Dump, Unlink(d) PROVE Whole'
  BY <1>6 DEF Unlink, writer, worker, Whole, Typed, TypeOK
<1>7. CASE UNCHANGED <<files, finished, marked, at, seen, stored, early, spoiled>>
  BY <1>7 DEF Whole
<1> QED
  BY <1>1, <1>2, <1>3, <1>4, <1>5, <1>6, <1>7
  DEF Next, Step, Write, Work, Remove, Mkdir, PickVictim, Check, Skip, OpenRefused,
      RmdirOk, RmdirFails, Tick, vars, writer, dir, worker, history

(* A marked dump that was uploaded only after its writer was done, and that  *)
(* the retention has not emptied, is complete in the storage.                *)
THEOREM MarkedAreStored == Spec => []MarkedIsStored
<1>1. Typed /\ Whole => MarkedIsStored
  BY DEF Whole, Clean, MarkedIsStored
<1> QED
  BY <1>1, TypedInit, TypedStep, WholeInit, WholeStep, PTL DEF Spec

-----------------------------------------------------------------------------
Others == Cardinality(Dump) - 1

(* The longest that a dump waits for a scan: until the next one starts, and  *)
(* then an upload that times out for each other dump before it.              *)
Longest == ScanGap + 1 + UploadTimeout * Others

(* What retention by age relies on.  The bound on the scans, which the code  *)
(* does not have, keeps none from starting.                                  *)
InTime ==
  /\ Cardinality(Scan) >= Cardinality(Dump) + MaxLost
  /\ DumpTTL > UploadTimeout
  /\ DumpTTL > Longest

Ahead(g, d) == {e \in todo[g] : e < d}

Left(g) == IF at[g] = None THEN 0 ELSE UploadTimeout - held[g]

(* How long g may still take to reach d.                                     *)
Wait(g, d) == Left(g) + UploadTimeout * Cardinality(Ahead(g, d))

(* The goroutine of a lock is in the directory, since the directory was last *)
(* touched or before.                                                        *)
Attended ==
  \A d \in Dump : lock[d] # None => at[lock[d]] = d /\ idle[d] <= held[lock[d]]

InSight(d, g) == d \in todo[g] /\ idle[d] + Wait(g, d) <= Longest

(* A dump that is still to be uploaded and was not touched since the last    *)
(* scan started, and has no lock, is one that a scan will reach in time.     *)
Reached ==
  \A d \in present \ marked :
    lock[d] = None /\ idle[d] > quiet => \E g \in Goroutine : InSight(d, g)

(* The upload that a writer starts is not there before.                      *)
Unstarted == \A d \in Dump \ finished : todo[d] = {}

AgeInv == Typed /\ Attended /\ Unstarted /\ Reached

LEMMA NextOfIsFirst ==
  ASSUME Typed, NEW g \in Goroutine, todo[g] # {}
  PROVE  NextOf(g) \in todo[g] /\ \A e \in todo[g] : NextOf(g) <= e
<1>1. todo[g] \subseteq Nat
  BY PeerAssumption DEF Typed, TypeOK
<1>2. \E d \in todo[g] : \A e \in todo[g] : ~ (<<e, d>> \in OpToRel(<, Nat))
  BY <1>1, NatLessThanWellFounded, WFMin
<1>3. \E d \in todo[g] : \A e \in todo[g] : d <= e
  <2>1. PICK d \in todo[g] : \A e \in todo[g] : ~ (<<e, d>> \in OpToRel(<, Nat))
    BY <1>2
  <2>2. ASSUME NEW e \in todo[g] PROVE d <= e
    <3>1. SUFFICES ASSUME e < d PROVE FALSE
      BY <1>1
    <3>2. <<e, d>> \in Nat \X Nat
      BY <1>1
    <3>3. <<e, d>>[1] < <<e, d>>[2]
      BY <3>1
    <3>4. <<e, d>> \in OpToRel(<, Nat)
      BY <3>2, <3>3, Zenon DEF OpToRel
    <3> QED
      BY <2>1, <3>4
  <2> QED
    BY <2>2
<1> QED
  BY <1>3 DEF NextOf

LEMMA UnstartedStep == Typed /\ Unstarted /\ [Next]_vars => Unstarted'
<1> SUFFICES ASSUME Typed, Unstarted, [Next]_vars, NEW d \in (Dump \ finished)'
             PROVE  todo'[d] = {}
  BY DEF Unstarted
<1> USE PeerAssumption, Goroutines DEF Typed, TypeOK
<1>1. ASSUME NEW e \in Dump, Mkdir(e) \/ Write(e) \/ PickVictim(e) PROVE todo'[d] = {}
  BY <1>1 DEF Unstarted, Mkdir, Write, WriteFile, Finish, WriterKilled, PickVictim, writer, worker
<1>2. ASSUME NEW g \in Goroutine, Work(g) PROVE todo'[d] = {}
  <2>1. d \in Dump \ finished
    BY <1>2 DEF Work, Check, Skip, OpenRefused, Begin, UploadOk, UploadFails, writer
  <2>2. todo[d] = {}
    BY <2>1 DEF Unstarted
  <2>3. todo' = todo \/ todo' = [todo EXCEPT ![g] = @ \ {NextOf(g)}]
    BY <1>2 DEF Work, Check, Skip, OpenRefused, Begin, Pass, UploadOk, UploadFails, Leave
  <2> QED
    BY <2>1, <2>2, <2>3
<1>3. ASSUME NEW e \in Dump, Remove(e) PROVE todo'[d] = {}
  BY <1>3 DEF Unstarted, Remove, Unlink, RmdirOk, RmdirFails, writer, worker
<1>4. CASE Tick
  BY <1>4 DEF Unstarted, Tick, Free, writer
<1>5. CASE UNCHANGED vars
  BY <1>5 DEF Unstarted, vars, writer, worker
<1> QED
  BY <1>1, <1>2, <1>3, <1>4, <1>5 DEF Next, Step

LEMMA AttendedStep == Typed /\ Attended /\ [Next]_vars => Attended'
<1> SUFFICES ASSUME Typed, Attended, [Next]_vars PROVE Attended'
  OBVIOUS
<1> USE PeerAssumption, Goroutines DEF Attended, Typed, TypeOK, worker, history, dir
<1>0. \A e \in Dump : lock[e] # None =>
        held[lock[e]] \in Nat /\ idle[e] <= held[lock[e]] /\ at[lock[e]] = e
  <2> SUFFICES ASSUME NEW e \in Dump, lock[e] # None
               PROVE  held[lock[e]] \in Nat /\ idle[e] <= held[lock[e]] /\ at[lock[e]] = e
    OBVIOUS
  <2>1. lock[e] \in Goroutine
    OBVIOUS
  <2>2. held[lock[e]] \in 0..UploadTimeout
    BY <2>1
  <2> QED
    BY <2>2
<1>1. ASSUME NEW d \in Dump, Mkdir(d) \/ Write(d) \/ PickVictim(d) PROVE Attended'
  <2>1. UNCHANGED <<lock, at, held>>
    BY <1>1 DEF Mkdir, Write, WriteFile, Finish, WriterKilled, PickVictim
  <2>2. \A e \in Dump : idle'[e] \in {0, idle[e]}
    BY <1>1 DEF Mkdir, Write, WriteFile, Finish, WriterKilled, PickVictim, Touch
  <2> QED
    BY <1>0, <2>1, <2>2
<1>2. ASSUME NEW g \in Goroutine, Check(g) \/ Skip(g) \/ OpenRefused(g) PROVE Attended'
  BY <1>2 DEF Check, Skip, OpenRefused, Pass
<1>3. ASSUME NEW g \in Goroutine, Begin(g) PROVE Attended'
  <2> DEFINE d == NextOf(g)
  <2>1. d \in Dump /\ at[g] = None /\ g # None
    BY <1>3, NextOfTodo DEF Begin, Arrived
  <2>2. /\ lock' = [lock EXCEPT ![d] = g]
        /\ idle' = [idle EXCEPT ![d] = 0]
        /\ at' = [at EXCEPT ![g] = d]
        /\ held' = [held EXCEPT ![g] = 0]
    BY <1>3 DEF Begin, Touch
  <2> HIDE DEF d
  <2> QED
    BY <2>1, <2>2
<1>4. ASSUME NEW g \in Goroutine, UploadOk(g) \/ UploadFails(g) PROVE Attended'
  <2>1. at[g] \in Dump
    BY <1>4 DEF UploadOk, UploadFails
  <2>2. /\ lock' = [lock EXCEPT ![at[g]] = None]
        /\ idle' \in {idle, [idle EXCEPT ![at[g]] = 0]}
        /\ at' = [at EXCEPT ![g] = None]
        /\ held' = [held EXCEPT ![g] = 0]
    BY <1>4 DEF UploadOk, UploadFails, Unlock, Leave, Touch
  <2> QED
    BY <2>1, <2>2
<1>5. ASSUME NEW d \in Dump, Remove(d) PROVE Attended'
  <2>1. UNCHANGED <<at, held>>
    BY <1>5 DEF Remove, Unlink, RmdirOk, RmdirFails
  <2>2. \A e \in Dump : idle'[e] \in {0, idle[e]} /\ lock'[e] \in {None, lock[e]}
    BY <1>5 DEF Remove, Unlink, RmdirOk, RmdirFails, Touch
  <2> QED
    BY <1>0, <2>1, <2>2
<1>6. CASE Tick
  <2>1. UNCHANGED <<lock, at>>
    BY <1>6 DEF Tick
  <2>2. \A e \in Dump : lock[e] # None => held'[lock[e]] = held[lock[e]] + 1
    BY <1>0, <1>6, <2>1 DEF Tick
  <2>3. \A e \in Dump : idle'[e] \in {idle[e], idle[e] + 1} /\ idle[e] \in Nat
    BY <1>6 DEF Tick
  <2> QED
    BY <1>0, <2>1, <2>2, <2>3
<1>7. CASE UNCHANGED vars
  BY <1>7 DEF vars
<1> QED
  BY <1>1, <1>2, <1>3, <1>4, <1>5, <1>6, <1>7 DEF Next, Step, Work

LEMMA WaitTyped ==
  ASSUME Typed, NEW g \in Goroutine, NEW d \in Dump
  PROVE  /\ IsFiniteSet(Ahead(g, d)) /\ Cardinality(Ahead(g, d)) \in Nat
         /\ Left(g) \in 0..UploadTimeout
         /\ UploadTimeout * Cardinality(Ahead(g, d)) \in Nat
         /\ Wait(g, d) \in Nat
<1>1. Ahead(g, d) \in SUBSET Dump
  BY DEF Ahead, Typed, TypeOK
<1>2. IsFiniteSet(Ahead(g, d)) /\ Cardinality(Ahead(g, d)) \in Nat
  BY <1>1, FS_Subset, FS_CardinalityType, PeerAssumption
<1>3. Left(g) \in 0..UploadTimeout
  BY PeerAssumption DEF Left, Typed, TypeOK
<1>4. UploadTimeout * Cardinality(Ahead(g, d)) \in Nat
  BY <1>2, PeerAssumption
<1> QED
  BY <1>2, <1>3, <1>4, PeerAssumption DEF Wait

(* A scan has at most the other dumps before it when it starts.              *)
LEMMA OthersBound ==
  ASSUME NEW d \in Dump, NEW S \in SUBSET Dump, d \notin S
  PROVE  /\ IsFiniteSet(S) /\ Cardinality(S) \in Nat
         /\ Cardinality(S) <= Others /\ Others \in Nat
         /\ UploadTimeout * Cardinality(S) <= UploadTimeout * Others
         /\ UploadTimeout * Others \in Nat
<1>1. IsFiniteSet(Dump) /\ IsFiniteSet(Dump \ {d}) /\ Cardinality(Dump \ {d}) = Others
      /\ Cardinality(Dump \ {d}) \in Nat
  BY PeerAssumption, FS_RemoveElement, FS_CardinalityType DEF Others
<1>2. S \in SUBSET (Dump \ {d})
  OBVIOUS
<1>3. IsFiniteSet(S) /\ Cardinality(S) <= Others /\ Cardinality(S) \in Nat
  BY <1>1, <1>2, FS_Subset, FS_CardinalityType
<1>4. \A m, n \in Nat : m <= n => UploadTimeout * m <= UploadTimeout * n /\ UploadTimeout * n \in Nat
  BY PeerAssumption
<1>5. Others \in Nat
  BY <1>1
<1> QED
  BY <1>3, <1>4, <1>5

LEMMA OthersTyped ==
  ASSUME NEW d \in Dump
  PROVE  Others \in Nat /\ UploadTimeout * Others \in Nat
<1>1. {} \in SUBSET Dump /\ d \notin {}
  OBVIOUS
<1> QED
  BY <1>1, OthersBound

(* While a dump is not locked, a goroutine is left for the next scan.        *)
LEMMA SomebodyIsFree ==
  ASSUME InTime, Typed, ScansBounded, Waiting, NEW d \in Dump, lock[d] = None
  PROVE  Free # {}
<1> SUFFICES ASSUME Free = {} PROVE FALSE
  OBVIOUS
<1>1. Scan \subseteq Uploading
  BY Goroutines DEF Free, Uploading, Waiting
<1>2. Locked \in SUBSET Dump /\ d \notin Locked
  BY DEF Locked
<1>3. Cardinality(Locked) <= Others /\ Cardinality(Locked) \in Nat /\ Others \in Nat
  BY <1>2, OthersBound
<1>4. Cardinality(Scan) <= Cardinality(Locked) + lost
  <2>1. Cardinality(Scan) <= Cardinality(Uploading) /\ Cardinality(Scan) \in Nat
    BY <1>1, FS_Subset, FS_CardinalityType, FiniteSides
  <2> QED
    BY <2>1, FiniteSides DEF ScansBounded, Locked
<1>5. lost <= MaxLost /\ lost \in Nat /\ MaxLost \in Nat
  BY PeerAssumption DEF Typed, TypeOK
<1>6. Cardinality(Scan) \in Nat /\ Cardinality(Dump) \in Nat
  BY PeerAssumption, FS_CardinalityType
<1> QED
  BY <1>3, <1>4, <1>5, <1>6 DEF InTime, Others

(* A goroutine on its way to a dump comes nearer with each of its steps.     *)
LEMMA Nearer ==
  ASSUME AgeInv, NEW g \in Goroutine, NEW d \in present \ marked, lock[d] = None,
         idle'[d] = idle[d], InSight(d, g), Skip(g) \/ OpenRefused(g) \/ Begin(g),
         lock'[d] = None
  PROVE  InSight(d, g)'
<1> DEFINE e == NextOf(g)
<1>0. d \in Dump /\ Typed
  BY DEF AgeInv, Typed, TypeOK
<1>1. todo[g] # {} /\ at[g] = None
  BY DEF Skip, OpenRefused, Begin, Arrived
<1>2. e \in todo[g] /\ e <= d /\ e \in Dump /\ e \in Int /\ d \in Int
  <2>1. d \in todo[g] /\ todo[g] \subseteq Dump /\ Dump \subseteq Nat
    BY <1>0, PeerAssumption DEF InSight, Typed, TypeOK
  <2>2. e \in todo[g] /\ \A f \in todo[g] : e <= f
    BY <1>0, <1>1, NextOfIsFirst
  <2> HIDE DEF e
  <2>3. e <= d
    BY <2>1, <2>2, Zenon
  <2>4. e \in Dump /\ d \in Dump
    BY <2>1, <2>2, Zenon
  <2> QED
    BY <2>1, <2>2, <2>3, <2>4
<1>3. e # d
  <2>1. CASE Skip(g) \/ OpenRefused(g)
    BY <2>1, <1>0 DEF Skip, OpenRefused, Unmarked, Lockable
  <2>2. CASE Begin(g)
    <3>1. lock'[e] = g /\ g # None
      BY <1>0, <1>2, <2>2, Goroutines DEF Begin, Typed, TypeOK
    <3> QED
      BY <3>1
  <2> QED
    BY <2>1, <2>2
<1>4. todo' = [todo EXCEPT ![g] = @ \ {e}]
  BY DEF Skip, OpenRefused, Begin, Pass
<1> DEFINE A == Ahead(g, d)
<1>5. /\ IsFiniteSet(A) /\ Cardinality(A) \in Nat /\ Left(g) = 0
      /\ UploadTimeout * Cardinality(A) \in Nat
  BY <1>0, <1>1, WaitTyped DEF Left
<1>6. e \in A
  BY <1>2, <1>3 DEF Ahead
<1>7. A' = A \ {e} /\ d \in todo'[g]
  BY <1>0, <1>3, <1>4 DEF Ahead, InSight, Typed, TypeOK
<1>8. Cardinality(A') = Cardinality(A) - 1
  <2> HIDE DEF A, e
  <2>1. Cardinality(A \ {e}) = Cardinality(A) - 1
    BY <1>5, <1>6, FS_RemoveElement
  <2> QED
    BY <1>7, <2>1
<1>9. Left(g)' \in 0..UploadTimeout
  <2>1. CASE Skip(g) \/ OpenRefused(g)
    BY <1>1, <2>1, PeerAssumption DEF Skip, OpenRefused, Left
  <2>2. CASE Begin(g)
    BY <1>0, <2>2, PeerAssumption DEF Begin, Left, Typed, TypeOK
  <2> QED
    BY <2>1, <2>2
<1> HIDE DEF A, e
<1>10. UploadTimeout * Cardinality(A') = UploadTimeout * Cardinality(A) - UploadTimeout
  BY <1>5, <1>8, PeerAssumption
<1>11. Wait(g, d)' <= Wait(g, d) /\ Wait(g, d)' \in Int /\ Wait(g, d) \in Int
  BY <1>5, <1>9, <1>10, PeerAssumption DEF Wait, A
<1>12. idle[d] \in Int /\ Longest \in Int
  BY <1>0, OthersTyped, PeerAssumption DEF Typed, TypeOK, Longest
<1> QED
  BY <1>7, <1>11, <1>12 DEF InSight

LEMMA ReachedStep == InTime /\ AgeInv /\ ScansBounded /\ [Next]_vars => Reached'
<1> SUFFICES ASSUME InTime, AgeInv, ScansBounded, [Next]_vars,
                    NEW d \in (present \ marked)', lock'[d] = None, idle'[d] > quiet'
             PROVE  \E g \in Goroutine : InSight(d, g)'
  BY DEF Reached
<1>0. d \in Dump /\ Typed /\ Typed'
  BY TypedStep DEF AgeInv, Typed, TypeOK
<1>00. idle'[d] # 0 /\ quiet \in Nat
  BY <1>0, PeerAssumption DEF Typed, TypeOK
<1>1. ASSUME d \in present \ marked, lock[d] = None, idle'[d] = idle[d],
             UNCHANGED <<at, held, quiet>>,
             \A g \in Goroutine : todo[g] # {} => todo'[g] = todo[g]
      PROVE  \E g \in Goroutine : InSight(d, g)'
  <2>1. PICK g \in Goroutine : InSight(d, g)
    BY <1>1 DEF AgeInv, Reached
  <2>2. todo'[g] = todo[g]
    BY <1>1, <2>1 DEF InSight
  <2> QED
    BY <1>1, <2>1, <2>2 DEF InSight, Wait, Left, Ahead
<1>2. ASSUME NEW e \in Dump, Mkdir(e) \/ Write(e) \/ PickVictim(e)
      PROVE  \E g \in Goroutine : InSight(d, g)'
  <2>1. d \in present \ marked
    BY <1>0, <1>00, <1>2
    DEF Mkdir, Touch, Write, WriteFile, Finish, WriterKilled, PickVictim, dir, Typed, TypeOK
  <2>2. lock[d] = None /\ idle'[d] = idle[d]
    BY <1>0, <1>00, <1>2
    DEF Typed, TypeOK, Mkdir, Write, WriteFile, Finish, WriterKilled, PickVictim, Touch, dir
  <2>3. UNCHANGED <<at, held, quiet>> /\ \A g \in Goroutine : todo[g] # {} => todo'[g] = todo[g]
    BY <1>0, <1>2
    DEF AgeInv, Unstarted, Typed, TypeOK, Mkdir, Write, WriteFile, Finish, WriterKilled,
        PickVictim, worker
  <2> QED
    BY <1>1, <2>1, <2>2, <2>3
<1>3. ASSUME NEW h \in Goroutine, Skip(h) \/ OpenRefused(h) \/ Begin(h)
      PROVE  \E g \in Goroutine : InSight(d, g)'
  <2>1. d \in present \ marked /\ quiet' = quiet
    BY <1>3 DEF Skip, OpenRefused, Begin, dir
  <2>2. lock[d] = None /\ idle'[d] = idle[d]
    <3>1. CASE Skip(h) \/ OpenRefused(h)
      BY <3>1 DEF Skip, OpenRefused, dir
    <3>2. CASE Begin(h)
      <4> DEFINE e == NextOf(h)
      <4>1. /\ lock' = [lock EXCEPT ![e] = h] /\ idle' = [idle EXCEPT ![e] = 0]
        BY <3>2 DEF Begin, Touch
      <4> HIDE DEF e
      <4> QED
        BY <1>0, <1>00, <4>1 DEF Typed, TypeOK
    <3> QED
      BY <1>3, <3>1, <3>2
  <2>3. PICK g \in Goroutine : InSight(d, g)
    BY <2>1, <2>2 DEF AgeInv, Reached
  <2>4. CASE g = h
    BY <1>3, <2>1, <2>2, <2>3, <2>4, Nearer
  <2>5. CASE g # h
    <3>1. todo'[g] = todo[g] /\ at'[g] = at[g] /\ held'[g] = held[g]
      BY <1>0, <1>3, <2>5 DEF Skip, OpenRefused, Begin, Pass, Typed, TypeOK
    <3> QED
      BY <2>2, <2>3, <3>1 DEF InSight, Wait, Left, Ahead
  <2> QED
    BY <2>4, <2>5
<1>4. ASSUME NEW h \in Goroutine, UploadOk(h) \/ UploadFails(h)
      PROVE  \E g \in Goroutine : InSight(d, g)'
  <2>1. at[h] \in Dump
    BY <1>0, <1>4 DEF UploadOk, UploadFails, Typed, TypeOK
  <2>2. /\ lock' = [lock EXCEPT ![at[h]] = None]
        /\ IF lock[at[h]] = None THEN idle' = idle ELSE idle' = [idle EXCEPT ![at[h]] = 0]
        /\ lock[at[h]] = None => marked' = marked
        /\ marked \subseteq marked' /\ UNCHANGED <<present, todo, quiet>>
        /\ at' = [at EXCEPT ![h] = None]
        /\ held' = [held EXCEPT ![h] = 0]
    BY <1>4 DEF UploadOk, UploadFails, Unlock, Leave, Touch
  <2>3. d \in present \ marked /\ lock[d] = None /\ idle'[d] = idle[d]
    BY <1>0, <1>00, <2>1, <2>2 DEF Typed, TypeOK
  <2>4. PICK g \in Goroutine : InSight(d, g)
    BY <2>2, <2>3 DEF AgeInv, Reached
  <2>5. Left(g)' <= Left(g) /\ Left(g)' \in Int /\ Left(g) \in Int
    <3>1. CASE g = h
      BY <1>0, <2>2, <3>1, WaitTyped DEF Left, Typed, TypeOK
    <3>2. CASE g # h
      BY <1>0, <2>2, <3>2, WaitTyped DEF Left, Typed, TypeOK
    <3> QED
      BY <3>1, <3>2
  <2>6. Ahead(g, d)' = Ahead(g, d)
    BY <2>2 DEF Ahead
  <2>7. UploadTimeout * Cardinality(Ahead(g, d)) \in Int
    BY <1>0, WaitTyped
  <2>8. Wait(g, d)' <= Wait(g, d) /\ Wait(g, d)' \in Int /\ Wait(g, d) \in Int
    BY <2>5, <2>6, <2>7 DEF Wait
  <2>9. idle[d] \in Int /\ Longest \in Int
    BY <1>0, OthersTyped, PeerAssumption DEF Typed, TypeOK, Longest
  <2> QED
    BY <2>2, <2>3, <2>4, <2>8, <2>9 DEF InSight
<1>5. ASSUME NEW e \in Dump, Remove(e) PROVE \E g \in Goroutine : InSight(d, g)'
  <2>1. d \in present \ marked /\ lock[d] = None /\ idle'[d] = idle[d]
    <3>1. CASE Unlink(e)
      BY <1>0, <1>00, <3>1 DEF Unlink, Touch, Typed, TypeOK
    <3>2. CASE RmdirOk(e) \/ RmdirFails(e)
      BY <3>2 DEF RmdirOk, RmdirFails, dir
    <3> QED
      BY <1>5, <3>1, <3>2 DEF Remove
  <2>2. UNCHANGED <<worker, quiet>>
    BY <1>5 DEF Remove, Unlink, RmdirOk, RmdirFails
  <2> QED
    BY <1>1, <2>1, <2>2 DEF worker
<1>6. CASE Tick
  <2>1. d \in present \ marked /\ lock[d] = None /\ Waiting
    BY <1>6 DEF Tick
  <2>2. Free # {}
    BY <1>0, <2>1, SomebodyIsFree
  <2>3. PICK S \in SUBSET Free :
          /\ S # {} \/ quiet < ScanGap
          /\ todo' = [g \in Goroutine |-> IF g \in S THEN Dump ELSE todo[g]]
          /\ quiet' = IF S # {} THEN 0 ELSE IF quiet < ScanGap THEN quiet + 1 ELSE quiet
    BY <1>6, <2>2 DEF Tick
  <2>4. /\ idle'[d] \in {idle[d], idle[d] + 1} /\ idle[d] \in Nat
        /\ quiet <= ScanGap /\ ScanGap \in Nat
    BY <1>0, <1>6, PeerAssumption DEF Tick, Typed, TypeOK
  <2>5. CASE idle[d] <= quiet
    <3>1. S # {}
      BY <1>00, <2>3, <2>4, <2>5
    <3>2. PICK g \in Goroutine : g \in S /\ at[g] = None
      BY <3>1, Goroutines DEF Free
    <3>3. todo'[g] = Dump /\ at'[g] = None
      BY <1>6, <2>3, <3>2 DEF Tick
    <3>4. Ahead(g, d)' \in SUBSET Dump /\ d \notin Ahead(g, d)'
      BY <1>0, <3>3, PeerAssumption DEF Ahead
    <3>5. /\ UploadTimeout * Cardinality(Ahead(g, d)') <= UploadTimeout * Others
          /\ UploadTimeout * Others \in Nat
          /\ UploadTimeout * Cardinality(Ahead(g, d)') \in Nat
      BY <1>0, <3>2, <3>4, OthersBound, WaitTyped, PeerAssumption
    <3>6. idle'[d] <= ScanGap + 1 /\ idle'[d] \in Nat
      BY <1>00, <2>4, <2>5
    <3>7. Wait(g, d)' = UploadTimeout * Cardinality(Ahead(g, d)')
      BY <3>3, <3>5 DEF Wait, Left
    <3> QED
      BY <1>0, <2>4, <3>2, <3>3, <3>5, <3>6, <3>7 DEF InSight, Longest
  <2>6. CASE idle[d] > quiet
    <3>1. PICK g \in Goroutine : InSight(d, g)
      BY <2>1, <2>6 DEF AgeInv, Reached
    <3>2. at[g] # None /\ g \notin S
      BY <2>1, <2>3, <3>1 DEF InSight, Waiting, Free
    <3>3. todo'[g] = todo[g] /\ at'[g] = at[g] /\ held'[g] = held[g] + 1
      BY <1>0, <1>6, <2>3, <3>2 DEF Tick, Typed, TypeOK
    <3>4. Left(g)' = Left(g) - 1 /\ Left(g) \in Int
      BY <1>0, <3>2, <3>3, PeerAssumption DEF Left, Typed, TypeOK
    <3>5. Ahead(g, d)' = Ahead(g, d) /\ UploadTimeout * Cardinality(Ahead(g, d)) \in Int
      <4>1. Ahead(g, d)' = Ahead(g, d)
        BY <3>3 DEF Ahead
      <4>2. UploadTimeout * Cardinality(Ahead(g, d)) \in Nat
        BY <1>0, WaitTyped
      <4> QED
        BY <4>1, <4>2
    <3>6. Wait(g, d)' = Wait(g, d) - 1 /\ Wait(g, d) \in Int
      BY <3>4, <3>5 DEF Wait
    <3>7. Longest \in Int
      BY <1>0, OthersTyped, PeerAssumption DEF Longest
    <3> QED
      BY <2>4, <3>1, <3>3, <3>6, <3>7 DEF InSight
  <2> QED
    BY <1>00, <2>4, <2>5, <2>6
<1>8. ASSUME NEW h \in Goroutine, Check(h) PROVE \E g \in Goroutine : InSight(d, g)'
  BY <1>1, <1>8 DEF Check, dir
<1>7. CASE UNCHANGED vars
  BY <1>1, <1>7 DEF vars, dir, worker
<1> QED
  BY <1>2, <1>3, <1>4, <1>5, <1>6, <1>7, <1>8 DEF Next, Step, Work

(* watcher.go 474-543 and dump/cleanup.go: the retention by age takes only   *)
(* dumps that are in the storage, for every number of dumps, files, scans    *)
(* and services, when DumpTTL leaves the scans that time; a storage that     *)
(* hangs on every dump, an upload that always fails, locks lost to other     *)
(* removals and killed writers included.                                     *)
THEOREM YoungAreKept == InTime => (Spec => []NotByAge)
<1>1. Init => AgeInv
  <2>1. Init => Attended /\ Unstarted /\ Reached
    BY Goroutines DEF Init, Attended, Unstarted, Reached
  <2> QED
    BY <2>1, TypedInit DEF AgeInv
<1>2. InTime /\ AgeInv /\ ScansBounded /\ [Next]_vars => AgeInv'
  BY TypedStep, UnstartedStep, AttendedStep, ReachedStep DEF AgeInv
<1>3. InTime /\ AgeInv => NotByAge
  <2> SUFFICES ASSUME InTime, AgeInv PROVE NotByAge
    OBVIOUS
  <2> SUFFICES ASSUME NEW d \in present \ marked PROVE idle[d] < DumpTTL
    <3>1. \A d \in Dump : idle[d] \in Int /\ DumpTTL \in Int
      BY PeerAssumption DEF AgeInv, Typed, TypeOK
    <3> QED
      BY <3>1 DEF NotByAge, Expired, AgeInv, Typed, TypeOK
  <2>0. /\ d \in Dump /\ Typed /\ idle[d] \in Nat /\ DumpTTL \in Nat /\ UploadTimeout \in Nat
        /\ quiet \in Nat /\ quiet <= ScanGap /\ ScanGap \in Nat
    BY PeerAssumption DEF AgeInv, Typed, TypeOK
  <2>1. UploadTimeout * Others \in Nat
    BY <2>0, OthersTyped
  <2>2. CASE lock[d] # None
    <3>1. idle[d] <= held[lock[d]] /\ lock[d] \in Goroutine
      BY <2>0, <2>2 DEF AgeInv, Attended, Typed, TypeOK
    <3>2. held[lock[d]] \in 0..UploadTimeout
      BY <2>0, <3>1 DEF Typed, TypeOK
    <3> QED
      BY <2>0, <3>1, <3>2 DEF InTime
  <2>3. CASE lock[d] = None /\ idle[d] > quiet
    <3>1. PICK g \in Goroutine : InSight(d, g)
      BY <2>3 DEF AgeInv, Reached
    <3>2. Wait(g, d) \in Nat
      BY <2>0, WaitTyped
    <3> QED
      BY <2>0, <2>1, <3>1, <3>2 DEF InSight, InTime, Longest
  <2>4. CASE idle[d] <= quiet
    BY <2>0, <2>1, <2>4 DEF InTime, Longest
  <2> QED
    BY <2>0, <2>2, <2>3, <2>4
<1> SUFFICES ASSUME InTime PROVE Spec => []NotByAge
  OBVIOUS
<1>4. Spec => []ScansBounded
  BY ScansAreBounded
<1>5. AgeInv /\ ScansBounded /\ [Next]_vars => AgeInv'
  BY <1>2
<1>6. AgeInv => NotByAge
  BY <1>3
<1> QED
  BY <1>1, <1>4, <1>5, <1>6, PTL DEF Spec
=============================================================================
