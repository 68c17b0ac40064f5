-------------------------- MODULE UploadLockProofs --------------------------
(* Proofs about UploadLock for every set of uploaders and every timeout. *)
EXTENDS UploadLock, FiniteSetTheorems, TLAPS

(***************************************************************************)
(* While an uploader holds, its deadline has not passed; and if the lock   *)
(* on disk is its own, the age of the lock is the time since it opened it. *)
(***************************************************************************)
Deadlines ==
  \A u \in Uploader : Holding(u) => held[u] <= UploadTimeout[u] + Slack

UploadDeadlines ==
  \A u \in Uploader : pc[u] = "upload" => held[u] <= UploadTimeout[u]

AgeIsHeld ==
  \A u \in Uploader :
    Holding(u) /\ lockOwner = u =>
      lockAge = IF held[u] < AgeCap THEN held[u] ELSE AgeCap

LeaseInv == TypeOK /\ Deadlines /\ UploadDeadlines /\ AgeIsHeld

LEMMA TypeOKInit == Init => TypeOK
<1> SUFFICES ASSUME Init PROVE TypeOK
  OBVIOUS
<1>1. /\ lockAge \in 0..AgeCap /\ rework \in Nat
      /\ crashes \in 0..MaxCrashes /\ faults \in 0..MaxFaults
  BY TimeAssumption, CrashAssumption DEF Init
<1>2. pc \in [Uploader -> {"idle", "stat", "remove", "open",
                          "upload", "release", "rename", "drop"}]
  BY DEF Init
<1>3. held \in [Uploader -> Nat]
  BY DEF Init
<1>4. uploaded \in BOOLEAN /\ stored \in BOOLEAN
  BY Zenon DEF Init
<1>5. lockOwner \in Uploader \cup {None}
  BY DEF Init
<1>6. lockOwner = None => lockAge = 0
  BY DEF Init
<1> QED
  BY <1>1, <1>2, <1>3, <1>4, <1>5, <1>6 DEF TypeOK

(* The variables keep their types: tryUpload never leaves its states and   *)
(* the age of a lock stays within the bound.                               *)
THEOREM TypeCorrect == Spec => []TypeOK
<1>1. Init => TypeOK
  BY TypeOKInit
<1>2. TypeOK /\ [Next]_vars => TypeOK'
  <2> SUFFICES ASSUME TypeOK, [Next]_vars PROVE TypeOK'
    OBVIOUS
  <2> USE TimeAssumption, CrashAssumption DEF TypeOK, Goto, NoLock, counters
  <2>1. ASSUME NEW u \in Uploader, CheckUploaded(u) PROVE TypeOK'
    BY <2>1 DEF CheckUploaded
  <2>2. ASSUME NEW u \in Uploader, StatLock(u) PROVE TypeOK'
    BY <2>2 DEF StatLock
  <2>3. ASSUME NEW u \in Uploader, RemoveStale(u) PROVE TypeOK'
    BY <2>3 DEF RemoveStale
  <2>4. ASSUME NEW u \in Uploader, OpenLock(u) PROVE TypeOK'
    BY <2>4 DEF OpenLock
  <2>5. ASSUME NEW u \in Uploader, OpenRefused(u) PROVE TypeOK'
    BY <2>5 DEF OpenRefused
  <2>6. ASSUME NEW u \in Uploader, UploadOk(u) PROVE TypeOK'
    BY <2>6 DEF UploadOk
  <2>7. ASSUME NEW u \in Uploader, UploadFails(u) PROVE TypeOK'
    BY <2>7 DEF UploadFails
  <2>8. ASSUME NEW u \in Uploader, Release(u) PROVE TypeOK'
    BY <2>8 DEF Release
  <2>9. ASSUME NEW u \in Uploader, ReleaseFails(u) PROVE TypeOK'
    BY <2>9 DEF ReleaseFails
  <2>10. ASSUME NEW u \in Uploader, RenameOk(u) PROVE TypeOK'
    BY <2>10 DEF RenameOk
  <2>11. ASSUME NEW u \in Uploader, RenameFails(u) PROVE TypeOK'
    BY <2>11 DEF RenameFails
  <2>12. ASSUME NEW u \in Uploader, Crash(u) PROVE TypeOK'
    BY <2>12 DEF Crash
  <2>13. ASSUME NEW u \in Uploader, StatFails(u) PROVE TypeOK'
    BY <2>13 DEF StatFails
  <2>14. ASSUME NEW u \in Uploader, RemoveStaleFails(u) PROVE TypeOK'
    BY <2>14 DEF RemoveStaleFails
  <2>15. CASE Tick
    BY <2>15 DEF Tick
  <2>16. CASE UNCHANGED vars
    BY <2>16 DEF vars
  <2> QED
    BY <2>1, <2>2, <2>3, <2>4, <2>5, <2>6, <2>7, <2>8, <2>9, <2>10, <2>11,
       <2>12, <2>13, <2>14, <2>15, <2>16 DEF Next, Step
<1> QED
  BY <1>1, <1>2, PTL DEF Spec

-----------------------------------------------------------------------------
LEMMA LeaseInvInit == Init => LeaseInv
<1> SUFFICES ASSUME Init PROVE LeaseInv
  OBVIOUS
<1>1. \A u \in Uploader : ~Holding(u)
  BY DEF Init, Holding
<1>2. \A u \in Uploader : pc[u] # "upload"
  BY DEF Init
<1> QED
  BY <1>1, <1>2, TypeOKInit
     DEF LeaseInv, Deadlines, UploadDeadlines, AgeIsHeld

(* Only OpenLock starts to hold, and it starts a fresh lock; only Tick lets *)
(* time pass.                                                              *)
LEMMA LeaseInvStep == LeaseInv /\ TypeOK' /\ [Next]_vars => LeaseInv'
<1> SUFFICES ASSUME LeaseInv, TypeOK', [Next]_vars PROVE LeaseInv'
  OBVIOUS
<1> DEFINE Parts == Deadlines /\ UploadDeadlines /\ AgeIsHeld
<1> SUFFICES Parts'
  BY DEF LeaseInv
<1> USE TimeAssumption
    DEF LeaseInv, TypeOK, Deadlines, UploadDeadlines, AgeIsHeld, Holding, Goto
<1>1. ASSUME NEW u \in Uploader, CheckUploaded(u) PROVE Parts'
  BY <1>1 DEF CheckUploaded
<1>2. ASSUME NEW u \in Uploader, StatLock(u) PROVE Parts'
  BY <1>2 DEF StatLock
<1>3. ASSUME NEW u \in Uploader, RemoveStale(u) PROVE Parts'
  BY <1>3, NoneAssumption DEF RemoveStale, NoLock
<1>4. ASSUME NEW u \in Uploader, OpenLock(u) PROVE Parts'
  BY <1>4 DEF OpenLock
<1>5. ASSUME NEW u \in Uploader, OpenRefused(u) PROVE Parts'
  BY <1>5 DEF OpenRefused
<1>6. ASSUME NEW u \in Uploader, UploadOk(u) PROVE Parts'
  BY <1>6 DEF UploadOk
<1>7. ASSUME NEW u \in Uploader, UploadFails(u) PROVE Parts'
  BY <1>7 DEF UploadFails
<1>8. ASSUME NEW u \in Uploader, Release(u) PROVE Parts'
  BY <1>8, NoneAssumption DEF Release, NoLock
<1>9. ASSUME NEW u \in Uploader, ReleaseFails(u) PROVE Parts'
  BY <1>9 DEF ReleaseFails
<1>10. ASSUME NEW u \in Uploader, RenameOk(u) PROVE Parts'
  BY <1>10, NoneAssumption DEF RenameOk, NoLock
<1>11. ASSUME NEW u \in Uploader, RenameFails(u) PROVE Parts'
  BY <1>11 DEF RenameFails
<1>12. ASSUME NEW u \in Uploader, Crash(u) PROVE Parts'
  BY <1>12 DEF Crash
<1>13. ASSUME NEW u \in Uploader, StatFails(u) PROVE Parts'
  BY <1>13 DEF StatFails
<1>14. ASSUME NEW u \in Uploader, RemoveStaleFails(u) PROVE Parts'
  BY <1>14 DEF RemoveStaleFails
<1>15. CASE Tick
  <2>1. Deadlines' /\ UploadDeadlines'
    BY <1>15 DEF Tick, MayHoldFor
  <2>2. AgeIsHeld'
    BY <1>15, NoneAssumption DEF Tick
  <2> QED
    BY <2>1, <2>2
<1>16. CASE UNCHANGED vars
  BY <1>16 DEF vars
<1> QED
  BY <1>1, <1>2, <1>3, <1>4, <1>5, <1>6, <1>7, <1>8, <1>9, <1>10, <1>11,
     <1>12, <1>13, <1>14, <1>15, <1>16 DEF Next, Step

(* The deadlines of the uploaders hold and the age of a lock is what its    *)
(* owner has held it for, at every step of tryUpload.                      *)
THEOREM LeaseInvariant == Spec => []LeaseInv
<1>1. LeaseInv /\ TypeOK' /\ [Next]_vars => LeaseInv'
  BY LeaseInvStep
<1> QED
  BY LeaseInvInit, TypeCorrect, <1>1, PTL DEF Spec

LEMMA LeaseGivesStale ==
  ASSUME CompatibleTimeouts, LeaseInv PROVE StaleMeansDead
<1> SUFFICES ASSUME NEW u \in Uploader, lockOwner # None, lockAge >= TTL(u),
                    Holding(lockOwner)
             PROVE  FALSE
  BY DEF StaleMeansDead
<1>1. lockOwner \in Uploader
  BY DEF LeaseInv, TypeOK
<1>2. held[lockOwner] <= UploadTimeout[lockOwner] + Slack
  BY <1>1 DEF LeaseInv, Deadlines
<1>3. UploadTimeout[lockOwner] + Slack < TTL(u) /\ TTL(u) <= AgeCap
  BY <1>1, TimeAssumption DEF CompatibleTimeouts, TTL
<1>4. lockAge = IF held[lockOwner] < AgeCap THEN held[lockOwner] ELSE AgeCap
  BY <1>1 DEF LeaseInv, AgeIsHeld
<1> QED
  BY <1>1, <1>2, <1>3, <1>4, TimeAssumption DEF LeaseInv, TypeOK, TTL

(* However many processes are killed, clearStaleLock judges rightly: the    *)
(* owner of a lock it finds expired has been killed, provided the services *)
(* of the node have upload timeouts within the grace period of each other. *)
THEOREM StaleLocksAreDead ==
  ASSUME CompatibleTimeouts PROVE Spec => []StaleMeansDead
<1>1. LeaseInv => StaleMeansDead
  BY LeaseGivesStale
<1> QED
  BY <1>1, LeaseInvariant, PTL

-----------------------------------------------------------------------------
(***************************************************************************)
(* Until somebody is killed or fails to remove a lock, the lock on disk    *)
(* and the holding uploader are the same thing, so the lock is never       *)
(* expired and nobody gets to remove it.                                   *)
(***************************************************************************)
HolderInv ==
  crashes = 0 =>
    /\ HolderOwnsLock
    /\ lockOwner # None => Holding(lockOwner)
    /\ \A u \in Uploader : pc[u] # "remove"

LEMMA HolderInvStep ==
  ASSUME CompatibleTimeouts, LeaseInv, HolderInv, [Next]_vars
  PROVE  HolderInv'
<1> SUFFICES ASSUME crashes' = 0 PROVE HolderInv'
  BY DEF HolderInv
<1>1. StaleMeansDead
  BY LeaseGivesStale
<1> USE NoneAssumption, TimeAssumption
    DEF HolderInv, HolderOwnsLock, LeaseInv, TypeOK, Holding, Goto, counters
<1>2. ASSUME NEW u \in Uploader, CheckUploaded(u) PROVE HolderInv'
  BY <1>2 DEF CheckUploaded
<1>3. ASSUME NEW u \in Uploader, StatLock(u) PROVE HolderInv'
  BY <1>1, <1>3 DEF StatLock, StaleMeansDead
<1>4. ASSUME NEW u \in Uploader, StatFails(u) PROVE HolderInv'
  BY <1>4 DEF StatFails
<1>5. ASSUME NEW u \in Uploader, RemoveStale(u) PROVE HolderInv'
  BY <1>5 DEF RemoveStale
<1>6. ASSUME NEW u \in Uploader, OpenLock(u) PROVE HolderInv'
  BY <1>6 DEF OpenLock
<1>7. ASSUME NEW u \in Uploader, OpenRefused(u) PROVE HolderInv'
  BY <1>7 DEF OpenRefused
<1>8. ASSUME NEW u \in Uploader, UploadOk(u) PROVE HolderInv'
  BY <1>8 DEF UploadOk
<1>9. ASSUME NEW u \in Uploader, UploadFails(u) PROVE HolderInv'
  BY <1>9 DEF UploadFails
<1>10. ASSUME NEW u \in Uploader, Release(u) PROVE HolderInv'
  BY <1>10 DEF Release, NoLock
<1>11. ASSUME NEW u \in Uploader, RemoveStaleFails(u) \/ ReleaseFails(u) \/ Crash(u)
       PROVE  HolderInv'
  BY <1>11 DEF RemoveStaleFails, ReleaseFails, Crash
<1>12. ASSUME NEW u \in Uploader, RenameOk(u) PROVE HolderInv'
  BY <1>12 DEF RenameOk, NoLock
<1>13. ASSUME NEW u \in Uploader, RenameFails(u) PROVE HolderInv'
  BY <1>13 DEF RenameFails
<1>14. CASE Tick
  BY <1>14 DEF Tick
<1>15. CASE UNCHANGED vars
  BY <1>15 DEF vars
<1> QED
  BY <1>2, <1>3, <1>4, <1>5, <1>6, <1>7, <1>8, <1>9, <1>10, <1>11, <1>12,
     <1>13, <1>14, <1>15 DEF Next, Step

LEMMA HolderInvariant ==
  ASSUME CompatibleTimeouts PROVE Spec => []HolderInv
<1>1. Init => HolderInv
  BY DEF Init, HolderInv, HolderOwnsLock, Holding
<1>2. LeaseInv /\ HolderInv /\ [Next]_vars => HolderInv'
  BY HolderInvStep
<1> QED
  BY <1>1, <1>2, LeaseInvariant, PTL DEF Spec

(* Until somebody is killed or fails to remove a lock, the lock file that a  *)
(* holder renames or removes by its path is the one it created.            *)
THEOREM HolderOwns ==
  ASSUME CompatibleTimeouts PROVE Spec => []HolderOwnsLock
<1>1. HolderInv => HolderOwnsLock
  BY DEF HolderInv, HolderOwnsLock
<1> QED
  BY <1>1, HolderInvariant, PTL

(* ... and until then two services never upload the same dump at once.      *)
THEOREM Mutex ==
  ASSUME CompatibleTimeouts PROVE Spec => [](crashes = 0 => MutualExclusion)
<1>1. HolderInv => (crashes = 0 => MutualExclusion)
  BY DEF HolderInv, HolderOwnsLock, MutualExclusion
<1> QED
  BY <1>1, HolderInvariant, PTL

-----------------------------------------------------------------------------
(* Only an upload that returned nil is followed by the rename.             *)
StoredInv ==
  /\ uploaded => stored
  /\ \A u \in Uploader : pc[u] = "rename" => stored

LEMMA StoredInvariant == Spec => []StoredInv
<1>1. Init => StoredInv
  BY DEF Init, StoredInv
<1>2. TypeOK /\ StoredInv /\ [Next]_vars => StoredInv'
  <2> SUFFICES ASSUME TypeOK, StoredInv, [Next]_vars PROVE StoredInv'
    OBVIOUS
  <2>1. CASE \E u \in Uploader : UploadOk(u)
    BY <2>1 DEF UploadOk, StoredInv
  <2>2. CASE \E u \in Uploader : RenameOk(u)
    BY <2>2 DEF RenameOk, StoredInv
  <2>3. CASE UNCHANGED <<uploaded, stored>> /\
             \A v \in Uploader : pc'[v] = "rename" => pc[v] = "rename"
    BY <2>3 DEF StoredInv
  <2>4. CASE \E u \in Uploader :
             \/ CheckUploaded(u) \/ StatLock(u) \/ RemoveStale(u) \/ OpenLock(u)
             \/ OpenRefused(u) \/ UploadFails(u) \/ Release(u) \/ RenameFails(u)
             \/ ReleaseFails(u) \/ Crash(u) \/ StatFails(u) \/ RemoveStaleFails(u)
    <3>1. UNCHANGED <<uploaded, stored>>
      BY <2>4 DEF CheckUploaded, StatLock, RemoveStale, OpenLock, OpenRefused,
         UploadFails, Release, RenameFails, ReleaseFails, Crash, StatFails,
         RemoveStaleFails
    <3>2. \A v \in Uploader : pc'[v] = "rename" => pc[v] = "rename"
      BY <2>4 DEF TypeOK, Goto, CheckUploaded, StatLock, RemoveStale, OpenLock,
         OpenRefused, UploadFails, Release, RenameFails, ReleaseFails, Crash,
         StatFails, RemoveStaleFails
    <3> QED
      BY <2>3, <3>1, <3>2
  <2>5. CASE Tick \/ UNCHANGED vars
    BY <2>3, <2>5 DEF Tick, vars
  <2> QED
    BY <2>1, <2>2, <2>4, <2>5 DEF Next, Step
<1> QED
  BY <1>1, <1>2, TypeCorrect, PTL DEF Spec

(* .uploaded never disappears and never precedes a complete copy, whatever  *)
(* is killed and whoever's lock is stolen.                                 *)
THEOREM MarkerIsTruthful == Spec => UploadedForGood
<1>1. StoredInv' /\ [Next]_vars
        => [uploaded' # uploaded => uploaded' /\ stored]_vars
  <2> SUFFICES ASSUME StoredInv', Next, uploaded' # uploaded
               PROVE  uploaded' /\ stored
    BY DEF vars
  <2>1. PICK u \in Uploader : RenameOk(u)
    BY DEF Next, Step, CheckUploaded, StatLock, RemoveStale, OpenLock,
       OpenRefused, UploadOk, UploadFails, Release, RenameFails, ReleaseFails,
       Crash, Tick, StatFails, RemoveStaleFails
  <2> QED
    BY <2>1 DEF RenameOk, StoredInv
<1> QED
  BY <1>1, StoredInvariant, PTL DEF Spec, UploadedForGood

-----------------------------------------------------------------------------
(***************************************************************************)
(* An upload that is begun although the dump is marked is begun by one who *)
(* had looked before the mark was made, or whose look failed.  The         *)
(* uploader that made it is not among them.                                *)
(***************************************************************************)
PastCheck == {u \in Uploader : pc[u] \in {"stat", "remove", "open"}}

ReworkInv ==
  IF uploaded THEN rework + Cardinality(PastCheck) <= Cardinality(Uploader) - 1 + faults
              ELSE rework = 0

LEMMA CardOfPastCheck ==
  /\ IsFiniteSet(PastCheck) /\ Cardinality(PastCheck) \in Nat
  /\ IsFiniteSet(PastCheck') /\ Cardinality(PastCheck') \in Nat
  /\ Cardinality(Uploader) \in Nat /\ Cardinality(Uploader) >= 1
<1>1. Cardinality(Uploader) \in Nat /\ Cardinality(Uploader) # 0
  BY UploaderAssumption, FS_CardinalityType, FS_EmptySet
<1> QED
  BY <1>1, UploaderAssumption, FS_Subset, FS_CardinalityType DEF PastCheck

LEMMA ReworkStep == TypeOK /\ ReworkInv /\ [Next]_vars => ReworkInv'
<1> SUFFICES ASSUME TypeOK, ReworkInv, [Next]_vars PROVE ReworkInv'
  OBVIOUS
<1>0. rework \in Nat /\ faults \in Nat /\ uploaded \in BOOLEAN
  BY CrashAssumption DEF TypeOK
<1>1. ASSUME NEW u \in Uploader, OpenLock(u) PROVE ReworkInv'
  <2>1. u \in PastCheck /\ PastCheck' = PastCheck \ {u}
    BY <1>1 DEF OpenLock, Goto, PastCheck, TypeOK
  <2>2. Cardinality(PastCheck') = Cardinality(PastCheck) - 1
    BY <2>1, CardOfPastCheck, FS_RemoveElement
  <2>3. /\ uploaded' = uploaded /\ faults' = faults
        /\ rework' = IF uploaded THEN rework + 1 ELSE rework
    BY <1>1 DEF OpenLock
  <2> QED
    BY <1>0, <2>2, <2>3, CardOfPastCheck DEF ReworkInv
<1>2. ASSUME NEW u \in Uploader, RenameOk(u) PROVE ReworkInv'
  <2>1. /\ uploaded' = TRUE /\ UNCHANGED <<rework, faults>>
        /\ PastCheck' = PastCheck /\ u \notin PastCheck
    BY <1>2 DEF RenameOk, Goto, PastCheck, TypeOK, counters
  <2>2. Cardinality(PastCheck) <= Cardinality(Uploader) - 1
    <3>1. PastCheck \subseteq Uploader \ {u}
      BY <2>1 DEF PastCheck
    <3>2. IsFiniteSet(Uploader \ {u}) /\ Cardinality(Uploader \ {u}) = Cardinality(Uploader) - 1
      BY UploaderAssumption, FS_RemoveElement
    <3> QED
      BY <3>1, <3>2, FS_Subset
  <2> QED
    BY <1>0, <2>1, <2>2, CardOfPastCheck DEF ReworkInv
<1>3. ASSUME UNCHANGED <<uploaded, rework, faults>>, uploaded => PastCheck' \subseteq PastCheck
      PROVE  ReworkInv'
  <2>1. uploaded => Cardinality(PastCheck') <= Cardinality(PastCheck)
    BY <1>3, CardOfPastCheck, FS_Subset
  <2> QED
    BY <1>0, <1>3, <2>1, CardOfPastCheck DEF ReworkInv
<1>4. ASSUME NEW u \in Uploader,
             \/ CheckUploaded(u) \/ StatLock(u) \/ RemoveStale(u) \/ OpenRefused(u)
             \/ UploadOk(u) \/ UploadFails(u) \/ Release(u) \/ RenameFails(u)
             \/ ReleaseFails(u) \/ Crash(u) \/ RemoveStaleFails(u)
      PROVE  ReworkInv'
  <2>1. UNCHANGED <<uploaded, rework, faults>>
    BY <1>4 DEF CheckUploaded, StatLock, RemoveStale, OpenRefused, UploadOk, UploadFails,
       Release, RenameFails, ReleaseFails, Crash, RemoveStaleFails, counters
  <2>2. uploaded => PastCheck' \subseteq PastCheck
    BY <1>4 DEF CheckUploaded, StatLock, RemoveStale, OpenRefused, UploadOk, UploadFails,
       Release, RenameFails, ReleaseFails, Crash, RemoveStaleFails, Goto, PastCheck,
       TypeOK
  <2> QED
    BY <1>3, <2>1, <2>2
<1>5. ASSUME NEW u \in Uploader, StatFails(u) PROVE ReworkInv'
  <2>1. UNCHANGED <<uploaded, rework>> /\ faults' = faults + 1
    BY <1>5 DEF StatFails
  <2>2. PastCheck' = PastCheck \cup {u}
    BY <1>5 DEF StatFails, Goto, PastCheck, TypeOK
  <2>3. Cardinality(PastCheck') <= Cardinality(PastCheck) + 1
    BY <2>2, CardOfPastCheck, FS_AddElement
  <2> QED
    BY <1>0, <2>1, <2>3, CardOfPastCheck DEF ReworkInv
<1>6. CASE Tick \/ UNCHANGED vars
  BY <1>3, <1>6 DEF Tick, vars, counters, PastCheck
<1> QED
  BY <1>1, <1>2, <1>4, <1>5, <1>6 DEF Next, Step

(* tryUpload does not look for .uploaded again once it has the lock: a dump  *)
(* is copied again at most once by each of the other uploaders and once for *)
(* every look that fails, whatever is killed and whoever's lock is stolen.  *)
THEOREM ReworkIsBounded == Spec => []BoundedRework
<1>1. Init => ReworkInv
  BY DEF Init, ReworkInv
<1>2. TypeOK /\ ReworkInv => BoundedRework
  BY CardOfPastCheck, CrashAssumption DEF TypeOK, ReworkInv, BoundedRework
<1> QED
  BY <1>1, <1>2, TypeCorrect, ReworkStep, PTL DEF Spec

-----------------------------------------------------------------------------
LEMMA StepImplements ==
  ASSUME TypeOK, HolderInv, StoredInv, Next, crashes' = 0
  PROVE  Once!Next \/ UNCHANGED Once!vars
<1> DEFINE Active == {u \in Uploader : Holding(u)}
<1>0. crashes = 0
  BY CrashAssumption DEF TypeOK, Next, Step, CheckUploaded, StatLock, RemoveStale,
     OpenLock, OpenRefused, UploadOk, UploadFails, Release, RenameOk, RenameFails,
     StatFails, RemoveStaleFails, ReleaseFails, Crash, Tick, counters
<1>1. \A u \in Active : Active = {u}
  BY <1>0 DEF HolderInv, HolderOwnsLock
<1> USE DEF TypeOK, Holding, Goto, Once!vars
<1>2. ASSUME NEW u \in Uploader,
             \/ CheckUploaded(u) \/ StatLock(u) \/ RemoveStale(u) \/ OpenRefused(u)
             \/ StatFails(u) \/ RemoveStaleFails(u)
      PROVE  UNCHANGED Once!vars
  BY <1>2 DEF CheckUploaded, StatLock, RemoveStale, OpenRefused, StatFails,
     RemoveStaleFails
<1>3. ASSUME NEW u \in Uploader, OpenLock(u) PROVE Once!Begin(u)
  <2>1. Active = {}
    BY <1>0, <1>3, NoneAssumption DEF OpenLock, HolderInv, HolderOwnsLock
  <2>2. Active' = {u}
    BY <1>3, <2>1 DEF OpenLock
  <2> QED
    BY <1>3, <2>1, <2>2 DEF OpenLock, Once!Begin
<1>4. ASSUME NEW u \in Uploader, UploadOk(u) PROVE Once!Store(u)
  <2>1. u \in Active /\ Active' = Active
    BY <1>4 DEF UploadOk
  <2> QED
    BY <1>4, <2>1 DEF UploadOk, Once!Store
<1>5. ASSUME NEW u \in Uploader, UploadFails(u) \/ RenameFails(u)
      PROVE  UNCHANGED Once!vars
  BY <1>5 DEF UploadFails, RenameFails
<1>6. ASSUME NEW u \in Uploader, Release(u) \/ ReleaseFails(u) \/ Crash(u)
      PROVE  Once!GiveUp(u) \/ UNCHANGED Once!vars
  <2>1. Active' = Active \ {u} /\ UNCHANGED <<stored, uploaded>>
    BY <1>6 DEF Release, ReleaseFails, Crash
  <2> QED
    BY <2>1 DEF Once!GiveUp
<1>7. ASSUME NEW u \in Uploader, RenameOk(u) PROVE Once!Publish(u)
  <2>1. u \in Active /\ Active' = Active \ {u}
    BY <1>7 DEF RenameOk
  <2> QED
    BY <1>7, <2>1 DEF RenameOk, StoredInv, Once!Publish
<1>8. CASE Tick
  BY <1>8 DEF Tick
<1> QED
  BY <1>2, <1>3, <1>4, <1>5, <1>6, <1>7, <1>8 DEF Next, Step, Once!Next

(* Until somebody is killed or fails to remove a lock, the lock protocol is  *)
(* an implementation of the one-at-a-time upload it is meant to be.        *)
THEOREM Implements ==
  ASSUME CompatibleTimeouts PROVE Spec => OneAtATime
<1>1. Init => Once!Init
  BY DEF Init, Holding, Once!Init
<1>2. TypeOK /\ HolderInv /\ StoredInv /\ [Next]_vars
        => [crashes' = 0 => Once!Next \/ UNCHANGED Once!vars]_vars
  BY StepImplements
<1> QED
  BY <1>1, <1>2, TypeCorrect, HolderInvariant, StoredInvariant, PTL
     DEF Spec, OneAtATime
=============================================================================
