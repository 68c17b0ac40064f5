----------------------------- MODULE UploadLock -----------------------------
(***************************************************************************)
(* tryUpload and clearStaleLock of watcher.go on one dump directory.  An   *)
(* Uploader is one goroutine that runs tryUpload on that directory over    *)
(* and over: after the dump was written, and on every peer scan of any     *)
(* service of the node.  The only thing the uploaders share is the file    *)
(* system: the lock file .uploading, with its modification time, and the   *)
(* marker .uploaded.  Every system call is a step of its own, so another   *)
(* uploader can act between any two of them.                               *)
(*                                                                         *)
(* Time is counted in ticks.  The age of the lock is only ever compared    *)
(* with a TTL, so it saturates there and the model needs no clock.         *)
(***************************************************************************)
EXTENDS Integers, FiniteSets

CONSTANTS
  Uploader,       \* goroutines that may run tryUpload on the directory
  None,           \* no lock file
  UploadTimeout,  \* cfg.UploadTimeout, in ticks, of each uploader's service
  Grace,          \* the 30 s clearStaleLock adds to it
  Slack,          \* longest delay from Upload's return to the rename or remove
  AgeCap,         \* lock ages from here on are not told apart
  MaxCrashes,     \* bound on kills and on failed removals of the lock
  MaxFaults       \* bound on failed looks at .uploaded and .uploading

ASSUME NoneAssumption == None \notin Uploader

ASSUME UploaderAssumption == IsFiniteSet(Uploader) /\ Uploader # {}

ASSUME TimeAssumption ==
  /\ UploadTimeout \in [Uploader -> Nat \ {0}]
  /\ Grace \in Nat
  /\ Slack \in Nat
  /\ AgeCap \in Nat
  /\ \A u \in Uploader : UploadTimeout[u] + Grace <= AgeCap

ASSUME CrashAssumption == MaxCrashes \in Nat /\ MaxFaults \in Nat

VARIABLES
  lockOwner,  \* who created the .uploading file on disk, None if there is none
  lockAge,    \* time since its ModTime, at most AgeCap
  uploaded,   \* the .uploaded marker is on disk
  pc,         \* the next system call of each uploader
  held,       \* time since the uploader's own OpenFile
  stored,     \* history: some Upload returned nil
  rework,     \* history: uploads begun although .uploaded was on disk
  crashes, faults

counters == <<rework, crashes, faults>>
vars == <<lockOwner, lockAge, uploaded, pc, held, stored, counters>>

\* Mutant: the grace period is forgotten.
TTLWithoutGrace(u) == UploadTimeout[u]

\* clearStaleLock measures somebody else's lock with its own UploadTimeout.
TTL(u) == UploadTimeout[u] + Grace

\* No uploader may hold its lock for as long as another one's TTL.
CompatibleTimeouts ==
  \A u, v \in Uploader : UploadTimeout[u] + Slack < TTL(v)

Holding(u) == pc[u] \in {"upload", "release", "rename", "drop"}

TypeOK ==
  /\ lockOwner \in Uploader \cup {None}
  /\ lockAge \in 0..AgeCap
  /\ lockOwner = None => lockAge = 0
  /\ uploaded \in BOOLEAN
  /\ pc \in [Uploader -> {"idle", "stat", "remove", "open",
                          "upload", "release", "rename", "drop"}]
  /\ held \in [Uploader -> Nat]
  /\ stored \in BOOLEAN
  /\ rework \in Nat
  /\ crashes \in 0..MaxCrashes /\ faults \in 0..MaxFaults

Init ==
  /\ lockOwner = None
  /\ lockAge = 0
  /\ uploaded = FALSE
  /\ pc = [u \in Uploader |-> "idle"]
  /\ held = [u \in Uploader |-> 0]
  /\ stored = FALSE
  /\ rework = 0
  /\ crashes = 0 /\ faults = 0

Goto(u, label) == pc' = [pc EXCEPT ![u] = label]

\* Mutant: the age of the lock outlives it.
NoLockKeepsAge == lockOwner' = None /\ UNCHANGED lockAge

NoLock == lockOwner' = None /\ lockAge' = 0

-----------------------------------------------------------------------------

\* Mutant: .uploaded is not looked at.
CheckUploadedNever(u) ==
  /\ pc[u] = "idle"
  /\ Goto(u, "stat")
  /\ UNCHANGED <<lockOwner, lockAge, uploaded, held, stored, counters>>

\* tryUpload: a dump that carries .uploaded is skipped.
CheckUploaded(u) ==
  /\ pc[u] = "idle"
  /\ Goto(u, IF uploaded THEN "idle" ELSE "stat")
  /\ UNCHANGED <<lockOwner, lockAge, uploaded, held, stored, counters>>

\* Mutant: any lock counts as stale.
StatLockAny(u) ==
  /\ pc[u] = "stat"
  /\ Goto(u, IF lockOwner # None THEN "remove" ELSE "open")
  /\ UNCHANGED <<lockOwner, lockAge, uploaded, held, stored, counters>>

\* Mutant: no lock ever does.
StatLockNever(u) ==
  /\ pc[u] = "stat"
  /\ Goto(u, "open")
  /\ UNCHANGED <<lockOwner, lockAge, uploaded, held, stored, counters>>

\* clearStaleLock looks at the lock; the next call acts on what it saw.
StatLock(u) ==
  /\ pc[u] = "stat"
  /\ Goto(u, IF lockOwner # None /\ lockAge >= TTL(u) THEN "remove" ELSE "open")
  /\ UNCHANGED <<lockOwner, lockAge, uploaded, held, stored, counters>>

\* os.Stat fails for another reason than a missing file: a marker counts as
\* missing, and a lock is left to OpenFile.
StatFails(u) ==
  /\ pc[u] \in {"idle", "stat"}
  /\ faults < MaxFaults
  /\ faults' = faults + 1
  /\ Goto(u, IF pc[u] = "idle" THEN "stat" ELSE "open")
  /\ UNCHANGED <<lockOwner, lockAge, uploaded, held, stored, rework, crashes>>

\* os.Remove works on the path, whoever's lock is there by now.
RemoveStale(u) ==
  /\ pc[u] = "remove"
  /\ NoLock
  /\ Goto(u, "open")
  /\ UNCHANGED <<uploaded, held, stored, counters>>

\* Its error is not even logged, and the lock stays.
RemoveStaleFails(u) ==
  /\ pc[u] = "remove"
  /\ crashes < MaxCrashes
  /\ crashes' = crashes + 1
  /\ Goto(u, "open")
  /\ UNCHANGED <<lockOwner, lockAge, uploaded, held, stored, rework, faults>>

\* O_CREATE|O_EXCL: exactly one caller creates the file, the others return.
OpenLock(u) ==
  /\ pc[u] = "open"
  /\ lockOwner = None
  /\ lockOwner' = u
  /\ lockAge' = 0
  /\ held' = [held EXCEPT ![u] = 0]
  /\ rework' = IF uploaded THEN rework + 1 ELSE rework
  /\ Goto(u, "upload")
  /\ UNCHANGED <<uploaded, stored, crashes, faults>>

\* The lock is there, or the file system refuses: every error is a return.
OpenRefused(u) ==
  /\ pc[u] = "open"
  /\ Goto(u, "idle")
  /\ UNCHANGED <<lockOwner, lockAge, uploaded, held, stored, counters>>

\* Mutant: the test of Upload's error is inverted, and a success gives up.
UploadOkReleases(u) ==
  /\ pc[u] = "upload"
  /\ stored' = TRUE
  /\ Goto(u, "release")
  /\ UNCHANGED <<lockOwner, lockAge, uploaded, held, counters>>

\* Upload returns, with or without an error, within UploadTimeout (see Tick).
UploadOk(u) ==
  /\ pc[u] = "upload"
  /\ stored' = TRUE
  /\ Goto(u, "rename")
  /\ UNCHANGED <<lockOwner, lockAge, uploaded, held, counters>>

\* Mutant: the return after an error is missing.
UploadFailsGoesOn(u) ==
  /\ pc[u] = "upload"
  /\ Goto(u, "rename")
  /\ UNCHANGED <<lockOwner, lockAge, uploaded, held, stored, counters>>

UploadFails(u) ==
  /\ pc[u] = "upload"
  /\ Goto(u, "release")
  /\ UNCHANGED <<lockOwner, lockAge, uploaded, held, stored, counters>>

\* After an error, and after a failed rename, the lock is removed by its path.
Release(u) ==
  /\ pc[u] \in {"release", "drop"}
  /\ NoLock
  /\ held' = [held EXCEPT ![u] = 0]
  /\ Goto(u, "idle")
  /\ UNCHANGED <<uploaded, stored, counters>>

\* The remove itself fails: an error is logged and the lock stays.
ReleaseFails(u) ==
  /\ pc[u] \in {"release", "drop"}
  /\ crashes < MaxCrashes
  /\ crashes' = crashes + 1
  /\ held' = [held EXCEPT ![u] = 0]
  /\ Goto(u, "idle")
  /\ UNCHANGED <<lockOwner, lockAge, uploaded, stored, rework, faults>>

\* os.Rename moves the file that has the path, whoever created it.
RenameOk(u) ==
  /\ pc[u] = "rename"
  /\ lockOwner # None
  /\ uploaded' = TRUE
  /\ NoLock
  /\ held' = [held EXCEPT ![u] = 0]
  /\ Goto(u, "idle")
  /\ UNCHANGED <<stored, counters>>

\* There is no lock to rename any more, or the file system refuses.
RenameFails(u) ==
  /\ pc[u] = "rename"
  /\ Goto(u, "drop")
  /\ UNCHANGED <<lockOwner, lockAge, uploaded, held, stored, counters>>

\* OOM kill or SIGKILL; the goroutine of the next process starts over.
Crash(u) ==
  /\ pc[u] # "idle"
  /\ crashes < MaxCrashes
  /\ crashes' = crashes + 1
  /\ held' = [held EXCEPT ![u] = 0]
  /\ Goto(u, "idle")
  /\ UNCHANGED <<lockOwner, lockAge, uploaded, stored, rework, faults>>

\* The upload context expires UploadTimeout after the lock was created, and
\* what follows takes at most Slack: time cannot pass beyond either.
MayHoldFor(u) ==
  IF pc[u] = "upload" THEN UploadTimeout[u] ELSE UploadTimeout[u] + Slack

Tick ==
  /\ \A u \in Uploader : Holding(u) => held[u] < MayHoldFor(u)
  /\ lockAge' = IF lockOwner # None /\ lockAge < AgeCap THEN lockAge + 1 ELSE lockAge
  /\ held' = [u \in Uploader |-> IF Holding(u) THEN held[u] + 1 ELSE held[u]]
  /\ UNCHANGED <<lockOwner, uploaded, pc, stored, counters>>

Step(u) ==
  \/ CheckUploaded(u) \/ StatLock(u) \/ RemoveStale(u)
  \/ OpenLock(u) \/ OpenRefused(u)
  \/ UploadOk(u) \/ UploadFails(u)
  \/ Release(u) \/ RenameOk(u) \/ RenameFails(u)

Next ==
  \/ \E u \in Uploader :
       Step(u) \/ StatFails(u) \/ RemoveStaleFails(u) \/ ReleaseFails(u) \/ Crash(u)
  \/ Tick

Spec == Init /\ [][Next]_vars

\* Every service scans again and again, every call returns, and an OpenFile
\* without a lock, an upload or a rename that is tried for ever succeeds some
\* time.
Fairness ==
  /\ WF_vars(Tick)
  /\ \A u \in Uploader :
       /\ WF_vars(Step(u))
       /\ SF_vars(OpenLock(u)) /\ SF_vars(UploadOk(u)) /\ SF_vars(RenameOk(u))

FairSpec == Spec /\ Fairness

-----------------------------------------------------------------------------
\* A lock old enough for clearStaleLock belongs to nobody alive: the comment
\* of clearStaleLock reads an expired TTL as "the previous owner was killed".
StaleMeansDead ==
  \A u \in Uploader :
    lockOwner # None /\ lockAge >= TTL(u) => ~Holding(lockOwner)

\* tryUpload skips a dump whose lock another service holds: two uploaders
\* never copy the same directory at the same time.
MutualExclusion ==
  \A u, v \in Uploader : Holding(u) /\ Holding(v) => u = v

\* Until somebody is killed or cannot remove a lock, the lock on disk is the
\* holder's own, so that neither its rename nor its remove can touch a lock
\* that somebody else relies on.
HolderOwnsLock ==
  crashes = 0 => \A u \in Uploader : Holding(u) => lockOwner = u

\* .uploaded is never taken back, and appears only when a copy of the
\* directory is in the storage.
UploadedForGood == [][uploaded' # uploaded => uploaded' /\ stored]_vars

\* The check for .uploaded is not made again under the lock, so uploads can
\* start after it appeared, but only those already past the check, at most
\* one for each of the other uploaders, and those whose look at it failed.
BoundedRework == rework < Cardinality(Uploader) + faults

\* The storage gets a copy in the end: an uploader that was killed, or could
\* not remove its lock, does not keep the others from it for ever.
EventuallyStored == <>stored

\* The dump is marked as well, unless somebody is killed: from then on two
\* holders of the lock can remove it under each other's feet for ever.
EventuallyUploaded == <>(uploaded \/ crashes > 0)

\* The lock implements the abstract one-at-a-time upload, until somebody is
\* killed or cannot remove a lock: then it may be left to one who is gone.
Once == INSTANCE UploadOnce
  WITH active <- {u \in Uploader : Holding(u)}, published <- uploaded

OneAtATime ==
  Once!Init /\ [][crashes' = 0 => Once!Next \/ UNCHANGED Once!vars]_vars
=============================================================================
