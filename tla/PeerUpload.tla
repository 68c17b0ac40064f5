----------------------------- MODULE PeerUpload -----------------------------
(***************************************************************************)
(* The dump directories of a node and everybody who works on them at once: *)
(* the service that writes a dump and then uploads it, the peer scans of   *)
(* all services (StartupUpload, run by a goroutine for each scan tick, so  *)
(* that slow scans overlap), and the retention that removes a directory.   *)
(* Each service has one directory here, which stands for its dumps.        *)
(*                                                                         *)
(* tryUpload is abstracted to what UploadLock says of it while nobody is   *)
(* killed: no lock is stale, the lock is taken in one step or not at all,  *)
(* after .uploaded was looked at in an earlier one.  Time is in ticks, of  *)
(* the order of UploadTimeout: what only waits for the disk takes none.    *)
(***************************************************************************)
EXTENDS Integers, FiniteSets

CONSTANTS
  Dump,           \* directories, numbered in the order a scan reaches them
  Scan,           \* bound on the scans that run at once
  None,           \* no goroutine, no directory
  Broken,         \* dumps that the storage never accepts
  Crowded,        \* dumps that may have to make room for a newer one
  FileCount,      \* files of a dump
  UploadTimeout,  \* cfg.UploadTimeout, in ticks
  DumpTTL,        \* cfg.DumpTTL, in ticks
  ScanGap,        \* ticks that may pass without the start of a scan
  MaxNew,         \* bound on dumps that are written
  MaxLost         \* bound on locks that the retention removes

ASSUME PeerAssumption ==
  /\ Dump \subseteq Nat /\ IsFiniteSet(Dump) /\ IsFiniteSet(Scan)
  /\ Scan \cap Dump = {} /\ None \notin Dump \cup Scan
  /\ FileCount \in Nat /\ UploadTimeout \in Nat /\ DumpTTL \in Nat
  /\ ScanGap \in Nat /\ MaxNew \in Nat /\ MaxLost \in Nat

\* The goroutines of the scans, and the one that writeDumpNamed starts for
\* each dump: it goes by the name of the dump.
Goroutine == Scan \cup Dump

VARIABLES
  present,   \* directories on disk
  files,     \* how many files of its dump each has
  written,   \* how many files of each dump WriteAll has gone through
  begun, finished,  \* dumps whose writer has begun; has returned or was killed
  idle,      \* time since the ModTime of each directory, at most DumpTTL
  lock,      \* who created .uploading in it
  marked,    \* directories with .uploaded
  todo, at,  \* of each goroutine: directories to visit, the one in Upload
  past,      \* goroutines that found the next directory without .uploaded
  seen, held, \* files and time that this Upload began with and has taken
  quiet,     \* ticks since a scan started, at most ScanGap
  victims, emptied, \* directories in removeDir, those whose entries are gone
  stored,    \* history: files of each dump in the storage
  early,     \* history: an upload of the dump began before its writer was done
  spoiled,   \* history: dumps whose entries were removed
  lost       \* history: locks removed while their upload went on

writer == <<written, begun, finished>>
dir == <<present, files, idle, lock, marked>>
worker == <<todo, at, past, seen, held>>
removal == <<victims, emptied>>
history == <<stored, early, spoiled, lost>>
vars == <<writer, dir, worker, quiet, removal, history>>

Uploading == {g \in Goroutine : at[g] # None}
Free == {g \in Scan : todo[g] = {} /\ at[g] = None}

TypeOK ==
  /\ begun \subseteq Dump /\ finished \subseteq begun /\ present \subseteq begun
  /\ marked \subseteq present
  /\ files \in [Dump -> 0..FileCount] /\ written \in [Dump -> 0..FileCount]
  /\ stored \in [Dump -> 0..FileCount]
  /\ idle \in [Dump -> 0..DumpTTL]
  /\ lock \in [Dump -> Goroutine \cup {None}]
  /\ todo \in [Goroutine -> SUBSET Dump]
  /\ at \in [Goroutine -> Dump \cup {None}]
  /\ past \subseteq Goroutine
  /\ seen \in [Goroutine -> 0..FileCount]
  /\ held \in [Goroutine -> 0..UploadTimeout]
  /\ quiet \in 0..ScanGap
  /\ emptied \subseteq victims /\ victims \subseteq present
  /\ early \subseteq Dump /\ spoiled \subseteq Dump
  /\ lost \in 0..MaxLost

\* Complete dumps of earlier runs, and services that will write one.
Init ==
  /\ present \in SUBSET Dump /\ Cardinality(Dump \ present) <= MaxNew
  /\ begun = present /\ finished = present
  /\ files = [d \in Dump |-> IF d \in present THEN FileCount ELSE 0]
  /\ written = files
  /\ idle = [d \in Dump |-> 0]
  /\ lock = [d \in Dump |-> None]
  /\ marked = {}
  /\ todo = [g \in Goroutine |-> {}]
  /\ at = [g \in Goroutine |-> None]
  /\ past = {}
  /\ seen = [g \in Goroutine |-> 0] /\ held = [g \in Goroutine |-> 0]
  /\ quiet = 0
  /\ victims = {} /\ emptied = {}
  /\ stored = [d \in Dump |-> 0]
  /\ early = {} /\ spoiled = {}
  /\ lost = 0

\* An entry of the directory was made, renamed or removed, or the directory.
Touch(d) == idle' = [idle EXCEPT ![d] = 0]

-----------------------------------------------------------------------------
(* writeDumpNamed *)

Mkdir(d) ==
  /\ d \notin begun
  /\ begun' = begun \cup {d}
  /\ present' = present \cup {d}
  /\ Touch(d)
  /\ UNCHANGED <<written, finished, files, lock, marked, worker, quiet, removal, history>>

\* WriteAll goes on when a file cannot be created.
WriteFile(d) ==
  /\ d \in begun \ finished
  /\ written[d] < FileCount
  /\ written' = [written EXCEPT ![d] = @ + 1]
  /\ IF d \in present THEN files' = [files EXCEPT ![d] = @ + 1] /\ Touch(d)
                      ELSE UNCHANGED <<files, idle>>
  /\ UNCHANGED <<begun, finished, present, lock, marked, worker, quiet, removal, history>>

\* The dump's own upload is started when WriteAll is through.
Finish(d) ==
  /\ d \in begun \ finished
  /\ written[d] = FileCount
  /\ finished' = finished \cup {d}
  /\ todo' = [todo EXCEPT ![d] = {d}]
  /\ UNCHANGED <<written, begun, dir, at, past, seen, held, quiet, removal, history>>

WriterKilled(d) ==
  /\ d \in begun \ finished
  /\ finished' = finished \cup {d}
  /\ UNCHANGED <<written, begun, dir, worker, quiet, removal, history>>

-----------------------------------------------------------------------------
(* StartupUpload and tryUpload *)

NextOf(g) == CHOOSE d \in todo[g] : \A e \in todo[g] : d <= e

Arrived(g) == todo[g] # {} /\ at[g] = None

\* The walk goes on with the next directory.
Pass(g) == todo' = [todo EXCEPT ![g] = @ \ {NextOf(g)}]

\* Mutant: .uploaded is not looked at.
UnmarkedNotAsked(d) == d \in Dump

Unmarked(d) == d \notin marked

\* Mutant: O_EXCL is missing.
LockableTwice(d) == d \in present

\* O_CREATE|O_EXCL finds the directory and no lock in it.
Lockable(d) == d \in present /\ lock[d] = None

Check(g) ==
  /\ Arrived(g) /\ g \notin past
  /\ Unmarked(NextOf(g))
  /\ past' = past \cup {g}
  /\ UNCHANGED <<writer, dir, todo, at, seen, held, quiet, removal, history>>

Skip(g) ==
  /\ Arrived(g) /\ g \notin past
  /\ ~Unmarked(NextOf(g))
  /\ Pass(g)
  /\ UNCHANGED <<writer, dir, at, past, seen, held, quiet, removal, history>>

OpenRefused(g) ==
  /\ Arrived(g) /\ g \in past
  /\ ~Lockable(NextOf(g))
  /\ Pass(g)
  /\ past' = past \ {g}
  /\ UNCHANGED <<writer, dir, at, seen, held, quiet, removal, history>>

Begin(g) ==
  LET d == NextOf(g) IN
    /\ Arrived(g) /\ g \in past
    /\ Lockable(d)
    /\ lock' = [lock EXCEPT ![d] = g]
    /\ Touch(d)
    /\ Pass(g)
    /\ past' = past \ {g}
    /\ at' = [at EXCEPT ![g] = d]
    /\ seen' = [seen EXCEPT ![g] = files[d]]
    /\ held' = [held EXCEPT ![g] = 0]
    /\ early' = IF d \in finished THEN early ELSE early \cup {d}
    /\ UNCHANGED <<writer, present, files, marked, quiet, removal, stored, spoiled, lost>>

\* Mutant: the walk ends with an upload that fails.
LeaveGivesUp(g) ==
  /\ at' = [at EXCEPT ![g] = None]
  /\ seen' = [seen EXCEPT ![g] = 0] /\ held' = [held EXCEPT ![g] = 0]
  /\ todo' = [todo EXCEPT ![g] = {}]

\* Upload has returned: the walk goes on with the next directory.
Leave(g) ==
  /\ at' = [at EXCEPT ![g] = None]
  /\ seen' = [seen EXCEPT ![g] = 0] /\ held' = [held EXCEPT ![g] = 0]
  /\ UNCHANGED todo

\* Rename and remove work on the path of the lock, whoever created it.
Unlock(d) ==
  /\ lock' = [lock EXCEPT ![d] = None]
  /\ IF lock[d] = None THEN UNCHANGED idle ELSE Touch(d)

\* Upload copies what was there when it began and perhaps what came later.
Copied(g) == IF at[g] \in spoiled THEN 0..FileCount ELSE seen[g]..files[at[g]]

UploadOk(g) ==
  LET d == at[g] IN
    /\ d \in Dump \ Broken
    /\ \E n \in Copied(g) :
         stored' = [stored EXCEPT ![d] = IF n > @ THEN n ELSE @]
    /\ marked' = IF lock[d] = None THEN marked ELSE marked \cup {d}
    /\ Unlock(d)
    /\ Leave(g)
    /\ UNCHANGED <<writer, present, files, past, quiet, removal, early, spoiled, lost>>

\* Mutant: the return after an error is missing.
UploadFailsMarks(g) ==
  /\ at[g] # None
  /\ marked' = IF lock[at[g]] = None THEN marked ELSE marked \cup {at[g]}
  /\ Unlock(at[g])
  /\ Leave(g)
  /\ UNCHANGED <<writer, present, files, past, quiet, removal, history>>

\* An error of the storage, or the end of the upload's context.
UploadFails(g) ==
  /\ at[g] # None
  /\ Unlock(at[g])
  /\ Leave(g)
  /\ UNCHANGED <<writer, present, files, marked, past, quiet, removal, history>>

-----------------------------------------------------------------------------
(* cleanup and removeDir *)

Expired(d) == idle[d] >= DumpTTL

\* cleanup runs before a dump; nothing tells it that the directory is in use,
\* being written, read by an upload, or both.
PickVictim(d) ==
  /\ d \in present \ victims
  /\ Expired(d) \/ d \in Crowded
  /\ victims' = victims \cup {d}
  /\ UNCHANGED <<writer, dir, worker, quiet, emptied, history>>

Unlink(d) ==
  /\ d \in victims \ emptied
  /\ IF lock[d] = None THEN UNCHANGED lost ELSE lost < MaxLost /\ lost' = lost + 1
  /\ files' = [files EXCEPT ![d] = 0]
  /\ lock' = [lock EXCEPT ![d] = None]
  /\ marked' = marked \ {d}
  /\ Touch(d)
  /\ spoiled' = spoiled \cup {d}
  /\ emptied' = emptied \cup {d}
  /\ UNCHANGED <<writer, present, worker, quiet, victims, stored, early>>

Empty(d) == files[d] = 0 /\ lock[d] = None /\ d \notin marked

Removed(d) == victims' = victims \ {d} /\ emptied' = emptied \ {d}

\* Mutant: what appeared in the directory since goes with it.
RmdirOkForced(d) ==
  /\ d \in emptied
  /\ present' = present \ {d}
  /\ Removed(d)
  /\ UNCHANGED <<writer, files, idle, lock, marked, worker, quiet, history>>

RmdirOk(d) ==
  /\ d \in emptied
  /\ Empty(d)
  /\ present' = present \ {d}
  /\ Removed(d)
  /\ UNCHANGED <<writer, files, idle, lock, marked, worker, quiet, history>>

\* A file has appeared since: the directory stays, without its dump.
RmdirFails(d) ==
  /\ d \in emptied
  /\ ~Empty(d)
  /\ Removed(d)
  /\ UNCHANGED <<writer, dir, worker, quiet, history>>

-----------------------------------------------------------------------------
\* Everybody waits for the storage or for the next tick.
Waiting ==
  /\ begun = finished /\ victims = {}
  /\ \A g \in Goroutine : at[g] = None => todo[g] = {}
  /\ \A g \in Uploading : held[g] < UploadTimeout

\* The scan tickers of some services fire, or of none, whatever the scans that
\* they started earlier still do.
Tick ==
  /\ Waiting
  /\ \E S \in SUBSET Free :
       /\ S # {} \/ Free = {} \/ quiet < ScanGap
       /\ todo' = [g \in Goroutine |-> IF g \in S THEN Dump ELSE todo[g]]
       /\ quiet' = IF S # {} THEN 0 ELSE IF quiet < ScanGap THEN quiet + 1 ELSE quiet
  /\ held' = [g \in Goroutine |-> IF at[g] = None THEN 0 ELSE held[g] + 1]
  /\ idle' = [d \in Dump |-> IF d \in present /\ idle[d] < DumpTTL
                               THEN idle[d] + 1 ELSE idle[d]]
  /\ UNCHANGED <<writer, present, files, lock, marked, at, past, seen, removal, history>>

Write(d) == WriteFile(d) \/ Finish(d) \/ WriterKilled(d)
Work(g) == \/ Check(g) \/ Skip(g) \/ OpenRefused(g) \/ Begin(g)
           \/ UploadOk(g) \/ UploadFails(g)
Remove(d) == Unlink(d) \/ RmdirOk(d) \/ RmdirFails(d)

\* What goes on by itself once it has begun.
Step ==
  \/ \E d \in Dump : Write(d) \/ Remove(d)
  \/ \E g \in Goroutine : Work(g)
  \/ Tick

Next == Step \/ \E d \in Dump : Mkdir(d) \/ PickVictim(d)

Spec == Init /\ [][Next]_vars

\* Calls return and tickers fire, in any order that they can; an upload that is
\* tried for ever succeeds some time.  Nothing makes a dump or a cleanup come.
Fairness ==
  /\ WF_vars(Step)
  /\ \A d \in Dump \ Broken : SF_vars(\E g \in Goroutine : at[g] = d /\ UploadOk(g))

FairSpec == Spec /\ Fairness

-----------------------------------------------------------------------------
\* Scans of a storage that hangs do not pile up with every tick: a goroutine
\* that waits for the storage has taken a lock that makes the later ones pass
\* its dump by.  Only a lock that the retention removes lets one more in.
ScansBounded ==
  Cardinality(Uploading) <= Cardinality({d \in Dump : lock[d] # None}) + lost

\* What .uploaded promises to the scans that skip the dump from then on: the
\* storage has every file of it.  There are two ways to break the promise: an
\* upload that began while the dump was still being written, and a directory
\* that the retention emptied under an upload.
MarkedIsStored ==
  \A d \in marked \ (early \cup spoiled) : stored[d] = files[d]

\* DumpTTL goes by the ModTime, and each attempt to upload a dump renews it:
\* as long as the scans reach the dump more often than that, retention by age
\* takes nothing that is not in the storage (and no dump that the storage
\* refuses; only MaxDumps bounds those).
NotByAge == \A d \in present \ marked : ~Expired(d)

\* One dump that the storage hangs on or refuses keeps no other from it: each
\* that can be stored, and is not in the way of a newer one, is marked.
NoneStarves ==
  \A d \in Dump \ (Broken \cup Crowded) : d \in present \ spoiled ~> d \in marked

\* The age of a dump in the storage runs: the scans pass it by, and the uploads
\* that were past the look at .uploaded come to an end, so that nothing renews
\* the ModTime for ever and a cleanup that comes late enough finds it expired.
MarkedAges == \A d \in Dump \ Broken : d \in marked ~> Expired(d) \/ d \notin marked
=============================================================================
