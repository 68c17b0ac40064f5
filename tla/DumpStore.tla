----------------------------- MODULE DumpStore -----------------------------
(***************************************************************************)
(* The dump directory DumpDir: writeDumpNamed of watcher.go, with cleanup  *)
(* (cleanup.go) before and dump.WriteAll (internal/dump) after the         *)
(* creation of the directory.  A Writer is a goroutine that runs it: the   *)
(* loop of Run, or an HTTP request that forces a dump; nothing in the code *)
(* keeps two of them apart, nor two services that share a DumpDir.  Each   *)
(* system call that another writer can come between is a step of its own.  *)
(*                                                                         *)
(* A directory is named after its service and the second it was begun in;  *)
(* os.ReadDir sorts by that name.  The content of a file is abstracted to  *)
(* what a reader of the dump can tell: absent, complete, or damaged.       *)
(***************************************************************************)
EXTENDS Integers, FiniteSets

CONSTANTS
  Writer,     \* goroutines that run writeDumpNamed
  Service,    \* the place of each writer's ServiceName in the alphabet
  None,       \* no victim
  MaxDumps,   \* cfg.MaxDumps, 0 for no limit
  DumpTTL,    \* cfg.DumpTTL in seconds, 0 for no limit
  FileCount,  \* files of a dump, in the order WriteAll writes them
  Start,      \* the second the model starts in; earlier ones name old dumps
  MaxTime,    \* bound on the clock
  MaxFaults,  \* bound on system calls that fail
  MaxFoiled,  \* foiled removals from here on are not counted
  MaxCrashes  \* bound on processes that are killed

ASSUME StoreAssumption ==
  /\ IsFiniteSet(Writer) /\ Writer # {}
  /\ Service \in [Writer -> Nat]
  /\ MaxDumps \in Nat /\ DumpTTL \in Nat
  /\ FileCount \in Nat \ {0}
  /\ Start \in Nat /\ MaxTime \in Nat /\ Start <= MaxTime
  /\ MaxFaults \in Nat /\ MaxFoiled \in Nat /\ MaxCrashes \in Nat

Files == 1..FileCount
Names == {Service[w] : w \in Writer} \X (0..MaxTime)

ASSUME NoneAssumption ==
  None \notin Names /\ {None, "none", "ok", "mixed"} \cap Writer = {}

VARIABLES
  now,      \* the clock, in seconds
  dirs,     \* the dump directories on disk
  file,     \* their files: "none", "ok", "mixed", or the writer that damaged it
  mtime,    \* ModTime of each directory
  pc, todo, dumps, cutoff, victim, name, next,  \* the locals of each writer
  begun,    \* history: dumps written to each name since Start: 0, 1 or more
  doomed,   \* history: directories on disk that a cleanup began to remove
  foiled,   \* history: removals that met a file written meanwhile
  faults, crashes

local == <<pc, todo, dumps, cutoff, victim, name, next>>
disk == <<dirs, file, mtime>>
counters == <<foiled, faults, crashes>>
vars == <<now, disk, local, begun, doomed, counters>>

Empty == [k \in Files |-> "none"]
Complete == [k \in Files |-> "ok"]

TypeOK ==
  /\ now \in Start..MaxTime
  /\ dirs \subseteq Names
  /\ file \in [Names -> [Files -> {"none", "ok", "mixed"} \cup Writer]]
  /\ \A n \in Names \ dirs : file[n] = Empty
  /\ mtime \in [Names -> 0..MaxTime]
  /\ pc \in [Writer -> {"idle", "ttl", "max", "unlink", "rmdir", "mkdir",
                        "write", "sync", "done"}]
  /\ todo \in [Writer -> SUBSET Names]
  /\ dumps \in [Writer -> SUBSET Names]
  /\ cutoff \in [Writer -> Int]
  /\ victim \in [Writer -> Names \cup {None}]
  /\ name \in [Writer -> Names \cup {None}]
  /\ next \in [Writer -> 1..FileCount + 1]
  /\ begun \in [Names -> 0..2]
  /\ doomed \subseteq Names
  /\ foiled \in 0..MaxFoiled
  /\ faults \in 0..MaxFaults /\ crashes \in 0..MaxCrashes

\* Dumps of earlier runs of the services are on disk, at most MaxDumps.
Init ==
  /\ now = Start
  /\ dirs \in SUBSET {n \in Names : n[2] < Start}
  /\ MaxDumps > 0 => Cardinality(dirs) <= MaxDumps
  /\ file = [n \in Names |-> IF n \in dirs THEN Complete ELSE Empty]
  /\ mtime = [n \in Names |-> n[2]]
  /\ pc = [w \in Writer |-> "idle"]
  /\ todo = [w \in Writer |-> {}]
  /\ dumps = [w \in Writer |-> {}]
  /\ cutoff = [w \in Writer |-> 0]
  /\ victim = [w \in Writer |-> None]
  /\ name = [w \in Writer |-> None]
  /\ next = [w \in Writer |-> 1]
  /\ begun = [n \in Names |-> 0]
  /\ doomed = {}
  /\ foiled = 0
  /\ faults = 0 /\ crashes = 0

Goto(w, label) == pc' = [pc EXCEPT ![w] = label]

\* An entry of the directory was made or removed; only DumpTTL looks at that.
Touch(n, changed) ==
  mtime' = IF changed /\ DumpTTL > 0 THEN [mtime EXCEPT ![n] = now] ELSE mtime

\* The writers in W are no longer in writeDumpNamed: their locals are gone.
Forget(W) ==
  /\ pc' = [w \in Writer |-> IF w \in W THEN "idle" ELSE pc[w]]
  /\ todo' = [w \in Writer |-> IF w \in W THEN {} ELSE todo[w]]
  /\ dumps' = [w \in Writer |-> IF w \in W THEN {} ELSE dumps[w]]
  /\ cutoff' = [w \in Writer |-> IF w \in W THEN 0 ELSE cutoff[w]]
  /\ victim' = [w \in Writer |-> IF w \in W THEN None ELSE victim[w]]
  /\ name' = [w \in Writer |-> IF w \in W THEN None ELSE name[w]]
  /\ next' = [w \in Writer |-> IF w \in W THEN 1 ELSE next[w]]

LeaveDump(w) == Forget({w})

Fault == faults < MaxFaults /\ faults' = faults + 1

\* memdump-{service}-{timestamp} in the order of os.ReadDir.
Before(m, n) == m[1] < n[1] \/ (m[1] = n[1] /\ m[2] < n[2])

\* Mutant: the sort is the wrong way round.
LastOf(S) == CHOOSE m \in S : \A n \in S : n = m \/ Before(n, m)

FirstOf(S) == CHOOSE m \in S : \A n \in S : n = m \/ Before(m, n)

\* Names carry the order of time only within a service.
Newer(n) == {m \in dirs : m[2] > n[2]}

\* Mutant: the second is rounded up.
NewNameRoundedUp(w) == <<Service[w], now + 1>>

\* The name of the new directory: the service and the current second.
NewName(w) == <<Service[w], now>>

-----------------------------------------------------------------------------
(* cleanup *)

ReadDir(w) ==
  /\ pc[w] = "idle"
  /\ todo' = [todo EXCEPT ![w] = IF DumpTTL > 0 THEN dirs ELSE {}]
  /\ dumps' = [dumps EXCEPT ![w] = IF DumpTTL > 0 THEN {} ELSE dirs]
  /\ cutoff' = [cutoff EXCEPT ![w] = now - DumpTTL]
  /\ Goto(w, IF DumpTTL > 0 THEN "ttl" ELSE "max")
  /\ UNCHANGED <<now, disk, victim, name, next, begun, doomed, counters>>

\* cleanup returns; what it worked on goes with it.
TakeName(w) ==
  /\ name' = [name EXCEPT ![w] = NewName(w)]
  /\ dumps' = [dumps EXCEPT ![w] = {}]
  /\ Goto(w, "mkdir")

\* No list, no cleanup: the error is taken for a DumpDir yet to be made.
ReadDirFails(w) ==
  /\ pc[w] = "idle"
  /\ Fault
  /\ TakeName(w)
  /\ UNCHANGED <<now, disk, todo, cutoff, victim, next, begun, doomed, foiled,
                 crashes>>

StartRemoval(w, n) ==
  /\ victim' = [victim EXCEPT ![w] = n]
  /\ Goto(w, "unlink")

\* Mutant: Before instead of not After.
ExpiredLater(w, n) == n \in dirs /\ mtime[n] < cutoff[w]

\* A directory whose Info fails, because it is gone, stays in the list.
Expired(w, n) == n \in dirs /\ mtime[n] <= cutoff[w]

TTLNext(w) ==
  /\ pc[w] = "ttl"
  /\ todo[w] # {}
  /\ LET n == FirstOf(todo[w]) IN
       /\ todo' = [todo EXCEPT ![w] = @ \ {n}]
       /\ IF Expired(w, n)
            THEN StartRemoval(w, n) /\ UNCHANGED dumps
            ELSE /\ dumps' = [dumps EXCEPT ![w] = @ \cup {n}]
                 /\ UNCHANGED <<pc, victim>>
  /\ UNCHANGED <<now, disk, cutoff, name, next, begun, doomed, counters>>

\* Info fails for a directory that is there: it is kept, whatever its age.
InfoFails(w) ==
  /\ pc[w] = "ttl"
  /\ todo[w] # {}
  /\ Fault
  /\ LET n == FirstOf(todo[w]) IN
       /\ todo' = [todo EXCEPT ![w] = @ \ {n}]
       /\ dumps' = [dumps EXCEPT ![w] = @ \cup {n}]
  /\ UNCHANGED <<now, disk, pc, cutoff, victim, name, next, begun, doomed,
                 foiled, crashes>>

TTLDone(w) ==
  /\ pc[w] = "ttl"
  /\ todo[w] = {}
  /\ Goto(w, "max")
  /\ UNCHANGED <<now, disk, todo, dumps, cutoff, victim, name, next, begun,
                 doomed, counters>>

\* Mutant: no room is made for the new dump.
TooManyByTwo(w) == MaxDumps > 0 /\ Cardinality(dumps[w]) > MaxDumps

\* Room is made for the dump about to be written, hence >= and not >.
TooMany(w) == MaxDumps > 0 /\ Cardinality(dumps[w]) >= MaxDumps

MaxNext(w) ==
  /\ pc[w] = "max"
  /\ TooMany(w)
  /\ StartRemoval(w, FirstOf(dumps[w]))
  /\ UNCHANGED <<now, disk, todo, dumps, cutoff, name, next, begun, doomed,
                 counters>>

MaxDone(w) ==
  /\ pc[w] = "max"
  /\ ~TooMany(w)
  /\ TakeName(w)
  /\ UNCHANGED <<now, disk, todo, cutoff, victim, next, begun, doomed, counters>>

\* os.RemoveAll removes one file after the other, in no particular order ...
Unlink(w) ==
  /\ pc[w] = "unlink"
  /\ \E k \in Files :
       /\ file[victim[w]][k] # "none"
       /\ file' = [file EXCEPT ![victim[w]][k] = "none"]
  /\ Touch(victim[w], TRUE)
  /\ doomed' = doomed \cup {victim[w]}
  /\ UNCHANGED <<now, dirs, local, begun, counters>>

\* ... and then the directory.  It is content with one that is gone, and
\* fails if a file has appeared in the meantime.
Emptied(w) ==
  /\ pc[w] = "unlink"
  /\ file[victim[w]] = Empty
  /\ doomed' = doomed \cup {victim[w]}
  /\ Goto(w, "rmdir")
  /\ UNCHANGED <<now, disk, todo, dumps, cutoff, victim, name, next, begun,
                 counters>>

\* The TTL phase drops a victim from its list in either case; the other phase
\* gives up at the first error.
AfterRemoval(w, ok) ==
  LET phase == IF victim[w] \in dumps[w] THEN "max" ELSE "ttl" IN
    /\ victim' = [victim EXCEPT ![w] = None]
    /\ IF phase = "max" /\ ~ok
         THEN TakeName(w)
         ELSE /\ dumps' = [dumps EXCEPT ![w] = @ \ {victim[w]}]
              /\ Goto(w, phase)
              /\ UNCHANGED name

RmdirOk(w) ==
  /\ pc[w] = "rmdir"
  /\ file[victim[w]] = Empty
  /\ dirs' = dirs \ {victim[w]}
  /\ mtime' = [mtime EXCEPT ![victim[w]] = 0]
  /\ doomed' = doomed \ {victim[w]}
  /\ AfterRemoval(w, TRUE)
  /\ UNCHANGED <<now, file, todo, cutoff, next, begun, counters>>

Foiled == foiled' = IF foiled < MaxFoiled THEN foiled + 1 ELSE foiled

\* What has been removed by then is gone.
RemoveAllFails(w) ==
  /\ \/ /\ pc[w] = "rmdir" /\ file[victim[w]] # Empty
        /\ Foiled /\ UNCHANGED faults
     \/ /\ pc[w] \in {"unlink", "rmdir"}
        /\ Fault /\ UNCHANGED foiled
  /\ AfterRemoval(w, FALSE)
  /\ UNCHANGED <<now, disk, todo, cutoff, next, begun, doomed, crashes>>

-----------------------------------------------------------------------------
(* writeDumpNamed after cleanup, and WriteAll *)

\* MkdirAll is content with a directory that exists.
Mkdir(w) ==
  /\ pc[w] = "mkdir"
  /\ dirs' = dirs \cup {name[w]}
  /\ Touch(name[w], name[w] \notin dirs)
  /\ begun' = [begun EXCEPT ![name[w]] = IF @ = 0 THEN 1 ELSE 2]
  /\ next' = [next EXCEPT ![w] = 1]
  /\ Goto(w, "write")
  /\ UNCHANGED <<now, file, todo, dumps, cutoff, victim, name, doomed, counters>>

MkdirFails(w) ==
  /\ pc[w] = "mkdir"
  /\ Fault
  /\ LeaveDump(w)
  /\ UNCHANGED <<now, disk, begun, doomed, foiled, crashes>>

\* An error with one file is logged and the next file is written.
NextFile(w) ==
  /\ next' = [next EXCEPT ![w] = @ + 1]
  /\ Goto(w, IF next[w] = FileCount THEN "done" ELSE "write")

\* os.Create truncates a file that is there.
CreateFile(w) ==
  /\ pc[w] = "write"
  /\ name[w] \in dirs
  /\ file' = [file EXCEPT ![name[w]][next[w]] = w]
  /\ Touch(name[w], file[name[w]][next[w]] = "none")
  /\ Goto(w, "sync")
  /\ UNCHANGED <<now, dirs, todo, dumps, cutoff, victim, name, next, begun,
                 doomed, counters>>

\* The profile cannot be captured, or os.Create fails: the file is left out.
CreateFails(w) ==
  /\ pc[w] = "write"
  /\ \/ name[w] \notin dirs /\ UNCHANGED faults
     \/ name[w] \in dirs /\ Fault
  /\ NextFile(w)
  /\ UNCHANGED <<now, disk, todo, dumps, cutoff, victim, name, begun, doomed,
                 foiled, crashes>>

\* Mutant: the file is not synced.
SyncFileNever(w) ==
  /\ pc[w] = "sync"
  /\ NextFile(w)
  /\ UNCHANGED <<now, disk, todo, dumps, cutoff, victim, name, begun, doomed,
                 counters>>

\* Write and Sync.  If another writer has opened the same file since, the two
\* write into each other, unless a cleanup has separated them.
SyncFile(w) ==
  /\ pc[w] = "sync"
  /\ LET now_ == file[name[w]][next[w]] IN
       \E content \in IF now_ = w THEN {"ok"}
                      ELSE IF now_ = "none" THEN {"none"} ELSE {now_, "mixed"} :
         file' = [file EXCEPT ![name[w]][next[w]] = content]
  /\ NextFile(w)
  /\ UNCHANGED <<now, dirs, mtime, todo, dumps, cutoff, victim, name, begun,
                 doomed, counters>>

\* The file stays as damaged as the failed write or fsync left it.
SyncFails(w) ==
  /\ pc[w] = "sync"
  /\ Fault
  /\ NextFile(w)
  /\ UNCHANGED <<now, disk, todo, dumps, cutoff, victim, name, begun, doomed,
                 foiled, crashes>>

\* The caller gets the name, for its notification and the URL of the card.
Return(w) ==
  /\ pc[w] = "done"
  /\ LeaveDump(w)
  /\ UNCHANGED <<now, disk, begun, doomed, counters>>

-----------------------------------------------------------------------------
\* OOM kill: all the writers of a service are gone at once.
Crash(s) ==
  /\ crashes < MaxCrashes
  /\ crashes' = crashes + 1
  /\ \E w \in Writer : Service[w] = s /\ pc[w] # "idle"
  /\ Forget({w \in Writer : Service[w] = s})
  /\ UNCHANGED <<now, disk, begun, doomed, faults, foiled>>

Tick ==
  /\ now < MaxTime
  /\ now' = now + 1
  /\ UNCHANGED <<disk, local, begun, doomed, counters>>

Cleanup(w) ==
  \/ ReadDir(w) \/ ReadDirFails(w)
  \/ TTLNext(w) \/ InfoFails(w) \/ TTLDone(w) \/ MaxNext(w) \/ MaxDone(w)
  \/ Unlink(w) \/ Emptied(w) \/ RmdirOk(w) \/ RemoveAllFails(w)

WriteDump(w) ==
  \/ Mkdir(w) \/ MkdirFails(w) \/ CreateFile(w) \/ CreateFails(w)
  \/ SyncFile(w) \/ SyncFails(w) \/ Return(w)

Next ==
  \/ \E w \in Writer : Cleanup(w) \/ WriteDump(w) \/ Crash(Service[w])
  \/ Tick

Spec == Init /\ [][Next]_vars

-----------------------------------------------------------------------------
\* Each writer makes room for its own dump only, so MaxDumps can be exceeded
\* by the writers that are in between, one directory each; with the loop of
\* Run alone there are never more than MaxDumps.  A removal that fails, which
\* is only logged, costs one more: because the disk refuses, or because the
\* oldest dump is still being written, and then cleanup gives up before it
\* comes to the next one.
DirsBounded ==
  MaxDumps > 0 /\ foiled < MaxFoiled =>
    Cardinality(dirs) <= MaxDumps + Cardinality(Writer) - 1 + faults + foiled

\* MaxDumps never costs a file of a dump that is among the newest MaxDumps - 1:
\* what a cleanup destroys is older than that many others, however the cleanups
\* of several writers interleave and however old their view of the disk is.
NewestKept ==
  [][\A n \in dirs :
       n \notin dirs' \/ (\E k \in Files : file[n][k] # "none" /\ file'[n][k] = "none")
         => Cardinality(Newer(n)) >= MaxDumps - 1]_vars

\* "The partial dump is better than none": in a directory that one dump wrote
\* and no cleanup touched, the files before the last one begun are complete
\* but for those whose own system calls failed.  A kill costs the last file.
EachErrorCostsOneFile ==
  \A n \in dirs \ doomed : begun[n] <= 1 =>
    Cardinality({k \in Files : /\ file[n][k] # "ok"
                               /\ \E j \in Files : j > k /\ file[n][j] # "none"})
      <= faults

\* After a cleanup without errors no directory is left that had expired when
\* the cleanup began.
ExpiredGone ==
  \A w \in Writer :
    pc[w] = "mkdir" /\ DumpTTL > 0 /\ faults = 0 =>
      \A n \in dirs : mtime[n] > cutoff[w]
=============================================================================
