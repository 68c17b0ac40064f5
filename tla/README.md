# memwatcher: specification, model checking and proofs

memwatcher is a Go library that runs inside a service. It watches the heap of
the service against `GOMEMLIMIT`, writes a directory of profiles and runtime
statistics when the heap comes near the limit, keeps the number and the age of
those directories bounded, copies them to a storage and notifies people. This
directory holds TLA+ models of the parts of it that are hard to test, the TLC
runs that check them, and proofs of their main properties for TLAPS.

All paths are relative to the root of the repository's source.

## 1. The system

| Part | Code | State | Operations |
|---|---|---|---|
| Polling loop | `watcher.go`, `Run`, `Stop` | current interval, two tickers, `lastDumpAt2`, `lastDumpAt3`, `stopCh`, the context | a `select` over poll tick, scan tick, stop and cancellation; each tick reads the heap, adapts the interval and may write a dump |
| CPU profiler | `internal/cpuprofiler` | `running`, the buffer, and the one CPU profile of the Go runtime | `EnsureRunning`, `Stop`, `Snapshot`, each under a mutex |
| Heap monitor | `heap_monitor.go` | three thresholds | `NewHeapMonitor`, `Read`, `Pct` |
| Dump | `writeDumpNamed`, `internal/dump` | a directory and its files | clean up, create, write each file with `fsync`, report |
| Retention | `cleanup.go` | the entries of `DumpDir` | remove by `DumpTTL`, then by `MaxDumps` |
| Upload | `tryUpload`, `clearStaleLock` | `.uploading` with its ModTime, `.uploaded` | check, clear a stale lock, lock, upload, rename or release |
| Peer scan | `StartupUpload` | none of its own | calls `tryUpload` on the directories of every service of the node |
| Forced dump | `ForceDumpHandler` | none of its own | writes a dump from an HTTP request |
| Configuration | `New`, `validateAndHeal`, `setDefaults` | the `Config` | defaults, checks, healing of the tiers |
| Notifications | `notify`, the notifiers, the templator | none shared | one goroutine for each channel, with a timeout |
| Dump server | `server*.go` | the map of pprof handlers and its lock | list, download, card, pprof viewer |
| Services handler | `services_handler.go` | none | lists the directories of a node |
| Statistics | `internal/stats` | none | copies `runtime.MemStats`, takes recent pauses from its rings |

How they meet: the loop owns the heap monitor, drives the profiler, and writes
dumps; a forced dump writes dumps next to it and takes the profile from it;
every dump runs the retention first and starts an upload and the notifications
when it is done; uploads of different processes meet only in the lock files of
a directory on a shared volume; the dump server reads what the dumps write and
the retention removes.

What is hard in it, and what makes each part correct:

* Loop: several cases of a `select` may be ready together and the choice is
  random; `ticker.Reset` drops ticks; a dump takes long and the tickers go on
  meanwhile. Correct means: no tier dumps more often than its cooldown allows,
  a dump that is due is not put off, `Run` returns when asked to, a graceful
  stop gets its dump, a critical heap is never ignored for good.
* Profiler: the runtime has a single CPU profile. Correct means: the watcher
  stops a profile only if it is its own, never loses track of one, and leaves
  none behind; the dumps get it.
* Upload: lock files, with an owner that may be killed at any system call, a
  TTL that must tell a slow owner from a dead one, and a marker that others
  trust. Correct means: one upload at a time, the marker only after a copy is
  stored, and no dump left behind because somebody died.
* Dump and retention: dumps run concurrently, names have the resolution of a
  second, a kill or a full disk may come at any system call. Correct means:
  the directory stays bounded, the newest dumps survive, an error costs only
  the file it hit, an expired dump goes.
* Configuration: two heals that overlap in one field. Correct means: what
  `New` returns is in order and what it reports is true.
* Heap monitor: unsigned arithmetic, no tier missed by rounding.
* Peer scan: scans of all services walk over the directories of all, start every
  `ScanInterval` whether or not the last one has ended, wait for a storage that
  may hang or refuse, and meet writers and the retention in the directories.
  Correct means: goroutines do not pile up, no dump waits behind another for
  good, a marker is true, retention by age takes only what is stored.
* Notifications: goroutines that nobody waits for. Correct means: a channel
  that hangs costs a bounded number of them.
* Dump server: a handler of a profile is built without the lock from a file that
  changes, and a page is put together from several looks at directories that
  come and go. Correct means: nobody gets a profile older than the file it
  looked at, and what a page says of a dump nobody touched is right.
* Statistics: indices into a ring of 256. Correct means: the pauses reported are
  the last ones.

`PROJECT.json` lists the hazards at the lines where they bite.

## 2. The modules

`UploadOnce` is what the markers promise: the uploaders of a directory copy it
one at a time and publish it only after a copy is stored, for good.

`UploadLock` is `tryUpload` with `clearStaleLock` on one directory, one action
for each system call: `CheckUploaded`, `StatLock`, `RemoveStale`, `OpenLock` and
`OpenRefused` (`O_CREATE|O_EXCL`, which is refused for a lock that is there and for any
other error), `UploadOk`, `UploadFails`, `RenameOk`, `RenameFails`, `Release`; and for
those whose error changes what happens next, `StatFails` (a `Stat` that fails for another
reason than a missing file: a marker counts as missing, a lock is not cleared),
`RemoveStaleFails` and `ReleaseFails` (the lock stays). An uploader is a goroutine that
runs it again and again, as every scan of every service does. The file is what the file system
has: who created it and how old it is. `Crash` stops an uploader anywhere and
leaves the file. Time is in ticks: `Tick` cannot go beyond `UploadTimeout`, when
the upload context expires, nor beyond `Slack` after that, the longest time
from the return of `Upload` to the rename or remove that follows. `stored`
and `rework` are history variables. `OneAtATime` states that it implements
`UploadOnce`, with the uploaders that hold the lock as the active ones.

`WatcherRun` is the goroutine of `Run` and the profiler it drives. The
cases of the `select` are the actions `TickNormal`, `TickWatch`, `TickDump`
(the tick, by what it leads to), `StopCase`, `CancelCase` and `ScanCase`; a dump
is `TakeSnapshot` and `DumpDone`, or `DumpFails`, with the clock going on in
between. The heap is its tier and moves at any time. `Advance` is the clock,
with both tickers; a ticker's channel holds one tick. `ForceDump` and the two
actions `OtherProfile...` are the other users of the CPU profile, present
when `Disturbed`.

`WatcherTiming` adds a clock and counters, which the program does not have, to
say how often and how late `Run` dumps. `WatcherShutdown` adds what
happened since `Stop()`. `WatcherNotify` adds the goroutines of `notify` for one
channel, one for each dump of the loop, with the dump it is about and the time it
was sent: it ends when the template
cannot be filled in, when the service answers or refuses, and with its
context after `NotifyTimeout`. None of them restricts `WatcherRun`: each of their
steps is a step of it, or of the goroutines alone.

`DumpStore` is `writeDumpNamed` with `cleanup` and `dump.WriteAll`, for any
number of goroutines that run it on one `DumpDir`. A step is a system call:
reading the directory (`ReadDir`; `ReadDirFails` skips the cleanup), looking at one entry
(`TTLNext`; `InfoFails` keeps it), removing a file, removing the directory,
`MkdirAll`, creating a file, writing and syncing it. `RemoveAll` is one `Unlink` for
each file and then `RmdirOk`: another writer can come in between, and an error or a kill
leaves what has not been removed yet (`RemoveAllFails`). A file is absent, complete, or
damaged, with the writer that is responsible. Any call may fail
(`MaxFaults`), and any process be killed (`MaxCrashes`). `begun`, `doomed` and
`foiled` are history: dumps begun under a name, directories whose removal has
begun, and removals that met a file written since they emptied the directory
(counted up to `MaxFoiled`).

`PeerUpload` composes writers, uploads and retention on the directories of a
node. A dump is made (`Mkdir`), written (`WriteFile`, which goes on if the directory has
been removed meanwhile) and finished, which starts its own upload at once. That one, named
after its dump, and each scan is a goroutine with the set of directories it has still to
visit. It looks at `.uploaded` (`Check`, or `Skip`), and in a later step it finds the
directory locked or gone (`OpenRefused`) or takes the lock (`Begin`), so that a dump may
be marked in between; then `Upload` returns (`UploadOk`, `UploadFails`). While nobody but
a writer is killed no lock is stale, so `clearStaleLock` has nothing to do here: that is
what `UploadLock` shows. The retention (`PickVictim`) takes any directory that has expired or
must make room, also one that is being written or uploaded, and several cleanups may be
at work at once, on different directories; a removal empties the directory and then
removes it. Every change of an entry renews the ModTime. A `Tick` is the time in which
the storage answers: some of the scan tickers fire, or none if the last scan started less
than `ScanGap` ticks ago. `early`, `spoiled` and `lost` are history: uploads that began
before the dump was finished, directories emptied by the retention, locks removed with
them.

`WatcherConfig` is `setDefaults`, the checks of `New`, `registerCounter`,
`validateAndHeal` with its two heals and its warning, and the creation of the
tickers in `Run`. `HeapMonitor` is `NewHeapMonitor` and `Read`, with arithmetic
modulo `Word`. `WatcherSetup` composes them: `Run` creates the monitor from the
percentages that `New` has let through.

`PprofCache` is `PprofViewerHandler` and `getPprofHandler` for one file: the
`Stat`, the lookup, the build from the content of the file, and the store
are steps of their own; the file is written, finished, written again and removed
meanwhile. Contents are numbered in the order of writing, and the number is the
ModTime too, so two writes within the resolution of the file system's clock are
left out. `DumpServer` extends it with the other handlers of the server: the list
(`List`, `EntryInfo`, `ListDirFiles`, then `WriteJSON` or `RenderDumpList`), the
card, the view of the statistics and the download, each look a step, while dumps
are written and removed. The two kinds of requests have nothing in common but the
server, so a behaviour has one kind.

`StatsRing` is the part of `stats.Build` that indexes the ring of GC pauses,
with the runtime that fills it.

The modules named `MC...` give the constants values for TLC. The definitions
after a comment `Mutant:` are wrong variants of the definition that follows,
used to see that a property can fail; no specification uses them.

## 3. The runs

| Run | Instance | Properties |
|---|---|---|
| `lock` | three uploaders, timeouts 1, 2, 2, two kills or failed removals of a lock, one failed `Stat` | `HolderOwnsLock`, `StaleMeansDead`, `BoundedRework`, `OneAtATime`, `UploadedForGood`, `EventuallyStored`, `EventuallyUploaded` |
| `lock_twice` | equal timeouts, one kill, no failed `Stat` | `MutualExclusion` is violated |
| `run` | intervals 3 and 2, cooldowns 3 and 2, everything disturbs | `ProfileOwned`, `ReleasedAtExit`, `Terminates`, `KeepsDumping`, `ProfileEnds` |
| `timing` | the same intervals, cooldowns 4 and 2, nine ticks, `NotifyTimeout` 3, no other user of the profile | `RateBounded`, `DumpIsPrompt`, `TickDumpsCarryProfile`, `StopAloneDumps`, `NotifiersBounded` |
| `shutdown_race` | as `run`, four ticks | `StopFirstDumps` is violated |
| `store_loop` | one writer, `MaxDumps` 2, `DumpTTL` 2, two files, four seconds, two calls that fail, one kill | `DirsBounded`, `EachErrorCostsOneFile`, `ExpiredGone` |
| `store_pair` | loop and forced dump, `MaxDumps` 2, no TTL, four seconds, up to two foiled removals | `DirsBounded`, `NewestKept` |
| `peer` | two dumps, one of them perhaps still to be written, two scans, a storage that refuses the first dump, `MaxDumps` exhausted for it, `UploadTimeout` 1, `DumpTTL` 4, `ScanGap` 1 | `ScansBounded`, `MarkedIsStored`, `NotByAge`, `NoneStarves`, `MarkedAges` |
| `config` | eight percentages, zero and negative durations, three limits, heaps around every threshold | `OnlyScanPanics`, `WarningIsTrue`, `NeverLate`, `NeverEarly` |
| `config_panic` | percentages and durations zero, durations negative | `NewPreventsPanic` is violated |
| `config_heal` | percentages 0, 60 and 75 | `HealSucceeds` is violated |
| `pprof` | two requests and four writes of a profile, or a page request and two dumps | `NeverOlder`, `PageIsExact`, `CacheSettles` |

The runs `lock`, `run`, `store_loop`, `peer`, `config` and `pprof` also check the
type invariant of their module.

Why the bounds are enough:

* Uploaders: stealing a fresh lock takes three, a dead owner and two that found
  its lock expired. The grace period is one tick more than `Slack` needs, so a
  timeout that is one tick off shows. Two kills cover the death of a thief, and one
  failed `Stat` (`MaxFaults`) an uploader that works on a marked dump.
  Ages saturate at the largest TTL, so these runs have no bound on time.
* Loop: intervals of different lengths that do not divide each other, and
  cooldowns both longer than the fast interval and as long as it. `run` has no bound on
  time. Nine ticks of `timing` hold four dumps of tier 3 and two of tier 2.
* Dumps: with `MaxDumps` 2 there is something to keep and something to remove,
  and the initial states hold every choice of old dumps, none to two of them.
  Time allows dumps of the same second and of different ones. Two files are
  enough to tell the last from an earlier one. Two faults let a cleanup and a
  file of one dump fail. Faults and kills are left to `store_loop`: what `store_pair` is
  about are the interleavings; in four seconds removals are foiled twice, and four
  directories, the bound of `DirsBounded` for one foiled removal, do come about.
* Peer scan: two scans are enough for one that hangs and the next one, and
  for a scan that finds the lock of the dump's own upload, which needs none. The dump that
  the storage refuses comes first in each walk, and retention may empty it under its
  upload; the other one shows what that costs the rest. One of the two is
  written while the other is there (`MaxNew`). A scan starts within two ticks
  (`ScanGap` 1), and `DumpTTL` is one tick longer than it takes a scan to start and to
  reach the last dump, as any value is that is given in days. `MaxLost` lets one lock be
  removed.
* Configuration: the values around each constant of the code, among them those
  where the two heals meet, and a negative one, whose threshold wraps around.
  The limits are not multiples of 100, and the sums of two metrics lie
  on both sides of every threshold.
* Server: four writes let a request see a file that is replaced twice; one page
  request at a time, since they share nothing.

`config`, `config_heal` and `config_panic` end in states without a successor, since `New`
returns once: they are the only runs that do not look for deadlocks.

### Fairness

* `UploadLock`: every uploader that has something to do does it, since scans
  repeat and system calls return; time passes. An `OpenFile` that finds no lock, an upload
  and a rename that are attempted again and again succeed some time (strong fairness of
  `OpenLock`, `UploadOk` and `RenameOk`): with a disk or a storage that never works nothing
  can be uploaded. Kills and failed calls are not fair, they may or may not happen.
* `WatcherRun`: `Run` takes its steps and the clock runs. `select` chooses at
  random among the cases that are ready, so one that is ready again and again
  is chosen some time (strong fairness of `StopCase`, `CancelCase` and the tick).
  Nothing is assumed about the heap, forced dumps or other profiles.
* `PeerUpload`: what has begun goes on (`Step`): the steps of writers, of goroutines and of
  removals, and with them time and the scan tickers. It is one weak fairness for all of
  them, since time does not pass while one has a step to take. The storage accepts a dump
  that is offered again and again (strong fairness of `UploadOk`, none for the dumps it
  refuses). Nothing makes a new dump or a cleanup come (`Mkdir`, `PickVictim`): cleanup runs
  only before a dump, and a service may write no more. `MarkedAges` therefore says
  that a marked dump grows old enough to be removed, not that it is.
* `DumpServer`: a request is worked on until it is answered. That the file is
  rewritten only finitely often comes from `MaxVersion`, and `CacheSettles`
  is about that case.

### What the failing runs show

1. `lock_twice`: `clearStaleLock` removes the lock by its path, some time after
   it looked at its age. Two uploaders find the lock of a killed one expired;
   the first removes it and creates its own, the second removes that one and
   creates another; both upload. What remains true then is proved:
   `UploadedForGood` and `BoundedRework`. `EventuallyUploaded` is not among it: the two may
   remove each other's lock again and again, so it is stated until somebody is killed, and
   `EventuallyStored` for what follows.
2. `shutdown_race`: `Stop()` and then the cancellation, in the order the comment
   in `Run` asks for, leave two cases ready when `Run` is not in its `select` at
   that moment, and the cancellation is chosen half of the time; the final dump is
   lost. `StopAloneDumps` shows that without the cancellation it is not.
3. `config_heal`: tiers 70 (the default), 60 and 75: the second heal sets tier 2
   to 80, above a tier 3 that was right, and `New` fails.
4. `config_panic`: `New` returns a watcher with a negative `ScanInterval`, and `Run` panics
   in `time.NewTicker`; the comments of `New` and `Run` say that it cannot.
   `OnlyScanPanics` shows that no other value gets that far.

## 4. The proofs

Proofs hold for every value of the constants that satisfies the `ASSUME`s of
the modules, and the premises named here.

`UploadLockProofs`
: `TypeCorrect`. Then the lease: `LeaseInv` says that a holder has held for no
  longer than it may, that one still in `Upload` is within its `UploadTimeout`,
  and that a lock whose creator still holds is exactly as old as that creator has
  held. The first two come from the guard of `Tick`, the third is what relates a
  file's age to its owner's life; it survives thefts, since a thief resets the age
  when it becomes the owner. With `CompatibleTimeouts` (every `UploadTimeout`
  plus `Slack` is below every TTL) this gives `StaleLocksAreDead`, whatever is
  killed. `HolderInv` says that until somebody is killed the lock belongs to the one
  that holds it, no lock is without a holder, and nobody is about to remove one
  as stale. It gives `HolderOwns` and `Mutex`. `MarkerIsTruthful` needs neither
  premise: `StoredInv` says that one that is about to rename has stored a copy.
  `ReworkIsBounded`: once the dump is marked, the uploads begun in spite of it
  and the uploaders that are past the check add up to less than the number of
  uploaders and of failed looks, since the one that made the mark is not among them and nobody passes the
  check any more but by an error (`ReworkInv`); kills and thefts only take uploaders away.
  `Implements` is the refinement of `UploadOnce`, until somebody is killed, step by step.

`DumpStoreProofs`
: Any number of writers and services, any number of failed calls and kills.
  `TypeCorrect` comes with `Locals`, what each local of `writeDumpNamed` is at each
  step. What remains is how the steps of one writer disturb what another relies on.

  `CleanupSweeps`: while a cleanup without errors runs, a directory that had expired
  when it began is still on its list or just being removed, and nothing
  has been written to it since (`Swept`); whatever other writers make or touch
  meanwhile is too young for it.

  `DamageIsLimited`: the files that the writer of an untouched dump has passed are
  complete but for one per error, those ahead are absent and the one in hand is its own
  (`Progress`); that no other writer is in the directory comes from the count of dumps
  begun there (`Accounted`). When the writer is killed or done, the files lost are among
  those it had passed.

  `NewestSpared` has the premise `OneService`: no `DumpTTL`, which may take any dump, and
  one service in `DumpDir`, since between services the order of names is not that of
  time (section 5). What a cleanup is about to destroy has `MaxDumps - 1` younger
  directories, and of what it has on its list as many are still on the disk
  (`Spares`). The list is out of date, so the step to see is that the
  removals of others do not break this: to take away a directory that has
  enough younger ones leaves enough to every other (`EnoughStays`).

  `BoundKept`: `Cardinality(dirs)` is not inductive in any form that only looks at
  the disk, as the writers between their cleanup and their `Mkdir` decided on what
  they saw before. `OrderInv` numbers the cleanups in the order of their `ReadDir`, and
  says of the last one that found room, and of each one behind it, that
  the directories it does not know of and those that the writers ahead of it
  may still add are within the slack (`Order`). The numbers are not in the
  program; the invariant says that some choice of them exists, and each step either
  keeps it (`OrderKept`) or says what the next one is (`OrderReadDir`,
  `OrderMaxDone`). A removal that fails or is foiled, and a `ReadDir` that fails
  (`OrderReadDirFails`), enlarges the slack by one, which
  is why the bound has `faults` and `foiled` in it. `MaxFoiled` only ends the
  count: the theorem is for every value of it, thus for every number of foiled removals.

`WatcherProofs`
: `RunTypeCorrect`, and `ProfileInv`: the profiler's belief agrees with the
  runtime, and the profile is off before the loop begins, from the start of a
  final dump on, and after the return. `ProfileIsOwned` and `ProfileIsReleased` follow.
  `DumpsCarryProfile`: without other users, a tick that begins a dump leaves the
  profile running until the snapshot (`CarryInv`).

  `RateIsBounded`: `RateBounded` is inductive together with the fact that a
  dump of a tier begins only when its cooldown is over, and stays over until the
  dump is done (`CooldownOver`). `DumpsArePrompt`: while a dump is due in the
  `select`, the ticks waited and the time until the ticker fires add up to at
  most the interval (`OverdueInv`); the cases of the `select` that leave the
  loop in it either reset the ticker or do not touch it.

  `StopAloneGetsDump` is about `WatcherShutdown`: `ShutdownInv` says that
  without a cancellation `Run` has returned only after `Stop()`, from the case
  that reads the heap or after the final dump.

  `NotifiersAreBounded` is about `WatcherNotify`: `PendingInv` says that what is under
  way was sent within the last `NotifyTimeout` and that the notifications of a tier
  were sent a cooldown apart, because the last of them is no younger than the time
  the cooldown counts from (`CooldownOver` again). Divided by the cooldown, the ages of
  such notifications are different numbers (`QuotientsDiffer`), so that there are
  no more of them than a `NotifyTimeout` has room for (`ApartFit`, by the
  pigeonhole principle). The shutdown dump, after which `Run` returns, adds one.

`HeapMonitorProofs`
: `TiersNeverLate` and `TiersNeverEarly` under `NoOverflow` (a limit times 99
  fits the word), from the bounds of an integer division (`ThresholdExact`), the
  order of the thresholds, and `Consistent`: the reported tier is that of the
  reported bytes.

`WatcherSetupProofs`
: `TypeCorrect`, for all values a client may give: what the setters and the heals leave
  in a field is again a value of it, and each threshold fits the word.
  `Established` says what each phase of `New` has made sure of; it gives
  `OnlyScanIntervalPanics`. `WarningsAreTrue` is a case analysis of the two heals.
  `SetupUsesMonitor` is a refinement: what `New` lets through is what
  `MonitorSpec` expects of its callers, so that the theorems about `HeapMonitor`
  hold of the composition (`TiersAreExact`).

`PeerUploadProofs`
: `TypeCorrect`; `ScansAreBounded`, for any number of scans and dumps: each upload
  under way has a lock of its own but for the locks the retention took
  away; `MarkedAreStored`: an upload that found a finished dump with all its files
  stores all of them, and a marker of a directory that nobody emptied comes
  only from such an upload.

  `YoungAreKept` is `NotByAge` under the premise `InTime`. `DumpTTL` must be longer than
  an upload, and longer than it takes the next scan to start (`ScanGap` and one tick) plus
  an upload that times out for each other dump, which is what a scan may have to wait
  before it comes to the last dump of its walk (`Longest`). `AgeInv` says that the
  goroutine of a lock is in the directory and touched it when it began (`Attended`), that
  the upload of a dump is not there before its writer is done (`Unstarted`), and that a
  dump without a lock that nobody touched since the last scan started is ahead of some
  goroutine that will reach it in that time (`Reached`).
  That a scan can start needs a goroutine to be free: the code has
  no bound on them, the model has a set, and `ScansAreBounded` says how large it must
  be (`SomebodyIsFree`). The run has fewer (two, for the sake of its liveness properties)
  and `NotByAge` holds there too.

`DumpServerProofs`
: `TypeCorrect`; `NobodyGetsOlder`: in the cache and in the hands of each request a content is
  at least as new as the ModTime it goes with (`CacheInv`), since the file is
  read after its ModTime. `PagesAreExact`: for a dump that does not change, each
  step of a request knows the truth about what it has visited and keeps what it
  has not (`ExactSoFar`).

`StatsRing`
: `RecentPausesRight`: the ring holds the last 256 pauses, each at its place
  (`RingInv`), and the index of `Build` finds them; 256 divides 2^32, so the
  wrap of `NumGC` does no harm but to report fewer pauses for a moment. There is
  no run of it: the theorem covers every number of collections.

The assumptions on the constants are those of the code's types (durations and counts
are naturals where `New` sees to that, or where a negative value makes nothing
work), and that there are finitely many goroutines, services and dumps, and at
least one uploader and one writer.

So every invariant and every action property that a passing run checks is the subject of a
theorem, some under a premise that is named above; the run shows it on an
instance. Only checked by TLC are the liveness properties, whose fairness is out of
the prover's reach: `EventuallyUploaded`, `EventuallyStored`, `Terminates`,
`KeepsDumping`, `ProfileEnds`, `CacheSettles`, `NoneStarves`, `MarkedAges`.

## 5. Read in the code, besides what the failing runs show

* `.uploaded` is checked before the lock is taken and not again under it, so an
  upload can be repeated. `BoundedRework` is what holds instead.
* The TTL is computed from the `UploadTimeout` of the service that looks at the
  lock, not of the one that holds it: services with very different timeouts
  take a live lock for a dead one. This is the premise `CompatibleTimeouts`.
* The ModTime of a directory, which `DumpTTL` goes by and the pages call the time of
  creation, is renewed by each lock file in it. A dump that the storage never
  accepts does not expire; without `MaxDumps` it stays for ever. `NotByAge` and
  `MarkedAges` state what follows. The first needs a `DumpTTL` that is longer than
  the time a scan may take to come to the last dump (`InTime`): with
  days against minutes it is, but nothing in `New` looks at it.
* A peer scan sees a directory from `MkdirAll` on. One that comes before the
  files are written uploads and marks an incomplete dump, and the service's own
  upload then finds the marker. `MarkedIsStored` excepts it by name.
* A directory emptied by the retention under an upload or under its writer may stay
  behind, with a lock file, a marker or a few files and without its dump.
* What is expired is removed with the next dump of the same service: when it writes no
  more, its old dumps stay.
* A negative percentage passes `New`; its threshold wraps around and the tier is
  never reached. `NeverLate` is about positive ones. Negative `UploadTimeout` and
  `NotifyTimeout` are not refused either.
* A negative limit cannot be; a limit of 0 makes the percentage in the statistics
  infinite or not a number, `json.MarshalIndent` fails and the dump has no
  `runtime_stats.json`.
* `Run` returns without waiting for the notification and the upload of the final
  dump; `NotifiersBounded` counts the dumps of the loop, and a client may
  force more.
* The error of a removal by `DumpTTL` is logged with the name of the first
  directory of the list, not of the one that failed.
* A `PollInterval` below 500 ms is lengthened, not shortened, under pressure.
* The stop case discards the CPU profile before it writes the final dump, which
  therefore has none.
* `ShutdownDumpTimeout` has a default and is read nowhere.
* Names have the resolution of a second and `MkdirAll` accepts what exists: two
  dumps of one second share a directory and the second truncates the files of
  the first.
* `cleanup` makes room for one dump; a forced dump next to the loop makes room
  for its own at the same time. And it gives up at the first removal that fails:
  when the oldest dump is still being written, a file that comes between the two
  parts of `RemoveAll` foils its removal and those behind it are not tried, so the
  directory grows by one, and again with each such dump.
  `DirsBounded` states what holds. With `MaxDumps` 1 it removes a directory that is being written, and its name is returned.
* With two services in one `DumpDir` the order of names is not that of time,
  and `MaxDumps` removes newer dumps of the first in the alphabet.
* `DumpTTL` is applied before a dump, whether or not it succeeds, where
  `config.go` says after each that does.

## 6. Not modelled

* The notification that `New` sends for a healed configuration, and how long
  goroutines of different channels overlap: each channel is as the one modelled.
* The rest of the statistics: copies of what the runtime reports.
* Paths, sizes, times and HTML of the dump server; the requests of the notifiers;
  the texts of the templates; the uploader behind its interface; the services
  handler, which lists each directory once; logging and the example program:
  I/O, wording or no state.
* In `PeerUpload`: kills other than of a writer, since a dead owner of a lock is the
  subject of `UploadLock`; time that passes while a dump is written or a directory removed,
  or between the look at `.uploaded` and the lock, all of which is short against an
  `UploadTimeout`; the single files of a removal, which are in `DumpStore`, and two removals
  of the same directory at once; and a scan that starts when all of `Scan` are at work:
  the set is a bound, the code has none, and the theorems hold for sets of any size.
* The content of profiles and files beyond absent, complete and damaged; the
  optional files of a dump, which only make it shorter.

## 7. Plan

1. `PeerUpload` with kills and stale locks, by replacing its atomic `tryUpload`
   with the steps of `UploadLock`: is a marker still true when a stolen lock
   meets the retention?
2. An abstract specification of the retention (a bounded set of complete dumps)
   that `DumpStore` implements, proved over the invariants of `DumpStoreProofs`.
3. The forced dumps in `WatcherNotify`.
