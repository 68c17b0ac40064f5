--------------------------- MODULE WatcherNotify ---------------------------
(***************************************************************************)
(* The notifications that the dumps of Watcher.Run start: a goroutine for  *)
(* each of the configured channels, which nobody waits for.  The channels  *)
(* know nothing of each other, and one of them stands here for all.  It    *)
(* may answer at any time, refuse, or hang until its context ends.         *)
(***************************************************************************)
EXTENDS WatcherShutdown, FiniteSets

CONSTANT NotifyTimeout  \* cfg.NotifyTimeout

ASSUME NotifyAssumption == NotifyTimeout \in Nat \ {0}

VARIABLE pending  \* the notifications under way: of which dump, sent when

nvars == <<svars, pending>>

NInit == SInit /\ pending = {}

Completed == pc = "write" /\ pc' # "write"

\* notify returns at once, and writeDumpNamed after it.
Notify ==
  pending' = pending \cup {[label |-> job, nr |-> dumps2 + dumps3, sent |-> now]}

Ends(n) == pending' = pending \ {n}

\* Templator.Get has no such template or cannot fill it in.
RenderFails == \E n \in pending : n.sent = now /\ Ends(n)

\* The service answers, or the request fails: the error is only logged.
Answered == \E n \in pending : Ends(n)

\* Mutant: the context has no timeout.
OlderUnbounded == UNCHANGED pending

\* The contexts end of the notifications that were sent so long ago.
Older == pending' = {n \in pending : now' - n.sent < NotifyTimeout}

NNext ==
  \/ /\ SNext
     /\ \/ now' # now /\ Older
        \/ now' = now /\ Completed /\ Notify
        \/ now' = now /\ ~Completed /\ UNCHANGED pending
  \/ (RenderFails \/ Answered) /\ UNCHANGED svars

NSpec == NInit /\ [][NNext]_nvars

-----------------------------------------------------------------------------
\* The most dumps of a tier that a time as long as NotifyTimeout has room for.
Room(cooldown) == (NotifyTimeout - 1) \div cooldown + 1

\* A channel that hangs while the heap stays critical does not collect
\* goroutines: the cooldowns leave room for so many dumps in a NotifyTimeout,
\* and the end of Run for one more.
NotifiersBounded ==
  Cardinality(pending) <= Room(CooldownTier2) + Room(CooldownTier3) + 1
=============================================================================
