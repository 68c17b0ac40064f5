-------------------------- MODULE WatcherShutdown --------------------------
(***************************************************************************)
(* Watcher.Run on its way out: what a graceful shutdown gets when Stop()   *)
(* and the cancellation of the context race.  The variables added here are *)
(* observations, not state of the program.                                 *)
(***************************************************************************)
EXTENDS WatcherTiming

VARIABLES
  stopFirst,     \* Stop() was called while ctx was not done
  hotSinceStop   \* and the heap has been at tier 2 or 3 ever since

svars == <<tvars, stopFirst, hotSinceStop>>

SInit == TInit /\ stopFirst = FALSE /\ hotSinceStop = FALSE

SNext ==
  /\ TNext
  /\ stopFirst' = (stopFirst \/ (stopped' # stopped /\ ~cancelled))
  /\ hotSinceStop' = (stopFirst' /\ heap' >= 2 /\ (stopFirst => hotSinceStop))

SSpec == SInit /\ [][SNext]_svars

-----------------------------------------------------------------------------
Began == pc # "start" /\ HasLimit

\* config.go: "Stop() writes a dump if the heap is at tier 2 or above at the
\* moment of stopping".  It does so when nothing but Stop() ends Run, even
\* if Stop() comes before Run or in the middle of another dump.
StopAloneDumps ==
  pc = "returned" /\ Began /\ hotSinceStop /\ ~cancelled => job = "shutdown"

\* The same for the order that watcher.go asks of its client, Stop() before
\* cancelFunc(): the later cancellation must not cost the dump.
StopFirstDumps ==
  pc = "returned" /\ Began /\ hotSinceStop => job = "shutdown"
=============================================================================
