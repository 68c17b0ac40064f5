--------------------------- MODULE MCWatcherConfig ---------------------------
(* Small instances of WatcherConfig for TLC. *)
EXTENDS WatcherConfig

\* Not given, and negative.
MCDuration == {0, -1}
=============================================================================
