--------------------------- MODULE MCWatcherSetup ---------------------------
(* A small instance of WatcherSetup for TLC. *)
EXTENDS WatcherSetup

\* Not given, around the values that heal resets to, the limit, and negative.
MCPct == {-5, 0, 33, 60, 75, 80, 99, 100}

\* Not given, and negative.
MCDuration == {0, -1}

\* Limits of which the percentages are not whole numbers.
MCLimit == {0, 7, 33}

MCBytes == 0..18
=============================================================================
