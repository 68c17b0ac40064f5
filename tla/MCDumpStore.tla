---------------------------- MODULE MCDumpStore ----------------------------
(* Small instances of DumpStore for TLC. *)
EXTENDS DumpStore

CONSTANTS run, force

\* The loop of Run alone, and together with a forced dump.
MCLoop == {run}
MCPair == {run, force}

MCOneService == [w \in {run, force} |-> 1]
MCLoopService == [w \in {run} |-> 1]
=============================================================================
