---------------------------- MODULE MCDumpServer ----------------------------
(* A small instance of DumpServer for TLC. *)
EXTENDS DumpServer

CONSTANTS r1, r2

MCRequest == {r1, r2}
=============================================================================
