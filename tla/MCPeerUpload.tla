---------------------------- MODULE MCPeerUpload ----------------------------
(* A small instance of PeerUpload for TLC. *)
EXTENDS PeerUpload

CONSTANTS g1, g2

MCScan == {g1, g2}
=============================================================================
