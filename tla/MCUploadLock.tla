---------------------------- MODULE MCUploadLock ----------------------------
(* Small instances of UploadLock for TLC. *)
EXTENDS UploadLock, TLC

CONSTANTS u1, u2, u3

MCUploader == {u1, u2, u3}

\* The uploaders are interchangeable; not used with liveness properties.
MCSymmetry == Permutations(MCUploader)

\* The same UploadTimeout in every service of the node.
MCSame == [u \in MCUploader |-> 2]

\* Different ones, close enough to each other for the grace period.
MCClose == u1 :> 1 @@ u2 :> 2 @@ u3 :> 2
=============================================================================
