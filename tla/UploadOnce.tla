----------------------------- MODULE UploadOnce -----------------------------
(***************************************************************************)
(* What the .uploading / .uploaded markers of a dump directory promise:    *)
(* the goroutines that run tryUpload on one directory, in any process of   *)
(* the node, copy it one at a time, and the directory is declared uploaded *)
(* only after a copy that reached the storage, and for ever.               *)
(***************************************************************************)
CONSTANT Uploader

VARIABLES
  active,     \* the uploaders that are copying the directory
  stored,     \* some copy has reached the storage
  published   \* the directory carries the .uploaded marker

vars == <<active, stored, published>>

Init ==
  /\ active = {}
  /\ stored = FALSE
  /\ published = FALSE

Begin(u) ==
  /\ active = {}
  /\ active' = {u}
  /\ UNCHANGED <<stored, published>>

Store(u) ==
  /\ u \in active
  /\ stored' = TRUE
  /\ UNCHANGED <<active, published>>

GiveUp(u) ==
  /\ u \in active
  /\ active' = active \ {u}
  /\ UNCHANGED <<stored, published>>

Publish(u) ==
  /\ u \in active
  /\ stored
  /\ active' = active \ {u}
  /\ published' = TRUE
  /\ UNCHANGED stored

Next == \E u \in Uploader : Begin(u) \/ Store(u) \/ GiveUp(u) \/ Publish(u)

Spec == Init /\ [][Next]_vars
=============================================================================
