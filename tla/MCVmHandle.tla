----------------------------- MODULE MCVmHandle -----------------------------
EXTENDS VmHandle

CONSTANTS j1, j2

(* one job of the C++ work queue, one whose completion gives its keep-alive back *)
PoolAndLoop == (j1 :> "pool") @@ (j2 :> "loop")
=============================================================================
