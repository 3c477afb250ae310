--------------------------- MODULE MCBundleThread ---------------------------
EXTENDS BundleThread

CONSTANTS v1, v2, b1, b2

(* Two VMs: the build of one waits behind the build of the other. *)
OneEach == b1 :> v1 @@ b2 :> v2
=============================================================================
