------------------------- MODULE MCRequestCancellation -------------------------
(* Values for the constants of RequestCancellation. *)
EXTENDS RequestCancellation, TLC

CONSTANTS r1, r2, r3

AllKinds == (r1 :> "guarded") @@ (r2 :> "stream") @@ (r3 :> "passthrough")
================================================================================
