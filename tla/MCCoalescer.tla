----------------------------- MODULE MCCoalescer -----------------------------
(* Three requests share a key, a fourth has its own, so that a leader, its   *)
(* waiters, a later leader and a bypass all occur.                           *)
EXTENDS Coalescer, TLC

CONSTANTS r1, r2, r3, r4, k1, k2

MCKeyOf == (r1 :> k1) @@ (r2 :> k1) @@ (r3 :> k1) @@ (r4 :> k2)
=============================================================================
