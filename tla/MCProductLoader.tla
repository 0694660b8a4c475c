---------------------------- MODULE MCProductLoader ----------------------------
(* Small instances of ProductLoader for TLC. *)
EXTENDS ProductLoader, TLC

CONSTANTS r1, r2, l1, l2, l3, l4, a, b

\* A response with a product twice and another one, and a second response with the first.
MCRequestOf == (l1 :> r1) @@ (l2 :> r1) @@ (l3 :> r1) @@ (l4 :> r2)
MCIdOf == (l1 :> a) @@ (l2 :> b) @@ (l3 :> a) @@ (l4 :> a)
=============================================================================
