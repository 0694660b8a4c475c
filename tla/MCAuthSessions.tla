---------------------------- MODULE MCAuthSessions ----------------------------
(* Small instances of AuthSessions for TLC. *)
EXTENDS AuthSessions, TLC

CONSTANTS r1, r2, r3, ann, old, new, p, q

\* A seeded account, and an address that several clients would like.
MCSeedUsers == { [id |-> ann, email |-> old, password |-> p, role |-> "ADMIN", session |-> None] }

Symmetry == Permutations(Requests)
=============================================================================
