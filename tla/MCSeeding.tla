------------------------------ MODULE MCSeeding -------------------------------
(* A small instance of Seeding for TLC. *)
EXTENDS Seeding, TLC

CONSTANTS s1, s2, s3, admin, customer, documented, other, espresso, latte, mocha

MCSeedStock == [t \in Titles |-> IF t = espresso THEN 2 ELSE 1]

\* A product someone has added by hand (homework05.md 111) and taken off the list.
MCHandMade == { [id |-> <<None, espresso>>, title |-> espresso, stock |-> 1, active |-> FALSE] }

MCAccounts == { [email |-> admin, password |-> documented, role |-> "ADMIN"],
                [email |-> customer, password |-> documented, role |-> "USER"] }

Symmetry == Permutations(Seeds)
=============================================================================
