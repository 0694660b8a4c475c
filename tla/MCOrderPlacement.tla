--------------------------- MODULE MCOrderPlacement ---------------------------
(* Small instances of OrderPlacement for TLC. *)
EXTENDS OrderPlacement, TLC

CONSTANTS r1, r2, r3, k1, k2, bad, a, A, b, ghost

\* A is the text of row a in capitals; ghost is a well-formed UUID of no row.
MCProductIds == {a, A, b, ghost}
MCCatalog == {a, b}
MCRowOf == (a :> a) @@ (A :> a) @@ (b :> b) @@ (ghost :> None)
MCPrice == (a :> 2) @@ (b :> 3)
MCCurrency == (a :> "UAH") @@ (b :> "UAH")
MCMixedCurrency == (a :> "UAH") @@ (b :> "USD")
MCInitialStock == (a :> 2) @@ (b :> 1)
MCAmpleStock == (a :> 2) @@ (b :> 2)
MCLastUnit == (a :> 1) @@ (b :> 1)

Item(id, n) == [productId |-> id, quantity |-> n]
Payload(k, items) == [key |-> k, items |-> items]

\* Two keys; baskets that share a, that share both rows, and that ask for too much.
TwoProductPayloads ==
    { Payload(k1, <<Item(a, 1)>>),
      Payload(k1, <<Item(a, 1), Item(b, 1)>>),
      Payload(k2, <<Item(b, 1), Item(a, 1)>>),
      Payload(k2, <<Item(a, 1), Item(a, 1)>>) }

\* Every way to be turned down (the last: its total overflows), next to an order that
\* is fine.
OddPayloads ==
    { Payload(bad, <<Item(a, 1)>>),
      Payload(k1, <<>>),
      Payload(k1, <<Item(a, 0)>>),
      Payload(k1, <<Item(ghost, 1), Item(a, 1)>>),
      Payload(k1, <<Item(A, 1), Item(a, 1)>>),
      Payload(k1, <<Item(A, 1)>>),
      Payload(k1, <<Item(a, 1), Item(b, 1)>>),
      Payload(k2, <<Item(b, 1), Item(b, 1)>>),
      Payload(k2, <<Item(a, 1)>>),
      Payload(k2, <<Item(a, 2)>>) }

\* One client, one key, the same body every time.
TwinPayloads == { Payload(k1, <<Item(a, 1)>>) }

\* One body over two rows: any two of these requests may lock them in opposite orders.
CrossingPayloads == { Payload(k1, <<Item(a, 1), Item(b, 1)>>) }

Symmetry == Permutations(Requests)
=============================================================================
