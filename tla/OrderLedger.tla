------------------------------ MODULE OrderLedger -----------------------------
(***************************************************************************)
(* What POST /orders promises, with no handler, pool, lock or transaction  *)
(* in sight: a ledger of orders and the stock they are taken from.  The    *)
(* only thing that ever happens is that a whole order appears, under a key *)
(* and an id never used before, and that the stock of each product it      *)
(* names goes down by exactly the quantity it names, never below zero.     *)
(***************************************************************************)
EXTENDS OrderItems

CONSTANTS
    Catalog,      \* the product rows
    Price,        \* price_cents of each row
    Currency,     \* currency of each row
    InitialStock, \* stock of each row before the first order
    IntColumn     \* the values PostgreSQL's integer type can hold

VARIABLES stock, orders

ledgerVars == <<stock, orders>>

Init ==
    /\ stock = InitialStock
    /\ orders = {}

\* The whole order o is placed at once.  The specification judges steps, it does
\* not generate them: o is read off the step.
Place(o) ==
    /\ orders' = orders \cup {o}
    /\ \A q \in orders : q.id # o.id /\ q.key # o.key
    /\ DOMAIN o.lines \subseteq Catalog
    /\ DOMAIN o.lines # {}
    /\ \A p \in DOMAIN o.lines : o.lines[p] \in 1..stock[p]
    /\ SameCurrency(DOMAIN o.lines, Currency)
    /\ o.total = TotalAmountCents(o.lines, Price)
    /\ o.total \in IntColumn
    /\ stock' = [p \in Catalog |->
                    IF p \in DOMAIN o.lines THEN stock[p] - o.lines[p] ELSE stock[p]]

Next == \E o \in orders' : Place(o)

Spec == Init /\ [][Next]_ledgerVars
=============================================================================
