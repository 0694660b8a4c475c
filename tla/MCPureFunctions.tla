---------------------------- MODULE MCPureFunctions ---------------------------
(***************************************************************************)
(* What the services compute from their arguments, before or after the     *)
(* database: each state is one request body, or one table with a question  *)
(* about it.                                                               *)
(***************************************************************************)
EXTENDS MCOrderItems, MCOrdersPage

\* Prices that differ.
MCPrice == [id \in ProductIds |-> id + 1]

Between(from, to) == [NoFilter EXCEPT !.dateFrom = from, !.dateTo = to]

\* Milliseconds 0 and 1 are those of the instants; each bound is met from both sides.
MCFilters ==
    { NoFilter,
      [NoFilter EXCEPT !.status = "PAID"],
      Between(1, Undefined), Between(Null, 0), Between(1, 1), Between(1, 0),
      Between(Malformed, Undefined), Between(Undefined, Malformed) }

Init == NoBody /\ NoQuestion

Next ==
    \/ AddToBody /\ NoQuestion /\ UNCHANGED <<table, filter, args>>
    \/ (PlaceOrder \/ Ask) /\ NoBody /\ UNCHANGED items

Spec == Init /\ [][Next]_<<items, table, filter, args>>
=============================================================================
