--------------------------- MODULE MCOrdersTraversal --------------------------
(* Small instances of OrdersTraversal for TLC. *)
EXTENDS OrdersTraversal

AllOrders == [status |-> Undefined, dateFrom |-> Undefined, dateTo |-> Undefined]
SinceMillisecondOne == [status |-> "NEW", dateFrom |-> 1, dateTo |-> Undefined]

\* One order at a time, so that there are many pages; and pages longer than most lists,
\* of a filter that leaves out the orders of millisecond 0.
MCPlans ==
    { [direction |-> "forward", size |-> 1, filter |-> AllOrders],
      [direction |-> "backward", size |-> 3, filter |-> SinceMillisecondOne] }
=============================================================================
