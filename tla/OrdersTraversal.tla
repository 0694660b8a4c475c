---------------------------- MODULE OrdersTraversal ---------------------------
(***************************************************************************)
(* A client pages through Query.orders, forward or backward, while other   *)
(* clients' orders are committed.  The rows of each page are read by a     *)
(* query of their own, and the created_at of an order is the time its      *)
(* transaction began: an order may appear anywhere in the list.            *)
(***************************************************************************)
EXTENDS OrdersQuery

CONSTANTS
    Ids,       \* order ids (naturals, so that they compare as uuids do)
    Instants,  \* created_at values
    Plans      \* how clients page: [direction, size, filter]; "forward" is by
               \* first and after, "backward" by last and before

ASSUME OrdersAssumption == Ids \subseteq Nat /\ Instants \subseteq Nat

\* Clients ask for what the resolver and the service take.
ASSUME PlansAssumption ==
    \A p \in Plans :
        /\ p.direction \in {"forward", "backward"}
        /\ p.size \in 1..MaxPage
        /\ WellFormedDates(p.filter) /\ ValidDateRange(p.filter)

VARIABLES
    plan,    \* how this client pages
    table,   \* committed orders
    client,  \* "start", "paging", "done", or "refused" after a 400
    cursor,  \* the cursor the next page starts from
    got,     \* orders received, in the order of the list
    initial  \* orders there were when the first page was read

vars == <<plan, table, client, cursor, got, initial>>

\* Nothing in src/ ever changes status, deletes an order or rewrites created_at.
Orders == [id : Ids, at : Instants, status : {"NEW"}]

TypeOK ==
    /\ plan \in Plans
    /\ table \subseteq Orders
    /\ client \in {"start", "paging", "done", "refused"}
    /\ cursor = Undefined
       \/ cursor \in [id : Ids, createdAt : {Millis(o) : o \in Orders}]
    /\ \A i \in DOMAIN got : got[i] \in table
    /\ initial \subseteq table

Init ==
    /\ plan \in Plans
    /\ table = {}
    /\ client = "start"
    /\ cursor = Undefined
    /\ got = <<>>
    /\ initial = {}

\* Somebody's transaction commits.
PlaceOrder(order) ==
    /\ \A o \in table : o.id # order.id
    /\ table' = table \cup {order}
    /\ UNCHANGED <<plan, client, cursor, got, initial>>

Forward == plan.direction = "forward"

PageArgs ==
    IF Forward
      THEN [first |-> plan.size, after |-> cursor, last |-> Undefined, before |-> Undefined]
      ELSE [first |-> Undefined, after |-> Undefined, last |-> plan.size, before |-> cursor]

\* The client keeps the page and follows pageInfo.
TakePage(page) ==
    /\ got' = IF Forward THEN got \o page.nodes ELSE page.nodes \o got
    /\ IF (IF Forward THEN page.hasNextPage ELSE page.hasPreviousPage)
         THEN /\ client' = "paging"
              /\ cursor' = IF Forward THEN page.endCursor ELSE page.startCursor
         ELSE client' = "done" /\ UNCHANGED cursor

\* The client asks for the next page.
FetchPage ==
    /\ client \in {"start", "paging"}
    /\ initial' = IF client = "start" THEN table ELSE initial
    /\ \E orders \in {FindOrdersByFilter(table, plan.filter)} :
       \E page \in {QueryOrders(orders, plan.filter, PageArgs)} :
          IF page.status = "BadRequest"
            THEN client' = "refused" /\ UNCHANGED <<cursor, got>>
            ELSE TakePage(page)
    /\ UNCHANGED <<plan, table>>

Next == FetchPage \/ \E order \in Orders : PlaceOrder(order)

Spec == Init /\ [][Next]_vars

\* The client keeps asking; orders are finite.
FairSpec == Spec /\ WF_vars(FetchPage)

-----------------------------------------------------------------------------
Shown(order) == \E i \in DOMAIN got : got[i] = order

\* No order is shown twice, and what is shown is in the list's order, however the list
\* grew between the pages (homework07.md 59: "stable forward/backward navigation").
PagesAreOrdered ==
    \A i, j \in DOMAIN got : i < j => NewestFirst(got[i], got[j])

\* A client that has been told there are no more pages has seen every order there was
\* when it began that its filter selects, short pages or not.
NothingSkipped ==
    client = "done" => \A o \in initial : Selected(o, plan.filter) => Shown(o)

\* A cursor the service has handed out is good for ever.
CursorsLast == client # "refused"

\* A page that pageInfo has announced shows an order the client has not been shown; so a
\* client that follows pageInfo never asks more often than there are orders to see.
EveryPageIsNews ==
    [][client = "paging" =>
          table' # table \/ \E i \in DOMAIN got' : ~Shown(got'[i])]_vars

\* pageInfo leads to an end.
TraversalEnds == <>(client = "done")

-----------------------------------------------------------------------------
(* Why these hold *)

OneRowPerId == \A o, p \in table : o.id = p.id => o = p

\* The order the client has got to.
Reached == IF Forward THEN Last(got) ELSE Head(got)

\* Still ahead of the client.
Ahead(order) ==
    IF Forward THEN NewestFirst(Reached, order) ELSE NewestFirst(order, Reached)

\* Between two pages the client holds the cursor of the order it has got to.
CursorIsReached ==
    /\ client = "start" => got = <<>> /\ cursor = Undefined
    /\ client = "paging" => got # <<>> /\ cursor = ToCursor(Reached)

NothingPassedOver ==
    client = "paging" =>
        \A o \in initial : Selected(o, plan.filter) => Shown(o) \/ Ahead(o)

\* What pageInfo announced is still there.
MoreIsAhead ==
    client = "paging" => \E o \in table : Selected(o, plan.filter) /\ Ahead(o)

\* What every step keeps: a list with orders of one id could not be looked up in, and the
\* pages are connected only if the cursor is where the pages end.
IInv ==
    /\ TypeOK
    /\ IsFiniteSet(table) /\ OneRowPerId
    /\ got \in Seq({o \in table : Selected(o, plan.filter)})
    /\ CursorIsReached
    /\ NothingPassedOver
    /\ MoreIsAhead
    /\ PagesAreOrdered /\ NothingSkipped /\ CursorsLast
=============================================================================
