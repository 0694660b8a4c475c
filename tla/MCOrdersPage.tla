----------------------------- MODULE MCOrdersPage -----------------------------
(***************************************************************************)
(* One page of Query.orders, for every small table, filter and pagination: *)
(* the properties compare the answer with what Relay's cursor connections  *)
(* prescribe                                                               *)
(* (https://relay.dev/graphql/connections.htm#sec-Pagination-algorithm,    *)
(* the "Connection-style cursor pagination" of homework07.md 49), stated   *)
(* here by sets of orders instead of array indices.                        *)
(***************************************************************************)
EXTENDS OrdersQuery

CONSTANTS
    OrderIds, \* order ids
    Instants, \* created_at values
    Sizes,    \* what first and last may be
    Filters   \* what is filtered for

ASSUME QuestionsAssumption ==
    /\ OrderIds \subseteq Nat /\ Instants \subseteq Nat
    /\ Sizes \subseteq Int \cup {Undefined, Null}
ASSUME FiltersAssumption ==
    Filters \subseteq [status   : {Undefined, Null, "NEW", "PAID", "CANCELED"},
                       dateFrom : Nat \cup {Undefined, Null, Malformed},
                       dateTo   : Nat \cup {Undefined, Null, Malformed}]

VARIABLES table, filter, args

NoFilter == [status |-> Undefined, dateFrom |-> Undefined, dateTo |-> Undefined]
NoArgs == [first |-> Undefined, after |-> Undefined,
           last |-> Undefined, before |-> Undefined]

\* The cursors of the orders there are, one of an order that is not, and garbage.
Cursors ==
    {Undefined, Malformed, [id |-> 0, createdAt |-> 0]} \cup {ToCursor(o) : o \in table}

NoQuestion == table = {} /\ filter = NoFilter /\ args = NoArgs

PlaceOrder ==
    /\ args = NoArgs /\ filter = NoFilter
    /\ \E id \in OrderIds, at \in Instants :
          /\ \A o \in table : o.id < id
          /\ table' = table \cup {[id |-> id, at |-> at, status |-> "NEW"]}
    /\ UNCHANGED <<filter, args>>

Ask ==
    /\ args = NoArgs /\ filter = NoFilter
    /\ filter' \in Filters
    /\ args' \in [first : Sizes, after : Cursors, last : Sizes, before : Cursors]
    /\ UNCHANGED table

-----------------------------------------------------------------------------
Orders == FindOrdersByFilter(table, filter)
Response == QueryOrders(Orders, filter, args)
Page == ListOrdersConnection(Orders, filter, args)
Shown == Range(Page.nodes)

\* The orders a cursor admits: Relay's ApplyCursorsToEdges, on sets.
After(cursor) ==
    {o \in Range(Orders) : cursor \notin NoCursor =>
        \E c \in table : ToCursor(c) = cursor /\ NewestFirst(c, o)}
Before(cursor) ==
    {o \in Range(Orders) : cursor \notin NoCursor =>
        \E c \in table : ToCursor(c) = cursor /\ NewestFirst(o, c)}
Admitted == After(args.after) \cap Before(args.before)

Forward == FirstOf(args) # 0

\* A forward page is the newest of the orders between the cursors, as many as asked
\* for (20 unless asked, 100 at most), each once (orders-query.service.ts 38-48).  The 100
\* is the service's cap, for any caller; the resolver refuses more before it asks.
ForwardPageIsRelay ==
    (Page.status = "OK" /\ Forward) =>
        /\ Shown \subseteq Admitted
        /\ Cardinality(Shown) = Min({FirstOf(args), Cardinality(Admitted)})
        /\ Len(Page.nodes) = Cardinality(Shown)
        /\ \A o \in Shown, p \in Admitted \ Shown : NewestFirst(o, p)

\* A backward page lies next to its `before` cursor: what it leaves out of the window
\* is newer than all it shows, so that a client going on from startCursor misses nothing.
BackwardPageIsAdjacent ==
    (Page.status = "OK" /\ ~Forward) =>
        /\ Shown \subseteq Admitted
        /\ Admitted # {} => Shown # {}
        /\ \A o \in Admitted \ Shown, p \in Shown : NewestFirst(o, p)

\* pageInfo tells of orders beyond either end of a page exactly when there are some
\* (orders-query.service.ts 49-61, with the arithmetic on pageStart and pageEnd).
PageInfoIsTrue ==
    (Page.status = "OK" /\ Shown # {}) =>
        /\ Page.hasPreviousPage <=> \E o \in Range(Orders) : NewestFirst(o, Head(Page.nodes))
        /\ Page.hasNextPage <=> \E o \in Range(Orders) : NewestFirst(Last(Page.nodes), o)

\* Query.orders refuses a date that is none, dates of which the first is the later, a page
\* size below 1, above 100 or null, two sizes, a cursor that names none of the selected
\* orders, and an `after` that is not newer than `before`; nothing else (orders.resolver.ts
\* 19-33 with the DTOs' decorators; orders-query.service.ts 83-138, 173-219).
RefusalsAreDeserved ==
    Response.status = "BadRequest" <=>
        \/ Malformed \in {filter.dateFrom, filter.dateTo}
        \/ filter.dateFrom \in Nat /\ filter.dateTo \in Nat /\ filter.dateFrom > filter.dateTo
        \/ \E n \in {args.first, args.last} : n = Null \/ (n \in Int /\ n \notin 1..MaxPage)
        \/ args.first # Undefined /\ args.last # Undefined
        \/ \E cursor \in {args.after, args.before} \ NoCursor :
              \A o \in Range(Orders) : ToCursor(o) # cursor
        \/ args.after \notin NoCursor /\ args.after = args.before
        \/ \E o, p \in Range(Orders) :
              ToCursor(o) = args.before /\ ToCursor(p) = args.after /\ NewestFirst(o, p)

\* homework07.md 49: "Connection-style cursor pagination" with `first/after`,
\* `last/before`.  The backward page, too, is as long as asked for or else shows all.
BackwardPageIsFull ==
    (Page.status = "OK" /\ ~Forward) =>
        Len(Page.nodes) = Min({LastOf(args), Cardinality(Admitted)})
=============================================================================
