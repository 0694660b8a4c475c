------------------------------ MODULE OrdersQuery -----------------------------
(***************************************************************************)
(* The read side of orders: Query.orders of orders.resolver.ts, which      *)
(* validates and asks orders-query.service.ts, over the rows that          *)
(* orders.repository.ts selects, as functions of the table.                *)
(*                                                                         *)
(* An order is [id, at, status].  Its created_at has PostgreSQL's          *)
(* microseconds (at); JavaScript, and so a cursor and the date filters,    *)
(* knows milliseconds only.                                                *)
(***************************************************************************)
EXTENDS Integers, Sequences, FiniteSets, SequencesExt

CONSTANTS
    TicksPerMs,  \* how much finer PostgreSQL's clock is (1000)
    DefaultPage, \* DEFAULT_PAGE_SIZE (20)
    MaxPage,     \* MAX_PAGE_SIZE (100)
    Undefined,   \* an argument that was not given
    Null,        \* an argument given as null
    Malformed    \* a text that is no cursor, or no ISO 8601 date

ASSUME ClockAssumption == TicksPerMs \in Nat \ {0}
ASSUME PageAssumption == MaxPage \in Nat /\ DefaultPage \in 1..MaxPage
ASSUME MarkersAssumption ==
    /\ Undefined # Null /\ Undefined # Malformed /\ Null # Malformed
    /\ {Undefined, Null, Malformed} \cap (Int \cup [id : Int, createdAt : Int]) = {}

\* What became of an order's createdAt in a JavaScript Date.
Millis(order) == order.at \div TicksPerMs

BadRequest == [status |-> "BadRequest"]

-----------------------------------------------------------------------------
(* The repository *)

\* ORDER BY created_at DESC, id DESC
NewestFirst(o, p) == o.at > p.at \/ (o.at = p.at /\ o.id > p.id)

Sorted(rows) ==
    [i \in 1..Cardinality(rows) |->
        CHOOSE o \in rows : Cardinality({p \in rows : NewestFirst(p, o)}) = i - 1]

\* For mutants: PostgreSQL may return rows that tie in any order it likes, and in
\* another one next time; this is one that created_at alone allows.
TiesFirst(o, p) == o.at > p.at \/ (o.at = p.at /\ o.id < p.id)
SortedTiesFirst(rows) ==
    [i \in 1..Cardinality(rows) |->
        CHOOSE o \in rows : Cardinality({p \in rows : TiesFirst(p, o)}) = i - 1]

\* A date filter is a Date of whole milliseconds; the column is compared with it at its
\* own precision.
Selected(order, filter) ==
    /\ filter.status \in {Undefined, Null, order.status}
    /\ filter.dateFrom \in {Undefined, Null} \/ order.at >= filter.dateFrom * TicksPerMs
    /\ filter.dateTo \in {Undefined, Null} \/ order.at <= filter.dateTo * TicksPerMs

\* Mutant of FindOrdersByFilter: no second sort key; where the tie falls depends on the
\* shape of the table.
FindOrdersByFilterUntied(table, filter) ==
    LET rows == {o \in table : Selected(o, filter)}
    IN  IF Cardinality(table) % 2 = 0 THEN Sorted(rows) ELSE SortedTiesFirst(rows)

\* Mutant of FindOrdersByFilter: the query has a LIMIT of its own.
FindOrdersByFilterLimited(table, filter) ==
    LET rows == Sorted({o \in table : Selected(o, filter)})
    IN  SubSeq(rows, 1, Min({Len(rows), DefaultPage}))

FindOrdersByFilter(table, filter) ==
    Sorted({o \in table : Selected(o, filter)})

\* parseDateInput
WellFormedDates(filter) == Malformed \notin {filter.dateFrom, filter.dateTo}

ValidDateRange(filter) ==
    \/ filter.dateFrom \in {Undefined, Null}
    \/ filter.dateTo \in {Undefined, Null}
    \/ filter.dateFrom <= filter.dateTo

-----------------------------------------------------------------------------
(* Pagination *)

Given(n) == n \notin {Undefined, Null, 0}

\* normalizePagination's refusals.  null is not undefined, and null < 1.
ValidPagination(p) ==
    /\ ~(Given(p.first) /\ Given(p.last))
    /\ p.first # Undefined => Given(p.first) /\ p.first >= 1
    /\ p.last # Undefined => Given(p.last) /\ p.last >= 1

Capped(n) == IF n > MaxPage THEN MaxPage ELSE n

\* first: 0 stands for "not given" from here on.
FirstOf(p) ==
    IF Given(p.first) THEN Capped(p.first)
    ELSE IF Given(p.last) THEN 0 ELSE DefaultPage

LastOf(p) == IF Given(p.last) THEN Capped(p.last) ELSE 0

ToCursor(order) == [id |-> order.id, createdAt |-> Millis(order)]

NoCursor == {Undefined, Null}

\* The positions (from 1) of the order a cursor names.
CursorPositions(orders, cursor) ==
    {i \in DOMAIN orders : cursor # Malformed /\ ToCursor(orders[i]) = cursor}

\* findCursorIndex finds the cursor, or there is none to find.
CursorExists(orders, cursor) ==
    cursor \in NoCursor \/ CursorPositions(orders, cursor) # {}

\* findIndex: the first position, from 0.
CursorIndex(orders, cursor) == Min(CursorPositions(orders, cursor)) - 1

\* Mutant of StartIndex: the cursor's own order is shown again.
StartIndexAtCursor(orders, after) ==
    IF after \in NoCursor THEN 0 ELSE CursorIndex(orders, after)

StartIndex(orders, after) ==
    IF after \in NoCursor THEN 0 ELSE CursorIndex(orders, after) + 1

EndIndex(orders, before) ==
    IF before \in NoCursor THEN Len(orders) ELSE CursorIndex(orders, before)

\* Array.prototype.slice(from, to) for the arguments the code gives it: a negative
\* `from` counts from the end, and no bound reaches outside the array.
JsSlice(s, from, to) ==
    LET start == IF from < 0 THEN Max({Len(s) + from, 0}) ELSE from
        end   == Min({to, Len(s)})
    IN  IF start >= end THEN <<>> ELSE SubSeq(s, start + 1, end)

\* Mutant of PageNodes: a backward page is taken from the window's start, too.
PageNodesFromStart(window, p) ==
    JsSlice(window, 0, IF FirstOf(p) # 0 THEN FirstOf(p) ELSE LastOf(p))

PageNodes(window, p) ==
    IF FirstOf(p) # 0
      THEN JsSlice(window, 0, FirstOf(p))
      ELSE JsSlice(window, Len(window) - LastOf(p), Len(window))

\* Mutant of PageStart: a backward page is placed where the window starts.
PageStartOfWindow(orders, p, nodes) == StartIndex(orders, p.after)

PageStart(orders, p, nodes) ==
    IF FirstOf(p) # 0 THEN StartIndex(orders, p.after)
                      ELSE EndIndex(orders, p.before) - Len(nodes)

Window(orders, p) ==
    JsSlice(orders, StartIndex(orders, p.after), EndIndex(orders, p.before))

\* What is made of the rows the query returned.
ConnectionOf(orders, p) ==
    LET window == Window(orders, p)
        nodes  == PageNodes(window, p)
        start  == PageStart(orders, p, nodes)
        end    == start + Len(nodes)
    IN  IF \/ ~CursorExists(orders, p.after)
           \/ ~CursorExists(orders, p.before)
           \/ StartIndex(orders, p.after) > EndIndex(orders, p.before)
        THEN BadRequest
        ELSE [status          |-> "OK",
              nodes           |-> nodes,
              totalCount      |-> Len(orders),
              hasPreviousPage |-> start > 0,
              hasNextPage     |-> end < Len(orders),
              startCursor     |-> IF nodes = <<>> THEN Null ELSE ToCursor(Head(nodes)),
              endCursor       |-> IF nodes = <<>> THEN Null ELSE ToCursor(Last(nodes))]

\* listOrdersConnection, with the rows of its one query.
ListOrdersConnection(orders, filter, p) ==
    IF ValidPagination(p) /\ WellFormedDates(filter) /\ ValidDateRange(filter)
      THEN ConnectionOf(orders, p)
      ELSE BadRequest

-----------------------------------------------------------------------------
(* The resolver *)

\* ValidationPipe over the DTOs: @IsOptional lets null pass, @Max refuses what the
\* service would cap.
PipeAccepts(filter, p) ==
    /\ WellFormedDates(filter)
    /\ \A n \in {p.first, p.last} : n \in {Undefined, Null} \/ n \in 1..MaxPage

\* orders, the resolver of Query.orders.
QueryOrders(orders, filter, p) ==
    IF PipeAccepts(filter, p) THEN ListOrdersConnection(orders, filter, p) ELSE BadRequest
=============================================================================
