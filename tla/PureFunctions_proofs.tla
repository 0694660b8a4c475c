-------------------------- MODULE PureFunctions_proofs --------------------------
(***************************************************************************)
(* The pure functions, for any input.  What one page of Query.orders is,   *)
(* for any table, filter, cursors and sizes: the page that Relay's cursor  *)
(* connections prescribe, stated by sets of orders.  And what the basket   *)
(* of a body is: the sums of its lines, stated by sets of lines.           *)
(***************************************************************************)
EXTENDS MCPureFunctions, OrderItems_proofs, OrdersQuery_proofs

USE QuestionsAssumption

-----------------------------------------------------------------------------
(* The inductive invariant: what a table and a question can be *)

Rows == [id : OrderIds, at : Instants, status : {"NEW"}]
Selection == {o \in table : Selected(o, filter)}

TypedTable ==
    /\ table \subseteq Rows /\ IsFiniteSet(table)
    /\ \A o, p \in table : o.id = p.id => o = p

TypedQuestion ==
    /\ filter = NoFilter \/ filter \in Filters
    /\ args = NoArgs \/ args \in [first : Sizes, after : Cursors, last : Sizes, before : Cursors]

IInv == TypedTable /\ TypedQuestion

\* An empty table and no question.
LEMMA InitInvariant == Init => IInv
BY FS_EmptySet DEF Init, NoQuestion, IInv, TypedTable, TypedQuestion

\* Orders are added before the question is asked, each under a new id.
LEMMA NextInvariant == IInv /\ [Next]_<<items, table, filter, args>> => IInv'
<1> SUFFICES ASSUME IInv, [Next]_<<items, table, filter, args>> PROVE IInv'
  OBVIOUS
<1>1. CASE UNCHANGED <<table, filter, args>>
  BY <1>1 DEF IInv, TypedTable, TypedQuestion, Cursors
<1>2. CASE PlaceOrder
  <2>1. PICK id \in OrderIds, at \in Instants :
           /\ \A o \in table : o.id < id
           /\ table' = table \cup {[id |-> id, at |-> at, status |-> "NEW"]}
    BY <1>2 DEF PlaceOrder
  <2>2. \A o \in table : o.id # id
    <3>1. \A o \in table : o.id \in Nat
      BY DEF IInv, TypedTable, Rows
    <3> QED
      BY <2>1, <3>1
  <2>3. TypedTable'
    <3>1. IsFiniteSet(table')
      BY <2>1, FS_AddElement DEF IInv, TypedTable
    <3>2. table' \subseteq Rows
      BY <2>1 DEF IInv, TypedTable, Rows
    <3>3. \A o, p \in table' : o.id = p.id => o = p
      BY <2>1, <2>2 DEF IInv, TypedTable
    <3> QED
      BY <3>1, <3>2, <3>3 DEF TypedTable
  <2>4. TypedQuestion'
    BY <1>2 DEF PlaceOrder, TypedQuestion
  <2> QED
    BY <2>3, <2>4 DEF IInv
<1>3. CASE Ask
  BY <1>3 DEF Ask, IInv, TypedTable, TypedQuestion, Cursors
<1> QED
  BY <1>1, <1>2, <1>3 DEF Next

\* Every reachable question is of that kind.
LEMMA Invariance == Spec => []IInv
<1> QED
  BY InitInvariant, NextInvariant, PTL DEF Spec

\* A date of the filter: a Date of so many milliseconds, or none.
IsDate(d) == d \in Nat \cup {Undefined, Null, Malformed}

\* The rows asked for are a table, the query's result is the list of them, and the
\* question is one that the GraphQL schema admits.
LEMMA QuestionIsTyped ==
    ASSUME IInv
    PROVE  /\ IsTable(table) /\ IsTable(Selection) /\ Selection \subseteq table
           /\ IsListOf(Orders, Selection) /\ Range(Orders) = Selection
           /\ IsSize(args.first) /\ IsSize(args.last)
           /\ IsDate(filter.dateFrom) /\ IsDate(filter.dateTo)
<1>1. IsTable(table)
  <2>1. \A o \in Rows : o.id \in Nat /\ o.at \in Nat
    BY DEF Rows
  <2> QED
    BY <2>1 DEF IInv, TypedTable, IsTable
<1>2. Selection \subseteq table
  BY DEF Selection
<1>3. IsTable(Selection)
  BY <1>1, <1>2, FS_Subset DEF IsTable
<1>4. IsListOf(Orders, Selection)
  BY <1>3, SortedIsList DEF Orders, FindOrdersByFilter, Selection
<1>5. Range(Orders) = Selection
  <2>1. DOMAIN Orders = 1..Len(Orders) /\ \A i \in 1..Len(Orders) : Orders[i] \in Selection
    BY <1>4, LenProperties, ElementOfSeq DEF IsListOf
  <2> QED
    BY <1>4, <2>1 DEF IsListOf, Range
<1>6. IsSize(args.first) /\ IsSize(args.last)
  <2>1. CASE args = NoArgs
    BY <2>1 DEF NoArgs, IsSize
  <2>2. CASE args \in [first : Sizes, after : Cursors, last : Sizes, before : Cursors]
    <3>1. args.first \in Sizes /\ args.last \in Sizes
      BY <2>2
    <3> QED
      BY <3>1 DEF IsSize
  <2> QED
    BY <2>1, <2>2 DEF IInv, TypedQuestion
<1>7. IsDate(filter.dateFrom) /\ IsDate(filter.dateTo)
  BY FiltersAssumption DEF IInv, TypedQuestion, NoFilter, IsDate
<1> QED
  BY <1>1, <1>2, <1>3, <1>4, <1>5, <1>6, <1>7

-----------------------------------------------------------------------------
(* Answers *)

\* Only a well-formed request whose cursors exist and do not cross is answered.
LEMMA AnsweredMeansAccepted ==
    /\ Page.status = "OK" =>
          ValidPagination(args) /\ WellFormedDates(filter) /\ ValidDateRange(filter)
            /\ Page = ConnectionOf(Orders, args)
            /\ CursorExists(Orders, args.after) /\ CursorExists(Orders, args.before)
            /\ ~(StartIndex(Orders, args.after) > EndIndex(Orders, args.before))
    /\ Page.status # "OK" => Page.status = "BadRequest"
<1>1. BadRequest.status = "BadRequest" /\ "BadRequest" # "OK"
  BY DEF BadRequest
<1>2. Page = BadRequest \/ Page = ConnectionOf(Orders, args)
  BY DEF Page, ListOrdersConnection
<1>3. ConnectionOf(Orders, args) = BadRequest \/ ConnectionOf(Orders, args).status = "OK"
  BY DEF ConnectionOf
<1>4. ConnectionOf(Orders, args).status = "OK" =>
            CursorExists(Orders, args.after) /\ CursorExists(Orders, args.before)
            /\ ~(StartIndex(Orders, args.after) > EndIndex(Orders, args.before))
  BY <1>1 DEF ConnectionOf
<1>5. Page.status = "OK" =>
          ValidPagination(args) /\ WellFormedDates(filter) /\ ValidDateRange(filter)
  BY <1>1 DEF Page, ListOrdersConnection
<1> QED
  BY <1>1, <1>2, <1>3, <1>4, <1>5

\* An answered page is a segment of the segment that its cursors admit.
LEMMA PageIsSegment ==
    ASSUME IInv, Page.status = "OK",
           NEW lo, lo = StartIndex(Orders, args.after),
           NEW hi, hi = EndIndex(Orders, args.before),
           NEW a, a = PageFrom(Orders, args), NEW b, b = PageTo(Orders, args)
    PROVE  /\ Len(Orders) \in Nat /\ lo \in 0..Len(Orders) /\ hi \in lo..Len(Orders)
           /\ a \in lo..hi /\ b \in a..hi /\ (a = b => lo = hi)
           /\ Page.nodes \in Seq(Selection) /\ IsSlice(Page.nodes, Orders, a, b)
           /\ Page.hasPreviousPage = (a > 0)
           /\ Page.hasNextPage = (b < Len(Orders))
           /\ Forward => a = lo /\ b = IF lo + FirstOf(args) <= hi THEN lo + FirstOf(args) ELSE hi
           /\ ~Forward => b = hi
           /\ Shown = Segment(Orders, a, b)
           /\ Admitted = Segment(Orders, lo, hi)
<1>1. /\ IsTable(table) /\ IsTable(Selection) /\ Selection \subseteq table
      /\ IsListOf(Orders, Selection) /\ Range(Orders) = Selection
      /\ IsSize(args.first) /\ IsSize(args.last)
  BY QuestionIsTyped
<1>2. /\ ValidPagination(args) /\ Page = ConnectionOf(Orders, args)
      /\ CursorExists(Orders, args.after) /\ CursorExists(Orders, args.before)
      /\ ~(lo > hi)
  BY AnsweredMeansAccepted
<1>3. IsAnswered(Orders, args)
  <2>1. lo \in 0..Len(Orders) /\ hi \in 0..Len(Orders) /\ Len(Orders) \in Nat
    BY <1>1, <1>2, WindowBounds, LenProperties DEF IsListOf
  <2> QED
    BY <1>2, <2>1 DEF IsAnswered
<1>4. /\ Len(Orders) \in Nat /\ lo \in 0..Len(Orders) /\ hi \in lo..Len(Orders)
      /\ a \in lo..hi /\ b \in a..hi /\ (a = b => lo = hi)
      /\ Forward => a = lo /\ b = IF lo + FirstOf(args) <= hi THEN lo + FirstOf(args) ELSE hi
      /\ ~Forward => b = hi
  BY <1>1, <1>2, <1>3, PageBounds DEF Forward
<1>5. /\ Page.nodes \in Seq(Selection) /\ IsSlice(Page.nodes, Orders, a, b)
      /\ Page.hasPreviousPage = (a > 0) /\ Page.hasNextPage = (b < Len(Orders))
  BY <1>1, <1>2, <1>3, PageIsSlice
<1>6. Shown = Segment(Orders, a, b)
  <2>1. a \in Nat /\ b \in Nat /\ a <= b
    BY <1>4
  <2>2. Page.nodes \in Seq(Selection) /\ IsSlice(Page.nodes, Orders, a, b)
    BY <1>5
  <2> QED
    BY <2>1, <2>2, SliceIsSegment DEF Shown
<1>7. Admitted = Segment(Orders, lo, hi)
  <2>1. After(args.after) = Segment(Orders, lo, Len(Orders))
    BY <1>1, <1>2, CursorSplitsList DEF After
  <2>2. Before(args.before) = Segment(Orders, 0, hi)
    BY <1>1, <1>2, CursorSplitsList DEF Before
  <2>3. Segment(Orders, lo, Len(Orders)) \cap Segment(Orders, 0, hi) = Segment(Orders, lo, hi)
    <3>1. \A j : j \in (lo + 1)..hi <=> (j \in (lo + 1)..Len(Orders) /\ j \in (0 + 1)..hi)
      BY <1>4
    <3>2. \A j : j \in (lo + 1)..Len(Orders) \/ j \in (0 + 1)..hi => j \in 1..Len(Orders)
      BY <1>4
    <3> QED
      BY <1>1, <3>1, <3>2, PlacesFollowOrder DEF Segment
  <2> QED
    BY <2>1, <2>2, <2>3 DEF Admitted
<1> QED
  BY <1>4, <1>5, <1>6, <1>7

\* A piece of a list shows its orders once each.
LEMMA SegmentPlaces ==
    ASSUME IInv, NEW a \in 0..Len(Orders), NEW b \in a..Len(Orders), NEW o \in Segment(Orders, a, b)
    PROVE  \E j \in 1..Len(Orders) : o = Orders[j] /\ a < j /\ j <= b
<1>1. Len(Orders) \in Nat
  BY QuestionIsTyped, LenProperties DEF IsListOf
<1>2. PICK j \in (a + 1)..b : o = Orders[j]
  BY DEF Segment
<1>3. j \in 1..Len(Orders) /\ a < j /\ j <= b
  BY <1>1
<1> QED
  BY <1>2, <1>3

\* A forward page is the newest of what its cursors admit, as many as asked for.
LEMMA ForwardHolds == IInv => ForwardPageIsRelay
<1> SUFFICES ASSUME IInv, Page.status = "OK", Forward
             PROVE  /\ Shown \subseteq Admitted
                    /\ Cardinality(Shown) = Min({FirstOf(args), Cardinality(Admitted)})
                    /\ Len(Page.nodes) = Cardinality(Shown)
                    /\ \A o \in Shown, p \in Admitted \ Shown : NewestFirst(o, p)
  BY DEF ForwardPageIsRelay
<1> DEFINE lo == StartIndex(Orders, args.after)
           hi == EndIndex(Orders, args.before)
           a == PageFrom(Orders, args)
           b == PageTo(Orders, args)
<1>1. /\ Len(Orders) \in Nat /\ lo \in 0..Len(Orders) /\ hi \in lo..Len(Orders)
      /\ a \in lo..hi /\ b \in a..hi
      /\ IsSlice(Page.nodes, Orders, a, b)
      /\ a = lo /\ b = IF lo + FirstOf(args) <= hi THEN lo + FirstOf(args) ELSE hi
      /\ Shown = Segment(Orders, a, b)
      /\ Admitted = Segment(Orders, lo, hi)
  BY PageIsSegment
<1>2. IsTable(Selection) /\ IsListOf(Orders, Selection)
  BY QuestionIsTyped
<1>3. FirstOf(args) \in Nat
  BY OneSize, QuestionIsTyped, AnsweredMeansAccepted, PageAssumption
<1> HIDE DEF lo, hi, a, b
<1>4. a \in 0..Len(Orders) /\ b \in a..Len(Orders)
  BY <1>1
<1>5. Cardinality(Shown) = b - a
  BY <1>1, <1>2, <1>4, SegmentSize
<1>6. Cardinality(Admitted) = hi - lo
  BY <1>1, <1>2, SegmentSize
<1>7. Min({FirstOf(args), hi - lo}) = b - a
  <2>1. hi - lo \in Int /\ FirstOf(args) \in Int
    BY <1>1, <1>3
  <2>2. Min({FirstOf(args), hi - lo}) = IF FirstOf(args) <= hi - lo THEN FirstOf(args) ELSE hi - lo
    BY <2>1, MinMaxOfTwo
  <2> QED
    BY <1>1, <1>3, <2>2
<1>8. Shown \subseteq Admitted
  <2>1. \A j \in (a + 1)..b : j \in (lo + 1)..hi
    BY <1>1
  <2> QED
    BY <1>1, <2>1 DEF Segment
<1>9. ASSUME NEW o \in Shown, NEW p \in Admitted \ Shown
      PROVE  NewestFirst(o, p)
  <2>1. PICK i \in 1..Len(Orders) : o = Orders[i] /\ i <= b
    BY <1>1, <1>4, SegmentPlaces
  <2>2. PICK j \in 1..Len(Orders) : p = Orders[j] /\ lo < j
    BY <1>1, SegmentPlaces
  <2>3. j \notin (a + 1)..b
    BY <1>1, <2>2 DEF Segment
  <2>4. i < j
    BY <1>1, <2>1, <2>2, <2>3
  <2> QED
    BY <1>2, <2>1, <2>2, <2>4, PlacesFollowOrder
<1> QED
  BY <1>1, <1>5, <1>6, <1>7, <1>8, <1>9 DEF IsSlice

\* A backward page lies at the end of what its cursors admit.
LEMMA BackwardHolds == IInv => BackwardPageIsAdjacent
<1> SUFFICES ASSUME IInv, Page.status = "OK", ~Forward
             PROVE  /\ Shown \subseteq Admitted
                    /\ Admitted # {} => Shown # {}
                    /\ \A o \in Admitted \ Shown, p \in Shown : NewestFirst(o, p)
  BY DEF BackwardPageIsAdjacent
<1> DEFINE lo == StartIndex(Orders, args.after)
           hi == EndIndex(Orders, args.before)
           a == PageFrom(Orders, args)
           b == PageTo(Orders, args)
<1>1. /\ Len(Orders) \in Nat /\ lo \in 0..Len(Orders) /\ hi \in lo..Len(Orders)
      /\ a \in lo..hi /\ b \in a..hi /\ (a = b => lo = hi) /\ b = hi
      /\ Shown = Segment(Orders, a, b)
      /\ Admitted = Segment(Orders, lo, hi)
  BY PageIsSegment
<1>2. IsTable(Selection) /\ IsListOf(Orders, Selection)
  BY QuestionIsTyped
<1> HIDE DEF lo, hi, a, b
<1>3. a \in 0..Len(Orders) /\ b \in a..Len(Orders)
  BY <1>1
<1>4. Shown \subseteq Admitted
  <2>1. \A j \in (a + 1)..b : j \in (lo + 1)..hi
    BY <1>1
  <2> QED
    BY <1>1, <2>1 DEF Segment
<1>5. ASSUME Admitted # {} PROVE Shown # {}
  <2>1. PICK o : o \in Segment(Orders, lo, hi)
    BY <1>1, <1>5
  <2>2. PICK j \in 1..Len(Orders) : lo < j /\ j <= hi
    BY <1>1, <2>1, SegmentPlaces
  <2>3. b \in (a + 1)..b
    BY <1>1, <2>2
  <2>4. Orders[b] \in Segment(Orders, a, b)
    BY <2>3 DEF Segment
  <2> QED
    BY <1>1, <2>4
<1>6. ASSUME NEW o \in Admitted \ Shown, NEW p \in Shown
      PROVE  NewestFirst(o, p)
  <2>1. PICK j \in 1..Len(Orders) : p = Orders[j] /\ a < j
    BY <1>1, <1>3, SegmentPlaces
  <2>2. PICK i \in 1..Len(Orders) : o = Orders[i] /\ i <= hi
    BY <1>1, SegmentPlaces
  <2>3. i \notin (a + 1)..b
    BY <1>1, <2>2 DEF Segment
  <2>4. i < j
    BY <1>1, <2>1, <2>2, <2>3
  <2> QED
    BY <1>2, <2>1, <2>2, <2>4, PlacesFollowOrder
<1> QED
  BY <1>4, <1>5, <1>6

\* There is more on a side of the page exactly if its end is not the list's.
LEMMA PageInfoHolds == IInv => PageInfoIsTrue
<1> SUFFICES ASSUME IInv, Page.status = "OK", Shown # {}
             PROVE  /\ Page.hasPreviousPage <=>
                          \E o \in Range(Orders) : NewestFirst(o, Head(Page.nodes))
                    /\ Page.hasNextPage <=>
                          \E o \in Range(Orders) : NewestFirst(Last(Page.nodes), o)
  BY DEF PageInfoIsTrue
<1> DEFINE lo == StartIndex(Orders, args.after)
           hi == EndIndex(Orders, args.before)
           a == PageFrom(Orders, args)
           b == PageTo(Orders, args)
<1>1. /\ Len(Orders) \in Nat /\ lo \in 0..Len(Orders) /\ hi \in lo..Len(Orders)
      /\ a \in lo..hi /\ b \in a..hi
      /\ Page.nodes \in Seq(Selection) /\ IsSlice(Page.nodes, Orders, a, b)
      /\ Page.hasPreviousPage = (a > 0)
      /\ Page.hasNextPage = (b < Len(Orders))
      /\ Shown = Segment(Orders, a, b)
  BY PageIsSegment
<1>2. IsTable(Selection) /\ IsListOf(Orders, Selection) /\ Range(Orders) = Selection
  BY QuestionIsTyped
<1> HIDE DEF lo, hi, a, b
<1>3. a \in 0..Len(Orders) /\ b \in a..Len(Orders)
  BY <1>1
<1>4. a < b
  <2>1. PICK o : o \in Segment(Orders, a, b)
    BY <1>1
  <2>2. PICK j \in 1..Len(Orders) : a < j /\ j <= b
    BY <1>3, <2>1, SegmentPlaces
  <2> QED
    BY <1>1, <2>2
<1>5. Head(Page.nodes) = Orders[a + 1] /\ Last(Page.nodes) = Orders[b]
  <2> DEFINE n == b - a
  <2>1. n \in Nat /\ 1 \in 1..n /\ n \in 1..n /\ a + n = b
    BY <1>1, <1>4
  <2> HIDE DEF n
  <2>2. Len(Page.nodes) = n /\ Page.nodes[1] = Orders[a + 1] /\ Page.nodes[n] = Orders[a + n]
    BY <1>1, <2>1 DEF IsSlice, n
  <2>3. Head(Page.nodes) = Page.nodes[1]
    BY <1>1, <2>1, <2>2
  <2> QED
    BY <2>1, <2>2, <2>3 DEF Last
<1>6. a + 1 \in 1..Len(Orders) /\ b \in 1..Len(Orders)
  BY <1>1, <1>4
<1>7. \A o \in Selection : \E j \in 1..Len(Orders) : o = Orders[j]
  BY <1>2 DEF IsListOf
<1>8. a > 0 <=> \E o \in Selection : NewestFirst(o, Orders[a + 1])
  <2>1. ASSUME a > 0 PROVE \E o \in Selection : NewestFirst(o, Orders[a + 1])
    <3>1. a \in 1..Len(Orders) /\ a < a + 1
      BY <1>1, <2>1
    <3> QED
      BY <1>2, <1>6, <3>1, PlacesFollowOrder
  <2>2. ASSUME NEW o \in Selection, NewestFirst(o, Orders[a + 1]) PROVE a > 0
    <3>1. PICK j \in 1..Len(Orders) : o = Orders[j]
      BY <1>7
    <3>2. j < a + 1
      BY <1>2, <1>6, <2>2, <3>1, PlacesFollowOrder
    <3> QED
      BY <1>1, <3>2
  <2> QED
    BY <2>1, <2>2
<1>9. b < Len(Orders) <=> \E o \in Selection : NewestFirst(Orders[b], o)
  <2>1. ASSUME b < Len(Orders) PROVE \E o \in Selection : NewestFirst(Orders[b], o)
    <3>1. b + 1 \in 1..Len(Orders) /\ b < b + 1
      BY <1>1, <2>1
    <3> QED
      BY <1>2, <1>6, <3>1, PlacesFollowOrder
  <2>2. ASSUME NEW o \in Selection, NewestFirst(Orders[b], o) PROVE b < Len(Orders)
    <3>1. PICK j \in 1..Len(Orders) : o = Orders[j]
      BY <1>7
    <3>2. b < j
      BY <1>2, <1>6, <2>2, <3>1, PlacesFollowOrder
    <3> QED
      BY <1>1, <3>2
  <2> QED
    BY <2>1, <2>2
<1>10. Page.hasPreviousPage <=> a > 0
  BY <1>1
<1>11. Page.hasNextPage <=> b < Len(Orders)
  BY <1>1
<1> QED
  BY <1>2, <1>5, <1>8, <1>9, <1>10, <1>11

\* A size the service does not take.
BadSize(n) == n = Null \/ (n \in Int /\ n < 1)

\* normalizePagination refuses a size that is null or below 1, and two sizes; nothing else.
LEMMA SizesRefused ==
    ASSUME NEW p, IsSize(p.first), IsSize(p.last)
    PROVE  ~ValidPagination(p) <=>
              \/ BadSize(p.first) \/ BadSize(p.last)
              \/ p.first # Undefined /\ p.last # Undefined
<1>1. ASSUME NEW n, IsSize(n)
      PROVE  /\ (n # Undefined => Given(n) /\ n >= 1) <=> ~BadSize(n)
             /\ Given(n) => n # Undefined
             /\ n # Undefined /\ ~BadSize(n) => Given(n)
  <2>1. CASE n = Undefined
    BY <2>1, MarkersAssumption DEF Given, BadSize
  <2>2. CASE n = Null
    BY <2>2, MarkersAssumption DEF Given, BadSize
  <2>3. CASE n \in Int
    BY <2>3, MarkersAssumption DEF Given, BadSize
  <2> QED
    BY <1>1, <2>1, <2>2, <2>3 DEF IsSize
<1> DEFINE First == p.first
           Final == p.last
<1>2. /\ (First # Undefined => Given(First) /\ First >= 1) <=> ~BadSize(First)
      /\ Given(First) => First # Undefined
      /\ First # Undefined /\ ~BadSize(First) => Given(First)
  BY <1>1
<1>3. /\ (Final # Undefined => Given(Final) /\ Final >= 1) <=> ~BadSize(Final)
      /\ Given(Final) => Final # Undefined
      /\ Final # Undefined /\ ~BadSize(Final) => Given(Final)
  BY <1>1
<1>4. ValidPagination(p) <=>
         /\ ~(Given(First) /\ Given(Final))
         /\ First # Undefined => Given(First) /\ First >= 1
         /\ Final # Undefined => Given(Final) /\ Final >= 1
  BY DEF ValidPagination
<1> QED
  BY <1>2, <1>3, <1>4

\* resolveWindowIndices finds no window.
Unanswerable(s, after, before) ==
    \/ ~CursorExists(s, after) \/ ~CursorExists(s, before)
    \/ StartIndex(s, after) > EndIndex(s, before)

CursorsAtFault(rows, after, before) ==
    \/ \E cursor \in {after, before} \ NoCursor : \A o \in rows : ToCursor(o) # cursor
    \/ after \notin NoCursor /\ after = before
    \/ \E o, p \in rows : ToCursor(o) = before /\ ToCursor(p) = after /\ NewestFirst(o, p)

\* resolveWindowIndices refuses cursors that name no order of the list, and two cursors of
\* which the first is not newer; nothing else.
LEMMA CursorsRefused ==
    ASSUME NEW rows, IsTable(rows), NEW s, IsListOf(s, rows), NEW after, NEW before
    PROVE  Unanswerable(s, after, before) <=> CursorsAtFault(rows, after, before)
<1>1. /\ Len(s) \in Nat /\ DOMAIN s = 1..Len(s)
      /\ \A o \in rows : o.id \in Nat /\ o.at \in Nat
      /\ \A o \in rows : \E j \in 1..Len(s) : o = s[j]
      /\ \A i \in 1..Len(s) : s[i] \in rows
  BY LenProperties, ElementOfSeq DEF IsListOf, IsTable
<1>2. \A o \in rows : ToCursor(o) \notin NoCursor /\ ToCursor(o) # Malformed
  BY <1>1, CursorsAreNoMarkers
<1>3. ASSUME NEW cursor
      PROVE  ~CursorExists(s, cursor) <=>
                cursor \notin NoCursor /\ \A o \in rows : ToCursor(o) # cursor
  BY <1>1, <1>2 DEF CursorExists, CursorPositions
<1>4. ~CursorExists(s, after) \/ ~CursorExists(s, before) <=>
         \E cursor \in {after, before} \ NoCursor : \A o \in rows : ToCursor(o) # cursor
  BY <1>3
<1>5. ASSUME CursorExists(s, after), CursorExists(s, before)
      PROVE  StartIndex(s, after) > EndIndex(s, before) <=>
                \/ after \notin NoCursor /\ after = before
                \/ \E o, p \in rows :
                      ToCursor(o) = before /\ ToCursor(p) = after /\ NewestFirst(o, p)
  <2>0. StartIndex(s, after) \in 0..Len(s) /\ EndIndex(s, before) \in 0..Len(s)
    BY <1>5, WindowBounds
  <2>1. CASE after \in NoCursor
    <3>1. StartIndex(s, after) = 0
      BY <2>1 DEF StartIndex
    <3>2. ~(StartIndex(s, after) > EndIndex(s, before))
      BY <1>1, <2>0, <3>1
    <3> QED
      BY <1>2, <2>1, <3>2
  <2>2. CASE before \in NoCursor
    <3>1. EndIndex(s, before) = Len(s)
      BY <2>2 DEF EndIndex
    <3>2. ~(StartIndex(s, after) > EndIndex(s, before))
      BY <1>1, <2>0, <3>1
    <3> QED
      BY <1>2, <2>2, <3>2
  <2>3. CASE after \notin NoCursor /\ before \notin NoCursor
    <3>1. PICK i \in 1..Len(s) : after = ToCursor(s[i]) /\ CursorIndex(s, after) = i - 1
      BY <1>5, <2>3, CursorFound
    <3>2. PICK j \in 1..Len(s) : before = ToCursor(s[j]) /\ CursorIndex(s, before) = j - 1
      BY <1>5, <2>3, CursorFound
    <3>3. StartIndex(s, after) > EndIndex(s, before) <=> j <= i
      BY <1>1, <2>3, <3>1, <3>2 DEF StartIndex, EndIndex
    <3>4. \A o \in rows : /\ ToCursor(o) = after => o = s[i]
                          /\ ToCursor(o) = before => o = s[j]
      <4>1. \A o \in rows : /\ ToCursor(o) = after => o.id = s[i].id
                            /\ ToCursor(o) = before => o.id = s[j].id
        BY <3>1, <3>2 DEF ToCursor
      <4> QED
        BY <1>1, <4>1 DEF IsTable
    <3>5. after = before <=> i = j
      BY <1>1, <3>1, <3>2, <3>4, PlacesFollowOrder
    <3>6. (\E o, p \in rows :
              ToCursor(o) = before /\ ToCursor(p) = after /\ NewestFirst(o, p)) <=> j < i
      BY <1>1, <3>1, <3>2, <3>4, PlacesFollowOrder
    <3>7. j <= i <=> i = j \/ j < i
      OBVIOUS
    <3> QED
      BY <2>3, <3>3, <3>5, <3>6, <3>7
  <2> QED
    BY <2>1, <2>2, <2>3
<1> QED
  BY <1>4, <1>5 DEF Unanswerable, CursorsAtFault

\* A size the resolver's ValidationPipe does not let through, or the service does not take.
RefusedSize(n) == n = Null \/ (n \in Int /\ n \notin 1..MaxPage)

\* The pipe and the service together refuse a malformed date, and a size out of bounds.
LEMMA PipeRefuses ==
    ASSUME NEW f, NEW p, IsSize(p.first), IsSize(p.last)
    PROVE  ~PipeAccepts(f, p) \/ ~ValidPagination(p) <=>
              \/ ~WellFormedDates(f)
              \/ RefusedSize(p.first) \/ RefusedSize(p.last)
              \/ p.first # Undefined /\ p.last # Undefined
<1>1. ASSUME NEW n, IsSize(n)
      PROVE  ~(n \in {Undefined, Null} \/ n \in 1..MaxPage) \/ BadSize(n) <=> RefusedSize(n)
  <2>1. CASE n \in {Undefined, Null}
    BY <2>1, MarkersAssumption DEF BadSize, RefusedSize
  <2>2. CASE n \in Int
    BY <2>2, PageAssumption, MarkersAssumption DEF BadSize, RefusedSize
  <2> QED
    BY <1>1, <2>1, <2>2 DEF IsSize
<1>2. PipeAccepts(f, p) <=>
         /\ WellFormedDates(f)
         /\ p.first \in {Undefined, Null} \/ p.first \in 1..MaxPage
         /\ p.last \in {Undefined, Null} \/ p.last \in 1..MaxPage
  BY DEF PipeAccepts
<1> QED
  BY <1>1, <1>2, SizesRefused

\* A request is refused for what is wrong with it, and for nothing else.
LEMMA RefusalsHold == IInv => RefusalsAreDeserved
<1> SUFFICES ASSUME IInv PROVE RefusalsAreDeserved
  OBVIOUS
<1>1. /\ IsTable(Selection) /\ IsListOf(Orders, Selection) /\ Range(Orders) = Selection
      /\ IsSize(args.first) /\ IsSize(args.last)
      /\ IsDate(filter.dateFrom) /\ IsDate(filter.dateTo)
  BY QuestionIsTyped
<1>2. Response.status = "BadRequest" <=>
         ~PipeAccepts(filter, args)
           \/ ~ValidPagination(args) \/ ~WellFormedDates(filter) \/ ~ValidDateRange(filter)
           \/ Unanswerable(Orders, args.after, args.before)
  <2>1. Unanswerable(Orders, args.after, args.before) =>
            ConnectionOf(Orders, args) = BadRequest
    BY DEF ConnectionOf, Unanswerable
  <2>2. ~Unanswerable(Orders, args.after, args.before) =>
            ConnectionOf(Orders, args).status = "OK"
    BY DEF ConnectionOf, Unanswerable
  <2>3. BadRequest.status = "BadRequest" /\ "BadRequest" # "OK"
    BY DEF BadRequest
  <2> QED
    BY <2>1, <2>2, <2>3 DEF Response, QueryOrders, ListOrdersConnection
<1>3. ~WellFormedDates(filter) <=> Malformed \in {filter.dateFrom, filter.dateTo}
  BY DEF WellFormedDates
<1>4. ASSUME WellFormedDates(filter)
      PROVE  ~ValidDateRange(filter) <=>
                filter.dateFrom \in Nat /\ filter.dateTo \in Nat /\ filter.dateFrom > filter.dateTo
  BY <1>1, <1>4, MarkersAssumption DEF ValidDateRange, WellFormedDates, IsDate
<1>5. ~PipeAccepts(filter, args) \/ ~ValidPagination(args) <=>
         \/ ~WellFormedDates(filter)
         \/ \E n \in {args.first, args.last} : n = Null \/ (n \in Int /\ n \notin 1..MaxPage)
         \/ args.first # Undefined /\ args.last # Undefined
  BY <1>1, PipeRefuses DEF RefusedSize
<1>6. Unanswerable(Orders, args.after, args.before)
         <=> CursorsAtFault(Selection, args.after, args.before)
  BY <1>1, CursorsRefused
<1>7. filter.dateFrom \in Nat /\ filter.dateTo \in Nat => WellFormedDates(filter)
  BY MarkersAssumption DEF WellFormedDates
<1> QED
  BY <1>1, <1>2, <1>3, <1>4, <1>5, <1>6, <1>7 DEF RefusalsAreDeserved, CursorsAtFault

-----------------------------------------------------------------------------

\* A forward page is the newest of the orders between the cursors, as many as asked for,
\* each once, whatever the table, the filter and the sizes (orders-query.service.ts 38-48).
THEOREM ForwardPagesAreRelay == Spec => []ForwardPageIsRelay
<1> QED
  BY ForwardHolds, Invariance, PTL

\* A backward page leaves out only what is newer than all it shows, and is empty only when
\* there is nothing to show.
THEOREM BackwardPagesAreAdjacent == Spec => []BackwardPageIsAdjacent
<1> QED
  BY BackwardHolds, Invariance, PTL

\* pageInfo tells of more orders on either side exactly when there are some.
THEOREM PageInfoTellsTheTruth == Spec => []PageInfoIsTrue
<1> QED
  BY PageInfoHolds, Invariance, PTL

\* Query.orders refuses a malformed date, dates of which the first is the later, a size that
\* is null or not between 1 and 100, two sizes, an unknown cursor and cursors that meet or
\* cross, and nothing else, whatever the table, the filter and the pagination.
THEOREM RefusalsHaveReasons == Spec => []RefusalsAreDeserved
<1> QED
  BY RefusalsHold, Invariance, PTL

-----------------------------------------------------------------------------
(* Bodies and baskets *)

Lines == [productId : ProductIds, quantity : Quantities]

\* The quantity and the price of each line of the body.
QuantityOfLine == [i \in DOMAIN items |-> items[i].quantity]
PriceOfLine == [i \in DOMAIN items |-> Price[items[i].productId] * items[i].quantity]

BodyInv ==
    /\ items \in Seq(Lines)
    /\ Countable(NormalizeItems(items))
    /\ BasketIsSumOfLines
    /\ TotalIsThatOfLines

\* The body without lines.
LEMMA InitBody == Init => BodyInv
<1> SUFFICES ASSUME Init PROVE BodyInv
  OBVIOUS
<1>1. items = <<>> /\ items \in Seq(Lines) /\ DOMAIN items = {}
  BY DEF Init, NoBody
<1>2. NormalizeItems(items) = EmptyBasket /\ DOMAIN EmptyBasket = {}
  BY <1>1, NormalizeNothing DEF EmptyBasket
<1>3. Countable(EmptyBasket)
  BY <1>2, FS_EmptySet DEF Countable
<1>4. SumFunction(PriceOfLine) = 0
  BY <1>1, SumOfNone DEF SumFunction, PriceOfLine
<1> QED
  BY <1>1, <1>2, <1>3, <1>4, TotalOfNothing
  DEF BodyInv, BasketIsSumOfLines, TotalIsThatOfLines, PriceOfLine

\* One more line at the end of the body.
LEMMA OneMoreLine ==
    ASSUME BodyInv, AddToBody
    PROVE  \E x \in Lines :
              /\ items' \in Seq(Lines)
              /\ NormalizeItems(items') = AddItem(NormalizeItems(items), x)
              /\ Len(items) \in Nat
              /\ DOMAIN items = 1..Len(items)
              /\ DOMAIN items' = (1..Len(items)) \cup {Len(items) + 1}
              /\ items'[Len(items) + 1] = x
              /\ \A i \in 1..Len(items) : items'[i] = items[i] /\ items[i] \in Lines
<1>1. PICK id \in ProductIds, q \in Quantities :
         items' = Append(items, [productId |-> id, quantity |-> q])
  BY DEF AddToBody
<1> DEFINE x == [productId |-> id, quantity |-> q]
<1>2. x \in Lines /\ items' = Append(items, x) /\ items \in Seq(Lines)
  BY <1>1 DEF Lines, BodyInv
<1> HIDE DEF x
<1>3. NormalizeItems(items') = AddItem(NormalizeItems(items), x)
  BY <1>2, NormalizeOneMore
<1> QED
  BY <1>2, <1>3

\* It is one more term of both sums.
LEMMA AddKeepsBody ==
    ASSUME BodyInv, AddToBody
    PROVE  BodyInv'
<1> DEFINE basket == NormalizeItems(items)
           k == Len(items)
           n == k + 1
<1>1. PICK x \in Lines :
         /\ items' \in Seq(Lines)
         /\ NormalizeItems(items') = AddItem(basket, x)
         /\ k \in Nat
         /\ DOMAIN items = 1..k /\ DOMAIN items' = (1..k) \cup {n}
         /\ items'[n] = x
         /\ \A i \in 1..k : items'[i] = items[i] /\ items[i] \in Lines
  BY OneMoreLine
<1>2. /\ x.productId \in ProductIds /\ x.quantity \in Int
      /\ \A i \in 1..k : items[i].productId \in ProductIds /\ items[i].quantity \in Int
  BY <1>1, BodiesAssumption DEF Lines
<1>3. /\ Countable(basket)
      /\ DOMAIN basket = {items[i].productId : i \in 1..k}
      /\ \A id \in DOMAIN basket : basket[id] = SumFunctionOnSet(QuantityOfLine, LinesOf(id))
      /\ TotalAmountCents(basket, Price) = SumFunction(PriceOfLine)
  BY <1>1 DEF BodyInv, BasketIsSumOfLines, TotalIsThatOfLines, QuantityOfLine, PriceOfLine
<1>4. IsFiniteSet(1..k) /\ n \notin 1..k
  BY <1>1, FS_Interval
<1> HIDE DEF k, n, basket
<1>5. IntegersOn(Price, DOMAIN basket \cup {x.productId})
  BY <1>2, <1>3, BodiesAssumption DEF IntegersOn
<1>6. /\ Countable(AddItem(basket, x))
      /\ TotalAmountCents(AddItem(basket, x), Price)
           = TotalAmountCents(basket, Price) + Price[x.productId] * x.quantity
  BY <1>2, <1>3, <1>5, TotalOfOneMore
<1>7. BasketIsSumOfLines'
  <2> DEFINE e == QuantityOfLine
             f == QuantityOfLine'
             Of(id) == LinesOf(id)
  <2>1. /\ Agree(e, f, 1..k)
        /\ IntegersOn(f, (1..k) \cup {n})
        /\ f[n] = x.quantity
    BY <1>1, <1>2 DEF QuantityOfLine, Agree, IntegersOn
  <2>2. \A id : Of(id) \subseteq 1..k /\ n \notin Of(id)
    BY <1>1, <1>4 DEF LinesOf
  <2>3. \A id : LinesOf(id)' = IF id = x.productId THEN Of(id) \cup {n} ELSE Of(id)
    BY <1>1, <1>4 DEF LinesOf
  <2>4. \A id : id \notin DOMAIN basket => Of(id) = {}
    BY <1>1, <1>3 DEF LinesOf
  <2>5. DOMAIN AddItem(basket, x) = {items'[i].productId : i \in DOMAIN items'}
    BY <1>1, <1>3 DEF AddItem
  <2> HIDE DEF e, f, Of
  <2>6. \A id : QuantityOf(basket, id) = SumFunctionOnSet(e, Of(id))
    BY <1>3, <2>4, SumOfNone DEF QuantityOf, e, Of
  <2>7. ASSUME NEW id \in DOMAIN AddItem(basket, x)
        PROVE  AddItem(basket, x)[id] = SumFunctionOnSet(f, LinesOf(id)')
    <3>1. IsFiniteSet(Of(id)) /\ Agree(e, f, Of(id)) /\ IntegersOn(f, Of(id))
      BY <1>4, <2>1, <2>2, FS_Subset DEF Agree, IntegersOn
    <3>2. SumFunctionOnSet(e, Of(id)) = SumFunctionOnSet(f, Of(id))
      BY <3>1, SumAgrees
    <3>3. SumFunctionOnSet(f, Of(id)) \in Int
      BY <3>1, SumType
    <3>4. CASE id = x.productId
      <4>1. IntegersOn(f, Of(id) \cup {n})
        BY <2>1, <2>2 DEF IntegersOn
      <4>2. SumFunctionOnSet(f, Of(id) \cup {n}) = SumFunctionOnSet(e, Of(id)) + f[n]
        BY <2>2, <3>1, <4>1, SumGrows
      <4>3. AddItem(basket, x)[id] = QuantityOf(basket, id) + x.quantity
        BY <2>7, <3>4 DEF AddItem
      <4> QED
        BY <2>1, <2>3, <2>6, <3>4, <4>2, <4>3
    <3>5. CASE id # x.productId
      <4>1. AddItem(basket, x)[id] = QuantityOf(basket, id) + 0
        BY <2>7, <3>5 DEF AddItem
      <4> QED
        BY <2>3, <2>6, <3>2, <3>3, <3>5, <4>1
    <3> QED
      BY <3>4, <3>5
  <2> QED
    BY <1>1, <2>5, <2>7 DEF BasketIsSumOfLines, QuantityOfLine, f
<1>8. TotalIsThatOfLines'
  <2> DEFINE e == PriceOfLine
             f == PriceOfLine'
  <2>1. /\ Agree(e, f, 1..k)
        /\ IntegersOn(f, (1..k) \cup {n})
        /\ f[n] = Price[x.productId] * x.quantity
        /\ DOMAIN e = 1..k /\ DOMAIN f = (1..k) \cup {n}
    <3>1. \A id \in ProductIds, q \in Int : Price[id] * q \in Int
      BY BodiesAssumption
    <3> QED
      BY <1>1, <1>2, <3>1 DEF PriceOfLine, Agree, IntegersOn
  <2> HIDE DEF e, f
  <2>2. SumFunctionOnSet(f, (1..k) \cup {n}) = SumFunctionOnSet(e, 1..k) + f[n]
    BY <1>4, <2>1, SumGrows
  <2>3. SumFunction(f) = SumFunction(e) + Price[x.productId] * x.quantity
    BY <2>1, <2>2 DEF SumFunction
  <2> QED
    BY <1>1, <1>3, <1>6, <2>3 DEF TotalIsThatOfLines, PriceOfLine, e, f
<1> QED
  BY <1>1, <1>6, <1>7, <1>8 DEF BodyInv

\* Every reachable body keeps the invariant.
LEMMA BodyInvariance == Spec => []BodyInv
<1>1. BodyInv /\ [Next]_<<items, table, filter, args>> => BodyInv'
  <2> SUFFICES ASSUME BodyInv, [Next]_<<items, table, filter, args>> PROVE BodyInv'
    OBVIOUS
  <2>1. CASE UNCHANGED items
    BY <2>1 DEF BodyInv, BasketIsSumOfLines, TotalIsThatOfLines, LinesOf
  <2> QED
    BY <2>1, AddKeepsBody DEF Next
<1> QED
  BY <1>1, InitBody, PTL DEF Spec

\* A basket has each product of a body once, with the sum of its lines, however long the
\* body and however often it names the product (orders.service.ts 77-98).
THEOREM BasketsAreSums == Spec => []BasketIsSumOfLines
<1>1. BodyInv => BasketIsSumOfLines
  BY DEF BodyInv
<1> QED
  BY <1>1, BodyInvariance, PTL

\* Normalizing a body does not change what it costs (orders.service.ts 162-169).
THEOREM TotalsAreThoseOfLines == Spec => []TotalIsThatOfLines
<1>1. BodyInv => TotalIsThatOfLines
  BY DEF BodyInv
<1> QED
  BY <1>1, BodyInvariance, PTL
=============================================================================
