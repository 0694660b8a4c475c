--------------------------- MODULE OrdersQuery_proofs --------------------------
(***************************************************************************)
(* What the functions of OrdersQuery return, for tables, lists and pages   *)
(* of any length.                                                          *)
(***************************************************************************)
EXTENDS OrdersQuery, FiniteSetTheorems, FunctionTheorems, SequenceTheorems, TLAPS

\* Orders as the table has them: finitely many, each under an id of its own.
IsTable(rows) ==
    /\ IsFiniteSet(rows)
    /\ \A o \in rows : o.id \in Nat /\ o.at \in Nat
    /\ \A o, p \in rows : o.id = p.id => o = p

\* s has every one of the rows once, newest first.
IsListOf(s, rows) ==
    /\ s \in Seq(rows)
    /\ \A o \in rows : \E i \in 1..Len(s) : s[i] = o
    /\ \A i, j \in 1..Len(s) : i < j => NewestFirst(s[i], s[j])

-----------------------------------------------------------------------------
(* ORDER BY created_at DESC, id DESC *)

\* Newest first is a strict and total order on the rows of a table.
LEMMA NewestFirstOrders ==
    ASSUME NEW rows, IsTable(rows)
    PROVE  /\ \A o \in rows : ~NewestFirst(o, o)
           /\ \A o, p \in rows : o # p => NewestFirst(o, p) \/ NewestFirst(p, o)
           /\ \A o, p, q \in rows : NewestFirst(o, p) /\ NewestFirst(p, q) => NewestFirst(o, q)
BY DEF IsTable, NewestFirst

\* The rows that come before a row are fewer, the earlier it comes.
LEMMA RanksIncrease ==
    ASSUME NEW rows, IsTable(rows), NEW o \in rows, NEW p \in rows, NewestFirst(o, p)
    PROVE  Cardinality({q \in rows : NewestFirst(q, o)})
             < Cardinality({q \in rows : NewestFirst(q, p)})
<1> DEFINE Before(x) == {q \in rows : NewestFirst(q, x)}
<1>1. IsFiniteSet(Before(o)) /\ IsFiniteSet(Before(p))
  BY FS_Subset DEF IsTable
<1>2. Before(o) \subseteq Before(p)
  BY NewestFirstOrders
<1>3. o \in Before(p) /\ o \notin Before(o)
  BY NewestFirstOrders
<1>4. Cardinality(Before(o)) \in Nat /\ Cardinality(Before(p)) \in Nat
  BY <1>1, FS_CardinalityType
<1> HIDE DEF Before
<1>5. /\ Cardinality(Before(o)) <= Cardinality(Before(p))
      /\ Cardinality(Before(p)) = Cardinality(Before(o)) => Before(p) = Before(o)
  BY <1>1, <1>2, FS_Subset
<1> QED
  BY <1>3, <1>4, <1>5 DEF Before

\* As many rows come before a row as there are others at most.
LEMMA RanksAreIndices ==
    ASSUME NEW rows, IsTable(rows), NEW o \in rows
    PROVE  /\ Cardinality(rows) \in Nat
           /\ Cardinality({q \in rows : NewestFirst(q, o)}) + 1 \in 1..Cardinality(rows)
<1> DEFINE Before == {q \in rows : NewestFirst(q, o)}
<1>1. IsFiniteSet(rows) /\ IsFiniteSet(Before)
  BY FS_Subset DEF IsTable
<1>2. Cardinality(rows) \in Nat /\ Cardinality(Before) \in Nat
  BY <1>1, FS_CardinalityType
<1>3. Before \subseteq rows /\ Before # rows
  BY NewestFirstOrders
<1> HIDE DEF Before
<1>4. /\ Cardinality(Before) <= Cardinality(rows)
      /\ Cardinality(rows) = Cardinality(Before) => rows = Before
  BY <1>1, <1>3, FS_Subset
<1> QED
  BY <1>2, <1>3, <1>4 DEF Before

\* ORDER BY returns every row once, newest first (orders.repository.ts 44-45).
THEOREM SortedIsList ==
    ASSUME NEW rows, IsTable(rows)
    PROVE  IsListOf(Sorted(rows), rows) /\ Len(Sorted(rows)) = Cardinality(rows)
<1> DEFINE n == Cardinality(rows)
           Rank(o) == Cardinality({q \in rows : NewestFirst(q, o)})
           Place == [o \in rows |-> Rank(o) + 1]
<1>1. n \in Nat /\ IsFiniteSet(rows)
  BY FS_CardinalityType DEF IsTable
<1>2. Place \in Injection(rows, 1..n)
  <2>1. Place \in [rows -> 1..n]
    BY RanksAreIndices
  <2>2. ASSUME NEW o \in rows, NEW p \in rows, Place[o] = Place[p] PROVE o = p
    <3>1. Rank(o) \in Int /\ Rank(p) \in Int /\ Rank(o) = Rank(p)
      <4>1. Rank(o) + 1 \in 1..n /\ Rank(p) + 1 \in 1..n
        BY RanksAreIndices
      <4>2. Rank(o) \in Nat /\ Rank(p) \in Nat
        BY FS_Subset, FS_CardinalityType DEF IsTable
      <4> QED
        BY <2>2, <4>2
    <3>2. ~(Rank(o) < Rank(p)) /\ ~(Rank(p) < Rank(o))
      BY <3>1
    <3> QED
      BY <3>2, RanksIncrease, NewestFirstOrders
  <2> QED
    BY <2>1, <2>2, Fun_IsInj
<1>3. Place \in Surjection(rows, 1..n)
  <2>1. IsFiniteSet(1..n) /\ Cardinality(1..n) = n
    BY <1>1, FS_Interval
  <2> HIDE DEF Place
  <2> QED
    BY <1>2, <2>1, FS_Injection
<1>4. \A i \in 1..n : Sorted(rows)[i] \in rows /\ Rank(Sorted(rows)[i]) = i - 1
  <2> TAKE i \in 1..n
  <2>1. PICK o \in rows : Place[o] = i
    <3> HIDE DEF Place
    <3> QED
      BY <1>3 DEF Surjection
  <2>2. Rank(o) = i - 1
    <3>1. Rank(o) \in Nat
      BY FS_Subset, FS_CardinalityType DEF IsTable
    <3> QED
      BY <2>1, <3>1
  <2>3. Sorted(rows)[i] = CHOOSE p \in rows : Rank(p) = i - 1
    BY DEF Sorted
  <2> QED
    BY <2>2, <2>3
<1>5. Sorted(rows) \in [1..n -> rows]
  BY <1>4 DEF Sorted
<1>6. Sorted(rows) \in Seq(rows) /\ Len(Sorted(rows)) = n
  BY <1>1, <1>5, SeqDef, LenProperties
<1>7. ASSUME NEW o \in rows PROVE \E i \in 1..n : Sorted(rows)[i] = o
  <2>1. Place[o] \in 1..n /\ Rank(o) \in Nat
    BY RanksAreIndices, FS_Subset, FS_CardinalityType DEF IsTable
  <2>2. Rank(Sorted(rows)[Place[o]]) = Rank(o)
    BY <1>4, <2>1
  <2>3. Sorted(rows)[Place[o]] \in rows
    BY <1>4, <2>1
  <2> DEFINE p == Sorted(rows)[Place[o]]
  <2> HIDE DEF p
  <2>4. p \in rows /\ Rank(p) = Rank(o)
    BY <2>2, <2>3 DEF p
  <2>5. ~(Rank(o) < Rank(p)) /\ ~(Rank(p) < Rank(o))
    BY <2>1, <2>4
  <2>6. p = o
    BY <2>4, <2>5, RanksIncrease, NewestFirstOrders
  <2> QED
    BY <2>1, <2>6 DEF p
<1>8. ASSUME NEW i \in 1..n, NEW j \in 1..n, i < j
      PROVE  NewestFirst(Sorted(rows)[i], Sorted(rows)[j])
  <2> DEFINE o == Sorted(rows)[i]
             p == Sorted(rows)[j]
  <2>1. o \in rows /\ p \in rows /\ Rank(o) = i - 1 /\ Rank(p) = j - 1
    BY <1>4
  <2> HIDE DEF o, p
  <2>2. o # p /\ ~(Rank(p) < Rank(o))
    <3> HIDE DEF Rank
    <3> QED
      BY <1>1, <1>8, <2>1
  <2>3. NewestFirst(o, p)
    BY <2>1, <2>2, RanksIncrease, NewestFirstOrders
  <2> QED
    BY <2>3 DEF o, p
<1> QED
  BY <1>6, <1>7, <1>8 DEF IsListOf

-----------------------------------------------------------------------------
(* Cursors *)

\* The cursor of an order is no marker: not an argument left out, and not garbage.
LEMMA CursorsAreNoMarkers ==
    ASSUME NEW o, o.id \in Nat, o.at \in Nat
    PROVE  /\ Millis(o) \in Nat
           /\ ToCursor(o) \in [id : Nat, createdAt : Nat]
           /\ ToCursor(o) \notin NoCursor
           /\ ToCursor(o) # Malformed
<1>1. Millis(o) \in Nat
  BY ClockAssumption DEF Millis
<1>2. ToCursor(o) \in [id : Nat, createdAt : Nat]
  BY <1>1 DEF ToCursor
<1>3. ToCursor(o) \in [id : Int, createdAt : Int]
  BY <1>2
<1> QED
  BY <1>1, <1>2, <1>3, MarkersAssumption DEF NoCursor

\* The smallest element of a set of one.
LEMMA MinOfOne ==
    ASSUME NEW i \in Int
    PROVE  Min({i}) = i
BY DEF Min

\* The smaller and the larger of two numbers.
LEMMA MinMaxOfTwo ==
    ASSUME NEW i \in Int, NEW j \in Int
    PROVE  /\ Min({i, j}) = IF i <= j THEN i ELSE j
           /\ Max({i, j}) = IF i >= j THEN i ELSE j
BY DEF Min, Max

\* A cursor made of a listed order finds that order and no other one, although it knows
\* the order's time to the millisecond only (findCursorIndex compares id and createdAt).
THEOREM CursorFindsItsOrder ==
    ASSUME NEW rows, IsTable(rows), NEW s, IsListOf(s, rows), NEW i \in 1..Len(s)
    PROVE  /\ CursorPositions(s, ToCursor(s[i])) = {i}
           /\ CursorIndex(s, ToCursor(s[i])) = i - 1
<1>1. s \in Seq(rows) /\ DOMAIN s = 1..Len(s) /\ Len(s) \in Nat
  BY LenProperties DEF IsListOf
<1>2. \A j \in 1..Len(s) : s[j] \in rows /\ s[j].id \in Nat /\ s[j].at \in Nat
  BY <1>1, ElementOfSeq DEF IsTable
<1>3. ASSUME NEW j \in 1..Len(s), ToCursor(s[j]) = ToCursor(s[i]) PROVE j = i
  <2>1. s[j].id = s[i].id
    BY <1>3 DEF ToCursor
  <2>2. s[j] = s[i]
    BY <1>2, <2>1 DEF IsTable
  <2>3. ~(j < i) /\ ~(i < j)
    BY <1>2, <2>2, NewestFirstOrders DEF IsListOf
  <2> QED
    BY <1>1, <2>3
<1>4. CursorPositions(s, ToCursor(s[i])) = {i}
  BY <1>1, <1>2, <1>3, CursorsAreNoMarkers DEF CursorPositions
<1> QED
  BY <1>4, MinOfOne DEF CursorIndex

\* A cursor that exists is absent, or the cursor of the one listed order it finds.
LEMMA CursorFound ==
    ASSUME NEW rows, IsTable(rows), NEW s, IsListOf(s, rows),
           NEW cursor, cursor \notin NoCursor, CursorExists(s, cursor)
    PROVE  \E i \in 1..Len(s) : cursor = ToCursor(s[i]) /\ CursorIndex(s, cursor) = i - 1
<1>1. DOMAIN s = 1..Len(s)
  BY LenProperties DEF IsListOf
<1>2. PICK i \in DOMAIN s : ToCursor(s[i]) = cursor
  BY DEF CursorExists, CursorPositions
<1> QED
  BY <1>1, <1>2, CursorFindsItsOrder

\* The window's bounds lie in the list.
LEMMA WindowBounds ==
    ASSUME NEW rows, IsTable(rows), NEW s, IsListOf(s, rows), NEW cursor, CursorExists(s, cursor)
    PROVE  StartIndex(s, cursor) \in 0..Len(s) /\ EndIndex(s, cursor) \in 0..Len(s)
<1>1. Len(s) \in Nat
  BY LenProperties DEF IsListOf
<1>2. CASE cursor \in NoCursor
  BY <1>1, <1>2 DEF StartIndex, EndIndex
<1>3. CASE cursor \notin NoCursor
  <2>1. PICK i \in 1..Len(s) : CursorIndex(s, cursor) = i - 1
    BY <1>3, CursorFound
  <2> QED
    BY <1>1, <1>3, <2>1 DEF StartIndex, EndIndex
<1> QED
  BY <1>2, <1>3

-----------------------------------------------------------------------------
(* Pages *)

\* What the GraphQL schema lets first and last be: an Int, null, or nothing.
IsSize(n) == n \in Int \cup {Undefined, Null}

\* A page is asked for by first or by last, never by both or by neither: normalizePagination
\* leaves exactly one of the two sizes, and that is between 1 and MAX_PAGE_SIZE.
LEMMA OneSize ==
    ASSUME NEW p, IsSize(p.first), IsSize(p.last), ValidPagination(p)
    PROVE  \/ FirstOf(p) \in 1..MaxPage /\ LastOf(p) = 0 /\ ~Given(p.last)
           \/ FirstOf(p) = 0 /\ LastOf(p) \in 1..MaxPage /\ Given(p.last)
<1>1. CASE Given(p.first)
  <2>1. p.first \in Int /\ p.first >= 1 /\ ~Given(p.last)
    BY <1>1, MarkersAssumption DEF IsSize, ValidPagination, Given
  <2> QED
    BY <1>1, <2>1, PageAssumption DEF FirstOf, LastOf, Capped
<1>2. CASE ~Given(p.first) /\ Given(p.last)
  <2>1. p.last \in Int /\ p.last >= 1
    BY <1>2, MarkersAssumption DEF IsSize, ValidPagination, Given
  <2> QED
    BY <1>2, <2>1, PageAssumption DEF FirstOf, LastOf, Capped
<1>3. CASE ~Given(p.first) /\ ~Given(p.last)
  BY <1>3, PageAssumption DEF FirstOf, LastOf
<1> QED
  BY <1>1, <1>2, <1>3

\* Where slice(from, to) begins and ends.
SliceFrom(s, from) ==
    IF from >= 0 THEN from ELSE IF Len(s) + from >= 0 THEN Len(s) + from ELSE 0
SliceTo(s, to) == IF to <= Len(s) THEN to ELSE Len(s)

\* slice(from, to) is the elements from SliceFrom on, up to SliceTo.
LEMMA SliceIs ==
    ASSUME NEW R, NEW s \in Seq(R), NEW from \in Int, NEW to \in Nat,
           NEW a, a = SliceFrom(s, from), NEW b, b = SliceTo(s, to), a <= b
    PROVE  /\ a \in 0..Len(s) /\ b \in a..Len(s)
           /\ JsSlice(s, from, to) \in Seq(R)
           /\ Len(JsSlice(s, from, to)) = b - a
           /\ \A k \in 1..(b - a) : JsSlice(s, from, to)[k] = s[a + k]
<1>1. Len(s) \in Nat
  BY LenProperties
<1>2. a \in 0..Len(s) /\ b \in a..Len(s)
  BY <1>1 DEF SliceFrom, SliceTo
<1>3. JsSlice(s, from, to) = IF a >= b THEN <<>> ELSE SubSeq(s, a + 1, b)
  <2>1. Max({Len(s) + from, 0}) = IF Len(s) + from >= 0 THEN Len(s) + from ELSE 0
    <3>1. Len(s) + from \in Int /\ 0 \in Int
      BY <1>1
    <3> QED
      BY <3>1, MinMaxOfTwo, Zenon
  <2>2. Min({to, Len(s)}) = b
    BY <1>1, MinMaxOfTwo DEF SliceTo
  <2> QED
    BY <1>1, <2>1, <2>2 DEF JsSlice, SliceFrom
<1>4. CASE a = b
  BY <1>1, <1>2, <1>3, <1>4
<1>5. CASE a < b
  <2>1. \A i \in (a + 1)..b : s[i] \in R
    BY <1>1, <1>2, ElementOfSeq
  <2>2. /\ SubSeq(s, a + 1, b) \in Seq(R)
        /\ Len(SubSeq(s, a + 1, b)) = b - a
        /\ \A k \in 1..(b - a) : SubSeq(s, a + 1, b)[k] = s[a + k]
    BY <1>1, <1>2, <1>5, <2>1, SubSeqProperties
  <2> QED
    BY <1>2, <1>3, <1>5, <2>2
<1> QED
  BY <1>1, <1>2, <1>4, <1>5

\* Where a page begins and ends, as positions between the orders of the list: 0 is before
\* the first.  A backward page takes the last orders of the window, except that slice counts
\* from the window's end, not from its start, when there are fewer than were asked for.
PageFrom(s, p) ==
    LET lo == StartIndex(s, p.after)
        hi == EndIndex(s, p.before)
    IN  IF FirstOf(p) # 0 THEN lo
        ELSE lo + SliceFrom(Window(s, p), (hi - lo) - LastOf(p))
PageTo(s, p) ==
    IF FirstOf(p) # 0 /\ StartIndex(s, p.after) + FirstOf(p) <= EndIndex(s, p.before)
      THEN StartIndex(s, p.after) + FirstOf(p)
      ELSE EndIndex(s, p.before)

\* The orders from the a-th place of the list to the b-th.
IsSlice(nodes, s, a, b) ==
    Len(nodes) = b - a /\ \A k \in 1..(b - a) : nodes[k] = s[a + k]

\* A request that is answered: the cursors exist and do not cross.
IsAnswered(s, p) ==
    /\ CursorExists(s, p.after) /\ CursorExists(s, p.before)
    /\ StartIndex(s, p.after) <= EndIndex(s, p.before)

\* The window is the part of the list between the cursors.
LEMMA WindowIsSlice ==
    ASSUME NEW rows, IsTable(rows), NEW s, IsListOf(s, rows), NEW p, IsAnswered(s, p),
           NEW lo, lo = StartIndex(s, p.after), NEW hi, hi = EndIndex(s, p.before)
    PROVE  /\ Len(s) \in Nat /\ lo \in 0..Len(s) /\ hi \in lo..Len(s)
           /\ Window(s, p) \in Seq(rows)
           /\ Len(Window(s, p)) = hi - lo
           /\ \A k \in 1..(hi - lo) : Window(s, p)[k] = s[lo + k]
<1>1. s \in Seq(rows) /\ Len(s) \in Nat
  BY LenProperties DEF IsListOf
<1>2. lo \in 0..Len(s) /\ hi \in 0..Len(s) /\ lo <= hi
  BY WindowBounds DEF IsAnswered
<1>3. lo = SliceFrom(s, lo) /\ hi = SliceTo(s, hi)
  BY <1>1, <1>2 DEF SliceFrom, SliceTo
<1>4. Window(s, p) = JsSlice(s, lo, hi)
  BY DEF Window
<1>5. lo \in Int /\ hi \in Nat
  BY <1>1, <1>2
<1>6. /\ JsSlice(s, lo, hi) \in Seq(rows)
      /\ Len(JsSlice(s, lo, hi)) = hi - lo
      /\ \A k \in 1..(hi - lo) : JsSlice(s, lo, hi)[k] = s[lo + k]
  BY <1>1, <1>2, <1>3, <1>5, SliceIs
<1> QED
  BY <1>1, <1>2, <1>4, <1>6

\* The page lies in the window, and is empty only if the window is.
LEMMA PageBounds ==
    ASSUME NEW rows, IsTable(rows), NEW s, IsListOf(s, rows), NEW p, IsAnswered(s, p),
           IsSize(p.first), IsSize(p.last), ValidPagination(p),
           NEW lo, lo = StartIndex(s, p.after), NEW hi, hi = EndIndex(s, p.before)
    PROVE  /\ Len(s) \in Nat /\ lo \in 0..Len(s) /\ hi \in lo..Len(s)
           /\ PageFrom(s, p) \in lo..hi
           /\ PageTo(s, p) \in PageFrom(s, p)..hi
           /\ PageFrom(s, p) = PageTo(s, p) => lo = hi
           /\ FirstOf(p) # 0 => /\ PageFrom(s, p) = lo
                                /\ PageTo(s, p) = IF lo + FirstOf(p) <= hi THEN lo + FirstOf(p)
                                                                         ELSE hi
           /\ FirstOf(p) = 0 => PageTo(s, p) = hi
<1>1. Len(s) \in Nat /\ lo \in 0..Len(s) /\ hi \in lo..Len(s) /\ Len(Window(s, p)) = hi - lo
  BY WindowIsSlice
<1>2. CASE FirstOf(p) \in 1..MaxPage
  BY <1>1, <1>2, PageAssumption DEF PageFrom, PageTo
<1>3. CASE FirstOf(p) = 0 /\ LastOf(p) \in 1..MaxPage
  <2> DEFINE n == LastOf(p)
             m == hi - lo
             k == SliceFrom(Window(s, p), m - n)
  <2>1. m \in Nat /\ n \in Nat /\ n >= 1
    BY <1>1, <1>3, PageAssumption
  <2>2. k = IF m - n >= 0 THEN m - n ELSE IF m + (m - n) >= 0 THEN m + (m - n) ELSE 0
    BY <1>1 DEF SliceFrom
  <2>3. PageFrom(s, p) = lo + k /\ PageTo(s, p) = hi
    BY <1>3 DEF PageFrom, PageTo
  <2> HIDE DEF n, k
  <2>4. k \in 0..m /\ (k = m => m = 0)
    BY <2>1, <2>2
  <2> QED
    BY <1>1, <1>3, <2>3, <2>4
<1> QED
  BY <1>2, <1>3, OneSize

\* The nodes are the orders of the list from PageFrom to PageTo, and pageStart is where
\* they begin (orders-query.service.ts 45-50).
LEMMA NodesAreSlice ==
    ASSUME NEW rows, IsTable(rows), NEW s, IsListOf(s, rows), NEW p, IsAnswered(s, p),
           IsSize(p.first), IsSize(p.last), ValidPagination(p),
           NEW nodes, nodes = PageNodes(Window(s, p), p),
           NEW a, a = PageFrom(s, p), NEW b, b = PageTo(s, p)
    PROVE  /\ nodes \in Seq(rows) /\ Len(nodes) = b - a
           /\ \A k \in 1..(b - a) : nodes[k] = s[a + k]
           /\ PageStart(s, p, nodes) = a
<1> DEFINE lo == StartIndex(s, p.after)
           hi == EndIndex(s, p.before)
           w == Window(s, p)
<1>1. /\ Len(s) \in Nat /\ lo \in 0..Len(s) /\ hi \in lo..Len(s)
      /\ w \in Seq(rows) /\ Len(w) = hi - lo
      /\ \A k \in 1..(hi - lo) : w[k] = s[lo + k]
  BY WindowIsSlice
<1>2. a \in lo..hi /\ b \in a..hi
  BY PageBounds
<1>3. CASE FirstOf(p) \in 1..MaxPage
  <2>1. FirstOf(p) \in Nat /\ FirstOf(p) # 0 /\ 0 \in Int
    BY <1>3, PageAssumption
  <2>2. a = lo /\ b = IF lo + FirstOf(p) <= hi THEN lo + FirstOf(p) ELSE hi
    BY <2>1 DEF PageFrom, PageTo
  <2>3. 0 = SliceFrom(w, 0) /\ b - a = SliceTo(w, FirstOf(p)) /\ 0 <= b - a
    BY <1>1, <1>2, <2>1, <2>2 DEF SliceFrom, SliceTo
  <2>4. nodes = JsSlice(w, 0, FirstOf(p)) /\ PageStart(s, p, nodes) = a
    BY <2>1, <2>2 DEF PageNodes, PageStart
  <2> HIDE DEF w, lo, hi
  <2>5. /\ nodes \in Seq(rows) /\ Len(nodes) = (b - a) - 0
        /\ \A k \in 1..((b - a) - 0) : nodes[k] = w[0 + k]
    BY <1>1, <2>1, <2>3, <2>4, SliceIs
  <2> QED
    BY <1>1, <1>2, <2>2, <2>4, <2>5
<1>4. CASE FirstOf(p) = 0 /\ LastOf(p) \in 1..MaxPage
  <2> DEFINE m == hi - lo
             from == m - LastOf(p)
             c == SliceFrom(w, from)
  <2>1. from \in Int /\ m \in Nat
    BY <1>1, <1>4, PageAssumption
  <2>2. a = lo + c /\ b = hi
    BY <1>4 DEF PageFrom, PageTo
  <2>3. nodes = JsSlice(w, from, m)
    BY <1>1, <1>4 DEF PageNodes
  <2>4. PageStart(s, p, nodes) = hi - Len(nodes)
    BY <1>4 DEF PageStart
  <2>5. c \in Int
    BY <1>1, <2>1 DEF SliceFrom
  <2>6. c <= m /\ m = SliceTo(w, m)
    BY <1>1, <1>2, <2>2, <2>5 DEF SliceTo
  <2> HIDE DEF w, from, c
  <2>7. /\ nodes \in Seq(rows) /\ Len(nodes) = m - c
        /\ \A k \in 1..(m - c) : nodes[k] = w[c + k]
    <3> HIDE DEF m
    <3>1. c = SliceFrom(w, from)
      BY DEF c
    <3>2. w \in Seq(rows)
      BY <1>1
    <3> QED
      BY <2>1, <2>3, <2>6, <3>1, <3>2, SliceIs
  <2> HIDE DEF lo, hi
  <2>8. m - c = b - a /\ hi - (m - c) = a /\ a = lo + c
    BY <1>1, <2>2, <2>5
  <2>9. ASSUME NEW k \in 1..(m - c) PROVE nodes[k] = s[a + k]
    <3>1. c + k \in 1..(hi - lo) /\ lo + (c + k) = a + k
      BY <1>1, <1>2, <2>2, <2>5
    <3> QED
      BY <1>1, <2>7, <3>1
  <2> QED
    BY <2>4, <2>7, <2>8, <2>9
<1> QED
  BY <1>3, <1>4, OneSize

\* An answered page is a piece of the list, pageInfo says whether there is more on either
\* side of it, and its cursors are those of its ends (orders-query.service.ts 38-62).
THEOREM PageIsSlice ==
    ASSUME NEW rows, IsTable(rows), NEW s, IsListOf(s, rows), NEW p, IsAnswered(s, p),
           IsSize(p.first), IsSize(p.last), ValidPagination(p),
           NEW page, page = ConnectionOf(s, p),
           NEW a, a = PageFrom(s, p), NEW b, b = PageTo(s, p)
    PROVE  /\ page.status = "OK"
           /\ page.nodes \in Seq(rows) /\ IsSlice(page.nodes, s, a, b)
           /\ page.hasPreviousPage = (a > 0)
           /\ page.hasNextPage = (b < Len(s))
           /\ a < b => /\ page.startCursor = ToCursor(s[a + 1])
                       /\ page.endCursor = ToCursor(s[b])
<1> DEFINE nodes == PageNodes(Window(s, p), p)
<1>1. /\ nodes \in Seq(rows) /\ Len(nodes) = b - a
      /\ \A k \in 1..(b - a) : nodes[k] = s[a + k]
      /\ PageStart(s, p, nodes) = a
  BY NodesAreSlice
<1>2. Len(s) \in Nat /\ a \in 0..Len(s) /\ b \in a..Len(s)
  BY PageBounds
<1>3. page = [status          |-> "OK",
              nodes           |-> nodes,
              totalCount      |-> Len(s),
              hasPreviousPage |-> a > 0,
              hasNextPage     |-> a + Len(nodes) < Len(s),
              startCursor     |-> IF nodes = <<>> THEN Null ELSE ToCursor(Head(nodes)),
              endCursor       |-> IF nodes = <<>> THEN Null ELSE ToCursor(Last(nodes))]
  <2> HIDE DEF nodes
  <2>1. ~(StartIndex(s, p.after) > EndIndex(s, p.before))
    BY PageBounds
  <2> QED
    BY <1>1, <2>1 DEF ConnectionOf, IsAnswered, nodes
<1> HIDE DEF nodes
<1>4. ASSUME a < b PROVE nodes # <<>> /\ Head(nodes) = s[a + 1] /\ Last(nodes) = s[b]
  <2>1. Len(nodes) \in 1..(b - a) /\ 1 \in 1..(b - a) /\ a + (b - a) = b
    BY <1>1, <1>2, <1>4
  <2>2. nodes[1] = s[a + 1] /\ nodes[b - a] = s[b]
    BY <1>1, <1>2, <2>1
  <2> QED
    BY <1>1, <2>1, <2>2 DEF Last
<1>5. a + Len(nodes) = b
  BY <1>1, <1>2
<1>6. page.status = "OK" /\ page.nodes = nodes
  BY <1>3
<1>7. page.hasPreviousPage = (a > 0) /\ page.hasNextPage = (b < Len(s))
  <2> DEFINE previous == a > 0
             next == a + Len(nodes) < Len(s)
  <2>1. next = (b < Len(s))
    BY <1>5
  <2> HIDE DEF previous, next
  <2>2. page.hasPreviousPage = previous /\ page.hasNextPage = next
    BY <1>3 DEF previous, next
  <2> QED
    BY <2>1, <2>2 DEF previous
<1>8. ASSUME a < b PROVE page.startCursor = ToCursor(s[a + 1]) /\ page.endCursor = ToCursor(s[b])
  BY <1>3, <1>4, <1>8
<1> QED
  BY <1>1, <1>6, <1>7, <1>8 DEF IsSlice

-----------------------------------------------------------------------------
(* Pieces of the list as sets *)

\* The orders after the a-th place, up to the b-th.
Segment(s, a, b) == {s[j] : j \in (a + 1)..b}

\* Places in the list go with the order of the rows, and no row has two.
LEMMA PlacesFollowOrder ==
    ASSUME NEW rows, IsTable(rows), NEW s, IsListOf(s, rows),
           NEW i \in 1..Len(s), NEW j \in 1..Len(s)
    PROVE  /\ s[i] \in rows
           /\ s[i] = s[j] => i = j
           /\ NewestFirst(s[i], s[j]) <=> i < j
<1>1. Len(s) \in Nat /\ s[i] \in rows /\ s[j] \in rows
  BY LenProperties, ElementOfSeq DEF IsListOf
<1>2. (i < j => NewestFirst(s[i], s[j])) /\ (j < i => NewestFirst(s[j], s[i]))
  BY DEF IsListOf
<1>3. i < j \/ j < i \/ i = j
  BY <1>1
<1> QED
  BY <1>1, <1>2, <1>3, NewestFirstOrders

\* A piece has as many orders as places.
LEMMA SegmentSize ==
    ASSUME NEW rows, IsTable(rows), NEW s, IsListOf(s, rows),
           NEW a \in 0..Len(s), NEW b \in a..Len(s)
    PROVE  IsFiniteSet(Segment(s, a, b)) /\ Cardinality(Segment(s, a, b)) = b - a
<1> DEFINE places == (a + 1)..b
           f == [j \in places |-> s[j]]
<1>1. Len(s) \in Nat /\ a \in Nat /\ b \in Nat /\ a <= b
  BY LenProperties DEF IsListOf
<1>2. IsFiniteSet(places) /\ Cardinality(places) = b - a
  <2>1. a + 1 \in Int /\ b \in Int /\ (IF a + 1 > b THEN 0 ELSE b - (a + 1) + 1) = b - a
    BY <1>1
  <2> QED
    BY <2>1, FS_Interval
<1>3. \A j \in places : j \in 1..Len(s)
  BY <1>1
<1>4. f \in [places -> Segment(s, a, b)]
  BY DEF Segment
<1>5. \A i, j \in places : f[i] = f[j] => i = j
  BY <1>3, PlacesFollowOrder
<1>6. \A o \in Segment(s, a, b) : \E j \in places : f[j] = o
  BY DEF Segment
<1> HIDE DEF places, f
<1>7. f \in Bijection(places, Segment(s, a, b))
  BY <1>4, <1>5, <1>6, Fun_IsBij
<1> QED
  BY <1>2, <1>7, FS_Bijection DEF ExistsBijection

\* The orders of a page, as a set.
LEMMA SliceIsSegment ==
    ASSUME NEW R, NEW s, NEW a \in Nat, NEW b \in Nat, a <= b,
           NEW nodes \in Seq(R), IsSlice(nodes, s, a, b)
    PROVE  Range(nodes) = Segment(s, a, b)
<1> DEFINE n == b - a
<1>1. n \in Nat /\ a + n = b
  OBVIOUS
<1> HIDE DEF n
<1>2. DOMAIN nodes = 1..n /\ \A k \in 1..n : nodes[k] = s[a + k]
  BY LenProperties DEF IsSlice, n
<1>3. ASSUME NEW k \in 1..n PROVE nodes[k] \in Segment(s, a, b)
  <2>1. a + k \in (a + 1)..b
    BY <1>1
  <2> QED
    BY <1>2, <2>1 DEF Segment
<1>4. ASSUME NEW j \in (a + 1)..b PROVE \E k \in 1..n : nodes[k] = s[j]
  <2>1. j - a \in 1..n /\ a + (j - a) = j
    BY <1>1
  <2> QED
    BY <1>2, <2>1
<1> QED
  BY <1>2, <1>3, <1>4 DEF Range, Segment

\* What an existing cursor admits after and before itself.
LEMMA CursorSplitsList ==
    ASSUME NEW rows, IsTable(rows), NEW s, IsListOf(s, rows),
           NEW cursor, CursorExists(s, cursor),
           NEW all, rows \subseteq all, IsTable(all)
    PROVE  /\ {o \in rows : cursor \notin NoCursor =>
                 \E c \in all : ToCursor(c) = cursor /\ NewestFirst(c, o)}
                = Segment(s, StartIndex(s, cursor), Len(s))
           /\ {o \in rows : cursor \notin NoCursor =>
                 \E c \in all : ToCursor(c) = cursor /\ NewestFirst(o, c)}
                = Segment(s, 0, EndIndex(s, cursor))
<1>1. Len(s) \in Nat /\ \A o \in rows : \E j \in 1..Len(s) : o = s[j]
  BY LenProperties DEF IsListOf
<1>2. CASE cursor \in NoCursor
  <2>1. StartIndex(s, cursor) = 0 /\ EndIndex(s, cursor) = Len(s) /\ 0 + 1 = 1
    BY <1>2 DEF StartIndex, EndIndex
  <2>2. Segment(s, 0, Len(s)) = rows
    BY <1>1, <2>1, PlacesFollowOrder DEF Segment
  <2> QED
    BY <1>2, <2>1, <2>2
<1>3. CASE cursor \notin NoCursor
  <2>1. PICK i \in 1..Len(s) : cursor = ToCursor(s[i]) /\ CursorIndex(s, cursor) = i - 1
    BY <1>3, CursorFound
  <2>2. StartIndex(s, cursor) = i /\ EndIndex(s, cursor) = i - 1
    BY <1>1, <1>3, <2>1 DEF StartIndex, EndIndex
  <2>3. s[i] \in all /\ \A c \in all : ToCursor(c) = cursor => c = s[i]
    <3>1. s[i] \in all
      BY PlacesFollowOrder
    <3>2. ASSUME NEW c \in all, ToCursor(c) = cursor PROVE c.id = s[i].id
      BY <2>1, <3>2 DEF ToCursor
    <3> QED
      BY <3>1, <3>2 DEF IsTable
  <2>4. \A j \in 1..Len(s) : /\ NewestFirst(s[i], s[j]) <=> j \in (i + 1)..Len(s)
                             /\ NewestFirst(s[j], s[i]) <=> j \in (0 + 1)..(i - 1)
    <3> TAKE j \in 1..Len(s)
    <3>1. (i < j <=> j \in (i + 1)..Len(s)) /\ (j < i <=> j \in (0 + 1)..(i - 1))
      BY <1>1
    <3> QED
      BY <3>1, PlacesFollowOrder
  <2>5. \A j \in (i + 1)..Len(s) : j \in 1..Len(s)
    BY <1>1
  <2>6. \A j \in (0 + 1)..(i - 1) : j \in 1..Len(s)
    BY <1>1
  <2>7. ASSUME NEW o \in rows
        PROVE  /\ (\E c \in all : ToCursor(c) = cursor /\ NewestFirst(c, o))
                    <=> o \in Segment(s, i, Len(s))
               /\ (\E c \in all : ToCursor(c) = cursor /\ NewestFirst(o, c))
                    <=> o \in Segment(s, 0, i - 1)
    <3>1. PICK j \in 1..Len(s) : o = s[j]
      BY <1>1
    <3>2. o \in Segment(s, i, Len(s)) <=> j \in (i + 1)..Len(s)
      BY <2>5, <3>1, PlacesFollowOrder DEF Segment
    <3>3. o \in Segment(s, 0, i - 1) <=> j \in (0 + 1)..(i - 1)
      BY <2>6, <3>1, PlacesFollowOrder DEF Segment
    <3> QED
      BY <2>1, <2>3, <2>4, <3>1, <3>2, <3>3
  <2>8. Segment(s, i, Len(s)) \subseteq rows /\ Segment(s, 0, i - 1) \subseteq rows
    BY <2>5, <2>6, PlacesFollowOrder DEF Segment
  <2> QED
    BY <1>3, <2>2, <2>7, <2>8
<1> QED
  BY <1>2, <1>3
=============================================================================
