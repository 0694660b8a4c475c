------------------------ MODULE OrdersTraversal_proofs ------------------------
(***************************************************************************)
(* For any orders, filters and page sizes: a client that pages through a   *)
(* growing table is shown every order there was once, in order.            *)
(***************************************************************************)
EXTENDS OrdersTraversal, OrdersQuery_proofs

USE OrdersAssumption, PlansAssumption

\* Of a connection, the list of all selected orders.
Selection == {o \in table : Selected(o, plan.filter)}
List == FindOrdersByFilter(table, plan.filter)

\* A page of what comes after the a-th order of the list, as far as the order its endCursor
\* names, or to the end.
IsForwardPage(page, rows, s, a) ==
    \E b \in a..Len(s) :
        /\ page.nodes \in Seq(rows) /\ IsSlice(page.nodes, s, a, b)
        /\ page.hasNextPage = (b < Len(s))
        /\ b < Len(s) => a < b /\ page.endCursor = ToCursor(s[b])

\* A page of what comes up to the b-th order, from the one its startCursor names on, or
\* from the beginning.
IsBackwardPage(page, rows, s, b) ==
    \E a \in 0..b :
        /\ page.nodes \in Seq(rows) /\ IsSlice(page.nodes, s, a, b)
        /\ page.hasPreviousPage = (a > 0)
        /\ a > 0 => a < b /\ page.startCursor = ToCursor(s[a + 1])

\* The forward page after the a newest orders of a list is answered with what comes next,
\* and says where that ends.
LEMMA ForwardPage ==
    ASSUME NEW rows, IsTable(rows), NEW s, IsListOf(s, rows),
           NEW size \in Nat \ {0}, NEW after, NEW a \in 0..Len(s),
           \/ a = 0 /\ after = Undefined
           \/ a > 0 /\ after = ToCursor(s[a]),
           NEW p, p = [first |-> size, after |-> after, last |-> Undefined, before |-> Undefined]
    PROVE  /\ ValidPagination(p)
           /\ ConnectionOf(s, p).status = "OK"
           /\ IsForwardPage(ConnectionOf(s, p), rows, s, a)
<1>1. p.first = size /\ p.after = after /\ p.last = Undefined /\ p.before = Undefined
  OBVIOUS
<1>2. Given(p.first) /\ ~Given(p.last) /\ p.first \in Int /\ p.first >= 1
  BY <1>1, MarkersAssumption DEF Given
<1>3. ValidPagination(p) /\ IsSize(p.first) /\ IsSize(p.last) /\ FirstOf(p) # 0
  <2>1. ValidPagination(p) /\ IsSize(p.first) /\ IsSize(p.last)
    BY <1>1, <1>2 DEF ValidPagination, IsSize
  <2>2. FirstOf(p) # 0
    BY <1>2, PageAssumption DEF FirstOf, Capped
  <2> QED
    BY <2>1, <2>2
<1>4. Len(s) \in Nat
  BY LenProperties DEF IsListOf
<1>5. /\ CursorExists(s, p.before) /\ EndIndex(s, p.before) = Len(s)
  BY <1>1 DEF CursorExists, EndIndex, NoCursor
<1>6. CursorExists(s, p.after) /\ StartIndex(s, p.after) = a
  <2>1. CASE a = 0 /\ after = Undefined
    BY <1>1, <2>1 DEF CursorExists, StartIndex, NoCursor
  <2>2. CASE a > 0 /\ after = ToCursor(s[a])
    <3>1. a \in 1..Len(s) /\ s \in Seq(rows)
      BY <1>4, <2>2 DEF IsListOf
    <3>2. s[a] \in rows /\ s[a].id \in Nat /\ s[a].at \in Nat
      BY <3>1, ElementOfSeq DEF IsTable
    <3>3. CursorPositions(s, after) = {a} /\ CursorIndex(s, after) = a - 1
      BY <2>2, <3>1, CursorFindsItsOrder
    <3>4. after \notin NoCursor
      BY <2>2, <3>2, CursorsAreNoMarkers
    <3> QED
      BY <1>1, <1>4, <3>3, <3>4 DEF CursorExists, StartIndex
  <2> QED
    BY <2>1, <2>2
<1>7. IsAnswered(s, p)
  BY <1>4, <1>5, <1>6 DEF IsAnswered
<1> DEFINE b == PageTo(s, p)
<1>8. PageFrom(s, p) = a /\ b \in a..Len(s) /\ (a = b => a = Len(s))
  BY <1>3, <1>5, <1>6, <1>7, PageBounds
<1>9. /\ ConnectionOf(s, p).status = "OK"
      /\ ConnectionOf(s, p).nodes \in Seq(rows) /\ IsSlice(ConnectionOf(s, p).nodes, s, a, b)
      /\ ConnectionOf(s, p).hasNextPage = (b < Len(s))
      /\ a < b => ConnectionOf(s, p).endCursor = ToCursor(s[b])
  BY <1>3, <1>7, <1>8, PageIsSlice
<1> HIDE DEF b
<1>10. b < Len(s) => a < b
  BY <1>4, <1>8
<1> QED
  BY <1>3, <1>8, <1>9, <1>10 DEF IsForwardPage

\* The backward page before the orders from the b-th on is answered with what comes before
\* them, and says where that begins.
LEMMA BackwardPage ==
    ASSUME NEW rows, IsTable(rows), NEW s, IsListOf(s, rows),
           NEW size \in Nat \ {0}, NEW before, NEW b \in 0..Len(s),
           \/ b = Len(s) /\ before = Undefined
           \/ b < Len(s) /\ before = ToCursor(s[b + 1]),
           NEW p, p = [first |-> Undefined, after |-> Undefined, last |-> size, before |-> before]
    PROVE  /\ ValidPagination(p)
           /\ ConnectionOf(s, p).status = "OK"
           /\ IsBackwardPage(ConnectionOf(s, p), rows, s, b)
<1>1. p.first = Undefined /\ p.after = Undefined /\ p.last = size /\ p.before = before
  OBVIOUS
<1>2. ~Given(p.first) /\ Given(p.last) /\ p.last \in Int /\ p.last >= 1
  BY <1>1, MarkersAssumption DEF Given
<1>3. ValidPagination(p) /\ IsSize(p.first) /\ IsSize(p.last) /\ FirstOf(p) = 0
  <2>1. ValidPagination(p) /\ IsSize(p.first) /\ IsSize(p.last)
    BY <1>1, <1>2 DEF ValidPagination, IsSize
  <2>2. FirstOf(p) = 0
    BY <1>2 DEF FirstOf
  <2> QED
    BY <2>1, <2>2
<1>4. Len(s) \in Nat
  BY LenProperties DEF IsListOf
<1>5. /\ CursorExists(s, p.after) /\ StartIndex(s, p.after) = 0
  BY <1>1 DEF CursorExists, StartIndex, NoCursor
<1>6. CursorExists(s, p.before) /\ EndIndex(s, p.before) = b
  <2>1. CASE b = Len(s) /\ before = Undefined
    BY <1>1, <2>1 DEF CursorExists, EndIndex, NoCursor
  <2>2. CASE b < Len(s) /\ before = ToCursor(s[b + 1])
    <3>1. b + 1 \in 1..Len(s) /\ s \in Seq(rows) /\ (b + 1) - 1 = b
      BY <1>4, <2>2 DEF IsListOf
    <3>2. s[b + 1] \in rows /\ s[b + 1].id \in Nat /\ s[b + 1].at \in Nat
      BY <3>1, ElementOfSeq DEF IsTable
    <3>3. CursorPositions(s, before) = {b + 1} /\ CursorIndex(s, before) = b
      BY <2>2, <3>1, CursorFindsItsOrder
    <3>4. before \notin NoCursor
      BY <2>2, <3>2, CursorsAreNoMarkers
    <3> QED
      BY <1>1, <3>3, <3>4 DEF CursorExists, EndIndex
  <2> QED
    BY <2>1, <2>2
<1>7. IsAnswered(s, p)
  BY <1>4, <1>5, <1>6 DEF IsAnswered
<1> DEFINE a == PageFrom(s, p)
<1>8. PageTo(s, p) = b /\ a \in 0..b /\ (a = b => a = 0)
  BY <1>3, <1>5, <1>6, <1>7, PageBounds
<1>9. /\ ConnectionOf(s, p).status = "OK"
      /\ ConnectionOf(s, p).nodes \in Seq(rows) /\ IsSlice(ConnectionOf(s, p).nodes, s, a, b)
      /\ ConnectionOf(s, p).hasPreviousPage = (a > 0)
      /\ a < b => ConnectionOf(s, p).startCursor = ToCursor(s[a + 1])
  BY <1>3, <1>7, <1>8, PageIsSlice
<1> HIDE DEF a
<1>10. a > 0 => a < b
  BY <1>4, <1>8
<1> QED
  BY <1>3, <1>8, <1>9, <1>10 DEF IsBackwardPage

\* Newest first, each once.
IsOrdered(orders) == \A i, j \in 1..Len(orders) : i < j => NewestFirst(orders[i], orders[j])

Holds(orders, order) == \E i \in 1..Len(orders) : orders[i] = order

\* Pages put behind one another are in order, and leave out only what comes after them.
LEMMA PagesAppend ==
    ASSUME NEW rows, IsTable(rows), NEW s, IsListOf(s, rows),
           NEW seen \in Seq(rows), IsOrdered(seen),
           NEW a \in 0..Len(s), NEW b \in a..Len(s),
           \/ seen = <<>> /\ a = 0
           \/ seen # <<>> /\ a > 0 /\ s[a] = Last(seen),
           NEW nodes \in Seq(rows), IsSlice(nodes, s, a, b)
    PROVE  /\ seen \o nodes \in Seq(rows)
           /\ IsOrdered(seen \o nodes)
           /\ a < b => seen \o nodes # <<>> /\ Last(seen \o nodes) = s[b]
           /\ \A o \in rows :
                 (a = 0 \/ Holds(seen, o) \/ NewestFirst(Last(seen), o)) =>
                    \/ Holds(seen \o nodes, o)
                    \/ b < Len(s) /\ (b > 0 => NewestFirst(s[b], o))
<1> DEFINE n == Len(seen)
           m == b - a
           all == seen \o nodes
<1>0. /\ \A i \in 1..n : seen[i] \in rows
      /\ \A i \in 1..Len(s) : s[i] \in rows
  BY ElementOfSeq DEF IsListOf
<1>1. n \in Nat /\ Len(s) \in Nat /\ a \in Nat /\ b \in a..Len(s) /\ m \in Nat /\ a + m = b
  BY LenProperties DEF IsListOf
<1>2. all \in Seq(rows) /\ Len(all) = n + m
  <2>1. Len(nodes) = m
    BY DEF IsSlice
  <2> QED
    BY <2>1, ConcatProperties
<1>3. \A i \in 1..n : all[i] = seen[i]
  BY <1>1, ConcatProperties
<1>4. \A k \in 1..m : all[n + k] = s[a + k]
  <2> TAKE k \in 1..m
  <2>1. n + k \in 1..(n + m) /\ ~(n + k <= n) /\ (n + k) - n = k
    BY <1>1
  <2>2. all[n + k] = nodes[k]
    BY <1>1, <2>1, ConcatProperties DEF IsSlice
  <2> QED
    BY <2>2 DEF IsSlice
<1> HIDE DEF all, m
<1>5. IsOrdered(all)
  <2> SUFFICES ASSUME NEW i \in 1..Len(all), NEW j \in 1..Len(all), i < j
               PROVE  NewestFirst(all[i], all[j])
    BY DEF IsOrdered
  <2>0. i \in 1..(n + m) /\ j \in 1..(n + m) /\ i < j
    BY <1>2
  <2> HIDE DEF n
  <2>1. CASE j <= n
    <3>1. i \in 1..n /\ j \in 1..n
      BY <1>1, <2>0, <2>1
    <3> QED
      BY <1>3, <3>1 DEF IsOrdered, n
  <2>2. CASE i > n
    <3>1. i - n \in 1..m /\ j - n \in 1..m /\ n + (i - n) = i /\ n + (j - n) = j
      BY <1>1, <2>0, <2>2
    <3>2. a + (i - n) \in 1..Len(s) /\ a + (j - n) \in 1..Len(s) /\ a + (i - n) < a + (j - n)
      BY <1>1, <2>0, <3>1
    <3>3. all[i] = s[a + (i - n)] /\ all[j] = s[a + (j - n)]
      BY <1>4, <3>1
    <3> QED
      BY <3>2, <3>3 DEF IsListOf
  <2>3. CASE i <= n /\ j > n
    <3>1. i \in 1..n /\ n \in 1..n /\ j - n \in 1..m /\ n + (j - n) = j
      BY <1>1, <2>0, <2>3
    <3>2. a > 0 /\ s[a] = seen[n]
      BY <1>1, <3>1, EmptySeq DEF Last, n
    <3>3. a \in 1..Len(s) /\ a + (j - n) \in 1..Len(s) /\ a < a + (j - n)
      BY <1>1, <3>1, <3>2
    <3>4. all[j] = s[a + (j - n)] /\ all[i] = seen[i]
      BY <1>3, <1>4, <3>1
    <3>5. NewestFirst(seen[n], all[j])
      BY <3>2, <3>3, <3>4 DEF IsListOf
    <3>6. i = n \/ NewestFirst(seen[i], seen[n])
      BY <3>1 DEF IsOrdered, n
    <3>7. seen[i] \in rows /\ seen[n] \in rows /\ all[j] \in rows
      BY <1>0, <3>1, <3>3, <3>4
    <3> QED
      BY <3>4, <3>5, <3>6, <3>7, NewestFirstOrders
  <2> QED
    BY <1>1, <2>0, <2>1, <2>2, <2>3
<1>6. ASSUME a < b PROVE all # <<>> /\ Last(all) = s[b]
  <2>1. m \in 1..m /\ Len(all) = n + m /\ Len(all) > 0
    BY <1>1, <1>2, <1>6
  <2>2. all[n + m] = s[b]
    BY <1>1, <1>4, <2>1
  <2> QED
    BY <1>2, <2>1, <2>2, EmptySeq DEF Last
<1>7. ASSUME NEW o \in rows, a = 0 \/ Holds(seen, o) \/ NewestFirst(Last(seen), o)
      PROVE  Holds(all, o) \/ (b < Len(s) /\ (b > 0 => NewestFirst(s[b], o)))
  <2>1. CASE Holds(seen, o)
    <3>1. PICK i \in 1..n : seen[i] = o
      BY <2>1 DEF Holds
    <3>2. i \in 1..Len(all) /\ all[i] = o
      BY <1>1, <1>2, <1>3, <3>1
    <3> QED
      BY <3>2 DEF Holds
  <2>2. CASE ~Holds(seen, o)
    <3>1. PICK j \in 1..Len(s) : s[j] = o
      BY DEF IsListOf
    <3>2. j > a
      <4>1. CASE seen = <<>> /\ a = 0
        BY <1>1, <3>1, <4>1
      <4>2. CASE a > 0 /\ s[a] = Last(seen)
        <5>1. NewestFirst(s[a], s[j]) /\ a \in 1..Len(s)
          BY <1>1, <1>7, <2>2, <3>1, <4>2
        <5>2. ~NewestFirst(s[j], s[a]) /\ j # a
          BY <1>0, <5>1, NewestFirstOrders
        <5>3. ~(j < a)
          BY <5>1, <5>2 DEF IsListOf
        <5> QED
          BY <1>1, <5>2, <5>3
      <4> QED
        BY <4>1, <4>2
    <3>3. CASE j <= b
      <4> HIDE DEF n
      <4>1. j - a \in 1..m /\ a + (j - a) = j /\ n + (j - a) \in 1..(n + m)
        BY <1>1, <3>2, <3>3
      <4>2. all[n + (j - a)] = o
        BY <1>4, <3>1, <4>1
      <4> QED
        BY <1>2, <4>1, <4>2 DEF Holds
    <3>4. CASE j > b
      <4>1. b < Len(s) /\ (b > 0 => b \in 1..Len(s) /\ b < j)
        BY <1>1, <3>4
      <4> QED
        BY <3>1, <4>1 DEF IsListOf
    <3> QED
      BY <1>1, <3>3, <3>4
  <2> QED
    BY <2>1, <2>2
<1> QED
  BY <1>2, <1>5, <1>6, <1>7 DEF all

\* Pages put before one another, likewise.
LEMMA PagesPrepend ==
    ASSUME NEW rows, IsTable(rows), NEW s, IsListOf(s, rows),
           NEW seen \in Seq(rows), IsOrdered(seen),
           NEW b \in 0..Len(s), NEW a \in 0..b,
           \/ seen = <<>> /\ b = Len(s)
           \/ seen # <<>> /\ b < Len(s) /\ s[b + 1] = Head(seen),
           NEW nodes \in Seq(rows), IsSlice(nodes, s, a, b)
    PROVE  /\ nodes \o seen \in Seq(rows)
           /\ IsOrdered(nodes \o seen)
           /\ a < b => nodes \o seen # <<>> /\ Head(nodes \o seen) = s[a + 1]
           /\ \A o \in rows :
                 (b = Len(s) \/ Holds(seen, o) \/ NewestFirst(o, Head(seen))) =>
                    \/ Holds(nodes \o seen, o)
                    \/ a > 0 /\ (a < Len(s) => NewestFirst(o, s[a + 1]))
<1> DEFINE n == Len(seen)
           m == b - a
           all == nodes \o seen
<1>0. /\ \A i \in 1..n : seen[i] \in rows
      /\ \A i \in 1..Len(s) : s[i] \in rows
  BY ElementOfSeq DEF IsListOf
<1>1. n \in Nat /\ Len(s) \in Nat /\ a \in Nat /\ b \in a..Len(s) /\ m \in Nat /\ a + m = b
  BY LenProperties DEF IsListOf
<1>2. all \in Seq(rows) /\ Len(all) = m + n
  BY ConcatProperties DEF IsSlice
<1>3. \A k \in 1..m : all[k] = s[a + k]
  <2> TAKE k \in 1..m
  <2>1. k \in 1..(m + n) /\ k <= m
    BY <1>1
  <2>2. all[k] = nodes[k]
    BY <1>1, <2>1, ConcatProperties DEF IsSlice
  <2> QED
    BY <2>2 DEF IsSlice
<1>4. \A i \in 1..n : all[m + i] = seen[i]
  <2> TAKE i \in 1..n
  <2>1. m + i \in 1..(m + n) /\ ~(m + i <= m) /\ (m + i) - m = i
    BY <1>1
  <2> QED
    BY <1>1, <2>1, ConcatProperties DEF IsSlice
<1> HIDE DEF all, m
<1>5. IsOrdered(all)
  <2> SUFFICES ASSUME NEW i \in 1..Len(all), NEW j \in 1..Len(all), i < j
               PROVE  NewestFirst(all[i], all[j])
    BY DEF IsOrdered
  <2>0. i \in 1..(m + n) /\ j \in 1..(m + n) /\ i < j
    BY <1>2
  <2> HIDE DEF n
  <2>1. CASE j <= m
    <3>1. i \in 1..m /\ j \in 1..m
      BY <1>1, <2>0, <2>1
    <3>2. a + i \in 1..Len(s) /\ a + j \in 1..Len(s) /\ a + i < a + j
      BY <1>1, <2>0, <3>1
    <3> QED
      BY <1>3, <3>1, <3>2 DEF IsListOf
  <2>2. CASE i > m
    <3>1. i - m \in 1..n /\ j - m \in 1..n /\ m + (i - m) = i /\ m + (j - m) = j /\ i - m < j - m
      BY <1>1, <2>0, <2>2
    <3>2. all[i] = seen[i - m] /\ all[j] = seen[j - m]
      BY <1>4, <3>1
    <3> QED
      BY <3>1, <3>2 DEF IsOrdered, n
  <2>3. CASE i <= m /\ j > m
    <3>1. i \in 1..m /\ 1 \in 1..n /\ j - m \in 1..n /\ m + (j - m) = j
      BY <1>1, <2>0, <2>3
    <3>2. b < Len(s) /\ s[b + 1] = seen[1]
      BY <1>1, <3>1, EmptySeq DEF n
    <3>3. b + 1 \in 1..Len(s) /\ a + i \in 1..Len(s) /\ a + i < b + 1
      BY <1>1, <3>1, <3>2
    <3>4. all[i] = s[a + i] /\ all[j] = seen[j - m]
      BY <1>3, <1>4, <3>1
    <3>5. NewestFirst(all[i], seen[1])
      BY <3>2, <3>3, <3>4 DEF IsListOf
    <3>6. j - m = 1 \/ NewestFirst(seen[1], seen[j - m])
      BY <1>1, <3>1 DEF IsOrdered, n
    <3>7. seen[1] \in rows /\ seen[j - m] \in rows /\ all[i] \in rows
      BY <1>0, <3>1, <3>3, <3>4
    <3> QED
      BY <3>4, <3>5, <3>6, <3>7, NewestFirstOrders
  <2> QED
    BY <1>1, <2>0, <2>1, <2>2, <2>3
<1>6. ASSUME a < b PROVE all # <<>> /\ Head(all) = s[a + 1]
  <2>1. 1 \in 1..m /\ Len(all) > 0
    BY <1>1, <1>2, <1>6
  <2>2. all[1] = s[a + 1]
    BY <1>3, <2>1
  <2> QED
    BY <1>2, <2>1, <2>2, EmptySeq
<1>7. ASSUME NEW o \in rows, b = Len(s) \/ Holds(seen, o) \/ NewestFirst(o, Head(seen))
      PROVE  Holds(all, o) \/ (a > 0 /\ (a < Len(s) => NewestFirst(o, s[a + 1])))
  <2>1. CASE Holds(seen, o)
    <3>1. PICK i \in 1..n : seen[i] = o
      BY <2>1 DEF Holds
    <3>2. m + i \in 1..Len(all) /\ all[m + i] = o
      BY <1>1, <1>2, <1>4, <3>1
    <3> QED
      BY <3>2 DEF Holds
  <2>2. CASE ~Holds(seen, o)
    <3>1. PICK j \in 1..Len(s) : s[j] = o
      BY DEF IsListOf
    <3>2. j <= b
      <4>1. CASE seen = <<>> /\ b = Len(s)
        BY <1>1, <3>1, <4>1
      <4>2. CASE b < Len(s) /\ s[b + 1] = Head(seen)
        <5>1. NewestFirst(s[j], s[b + 1]) /\ b + 1 \in 1..Len(s)
          BY <1>1, <1>7, <2>2, <3>1, <4>2
        <5>2. ~NewestFirst(s[b + 1], s[j]) /\ j # b + 1
          BY <1>0, <5>1, NewestFirstOrders
        <5>3. ~(b + 1 < j)
          BY <5>1, <5>2 DEF IsListOf
        <5> QED
          BY <1>1, <5>2, <5>3
      <4> QED
        BY <4>1, <4>2
    <3>3. CASE j > a
      <4>1. j - a \in 1..m /\ a + (j - a) = j /\ j - a \in 1..Len(all)
        BY <1>1, <1>2, <3>2, <3>3
      <4>2. all[j - a] = o
        BY <1>3, <3>1, <4>1
      <4> QED
        BY <4>1, <4>2 DEF Holds
    <3>4. CASE j <= a
      <4>1. a > 0 /\ (a < Len(s) => j < a + 1 /\ a + 1 \in 1..Len(s))
        BY <1>1, <3>4
      <4> QED
        BY <3>1, <4>1 DEF IsListOf
    <3> QED
      BY <1>1, <3>3, <3>4
  <2> QED
    BY <2>1, <2>2
<1> QED
  BY <1>2, <1>5, <1>6, <1>7 DEF all

-----------------------------------------------------------------------------
(* The inductive invariant *)

\* The rows a query selects are a table, and what it returns is the list of them.
LEMMA ListOfSelection ==
    ASSUME IInv
    PROVE  /\ IsTable(Selection) /\ IsListOf(List, Selection)
           /\ \A o \in Selection : o \in Orders /\ o.id \in Nat /\ o.at \in Nat
<1>1. \A o \in table : o \in Orders
  BY DEF IInv, TypeOK
<1>2. \A o \in Orders : o.id \in Nat /\ o.at \in Nat
  BY DEF Orders
<1>3. IsFiniteSet(Selection)
  BY FS_Subset DEF IInv, Selection
<1>4. \A o, p \in Selection : o.id = p.id => o = p
  BY DEF IInv, OneRowPerId, Selection
<1>5. \A o \in Selection : o \in table
  BY DEF Selection
<1>6. IsTable(Selection)
  BY <1>1, <1>2, <1>3, <1>4, <1>5 DEF IsTable
<1> QED
  BY <1>1, <1>2, <1>5, <1>6, SortedIsList DEF List, FindOrdersByFilter, Selection

\* The empty database and a client that has not asked.
THEOREM InitInvariant == Init => IInv
<1> SUFFICES ASSUME Init PROVE IInv
  OBVIOUS
<1>1. IsFiniteSet(table)
  BY FS_EmptySet DEF Init
<1>2. TypeOK
  BY DEF Init, TypeOK
<1>3. got \in Seq(Selection) /\ \A i \in DOMAIN got : FALSE
  BY DEF Init
<1> QED
  BY <1>1, <1>2, <1>3
     DEF Init, IInv, OneRowPerId, Selection, CursorIsReached, NothingPassedOver,
         MoreIsAhead, PagesAreOrdered, NothingSkipped, CursorsLast

\* A transaction that commits between two pages disturbs nothing.
LEMMA PlaceOrderKeeps ==
    ASSUME IInv, NEW order \in Orders, PlaceOrder(order)
    PROVE  IInv'
<1>1. /\ table' = table \cup {order} /\ \A o \in table : o.id # order.id
      /\ plan' = plan /\ client' = client /\ cursor' = cursor /\ got' = got
      /\ initial' = initial
  BY DEF PlaceOrder
<1>2. TypeOK'
  BY <1>1 DEF IInv, TypeOK
<1>3. IsFiniteSet(table')
  BY <1>1, FS_AddElement DEF IInv
<1>4. OneRowPerId'
  BY <1>1 DEF IInv, OneRowPerId
<1>5. got' \in Seq({o \in table' : Selected(o, plan'.filter)})
  <2>1. Selection \subseteq {o \in table' : Selected(o, plan'.filter)}
    BY <1>1 DEF Selection
  <2>2. got \in Seq(Selection)
    BY DEF IInv, Selection
  <2> QED
    BY <1>1, <2>1, <2>2, SeqMonotonic
<1>6. CursorIsReached' /\ NothingPassedOver'
  BY <1>1 DEF IInv, CursorIsReached, NothingPassedOver, Reached, Ahead, Shown, Forward
<1>7. PagesAreOrdered' /\ NothingSkipped' /\ CursorsLast'
  BY <1>1 DEF IInv, PagesAreOrdered, NothingSkipped, CursorsLast, Shown
<1>8. MoreIsAhead'
  BY <1>1 DEF IInv, MoreIsAhead, Reached, Ahead, Forward
<1> QED
  BY <1>2, <1>3, <1>4, <1>5, <1>6, <1>7, <1>8 DEF IInv

\* What the client has been sent are selected orders, in order, by positions.
LEMMA GotIsOrdered ==
    ASSUME IInv
    PROVE  /\ got \in Seq(Selection) /\ DOMAIN got = 1..Len(got) /\ Len(got) \in Nat
           /\ IsOrdered(got)
           /\ \A o : Shown(o) <=> Holds(got, o)
<1>1. got \in Seq(Selection)
  BY DEF IInv, Selection
<1>2. DOMAIN got = 1..Len(got) /\ Len(got) \in Nat
  BY <1>1, LenProperties
<1> QED
  BY <1>1, <1>2 DEF IInv, PagesAreOrdered, IsOrdered, Shown, Holds

\* A page that leads on in the list, appended or prepended to what the client has, keeps
\* the invariant: what is left to say once the two directions look alike.
LEMMA PageKeeps ==
    ASSUME IInv, FetchPage,
           client' \in {"paging", "done"},
           got' \in Seq(Selection), IsOrdered(got'),
           client' = "paging" =>
              got' # <<>> /\ cursor' = ToCursor(Reached') /\ Reached' \in Selection,
           client' = "done" => cursor' = cursor,
           client' = "paging" => \E o \in Selection : Ahead(o)',
           \A o \in Selection : o \in initial' =>
              Holds(got', o) \/ (client' = "paging" /\ Ahead(o)')
    PROVE  IInv'
<1>1. plan' = plan /\ table' = table /\ initial' = IF client = "start" THEN table ELSE initial
  BY DEF FetchPage
<1>2. DOMAIN got' = 1..Len(got') /\ \A i \in 1..Len(got') : got'[i] \in Selection
  BY LenProperties, ElementOfSeq
<1>3. \A o \in Selection : o \in table /\ o \in Orders
  BY ListOfSelection DEF Selection
<1>4. ASSUME NEW o \in Orders
      PROVE  ToCursor(o) \in [id : Ids, createdAt : {Millis(x) : x \in Orders}]
  BY DEF ToCursor, Orders
<1>5. cursor' = Undefined
      \/ cursor' \in [id : Ids, createdAt : {Millis(o) : o \in Orders}]
  BY <1>3, <1>4 DEF IInv, TypeOK
<1>6. initial' \subseteq table'
  BY <1>1 DEF IInv, TypeOK
<1>7. TypeOK'
  BY <1>1, <1>2, <1>3, <1>5, <1>6 DEF IInv, TypeOK
<1>8. IsFiniteSet(table') /\ OneRowPerId'
  BY <1>1 DEF IInv, OneRowPerId
<1>9. got' \in Seq({o \in table' : Selected(o, plan'.filter)})
  BY <1>1 DEF Selection
<1>10. PagesAreOrdered' /\ CursorsLast' /\ CursorIsReached'
  BY <1>2 DEF PagesAreOrdered, IsOrdered, CursorsLast, CursorIsReached
<1>11. ASSUME NEW o \in initial', Selected(o, plan'.filter)
       PROVE  Shown(o)' \/ (client' = "paging" /\ Ahead(o)')
  <2>1. o \in Selection
    BY <1>1, <1>6, <1>11 DEF Selection
  <2> QED
    BY <1>2, <2>1 DEF Shown, Holds
<1>12. NothingPassedOver' /\ NothingSkipped'
  BY <1>11 DEF NothingPassedOver, NothingSkipped
<1>13. MoreIsAhead'
  BY <1>1 DEF MoreIsAhead, Selection
<1> QED
  BY <1>7, <1>8, <1>9, <1>10, <1>12, <1>13 DEF IInv

\* In an ordered list that has all the client has been shown at other places than the i-th,
\* the i-th order is new to the client.
LEMMA PageIsNews ==
    ASSUME IInv, NEW seen \in Seq(Selection), IsOrdered(seen),
           NEW i \in 1..Len(seen), \A j \in DOMAIN got : \E k \in 1..Len(seen) : k # i /\ seen[k] = got[j]
    PROVE  ~Shown(seen[i])
<1>1. \A j \in 1..Len(seen) : j \in Int /\ seen[j].at \in Nat /\ seen[j].id \in Nat
  BY ListOfSelection, LenProperties, ElementOfSeq DEF IsTable
<1>2. \A k \in 1..Len(seen) : k # i => seen[k] # seen[i]
  BY <1>1 DEF IsOrdered, NewestFirst
<1> QED
  BY <1>2 DEF Shown

\* The client's plan and the orders there were when it began.
LEMMA FetchBegins ==
    ASSUME IInv, FetchPage
    PROVE  /\ plan \in Plans /\ plan' = plan /\ table' = table
           /\ WellFormedDates(plan.filter) /\ ValidDateRange(plan.filter)
           /\ plan.size \in 1..MaxPage
           /\ client = "start" \/ (client = "paging" /\ initial' = initial)
           /\ ValidPagination(PageArgs) /\ ConnectionOf(List, PageArgs).status = "OK" =>
                 TakePage(ConnectionOf(List, PageArgs))
<1>1. /\ plan' = plan /\ table' = table /\ client \in {"start", "paging"}
      /\ initial' = IF client = "start" THEN table ELSE initial
  BY DEF FetchPage
<1>2. /\ plan \in Plans /\ plan.size \in 1..MaxPage
      /\ WellFormedDates(plan.filter) /\ ValidDateRange(plan.filter)
  BY DEF IInv, TypeOK
<1>3. ASSUME ValidPagination(PageArgs), ConnectionOf(List, PageArgs).status = "OK"
      PROVE  TakePage(ConnectionOf(List, PageArgs))
  <2>0. PipeAccepts(plan.filter, PageArgs)
    BY <1>2 DEF PipeAccepts, PageArgs
  <2>1. QueryOrders(List, plan.filter, PageArgs) = ConnectionOf(List, PageArgs)
    BY <1>2, <1>3, <2>0 DEF QueryOrders, ListOrdersConnection
  <2>2. \E page \in {QueryOrders(List, plan.filter, PageArgs)} :
          IF page.status = "BadRequest"
            THEN client' = "refused" /\ UNCHANGED <<cursor, got>>
            ELSE TakePage(page)
    BY DEF FetchPage, List
  <2> QED
    BY <1>3, <2>1, <2>2
<1> QED
  BY <1>1, <1>2, <1>3

\* The next page forward.
LEMMA ForwardKeeps ==
    ASSUME IInv, FetchPage, Forward
    PROVE  /\ IInv'
           /\ client = "paging" => \E i \in DOMAIN got' : ~Shown(got'[i])
<1> DEFINE s == List
           page == ConnectionOf(s, PageArgs)
<1>1. /\ IsTable(Selection) /\ IsListOf(s, Selection)
      /\ s \in Seq(Selection) /\ Len(s) \in Nat
      /\ \A i \in 1..Len(s) : s[i] \in Selection
  BY ListOfSelection, LenProperties, ElementOfSeq DEF IsListOf
<1>2. got \in Seq(Selection) /\ IsOrdered(got)
  BY GotIsOrdered
<1>3. PICK a \in 0..Len(s) :
         \/ client = "start" /\ cursor = Undefined /\ got = <<>> /\ a = 0
         \/ client = "paging" /\ cursor = ToCursor(s[a]) /\ got # <<>> /\ a > 0 /\ s[a] = Last(got)
  <2>1. CASE client = "start"
    BY <1>1, <2>1 DEF IInv, CursorIsReached
  <2>2. CASE client = "paging"
    <3>1. got # <<>> /\ cursor = ToCursor(Last(got))
      BY <2>2 DEF IInv, CursorIsReached, Reached
    <3>2. Last(got) \in Selection
      BY <1>2, <3>1, EmptySeq, LenProperties, ElementOfSeq DEF Last
    <3>3. PICK i \in 1..Len(s) : s[i] = Last(got)
      BY <1>1, <3>2 DEF IsListOf
    <3> QED
      BY <1>1, <2>2, <3>1, <3>3
  <2> QED
    BY <2>1, <2>2, FetchBegins
<1>4. PageArgs = [first |-> plan.size, after |-> cursor, last |-> Undefined, before |-> Undefined]
  BY DEF PageArgs
<1>5. /\ ValidPagination(PageArgs) /\ page.status = "OK"
      /\ IsForwardPage(page, Selection, s, a)
  <2>1. plan.size \in Nat \ {0}
    BY FetchBegins
  <2>2. \/ a = 0 /\ cursor = Undefined
        \/ a > 0 /\ cursor = ToCursor(s[a])
    BY <1>3
  <2>3. IsTable(Selection) /\ IsListOf(s, Selection)
    BY <1>1
  <2> HIDE DEF s
  <2> QED
    BY <1>4, <2>1, <2>2, <2>3, ForwardPage
<1>6. PICK b \in a..Len(s) :
            /\ page.nodes \in Seq(Selection) /\ IsSlice(page.nodes, s, a, b)
            /\ page.hasNextPage = (b < Len(s))
            /\ b < Len(s) => a < b /\ page.endCursor = ToCursor(s[b])
  BY <1>5 DEF IsForwardPage
<1> HIDE DEF s
<1>7. /\ got \o page.nodes \in Seq(Selection)
      /\ IsOrdered(got \o page.nodes)
      /\ a < b => got \o page.nodes # <<>> /\ Last(got \o page.nodes) = s[b]
      /\ \A o \in Selection :
            (a = 0 \/ Holds(got, o) \/ NewestFirst(Last(got), o)) =>
               \/ Holds(got \o page.nodes, o)
               \/ b < Len(s) /\ (b > 0 => NewestFirst(s[b], o))
  <2>1. \/ got = <<>> /\ a = 0
        \/ got # <<>> /\ a > 0 /\ s[a] = Last(got)
    BY <1>3
  <2> HIDE DEF page
  <2> QED
    BY <1>1, <1>2, <1>6, <2>1, PagesAppend
<1>8. /\ got' = got \o page.nodes
      /\ b < Len(s) => client' = "paging" /\ cursor' = page.endCursor
      /\ ~(b < Len(s)) => client' = "done" /\ cursor' = cursor
  <2>1. TakePage(page)
    BY <1>5, FetchBegins DEF s
  <2> HIDE DEF page
  <2> QED
    BY <1>6, <2>1 DEF TakePage
<1> HIDE DEF page
<1>9. Forward' /\ Reached' = Last(got')
  BY FetchBegins DEF Forward, Reached
<1>10. ASSUME b < Len(s)
       PROVE  /\ got' # <<>> /\ Reached' = s[b] /\ cursor' = ToCursor(s[b])
              /\ b > 0 /\ s[b] \in Selection
  BY <1>1, <1>6, <1>7, <1>8, <1>9, <1>10
<1>11. ASSUME NEW o \in Selection, o \in initial'
       PROVE  Holds(got', o) \/ (client' = "paging" /\ Ahead(o)')
  <2>1. a = 0 \/ Holds(got, o) \/ NewestFirst(Last(got), o)
    <3>1. CASE client = "start"
      BY <1>3, <3>1
    <3>2. CASE client = "paging" /\ initial' = initial
      <4>1. Shown(o) \/ Ahead(o)
        BY <1>11, <3>2 DEF IInv, NothingPassedOver, Selection
      <4> QED
        BY <4>1, GotIsOrdered DEF Ahead, Reached
    <3> QED
      BY <3>1, <3>2, FetchBegins
  <2>2. Holds(got', o) \/ (b < Len(s) /\ (b > 0 => NewestFirst(s[b], o)))
    BY <1>7, <1>8, <2>1
  <2> QED
    BY <1>8, <1>9, <1>10, <2>2 DEF Ahead
<1>12. client' \in {"paging", "done"} /\ got' \in Seq(Selection) /\ IsOrdered(got')
  BY <1>7, <1>8
<1>13. /\ client' = "paging" =>
            got' # <<>> /\ cursor' = ToCursor(Reached') /\ Reached' \in Selection
       /\ client' = "done" => cursor' = cursor
  BY <1>8, <1>10
<1>14. ASSUME client' = "paging"
       PROVE  \E o \in Selection : Ahead(o)'
  <2>1. b < Len(s) /\ b \in 1..Len(s) /\ b + 1 \in 1..Len(s)
    BY <1>1, <1>8, <1>10, <1>14
  <2>2. s[b + 1] \in Selection /\ NewestFirst(s[b], s[b + 1])
    BY <1>1, <2>1 DEF IsListOf
  <2> QED
    BY <1>9, <1>10, <2>1, <2>2 DEF Ahead
<1>15. ASSUME client = "paging"
       PROVE  \E i \in DOMAIN got' : ~Shown(got'[i])
  <2>1. a > 0 /\ s[a] = Last(got)
    BY <1>3, <1>15
  <2>2. PICK o \in Selection : NewestFirst(s[a], o)
    BY <1>15, <2>1 DEF IInv, MoreIsAhead, Ahead, Reached, Selection
  <2>3. PICK k \in 1..Len(s) : s[k] = o
    BY <1>1 DEF IsListOf
  <2>4. a < k
    BY <1>1, <2>1, <2>2, <2>3, PlacesFollowOrder
  <2>5. a < b
    BY <1>1, <1>6, <2>3, <2>4
  <2>6. Len(page.nodes) \in Nat /\ Len(page.nodes) > 0
    BY <1>1, <1>6, <2>5 DEF IsSlice
  <2>7. /\ Len(got) \in Nat /\ Len(got') = Len(got) + Len(page.nodes)
        /\ \A j \in 1..Len(got) : got'[j] = got[j]
        /\ DOMAIN got = 1..Len(got) /\ DOMAIN got' = 1..Len(got')
    BY <1>2, <1>6, <1>8, ConcatProperties, LenProperties
  <2>8. /\ Len(got) + 1 \in 1..Len(got')
        /\ \A j \in DOMAIN got : j \in 1..Len(got') /\ j # Len(got) + 1 /\ got'[j] = got[j]
    BY <2>6, <2>7
  <2>9. ~Shown(got'[Len(got) + 1])
    BY <1>12, <2>8, PageIsNews
  <2> QED
    BY <2>7, <2>8, <2>9
<1> QED
  BY <1>11, <1>12, <1>13, <1>14, <1>15, PageKeeps

\* The next page backward.
LEMMA BackwardKeeps ==
    ASSUME IInv, FetchPage, ~Forward
    PROVE  /\ IInv'
           /\ client = "paging" => \E i \in DOMAIN got' : ~Shown(got'[i])
<1> DEFINE s == List
           page == ConnectionOf(s, PageArgs)
<1>1. /\ IsTable(Selection) /\ IsListOf(s, Selection)
      /\ s \in Seq(Selection) /\ Len(s) \in Nat
      /\ \A i \in 1..Len(s) : s[i] \in Selection
  BY ListOfSelection, LenProperties, ElementOfSeq DEF IsListOf
<1>2. got \in Seq(Selection) /\ IsOrdered(got)
  BY GotIsOrdered
<1>3. PICK b \in 0..Len(s) :
         \/ client = "start" /\ cursor = Undefined /\ got = <<>> /\ b = Len(s)
         \/ /\ client = "paging" /\ cursor = ToCursor(s[b + 1])
            /\ got # <<>> /\ b < Len(s) /\ s[b + 1] = Head(got)
  <2>1. CASE client = "start"
    BY <1>1, <2>1 DEF IInv, CursorIsReached
  <2>2. CASE client = "paging"
    <3>1. got # <<>> /\ cursor = ToCursor(Head(got))
      BY <2>2 DEF IInv, CursorIsReached, Reached
    <3>2. Head(got) \in Selection
      BY <1>2, <3>1, HeadTailProperties
    <3>3. PICK i \in 1..Len(s) : s[i] = Head(got)
      BY <1>1, <3>2 DEF IsListOf
    <3>4. i - 1 \in 0..Len(s) /\ i - 1 < Len(s) /\ (i - 1) + 1 = i
      BY <1>1
    <3> QED
      BY <2>2, <3>1, <3>3, <3>4
  <2> QED
    BY <2>1, <2>2, FetchBegins
<1>4. PageArgs = [first |-> Undefined, after |-> Undefined, last |-> plan.size, before |-> cursor]
  BY DEF PageArgs
<1>5. /\ ValidPagination(PageArgs) /\ page.status = "OK"
      /\ IsBackwardPage(page, Selection, s, b)
  <2>1. plan.size \in Nat \ {0}
    BY FetchBegins
  <2>2. \/ b = Len(s) /\ cursor = Undefined
        \/ b < Len(s) /\ cursor = ToCursor(s[b + 1])
    BY <1>3
  <2>3. IsTable(Selection) /\ IsListOf(s, Selection)
    BY <1>1
  <2> HIDE DEF s
  <2> QED
    BY <1>4, <2>1, <2>2, <2>3, BackwardPage
<1>6. PICK a \in 0..b :
            /\ page.nodes \in Seq(Selection) /\ IsSlice(page.nodes, s, a, b)
            /\ page.hasPreviousPage = (a > 0)
            /\ a > 0 => a < b /\ page.startCursor = ToCursor(s[a + 1])
  BY <1>5 DEF IsBackwardPage
<1> HIDE DEF s
<1>7. /\ page.nodes \o got \in Seq(Selection)
      /\ IsOrdered(page.nodes \o got)
      /\ a < b => page.nodes \o got # <<>> /\ Head(page.nodes \o got) = s[a + 1]
      /\ \A o \in Selection :
            (b = Len(s) \/ Holds(got, o) \/ NewestFirst(o, Head(got))) =>
               \/ Holds(page.nodes \o got, o)
               \/ a > 0 /\ (a < Len(s) => NewestFirst(o, s[a + 1]))
  <2>1. \/ got = <<>> /\ b = Len(s)
        \/ got # <<>> /\ b < Len(s) /\ s[b + 1] = Head(got)
    BY <1>3
  <2> HIDE DEF page
  <2> QED
    BY <1>1, <1>2, <1>6, <2>1, PagesPrepend
<1>8. /\ got' = page.nodes \o got
      /\ a > 0 => client' = "paging" /\ cursor' = page.startCursor
      /\ ~(a > 0) => client' = "done" /\ cursor' = cursor
  <2>1. TakePage(page)
    BY <1>5, FetchBegins DEF s
  <2> HIDE DEF page
  <2> QED
    BY <1>6, <2>1 DEF TakePage
<1> HIDE DEF page
<1>9. ~Forward' /\ Reached' = Head(got')
  BY FetchBegins DEF Forward, Reached
<1>10. ASSUME a > 0
       PROVE  /\ got' # <<>> /\ Reached' = s[a + 1] /\ cursor' = ToCursor(s[a + 1])
              /\ a < Len(s) /\ s[a + 1] \in Selection
  <2>1. a < b /\ a < Len(s) /\ a + 1 \in 1..Len(s)
    BY <1>1, <1>6, <1>10
  <2> QED
    BY <1>1, <1>6, <1>7, <1>8, <1>9, <1>10, <2>1
<1>11. ASSUME NEW o \in Selection, o \in initial'
       PROVE  Holds(got', o) \/ (client' = "paging" /\ Ahead(o)')
  <2>1. b = Len(s) \/ Holds(got, o) \/ NewestFirst(o, Head(got))
    <3>1. CASE client = "start"
      BY <1>3, <3>1
    <3>2. CASE client = "paging" /\ initial' = initial
      <4>1. Shown(o) \/ Ahead(o)
        BY <1>11, <3>2 DEF IInv, NothingPassedOver, Selection
      <4> QED
        BY <4>1, GotIsOrdered DEF Ahead, Reached
    <3> QED
      BY <3>1, <3>2, FetchBegins
  <2>2. Holds(got', o) \/ (a > 0 /\ (a < Len(s) => NewestFirst(o, s[a + 1])))
    BY <1>7, <1>8, <2>1
  <2> QED
    BY <1>8, <1>9, <1>10, <2>2 DEF Ahead
<1>12. client' \in {"paging", "done"} /\ got' \in Seq(Selection) /\ IsOrdered(got')
  BY <1>7, <1>8
<1>13. /\ client' = "paging" =>
            got' # <<>> /\ cursor' = ToCursor(Reached') /\ Reached' \in Selection
       /\ client' = "done" => cursor' = cursor
  BY <1>8, <1>10
<1>14. ASSUME client' = "paging"
       PROVE  \E o \in Selection : Ahead(o)'
  <2>1. a > 0 /\ a \in 1..Len(s) /\ a + 1 \in 1..Len(s)
    BY <1>1, <1>8, <1>10, <1>14
  <2>2. s[a] \in Selection /\ NewestFirst(s[a], s[a + 1])
    BY <1>1, <2>1 DEF IsListOf
  <2> QED
    BY <1>9, <1>10, <2>1, <2>2 DEF Ahead
<1>15. ASSUME client = "paging"
       PROVE  \E i \in DOMAIN got' : ~Shown(got'[i])
  <2>1. b < Len(s) /\ b + 1 \in 1..Len(s) /\ s[b + 1] = Head(got)
    BY <1>1, <1>3, <1>15
  <2>2. PICK o \in Selection : NewestFirst(o, s[b + 1])
    BY <1>15, <2>1 DEF IInv, MoreIsAhead, Ahead, Reached, Selection
  <2>3. PICK k \in 1..Len(s) : s[k] = o
    BY <1>1 DEF IsListOf
  <2>4. k < b + 1
    BY <1>1, <2>1, <2>2, <2>3, PlacesFollowOrder
  <2>5. a < b
    BY <1>1, <1>6, <2>3, <2>4
  <2>6. Len(page.nodes) \in Nat /\ Len(page.nodes) > 0
    BY <1>1, <1>6, <2>5 DEF IsSlice
  <2>7. /\ Len(got) \in Nat /\ Len(got') = Len(got) + Len(page.nodes)
        /\ \A j \in 1..Len(got) : got'[Len(page.nodes) + j] = got[j]
        /\ DOMAIN got = 1..Len(got) /\ DOMAIN got' = 1..Len(got')
    BY <1>2, <1>6, <1>8, ConcatProperties, LenProperties
  <2>8. /\ 1 \in 1..Len(got')
        /\ \A j \in DOMAIN got : /\ Len(page.nodes) + j \in 1..Len(got')
                                  /\ Len(page.nodes) + j # 1
                                  /\ got'[Len(page.nodes) + j] = got[j]
    BY <2>6, <2>7
  <2>9. ~Shown(got'[1])
    BY <1>12, <2>8, PageIsNews
  <2> QED
    BY <2>7, <2>8, <2>9
<1> QED
  BY <1>11, <1>12, <1>13, <1>14, <1>15, PageKeeps

\* Every step keeps the invariant: a page, somebody's order, or nothing.
LEMMA NextInvariant == IInv /\ [Next]_vars => IInv'
<1> SUFFICES ASSUME IInv, [Next]_vars PROVE IInv'
  OBVIOUS
<1>1. CASE FetchPage
  BY <1>1, ForwardKeeps, BackwardKeeps
<1>2. ASSUME NEW order \in Orders, PlaceOrder(order) PROVE IInv'
  BY <1>2, PlaceOrderKeeps
<1>3. CASE UNCHANGED vars
  BY <1>3 DEF vars, IInv, TypeOK, OneRowPerId, CursorIsReached, NothingPassedOver, Reached,
              Ahead, Forward, Shown, MoreIsAhead, PagesAreOrdered, NothingSkipped, CursorsLast
<1> QED
  BY <1>1, <1>2, <1>3 DEF Next

-----------------------------------------------------------------------------

\* Between two pages the client holds the cursor of the order it has got to, and has been
\* shown whatever it has come past (orders-query.service.ts 32-63 with OrdersResolver.orders).
THEOREM Invariance == Spec => []IInv
<1> QED
  BY InitInvariant, NextInvariant, PTL DEF Spec

\* A client that pages in one direction is shown no order twice and every page in the
\* list's order, whatever is committed between the pages.
THEOREM PagesStayInOrder == Spec => []PagesAreOrdered
<1>1. IInv => PagesAreOrdered
  BY DEF IInv
<1> QED
  BY <1>1, Invariance, PTL

\* When pageInfo has led it to the end, a client has been shown every order its filter
\* selects of those there were when it began.
THEOREM NoOrderIsSkipped == Spec => []NothingSkipped
<1>1. IInv => NothingSkipped
  BY DEF IInv
<1> QED
  BY <1>1, Invariance, PTL

\* A cursor taken from pageInfo is never refused.
THEOREM CursorsStayGood == Spec => []CursorsLast
<1>1. IInv => CursorsLast
  BY DEF IInv
<1> QED
  BY <1>1, Invariance, PTL

\* However the table grows, a page that was announced brings an order that is new: the
\* client that follows pageInfo never goes in a circle.
THEOREM PagesAreNews == Spec => EveryPageIsNews
<1>1. ASSUME IInv, [Next]_vars, client = "paging", table' = table, vars' # vars
      PROVE  \E i \in DOMAIN got' : ~Shown(got'[i])
  <2>1. FetchPage
    BY <1>1 DEF Next, PlaceOrder
  <2> QED
    BY <1>1, <2>1, ForwardKeeps, BackwardKeeps
<1>2. IInv /\ [Next]_vars =>
         [client = "paging" => table' # table \/ \E i \in DOMAIN got' : ~Shown(got'[i])]_vars
  BY <1>1
<1> QED
  BY <1>2, Invariance, PTL DEF Spec, EveryPageIsNews
=============================================================================
