------------------------- MODULE OrderPlacement_proofs ------------------------
(***************************************************************************)
(* Proofs about OrderPlacement, for every number of requests, keys,        *)
(* products and pool connections.                                          *)
(***************************************************************************)
EXTENDS OrderPlacement, OrderItems_proofs

-----------------------------------------------------------------------------
(* Typing *)

\* NoOrder is no order.
LEMMA NoOrderIsNone ==
    ASSUME NEW o, IsOrder(o)
    PROVE  o # NoOrder /\ o.id \in Requests
BY NoneAssumption DEF IsOrder, NoOrder

\* Empty views and baskets are typed.
LEMMA EmptyIsTyped == IsView(EmptyView) /\ IsBasket(EmptyBasket)
BY DEF IsView, IsBasket, EmptyView, EmptyBasket

\* Whatever body CreateOrderDto lets through, normalizeItems makes a basket of it that
\* is not empty.
LEMMA ValidItemsMakeBasket ==
    ASSUME NEW items \in Seq([productId : ProductIds, quantity : Int]), ValidItems(items)
    PROVE  IsBasket(NormalizeItems(items)) /\ NormalizeItems(items) # EmptyBasket
<1> DEFINE n == Len(items)
<1>1. /\ n \in Nat /\ DOMAIN items = 1..n /\ n # 0
      /\ \A i \in 1..n : items[i].productId \in ProductIds /\ items[i].quantity \in Nat \ {0}
  <2>1. n \in Nat /\ DOMAIN items = 1..n
    OBVIOUS
  <2>2. n # 0
    BY BodyHasItems DEF ValidItems
  <2>3. \A i \in 1..n : items[i] \in [productId : ProductIds, quantity : Int]
    BY BodyHasItems
  <2>4. \A i \in 1..n : items[i].quantity \in Nat \ {0}
    BY <2>1 DEF ValidItems
  <2> QED
    BY <2>1, <2>2, <2>3, <2>4
<1>2. PICK b : IsLoop(b, items) /\ NormalizeItems(items) = b[n]
  BY <1>1, NormalizeIsLoop
<1> DEFINE Good(m) == IsBasket(b[m]) /\ (m # 0 => DOMAIN b[m] # {})
           B == {m \in 0..n : ~Good(m)}
<1>3. Good(0)
  BY <1>1, <1>2, EmptyIsTyped DEF IsLoop
<1>4. ASSUME NEW m \in 1..n, IsBasket(b[m - 1])
      PROVE  Good(m)
  <2>1. b[m] = AddItem(b[m - 1], items[m])
    BY <1>1, <1>2 DEF IsLoop
  <2>2. items[m].productId \in ProductIds /\ items[m].quantity \in Nat \ {0}
    BY <1>1
  <2>3. IsBasket(AddItem(b[m - 1], items[m])) /\ DOMAIN AddItem(b[m - 1], items[m]) # {}
    BY <1>4, <2>2 DEF IsBasket, AddItem, QuantityOf
  <2> QED
    BY <2>1, <2>3
<1> HIDE DEF Good
<1>5. B = {}
  <2> SUFFICES ASSUME B # {} PROVE FALSE
    OBVIOUS
  <2>0. B \subseteq Nat
    BY <1>1
  <2>1. PICK m \in B : \A i \in B : m <= i
    BY <2>0, LeastNumber
  <2>2. m \in 0..n /\ ~Good(m) /\ m # 0
    BY <1>3
  <2>3. m \in 1..n /\ m - 1 \in 0..n /\ ~(m <= m - 1)
    BY <1>1, <2>2
  <2>4. Good(m - 1)
    BY <2>1, <2>3
  <2> QED
    BY <1>4, <2>2, <2>3, <2>4 DEF Good
<1>6. Good(n)
  BY <1>1, <1>5
<1> QED
  BY <1>1, <1>2, <1>6 DEF Good, EmptyBasket

\* Every payload a handler takes makes a basket.
LEMMA ReceivedBasket ==
    ASSUME NEW r \in Requests, NEW payload \in Payloads, Receive(r, payload)
    PROVE  IsBasket(NormalizeItems(payload.items)) /\ NormalizeItems(payload.items) # EmptyBasket
BY PayloadsAssumption, ValidItemsMakeBasket DEF Receive

\* The tables and handlers start well typed.
LEMMA InitTyped == Init => TypeOK
<1> SUFFICES ASSUME Init PROVE TypeOK
  OBVIOUS
<1>1. InitialStock \in [Catalog -> Nat]
  BY CatalogAssumption, IntAssumption
<1> QED
  BY <1>1, EmptyIsTyped DEF Init, TypeOK, Phases, InFlight, HoldsConnection,
     InTransaction, Failures, Statuses

\* Answering keeps the answers well-formed.
LEMMA AnswerTyped ==
    ASSUME TypeOK, NEW r \in Requests, NEW s \in Statuses, NEW o,
           o = NoOrder \/ IsOrder(o), Answer(r, s, o)
    PROVE  /\ DOMAIN resp' = Requests
           /\ \A q \in Requests :
                 /\ resp'[q] \in [status : Statuses, order : {resp'[q].order}]
                 /\ resp'[q].order = NoOrder \/ IsOrder(resp'[q].order)
BY DEF TypeOK, Answer

\* The end of a transaction keeps the types.
LEMMA EndTransactionTyped ==
    ASSUME TypeOK, NEW r \in Requests, EndTransaction(r)
    PROVE  /\ lock' \in [Catalog -> Requests \cup {None}]
           /\ DOMAIN written' = Requests /\ \A q \in Requests : IsView(written'[q])
           /\ DOMAIN draft' = Requests
           /\ \A q \in Requests : draft'[q] = NoOrder \/ IsOrder(draft'[q])
           /\ DOMAIN seen' = Requests /\ \A q \in Requests : IsView(seen'[q])
BY EmptyIsTyped DEF TypeOK, EndTransaction

\* So does a commit: what is written is a natural number.
LEMMA ApplyTyped ==
    ASSUME TypeOK, DraftsMatchHandlers, NEW r \in Requests, pc[r] = "commit",
           ApplyTransaction(r)
    PROVE  /\ stock' \in [Catalog -> Nat]
           /\ \A o \in orders' : IsOrder(o)
<1>1. draft[r].id = r
  BY DEF DraftsMatchHandlers
<1>2. draft[r] # NoOrder
  BY <1>1, NoneAssumption DEF NoOrder
<1> QED
  BY <1>2 DEF TypeOK, ApplyTransaction, IsView

\* Every step keeps the types; stock stays natural because the checks hold at COMMIT.
LEMMA NextTyped ==
    ASSUME IInv, [Next]_vars
    PROVE  TypeOK'
<1> USE DEF Phases, InFlight, HoldsConnection, InTransaction, Failures, Statuses
<1>0. TypeOK /\ DraftsMatchHandlers /\ InputsAreSound
  BY DEF IInv
<1>1. CASE UNCHANGED vars
  BY <1>0, <1>1 DEF TypeOK, vars
<1>2. ASSUME NEW r \in Requests, NEW payload \in Payloads, Receive(r, payload)
      PROVE TypeOK'
  BY <1>0, <1>2, ReceivedBasket DEF TypeOK, Receive, dbVars
<1>3. ASSUME NEW r \in Requests, NEW payload \in Payloads, RejectPayload(r, payload)
      PROVE TypeOK'
  BY <1>0, <1>3, AnswerTyped DEF TypeOK, RejectPayload, dbVars, handlerVars
<1>4. ASSUME NEW r \in Requests, LookupHit(r)
      PROVE TypeOK'
  BY <1>0, <1>4, AnswerTyped DEF TypeOK, LookupHit, OrdersWithKey, dbVars, handlerVars
<1>5. ASSUME NEW r \in Requests, LookupMiss(r) \/ Connect(r) \/ BeginTransaction(r)
      PROVE TypeOK'
  BY <1>0, <1>5 DEF TypeOK, LookupMiss, Connect, BeginTransaction, dbVars, handlerVars
<1>6. ASSUME NEW r \in Requests, NEW p \in Catalog, LockRow(r, p)
      PROVE TypeOK'
  BY <1>0, <1>6 DEF TypeOK, LockRow, WithRow, IsView
<1>7. ASSUME NEW r \in Requests, RejectItems(r)
      PROVE TypeOK'
  BY <1>0, <1>7 DEF TypeOK, RejectItems, dbVars
<1>8. ASSUME NEW r \in Requests, SaveProducts(r)
      PROVE TypeOK'
  <2>1. IsView([p \in DOMAIN basket[r] |-> seen[r][p] - basket[r][p]])
    BY <1>0, <1>8 DEF TypeOK, SaveProducts, MissingProducts, OutOfStockItems, IsView,
       IsBasket
  <2> QED
    BY <1>0, <1>8, <2>1 DEF TypeOK, SaveProducts, handlerVars
<1>9. ASSUME NEW r \in Requests, InsertOrder(r)
      PROVE TypeOK'
  <2>1. IsOrder([id |-> r, key |-> key[r], lines |-> EmptyBasket, total |-> OrderTotal(r)])
    BY <1>0, <1>9, EmptyIsTyped DEF InsertOrder, IsOrder, InputsAreSound
  <2> QED
    BY <1>0, <1>9, <2>1 DEF TypeOK, InsertOrder, handlerVars
<1>10. ASSUME NEW r \in Requests, NEW e \in Failures, FailStatement(r, e)
       PROVE TypeOK'
  BY <1>0, <1>10, EndTransactionTyped DEF TypeOK, FailStatement
<1>11. ASSUME NEW r \in Requests, SaveItems(r)
       PROVE TypeOK'
  <2>1. IsOrder(WithLines(draft[r], basket[r]))
    BY <1>0, <1>11 DEF TypeOK, SaveItems, DraftsMatchHandlers, WithLines, IsOrder,
       InputsAreSound
  <2> QED
    BY <1>0, <1>11, <2>1 DEF TypeOK, SaveItems
<1>12. ASSUME NEW r \in Requests, Commit(r)
       PROVE TypeOK'
  BY <1>0, <1>12, EndTransactionTyped, ApplyTyped DEF TypeOK, Commit, ApplyTransaction
<1>13. ASSUME NEW r \in Requests, Rollback(r)
       PROVE TypeOK'
  BY <1>0, <1>13, EndTransactionTyped DEF TypeOK, Rollback
<1>14. ASSUME NEW r \in Requests, Release(r)
       PROVE TypeOK'
  <2>1. /\ failure[r] \in Statuses \cup {"none", "DuplicateKey"}
        /\ created[r] = NoOrder \/ IsOrder(created[r])
        /\ NoOrder = NoOrder \/ IsOrder(NoOrder)
    BY <1>0 DEF TypeOK
  <2>2. /\ DOMAIN resp' = Requests
        /\ \A q \in Requests :
              /\ resp'[q] \in [status : Statuses, order : {resp'[q].order}]
              /\ resp'[q].order = NoOrder \/ IsOrder(resp'[q].order)
    <3>1. CASE UNCHANGED resp
      BY <1>0, <3>1 DEF TypeOK
    <3>2. CASE Answer(r, "Created", created[r])
      BY <1>0, <2>1, <3>2, AnswerTyped
    <3>3. CASE failure[r] \notin {"none", "DuplicateKey"} /\ Answer(r, failure[r], NoOrder)
      BY <1>0, <2>1, <3>3, AnswerTyped
    <3> QED
      BY <1>14, <3>1, <3>2, <3>3 DEF Release
  <2> QED
    BY <1>0, <1>14, <2>2 DEF TypeOK, Release, handlerVars, dbVars
<1>15. ASSUME NEW r \in Requests, Relookup(r)
       PROVE TypeOK'
  BY <1>0, <1>15, AnswerTyped DEF TypeOK, Relookup, OrdersWithKey, handlerVars, dbVars
<1>16. ASSUME NEW r \in Requests, QueryFails(r) \/ BeginFails(r)
       PROVE TypeOK'
  BY <1>0, <1>16, AnswerTyped DEF TypeOK, QueryFails, BeginFails, handlerVars, dbVars
<1>17. ASSUME NEW r \in Requests, LoseConnection(r)
       PROVE TypeOK'
  BY <1>0, <1>17, AnswerTyped, EndTransactionTyped DEF TypeOK, LoseConnection
<1>18. ASSUME NEW r \in Requests, LoseCommitAck(r)
       PROVE TypeOK'
  BY <1>0, <1>18, AnswerTyped, EndTransactionTyped, ApplyTyped DEF TypeOK,
     LoseCommitAck, ApplyTransaction
<1>19. ASSUME NEW r \in Requests, Timeout(r)
       PROVE TypeOK'
  BY <1>0, <1>19, AnswerTyped DEF TypeOK, Timeout, handlerVars, dbVars
<1>20. CASE Crash
  BY <1>0, <1>20, EmptyIsTyped DEF TypeOK, Crash
<1> QED
  BY <1>1, <1>2, <1>3, <1>4, <1>5, <1>6, <1>7, <1>8, <1>9, <1>10, <1>11, <1>12, <1>13,
     <1>14, <1>15, <1>16, <1>17, <1>18, <1>19, <1>20
  DEF Next, Progress, InsertDuplicate, InsertOverflow, DeadlockAbort, Quiescent
-----------------------------------------------------------------------------
(* Row locks *)

\* What a step does to the rows: nothing, one more lock, the end of a transaction
\* with or without its effects, or the end of all of them.
LEMMA RowSteps ==
    ASSUME [Next]_vars
    PROVE  \/ UNCHANGED <<stock, lock, seen>>
           \/ \E r \in Requests, p \in Catalog : LockRow(r, p)
           \/ \E r \in Requests : EndTransaction(r) /\ UNCHANGED stock
           \/ \E r \in Requests : pc[r] = "commit" /\ ApplyTransaction(r)
           \/ Crash
BY DEF Next, Progress, vars, handlerVars, dbVars, Receive, RejectPayload, LookupHit,
       LookupMiss, Connect, BeginTransaction, RejectItems, SaveProducts, InsertOrder,
       InsertDuplicate, InsertOverflow, FailStatement, SaveItems, Commit, Rollback,
       Release, Relookup, DeadlockAbort, QueryFails, BeginFails, LoseConnection,
       LoseCommitAck, Timeout, Quiescent

\* Locks and copies are taken together and given up together.
LEMMA LocksInductive ==
    ASSUME IInv, [Next]_vars
    PROVE  LocksMatchReads' /\ HeldRowsAreFresh'
<1>0. /\ TypeOK /\ LocksMatchReads /\ HeldRowsAreFresh /\ WritesMatchReads
      /\ None \notin Requests
  BY NoneAssumption DEF IInv
<1>1. CASE UNCHANGED <<stock, lock, seen>>
  BY <1>0, <1>1 DEF LocksMatchReads, HeldRowsAreFresh
<1>2. ASSUME NEW r \in Requests, NEW p \in Catalog, LockRow(r, p)
      PROVE  LocksMatchReads' /\ HeldRowsAreFresh'
  BY <1>0, <1>2 DEF TypeOK, IsView, LocksMatchReads, HeldRowsAreFresh, LockRow, WithRow
<1>3. ASSUME NEW r \in Requests, EndTransaction(r)
      PROVE  /\ LocksMatchReads'
             /\ \A q \in Requests : \A p \in DOMAIN seen'[q] :
                   q # r /\ p \in DOMAIN seen[q] /\ lock'[p] = q /\ seen'[q][p] = stock[p]
  BY <1>0, <1>3 DEF TypeOK, IsView, LocksMatchReads, HeldRowsAreFresh, EndTransaction,
     EmptyView
<1>4. ASSUME NEW r \in Requests, EndTransaction(r), UNCHANGED stock
      PROVE  LocksMatchReads' /\ HeldRowsAreFresh'
  BY <1>3, <1>4 DEF HeldRowsAreFresh
<1>5. ASSUME NEW r \in Requests, pc[r] = "commit", ApplyTransaction(r)
      PROVE  LocksMatchReads' /\ HeldRowsAreFresh'
  <2>1. EndTransaction(r)
    BY <1>5 DEF ApplyTransaction
  <2>2. \A p \in DOMAIN written[r] : lock[p] = r
    BY <1>0, <1>5 DEF WritesMatchReads, HeldRowsAreFresh
  <2>3. ASSUME NEW q \in Requests, NEW p \in DOMAIN seen'[q]
        PROVE  lock'[p] = q /\ seen'[q][p] = stock'[p]
    <3>1. q # r /\ p \in DOMAIN seen[q] /\ lock'[p] = q /\ seen'[q][p] = stock[p]
      BY <1>3, <2>1, <2>3
    <3>2. p \in Catalog /\ lock[p] = q
      BY <1>0, <3>1 DEF TypeOK, IsView, HeldRowsAreFresh
    <3>3. stock'[p] = stock[p]
      BY <1>5, <2>2, <3>1, <3>2 DEF ApplyTransaction
    <3> QED
      BY <3>1, <3>3
  <2> QED
    BY <1>3, <2>1, <2>3 DEF HeldRowsAreFresh
<1>6. CASE Crash
  BY <1>0, <1>6 DEF TypeOK, LocksMatchReads, HeldRowsAreFresh, Crash, EmptyView
<1> QED
  BY <1>1, <1>2, <1>4, <1>5, <1>6, RowSteps
-----------------------------------------------------------------------------
(* One handler at a time *)

\* The steps of handler r.
Step(r) ==
    \/ \E payload \in Payloads : Receive(r, payload) \/ RejectPayload(r, payload)
    \/ Progress(r)
    \/ QueryFails(r)
    \/ BeginFails(r)
    \/ LoseConnection(r)
    \/ LoseCommitAck(r)
    \/ Timeout(r)

\* Every step is some handler's, or a crash, or none.
LEMMA NextIsSteps ==
    ASSUME [Next]_vars
    PROVE  UNCHANGED vars \/ Crash \/ \E r \in Requests : Step(r)
BY DEF Next, Step, Quiescent

\* A step of one handler leaves the others alone.
LEMMA Frame ==
    ASSUME TypeOK, NEW r \in Requests, Step(r), NEW q \in Requests \ {r}
    PROVE  /\ pc'[q] = pc[q] /\ key'[q] = key[q] /\ basket'[q] = basket[q]
           /\ seen'[q] = seen[q] /\ written'[q] = written[q] /\ draft'[q] = draft[q]
           /\ failure'[q] = failure[q] /\ created'[q] = created[q]
           /\ resp'[q] = resp[q]
           /\ q \in conn' <=> q \in conn
<1> USE DEF TypeOK, handlerVars, dbVars, Answer, EndTransaction
<1>1. CASE \E payload \in Payloads : Receive(r, payload) \/ RejectPayload(r, payload)
  BY <1>1 DEF Receive, RejectPayload
<1>2. CASE LookupHit(r) \/ LookupMiss(r) \/ Connect(r) \/ BeginTransaction(r)
  BY <1>2 DEF LookupHit, LookupMiss, Connect, BeginTransaction
<1>3. CASE (\E p \in Catalog : LockRow(r, p)) \/ RejectItems(r) \/ SaveProducts(r)
  BY <1>3 DEF LockRow, RejectItems, SaveProducts
<1>4. CASE InsertOrder(r) \/ SaveItems(r)
  BY <1>4 DEF InsertOrder, SaveItems
<1>5. CASE InsertDuplicate(r) \/ InsertOverflow(r) \/ DeadlockAbort(r)
  BY <1>5 DEF InsertDuplicate, InsertOverflow, DeadlockAbort, FailStatement
<1>6. CASE Commit(r) \/ Rollback(r)
  BY <1>6 DEF Commit, Rollback, ApplyTransaction
<1>7. CASE Release(r) \/ Relookup(r)
  BY <1>7 DEF Release, Relookup
<1>8. CASE QueryFails(r) \/ BeginFails(r) \/ LoseConnection(r) \/ LoseCommitAck(r)
           \/ Timeout(r)
  BY <1>8 DEF QueryFails, BeginFails, LoseConnection, LoseCommitAck, Timeout,
     ApplyTransaction
<1> QED
  BY <1>1, <1>2, <1>3, <1>4, <1>5, <1>6, <1>7, <1>8 DEF Step, Progress

\* What the checks established lasts until the transaction ends.
LEMMA WritesInductive ==
    ASSUME IInv, [Next]_vars
    PROVE  WritesMatchReads'
<1>0. TypeOK /\ WritesMatchReads
  BY DEF IInv
<1>1. CASE UNCHANGED vars
  BY <1>0, <1>1 DEF vars, WritesMatchReads
<1>2. CASE Crash
  BY <1>0, <1>2 DEF TypeOK, Crash, WritesMatchReads, InFlight, HoldsConnection,
     InTransaction
<1>3. ASSUME NEW r \in Requests, Step(r)
      PROVE  WritesMatchReads'
  <2>1. ASSUME pc'[r] \in {"insert", "items", "commit"}
        PROVE  \/ SaveProducts(r)
               \/ /\ pc[r] \in {"insert", "items", "commit"}
                  /\ UNCHANGED <<basket, seen, written>>
    <3> USE DEF TypeOK, handlerVars, dbVars
    <3>1. CASE \E payload \in Payloads : Receive(r, payload) \/ RejectPayload(r, payload)
      BY <1>0, <2>1, <3>1 DEF Receive, RejectPayload
    <3>2. CASE LookupHit(r) \/ LookupMiss(r) \/ Connect(r) \/ BeginTransaction(r)
               \/ RejectItems(r)
      BY <1>0, <2>1, <3>2 DEF LookupHit, LookupMiss, Connect, BeginTransaction,
         RejectItems
    <3>3. CASE (\E p \in Catalog : LockRow(r, p)) \/ SaveProducts(r)
      BY <1>0, <2>1, <3>3 DEF LockRow
    <3>4. CASE InsertOrder(r) \/ SaveItems(r)
      BY <1>0, <2>1, <3>4 DEF InsertOrder, SaveItems
    <3>5. CASE InsertDuplicate(r) \/ InsertOverflow(r) \/ DeadlockAbort(r)
      BY <1>0, <2>1, <3>5 DEF InsertDuplicate, InsertOverflow, DeadlockAbort,
         FailStatement
    <3>6. CASE Commit(r) \/ Rollback(r) \/ Release(r) \/ Relookup(r)
      BY <1>0, <2>1, <3>6 DEF Commit, Rollback, Release, Relookup
    <3>7. CASE QueryFails(r) \/ BeginFails(r) \/ LoseConnection(r)
               \/ LoseCommitAck(r) \/ Timeout(r)
      BY <1>0, <2>1, <3>7 DEF QueryFails, BeginFails, LoseConnection, LoseCommitAck,
         Timeout
    <3> QED
      BY <1>3, <3>1, <3>2, <3>3, <3>4, <3>5, <3>6, <3>7 DEF Step, Progress
  <2>2. ASSUME SaveProducts(r)
        PROVE  /\ UNCHANGED <<basket, seen>>
               /\ DOMAIN basket[r] \subseteq DOMAIN seen[r]
               /\ SameCurrency(DOMAIN basket[r], Currency)
               /\ \A p \in DOMAIN basket[r] : basket[r][p] <= seen[r][p]
               /\ written'[r] = [p \in DOMAIN basket[r] |-> seen[r][p] - basket[r][p]]
    BY <1>0, <2>2 DEF TypeOK, IsView, IsBasket, SaveProducts, MissingProducts,
       OutOfStockItems, SameCurrency, handlerVars
  <2>3. ASSUME NEW q \in Requests, q # r
        PROVE  /\ pc'[q] = pc[q] /\ basket'[q] = basket[q]
               /\ seen'[q] = seen[q] /\ written'[q] = written[q]
    BY <1>0, <1>3, <2>3, Frame
  <2> QED
    BY <1>0, <2>1, <2>2, <2>3 DEF WritesMatchReads
<1> QED
  BY <1>1, <1>2, <1>3, NextIsSteps

\* A handler in flight has a key and a basket.
LEMMA InputsInductive ==
    ASSUME IInv, [Next]_vars
    PROVE  InputsAreSound'
<1>0. TypeOK /\ InputsAreSound
  BY DEF IInv
<1>1. CASE UNCHANGED vars
  BY <1>0, <1>1 DEF vars, InputsAreSound
<1>2. CASE Crash
  BY <1>0, <1>2 DEF TypeOK, Crash, InputsAreSound, InFlight, HoldsConnection,
     InTransaction
<1>3. ASSUME NEW r \in Requests, Step(r)
      PROVE  InputsAreSound'
  <2>1. \/ \E payload \in Payloads : Receive(r, payload)
        \/ pc'[r] \notin InFlight
        \/ pc[r] \in InFlight /\ UNCHANGED <<key, basket>>
    BY <1>0, <1>3 DEF TypeOK, handlerVars, dbVars, InFlight, HoldsConnection,
       InTransaction, Step, Progress, RejectPayload, LookupHit, LookupMiss, Connect,
       BeginTransaction, LockRow, RejectItems, SaveProducts, InsertOrder,
       InsertDuplicate, InsertOverflow, FailStatement, SaveItems, Commit, Rollback,
       Release, Relookup, DeadlockAbort, QueryFails, BeginFails, LoseConnection,
       LoseCommitAck, Timeout
  <2>2. ASSUME NEW payload \in Payloads, Receive(r, payload)
        PROVE  key'[r] \in Keys /\ DOMAIN basket'[r] # {}
    <3>1. key'[r] = payload.key /\ payload.key \in Keys
      BY <1>0, <2>2 DEF TypeOK, Receive
    <3>2. basket'[r] = NormalizeItems(payload.items)
      BY <1>0, <2>2 DEF TypeOK, Receive
    <3>3. IsBasket(basket'[r]) /\ basket'[r] # EmptyBasket
      BY <2>2, <3>2, ReceivedBasket DEF Receive
    <3>4. ASSUME DOMAIN basket'[r] = {} PROVE FALSE
      <4>1. basket'[r] \in [{} -> Nat \ {0}]
        BY <3>3, <3>4 DEF IsBasket
      <4> QED
        BY <3>3, <4>1 DEF EmptyBasket
    <3> QED
      BY <3>1, <3>4
  <2>3. ASSUME NEW q \in Requests, q # r
        PROVE  pc'[q] = pc[q] /\ basket'[q] = basket[q] /\ key'[q] = key[q]
    BY <1>0, <1>3, <2>3, Frame
  <2> QED
    BY <1>0, <2>1, <2>2, <2>3 DEF InputsAreSound
<1> QED
  BY <1>1, <1>2, <1>3, NextIsSteps
-----------------------------------------------------------------------------
(* Orders, committed and not *)

\* The uncommitted order is the handler's own.
LEMMA DraftsInductive ==
    ASSUME IInv, [Next]_vars
    PROVE  DraftsMatchHandlers'
<1>0. TypeOK /\ DraftsMatchHandlers
  BY DEF IInv
<1>1. CASE UNCHANGED vars
  BY <1>0, <1>1 DEF vars, DraftsMatchHandlers, OrderTotal
<1>2. CASE Crash
  BY <1>0, <1>2 DEF TypeOK, Crash, DraftsMatchHandlers, InFlight, HoldsConnection,
     InTransaction
<1>3. ASSUME NEW r \in Requests, Step(r)
      PROVE  DraftsMatchHandlers'
  <2>1. \/ pc'[r] \notin {"items", "commit"} /\ draft'[r] = NoOrder
        \/ pc'[r] = pc[r] /\ UNCHANGED <<draft, key, basket, created>>
        \/ InsertOrder(r)
        \/ SaveItems(r)
    BY <1>0, <1>3 DEF DraftsMatchHandlers, TypeOK, handlerVars, dbVars, Step, Progress,
       Receive, RejectPayload, LookupHit, LookupMiss, Connect, BeginTransaction,
       LockRow, RejectItems, SaveProducts, InsertDuplicate, InsertOverflow,
       FailStatement, EndTransaction, ApplyTransaction, Commit, Rollback, Release,
       Relookup, DeadlockAbort, QueryFails, BeginFails, LoseConnection, LoseCommitAck,
       Timeout
  <2>2. ASSUME InsertOrder(r)
        PROVE  /\ pc'[r] = "items" /\ OrderTotal(r) \in IntColumn
               /\ UNCHANGED <<key, basket>>
               /\ draft'[r].id = r /\ draft'[r].key = key[r]
               /\ draft'[r].total = OrderTotal(r)
    BY <1>0, <2>2 DEF TypeOK, InsertOrder, handlerVars
  <2>3. ASSUME SaveItems(r)
        PROVE  /\ pc[r] = "items" /\ pc'[r] = "commit"
               /\ UNCHANGED <<key, basket>>
               /\ draft'[r] = WithLines(draft[r], basket[r])
               /\ created'[r] = draft'[r]
    BY <1>0, <2>3 DEF TypeOK, SaveItems
  <2>4. ASSUME NEW q \in Requests, q # r
        PROVE  /\ pc'[q] = pc[q] /\ basket'[q] = basket[q] /\ key'[q] = key[q]
               /\ draft'[q] = draft[q] /\ created'[q] = created[q]
    BY <1>0, <1>3, <2>4, Frame
  <2> QED
    BY <1>0, <2>1, <2>2, <2>3, <2>4 DEF DraftsMatchHandlers, OrderTotal, WithLines
<1> QED
  BY <1>1, <1>2, <1>3, NextIsSteps

\* The table of orders changes only at a COMMIT, by one order.
LEMMA OrderSteps ==
    ASSUME IInv, NEW r \in Requests, Step(r)
    PROVE  \/ UNCHANGED <<stock, orders>>
           \/ /\ pc[r] = "commit" /\ ApplyTransaction(r)
              /\ \/ Commit(r)
                 \/ LoseCommitAck(r)
BY DEF Step, Progress, handlerVars, dbVars,
   Receive, RejectPayload, LookupHit, LookupMiss, Connect, BeginTransaction, LockRow,
   RejectItems, SaveProducts, InsertOrder, InsertDuplicate, InsertOverflow,
   FailStatement, SaveItems, Commit, Rollback, Release, Relookup, DeadlockAbort,
   QueryFails, BeginFails, LoseConnection, LoseCommitAck, Timeout

\* The order a COMMIT adds: r's own, whole, and under a key of its own.
LEMMA CommittedOrder ==
    ASSUME IInv, NEW r \in Requests, pc[r] = "commit", ApplyTransaction(r)
    PROVE  /\ orders' = orders \cup {draft[r]}
           /\ IsOrder(draft[r])
           /\ draft[r].id = r
           /\ draft[r].key = key[r]
           /\ draft[r].lines = basket[r]
           /\ draft[r].total = OrderTotal(r)
           /\ draft[r].total \in IntColumn
           /\ created[r] = draft[r]
           /\ \A o \in orders : o.id # r /\ o.key # key[r]
<1>1. /\ draft[r].id = r /\ draft[r].key = key[r] /\ draft[r].lines = basket[r]
      /\ draft[r].total = OrderTotal(r) /\ OrderTotal(r) \in IntColumn
      /\ created[r] = draft[r]
  BY DEF IInv, DraftsMatchHandlers
<1>2. IsOrder(draft[r])
  BY <1>1, NoneAssumption DEF IInv, TypeOK, NoOrder
<1>3. \A o \in orders : o.id # r /\ o.key # key[r]
  BY DEF IInv, OrdersMatchHandlers, KeysAreExclusive
<1> QED
  BY <1>1, <1>2, <1>3 DEF ApplyTransaction

\* The unique index lets an order in only if no other has its key.
LEMMA KeysInductive ==
    ASSUME IInv, [Next]_vars
    PROVE  KeysAreExclusive' /\ OneOrderPerKey'
<1>0. TypeOK /\ KeysAreExclusive /\ OneOrderPerKey /\ DraftsMatchHandlers
  BY DEF IInv
<1>1. CASE UNCHANGED vars
  BY <1>0, <1>1 DEF vars, KeysAreExclusive, OneOrderPerKey
<1>2. CASE Crash
  BY <1>0, <1>2 DEF TypeOK, Crash, KeysAreExclusive, OneOrderPerKey, InFlight,
     HoldsConnection, InTransaction
<1>3. ASSUME NEW r \in Requests, Step(r)
      PROVE  KeysAreExclusive' /\ OneOrderPerKey'
  <2>1. ASSUME NEW q \in Requests, q # r
        PROVE  pc'[q] = pc[q] /\ key'[q] = key[q]
    BY <1>0, <1>3, <2>1, Frame
  <2>2. CASE pc[r] = "commit" /\ ApplyTransaction(r) /\ (Commit(r) \/ LoseCommitAck(r))
    <3>1. pc'[r] \notin {"items", "commit"}
      BY <1>0, <2>2 DEF TypeOK, Commit, LoseCommitAck
    <3>2. /\ orders' = orders \cup {draft[r]} /\ draft[r].key = key[r]
          /\ \A o \in orders : o.key # key[r]
      BY <2>2, CommittedOrder
    <3>3. \A q \in Requests \ {r} : pc[q] \in {"items", "commit"} => key[q] # key[r]
      BY <1>0, <2>2 DEF KeysAreExclusive
    <3> QED
      BY <1>0, <2>1, <3>1, <3>2, <3>3 DEF KeysAreExclusive, OneOrderPerKey
  <2>3. CASE UNCHANGED <<stock, orders>>
    <3>1. \/ pc'[r] \notin {"items", "commit"}
          \/ pc[r] \in {"items", "commit"} /\ UNCHANGED key
          \/ InsertOrder(r)
      BY <1>0, <1>3 DEF TypeOK, handlerVars, dbVars, Step, Progress,
         Receive, RejectPayload, LookupHit, LookupMiss, Connect, BeginTransaction,
         LockRow, RejectItems, SaveProducts, InsertDuplicate, InsertOverflow,
         FailStatement, SaveItems, Commit, Rollback, Release, Relookup, DeadlockAbort,
         QueryFails, BeginFails, LoseConnection, LoseCommitAck, Timeout
    <3>2. ASSUME InsertOrder(r)
          PROVE  /\ UNCHANGED key
                 /\ \A o \in orders : o.key # key[r]
                 /\ \A q \in Requests \ {r} : pc[q] \in {"items", "commit"} => key[q] # key[r]
      <4>1. ASSUME NEW q \in Requests \ {r}, pc[q] \in {"items", "commit"}
            PROVE  key[q] # key[r]
        <5>1. draft[q].id = q /\ draft[q].key = key[q]
          BY <1>0, <4>1 DEF DraftsMatchHandlers
        <5>2. draft[q] # NoOrder
          BY <5>1, NoneAssumption DEF NoOrder
        <5> QED
          BY <3>2, <5>1, <5>2 DEF InsertOrder, KeyPending
      <4> QED
        BY <3>2, <4>1 DEF InsertOrder, OrdersWithKey, handlerVars
    <3> QED
      BY <1>0, <2>1, <2>3, <3>1, <3>2 DEF KeysAreExclusive, OneOrderPerKey
  <2> QED
    BY <1>3, <2>2, <2>3, OrderSteps
<1> QED
  BY <1>1, <1>2, <1>3, NextIsSteps
\* Orders appear at their handler's COMMIT.
LEMMA HandlersInductive ==
    ASSUME IInv, [Next]_vars
    PROVE  OrdersMatchHandlers'
<1>0. TypeOK /\ OrdersMatchHandlers /\ \A o \in orders : o.id \in Requests
  BY NoOrderIsNone DEF IInv, TypeOK
<1>1. CASE UNCHANGED vars
  BY <1>0, <1>1 DEF vars, OrdersMatchHandlers
<1>2. CASE Crash
  BY <1>0, <1>2 DEF TypeOK, Crash, OrdersMatchHandlers, InFlight, HoldsConnection,
     InTransaction
<1>3. ASSUME NEW r \in Requests, Step(r)
      PROVE  OrdersMatchHandlers'
  <2> DEFINE Early == {"idle", "lookup", "connect", "begin", "lock", "insert", "items",
     "commit"}
             Sound(q) ==
                 /\ pc[q] \in Early => failure[q] = "none"
                 /\ pc[q] \in {"rollback", "relookup"} => failure[q] # "none"
                 /\ pc[q] = "release" /\ failure[q] = "none" =>
                       /\ created[q] \in orders
                       /\ created[q].id = q /\ created[q].key = key[q]
                       /\ created[q].lines = basket[q]
             Over(q) == pc[q] \in {"done", "dead"} \/ (pc[q] = "release" /\ failure[q] = "none")
  <2>1. ASSUME NEW q \in Requests, q # r
        PROVE  /\ pc'[q] = pc[q] /\ basket'[q] = basket[q] /\ key'[q] = key[q]
               /\ failure'[q] = failure[q] /\ created'[q] = created[q]
    BY <1>0, <1>3, <2>1, Frame
  <2>2. CASE pc[r] = "commit" /\ ApplyTransaction(r) /\ (Commit(r) \/ LoseCommitAck(r))
    <3>1. /\ orders' = orders \cup {draft[r]} /\ draft[r].id = r /\ draft[r].key = key[r]
          /\ draft[r].lines = basket[r] /\ created[r] = draft[r]
      BY <2>2, CommittedOrder
    <3>2. /\ pc'[r] \in {"release", "done"}
          /\ UNCHANGED <<key, basket, failure, created>>
      BY <1>0, <2>2 DEF TypeOK, Commit, LoseCommitAck
    <3>3. failure[r] = "none"
      BY <1>0, <2>2 DEF OrdersMatchHandlers
    <3> QED
      BY <1>0, <2>1, <3>1, <3>2, <3>3 DEF OrdersMatchHandlers
  <2>3. CASE UNCHANGED <<stock, orders>>
    <3>1. Over(r) => Over(r)'
      <4> USE <1>0, <1>3 DEF TypeOK, OrdersMatchHandlers
      <4>1. CASE pc[r] \in {"done", "dead"}
        BY <4>1 DEF handlerVars, dbVars, Step, Progress, InFlight, HoldsConnection,
           InTransaction, Receive, RejectPayload, LookupHit, LookupMiss, Connect,
           BeginTransaction, LockRow, RejectItems, SaveProducts, InsertOrder,
           InsertDuplicate, InsertOverflow, FailStatement, SaveItems, Commit, Rollback,
           Release, Relookup, DeadlockAbort, QueryFails, BeginFails, LoseConnection,
           LoseCommitAck, Timeout
      <4>2. CASE pc[r] = "release" /\ failure[r] = "none"
        <5>1. Release(r) \/ Timeout(r)
          BY <4>2 DEF Step, Progress, InTransaction,
             Receive, RejectPayload, LookupHit, LookupMiss, Connect, BeginTransaction,
             LockRow, RejectItems, SaveProducts, InsertOrder, InsertDuplicate,
             InsertOverflow, FailStatement, SaveItems, Commit, Rollback, Relookup,
             DeadlockAbort, QueryFails, BeginFails, LoseConnection, LoseCommitAck
        <5> QED
          BY <4>2, <5>1 DEF Release, Timeout, handlerVars
      <4> QED
        BY <4>1, <4>2
    <3>2. Sound(r)'
      <4> USE <1>0, <1>3, <2>3 DEF TypeOK, OrdersMatchHandlers, handlerVars, dbVars
      <4>1. CASE \E payload \in Payloads : Receive(r, payload)
                 \/ RejectPayload(r, payload)
        BY <4>1 DEF Receive, RejectPayload
      <4>2. CASE LookupHit(r) \/ LookupMiss(r) \/ Connect(r) \/ BeginTransaction(r)
        BY <4>2 DEF LookupHit, LookupMiss, Connect, BeginTransaction
      <4>3. CASE (\E p \in Catalog : LockRow(r, p)) \/ RejectItems(r) \/ SaveProducts(r)
        BY <4>3 DEF LockRow, RejectItems, SaveProducts
      <4>4. CASE InsertOrder(r) \/ SaveItems(r)
        BY <4>4 DEF InsertOrder, SaveItems
      <4>5. CASE InsertDuplicate(r) \/ InsertOverflow(r) \/ DeadlockAbort(r)
        BY <4>5 DEF InsertDuplicate, InsertOverflow, DeadlockAbort, FailStatement
      <4>6. CASE Rollback(r) \/ Release(r) \/ Relookup(r)
        BY <4>6 DEF Rollback, Release, Relookup
      <4>7. CASE QueryFails(r) \/ BeginFails(r) \/ LoseConnection(r) \/ Timeout(r)
        BY <4>7 DEF QueryFails, BeginFails, LoseConnection, Timeout
      <4>8. CASE Commit(r) \/ LoseCommitAck(r)
        <5>1. /\ pc[r] = "commit" /\ ApplyTransaction(r)
              /\ UNCHANGED <<key, basket, failure, created>>
              /\ pc'[r] \in {"release", "done"}
          BY <4>8 DEF Commit, LoseCommitAck
        <5>2. created[r] = draft[r] /\ draft[r] \in orders' /\ draft[r].id = r
              /\ draft[r].key = key[r] /\ draft[r].lines = basket[r]
          BY <5>1, CommittedOrder
        <5> QED
          BY <5>1, <5>2
      <4> QED
        BY <4>1, <4>2, <4>3, <4>4, <4>5, <4>6, <4>7, <4>8 DEF Step, Progress
    <3>3. \A q \in Requests : q # r => Sound(q)'
      BY <1>0, <2>1, <2>3 DEF OrdersMatchHandlers
    <3>4. \A o \in orders' : Over(o.id)'
      BY <1>0, <2>1, <2>3, <3>1 DEF OrdersMatchHandlers
    <3> QED
      BY <3>2, <3>3, <3>4 DEF OrdersMatchHandlers
  <2> QED
    BY <1>3, <2>2, <2>3, OrderSteps
<1> QED
  BY <1>1, <1>2, <1>3, NextIsSteps

-----------------------------------------------------------------------------
(* Connections and answers *)

\* Connections are taken at connect() and given back at release(), or, after a failed
\* BEGIN, never.
LEMMA ConnectionsInductive ==
    ASSUME IInv, [Next]_vars
    PROVE  ConnectionsMatchHandlers'
<1>0. TypeOK /\ ConnectionsMatchHandlers
  BY DEF IInv
<1>1. CASE UNCHANGED vars
  BY <1>0, <1>1 DEF vars, ConnectionsMatchHandlers
<1>2. CASE Crash
  BY <1>0, <1>2 DEF TypeOK, Crash, ConnectionsMatchHandlers, InFlight, HoldsConnection,
     InTransaction
<1>3. ASSUME NEW r \in Requests, Step(r)
      PROVE  ConnectionsMatchHandlers'
  <2>1. ASSUME NEW q \in Requests, q # r
        PROVE  pc'[q] = pc[q] /\ (q \in conn' <=> q \in conn) /\ seen'[q] = seen[q]
    BY <1>0, <1>3, <2>1, Frame
  <2>2. /\ pc'[r] \in HoldsConnection => r \in conn'
        /\ r \in conn' => pc'[r] \in HoldsConnection \cup {"done"}
        /\ pc'[r] \notin InTransaction => seen'[r] = EmptyView
    <3> USE <1>0, <1>3 DEF TypeOK, ConnectionsMatchHandlers, HoldsConnection,
           InTransaction, handlerVars, dbVars, EndTransaction
    <3>1. CASE \E payload \in Payloads : Receive(r, payload) \/ RejectPayload(r, payload)
      BY <3>1 DEF Receive, RejectPayload
    <3>2. CASE LookupHit(r) \/ LookupMiss(r) \/ Connect(r) \/ BeginTransaction(r)
      BY <3>2 DEF LookupHit, LookupMiss, Connect, BeginTransaction
    <3>3. CASE (\E p \in Catalog : LockRow(r, p)) \/ RejectItems(r) \/ SaveProducts(r)
      BY <3>3 DEF LockRow, RejectItems, SaveProducts
    <3>4. CASE InsertOrder(r) \/ SaveItems(r)
      BY <3>4 DEF InsertOrder, SaveItems
    <3>5. CASE InsertDuplicate(r) \/ InsertOverflow(r) \/ DeadlockAbort(r)
      BY <3>5 DEF InsertDuplicate, InsertOverflow, DeadlockAbort, FailStatement
    <3>6. CASE Commit(r) \/ Rollback(r)
      BY <3>6 DEF Commit, Rollback, ApplyTransaction
    <3>7. CASE Release(r) \/ Relookup(r)
      BY <3>7 DEF Release, Relookup
    <3>8. CASE QueryFails(r) \/ BeginFails(r) \/ LoseConnection(r)
               \/ LoseCommitAck(r) \/ Timeout(r)
      BY <3>8 DEF QueryFails, BeginFails, LoseConnection, LoseCommitAck, Timeout,
         ApplyTransaction, InFlight
    <3> QED
      BY <3>1, <3>2, <3>3, <3>4, <3>5, <3>6, <3>7, <3>8 DEF Step, Progress
  <2> QED
    BY <1>0, <2>1, <2>2 DEF ConnectionsMatchHandlers
<1> QED
  BY <1>1, <1>2, <1>3, NextIsSteps

\* What a step of r does to the answer r's client has.
LEMMA AnswerSteps ==
    ASSUME IInv, NEW r \in Requests, Step(r)
    PROVE  \/ /\ resp'[r] = resp[r]
              /\ \/ pc[r] = "idle"
                 \/ UNCHANGED <<key, basket>>
              /\ pc'[r] # "idle"
              /\ pc[r] = "done" => pc'[r] = "done"
           \/ /\ UNCHANGED <<key, basket>>
              /\ pc'[r] # "idle"
              /\ \/ /\ pc[r] \in {"lookup", "relookup"}
                    /\ resp'[r].status = "OK"
                    /\ resp'[r].order \in OrdersWithKey(key[r])
                    /\ UNCHANGED orders
                 \/ /\ pc[r] = "release" /\ failure[r] = "none"
                    /\ resp'[r].status = "Created" /\ resp'[r].order = created[r]
                    /\ UNCHANGED orders
                 \/ resp'[r].status \in {"RequestTimeout", "InternalServerError"}
                 \/ /\ resp'[r].status \in {"BadRequest", "Conflict"}
                    /\ \/ pc[r] = "idle"
                       \/ pc[r] = "release" /\ failure[r] # "none"
                    /\ pc'[r] = "done"
                    /\ UNCHANGED orders
<1> USE DEF IInv, TypeOK, Answer, handlerVars, dbVars, InFlight, HoldsConnection,
       InTransaction
<1>1. CASE \E payload \in Payloads : Receive(r, payload) \/ RejectPayload(r, payload)
  BY <1>1 DEF Receive, RejectPayload
<1>2. CASE LookupHit(r) \/ LookupMiss(r) \/ Connect(r) \/ BeginTransaction(r)
  BY <1>2 DEF LookupHit, LookupMiss, Connect, BeginTransaction
<1>3. CASE (\E p \in Catalog : LockRow(r, p)) \/ RejectItems(r) \/ SaveProducts(r)
  BY <1>3 DEF LockRow, RejectItems, SaveProducts
<1>4. CASE InsertOrder(r) \/ SaveItems(r)
  BY <1>4 DEF InsertOrder, SaveItems
<1>5. CASE InsertDuplicate(r) \/ InsertOverflow(r) \/ DeadlockAbort(r)
  BY <1>5 DEF InsertDuplicate, InsertOverflow, DeadlockAbort, FailStatement
<1>6. CASE Commit(r) \/ Rollback(r)
  BY <1>6 DEF Commit, Rollback
<1>7. CASE Release(r)
  BY <1>7 DEF Release, Failures
<1>8. CASE Relookup(r)
  BY <1>8 DEF Relookup
<1>9. CASE QueryFails(r) \/ BeginFails(r) \/ LoseConnection(r) \/ LoseCommitAck(r)
           \/ Timeout(r)
  BY <1>9 DEF QueryFails, BeginFails, LoseConnection, LoseCommitAck, Timeout
<1> QED
  BY <1>1, <1>2, <1>3, <1>4, <1>5, <1>6, <1>7, <1>8, <1>9 DEF Step, Progress
\* 400 and 409 come only from handlers that placed nothing.
LEMMA AnswersInductive ==
    ASSUME IInv, [Next]_vars
    PROVE  /\ AnswersMatchHandlers'
           /\ AckedOrdersAreDurable'
           /\ RejectionsPlaceNothing'
<1>0. /\ TypeOK /\ AnswersMatchHandlers /\ AckedOrdersAreDurable
      /\ RejectionsPlaceNothing /\ OrdersMatchHandlers
  BY DEF IInv
<1>1. CASE UNCHANGED vars
  BY <1>0, <1>1 DEF vars, AnswersMatchHandlers, AckedOrdersAreDurable,
     RejectionsPlaceNothing
<1>2. CASE Crash
  BY <1>0, <1>2 DEF TypeOK, Crash, InFlight, HoldsConnection, InTransaction,
     AnswersMatchHandlers, AckedOrdersAreDurable, RejectionsPlaceNothing
<1>3. ASSUME NEW r \in Requests, Step(r)
      PROVE  AnswersMatchHandlers' /\ AckedOrdersAreDurable' /\ RejectionsPlaceNothing'
  <2>1. ASSUME NEW q \in Requests, q # r
        PROVE  /\ pc'[q] = pc[q] /\ key'[q] = key[q] /\ basket'[q] = basket[q]
               /\ resp'[q] = resp[q]
    BY <1>0, <1>3, <2>1, Frame
  <2>2. /\ orders \subseteq orders'
        /\ \A o \in orders' \ orders : o.id = r /\ pc[r] = "commit"
    BY <1>3, OrderSteps, CommittedOrder
  <2>3. AnswersMatchHandlers'
    <3>1. /\ pc'[r] # "idle"
          /\ resp'[r].status \in {"BadRequest", "Conflict"} => pc'[r] = "done"
      BY <1>0, <1>3, AnswerSteps DEF AnswersMatchHandlers
    <3> QED
      BY <1>0, <2>1, <3>1 DEF AnswersMatchHandlers
  <2>4. AckedOrdersAreDurable'
    <3>1. CASE resp'[r] = resp[r]
      BY <1>0, <1>3, <2>1, <2>2, <3>1, AnswerSteps
      DEF AckedOrdersAreDurable, AnswersMatchHandlers
    <3>2. CASE resp'[r] # resp[r]
      BY <1>0, <1>3, <2>1, <2>2, <3>2, AnswerSteps
      DEF AckedOrdersAreDurable, OrdersWithKey, OrdersMatchHandlers
    <3> QED
      BY <3>1, <3>2
  <2>5. RejectionsPlaceNothing'
    <3>1. ASSUME NEW q \in Requests, q # r, resp'[q].status \in {"BadRequest", "Conflict"},
                 NEW o \in orders'
          PROVE  o.id # q
      BY <1>0, <2>1, <2>2, <3>1 DEF RejectionsPlaceNothing
    <3>2. ASSUME resp'[r].status \in {"BadRequest", "Conflict"}, NEW o \in orders'
          PROVE  o.id # r
      <4>1. CASE resp'[r] = resp[r]
        BY <1>0, <2>2, <3>2, <4>1 DEF RejectionsPlaceNothing, AnswersMatchHandlers
      <4>2. CASE resp'[r] # resp[r]
        BY <1>0, <1>3, <3>2, <4>2, AnswerSteps DEF OrdersMatchHandlers
      <4> QED
        BY <4>1, <4>2
    <3> QED
      BY <3>1, <3>2 DEF RejectionsPlaceNothing
  <2> QED
    BY <2>3, <2>4, <2>5
<1> QED
  BY <1>1, <1>2, <1>3, NextIsSteps

-----------------------------------------------------------------------------
(* What is read and what is held *)

\* Connections stay finite in number, and only rows of the basket are locked.
LEMMA ReadsInductive ==
    ASSUME IInv, [Next]_vars
    PROVE  ReadsAreWanted' /\ IsFiniteSet(conn)'
<1>0. TypeOK /\ ReadsAreWanted /\ IsFiniteSet(conn) /\ ConnectionsMatchHandlers
  BY DEF IInv
<1>1. CASE UNCHANGED vars
  BY <1>0, <1>1 DEF vars, ReadsAreWanted, RowsOf
<1>2. CASE Crash
  BY <1>0, <1>2, FS_EmptySet DEF TypeOK, Crash, ReadsAreWanted, RowsOf, EmptyView
<1>3. ASSUME NEW r \in Requests, Step(r)
      PROVE  ReadsAreWanted' /\ IsFiniteSet(conn)'
  <2>1. ASSUME NEW q \in Requests, q # r
        PROVE  basket'[q] = basket[q] /\ seen'[q] = seen[q]
    BY <1>0, <1>3, <2>1, Frame
  <2>2. /\ DOMAIN seen'[r] \subseteq {RowOf[t] : t \in DOMAIN basket'[r]} \ {None}
        /\ conn' = conn \/ conn' = conn \cup {r} \/ conn' = conn \ {r}
    <3> USE <1>0, <1>3 DEF TypeOK, ReadsAreWanted, RowsOf, handlerVars, dbVars,
           EndTransaction, EmptyView
    <3>1. CASE \E payload \in Payloads : Receive(r, payload)
      <4>1. seen'[r] = EmptyView
        BY <3>1 DEF Receive, ConnectionsMatchHandlers, InTransaction
      <4>2. UNCHANGED conn
        BY <3>1 DEF Receive
      <4> QED
        BY <4>1, <4>2
    <3>2. CASE \E payload \in Payloads : RejectPayload(r, payload)
      BY <3>2 DEF RejectPayload
    <3>3. CASE LookupHit(r) \/ LookupMiss(r) \/ Connect(r) \/ BeginTransaction(r)
      BY <3>3 DEF LookupHit, LookupMiss, Connect, BeginTransaction
    <3>4. CASE \E p \in Catalog : LockRow(r, p)
      BY <3>4 DEF LockRow, WithRow
    <3>5. CASE RejectItems(r) \/ SaveProducts(r) \/ InsertOrder(r) \/ SaveItems(r)
      BY <3>5 DEF RejectItems, SaveProducts, InsertOrder, SaveItems
    <3>6. CASE InsertDuplicate(r) \/ InsertOverflow(r) \/ DeadlockAbort(r)
      BY <3>6 DEF InsertDuplicate, InsertOverflow, DeadlockAbort, FailStatement
    <3>7. CASE Commit(r) \/ Rollback(r)
      BY <3>7 DEF Commit, Rollback, ApplyTransaction
    <3>8. CASE Release(r) \/ Relookup(r)
      BY <3>8 DEF Release, Relookup
    <3>9. CASE QueryFails(r) \/ BeginFails(r) \/ LoseConnection(r)
               \/ LoseCommitAck(r) \/ Timeout(r)
      BY <3>9 DEF QueryFails, BeginFails, LoseConnection, LoseCommitAck, Timeout,
         ApplyTransaction
    <3> QED
      BY <3>1, <3>2, <3>3, <3>4, <3>5, <3>6, <3>7, <3>8, <3>9 DEF Step, Progress
  <2>3. IsFiniteSet(conn)'
    BY <1>0, <2>2, FS_AddElement, FS_RemoveElement
  <2>4. ReadsAreWanted'
    BY <1>0, <2>1, <2>2 DEF ReadsAreWanted, RowsOf
  <2> QED
    BY <2>3, <2>4
<1> QED
  BY <1>1, <1>2, <1>3, NextIsSteps

-----------------------------------------------------------------------------
(* The invariant *)

\* The invariant holds at first.
LEMMA InitInvariant == Init => IInv
<1> SUFFICES ASSUME Init PROVE IInv
  OBVIOUS
<1>1. TypeOK
  BY InitTyped
<1>2. LocksMatchReads /\ ReadsAreWanted /\ HeldRowsAreFresh /\ IsFiniteSet(conn)
  BY NoneAssumption, FS_EmptySet
  DEF Init, LocksMatchReads, ReadsAreWanted, HeldRowsAreFresh, EmptyView
<1>3. WritesMatchReads /\ InputsAreSound /\ DraftsMatchHandlers /\ KeysAreExclusive
  BY DEF Init, WritesMatchReads, InputsAreSound, DraftsMatchHandlers, KeysAreExclusive,
     InFlight, HoldsConnection, InTransaction
<1>4. OrdersMatchHandlers /\ OneOrderPerKey /\ ConnectionsMatchHandlers
  BY DEF Init, OrdersMatchHandlers, OneOrderPerKey, ConnectionsMatchHandlers,
     HoldsConnection, InTransaction
<1>5. AnswersMatchHandlers /\ AckedOrdersAreDurable /\ RejectionsPlaceNothing
  BY DEF Init, AnswersMatchHandlers, AckedOrdersAreDurable, RejectionsPlaceNothing
<1> QED
  BY <1>1, <1>2, <1>3, <1>4, <1>5 DEF IInv

\* Each conjunct is kept by its own lemma.
LEMMA NextInvariant == IInv /\ [Next]_vars => IInv'
BY NextTyped, LocksInductive, ReadsInductive, WritesInductive, InputsInductive, DraftsInductive,
   KeysInductive, HandlersInductive, ConnectionsInductive, AnswersInductive
DEF IInv

\* The inductive invariant holds in every behaviour.
THEOREM Invariance == Spec => []IInv
BY InitInvariant, NextInvariant, PTL DEF Spec

\* Every variable keeps its type (all actions of orders.service.ts).
THEOREM TypeCorrect == Spec => []TypeOK
BY Invariance, PTL DEF IInv

\* A handler's copy of a row it has locked is the committed row until its COMMIT, so
\* the absolute stock it writes loses nobody's update (orders.service.ts 115-182).
THEOREM FreshRows == Spec => []HeldRowsAreFresh
BY Invariance, PTL DEF IInv

\* However many requests carry a key, and however they end, it buys once.
THEOREM KeyBuysOnce == Spec => []OneOrderPerKey
BY Invariance, PTL DEF IInv

\* What 201 and 200 say is so, and stays so.
THEOREM AcksAreDurable == Spec => []AckedOrdersAreDurable
BY Invariance, PTL DEF IInv

\* What 400 and 409 say is so, and stays so.
THEOREM RejectionsAreFinal == Spec => []RejectionsPlaceNothing
BY Invariance, PTL DEF IInv

\* Only a handler whose BEGIN failed ends with its connection taken, and no handler that
\* is over holds a row or an uncommitted order.
THEOREM NoLeak == Spec => NothingLeaks
<1> DEFINE Held ==
              /\ \A p \in Catalog : lock[p] # None => lock[p] \in conn \ Leaked
              /\ \A r \in Requests : draft[r] # NoOrder => r \in conn \ Leaked
           Kept == \A r \in Leaked' \ Leaked : pc[r] = "begin"
<1>1. IInv => Held
  <2> SUFFICES ASSUME IInv PROVE Held
    OBVIOUS
  <2>1. TypeOK /\ LocksMatchReads /\ DraftsMatchHandlers /\ ConnectionsMatchHandlers
    BY DEF IInv
  <2> QED
    BY <2>1 DEF TypeOK, LocksMatchReads, DraftsMatchHandlers, ConnectionsMatchHandlers,
       Leaked, InFlight, HoldsConnection, InTransaction, EmptyView
<1>2. IInv /\ [Next]_vars => [Kept]_vars
  <2> SUFFICES ASSUME IInv, [Next]_vars, NEW r \in Leaked' \ Leaked
               PROVE  pc[r] = "begin"
    BY DEF Leaked
  <2>0. TypeOK /\ ConnectionsMatchHandlers /\ r \in conn' /\ pc'[r] \notin InFlight
    BY DEF IInv, Leaked
  <2>1. CASE UNCHANGED vars
    BY <2>1 DEF vars, Leaked
  <2>2. CASE Crash
    BY <2>0, <2>2 DEF Crash
  <2>3. ASSUME NEW q \in Requests, Step(q), r \in Requests \ {q}
        PROVE  FALSE
    BY <2>0, <2>3, Frame DEF Leaked
  <2>4. CASE r \in Requests /\ Step(r)
    <3> USE <2>0 DEF TypeOK, ConnectionsMatchHandlers, Leaked, InFlight, HoldsConnection,
           InTransaction, handlerVars, dbVars
    <3>1. CASE \E payload \in Payloads : Receive(r, payload) \/ RejectPayload(r, payload)
      BY <3>1 DEF Receive, RejectPayload
    <3>2. CASE LookupHit(r) \/ LookupMiss(r) \/ Connect(r) \/ BeginTransaction(r)
      BY <2>4, <3>2 DEF LookupHit, LookupMiss, Connect, BeginTransaction
    <3>3. CASE (\E p \in Catalog : LockRow(r, p)) \/ RejectItems(r) \/ SaveProducts(r)
      BY <2>4, <3>3 DEF LockRow, RejectItems, SaveProducts
    <3>4. CASE InsertOrder(r) \/ SaveItems(r)
      BY <2>4, <3>4 DEF InsertOrder, SaveItems
    <3>5. CASE InsertDuplicate(r) \/ InsertOverflow(r) \/ DeadlockAbort(r)
      BY <2>4, <3>5 DEF InsertDuplicate, InsertOverflow, DeadlockAbort, FailStatement
    <3>6. CASE Commit(r) \/ Rollback(r)
      BY <2>4, <3>6 DEF Commit, Rollback
    <3>7. CASE Release(r) \/ Relookup(r)
      BY <3>7 DEF Release, Relookup
    <3>8. CASE QueryFails(r) \/ BeginFails(r)
      BY <3>8 DEF QueryFails, BeginFails
    <3>9. CASE LoseConnection(r) \/ LoseCommitAck(r) \/ Timeout(r)
      BY <3>9 DEF LoseConnection, LoseCommitAck, Timeout
    <3> QED
      BY <2>4, <3>1, <3>2, <3>3, <3>4, <3>5, <3>6, <3>7, <3>8, <3>9 DEF Step, Progress
  <2>5. r \in Requests
    BY <2>0, NextTyped DEF TypeOK
  <2> QED
    BY <2>1, <2>2, <2>3, <2>4, <2>5, NextIsSteps
<1> HIDE DEF Held, Kept
<1>3. Spec => []Held
  BY <1>1, Invariance, PTL
<1>4. Spec => [][Kept]_vars
  BY <1>2, Invariance, PTL DEF Spec
<1>5. NothingLeaks <=> []Held /\ [][Kept]_vars
  BY PTL DEF NothingLeaks, Held, Kept
<1> QED
  BY <1>3, <1>4, <1>5
-----------------------------------------------------------------------------
(* The stock *)

\* What the orders of the set took of row p.
Taken(S, p) == SumFunction([o \in S |-> QuantityOf(o.lines, p)])

\* An order takes a natural number of every product.
LEMMA QuantityType ==
    ASSUME NEW o, IsOrder(o), NEW p
    PROVE  QuantityOf(o.lines, p) \in Nat
BY DEF IsOrder, IsBasket, QuantityOf

\* No orders take nothing.
LEMMA TakenByNone == \A p : Taken({}, p) = 0
<1> TAKE p
<1> DEFINE f == [o \in {} |-> QuantityOf(o.lines, p)]
<1>1. DOMAIN f = {}
  OBVIOUS
<1> HIDE DEF f
<1>2. SumFunction(f) = 0
  BY <1>1, SumOfNone DEF SumFunction
<1> QED
  BY <1>2 DEF Taken, f

\* A new order adds what it names.
LEMMA TakenByOneMore ==
    ASSUME NEW S, IsFiniteSet(S), \A o \in S : IsOrder(o), NEW o, IsOrder(o), o \notin S, NEW p
    PROVE  /\ Taken(S, p) \in Int
           /\ Taken(S \cup {o}, p) = Taken(S, p) + QuantityOf(o.lines, p)
<1> DEFINE f == [q \in S |-> QuantityOf(q.lines, p)]
           g == [q \in S \cup {o} |-> QuantityOf(q.lines, p)]
<1>1. IntegersOn(f, S) /\ IntegersOn(g, S \cup {o}) /\ Agree(f, g, S)
  BY QuantityType DEF IntegersOn, Agree
<1>2. DOMAIN f = S /\ DOMAIN g = S \cup {o} /\ g[o] = QuantityOf(o.lines, p)
  OBVIOUS
<1>3. Taken(S, p) = SumFunction(f) /\ Taken(S \cup {o}, p) = SumFunction(g)
  BY DEF Taken
<1> HIDE DEF f, g
<1>4. SumFunctionOnSet(g, S \cup {o}) = SumFunctionOnSet(f, S) + g[o]
  BY <1>1, SumGrows
<1>5. SumFunctionOnSet(f, S) \in Int
  BY <1>1, SumType
<1> QED
  BY <1>2, <1>3, <1>4, <1>5 DEF SumFunction

\* A COMMIT lowers the stock by what its order names, and by nothing else.
LEMMA CommitConserves ==
    ASSUME IInv, IsFiniteSet(orders), StockConserved,
           NEW r \in Requests, pc[r] = "commit", ApplyTransaction(r)
    PROVE  IsFiniteSet(orders)' /\ StockConserved'
<1> DEFINE o == draft[r]
<1>0. TypeOK /\ WritesMatchReads /\ HeldRowsAreFresh
  BY DEF IInv
<1>1. /\ orders' = orders \cup {o} /\ o.lines = basket[r] /\ IsOrder(o)
      /\ o \notin orders
  BY <1>0, CommittedOrder, NoOrderIsNone, NoneAssumption DEF TypeOK, NoOrder
<1>2. IsFiniteSet(orders')
  BY <1>1, FS_AddElement
<1>3. ASSUME NEW p \in Catalog
      PROVE  stock'[p] + QuantityOf(o.lines, p) = stock[p]
  <2>1. /\ DOMAIN basket[r] \subseteq DOMAIN seen[r]
        /\ written[r] = [q \in DOMAIN basket[r] |-> seen[r][q] - basket[r][q]]
    BY <1>0 DEF WritesMatchReads
  <2>2. \A q \in DOMAIN seen[r] : seen[r][q] = stock[q]
    BY <1>0 DEF HeldRowsAreFresh
  <2>3. \A q \in DOMAIN basket[r] : basket[r][q] \in Nat
    BY <1>0 DEF TypeOK, IsBasket
  <2> QED
    BY <1>0, <1>1, <2>1, <2>2, <2>3 DEF ApplyTransaction, QuantityOf, TypeOK
<1>4. ASSUME NEW p \in Catalog
      PROVE  stock'[p] + Taken(orders', p) = InitialStock[p]
  <2>1. stock[p] + Taken(orders, p) = InitialStock[p]
    BY DEF StockConserved, Taken
  <2>2. Taken(orders, p) \in Int /\ Taken(orders', p) = Taken(orders, p) + QuantityOf(o.lines, p)
    BY <1>0, <1>1, TakenByOneMore DEF TypeOK
  <2>3. QuantityOf(o.lines, p) \in Nat
    BY <1>1, QuantityType
  <2>4. stock[p] \in Nat /\ stock'[p] \in Int
    BY <1>0, <1>1, ApplyTyped DEF TypeOK, IInv
  <2> HIDE DEF o
  <2> QED
    BY <1>3, <2>1, <2>2, <2>3, <2>4
<1> QED
  BY <1>2, <1>4 DEF StockConserved, Taken

\* No unit of stock is lost or sold twice, however many handlers take from however many
\* rows: what was there at first is what is left plus what the committed orders took.
THEOREM StockIsConserved == Spec => []StockConserved
<1> DEFINE Conserved == IsFiniteSet(orders) /\ StockConserved
<1>1. Init => Conserved
  <2> SUFFICES ASSUME Init PROVE Conserved
    OBVIOUS
  <2>1. orders = {} /\ stock = InitialStock
    BY DEF Init
  <2>2. \A p \in Catalog : InitialStock[p] \in Int
    BY CatalogAssumption, IntAssumption
  <2> QED
    BY <2>1, <2>2, TakenByNone, FS_EmptySet DEF StockConserved, Taken
<1>2. IInv /\ Conserved /\ [Next]_vars => Conserved'
  <2> SUFFICES ASSUME IInv, Conserved, [Next]_vars PROVE Conserved'
    OBVIOUS
  <2>1. CASE UNCHANGED <<stock, orders>>
    BY <2>1 DEF StockConserved
  <2>2. ASSUME NEW r \in Requests, pc[r] = "commit", ApplyTransaction(r)
        PROVE  Conserved'
    BY <2>2, CommitConserves
  <2>3. UNCHANGED vars => UNCHANGED <<stock, orders>>
    BY DEF vars
  <2>4. Crash => UNCHANGED <<stock, orders>>
    BY DEF Crash
  <2> HIDE DEF Conserved
  <2> QED
    BY <2>1, <2>2, <2>3, <2>4, NextIsSteps, OrderSteps
<1> HIDE DEF Conserved
<1>3. Conserved => StockConserved
  BY DEF Conserved
<1> QED
  BY <1>1, <1>2, <1>3, Invariance, PTL DEF Spec

-----------------------------------------------------------------------------
(* Deadlock *)

\* Every transaction of C waits for one of C, and for none outside.
WaitsWithin(C) == \A q \in C : WaitsFor(q) # {} /\ WaitsFor(q) \subseteq C

\* If all of a finite set of transactions wait for each other, some are on a cycle of the
\* wait-for graph: those of a smallest set that waits within itself.
LEMMA WaitersFormCycle ==
    ASSUME NEW W \in SUBSET Requests, IsFiniteSet(W), W # {}, WaitsWithin(W)
    PROVE  \E r \in W : InWaitCycle(r)
<1> DEFINE B == {C \in SUBSET W : C # {} /\ WaitsWithin(C)}
<1>1. PICK C \in B : \A D \in B : Cardinality(C) <= Cardinality(D)
  BY SmallestSet
<1>2. C \in SUBSET W /\ C # {} /\ WaitsWithin(C)
  OBVIOUS
<1>3. PICK r \in C : TRUE
  BY <1>2
<1>4. ASSUME NEW S \in SUBSET Requests,
             WaitsFor(r) \subseteq S, \A q \in S : WaitsFor(q) \subseteq S
      PROVE  r \in S
  <2>1. S \cap C # {}
    BY <1>2, <1>3, <1>4 DEF WaitsWithin
  <2>2. WaitsWithin(S \cap C)
    BY <1>2, <1>4 DEF WaitsWithin
  <2>3. S \cap C \in B
    BY <1>2, <2>1, <2>2
  <2>4. Cardinality(C) <= Cardinality(S \cap C)
    BY <1>1, <2>3
  <2>5. IsFiniteSet(C) /\ S \cap C \in SUBSET C
    BY <1>2, FS_Subset
  <2>6. /\ Cardinality(C) \in Nat /\ Cardinality(S \cap C) \in Nat
        /\ Cardinality(S \cap C) <= Cardinality(C)
        /\ Cardinality(C) = Cardinality(S \cap C) => C = S \cap C
    BY <2>5, FS_Subset, FS_CardinalityType
  <2>7. C = S \cap C
    BY <2>4, <2>6
  <2> QED
    BY <1>3, <2>7
<1>5. InWaitCycle(r)
  BY <1>4 DEF InWaitCycle
<1> QED
  BY <1>2, <1>3, <1>5

\* Who waits for a connection holds nothing; who waits for a key waits for somebody who
\* waits for nobody; so only those that wait for rows can wait for each other, and
\* among them the deadlock detector finds a victim.
LEMMA NotAllStuck ==
    ASSUME IInv, ~PoolUsedUp, NEW r0 \in Requests, pc[r0] \in InFlight
    PROVE  \E r \in Requests : CanMove(r)
<1> DEFINE held == conn \ Leaked
<1>0. /\ TypeOK /\ IsFiniteSet(conn) /\ LocksMatchReads /\ ReadsAreWanted
      /\ DraftsMatchHandlers /\ ConnectionsMatchHandlers /\ conn \subseteq Requests
      /\ held \subseteq conn /\ IsFiniteSet(held)
  BY FS_Subset DEF IInv, TypeOK, held
<1> SUFFICES ASSUME \A r \in Requests : ~CanMove(r) PROVE FALSE
  OBVIOUS
<1>1. \A r \in held : pc[r] \in {"lock", "insert"}
  <2> TAKE r \in held
  <2>1. r \in Requests /\ pc[r] \in HoldsConnection /\ ~CanMove(r)
    BY <1>0 DEF ConnectionsMatchHandlers, Leaked, InFlight, HoldsConnection
  <2> QED
    BY <2>1 DEF CanMove, HoldsConnection, InTransaction
<1>2. \A r \in held : pc[r] # "insert"
  <2> SUFFICES ASSUME NEW r \in held, pc[r] = "insert" PROVE FALSE
    OBVIOUS
  <2>1. r \in Requests /\ ~CanMove(r)
    BY <1>0
  <2>2. KeyPending(r)
    BY <2>1 DEF CanMove
  <2>3. PICK q \in Requests \ {r} : draft[q] # NoOrder
    BY <2>2 DEF KeyPending
  <2>4. pc[q] \in {"items", "commit"}
    BY <1>0, <2>3 DEF DraftsMatchHandlers
  <2> QED
    BY <2>3, <2>4 DEF CanMove
<1>3. held # {}
  <2> SUFFICES ASSUME held = {} PROVE FALSE
    OBVIOUS
  <2>1. conn = Leaked
    BY DEF Leaked
  <2>2. ConnectionFree
    BY <1>0, <2>1, FS_CardinalityType, PoolAssumption DEF ConnectionFree, PoolUsedUp
  <2>3. pc[r0] \notin HoldsConnection
    BY <1>0, <2>1 DEF ConnectionsMatchHandlers, Leaked
  <2>4. pc[r0] \in {"lookup", "connect", "relookup"}
    BY <2>3 DEF InFlight
  <2> QED
    BY <2>2, <2>4 DEF CanMove
<1>4. WaitsWithin(held)
  <2> SUFFICES ASSUME NEW r \in held
               PROVE  WaitsFor(r) # {} /\ WaitsFor(r) \subseteq held
    BY DEF WaitsWithin
  <2>1. r \in Requests /\ pc[r] = "lock" /\ ~CanMove(r)
    BY <1>0, <1>1, <1>2
  <2>2. DOMAIN seen[r] # RowsOf(r) /\ \A p \in RowsOf(r) \ DOMAIN seen[r] : lock[p] # None
    BY <2>1 DEF CanMove
  <2>3. RowsOf(r) \subseteq Catalog
    BY <1>0, <2>1, CatalogAssumption DEF RowsOf, TypeOK, IsBasket
  <2>4. PICK p \in RowsOf(r) \ DOMAIN seen[r] : TRUE
    BY <1>0, <2>1, <2>2 DEF ReadsAreWanted
  <2>5. \A q \in RowsOf(r) \ DOMAIN seen[r] : lock[q] \in Requests
    BY <1>0, <2>2, <2>3 DEF TypeOK
  <2>6. WaitsFor(r) # {}
    BY <2>1, <2>4, <2>5 DEF WaitsFor
  <2>7. \A q \in Requests : (\E s \in Catalog : lock[s] = q) => q \in held
    BY <1>0 DEF LocksMatchReads, ConnectionsMatchHandlers, EmptyView, Leaked, InFlight,
       HoldsConnection
  <2> QED
    BY <2>3, <2>6, <2>7 DEF WaitsFor
<1>5. PICK r \in held : InWaitCycle(r)
  BY <1>0, <1>3, <1>4, WaitersFormCycle
<1> QED
  BY <1>0, <1>1, <1>2, <1>5 DEF CanMove

\* No deadlock, however many requests meet over however many rows, keys and connections:
\* while one is in flight, one can go on, unless failed BEGINs have used up the pool.
THEOREM NoDeadlock == Spec => []SomebodyCanMove
<1>1. IInv => SomebodyCanMove
  BY NotAllStuck DEF SomebodyCanMove
<1> QED
  BY <1>1, Invariance, PTL

-----------------------------------------------------------------------------
(* The ledger *)

\* The ledger's totals are those of the handlers.
LEMMA SameTotals == \A b, c : Ledger!TotalAmountCents(b, c) = TotalAmountCents(b, c)
BY DEF Ledger!TotalAmountCents, TotalAmountCents, Ledger!SumFunction, SumFunction,
   Ledger!SumFunctionOnSet, SumFunctionOnSet, Ledger!FoldFunctionOnSet, FoldFunctionOnSet,
   Ledger!MapThenFoldSet, MapThenFoldSet

\* And so are its currencies.
LEMMA SameCurrencies == \A S, c : Ledger!SameCurrency(S, c) = SameCurrency(S, c)
BY DEF Ledger!SameCurrency, SameCurrency

\* A COMMIT, acknowledged or not, places one whole order in the ledger.
LEMMA CommitPlaces ==
    ASSUME IInv, NEW r \in Requests, pc[r] = "commit", ApplyTransaction(r)
    PROVE  Ledger!Next
<1> DEFINE o == draft[r]
<1>0. TypeOK /\ WritesMatchReads /\ HeldRowsAreFresh /\ InputsAreSound
  BY DEF IInv
<1>1. /\ orders' = orders \cup {o} /\ o.id = r /\ o.key = key[r] /\ o.lines = basket[r]
      /\ o.total = TotalAmountCents(o.lines, Price) /\ o.total \in IntColumn
      /\ \A q \in orders : q.id # o.id /\ q.key # o.key
  BY CommittedOrder DEF OrderTotal
<1>2. /\ DOMAIN basket[r] \subseteq DOMAIN seen[r]
      /\ SameCurrency(DOMAIN basket[r], Currency)
      /\ \A p \in DOMAIN basket[r] : basket[r][p] <= seen[r][p]
      /\ written[r] = [p \in DOMAIN basket[r] |-> seen[r][p] - basket[r][p]]
  BY <1>0 DEF WritesMatchReads
<1>3. DOMAIN seen[r] \subseteq Catalog /\ \A p \in DOMAIN seen[r] : seen[r][p] = stock[p]
  BY <1>0 DEF TypeOK, IsView, HeldRowsAreFresh
<1>4. DOMAIN basket[r] # {}
  BY <1>0 DEF InputsAreSound, InFlight, HoldsConnection, InTransaction
<1>5. \A p \in DOMAIN o.lines : o.lines[p] \in 1..stock[p]
  BY <1>0, <1>1, <1>2, <1>3 DEF TypeOK, IsBasket
<1>6. stock' = [p \in Catalog |->
                  IF p \in DOMAIN o.lines THEN stock[p] - o.lines[p] ELSE stock[p]]
  BY <1>1, <1>2, <1>3 DEF ApplyTransaction
<1>7. Ledger!Place(o)
  BY <1>1, <1>2, <1>3, <1>4, <1>5, <1>6, SameTotals, SameCurrencies DEF Ledger!Place
<1> QED
  BY <1>1, <1>7 DEF Ledger!Next

\* The handlers, the pool and PostgreSQL together implement the ledger: seen from the
\* tables, an order is placed at once and whole, or not at all, and never twice for one
\* key or from stock that is not there.
THEOREM ImplementsLedger == Spec => LedgerSpec
<1>1. Init => Ledger!Init
  BY DEF Init, Ledger!Init
<1>2. IInv /\ [Next]_vars => [Ledger!Next]_Ledger!ledgerVars
  <2> SUFFICES ASSUME IInv, [Next]_vars
               PROVE  [Ledger!Next]_Ledger!ledgerVars
    OBVIOUS
  <2>1. CASE UNCHANGED vars
    BY <2>1 DEF vars, Ledger!ledgerVars
  <2>2. CASE Crash
    BY <2>2 DEF Crash, Ledger!ledgerVars
  <2>3. ASSUME NEW r \in Requests, Step(r)
        PROVE  [Ledger!Next]_Ledger!ledgerVars
    BY <2>3, OrderSteps, CommitPlaces DEF Ledger!ledgerVars
  <2> QED
    BY <2>1, <2>2, <2>3, NextIsSteps
<1> QED
  BY <1>1, <1>2, Invariance, PTL DEF Spec, LedgerSpec, Ledger!Spec
=============================================================================
