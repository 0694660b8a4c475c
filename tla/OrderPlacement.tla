---------------------------- MODULE OrderPlacement ----------------------------
(***************************************************************************)
(* POST /orders: the handlers of one API process, the pool of database     *)
(* connections they share, and the PostgreSQL tables, row locks and        *)
(* transactions (READ COMMITTED) they run against.                         *)
(*                                                                         *)
(* A request is one execution of the handler; a client's retry is another  *)
(* request.  Every await of the code is a boundary between two actions.    *)
(***************************************************************************)
EXTENDS OrderItems, FiniteSets

CONSTANTS
    Requests,     \* handler executions
    Keys,         \* uuids of Idempotency-Key headers that isUUID accepts
    ProductIds,   \* the productId texts a body may carry
    Catalog,      \* the product rows, named by the text PostgreSQL prints for them
    RowOf,        \* the row a text denotes when compared as a uuid, or None
    Price,        \* price_cents of each row
    Currency,     \* currency of each row
    InitialStock, \* stock of each row
    Payloads,     \* what clients send: [key, items]
    PoolSize,     \* the connection pool's maximum
    MaxInt,       \* largest value of PostgreSQL's integer type (2^31 - 1)
    None

\* The normalized items: product id texts with positive quantities.
IsBasket(items) ==
    /\ DOMAIN items \subseteq ProductIds
    /\ items \in [DOMAIN items -> Nat \ {0}]

IntColumn == (-MaxInt - 1)..MaxInt

\* A row of table orders with its order_items.  Its id is the request whose
\* transaction inserted it; its user is always the stub user.
IsOrder(order) ==
    /\ order \in [id : Requests, key : Keys, lines : {order.lines}, total : IntColumn]
    /\ IsBasket(order.lines)

\* No such row.
NoOrder == [id |-> None, key |-> None, lines |-> EmptyBasket, total |-> 0]

ASSUME PoolAssumption == PoolSize \in Nat \ {0}
ASSUME IntAssumption == MaxInt \in Nat
ASSUME CatalogAssumption ==
    /\ Catalog \subseteq ProductIds
    /\ None \notin ProductIds
    /\ RowOf \in [ProductIds -> Catalog \cup {None}]
    /\ \A p \in Catalog : RowOf[p] = p
    /\ InitialStock \in [Catalog -> 0..MaxInt]
ASSUME NoneAssumption == None \notin Requests /\ None \notin Keys
\* What CreateOrderDto lets through is an array of items.
ASSUME PayloadsAssumption ==
    \A payload \in Payloads :
        ValidItems(payload.items) =>
            payload.items \in Seq([productId : ProductIds, quantity : Int])

VARIABLES
    pc,       \* where each handler is
    key,      \* the Idempotency-Key of each request
    basket,   \* normalizedItems
    seen,     \* stock of the products the locking SELECT has returned so far
    failure,  \* the error createOrderInTransaction is about to throw
    created,  \* orderWithItems, the order it is about to return
    resp,     \* what the client has been answered
    conn,     \* requests that hold a connection of the pool
    stock,    \* committed products.stock
    orders,   \* committed orders with their items
    lock,     \* holder of each product row lock
    written,  \* uncommitted UPDATEs of products.stock
    draft     \* uncommitted INSERT into orders

handlerVars == <<key, basket, seen, failure, created>>
dbVars == <<stock, orders, lock, written, draft>>
vars == <<pc, key, basket, seen, failure, created, resp, conn,
          stock, orders, lock, written, draft>>

EmptyView == [p \in {} |-> 0]

\* A stock for some of the rows.
IsView(view) ==
    /\ DOMAIN view \subseteq Catalog
    /\ view \in [DOMAIN view -> Nat]

InTransaction == {"lock", "insert", "items", "commit", "rollback"}
HoldsConnection == {"begin", "release"} \cup InTransaction
InFlight == {"lookup", "connect", "relookup"} \cup HoldsConnection
Phases == {"idle", "done", "dead"} \cup InFlight
Failures == {"none", "BadRequest", "Conflict", "InternalServerError", "DuplicateKey"}
Statuses == {"none", "Created", "OK", "BadRequest", "RequestTimeout", "Conflict",
             "InternalServerError"}

\* One type invariant for the module.
TypeOK ==
    /\ pc \in [Requests -> Phases]
    /\ key \in [Requests -> Keys \cup {None}]
    /\ DOMAIN basket = Requests /\ \A r \in Requests : IsBasket(basket[r])
    /\ DOMAIN seen = Requests /\ \A r \in Requests : IsView(seen[r])
    /\ DOMAIN written = Requests /\ \A r \in Requests : IsView(written[r])
    /\ failure \in [Requests -> Failures]
    /\ DOMAIN created = Requests
    /\ \A r \in Requests : created[r] = NoOrder \/ IsOrder(created[r])
    /\ DOMAIN resp = Requests
    /\ \A r \in Requests :
          /\ resp[r] \in [status : Statuses, order : {resp[r].order}]
          /\ resp[r].order = NoOrder \/ IsOrder(resp[r].order)
    /\ conn \in SUBSET Requests
    /\ stock \in [Catalog -> Nat]
    /\ \A o \in orders : IsOrder(o)
    /\ lock \in [Catalog -> Requests \cup {None}]
    /\ DOMAIN draft = Requests
    /\ \A r \in Requests : draft[r] = NoOrder \/ IsOrder(draft[r])

Init ==
    /\ pc = [r \in Requests |-> "idle"]
    /\ key = [r \in Requests |-> None]
    /\ basket = [r \in Requests |-> EmptyBasket]
    /\ seen = [r \in Requests |-> EmptyView]
    /\ failure = [r \in Requests |-> "none"]
    /\ created = [r \in Requests |-> NoOrder]
    /\ resp = [r \in Requests |-> [status |-> "none", order |-> NoOrder]]
    /\ conn = {}
    /\ stock = InitialStock
    /\ orders = {}
    /\ lock = [p \in Catalog |-> None]
    /\ written = [r \in Requests |-> EmptyView]
    /\ draft = [r \in Requests |-> NoOrder]

-----------------------------------------------------------------------------
(* Helpers *)

\* A client is answered once: an answer after the 408 of TimeoutInterceptor
\* (rxjs timeout has unsubscribed) goes nowhere.
Answer(r, status, order) ==
    resp' = IF resp[r].status = "none"
              THEN [resp EXCEPT ![r] = [status |-> status, order |-> order]]
              ELSE resp

\* The SELECT has returned one more row.
WithRow(view, p, n) == [q \in DOMAIN view \cup {p} |-> IF q = p THEN n ELSE view[q]]

\* The rows the WHERE product.id IN (...) of r selects.
RowsOf(r) == {RowOf[t] : t \in DOMAIN basket[r]} \ {None}

\* pg-pool hands out a connection while fewer than its maximum are taken.
ConnectionFree == Cardinality(conn) < PoolSize

\* PostgreSQL ends r's transaction without a commit, or after it: its row locks and
\* its uncommitted rows go, and the handler leaves the scope of what it read.
EndTransaction(r) ==
    /\ lock' = [p \in Catalog |-> IF lock[p] = r THEN None ELSE lock[p]]
    /\ written' = [written EXCEPT ![r] = EmptyView]
    /\ draft' = [draft EXCEPT ![r] = NoOrder]
    /\ seen' = [seen EXCEPT ![r] = EmptyView]

\* A statement of r's transaction fails: PostgreSQL aborts the transaction at once,
\* and the catch block still has to send ROLLBACK.
FailStatement(r, error) ==
    /\ EndTransaction(r)
    /\ failure' = [failure EXCEPT ![r] = error]
    /\ pc' = [pc EXCEPT ![r] = "rollback"]
    /\ UNCHANGED <<key, basket, created, resp, conn, stock, orders>>

\* Mutant of OrdersWithKey: uncommitted orders are returned too.
OrdersWithKeyDirty(k) == {o \in orders \cup Range(draft) : o.key = k}

\* The committed order findOrderByIdempotencyKey returns, if there is one.
OrdersWithKey(k) == {o \in orders : o.key = k}
-----------------------------------------------------------------------------
(* The controller and the first lookup *)

\* A valid request arrives: createOrder normalizes its items.
Receive(r, payload) ==
    /\ pc[r] = "idle"
    /\ payload.key \in Keys
    /\ ValidItems(payload.items)
    /\ QuantitiesPositive(payload.items)
    /\ key' = [key EXCEPT ![r] = payload.key]
    /\ basket' = [basket EXCEPT ![r] = NormalizeItems(payload.items)]
    /\ pc' = [pc EXCEPT ![r] = "lookup"]
    /\ UNCHANGED <<seen, failure, created, resp, conn, dbVars>>

\* The ValidationPipe, the isUUID check or normalizeItems turns it down.
RejectPayload(r, payload) ==
    /\ pc[r] = "idle"
    /\ \/ payload.key \notin Keys
       \/ ~ValidItems(payload.items)
       \/ ~QuantitiesPositive(payload.items)
    /\ Answer(r, "BadRequest", NoOrder)
    /\ pc' = [pc EXCEPT ![r] = "done"]
    /\ UNCHANGED <<handlerVars, conn, dbVars>>

\* findOrderByIdempotencyKey on a pooled connection, given back at once.
LookupHit(r) ==
    /\ pc[r] = "lookup"
    /\ ConnectionFree
    /\ \E o \in OrdersWithKey(key[r]) : Answer(r, "OK", o)
    /\ pc' = [pc EXCEPT ![r] = "done"]
    /\ UNCHANGED <<handlerVars, conn, dbVars>>

LookupMiss(r) ==
    /\ pc[r] = "lookup"
    /\ ConnectionFree
    /\ OrdersWithKey(key[r]) = {}
    /\ pc' = [pc EXCEPT ![r] = "connect"]
    /\ UNCHANGED <<handlerVars, resp, conn, dbVars>>

\* queryRunner.connect(): r keeps a connection from here on.
Connect(r) ==
    /\ pc[r] = "connect"
    /\ ConnectionFree
    /\ conn' = conn \cup {r}
    /\ pc' = [pc EXCEPT ![r] = "begin"]
    /\ UNCHANGED <<handlerVars, resp, dbVars>>

\* queryRunner.startTransaction().
BeginTransaction(r) ==
    /\ pc[r] = "begin"
    /\ pc' = [pc EXCEPT ![r] = "lock"]
    /\ UNCHANGED <<handlerVars, resp, conn, dbVars>>

-----------------------------------------------------------------------------
(* The transaction *)

\* Mutant of LockRow: a plain SELECT, nobody waits for anybody.
ReadRowWithoutLock(r, p) ==
    /\ pc[r] = "lock"
    /\ p \in RowsOf(r) \ DOMAIN seen[r]
    /\ seen' = [seen EXCEPT ![r] = WithRow(seen[r], p, stock[p])]
    /\ UNCHANGED <<pc, key, basket, failure, created, resp, conn,
                   stock, orders, lock, written, draft>>

\* Mutant of LockRow: a shared lock, which another transaction can take too.
LockRowShared(r, p) ==
    /\ pc[r] = "lock"
    /\ p \in RowsOf(r) \ DOMAIN seen[r]
    /\ lock' = [lock EXCEPT ![p] = r]
    /\ seen' = [seen EXCEPT ![r] = WithRow(seen[r], p, stock[p])]
    /\ UNCHANGED <<pc, key, basket, failure, created, resp, conn,
                   stock, orders, written, draft>>

\* The locking SELECT has no ORDER BY: it locks its rows one by one in the order the
\* scan meets them, waits for a row another transaction has locked, and returns the
\* row's latest committed version.
LockRow(r, p) ==
    /\ pc[r] = "lock"
    /\ p \in RowsOf(r) \ DOMAIN seen[r]
    /\ lock[p] = None
    /\ lock' = [lock EXCEPT ![p] = r]
    /\ seen' = [seen EXCEPT ![r] = WithRow(seen[r], p, stock[p])]
    /\ UNCHANGED <<pc, key, basket, failure, created, resp, conn,
                   stock, orders, written, draft>>

\* The checks between the SELECT and the UPDATE, in the order of the code.
MissingProducts(r) == DOMAIN basket[r] \ DOMAIN seen[r]

\* Mutant of OutOfStockItems: the last unit may be sold twice.
OutOfStockItemsOffByOne(r) ==
    {t \in DOMAIN basket[r] \cap DOMAIN seen[r] : seen[r][t] < basket[r][t] - 1}

OutOfStockItems(r) ==
    {t \in DOMAIN basket[r] \cap DOMAIN seen[r] : seen[r][t] < basket[r][t]}

RejectItems(r) ==
    /\ pc[r] = "lock"
    /\ DOMAIN seen[r] = RowsOf(r)
    /\ \/ /\ MissingProducts(r) # {}
          /\ failure' = [failure EXCEPT ![r] = "BadRequest"]
       \/ /\ MissingProducts(r) = {}
          /\ OutOfStockItems(r) # {}
          /\ failure' = [failure EXCEPT ![r] = "Conflict"]
       \/ /\ MissingProducts(r) = {}
          /\ OutOfStockItems(r) = {}
          /\ ~SameCurrency(DOMAIN seen[r], Currency)
          /\ failure' = [failure EXCEPT ![r] = "BadRequest"]
    /\ pc' = [pc EXCEPT ![r] = "rollback"]
    /\ UNCHANGED <<key, basket, seen, created, resp, conn, dbVars>>

\* productRepository.save(nextProductsState): absolute values computed from the rows
\* the SELECT returned.
SaveProducts(r) ==
    /\ pc[r] = "lock"
    /\ DOMAIN seen[r] = RowsOf(r)
    /\ MissingProducts(r) = {}
    /\ OutOfStockItems(r) = {}
    /\ SameCurrency(DOMAIN seen[r], Currency)
    /\ written' = [written EXCEPT ![r] =
                     [p \in DOMAIN basket[r] |-> seen[r][p] - basket[r][p]]]
    /\ pc' = [pc EXCEPT ![r] = "insert"]
    /\ UNCHANGED <<handlerVars, resp, conn, stock, orders, lock, draft>>

\* Somebody else's uncommitted order has r's key: the unique index makes r wait.
KeyPending(r) == \E q \in Requests \ {r} : draft[q] # NoOrder /\ draft[q].key = key[r]

\* Mutant of OrderTotal: quantities are forgotten.
OrderTotalOfUnits(r) == TotalOfUnitPrices(basket[r], Price)

OrderTotal(r) == TotalAmountCents(basket[r], Price)

\* Mutant of InsertOrder: without the unique constraint.
InsertOrderUnconstrained(r) ==
    /\ pc[r] = "insert"
    /\ OrderTotal(r) \in IntColumn
    /\ draft' = [draft EXCEPT ![r] = [id |-> r, key |-> key[r],
                                      lines |-> EmptyBasket, total |-> OrderTotal(r)]]
    /\ pc' = [pc EXCEPT ![r] = "items"]
    /\ UNCHANGED <<handlerVars, resp, conn, stock, orders, lock, written>>

\* orderRepository.save: the unique index on (user_id, idempotency_key) lets it in.
InsertOrder(r) ==
    /\ pc[r] = "insert"
    /\ OrderTotal(r) \in IntColumn
    /\ ~KeyPending(r)
    /\ OrdersWithKey(key[r]) = {}
    /\ draft' = [draft EXCEPT ![r] = [id |-> r, key |-> key[r],
                                      lines |-> EmptyBasket, total |-> OrderTotal(r)]]
    /\ pc' = [pc EXCEPT ![r] = "items"]
    /\ UNCHANGED <<handlerVars, resp, conn, stock, orders, lock, written>>

\* ... or reports the duplicate (23505).
InsertDuplicate(r) ==
    /\ pc[r] = "insert"
    /\ OrderTotal(r) \in IntColumn
    /\ ~KeyPending(r)
    /\ OrdersWithKey(key[r]) # {}
    /\ FailStatement(r, "DuplicateKey")

\* total_amount_cents does not fit its column (22003).
InsertOverflow(r) ==
    /\ pc[r] = "insert"
    /\ OrderTotal(r) \notin IntColumn
    /\ FailStatement(r, "InternalServerError")

\* The order o once its order_items are inserted.
WithLines(o, items) == [id |-> o.id, key |-> o.key, lines |-> items, total |-> o.total]

\* orderItemRepository.save and the reload of the order with its items.
SaveItems(r) ==
    /\ pc[r] = "items"
    /\ draft' = [draft EXCEPT ![r] = WithLines(draft[r], basket[r])]
    /\ created' = [created EXCEPT ![r] = WithLines(draft[r], basket[r])]
    /\ pc' = [pc EXCEPT ![r] = "commit"]
    /\ UNCHANGED <<key, basket, seen, failure, resp, conn,
                   stock, orders, lock, written>>

\* The database's side of COMMIT.
ApplyTransaction(r) ==
    /\ stock' = [p \in Catalog |->
                    IF p \in DOMAIN written[r] THEN written[r][p] ELSE stock[p]]
    /\ orders' = orders \cup {draft[r]}
    /\ EndTransaction(r)

Commit(r) ==
    /\ pc[r] = "commit"
    /\ ApplyTransaction(r)
    /\ pc' = [pc EXCEPT ![r] = "release"]
    /\ UNCHANGED <<key, basket, failure, created, resp, conn>>

\* The catch block's ROLLBACK.
Rollback(r) ==
    /\ pc[r] = "rollback"
    /\ EndTransaction(r)
    /\ pc' = [pc EXCEPT ![r] = "release"]
    /\ UNCHANGED <<key, basket, failure, created, resp, conn, stock, orders>>

\* Mutant of Release: a failed transaction keeps its connection (no finally).
ReleaseOnSuccessOnly(r) ==
    /\ pc[r] = "release"
    /\ conn' = IF failure[r] = "none" THEN conn \ {r} ELSE conn
    /\ \/ /\ failure[r] = "none"
          /\ Answer(r, "Created", created[r])
          /\ pc' = [pc EXCEPT ![r] = "done"]
       \/ /\ failure[r] = "DuplicateKey"
          /\ UNCHANGED resp
          /\ pc' = [pc EXCEPT ![r] = "relookup"]
       \/ /\ failure[r] \notin {"none", "DuplicateKey"}
          /\ Answer(r, failure[r], NoOrder)
          /\ pc' = [pc EXCEPT ![r] = "done"]
    /\ UNCHANGED <<handlerVars, dbVars>>

\* The finally block's release(), and createOrder's verdict on what was thrown.
Release(r) ==
    /\ pc[r] = "release"
    /\ conn' = conn \ {r}
    /\ \/ /\ failure[r] = "none"
          /\ Answer(r, "Created", created[r])
          /\ pc' = [pc EXCEPT ![r] = "done"]
       \/ /\ failure[r] = "DuplicateKey"
          /\ UNCHANGED resp
          /\ pc' = [pc EXCEPT ![r] = "relookup"]
       \/ /\ failure[r] \notin {"none", "DuplicateKey"}
          /\ Answer(r, failure[r], NoOrder)
          /\ pc' = [pc EXCEPT ![r] = "done"]
    /\ UNCHANGED <<handlerVars, dbVars>>

\* The lookup after a duplicate, on a pooled connection.  The order that made the key a
\* duplicate is committed and nothing deletes orders, so it is found: the branch that
\* answers 500 when it is not cannot be reached here.
Relookup(r) ==
    /\ pc[r] = "relookup"
    /\ ConnectionFree
    /\ IF OrdersWithKey(key[r]) # {}
         THEN \E o \in OrdersWithKey(key[r]) : Answer(r, "OK", o)
         ELSE Answer(r, "InternalServerError", NoOrder)
    /\ pc' = [pc EXCEPT ![r] = "done"]
    /\ UNCHANGED <<handlerVars, conn, dbVars>>

-----------------------------------------------------------------------------
(* What goes wrong around the handler *)

\* The transactions r may be waiting for: holders of rows it still has to lock.
WaitsFor(r) ==
    {q \in Requests : pc[r] = "lock" /\ \E p \in RowsOf(r) \ DOMAIN seen[r] : lock[p] = q}

\* r is on a cycle of the wait-for graph: every set that holds what r waits for, and
\* with each transaction what that one waits for, holds r.
InWaitCycle(r) ==
    \A S \in SUBSET Requests :
        (WaitsFor(r) \subseteq S /\ \A q \in S : WaitsFor(q) \subseteq S) => r \in S

\* PostgreSQL's deadlock detector picks r as its victim (40P01).
DeadlockAbort(r) ==
    /\ pc[r] = "lock"
    /\ InWaitCycle(r)
    /\ FailStatement(r, "InternalServerError")

\* A lookup or a connect fails once the pool lets it try: an error no branch of
\* createOrder expects.
QueryFails(r) ==
    /\ pc[r] \in {"lookup", "connect", "relookup"}
    /\ ConnectionFree
    /\ Answer(r, "InternalServerError", NoOrder)
    /\ pc' = [pc EXCEPT ![r] = "done"]
    /\ UNCHANGED <<handlerVars, conn, dbVars>>

\* BEGIN fails in a session that lives on.  It is sent before the try whose finally
\* releases: the client is answered, and r keeps the connection for good.
BeginFails(r) ==
    /\ pc[r] = "begin"
    /\ Answer(r, "InternalServerError", NoOrder)
    /\ pc' = [pc EXCEPT ![r] = "done"]
    /\ UNCHANGED <<handlerVars, conn, dbVars>>

\* r's connection breaks at or after BEGIN: PostgreSQL aborts, the statement and the
\* ROLLBACK after it fail, the pool takes the connection out.
LoseConnection(r) ==
    /\ pc[r] \in {"begin"} \cup InTransaction
    /\ EndTransaction(r)
    /\ conn' = conn \ {r}
    /\ Answer(r, "InternalServerError", NoOrder)
    /\ pc' = [pc EXCEPT ![r] = "done"]
    /\ UNCHANGED <<key, basket, failure, created, stock, orders>>

\* Mutant of LoseCommitAck: an unknown error is reported as a conflict.
LoseCommitAckAsConflict(r) ==
    /\ pc[r] = "commit"
    /\ ApplyTransaction(r)
    /\ conn' = conn \ {r}
    /\ Answer(r, "Conflict", NoOrder)
    /\ pc' = [pc EXCEPT ![r] = "done"]
    /\ UNCHANGED <<key, basket, failure, created>>

\* As above, but COMMIT had reached the database: only its answer is lost.
LoseCommitAck(r) ==
    /\ pc[r] = "commit"
    /\ ApplyTransaction(r)
    /\ conn' = conn \ {r}
    /\ Answer(r, "InternalServerError", NoOrder)
    /\ pc' = [pc EXCEPT ![r] = "done"]
    /\ UNCHANGED <<key, basket, failure, created>>

\* TimeoutInterceptor answers 408 after a second; the handler runs on.
Timeout(r) ==
    /\ pc[r] \in InFlight
    /\ resp[r].status = "none"
    /\ Answer(r, "RequestTimeout", NoOrder)
    /\ UNCHANGED <<pc, handlerVars, conn, dbVars>>

\* The API process dies with its pool and every request in flight; PostgreSQL ends
\* their transactions.  A COMMIT that made it is Commit followed by Crash.
Crash ==
    /\ \E r \in Requests : pc[r] \in InFlight \/ r \in conn
    /\ pc' = [r \in Requests |-> IF pc[r] \in InFlight THEN "dead" ELSE pc[r]]
    /\ conn' = {}
    /\ lock' = [p \in Catalog |-> None]
    /\ written' = [r \in Requests |-> EmptyView]
    /\ draft' = [r \in Requests |-> NoOrder]
    /\ seen' = [r \in Requests |-> EmptyView]
    /\ UNCHANGED <<key, basket, failure, created, resp, stock, orders>>

\* Every request is over: nothing more happens.
Quiescent ==
    /\ \A r \in Requests : pc[r] \in {"done", "dead"}
    /\ UNCHANGED vars

-----------------------------------------------------------------------------
(* What the handler or PostgreSQL will do next unless prevented. *)
Progress(r) ==
    \/ LookupHit(r)
    \/ LookupMiss(r)
    \/ Connect(r)
    \/ BeginTransaction(r)
    \/ \E p \in Catalog : LockRow(r, p)
    \/ RejectItems(r)
    \/ SaveProducts(r)
    \/ InsertOrder(r)
    \/ InsertDuplicate(r)
    \/ InsertOverflow(r)
    \/ SaveItems(r)
    \/ Commit(r)
    \/ Rollback(r)
    \/ Release(r)
    \/ Relookup(r)
    \/ DeadlockAbort(r)

Next ==
    \/ \E r \in Requests :
        \/ \E payload \in Payloads : Receive(r, payload) \/ RejectPayload(r, payload)
        \/ Progress(r)
        \/ QueryFails(r)
        \/ BeginFails(r)
        \/ LoseConnection(r)
        \/ LoseCommitAck(r)
        \/ Timeout(r)
    \/ Crash
    \/ Quiescent

Spec == Init /\ [][Next]_vars

\* The event loop and PostgreSQL keep serving: pg-pool and the lock queues are first
\* come first served, and requests are finite.  No failure is fair, except that the
\* deadlock detector does run.
FairSpec == Spec /\ \A r \in Requests : WF_vars(Progress(r))

-----------------------------------------------------------------------------
(* Properties *)

\* No unit of stock is lost or sold twice: what was there at first is what is left
\* plus what the committed orders took (orders.service.ts 115-182).
StockConserved ==
    \A p \in Catalog :
        stock[p] + SumFunction([o \in orders |-> QuantityOf(o.lines, p)])
            = InitialStock[p]

\* One key buys once: retries, twins and requests that a timeout, a lost connection or
\* a crash left unanswered never make a second order (homework05.md 9-10).
OneOrderPerKey ==
    \A o, q \in orders : o.key = q.key => o = q

\* An order the client was told about is committed, complete and under the client's
\* key; 201 is for the client's own items, 200 for an order of somebody else's making.
AckedOrdersAreDurable ==
    \A r \in Requests :
        /\ resp[r].status \in {"Created", "OK"} =>
              /\ resp[r].order \in orders
              /\ resp[r].order.key = key[r]
        /\ resp[r].status = "Created" =>
              resp[r].order.id = r /\ resp[r].order.lines = basket[r]
        /\ resp[r].status = "OK" => resp[r].order.id # r

\* A client told 400 or 409 may change the order and try again: the request it was
\* told about has taken nothing.  (408 and 500 promise no such thing.)
RejectionsPlaceNothing ==
    \A r \in Requests :
        resp[r].status \in {"BadRequest", "Conflict"} => \A o \in orders : o.id # r

\* The connections of handlers that are over: nobody will give them back.
Leaked == {r \in conn : pc[r] \notin InFlight}

\* What a handler takes ends with it, on every path but one.  A row lock or an
\* uncommitted row belongs to a handler in flight that has a connection, and a handler
\* ends with its connection still taken only if BEGIN failed, which stands outside the
\* try whose finally releases (orders.service.ts 106-109, 217-223).
NothingLeaks ==
    /\ [](\A p \in Catalog : lock[p] # None => lock[p] \in conn \ Leaked)
    /\ [](\A r \in Requests : draft[r] # NoOrder => r \in conn \ Leaked)
    /\ [][\A r \in Leaked' \ Leaked : pc[r] = "begin"]_vars

\* What the handler computes from stays true until it commits: a row it holds has the
\* stock it read, so writing an absolute value back loses no update.
HeldRowsAreFresh ==
    \A r \in Requests :
        \A p \in DOMAIN seen[r] : lock[p] = r /\ seen[r][p] = stock[p]

\* Nothing r waits for stands in its way: a connection, a row, a key, or the detector.
CanMove(r) ==
    \/ pc[r] \in {"lookup", "connect", "relookup"} /\ ConnectionFree
    \/ /\ pc[r] = "lock"
       /\ \/ DOMAIN seen[r] = RowsOf(r)
          \/ \E p \in RowsOf(r) \ DOMAIN seen[r] : lock[p] = None
          \/ InWaitCycle(r)
    \/ pc[r] = "insert" /\ (KeyPending(r) => OrderTotal(r) \notin IntColumn)
    \/ pc[r] \in {"begin", "items", "commit", "rollback", "release"}

\* BEGIN has failed as often as the pool has connections: it has none left to hand out.
PoolUsedUp == Cardinality(Leaked) >= PoolSize

\* The handlers never all wait for each other, over the pool, the rows and the keys
\* together: as long as one is in flight, one can go on, unless leaks have used up the
\* whole pool.
SomebodyCanMove ==
    (\E r \in Requests : pc[r] \in InFlight) =>
        \/ \E r \in Requests : CanMove(r)
        \/ PoolUsedUp

-----------------------------------------------------------------------------
(* The inductive invariant behind the properties above *)

\* A row lock and the copy of the row in the handler that holds it come and go together.
LocksMatchReads ==
    \A r \in Requests, p \in Catalog : lock[p] = r <=> p \in DOMAIN seen[r]

\* The locking SELECT returns rows it asked for only.
ReadsAreWanted ==
    \A r \in Requests : DOMAIN seen[r] \subseteq RowsOf(r)

\* From the checks to the COMMIT, all rows of the basket are held, suffice, and are
\* about to be lowered by the basket.
WritesMatchReads ==
    \A r \in Requests :
        pc[r] \in {"insert", "items", "commit"} =>
            /\ DOMAIN basket[r] \subseteq DOMAIN seen[r]
            /\ SameCurrency(DOMAIN basket[r], Currency)
            /\ \A p \in DOMAIN basket[r] : basket[r][p] <= seen[r][p]
            /\ written[r] = [p \in DOMAIN basket[r] |-> seen[r][p] - basket[r][p]]

InputsAreSound ==
    \A r \in Requests :
        pc[r] \in InFlight => key[r] \in Keys /\ DOMAIN basket[r] # {}

\* The uncommitted order is what the handler believes it is.
DraftsMatchHandlers ==
    \A r \in Requests :
        /\ pc[r] \notin {"items", "commit"} => draft[r] = NoOrder
        /\ pc[r] \in {"items", "commit"} =>
              /\ OrderTotal(r) \in IntColumn
              /\ draft[r].id = r
              /\ draft[r].key = key[r]
              /\ draft[r].total = OrderTotal(r)
        /\ pc[r] = "commit" => draft[r].lines = basket[r] /\ created[r] = draft[r]

\* No two orders, committed or not, have one key.
KeysAreExclusive ==
    \A r \in Requests :
        pc[r] \in {"items", "commit"} =>
            /\ \A o \in orders : o.key # key[r]
            /\ \A q \in Requests \ {r} : pc[q] \in {"items", "commit"} => key[q] # key[r]

\* A committed order belongs to a handler past its COMMIT, and a handler that is about
\* to answer 201 has one.
OrdersMatchHandlers ==
    /\ \A o \in orders :
          \/ pc[o.id] \in {"done", "dead"}
          \/ pc[o.id] = "release" /\ failure[o.id] = "none"
    /\ \A r \in Requests :
          /\ pc[r] \in {"idle", "lookup", "connect", "begin", "lock", "insert", "items",
                        "commit"} => failure[r] = "none"
          /\ pc[r] \in {"rollback", "relookup"} => failure[r] # "none"
          /\ pc[r] = "release" /\ failure[r] = "none" =>
                /\ created[r] \in orders
                /\ created[r].id = r /\ created[r].key = key[r]
                /\ created[r].lines = basket[r]

\* Connections are held from connect() to release(), or for good by a handler that is
\* over; rows are held from BEGIN to the transaction's end.
ConnectionsMatchHandlers ==
    \A r \in Requests :
        /\ pc[r] \in HoldsConnection => r \in conn
        /\ r \in conn => pc[r] \in HoldsConnection \cup {"done"}
        /\ pc[r] \notin InTransaction => seen[r] = EmptyView

\* Nobody is answered before it asked, and 400 and 409 are the handler's last word.
AnswersMatchHandlers ==
    \A r \in Requests :
        /\ pc[r] = "idle" => resp[r].status = "none"
        /\ resp[r].status \in {"BadRequest", "Conflict"} => pc[r] = "done"

IInv ==
    /\ TypeOK
    /\ IsFiniteSet(conn)
    /\ LocksMatchReads
    /\ ReadsAreWanted
    /\ HeldRowsAreFresh
    /\ WritesMatchReads
    /\ InputsAreSound
    /\ DraftsMatchHandlers
    /\ KeysAreExclusive
    /\ OrdersMatchHandlers
    /\ OneOrderPerKey
    /\ ConnectionsMatchHandlers
    /\ AnswersMatchHandlers
    /\ AckedOrdersAreDurable
    /\ RejectionsPlaceNothing

\* The orders and the stock behave as the ledger: every step of every handler either
\* places one whole order or is invisible.
Ledger == INSTANCE OrderLedger
LedgerSpec == Ledger!Spec

\* Every request that gets in comes to an end, unless leaks use up the pool: no deadlock
\* over rows, keys or connections outlives the detector, and no waiter is forgotten.
EveryRequestEnds ==
    \A r \in Requests :
        pc[r] = "lookup" ~> (pc[r] \in {"done", "dead"} \/ PoolUsedUp)

\* homework05.md 46: "duplicate idempotency key -> existing order is returned (`200`)".
\* So no request is answered 409 when its twin's order is there.
DuplicateNeverConflicts ==
    \A r \in Requests :
        resp[r].status = "Conflict" =>
            ~\E o \in orders : o.key = key[r] /\ o.lines = basket[r]

\* homework05.md 36-42: with row locks "no retry loop is needed".  So no statement of a
\* transaction fails for what the other transactions do, if the order fits its column.
NoRetryNeeded ==
    \A r \in Requests :
        failure[r] = "InternalServerError" => OrderTotal(r) \notin IntColumn
=============================================================================
