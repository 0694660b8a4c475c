# Formal model of the coffee shop API

TLA+ models, TLC checks and TLAPS proofs for the NestJS service in `src/`: its orders
(`POST /orders`), its order listing (GraphQL `Query.orders`, with the loader of the
items' products), its sessions and guards (`POST /auth/*`), and its seed script. Paths
below are relative to the repository.

| Module | What it is |
|---|---|
| `OrderItems` | pure: `normalizeItems`, totals, currency, the DTO's checks |
| `OrderItems_proofs` | sums, the fold of `normalizeItems`, totals: lemmas for the next two |
| `OrderLedger` | abstract: what `POST /orders` promises |
| `OrderPlacement` | the handlers of `POST /orders`, the pool, PostgreSQL |
| `OrderPlacement_proofs` | its inductive invariant, conservation of stock, freedom from deadlock and refinement, proved |
| `OrdersQuery` | pure: filter, sort, cursors and pages of `Query.orders` |
| `OrdersQuery_proofs` | sorted lists, cursors, slices and windows: lemmas for the next two |
| `PureFunctions_proofs` | every page and every basket is what it should be, proved |
| `OrdersTraversal` | a client that pages while orders are committed |
| `OrdersTraversal_proofs` | its inductive invariant, proved |
| `ProductReads` | abstract: what the products of a GraphQL response promise |
| `ProductLoader` | batches, the cache of a request, `findByIds`; implements `ProductReads` |
| `ProductLoader_proofs` | its inductive invariant and refinement, proved |
| `AuthSessions` | register, login, refresh, logout and the guards |
| `AuthSessions_proofs` | its inductive invariant, proved |
| `Seeding` | the seed script, next to orders, registrations and other seeds |
| `Seeding_proofs` | its inductive invariant, proved |
| `MC*` | small instances for TLC, and properties of pure functions by enumeration |

`tlc -config X.cfg M` checks a run, `tlapm M_proofs.tla` a proof module. `PROJECT.json`
lists the runs, the mutants that show that each property can fail, the lines every
definition stands for, the hazards and the findings.

## 1. Inventory

| Component | State | Operations | Interacts with | Hard parts | Correct when |
|---|---|---|---|---|---|
| Order placement (`orders.service.ts`, `orders.controller.ts`) | `products.stock`, `orders`, `order_items`; per request its locals | lookup by key, a transaction (lock rows, check, save stock, insert order and items), rollback, second lookup | PostgreSQL (row locks, unique index, integer columns), the connection pool, the timeout interceptor, all other requests | twins and retries, row locks in any order, unknown outcome of COMMIT, 408 of a handler that runs on | stock is conserved, a key buys once, an acknowledged order is there, a refused one is not, everyone ends |
| Order queries (`orders-query.service.ts`, `orders.repository.ts`) | none (a page is a function of the table) | filter, sort, find cursors, cut a page, page info | order placement, which changes the table between pages | orders that appear in the middle of the list, equal timestamps, cursors coarser than the column | pages are adjacent, ordered and complete; cursors last; the client's loop ends |
| Authentication (`auth.service.ts`, `users.repository.ts`, adapters) | `users` with one `refresh_token_hash` each | register, login, refresh, logout | the unique index on email, clients that hold tokens, the clock | check-then-insert, a hash read and compared an scrypt later, one column for many sessions | one account per email, no token without a password, dead tokens stay dead |
| Guards and roles (`common/guards`) | none | bearer check, role check | authentication, every protected route | tokens that outlive sessions, guards in an order two lines of `app.module.ts` give | only who may gets in |
| Request timeout and error mapping (`common/interceptors`, `common/filters`) | none | 408 after a second, error bodies | every handler | the handler goes on | one answer per request, one that says the truth |
| Database schema and pool (`infrastructure/database`) | tables, indexes, at most ten connections | migrations, `connect`, `release` | everything | a handler that needs two connections, one after the other | nothing leaks |
| Product loader (`interfaces/graphql/loaders`) | cache and batches of one request | load, batch | item fields of `Query.orders`, the products table | rows in any order, several batches per response, products that change in between, a batch that fails | every item gets its own product, in one state, fetched once; every field ends |
| Product listing (`application/products`) | none | filter and sort | the products table | ties | the filter is what was asked |
| Seed (`scripts/seed.ts`) | products, users; per run its map of ids | upsert users, look products up, save them, report | order placement, registration, other seeds | two seeds at once; a seed on a live shop; a run that dies | catalogue whole, restocked and without duplicates; documented accounts as documented |
| Deployment (`.github/workflows`, `k8s`) | image tags, applied manifests | build, stage, roll out | concurrent pushes | a cancelled run between two steps | what runs is what was released |
| Users endpoints, bootstrap, configuration, logging, generated types | none worth a model | | | | |

## 2. Order placement

### From code to model

A *request* is one execution of the handler; a client's retry is another one. Every
`await` of `createOrder` and `createOrderInTransaction` is a boundary between two
actions, so that other handlers, failures and PostgreSQL may come in between:

    idle -Receive-> lookup -LookupMiss-> connect -Connect-> begin
      -BeginTransaction-> lock -SaveProducts-> insert -InsertOrder-> items
      -SaveItems-> commit -Commit-> release -Release-> done

with `LookupHit` (200), `RejectPayload` (400), `RejectItems` (400/409 by way of
`rollback`), `InsertDuplicate` (then `relookup`) and `InsertOverflow` as the other ways
through, and around all of them `BeginFails`, `QueryFails`, `LoseConnection`, `LoseCommitAck`,
`DeadlockAbort`, `Timeout` and `Crash`.

* The locking SELECT takes one row per step (`LockRow`), in any order: it has no
  `ORDER BY`, and PostgreSQL locks the rows as the scan meets them. The order really
  varies: a sequential scan follows the heap, an UPDATE moves a row's current version to
  another place in it, and two transactions with different snapshots or plans meet the
  same rows in different orders.
* `seen` is the copy of the rows in the handler, `written` and `draft` what the
  transaction has written and not committed. `SaveProducts` writes absolute values
  computed from `seen`, as the code does.
* The unique index makes a second inserter of a key wait (`KeyPending`) until the first
  has committed (duplicate) or not.
* A failing statement ends PostgreSQL's transaction at once; the handler still sends
  ROLLBACK and releases the connection.
* `connect()` and `startTransaction()` come before the `try` whose `finally` releases. When BEGIN
  fails on a connection that lives on (`BeginFails`), the handler answers 500 and keeps the
  connection for ever: `Leaked`. `homework05.md:26` has the release in the `finally`.
* `COMMIT` may take effect and its answer be lost (`LoseCommitAck`); a process that dies
  after COMMIT is `Commit` then `Crash`.
* The client is answered once: after a 408 the handler's own answer is dropped.
* `RowOf` tells the text of a product id from the row it denotes: PostgreSQL compares
  uuids and prints them in small letters, JavaScript compares the texts.
* `orders` have their items in `lines`; the id of an order is the request that inserted it.

Left out: the stub user (always the same), order status (always NEW on this path),
timestamps, wording of errors, GraphQL's way of reporting errors.

### The abstract specification

`OrderLedger` has no handler, pool, lock or transaction: whole orders appear, under keys
and ids never used before, each taking from stock what it names. `OrderPlacement` maps
`stock` and `orders` to themselves and everything else to stuttering; `LedgerSpec` is
checked by the run `odd_requests` and proved by `ImplementsLedger`.

### Runs

| Run | Instance | Shows |
|---|---|---|
| `pure_functions` (bodies) | all bodies of up to 4 lines over 3 ids and quantities 0..2 | `normalizeItems` and the total against sums over the lines |
| `rows` | 3 requests, 2 keys, 2 rows with 2 and 1 in stock, 2 connections | no overselling, no lost update, one order per key, true answers; the inductive invariant, with `TypeOK` in it |
| `odd_requests` | 2 requests: every refusal (bad key, no items, zero, unknown id, capitals, mixed currencies, too much, overflow) and good orders | refusals leave nothing; the ledger |
| `crossing` | 3 requests for both rows, any lock order, 2 connections, fairness | nothing outlives its handler but the connection of a failed BEGIN; unless those have used up the pool, the handlers never all wait for each other and every request ends |
| `twins` | 2 requests, one key, the last unit | violated: a twin is told 409 (finding) |
| `victims` | requests for two rows | violated: a good order fails because of another (finding) |

Three requests give a holder, a waiter and one more that changes what they meet; two
rows are the least for a deadlock, two keys the least for a clash and its absence; two
connections are fewer than requests, so the pool is exhausted. `MaxInt` is lowered to 3
or 20 so that a total overflows or does not; the code has 2^31 - 1 there and nothing
depends on the number. Requests are interchangeable, hence symmetry in `rows` (no
liveness there). `Quiescent` lets the model stand still when every request is over, so
deadlock checking is on: it finds any state in which somebody waits for ever.

Fairness (`FairSpec`): each request's `Progress` is weakly fair. pg-pool serves waiting
`connect()`s first come first served, PostgreSQL's lock queues do too, its deadlock
detector runs after `deadlock_timeout`, and Node's event loop runs whatever is ready.
No failure, timeout or arrival is fair.

### Proofs

`OrderPlacement_proofs` proves, for any requests, keys, products, prices, stock and pool
size, that `IInv` is inductive (`Invariance`). The properties need more than themselves:
that what a handler computes from is still true (`HeldRowsAreFresh`) holds because a row's
lock and its copy come and go together (`LocksMatchReads`); `WritesMatchReads` carries the
checks to the COMMIT; `DraftsMatchHandlers` and `KeysAreExclusive` say what PostgreSQL holds
uncommitted; `OrdersMatchHandlers`, `ConnectionsMatchHandlers` and `AnswersMatchHandlers`
tie tables, pool and answers to where the handlers are; `ReadsAreWanted` says that a
handler holds no row but those it asked for. From it follow `TypeCorrect`, `FreshRows`,
`KeyBuysOnce`, `AcksAreDurable`, `RejectionsAreFinal`, `NoLeak`, `ImplementsLedger` and:

* `StockIsConserved`: stock and what all committed orders took add up to what there was.
  The sum runs over the table of orders, which has no bound. Only `Commit` changes either
  side: `SumSplits` (of `OrderItems_proofs`) takes the new order out of the sum, and
  `WritesMatchReads` and `LocksMatchReads` say that stock goes down by what is in it.
* `NoLeak` (`NothingLeaks`): no lock or uncommitted row outlives its handler, a connection
  does only when BEGIN has failed, and no other step leaks one.
* `NoDeadlock` (`SomebodyCanMove`): over connections, rows and keys *together* somebody can
  always go on, unless failed BEGINs have leaked the whole pool (`PoolUsedUp`). Suppose
  nobody can. A handler that waits for a connection holds nothing, so, not all being
  leaked, some other one holds it (`ConnectionsMatchHandlers`), and that one waits for a row or a
  key. A handler that waits for a key waits for one that is past the insert, and such a
  handler waits for nothing. So all that is left waits for rows, each for a row that
  another of them holds; as a pool is finite, there is
  a smallest set of such handlers that wait within it, which is a cycle
  (`WaitersFormCycle`), and a cycle of row waiters is what PostgreSQL's detector breaks. The property spells out the guards of
  `Progress` as `CanMove`, since ENABLED is out of the provers' reach. It is safety: that
  a step can be taken, not that it is, which is `EveryRequestEnds`.

`OrderItems_proofs` has the lemmas these rest on and which no library theorem here gives:
sums over finite sets (`SumOfNone`, `SumType`, `SumAgrees`, `SumSplits`) and folds
(`NormalizeIsLoop`, `NormalizeOneMore`); and the theorem `TotalOfOneMore` about the basket. Induction principles take an operator as a parameter, which the provers
cannot instantiate; each induction here is an argument by least counterexample instead
(`LeastNumber`, `SmallestSet`): were the claim false of some set or length, it would be
false of a smallest one. `PureFunctions_proofs` builds on it: for a body of any length and
any prices, the basket has for each product the sum over its lines (`BasketsAreSums`), and
the total is that of the lines (`TotalsAreThoseOfLines`).

Assumptions: the pool has a connection, the catalogue is well formed, `None` is nobody,
`PayloadsAssumption`, that what passes the DTO's validation is an array of items with
integer quantities, and `BodiesAssumption`, that quantities and prices are integers.

Only model-checked: `EveryRequestEnds` (fairness).

## 3. Order queries

`OrdersQuery` has the pipeline of `listOrdersConnection` as functions of the table:
`FindOrdersByFilter` (date range, status, newest first, then id), `CursorIndex`,
`StartIndex`, `EndIndex`, `JsSlice` (with JavaScript's negative indices), `PageNodes` and
the page info. Timestamps are in ticks of the column (microseconds), `TicksPerMs` of
which make one millisecond of a cursor. Date and cursor texts are good or malformed.
`QueryOrders` is the resolver: its `ValidationPipe` (`PipeAccepts`, the decorators of the DTOs)
stands in front of `ListOrdersConnection`. Over GraphQL a size above 100 is therefore refused
and never capped; the cap is the service's, for any caller, and the properties of pages
are stated of the service. A null size passes the pipe and is refused by the service.

* `pure_functions` (pages) enumerates tables of up to 3 orders over 3 instants, sizes
  (missing, null, 0, 1, 2, above the cap), cursors (missing, malformed, of an order, of
  none) and filters (`MCFilters`: none, another status, either date alone, both equal, the
  first later than the second, either malformed), and compares each page with a
  definition by sets of orders, and the refusals of resolver and service together with
  what a question deserves.
* `short_page` (violated): a backward page over a window shorter than `last` (finding).
* `traversal`: a client pages forward by one over everything, or backward by three over
  a date range, while orders are committed anywhere in the list, since `created_at` is
  the time a transaction *began*. Pages are in order, nothing that was there at the start
  is skipped or repeated, a cursor once given stays good, every page that was announced
  brings an order that is new, and the client's loop ends.
  The last needs fairness of the client alone (it goes on while told there is more) and
  that orders are finite (4 ids). The run checks the inductive invariant of the proofs, too.

One run enumerates bodies and pages, since both are inputs of pure functions: a behaviour
of `MCPureFunctions` builds either a body or a table with one question.
`CHECK_DEADLOCK FALSE` in these runs: `pure_functions` and `short_page` generate one
input per behaviour and stop, and the traversal stops when the client and the ids are done.
`findOrdersByDateRange` has no caller and is left out.

### Proofs

`OrdersQuery_proofs` has the lemmas about the functions: `SortedIsList` (the query's
result has each selected order once, in the order of `NewestFirst`), `CursorFindsItsOrder`
(a cursor is found at its order's place and at no other: ids are unique, so the lost
microseconds do not matter), and `PageIsSlice` (a page is the list between two places,
negative arguments of `slice` included). `SliceIsSegment` and `CursorSplitsList` turn places
into sets of orders: what lies between two places is what is older than the one and newer
than the other.

`PureFunctions_proofs` proves the four properties of pages for any table of orders with
distinct ids, any filter, cursors and sizes: `ForwardPagesAreRelay`,
`BackwardPagesAreAdjacent`, `PageInfoTellsTheTruth` and `RefusalsHaveReasons`. The
invariant there says only what a table and a question can be (`TypedTable`, `TypedQuestion`);
the work is in the functions.

`OrdersTraversal_proofs` proves, for any ids, instants, plans and numbers of orders
committed in between, that `IInv` is inductive (`Invariance`), and `PagesStayInOrder`,
`NoOrderIsSkipped`, `CursorsStayGood` and the action property `PagesAreNews`. That nothing was skipped *at the end* is not
inductive. What is: between two pages the client holds the cursor of the order it has got
to (`CursorIsReached`), all it has been shown is still selected by the filter, and of the
orders there were at the beginning each was shown or is still ahead (`NothingPassedOver`).
The next page starts right behind that order wherever new ones have appeared, so this is
kept, and when pageInfo says that there is no more, nothing is ahead. When it says that
there is more, something is (`MoreIsAhead`), so the next page is not empty and, the pages
being in order, new: `EveryPageIsNews`, from which termination follows as orders are finite.

Assumptions: `ClockAssumption`, `PageAssumption` (the default page size is positive and at
most the greatest), `MarkersAssumption` (undefined, null and malformed values differ from
one another, from numbers and from cursors), `OrdersAssumption`,
`QuestionsAssumption` and `FiltersAssumption` (ids, instants and dates are numbers, sizes
integers or missing), and `PlansAssumption`: a client asks for a size from 1 to 100 and
a date range that is accepted.

Only model-checked: `TraversalEnds` (fairness). `BackwardPageIsFull` is false (finding).

## 4. Products in a response

`OrderItem.product` is resolved by `ProductLoader.load`, one field at a time, whenever the
GraphQL executor gets to it. `ProductLoader` has the code in `product.loader.ts` and
`products.repository.ts` on top of the dataloader package, which is modelled from how
it is used: a field either joins a cached promise (`LoadCached`) or adds its key to the
batch being collected or to a new one (`LoadNew`); the batch is dispatched, `FindByIds`
reads its rows in one statement and in any order, or fails (`FindFails`, which forgets the
keys, so that a later field tries again), and `Settle` answers all its fields by position,
through `BatchAnswers`. A batch is named by the field that opened it. In between, products
change (`ProductChanges`). Loaders belong to a request (`Scope.REQUEST`).

`ProductReads` is the abstract specification: no batch, cache, position or order of rows,
only that a request reads a product at most once and answers the fields of that product
with what it read, or with an error. `ProductLoader` maps to it by

* `begun`: the requests with a field that has asked;
* `memo`: for each product whose cached batch has its rows, what the batch has for it;
* the table and the answers to themselves.

Opening, filling and dispatching batches are stutters. `ReadsSpec` is checked by the run
`loader` and proved by `ImplementsReads`.

* `loader`: two responses; the first has one product twice and another one, the second
  the first product again; products change twice. Two fields of one product in one
  response are the least for a stale or a second fetch, a second product the least for a
  batch in a wrong order, a second response the least for one loader leaking into another.
  `EveryFieldEnds` assumes that the event loop dispatches and settles, and that a
  statement ends one way or the other (weak fairness of each, per batch; which way is
  not fair). Arrivals and changes are not fair. Fields are finite, so the system stops:
  `CHECK_DEADLOCK FALSE`.

`ProductLoader_proofs` proves `IInv` inductive for any requests, fields and products. The
point is `CacheMatchesBatches`: the cache names, for each request and product, the one
batch that has not failed with that product among its keys. With it
`FieldsMatchCache` says that a field which is not failed waits for, or shows, what the
cache names, so two fields of one product show one row. Theorems: `Invariance`, `TypeCorrect`,
`NobodyIsStranded` (whoever waits, waits for a batch that has its id and has a step left),
`ItemsShowTheirProduct`, `ResponsesAreConsistent`, `ProductsAreFetchedOnce`,
`ImplementsReads`. Assumptions: every field has a request and a product, and the markers
differ from rows. `EveryFieldEnds` is only model-checked.

Abstracted: a cached field waits for the batch of the moment as well as for its own (an
answer comes later, and is the same), a batch has no greatest size (neither has the
code's), and the texts of errors. A product of an order cannot be deleted (the foreign
key of `order_items` is RESTRICT), so `null` for a missing product does not arise.

## 5. Authentication and guards

A handler of `AuthSessions` goes through `find`, `insert`, `sign`, `store` (register and
login) or `verify`, then `read`, `compare` (refresh) or `clear` (logout). A token is whom it
is for and the second it was signed in: two signed in one second are one text, as JWTs with
the same payload and `iat` are. Clients send credentials, or tokens they were answered. A
statement may fail without effect, or take effect while its answer is lost, unless
`Outages` is FALSE. `live` is a history variable: that the token was its user's current
one at some time since the request came in. Hashes are exact, the clock stops at `MaxTime`,
and the pool is not part of this module (no handler holds a connection across statements,
except that `save` has its own short transaction). Users are also written by
`scripts/seed.ts`, whose upsert sets the password and role of a documented account and
clears its session: that writer is in `Seeding`, not here, so the properties of this module
are those of a shop no seed runs on meanwhile.

`AuthGuard` and `RolesGuard` are one action, `Access`, since together they make one query:
the bearer token is verified and its user looked up (401), then the user's role is
compared with what the route asks for (403). `Guarded` are the protected routes as the
guards see them: any (`access`), and the one with `@Roles(Role.ADMIN)` (`remove`,
`DELETE /users/:id`, whose handler is a stub). HTTP and GraphQL requests differ in where
the request is found, which the model does not tell apart. The guards come before the
interceptors: no 408 while they wait.

* `sessions`: three requests of any kind over two emails (one has an account, an
  administrator's) and two passwords, tokens that expire after 1 and 2 of 2 seconds. One
  account per email and it is that of the client told so; a client is handed tokens only
  for a password, or a handed-out refresh token of that user, that it has sent itself; a
  dead token refreshes nothing; nobody passes the guards for whom no password was
  presented, nor as an administrator whom the seed has not made one; nobody's session is
  replaced or ended by a stranger. Three requests are a
  registration or login, a second one that replaces its session, and the refresh or the
  guarded request that comes too late. Requests are finite, so the system stops:
  `CHECK_DEADLOCK FALSE`.
* `taken_email` (violated): the loser of a race for an email is answered 500 (finding).

`AuthSessions_proofs` proves `IInv` inductive (`Invariance`) and from it `TypeCorrect`,
`EmailsAreUnique`, `TokensFollowPasswords`, `RefreshNeedsSession`, `GuardsHold` and the
action property `SessionsBelongToOwners`, for any number of requests, users, passwords,
TTLs and seconds. The strengthening says which
handler is where and what it has set (`PhasesMatchOps`), that an account belongs to a
handler past its insert (`AccountsMatchHandlers`), that what is about to be stored,
compared or let in is sound (`TokensMatchHandlers`), that whoever is about to touch a row
is entitled to (`HandlersSpeakForUsers`), and that the history is kept (`LiveIsCurrent`).
`SessionsEndByTheirOwner` says who may end a session, not that it is the session the token
was of: a logout with an older token of the user ends the newer session, too (section 7).
Assumptions: seeded accounts are distinct and have no session, `None` is nothing else.

## 6. The seed

`Seeding` has any number of runs of `scripts/seed.ts`, each of which may begin at any time,
fail at any step or be killed: `Start`, `UpsertUsers`, `FindExisting`, `LoadProducts` and
`SaveProducts` (the SELECT and the transaction inside TypeORM's `save`), `Report`. `save`
writes only the columns that differed when it loaded them: with the stock at the seed's
value then, what is sold before the UPDATE stays sold; otherwise it is overwritten
(`Written`). Meanwhile units are sold (`Sell`, a whole order transaction of
`OrderPlacement` at its commit) and addresses registered (`Register`, `InsertUser` of
`AuthSessions`). `overlapped`, `last`, `sold` and `soldBefore` are history variables. A run
that died before its upsert took effect is "unseeded", one that died after it "failed":
`AccountsAreDocumented` holds from the first upsert on, whatever became of its run.

* `seeds`: three runs, three titles with 2, 1 and 1 in stock, one of which has a product
  made by hand and taken off the list, up to 2 units sold of each, two documented accounts
  whose addresses may be registered with another password. Two runs are the least for an
  overlap, the third comes after it; a product that exists, one that does not and another
  one that does not are the cases of `save`; two sales reach the bottom of the stock and
  may fall before and after a load. Runs and sales are finite: `CHECK_DEADLOCK FALSE`.
  Runs are interchangeable, hence symmetry (no liveness here).

`DuplicatesNeedOverlap` is as much as holds: runs that overlap do leave two products of
one title (the model has them, and `overlapped` is what the property needs to be true).

`Seeding_proofs` proves `IInv` inductive (`Invariance`), and `TypeCorrect`, `TitlesAreUnique`,
`SeedIsAtomic`, `SeedReachesItsTarget` and `AccountsFollowTheDocument`, for any runs,
titles, stock, accounts and sales. What is needed besides: runs that do not overlap
follow one another (`RunsFollowOneAnother`), ids are given once (`IdsNameProducts`), what a
run looked up is still so unless another came between (`MapNamesProducts`), and what it
loaded differs from the table by the sales since (`LoadedWasThere`). Assumptions: the
products and accounts in the source are distinct, and ids made by hand are not the seed's.

## 7. Findings

1. `twins`: `homework05.md:46` promises the existing order for a duplicate key. The stock
   check comes before the insert that notices the duplicate: the twin of the request
   that took the last unit is told 409 while the order exists.
2. `victims`: `homework05.md:40` chooses row locks because no retry loop is needed. Rows are
   locked in no fixed order, so one of two good orders may be the deadlock victim and is
   answered 500.
3. `short_page`: with fewer orders in the window than `last`, `slice` gets a negative start
   and the page leaves orders out. A client that pages on gets them one page later
   (`traversal`), but `last: 3` of 2 orders shows 1.
4. `taken_email`: the unit test says that register throws `EmailAlreadyExistsError` for a
   taken address; in a race it is a `QueryFailedError`, hence 500 instead of 409.

Met on the way, with no document to set against them, or too small for a run:

* `first: null` is refused with 400; an expired or malformed refresh token is answered 500;
  a logout with an old token ends the newer session, and of two logins at once the last
  stored one wins, which need not be the last answered.
* `findUserByAccessToken` returns a promise it does not await inside its `try`: a failing
  database makes the guard answer 500.
* `startTransaction` stands outside the `try` whose `finally` releases the connection: a BEGIN
  that fails on a connection that lives on keeps it, and ten of them stop the service.
  The model has it (`BeginFails`); it is the named exception of `NothingLeaks`,
  `SomebodyCanMove` and `EveryRequestEnds`, and the only one they need.
* A key that is reused with other items returns the old order and ignores the new items
  (as `homework05.md` has it).
* Guards and interceptors do not run for field resolvers: `OrderItem.product` is covered by
  those of `Query.orders`, whose interceptor is done when it starts.
* `test/app.e2e-spec.ts:21-26` expects 200 of `GET /` without a token; the global
  `AuthGuard` answers 401.
* Orders do not ask whether a product is listed (`is_active`).
* Duplicate products left by seeds that overlapped are never healed by a later seed.

## 8. Not modelled

* `GET /products`: one SELECT without state. Which products it lists is `FindProducts` of
  `Seeding`; search is PostgreSQL's ILIKE, sorting its ORDER BY, and ties are in any order,
  with no page to lose them. `findOrdersByDateRange` is a SELECT that nothing calls.
* Users endpoints: a stub that keeps no state; who may call `DELETE` is in `AuthSessions`.
* The wording of errors, validation of formats (class-validator), Swagger, logging,
  configuration and the wiring of modules.
* Migrations: `compose.yml` has TypeORM run them, in transactions of TypeORM's, before the API
  starts. Their constraints are in `OrderPlacement`, `AuthSessions` and `Seeding`.
* Deployment: what the workflow's steps do is in kubectl, k3s and GitHub's runners.
* The pool's own repair: which errors leave a session alive after a failed BEGIN is
  decided inside pg and TypeORM; the model has either.
* Volume: every page of `Query.orders` loads all orders of the filter, and past the one
  second of the interceptor no page is answered; the models have no cost.
* Liveness of `AuthSessions` and `Seeding`: no handler there waits for another, so that each
  ends hangs on nothing but its own statements.

## 9. What is proved and what is left

Every invariant, action property and refinement that a passing run checks is also a
theorem, for any values of the constants. Three properties are liveness under fairness and
stay with the runs: `EveryRequestEnds`, `TraversalEnds` and `EveryFieldEnds`. What is
safety in each of them is proved: somebody can always go on (`NoDeadlock`, with a leaked pool
as its exception), each page
brings something new (`PagesAreNews`), and a field that waits has a batch that is going to
answer it (`NobodyIsStranded`). `TypeOK` is a conjunct of each `IInv`, which the runs check
in its place.

What may come next:

* for `EveryRequestEnds`: that no step takes a handler back and each takes something away
  that is finite, as an action property;
* the pure parts of `Seeding` (`Written`, what `save` does to a row) as lemmas of their own;
* that the properties of `OrderLedger` and `ProductReads` hold of every implementation:
  theorems of the abstract specifications, and by refinement of the detailed ones.
