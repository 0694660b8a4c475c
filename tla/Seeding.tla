------------------------------- MODULE Seeding --------------------------------
(***************************************************************************)
(* scripts/seed.ts, run any number of times, also two at once, while       *)
(* orders are placed and clients register.  Each await is a step; a sale    *)
(* is a whole order transaction (OrderPlacement), taken at its commit.      *)
(*                                                                         *)
(* Of a product's columns only stock and is_active are ever other than the *)
(* seed's.  That the seed clears refresh_token_hash, and so logs the       *)
(* documented accounts out, is left out.                                   *)
(***************************************************************************)
EXTENDS Integers, FiniteSets

CONSTANTS
    Seeds,       \* runs of the script
    Titles,      \* those of productsSeed
    SeedStock,   \* its stock
    HandMade,    \* products there are before any seed: [id, title, stock, active]
    Accounts,    \* usersSeed: [email, password, role]
    Emails, Passwords,
    MaxSales,    \* bound on the units sold of a title
    None

SeedEmails == {a.email : a \in Accounts}
Ids == (Seeds \X Titles) \cup {p.id : p \in HandMade}
Products == [id : Ids, title : Titles, stock : Nat, active : BOOLEAN]
Users == [email : Emails, password : Passwords, role : {"USER", "ADMIN"}]

ASSUME StockAssumption == SeedStock \in [Titles -> Nat] /\ MaxSales \in Nat
ASSUME HandMadeAssumption ==
    /\ HandMade \subseteq Products
    /\ \A p \in HandMade : p.id \notin Seeds \X Titles
    /\ \A p, q \in HandMade : p.id = q.id \/ p.title = q.title => p = q
ASSUME AccountsAssumption ==
    /\ Accounts \subseteq Users
    /\ \A a, b \in Accounts : a.email = b.email => a = b
ASSUME NoneAssumption == None \notin Ids \cup Seeds

VARIABLES
    pc,         \* where each run is
    idByTitle,  \* productIdByTitle, or None for undefined
    loaded,     \* what save has found in the table
    products, users,
    overlapped, \* history: two runs were under way at once
    last,       \* history: the run that saved last
    sold,       \* history: units sold of each title
    soldBefore  \* history: what was sold when the run loaded its products

vars == <<pc, idByTitle, loaded, products, users, overlapped, last, sold, soldBefore>>

Running == {"users", "find", "load", "save", "report"}

TypeOK ==
    /\ pc \in [Seeds -> {"idle", "done", "failed", "unseeded"} \cup Running]
    /\ idByTitle \in [Seeds -> [Titles -> Ids \cup {None}]]
    /\ loaded \in [Seeds -> SUBSET Products]
    /\ products \subseteq Products
    /\ users \subseteq Users
    /\ overlapped \in BOOLEAN
    /\ last \in Seeds \cup {None}
    /\ sold \in [Titles -> Nat]
    /\ soldBefore \in [Seeds -> [Titles -> Nat]]

NoIds == [t \in Titles |-> None]

Init ==
    /\ pc = [s \in Seeds |-> "idle"]
    /\ idByTitle = [s \in Seeds |-> NoIds]
    /\ loaded = [s \in Seeds |-> {}]
    /\ products = HandMade
    /\ users = {}
    /\ overlapped = FALSE
    /\ last = None
    /\ sold = [t \in Titles |-> 0]
    /\ soldBefore = [s \in Seeds |-> [t \in Titles |-> 0]]

Go(s, from, to) == pc[s] = from /\ pc' = [pc EXCEPT ![s] = to]

\* Nothing reads what a run has found once it has saved or failed.
Forget(s) ==
    /\ idByTitle' = [idByTitle EXCEPT ![s] = NoIds]
    /\ loaded' = [loaded EXCEPT ![s] = {}]

-----------------------------------------------------------------------------
(* seed() *)

Start(s) ==
    /\ Go(s, "idle", "users")
    /\ overlapped' = (overlapped \/ \E r \in Seeds : pc[r] \in Running)
    /\ UNCHANGED <<idByTitle, loaded, products, users, last, sold, soldBefore>>

\* Mutant of UpsertUsers: ON CONFLICT DO NOTHING.
InsertMissingUsers(s) ==
    /\ Go(s, "users", "find")
    /\ users' = users \cup {a \in Accounts : \A u \in users : u.email # a.email}
    /\ UNCHANGED <<idByTitle, loaded, products, overlapped, last, sold, soldBefore>>

\* upsert(usersSeed, ['email']): one statement.
UpsertUsers(s) ==
    /\ Go(s, "users", "find")
    /\ users' = {u \in users : u.email \notin SeedEmails} \cup Accounts
    /\ UNCHANGED <<idByTitle, loaded, products, overlapped, last, sold, soldBefore>>

\* Mutant of FindExisting: the products are not looked up.
FindNothing(s) ==
    /\ Go(s, "find", "load")
    /\ UNCHANGED <<idByTitle, loaded, products, users, overlapped, last, sold, soldBefore>>

\* Of several products of one title, the Map keeps the one that find returned last.
FindExisting(s) ==
    /\ Go(s, "find", "load")
    /\ \E ids \in [Titles -> Ids \cup {None}] :
          /\ \A t \in Titles :
                IF \E p \in products : p.title = t
                  THEN \E p \in products : p.title = t /\ p.id = ids[t]
                  ELSE ids[t] = None
          /\ idByTitle' = [idByTitle EXCEPT ![s] = ids]
    /\ UNCHANGED <<loaded, products, users, overlapped, last, sold, soldBefore>>

\* save() first selects the products that have an id, to see which columns differ.
LoadProducts(s) ==
    /\ Go(s, "load", "save")
    /\ loaded' = [loaded EXCEPT ![s] =
                    {p \in products : \E t \in Titles : p.id = idByTitle[s][t]}]
    /\ soldBefore' = [soldBefore EXCEPT ![s] = sold]
    /\ UNCHANGED <<idByTitle, products, users, overlapped, last, sold>>

\* Mutant of Written: a product that is there already is left as it is.
WrittenNever(s, p) == p

\* The columns that differed when they were loaded are set to the seed's values, whatever
\* they are by now.
Written(s, p) ==
    IF \E q \in loaded[s] : q.id = p.id
      THEN LET q == CHOOSE q \in loaded[s] : q.id = p.id
           IN  [p EXCEPT !.stock  = IF q.stock = SeedStock[p.title] THEN p.stock
                                                                    ELSE SeedStock[p.title],
                         !.active = TRUE]
      ELSE p

Missing(s) == {t \in Titles : idByTitle[s][t] = None}

NewProduct(s, t) == [id |-> <<s, t>>, title |-> t, stock |-> SeedStock[t], active |-> TRUE]

\* Mutant of SaveProducts: one save per product.
SaveOneByOne(s) ==
    /\ pc[s] = "save"
    /\ \E t \in {u \in Missing(s) : \A p \in products : p.id # <<s, u>>} :
          products' = products \cup {NewProduct(s, t)}
    /\ UNCHANGED <<pc, idByTitle, loaded, users, overlapped, last, sold, soldBefore>>

\* One transaction.  The script may hear of it, or of a broken connection.
SaveProducts(s) ==
    /\ Go(s, "save", "report") \/ Go(s, "save", "failed")
    /\ products' = {Written(s, p) : p \in products} \cup {NewProduct(s, t) : t \in Missing(s)}
    /\ last' = s
    /\ Forget(s)
    /\ UNCHANGED <<users, overlapped, sold, soldBefore>>

\* What it prints of the tables changes nothing.
Report(s) ==
    /\ Go(s, "report", "done")
    /\ UNCHANGED <<idByTitle, loaded, products, users, overlapped, last, sold, soldBefore>>

\* In production; a statement fails, is chosen to end a deadlock with an order, or the
\* process is killed: "unseeded" before the upsert, "failed" after it.
Fail(s) ==
    /\ \/ Go(s, "idle", "unseeded") \/ Go(s, "users", "unseeded")
       \/ \E from \in Running \ {"users"} : Go(s, from, "failed")
    /\ Forget(s)
    /\ UNCHANGED <<products, users, overlapped, last, sold, soldBefore>>

-----------------------------------------------------------------------------
(* Meanwhile *)

\* An order for n units of p; orders do not ask whether it is listed.
Sell(p, n) ==
    /\ n <= p.stock
    /\ sold[p.title] + n <= MaxSales
    /\ products' = (products \ {p}) \cup {[p EXCEPT !.stock = p.stock - n]}
    /\ sold' = [sold EXCEPT ![p.title] = @ + n]
    /\ UNCHANGED <<pc, idByTitle, loaded, users, overlapped, last, soldBefore>>

\* AuthSessions' InsertUser.
Register(email, password) ==
    /\ \A u \in users : u.email # email
    /\ users' = users \cup {[email |-> email, password |-> password, role |-> "USER"]}
    /\ UNCHANGED <<pc, idByTitle, loaded, products, overlapped, last, sold, soldBefore>>

Next ==
    \/ \E s \in Seeds :
          \/ Start(s) \/ UpsertUsers(s) \/ FindExisting(s) \/ LoadProducts(s)
          \/ SaveProducts(s) \/ Report(s) \/ Fail(s)
    \/ \E p \in products, n \in 1..MaxSales : Sell(p, n)
    \/ \E email \in Emails, password \in Passwords : Register(email, password)

Spec == Init /\ [][Next]_vars

-----------------------------------------------------------------------------
(* Properties *)

\* GET /products without a search.
FindProducts == {p \in products : p.active}

\* Runs that follow one another, however they ended, never leave two products of one
\* title: titles have no unique index, so this hangs on the lookup before the save.
DuplicatesNeedOverlap ==
    ~overlapped => \A p, q \in products : p.title = q.title => p = q

\* The catalogue is what it was or whole, also when a run dies half way, and also for
\* runs at once.
CatalogueIsWhole ==
    {p.title : p \in products} \in {{p.title : p \in HandMade}, Titles}

\* After a run every title is listed, with the seed's stock, of which nothing is missing
\* but what was sold since the run looked; nor can sales that a run overlapped leave more
\* than the seed's stock.
SeedRestocks ==
    last # None /\ ~overlapped =>
        \A t \in Titles : \E p \in FindProducts :
            /\ p.title = t
            /\ p.stock \in (SeedStock[t] - (sold[t] - soldBefore[last][t]))..SeedStock[t]

\* docs/auth.md 135-138: from the first upsert on, the documented accounts are there with
\* the documented passwords, whoever registered their addresses first, once each, whatever
\* becomes of the run and whoever registers then; and nobody else is an administrator.
AccountsAreDocumented ==
    /\ \A u, v \in users : u.email = v.email => u = v
    /\ (\E s \in Seeds : pc[s] \notin {"idle", "users", "unseeded"}) =>
          Accounts \subseteq users
    /\ \A u \in users : u.role = "ADMIN" => u \in Accounts

-----------------------------------------------------------------------------
(* The inductive invariant behind these *)

RunsFollowOneAnother ==
    /\ ~overlapped => \A r, s \in Seeds : pc[r] \in Running /\ pc[s] \in Running => r = s
    /\ last # None => pc[last] \in {"report", "done", "failed"}

\* An id is given once.
IdsNameProducts ==
    /\ \A p, q \in products : p.id = q.id => p = q
    /\ \A s \in Seeds : pc[s] \in {"idle"} \cup (Running \ {"report"}) =>
          \A p \in products, t \in Titles : p.id # <<s, t>>

\* What a run has looked up is still so, unless another run has come between.
MapNamesProducts ==
    \A s \in Seeds : pc[s] \in {"load", "save"} => \A t \in Titles :
        IF idByTitle[s][t] # None
          THEN \E p \in products : p.title = t /\ p.id = idByTitle[s][t]
          ELSE overlapped \/ \A p \in products : p.title # t

\* What it has loaded differs from the table by the sales since.
LoadedWasThere ==
    \A s \in Seeds :
        /\ \A t \in Titles : soldBefore[s][t] <= sold[t]
        /\ pc[s] = "save" =>
              /\ \A q, r \in loaded[s] : q.id = r.id => q = r
              /\ ~overlapped => \A p \in products : \E q \in loaded[s] :
                    /\ q.id = p.id
                    /\ p.stock = q.stock - (sold[p.title] - soldBefore[s][p.title])

IInv ==
    /\ TypeOK
    /\ RunsFollowOneAnother
    /\ IdsNameProducts
    /\ MapNamesProducts
    /\ LoadedWasThere
    /\ DuplicatesNeedOverlap
    /\ CatalogueIsWhole
    /\ SeedRestocks
    /\ AccountsAreDocumented
=============================================================================
