---------------------------- MODULE Seeding_proofs ----------------------------
(***************************************************************************)
(* For any number of runs of the seed, titles, accounts and sales: the     *)
(* inductive invariant of Seeding, and what follows from it.               *)
(***************************************************************************)
EXTENDS Seeding, TLAPS

USE StockAssumption, HandMadeAssumption, AccountsAssumption, NoneAssumption

THEOREM InitInvariant == Init => IInv
<1> SUFFICES ASSUME Init PROVE IInv
    OBVIOUS
<1> USE DEF Init
<1>1. TypeOK
    BY DEF TypeOK, NoIds, Products
<1>2. RunsFollowOneAnother
    BY DEF RunsFollowOneAnother, Running
<1>3. IdsNameProducts
    <2>1. \A s \in Seeds, t \in Titles : <<s, t>> \in Seeds \X Titles
        OBVIOUS
    <2> QED
        BY <2>1 DEF IdsNameProducts
<1>4. MapNamesProducts
    BY DEF MapNamesProducts
<1>5. LoadedWasThere
    BY DEF LoadedWasThere
<1>6. DuplicatesNeedOverlap /\ CatalogueIsWhole /\ SeedRestocks
    BY DEF DuplicatesNeedOverlap, CatalogueIsWhole, SeedRestocks
<1>7. AccountsAreDocumented
    BY DEF AccountsAreDocumented
<1> QED
    BY <1>1, <1>2, <1>3, <1>4, <1>5, <1>6, <1>7 DEF IInv

-----------------------------------------------------------------------------
(* The steps that leave the products alone *)

\* What IInv says of the tables holds of tables that did not change.
LEMMA TablesStay ==
    ASSUME IInv, UNCHANGED <<products, last, sold>>,
           last # None => soldBefore'[last] = soldBefore[last],
           overlapped => overlapped'
    PROVE  DuplicatesNeedOverlap' /\ CatalogueIsWhole' /\ SeedRestocks'
<1>1. DuplicatesNeedOverlap'
    BY DEF IInv, DuplicatesNeedOverlap
<1>2. CatalogueIsWhole'
    BY DEF IInv, CatalogueIsWhole
<1>3. SeedRestocks'
    BY DEF IInv, SeedRestocks, FindProducts
<1> QED
    BY <1>1, <1>2, <1>3

LEMMA StartKeeps ==
    ASSUME IInv, NEW s \in Seeds, Start(s)
    PROVE  IInv'
<1> USE DEF IInv, Start, Go
<1>1. TypeOK'
    BY DEF TypeOK, Running
<1>2. RunsFollowOneAnother'
    <2>1. ASSUME ~overlapped', NEW r \in Seeds, NEW q \in Seeds,
                 pc'[r] \in Running, pc'[q] \in Running
          PROVE  r = q
        <3>1. ~overlapped /\ \A x \in Seeds : pc[x] \notin Running
            BY <2>1
        <3>2. \A x \in Seeds : x # s => pc'[x] = pc[x]
            BY DEF TypeOK
        <3> QED
            BY <2>1, <3>1, <3>2
    <2>2. last' # None => pc'[last'] \in {"report", "done", "failed"}
        BY DEF RunsFollowOneAnother, TypeOK
    <2> QED
        BY <2>1, <2>2 DEF RunsFollowOneAnother
<1>3. IdsNameProducts'
    BY DEF IdsNameProducts, TypeOK, Running
<1>4. MapNamesProducts'
    BY DEF MapNamesProducts, TypeOK
<1>5. LoadedWasThere'
    BY DEF LoadedWasThere, TypeOK
<1>6. DuplicatesNeedOverlap' /\ CatalogueIsWhole' /\ SeedRestocks'
    BY TablesStay
<1>7. AccountsAreDocumented'
    BY DEF AccountsAreDocumented, TypeOK
<1> QED
    BY <1>1, <1>2, <1>3, <1>4, <1>5, <1>6, <1>7

LEMMA UpsertUsersKeeps ==
    ASSUME IInv, NEW s \in Seeds, UpsertUsers(s)
    PROVE  IInv'
<1> USE DEF IInv, UpsertUsers, Go
<1>1. TypeOK'
    BY DEF TypeOK, Running
<1>2. RunsFollowOneAnother'
    BY DEF RunsFollowOneAnother, TypeOK, Running
<1>3. IdsNameProducts'
    BY DEF IdsNameProducts, TypeOK, Running
<1>4. MapNamesProducts'
    BY DEF MapNamesProducts, TypeOK
<1>5. LoadedWasThere'
    BY DEF LoadedWasThere, TypeOK
<1>6. DuplicatesNeedOverlap' /\ CatalogueIsWhole' /\ SeedRestocks'
    BY TablesStay
<1>7. AccountsAreDocumented'
    BY DEF AccountsAreDocumented, SeedEmails
<1> QED
    BY <1>1, <1>2, <1>3, <1>4, <1>5, <1>6, <1>7

LEMMA FindExistingKeeps ==
    ASSUME IInv, NEW s \in Seeds, FindExisting(s)
    PROVE  IInv'
<1> USE DEF IInv
<1>1. TypeOK'
    BY DEF TypeOK, FindExisting, Go, Running
<1>2. RunsFollowOneAnother'
    BY DEF RunsFollowOneAnother, FindExisting, Go, TypeOK, Running
<1>3. IdsNameProducts'
    BY DEF IdsNameProducts, FindExisting, Go, TypeOK, Running
<1>4. MapNamesProducts'
    <2> SUFFICES ASSUME NEW r \in Seeds, pc'[r] \in {"load", "save"}, NEW t \in Titles
                 PROVE  IF idByTitle'[r][t] # None
                          THEN \E p \in products : p.title = t /\ p.id = idByTitle'[r][t]
                          ELSE overlapped \/ \A p \in products : p.title # t
        BY DEF MapNamesProducts, FindExisting
    <2>1. CASE r = s
        <3>1. PICK ids \in [Titles -> Ids \cup {None}] :
                  /\ IF \E p \in products : p.title = t
                       THEN \E p \in products : p.title = t /\ p.id = ids[t]
                       ELSE ids[t] = None
                  /\ idByTitle' = [idByTitle EXCEPT ![s] = ids]
            BY DEF FindExisting
        <3>2. idByTitle'[r][t] = ids[t]
            BY <2>1, <3>1 DEF TypeOK
        <3>3. \A p \in products : p.id # None
            BY DEF TypeOK, Products
        <3> QED
            BY <3>1, <3>2, <3>3
    <2>2. CASE r # s
        BY <2>2 DEF MapNamesProducts, FindExisting, Go, TypeOK
    <2> QED
        BY <2>1, <2>2
<1>5. LoadedWasThere'
    BY DEF LoadedWasThere, FindExisting, Go, TypeOK
<1>6. DuplicatesNeedOverlap' /\ CatalogueIsWhole' /\ SeedRestocks'
    BY TablesStay DEF FindExisting
<1>7. AccountsAreDocumented'
    BY DEF AccountsAreDocumented, FindExisting, Go, TypeOK
<1> QED
    BY <1>1, <1>2, <1>3, <1>4, <1>5, <1>6, <1>7

\* While no run comes between, every product is one that the run has looked up.
LEMMA ProductsWereLookedUp ==
    ASSUME IInv, NEW s \in Seeds, pc[s] \in {"load", "save"}, ~overlapped,
           NEW p \in products
    PROVE  p.id = idByTitle[s][p.title]
<1>1. p.title \in Titles
    BY DEF IInv, TypeOK, Products
<1>2. PICK q \in products : q.title = p.title /\ q.id = idByTitle[s][p.title]
    BY <1>1 DEF IInv, MapNamesProducts
<1> QED
    BY <1>2 DEF IInv, DuplicatesNeedOverlap

LEMMA LoadProductsKeeps ==
    ASSUME IInv, NEW s \in Seeds, LoadProducts(s)
    PROVE  IInv'
<1> USE DEF IInv, LoadProducts, Go
<1>1. TypeOK'
    BY DEF TypeOK, Running
<1>2. RunsFollowOneAnother'
    BY DEF RunsFollowOneAnother, TypeOK, Running
<1>3. IdsNameProducts'
    BY DEF IdsNameProducts, TypeOK, Running
<1>4. MapNamesProducts'
    BY DEF MapNamesProducts, TypeOK
<1>5. LoadedWasThere'
    <2> SUFFICES ASSUME NEW r \in Seeds
                 PROVE  /\ \A t \in Titles : soldBefore'[r][t] <= sold[t]
                        /\ pc'[r] = "save" =>
                              /\ \A q, u \in loaded'[r] : q.id = u.id => q = u
                              /\ ~overlapped => \A p \in products : \E q \in loaded'[r] :
                                    /\ q.id = p.id
                                    /\ p.stock = q.stock
                                          - (sold[p.title] - soldBefore'[r][p.title])
        BY DEF LoadedWasThere
    <2>1. CASE r = s
        <3>1. /\ loaded'[s] = {p \in products : \E t \in Titles : p.id = idByTitle[s][t]}
              /\ soldBefore'[s] = sold
            BY DEF TypeOK
        <3>2. \A q, u \in loaded'[s] : q.id = u.id => q = u
            BY <3>1 DEF IdsNameProducts
        <3>3. ASSUME ~overlapped, NEW p \in products
              PROVE  /\ p \in loaded'[s]
                     /\ p.stock = p.stock - (sold[p.title] - sold[p.title])
            BY <3>1, <3>3, ProductsWereLookedUp DEF TypeOK, Products
        <3>4. \A t \in Titles : sold[t] <= sold[t]
            BY DEF TypeOK
        <3> QED
            BY <2>1, <3>1, <3>2, <3>3, <3>4
    <2>2. CASE r # s
        BY <2>2 DEF LoadedWasThere, TypeOK
    <2> QED
        BY <2>1, <2>2
<1>6. DuplicatesNeedOverlap' /\ CatalogueIsWhole' /\ SeedRestocks'
    <2>1. last # None => soldBefore'[last] = soldBefore[last]
        BY DEF RunsFollowOneAnother, TypeOK
    <2> QED
        BY <2>1, TablesStay
<1>7. AccountsAreDocumented'
    BY DEF AccountsAreDocumented, TypeOK
<1> QED
    BY <1>1, <1>2, <1>3, <1>4, <1>5, <1>6, <1>7

LEMMA ReportKeeps ==
    ASSUME IInv, NEW s \in Seeds, Report(s)
    PROVE  IInv'
<1> USE DEF IInv, Report, Go
<1>1. TypeOK'
    BY DEF TypeOK, Running
<1>2. RunsFollowOneAnother'
    BY DEF RunsFollowOneAnother, TypeOK, Running
<1>3. IdsNameProducts'
    BY DEF IdsNameProducts, TypeOK, Running
<1>4. MapNamesProducts'
    BY DEF MapNamesProducts, TypeOK
<1>5. LoadedWasThere'
    BY DEF LoadedWasThere, TypeOK
<1>6. DuplicatesNeedOverlap' /\ CatalogueIsWhole' /\ SeedRestocks'
    BY TablesStay
<1>7. AccountsAreDocumented'
    BY DEF AccountsAreDocumented, TypeOK
<1> QED
    BY <1>1, <1>2, <1>3, <1>4, <1>5, <1>6, <1>7

LEMMA FailKeeps ==
    ASSUME IInv, NEW s \in Seeds, Fail(s)
    PROVE  IInv'
<1> USE DEF IInv
<1>1. PICK end \in {"failed", "unseeded"} :
         /\ pc[s] \in {"idle"} \cup Running /\ pc' = [pc EXCEPT ![s] = end]
         /\ end = "failed" => pc[s] \notin {"idle", "users"}
         /\ end = "unseeded" => pc[s] \in {"idle", "users"}
    BY DEF Fail, Go, Running
<1>a. end \notin {"idle", "done"} \cup Running /\ pc'[s] = end
      /\ \A r \in Seeds : r # s => pc'[r] = pc[r]
    BY <1>1 DEF Running, TypeOK
<1> USE DEF Fail, Forget
<1>2. TypeOK'
    BY <1>1 DEF TypeOK, NoIds, Running
<1>3. RunsFollowOneAnother'
  <2>1. (last # None => pc[last] \in {"report", "done", "failed"})'
    BY <1>1, <1>a DEF RunsFollowOneAnother, TypeOK, Running
  <2>2. (~overlapped => \A r, q \in Seeds : pc[r] \in Running /\ pc[q] \in Running => r = q)'
    BY <1>1, <1>a DEF RunsFollowOneAnother
  <2> QED
    BY <2>1, <2>2 DEF RunsFollowOneAnother
<1>4. IdsNameProducts'
    BY <1>1 DEF IdsNameProducts, TypeOK, Running
<1>5. MapNamesProducts'
    BY <1>1 DEF MapNamesProducts, TypeOK
<1>6. LoadedWasThere'
    BY <1>1 DEF LoadedWasThere, TypeOK
<1>7. DuplicatesNeedOverlap' /\ CatalogueIsWhole' /\ SeedRestocks'
    BY TablesStay
<1>8. AccountsAreDocumented'
  <2>1. \A r \in Seeds : pc'[r] \notin {"idle", "users", "unseeded"} =>
                             pc[r] \notin {"idle", "users", "unseeded"}
    BY <1>1, <1>a DEF Running
  <2> QED
    BY <2>1 DEF AccountsAreDocumented
<1> QED
    BY <1>2, <1>3, <1>4, <1>5, <1>6, <1>7, <1>8

LEMMA RegisterKeeps ==
    ASSUME IInv, NEW email \in Emails, NEW password \in Passwords,
           Register(email, password)
    PROVE  IInv'
<1> USE DEF IInv, Register
<1>1. TypeOK'
    BY DEF TypeOK, Users
<1>2. RunsFollowOneAnother' /\ IdsNameProducts' /\ MapNamesProducts' /\ LoadedWasThere'
    BY DEF RunsFollowOneAnother, IdsNameProducts, MapNamesProducts, LoadedWasThere
<1>3. DuplicatesNeedOverlap' /\ CatalogueIsWhole' /\ SeedRestocks'
    BY TablesStay
<1>4. AccountsAreDocumented'
    BY DEF AccountsAreDocumented
<1> QED
    BY <1>1, <1>2, <1>3, <1>4

-----------------------------------------------------------------------------
(* The steps that change the products *)

\* A sale: the product it is of, before and after.
LEMMA SellKeeps ==
    ASSUME IInv, NEW p \in products, NEW n \in 1..MaxSales, Sell(p, n)
    PROVE  IInv'
<1> USE DEF IInv
<1> DEFINE sale == [p EXCEPT !.stock = p.stock - n]
           After(q) == IF q = p THEN sale ELSE q
<1>1. /\ p \in Products /\ p.stock - n \in Nat /\ n \in Nat
      /\ sale \in Products /\ sale.id = p.id /\ sale.title = p.title
      /\ sale.active = p.active /\ sale.stock = p.stock - n
    BY DEF TypeOK, Sell, Products
<1>2. /\ \A q \in products : After(q) \in products'
      /\ \A q \in products' : \E r \in products : q = After(r)
      /\ \A q \in products : After(q).id = q.id /\ After(q).title = q.title
                               /\ After(q).active = q.active
    <2>1. products' = (products \ {p}) \cup {sale}
        BY DEF Sell
    <2> HIDE DEF sale
    <2> QED
        BY <1>1, <2>1
<1>3. /\ sold \in [Titles -> Nat] /\ p.title \in Titles
      /\ sold' = [sold EXCEPT ![p.title] = sold[p.title] + n]
    BY <1>1 DEF TypeOK, Sell, Products
<1>4. UNCHANGED <<pc, idByTitle, loaded, users, overlapped, last, soldBefore>>
    BY DEF Sell
<1>5. \A q \in products : q \in Products
    BY DEF TypeOK
<1> HIDE DEF sale
<1>6. TypeOK'
    <2>1. products' \subseteq Products
        BY <1>1, <1>2, <1>5
    <2> QED
        BY <1>1, <1>3, <1>4, <2>1 DEF TypeOK
<1>7. RunsFollowOneAnother'
    BY <1>4 DEF RunsFollowOneAnother
<1>8. IdsNameProducts'
    <2> HIDE DEF After
    <2> QED
        BY <1>2, <1>4 DEF IdsNameProducts
<1>9. MapNamesProducts'
    <2> HIDE DEF After
    <2> QED
        BY <1>2, <1>4 DEF MapNamesProducts
<1>10. LoadedWasThere'
    <2>1. ASSUME NEW s \in Seeds
          PROVE  \A t \in Titles : soldBefore'[s][t] <= sold'[t]
        BY <1>1, <1>3, <1>4 DEF LoadedWasThere, TypeOK
    <2>2. ASSUME NEW s \in Seeds, pc[s] = "save", ~overlapped, NEW q \in products
          PROVE  \E u \in loaded[s] :
                    /\ u.id = After(q).id
                    /\ After(q).stock = u.stock - (sold'[q.title] - soldBefore[s][q.title])
        <3>1. PICK u \in loaded[s] :
                    /\ u.id = q.id
                    /\ q.stock = u.stock - (sold[q.title] - soldBefore[s][q.title])
            BY <2>2 DEF LoadedWasThere
        <3>2. /\ q.stock \in Nat /\ u.stock \in Nat /\ q.title \in Titles
              /\ soldBefore[s][q.title] \in Nat /\ sold[q.title] \in Nat
            BY <1>5 DEF TypeOK, Products
        <3>3. CASE q = p
            <4>1. After(q).stock = q.stock - n /\ sold'[q.title] = sold[q.title] + n
                BY <1>1, <1>3, <3>3
            <4> QED
                BY <1>1, <1>2, <3>1, <3>2, <4>1
        <3>4. CASE q # p
            <4>1. q.title # p.title
                BY <2>2, <3>4 DEF DuplicatesNeedOverlap
            <4>2. After(q) = q /\ sold'[q.title] = sold[q.title]
                BY <1>3, <3>2, <3>4, <4>1
            <4> QED
                BY <3>1, <4>2
        <3> QED
            BY <3>3, <3>4
    <2>3. \A s \in Seeds : pc[s] = "save" => \A q, r \in loaded[s] : q.id = r.id => q = r
        BY DEF LoadedWasThere
    <2>4. ASSUME NEW s \in Seeds, pc[s] = "save", ~overlapped, NEW r \in products'
          PROVE  \E u \in loaded[s] :
                    /\ u.id = r.id
                    /\ r.stock = u.stock - (sold'[r.title] - soldBefore[s][r.title])
        <3>1. PICK q \in products : r = After(q)
            BY <1>2
        <3> HIDE DEF After
        <3> QED
            BY <1>2, <2>2, <2>4, <3>1
    <2> QED
        BY <1>4, <2>1, <2>3, <2>4 DEF LoadedWasThere
<1>11. DuplicatesNeedOverlap'
    <2> HIDE DEF After
    <2> QED
        BY <1>2, <1>4 DEF DuplicatesNeedOverlap
<1>12. CatalogueIsWhole'
    <2>1. {q.title : q \in products'} = {q.title : q \in products}
        <3> HIDE DEF After
        <3> QED
            BY <1>2
    <2> QED
        BY <2>1 DEF CatalogueIsWhole
<1>13. SeedRestocks'
    <2> SUFFICES ASSUME last # None, ~overlapped, NEW t \in Titles
                 PROVE  \E q \in FindProducts' :
                          /\ q.title = t
                          /\ q.stock \in (SeedStock[t] - (sold'[t] - soldBefore[last][t]))
                                           ..SeedStock[t]
        BY <1>4 DEF SeedRestocks
    <2>1. PICK q \in products :
              /\ q.active /\ q.title = t
              /\ q.stock \in (SeedStock[t] - (sold[t] - soldBefore[last][t]))..SeedStock[t]
        BY DEF SeedRestocks, FindProducts
    <2>2. /\ soldBefore[last][t] \in Nat /\ sold[t] \in Nat /\ q.stock \in Nat
          /\ SeedStock[t] \in Nat
        BY <1>5 DEF TypeOK, Products
    <2>3. After(q) \in FindProducts' /\ After(q).title = t
        <3> HIDE DEF After
        <3> QED
            BY <1>2, <2>1 DEF FindProducts
    <2>4. CASE q = p
        <3>1. After(q).stock = q.stock - n /\ sold'[t] = sold[t] + n
            BY <1>1, <1>3, <2>1, <2>4
        <3>2. After(q).stock \in (SeedStock[t] - (sold'[t] - soldBefore[last][t]))
                                   ..SeedStock[t]
            BY <1>1, <2>1, <2>2, <2>4, <3>1
        <3> QED
            BY <2>3, <3>2
    <2>5. CASE q # p
        <3>1. After(q).stock = q.stock /\ sold'[t] >= sold[t] /\ sold'[t] \in Nat
            BY <1>1, <1>3, <2>2, <2>5
        <3>2. After(q).stock \in (SeedStock[t] - (sold'[t] - soldBefore[last][t]))
                                   ..SeedStock[t]
            BY <2>1, <2>2, <3>1
        <3> QED
            BY <2>3, <3>2
    <2> QED
        BY <2>4, <2>5
<1>14. AccountsAreDocumented'
    BY <1>4 DEF AccountsAreDocumented
<1> QED
    BY <1>6, <1>7, <1>8, <1>9, <1>10, <1>11, <1>12, <1>13, <1>14

\* What save makes of a product that is there: the same one, with the seed's stock or what
\* is left of it.
LEMMA WrittenProduct ==
    ASSUME IInv, NEW s \in Seeds, pc[s] = "save", NEW p \in products
    PROVE  /\ Written(s, p) \in Products
           /\ Written(s, p).id = p.id /\ Written(s, p).title = p.title
           /\ ~overlapped =>
                /\ Written(s, p).active
                /\ Written(s, p).stock
                     \in (SeedStock[p.title] - (sold[p.title] - soldBefore[s][p.title]))
                           ..SeedStock[p.title]
<1>1. /\ p \in Products /\ p.title \in Titles /\ p.stock \in Nat
      /\ SeedStock[p.title] \in Nat /\ sold[p.title] \in Nat
      /\ soldBefore[s][p.title] \in Nat /\ soldBefore[s][p.title] <= sold[p.title]
    BY DEF IInv, TypeOK, Products, LoadedWasThere
<1>2. CASE \E q \in loaded[s] : q.id = p.id
    <2> DEFINE q == CHOOSE u \in loaded[s] : u.id = p.id
               stock == IF q.stock = SeedStock[p.title] THEN p.stock ELSE SeedStock[p.title]
    <2>1. q \in loaded[s] /\ q.id = p.id
        BY <1>2
    <2>2. Written(s, p) = [p EXCEPT !.stock = stock, !.active = TRUE]
        BY <1>2 DEF Written
    <2>3. stock \in Nat
        BY <1>1
    <2>4. ASSUME ~overlapped
          PROVE  stock \in (SeedStock[p.title] - (sold[p.title] - soldBefore[s][p.title]))
                             ..SeedStock[p.title]
        <3>1. PICK u \in loaded[s] :
                  /\ u.id = p.id
                  /\ p.stock = u.stock - (sold[p.title] - soldBefore[s][p.title])
            BY <2>4 DEF IInv, LoadedWasThere
        <3>2. u = q
            BY <2>1, <3>1 DEF IInv, LoadedWasThere
        <3>3. q.stock = SeedStock[p.title] =>
                  p.stock = SeedStock[p.title] - (sold[p.title] - soldBefore[s][p.title])
            BY <3>1, <3>2
        <3> HIDE DEF q
        <3> QED
            BY <1>1, <3>3
    <2> HIDE DEF stock
    <2> QED
        BY <1>1, <2>2, <2>3, <2>4 DEF Products
<1>3. CASE ~\E q \in loaded[s] : q.id = p.id
    <2>1. overlapped
        BY <1>3 DEF IInv, LoadedWasThere, TypeOK
    <2> QED
        BY <1>1, <1>3, <2>1 DEF Written
<1> QED
    BY <1>2, <1>3

LEMMA NewProductIsNew ==
    ASSUME IInv, NEW s \in Seeds, pc[s] = "save", NEW t \in Titles
    PROVE  /\ NewProduct(s, t) \in Products
           /\ NewProduct(s, t).title = t /\ NewProduct(s, t).id = <<s, t>>
           /\ NewProduct(s, t).active /\ NewProduct(s, t).stock = SeedStock[t]
           /\ \A p \in products : p.id # <<s, t>>
<1>1. <<s, t>> \in Ids
    BY DEF Ids
<1>2. \A p \in products : p.id # <<s, t>>
    BY DEF IInv, IdsNameProducts, Running
<1> QED
    BY <1>1, <1>2 DEF NewProduct, Products

LEMMA SaveProductsKeeps ==
    ASSUME IInv, NEW s \in Seeds, SaveProducts(s)
    PROVE  IInv'
<1> USE DEF IInv
<1>1. /\ pc[s] = "save"
      /\ pc' = [pc EXCEPT ![s] = "report"] \/ pc' = [pc EXCEPT ![s] = "failed"]
      /\ \A r \in Seeds \ {s} : pc'[r] = pc[r]
      /\ pc'[s] \in {"report", "failed"}
    BY DEF SaveProducts, Go, TypeOK
<1>2. /\ idByTitle' = [idByTitle EXCEPT ![s] = NoIds]
      /\ loaded' = [loaded EXCEPT ![s] = {}]
      /\ last' = s
      /\ UNCHANGED <<users, overlapped, sold, soldBefore>>
    BY DEF SaveProducts, Forget
<1>3. products' = {Written(s, p) : p \in products} \cup {NewProduct(s, t) : t \in Missing(s)}
    BY DEF SaveProducts
<1>4. \A q \in products' : \/ \E p \in products : q = Written(s, p)
                           \/ \E t \in Missing(s) : q = NewProduct(s, t)
    BY <1>3
<1>5. /\ \A p \in products : Written(s, p) \in products'
      /\ \A t \in Missing(s) : NewProduct(s, t) \in products'
    BY <1>3
<1>6. /\ Missing(s) \subseteq Titles
      /\ \A t \in Titles \ Missing(s) : \E p \in products : p.title = t
      /\ ~overlapped => \A t \in Missing(s), p \in products : p.title # t
    BY <1>1 DEF Missing, MapNamesProducts
<1>7. \A p \in products : p \in Products
    BY DEF TypeOK
<1>8. TypeOK'
    <2>1. products' \subseteq Products
        BY <1>1, <1>4, <1>6, WrittenProduct, NewProductIsNew
    <2> QED
        BY <1>1, <1>2, <2>1 DEF TypeOK, NoIds, Running
<1>9. RunsFollowOneAnother'
    BY <1>1, <1>2 DEF RunsFollowOneAnother, Running
<1>10. IdsNameProducts'
    <2>1. ASSUME NEW p \in products', NEW q \in products', p.id = q.id
          PROVE  p = q
        <3>1. CASE \E u \in products : p = Written(s, u)
            <4>1. PICK u \in products : p = Written(s, u)
                BY <3>1
            <4>2. p.id = u.id /\ \A t \in Titles : u.id # <<s, t>>
                BY <1>1, <4>1, WrittenProduct, NewProductIsNew
            <4>3. PICK v \in products : q = Written(s, v)
                <5>1. ASSUME NEW t \in Missing(s), q = NewProduct(s, t) PROVE FALSE
                    <6>1. t \in Titles /\ q.id = <<s, t>>
                        BY <1>1, <1>6, <5>1, NewProductIsNew
                    <6> QED
                        BY <2>1, <4>2, <6>1
                <5> QED
                    BY <1>4, <5>1
            <4>4. q.id = v.id
                BY <1>1, <4>3, WrittenProduct
            <4>5. u = v
                BY <2>1, <4>2, <4>4 DEF IdsNameProducts
            <4> QED
                BY <4>1, <4>3, <4>5
        <3>2. CASE \E t \in Missing(s) : p = NewProduct(s, t)
            <4>1. PICK t \in Missing(s) : p = NewProduct(s, t)
                BY <3>2
            <4>2. p.id = <<s, t>> /\ \A u \in products : u.id # <<s, t>>
                BY <1>1, <1>6, <4>1, NewProductIsNew
            <4>3. PICK v \in Missing(s) : q = NewProduct(s, v)
                <5>1. ASSUME NEW u \in products, q = Written(s, u) PROVE FALSE
                    BY <1>1, <5>1, <2>1, <4>2, WrittenProduct
                <5> QED
                    BY <1>4, <5>1
            <4>4. q.id = <<s, v>>
                BY <1>1, <1>6, <4>3, NewProductIsNew
            <4> QED
                BY <2>1, <4>1, <4>2, <4>3, <4>4
        <3> QED
            BY <1>4, <3>1, <3>2
    <2>2. ASSUME NEW r \in Seeds, pc'[r] \in {"idle"} \cup (Running \ {"report"}),
                 NEW p \in products', NEW t \in Titles
          PROVE  p.id # <<r, t>>
        <3>1. r # s /\ pc[r] = pc'[r]
            BY <1>1, <2>2 DEF Running
        <3>2. \A q \in products : q.id # <<r, t>>
            BY <2>2, <3>1 DEF IdsNameProducts
        <3>3. CASE \E u \in products : p = Written(s, u)
            BY <1>1, <3>2, <3>3, WrittenProduct
        <3>4. CASE \E v \in Missing(s) : p = NewProduct(s, v)
            <4>1. PICK v \in Titles : p.id = <<s, v>>
                BY <1>1, <1>6, <3>4, NewProductIsNew
            <4> QED
                BY <3>1, <4>1
        <3> QED
            BY <1>4, <3>3, <3>4
    <2> QED
        BY <2>1, <2>2 DEF IdsNameProducts
<1>11. MapNamesProducts'
    <2> SUFFICES ASSUME NEW r \in Seeds, pc'[r] \in {"load", "save"}, NEW t \in Titles
                 PROVE  IF idByTitle'[r][t] # None
                          THEN \E p \in products' : p.title = t /\ p.id = idByTitle'[r][t]
                          ELSE overlapped' \/ \A p \in products' : p.title # t
        BY DEF MapNamesProducts
    <2>1. r # s /\ pc[r] = pc'[r] /\ idByTitle'[r] = idByTitle[r]
        BY <1>1, <1>2 DEF TypeOK
    <2>2. overlapped
        BY <1>1, <2>1 DEF RunsFollowOneAnother, Running
    <2>3. ASSUME idByTitle[r][t] # None
          PROVE  \E p \in products' : p.title = t /\ p.id = idByTitle[r][t]
        <3>1. PICK p \in products : p.title = t /\ p.id = idByTitle[r][t]
            BY <2>1, <2>3 DEF MapNamesProducts
        <3>2. Written(s, p).title = t /\ Written(s, p).id = idByTitle[r][t]
            BY <1>1, <3>1, WrittenProduct
        <3> QED
            BY <1>5, <3>2
    <2> QED
        BY <1>2, <2>1, <2>2, <2>3
<1>12. LoadedWasThere'
    <2>1. ASSUME NEW r \in Seeds, pc'[r] = "save"
          PROVE  overlapped /\ loaded'[r] = loaded[r] /\ pc[r] = "save"
        BY <1>1, <1>2, <2>1 DEF RunsFollowOneAnother, Running, TypeOK
    <2> QED
        BY <1>2, <2>1 DEF LoadedWasThere
<1>13. DuplicatesNeedOverlap'
    <2> SUFFICES ASSUME ~overlapped, NEW p \in products', NEW q \in products',
                        p.title = q.title
                 PROVE  p = q
        BY <1>2 DEF DuplicatesNeedOverlap
    <2>1. CASE \E u \in products : p = Written(s, u)
        <3>1. PICK u \in products : p = Written(s, u)
            BY <2>1
        <3>2. p.title = u.title /\ \A t \in Missing(s) : u.title # t
            BY <1>1, <1>6, <3>1, WrittenProduct
        <3>3. PICK v \in products : q = Written(s, v)
            <4>1. ASSUME NEW t \in Missing(s), q = NewProduct(s, t) PROVE FALSE
                BY <1>1, <1>6, <4>1, <3>2, NewProductIsNew
            <4> QED
                BY <1>4, <4>1
        <3>4. q.title = v.title
            BY <1>1, <3>3, WrittenProduct
        <3>5. u = v
            BY <3>2, <3>4 DEF DuplicatesNeedOverlap
        <3> QED
            BY <3>1, <3>3, <3>5
    <2>2. CASE \E t \in Missing(s) : p = NewProduct(s, t)
        <3>1. PICK t \in Missing(s) : p = NewProduct(s, t)
            BY <2>2
        <3>2. p.title = t /\ \A u \in products : u.title # t
            BY <1>1, <1>6, <3>1, NewProductIsNew
        <3>3. PICK v \in Missing(s) : q = NewProduct(s, v)
            <4>1. ASSUME NEW u \in products, q = Written(s, u) PROVE FALSE
                BY <1>1, <3>2, <4>1, WrittenProduct
            <4> QED
                BY <1>4, <4>1
        <3>4. q.title = v
            BY <1>1, <1>6, <3>3, NewProductIsNew
        <3> QED
            BY <3>1, <3>2, <3>3, <3>4
    <2> QED
        BY <1>4, <2>1, <2>2
<1>14. CatalogueIsWhole'
    <2>1. ASSUME NEW t \in Titles
          PROVE  \E q \in products' : q.title = t
        <3>1. CASE t \in Missing(s)
            BY <1>1, <1>5, <3>1, NewProductIsNew
        <3>2. CASE t \notin Missing(s)
            <4>1. PICK p \in products : p.title = t
                BY <1>6, <3>2
            <4> QED
                BY <1>1, <1>5, <4>1, WrittenProduct
        <3> QED
            BY <3>1, <3>2
    <2>2. \A q \in products' : q.title \in Titles
        BY <1>8 DEF TypeOK, Products
    <2>3. {q.title : q \in products'} = Titles
        BY <2>1, <2>2
    <2> QED
        BY <2>3 DEF CatalogueIsWhole
<1>15. SeedRestocks'
    <2> SUFFICES ASSUME ~overlapped, NEW t \in Titles
                 PROVE  \E q \in products' :
                          /\ q.active /\ q.title = t
                          /\ q.stock \in (SeedStock[t] - (sold[t] - soldBefore[s][t]))
                                           ..SeedStock[t]
        BY <1>2 DEF SeedRestocks, FindProducts
    <2>1. CASE t \in Missing(s)
        <3>1. /\ soldBefore[s][t] \in Nat /\ sold[t] \in Nat /\ SeedStock[t] \in Nat
              /\ soldBefore[s][t] <= sold[t]
            BY DEF TypeOK, LoadedWasThere
        <3>2. SeedStock[t] \in (SeedStock[t] - (sold[t] - soldBefore[s][t]))..SeedStock[t]
            BY <3>1
        <3> QED
            BY <1>1, <1>5, <2>1, <3>2, NewProductIsNew
    <2>2. CASE t \notin Missing(s)
        <3>1. PICK p \in products : p.title = t
            BY <1>6, <2>2
        <3> QED
            BY <1>1, <1>5, <3>1, WrittenProduct
    <2> QED
        BY <2>1, <2>2
<1>16. AccountsAreDocumented'
    BY <1>1, <1>2 DEF AccountsAreDocumented, TypeOK
<1> QED
    BY <1>8, <1>9, <1>10, <1>11, <1>12, <1>13, <1>14, <1>15, <1>16

-----------------------------------------------------------------------------
(* The theorems *)

THEOREM Invariance == Spec => []IInv
<1>1. IInv /\ [Next]_vars => IInv'
    <2> SUFFICES ASSUME IInv, [Next]_vars PROVE IInv'
        OBVIOUS
    <2>1. CASE UNCHANGED vars
        <3>1. TypeOK' /\ AccountsAreDocumented'
            BY <2>1 DEF vars, IInv, TypeOK, AccountsAreDocumented
        <3>2. RunsFollowOneAnother' /\ IdsNameProducts'
            BY <2>1 DEF vars, IInv, RunsFollowOneAnother, IdsNameProducts
        <3>3. MapNamesProducts' /\ LoadedWasThere'
            BY <2>1 DEF vars, IInv, MapNamesProducts, LoadedWasThere
        <3>4. DuplicatesNeedOverlap' /\ CatalogueIsWhole' /\ SeedRestocks'
            BY <2>1, TablesStay DEF vars
        <3> QED
            BY <3>1, <3>2, <3>3, <3>4 DEF IInv
    <2>2. ASSUME NEW s \in Seeds,
                 \/ Start(s) \/ UpsertUsers(s) \/ FindExisting(s) \/ LoadProducts(s)
                 \/ SaveProducts(s) \/ Report(s) \/ Fail(s)
          PROVE  IInv'
        BY <2>2, StartKeeps, UpsertUsersKeeps, FindExistingKeeps, LoadProductsKeeps,
           SaveProductsKeeps, ReportKeeps, FailKeeps
    <2>3. ASSUME NEW p \in products, NEW n \in 1..MaxSales, Sell(p, n)
          PROVE  IInv'
        BY <2>3, SellKeeps
    <2>4. ASSUME NEW email \in Emails, NEW password \in Passwords,
                 Register(email, password)
          PROVE  IInv'
        BY <2>4, RegisterKeeps
    <2> QED
        BY <2>1, <2>2, <2>3, <2>4 DEF Next
<1> QED
    BY InitInvariant, <1>1, PTL DEF Spec

\* Whatever runs, dies and is sold: the tables keep their types; no stock is negative.
THEOREM TypeCorrect == Spec => []TypeOK
BY Invariance, PTL DEF IInv

\* Runs one after another never duplicate a title (scripts/seed.ts 143-154).
THEOREM TitlesAreUnique == Spec => []DuplicatesNeedOverlap
BY Invariance, PTL DEF IInv

\* The catalogue is never seeded by halves (scripts/seed.ts 154).
THEOREM SeedIsAtomic == Spec => []CatalogueIsWhole
BY Invariance, PTL DEF IInv

\* A run restocks every title, and takes no sale back (scripts/seed.ts 119-154).
THEOREM SeedReachesItsTarget == Spec => []SeedRestocks
BY Invariance, PTL DEF IInv

\* The documented accounts are there, and are the only administrators
\* (scripts/seed.ts 17-36, 141).
THEOREM AccountsFollowTheDocument == Spec => []AccountsAreDocumented
BY Invariance, PTL DEF IInv
=============================================================================
