------------------------------ MODULE OrderItems ------------------------------
(***************************************************************************)
(* The pure part of order placement: what a request body means.  An item  *)
(* is a record [productId, quantity]; a basket is a function from product  *)
(* id texts to quantities (the Map that normalizeItems builds).            *)
(***************************************************************************)
EXTENDS Integers, Sequences, Folds, FiniteSetsExt, SequencesExt

EmptyBasket == [id \in {} |-> 0]

\* CreateOrderDto: a non-empty array of items, each of a quantity of at least 1
\* (that productId is a UUID is a matter of which texts the model enumerates).
ValidItems(items) ==
    /\ items # <<>>
    /\ \A i \in DOMAIN items : items[i].quantity \in Nat \ {0}

\* quantityByProductId.get(productId) ?? 0
QuantityOf(basket, id) == IF id \in DOMAIN basket THEN basket[id] ELSE 0

\* Mutant of AddItem: a repeated productId replaces the quantity seen before.
AddItemOverwriting(basket, item) ==
    [id \in DOMAIN basket \cup {item.productId} |->
        IF id = item.productId THEN item.quantity ELSE basket[id]]

\* One round of the loop of normalizeItems: set(productId, get(productId) + quantity).
AddItem(basket, item) ==
    [id \in DOMAIN basket \cup {item.productId} |->
        QuantityOf(basket, id)
          + IF id = item.productId THEN item.quantity ELSE 0]

NormalizeItems(items) == FoldLeft(AddItem, EmptyBasket, items)

\* The guard of that loop: no running quantity may be zero or less.
QuantitiesPositive(items) ==
    \A i \in DOMAIN items :
        QuantityOf(NormalizeItems(SubSeq(items, 1, i)), items[i].productId) > 0

\* One unit of every product (part of a mutant of OrderPlacement).
TotalOfUnitPrices(basket, price) ==
    SumFunction([id \in DOMAIN basket |-> price[id]])

\* The loop over the normalized items that adds priceCents * quantity.
TotalAmountCents(basket, price) ==
    SumFunction([id \in DOMAIN basket |-> price[id] * basket[id]])

\* new Set(lockedProducts.map(currency)).size <= 1
SameCurrency(rows, currency) ==
    \A p, q \in rows : currency[p] = currency[q]
=============================================================================
