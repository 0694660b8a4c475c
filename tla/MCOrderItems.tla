----------------------------- MODULE MCOrderItems -----------------------------
(***************************************************************************)
(* normalizeItems and the total, over every request body up to a length.   *)
(***************************************************************************)
EXTENDS OrderItems

CONSTANTS
    ProductIds, \* product id texts
    Quantities, \* numbers a client may send
    Price,      \* price_cents of each product
    MaxItems    \* longest body

ASSUME BodiesAssumption ==
    Quantities \subseteq Int /\ Price \in [ProductIds -> Int]

VARIABLE items

NoBody == items = <<>>

AddToBody ==
    /\ Len(items) < MaxItems
    /\ \E id \in ProductIds, n \in Quantities :
          items' = Append(items, [productId |-> id, quantity |-> n])

LinesOf(id) == {i \in DOMAIN items : items[i].productId = id}

\* A basket names every product of the body once, with the sum of its lines, in
\* whatever order and however often the body names it (orders.service.ts 77-98).
BasketIsSumOfLines ==
    LET basket == NormalizeItems(items)
    IN  /\ DOMAIN basket = {items[i].productId : i \in DOMAIN items}
        /\ \A id \in DOMAIN basket :
              basket[id] =
                  SumFunctionOnSet([i \in DOMAIN items |-> items[i].quantity], LinesOf(id))

\* The total of the basket is the total of the body's lines: normalizing a body does
\* not change its price (orders.service.ts 162-169).
TotalIsThatOfLines ==
    TotalAmountCents(NormalizeItems(items), Price)
        = SumFunction([i \in DOMAIN items |-> Price[items[i].productId] * items[i].quantity])
=============================================================================
