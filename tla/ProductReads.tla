------------------------------ MODULE ProductReads -----------------------------
(***************************************************************************)
(* What OrderItem.product promises a GraphQL request, with no batch, cache *)
(* or order of rows in sight: once the request has begun, a product is     *)
(* read from the table at most once, and every item of that product is     *)
(* answered with what was read, or else with an error.                     *)
(***************************************************************************)
CONSTANTS
    Requests,  \* GraphQL requests
    Loads,     \* OrderItem.product fields, over all requests
    RequestOf, \* the request a field belongs to
    IdOf,      \* its item's productId
    Ids,       \* products
    Waiting, Failed

VARIABLES
    table,  \* what each product's row holds
    begun,  \* requests that have asked for a product
    memo,   \* per request, the rows it has read
    answer  \* what each field has been answered

readsVars == <<table, begun, memo, answer>>

Row(id) == [id |-> id, content |-> table[id]]

Init ==
    /\ begun = {}
    /\ memo = [r \in Requests |-> [id \in {} |-> Failed]]
    /\ answer = [l \in Loads |-> Waiting]

Begin(r) ==
    /\ begun' = begun \cup {r}
    /\ UNCHANGED <<table, memo, answer>>

Read(r, ids) ==
    /\ r \in begun
    /\ ids \cap DOMAIN memo[r] = {}
    /\ memo' = [memo EXCEPT ![r] = [id \in DOMAIN memo[r] \cup ids |->
                                      IF id \in ids THEN Row(id) ELSE memo[r][id]]]
    /\ UNCHANGED <<table, begun, answer>>

Answer(loads) ==
    /\ \A l \in loads : answer[l] = Waiting /\ IdOf[l] \in DOMAIN memo[RequestOf[l]]
    /\ answer' = [l \in Loads |->
                    IF l \in loads THEN memo[RequestOf[l]][IdOf[l]] ELSE answer[l]]
    /\ UNCHANGED <<table, begun, memo>>

Fail(loads) ==
    /\ \A l \in loads : answer[l] = Waiting
    /\ answer' = [l \in Loads |-> IF l \in loads THEN Failed ELSE answer[l]]
    /\ UNCHANGED <<table, begun, memo>>

\* The table is not this specification's business.
Change == UNCHANGED <<begun, memo, answer>>

Next ==
    \/ \E r \in Requests : Begin(r) \/ \E ids \in SUBSET Ids : Read(r, ids)
    \/ \E loads \in SUBSET Loads : Answer(loads) \/ Fail(loads)
    \/ Change

Spec == Init /\ [][Next]_readsVars
=============================================================================
