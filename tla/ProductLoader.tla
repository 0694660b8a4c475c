----------------------------- MODULE ProductLoader -----------------------------
(***************************************************************************)
(* OrderItem.product of the GraphQL API: product.loader.ts on top of the   *)
(* dataloader package.  Each request has a loader of its own               *)
(* (Scope.REQUEST), whose fields come in whenever the executor gets to     *)
(* them; products change in between.  A batch is named by the field that   *)
(* opened it.                                                              *)
(***************************************************************************)
EXTENDS Naturals, Sequences, FiniteSets

CONSTANTS
    Requests, Loads, RequestOf, IdOf, Ids,
    MaxContent,  \* bound on the changes of a row
    Waiting, Failed,
    Null,        \* the answer for a product that find did not return
    None

Rows == [id : Ids, content : Nat]

ASSUME LoadsAssumption == RequestOf \in [Loads -> Requests] /\ IdOf \in [Loads -> Ids]
ASSUME ContentAssumption == MaxContent \in Nat
ASSUME ValuesAssumption ==
    /\ None \notin Loads
    /\ {Waiting, Failed, Null} \cap Rows = {}
    /\ Waiting # Failed /\ Waiting # Null /\ Failed # Null

VARIABLES
    table,   \* products
    cache,   \* per loader and id, the batch whose promise is cached, or None
    phase,   \* of each batch
    keys,    \* the ids of each batch, in order
    found,   \* what find has returned for it
    promise, \* the batch each field waits for
    answer   \* what each field has been answered

vars == <<table, cache, phase, keys, found, promise, answer>>

TypeOK ==
    /\ table \in [Ids -> Nat]
    /\ cache \in [Requests -> [Ids -> Loads \cup {None}]]
    /\ phase \in [Loads -> {"none", "open", "sent", "read", "settled", "failed"}]
    /\ keys \in [Loads -> Seq(Ids)]
    /\ found \in [Loads -> Seq(Rows)]
    /\ promise \in [Loads -> Loads \cup {None}]
    /\ answer \in [Loads -> Rows \cup {Waiting, Failed, Null}]

Init ==
    /\ table = [id \in Ids |-> 0]
    /\ cache = [r \in Requests |-> [id \in Ids |-> None]]
    /\ phase = [b \in Loads |-> "none"]
    /\ keys = [b \in Loads |-> <<>>]
    /\ found = [b \in Loads |-> <<>>]
    /\ promise = [l \in Loads |-> None]
    /\ answer = [l \in Loads |-> Waiting]

Row(id) == [id |-> id, content |-> table[id]]

IdsOf(ids) == {ids[i] : i \in DOMAIN ids}

-----------------------------------------------------------------------------
(* The batch function *)

\* Mutant of BatchAnswers: the rows as they come.
BatchAnswersByPosition(ids, products) ==
    [i \in DOMAIN ids |-> IF i \in DOMAIN products THEN products[i] ELSE Null]

\* productsById, and the answer for each key.
BatchAnswers(ids, products) ==
    [i \in DOMAIN ids |->
        IF \E j \in DOMAIN products : products[j].id = ids[i]
          THEN products[CHOOSE j \in DOMAIN products : products[j].id = ids[i]]
          ELSE Null]

\* The callbacks are answered by position.
AnswerTo(id, ids, products) ==
    BatchAnswers(ids, products)[CHOOSE i \in DOMAIN ids : ids[i] = id]

\* What batch b has for one of its keys.
AnswerIn(b, id) == AnswerTo(id, keys[b], found[b])

\* Every order find may return these rows in.
Orderings(rows) ==
    {s \in [1..Cardinality(rows) -> rows] : {s[i] : i \in DOMAIN s} = rows}

-----------------------------------------------------------------------------
(* load *)

\* Mutant of Cached: each field fetches its own product.
CachedNever(l) == None

Cached(l) == cache[RequestOf[l]][IdOf[l]]

\* Mutant of OpenBatches: batches are shared between requests.
OpenBatchesOfAll(l) == {b \in Loads : phase[b] = "open"}

OpenBatches(l) == {b \in Loads : phase[b] = "open" /\ RequestOf[b] = RequestOf[l]}

\* The promise is there already; the row may be, too.
LoadCached(l) ==
    /\ promise[l] = None
    /\ Cached(l) # None
    /\ promise' = [promise EXCEPT ![l] = Cached(l)]
    /\ answer' = IF phase[Cached(l)] = "settled"
                   THEN [answer EXCEPT ![l] = AnswerIn(Cached(l), IdOf[l])]
                   ELSE answer
    /\ UNCHANGED <<table, cache, phase, keys, found>>

\* A new key, for the batch that is being collected, or for a new batch.
LoadNew(l, b) ==
    /\ promise[l] = None
    /\ Cached(l) = None
    /\ b \in OpenBatches(l) \/ (OpenBatches(l) = {} /\ b = l)
    /\ phase' = [phase EXCEPT ![b] = "open"]
    /\ keys' = [keys EXCEPT ![b] = Append(keys[b], IdOf[l])]
    /\ cache' = [cache EXCEPT ![RequestOf[l]][IdOf[l]] = b]
    /\ promise' = [promise EXCEPT ![l] = b]
    /\ UNCHANGED <<table, found, answer>>

\* The promise jobs of this tick are done: the batch goes to the batch function.
Dispatch(b) ==
    /\ phase[b] = "open"
    /\ phase' = [phase EXCEPT ![b] = "sent"]
    /\ UNCHANGED <<table, cache, keys, found, promise, answer>>

-----------------------------------------------------------------------------
(* ProductsRepository.findByIds, one statement *)

\* Products with orders cannot be deleted: find returns them all.
FindByIds(b) ==
    /\ phase[b] = "sent"
    /\ \E products \in Orderings({Row(id) : id \in IdsOf(keys[b])}) :
          found' = [found EXCEPT ![b] = products]
    /\ phase' = [phase EXCEPT ![b] = "read"]
    /\ UNCHANGED <<table, cache, keys, promise, answer>>

\* The rows have arrived; every field of the batch is answered.
Settle(b) ==
    /\ phase[b] = "read"
    /\ phase' = [phase EXCEPT ![b] = "settled"]
    /\ answer' = [l \in Loads |-> IF promise[l] = b THEN AnswerIn(b, IdOf[l]) ELSE answer[l]]
    /\ UNCHANGED <<table, cache, keys, found, promise>>

\* Mutant of FindFails: the fields are forgotten.
FindFailsSilently(b) ==
    /\ phase[b] = "sent"
    /\ phase' = [phase EXCEPT ![b] = "failed"]
    /\ cache' = [cache EXCEPT ![RequestOf[b]] =
                   [id \in Ids |-> IF id \in IdsOf(keys[b]) THEN None
                                   ELSE cache[RequestOf[b]][id]]]
    /\ UNCHANGED <<table, keys, found, promise, answer>>

\* No rows: every field of the batch fails, and its keys are cleared from the cache, so
\* that a later field of the same product tries again.
FindFails(b) ==
    /\ phase[b] = "sent"
    /\ phase' = [phase EXCEPT ![b] = "failed"]
    /\ cache' = [cache EXCEPT ![RequestOf[b]] =
                   [id \in Ids |-> IF id \in IdsOf(keys[b]) THEN None
                                   ELSE cache[RequestOf[b]][id]]]
    /\ answer' = [l \in Loads |-> IF promise[l] = b THEN Failed ELSE answer[l]]
    /\ UNCHANGED <<table, keys, found, promise>>

-----------------------------------------------------------------------------
\* Orders are placed and seeds run.
ProductChanges(id) ==
    /\ table[id] < MaxContent
    /\ table' = [table EXCEPT ![id] = @ + 1]
    /\ UNCHANGED <<cache, phase, keys, found, promise, answer>>

Next ==
    \/ \E l \in Loads : LoadCached(l) \/ \E b \in Loads : LoadNew(l, b)
    \/ \E b \in Loads : Dispatch(b) \/ FindByIds(b) \/ FindFails(b) \/ Settle(b)
    \/ \E id \in Ids : ProductChanges(id)

Spec == Init /\ [][Next]_vars

\* The event loop runs what is ready, and a statement ends one way or the other.
FairSpec ==
    /\ Spec
    /\ \A b \in Loads :
          WF_vars(Dispatch(b)) /\ WF_vars(FindByIds(b) \/ FindFails(b)) /\ WF_vars(Settle(b))

-----------------------------------------------------------------------------
(* Properties *)

Answered(l) == answer[l] \notin {Waiting, Failed}

\* An item that is answered shows its own product, in whatever order and batch the rows
\* came (schema.graphql: product is Product!, never null).
OwnProduct == \A l \in Loads : Answered(l) => answer[l] # Null /\ answer[l].id = IdOf[l]

\* One response never shows one product in two states, although its items are resolved
\* in several batches and orders are placed in between (homework07.md 73: "Provides
\* per-request caching").
OneStatePerResponse ==
    \A l, m \in Loads :
        Answered(l) /\ Answered(m) /\ RequestOf[l] = RequestOf[m] /\ IdOf[l] = IdOf[m]
            => answer[l] = answer[m]

\* N + 1 is gone: no request fetches a product twice, unless the first fetch failed
\* (homework07.md 161-169).
OneFetchPerProduct ==
    \A b, c \in Loads :
        /\ b # c /\ RequestOf[b] = RequestOf[c]
        /\ phase[b] # "failed" /\ phase[c] # "failed"
        => IdsOf(keys[b]) \cap IdsOf(keys[c]) = {}

\* A field that waits is one that its batch will answer: the batch still has a step to
\* take, and the field's id is among its keys, also when the batch of an earlier field of
\* the product has failed.
NoFieldIsStranded ==
    \A l \in Loads :
        promise[l] # None /\ answer[l] = Waiting =>
            /\ phase[promise[l]] \in {"open", "sent", "read"}
            /\ IdOf[l] \in IdsOf(keys[promise[l]])

-----------------------------------------------------------------------------
(* The inductive invariant behind these *)

\* A batch is opened by a field that waits for it; it has keys, each for its own request.
BatchesMatchFields ==
    \A b \in Loads :
        /\ phase[b] = "none" <=> keys[b] = <<>>
        /\ phase[b] # "none" => promise[b] = b

\* The cache names the one batch that has not failed for the id, and names all of those.
CacheMatchesBatches ==
    \A b \in Loads, r \in Requests, id \in Ids :
        cache[r][id] = b <=>
            RequestOf[b] = r /\ phase[b] # "failed" /\ id \in IdsOf(keys[b])

FieldMatchesCache(l) ==
    /\ promise[l] = None => answer[l] = Waiting
    /\ promise[l] # None =>
          /\ phase[promise[l]] = "failed" <=> answer[l] = Failed
          /\ phase[promise[l]] = "settled" <=> Answered(l)
          /\ answer[l] # Failed => Cached(l) = promise[l]
    /\ Answered(l) => answer[l] = AnswerIn(promise[l], IdOf[l])

FieldsMatchCache == \A l \in Loads : FieldMatchesCache(l)

FoundMatchesKeys ==
    \A b \in Loads :
        phase[b] \in {"read", "settled"} =>
            \A id \in IdsOf(keys[b]) : \E j \in DOMAIN found[b] : found[b][j].id = id

IInv ==
    /\ TypeOK
    /\ BatchesMatchFields
    /\ CacheMatchesBatches
    /\ FieldsMatchCache
    /\ FoundMatchesKeys

-----------------------------------------------------------------------------
(* The refinement *)

HasRead(r, id) == cache[r][id] # None /\ phase[cache[r][id]] \in {"read", "settled"}

begun == {r \in Requests : \E l \in Loads : RequestOf[l] = r /\ promise[l] # None}
memo == [r \in Requests |->
            [id \in {i \in Ids : HasRead(r, i)} |-> AnswerIn(cache[r][id], id)]]

\* Batches, caches and the order of rows are invisible: each step reads rows for one
\* request, answers fields with them, fails fields, or does not show.
Reads == INSTANCE ProductReads WITH begun <- begun, memo <- memo
ReadsSpec == Reads!Spec

\* Every field that asks is answered, if only with an error.
EveryFieldEnds == \A l \in Loads : promise[l] # None ~> answer[l] # Waiting
=============================================================================
