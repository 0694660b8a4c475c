-------------------------- MODULE ProductLoader_proofs -------------------------
(***************************************************************************)
(* For any requests, fields, products and changes: the inductive invariant *)
(* of ProductLoader, what follows from it, and that the loader implements  *)
(* ProductReads.                                                           *)
(***************************************************************************)
EXTENDS ProductLoader, FiniteSetTheorems, SequenceTheorems, TLAPS

USE LoadsAssumption, ContentAssumption, ValuesAssumption

\* A key that joins a batch is one of its keys, and the others stay.
LEMMA AppendedKeys ==
    ASSUME NEW ids \in Seq(Ids), NEW id \in Ids
    PROVE  /\ Append(ids, id) \in Seq(Ids)
           /\ Append(ids, id) # <<>>
           /\ IdsOf(Append(ids, id)) = IdsOf(ids) \cup {id}
<1>1. Append(ids, id) \in Seq(Ids) /\ Append(ids, id) # <<>>
    OBVIOUS
<1>2. ASSUME NEW k \in IdsOf(Append(ids, id))
      PROVE  k \in IdsOf(ids) \cup {id}
    BY DEF IdsOf
<1>3. ASSUME NEW k \in IdsOf(ids)
      PROVE  k \in IdsOf(Append(ids, id))
    <2>1. PICK i \in DOMAIN ids : ids[i] = k
        BY DEF IdsOf
    <2>2. i \in DOMAIN Append(ids, id) /\ Append(ids, id)[i] = k
        BY <2>1
    <2> QED
        BY <2>2 DEF IdsOf
<1>4. id \in IdsOf(Append(ids, id))
    <2>1. Len(ids) + 1 \in DOMAIN Append(ids, id) /\ Append(ids, id)[Len(ids) + 1] = id
        OBVIOUS
    <2> QED
        BY <2>1 DEF IdsOf
<1> QED
    BY <1>1, <1>2, <1>3, <1>4

\* The batch function answers a key that was found with its row, wherever among the
\* rows that is.
LEMMA AnswerToKey ==
    ASSUME NEW ids \in Seq(Ids), NEW products \in Seq(Rows), NEW id \in IdsOf(ids),
           \E j \in DOMAIN products : products[j].id = id
    PROVE  AnswerTo(id, ids, products) \in Rows /\ AnswerTo(id, ids, products).id = id
<1> DEFINE i == CHOOSE k \in DOMAIN ids : ids[k] = id
           j == CHOOSE k \in DOMAIN products : products[k].id = id
<1>1. i \in DOMAIN ids /\ ids[i] = id
    BY DEF IdsOf
<1>2. j \in DOMAIN products /\ products[j].id = id
    OBVIOUS
<1>3. products[j] \in Rows
    BY <1>2
<1>4. BatchAnswers(ids, products)[i] = products[j]
    <2> HIDE DEF i
    <2> QED
        BY <1>1, <1>2 DEF BatchAnswers
<1> QED
    BY <1>2, <1>3, <1>4 DEF AnswerTo

\* A key of a batch that was read is answered with its row.
LEMMA AnswerInBatch ==
    ASSUME TypeOK, FoundMatchesKeys,
           NEW b \in Loads, phase[b] \in {"read", "settled"}, NEW id \in IdsOf(keys[b])
    PROVE  AnswerIn(b, id) \in Rows /\ AnswerIn(b, id).id = id
<1>1. keys[b] \in Seq(Ids) /\ found[b] \in Seq(Rows)
    BY DEF TypeOK
<1>2. \E j \in DOMAIN found[b] : found[b][j].id = id
    BY DEF FoundMatchesKeys
<1> QED
    BY <1>1, <1>2, AnswerToKey DEF AnswerIn

-----------------------------------------------------------------------------
\* What find returns is a sequence with the row of every key.
LEMMA FoundRows ==
    ASSUME TypeOK, NEW ids \in Seq(Ids),
           NEW products \in Orderings({Row(id) : id \in IdsOf(ids)})
    PROVE  /\ products \in Seq(Rows)
           /\ \A id \in IdsOf(ids) : \E j \in DOMAIN products : products[j].id = id
<1> DEFINE rows == {Row(id) : id \in IdsOf(ids)}
<1>1. IsFiniteSet(rows)
    <2> DEFINE f == [i \in 1..Len(ids) |-> Row(ids[i])]
    <2>1. IsFiniteSet(1..Len(ids))
        BY FS_Interval
    <2>2. f \in Surjection(1..Len(ids), rows)
        <3>1. f \in [1..Len(ids) -> rows]
            BY DEF IdsOf
        <3>2. ASSUME NEW row \in rows
              PROVE  \E i \in 1..Len(ids) : f[i] = row
            <4>1. PICK id \in IdsOf(ids) : row = Row(id)
                OBVIOUS
            <4>2. PICK i \in 1..Len(ids) : ids[i] = id
                BY DEF IdsOf
            <4> QED
                BY <4>1, <4>2
        <3> QED
            BY <3>1, <3>2 DEF Surjection
    <2> QED
        BY <2>1, <2>2, FS_Surjection
<1>2. Cardinality(rows) \in Nat
    BY <1>1, FS_CardinalityType
<1>3. rows \subseteq Rows
    BY DEF Row, Rows, IdsOf, TypeOK
<1>4. products \in [1..Cardinality(rows) -> rows] /\ {products[i] : i \in DOMAIN products} = rows
    BY DEF Orderings
<1>5. products \in Seq(Rows)
    <2>1. products \in [1..Cardinality(rows) -> Rows]
        BY <1>3, <1>4
    <2>2. PICK n \in Nat : products \in [1..n -> Rows]
        BY <1>2, <2>1, Zenon
    <2> QED
        BY <2>2, SeqDef, Zenon
<1>6. ASSUME NEW id \in IdsOf(ids)
      PROVE  \E j \in DOMAIN products : products[j].id = id
    <2>1. Row(id) \in rows
        OBVIOUS
    <2>2. PICK j \in DOMAIN products : products[j] = Row(id)
        BY <1>4, <2>1
    <2> QED
        BY <2>2 DEF Row
<1> QED
    BY <1>5, <1>6

THEOREM InitInvariant == Init => IInv
<1> SUFFICES ASSUME Init PROVE IInv
    OBVIOUS
<1> USE DEF Init
<1>1. TypeOK
    BY DEF TypeOK
<1>2. BatchesMatchFields
    BY DEF BatchesMatchFields
<1>3. CacheMatchesBatches
    BY DEF CacheMatchesBatches, IdsOf
<1>4. FieldsMatchCache
    BY DEF FieldsMatchCache, FieldMatchesCache, Answered
<1>5. FoundMatchesKeys
    BY DEF FoundMatchesKeys
<1> QED
    BY <1>1, <1>2, <1>3, <1>4, <1>5 DEF IInv

LEMMA LoadCachedKeeps ==
    ASSUME IInv, NEW l \in Loads, LoadCached(l)
    PROVE  IInv'
<1> USE DEF IInv
<1> DEFINE c == Cached(l)
<1>1. /\ RequestOf[l] \in Requests /\ IdOf[l] \in Ids
      /\ c \in Loads /\ phase[c] \in {"open", "sent", "read", "settled"}
      /\ IdOf[l] \in IdsOf(keys[c])
    BY DEF TypeOK, LoadCached, Cached, CacheMatchesBatches, BatchesMatchFields, IdsOf
<1>2. phase[c] = "settled" =>
          /\ AnswerIn(c, IdOf[l]) \in Rows
          /\ AnswerIn(c, IdOf[l]).id = IdOf[l]
    BY <1>1, AnswerInBatch
<1>3. answer[l] = Waiting
    BY DEF LoadCached, FieldsMatchCache, FieldMatchesCache
<1>4. TypeOK'
    BY <1>1, <1>2 DEF TypeOK, LoadCached
<1>5. BatchesMatchFields'
    BY <1>1 DEF BatchesMatchFields, LoadCached, TypeOK
<1>6. CacheMatchesBatches'
    BY DEF CacheMatchesBatches, LoadCached
<1>7. FieldsMatchCache'
    <2> SUFFICES ASSUME NEW m \in Loads PROVE FieldMatchesCache(m)'
        BY DEF FieldsMatchCache
    <2>1. CASE m = l
        BY <1>1, <1>2, <1>3, <2>1
           DEF LoadCached, TypeOK, Cached, Answered, FieldMatchesCache, AnswerIn
    <2>2. CASE m # l
        BY <2>2 DEF LoadCached, TypeOK, Cached, Answered, FieldsMatchCache,
                    FieldMatchesCache, AnswerIn
    <2> QED
        BY <2>1, <2>2
<1>8. FoundMatchesKeys'
    BY DEF FoundMatchesKeys, LoadCached
<1> QED
    BY <1>4, <1>5, <1>6, <1>7, <1>8

LEMMA LoadNewKeeps ==
    ASSUME IInv, NEW l \in Loads, NEW b \in Loads, LoadNew(l, b)
    PROVE  IInv'
<1> USE DEF IInv
<1>1. /\ RequestOf[l] \in Requests /\ IdOf[l] \in Ids
      /\ RequestOf[b] = RequestOf[l] /\ keys[b] \in Seq(Ids)
      /\ phase[b] \in {"none", "open"}
      /\ phase[b] = "none" => b = l /\ keys[b] = <<>>
      /\ cache[RequestOf[l]][IdOf[l]] = None
      /\ answer[l] = Waiting
    BY DEF TypeOK, LoadNew, Cached, OpenBatches, BatchesMatchFields, FieldsMatchCache,
           FieldMatchesCache
<1>2. /\ keys'[b] \in Seq(Ids) /\ keys'[b] # <<>>
      /\ IdsOf(keys'[b]) = IdsOf(keys[b]) \cup {IdOf[l]}
    BY <1>1, AppendedKeys DEF LoadNew, TypeOK
<1>3. TypeOK'
    BY <1>1, <1>2 DEF TypeOK, LoadNew
<1>4. BatchesMatchFields'
    BY <1>1, <1>2 DEF BatchesMatchFields, LoadNew, TypeOK
<1>5. CacheMatchesBatches'
    <2> SUFFICES ASSUME NEW c \in Loads, NEW r \in Requests, NEW id \in Ids
                 PROVE  cache'[r][id] = c <=>
                          RequestOf[c] = r /\ phase'[c] # "failed" /\ id \in IdsOf(keys'[c])
        BY DEF CacheMatchesBatches
    <2>1. cache[r][id] = c <=>
            RequestOf[c] = r /\ phase[c] # "failed" /\ id \in IdsOf(keys[c])
        BY DEF CacheMatchesBatches
    <2>2. cache'[r][id] = IF r = RequestOf[l] /\ id = IdOf[l] THEN b ELSE cache[r][id]
        BY <1>1 DEF LoadNew, TypeOK
    <2>3. CASE c = b
        BY <1>1, <1>2, <2>1, <2>2, <2>3 DEF LoadNew, TypeOK
    <2>4. CASE c # b
        BY <1>1, <2>1, <2>2, <2>4 DEF LoadNew, TypeOK
    <2> QED
        BY <2>3, <2>4
<1>6. FieldsMatchCache'
    <2> SUFFICES ASSUME NEW m \in Loads PROVE FieldMatchesCache(m)'
        BY DEF FieldsMatchCache
    <2>1. FieldMatchesCache(m)
        BY DEF FieldsMatchCache
    <2>2. Cached(m)' = IF RequestOf[m] = RequestOf[l] /\ IdOf[m] = IdOf[l] THEN b ELSE Cached(m)
        BY <1>1 DEF LoadNew, TypeOK, Cached
    <2>3. CASE m = l
        BY <1>1, <2>2, <2>3 DEF LoadNew, TypeOK, Answered, FieldMatchesCache
    <2>4. CASE m # l
        <3>1. promise'[m] = promise[m] /\ answer'[m] = answer[m]
            BY <2>4 DEF LoadNew, TypeOK
        <3>2. promise[m] # None /\ answer[m] # Failed => Cached(m)' = Cached(m)
            BY <1>1, <2>1, <2>2 DEF FieldMatchesCache, Cached
        <3>3. promise[m] = b => answer[m] \in {Waiting, Failed}
            BY <1>1, <2>1 DEF FieldMatchesCache, TypeOK, Answered
        <3>4. promise[m] # b => phase'[promise[m]] = phase[promise[m]]
            BY DEF LoadNew, TypeOK
        <3>5. Answered(m) => AnswerIn(promise[m], IdOf[m]) =
                             AnswerTo(IdOf[m], keys'[promise[m]], found'[promise[m]])
            BY <3>3 DEF LoadNew, TypeOK, AnswerIn, Answered
        <3> QED
            BY <1>1, <2>1, <3>1, <3>2, <3>3, <3>4, <3>5
               DEF FieldMatchesCache, Answered, AnswerIn, LoadNew, TypeOK
    <2> QED
        BY <2>3, <2>4
<1>7. FoundMatchesKeys'
    BY <1>1 DEF FoundMatchesKeys, LoadNew, TypeOK
<1> QED
    BY <1>3, <1>4, <1>5, <1>6, <1>7

LEMMA DispatchKeeps ==
    ASSUME IInv, NEW b \in Loads, Dispatch(b)
    PROVE  IInv'
<1> USE DEF IInv, Dispatch
<1>1. TypeOK'
    BY DEF TypeOK
<1>2. BatchesMatchFields'
    BY DEF BatchesMatchFields, TypeOK
<1>3. CacheMatchesBatches'
    BY DEF CacheMatchesBatches, TypeOK
<1>4. FieldsMatchCache'
    BY DEF FieldsMatchCache, FieldMatchesCache, TypeOK, Cached, Answered, AnswerIn
<1>5. FoundMatchesKeys'
    BY DEF FoundMatchesKeys, TypeOK
<1> QED
    BY <1>1, <1>2, <1>3, <1>4, <1>5

LEMMA FindKeeps ==
    ASSUME IInv, NEW b \in Loads, FindByIds(b)
    PROVE  IInv'
<1> USE DEF IInv
<1>1. /\ found'[b] \in Seq(Rows)
      /\ \A id \in IdsOf(keys[b]) : \E j \in DOMAIN found'[b] : found'[b][j].id = id
    <2>1. PICK products \in Orderings({Row(id) : id \in IdsOf(keys[b])}) :
              found' = [found EXCEPT ![b] = products]
        BY DEF FindByIds
    <2>2. keys[b] \in Seq(Ids) /\ found'[b] = products
        BY <2>1 DEF TypeOK
    <2> QED
        BY <2>2, FoundRows
<1>2. \A c \in Loads \ {b} : found'[c] = found[c]
    BY DEF FindByIds, TypeOK
<1>3. TypeOK'
    BY <1>1 DEF TypeOK, FindByIds
<1>4. BatchesMatchFields'
    BY DEF BatchesMatchFields, TypeOK, FindByIds
<1>5. CacheMatchesBatches'
    BY DEF CacheMatchesBatches, TypeOK, FindByIds
<1>6. FieldsMatchCache'
    <2> SUFFICES ASSUME NEW l \in Loads PROVE FieldMatchesCache(l)'
        BY DEF FieldsMatchCache
    <2>1. FieldMatchesCache(l)
        BY DEF FieldsMatchCache
    <2>2. promise[l] = b => answer[l] \in {Waiting, Failed}
        BY <2>1 DEF FieldMatchesCache, FindByIds, Answered
    <2>3. Answered(l) => promise[l] \in Loads \ {b}
        BY <2>1, <2>2 DEF Answered, FieldMatchesCache, TypeOK
    <2> QED
        BY <1>2, <2>1, <2>2, <2>3
           DEF FieldMatchesCache, Answered, AnswerIn, FindByIds, TypeOK, Cached
<1>7. FoundMatchesKeys'
    BY <1>1, <1>2 DEF FoundMatchesKeys, FindByIds, TypeOK
<1> QED
    BY <1>3, <1>4, <1>5, <1>6, <1>7

LEMMA SettleKeeps ==
    ASSUME IInv, NEW b \in Loads, Settle(b)
    PROVE  IInv'
<1> USE DEF IInv
<1>1. ASSUME NEW l \in Loads, promise[l] = b
      PROVE  /\ Cached(l) = b /\ answer[l] = Waiting
             /\ AnswerIn(b, IdOf[l]) \in Rows
    <2>1. Cached(l) = b /\ answer[l] = Waiting
        BY <1>1 DEF FieldsMatchCache, FieldMatchesCache, Settle, Answered
    <2>2. IdOf[l] \in IdsOf(keys[b])
        BY <2>1 DEF Cached, CacheMatchesBatches
    <2> QED
        BY <2>1, <2>2, AnswerInBatch DEF Settle
<1>2. TypeOK'
    BY <1>1 DEF TypeOK, Settle
<1>3. BatchesMatchFields'
    BY DEF BatchesMatchFields, TypeOK, Settle
<1>4. CacheMatchesBatches'
    BY DEF CacheMatchesBatches, TypeOK, Settle
<1>5. FieldsMatchCache'
    <2> SUFFICES ASSUME NEW l \in Loads PROVE FieldMatchesCache(l)'
        BY DEF FieldsMatchCache
    <2>1. CASE promise[l] = b
        BY <1>1, <2>1 DEF FieldMatchesCache, Settle, TypeOK, Cached, Answered, AnswerIn
    <2>2. CASE promise[l] # b
        BY <2>2 DEF FieldsMatchCache, FieldMatchesCache, Settle, TypeOK, Cached, Answered,
                    AnswerIn
    <2> QED
        BY <2>1, <2>2
<1>6. FoundMatchesKeys'
    BY DEF FoundMatchesKeys, TypeOK, Settle
<1> QED
    BY <1>2, <1>3, <1>4, <1>5, <1>6

LEMMA FindFailsKeeps ==
    ASSUME IInv, NEW b \in Loads, FindFails(b)
    PROVE  IInv'
<1> USE DEF IInv
<1>1. RequestOf[b] \in Requests
    OBVIOUS
<1>2. ASSUME NEW r \in Requests, NEW id \in Ids
      PROVE  cache'[r][id] = IF cache[r][id] = b THEN None ELSE cache[r][id]
    <2>1. cache[r][id] = b <=> RequestOf[b] = r /\ id \in IdsOf(keys[b])
        BY DEF CacheMatchesBatches, FindFails
    <2> QED
        BY <1>1, <2>1 DEF FindFails, TypeOK
<1>3. TypeOK'
    BY DEF TypeOK, FindFails
<1>4. BatchesMatchFields'
    BY DEF BatchesMatchFields, TypeOK, FindFails
<1>5. CacheMatchesBatches'
    BY <1>2 DEF CacheMatchesBatches, TypeOK, FindFails
<1>6. FieldsMatchCache'
    <2> SUFFICES ASSUME NEW l \in Loads PROVE FieldMatchesCache(l)'
        BY DEF FieldsMatchCache
    <2>1. FieldMatchesCache(l)
        BY DEF FieldsMatchCache
    <2>2. Cached(l)' = IF Cached(l) = b THEN None ELSE Cached(l)
        BY <1>2 DEF Cached
    <2>3. CASE promise[l] = b
        BY <2>3 DEF FieldMatchesCache, FindFails, TypeOK, Answered
    <2>4. CASE promise[l] # b
        BY <2>1, <2>2, <2>4 DEF FieldMatchesCache, FindFails, TypeOK, Answered, AnswerIn
    <2> QED
        BY <2>3, <2>4
<1>7. FoundMatchesKeys'
    BY DEF FoundMatchesKeys, TypeOK, FindFails
<1> QED
    BY <1>3, <1>4, <1>5, <1>6, <1>7

LEMMA OthersKeep ==
    ASSUME IInv, (\E id \in Ids : ProductChanges(id)) \/ UNCHANGED vars
    PROVE  IInv'
<1> USE DEF IInv, ProductChanges, vars
<1>1. TypeOK'
    <2>1. CASE UNCHANGED vars
        BY <2>1 DEF TypeOK
    <2>2. ASSUME NEW id \in Ids, ProductChanges(id)
          PROVE  TypeOK'
        BY <2>2 DEF TypeOK
    <2> QED
        BY <2>1, <2>2
<1>2. BatchesMatchFields'
    BY DEF BatchesMatchFields
<1>3. CacheMatchesBatches'
    BY DEF CacheMatchesBatches
<1>4. FieldsMatchCache'
    BY DEF FieldsMatchCache, FieldMatchesCache, Answered, AnswerIn, Cached
<1>5. FoundMatchesKeys'
    BY DEF FoundMatchesKeys
<1> QED
    BY <1>1, <1>2, <1>3, <1>4, <1>5

\* The invariant holds of whatever the loaders do.
THEOREM Invariance == Spec => []IInv
<1>1. IInv /\ [Next]_vars => IInv'
    BY LoadCachedKeeps, LoadNewKeeps, DispatchKeeps, FindKeeps, SettleKeeps,
       FindFailsKeeps, OthersKeep DEF Next
<1> QED
    BY InitInvariant, <1>1, PTL DEF Spec

-----------------------------------------------------------------------------
\* Types, for any number of requests, fields and products.
THEOREM TypeCorrect == Spec => []TypeOK
<1>1. IInv => TypeOK
    BY DEF IInv
<1> QED
    BY Invariance, <1>1, PTL

\* An item that is answered shows its own product.
THEOREM ItemsShowTheirProduct == Spec => []OwnProduct
<1>1. ASSUME IInv PROVE OwnProduct
    <2> USE DEF IInv
    <2> SUFFICES ASSUME NEW l \in Loads, Answered(l)
                 PROVE  answer[l] # Null /\ answer[l].id = IdOf[l]
        BY DEF OwnProduct
    <2>1. /\ promise[l] \in Loads /\ phase[promise[l]] = "settled"
          /\ Cached(l) = promise[l] /\ answer[l] = AnswerIn(promise[l], IdOf[l])
        BY <1>1 DEF FieldsMatchCache, FieldMatchesCache, Answered, TypeOK
    <2>2. IdOf[l] \in IdsOf(keys[promise[l]])
        BY <1>1, <2>1 DEF Cached, CacheMatchesBatches
    <2>3. answer[l] \in Rows /\ answer[l].id = IdOf[l]
        BY <1>1, <2>1, <2>2, AnswerInBatch
    <2> QED
        BY <2>3
<1> QED
    BY Invariance, <1>1, PTL

\* One response shows a product in one state.
THEOREM ResponsesAreConsistent == Spec => []OneStatePerResponse
<1>1. IInv => OneStatePerResponse
    BY DEF IInv, OneStatePerResponse, FieldsMatchCache, FieldMatchesCache, Cached, Answered
<1> QED
    BY Invariance, <1>1, PTL

\* No product is fetched twice for one response, unless its first fetch failed.
THEOREM ProductsAreFetchedOnce == Spec => []OneFetchPerProduct
<1>1. ASSUME IInv PROVE OneFetchPerProduct
    <2> SUFFICES ASSUME NEW b \in Loads, NEW c \in Loads, RequestOf[b] = RequestOf[c],
                        phase[b] # "failed", phase[c] # "failed",
                        NEW id \in IdsOf(keys[b]) \cap IdsOf(keys[c])
                 PROVE  b = c
        BY DEF OneFetchPerProduct
    <2>1. id \in Ids /\ RequestOf[b] \in Requests
        BY <1>1 DEF IInv, TypeOK, IdsOf
    <2>2. cache[RequestOf[b]][id] = b /\ cache[RequestOf[b]][id] = c
        BY <1>1, <2>1 DEF IInv, CacheMatchesBatches
    <2> QED
        BY <2>2
<1> QED
    BY Invariance, <1>1, PTL

\* Whoever waits, waits for a batch that is going to answer: nobody is left behind when a
\* batch settles or fails, or joins one that has.
THEOREM NobodyIsStranded == Spec => []NoFieldIsStranded
<1>1. ASSUME IInv PROVE NoFieldIsStranded
    <2> USE DEF IInv
    <2> SUFFICES ASSUME NEW l \in Loads, promise[l] # None, answer[l] = Waiting
                 PROVE  /\ phase[promise[l]] \in {"open", "sent", "read"}
                        /\ IdOf[l] \in IdsOf(keys[promise[l]])
        BY DEF NoFieldIsStranded
    <2>1. /\ promise[l] \in Loads /\ Cached(l) = promise[l]
          /\ phase[promise[l]] \notin {"failed", "settled"}
        BY <1>1, ValuesAssumption DEF FieldsMatchCache, FieldMatchesCache, Answered, TypeOK
    <2>2. IdOf[l] \in IdsOf(keys[promise[l]])
        BY <1>1, <2>1, LoadsAssumption DEF Cached, CacheMatchesBatches
    <2>3. phase[promise[l]] # "none"
        BY <1>1, <2>1, <2>2 DEF BatchesMatchFields, IdsOf
    <2> QED
        BY <1>1, <2>1, <2>2, <2>3 DEF TypeOK
<1> QED
    BY Invariance, <1>1, PTL

-----------------------------------------------------------------------------
(* The loader implements ProductReads *)

\* What has been read stays as it is in every step but FindByIds.
LEMMA MemoStays ==
    ASSUME \A r \in Requests, id \in Ids :
              /\ HasRead(r, id)' <=> HasRead(r, id)
              /\ HasRead(r, id) => /\ cache'[r][id] = cache[r][id]
                                   /\ keys'[cache[r][id]] = keys[cache[r][id]]
                                   /\ found'[cache[r][id]] = found[cache[r][id]]
    PROVE  memo' = memo
<1>1. ASSUME NEW r \in Requests
      PROVE  [id \in {i \in Ids : HasRead(r, i)'} |-> AnswerTo(id, keys'[cache'[r][id]],
                                                              found'[cache'[r][id]])]
             = [id \in {i \in Ids : HasRead(r, i)} |-> AnswerTo(id, keys[cache[r][id]],
                                                               found[cache[r][id]])]
    <2>1. {i \in Ids : HasRead(r, i)'} = {i \in Ids : HasRead(r, i)}
        OBVIOUS
    <2>2. \A id \in {i \in Ids : HasRead(r, i)} :
              AnswerTo(id, keys'[cache'[r][id]], found'[cache'[r][id]])
                = AnswerTo(id, keys[cache[r][id]], found[cache[r][id]])
        OBVIOUS
    <2> QED
        BY <2>1, <2>2
<1> QED
    BY <1>1 DEF memo, AnswerIn

\* A request that has cached something has begun.
LEMMA CachedMeansBegun ==
    ASSUME IInv, NEW r \in Requests, NEW id \in Ids, cache[r][id] # None
    PROVE  r \in begun /\ cache[r][id] \in Loads /\ RequestOf[cache[r][id]] = r
<1>1. cache[r][id] \in Loads
    BY DEF IInv, TypeOK
<1>2. RequestOf[cache[r][id]] = r /\ phase[cache[r][id]] # "none"
    BY <1>1 DEF IInv, CacheMatchesBatches, BatchesMatchFields, IdsOf
<1>3. promise[cache[r][id]] # None
    BY <1>1, <1>2 DEF IInv, BatchesMatchFields
<1> QED
    BY <1>1, <1>2, <1>3 DEF begun

LEMMA InitRefines == Init => Reads!Init
<1> SUFFICES ASSUME Init PROVE Reads!Init
    OBVIOUS
<1>1. begun = {}
    BY DEF Init, begun
<1>2. \A r \in Requests : {i \in Ids : HasRead(r, i)} = {}
    BY DEF Init, HasRead
<1>3. memo = [r \in Requests |-> [id \in {} |-> Failed]]
    BY <1>2 DEF memo
<1> QED
    BY <1>1, <1>3 DEF Reads!Init, Init

LEMMA LoadCachedRefines ==
    ASSUME IInv, NEW l \in Loads, LoadCached(l)
    PROVE  Reads!Next \/ UNCHANGED Reads!readsVars
<1>1. /\ RequestOf[l] \in begun /\ Cached(l) \in Loads
      /\ RequestOf[l] \in Requests /\ IdOf[l] \in Ids
      /\ answer[l] = Waiting
    BY CachedMeansBegun
       DEF LoadCached, Cached, IInv, FieldsMatchCache, FieldMatchesCache
<1>2. begun' = begun
    BY <1>1 DEF begun, LoadCached, IInv, TypeOK
<1>3. memo' = memo
    BY MemoStays DEF LoadCached, HasRead
<1>4. CASE phase[Cached(l)] = "settled"
    <2>1. HasRead(RequestOf[l], IdOf[l])
        BY <1>1, <1>4 DEF HasRead, Cached, LoadCached
    <2>2. /\ IdOf[l] \in DOMAIN memo[RequestOf[l]]
          /\ memo[RequestOf[l]][IdOf[l]] = AnswerIn(Cached(l), IdOf[l])
        BY <1>1, <2>1 DEF memo, Cached
    <2>3. answer' = [m \in Loads |-> IF m \in {l} THEN memo[RequestOf[m]][IdOf[m]]
                                                  ELSE answer[m]]
        BY <1>4, <2>2 DEF LoadCached, IInv, TypeOK
    <2>4. Reads!Answer({l})
        BY <1>1, <1>2, <1>3, <2>2, <2>3 DEF Reads!Answer, LoadCached
    <2> QED
        BY <2>4 DEF Reads!Next
<1>5. CASE phase[Cached(l)] # "settled"
    BY <1>2, <1>3, <1>5 DEF Reads!readsVars, LoadCached
<1> QED
    BY <1>4, <1>5

LEMMA LoadNewRefines ==
    ASSUME IInv, NEW l \in Loads, NEW b \in Loads, LoadNew(l, b)
    PROVE  Reads!Next
<1>1. RequestOf[l] \in Requests /\ IdOf[l] \in Ids
    OBVIOUS
<1>2. begun' = begun \cup {RequestOf[l]}
    BY <1>1 DEF begun, LoadNew, IInv, TypeOK
<1>3. /\ phase[b] \in {"none", "open"} /\ phase'[b] = "open"
      /\ \A c \in Loads \ {b} : keys'[c] = keys[c] /\ phase'[c] = phase[c]
    BY DEF LoadNew, OpenBatches, IInv, TypeOK, BatchesMatchFields, FieldsMatchCache,
           FieldMatchesCache
<1>4. memo' = memo
    <2> SUFFICES ASSUME NEW r \in Requests, NEW id \in Ids
                 PROVE  /\ HasRead(r, id)' <=> HasRead(r, id)
                        /\ HasRead(r, id) => /\ cache'[r][id] = cache[r][id]
                                             /\ keys'[cache[r][id]] = keys[cache[r][id]]
                                             /\ found'[cache[r][id]] = found[cache[r][id]]
        BY MemoStays
    <2>1. cache'[r][id] = IF r = RequestOf[l] /\ id = IdOf[l] THEN b ELSE cache[r][id]
        BY <1>1 DEF LoadNew, IInv, TypeOK
    <2>2. cache[RequestOf[l]][IdOf[l]] = None
        BY DEF LoadNew, Cached
    <2>3. cache[r][id] \in Loads \cup {None} /\ found' = found
        BY DEF IInv, TypeOK, LoadNew
    <2> QED
        BY <1>3, <2>1, <2>2, <2>3 DEF HasRead
<1>5. Reads!Begin(RequestOf[l])
    BY <1>2, <1>4 DEF Reads!Begin, LoadNew
<1> QED
    BY <1>1, <1>5 DEF Reads!Next

LEMMA FindRefines ==
    ASSUME IInv, NEW b \in Loads, FindByIds(b)
    PROVE  Reads!Next
<1> DEFINE r == RequestOf[b]
           ids == IdsOf(keys[b])
<1>1. r \in Requests /\ keys[b] \in Seq(Ids) /\ ids \in SUBSET Ids
    BY DEF IInv, TypeOK, IdsOf
<1>2. r \in begun /\ begun' = begun
    BY <1>1 DEF begun, FindByIds, IInv, BatchesMatchFields
<1>3. \A id \in Ids : cache[r][id] = b <=> id \in ids
    BY <1>1 DEF IInv, CacheMatchesBatches, FindByIds
<1>4. \A q \in Requests, id \in Ids : cache[q][id] = b => q = r
    BY DEF IInv, CacheMatchesBatches
<1>5. \A q \in Requests, id \in Ids : HasRead(q, id)' <=> HasRead(q, id) \/ cache[q][id] = b
    BY DEF HasRead, FindByIds, IInv, TypeOK
<1>6. \A q \in Requests, id \in Ids : HasRead(q, id) => cache[q][id] \in Loads \ {b}
    BY DEF HasRead, FindByIds, IInv, TypeOK
<1>7. \A id \in ids : AnswerTo(id, keys[b], found'[b]) = Row(id)
    <2>1. PICK products \in Orderings({Row(id) : id \in ids}) :
              found' = [found EXCEPT ![b] = products]
        BY DEF FindByIds
    <2>2. found'[b] = products
        BY <2>1 DEF IInv, TypeOK
    <2>3. \A i \in DOMAIN products : \E id \in ids : products[i] = Row(id)
        BY DEF Orderings
    <2> SUFFICES ASSUME NEW id \in ids PROVE AnswerTo(id, keys[b], products) = Row(id)
        BY <2>2
    <2>4. /\ products \in Seq(Rows)
          /\ \E j \in DOMAIN products : products[j].id = id
        BY <1>1, FoundRows DEF IInv
    <2> DEFINE j == CHOOSE k \in DOMAIN products : products[k].id = id
               i == CHOOSE k \in DOMAIN keys[b] : keys[b][k] = id
    <2>5. j \in DOMAIN products /\ products[j].id = id
        BY <2>4
    <2>6. products[j] = Row(id)
        <3>1. PICK k \in ids : products[j] = Row(k)
            BY <2>3, <2>5
        <3> QED
            BY <2>5, <3>1 DEF Row
    <2>7. i \in DOMAIN keys[b] /\ keys[b][i] = id
        BY DEF IdsOf
    <2>8. BatchAnswers(keys[b], products)[i] = products[j]
        <3> HIDE DEF i
        <3> QED
            BY <2>5, <2>7 DEF BatchAnswers
    <2> QED
        BY <2>6, <2>8 DEF AnswerTo
<1>8. \A c \in Loads \ {b} : found'[c] = found[c]
    BY DEF FindByIds, IInv, TypeOK
<1>9. \A q \in Requests :
          memo'[q] = [id \in DOMAIN memo[q] \cup (IF q = r THEN ids ELSE {}) |->
                        IF q = r /\ id \in ids THEN Row(id) ELSE memo[q][id]]
    <2> SUFFICES ASSUME NEW q \in Requests
                 PROVE  [id \in {i \in Ids : HasRead(q, i)'} |->
                            AnswerTo(id, keys'[cache'[q][id]], found'[cache'[q][id]])]
                        = [id \in DOMAIN memo[q] \cup (IF q = r THEN ids ELSE {}) |->
                            IF q = r /\ id \in ids THEN Row(id) ELSE memo[q][id]]
        BY DEF memo, AnswerIn
    <2> DEFINE D == {i \in Ids : HasRead(q, i)'}
    <2>1. DOMAIN memo[q] = {i \in Ids : HasRead(q, i)}
        BY DEF memo
    <2>2. D = DOMAIN memo[q] \cup (IF q = r THEN ids ELSE {})
        BY <1>1, <1>3, <1>4, <1>5, <2>1
    <2>3. ASSUME NEW id \in D
          PROVE  AnswerTo(id, keys'[cache'[q][id]], found'[cache'[q][id]])
                 = IF q = r /\ id \in ids THEN Row(id) ELSE memo[q][id]
        <3>1. keys' = keys /\ cache' = cache
            BY DEF FindByIds
        <3>2. CASE q = r /\ id \in ids
            BY <1>3, <1>7, <3>1, <3>2
        <3>3. CASE ~(q = r /\ id \in ids)
            <4>1. HasRead(q, id)
                BY <1>3, <1>4, <1>5, <3>3
            <4>2. found'[cache[q][id]] = found[cache[q][id]]
                BY <1>6, <1>8, <4>1
            <4>3. memo[q][id] = AnswerTo(id, keys[cache[q][id]], found[cache[q][id]])
                BY <4>1 DEF memo, AnswerIn
            <4> QED
                BY <3>1, <3>3, <4>2, <4>3
        <3> QED
            BY <3>2, <3>3
    <2> HIDE DEF D
    <2> QED
        BY <2>2, <2>3 DEF D
<1>10. ids \cap DOMAIN memo[r] = {}
    BY <1>1, <1>3, <1>6 DEF memo
<1>11. memo' = [memo EXCEPT ![r] = [id \in DOMAIN memo[r] \cup ids |->
                                     IF id \in ids THEN Row(id) ELSE memo[r][id]]]
    <2>1. ASSUME NEW q \in Requests, q # r
          PROVE  memo'[q] = memo[q]
        <3>1. memo'[q] = [id \in DOMAIN memo[q] |-> memo[q][id]]
            <4>1. DOMAIN memo[q] \cup (IF q = r THEN ids ELSE {}) = DOMAIN memo[q]
                BY <2>1
            <4>2. \A id \in DOMAIN memo[q] :
                     (IF q = r /\ id \in ids THEN Row(id) ELSE memo[q][id]) = memo[q][id]
                BY <2>1
            <4> HIDE DEF r, ids
            <4> QED
                BY <1>9, <4>1, <4>2
        <3> QED
            BY <3>1 DEF memo
    <2>2. memo'[r] = [id \in DOMAIN memo[r] \cup ids |->
                        IF id \in ids THEN Row(id) ELSE memo[r][id]]
        BY <1>1, <1>9
    <2>3. DOMAIN memo = Requests /\ DOMAIN memo' = Requests
          /\ memo = [q \in Requests |-> memo[q]] /\ memo' = [q \in Requests |-> memo'[q]]
        BY DEF memo
    <2> HIDE DEF r, ids
    <2> QED
        BY <2>1, <2>2, <2>3
<1>12. Reads!Read(r, ids)
    BY <1>2, <1>10, <1>11 DEF Reads!Read, Reads!Row, Row, FindByIds
<1> QED
    BY <1>1, <1>12 DEF Reads!Next

\* The fields of a batch are the fields whose promise it is.
LEMMA SettleRefines ==
    ASSUME IInv, NEW b \in Loads, Settle(b)
    PROVE  Reads!Next
<1> DEFINE fields == {l \in Loads : promise[l] = b}
<1>1. begun' = begun
    BY DEF begun, Settle
<1>2. memo' = memo
    <2>1. \A r \in Requests, id \in Ids : HasRead(r, id)' <=> HasRead(r, id)
        BY DEF HasRead, Settle, IInv, TypeOK
    <2> QED
        BY <2>1, MemoStays DEF Settle
<1>3. ASSUME NEW l \in fields
      PROVE  /\ answer[l] = Waiting
             /\ IdOf[l] \in DOMAIN memo[RequestOf[l]]
             /\ memo[RequestOf[l]][IdOf[l]] = AnswerIn(b, IdOf[l])
    <2>1. promise[l] = b /\ b # None /\ RequestOf[l] \in Requests /\ IdOf[l] \in Ids
        OBVIOUS
    <2>2. answer[l] = Waiting /\ Cached(l) = b
        BY <2>1 DEF IInv, FieldsMatchCache, FieldMatchesCache, Answered, Settle
    <2>3. HasRead(RequestOf[l], IdOf[l])
        BY <2>1, <2>2 DEF HasRead, Settle, Cached
    <2> QED
        BY <2>1, <2>2, <2>3 DEF memo, Cached
<1>4. answer' = [l \in Loads |-> IF l \in fields THEN memo[RequestOf[l]][IdOf[l]]
                                                ELSE answer[l]]
    BY <1>3 DEF Settle
<1>5. Reads!Answer(fields)
    BY <1>1, <1>2, <1>3, <1>4 DEF Reads!Answer, Settle
<1> QED
    BY <1>5 DEF Reads!Next

LEMMA FindFailsRefines ==
    ASSUME IInv, NEW b \in Loads, FindFails(b)
    PROVE  Reads!Next
<1> DEFINE fields == {l \in Loads : promise[l] = b}
<1>1. begun' = begun
    BY DEF begun, FindFails
<1>2. memo' = memo
    <2>1. RequestOf[b] \in Requests
        OBVIOUS
    <2> SUFFICES ASSUME NEW r \in Requests, NEW id \in Ids
                 PROVE  /\ HasRead(r, id)' <=> HasRead(r, id)
                        /\ HasRead(r, id) => cache'[r][id] = cache[r][id]
        BY MemoStays DEF FindFails
    <2>2. cache'[r][id] = IF r = RequestOf[b] /\ id \in IdsOf(keys[b]) THEN None
                                                                     ELSE cache[r][id]
        BY <2>1 DEF FindFails, IInv, TypeOK
    <2>3. r = RequestOf[b] /\ id \in IdsOf(keys[b]) => cache[r][id] = b
        BY DEF FindFails, IInv, CacheMatchesBatches
    <2>4. cache[r][id] \in Loads \cup {None}
        BY DEF IInv, TypeOK
    <2> QED
        BY <2>2, <2>3, <2>4 DEF HasRead, FindFails, IInv, TypeOK
<1>3. \A l \in fields : answer[l] = Waiting
    BY DEF IInv, FieldsMatchCache, FieldMatchesCache, Answered, FindFails
<1>4. Reads!Fail(fields)
    BY <1>1, <1>2, <1>3 DEF Reads!Fail, FindFails
<1> QED
    BY <1>4 DEF Reads!Next

LEMMA DispatchRefines ==
    ASSUME IInv, NEW b \in Loads, Dispatch(b)
    PROVE  UNCHANGED Reads!readsVars
<1>1. begun' = begun
    BY DEF begun, Dispatch
<1>2. \A r \in Requests, id \in Ids : HasRead(r, id)' <=> HasRead(r, id)
    BY DEF HasRead, Dispatch, IInv, TypeOK
<1>3. memo' = memo
    BY <1>2, MemoStays DEF Dispatch
<1> QED
    BY <1>1, <1>3 DEF Reads!readsVars, Dispatch

LEMMA ProductChangesRefines ==
    ASSUME NEW id \in Ids, ProductChanges(id)
    PROVE  Reads!Next
<1>1. begun' = begun
    BY DEF begun, ProductChanges
<1>2. memo' = memo
    BY MemoStays DEF HasRead, ProductChanges
<1> QED
    BY <1>1, <1>2 DEF Reads!Next, Reads!Change, ProductChanges

\* Whatever the loader does, a request sees what ProductReads promises: each product is
\* read once, and every item of it shows what was read.
THEOREM ImplementsReads == Spec => ReadsSpec
<1>1. IInv /\ [Next]_vars => [Reads!Next]_(Reads!readsVars)
    <2> SUFFICES ASSUME IInv, [Next]_vars
                 PROVE  Reads!Next \/ UNCHANGED Reads!readsVars
        OBVIOUS
    <2>1. CASE UNCHANGED vars
        <3>1. begun' = begun
            BY <2>1 DEF vars, begun
        <3>2. memo' = memo
            BY <2>1, MemoStays DEF vars, HasRead
        <3> QED
            BY <2>1, <3>1, <3>2 DEF vars, Reads!readsVars
    <2>2. ASSUME NEW l \in Loads, LoadCached(l)
          PROVE  Reads!Next \/ UNCHANGED Reads!readsVars
        BY <2>2, LoadCachedRefines
    <2>3. ASSUME NEW l \in Loads, NEW b \in Loads, LoadNew(l, b)
          PROVE  Reads!Next
        BY <2>3, LoadNewRefines
    <2>4. ASSUME NEW b \in Loads, Dispatch(b)
          PROVE  UNCHANGED Reads!readsVars
        BY <2>4, DispatchRefines
    <2>5. ASSUME NEW b \in Loads, FindByIds(b) \/ FindFails(b) \/ Settle(b)
          PROVE  Reads!Next
        BY <2>5, FindRefines, FindFailsRefines, SettleRefines
    <2>6. ASSUME NEW id \in Ids, ProductChanges(id)
          PROVE  Reads!Next
        BY <2>6, ProductChangesRefines
    <2> QED
        BY <2>1, <2>2, <2>3, <2>4, <2>5, <2>6 DEF Next
<1> QED
    BY InitRefines, Invariance, <1>1, PTL DEF Spec, ReadsSpec, Reads!Spec
=============================================================================
