--------------------------- MODULE OrderItems_proofs --------------------------
(***************************************************************************)
(* Proofs about OrderItems, for bodies of every length: what its sums and  *)
(* its fold compute.                                                       *)
(*                                                                         *)
(* A total is a sum of the community modules, which takes its terms in an  *)
(* order of its own: it is proved not to depend on that order, so that it  *)
(* can be split at any term.  NormalizeItems is a fold of the community    *)
(* modules: it is proved to be the loop of the code, one item after the    *)
(* other.  Where an induction over finite sets or over the array is called *)
(* for, the proofs take a least counterexample.                            *)
(***************************************************************************)
EXTENDS OrderItems, FiniteSetTheorems, WellFoundedInduction, TLAPS

\* The element a sum takes next.
Pick(T) == CHOOSE x \in T : TRUE

\* g computes the sum of f over each set of the family D.
IsSum(g, f, D) ==
    g = [T \in D |-> IF T = {} THEN 0 ELSE f[Pick(T)] + g[T \ {Pick(T)}]]

\* The subsets of S of at most n elements.
SubsetsUpTo(S, n) == {T \in SUBSET S : Cardinality(T) <= n}

\* e and f have the same values on S.
Agree(e, f, S) == \A x \in S : e[x] = f[x]

\* All values f has on S are integers.
IntegersOn(f, S) == \A x \in S : f[x] \in Int

\* The sum h[T] of any T can be split at any element of T.
Splits(h, f, S) == \A T \in SUBSET S : \A x \in T : h[T] = f[x] + h[T \ {x}]

-----------------------------------------------------------------------------
(* Least counterexamples *)

\* A set of numbers has a least element.
LEMMA LeastNumber ==
    ASSUME NEW T, T \subseteq Nat, T # {}
    PROVE  \E n \in T : \A m \in T : n <= m
<1> DEFINE R == OpToRel(<, Nat)
<1>1. IsWellFoundedOn(R, Nat)
  BY NatLessThanWellFounded
<1>2. \A x, y \in Nat : x < y => <<x, y>> \in R
  BY DEF OpToRel
<1> HIDE DEF R
<1>3. PICK x \in T : \A y \in T : ~(<<y, x>> \in R)
  BY <1>1, WFMin
<1>4. \A y \in T : ~(y < x)
  BY <1>2, <1>3
<1> QED
  BY <1>4

\* Taking an element out of a finite set makes it smaller.
LEMMA OneLess ==
    ASSUME NEW S, IsFiniteSet(S), NEW T \in SUBSET S, NEW x \in T
    PROVE  /\ T \ {x} \in SUBSET S
           /\ IsFiniteSet(T) /\ Cardinality(T) \in Nat
           /\ Cardinality(T \ {x}) \in Nat
           /\ Cardinality(T \ {x}) = Cardinality(T) - 1
<1>1. IsFiniteSet(T) /\ Cardinality(T) \in Nat
  BY FS_Subset, FS_CardinalityType
<1>2. IsFiniteSet(T \ {x}) /\ Cardinality(T \ {x}) = Cardinality(T) - 1
  BY <1>1, FS_RemoveElement
<1>3. Cardinality(T \ {x}) \in Nat
  BY <1>2, FS_CardinalityType
<1> QED
  BY <1>1, <1>2, <1>3

\* A family of subsets of a finite set has a member none of whose smaller sets is one.
LEMMA SmallestSet ==
    ASSUME NEW S, IsFiniteSet(S), NEW B, B \subseteq SUBSET S, B # {}
    PROVE  \E T \in B : \A U \in B : Cardinality(T) <= Cardinality(U)
<1> DEFINE sizes == {Cardinality(T) : T \in B}
<1>1. sizes \subseteq Nat /\ sizes # {}
  BY FS_Subset, FS_CardinalityType
<1>2. PICK n \in sizes : \A m \in sizes : n <= m
  BY <1>1, LeastNumber
<1> QED
  BY <1>2

\* The element chosen is one of the set.
LEMMA PickIsMember ==
    ASSUME NEW T, T # {}
    PROVE  Pick(T) \in T
BY DEF Pick

-----------------------------------------------------------------------------
(* The recursion of a sum has a solution *)

\* From the sums of sets of fewer elements to those of one more.
LEMMA SumsOneLarger ==
    ASSUME NEW S, IsFiniteSet(S), NEW f, NEW n \in Nat, n # 0,
           NEW g, IsSum(g, f, SubsetsUpTo(S, n - 1))
    PROVE  \E h : IsSum(h, f, SubsetsUpTo(S, n))
<1> DEFINE D == SubsetsUpTo(S, n - 1)
           E == SubsetsUpTo(S, n)
           h == [T \in E |-> IF T = {} THEN 0 ELSE f[Pick(T)] + g[T \ {Pick(T)}]]
<1>1. \A T \in D : T \in E
  <2> TAKE T \in D
  <2>1. Cardinality(T) \in Nat
    BY FS_Subset, FS_CardinalityType DEF SubsetsUpTo
  <2> QED
    BY <2>1 DEF SubsetsUpTo
<1>2. \A T \in E : T # {} => T \ {Pick(T)} \in D
  <2> TAKE T \in E
  <2> HAVE T # {}
  <2>1. Pick(T) \in T /\ T \in SUBSET S /\ Cardinality(T) <= n
    BY PickIsMember DEF SubsetsUpTo
  <2> QED
    BY <2>1, OneLess DEF SubsetsUpTo
<1>3. \A T \in D : h[T] = g[T]
  BY <1>1 DEF IsSum
<1> HIDE DEF D, E
<1>4. \A T \in E : T # {} => h[T \ {Pick(T)}] = g[T \ {Pick(T)}]
  BY <1>2, <1>3
<1>5. h = [T \in E |-> IF T = {} THEN 0 ELSE f[Pick(T)] + h[T \ {Pick(T)}]]
  BY <1>4
<1> HIDE DEF h
<1> QED
  BY <1>5 DEF IsSum, E

\* The sums of all subsets of a finite set exist.
LEMMA SumsExist ==
    ASSUME NEW S, IsFiniteSet(S), NEW f
    PROVE  \E h : IsSum(h, f, SUBSET S)
<1> DEFINE Solved(n) == \E h : IsSum(h, f, SubsetsUpTo(S, n))
           Unsolved == {n \in Nat : ~Solved(n)}
<1>1. Solved(0)
  <2>1. \A T \in SubsetsUpTo(S, 0) : T = {}
    BY FS_Subset, FS_CardinalityType, FS_EmptySet DEF SubsetsUpTo
  <2> DEFINE h == [T \in SubsetsUpTo(S, 0) |-> 0]
  <2>2. h = [T \in SubsetsUpTo(S, 0) |->
                IF T = {} THEN 0 ELSE f[Pick(T)] + h[T \ {Pick(T)}]]
    BY <2>1
  <2> HIDE DEF h
  <2> QED
    BY <2>2 DEF IsSum
<1>2. ASSUME NEW n \in Nat, n # 0, Solved(n - 1)
      PROVE  Solved(n)
  BY <1>2, SumsOneLarger
<1> HIDE DEF Solved
<1>3. Unsolved = {}
  <2> SUFFICES ASSUME Unsolved # {} PROVE FALSE
    OBVIOUS
  <2>1. PICK n \in Unsolved : \A m \in Unsolved : n <= m
    BY LeastNumber
  <2>2. n \in Nat /\ n # 0 /\ ~Solved(n)
    BY <1>1
  <2>3. n - 1 \in Nat /\ n - 1 \notin Unsolved
    BY <2>1, <2>2
  <2> QED
    BY <1>2, <2>2, <2>3
<1>4. Cardinality(S) \in Nat
  BY FS_CardinalityType
<1>5. Solved(Cardinality(S))
  BY <1>3, <1>4
<1>6. SubsetsUpTo(S, Cardinality(S)) = SUBSET S
  BY FS_Subset DEF SubsetsUpTo
<1> QED
  BY <1>5, <1>6 DEF Solved

\* The library's sum is one of those solutions.
LEMMA SumIsSolution ==
    ASSUME NEW S, IsFiniteSet(S), NEW f
    PROVE  \E h : IsSum(h, f, SUBSET S) /\ SumFunctionOnSet(f, S) = h[S]
<1> DEFINE Solves(h) == h = [T \in SUBSET S |->
               IF T = {} THEN 0
               ELSE f[CHOOSE x \in T : TRUE] + h[T \ {CHOOSE x \in T : TRUE}]]
           iter == CHOOSE h : Solves(h)
<1>1. SumFunctionOnSet(f, S) = iter[S]
  BY DEF SumFunctionOnSet, FoldFunctionOnSet, MapThenFoldSet
<1>2. \A h : Solves(h) <=> IsSum(h, f, SUBSET S)
  BY DEF IsSum, Pick
<1> HIDE DEF Solves
<1>3. Solves(iter)
  BY <1>2, SumsExist
<1> HIDE DEF iter
<1> QED
  BY <1>1, <1>2, <1>3

-----------------------------------------------------------------------------
(* Properties of solutions *)

\* Two solutions agree where their functions do.
LEMMA SolutionsAgree ==
    \A S, R, e, f, g, h :
        /\ IsFiniteSet(S) /\ R \subseteq S
        /\ Agree(e, f, R)
        /\ IsSum(g, e, SUBSET S) /\ IsSum(h, f, SUBSET R)
        => g[R] = h[R]
<1> SUFFICES ASSUME NEW S, NEW R, NEW e, NEW f, NEW g, NEW h,
                    IsFiniteSet(S), R \subseteq S, Agree(e, f, R),
                    IsSum(g, e, SUBSET S), IsSum(h, f, SUBSET R)
             PROVE  g[R] = h[R]
  OBVIOUS
<1> DEFINE B == {U \in SUBSET R : g[U] # h[U]}
<1>1. IsFiniteSet(R)
  BY FS_Subset
<1>2. B = {}
  <2> SUFFICES ASSUME B # {} PROVE FALSE
    OBVIOUS
  <2>1. PICK U \in B : \A V \in B : Cardinality(U) <= Cardinality(V)
    BY <1>1, SmallestSet
  <2>2. U \in SUBSET S /\ U \in SUBSET R /\ g[U] # h[U]
    OBVIOUS
  <2>3. U # {}
    BY <2>2 DEF IsSum
  <2> DEFINE y == Pick(U)
             V == U \ {y}
  <2>4. y \in U
    BY <2>3, PickIsMember
  <2>5. g[U] = e[y] + g[V] /\ h[U] = f[y] + h[V]
    BY <2>2, <2>3 DEF IsSum
  <2>6. e[y] = f[y]
    BY <2>2, <2>4 DEF Agree
  <2> HIDE DEF y
  <2>7. V \in SUBSET R /\ ~(Cardinality(U) <= Cardinality(V))
    BY <1>1, <2>2, <2>4, OneLess
  <2>8. g[V] = h[V]
    BY <2>1, <2>7
  <2> QED
    BY <2>2, <2>5, <2>6, <2>8
<1> QED
  BY <1>2

\* Sums of integers are integers.
LEMMA SolutionType ==
    ASSUME NEW S, IsFiniteSet(S), NEW f, IntegersOn(f, S),
           NEW h, IsSum(h, f, SUBSET S), NEW T \in SUBSET S
    PROVE  h[T] \in Int
<1> DEFINE B == {U \in SUBSET S : h[U] \notin Int}
<1>1. B = {}
  <2> SUFFICES ASSUME B # {} PROVE FALSE
    OBVIOUS
  <2>1. PICK U \in B : \A V \in B : Cardinality(U) <= Cardinality(V)
    BY SmallestSet
  <2>2. U \in SUBSET S /\ h[U] \notin Int
    OBVIOUS
  <2>3. U # {}
    BY <2>2 DEF IsSum
  <2> DEFINE y == Pick(U)
             V == U \ {y}
  <2>4. y \in U
    BY <2>3, PickIsMember
  <2>5. h[U] = f[y] + h[V]
    BY <2>2, <2>3 DEF IsSum
  <2> HIDE DEF y
  <2>6. V \in SUBSET S /\ ~(Cardinality(U) <= Cardinality(V))
    BY <2>2, <2>4, OneLess
  <2>7. h[V] \in Int /\ f[y] \in Int
    BY <2>1, <2>2, <2>4, <2>6 DEF IntegersOn
  <2> QED
    BY <2>2, <2>5, <2>7
<1> QED
  BY <1>1

\* A sum can be split at any of its elements, not only at the one it takes first.
LEMMA SolutionSplits ==
    ASSUME NEW S, NEW f, NEW h,
           IsFiniteSet(S), IntegersOn(f, S), IsSum(h, f, SUBSET S)
    PROVE  Splits(h, f, S)
<1> DEFINE B == {U \in SUBSET S : \E z \in U : h[U] # f[z] + h[U \ {z}]}
<1>1. B = {}
  <2> SUFFICES ASSUME B # {} PROVE FALSE
    OBVIOUS
  <2>1. PICK U \in B : \A V \in B : Cardinality(U) <= Cardinality(V)
    BY SmallestSet
  <2>2. PICK z \in U : h[U] # f[z] + h[U \ {z}]
    OBVIOUS
  <2> DEFINE y == Pick(U)
  <2>3. U \in SUBSET S /\ y \in U
    BY PickIsMember
  <2>4. h[U] = f[y] + h[U \ {y}]
    BY <2>3 DEF IsSum
  <2> HIDE DEF y
  <2>5. y # z
    BY <2>2, <2>4
  <2>6. /\ U \ {y} \in SUBSET S /\ ~(Cardinality(U) <= Cardinality(U \ {y}))
        /\ U \ {z} \in SUBSET S /\ ~(Cardinality(U) <= Cardinality(U \ {z}))
    BY <2>2, <2>3, OneLess
  <2>7. U \ {y} \notin B /\ U \ {z} \notin B
    BY <2>1, <2>6
  <2>8. /\ h[U \ {y}] = f[z] + h[(U \ {y}) \ {z}]
        /\ h[U \ {z}] = f[y] + h[(U \ {z}) \ {y}]
    BY <2>2, <2>3, <2>5, <2>6, <2>7
  <2>9. (U \ {y}) \ {z} = (U \ {z}) \ {y}
    OBVIOUS
  <2>10. f[y] \in Int /\ f[z] \in Int /\ h[(U \ {y}) \ {z}] \in Int
    BY <2>2, <2>3, SolutionType DEF IntegersOn
  <2>11. \A a, b, c \in Int : a + (b + c) = b + (a + c)
    OBVIOUS
  <2>12. f[y] + (f[z] + h[(U \ {y}) \ {z}]) = f[z] + (f[y] + h[(U \ {y}) \ {z}])
    BY <2>10, <2>11, Zenon
  <2> HIDE DEF B
  <2> QED
    BY <2>2, <2>4, <2>8, <2>9, <2>12, Zenon
<1> QED
  BY <1>1 DEF Splits

-----------------------------------------------------------------------------
(* The sums of the library *)

\* Nothing sums up to zero.
LEMMA SumOfNone == \A f : SumFunctionOnSet(f, {}) = 0
<1> TAKE f
<1>1. PICK h : IsSum(h, f, SUBSET {}) /\ SumFunctionOnSet(f, {}) = h[{}]
  BY FS_EmptySet, SumIsSolution
<1> QED
  BY <1>1 DEF IsSum

\* A sum of integers is one.
LEMMA SumType ==
    ASSUME NEW S, IsFiniteSet(S), NEW f, IntegersOn(f, S)
    PROVE  SumFunctionOnSet(f, S) \in Int
<1>1. PICK h : IsSum(h, f, SUBSET S) /\ SumFunctionOnSet(f, S) = h[S]
  BY SumIsSolution
<1>2. \A T \in SUBSET S : h[T] \in Int
  BY <1>1, SolutionType
<1> QED
  BY <1>1, <1>2

\* A sum depends on the values it adds only.
LEMMA SumAgrees ==
    ASSUME NEW S, IsFiniteSet(S), NEW e, NEW f, Agree(e, f, S)
    PROVE  SumFunctionOnSet(e, S) = SumFunctionOnSet(f, S)
<1>1. PICK g : IsSum(g, e, SUBSET S) /\ SumFunctionOnSet(e, S) = g[S]
  BY SumIsSolution
<1>2. PICK h : IsSum(h, f, SUBSET S) /\ SumFunctionOnSet(f, S) = h[S]
  BY SumIsSolution
<1>3. S \subseteq S
  OBVIOUS
<1>4. g[S] = h[S]
  BY <1>1, <1>2, <1>3, SolutionsAgree
<1> QED
  BY <1>1, <1>2, <1>4

\* Any of its terms can be taken out of a sum.
LEMMA SumSplits ==
    ASSUME NEW S, IsFiniteSet(S), NEW f, IntegersOn(f, S), NEW x \in S
    PROVE  SumFunctionOnSet(f, S) = f[x] + SumFunctionOnSet(f, S \ {x})
<1> DEFINE R == S \ {x}
<1>1. PICK g : IsSum(g, f, SUBSET S) /\ SumFunctionOnSet(f, S) = g[S]
  BY SumIsSolution
<1>2. IsFiniteSet(R)
  BY FS_RemoveElement
<1>3. PICK h : IsSum(h, f, SUBSET R) /\ SumFunctionOnSet(f, R) = h[R]
  BY <1>2, SumIsSolution
<1>4. R \subseteq S /\ Agree(f, f, R)
  BY DEF Agree
<1>5. Splits(g, f, S)
  BY <1>1, SolutionSplits
<1>6. g[S] = f[x] + g[R]
  BY <1>5 DEF Splits
<1> HIDE DEF R
<1>7. g[R] = h[R]
  BY <1>1, <1>2, <1>3, <1>4, SolutionsAgree
<1> QED
  BY <1>1, <1>3, <1>6, <1>7 DEF R

\* A sum grows by the term it is given.
LEMMA SumGrows ==
    ASSUME NEW S, IsFiniteSet(S), NEW x, x \notin S, NEW e, NEW f,
           Agree(e, f, S), IntegersOn(f, S \cup {x})
    PROVE  SumFunctionOnSet(f, S \cup {x}) = SumFunctionOnSet(e, S) + f[x]
<1> DEFINE R == S \cup {x}
<1>1. IsFiniteSet(R) /\ x \in R /\ R \ {x} = S
  BY FS_AddElement
<1>2. SumFunctionOnSet(f, R) = f[x] + SumFunctionOnSet(f, R \ {x})
  BY <1>1, SumSplits
<1>3. SumFunctionOnSet(e, S) = SumFunctionOnSet(f, S)
  BY SumAgrees
<1>4. SumFunctionOnSet(f, S) \in Int /\ f[x] \in Int
  BY SumType DEF IntegersOn
<1>5. SumFunctionOnSet(f, R) = f[x] + SumFunctionOnSet(f, S)
  BY <1>1, <1>2
<1> HIDE DEF R
<1> QED
  BY <1>3, <1>4, <1>5 DEF R
-----------------------------------------------------------------------------
(* The fold of normalizeItems *)

\* h folds the items of s with indices in T, for each T of the family D.
IsFold(h, s, D) ==
    h = [T \in D |-> IF T = {} THEN EmptyBasket ELSE AddItem(h[T \ {Max(T)}], s[Max(T)])]

\* b is the basket of the loop of normalizeItems before the first and after each item.
IsLoop(b, s) ==
    b = [n \in 0..Len(s) |-> IF n = 0 THEN EmptyBasket ELSE AddItem(b[n - 1], s[n])]

\* s and t have the same first n items.
SamePrefix(s, t, n) ==
    /\ Len(s) \in Nat /\ Len(t) \in Nat
    /\ n \in Nat /\ n <= Len(s) /\ n <= Len(t)
    /\ Agree(s, t, 1..n)

\* A non-empty set of indices has a largest one.
LEMMA MaxIsMember ==
    ASSUME NEW n \in Nat, NEW T \in SUBSET (1..n), T # {}
    PROVE  Max(T) \in T /\ \A i \in T : i <= Max(T)
<1> DEFINE rest == {n - i : i \in T}
<1>1. rest \subseteq Nat /\ rest # {}
  OBVIOUS
<1>2. PICK k \in rest : \A m \in rest : k <= m
  BY <1>1, LeastNumber
<1>3. PICK i \in T : k = n - i
  OBVIOUS
<1>4. \A j \in T : i >= j
  <2> TAKE j \in T
  <2>1. n - i <= n - j
    BY <1>2, <1>3
  <2> QED
    BY <2>1
<1>5. \E x \in T : \A y \in T : x >= y
  BY <1>4
<1> QED
  BY <1>5 DEF Max

\* From the folds over fewer items to those over one more.
LEMMA FoldsOneLarger ==
    ASSUME NEW k \in Nat, NEW s, NEW n \in Nat, n # 0,
           NEW g, IsFold(g, s, SubsetsUpTo(1..k, n - 1))
    PROVE  \E h : IsFold(h, s, SubsetsUpTo(1..k, n))
<1> DEFINE S == 1..k
           D == SubsetsUpTo(S, n - 1)
           E == SubsetsUpTo(S, n)
           h == [T \in E |->
                    IF T = {} THEN EmptyBasket ELSE AddItem(g[T \ {Max(T)}], s[Max(T)])]
<1>0. IsFiniteSet(S)
  BY FS_Interval
<1>1. \A T \in D : T \in E
  <2> TAKE T \in D
  <2>1. Cardinality(T) \in Nat
    BY <1>0, FS_Subset, FS_CardinalityType DEF SubsetsUpTo
  <2> QED
    BY <2>1 DEF SubsetsUpTo
<1>2. \A T \in E : T # {} => T \ {Max(T)} \in D
  <2> TAKE T \in E
  <2> HAVE T # {}
  <2>1. Max(T) \in T /\ T \in SUBSET S /\ Cardinality(T) <= n
    BY MaxIsMember DEF SubsetsUpTo
  <2> HIDE DEF S
  <2> QED
    BY <1>0, <2>1, OneLess DEF SubsetsUpTo
<1>3. \A T \in D : h[T] = g[T]
  BY <1>1 DEF IsFold
<1> HIDE DEF D, E
<1>4. \A T \in E : T # {} => h[T \ {Max(T)}] = g[T \ {Max(T)}]
  BY <1>2, <1>3
<1>5. h = [T \in E |->
              IF T = {} THEN EmptyBasket ELSE AddItem(h[T \ {Max(T)}], s[Max(T)])]
  BY <1>4
<1> HIDE DEF h
<1> QED
  BY <1>5 DEF IsFold, E

\* The folds over all sets of indices exist.
LEMMA FoldsExist ==
    ASSUME NEW k \in Nat, NEW s
    PROVE  \E h : IsFold(h, s, SUBSET (1..k))
<1> DEFINE Solved(n) == \E h : IsFold(h, s, SubsetsUpTo(1..k, n))
           Unsolved == {n \in Nat : ~Solved(n)}
<1>0. IsFiniteSet(1..k)
  BY FS_Interval
<1>1. Solved(0)
  <2>1. ASSUME NEW T \in SubsetsUpTo(1..k, 0)
        PROVE  T = {}
    <3>1. T \in SUBSET (1..k) /\ Cardinality(T) <= 0
      BY DEF SubsetsUpTo
    <3>2. IsFiniteSet(T)
      BY <1>0, <3>1, FS_Subset
    <3>3. Cardinality(T) = 0
      BY <3>1, <3>2, FS_CardinalityType
    <3> QED
      BY <3>2, <3>3, FS_EmptySet
  <2> DEFINE h == [T \in SubsetsUpTo(1..k, 0) |-> EmptyBasket]
  <2>2. h = [T \in SubsetsUpTo(1..k, 0) |->
                IF T = {} THEN EmptyBasket ELSE AddItem(h[T \ {Max(T)}], s[Max(T)])]
    BY <2>1
  <2> HIDE DEF h
  <2> QED
    BY <2>2 DEF IsFold
<1>2. ASSUME NEW n \in Nat, n # 0, Solved(n - 1)
      PROVE  Solved(n)
  BY <1>2, FoldsOneLarger
<1> HIDE DEF Solved
<1>3. Unsolved = {}
  <2> SUFFICES ASSUME Unsolved # {} PROVE FALSE
    OBVIOUS
  <2>1. PICK n \in Unsolved : \A m \in Unsolved : n <= m
    BY LeastNumber
  <2>2. n \in Nat /\ n # 0 /\ ~Solved(n)
    BY <1>1
  <2>3. n - 1 \in Nat /\ n - 1 \notin Unsolved
    BY <2>1, <2>2
  <2> QED
    BY <1>2, <2>2, <2>3
<1>4. Cardinality(1..k) \in Nat
  BY <1>0, FS_CardinalityType
<1>5. Solved(Cardinality(1..k))
  BY <1>3, <1>4
<1>6. SubsetsUpTo(1..k, Cardinality(1..k)) = SUBSET (1..k)
  BY <1>0, FS_Subset DEF SubsetsUpTo
<1> QED
  BY <1>5, <1>6 DEF Solved

\* The library's fold is one of those.
LEMMA FoldIsSolution ==
    ASSUME NEW s, Len(s) \in Nat, DOMAIN s = 1..Len(s)
    PROVE  \E h : IsFold(h, s, SUBSET (1..Len(s))) /\ NormalizeItems(s) = h[1..Len(s)]
<1> DEFINE Solves(h) == h = [T \in SUBSET DOMAIN s |->
               IF T = {} THEN EmptyBasket ELSE AddItem(h[T \ {Max(T)}], s[Max(T)])]
           iter == CHOOSE h : Solves(h)
<1>1. NormalizeItems(s) = iter[DOMAIN s]
  BY DEF NormalizeItems, FoldLeft, MapThenFoldSet
<1>2. \A h : Solves(h) <=> IsFold(h, s, SUBSET (1..Len(s)))
  BY DEF IsFold
<1> HIDE DEF Solves
<1>3. Solves(iter)
  BY <1>2, FoldsExist
<1> HIDE DEF iter
<1> QED
  BY <1>1, <1>2, <1>3

\* normalizeItems goes through the items in their order, one AddItem each.
LEMMA NormalizeIsLoop ==
    ASSUME NEW s, Len(s) \in Nat, DOMAIN s = 1..Len(s)
    PROVE  \E b : IsLoop(b, s) /\ NormalizeItems(s) = b[Len(s)]
<1>1. PICK h : IsFold(h, s, SUBSET (1..Len(s))) /\ NormalizeItems(s) = h[1..Len(s)]
  BY FoldIsSolution
<1> DEFINE b == [n \in 0..Len(s) |-> h[1..n]]
<1>2. ASSUME NEW n \in 0..Len(s)
      PROVE  b[n] = IF n = 0 THEN EmptyBasket ELSE AddItem(b[n - 1], s[n])
  <2>1. 1..n \in SUBSET (1..Len(s))
    OBVIOUS
  <2>2. CASE n = 0
    BY <1>1, <2>1, <2>2 DEF IsFold
  <2>3. CASE n # 0
    <3>1. 1..n # {} /\ n \in 1..n /\ n \in Nat
      BY <2>3
    <3>2. Max(1..n) \in 1..n /\ n <= Max(1..n)
      BY <3>1, MaxIsMember
    <3>3. Max(1..n) = n
      BY <3>1, <3>2
    <3>4. (1..n) \ {n} = 1..(n - 1)
      BY <3>1
    <3>5. h[1..n] = AddItem(h[1..(n - 1)], s[n])
      BY <1>1, <2>1, <3>1, <3>3, <3>4 DEF IsFold
    <3>6. b[n - 1] = h[1..(n - 1)]
      BY <2>3
    <3> QED
      BY <2>3, <3>5, <3>6
  <2> QED
    BY <2>2, <2>3
<1>3. b[Len(s)] = NormalizeItems(s)
  BY <1>1
<1>4. b = [n \in 0..Len(s) |-> IF n = 0 THEN EmptyBasket ELSE AddItem(b[n - 1], s[n])]
  BY <1>2
<1> HIDE DEF b
<1> QED
  BY <1>3, <1>4 DEF IsLoop

\* Two loops that go through the same items build the same basket.
LEMMA LoopsAgree ==
    \A s, t, b, c, n :
        SamePrefix(s, t, n) /\ IsLoop(b, s) /\ IsLoop(c, t) => b[n] = c[n]
<1> SUFFICES ASSUME NEW s, NEW t, NEW b, NEW c, NEW n,
                    SamePrefix(s, t, n), IsLoop(b, s), IsLoop(c, t)
             PROVE  b[n] = c[n]
  OBVIOUS
<1>0. /\ Len(s) \in Nat /\ Len(t) \in Nat /\ n \in Nat /\ n <= Len(s) /\ n <= Len(t)
      /\ Agree(s, t, 1..n)
  BY DEF SamePrefix
<1> DEFINE B == {m \in 0..n : b[m] # c[m]}
<1>1. B = {}
  <2> SUFFICES ASSUME B # {} PROVE FALSE
    OBVIOUS
  <2>0. B \subseteq Nat
    BY <1>0
  <2>1. PICK m \in B : \A i \in B : m <= i
    BY <2>0, LeastNumber
  <2>2. m \in 0..Len(s) /\ m \in 0..Len(t) /\ m \in 0..n /\ b[m] # c[m]
    BY <1>0
  <2>3. m # 0
    BY <2>2 DEF IsLoop
  <2>4. b[m] = AddItem(b[m - 1], s[m]) /\ c[m] = AddItem(c[m - 1], t[m])
    BY <2>2, <2>3 DEF IsLoop
  <2>5. s[m] = t[m]
    BY <1>0, <2>2, <2>3 DEF Agree
  <2>6. m - 1 \in 0..n /\ ~(m <= m - 1)
    BY <1>0, <2>2, <2>3
  <2>7. m - 1 \notin B
    BY <2>1, <2>6
  <2>8. b[m - 1] = c[m - 1]
    BY <2>6, <2>7
  <2> QED
    BY <2>2, <2>4, <2>5, <2>8
<1> QED
  BY <1>0, <1>1

\* A body without items is an empty basket.
LEMMA NormalizeNothing == NormalizeItems(<<>>) = EmptyBasket
<1>1. Len(<<>>) = 0 /\ DOMAIN <<>> = 1..Len(<<>>)
  OBVIOUS
<1>2. PICK b : IsLoop(b, <<>>) /\ NormalizeItems(<<>>) = b[Len(<<>>)]
  BY <1>1, NormalizeIsLoop
<1> QED
  BY <1>1, <1>2 DEF IsLoop

\* A body that is not empty has a first item, and its items are items.
LEMMA BodyHasItems ==
    ASSUME NEW X, NEW s \in Seq(X)
    PROVE  /\ s # <<>> => Len(s) # 0
           /\ \A i \in 1..Len(s) : s[i] \in X
OBVIOUS

\* One more item at the end of a body is one more round of the loop.
LEMMA NormalizeOneMore ==
    ASSUME NEW X, NEW s \in Seq(X), NEW x \in X
    PROVE  NormalizeItems(Append(s, x)) = AddItem(NormalizeItems(s), x)
<1> DEFINE t == Append(s, x)
           n == Len(s)
<1>1. /\ n \in Nat /\ DOMAIN s = 1..n
      /\ Len(t) = n + 1 /\ DOMAIN t = 1..Len(t)
      /\ t[n + 1] = x
      /\ \A i \in 1..n : s[i] = t[i]
  OBVIOUS
<1> HIDE DEF t, n
<1>2. PICK b : IsLoop(b, s) /\ NormalizeItems(s) = b[n]
  BY <1>1, NormalizeIsLoop DEF n
<1>3. PICK c : IsLoop(c, t) /\ NormalizeItems(t) = c[Len(t)]
  BY <1>1, NormalizeIsLoop
<1>4. c[n + 1] = AddItem(c[n], t[n + 1])
  BY <1>1, <1>3 DEF IsLoop
<1>5. SamePrefix(s, t, n)
  BY <1>1 DEF SamePrefix, Agree, n
<1>6. b[n] = c[n]
  BY <1>1, <1>2, <1>3, <1>5, LoopsAgree
<1> QED
  BY <1>1, <1>2, <1>3, <1>4, <1>6 DEF t

-----------------------------------------------------------------------------
(* Totals *)

\* A basket of finitely many ids with whole quantities.
Countable(basket) ==
    /\ IsFiniteSet(DOMAIN basket)
    /\ \A id \in DOMAIN basket : basket[id] \in Int

\* An empty basket costs nothing.
LEMMA TotalOfNothing == \A price : TotalAmountCents(EmptyBasket, price) = 0
<1> TAKE price
<1> DEFINE f == [id \in DOMAIN EmptyBasket |-> price[id] * EmptyBasket[id]]
<1>1. DOMAIN f = {}
  BY DEF EmptyBasket
<1> HIDE DEF f
<1>2. SumFunction(f) = 0
  BY <1>1, SumOfNone DEF SumFunction
<1> QED
  BY <1>2 DEF TotalAmountCents, f

\* A line more makes a basket dearer by the price of the line, whether or not the
\* basket has the product already.
THEOREM TotalOfOneMore ==
    ASSUME NEW basket, Countable(basket), NEW price, NEW item, item.quantity \in Int,
           IntegersOn(price, DOMAIN basket \cup {item.productId})
    PROVE  /\ Countable(AddItem(basket, item))
           /\ TotalAmountCents(AddItem(basket, item), price) \in Int
           /\ TotalAmountCents(AddItem(basket, item), price)
                = TotalAmountCents(basket, price) + price[item.productId] * item.quantity
<1> DEFINE x == item.productId
           q == item.quantity
           S == DOMAIN basket
           R == S \cup {x}
           after == AddItem(basket, item)
           f == [id \in S |-> price[id] * basket[id]]
           g == [id \in R |-> price[id] * after[id]]
<1>0. IsFiniteSet(S) /\ IsFiniteSet(R) /\ \A id \in R : price[id] \in Int
  BY FS_AddElement DEF Countable, IntegersOn
<1>1. /\ DOMAIN after = R
      /\ \A id \in S \ {x} : after[id] = basket[id] /\ after[id] \in Int
      /\ after[x] = QuantityOf(basket, x) + q
      /\ QuantityOf(basket, x) \in Int
  BY DEF AddItem, QuantityOf, Countable
<1>2. TotalAmountCents(basket, price) = SumFunctionOnSet(f, S)
  BY DEF TotalAmountCents, SumFunction
<1>3. TotalAmountCents(after, price) = SumFunctionOnSet(g, R)
  BY <1>1 DEF TotalAmountCents, SumFunction
<1>4. /\ \A id \in R : after[id] \in Int
      /\ \A id \in S : basket[id] \in Int
  BY <1>1 DEF Countable
<1>5. Countable(after)
  BY <1>0, <1>1, <1>4 DEF Countable
<1>6. IntegersOn(f, S) /\ IntegersOn(g, R)
  BY <1>0, <1>4 DEF IntegersOn
<1>7. g[x] = price[x] * (QuantityOf(basket, x) + q) /\ price[x] \in Int /\ q \in Int
  BY <1>0, <1>1
<1>8. \A i, j, k \in Int : i * (j + k) = i * j + i * k
  OBVIOUS
<1>9. g[x] = price[x] * QuantityOf(basket, x) + price[x] * q
  BY <1>1, <1>7, <1>8
<1>10. price[x] * q \in Int /\ price[x] * QuantityOf(basket, x) \in Int
  BY <1>1, <1>7
<1>11. CASE x \in S
  <2>1. R = S /\ IsFiniteSet(S \ {x})
    BY <1>0, <1>11, FS_RemoveElement
  <2>2. f[x] = price[x] * QuantityOf(basket, x)
    BY <1>11 DEF QuantityOf
  <2>3. Agree(f, g, S \ {x}) /\ IntegersOn(f, S \ {x})
    BY <1>1, <1>6 DEF Agree, IntegersOn
  <2> HIDE DEF f, g, after, x, q
  <2>4. SumFunctionOnSet(f, S) = f[x] + SumFunctionOnSet(f, S \ {x})
    BY <1>0, <1>6, <1>11, SumSplits
  <2>5. SumFunctionOnSet(g, S) = g[x] + SumFunctionOnSet(g, S \ {x})
    BY <1>0, <1>6, <1>11, <2>1, SumSplits
  <2>6. SumFunctionOnSet(f, S \ {x}) = SumFunctionOnSet(g, S \ {x})
    BY <2>1, <2>3, SumAgrees
  <2>7. SumFunctionOnSet(f, S \ {x}) \in Int
    BY <2>1, <2>3, SumType
  <2> HIDE DEF R, S
  <2>8. SumFunctionOnSet(g, R) = SumFunctionOnSet(f, S) + price[x] * q
    BY <1>9, <1>10, <2>1, <2>2, <2>4, <2>5, <2>6, <2>7
  <2>9. SumFunctionOnSet(g, R) \in Int
    BY <1>0, <1>6, SumType
  <2> QED
    BY <1>2, <1>3, <1>5, <2>8, <2>9 DEF after, x, q
<1>12. CASE x \notin S
  <2>1. QuantityOf(basket, x) = 0
    BY <1>12 DEF QuantityOf
  <2>2. Agree(f, g, S)
    BY <1>1, <1>12 DEF Agree
  <2> HIDE DEF f, g, after, x, q
  <2>3. SumFunctionOnSet(g, S \cup {x}) = SumFunctionOnSet(f, S) + g[x]
    BY <1>0, <1>6, <1>12, <2>2, SumGrows
  <2>4. g[x] = price[x] * q
    BY <1>7, <1>9, <1>10, <2>1
  <2>5. SumFunctionOnSet(g, R) \in Int
    BY <1>0, <1>6, SumType
  <2> QED
    BY <1>2, <1>3, <1>5, <2>3, <2>4, <2>5 DEF after, x, q
<1> QED
  BY <1>11, <1>12
=============================================================================
