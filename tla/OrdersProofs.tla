---------------------------- MODULE OrdersProofs ----------------------------
(***************************************************************************)
(* What the operators of Orders return, what sequences end to end give and *)
(* hold, and when a recursive definition has a solution: the facts the     *)
(* proofs about the analysis, the validator and the IR cite.  Induction    *)
(* over the size of a set is a least counterexample.                       *)
(***************************************************************************)
EXTENDS Orders, SequenceTheorems, FiniteSetTheorems, WellFoundedInduction, TLAPS

-----------------------------------------------------------------------------
\* Every nonempty set of numbers has a lowest one.
LEMMA HasLowest ==
    ASSUME NEW T, T \subseteq Nat, T # {}
    PROVE  \E i \in T : \A j \in T : i <= j
<1>1. IsWellFoundedOn(OpToRel(<, Nat), Nat)
  BY NatLessThanWellFounded
<1>2. PICK i \in T : \A j \in T : ~ (<<j, i>> \in OpToRel(<, Nat))
  BY <1>1, WFMin
<1>3. \A j \in T : ~ (j < i)
  BY <1>2 DEF OpToRel
<1> QED
  BY <1>3

IsAscending(s, S) ==
    /\ s \in [1 .. Cardinality(S) -> S]
    /\ Range(s) = S
    /\ \A i, j \in DOMAIN s : i < j => s[i] < s[j]

\* One more in front of an ascending sequence, lower than all of it.
LEMMA AscendingStep ==
    ASSUME NEW S, S \subseteq Nat, IsFiniteSet(S), NEW m \in S, \A j \in S : m <= j,
           NEW t, IsAscending(t, S \ {m})
    PROVE  \E s : IsAscending(s, S)
<1>0. PICK k : k = Cardinality(S \ {m})
  OBVIOUS
<1>1. /\ k \in Nat /\ Cardinality(S) = k + 1
  <2>1. IsFiniteSet(S \ {m}) /\ Cardinality(S \ {m}) = Cardinality(S) - 1
    BY FS_RemoveElement
  <2>2. Cardinality(S) \in Nat /\ Cardinality(S \ {m}) \in Nat
    BY <2>1, FS_CardinalityType
  <2> QED
    BY <1>0, <2>1, <2>2
<1>2. t \in [1 .. k -> S \ {m}] /\ Range(t) = S \ {m} /\ \A i, j \in 1 .. k : i < j => t[i] < t[j]
  BY <1>0 DEF IsAscending
<1> DEFINE s == [i \in 1 .. k + 1 |-> IF i = 1 THEN m ELSE t[i - 1]]
<1>3. \A i \in 1 .. k + 1 : i # 1 => i - 1 \in 1 .. k
  BY <1>1
<1>4. s \in [1 .. k + 1 -> S]
  BY <1>2, <1>3
<1>5. \A x \in S : \E i \in 1 .. k + 1 : s[i] = x
  <2> SUFFICES ASSUME NEW x \in S PROVE \E i \in 1 .. k + 1 : s[i] = x
    OBVIOUS
  <2>1. CASE x = m
    BY <1>1, <2>1
  <2>2. CASE x # m
    <3>1. PICK j \in 1 .. k : t[j] = x
      BY <1>2, <2>2 DEF Range
    <3>2. j + 1 \in 1 .. k + 1 /\ j + 1 # 1 /\ (j + 1) - 1 = j
      BY <1>1
    <3>3. s[j + 1] = x
      BY <3>1, <3>2
    <3> QED
      BY <3>2, <3>3
  <2> QED
    BY <2>1, <2>2
<1>6. Range(s) = S
  <2>1. PICK r : r = s
    OBVIOUS
  <2>2. r \in [1 .. k + 1 -> S] /\ \A x \in S : \E i \in 1 .. k + 1 : r[i] = x
    BY <1>4, <1>5, <2>1
  <2>3. Range(r) = S
    BY <2>2 DEF Range
  <2> QED
    BY <2>1, <2>3
<1>7. ASSUME NEW i \in 1 .. k + 1, NEW j \in 1 .. k + 1, i < j PROVE s[i] < s[j]
  <2>1. j # 1 /\ j - 1 \in 1 .. k /\ s[j] = t[j - 1] /\ t[j - 1] \in S \ {m}
    BY <1>1, <1>2, <1>3, <1>7
  <2>2. CASE i = 1
    <3>1. s[i] = m
      BY <2>2
    <3>2. m \in Nat /\ s[j] \in Nat /\ m <= s[j] /\ m # s[j]
      BY <2>1
    <3> QED
      BY <3>1, <3>2
  <2>3. CASE i # 1
    <3>1. i - 1 \in 1 .. k /\ i - 1 < j - 1 /\ s[i] = t[i - 1]
      BY <1>1, <1>3, <1>7, <2>3
    <3> QED
      BY <1>2, <2>1, <3>1
  <2> QED
    BY <2>2, <2>3
<1> HIDE DEF s
<1>8. IsAscending(s, S)
  <2>1. DOMAIN s = 1 .. k + 1
    BY <1>4
  <2> QED
    BY <1>1, <1>4, <1>6, <1>7, <2>1 DEF IsAscending
<1> QED
  BY <1>8

\* Every finite set of numbers has its ascending sequence.
LEMMA AscendingExists ==
    ASSUME NEW S, S \subseteq Nat, IsFiniteSet(S)
    PROVE  IsAscending(Ascending(S), S)
<1> DEFINE Bad == {n \in Nat : \E T \in SUBSET Nat : /\ IsFiniteSet(T) /\ Cardinality(T) = n
                                                     /\ ~ \E s : IsAscending(s, T)}
<1>1. Bad = {}
  <2> SUFFICES ASSUME Bad # {} PROVE FALSE
    OBVIOUS
  <2>1. PICK n \in Bad : \A j \in Bad : n <= j
    BY HasLowest
  <2>2. PICK T \in SUBSET Nat : /\ IsFiniteSet(T) /\ Cardinality(T) = n /\ n \in Nat
                                /\ ~ \E s : IsAscending(s, T)
    BY <2>1
  <2>3. CASE T = {}
    <3>1. Cardinality(T) = 0
      BY <2>3, FS_EmptySet
    <3>2. IsAscending([i \in {} |-> 0], T)
      BY <2>3, <3>1 DEF IsAscending, Range
    <3> QED
      BY <2>2, <3>2
  <2>4. CASE T # {}
    <3>1. PICK m \in T : \A j \in T : m <= j
      BY <2>4, HasLowest
    <3>2. /\ IsFiniteSet(T \ {m}) /\ Cardinality(T \ {m}) = n - 1
          /\ T \ {m} \in SUBSET Nat
      BY <2>2, FS_RemoveElement
    <3>3. n - 1 \in Nat
      BY <2>2, <3>2, FS_CardinalityType
    <3>4. n - 1 \notin Bad
      BY <2>1, <2>2
    <3>5. \E t : IsAscending(t, T \ {m})
      BY <3>2, <3>3, <3>4
    <3> QED
      BY <2>2, <3>1, <3>5, AscendingStep
  <2> QED
    BY <2>3, <2>4
<1>2. Cardinality(S) \in Nat
  BY FS_CardinalityType
<1>3. \E s : IsAscending(s, S)
  BY <1>1, <1>2
<1> QED
  BY <1>3 DEF Ascending, IsAscending

\* What two sequences give end to end.
IsJoin(G, r, d, c) ==
    /\ r \in Seq(G)
    /\ Len(r) = Len(d) + Len(c)
    /\ \A i \in 1 .. Len(d) + Len(c) : r[i] = IF i <= Len(d) THEN d[i] ELSE c[i - Len(d)]

LEMMA Joined ==
    ASSUME NEW G, NEW d \in Seq(G), NEW c \in Seq(G)
    PROVE  IsJoin(G, d \o c, d, c)
  BY ConcatProperties, Zenon DEF IsJoin

-----------------------------------------------------------------------------
(* A stable sort returns what it is given, each element once.              *)

LEMMA RanksInRange ==
    ASSUME NEW n \in Nat, NEW key \in [1 .. n -> Nat], NEW i \in 1 .. n
    PROVE  Rank(key, i) \in 1 .. n
<1> DEFINE B == {j \in 1 .. n : Precedes(key, j, i)}
<1>1. IsFiniteSet(1 .. n) /\ Cardinality(1 .. n) = n
  BY FS_Interval
<1>2. IsFiniteSet((1 .. n) \ {i}) /\ Cardinality((1 .. n) \ {i}) = n - 1
  BY <1>1, FS_RemoveElement
<1>3. B \in SUBSET ((1 .. n) \ {i})
  BY DEF Precedes
<1>4. IsFiniteSet(B) /\ Cardinality(B) <= n - 1
  BY <1>2, <1>3, FS_Subset
<1>5. Cardinality(B) \in Nat
  BY <1>4, FS_CardinalityType
<1>6. Rank(key, i) = Cardinality(B) + 1
  BY DEF Rank
<1> HIDE DEF B
<1> QED
  BY <1>4, <1>5, <1>6

\* What comes first has the lower rank.
LEMMA RanksFollow ==
    ASSUME NEW n \in Nat, NEW key \in [1 .. n -> Nat], NEW i \in 1 .. n, NEW j \in 1 .. n,
           Precedes(key, i, j)
    PROVE  Rank(key, i) < Rank(key, j)
<1> DEFINE B(m) == {l \in 1 .. n : Precedes(key, l, m)}
<1>1. IsFiniteSet(1 .. n)
  BY FS_Interval
<1>2. B(i) \in SUBSET (1 .. n) /\ B(j) \in SUBSET (1 .. n)
  OBVIOUS
<1>3. IsFiniteSet(B(i)) /\ IsFiniteSet(B(j))
  BY <1>1, <1>2, FS_Subset
<1>4. Cardinality(B(i)) \in Nat /\ Cardinality(B(j)) \in Nat
  BY <1>3, FS_CardinalityType
<1>5. i \notin B(i)
  BY DEF Precedes
<1>6. B(i) \cup {i} \in SUBSET B(j)
  <2> SUFFICES ASSUME NEW l \in B(i) PROVE Precedes(key, l, j)
    OBVIOUS
  <2>1. l \in 1 .. n /\ Precedes(key, l, i)
    OBVIOUS
  <2>2. key[l] \in Nat /\ key[i] \in Nat /\ key[j] \in Nat
    BY <2>1
  <2> QED
    BY <2>1, <2>2 DEF Precedes
<1>7. Cardinality(B(i) \cup {i}) = Cardinality(B(i)) + 1
  BY <1>3, <1>5, FS_AddElement
<1>8. Cardinality(B(i) \cup {i}) <= Cardinality(B(j))
  BY <1>3, <1>6, FS_Subset
<1>9. Rank(key, i) = Cardinality(B(i)) + 1 /\ Rank(key, j) = Cardinality(B(j)) + 1
  BY DEF Rank
<1> HIDE DEF B
<1> QED
  BY <1>4, <1>7, <1>8, <1>9

\* Every place is some element's, and one element's only.
LEMMA RankOfEach ==
    ASSUME NEW n \in Nat, NEW key \in [1 .. n -> Nat]
    PROVE  /\ \A i, j \in 1 .. n : Rank(key, i) = Rank(key, j) => i = j
           /\ \A k \in 1 .. n : \E i \in 1 .. n : Rank(key, i) = k
<1> DEFINE r == [i \in 1 .. n |-> Rank(key, i)]
<1>1. \A i \in 1 .. n : Rank(key, i) \in 1 .. n
  BY RanksInRange
<1>2. \A i, j \in 1 .. n : Rank(key, i) = Rank(key, j) => i = j
  <2> SUFFICES ASSUME NEW i \in 1 .. n, NEW j \in 1 .. n, i # j PROVE Rank(key, i) # Rank(key, j)
    OBVIOUS
  <2>1. Precedes(key, i, j) \/ Precedes(key, j, i)
    BY DEF Precedes
  <2>2. Rank(key, i) < Rank(key, j) \/ Rank(key, j) < Rank(key, i)
    BY <2>1, RanksFollow
  <2> QED
    BY <1>1, <2>2
<1>3. r \in Injection(1 .. n, 1 .. n)
  BY <1>1, <1>2 DEF Injection, IsInjective
<1>4. r \in Surjection(1 .. n, 1 .. n)
  BY <1>3, FS_Interval, FS_Injection
<1> QED
  BY <1>2, <1>4 DEF Surjection

-----------------------------------------------------------------------------
(* A sequence that lists a set: all of its members, each once.             *)

LEMMA ListsElements ==
    ASSUME NEW S, NEW s, Lists(s, S)
    PROVE  /\ Len(s) \in Nat /\ DOMAIN s = 1 .. Len(s)
           /\ S = {s[i] : i \in 1 .. Len(s)}
<1>1. s \in Seq(S) /\ Len(s) \in Nat /\ DOMAIN s = 1 .. Len(s)
  BY DEF Lists
<1>2. \A i \in 1 .. Len(s) : s[i] \in S
  BY <1>1, ElementOfSeq
<1> QED
  BY <1>1, <1>2 DEF Lists

LEMMA ListsCount ==
    ASSUME NEW S, NEW s, Lists(s, S)
    PROVE  IsFiniteSet(S) /\ Cardinality(S) = Len(s)
<1>1. PICK n \in Nat : n = Len(s)
  BY ListsElements
<1>2. s \in [1 .. n -> S]
  <2>1. s \in Seq(S)
    BY DEF Lists
  <2>2. s \in [1 .. Len(s) -> S]
    BY <2>1
  <2> QED
    BY <1>1, <2>2
<1>3. s \in Injection(1 .. n, S) /\ s \in Surjection(1 .. n, S)
  BY <1>1, <1>2 DEF Lists, Injection, IsInjective, Surjection
<1>4. ExistsBijection(1 .. n, S)
  BY <1>3 DEF ExistsBijection, Bijection
<1>5. IsFiniteSet(1 .. n) /\ Cardinality(1 .. n) = n
  BY FS_Interval
<1> QED
  BY <1>1, <1>4, <1>5, FS_Bijection

LEMMA ListsNothing == Lists(<< >>, {})
  BY DEF Lists

LEMMA ListsOne ==
    ASSUME NEW e
    PROVE  Lists(<<e>>, {e})
  BY DEF Lists

LEMMA ListsBoth ==
    ASSUME NEW S, NEW T, NEW s, NEW t, Lists(s, S), Lists(t, T), S \cap T = {}
    PROVE  Lists(s \o t, S \cup T)
<1>a. Len(s) \in Nat /\ Len(t) \in Nat
  BY ListsElements
<1>b. PICK a \in Nat, b \in Nat : a = Len(s) /\ b = Len(t)
  BY <1>a
<1>0. PICK r : r = s \o t /\ a = Len(s) /\ b = Len(t)
  BY <1>b
<1>1. s \in Seq(S \cup T) /\ t \in Seq(S \cup T)
  <2>1. s \in Seq(S) /\ t \in Seq(T)
    BY DEF Lists
  <2> QED
    BY <2>1
<1>2. /\ r \in Seq(S \cup T)
      /\ Len(r) = a + b
      /\ \A i \in 1 .. a + b : r[i] = IF i <= a THEN s[i] ELSE t[i - a]
  <2>1. IsJoin(S \cup T, r, s, t)
    BY <1>0, <1>1, Joined
  <2> QED
    BY <1>0, <2>1, Zenon DEF IsJoin
<1>3. S = {s[i] : i \in 1 .. a} /\ T = {t[i] : i \in 1 .. b}
  BY <1>0, ListsElements
<1>4. \A i \in 1 .. a : i \in 1 .. a + b /\ r[i] = s[i]
  <2> SUFFICES ASSUME NEW i \in 1 .. a PROVE i \in 1 .. a + b /\ r[i] = s[i]
    OBVIOUS
  <2>1. i \in 1 .. a + b /\ i <= a
    OBVIOUS
  <2> QED
    BY <1>2, <2>1
<1>5. \A i \in 1 .. b : a + i \in 1 .. a + b /\ r[a + i] = t[i]
  <2> SUFFICES ASSUME NEW i \in 1 .. b PROVE a + i \in 1 .. a + b /\ r[a + i] = t[i]
    OBVIOUS
  <2>1. a + i \in 1 .. a + b /\ ~ (a + i <= a) /\ (a + i) - a = i
    OBVIOUS
  <2> QED
    BY <1>2, <2>1
<1>6. ASSUME NEW e \in S \cup T PROVE \E i \in 1 .. Len(r) : r[i] = e
  <2>1. CASE e \in S
    BY <1>2, <1>3, <1>4, <2>1
  <2>2. CASE e \in T
    BY <1>2, <1>3, <1>5, <2>2
  <2> QED
    BY <2>1, <2>2
<1>7. ASSUME NEW i \in 1 .. a + b
      PROVE  \/ i \in 1 .. a /\ r[i] = s[i] /\ r[i] \in S
             \/ \E m \in 1 .. b : i = a + m /\ r[i] = t[m] /\ r[i] \in T
  <2>1. CASE i <= a
    <3>1. i \in 1 .. a
      BY <2>1
    <3> QED
      BY <1>3, <1>4, <3>1
  <2>2. CASE ~ (i <= a)
    <3>1. i - a \in 1 .. b /\ i = a + (i - a)
      BY <2>2
    <3> QED
      BY <1>3, <1>5, <3>1
  <2> QED
    BY <2>1, <2>2
<1>8. ASSUME NEW i \in 1 .. a + b, NEW j \in 1 .. a + b, r[i] = r[j] PROVE i = j
  <2>1. CASE i \in 1 .. a /\ j \in 1 .. a
    BY <1>0, <1>4, <1>8, <2>1 DEF Lists
  <2>2. ASSUME NEW m \in 1 .. b, NEW l \in 1 .. b, i = a + m, j = a + l PROVE i = j
    <3>1. t[m] = t[l]
      BY <1>5, <1>8, <2>2
    <3> QED
      BY <1>0, <2>2, <3>1 DEF Lists
  <2>3. ~ (r[i] \in S /\ r[i] \in T)
    OBVIOUS
  <2> QED
    BY <1>7, <1>8, <2>1, <2>2, <2>3
<1> QED
  BY <1>0, <1>2, <1>6, <1>8 DEF Lists

LEMMA ListsSorted ==
    ASSUME NEW S, NEW s, Lists(s, S), NEW key \in [1 .. Len(s) -> Nat]
    PROVE  Lists(StablySorted(s, key), S) /\ Len(StablySorted(s, key)) = Len(s)
<1>a. PICK n \in Nat : n = Len(s)
  BY ListsElements
<1>b. PICK r : r = StablySorted(s, key)
  OBVIOUS
<1>0. n = Len(s) /\ r = StablySorted(s, key)
  BY <1>a, <1>b
<1>1. DOMAIN s = 1 .. n /\ S = {s[i] : i \in 1 .. n} /\ key \in [1 .. n -> Nat]
  BY <1>0, ListsElements
<1>2. /\ \A i, j \in 1 .. n : Rank(key, i) = Rank(key, j) => i = j
      /\ \A k \in 1 .. n : \E i \in 1 .. n : Rank(key, i) = k
  BY <1>1, RankOfEach
<1>3. r = [k \in 1 .. n |-> s[CHOOSE i \in 1 .. n : Rank(key, i) = k]]
  BY <1>0, <1>1 DEF StablySorted
<1>4. \A i \in 1 .. n : Rank(key, i) \in 1 .. n
  BY <1>1, RanksInRange
<1>5. \A i \in 1 .. n : r[Rank(key, i)] = s[i]
  <2> SUFFICES ASSUME NEW i \in 1 .. n PROVE r[Rank(key, i)] = s[i]
    OBVIOUS
  <2>1. (CHOOSE j \in 1 .. n : Rank(key, j) = Rank(key, i)) = i
    BY <1>2
  <2> QED
    BY <1>3, <1>4, <2>1
<1>6. r \in [1 .. n -> S]
  <2> SUFFICES ASSUME NEW k \in 1 .. n PROVE r[k] \in S
    BY <1>3
  <2>1. PICK i \in 1 .. n : Rank(key, i) = k
    BY <1>2
  <2> QED
    BY <1>1, <1>5, <2>1
<1>7. r \in Seq(S) /\ Len(r) = n
  BY <1>6
<1>8. ASSUME NEW k \in 1 .. n, NEW l \in 1 .. n, r[k] = r[l] PROVE k = l
  <2>1. PICK i \in 1 .. n, j \in 1 .. n : Rank(key, i) = k /\ Rank(key, j) = l
    BY <1>2
  <2>2. s[i] = s[j]
    BY <1>5, <1>8, <2>1
  <2> QED
    BY <1>0, <2>1, <2>2 DEF Lists
<1>9. ASSUME NEW e \in S PROVE \E k \in 1 .. n : r[k] = e
  BY <1>1, <1>4, <1>5
<1> QED
  BY <1>0, <1>7, <1>8, <1>9 DEF Lists

-----------------------------------------------------------------------------
(* Recursion.  Where every set of arguments has one that needs none of the *)
(* others, a recursive definition has a solution: B says what the function *)
(* is at an argument, given the function, and looks at what R needs only.  *)

Ends(X, R) == \A T \in SUBSET X : T # {} => \E x \in T : R[x] \cap T = {}

Local(X, V, R, B) ==
    \A x \in X : \A g, h \in [X -> V] : (\A y \in R[x] : g[y] = h[y]) => B[<<x, g>>] = B[<<x, h>>]

\* f solves the recursion on C.
Solves(X, V, R, B, C, f) ==
    /\ C \subseteq X
    /\ f \in [X -> V]
    /\ \A x \in C : R[x] \subseteq C /\ f[x] = B[<<x, f>>]

LEMMA SolutionsAgree ==
    ASSUME NEW X, NEW V, NEW R, NEW B, Ends(X, R), Local(X, V, R, B),
           NEW C, NEW f, Solves(X, V, R, B, C, f), NEW E, NEW g, Solves(X, V, R, B, E, g)
    PROVE  \A x \in C \cap E : f[x] = g[x]
<1> DEFINE T == {x \in C \cap E : f[x] # g[x]}
<1> SUFFICES ASSUME T # {} PROVE FALSE
  OBVIOUS
<1>1. T \in SUBSET X
  BY DEF Solves
<1>2. PICK x \in T : R[x] \cap T = {}
  BY <1>1 DEF Ends
<1>3. x \in X /\ f \in [X -> V] /\ g \in [X -> V] /\ R[x] \subseteq C \cap E
  BY <1>1, <1>2 DEF Solves
<1>4. \A y \in R[x] : f[y] = g[y]
  BY <1>2, <1>3
<1>5. B[<<x, f>>] = B[<<x, g>>]
  BY <1>3, <1>4 DEF Local
<1> QED
  BY <1>2, <1>5 DEF Solves

LEMMA RecursionHasSolution ==
    ASSUME NEW X, NEW V, NEW R, NEW B, Ends(X, R), Local(X, V, R, B),
           \A x \in X : R[x] \subseteq X,
           \A x \in X : \A g \in [X -> V] : B[<<x, g>>] \in V,
           NEW v \in V
    PROVE  \E f \in [X -> V] : \A x \in X : f[x] = B[<<x, f>>]
<1> DEFINE Good == {x \in X : \E C, f : Solves(X, V, R, B, C, f) /\ x \in C}
           At(x) == CHOOSE f : \E C : Solves(X, V, R, B, C, f) /\ x \in C
           g == [x \in X |-> IF x \in Good THEN At(x)[x] ELSE v]
<1>1. ASSUME NEW x \in Good PROVE \E C : Solves(X, V, R, B, C, At(x)) /\ x \in C
  OBVIOUS
<1> HIDE DEF At
<1>2. g \in [X -> V]
  <2>1. ASSUME NEW x \in Good PROVE At(x)[x] \in V
    BY <1>1 DEF Solves
  <2> QED
    BY <2>1
<1>3. Solves(X, V, R, B, Good, g)
  <2>1. ASSUME NEW x \in Good PROVE R[x] \subseteq Good /\ g[x] = B[<<x, g>>]
    <3>1. PICK C : Solves(X, V, R, B, C, At(x)) /\ x \in C
      BY <1>1
    <3>2. C \subseteq Good
      BY <3>1 DEF Solves
    <3>3. ASSUME NEW y \in C PROVE g[y] = At(x)[y]
      <4>1. PICK E : Solves(X, V, R, B, E, At(y)) /\ y \in E
        BY <1>1, <3>2
      <4>2. At(y)[y] = At(x)[y]
        BY <3>1, <4>1, SolutionsAgree
      <4> QED
        BY <3>2, <4>2
    <3>4. R[x] \subseteq C /\ At(x) \in [X -> V] /\ At(x)[x] = B[<<x, At(x)>>]
      BY <3>1 DEF Solves
    <3>5. B[<<x, At(x)>>] = B[<<x, g>>]
      BY <1>2, <3>3, <3>4 DEF Local
    <3> HIDE DEF g
    <3> QED
      BY <3>1, <3>2, <3>3, <3>4, <3>5
  <2> QED
    BY <1>2, <2>1 DEF Solves
<1> HIDE DEF g
<1>4. Good = X
  <2> SUFFICES ASSUME X \ Good # {} PROVE FALSE
    OBVIOUS
  <2>1. PICK x \in X \ Good : R[x] \cap (X \ Good) = {}
    BY DEF Ends
  <2>2. R[x] \subseteq Good
    BY <2>1
  <2> DEFINE h == [g EXCEPT ![x] = B[<<x, g>>]]
  <2>3. h \in [X -> V]
    BY <1>2
  <2>4. h[x] = B[<<x, h>>]
    <3>1. \A y \in R[x] : g[y] = h[y]
      BY <1>2, <2>1, <2>2
    <3>2. B[<<x, g>>] = B[<<x, h>>]
      BY <1>2, <2>3, <3>1 DEF Local
    <3> QED
      BY <1>2, <3>2
  <2>5. ASSUME NEW y \in Good PROVE h[y] = B[<<y, h>>]
    <3>1. R[y] \subseteq Good /\ g[y] = B[<<y, g>>] /\ y \in X
      BY <1>3 DEF Solves
    <3>2. \A z \in R[y] : g[z] = h[z]
      <4> SUFFICES ASSUME NEW z \in R[y] PROVE g[z] = h[z]
        OBVIOUS
      <4>1. z \in Good /\ z # x /\ z \in X
        BY <2>1, <3>1
      <4> QED
        BY <1>2, <4>1
    <3>3. B[<<y, g>>] = B[<<y, h>>]
      <4> HIDE DEF h
      <4> QED
        BY <1>2, <2>3, <3>1, <3>2 DEF Local
    <3>4. h[y] = g[y]
      BY <1>2, <2>1, <3>1
    <3> QED
      BY <3>1, <3>3, <3>4
  <2> HIDE DEF h
  <2>6. \A y \in Good : R[y] \subseteq Good
    BY <1>3 DEF Solves
  <2>7. Solves(X, V, R, B, Good \cup {x}, h)
    BY <2>1, <2>2, <2>3, <2>4, <2>5, <2>6 DEF Solves
  <2> QED
    BY <2>1, <2>7
<1> HIDE DEF Good
<1>5. \A x \in X : g[x] = B[<<x, g>>]
  BY <1>3, <1>4 DEF Solves
<1> QED
  BY <1>2, <1>5

=============================================================================
