--------------------------- MODULE WireSizeProofs ---------------------------
(***************************************************************************)
(* The sizes derived of a message, for every graph of types.  First what   *)
(* the recursive definitions return, step by step, as a CHOOSE says        *)
(* nothing of itself; then that an array, a type, a call is charged what   *)
(* is written of it, from the inside out; and when there is no worst case. *)
(***************************************************************************)
EXTENDS WireSize, OrdersProofs

-----------------------------------------------------------------------------
(* Numbers.                                                                *)

LEMMA Remainder ==
    ASSUME NEW w \in Nat, w > 0, NEW x \in Nat, x < w
    PROVE  x % w = x
  OBVIOUS

LEMMA AtMostFifteen ==
    ASSUME NEW n \in 1 .. 15
    PROVE  n \in Nat /\ n <= 15
  OBVIOUS

LEMMA Regrouped ==
    ASSUME NEW a \in Nat, NEW b \in Nat
    PROVE  a + 1 + b = a + (1 + b)
  OBVIOUS

LEMMA Product ==
    ASSUME NEW n \in Nat, NEW a \in Nat, NEW b \in Nat, a <= b
    PROVE  n * a \in Nat /\ n * a <= n * b
  OBVIOUS

LEMMA Constants ==
    ASSUME SizesFit
    PROVE  /\ Half \in Nat \ {0} /\ Width \in Nat /\ Width = 2 * Half
           /\ None \notin Nat /\ Unbounded \notin Int
<1>1. Width \in Nat \ {0} /\ Width % 2 = 0 /\ None \notin Nat /\ Unbounded \notin Int
  BY DEF SizesFit
<1>2. \A w \in Nat \ {0} : w % 2 = 0 => w \div 2 \in Nat \ {0} /\ w = 2 * (w \div 2)
  OBVIOUS
<1> QED
  BY <1>1, <1>2 DEF Half

\* A number an int64 holds is unchanged by it.
LEMMA WrapKeeps ==
    ASSUME SizesFit, NEW n \in Nat, n < Half
    PROVE  Wrap(n) = n
<1>1. PICK h \in Nat : h = Half /\ Width = 2 * h
  BY Constants
<1>2. Width \in Nat /\ Width > 0 /\ n + h \in Nat /\ n + h < Width
  BY <1>1
<1>3. (n + h) % Width = n + h
  BY <1>2, Remainder
<1>4. (n + h) - h = n
  BY <1>1
<1> QED
  BY <1>1, <1>3, <1>4 DEF Wrap

LEMMA LargerIs ==
    ASSUME SizesFit, NEW a \in Nat, NEW b \in Nat
    PROVE  /\ Larger(a, b) \in {a, b}
           /\ a < Half /\ b < Half => Larger(a, b) >= a /\ Larger(a, b) >= b
<1>1. ASSUME a < Half, b < Half PROVE Wrap(a) = a /\ Wrap(b) = b
  BY <1>1, WrapKeeps
<1> QED
  BY <1>1 DEF Larger

-----------------------------------------------------------------------------
(* Recursion over the numbers up to n.                                     *)

LEMMA Climb ==
    ASSUME NEW n \in Nat, NEW S, 0 \in S, \A k \in 1 .. n : k - 1 \in S => k \in S
    PROVE  \A k \in 0 .. n : k \in S
<1> DEFINE T == {k \in 0 .. n : k \notin S}
<1> SUFFICES ASSUME T # {} PROVE FALSE
  OBVIOUS
<1>1. T \subseteq Nat
  OBVIOUS
<1>2. PICK k \in T : \A j \in T : k <= j
  BY <1>1, HasLowest
<1>3. k \in 1 .. n /\ k - 1 \in 0 .. n /\ k - 1 \notin T
  BY <1>2
<1> QED
  BY <1>2, <1>3

Stays(n, V, step) == \A k \in 1 .. n : \A x \in V : step[<<k, x>>] \in V

Climbs(n, V, v, step, f) ==
    /\ f \in [0 .. n -> V]
    /\ f[0] = v
    /\ \A k \in 1 .. n : f[k] = step[<<k, f[k - 1]>>]

LEMMA StepwiseExists ==
    ASSUME NEW n \in Nat, NEW V, NEW v \in V, NEW step, Stays(n, V, step)
    PROVE  \E f : Climbs(n, V, v, step, f)
<1> DEFINE X == 0 .. n
           R == [k \in X |-> IF k = 0 THEN {} ELSE {k - 1}]
           B == [a \in X \X [X -> V] |-> IF a[1] = 0 THEN v ELSE step[<<a[1], a[2][a[1] - 1]>>]]
<1>1. \A k \in X : k # 0 => k \in 1 .. n /\ k - 1 \in X
  OBVIOUS
<1>2. \A k \in X : R[k] \subseteq X
  BY <1>1
<1>3. Ends(X, R)
  <2> SUFFICES ASSUME NEW T \in SUBSET X, T # {} PROVE \E k \in T : R[k] \cap T = {}
    BY DEF Ends
  <2>1. T \subseteq Nat
    OBVIOUS
  <2>2. PICK k \in T : \A j \in T : k <= j
    BY <2>1, HasLowest
  <2>3. R[k] \cap T = {}
    BY <2>2
  <2> QED
    BY <2>3
<1>4. \A x \in X : \A g \in [X -> V] : B[<<x, g>>] = IF x = 0 THEN v ELSE step[<<x, g[x - 1]>>]
  OBVIOUS
<1>5. \A x \in X : \A g \in [X -> V] : B[<<x, g>>] \in V
  BY <1>1, <1>4 DEF Stays
<1>6. Local(X, V, R, B)
  <2> SUFFICES ASSUME NEW x \in X, NEW g \in [X -> V], NEW h \in [X -> V], \A y \in R[x] : g[y] = h[y]
               PROVE  B[<<x, g>>] = B[<<x, h>>]
    BY DEF Local
  <2>1. x # 0 => g[x - 1] = h[x - 1]
    OBVIOUS
  <2> QED
    BY <1>4, <2>1
<1> HIDE DEF B, R, X
<1>7. PICK f \in [X -> V] : \A x \in X : f[x] = B[<<x, f>>]
  BY <1>2, <1>3, <1>5, <1>6, RecursionHasSolution
<1>8. \A x \in X : f[x] = IF x = 0 THEN v ELSE step[<<x, f[x - 1]>>]
  BY <1>4, <1>7
<1> USE DEF X
<1>9. f[0] = v
  <2>1. 0 \in X
    OBVIOUS
  <2> QED
    BY <1>8, <2>1
<1>10. \A k \in 1 .. n : k \in X /\ k # 0
  OBVIOUS
<1>11. \A k \in 1 .. n : f[k] = step[<<k, f[k - 1]>>]
  BY <1>8, <1>10
<1> QED
  BY <1>7, <1>9, <1>11, Zenon DEF Climbs

-----------------------------------------------------------------------------
(* The length of a varint.                                                 *)

LEMMA VarintLenIs ==
    /\ VarintLen \in [Nat -> Nat]
    /\ \A n \in Nat : VarintLen[n] = IF n < 128 THEN 1 ELSE 1 + VarintLen[n \div 128]
<1> DEFINE X == Nat
           R == [n \in X |-> IF n < 128 THEN {} ELSE {n \div 128}]
           B == [a \in X \X [X -> Nat] |-> IF a[1] < 128 THEN 1 ELSE 1 + a[2][a[1] \div 128]]
           Is(f) == f = [n \in Nat |-> IF n < 128 THEN 1 ELSE 1 + f[n \div 128]]
<1>1. \A n \in Nat : n \div 128 \in Nat /\ (n >= 128 => n \div 128 < n)
  OBVIOUS
<1>2. \A n \in X : R[n] \subseteq X
  BY <1>1
<1>3. Ends(X, R)
  <2> SUFFICES ASSUME NEW T \in SUBSET Nat, T # {} PROVE \E n \in T : R[n] \cap T = {}
    BY DEF Ends
  <2>1. PICK n \in T : \A j \in T : n <= j
    BY HasLowest
  <2>2. R[n] \cap T = {}
    BY <1>1, <2>1
  <2> QED
    BY <2>2
<1>4. \A x \in X : \A g \in [X -> Nat] : B[<<x, g>>] = IF x < 128 THEN 1 ELSE 1 + g[x \div 128]
  OBVIOUS
<1>5. \A x \in X : \A g \in [X -> Nat] : B[<<x, g>>] \in Nat
  <2> SUFFICES ASSUME NEW x \in X, NEW g \in [X -> Nat] PROVE B[<<x, g>>] \in Nat
    OBVIOUS
  <2>1. g[x \div 128] \in Nat
    BY <1>1
  <2> HIDE DEF B
  <2> QED
    BY <1>4, <2>1
<1>6. Local(X, Nat, R, B)
  <2> SUFFICES ASSUME NEW x \in X, NEW g \in [X -> Nat], NEW h \in [X -> Nat], \A y \in R[x] : g[y] = h[y]
               PROVE  B[<<x, g>>] = B[<<x, h>>]
    BY DEF Local
  <2>1. ~ x < 128 => g[x \div 128] = h[x \div 128]
    OBVIOUS
  <2> HIDE DEF B
  <2> QED
    BY <1>4, <2>1
<1>z. 0 \in Nat
  OBVIOUS
<1> HIDE DEF B, R, X
<1>7. PICK f \in [X -> Nat] : \A x \in X : f[x] = B[<<x, f>>]
  BY <1>2, <1>3, <1>5, <1>6, <1>z, RecursionHasSolution
<1>8. Is(f)
  <2>1. ASSUME NEW x \in X PROVE f[x] = IF x < 128 THEN 1 ELSE 1 + f[x \div 128]
    <3>1. B[<<x, f>>] = IF x < 128 THEN 1 ELSE 1 + f[x \div 128]
      BY <1>4, <1>7, Zenon
    <3>2. f[x] = B[<<x, f>>]
      BY <1>7, Zenon
    <3> QED
      BY <3>1, <3>2, Zenon
  <2>2. f = [n \in X |-> f[n]]
    BY <1>7
  <2> QED
    BY <2>1, <2>2, Zenon DEF X
<1> USE DEF X
<1>9. PICK c : c = (CHOOSE g : Is(g)) /\ Is(c)
  BY <1>8
<1>10. VarintLen = c
  BY <1>9, Zenon DEF VarintLen
<1>11. \A n \in Nat : c[n] = f[n]
  <2> DEFINE T == {n \in Nat : c[n] # f[n]}
  <2> SUFFICES ASSUME T # {} PROVE FALSE
    OBVIOUS
  <2>1. PICK n \in T : \A j \in T : n <= j
    BY HasLowest
  <2>2. c[n] = (IF n < 128 THEN 1 ELSE 1 + c[n \div 128]) /\ f[n] = (IF n < 128 THEN 1 ELSE 1 + f[n \div 128])
    BY <1>8, <1>9, <2>1
  <2>3. n >= 128 => n \div 128 \notin T /\ n \div 128 \in Nat
    BY <1>1, <2>1
  <2> QED
    BY <2>1, <2>2, <2>3
<1>12. \A n \in Nat : c[n] \in Nat /\ c[n] = IF n < 128 THEN 1 ELSE 1 + c[n \div 128]
  <2>1. \A n \in Nat : c[n] \in Nat
    BY <1>7, <1>11
  <2>2. \A n \in Nat : c[n] = IF n < 128 THEN 1 ELSE 1 + c[n \div 128]
    BY <1>9
  <2> QED
    BY <2>1, <2>2
<1>13. c \in [Nat -> Nat]
  BY <1>9, <1>12
<1> QED
  BY <1>10, <1>12, <1>13

\* A larger number has no shorter varint.
LEMMA VarintLenGrows ==
    ASSUME NEW a \in Nat, NEW b \in Nat, a <= b
    PROVE  VarintLen[a] <= VarintLen[b] /\ VarintLen[a] \in Nat /\ VarintLen[a] >= 1
<1>1. \A n \in Nat : /\ VarintLen[n] \in Nat /\ VarintLen[n] >= 1
                     /\ VarintLen[n] = IF n < 128 THEN 1 ELSE 1 + VarintLen[n \div 128]
  <2>1. \A n \in Nat : n \div 128 \in Nat
    OBVIOUS
  <2> QED
    BY <2>1, VarintLenIs
<1> DEFINE T == {n \in Nat : \E j \in Nat : j <= n /\ ~ VarintLen[j] <= VarintLen[n]}
<1>2. T = {}
  <2> SUFFICES ASSUME T # {} PROVE FALSE
    OBVIOUS
  <2>1. PICK n \in T : \A k \in T : n <= k
    BY HasLowest
  <2>2. PICK j \in Nat : j <= n /\ ~ VarintLen[j] <= VarintLen[n]
    BY <2>1
  <2>3. j >= 128 /\ n >= 128
    BY <1>1, <2>1, <2>2
  <2>4. /\ j \div 128 \in Nat /\ n \div 128 \in Nat
        /\ j \div 128 <= n \div 128 /\ n \div 128 < n
    BY <2>1, <2>2, <2>3
  <2>5. n \div 128 \notin T
    BY <2>1, <2>4
  <2>6. VarintLen[j \div 128] <= VarintLen[n \div 128]
    BY <2>4, <2>5
  <2> QED
    BY <1>1, <2>1, <2>2, <2>3, <2>4, <2>6
<1> QED
  BY <1>1, <1>2

LEMMA HeaderGrows ==
    ASSUME NEW a \in Nat, NEW b \in Nat, a <= b
    PROVE  /\ Header(a) <= Header(b) /\ Header(a) \in Nat /\ Header(a) >= 1
           /\ a <= 15 => Header(a) = 1
<1>1. 8 * a + 7 \in Nat /\ 8 * b + 7 \in Nat /\ 8 * a + 7 <= 8 * b + 7 /\ (a <= 15 => 8 * a + 7 < 128)
  OBVIOUS
<1> QED
  BY <1>1, VarintLenIs, VarintLenGrows DEF Header

-----------------------------------------------------------------------------
(* What the recursive definitions compute, one step at a time.             *)

Amounts == Nat \cup {Unbounded}
AllCaps == [{"array", "string", "blob"} -> Nat \cup {None}]
Modes == [decode : BOOLEAN, caps : AllCaps]

LEMMA FieldParts ==
    ASSUME NEW types, NEW f \in SizedFields(types)
    PROVE  /\ f.id \in Nat
           /\ f.type.counts \in Seq((Nat \ {0}) \cup {None})
           /\ f.type.leaf.kind \in {"varint", "fixed", "string", "blob", "ref"}
           /\ f.type.leaf.kind \in {"varint", "fixed"} => f.type.leaf.width \in Nat
           /\ f.type.leaf.kind \in {"string", "blob"} => f.type.leaf.max \in Nat \cup {None}
           /\ f.type.leaf.kind = "ref" => f.type.leaf.to \in DOMAIN types
  BY DEF SizedFields

\* A sum or a highest is one more cost at each step.
LEMMA TallyIs ==
    ASSUME NEW costs \in Seq(Nat), NEW largest \in BOOLEAN
    PROVE  \E c \in [0 .. Len(costs) -> Nat] :
              /\ Tally(costs, largest) = c[Len(costs)]
              /\ c[0] = 0
              /\ \A k \in 1 .. Len(costs) : c[k] = (IF largest THEN Larger(c[k - 1], costs[k]) ELSE c[k - 1] + costs[k])
<1>0. PICK n \in Nat : n = Len(costs)
  BY LenProperties
<1> DEFINE V == Nat
           Then(k, x) == (IF largest THEN Larger(x, costs[k]) ELSE x + costs[k])
           step == [a \in (1 .. n) \X V |-> Then(a[1], a[2])]
           Is(h) == h = [k \in 0 .. n |-> IF k = 0 THEN 0 ELSE Then(k, h[k - 1])]
<1>1. \A k \in 1 .. n : \A x \in V : Then(k, x) \in V
  <2> SUFFICES ASSUME NEW k \in 1 .. n, NEW x \in Nat PROVE Then(k, x) \in Nat
    OBVIOUS
  <2>1. costs[k] \in Nat
    BY <1>0, ElementOfSeq
  <2> QED
    BY <2>1 DEF Larger
<1>2. \A k \in 1 .. n : \A x \in V : step[<<k, x>>] = Then(k, x)
  OBVIOUS
<1>3. 0 \in V
  OBVIOUS
<1>4. 0 \in 0 .. n /\ \A k \in 1 .. n : k \in 0 .. n /\ k # 0 /\ k - 1 \in 0 .. n
  OBVIOUS
<1>5. \A k \in 0 .. n : k # 0 => k \in 1 .. n
  OBVIOUS
<1> HIDE DEF step, Then, V
<1>6. Stays(n, V, step)
  BY <1>1, <1>2 DEF Stays
<1>a. PICK h : Climbs(n, V, 0, step, h)
  BY <1>3, <1>6, StepwiseExists, Zenon
<1>7. h \in [0 .. n -> V] /\ h[0] = 0 /\ \A k \in 1 .. n : h[k] = step[<<k, h[k - 1]>>]
  BY <1>a DEF Climbs
<1>8. \A k \in 1 .. n : h[k - 1] \in V /\ h[k] = Then(k, h[k - 1])
  BY <1>2, <1>4, <1>7
<1>9. Is(h)
  BY <1>5, <1>7, <1>8
<1>10. PICK c : c = (CHOOSE g : Is(g)) /\ Is(c)
  BY <1>9
<1>11. Tally(costs, largest) = c[n]
  BY <1>0, <1>10, Zenon DEF Tally, Then
<1>12. c = [k \in 0 .. n |-> IF k = 0 THEN 0 ELSE Then(k, c[k - 1])]
  BY <1>10
<1>13. c[0] = 0 /\ \A k \in 1 .. n : c[k] = Then(k, c[k - 1])
  <2>1. \A k \in 0 .. n : c[k] = IF k = 0 THEN 0 ELSE Then(k, c[k - 1])
    BY <1>12
  <2> QED
    BY <1>4, <2>1
<1>14. c \in [0 .. n -> V]
  <2> DEFINE S == {k \in 0 .. n : c[k] = h[k]}
  <2>1. 0 \in S
    BY <1>4, <1>7, <1>13
  <2>2. \A k \in 1 .. n : k - 1 \in S => k \in S
    BY <1>4, <1>8, <1>13
  <2>3. \A k \in 0 .. n : k \in S
    <3> HIDE DEF S
    <3> QED
      BY <2>1, <2>2, Climb
  <2>4. \A k \in 0 .. n : c[k] \in V
    BY <1>7, <2>3
  <2> QED
    BY <1>12, <2>4
<1> QED
  BY <1>0, <1>11, <1>13, <1>14, Zenon DEF Then, V

\* Without a count an array has no worst case, nor has one of elements without.
LEMMA ArrayWireMaxIs ==
    ASSUME SizesFit, NEW types, NEW f \in SizedFields(types), NEW m \in Modes,
           NEW k \in 1 .. Len(f.type.counts), NEW x \in Amounts,
           NEW count, count = Bound(f.type.counts[k], m.caps.array)
    PROVE  /\ ArrayWireMax(f.type, k, m, x) \in Amounts
           /\ count \in Nat \cup {None}
           /\ count = None => ArrayWireMax(f.type, k, m, x) = Unbounded
           /\ count # None /\ k = 1 /\ Native(f.type.leaf) =>
                 /\ ArrayWireMax(f.type, k, m, x) = NativeMax(count, f.type.leaf, m)
                 /\ NativeMax(count, f.type.leaf, m) \in Nat
           /\ count # None /\ ~ (k = 1 /\ Native(f.type.leaf)) =>
                 ArrayWireMax(f.type, k, m, x) =
                    IF x = Unbounded THEN Unbounded ELSE count * (Header(count) + x) + 1
<1>1. /\ f.type.counts[k] \in (Nat \ {0}) \cup {None}
      /\ m.caps.array \in Nat \cup {None}
      /\ None \notin Nat /\ Unbounded \notin Int
  BY FieldParts, ElementOfSeq, Constants DEF Modes, AllCaps
<1>2. count \in Nat \cup {None}
  BY <1>1 DEF Bound
<1>3. CASE count = None
  <2>1. ArrayWireMax(f.type, k, m, x) = Unbounded
    BY <1>3 DEF ArrayWireMax
  <2> QED
    BY <1>3, <2>1 DEF Amounts
<1>4. CASE count \in Nat
  <2>1. VarintLen[count] \in Nat /\ Header(count) \in Nat
    BY <1>4, VarintLenIs, HeaderGrows
  <2>2. \A a \in Nat : count * a \in Nat
    BY <1>4, Product
  <2>3. CASE k = 1 /\ Native(f.type.leaf)
    <3>1. f.type.leaf.width \in Nat
      BY <2>3, FieldParts DEF Native
    <3>2. Varint(f.type.leaf, m) \in Nat
      BY <3>1 DEF Varint
    <3>3. count * f.type.leaf.width \in Nat /\ count * Varint(f.type.leaf, m) \in Nat
      BY <2>2, <3>1, <3>2
    <3>4. NativeMax(count, f.type.leaf, m) \in Nat
      BY <2>1, <3>3 DEF NativeMax
    <3>5. ArrayWireMax(f.type, k, m, x) = NativeMax(count, f.type.leaf, m)
      BY <1>1, <1>4, <2>3, Zenon DEF ArrayWireMax
    <3> QED
      BY <1>1, <1>4, <2>3, <3>4, <3>5 DEF Amounts
  <2>4. CASE ~ (k = 1 /\ Native(f.type.leaf))
    <3>1. ArrayWireMax(f.type, k, m, x) = WrapperMax(count, x)
      BY <1>1, <1>4, <2>4, Zenon DEF ArrayWireMax
    <3>2. CASE x = Unbounded
      <4>1. WrapperMax(count, x) = Unbounded
        BY <3>2 DEF WrapperMax, Plus, Times
      <4> QED
        BY <1>1, <1>4, <2>4, <3>1, <3>2, <4>1 DEF Amounts
    <3>3. CASE x \in Nat
      <4>1. Plus(Header(count), x) = Header(count) + x /\ Header(count) + x \in Nat
        BY <1>1, <2>1, <3>3 DEF Plus
      <4>2. Times(count, Header(count) + x) = count * (Header(count) + x) /\ count * (Header(count) + x) \in Nat
        BY <1>1, <2>2, <4>1 DEF Times
      <4>3. WrapperMax(count, x) = count * (Header(count) + x) + 1
        BY <1>1, <4>1, <4>2 DEF WrapperMax, Plus
      <4> QED
        BY <1>1, <1>4, <2>4, <3>1, <3>3, <4>2, <4>3 DEF Amounts
    <3> QED
      BY <3>2, <3>3 DEF Amounts
  <2> QED
    BY <2>3, <2>4
<1> QED
  BY <1>2, <1>3, <1>4

\* An array of arrays is costed from its elements outwards.
LEMMA TypeMaxIs ==
    ASSUME SizesFit, NEW types, NEW f \in SizedFields(types), NEW m \in Modes, NEW leafMax \in Amounts
    PROVE  \E c \in [0 .. Len(f.type.counts) -> Amounts] :
              /\ TypeMax(f.type, m, leafMax) = c[Len(f.type.counts)]
              /\ c[0] = leafMax
              /\ \A k \in 1 .. Len(f.type.counts) : c[k] = ArrayWireMax(f.type, k, m, c[k - 1])
<1>0. PICK n \in Nat : n = Len(f.type.counts)
  BY FieldParts, LenProperties
<1> DEFINE V == Amounts
           Then(k, x) == ArrayWireMax(f.type, k, m, x)
           step == [a \in (1 .. n) \X V |-> Then(a[1], a[2])]
           Is(h) == h = [k \in 0 .. n |-> IF k = 0 THEN leafMax ELSE Then(k, h[k - 1])]
<1>1. \A k \in 1 .. n : \A x \in V : Then(k, x) \in V
  BY <1>0, ArrayWireMaxIs, Zenon
<1>2. \A k \in 1 .. n : \A x \in V : step[<<k, x>>] = Then(k, x)
  OBVIOUS
<1>3. leafMax \in V
  OBVIOUS
<1>4. 0 \in 0 .. n /\ \A k \in 1 .. n : k \in 0 .. n /\ k # 0 /\ k - 1 \in 0 .. n
  OBVIOUS
<1>5. \A k \in 0 .. n : k # 0 => k \in 1 .. n
  OBVIOUS
<1> HIDE DEF step, Then, V
<1>6. Stays(n, V, step)
  BY <1>1, <1>2 DEF Stays
<1>a. PICK h : Climbs(n, V, leafMax, step, h)
  BY <1>3, <1>6, StepwiseExists, Zenon
<1>7. h \in [0 .. n -> V] /\ h[0] = leafMax /\ \A k \in 1 .. n : h[k] = step[<<k, h[k - 1]>>]
  BY <1>a DEF Climbs
<1>8. \A k \in 1 .. n : h[k - 1] \in V /\ h[k] = Then(k, h[k - 1])
  BY <1>2, <1>4, <1>7
<1>9. Is(h)
  BY <1>5, <1>7, <1>8
<1>10. PICK c : c = (CHOOSE g : Is(g)) /\ Is(c)
  BY <1>9
<1>11. TypeMax(f.type, m, leafMax) = c[n]
  BY <1>0, <1>10, Zenon DEF TypeMax, Then
<1>12. c = [k \in 0 .. n |-> IF k = 0 THEN leafMax ELSE Then(k, c[k - 1])]
  BY <1>10
<1>13. c[0] = leafMax /\ \A k \in 1 .. n : c[k] = Then(k, c[k - 1])
  <2>1. \A k \in 0 .. n : c[k] = IF k = 0 THEN leafMax ELSE Then(k, c[k - 1])
    BY <1>12
  <2> QED
    BY <1>4, <2>1
<1>14. c \in [0 .. n -> V]
  <2> DEFINE S == {k \in 0 .. n : c[k] = h[k]}
  <2>1. 0 \in S
    BY <1>4, <1>7, <1>13
  <2>2. \A k \in 1 .. n : k - 1 \in S => k \in S
    BY <1>4, <1>8, <1>13
  <2>3. \A k \in 0 .. n : k \in S
    <3> HIDE DEF S
    <3> QED
      BY <2>1, <2>2, Climb
  <2>4. \A k \in 0 .. n : c[k] \in V
    BY <1>7, <2>3
  <2> QED
    BY <1>12, <2>4
<1> QED
  BY <1>0, <1>11, <1>13, <1>14, Zenon DEF Then, V

-----------------------------------------------------------------------------
(* Sums and highest costs.                                                 *)

Steps(costs, largest, n, c) ==
    /\ c \in [0 .. n -> Nat]
    /\ Tally(costs, largest) = c[n]
    /\ c[0] = 0
    /\ \A k \in 1 .. n :
          /\ costs[k] \in Nat /\ c[k - 1] \in Nat /\ c[k] \in Nat
          /\ c[k] = IF largest THEN Larger(c[k - 1], costs[k]) ELSE c[k - 1] + costs[k]

LEMMA TallySteps ==
    ASSUME NEW costs \in Seq(Nat), NEW largest \in BOOLEAN, NEW n \in Nat, n = Len(costs)
    PROVE  \E c : Steps(costs, largest, n, c)
<1>1. PICK c \in [0 .. Len(costs) -> Nat] :
         /\ Tally(costs, largest) = c[Len(costs)] /\ c[0] = 0
         /\ \A k \in 1 .. Len(costs) :
               c[k] = (IF largest THEN Larger(c[k - 1], costs[k]) ELSE c[k - 1] + costs[k])
  BY TallyIs, Zenon
<1>2. /\ c \in [0 .. n -> Nat] /\ Tally(costs, largest) = c[n]
      /\ \A k \in 1 .. n : c[k] = IF largest THEN Larger(c[k - 1], costs[k]) ELSE c[k - 1] + costs[k]
  BY <1>1, Zenon
<1>3. \A k \in 1 .. n : costs[k] \in Nat
  BY ElementOfSeq
<1>4. \A k \in 1 .. n : k - 1 \in 0 .. n /\ k \in 0 .. n
  OBVIOUS
<1>5. \A k \in 1 .. n : c[k - 1] \in Nat /\ c[k] \in Nat
  BY <1>2, <1>4
<1> QED
  BY <1>1, <1>2, <1>3, <1>5, Zenon DEF Steps

LEMMA SumsCompare ==
    ASSUME NEW costs \in Seq(Nat), NEW other \in Seq(Nat), Len(costs) = Len(other),
           \A i \in 1 .. Len(costs) : other[i] <= costs[i]
    PROVE  /\ Tally(other, FALSE) \in Nat /\ Tally(costs, FALSE) \in Nat
           /\ Tally(other, FALSE) <= Tally(costs, FALSE)
<1>0. PICK n \in Nat : n = Len(costs) /\ n = Len(other)
  BY LenProperties
<1>1. PICK c : Steps(costs, FALSE, n, c)
  BY <1>0, TallySteps
<1>2. PICK d : Steps(other, FALSE, n, d)
  BY <1>0, TallySteps
<1> DEFINE S == {k \in 0 .. n : d[k] <= c[k]}
<1>3. 0 \in S
  BY <1>1, <1>2 DEF Steps
<1>4. ASSUME NEW k \in 1 .. n, k - 1 \in S PROVE k \in S
  <2>1. costs[k] \in Nat /\ other[k] \in Nat /\ other[k] <= costs[k]
    BY <1>0, <1>1, <1>2 DEF Steps
  <2>2. /\ c[k - 1] \in Nat /\ c[k] = c[k - 1] + costs[k]
        /\ d[k - 1] \in Nat /\ d[k] = d[k - 1] + other[k]
    BY <1>1, <1>2 DEF Steps
  <2>3. k \in 0 .. n /\ d[k - 1] <= c[k - 1]
    BY <1>4
  <2> QED
    BY <2>1, <2>2, <2>3, SMTT(30)
<1>5. \A k \in 0 .. n : k \in S
  <2> HIDE DEF S
  <2> QED
    BY <1>3, <1>4, Climb
<1>6. n \in 0 .. n
  OBVIOUS
<1>7. d[n] <= c[n] /\ d[n] \in Nat /\ c[n] \in Nat
  BY <1>1, <1>2, <1>5, <1>6 DEF Steps
<1> QED
  BY <1>1, <1>2, <1>7 DEF Steps

LEMMA SumHolds ==
    ASSUME NEW costs \in Seq(Nat), NEW i \in 1 .. Len(costs)
    PROVE  costs[i] <= Tally(costs, FALSE) /\ costs[i] \in Nat /\ Tally(costs, FALSE) \in Nat
<1>0. PICK n \in Nat : n = Len(costs) /\ i \in 1 .. n
  BY LenProperties
<1>1. PICK c : Steps(costs, FALSE, n, c)
  BY <1>0, TallySteps
<1>2. \A k \in 1 .. n : costs[k] \in Nat
  BY <1>1 DEF Steps
<1> DEFINE S == {k \in 0 .. n : i <= k => costs[i] <= c[k]}
<1>3. 0 \in S
  BY <1>0
<1>4. ASSUME NEW k \in 1 .. n, k - 1 \in S PROVE k \in S
  <2>1. k \in 0 .. n /\ c[k - 1] \in Nat /\ c[k] = c[k - 1] + costs[k] /\ costs[k] \in Nat /\ costs[i] \in Nat
    BY <1>0, <1>1, <1>2 DEF Steps
  <2>2. i <= k - 1 => costs[i] <= c[k - 1]
    BY <1>4
  <2>3. i <= k => i = k \/ i <= k - 1
    BY <1>0
  <2> QED
    BY <2>1, <2>2, <2>3
<1>5. \A k \in 0 .. n : k \in S
  <2> HIDE DEF S
  <2> QED
    BY <1>3, <1>4, Climb
<1>6. n \in 0 .. n /\ i <= n
  BY <1>0
<1>7. costs[i] <= c[n] /\ c[n] \in Nat
  BY <1>1, <1>5, <1>6 DEF Steps
<1> QED
  BY <1>0, <1>1, <1>2, <1>7 DEF Steps

LEMMA HighestIs ==
    ASSUME SizesFit, NEW costs \in Seq(Nat), \A i \in 1 .. Len(costs) : costs[i] < Half
    PROVE  /\ Tally(costs, TRUE) \in Nat
           /\ \A i \in 1 .. Len(costs) : costs[i] <= Tally(costs, TRUE)
           /\ Tally(costs, TRUE) = 0 \/ \E i \in 1 .. Len(costs) : Tally(costs, TRUE) = costs[i]
<1>0. PICK n \in Nat : n = Len(costs)
  BY LenProperties
<1>1. PICK c : Steps(costs, TRUE, n, c)
  BY <1>0, TallySteps
<1>2. \A k \in 1 .. n : costs[k] \in Nat /\ costs[k] < Half
  BY <1>0, <1>1 DEF Steps
<1>a. Half \in Nat \ {0}
  BY Constants
<1> DEFINE Good(k) == /\ c[k] < Half
                      /\ \A i \in 1 .. n : i <= k => costs[i] <= c[k]
                      /\ c[k] = 0 \/ \E i \in 1 .. n : c[k] = costs[i]
           S == {k \in 0 .. n : Good(k)}
<1>3. 0 \in S
  BY <1>a, <1>1 DEF Steps
<1>4. ASSUME NEW k \in 1 .. n, k - 1 \in S PROVE k \in S
  <2>1. k \in 0 .. n /\ c[k - 1] \in Nat /\ c[k - 1] < Half /\ c[k] = Larger(c[k - 1], costs[k]) /\ c[k] \in Nat
    BY <1>1, <1>4 DEF Steps
  <2>2. c[k] \in {c[k - 1], costs[k]} /\ c[k] >= c[k - 1] /\ c[k] >= costs[k]
    BY <1>2, <2>1, LargerIs
  <2>3. c[k] < Half /\ (c[k] = 0 \/ \E i \in 1 .. n : c[k] = costs[i])
    BY <1>2, <1>4, <2>1, <2>2
  <2>4. ASSUME NEW i \in 1 .. n, i <= k PROVE costs[i] <= c[k]
    <3>1. CASE i = k
      BY <2>2, <3>1
    <3>2. CASE i <= k - 1
      <4>1. costs[i] <= c[k - 1] /\ costs[i] \in Nat
        BY <1>2, <1>4, <3>2
      <4> QED
        BY <2>1, <2>2, <4>1
    <3> QED
      BY <2>4, <3>1, <3>2
  <2> QED
    BY <2>1, <2>3, <2>4
<1>5. \A k \in 0 .. n : k \in S
  <2> HIDE DEF S
  <2> QED
    BY <1>3, <1>4, Climb
<1>6. n \in 0 .. n
  OBVIOUS
<1>7. c[n] \in Nat /\ n \in S
  BY <1>1, <1>5, <1>6 DEF Steps
<1>8. \A i \in 1 .. n : costs[i] <= c[n]
  BY <1>7
<1> QED
  BY <1>0, <1>1, <1>7, <1>8 DEF Steps

-----------------------------------------------------------------------------
(* What the elements of an array and their headers come to.                *)

LEMMA LeadIs ==
    ASSUME NEW n, NEW pad, pad # "all"
    PROVE  Lead(n, pad) = n
  BY DEF Lead

\* One more element has one more header.
LEMMA IndexHeadersIs ==
    ASSUME NEW n \in Nat, NEW pad, pad # "all"
    PROVE  \E c \in [0 .. n -> Nat] :
              /\ IndexHeaders(n, pad) = c[n]
              /\ c[0] = 0
              /\ \A k \in 1 .. n : c[k] = c[k - 1] + Lead(Header(k - 1), pad)
<1>0. n \in Nat
  OBVIOUS
<1> DEFINE V == Nat
           Then(k, x) == x + Lead(Header(k - 1), pad)
           step == [a \in (1 .. n) \X V |-> Then(a[1], a[2])]
           Is(h) == h = [k \in 0 .. n |-> IF k = 0 THEN 0 ELSE Then(k, h[k - 1])]
<1>1. \A k \in 1 .. n : \A x \in V : Then(k, x) \in V
  <2> SUFFICES ASSUME NEW k \in 1 .. n, NEW x \in Nat PROVE Then(k, x) \in Nat
    OBVIOUS
  <2>1. k - 1 \in Nat
    OBVIOUS
  <2>2. Header(k - 1) \in Nat
    BY <2>1, HeaderGrows
  <2> QED
    BY <2>2, LeadIs
<1>2. \A k \in 1 .. n : \A x \in V : step[<<k, x>>] = Then(k, x)
  OBVIOUS
<1>3. 0 \in V
  OBVIOUS
<1>4. 0 \in 0 .. n /\ \A k \in 1 .. n : k \in 0 .. n /\ k # 0 /\ k - 1 \in 0 .. n
  OBVIOUS
<1>5. \A k \in 0 .. n : k # 0 => k \in 1 .. n
  OBVIOUS
<1> HIDE DEF step, Then, V
<1>6. Stays(n, V, step)
  BY <1>1, <1>2 DEF Stays
<1>a. PICK h : Climbs(n, V, 0, step, h)
  BY <1>3, <1>6, StepwiseExists, Zenon
<1>7. h \in [0 .. n -> V] /\ h[0] = 0 /\ \A k \in 1 .. n : h[k] = step[<<k, h[k - 1]>>]
  BY <1>a DEF Climbs
<1>8. \A k \in 1 .. n : h[k - 1] \in V /\ h[k] = Then(k, h[k - 1])
  BY <1>2, <1>4, <1>7
<1>9. Is(h)
  BY <1>5, <1>7, <1>8
<1>10. PICK c : c = (CHOOSE g : Is(g)) /\ Is(c)
  BY <1>9
<1>11. IndexHeaders(n, pad) = c[n]
  BY <1>0, <1>10, Zenon DEF IndexHeaders, Then
<1>12. c = [k \in 0 .. n |-> IF k = 0 THEN 0 ELSE Then(k, c[k - 1])]
  BY <1>10
<1>13. c[0] = 0 /\ \A k \in 1 .. n : c[k] = Then(k, c[k - 1])
  <2>1. \A k \in 0 .. n : c[k] = IF k = 0 THEN 0 ELSE Then(k, c[k - 1])
    BY <1>12
  <2> QED
    BY <1>4, <2>1
<1>14. c \in [0 .. n -> V]
  <2> DEFINE S == {k \in 0 .. n : c[k] = h[k]}
  <2>1. 0 \in S
    BY <1>4, <1>7, <1>13
  <2>2. \A k \in 1 .. n : k - 1 \in S => k \in S
    BY <1>4, <1>8, <1>13
  <2>3. \A k \in 0 .. n : k \in S
    <3> HIDE DEF S
    <3> QED
      BY <2>1, <2>2, Climb
  <2>4. \A k \in 0 .. n : c[k] \in V
    BY <1>7, <2>3
  <2> QED
    BY <1>12, <2>4
<1> QED
  BY <1>0, <1>11, <1>13, <1>14, Zenon DEF Then, V

\* Every header is charged the widest; up to 15 elements all have one byte.
LEMMA IndexHeadersBound ==
    ASSUME NEW n \in Nat, NEW pad, pad # "all"
    PROVE  /\ IndexHeaders(n, pad) \in Nat
           /\ IndexHeaders(n, pad) <= n * Header(n)
           /\ n <= 15 => IndexHeaders(n, pad) = n * Header(n)
<1>1. PICK c \in [0 .. n -> Nat] :
         /\ IndexHeaders(n, pad) = c[n] /\ c[0] = 0
         /\ \A k \in 1 .. n : c[k] = c[k - 1] + Lead(Header(k - 1), pad)
  BY IndexHeadersIs, Zenon
<1>2. PICK w \in Nat : w = Header(n)
  BY HeaderGrows
<1>3. ASSUME NEW k \in 1 .. n
      PROVE  /\ k - 1 \in 0 .. n /\ c[k - 1] \in Nat /\ c[k] = c[k - 1] + Header(k - 1)
             /\ Header(k - 1) \in Nat /\ Header(k - 1) <= w /\ (n <= 15 => Header(k - 1) = 1)
  <2>1. k - 1 \in 0 .. n /\ k - 1 \in Nat /\ k - 1 <= n /\ (n <= 15 => k - 1 <= 15)
    OBVIOUS
  <2>2. Header(k - 1) \in Nat /\ Header(k - 1) <= w /\ (n <= 15 => Header(k - 1) = 1)
    BY <1>2, <2>1, HeaderGrows
  <2>3. c[k] = c[k - 1] + Header(k - 1)
    BY <1>1, LeadIs
  <2> QED
    BY <2>1, <2>2, <2>3
<1>4. n <= 15 => w = 1
  BY <1>2, HeaderGrows
<1>5. \A k \in Nat \ {0} : (k - 1) * w + w = k * w /\ (k - 1) * w \in Nat
  BY Product
<1> DEFINE S == {k \in 0 .. n : c[k] <= k * w /\ (n <= 15 => c[k] = k)}
<1>6. 0 \in S
  BY <1>1
<1>7. ASSUME NEW k \in 1 .. n, k - 1 \in S PROVE k \in S
  <2>1. k \in 0 .. n /\ c[k - 1] <= (k - 1) * w /\ (n <= 15 => c[k - 1] = k - 1)
    BY <1>7
  <2>2. (k - 1) * w + w = k * w /\ (k - 1) * w \in Nat
    BY <1>5
  <2>3. c[k] <= k * w
    BY <1>3, <2>1, <2>2
  <2>4. n <= 15 => c[k] = k
    BY <1>3, <2>1
  <2> QED
    BY <2>1, <2>3, <2>4
<1>8. \A k \in 0 .. n : k \in S
  <2> HIDE DEF S
  <2> QED
    BY <1>6, <1>7, Climb
<1>9. n \in 0 .. n /\ n * 1 = n
  OBVIOUS
<1>10. c[n] \in Nat /\ c[n] <= n * w /\ (n <= 15 => c[n] = n * w)
  BY <1>4, <1>8, <1>9
<1> QED
  BY <1>1, <1>2, <1>10

LEMMA FullArrayIs ==
    ASSUME SizesFit, NEW types, NEW f \in SizedFields(types), NEW caps \in AllCaps, NEW pad, pad # "all",
           NEW k \in 1 .. Len(f.type.counts), NEW x \in Nat
    PROVE  FullArray(f.type, k, pad, caps, x) \in Nat
<1>1. PICK n \in Nat : n = Filled(f.type.counts[k], caps.array)
  <2>1. f.type.counts[k] \in (Nat \ {0}) \cup {None} /\ caps.array \in Nat \cup {None}
    BY FieldParts, ElementOfSeq DEF AllCaps
  <2> QED
    BY <2>1 DEF Filled, Bound
<1>2. VarintLen[n] \in Nat /\ Lead(VarintLen[n], pad) \in Nat /\ Lead(1, pad) \in Nat
  BY VarintLenIs, LeadIs
<1>3. \A a \in Nat : n * a \in Nat
  BY Product
<1>4. Native(f.type.leaf) => n * f.type.leaf.width \in Nat /\ n * Padded(f.type.leaf, pad) \in Nat
  <2>1. Native(f.type.leaf) => f.type.leaf.width \in Nat /\ Padded(f.type.leaf, pad) \in Nat
    BY FieldParts DEF Native, Padded
  <2> QED
    BY <1>3, <2>1
<1>5. IndexHeaders(n, pad) \in Nat /\ n * x \in Nat
  BY <1>3, IndexHeadersBound
<1>6. CASE k = 1 /\ f.type.leaf.kind = "varint"
  BY <1>1, <1>2, <1>4, <1>6 DEF FullArray, Native
<1>7. CASE k = 1 /\ f.type.leaf.kind = "fixed"
  BY <1>1, <1>2, <1>4, <1>7 DEF FullArray, Native
<1>8. CASE ~ (k = 1 /\ f.type.leaf.kind = "varint") /\ ~ (k = 1 /\ f.type.leaf.kind = "fixed")
  BY <1>1, <1>5, <1>8 DEF FullArray
<1> QED
  BY <1>6, <1>7, <1>8

\* An array of arrays is filled from its elements outwards.
Filling(f, pad, caps, leaf, n, d) ==
    /\ d \in [0 .. n -> Nat]
    /\ FullType(f.type, pad, caps, leaf) = d[n]
    /\ d[0] = leaf
    /\ \A k \in 1 .. n : d[k] = FullArray(f.type, k, pad, caps, d[k - 1])

LEMMA FullTypeIs ==
    ASSUME SizesFit, NEW types, NEW f \in SizedFields(types), NEW caps \in AllCaps, NEW pad, pad # "all", NEW leaf \in Nat
    PROVE  \E c : Filling(f, pad, caps, leaf, Len(f.type.counts), c)
<1>0. PICK n \in Nat : n = Len(f.type.counts)
  BY FieldParts, LenProperties
<1> DEFINE V == Nat
           Then(k, x) == FullArray(f.type, k, pad, caps, x)
           step == [a \in (1 .. n) \X V |-> Then(a[1], a[2])]
           Is(h) == h = [k \in 0 .. n |-> IF k = 0 THEN leaf ELSE Then(k, h[k - 1])]
<1>1. \A k \in 1 .. n : \A x \in V : Then(k, x) \in V
  BY <1>0, FullArrayIs
<1>2. \A k \in 1 .. n : \A x \in V : step[<<k, x>>] = Then(k, x)
  OBVIOUS
<1>3. leaf \in V
  OBVIOUS
<1>4. 0 \in 0 .. n /\ \A k \in 1 .. n : k \in 0 .. n /\ k # 0 /\ k - 1 \in 0 .. n
  OBVIOUS
<1>5. \A k \in 0 .. n : k # 0 => k \in 1 .. n
  OBVIOUS
<1> HIDE DEF step, Then, V
<1>6. Stays(n, V, step)
  BY <1>1, <1>2 DEF Stays
<1>a. PICK h : Climbs(n, V, leaf, step, h)
  BY <1>3, <1>6, StepwiseExists, Zenon
<1>7. h \in [0 .. n -> V] /\ h[0] = leaf /\ \A k \in 1 .. n : h[k] = step[<<k, h[k - 1]>>]
  BY <1>a DEF Climbs
<1>8. \A k \in 1 .. n : h[k - 1] \in V /\ h[k] = Then(k, h[k - 1])
  BY <1>2, <1>4, <1>7
<1>9. Is(h)
  BY <1>5, <1>7, <1>8
<1>10. PICK c : c = (CHOOSE g : Is(g)) /\ Is(c)
  BY <1>9
<1>11. FullType(f.type, pad, caps, leaf) = c[n]
  BY <1>0, <1>10, Zenon DEF FullType, Then
<1>12. c = [k \in 0 .. n |-> IF k = 0 THEN leaf ELSE Then(k, c[k - 1])]
  BY <1>10
<1>13. c[0] = leaf /\ \A k \in 1 .. n : c[k] = Then(k, c[k - 1])
  <2>1. \A k \in 0 .. n : c[k] = IF k = 0 THEN leaf ELSE Then(k, c[k - 1])
    BY <1>12
  <2> QED
    BY <1>4, <2>1
<1>14. c \in [0 .. n -> V]
  <2> DEFINE S == {k \in 0 .. n : c[k] = h[k]}
  <2>1. 0 \in S
    BY <1>4, <1>7, <1>13
  <2>2. \A k \in 1 .. n : k - 1 \in S => k \in S
    BY <1>4, <1>8, <1>13
  <2>3. \A k \in 0 .. n : k \in S
    <3> HIDE DEF S
    <3> QED
      BY <2>1, <2>2, Climb
  <2>4. \A k \in 0 .. n : c[k] \in V
    BY <1>7, <2>3
  <2> QED
    BY <1>12, <2>4
<1>15. Filling(f, pad, caps, leaf, n, c)
  BY <1>0, <1>11, <1>13, <1>14, Zenon DEF Then, V, Filling
<1> QED
  BY <1>0, <1>15

-----------------------------------------------------------------------------
(* An array has no more bytes than it is charged, if that holds of its     *)
(* elements.                                                               *)

PadFor(m) == IF m.decode THEN "values" ELSE "none"

LEMMA PadIs == \A m : PadFor(m) # "all"
  BY DEF PadFor

LEMMA ArrayBound ==
    ASSUME SizesFit, NEW types, NEW f \in SizedFields(types), NEW m \in Modes,
           NEW k \in 1 .. Len(f.type.counts), NEW x \in Nat, NEW y \in Nat, y <= x,
           ArrayWireMax(f.type, k, m, x) # Unbounded
    PROVE  /\ ArrayWireMax(f.type, k, m, x) \in Nat
           /\ FullArray(f.type, k, PadFor(m), m.caps, y) <= ArrayWireMax(f.type, k, m, x)
           /\ y = x /\ ((k = 1 /\ Native(f.type.leaf)) \/ f.type.counts[k] \in 1 .. 15) =>
                 FullArray(f.type, k, PadFor(m), m.caps, y) = ArrayWireMax(f.type, k, m, x)
<1>0. PICK count : count = Bound(f.type.counts[k], m.caps.array)
  OBVIOUS
<1>1. None \notin Nat /\ Unbounded \notin Int
  BY Constants
<1>2. count \in Nat
  BY <1>0, ArrayWireMaxIs DEF Amounts
<1>3. Filled(f.type.counts[k], m.caps.array) = count
  BY <1>0, <1>1, <1>2 DEF Filled
<1>4. /\ VarintLen[count] \in Nat /\ Lead(VarintLen[count], PadFor(m)) = VarintLen[count]
      /\ Lead(1, PadFor(m)) = 1
  BY <1>2, VarintLenIs, LeadIs, PadIs
<1>5. CASE k = 1 /\ Native(f.type.leaf)
  <2>1. f.type.leaf.width \in Nat /\ Varint(f.type.leaf, m) \in Nat
    BY <1>5, FieldParts DEF Native, Varint
  <2>2. Padded(f.type.leaf, PadFor(m)) = Varint(f.type.leaf, m)
    BY DEF Padded, PadFor, Varint
  <2>3. count * f.type.leaf.width \in Nat /\ count * Varint(f.type.leaf, m) \in Nat
    BY <1>2, <2>1, Product
  <2>4. /\ ArrayWireMax(f.type, k, m, x) = NativeMax(count, f.type.leaf, m)
        /\ NativeMax(count, f.type.leaf, m) \in Nat
    BY <1>0, <1>1, <1>2, <1>5, ArrayWireMaxIs DEF Amounts
  <2>5. CASE f.type.leaf.kind = "varint"
    <3>1. NativeMax(count, f.type.leaf, m) = VarintLen[count] + count * Varint(f.type.leaf, m)
      BY <2>5 DEF NativeMax
    <3>2. FullArray(f.type, k, PadFor(m), m.caps, y) = VarintLen[count] + count * Varint(f.type.leaf, m)
      BY <1>3, <1>4, <1>5, <2>2, <2>5, Zenon DEF FullArray
    <3> QED
      BY <2>4, <3>1, <3>2
  <2>6. CASE f.type.leaf.kind = "fixed"
    <3>1. NativeMax(count, f.type.leaf, m) = VarintLen[count] + (1 + count * f.type.leaf.width)
      BY <2>6, Zenon DEF NativeMax
    <3>2. FullArray(f.type, k, PadFor(m), m.caps, y) = VarintLen[count] + 1 + count * f.type.leaf.width
      BY <1>3, <1>4, <1>5, <2>6 DEF FullArray
    <3>3. VarintLen[count] + 1 + count * f.type.leaf.width = VarintLen[count] + (1 + count * f.type.leaf.width)
      BY <1>4, <2>3, Regrouped, Zenon
    <3> QED
      BY <2>4, <3>1, <3>2, <3>3
  <2> QED
    BY <1>5, <2>5, <2>6, Zenon DEF Native
<1>6. CASE ~ (k = 1 /\ Native(f.type.leaf))
  <2>1. PICK h \in Nat : h = Header(count)
    BY <1>2, HeaderGrows
  <2>2. PICK i \in Nat : i = IndexHeaders(count, PadFor(m)) /\ i <= count * h /\ (count <= 15 => i = count * h)
    BY <1>2, <2>1, IndexHeadersBound, PadIs
  <2>3. ArrayWireMax(f.type, k, m, x) = count * (h + x) + 1
    BY <1>0, <1>1, <1>2, <1>6, <2>1, ArrayWireMaxIs DEF Amounts
  <2>4. FullArray(f.type, k, PadFor(m), m.caps, y) = i + count * y + 1
    BY <1>3, <1>6, <2>2 DEF FullArray, Native
  <2>5. count * y <= count * x /\ count * x \in Nat /\ count * y \in Nat /\ count * h \in Nat
    BY <1>2, Product
  <2>6. count * (h + x) = count * h + count * x
    BY <1>2
  <2>7. ASSUME f.type.counts[k] \in 1 .. 15 PROVE count <= 15
    <3>1. f.type.counts[k] \in Nat /\ f.type.counts[k] <= 15
      BY <2>7, AtMostFifteen, Zenon
    <3>2. f.type.counts[k] # None
      BY <1>1, <3>1, Zenon
    <3>3. count = f.type.counts[k]
      BY <1>0, <3>2, Zenon DEF Bound
    <3> QED
      BY <3>1, <3>3, Zenon
  <2>8. PICK a \in Nat, b \in Nat, e \in Nat : a = count * x /\ b = count * y /\ e = count * h
    BY <2>5
  <2>9. /\ ArrayWireMax(f.type, k, m, x) = e + a + 1
        /\ FullArray(f.type, k, PadFor(m), m.caps, y) = i + b + 1
        /\ b <= a /\ i <= e /\ (count <= 15 => i = e) /\ (y = x => b = a)
    BY <2>2, <2>3, <2>4, <2>5, <2>6, <2>8
  <2>10. ASSUME (k = 1 /\ Native(f.type.leaf)) \/ f.type.counts[k] \in 1 .. 15 PROVE count <= 15
    BY <1>6, <2>7, <2>10
  <2>11. i + b + 1 <= e + a + 1 /\ e + a + 1 \in Nat /\ (i = e /\ b = a => i + b + 1 = e + a + 1)
    BY <2>9
  <2> QED
    BY <2>9, <2>10, <2>11
<1> QED
  BY <1>5, <1>6

LEMMA TypeBound ==
    ASSUME SizesFit, NEW types, NEW f \in SizedFields(types), NEW m \in Modes,
           NEW leafMax \in Amounts, Native(f.type.leaf) => leafMax # Unbounded,
           NEW leaf \in Nat, leafMax # Unbounded => leaf <= leafMax,
           TypeMax(f.type, m, leafMax) # Unbounded
    PROVE  /\ leafMax # Unbounded
           /\ TypeMax(f.type, m, leafMax) \in Nat
           /\ FullType(f.type, PadFor(m), m.caps, leaf) \in Nat
           /\ FullType(f.type, PadFor(m), m.caps, leaf) <= TypeMax(f.type, m, leafMax)
           /\ Short(f.type) /\ leaf = leafMax =>
                 FullType(f.type, PadFor(m), m.caps, leaf) = TypeMax(f.type, m, leafMax)
<1>0. PICK n \in Nat : n = Len(f.type.counts) /\ DOMAIN f.type.counts = 1 .. n
  BY FieldParts, LenProperties
<1>a. m.caps \in AllCaps /\ PadFor(m) # "all" /\ Unbounded \notin Nat
  BY PadIs, Constants DEF Modes
<1>b. PICK c \in [0 .. Len(f.type.counts) -> Amounts] :
         /\ TypeMax(f.type, m, leafMax) = c[Len(f.type.counts)] /\ c[0] = leafMax
         /\ \A k \in 1 .. Len(f.type.counts) : c[k] = ArrayWireMax(f.type, k, m, c[k - 1])
  BY TypeMaxIs
<1>1. /\ c \in [0 .. n -> Amounts]
      /\ TypeMax(f.type, m, leafMax) = c[n] /\ c[0] = leafMax
      /\ \A k \in 1 .. n : c[k] = ArrayWireMax(f.type, k, m, c[k - 1])
  BY <1>0, <1>b, Zenon
<1>d. PICK caps, pad : caps = m.caps /\ pad = PadFor(m) /\ caps \in AllCaps /\ pad # "all"
  BY <1>a
<1>c. PICK d : Filling(f, pad, caps, leaf, Len(f.type.counts), d)
  BY <1>d, FullTypeIs
<1>2. /\ d \in [0 .. n -> Nat]
      /\ FullType(f.type, PadFor(m), m.caps, leaf) = d[n] /\ d[0] = leaf
      /\ \A k \in 1 .. n : d[k] = FullArray(f.type, k, PadFor(m), m.caps, d[k - 1])
  BY <1>0, <1>c, <1>d, Zenon DEF Filling
<1> DEFINE Good(k) == c[k] # Unbounded =>
                        /\ leafMax # Unbounded
                        /\ d[k] <= c[k]
                        /\ Short(f.type) /\ leaf = leafMax => d[k] = c[k]
           S == {k \in 0 .. n : Good(k)}
<1>3. 0 \in S
  BY <1>1, <1>2
<1>4. ASSUME NEW k \in 1 .. n, k - 1 \in S PROVE k \in S
  <2> SUFFICES ASSUME c[k] # Unbounded PROVE Good(k)
    OBVIOUS
  <2>1. /\ k - 1 \in 0 .. n /\ c[k - 1] \in Amounts /\ d[k - 1] \in Nat /\ Good(k - 1)
        /\ c[k] = ArrayWireMax(f.type, k, m, c[k - 1])
        /\ d[k] = FullArray(f.type, k, PadFor(m), m.caps, d[k - 1])
        /\ k \in 1 .. Len(f.type.counts)
    BY <1>0, <1>1, <1>2, <1>4
  <2>2. c[k - 1] # Unbounded
    <3>1. PICK count : count = Bound(f.type.counts[k], m.caps.array)
      OBVIOUS
    <3>2. c[k - 1] = Unbounded => k = 1 /\ Native(f.type.leaf)
      BY <2>1, <3>1, ArrayWireMaxIs
    <3>3. k = 1 => k - 1 = 0
      OBVIOUS
    <3> QED
      BY <1>1, <3>2, <3>3
  <2>3. c[k - 1] \in Nat /\ d[k - 1] <= c[k - 1] /\ leafMax # Unbounded
    BY <2>1, <2>2 DEF Amounts
  <2>4. /\ d[k] <= c[k]
        /\ d[k - 1] = c[k - 1] /\ ((k = 1 /\ Native(f.type.leaf)) \/ f.type.counts[k] \in 1 .. 15) => d[k] = c[k]
    BY <2>1, <2>3, ArrayBound
  <2>5. Short(f.type) => (k = 1 /\ Native(f.type.leaf)) \/ f.type.counts[k] \in 1 .. 15
    BY <1>0, <2>1 DEF Short, Native
  <2> QED
    BY <2>1, <2>2, <2>3, <2>4, <2>5
<1>5. \A k \in 0 .. n : k \in S
  <2> HIDE DEF S
  <2> QED
    BY <1>3, <1>4, Climb
<1>6. n \in 0 .. n
  OBVIOUS
<1>7. Good(n) /\ c[n] \in Nat /\ d[n] \in Nat
  BY <1>1, <1>2, <1>5, <1>6 DEF Amounts
<1> QED
  BY <1>1, <1>2, <1>7

-----------------------------------------------------------------------------
(* SizeCalls: each is of a name inside of more names than its caller.          *)

WellFormed(types) ==
    /\ IsFiniteSet(DOMAIN types)
    /\ \A name \in DOMAIN types : types[name].fields \in Seq(SizedFields(types))

\* The names a call makes its own calls inside of.
Inside(call) == call[2] \cup {call[1]}

Deeper(types) == [call \in SizeCalls(types) |-> IF call[1] \in call[2] THEN {} ELSE (DOMAIN types) \X {Inside(call)}]

LEMMA CallIs ==
    ASSUME NEW types, NEW call \in SizeCalls(types)
    PROVE  /\ call[1] \in DOMAIN types /\ call[2] \in SUBSET DOMAIN types /\ call = <<call[1], call[2]>>
           /\ Inside(call) \in SUBSET DOMAIN types
           /\ \A name \in DOMAIN types : <<name, Inside(call)>> \in SizeCalls(types)
  BY DEF SizeCalls, Inside

LEMMA CallsEnd ==
    ASSUME NEW types, IsFiniteSet(DOMAIN types)
    PROVE  Ends(SizeCalls(types), Deeper(types)) /\ \A call \in SizeCalls(types) : Deeper(types)[call] \subseteq SizeCalls(types)
<1>1. ASSUME NEW call \in SizeCalls(types) PROVE Deeper(types)[call] \subseteq SizeCalls(types)
  BY CallIs DEF Deeper, SizeCalls
<1>2. ASSUME NEW T \in SUBSET SizeCalls(types), T # {} PROVE \E call \in T : Deeper(types)[call] \cap T = {}
  <2> DEFINE Left(call) == Cardinality((DOMAIN types) \ call[2])
             Sizes == {Left(call) : call \in T}
  <2>1. \A call \in T : Left(call) \in Nat
    BY FS_Difference, FS_CardinalityType
  <2>2. Sizes \subseteq Nat /\ Sizes # {}
    BY <1>2, <2>1
  <2>3. PICK call \in T : \A other \in T : Left(call) <= Left(other)
    <3>1. PICK least \in Sizes : \A size \in Sizes : least <= size
      <4> HIDE DEF Sizes
      <4> QED
        BY <2>2, HasLowest
    <3> HIDE DEF Left
    <3> QED
      BY <3>1
  <2>4. ASSUME NEW other \in Deeper(types)[call], other \in T PROVE FALSE
    <3>1. call \in SizeCalls(types) /\ call[1] \notin call[2] /\ other[2] = Inside(call)
      BY <2>3, <2>4 DEF Deeper
    <3>2. call[1] \in (DOMAIN types) \ call[2] /\ (DOMAIN types) \ other[2] = ((DOMAIN types) \ call[2]) \ {call[1]}
      BY <3>1, CallIs DEF Inside
    <3>a. PICK rest, name : rest = (DOMAIN types) \ call[2] /\ name = call[1]
      OBVIOUS
    <3>3. IsFiniteSet(rest) /\ name \in rest /\ Left(call) = Cardinality(rest) /\ Left(other) = Cardinality(rest \ {name})
      BY <3>2, <3>a, FS_Difference
    <3>4. Left(other) = Left(call) - 1
      BY <3>3, FS_RemoveElement
    <3> HIDE DEF Left
    <3>5. Left(call) <= Left(other) /\ Left(call) \in Nat
      BY <2>1, <2>3, <2>4
    <3> QED
      BY <3>4, <3>5
  <2> QED
    BY <2>4
<1> QED
  BY <1>1, <1>2 DEF Ends

-----------------------------------------------------------------------------
(* What structWireMax computes.                                            *)

LEMMA JoinIs ==
    ASSUME SizesFit, NEW costs \in Seq(Amounts), NEW largest \in BOOLEAN
    PROVE  /\ Join(costs, largest) \in Amounts
           /\ Join(costs, largest) = Unbounded <=> \E i \in 1 .. Len(costs) : costs[i] = Unbounded
           /\ Join(costs, largest) # Unbounded => costs \in Seq(Nat) /\ Join(costs, largest) = Tally(costs, largest)
<1>1. Unbounded \notin Nat
  BY Constants
<1>2. Unbounded \in Range(costs) <=> \E i \in 1 .. Len(costs) : costs[i] = Unbounded
  BY DEF Range
<1>3. CASE Unbounded \in Range(costs)
  BY <1>2, <1>3 DEF Join, Amounts
<1>4. CASE Unbounded \notin Range(costs)
  <2>1. \A i \in 1 .. Len(costs) : costs[i] \in Nat
    BY <1>2, <1>4, ElementOfSeq DEF Amounts
  <2>2. costs \in Seq(Nat)
    BY <2>1
  <2>3. Tally(costs, largest) \in Nat
    <3>1. PICK n \in Nat : n = Len(costs)
      BY LenProperties
    <3>2. PICK c : Steps(costs, largest, n, c)
      BY <2>2, <3>1, TallySteps
    <3> QED
      BY <3>2 DEF Steps
  <2> QED
    BY <1>1, <1>2, <1>4, <2>2, <2>3 DEF Join, Amounts
<1> QED
  BY <1>3, <1>4

LEMMA LeafMaxIs ==
    ASSUME SizesFit, NEW types, NEW f \in SizedFields(types), NEW m \in Modes, NEW inner, NEW path,
           f.type.leaf.kind = "ref" => inner[<<f.type.leaf.to, path>>] \in Amounts
    PROVE  /\ LeafMax(inner, f.type.leaf, path, m) \in Amounts
           /\ Native(f.type.leaf) => LeafMax(inner, f.type.leaf, path, m) # Unbounded
<1>1. None \notin Nat /\ Unbounded \notin Nat
  BY Constants
<1>2. CASE f.type.leaf.kind = "varint"
  BY <1>1, <1>2, FieldParts DEF LeafMax, Varint, Amounts
<1>3. CASE f.type.leaf.kind = "fixed"
  BY <1>1, <1>3, FieldParts DEF LeafMax, Amounts
<1>4. CASE f.type.leaf.kind \in {"string", "blob"}
  <2>1. PICK n \in Nat \cup {None} : n = Bound(f.type.leaf.max, m.caps[f.type.leaf.kind])
    BY <1>4, FieldParts DEF Bound, Modes, AllCaps
  <2>2. n \in Nat => FixlenWord(n) \in Nat
    BY VarintLenIs DEF FixlenWord
  <2>3. Payload(f.type.leaf, m) \in Amounts
    <3>1. Payload(f.type.leaf, m) = IF n = None THEN Unbounded ELSE FixlenWord(n) + n
      BY <2>1, Zenon DEF Payload
    <3> QED
      BY <1>1, <2>1, <2>2, <3>1 DEF Amounts
  <2>4. LeafMax(inner, f.type.leaf, path, m) = Payload(f.type.leaf, m)
    <3>1. /\ f.type.leaf.kind # "varint"
          /\ f.type.leaf.kind # "fixed"
      BY <1>4
    <3> QED
      BY <1>4, <3>1, Zenon DEF LeafMax
  <2> QED
    BY <1>4, <2>3, <2>4 DEF Native
<1>5. CASE f.type.leaf.kind = "ref"
  <2>1. LeafMax(inner, f.type.leaf, path, m) = Plus(inner[<<f.type.leaf.to, path>>], 1)
    BY <1>5 DEF LeafMax
  <2> QED
    BY <1>5, <2>1 DEF Plus, Amounts, Native
<1> QED
  BY <1>2, <1>3, <1>4, <1>5, FieldParts

LEMMA FieldMaxIs ==
    ASSUME SizesFit, NEW types, NEW f \in SizedFields(types), NEW m \in Modes, NEW inner, NEW path,
           f.type.leaf.kind = "ref" => inner[<<f.type.leaf.to, path>>] \in Amounts
    PROVE  /\ FieldMax(inner, f, path, m) \in Amounts
           /\ FieldMax(inner, f, path, m) # Unbounded =>
                 /\ TypeMax(f.type, m, LeafMax(inner, f.type.leaf, path, m)) \in Nat
                 /\ FieldMax(inner, f, path, m) = Header(f.id) + TypeMax(f.type, m, LeafMax(inner, f.type.leaf, path, m))
           /\ TypeMax(f.type, m, LeafMax(inner, f.type.leaf, path, m)) = Unbounded => FieldMax(inner, f, path, m) = Unbounded
           /\ FieldMax(inner, f, path, m) = Unbounded => TypeMax(f.type, m, LeafMax(inner, f.type.leaf, path, m)) = Unbounded
<1>1. PICK x \in Amounts : x = LeafMax(inner, f.type.leaf, path, m)
  BY LeafMaxIs
<1>2. PICK n \in Nat : n = Len(f.type.counts)
  BY FieldParts, LenProperties
<1>3. TypeMax(f.type, m, x) \in Amounts
  <2>1. PICK c \in [0 .. Len(f.type.counts) -> Amounts] : TypeMax(f.type, m, x) = c[Len(f.type.counts)]
    BY TypeMaxIs
  <2> QED
    BY <1>2, <2>1
<1>4. Header(f.id) \in Nat /\ Unbounded \notin Nat
  BY FieldParts, HeaderGrows, Constants
<1>5. FieldMax(inner, f, path, m) = Plus(Header(f.id), TypeMax(f.type, m, x))
  BY <1>1 DEF FieldMax
<1> QED
  BY <1>1, <1>3, <1>4, <1>5 DEF Plus, Amounts

LEMMA FieldMaxSame ==
    ASSUME NEW f, NEW m, NEW g, NEW h, NEW path,
           f.type.leaf.kind = "ref" => g[<<f.type.leaf.to, path>>] = h[<<f.type.leaf.to, path>>]
    PROVE  FieldMax(g, f, path, m) = FieldMax(h, f, path, m)
<1>1. LeafMax(g, f.type.leaf, path, m) = LeafMax(h, f.type.leaf, path, m)
  BY DEF LeafMax
<1> QED
  BY <1>1, Zenon DEF FieldMax

LEMMA CostsAre ==
    ASSUME SizesFit, NEW types, NEW fields \in Seq(SizedFields(types)), NEW m \in Modes, NEW inner, NEW path,
           \A name \in DOMAIN types : inner[<<name, path>>] \in Amounts
    PROVE  /\ Costs(inner, fields, path, m) \in Seq(Amounts)
           /\ Len(Costs(inner, fields, path, m)) = Len(fields)
           /\ \A i \in 1 .. Len(fields) : /\ fields[i] \in SizedFields(types)
                                          /\ Costs(inner, fields, path, m)[i] = FieldMax(inner, fields[i], path, m)
<1>1. \A i \in 1 .. Len(fields) : fields[i] \in SizedFields(types)
  BY ElementOfSeq
<1>2. \A i \in 1 .. Len(fields) : FieldMax(inner, fields[i], path, m) \in Amounts
  <2> SUFFICES ASSUME NEW i \in 1 .. Len(fields) PROVE FieldMax(inner, fields[i], path, m) \in Amounts
    OBVIOUS
  <2>1. fields[i] \in SizedFields(types)
    BY <1>1
  <2>2. fields[i].type.leaf.kind = "ref" => inner[<<fields[i].type.leaf.to, path>>] \in Amounts
    BY <2>1, FieldParts
  <2> QED
    BY <2>1, <2>2, FieldMaxIs
<1>3. PICK n \in Nat : n = Len(fields) /\ DOMAIN fields = 1 .. n
  BY LenProperties
<1>4. PICK costs : costs = Costs(inner, fields, path, m)
  OBVIOUS
<1>5. costs = [i \in 1 .. n |-> FieldMax(inner, fields[i], path, m)]
  BY <1>3, <1>4, Zenon DEF Costs
<1>6. costs \in [1 .. n -> Amounts] /\ \A i \in 1 .. n : costs[i] = FieldMax(inner, fields[i], path, m)
  BY <1>2, <1>3, <1>5
<1>7. costs \in Seq(Amounts) /\ Len(costs) = n
  BY <1>6
<1> QED
  BY <1>1, <1>3, <1>4, <1>6, <1>7

BodyMax(types, m, inner, call) ==
    IF call[1] \in call[2] THEN Unbounded
    ELSE Join(Costs(inner, types[call[1]].fields, Inside(call), m), types[call[1]].cat = "union" /\ ~ m.decode)

LEMMA BodyMaxIs ==
    ASSUME SizesFit, NEW types, WellFormed(types), NEW m \in Modes, NEW call \in SizeCalls(types), NEW inner,
           \A name \in DOMAIN types : call[1] \notin call[2] => inner[<<name, Inside(call)>>] \in Amounts
    PROVE  BodyMax(types, m, inner, call) \in Amounts
<1>1. CASE call[1] \in call[2]
  BY <1>1 DEF BodyMax, Amounts
<1>2. CASE call[1] \notin call[2]
  <2>1. PICK costs, largest :
          /\ costs = Costs(inner, types[call[1]].fields, Inside(call), m)
          /\ largest = (types[call[1]].cat = "union" /\ ~ m.decode)
    OBVIOUS
  <2>2. largest \in BOOLEAN
    BY <2>1, Zenon
  <2>3. types[call[1]].fields \in Seq(SizedFields(types))
    BY CallIs DEF WellFormed
  <2>4. costs \in Seq(Amounts)
    BY <1>2, <2>1, <2>3, CostsAre
  <2>5. Join(costs, largest) \in Amounts
    BY <2>2, <2>4, JoinIs
  <2>6. BodyMax(types, m, inner, call) = Join(costs, largest)
    BY <1>2, <2>1, Zenon DEF BodyMax
  <2> QED
    BY <2>5, <2>6
<1> QED
  BY <1>1, <1>2

LEMMA BodyMaxSame ==
    ASSUME SizesFit, NEW types, WellFormed(types), NEW m \in Modes, NEW call \in SizeCalls(types), NEW g, NEW h,
           \A name \in DOMAIN types : call[1] \notin call[2] =>
              g[<<name, Inside(call)>>] = h[<<name, Inside(call)>>]
    PROVE  BodyMax(types, m, g, call) = BodyMax(types, m, h, call)
<1>1. CASE call[1] \in call[2]
  BY <1>1 DEF BodyMax
<1>2. CASE call[1] \notin call[2]
  <2>1. PICK fields, path : fields = types[call[1]].fields /\ path = Inside(call)
    OBVIOUS
  <2>2. fields \in Seq(SizedFields(types))
    BY <2>1, CallIs DEF WellFormed
  <2>3. ASSUME NEW i \in DOMAIN fields PROVE FieldMax(g, fields[i], path, m) = FieldMax(h, fields[i], path, m)
    <3>1. fields[i] \in SizedFields(types)
      BY <2>2, ElementOfSeq, LenProperties
    <3>2. fields[i].type.leaf.kind = "ref" =>
             g[<<fields[i].type.leaf.to, path>>] = h[<<fields[i].type.leaf.to, path>>]
      BY <1>2, <2>1, <3>1, FieldParts
    <3> QED
      BY <3>2, FieldMaxSame
  <2>4. Costs(g, fields, path, m) = Costs(h, fields, path, m)
    BY <2>3 DEF Costs
  <2> QED
    BY <1>2, <2>1, <2>4, Zenon DEF BodyMax
<1> QED
  BY <1>1, <1>2

LEMMA StructWireMaxIs ==
    ASSUME SizesFit, NEW types, WellFormed(types), NEW m \in Modes
    PROVE  /\ StructWireMax(types, m) \in [SizeCalls(types) -> Amounts]
           /\ \A call \in SizeCalls(types) : StructWireMax(types, m)[call] = BodyMax(types, m, StructWireMax(types, m), call)
<1> DEFINE X == SizeCalls(types)
           R == Deeper(types)
           B == [a \in X \X [X -> Amounts] |-> BodyMax(types, m, a[2], a[1])]
           Is(f) == f = [call \in X |-> BodyMax(types, m, f, call)]
<1>0. Ends(X, R) /\ \A call \in X : R[call] \subseteq X
  BY CallsEnd DEF WellFormed
<1>a. ASSUME NEW x \in X, x[1] \notin x[2], NEW name \in DOMAIN types
      PROVE  <<name, Inside(x)>> \in R[x] /\ <<name, Inside(x)>> \in X
  BY <1>a, CallIs DEF Deeper
<1>1. ASSUME NEW x \in X, NEW g \in [X -> Amounts] PROVE B[<<x, g>>] = BodyMax(types, m, g, x) /\ B[<<x, g>>] \in Amounts
  <2>1. \A name \in DOMAIN types : x[1] \notin x[2] => g[<<name, Inside(x)>>] \in Amounts
    BY <1>a
  <2> QED
    BY <2>1, BodyMaxIs
<1>2. Local(X, Amounts, R, B)
  <2> SUFFICES ASSUME NEW x \in X, NEW g \in [X -> Amounts], NEW h \in [X -> Amounts], \A y \in R[x] : g[y] = h[y]
               PROVE  B[<<x, g>>] = B[<<x, h>>]
    BY DEF Local
  <2>1. \A name \in DOMAIN types : x[1] \notin x[2] => g[<<name, Inside(x)>>] = h[<<name, Inside(x)>>]
    BY <1>a
  <2>2. BodyMax(types, m, g, x) = BodyMax(types, m, h, x)
    BY <2>1, BodyMaxSame
  <2> QED
    BY <1>1, <2>2
<1>3. 0 \in Amounts
  BY DEF Amounts
<1> HIDE DEF B, R
<1>4. PICK f \in [X -> Amounts] : \A x \in X : f[x] = B[<<x, f>>]
  BY <1>0, <1>1, <1>2, <1>3, RecursionHasSolution
<1>5. Is(f)
  BY <1>1, <1>4
<1>6. PICK c : c = (CHOOSE g : Is(g)) /\ Is(c)
  BY <1>5
<1>7. StructWireMax(types, m) = c
  BY <1>6, Zenon DEF StructWireMax, BodyMax, Inside
<1>8. \A call \in X : c[call] \in Amounts
  <2> DEFINE T == {call \in X : c[call] \notin Amounts}
  <2> SUFFICES ASSUME T # {} PROVE FALSE
    OBVIOUS
  <2>1. PICK call \in T : R[call] \cap T = {}
    BY <1>0 DEF Ends
  <2>2. \A name \in DOMAIN types : call[1] \notin call[2] => c[<<name, Inside(call)>>] \in Amounts
    <3> SUFFICES ASSUME NEW name \in DOMAIN types, call[1] \notin call[2] PROVE c[<<name, Inside(call)>>] \in Amounts
      OBVIOUS
    <3>1. <<name, Inside(call)>> \in R[call] /\ <<name, Inside(call)>> \in X
      BY <1>a
    <3> QED
      BY <2>1, <3>1
  <2>3. BodyMax(types, m, c, call) \in Amounts
    BY <2>2, BodyMaxIs
  <2> QED
    BY <1>6, <2>1, <2>3
<1>9. c \in [X -> Amounts]
  BY <1>6, <1>8
<1> QED
  BY <1>6, <1>7, <1>9

-----------------------------------------------------------------------------
(* What is written, and what a peer sends.                                 *)

LEMMA LongestIs ==
    ASSUME NEW sizes \in Seq(Nat)
    PROVE  /\ Max({0} \cup Range(sizes)) \in Nat
           /\ \A i \in 1 .. Len(sizes) : sizes[i] <= Max({0} \cup Range(sizes))
           /\ Max({0} \cup Range(sizes)) = 0 \/ \E i \in 1 .. Len(sizes) : Max({0} \cup Range(sizes)) = sizes[i]
<1> DEFINE S == {0} \cup Range(sizes)
           Above == {b \in Nat : \A x \in S : x <= b}
<1>1. S = {0} \cup {sizes[i] : i \in 1 .. Len(sizes)}
  BY LenProperties DEF Range
<1>2. S \subseteq Nat /\ 0 \in S
  BY <1>1, ElementOfSeq
<1>3. Above # {}
  <2>0. PICK n \in Nat : n = Len(sizes)
    BY LenProperties
  <2>1. CASE n = 0
    <3>1. \A x \in S : x = 0
      BY <1>1, <2>0, <2>1
    <3> HIDE DEF S
    <3>2. 0 \in Above
      BY <1>2, <3>1
    <3> QED
      BY <3>2
  <2>2. CASE n # 0
    <3>1. PICK sum : sum = Tally(sizes, FALSE)
      OBVIOUS
    <3>2. \A i \in 1 .. n : sizes[i] <= sum /\ sum \in Nat
      BY <2>0, <3>1, SumHolds
    <3>3. 1 \in 1 .. n
      BY <2>2
    <3>4. sum \in Nat /\ \A x \in S : x <= sum
      BY <1>1, <2>0, <3>2, <3>3
    <3> HIDE DEF S
    <3>5. sum \in Above
      BY <3>4
    <3> QED
      BY <3>5
  <2> QED
    BY <2>1, <2>2
<1>4. PICK b \in Above : \A c \in Above : b <= c
  <2>1. Above \subseteq Nat
    OBVIOUS
  <2> HIDE DEF Above
  <2> QED
    BY <1>3, <2>1, HasLowest
<1>5. b \in S
  <2> SUFFICES ASSUME b \notin S PROVE FALSE
    OBVIOUS
  <2>1. b - 1 \in Above
    BY <1>2, <1>4
  <2> QED
    BY <1>4, <2>1
<1> HIDE DEF S
<1>6. b \in Nat /\ \A x \in S : b >= x
  BY <1>2, <1>4
<1>7. Max(S) = b
  <2>1. Max(S) = CHOOSE x \in S : \A y \in S : x >= y
    BY Zenon DEF Max
  <2>2. \A x \in S : (\A y \in S : x >= y) => x = b
    BY <1>2, <1>5, <1>6
  <2> QED
    BY <1>5, <1>6, <2>1, <2>2
<1> QED
  BY <1>1, <1>5, <1>6, <1>7 DEF S

LEMMA FullLeafIs ==
    ASSUME SizesFit, NEW types, NEW f \in SizedFields(types), NEW caps \in AllCaps, NEW pad, NEW full, NEW path,
           f.type.leaf.kind = "ref" => full[<<f.type.leaf.to, path>>] \in Nat
    PROVE  FullLeaf(full, f.type.leaf, path, pad, caps) \in Nat
<1>1. CASE f.type.leaf.kind = "varint"
  BY <1>1, FieldParts DEF FullLeaf, Padded
<1>2. CASE f.type.leaf.kind = "fixed"
  BY <1>2, FieldParts DEF FullLeaf, Lead
<1>3. CASE f.type.leaf.kind \in {"string", "blob"}
  <2>1. PICK n : n = Filled(f.type.leaf.max, caps[f.type.leaf.kind])
    OBVIOUS
  <2>2. n \in Nat
    BY <1>3, <2>1, FieldParts DEF Filled, Bound, AllCaps
  <2>3. Lead(FixlenWord(n), pad) \in Nat
    BY <2>2, VarintLenIs DEF Lead, FixlenWord
  <2>4. FullLeaf(full, f.type.leaf, path, pad, caps) = Lead(FixlenWord(n), pad) + n
    BY <1>3, <2>1 DEF FullLeaf
  <2> QED
    BY <2>2, <2>3, <2>4
<1>4. CASE f.type.leaf.kind = "ref"
  BY <1>4 DEF FullLeaf
<1> QED
  BY <1>1, <1>2, <1>3, <1>4, FieldParts

LEMMA FullMemberIs ==
    ASSUME SizesFit, NEW types, NEW f \in SizedFields(types), NEW caps \in AllCaps, NEW pad, pad # "all", NEW full, NEW path,
           f.type.leaf.kind = "ref" => full[<<f.type.leaf.to, path>>] \in Nat
    PROVE  FullMember(full, f, path, pad, caps) \in Nat
<1>1. PICK leaf \in Nat : leaf = FullLeaf(full, f.type.leaf, path, pad, caps)
  BY FullLeafIs
<1>2. PICK n \in Nat : n = Len(f.type.counts)
  BY FieldParts, LenProperties
<1>3. PICK c : Filling(f, pad, caps, leaf, Len(f.type.counts), c)
  BY FullTypeIs
<1>4. FullType(f.type, pad, caps, leaf) \in Nat
  BY <1>2, <1>3 DEF Filling
<1>5. Lead(Header(f.id), pad) \in Nat
  BY FieldParts, HeaderGrows DEF Lead
<1> QED
  BY <1>1, <1>4, <1>5 DEF FullMember

LEMMA FullMemberSame ==
    ASSUME NEW f, NEW caps, NEW pad, NEW g, NEW h, NEW path,
           f.type.leaf.kind = "ref" => g[<<f.type.leaf.to, path>>] = h[<<f.type.leaf.to, path>>]
    PROVE  FullMember(g, f, path, pad, caps) = FullMember(h, f, path, pad, caps)
<1>1. FullLeaf(g, f.type.leaf, path, pad, caps) = FullLeaf(h, f.type.leaf, path, pad, caps)
  BY DEF FullLeaf
<1> QED
  BY <1>1, Zenon DEF FullMember

LEMMA FullFieldsAre ==
    ASSUME SizesFit, NEW types, NEW fields \in Seq(SizedFields(types)), NEW caps \in AllCaps, NEW pad, pad # "all",
           NEW full, NEW path, \A name \in DOMAIN types : full[<<name, path>>] \in Nat
    PROVE  /\ FullFields(full, fields, path, pad, caps) \in Seq(Nat)
           /\ Len(FullFields(full, fields, path, pad, caps)) = Len(fields)
           /\ \A i \in 1 .. Len(fields) :
                 FullFields(full, fields, path, pad, caps)[i] = FullMember(full, fields[i], path, pad, caps)
<1>1. ASSUME NEW i \in 1 .. Len(fields) PROVE FullMember(full, fields[i], path, pad, caps) \in Nat
  <2>1. fields[i] \in SizedFields(types)
    BY ElementOfSeq
  <2>2. fields[i].type.leaf.kind = "ref" => full[<<fields[i].type.leaf.to, path>>] \in Nat
    BY <2>1, FieldParts
  <2> QED
    BY <2>1, <2>2, FullMemberIs
<1>3. PICK n \in Nat : n = Len(fields) /\ DOMAIN fields = 1 .. n
  BY LenProperties
<1>4. PICK members : members = FullFields(full, fields, path, pad, caps)
  OBVIOUS
<1>5. members = [i \in 1 .. n |-> FullMember(full, fields[i], path, pad, caps)]
  BY <1>3, <1>4, Zenon DEF FullFields
<1>6. members \in [1 .. n -> Nat] /\ \A i \in 1 .. n : members[i] = FullMember(full, fields[i], path, pad, caps)
  BY <1>1, <1>3, <1>5
<1>7. members \in Seq(Nat) /\ Len(members) = n
  BY <1>6
<1> QED
  BY <1>3, <1>4, <1>6, <1>7

FullBody(types, pad, caps, full, call) ==
    LET type == types[call[1]]
        members == FullFields(full, type.fields, Inside(call), pad, caps)
    IN  CASE call[1] \in call[2] -> 0
          [] call[1] \notin call[2] /\ type.cat = "union" /\ pad = "none" -> Max({0} \cup Range(members))
          [] OTHER -> Tally(members, FALSE)

LEMMA FullBodyIs ==
    ASSUME SizesFit, NEW types, WellFormed(types), NEW caps \in AllCaps, NEW pad, pad # "all",
           NEW call \in SizeCalls(types), NEW full,
           \A name \in DOMAIN types : call[1] \notin call[2] => full[<<name, Inside(call)>>] \in Nat
    PROVE  FullBody(types, pad, caps, full, call) \in Nat
<1>1. CASE call[1] \in call[2]
  BY <1>1 DEF FullBody
<1>2. CASE call[1] \notin call[2]
  <2>1. PICK members : members = FullFields(full, types[call[1]].fields, Inside(call), pad, caps)
    OBVIOUS
  <2>2. types[call[1]].fields \in Seq(SizedFields(types))
    BY CallIs DEF WellFormed
  <2>3. members \in Seq(Nat)
    BY <1>2, <2>1, <2>2, FullFieldsAre
  <2>4. Max({0} \cup Range(members)) \in Nat
    BY <2>3, LongestIs
  <2>5. Tally(members, FALSE) \in Nat
    <3>1. Len(members) = Len(members) /\ \A i \in 1 .. Len(members) : members[i] <= members[i]
      BY <2>3, ElementOfSeq
    <3> QED
      BY <2>3, <3>1, SumsCompare
  <2>6. FullBody(types, pad, caps, full, call) \in {Max({0} \cup Range(members)), Tally(members, FALSE)}
    BY <1>2, <2>1 DEF FullBody
  <2> QED
    BY <2>4, <2>5, <2>6
<1> QED
  BY <1>1, <1>2

LEMMA FullBodySame ==
    ASSUME NEW types, WellFormed(types), NEW caps, NEW pad, NEW call \in SizeCalls(types), NEW g, NEW h,
           \A name \in DOMAIN types : call[1] \notin call[2] =>
              g[<<name, Inside(call)>>] = h[<<name, Inside(call)>>]
    PROVE  FullBody(types, pad, caps, g, call) = FullBody(types, pad, caps, h, call)
<1>1. CASE call[1] \in call[2]
  BY <1>1 DEF FullBody
<1>2. CASE call[1] \notin call[2]
  <2>1. PICK fields, path : fields = types[call[1]].fields /\ path = Inside(call)
    OBVIOUS
  <2>2. fields \in Seq(SizedFields(types))
    BY <2>1, CallIs DEF WellFormed
  <2>3. ASSUME NEW i \in DOMAIN fields
        PROVE  FullMember(g, fields[i], path, pad, caps) = FullMember(h, fields[i], path, pad, caps)
    <3>1. fields[i] \in SizedFields(types)
      BY <2>2, ElementOfSeq, LenProperties
    <3>2. fields[i].type.leaf.kind = "ref" =>
             g[<<fields[i].type.leaf.to, path>>] = h[<<fields[i].type.leaf.to, path>>]
      BY <1>2, <2>1, <3>1, FieldParts
    <3> QED
      BY <3>2, FullMemberSame
  <2>4. FullFields(g, fields, path, pad, caps) = FullFields(h, fields, path, pad, caps)
    BY <2>3 DEF FullFields
  <2> QED
    BY <1>2, <2>1, <2>4, Zenon DEF FullBody
<1> QED
  BY <1>1, <1>2

LEMMA FullIs ==
    ASSUME SizesFit, NEW types, WellFormed(types), NEW caps \in AllCaps, NEW pad, pad # "all"
    PROVE  /\ Full(types, pad, caps) \in [SizeCalls(types) -> Nat]
           /\ \A call \in SizeCalls(types) : Full(types, pad, caps)[call] = FullBody(types, pad, caps, Full(types, pad, caps), call)
<1> DEFINE X == SizeCalls(types)
           V == Nat
           R == Deeper(types)
           B == [a \in X \X [X -> V] |-> FullBody(types, pad, caps, a[2], a[1])]
           Is(f) == f = [call \in X |-> FullBody(types, pad, caps, f, call)]
<1>0. Ends(X, R) /\ \A call \in X : R[call] \subseteq X
  BY CallsEnd DEF WellFormed
<1>a. ASSUME NEW x \in X, x[1] \notin x[2], NEW name \in DOMAIN types
      PROVE  <<name, Inside(x)>> \in R[x] /\ <<name, Inside(x)>> \in X
  BY <1>a, CallIs DEF Deeper
<1>1. ASSUME NEW x \in X, NEW g \in [X -> V] PROVE B[<<x, g>>] = FullBody(types, pad, caps, g, x) /\ B[<<x, g>>] \in V
  <2>1. \A name \in DOMAIN types : x[1] \notin x[2] => g[<<name, Inside(x)>>] \in Nat
    BY <1>a
  <2> QED
    BY <2>1, FullBodyIs
<1> HIDE DEF V
<1>2. Local(X, V, R, B)
  <2> SUFFICES ASSUME NEW x \in X, NEW g \in [X -> V], NEW h \in [X -> V], \A y \in R[x] : g[y] = h[y]
               PROVE  B[<<x, g>>] = B[<<x, h>>]
    BY DEF Local
  <2>1. \A name \in DOMAIN types : x[1] \notin x[2] => g[<<name, Inside(x)>>] = h[<<name, Inside(x)>>]
    BY <1>a
  <2>2. FullBody(types, pad, caps, g, x) = FullBody(types, pad, caps, h, x)
    BY <2>1, FullBodySame
  <2> QED
    BY <1>1, <2>2
<1>3. 0 \in V
  BY DEF V
<1> HIDE DEF B, R
<1>4. PICK f \in [X -> V] : \A x \in X : f[x] = B[<<x, f>>]
  BY <1>0, <1>1, <1>2, <1>3, RecursionHasSolution
<1>5. Is(f)
  BY <1>1, <1>4
<1>6. PICK c : c = (CHOOSE g : Is(g)) /\ Is(c)
  BY <1>5
<1>7. Full(types, pad, caps) = c
  BY <1>6, Zenon DEF Full, FullBody, Inside
<1>8. \A call \in X : c[call] \in Nat
  <2> DEFINE T == {call \in X : c[call] \notin Nat}
  <2> SUFFICES ASSUME T # {} PROVE FALSE
    OBVIOUS
  <2>1. PICK call \in T : R[call] \cap T = {}
    BY <1>0 DEF Ends
  <2>2. \A name \in DOMAIN types : call[1] \notin call[2] => c[<<name, Inside(call)>>] \in Nat
    <3> SUFFICES ASSUME NEW name \in DOMAIN types, call[1] \notin call[2] PROVE c[<<name, Inside(call)>>] \in Nat
      OBVIOUS
    <3>1. <<name, Inside(call)>> \in R[call] /\ <<name, Inside(call)>> \in X
      BY <1>a
    <3> QED
      BY <2>1, <3>1
  <2>3. FullBody(types, pad, caps, c, call) \in Nat
    BY <2>2, FullBodyIs
  <2> QED
    BY <1>6, <2>1, <2>3
<1>9. c \in [X -> Nat]
  BY <1>6, <1>8
<1> QED
  BY <1>6, <1>7, <1>9

-----------------------------------------------------------------------------
(* A message has no more bytes than it is charged.                         *)

\* What is charged for a reference covers what is written, or is exactly it.
Covers(inner, full, leaf, path) ==
    leaf.kind = "ref" =>
        /\ inner[<<leaf.to, path>>] \in Amounts /\ full[<<leaf.to, path>>] \in Nat
        /\ inner[<<leaf.to, path>>] # Unbounded => full[<<leaf.to, path>>] <= inner[<<leaf.to, path>>]

Matches(inner, full, leaf, path) ==
    leaf.kind = "ref" /\ inner[<<leaf.to, path>>] # Unbounded => full[<<leaf.to, path>>] = inner[<<leaf.to, path>>]

LEMMA LeafBound ==
    ASSUME SizesFit, NEW types, NEW f \in SizedFields(types), NEW m \in Modes, NEW inner, NEW full, NEW path,
           Covers(inner, full, f.type.leaf, path), LeafMax(inner, f.type.leaf, path, m) # Unbounded
    PROVE  /\ LeafMax(inner, f.type.leaf, path, m) \in Nat
           /\ FullLeaf(full, f.type.leaf, path, PadFor(m), m.caps) \in Nat
           /\ FullLeaf(full, f.type.leaf, path, PadFor(m), m.caps) <= LeafMax(inner, f.type.leaf, path, m)
           /\ Matches(inner, full, f.type.leaf, path) =>
                 FullLeaf(full, f.type.leaf, path, PadFor(m), m.caps) = LeafMax(inner, f.type.leaf, path, m)
<1>0. PICK leaf : leaf = f.type.leaf
  OBVIOUS
<1>1. PICK x : x = LeafMax(inner, leaf, path, m)
  OBVIOUS
<1>2. PICK y : y = FullLeaf(full, leaf, path, PadFor(m), m.caps)
  OBVIOUS
<1>3. x \in Nat
  <2>1. f.type.leaf.kind = "ref" => inner[<<f.type.leaf.to, path>>] \in Amounts
    BY DEF Covers
  <2>2. LeafMax(inner, f.type.leaf, path, m) \in Amounts
    BY <2>1, LeafMaxIs
  <2> QED
    BY <1>0, <1>1, <2>2 DEF Amounts
<1>4. CASE leaf.kind = "varint"
  <2>1. x = Varint(leaf, m) /\ y = Padded(leaf, PadFor(m))
    BY <1>1, <1>2, <1>4 DEF LeafMax, FullLeaf
  <2>2. x = y
    BY <2>1 DEF Varint, Padded, PadFor
  <2> QED
    BY <1>0, <1>1, <1>2, <1>3, <2>2
<1>5. CASE leaf.kind = "fixed"
  <2>1. x = 1 + leaf.width /\ y = Lead(1, PadFor(m)) + leaf.width
    BY <1>1, <1>2, <1>5 DEF LeafMax, FullLeaf
  <2>2. x = y
    BY <2>1, PadIs DEF Lead
  <2> QED
    BY <1>0, <1>1, <1>2, <1>3, <2>2
<1>6. CASE leaf.kind \in {"string", "blob"}
  <2>1. x = Payload(leaf, m)
    BY <1>1, <1>6 DEF LeafMax
  <2>2. PICK n : n = Bound(leaf.max, m.caps[leaf.kind])
    OBVIOUS
  <2>3. n # None /\ x = FixlenWord(n) + n
    BY <1>0, <1>1, <2>1, <2>2 DEF Payload
  <2>4. Filled(leaf.max, m.caps[leaf.kind]) = n
    BY <2>2, <2>3 DEF Filled
  <2>5. y = Lead(FixlenWord(n), PadFor(m)) + n
    BY <1>2, <1>6, <2>4 DEF FullLeaf
  <2>6. x = y
    BY <2>3, <2>5, PadIs DEF Lead
  <2> QED
    BY <1>0, <1>1, <1>2, <1>3, <2>6
<1>7. CASE leaf.kind = "ref"
  <2>1. PICK a, b : a = inner[<<leaf.to, path>>] /\ b = full[<<leaf.to, path>>]
    OBVIOUS
  <2>2. x = Plus(a, 1) /\ y = b + 1
    BY <1>1, <1>2, <1>7, <2>1 DEF LeafMax, FullLeaf
  <2>3. a # Unbounded /\ x = a + 1
    BY <1>0, <1>1, <2>2 DEF Plus
  <2>4. a \in Nat /\ b \in Nat /\ b <= a
    BY <1>0, <1>7, <2>1, <2>3 DEF Covers, Amounts
  <2>5. y \in Nat /\ y <= x
    BY <2>2, <2>3, <2>4
  <2>6. Matches(inner, full, leaf, path) => y = x
    BY <1>7, <2>1, <2>2, <2>3 DEF Matches
  <2> QED
    BY <1>0, <1>1, <1>2, <1>3, <2>5, <2>6
<1> QED
  BY <1>0, <1>4, <1>5, <1>6, <1>7, FieldParts

LEMMA MemberBound ==
    ASSUME SizesFit, NEW types, NEW f \in SizedFields(types), NEW m \in Modes, NEW inner, NEW full, NEW path,
           Covers(inner, full, f.type.leaf, path), FieldMax(inner, f, path, m) # Unbounded
    PROVE  /\ FieldMax(inner, f, path, m) \in Nat
           /\ FullMember(full, f, path, PadFor(m), m.caps) \in Nat
           /\ FullMember(full, f, path, PadFor(m), m.caps) <= FieldMax(inner, f, path, m)
           /\ Short(f.type) /\ Matches(inner, full, f.type.leaf, path) =>
                 FullMember(full, f, path, PadFor(m), m.caps) = FieldMax(inner, f, path, m)
<1>0. m.caps \in AllCaps /\ PadFor(m) # "all"
  BY PadIs DEF Modes
<1>1. /\ f.type.leaf.kind = "ref" => inner[<<f.type.leaf.to, path>>] \in Amounts
      /\ f.type.leaf.kind = "ref" => full[<<f.type.leaf.to, path>>] \in Nat
  BY DEF Covers
<1>2. PICK x \in Amounts : x = LeafMax(inner, f.type.leaf, path, m)
  BY <1>1, LeafMaxIs
<1>3. PICK y \in Nat : y = FullLeaf(full, f.type.leaf, path, PadFor(m), m.caps)
  BY <1>0, <1>1, FullLeafIs
<1>4. /\ x # Unbounded => y <= x
      /\ x # Unbounded /\ Matches(inner, full, f.type.leaf, path) => y = x
  BY <1>2, <1>3, LeafBound
<1>5. Native(f.type.leaf) => x # Unbounded
  BY <1>1, <1>2, LeafMaxIs
<1>6. /\ TypeMax(f.type, m, x) # Unbounded
      /\ FieldMax(inner, f, path, m) = Header(f.id) + TypeMax(f.type, m, x)
  BY <1>1, <1>2, FieldMaxIs, Constants
<1>7. /\ x # Unbounded
      /\ TypeMax(f.type, m, x) \in Nat
      /\ FullType(f.type, PadFor(m), m.caps, y) \in Nat
      /\ FullType(f.type, PadFor(m), m.caps, y) <= TypeMax(f.type, m, x)
      /\ Short(f.type) /\ y = x => FullType(f.type, PadFor(m), m.caps, y) = TypeMax(f.type, m, x)
  BY <1>4, <1>5, <1>6, TypeBound
<1>8. PICK h \in Nat : h = Header(f.id)
  BY FieldParts, HeaderGrows
<1>9. FullMember(full, f, path, PadFor(m), m.caps) = h + FullType(f.type, PadFor(m), m.caps, y)
  BY <1>0, <1>3, <1>8 DEF FullMember, Lead
<1> QED
  BY <1>4, <1>6, <1>7, <1>8, <1>9

Held(costs, members, inner, full, fields, path) ==
    /\ costs \in Seq(Nat) /\ members \in Seq(Nat) /\ Len(costs) = Len(fields) /\ Len(members) = Len(fields)
    /\ \A i \in 1 .. Len(fields) : members[i] \in Nat /\ costs[i] \in Nat /\ members[i] <= costs[i]
    /\ (\A i \in 1 .. Len(fields) : Short(fields[i].type) /\ Matches(inner, full, fields[i].type.leaf, path)) =>
          \A i \in 1 .. Len(fields) : members[i] = costs[i]

LEMMA FieldsBound ==
    ASSUME SizesFit, NEW types, NEW fields \in Seq(SizedFields(types)), NEW m \in Modes, NEW inner, NEW full, NEW path,
           \A name \in DOMAIN types : inner[<<name, path>>] \in Amounts /\ full[<<name, path>>] \in Nat,
           \A i \in 1 .. Len(fields) : Covers(inner, full, fields[i].type.leaf, path),
           \A i \in 1 .. Len(fields) : Costs(inner, fields, path, m)[i] # Unbounded
    PROVE  Held(Costs(inner, fields, path, m), FullFields(full, fields, path, PadFor(m), m.caps), inner, full, fields, path)
<1>a. PICK costs, members :
        costs = Costs(inner, fields, path, m) /\ members = FullFields(full, fields, path, PadFor(m), m.caps)
  OBVIOUS
<1>0. m.caps \in AllCaps /\ PadFor(m) # "all"
  BY PadIs DEF Modes
<1>1. /\ costs \in Seq(Amounts) /\ Len(costs) = Len(fields)
      /\ \A i \in 1 .. Len(fields) : fields[i] \in SizedFields(types) /\ costs[i] = FieldMax(inner, fields[i], path, m)
  BY <1>a, CostsAre
<1>2. /\ members \in Seq(Nat) /\ Len(members) = Len(fields)
      /\ \A i \in 1 .. Len(fields) : members[i] = FullMember(full, fields[i], path, PadFor(m), m.caps)
  BY <1>0, <1>a, FullFieldsAre
<1>3. ASSUME NEW i \in 1 .. Len(fields)
      PROVE  /\ members[i] \in Nat /\ costs[i] \in Nat /\ members[i] <= costs[i]
             /\ Short(fields[i].type) /\ Matches(inner, full, fields[i].type.leaf, path) => members[i] = costs[i]
  <2>1. PICK f \in SizedFields(types) : f = fields[i]
    BY <1>1
  <2>2. Covers(inner, full, f.type.leaf, path) /\ FieldMax(inner, f, path, m) # Unbounded
    BY <1>1, <1>a, <2>1
  <2>3. costs[i] = FieldMax(inner, f, path, m) /\ members[i] = FullMember(full, f, path, PadFor(m), m.caps)
    BY <1>1, <1>2, <2>1
  <2>4. /\ FieldMax(inner, f, path, m) \in Nat
        /\ FullMember(full, f, path, PadFor(m), m.caps) \in Nat
        /\ FullMember(full, f, path, PadFor(m), m.caps) <= FieldMax(inner, f, path, m)
        /\ Short(f.type) /\ Matches(inner, full, f.type.leaf, path) =>
              FullMember(full, f, path, PadFor(m), m.caps) = FieldMax(inner, f, path, m)
    BY <2>2, MemberBound
  <2> QED
    BY <2>1, <2>3, <2>4
<1>4. costs \in Seq(Nat)
  BY <1>1, <1>3
<1> QED
  BY <1>1, <1>2, <1>3, <1>4, <1>a DEF Held

\* Sums and the longest, of equal numbers.
LEMMA SumsEqual ==
    ASSUME NEW costs \in Seq(Nat), NEW other \in Seq(Nat), Len(costs) = Len(other),
           \A i \in 1 .. Len(costs) : other[i] = costs[i]
    PROVE  Tally(other, FALSE) = Tally(costs, FALSE)
<1>1. \A i \in 1 .. Len(costs) : costs[i] \in Nat /\ other[i] \in Nat
  BY ElementOfSeq
<1>2. \A i \in 1 .. Len(costs) : other[i] <= costs[i] /\ costs[i] <= other[i]
  BY <1>1
<1>3. PICK a, b : a = Tally(costs, FALSE) /\ b = Tally(other, FALSE)
  OBVIOUS
<1>4. a \in Nat /\ b \in Nat /\ b <= a
  BY <1>2, <1>3, SumsCompare
<1>5. a <= b
  BY <1>2, <1>3, SumsCompare
<1>6. a = b
  BY <1>4, <1>5
<1> QED
  BY <1>3, <1>6

LEMMA HighestsCompare ==
    ASSUME SizesFit, NEW costs \in Seq(Nat), NEW other \in Seq(Nat), Len(costs) = Len(other),
           \A i \in 1 .. Len(costs) : costs[i] < Half /\ other[i] <= costs[i]
    PROVE  /\ Max({0} \cup Range(other)) <= Tally(costs, TRUE)
           /\ (\A i \in 1 .. Len(costs) : other[i] = costs[i]) => Max({0} \cup Range(other)) = Tally(costs, TRUE)
<1>0. PICK n \in Nat : n = Len(costs) /\ n = Len(other)
  BY LenProperties
<1>1. PICK highest : highest = Tally(costs, TRUE)
  OBVIOUS
<1>2. PICK longest : longest = Max({0} \cup Range(other))
  OBVIOUS
<1>3. /\ highest \in Nat
      /\ \A i \in 1 .. n : costs[i] <= highest
      /\ highest = 0 \/ \E i \in 1 .. n : highest = costs[i]
  BY <1>0, <1>1, HighestIs
<1>4. /\ longest \in Nat
      /\ \A i \in 1 .. n : other[i] <= longest
      /\ longest = 0 \/ \E i \in 1 .. n : longest = other[i]
  BY <1>0, <1>2, LongestIs
<1>5. \A i \in 1 .. n : costs[i] \in Nat /\ other[i] \in Nat /\ other[i] <= costs[i]
  BY <1>0, ElementOfSeq
<1>6. longest <= highest
  <2>1. CASE longest = 0
    BY <1>3, <2>1
  <2>2. ASSUME NEW i \in 1 .. n, longest = other[i] PROVE longest <= highest
    <3>1. other[i] \in Nat /\ costs[i] \in Nat /\ other[i] <= costs[i] /\ costs[i] <= highest
      BY <1>3, <1>5, Zenon
    <3> QED
      BY <1>3, <2>2, <3>1
  <2> QED
    BY <1>4, <2>1, <2>2, Zenon
<1>7. ASSUME \A i \in 1 .. n : other[i] = costs[i] PROVE longest = highest
  <2>1. highest <= longest
    BY <1>3, <1>4, <1>5, <1>7
  <2> QED
    BY <1>3, <1>4, <1>6, <2>1
<1> QED
  BY <1>0, <1>1, <1>2, <1>6, <1>7

\* The names of S lead to no others.
Closed(types, S) == S \in SUBSET DOMAIN types /\ \A name \in S : Targets(types[name].fields) \subseteq S

\* What an int64 holds, where sizes are compared: the options of a union.
Below(types, m, S) ==
    \A name \in S, path \in SUBSET DOMAIN types : \A f \in Range(types[name].fields) :
        ~ m.decode /\ FieldMax(StructWireMax(types, m), f, path, m) # Unbounded =>
            FieldMax(StructWireMax(types, m), f, path, m) < Half

ShortOnes(types, S) == \A name \in S : \A f \in Range(types[name].fields) : Short(f.type)

LEMMA TargetOf ==
    ASSUME NEW types, NEW fields \in Seq(SizedFields(types)), NEW i \in 1 .. Len(fields), fields[i].type.leaf.kind = "ref"
    PROVE  fields[i].type.leaf.to \in Targets(fields) /\ fields[i].type.leaf.to \in DOMAIN types
<1>1. fields[i] \in SizedFields(types)
  BY ElementOfSeq
<1>2. i \in DOMAIN fields
  BY LenProperties
<1> QED
  BY <1>1, <1>2, FieldParts DEF Targets

\* What a call charges covers what is written of its type.
Charged(types, m, S, call) ==
    LET cost == StructWireMax(types, m)[call]
        size == Full(types, PadFor(m), m.caps)[call]
    IN  cost # Unbounded => size <= cost /\ (ShortOnes(types, S) => size = cost)

LEMMA CallStep ==
    ASSUME SizesFit, NEW types, WellFormed(types), NEW m \in Modes, NEW S, Closed(types, S), Below(types, m, S),
           NEW call \in SizeCalls(types), call[1] \in S,
           \A name \in S : call[1] \notin call[2] => Charged(types, m, S, <<name, Inside(call)>>)
    PROVE  Charged(types, m, S, call)
<1>1. PICK inner : inner = StructWireMax(types, m)
  OBVIOUS
<1>2. PICK full : full = Full(types, PadFor(m), m.caps)
  OBVIOUS
<1>3. /\ inner \in [SizeCalls(types) -> Amounts]
      /\ inner[call] = BodyMax(types, m, inner, call)
  BY <1>1, StructWireMaxIs
<1>4. /\ full \in [SizeCalls(types) -> Nat]
      /\ full[call] = FullBody(types, PadFor(m), m.caps, full, call)
  <2>1. m.caps \in AllCaps /\ PadFor(m) # "all"
    BY PadIs DEF Modes
  <2> QED
    BY <1>2, <2>1, FullIs
<1> SUFFICES ASSUME inner[call] # Unbounded
             PROVE  full[call] <= inner[call] /\ (ShortOnes(types, S) => full[call] = inner[call])
  BY <1>1, <1>2 DEF Charged
<1>5. PICK fields, path : fields = types[call[1]].fields /\ path = Inside(call)
  OBVIOUS
<1>6. call[1] \notin call[2] /\ path \in SUBSET DOMAIN types /\ fields \in Seq(SizedFields(types))
  BY <1>3, <1>5, CallIs DEF BodyMax, WellFormed
<1>7. PICK costs, members :
        /\ costs = Costs(inner, fields, path, m)
        /\ members = FullFields(full, fields, path, PadFor(m), m.caps)
  OBVIOUS
<1>a. PICK largest : largest = (types[call[1]].cat = "union" /\ ~ m.decode)
  OBVIOUS
<1>8. largest \in BOOLEAN /\ largest = (types[call[1]].cat = "union" /\ ~ m.decode)
  BY <1>a, Zenon
<1>9. inner[call] = Join(costs, largest)
  BY <1>3, <1>5, <1>6, <1>7, <1>8, Zenon DEF BodyMax
<1>10. \A name \in DOMAIN types : inner[<<name, path>>] \in Amounts /\ full[<<name, path>>] \in Nat
  BY <1>3, <1>4, <1>5, CallIs
<1>11. costs \in Seq(Amounts) /\ Len(costs) = Len(fields)
  BY <1>6, <1>7, <1>10, CostsAre
<1>12. /\ \A i \in 1 .. Len(fields) : costs[i] # Unbounded
       /\ costs \in Seq(Nat) /\ inner[call] = Tally(costs, largest)
  BY <1>8, <1>9, <1>11, JoinIs
<1>13. ASSUME NEW i \in 1 .. Len(fields)
       PROVE  /\ Covers(inner, full, fields[i].type.leaf, path)
              /\ ShortOnes(types, S) => Short(fields[i].type) /\ Matches(inner, full, fields[i].type.leaf, path)
  <2>1. PICK leaf : leaf = fields[i].type.leaf
    OBVIOUS
  <2>2. ASSUME leaf.kind = "ref"
        PROVE  /\ leaf.to \in DOMAIN types
               /\ inner[<<leaf.to, path>>] # Unbounded =>
                     /\ full[<<leaf.to, path>>] <= inner[<<leaf.to, path>>]
                     /\ ShortOnes(types, S) => full[<<leaf.to, path>>] = inner[<<leaf.to, path>>]
    <3>1. leaf.to \in Targets(fields) /\ leaf.to \in DOMAIN types
      BY <1>6, <2>1, <2>2, TargetOf
    <3>2. leaf.to \in S
      BY <1>5, <3>1 DEF Closed
    <3> QED
      BY <1>1, <1>2, <1>5, <1>6, <3>1, <3>2 DEF Charged
  <2>3. Covers(inner, full, leaf, path)
    BY <1>10, <2>2 DEF Covers
  <2>4. ShortOnes(types, S) => Matches(inner, full, leaf, path)
    BY <2>2 DEF Matches
  <2>5. ShortOnes(types, S) => Short(fields[i].type)
    <3>1. fields[i] \in Range(types[call[1]].fields)
      BY <1>5, <1>6, LenProperties DEF Range
    <3> QED
      BY <3>1 DEF ShortOnes
  <2> QED
    BY <2>1, <2>3, <2>4, <2>5
<1>b. Held(costs, members, inner, full, fields, path)
  <2>1. \A i \in 1 .. Len(fields) : Covers(inner, full, fields[i].type.leaf, path)
    BY <1>13
  <2>2. \A i \in 1 .. Len(fields) : Costs(inner, fields, path, m)[i] # Unbounded
    BY <1>7, <1>12, Zenon
  <2> QED
    BY <1>6, <1>7, <1>10, <2>1, <2>2, FieldsBound
<1>14. /\ members \in Seq(Nat) /\ Len(members) = Len(fields)
       /\ \A i \in 1 .. Len(fields) : members[i] \in Nat /\ costs[i] \in Nat /\ members[i] <= costs[i]
       /\ (\A i \in 1 .. Len(fields) : Short(fields[i].type) /\ Matches(inner, full, fields[i].type.leaf, path)) =>
             \A i \in 1 .. Len(fields) : members[i] = costs[i]
  BY <1>b DEF Held
<1>15. ShortOnes(types, S) => \A i \in 1 .. Len(fields) : members[i] = costs[i]
  BY <1>13, <1>14
<1>16. Len(costs) = Len(fields) /\ Len(costs) = Len(members)
  BY <1>11, <1>14
<1>17. CASE largest
  <2>1. ~ m.decode /\ PadFor(m) = "none" /\ types[call[1]].cat = "union"
    BY <1>8, <1>17 DEF PadFor
  <2>2. full[call] = Max({0} \cup Range(members))
    BY <1>4, <1>5, <1>6, <1>7, <2>1, Zenon DEF FullBody
  <2>3. \A i \in 1 .. Len(costs) : costs[i] < Half
    <3> SUFFICES ASSUME NEW i \in 1 .. Len(fields) PROVE costs[i] < Half
      BY <1>16
    <3>1. fields[i] \in Range(types[call[1]].fields)
      BY <1>5, <1>6, LenProperties DEF Range
    <3>2. costs[i] = FieldMax(inner, fields[i], path, m)
      BY <1>6, <1>7, <1>10, CostsAre
    <3> QED
      BY <1>1, <1>6, <1>12, <2>1, <3>1, <3>2 DEF Below
  <2>4. /\ Max({0} \cup Range(members)) <= Tally(costs, TRUE)
        /\ (\A i \in 1 .. Len(costs) : members[i] = costs[i]) => Max({0} \cup Range(members)) = Tally(costs, TRUE)
    BY <1>12, <1>14, <1>16, <2>3, HighestsCompare
  <2>a. largest = TRUE
    BY <1>8, <1>17
  <2>5. inner[call] = Tally(costs, TRUE)
    BY <1>12, <2>a, Zenon
  <2> QED
    BY <1>15, <1>16, <2>2, <2>4, <2>5
<1>18. CASE ~ largest
  <2>1. full[call] = Tally(members, FALSE)
    <3>1. ~ (types[call[1]].cat = "union" /\ PadFor(m) = "none")
      BY <1>8, <1>18 DEF PadFor
    <3> QED
      BY <1>4, <1>5, <1>6, <1>7, <3>1, Zenon DEF FullBody
  <2>2. Tally(members, FALSE) <= Tally(costs, FALSE)
    BY <1>12, <1>14, <1>16, SumsCompare
  <2>3. (\A i \in 1 .. Len(costs) : members[i] = costs[i]) => Tally(members, FALSE) = Tally(costs, FALSE)
    BY <1>12, <1>14, <1>16, SumsEqual
  <2>a. largest = FALSE
    BY <1>8, <1>18
  <2>4. inner[call] = Tally(costs, FALSE)
    BY <1>12, <2>a, Zenon
  <2> QED
    BY <1>15, <1>16, <2>1, <2>2, <2>3, <2>4
<1> QED
  BY <1>17, <1>18

LEMMA CallsCharged ==
    ASSUME SizesFit, NEW types, WellFormed(types), NEW m \in Modes, NEW S, Closed(types, S), Below(types, m, S)
    PROVE  \A call \in SizeCalls(types) : call[1] \in S => Charged(types, m, S, call)
<1> DEFINE T == {call \in SizeCalls(types) : call[1] \in S /\ ~ Charged(types, m, S, call)}
<1> SUFFICES ASSUME T # {} PROVE FALSE
  OBVIOUS
<1>1. PICK call \in T : Deeper(types)[call] \cap T = {}
  BY CallsEnd DEF WellFormed, Ends
<1>2. \A name \in S : call[1] \notin call[2] => Charged(types, m, S, <<name, Inside(call)>>)
  <2> SUFFICES ASSUME NEW name \in S, call[1] \notin call[2] PROVE <<name, Inside(call)>> \notin T
    BY CallIs DEF Closed
  <2>1. <<name, Inside(call)>> \in Deeper(types)[call]
    BY DEF Deeper, Closed
  <2> QED
    BY <1>1, <2>1
<1> QED
  BY <1>1, <1>2, CallStep

-----------------------------------------------------------------------------
(* Where there is no worst case: an unbounded part, or a type in itself.   *)

LEMMA EncodingIs ==
    /\ SizesFit => Encoding \in Modes
    /\ ~ Encoding.decode /\ Encoding.caps = NoCaps /\ PadFor(Encoding) = "none"
    /\ \A cap \in {"array", "string", "blob"} : Encoding.caps[cap] = None
    /\ Encoding.caps.array = None
  BY DEF Encoding, NoCaps, Modes, AllCaps, PadFor

LEMMA TypeUnbounded ==
    ASSUME SizesFit, NEW types, NEW f \in SizedFields(types), NEW leafMax \in Amounts,
           Native(f.type.leaf) => leafMax # Unbounded
    PROVE  TypeMax(f.type, Encoding, leafMax) = Unbounded <=> None \in Range(f.type.counts) \/ leafMax = Unbounded
<1>0. PICK n \in Nat : n = Len(f.type.counts) /\ DOMAIN f.type.counts = 1 .. n
  BY FieldParts, LenProperties
<1>a. Encoding \in Modes /\ Unbounded \notin Nat /\ None \notin Nat
  BY EncodingIs, Constants
<1>b. PICK c \in [0 .. Len(f.type.counts) -> Amounts] :
         /\ TypeMax(f.type, Encoding, leafMax) = c[Len(f.type.counts)] /\ c[0] = leafMax
         /\ \A k \in 1 .. Len(f.type.counts) : c[k] = ArrayWireMax(f.type, k, Encoding, c[k - 1])
  BY <1>a, TypeMaxIs
<1>1. /\ c \in [0 .. n -> Amounts]
      /\ TypeMax(f.type, Encoding, leafMax) = c[n] /\ c[0] = leafMax
      /\ \A k \in 1 .. n : c[k] = ArrayWireMax(f.type, k, Encoding, c[k - 1])
  BY <1>0, <1>b, Zenon
<1>2. ASSUME NEW k \in 1 .. n
      PROVE  c[k] = Unbounded <=>
                f.type.counts[k] = None \/ (c[k - 1] = Unbounded /\ ~ (k = 1 /\ Native(f.type.leaf)))
  <2>1. PICK x \in Amounts : x = c[k - 1]
    BY <1>1
  <2>2. k \in 1 .. Len(f.type.counts) /\ c[k] = ArrayWireMax(f.type, k, Encoding, x)
    BY <1>0, <1>1, <2>1
  <2>3. PICK count : count = Bound(f.type.counts[k], Encoding.caps.array)
    OBVIOUS
  <2>4. count = f.type.counts[k]
    BY <2>3, EncodingIs DEF Bound
  <2>5. /\ c[k] \in Amounts
        /\ count \in Nat \cup {None}
        /\ count = None => c[k] = Unbounded
        /\ count # None /\ k = 1 /\ Native(f.type.leaf) => c[k] \in Nat
        /\ count # None /\ ~ (k = 1 /\ Native(f.type.leaf)) =>
              c[k] = IF x = Unbounded THEN Unbounded ELSE count * (Header(count) + x) + 1
    BY <1>a, <2>2, <2>3, ArrayWireMaxIs
  <2>6. count \in Nat /\ x \in Nat => count * (Header(count) + x) + 1 \in Nat
    <3> SUFFICES ASSUME count \in Nat, x \in Nat PROVE count * (Header(count) + x) + 1 \in Nat
      OBVIOUS
    <3>1. Header(count) \in Nat
      BY HeaderGrows
    <3>2. count * (Header(count) + x) \in Nat
      BY <3>1, Product
    <3> QED
      BY <3>2
  <2> QED
    BY <1>a, <2>1, <2>4, <2>5, <2>6 DEF Amounts
<1> DEFINE Good(k) == c[k] = Unbounded <=> (\E j \in 1 .. k : f.type.counts[j] = None) \/ leafMax = Unbounded
           S == {k \in 0 .. n : Good(k)}
<1>3. 0 \in S
  BY <1>1
<1>4. ASSUME NEW k \in 1 .. n, k - 1 \in S PROVE k \in S
  <2>1. k \in 0 .. n /\ Good(k - 1) /\ (k = 1 => k - 1 = 0)
    BY <1>4
  <2>2. (\E j \in 1 .. k : f.type.counts[j] = None) <=>
           (\E j \in 1 .. (k - 1) : f.type.counts[j] = None) \/ f.type.counts[k] = None
    OBVIOUS
  <2>3. k = 1 /\ Native(f.type.leaf) => c[k - 1] # Unbounded
    BY <1>1, <2>1
  <2>4. Good(k)
    BY <1>2, <2>1, <2>2, <2>3
  <2> QED
    BY <2>1, <2>4
<1>5. \A k \in 0 .. n : k \in S
  <2> HIDE DEF S
  <2> QED
    BY <1>3, <1>4, Climb
<1>6. n \in 0 .. n
  OBVIOUS
<1>7. Good(n)
  BY <1>5, <1>6
<1> QED
  BY <1>0, <1>1, <1>7 DEF Range

LEMMA FieldUnbounded ==
    ASSUME SizesFit, NEW types, NEW f \in SizedFields(types), NEW inner, NEW path,
           f.type.leaf.kind = "ref" => inner[<<f.type.leaf.to, path>>] \in Amounts
    PROVE  FieldMax(inner, f, path, Encoding) = Unbounded <=>
              Bare(f.type) \/ (f.type.leaf.kind = "ref" /\ inner[<<f.type.leaf.to, path>>] = Unbounded)
<1>0. Encoding \in Modes /\ Unbounded \notin Nat
  BY EncodingIs, Constants
<1>1. PICK x \in Amounts : x = LeafMax(inner, f.type.leaf, path, Encoding)
  BY <1>0, LeafMaxIs
<1>2. Native(f.type.leaf) => x # Unbounded
  BY <1>0, <1>1, LeafMaxIs
<1>3. FieldMax(inner, f, path, Encoding) = Unbounded <=> None \in Range(f.type.counts) \/ x = Unbounded
  BY <1>0, <1>1, <1>2, FieldMaxIs, TypeUnbounded
<1>4. x = Unbounded <=>
        \/ f.type.leaf.kind \in {"string", "blob"} /\ f.type.leaf.max = None
        \/ f.type.leaf.kind = "ref" /\ inner[<<f.type.leaf.to, path>>] = Unbounded
  <2>1. CASE Native(f.type.leaf)
    BY <1>2, <2>1 DEF Native
  <2>2. CASE f.type.leaf.kind \in {"string", "blob"}
    <3>1. x = Payload(f.type.leaf, Encoding)
      BY <1>1, <2>2 DEF LeafMax
    <3>2. Bound(f.type.leaf.max, Encoding.caps[f.type.leaf.kind]) = f.type.leaf.max
      BY <2>2, EncodingIs DEF Bound
    <3>3. f.type.leaf.max \in Nat => FixlenWord(f.type.leaf.max) + f.type.leaf.max \in Nat
      BY VarintLenIs DEF FixlenWord
    <3>4. f.type.leaf.max \in Nat \cup {None}
      BY <2>2, FieldParts
    <3> QED
      BY <1>0, <2>2, <3>1, <3>2, <3>3, <3>4 DEF Payload
  <2>3. CASE f.type.leaf.kind = "ref"
    <3>1. x = Plus(inner[<<f.type.leaf.to, path>>], 1)
      BY <1>1, <2>3 DEF LeafMax
    <3>2. 1 # Unbounded /\ \A a \in Nat : a + 1 # Unbounded
      BY <1>0
    <3>3. inner[<<f.type.leaf.to, path>>] \in Amounts
      BY <2>3
    <3> QED
      BY <2>3, <3>1, <3>2, <3>3 DEF Plus, Amounts
  <2> QED
    BY <2>1, <2>2, <2>3, FieldParts DEF Native
<1> QED
  BY <1>3, <1>4 DEF Bare

\* Without a worst case, on the way by path.
Endless(types, f, path) ==
    Bare(f.type) \/ (f.type.leaf.kind = "ref" /\ StructWireMax(types, Encoding)[<<f.type.leaf.to, path>>] = Unbounded)

LEMMA CostsUnbounded ==
    ASSUME SizesFit, NEW types, WellFormed(types), NEW fields \in Seq(SizedFields(types)), NEW path \in SUBSET DOMAIN types,
           NEW largest \in BOOLEAN
    PROVE  Join(Costs(StructWireMax(types, Encoding), fields, path, Encoding), largest) = Unbounded <=>
              \E i \in 1 .. Len(fields) : Endless(types, fields[i], path)
<1>1. PICK inner : inner = StructWireMax(types, Encoding)
  OBVIOUS
<1>2. Encoding \in Modes /\ inner \in [SizeCalls(types) -> Amounts]
  BY <1>1, EncodingIs, StructWireMaxIs
<1>3. \A name \in DOMAIN types : inner[<<name, path>>] \in Amounts
  BY <1>2 DEF SizeCalls
<1>4. PICK costs : costs = Costs(inner, fields, path, Encoding)
  OBVIOUS
<1>5. /\ costs \in Seq(Amounts) /\ Len(costs) = Len(fields)
      /\ \A i \in 1 .. Len(fields) : /\ fields[i] \in SizedFields(types)
                                     /\ costs[i] = FieldMax(inner, fields[i], path, Encoding)
  BY <1>2, <1>3, <1>4, CostsAre
<1>6. ASSUME NEW i \in 1 .. Len(fields) PROVE costs[i] = Unbounded <=> Endless(types, fields[i], path)
  <2>1. PICK f \in SizedFields(types) : f = fields[i]
    BY <1>5
  <2>2. f.type.leaf.kind = "ref" => inner[<<f.type.leaf.to, path>>] \in Amounts
    BY <1>3, FieldParts
  <2>3. FieldMax(inner, f, path, Encoding) = Unbounded <=>
           Bare(f.type) \/ (f.type.leaf.kind = "ref" /\ inner[<<f.type.leaf.to, path>>] = Unbounded)
    BY <2>2, FieldUnbounded
  <2> QED
    BY <1>1, <1>5, <2>1, <2>3 DEF Endless
<1>7. Join(costs, largest) = Unbounded <=> \E i \in 1 .. Len(costs) : costs[i] = Unbounded
  BY <1>5, JoinIs
<1> QED
  BY <1>1, <1>4, <1>5, <1>6, <1>7

LEMMA CallUnbounded ==
    ASSUME SizesFit, NEW types, WellFormed(types), NEW call \in SizeCalls(types)
    PROVE  StructWireMax(types, Encoding)[call] = Unbounded <=>
              \/ call[1] \in call[2]
              \/ \E i \in 1 .. Len(types[call[1]].fields) : Endless(types, types[call[1]].fields[i], Inside(call))
<1>1. PICK inner : inner = StructWireMax(types, Encoding)
  OBVIOUS
<1>2. inner[call] = BodyMax(types, Encoding, inner, call)
  BY <1>1, EncodingIs, StructWireMaxIs
<1>3. CASE call[1] \in call[2]
  BY <1>1, <1>2, <1>3 DEF BodyMax
<1>4. CASE call[1] \notin call[2]
  <2>1. PICK fields, path : fields = types[call[1]].fields /\ path = Inside(call)
    OBVIOUS
  <2>2. fields \in Seq(SizedFields(types)) /\ path \in SUBSET DOMAIN types
    BY <2>1, CallIs DEF WellFormed
  <2>3. PICK largest : largest = (types[call[1]].cat = "union" /\ ~ Encoding.decode)
    OBVIOUS
  <2>4. largest \in BOOLEAN
    BY <2>3, Zenon
  <2>5. inner[call] = Join(Costs(inner, fields, path, Encoding), largest)
    BY <1>2, <1>4, <2>1, <2>3, Zenon DEF BodyMax
  <2>6. inner[call] = Unbounded <=> \E i \in 1 .. Len(fields) : Endless(types, fields[i], path)
    BY <1>1, <2>2, <2>4, <2>5, CostsUnbounded
  <2> QED
    BY <1>1, <1>4, <2>1, <2>6
<1> QED
  BY <1>3, <1>4

-----------------------------------------------------------------------------
(* The types of a payload.                                                 *)

LEMMA SchemaIs ==
    ASSUME SizesFit, NEW s \in SizedSchemas
    PROVE  WellFormed(s.types) /\ s.payload \in Seq(SizedFields(s.types))
  BY DEF SizesFit, WellFormed

LEMMA TargetsAre ==
    ASSUME NEW types, NEW fields \in Seq(SizedFields(types))
    PROVE  /\ Targets(fields) \subseteq DOMAIN types
           /\ \A name \in Targets(fields) :
                 \E i \in 1 .. Len(fields) : fields[i].type.leaf.kind = "ref" /\ fields[i].type.leaf.to = name
<1>1. DOMAIN fields = 1 .. Len(fields) /\ \A i \in 1 .. Len(fields) : fields[i] \in SizedFields(types)
  BY LenProperties, ElementOfSeq
<1>2. \A name \in Targets(fields) :
         \E i \in 1 .. Len(fields) : fields[i].type.leaf.kind = "ref" /\ fields[i].type.leaf.to = name
  BY <1>1 DEF Targets
<1>3. \A i \in 1 .. Len(fields) : fields[i].type.leaf.kind = "ref" => fields[i].type.leaf.to \in DOMAIN types
  BY <1>1, FieldParts
<1> QED
  BY <1>2, <1>3

LEMMA ReachedIs ==
    ASSUME SizesFit, NEW s \in SizedSchemas
    PROVE  /\ Closed(s.types, Reached(s)) /\ Targets(s.payload) \subseteq Reached(s)
           /\ \A S : Closed(s.types, S) /\ Targets(s.payload) \subseteq S => Reached(s) \subseteq S
<1>1. WellFormed(s.types) /\ s.payload \in Seq(SizedFields(s.types))
  BY SchemaIs
<1>2. Targets(s.payload) \subseteq DOMAIN s.types
  BY <1>1, TargetsAre
<1>3. \A name \in DOMAIN s.types : Targets(s.types[name].fields) \subseteq DOMAIN s.types
  BY <1>1, TargetsAre DEF WellFormed
<1>4. Targets(s.payload) \subseteq Reached(s)
  BY <1>2 DEF Reached
<1>5. Reached(s) \in SUBSET DOMAIN s.types
  BY DEF Reached
<1>6. ASSUME NEW name \in Reached(s), NEW to \in Targets(s.types[name].fields) PROVE to \in Reached(s)
  <2>1. name \in DOMAIN s.types /\ to \in DOMAIN s.types
    BY <1>3, <1>5, <1>6
  <2>2. ASSUME NEW S \in SUBSET DOMAIN s.types,
               Targets(s.payload) \subseteq S /\ \A n \in S : Targets(s.types[n].fields) \subseteq S
        PROVE  to \in S
    <3>1. name \in S
      BY <1>6, <2>2 DEF Reached
    <3> QED
      BY <1>6, <2>2, <3>1
  <2> QED
    BY <2>1, <2>2 DEF Reached
<1>7. \A S : Closed(s.types, S) /\ Targets(s.payload) \subseteq S => Reached(s) \subseteq S
  BY DEF Reached, Closed
<1> QED
  BY <1>4, <1>5, <1>6, <1>7 DEF Closed

\* Of any calls there is one that makes none of the others.
LEMMA LastCall ==
    ASSUME NEW types, WellFormed(types), NEW T, T \subseteq SizeCalls(types), T # {}
    PROVE  \E call \in T : Deeper(types)[call] \cap T = {}
  BY CallsEnd DEF WellFormed, Ends

\* Whatever is inside of the names on a path without turning back is bounded
\* where no reachable types contain one another.
LEMMA BoundedCalls ==
    ASSUME SizesFit, NEW s \in SizedSchemas, HasWorstCase(s)
    PROVE  \A name \in Reached(s) : StructWireMax(s.types, Encoding)[<<name, {}>>] # Unbounded
<1> DEFINE Leads(call) == \A p \in call[2] : Targets(s.types[p].fields) \cap Inside(call) # {}
           T == {call \in SizeCalls(s.types) :
                    /\ call[1] \in Reached(s) /\ call[2] \subseteq Reached(s) /\ Leads(call)
                    /\ StructWireMax(s.types, Encoding)[call] = Unbounded}
<1>1. WellFormed(s.types) /\ Closed(s.types, Reached(s))
  BY SchemaIs, ReachedIs
<1>2. T = {}
  <2> SUFFICES ASSUME T # {} PROVE FALSE
    OBVIOUS
  <2>0. T \subseteq SizeCalls(s.types)
    OBVIOUS
  <2>1. PICK call \in T : Deeper(s.types)[call] \cap T = {}
    <3> HIDE DEF T
    <3> QED
      BY <1>1, <2>0, LastCall
  <2>2. /\ call \in SizeCalls(s.types) /\ call[1] \in Reached(s) /\ call[2] \subseteq Reached(s) /\ Leads(call)
        /\ StructWireMax(s.types, Encoding)[call] = Unbounded
    OBVIOUS
  <2>3. call[1] \notin call[2]
    <3> SUFFICES ASSUME call[1] \in call[2] PROVE FALSE
      OBVIOUS
    <3>1. Inside(call) = call[2]
      BY DEF Inside
    <3>2. \A p \in call[2] : Targets(s.types[p].fields) \cap call[2] # {}
      BY <2>2, <3>1
    <3> QED
      BY <2>2, <3>2 DEF HasWorstCase
  <2>4. PICK fields : fields = s.types[call[1]].fields
    OBVIOUS
  <2>5. fields \in Seq(SizedFields(s.types)) /\ Targets(fields) \subseteq Reached(s)
    BY <1>1, <2>2, <2>4, CallIs DEF WellFormed, Closed
  <2>6. PICK i \in 1 .. Len(fields) : Endless(s.types, fields[i], Inside(call))
    BY <1>1, <2>2, <2>3, <2>4, CallUnbounded
  <2>7. ~ Bare(fields[i].type)
    <3>1. fields[i] \in Range(s.types[call[1]].fields)
      BY <2>4, <2>5, LenProperties DEF Range
    <3> QED
      BY <2>2, <3>1 DEF HasWorstCase
  <2>8. PICK to : to = fields[i].type.leaf.to
    OBVIOUS
  <2>9. fields[i].type.leaf.kind = "ref" /\ StructWireMax(s.types, Encoding)[<<to, Inside(call)>>] = Unbounded
    BY <2>6, <2>7, <2>8 DEF Endless
  <2>10. to \in Targets(fields) /\ to \in Reached(s) /\ to \in DOMAIN s.types
    BY <2>5, <2>8, <2>9, TargetOf
  <2>11. PICK next : next = <<to, Inside(call)>>
    OBVIOUS
  <2>12. next \in SizeCalls(s.types) /\ next \in Deeper(s.types)[call]
    BY <2>2, <2>3, <2>10, <2>11, CallIs DEF Deeper
  <2>13. next[1] \in Reached(s) /\ next[2] \subseteq Reached(s)
    BY <2>2, <2>10, <2>11 DEF Inside
  <2>14. Leads(next)
    <3> SUFFICES ASSUME NEW p \in Inside(call) PROVE Targets(s.types[p].fields) \cap (Inside(call) \cup {to}) # {}
      BY <2>11 DEF Inside
    <3>1. CASE p = call[1]
      BY <2>4, <2>10, <3>1
    <3>2. CASE p \in call[2]
      BY <2>2, <3>2
    <3> QED
      BY <3>1, <3>2 DEF Inside
  <2>15. next \in T
    BY <2>9, <2>11, <2>12, <2>13, <2>14
  <2> QED
    BY <2>1, <2>12, <2>15
<1>3. ASSUME NEW name \in Reached(s) PROVE StructWireMax(s.types, Encoding)[<<name, {}>>] # Unbounded
  <2>1. <<name, {}>> \in SizeCalls(s.types) /\ Leads(<<name, {}>>)
    BY <1>1 DEF SizeCalls, Closed
  <2> HIDE DEF Leads
  <2> QED
    BY <1>2, <2>1
<1> QED
  BY <1>3

LEMMA BoundedNames ==
    ASSUME SizesFit, NEW s \in SizedSchemas, MessageSize(s) # Unbounded
    PROVE  \A name \in Reached(s) : \E call \in SizeCalls(s.types) :
              call[1] = name /\ StructWireMax(s.types, Encoding)[call] # Unbounded
<1> DEFINE inner == StructWireMax(s.types, Encoding)
           G == {name \in DOMAIN s.types : \E call \in SizeCalls(s.types) : call[1] = name /\ inner[call] # Unbounded}
<1>1. WellFormed(s.types) /\ s.payload \in Seq(SizedFields(s.types))
  BY SchemaIs
<1>2. ASSUME NEW name \in Targets(s.payload) PROVE name \in G
  <2>1. PICK i \in 1 .. Len(s.payload) : s.payload[i].type.leaf.kind = "ref" /\ s.payload[i].type.leaf.to = name
    BY <1>1, TargetsAre
  <2>2. ~ Endless(s.types, s.payload[i], {})
    BY <1>1, CostsUnbounded DEF MessageSize
  <2>3. inner[<<name, {}>>] # Unbounded
    BY <2>1, <2>2 DEF Endless
  <2>4. name \in DOMAIN s.types
    BY <1>1, TargetsAre
  <2>5. <<name, {}>> \in SizeCalls(s.types) /\ <<name, {}>>[1] = name
    BY <2>4 DEF SizeCalls
  <2> HIDE DEF inner
  <2> QED
    BY <2>3, <2>4, <2>5
<1>3. ASSUME NEW name \in G, NEW to \in Targets(s.types[name].fields) PROVE to \in G
  <2>1. PICK call \in SizeCalls(s.types) : call[1] = name /\ inner[call] # Unbounded
    BY <1>3
  <2>2. PICK fields : fields = s.types[name].fields
    OBVIOUS
  <2>3. fields \in Seq(SizedFields(s.types))
    BY <1>1, <2>2 DEF WellFormed
  <2>4. PICK i \in 1 .. Len(fields) : fields[i].type.leaf.kind = "ref" /\ fields[i].type.leaf.to = to
    BY <1>3, <2>2, <2>3, TargetsAre
  <2>5. ~ Endless(s.types, fields[i], Inside(call))
    BY <1>1, <2>1, <2>2, <2>4, CallUnbounded
  <2>6. inner[<<to, Inside(call)>>] # Unbounded
    BY <2>4, <2>5 DEF Endless
  <2>7. to \in DOMAIN s.types
    BY <1>3, <2>2, <2>3, TargetsAre
  <2>8. <<to, Inside(call)>> \in SizeCalls(s.types) /\ <<to, Inside(call)>>[1] = to
    BY <2>7, CallIs
  <2> HIDE DEF inner
  <2> QED
    BY <2>6, <2>7, <2>8
<1>4. Reached(s) \subseteq G
  <2>1. Closed(s.types, G) /\ Targets(s.payload) \subseteq G
    BY <1>2, <1>3 DEF Closed
  <2> HIDE DEF G
  <2> QED
    BY <2>1, ReachedIs
<1> QED
  BY <1>4

LEMMA WorstCaseIs ==
    ASSUME SizesFit, NEW s \in SizedSchemas
    PROVE  MessageSize(s) = Unbounded <=> ~ HasWorstCase(s)
<1>1. WellFormed(s.types) /\ s.payload \in Seq(SizedFields(s.types))
  BY SchemaIs
<1>2. MessageSize(s) = Unbounded <=> \E i \in 1 .. Len(s.payload) : Endless(s.types, s.payload[i], {})
  BY <1>1, CostsUnbounded DEF MessageSize
<1>3. ASSUME HasWorstCase(s), NEW i \in 1 .. Len(s.payload) PROVE ~ Endless(s.types, s.payload[i], {})
  <2>1. ~ Bare(s.payload[i].type)
    BY <1>1, <1>3, LenProperties DEF HasWorstCase, Range
  <2>2. ASSUME s.payload[i].type.leaf.kind = "ref" PROVE s.payload[i].type.leaf.to \in Reached(s)
    BY <1>1, <2>2, TargetOf, ReachedIs
  <2> QED
    BY <1>3, <2>1, <2>2, BoundedCalls DEF Endless
<1>4. ASSUME MessageSize(s) # Unbounded PROVE HasWorstCase(s)
  <2> DEFINE inner == StructWireMax(s.types, Encoding)
  <2>1. \A name \in Reached(s) : \E call \in SizeCalls(s.types) : call[1] = name /\ inner[call] # Unbounded
    BY <1>4, BoundedNames
  <2>2. ASSUME NEW f \in Range(s.payload) PROVE ~ Bare(f.type)
    <3>1. PICK i \in 1 .. Len(s.payload) : f = s.payload[i]
      BY <1>1, LenProperties DEF Range
    <3> QED
      BY <1>2, <1>4, <3>1 DEF Endless
  <2>3. ASSUME NEW name \in Reached(s), NEW f \in Range(s.types[name].fields) PROVE ~ Bare(f.type)
    <3>1. PICK call \in SizeCalls(s.types) : call[1] = name /\ inner[call] # Unbounded
      BY <2>1
    <3>2. s.types[name].fields \in Seq(SizedFields(s.types))
      BY <1>1, <3>1, CallIs DEF WellFormed
    <3>3. PICK i \in 1 .. Len(s.types[name].fields) : f = s.types[name].fields[i]
      BY <3>2, LenProperties DEF Range
    <3>4. ~ Endless(s.types, f, Inside(call))
      BY <1>1, <3>1, <3>3, CallUnbounded
    <3> QED
      BY <3>4 DEF Endless
  <2>4. ASSUME NEW C \in SUBSET Reached(s), C # {}, \A name \in C : Targets(s.types[name].fields) \cap C # {}
        PROVE  FALSE
    <3> DEFINE T == {call \in SizeCalls(s.types) : call[1] \in C /\ inner[call] # Unbounded}
    <3>1. T # {}
      BY <2>1, <2>4
    <3>a. T \subseteq SizeCalls(s.types)
      OBVIOUS
    <3>2. PICK call \in T : Deeper(s.types)[call] \cap T = {}
      <4> HIDE DEF T
      <4> QED
        BY <1>1, <3>1, <3>a, LastCall
    <3>3. PICK to \in C : to \in Targets(s.types[call[1]].fields)
      BY <2>4
    <3>4. PICK fields : fields = s.types[call[1]].fields
      OBVIOUS
    <3>5. fields \in Seq(SizedFields(s.types))
      BY <1>1, <3>4, CallIs, SMTT(30) DEF WellFormed
    <3>6. PICK i \in 1 .. Len(fields) : fields[i].type.leaf.kind = "ref" /\ fields[i].type.leaf.to = to
      BY <3>3, <3>4, <3>5, TargetsAre
    <3>7. call[1] \notin call[2] /\ ~ Endless(s.types, fields[i], Inside(call))
      BY <1>1, <3>4, <3>6, CallUnbounded
    <3>8. inner[<<to, Inside(call)>>] # Unbounded
      BY <3>6, <3>7 DEF Endless
    <3>9. to \in DOMAIN s.types
      BY <3>3, <3>4, <3>5, TargetsAre
    <3>10. /\ <<to, Inside(call)>> \in SizeCalls(s.types) /\ <<to, Inside(call)>>[1] = to
           /\ <<to, Inside(call)>> \in Deeper(s.types)[call]
      BY <3>7, <3>9, CallIs DEF Deeper
    <3> HIDE DEF inner
    <3>11. <<to, Inside(call)>> \in T
      BY <3>8, <3>10
    <3> QED
      BY <3>2, <3>10, <3>11
  <2> QED
    BY <2>2, <2>3, <2>4 DEF HasWorstCase
<1> QED
  BY <1>2, <1>3, <1>4

-----------------------------------------------------------------------------
(* What MAX_SIZE and a decode span promise.                                *)

LEMMA Int64Is ==
    ASSUME SizesFit, NEW size \in Amounts
    PROVE  /\ Int64(size) = Unbounded <=> size = Unbounded
           /\ size # Unbounded /\ size < Half => Int64(size) = size
<1>1. CASE size = Unbounded
  BY <1>1 DEF Int64
<1>2. CASE size # Unbounded
  <2>1. size \in Nat /\ Unbounded \notin Int
    BY <1>2, Constants DEF Amounts
  <2>2. PICK h \in Nat : h = Half /\ Width = 2 * h /\ Width \in Nat \ {0}
    BY Constants
  <2>3. Wrap(size) \in Int
    <3>1. \A w \in Nat \ {0}, n \in Nat : n % w \in Nat
      OBVIOUS
    <3>2. (size + h) % Width \in Nat
      BY <2>1, <2>2, <3>1
    <3> QED
      BY <2>2, <3>2 DEF Wrap
  <2>4. size < Half => Wrap(size) = size
    BY <2>1, WrapKeeps
  <2> QED
    BY <1>2, <2>1, <2>3, <2>4 DEF Int64
<1> QED
  BY <1>1, <1>2

\* What is charged for the types of a payload covers what is written of them.
LEMMA PayloadCovered ==
    ASSUME SizesFit, NEW s \in SizedSchemas, NEW m \in Modes, Below(s.types, m, Reached(s)),
           NEW i \in 1 .. Len(s.payload)
    PROVE  /\ Covers(StructWireMax(s.types, m), Full(s.types, PadFor(m), m.caps), s.payload[i].type.leaf, {})
           /\ ShortArrays(s) =>
                 /\ Short(s.payload[i].type)
                 /\ Matches(StructWireMax(s.types, m), Full(s.types, PadFor(m), m.caps), s.payload[i].type.leaf, {})
<1>1. PICK inner, full : inner = StructWireMax(s.types, m) /\ full = Full(s.types, PadFor(m), m.caps)
  OBVIOUS
<1>2. WellFormed(s.types) /\ s.payload \in Seq(SizedFields(s.types)) /\ Closed(s.types, Reached(s))
  BY SchemaIs, ReachedIs
<1>3. inner \in [SizeCalls(s.types) -> Amounts]
  BY <1>1, <1>2, StructWireMaxIs
<1>4. full \in [SizeCalls(s.types) -> Nat]
  <2>1. m.caps \in AllCaps /\ PadFor(m) # "all"
    BY PadIs DEF Modes
  <2> QED
    BY <1>1, <1>2, <2>1, FullIs
<1>5. ShortArrays(s) => ShortOnes(s.types, Reached(s)) /\ Short(s.payload[i].type)
  <2>1. s.payload[i] \in Range(s.payload)
    BY <1>2, LenProperties DEF Range
  <2> QED
    BY <1>2, <2>1 DEF ShortArrays, ShortOnes, Closed
<1>6. PICK leaf : leaf = s.payload[i].type.leaf
  OBVIOUS
<1>7. ASSUME leaf.kind = "ref"
      PROVE  /\ <<leaf.to, {}>> \in SizeCalls(s.types)
             /\ inner[<<leaf.to, {}>>] # Unbounded =>
                   /\ full[<<leaf.to, {}>>] <= inner[<<leaf.to, {}>>]
                   /\ ShortOnes(s.types, Reached(s)) => full[<<leaf.to, {}>>] = inner[<<leaf.to, {}>>]
  <2>1. leaf.to \in Reached(s) /\ leaf.to \in DOMAIN s.types
    BY <1>2, <1>6, <1>7, TargetOf, ReachedIs
  <2>2. <<leaf.to, {}>> \in SizeCalls(s.types) /\ <<leaf.to, {}>>[1] \in Reached(s)
    BY <2>1 DEF SizeCalls
  <2>3. Charged(s.types, m, Reached(s), <<leaf.to, {}>>)
    BY <1>2, <2>2, CallsCharged
  <2> QED
    BY <1>1, <2>2, <2>3 DEF Charged
<1>8. Covers(inner, full, leaf, {})
  BY <1>3, <1>4, <1>7 DEF Covers
<1>9. ShortArrays(s) => Matches(inner, full, leaf, {})
  BY <1>5, <1>7 DEF Matches
<1> QED
  BY <1>1, <1>5, <1>6, <1>8, <1>9

LEMMA MessageHolds ==
    ASSUME SizesFit, NEW s \in SizedSchemas, NEW caps, Fits(s, caps), MessageSize(s) # Unbounded
    PROVE  /\ MaxWireSize(s) = MessageSize(s)
           /\ Largest(s) <= MessageSize(s)
           /\ ShortArrays(s) => Largest(s) = MessageSize(s)
<1> DEFINE m == Encoding
<1>1. m \in Modes /\ ~ m.decode /\ m.caps = NoCaps /\ PadFor(m) = "none"
  BY EncodingIs
<1>2. WellFormed(s.types) /\ s.payload \in Seq(SizedFields(s.types))
  BY SchemaIs
<1>3. Below(s.types, m, Reached(s))
  BY DEF Fits, Below
<1>4. PICK inner, full : inner = StructWireMax(s.types, m) /\ full = Full(s.types, PadFor(m), m.caps)
  OBVIOUS
<1>5. PICK costs, members :
        costs = Costs(inner, s.payload, {}, m) /\ members = FullFields(full, s.payload, {}, PadFor(m), m.caps)
  OBVIOUS
<1>6. MessageSize(s) = Join(costs, FALSE) /\ Largest(s) = Tally(members, FALSE)
  BY <1>1, <1>4, <1>5, Zenon DEF MessageSize, Largest
<1>7. \A name \in DOMAIN s.types : inner[<<name, {}>>] \in Amounts /\ full[<<name, {}>>] \in Nat
  <2>1. m.caps \in AllCaps /\ PadFor(m) # "all"
    BY <1>1, PadIs DEF Modes
  <2>2. inner \in [SizeCalls(s.types) -> Amounts]
    BY <1>1, <1>2, <1>4, StructWireMaxIs
  <2>3. full \in [SizeCalls(s.types) -> Nat]
    BY <1>2, <1>4, <2>1, FullIs
  <2>4. \A name \in DOMAIN s.types : <<name, {}>> \in SizeCalls(s.types)
    BY DEF SizeCalls
  <2> QED
    BY <2>2, <2>3, <2>4
<1>8. costs \in Seq(Amounts) /\ Len(costs) = Len(s.payload)
  BY <1>1, <1>2, <1>5, <1>7, CostsAre
<1>9. (\A i \in 1 .. Len(costs) : costs[i] # Unbounded) /\ MessageSize(s) = Tally(costs, FALSE)
  BY <1>6, <1>8, JoinIs
<1>10. \A i \in 1 .. Len(s.payload) : Covers(inner, full, s.payload[i].type.leaf, {})
  BY <1>1, <1>3, <1>4, PayloadCovered
<1>11. ShortArrays(s) =>
          \A i \in 1 .. Len(s.payload) :
             Short(s.payload[i].type) /\ Matches(inner, full, s.payload[i].type.leaf, {})
  BY <1>1, <1>3, <1>4, PayloadCovered
<1> HIDE DEF m
<1>12. Held(costs, members, inner, full, s.payload, {})
  <2>1. \A i \in 1 .. Len(s.payload) : Costs(inner, s.payload, {}, m)[i] # Unbounded
    BY <1>5, <1>8, <1>9, Zenon
  <2> QED
    BY <1>1, <1>2, <1>5, <1>7, <1>10, <2>1, FieldsBound
<1>13. costs \in Seq(Nat) /\ members \in Seq(Nat) /\ Len(costs) = Len(members) /\ Len(costs) = Len(s.payload)
  BY <1>12 DEF Held
<1>14. PICK sum, size : sum = Tally(costs, FALSE) /\ size = Tally(members, FALSE)
  OBVIOUS
<1>15. sum \in Nat /\ size <= sum
  <2>1. \A i \in 1 .. Len(costs) : members[i] <= costs[i]
    BY <1>12, <1>13 DEF Held
  <2> QED
    BY <1>13, <1>14, <2>1, SumsCompare
<1>16. ShortArrays(s) => size = sum
  <2>1. ShortArrays(s) => \A i \in 1 .. Len(costs) : members[i] = costs[i]
    BY <1>11, <1>12, <1>13 DEF Held
  <2> QED
    BY <1>13, <1>14, <2>1, SumsEqual
<1>17. MessageSize(s) = sum /\ Largest(s) = size
  BY <1>6, <1>9, <1>14
<1>18. MessageSize(s) < Half
  BY DEF Fits
<1>19. MaxWireSize(s) = MessageSize(s)
  BY <1>15, <1>17, <1>18, Int64Is DEF Amounts, MaxWireSize
<1> QED
  BY <1>15, <1>16, <1>17, <1>19

LEMMA SpanHolds ==
    ASSUME SizesFit, NEW s \in SizedSchemas, NEW caps \in AllCaps, Fits(s, caps), NEW i \in 1 .. Len(s.payload),
           MaxFieldDecodeSpan(s.types, s.payload[i], caps) # Unbounded
    PROVE  FullField(s.types, s.payload[i], "values", caps) <= MaxFieldDecodeSpan(s.types, s.payload[i], caps)
<1>0. PICK m : m = Decoding(caps)
  OBVIOUS
<1>1. m \in Modes /\ m.decode /\ m.caps = caps /\ PadFor(m) = "values"
  BY <1>0 DEF Decoding, Modes, PadFor
<1>2. WellFormed(s.types) /\ s.payload \in Seq(SizedFields(s.types))
  BY SchemaIs
<1>3. PICK f \in SizedFields(s.types) : f = s.payload[i]
  BY <1>2, ElementOfSeq
<1>4. Below(s.types, m, Reached(s))
  BY <1>1 DEF Below
<1>5. PICK inner, full : inner = StructWireMax(s.types, m) /\ full = Full(s.types, PadFor(m), m.caps)
  OBVIOUS
<1>6. Covers(inner, full, f.type.leaf, {})
  BY <1>1, <1>3, <1>4, <1>5, PayloadCovered
<1>7. PICK size : size = FieldMax(inner, f, {}, m)
  OBVIOUS
<1>8. FieldSize(s.types, f, m) = size /\ MaxFieldDecodeSpan(s.types, f, caps) = Int64(size)
  BY <1>0, <1>5, <1>7 DEF FieldSize, MaxFieldDecodeSpan
<1>9. size \in Amounts
  <2>1. f.type.leaf.kind = "ref" => inner[<<f.type.leaf.to, {}>>] \in Amounts
    BY <1>6 DEF Covers
  <2> QED
    BY <1>1, <1>7, <2>1, FieldMaxIs
<1>10. size # Unbounded
  BY <1>3, <1>8, <1>9, Int64Is
<1>11. size < Half
  <2>1. f \in Range(s.payload)
    BY <1>2, <1>3, LenProperties DEF Range
  <2> QED
    BY <1>0, <1>8, <1>10, <2>1 DEF Fits
<1>12. MaxFieldDecodeSpan(s.types, f, caps) = size
  BY <1>8, <1>9, <1>10, <1>11, Int64Is
<1>13. FullMember(full, f, {}, PadFor(m), m.caps) <= size
  BY <1>1, <1>6, <1>7, <1>10, MemberBound
<1>14. FullField(s.types, f, "values", caps) = FullMember(full, f, {}, PadFor(m), m.caps)
  BY <1>1, <1>5 DEF FullField
<1> QED
  BY <1>3, <1>12, <1>13, <1>14

-----------------------------------------------------------------------------
(* What Resolve and Span leave behind.                                     *)

IInv ==
    /\ message \in SizedSchemas /\ policy \in Policies
    /\ outcome \in {Pending, Verdict(policy.limit, MaxWireSize(message))}
    /\ spans \in {<< >>, [i \in DOMAIN message.payload |->
                              MaxFieldDecodeSpan(message.types, message.payload[i], policy.caps)]}

LEMMA IInvHolds == SizeSpec => []IInv
<1>1. SizeInit => IInv
  BY DEF SizeInit, IInv
<1>2. IInv /\ [SizeNext]_sizeVars => IInv'
  <2> SUFFICES ASSUME IInv, [SizeNext]_sizeVars PROVE IInv'
    OBVIOUS
  <2>1. CASE Resolve
    BY <2>1 DEF IInv, Resolve
  <2>2. CASE Span
    BY <2>2 DEF IInv, Span
  <2>3. CASE UNCHANGED sizeVars
    BY <2>3 DEF IInv, sizeVars
  <2> QED
    BY <2>1, <2>2, <2>3 DEF SizeNext
<1> QED
  BY <1>1, <1>2, PTL DEF SizeSpec

LEMMA VerdictIs ==
    ASSUME NEW limit, NEW size
    PROVE  /\ Verdict(limit, size) # Pending
           /\ Verdict(limit, size).verdict = "ceiling" <=> size = Unbounded
           /\ Verdict(limit, size).verdict = "exact" => size # Unbounded /\ Verdict(limit, size).size = size
<1>1. CASE size = Unbounded
  BY <1>1 DEF Verdict, Pending
<1>2. CASE size # Unbounded /\ limit # None /\ size > limit
  BY <1>2 DEF Verdict, Pending
<1>3. CASE size # Unbounded /\ ~ (limit # None /\ size > limit)
  BY <1>3 DEF Verdict, Pending
<1> QED
  BY <1>1, <1>2, <1>3

LEMMA SizeIs ==
    ASSUME SizesFit, NEW s \in SizedSchemas
    PROVE  MessageSize(s) \in Amounts
<1>1. WellFormed(s.types) /\ s.payload \in Seq(SizedFields(s.types)) /\ Encoding \in Modes
  BY SchemaIs, EncodingIs
<1>2. PICK inner : inner = StructWireMax(s.types, Encoding)
  OBVIOUS
<1>3. \A name \in DOMAIN s.types : inner[<<name, {}>>] \in Amounts
  BY <1>1, <1>2, StructWireMaxIs DEF SizeCalls
<1>4. Costs(inner, s.payload, {}, Encoding) \in Seq(Amounts)
  BY <1>1, <1>3, CostsAre
<1> QED
  BY <1>2, <1>4, JoinIs DEF MessageSize

\* A schema has a derived size exactly if nothing reachable from its payload is
\* unbounded and none of the types there contain one another, whatever the sizes
\* are: structWireMax's onPath and its bounded result (wiresize.go) are right on
\* every graph of types, and SizePolicy.Resolve takes the ceiling for the rest.
THEOREM CeilingExact ==
    ASSUME SizesFit
    PROVE  SizeSpec => [](Sized => CeilingWithout)
<1>1. IInv => (Sized => CeilingWithout)
  <2> SUFFICES ASSUME IInv, Sized PROVE CeilingWithout
    OBVIOUS
  <2>1. message \in SizedSchemas /\ outcome = Verdict(policy.limit, MaxWireSize(message))
    BY DEF IInv, Sized
  <2>2. MaxWireSize(message) = Unbounded <=> ~ HasWorstCase(message)
    BY <2>1, SizeIs, Int64Is, WorstCaseIs DEF MaxWireSize
  <2> QED
    BY <2>1, <2>2, VerdictIs DEF CeilingWithout
<1> QED
  BY <1>1, IInvHolds, PTL

\* While the sizes stay in an int64, MAX_SIZE holds whatever the encoder writes,
\* and is reached where no array needs an index of two bytes (maxsize.go).
THEOREM MaxSizeHolds ==
    ASSUME SizesFit
    PROVE  SizeSpec => [](Fits(message, policy.caps) => NeverExceeded)
<1>1. IInv => (Fits(message, policy.caps) => NeverExceeded)
  <2> SUFFICES ASSUME IInv, Fits(message, policy.caps), outcome.verdict = "exact"
               PROVE  /\ Largest(message) <= outcome.size
                      /\ ShortArrays(message) => Largest(message) = outcome.size
    BY DEF NeverExceeded
  <2>1. message \in SizedSchemas /\ outcome = Verdict(policy.limit, MaxWireSize(message))
    BY DEF IInv, Pending
  <2>2. MaxWireSize(message) # Unbounded /\ outcome.size = MaxWireSize(message)
    BY <2>1, VerdictIs
  <2>3. MessageSize(message) # Unbounded
    BY <2>1, <2>2, SizeIs, Int64Is DEF MaxWireSize
  <2> QED
    BY <2>1, <2>2, <2>3, MessageHolds
<1> QED
  BY <1>1, IInvHolds, PTL

\* While the sizes stay in an int64, a size is derived exactly if there is one,
\* and a window of the decode span of a field holds it as a conformant peer
\* sends it (MaxFieldDecodeSpan).
THEOREM SpansBounded ==
    ASSUME SizesFit
    PROVE  SizeSpec => [](Fits(message, policy.caps) => BoundedWhenItIs)
<1>1. IInv => (Fits(message, policy.caps) => SpansHold)
  <2> SUFFICES ASSUME IInv, Fits(message, policy.caps), NEW i \in DOMAIN spans, spans[i] # Unbounded
               PROVE  FullField(message.types, message.payload[i], "values", policy.caps) <= spans[i]
    BY DEF SpansHold
  <2>1. message \in SizedSchemas /\ policy.caps \in AllCaps /\ DOMAIN message.payload = 1 .. Len(message.payload)
    BY SchemaIs, LenProperties DEF IInv, SizesFit, AllCaps
  <2>2. /\ i \in 1 .. Len(message.payload)
        /\ spans[i] = MaxFieldDecodeSpan(message.types, message.payload[i], policy.caps)
    BY <2>1 DEF IInv
  <2> QED
    BY <2>1, <2>2, SpanHolds
<1>2. SizeSpec => [](Sized => CeilingWithout)
  BY CeilingExact
<1>3. (Sized => CeilingWithout) /\ (Fits(message, policy.caps) => SpansHold) => (Fits(message, policy.caps) => BoundedWhenItIs)
  BY DEF BoundedWhenItIs
<1> QED
  BY <1>1, <1>2, <1>3, IInvHolds, PTL

=============================================================================
