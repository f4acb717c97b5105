--------------------------- MODULE IdScopesProofs ---------------------------
(***************************************************************************)
(* Proofs about IdScopes: for every document, and every order its scopes   *)
(* are walked in, the validation accepts exactly the valid ones, reports   *)
(* every duplicate of an id but one, and says the same again.              *)
(***************************************************************************)
EXTENDS IdScopes, OrdersProofs

-----------------------------------------------------------------------------
(* What is true of a walk at every step.                                   *)

\* What a document draws whatever the order of the walk: at the visit of a
\* field, and once its own fields are done.
NameSet(s) == {Error(f, "field", "fold", FirstOfFold(f)) : f \in {g \in Children(s) : FirstOfFold(g) # g}}

IdSet(f) ==
    (IF fields.id[f] = Missing THEN {Error(f, "field", "no id", Missing)} ELSE {})
    \cup (IF fields.id[f] = TooBig THEN {Error(f, "id", "range", Missing)} ELSE {})

KeySet(f) == {Error(f, "field", "extra key", k) : k \in fields.extra[f]}

TypeSet(f) ==
    IF fields.type[f] = "untyped" THEN {Error(f, "field", "no type", Missing)}
    ELSE KeySet(f) \cup NameSet(f)

Defaults(f) == fields.defaultId[f] = Missing \/ \E g \in Children(f) : fields.id[g] = fields.defaultId[f]

UnionSet(f) ==
    (IF fields.type[f] = "union" /\ Children(f) = {} THEN {Error(f, "oneof", "no option", Missing)} ELSE {})
    \cup (IF fields.type[f] = "union" /\ ~ Defaults(f)
          THEN {Error(f, "default_id", "no such option", Missing)} ELSE {})

SameId(f, g) == fields.parent[f] = fields.parent[g] /\ fields.id[f] = fields.id[g]

\* K has one field of each id of each scope, of the fields L.
Chosen(K, L) ==
    /\ K \subseteq L
    /\ \A g \in K : HasId(g)
    /\ \A g, h \in K : SameId(g, h) => g = h
    /\ \A f \in L : HasId(f) => \E g \in K : SameId(f, g)

\* Every other field of L with an id, blamed on the chosen one.
DuplicateSet(K, L) ==
    {Error(x[1], "id", "duplicate", x[2]) :
        x \in {y \in (L \ K) \X K : HasId(y[1]) /\ SameId(y[1], y[2])}}

Drawn(S, L) ==
    NameSet(Root) \cup (UNION {IdSet(f) \cup TypeSet(f) : f \in S}) \cup (UNION {UnionSet(f) : f \in L})

Below == DOMAIN fields.parent
OnPath == {open[i] : i \in 1 .. Len(open)}
Left == seen \ OnPath

\* The scopes being validated lead from the payload down to the last one.
PathInv ==
    /\ open \in Seq(Below \cup {Root})
    /\ Len(open) >= 1 /\ open[1] = Root
    /\ \A i \in 2 .. Len(open) : open[i] \in seen /\ fields.parent[open[i]] = open[i - 1]
    /\ \A i, j \in 1 .. Len(open) : open[i] = open[j] => i = j

\* Whatever is under a field that was left has been left.
SeenInv ==
    /\ seen \subseteq Below
    /\ \A f \in Left : Children(f) \subseteq Left

KeptInv == Chosen(kept, Left)
ErrsInv == Lists(errs, Drawn(seen, Left) \cup DuplicateSet(kept, Left))

\* r is what a whole validation gives, with one choice of fields.
Complete(r) == \E K \in SUBSET Below : Chosen(K, Below) /\ Lists(r, Drawn(Below, Below) \cup DuplicateSet(K, Below))

ReportInv ==
    /\ fields \in Trees
    /\ progress \in {"walk", "reported"}
    /\ Reported => /\ Left = Below /\ seen = Below
                   /\ Lists(report, Drawn(Below, Below) \cup DuplicateSet(kept, Below))
    /\ earlier # Never => Complete(earlier)

IInv == PathInv /\ SeenInv /\ KeptInv /\ ErrsInv /\ ReportInv

-----------------------------------------------------------------------------
(* What the pieces of the report list.                                     *)

LEMMA DocFacts ==
    ASSUME ConstantsFit, fields \in Trees
    PROVE  /\ IsDocument(fields)
           /\ Below \subseteq TreeFields /\ Root \notin Below /\ Root \notin TreeFields
           /\ IsFiniteSet(TreeFields) /\ IsFiniteSet(Below)
<1>1. IsDocument(fields)
  BY DEF ConstantsFit
<1>2. Below \subseteq TreeFields
  BY <1>1 DEF IsDocument, Below
<1>3. IsFiniteSet(TreeFields)
  BY ListsCount DEF ConstantsFit
<1>4. IsFiniteSet(Below)
  BY <1>2, <1>3, FS_Subset
<1> QED
  BY <1>1, <1>2, <1>3, <1>4 DEF ConstantsFit

LEMMA ErrorIs ==
    ASSUME NEW f, NEW part, NEW what, NEW other
    PROVE  /\ Error(f, part, what, other).at = <<f, part>>
           /\ Error(f, part, what, other).at[1] = f
           /\ Error(f, part, what, other).what = what
           /\ Error(f, part, what, other).other = other
  BY DEF Error

\* The order is one of the fields: every field is at one place of it.
LEMMA InOrderIs ==
    ASSUME ConstantsFit
    PROVE  /\ DOMAIN InOrder \subseteq Nat /\ IsFiniteSet(DOMAIN InOrder)
           /\ \A n \in DOMAIN InOrder : InOrder[n] \in TreeFields
           /\ \A f \in TreeFields : \E n \in DOMAIN InOrder : InOrder[n] = f
           /\ \A m, n \in DOMAIN InOrder : InOrder[m] = InOrder[n] => m = n
<1>1. Lists(InOrder, TreeFields)
  BY DEF ConstantsFit
<1>2. /\ Len(InOrder) \in Nat /\ DOMAIN InOrder = 1 .. Len(InOrder)
      /\ TreeFields = {InOrder[i] : i \in 1 .. Len(InOrder)}
  BY <1>1, ListsElements
<1>3. IsFiniteSet(1 .. Len(InOrder))
  BY <1>2, FS_Interval, SMTT(30)
<1> QED
  BY <1>1, <1>2, <1>3 DEF Lists

\* The first of its fold is a field of the same scope and fold, one for all of them.
LEMMA FirstOfFoldIs ==
    ASSUME ConstantsFit, fields \in Trees, NEW f \in Below
    PROVE  /\ FirstOfFold(f) \in Children(fields.parent[f])
           /\ fields.fold[FirstOfFold(f)] = fields.fold[f]
           /\ \A g \in Children(fields.parent[f]) :
                 fields.fold[g] = fields.fold[f] => FirstOfFold(g) = FirstOfFold(f)
<1> DEFINE same == {n \in DOMAIN InOrder : InOrder[n] \in Children(fields.parent[f])
                                           /\ fields.fold[InOrder[n]] = fields.fold[f]}
<1>1. f \in TreeFields /\ f \in Children(fields.parent[f])
  BY DocFacts DEF Children, Below
<1>2. PICK n \in DOMAIN InOrder : InOrder[n] = f
  BY <1>1, InOrderIs
<1>3. same \subseteq Nat /\ same # {}
  BY <1>1, <1>2, InOrderIs
<1>4. PICK m \in same : \A l \in same : m <= l
  BY <1>3, HasLowest
<1>5. (CHOOSE l \in same : \A k \in same : l <= k) \in same
  BY <1>4
<1>6. FirstOfFold(f) = InOrder[CHOOSE l \in same : \A k \in same : l <= k]
  BY DEF FirstOfFold
<1>7. ASSUME NEW g \in Children(fields.parent[f]), fields.fold[g] = fields.fold[f]
      PROVE  FirstOfFold(g) = FirstOfFold(f)
  <2>1. fields.parent[g] = fields.parent[f]
    BY DEF Children
  <2> QED
    BY <1>7, <2>1 DEF FirstOfFold
<1> QED
  BY <1>5, <1>6, <1>7

LEMMA FoldErrorsList ==
    ASSUME ConstantsFit, fields \in Trees, NEW s
    PROVE  Lists(FoldErrors(s), NameSet(s))
<1>0. PICK k, a, r : k = Cardinality(Later(s)) /\ a = Ascending(Later(s)) /\ r = FoldErrors(s)
  OBVIOUS
<1>1. Later(s) \subseteq Nat /\ IsFiniteSet(Later(s))
  <2>1. Later(s) \in SUBSET DOMAIN InOrder
    BY DEF Later
  <2> QED
    BY <2>1, InOrderIs, FS_Subset
<1>2. k \in Nat
  BY <1>0, <1>1, FS_CardinalityType
<1>3. a \in [1 .. k -> Later(s)] /\ Range(a) = Later(s) /\ \A i, j \in 1 .. k : i < j => a[i] < a[j]
  BY <1>0, <1>1, AscendingExists DEF IsAscending
<1>4. r = [i \in 1 .. k |-> Error(InOrder[a[i]], "field", "fold", FirstOfFold(InOrder[a[i]]))]
  BY <1>0 DEF FoldErrors
<1>5. \A i \in 1 .. k : r[i] \in NameSet(s)
  <2> SUFFICES ASSUME NEW i \in 1 .. k PROVE r[i] \in NameSet(s)
    OBVIOUS
  <2>1. a[i] \in Later(s)
    BY <1>3
  <2>2. InOrder[a[i]] \in Children(s) /\ FirstOfFold(InOrder[a[i]]) # InOrder[a[i]]
    BY <2>1 DEF Later
  <2> QED
    BY <1>4, <2>2 DEF NameSet
<1>6. r \in Seq(NameSet(s)) /\ Len(r) = k
  BY <1>2, <1>4, <1>5
<1>7. ASSUME NEW e \in NameSet(s) PROVE \E i \in 1 .. k : r[i] = e
  <2>1. PICK f \in Children(s) : FirstOfFold(f) # f /\ e = Error(f, "field", "fold", FirstOfFold(f))
    BY DEF NameSet
  <2>2. f \in TreeFields
    BY DocFacts DEF Children, Below
  <2>3. PICK n \in DOMAIN InOrder : InOrder[n] = f
    BY <2>2, InOrderIs
  <2>4. n \in Later(s)
    BY <2>1, <2>3 DEF Later
  <2>5. PICK i \in 1 .. k : a[i] = n
    BY <1>3, <2>4 DEF Range
  <2> QED
    BY <1>4, <2>1, <2>3, <2>5
<1>8. ASSUME NEW i \in 1 .. k, NEW j \in 1 .. k, r[i] = r[j] PROVE i = j
  <2>1. r[i].at[1] = InOrder[a[i]] /\ r[j].at[1] = InOrder[a[j]]
    BY <1>4, ErrorIs
  <2>2. a[i] \in DOMAIN InOrder /\ a[j] \in DOMAIN InOrder
    BY <1>3 DEF Later
  <2>3. a[i] = a[j]
    BY <1>8, <2>1, <2>2, InOrderIs
  <2>4. a[i] \in Nat
    BY <1>1, <1>3
  <2> QED
    BY <1>3, <2>3, <2>4
<1> QED
  BY <1>0, <1>6, <1>7, <1>8 DEF Lists

LEMMA IdErrorsList ==
    ASSUME ConstantsFit, NEW f
    PROVE  Lists(IdErrors(f), IdSet(f))
<1>0. Missing # TooBig
  BY DEF ConstantsFit
<1>1. CASE fields.id[f] = Missing
  <2>1. IdErrors(f) = <<Error(f, "field", "no id", Missing)>>
    BY <1>0, <1>1 DEF IdErrors
  <2>2. IdSet(f) = {Error(f, "field", "no id", Missing)}
    BY <1>0, <1>1 DEF IdSet
  <2> QED
    BY <2>1, <2>2, ListsOne
<1>2. CASE fields.id[f] = TooBig
  <2>1. IdErrors(f) = <<Error(f, "id", "range", Missing)>>
    BY <1>0, <1>2 DEF IdErrors
  <2>2. IdSet(f) = {Error(f, "id", "range", Missing)}
    BY <1>0, <1>2 DEF IdSet
  <2> QED
    BY <2>1, <2>2, ListsOne
<1>3. CASE HasId(f)
  <2>1. IdErrors(f) = << >>
    BY <1>3 DEF IdErrors, HasId
  <2>2. IdSet(f) = {}
    BY <1>3 DEF IdSet, HasId
  <2> QED
    BY <2>1, <2>2, ListsNothing
<1> QED
  BY <1>1, <1>2, <1>3 DEF HasId

LEMMA UnionErrorsList ==
    ASSUME NEW f
    PROVE  Lists(UnionErrors(f), UnionSet(f))
<1>1. PICK a, b : /\ a = Error(f, "oneof", "no option", Missing)
                  /\ b = Error(f, "default_id", "no such option", Missing)
  OBVIOUS
<1>2. a # b
  <2>1. a.what = "no option" /\ b.what = "no such option"
    BY <1>1 DEF Error
  <2> QED
    BY <2>1
<1>3. CASE fields.type[f] # "union"
  <2>1. UnionErrors(f) = << >> /\ UnionSet(f) = {}
    BY <1>3 DEF UnionErrors, UnionSet
  <2> QED
    BY <2>1, ListsNothing
<1>4. CASE fields.type[f] = "union"
  <2>0. PICK s, t, S, T :
           /\ s = IF Children(f) = {} THEN <<a>> ELSE << >>
           /\ t = IF Defaults(f) THEN << >> ELSE <<b>>
           /\ S = IF Children(f) = {} THEN {a} ELSE {}
           /\ T = IF Defaults(f) THEN {} ELSE {b}
    OBVIOUS
  <2>1. UnionErrors(f) = s \o t
    BY <1>1, <1>4, <2>0 DEF UnionErrors, Defaults
  <2>2. UnionSet(f) = S \cup T
    BY <1>1, <1>4, <2>0 DEF UnionSet
  <2>3. Lists(s, S) /\ Lists(t, T)
    BY <2>0, ListsOne, ListsNothing
  <2>4. S \cap T = {}
    BY <1>2, <2>0
  <2> QED
    BY <2>1, <2>2, <2>3, <2>4, ListsBoth
<1> QED
  BY <1>3, <1>4

LEMMA KeysList ==
    ASSUME NEW f, IsFiniteSet(fields.extra[f]), NEW keys \in ClosedErrors(f)
    PROVE  Lists(keys, KeySet(f))
<1>0. PICK E : E = fields.extra[f]
  OBVIOUS
<1>1. PICK order \in SetToSeqs(E) : keys = [i \in DOMAIN order |-> Error(f, "field", "extra key", order[i])]
  BY <1>0 DEF ClosedErrors
<1>2. PICK n \in Nat : n = Cardinality(E)
  BY <1>0, FS_CardinalityType
<1>3. order \in [1 .. n -> E] /\ \A i, j \in 1 .. n : i # j => order[i] # order[j]
  BY <1>2 DEF SetToSeqs
<1>4. order \in Injection(1 .. n, E)
  BY <1>3 DEF Injection, IsInjective
<1>5. order \in Surjection(1 .. n, E)
  <2>1. IsFiniteSet(1 .. n) /\ Cardinality(1 .. n) = n
    BY FS_Interval
  <2> QED
    BY <1>0, <1>2, <1>4, <2>1, FS_Injection
<1>6. \A e \in E : \E i \in 1 .. n : order[i] = e
  BY <1>5 DEF Surjection
<1>7. keys = [i \in 1 .. n |-> Error(f, "field", "extra key", order[i])]
  BY <1>1, <1>3
<1>8. \A i \in 1 .. n : keys[i] \in KeySet(f)
  BY <1>0, <1>3, <1>7 DEF KeySet
<1>9. keys \in Seq(KeySet(f)) /\ Len(keys) = n
  <2>1. DOMAIN keys = 1 .. n
    BY <1>7
  <2>2. keys \in [1 .. n -> KeySet(f)]
    BY <1>7, <1>8, <2>1
  <2> QED
    BY <1>2, <2>2
<1>10. ASSUME NEW e \in KeySet(f) PROVE \E i \in 1 .. n : keys[i] = e
  <2>1. PICK x \in E : e = Error(f, "field", "extra key", x)
    BY <1>0 DEF KeySet
  <2>2. PICK i \in 1 .. n : order[i] = x
    BY <1>6
  <2> QED
    BY <1>7, <2>1, <2>2
<1>11. ASSUME NEW i \in 1 .. n, NEW j \in 1 .. n, keys[i] = keys[j] PROVE i = j
  <2>1. keys[i].other = order[i] /\ keys[j].other = order[j]
    BY <1>7 DEF Error
  <2> QED
    BY <1>3, <1>11, <2>1
<1> QED
  BY <1>9, <1>10, <1>11 DEF Lists

-----------------------------------------------------------------------------
(* An error tells by its wording and place which piece it is of.           *)

LEMMA NameSetSays ==
    ASSUME NEW s, NEW e \in NameSet(s)
    PROVE  e.what = "fold" /\ e.at[1] \in Children(s) /\ e.at \in Children(s) \X {"field"}
<1>1. PICK f \in Children(s) : e = Error(f, "field", "fold", FirstOfFold(f))
  BY DEF NameSet
<1> QED
  BY <1>1, ErrorIs

LEMMA IdSetSays ==
    ASSUME NEW f, NEW e \in IdSet(f)
    PROVE  e.what \in {"no id", "range"} /\ e.at[1] = f /\ e.at \in {f} \X {"field", "id"}
<1>1. e = Error(f, "field", "no id", Missing) \/ e = Error(f, "id", "range", Missing)
  BY DEF IdSet
<1>2. CASE e = Error(f, "field", "no id", Missing)
  BY <1>2 DEF Error
<1>3. CASE e = Error(f, "id", "range", Missing)
  BY <1>3 DEF Error
<1> QED
  BY <1>1, <1>2, <1>3

LEMMA TypeSetSays ==
    ASSUME NEW f, NEW e \in TypeSet(f)
    PROVE  \/ e.what \in {"no type", "extra key"} /\ e.at[1] = f /\ e.at \in {f} \X {"field"}
           \/ e.what = "fold" /\ e.at[1] \in Children(f) /\ e.at \in Children(f) \X {"field"}
<1>1. CASE e = Error(f, "field", "no type", Missing)
  BY <1>1 DEF Error
<1>2. ASSUME NEW k, e = Error(f, "field", "extra key", k)
      PROVE  e.what \in {"no type", "extra key"} /\ e.at[1] = f /\ e.at \in {f} \X {"field"}
  BY <1>2 DEF Error
<1>3. CASE e \in NameSet(f)
  BY <1>3, NameSetSays
<1> QED
  BY <1>1, <1>2, <1>3 DEF TypeSet, KeySet

LEMMA UnionSetSays ==
    ASSUME NEW f, NEW e \in UnionSet(f)
    PROVE  e.what \in {"no option", "no such option"} /\ e.at[1] = f /\ e.at \in {f} \X {"oneof", "default_id"}
<1>1. \/ e = Error(f, "oneof", "no option", Missing)
      \/ e = Error(f, "default_id", "no such option", Missing)
  BY DEF UnionSet
<1>2. CASE e = Error(f, "oneof", "no option", Missing)
  BY <1>2 DEF Error
<1>3. CASE e = Error(f, "default_id", "no such option", Missing)
  BY <1>3 DEF Error
<1> QED
  BY <1>1, <1>2, <1>3

LEMMA DuplicateSetSays ==
    ASSUME NEW K, NEW L, NEW e
    PROVE  e \in DuplicateSet(K, L) <=>
               \E f \in L \ K : \E g \in K :
                   HasId(f) /\ SameId(f, g) /\ e = Error(f, "id", "duplicate", g)
<1>1. ASSUME NEW f \in L \ K, NEW g \in K, HasId(f), SameId(f, g), e = Error(f, "id", "duplicate", g)
      PROVE  e \in DuplicateSet(K, L)
  <2>1. <<f, g>> \in {y \in (L \ K) \X K : HasId(y[1]) /\ SameId(y[1], y[2])}
    BY <1>1
  <2> QED
    BY <1>1, <2>1 DEF DuplicateSet
<1>2. ASSUME e \in DuplicateSet(K, L)
      PROVE  \E f \in L \ K : \E g \in K :
                 HasId(f) /\ SameId(f, g) /\ e = Error(f, "id", "duplicate", g)
  <2>1. PICK x \in {y \in (L \ K) \X K : HasId(y[1]) /\ SameId(y[1], y[2])} :
                e = Error(x[1], "id", "duplicate", x[2])
    BY <1>2 DEF DuplicateSet
  <2> QED
    BY <2>1
<1> QED
  BY <1>1, <1>2

LEMMA TypeErrorsList ==
    ASSUME ConstantsFit, fields \in Trees, NEW f \in Below, NEW found \in TypeErrors(f)
    PROVE  Lists(found, TypeSet(f))
<1>1. CASE fields.type[f] = "untyped"
  <2>1. found = <<Error(f, "field", "no type", Missing)>> /\ TypeSet(f) = {Error(f, "field", "no type", Missing)}
    BY <1>1 DEF TypeErrors, TypeSet
  <2> QED
    BY <2>1, ListsOne
<1>2. CASE fields.type[f] # "untyped"
  <2>1. PICK keys \in ClosedErrors(f) : found = keys \o FoldErrors(f)
    BY <1>2 DEF TypeErrors
  <2>2. IsFiniteSet(fields.extra[f])
    BY DocFacts DEF IsDocument, Below
  <2>3. Lists(keys, KeySet(f)) /\ Lists(FoldErrors(f), NameSet(f))
    BY <2>2, KeysList, FoldErrorsList
  <2>4. KeySet(f) \cap NameSet(f) = {}
    <3> SUFFICES ASSUME NEW e \in KeySet(f), e \in NameSet(f) PROVE FALSE
      OBVIOUS
    <3>1. PICK k \in fields.extra[f] : e = Error(f, "field", "extra key", k)
      BY DEF KeySet
    <3>2. e.what = "extra key"
      BY <3>1 DEF Error
    <3>3. e.what = "fold"
      BY NameSetSays
    <3> QED
      BY <3>2, <3>3
  <2>5. TypeSet(f) = KeySet(f) \cup NameSet(f)
    BY <1>2 DEF TypeSet
  <2> QED
    BY <2>1, <2>3, <2>4, <2>5, ListsBoth
<1> QED
  BY <1>1, <1>2

-----------------------------------------------------------------------------
(* The path from the payload down to the scope being validated.            *)

LEMMA PathFacts ==
    ASSUME ConstantsFit, fields \in Trees, PathInv, SeenInv
    PROVE  /\ Len(open) \in Nat /\ Root \in OnPath
           /\ \A i \in 1 .. Len(open) : open[i] = Root <=> i = 1
           /\ \A x \in OnPath : x = Root \/ x \in seen
           /\ Left \subseteq Below /\ Root \notin seen
<1>1. Len(open) \in Nat /\ Len(open) >= 1 /\ open[1] = Root
  BY DEF PathInv
<1>2. Root \notin seen
  BY DocFacts DEF SeenInv
<1>3. \A i \in 1 .. Len(open) : i = 1 \/ i \in 2 .. Len(open)
  BY <1>1
<1>4. \A i \in 2 .. Len(open) : open[i] \in seen
  BY DEF PathInv
<1>5. \A i \in 1 .. Len(open) : open[i] = Root <=> i = 1
  BY <1>1, <1>2, <1>3, <1>4
<1>6. 1 \in 1 .. Len(open)
  BY <1>1
<1>7. \A x \in OnPath : x = Root \/ x \in seen
  BY <1>1, <1>3, <1>4 DEF OnPath
<1> QED
  BY <1>1, <1>2, <1>5, <1>6, <1>7 DEF OnPath, Left, SeenInv

LEMMA PathDeeper ==
    ASSUME ConstantsFit, fields \in Trees, PathInv, SeenInv, NEW f \in Below, f \notin seen,
           fields.parent[f] = Last(open), open' = Append(open, f), seen' = seen \cup {f}, fields' = fields
    PROVE  PathInv' /\ OnPath' = OnPath \cup {f} /\ f \notin OnPath
<1>0. PICK n, o, p : n = Len(open) /\ o = open' /\ p = open
  OBVIOUS
<1>1. n \in Nat /\ n >= 1 /\ p \in Seq(Below \cup {Root}) /\ n = Len(p) /\ f \in Below \cup {Root}
  BY <1>0 DEF PathInv
<1>2. f \notin OnPath
  BY DocFacts, PathFacts
<1>3. /\ o \in Seq(Below \cup {Root}) /\ Len(o) = n + 1
      /\ \A i \in 1 .. n : o[i] = p[i]
      /\ o[n + 1] = f
  <2>1. o = Append(p, f)
    BY <1>0
  <2> QED
    BY <1>1, <2>1, AppendProperties
<1>4. fields.parent[f] = p[n]
  BY <1>0 DEF Last
<1>5. ASSUME NEW i \in 2 .. n + 1 PROVE o[i] \in seen \cup {f} /\ fields.parent[o[i]] = o[i - 1]
  <2>1. CASE i = n + 1
    <3>1. i - 1 = n /\ n \in 1 .. n
      BY <1>1, <2>1
    <3> QED
      BY <1>3, <1>4, <2>1, <3>1
  <2>2. CASE i # n + 1
    <3>1. i \in 2 .. n /\ i \in 1 .. n /\ i - 1 \in 1 .. n
      BY <1>1, <2>2
    <3>2. p[i] \in seen /\ fields.parent[p[i]] = p[i - 1]
      BY <1>0, <3>1 DEF PathInv
    <3> QED
      BY <1>3, <3>1, <3>2
  <2> QED
    BY <2>1, <2>2
<1>6. \A i \in 1 .. n : p[i] # f
  BY <1>0, <1>2 DEF OnPath
<1>7. ASSUME NEW i \in 1 .. n + 1, NEW j \in 1 .. n + 1, o[i] = o[j] PROVE i = j
  <2>1. \A k \in 1 .. n + 1 : k \in 1 .. n \/ k = n + 1
    BY <1>1
  <2>2. CASE i \in 1 .. n /\ j \in 1 .. n
    BY <1>0, <1>3, <1>7, <2>2 DEF PathInv
  <2> QED
    BY <1>3, <1>6, <1>7, <2>1, <2>2
<1>8. {o[i] : i \in 1 .. n + 1} = OnPath \cup {f}
  <2>1. \A i \in 1 .. n + 1 : o[i] \in OnPath \cup {f}
    <3> SUFFICES ASSUME NEW i \in 1 .. n + 1 PROVE o[i] \in OnPath \cup {f}
      OBVIOUS
    <3>1. i \in 1 .. n \/ i = n + 1
      BY <1>1
    <3> QED
      BY <1>0, <1>3, <3>1 DEF OnPath
  <2>2. \A x \in OnPath \cup {f} : \E i \in 1 .. n + 1 : o[i] = x
    <3> SUFFICES ASSUME NEW x \in OnPath \cup {f} PROVE \E i \in 1 .. n + 1 : o[i] = x
      OBVIOUS
    <3>1. \A i \in 1 .. n : i \in 1 .. n + 1
      BY <1>1
    <3>2. n + 1 \in 1 .. n + 1
      BY <1>1
    <3> QED
      BY <1>0, <1>3, <3>1, <3>2 DEF OnPath
  <2> QED
    BY <2>1, <2>2
<1>9. OnPath' = OnPath \cup {f}
  <2>1. OnPath' = {o[i] : i \in 1 .. Len(o)}
    BY <1>0 DEF OnPath
  <2> QED
    BY <1>3, <1>8, <2>1
<1>10. PathInv'
  <2>1. Below' = Below
    BY DEF Below
  <2>2. Len(o) >= 1 /\ 1 \in 1 .. n
    BY <1>1, <1>3
  <2>3. o[1] = Root
    BY <1>0, <1>3, <2>2 DEF PathInv
  <2> QED
    BY <1>0, <1>3, <1>5, <1>7, <2>1, <2>2, <2>3 DEF PathInv
<1> QED
  BY <1>2, <1>9, <1>10

LEMMA PathBack ==
    ASSUME ConstantsFit, fields \in Trees, PathInv, SeenInv, NEW f, f = Last(open), f # Root,
           open' = Front(open), seen' = seen, fields' = fields
    PROVE  PathInv' /\ OnPath' = OnPath \ {f} /\ f \in OnPath
<1>0. PICK n, o, p : n = Len(open) /\ o = open' /\ p = open
  OBVIOUS
<1>1. n \in Nat /\ n >= 1 /\ p \in Seq(Below \cup {Root}) /\ n = Len(p) /\ p[1] = Root
  BY <1>0 DEF PathInv
<1>2. p[n] = f /\ n \in 1 .. n
  BY <1>0, <1>1 DEF Last
<1>3. n >= 2
  BY <1>1, <1>2
<1>4. /\ o \in Seq(Below \cup {Root}) /\ Len(o) = n - 1
      /\ \A i \in 1 .. n - 1 : o[i] = p[i]
  <2>1. o = SubSeq(p, 1, n - 1)
    BY <1>0 DEF Front
  <2>2. n - 1 \in Int /\ n - 1 >= 1 /\ 1 \in Int
    BY <1>3, <1>1
  <2>3. \A i \in 1 .. n - 1 : p[i] \in Below \cup {Root}
    <3>1. \A i \in 1 .. n - 1 : i \in 1 .. n
      BY <1>1
    <3>2. \A i \in 1 .. n : p[i] \in Below \cup {Root}
      BY <1>1, ElementOfSeq
    <3> QED
      BY <3>1, <3>2
  <2>4. /\ o \in Seq(Below \cup {Root})
        /\ Len(o) = IF 1 <= n - 1 THEN (n - 1) - 1 + 1 ELSE 0
        /\ \A i \in 1 .. (n - 1) - 1 + 1 : o[i] = p[1 + i - 1]
    BY <2>1, <2>2, <2>3, SubSeqProperties
  <2>5. (IF 1 <= n - 1 THEN (n - 1) - 1 + 1 ELSE 0) = n - 1
    BY <2>2
  <2>6. \A i \in 1 .. n - 1 : i \in 1 .. (n - 1) - 1 + 1 /\ 1 + i - 1 = i
    BY <2>2
  <2>7. ASSUME NEW i \in 1 .. n - 1 PROVE o[i] = p[i]
    <3>1. i \in 1 .. (n - 1) - 1 + 1 /\ 1 + i - 1 = i
      BY <2>6
    <3> QED
      BY <2>4, <3>1, Zenon
  <2> QED
    BY <2>4, <2>5, <2>7
<1>5. \A i \in 1 .. n - 1 : i \in 1 .. n /\ i # n
  BY <1>1
<1>6. \A i \in 1 .. n - 1 : o[i] # f
  <2>1. \A i, j \in 1 .. n : p[i] = p[j] => i = j
    BY <1>0 DEF PathInv
  <2> QED
    BY <1>2, <1>4, <1>5, <2>1
<1>7. {o[i] : i \in 1 .. n - 1} = OnPath \ {f}
  <2>1. \A i \in 1 .. n - 1 : o[i] \in OnPath \ {f}
    BY <1>0, <1>4, <1>5, <1>6 DEF OnPath
  <2>2. \A x \in OnPath \ {f} : \E i \in 1 .. n - 1 : o[i] = x
    <3> SUFFICES ASSUME NEW x \in OnPath \ {f} PROVE \E i \in 1 .. n - 1 : o[i] = x
      OBVIOUS
    <3>1. PICK i \in 1 .. n : p[i] = x
      BY <1>0 DEF OnPath
    <3>2. i \in 1 .. n - 1
      BY <1>1, <1>2, <3>1
    <3> QED
      BY <1>4, <3>1, <3>2
  <2> QED
    BY <2>1, <2>2
<1>8. OnPath' = OnPath \ {f}
  <2>1. OnPath' = {o[i] : i \in 1 .. Len(o)}
    BY <1>0 DEF OnPath
  <2> QED
    BY <1>4, <1>7, <2>1
<1>9. ASSUME NEW i \in 2 .. n - 1 PROVE o[i] \in seen /\ fields.parent[o[i]] = o[i - 1]
  <2>1. i \in 2 .. n /\ i \in 1 .. n - 1 /\ i - 1 \in 1 .. n - 1
    BY <1>1
  <2>2. p[i] \in seen /\ fields.parent[p[i]] = p[i - 1]
    BY <1>0, <2>1 DEF PathInv
  <2> QED
    BY <1>4, <2>1, <2>2
<1>10. ASSUME NEW i \in 1 .. n - 1, NEW j \in 1 .. n - 1, o[i] = o[j] PROVE i = j
  BY <1>0, <1>4, <1>5, <1>10 DEF PathInv
<1>11. PathInv'
  <2>1. Below' = Below
    BY DEF Below
  <2>2. n - 1 >= 1 /\ 1 \in 1 .. n - 1
    BY <1>1, <1>3
  <2>3. o[1] = Root
    BY <1>1, <1>4, <2>2
  <2>4. /\ Len(o) = n - 1 /\ Len(o) >= 1
        /\ \A i \in 2 .. Len(o) : o[i] \in seen /\ fields.parent[o[i]] = o[i - 1]
        /\ \A i, j \in 1 .. Len(o) : o[i] = o[j] => i = j
    BY <1>4, <1>9, <1>10, <2>2
  <2> QED
    BY <1>0, <1>4, <2>1, <2>3, <2>4 DEF PathInv
<1>12. f \in OnPath
  <2>1. OnPath = {p[i] : i \in 1 .. n}
    BY <1>0 DEF OnPath
  <2> QED
    BY <1>2, <2>1
<1> QED
  BY <1>8, <1>11, <1>12

-----------------------------------------------------------------------------
(* The steps.  The document never changes, and what it draws with it.      *)

LEMMA SamePieces ==
    ASSUME fields' = fields
    PROVE  /\ Below' = Below
           /\ \A s : Children(s)' = Children(s)
           /\ \A S, L : Drawn(S, L)' = Drawn(S, L)
           /\ \A K, L : Chosen(K, L)' = Chosen(K, L)
           /\ \A K, L : DuplicateSet(K, L)' = DuplicateSet(K, L)
<1>1. \A s : Children(s)' = Children(s)
  BY DEF Children
<1>2. \A f : FirstOfFold(f)' = FirstOfFold(f)
  BY DEF FirstOfFold, Children
<1>3. \A s : NameSet(s)' = NameSet(s)
  BY <1>1, <1>2 DEF NameSet, Error
<1>4. \A f : IdSet(f)' = IdSet(f)
  BY DEF IdSet, Error
<1>5. \A f : TypeSet(f)' = TypeSet(f)
  BY <1>3 DEF TypeSet, KeySet, Error
<1>6. \A f : UnionSet(f)' = UnionSet(f)
  BY DEF UnionSet, Defaults, Children, Error
<1>7. \A S, L : Drawn(S, L)' = Drawn(S, L)
  BY <1>3, <1>4, <1>5, <1>6 DEF Drawn
<1>8. \A K, L : Chosen(K, L)' = Chosen(K, L)
  BY DEF Chosen, HasId, SameId
<1>9. \A K, L : DuplicateSet(K, L)' = DuplicateSet(K, L)
  BY DEF DuplicateSet, HasId, SameId, Error
<1>10. Below' = Below
  BY DEF Below
<1> QED
  BY <1>1, <1>7, <1>8, <1>9, <1>10

LEMMA DrawnSays ==
    ASSUME NEW S, NEW L, NEW e \in Drawn(S, L)
    PROVE  \/ e.what \in {"no id", "range", "no type", "extra key"} /\ e.at[1] \in S
           \/ /\ e.what = "fold" /\ e.at[1] \in Below
              /\ fields.parent[e.at[1]] = Root \/ fields.parent[e.at[1]] \in S
           \/ e.what \in {"no option", "no such option"} /\ e.at[1] \in L
<1>1. CASE e \in NameSet(Root)
  BY <1>1, NameSetSays DEF Children, Below
<1>2. ASSUME NEW f \in S, e \in IdSet(f)
      PROVE  e.what \in {"no id", "range", "no type", "extra key"} /\ e.at[1] \in S
  BY <1>2, IdSetSays
<1>3. ASSUME NEW f \in S, e \in TypeSet(f)
      PROVE  \/ e.what \in {"no id", "range", "no type", "extra key"} /\ e.at[1] \in S
             \/ e.what = "fold" /\ e.at[1] \in Below /\ fields.parent[e.at[1]] \in S
  <2>1. \/ e.what \in {"no type", "extra key"} /\ e.at[1] = f
        \/ e.what = "fold" /\ e.at[1] \in Children(f)
    BY <1>3, TypeSetSays
  <2> QED
    BY <2>1 DEF Children, Below
<1>4. ASSUME NEW f \in L, e \in UnionSet(f)
      PROVE  e.what \in {"no option", "no such option"} /\ e.at[1] \in L
  BY <1>4, UnionSetSays
<1>5. \/ e \in NameSet(Root)
      \/ \E f \in S : e \in IdSet(f) \/ e \in TypeSet(f)
      \/ \E f \in L : e \in UnionSet(f)
  BY DEF Drawn
<1> QED
  BY <1>1, <1>2, <1>3, <1>4, <1>5

LEMMA DuplicateSays ==
    ASSUME NEW K, NEW L, NEW e \in DuplicateSet(K, L)
    PROVE  e.what = "duplicate" /\ e.at[1] \in L \ K /\ e.other \in K
<1>1. PICK f \in L \ K, g \in K : e = Error(f, "id", "duplicate", g)
  BY DuplicateSetSays
<1> QED
  BY <1>1 DEF Error

LEMMA WalkInv ==
    ASSUME fields' = fields, NEW S, NEW L, NEW K, NEW E, S = seen', L = Left', K = kept', E = errs',
           S \subseteq Below, \A f \in L : Children(f) \subseteq L, Chosen(K, L),
           Lists(E, Drawn(S, L) \cup DuplicateSet(K, L))
    PROVE  SeenInv' /\ KeptInv' /\ ErrsInv'
<1>1. SeenInv'
  BY SamePieces DEF SeenInv
<1>2. KeptInv'
  <2>1. Chosen(K, L)'
    BY SamePieces
  <2> QED
    BY <2>1 DEF KeptInv
<1>3. ErrsInv'
  <2>1. Drawn(S, L)' = Drawn(S, L) /\ DuplicateSet(K, L)' = DuplicateSet(K, L)
    BY SamePieces
  <2>2. Lists(E, Drawn(S, L)' \cup DuplicateSet(K, L)')
    BY <2>1
  <2> QED
    BY <2>2 DEF ErrsInv
<1> QED
  BY <1>1, <1>2, <1>3

LEMMA WalkReport ==
    ASSUME ReportInv, progress = "walk", fields' = fields, earlier' = earlier, progress' = "walk"
    PROVE  ReportInv'
<1>1. (earlier # Never => Complete(earlier))'
  <2>1. \A r : Complete(r)' <=> Complete(r)
    BY SamePieces DEF Complete
  <2> QED
    BY <2>1 DEF ReportInv
<1> QED
  BY <1>1 DEF ReportInv, Reported

LEMMA VisitStep ==
    ASSUME ConstantsFit, IInv, NEW f, Visit(f)
    PROVE  IInv'
<1>1. /\ progress = "walk" /\ f \in Children(Last(open)) /\ f \notin seen
      /\ open' = Append(open, f) /\ seen' = seen \cup {f} /\ kept' = kept
      /\ fields' = fields /\ earlier' = earlier /\ progress' = "walk" /\ fields \in Trees
  BY DEF Visit, IInv, ReportInv
<1>2. PICK found \in TypeErrors(f) : errs' = errs \o IdErrors(f) \o found
  BY DEF Visit
<1>3. f \in Below /\ fields.parent[f] = Last(open) /\ f # Root
  BY <1>1, DocFacts DEF Children, Below
<1>4. PathInv' /\ OnPath' = OnPath \cup {f} /\ f \notin OnPath
  BY <1>1, <1>3, PathDeeper DEF IInv
<1>5. Left' = Left /\ Left \subseteq seen
  BY <1>1, <1>4 DEF Left
<1>6. PICK X, I, T, D : X = Drawn(seen, Left) \cup D /\ I = IdSet(f) /\ T = TypeSet(f) /\ D = DuplicateSet(kept, Left)
  OBVIOUS
<1>7. Lists(errs, X)
  BY <1>6 DEF IInv, ErrsInv
<1>8. ASSUME NEW e \in X
      PROVE  \/ e.at[1] # f /\ e.what # "fold"
             \/ e.what = "fold" /\ fields.parent[e.at[1]] # f
  <2>1. CASE e \in D
    <3>1. e.what = "duplicate" /\ e.at[1] \in Left
      BY <1>6, <2>1, DuplicateSays
    <3> QED
      BY <1>1, <1>5, <3>1
  <2>2. CASE e \in Drawn(seen, Left)
    <3>1. \/ e.what \in {"no id", "range", "no type", "extra key"} /\ e.at[1] \in seen
          \/ e.what = "fold" /\ (fields.parent[e.at[1]] = Root \/ fields.parent[e.at[1]] \in seen)
          \/ e.what \in {"no option", "no such option"} /\ e.at[1] \in Left
      BY <2>2, DrawnSays
    <3> QED
      BY <1>1, <1>3, <1>5, <3>1
  <2> QED
    BY <1>6, <2>1, <2>2
<1>9. \A e \in I : e.what \in {"no id", "range"} /\ e.at[1] = f
  BY <1>6, IdSetSays
<1>10. \A e \in T : \/ e.what \in {"no type", "extra key"} /\ e.at[1] = f
                    \/ e.what = "fold" /\ fields.parent[e.at[1]] = f
  BY <1>6, TypeSetSays DEF Children
<1>11. X \cap I = {} /\ (X \cup I) \cap T = {}
  BY <1>8, <1>9, <1>10
<1>12. Lists(errs', (X \cup I) \cup T)
  <2>1. Lists(IdErrors(f), I) /\ Lists(found, T)
    BY <1>1, <1>3, <1>6, IdErrorsList, TypeErrorsList
  <2>2. Lists(errs \o IdErrors(f), X \cup I)
    BY <1>7, <1>11, <2>1, ListsBoth
  <2> QED
    BY <1>2, <1>11, <2>1, <2>2, ListsBoth
<1>13. (X \cup I) \cup T = Drawn(seen \cup {f}, Left) \cup DuplicateSet(kept, Left)
  BY <1>6 DEF Drawn
<1>14. SeenInv' /\ KeptInv' /\ ErrsInv'
  <2>1. seen \cup {f} \subseteq Below /\ (\A g \in Left : Children(g) \subseteq Left) /\ Chosen(kept, Left)
    BY <1>3 DEF IInv, SeenInv, KeptInv
  <2> QED
    BY <1>1, <1>5, <1>12, <1>13, <2>1, WalkInv
<1>15. ReportInv'
  BY <1>1, WalkReport DEF IInv
<1> QED
  BY <1>4, <1>14, <1>15 DEF IInv

\* Leaving a field: it and whatever is under it have been left.
LEMMA LeavingFacts ==
    ASSUME ConstantsFit, IInv, NEW f, Leaving(f), open' = Front(open), seen' = seen, fields' = fields
    PROVE  /\ f \in Below /\ f \in seen /\ f \notin Left
           /\ PathInv' /\ Left' = Left \cup {f}
           /\ \A g \in Left \cup {f} : Children(g) \subseteq Left \cup {f}
<1>0. fields \in Trees /\ PathInv /\ SeenInv /\ f = Last(open) /\ f # Root /\ Children(f) \subseteq seen
  BY DEF IInv, ReportInv, Leaving
<1>1. PathInv' /\ OnPath' = OnPath \ {f} /\ f \in OnPath
  BY <1>0, PathBack
<1>2. f \in seen /\ f \in Below /\ f \notin Left
  BY <1>0, <1>1, PathFacts DEF SeenInv, Left
<1>3. Left' = Left \cup {f}
  BY <1>1, <1>2 DEF Left
<1>a. PICK n \in Nat : n = Len(open)
  BY <1>0, PathFacts
<1>b. PICK p : p = open
  OBVIOUS
<1>4. n = Len(open) /\ p = open
  BY <1>a, <1>b
<1>5. ASSUME NEW g \in Children(f) PROVE g \in Left
  <2>1. SUFFICES ASSUME g \in OnPath PROVE FALSE
    BY <1>0 DEF Left
  <2>2. PICK i \in 1 .. n : p[i] = g
    BY <1>4, <2>1 DEF OnPath
  <2>3. fields.parent[g] = f /\ g # Root
    BY <1>0, DocFacts DEF Children, Below
  <2>4. i # 1
    BY <1>0, <1>4, <2>2, <2>3, PathFacts
  <2>5. i \in 2 .. n /\ i - 1 \in 1 .. n /\ n \in 1 .. n
    BY <2>4
  <2>6. p[i - 1] = f
    BY <1>0, <1>4, <2>2, <2>3, <2>5 DEF PathInv
  <2>7. p[n] = f
    BY <1>0, <1>4 DEF Last
  <2>8. i - 1 = n
    BY <1>0, <1>4, <2>5, <2>6, <2>7 DEF PathInv
  <2> QED
    BY <2>8
<1>6. \A g \in Left : Children(g) \subseteq Left
  BY <1>0 DEF SeenInv
<1> QED
  BY <1>1, <1>2, <1>3, <1>5, <1>6

\* What checkUnionField reports is new.
LEMMA LeavingErrors ==
    ASSUME ConstantsFit, IInv, NEW f \in Below, f \notin Left
    PROVE  Lists(errs \o UnionErrors(f), Drawn(seen, Left \cup {f}) \cup DuplicateSet(kept, Left))
<1>1. PICK X, U, D : X = Drawn(seen, Left) \cup D /\ U = UnionSet(f) /\ D = DuplicateSet(kept, Left)
  OBVIOUS
<1>2. Lists(errs, X)
  BY <1>1 DEF IInv, ErrsInv
<1>3. Lists(UnionErrors(f), U)
  BY <1>1, UnionErrorsList
<1>4. X \cap U = {}
  <2> SUFFICES ASSUME NEW e \in X, e \in U PROVE FALSE
    OBVIOUS
  <2>1. e.what \in {"no option", "no such option"} /\ e.at[1] = f
    BY <1>1, UnionSetSays
  <2>2. CASE e \in D
    BY <1>1, <2>1, <2>2, DuplicateSays
  <2>3. CASE e \in Drawn(seen, Left)
    <3>1. \/ e.what \in {"no id", "range", "no type", "extra key"}
          \/ e.what = "fold"
          \/ e.at[1] \in Left
      BY <2>3, DrawnSays
    <3> QED
      BY <2>1, <3>1
  <2> QED
    BY <1>1, <2>2, <2>3
<1>5. Lists(errs \o UnionErrors(f), X \cup U)
  BY <1>2, <1>3, <1>4, ListsBoth
<1>6. X \cup U = Drawn(seen, Left \cup {f}) \cup DuplicateSet(kept, Left)
  BY <1>1 DEF Drawn
<1> QED
  BY <1>5, <1>6

LEMMA LeaveWithoutIdStep ==
    ASSUME ConstantsFit, IInv, NEW f, LeaveWithoutId(f)
    PROVE  IInv'
<1>1. /\ Leaving(f) /\ ~ HasId(f) /\ errs' = errs \o UnionErrors(f) /\ open' = Front(open)
      /\ fields' = fields /\ seen' = seen /\ kept' = kept /\ earlier' = earlier /\ progress' = progress /\ progress = "walk"
  BY DEF LeaveWithoutId, Leaving
<1>2. /\ f \in Below /\ f \notin Left /\ PathInv' /\ Left' = Left \cup {f}
      /\ \A g \in Left \cup {f} : Children(g) \subseteq Left \cup {f}
  BY <1>1, LeavingFacts
<1>3. Chosen(kept, Left \cup {f})
  BY <1>1 DEF IInv, KeptInv, Chosen
<1>4. DuplicateSet(kept, Left \cup {f}) = DuplicateSet(kept, Left)
  <2>1. \A g : HasId(g) => (g \in (Left \cup {f}) \ kept <=> g \in Left \ kept)
    BY <1>1
  <2>2. \A e : e \in DuplicateSet(kept, Left \cup {f}) <=> e \in DuplicateSet(kept, Left)
    BY <2>1, DuplicateSetSays
  <2> QED
    BY <2>2
<1>5. Lists(errs', Drawn(seen, Left \cup {f}) \cup DuplicateSet(kept, Left \cup {f}))
  BY <1>1, <1>2, <1>4, LeavingErrors
<1>6. SeenInv' /\ KeptInv' /\ ErrsInv'
  BY <1>1, <1>2, <1>3, <1>5, WalkInv DEF IInv, SeenInv
<1>7. ReportInv'
  BY <1>1, WalkReport DEF IInv
<1> QED
  BY <1>2, <1>6, <1>7 DEF IInv

\* The first of an id is blamed on nobody, and nobody is yet blamed on it.
LEMMA KeepIdStep ==
    ASSUME ConstantsFit, IInv, NEW f, KeepId(f)
    PROVE  IInv'
<1>1. /\ Leaving(f) /\ HasId(f) /\ Holder(f) = {} /\ kept' = kept \cup {f}
      /\ errs' = errs \o UnionErrors(f) /\ open' = Front(open)
      /\ fields' = fields /\ seen' = seen /\ earlier' = earlier /\ progress' = progress /\ progress = "walk"
  BY DEF KeepId, Leaving
<1>2. /\ f \in Below /\ f \notin Left /\ PathInv' /\ Left' = Left \cup {f}
      /\ \A g \in Left \cup {f} : Children(g) \subseteq Left \cup {f}
  BY <1>1, LeavingFacts
<1>3. Chosen(kept, Left)
  BY DEF IInv, KeptInv
<1>4. \A g \in kept : ~ SameId(g, f) /\ ~ SameId(f, g)
  BY <1>1 DEF Holder, SameId
<1>5. Chosen(kept \cup {f}, Left \cup {f})
  <2>1. SameId(f, f) /\ \A g, h \in {f} : SameId(g, h) => g = h
    BY DEF SameId
  <2> QED
    BY <1>1, <1>3, <1>4, <2>1 DEF Chosen
<1>6. \A g \in Left : HasId(g) => ~ SameId(g, f)
  <2> SUFFICES ASSUME NEW g \in Left, HasId(g), SameId(g, f) PROVE FALSE
    OBVIOUS
  <2>1. PICK h \in kept : SameId(g, h)
    BY <1>3 DEF Chosen
  <2>2. SameId(h, f)
    BY <2>1 DEF SameId
  <2> QED
    BY <1>4, <2>2
<1>7. DuplicateSet(kept \cup {f}, Left \cup {f}) = DuplicateSet(kept, Left)
  <2>1. (Left \cup {f}) \ (kept \cup {f}) = Left \ kept
    BY <1>2
  <2>2. \A g \in Left \ kept : HasId(g) => \A h : h \in kept \cup {f} /\ SameId(g, h) <=> h \in kept /\ SameId(g, h)
    BY <1>6
  <2>3. \A e : e \in DuplicateSet(kept \cup {f}, Left \cup {f}) <=> e \in DuplicateSet(kept, Left)
    BY <2>1, <2>2, DuplicateSetSays
  <2> QED
    BY <2>3
<1>8. Lists(errs', Drawn(seen, Left \cup {f}) \cup DuplicateSet(kept \cup {f}, Left \cup {f}))
  BY <1>1, <1>2, <1>7, LeavingErrors
<1>9. SeenInv' /\ KeptInv' /\ ErrsInv'
  BY <1>1, <1>2, <1>5, <1>8, WalkInv DEF IInv, SeenInv
<1>10. ReportInv'
  BY <1>1, WalkReport DEF IInv
<1> QED
  BY <1>2, <1>9, <1>10 DEF IInv

LEMMA DuplicateStep ==
    ASSUME ConstantsFit, IInv, NEW f, Duplicate(f)
    PROVE  IInv'
<1>1. PICK g \in Holder(f) : errs' = errs \o UnionErrors(f) \o <<Error(f, "id", "duplicate", g)>>
  BY DEF Duplicate
<1>2. /\ Leaving(f) /\ HasId(f) /\ open' = Front(open) /\ kept' = kept
      /\ fields' = fields /\ seen' = seen /\ earlier' = earlier /\ progress' = progress /\ progress = "walk"
  BY DEF Duplicate, Leaving
<1>3. /\ f \in Below /\ f \notin Left /\ PathInv' /\ Left' = Left \cup {f}
      /\ \A h \in Left \cup {f} : Children(h) \subseteq Left \cup {f}
  BY <1>2, LeavingFacts
<1>4. Chosen(kept, Left) /\ kept \subseteq Left
  BY DEF IInv, KeptInv, Chosen
<1>5. g \in kept /\ SameId(f, g)
  BY <1>1 DEF Holder, SameId
<1>6. Chosen(kept, Left \cup {f})
  BY <1>2, <1>4, <1>5 DEF Chosen
<1>7. PICK d : d = Error(f, "id", "duplicate", g)
  OBVIOUS
<1>8. \A h \in kept : SameId(f, h) => h = g
  <2> SUFFICES ASSUME NEW h \in kept, SameId(f, h) PROVE h = g
    OBVIOUS
  <2>1. SameId(h, g)
    BY <1>5 DEF SameId
  <2> QED
    BY <1>4, <1>5, <2>1 DEF Chosen
<1>9. DuplicateSet(kept, Left \cup {f}) = DuplicateSet(kept, Left) \cup {d}
  <2>1. (Left \cup {f}) \ kept = (Left \ kept) \cup {f}
    BY <1>3, <1>4
  <2>2. \A e : e \in DuplicateSet(kept, Left \cup {f}) <=> e \in DuplicateSet(kept, Left) \/ e = d
    BY <1>2, <1>5, <1>7, <1>8, <2>1, DuplicateSetSays
  <2> QED
    BY <2>2
<1>10. PICK X : X = Drawn(seen, Left \cup {f}) \cup DuplicateSet(kept, Left)
  OBVIOUS
<1>11. Lists(errs \o UnionErrors(f), X) /\ Lists(<<d>>, {d})
  BY <1>3, <1>10, LeavingErrors, ListsOne
<1>12. X \cap {d} = {}
  <2> SUFFICES ASSUME d \in X PROVE FALSE
    OBVIOUS
  <2>1. d.what = "duplicate" /\ d.at[1] = f
    BY <1>7 DEF Error
  <2>2. CASE d \in DuplicateSet(kept, Left)
    BY <1>3, <2>1, <2>2, DuplicateSays
  <2>3. CASE d \in Drawn(seen, Left \cup {f})
    <3>1. d.what \in {"no id", "range", "no type", "extra key", "fold", "no option", "no such option"}
      BY <2>3, DrawnSays
    <3> QED
      BY <2>1, <3>1
  <2> QED
    BY <1>10, <2>2, <2>3
<1>13. Lists(errs', X \cup {d})
  BY <1>1, <1>7, <1>11, <1>12, ListsBoth
<1>14. Lists(errs', Drawn(seen, Left \cup {f}) \cup DuplicateSet(kept, Left \cup {f}))
  <2>1. X \cup {d} = Drawn(seen, Left \cup {f}) \cup DuplicateSet(kept, Left \cup {f})
    BY <1>9, <1>10
  <2> QED
    BY <1>13, <2>1
<1>15. SeenInv' /\ KeptInv' /\ ErrsInv'
  BY <1>2, <1>3, <1>6, <1>14, WalkInv DEF IInv, SeenInv
<1>16. ReportInv'
  BY <1>2, WalkReport DEF IInv
<1> QED
  BY <1>3, <1>15, <1>16 DEF IInv

-----------------------------------------------------------------------------
(* The start of a validation, its end, and the next one.                   *)

LEMMA NothingYet ==
    /\ Drawn({}, {}) = NameSet(Root)
    /\ DuplicateSet({}, {}) = {}
    /\ Chosen({}, {})
  BY DEF Drawn, DuplicateSet, Chosen

LEMMA PathStart ==
    ASSUME NEW p, p = <<Root>>, NEW B
    PROVE  /\ p \in Seq(B \cup {Root}) /\ Len(p) = 1 /\ p[1] = Root
           /\ {p[i] : i \in 1 .. Len(p)} = {Root}
           /\ 2 .. Len(p) = {}
           /\ \A i, j \in 1 .. Len(p) : p[i] = p[j] => i = j
  OBVIOUS

LEMMA IInvInit ==
    ASSUME ConstantsFit, ScopesInit
    PROVE  IInv
<1>1. /\ fields \in Trees /\ open = <<Root>> /\ seen = {} /\ kept = {} /\ errs = FoldErrors(Root)
      /\ earlier = Never /\ progress = "walk"
  BY DEF ScopesInit
<1>2. PathInv
  BY <1>1, PathStart DEF PathInv
<1>3. Left = {}
  BY <1>1 DEF Left
<1>4. SeenInv /\ KeptInv
  BY <1>1, <1>3, NothingYet DEF SeenInv, KeptInv
<1>5. ErrsInv
  <2>1. Lists(FoldErrors(Root), NameSet(Root))
    BY <1>1, FoldErrorsList
  <2>2. Drawn(seen, Left) \cup DuplicateSet(kept, Left) = NameSet(Root)
    BY <1>1, <1>3, NothingYet
  <2> QED
    BY <1>1, <2>1, <2>2 DEF ErrsInv
<1>6. ReportInv
  BY <1>1 DEF ReportInv, Reported
<1> QED
  BY <1>2, <1>4, <1>5, <1>6 DEF IInv

\* Nothing of the document is out of reach of the walk.
LEMMA AllVisited ==
    ASSUME ConstantsFit, IInv, open = <<Root>>, Children(Root) \subseteq seen
    PROVE  seen = Below /\ Left = Below
<1>0. fields \in Trees /\ SeenInv /\ PathInv
  BY DEF IInv, ReportInv
<1>1. OnPath = {Root}
  BY PathStart DEF OnPath
<1>2. Left = seen
  BY <1>0, <1>1, PathFacts DEF Left
<1>3. seen \subseteq Below
  BY <1>0 DEF SeenInv
<1>4. ASSUME Below \ seen # {} PROVE FALSE
  <2>1. PICK f \in Below \ seen : fields.parent[f] \notin Below \ seen
    BY <1>0, <1>4, DocFacts DEF IsDocument, Below
  <2>2. f \in Children(fields.parent[f])
    BY <2>1 DEF Children, Below
  <2>3. fields.parent[f] # Root
    BY <2>1, <2>2
  <2>4. fields.parent[f] \in Below
    BY <1>0, <2>1, <2>3, DocFacts DEF IsDocument, Below
  <2>5. fields.parent[f] \in Left
    BY <1>2, <2>1, <2>4
  <2>6. f \in Left
    BY <1>0, <2>2, <2>5 DEF SeenInv
  <2> QED
    BY <1>2, <2>1, <2>6
<1> QED
  BY <1>2, <1>3, <1>4

\* Every error is at one of the locations.
LEMMA HasPlace ==
    ASSUME ConstantsFit, fields \in Trees, NEW K,
           NEW e \in Drawn(Below, Below) \cup DuplicateSet(K, Below)
    PROVE  PlaceOf(e.at) \in Nat
<1>1. e.at \in TreeFields \X {"field", "id", "default_id", "oneof"}
  <2>0. Below \subseteq TreeFields /\ \A s : Children(s) \subseteq TreeFields
    BY DocFacts DEF Children, Below
  <2>1. CASE e \in NameSet(Root)
    <3>1. e.at \in Children(Root) \X {"field"}
      BY <2>1, NameSetSays
    <3> QED
      BY <2>0, <3>1
  <2>2. ASSUME NEW f \in Below, e \in IdSet(f) PROVE e.at \in TreeFields \X {"field", "id", "default_id", "oneof"}
    <3>1. e.at \in {f} \X {"field", "id"}
      BY <2>2, IdSetSays
    <3> QED
      BY <2>0, <3>1
  <2>3. ASSUME NEW f \in Below, e \in TypeSet(f) PROVE e.at \in TreeFields \X {"field", "id", "default_id", "oneof"}
    <3>1. e.at \in {f} \X {"field"} \/ e.at \in Children(f) \X {"field"}
      BY <2>3, TypeSetSays
    <3> QED
      BY <2>0, <3>1
  <2>4. ASSUME NEW f \in Below, e \in UnionSet(f) PROVE e.at \in TreeFields \X {"field", "id", "default_id", "oneof"}
    <3>1. e.at \in {f} \X {"oneof", "default_id"}
      BY <2>4, UnionSetSays
    <3> QED
      BY <2>0, <3>1
  <2>5. CASE e \in DuplicateSet(K, Below)
    <3>1. PICK f \in Below \ K, g \in K : e = Error(f, "id", "duplicate", g)
      BY <2>5, DuplicateSetSays
    <3>2. e.at = <<f, "id">>
      BY <3>1 DEF Error
    <3> QED
      BY <2>0, <3>1, <3>2
  <2>6. \/ e \in NameSet(Root) \/ e \in DuplicateSet(K, Below)
        \/ \E f \in Below : e \in IdSet(f) \/ e \in TypeSet(f) \/ e \in UnionSet(f)
    BY DEF Drawn
  <2> QED
    BY <2>1, <2>2, <2>3, <2>4, <2>5, <2>6
<1>2. PICK P, a : P = TreeFields \X {"field", "id", "default_id", "oneof"} /\ a = e.at
  OBVIOUS
<1>5. Lists(Locations, P) /\ a \in P
  BY <1>1, <1>2 DEF ConstantsFit
<1>3. \E n \in DOMAIN Locations : Locations[n] = e.at
  <2>1. P = {Locations[i] : i \in 1 .. Len(Locations)} /\ DOMAIN Locations = 1 .. Len(Locations)
    BY <1>5, ListsElements
  <2> QED
    BY <1>2, <1>5, <2>1
<1>4. DOMAIN Locations \subseteq Nat
  BY <1>5, ListsElements
<1> QED
  BY <1>3, <1>4 DEF PlaceOf

LEMMA ReportStep ==
    ASSUME ConstantsFit, IInv, Report
    PROVE  IInv'
<1>1. /\ open = <<Root>> /\ Children(Root) \subseteq seen
      /\ report' = Sorted(errs) /\ progress' = "reported"
      /\ fields' = fields /\ open' = open /\ seen' = seen /\ kept' = kept /\ errs' = errs /\ earlier' = earlier
  BY DEF Report
<1>2. seen = Below /\ Left = Below
  BY <1>1, AllVisited
<1>3. fields \in Trees
  BY DEF IInv, ReportInv
<1>4. PICK X, E : X = Drawn(Below, Below) \cup DuplicateSet(kept, Below) /\ E = errs
  OBVIOUS
<1>5. Lists(E, X)
  BY <1>2, <1>4 DEF IInv, ErrsInv
<1>6. Lists(report', X)
  <2> DEFINE key == [i \in DOMAIN E |-> PlaceOf(E[i].at)]
  <2>1. DOMAIN E = 1 .. Len(E) /\ \A i \in 1 .. Len(E) : E[i] \in X
    BY <1>5, ListsElements
  <2>2. key \in [1 .. Len(E) -> Nat]
    BY <1>3, <1>4, <2>1, HasPlace
  <2>3. Sorted(E) = StablySorted(E, key)
    BY DEF Sorted
  <2> HIDE DEF key
  <2>4. Lists(StablySorted(E, key), X)
    BY <1>5, <2>2, ListsSorted
  <2> QED
    BY <1>1, <1>4, <2>3, <2>4
<1>7. Left' = Left /\ Below' = Below
  BY <1>1 DEF Left, OnPath, Below
<1>8. PathInv'
  BY <1>1, <1>7 DEF IInv, PathInv
<1>9. SeenInv' /\ KeptInv' /\ ErrsInv'
  <2>1. seen \subseteq Below /\ (\A g \in Left : Children(g) \subseteq Left) /\ Chosen(kept, Left)
    BY DEF IInv, SeenInv, KeptInv
  <2>2. Lists(errs, Drawn(seen, Left) \cup DuplicateSet(kept, Left))
    BY DEF IInv, ErrsInv
  <2> QED
    BY <1>1, <1>7, <2>1, <2>2, WalkInv
<1>10. ReportInv'
  <2>1. (earlier # Never => Complete(earlier))'
    <3>1. \A r : Complete(r)' <=> Complete(r)
      BY <1>1, SamePieces DEF Complete
    <3> QED
      BY <1>1, <3>1 DEF IInv, ReportInv
  <2>2. PICK B, K : B = Below /\ K = kept
    OBVIOUS
  <2>3. Drawn(B, B)' = Drawn(B, B) /\ DuplicateSet(K, B)' = DuplicateSet(K, B)
    BY <1>1, SamePieces
  <2>4. Lists(report, Drawn(Below, Below) \cup DuplicateSet(kept, Below))'
    BY <1>1, <1>4, <1>6, <1>7, <2>2, <2>3
  <2> QED
    BY <1>1, <1>2, <1>3, <1>7, <2>1, <2>4 DEF ReportInv
<1> QED
  BY <1>8, <1>9, <1>10 DEF IInv

LEMMA AgainStep ==
    ASSUME ConstantsFit, IInv, Again
    PROVE  IInv'
<1>1. /\ progress = "reported" /\ earlier' = report /\ fields' = fields
      /\ open' = <<Root>> /\ seen' = {} /\ kept' = {} /\ errs' = FoldErrors(Root) /\ progress' = "walk"
  BY DEF Again, Begin
<1>2. fields \in Trees
  BY DEF IInv, ReportInv
<1>3. Left' = {}
  BY <1>1 DEF Left
<1>4. PathInv'
  BY <1>1, PathStart DEF PathInv
<1>5. SeenInv' /\ KeptInv' /\ ErrsInv'
  <2>1. Lists(FoldErrors(Root), Drawn({}, {}) \cup DuplicateSet({}, {}))
    BY <1>2, FoldErrorsList, NothingYet
  <2> QED
    BY <1>1, <1>3, <2>1, NothingYet, WalkInv
<1>6. ReportInv'
  <2>1. Complete(report)
    <3>1. Left = Below /\ Lists(report, Drawn(Below, Below) \cup DuplicateSet(kept, Below))
      BY <1>1 DEF IInv, ReportInv, Reported
    <3>2. Chosen(kept, Below)
      BY <3>1 DEF IInv, KeptInv
    <3> QED
      BY <3>1, <3>2 DEF Complete, Chosen
  <2>2. \A r : Complete(r)' <=> Complete(r)
    BY <1>1, SamePieces DEF Complete
  <2>3. (earlier # Never => Complete(earlier))'
    BY <1>1, <2>1, <2>2
  <2> QED
    BY <1>1, <1>2, <2>3 DEF ReportInv, Reported
<1> QED
  BY <1>4, <1>5, <1>6 DEF IInv

LEMMA IInvStep ==
    ASSUME ConstantsFit, IInv, [ScopesNext]_scopesVars
    PROVE  IInv'
<1>1. CASE UNCHANGED scopesVars
  <2>1. /\ fields' = fields /\ open' = open /\ seen' = seen /\ kept' = kept /\ errs' = errs
        /\ report' = report /\ earlier' = earlier /\ progress' = progress
    BY <1>1 DEF scopesVars
  <2>2. Left' = Left /\ Below' = Below
    BY <2>1 DEF Left, OnPath, Below
  <2>3. PathInv'
    BY <2>1, <2>2 DEF IInv, PathInv
  <2>4. SeenInv' /\ KeptInv' /\ ErrsInv'
    <3>1. seen \subseteq Below /\ (\A g \in Left : Children(g) \subseteq Left) /\ Chosen(kept, Left)
      BY DEF IInv, SeenInv, KeptInv
    <3>2. Lists(errs, Drawn(seen, Left) \cup DuplicateSet(kept, Left))
      BY DEF IInv, ErrsInv
    <3> QED
      BY <2>1, <2>2, <3>1, <3>2, WalkInv
  <2>5. ReportInv'
    <3>1. \A r : Complete(r)' <=> Complete(r)
      BY <2>1, SamePieces DEF Complete
    <3>2. (earlier # Never => Complete(earlier))'
      BY <2>1, <3>1 DEF IInv, ReportInv
    <3>3. PICK B, K : B = Below /\ K = kept
      OBVIOUS
    <3>4. Drawn(B, B)' = Drawn(B, B) /\ DuplicateSet(K, B)' = DuplicateSet(K, B)
      BY <2>1, SamePieces
    <3>5. (Reported => /\ Left = Below /\ seen = Below
                       /\ Lists(report, Drawn(Below, Below) \cup DuplicateSet(kept, Below)))'
      BY <2>1, <2>2, <3>3, <3>4 DEF IInv, ReportInv, Reported
    <3> QED
      BY <2>1, <3>2, <3>5 DEF IInv, ReportInv
  <2> QED
    BY <2>3, <2>4, <2>5 DEF IInv
<1> QED
  BY <1>1, VisitStep, LeaveWithoutIdStep, KeepIdStep, DuplicateStep, ReportStep, AgainStep DEF ScopesNext

LEMMA IInvHolds ==
    ASSUME ConstantsFit
    PROVE  ScopesSpec => []IInv
<1>1. ScopesInit => IInv
  BY IInvInit
<1>2. IInv /\ [ScopesNext]_scopesVars => IInv'
  BY IInvStep
<1> QED
  BY <1>1, <1>2, PTL DEF ScopesSpec

-----------------------------------------------------------------------------
(* The verdict.                                                            *)

LEMMA NothingListed ==
    ASSUME NEW S, NEW s, Lists(s, S)
    PROVE  s = << >> <=> S = {}
<1>1. Len(s) \in Nat /\ S = {s[i] : i \in 1 .. Len(s)} /\ s \in Seq(S)
  BY ListsElements DEF Lists
<1>2. CASE s = << >>
  BY <1>1, <1>2
<1>3. CASE S = {}
  <2>1. Len(s) = 0
    BY <1>3, ListsCount, FS_EmptySet
  <2> QED
    BY <1>1, <1>3, <2>1
<1> QED
  BY <1>2, <1>3

\* The names of a scope that is a field are checked with the field.
LEMMA NamesDrawn ==
    ASSUME ConstantsFit, fields \in Trees, NEW f \in Below
    PROVE  NameSet(fields.parent[f]) \subseteq Drawn(Below, Below)
<1>1. CASE fields.parent[f] = Root
  BY <1>1 DEF Drawn
<1>2. CASE fields.parent[f] # Root
  <2>1. fields.parent[f] \in Below /\ fields.type[fields.parent[f]] \in Scopes
    BY <1>2, DocFacts DEF IsDocument, Below
  <2>2. NameSet(fields.parent[f]) \subseteq TypeSet(fields.parent[f])
    BY <2>1 DEF TypeSet, Scopes
  <2> QED
    BY <2>1, <2>2 DEF Drawn
<1> QED
  BY <1>1, <1>2

LEMMA ValidDrawsNothing ==
    ASSUME ConstantsFit, fields \in Trees, Valid, NEW K, K \subseteq Below
    PROVE  Drawn(Below, Below) \cup DuplicateSet(K, Below) = {}
<1>1. ASSUME NEW s, NEW e \in NameSet(s) PROVE FALSE
  <2>1. PICK f \in Children(s) : FirstOfFold(f) # f
    BY <1>1 DEF NameSet
  <2>2. f \in Below
    BY <2>1 DEF Children, Below
  <2>3. FirstOfFold(f) \in Children(fields.parent[f]) \ {f} /\ fields.fold[FirstOfFold(f)] = fields.fold[f]
    BY <2>1, <2>2, FirstOfFoldIs
  <2> QED
    BY <2>2, <2>3 DEF Valid, Below
<1>2. ASSUME NEW f \in Below PROVE IdSet(f) = {} /\ TypeSet(f) = {} /\ UnionSet(f) = {}
  <2>1. /\ HasId(f) /\ fields.type[f] # "untyped" /\ fields.extra[f] = {}
        /\ fields.type[f] = "union" => Children(f) # {} /\ Defaults(f)
    BY DEF Valid, Below, Defaults
  <2>2. IdSet(f) = {}
    BY <2>1 DEF IdSet, HasId
  <2>3. TypeSet(f) = {}
    BY <1>1, <2>1 DEF TypeSet, KeySet
  <2>4. UnionSet(f) = {}
    BY <2>1 DEF UnionSet
  <2> QED
    BY <2>2, <2>3, <2>4
<1>3. ASSUME NEW e \in DuplicateSet(K, Below) PROVE FALSE
  <2>1. PICK f \in Below \ K, g \in K : SameId(f, g)
    BY <1>3, DuplicateSetSays
  <2>2. g \in Children(fields.parent[f]) \ {f} /\ fields.id[f] = fields.id[g]
    BY <2>1 DEF SameId, Children, Below
  <2> QED
    BY <2>1, <2>2 DEF Valid, Below
<1>4. NameSet(Root) = {}
  BY <1>1
<1> QED
  BY <1>2, <1>3, <1>4 DEF Drawn

LEMMA NothingDrawnIsValid ==
    ASSUME ConstantsFit, fields \in Trees, NEW K, Chosen(K, Below),
           Drawn(Below, Below) \cup DuplicateSet(K, Below) = {}
    PROVE  Valid
<1>1. ASSUME NEW f \in Below
      PROVE  /\ HasId(f) /\ fields.type[f] # "untyped" /\ fields.extra[f] = {}
             /\ fields.type[f] = "union" => Children(f) # {} /\ Defaults(f)
  <2>1. IdSet(f) = {} /\ TypeSet(f) = {} /\ UnionSet(f) = {}
    BY DEF Drawn
  <2>2. HasId(f)
    BY <2>1 DEF IdSet, HasId
  <2>3. fields.type[f] # "untyped"
    BY <2>1 DEF TypeSet
  <2>4. KeySet(f) = {}
    BY <2>1, <2>3 DEF TypeSet
  <2>5. fields.extra[f] = {}
    BY <2>4 DEF KeySet
  <2>6. fields.type[f] = "union" => Children(f) # {} /\ Defaults(f)
    BY <2>1 DEF UnionSet
  <2> QED
    BY <2>2, <2>3, <2>5, <2>6
<1>2. ASSUME NEW f \in Below, NEW g \in Children(fields.parent[f]) \ {f}
      PROVE  fields.id[f] # fields.id[g] /\ fields.fold[f] # fields.fold[g]
  <2>0. g \in Below /\ fields.parent[g] = fields.parent[f] /\ f # g
    BY DEF Children, Below
  <2>1. ASSUME fields.fold[f] = fields.fold[g] PROVE FALSE
    <3>1. FirstOfFold(g) = FirstOfFold(f)
      BY <2>1, FirstOfFoldIs
    <3>2. PICK x \in {f, g} : FirstOfFold(x) # x
      BY <2>0, <3>1
    <3>3. x \in Below /\ x \in Children(fields.parent[x])
      BY <2>0 DEF Children, Below
    <3>4. NameSet(fields.parent[x]) # {}
      <4>1. Error(x, "field", "fold", FirstOfFold(x)) \in NameSet(fields.parent[x])
        BY <3>2, <3>3 DEF NameSet
      <4> QED
        BY <4>1
    <3> QED
      BY <3>3, <3>4, NamesDrawn
  <2>2. ASSUME fields.id[f] = fields.id[g] PROVE FALSE
    <3>1. SameId(f, g) /\ HasId(f) /\ HasId(g)
      BY <1>1, <2>0, <2>2 DEF SameId
    <3>2. ~ (f \in K /\ g \in K)
      BY <2>0, <3>1 DEF Chosen
    <3>3. PICK x \in {f, g} : x \notin K
      BY <3>2
    <3>4. x \in Below /\ HasId(x)
      BY <2>0, <3>1
    <3>5. PICK h \in K : SameId(x, h)
      BY <3>4 DEF Chosen
    <3>6. PICK d : d = Error(x, "id", "duplicate", h)
      OBVIOUS
    <3>7. d \in DuplicateSet(K, Below)
      BY <3>3, <3>4, <3>5, <3>6, DuplicateSetSays
    <3> QED
      BY <3>7
  <2> QED
    BY <2>1, <2>2
<1> QED
  BY <1>1, <1>2 DEF Valid, Below, Defaults

\* A document is accepted exactly if it is valid, whatever order its scopes are
\* walked in (Validate returns nil on success; validateIDScope, checkDistinct,
\* closed, checkUnionField).
THEOREM ValidAccepted ==
    ASSUME ConstantsFit
    PROVE  ScopesSpec => []VerdictExact
<1>1. ASSUME IInv PROVE VerdictExact
  <2> SUFFICES ASSUME Reported PROVE report = << >> <=> Valid
    BY DEF VerdictExact
  <2>0. fields \in Trees /\ Left = Below /\ Chosen(kept, Below)
    BY <1>1 DEF IInv, ReportInv, KeptInv
  <2>1. Lists(report, Drawn(Below, Below) \cup DuplicateSet(kept, Below))
    BY <1>1 DEF IInv, ReportInv
  <2>2. report = << >> <=> Drawn(Below, Below) \cup DuplicateSet(kept, Below) = {}
    BY <2>1, NothingListed
  <2>3. kept \subseteq Below
    BY <2>0 DEF Chosen
  <2> QED
    BY <2>0, <2>2, <2>3, ValidDrawsNothing, NothingDrawnIsValid
<1> QED
  BY <1>1, IInvHolds, PTL

-----------------------------------------------------------------------------
(* Duplicates of an id.                                                    *)

LEMMA DuplicatesReported ==
    ASSUME ConstantsFit, IInv
    PROVE  EveryDuplicateReported
<1> SUFFICES ASSUME Reported, NEW s, NEW f \in Children(s), HasId(f)
             PROVE  \E g \in Users(s, fields.id[f]) :
                       /\ \A h \in Users(s, fields.id[f]) :
                             h = g <=> ~\E e \in Errors("duplicate") : e.at = <<h, "id">>
                       /\ \A e \in Errors("duplicate") : e.at[1] \in Users(s, fields.id[f]) => e.other = g
  BY DEF EveryDuplicateReported
<1>1. fields \in Trees /\ Left = Below /\ seen = Below /\ Chosen(kept, Below)
  BY DEF IInv, ReportInv, KeptInv
<1>2. PICK D : D = DuplicateSet(kept, Below)
  OBVIOUS
<1>3. \A e : e \in Errors("duplicate") <=> e \in D
  <2>1. PICK X, E : X = Drawn(Below, Below) \cup D /\ E = errs
    OBVIOUS
  <2>2. Lists(E, X)
    BY <1>1, <1>2, <2>1 DEF IInv, ErrsInv
  <2>3. ToSet(E) = X
    BY <2>2, ListsElements DEF ToSet
  <2>4. \A e \in Drawn(Below, Below) : e.what # "duplicate"
    BY DrawnSays
  <2>5. \A e \in D : e.what = "duplicate"
    BY <1>2, DuplicateSays
  <2> QED
    BY <2>1, <2>3, <2>4, <2>5 DEF Errors
<1>4. f \in Below /\ fields.parent[f] = s
  BY DEF Children, Below
<1>5. PICK g \in kept : SameId(f, g)
  BY <1>1, <1>4 DEF Chosen
<1>6. \A h : h \in Users(s, fields.id[f]) <=> h \in Below /\ SameId(h, g)
  BY <1>4, <1>5 DEF Users, Children, Below, SameId
<1>7. g \in Users(s, fields.id[f])
  BY <1>1, <1>4, <1>5 DEF Users, Children, Below, SameId, Chosen
<1>8. \A h \in Below : SameId(h, g) => HasId(h)
  BY <1>1, <1>5 DEF Chosen, HasId, SameId
<1>9. ASSUME NEW h \in Users(s, fields.id[f]), h # g
      PROVE  \E e \in D : e.at = <<h, "id">>
  <2>1. h \in Below /\ SameId(h, g) /\ HasId(h)
    BY <1>6, <1>8
  <2>2. h \notin kept
    BY <1>1, <1>9, <2>1 DEF Chosen
  <2>3. PICK d : d = Error(h, "id", "duplicate", g)
    OBVIOUS
  <2>4. d \in D
    BY <1>2, <2>1, <2>2, <2>3, DuplicateSetSays
  <2>5. d.at = <<h, "id">>
    BY <2>3 DEF Error
  <2> QED
    BY <2>4, <2>5
<1>10. ASSUME NEW e \in D PROVE e.at # <<g, "id">>
  <2>1. e.at[1] \notin kept
    BY <1>2, DuplicateSays
  <2> QED
    BY <2>1
<1>11. ASSUME NEW e \in D, e.at[1] \in Users(s, fields.id[f]) PROVE e.other = g
  <2>1. PICK x \in Below \ kept, k \in kept : SameId(x, k) /\ e = Error(x, "id", "duplicate", k)
    BY <1>2, DuplicateSetSays
  <2>2. e.at[1] = x /\ e.other = k
    BY <2>1 DEF Error
  <2>3. SameId(x, g)
    BY <1>6, <1>11, <2>2
  <2>4. SameId(k, g)
    BY <2>1, <2>3 DEF SameId
  <2> QED
    BY <1>1, <2>2, <2>4 DEF Chosen
<1> QED
  BY <1>3, <1>7, <1>9, <1>10, <1>11

\* Every use of an id but one is reported, in its own scope, and blamed on the
\* field that keeps the id, whatever order the scope is walked in
\* (validateIDScope ranges over a map).
THEOREM DuplicatesAlwaysReported ==
    ASSUME ConstantsFit
    PROVE  ScopesSpec => []EveryDuplicateReported
<1>1. IInv => EveryDuplicateReported
  BY DuplicatesReported
<1> QED
  BY <1>1, IInvHolds, PTL

-----------------------------------------------------------------------------
(* Two validations of one document.                                        *)

\* As many fields are chosen, whichever are.
LEMMA ChosenCount ==
    ASSUME IsFiniteSet(Below), NEW K, NEW M, Chosen(K, Below), Chosen(M, Below)
    PROVE  /\ IsFiniteSet(K) /\ IsFiniteSet(M)
           /\ Cardinality(K) = Cardinality(M)
<1>1. K \in SUBSET Below /\ M \in SUBSET Below
  BY DEF Chosen
<1>2. IsFiniteSet(K) /\ IsFiniteSet(M)
  BY <1>1, FS_Subset
<1> DEFINE To == [k \in K |-> CHOOSE m \in M : SameId(k, m)]
<1>3. \A k \in K : \E m \in M : SameId(k, m)
  BY DEF Chosen
<1>4. \A k \in K : To[k] \in M /\ SameId(k, To[k])
  BY <1>3
<1>5. To \in [K -> M]
  BY <1>4
<1> HIDE DEF To
<1>6. ASSUME NEW k \in K, NEW l \in K, To[k] = To[l] PROVE k = l
  <2>1. SameId(k, l)
    BY <1>4, <1>6 DEF SameId
  <2> QED
    BY <2>1 DEF Chosen
<1>7. ASSUME NEW m \in M PROVE \E k \in K : To[k] = m
  <2>1. PICK k \in K : SameId(m, k)
    BY DEF Chosen
  <2>2. SameId(m, To[k]) /\ To[k] \in M
    BY <1>4, <2>1 DEF SameId
  <2>3. m = To[k]
    BY <2>2 DEF Chosen
  <2> QED
    BY <2>3
<1>8. DOMAIN To = K
  BY <1>5
<1>9. To \in Injection(K, M) /\ To \in Surjection(K, M)
  BY <1>5, <1>6, <1>7, <1>8 DEF Injection, IsInjective, Surjection
<1>10. ExistsBijection(K, M)
  BY <1>9 DEF ExistsBijection, Bijection
<1> QED
  BY <1>2, <1>10, FS_Bijection

\* One error for each field with an id that is not chosen.
LEMMA DuplicateCount ==
    ASSUME IsFiniteSet(Below), NEW K, Chosen(K, Below)
    PROVE  LET H == {f \in Below : HasId(f)}
           IN  /\ IsFiniteSet(DuplicateSet(K, Below))
               /\ Cardinality(DuplicateSet(K, Below)) = Cardinality(H) - Cardinality(K)
<1> DEFINE H == {f \in Below : HasId(f)}
<1>1. PICK D : D = DuplicateSet(K, Below)
  OBVIOUS
<1>2. IsFiniteSet(H) /\ IsFiniteSet(H \ K) /\ Cardinality(H \ K) = Cardinality(H) - Cardinality(K)
  <2>1. H \in SUBSET Below
    OBVIOUS
  <2>2. IsFiniteSet(H)
    BY <2>1, FS_Subset
  <2>3. H \cap K = K
    BY DEF Chosen
  <2> QED
    BY <2>2, <2>3, FS_Difference
<1> HIDE DEF H
<1> DEFINE Of == [f \in H \ K |-> CHOOSE d \in D : d.at[1] = f]
<1>3. ASSUME NEW f \in H \ K PROVE \E d \in D : d.at[1] = f
  <2>1. f \in Below \ K /\ HasId(f)
    BY DEF H
  <2>2. PICK g \in K : SameId(f, g)
    BY <2>1 DEF Chosen
  <2>3. PICK d : d = Error(f, "id", "duplicate", g)
    OBVIOUS
  <2>4. d \in D
    BY <1>1, <2>1, <2>2, <2>3, DuplicateSetSays
  <2>5. d.at[1] = f
    BY <2>3 DEF Error
  <2> QED
    BY <2>4, <2>5
<1>4. \A f \in H \ K : Of[f] \in D /\ Of[f].at[1] = f
  BY <1>3
<1>5. Of \in [H \ K -> D]
  BY <1>4
<1> HIDE DEF Of
<1>6. \A f, g \in H \ K : Of[f] = Of[g] => f = g
  <2> SUFFICES ASSUME NEW f \in H \ K, NEW g \in H \ K, Of[f] = Of[g] PROVE f = g
    OBVIOUS
  <2>1. Of[f].at[1] = f /\ Of[g].at[1] = g
    BY <1>4
  <2> QED
    BY <2>1
<1>7. ASSUME NEW d \in D PROVE \E f \in H \ K : Of[f] = d
  <2>1. PICK f \in Below \ K, g \in K : HasId(f) /\ SameId(f, g) /\ d = Error(f, "id", "duplicate", g)
    BY <1>1, DuplicateSetSays
  <2>2. f \in H \ K
    BY <2>1 DEF H
  <2>3. PICK o : o = Of[f]
    OBVIOUS
  <2>4. o \in D /\ o.at[1] = f
    BY <1>4, <2>2, <2>3
  <2>5. PICK x \in Below \ K, h \in K : SameId(x, h) /\ o = Error(x, "id", "duplicate", h)
    BY <1>1, <2>4, DuplicateSetSays
  <2>6. x = f
    BY <2>4, <2>5 DEF Error
  <2>7. SameId(h, g)
    BY <2>1, <2>5, <2>6 DEF SameId
  <2>8. h = g
    BY <2>7 DEF Chosen
  <2> QED
    BY <2>1, <2>2, <2>3, <2>5, <2>6, <2>8
<1>8. DOMAIN Of = H \ K
  BY <1>5
<1>9. Of \in Injection(H \ K, D) /\ Of \in Surjection(H \ K, D)
  BY <1>5, <1>6, <1>7, <1>8 DEF Injection, IsInjective, Surjection
<1>10. ExistsBijection(H \ K, D)
  BY <1>9 DEF ExistsBijection, Bijection
<1>11. IsFiniteSet(D) /\ Cardinality(D) = Cardinality(H \ K)
  BY <1>2, <1>10, FS_Bijection
<1> QED
  BY <1>1, <1>2, <1>11 DEF H

\* What a list that is complete holds, and how long it is.
LEMMA CompleteSays ==
    ASSUME IsFiniteSet(Below), NEW K, NEW r, Chosen(K, Below),
           Lists(r, Drawn(Below, Below) \cup DuplicateSet(K, Below))
    PROVE  /\ Cardinality(DuplicateSet(K, Below)) \in Nat
           /\ Len(r) = Cardinality(Drawn(Below, Below)) + Cardinality(DuplicateSet(K, Below))
           /\ {e \in ToSet(r) : e.what # "duplicate"} = Drawn(Below, Below)
           /\ \A e : e \in ToSet(r) /\ e.what = "duplicate" <=> e \in DuplicateSet(K, Below)
<1>1. PICK S, D : S = Drawn(Below, Below) /\ D = DuplicateSet(K, Below)
  OBVIOUS
<1>2. Lists(r, S \cup D)
  BY <1>1
<1>3. ToSet(r) = S \cup D
  BY <1>2, ListsElements DEF ToSet
<1>4. \A e \in S : e.what # "duplicate"
  BY <1>1, DrawnSays
<1>5. \A e \in D : e.what = "duplicate"
  BY <1>1, DuplicateSays
<1>6. S \cap D = {}
  BY <1>4, <1>5
<1>7. IsFiniteSet(S) /\ IsFiniteSet(D) /\ Cardinality(S \cup D) = Len(r)
  <2>1. IsFiniteSet(S \cup D) /\ Cardinality(S \cup D) = Len(r)
    BY <1>2, ListsCount
  <2>2. S \in SUBSET (S \cup D) /\ D \in SUBSET (S \cup D)
    OBVIOUS
  <2> QED
    BY <2>1, <2>2, FS_Subset
<1>8. Cardinality(S) \in Nat /\ Cardinality(D) \in Nat
  BY <1>7, FS_CardinalityType
<1>9. Cardinality(S \cup D) = Cardinality(S) + Cardinality(D)
  <2>1. Cardinality(S \cap D) = 0
    BY <1>6, FS_EmptySet
  <2>2. Cardinality(S \cup D) = Cardinality(S) + Cardinality(D) - Cardinality(S \cap D)
    BY <1>7, FS_Union
  <2> QED
    BY <1>8, <2>1, <2>2
<1>10. {e \in ToSet(r) : e.what # "duplicate"} = S
  BY <1>3, <1>4, <1>5
<1>11. \A e : e \in ToSet(r) /\ e.what = "duplicate" <=> e \in D
  BY <1>3, <1>4, <1>5
<1> QED
  BY <1>1, <1>7, <1>8, <1>9, <1>10, <1>11

\* A duplicate of the one list shares a field with one of the other.
LEMMA SharesAField ==
    ASSUME NEW K, NEW M, Chosen(K, Below), Chosen(M, Below), NEW e \in DuplicateSet(K, Below)
    PROVE  \E d \in DuplicateSet(M, Below) : {e.at[1], e.other} \cap {d.at[1], d.other} # {}
<1>1. PICK f \in Below \ K, k \in K : HasId(f) /\ SameId(f, k) /\ e = Error(f, "id", "duplicate", k)
  BY DuplicateSetSays
<1>2. e.at[1] = f /\ e.other = k
  BY <1>1 DEF Error
<1>3. PICK m \in M : SameId(f, m)
  BY <1>1 DEF Chosen
<1>4. k \in Below /\ HasId(k) /\ SameId(k, f) /\ SameId(k, m)
  BY <1>1, <1>3 DEF Chosen, SameId
<1>5. ASSUME NEW x \in Below, x \notin M, HasId(x), SameId(x, m), x \in {f, k}
      PROVE  \E d \in DuplicateSet(M, Below) : {e.at[1], e.other} \cap {d.at[1], d.other} # {}
  <2>1. PICK d : d = Error(x, "id", "duplicate", m)
    OBVIOUS
  <2>2. d \in DuplicateSet(M, Below)
    BY <1>3, <1>5, <2>1, DuplicateSetSays
  <2>3. d.at[1] = x
    BY <2>1 DEF Error
  <2> QED
    BY <1>2, <1>5, <2>2, <2>3
<1>6. f # k
  BY <1>1
<1>7. f \notin M \/ k \notin M
  BY <1>1, <1>6 DEF Chosen
<1> QED
  BY <1>1, <1>3, <1>4, <1>5, <1>7

\* Two validations of one document list the same problems, but for which of the
\* fields of one id is called the duplicate (validateIDScope ranges over a map;
\* Errors says the report is sorted to be deterministic).
THEOREM SameAgain ==
    ASSUME ConstantsFit
    PROVE  ScopesSpec => []SameProblems
<1>1. ASSUME IInv PROVE SameProblems
  <2> SUFFICES ASSUME Reported, earlier # Never
               PROVE  /\ Len(report) = Len(earlier)
                      /\ {e \in ToSet(report) : e.what # "duplicate"} = {e \in ToSet(earlier) : e.what # "duplicate"}
                      /\ \A e \in ToSet(report) : e.what = "duplicate" =>
                            \E d \in ToSet(earlier) :
                                d.what = "duplicate" /\ {e.at[1], e.other} \cap {d.at[1], d.other} # {}
    BY DEF SameProblems
  <2>1. fields \in Trees /\ Chosen(kept, Below)
    BY <1>1 DEF IInv, ReportInv, KeptInv
  <2>2. Lists(report, Drawn(Below, Below) \cup DuplicateSet(kept, Below))
    BY <1>1 DEF IInv, ReportInv
  <2>3. PICK M \in SUBSET Below :
            Chosen(M, Below) /\ Lists(earlier, Drawn(Below, Below) \cup DuplicateSet(M, Below))
    BY <1>1 DEF IInv, ReportInv, Complete
  <2>4. IsFiniteSet(Below)
    BY <2>1, DocFacts
  <2>5. Cardinality(kept) = Cardinality(M)
    BY <2>1, <2>3, <2>4, ChosenCount
  <2>6. Cardinality(DuplicateSet(kept, Below)) = Cardinality(DuplicateSet(M, Below))
    BY <2>1, <2>3, <2>4, <2>5, DuplicateCount
  <2>7. Len(report) = Len(earlier)
    BY <2>1, <2>2, <2>3, <2>4, <2>6, CompleteSays
  <2>8. {e \in ToSet(report) : e.what # "duplicate"} = {e \in ToSet(earlier) : e.what # "duplicate"}
    BY <2>1, <2>2, <2>3, <2>4, CompleteSays
  <2>9. ASSUME NEW e \in ToSet(report), e.what = "duplicate"
        PROVE  \E d \in ToSet(earlier) :
                   d.what = "duplicate" /\ {e.at[1], e.other} \cap {d.at[1], d.other} # {}
    <3>1. e \in DuplicateSet(kept, Below)
      BY <2>1, <2>2, <2>4, <2>9, CompleteSays
    <3>2. PICK d \in DuplicateSet(M, Below) : {e.at[1], e.other} \cap {d.at[1], d.other} # {}
      BY <2>1, <2>3, <3>1, SharesAField
    <3>3. d \in ToSet(earlier) /\ d.what = "duplicate"
      BY <2>3, <2>4, <3>2, CompleteSays
    <3> QED
      BY <3>2, <3>3
  <2> QED
    BY <2>7, <2>8, <2>9
<1> QED
  BY <1>1, IInvHolds, PTL

=============================================================================
