------------------------- MODULE UnionBindingProofs -------------------------
(***************************************************************************)
(* Proofs about UnionBinding: for every schema, the analysis binds every   *)
(* union, and every site ends at a type whose default is the one it asked  *)
(* for.  The order of the types plays no part in that; it is the last part *)
(* of the module: the list holds the registered types once each, sorted.  *)
(***************************************************************************)
EXTENDS UnionBinding, OrdersProofs

Uses(x) == schema.uses[x]
Whole1(u) == <<u, Whole>>

\* The loop is past u.
PassedKey(u) == stage \in {"bind", "bound"} /\ \E p \in 1 .. Len(schema.order) : p < pos /\ schema.order[p] = u

ShapeInv ==
    /\ schema \in Schemas
    /\ stage \in {"resolve", "collect", "bind", "bound", "failed"}
    /\ pos \in Nat \ {0}
    /\ named \subseteq Graph
    /\ refKey \in [Sites -> Graph]
    /\ target \in [Sites -> Graph \cup {Absent}]
    /\ default \in [Graph -> OptionIds \cup {Absent}]

\* A reference stays with the type it names; from the resolve step on it has
\* a registered target.
RefsInv ==
    /\ stage = "resolve" => \A x \in Sites : target[x] = Absent
    /\ \A x \in Sites : refKey[x][1] = Uses(x).key
    /\ stage \in {"collect", "bind", "bound"} =>
          \A x \in Sites : target[x] = refKey[x] /\ target[x] \in named
    /\ stage \in {"resolve", "collect"} => \A x \in Sites : refKey[x] = Whole1(Uses(x).key)
    /\ stage \in {"resolve", "collect"} => named = {Whole1(schema.order[i]) : i \in 1 .. Len(schema.order)}
    /\ stage = "bound" => pos > Len(schema.order)
    /\ stage \in {"resolve", "collect"} => pos = 1

\* What collect gathered, whatever the loop has repointed since.
Gathered == [u \in Unions |-> [x \in {y \in Sites : Uses(y).key = u} |-> Wanted(x)]]
SitesInv == stage \in {"bind", "bound"} => sites = Gathered

\* The union types behind the loop are bound, the others are as built.
LoopInv ==
    /\ \A g \in named : g[1] \in {schema.order[i] : i \in 1 .. Len(schema.order)}
    /\ stage \in {"bind", "bound"} =>
         /\ \A u \in Unions : PassedKey(u) =>
               \A x \in Sites : Uses(x).key = u => default[target[x]] = Wanted(x)
         /\ \A g \in named : g[1] \in Unions /\ PassedKey(g[1]) => default[g] \in schema.unions[g[1]]
         /\ \A u \in Unions : ~ PassedKey(u) =>
               /\ \A x \in Sites : Uses(x).key = u => target[x] = Whole1(u)
               /\ \A g \in named : g[1] = u => g = Whole1(u)

IInv == ShapeInv /\ RefsInv /\ SitesInv /\ LoopInv

\* What IsSchema says of the schema at hand.
LEMMA SchemaFacts ==
    ASSUME schema \in Schemas
    PROVE  /\ Len(schema.order) \in Nat
           /\ \A i \in 1 .. Len(schema.order) : schema.order[i] \in TypeNames
           /\ \A i, j \in 1 .. Len(schema.order) : schema.order[i] = schema.order[j] => i = j
           /\ \A u \in Unions : \E i \in 1 .. Len(schema.order) : schema.order[i] = u
           /\ \A u \in Unions : /\ schema.unions[u] \subseteq OptionIds
                                /\ schema.unions[u] # {}
                                /\ Lowest(u) \in schema.unions[u]
           /\ \A x \in Sites : /\ Uses(x).key \in TypeNames
                               /\ Uses(x).id # Absent => Uses(x).key \in Unions /\ Uses(x).id \in schema.unions[Uses(x).key]
<1>1. IsSchema(schema)
  BY UnionAssumption
<1>2. \A u \in Unions : schema.unions[u] \subseteq OptionIds /\ schema.unions[u] # {}
  BY <1>1 DEF IsSchema, Unions
<1>3. \A u \in Unions : Lowest(u) \in schema.unions[u]
  <2> SUFFICES ASSUME NEW u \in Unions PROVE Lowest(u) \in schema.unions[u]
    OBVIOUS
  <2>1. \E i \in schema.unions[u] : \A j \in schema.unions[u] : i <= j
    BY <1>2, HasLowest, UnionAssumption
  <2> QED
    BY <2>1 DEF Lowest
<1>4. Len(schema.order) \in Nat
  BY <1>1 DEF IsSchema
<1> QED
  BY <1>1, <1>2, <1>3, <1>4 DEF IsSchema, Unions, Uses

\* The default a site of a union asks for is one of the union's options.
LEMMA WantedIsOption ==
    ASSUME schema \in Schemas, NEW x \in Sites, Uses(x).key \in Unions
    PROVE  Wanted(x) \in schema.unions[Uses(x).key] /\ Wanted(x) \in OptionIds
  BY SchemaFacts DEF Wanted, Uses

-----------------------------------------------------------------------------
LEMMA InitInv == Init => IInv
<1> SUFFICES ASSUME Init PROVE IInv
  OBVIOUS
<1>1. schema \in Schemas
  BY DEF Init
<1>2. ShapeInv
  BY <1>1, SchemaFacts DEF Init, ShapeInv, Graph, Uses
<1>3. RefsInv
  BY DEF Init, RefsInv, Uses, Whole1
<1>4. SitesInv /\ LoopInv
  BY DEF Init, SitesInv, LoopInv
<1> QED
  BY <1>2, <1>3, <1>4 DEF IInv

\* The schema is never written, so nothing computed from it alone changes.
LEMMA SchemaKept ==
    ASSUME schema' = schema
    PROVE  /\ Unions' = Unions
           /\ \A x : Uses(x)' = Uses(x)
           /\ \A u : Lowest(u)' = Lowest(u)
           /\ \A x : Wanted(x)' = Wanted(x)
           /\ Gathered' = Gathered
<1>1. Unions' = Unions
  BY DEF Unions
<1>2. \A x : Uses(x)' = Uses(x)
  BY DEF Uses
<1>3. \A u : Lowest(u)' = Lowest(u)
  BY DEF Lowest
<1>4. \A x : Wanted(x)' = Wanted(x)
  BY <1>3 DEF Wanted
<1>5. Gathered' = Gathered
  BY <1>1, <1>2, <1>4 DEF Gathered
<1> QED
  BY <1>1, <1>2, <1>3, <1>4, <1>5

\* One more type behind the loop.
LEMMA Passed ==
    ASSUME IInv, Binding, pos' = pos + 1, schema' = schema, stage' = stage, NEW u
    PROVE  PassedKey(u)' <=> PassedKey(u) \/ u = Current
<1>1. pos \in Nat /\ pos <= Len(schema.order) /\ stage = "bind" /\ Len(schema.order) \in Nat
  BY SchemaFacts DEF IInv, ShapeInv, Binding
<1>2. PassedKey(u)' <=> \E p \in 1 .. Len(schema.order) : p < pos + 1 /\ schema.order[p] = u
  BY <1>1 DEF PassedKey
<1>3. PassedKey(u) <=> \E p \in 1 .. Len(schema.order) : p < pos /\ schema.order[p] = u
  BY <1>1 DEF PassedKey
<1>4. pos \in 1 .. Len(schema.order)
  BY <1>1 DEF IInv, ShapeInv
<1>5. u = Current <=> schema.order[pos] = u
  BY DEF Current
<1>6. \A p \in 1 .. Len(schema.order) : p < pos + 1 <=> p < pos \/ p = pos
  BY <1>1
<1> QED
  BY <1>2, <1>3, <1>4, <1>5, <1>6

\* The loop meets a union once: until then nothing of it has changed.
LEMMA AtCurrent ==
    ASSUME IInv, Binding
    PROVE  /\ Current \in TypeNames
           /\ ~ PassedKey(Current)
<1>1. pos \in 1 .. Len(schema.order) /\ schema \in Schemas
  BY SchemaFacts DEF IInv, ShapeInv, Binding
<1>2. \A p \in 1 .. Len(schema.order) : schema.order[p] = schema.order[pos] => p = pos
  BY <1>1, SchemaFacts
<1> QED
  BY <1>1, <1>2, SchemaFacts DEF PassedKey, Current

LEMMA ResolveStep == IInv /\ ResolveRefs => IInv'
<1> SUFFICES ASSUME IInv, ResolveRefs PROVE IInv'
  OBVIOUS
<1>1. ShapeInv'
  BY DEF IInv, ShapeInv, ResolveRefs
<1>2. RefsInv'
  BY DEF IInv, ShapeInv, RefsInv, ResolveRefs, Uses, Whole1
<1>3. SitesInv' /\ LoopInv'
  BY DEF IInv, LoopInv, SitesInv, ResolveRefs
<1> QED
  BY <1>1, <1>2, <1>3 DEF IInv

LEMMA CollectStep == IInv /\ Collect => IInv'
<1> SUFFICES ASSUME IInv, Collect PROVE IInv'
  OBVIOUS
<1>1. ShapeInv' /\ RefsInv'
  BY DEF IInv, ShapeInv, RefsInv, Collect, Uses, Whole1
<1>2. \A x \in Sites : target[x] = <<Uses(x).key, Whole>>
  BY DEF IInv, RefsInv, Collect, Whole1
<1>3. \A u : Collected(u) = {y \in Sites : Uses(y).key = u}
  BY <1>2 DEF Collected
<1>4. \A x \in Sites : Effective(x) = Wanted(x)
  BY <1>2 DEF Effective, Wanted, Uses
<1>5. sites' = Gathered
  <2>1. \A u : [x \in Collected(u) |-> Effective(x)] = [x \in {y \in Sites : Uses(y).key = u} |-> Wanted(x)]
    BY <1>3, <1>4
  <2>2. sites' = [u \in Unions |-> [x \in Collected(u) |-> Effective(x)]]
    BY DEF Collect
  <2> QED
    BY <2>1, <2>2 DEF Gathered
<1>6. SitesInv'
  BY <1>5, SchemaKept DEF Collect, SitesInv
<1>7. \A u : ~ PassedKey(u)'
  <2>1. pos' = 1 /\ schema' = schema
    BY DEF IInv, RefsInv, Collect
  <2> QED
    BY <2>1 DEF PassedKey
<1>8. LoopInv'
  <2>1. /\ target' = target /\ named' = named /\ schema' = schema
        /\ named = {Whole1(schema.order[i]) : i \in 1 .. Len(schema.order)}
    BY DEF IInv, RefsInv, Collect
  <2>2. /\ \A x \in Sites : Uses(x).key = Uses(x).key /\ target[x] = Whole1(Uses(x).key)
        /\ \A g \in named : g = Whole1(g[1])
    BY <1>2, <2>1 DEF Whole1
  <2>3. \A g \in named : g[1] \in {schema.order[i] : i \in 1 .. Len(schema.order)}
    BY DEF IInv, LoopInv
  <2> QED
    BY <1>7, <2>1, <2>2, <2>3 DEF LoopInv, Uses, Unions, Whole1
<1> QED
  BY <1>1, <1>6, <1>8 DEF IInv

LEMMA SkipStep == IInv /\ SkipOther => IInv'
<1> SUFFICES ASSUME IInv, SkipOther PROVE IInv'
  OBVIOUS
<1>1. Binding /\ schema' = schema /\ stage' = stage /\ pos' = pos + 1 /\ stage = "bind" /\ Current \notin Unions
  BY DEF SkipOther, Binding
<1>2. \A u \in Unions : PassedKey(u)' <=> PassedKey(u)
  BY <1>1, Passed
<1>3. ShapeInv' /\ RefsInv'
  BY <1>1, SchemaKept DEF IInv, ShapeInv, RefsInv, SkipOther, Whole1
<1>4. SitesInv'
  BY <1>1, SchemaKept DEF IInv, SitesInv, SkipOther
<1>5. LoopInv'
  BY <1>1, <1>2, SchemaKept DEF IInv, LoopInv, SkipOther, Whole1
<1> QED
  BY <1>3, <1>4, <1>5 DEF IInv

\* While u is not passed its sites are those of the schema, and Ids(u) the
\* defaults they want.
LEMMA IdsWanted ==
    ASSUME IInv, Binding, NEW u \in Unions
    PROVE  /\ DOMAIN sites[u] = {x \in Sites : Uses(x).key = u}
           /\ \A x \in Sites : Uses(x).key = u => sites[u][x] = Wanted(x)
           /\ Ids(u) = {Wanted(x) : x \in {y \in Sites : Uses(y).key = u}}
           /\ Ids(u) \subseteq schema.unions[u]
<1>1. sites[u] = [x \in {y \in Sites : Uses(y).key = u} |-> Wanted(x)]
  BY DEF IInv, SitesInv, Gathered, Binding
<1>2. /\ DOMAIN sites[u] = {x \in Sites : Uses(x).key = u}
      /\ \A x \in Sites : Uses(x).key = u => sites[u][x] = Wanted(x)
  BY <1>1
<1>3. Ids(u) = {Wanted(x) : x \in {y \in Sites : Uses(y).key = u}}
  BY <1>2 DEF Ids
<1>4. \A x \in Sites : Uses(x).key = u => Wanted(x) \in schema.unions[u]
  BY WantedIsOption DEF IInv, ShapeInv
<1> QED
  BY <1>2, <1>3, <1>4

\* Binding the type where it stands: every site of it wants the one default.
LEMMA SetStep ==
    ASSUME IInv, Binding, Current \in Unions, NEW i \in schema.unions[Current],
           \A x \in Sites : Uses(x).key = Current => Wanted(x) = i,
           SetDefault(i)
    PROVE  IInv'
<1>1. schema' = schema /\ stage' = stage /\ pos' = pos + 1 /\ stage = "bind"
  BY DEF SetDefault, Binding
<1>2. \A u : PassedKey(u)' <=> PassedKey(u) \/ u = Current
  BY <1>1, Passed
<1>3. ~ PassedKey(Current) /\ Current \in TypeNames
  BY AtCurrent
<1>4. default' = [default EXCEPT ![Whole1(Current)] = i]
  BY DEF SetDefault, Whole1
<1>5. i \in OptionIds
  BY SchemaFacts DEF IInv, ShapeInv
<1>6. Whole1(Current) \in Graph
  BY <1>3 DEF Whole1, Graph
<1>7. ShapeInv'
  <2>1. default' \in [Graph -> OptionIds \cup {Absent}]
    BY <1>4, <1>5 DEF IInv, ShapeInv
  <2>2. pos' \in Nat \ {0}
    BY <1>1 DEF IInv, ShapeInv
  <2>3. named' = named /\ refKey' = refKey /\ target' = target
    BY DEF SetDefault
  <2> QED
    BY <2>1, <2>2, <2>3, <1>1 DEF IInv, ShapeInv
<1>8. RefsInv'
  BY <1>1, SchemaKept DEF IInv, RefsInv, SetDefault, Whole1
<1>9. SitesInv'
  BY <1>1, SchemaKept DEF IInv, SitesInv, SetDefault
<1>10. default \in [Graph -> OptionIds \cup {Absent}] /\ named \subseteq Graph
  BY DEF IInv, ShapeInv
<1>11. /\ default'[Whole1(Current)] = i
       /\ \A g \in Graph : g[1] # Current => default'[g] = default[g]
  BY <1>4, <1>6, <1>10 DEF Whole1
<1>12. \A u \in Unions : PassedKey(u)' => \A x \in Sites : Uses(x).key = u => default'[target[x]] = Wanted(x)
  <2> SUFFICES ASSUME NEW u \in Unions, PassedKey(u)', NEW x \in Sites, Uses(x).key = u
               PROVE  default'[target[x]] = Wanted(x)
    OBVIOUS
  <2>1. CASE Uses(x).key = Current
    BY <2>1, <1>1, <1>3, <1>11 DEF IInv, LoopInv
  <2>2. CASE Uses(x).key # Current
    <3>1. target[x] \in Graph /\ target[x][1] = Uses(x).key
      BY <1>1 DEF IInv, RefsInv, ShapeInv
    <3>2. default[target[x]] = Wanted(x)
      BY <2>2, <1>1, <1>2 DEF IInv, LoopInv
    <3> QED
      BY <3>1, <3>2, <2>2, <1>11
  <2> QED
    BY <2>1, <2>2
<1>13. \A g \in named : g[1] \in Unions /\ PassedKey(g[1])' => default'[g] \in schema.unions[g[1]]
  <2> SUFFICES ASSUME NEW g \in named, g[1] \in Unions, PassedKey(g[1])'
               PROVE  default'[g] \in schema.unions[g[1]]
    OBVIOUS
  <2>1. CASE g[1] = Current
    <3>1. g = Whole1(Current)
      BY <2>1, <1>1, <1>3 DEF IInv, LoopInv
    <3> QED
      BY <3>1, <2>1, <1>11
  <2>2. CASE g[1] # Current
    BY <2>2, <1>1, <1>2, <1>10, <1>11 DEF IInv, LoopInv
  <2> QED
    BY <2>1, <2>2
<1>14. LoopInv'
  <2>1. target' = target /\ named' = named
    BY DEF SetDefault
  <2>2. \A u \in Unions : ~ PassedKey(u)' =>
            /\ \A x \in Sites : Uses(x).key = u => target[x] = Whole1(u)
            /\ \A g \in named : g[1] = u => g = Whole1(u)
    BY <1>1, <1>2 DEF IInv, LoopInv
  <2>3. \A g \in named : g[1] \in {schema.order[p] : p \in 1 .. Len(schema.order)}
    BY DEF IInv, LoopInv
  <2> QED
    BY <2>1, <2>2, <2>3, <1>1, <1>12, <1>13, SchemaKept DEF LoopInv, Whole1
<1> QED
  BY <1>7, <1>8, <1>9, <1>14 DEF IInv

LEMMA UnusedStep == IInv /\ BindUnused => IInv'
<1> SUFFICES ASSUME IInv, BindUnused PROVE IInv'
  OBVIOUS
<1>1. Binding /\ Current \in Unions /\ Ids(Current) = {} /\ SetDefault(Lowest(Current))
  BY DEF BindUnused
<1>2. \A x \in Sites : Uses(x).key # Current
  BY <1>1, IdsWanted
<1>3. Lowest(Current) \in schema.unions[Current]
  BY <1>1, SchemaFacts DEF IInv, ShapeInv
<1> QED
  BY <1>1, <1>2, <1>3, SetStep

LEMMA OneStep == IInv /\ BindOne => IInv'
<1> SUFFICES ASSUME IInv, BindOne PROVE IInv'
  OBVIOUS
<1>1. Binding /\ Current \in Unions
  BY DEF BindOne
<1>2. PICK i \in Ids(Current) : Ids(Current) = {i} /\ SetDefault(i)
  BY DEF BindOne
<1>3. i \in schema.unions[Current] /\ \A x \in Sites : Uses(x).key = Current => Wanted(x) = i
  BY <1>1, <1>2, IdsWanted
<1> QED
  BY <1>1, <1>2, <1>3, SetStep

\* Splitting Current: its sites move to the variants, everything else stays.
LEMMA SplitStep == IInv /\ Split => IInv'
<1> SUFFICES ASSUME IInv, Split PROVE IInv'
  OBVIOUS
<1> DEFINE u == Current
<1>1. /\ Binding /\ u \in Unions /\ stage = "bind"
      /\ schema' = schema /\ stage' = stage /\ sites' = sites /\ pos' = pos + 1
  BY DEF Split, Binding
<1>2. \A v : PassedKey(v)' <=> PassedKey(v) \/ v = u
  BY <1>1, Passed
<1>3. ~ PassedKey(u) /\ u \in TypeNames
  BY <1>1, AtCurrent
<1>4. /\ DOMAIN sites[u] = {x \in Sites : Uses(x).key = u}
      /\ \A x \in Sites : Uses(x).key = u => sites[u][x] = Wanted(x)
      /\ Ids(u) = {Wanted(x) : x \in {y \in Sites : Uses(y).key = u}}
      /\ Ids(u) \subseteq schema.unions[u]
  BY <1>1, IdsWanted
<1>5. Ids(u) \subseteq OptionIds
  BY <1>1, <1>4, SchemaFacts DEF IInv, ShapeInv
<1>6. named' = (named \ {<<u, Whole>>}) \cup {<<u, i>> : i \in Ids(u)}
  BY DEF Split
<1>7. default' = [g \in Graph |-> IF g[1] = u /\ g[2] \in Ids(u) THEN g[2] ELSE default[g]]
  BY DEF Split
<1>8. \A at : Repointed(u, at) = [x \in Sites |-> IF Uses(x).key = u THEN <<u, Wanted(x)>> ELSE at[x]]
  BY <1>4 DEF Repointed
<1>9. /\ refKey' = [x \in Sites |-> IF Uses(x).key = u THEN <<u, Wanted(x)>> ELSE refKey[x]]
      /\ target' = [x \in Sites |-> IF Uses(x).key = u THEN <<u, Wanted(x)>> ELSE target[x]]
  BY <1>8 DEF Split
<1>10. /\ \A x \in Sites : Uses(x).key = u => <<u, Wanted(x)>> \in Graph /\ <<u, Wanted(x)>> \in named'
       /\ \A i \in Ids(u) : <<u, i>> \in Graph
  BY <1>3, <1>4, <1>5, <1>6 DEF Graph
<1>11. ShapeInv'
  <2>1. named' \subseteq Graph
    BY <1>6, <1>10 DEF IInv, ShapeInv
  <2>2. refKey' \in [Sites -> Graph] /\ target' \in [Sites -> Graph \cup {Absent}]
    BY <1>9, <1>10 DEF IInv, ShapeInv
  <2>3. default' \in [Graph -> OptionIds \cup {Absent}]
    BY <1>5, <1>7 DEF IInv, ShapeInv
  <2>4. pos' \in Nat \ {0}
    BY <1>1 DEF IInv, ShapeInv
  <2> QED
    BY <2>1, <2>2, <2>3, <2>4, <1>1 DEF IInv, ShapeInv
<1>12. RefsInv'
  <2>1. \A x \in Sites : target[x] = refKey[x] /\ target[x] \in named /\ refKey[x][1] = Uses(x).key
    BY <1>1 DEF IInv, RefsInv
  <2>2. \A x \in Sites : target'[x] = refKey'[x] /\ refKey'[x][1] = Uses(x).key
    BY <2>1, <1>9
  <2>3. \A x \in Sites : target'[x] \in named'
    <3> SUFFICES ASSUME NEW x \in Sites PROVE target'[x] \in named'
      OBVIOUS
    <3>1. CASE Uses(x).key = u
      BY <3>1, <1>9, <1>10
    <3>2. CASE Uses(x).key # u
      <4>1. target'[x] = target[x]
        BY <3>2, <1>9
      <4>2. target[x] # <<u, Whole>>
        BY <3>2, <2>1
      <4> QED
        BY <4>1, <4>2, <2>1, <1>6
    <3> QED
      BY <3>1, <3>2
  <2> QED
    BY <2>2, <2>3, <1>1, SchemaKept DEF RefsInv
<1>13. SitesInv'
  BY <1>1, SchemaKept DEF IInv, SitesInv
<1>14. LoopInv'
  <2>1. \A g \in named' : g[1] \in {schema.order[p] : p \in 1 .. Len(schema.order)}
    <3>1. \E p \in 1 .. Len(schema.order) : schema.order[p] = u
      BY <1>1, SchemaFacts DEF IInv, ShapeInv
    <3> QED
      BY <3>1, <1>6 DEF IInv, LoopInv
  <2>2. \A v \in Unions : PassedKey(v)' => \A x \in Sites : Uses(x).key = v => default'[target'[x]] = Wanted(x)
    <3> SUFFICES ASSUME NEW v \in Unions, PassedKey(v)', NEW x \in Sites, Uses(x).key = v
                 PROVE  default'[target'[x]] = Wanted(x)
      OBVIOUS
    <3>1. CASE Uses(x).key = u
      <4>1. target'[x] = <<u, Wanted(x)>> /\ Wanted(x) \in Ids(u)
        BY <3>1, <1>4, <1>9
      <4> QED
        BY <4>1, <1>7, <1>10
    <3>2. CASE Uses(x).key # u
      <4>1. target'[x] = target[x] /\ target[x] \in Graph /\ target[x][1] # u
        BY <3>2, <1>1, <1>9 DEF IInv, RefsInv, ShapeInv
      <4>2. default[target[x]] = Wanted(x)
        BY <3>2, <1>1, <1>2 DEF IInv, LoopInv
      <4> QED
        BY <4>1, <4>2, <1>7
    <3> QED
      BY <3>1, <3>2
  <2>3. \A g \in named' : g[1] \in Unions /\ PassedKey(g[1])' => default'[g] \in schema.unions[g[1]]
    <3> SUFFICES ASSUME NEW g \in named', g[1] \in Unions, PassedKey(g[1])'
                 PROVE  default'[g] \in schema.unions[g[1]]
      OBVIOUS
    <3>1. CASE g \in {<<u, i>> : i \in Ids(u)}
      BY <3>1, <1>4, <1>7, <1>10
    <3>2. CASE g \in named \ {<<u, Whole>>}
      <4>1. g[1] # u
        BY <3>2, <1>1, <1>3 DEF IInv, LoopInv, Whole1
      <4>2. default[g] \in schema.unions[g[1]]
        BY <3>2, <4>1, <1>1, <1>2 DEF IInv, LoopInv
      <4>3. g \in Graph
        BY <3>2 DEF IInv, ShapeInv
      <4> QED
        BY <4>1, <4>2, <4>3, <1>7
    <3> QED
      BY <3>1, <3>2, <1>6
  <2>4. \A v \in Unions : ~ PassedKey(v)' =>
            /\ \A x \in Sites : Uses(x).key = v => target'[x] = Whole1(v)
            /\ \A g \in named' : g[1] = v => g = Whole1(v)
    <3> SUFFICES ASSUME NEW v \in Unions, ~ PassedKey(v)'
                 PROVE  /\ \A x \in Sites : Uses(x).key = v => target'[x] = Whole1(v)
                        /\ \A g \in named' : g[1] = v => g = Whole1(v)
      OBVIOUS
    <3>1. ~ PassedKey(v) /\ v # u
      BY <1>2
    <3>2. /\ \A x \in Sites : Uses(x).key = v => target[x] = Whole1(v)
          /\ \A g \in named : g[1] = v => g = Whole1(v)
      BY <3>1, <1>1 DEF IInv, LoopInv
    <3> QED
      BY <3>1, <3>2, <1>6, <1>9
  <2> QED
    BY <2>1, <2>2, <2>3, <2>4, <1>1, SchemaKept DEF LoopInv, Whole1
<1> QED
  BY <1>11, <1>12, <1>13, <1>14 DEF IInv

LEMMA FinishStep == IInv /\ Finish => IInv'
<1> SUFFICES ASSUME IInv, Finish PROVE IInv'
  OBVIOUS
<1>1. schema' = schema /\ stage = "bind" /\ stage' = "bound" /\ pos' = pos /\ pos > Len(schema.order)
      /\ named' = named /\ refKey' = refKey /\ target' = target /\ default' = default /\ sites' = sites
  BY DEF Finish
<1>2. \A u : PassedKey(u)' <=> PassedKey(u)
  BY <1>1 DEF PassedKey
<1>3. ShapeInv' /\ RefsInv' /\ SitesInv'
  BY <1>1, SchemaKept DEF IInv, ShapeInv, RefsInv, SitesInv
<1>4. LoopInv'
  BY <1>1, <1>2, SchemaKept DEF IInv, LoopInv, Whole1
<1> QED
  BY <1>3, <1>4 DEF IInv

LEMMA StutterStep == IInv /\ UNCHANGED vars => IInv'
<1> SUFFICES ASSUME IInv, UNCHANGED vars PROVE IInv'
  OBVIOUS
<1>1. schema' = schema /\ stage' = stage /\ pos' = pos /\ named' = named /\ refKey' = refKey
      /\ target' = target /\ default' = default /\ sites' = sites
  BY DEF vars
<1>2. \A u : PassedKey(u)' <=> PassedKey(u)
  BY <1>1 DEF PassedKey
<1>3. ShapeInv' /\ RefsInv' /\ SitesInv'
  BY <1>1, SchemaKept DEF IInv, ShapeInv, RefsInv, SitesInv, Whole1
<1>4. LoopInv'
  BY <1>1, <1>2, SchemaKept DEF IInv, LoopInv, Whole1
<1> QED
  BY <1>3, <1>4 DEF IInv

LEMMA IInvHolds == Spec => []IInv
<1>1. IInv /\ [Next]_vars => IInv'
  BY ResolveStep, CollectStep, SkipStep, UnusedStep, OneStep, SplitStep, FinishStep, StutterStep DEF Next
<1> QED
  BY InitInv, <1>1, PTL DEF Spec

\* Once the loop is through, every union of the schema is behind it.
LEMMA AllPassed == IInv /\ stage = "bound" => \A u \in Unions : PassedKey(u)
<1> SUFFICES ASSUME IInv, stage = "bound", NEW u \in Unions PROVE PassedKey(u)
  OBVIOUS
<1>1. PICK p \in 1 .. Len(schema.order) : schema.order[p] = u
  BY SchemaFacts DEF IInv, ShapeInv
<1>2. pos > Len(schema.order) /\ pos \in Nat /\ Len(schema.order) \in Nat
  BY SchemaFacts DEF IInv, ShapeInv, RefsInv
<1> QED
  BY <1>1, <1>2 DEF PassedKey

\* No reference of the frozen IR points at a union that was split away
\* (splitUnion repoints every site before it deletes the original).
THEOREM NoStale == Spec => []NoStaleTarget
<1>1. IInv => NoStaleTarget
  BY DEF IInv, RefsInv, NoStaleTarget
<1> QED
  BY <1>1, IInvHolds, PTL

\* A fresh union holds, at every site, the default_id written there, else the
\* lowest option id, whatever other sites of the same union ask for.
THEOREM DefaultsBySite == Spec => []SitesGetTheirDefault
<1>1. IInv => SitesGetTheirDefault
  <2> SUFFICES ASSUME IInv, stage = "bound", NEW x \in Sites, schema.uses[x].key \in Unions
               PROVE  target[x][1] = schema.uses[x].key /\ default[target[x]] = Wanted(x)
    BY DEF SitesGetTheirDefault
  <2>1. target[x][1] = schema.uses[x].key
    BY DEF IInv, RefsInv, Uses
  <2>2. default[target[x]] = Wanted(x)
    BY AllPassed DEF IInv, LoopInv, Uses
  <2> QED
    BY <2>1, <2>2
<1> QED
  BY <1>1, IInvHolds, PTL

\* After the analysis DefaultOption is non-nil for every union type of the IR:
\* each carries a DefaultID, and it is one of its options.
THEOREM AllBound == Spec => []EveryUnionBound
<1>1. IInv => EveryUnionBound
  BY AllPassed DEF IInv, LoopInv, EveryUnionBound
<1> QED
  BY <1>1, IInvHolds, PTL

-----------------------------------------------------------------------------
\* Until the loop reaches a type, nothing has set its default.
Unbound ==
    stage \in {"resolve", "collect", "bind"} =>
        \A u \in TypeNames : ~ PassedKey(u) => default[Whole1(u)] = Absent

\* What a step of the loop leaves alone: the defaults of all types but the
\* variants of Current, and the sites of all other keys.
LEMMA OthersKept ==
    ASSUME IInv, Binding, SkipOther \/ BindUnused \/ BindOne \/ Split
    PROVE  /\ schema' = schema /\ stage' = stage /\ stage = "bind" /\ pos' = pos + 1
           /\ \A g \in Graph : g[1] # Current => default'[g] = default[g]
           /\ \A x \in Sites : Uses(x).key # Current => target'[x] = target[x]
<1>1. Current \in TypeNames
  BY AtCurrent
<1>2. default \in [Graph -> OptionIds \cup {Absent}] /\ stage = "bind"
  BY DEF IInv, ShapeInv, Binding
<1>3. CASE SkipOther
  BY <1>2, <1>3 DEF SkipOther
<1>4. ASSUME NEW i, SetDefault(i)
      PROVE  /\ schema' = schema /\ stage' = stage /\ pos' = pos + 1 /\ target' = target
             /\ \A g \in Graph : g[1] # Current => default'[g] = default[g]
  BY <1>2, <1>4 DEF SetDefault
<1>5. CASE BindUnused \/ BindOne
  <2>1. PICK i : SetDefault(i)
    BY <1>5 DEF BindUnused, BindOne
  <2> QED
    BY <1>2, <1>4, <2>1
<1>6. CASE Split
  <2>1. DOMAIN sites[Current] = {x \in Sites : Uses(x).key = Current}
    BY <1>6, IdsWanted DEF Split
  <2> QED
    BY <1>2, <1>6, <2>1 DEF Split, Repointed
<1> QED
  BY <1>3, <1>5, <1>6

LEMMA UnboundInit == Init => Unbound
<1> SUFFICES ASSUME Init, NEW u \in TypeNames PROVE default[Whole1(u)] = Absent
  BY DEF Unbound
<1>1. Whole1(u) \in Graph
  BY DEF Whole1, Graph
<1> QED
  BY <1>1 DEF Init

LEMMA UnboundStep == IInv /\ Unbound /\ [Next]_vars => Unbound'
<1> SUFFICES ASSUME IInv, Unbound, [Next]_vars PROVE Unbound'
  OBVIOUS
<1>1. CASE ResolveRefs \/ Collect
  <2>1. stage \in {"resolve", "collect"} /\ default' = default
    BY <1>1 DEF ResolveRefs, Collect
  <2>2. \A u \in TypeNames : default[Whole1(u)] = Absent
    BY <2>1 DEF Unbound, PassedKey
  <2> QED
    BY <2>1, <2>2 DEF Unbound, Whole1
<1>2. CASE SkipOther \/ BindUnused \/ BindOne \/ Split
  <2>1. Binding
    BY <1>2 DEF SkipOther, BindUnused, BindOne, Split
  <2>2. /\ schema' = schema /\ stage' = stage /\ stage = "bind" /\ pos' = pos + 1
        /\ \A g \in Graph : g[1] # Current => default'[g] = default[g]
    BY <1>2, <2>1, OthersKept
  <2>3. \A u : PassedKey(u)' <=> PassedKey(u) \/ u = Current
    BY <2>1, <2>2, Passed
  <2> SUFFICES ASSUME NEW u \in TypeNames, ~ PassedKey(u)' PROVE default'[Whole1(u)] = Absent
    BY DEF Unbound, Whole1
  <2>4. ~ PassedKey(u) /\ u # Current
    BY <2>3
  <2>5. Whole1(u) \in Graph /\ Whole1(u)[1] = u
    BY DEF Whole1, Graph
  <2> QED
    BY <2>2, <2>4, <2>5 DEF Unbound
<1>3. CASE Finish
  BY <1>3 DEF Finish, Unbound
<1>4. CASE UNCHANGED vars
  <2>1. schema' = schema /\ stage' = stage /\ pos' = pos /\ default' = default
    BY <1>4 DEF vars
  <2>2. \A u : PassedKey(u)' <=> PassedKey(u)
    BY <2>1 DEF PassedKey
  <2> QED
    BY <2>1, <2>2 DEF Unbound, Whole1
<1> QED
  BY <1>1, <1>2, <1>3, <1>4 DEF Next

\* A site whose target is bound is behind the loop, or in no union.
LEMMA BoundIsPassed ==
    ASSUME IInv, Unbound, Binding, NEW x \in Sites, default[target[x]] # Absent
    PROVE  Uses(x).key = Current => Current \notin Unions
<1> SUFFICES ASSUME Uses(x).key = Current, Current \in Unions PROVE FALSE
  OBVIOUS
<1>1. ~ PassedKey(Current) /\ Current \in TypeNames /\ stage = "bind"
  BY AtCurrent DEF Binding
<1>2. target[x] = Whole1(Current)
  BY <1>1 DEF IInv, LoopInv
<1> QED
  BY <1>1, <1>2 DEF Unbound

\* One step of the analysis repoints no site whose target has a default, and
\* changes no such default.
LEMMA BoundStaysStep ==
    ASSUME IInv, Unbound, [Next]_vars, NEW x \in Sites,
           target[x] # Absent, target[x] \in Graph, default[target[x]] # Absent
    PROVE  target'[x] = target[x] /\ default'[target[x]] = default[target[x]]
<1>1. CASE ResolveRefs
  BY <1>1 DEF ResolveRefs, IInv, RefsInv
<1>2. CASE Collect \/ Finish \/ SkipOther
  BY <1>2 DEF Collect, Finish, SkipOther
<1>3. CASE BindUnused \/ BindOne \/ Split
  <2>1. Binding /\ Current \in Unions
    BY <1>3 DEF BindUnused, BindOne, Split
  <2>2. /\ \A g \in Graph : g[1] # Current => default'[g] = default[g]
        /\ \A y \in Sites : Uses(y).key # Current => target'[y] = target[y]
    BY <1>3, <2>1, OthersKept
  <2>3. Uses(x).key # Current
    BY <2>1, BoundIsPassed
  <2>4. target[x][1] = Uses(x).key
    BY <2>1 DEF IInv, RefsInv, Binding
  <2> QED
    BY <2>2, <2>3, <2>4
<1>4. CASE UNCHANGED vars
  BY <1>4 DEF vars
<1> QED
  BY <1>1, <1>2, <1>3, <1>4 DEF Next

\* What the loop of bindUnionDefaults has bound stays bound, though it walks
\* sites gathered before it and rewrites them: no later split repoints a site
\* that has its default, or changes that default.
THEOREM NeverRebound == Spec => BoundStays
<1>1. IInv /\ Unbound /\ [Next]_vars =>
        [\A x \in Sites :
            target[x] # Absent /\ target[x] \in Graph /\ default[target[x]] # Absent =>
                target'[x] = target[x] /\ default'[target[x]] = default[target[x]]]_vars
  BY BoundStaysStep
<1> QED
  BY <1>1, UnboundInit, UnboundStep, IInvHolds, PTL DEF Spec, BoundStays

-----------------------------------------------------------------------------
(* The order of the types.                                                 *)

\* The variants of a union, in the order they are put into NamedOrder.
LEMMA VariantsAscend ==
    ASSUME IInv, Binding, Current \in Unions
    PROVE  \E k \in Nat :
              /\ Variants(Current) \in Seq(Graph) /\ Len(Variants(Current)) = k
              /\ {Variants(Current)[i] : i \in 1 .. k} = {<<Current, i>> : i \in Ids(Current)}
              /\ \A i \in 1 .. k : Variants(Current)[i][1] = Current /\ Variants(Current)[i][2] \in OptionIds
              /\ \A i, j \in 1 .. k : i < j => Variants(Current)[i][2] < Variants(Current)[j][2]
<1>0. PICK S : S = Ids(Current)
  OBVIOUS
<1>1. S \subseteq Nat /\ S \subseteq OptionIds /\ IsFiniteSet(S)
  <2>1. Ids(Current) \subseteq schema.unions[Current]
    BY IdsWanted
  <2>2. IsSchema(schema)
    BY UnionAssumption DEF IInv, ShapeInv
  <2>3. schema.unions[Current] \subseteq OptionIds /\ IsFiniteSet(schema.unions[Current])
    BY <2>2 DEF IsSchema, Unions
  <2> QED
    BY <1>0, <2>1, <2>3, FS_Subset, UnionAssumption
<1>2. PICK k \in Nat : k = Cardinality(S)
  BY <1>1, FS_CardinalityType
<1>3. PICK s : s = Ascending(S)
  OBVIOUS
<1>4. s \in [1 .. k -> S] /\ Range(s) = S /\ \A i, j \in 1 .. k : i < j => s[i] < s[j]
  BY <1>1, <1>2, <1>3, AscendingExists DEF IsAscending
<1>5. Variants(Current) = [i \in 1 .. k |-> <<Current, s[i]>>]
  BY <1>0, <1>2, <1>3 DEF Variants
<1>6. Current \in TypeNames
  BY AtCurrent
<1>7. \A i \in 1 .. k : <<Current, s[i]>> \in Graph
  BY <1>1, <1>4, <1>6 DEF Graph
<1>8. Variants(Current) \in Seq(Graph) /\ Len(Variants(Current)) = k
  BY <1>5, <1>7
<1>9. {Variants(Current)[i] : i \in 1 .. k} = {<<Current, i>> : i \in S}
  <2>1. S = {s[i] : i \in 1 .. k}
    BY <1>4 DEF Range
  <2>2. \A i \in 1 .. k : Variants(Current)[i] = <<Current, s[i]>>
    BY <1>5
  <2> QED
    BY <2>1, <2>2
<1>10. \A i \in 1 .. k : Variants(Current)[i][1] = Current /\ Variants(Current)[i][2] = s[i]
  BY <1>5
<1> QED
  BY <1>0, <1>1, <1>4, <1>8, <1>9, <1>10

\* A sequence with its element p replaced by a sequence.
Spliced(s, new, p) == SubSeq(s, 1, p - 1) \o new \o SubSeq(s, p + 1, Len(s))

IsSplice(G, r, s, new, p) ==
    /\ r \in Seq(G)
    /\ Len(r) = (Len(s) - 1) + Len(new)
    /\ \A i \in 1 .. p - 1 : r[i] = s[i]
    /\ \A i \in 1 .. Len(new) : r[(p - 1) + i] = new[i]
    /\ \A i \in p + 1 .. Len(s) : r[(i - 1) + Len(new)] = s[i]

LEMMA ReplacedProperties ==
    ASSUME NEW G, NEW s \in Seq(G), NEW new \in Seq(G), NEW p \in 1 .. Len(s), NEW r,
           r = Spliced(s, new, p)
    PROVE  IsSplice(G, r, s, new, p)
<1>0. PICK n \in Nat, k \in Nat : n = Len(s) /\ k = Len(new)
  BY LenProperties
<1>1. PICK a, c : a = SubSeq(s, 1, p - 1) /\ c = SubSeq(s, p + 1, n)
  OBVIOUS
<1>2. p \in 1 .. n /\ p \in Int
  BY <1>0
<1>3. \A i \in 1 .. p - 1 : s[i] \in G
  BY <1>0, <1>2, ElementOfSeq
<1>4. /\ a \in Seq(G)
      /\ Len(a) = IF 1 <= p - 1 THEN (p - 1) - 1 + 1 ELSE 0
      /\ \A i \in 1 .. (p - 1) - 1 + 1 : a[i] = s[1 + i - 1]
  BY <1>1, <1>2, <1>3, SubSeqProperties
<1>5. Len(a) = p - 1 /\ \A i \in 1 .. p - 1 : a[i] = s[i]
  <2>1. (IF 1 <= p - 1 THEN (p - 1) - 1 + 1 ELSE 0) = p - 1
    BY <1>2
  <2>2. ASSUME NEW i \in 1 .. p - 1 PROVE a[i] = s[i]
    <3>1. i \in 1 .. (p - 1) - 1 + 1 /\ 1 + i - 1 = i
      BY <1>2
    <3> QED
      BY <1>4, <3>1, Zenon
  <2> QED
    BY <1>4, <2>1, <2>2
<1>6. \A i \in p + 1 .. n : s[i] \in G
  BY <1>0, <1>2, ElementOfSeq
<1>7. /\ c \in Seq(G)
      /\ Len(c) = IF p + 1 <= n THEN n - (p + 1) + 1 ELSE 0
      /\ \A i \in 1 .. n - (p + 1) + 1 : c[i] = s[(p + 1) + i - 1]
  BY <1>0, <1>1, <1>2, <1>6, SubSeqProperties
<1>8. Len(c) = n - p /\ \A i \in 1 .. n - p : c[i] = s[p + i]
  <2>1. (IF p + 1 <= n THEN n - (p + 1) + 1 ELSE 0) = n - p
    BY <1>2
  <2>2. \A i \in 1 .. n - p : i \in 1 .. n - (p + 1) + 1 /\ (p + 1) + i - 1 = p + i
    BY <1>2
  <2> QED
    BY <1>7, <2>1, <2>2, Zenon
<1>10. PICK d : d = a \o new
  OBVIOUS
<1>9. /\ d \in Seq(G)
      /\ Len(d) = (p - 1) + k
      /\ \A i \in 1 .. (p - 1) + k : d[i] = IF i <= p - 1 THEN a[i] ELSE new[i - (p - 1)]
  <2>1. IsJoin(G, d, a, new)
    BY <1>4, <1>10, Joined
  <2> QED
    BY <1>0, <1>5, <2>1, Zenon DEF IsJoin
<1>11. /\ r \in Seq(G)
       /\ Len(r) = ((p - 1) + k) + (n - p)
       /\ \A i \in 1 .. ((p - 1) + k) + (n - p) :
             r[i] = IF i <= (p - 1) + k THEN d[i] ELSE c[i - ((p - 1) + k)]
  <2>1. r = d \o c
    BY <1>0, <1>1, <1>10 DEF Spliced
  <2>2. d \in Seq(G) /\ Len(d) = (p - 1) + k
    BY <1>9, <1>10
  <2>3. c \in Seq(G) /\ Len(c) = n - p
    BY <1>7, <1>8
  <2>4. IsJoin(G, r, d, c)
    BY <2>1, <2>2, <2>3, Joined
  <2> QED
    BY <2>2, <2>3, <2>4, Zenon DEF IsJoin
<1>12. ASSUME NEW i \in 1 .. p - 1 PROVE r[i] = s[i]
  <2>1. /\ i \in 1 .. ((p - 1) + k) + (n - p) /\ i <= (p - 1) + k
        /\ i \in 1 .. (p - 1) + k /\ i <= p - 1
    BY <1>2
  <2> QED
    BY <1>5, <1>9, <1>10, <1>11, <2>1
<1>13. ASSUME NEW i \in 1 .. k PROVE r[(p - 1) + i] = new[i]
  <2>1. /\ (p - 1) + i \in 1 .. ((p - 1) + k) + (n - p) /\ (p - 1) + i <= (p - 1) + k
        /\ (p - 1) + i \in 1 .. (p - 1) + k /\ ~ ((p - 1) + i <= p - 1)
        /\ ((p - 1) + i) - (p - 1) = i
    BY <1>2
  <2> QED
    BY <1>9, <1>10, <1>11, <2>1
<1>14. ASSUME NEW i \in p + 1 .. n PROVE r[(i - 1) + k] = s[i]
  <2>1. /\ (i - 1) + k \in 1 .. ((p - 1) + k) + (n - p) /\ ~ ((i - 1) + k <= (p - 1) + k)
        /\ ((i - 1) + k) - ((p - 1) + k) = i - p
        /\ i - p \in 1 .. n - p /\ p + (i - p) = i
    BY <1>2
  <2> QED
    BY <1>8, <1>11, <2>1
<1>15. ((p - 1) + k) + (n - p) = (n - 1) + k
  BY <1>2
<1> QED
  BY <1>0, <1>11, <1>12, <1>13, <1>14, <1>15 DEF IsSplice

\* g is listed before h: under an earlier key, or as a variant with a lower id.
Before(g, h) ==
    \/ Place(g) < Place(h)
    \/ g[1] = h[1] /\ g[2] \in OptionIds /\ h[2] \in OptionIds /\ g[2] < h[2]

\* The order at every step; OrderKept does not say that ids are compared.
OrderInv ==
    /\ order \in Seq(Graph)
    /\ {order[i] : i \in 1 .. Len(order)} = named
    /\ \A i, j \in 1 .. Len(order) : i < j => Before(order[i], order[j])

LEMMA PlaceIs ==
    ASSUME schema \in Schemas, NEW p \in 1 .. Len(schema.order), NEW g, g[1] = schema.order[p]
    PROVE  Place(g) = p
<1>1. \A q \in 1 .. Len(schema.order) : schema.order[q] = g[1] <=> q = p
  BY SchemaFacts
<1> QED
  BY <1>1 DEF Place

LEMMA OrderInit == Init => OrderInv
<1> SUFFICES ASSUME Init PROVE OrderInv
  OBVIOUS
<1>1. schema \in Schemas
  BY DEF Init
<1>2. PICK n \in Nat : n = Len(schema.order)
  BY <1>1, SchemaFacts
<1>3. order = [i \in 1 .. n |-> <<schema.order[i], Whole>>]
  BY <1>2 DEF Init
<1>4. \A i \in 1 .. n : order[i] = <<schema.order[i], Whole>> /\ order[i] \in Graph
  BY <1>1, <1>2, <1>3, SchemaFacts DEF Graph
<1>5. order \in Seq(Graph) /\ Len(order) = n
  BY <1>3, <1>4
<1>6. {order[i] : i \in 1 .. n} = named
  BY <1>2, <1>4 DEF Init
<1>7. \A i \in 1 .. n : Place(order[i]) = i
  BY <1>1, <1>2, <1>4, PlaceIs
<1>8. \A i, j \in 1 .. n : i < j => Before(order[i], order[j])
  BY <1>7 DEF Before
<1> QED
  BY <1>5, <1>6, <1>8 DEF OrderInv

\* The type the loop is at, if it has a site, is listed once, and everything
\* listed before it has an earlier key, everything after it a later one.
LEMMA AroundCurrent ==
    ASSUME IInv, OrderInv, Binding, Current \in Unions, Ids(Current) # {}
    PROVE  \E p \in 1 .. Len(order) :
              /\ order[p] = <<Current, Whole>>
              /\ \A q \in 1 .. Len(order) : order[q] = <<Current, Whole>> => q = p
              /\ \A q \in 1 .. Len(order) : q < p => Place(order[q]) < Place(<<Current, Whole>>)
              /\ \A q \in 1 .. Len(order) : p < q => Place(<<Current, Whole>>) < Place(order[q])
              /\ \A q \in 1 .. Len(order) : q # p => order[q][1] # Current
<1> DEFINE u == Current
           w == <<u, Whole>>
<1>1. stage = "bind" /\ ~ PassedKey(u)
  BY AtCurrent DEF Binding
<1>2. PICK x \in Sites : Uses(x).key = u
  BY IdsWanted
<1>3. target[x] = w /\ target[x] \in named
  BY <1>1, <1>2 DEF IInv, LoopInv, RefsInv, Whole1
<1>4. PICK p \in 1 .. Len(order) : order[p] = w
  BY <1>3 DEF OrderInv
<1>5. Len(order) \in Nat
  BY DEF OrderInv
<1>6. Place(w) \in Nat
  <2>1. PICK q \in 1 .. Len(schema.order) : schema.order[q] = u
    BY SchemaFacts DEF IInv, ShapeInv
  <2>2. Place(w) = q
    BY <2>1, PlaceIs DEF IInv, ShapeInv
  <2> QED
    BY <2>2
<1>7. ~ Before(w, w)
  BY <1>6, UnionAssumption DEF Before
<1>8. \A q \in 1 .. Len(order) : order[q] = w => q = p
  <2> SUFFICES ASSUME NEW q \in 1 .. Len(order), order[q] = w, q # p PROVE FALSE
    OBVIOUS
  <2>1. q < p \/ p < q
    BY <1>5
  <2> QED
    BY <1>4, <1>7, <2>1 DEF OrderInv
<1>9. \A q \in 1 .. Len(order) : q # p => order[q][1] # u
  <2> SUFFICES ASSUME NEW q \in 1 .. Len(order), order[q][1] = u PROVE q = p
    OBVIOUS
  <2>1. order[q] \in named
    BY DEF OrderInv
  <2>2. order[q] = w
    BY <1>1, <2>1 DEF IInv, LoopInv, Whole1
  <2> QED
    BY <1>8, <2>2
<1>10. \A q \in 1 .. Len(order) : q < p => Place(order[q]) < Place(w)
  <2> SUFFICES ASSUME NEW q \in 1 .. Len(order), q < p PROVE Place(order[q]) < Place(w)
    OBVIOUS
  <2>1. Before(order[q], w) /\ order[q][1] # u
    BY <1>4, <1>5, <1>9 DEF OrderInv
  <2> QED
    BY <2>1 DEF Before
<1>11. \A q \in 1 .. Len(order) : p < q => Place(w) < Place(order[q])
  <2> SUFFICES ASSUME NEW q \in 1 .. Len(order), p < q PROVE Place(w) < Place(order[q])
    OBVIOUS
  <2>1. Before(w, order[q]) /\ order[q][1] # u
    BY <1>4, <1>5, <1>9 DEF OrderInv
  <2> QED
    BY <2>1 DEF Before
<1> QED
  BY <1>4, <1>8, <1>9, <1>10, <1>11

\* Splitting puts the variants where the union was.
LEMMA OrderSplit == IInv /\ OrderInv /\ Split => OrderInv'
<1> SUFFICES ASSUME IInv, OrderInv, Split PROVE OrderInv'
  OBVIOUS
<1>0. PICK u, w, new, n : u = Current /\ w = <<u, Whole>> /\ new = Variants(u) /\ n = Len(order)
  OBVIOUS
<1>1. /\ Binding /\ u \in Unions /\ Ids(u) # {} /\ schema' = schema
      /\ named' = (named \ {w}) \cup {<<u, i>> : i \in Ids(u)}
      /\ order' = Replaced(w, new)
  BY <1>0 DEF Split
<1>2. PICK p \in 1 .. n :
         /\ order[p] = w
         /\ \A q \in 1 .. n : order[q] = w => q = p
         /\ \A q \in 1 .. n : q < p => Place(order[q]) < Place(w)
         /\ \A q \in 1 .. n : p < q => Place(w) < Place(order[q])
         /\ \A q \in 1 .. n : q # p => order[q][1] # u
  BY <1>0, <1>1, AroundCurrent
<1>3. PICK k \in Nat :
         /\ new \in Seq(Graph) /\ Len(new) = k
         /\ {new[i] : i \in 1 .. k} = {<<u, i>> : i \in Ids(u)}
         /\ \A i \in 1 .. k : new[i][1] = u /\ new[i][2] \in OptionIds
         /\ \A i, j \in 1 .. k : i < j => new[i][2] < new[j][2]
  BY <1>0, <1>1, VariantsAscend
<1>4. order' = SubSeq(order, 1, p - 1) \o new \o SubSeq(order, p + 1, Len(order))
  <2>1. (CHOOSE q \in 1 .. Len(order) : order[q] = w) = p
    BY <1>0, <1>2
  <2> QED
    BY <1>1, <2>1 DEF Replaced
<1>5. order \in Seq(Graph) /\ n \in Nat /\ p \in Nat
  BY <1>0, <1>2 DEF OrderInv
<1>6. /\ order' \in Seq(Graph)
      /\ Len(order') = (n - 1) + k
      /\ \A i \in 1 .. p - 1 : order'[i] = order[i]
      /\ \A i \in 1 .. k : order'[(p - 1) + i] = new[i]
      /\ \A i \in p + 1 .. n : order'[(i - 1) + k] = order[i]
  <2>1. PICK o, r : o = order /\ r = order'
    OBVIOUS
  <2>a. /\ o \in Seq(Graph) /\ new \in Seq(Graph) /\ p \in 1 .. Len(o)
        /\ r = Spliced(o, new, p)
    BY <1>0, <1>3, <1>4, <1>5, <2>1 DEF Spliced
  <2>b. IsSplice(Graph, r, o, new, p)
    BY <2>a, ReplacedProperties
  <2>2. /\ order' \in Seq(Graph)
        /\ Len(order') = (Len(order) - 1) + Len(new)
        /\ \A i \in 1 .. p - 1 : order'[i] = order[i]
        /\ \A i \in 1 .. Len(new) : order'[(p - 1) + i] = new[i]
        /\ \A i \in p + 1 .. Len(order) : order'[(i - 1) + Len(new)] = order[i]
    BY <2>1, <2>b, Zenon DEF IsSplice
  <2> QED
    BY <1>0, <1>3, <2>2, Zenon
\* The three parts of the new order.
<1>7. ASSUME NEW i \in 1 .. (n - 1) + k
      PROVE  \/ i \in 1 .. p - 1 /\ order'[i] = order[i]
             \/ \E a \in 1 .. k : i = (p - 1) + a /\ order'[i] = new[a]
             \/ \E a \in p + 1 .. n : i = (a - 1) + k /\ order'[i] = order[a]
  <2>1. CASE i \in 1 .. p - 1
    BY <1>6, <2>1
  <2>2. CASE i >= p /\ i < p + k
    <3>1. i - (p - 1) \in 1 .. k /\ i = (p - 1) + (i - (p - 1))
      BY <1>5, <2>2
    <3> QED
      BY <1>6, <3>1
  <2>3. CASE i >= p + k
    <3>1. (i - k) + 1 \in p + 1 .. n /\ i = (((i - k) + 1) - 1) + k
      BY <1>5, <2>3
    <3> QED
      BY <1>6, <3>1
  <2>4. i \in 1 .. p - 1 \/ (i >= p /\ i < p + k) \/ i >= p + k
    BY <1>5
  <2> QED
    BY <2>1, <2>2, <2>3, <2>4
<1>8. \A g : Place(g)' = Place(g)
  BY <1>1 DEF Place
<1>9. \A i \in 1 .. k : Place(new[i]) = Place(w)
  <2>1. PICK q \in 1 .. Len(schema.order) : schema.order[q] = u
    BY <1>1, SchemaFacts DEF IInv, ShapeInv
  <2>2. Place(w) = q /\ \A i \in 1 .. k : Place(new[i]) = q
    BY <1>0, <1>3, <2>1, PlaceIs DEF IInv, ShapeInv
  <2> QED
    BY <2>2
<1>10. ASSUME NEW i \in 1 .. (n - 1) + k, NEW j \in 1 .. (n - 1) + k, i < j
       PROVE  Before(order'[i], order'[j])
  <2>1. CASE i \in 1 .. p - 1 /\ order'[i] = order[i]
    <3>1. i \in 1 .. n /\ i < p
      BY <1>5, <2>1
    <3>2. CASE j \in 1 .. p - 1 /\ order'[j] = order[j]
      <4>1. j \in 1 .. n
        BY <1>5, <3>2
      <4> QED
        BY <1>0, <1>10, <2>1, <3>1, <3>2, <4>1 DEF OrderInv
    <3>3. ASSUME NEW b \in 1 .. k, order'[j] = new[b] PROVE Before(order'[i], order'[j])
      BY <1>2, <1>9, <2>1, <3>1, <3>3 DEF Before
    <3>4. ASSUME NEW b \in p + 1 .. n, order'[j] = order[b] PROVE Before(order'[i], order'[j])
      <4>1. b \in 1 .. n /\ i < b
        BY <1>5, <3>1
      <4> QED
        BY <1>0, <2>1, <3>1, <3>4, <4>1 DEF OrderInv
    <3> QED
      BY <1>7, <3>2, <3>3, <3>4
  <2>2. ASSUME NEW a \in 1 .. k, i = (p - 1) + a, order'[i] = new[a] PROVE Before(order'[i], order'[j])
    <3>1. ~ j \in 1 .. p - 1
      BY <1>5, <1>10, <2>2
    <3>2. ASSUME NEW b \in 1 .. k, j = (p - 1) + b, order'[j] = new[b] PROVE Before(order'[i], order'[j])
      <4>1. a < b
        BY <1>5, <1>10, <2>2, <3>2
      <4> QED
        BY <1>3, <2>2, <3>2, <4>1 DEF Before
    <3>3. ASSUME NEW b \in p + 1 .. n, order'[j] = order[b] PROVE Before(order'[i], order'[j])
      <4>1. b \in 1 .. n /\ p < b
        BY <1>5
      <4> QED
        BY <1>2, <1>9, <2>2, <3>3, <4>1 DEF Before
    <3> QED
      BY <1>7, <3>1, <3>2, <3>3
  <2>3. ASSUME NEW a \in p + 1 .. n, i = (a - 1) + k, order'[i] = order[a] PROVE Before(order'[i], order'[j])
    <3>1. ~ j \in 1 .. p - 1 /\ \A b \in 1 .. k : j # (p - 1) + b
      BY <1>5, <1>10, <2>3
    <3>2. PICK b \in p + 1 .. n : j = (b - 1) + k /\ order'[j] = order[b]
      BY <1>7, <3>1
    <3>3. a \in 1 .. n /\ b \in 1 .. n /\ a < b
      BY <1>5, <1>10, <2>3, <3>2
    <3> QED
      BY <1>0, <2>3, <3>2, <3>3 DEF OrderInv
  <2> QED
    BY <1>7, <2>1, <2>2, <2>3
<1>11. {order'[i] : i \in 1 .. (n - 1) + k} = named'
  <2>1. ASSUME NEW i \in 1 .. (n - 1) + k PROVE order'[i] \in named'
    <3>1. CASE i \in 1 .. p - 1 /\ order'[i] = order[i]
      <4>1. i \in 1 .. n /\ i # p
        BY <1>5, <3>1
      <4>2. order[i] # w /\ order[i] \in named
        BY <1>0, <1>2, <4>1 DEF OrderInv
      <4> QED
        BY <1>1, <3>1, <4>2
    <3>2. ASSUME NEW a \in 1 .. k, order'[i] = new[a] PROVE order'[i] \in named'
      BY <1>1, <1>3, <3>2
    <3>3. ASSUME NEW a \in p + 1 .. n, order'[i] = order[a] PROVE order'[i] \in named'
      <4>1. a \in 1 .. n /\ a # p
        BY <1>5
      <4>2. order[a] # w /\ order[a] \in named
        BY <1>0, <1>2, <4>1 DEF OrderInv
      <4> QED
        BY <1>1, <3>3, <4>2
    <3> QED
      BY <1>7, <3>1, <3>2, <3>3
  <2>2. ASSUME NEW g \in named' PROVE \E i \in 1 .. (n - 1) + k : order'[i] = g
    <3>1. CASE g \in {<<u, i>> : i \in Ids(u)}
      <4>1. PICK a \in 1 .. k : new[a] = g
        BY <1>3, <3>1
      <4>2. (p - 1) + a \in 1 .. (n - 1) + k
        BY <1>5
      <4> QED
        BY <1>6, <4>1, <4>2
    <3>2. CASE g \in named \ {w}
      <4>1. PICK a \in 1 .. n : order[a] = g
        BY <1>0, <3>2 DEF OrderInv
      <4>2. a # p
        BY <1>2, <3>2, <4>1
      <4>3. CASE a < p
        <5>1. a \in 1 .. p - 1 /\ a \in 1 .. (n - 1) + k
          BY <1>5, <4>3
        <5> QED
          BY <1>6, <4>1, <5>1
      <4>4. CASE a > p
        <5>1. a \in p + 1 .. n /\ (a - 1) + k \in 1 .. (n - 1) + k
          BY <1>5, <4>4
        <5> QED
          BY <1>6, <4>1, <5>1
      <4> QED
        BY <1>5, <4>2, <4>3, <4>4
    <3> QED
      BY <1>1, <3>1, <3>2
  <2> QED
    BY <2>1, <2>2
<1>12. ASSUME NEW i \in 1 .. Len(order'), NEW j \in 1 .. Len(order'), i < j
       PROVE  Before(order[i], order[j])'
  <2>1. Before(order'[i], order'[j])
    BY <1>6, <1>10, <1>12
  <2>2. Place(order[i])' = Place(order'[i]) /\ Place(order[j])' = Place(order'[j])
    BY <1>1 DEF Place
  <2> QED
    BY <2>1, <2>2 DEF Before
<1> QED
  BY <1>6, <1>11, <1>12 DEF OrderInv

LEMMA OrderStep == IInv /\ OrderInv /\ [Next]_vars => OrderInv'
<1> SUFFICES ASSUME IInv, OrderInv, [Next]_vars PROVE OrderInv'
  OBVIOUS
<1>1. ASSUME schema' = schema, order' = order, named' = named PROVE OrderInv'
  <2>1. \A g : Place(g)' = Place(g)
    BY <1>1 DEF Place
  <2> QED
    BY <1>1, <2>1 DEF OrderInv, Before
<1>2. CASE ResolveRefs \/ Collect \/ SkipOther \/ Finish \/ UNCHANGED vars
  <2>1. schema' = schema /\ order' = order /\ named' = named
    BY <1>2 DEF vars, ResolveRefs, Collect, SkipOther, Finish
  <2> QED
    BY <1>1, <2>1
<1>3. CASE BindUnused \/ BindOne
  <2>1. PICK i : SetDefault(i)
    BY <1>3 DEF BindUnused, BindOne
  <2>2. schema' = schema /\ order' = order /\ named' = named
    BY <2>1 DEF SetDefault
  <2> QED
    BY <1>1, <2>2
<1> QED
  BY <1>2, <1>3, OrderSplit DEF Next

\* NamedOrder lists the registered types at every step, each once, in the order
\* of the schema, and the variants of a split union in its place, ascending by
\* their default (splitUnion edits the list that bindUnionDefaults walks a copy of).
THEOREM OrderAlwaysKept == Spec => []OrderKept
<1>1. OrderInv => OrderKept
  BY DEF OrderInv, OrderKept, Before
<1> QED
  BY <1>1, IInvHolds, OrderInit, OrderStep, PTL DEF Spec

=============================================================================
