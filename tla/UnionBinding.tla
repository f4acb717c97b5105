---------------------------- MODULE UnionBinding ----------------------------
(***************************************************************************)
(* Union defaults in internal/analysis/analysis.go.                        *)
(*                                                                         *)
(* Which option a fresh union holds (default_id) is written where a union  *)
(* is USED, but every generated constructor needs it on the TYPE.          *)
(* bindUnionDefaults therefore splits a $defs union used with several      *)
(* defaults into one variant per default and repoints each use at its      *)
(* variant, while it walks the very order it rewrites.                     *)
(*                                                                         *)
(* A type object is named by the graph key it is registered under: the key *)
(* of the schema (variant Whole), or that key and the option a variant     *)
(* defaults to (option names are unique in a union, so is its id).         *)
(***************************************************************************)
EXTENDS Naturals, Sequences, FiniteSets, SequencesExt, Orders

CONSTANTS
    TypeNames,  \* keys of schema.Named
    Sites,      \* every TypeRef of the schema
    OptionIds,  \* option ids
    Whole,      \* the variant of a type that is not split
    Absent,     \* no default_id written, no DefaultID bound, no target yet
    Schemas     \* what model.Build may hand over

Graph == TypeNames \X (OptionIds \cup {Whole})

\* unions: the option ids of each union; order: NamedOrder; uses: for each
\* site the key it names and its default_id.  The validator has refused an
\* empty union and a default_id that is no option of its union.
IsSchema(s) ==
    /\ \A i \in 1 .. Len(s.order) : s.order[i] \in TypeNames
    /\ s.order \in Seq(TypeNames)
    /\ \A i, j \in 1 .. Len(s.order) : s.order[i] = s.order[j] => i = j
    /\ DOMAIN s.unions \subseteq {s.order[i] : i \in 1 .. Len(s.order)}
    /\ \A u \in DOMAIN s.unions : /\ s.unions[u] \in SUBSET OptionIds
                                  /\ s.unions[u] # {} /\ IsFiniteSet(s.unions[u])
    /\ s.uses \in [Sites -> [key : TypeNames, id : OptionIds \cup {Absent}]]
    /\ \A x \in Sites :
          s.uses[x].id # Absent => /\ s.uses[x].key \in DOMAIN s.unions
                                   /\ s.uses[x].id \in s.unions[s.uses[x].key]

ASSUME UnionAssumption ==
    /\ OptionIds \subseteq Nat
    /\ Whole \notin OptionIds
    /\ Absent \notin OptionIds
    /\ Absent \notin Graph
    /\ \A s \in Schemas : IsSchema(s)

VARIABLES
    schema,   \* as built; read, never changed
    named,    \* the keys of schema.Named
    order,    \* schema.NamedOrder
    refKey,   \* TypeRef.Key of each site
    target,   \* TypeRef.Target of each site
    default,  \* NamedType.DefaultID of each type object
    sites,    \* the sites of each union, with their effective default_id
    stage,    \* "resolve", "collect", "bind", then "bound" or "failed"
    pos       \* next key of the copied order

vars == <<schema, named, order, refKey, target, default, sites, stage, pos>>

Unions == DOMAIN schema.unions

Lowest(u) == CHOOSE i \in schema.unions[u] : \A j \in schema.unions[u] : i <= j

Init ==
    /\ schema \in Schemas
    /\ named = {<<schema.order[i], Whole>> : i \in 1 .. Len(schema.order)}
    /\ order = [i \in 1 .. Len(schema.order) |-> <<schema.order[i], Whole>>]
    /\ refKey = [x \in Sites |-> <<schema.uses[x].key, Whole>>]
    /\ target = [x \in Sites |-> Absent]
    /\ default = [g \in Graph |-> Absent]
    /\ sites = << >>
    /\ stage = "resolve"
    /\ pos = 1

-----------------------------------------------------------------------------
\* Every reference gets its type; one that names none fails the analysis.
ResolveRefs ==
    /\ stage = "resolve"
    /\ target' = [x \in Sites |-> IF refKey[x] \in named THEN refKey[x] ELSE Absent]
    /\ stage' = IF \A x \in Sites : refKey[x] \in named THEN "collect" ELSE "failed"
    /\ UNCHANGED <<schema, named, order, refKey, default, sites, pos>>

\* Faults: the default_id of the site is not looked at; only the sites that
\* write one are collected.
EffectiveLowest(x) == Lowest(target[x][1])
CollectedExplicit(u) == {x \in Sites : target[x] = <<u, Whole>> /\ schema.uses[x].id # Absent}

\* A site's own default_id, else the lowest option id.
Effective(x) ==
    IF schema.uses[x].id # Absent THEN schema.uses[x].id ELSE Lowest(target[x][1])

Collected(u) == {x \in Sites : target[x] = <<u, Whole>>}

Collect ==
    /\ stage = "collect"
    /\ sites' = [u \in Unions |-> [x \in Collected(u) |-> Effective(x)]]
    /\ stage' = "bind"
    /\ UNCHANGED <<schema, named, order, refKey, target, default, pos>>

-----------------------------------------------------------------------------
\* The loop runs over a copy of the order made before any split.
Binding == stage = "bind" /\ pos <= Len(schema.order)
Current == schema.order[pos]

Ids(u) == {sites[u][x] : x \in DOMAIN sites[u]}

SkipOther ==
    /\ Binding
    /\ Current \notin Unions
    /\ pos' = pos + 1
    /\ UNCHANGED <<schema, named, order, refKey, target, default, sites, stage>>

\* Fault: DefaultID points at a variable the iterations share, so every type
\* bound so far changes with it.
SetDefaultShared(i) ==
    /\ default' = [g \in Graph |-> IF g = <<Current, Whole>> \/ default[g] # Absent
                                   THEN i ELSE default[g]]
    /\ pos' = pos + 1
    /\ UNCHANGED <<schema, named, order, refKey, target, sites, stage>>

SetDefault(i) ==
    /\ default' = [default EXCEPT ![<<Current, Whole>>] = i]
    /\ pos' = pos + 1
    /\ UNCHANGED <<schema, named, order, refKey, target, sites, stage>>

\* Fault: a union no site uses is passed over.
BindUnusedSkipped ==
    /\ Binding
    /\ Current \in Unions
    /\ Ids(Current) = {}
    /\ pos' = pos + 1
    /\ UNCHANGED <<schema, named, order, refKey, target, default, sites, stage>>

BindUnused ==
    /\ Binding
    /\ Current \in Unions
    /\ Ids(Current) = {}
    /\ SetDefault(Lowest(Current))

BindOne ==
    /\ Binding
    /\ Current \in Unions
    /\ \E i \in Ids(Current) : Ids(Current) = {i} /\ SetDefault(i)

\* Variants in ascending id order.
Variants(u) == [i \in 1 .. Cardinality(Ids(u)) |-> <<u, Ascending(Ids(u))[i]>>]

\* Fault: the variants are appended to the order.
ReplacedAtEnd(g, new) == SelectSeq(order, LAMBDA h : h # g) \o new

\* The order with the type at g replaced, in place, by a sequence of types.
Replaced(g, new) ==
    LET p == CHOOSE q \in 1 .. Len(order) : order[q] = g
    IN SubSeq(order, 1, p - 1) \o new \o SubSeq(order, p + 1, Len(order))

\* The sites of u repointed, each at the variant with its default.
Repointed(u, at) ==
    [x \in Sites |-> IF x \in DOMAIN sites[u] THEN <<u, sites[u][x]>> ELSE at[x]]

Split ==
    /\ Binding
    /\ Current \in Unions
    /\ \E i, j \in Ids(Current) : i # j
    /\ LET u == Current
       IN /\ default' = [g \in Graph |-> IF g[1] = u /\ g[2] \in Ids(u) THEN g[2] ELSE default[g]]
          /\ refKey' = Repointed(u, refKey)
          /\ target' = Repointed(u, target)
          /\ named' = (named \ {<<u, Whole>>}) \cup {<<u, i>> : i \in Ids(u)}
          /\ order' = Replaced(<<u, Whole>>, Variants(u))
    /\ pos' = pos + 1
    /\ UNCHANGED <<schema, sites, stage>>

Finish ==
    /\ stage = "bind"
    /\ pos > Len(schema.order)
    /\ stage' = "bound"
    /\ UNCHANGED <<schema, named, order, refKey, target, default, sites, pos>>

Next == ResolveRefs \/ Collect \/ SkipOther \/ BindUnused \/ BindOne \/ Split \/ Finish

Spec == Init /\ [][Next]_vars

-----------------------------------------------------------------------------
(* Properties.                                                             *)

\* ir.go: after analysis every reference points at the type registered under
\* its key, so none still points at a union that was split.
NoStaleTarget ==
    stage = "bound" => \A x \in Sites : target[x] = refKey[x] /\ target[x] \in named

\* The default a use site asked for, or the lowest option id.
Wanted(x) ==
    LET use == schema.uses[x]
    IN IF use.id # Absent THEN use.id ELSE Lowest(use.key)

\* MESSAGE_SPEC 4.2: a fresh union at a site holds that site's default option,
\* whatever defaults the same union has at other sites.
SitesGetTheirDefault ==
    stage = "bound" =>
        \A x \in Sites : schema.uses[x].key \in Unions => /\ target[x][1] = schema.uses[x].key
                                                          /\ default[target[x]] = Wanted(x)

\* union.go: DefaultOption is never nil after analysis, in any union of the
\* frozen IR, used or not.
EveryUnionBound ==
    stage = "bound" => \A g \in named : g[1] \in Unions => default[g] \in schema.unions[g[1]]

\* Where the schema lists the type that g is, or is a variant of.
Place(g) == CHOOSE p \in 1 .. Len(schema.order) : schema.order[p] = g[1]

\* Generated output keeps the schema's order: the variants of a union stand
\* where the union stood, ascending by the id they default to; and the order
\* lists the registered types at every step, each once.
OrderKept ==
    /\ {order[i] : i \in 1 .. Len(order)} = named
    /\ \A i, j \in 1 .. Len(order) :
        i < j => \/ Place(order[i]) < Place(order[j])
                 \/ order[i][1] = order[j][1] /\ order[i][2] < order[j][2]

\* What the loop has bound stays bound: no later step repoints a site of a
\* union already passed, or changes the default of a type.
BoundStays ==
    [][\A x \in Sites :
          target[x] # Absent /\ target[x] \in Graph /\ default[target[x]] # Absent =>
              target'[x] = target[x] /\ default'[target[x]] = default[target[x]]]_vars

=============================================================================
