------------------------------ MODULE Lowering -------------------------------
(***************************************************************************)
(* From a document to the type graph: the stages of internal/pipeline that *)
(* follow loading.  The document is expanded (resolver in                  *)
(* internal/parser/parser.go) and the expansion validated, but it is the   *)
(* document as written, with its references, that internal/model lowers to *)
(* named types, and internal/analysis then resolves.  Two walks read the   *)
(* same references in two ways, and nothing compares them.                 *)
(*                                                                         *)
(* A node is a mapping [keys], a leaf, or the pointer of a reference; a    *)
(* pointer is what follows "#/", split at "/".                             *)
(***************************************************************************)
EXTENDS Naturals, Sequences, SequencesExt, FiniteSetsExt

CONSTANTS
    Documents, \* document roots: decoded, with every import inlined
    Letters,   \* the spelling of each name an author chose, letter by letter
    Capital    \* the upper case of each lower-case letter

ConstantsFit == \A n \in DOMAIN Letters : Letters[n] \in Seq(DOMAIN Capital \cup Range(Capital) \cup {"_"})

VARIABLES
    doc,    \* the document
    tree,   \* its expansion
    schema, \* the IR
    stage   \* pipeline.Run: "resolve", "validate", "build", "analyze", then
            \* "frozen" or "refused"

vars == <<doc, tree, schema, stage>>

-----------------------------------------------------------------------------
\* Nodes.
Leaf(v) == [leaf |-> v]
Keys(f) == [keys |-> f]
IsMap(n) == "keys" \in DOMAIN n
Member(n, k) == n.keys[k]
Has(n, k) == IsMap(n) /\ k \in DOMAIN n.keys
NoNode == [none |-> TRUE]
Get(n, k) == IF Has(n, k) THEN Member(n, k) ELSE NoNode

\* A number or a type's name; asInt of anything else fails.
Numbers == {"0", "1", "2"}
IsNumber(n) == "leaf" \in DOMAIN n /\ n.leaf \in Numbers
AsInt(n) == IF IsNumber(n) THEN n.leaf ELSE "0"
Text(n) == IF "leaf" \in DOMAIN n /\ n.leaf \notin Numbers THEN n.leaf ELSE ""

\* A lone $ref.
IsRef(n) == Has(n, "$ref") /\ DOMAIN n.keys = {"$ref"} /\ "ptr" \in DOMAIN Member(n, "$ref")
Ptr(n) == Member(n, "$ref").ptr

RECURSIVE LookupIn(_, _)
LookupIn(n, p) ==
    IF p = << >> THEN n
    ELSE IF Has(n, Head(p)) THEN LookupIn(Member(n, Head(p)), Tail(p)) ELSE NoNode
Lookup(p) == LookupIn(doc, p)

-----------------------------------------------------------------------------
\* Document.Resolve.  Refused stands for the error, however deep.
Refused == [refused |-> TRUE]

RECURSIVE Expanded(_, _)
Expanded(n, seen) ==
    IF IsRef(n)
    THEN IF Ptr(n) \in seen \/ Lookup(Ptr(n)) = NoNode THEN Refused
         ELSE Expanded(Lookup(Ptr(n)), seen \cup {Ptr(n)})
    ELSE IF IsMap(n)
    THEN LET kids == [k \in DOMAIN n.keys |-> Expanded(Member(n, k), seen)]
         IN  IF \E k \in DOMAIN kids : kids[k] = Refused THEN Refused ELSE Keys(kids)
    ELSE n

-----------------------------------------------------------------------------
\* parser.Validate, as far as shape and names go.
Lower(c) == IF c \in Range(Capital) THEN CHOOSE l \in DOMAIN Capital : Capital[l] = c ELSE c
Fold(name) == LET w == SelectSeq(Letters[name], LAMBDA c : c # "_") IN [i \in DOMAIN w |-> Lower(w[i])]

\* checkName: single underscores, between letters.
IsName(name) ==
    /\ name \in DOMAIN Letters
    /\ LET w == Letters[name]
       IN  /\ w # << >> /\ w[1] # "_" /\ w[Len(w)] # "_"
           /\ \A i \in 1 .. Len(w) - 1 : ~ (w[i] = "_" /\ w[i + 1] = "_")
WellNamed(names) ==
    /\ \A k \in names : IsName(k)
    /\ \A k, l \in names : Fold(k) = Fold(l) => k = l

\* A mapping whose values differ in one key, and have it.
Numbered(n, key) ==
    /\ \A k \in DOMAIN n.keys : IsNumber(Get(Member(n, k), key))
    /\ \A k, l \in DOMAIN n.keys : Member(n, k).keys[key] = Member(n, l).keys[key] => k = l

IsEnum(n) ==
    /\ IsMap(n) /\ WellNamed(DOMAIN n.keys) /\ DOMAIN n.keys # {}
    /\ \A k \in DOMAIN n.keys :
          IF IsMap(Member(n, k)) THEN DOMAIN Member(n, k).keys = {"value"} /\ IsNumber(Get(Member(n, k), "value"))
          ELSE IsNumber(Member(n, k))
IsBitfield(n) ==
    /\ IsMap(n) /\ WellNamed(DOMAIN n.keys) /\ Numbered(n, "pos")
    /\ \A k \in DOMAIN n.keys : DOMAIN Member(n, k).keys = {"pos"}

Cats == {"struct", "union", "enum", "bitfield"}
BodyOf == [struct |-> "fields", union |-> "oneof", enum |-> "enum", bitfield |-> "bits", array |-> "items"]
Kinds == {"u8", "string", "array"} \cup Cats

RECURSIVE IsScope(_)
RECURSIVE IsType(_, _)
IsBody(n, cat) ==
    CASE cat = "struct" -> IsScope(n)
      [] cat = "union" -> IsScope(n) /\ DOMAIN n.keys # {}
      [] cat = "enum" -> IsEnum(n)
      [] cat = "bitfield" -> IsBitfield(n)
IsType(n, beside) ==
    LET typ == Text(Get(n, "type"))
    IN  /\ typ \in Kinds
        /\ IF typ \notin DOMAIN BodyOf THEN DOMAIN n.keys = beside \cup {"type"}
           ELSE /\ DOMAIN n.keys = beside \cup {"type", BodyOf[typ]}
                /\ LET body == Member(n, BodyOf[typ])
                   IN  IF typ = "array" THEN IsType(body, {}) ELSE IsBody(body, typ)
IsScope(n) ==
    /\ IsMap(n) /\ WellNamed(DOMAIN n.keys)
    /\ \A k \in DOMAIN n.keys : IsType(Member(n, k), {"id"})
    /\ Numbered(n, "id")

\* Messages and every $defs category are one namespace.
Entries(root) == {<<"messages", name>> : name \in DOMAIN Get(root, "messages").keys}
                   \cup UNION {{<<cat, name>> : name \in DOMAIN Get(Get(root, "$defs"), cat).keys} :
                                 cat \in DOMAIN Get(root, "$defs").keys}
IsSchema(root) ==
    /\ \A e, f \in Entries(root) : /\ IsName(e[2])
                                   /\ Fold(e[2]) = Fold(f[2]) => e = f
    /\ \A cat \in DOMAIN Get(root, "$defs").keys :
          /\ cat \in Cats
          /\ \A name \in DOMAIN Get(Get(root, "$defs"), cat).keys : IsBody(LookupIn(root, <<"$defs", cat, name>>), cat)
    /\ \A name \in DOMAIN Get(root, "messages").keys :
          LET m == LookupIn(root, <<"messages", name>>)
          IN  IsMap(m) /\ DOMAIN m.keys = {"payload"} /\ IsScope(Member(m, "payload"))

-----------------------------------------------------------------------------
\* Keys of the type graph, as text.  An owner is the element whose fields are
\* being lowered: its key and the path of names its inline types extend.
Spelled(token) == IF token \in DOMAIN Letters THEN Letters[token] ELSE <<token>>
RECURSIVE Joined(_, _)
Joined(parts, sep) ==
    IF Len(parts) = 1 THEN Head(parts) ELSE Head(parts) \o <<sep>> \o Joined(Tail(parts), sep)
DefKey(p) == Joined([i \in DOMAIN p |-> Spelled(p[i])], "/")
Owner(key, path) == [key |-> key, path |-> path]

\* Fault: an inline type's key is joined with "_" (generator#624).
ChildJoinedBar(own, name) == Owner(own.key \o <<"_">> \o Spelled(name), Append(own.path, name))
Child(own, name) == Owner(own.key \o <<".">> \o Spelled(name), Append(own.path, name))

\* A reference into $defs names a type of the graph; any other does not.
HasRefKey(def) == IsRef(def) /\ Len(Ptr(def)) > 1 /\ Head(Ptr(def)) = "$defs"
RefKey(def) == DefKey(Tail(Ptr(def)))

\* Fault: categories are told apart by the shape of their body only
\* (generator#776).
MismatchUnchecked(def, cat) == {}

\* checkRefCategory: the pointer's category is the one the site declares.
Mismatch(def, cat) ==
    IF HasRefKey(def) /\ Ptr(def)[2] # cat THEN {<<"category", Ptr(def), cat>>} ELSE {}

\* deref: a reference, followed to what it points at; a dangling one stays.  A
\* circular one was refused by Resolve.
RECURSIVE DerefFrom(_, _)
DerefFrom(n, seen) ==
    IF ~ IsRef(n) \/ Lookup(Ptr(n)) = NoNode THEN n
    ELSE IF Ptr(n) \in seen THEN NoNode
    ELSE DerefFrom(Lookup(Ptr(n)), seen \cup {Ptr(n)})
Deref(n) == DerefFrom(n, {})

\* What a part of the document lowers to: the part itself, the types it
\* registers [key, type, at the element loc], and errors.
Part(is, regs, errs) == [is |-> is, regs |-> regs, errs |-> errs]
Regs(parts) == UNION {parts[k].regs : k \in DOMAIN parts}
Errs(parts) == UNION {parts[k].errs : k \in DOMAIN parts}
Entry(key, type, loc) == [key |-> key, type |-> type, loc |-> loc]

Type(cat, path, body) == [cat |-> cat, path |-> path, body |-> body]

\* A constant whose value is no integer has value 0.
EnumBody(def) ==
    IF IsMap(def)
    THEN [k \in DOMAIN def.keys |-> AsInt(IF IsMap(Member(def, k)) THEN Get(Member(def, k), "value") ELSE Member(def, k))]
    ELSE << >>
BitfieldBody(def) ==
    IF IsMap(def) THEN [k \in DOMAIN def.keys |-> AsInt(Get(Member(def, k), "pos"))] ELSE << >>

RECURSIVE Fields(_, _, _)
RECURSIVE Field(_, _, _, _)

\* refForComposite: a reference into $defs is kept; any other body is lowered
\* to a type of its own, under its owner.
Composite(def, cat, name, own, loc) ==
    IF HasRefKey(def) THEN Part(RefKey(def), {}, Mismatch(def, cat))
    ELSE LET sub == Child(own, name)
             body == CASE cat \in {"struct", "union"} -> Fields(def, sub, Append(loc, BodyOf[cat]))
                       [] cat = "enum" -> Part(EnumBody(def), {}, {})
                       [] cat = "bitfield" -> Part(BitfieldBody(def), {}, {})
         IN  Part(sub.key, body.regs \cup {Entry(sub.key, Type(cat, sub.path, body.is), loc)}, body.errs)

\* buildField, and buildArray for the element: what a field or an element is.
Field(f, name, own, loc) ==
    LET typ == Text(Get(f, "type"))
    IN  CASE typ \in Cats ->
                LET ref == Composite(Get(f, BodyOf[typ]), typ, name, own, loc)
                IN  [ref EXCEPT !.is = [type |-> typ, ref |-> ref.is]]
          [] typ = "array" ->
                LET elem == Field(Get(f, "items"), name, own, Append(loc, "items"))
                IN  [elem EXCEPT !.is = [type |-> typ, elem |-> elem.is]]
          [] OTHER -> Part([type |-> typ], {}, {})

\* buildFields: the fields of an id scope, by name.
Fields(node, own, loc) ==
    LET scope == Deref(node)
        names == {k \in DOMAIN scope.keys : IsMap(Deref(Member(scope, k)))}
        parts == [k \in names |-> Field(Deref(Member(scope, k)), k, own, Append(loc, k))]
    IN  IF ~ IsMap(scope) THEN Part(<< >>, {}, {})
        ELSE Part([k \in names |-> [id |-> AsInt(Get(Deref(Member(scope, k)), "id")), is |-> parts[k].is]],
                  Regs(parts), Errs(parts))

\* buildDefs, one entry: an alias takes the members of what it names.
Def(cat, name) ==
    LET loc == <<"$defs", cat, name>>
        def == Lookup(loc)
        key == DefKey(<<cat, name>>)
        body == CASE cat \in {"struct", "union"} -> Fields(def, Owner(key, <<name>>), loc)
                  [] cat = "enum" -> Part(EnumBody(Deref(def)), {}, {})
                  [] cat = "bitfield" -> Part(BitfieldBody(Deref(def)), {}, {})
    IN  Part(<< >>, body.regs \cup {Entry(key, Type(cat, <<name>>, body.is), loc)}, body.errs \cup Mismatch(def, cat))

\* buildMessage: a payload may be a struct's fields.
Message(name) ==
    LET loc == <<"messages", name, "payload">>
        fields == Fields(Lookup(loc), Owner(Spelled(name), <<name>>), loc)
    IN  [fields EXCEPT !.errs = @ \cup Mismatch(Lookup(loc), "struct")]

\* register: a key is claimed once.
Claimed(regs) == {<<"claimed twice", e.loc>> : e \in {g \in regs : \E h \in regs : h.key = g.key /\ h.loc # g.loc}}

Messages == DOMAIN Lookup(<<"messages">>).keys
Defs == {e \in Entries(doc) : e[1] # "messages"}

Built ==
    LET msgs == [m \in Messages |-> Message(m)]
        defs == [d \in Defs |-> Def(d[1], d[2])]
        regs == Regs(msgs) \cup Regs(defs)
    IN  [messages |-> [m \in Messages |-> msgs[m].is],
         named |-> [key \in {e.key : e \in regs} |-> (CHOOSE e \in regs : e.key = key).type],
         errs |-> Errs(msgs) \cup Errs(defs) \cup Claimed(regs)]

-----------------------------------------------------------------------------
\* resolveRefs: the keys a body refers to.  (Union defaults: UnionBinding; the
\* cap on nesting: Nesting.)
RECURSIVE KeysOf(_)
KeysOf(is) ==
    CASE is.type \in Cats -> {is.ref}
      [] is.type = "array" -> KeysOf(is.elem)
      [] OTHER -> {}
KeysIn(fields) == UNION {KeysOf(fields[k].is) : k \in DOMAIN fields}
Unresolved(s) ==
    (UNION {KeysIn(s.messages[m]) : m \in DOMAIN s.messages}
       \cup UNION {KeysIn(s.named[key].body) : key \in {t \in DOMAIN s.named : s.named[t].cat \in {"struct", "union"}}})
    \ DOMAIN s.named

-----------------------------------------------------------------------------
\* naming.TypeIdent: each segment in Pascal case, joined with "_"; and Lower,
\* each segment folded.
Upper(c) == IF c \in DOMAIN Capital THEN Capital[c] ELSE c
Pascal(name) ==
    LET w == Letters[name]
    IN  SelectSeq([i \in DOMAIN w |-> IF i = 1 \/ w[i - 1] = "_" THEN Upper(w[i]) ELSE w[i]], LAMBDA c : c # "_")

\* Fault: segments are run together.
TypeIdentRun(path) == FlattenSeq([i \in DOMAIN path |-> Pascal(path[i])])
TypeIdent(path) == Joined([i \in DOMAIN path |-> Pascal(path[i])], "_")
LowerIdent(path) == Joined([i \in DOMAIN path |-> Fold(path[i])], "_")

-----------------------------------------------------------------------------
Init ==
    /\ doc \in Documents
    /\ tree = NoNode
    /\ schema = NoNode
    /\ stage = "resolve"

Resolve ==
    /\ stage = "resolve"
    /\ LET out == Expanded(doc, {})
       IN  IF out = Refused THEN stage' = "refused" /\ tree' = tree
           ELSE stage' = "validate" /\ tree' = out
    /\ UNCHANGED <<doc, schema>>

Validate ==
    /\ stage = "validate"
    /\ stage' = IF IsSchema(tree) THEN "build" ELSE "refused"
    /\ UNCHANGED <<doc, tree, schema>>

Build ==
    /\ stage = "build"
    /\ schema' = Built
    /\ stage' = IF schema'.errs = {} THEN "analyze" ELSE "refused"
    /\ UNCHANGED <<doc, tree>>

Analyze ==
    /\ stage = "analyze"
    /\ stage' = IF Unresolved(schema) = {} THEN "frozen" ELSE "refused"
    /\ UNCHANGED <<doc, tree, schema>>

Next == Resolve \/ Validate \/ Build \/ Analyze

Spec == Init /\ [][Next]_vars

-----------------------------------------------------------------------------
(* What a scope means: names, ids, kinds and constants, whatever is shared. *)

\* Of the expansion.
RECURSIVE Meaning(_, _)
TypeMeaning(cat, body) ==
    [cat |-> cat, of |-> CASE cat \in {"struct", "union"} -> [k \in DOMAIN body.keys |-> Meaning(Member(body, k), {"id"})]
                           [] cat = "enum" -> EnumBody(body)
                           [] cat = "bitfield" -> BitfieldBody(body)]
Meaning(f, with) ==
    LET typ == Text(Get(f, "type"))
        is == CASE typ \in Cats -> TypeMeaning(typ, Member(f, BodyOf[typ]))
                [] typ = "array" -> [cat |-> typ, of |-> Meaning(Get(f, "items"), {})]
                [] OTHER -> [cat |-> typ]
    IN  IF with = {} THEN is ELSE [id |-> AsInt(Get(f, "id")), is |-> is]

\* Of the IR, every reference followed.
RECURSIVE Unfolded(_)
UnfoldedType(t) ==
    [cat |-> t.cat, of |-> IF t.cat \in {"struct", "union"}
                           THEN [k \in DOMAIN t.body |-> [id |-> t.body[k].id, is |-> Unfolded(t.body[k].is)]]
                           ELSE t.body]
Unfolded(is) ==
    CASE is.type \in Cats -> UnfoldedType(schema.named[is.ref])
      [] is.type = "array" -> [cat |-> is.type, of |-> Unfolded(is.elem)]
      [] OTHER -> [cat |-> is.type]

(* "Dereference-then-validate, generate-from-unresolved" (ARCHITECTURE,    *)
(* section 5): the IR that is frozen says of every message and every       *)
(* definition exactly what the validated expansion says, though shared     *)
(* types, copied fields and aliases are followed by other code.            *)
ValidatedIsGenerated ==
    stage = "frozen" =>
        /\ \A m \in Messages :
              UnfoldedType(Type("struct", <<m>>, schema.messages[m]))
                = TypeMeaning("struct", LookupIn(tree, <<"messages", m, "payload">>))
        /\ \A d \in Defs : UnfoldedType(schema.named[DefKey(d)]) = TypeMeaning(d[1], LookupIn(tree, <<"$defs">> \o d))

(* naming.go: TypeIdent is injective on what the validator accepts, and so *)
(* is its lower-case form, the file name: no two types or messages of one  *)
(* schema get the same identifier, however their names are split by "_".   *)
IdentsDistinct ==
    stage = "frozen" =>
        LET paths == {<<m>> : m \in Messages} \cup {schema.named[key].path : key \in DOMAIN schema.named}
            owners == Cardinality(Messages) + Cardinality(DOMAIN schema.named)
        IN  /\ Cardinality({TypeIdent(path) : path \in paths}) = owners
            /\ Cardinality({LowerIdent(path) : path \in paths}) = owners

\* The references of the document: where each stands, and what it names.
RECURSIVE RefsFrom(_, _)
RefsFrom(n, loc) ==
    IF IsRef(n) THEN {<<loc, Ptr(n)>>}
    ELSE IF IsMap(n) THEN UNION {RefsFrom(Member(n, k), Append(loc, k)) : k \in DOMAIN n.keys}
    ELSE {}

\* ARCHITECTURE, section 4: a body names a definition of the category its site
\* declares, a payload a struct, an alias its own category, and a field another
\* field.
Documented(loc, ptr) ==
    LET names(cat) == Len(ptr) = 3 /\ SubSeq(ptr, 1, 2) = <<"$defs", cat>>
        last == loc[Len(loc)]
    IN  CASE Len(loc) = 3 /\ loc[1] = "messages" -> names("struct")
          [] Len(loc) = 3 /\ loc[1] = "$defs" -> names(loc[2])
          [] Len(loc) > 3 /\ last \in {BodyOf[cat] : cat \in Cats} -> \E cat \in Cats : BodyOf[cat] = last /\ names(cat)
          [] OTHER -> Len(ptr) > 3 /\ Has(Lookup(ptr), "id")

(* A valid document whose references are of the forms the documentation    *)
(* gives is never refused by the stages that generate: least of all because *)
(* two types meet in a key, which register's comment says are distinct by  *)
(* construction (the defect of generator#624).                             *)
DocumentedIsAccepted ==
    stage = "refused" /\ tree # NoNode /\ IsSchema(tree) =>
        \E ref \in RefsFrom(doc, << >>) : ~ Documented(ref[1], ref[2])

=============================================================================
