----------------------------- MODULE PythonCodec -----------------------------
(***************************************************************************)
(* The code the Python backend emits for a message (generators/python/     *)
(* visitor.go, binding.go, backend.go, union.go): a dataclass per type     *)
(* with serialize and _is_default, a flat visitor that routes every hook   *)
(* by the pair of a scope and an id, and a destination table: the fields   *)
(* it names are written to slots by the decoder, with no hook called, and  *)
(* moved onto the message by scatter when a feed ends COMPLETE.            *)
(*                                                                         *)
(* A scope is the path of ids it stands for, Elem for the element of a     *)
(* list, whose index is in ix.  A slot has the path of its field too; the  *)
(* slot of a union holds the id of its option.  A union is its _which and  *)
(* its one _value.                                                         *)
(***************************************************************************)
EXTENDS Wire

VARIABLES
    obj,     \* the message
    cur,     \* the scope the fields belong to: the visitor's, or the table's
    stack,   \* the scopes to return to
    ix,      \* per list, the index its scope decodes into
    skip,    \* how many sequences the decoder is skipping
    slots,   \* the slots of the table that are not ABSENT
    read,    \* whether the last chunk has ended and what it brought is on the message
    verdict  \* the outcome of feed; "edited" when user code wrote obj

vars == <<schema, wire, obj, cur, stack, ix, skip, slots, read, verdict>>

Elem == -1

-----------------------------------------------------------------------------
(* Dataclasses                                                             *)

RECURSIVE New(_)
Initial(f) == IF f.type.kind = "ref" THEN New(f.type) ELSE f.dflt
New(type) ==
    CASE type.kind \in Numbers -> 0
      [] type.kind = "ref" /\ IsUnion(type.to) -> <<HeldFirst(type.to), Initial(FieldAt(type.to, HeldFirst(type.to)))>>
      [] type.kind = "ref" /\ ~ IsUnion(type.to) -> [id \in IdsOf(type.to) |-> Initial(FieldAt(type.to, id))]
      [] OTHER -> << >>

\* mutable_<option>
Mutable(name, u, id) == IF u[1] = id THEN u ELSE <<id, Initial(FieldAt(name, id))>>

RECURSIVE IsDefault(_, _), Serialize(_, _, _), MarshalArray(_, _, _, _, _)

FieldIsDefault(f, v) ==
    CASE f.type.kind = "ref" -> IsDefault(f.type.to, v)
      [] f.type.kind = "list" -> Len(v) = 0
      [] OTHER -> v = f.dflt
IsDefault(name, o) ==
    IF IsUnion(name) THEN o[1] = HeldFirst(name) /\ FieldIsDefault(FieldAt(name, o[1]), o[2])
    ELSE \A id \in DOMAIN o : FieldIsDefault(FieldAt(name, id), o[id])

\* The writers take the bound of what they write and raise past it.
Raising(w, past) == IF past THEN Reject(w) ELSE w
Over(bound, v) == bound # None /\ Len(v) > bound
WriteNumber(w, id, type, v) == Write(Raising(w, Wide(type, v)), Val(id, type.kind, v))
WritePayload(w, id, type, v) == Write(Raising(w, Over(type.max, v)), Pay(id, type.kind, v))
WriteNative(w, id, type, v) ==
    Write(Raising(w, Over(type.count, v) \/ \E e \in Range(v) : Wide(type.elem, e)), Arr(id, type.elem.kind, v))
SeqEnd(w, keep) == IF keep THEN EndKeep(w) ELSE End(w)

\* Forced: the option a union holds in place of its default one.
Marshal(w, f, v, forced) ==
    LET written == forced \/ v # f.dflt
    IN  CASE f.type.kind = "ref" -> SeqEnd(Serialize(BeginLazy(w, f.id), f.type.to, v), forced)
          [] f.type.kind = "list" -> MarshalArray(w, f.type, f.id, v, forced)
          [] f.type.kind \in Numbers -> IF written THEN WriteNumber(w, f.id, f.type, v) ELSE w
          [] f.type.kind \in Payloads -> IF written THEN WritePayload(w, f.id, f.type, v) ELSE w
          [] f.type.kind = "native" -> IF written THEN WriteNative(w, f.id, f.type, v) ELSE w

Serialize(w, name, o) ==
    IF IsUnion(name) THEN Marshal(w, FieldAt(name, o[1]), o[2], o[1] # HeldFirst(name))
    ELSE FoldLeft(LAMBDA acc, f : Marshal(acc, f, o[f.id], FALSE), w, Fields(name))

LastElem(i, n) == i = n - 1
MarshalElement(w, type, i, v, last) ==
    LET written == v # << >> \/ last
    IN  CASE type.kind = "ref" -> SeqEnd(Serialize(BeginLazy(w, i), type.to, v), last)
          [] type.kind = "list" -> MarshalArray(w, type, i, v, last)
          [] type.kind = "native" -> IF written THEN WriteNative(w, i, type, v) ELSE w
          [] type.kind \in Payloads -> IF written THEN WritePayload(w, i, type, v) ELSE w

MarshalArray(w, type, id, v, keep) ==
    LET element(acc, i) == MarshalElement(acc, type.elem, i - 1, v[i], LastElem(i - 1, Len(v)))
        opened == BeginLazy(Raising(w, Over(type.count, v)), id)
    IN  SeqEnd(FoldLeftDomain(element, opened, v), keep)

Encode(o) == Sent(Serialize(NewWriter, Root, o))

-----------------------------------------------------------------------------
(* The destination table                                                   *)

\* Below so many rows a class has no table; past so many elements an array
\* stays on the visitor.
BindMin == 3
BindArrayMax == 32

Bindable(f) ==
    \/ f.type.kind \in Numbers \cup Payloads
    \/ f.type.kind = "native" /\ f.type.count # None /\ f.type.count <= BindArrayMax

\* An option restarts with its texts and arrays empty, whatever they default to.
\* Fault: no row is kept off the table for it.
LosesNothing(f) == FALSE
LosesDefault(f) == f.type.kind \in Payloads \cup {"native"} /\ f.dflt # << >>

RECURSIVE BindableIn(_, _), RowsOf(_), ScopesOf(_)
BindableIn(name, inOption) ==
    LET option == inOption \/ IsUnion(name)
    IN  \A f \in Range(Fields(name)) :
            IF f.type.kind = "ref" THEN BindableIn(f.type.to, option)
            ELSE Bindable(f) /\ ~ (option /\ LosesDefault(f))

Bound(name) ==
    {f \in Range(Fields(name)) : IF f.type.kind = "ref" THEN BindableIn(f.type.to, IsUnion(name)) ELSE Bindable(f)}
Under(id, paths) == {<<id>> \o p : p \in paths}
RowsOf(name) == UNION {IF f.type.kind = "ref" THEN Under(f.id, RowsOf(f.type.to)) ELSE {<<f.id>>} : f \in Bound(name)}
ScopesOf(name) == UNION {Under(f.id, {<< >>} \cup ScopesOf(f.type.to)) : f \in {g \in Bound(name) : g.type.kind = "ref"}}

HasTable == Cardinality(RowsOf(Root)) >= BindMin
TableRows == IF HasTable THEN RowsOf(Root) ELSE {}
BoundScopes == IF HasTable THEN ScopesOf(Root) ELSE {}

Inner(type, step) == IF type.kind = "list" THEN type.elem ELSE FieldAt(type.to, step).type
TypeAt(path) == FoldLeft(Inner, RootType, path)
OneOfs == {p \in BoundScopes : IsUnion(TypeAt(p).to)}

\* The storage a decode starts from: only the slots of unions hold something.
Prefilled == [p \in OneOfs |-> HeldFirst(TypeAt(p).to)]

\* What the decoder writes: a row, behind the id of the option it is or is in; a
\* newly chosen option starts from the defaults its rows state.
RowDefault(path) == FieldAt(TypeAt(Front(path)).to, Last(path)).dflt
RestartValue(path) == IF TypeAt(path).kind \in Numbers THEN RowDefault(path) ELSE << >>
Restarted(option) ==
    [p \in {r \in TableRows : IsPrefix(option, r)} |-> RestartValue(p)]
        @@ [p \in {s \in OneOfs : IsPrefix(option, s)} |-> HeldFirst(TypeAt(p).to)]
Chosen(path) ==
    IF Front(path) \notin OneOfs \/ slots[Front(path)] = Last(path) THEN slots
    ELSE (Front(path) :> Last(path)) @@ Restarted(path) @@ slots
SlotSet(path, v) == (path :> v) @@ Chosen(path)

\* scatter: an absent slot leaves the message as it is, and of a union only the
\* option its slot names is read.
RECURSIVE ScatterTo(_, _, _)
ScatterRow(f, v, path) ==
    CASE path \in TableRows \cap DOMAIN slots -> slots[path]
      [] path \in BoundScopes -> ScatterTo(f.type.to, v, path)
      [] OTHER -> v
ScatterTo(name, o, path) ==
    IF IsUnion(name) THEN
        LET x == slots[path]
            option == Append(path, x)
        IN  IF option \in TableRows \ DOMAIN slots THEN o
            ELSE <<x, ScatterRow(FieldAt(name, x), Mutable(name, o, x)[2], option)>>
    ELSE [id \in DOMAIN o |-> ScatterRow(FieldAt(name, id), o[id], Append(path, id))]
Scattered == IF HasTable THEN ScatterTo(Root, obj, << >>) ELSE obj

-----------------------------------------------------------------------------
(* The scopes of the visitor                                               *)

Here == IF skip > 0 THEN Skipped ELSE TypeAt(cur)
InUnion == Here.kind = "ref" /\ IsUnion(Here.to)
InList == Here.kind = "list"
Arm(id) ==
    CASE InList -> Here.elem
      [] Here.kind = "ref" /\ id \in IdsOf(Here.to) -> FieldAt(Here.to, id).type
      [] OTHER -> Skipped
Path(loc) == [i \in DOMAIN loc |-> IF loc[i] = Elem THEN ix[SubSeq(loc, 1, i - 1)] + 1 ELSE loc[i]]

\* A path below an option names the one _value of its union.
RECURSIVE Get(_, _, _), Put(_, _, _, _)
Get(type, v, path) ==
    CASE path = << >> -> v
      [] path # << >> /\ type.kind = "ref" /\ IsUnion(type.to) -> Get(Inner(type, Head(path)), v[2], Tail(path))
      [] OTHER -> Get(Inner(type, Head(path)), v[Head(path)], Tail(path))
Put(type, v, path, new) ==
    CASE path = << >> -> new
      [] path # << >> /\ type.kind = "ref" /\ IsUnion(type.to) ->
            <<v[1], Put(Inner(type, Head(path)), v[2], Tail(path), new)>>
      [] OTHER -> [v EXCEPT ![Head(path)] = Put(Inner(type, Head(path)), @, Tail(path), new)]
At(loc) == Get(RootType, obj, Path(loc))
With(loc, v) == Put(RootType, obj, Path(loc), v)

\* reserve_leaf, reserve_elem, reserve_row: the bound of an index, and the list
\* with room for it.
CheckIndex(id) == IF InList THEN Exceeds(id + 1, Here.count, Caps.array) ELSE "fine"
Reserved(id) ==
    [i \in 1 .. Max({id + 1, Len(At(cur))}) |-> IF i <= Len(At(cur)) THEN At(cur)[i] ELSE New(Here.elem)]

\* A value a hook is handed: a union's option is chosen by it, an element has its place.
Assigned(id, v) ==
    CASE InUnion -> With(cur, <<id, v>>)
      [] InList -> With(cur, [At(cur) EXCEPT ![id + 1] = v])
      [] OTHER -> With(Append(cur, id), v)
Take(id, v) ==
    LET path == Append(cur, id)
    IN  IF path \in TableRows THEN slots' = SlotSet(path, v) /\ UNCHANGED obj
        ELSE obj' = Assigned(id, v) /\ UNCHANGED slots

-----------------------------------------------------------------------------
(* The fields of a chunk                                                   *)

\* on_field declines what its scope does not declare so; such a field is
\* skipped with no hook and no cap.
HeaderMatches(type, tok) ==
    CASE type.kind \in Numbers -> tok.t = "val" /\ tok.k = type.kind
      [] type.kind \in Payloads -> tok.t = "pay" /\ tok.k = type.kind
      [] type.kind = "native" -> tok.t = "arr" /\ tok.k = type.elem.kind
      [] OTHER -> FALSE
OnField(tok) == HeaderMatches(Arm(tok.id), tok)

\* on_schema_bound, or the cap of a field the schema leaves open.
SchemaBound(type, tok) ==
    CASE type.kind \in Payloads -> Exceeds(tok.n, type.max, Caps[tok.k])
      [] type.kind = "native" -> Exceeds(tok.n, type.count, Caps.array)
      [] OTHER -> "fine"

Delivered(tok, v) ==
    IF (tok.k = "str" /\ ~ Text(v)) THEN verdict' = "invalid" /\ UNCHANGED <<obj, slots>>
    ELSE Take(tok.id, v) /\ UNCHANGED verdict

Rest == <<schema, cur, stack, ix, skip>>
\* A chunk that is not at its end has put nothing of the table on the message.
Unread == read' = ~ HasTable

Number(tok) ==
    /\ tok.t = "val"
    /\ Arrives(tok)
    /\ LET v == tok.got[1]
       IN  IF OnField(tok) /\ ~ Wide(Arm(tok.id), v) THEN Take(tok.id, v) /\ UNCHANGED verdict
           ELSE verdict' = (IF OnField(tok) THEN "invalid" ELSE verdict) /\ UNCHANGED <<obj, slots>>
    /\ Unread /\ UNCHANGED Rest

\* The header of a string, blob or array: the place of an element is made for it.
Lengthed(tok) ==
    /\ tok.t \in {"pay", "arr"}
    /\ Arrives(tok)
    /\ LET bad == FirstBad(<<CheckIndex(tok.id), SchemaBound(Arm(tok.id), tok)>>)
       IN  CASE ~ OnField(tok) -> UNCHANGED <<obj, slots, verdict>>
             [] OnField(tok) /\ bad # "fine" -> verdict' = bad /\ UNCHANGED <<obj, slots>>
             [] OnField(tok) /\ bad = "fine" /\ tok.n = 0 /\ ~ InList -> Delivered(tok, << >>)
             [] OTHER ->
                  /\ obj' = IF InList THEN With(cur, IF tok.n > 0 THEN Reserved(tok.id)
                                                     ELSE [Reserved(tok.id) EXCEPT ![tok.id + 1] = << >>]) ELSE obj
                  /\ UNCHANGED <<slots, verdict>>
    /\ Unread /\ UNCHANGED Rest

\* Its content is handed over whole.
Piece(bytes) ==
    /\ PieceArrives(bytes)
    /\ IF OnField(Tip) /\ Len(Tip.got) + Len(bytes) = Tip.n THEN Delivered(Tip, Tip.got \o bytes)
       ELSE UNCHANGED <<obj, slots, verdict>>
    /\ UNCHANGED <<Rest, read>>

\* The decoder holds each element to the interval on_array_begin answered.
ArrayElement(v) ==
    /\ ElementArrives(v)
    /\ CASE OnField(Tip) /\ Wide(Arm(Tip.id).elem, v) -> verdict' = "invalid" /\ UNCHANGED <<obj, slots>>
         [] OnField(Tip) /\ ~ Wide(Arm(Tip.id).elem, v) /\ Len(Tip.got) + 1 = Tip.n -> Delivered(Tip, Append(Tip.got, v))
         [] OTHER -> UNCHANGED <<obj, slots, verdict>>
    /\ UNCHANGED <<Rest, read>>

-----------------------------------------------------------------------------
(* Its sequences                                                           *)

Entered(step) == stack' = Append(stack, cur) /\ cur' = Append(cur, step) /\ UNCHANGED skip

\* The decoder enters a scope of the table by itself.
EnterBound(id) ==
    /\ skip = 0 /\ Append(cur, id) \in BoundScopes
    /\ slots' = Chosen(Append(cur, id))
    /\ Entered(id)
    /\ UNCHANGED <<obj, ix, verdict>>

EnterField(type, id) ==
    /\ type.kind \in {"ref", "list"} /\ ~ InList /\ Append(cur, id) \notin BoundScopes
    /\ Entered(id)
    /\ obj' = CASE type.kind = "list" -> Assigned(id, << >>)
                [] type.kind = "ref" /\ InUnion -> With(cur, Mutable(Here.to, At(cur), id))
                [] type.kind = "ref" /\ ~ InUnion -> obj
    /\ UNCHANGED <<slots, ix, verdict>>

EnterElement(type, id) ==
    /\ type.kind \in {"ref", "list"} /\ InList
    /\ verdict' = CheckIndex(id)
    /\ IF CheckIndex(id) # "fine" THEN UNCHANGED <<obj, cur, stack, ix, skip>>
       ELSE /\ Entered(Elem)
            /\ ix' = (cur :> id) @@ ix
            /\ obj' = With(cur, IF type.kind = "list" THEN [Reserved(id) EXCEPT ![id + 1] = << >>] ELSE Reserved(id))
    /\ UNCHANGED slots

\* on_sequence_begin answered no: nothing of the sequence is reported.
SkipWhole(type) ==
    /\ type.kind \notin {"ref", "list"}
    /\ skip' = skip + 1
    /\ UNCHANGED <<obj, cur, stack, ix, slots, verdict>>

SequenceBegin(tok) ==
    /\ tok.t = "open"
    /\ Arrives(tok)
    /\ LET type == Arm(tok.id)
       IN  EnterBound(tok.id) \/ EnterField(type, tok.id) \/ EnterElement(type, tok.id) \/ SkipWhole(type)
    /\ Unread /\ UNCHANGED schema

SequenceEnd ==
    /\ Ends
    /\ skip' = Max({skip - 1, 0})
    /\ cur' = IF skip > 0 THEN cur ELSE Last(stack)
    /\ stack' = IF skip > 0 THEN stack ELSE Front(stack)
    /\ Unread /\ UNCHANGED <<schema, obj, ix, slots, verdict>>

-----------------------------------------------------------------------------
Init ==
    /\ schema \in Schemas
    /\ wire = << >>
    /\ obj = New(RootType)
    /\ cur = << >> /\ stack = << >> /\ ix = << >> /\ skip = 0
    /\ slots = Prefilled /\ read = TRUE
    /\ verdict = "fine"

Decoding ==
    /\ verdict = "fine"
    /\ \/ \E tok \in schema.heads : Number(tok) \/ Lengthed(tok) \/ SequenceBegin(tok)
       \/ \E v \in schema.numbers : ArrayElement(v)
       \/ \E bytes \in schema.pieces : Piece(bytes)
       \/ SequenceEnd

\* The chunk ends, and feed: COMPLETE between two fields of the message, where
\* the slots are moved; more may follow.
ChunkEnds ==
    /\ verdict = "fine" /\ ~ read
    /\ ~ Pending /\ OpenSequences(wire) = 0
    /\ obj' = Scattered
    /\ read' = TRUE
    /\ UNCHANGED <<schema, wire, cur, stack, ix, skip, slots, verdict>>

\* User code gives a message a value: its integers have no width of their own.
Edit(new) ==
    /\ verdict = "fine" => ~ Pending
    /\ obj' = new
    /\ verdict' = "edited"
    /\ wire' = << >> /\ cur' = << >> /\ stack' = << >> /\ ix' = << >> /\ skip' = 0
    /\ slots' = Prefilled /\ read' = TRUE
    /\ UNCHANGED schema

Next == Decoding \/ ChunkEnds \/ (\E new \in schema.values \cup schema.wide : Edit(new))

Spec == Init /\ [][Next]_vars

-----------------------------------------------------------------------------
(* When a feed has ended COMPLETE, and at any boundary in a class without  *)
(* a table, the message holds what the fields so far mean; feed has        *)
(* refused exactly where MESSAGE_SPEC says, on the table as on the         *)
(* visitor: rules 1 to 4 of binding.go and the comments of emitOnField and *)
(* reserveCall.  What serialize writes of any message reads back as it,    *)
(* every frame closed and nothing in it that could be left out; it raises  *)
(* for a value past its bounds only, and _is_default is true iff it would  *)
(* write nothing.                                                          *)
SpeaksTheFormat ==
    /\ verdict # "edited" =>
          LET m == Meaning(wire)
          IN  /\ verdict = m.bad
              /\ verdict = "fine" /\ read /\ ~ Pending => obj = m.val
    /\ verdict = "edited" \/ (verdict = "fine" /\ ~ Pending) =>
          /\ Encodes(obj, Encode(obj))
          /\ IsDefault(Root, obj) <=> Encode(obj) = << >>

=============================================================================
