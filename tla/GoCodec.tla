------------------------------ MODULE GoCodec -------------------------------
(***************************************************************************)
(* The code the Go backend emits for a message (generators/golang/         *)
(* backend.go, union.go): Serialize with its lazily opened sequences and   *)
(* isDefault, the visitor methods a corelib decoder calls, Reset and the   *)
(* unions' accessors.  Visitors form a stack: BeginSequence returns the    *)
(* child that gets the fields of the sequence, or nil.                     *)
(*                                                                         *)
(* An object holds the value of each field under its id.  A union keeps a  *)
(* slot for every option, whatever it held before, and which option is     *)
(* held as a tag relative to the default option.                           *)
(***************************************************************************)
EXTENDS Wire, Bitwise

VARIABLES
    obj,     \* the message object
    stack,   \* the visitors: an object or array by its path, and its type
    verdict  \* nil, ErrInvalidMsg, ErrLimitExceeded; "edited" when user code wrote obj

vars == <<schema, wire, obj, stack, verdict>>

Which == -1
Tag(name, id) == id ^^ HeldFirst(name)
Held(name, union) == union[Which] ^^ HeldFirst(name)

-----------------------------------------------------------------------------
(* Objects                                                                 *)

RECURSIVE Zero(_)
Zero(type) ==
    IF type.kind # "ref" THEN Fresh(type)
    ELSE LET slots == [id \in IdsOf(type.to) |-> Zero(FieldAt(type.to, id).type)]
         IN  IF IsUnion(type.to) THEN (Which :> 0) @@ slots ELSE slots

\* The members a type's defaults are declared on: of a union, one.
Seeded(name) == IF IsUnion(name) THEN {HeldFirst(name)} ELSE IdsOf(name)

IsZeroLiteral(type, dflt) == dflt = Fresh(type)

RECURSIVE NeedsDefaults(_)
NeedsDefaults(name) ==
    \E id \in Seeded(name) :
        LET f == FieldAt(name, id)
        IN  IF f.type.kind = "ref" THEN NeedsDefaults(f.type.to) ELSE ~ IsZeroLiteral(f.type, f.dflt)

RECURSIVE SetDefaults(_, _)
SetDefaults(name, o) ==
    [id \in DOMAIN o |->
        IF id \notin Seeded(name) THEN o[id]
        ELSE LET f == FieldAt(name, id)
             IN  CASE f.type.kind # "ref" -> f.dflt
                   [] f.type.kind = "ref" /\ NeedsDefaults(f.type.to) -> SetDefaults(f.type.to, o[id])
                   [] f.type.kind = "ref" /\ ~ NeedsDefaults(f.type.to) -> o[id]]

New(type) ==
    IF type.kind = "ref" /\ NeedsDefaults(type.to) THEN SetDefaults(type.to, Zero(type)) ELSE Zero(type)

\* Clear builds the union anew; Reset does each field in place.
RECURSIVE Reset(_, _)
Reset(name, o) ==
    [id \in IdsOf(name) |->
        LET f == FieldAt(name, id)
        IN  CASE f.type.kind = "ref" /\ IsUnion(f.type.to) -> New(f.type)
              [] f.type.kind = "ref" /\ ~ IsUnion(f.type.to) -> Reset(f.type.to, o[id])
              [] f.type.kind # "ref" -> f.dflt]

\* What an object says through its accessors.
RECURSIVE View(_, _)
View(type, v) ==
    CASE type.kind = "list" -> [i \in DOMAIN v |-> View(type.elem, v[i])]
      [] type.kind = "ref" /\ IsUnion(type.to) ->
            LET id == Held(type.to, v) IN <<id, View(FieldAt(type.to, id).type, v[id])>>
      [] type.kind = "ref" /\ ~ IsUnion(type.to) ->
            [id \in IdsOf(type.to) |-> View(FieldAt(type.to, id).type, v[id])]
      [] OTHER -> v

\* User code gives an object a value, a union by Set<Option> on what is there.
RECURSIVE Assigned(_, _, _)
Assigned(type, v, new) ==
    CASE type.kind = "list" -> [i \in DOMAIN new |-> Assigned(type.elem, New(type.elem), new[i])]
      [] type.kind = "ref" /\ IsUnion(type.to) ->
            LET id == new[1]
            IN  [v EXCEPT ![Which] = Tag(type.to, id), ![id] = Assigned(FieldAt(type.to, id).type, @, new[2])]
      [] type.kind = "ref" /\ ~ IsUnion(type.to) ->
            [id \in IdsOf(type.to) |-> Assigned(FieldAt(type.to, id).type, v[id], new[id])]
      [] OTHER -> new

-----------------------------------------------------------------------------
(* Serialize                                                               *)

RECURSIVE IsDefault(_, _), MarshalField(_, _, _, _, _), MarshalArray(_, _, _, _, _)

FieldIsDefault(f, v) ==
    CASE f.type.kind = "list" -> v = << >>
      [] f.type.kind = "ref" -> IsDefault(f.type.to, v)
      [] OTHER -> v = f.dflt

IsDefault(name, o) ==
    IF IsUnion(name) THEN o[Which] = 0 /\ FieldIsDefault(FieldAt(name, HeldFirst(name)), o[HeldFirst(name)])
    ELSE \A id \in IdsOf(name) : FieldIsDefault(FieldAt(name, id), o[id])

\* A value past a bound only the schema declares is rejected, not written.
Over(type, v) ==
    \/ type.kind \in Payloads /\ type.max # None /\ Len(v) > type.max
    \/ type.kind \in {"native", "list"} /\ type.count # None /\ Len(v) > type.count
Guarded(w, type, v, tok) == IF Over(type, v) THEN Reject(w) ELSE Write(w, tok)

Serialize(w, name, o) ==
    IF IsUnion(name)
    THEN LET id == Held(name, o) IN MarshalField(w, FieldAt(name, id), id, o[id], o[Which] # 0)
    ELSE FoldLeft(LAMBDA acc, f : MarshalField(acc, f, f.id, o[f.id], FALSE), w, Fields(name))

SeqEnd(w, keep) == IF keep THEN EndKeep(w) ELSE End(w)

\* A field at its default is not written, unless forced: the option a union
\* holds in place of its default one.
MarshalField(w, f, id, v, forced) ==
    CASE f.type.kind = "ref" -> SeqEnd(Serialize(BeginLazy(w, id), f.type.to, v), forced)
      [] f.type.kind = "list" -> MarshalArray(w, f.type, id, v, forced)
      [] f.type.kind \in Payloads \cup Numbers \cup {"native"} /\ ~ forced /\ v = f.dflt -> w
      [] f.type.kind = "native" /\ (forced \/ v # f.dflt) -> MarshalArray(w, f.type, id, v, forced)
      [] f.type.kind \in Payloads /\ (forced \/ v # f.dflt) -> Guarded(w, f.type, v, Pay(id, f.type.kind, v))
      [] f.type.kind \in Numbers /\ (forced \/ v # f.dflt) -> Write(w, Val(id, f.type.kind, v))

\* Elements are written at their index; one that is empty only if it is last,
\* since the highest index is the length.
MarshalElement(w, type, i, v, last) ==
    CASE type.kind \in Payloads -> IF v = << >> /\ ~ last THEN w ELSE Guarded(w, type, v, Pay(i, type.kind, v))
      [] type.kind = "native" -> IF v = << >> /\ ~ last THEN w ELSE MarshalArray(w, type, i, v, FALSE)
      [] type.kind = "list" -> MarshalArray(w, type, i, v, last)
      [] type.kind = "ref" -> SeqEnd(Serialize(BeginLazy(w, i), type.to, v), last)

MarshalArray(w, type, id, v, keep) ==
    CASE Over(type, v) -> Reject(w)
      [] ~ Over(type, v) /\ type.kind = "native" -> Write(w, Arr(id, type.elem.kind, v))
      [] ~ Over(type, v) /\ type.kind = "list" ->
            LET element(acc, i) == MarshalElement(acc, type.elem, i - 1, v[i], i = Len(v))
            IN  SeqEnd(FoldLeftDomain(element, BeginLazy(w, id), v), keep)

Encode(o) == Sent(Serialize(NewWriter, Root, o))

-----------------------------------------------------------------------------
(* The visitor                                                             *)

Visitor(path, type) == [path |-> path, type |-> type]
Top == stack[Len(stack)]

At(path) == FoldLeft(LAMBDA v, step : v[step], obj, path)
RECURSIVE PutAt(_, _, _)
PutAt(v, path, new) ==
    IF path = << >> THEN new ELSE [v EXCEPT ![Head(path)] = PutAt(@, Tail(path), new)]

\* The arm a callback has for an id: none in a visitor without such a field.
Arm(id) ==
    IF Top.type.kind = "ref" /\ id \in IdsOf(Top.type.to) THEN FieldAt(Top.type.to, id).type ELSE Skipped
Arms(tok) == IF Gate(Arm(tok.id), tok) THEN Arm(tok.id) ELSE Skipped

\* A store into a field; an option is selected by the same statement.
Store(node, id, v) ==
    IF IsUnion(Top.type.to) THEN [node EXCEPT ![Which] = Tag(Top.type.to, id), ![id] = v]
    ELSE [node EXCEPT ![id] = v]
Stored(id, v) == PutAt(obj, Top.path, Store(At(Top.path), id, v))

\* The elements of an array are the collectors' (a corelib's): they place one
\* at its index, start every other at its type's defaults, and hold both bounds.
Collected(id, v) ==
    LET list == At(Top.path)
        padded == [i \in 1 .. Max({id + 1, Len(list)}) |-> IF i <= Len(list) THEN list[i] ELSE New(Top.type.elem)]
    IN  PutAt(obj, Top.path, [padded EXCEPT ![id + 1] = v])

Kept(tok) ==
    CASE Top.type.kind = "list" /\ Gate(Top.type.elem, tok) -> Collected(tok.id, tok.got)
      [] Top.type.kind = "ref" /\ Arms(tok) # Skipped -> Stored(tok.id, tok.got)
      [] OTHER -> obj

\* Unsigned, Signed, Float32, Float64: the width guard, then the store.
Number(tok) ==
    /\ tok.t = "val"
    /\ Arrives(tok)
    /\ LET type == Arms(tok)
           wide == type # Skipped /\ Wide(type, tok.got[1])
       IN  /\ verdict' = IF wide THEN "invalid" ELSE verdict
           /\ obj' = IF type = Skipped \/ wide THEN obj ELSE Stored(tok.id, tok.got[1])
    /\ UNCHANGED <<schema, stack>>

FixlenBound(tok) ==
    CASE Top.type.kind = "ref" /\ Arms(tok) # Skipped -> Exceeds(tok.n, Arms(tok).max, Caps[Arms(tok).kind])
      [] Top.type.kind = "list" -> Judge(Top.type, TypeIn(Top.type, tok), tok)
      [] OTHER -> "fine"

FixlenBegin(tok) ==
    /\ tok.t = "pay"
    /\ Arrives(tok)
    /\ verdict' = FixlenBound(tok)
    /\ obj' = IF Whole(tok) /\ FixlenBound(tok) = "fine" THEN Kept(tok) ELSE obj
    /\ UNCHANGED <<schema, stack>>

\* String, Bytes: nothing is done until the payload is whole.
Piece(bytes) ==
    /\ PieceArrives(bytes)
    /\ LET tok == [Tip EXCEPT !.got = @ \o bytes]
           bad == Whole(tok) /\ tok.k = "str" /\ Kept(tok) # obj /\ ~ Text(tok.got)
       IN  /\ verdict' = IF bad THEN "invalid" ELSE verdict
           /\ obj' = IF Whole(tok) /\ ~ bad THEN Kept(tok) ELSE obj
    /\ UNCHANGED <<schema, stack>>

ArrayBound(tok) ==
    CASE Top.type.kind = "ref" /\ Arms(tok) # Skipped -> Exceeds(tok.n, Arms(tok).count, Caps.array)
      [] Top.type.kind = "list" -> Judge(Top.type, TypeIn(Top.type, tok), tok)
      [] OTHER -> "fine"

\* The destination is opened empty at the header, the option selected with it;
\* a row is placed by its collector when it is whole.
ArrayBegin(tok) ==
    /\ tok.t = "arr"
    /\ Arrives(tok)
    /\ verdict' = ArrayBound(tok)
    /\ obj' = IF ArrayBound(tok) = "fine" /\ (Top.type.kind = "list" => Whole(tok)) THEN Kept(tok) ELSE obj
    /\ UNCHANGED <<schema, stack>>

ElementWidth(tok, v) ==
    LET type == IF Top.type.kind = "list" THEN TypeIn(Top.type, tok) ELSE Arms(tok)
    IN  IF type # Skipped /\ Wide(type.elem, v) THEN "invalid" ELSE "fine"

Appended(tok, v) == PutAt(obj, Top.path \o <<tok.id>>, Append(At(Top.path)[tok.id], v))

ArrayElement(v) ==
    /\ ElementArrives(v)
    /\ LET tok == [Tip EXCEPT !.got = Append(@, v)]
       IN  /\ verdict' = ElementWidth(tok, v)
           /\ obj' = CASE ElementWidth(tok, v) # "fine" -> obj
                       [] ElementWidth(tok, v) = "fine" /\ Top.type.kind = "list" ->
                             IF Whole(tok) THEN Kept(tok) ELSE obj
                       [] OTHER -> IF Arms(tok) = Skipped THEN obj ELSE Appended(tok, v)
    /\ UNCHANGED <<schema, stack>>

\* Fault: Mut selects the option again though it is held.
MutAnew(node, id) ==
    [node EXCEPT ![Which] = Tag(Top.type.to, id), ![id] = New(Arm(id))]

\* Mut<Option>: at its default unless it is held already.
Mut(node, id) ==
    IF node[Which] = Tag(Top.type.to, id) THEN node
    ELSE [node EXCEPT ![Which] = Tag(Top.type.to, id), ![id] = New(Arm(id))]

\* The object a child visitor fills, in place: a struct continues, an option by
\* Mut, an array starts empty; an element by its collector.
Descended(tok) ==
    LET type == TypeIn(Top.type, tok)
    IN  CASE type = Skipped -> obj
          [] Top.type.kind = "list" /\ type # Skipped ->
                IF type.kind = "ref" /\ tok.id < Len(At(Top.path)) THEN obj ELSE Collected(tok.id, New(type))
          [] Top.type.kind = "ref" /\ type.kind = "list" -> Stored(tok.id, << >>)
          [] Top.type.kind = "ref" /\ type.kind = "ref" ->
                IF IsUnion(Top.type.to) THEN PutAt(obj, Top.path, Mut(At(Top.path), tok.id)) ELSE obj

BeginSequence(tok) ==
    /\ tok.t = "open"
    /\ Arrives(tok)
    /\ LET type == TypeIn(Top.type, tok)
           step == IF Top.type.kind = "list" THEN tok.id + 1 ELSE tok.id
           bad == Judge(Top.type, type, tok)
       IN  /\ verdict' = bad
           /\ obj' = IF bad = "fine" THEN Descended(tok) ELSE obj
           /\ stack' = IF bad # "fine" THEN stack
                       ELSE Append(stack, Visitor(IF type = Skipped THEN << >> ELSE Append(Top.path, step), type))
    /\ UNCHANGED schema

EndSequence ==
    /\ Ends
    /\ stack' = Front(stack)
    /\ UNCHANGED <<schema, obj, verdict>>

-----------------------------------------------------------------------------
Init ==
    /\ schema \in Schemas
    /\ wire = << >>
    /\ obj = New(RootType)
    /\ stack = <<Visitor(<< >>, RootType)>>
    /\ verdict = "fine"

Field(tok) == Number(tok) \/ FixlenBegin(tok) \/ ArrayBegin(tok) \/ BeginSequence(tok)

Decoding ==
    /\ verdict = "fine"
    /\ \/ \E tok \in schema.heads : Field(tok)
       \/ \E v \in schema.numbers : ArrayElement(v)
       \/ \E bytes \in schema.pieces : Piece(bytes)
       \/ EndSequence

\* User code edits a message that is whole, decoded or not.
Edit(new) ==
    /\ verdict \in {"fine", "edited"} /\ ~ Pending /\ OpenSequences(wire) = 0
    /\ obj' = Assigned(RootType, obj, new)
    /\ verdict' = "edited"
    /\ wire' = << >>
    /\ UNCHANGED <<schema, stack>>

\* TryDecode into an object that has been used: Reset, then another message.
TryDecode ==
    /\ verdict # "fine" \/ wire # << >>
    /\ obj' = Reset(Root, obj)
    /\ wire' = << >>
    /\ stack' = <<Visitor(<< >>, RootType)>>
    /\ verdict' = "fine"
    /\ UNCHANGED schema

Next == Decoding \/ TryDecode \/ (\E new \in schema.values : Edit(new))

Spec == Init /\ [][Next]_vars

-----------------------------------------------------------------------------
(* At every field boundary the object holds what the message so far means, *)
(* and the decode has failed exactly where MESSAGE_SPEC says, whatever the *)
(* object was used for before; a refused message leaves what came before   *)
(* the fault, as TryDecode's comment promises.                             *)
DecodesAsMeant ==
    verdict # "edited" =>
        LET m == Meaning(wire)
        IN  /\ verdict = m.bad
            /\ ~ Pending /\ (m.bad # "fine" => Tip.t \notin {"pay", "arr"}) => View(RootType, obj) = m.val

(* Whatever object there is - new, decoded, edited, with stale union slots *)
(* or not - Serialize writes a message that reads back as its value, with  *)
(* every frame closed and nothing in it that could be left out, and        *)
(* refuses only a value beyond its schema's bounds; isDefault says when     *)
(* nothing is written, as its comment promises.                            *)
SerializesWhatItHolds == verdict = "edited" \/ (verdict = "fine" /\ ~ Pending) =>
    /\ Encodes(View(RootType, obj), Encode(obj))
    /\ IsDefault(Root, obj) <=> Encode(obj) = << >>

SpeaksTheFormat == DecodesAsMeant /\ SerializesWhatItHolds

=============================================================================
