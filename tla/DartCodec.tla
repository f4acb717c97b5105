----------------------------- MODULE DartCodec ------------------------------
(***************************************************************************)
(* The code the Dart backend emits for a message (generators/dart/         *)
(* visitor.go, backend.go, union.go): serialize and reset, and a visitor   *)
(* per class whose onSequenceStart returns the visitor of the sequence, or *)
(* null.  A text, a blob or an array of numbers is a destination: its      *)
(* callback judges the header and hands out the storage of the object      *)
(* itself, which the corelib fills as the bytes come, so nothing is called *)
(* when the value is whole.                                                *)
(*                                                                         *)
(* A union keeps a slot per option, null until the option is first         *)
(* selected; a slot that was selected before is emptied in place.          *)
(***************************************************************************)
EXTENDS Wire

VARIABLES
    obj,     \* the message object
    stack,   \* the visitors: an object or list by its path, and its type
    verdict  \* the DecodeStatus; "edited" when user code wrote obj

vars == <<schema, wire, obj, stack, verdict>>

Which == -1
Null == None

-----------------------------------------------------------------------------
(* Objects                                                                 *)

IsDest(type) == type.kind \in Payloads \cup {"native"}
UnionMutable(f) == IsDest(f.type) \/ f.type.kind \in {"ref", "list"}

\* An option's own default is not declared on a destination: it is empty.
RECURSIVE New(_)
Initial(f) == IF f.type.kind = "ref" THEN New(f.type) ELSE f.dflt
UnionNew(f) == IF IsDest(f.type) THEN << >> ELSE Initial(f)
SlotInit(name, f) == IF UnionMutable(f) /\ f.id # HeldFirst(name) THEN Null ELSE UnionNew(f)
New(type) ==
    CASE type.kind \in Numbers -> 0
      [] type.kind = "ref" /\ IsUnion(type.to) ->
            (Which :> HeldFirst(type.to)) @@ [id \in IdsOf(type.to) |-> SlotInit(type.to, FieldAt(type.to, id))]
      [] type.kind = "ref" /\ ~ IsUnion(type.to) -> [id \in IdsOf(type.to) |-> Initial(FieldAt(type.to, id))]
      [] OTHER -> << >>

\* reset, of a field and of the slot of an option, in place.
RECURSIVE Reset(_, _)
ResetField(f, v) == IF f.type.kind = "ref" THEN Reset(f.type.to, v) ELSE f.dflt
UnionSlotReset(f, v) ==
    CASE f.type.kind = "ref" /\ v # Null -> Reset(f.type.to, v)
      [] f.type.kind = "list" \/ IsDest(f.type) -> << >>
      [] OTHER -> UnionNew(f)
Reset(name, o) ==
    IF IsUnion(name)
    THEN [o EXCEPT ![Which] = HeldFirst(name), ![HeldFirst(name)] = UnionSlotReset(FieldAt(name, HeldFirst(name)), @)]
    ELSE [id \in DOMAIN o |-> ResetField(FieldAt(name, id), o[id])]

\* Fault: a slot that is there already is handed out as it is.
MutableKept(name, u, id) ==
    [u EXCEPT ![Which] = id, ![id] = IF @ = Null THEN UnionNew(FieldAt(name, id)) ELSE @]

\* mutable<Option>, and an option's setter.
Mutable(name, u, id) ==
    IF u[Which] = id THEN u
    ELSE [u EXCEPT ![Which] = id, ![id] = UnionSlotReset(FieldAt(name, id), @)]
SetTo(u, id, v) == [u EXCEPT ![Which] = id, ![id] = v]

\* What an object says through its accessors, and user code that edits it in
\* place, a destination by assign.
RECURSIVE View(_, _), Assigned(_, _, _)
View(type, v) ==
    CASE type.kind = "list" -> [i \in DOMAIN v |-> View(type.elem, v[i])]
      [] type.kind = "ref" /\ IsUnion(type.to) ->
            <<v[Which], View(FieldAt(type.to, v[Which]).type, v[v[Which]])>>
      [] type.kind = "ref" /\ ~ IsUnion(type.to) -> [id \in DOMAIN v |-> View(FieldAt(type.to, id).type, v[id])]
      [] OTHER -> v
Assigned(type, v, new) ==
    CASE type.kind = "list" -> [i \in DOMAIN new |-> Assigned(type.elem, New(type.elem), new[i])]
      [] type.kind = "ref" /\ IsUnion(type.to) ->
            [Mutable(type.to, v, new[1]) EXCEPT ![new[1]] = Assigned(FieldAt(type.to, new[1]).type, @, new[2])]
      [] type.kind = "ref" /\ ~ IsUnion(type.to) ->
            [id \in DOMAIN v |-> Assigned(FieldAt(type.to, id).type, v[id], new[id])]
      [] OTHER -> new

-----------------------------------------------------------------------------
(* serialize                                                               *)

RECURSIVE Serialize(_, _, _), MarshalArray(_, _, _, _, _)

\* encodeGuard stands in the branch that writes; the width of the elements of an
\* array is its writer's.
OutOfBounds(type, v) ==
    CASE type.kind \in Numbers -> Wide(type, v)
      [] type.kind \in Payloads -> type.max # None /\ Len(v) > type.max
      [] type.kind \in {"native", "list"} -> type.count # None /\ Len(v) > type.count
EncodeGuard(w, type, v) == IF OutOfBounds(type, v) THEN Reject(w) ELSE w
WriteDest(w, id, type, v) ==
    CASE type.kind \in Payloads -> Write(w, Pay(id, type.kind, v))
      [] type.kind = "native" ->
            Write(IF \E e \in Range(v) : Wide(type.elem, e) THEN Reject(w) ELSE w, Arr(id, type.elem.kind, v))
SeqEnd(w, keep) == IF keep THEN EndKeep(w) ELSE End(w)

\* Forced: the option a union holds in place of its default one.
MarshalAt(w, f, v, forced) ==
    CASE f.type.kind = "ref" -> SeqEnd(Serialize(BeginLazy(w, f.id), f.type.to, v), forced)
      [] f.type.kind = "list" -> MarshalArray(w, f.type, f.id, v, forced)
      [] IsDest(f.type) ->
            IF forced \/ v # f.dflt THEN WriteDest(EncodeGuard(w, f.type, v), f.id, f.type, v) ELSE w
      [] f.type.kind \in Numbers ->
            IF forced \/ v # f.dflt THEN Write(EncodeGuard(w, f.type, v), Val(f.id, f.type.kind, v)) ELSE w

Serialize(w, name, o) ==
    IF IsUnion(name) THEN MarshalAt(w, FieldAt(name, o[Which]), o[o[Which]], o[Which] # HeldFirst(name))
    ELSE FoldLeft(LAMBDA acc, f : MarshalAt(acc, f, o[f.id], FALSE), w, Fields(name))

\* A destination's bound is judged before it is left out; the last element stays.
LastElem(i, n) == i = n - 1
MarshalElement(w, type, i, v, last) ==
    CASE type.kind = "ref" -> SeqEnd(Serialize(BeginLazy(w, i), type.to, v), last)
      [] type.kind = "list" -> MarshalArray(w, type, i, v, last)
      [] IsDest(type) ->
            LET guarded == EncodeGuard(w, type, v)
            IN  IF v # << >> \/ last THEN WriteDest(guarded, i, type, v) ELSE guarded

MarshalArray(w, type, id, v, keep) ==
    LET element(acc, i) == MarshalElement(acc, type.elem, i - 1, v[i], LastElem(i - 1, Len(v)))
    IN  SeqEnd(FoldLeftDomain(element, BeginLazy(EncodeGuard(w, type, v), id), v), keep)

Encode(o) == Sent(Serialize(NewWriter, Root, o))

-----------------------------------------------------------------------------
(* The visitors                                                            *)

Visitor(path, type) == [path |-> path, type |-> type]
Top == stack[Len(stack)]
InList == Top.type.kind = "list"
InUnion == Top.type.kind = "ref" /\ IsUnion(Top.type.to)

At(path) == FoldLeft(LAMBDA v, step : v[step], obj, path)
RECURSIVE PutAt(_, _, _)
PutAt(v, path, new) ==
    IF path = << >> THEN new ELSE [v EXCEPT ![Head(path)] = PutAt(@, Tail(path), new)]
Member(id) == Append(Top.path, IF InList THEN id + 1 ELSE id)

\* An element in its list; the ones before it that never came are new ones.
Collected(id, v) ==
    LET list == At(Top.path)
        padded == [i \in 1 .. Max({id + 1, Len(list)}) |-> IF i <= Len(list) THEN list[i] ELSE New(Top.type.elem)]
    IN  PutAt(obj, Top.path, [padded EXCEPT ![id + 1] = v])

\* The object with the member a callback names: an option by mutable<Option>.
Reached(id) == IF InUnion THEN PutAt(obj, Top.path, Mutable(Top.type.to, At(Top.path), id)) ELSE obj
Emptied(id) == PutAt(Reached(id), Member(id), << >>)

\* onUnsigned, onSigned, onFp64: the width guard, then the store or the setter.
Number(tok) ==
    /\ tok.t = "val"
    /\ Arrives(tok)
    /\ LET type == IF InList THEN Skipped ELSE TypeIn(Top.type, tok)
           wide == type # Skipped /\ Wide(type, tok.got[1])
           v == tok.got[1]
           node == At(Top.path)
       IN  /\ verdict' = IF wide THEN "invalid" ELSE verdict
           /\ obj' = IF type = Skipped \/ wide THEN obj
                     ELSE PutAt(obj, Top.path, IF InUnion THEN SetTo(node, tok.id, v) ELSE [node EXCEPT ![tok.id] = v])
    /\ UNCHANGED <<schema, stack>>

\* The bound of a destination; of an element, its collector's: a corelib's, given
\* the bounds of the schema and of the receiver.
DestBound(type, tok) ==
    IF type.kind = "native" THEN Exceeds(tok.n, type.count, Caps.array) ELSE Exceeds(tok.n, type.max, Caps[type.kind])
DestReturn(type, tok) ==
    CASE type = Skipped -> "fine"
      [] type # Skipped /\ InList -> Judge(Top.type, type, tok)
      [] type # Skipped /\ ~ InList -> DestBound(type, tok)

\* onString, onBlob, on<..>Array
Destination(tok) ==
    /\ tok.t \in {"pay", "arr"}
    /\ Arrives(tok)
    /\ LET type == TypeIn(Top.type, tok)
           bad == DestReturn(type, tok)
       IN  /\ verdict' = bad
           /\ obj' = CASE type = Skipped \/ bad # "fine" -> obj
                       [] type # Skipped /\ bad = "fine" /\ InList -> Collected(tok.id, << >>)
                       [] type # Skipped /\ bad = "fine" /\ ~ InList -> Emptied(tok.id)
    /\ UNCHANGED <<schema, stack>>

\* The corelib fills what it was given: the width of an element with each, the
\* encoding of a text when it is whole.
Filled(more) == PutAt(obj, Member(Tip.id), At(Member(Tip.id)) \o more)
Piece(bytes) ==
    /\ PieceArrives(bytes)
    /\ LET tok == [Tip EXCEPT !.got = @ \o bytes]
           type == TypeIn(Top.type, tok)
           bad == type # Skipped /\ tok.k = "str" /\ Whole(tok) /\ ~ Text(tok.got)
       IN  /\ verdict' = IF bad THEN "invalid" ELSE verdict
           /\ obj' = IF type = Skipped THEN obj ELSE Filled(bytes)
    /\ UNCHANGED <<schema, stack>>

ArrayElement(v) ==
    /\ ElementArrives(v)
    /\ LET type == TypeIn(Top.type, Tip)
           bad == type # Skipped /\ Wide(type.elem, v)
       IN  /\ verdict' = IF bad THEN "invalid" ELSE verdict
           /\ obj' = IF type = Skipped \/ bad THEN obj ELSE Filled(<<v>>)
    /\ UNCHANGED <<schema, stack>>

\* onSequenceStart: a struct goes on, a list starts empty; an element is its
\* collector's, an object that is there goes on too.
Descended(type, id) ==
    CASE type = Skipped -> obj
      [] type # Skipped /\ InList ->
            IF type.kind = "ref" /\ id < Len(At(Top.path)) THEN obj ELSE Collected(id, New(type))
      [] type.kind = "ref" /\ ~ InList -> Reached(id)
      [] type.kind = "list" /\ ~ InList -> Emptied(id)

SequenceStart(tok) ==
    /\ tok.t = "open"
    /\ Arrives(tok)
    /\ LET type == TypeIn(Top.type, tok)
           bad == Judge(Top.type, type, tok)
           child == IF type = Skipped THEN Visitor(<< >>, Skipped) ELSE Visitor(Member(tok.id), type)
       IN  /\ verdict' = bad
           /\ obj' = IF bad = "fine" THEN Descended(type, tok.id) ELSE obj
           /\ stack' = IF bad = "fine" THEN Append(stack, child) ELSE stack
    /\ UNCHANGED schema

SequenceEnd == Ends /\ stack' = Front(stack) /\ UNCHANGED <<schema, obj, verdict>>

-----------------------------------------------------------------------------
Init ==
    /\ schema \in Schemas
    /\ wire = << >>
    /\ obj = New(RootType)
    /\ stack = <<Visitor(<< >>, RootType)>>
    /\ verdict = "fine"

\* Decoder.feed
Decoding ==
    /\ verdict = "fine"
    /\ \/ \E tok \in schema.heads : Number(tok) \/ Destination(tok) \/ SequenceStart(tok)
       \/ \E v \in schema.numbers : ArrayElement(v)
       \/ \E bytes \in schema.pieces : Piece(bytes)
       \/ SequenceEnd

\* User code gives a message a value, a number past its width too.
Edit(new) ==
    /\ verdict = "fine" => ~ Pending
    /\ obj' = Assigned(RootType, New(RootType), new)
    /\ verdict' = "edited"
    /\ wire' = << >>
    /\ UNCHANGED <<schema, stack>>

\* tryDecode into a message that has been used, by a decode too (a bound of the
\* run: how).
TryDecode ==
    /\ verdict = "fine" => ~ Pending
    /\ View(RootType, obj) \in schema.used
    /\ obj' = Reset(Root, obj)
    /\ wire' = << >>
    /\ stack' = <<Visitor(<< >>, RootType)>>
    /\ verdict' = "fine"
    /\ UNCHANGED schema

Next == Decoding \/ TryDecode \/ (\E new \in schema.values \cup schema.wide : Edit(new))

Spec == Init /\ [][Next]_vars

-----------------------------------------------------------------------------
(* At every field boundary the message holds what the fields so far mean,  *)
(* whatever it held before and whatever its slots still hold, and the      *)
(* decode has failed exactly where MESSAGE_SPEC says: the comments of      *)
(* destReturn, emitReset and unionMutable.  What serialize writes of any   *)
(* message reads back as it, every frame closed and nothing in it that     *)
(* could be left out; it throws for a value past its bounds only.          *)
SpeaksTheFormat ==
    /\ verdict # "edited" =>
          LET m == Meaning(wire)
          IN  /\ verdict = m.bad
              /\ verdict = "fine" /\ ~ Pending => View(RootType, obj) = m.val
    /\ verdict = "edited" \/ (verdict = "fine" /\ ~ Pending) => Encodes(View(RootType, obj), Encode(obj))

=============================================================================
