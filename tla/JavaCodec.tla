----------------------------- MODULE JavaCodec ------------------------------
(***************************************************************************)
(* The code the Java backend emits for a message (generators/java/         *)
(* visitor.go, backend.go, union.go, encodebounds.go): a class per type    *)
(* with serialize, isDefault and reset, and one flat visitor that knows    *)
(* where it is by a number, here the path of ids it stands for, Elem for   *)
(* the element of an array, with the index of that element in ix.  A       *)
(* refusal is an exception, which the stream keeps.                        *)
(*                                                                         *)
(* A union keeps a slot for every option, whatever it held before; those   *)
(* not written yet are null.                                               *)
(***************************************************************************)
EXTENDS Wire

VARIABLES
    obj,     \* the message
    cur,     \* where the fields belong, Dead in what no frame declares
    stack,   \* the places to return to
    ix,      \* per array, the element being decoded
    askip,   \* elements to discard of an array declared nowhere
    afill,   \* elements still expected by the array that is filled
    verdict  \* the exception of feed; "edited" when user code wrote obj

vars == <<schema, wire, obj, cur, stack, ix, askip, afill, verdict>>

Elem == -1
Dead == <<-2>>
Which == -3
Null == None

-----------------------------------------------------------------------------
(* Objects                                                                 *)

\* A new object: every initializer, of a union the default option's alone.
RECURSIVE New(_)
Initial(f) == IF f.type.kind = "ref" THEN New(f.type) ELSE f.dflt
New(type) ==
    CASE type.kind \in Numbers -> 0
      [] type.kind = "ref" /\ IsUnion(type.to) ->
            (Which :> HeldFirst(type.to)) @@ (HeldFirst(type.to) :> Initial(FieldAt(type.to, HeldFirst(type.to))))
                @@ [id \in IdsOf(type.to) |-> Null]
      [] type.kind = "ref" /\ ~ IsUnion(type.to) -> [id \in IdsOf(type.to) |-> Initial(FieldAt(type.to, id))]
      [] OTHER -> << >>

\* reset(): every field in place; of a union the default option's slot.
RECURSIVE Reset(_, _)
SlotReset(f, v) ==
    CASE f.type.kind # "ref" -> f.dflt
      [] f.type.kind = "ref" /\ v = Null -> New(f.type)
      [] f.type.kind = "ref" /\ v # Null -> Reset(f.type.to, v)
Reset(name, o) ==
    IF IsUnion(name)
    THEN [o EXCEPT ![Which] = HeldFirst(name), ![HeldFirst(name)] = SlotReset(FieldAt(name, HeldFirst(name)), @)]
    ELSE [id \in DOMAIN o |-> SlotReset(FieldAt(name, id), o[id])]

\* set<Option>, and mutable<Option>: its slot, at its default unless it is held.
Set(u, id, v) == [u EXCEPT ![Which] = id, ![id] = v]
\* Fault: the slot as it was left.
MutableAsLeft(name, u, id) ==
    IF u[id] # Null THEN [u EXCEPT ![Which] = id] ELSE Set(u, id, SlotReset(FieldAt(name, id), u[id]))
Mutable(name, u, id) ==
    IF u[Which] = id /\ u[id] # Null THEN u ELSE Set(u, id, SlotReset(FieldAt(name, id), u[id]))

\* What an object says through its accessors.
RECURSIVE View(_, _)
View(type, v) ==
    CASE type.kind = "list" -> [i \in DOMAIN v |-> View(type.elem, v[i])]
      [] type.kind = "ref" /\ IsUnion(type.to) ->
            <<v[Which], View(FieldAt(type.to, v[Which]).type, v[v[Which]])>>
      [] type.kind = "ref" /\ ~ IsUnion(type.to) -> [id \in DOMAIN v |-> View(FieldAt(type.to, id).type, v[id])]
      [] OTHER -> v

\* User code gives an object a value, a union by set<Option>.
RECURSIVE Assigned(_, _, _)
Assigned(type, v, new) ==
    CASE type.kind = "list" -> [i \in DOMAIN new |-> Assigned(type.elem, New(type.elem), new[i])]
      [] type.kind = "ref" /\ IsUnion(type.to) ->
            LET option == FieldAt(type.to, new[1]) IN Set(v, new[1], Assigned(option.type, Initial(option), new[2]))
      [] type.kind = "ref" /\ ~ IsUnion(type.to) ->
            [id \in DOMAIN v |-> Assigned(FieldAt(type.to, id).type, v[id], new[id])]
      [] OTHER -> new

-----------------------------------------------------------------------------
(* serialize                                                               *)

RECURSIVE IsDefault(_, _), Marshal(_, _, _, _), MarshalArray(_, _, _, _, _), Serialize(_, _, _)

FieldWrites(f, v) ==
    CASE f.type.kind = "ref" -> ~ IsDefault(f.type.to, v)
      [] f.type.kind = "list" -> v # << >>
      [] OTHER -> v # f.dflt
IsDefault(name, o) ==
    IF IsUnion(name)
    THEN o[Which] = HeldFirst(name) /\ ~ FieldWrites(FieldAt(name, HeldFirst(name)), o[HeldFirst(name)])
    ELSE \A id \in DOMAIN o : ~ FieldWrites(FieldAt(name, id), o[id])

\* The types are wider than some declarations, and arrays grow.
Past(type, v) ==
    CASE type.kind \in Numbers -> Wide(type, v)
      [] type.kind \in Payloads -> type.max # None /\ Len(v) > type.max
      [] type.kind \in {"native", "list"} -> type.count # None /\ Len(v) > type.count
Guarded(w, type, v, tok) == IF Past(type, v) THEN Reject(w) ELSE Write(w, tok)

SeqEnd(w, keep) == IF keep THEN EndKeep(w) ELSE End(w)

\* Forced: the option a union holds in place of its default one.
Marshal(w, f, v, forced) ==
    CASE f.type.kind = "ref" -> SeqEnd(Serialize(BeginLazy(w, f.id), f.type.to, v), forced)
      [] f.type.kind = "list" -> MarshalArray(w, f.type, f.id, v, forced)
      [] ~ forced /\ v = f.dflt -> w
      [] f.type.kind = "native" /\ (forced \/ v # f.dflt) -> MarshalArray(w, f.type, f.id, v, FALSE)
      [] f.type.kind \in Numbers /\ (forced \/ v # f.dflt) -> Guarded(w, f.type, v, Val(f.id, f.type.kind, v))
      [] f.type.kind \in Payloads /\ (forced \/ v # f.dflt) -> Guarded(w, f.type, v, Pay(f.id, f.type.kind, v))

Serialize(w, name, o) ==
    IF IsUnion(name) THEN Marshal(w, FieldAt(name, o[Which]), o[o[Which]], o[Which] # HeldFirst(name))
    ELSE FoldLeft(LAMBDA acc, f : Marshal(acc, f, o[f.id], FALSE), w, Fields(name))

LastElem(i, n) == i = n
MarshalElement(w, type, i, v, last) ==
    CASE type.kind = "ref" -> SeqEnd(Serialize(BeginLazy(w, i), type.to, v), last)
      [] type.kind = "list" -> MarshalArray(w, type, i, v, last)
      [] type.kind \in Payloads \cup {"native"} /\ v = << >> /\ ~ last -> w
      [] type.kind \in Payloads /\ (v # << >> \/ last) -> Guarded(w, type, v, Pay(i, type.kind, v))
      [] type.kind = "native" /\ (v # << >> \/ last) -> MarshalArray(w, type, i, v, FALSE)

MarshalArray(w, type, id, v, keep) ==
    CASE Past(type, v) -> Reject(w)
      [] ~ Past(type, v) /\ type.kind = "native" -> Write(w, Arr(id, type.elem.kind, v))
      [] ~ Past(type, v) /\ type.kind = "list" ->
            LET element(acc, i) == MarshalElement(acc, type.elem, i - 1, v[i], LastElem(i, Len(v)))
            IN  SeqEnd(FoldLeftDomain(element, BeginLazy(w, id), v), keep)

Encode(o) == Sent(Serialize(NewWriter, Root, o))

-----------------------------------------------------------------------------
(* The frames of the visitor                                               *)

Inner(type, step) == IF type.kind = "list" THEN type.elem ELSE FieldAt(type.to, step).type
TypeAt(loc) == FoldLeft(Inner, RootType, loc)
Path(loc) == [i \in DOMAIN loc |-> IF loc[i] = Elem THEN ix[SubSeq(loc, 1, i - 1)] + 1 ELSE loc[i]]

\* What a path leads to, and the message with another value there: every union
\* on it is passed through mutable<Option>.
Passed(type, v, step) == IF type.kind = "ref" /\ IsUnion(type.to) THEN Mutable(type.to, v, step) ELSE v
RECURSIVE Get(_, _, _), Put(_, _, _, _)
Get(type, v, path) ==
    IF path = << >> THEN v ELSE Get(Inner(type, Head(path)), Passed(type, v, Head(path))[Head(path)], Tail(path))
Put(type, v, path, new) ==
    IF path = << >> THEN new
    ELSE [Passed(type, v, Head(path)) EXCEPT ![Head(path)] = Put(Inner(type, Head(path)), @, Tail(path), new)]
At(loc) == Get(RootType, obj, Path(loc))
With(loc, v) == Put(RootType, obj, Path(loc), v)

Here == IF cur = Dead THEN Skipped ELSE TypeAt(cur)
InUnion == Here.kind = "ref" /\ IsUnion(Here.to)
Arm(id) ==
    CASE Here.kind = "list" -> Here.elem
      [] Here.kind = "ref" /\ id \in IdsOf(Here.to) -> FieldAt(Here.to, id).type
      [] OTHER -> Skipped
ArmOf(kinds, id) == IF Arm(id).kind \in kinds THEN Arm(id) ELSE Skipped
NativeArm(k, id) == IF Arm(id).kind = "native" /\ Arm(id).elem.kind = k THEN Arm(id) ELSE Skipped

\* memberStore
Stored(id, v) == With(cur, IF InUnion THEN Set(At(cur), id, v) ELSE [At(cur) EXCEPT ![id] = v])
\* Seq.checkIndex, and what placeElem, reserveElem and reserveRow make room for.
CheckIndex(id) == IF Here.kind = "list" THEN Exceeds(id + 1, Here.count, Caps.array) ELSE "fine"
Room(id) == [i \in 1 .. Max({id + 1, Len(At(cur))}) |-> IF i <= Len(At(cur)) THEN At(cur)[i] ELSE New(Here.elem)]
Placing(id, v) == With(cur, [Room(id) EXCEPT ![id + 1] = v])

-----------------------------------------------------------------------------
(* Its callbacks                                                           *)

\* The array being filled: the row of the frame, or the field of the id.
Filling(id) == Append(cur, IF Here.kind = "list" THEN Elem ELSE id)
FilledAt == Tip.n - afill + 1

\* unsigned, signed, fp32, fp64: an element of the array being filled, one to
\* be discarded, or a number of its own.
Scalar(k, id, v) ==
    LET type == IF afill # 0 THEN NativeArm(k, id).elem ELSE IF Here.kind = "ref" THEN ArmOf({k}, id) ELSE Skipped
        wide == type # Skipped /\ Wide(type, v)
        stays == askip > 0 \/ wide \/ type = Skipped
    IN  /\ afill' = IF afill # 0 THEN afill - 1 ELSE afill
        /\ askip' = IF afill = 0 /\ askip > 0 THEN askip - 1 ELSE askip
        /\ verdict' = IF askip = 0 /\ wide THEN "invalid" ELSE verdict
        /\ obj' = CASE stays -> obj
                    [] ~ stays /\ afill = 0 -> Stored(id, v)
                    [] ~ stays /\ afill # 0 -> With(Filling(id), [At(Filling(id)) EXCEPT ![FilledAt] = v])

Number(tok) ==
    /\ tok.t = "val"
    /\ Arrives(tok)
    /\ Scalar(tok.k, tok.id, tok.got[1])
    /\ UNCHANGED <<schema, cur, stack, ix>>

\* Elements a decoder writes into the array itself (arrayBulk) end up the same.
ArrayElement(v) ==
    /\ ElementArrives(v)
    /\ Scalar(Tip.k, Tip.id, v)
    /\ UNCHANGED <<schema, cur, stack, ix>>

\* arrayBegin: as long as announced at once, whether it is filled or not.
ArrayGuard(type, tok) ==
    IF type = Skipped THEN "fine" ELSE FirstBad(<<CheckIndex(tok.id), Exceeds(tok.n, type.count, Caps.array)>>)
Allocated(n) == [i \in 1 .. n |-> 0]
Armed(type, tok) ==
    LET fills == type # Skipped /\ ArrayGuard(type, tok) = "fine"
        row == Here.kind = "list"
    IN  /\ verdict' = ArrayGuard(type, tok)
        /\ askip' = IF fills THEN 0 ELSE tok.n
        /\ afill' = IF fills THEN tok.n ELSE 0
        /\ obj' = CASE ~ fills -> obj
                    [] fills /\ row -> Placing(tok.id, Allocated(tok.n))
                    [] fills /\ ~ row -> Stored(tok.id, Allocated(tok.n))
        /\ ix' = IF fills /\ row THEN (cur :> tok.id) @@ ix ELSE ix

ArrayBegin(tok) ==
    /\ tok.t = "arr"
    /\ Arrives(tok)
    /\ Armed(NativeArm(tok.k, tok.id), tok)
    /\ UNCHANGED <<schema, cur, stack>>

\* string, blob: nothing before the payload is whole, nothing at all of one
\* that is declared nowhere.
Payload(type, tok) ==
    IF type = Skipped \/ ~ Whole(tok) THEN UNCHANGED <<obj, verdict>>
    ELSE LET bad == FirstBad(<<IF tok.k = "str" /\ ~ Text(tok.got) THEN "invalid" ELSE "fine", CheckIndex(tok.id)>>)
         IN  /\ verdict' = bad
             /\ obj' = CASE bad # "fine" -> obj
                         [] bad = "fine" /\ Here.kind = "list" -> Placing(tok.id, tok.got)
                         [] bad = "fine" /\ Here.kind = "ref" -> Stored(tok.id, tok.got)

\* fixlenBegin
LengthGuard(type, tok) ==
    IF type = Skipped THEN "fine" ELSE FirstBad(<<CheckIndex(tok.id), Exceeds(tok.n, type.max, Caps[tok.k])>>)
FixlenBegin(tok) ==
    /\ tok.t = "pay"
    /\ Arrives(tok)
    /\ LET type == ArmOf({tok.k}, tok.id)
       IN  IF LengthGuard(type, tok) = "fine" THEN Payload(type, tok)
           ELSE verdict' = LengthGuard(type, tok) /\ UNCHANGED obj
    /\ UNCHANGED <<schema, cur, stack, ix, askip, afill>>

Piece(bytes) ==
    /\ PieceArrives(bytes)
    /\ Payload(ArmOf({Tip.k}, Tip.id), [Tip EXCEPT !.got = @ \o bytes])
    /\ UNCHANGED <<schema, cur, stack, ix, askip, afill>>

\* sequenceBegin: a struct as it is, a list emptied, both in a union the option
\* selected; an element at its index, a row made anew.
EnterField(type, id) ==
    /\ Here.kind = "ref" /\ type # Skipped
    /\ cur' = Append(cur, id)
    /\ obj' = CASE type.kind = "list" -> With(Append(cur, id), << >>)
                [] type.kind = "ref" /\ InUnion -> With(cur, Mutable(Here.to, At(cur), id))
                [] OTHER -> obj
    /\ UNCHANGED <<ix, verdict>>

EnterElement(type, id) ==
    /\ Here.kind = "list" /\ type # Skipped
    /\ verdict' = CheckIndex(id)
    /\ IF CheckIndex(id) # "fine" THEN UNCHANGED <<cur, obj, ix>>
       ELSE /\ cur' = Append(cur, Elem)
            /\ ix' = (cur :> id) @@ ix
            /\ obj' = IF type.kind = "list" THEN Placing(id, << >>) ELSE With(cur, Room(id))

EnterNothing(type) == type = Skipped /\ cur' = Dead /\ UNCHANGED <<obj, ix, verdict>>

SequenceBegin(tok) ==
    /\ tok.t = "open"
    /\ Arrives(tok)
    /\ stack' = Append(stack, cur)
    /\ LET type == ArmOf({"ref", "list"}, tok.id)
       IN  EnterField(type, tok.id) \/ EnterElement(type, tok.id) \/ EnterNothing(type)
    /\ UNCHANGED <<schema, askip, afill>>

SequenceEnd ==
    /\ Ends
    /\ cur' = Last(stack) /\ stack' = Front(stack)
    /\ UNCHANGED <<schema, obj, ix, askip, afill, verdict>>

-----------------------------------------------------------------------------
NewVisitor == wire' = << >> /\ cur' = << >> /\ stack' = << >> /\ ix' = << >> /\ askip' = 0 /\ afill' = 0

Init ==
    /\ schema \in Schemas
    /\ wire = << >>
    /\ obj = New(RootType)
    /\ cur = << >> /\ stack = << >> /\ ix = << >> /\ askip = 0 /\ afill = 0
    /\ verdict = "fine"

Decoding ==
    /\ verdict = "fine"
    /\ \/ \E tok \in schema.heads : Number(tok) \/ FixlenBegin(tok) \/ ArrayBegin(tok) \/ SequenceBegin(tok)
       \/ \E v \in schema.numbers : ArrayElement(v)
       \/ \E bytes \in schema.pieces : Piece(bytes)
       \/ SequenceEnd

\* User code gives a message a value.
Edit(new) ==
    /\ verdict = "fine" => ~ Pending
    /\ obj' = Assigned(RootType, New(RootType), new)
    /\ verdict' = "edited"
    /\ NewVisitor
    /\ UNCHANGED schema

\* tryDecode into a message that has been used: reset, and a new visitor.  What
\* an earlier one left in it is a value too (a bound of the run).
TryDecode ==
    /\ verdict = "edited" /\ View(RootType, obj) \in schema.used
    /\ obj' = Reset(Root, obj)
    /\ verdict' = "fine"
    /\ NewVisitor
    /\ UNCHANGED schema

Next == Decoding \/ TryDecode \/ (\E new \in schema.values \cup schema.wide : Edit(new))

Spec == Init /\ [][Next]_vars

-----------------------------------------------------------------------------
(* At every field boundary the message holds what the fields so far mean,  *)
(* whatever it held before, and feed has thrown exactly where MESSAGE_SPEC *)
(* says: the comments of reset, fixlenBegin and arrayBegin.  What          *)
(* serialize writes of any message reads back as it, with every frame      *)
(* closed and nothing in it that could be left out; it throws for a value  *)
(* past its bounds only, and isDefault is true when it "would write        *)
(* nothing at all".                                                        *)
SpeaksTheFormat ==
    /\ verdict # "edited" =>
          LET m == Meaning(wire)
          IN  /\ verdict = m.bad
              /\ verdict = "fine" /\ ~ Pending => View(RootType, obj) = m.val
    /\ verdict = "edited" \/ (verdict = "fine" /\ ~ Pending) =>
          /\ Encodes(View(RootType, obj), Encode(obj))
          /\ IsDefault(Root, obj) <=> Encode(obj) = << >>

=============================================================================
