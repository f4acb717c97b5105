----------------------------- MODULE RustCodec ------------------------------
(***************************************************************************)
(* The code the Rust backend emits for a message with corelib-rs           *)
(* (generators/rust/visitor.go, reuse.go, union.go, backend.go): one flat  *)
(* visitor that knows where it is by a location, serialize, and try_decode *)
(* into a message that keeps the storage of an earlier one.  A refusal is  *)
(* a sticky flag: the corelib goes on delivering the rest of the message.  *)
(*                                                                         *)
(* A location is the path of ids from the root, Elem for the element of a  *)
(* wrapper array; which element is in ix.  An array reached through plain  *)
(* fields keeps its slots from one decode to the next, lv counts those the *)
(* decode in progress has made.                                            *)
(***************************************************************************)
EXTENDS Wire

VARIABLES
    obj,      \* the message
    cur,      \* the location the fields belong to, Dead in a skipped sequence
    stack,    \* the locations to return to
    dead,     \* how deep the skipped sequence is
    ix,       \* per array location, the element being decoded
    lv,       \* per reused array location, its live count
    askip,    \* elements of an array at another field's id still to come
    afill,    \* elements of an array still expected
    flags,    \* inv, lim, err
    verdict   \* what a Decoder fed callback by callback has answered; "edited" when user code wrote obj

vars == <<schema, wire, obj, cur, stack, dead, ix, lv, askip, afill, flags, verdict>>
visitor == <<cur, stack, dead, ix, lv, askip, afill>>

Elem == -1
Dead == <<-2>>

-----------------------------------------------------------------------------
(* Messages                                                                *)

RECURSIVE Default(_)
FieldDefault(f) == IF f.type.kind = "ref" THEN Default(f.type) ELSE f.dflt
Default(type) ==
    CASE type.kind = "ref" /\ IsUnion(type.to) ->
            <<HeldFirst(type.to), FieldDefault(FieldAt(type.to, HeldFirst(type.to)))>>
      [] type.kind = "ref" /\ ~ IsUnion(type.to) ->
            [id \in IdsOf(type.to) |-> FieldDefault(FieldAt(type.to, id))]
      [] type.kind \in Numbers -> 0
      [] OTHER -> << >>

\* reset(): every field in place; a union only if it holds its default option.
RECURSIVE ResetField(_, _)
ResetField(f, v) ==
    CASE f.type.kind # "ref" -> f.dflt
      [] f.type.kind = "ref" /\ IsUnion(f.type.to) ->
            IF v[1] = HeldFirst(f.type.to) THEN <<v[1], ResetField(FieldAt(f.type.to, v[1]), v[2])>> ELSE Default(f.type)
      [] f.type.kind = "ref" /\ ~ IsUnion(f.type.to) ->
            [id \in DOMAIN v |-> ResetField(FieldAt(f.type.to, id), v[id])]
Reset(type, v) == ResetField([id |-> 0, type |-> type, dflt |-> Default(type)], v)

\* Mut: selected at its own default unless it is held.
Mut(name, v, id) == IF v[1] = id THEN v ELSE <<id, FieldDefault(FieldAt(name, id))>>

\* What lies at a path, and a message with another value there; every union on
\* the path is reached through its Mut.
RECURSIVE Get(_, _, _), Put(_, _, _, _)
Inner(type, step) == IF type.kind = "list" THEN type.elem ELSE FieldAt(type.to, step).type
Get(type, v, path) ==
    IF path = << >> THEN v
    ELSE LET h == Head(path)
         IN  Get(Inner(type, h), IF type.kind = "ref" /\ IsUnion(type.to) THEN Mut(type.to, v, h)[2] ELSE v[h], Tail(path))
Put(type, v, path, new) ==
    IF path = << >> THEN new
    ELSE LET h == Head(path)
         IN  IF type.kind = "ref" /\ IsUnion(type.to)
             THEN <<h, Put(Inner(type, h), Mut(type.to, v, h)[2], Tail(path), new)>>
             ELSE [v EXCEPT ![h] = Put(Inner(type, h), @, Tail(path), new)]

Up(loc, i) == SubSeq(loc, 1, i - 1)
TypeAt(loc) == FoldLeft(Inner, RootType, loc)
Path(loc) == [i \in DOMAIN loc |-> IF loc[i] = Elem THEN ix[Up(loc, i)] + 1 ELSE loc[i]]
At(loc) == Get(RootType, obj, Path(loc))
With(loc, v) == Put(RootType, obj, Path(loc), v)

FixedPath(loc) ==
    \A i \in DOMAIN loc : loc[i] # Elem /\ TypeAt(Up(loc, i)).kind = "ref" /\ ~ IsUnion(TypeAt(Up(loc, i)).to)
Live(loc) == IF loc \in DOMAIN lv THEN lv[loc] ELSE 0
Lived(loc, n) == (loc :> n) @@ lv

\* Cut to the slots this decode has made.
RECURSIVE Trimmed(_, _, _)
Trimmed(name, v, loc) ==
    [id \in DOMAIN v |->
        LET type == FieldAt(name, id).type
        IN  CASE type.kind = "list" -> SubSeq(v[id], 1, Live(Append(loc, id)))
              [] type.kind = "ref" /\ ~ IsUnion(type.to) -> Trimmed(type.to, v[id], Append(loc, id))
              [] OTHER -> v[id]]
Message == IF verdict = "edited" THEN obj ELSE Trimmed(Root, obj, << >>)

\* What try_decode does with a message first: arrays of a fixed path keep their slots.
RECURSIVE Rearmed(_, _)
Rearmed(name, v) ==
    [id \in DOMAIN v |->
        LET f == FieldAt(name, id)
        IN  CASE f.type.kind = "list" -> v[id]
              [] f.type.kind = "ref" /\ ~ IsUnion(f.type.to) -> Rearmed(f.type.to, v[id])
              [] OTHER -> ResetField(f, v[id])]

-----------------------------------------------------------------------------
(* serialize                                                               *)

RECURSIVE Serialize(_, _, _), SerializeArray(_, _, _, _, _)

Differs(f, v) == v # f.dflt
Over(type, v) ==
    \/ type.kind \in Payloads /\ type.max # None /\ Len(v) > type.max
    \/ type.kind \in {"native", "list"} /\ type.count # None /\ Len(v) > type.count

SeqEnd(w, keep) == IF keep THEN EndKeep(w) ELSE End(w)

WriteLeaf(w, type, id, v) ==
    CASE type.kind \in Numbers -> Write(w, Val(id, type.kind, v))
      [] type.kind \in Payloads -> Write(w, Pay(id, type.kind, v))
      [] type.kind = "native" -> SerializeArray(w, type, id, v, FALSE)

Guarded(w, f, v) == IF f.type.kind \in Payloads /\ Over(f.type, v) THEN Reject(w) ELSE w

SerializeField(w, f, v) ==
    CASE f.type.kind = "ref" -> End(Serialize(BeginLazy(w, f.id), f.type, v))
      [] f.type.kind = "list" -> SerializeArray(w, f.type, f.id, v, FALSE)
      [] OTHER -> IF Differs(f, v) THEN WriteLeaf(Guarded(w, f, v), f.type, f.id, v) ELSE Guarded(w, f, v)

\* The held option: as a field if it is the default one, else in any case.
UnionArm(w, name, f, v) ==
    LET first == f.id = HeldFirst(name)
    IN  CASE f.type.kind = "ref" -> SeqEnd(Serialize(BeginLazy(w, f.id), f.type, v), ~ first)
          [] f.type.kind = "list" -> SerializeArray(w, f.type, f.id, v, ~ first)
          [] f.type.kind \in Payloads \cup {"native"} ->
                IF first => v # << >> THEN WriteLeaf(Guarded(w, f, v), f.type, f.id, v) ELSE Guarded(w, f, v)
          [] f.type.kind \in Numbers -> IF first => Differs(f, v) THEN WriteLeaf(w, f.type, f.id, v) ELSE w

Serialize(w, type, v) ==
    IF IsUnion(type.to) THEN UnionArm(w, type.to, FieldAt(type.to, v[1]), v[2])
    ELSE FoldLeft(LAMBDA acc, f : SerializeField(acc, f, v[f.id]), w, Fields(type.to))

SerializeElement(w, type, i, v, last) ==
    CASE type.kind \in Payloads ->
            IF Over(type, v) THEN Reject(w) ELSE IF v # << >> \/ last THEN Write(w, Pay(i, type.kind, v)) ELSE w
      [] type.kind = "ref" -> SeqEnd(Serialize(BeginLazy(w, i), type, v), last)
      [] type.kind = "native" -> IF v # << >> \/ last THEN SerializeArray(w, type, i, v, FALSE) ELSE w
      [] type.kind = "list" -> SerializeArray(w, type, i, v, last)

SerializeArray(w, type, id, v, keep) ==
    CASE Over(type, v) -> Reject(w)
      [] ~ Over(type, v) /\ type.kind = "native" -> Write(w, Arr(id, type.elem.kind, v))
      [] ~ Over(type, v) /\ type.kind = "list" ->
            LET element(acc, i) == SerializeElement(acc, type.elem, i - 1, v[i], i = Len(v))
            IN  SeqEnd(FoldLeftDomain(element, BeginLazy(w, id), v), keep)

Encode(v) == Sent(Serialize(NewWriter, RootType, v))

-----------------------------------------------------------------------------
(* Refusals                                                                *)

Raised(verd) ==
    CASE verd = "invalid" -> [flags EXCEPT !.inv = TRUE]
      [] verd = "limit" -> [flags EXCEPT !.lim = TRUE]
      [] OTHER -> flags
Answer(f) ==
    CASE f.inv -> "invalid"
      [] ~ f.inv /\ f.lim -> "limit"
      [] ~ f.inv /\ ~ f.lim /\ f.err -> "overflow"
      [] OTHER -> "fine"
Raise(verd) ==
    /\ flags' = Raised(verd)
    /\ verdict' = IF verdict # "fine" THEN verdict ELSE Answer(Raised(verd))

\* sofab::seq: the bound on an index, and the slot of an element.
CheckIndex(type, id) == Exceeds(id + 1, type.count, Caps.array)
\* Past a refusal by a cap nothing grows, but an index is still judged.
Gated(type, id) ==
    IF flags.lim THEN (IF type.count # None THEN CheckIndex(type, id) ELSE "fine") ELSE CheckIndex(type, id)

Enlarged(list, n, elem) ==
    [i \in 1 .. Max({n, Len(list)}) |-> IF i <= Len(list) THEN list[i] ELSE Default(elem)]
\* A slot of an earlier decode is reset when this one first reaches it.
Reused(list, live, n, elem) ==
    [i \in DOMAIN Enlarged(list, n, elem) |->
        IF live < i /\ i <= n /\ i <= Len(list)
        THEN IF elem.kind = "ref" THEN Reset(elem, list[i]) ELSE << >>
        ELSE Enlarged(list, n, elem)[i]]
\* Fault: the slots an earlier decode left are taken as they are.
RoomAsLeft(loc, id) == Enlarged(At(loc), id + 1, TypeAt(loc).elem)
Room(loc, id) ==
    IF FixedPath(loc) THEN Reused(At(loc), Live(loc), id + 1, TypeAt(loc).elem)
    ELSE Enlarged(At(loc), id + 1, TypeAt(loc).elem)
Counted(loc, id) == IF FixedPath(loc) THEN Lived(loc, Max({Live(loc), id + 1})) ELSE lv
Row(loc, id) == [Room(loc, id) EXCEPT ![id + 1] = << >>]

-----------------------------------------------------------------------------
(* The visitor                                                             *)

\* The field of an id here; none in a skipped sequence or an array.
Here == IF cur = Dead THEN Skipped ELSE TypeAt(cur)
Arm(id) == IF Here.kind = "ref" /\ id \in IdsOf(Here.to) THEN FieldAt(Here.to, id).type ELSE Skipped
ElemArm(kinds) == IF Here.kind = "list" /\ Here.elem.kind \in kinds THEN Here.elem ELSE Skipped

\* A store selects the option it is for.
Stored(id, v) == IF IsUnion(Here.to) THEN With(cur, <<id, v>>) ELSE With(Append(cur, id), v)

\* Whether the module has the callbacks of this kind: the integers' always.
RECURSIVE Speaks(_, _)
Speaks(type, k) ==
    CASE type.kind \in {"native", "list"} -> Speaks(type.elem, k)
      [] type.kind = "ref" -> \E id \in IdsOf(type.to) : Speaks(FieldAt(type.to, id).type, k)
      [] OTHER -> type.kind = k
Hears(k) == k \in {"u", "i"} \/ Speaks(RootType, k)

NativeArm(k, id) ==
    LET type == IF Here.kind = "list" THEN ElemArm({"native"}) ELSE Arm(id)
    IN  IF type.kind = "native" /\ type.elem.kind = k THEN type ELSE Skipped

\* unsigned, signed, fp32, fp64: a number, of its own or of an array.
Pushed(id, v) ==
    IF Here.kind = "list"
    THEN IF cur \in DOMAIN ix /\ ix[cur] < Len(At(cur)) THEN With(cur, [At(cur) EXCEPT ![ix[cur] + 1] = Append(@, v)]) ELSE obj
    ELSE With(Append(cur, id), Append(At(Append(cur, id)), v))

Scalar(k, id, v) ==
    LET native == NativeArm(k, id)
        single == Arm(id).kind = k
        type == IF single THEN Arm(id) ELSE native.elem
    IN  CASE ~ Hears(k) \/ askip > 0 \/ (~ single /\ native = Skipped) \/ (~ single /\ native # Skipped /\ afill = 0) ->
                /\ askip' = IF Hears(k) /\ askip > 0 THEN askip - 1 ELSE askip
                /\ UNCHANGED <<obj, afill, flags, verdict>>
          [] OTHER ->
                LET wide == Wide(type, v)
                IN  /\ Raise(IF wide THEN "invalid" ELSE "fine")
                    /\ afill' = IF single THEN afill ELSE IF wide THEN 0 ELSE afill - 1
                    /\ obj' = CASE wide \/ (~ single /\ native.count = None /\ flags.lim) -> obj
                                [] single /\ ~ wide -> Stored(id, v)
                                [] OTHER -> Pushed(id, v)
                    /\ UNCHANGED askip

Number(tok) ==
    /\ tok.t = "val"
    /\ Arrives(tok)
    /\ Scalar(tok.k, tok.id, tok.got[1])
    /\ UNCHANGED <<schema, cur, stack, dead, ix, lv>>

ArrayElement(v) ==
    /\ ElementArrives(v)
    /\ Scalar(Tip.k, Tip.id, v)
    /\ UNCHANGED <<schema, cur, stack, dead, ix, lv>>

Askip(k, id, n) == IF NativeArm(k, id) # Skipped \/ ~ Hears(k) THEN 0 ELSE n

\* array_begin: a field's array is emptied, a row opened, or neither.
ArrayRefusal(type, tok) ==
    CASE type = Skipped -> "fine"
      [] type # Skipped /\ Here.kind = "list" ->
            FirstBad(<<CheckIndex(Here, tok.id), Exceeds(tok.n, type.count, Caps.array)>>)
      [] type # Skipped /\ Here.kind # "list" -> Exceeds(tok.n, type.count, Caps.array)
RowBegin(id) == obj' = With(cur, Row(cur, id)) /\ ix' = (cur :> id) @@ ix /\ lv' = Counted(cur, id)
ArrayOpened(type, row, bad, tok) ==
    /\ Raise(bad)
    /\ afill' = IF type = Skipped \/ bad # "fine" THEN 0 ELSE tok.n
    /\ IF type = Skipped \/ bad # "fine" \/ (row /\ flags.lim) THEN UNCHANGED <<obj, ix, lv>>
       ELSE IF row THEN RowBegin(tok.id)
       ELSE obj' = With(Append(cur, tok.id), << >>) /\ UNCHANGED <<ix, lv>>

ArrayTyped(type, tok) == ArrayOpened(type, Here.kind = "list", ArrayRefusal(type, tok), tok)

ArrayBegin(tok) ==
    /\ tok.t = "arr"
    /\ Arrives(tok)
    /\ askip' = Askip(tok.k, tok.id, tok.n)
    /\ ArrayTyped(NativeArm(tok.k, tok.id), tok)
    /\ UNCHANGED <<schema, cur, stack, dead>>

\* fixlen_begin, and the string or blob callbacks with the pieces: nothing is
\* stored before the last; a payload of no declared field is not looked at.
PayloadArm(tok) ==
    LET type == IF Here.kind = "list" THEN ElemArm({tok.k}) ELSE Arm(tok.id)
    IN  IF type.kind = tok.k THEN type ELSE Skipped
PayloadBound(type, tok) ==
    IF type = Skipped THEN "fine"
    ELSE FirstBad(<<IF Here.kind = "list" /\ Here.count # None THEN CheckIndex(Here, tok.id) ELSE "fine",
                    Exceeds(tok.n, type.max, Caps[tok.k])>>)

\* Text that is no text is refused, and the empty text takes its place.
Broken(tok) == tok.k = "str" /\ ~ Text(tok.got)
Value(tok) == IF Broken(tok) THEN << >> ELSE tok.got
Placing(tok, bad) ==
    /\ Raise(IF Broken(tok) THEN "invalid" ELSE bad)
    /\ IF bad # "fine" \/ flags.lim THEN UNCHANGED <<obj, lv>>
       ELSE /\ obj' = With(cur, [Room(cur, tok.id) EXCEPT ![tok.id + 1] = Value(tok)])
            /\ lv' = Counted(cur, tok.id)
Assembled(type, tok) ==
    IF type = Skipped \/ (type.max = None /\ Exceeds(tok.n, None, Caps[tok.k]) # "fine")
    THEN UNCHANGED <<obj, lv, flags, verdict>>
    ELSE IF Here.kind = "list" THEN Placing(tok, Gated(Here, tok.id))
    ELSE Raise(IF Broken(tok) THEN "invalid" ELSE "fine") /\ obj' = Stored(tok.id, Value(tok)) /\ UNCHANGED lv

\* The callback of an empty payload whose header was refused refuses it again.
FixlenBounded(type, bad, tok) ==
    IF Whole(tok) /\ bad = "fine" THEN Assembled(type, tok) ELSE Raise(bad) /\ UNCHANGED <<obj, lv>>
FixlenTyped(type, tok) == FixlenBounded(type, PayloadBound(type, tok), tok)
FixlenBegin(tok) ==
    /\ tok.t = "pay"
    /\ Arrives(tok)
    /\ FixlenTyped(PayloadArm(tok), tok)
    /\ UNCHANGED <<schema, cur, stack, dead, ix, askip, afill>>

PieceDone(tok) == IF Whole(tok) THEN Assembled(PayloadArm(tok), tok) ELSE UNCHANGED <<obj, lv, flags, verdict>>
Piece(bytes) ==
    /\ PieceArrives(bytes)
    /\ PieceDone([Tip EXCEPT !.got = @ \o bytes])
    /\ UNCHANGED <<schema, cur, stack, dead, ix, askip, afill>>

\* The stack is as long as the deepest place is nested, and one for a skipped
\* sequence there.
RECURSIVE DeepestFrame(_)
DeepestFrame(type) ==
    LET inner == IF type.kind = "list" THEN {type.elem} ELSE {FieldAt(type.to, id).type : id \in IdsOf(type.to)}
    IN  Max({0} \cup {1 + DeepestFrame(t) : t \in {u \in inner : u.kind \in {"ref", "list"}}})
StackCap == DeepestFrame(RootType) + 1

\* sequence_begin: a sequence in a skipped one is only counted, as is one past
\* the stack; the others are pushed, refused elements too, which leave the
\* location as it is.
Skip ==
    /\ cur = Dead \/ Len(stack) = StackCap
    /\ dead' = dead + 1
    /\ cur' = Dead
    /\ flags' = [flags EXCEPT !.err = @ \/ cur # Dead]
    /\ verdict' = IF verdict # "fine" THEN verdict ELSE Answer(flags')
    /\ UNCHANGED <<obj, stack, ix, lv>>

Into(loc) ==
    /\ cur # Dead /\ Len(stack) < StackCap
    /\ stack' = Append(stack, cur)
    /\ cur' = loc
    /\ UNCHANGED dead

EnterField(id) ==
    LET type == Arm(id)
        loc == Append(cur, id)
    IN  /\ Here.kind = "ref"
        /\ Into(IF type.kind \in {"ref", "list"} THEN loc ELSE Dead)
        /\ obj' = CASE type.kind = "list" /\ ~ FixedPath(loc) -> With(loc, << >>)
                    [] type.kind = "ref" /\ IsUnion(Here.to) -> With(loc, At(loc))
                    [] OTHER -> obj
        /\ lv' = IF type.kind = "list" /\ FixedPath(loc) THEN Lived(loc, 0) ELSE lv
        /\ UNCHANGED <<ix, flags, verdict>>

EnterElement(id) ==
    LET type == ElemArm({"ref", "list"})
        bad == IF type = Skipped THEN "fine" ELSE Gated(Here, id)
        refused == type # Skipped /\ (flags.lim \/ bad # "fine")
        taken == type # Skipped /\ ~ refused
    IN  /\ Here.kind = "list"
        /\ Into(IF type = Skipped THEN Dead ELSE IF refused THEN cur ELSE Append(cur, Elem))
        /\ Raise(bad)
        /\ obj' = IF taken THEN With(cur, IF type.kind = "ref" THEN Room(cur, id) ELSE Row(cur, id)) ELSE obj
        /\ lv' = IF taken THEN Counted(cur, id) ELSE lv
        /\ ix' = IF taken THEN (cur :> id) @@ ix ELSE ix

SequenceBegin(tok) ==
    /\ tok.t = "open"
    /\ Arrives(tok)
    /\ Skip \/ EnterField(tok.id) \/ EnterElement(tok.id)
    /\ UNCHANGED <<schema, askip, afill>>

Unwound ==
    IF dead > 0 THEN dead' = dead - 1 /\ UNCHANGED <<cur, stack>>
    ELSE cur' = Last(stack) /\ stack' = Front(stack) /\ UNCHANGED dead

SequenceEnd ==
    /\ Ends
    /\ Unwound
    /\ UNCHANGED <<schema, obj, ix, lv, askip, afill, flags, verdict>>

-----------------------------------------------------------------------------
NoFlags == [inv |-> FALSE, lim |-> FALSE, err |-> FALSE]
Fresh0 ==
    /\ wire' = << >> /\ cur' = << >> /\ stack' = << >> /\ dead' = 0
    /\ ix' = << >> /\ lv' = << >> /\ askip' = 0 /\ afill' = 0 /\ flags' = NoFlags

Init ==
    /\ schema \in Schemas
    /\ wire = << >>
    /\ obj = Default(RootType)
    /\ cur = << >> /\ stack = << >> /\ dead = 0
    /\ ix = << >> /\ lv = << >> /\ askip = 0 /\ afill = 0 /\ flags = NoFlags
    /\ verdict = "fine"

Decoding ==
    /\ verdict # "edited"
    /\ \/ \E tok \in schema.heads : Number(tok) \/ FixlenBegin(tok) \/ ArrayBegin(tok) \/ SequenceBegin(tok)
       \/ \E v \in schema.numbers : ArrayElement(v)
       \/ \E bytes \in schema.pieces : Piece(bytes)
       \/ SequenceEnd

Edit(new) ==
    /\ ~ Pending
    /\ obj' = new
    /\ verdict' = "edited"
    /\ Fresh0
    /\ UNCHANGED schema

\* try_decode into a message that has been used.  What an earlier one left in
\* it is a value too, so the values stand for that (and bound the run).
TryDecode ==
    /\ verdict = "edited" /\ obj \in schema.used
    /\ obj' = Rearmed(Root, Message)
    /\ verdict' = "fine"
    /\ Fresh0
    /\ UNCHANGED schema

Next == Decoding \/ TryDecode \/ (\E new \in schema.values : Edit(new))

Spec == Init /\ [][Next]_vars

-----------------------------------------------------------------------------
(* At every field boundary the message holds what the fields so far mean,  *)
(* whatever its storage was used for before.  What a Decoder answers is    *)
(* what MESSAGE_SPEC says, where only the cap on the index of a string or  *)
(* blob element waits for the payload; invalid is said of no message that  *)
(* is valid but for the receiver's caps.  try_decode, which looks when all *)
(* has arrived, accepts the same messages.                                 *)
Unlimited(w) == Read(NoCaps, RootType, Fresh(RootType), w)
AwaitsPayload == Pending /\ Tip.t = "pay" /\ Here.kind = "list" /\ verdict = "fine"
DecodesAsMeant ==
    verdict # "edited" =>
        LET m == Meaning(wire)
        IN  /\ CASE m.bad = "limit" -> verdict \in {"limit", "invalid"} \/ AwaitsPayload
                  [] m.bad # "limit" -> verdict = m.bad
            /\ verdict = "invalid" => Unlimited(wire).bad = "invalid"
            /\ Answer(flags) = "fine" <=> verdict = "fine"
            /\ m.bad = "fine" /\ ~ Pending => Message = m.val

(* try_decode reports a message that is valid but for the receiver's caps  *)
(* as one (visitor.go 290-297: a refused element is not descended into).   *)
InvalidOnlyOfTheInvalid ==
    verdict # "edited" /\ Answer(flags) = "invalid" => Unlimited(wire).bad = "invalid"

(* What serialize writes reads back as the value, with every frame closed  *)
(* and nothing in it that could be left out; only a value beyond its       *)
(* schema's bounds is refused.                                             *)
SerializesWhatItHolds ==
    verdict = "edited" \/ (verdict = "fine" /\ ~ Pending) => Encodes(Message, Encode(Message))

SpeaksTheFormat == DecodesAsMeant /\ SerializesWhatItHolds

=============================================================================
