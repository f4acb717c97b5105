------------------------------ MODULE ZigCodec ------------------------------
(***************************************************************************)
(* The code the Zig backend emits for a message (generators/zig/           *)
(* visitor.go, backend.go, union.go): a struct per type with serialize and *)
(* isDefault, and a flat visitor that knows where it is by a location and  *)
(* a stack of them.  Its callbacks cannot fail but fixlenBegin: the others *)
(* raise inv or lim, which feed looks at when the corelib has returned.    *)
(*                                                                         *)
(* A location is the path of ids from the root, Elem for the element of a  *)
(* wrapper array.  An array of numbers with a count is a FixedArray, which *)
(* grows as its elements arrive; the others are slices of their announced  *)
(* length, filled from fill.ai on.                                         *)
(***************************************************************************)
EXTENDS Wire

VARIABLES
    obj,     \* the message
    cur,     \* the location the fields belong to, Dead in a skipped sequence
    stack,   \* the locations to return to
    ix,      \* per array location, the element being decoded
    fill,    \* ai, the next element of a slice; an, how many were announced
    askip,   \* elements still to come of an array that is not the declared one
    afill,   \* elements still expected by the declared one
    flags,   \* inv, lim and the error fixlenBegin has returned
    verdict  \* what a Decoder fed callback by callback has answered; "edited" when user code wrote obj

vars == <<schema, wire, obj, cur, stack, ix, fill, askip, afill, flags, verdict>>

Elem == -1
Dead == <<-2>>
StackLen == 256

-----------------------------------------------------------------------------
(* Messages: a union is a tagged union.                                    *)

RECURSIVE Default(_)
FieldDefault(f) == IF f.type.kind = "ref" THEN Default(f.type) ELSE f.dflt
Default(type) ==
    CASE type.kind \in Numbers -> 0
      [] type.kind = "ref" /\ IsUnion(type.to) ->
            <<HeldFirst(type.to), FieldDefault(FieldAt(type.to, HeldFirst(type.to)))>>
      [] type.kind = "ref" /\ ~ IsUnion(type.to) -> [id \in IdsOf(type.to) |-> FieldDefault(FieldAt(type.to, id))]
      [] OTHER -> << >>

\* <option>Mut
Mut(name, u, id) == IF u[1] = id THEN u ELSE <<id, FieldDefault(FieldAt(name, id))>>

\* The types hold no number past its width, no FixedArray past its length.
RECURSIVE Settable(_, _)
Settable(type, v) ==
    CASE type.kind \in Numbers -> ~ Wide(type, v)
      [] type.kind \in Payloads \cup {"list"} -> TRUE
      [] type.kind = "native" -> type.count # None => Len(v) <= type.count
      [] type.kind = "ref" /\ IsUnion(type.to) -> Settable(FieldAt(type.to, v[1]).type, v[2])
      [] type.kind = "ref" /\ ~ IsUnion(type.to) -> \A id \in DOMAIN v : Settable(FieldAt(type.to, id).type, v[id])

-----------------------------------------------------------------------------
(* serialize                                                               *)

RECURSIVE IsDefault(_, _), Serialize(_, _, _), MarshalArray(_, _, _, _, _)

FieldDiffers(f, v) ==
    CASE f.type.kind = "ref" -> ~ IsDefault(f.type.to, v)
      [] f.type.kind = "list" -> v # << >>
      [] OTHER -> v # f.dflt
IsDefault(name, o) ==
    IF IsUnion(name) THEN o[1] = HeldFirst(name) /\ ~ FieldDiffers(FieldAt(name, o[1]), o[2])
    ELSE \A id \in DOMAIN o : ~ FieldDiffers(FieldAt(name, id), o[id])

Past(bound, v) == bound # None /\ Len(v) > bound
LenGuard(w, bound, v) == IF Past(bound, v) THEN Reject(w) ELSE w
SeqEnd(w, keep) == IF keep THEN EndKeep(w) ELSE End(w)

\* Forced: the option a union holds in place of its default one.
Marshal(w, f, v, forced) ==
    CASE f.type.kind = "ref" -> SeqEnd(Serialize(BeginLazy(w, f.id), f.type.to, v), forced)
      [] f.type.kind = "list" -> MarshalArray(w, f.type, f.id, v, forced)
      [] f.type.kind \in Payloads ->
            LET guarded == LenGuard(w, f.type.max, v)
            IN  IF forced \/ v # f.dflt THEN Write(guarded, Pay(f.id, f.type.kind, v)) ELSE guarded
      [] f.type.kind \in Numbers -> IF forced \/ v # f.dflt THEN Write(w, Val(f.id, f.type.kind, v)) ELSE w
      [] f.type.kind = "native" ->
            IF forced \/ FieldDiffers(f, v) THEN Write(w, Arr(f.id, f.type.elem.kind, v)) ELSE w

Serialize(w, name, o) ==
    IF IsUnion(name) THEN Marshal(w, FieldAt(name, o[1]), o[2], o[1] # HeldFirst(name))
    ELSE FoldLeft(LAMBDA acc, f : Marshal(acc, f, o[f.id], FALSE), w, Fields(name))

LastElem(i, n) == i = n
MarshalElement(w, type, i, v, last) ==
    CASE type.kind = "ref" -> SeqEnd(Serialize(BeginLazy(w, i), type.to, v), last)
      [] type.kind = "list" -> MarshalArray(w, type, i, v, last)
      [] type.kind = "native" ->
            IF v # << >> \/ last THEN Write(LenGuard(w, type.count, v), Arr(i, type.elem.kind, v)) ELSE w
      [] type.kind \in Payloads ->
            LET guarded == LenGuard(w, type.max, v)
            IN  IF v # << >> \/ last THEN Write(guarded, Pay(i, type.kind, v)) ELSE guarded

MarshalArray(w, type, id, v, keep) ==
    LET element(acc, i) == MarshalElement(acc, type.elem, i - 1, v[i], LastElem(i, Len(v)))
    IN  SeqEnd(FoldLeftDomain(element, BeginLazy(LenGuard(w, type.count, v), id), v), keep)

Encode(o) == Sent(Serialize(NewWriter, Root, o))

-----------------------------------------------------------------------------
(* The frames of the visitor                                               *)

Inner(type, step) == IF type.kind = "list" THEN type.elem ELSE FieldAt(type.to, step).type
TypeAt(loc) == FoldLeft(Inner, RootType, loc)
Here == IF cur = Dead THEN Skipped ELSE TypeAt(cur)
InUnion == Here.kind = "ref" /\ IsUnion(Here.to)
InList == Here.kind = "list"

\* What lies at a location, and a message with another value there; a union on
\* the way is passed through its Mut.
Path(loc) == [i \in DOMAIN loc |-> IF loc[i] = Elem THEN ix[SubSeq(loc, 1, i - 1)] + 1 ELSE loc[i]]
RECURSIVE Get(_, _, _), Put(_, _, _, _)
Get(type, v, path) ==
    CASE path = << >> -> v
      [] path # << >> /\ type.kind = "ref" /\ IsUnion(type.to) ->
            Get(Inner(type, Head(path)), Mut(type.to, v, Head(path))[2], Tail(path))
      [] OTHER -> Get(Inner(type, Head(path)), v[Head(path)], Tail(path))
Put(type, v, path, new) ==
    CASE path = << >> -> new
      [] path # << >> /\ type.kind = "ref" /\ IsUnion(type.to) ->
            <<Head(path), Put(Inner(type, Head(path)), Mut(type.to, v, Head(path))[2], Tail(path), new)>>
      [] OTHER -> [v EXCEPT ![Head(path)] = Put(Inner(type, Head(path)), @, Tail(path), new)]
At(loc) == Get(RootType, obj, Path(loc))
With(loc, v) == Put(RootType, obj, Path(loc), v)
Stored(id, v) == With(Append(cur, id), v)

Arm(id) == IF Here.kind = "ref" /\ id \in IdsOf(Here.to) THEN FieldAt(Here.to, id).type ELSE Skipped
NativeArm(k, id) ==
    LET type == IF InList THEN Here.elem ELSE Arm(id)
    IN  IF type.kind = "native" /\ type.elem.kind = k THEN type ELSE Skipped

\* A visitor has the callbacks of the kinds its message uses.
RECURSIVE Uses(_, _)
Uses(type, k) ==
    CASE type.kind \in {"native", "list"} -> Uses(type.elem, k)
      [] type.kind = "ref" -> \E id \in IdsOf(type.to) : Uses(FieldAt(type.to, id).type, k)
      [] OTHER -> type.kind = k

-----------------------------------------------------------------------------
(* Refusals                                                                *)

Raised(bad) == [flags EXCEPT !.inv = @ \/ bad = "invalid", !.lim = @ \/ bad = "limit"]
Answer(f) ==
    CASE f.err # "fine" -> f.err
      [] f.err = "fine" /\ f.inv -> "invalid"
      [] f.err = "fine" /\ ~ f.inv /\ f.lim -> "limit"
      [] OTHER -> "fine"
Latched(f) == flags' = f /\ verdict' = IF verdict # "fine" THEN verdict ELSE Answer(f)
Raise(bad) == Latched(Raised(bad))

\* sofab.arrays: the bound of an index, and an array that has it.
CheckIndex(id) == Exceeds(id + 1, Here.count, Caps.array)
Placing(id, v) == With(cur, [Padded(At(cur), id + 1, Here.elem) EXCEPT ![id + 1] = v])
Room(id) == With(cur, Padded(At(cur), id + 1, Here.elem))
\* putGrowing
Putting(v, n) == IF fill.ai < Min({fill.an, Len(v)}) THEN [v EXCEPT ![fill.ai + 1] = n] ELSE v
\* A push beyond the length of a FixedArray raises inv.
Full(type, v) == type.count # None /\ Len(v) = type.count

-----------------------------------------------------------------------------
(* Its callbacks                                                           *)

\* Fault: a bare number at the id of an array is taken for an element of it.
ArmedAlways(type) == TRUE

\* Rows of floats have no fill guard.
Armed(type) == afill > 0 \/ (InList /\ type.elem.kind \in {"f4", "f8"})

PushRow(v) ==
    LET row == Append(cur, Elem)
        placed == cur \in DOMAIN ix /\ ix[cur] < Len(At(cur))
    IN  IF placed THEN With(row, Putting(At(row), v)) ELSE obj
PushField(type, id, v) ==
    LET array == At(Append(cur, id))
    IN  CASE type.count # None -> IF Full(type, array) THEN obj ELSE Stored(id, Append(array, v))
          [] type.count = None -> Stored(id, Putting(array, v))

Single(type, id, v) ==
    /\ Raise(IF Wide(type, v) THEN "invalid" ELSE "fine")
    /\ obj' = IF Wide(type, v) THEN obj ELSE Stored(id, v)
    /\ UNCHANGED <<fill, askip, afill>>

ElementOf(type, id, v) ==
    LET wide == Wide(type.elem, v)
        full == ~ InList /\ Full(type, At(Append(cur, id)))
        slice == InList \/ type.count = None
    IN  /\ afill' = IF afill > 0 THEN afill - 1 ELSE afill
        /\ Raise(IF wide \/ full THEN "invalid" ELSE "fine")
        /\ obj' = CASE wide -> obj
                    [] ~ wide /\ InList -> PushRow(v)
                    [] ~ wide /\ ~ InList -> PushField(type, id, v)
        /\ fill' = IF ~ wide /\ slice /\ fill.ai < fill.an THEN [fill EXCEPT !.ai = @ + 1] ELSE fill
        /\ UNCHANGED askip

\* unsigned, signed, fp32, fp64
Numeric(k, id, v) ==
    LET native == NativeArm(k, id)
        single == Arm(id).kind = k
        discards == Uses(RootType, k) /\ askip > 0
    IN  CASE discards -> askip' = askip - 1 /\ UNCHANGED <<obj, fill, afill, flags, verdict>>
          [] ~ discards /\ single -> Single(Arm(id), id, v)
          [] ~ discards /\ native # Skipped /\ Armed(native) -> ElementOf(native, id, v)
          [] OTHER -> UNCHANGED <<obj, fill, askip, afill, flags, verdict>>

Number(tok) ==
    /\ tok.t = "val"
    /\ Arrives(tok)
    /\ Numeric(tok.k, tok.id, tok.got[1])
    /\ UNCHANGED <<schema, cur, stack, ix>>

ArrayElement(v) ==
    /\ ElementArrives(v)
    /\ Numeric(Tip.k, Tip.id, v)
    /\ UNCHANGED <<schema, cur, stack, ix>>

\* arrayBegin: a FixedArray is cleared, a slice allocated, a row placed.
ArrayRefusal(type, tok) ==
    IF type = Skipped THEN "fine"
    ELSE FirstBad(<<IF InList THEN CheckIndex(tok.id) ELSE "fine", Exceeds(tok.n, type.count, Caps.array)>>)
Zeroed(n) == [i \in 1 .. n |-> 0]
ArrayBegin(tok) ==
    /\ tok.t = "arr"
    /\ Arrives(tok)
    /\ LET type == NativeArm(tok.k, tok.id)
           bad == ArrayRefusal(type, tok)
           begun == type # Skipped /\ bad = "fine"
       IN  /\ askip' = IF type = Skipped /\ Uses(RootType, tok.k) THEN tok.n ELSE 0
           /\ afill' = IF type = Skipped THEN 0 ELSE tok.n
           /\ fill' = [ai |-> 0, an |-> IF bad = "fine" THEN tok.n ELSE 0]
           /\ Raise(bad)
           /\ obj' = CASE ~ begun -> obj
                       [] begun /\ InList -> Placing(tok.id, Zeroed(tok.n))
                       [] begun /\ ~ InList -> Stored(tok.id, IF type.count # None THEN << >> ELSE Zeroed(tok.n))
           /\ ix' = IF begun /\ InList THEN (cur :> tok.id) @@ ix ELSE ix
    /\ UNCHANGED <<schema, cur, stack>>

\* string, blob: a payload is taken when it is whole, and placed in an array,
\* where only now the receiver's cap on the index counts.
PayloadArm(tok) ==
    LET type == IF InList THEN Here.elem ELSE Arm(tok.id)
    IN  IF type.kind = tok.k THEN type ELSE Skipped
Taken(type, tok) ==
    LET broken == tok.k = "str" /\ ~ Text(tok.got)
        bad == FirstBad(<<IF broken THEN "invalid" ELSE "fine", IF InList THEN CheckIndex(tok.id) ELSE "fine">>)
    IN  IF type = Skipped \/ ~ Whole(tok) THEN UNCHANGED <<obj, flags, verdict>>
        ELSE /\ Raise(bad)
             /\ obj' = CASE bad # "fine" -> obj
                         [] bad = "fine" /\ InList -> Placing(tok.id, tok.got)
                         [] bad = "fine" /\ ~ InList -> Stored(tok.id, tok.got)

\* fixlenBegin
LengthError(type, tok) ==
    IF type = Skipped THEN "fine"
    ELSE FirstBad(<<IF InList /\ Here.count # None THEN CheckIndex(tok.id) ELSE "fine",
                    Exceeds(tok.n, type.max, Caps[tok.k])>>)
FixlenBegin(tok) ==
    /\ tok.t = "pay"
    /\ Arrives(tok)
    /\ LET type == PayloadArm(tok)
       IN  IF LengthError(type, tok) = "fine" THEN Taken(type, tok)
           ELSE Latched([flags EXCEPT !.err = LengthError(type, tok)]) /\ UNCHANGED obj
    /\ UNCHANGED <<schema, cur, stack, ix, fill, askip, afill>>

Piece(bytes) ==
    /\ PieceArrives(bytes)
    /\ LET tok == [Tip EXCEPT !.got = @ \o bytes] IN Taken(PayloadArm(tok), tok)
    /\ UNCHANGED <<schema, cur, stack, ix, fill, askip, afill>>

\* sequenceBegin: a list starts anew, an option is selected, an element gets its
\* place, an inner array emptied; what is not declared or is refused is dead.
EnterField(type, id) ==
    /\ Here.kind = "ref" /\ type.kind \in {"ref", "list"}
    /\ cur' = Append(cur, id)
    /\ obj' = CASE type.kind = "list" -> Stored(id, << >>)
                [] type.kind = "ref" /\ InUnion -> With(cur, Mut(Here.to, At(cur), id))
                [] OTHER -> obj
    /\ UNCHANGED <<ix, flags, verdict>>

EnterElement(id) ==
    /\ InList /\ Here.elem.kind \in {"ref", "list"}
    /\ Raise(CheckIndex(id))
    /\ IF CheckIndex(id) # "fine" THEN cur' = Dead /\ UNCHANGED <<obj, ix>>
       ELSE /\ cur' = Append(cur, Elem)
            /\ ix' = (cur :> id) @@ ix
            /\ obj' = IF Here.elem.kind = "list" THEN Placing(id, << >>) ELSE Room(id)

EnterDead(type) ==
    /\ IF InList THEN Here.elem.kind \notin {"ref", "list"} ELSE type.kind \notin {"ref", "list"}
    /\ cur' = Dead
    /\ UNCHANGED <<obj, ix, flags, verdict>>

SequenceBegin(tok) ==
    /\ tok.t = "open"
    /\ Arrives(tok)
    /\ stack' = IF Len(stack) < StackLen THEN Append(stack, cur) ELSE stack
    /\ EnterField(Arm(tok.id), tok.id) \/ EnterElement(tok.id) \/ EnterDead(Arm(tok.id))
    /\ UNCHANGED <<schema, fill, askip, afill>>

SequenceEnd ==
    /\ Ends
    /\ cur' = Last(stack)
    /\ stack' = Front(stack)
    /\ UNCHANGED <<schema, obj, ix, fill, askip, afill, flags, verdict>>

-----------------------------------------------------------------------------
NoFlags == [inv |-> FALSE, lim |-> FALSE, err |-> "fine"]
NewFill == [ai |-> 0, an |-> 0]
NewVisitor ==
    /\ wire' = << >> /\ cur' = << >> /\ stack' = << >> /\ ix' = << >>
    /\ fill' = NewFill /\ askip' = 0 /\ afill' = 0 /\ flags' = NoFlags

Init ==
    /\ schema \in Schemas
    /\ wire = << >>
    /\ obj = Default(RootType)
    /\ cur = << >> /\ stack = << >> /\ ix = << >>
    /\ fill = NewFill /\ askip = 0 /\ afill = 0 /\ flags = NoFlags
    /\ verdict = "fine"

\* Raised flags are looked at between chunks only.
Decoding ==
    /\ verdict # "edited" /\ flags.err = "fine"
    /\ \/ \E tok \in schema.heads : Number(tok) \/ FixlenBegin(tok) \/ ArrayBegin(tok) \/ SequenceBegin(tok)
       \/ \E v \in schema.numbers : ArrayElement(v)
       \/ \E bytes \in schema.pieces : Piece(bytes)
       \/ SequenceEnd

\* User code gives a message a value its types hold.
Edit(new) ==
    /\ Settable(RootType, new)
    /\ verdict = "fine" => ~ Pending
    /\ obj' = new
    /\ verdict' = "edited"
    /\ NewVisitor
    /\ UNCHANGED schema

\* decoder(out): a message that has been used.  What an earlier decode left in it
\* is a value too (a bound of the run).
Decoder ==
    /\ verdict = "edited" /\ obj \in schema.used
    /\ obj' = Default(RootType)
    /\ verdict' = "fine"
    /\ NewVisitor
    /\ UNCHANGED schema

Next == Decoding \/ Decoder \/ (\E new \in schema.values : Edit(new))

Spec == Init /\ [][Next]_vars

-----------------------------------------------------------------------------
(* At every field boundary the message holds what the fields so far mean,  *)
(* whatever it was used for before.  A Decoder fed callback by callback    *)
(* answers what MESSAGE_SPEC says, where only the cap on the index of a    *)
(* string or blob element waits for the payload (visitor.go 1108-1125);    *)
(* and decode, which looks at the flags when all has arrived, says invalid *)
(* of no message that is valid but for the receiver's caps.                *)
AwaitsPayload == Pending /\ Tip.t = "pay" /\ InList /\ verdict = "fine"
DecodesAsMeant ==
    verdict # "edited" =>
        LET m == Meaning(wire)
        IN  /\ verdict = m.bad \/ (m.bad = "limit" /\ AwaitsPayload)
            /\ m.bad = "fine" /\ ~ Pending => obj = m.val
            /\ Answer(flags) = "fine" <=> verdict = "fine"
            /\ Answer(flags) = "invalid" => Read(NoCaps, RootType, Fresh(RootType), wire).bad = "invalid"

(* What serialize writes of any message reads back as it, with every frame *)
(* closed and nothing in it that could be left out; it refuses a value     *)
(* past its bounds only, and isDefault is true iff it would write nothing. *)
SerializesWhatItHolds ==
    verdict = "edited" \/ (verdict = "fine" /\ ~ Pending) =>
        /\ Encodes(obj, Encode(obj))
        /\ IsDefault(Root, obj) <=> Encode(obj) = << >>

SpeaksTheFormat == DecodesAsMeant /\ SerializesWhatItHolds

=============================================================================
