---------------------------- MODULE KotlinCodec -----------------------------
(***************************************************************************)
(* The code the Kotlin backend emits for a message (generators/kotlin/     *)
(* visitor.go, backend.go, union.go, encodebounds.go): a class per type    *)
(* with serialize, isDefault and reset, and one flat visitor whose scope   *)
(* is a number, here the path of ids it stands for, Elem for the element   *)
(* of a wrapper array, with the index of that element in ix.  An array of  *)
(* numbers resolves its destination once, when it begins: its elements go  *)
(* there whatever scope and id they come with.                             *)
(***************************************************************************)
EXTENDS Wire

VARIABLES
    obj,     \* the message
    cur,     \* the scope the fields belong to, Dead in a skipped sequence
    stack,   \* the scopes to return to
    ix,      \* per wrapper array, the element being decoded
    tgt,     \* the destination of the armed fill, a path in the message, and the type of its elements
    askip,   \* elements left to discard of an array declared nowhere
    afill,   \* elements still expected by the armed fill
    verdict  \* the exception of feed; "edited" when user code wrote obj

vars == <<schema, wire, obj, cur, stack, ix, tgt, askip, afill, verdict>>

Elem == -1
Dead == <<-2>>
Which == -3
Null == None

-----------------------------------------------------------------------------
(* Objects.  A union is which and a slot per option; a slot of an object   *)
(* or a list is null until it is first needed, unless it is the default's. *)

RECURSIVE New(_)
Initial(f) == IF f.type.kind = "ref" THEN New(f.type) ELSE f.dflt
Nullable(f) == f.type.kind \in {"ref", "list"}
SlotInit(name, f) == IF Nullable(f) /\ f.id # HeldFirst(name) THEN Null ELSE Initial(f)
New(type) ==
    CASE type.kind \in Numbers -> 0
      [] type.kind = "ref" /\ IsUnion(type.to) ->
            (Which :> HeldFirst(type.to)) @@ [id \in IdsOf(type.to) |-> SlotInit(type.to, FieldAt(type.to, id))]
      [] type.kind = "ref" /\ ~ IsUnion(type.to) -> [id \in IdsOf(type.to) |-> Initial(FieldAt(type.to, id))]
      [] OTHER -> << >>

\* reset(), in place; of a union the default option's slot alone.
RECURSIVE Reset(_, _)
SlotReset(f, v) == IF f.type.kind = "ref" /\ v # Null THEN Reset(f.type.to, v) ELSE Initial(f)
Reset(name, o) ==
    IF IsUnion(name)
    THEN [o EXCEPT ![Which] = HeldFirst(name), ![HeldFirst(name)] = SlotReset(FieldAt(name, HeldFirst(name)), @)]
    ELSE [id \in DOMAIN o |-> SlotReset(FieldAt(name, id), o[id])]

\* An option's setter, its getter, and mutable<Option>, which empties the slot
\* of an option that is not held.
SetTo(u, id, v) == [u EXCEPT ![Which] = id, ![id] = v]
Held(name, u, id) == IF u[Which] = id THEN u[id] ELSE Initial(FieldAt(name, id))
Mutable(name, u, id) ==
    IF Nullable(FieldAt(name, id)) /\ u[Which] = id /\ u[id] # Null THEN u
    ELSE SetTo(u, id, SlotReset(FieldAt(name, id), u[id]))

\* What an object says through its accessors, and user code that sets it.
RECURSIVE View(_, _), Assigned(_, _, _)
View(type, v) ==
    CASE type.kind = "list" -> [i \in DOMAIN v |-> View(type.elem, v[i])]
      [] type.kind = "ref" /\ IsUnion(type.to) ->
            <<v[Which], View(FieldAt(type.to, v[Which]).type, Held(type.to, v, v[Which]))>>
      [] type.kind = "ref" /\ ~ IsUnion(type.to) -> [id \in DOMAIN v |-> View(FieldAt(type.to, id).type, v[id])]
      [] OTHER -> v
Assigned(type, v, new) ==
    CASE type.kind = "list" -> [i \in DOMAIN new |-> Assigned(type.elem, New(type.elem), new[i])]
      [] type.kind = "ref" /\ IsUnion(type.to) ->
            LET option == FieldAt(type.to, new[1]) IN SetTo(v, new[1], Assigned(option.type, Initial(option), new[2]))
      [] type.kind = "ref" /\ ~ IsUnion(type.to) ->
            [id \in DOMAIN v |-> Assigned(FieldAt(type.to, id).type, v[id], new[id])]
      [] OTHER -> new

-----------------------------------------------------------------------------
(* serialize                                                               *)

RECURSIVE IsDefault(_, _), Serialize(_, _, _), MarshalArray(_, _, _, _, _)

Writes(f, v) ==
    CASE f.type.kind = "ref" -> ~ IsDefault(f.type.to, v)
      [] f.type.kind = "list" -> v # << >>
      [] OTHER -> v # f.dflt
IsDefault(name, o) ==
    IF IsUnion(name)
    THEN o[Which] = HeldFirst(name) /\ ~ Writes(FieldAt(name, HeldFirst(name)), o[HeldFirst(name)])
    ELSE \A id \in DOMAIN o : ~ Writes(FieldAt(name, id), o[id])

\* encodeGuard, before the test for the default; the bound of a string rides its
\* write.  Of the numbers only enums and bitfields can be past their width.
Over(bound, n) == bound # None /\ n > bound
Guard(w, bad) == IF bad THEN Reject(w) ELSE w
WriteString(w, id, type, v) == Write(Guard(w, Over(type.max, Len(v))), Pay(id, "str", v))
SeqEnd(w, keep) == IF keep THEN EndKeep(w) ELSE End(w)

\* Forced: the option a union holds in place of its default one.
Marshal(w, f, v, forced) ==
    LET written == forced \/ Writes(f, v)
    IN  CASE f.type.kind = "ref" -> SeqEnd(Serialize(BeginLazy(w, f.id), f.type.to, v), forced)
          [] f.type.kind = "list" -> MarshalArray(w, f.type, f.id, v, forced)
          [] f.type.kind \in Numbers ->
                LET guarded == Guard(w, Wide(f.type, v))
                IN  IF written THEN Write(guarded, Val(f.id, f.type.kind, v)) ELSE guarded
          [] f.type.kind = "blob" ->
                LET guarded == Guard(w, Over(f.type.max, Len(v)))
                IN  IF written THEN Write(guarded, Pay(f.id, "blob", v)) ELSE guarded
          [] f.type.kind = "str" -> IF written THEN WriteString(w, f.id, f.type, v) ELSE w
          [] f.type.kind = "native" -> IF written THEN MarshalArray(w, f.type, f.id, v, FALSE) ELSE w

Serialize(w, name, o) ==
    IF IsUnion(name) THEN Marshal(w, FieldAt(name, o[Which]), o[o[Which]], o[Which] # HeldFirst(name))
    ELSE FoldLeft(LAMBDA acc, f : Marshal(acc, f, o[f.id], FALSE), w, Fields(name))

\* An empty element is left out, but for the last one.
LastElem(i, n) == i = n - 1
MarshalElement(w, type, i, v, last) ==
    LET written == v # << >> \/ last
    IN  CASE type.kind = "ref" -> SeqEnd(Serialize(BeginLazy(w, i), type.to, v), last)
          [] type.kind = "list" -> MarshalArray(w, type, i, v, last)
          [] type.kind = "str" -> IF written THEN WriteString(w, i, type, v) ELSE w
          [] type.kind = "blob" -> IF written THEN Write(Guard(w, Over(type.max, Len(v))), Pay(i, "blob", v)) ELSE w
          [] type.kind = "native" -> IF written THEN MarshalArray(w, type, i, v, FALSE) ELSE w

MarshalArray(w, type, id, v, keep) ==
    LET guarded == Guard(w, Over(type.count, Len(v)))
        element(acc, i) == MarshalElement(acc, type.elem, i - 1, v[i], LastElem(i - 1, Len(v)))
    IN  CASE type.kind = "native" -> Write(guarded, Arr(id, type.elem.kind, v))
          [] type.kind = "list" -> SeqEnd(FoldLeftDomain(element, BeginLazy(guarded, id), v), keep)

Encode(o) == Sent(Serialize(NewWriter, Root, o))

-----------------------------------------------------------------------------
(* The frames of the visitor                                               *)

Inner(type, step) == IF type.kind = "list" THEN type.elem ELSE FieldAt(type.to, step).type
Here == IF cur = Dead THEN Skipped ELSE FoldLeft(Inner, RootType, cur)
InUnion == Here.kind = "ref" /\ IsUnion(Here.to)
InList == Here.kind = "list"
Path(loc) == [i \in DOMAIN loc |-> IF loc[i] = Elem THEN ix[SubSeq(loc, 1, i - 1)] + 1 ELSE loc[i]]

\* What a path leads to, and the message with another value there: a union on
\* the way is passed through mutable<Option>.
MemberPath(type, v, step) == IF type.kind = "ref" /\ IsUnion(type.to) THEN Mutable(type.to, v, step) ELSE v
RECURSIVE Get(_, _, _), Put(_, _, _, _)
Get(type, v, path) ==
    IF path = << >> THEN v ELSE Get(Inner(type, Head(path)), MemberPath(type, v, Head(path))[Head(path)], Tail(path))
Put(type, v, path, new) ==
    IF path = << >> THEN new
    ELSE [MemberPath(type, v, Head(path)) EXCEPT ![Head(path)] = Put(Inner(type, Head(path)), @, Tail(path), new)]
There == Get(RootType, obj, Path(cur))
With(v) == Put(RootType, obj, Path(cur), v)
Stored(id, v) == With(IF InUnion THEN SetTo(There, id, v) ELSE [There EXCEPT ![id] = v])

Arm(id) ==
    CASE InList -> Here.elem
      [] Here.kind = "ref" /\ id \in IdsOf(Here.to) -> FieldAt(Here.to, id).type
      [] OTHER -> Skipped
ArmOf(kinds, id) == IF Arm(id).kind \in kinds THEN Arm(id) ELSE Skipped

\* Seq.checkIndex, and the list with room for an element: the gaps are new ones.
CheckIndex(id) == IF InList THEN Exceeds(id + 1, Here.count, Caps.array) ELSE "fine"
Reserved(id) == [i \in 1 .. Max({id + 1, Len(There)}) |-> IF i <= Len(There) THEN There[i] ELSE New(Here.elem)]
PlaceElem(id, v) == With([Reserved(id) EXCEPT ![id + 1] = v])

-----------------------------------------------------------------------------
(* Its callbacks                                                           *)

\* The arm of the number callbacks for an element of the array begun.
Fill(v) ==
    /\ afill # 0
    /\ afill' = afill - 1
    /\ verdict' = IF Wide(tgt.elem, v) THEN "invalid" ELSE verdict
    /\ obj' = IF Wide(tgt.elem, v) THEN obj
              ELSE LET ai == Tip.n - afill + 1
                   IN  Put(RootType, obj, tgt.at, [Get(RootType, obj, tgt.at) EXCEPT ![ai] = v])
    /\ UNCHANGED askip

Discard == afill = 0 /\ askip > 0 /\ askip' = askip - 1 /\ UNCHANGED <<obj, afill, verdict>>

ScalarArm(k, id, v) ==
    /\ afill = 0 /\ askip = 0
    /\ LET type == IF InList THEN Skipped ELSE ArmOf({k}, id)
           wide == type # Skipped /\ Wide(type, v)
       IN  /\ verdict' = IF wide THEN "invalid" ELSE verdict
           /\ obj' = IF type = Skipped \/ wide THEN obj ELSE Stored(id, v)
    /\ UNCHANGED <<askip, afill>>

\* unsigned, signed, fp32Bits, fp64
Scalar(k, id, v) == Fill(v) \/ Discard \/ ScalarArm(k, id, v)

Number(tok) ==
    /\ tok.t = "val"
    /\ Arrives(tok)
    /\ Scalar(tok.k, tok.id, tok.got[1])
    /\ UNCHANGED <<schema, cur, stack, ix, tgt>>

\* A decoder that writes into the array itself (arrayBulk) does the same.
ArrayElement(v) ==
    /\ ElementArrives(v)
    /\ Scalar(Tip.k, Tip.id, v)
    /\ UNCHANGED <<schema, cur, stack, ix, tgt>>

\* Fault: an armed fill does not disarm the discarding.
SkipStays(fills, n) == n
Discards(fills, n) == IF fills THEN 0 ELSE n

\* arrayBegin: the destination is as long as announced at once; of a row the
\* count is judged before its index.
ArrayBegin(tok) ==
    /\ tok.t = "arr"
    /\ Arrives(tok)
    /\ LET type == IF Arm(tok.id).kind = "native" /\ Arm(tok.id).elem.kind = tok.k THEN Arm(tok.id) ELSE Skipped
           bad == IF type = Skipped THEN "fine"
                  ELSE FirstBad(<<Exceeds(tok.n, type.count, Caps.array), CheckIndex(tok.id)>>)
           fills == type # Skipped /\ bad = "fine"
           zeros == [i \in 1 .. tok.n |-> 0]
       IN  /\ verdict' = bad
           /\ askip' = Discards(fills, tok.n)
           /\ afill' = IF fills THEN tok.n ELSE 0
           /\ tgt' = IF ~ fills THEN tgt
                     ELSE [at |-> Append(Path(cur), IF InList THEN tok.id + 1 ELSE tok.id), elem |-> type.elem]
           /\ obj' = CASE ~ fills -> obj
                       [] fills /\ InList -> PlaceElem(tok.id, zeros)
                       [] fills /\ ~ InList -> Stored(tok.id, zeros)
           /\ ix' = IF fills /\ InList THEN (cur :> tok.id) @@ ix ELSE ix
    /\ UNCHANGED <<schema, cur, stack>>

\* string, blob: of one that is declared here, all of it at once.
Payload(type, tok) ==
    IF type = Skipped \/ ~ Whole(tok) THEN UNCHANGED <<obj, verdict>>
    ELSE LET bad == IF tok.k = "str" /\ ~ Text(tok.got) THEN "invalid" ELSE CheckIndex(tok.id)
         IN  /\ verdict' = bad
             /\ obj' = CASE bad # "fine" -> obj
                         [] bad = "fine" /\ InList -> PlaceElem(tok.id, tok.got)
                         [] bad = "fine" /\ ~ InList -> Stored(tok.id, tok.got)

\* fixlenBegin: the length word decides.
LengthThrow(type, tok) ==
    IF type = Skipped THEN "fine" ELSE FirstBad(<<CheckIndex(tok.id), Exceeds(tok.n, type.max, Caps[tok.k])>>)
FixlenBegin(tok) ==
    /\ tok.t = "pay"
    /\ Arrives(tok)
    /\ LET type == ArmOf({tok.k}, tok.id)
       IN  IF LengthThrow(type, tok) = "fine" THEN Payload(type, tok)
           ELSE verdict' = LengthThrow(type, tok) /\ UNCHANGED obj
    /\ UNCHANGED <<schema, cur, stack, ix, tgt, askip, afill>>

Piece(bytes) ==
    /\ PieceArrives(bytes)
    /\ Payload(ArmOf({Tip.k}, Tip.id), [Tip EXCEPT !.got = @ \o bytes])
    /\ UNCHANGED <<schema, cur, stack, ix, tgt, askip, afill>>

\* sequenceBegin: a struct of a union is selected, a list cleared, an element
\* reserved, a row emptied.
EnterField(type, id) ==
    /\ ~ InList /\ type # Skipped
    /\ cur' = Append(cur, id)
    /\ obj' = CASE type.kind = "ref" -> With(MemberPath(Here, There, id))
                [] type.kind = "list" -> Stored(id, << >>)
    /\ UNCHANGED <<ix, verdict>>

EnterElement(type, id) ==
    /\ InList /\ type # Skipped
    /\ verdict' = CheckIndex(id)
    /\ IF CheckIndex(id) # "fine" THEN UNCHANGED <<cur, obj, ix>>
       ELSE /\ cur' = Append(cur, Elem)
            /\ ix' = (cur :> id) @@ ix
            /\ obj' = IF type.kind = "list" THEN PlaceElem(id, << >>) ELSE With(Reserved(id))

EnterDead(type) == type = Skipped /\ cur' = Dead /\ UNCHANGED <<obj, ix, verdict>>

SequenceBegin(tok) ==
    /\ tok.t = "open"
    /\ Arrives(tok)
    /\ stack' = Append(stack, cur)
    /\ LET type == ArmOf({"ref", "list"}, tok.id)
       IN  EnterField(type, tok.id) \/ EnterElement(type, tok.id) \/ EnterDead(type)
    /\ UNCHANGED <<schema, tgt, askip, afill>>

SequenceEnd ==
    /\ Ends
    /\ cur' = Last(stack) /\ stack' = Front(stack)
    /\ UNCHANGED <<schema, obj, ix, tgt, askip, afill, verdict>>

-----------------------------------------------------------------------------
NewVisitor ==
    /\ wire' = << >> /\ cur' = << >> /\ stack' = << >> /\ ix' = << >>
    /\ tgt' = None /\ askip' = 0 /\ afill' = 0

Init ==
    /\ schema \in Schemas
    /\ wire = << >>
    /\ obj = New(RootType)
    /\ cur = << >> /\ stack = << >> /\ ix = << >> /\ tgt = None /\ askip = 0 /\ afill = 0
    /\ verdict = "fine"

\* Decoder.feed; once it has thrown it throws again.
Decoding ==
    /\ verdict = "fine"
    /\ \/ \E tok \in schema.heads : Number(tok) \/ FixlenBegin(tok) \/ ArrayBegin(tok) \/ SequenceBegin(tok)
       \/ \E v \in schema.numbers : ArrayElement(v)
       \/ \E bytes \in schema.pieces : Piece(bytes)
       \/ SequenceEnd

\* User code gives a message a value.
Edit(new) ==
    /\ verdict = "fine" => ~ Pending
    /\ obj' = Assigned(RootType, New(RootType), new)
    /\ verdict' = "edited"
    /\ NewVisitor
    /\ UNCHANGED schema

\* tryDecode into a message that has been used (a bound of the run: how).
TryDecode ==
    /\ verdict = "edited" /\ View(RootType, obj) \in schema.used
    /\ obj' = Reset(Root, obj)
    /\ verdict' = "fine"
    /\ NewVisitor
    /\ UNCHANGED schema

Next == Decoding \/ TryDecode \/ (\E new \in schema.values \cup schema.wide : Edit(new))

Spec == Init /\ [][Next]_vars

-----------------------------------------------------------------------------
(* At every field boundary the message holds what the fields so far mean,  *)
(* whatever it held before, and feed has thrown exactly where MESSAGE_SPEC *)
(* says: the comments of emitReset, emitFixlenBegin and emitArrayBegin.    *)
(* What serialize writes of any message reads back as it, every frame      *)
(* closed and nothing in it that could be left out; it throws for a value  *)
(* past its bounds only, and isDefault is true iff it would write nothing. *)
SpeaksTheFormat ==
    /\ verdict # "edited" =>
          LET m == Meaning(wire)
          IN  /\ verdict = m.bad
              /\ verdict = "fine" /\ ~ Pending => View(RootType, obj) = m.val
    /\ verdict = "edited" \/ (verdict = "fine" /\ ~ Pending) =>
          /\ Encodes(View(RootType, obj), Encode(obj))
          /\ IsDefault(Root, obj) <=> Encode(obj) = << >>

=============================================================================
