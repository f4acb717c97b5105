---------------------------- MODULE CSharpCodec -----------------------------
(***************************************************************************)
(* The code the C# backend emits for a message (generators/csharp/         *)
(* visitor.go, backend.go, union.go): a class per type with Serialize,     *)
(* IsDefault and Reset, and one flat visitor that routes every callback by *)
(* the pair of a scope and an id.  A scope is here the path of ids it      *)
(* stands for, Elem for the element of a List, whose index is in ix.       *)
(*                                                                         *)
(* A union selects an option by replacing its slot, by a new object or the *)
(* value set, so only the slot that is held can be read: a union is that   *)
(* option and its value.  Arrays of numbers are primitive arrays of their  *)
(* announced length; rows, and arrays of booleans, are Lists that grow.    *)
(***************************************************************************)
EXTENDS Wire

VARIABLES
    obj,     \* the message
    cur,     \* the scope the fields belong to, Dead in a skipped sequence
    stack,   \* the scopes to return to
    ix,      \* per List, the index its scope decodes into
    askip,   \* elements left to discard of an array declared nowhere
    afill,   \* elements still expected by the array begun
    verdict  \* the exception of Feed; "edited" when user code wrote obj

vars == <<schema, wire, obj, cur, stack, ix, askip, afill, verdict>>

Elem == -1
Dead == <<-2>>

-----------------------------------------------------------------------------
(* Objects                                                                 *)

RECURSIVE New(_)
Initial(f) == IF f.type.kind = "ref" THEN New(f.type) ELSE f.dflt
New(type) ==
    CASE type.kind \in Numbers -> 0
      [] type.kind = "ref" /\ IsUnion(type.to) -> <<HeldFirst(type.to), Initial(FieldAt(type.to, HeldFirst(type.to)))>>
      [] type.kind = "ref" /\ ~ IsUnion(type.to) -> [id \in IdsOf(type.to) |-> Initial(FieldAt(type.to, id))]
      [] OTHER -> << >>

\* Mutable_<Option>
Mutable(name, u, id) == IF u[1] = id THEN u ELSE <<id, Initial(FieldAt(name, id))>>

\* Reset: a struct in place, a union by Clear, a List emptied.
RECURSIVE Reset(_, _)
\* Fault: a List is left to the decode to replace.
EmptiedByDecode(f, list) == list
Emptied(f, list) == f.dflt
ResetField(f, v) ==
    CASE f.type.kind = "ref" /\ IsUnion(f.type.to) -> New(f.type)
      [] f.type.kind = "ref" /\ ~ IsUnion(f.type.to) -> Reset(f.type.to, v)
      [] f.type.kind = "list" -> Emptied(f, v)
      [] OTHER -> f.dflt
Reset(name, o) == [id \in DOMAIN o |-> ResetField(FieldAt(name, id), o[id])]

-----------------------------------------------------------------------------
(* Serialize                                                               *)

RECURSIVE IsDefault(_, _), Serialize(_, _, _), MarshalArray(_, _, _, _, _)

FieldIsDefault(f, v) ==
    CASE f.type.kind = "ref" -> IsDefault(f.type.to, v)
      [] f.type.kind = "list" -> Len(v) = 0
      [] OTHER -> v = f.dflt
IsDefault(name, o) ==
    IF IsUnion(name) THEN o[1] = HeldFirst(name) /\ FieldIsDefault(FieldAt(name, o[1]), o[2])
    ELSE \A id \in DOMAIN o : FieldIsDefault(FieldAt(name, id), o[id])

ArgThrow(w, bound, v) == IF bound # None /\ Len(v) > bound THEN Reject(w) ELSE w
WritePayload(w, id, type, v) == Write(ArgThrow(w, type.max, v), Pay(id, type.kind, v))
SeqEnd(w, keep) == IF keep THEN EndKeep(w) ELSE End(w)

\* Forced: the option a union holds in place of its default one.
Marshal(w, f, v, forced) ==
    CASE f.type.kind = "ref" -> SeqEnd(Serialize(BeginLazy(w, f.id), f.type.to, v), forced)
      [] f.type.kind = "list" -> MarshalArray(w, f.type, f.id, v, forced)
      [] ~ forced /\ v = f.dflt -> w
      [] f.type.kind \in Payloads /\ (forced \/ v # f.dflt) -> WritePayload(w, f.id, f.type, v)
      [] f.type.kind = "native" /\ (forced \/ v # f.dflt) -> MarshalArray(w, f.type, f.id, v, FALSE)
      [] f.type.kind \in Numbers /\ (forced \/ v # f.dflt) -> Write(w, Val(f.id, f.type.kind, v))

Serialize(w, name, o) ==
    IF IsUnion(name) THEN Marshal(w, FieldAt(name, o[1]), o[2], o[1] # HeldFirst(name))
    ELSE FoldLeft(LAMBDA acc, f : Marshal(acc, f, o[f.id], FALSE), w, Fields(name))

LastElem(i, n) == i = n - 1
MarshalElement(w, type, i, v, last) ==
    LET written == v # << >> \/ last
    IN  CASE type.kind = "ref" -> SeqEnd(Serialize(BeginLazy(w, i), type.to, v), last)
          [] type.kind = "list" -> MarshalArray(w, type, i, v, last)
          [] type.kind = "native" -> IF written THEN MarshalArray(w, type, i, v, FALSE) ELSE w
          [] type.kind = "str" -> IF written THEN WritePayload(w, i, type, v) ELSE w
          [] type.kind = "blob" -> LET guarded == ArgThrow(w, type.max, v)
                                   IN  IF written THEN Write(guarded, Pay(i, "blob", v)) ELSE guarded

MarshalArray(w, type, id, v, keep) ==
    LET guarded == ArgThrow(w, type.count, v)
        element(acc, i) == MarshalElement(acc, type.elem, i - 1, v[i], LastElem(i - 1, Len(v)))
    IN  CASE type.kind = "native" -> Write(guarded, Arr(id, type.elem.kind, v))
          [] type.kind = "list" -> SeqEnd(FoldLeftDomain(element, BeginLazy(guarded, id), v), keep)

Encode(o) == Sent(Serialize(NewWriter, Root, o))

-----------------------------------------------------------------------------
(* The frames of the visitor                                               *)

Inner(type, step) == IF type.kind = "list" THEN type.elem ELSE FieldAt(type.to, step).type
Here == IF cur = Dead THEN Skipped ELSE FoldLeft(Inner, RootType, cur)
InUnion == Here.kind = "ref" /\ IsUnion(Here.to)
InList == Here.kind = "list"
Path(loc) == [i \in DOMAIN loc |-> IF loc[i] = Elem THEN ix[SubSeq(loc, 1, i - 1)] + 1 ELSE loc[i]]

\* What a path leads to, and the message with another value there; an option on
\* the way is reached by Mutable_<Option>.
RECURSIVE Get(_, _, _), Put(_, _, _, _)
Get(type, v, path) ==
    CASE path = << >> -> v
      [] path # << >> /\ type.kind = "ref" /\ IsUnion(type.to) ->
            Get(Inner(type, Head(path)), Mutable(type.to, v, Head(path))[2], Tail(path))
      [] OTHER -> Get(Inner(type, Head(path)), v[Head(path)], Tail(path))
Put(type, v, path, new) ==
    CASE path = << >> -> new
      [] path # << >> /\ type.kind = "ref" /\ IsUnion(type.to) ->
            <<Head(path), Put(Inner(type, Head(path)), Mutable(type.to, v, Head(path))[2], Tail(path), new)>>
      [] OTHER -> [v EXCEPT ![Head(path)] = Put(Inner(type, Head(path)), @, Tail(path), new)]
At(loc) == Get(RootType, obj, Path(loc))
With(loc, v) == Put(RootType, obj, Path(loc), v)
Stored(id, v) == With(Append(cur, id), v)

\* The case of a dispatch on (cur, id): an array takes every id.
Arm(id) ==
    CASE InList -> Here.elem
      [] Here.kind = "ref" /\ id \in IdsOf(Here.to) -> FieldAt(Here.to, id).type
      [] OTHER -> Skipped
ArmOf(kinds, id) == IF Arm(id).kind \in kinds THEN Arm(id) ELSE Skipped
NativeArm(k, id) == IF Arm(id).kind = "native" /\ Arm(id).elem.kind = k THEN Arm(id) ELSE Skipped

\* Seq: the bound of an index, and the List with room for it.
CheckIndex(id) == IF InList THEN Exceeds(id + 1, Here.count, Caps.array) ELSE "fine"
Reserved(id) ==
    [i \in 1 .. Max({id + 1, Len(At(cur))}) |-> IF i <= Len(At(cur)) THEN At(cur)[i] ELSE New(Here.elem)]
PlaceElem(id, v) == With(cur, [Reserved(id) EXCEPT ![id + 1] = v])

-----------------------------------------------------------------------------
(* Its callbacks                                                           *)

Discard == askip > 0 /\ askip' = askip - 1 /\ UNCHANGED <<obj, afill, verdict>>

SingleArm(type, id, v) ==
    /\ askip = 0 /\ ~ InList /\ type.kind \in Numbers
    /\ verdict' = IF Wide(type, v) THEN "invalid" ELSE verdict
    /\ obj' = IF Wide(type, v) THEN obj ELSE Stored(id, v)
    /\ UNCHANGED <<askip, afill>>

\* fillGuard, then the width, then the next place of the field or the row.
FillArm(type, id, v) ==
    /\ askip = 0 /\ type.kind = "native" /\ afill > 0
    /\ afill' = afill - 1
    /\ verdict' = IF Wide(type.elem, v) THEN "invalid" ELSE verdict
    /\ LET row == Append(cur, Elem)
           field == Append(cur, id)
           ai == Tip.n - afill + 1
       IN  obj' = CASE Wide(type.elem, v) -> obj
                    [] ~ Wide(type.elem, v) /\ InList -> With(row, Append(At(row), v))
                    [] ~ Wide(type.elem, v) /\ ~ InList -> With(field, [At(field) EXCEPT ![ai] = v])
    /\ UNCHANGED askip

NoArm(type) ==
    /\ askip = 0
    /\ type = Skipped \/ (type.kind = "native" /\ afill = 0)
    /\ UNCHANGED <<obj, askip, afill, verdict>>

\* Unsigned, Signed, Fp32, Fp64
Scalar(k, id, v) ==
    LET type == IF NativeArm(k, id) # Skipped THEN NativeArm(k, id) ELSE IF InList THEN Skipped ELSE ArmOf({k}, id)
    IN  Discard \/ SingleArm(type, id, v) \/ FillArm(type, id, v) \/ NoArm(type)

Number(tok) ==
    /\ tok.t = "val"
    /\ Arrives(tok)
    /\ Scalar(tok.k, tok.id, tok.got[1])
    /\ UNCHANGED <<schema, cur, stack, ix>>

ArrayElement(v) ==
    /\ ElementArrives(v)
    /\ Scalar(Tip.k, Tip.id, v)
    /\ UNCHANGED <<schema, cur, stack, ix>>

SkipOrFill(type, n) ==
    /\ askip' = IF type = Skipped THEN n ELSE 0
    /\ afill' = IF type = Skipped THEN 0 ELSE n

\* ArrayBegin: a row is reserved before its count is judged.
ArrayBegin(tok) ==
    /\ tok.t = "arr"
    /\ Arrives(tok)
    /\ LET type == NativeArm(tok.k, tok.id)
           bad == IF type = Skipped THEN "fine" ELSE FirstBad(<<CheckIndex(tok.id), Exceeds(tok.n, type.count, Caps.array)>>)
           reserved == type # Skipped /\ InList /\ CheckIndex(tok.id) = "fine"
       IN  /\ SkipOrFill(type, tok.n)
           /\ verdict' = bad
           /\ obj' = CASE reserved -> PlaceElem(tok.id, << >>)
                       [] ~ InList /\ type # Skipped /\ bad = "fine" -> Stored(tok.id, [i \in 1 .. tok.n |-> 0])
                       [] OTHER -> obj
           /\ ix' = IF reserved /\ bad = "fine" THEN (cur :> tok.id) @@ ix ELSE ix
    /\ UNCHANGED <<schema, cur, stack>>

\* String, Blob: of one that is declared here, when it is whole.
Payload(type, tok) ==
    IF type = Skipped \/ ~ Whole(tok) THEN UNCHANGED <<obj, verdict>>
    ELSE LET bad == IF tok.k = "str" /\ ~ Text(tok.got) THEN "invalid" ELSE CheckIndex(tok.id)
         IN  /\ verdict' = bad
             /\ obj' = CASE bad # "fine" -> obj
                         [] bad = "fine" /\ InList -> PlaceElem(tok.id, tok.got)
                         [] bad = "fine" /\ ~ InList -> Stored(tok.id, tok.got)

\* FixlenBegin
LengthThrow(type, tok) ==
    IF type = Skipped THEN "fine" ELSE FirstBad(<<CheckIndex(tok.id), Exceeds(tok.n, type.max, Caps[tok.k])>>)
FixlenBegin(tok) ==
    /\ tok.t = "pay"
    /\ Arrives(tok)
    /\ LET type == ArmOf({tok.k}, tok.id)
       IN  IF LengthThrow(type, tok) = "fine" THEN Payload(type, tok)
           ELSE verdict' = LengthThrow(type, tok) /\ UNCHANGED obj
    /\ UNCHANGED <<schema, cur, stack, ix, askip, afill>>

Piece(bytes) ==
    /\ PieceArrives(bytes)
    /\ Payload(ArmOf({Tip.k}, Tip.id), [Tip EXCEPT !.got = @ \o bytes])
    /\ UNCHANGED <<schema, cur, stack, ix, askip, afill>>

\* SequenceBegin
EnterField(type, id) ==
    /\ ~ InList /\ type # Skipped
    /\ cur' = Append(cur, id)
    /\ obj' = CASE type.kind = "list" -> Stored(id, << >>)
                [] type.kind = "ref" /\ InUnion -> With(cur, Mutable(Here.to, At(cur), id))
                [] type.kind = "ref" /\ ~ InUnion -> obj
    /\ UNCHANGED <<ix, verdict>>

EnterElement(type, id) ==
    /\ InList /\ type # Skipped
    /\ verdict' = CheckIndex(id)
    /\ IF CheckIndex(id) # "fine" THEN UNCHANGED <<cur, obj, ix>>
       ELSE /\ cur' = Append(cur, Elem)
            /\ ix' = (cur :> id) @@ ix
            /\ obj' = IF type.kind = "list" THEN PlaceElem(id, << >>) ELSE With(cur, Reserved(id))

EnterDead(type) == type = Skipped /\ cur' = Dead /\ UNCHANGED <<obj, ix, verdict>>

SequenceBegin(tok) ==
    /\ tok.t = "open"
    /\ Arrives(tok)
    /\ stack' = Append(stack, cur)
    /\ LET type == ArmOf({"ref", "list"}, tok.id)
       IN  EnterField(type, tok.id) \/ EnterElement(type, tok.id) \/ EnterDead(type)
    /\ UNCHANGED <<schema, askip, afill>>

SequenceEnd ==
    /\ Ends
    /\ cur' = Last(stack) /\ stack' = Front(stack)
    /\ UNCHANGED <<schema, obj, ix, askip, afill, verdict>>

-----------------------------------------------------------------------------
NewVisitor == wire' = << >> /\ cur' = << >> /\ stack' = << >> /\ ix' = << >> /\ askip' = 0 /\ afill' = 0

Init ==
    /\ schema \in Schemas
    /\ wire = << >>
    /\ obj = New(RootType)
    /\ cur = << >> /\ stack = << >> /\ ix = << >> /\ askip = 0 /\ afill = 0
    /\ verdict = "fine"

\* Decoder.Feed
Decoding ==
    /\ verdict = "fine"
    /\ \/ \E tok \in schema.heads : Number(tok) \/ FixlenBegin(tok) \/ ArrayBegin(tok) \/ SequenceBegin(tok)
       \/ \E v \in schema.numbers : ArrayElement(v)
       \/ \E bytes \in schema.pieces : Piece(bytes)
       \/ SequenceEnd

\* User code gives a message a value; its types hold no number past its width.
Edit(new) ==
    /\ verdict = "fine" => ~ Pending
    /\ obj' = new
    /\ verdict' = "edited"
    /\ NewVisitor
    /\ UNCHANGED schema

\* TryDecode into a message that has been used (a bound of the run: how).
TryDecode ==
    /\ verdict = "edited" /\ obj \in schema.used
    /\ obj' = Reset(Root, obj)
    /\ verdict' = "fine"
    /\ NewVisitor
    /\ UNCHANGED schema

Next == Decoding \/ TryDecode \/ (\E new \in schema.values : Edit(new))

Spec == Init /\ [][Next]_vars

-----------------------------------------------------------------------------
(* At every field boundary the message holds what the fields so far mean,  *)
(* whatever it held before, and Feed has thrown exactly where MESSAGE_SPEC *)
(* says: the comments of emitReset, emitFixlenBegin, fillGuard and         *)
(* reserveRow.  What Serialize writes of any message reads back as it,     *)
(* every frame closed and nothing in it that could be left out; it throws  *)
(* for a value past its bounds only, and IsDefault is true iff it would    *)
(* write nothing.                                                          *)
SpeaksTheFormat ==
    /\ verdict # "edited" =>
          LET m == Meaning(wire)
          IN  /\ verdict = m.bad
              /\ verdict = "fine" /\ ~ Pending => obj = m.val
    /\ verdict = "edited" \/ (verdict = "fine" /\ ~ Pending) =>
          /\ Encodes(obj, Encode(obj))
          /\ IsDefault(Root, obj) <=> Encode(obj) = << >>

=============================================================================
