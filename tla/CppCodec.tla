------------------------------ MODULE CppCodec ------------------------------
(***************************************************************************)
(* The code the C++ backend emits for a message with corelib-cpp           *)
(* (generators/cpp/backend.go, union.go, helpers.go).  The decoder pulls:  *)
(* for every field of a scope it calls deserialize with the id, and the    *)
(* arm of that id reads into the member.  The corelib's reads own the tag  *)
(* test and the bounds they are handed; a field split across feeds is      *)
(* delivered again with each part, into the same member.                   *)
(*                                                                         *)
(* A union is a variant: the index of the option it holds and its value.   *)
(***************************************************************************)
EXTENDS Wire

VARIABLES
    obj,     \* the message
    stack,   \* the objects being read, innermost last
    verdict  \* the error of feed; "edited" when user code wrote obj

vars == <<schema, wire, obj, stack, verdict>>

-----------------------------------------------------------------------------
(* Messages                                                                *)

RECURSIVE Default(_), Reset(_, _)

\* Member initializers; a union is built on its default option.
FieldDefault(f) == IF f.type.kind = "ref" THEN Default(f.type) ELSE f.dflt
Default(type) ==
    CASE type.kind = "ref" /\ IsUnion(type.to) ->
            <<HeldFirst(type.to), FieldDefault(FieldAt(type.to, HeldFirst(type.to)))>>
      [] type.kind = "ref" /\ ~ IsUnion(type.to) ->
            [id \in IdsOf(type.to) |-> FieldDefault(FieldAt(type.to, id))]
      [] type.kind \in Numbers -> 0
      [] OTHER -> << >>

\* Fault: selected anew whether it is held or not.
MutAnew(name, u, id) == <<id, FieldDefault(FieldAt(name, id))>>

\* mut_<option>: selected at its default unless it is held.
Mut(name, u, id) == IF u[1] = id THEN u ELSE <<id, FieldDefault(FieldAt(name, id))>>

EmptyContainerDefault(f) == f.type.kind \in Payloads \cup {"native", "list"} /\ f.dflt = << >>

\* Every field in place; a union's default option in place when it is held.
ResetField(f, v) ==
    CASE f.type.kind = "ref" -> Reset(f.type, v)
      [] f.type.kind # "ref" /\ EmptyContainerDefault(f) -> << >>
      [] f.type.kind # "ref" /\ ~ EmptyContainerDefault(f) -> f.dflt
Reset(type, v) ==
    IF IsUnion(type.to)
    THEN LET first == HeldFirst(type.to)
         IN  <<first, ResetField(FieldAt(type.to, first), Mut(type.to, v, first)[2])>>
    ELSE [id \in DOMAIN v |-> ResetField(FieldAt(type.to, id), v[id])]

-----------------------------------------------------------------------------
(* serialize                                                               *)

RECURSIVE IsDefault(_, _), Serialize(_, _, _), SerializeArray(_, _, _, _, _)

FieldIsDefault(f, v) ==
    CASE f.type.kind = "ref" -> IsDefault(f.type, v)
      [] f.type.kind = "list" -> Len(v) = 0
      [] OTHER -> v = f.dflt
IsDefault(type, v) ==
    IF IsUnion(type.to) THEN v[1] = HeldFirst(type.to) /\ FieldIsDefault(FieldAt(type.to, v[1]), v[2])
    ELSE \A id \in DOMAIN v : FieldIsDefault(FieldAt(type.to, id), v[id])

\* Past the bound of its declaration; the storage is growable.
Past(type, v) ==
    \/ type.kind \in Payloads /\ type.max # None /\ Len(v) > type.max
    \/ type.kind \in {"native", "list"} /\ type.count # None /\ Len(v) > type.count

SeqEnd(w, keep) == IF keep THEN EndKeep(w) ELSE End(w)
WriteObject(w, type, id, v, keep) == SeqEnd(Serialize(BeginLazy(w, id), type, v), keep)

SerializeField(w, f, v, forced) ==
    CASE f.type.kind = "ref" -> WriteObject(w, f.type, f.id, v, forced)
      [] f.type.kind = "list" -> SerializeArray(w, f.type, f.id, v, forced)
      [] ~ forced /\ FieldIsDefault(f, v) -> w
      [] f.type.kind = "native" /\ (forced \/ ~ FieldIsDefault(f, v)) -> SerializeArray(w, f.type, f.id, v, FALSE)
      [] f.type.kind \in Payloads /\ (forced \/ ~ FieldIsDefault(f, v)) ->
            IF Past(f.type, v) THEN Reject(w) ELSE Write(w, Pay(f.id, f.type.kind, v))
      [] f.type.kind \in Numbers /\ (forced \/ ~ FieldIsDefault(f, v)) -> Write(w, Val(f.id, f.type.kind, v))

\* Any option but the default one is written even at its default.
Serialize(w, type, v) ==
    IF IsUnion(type.to) THEN SerializeField(w, FieldAt(type.to, v[1]), v[2], v[1] # HeldFirst(type.to))
    ELSE FoldLeft(LAMBDA acc, f : SerializeField(acc, f, v[f.id], FALSE), w, Fields(type.to))

LastElem(i, n) == i = n

SerializeElement(w, type, i, v, last) ==
    CASE type.kind \in Payloads ->
            IF Past(type, v) THEN Reject(w) ELSE IF v # << >> \/ last THEN Write(w, Pay(i, type.kind, v)) ELSE w
      [] type.kind = "ref" -> WriteObject(w, type, i, v, last)
      [] type.kind = "native" -> IF v # << >> \/ last THEN SerializeArray(w, type, i, v, FALSE) ELSE w
      [] type.kind = "list" -> SerializeArray(w, type, i, v, last)

SerializeArray(w, type, id, v, keep) ==
    CASE Past(type, v) -> Reject(w)
      [] ~ Past(type, v) /\ type.kind = "native" -> Write(w, Arr(id, type.elem.kind, v))
      [] ~ Past(type, v) /\ type.kind = "list" ->
            LET element(acc, i) == SerializeElement(acc, type.elem, i - 1, v[i], LastElem(i, Len(v)))
            IN  SeqEnd(FoldLeftDomain(element, BeginLazy(w, id), v), keep)

Encode(v) == Sent(Serialize(NewWriter, RootType, v))

-----------------------------------------------------------------------------
(* deserialize                                                             *)

Scope(path, type) == [path |-> path, type |-> type]
Top == stack[Len(stack)]
InUnion == Top.type.kind = "ref" /\ IsUnion(Top.type.to)

RECURSIVE PutAt(_, _, _)
PutAt(v, path, new) == IF path = << >> THEN new ELSE [v EXCEPT ![Head(path)] = PutAt(@, Tail(path), new)]
At(path) == FoldLeft(LAMBDA v, step : v[step], obj, path)
With(node) == PutAt(obj, Top.path, node)

Arm(id) == IF Top.type.kind = "ref" /\ id \in IdsOf(Top.type.to) THEN FieldAt(Top.type.to, id).type ELSE Skipped
Member(node, id) == IF InUnion THEN node[2] ELSE node[id]
Stored(node, id, v) == IF InUnion THEN <<id, v>> ELSE [node EXCEPT ![id] = v]

\* In front of a union's arm that reads into mut_<option>: a mistyped child
\* switches nothing.
UnionGate(type, tok) == Gate(type, tok)

\* The object an arm reads into: a union's option is selected first, but a
\* number is read before it is stored.
Prepared(tok) ==
    IF InUnion /\ Arm(tok.id).kind \notin Numbers \cup {"skip"} /\ UnionGate(Arm(tok.id), tok)
    THEN Mut(Top.type.to, At(Top.path), tok.id) ELSE At(Top.path)

\* A number goes through a 64-bit temporary where its type is narrower.
ReadNumber(type, tok) == IF Wide(type, tok.got[1]) THEN "invalid" ELSE "fine"
\* readString, readBlob: maxlen, or the cap of what declares none.
ReadPayload(type, tok) ==
    FirstBad(<<Exceeds(tok.n, type.max, Caps[type.kind]),
               IF type.kind = "str" /\ Whole(tok) /\ ~ Text(tok.got) THEN "invalid" ELSE "fine">>)
\* readArray, with the bound of its elements.
ReadArray(type, tok) ==
    FirstBad(<<Exceeds(tok.n, type.count, Caps.array),
               IF \E v \in Range(tok.got) : Wide(type.elem, v) THEN "invalid" ELSE "fine">>)

\* A collector (the corelib's) reads the elements of an array: bounds first,
\* then into the slot of the index, which the elements before are made for.
Slot(id) == Padded(At(Top.path), id + 1, Top.type.elem)
Collected(tok, v) == With([Slot(tok.id) EXCEPT ![tok.id + 1] = v])

Outcome(tok) ==
    LET type == Arm(tok.id)
    IN  CASE Top.type.kind = "list" -> Judge(Top.type, TypeIn(Top.type, tok), tok)
          [] Top.type.kind # "list" /\ ~ Gate(type, tok) -> "fine"
          [] Top.type.kind # "list" /\ Gate(type, tok) ->
                CASE type.kind \in Numbers -> ReadNumber(type, tok)
                  [] type.kind \in Payloads -> ReadPayload(type, tok)
                  [] type.kind = "native" -> ReadArray(type, tok)
                  [] OTHER -> "fine"

Content(tok) == IF tok.t = "val" THEN tok.got[1] ELSE tok.got

\* What has arrived of a field, read.
Delivered(tok) ==
    LET read == Outcome(tok) = "fine"
    IN  /\ verdict' = Outcome(tok)
        /\ obj' = CASE Top.type.kind = "list" ->
                          IF read /\ Gate(Top.type.elem, tok) THEN Collected(tok, Content(tok)) ELSE obj
                    [] Top.type.kind = "ref" ->
                          With(IF read /\ Gate(Arm(tok.id), tok) THEN Stored(Prepared(tok), tok.id, Content(tok)) ELSE Prepared(tok))
                    [] OTHER -> obj
        /\ UNCHANGED <<schema, stack>>

Field(tok) ==
    /\ tok.t \in {"val", "pay", "arr"}
    /\ Arrives(tok)
    /\ Delivered(tok)

Piece(bytes) == PieceArrives(bytes) /\ Delivered([Tip EXCEPT !.got = @ \o bytes])
Element(v) == ElementArrives(v) /\ Delivered([Tip EXCEPT !.got = Append(@, v)])

\* A struct is read into as it is, an array is cleared behind the tag test, an
\* element is its collector's.
Entered(type, tok) ==
    CASE type = Skipped -> IF Top.type.kind = "ref" THEN With(Prepared(tok)) ELSE obj
      [] Top.type.kind = "list" /\ type # Skipped ->
            Collected(tok, IF type.kind = "ref" THEN Slot(tok.id)[tok.id + 1] ELSE << >>)
      [] Top.type.kind = "ref" /\ type.kind = "list" -> With(Stored(Prepared(tok), tok.id, << >>))
      [] Top.type.kind = "ref" /\ type.kind = "ref" -> With(Prepared(tok))

Step(id) == IF Top.type.kind = "list" THEN id + 1 ELSE IF InUnion THEN 2 ELSE id

Sequence(tok) ==
    /\ tok.t = "open"
    /\ Arrives(tok)
    /\ LET type == TypeIn(Top.type, tok)
           bad == Judge(Top.type, type, tok)
       IN  /\ verdict' = bad
           /\ obj' = IF bad = "fine" THEN Entered(type, tok) ELSE obj
           /\ stack' = IF bad # "fine" THEN stack
                        ELSE Append(stack, Scope(IF type = Skipped THEN << >> ELSE Append(Top.path, Step(tok.id)), type))
    /\ UNCHANGED schema

SequenceEnd ==
    /\ Ends
    /\ stack' = Front(stack)
    /\ UNCHANGED <<schema, obj, verdict>>

-----------------------------------------------------------------------------
Start == <<Scope(<< >>, RootType)>>

Init ==
    /\ schema \in Schemas
    /\ wire = << >>
    /\ obj = Default(RootType)
    /\ stack = Start
    /\ verdict = "fine"

Decoding ==
    /\ verdict = "fine"
    /\ \/ \E tok \in schema.heads : Field(tok) \/ Sequence(tok)
       \/ \E v \in schema.numbers : Element(v)
       \/ \E bytes \in schema.pieces : Piece(bytes)
       \/ SequenceEnd

Edit(new) ==
    /\ ~ Pending
    /\ obj' = new
    /\ verdict' = "edited"
    /\ wire' = << >>
    /\ stack' = Start
    /\ UNCHANGED schema

\* try_decode into a message that has been used: written, or left by a decode
\* that failed.  What one that succeeds leaves is such a value too (a bound).
TryDecode ==
    /\ verdict # "fine"
    /\ obj' = Reset(RootType, obj)
    /\ verdict' = "fine"
    /\ wire' = << >>
    /\ stack' = Start
    /\ UNCHANGED schema

Next == Decoding \/ TryDecode \/ (\E new \in schema.values : Edit(new))

Spec == Init /\ [][Next]_vars

-----------------------------------------------------------------------------
(* At every field boundary the message holds what the fields so far mean,  *)
(* and feed has failed exactly where MESSAGE_SPEC says, at the header of   *)
(* what crosses a bound or a cap; whatever it was used for before (the     *)
(* comments of reset and try_decode).  What serialize writes of any        *)
(* message reads back as it, with every frame closed and nothing in it     *)
(* that could be left out; it refuses exactly what is past its bounds, and *)
(* _isDefault is "the exact negation of serialize".                        *)
SpeaksTheFormat ==
    /\ verdict # "edited" =>
          LET m == Meaning(wire)
          IN  /\ verdict = m.bad
              /\ verdict = "fine" /\ ~ Pending => obj = m.val
    /\ verdict = "edited" \/ (verdict = "fine" /\ ~ Pending) =>
          /\ Encodes(obj, Encode(obj))
          /\ IsDefault(RootType, obj) <=> Encode(obj) = << >>

=============================================================================
