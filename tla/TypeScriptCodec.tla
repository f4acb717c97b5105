-------------------------- MODULE TypeScriptCodec ---------------------------
(***************************************************************************)
(* The code the TypeScript backend emits for a message (generators/        *)
(* typescript/visitor.go, backend.go, union.go): a class per type with     *)
(* serialize, isDefault and reset, and one flat visitor whose location is  *)
(* the path of ids it stands for, Elem for the element of an array.  The   *)
(* corelib skips a sequence the visitor declines, callbacks and all.       *)
(*                                                                         *)
(* tryDecode decodes into the storage of the message before: the arrays    *)
(* and blobs that a path of plain structs leads to stay where they are, in *)
(* stale until the message reaches them; what it did not reach gets its    *)
(* default at the end (_end), which an array decoded again is cut to live. *)
(***************************************************************************)
EXTENDS Wire

VARIABLES
    obj,     \* the message
    cur,     \* the location the fields belong to
    dead,    \* how deep the declined sequence is
    ix,      \* per array location, the element being decoded
    stale,   \* the locations of kept storage not taken yet
    live,    \* per array location decoded into kept storage, its length so far
    verdict  \* what feed has thrown; "edited" when user code wrote obj

vars == <<schema, wire, obj, cur, dead, ix, stale, live, verdict>>

Elem == -1

-----------------------------------------------------------------------------
(* Objects.  A union that is left releases what it held (__leave), so it   *)
(* is the option it holds and its value.                                   *)

RECURSIVE Default(_)
FieldDefault(f) == IF f.type.kind = "ref" THEN Default(f.type) ELSE f.dflt
Default(type) ==
    CASE type.kind \in Numbers -> 0
      [] type.kind = "ref" /\ IsUnion(type.to) ->
            <<HeldFirst(type.to), FieldDefault(FieldAt(type.to, HeldFirst(type.to)))>>
      [] type.kind = "ref" /\ ~ IsUnion(type.to) -> [id \in IdsOf(type.to) |-> FieldDefault(FieldAt(type.to, id))]
      [] OTHER -> << >>

\* mutable<Option>
Mutable(name, u, id) == IF u[1] = id THEN u ELSE <<id, FieldDefault(FieldAt(name, id))>>

\* reset(), in place
RECURSIVE Reset(_, _)
Reset(type, v) ==
    IF type.kind = "ref" /\ ~ IsUnion(type.to)
    THEN [id \in DOMAIN v |-> LET f == FieldAt(type.to, id)
                              IN  IF f.type.kind = "ref" THEN Reset(f.type, v[id]) ELSE f.dflt]
    ELSE Default(type)

\* keptMember, emitPartialReset
Kept(type) == type.kind \in {"blob", "native"} \/ (type.kind = "list" /\ type.elem.kind # "list")
PlainStruct(type) == type.kind = "ref" /\ ~ IsUnion(type.to)
RECURSIVE KeptBelow(_, _), Reused(_, _)
KeptBelow(name, loc) ==
    UNION {LET type == FieldAt(name, id).type
           IN  CASE Kept(type) -> {Append(loc, id)}
                 [] PlainStruct(type) -> KeptBelow(type.to, Append(loc, id))
                 [] OTHER -> {} : id \in IdsOf(name)}
Reused(name, o) ==
    [id \in DOMAIN o |-> LET f == FieldAt(name, id)
                         IN  CASE Kept(f.type) -> o[id]
                               [] PlainStruct(f.type) -> Reused(f.type.to, o[id])
                               [] OTHER -> FieldDefault(f)]

\* Fault: what the message did not reach is left.
EndedAsLeft(name, o, loc) == o
\* The message as _end leaves it.
RECURSIVE Ended(_, _, _)
Ended(name, o, loc) ==
    [id \in DOMAIN o |-> LET f == FieldAt(name, id)
                             here == Append(loc, id)
                         IN  CASE here \in stale -> f.dflt
                               [] here \in DOMAIN live -> SubSeq(o[id], 1, live[here])
                               [] PlainStruct(f.type) -> Ended(f.type.to, o[id], here)
                               [] OTHER -> o[id]]
Message == Ended(Root, obj, << >>)

-----------------------------------------------------------------------------
(* serialize                                                               *)

RECURSIVE IsDefault(_, _), Marshal(_, _, _, _), MarshalArray(_, _, _, _, _), Serialize(_, _, _)

FieldWrites(f, v) ==
    CASE f.type.kind = "ref" -> ~ IsDefault(f.type.to, v)
      [] f.type.kind = "list" -> v # << >>
      [] OTHER -> v # f.dflt
IsDefault(name, o) ==
    IF IsUnion(name) THEN o[1] = HeldFirst(name) /\ ~ FieldWrites(FieldAt(name, o[1]), o[2])
    ELSE \A id \in DOMAIN o : ~ FieldWrites(FieldAt(name, id), o[id])

Past(type, v) ==
    CASE type.kind \in Numbers -> Wide(type, v)
      [] type.kind \in Payloads -> type.max # None /\ Len(v) > type.max
      [] type.kind \in {"native", "list"} -> type.count # None /\ Len(v) > type.count
Guarded(w, type, v, tok) == IF Past(type, v) THEN Reject(w) ELSE Write(w, tok)

SeqEnd(w, keep) == IF keep THEN EndKeep(w) ELSE End(w)

\* Forced: the option a union holds in place of its default one.
Marshal(w, f, v, forced) ==
    CASE f.type.kind = "ref" -> SeqEnd(Serialize(BeginLazy(w, f.id), f.type.to, v), forced)
      [] f.type.kind = "list" -> MarshalArray(w, f.type, f.id, v, forced)
      [] f.type.kind \notin {"ref", "list"} /\ ~ forced /\ v = f.dflt -> w
      [] f.type.kind = "native" /\ (forced \/ v # f.dflt) -> MarshalArray(w, f.type, f.id, v, FALSE)
      [] f.type.kind \in Numbers /\ (forced \/ v # f.dflt) -> Guarded(w, f.type, v, Val(f.id, f.type.kind, v))
      [] f.type.kind \in Payloads /\ (forced \/ v # f.dflt) -> Guarded(w, f.type, v, Pay(f.id, f.type.kind, v))

Serialize(w, name, o) ==
    IF IsUnion(name) THEN Marshal(w, FieldAt(name, o[1]), o[2], o[1] # HeldFirst(name))
    ELSE FoldLeft(LAMBDA acc, f : Marshal(acc, f, o[f.id], FALSE), w, Fields(name))

LastElem(i, n) == i = n
MarshalElement(w, type, i, v, last) ==
    CASE type.kind = "ref" -> SeqEnd(Serialize(BeginLazy(w, i), type.to, v), last)
      [] type.kind = "list" -> MarshalArray(w, type, i, v, last)
      [] type.kind \in Payloads \cup {"native"} /\ v = << >> /\ ~ last -> w
      [] type.kind \in Payloads /\ (v # << >> \/ last) -> Guarded(w, type, v, Pay(i, type.kind, v))
      [] type.kind = "native" /\ (v # << >> \/ last) -> MarshalArray(w, type, i, v, FALSE)

MarshalArray(w, type, id, v, keep) ==
    CASE Past(type, v) -> Reject(w)
      [] ~ Past(type, v) /\ type.kind = "native" -> Write(w, Arr(id, type.elem.kind, v))
      [] ~ Past(type, v) /\ type.kind = "list" ->
            LET element(acc, i) == MarshalElement(acc, type.elem, i - 1, v[i], LastElem(i, Len(v)))
            IN  SeqEnd(FoldLeftDomain(element, BeginLazy(w, id), v), keep)

Encode(o) == Sent(Serialize(NewWriter, Root, o))

-----------------------------------------------------------------------------
(* The scopes of the visitor                                               *)

Inner(type, step) == IF type.kind = "list" THEN type.elem ELSE FieldAt(type.to, step).type
TypeAt(loc) == FoldLeft(Inner, RootType, loc)
Path(loc) == [i \in DOMAIN loc |-> IF loc[i] = Elem THEN ix[SubSeq(loc, 1, i - 1)] + 1 ELSE loc[i]]

\* What a path leads to, and a message with another value there (memberPath,
\* memberAcc): a union on it is passed through the option it holds.
RECURSIVE Get(_, _), Put(_, _, _, _)
Get(v, path) == IF path = << >> THEN v ELSE Get(v[Head(path)], Tail(path))
Put(type, v, path, new) ==
    CASE path = << >> -> new
      [] path # << >> /\ type.kind = "ref" /\ IsUnion(type.to) ->
            <<Head(path), Put(Inner(type, Head(path)), v[2], Tail(path), new)>>
      [] OTHER -> [v EXCEPT ![Head(path)] = Put(Inner(type, Head(path)), @, Tail(path), new)]
\* The steps of Get: the value of a union is its second part.
Steps(loc) ==
    [i \in DOMAIN loc |->
        LET type == TypeAt(SubSeq(loc, 1, i - 1))
        IN  IF type.kind = "ref" /\ IsUnion(type.to) THEN 2 ELSE Path(loc)[i]]
At(loc) == Get(obj, Steps(loc))
With(loc, v) == Put(RootType, obj, Path(loc), v)

Here == IF dead > 0 THEN Skipped ELSE TypeAt(cur)
InUnion == Here.kind = "ref" /\ IsUnion(Here.to)
Arm(id) ==
    CASE Here.kind = "list" -> Here.elem
      [] Here.kind = "ref" /\ id \in IdsOf(Here.to) -> FieldAt(Here.to, id).type
      [] OTHER -> Skipped
ArmOf(kinds, id) == IF Arm(id).kind \in kinds THEN Arm(id) ELSE Skipped
NativeArm(k, id) == IF Arm(id).kind = "native" /\ Arm(id).elem.kind = k THEN Arm(id) ELSE Skipped
Field(id) == Append(cur, id)

Stored(id, v) == With(cur, IF InUnion THEN <<id, v>> ELSE [At(cur) EXCEPT ![id] = v])

\* The collectors of the corelib: the bounds of an index, and room up to it, in
\* kept storage the elements of before reset one by one.
CheckIndex(id) == IF Here.kind = "list" THEN Exceeds(id + 1, Here.count, Caps.array) ELSE "fine"
Length == IF cur \in DOMAIN live THEN live[cur] ELSE Len(At(cur))
Room(id) ==
    LET list == At(cur)
    IN  [i \in 1 .. Max({id + 1, Len(list)}) |->
            CASE i <= Length \/ i > id + 1 -> list[i]
              [] Length < i /\ i <= id + 1 /\ i <= Len(list) -> Reset(Here.elem, list[i])
              [] Len(list) < i /\ i <= id + 1 -> Default(Here.elem)]
Placing(id, v) == With(cur, [Room(id) EXCEPT ![id + 1] = v])
Longer(id) == IF cur \in DOMAIN live THEN [live EXCEPT ![cur] = Max({id + 1, @})] ELSE live

-----------------------------------------------------------------------------
(* Its callbacks                                                           *)

\* unsigned, signed, fp32, fp64
Number(tok) ==
    /\ tok.t = "val"
    /\ Arrives(tok)
    /\ LET type == IF Here.kind = "ref" THEN ArmOf({tok.k}, tok.id) ELSE Skipped
           wide == type # Skipped /\ Wide(type, tok.got[1])
       IN  /\ verdict' = IF wide THEN "invalid" ELSE "fine"
           /\ obj' = IF type = Skipped \/ wide THEN obj ELSE Stored(tok.id, tok.got[1])
    /\ UNCHANGED <<schema, cur, dead, ix, stale, live>>

\* arrayBegin: kept storage of the same length, or a new array.
ArrayGuard(type, tok) ==
    IF type = Skipped THEN "fine" ELSE FirstBad(<<CheckIndex(tok.id), Exceeds(tok.n, type.count, Caps.array)>>)
Allocated(id, n) ==
    IF Here.kind = "ref" /\ Field(id) \in stale /\ Len(At(Field(id))) = n THEN At(Field(id)) ELSE [i \in 1 .. n |-> 0]
ArrayBegin(tok) ==
    /\ tok.t = "arr"
    /\ Arrives(tok)
    /\ LET type == NativeArm(tok.k, tok.id)
           fills == type # Skipped /\ ArrayGuard(type, tok) = "fine"
           row == Here.kind = "list"
       IN  /\ verdict' = ArrayGuard(type, tok)
           /\ obj' = CASE ~ fills -> obj
                       [] fills /\ row -> Placing(tok.id, Allocated(tok.id, tok.n))
                       [] fills /\ ~ row -> Stored(tok.id, Allocated(tok.id, tok.n))
           /\ stale' = IF fills /\ ~ row THEN stale \ {Field(tok.id)} ELSE stale
           /\ live' = IF fills /\ row THEN Longer(tok.id) ELSE live
           /\ ix' = IF fills /\ row THEN (cur :> tok.id) @@ ix ELSE ix
    /\ UNCHANGED <<schema, cur, dead>>

\* arrayBulk: the decoder fills the array itself, within the bounds it is given.
Filling == Append(cur, IF Here.kind = "list" THEN Elem ELSE Tip.id)
ArrayElement(v) ==
    /\ ElementArrives(v)
    /\ LET type == NativeArm(Tip.k, Tip.id)
           wide == type # Skipped /\ Wide(type.elem, v)
       IN  /\ verdict' = IF wide THEN "invalid" ELSE "fine"
           /\ obj' = IF type = Skipped \/ wide THEN obj
                     ELSE With(Filling, [At(Filling) EXCEPT ![Len(Tip.got) + 1] = v])
    /\ UNCHANGED <<schema, cur, dead, ix, stale, live>>

\* string, blob, and element of a collector: nothing before the payload is
\* whole.  A blob is copied over the kept one.
Payload(type, tok) ==
    LET bad == IF tok.k = "str" /\ ~ Text(tok.got) THEN "invalid" ELSE "fine"
        stores == type # Skipped /\ Whole(tok) /\ bad = "fine"
        element == Here.kind = "list"
    IN  /\ verdict' = IF type # Skipped /\ Whole(tok) THEN bad ELSE "fine"
        /\ obj' = CASE ~ stores -> obj
                    [] stores /\ element -> Placing(tok.id, tok.got)
                    [] stores /\ ~ element -> Stored(tok.id, tok.got)
        /\ stale' = IF stores /\ ~ element THEN stale \ {Field(tok.id)} ELSE stale
        /\ live' = IF stores /\ element THEN Longer(tok.id) ELSE live

\* fixlenBegin, and begin of a collector
LengthGuard(type, tok) ==
    IF type = Skipped THEN "fine" ELSE FirstBad(<<CheckIndex(tok.id), Exceeds(tok.n, type.max, Caps[tok.k])>>)
FixlenBegin(tok) ==
    /\ tok.t = "pay"
    /\ Arrives(tok)
    /\ LET type == ArmOf({tok.k}, tok.id)
       IN  IF LengthGuard(type, tok) = "fine" THEN Payload(type, tok)
           ELSE verdict' = LengthGuard(type, tok) /\ UNCHANGED <<obj, stale, live>>
    /\ UNCHANGED <<schema, cur, dead, ix>>

Piece(bytes) ==
    /\ PieceArrives(bytes)
    /\ Payload(ArmOf({Tip.k}, Tip.id), [Tip EXCEPT !.got = @ \o bytes])
    /\ UNCHANGED <<schema, cur, dead, ix>>

\* sequenceBegin: a list starts anew, over its kept storage the first time; a
\* struct goes on, in a union the option selected.
EnterField(type, id) ==
    /\ Here.kind = "ref" /\ type # Skipped
    /\ cur' = Field(id)
    /\ LET list == type.kind = "list"
           rearms == list /\ Field(id) \in stale
           others == [l \in DOMAIN live \ {Field(id)} |-> live[l]]
       IN  /\ obj' = CASE rearms -> obj
                       [] list /\ ~ rearms -> Stored(id, << >>)
                       [] ~ list -> IF InUnion THEN With(cur, Mutable(Here.to, At(cur), id)) ELSE obj
           /\ live' = CASE rearms -> (Field(id) :> 0) @@ live
                        [] list /\ ~ rearms -> others
                        [] ~ list -> live
           /\ stale' = stale \ {Field(id)}
    /\ UNCHANGED <<dead, ix, verdict>>

EnterElement(type, id) ==
    /\ Here.kind = "list" /\ type # Skipped
    /\ verdict' = CheckIndex(id)
    /\ IF CheckIndex(id) # "fine" THEN UNCHANGED <<cur, obj, ix, live>>
       ELSE /\ cur' = Append(cur, Elem)
            /\ ix' = (cur :> id) @@ ix
            /\ obj' = IF type.kind = "list" THEN Placing(id, << >>) ELSE With(cur, Room(id))
            /\ live' = Longer(id)
    /\ UNCHANGED <<dead, stale>>

Declined(type) == type = Skipped /\ dead' = dead + 1 /\ UNCHANGED <<cur, obj, ix, stale, live, verdict>>

SequenceBegin(tok) ==
    /\ tok.t = "open"
    /\ Arrives(tok)
    /\ LET type == ArmOf({"ref", "list"}, tok.id)
       IN  EnterField(type, tok.id) \/ EnterElement(type, tok.id) \/ Declined(type)
    /\ UNCHANGED schema

SequenceEnd ==
    /\ Ends
    /\ IF dead > 0 THEN dead' = dead - 1 /\ UNCHANGED cur ELSE cur' = Front(cur) /\ UNCHANGED dead
    /\ UNCHANGED <<schema, obj, ix, stale, live, verdict>>

-----------------------------------------------------------------------------
NewVisitor == wire' = << >> /\ cur' = << >> /\ dead' = 0 /\ ix' = << >> /\ live' = << >>

Init ==
    /\ schema \in Schemas
    /\ wire = << >>
    /\ obj = Default(RootType)
    /\ cur = << >> /\ dead = 0 /\ ix = << >> /\ stale = {} /\ live = << >>
    /\ verdict = "fine"

Decoding ==
    /\ verdict = "fine"
    /\ \/ \E tok \in schema.heads : Number(tok) \/ FixlenBegin(tok) \/ ArrayBegin(tok) \/ SequenceBegin(tok)
       \/ \E v \in schema.numbers : ArrayElement(v)
       \/ \E bytes \in schema.pieces : Piece(bytes)
       \/ SequenceEnd

\* User code gives a message a value.
Edit(new) ==
    /\ verdict = "fine" => ~ Pending
    /\ obj' = new
    /\ verdict' = "edited"
    /\ NewVisitor
    /\ stale' = {}
    /\ UNCHANGED schema

\* tryDecode into a message that has been used.  What an earlier one left in it
\* is a value too (a bound of the run).
TryDecode ==
    /\ verdict = "edited" /\ obj \in schema.used
    /\ obj' = Reused(Root, obj)
    /\ stale' = KeptBelow(Root, << >>)
    /\ verdict' = "fine"
    /\ NewVisitor
    /\ UNCHANGED schema

Next == Decoding \/ TryDecode \/ (\E new \in schema.values \cup schema.wide : Edit(new))

Spec == Init /\ [][Next]_vars

-----------------------------------------------------------------------------
(* At every field boundary the message, as _end would leave it, holds what *)
(* the fields so far mean, whatever storage it is decoded into, and feed   *)
(* has thrown exactly where MESSAGE_SPEC says: the comments of tryDecode   *)
(* ("a field the bytes omit reads its default, never the value out held    *)
(* before").  What serialize writes of any message reads back as it, with  *)
(* every sequence closed and nothing in it that could be left out; it      *)
(* throws for a value past its bounds only, and isDefault is true iff      *)
(* "serialize would write no child at all".                                *)
SpeaksTheFormat ==
    /\ verdict # "edited" =>
          LET m == Meaning(wire)
          IN  /\ verdict = m.bad
              /\ verdict = "fine" /\ ~ Pending => Message = m.val
    /\ verdict = "edited" \/ (verdict = "fine" /\ ~ Pending) =>
          /\ Encodes(Message, Encode(Message))
          /\ IsDefault(Root, Message) <=> Encode(Message) = << >>

=============================================================================
