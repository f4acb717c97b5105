-------------------------------- MODULE Wire --------------------------------
(***************************************************************************)
(* What generated code and a corelib say to each other.  The corelibs and  *)
(* MESSAGE_SPEC live in other repositories; this module holds what the     *)
(* code the backends emit takes for granted about them: the fields of a    *)
(* message as a decoder delivers them, the calls an encoder offers, and    *)
(* what a sequence of fields means for a schema.  The modules of the       *)
(* backends extend it; docs/ARCHITECTURE.md sections 9 and 11 state the    *)
(* meaning, quoting MESSAGE_SPEC.                                          *)
(*                                                                         *)
(* A type is a record with a kind: "u", "i", "f4", "f8" (values 0 .. max   *)
(* where max is a number), "str", "blob" (at most max bytes), "native"     *)
(* (an array of numbers: elem, count), "list" (any other array: elem,      *)
(* count) and "ref" (to: a struct or a union).  A named type has fields    *)
(* and, for a union, the id of the option a fresh one holds.               *)
(*                                                                         *)
(* A struct is a function from ids, an array a sequence, a union a pair of *)
(* an id and the value of that option.                                     *)
(***************************************************************************)
EXTENDS Integers, Sequences, SequencesExt, FiniteSetsExt

CONSTANTS
    None,    \* no max, no count, no cap
    Schemas, \* records: the types of a message by name, its root, what peers send and users set, how many fields and the first of them
    Caps     \* the receiver's max_dyn_* caps: array, str, blob

VARIABLES
    schema, \* one of Schemas
    wire    \* what has arrived of the message: its fields, the last one perhaps in part

-----------------------------------------------------------------------------
(* Fields.  "open" and "close" are the ends of a sequence; a "val" is a    *)
(* number, a "pay" a string or blob of n bytes, an "arr" an array of n     *)
(* numbers; got is what has arrived of it.                                 *)

Token(t, id, k, n, got) == [t |-> t, id |-> id, k |-> k, n |-> n, got |-> got]
Open(id) == Token("open", id, "seq", 0, << >>)
Close == Token("close", 0, "seq", 0, << >>)
Val(id, k, v) == Token("val", id, k, 1, <<v>>)
Pay(id, k, bytes) == Token("pay", id, k, Len(bytes), bytes)
Arr(id, k, values) == Token("arr", id, k, Len(values), values)

Numbers == {"u", "i", "f4", "f8"}
Payloads == {"str", "blob"}

\* A byte no UTF-8 text has.
BadByte == 9
Text(bytes) == BadByte \notin Range(bytes)

Tip == wire[Len(wire)]
Whole(tok) == tok.t \in {"pay", "arr"} => Len(tok.got) = tok.n
Pending == wire # << >> /\ ~ Whole(Tip)
OpenSequences(w) ==
    Cardinality({i \in DOMAIN w : w[i].t = "open"}) - Cardinality({i \in DOMAIN w : w[i].t = "close"})

\* The decoder's next callback: the header of a field, a piece of a payload, an
\* element of an array, the end of a sequence.
Arrives(tok) ==
    /\ ~ Pending
    /\ Len(wire) < schema.length
    /\ wire = << >> => tok \in schema.first
    /\ wire' = Append(wire, tok)
Ends == ~ Pending /\ OpenSequences(wire) > 0 /\ wire' = Append(wire, Close)
Grown(more) == [wire EXCEPT ![Len(wire)].got = @ \o more]
PieceArrives(bytes) ==
    /\ Pending /\ Tip.t = "pay" /\ bytes # << >> /\ Len(Tip.got) + Len(bytes) <= Tip.n
    /\ wire' = Grown(bytes)
ElementArrives(v) == Pending /\ Tip.t = "arr" /\ wire' = Grown(<<v>>)

-----------------------------------------------------------------------------
(* Schemas                                                                 *)

Root == schema.root
Types == schema.types

Skipped == [kind |-> "skip"]
Fields(name) == Types[name].fields
IdsOf(name) == {Fields(name)[i].id : i \in DOMAIN Fields(name)}
FieldAt(name, id) == Fields(name)[CHOOSE i \in DOMAIN Fields(name) : Fields(name)[i].id = id]
IsUnion(name) == Types[name].cat = "union"
HeldFirst(name) == Types[name].held

\* A fresh value: what an absent field reads as.
RECURSIVE Fresh(_)
FreshField(f) == IF f.type.kind = "ref" THEN Fresh(f.type) ELSE f.dflt
Fresh(type) ==
    CASE type.kind \in Numbers -> 0
      [] type.kind \in Payloads \cup {"native", "list", "skip"} -> << >>
      [] type.kind = "ref" /\ IsUnion(type.to) ->
            <<HeldFirst(type.to), FreshField(FieldAt(type.to, HeldFirst(type.to)))>>
      [] type.kind = "ref" /\ ~ IsUnion(type.to) ->
            [id \in IdsOf(type.to) |-> FreshField(FieldAt(type.to, id))]
RootType == [kind |-> "ref", to |-> Root]

\* The wire kind of a type, which a field's header must have to be its value.
Gate(type, tok) ==
    CASE type.kind \in Numbers -> tok.t = "val" /\ tok.k = type.kind
      [] type.kind \in Payloads -> tok.t = "pay" /\ tok.k = type.kind
      [] type.kind = "native" -> tok.t = "arr" /\ tok.k = type.elem.kind
      [] type.kind \in {"list", "ref"} -> tok.t = "open"
      [] type.kind = "skip" -> FALSE

-----------------------------------------------------------------------------
(* What a message means: the value it gives the root, and the verdict.     *)

\* The type a field has in a scope; Skipped when it has none.
TypeIn(scope, tok) ==
    LET type == CASE scope.kind = "list" -> scope.elem
                  [] scope.kind = "ref" /\ tok.id \in IdsOf(scope.to) -> FieldAt(scope.to, tok.id).type
                  [] OTHER -> Skipped
    IN  IF Gate(type, tok) THEN type ELSE Skipped

Exceeds(n, own, cap) ==
    CASE own # None /\ n > own -> "invalid"
      [] own = None /\ cap # None /\ n > cap -> "limit"
      [] OTHER -> "fine"

FirstBad(verdicts) ==
    IF \A i \in DOMAIN verdicts : verdicts[i] = "fine" THEN "fine"
    ELSE verdicts[Min({i \in DOMAIN verdicts : verdicts[i] # "fine"})]

Wide(type, v) == type.max # None /\ v > type.max

\* A field is judged by its header first, then by its content as it arrives.
JudgeUnder(caps, scope, type, tok) ==
    IF type = Skipped THEN "fine"
    ELSE FirstBad(<<
        IF scope.kind = "list" THEN Exceeds(tok.id + 1, scope.count, caps.array) ELSE "fine",
        CASE type.kind \in Payloads -> Exceeds(tok.n, type.max, caps[type.kind])
          [] type.kind = "native" -> Exceeds(tok.n, type.count, caps.array)
          [] OTHER -> "fine",
        CASE type.kind \in Numbers /\ Wide(type, tok.got[1]) -> "invalid"
          [] type.kind = "native" /\ (\E v \in Range(tok.got) : Wide(type.elem, v)) -> "invalid"
          [] type.kind = "str" /\ Whole(tok) /\ ~ Text(tok.got) -> "invalid"
          [] OTHER -> "fine">>)
Judge(scope, type, tok) == JudgeUnder(Caps, scope, type, tok)

\* The value a scope has for an id before this occurrence of it.
Before(scope, acc, type, id) ==
    CASE scope.kind = "list" -> IF id < Len(acc) THEN acc[id + 1] ELSE Fresh(type)
      [] scope.kind = "ref" /\ IsUnion(scope.to) ->
            IF acc[1] = id THEN acc[2] ELSE FreshField(FieldAt(scope.to, id))
      [] scope.kind = "ref" /\ ~ IsUnion(scope.to) -> acc[id]

Padded(list, n, elem) ==
    [i \in 1 .. Max({n, Len(list)}) |-> IF i <= Len(list) THEN list[i] ELSE Fresh(elem)]

Placed(scope, acc, id, v) ==
    CASE scope.kind = "list" ->
            [Padded(acc, id + 1, scope.elem) EXCEPT ![id + 1] = v]
      [] scope.kind = "ref" /\ IsUnion(scope.to) -> <<id, v>>
      [] scope.kind = "ref" /\ ~ IsUnion(scope.to) -> [acc EXCEPT ![id] = v]

Reading(val, left, bad) == [val |-> val, left |-> left, bad |-> bad]

\* Reads the fields of one scope up to its end, in order: a struct continues
\* what it holds, an array starts anew, the last occurrence of a field counts.
RECURSIVE Read(_, _, _, _)
Read(caps, scope, acc, w) ==
    IF w = << >> \/ Head(w).t = "close" THEN Reading(acc, IF w = << >> THEN w ELSE Tail(w), "fine")
    ELSE
      LET tok == Head(w)
          type == TypeIn(scope, tok)
          bad == JudgeUnder(caps, scope, type, tok)
          inner == Read(caps, type, IF type.kind = "ref" THEN Before(scope, acc, type, tok.id) ELSE << >>, Tail(w))
      IN  CASE bad # "fine" -> Reading(acc, << >>, bad)
            [] bad = "fine" /\ tok.t = "open" ->
                  LET then == IF type = Skipped THEN acc ELSE Placed(scope, acc, tok.id, inner.val)
                  IN  IF inner.bad # "fine" THEN Reading(then, << >>, inner.bad)
                      ELSE Read(caps, scope, then, inner.left)
            [] bad = "fine" /\ tok.t # "open" ->
                  Read(caps, scope,
                       IF type = Skipped \/ ~ Whole(tok) THEN acc
                       ELSE Placed(scope, acc, tok.id, IF tok.t = "val" THEN tok.got[1] ELSE tok.got),
                       Tail(w))

Meaning(w) == Read(Caps, RootType, Fresh(RootType), w)

\* The value a message has for a receiver without caps of its own.
NoCaps == [k \in DOMAIN Caps |-> None]
ValueOf(w) == Read(NoCaps, RootType, Fresh(RootType), w).val

-----------------------------------------------------------------------------
(* The calls of an encoder.  A sequence is opened lazily: its header is    *)
(* held back until something is written in it; End drops one that holds    *)
(* nothing, EndKeep writes it empty.  Once an argument is rejected nothing *)
(* more is written.                                                        *)

NewWriter == [out |-> << >>, held |-> << >>, open |-> 0, rejected |-> FALSE]

Flushed(w) == [w EXCEPT !.out = @ \o [i \in DOMAIN w.held |-> Open(w.held[i])],
                        !.open = @ + Len(w.held), !.held = << >>]
Write(w, tok) == IF w.rejected THEN w ELSE [Flushed(w) EXCEPT !.out = Append(@, tok)]
BeginLazy(w, id) == IF w.rejected THEN w ELSE [w EXCEPT !.held = Append(@, id)]
Shut(w) == [w EXCEPT !.out = Append(@, Close), !.open = @ - 1]
End(w) ==
    CASE w.rejected -> w
      [] ~ w.rejected /\ w.held # << >> -> [w EXCEPT !.held = Front(@)]
      [] ~ w.rejected /\ w.held = << >> -> Shut(w)
EndKeep(w) == IF w.rejected THEN w ELSE Shut(Flushed(w))
Reject(w) == [w EXCEPT !.rejected = TRUE]

\* A written message, and the message without its ith field or sequence.
Refused == <<Token("refused", 0, "seq", 0, << >>)>>
Sent(w) == IF w.rejected THEN Refused ELSE w.out
Closing(w, i) == Min({j \in i .. Len(w) : OpenSequences(SubSeq(w, i, j)) = 0})
Without(w, i) ==
    SubSeq(w, 1, i - 1) \o SubSeq(w, (IF w[i].t = "open" THEN Closing(w, i) ELSE i) + 1, Len(w))

\* Whether a value is within every bound its schema declares.
RECURSIVE Within(_, _)
Within(type, v) ==
    CASE type.kind \in Numbers -> ~ Wide(type, v)
      [] type.kind \in Payloads -> type.max # None => Len(v) <= type.max
      [] type.kind = "native" -> type.count # None => Len(v) <= type.count
      [] type.kind = "list" -> (type.count # None => Len(v) <= type.count) /\ \A e \in Range(v) : Within(type.elem, e)
      [] type.kind = "ref" /\ IsUnion(type.to) -> Within(FieldAt(type.to, v[1]).type, v[2])
      [] type.kind = "ref" /\ ~ IsUnion(type.to) -> \A id \in DOMAIN v : Within(FieldAt(type.to, id).type, v[id])

\* What an encoder promises of the message it writes for a value: it reads back
\* as that value, nothing in it can be left out, and only a value outside its
\* bounds is refused.
Encodes(v, message) ==
    IF message = Refused THEN ~ Within(RootType, v)
    ELSE /\ Within(RootType, v)
         /\ OpenSequences(message) = 0
         /\ ValueOf(message) = v
         /\ \A i \in DOMAIN message : message[i].t # "close" => ValueOf(Without(message, i)) # v

=============================================================================
