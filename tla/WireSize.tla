------------------------------ MODULE WireSize ------------------------------
(***************************************************************************)
(* The worst case of a message on the wire: the walk of                    *)
(* internal/ir/wiresize.go, in its two modes, and the size policy of       *)
(* internal/generator/maxsize.go that a backend asks for MAX_SIZE.         *)
(*                                                                         *)
(* What MAX_SIZE promises is stated against the encoder itself: Largest    *)
(* is what generated code writes when every field is present and full,     *)
(* FullField what a conformant peer may send of one field.                 *)
(*                                                                         *)
(* A type is a list of array counts, the innermost first, around a varint  *)
(* of some width, a fixed payload, a string or a blob, or a reference to a *)
(* named struct or union.                                                  *)
(***************************************************************************)
EXTENDS Integers, Sequences, SequencesExt, FiniteSetsExt

CONSTANTS
    None,      \* no maxlen, no count, no cap
    Unbounded, \* there is no worst case
    Width,     \* the values of an int64, an even number: 2^64 in the code
    Default,   \* DefaultMaxMessageSize
    SizedSchemas,   \* payloads and the named types they use
    Policies   \* max_message_size, positive or None, and the receiver's max_dyn_* caps

SizedFields(types) ==
    LET leaves == [kind : {"varint", "fixed"}, width : Nat]
                  \cup [kind : {"string", "blob"}, max : Nat \cup {None}]
                  \cup [kind : {"ref"}, to : DOMAIN types]
    IN  [id : Nat, type : [counts : Seq((Nat \ {0}) \cup {None}), leaf : leaves]]

\* Every reference has its target, as the resolver leaves it.
SizesFit ==
    /\ Width \in Nat \ {0} /\ Width % 2 = 0
    /\ None \notin Nat /\ Unbounded \notin Int
    /\ \A s \in SizedSchemas :
          /\ IsFiniteSet(DOMAIN s.types)
          /\ s.payload \in Seq(SizedFields(s.types))
          /\ \A name \in DOMAIN s.types : s.types[name].fields \in Seq(SizedFields(s.types))
    /\ \A p \in Policies : p.caps \in [{"array", "string", "blob"} -> Nat \cup {None}]

VARIABLES
    message,   \* the payload of a message and the named types
    policy,   \* the configuration
    outcome,  \* what SizePolicy.Resolve returned
    spans     \* the decode span of each field

sizeVars == <<message, policy, outcome, spans>>

Pending == [verdict |-> "pending"]

-----------------------------------------------------------------------------
\* int64: sums and products are those of the integers, wrapped; so they are
\* taken as integers and wrapped where the code compares or returns them.
Half == Width \div 2
Wrap(n) == ((n + Half) % Width) - Half
Int64(n) == IF n = Unbounded THEN Unbounded ELSE Wrap(n)
Larger(a, b) == IF Wrap(a) < Wrap(b) THEN b ELSE a

\* A missing worst case poisons whatever contains it.
Plus(a, b) == IF Unbounded \in {a, b} THEN Unbounded ELSE a + b
Times(n, a) == IF a = Unbounded THEN Unbounded ELSE n * a

VarintLen[n \in Nat] == IF n < 128 THEN 1 ELSE 1 + VarintLen[n \div 128]

\* (id << 3) | wiretype, and (len << 3) | subtype.
Header(id) == VarintLen[8 * id + 7]
FixlenWord(n) == VarintLen[8 * n]

\* A mode is whether it is a decode, and the caps; encoding has none.
NoCaps == [cap \in {"array", "string", "blob"} |-> None]
Encoding == [decode |-> FALSE, caps |-> NoCaps]
Decoding(caps) == [decode |-> TRUE, caps |-> caps]

Varint(leaf, m) == IF m.decode THEN 10 ELSE leaf.width
Bound(own, cap) == IF own # None THEN own ELSE cap

Payload(leaf, m) ==
    LET n == Bound(leaf.max, m.caps[leaf.kind])
    IN  IF n = None THEN Unbounded ELSE FixlenWord(n) + n

\* In what follows inner is what structWireMax returns of a name, given the
\* names on the path to it.
LeafMax(inner, leaf, path, m) ==
    CASE leaf.kind = "varint" -> Varint(leaf, m)
      [] leaf.kind = "fixed" -> 1 + leaf.width
      [] leaf.kind \in {"string", "blob"} -> Payload(leaf, m)
      [] leaf.kind = "ref" -> Plus(inner[<<leaf.to, path>>], 1)

Native(leaf) == leaf.kind \in {"varint", "fixed"}

\* Elements headed by their index; every one is charged the widest header.
WrapperMax(count, elem) == Plus(Times(count, Plus(Header(count), elem)), 1)

\* A native array is count-prefixed, one of floats with one fixlen word.
NativeMaxWordless(count, leaf, m) ==
    VarintLen[count] + count * (IF leaf.kind = "fixed" THEN leaf.width ELSE Varint(leaf, m))

NativeMax(count, leaf, m) ==
    VarintLen[count] + IF leaf.kind = "fixed" THEN 1 + count * leaf.width ELSE count * Varint(leaf, m)

\* Fault: without a count a native array has no elements.
ArrayWireMaxCountless(type, k, m, elem) ==
    LET count == Bound(type.counts[k], m.caps.array)
    IN  CASE count = None -> IF k = 1 /\ Native(type.leaf) THEN 1 ELSE Unbounded
          [] count # None /\ k = 1 /\ Native(type.leaf) -> NativeMax(count, type.leaf, m)
          [] OTHER -> WrapperMax(count, elem)

\* The array of level k, given what one of its elements costs.
ArrayWireMax(type, k, m, elem) ==
    LET count == Bound(type.counts[k], m.caps.array)
    IN  CASE count = None -> Unbounded
          [] count # None /\ k = 1 /\ Native(type.leaf) -> NativeMax(count, type.leaf, m)
          [] OTHER -> WrapperMax(count, elem)

TypeMax(type, m, leafMax) ==
    LET levels[k \in 0 .. Len(type.counts)] ==
            IF k = 0 THEN leafMax ELSE ArrayWireMax(type, k, m, levels[k - 1])
    IN  levels[Len(type.counts)]

\* Header and terminator included.
FieldMax(inner, f, path, m) == Plus(Header(f.id), TypeMax(f.type, m, LeafMax(inner, f.type.leaf, path, m)))

\* The sum of the costs, or the largest of them.
Tally(costs, largest) ==
    LET inner[k \in 0 .. Len(costs)] ==
            IF k = 0 THEN 0
            ELSE IF largest THEN Larger(inner[k - 1], costs[k]) ELSE inner[k - 1] + costs[k]
    IN  inner[Len(costs)]

Costs(inner, fields, path, m) == [i \in DOMAIN fields |-> FieldMax(inner, fields[i], path, m)]
Join(costs, largest) == IF Unbounded \in Range(costs) THEN Unbounded ELSE Tally(costs, largest)

\* A call is of a name, with the names it is inside of.
SizeCalls(types) == (DOMAIN types) \X (SUBSET DOMAIN types)

\* A struct is the sum of its fields, a union its largest option - but the sum
\* of them when decoding.  A type on its own path has no worst case.
StructWireMax(types, m) ==
    LET inner[call \in SizeCalls(types)] ==
            LET type == types[call[1]]
            IN  IF call[1] \in call[2] THEN Unbounded
                ELSE Join(Costs(inner, type.fields, call[2] \cup {call[1]}, m), type.cat = "union" /\ ~ m.decode)
    IN  inner

FieldSize(types, f, m) == FieldMax(StructWireMax(types, m), f, {}, m)

MessageSize(s) == Join(Costs(StructWireMax(s.types, Encoding), s.payload, {}, Encoding), FALSE)

MaxWireSize(s) == Int64(MessageSize(s))
MaxFieldDecodeSpan(types, f, caps) == Int64(FieldSize(types, f, Decoding(caps)))

-----------------------------------------------------------------------------
SizeInit ==
    /\ message \in SizedSchemas
    /\ policy \in Policies
    /\ outcome = Pending
    /\ spans = << >>

\* Only a configured limit is an assertion about the schema.
Verdict(limit, size) ==
    CASE size = Unbounded ->
            [verdict |-> "ceiling", size |-> IF limit = None THEN Default ELSE limit]
      [] size # Unbounded /\ limit # None /\ size > limit -> [verdict |-> "refused"]
      [] OTHER -> [verdict |-> "exact", size |-> size]

Resolve ==
    /\ outcome = Pending
    /\ outcome' = Verdict(policy.limit, MaxWireSize(message))
    /\ UNCHANGED <<message, policy, spans>>

\* A decode window is sized with the caps of this peer.
Span ==
    /\ outcome # Pending
    /\ spans = << >>
    /\ spans' = [i \in DOMAIN message.payload |->
                    MaxFieldDecodeSpan(message.types, message.payload[i], policy.caps)]
    /\ UNCHANGED <<message, policy, outcome>>

SizeNext == Resolve \/ Span

SizeSpec == SizeInit /\ [][SizeNext]_sizeVars

-----------------------------------------------------------------------------
(* What the wire carries: MESSAGE_SPEC, as generated code writes it.       *)

\* The bytes of a full value, element by element.  Every varint of a received
\* one may be padded; which of them are padded is pad: none, the values, all.
\* What has no bound is empty and a type within itself is left out: where there
\* is one of these, no size is promised.
Lead(n, pad) == IF pad = "all" THEN 10 ELSE n
Filled(own, cap) == IF Bound(own, cap) = None THEN 0 ELSE Bound(own, cap)
Padded(leaf, pad) == IF pad = "none" THEN leaf.width ELSE 10

\* The headers of elements 0 .. n - 1.
IndexHeaders(n, pad) ==
    LET headers[k \in 0 .. n] == IF k = 0 THEN 0 ELSE headers[k - 1] + Lead(Header(k - 1), pad)
    IN  headers[n]

FullLeaf(full, leaf, path, pad, caps) ==
    CASE leaf.kind = "varint" -> Padded(leaf, pad)
      [] leaf.kind = "fixed" -> Lead(1, pad) + leaf.width
      [] leaf.kind \in {"string", "blob"} ->
            LET n == Filled(leaf.max, caps[leaf.kind]) IN Lead(FixlenWord(n), pad) + n
      [] leaf.kind = "ref" -> full[<<leaf.to, path>>] + 1

FullArray(type, k, pad, caps, elem) ==
    LET n == Filled(type.counts[k], caps.array)
        leaf == type.leaf
    IN  CASE k = 1 /\ leaf.kind = "varint" -> Lead(VarintLen[n], pad) + n * Padded(leaf, pad)
          [] k = 1 /\ leaf.kind = "fixed" -> Lead(VarintLen[n], pad) + Lead(1, pad) + n * leaf.width
          [] OTHER -> IndexHeaders(n, pad) + n * elem + 1

FullType(type, pad, caps, leaf) ==
    LET levels[k \in 0 .. Len(type.counts)] ==
            IF k = 0 THEN leaf ELSE FullArray(type, k, pad, caps, levels[k - 1])
    IN  levels[Len(type.counts)]

FullMember(full, f, path, pad, caps) ==
    Lead(Header(f.id), pad) + FullType(f.type, pad, caps, FullLeaf(full, f.type.leaf, path, pad, caps))

FullFields(full, fields, path, pad, caps) == [i \in DOMAIN fields |-> FullMember(full, fields[i], path, pad, caps)]

\* One option of a union is written; a peer may still send each of them once.
Full(types, pad, caps) ==
    LET full[call \in SizeCalls(types)] ==
            LET type == types[call[1]]
                members == FullFields(full, type.fields, call[2] \cup {call[1]}, pad, caps)
            IN  CASE call[1] \in call[2] -> 0
                  [] call[1] \notin call[2] /\ type.cat = "union" /\ pad = "none" -> Max({0} \cup Range(members))
                  [] OTHER -> Tally(members, FALSE)
    IN  full

FullField(types, f, pad, caps) == FullMember(Full(types, pad, caps), f, {}, pad, caps)
Largest(s) == Tally(FullFields(Full(s.types, "none", NoCaps), s.payload, {}, "none", NoCaps), FALSE)

-----------------------------------------------------------------------------
(* Properties.                                                             *)
Sized == outcome # Pending

Bare(type) == None \in Range(type.counts) \/ (type.leaf.kind \in {"string", "blob"} /\ type.leaf.max = None)
Targets(fields) == {fields[i].type.leaf.to : i \in {j \in DOMAIN fields : fields[j].type.leaf.kind = "ref"}}

\* The types a payload is made of: any set with the ones it names and the ones
\* those name holds them.
Reached(s) ==
    {name \in DOMAIN s.types :
        \A S \in SUBSET DOMAIN s.types :
            Targets(s.payload) \subseteq S /\ (\A n \in S : Targets(s.types[n].fields) \subseteq S) => name \in S}

\* No reachable field lacks a bound, and no reachable types contain one another.
HasWorstCase(s) ==
    /\ \A f \in Range(s.payload) : ~ Bare(f.type)
    /\ \A name \in Reached(s) : \A f \in Range(s.types[name].fields) : ~ Bare(f.type)
    /\ \A C \in SUBSET Reached(s) : C # {} => \E name \in C : Targets(s.types[name].fields) \cap C = {}

\* No wrapper array long enough for a header of two bytes.
Short(type) == \A k \in DOMAIN type.counts :
                  (k = 1 /\ type.leaf.kind \in {"varint", "fixed"}) \/ type.counts[k] \in 1 .. 15
ShortArrays(s) == \A f \in Range(s.payload) \cup UNION {Range(s.types[n].fields) : n \in DOMAIN s.types} : Short(f.type)

\* No size reached leaves the range of an int64.
Fits(s, caps) ==
    LET below(size) == size # Unbounded => size < Half
    IN  /\ below(MessageSize(s))
        /\ \A name \in Reached(s), path \in SUBSET DOMAIN s.types :
              \A f \in Range(s.types[name].fields) :
                 below(FieldMax(StructWireMax(s.types, Encoding), f, path, Encoding))
        /\ \A f \in Range(s.payload) : below(FieldSize(s.types, f, Decoding(caps)))

\* maxsize.go: a derived size is one the message can never exceed - the encode
\* buffer generated code allocates with MAX_SIZE holds every value - and it is
\* reached where no array needs an index of two bytes.
NeverExceeded ==
    outcome.verdict = "exact" =>
        /\ Largest(message) <= outcome.size
        /\ ShortArrays(message) => Largest(message) = outcome.size

\* One unbounded option or field anywhere, or a type that contains itself,
\* leaves no worst case, and the receiver's caps do not make one up.
CeilingWithout == outcome.verdict = "ceiling" <=> ~ HasWorstCase(message)

\* A window of the decode span of a field holds it as any peer sends it that
\* pads its values and writes every option of a union once, within the caps.
SpansHold ==
    \A i \in DOMAIN spans :
        spans[i] # Unbounded => FullField(message.types, message.payload[i], "values", policy.caps) <= spans[i]

\* A size is derived exactly if the schema has a worst case, and a decode span
\* holds what it is of (wiresize.go, "bounded" and MaxFieldDecodeSpan).
BoundedWhenItIs == Sized => CeilingWithout /\ SpansHold

\* MaxFieldDecodeSpan's comment: every varint is charged its widest form, so a
\* window of the span holds a field whose varints are all padded.
SpanHoldsPaddedVarints ==
    \A i \in DOMAIN spans :
        spans[i] # Unbounded => FullField(message.types, message.payload[i], "all", policy.caps) <= spans[i]

=============================================================================
