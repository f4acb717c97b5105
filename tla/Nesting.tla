------------------------------ MODULE Nesting -------------------------------
(***************************************************************************)
(* How deep a message nests: the expansion of local references (Resolver), *)
(* which refuses a circular one, and the count of nested sequences         *)
(* (internal/ir/seqdepth.go) that the analyzer caps at the wire's          *)
(* MAX_DEPTH.  The second is a recursion with no bound of its own: it ends *)
(* with an answer because the first accepted the document.                 *)
(*                                                                         *)
(* The body of a name is a sequence of field types.  A type is a number of *)
(* array levels (the chain of ElemItems) around a scalar, a text or blob,  *)
(* or a struct or union; only the last refers to a name.                   *)
(***************************************************************************)
EXTENDS Resolver, Integers, FiniteSetsExt

CONSTANTS
    RefNames,     \* what a reference may name
    MessageNames, \* the names that are messages
    MaxDepth      \* ir.MaxSeqDepth: 255 in the code

Types == [rows : Nat, kind : {"scalar", "text"}] \cup [rows : Nat, kind : {"struct"}, to : RefNames]

RefsIn(d, name) == {d[name][i].to : i \in {j \in DOMAIN d[name] : d[name][j].kind = "struct"}}

ASSUME NestingAssumption ==
    /\ MaxDepth \in Nat
    /\ \A d \in Graphs :
          /\ MessageNames \subseteq DOMAIN d
          /\ \A name \in DOMAIN d : d[name] \in Seq(Types) /\ Refers(d, name) = RefsIn(d, name)

VARIABLES
    checked, \* the analyzer has been there
    blamed,  \* what checkDepth reports, by message: the depth and the chain of fields
    written, \* the fields an encoder is inside of, outermost first
    opened   \* the sequences it has open

nestingVars == <<resolveVars, checked, blamed, written, opened>>

\* A field is named by the body it is in and its position there.
TypeOf(d, field) == d[field[1]][field[2]]
Fields(d) == UNION {{<<name, i>> : i \in DOMAIN d[name]} : name \in DOMAIN d}

-----------------------------------------------------------------------------
\* Sequences counted as an encoder opens them; NoBound is ok = false.
NoBound == -1
And(frames, depth) == IF depth = NoBound THEN NoBound ELSE frames + depth
Deepest(depths) == IF NoBound \in depths THEN NoBound ELSE Max({0} \cup depths)

\* A call of SeqDepth: of a body, with the keys on the path to it.
Calls(d) == (DOMAIN d) \X (SUBSET DOMAIN d)

TargetSeqDepth(depth, to, onPath) == IF to \in onPath THEN NoBound ELSE depth[<<to, onPath \cup {to}>>]

\* Fault: an array of structs opens its wrapper only.
ArrayDepthWrapper(depth, type, onPath) ==
    LET levels[rows \in Nat \ {0}] ==
            IF rows > 1 THEN And(1, levels[rows - 1])
            ELSE CASE type.kind = "struct" -> And(1, TargetSeqDepth(depth, type.to, onPath))
                   [] type.kind = "text" -> 1
                   [] type.kind = "scalar" -> 0
    IN  levels[type.rows]

\* A native array is one value; any other opens a wrapper, and a frame for each
\* element that is a struct.
ArrayDepth(depth, type, onPath) ==
    LET levels[rows \in Nat \ {0}] ==
            IF rows > 1 THEN And(1, levels[rows - 1])
            ELSE CASE type.kind = "struct" -> And(2, TargetSeqDepth(depth, type.to, onPath))
                   [] type.kind = "text" -> 1
                   [] type.kind = "scalar" -> 0
    IN  levels[type.rows]

FieldSeqDepth(depth, type, onPath) ==
    CASE type.rows > 0 -> ArrayDepth(depth, type, onPath)
      [] type.rows = 0 /\ type.kind = "struct" -> And(1, TargetSeqDepth(depth, type.to, onPath))
      [] type.rows = 0 /\ type.kind # "struct" -> 0

SeqDepth(d) ==
    LET depth[call \in Calls(d)] ==
            Deepest({FieldSeqDepth(depth, d[call[1]][i], call[2]) : i \in DOMAIN d[call[1]]})
    IN  depth

\* The deepest fields of a body that open a sequence; one without a bound is none.
DeepestFields(d, call) ==
    LET depthOf(i) == FieldSeqDepth(SeqDepth(d), d[call[1]][i], call[2])
    IN  {i \in DOMAIN d[call[1]] : depthOf(i) > 0 /\ \A j \in DOMAIN d[call[1]] : depthOf(j) <= depthOf(i)}

\* The field chain an error names: in each body the first of the deepest
\* fields, into its target, until no field opens a sequence.
DeepestSeqPath(d) ==
    LET path[call \in Calls(d)] ==
            LET best == Min(DeepestFields(d, call))
                type == d[call[1]][best]
            IN  IF DeepestFields(d, call) = {} THEN << >>
                ELSE << <<call[1], best>> >>
                     \o (IF type.kind = "struct" /\ type.to \notin call[2]
                         THEN path[<<type.to, call[2] \cup {type.to}>>] ELSE << >>)
    IN  path

-----------------------------------------------------------------------------
NestingInit ==
    /\ ResolveInit
    /\ checked = FALSE
    /\ blamed = << >>
    /\ written = << >>
    /\ opened = 0

Resolving == ResolveNext /\ UNCHANGED <<checked, blamed, written, opened>>

\* The analyzer sees resolved documents only; recursion is none of its errors.
CheckDepth ==
    /\ verdict = "resolved"
    /\ ~ checked
    /\ checked' = TRUE
    /\ LET depth(name) == SeqDepth(graph)[<<name, {}>>]
       IN  blamed' = [name \in {m \in MessageNames : depth(m) > MaxDepth} |->
                          [depth |-> depth(name), path |-> DeepestSeqPath(graph)[<<name, {}>>]]]
    /\ UNCHANGED <<resolveVars, written, opened>>

\* What an encoder has open while it writes an element of a type: every array
\* level but the native one, and the struct.
Frames(type) ==
    CASE type.kind = "struct" -> type.rows + 1
      [] type.kind = "text" -> type.rows
      [] type.kind = "scalar" -> IF type.rows = 0 THEN 0 ELSE type.rows - 1

\* After the fields w, the body of owner is next.
LeadsTo(d, w, owner) ==
    IF w = << >> THEN owner \in MessageNames
    ELSE TypeOf(d, w[Len(w)]).kind = "struct" /\ TypeOf(d, w[Len(w)]).to = owner

\* An encoder of the document's types, accepted or not, goes on into a field.
Enter(field) ==
    /\ verdict = "resolved"
    /\ LeadsTo(graph, written, field[1])
    /\ written' = Append(written, field)
    /\ opened' = opened + Frames(TypeOf(graph, field))
    /\ UNCHANGED <<resolveVars, checked, blamed>>

NestingNext == Resolving \/ CheckDepth \/ \E field \in Fields(graph) : Enter(field)

NestingSpec == NestingInit /\ [][NestingNext]_nestingVars

-----------------------------------------------------------------------------
(* What the count promises, said of what an encoder does.                  *)

\* An encoder can go into these fields one after the other.
CanBeEntered(d, w) ==
    /\ w # << >>
    /\ \A k \in 1 .. Len(w) : w[k] \in Fields(d) /\ LeadsTo(d, SubSeq(w, 1, k - 1), w[k][1])

(* An accepted message never has more than MaxDepth sequences open at once *)
(* while it is written.  A refused one can: the chain of fields the error  *)
(* names is one an encoder may enter, with as many open as the error says, *)
(* and there is no deeper one (checkDepth, DeepestSeqPath).                *)
DepthIsWhatIsOpened ==
    checked =>
        /\ \A name \in DOMAIN blamed :
              /\ CanBeEntered(graph, blamed[name].path) /\ blamed[name].path[1][1] = name
              /\ blamed[name].depth > MaxDepth
        /\ written # << >> =>
              LET name == written[1][1]
              IN  IF name \in DOMAIN blamed
                  THEN /\ opened <= blamed[name].depth
                       /\ written = blamed[name].path => opened = blamed[name].depth
                  ELSE opened <= MaxDepth

=============================================================================
