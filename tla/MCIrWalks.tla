------------------------------ MODULE MCIrWalks ------------------------------
(***************************************************************************)
(* Five walks of a definition between its file and its code, one at a      *)
(* time: id scopes (validator), nesting (resolver and analysis), lowering  *)
(* (pipeline and model), binding (analysis) and size (ir).  A walk has the *)
(* variables of its module; those of the others are idle.                  *)
(***************************************************************************)
EXTENDS MCUnionBinding, IdScopes, Nesting, WireSize, TLC

CONSTANTS
    p1, q, s, x, y,              \* the fields of IdScopes' trees
    Documents, Letters, Capital  \* of Lowering

VARIABLES
    walk,
    doc, tree  \* of Lowering

Low == INSTANCE Lowering

\* Where the values of the constants are defined.
FieldTrees == INSTANCE MCIdScopes WITH Trees <- {}, InOrder <- << >>, Locations <- << >>, p <- p1
References == INSTANCE MCLowering WITH Documents <- {}, Letters <- << >>, Capital <- << >>
SizedPayloads == INSTANCE MCWireSize WITH SizedSchemas <- {}, Policies <- {}

ASSUME ScopesFit == ConstantsFit
ASSUME NamesFit == Low!ConstantsFit
ASSUME SizesInRange ==
    /\ SizesFit
    /\ \A s0 \in SizedSchemas, rules \in Policies : Fits(s0, rules.caps)

\* Two messages and two definitions; every way the definitions and a message
\* can use each other, cycles and dangling references included.
Number(rows) == [rows |-> rows, kind |-> "scalar"]
Text(rows) == [rows |-> rows, kind |-> "text"]
Use(rows, to) == [rows |-> rows, kind |-> "struct", to |-> to]

MCGraphs ==
    {[M |-> <<m, Use(0, "A")>>, N |-> <<n>>, A |-> a, B |-> b] :
        m \in {Number(0), Text(1), Use(1, "B"), Use(2, "A")},
        n \in {Text(3), Use(0, "B"), Use(0, "gone")},
        a \in {<<Text(0)>>, <<Number(2)>>, <<Use(1, "A")>>, <<Use(0, "B"), Use(1, "B")>>, <<Text(1), Use(0, "gone")>>},
        b \in {<<Number(0)>>, <<Number(2), Text(0)>>, <<Number(1), Use(0, "A")>>}}
MCRefNames == {"A", "B", "gone"}
MCMessages == {"M", "N"}

MCInOrder == FieldTrees!MCInOrder
MCLocations == FieldTrees!MCLocations
MCTrees == FieldTrees!MCTrees
MCDocuments == References!MCDocuments
MCLetters == References!MCLetters
MCCapital == References!MCCapital
MCSizedSchemas == SizedPayloads!Small
MCPolicies == SizedPayloads!MCPolicies

Off == "off"
scopes == <<fields, open, seen, kept, errs, report, earlier, progress>>
nesting == nestingVars
lowering == <<doc, tree>>
binding == <<named, order, refKey, target, default, sites, pos>>
sizing == sizeVars
NoScopes == /\ fields = Off /\ open = Off /\ seen = Off /\ kept = Off
            /\ errs = Off /\ report = Off /\ earlier = Off /\ progress = Off
NoNesting == /\ graph = Off /\ stack = Off /\ verdict = Off
             /\ checked = FALSE /\ blamed = Off /\ written = Off /\ opened = Off
NoLowering == doc = Off /\ tree = Off
NoBinding == /\ named = {} /\ order = << >> /\ target = [r \in Sites |-> Absent]
             /\ refKey = Off /\ default = Off /\ sites = Off /\ pos = Off
NoSizing == message = Off /\ policy = Off /\ outcome = Pending /\ spans = << >>

\* schema and stage are of two walks.
WalkInit ==
    \/ /\ walk = "scopes" /\ ScopesInit
       /\ NoNesting /\ NoLowering /\ NoBinding /\ NoSizing /\ schema = Off /\ stage = Off
    \/ /\ walk = "nesting" /\ NestingInit
       /\ NoScopes /\ NoLowering /\ NoBinding /\ NoSizing /\ schema = Off /\ stage = Off
    \/ /\ walk = "lowering" /\ Low!Init
       /\ NoScopes /\ NoNesting /\ NoBinding /\ NoSizing
    \/ /\ walk = "binding" /\ Init
       /\ NoScopes /\ NoNesting /\ NoLowering /\ NoSizing
    \/ /\ walk = "size" /\ SizeInit
       /\ NoScopes /\ NoNesting /\ NoLowering /\ NoBinding /\ schema = Off /\ stage = Off
WalkNext ==
    /\ UNCHANGED walk
    /\ \/ walk = "scopes" /\ ScopesNext /\ UNCHANGED <<nesting, lowering, binding, sizing, schema, stage>>
       \/ walk = "nesting" /\ NestingNext /\ UNCHANGED <<scopes, lowering, binding, sizing, schema, stage>>
       \/ walk = "lowering" /\ Low!Next /\ UNCHANGED <<scopes, nesting, binding, sizing>>
       \/ walk = "binding" /\ Next /\ UNCHANGED <<scopes, nesting, lowering, sizing>>
       \/ walk = "size" /\ SizeNext /\ UNCHANGED <<scopes, nesting, lowering, binding, schema, stage>>
WalkSpec ==
    WalkInit /\ [][WalkNext]_<<walk, scopes, nesting, lowering, binding, sizing, schema, stage>>

-----------------------------------------------------------------------------
(* What the modules promise of their walks is stated there.  IdScopes,     *)
(* Resolver and Nesting speak of a verdict, UnionBinding of bound          *)
(* references, WireSize of an outcome, and of none while they are idle;    *)
(* Lowering is asked about its own walk.                                   *)

ValidatedIsGenerated == walk = "lowering" => Low!ValidatedIsGenerated
IdentsDistinct == walk = "lowering" => Low!IdentsDistinct
DocumentedIsAccepted == walk = "lowering" => Low!DocumentedIsAccepted

=============================================================================
