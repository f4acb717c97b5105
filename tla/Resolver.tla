------------------------------ MODULE Resolver ------------------------------
(***************************************************************************)
(* The expansion of local references, `resolver` in                        *)
(* internal/parser/parser.go: Document.Resolve copies the document and      *)
(* puts, in the place of every reference, the resolved target.  It is a    *)
(* recursion over values; the set of references on the path to a value     *)
(* goes with it, and a reference in that set is circular.                  *)
(*                                                                         *)
(* A document is a function from names to bodies; what a body is, and the  *)
(* references in it, is the instance's.  The model keeps the calls for     *)
(* targets as a stack.                                                     *)
(***************************************************************************)
EXTENDS Naturals, Sequences

CONSTANTS
    Graphs,       \* documents
    Refers(_, _)  \* the references in the body of a name of a document

VARIABLES
    graph,   \* the document
    stack,   \* the recursion of resolve: bodies being expanded
    verdict  \* "resolving", then "resolved" or "refused"

resolveVars == <<graph, stack, verdict>>

\* A call of resolve: the references still to be met in the value, and the set
\* of references on the path to it.  Keys of a map come in any order.
Frame(left, seen) == [left |-> left, seen |-> seen]
Top == stack[Len(stack)]
Rest == SubSeq(stack, 1, Len(stack) - 1)
After(ref) == Append(Rest, [Top EXCEPT !.left = @ \ {ref}])

\* The root value holds every message and every definition.
RootRefs == UNION {Refers(graph, name) : name \in DOMAIN graph}

ResolveInit ==
    /\ graph \in Graphs
    /\ stack = <<Frame(RootRefs, {})>>
    /\ verdict = "resolving"

Refuse ==
    /\ verdict' = "refused"
    /\ stack' = << >>
    /\ UNCHANGED graph

\* Fault: circular means met before, anywhere.
SeenAnywhere(ref) == \E i \in DOMAIN stack : \E other \in stack[i].seen : ref \in {other} \cup Refers(graph, other)

Seen(ref) == ref \in Top.seen

Circular(ref) == Seen(ref) /\ Refuse

Dangling(ref) ==
    /\ ~ Seen(ref)
    /\ ref \notin DOMAIN graph
    /\ Refuse

Expand(ref) ==
    /\ ~ Seen(ref)
    /\ ref \in DOMAIN graph
    /\ stack' = Append(After(ref), Frame(Refers(graph, ref), Top.seen \cup {ref}))
    /\ UNCHANGED <<graph, verdict>>

Return ==
    /\ Top.left = {}
    /\ stack' = Rest
    /\ verdict' = IF Rest = << >> THEN "resolved" ELSE verdict
    /\ UNCHANGED graph

ResolveNext ==
    /\ verdict = "resolving"
    /\ \/ \E ref \in Top.left : Circular(ref) \/ Dangling(ref) \/ Expand(ref)
       \/ Return

ResolveSpec == ResolveInit /\ [][ResolveNext]_resolveVars

-----------------------------------------------------------------------------
(* The verdict, said of the document's graph.                              *)

\* Some names each refer to one of them: following those never ends.
Recursive == \E C \in SUBSET DOMAIN graph : C # {} /\ \A name \in C : Refers(graph, name) \cap C # {}

DanglingRef == \E name \in DOMAIN graph : ~ Refers(graph, name) \subseteq DOMAIN graph

(* A document is refused exactly when a reference is circular or has no    *)
(* target: a definition used twice, or on two paths, is not a cycle        *)
(* (resolve's seen set is per path).                                       *)
RefusesExactlyCycles ==
    /\ verdict = "refused" => Recursive \/ DanglingRef
    /\ verdict = "resolved" => ~ Recursive /\ ~ DanglingRef

=============================================================================
