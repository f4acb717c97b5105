------------------------------ MODULE IdScopes ------------------------------
(***************************************************************************)
(* The unique-id and unique-name rules of internal/parser/validate.go.     *)
(*                                                                         *)
(* A document is a tree: the fields of a message payload, and under a      *)
(* struct or a union its own fields, each level an id scope of its own.    *)
(* validateIDScope ranges over a Go map, so the fields of one scope are    *)
(* visited in any order and a second run may take another; the report is   *)
(* sorted by location at the end.                                          *)
(*                                                                         *)
(* A field is named by its location.  An error is where it is, what it     *)
(* says and the other thing it names: the field that has the number or the *)
(* fold already, or the key that may not be there.                         *)
(***************************************************************************)
EXTENDS Naturals, Sequences, FiniteSets, SequencesExt, Orders

CONSTANTS
    TreeFields, \* every field any document may have
    Root,       \* the message payload
    InOrder,    \* the fields, as their locations sort
    Locations,  \* every <<field, part>>, as they sort
    Missing,    \* no id written; no default_id written; nothing named
    TooBig,     \* an id outside 0..2^31-1
    Never,      \* no report yet
    Trees       \* what may be validated

Scopes == {"struct", "union"}

\* parent: the tree; id, fold, type, extra keys and default_id of each field.
IsDocument(d) ==
    /\ DOMAIN d.parent \subseteq TreeFields
    /\ \A f \in DOMAIN d.parent :
          d.parent[f] # Root => /\ d.parent[f] \in DOMAIN d.parent
                                /\ d.type[d.parent[f]] \in Scopes
    \* every field is below the payload
    /\ \A S \in SUBSET DOMAIN d.parent : S # {} => \E f \in S : d.parent[f] \notin S
    /\ \A f \in DOMAIN d.parent : /\ IsFiniteSet(d.extra[f])
                                  /\ d.defaultId[f] # Missing => d.type[f] = "union"

\* What the instances must give.
ConstantsFit ==
    /\ Root \notin TreeFields
    /\ Missing # TooBig
    /\ Lists(InOrder, TreeFields)
    /\ Lists(Locations, TreeFields \X {"field", "id", "default_id", "oneof"})
    /\ \A d \in Trees : IsDocument(d)

VARIABLES
    fields,   \* the resolved document; read, never changed
    open,     \* the scopes being validated, outermost first
    seen,     \* the fields the loops have reached
    kept,     \* the fields recorded in the ids map of their scope
    errs,     \* v.errs
    report,   \* what Validate returned
    earlier,  \* what it returned for the same document the time before
    progress  \* "walk", "reported"

scopesVars == <<fields, open, seen, kept, errs, report, earlier, progress>>

Error(f, part, what, other) == [at |-> <<f, part>>, what |-> what, other |-> other]
Children(s) == {f \in DOMAIN fields.parent : fields.parent[f] = s}
HasId(f) == fields.id[f] \notin {Missing, TooBig}

\* checkDistinct goes through the names of a scope in location order: the first
\* of its fold is entered, every later one reported.
FirstOfFold(f) ==
    LET same == {n \in DOMAIN InOrder : InOrder[n] \in Children(fields.parent[f])
                                        /\ fields.fold[InOrder[n]] = fields.fold[f]}
    IN  InOrder[CHOOSE n \in same : \A m \in same : n <= m]

Later(s) == {n \in DOMAIN InOrder : InOrder[n] \in Children(s) /\ FirstOfFold(InOrder[n]) # InOrder[n]}

FoldErrors(s) ==
    LET Nth(i) == InOrder[Ascending(Later(s))[i]]
    IN  [i \in 1 .. Cardinality(Later(s)) |-> Error(Nth(i), "field", "fold", FirstOfFold(Nth(i)))]

IdErrors(f) ==
    CASE fields.id[f] = Missing -> <<Error(f, "field", "no id", Missing)>>
      [] fields.id[f] = TooBig -> <<Error(f, "id", "range", Missing)>>
      [] OTHER -> << >>

\* closed ranges over a map as well: the extra keys come in any order.
ClosedErrors(f) ==
    {[i \in DOMAIN keys |-> Error(f, "field", "extra key", keys[i])] :
        keys \in SetToSeqs(fields.extra[f])}

\* A field without a type is reported and looked at no further.
TypeErrors(f) ==
    IF fields.type[f] = "untyped" THEN {<<Error(f, "field", "no type", Missing)>>}
    ELSE {keys \o FoldErrors(f) : keys \in ClosedErrors(f)}

\* Once its options have been visited.
UnionErrors(f) ==
    IF fields.type[f] # "union" THEN << >>
    ELSE (IF Children(f) = {} THEN <<Error(f, "oneof", "no option", Missing)>> ELSE << >>)
         \o (IF fields.defaultId[f] = Missing \/ \E g \in Children(f) : fields.id[g] = fields.defaultId[f]
             THEN << >> ELSE <<Error(f, "default_id", "no such option", Missing)>>)

-----------------------------------------------------------------------------
\* Begin validating the document: validateIDScope of the payload.
Begin ==
    /\ open' = <<Root>>
    /\ seen' = {}
    /\ kept' = {}
    /\ errs' = FoldErrors(Root)
    /\ progress' = "walk"

ScopesInit ==
    /\ fields \in Trees
    /\ open = <<Root>>
    /\ seen = {}
    /\ kept = {}
    /\ errs = FoldErrors(Root)
    /\ report = Never
    /\ earlier = Never
    /\ progress = "walk"

\* Fault: one ids map for the whole document.
HolderAnywhere(f) == {g \in kept : fields.id[g] = fields.id[f]}

\* The field that has f's id in the ids map of f's scope, if one has.
Holder(f) == {g \in kept : fields.parent[g] = fields.parent[f] /\ fields.id[g] = fields.id[f]}

Visit(f) ==
    /\ progress = "walk"
    /\ f \in Children(Last(open)) \ seen
    /\ \E found \in TypeErrors(f) : errs' = errs \o IdErrors(f) \o found
    /\ open' = Append(open, f)
    /\ seen' = seen \cup {f}
    /\ UNCHANGED <<fields, kept, report, earlier, progress>>

Leaving(f) == progress = "walk" /\ Last(open) = f /\ f # Root /\ Children(f) \subseteq seen

\* validateField returns no id, so the scope records none.
LeaveWithoutId(f) ==
    /\ Leaving(f)
    /\ ~HasId(f)
    /\ errs' = errs \o UnionErrors(f)
    /\ open' = Front(open)
    /\ UNCHANGED <<fields, seen, kept, report, earlier, progress>>

KeepId(f) ==
    /\ Leaving(f)
    /\ HasId(f)
    /\ Holder(f) = {}
    /\ kept' = kept \cup {f}
    /\ errs' = errs \o UnionErrors(f)
    /\ open' = Front(open)
    /\ UNCHANGED <<fields, seen, report, earlier, progress>>

\* Fault: a duplicated id is struck from the map.
DuplicateForgets(f) ==
    /\ Leaving(f)
    /\ HasId(f)
    /\ \E g \in Holder(f) :
          /\ errs' = errs \o UnionErrors(f) \o <<Error(f, "id", "duplicate", g)>>
          /\ kept' = kept \ {g}
    /\ open' = Front(open)
    /\ UNCHANGED <<fields, seen, report, earlier, progress>>

\* The field reached later is the duplicate; the one there before stays.
Duplicate(f) ==
    /\ Leaving(f)
    /\ HasId(f)
    /\ \E g \in Holder(f) :
          errs' = errs \o UnionErrors(f) \o <<Error(f, "id", "duplicate", g)>>
    /\ open' = Front(open)
    /\ UNCHANGED <<fields, seen, kept, report, earlier, progress>>

\* A stable sort by location.
PlaceOf(at) == CHOOSE n \in DOMAIN Locations : Locations[n] = at
Sorted(s) == StablySorted(s, [i \in DOMAIN s |-> PlaceOf(s[i].at)])

\* Fault: the first invalid field of the payload ends the validation.
ReportFirst ==
    /\ progress = "walk"
    /\ open = <<Root>>
    /\ errs # << >> \/ Children(Root) \subseteq seen
    /\ report' = Sorted(errs)
    /\ progress' = "reported"
    /\ UNCHANGED <<fields, open, seen, kept, errs, earlier>>

Report ==
    /\ progress = "walk"
    /\ open = <<Root>>
    /\ Children(Root) \subseteq seen
    /\ report' = Sorted(errs)
    /\ progress' = "reported"
    /\ UNCHANGED <<fields, open, seen, kept, errs, earlier>>

\* The same document is validated a second time.
Again ==
    /\ progress = "reported"
    /\ earlier = Never
    /\ earlier' = report
    /\ Begin
    /\ UNCHANGED <<fields, report>>

ScopesNext ==
    \/ \E f \in DOMAIN fields.parent : Visit(f) \/ LeaveWithoutId(f) \/ KeepId(f) \/ Duplicate(f)
    \/ Report
    \/ Again

ScopesSpec == ScopesInit /\ [][ScopesNext]_scopesVars

-----------------------------------------------------------------------------
Errors(what) == {e \in ToSet(errs) : e.what = what}
Users(s, n) == {f \in Children(s) : fields.id[f] = n}
Reported == progress = "reported"

\* The verdict depends on the document alone: it is accepted exactly if every
\* field has a type, an id in range and no unknown key, no two of one scope
\* share an id or a fold, and a union has options and the one it defaults to.
Valid ==
    /\ \A f \in DOMAIN fields.parent :
          /\ HasId(f) /\ fields.type[f] # "untyped" /\ fields.extra[f] = {}
          /\ fields.type[f] = "union" =>
                /\ Children(f) # {}
                /\ fields.defaultId[f] # Missing =>
                      fields.defaultId[f] \in {fields.id[g] : g \in Children(f)}
          /\ \A g \in Children(fields.parent[f]) \ {f} :
                fields.id[f] # fields.id[g] /\ fields.fold[f] # fields.fold[g]

VerdictExact == Reported => (report = << >> <=> Valid)

\* Every use of an id but one is reported, whatever order the scope is walked
\* in: one error per field too many, in its own scope (validateIDScope), blamed
\* on the field that keeps the id.
EveryDuplicateReported ==
    Reported =>
        \A s \in {Root} \cup DOMAIN fields.parent : \A f \in Children(s) :
            HasId(f) =>
                \E g \in Users(s, fields.id[f]) :
                    /\ \A h \in Users(s, fields.id[f]) :
                          h = g <=> ~\E e \in Errors("duplicate") : e.at = <<h, "id">>
                    /\ \A e \in Errors("duplicate") : e.at[1] \in Users(s, fields.id[f]) => e.other = g

\* Two validations of one document list the same problems: as many, and the
\* same ones but for which of the fields of one id is called the duplicate.
SameProblems ==
    Reported /\ earlier # Never =>
        /\ Len(report) = Len(earlier)
        /\ {e \in ToSet(report) : e.what # "duplicate"} = {e \in ToSet(earlier) : e.what # "duplicate"}
        /\ \A e \in ToSet(report) : e.what = "duplicate" =>
              \E d \in ToSet(earlier) :
                  d.what = "duplicate" /\ {e.at[1], e.other} \cap {d.at[1], d.other} # {}

\* "It is sorted by location for deterministic output": two validations of one
\* document give one report (the comment on Errors).
SameReport == Reported /\ earlier # Never => report = earlier

=============================================================================
