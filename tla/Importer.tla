------------------------------ MODULE Importer ------------------------------
(***************************************************************************)
(* The cross-file importer of internal/parser/external.go.                 *)
(*                                                                         *)
(* A schema may be written over several files.  InlineExternalRefs turns   *)
(* the root document into a self-contained one: it walks every `$ref`,     *)
(* copies each definition of another file that the walk reaches into the   *)
(* root's own $defs, and rewrites the reference to the local name.  All    *)
(* messages and definitions of the result share ONE namespace.             *)
(*                                                                         *)
(* The importer is a recursive procedure (importRef copies a definition    *)
(* and walks the copy, whose references are imported in turn).  The model  *)
(* keeps its call stack as a variable: one frame per walk in progress, one *)
(* action per way a reference can be dealt with, one per way a walk can    *)
(* return.                                                                 *)
(*                                                                         *)
(* A definition is a body, standing for everything in it that is not a     *)
(* reference, and the references in the order walk meets them.             *)
(***************************************************************************)
EXTENDS Naturals, Sequences, FiniteSets

CONSTANTS
    Files,       \* absolute paths
    Root,        \* the file of the document itself
    Kinds,       \* the $defs categories
    Names,       \* names of messages and definitions
    FoldOf,      \* naming.Fold: the name without case and separators
    Rank,        \* the order of sortedNames over messages, then definitions
    Bodies,      \* what two definitions of one name can differ in
    Here,        \* the file part of a reference that has none ("#/...")
    BadPointer,  \* a pointer that is not /$defs/<category>/<Name>
    Projects     \* the sets of files a run starts from

DefKeys == [kind : Kinds, name : Names]
Messages == [kind : {"message"}, name : Names]
Keys == DefKeys \cup Messages
Refs == [file : Files \cup {Here}, key : DefKeys \cup {BadPointer}]
Definitions == [body : Bodies, refs : Seq(Refs)]

\* What is written in one file: its messages and its $defs entries.
IsDocument(d) == /\ DOMAIN d \subseteq Keys
                 /\ d \in [DOMAIN d -> Definitions]

\* A file outside the domain cannot be read or parsed.
IsProject(p) == /\ Root \in DOMAIN p
                /\ DOMAIN p \subseteq Files
                /\ p \in [DOMAIN p -> {p[f] : f \in DOMAIN p}]
                /\ IsFiniteSet(DOMAIN p)
                /\ \A f \in DOMAIN p : IsDocument(p[f]) /\ IsFiniteSet(DOMAIN p[f])

ASSUME ConstantsAssumption ==
    /\ Root \in Files
    /\ Here \notin Files
    /\ "message" \notin Kinds
    /\ BadPointer \notin Keys
    /\ DOMAIN FoldOf = Names
    /\ Rank \in [Keys -> Nat]
    /\ \A k, l \in Keys : Rank[k] = Rank[l] => k = l

ASSUME ProjectsAssumption == \A p \in Projects : IsProject(p)

VARIABLES
    project,  \* the files on disk; read, never changed
    doc,      \* the live root document: its messages, and r.defs
    done,     \* Source.id()s already imported, or local
    owner,    \* byFold: the key that holds a folded name
    origins,  \* where each imported definition is written
    stack,    \* the walks in progress, innermost last
    todo,     \* root elements of this phase still to walk
    phase,    \* "messages", "locals", then "inlined" or "refused"
    errs      \* r.errs

vars == <<project, doc, done, owner, origins, stack, todo, phase, errs>>

Fold(k) == FoldOf[k.name]

\* The first of a set of keys in sorted order.
First(S) == CHOOSE k \in S : \A o \in S : Rank[k] <= Rank[o]

\* A definition with every reference reduced to its pointer (stripRefFiles);
\* equalDefs compares these.
Strip(d) == [body |-> d.body, refs |-> [i \in DOMAIN d.refs |-> d.refs[i].key]]

\* The function f with x mapped to y, x being new to its domain or not.
Put(f, x, y) == [z \in DOMAIN f \cup {x} |-> IF z = x THEN y ELSE f[z]]

-----------------------------------------------------------------------------
\* The namespace starts with the document's own names; the first of two local
\* names that fold together keeps the slot (claim).
Init ==
    /\ project \in Projects
    /\ doc = project[Root]
    /\ done = {<<Root, k>> : k \in DOMAIN project[Root] \cap DefKeys}
    /\ owner = [n \in {Fold(k) : k \in DOMAIN project[Root]} |->
                   First({k \in DOMAIN project[Root] : Fold(k) = n})]
    /\ origins = << >>
    /\ stack = << >>
    /\ todo = DOMAIN project[Root] \cap Messages
    /\ phase = "messages"
    /\ errs = {}

\* A walk over definition d, written in file f under key k, at its first
\* reference.
Frame(f, k, d) == [file |-> f, key |-> k, def |-> d, pos |-> 1]

Top == stack[Len(stack)]
Walking == stack # << >> /\ Top.pos <= Len(Top.def.refs)
Returning == stack # << >> /\ Top.pos > Len(Top.def.refs)

\* The reference the innermost walk stands at, and the file it points into.
Ref == Top.def.refs[Top.pos]
Target == IF Ref.file = Here THEN Top.file ELSE Ref.file

\* load: the root's entry of the file cache is the live document, every other
\* file is as written.
Loaded(f) == IF f = Root THEN doc ELSE project[f]

\* The reference that replaces r once its definition is in the document.
Localised(r) == [file |-> Here, key |-> r.key]

\* Frame fr at position p, its reference replaced when importRef succeeded.
MovedTo(fr, p, ok) ==
    [file |-> fr.file, key |-> fr.key, pos |-> p,
     def |-> [body |-> fr.def.body,
              refs |-> IF ok THEN [fr.def.refs EXCEPT ![fr.pos] = Localised(@)]
                             ELSE fr.def.refs]]

\* Fault: a failing reference is tried again instead of left behind.
PastRetrying(fr, ok) == MovedTo(fr, IF ok THEN fr.pos + 1 ELSE fr.pos, ok)

\* Frame fr moved past its reference.
Past(fr, ok) == MovedTo(fr, fr.pos + 1, ok)

PassRef(ok) == stack' = [stack EXCEPT ![Len(stack)] = Past(Top, ok)]

\* importRef returns to the walk that called it.
Return(ok) ==
    stack' = [i \in 1 .. Len(stack) - 1 |->
                 IF i = Len(stack) - 1 THEN Past(stack[i], ok) ELSE stack[i]]

Report(why, fr) ==
    errs' = errs \cup {[why |-> why, file |-> fr.file, key |-> fr.key, pos |-> fr.pos]}

-----------------------------------------------------------------------------
(* The loops of InlineExternalRefs over the root's own elements.           *)

StartElement ==
    /\ stack = << >>
    /\ phase \in {"messages", "locals"}
    /\ todo # {}
    /\ LET k == First(todo)
       IN /\ stack' = << Frame(Root, k, doc[k]) >>
          /\ todo' = todo \ {k}
    /\ UNCHANGED <<project, doc, done, owner, origins, phase, errs>>

\* The walk rewrites a root element in place.  Until it ends only Strip of the
\* element is looked at, which no rewriting changes.
FinishElement ==
    /\ Returning
    /\ Len(stack) = 1
    /\ doc' = [doc EXCEPT ![Top.key] = Top.def]
    /\ stack' = << >>
    /\ UNCHANGED <<project, done, owner, origins, todo, phase, errs>>

\* The definitions the message walks imported are already rewritten.
StartLocals ==
    /\ stack = << >>
    /\ phase = "messages"
    /\ todo = {}
    /\ phase' = "locals"
    /\ todo' = (DOMAIN doc \cap DefKeys) \ DOMAIN origins
    /\ UNCHANGED <<project, doc, done, owner, origins, stack, errs>>

Finish ==
    /\ stack = << >>
    /\ phase = "locals"
    /\ todo = {}
    /\ phase' = IF errs = {} THEN "inlined" ELSE "refused"
    /\ UNCHANGED <<project, doc, done, owner, origins, stack, todo, errs>>

-----------------------------------------------------------------------------
(* walk and the first half of importRef: one reference.                    *)

\* In the document itself a local reference stays as it is.
SkipLocal ==
    /\ Walking
    /\ Top.file = Root
    /\ Ref.file = Here
    /\ PassRef(FALSE)
    /\ UNCHANGED <<project, doc, done, owner, origins, todo, phase, errs>>

Importing == Walking /\ ~(Top.file = Root /\ Ref.file = Here)

AlreadyDone ==
    /\ Importing
    /\ <<Target, Ref.key>> \in done
    /\ PassRef(TRUE)
    /\ UNCHANGED <<project, doc, done, owner, origins, todo, phase, errs>>

FailRef(why) ==
    /\ PassRef(FALSE)
    /\ Report(why, Top)
    /\ UNCHANGED <<project, doc, done, owner, origins, todo, phase>>

BadRef == Importing /\ Ref.key = BadPointer /\ FailRef("pointer")

LoadFails ==
    /\ Importing
    /\ Ref.key # BadPointer
    /\ <<Target, Ref.key>> \notin done
    /\ Target \notin DOMAIN project
    /\ FailRef("unreadable")

MissingDef ==
    /\ Importing
    /\ Ref.key # BadPointer
    /\ <<Target, Ref.key>> \notin done
    /\ Target \in DOMAIN project
    /\ Ref.key \notin DOMAIN Loaded(Target)
    /\ FailRef("missing")

\* Marked done before its copy is walked, so that a cycle through files ends.
Descend ==
    /\ Importing
    /\ Ref.key # BadPointer
    /\ <<Target, Ref.key>> \notin done
    /\ Target \in DOMAIN project
    /\ Ref.key \in DOMAIN Loaded(Target)
    /\ done' = done \cup {<<Target, Ref.key>>}
    /\ stack' = Append(stack, Frame(Target, Ref.key, Loaded(Target)[Ref.key]))
    /\ UNCHANGED <<project, doc, owner, origins, todo, phase, errs>>

-----------------------------------------------------------------------------
(* The second half of importRef: the copy is walked, its name is claimed.  *)

\* Fault: names are compared as spelled.
TakenAsSpelled(k) == \E n \in DOMAIN owner : owner[n].name = k.name
Taken(k) == Fold(k) \in DOMAIN owner

\* Faults: the bodies not compared; the references compared as written.
SameName(k, d) == owner[Fold(k)] = k
SameText(k, d) == owner[Fold(k)] = k /\ doc[k] = d

\* The slot is held by the same category and name with an equal body.
SameType(k, d) == owner[Fold(k)] = k /\ Strip(doc[k]) = Strip(d)

FinishImport == Returning /\ Len(stack) > 1

MergeEqual ==
    /\ FinishImport
    /\ Taken(Top.key)
    /\ SameType(Top.key, Top.def)
    /\ Return(TRUE)
    /\ UNCHANGED <<project, doc, done, owner, origins, todo, phase, errs>>

Clash ==
    /\ FinishImport
    /\ Taken(Top.key)
    /\ ~SameType(Top.key, Top.def)
    /\ Return(FALSE)
    /\ Report("clash", stack[Len(stack) - 1])
    /\ UNCHANGED <<project, doc, done, owner, origins, todo, phase>>

\* Fault: the file that refers is recorded, not the file that defines.
ClaimNameForReferrer ==
    /\ FinishImport
    /\ ~Taken(Top.key)
    /\ owner' = Put(owner, Fold(Top.key), Top.key)
    /\ doc' = Put(doc, Top.key, Top.def)
    /\ origins' = Put(origins, Top.key, <<stack[Len(stack) - 1].file, Top.key>>)
    /\ Return(TRUE)
    /\ UNCHANGED <<project, done, todo, phase, errs>>

ClaimName ==
    /\ FinishImport
    /\ ~Taken(Top.key)
    /\ owner' = Put(owner, Fold(Top.key), Top.key)
    /\ doc' = Put(doc, Top.key, Top.def)
    /\ origins' = Put(origins, Top.key, <<Top.file, Top.key>>)
    /\ Return(TRUE)
    /\ UNCHANGED <<project, done, todo, phase, errs>>

-----------------------------------------------------------------------------
Next ==
    \/ StartElement \/ FinishElement \/ StartLocals \/ Finish
    \/ SkipLocal \/ AlreadyDone \/ BadRef \/ LoadFails \/ MissingDef \/ Descend
    \/ MergeEqual \/ Clash \/ ClaimName

Spec == Init /\ [][Next]_vars

\* One call of one goroutine: it runs until it returns.
FairSpec == Spec /\ WF_vars(Next)

-----------------------------------------------------------------------------
(* Properties.                                                             *)

FrameTypes == [file : Files, key : Keys, def : Definitions, pos : Nat \ {0}]
Reports == [why : {"pointer", "unreadable", "missing", "clash"},
            file : Files, key : Keys, pos : Nat \ {0}]

\* The importer's state has the shape of the importer struct and its call stack.
TypeOK ==
    /\ IsProject(project)
    /\ IsDocument(doc)
    /\ done \subseteq Files \X DefKeys
    /\ DOMAIN owner \subseteq {FoldOf[n] : n \in Names}
    /\ owner \in [DOMAIN owner -> Keys]
    /\ DOMAIN origins \subseteq DefKeys
    /\ origins \in [DOMAIN origins -> Files \X DefKeys]
    /\ stack \in Seq(FrameTypes)
    /\ todo \subseteq DOMAIN project[Root]
    /\ phase \in {"messages", "locals", "inlined", "refused"}
    /\ errs \subseteq Reports

\* ARCHITECTURE naming rule 3: two names of the flattened document that fold
\* together are both the document's own (the validator reports those); an
\* import never shares a name with anything.
OneNamespace ==
    \A k, l \in DOMAIN doc :
        k # l /\ Fold(k) = Fold(l) => k \in DOMAIN project[Root] /\ l \in DOMAIN project[Root]

\* A local name is never displaced by an import: every message and definition
\* of the document is still there and means what was written, whatever was
\* imported under, or next to, its name.
LocalsKept ==
    \A k \in DOMAIN project[Root] :
        k \in DOMAIN doc /\ Strip(doc[k]) = Strip(project[Root][k])

\* Locate follows d.Origins to the file a definition is written in: the file
\* named there does define it, as it stands in the document, and the document
\* itself is never named.
OriginsTrue ==
    \A k \in DOMAIN origins :
        LET f == origins[k][1]
        IN /\ origins[k][2] = k
           /\ f \in DOMAIN project \ {Root}
           /\ k \in DOMAIN project[f] /\ k \in DOMAIN doc
           /\ Strip(doc[k]) = Strip(project[f][k])

\* The file and key that reference r, written in file f, stands for.
PointsTo(r, f) == <<IF r.file = Here THEN f ELSE r.file, r.key>>

\* What is in the document, as it was written: its own elements and the imports.
Sources == done \cup {<<Root, k>> : k \in DOMAIN project[Root]}
IsWritten(s) == s[1] \in DOMAIN project /\ s[2] \in DOMAIN project[s[1]]

\* Reference i of definition d of file f is no import, or its source is in.
Covered(f, d, i) ==
    (f = Root /\ d.refs[i].file = Here) \/ PointsTo(d.refs[i], f) \in done

\* Source s is in the document under its own name, with the body written in its
\* file, and so is everything it refers to.
Settled(s) ==
    /\ s[2] \in DOMAIN doc
    /\ IsWritten(s) =>
         LET d == project[s[1]][s[2]]
         IN Strip(doc[s[2]]) = Strip(d) /\ \A i \in DOMAIN d.refs : Covered(s[1], d, i)

\* The sources of an accepted document include its own elements and are closed
\* under reference, and each means in it what it means in its file: nothing got
\* the layout of another definition that happens to have its name.
MeaningKept == phase = "inlined" => \A s \in Sources : Settled(s)

\* external.go:139 and :281 say of the file cache that it holds each decoded
\* root as written: a reference is then accepted only if the file it points
\* into defines the name.
AcceptedAsWritten ==
    phase = "inlined" => \A s \in done : s[2] \in DOMAIN project[s[1]]

Abstract == INSTANCE Flatten WITH
    outcome <- IF phase \in {"inlined", "refused"} THEN phase ELSE "pending",
    schema <- IF phase = "inlined" THEN [k \in DOMAIN doc |-> Strip(doc[k])] ELSE << >>

\* The depth-first importer gives the verdict the files deserve as a whole, and
\* the flat document that their definitions determine, whatever its walk order:
\* it refuses only a wrong document and merges only what is the same type.
ImplementsFlatten == Abstract!Spec

\* The importer comes to a verdict, however the definitions refer to each other.
Termination == <>(phase \in {"inlined", "refused"})

=============================================================================
