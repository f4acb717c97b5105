------------------------------- MODULE Flatten -------------------------------
(***************************************************************************)
(* What the importer promises (ARCHITECTURE section 8 and the comment of   *)
(* InlineExternalRefs): a verdict on the files as a whole, and for an      *)
(* accepted document one flat namespace.  Nothing here depends on an order *)
(* in which references are followed.                                       *)
(***************************************************************************)
EXTENDS Naturals, FiniteSets

CONSTANTS Root, FoldOf, Rank, Here, BadPointer

VARIABLES project, outcome, schema

absvars == <<project, outcome, schema>>

Locals(p) == {<<Root, k>> : k \in DOMAIN p[Root]}
Written(p, s) == s[1] \in DOMAIN p /\ s[2] \in DOMAIN p[s[1]]
Meaning(p, s) == LET d == p[s[1]][s[2]]
                 IN [body |-> d.body, refs |-> [i \in DOMAIN d.refs |-> d.refs[i].key]]

\* The sources a written definition refers to; a local reference of the
\* document itself is not the importer's business.
Successors(p, s) ==
    {<<IF r.file = Here THEN s[1] ELSE r.file, r.key>> :
        r \in {q \in {p[s[1]][s[2]].refs[i] : i \in DOMAIN p[s[1]][s[2]].refs} :
                  ~(s[1] = Root /\ q.file = Here)}}

More(p, S) == S \cup UNION {Successors(p, s) : s \in {t \in S : Written(p, t)}}
AllWritten(p) == UNION {{<<f, k>> : k \in DOMAIN p[f]} : f \in DOMAIN p}

\* Everything reachable from the document's own elements: each step but the last
\* reaches something written.
Reached(p) ==
    LET grow[n \in Nat] == IF n = 0 THEN Locals(p) ELSE More(p, grow[n - 1])
    IN grow[Cardinality(AllWritten(p)) + 1]

\* A reference back into the document to a name it does not write itself, but
\* which is imported into it from elsewhere.
BackReference(p, S, s) ==
    /\ s[1] = Root
    /\ \E t \in S : t[1] # Root /\ t[2] = s[2] /\ Written(p, t)

AllFound(p, S, s) == s[2] # BadPointer /\ Written(p, s)

\* Two sources may share a folded name only if one type is meant: the same
\* name, category and meaning.  An import is held against the first local name.
OneMeaning(p, s, t) == s[2] = t[2] /\ Meaning(p, s) = Meaning(p, t)
Rivals(p, S, s) ==
    LET same == {t \in S : Written(p, t) /\ FoldOf[t[2].name] = FoldOf[s[2].name]}
        local == {t \in same : t[1] = Root}
    IN IF local = {} THEN same
       ELSE {CHOOSE t \in local : \A u \in local : Rank[t[2]] <= Rank[u[2]]}
Unambiguous(p, S, s) ==
    s[1] # Root => \A t \in Rivals(p, S, s) : OneMeaning(p, s, t)

Sound(p) ==
    LET S == Reached(p)
    IN \A s \in S : AllFound(p, S, s) /\ Unambiguous(p, S, s)

\* As Sound, but a back reference counts as found.
Tolerable(p) ==
    LET S == Reached(p)
    IN \A s \in S : /\ AllFound(p, S, s) \/ BackReference(p, S, s)
                    /\ Written(p, s) => Unambiguous(p, S, s)

\* Each name with what it means in the file that writes it.
Flat(p) ==
    LET S == {s \in Reached(p) : Written(p, s)}
    IN [k \in {s[2] : s \in S} |-> Meaning(p, CHOOSE s \in S : s[2] = k)]

Init == outcome = "pending" /\ schema = << >>

Accept ==
    /\ outcome = "pending"
    /\ Tolerable(project)
    /\ outcome' = "inlined"
    /\ schema' = Flat(project)
    /\ UNCHANGED project

\* Only a document that is wrong is refused.
Refuse ==
    /\ outcome = "pending"
    /\ ~Sound(project)
    /\ outcome' = "refused"
    /\ UNCHANGED <<project, schema>>

Next == Accept \/ Refuse

Spec == Init /\ [][Next]_absvars
=============================================================================
