----------------------------- MODULE MCImporter -----------------------------
(***************************************************************************)
(* A document r.yaml, two further files a and b, and a file that is not    *)
(* there.  Names P and p fold together; an enum and a struct may share P.  *)
(***************************************************************************)
EXTENDS Importer, TLC

MCFiles == {"r", "a", "b", "nowhere"}
MCFold == [P |-> "p", p |-> "p", Q |-> "q", M |-> "m"]

Struct(n) == [kind |-> "struct", name |-> n]
Enum(n) == [kind |-> "enum", name |-> n]
Message(n) == [kind |-> "message", name |-> n]

\* Upper case sorts before lower case, "enum" before "struct".
NameRank == [M |-> 0, P |-> 1, Q |-> 2, p |-> 3]
KindRank == [message |-> 0, enum |-> 4, struct |-> 8]
MCRank == [k \in Keys |-> KindRank[k.kind] + NameRank[k.name]]

To(f, k) == [file |-> f, key |-> k]
Def(b, rs) == [body |-> b, refs |-> rs]
None == << >>

\* All ways to write the keys of a document, each with one of its options or
\* not at all.
Written(options) ==
    UNION {[ks -> UNION {options[k] : k \in ks}] : ks \in SUBSET DOMAIN options}
Fits(options, d) == \A k \in DOMAIN d : d[k] \in options[k]
Docs(options) == {d \in Written(options) : Fits(options, d)}

Pairs == {<<To("a", Struct("P")), To("b", Struct("P"))>>,
          <<To("b", Struct("Q")), To("a", Struct("P"))>>,
          <<To("a", Struct("P")), To("b", Struct("p"))>>,
          <<To("a", Struct("Q")), To("b", Struct("Q"))>>,
          <<To("a", Struct("P")), To("r", Struct("P"))>>}

RootDocs ==
    {d \in Docs(Message("M") :> {Def(1, rs) : rs \in Pairs}
             @@ Struct("P") :> {Def(1, None), Def(1, << To("b", Struct("Q")) >>)}
             @@ Enum("P") :> {Def(1, None)}
             @@ Struct("p") :> {Def(1, None)}) :
        /\ Message("M") \in DOMAIN d
        /\ Cardinality(DOMAIN d) <= 3}

ADocs ==
    Docs(Struct("P") :> {Def(1, rs) : rs \in {None, << To(Here, Struct("Q")) >>,
                                              << To("b", Struct("P")) >>,
                                              << To("r", Struct("Q")) >>,
                                              << To(Here, BadPointer) >>,
                                              << To("nowhere", Struct("P")) >>}}
      @@ Struct("Q") :> {Def(1, rs) : rs \in {None, << To("b", Struct("Q")) >>}})

BDocs ==
    Docs(Struct("P") :> {Def(1, None), Def(2, None), Def(1, << To("a", Struct("P")) >>)}
      @@ Struct("Q") :> {Def(1, None), Def(1, << To("r", Struct("P")) >>)}
      @@ Struct("p") :> {Def(1, None)})

MCProjects == {("r" :> r) @@ ("a" :> a) @@ ("b" :> b) : r \in RootDocs, a \in ADocs, b \in BDocs}

\* A set where definitions of a and b refer to each other every way.
CyclicProjects ==
    LET refs == {None, << To("a", Struct("P")) >>, << To("b", Struct("P")) >>,
                 << To("b", Struct("P")), To("a", Struct("Q")) >>, << To("nowhere", Struct("P")) >>}
        two == [{Struct("P"), Struct("Q")} -> {Def(1, rs) : rs \in refs}]
        r == Message("M") :> Def(1, << To("a", Struct("P")), To("b", Struct("Q")) >>)
    IN {("r" :> r) @@ ("a" :> a) @@ ("b" :> b) : a \in two, b \in two}

\* The document has a message and no definition, and refers to a and b only: a
\* reference back into it is written in one of them.
BackRefProjects ==
    {p \in MCProjects : /\ DOMAIN p["r"] = {Message("M")}
                        /\ \A i \in DOMAIN p["r"][Message("M")].refs : p["r"][Message("M")].refs[i].file # "r"}

AllProjects == MCProjects \cup CyclicProjects

=============================================================================
