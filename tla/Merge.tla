-------------------------------- MODULE Merge --------------------------------
(***************************************************************************)
(* A directory of definition files as one schema: LoadDir and Merge of     *)
(* internal/parser/merge.go.                                               *)
(*                                                                         *)
(* Every file is loaded and validated alone; only when all of them pass    *)
(* are their elements added, file by file, to one namespace.  A file comes *)
(* here as Importer leaves it: self-contained, with the definitions it     *)
(* imported among its own and the place each of those is written.          *)
(***************************************************************************)
EXTENDS Naturals, Sequences, FiniteSets

CONSTANTS
    Paths,       \* paths of definition files, in or out of the directory
    Keys,        \* messages and $defs entries: [kind, name]
    FoldOf,      \* naming.Fold of each name
    Rank,        \* the order Merge adds the elements of a file in
    Defs,        \* bodies; a body names the definitions it refers to
    Broken,      \* in place of a document: the file fails on its own
    Directories  \* the directories a run may be given

\* An element of a file: its body, and where the body is written.
Elements == [def : Defs, src : Paths \X Keys]
Fold(k) == FoldOf[k.name]

\* A file that passed: its names are distinct and its imports are copies, under
\* their own name, of what the other file says.
IsDocument(d, f, docs) ==
    /\ DOMAIN d \subseteq Keys
    /\ d \in [DOMAIN d -> Elements]
    /\ \A k, l \in DOMAIN d : Fold(k) = Fold(l) => k = l
    /\ \A k \in DOMAIN d : d[k].src[2] = k
    /\ \A g \in DOMAIN docs : \A k \in DOMAIN d :
          docs[g] # Broken /\ d[k].src[1] = g => k \in DOMAIN docs[g] /\ docs[g][k] = d[k]
    /\ \A g \in DOMAIN docs : docs[g] # Broken =>
          \A k \in DOMAIN d \cap DOMAIN docs[g] : d[k].src = docs[g][k].src => d[k].def = docs[g][k].def

\* files is what DefinitionFiles returns, docs what each of them holds.
IsDirectory(D) ==
    /\ D.files \in Seq(Paths)
    /\ \A i, j \in 1 .. Len(D.files) : D.files[i] = D.files[j] => i = j
    /\ DOMAIN D.docs = {D.files[i] : i \in 1 .. Len(D.files)}
    /\ \A f \in DOMAIN D.docs : D.docs[f] # Broken => IsDocument(D.docs[f], f, D.docs)

ASSUME MergeAssumption ==
    /\ Rank \in [Keys -> Nat]
    /\ \A k, l \in Keys : Rank[k] = Rank[l] => k = l
    /\ \A D \in Directories : IsDirectory(D)

VARIABLES
    dir,      \* the directory; read, never changed
    stage,    \* "load", "merge", then "merged" or "refused"
    at,       \* the file in hand
    failed,   \* files with an error of their own
    todo,     \* elements of the file in hand still to add
    holder,   \* byFold: the key that holds a folded name
    merged,   \* the merged messages and $defs
    origins,  \* where each merged element is written
    errs      \* pairs <<source, source that holds the name>>

vars == <<dir, stage, at, failed, todo, holder, merged, origins, errs>>

File == dir.files[at]
Doc == dir.docs[File]
Put(f, x, y) == [z \in DOMAIN f \cup {x} |-> IF z = x THEN y ELSE f[z]]

Init ==
    /\ dir \in Directories
    /\ stage = "load"
    /\ at = 1
    /\ failed = {}
    /\ todo = {}
    /\ holder = << >>
    /\ merged = << >>
    /\ origins = << >>
    /\ errs = {}

-----------------------------------------------------------------------------
\* One file on its own; its error is kept and the loop goes on.
LoadFile ==
    /\ stage = "load"
    /\ at <= Len(dir.files)
    /\ failed' = IF Doc = Broken THEN failed \cup {File} ELSE failed
    /\ at' = at + 1
    /\ UNCHANGED <<dir, stage, todo, holder, merged, origins, errs>>

\* An empty directory is an error of its own.
Loaded ==
    /\ stage = "load"
    /\ at > Len(dir.files)
    /\ at' = 1
    /\ IF failed # {} \/ dir.files = << >>
       THEN stage' = "refused" /\ todo' = {}
       ELSE stage' = "merge" /\ todo' = DOMAIN dir.docs[dir.files[1]]
    /\ UNCHANGED <<dir, failed, holder, merged, origins, errs>>

-----------------------------------------------------------------------------
\* The element Merge adds next.
Adding == stage = "merge" /\ todo # {}
Key == CHOOSE k \in todo : \A l \in todo : Rank[k] <= Rank[l]
Element == Doc[Key]

\* Faults: names are compared as written; the file decides what is the same
\* definition, not the place in it.
TakenAsSpelled(k) == k \in DOMAIN merged
SameFile(k, l) == Element.src[1] = origins[l][1]

\* byFold has the name.
Taken(k) == Fold(k) \in DOMAIN holder

\* One definition reached from two files.
SameSource(k, l) == Element.src = origins[l]

\* Fault: bodies of one name are not compared.
SameName(k, l) == k = l

\* One definition written twice: kind, name and body agree.
SameType(k, l) == k = l /\ merged[l] = Element.def

\* Fault: an element is credited to the file being merged.
AddForFile ==
    /\ Adding
    /\ ~ Taken(Key)
    /\ holder' = Put(holder, Fold(Key), Key)
    /\ merged' = Put(merged, Key, Element.def)
    /\ origins' = Put(origins, Key, <<File, Key>>)
    /\ todo' = todo \ {Key}
    /\ UNCHANGED <<dir, stage, at, failed, errs>>

Add ==
    /\ Adding
    /\ ~ Taken(Key)
    /\ holder' = Put(holder, Fold(Key), Key)
    /\ merged' = Put(merged, Key, Element.def)
    /\ origins' = Put(origins, Key, Element.src)
    /\ todo' = todo \ {Key}
    /\ UNCHANGED <<dir, stage, at, failed, errs>>

KeepOne ==
    /\ Adding
    /\ Taken(Key)
    /\ LET l == holder[Fold(Key)] IN SameSource(Key, l) \/ SameType(Key, l)
    /\ todo' = todo \ {Key}
    /\ UNCHANGED <<dir, stage, at, failed, holder, merged, origins, errs>>

\* Fault: one error ends the report.
ClashFirst ==
    /\ Adding
    /\ Taken(Key)
    /\ LET l == holder[Fold(Key)]
       IN /\ ~ SameSource(Key, l)
          /\ ~ SameType(Key, l)
          /\ errs' = IF errs = {} THEN {<<Element.src, origins[l]>>} ELSE errs
    /\ todo' = todo \ {Key}
    /\ UNCHANGED <<dir, stage, at, failed, holder, merged, origins>>

Clash ==
    /\ Adding
    /\ Taken(Key)
    /\ LET l == holder[Fold(Key)]
       IN /\ ~ SameSource(Key, l)
          /\ ~ SameType(Key, l)
          /\ errs' = errs \cup {<<Element.src, origins[l]>>}
    /\ todo' = todo \ {Key}
    /\ UNCHANGED <<dir, stage, at, failed, holder, merged, origins>>

NextFile ==
    /\ stage = "merge"
    /\ todo = {}
    /\ at < Len(dir.files)
    /\ at' = at + 1
    /\ todo' = DOMAIN dir.docs[dir.files[at + 1]]
    /\ UNCHANGED <<dir, stage, failed, holder, merged, origins, errs>>

Finish ==
    /\ stage = "merge"
    /\ todo = {}
    /\ at = Len(dir.files)
    /\ stage' = IF errs = {} THEN "merged" ELSE "refused"
    /\ UNCHANGED <<dir, at, failed, todo, holder, merged, origins, errs>>

Next == LoadFile \/ Loaded \/ Add \/ KeepOne \/ Clash \/ NextFile \/ Finish

Spec == Init /\ [][Next]_vars

-----------------------------------------------------------------------------
(* Properties.                                                             *)

\* The rule of LoadDir's comment, as a statement about the files alone.
Agree(f, k, g, l) ==
    LET one == dir.docs[f][k]
        other == dir.docs[g][l]
    IN Fold(k) = Fold(l) => one.src = other.src \/ (k = l /\ one.def = other.def)

Unambiguous ==
    \A f, g \in DOMAIN dir.docs : \A k \in DOMAIN dir.docs[f], l \in DOMAIN dir.docs[g] :
        Agree(f, k, g, l)

\* LoadDir's verdict is the one the files determine, whatever order their
\* names put them in: no broken file, no ambiguous name.
VerdictOfTheWhole ==
    stage \in {"merged", "refused"} =>
        (stage = "merged" <=> /\ dir.files # << >>
                              /\ \A f \in DOMAIN dir.docs : dir.docs[f] # Broken
                              /\ Unambiguous)

\* Every element of every file is in the merged document with the body its own
\* file gives it, so each file's references mean what they mean in it alone:
\* keeping one of two definitions never hands a user the other's layout.
NothingLost ==
    stage = "merged" => \A f \in DOMAIN dir.docs : \A k \in DOMAIN dir.docs[f] :
                            k \in DOMAIN merged /\ merged[k] = dir.docs[f][k].def

\* Every merged element has exactly one name, under folding.
OneNamespace ==
    \A k, l \in DOMAIN merged : Fold(k) = Fold(l) => k = l

\* Locate's answer is right: where an element is said to be written, a file of
\* the directory has it with this body.
OriginsTrue ==
    \A k \in DOMAIN merged : \E f \in DOMAIN dir.docs :
        /\ dir.docs[f] # Broken
        /\ k \in DOMAIN dir.docs[f]
        /\ dir.docs[f][k] = [def |-> merged[k], src |-> origins[k]]

\* The report blames only pairs that disagree, and leaves no ambiguous name out:
\* fixing what it names is enough.  The report of broken files is complete,
\* and nothing is merged beside it.
BlameRight ==
    /\ stage \in {"merge", "merged", "refused"} => failed = {f \in DOMAIN dir.docs : dir.docs[f] = Broken}
    /\ failed # {} => merged = << >>
    /\ stage = "refused" /\ failed = {} =>
        /\ \A e \in errs : e[1] # e[2] /\ Fold(e[1][2]) = Fold(e[2][2])
        /\ \A f, g \in DOMAIN dir.docs : \A k \in DOMAIN dir.docs[f], l \in DOMAIN dir.docs[g] :
              ~ Agree(f, k, g, l) => \E e \in errs : Fold(e[1][2]) = Fold(k)

=============================================================================
