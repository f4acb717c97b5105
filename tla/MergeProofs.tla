----------------------------- MODULE MergeProofs -----------------------------
(***************************************************************************)
(* Proofs about Merge, for every set of paths, keys and bodies and every   *)
(* directory: one namespace, nothing lost, true origins, a verdict that    *)
(* depends on the files alone, and a report that leaves nothing out.       *)
(***************************************************************************)
EXTENDS Merge, WellFoundedInduction, TLAPS

Count == Len(dir.files)
DocAt(j) == dir.docs[dir.files[j]]

\* The merged document holds element k as file f writes it.
Kept(f, k) == k \in DOMAIN merged /\ merged[k] = dir.docs[f][k].def

ShapeInv ==
    /\ dir \in Directories
    /\ stage \in {"load", "merge", "merged", "refused"}
    /\ at \in Nat \ {0}

\* While files are loaded nothing is merged; a broken file behind the loop is
\* in failed; what is in failed is broken.
LoadInv ==
    /\ failed \subseteq {f \in DOMAIN dir.docs : dir.docs[f] = Broken}
    /\ stage = "load" => \A j \in 1 .. Count : j < at /\ DocAt(j) = Broken => dir.files[j] \in failed
    /\ stage \in {"merge", "merged"} => Count # 0 /\ \A j \in 1 .. Count : DocAt(j) # Broken
    /\ stage = "merge" => at <= Count /\ todo \subseteq DOMAIN Doc
    /\ stage = "load" => errs = {}

\* holder is the inverse of folding on what is merged; what is merged is some
\* file's element.
NamesInv ==
    /\ \A k \in DOMAIN merged : Fold(k) \in DOMAIN holder /\ holder[Fold(k)] = k
    /\ \A n \in DOMAIN holder : holder[n] \in DOMAIN merged /\ Fold(holder[n]) = n
    /\ DOMAIN origins = DOMAIN merged
    /\ OriginsTrue

\* Unless an error was found, everything met so far is kept.
KeptInv ==
    /\ stage = "merge" /\ errs = {} =>
          /\ \A j \in 1 .. Count : j < at => \A k \in DOMAIN DocAt(j) : Kept(dir.files[j], k)
          /\ \A k \in DOMAIN Doc \ todo : Kept(File, k)
    /\ stage = "merged" => \A j \in 1 .. Count : \A k \in DOMAIN DocAt(j) : Kept(dir.files[j], k)

\* A verdict has its reason.
VerdictInv ==
    /\ errs # {} => \E f, g \in DOMAIN dir.docs : /\ dir.docs[f] # Broken /\ dir.docs[g] # Broken
                                                 /\ \E k \in DOMAIN dir.docs[f], l \in DOMAIN dir.docs[g] : ~ Agree(f, k, g, l)
    /\ stage = "refused" => failed # {} \/ dir.files = << >> \/ errs # {}

IInv == ShapeInv /\ LoadInv /\ NamesInv /\ KeptInv /\ VerdictInv

-----------------------------------------------------------------------------
\* Every nonempty set of natural numbers has a least one.
LEMMA HasLowest ==
    ASSUME NEW T, T \subseteq Nat, T # {}
    PROVE  \E i \in T : \A j \in T : i <= j
<1>1. IsWellFoundedOn(OpToRel(<, Nat), Nat)
  BY NatLessThanWellFounded
<1>2. PICK i \in T : \A j \in T : ~ (<<j, i>> \in OpToRel(<, Nat))
  BY <1>1, WFMin
<1>3. \A j \in T : ~ (j < i)
  BY <1>2 DEF OpToRel
<1> QED
  BY <1>3

\* The element to add next is one of those still to add.
LEMMA KeyChosen ==
    ASSUME NEW S, S \subseteq Keys, S # {}
    PROVE  (CHOOSE k \in S : \A l \in S : Rank[k] <= Rank[l]) \in S
<1> DEFINE R == {Rank[k] : k \in S}
<1>1. R \subseteq Nat /\ R # {}
  BY MergeAssumption
<1>2. PICK r \in R : \A q \in R : r <= q
  BY <1>1, HasLowest
<1>3. PICK k \in S : r = Rank[k]
  OBVIOUS
<1>4. \A l \in S : Rank[k] <= Rank[l]
  BY <1>2, <1>3
<1> QED
  BY <1>4

\* What IsDirectory says of the directory at hand.
LEMMA DirFacts ==
    ASSUME dir \in Directories
    PROVE  /\ Count \in Nat
           /\ DOMAIN dir.docs = {dir.files[i] : i \in 1 .. Count}
           /\ \A f \in DOMAIN dir.docs : dir.docs[f] # Broken =>
                /\ DOMAIN dir.docs[f] \subseteq Keys
                /\ \A k \in DOMAIN dir.docs[f] : dir.docs[f][k].src[2] = k
                /\ \A k \in DOMAIN dir.docs[f] :
                     dir.docs[f][k] = [def |-> dir.docs[f][k].def, src |-> dir.docs[f][k].src]
                /\ \A g \in DOMAIN dir.docs : dir.docs[g] # Broken =>
                     \A k \in DOMAIN dir.docs[f] \cap DOMAIN dir.docs[g] :
                        dir.docs[f][k].src = dir.docs[g][k].src => dir.docs[f][k].def = dir.docs[g][k].def
           /\ Count = 0 <=> dir.files = << >>
<1>1. IsDirectory(dir)
  BY MergeAssumption
<1>2. Count \in Nat /\ (Count = 0 <=> dir.files = << >>)
  BY <1>1 DEF IsDirectory, Count
<1>3. DOMAIN dir.docs = {dir.files[i] : i \in 1 .. Count}
  BY <1>1 DEF IsDirectory, Count
<1>4. \A f \in DOMAIN dir.docs : dir.docs[f] # Broken => IsDocument(dir.docs[f], f, dir.docs)
  BY <1>1 DEF IsDirectory
<1>5. \A f \in DOMAIN dir.docs : dir.docs[f] # Broken =>
         \A k \in DOMAIN dir.docs[f] : dir.docs[f][k] = [def |-> dir.docs[f][k].def, src |-> dir.docs[f][k].src]
  <2> SUFFICES ASSUME NEW f \in DOMAIN dir.docs, dir.docs[f] # Broken, NEW k \in DOMAIN dir.docs[f]
               PROVE  dir.docs[f][k] = [def |-> dir.docs[f][k].def, src |-> dir.docs[f][k].src]
    OBVIOUS
  <2>1. dir.docs[f][k] \in Elements
    BY <1>4 DEF IsDocument
  <2> QED
    BY <2>1 DEF Elements
<1>6. \A f \in DOMAIN dir.docs : dir.docs[f] # Broken =>
         /\ DOMAIN dir.docs[f] \subseteq Keys
         /\ \A k \in DOMAIN dir.docs[f] : dir.docs[f][k].src[2] = k
         /\ \A g \in DOMAIN dir.docs : dir.docs[g] # Broken =>
              \A k \in DOMAIN dir.docs[f] \cap DOMAIN dir.docs[g] :
                 dir.docs[f][k].src = dir.docs[g][k].src => dir.docs[f][k].def = dir.docs[g][k].def
  BY <1>4 DEF IsDocument
<1> QED
  BY <1>2, <1>3, <1>5, <1>6

LEMMA InitInv == Init => IInv
<1> SUFFICES ASSUME Init PROVE IInv
  OBVIOUS
<1>1. ShapeInv /\ LoadInv
  BY DirFacts DEF Init, ShapeInv, LoadInv
<1>2. NamesInv /\ KeptInv /\ VerdictInv
  BY DEF Init, NamesInv, OriginsTrue, KeptInv, VerdictInv
<1> QED
  BY <1>1, <1>2 DEF IInv

LEMMA LoadStep == IInv /\ LoadFile => IInv'
<1> SUFFICES ASSUME IInv, LoadFile PROVE IInv'
  OBVIOUS
<1>1. /\ stage = "load" /\ at <= Count /\ at' = at + 1 /\ stage' = stage /\ dir' = dir /\ errs' = errs
      /\ failed' = IF DocAt(at) = Broken THEN failed \cup {dir.files[at]} ELSE failed
      /\ holder' = holder /\ merged' = merged /\ origins' = origins
  BY DEF LoadFile, Count, DocAt, Doc, File
<1>2. at \in 1 .. Count /\ dir.files[at] \in DOMAIN dir.docs
  BY <1>1, DirFacts DEF IInv, ShapeInv
<1>3. ShapeInv'
  BY <1>1 DEF IInv, ShapeInv
<1>4. LoadInv'
  <2>1. failed' \subseteq {f \in DOMAIN dir.docs : dir.docs[f] = Broken}
    BY <1>1, <1>2 DEF IInv, LoadInv, DocAt
  <2>2. \A j \in 1 .. Count : j < at + 1 /\ DocAt(j) = Broken => dir.files[j] \in failed'
    BY <1>1, <1>2 DEF IInv, LoadInv
  <2> QED
    BY <2>1, <2>2, <1>1 DEF IInv, LoadInv, Count, DocAt
<1>5. NamesInv' /\ KeptInv'
  BY <1>1 DEF IInv, NamesInv, OriginsTrue, KeptInv, Fold
<1>6. VerdictInv'
  BY <1>1 DEF IInv, LoadInv, VerdictInv
<1> QED
  BY <1>3, <1>4, <1>5, <1>6 DEF IInv

LEMMA LoadedStep == IInv /\ Loaded => IInv'
<1> SUFFICES ASSUME IInv, Loaded PROVE IInv'
  OBVIOUS
<1>1. /\ stage = "load" /\ at > Count /\ at' = 1 /\ dir' = dir /\ errs' = errs /\ errs = {}
      /\ failed' = failed /\ holder' = holder /\ merged' = merged /\ origins' = origins
  BY DEF Loaded, Count, IInv, LoadInv
<1>2. Count \in Nat /\ at \in Nat
  BY DirFacts DEF IInv, ShapeInv
<1>3. NamesInv'
  BY <1>1 DEF IInv, NamesInv, OriginsTrue, Fold
<1>4. CASE failed # {} \/ dir.files = << >>
  <2>1. stage' = "refused"
    BY <1>4 DEF Loaded
  <2>2. ShapeInv' /\ LoadInv' /\ KeptInv' /\ VerdictInv'
    BY <2>1, <1>1, <1>4 DEF IInv, ShapeInv, LoadInv, KeptInv, VerdictInv
  <2> QED
    BY <2>2, <1>3 DEF IInv
<1>5. CASE failed = {} /\ dir.files # << >>
  <2>1. stage' = "merge" /\ todo' = DOMAIN DocAt(1)
    BY <1>5 DEF Loaded, DocAt
  <2>2. Count # 0 /\ \A j \in 1 .. Count : DocAt(j) # Broken
    BY <1>1, <1>2, <1>5, DirFacts DEF IInv, ShapeInv, LoadInv
  <2>3. LoadInv'
    BY <2>1, <2>2, <1>1, <1>2 DEF IInv, LoadInv, Count, DocAt, Doc, File
  <2>4. KeptInv'
    BY <2>1, <1>1 DEF KeptInv, Count, DocAt, Doc, File
  <2>5. ShapeInv' /\ VerdictInv'
    BY <2>1, <1>1 DEF IInv, ShapeInv, VerdictInv
  <2> QED
    BY <2>3, <2>4, <2>5, <1>3 DEF IInv
<1> QED
  BY <1>4, <1>5

\* What is known of the element in hand.
LEMMA AtElement ==
    ASSUME IInv, Adding
    PROVE  /\ at \in 1 .. Count /\ stage = "merge" /\ File \in DOMAIN dir.docs
           /\ Doc # Broken /\ Doc = dir.docs[File] /\ Doc = DocAt(at) /\ File = dir.files[at]
           /\ Key \in todo /\ Key \in DOMAIN Doc /\ Key \in Keys
           /\ Element.src[2] = Key
           /\ Element = [def |-> Element.def, src |-> Element.src]
<1>1. stage = "merge" /\ todo # {}
  BY DEF Adding
<1>2. at \in 1 .. Count /\ DocAt(at) # Broken /\ dir.files[at] \in DOMAIN dir.docs
  BY <1>1, DirFacts DEF IInv, ShapeInv, LoadInv
<1>3. Doc = DocAt(at) /\ File = dir.files[at] /\ Doc = dir.docs[File]
  BY DEF Doc, File, DocAt
<1>4. todo \subseteq DOMAIN Doc /\ DOMAIN Doc \subseteq Keys
  BY <1>1, <1>2, <1>3, DirFacts DEF IInv, ShapeInv, LoadInv
<1>5. Key \in todo
  BY <1>1, <1>4, KeyChosen DEF Key
<1>6. Element.src[2] = Key
  BY <1>2, <1>3, <1>4, <1>5, DirFacts DEF IInv, ShapeInv, Element
<1>7. Element = [def |-> Element.def, src |-> Element.src]
  <2>1. \A k \in DOMAIN Doc : Doc[k] = [def |-> Doc[k].def, src |-> Doc[k].src]
    BY <1>2, <1>3, DirFacts DEF IInv, ShapeInv
  <2> QED
    BY <2>1, <1>4, <1>5 DEF Element
<1> QED
  BY <1>1, <1>2, <1>3, <1>4, <1>5, <1>6, <1>7

LEMMA AddStep == IInv /\ Add => IInv'
<1> SUFFICES ASSUME IInv, Add PROVE IInv'
  OBVIOUS
<1>1. /\ Adding /\ ~ Taken(Key) /\ todo' = todo \ {Key}
      /\ dir' = dir /\ stage' = stage /\ at' = at /\ failed' = failed /\ errs' = errs
      /\ holder' = Put(holder, Fold(Key), Key)
      /\ merged' = Put(merged, Key, Element.def)
      /\ origins' = Put(origins, Key, Element.src)
  BY DEF Add
<1>2. /\ at \in 1 .. Count /\ stage = "merge" /\ File \in DOMAIN dir.docs
      /\ Doc # Broken /\ Doc = dir.docs[File] /\ Doc = DocAt(at) /\ File = dir.files[at]
      /\ Key \in todo /\ Key \in DOMAIN Doc /\ Key \in Keys
  BY <1>1, AtElement
<1> DEFINE k0 == Key
           e0 == Element
<1>3. Key \notin DOMAIN merged
  BY <1>1 DEF IInv, NamesInv, Taken
<1>4. ShapeInv' /\ LoadInv' /\ VerdictInv'
  <2>1. LoadInv'
    BY <1>1 DEF IInv, LoadInv, Count, DocAt, Doc, File
  <2>2. VerdictInv'
    BY <1>1 DEF IInv, VerdictInv, Agree, Fold
  <2> QED
    BY <2>1, <2>2, <1>1 DEF IInv, ShapeInv
<1>5. \A k : Kept(File, k) => k \in DOMAIN merged
  BY DEF Kept
<1>6. /\ DOMAIN merged' = DOMAIN merged \cup {k0} /\ merged'[k0] = Element.def
      /\ \A k \in DOMAIN merged : k # k0 /\ merged'[k] = merged[k]
  BY <1>1, <1>3 DEF Put
<1>7. /\ DOMAIN origins' = DOMAIN origins \cup {k0} /\ origins'[k0] = Element.src
      /\ \A k \in DOMAIN origins : k # k0 => origins'[k] = origins[k]
  BY <1>1 DEF Put
<1>8. /\ DOMAIN holder' = DOMAIN holder \cup {Fold(k0)} /\ holder'[Fold(k0)] = k0
      /\ \A n \in DOMAIN holder : n # Fold(k0) /\ holder'[n] = holder[n]
  BY <1>1 DEF Put, Taken
<1>9. OriginsTrue'
  <2>1. dir.docs[File][k0] = [def |-> Element.def, src |-> Element.src]
    <3>1. Element = [def |-> Element.def, src |-> Element.src]
      BY <1>1, AtElement
    <3>2. Element = dir.docs[File][k0]
      BY DEF Element, Doc
    <3> QED
      BY <3>1, <3>2
  <2>2. dir.docs[File][k0] = [def |-> merged'[k0], src |-> origins'[k0]]
    BY <2>1, <1>6, <1>7
  <2>3. \A k \in DOMAIN merged : merged'[k] = merged[k] /\ origins'[k] = origins[k]
    BY <1>6, <1>7 DEF IInv, NamesInv
  <2>4. \A k \in DOMAIN merged : \E f \in DOMAIN dir.docs :
          dir.docs[f] # Broken /\ k \in DOMAIN dir.docs[f] /\ dir.docs[f][k] = [def |-> merged'[k], src |-> origins'[k]]
    BY <2>3 DEF IInv, NamesInv, OriginsTrue
  <2> QED
    BY <2>2, <2>4, <1>1, <1>2, <1>6 DEF OriginsTrue
<1>10. NamesInv'
  BY <1>6, <1>7, <1>8, <1>9 DEF IInv, NamesInv, Fold
<1>11. KeptInv'
  <2>1. \A f, k : Kept(f, k) => k \in DOMAIN merged' /\ merged'[k] = dir.docs[f][k].def
    BY <1>6 DEF Kept
  <2>2. k0 \in DOMAIN merged' /\ merged'[k0] = Doc[k0].def
    BY <1>6 DEF Element
  <2>3. SUFFICES ASSUME errs = {}
                 PROVE  /\ \A j \in 1 .. Count : j < at =>
                              \A k \in DOMAIN DocAt(j) : k \in DOMAIN merged' /\ merged'[k] = DocAt(j)[k].def
                        /\ \A k \in DOMAIN Doc \ (todo \ {k0}) : k \in DOMAIN merged' /\ merged'[k] = Doc[k].def
    BY <1>1, <1>2 DEF KeptInv, Kept, DocAt, Doc, File, Count
  <2>4. \A j \in 1 .. Count : j < at => \A k \in DOMAIN DocAt(j) : Kept(dir.files[j], k)
    BY <2>3, <1>2 DEF IInv, KeptInv
  <2>5. \A k \in DOMAIN Doc \ todo : Kept(File, k)
    BY <2>3, <1>2 DEF IInv, KeptInv
  <2>6. \A j \in 1 .. Count : j < at =>
          \A k \in DOMAIN DocAt(j) : k \in DOMAIN merged' /\ merged'[k] = DocAt(j)[k].def
    BY <2>1, <2>4 DEF DocAt
  <2>7. \A k \in DOMAIN Doc \ todo : k \in DOMAIN merged' /\ merged'[k] = Doc[k].def
    <3>1. \A k : Kept(File, k) => k \in DOMAIN merged' /\ merged'[k] = Doc[k].def
      BY <2>1 DEF Doc
    <3> QED
      BY <3>1, <2>5
  <2>8. \A k \in DOMAIN Doc \ (todo \ {k0}) : k \in DOMAIN merged' /\ merged'[k] = Doc[k].def
    BY <2>2, <2>7
  <2> QED
    BY <2>6, <2>8
<1> QED
  BY <1>4, <1>10, <1>11 DEF IInv

\* The holder of the folded name of the element in hand is merged from the
\* document of some file, and its source names its key.
LEMMA AtHolder ==
    ASSUME IInv, Adding, Taken(Key), NEW l, l = holder[Fold(Key)]
    PROVE  /\ l \in DOMAIN merged /\ Fold(l) = Fold(Key)
           /\ \E g \in DOMAIN dir.docs :
                /\ dir.docs[g] # Broken
                /\ l \in DOMAIN dir.docs[g]
                /\ dir.docs[g][l].def = merged[l] /\ dir.docs[g][l].src = origins[l]
                /\ origins[l][2] = l
<1>1. l \in DOMAIN merged /\ Fold(l) = Fold(Key)
  BY DEF IInv, NamesInv, Taken
<1>2. PICK g \in DOMAIN dir.docs :
         /\ dir.docs[g] # Broken
         /\ l \in DOMAIN dir.docs[g]
         /\ dir.docs[g][l] = [def |-> merged[l], src |-> origins[l]]
  BY <1>1 DEF IInv, NamesInv, OriginsTrue
<1>3. dir.docs[g][l].def = merged[l] /\ dir.docs[g][l].src = origins[l]
  BY <1>2
<1>4. origins[l][2] = l
  BY <1>2, <1>3, DirFacts DEF IInv, ShapeInv
<1> QED
  BY <1>1, <1>2, <1>3, <1>4

\* An element Merge passes over is merged already, as this file writes it: one
\* source is one key and, as both files copy it, one body.
LEMMA KeptAlready == IInv /\ KeepOne => Kept(File, Key)
<1> SUFFICES ASSUME IInv, KeepOne PROVE Kept(File, Key)
  OBVIOUS
<1> DEFINE k0 == Key
           l == holder[Fold(Key)]
<1>1. Adding /\ Taken(Key) /\ (SameSource(k0, l) \/ SameType(k0, l))
  BY DEF KeepOne
<1>2. /\ File \in DOMAIN dir.docs /\ Doc # Broken /\ Doc = dir.docs[File]
      /\ k0 \in DOMAIN Doc /\ Element.src[2] = k0
  BY <1>1, AtElement
<1>3. l \in DOMAIN merged
  BY <1>1, AtHolder
<1>4. PICK g \in DOMAIN dir.docs :
         /\ dir.docs[g] # Broken
         /\ l \in DOMAIN dir.docs[g]
         /\ dir.docs[g][l].def = merged[l] /\ dir.docs[g][l].src = origins[l]
         /\ origins[l][2] = l
  BY <1>1, AtHolder
<1>5. CASE SameType(k0, l)
  BY <1>5, <1>3, <1>2 DEF SameType, Element, Kept
<1>6. CASE SameSource(k0, l)
  <2>1. k0 = l /\ Doc[k0].src = dir.docs[g][k0].src
    BY <1>6, <1>2, <1>4 DEF SameSource, Element
  <2>2. k0 \in DOMAIN dir.docs[File] \cap DOMAIN dir.docs[g]
    BY <2>1, <1>2, <1>4
  <2>3. dir.docs[File][k0].def = dir.docs[g][k0].def
    BY <2>1, <2>2, <1>2, <1>4, DirFacts DEF IInv, ShapeInv
  <2> QED
    BY <2>1, <2>3, <1>2, <1>3, <1>4 DEF Kept
<1> QED
  BY <1>5, <1>6, <1>1

LEMMA KeepStep == IInv /\ KeepOne => IInv'
<1> SUFFICES ASSUME IInv, KeepOne PROVE IInv'
  OBVIOUS
<1> DEFINE k0 == Key
<1>1. /\ Adding /\ Taken(Key) /\ todo' = todo \ {k0}
      /\ dir' = dir /\ stage' = stage /\ at' = at /\ failed' = failed /\ errs' = errs
      /\ holder' = holder /\ merged' = merged /\ origins' = origins
  BY DEF KeepOne
<1>2. /\ at \in 1 .. Count /\ stage = "merge" /\ File \in DOMAIN dir.docs
      /\ Doc # Broken /\ Doc = dir.docs[File]
      /\ k0 \in DOMAIN Doc
  BY <1>1, AtElement
<1>3. k0 \in DOMAIN merged /\ merged[k0] = Doc[k0].def
  BY <1>2, KeptAlready DEF Kept
<1>4. ShapeInv' /\ LoadInv' /\ NamesInv' /\ VerdictInv'
  <2>1. LoadInv'
    BY <1>1 DEF IInv, LoadInv, Count, DocAt, Doc, File
  <2>2. NamesInv'
    BY <1>1 DEF IInv, NamesInv, OriginsTrue, Fold
  <2>3. ShapeInv' /\ VerdictInv'
    BY <1>1 DEF IInv, ShapeInv, VerdictInv, Agree, Fold
  <2> QED
    BY <2>1, <2>2, <2>3
<1>5. KeptInv'
  <2>1. SUFFICES ASSUME errs = {}
                 PROVE  /\ \A j \in 1 .. Count : j < at => \A k \in DOMAIN DocAt(j) : Kept(dir.files[j], k)
                        /\ \A k \in DOMAIN Doc \ (todo \ {k0}) : Kept(File, k)
    BY <1>1, <1>2 DEF KeptInv, Kept, DocAt, Doc, File, Count
  <2>2. Kept(File, k0)
    BY <1>3 DEF Kept, Doc
  <2>3. /\ \A j \in 1 .. Count : j < at => \A k \in DOMAIN DocAt(j) : Kept(dir.files[j], k)
        /\ \A k \in DOMAIN Doc \ todo : Kept(File, k)
    BY <2>1, <1>2 DEF IInv, KeptInv
  <2> QED
    BY <2>2, <2>3
<1> QED
  BY <1>4, <1>5 DEF IInv

LEMMA ClashStep == IInv /\ Clash => IInv'
<1> SUFFICES ASSUME IInv, Clash PROVE IInv'
  OBVIOUS
<1> DEFINE k0 == Key
           l == holder[Fold(Key)]
<1>1. /\ Adding /\ Taken(Key) /\ todo' = todo \ {k0}
      /\ ~ SameSource(k0, l) /\ ~ SameType(k0, l)
      /\ errs' = errs \cup {<<Element.src, origins[l]>>}
      /\ dir' = dir /\ stage' = stage /\ at' = at /\ failed' = failed
      /\ holder' = holder /\ merged' = merged /\ origins' = origins
  BY DEF Clash
<1>2. /\ stage = "merge" /\ File \in DOMAIN dir.docs
      /\ Doc # Broken /\ Doc = dir.docs[File] /\ k0 \in DOMAIN Doc
  BY <1>1, AtElement
<1>3. Fold(l) = Fold(k0)
  BY <1>1, AtHolder
<1>4. PICK g \in DOMAIN dir.docs :
         /\ dir.docs[g] # Broken
         /\ l \in DOMAIN dir.docs[g]
         /\ dir.docs[g][l].def = merged[l] /\ dir.docs[g][l].src = origins[l]
  BY <1>1, AtHolder
<1>5. ~ Agree(File, k0, g, l)
  BY <1>1, <1>3, <1>4 DEF Agree, SameSource, SameType, Element, Doc
<1>6. VerdictInv'
  <2>1. \E f, h \in DOMAIN dir.docs : /\ dir.docs[f] # Broken /\ dir.docs[h] # Broken
           /\ \E k \in DOMAIN dir.docs[f], m \in DOMAIN dir.docs[h] : ~ Agree(f, k, h, m)
    BY <1>2, <1>4, <1>5
  <2> QED
    BY <2>1, <1>1, <1>2 DEF VerdictInv, Agree, Fold
<1>7. LoadInv'
  BY <1>1, <1>2 DEF IInv, LoadInv, Count, DocAt, Doc, File
<1>8. NamesInv'
  BY <1>1 DEF IInv, NamesInv, OriginsTrue, Fold
<1>9. ShapeInv' /\ KeptInv'
  BY <1>1, <1>2 DEF IInv, ShapeInv, KeptInv
<1> QED
  BY <1>6, <1>7, <1>8, <1>9 DEF IInv

LEMMA NextFileStep == IInv /\ NextFile => IInv'
<1> SUFFICES ASSUME IInv, NextFile PROVE IInv'
  OBVIOUS
<1>1. /\ stage = "merge" /\ todo = {} /\ at < Count /\ at' = at + 1 /\ todo' = DOMAIN DocAt(at + 1)
      /\ dir' = dir /\ stage' = stage /\ failed' = failed /\ errs' = errs
      /\ holder' = holder /\ merged' = merged /\ origins' = origins
  BY DEF NextFile, Count, DocAt
<1>2. Count \in Nat /\ at \in Nat /\ at # 0
  BY DirFacts DEF IInv, ShapeInv
<1>3. LoadInv'
  BY <1>1, <1>2 DEF IInv, LoadInv, Count, DocAt, Doc, File
<1>4. NamesInv'
  BY <1>1 DEF IInv, NamesInv, OriginsTrue, Fold
<1>5. ShapeInv' /\ VerdictInv'
  BY <1>1, <1>2 DEF IInv, ShapeInv, VerdictInv, Agree, Fold
<1>6. KeptInv'
  <2>1. SUFFICES ASSUME errs = {}
                 PROVE  \A j \in 1 .. Count : j < at + 1 => \A k \in DOMAIN DocAt(j) : Kept(dir.files[j], k)
    BY <1>1 DEF KeptInv, Kept, DocAt, Doc, File, Count
  <2>2. \A k \in DOMAIN DocAt(at) : Kept(dir.files[at], k)
    BY <2>1, <1>1 DEF IInv, KeptInv, Doc, File, DocAt
  <2>3. \A j \in 1 .. Count : j < at => \A k \in DOMAIN DocAt(j) : Kept(dir.files[j], k)
    BY <2>1, <1>1 DEF IInv, KeptInv
  <2>4. \A j \in 1 .. Count : j < at + 1 => j < at \/ j = at
    BY <1>2
  <2> QED
    BY <2>2, <2>3, <2>4
<1> QED
  BY <1>3, <1>4, <1>5, <1>6 DEF IInv

LEMMA FinishStep == IInv /\ Finish => IInv'
<1> SUFFICES ASSUME IInv, Finish PROVE IInv'
  OBVIOUS
<1>1. /\ stage = "merge" /\ todo = {} /\ at = Count /\ at' = at /\ todo' = todo
      /\ stage' = IF errs = {} THEN "merged" ELSE "refused"
      /\ dir' = dir /\ failed' = failed /\ errs' = errs
      /\ holder' = holder /\ merged' = merged /\ origins' = origins
  BY DEF Finish, Count
<1>2. Count \in Nat
  BY DirFacts DEF IInv, ShapeInv
<1>3. LoadInv'
  BY <1>1 DEF IInv, LoadInv, Count, DocAt
<1>4. NamesInv'
  BY <1>1 DEF IInv, NamesInv, OriginsTrue, Fold
<1>5. ShapeInv' /\ VerdictInv'
  BY <1>1 DEF IInv, ShapeInv, VerdictInv, Agree, Fold
<1>6. KeptInv'
  <2>1. SUFFICES ASSUME errs = {}
                 PROVE  \A j \in 1 .. Count : \A k \in DOMAIN DocAt(j) : Kept(dir.files[j], k)
    BY <1>1 DEF KeptInv, Kept, DocAt, Count
  <2>2. \A k \in DOMAIN DocAt(at) : Kept(dir.files[at], k)
    BY <2>1, <1>1 DEF IInv, KeptInv, Doc, File, DocAt
  <2>3. \A j \in 1 .. Count : j < at => \A k \in DOMAIN DocAt(j) : Kept(dir.files[j], k)
    BY <2>1, <1>1 DEF IInv, KeptInv
  <2>4. \A j \in 1 .. Count : j < at \/ j = at
    BY <1>1, <1>2
  <2> QED
    BY <2>2, <2>3, <2>4
<1> QED
  BY <1>3, <1>4, <1>5, <1>6 DEF IInv

LEMMA StutterStep == IInv /\ UNCHANGED vars => IInv'
<1> SUFFICES ASSUME IInv, UNCHANGED vars PROVE IInv'
  OBVIOUS
<1>1. /\ dir' = dir /\ stage' = stage /\ at' = at /\ failed' = failed /\ todo' = todo
      /\ holder' = holder /\ merged' = merged /\ origins' = origins /\ errs' = errs
  BY DEF vars
<1>2. ShapeInv' /\ LoadInv'
  BY <1>1 DEF IInv, ShapeInv, LoadInv, Count, DocAt, Doc, File
<1>3. NamesInv'
  BY <1>1 DEF IInv, NamesInv, OriginsTrue, Fold
<1>4. KeptInv'
  BY <1>1 DEF IInv, KeptInv, Kept, Count, DocAt, Doc, File
<1>5. VerdictInv'
  BY <1>1 DEF IInv, VerdictInv, Agree, Fold
<1> QED
  BY <1>2, <1>3, <1>4, <1>5 DEF IInv

LEMMA IInvHolds == Spec => []IInv
<1>1. IInv /\ [Next]_vars => IInv'
  BY LoadStep, LoadedStep, AddStep, KeepStep, ClashStep, NextFileStep, FinishStep, StutterStep DEF Next
<1> QED
  BY InitInv, <1>1, PTL DEF Spec

-----------------------------------------------------------------------------
\* In a merged directory every file finds each of its elements, as it wrote or
\* imported it.
LEMMA KeptByFile ==
    ASSUME IInv, stage = "merged", NEW f \in DOMAIN dir.docs
    PROVE  dir.docs[f] # Broken /\ \A k \in DOMAIN dir.docs[f] : Kept(f, k)
<1>1. PICK j \in 1 .. Count : f = dir.files[j]
  BY DirFacts DEF IInv, ShapeInv
<1> QED
  BY <1>1 DEF IInv, LoadInv, KeptInv, DocAt

\* Keeping one of two definitions never hands a file the other's layout
\* (Merge: every element that was not kept equals the one that was).
THEOREM KeepsAll == Spec => []NothingLost
<1>1. IInv => NothingLost
  BY KeptByFile DEF NothingLost, Kept
<1> QED
  BY <1>1, IInvHolds, PTL

\* No two names of the merged document fold to one, in whatever order the
\* files come (Merge's byFold).
THEOREM OneName == Spec => []OneNamespace
<1>1. IInv => OneNamespace
  BY DEF IInv, NamesInv, OneNamespace
<1> QED
  BY <1>1, IInvHolds, PTL

\* Where Merge's origins say an element is written, a file of the directory has
\* it with the merged body, though another file brought it in.
THEOREM OriginsRight == Spec => []OriginsTrue
<1>1. IInv => OriginsTrue
  BY DEF IInv, NamesInv
<1> QED
  BY <1>1, IInvHolds, PTL

\* LoadDir accepts a directory exactly when no file is broken and no name is
\* ambiguous: the order of the file names decides nothing.
THEOREM Verdict == Spec => []VerdictOfTheWhole
<1>1. ASSUME IInv, stage = "merged"
      PROVE  dir.files # << >> /\ (\A f \in DOMAIN dir.docs : dir.docs[f] # Broken) /\ Unambiguous
  <2>1. dir.files # << >>
    BY <1>1, DirFacts DEF IInv, ShapeInv, LoadInv
  <2>2. \A f \in DOMAIN dir.docs : dir.docs[f] # Broken
    BY <1>1, KeptByFile
  <2>3. ASSUME NEW f \in DOMAIN dir.docs, NEW g \in DOMAIN dir.docs,
               NEW k \in DOMAIN dir.docs[f], NEW l \in DOMAIN dir.docs[g], Fold(k) = Fold(l)
        PROVE  k = l /\ dir.docs[f][k].def = dir.docs[g][l].def
    <3>1. Kept(f, k) /\ Kept(g, l)
      BY <1>1, KeptByFile
    <3>2. k = l
      BY <1>1, <3>1, <2>3 DEF IInv, NamesInv, Kept
    <3> QED
      BY <3>1, <3>2 DEF Kept
  <2> QED
    BY <2>1, <2>2, <2>3 DEF Unambiguous, Agree
<1>2. ASSUME IInv, stage = "refused"
      PROVE  ~ (dir.files # << >> /\ (\A f \in DOMAIN dir.docs : dir.docs[f] # Broken) /\ Unambiguous)
  <2>1. CASE failed # {}
    BY <2>1, <1>2 DEF IInv, LoadInv
  <2>2. CASE dir.files = << >>
    BY <2>2
  <2>3. CASE errs # {}
    BY <2>3, <1>2 DEF IInv, VerdictInv, Unambiguous
  <2> QED
    BY <2>1, <2>2, <2>3, <1>2 DEF IInv, VerdictInv
<1>3. IInv => VerdictOfTheWhole
  BY <1>1, <1>2 DEF VerdictOfTheWhole
<1> QED
  BY <1>3, IInvHolds, PTL

-----------------------------------------------------------------------------
(* The report.                                                             *)

\* An error names the fold of k.
Blamed(k) == \E e \in errs : Fold(e[1][2]) = Fold(k)
Accounted(f, k) == Kept(f, k) \/ Blamed(k)

\* The broken files are all in failed before anything is merged; an error is of
\* two sources with one folded name.
ReportInv ==
    /\ stage # "load" => failed = {f \in DOMAIN dir.docs : dir.docs[f] = Broken}
    /\ stage = "load" => merged = << >>
    /\ failed # {} => merged = << >>
    /\ \A e \in errs : e[1] # e[2] /\ Fold(e[1][2]) = Fold(e[2][2])

\* Every element met so far is kept or its name is blamed.
MetInv ==
    /\ stage = "merge" =>
          /\ \A j \in 1 .. Count : j < at => \A k \in DOMAIN DocAt(j) : Accounted(dir.files[j], k)
          /\ \A k \in DOMAIN Doc \ todo : Accounted(File, k)
    /\ stage = "refused" /\ failed = {} =>
          \A j \in 1 .. Count : \A k \in DOMAIN DocAt(j) : Accounted(dir.files[j], k)

\* Only a directory without broken files is merged.
LEMMA NoneFailed == IInv /\ stage = "merge" => failed = {}
<1> SUFFICES ASSUME IInv, stage = "merge" PROVE failed = {}
  OBVIOUS
<1>1. \A f \in DOMAIN dir.docs : dir.docs[f] # Broken
  BY DirFacts DEF IInv, ShapeInv, LoadInv, DocAt
<1> QED
  BY <1>1 DEF IInv, LoadInv

LEMMA ReportInit == Init => ReportInv /\ MetInv
BY DEF Init, ReportInv, MetInv

LEMMA ReportLoad == IInv /\ ReportInv /\ MetInv /\ LoadFile => ReportInv' /\ MetInv'
<1> SUFFICES ASSUME ReportInv, LoadFile PROVE ReportInv' /\ MetInv'
  OBVIOUS
<1>1. stage = "load" /\ stage' = stage /\ dir' = dir /\ errs' = errs /\ merged' = merged
  BY DEF LoadFile
<1> QED
  BY <1>1 DEF ReportInv, MetInv, Fold

LEMMA ReportLoaded == IInv /\ ReportInv /\ MetInv /\ Loaded => ReportInv' /\ MetInv'
<1> SUFFICES ASSUME IInv, ReportInv, Loaded PROVE ReportInv' /\ MetInv'
  OBVIOUS
<1>1. /\ stage = "load" /\ at > Count /\ at' = 1 /\ dir' = dir /\ errs' = errs
      /\ failed' = failed /\ merged' = merged /\ stage' # "load"
  BY DEF Loaded, Count
<1>2. /\ Count \in Nat /\ at \in Nat
      /\ DOMAIN dir.docs = {dir.files[i] : i \in 1 .. Count}
      /\ Count = 0 <=> dir.files = << >>
  BY DirFacts DEF IInv, ShapeInv
<1>3. failed = {f \in DOMAIN dir.docs : dir.docs[f] = Broken}
  <2>1. \A j \in 1 .. Count : DocAt(j) = Broken => dir.files[j] \in failed
    BY <1>1, <1>2 DEF IInv, LoadInv
  <2> QED
    BY <2>1, <1>2 DEF IInv, LoadInv, DocAt
<1>4. ReportInv'
  BY <1>1, <1>3 DEF ReportInv, Fold
<1>5. MetInv'
  <2>1. stage' = "merge" => todo' = DOMAIN Doc' /\ \A j \in 1 .. Count : ~ (j < at')
    BY <1>1, <1>2 DEF Loaded, Doc, File
  <2>2. stage' = "refused" /\ failed' = {} => Count = 0
    BY <1>1, <1>2, SMTT(30) DEF Loaded
  <2> QED
    BY <2>1, <2>2, <1>1, <1>2 DEF MetInv, Count
<1> QED
  BY <1>4, <1>5

\* Accounted, said of an element of today after the step.
AccountedNext(f, k) ==
    \/ k \in DOMAIN merged' /\ merged'[k] = dir.docs[f][k].def
    \/ \E e \in errs' : Fold(e[1][2]) = Fold(k)

\* A step of the merge that takes the element in hand off todo, drops nothing,
\* and keeps or blames it, keeps MetInv.
LEMMA MetStep ==
    ASSUME MetInv, Adding, UNCHANGED <<dir, stage, at>>, todo' = todo \ {Key},
           \A k \in DOMAIN merged : k \in DOMAIN merged' /\ merged'[k] = merged[k],
           errs \subseteq errs',
           AccountedNext(File, Key)
    PROVE  MetInv'
<1> DEFINE k0 == Key
<1>1. stage = "merge" /\ stage' = "merge" /\ dir' = dir /\ at' = at
  BY DEF Adding
<1>2. \A f, k : Accounted(f, k) => AccountedNext(f, k)
  BY DEF Accounted, Kept, Blamed, AccountedNext
<1>3. \A j \in 1 .. Count : j < at => \A k \in DOMAIN DocAt(j) : AccountedNext(dir.files[j], k)
  BY <1>1, <1>2 DEF MetInv
<1>4. \A k \in DOMAIN Doc \ (todo \ {k0}) : AccountedNext(File, k)
  <2>1. \A k \in DOMAIN Doc \ todo : AccountedNext(File, k)
    BY <1>1, <1>2 DEF MetInv
  <2> QED
    BY <2>1
<1>5. todo' = todo \ {k0}
  OBVIOUS
<1> HIDE DEF k0
<1> QED
  BY <1>1, <1>3, <1>4, <1>5 DEF MetInv, Count, DocAt, Doc, File, Accounted, Kept, Blamed, Fold, AccountedNext

LEMMA ReportAdd == IInv /\ ReportInv /\ MetInv /\ Add => ReportInv' /\ MetInv'
<1> SUFFICES ASSUME IInv, ReportInv, MetInv, Add PROVE ReportInv' /\ MetInv'
  OBVIOUS
<1>1. /\ Adding /\ ~ Taken(Key) /\ todo' = todo \ {Key}
      /\ dir' = dir /\ stage' = stage /\ at' = at /\ failed' = failed /\ errs' = errs
      /\ merged' = Put(merged, Key, Element.def)
  BY DEF Add
<1>2. stage = "merge" /\ failed = {}
  BY <1>1, NoneFailed DEF Adding
<1>3. ReportInv'
  BY <1>1, <1>2 DEF ReportInv, Fold
<1>4. Key \notin DOMAIN merged
  BY <1>1 DEF IInv, NamesInv, Taken
<1>5. \A k \in DOMAIN merged : k \in DOMAIN merged' /\ merged'[k] = merged[k]
  BY <1>1, <1>4 DEF Put
<1> DEFINE k0 == Key
<1>6. k0 \in DOMAIN merged' /\ merged'[k0] = Doc[k0].def
  BY <1>1 DEF Put, Element
<1>7. MetInv'
  BY <1>1, <1>5, <1>6, MetStep DEF AccountedNext, Doc
<1> QED
  BY <1>3, <1>7

LEMMA ReportKeep == IInv /\ ReportInv /\ MetInv /\ KeepOne => ReportInv' /\ MetInv'
<1> SUFFICES ASSUME IInv, ReportInv, MetInv, KeepOne PROVE ReportInv' /\ MetInv'
  OBVIOUS
<1>1. /\ Adding /\ todo' = todo \ {Key}
      /\ dir' = dir /\ stage' = stage /\ at' = at /\ failed' = failed /\ errs' = errs
      /\ merged' = merged
  BY DEF KeepOne
<1>2. Kept(File, Key)
  BY KeptAlready
<1>3. ReportInv'
  BY <1>1 DEF ReportInv, Fold
<1>4. MetInv'
  BY <1>1, <1>2, MetStep DEF AccountedNext, Kept
<1> QED
  BY <1>3, <1>4

LEMMA ReportClash == IInv /\ ReportInv /\ MetInv /\ Clash => ReportInv' /\ MetInv'
<1> SUFFICES ASSUME IInv, ReportInv, MetInv, Clash PROVE ReportInv' /\ MetInv'
  OBVIOUS
<1> DEFINE l == holder[Fold(Key)]
           e0 == <<Element.src, origins[l]>>
<1>1. /\ Adding /\ Taken(Key) /\ ~ SameSource(Key, l) /\ todo' = todo \ {Key}
      /\ errs' = errs \cup {e0}
      /\ dir' = dir /\ stage' = stage /\ at' = at /\ failed' = failed /\ merged' = merged
  BY DEF Clash
<1>2. Element.src[2] = Key
  BY <1>1, AtElement
<1>3. Fold(l) = Fold(Key) /\ origins[l][2] = l
  BY <1>1, AtHolder
<1>4. e0[1] # e0[2] /\ Fold(e0[1][2]) = Fold(e0[2][2]) /\ Fold(e0[1][2]) = Fold(Key)
  BY <1>1, <1>2, <1>3 DEF SameSource
<1>5. ReportInv'
  BY <1>1, <1>4 DEF ReportInv, Fold
<1>6. AccountedNext(File, Key)
  BY <1>1, <1>4 DEF AccountedNext
<1>7. MetInv'
  BY <1>1, <1>6, MetStep
<1> QED
  BY <1>5, <1>7

LEMMA ReportNextFile == IInv /\ ReportInv /\ MetInv /\ NextFile => ReportInv' /\ MetInv'
<1> SUFFICES ASSUME IInv, ReportInv, MetInv, NextFile PROVE ReportInv' /\ MetInv'
  OBVIOUS
<1>1. /\ stage = "merge" /\ todo = {} /\ at < Count /\ at' = at + 1 /\ todo' = DOMAIN DocAt(at + 1)
      /\ dir' = dir /\ stage' = stage /\ failed' = failed /\ errs' = errs /\ merged' = merged
  BY DEF NextFile, Count, DocAt
<1>2. Count \in Nat /\ at \in Nat /\ at # 0
  BY DirFacts DEF IInv, ShapeInv
<1>3. ReportInv'
  BY <1>1 DEF ReportInv, Fold
<1>4. \A j \in 1 .. Count : j < at + 1 => \A k \in DOMAIN DocAt(j) : Accounted(dir.files[j], k)
  <2>1. \A k \in DOMAIN DocAt(at) : Accounted(dir.files[at], k)
    BY <1>1 DEF MetInv, Doc, File, DocAt
  <2>2. \A j \in 1 .. Count : j < at => \A k \in DOMAIN DocAt(j) : Accounted(dir.files[j], k)
    BY <1>1 DEF MetInv
  <2>3. \A j \in 1 .. Count : j < at + 1 => j < at \/ j = at
    BY <1>2
  <2> QED
    BY <2>1, <2>2, <2>3
<1>5. MetInv'
  BY <1>1, <1>4 DEF MetInv, Accounted, Kept, Blamed, DocAt, Doc, File, Count, Fold
<1> QED
  BY <1>3, <1>5

LEMMA ReportFinish == IInv /\ ReportInv /\ MetInv /\ Finish => ReportInv' /\ MetInv'
<1> SUFFICES ASSUME IInv, ReportInv, MetInv, Finish PROVE ReportInv' /\ MetInv'
  OBVIOUS
<1>1. /\ stage = "merge" /\ todo = {} /\ at = Count /\ stage' \in {"merged", "refused"}
      /\ dir' = dir /\ at' = at /\ failed' = failed /\ errs' = errs /\ merged' = merged
  BY DEF Finish, Count
<1>2. Count \in Nat
  BY DirFacts DEF IInv, ShapeInv
<1>3. ReportInv'
  BY <1>1 DEF ReportInv, Fold
<1>4. \A j \in 1 .. Count : \A k \in DOMAIN DocAt(j) : Accounted(dir.files[j], k)
  <2>1. \A k \in DOMAIN DocAt(at) : Accounted(dir.files[at], k)
    BY <1>1 DEF MetInv, Doc, File, DocAt
  <2>2. \A j \in 1 .. Count : j < at => \A k \in DOMAIN DocAt(j) : Accounted(dir.files[j], k)
    BY <1>1 DEF MetInv
  <2>3. \A j \in 1 .. Count : j < at \/ j = at
    BY <1>1, <1>2
  <2> QED
    BY <2>1, <2>2, <2>3
<1>5. MetInv'
  BY <1>1, <1>4 DEF MetInv, Accounted, Kept, Blamed, DocAt, Count, Fold
<1> QED
  BY <1>3, <1>5

LEMMA ReportStutter == IInv /\ ReportInv /\ MetInv /\ UNCHANGED vars => ReportInv' /\ MetInv'
<1> SUFFICES ASSUME ReportInv, MetInv, UNCHANGED vars PROVE ReportInv' /\ MetInv'
  OBVIOUS
<1>1. /\ dir' = dir /\ stage' = stage /\ at' = at /\ failed' = failed /\ todo' = todo
      /\ merged' = merged /\ errs' = errs
  BY DEF vars
<1>2. ReportInv'
  BY <1>1 DEF ReportInv, Fold
<1>3. MetInv'
  BY <1>1 DEF MetInv, Accounted, Kept, Blamed, DocAt, Doc, File, Count, Fold
<1> QED
  BY <1>2, <1>3

LEMMA ReportHolds == Spec => [](ReportInv /\ MetInv)
<1>1. IInv /\ ReportInv /\ MetInv /\ [Next]_vars => ReportInv' /\ MetInv'
  BY ReportLoad, ReportLoaded, ReportAdd, ReportKeep, ReportClash, ReportNextFile, ReportFinish,
     ReportStutter DEF Next
<1> QED
  BY ReportInit, IInvHolds, <1>1, PTL DEF Spec

\* The report of LoadDir is right and whole: the broken files are all named and
\* nothing is merged beside them; otherwise each error is of two sources that
\* fold to one name, and no ambiguous name is left out.
THEOREM ReportWhole == Spec => []BlameRight
<1>1. ASSUME IInv, ReportInv, MetInv, stage = "refused", failed = {},
             NEW f \in DOMAIN dir.docs, NEW g \in DOMAIN dir.docs,
             NEW k \in DOMAIN dir.docs[f], NEW l \in DOMAIN dir.docs[g], ~ Agree(f, k, g, l)
      PROVE  Blamed(k)
  <2>1. \A h \in DOMAIN dir.docs : \A m \in DOMAIN dir.docs[h] : Accounted(h, m)
    BY <1>1, DirFacts DEF IInv, ShapeInv, MetInv, DocAt
  <2>2. Fold(k) = Fold(l) /\ ~ (k = l /\ dir.docs[f][k].def = dir.docs[g][l].def)
    BY <1>1 DEF Agree
  <2>3. ~ (Kept(f, k) /\ Kept(g, l))
    BY <1>1, <2>2 DEF IInv, NamesInv, Kept
  <2> QED
    BY <2>1, <2>2, <2>3 DEF Accounted, Blamed
<1>2. IInv /\ ReportInv /\ MetInv => BlameRight
  BY <1>1 DEF BlameRight, ReportInv, Blamed
<1> QED
  BY <1>2, IInvHolds, ReportHolds, PTL

=============================================================================
