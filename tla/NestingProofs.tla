---------------------------- MODULE NestingProofs ----------------------------
(***************************************************************************)
(* Proofs about Resolver and Nesting.                                      *)
(*                                                                         *)
(* Resolver: the depth-first expansion, which looks at one path at a time, *)
(* decides a property of the whole graph of references, for every document *)
(* and in whatever order the references are met.                           *)
(*                                                                         *)
(* Nesting: in what the resolver accepts, the count of nested sequences    *)
(* has a solution for every body, whatever the path to it, and is what an  *)
(* encoder has open at most.                                               *)
(***************************************************************************)
EXTENDS Nesting, OrdersProofs

\* Names that refer to each other only, and from which every chain ends.
Closed(S) == \A name \in S : Refers(graph, name) \subseteq S
EveryChainEnds(S) == \A T \in SUBSET S : T # {} => \E name \in T : Refers(graph, name) \cap T = {}
Settled(S) == Closed(S) /\ EveryChainEnds(S)

\* The names whose expansion ends, whoever refers to them.
Finished == {name \in DOMAIN graph : \E S \in SUBSET DOMAIN graph : name \in S /\ Settled(S)}

\* The name whose body frame i expands, and the references of that body; the
\* first frame expands the root.
NameOf(i) == CHOOSE name \in stack[i].seen \ stack[i - 1].seen : TRUE
RefsOf(i) == IF i = 1 THEN RootRefs ELSE Refers(graph, NameOf(i))

\* The reference frame i waits at.
Pending(i) == IF i < Len(stack) THEN {NameOf(i + 1)} ELSE {}

FrameTypes == [left : SUBSET RootRefs, seen : SUBSET DOMAIN graph]

ShapeInv ==
    /\ stack \in Seq(FrameTypes)
    /\ verdict \in {"resolving", "resolved", "refused"}
    /\ verdict = "resolving" => stack # << >>

\* Each frame has one name more than the one below.
PathInv ==
    \A i \in 1 .. Len(stack) :
        IF i = 1 THEN stack[i].seen = {}
        ELSE /\ NameOf(i) \notin stack[i - 1].seen
             /\ stack[i].seen = stack[i - 1].seen \cup {NameOf(i)}

\* From a name on the path of frame i, references lead along the path to NameOf(i).
LeadsOn(C, i) == \A c \in C : c = NameOf(i) \/ Refers(graph, c) \cap C # {}
TrailInv ==
    \A i \in 1 .. Len(stack) : \A m \in stack[i].seen :
        \E C \in SUBSET stack[i].seen : m \in C /\ LeadsOn(C, i)

\* What frame i is done with is finished, but for the one it waits at.
LeftInv ==
    \A i \in 1 .. Len(stack) :
        /\ stack[i].left \subseteq RefsOf(i)
        /\ RefsOf(i) \subseteq stack[i].left \cup Finished \cup Pending(i)

IInv == ShapeInv /\ PathInv /\ TrailInv /\ LeftInv /\ RefusesExactlyCycles

-----------------------------------------------------------------------------
(* The graph.                                                              *)

\* Settled sets can be put together.
LEMMA FinishedSettled == Settled(Finished)
<1>1. Closed(Finished)
  BY DEF Closed, Finished, Settled
<1>2. ASSUME NEW T \in SUBSET Finished, T # {}
      PROVE  \E name \in T : Refers(graph, name) \cap T = {}
  <2>1. PICK n \in T : TRUE
    BY <1>2
  <2>2. PICK S \in SUBSET DOMAIN graph : n \in S /\ Settled(S)
    BY <2>1 DEF Finished
  <2>3. PICK m \in T \cap S : Refers(graph, m) \cap (T \cap S) = {}
    BY <2>1, <2>2 DEF Settled, EveryChainEnds
  <2>4. Refers(graph, m) \subseteq S
    BY <2>2, <2>3 DEF Settled, Closed
  <2> QED
    BY <2>3, <2>4
<1> QED
  BY <1>1, <1>2 DEF Settled, EveryChainEnds

\* A name is finished once all it refers to is.
LEMMA FinishedByRefs ==
    ASSUME NEW e \in DOMAIN graph, Refers(graph, e) \subseteq Finished
    PROVE  e \in Finished
<1> SUFFICES ASSUME e \notin Finished PROVE FALSE
  OBVIOUS
<1> DEFINE S == Finished \cup {e}
<1>1. S \in SUBSET DOMAIN graph /\ e \in S
  BY DEF Finished
<1>2. Closed(Finished) /\ EveryChainEnds(Finished)
  BY FinishedSettled DEF Settled
<1>3. Closed(S)
  BY <1>2 DEF Closed
<1>4. ASSUME NEW T \in SUBSET S, T # {}
      PROVE  \E name \in T : Refers(graph, name) \cap T = {}
  <2>1. CASE T \cap Finished = {}
    <3>1. T = {e}
      BY <1>4, <2>1
    <3> QED
      BY <3>1
  <2>2. CASE T \cap Finished # {}
    <3>1. PICK m \in T \cap Finished : Refers(graph, m) \cap (T \cap Finished) = {}
      BY <1>2, <2>2 DEF EveryChainEnds
    <3>2. Refers(graph, m) \subseteq Finished
      BY <1>2, <3>1 DEF Closed
    <3> QED
      BY <3>1, <3>2
  <2> QED
    BY <2>1, <2>2
<1>5. Settled(S)
  BY <1>3, <1>4 DEF Settled, EveryChainEnds
<1> QED
  BY <1>1, <1>5 DEF Finished

\* If all the document refers to is finished, it has no cycle and no gap.
LEMMA AllFinished == RootRefs \subseteq Finished => ~ Recursive /\ ~ DanglingRef
<1> SUFFICES ASSUME RootRefs \subseteq Finished PROVE ~ Recursive /\ ~ DanglingRef
  OBVIOUS
<1>1. \A name \in DOMAIN graph : Refers(graph, name) \subseteq Finished
  BY DEF RootRefs
<1>2. ~ DanglingRef
  BY <1>1 DEF DanglingRef, Finished
<1>3. ASSUME NEW C \in SUBSET DOMAIN graph, C # {}, \A name \in C : Refers(graph, name) \cap C # {}
      PROVE  FALSE
  <2>1. \A name \in C : Refers(graph, name) \cap (C \cap Finished) # {}
    BY <1>1, <1>3
  <2>2. C \cap Finished # {}
    BY <1>3, <2>1
  <2>3. C \cap Finished \in SUBSET Finished
    OBVIOUS
  <2>4. PICK m \in C \cap Finished : Refers(graph, m) \cap (C \cap Finished) = {}
    BY <2>2, <2>3, FinishedSettled DEF Settled, EveryChainEnds
  <2> QED
    BY <2>1, <2>4
<1> QED
  BY <1>2, <1>3 DEF Recursive

-----------------------------------------------------------------------------
(* The stack.                                                              *)

\* The document is never written, so the graph does not change.
LEMMA GraphKept ==
    ASSUME graph' = graph
    PROVE  /\ RootRefs' = RootRefs /\ Finished' = Finished /\ FrameTypes' = FrameTypes
           /\ Recursive' = Recursive /\ DanglingRef' = DanglingRef
  BY DEF RootRefs, Finished, Settled, Closed, EveryChainEnds, FrameTypes, Recursive, DanglingRef

\* A frame that the step leaves on the stack with its path expands what it did.
LEMMA FrameKept ==
    ASSUME graph' = graph, NEW i, i = 1 \/ (stack'[i].seen = stack[i].seen /\ stack'[i - 1].seen = stack[i - 1].seen)
    PROVE  /\ i # 1 => NameOf(i)' = NameOf(i)
           /\ RefsOf(i)' = RefsOf(i)
<1>1. i # 1 => NameOf(i)' = NameOf(i)
  BY DEF NameOf
<1>2. RootRefs' = RootRefs
  BY GraphKept
<1> QED
  BY <1>1, <1>2 DEF RefsOf

\* The references of a frame are references of some name of the document.
LEMMA RefsAreWritten ==
    ASSUME IInv, NEW i \in 1 .. Len(stack), NEW ref \in RefsOf(i)
    PROVE  \E name \in DOMAIN graph : ref \in Refers(graph, name)
<1>1. CASE i = 1
  BY <1>1 DEF RefsOf, RootRefs
<1>2. CASE i # 1
  <2>1. NameOf(i) \in stack[i].seen
    BY <1>2 DEF IInv, PathInv
  <2>2. stack[i] \in FrameTypes
    BY DEF IInv, ShapeInv
  <2>3. NameOf(i) \in DOMAIN graph
    BY <2>1, <2>2 DEF FrameTypes
  <2> QED
    BY <1>2, <2>3 DEF RefsOf
<1> QED
  BY <1>1, <1>2

\* While the resolver runs there is a frame on top.
LEMMA TopFrame ==
    ASSUME IInv, verdict = "resolving"
    PROVE  /\ Len(stack) \in Nat \ {0}
           /\ Top \in FrameTypes
           /\ stack \in Seq(FrameTypes)
<1>1. stack \in Seq(FrameTypes) /\ stack # << >>
  BY DEF IInv, ShapeInv
<1>2. Len(stack) \in Nat \ {0}
  BY <1>1, EmptySeq
<1> QED
  BY <1>1, <1>2 DEF Top

\* The stack without its top.
LEMMA RestProperties ==
    ASSUME NEW F, NEW s \in Seq(F), Len(s) \in Nat \ {0}
    PROVE  /\ SubSeq(s, 1, Len(s) - 1) \in Seq(F)
           /\ Len(SubSeq(s, 1, Len(s) - 1)) = Len(s) - 1
           /\ \A i \in 1 .. Len(s) - 1 : SubSeq(s, 1, Len(s) - 1)[i] = s[i]
<1>1. PICK m \in Nat : m = Len(s) - 1
  OBVIOUS
<1>2. \A i \in 1 .. m : s[i] \in F
  BY <1>1, ElementOfSeq
<1>3. /\ SubSeq(s, 1, m) \in Seq(F)
      /\ Len(SubSeq(s, 1, m)) = IF 1 <= m THEN m - 1 + 1 ELSE 0
      /\ \A i \in 1 .. m - 1 + 1 : SubSeq(s, 1, m)[i] = s[1 + i - 1]
  BY <1>2, SubSeqProperties
<1>4. (IF 1 <= m THEN m - 1 + 1 ELSE 0) = m
  OBVIOUS
<1>5. \A i \in 1 .. m : i \in 1 .. m - 1 + 1 /\ 1 + i - 1 = i
  OBVIOUS
<1>6. SubSeq(s, 1, m) \in Seq(F) /\ Len(SubSeq(s, 1, m)) = m /\ \A i \in 1 .. m : SubSeq(s, 1, m)[i] = s[i]
  BY <1>3, <1>4, <1>5, Zenon
<1> QED
  BY <1>1, <1>6

LEMMA InitInv == ResolveInit => IInv
<1> SUFFICES ASSUME ResolveInit PROVE IInv
  OBVIOUS
<1>1. Frame(RootRefs, {}) \in FrameTypes
  BY DEF Frame, FrameTypes
<1>2. stack = <<Frame(RootRefs, {})>> /\ verdict = "resolving"
  BY DEF ResolveInit
<1>3. stack \in Seq(FrameTypes) /\ stack # << >> /\ Len(stack) = 1 /\ stack[1] = Frame(RootRefs, {})
  BY <1>1, <1>2
<1>4. \A i \in 1 .. Len(stack) : i = 1 /\ stack[i].seen = {} /\ stack[i].left = RootRefs
  BY <1>3 DEF Frame
<1>5. ShapeInv
  BY <1>2, <1>3 DEF ShapeInv
<1>6. PathInv
  BY <1>4 DEF PathInv
<1>7. TrailInv
  BY <1>4 DEF TrailInv
<1>8. LeftInv
  BY <1>4 DEF LeftInv, RefsOf
<1>9. RefusesExactlyCycles
  BY <1>2 DEF RefusesExactlyCycles
<1> QED
  BY <1>5, <1>6, <1>7, <1>8, <1>9 DEF IInv

\* No frame is left when the document is refused.
LEMMA RefuseStep ==
    ASSUME IInv, Refuse, Recursive \/ DanglingRef
    PROVE  IInv'
<1>1. stack' = << >> /\ verdict' = "refused" /\ graph' = graph
  BY DEF Refuse
<1>2. Len(stack') = 0 /\ stack' \in Seq(FrameTypes)
  BY <1>1
<1>3. ShapeInv'
  BY <1>1, <1>2, GraphKept DEF ShapeInv
<1>4. PathInv' /\ TrailInv' /\ LeftInv'
  BY <1>2 DEF PathInv, TrailInv, LeftInv
<1>5. RefusesExactlyCycles'
  BY <1>1, GraphKept DEF RefusesExactlyCycles
<1> QED
  BY <1>3, <1>4, <1>5 DEF IInv

\* A reference on its own path closes a cycle.
LEMMA CircularStep ==
    ASSUME IInv, verdict = "resolving", NEW ref \in Top.left, Circular(ref)
    PROVE  IInv'
<1> DEFINE n == Len(stack)
<1>1. n \in 1 .. Len(stack) /\ n \in Nat /\ Top = stack[n] /\ Top \in FrameTypes
  BY TopFrame DEF Top
<1>2. ref \in stack[n].seen /\ Refuse
  BY <1>1 DEF Circular, Seen
<1>3. n # 1
  BY <1>1, <1>2 DEF IInv, PathInv
<1>4. PICK C \in SUBSET stack[n].seen : ref \in C /\ LeadsOn(C, n)
  BY <1>1, <1>2 DEF IInv, TrailInv
<1>5. ref \in Refers(graph, NameOf(n))
  BY <1>1, <1>3 DEF IInv, LeftInv, RefsOf
<1>6. \A c \in C : Refers(graph, c) \cap C # {}
  BY <1>4, <1>5 DEF LeadsOn
<1>7. C \in SUBSET DOMAIN graph
  BY <1>1, <1>4 DEF FrameTypes
<1>8. Recursive
  BY <1>4, <1>6, <1>7 DEF Recursive
<1> QED
  BY <1>2, <1>8, RefuseStep

LEMMA DanglingStep ==
    ASSUME IInv, verdict = "resolving", NEW ref \in Top.left, Dangling(ref)
    PROVE  IInv'
<1>1. Len(stack) \in 1 .. Len(stack) /\ Top = stack[Len(stack)]
  BY TopFrame DEF Top
<1>2. ref \in RefsOf(Len(stack))
  BY <1>1 DEF IInv, LeftInv
<1>3. PICK name \in DOMAIN graph : ref \in Refers(graph, name)
  BY <1>1, <1>2, RefsAreWritten
<1>4. DanglingRef /\ Refuse
  BY <1>3 DEF Dangling, DanglingRef
<1> QED
  BY <1>4, RefuseStep

\* A body is entered: its name joins the path, the references to it end there.
LEMMA ExpandStep ==
    ASSUME IInv, verdict = "resolving", NEW ref \in Top.left, Expand(ref)
    PROVE  IInv'
<1>n. PICK n : n = Len(stack)
  OBVIOUS
<1> DEFINE below == [Top EXCEPT !.left = @ \ {ref}]
           above == Frame(Refers(graph, ref), Top.seen \cup {ref})
<1>1. /\ n = Len(stack) /\ n \in Nat \ {0} /\ n \in 1 .. Len(stack) /\ Top = stack[n] /\ Top \in FrameTypes
      /\ stack \in Seq(FrameTypes)
  BY <1>n, TopFrame DEF Top
<1>2. /\ ref \notin Top.seen /\ ref \in DOMAIN graph /\ graph' = graph /\ verdict' = verdict
      /\ stack' = Append(Append(SubSeq(stack, 1, n - 1), below), above)
  BY <1>n DEF Expand, Seen, After, Rest
<1>3. below \in FrameTypes /\ above \in FrameTypes
  BY <1>1, <1>2 DEF FrameTypes, Frame, RootRefs
<1>4. /\ SubSeq(stack, 1, n - 1) \in Seq(FrameTypes)
      /\ Len(SubSeq(stack, 1, n - 1)) = n - 1
      /\ \A i \in 1 .. n - 1 : SubSeq(stack, 1, n - 1)[i] = stack[i]
  BY <1>1, RestProperties
<1>5. /\ stack' \in Seq(FrameTypes) /\ Len(stack') = n + 1
      /\ \A i \in 1 .. n - 1 : stack'[i] = stack[i]
      /\ stack'[n] = below
      /\ stack'[n + 1] = above
  BY <1>1, <1>2, <1>3, <1>4
<1>6. /\ below.seen = Top.seen /\ below.left = Top.left \ {ref}
      /\ above.seen = Top.seen \cup {ref} /\ above.left = Refers(graph, ref)
  BY <1>1 DEF FrameTypes, Frame
<1> HIDE DEF below, above
<1>7. \A i \in 1 .. n : stack'[i].seen = stack[i].seen
  BY <1>1, <1>5, <1>6
<1>8. ASSUME NEW i \in 1 .. n
      PROVE  RefsOf(i)' = RefsOf(i) /\ (i # 1 => NameOf(i)' = NameOf(i))
  <2>1. i = 1 \/ (stack'[i].seen = stack[i].seen /\ stack'[i - 1].seen = stack[i - 1].seen)
    BY <1>1, <1>7
  <2> QED
    BY <1>2, <2>1, FrameKept
<1>9. NameOf(n + 1)' = ref
  <2>1. stack'[n + 1].seen \ stack'[(n + 1) - 1].seen = {ref}
    BY <1>1, <1>2, <1>5, <1>6
  <2>2. NameOf(n + 1)' = CHOOSE name \in stack'[n + 1].seen \ stack'[(n + 1) - 1].seen : TRUE
    BY DEF NameOf
  <2> QED
    BY <2>1, <2>2
<1>10. RefsOf(n + 1)' = Refers(graph, ref)
  BY <1>1, <1>2, <1>9 DEF RefsOf
<1>11. \A i \in 1 .. n + 1 : i \in 1 .. n \/ i = n + 1
  BY <1>1
<1>12. ShapeInv'
  BY <1>2, <1>5, GraphKept DEF IInv, ShapeInv
<1>13. PathInv'
  <2> SUFFICES ASSUME NEW i \in 1 .. n + 1
               PROVE  IF i = 1 THEN stack'[i].seen = {}
                      ELSE /\ NameOf(i)' \notin stack'[i - 1].seen
                           /\ stack'[i].seen = stack'[i - 1].seen \cup {NameOf(i)'}
    BY <1>5 DEF PathInv
  <2>1. CASE i \in 1 .. n
    <3>1. i # 1 => i - 1 \in 1 .. n
      BY <1>1, <2>1
    <3> QED
      BY <1>1, <2>1, <3>1, <1>7, <1>8 DEF IInv, PathInv
  <2>2. CASE i = n + 1
    BY <1>1, <1>2, <1>5, <1>6, <1>9, <2>2
  <2> QED
    BY <1>11, <2>1, <2>2
<1>14. TrailInv'
  <2> SUFFICES ASSUME NEW i \in 1 .. n + 1, NEW m \in stack'[i].seen
               PROVE  \E C \in SUBSET stack'[i].seen : m \in C /\ LeadsOn(C, i)'
    BY <1>5 DEF TrailInv
  <2>1. CASE i \in 1 .. n
    <3>1. PICK C \in SUBSET stack[i].seen : m \in C /\ LeadsOn(C, i)
      BY <1>1, <1>7, <2>1 DEF IInv, TrailInv
    <3>2. i # 1
      BY <1>1, <1>7, <2>1 DEF IInv, PathInv
    <3>3. LeadsOn(C, i)'
      BY <1>2, <1>8, <2>1, <3>1, <3>2 DEF LeadsOn
    <3> QED
      BY <1>7, <2>1, <3>1, <3>3
  <2>2. CASE i = n + 1 /\ m = ref
    <3>1. LeadsOn({ref}, i)'
      BY <1>9, <2>2 DEF LeadsOn
    <3> QED
      BY <1>5, <1>6, <2>2, <3>1
  <2>3. CASE i = n + 1 /\ m # ref
    <3>1. m \in stack[n].seen
      BY <1>1, <1>5, <1>6, <2>3
    <3>2. PICK C \in SUBSET stack[n].seen : m \in C /\ LeadsOn(C, n)
      BY <1>1, <3>1 DEF IInv, TrailInv
    <3>3. n # 1
      BY <1>1, <3>1 DEF IInv, PathInv
    <3>4. ref \in Refers(graph, NameOf(n))
      BY <1>1, <3>3 DEF IInv, LeftInv, RefsOf
    <3> DEFINE D == C \cup {ref}
    <3>5. \A c \in D : c = ref \/ Refers(graph, c) \cap D # {}
      BY <3>2, <3>4 DEF LeadsOn
    <3>6. LeadsOn(D, i)'
      BY <1>2, <1>9, <2>3, <3>5 DEF LeadsOn
    <3>7. D \in SUBSET stack'[i].seen /\ m \in D
      BY <1>1, <1>5, <1>6, <2>3, <3>2
    <3> QED
      BY <3>6, <3>7
  <2> QED
    BY <1>11, <2>1, <2>2, <2>3
<1>15. LeftInv'
  <2> SUFFICES ASSUME NEW i \in 1 .. n + 1
               PROVE  /\ stack'[i].left \subseteq RefsOf(i)'
                      /\ RefsOf(i)' \subseteq stack'[i].left \cup Finished \cup Pending(i)'
    BY <1>2, <1>5, GraphKept DEF LeftInv
  <2>1. CASE i \in 1 .. n - 1
    <3>1. i \in 1 .. n /\ i + 1 \in 1 .. n /\ i + 1 # 1 /\ i < n /\ i < n + 1
      BY <1>1, <2>1
    <3>2. Pending(i)' = Pending(i)
      BY <1>1, <1>5, <1>8, <3>1 DEF Pending
    <3> QED
      BY <1>1, <1>5, <1>8, <2>1, <3>1, <3>2 DEF IInv, LeftInv
  <2>2. CASE i = n
    <3>1. Pending(n)' = {ref} /\ Pending(n) = {}
      BY <1>1, <1>5, <1>9 DEF Pending
    <3>2. /\ stack[n].left \subseteq RefsOf(n)
          /\ RefsOf(n) \subseteq stack[n].left \cup Finished \cup Pending(n)
      BY <1>1 DEF IInv, LeftInv
    <3> QED
      BY <1>1, <1>5, <1>6, <1>8, <2>2, <3>1, <3>2
  <2>3. CASE i = n + 1
    BY <1>5, <1>6, <1>10, <2>3
  <2> QED
    BY <1>1, <2>1, <2>2, <2>3
<1>16. RefusesExactlyCycles'
  BY <1>2 DEF RefusesExactlyCycles
<1> QED
  BY <1>12, <1>13, <1>14, <1>15, <1>16 DEF IInv

\* A body without references left is finished, and with it its name.
LEMMA ReturnStep ==
    ASSUME IInv, verdict = "resolving", Return
    PROVE  IInv'
<1>n. PICK n : n = Len(stack)
  OBVIOUS
<1>1. /\ n = Len(stack) /\ n \in Nat \ {0} /\ n \in 1 .. Len(stack) /\ Top = stack[n] /\ Top \in FrameTypes
      /\ stack \in Seq(FrameTypes)
  BY <1>n, TopFrame DEF Top
<1>2. /\ stack[n].left = {} /\ graph' = graph
      /\ stack' = SubSeq(stack, 1, n - 1)
      /\ verdict' = IF stack' = << >> THEN "resolved" ELSE verdict
  BY <1>1 DEF Return, Rest
<1>3. /\ stack' \in Seq(FrameTypes)
      /\ Len(stack') = n - 1
      /\ \A i \in 1 .. n - 1 : stack'[i] = stack[i]
  BY <1>1, <1>2, RestProperties
<1>4. RefsOf(n) \subseteq Finished
  BY <1>1, <1>2 DEF IInv, LeftInv, Pending
<1>5. n # 1 => NameOf(n) \in Finished
  <2> SUFFICES ASSUME n # 1 PROVE NameOf(n) \in Finished
    OBVIOUS
  <2>1. NameOf(n) \in stack[n].seen
    BY <1>1 DEF IInv, PathInv
  <2>2. NameOf(n) \in DOMAIN graph
    BY <1>1, <2>1 DEF FrameTypes
  <2>3. Refers(graph, NameOf(n)) \subseteq Finished
    BY <1>4 DEF RefsOf
  <2> QED
    BY <2>2, <2>3, FinishedByRefs
<1>6. ASSUME NEW i \in 1 .. n - 1
      PROVE  RefsOf(i)' = RefsOf(i) /\ (i # 1 => NameOf(i)' = NameOf(i))
  <2>1. i = 1 \/ (stack'[i].seen = stack[i].seen /\ stack'[i - 1].seen = stack[i - 1].seen)
    BY <1>1, <1>3
  <2> QED
    BY <1>2, <2>1, FrameKept
<1>7. ShapeInv'
  BY <1>2, <1>3, GraphKept DEF IInv, ShapeInv
<1>8. PathInv'
  <2> SUFFICES ASSUME NEW i \in 1 .. n - 1
               PROVE  IF i = 1 THEN stack'[i].seen = {}
                      ELSE /\ NameOf(i)' \notin stack'[i - 1].seen
                           /\ stack'[i].seen = stack'[i - 1].seen \cup {NameOf(i)'}
    BY <1>3 DEF PathInv
  <2>1. i \in 1 .. Len(stack) /\ (i # 1 => i - 1 \in 1 .. n - 1)
    BY <1>1
  <2> QED
    BY <1>3, <1>6, <2>1 DEF IInv, PathInv
<1>9. TrailInv'
  <2> SUFFICES ASSUME NEW i \in 1 .. n - 1, NEW m \in stack'[i].seen
               PROVE  \E C \in SUBSET stack'[i].seen : m \in C /\ LeadsOn(C, i)'
    BY <1>3 DEF TrailInv
  <2>1. stack'[i] = stack[i] /\ i \in 1 .. Len(stack)
    BY <1>1, <1>3
  <2>2. PICK C \in SUBSET stack[i].seen : m \in C /\ LeadsOn(C, i)
    BY <2>1 DEF IInv, TrailInv
  <2>3. i # 1
    BY <2>1 DEF IInv, PathInv
  <2>4. LeadsOn(C, i)'
    BY <1>2, <1>6, <2>2, <2>3 DEF LeadsOn
  <2> QED
    BY <2>1, <2>2, <2>4
<1>10. LeftInv'
  <2> SUFFICES ASSUME NEW i \in 1 .. n - 1
               PROVE  /\ stack'[i].left \subseteq RefsOf(i)'
                      /\ RefsOf(i)' \subseteq stack'[i].left \cup Finished \cup Pending(i)'
    BY <1>2, <1>3, GraphKept DEF LeftInv
  <2>1. stack'[i] = stack[i] /\ i \in 1 .. Len(stack) /\ i < Len(stack)
    BY <1>1, <1>3
  <2>2. Pending(i) \subseteq Pending(i)' \cup Finished
    <3>1. CASE i = n - 1
      BY <1>1, <1>5, <2>1, <3>1 DEF Pending
    <3>2. CASE i # n - 1
      <4>1. i + 1 \in 1 .. n - 1 /\ i + 1 # 1 /\ i < n - 1
        BY <1>1, <3>2
      <4> QED
        BY <1>3, <1>6, <2>1, <4>1 DEF Pending
    <3> QED
      BY <3>1, <3>2
  <2> QED
    BY <1>6, <2>1, <2>2 DEF IInv, LeftInv
<1>11. RefusesExactlyCycles'
  <2>1. CASE n = 1
    <3>1. RootRefs \subseteq Finished
      BY <1>4, <2>1 DEF RefsOf
    <3>2. ~ Recursive /\ ~ DanglingRef
      BY <3>1, AllFinished
    <3>3. verdict' # "refused"
      BY <1>2
    <3> QED
      BY <1>2, <3>2, <3>3, GraphKept DEF RefusesExactlyCycles
  <2>2. CASE n # 1
    <3>1. stack' # << >>
      BY <1>1, <1>3, <2>2
    <3> QED
      BY <1>2, <3>1 DEF RefusesExactlyCycles
  <2> QED
    BY <2>1, <2>2
<1> QED
  BY <1>7, <1>8, <1>9, <1>10, <1>11 DEF IInv

LEMMA StutterStep == IInv /\ UNCHANGED resolveVars => IInv'
<1> SUFFICES ASSUME IInv, UNCHANGED resolveVars PROVE IInv'
  OBVIOUS
<1>1. graph' = graph /\ stack' = stack /\ verdict' = verdict
  BY DEF resolveVars
<1>2. \A i : NameOf(i)' = NameOf(i) /\ RefsOf(i)' = RefsOf(i) /\ Pending(i)' = Pending(i)
  BY <1>1, GraphKept DEF NameOf, RefsOf, Pending
<1>3. \A C, i : LeadsOn(C, i)' = LeadsOn(C, i)
  BY <1>1, <1>2 DEF LeadsOn
<1>4. ShapeInv' /\ RefusesExactlyCycles'
  BY <1>1, GraphKept DEF IInv, ShapeInv, RefusesExactlyCycles
<1>5. PathInv' /\ TrailInv' /\ LeftInv'
  BY <1>1, <1>2, <1>3, GraphKept DEF IInv, PathInv, TrailInv, LeftInv
<1> QED
  BY <1>4, <1>5 DEF IInv

LEMMA IInvHolds == ResolveSpec => []IInv
<1>1. IInv /\ [ResolveNext]_resolveVars => IInv'
  BY CircularStep, DanglingStep, ExpandStep, ReturnStep, StutterStep DEF ResolveNext
<1> QED
  BY InitInv, <1>1, PTL DEF ResolveSpec

\* Document.Resolve, which sees one path at a time, refuses a document exactly
\* if some definitions refer to each other in a circle or one refers to nothing.
THEOREM CyclesRefused == ResolveSpec => []RefusesExactlyCycles
<1>1. IInv => RefusesExactlyCycles
  BY DEF IInv
<1> QED
  BY <1>1, IInvHolds, PTL

-----------------------------------------------------------------------------
\* The path of frame i has a name for every frame above the first.
CountInv ==
    \A i \in 1 .. Len(stack) : IsFiniteSet(stack[i].seen) /\ Cardinality(stack[i].seen) = i - 1

LEMMA CountInit == ResolveInit => CountInv
<1> SUFFICES ASSUME ResolveInit PROVE CountInv
  OBVIOUS
<1>1. stack = <<Frame(RootRefs, {})>>
  BY DEF ResolveInit
<1>2. Len(stack) = 1 /\ stack[1].seen = {}
  BY <1>1 DEF Frame
<1> QED
  BY <1>2, FS_EmptySet DEF CountInv

LEMMA CountExpand ==
    ASSUME IInv, CountInv, verdict = "resolving", NEW ref \in Top.left, Expand(ref)
    PROVE  CountInv'
<1>n. PICK n : n = Len(stack)
  OBVIOUS
<1> DEFINE below == [Top EXCEPT !.left = @ \ {ref}]
           above == Frame(Refers(graph, ref), Top.seen \cup {ref})
<1>1. /\ n = Len(stack) /\ n \in Nat \ {0} /\ n \in 1 .. Len(stack) /\ Top = stack[n] /\ Top \in FrameTypes
      /\ stack \in Seq(FrameTypes)
  BY <1>n, TopFrame DEF Top
<1>2. /\ ref \notin Top.seen
      /\ stack' = Append(Append(SubSeq(stack, 1, n - 1), below), above)
  BY <1>n DEF Expand, Seen, After, Rest
<1>3. /\ SubSeq(stack, 1, n - 1) \in Seq(FrameTypes)
      /\ Len(SubSeq(stack, 1, n - 1)) = n - 1
      /\ \A i \in 1 .. n - 1 : SubSeq(stack, 1, n - 1)[i] = stack[i]
  BY <1>1, RestProperties
<1>4. below.seen = Top.seen /\ above.seen = Top.seen \cup {ref}
  BY <1>1 DEF FrameTypes, Frame
<1> HIDE DEF below, above
<1>5. /\ Len(stack') = n + 1
      /\ \A i \in 1 .. n : stack'[i].seen = stack[i].seen
      /\ stack'[n + 1].seen = stack[n].seen \cup {ref}
  BY <1>1, <1>2, <1>3, <1>4
<1>6. /\ IsFiniteSet(stack'[n + 1].seen)
      /\ Cardinality(stack'[n + 1].seen) = (n + 1) - 1
  <2>1. IsFiniteSet(stack[n].seen) /\ Cardinality(stack[n].seen) = n - 1
    BY <1>1 DEF CountInv
  <2>2. ref \notin stack[n].seen
    BY <1>1, <1>2
  <2>3. /\ IsFiniteSet(stack[n].seen \cup {ref})
        /\ Cardinality(stack[n].seen \cup {ref}) = Cardinality(stack[n].seen) + 1
    BY <2>1, <2>2, FS_AddElement
  <2>4. (n - 1) + 1 = (n + 1) - 1
    BY <1>1
  <2> QED
    BY <1>5, <2>1, <2>3, <2>4
<1>7. \A i \in 1 .. n + 1 : i \in 1 .. n \/ i = n + 1
  BY <1>1
<1>8. \A i \in 1 .. n : IsFiniteSet(stack'[i].seen) /\ Cardinality(stack'[i].seen) = i - 1
  BY <1>1, <1>5 DEF CountInv
<1> QED
  BY <1>5, <1>6, <1>7, <1>8 DEF CountInv

LEMMA CountStep == IInv /\ CountInv /\ [ResolveNext]_resolveVars => CountInv'
<1> SUFFICES ASSUME IInv, CountInv, [ResolveNext]_resolveVars PROVE CountInv'
  OBVIOUS
<1>1. ASSUME Refuse PROVE CountInv'
  BY <1>1 DEF Refuse, CountInv
<1>2. ASSUME verdict = "resolving", Return PROVE CountInv'
  <2>1. Len(stack) \in Nat \ {0} /\ stack \in Seq(FrameTypes) /\ stack' = SubSeq(stack, 1, Len(stack) - 1)
    BY <1>2, TopFrame DEF Return, Rest
  <2>2. Len(stack') = Len(stack) - 1 /\ \A i \in 1 .. Len(stack) - 1 : stack'[i] = stack[i]
    BY <2>1, RestProperties
  <2> QED
    BY <2>1, <2>2 DEF CountInv
<1>3. CASE UNCHANGED resolveVars
  BY <1>3 DEF resolveVars, CountInv
<1> QED
  BY <1>1, <1>2, <1>3, CountExpand DEF ResolveNext, Circular, Dangling

\* The recursion of resolve ends on every path: it is never deeper than the
\* root and one call for each name of the document, whatever refers to what.
DepthBounded == IsFiniteSet(DOMAIN graph) => Len(stack) <= Cardinality(DOMAIN graph) + 1

THEOREM RecursionBounded == ResolveSpec => []DepthBounded
<1>1. IInv /\ CountInv => DepthBounded
  <2> SUFFICES ASSUME IInv, CountInv, IsFiniteSet(DOMAIN graph)
               PROVE  Len(stack) <= Cardinality(DOMAIN graph) + 1
    BY DEF DepthBounded
  <2>1. stack \in Seq(FrameTypes) /\ Len(stack) \in Nat
    BY DEF IInv, ShapeInv
  <2>2. Cardinality(DOMAIN graph) \in Nat
    BY FS_CardinalityType
  <2>3. CASE Len(stack) = 0
    BY <2>2, <2>3
  <2>4. CASE Len(stack) # 0
    <3>1. Len(stack) \in 1 .. Len(stack) /\ stack[Len(stack)].seen \subseteq DOMAIN graph
      <4>1. Len(stack) \in 1 .. Len(stack)
        BY <2>1, <2>4
      <4>2. stack[Len(stack)] \in FrameTypes
        BY <2>1, <4>1, ElementOfSeq
      <4> QED
        BY <4>1, <4>2 DEF FrameTypes
    <3>2. Cardinality(stack[Len(stack)].seen) = Len(stack) - 1
      BY <3>1 DEF CountInv
    <3>3. Cardinality(stack[Len(stack)].seen) <= Cardinality(DOMAIN graph)
      BY <3>1, FS_Subset
    <3>4. \A m, k \in Nat : m - 1 <= k => m <= k + 1
      OBVIOUS
    <3>5. Len(stack) - 1 <= Cardinality(DOMAIN graph)
      BY <3>2, <3>3
    <3> QED
      BY <2>1, <2>2, <3>4, <3>5
  <2> QED
    BY <2>3, <2>4
<1> QED
  BY <1>1, IInvHolds, CountInit, CountStep, PTL DEF ResolveSpec

-----------------------------------------------------------------------------
(* A resolved document: no cycle, no reference without a target.           *)

ClosedIn(d, S) == \A name \in S : RefsIn(d, name) \subseteq S

IsResolved(d) ==
    /\ \A T \in SUBSET DOMAIN d : T # {} => \E name \in T : RefsIn(d, name) \cap T = {}
    /\ ClosedIn(d, DOMAIN d)
    /\ \A name \in DOMAIN d : d[name] \in Seq(Types)

\* Nothing on the path can be reached from the fields of name.
Clear(d, name, onPath) ==
    /\ name \in DOMAIN d
    /\ onPath \subseteq DOMAIN d
    /\ \E U \in SUBSET DOMAIN d : ClosedIn(d, U) /\ RefsIn(d, name) \subseteq U /\ U \cap onPath = {}

\* It stays so on the way down: a name is not reached from its own fields.
LEMMA ClearBelow ==
    ASSUME NEW d, IsResolved(d), NEW name, NEW onPath, Clear(d, name, onPath), NEW to \in RefsIn(d, name)
    PROVE  to \notin onPath /\ to \in DOMAIN d /\ Clear(d, to, onPath \cup {to})
<1>1. PICK U \in SUBSET DOMAIN d : ClosedIn(d, U) /\ RefsIn(d, name) \subseteq U /\ U \cap onPath = {}
  BY DEF Clear
<1>2. to \in U /\ to \notin onPath /\ onPath \subseteq DOMAIN d
  BY <1>1 DEF Clear
<1> DEFINE Away == {x \in U : \E Q \in SUBSET DOMAIN d : ClosedIn(d, Q) /\ x \in Q /\ to \notin Q}
<1>3. ClosedIn(d, Away)
  BY <1>1 DEF ClosedIn
<1>4. to \notin Away
  OBVIOUS
<1>5. RefsIn(d, to) \subseteq Away
  <2> SUFFICES ASSUME ~ RefsIn(d, to) \subseteq Away PROVE FALSE
    OBVIOUS
  <2>1. to \in U \ Away /\ U \ Away \in SUBSET DOMAIN d
    BY <1>2
  <2>2. PICK x \in U \ Away : RefsIn(d, x) \cap (U \ Away) = {}
    BY <2>1 DEF IsResolved
  <2>3. RefsIn(d, x) \subseteq Away
    BY <1>1, <2>2 DEF ClosedIn
  <2>4. x # to
    BY <2>3
  <2>5. ClosedIn(d, Away \cup {x}) /\ Away \cup {x} \in SUBSET DOMAIN d /\ to \notin Away \cup {x}
    BY <1>3, <2>3, <2>4 DEF ClosedIn
  <2> QED
    BY <2>2, <2>5
<1> HIDE DEF Away
<1>6. Away \in SUBSET DOMAIN d /\ Away \cap (onPath \cup {to}) = {}
  BY <1>1, <1>4 DEF Away
<1> QED
  BY <1>2, <1>3, <1>5, <1>6 DEF Clear

\* The calls a call of SeqDepth makes.
Needs(d) == [call \in Calls(d) |-> {<<to, call[2] \cup {to}>> : to \in RefsIn(d, call[1]) \ call[2]}]

LEMMA CallIs ==
    ASSUME NEW d, NEW call \in Calls(d)
    PROVE  call[1] \in DOMAIN d /\ call[2] \in SUBSET DOMAIN d /\ call = <<call[1], call[2]>>
  BY DEF Calls

LEMMA CallsEnd ==
    ASSUME NEW d, IsResolved(d)
    PROVE  Ends(Calls(d), Needs(d)) /\ \A call \in Calls(d) : Needs(d)[call] \subseteq Calls(d)
<1>1. ASSUME NEW call \in Calls(d) PROVE Needs(d)[call] \subseteq Calls(d)
  <2>1. \A to \in RefsIn(d, call[1]) : to \in DOMAIN d
    BY CallIs DEF IsResolved, ClosedIn
  <2> QED
    BY <2>1, CallIs DEF Needs, Calls
<1>2. ASSUME NEW T \in SUBSET Calls(d), T # {} PROVE \E call \in T : Needs(d)[call] \cap T = {}
  <2> DEFINE Names == {call[1] : call \in T}
  <2>1. Names \in SUBSET DOMAIN d /\ Names # {}
    BY <1>2, CallIs
  <2>2. PICK name \in Names : RefsIn(d, name) \cap Names = {}
    BY <2>1 DEF IsResolved
  <2>3. PICK call \in T : call[1] = name
    OBVIOUS
  <2>4. \A other \in Needs(d)[call] : other[1] \in RefsIn(d, name)
    BY <2>3 DEF Needs
  <2> QED
    BY <2>2, <2>4
<1> QED
  BY <1>1, <1>2 DEF Ends

-----------------------------------------------------------------------------
(* What the count adds up.                                                 *)

Depths == Nat \cup {NoBound}

\* The depth of a field, without its array levels.
FieldIs(depth, type, onPath) ==
    IF type.kind = "struct" THEN And(Frames(type), TargetSeqDepth(depth, type.to, onPath)) ELSE Frames(type)

LEMMA TypeIs ==
    ASSUME NEW type \in Types
    PROVE  type.rows \in Nat /\ type.kind \in {"scalar", "text", "struct"}
  BY DEF Types

LEMMA FieldSeqDepthIs ==
    ASSUME NEW type \in Types, NEW depth, NEW onPath,
           type.kind = "struct" => TargetSeqDepth(depth, type.to, onPath) \in Depths
    PROVE  FieldSeqDepth(depth, type, onPath) = FieldIs(depth, type, onPath)
<1> DEFINE inner == CASE type.kind = "struct" -> And(2, TargetSeqDepth(depth, type.to, onPath))
                      [] type.kind = "text" -> 1
                      [] type.kind = "scalar" -> 0
           Is(f) == f = [rows \in Nat \ {0} |-> IF rows > 1 THEN And(1, f[rows - 1]) ELSE inner]
           c == CHOOSE f : Is(f)
<1>1. inner \in Depths
  BY TypeIs DEF Depths, And, NoBound
<1>2. ArrayDepth(depth, type, onPath) = c[type.rows]
  BY Zenon DEF ArrayDepth
<1> HIDE DEF inner
<1>3. \E f : Is(f)
  <2> DEFINE w == [rows \in Nat \ {0} |-> And(rows - 1, inner)]
  <2>1. ASSUME NEW rows \in Nat \ {0} PROVE w[rows] = IF rows > 1 THEN And(1, w[rows - 1]) ELSE inner
    BY <1>1 DEF And, NoBound, Depths
  <2>2. Is(w)
    BY <2>1
  <2> QED
    BY <2>2
<1>4. Is(c)
  BY <1>3, Zenon
<1> HIDE DEF c
<1>5. ASSUME NEW rows \in Nat \ {0} PROVE c[rows] = And(rows - 1, inner)
  <2> DEFINE T == {r \in Nat \ {0} : c[r] # And(r - 1, inner)}
  <2> SUFFICES ASSUME T # {} PROVE FALSE
    OBVIOUS
  <2>1. PICK r \in T : \A j \in T : r <= j
    BY HasLowest
  <2>2. c[r] = IF r > 1 THEN And(1, c[r - 1]) ELSE inner
    BY <1>4, <2>1
  <2>3. CASE r = 1
    BY <1>1, <2>1, <2>2, <2>3 DEF And, NoBound, Depths
  <2>4. CASE r > 1
    <3>1. r - 1 \in Nat \ {0} /\ r - 1 \notin T
      BY <2>1, <2>4
    <3>2. c[r - 1] = And((r - 1) - 1, inner)
      BY <3>1
    <3> QED
      BY <1>1, <2>1, <2>2, <2>4, <3>2 DEF And, NoBound, Depths
  <2> QED
    BY <2>1, <2>3, <2>4
<1>6. CASE type.rows = 0
  BY <1>6, TypeIs DEF FieldSeqDepth, FieldIs, Frames, And
<1>7. CASE type.rows > 0
  <2>1. FieldSeqDepth(depth, type, onPath) = And(type.rows - 1, inner)
    BY <1>2, <1>5, <1>7, TypeIs DEF FieldSeqDepth
  <2> QED
    BY <1>1, <1>7, <2>1, TypeIs DEF inner, FieldIs, Frames, And, Depths, NoBound
<1> QED
  BY <1>6, <1>7, TypeIs

LEMMA DeepestIs ==
    ASSUME NEW n \in Nat, NEW f, \A i \in 1 .. n : f[i] \in Depths, NEW S, S = {f[i] : i \in 1 .. n}
    PROVE  /\ Deepest(S) \in Depths
           /\ NoBound \notin S =>
                 /\ Deepest(S) \in Nat
                 /\ \A x \in S : x <= Deepest(S)
                 /\ Deepest(S) = 0 \/ Deepest(S) \in S
<1> DEFINE Upto(k) == {0} \cup {f[i] : i \in 1 .. k}
           HasMax(k) == \E m \in Upto(k) : \A y \in Upto(k) : m >= y
<1>1. \A k \in 0 .. n : HasMax(k)
  <2> DEFINE T == {k \in 0 .. n : ~ HasMax(k)}
  <2> SUFFICES ASSUME T # {} PROVE FALSE
    OBVIOUS
  <2> HIDE DEF HasMax
  <2>0. T \subseteq Nat
    OBVIOUS
  <2>1. PICK k \in T : \A j \in T : k <= j
    BY <2>0, HasLowest
  <2>2. k # 0
    <3>1. Upto(0) = {0}
      OBVIOUS
    <3>2. HasMax(0)
      BY <3>1 DEF HasMax
    <3> QED
      BY <2>1, <3>2
  <2>3. k - 1 \in 0 .. n /\ k - 1 \notin T /\ k \in 1 .. n
    BY <2>1, <2>2
  <2>4. PICK m \in Upto(k - 1) : \A y \in Upto(k - 1) : m >= y
    BY <2>3 DEF HasMax
  <2>5. Upto(k) = Upto(k - 1) \cup {f[k]}
    <3>1. 1 .. k = (1 .. (k - 1)) \cup {k}
      BY <2>3
    <3> QED
      BY <3>1
  <2>6. Upto(k) \subseteq Int /\ f[k] \in Int
    BY <2>3 DEF Depths, NoBound
  <2> HIDE DEF Upto
  <2>7. CASE m >= f[k]
    BY <2>1, <2>4, <2>5, <2>7 DEF HasMax
  <2>8. CASE ~ (m >= f[k])
    <3>1. \A y \in Upto(k) : f[k] >= y
      <4>1. m \in Int /\ f[k] \in Int /\ m < f[k]
        BY <2>4, <2>5, <2>6, <2>8
      <4>2. \A y \in Upto(k - 1) : y \in Int /\ m >= y
        BY <2>4, <2>5, <2>6
      <4> QED
        BY <2>5, <4>1, <4>2
    <3> QED
      BY <2>1, <2>5, <3>1 DEF HasMax
  <2> QED
    BY <2>7, <2>8
<1>2. PICK m \in {0} \cup S : \A y \in {0} \cup S : m >= y
  <2>1. n \in 0 .. n /\ Upto(n) = {0} \cup S
    OBVIOUS
  <2>2. HasMax(n)
    BY <1>1, <2>1
  <2> HIDE DEF Upto
  <2> QED
    BY <2>1, <2>2
<1>3. Max({0} \cup S) \in {0} \cup S /\ \A y \in {0} \cup S : Max({0} \cup S) >= y
  BY <1>2, Zenon DEF Max
<1>4. S \subseteq Depths
  OBVIOUS
<1>5. PICK top : top = Max({0} \cup S)
  OBVIOUS
<1>6. Deepest(S) = IF NoBound \in S THEN NoBound ELSE top
  BY <1>5 DEF Deepest
<1>7. NoBound \notin S => S \subseteq Nat
  BY <1>4 DEF Depths
<1>8. top \in {0} \cup S /\ \A y \in {0} \cup S : top >= y
  BY <1>3, <1>5
<1>9. CASE NoBound \in S
  BY <1>6, <1>9 DEF Depths
<1>10. CASE NoBound \notin S
  <2>1. Deepest(S) = top /\ S \subseteq Nat /\ top \in Nat
    BY <1>6, <1>7, <1>8, <1>10
  <2>2. \A x \in S : x <= top
    BY <1>8, <2>1
  <2> QED
    BY <1>8, <2>1, <2>2 DEF Depths
<1> QED
  BY <1>9, <1>10

\* The field at a place of a body, and the call for its target.
LEMMA FieldFacts ==
    ASSUME NEW d, IsResolved(d), NEW call \in Calls(d), NEW i \in DOMAIN d[call[1]],
           NEW type, type = d[call[1]][i]
    PROVE  /\ type \in Types
           /\ type.kind = "struct" =>
                 /\ type.to \in RefsIn(d, call[1]) /\ type.to \in DOMAIN d
                 /\ type.to \notin call[2] =>
                       /\ <<type.to, call[2] \cup {type.to}>> \in Calls(d)
                       /\ <<type.to, call[2] \cup {type.to}>> \in Needs(d)[call]
           /\ DOMAIN d[call[1]] = 1 .. Len(d[call[1]]) /\ Len(d[call[1]]) \in Nat
<1>1. d[call[1]] \in Seq(Types) /\ call[1] \in DOMAIN d
  BY CallIs DEF IsResolved
<1>2. type \in Types /\ DOMAIN d[call[1]] = 1 .. Len(d[call[1]]) /\ Len(d[call[1]]) \in Nat
  BY <1>1, ElementOfSeq, LenProperties
<1>3. ASSUME type.kind = "struct" PROVE type.to \in RefsIn(d, call[1])
  BY <1>3 DEF RefsIn
<1>4. ASSUME type.kind = "struct" PROVE type.to \in DOMAIN d
  BY <1>1, <1>3, <1>4 DEF IsResolved, ClosedIn
<1>5. ASSUME type.kind = "struct", type.to \notin call[2]
      PROVE  <<type.to, call[2] \cup {type.to}>> \in Needs(d)[call]
  BY <1>3, <1>5 DEF Needs
<1>6. ASSUME type.kind = "struct", type.to \notin call[2]
      PROVE  <<type.to, call[2] \cup {type.to}>> \in Calls(d)
  BY <1>5, <1>6, CallsEnd
<1> QED
  BY <1>2, <1>3, <1>4, <1>5, <1>6

LEMMA FieldDepth ==
    ASSUME NEW d, IsResolved(d), NEW call \in Calls(d), NEW i \in DOMAIN d[call[1]],
           NEW g \in [Calls(d) -> Depths]
    PROVE  /\ FieldSeqDepth(g, d[call[1]][i], call[2]) = FieldIs(g, d[call[1]][i], call[2])
           /\ FieldSeqDepth(g, d[call[1]][i], call[2]) \in Depths
<1>1. PICK type : type = d[call[1]][i]
  OBVIOUS
<1>2. type \in Types /\ type.rows \in Nat
  BY <1>1, FieldFacts, TypeIs
<1>3. ASSUME type.kind = "struct" PROVE TargetSeqDepth(g, type.to, call[2]) \in Depths
  BY <1>1, <1>3, FieldFacts DEF TargetSeqDepth, Depths
<1>4. FieldSeqDepth(g, type, call[2]) = FieldIs(g, type, call[2])
  BY <1>2, <1>3, FieldSeqDepthIs
<1>5. FieldIs(g, type, call[2]) \in Depths
  BY <1>2, <1>3, TypeIs DEF FieldIs, Frames, And, Depths, NoBound
<1> QED
  BY <1>1, <1>4, <1>5

LEMMA FieldSame ==
    ASSUME NEW d, IsResolved(d), NEW call \in Calls(d), NEW i \in DOMAIN d[call[1]],
           NEW g, NEW h, \A y \in Needs(d)[call] : g[y] = h[y] /\ g[y] \in Depths
    PROVE  FieldSeqDepth(g, d[call[1]][i], call[2]) = FieldSeqDepth(h, d[call[1]][i], call[2])
<1>1. PICK type : type = d[call[1]][i]
  OBVIOUS
<1>2. type \in Types
  BY <1>1, FieldFacts
<1>3. ASSUME type.kind = "struct"
      PROVE  /\ TargetSeqDepth(g, type.to, call[2]) = TargetSeqDepth(h, type.to, call[2])
             /\ TargetSeqDepth(g, type.to, call[2]) \in Depths
  BY <1>1, <1>3, FieldFacts DEF TargetSeqDepth, Depths
<1>4. FieldIs(g, type, call[2]) = FieldIs(h, type, call[2])
  BY <1>3 DEF FieldIs
<1>5. /\ FieldSeqDepth(g, type, call[2]) = FieldIs(g, type, call[2])
      /\ FieldSeqDepth(h, type, call[2]) = FieldIs(h, type, call[2])
  BY <1>2, <1>3, FieldSeqDepthIs
<1> QED
  BY <1>1, <1>4, <1>5

\* What a call of SeqDepth returns, given what its calls do.
BodyDepth(d, g, call) == Deepest({FieldSeqDepth(g, d[call[1]][i], call[2]) : i \in DOMAIN d[call[1]]})

LEMMA BodySame ==
    ASSUME NEW d, IsResolved(d), NEW call \in Calls(d),
           NEW g, NEW h, \A y \in Needs(d)[call] : g[y] = h[y] /\ g[y] \in Depths
    PROVE  BodyDepth(d, g, call) = BodyDepth(d, h, call)
<1>1. \A i \in DOMAIN d[call[1]] :
         FieldSeqDepth(g, d[call[1]][i], call[2]) = FieldSeqDepth(h, d[call[1]][i], call[2])
  BY FieldSame
<1>2. {FieldSeqDepth(g, d[call[1]][i], call[2]) : i \in DOMAIN d[call[1]]}
      = {FieldSeqDepth(h, d[call[1]][i], call[2]) : i \in DOMAIN d[call[1]]}
  BY <1>1
<1> QED
  BY <1>2 DEF BodyDepth

LEMMA BodyDepthIs ==
    ASSUME NEW d, IsResolved(d), NEW call \in Calls(d), NEW g \in [Calls(d) -> Depths]
    PROVE  /\ BodyDepth(d, g, call) \in Depths
           /\ (\A i \in DOMAIN d[call[1]] : FieldSeqDepth(g, d[call[1]][i], call[2]) # NoBound) =>
                 /\ BodyDepth(d, g, call) \in Nat
                 /\ \A i \in DOMAIN d[call[1]] : FieldSeqDepth(g, d[call[1]][i], call[2]) <= BodyDepth(d, g, call)
                 /\ BodyDepth(d, g, call) = 0 \/
                       \E i \in DOMAIN d[call[1]] : FieldSeqDepth(g, d[call[1]][i], call[2]) = BodyDepth(d, g, call)
<1>1. d[call[1]] \in Seq(Types)
  BY CallIs DEF IsResolved
<1>2. PICK n \in Nat : DOMAIN d[call[1]] = 1 .. n
  BY <1>1, LenProperties
<1>3. PICK f : f = [i \in 1 .. n |-> FieldSeqDepth(g, d[call[1]][i], call[2])]
  OBVIOUS
<1>4. \A i \in 1 .. n : f[i] \in Depths
  BY <1>2, <1>3, FieldDepth
<1>5. PICK S : S = {f[i] : i \in 1 .. n}
  OBVIOUS
<1>6. BodyDepth(d, g, call) = Deepest(S)
  <2>1. S = {FieldSeqDepth(g, d[call[1]][i], call[2]) : i \in DOMAIN d[call[1]]}
    BY <1>2, <1>3, <1>5
  <2> QED
    BY <2>1 DEF BodyDepth
<1>7. /\ Deepest(S) \in Depths
      /\ NoBound \notin S =>
                 /\ Deepest(S) \in Nat
                 /\ \A x \in S : x <= Deepest(S)
                 /\ Deepest(S) = 0 \/ Deepest(S) \in S
  BY <1>4, <1>5, DeepestIs
<1> QED
  BY <1>2, <1>3, <1>5, <1>6, <1>7

LEMMA SeqDepthIs ==
    ASSUME NEW d, IsResolved(d)
    PROVE  /\ SeqDepth(d) \in [Calls(d) -> Depths]
           /\ \A call \in Calls(d) : SeqDepth(d)[call] = BodyDepth(d, SeqDepth(d), call)
<1> DEFINE X == Calls(d)
           B == [a \in X \X [X -> Depths] |-> BodyDepth(d, a[2], a[1])]
           Is(f) == f = [call \in X |-> BodyDepth(d, f, call)]
<1>1. ASSUME NEW x \in X, NEW g \in [X -> Depths] PROVE B[<<x, g>>] = BodyDepth(d, g, x) /\ B[<<x, g>>] \in Depths
  BY BodyDepthIs
<1>2. Local(X, Depths, Needs(d), B)
  <2> SUFFICES ASSUME NEW x \in X, NEW g \in [X -> Depths], NEW h \in [X -> Depths],
                      \A y \in Needs(d)[x] : g[y] = h[y]
               PROVE  B[<<x, g>>] = B[<<x, h>>]
    BY DEF Local
  <2>1. \A y \in Needs(d)[x] : g[y] = h[y] /\ g[y] \in Depths
    BY CallsEnd
  <2>2. BodyDepth(d, g, x) = BodyDepth(d, h, x)
    BY <2>1, BodySame
  <2> QED
    BY <1>1, <2>2
<1>3. 0 \in Depths
  BY DEF Depths
<1> HIDE DEF B
<1>4. PICK f \in [X -> Depths] : \A x \in X : f[x] = B[<<x, f>>]
  BY <1>1, <1>2, <1>3, CallsEnd, RecursionHasSolution
<1>5. Is(f)
  BY <1>1, <1>4
<1>6. PICK c : c = (CHOOSE g : Is(g)) /\ Is(c)
  BY <1>5
<1>7. SeqDepth(d) = c
  BY <1>6, Zenon DEF SeqDepth, BodyDepth
<1>8. \A call \in X : c[call] \in Depths
  <2> DEFINE T == {call \in X : c[call] \notin Depths}
  <2> SUFFICES ASSUME T # {} PROVE FALSE
    OBVIOUS
  <2>1. PICK call \in T : Needs(d)[call] \cap T = {}
    BY CallsEnd DEF Ends
  <2> DEFINE g == [y \in X |-> IF c[y] \in Depths THEN c[y] ELSE 0]
  <2>2. g \in [X -> Depths]
    BY <1>3
  <2>3. \A y \in Needs(d)[call] : g[y] = c[y] /\ g[y] \in Depths
    BY <2>1, CallsEnd
  <2> HIDE DEF g
  <2>4. BodyDepth(d, g, call) = BodyDepth(d, c, call)
    BY <2>1, <2>3, BodySame
  <2>5. BodyDepth(d, g, call) \in Depths
    BY <2>1, <2>2, BodyDepthIs
  <2> QED
    BY <1>6, <2>1, <2>4, <2>5
<1>9. c \in [X -> Depths]
  BY <1>6, <1>8
<1> QED
  BY <1>6, <1>7, <1>9

\* Where nothing on the path is reached again there is a depth.
LEMMA ClearCall ==
    ASSUME NEW d, IsResolved(d), NEW call \in Calls(d), Clear(d, call[1], call[2]),
           NEW i \in DOMAIN d[call[1]], d[call[1]][i].kind = "struct",
           NEW to, to = d[call[1]][i].to
    PROVE  /\ to \notin call[2] /\ to \in DOMAIN d
           /\ <<to, call[2] \cup {to}>> \in Calls(d)
           /\ <<to, call[2] \cup {to}>> \in Needs(d)[call]
           /\ Clear(d, to, call[2] \cup {to})
<1>1. to \in RefsIn(d, call[1])
  BY FieldFacts
<1>2. to \notin call[2] /\ to \in DOMAIN d /\ Clear(d, to, call[2] \cup {to})
  BY <1>1, ClearBelow
<1> QED
  BY <1>2, FieldFacts

LEMMA ClearDepth ==
    ASSUME NEW d, IsResolved(d), NEW call \in Calls(d), Clear(d, call[1], call[2])
    PROVE  SeqDepth(d)[call] \in Nat
<1> DEFINE D == SeqDepth(d)
           T == {c \in Calls(d) : Clear(d, c[1], c[2]) /\ D[c] \notin Nat}
<1> SUFFICES ASSUME T # {} PROVE FALSE
  OBVIOUS
<1>1. PICK c \in T : Needs(d)[c] \cap T = {}
  BY CallsEnd DEF Ends
<1>2. c \in Calls(d) /\ Clear(d, c[1], c[2]) /\ D[c] \notin Nat
  BY <1>1
<1>3. D \in [Calls(d) -> Depths] /\ D[c] = BodyDepth(d, D, c)
  BY <1>2, SeqDepthIs
<1> HIDE DEF D
<1>4. ASSUME NEW i \in DOMAIN d[c[1]] PROVE FieldSeqDepth(D, d[c[1]][i], c[2]) # NoBound
  <2>1. PICK type : type = d[c[1]][i]
    OBVIOUS
  <2>2. type \in Types /\ type.rows \in Nat
    BY <1>2, <2>1, FieldFacts, TypeIs
  <2>3. ASSUME type.kind = "struct" PROVE TargetSeqDepth(D, type.to, c[2]) \in Nat
    <3>1. /\ type.to \notin c[2]
          /\ <<type.to, c[2] \cup {type.to}>> \in Calls(d)
          /\ <<type.to, c[2] \cup {type.to}>> \in Needs(d)[c]
          /\ Clear(d, type.to, c[2] \cup {type.to})
      BY <1>2, <2>1, <2>3, ClearCall
    <3>2. PICK next : next = <<type.to, c[2] \cup {type.to}>>
      OBVIOUS
    <3>3. next \notin T /\ next \in Calls(d) /\ Clear(d, next[1], next[2])
      BY <1>1, <3>1, <3>2
    <3> QED
      BY <3>1, <3>2, <3>3 DEF TargetSeqDepth
  <2>4. FieldIs(D, type, c[2]) # NoBound
    BY <2>2, <2>3, TypeIs DEF FieldIs, Frames, And, NoBound
  <2> QED
    BY <1>2, <1>3, <2>1, <2>4, FieldDepth
<1> QED
  BY <1>2, <1>3, <1>4, BodyDepthIs

\* A field adds what it opens to the depth of its target, and is no deeper than
\* its body; some field is as deep, if any opens a sequence.
LEMMA ClearField ==
    ASSUME NEW d, IsResolved(d), NEW call \in Calls(d), Clear(d, call[1], call[2])
    PROVE  /\ \A i \in DOMAIN d[call[1]] :
                 LET type == d[call[1]][i]
                 IN  /\ FieldSeqDepth(SeqDepth(d), type, call[2]) \in Nat
                     /\ FieldSeqDepth(SeqDepth(d), type, call[2]) <= SeqDepth(d)[call]
                     /\ Frames(type) \in Nat
                     /\ FieldSeqDepth(SeqDepth(d), type, call[2]) =
                           IF type.kind = "struct" THEN Frames(type) + SeqDepth(d)[<<type.to, call[2] \cup {type.to}>>]
                           ELSE Frames(type)
           /\ SeqDepth(d)[call] \in Nat
           /\ \/ SeqDepth(d)[call] = 0
              \/ \E i \in DOMAIN d[call[1]] :
                    FieldSeqDepth(SeqDepth(d), d[call[1]][i], call[2]) = SeqDepth(d)[call]
<1>d. PICK D : D = SeqDepth(d)
  OBVIOUS
<1>1. D \in [Calls(d) -> Depths] /\ D[call] = BodyDepth(d, D, call) /\ D[call] \in Nat
  BY <1>d, SeqDepthIs, ClearDepth
<1>2. ASSUME NEW i \in DOMAIN d[call[1]], NEW type, type = d[call[1]][i]
      PROVE  /\ FieldSeqDepth(D, type, call[2]) \in Nat
             /\ Frames(type) \in Nat
             /\ FieldSeqDepth(D, type, call[2]) =
                   IF type.kind = "struct" THEN Frames(type) + D[<<type.to, call[2] \cup {type.to}>>]
                   ELSE Frames(type)
  <2>1. type \in Types /\ type.rows \in Nat /\ FieldSeqDepth(D, type, call[2]) = FieldIs(D, type, call[2])
    BY <1>1, <1>2, FieldFacts, TypeIs, FieldDepth
  <2>2. Frames(type) \in Nat
    BY <2>1, TypeIs DEF Frames
  <2>3. CASE type.kind = "struct"
    <3>1. /\ type.to \notin call[2] /\ <<type.to, call[2] \cup {type.to}>> \in Calls(d)
          /\ Clear(d, type.to, call[2] \cup {type.to})
      BY <1>2, <2>3, ClearCall
    <3>2. PICK next : next = <<type.to, call[2] \cup {type.to}>>
      OBVIOUS
    <3>3. D[next] \in Nat
      BY <1>d, <3>1, <3>2, ClearDepth
    <3>4. TargetSeqDepth(D, type.to, call[2]) = D[next]
      BY <3>1, <3>2 DEF TargetSeqDepth
    <3> QED
      BY <2>1, <2>2, <2>3, <3>2, <3>3, <3>4 DEF FieldIs, And, NoBound
  <2>4. CASE type.kind # "struct"
    BY <2>1, <2>2, <2>4 DEF FieldIs
  <2> QED
    BY <2>2, <2>3, <2>4
<1>3. ASSUME NEW i \in DOMAIN d[call[1]] PROVE FieldSeqDepth(D, d[call[1]][i], call[2]) # NoBound
  <2>1. FieldSeqDepth(D, d[call[1]][i], call[2]) \in Nat
    BY <1>2
  <2> QED
    BY <2>1 DEF NoBound
<1>4. /\ \A i \in DOMAIN d[call[1]] : FieldSeqDepth(D, d[call[1]][i], call[2]) <= D[call]
      /\ D[call] = 0 \/ \E i \in DOMAIN d[call[1]] : FieldSeqDepth(D, d[call[1]][i], call[2]) = D[call]
  BY <1>1, <1>3, BodyDepthIs
<1> QED
  BY <1>d, <1>1, <1>2, <1>4

-----------------------------------------------------------------------------
(* The chain an error names.                                               *)

\* What a call of DeepestSeqPath returns, given what its call does.
Best(d, call) == Min(DeepestFields(d, call))
PathOf(d, path, call) ==
    LET type == d[call[1]][Best(d, call)]
    IN  IF DeepestFields(d, call) = {} THEN << >>
        ELSE << <<call[1], Best(d, call)>> >>
             \o (IF type.kind = "struct" /\ type.to \notin call[2]
                 THEN path[<<type.to, call[2] \cup {type.to}>>] ELSE << >>)

LEMMA BestIs ==
    ASSUME NEW d, IsResolved(d), NEW call \in Calls(d), DeepestFields(d, call) # {}
    PROVE  /\ Best(d, call) \in DeepestFields(d, call)
           /\ Best(d, call) \in DOMAIN d[call[1]]
           /\ <<call[1], Best(d, call)>> \in Fields(d)
<1>1. DeepestFields(d, call) \subseteq DOMAIN d[call[1]]
  BY DEF DeepestFields
<1>2. d[call[1]] \in Seq(Types) /\ call[1] \in DOMAIN d
  BY CallIs DEF IsResolved
<1>3. DOMAIN d[call[1]] \subseteq Nat
  BY <1>2, LenProperties
<1>4. \E n \in DeepestFields(d, call) : \A m \in DeepestFields(d, call) : n <= m
  BY <1>1, <1>3, HasLowest
<1>5. Best(d, call) \in DeepestFields(d, call)
  BY <1>4, Zenon DEF Best, Min
<1> QED
  BY <1>1, <1>2, <1>5 DEF Fields

LEMMA DeepestSeqPathIs ==
    ASSUME NEW d, IsResolved(d)
    PROVE  \A call \in Calls(d) : DeepestSeqPath(d)[call] = PathOf(d, DeepestSeqPath(d), call)
<1> DEFINE X == Calls(d)
           V == Seq(Fields(d))
           B == [a \in X \X [X -> V] |-> PathOf(d, a[2], a[1])]
           Is(f) == f = [call \in X |-> PathOf(d, f, call)]
<1> HIDE DEF B
<1>1. ASSUME NEW x \in X, NEW g \in [X -> V] PROVE PathOf(d, g, x) \in V
  <2>1. CASE DeepestFields(d, x) = {}
    <3>1. PathOf(d, g, x) = << >>
      BY <2>1 DEF PathOf
    <3> QED
      BY <3>1
  <2>2. CASE DeepestFields(d, x) # {}
    <3>1. Best(d, x) \in DOMAIN d[x[1]] /\ <<x[1], Best(d, x)>> \in Fields(d)
      BY <2>2, BestIs
    <3>2. PICK type : type = d[x[1]][Best(d, x)]
      OBVIOUS
    <3>3. (IF type.kind = "struct" /\ type.to \notin x[2] THEN g[<<type.to, x[2] \cup {type.to}>>] ELSE << >>) \in V
      <4>1. << >> \in V
        OBVIOUS
      <4> HIDE DEF V
      <4> QED
        BY <3>1, <3>2, <4>1, FieldFacts
    <3>4. << <<x[1], Best(d, x)>> >> \in V
      BY <3>1
    <3> QED
      BY <2>2, <3>2, <3>3, <3>4, ConcatProperties DEF PathOf
  <2> QED
    BY <2>1, <2>2
<1>2. Local(X, V, Needs(d), B)
  <2> SUFFICES ASSUME NEW x \in X, NEW g \in [X -> V], NEW h \in [X -> V],
                      \A y \in Needs(d)[x] : g[y] = h[y]
               PROVE  PathOf(d, g, x) = PathOf(d, h, x)
    BY DEF Local, B
  <2>1. CASE DeepestFields(d, x) = {}
    BY <2>1 DEF PathOf
  <2>2. CASE DeepestFields(d, x) # {}
    <3>1. Best(d, x) \in DOMAIN d[x[1]]
      BY <2>2, BestIs
    <3>2. PICK type : type = d[x[1]][Best(d, x)]
      OBVIOUS
    <3>3. type.kind = "struct" /\ type.to \notin x[2] =>
             g[<<type.to, x[2] \cup {type.to}>>] = h[<<type.to, x[2] \cup {type.to}>>]
      BY <3>1, <3>2, FieldFacts
    <3> QED
      BY <3>2, <3>3 DEF PathOf
  <2> QED
    BY <2>1, <2>2
<1>3. << >> \in V
  OBVIOUS
<1> HIDE DEF V
<1>4. \A x \in X : \A g \in [X -> V] : B[<<x, g>>] = PathOf(d, g, x)
  BY DEF B
<1>5. \A x \in X : \A g \in [X -> V] : B[<<x, g>>] \in V
  BY <1>1, <1>4
<1>6. PICK f \in [X -> V] : \A x \in X : f[x] = B[<<x, f>>]
  BY <1>2, <1>3, <1>5, CallsEnd, RecursionHasSolution
<1>7. Is(f)
  BY <1>4, <1>6
<1>8. PICK c : c = (CHOOSE g : Is(g)) /\ Is(c)
  BY <1>7
<1>9. DeepestSeqPath(d) = c
  BY <1>8, Zenon DEF DeepestSeqPath, PathOf, Best
<1> QED
  BY <1>8, <1>9

\* Where nothing is reached again: the chain starts with a field as deep as the
\* body and goes on as the chain of its target; it is empty if nothing is opened.
LEMMA ClearPath ==
    ASSUME NEW d, IsResolved(d), NEW call \in Calls(d), Clear(d, call[1], call[2])
    PROVE  /\ SeqDepth(d)[call] = 0 => DeepestSeqPath(d)[call] = << >>
           /\ SeqDepth(d)[call] # 0 =>
                 \E i \in DOMAIN d[call[1]] :
                     LET type == d[call[1]][i]
                     IN  /\ FieldSeqDepth(SeqDepth(d), type, call[2]) = SeqDepth(d)[call]
                         /\ DeepestSeqPath(d)[call] = << <<call[1], i>> >>
                               \o (IF type.kind = "struct"
                                   THEN DeepestSeqPath(d)[<<type.to, call[2] \cup {type.to}>>] ELSE << >>)
<1>d. PICK D, P : D = SeqDepth(d) /\ P = DeepestSeqPath(d)
  OBVIOUS
<1>0. /\ \A i \in DOMAIN d[call[1]] :
            LET type == d[call[1]][i]
            IN  /\ FieldSeqDepth(D, type, call[2]) \in Nat
                /\ FieldSeqDepth(D, type, call[2]) <= D[call]
                /\ Frames(type) \in Nat
                /\ FieldSeqDepth(D, type, call[2]) =
                      IF type.kind = "struct" THEN Frames(type) + D[<<type.to, call[2] \cup {type.to}>>]
                      ELSE Frames(type)
      /\ D[call] \in Nat
      /\ D[call] = 0 \/ \E i \in DOMAIN d[call[1]] : FieldSeqDepth(D, d[call[1]][i], call[2]) = D[call]
  BY <1>d, ClearField
<1>1. /\ \A i \in DOMAIN d[call[1]] :
               FieldSeqDepth(D, d[call[1]][i], call[2]) \in Nat /\ FieldSeqDepth(D, d[call[1]][i], call[2]) <= D[call]
      /\ D[call] \in Nat
      /\ D[call] = 0 \/ \E i \in DOMAIN d[call[1]] : FieldSeqDepth(D, d[call[1]][i], call[2]) = D[call]
  BY <1>0
<1>2. P[call] = PathOf(d, P, call)
  BY <1>d, DeepestSeqPathIs
<1>3. DeepestFields(d, call) =
         {i \in DOMAIN d[call[1]] :
             /\ FieldSeqDepth(D, d[call[1]][i], call[2]) > 0
             /\ \A j \in DOMAIN d[call[1]] :
                   FieldSeqDepth(D, d[call[1]][j], call[2]) <= FieldSeqDepth(D, d[call[1]][i], call[2])}
  BY <1>d, Zenon DEF DeepestFields
<1>4. CASE D[call] = 0
  <2>1. DeepestFields(d, call) = {}
    <3> SUFFICES ASSUME NEW i \in DeepestFields(d, call) PROVE FALSE
      OBVIOUS
    <3>1. i \in DOMAIN d[call[1]] /\ FieldSeqDepth(D, d[call[1]][i], call[2]) > 0
      BY <1>3, SMTT(30)
    <3> QED
      BY <1>1, <1>4, <3>1
  <2> QED
    BY <1>d, <1>2, <1>4, <2>1 DEF PathOf
<1>5. CASE D[call] # 0
  <2>1. PICK j \in DOMAIN d[call[1]] : FieldSeqDepth(D, d[call[1]][j], call[2]) = D[call]
    BY <1>1, <1>5
  <2>2. j \in DeepestFields(d, call)
    BY <1>1, <1>3, <1>5, <2>1
  <2>3. PICK i : i = Best(d, call)
    OBVIOUS
  <2>4. i \in DeepestFields(d, call) /\ i \in DOMAIN d[call[1]]
    BY <2>2, <2>3, BestIs
  <2>5. FieldSeqDepth(D, d[call[1]][i], call[2]) = D[call]
    <3>1. FieldSeqDepth(D, d[call[1]][j], call[2]) <= FieldSeqDepth(D, d[call[1]][i], call[2])
      BY <1>3, <2>4
    <3>2. FieldSeqDepth(D, d[call[1]][i], call[2]) \in Nat /\ FieldSeqDepth(D, d[call[1]][i], call[2]) <= D[call]
      BY <1>1, <2>4
    <3> QED
      BY <1>1, <2>1, <3>1, <3>2
  <2>6. PICK type : type = d[call[1]][i]
    OBVIOUS
  <2>7. type.kind = "struct" => type.to \notin call[2]
    BY <2>4, <2>6, ClearCall
  <2>8. P[call] = << <<call[1], i>> >>
                     \o (IF type.kind = "struct" THEN P[<<type.to, call[2] \cup {type.to}>>] ELSE << >>)
    BY <1>2, <2>2, <2>3, <2>6, <2>7 DEF PathOf
  <2> QED
    BY <1>d, <1>5, <2>4, <2>5, <2>6, <2>8
<1> QED
  BY <1>d, <1>4, <1>5

\* Each field is in the body the one before it refers to, the first in owner's.
Linked(d, owner, w) ==
    \A k \in 1 .. Len(w) :
        IF k = 1 THEN w[k][1] = owner
        ELSE TypeOf(d, w[k - 1]).kind = "struct" /\ TypeOf(d, w[k - 1]).to = w[k][1]

LEMMA PathLinked ==
    ASSUME NEW d, IsResolved(d), NEW call \in Calls(d), Clear(d, call[1], call[2])
    PROVE  DeepestSeqPath(d)[call] \in Seq(Fields(d)) /\ Linked(d, call[1], DeepestSeqPath(d)[call])
<1>d. PICK D, P : D = SeqDepth(d) /\ P = DeepestSeqPath(d)
  OBVIOUS
<1> DEFINE T == {c \in Calls(d) : Clear(d, c[1], c[2]) /\ ~ (P[c] \in Seq(Fields(d)) /\ Linked(d, c[1], P[c]))}
<1> SUFFICES ASSUME T # {} PROVE FALSE
  BY <1>d
<1>1. PICK c \in T : Needs(d)[c] \cap T = {}
  BY CallsEnd DEF Ends
<1>2. c \in Calls(d) /\ Clear(d, c[1], c[2]) /\ ~ (P[c] \in Seq(Fields(d)) /\ Linked(d, c[1], P[c]))
  BY <1>1
<1>4. CASE D[c] = 0
  <2>1. P[c] = << >>
    BY <1>2, <1>d, <1>4, ClearPath
  <2> QED
    BY <1>2, <2>1 DEF Linked
<1>5. CASE D[c] # 0
  <2>1. PICK i \in DOMAIN d[c[1]] :
           /\ FieldSeqDepth(D, d[c[1]][i], c[2]) = D[c]
           /\ P[c] = << <<c[1], i>> >>
                 \o (IF d[c[1]][i].kind = "struct" THEN P[<<d[c[1]][i].to, c[2] \cup {d[c[1]][i].to}>>] ELSE << >>)
    BY <1>2, <1>d, <1>5, ClearPath
  <2>2. PICK type : type = d[c[1]][i]
    OBVIOUS
  <2>3. PICK f : f = <<c[1], i>>
    OBVIOUS
  <2>4. f \in Fields(d) /\ f[1] = c[1] /\ TypeOf(d, f) = type
    BY <1>2, <2>2, <2>3, CallIs DEF Fields, TypeOf
  <2>5. CASE type.kind # "struct"
    <3>1. P[c] = << f >> \o << >>
      BY <2>1, <2>2, <2>3, <2>5
    <3>2. P[c] = << f >>
      BY <2>4, <3>1
    <3> QED
      BY <1>2, <2>4, <3>2 DEF Linked
  <2>6. CASE type.kind = "struct"
    <3>1. PICK next : next = <<type.to, c[2] \cup {type.to}>>
      OBVIOUS
    <3>2. next \in Needs(d)[c] /\ next \in Calls(d) /\ Clear(d, next[1], next[2]) /\ next[1] = type.to
      BY <1>2, <2>2, <2>6, <3>1, ClearCall
    <3>3. PICK rest : rest = P[next]
      OBVIOUS
    <3>4. rest \in Seq(Fields(d)) /\ Linked(d, type.to, rest)
      BY <1>1, <3>2, <3>3
    <3>5. P[c] = << f >> \o rest
      BY <2>1, <2>2, <2>3, <2>6, <3>1, <3>3
    <3>6. << f >> \in Seq(Fields(d)) /\ Len(<< f >>) = 1 /\ << f >>[1] = f
      BY <2>4
    <3>7. /\ << f >> \o rest \in Seq(Fields(d))
          /\ Len(<< f >> \o rest) = 1 + Len(rest)
          /\ \A k \in 1 .. 1 + Len(rest) : (<< f >> \o rest)[k] = IF k <= 1 THEN << f >>[k] ELSE rest[k - 1]
          /\ Len(rest) \in Nat
      BY <3>4, <3>6, ConcatProperties, LenProperties
    <3>8. PICK p : p = P[c]
      OBVIOUS
    <3>9. /\ Len(p) = 1 + Len(rest) /\ Len(rest) \in Nat
          /\ \A k \in 1 .. Len(p) : p[k] = IF k = 1 THEN f ELSE rest[k - 1]
      BY <3>5, <3>6, <3>7, <3>8
    <3>10. Linked(d, c[1], p)
      <4> SUFFICES ASSUME NEW k \in 1 .. Len(p)
                   PROVE  IF k = 1 THEN p[k][1] = c[1]
                          ELSE TypeOf(d, p[k - 1]).kind = "struct" /\ TypeOf(d, p[k - 1]).to = p[k][1]
        BY DEF Linked
      <4>1. CASE k = 1
        BY <2>4, <3>9, <4>1
      <4>2. CASE k = 2
        <5>1. p[1] = f /\ p[2] = rest[1] /\ 1 \in 1 .. Len(rest) /\ 2 - 1 = 1
          BY <3>9, <4>2
        <5> QED
          BY <2>4, <2>6, <3>4, <4>2, <5>1 DEF Linked
      <4>3. CASE k > 2
        <5>1. k - 1 \in 1 .. Len(rest) /\ k - 1 # 1 /\ k # 1 /\ (k - 1) - 1 \in 1 .. Len(rest) /\ k - 1 \in 1 .. Len(p)
          BY <3>9, <4>3
        <5>2. p[k] = rest[k - 1] /\ p[k - 1] = rest[(k - 1) - 1]
          BY <3>9, <5>1
        <5> QED
          BY <3>4, <5>1, <5>2, SMTT(30) DEF Linked
      <4> QED
        BY <3>9, <4>1, <4>2, <4>3
    <3> QED
      BY <1>2, <3>5, <3>7, <3>8, <3>10
  <2> QED
    BY <2>5, <2>6, SMTT(30)
<1> QED
  BY <1>4, <1>5

\* The chain of a body that opens something, taken apart.
LEMMA PathStart ==
    ASSUME NEW d, IsResolved(d), NEW call \in Calls(d), Clear(d, call[1], call[2]), SeqDepth(d)[call] # 0
    PROVE  \E i \in DOMAIN d[call[1]], more \in Seq(Fields(d)) :
              LET type == d[call[1]][i]
              IN  /\ FieldSeqDepth(SeqDepth(d), type, call[2]) = SeqDepth(d)[call]
                  /\ <<call[1], i>> \in Fields(d)
                  /\ DeepestSeqPath(d)[call] = << <<call[1], i>> >> \o more
                  /\ more = IF type.kind = "struct" THEN DeepestSeqPath(d)[<<type.to, call[2] \cup {type.to}>>]
                            ELSE << >>
<1>d. PICK D, P : D = SeqDepth(d) /\ P = DeepestSeqPath(d)
  OBVIOUS
<1>1. PICK i \in DOMAIN d[call[1]] :
         /\ FieldSeqDepth(D, d[call[1]][i], call[2]) = D[call]
         /\ P[call] = << <<call[1], i>> >>
               \o (IF d[call[1]][i].kind = "struct" THEN P[<<d[call[1]][i].to, call[2] \cup {d[call[1]][i].to}>>] ELSE << >>)
  BY <1>d, ClearPath
<1>2. PICK type, more :
         /\ type = d[call[1]][i]
         /\ more = IF type.kind = "struct" THEN P[<<type.to, call[2] \cup {type.to}>>] ELSE << >>
  OBVIOUS
<1>3. <<call[1], i>> \in Fields(d)
  BY CallIs DEF Fields
<1>4. more \in Seq(Fields(d))
  <2>1. CASE type.kind = "struct"
    <3>1. PICK next : next = <<type.to, call[2] \cup {type.to}>>
      OBVIOUS
    <3>2. next \in Calls(d) /\ Clear(d, next[1], next[2])
      BY <1>2, <2>1, <3>1, ClearCall
    <3> QED
      BY <1>d, <1>2, <2>1, <3>1, <3>2, PathLinked
  <2>2. CASE type.kind # "struct"
    BY <1>2, <2>2
  <2> QED
    BY <2>1, <2>2
<1> QED
  BY <1>d, <1>1, <1>2, <1>3, <1>4

-----------------------------------------------------------------------------
(* The encoder.                                                            *)

\* The bodies it is inside of, the message's own left out, and the next one.
Entered(d, w) == {TypeOf(d, w[k]).to : k \in {j \in 1 .. Len(w) : TypeOf(d, w[j]).kind = "struct"}}
Follows(d, m, w, owner) ==
    IF w = << >> THEN owner = m
    ELSE TypeOf(d, w[Len(w)]).kind = "struct" /\ TypeOf(d, w[Len(w)]).to = owner

\* The rest of the chain of message m, if w is how it begins.
Completes(d, m, w, rest) == rest \in Seq(Fields(d)) /\ DeepestSeqPath(d)[<<m, {}>>] = w \o rest

\* With the fields w of message m entered there are n sequences open: what is
\* still ahead fits into the depth of m, and makes it up along the chain.
OnTheWay(d, m, w, n) ==
    /\ w \in Seq(Fields(d)) /\ n \in Nat
    /\ w # << >> => w[1][1] = m
    /\ n <= SeqDepth(d)[<<m, {}>>]
    /\ \A owner : Follows(d, m, w, owner) =>
          /\ Clear(d, owner, Entered(d, w))
          /\ n + SeqDepth(d)[<<owner, Entered(d, w)>>] <= SeqDepth(d)[<<m, {}>>]
          /\ \A rest : Completes(d, m, w, rest) =>
                /\ rest = DeepestSeqPath(d)[<<owner, Entered(d, w)>>]
                /\ n + SeqDepth(d)[<<owner, Entered(d, w)>>] = SeqDepth(d)[<<m, {}>>]
    /\ \/ \E owner : Follows(d, m, w, owner)
       \/ \A rest : Completes(d, m, w, rest) => rest = << >> /\ n = SeqDepth(d)[<<m, {}>>]

\* Nothing is on the path to the body of a message.
LEMMA MessageClear ==
    ASSUME NEW d, IsResolved(d), NEW m \in DOMAIN d
    PROVE  Clear(d, m, {}) /\ <<m, {}>> \in Calls(d)
<1>1. DOMAIN d \in SUBSET DOMAIN d /\ ClosedIn(d, DOMAIN d) /\ RefsIn(d, m) \subseteq DOMAIN d
  BY DEF IsResolved, ClosedIn
<1> QED
  BY <1>1 DEF Clear, Calls

LEMMA OnTheWayStart ==
    ASSUME NEW d, IsResolved(d), NEW m \in DOMAIN d
    PROVE  OnTheWay(d, m, << >>, 0)
<1>1. PICK D, P, call : D = SeqDepth(d) /\ P = DeepestSeqPath(d) /\ call = <<m, {}>>
  OBVIOUS
<1>2. call \in Calls(d) /\ Clear(d, m, {}) /\ D[call] \in Nat
  BY <1>1, MessageClear, ClearDepth
<1>3. Entered(d, << >>) = {}
  BY DEF Entered
<1>4. ASSUME NEW owner, Follows(d, m, << >>, owner)
      PROVE  /\ Clear(d, owner, Entered(d, << >>))
             /\ 0 + D[<<owner, Entered(d, << >>)>>] <= D[call]
             /\ \A rest : Completes(d, m, << >>, rest) =>
                   rest = P[<<owner, Entered(d, << >>)>>] /\ 0 + D[<<owner, Entered(d, << >>)>>] = D[call]
  <2>1. owner = m /\ <<owner, Entered(d, << >>)>> = call
    BY <1>1, <1>3, <1>4 DEF Follows
  <2>2. \A rest : Completes(d, m, << >>, rest) => rest = P[call]
    BY <1>1, ConcatEmptySeq DEF Completes
  <2>3. 0 + D[call] <= D[call] /\ 0 + D[call] = D[call]
    BY <1>2
  <2>4. Clear(d, owner, Entered(d, << >>))
    BY <1>2, <1>3, <2>1
  <2> QED
    BY <2>1, <2>2, <2>3, <2>4, Zenon
<1>5. \E owner : Follows(d, m, << >>, owner)
  BY DEF Follows
<1>6. << >> \in Seq(Fields(d)) /\ 0 <= D[call]
  BY <1>2
<1> QED
  BY <1>1, <1>4, <1>5, <1>6 DEF OnTheWay

LEMMA EnteredMore ==
    ASSUME NEW d, NEW w \in Seq(Fields(d)), NEW f \in Fields(d)
    PROVE  Entered(d, Append(w, f)) =
              Entered(d, w) \cup (IF TypeOf(d, f).kind = "struct" THEN {TypeOf(d, f).to} ELSE {})
<1>1. PICK v : v = Append(w, f)
  OBVIOUS
<1>2. /\ Len(v) = Len(w) + 1 /\ Len(w) \in Nat
      /\ \A i \in 1 .. Len(w) : v[i] = w[i]
      /\ v[Len(w) + 1] = f
  BY <1>1, AppendProperties, LenProperties
<1>3. Entered(d, v) = Entered(d, w) \cup (IF TypeOf(d, f).kind = "struct" THEN {TypeOf(d, f).to} ELSE {})
  <2>1. ASSUME NEW to \in Entered(d, v)
        PROVE  to \in Entered(d, w) \/ (TypeOf(d, f).kind = "struct" /\ to = TypeOf(d, f).to)
    <3>1. PICK k \in 1 .. Len(v) : TypeOf(d, v[k]).kind = "struct" /\ to = TypeOf(d, v[k]).to
      BY DEF Entered
    <3>2. CASE k = Len(w) + 1
      BY <1>2, <3>1, <3>2
    <3>3. CASE k # Len(w) + 1
      <4>1. k \in 1 .. Len(w) /\ v[k] = w[k]
        BY <1>2, <3>3
      <4> QED
        BY <3>1, <4>1 DEF Entered
    <3> QED
      BY <3>2, <3>3
  <2>2. ASSUME NEW to \in Entered(d, w) PROVE to \in Entered(d, v)
    <3>1. PICK k \in 1 .. Len(w) : TypeOf(d, w[k]).kind = "struct" /\ to = TypeOf(d, w[k]).to
      BY DEF Entered
    <3>2. k \in 1 .. Len(v) /\ v[k] = w[k]
      BY <1>2
    <3> QED
      BY <3>1, <3>2 DEF Entered
  <2>3. ASSUME TypeOf(d, f).kind = "struct" PROVE TypeOf(d, f).to \in Entered(d, v)
    <3>1. Len(w) + 1 \in 1 .. Len(v)
      BY <1>2
    <3> QED
      BY <1>2, <2>3, <3>1 DEF Entered
  <2> QED
    BY <2>1, <2>2, <2>3
<1> QED
  BY <1>1, <1>3

\* A field the encoder goes into is one of the body it is at, and no deeper.
LEMMA OnTheWayEnter ==
    ASSUME NEW d, IsResolved(d), NEW m \in DOMAIN d, NEW w, NEW n, OnTheWay(d, m, w, n),
           NEW f \in Fields(d), Follows(d, m, w, f[1])
    PROVE  OnTheWay(d, m, Append(w, f), n + Frames(TypeOf(d, f)))
<1>d. PICK D, P : D = SeqDepth(d) /\ P = DeepestSeqPath(d)
  OBVIOUS
<1>c. PICK first, call : first = <<m, {}>> /\ call = <<f[1], Entered(d, w)>>
  OBVIOUS
<1>t. PICK type : type = TypeOf(d, f)
  OBVIOUS
<1>b. PICK next : next = <<type.to, call[2] \cup {type.to}>>
  OBVIOUS
<1>1. /\ first \in Calls(d) /\ D[first] \in Nat /\ P[first] \in Seq(Fields(d))
  BY <1>d, <1>c, MessageClear, ClearDepth, PathLinked
<1>2. /\ w \in Seq(Fields(d)) /\ n \in Nat /\ n <= D[first]
      /\ w # << >> => w[1][1] = m
  BY <1>d, <1>c DEF OnTheWay
<1>3. /\ Clear(d, f[1], Entered(d, w))
      /\ n + D[call] <= D[first]
      /\ \A rest : Completes(d, m, w, rest) => rest = P[call] /\ n + D[call] = D[first]
  BY <1>d, <1>c DEF OnTheWay
<1>4. /\ call \in Calls(d) /\ call[1] = f[1] /\ call[2] = Entered(d, w) /\ Clear(d, call[1], call[2])
      /\ f[2] \in DOMAIN d[call[1]] /\ type = d[call[1]][f[2]] /\ f = <<call[1], f[2]>>
  BY <1>c, <1>t, <1>3 DEF Clear, Calls, Fields, TypeOf
<1>5. PICK i \in DOMAIN d[call[1]] : i = f[2]
  BY <1>4
<1>6. /\ FieldSeqDepth(D, type, call[2]) \in Nat
      /\ FieldSeqDepth(D, type, call[2]) <= D[call]
      /\ Frames(type) \in Nat
      /\ FieldSeqDepth(D, type, call[2]) = IF type.kind = "struct" THEN Frames(type) + D[next] ELSE Frames(type)
      /\ D[call] \in Nat
  BY <1>d, <1>b, <1>4, ClearField
<1>7. type.kind = "struct" => Clear(d, type.to, call[2] \cup {type.to}) /\ next \in Calls(d) /\ D[next] \in Nat /\ P[next] \in Seq(Fields(d))
  BY <1>d, <1>b, <1>4, ClearCall, ClearDepth, PathLinked
<1>8. PICK v, o : v = Append(w, f) /\ o = n + Frames(type)
  OBVIOUS
<1>9. /\ v \in Seq(Fields(d)) /\ v # << >> /\ v[Len(v)] = f /\ v[1][1] = m /\ v = w \o << f >>
  <2>1. v \in Seq(Fields(d)) /\ v # << >> /\ v[Len(v)] = f /\ v = w \o << f >>
    BY <1>2, <1>8, AppendProperties, AppendIsConcat
  <2>2. v[1][1] = m
    <3>1. CASE w = << >>
      BY <1>8, <3>1 DEF Follows
    <3>2. CASE w # << >>
      <4>1. 1 \in 1 .. Len(w)
        BY <1>2, <3>2, EmptySeq
      <4>2. v[1] = w[1]
        BY <1>2, <1>8, <4>1, AppendProperties
      <4> QED
        BY <1>2, <3>2, <4>2
    <3> QED
      BY <3>1, <3>2
  <2> QED
    BY <2>1, <2>2
<1>10. \A owner : Follows(d, m, v, owner) <=> type.kind = "struct" /\ type.to = owner
  BY <1>t, <1>9 DEF Follows
<1>11. type.kind = "struct" => Entered(d, v) = call[2] \cup {type.to}
  BY <1>t, <1>2, <1>4, <1>8, EnteredMore, ZenonT(30)
<1>12. o \in Nat /\ o <= D[first]
  <2>1. Frames(type) <= FieldSeqDepth(D, type, call[2])
    BY <1>6, <1>7
  <2> QED
    BY <1>1, <1>2, <1>3, <1>6, <1>8, <2>1, SMTT(30)
<1>13. ASSUME type.kind = "struct" PROVE o + D[next] <= D[first]
  <2>1. D[next] \in Nat /\ Frames(type) + D[next] <= D[call]
    BY <1>6, <1>7, <1>13
  <2>2. \A a, b, c, e, g \in Nat : a + c <= g /\ b + e <= c => (a + b) + e <= g
    OBVIOUS
  <2> QED
    BY <1>1, <1>2, <1>3, <1>6, <1>8, <2>1, <2>2, SMTT(30)
<1>14. ASSUME NEW rest, Completes(d, m, v, rest)
       PROVE  IF type.kind = "struct" THEN rest = P[next] /\ o + D[next] = D[first]
              ELSE rest = << >> /\ o = D[first]
  <2>1. rest \in Seq(Fields(d)) /\ P[first] = v \o rest
    BY <1>d, <1>c, <1>14 DEF Completes
  <2>2. << f >> \in Seq(Fields(d)) /\ Len(<< f >>) = 1
    OBVIOUS
  <2>3. PICK tail : tail = << f >> \o rest
    OBVIOUS
  <2>4. tail \in Seq(Fields(d)) /\ Len(tail) = 1 + Len(rest) /\ Len(rest) \in Nat /\ tail[1] = f
    BY <2>1, <2>2, <2>3, ConcatProperties, LenProperties
  <2>5. P[first] = w \o tail
    BY <1>2, <1>9, <2>1, <2>2, <2>3, ConcatAssociative
  <2>6. tail = P[call] /\ n + D[call] = D[first]
    BY <1>d, <1>c, <1>3, <2>4, <2>5 DEF Completes
  <2>7. D[call] # 0
    <3> SUFFICES ASSUME D[call] = 0 PROVE FALSE
      OBVIOUS
    <3>1. tail = << >>
      BY <1>d, <1>4, <2>6, ClearPath
    <3> QED
      BY <2>4, <3>1
  <2>8. PICK j \in DOMAIN d[call[1]], more \in Seq(Fields(d)) :
           /\ FieldSeqDepth(D, d[call[1]][j], call[2]) = D[call]
           /\ <<call[1], j>> \in Fields(d)
           /\ P[call] = << <<call[1], j>> >> \o more
           /\ more = IF d[call[1]][j].kind = "struct" THEN P[<<d[call[1]][j].to, call[2] \cup {d[call[1]][j].to}>>]
                     ELSE << >>
    BY <1>d, <1>4, <2>7, PathStart
  <2>9. PICK g : g = <<call[1], j>>
    OBVIOUS
  <2>10. more \in Seq(Fields(d)) /\ g \in Fields(d)
    BY <2>8, <2>9, SMTT(30)
  <2>12. tail = << g >> \o more
    BY <2>6, <2>8, <2>9
  <2>13. g = f
    <3>1. << g >> \in Seq(Fields(d)) /\ Len(<< g >>) = 1 /\ Len(more) \in Nat
      BY <2>10, LenProperties
    <3>2. (<< g >> \o more)[1] = g
      BY <2>10, <3>1, ConcatProperties
    <3> QED
      BY <2>4, <2>12, <3>2
  <2>14. rest = more
    BY <2>1, <2>2, <2>3, <2>10, <2>12, <2>13, ConcatSimplifications
  <2>15. j = f[2] /\ d[call[1]][j] = type
    BY <1>4, <2>9, <2>13
  <2>16. D[call] = IF type.kind = "struct" THEN Frames(type) + D[next] ELSE Frames(type)
    BY <1>6, <2>8, <2>15
  <2>17. type.kind = "struct" => o + D[next] = D[first]
    BY <1>1, <1>2, <1>6, <1>7, <1>8, <2>6, <2>16
  <2>18. type.kind # "struct" => o = D[first]
    BY <1>8, <2>6, <2>16
  <2> QED
    BY <1>b, <2>8, <2>14, <2>15, <2>17, <2>18
<1>15. ASSUME NEW owner, Follows(d, m, v, owner)
       PROVE  /\ Clear(d, owner, Entered(d, v))
              /\ o + D[<<owner, Entered(d, v)>>] <= D[first]
              /\ \A rest : Completes(d, m, v, rest) =>
                    /\ rest = P[<<owner, Entered(d, v)>>]
                    /\ o + D[<<owner, Entered(d, v)>>] = D[first]
  <2>1. type.kind = "struct" /\ type.to = owner
    BY <1>10, <1>15
  <2>2. next = <<owner, Entered(d, v)>>
    BY <1>b, <1>11, <2>1
  <2> QED
    BY <1>7, <1>11, <1>13, <1>14, <2>1, <2>2
<1>16. \/ \E owner : Follows(d, m, v, owner)
       \/ \A rest : Completes(d, m, v, rest) => rest = << >> /\ o = D[first]
  BY <1>10, <1>14
<1>17. OnTheWay(d, m, v, o)
  BY <1>d, <1>c, <1>9, <1>12, <1>15, <1>16 DEF OnTheWay
<1> QED
  BY <1>t, <1>8, <1>17

\* At the end of the chain everything is open that was counted.
LEMMA OnTheWayEnd ==
    ASSUME NEW d, IsResolved(d), NEW m \in DOMAIN d, NEW n, OnTheWay(d, m, DeepestSeqPath(d)[<<m, {}>>], n)
    PROVE  n = SeqDepth(d)[<<m, {}>>]
<1>d. PICK D, P : D = SeqDepth(d) /\ P = DeepestSeqPath(d)
  OBVIOUS
<1>c. PICK first : first = <<m, {}>>
  OBVIOUS
<1>1. PICK w : w = P[first]
  OBVIOUS
<1>2. w \in Seq(Fields(d)) /\ n \in Nat /\ OnTheWay(d, m, w, n)
  BY <1>d, <1>c, <1>1 DEF OnTheWay
<1>3. Completes(d, m, w, << >>)
  BY <1>d, <1>c, <1>1, <1>2, ConcatEmptySeq DEF Completes
<1>4. CASE \E owner : Follows(d, m, w, owner)
  <2>1. PICK owner : Follows(d, m, w, owner)
    BY <1>4
  <2>2. PICK call : call = <<owner, Entered(d, w)>>
    OBVIOUS
  <2>3. Clear(d, owner, Entered(d, w)) /\ << >> = P[call] /\ n + D[call] = D[first]
    BY <1>d, <1>c, <1>2, <1>3, <2>1, <2>2 DEF OnTheWay
  <2>4. call \in Calls(d) /\ Clear(d, call[1], call[2])
    BY <2>2, <2>3 DEF Clear, Calls
  <2>5. D[call] = 0
    <3> SUFFICES ASSUME D[call] # 0 PROVE FALSE
      OBVIOUS
    <3>1. D[call] \in Nat /\ P[call] = << >>
      BY <1>d, <2>3, <2>4, ClearDepth
    <3>2. PICK g \in Fields(d), more \in Seq(Fields(d)) : P[call] = << g >> \o more
      <4>1. \E i \in DOMAIN d[call[1]], more \in Seq(Fields(d)) :
               <<call[1], i>> \in Fields(d) /\ P[call] = << <<call[1], i>> >> \o more
        BY <1>d, <2>4, PathStart
      <4> QED
        BY <4>1
    <3>3. Len(<< g >> \o more) = 1 + Len(more) /\ Len(more) \in Nat
      BY ConcatProperties, LenProperties
    <3> QED
      BY <3>1, <3>2, <3>3
  <2> QED
    BY <1>d, <1>c, <1>2, <2>3, <2>5
<1>5. CASE ~ \E owner : Follows(d, m, w, owner)
  BY <1>d, <1>c, <1>2, <1>3, <1>5 DEF OnTheWay
<1> QED
  BY <1>4, <1>5

-----------------------------------------------------------------------------
(* The analyzer and an encoder of the document it has seen.                *)

Blamed ==
    [name \in {m \in MessageNames : SeqDepth(graph)[<<m, {}>>] > MaxDepth} |->
        [depth |-> SeqDepth(graph)[<<name, {}>>], path |-> DeepestSeqPath(graph)[<<name, {}>>]]]

WalkInv ==
    /\ graph \in Graphs
    /\ written = << >> => opened = 0
    /\ written # << >> =>
          /\ verdict = "resolved"
          /\ written[1][1] \in MessageNames
          /\ OnTheWay(graph, written[1][1], written, opened)
    /\ checked => verdict = "resolved" /\ blamed = Blamed

\* What the verdict "resolved" says of the document (CyclesRefused).
LEMMA ResolvedDocument ==
    ASSUME graph \in Graphs, verdict = "resolved", RefusesExactlyCycles
    PROVE  IsResolved(graph) /\ MessageNames \subseteq DOMAIN graph
<1>1. /\ MessageNames \subseteq DOMAIN graph
      /\ \A name \in DOMAIN graph : graph[name] \in Seq(Types) /\ Refers(graph, name) = RefsIn(graph, name)
  BY NestingAssumption
<1>2. ~ Recursive /\ ~ DanglingRef
  BY DEF RefusesExactlyCycles
<1>3. \A T \in SUBSET DOMAIN graph : T # {} => \E name \in T : RefsIn(graph, name) \cap T = {}
  <2> SUFFICES ASSUME NEW T \in SUBSET DOMAIN graph, T # {}
               PROVE  \E name \in T : RefsIn(graph, name) \cap T = {}
    OBVIOUS
  <2>1. PICK name \in T : Refers(graph, name) \cap T = {}
    BY <1>2 DEF Recursive
  <2> QED
    BY <1>1, <2>1
<1>4. ClosedIn(graph, DOMAIN graph)
  BY <1>1, <1>2 DEF DanglingRef, ClosedIn
<1> QED
  BY <1>1, <1>3, <1>4 DEF IsResolved

LEMMA WalkInit == NestingInit => WalkInv
  BY DEF NestingInit, ResolveInit, WalkInv

LEMMA ResolveKeepsGraph == ResolveNext => graph' = graph /\ verdict = "resolving"
  BY DEF ResolveNext, Circular, Dangling, Expand, Return, Refuse

LEMMA EnterStep ==
    ASSUME WalkInv, RefusesExactlyCycles, NEW field \in Fields(graph), Enter(field)
    PROVE  WalkInv'
<1>1. /\ verdict = "resolved" /\ LeadsTo(graph, written, field[1])
      /\ written' = Append(written, field)
      /\ opened' = opened + Frames(TypeOf(graph, field))
      /\ graph' = graph /\ verdict' = verdict /\ checked' = checked /\ blamed' = blamed
  BY DEF Enter, resolveVars
<1>2. PICK d : d = graph
  OBVIOUS
<1>3. graph \in Graphs /\ IsResolved(d) /\ MessageNames \subseteq DOMAIN d
  BY <1>1, <1>2, ResolvedDocument DEF WalkInv
<1>4. PICK m \in MessageNames : OnTheWay(d, m, written, opened) /\ Follows(d, m, written, field[1])
  <2>1. CASE written = << >>
    <3>1. field[1] \in MessageNames /\ opened = 0
      BY <1>1, <2>1 DEF LeadsTo, WalkInv
    <3>2. OnTheWay(d, field[1], << >>, 0)
      BY <1>3, <3>1, OnTheWayStart
    <3> QED
      BY <2>1, <3>1, <3>2 DEF Follows
  <2>2. CASE written # << >>
    BY <1>1, <1>2, <2>2 DEF LeadsTo, Follows, WalkInv
  <2> QED
    BY <2>1, <2>2
<1>5. OnTheWay(d, m, written', opened')
  BY <1>1, <1>2, <1>3, <1>4, OnTheWayEnter
<1>6. written \in Seq(Fields(d))
  BY <1>4 DEF OnTheWay
<1>7. written' # << >> /\ written'[1][1] = m
  BY <1>1, <1>2, <1>5, <1>6, AppendProperties DEF OnTheWay
<1>8. checked' => verdict' = "resolved" /\ blamed' = Blamed'
  BY <1>1 DEF WalkInv, Blamed
<1> QED
  BY <1>1, <1>2, <1>3, <1>4, <1>5, <1>7, <1>8 DEF WalkInv

LEMMA WalkStep ==
    ASSUME WalkInv, RefusesExactlyCycles, [NestingNext]_nestingVars
    PROVE  WalkInv'
<1>1. CASE Resolving
  BY <1>1, ResolveKeepsGraph DEF Resolving, WalkInv
<1>2. CASE CheckDepth
  BY <1>2 DEF CheckDepth, resolveVars, WalkInv, Blamed
<1>3. CASE UNCHANGED nestingVars
  BY <1>3 DEF nestingVars, resolveVars, WalkInv, Blamed
<1> QED
  BY <1>1, <1>2, <1>3, EnterStep DEF NestingNext

\* The chain of a message that opens something is one an encoder may enter.
LEMMA PathEntered ==
    ASSUME NEW d, IsResolved(d), MessageNames \subseteq DOMAIN d,
           NEW m \in MessageNames, SeqDepth(d)[<<m, {}>>] # 0,
           NEW w, w = DeepestSeqPath(d)[<<m, {}>>]
    PROVE  CanBeEntered(d, w) /\ w[1][1] = m
<1>1. PICK call : call = <<m, {}>>
  OBVIOUS
<1>2. call \in Calls(d) /\ Clear(d, call[1], call[2]) /\ call[1] = m
  BY <1>1, MessageClear
<1>3. w \in Seq(Fields(d)) /\ Linked(d, m, w)
  BY <1>1, <1>2, PathLinked
<1>4. Len(w) \in Nat \ {0}
  <2>1. PICK g \in Fields(d), more \in Seq(Fields(d)) : w = << g >> \o more
    <3>1. \E i \in DOMAIN d[call[1]], more \in Seq(Fields(d)) :
             <<call[1], i>> \in Fields(d) /\ DeepestSeqPath(d)[call] = << <<call[1], i>> >> \o more
      BY <1>1, <1>2, PathStart
    <3> QED
      BY <1>1, <3>1
  <2>2. Len(<< g >> \o more) = 1 + Len(more) /\ Len(more) \in Nat
    BY ConcatProperties, LenProperties
  <2> QED
    BY <2>1, <2>2
<1>5. ASSUME NEW k \in 1 .. Len(w) PROVE w[k] \in Fields(d) /\ LeadsTo(d, SubSeq(w, 1, k - 1), w[k][1])
  <2>1. w[k] \in Fields(d)
    BY <1>3, ElementOfSeq
  <2>2. PICK v : v = SubSeq(w, 1, k - 1)
    OBVIOUS
  <2>3. CASE k = 1
    <3>1. v = << >>
      BY <2>2, <2>3, SubSeqEmpty
    <3>2. w[k][1] = m
      BY <1>3, <2>3 DEF Linked
    <3> QED
      BY <2>1, <2>2, <3>1, <3>2 DEF LeadsTo
  <2>4. CASE k # 1
    <3>1. PICK n \in Nat \ {0} : n = k - 1
      BY <2>4
    <3>2. \A i \in 1 .. n : w[i] \in Fields(d)
      BY <1>3, <3>1, ElementOfSeq
    <3>3. /\ Len(SubSeq(w, 1, n)) = IF 1 <= n THEN n - 1 + 1 ELSE 0
          /\ \A i \in 1 .. n - 1 + 1 : SubSeq(w, 1, n)[i] = w[1 + i - 1]
      BY <3>2, SubSeqProperties
    <3>v. v = SubSeq(w, 1, n)
      BY <2>2, <3>1
    <3>4. Len(v) = n /\ v[n] = w[n] /\ v # << >>
      <4>1. n \in 1 .. n - 1 + 1 /\ 1 + n - 1 = n /\ n - 1 + 1 = n /\ 1 <= n
        OBVIOUS
      <4>2. Len(v) = n
        BY <3>3, <3>v, <4>1
      <4>3. v[n] = w[1 + n - 1]
        BY <3>3, <3>v, <4>1, Zenon
      <4> QED
        BY <4>1, <4>2, <4>3
    <3>5. TypeOf(d, w[n]).kind = "struct" /\ TypeOf(d, w[n]).to = w[k][1]
      BY <1>3, <2>4, <3>1 DEF Linked
    <3> QED
      BY <2>1, <2>2, <3>4, <3>5 DEF LeadsTo
  <2> QED
    BY <2>3, <2>4
<1>6. w # << >> /\ w[1][1] = m
  <2>1. 1 \in 1 .. Len(w)
    BY <1>4
  <2> QED
    BY <1>3, <1>4, <2>1 DEF Linked
<1> QED
  BY <1>5, <1>6 DEF CanBeEntered

LEMMA WalkInvGives == WalkInv /\ RefusesExactlyCycles => DepthIsWhatIsOpened
<1> SUFFICES ASSUME WalkInv, RefusesExactlyCycles, checked PROVE DepthIsWhatIsOpened
  BY DEF DepthIsWhatIsOpened
<1>1. PICK d, D, P : d = graph /\ D = SeqDepth(d) /\ P = DeepestSeqPath(d)
  OBVIOUS
<1>2. verdict = "resolved" /\ blamed = Blamed /\ MaxDepth \in Nat
  BY NestingAssumption DEF WalkInv
<1>3. IsResolved(d) /\ MessageNames \subseteq DOMAIN d
  BY <1>1, <1>2, ResolvedDocument DEF WalkInv
<1>4. ASSUME NEW m \in MessageNames PROVE D[<<m, {}>>] \in Nat
  <2>1. PICK call : call = <<m, {}>>
    OBVIOUS
  <2> QED
    BY <1>1, <1>3, <2>1, MessageClear, ClearDepth
<1>5. /\ DOMAIN blamed = {m \in MessageNames : D[<<m, {}>>] > MaxDepth}
      /\ \A m \in DOMAIN blamed : blamed[m].depth = D[<<m, {}>>] /\ blamed[m].path = P[<<m, {}>>]
  BY <1>1, <1>2 DEF Blamed
<1>6. ASSUME NEW name \in DOMAIN blamed
      PROVE  /\ CanBeEntered(graph, blamed[name].path) /\ blamed[name].path[1][1] = name
             /\ blamed[name].depth > MaxDepth
  <2>1. name \in MessageNames /\ D[<<name, {}>>] > MaxDepth
    BY <1>5
  <2>2. D[<<name, {}>>] # 0
    BY <1>2, <2>1
  <2>3. CanBeEntered(d, P[<<name, {}>>]) /\ P[<<name, {}>>][1][1] = name
    BY <1>1, <1>3, <2>1, <2>2, PathEntered
  <2> QED
    BY <1>1, <1>5, <2>1, <2>3
<1>7. ASSUME written # << >>, NEW name, name = written[1][1]
      PROVE  IF name \in DOMAIN blamed
             THEN /\ opened <= blamed[name].depth
                  /\ written = blamed[name].path => opened = blamed[name].depth
             ELSE opened <= MaxDepth
  <2>1. name \in MessageNames /\ OnTheWay(d, name, written, opened)
    BY <1>1, <1>7 DEF WalkInv
  <2>2. opened \in Nat /\ opened <= D[<<name, {}>>]
    BY <1>1, <2>1 DEF OnTheWay
  <2>3. CASE name \in DOMAIN blamed
    <3>1. written = P[<<name, {}>>] => opened = D[<<name, {}>>]
      BY <1>1, <1>3, <2>1, OnTheWayEnd
    <3> QED
      BY <1>5, <2>2, <2>3, <3>1
  <2>4. CASE name \notin DOMAIN blamed
    BY <1>2, <1>4, <1>5, <2>1, <2>2, <2>4
  <2> QED
    BY <2>3, <2>4
<1> QED
  BY <1>6, <1>7 DEF DepthIsWhatIsOpened

\* For every document and every MaxDepth: a message checkDepth accepts never has
\* more sequences open than MaxDepth, and the chain of a refused one opens as many
\* as the error says (SeqDepth, DeepestSeqPath).
THEOREM DepthCapExact == NestingSpec => []DepthIsWhatIsOpened
<1>1. NestingInit => ResolveInit
  BY DEF NestingInit
<1>2. [NestingNext]_nestingVars => [ResolveNext]_resolveVars
  BY DEF NestingNext, Resolving, CheckDepth, Enter, nestingVars
<1>3. NestingSpec => ResolveSpec
  BY <1>1, <1>2, PTL DEF NestingSpec, ResolveSpec
<1>4. NestingSpec => []RefusesExactlyCycles
  BY <1>3, CyclesRefused, PTL
<1>5. WalkInv /\ RefusesExactlyCycles /\ [NestingNext]_nestingVars => WalkInv'
  BY WalkStep
<1> QED
  BY <1>4, <1>5, WalkInit, WalkInvGives, PTL DEF NestingSpec

=============================================================================
