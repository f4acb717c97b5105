--------------------------- MODULE ImporterProofs ---------------------------
(***************************************************************************)
(* Theorems about the importer, for all files, names and references: its  *)
(* safety properties first, then that it implements Flatten.               *)
(***************************************************************************)
EXTENDS Importer, TLAPS, WellFoundedInduction, FiniteSetTheorems

\* Some element of a non-empty set of keys comes first.
LEMMA FirstIn ==
    ASSUME NEW S \in SUBSET Keys, S # {}
    PROVE  First(S) \in S /\ \A o \in S : Rank[First(S)] <= Rank[o]
<1> DEFINE T == {Rank[k] : k \in S}
<1>1. T \subseteq Nat /\ T # {}
  BY ConstantsAssumption
<1>2. PICK n \in T : \A m \in T : ~ (<<m, n>> \in OpToRel(<, Nat))
  BY <1>1, NatLessThanWellFounded, WFMin
<1>3. ASSUME NEW m \in T
      PROVE  n <= m
  <2>1. m \in Nat /\ n \in Nat
    BY <1>1
  <2>2. ~ (m < n)
    BY <1>2, <2>1 DEF OpToRel
  <2>3. QED
    BY <2>1, <2>2
<1>4. PICK k \in S : Rank[k] = n
  OBVIOUS
<1>5. \A o \in S : Rank[k] <= Rank[o]
  BY <1>3, <1>4
<1>6. QED
  BY <1>5 DEF First

-----------------------------------------------------------------------------
(* Moving a frame past its reference.                                      *)

LEMMA PastFrame ==
    ASSUME NEW fr \in FrameTypes, fr.pos <= Len(fr.def.refs), NEW ok \in BOOLEAN
    PROVE  /\ Past(fr, ok) \in FrameTypes
           /\ Past(fr, ok).file = fr.file
           /\ Past(fr, ok).key = fr.key
           /\ Past(fr, ok).pos = fr.pos + 1
           /\ Strip(Past(fr, ok).def) = Strip(fr.def)
           /\ Len(Past(fr, ok).def.refs) = Len(fr.def.refs)
           /\ \A j \in 1 .. Len(fr.def.refs) :
                 j # fr.pos => Past(fr, ok).def.refs[j] = fr.def.refs[j]
<1> DEFINE rs == fr.def.refs
           new == IF ok THEN [rs EXCEPT ![fr.pos] = Localised(rs[fr.pos])] ELSE rs
           moved == [file |-> fr.file, key |-> fr.key, pos |-> fr.pos + 1,
                     def |-> [body |-> fr.def.body, refs |-> new]]
<1>1. rs \in Seq(Refs) /\ fr.pos \in 1 .. Len(rs)
  BY DEF FrameTypes, Definitions
<1>2. Localised(rs[fr.pos]) \in Refs /\ Localised(rs[fr.pos]).key = rs[fr.pos].key
  <2>1. rs[fr.pos] \in Refs
    BY <1>1
  <2>2. QED
    BY <2>1 DEF Refs, Localised
<1>3. new \in Seq(Refs) /\ Len(new) = Len(rs)
  BY <1>1, <1>2
<1>4. /\ \A j \in 1 .. Len(rs) : j # fr.pos => new[j] = rs[j]
      /\ \A j \in 1 .. Len(rs) : new[j].key = rs[j].key
  BY <1>1, <1>2
<1>5. Past(fr, ok) = moved
  BY DEF Past, MovedTo
<1>6. [i \in DOMAIN new |-> new[i].key] = [i \in DOMAIN rs |-> rs[i].key]
  <2>1. DOMAIN new = 1 .. Len(rs) /\ DOMAIN rs = 1 .. Len(rs)
    BY <1>1, <1>3
  <2> HIDE DEF new, rs
  <2>2. QED
    BY <2>1, <1>4
<1>7. moved \in FrameTypes
  BY <1>1, <1>3 DEF FrameTypes, Definitions
<1>8. Strip(moved.def) = Strip(fr.def)
  BY <1>6 DEF Strip
<1> HIDE DEF new
<1>9. QED
  BY <1>3, <1>4, <1>5, <1>7, <1>8

-----------------------------------------------------------------------------
(* The inductive invariant.                                                *)

Id(fr) == <<fr.file, fr.key>>
IsLocal(s) == s[1] = Root /\ s[2] \in DOMAIN project[Root]

\* Each name of the document has a holder, local names hold theirs among
\* themselves, an import holds its own.
NamesInv ==
    /\ \A n \in DOMAIN owner : owner[n] \in DOMAIN doc
    /\ \A k \in DOMAIN doc :
          /\ Fold(k) \in DOMAIN owner
          /\ k \in DOMAIN origins \/ k \in DOMAIN project[Root]
    /\ \A k \in DOMAIN project[Root] : owner[Fold(k)] \in DOMAIN project[Root]
    /\ \A k \in DOMAIN origins : k \notin DOMAIN project[Root] /\ owner[Fold(k)] = k
    /\ LocalsKept
    /\ OriginsTrue

\* A frame below the top waits at the reference whose import is the next frame.
Waiting(i) ==
    /\ stack[i].pos <= Len(stack[i].def.refs)
    /\ Id(stack[i + 1]) = PointsTo(stack[i].def.refs[stack[i].pos], stack[i].file)

\* The bottom frame walks an element of the document, the others an import.
Placed(i) ==
    /\ i = 1 => IsLocal(Id(stack[i]))
    /\ i > 1 => /\ Id(stack[i]) \in done
                /\ ~IsLocal(Id(stack[i]))
                /\ stack[i].key \in DefKeys
                /\ IsWritten(Id(stack[i])) \/ stack[i].key \in DOMAIN doc

\* A frame's copy is what was written, unchanged from its position on, and
\* what lies before is covered.
Copied(i) ==
    IsWritten(Id(stack[i])) =>
        LET fr == stack[i]
            d == project[fr.file][fr.key]
        IN /\ Strip(fr.def) = Strip(d)
           /\ \A j \in DOMAIN d.refs :
                /\ j >= fr.pos => fr.def.refs[j] = d.refs[j]
                /\ j < fr.pos /\ errs = {} => Covered(fr.file, d, j)

StackInv ==
    /\ \A i \in 1 .. Len(stack) : Placed(i) /\ Copied(i)
    /\ \A i \in 1 .. Len(stack) - 1 : Waiting(i)

\* What has not been walked yet, or is being walked.
OnStack(s) == \E i \in 1 .. Len(stack) : Id(stack[i]) = s
Pending(s) ==
    \/ OnStack(s)
    \/ s[1] = Root /\ s[2] \in todo
    \/ phase = "messages" /\ IsLocal(s) /\ s[2] \in DefKeys

SettledInv == errs = {} => \A s \in Sources : Pending(s) \/ Settled(s)

PhaseInv ==
    /\ stack # << >> \/ todo # {} => phase \in {"messages", "locals"}
    /\ phase = "inlined" => errs = {}

\* The document's own definitions are never imported.
LocalsDone == \A k \in DOMAIN project[Root] \cap DefKeys : <<Root, k>> \in done

\* What is still to be walked has not been rewritten.
Awaits(k) == k \in todo \/ (phase = "messages" /\ k \in DefKeys)
UntouchedInv ==
    /\ phase = "messages" => todo \subseteq Messages
    /\ \A k \in DOMAIN project[Root] :
          Awaits(k) => doc[k] = project[Root][k] /\ ~OnStack(<<Root, k>>)

IInv ==
    /\ TypeOK /\ NamesInv /\ StackInv /\ SettledInv
    /\ PhaseInv /\ LocalsDone /\ UntouchedInv

-----------------------------------------------------------------------------
\* What TypeOK says of the innermost frame.
LEMMA TopFrame ==
    ASSUME TypeOK, stack # << >>
    PROVE  /\ Len(stack) \in Nat \ {0}
           /\ Top \in FrameTypes
           /\ Top.def.refs \in Seq(Refs)
           /\ Top.pos <= Len(Top.def.refs) => Ref \in Refs /\ Top.pos \in 1 .. Len(Top.def.refs)
<1>1. stack \in Seq(FrameTypes) /\ Len(stack) \in Nat \ {0}
  BY DEF TypeOK
<1>2. Top \in FrameTypes
  BY <1>1 DEF Top
<1>3. Top.def.refs \in Seq(Refs) /\ Top.pos \in Nat \ {0}
  BY <1>2 DEF FrameTypes, Definitions
<1>4. ASSUME Top.pos <= Len(Top.def.refs)
      PROVE  Ref \in Refs /\ Top.pos \in 1 .. Len(Top.def.refs)
  BY <1>3, <1>4 DEF Ref
<1>5. QED
  BY <1>1, <1>2, <1>3, <1>4

\* A walk that leaves its reference behind keeps the invariant, provided the
\* reference is covered or an error is recorded.
LEMMA PassPreserves ==
    ASSUME IInv, Walking, NEW ok \in BOOLEAN, PassRef(ok),
           UNCHANGED <<project, doc, done, owner, origins, todo, phase>>,
           errs' \subseteq Reports, errs \subseteq errs',
           errs' = {} => \/ Top.file = Root /\ Ref.file = Here
                         \/ PointsTo(Ref, Top.file) \in done
    PROVE  IInv'
<1>0. PICK n : n = Len(stack)
  OBVIOUS
<1>1. /\ stack \in Seq(FrameTypes) /\ n \in Nat \ {0}
      /\ Top = stack[n] /\ Top \in FrameTypes /\ Top.pos <= Len(Top.def.refs)
      /\ Top.def.refs \in Seq(Refs) /\ Top.pos \in 1 .. Len(Top.def.refs)
  BY <1>0, TopFrame DEF IInv, TypeOK, Walking, Top
<1>2. stack' = [stack EXCEPT ![n] = Past(Top, ok)]
  BY <1>0 DEF PassRef
<1>3. Past(Top, ok) \in FrameTypes
  BY <1>1, PastFrame
<1>4. /\ stack' \in Seq(FrameTypes) /\ Len(stack') = n
      /\ \A i \in 1 .. n : i # n => stack'[i] = stack[i]
      /\ stack'[n] = Past(Top, ok)
  <2>1. PICK new \in FrameTypes : new = Past(Top, ok)
    BY <1>3
  <2>2. stack' = [stack EXCEPT ![n] = new] /\ n \in 1 .. Len(stack) /\ n = Len(stack)
    BY <1>0, <1>1, <1>2, <2>1
  <2>3. QED
    BY <1>1, <2>1, <2>2
<1>5. \A i \in 1 .. n : Id(stack'[i]) = Id(stack[i]) /\ stack'[i].key = stack[i].key
                        /\ stack'[i].file = stack[i].file
  BY <1>1, <1>4, PastFrame DEF Id
<1>6. TypeOK'
  BY <1>4 DEF IInv, TypeOK, IsProject, IsDocument
<1>7. NamesInv'
  BY DEF IInv, NamesInv, LocalsKept, OriginsTrue
<1>8. ASSUME NEW i \in 1 .. n
      PROVE  Placed(i)'
  BY <1>0, <1>4, <1>5, <1>8 DEF IInv, StackInv, Placed, IsLocal, IsWritten
<1>9. ASSUME NEW i \in 1 .. n
      PROVE  Copied(i)'
  <2>1. CASE i # n
    BY <1>0, <1>4, <1>9, <2>1 DEF IInv, StackInv, Copied, Covered, Id, IsWritten
  <2>2. CASE i = n
    <3>1. PICK f, k, p, rs : f = Top.file /\ k = Top.key /\ p = Top.pos /\ rs = Top.def.refs
      OBVIOUS
    <3>2. /\ stack'[n].file = f /\ stack'[n].key = k /\ stack'[n].pos = p + 1
          /\ Strip(stack'[n].def) = Strip(Top.def)
          /\ \A j \in 1 .. Len(rs) : j # p => stack'[n].def.refs[j] = rs[j]
      <4>1. PICK new : new = Past(Top, ok)
        OBVIOUS
      <4>2. /\ new.file = Top.file /\ new.key = Top.key /\ new.pos = Top.pos + 1
            /\ Strip(new.def) = Strip(Top.def)
            /\ \A j \in 1 .. Len(Top.def.refs) : j # Top.pos => new.def.refs[j] = Top.def.refs[j]
        BY <1>1, <4>1, PastFrame, SMTT(30)
      <4>3. stack'[n] = new
        BY <1>4, <4>1
      <4>4. QED
        BY <3>1, <4>2, <4>3
    <3> SUFFICES ASSUME IsWritten(<<f, k>>), i = n
                 PROVE  Copied(n)'
      BY <2>2, <3>2 DEF Copied, IsWritten, Id
    <3>3. PICK d : d = project[f][k]
      OBVIOUS
    <3>4. /\ Strip(Top.def) = Strip(d)
          /\ \A j \in DOMAIN d.refs :
                /\ j >= p => rs[j] = d.refs[j]
                /\ j < p /\ errs = {} => Covered(f, d, j)
      BY <1>0, <1>1, <3>1, <3>3 DEF IInv, StackInv, Copied, Id
    <3>5. DOMAIN d.refs = 1 .. Len(rs)
      <4>1. DOMAIN Top.def.refs = DOMAIN d.refs
        BY <3>4 DEF Strip
      <4>2. QED
        BY <1>1, <3>1, <4>1
    <3>6. d.refs[p] = Ref
      BY <1>1, <3>1, <3>4, <3>5 DEF Ref
    <3>7. errs' = {} => Covered(f, d, p)
      BY <3>1, <3>6 DEF Covered
    <3>8. \A j \in DOMAIN d.refs :
             /\ j >= p + 1 => stack'[n].def.refs[j] = d.refs[j]
             /\ j < p + 1 /\ errs' = {} => Covered(f, d, j)'
      <4> SUFFICES ASSUME NEW j \in DOMAIN d.refs
                   PROVE  /\ j >= p + 1 => stack'[n].def.refs[j] = d.refs[j]
                          /\ j < p + 1 /\ errs' = {} => Covered(f, d, j)
        BY DEF Covered
      <4>1. j \in Nat /\ p \in Nat
        BY <1>1, <3>1, <3>5
      <4>2. QED
        BY <3>2, <3>4, <3>5, <3>7, <4>1
    <3>9. QED
      BY <3>2, <3>3, <3>4, <3>8 DEF Copied, Covered
  <2>3. QED
    BY <2>1, <2>2, SMTT(30)
<1>10. ASSUME NEW i \in 1 .. n - 1
       PROVE  Waiting(i)'
  <2>1. i \in 1 .. n /\ i + 1 \in 1 .. n /\ i # n
    BY <1>1
  <2>2. stack'[i] = stack[i] /\ Id(stack'[i + 1]) = Id(stack[i + 1])
    BY <1>4, <1>5, <2>1
  <2>3. QED
    BY <1>0, <2>1, <2>2 DEF IInv, StackInv, Waiting, Id
<1>11. StackInv'
  BY <1>0, <1>4, <1>8, <1>9, <1>10 DEF StackInv
<1>12. ASSUME NEW s, OnStack(s)
       PROVE  OnStack(s)'
  BY <1>0, <1>4, <1>5, <1>12 DEF OnStack, Id
<1>13. SettledInv'
  BY <1>12 DEF IInv, SettledInv, Sources, Pending, IsLocal, Settled, IsWritten, Covered
<1>14. PhaseInv'
  BY <1>1, <1>4 DEF IInv, PhaseInv, Walking
<1>15. LocalsDone'
  BY DEF IInv, LocalsDone
<1>16. ASSUME NEW s, OnStack(s)'
       PROVE  OnStack(s)
  BY <1>0, <1>4, <1>5, <1>16 DEF OnStack, Id
<1>17. UntouchedInv'
  BY <1>16 DEF IInv, UntouchedInv, Awaits
<1>18. QED
  BY <1>6, <1>7, <1>11, <1>13, <1>14, <1>15, <1>17 DEF IInv

-----------------------------------------------------------------------------
(* Returning from a walk.                                                  *)

\* A walk that has passed its last reference holds what was written, and all
\* it refers to is covered, or something was reported.
LEMMA TopWalked ==
    ASSUME IInv, Returning, IsWritten(Id(Top))
    PROVE  LET d == project[Top.file][Top.key]
           IN /\ Strip(Top.def) = Strip(d)
              /\ \A j \in DOMAIN d.refs : errs = {} => Covered(Top.file, d, j)
<1>1. PICK d : d = project[Top.file][Top.key]
  OBVIOUS
<1>2. PICK fr, n : fr = Top /\ n = Len(stack)
  OBVIOUS
<1>3. /\ fr = stack[n] /\ n \in 1 .. Len(stack) /\ fr \in FrameTypes /\ fr.pos > Len(fr.def.refs)
  BY <1>2, TopFrame DEF IInv, Returning, Top
<1>4. /\ Strip(fr.def) = Strip(d)
      /\ \A j \in DOMAIN d.refs : j < fr.pos /\ errs = {} => Covered(fr.file, d, j)
  BY <1>1, <1>2, <1>3 DEF IInv, StackInv, Copied, Id
<1>5. DOMAIN d.refs = 1 .. Len(fr.def.refs) /\ fr.pos \in Nat /\ Len(fr.def.refs) \in Nat
  <2>1. fr.def.refs \in Seq(Refs) /\ fr.pos \in Nat
    BY <1>3 DEF FrameTypes, Definitions
  <2>2. DOMAIN d.refs = DOMAIN fr.def.refs
    BY <1>4 DEF Strip
  <2>3. QED
    BY <2>1, <2>2
<1>6. \A j \in DOMAIN d.refs : j < fr.pos
  BY <1>3, <1>5
<1>7. QED
  BY <1>1, <1>2, <1>4, <1>6

\* The stack after importRef returned: the caller has passed its reference,
\* whose source is done.
LEMMA ReturnStack ==
    ASSUME IInv, FinishImport, NEW ok \in BOOLEAN, Return(ok),
           UNCHANGED <<project, done>>,
           DOMAIN doc \subseteq DOMAIN doc', errs \subseteq errs'
    PROVE  /\ stack' \in Seq(FrameTypes) /\ stack' # << >>
           /\ StackInv'
           /\ \A s : OnStack(s) => OnStack(s)' \/ s = Id(Top)
           /\ \A s : OnStack(s)' => OnStack(s)
<1>1. PICK n, fr, top : n = Len(stack) /\ fr = stack[n - 1] /\ top = Top
  OBVIOUS
<1>2. /\ stack \in Seq(FrameTypes) /\ n \in Nat /\ n > 1
      /\ top = stack[n] /\ top \in FrameTypes /\ fr \in FrameTypes
  BY <1>1, TopFrame DEF IInv, TypeOK, FinishImport, Returning, Top
<1>3. /\ fr.pos \in 1 .. Len(fr.def.refs)
      /\ Id(top) = PointsTo(fr.def.refs[fr.pos], fr.file)
      /\ Id(top) \in done
      /\ Len(fr.def.refs) \in Nat
  <2>1. n - 1 \in 1 .. Len(stack) - 1 /\ n \in 1 .. Len(stack) /\ (n - 1) + 1 = n
    BY <1>1, <1>2
  <2>2. Waiting(n - 1) /\ Placed(n)
    BY <2>1 DEF IInv, StackInv
  <2>3. fr.pos \in Nat \ {0} /\ Len(fr.def.refs) \in Nat
    BY <1>2 DEF FrameTypes, Definitions
  <2>4. QED
    BY <1>1, <1>2, <2>1, <2>2, <2>3 DEF Waiting, Placed
<1>4. PICK new \in FrameTypes :
         /\ new = Past(fr, ok)
         /\ new.file = fr.file /\ new.key = fr.key /\ new.pos = fr.pos + 1
         /\ Strip(new.def) = Strip(fr.def)
         /\ \A j \in 1 .. Len(fr.def.refs) : j # fr.pos => new.def.refs[j] = fr.def.refs[j]
  BY <1>2, <1>3, PastFrame
<1>5. /\ stack' \in Seq(FrameTypes) /\ Len(stack') = n - 1
      /\ \A i \in 1 .. n - 1 : stack'[i] = IF i = n - 1 THEN new ELSE stack[i]
  <2>1. stack' = [i \in 1 .. n - 1 |-> IF i = n - 1 THEN new ELSE stack[i]]
    BY <1>1, <1>4 DEF Return
  <2>2. n - 1 \in Nat /\ \A i \in 1 .. n - 1 : stack[i] \in FrameTypes
    BY <1>1, <1>2
  <2>3. QED
    BY <2>1, <2>2
<1>6. \A i \in 1 .. n - 1 :
         /\ Id(stack'[i]) = Id(stack[i])
         /\ stack'[i].key = stack[i].key /\ stack'[i].file = stack[i].file
  BY <1>1, <1>4, <1>5, SMTT(30) DEF Id
<1>7. ASSUME NEW i \in 1 .. n - 1
      PROVE  Placed(i)'
  <2>1. Placed(i) /\ stack'[i].key = stack[i].key /\ stack'[i].file = stack[i].file
    BY <1>1, <1>2, <1>6 DEF IInv, StackInv
  <2>2. QED
    BY <2>1 DEF Placed, IsLocal, IsWritten, Id
<1>8. ASSUME NEW i \in 1 .. n - 1
      PROVE  Copied(i)'
  <2>1. CASE i # n - 1
    <3>1. Copied(i) /\ stack'[i] = stack[i]
      BY <1>1, <1>2, <1>5, <2>1, SMTT(30) DEF IInv, StackInv
    <3>2. QED
      BY <3>1 DEF Copied, Covered, Id, IsWritten
  <2>2. CASE i = n - 1
    <3> SUFFICES ASSUME IsWritten(Id(fr))
                 PROVE  Copied(i)'
      <4>1. stack'[i].file = fr.file /\ stack'[i].key = fr.key
        BY <1>4, <1>5, <2>2
      <4>2. QED
        BY <4>1 DEF Copied, IsWritten, Id
    <3>1. PICK d : d = project[fr.file][fr.key]
      BY SMTT(30)
    <3>2. /\ Strip(fr.def) = Strip(d)
          /\ \A j \in DOMAIN d.refs :
                /\ j >= fr.pos => fr.def.refs[j] = d.refs[j]
                /\ j < fr.pos /\ errs = {} => Covered(fr.file, d, j)
      <4>1. Copied(n - 1)
        BY <1>1, <1>2 DEF IInv, StackInv
      <4>2. QED
        BY <1>1, <3>1, <4>1, ZenonT(30) DEF Copied, Id
    <3>3. DOMAIN d.refs = 1 .. Len(fr.def.refs)
      <4>1. DOMAIN fr.def.refs = DOMAIN d.refs
        BY <3>2 DEF Strip
      <4>2. QED
        BY <1>2, <4>1 DEF FrameTypes, Definitions
    <3>4. Covered(fr.file, d, fr.pos)
      BY <1>3, <3>2, <3>3 DEF Covered
    <3>5. \A j \in DOMAIN d.refs :
             /\ j >= fr.pos + 1 => new.def.refs[j] = d.refs[j]
             /\ j < fr.pos + 1 /\ errs' = {} => Covered(fr.file, d, j)
      <4> SUFFICES ASSUME NEW j \in DOMAIN d.refs
                   PROVE  /\ j >= fr.pos + 1 => new.def.refs[j] = d.refs[j]
                          /\ j < fr.pos + 1 /\ errs' = {} => Covered(fr.file, d, j)
        OBVIOUS
      <4>1. j \in 1 .. Len(fr.def.refs) /\ fr.pos \in Nat
        BY <1>3, <3>3
      <4>2. QED
        BY <1>4, <3>2, <3>4, <4>1
    <3>6. stack'[i] = new
      BY <1>5, <2>2
    <3>7. QED
      BY <1>4, <3>1, <3>2, <3>5, <3>6 DEF Copied, Covered
  <2>3. QED
    BY <2>1, <2>2, SMTT(30)
<1>9. ASSUME NEW i \in 1 .. (n - 1) - 1
      PROVE  Waiting(i)'
  <2>1. i \in 1 .. n - 1 /\ i + 1 \in 1 .. n - 1 /\ i # n - 1 /\ i \in 1 .. Len(stack) - 1
    BY <1>1, <1>2
  <2>2. stack'[i] = stack[i] /\ Id(stack'[i + 1]) = Id(stack[i + 1])
    BY <1>5, <1>6, <2>1
  <2>3. QED
    BY <2>1, <2>2 DEF IInv, StackInv, Waiting, Id
<1>10. StackInv'
  BY <1>5, <1>7, <1>8, <1>9 DEF StackInv
<1>11. ASSUME NEW s, OnStack(s), s # Id(Top)
       PROVE  OnStack(s)'
  <2>1. PICK i \in 1 .. n : Id(stack[i]) = s
    BY <1>1, <1>11 DEF OnStack
  <2>2. i \in 1 .. n - 1
    BY <1>1, <1>2, <1>11, <2>1
  <2>3. QED
    BY <1>5, <1>6, <2>1, <2>2 DEF OnStack, Id
<1>12. ASSUME NEW s, OnStack(s)'
       PROVE  OnStack(s)
  <2>1. PICK i \in 1 .. n - 1 : Id(stack'[i]) = s
    BY <1>5, <1>12 DEF OnStack, Id
  <2>2. QED
    BY <1>1, <1>2, <1>6, <2>1 DEF OnStack
<1>13. stack' # << >>
  BY <1>2, <1>5
<1>14. QED
  BY <1>5, <1>10, <1>11, <1>12, <1>13

\* A report names a place, and stays.
LEMMA ReportTyped ==
    ASSUME NEW fr \in FrameTypes,
           NEW why \in {"pointer", "unreadable", "missing", "clash"},
           errs \subseteq Reports, Report(why, fr)
    PROVE  errs' \subseteq Reports /\ errs \subseteq errs' /\ errs' # {}
<1>1. PICK r : r = [why |-> why, file |-> fr.file, key |-> fr.key, pos |-> fr.pos]
  OBVIOUS
<1>2. r \in Reports
  BY <1>1 DEF Reports, FrameTypes
<1>3. errs' = errs \cup {r}
  BY <1>1 DEF Report
<1>4. QED
  BY <1>2, <1>3

\* An import that ended without a new name.
LEMMA EndPreserves ==
    ASSUME IInv, FinishImport, NEW ok \in BOOLEAN, Return(ok),
           UNCHANGED <<project, doc, done, owner, origins, todo, phase>>,
           errs' \subseteq Reports, errs \subseteq errs',
           errs' = {} => Taken(Top.key) /\ SameType(Top.key, Top.def)
    PROVE  IInv'
<1>1. /\ stack' \in Seq(FrameTypes) /\ stack' # << >>
      /\ StackInv'
      /\ \A s : OnStack(s) => OnStack(s)' \/ s = Id(Top)
      /\ \A s : OnStack(s)' => OnStack(s)
  BY ReturnStack
<1>2. TypeOK'
  BY <1>1 DEF IInv, TypeOK, IsProject, IsDocument
<1>3. NamesInv'
  BY DEF IInv, NamesInv, LocalsKept, OriginsTrue
<1>4. ASSUME errs' = {}
      PROVE  Settled(Id(Top))
  <2>1. SameType(Top.key, Top.def) /\ Taken(Top.key) /\ errs = {}
    BY <1>4
  <2>2. /\ Strip(doc[Top.key]) = Strip(Top.def)
        /\ Fold(Top.key) \in DOMAIN owner /\ owner[Fold(Top.key)] = Top.key
    BY <2>1 DEF SameType, Taken
  <2>3. Top.key \in DOMAIN doc
    BY <2>2 DEF IInv, NamesInv
  <2>4. QED
    BY <2>1, <2>2, <2>3, TopWalked DEF FinishImport, Settled, Id
<1>5. SettledInv'
  <2> SUFFICES ASSUME errs' = {}, NEW s \in Sources
               PROVE  (Pending(s) \/ Settled(s))'
    BY DEF SettledInv, Sources
  <2>1. Pending(s) \/ Settled(s)
    BY DEF IInv, SettledInv
  <2>2. Settled(s) => Settled(s)'
    BY DEF Settled, IsWritten, Covered
  <2>3. Pending(s) => Pending(s)' \/ s = Id(Top)
    BY <1>1 DEF Pending, IsLocal
  <2>4. QED
    BY <1>4, <2>1, <2>2, <2>3
<1>6. PhaseInv'
  BY DEF IInv, PhaseInv, FinishImport, Returning
<1>7. LocalsDone' /\ UntouchedInv'
  BY <1>1 DEF IInv, LocalsDone, UntouchedInv, Awaits
<1>8. QED
  BY <1>1, <1>2, <1>3, <1>5, <1>6, <1>7 DEF IInv

\* The import that gives the document a new name.
LEMMA ClaimEffect ==
    ASSUME IInv, ClaimName, NEW k, NEW f, NEW def, k = Top.key, f = Top.file, def = Top.def
    PROVE  /\ k \notin DOMAIN doc /\ k \notin DOMAIN origins /\ k \notin DOMAIN project[Root]
           /\ Fold(k) \notin DOMAIN owner
           /\ DOMAIN doc' = DOMAIN doc \cup {k} /\ doc'[k] = def
           /\ \A l \in DOMAIN doc : doc'[l] = doc[l]
           /\ DOMAIN owner' = DOMAIN owner \cup {Fold(k)} /\ owner'[Fold(k)] = k
           /\ \A n \in DOMAIN owner : owner'[n] = owner[n]
           /\ DOMAIN origins' = DOMAIN origins \cup {k} /\ origins'[k] = <<f, k>>
           /\ \A l \in DOMAIN origins : origins'[l] = origins[l]
           /\ k \in DefKeys /\ f \in Files /\ def \in Definitions
           /\ Fold(k) \in {FoldOf[n] : n \in Names}
           /\ IsWritten(<<f, k>>) /\ f # Root
<1>1. /\ doc' = Put(doc, k, def) /\ owner' = Put(owner, Fold(k), k)
      /\ origins' = Put(origins, k, <<f, k>>)
      /\ Fold(k) \notin DOMAIN owner /\ FinishImport
  BY DEF ClaimName, Taken
<1>2. k \notin DOMAIN doc /\ k \notin DOMAIN origins /\ k \notin DOMAIN project[Root]
  BY <1>1 DEF IInv, NamesInv, LocalsKept, OriginsTrue
<1>3. /\ DOMAIN doc' = DOMAIN doc \cup {k} /\ doc'[k] = def
      /\ \A l \in DOMAIN doc : doc'[l] = doc[l]
      /\ DOMAIN owner' = DOMAIN owner \cup {Fold(k)} /\ owner'[Fold(k)] = k
      /\ \A n \in DOMAIN owner : owner'[n] = owner[n]
      /\ DOMAIN origins' = DOMAIN origins \cup {k} /\ origins'[k] = <<f, k>>
      /\ \A l \in DOMAIN origins : origins'[l] = origins[l]
  BY <1>1, <1>2 DEF Put
<1>4. k \in DefKeys /\ f \in Files /\ def \in Definitions /\ Fold(k) \in {FoldOf[n] : n \in Names}
      /\ IsWritten(<<f, k>>) /\ f # Root
  <2>1. PICK i : i = Len(stack) /\ Top = stack[i] /\ i > 1 /\ i \in 1 .. Len(stack) /\ Top \in FrameTypes
    BY <1>1, TopFrame DEF IInv, FinishImport, Returning, Top
  <2>2. Placed(i)
    BY <2>1 DEF IInv, StackInv
  <2>3. IsWritten(<<f, k>>) /\ ~IsLocal(<<f, k>>) /\ k \in DefKeys
    BY <1>2, <2>1, <2>2 DEF Placed, Id
  <2>4. QED
    BY <2>1, <2>3 DEF IsLocal, IsWritten, FrameTypes, Fold, DefKeys
<1>5. QED
  BY <1>1, <1>2, <1>3, <1>4

LEMMA ClaimPreserves ==
    ASSUME IInv, ClaimName
    PROVE  IInv'
<1>1. PICK k, f, def : k = Top.key /\ f = Top.file /\ def = Top.def
  OBVIOUS
<1>2. /\ doc' = Put(doc, k, def) /\ owner' = Put(owner, Fold(k), k)
      /\ origins' = Put(origins, k, <<f, k>>)
      /\ Fold(k) \notin DOMAIN owner /\ Return(TRUE) /\ FinishImport
      /\ UNCHANGED <<project, done, todo, phase, errs>>
  BY <1>1 DEF ClaimName, Taken
<1>3. k \notin DOMAIN doc /\ k \notin DOMAIN origins /\ k \notin DOMAIN project[Root]
  BY <1>1, ClaimEffect
<1>4. /\ DOMAIN doc' = DOMAIN doc \cup {k} /\ doc'[k] = def
      /\ \A l \in DOMAIN doc : doc'[l] = doc[l]
      /\ DOMAIN owner' = DOMAIN owner \cup {Fold(k)} /\ owner'[Fold(k)] = k
      /\ \A n \in DOMAIN owner : owner'[n] = owner[n]
      /\ DOMAIN origins' = DOMAIN origins \cup {k} /\ origins'[k] = <<f, k>>
      /\ \A l \in DOMAIN origins : origins'[l] = origins[l]
  BY <1>1, ClaimEffect, ZenonT(40)
<1>5. /\ stack' \in Seq(FrameTypes) /\ stack' # << >>
      /\ StackInv'
      /\ \A s : OnStack(s) => OnStack(s)' \/ s = Id(Top)
      /\ \A s : OnStack(s)' => OnStack(s)
  BY <1>2, <1>4, ReturnStack
<1>6. k \in DefKeys /\ f \in Files /\ def \in Definitions /\ Fold(k) \in {FoldOf[n] : n \in Names}
      /\ IsWritten(<<f, k>>) /\ f # Root
  BY <1>1, ClaimEffect
<1>7. Strip(def) = Strip(project[f][k])
  BY <1>1, <1>2, <1>6, TopWalked DEF FinishImport, Id
<1>8. TypeOK'
  <2>1. IsDocument(doc')
    BY <1>2, <1>4, <1>6 DEF IInv, TypeOK, IsDocument, Put, Keys
  <2>2. /\ DOMAIN owner' \subseteq {FoldOf[n] : n \in Names}
        /\ owner' \in [DOMAIN owner' -> Keys]
    BY <1>2, <1>4, <1>6 DEF IInv, TypeOK, Put, Keys
  <2>3. /\ DOMAIN origins' \subseteq DefKeys
        /\ origins' \in [DOMAIN origins' -> Files \X DefKeys]
    BY <1>2, <1>4, <1>6 DEF IInv, TypeOK, Put
  <2>4. QED
    BY <1>2, <1>5, <2>1, <2>2, <2>3 DEF IInv, TypeOK, IsProject
<1>9. NamesInv'
  <2>1. LocalsKept'
    BY <1>2, <1>3, <1>4 DEF IInv, NamesInv, LocalsKept
  <2>2. OriginsTrue'
    BY <1>2, <1>3, <1>4, <1>6, <1>7 DEF IInv, NamesInv, OriginsTrue, IsWritten
  <2>3. /\ \A n \in DOMAIN owner' : owner'[n] \in DOMAIN doc'
        /\ \A l \in DOMAIN doc' : /\ Fold(l) \in DOMAIN owner'
                                  /\ l \in DOMAIN origins' \/ l \in DOMAIN project[Root]
    BY <1>4 DEF IInv, NamesInv
  <2>4. \A l \in DOMAIN project[Root] : owner'[Fold(l)] \in DOMAIN project[Root]
    BY <1>3, <1>4 DEF IInv, NamesInv, LocalsKept
  <2>5. \A l \in DOMAIN origins' : l \notin DOMAIN project[Root] /\ owner'[Fold(l)] = l
    BY <1>2, <1>3, <1>4 DEF IInv, NamesInv, OriginsTrue
  <2>6. QED
    BY <1>2, <2>1, <2>2, <2>3, <2>4, <2>5 DEF NamesInv, Fold
<1>10. ASSUME errs = {}
       PROVE  Settled(<<f, k>>)'
  <2>1. \A j \in DOMAIN project[f][k].refs : Covered(f, project[f][k], j)
    BY <1>1, <1>2, <1>6, <1>10, TopWalked DEF FinishImport, Id
  <2>2. /\ k \in DOMAIN doc' /\ Strip(doc'[k]) = Strip(project[f][k])
        /\ \A j \in DOMAIN project[f][k].refs : Covered(f, project[f][k], j)'
    BY <1>2, <1>4, <1>7, <2>1 DEF Covered
  <2>3. QED
    BY <1>2, <2>2 DEF Settled, Covered
<1>11. SettledInv'
  <2> SUFFICES ASSUME errs' = {}, NEW s \in Sources
               PROVE  (Pending(s) \/ Settled(s))'
    BY <1>2 DEF SettledInv, Sources
  <2>1. Pending(s) \/ Settled(s)
    BY <1>2 DEF IInv, SettledInv
  <2>2. Settled(s) => Settled(s)'
    BY <1>2, <1>4 DEF Settled, IsWritten, Covered
  <2>3. Pending(s) => Pending(s)' \/ s = Id(Top)
    BY <1>2, <1>5 DEF Pending, IsLocal
  <2>4. Id(Top) = <<f, k>>
    BY <1>1 DEF Id
  <2>5. QED
    BY <1>2, <1>10, <2>1, <2>2, <2>3, <2>4
<1>12. PhaseInv'
  BY <1>2 DEF IInv, PhaseInv, FinishImport, Returning
<1>13. LocalsDone'
  BY <1>2 DEF IInv, LocalsDone
<1>14. UntouchedInv'
  <2>1. \A l \in DOMAIN project[Root] : doc'[l] = doc[l]
    BY <1>4 DEF IInv, NamesInv, LocalsKept
  <2>2. QED
    BY <1>2, <1>5, <2>1 DEF IInv, UntouchedInv, Awaits
<1>15. QED
  BY <1>5, <1>8, <1>9, <1>11, <1>12, <1>13, <1>14 DEF IInv

-----------------------------------------------------------------------------
(* Starting walks, and the phases.                                         *)

LEMMA DescendPreserves ==
    ASSUME IInv, Descend
    PROVE  IInv'
<1>1. PICK n, top, f, k, d : /\ n = Len(stack) /\ top = Top /\ f = Target /\ k = Ref.key
                             /\ d = Loaded(Target)[Ref.key]
  OBVIOUS
<1>2. PICK new : new = Frame(f, k, d)
  OBVIOUS
<1>3. /\ <<f, k>> \notin done /\ done' = done \cup {<<f, k>>}
      /\ f \in DOMAIN project /\ k \in DOMAIN Loaded(f) /\ k # BadPointer
      /\ stack' = Append(stack, new)
      /\ UNCHANGED <<project, doc, owner, origins, todo, phase, errs>>
  BY <1>1, <1>2 DEF Descend
<1>4. /\ stack \in Seq(FrameTypes) /\ n \in Nat \ {0} /\ n = Len(stack)
      /\ top = stack[n] /\ top \in FrameTypes
      /\ Ref \in Refs /\ Ref = top.def.refs[top.pos] /\ top.pos <= Len(top.def.refs)
      /\ <<f, k>> = PointsTo(top.def.refs[top.pos], top.file)
  BY <1>1, TopFrame, ZenonT(40) DEF IInv, TypeOK, Descend, Importing, Walking, Top, Ref, Target, PointsTo
<1>5. k \in DefKeys /\ f \in Files /\ d \in Definitions
  BY <1>1, <1>3, <1>4 DEF IInv, TypeOK, IsProject, IsDocument, Loaded, Refs
<1>6. /\ new \in FrameTypes /\ new.file = f /\ new.key = k /\ new.def = d /\ new.pos = 1
      /\ Id(new) = <<f, k>>
  BY <1>2, <1>5 DEF Frame, FrameTypes, Keys, Id
<1>7. /\ stack' \in Seq(FrameTypes) /\ Len(stack') = n + 1
      /\ \A i \in 1 .. n : stack'[i] = stack[i]
      /\ stack'[n + 1] = new
  BY <1>3, <1>4, <1>6
<1>8. ~IsLocal(<<f, k>>)
  BY <1>3, <1>5 DEF IInv, LocalsDone, IsLocal
<1>9. TypeOK'
  BY <1>3, <1>5, <1>7 DEF IInv, TypeOK, IsProject, IsDocument
<1>10. NamesInv'
  BY <1>3 DEF IInv, NamesInv, LocalsKept, OriginsTrue
<1>11. ASSUME NEW i \in 1 .. n + 1
       PROVE  Placed(i)'
  <2>1. CASE i \in 1 .. n
    <3>1. Placed(i) /\ stack'[i] = stack[i]
      BY <1>4, <1>7, <2>1 DEF IInv, StackInv
    <3>2. QED
      BY <1>3, <3>1 DEF Placed, IsLocal, IsWritten, Id
  <2>2. CASE i = n + 1
    <3>1. IsWritten(<<f, k>>) \/ k \in DOMAIN doc
      BY <1>3 DEF Loaded, IsWritten
    <3>2. /\ i # 1
          /\ stack'[i].file = f /\ stack'[i].key = k /\ Id(stack'[i]) = <<f, k>>
      BY <1>4, <1>6, <1>7, <2>2, SMTT(30)
    <3>3. QED
      BY <1>3, <1>5, <1>8, <3>1, <3>2 DEF Placed, IsLocal, IsWritten, Id
  <2>3. QED
    BY <1>4, <2>1, <2>2
<1>12. ASSUME NEW i \in 1 .. n + 1
       PROVE  Copied(i)'
  <2>1. CASE i \in 1 .. n
    <3>1. Copied(i) /\ stack'[i] = stack[i]
      BY <1>4, <1>7, <2>1, SMTT(30) DEF IInv, StackInv
    <3>2. QED
      BY <1>3, <3>1 DEF Copied, Covered, Id, IsWritten
  <2>2. CASE i = n + 1
    <3>1. IsWritten(<<f, k>>) => d = project[f][k]
      BY <1>1, <1>8 DEF Loaded, IsLocal, IsWritten
    <3>2. DOMAIN d.refs = 1 .. Len(d.refs)
      BY <1>5 DEF Definitions
    <3>3. QED
      BY <1>3, <1>6, <1>7, <2>2, <3>1, <3>2 DEF Copied, IsWritten, Id
  <2>3. QED
    BY <1>4, <2>1, <2>2
<1>13. ASSUME NEW i \in 1 .. n
       PROVE  Waiting(i)'
  <2>1. CASE i # n
    <3>1. i \in 1 .. Len(stack) - 1 /\ i + 1 \in 1 .. n
      BY <1>4, <2>1
    <3>2. QED
      BY <1>7, <3>1 DEF IInv, StackInv, Waiting, Id
  <2>2. CASE i = n
    BY <1>4, <1>6, <1>7, <2>2 DEF Waiting, Id
  <2>3. QED
    BY <2>1, <2>2
<1>14. StackInv'
  BY <1>4, <1>7, <1>11, <1>12, <1>13 DEF StackInv
<1>15. SettledInv'
  <2> SUFFICES ASSUME errs' = {}, NEW s \in Sources'
               PROVE  (Pending(s) \/ Settled(s))'
    BY DEF SettledInv
  <2>1. CASE s = <<f, k>>
    BY <1>4, <1>6, <1>7, <2>1 DEF Pending, OnStack, Id
  <2>2. CASE s # <<f, k>>
    <3>1. s \in Sources
      BY <1>3, <2>2 DEF Sources
    <3>2. Pending(s) \/ Settled(s)
      BY <1>3, <3>1 DEF IInv, SettledInv
    <3>3. Settled(s) => Settled(s)'
      BY <1>3 DEF Settled, IsWritten, Covered
    <3>4. OnStack(s) => OnStack(s)'
      BY <1>4, <1>7 DEF OnStack, Id
    <3>5. QED
      BY <1>3, <3>2, <3>3, <3>4 DEF Pending, IsLocal
  <2>3. QED
    BY <2>1, <2>2
<1>16. PhaseInv'
  BY <1>3 DEF IInv, PhaseInv, Descend, Importing, Walking
<1>17. LocalsDone'
  BY <1>3 DEF IInv, LocalsDone
<1>18. UntouchedInv'
  <2>1. ASSUME NEW l \in DOMAIN project[Root], OnStack(<<Root, l>>)'
        PROVE  OnStack(<<Root, l>>)
    <3>1. PICK i \in 1 .. n + 1 : Id(stack'[i]) = <<Root, l>>
      BY <1>7, <2>1 DEF OnStack, Id
    <3>2. i # n + 1
      BY <1>6, <1>7, <1>8, <3>1 DEF IsLocal
    <3>3. i \in 1 .. n
      BY <1>4, <3>1, <3>2
    <3>4. QED
      BY <1>4, <1>7, <3>1, <3>3 DEF OnStack
  <2>2. QED
    BY <1>3, <2>1 DEF IInv, UntouchedInv, Awaits
<1>19. QED
  BY <1>9, <1>10, <1>14, <1>15, <1>16, <1>17, <1>18 DEF IInv

LEMMA StartElementPreserves ==
    ASSUME IInv, StartElement
    PROVE  IInv'
<1>1. PICK k : k = First(todo)
  OBVIOUS
<1>2. k \in todo /\ k \in DOMAIN project[Root] /\ k \in Keys
  <2>1. todo # {} /\ todo \subseteq DOMAIN project[Root] /\ DOMAIN project[Root] \subseteq Keys
    BY DEF IInv, TypeOK, StartElement, IsProject, IsDocument
  <2>2. QED
    BY <1>1, <2>1, FirstIn
<1>3. PICK new : new = Frame(Root, k, doc[k])
  OBVIOUS
<1>4. /\ stack = << >> /\ stack' = << new >> /\ todo' = todo \ {k}
      /\ UNCHANGED <<project, doc, done, owner, origins, phase, errs>>
      /\ phase \in {"messages", "locals"}
  BY <1>1, <1>3 DEF StartElement
<1>5. k \in DOMAIN doc /\ doc[k] \in Definitions /\ Strip(doc[k]) = Strip(project[Root][k])
  BY <1>2 DEF IInv, NamesInv, LocalsKept, TypeOK, IsDocument
<1>6. /\ new \in FrameTypes /\ new.file = Root /\ new.key = k /\ new.def = doc[k] /\ new.pos = 1
  BY <1>2, <1>3, <1>5, ConstantsAssumption DEF Frame, FrameTypes
<1>7. stack' \in Seq(FrameTypes) /\ Len(stack') = 1 /\ stack'[1] = new
  BY <1>4, <1>6
<1>8. TypeOK'
  BY <1>4, <1>7 DEF IInv, TypeOK, IsProject, IsDocument
<1>9. NamesInv'
  BY <1>4 DEF IInv, NamesInv, LocalsKept, OriginsTrue
<1>10. StackInv'
  <2>1. Placed(1)'
    BY <1>2, <1>4, <1>6, <1>7 DEF Placed, IsLocal, Id
  <2>2. Copied(1)'
    <3>1. doc[k] = project[Root][k]
      BY <1>2, <1>4 DEF IInv, UntouchedInv, Awaits
    <3>2. DOMAIN doc[k].refs = 1 .. Len(doc[k].refs)
      BY <1>5 DEF Definitions
    <3>3. QED
      BY <1>4, <1>6, <1>7, <3>1, <3>2 DEF Copied
  <2>3. QED
    BY <1>7, <2>1, <2>2 DEF StackInv
<1>11. SettledInv'
  <2> SUFFICES ASSUME errs' = {}, NEW s \in Sources
               PROVE  (Pending(s) \/ Settled(s))'
    BY <1>4 DEF SettledInv, Sources
  <2>1. Pending(s) \/ Settled(s)
    BY <1>4 DEF IInv, SettledInv
  <2>2. Settled(s) => Settled(s)'
    BY <1>4 DEF Settled, IsWritten, Covered
  <2>3. ~OnStack(s)
    BY <1>4 DEF OnStack
  <2>4. OnStack(<<Root, k>>)'
    BY <1>6, <1>7 DEF OnStack, Id
  <2>5. s = <<s[1], s[2]>>
    BY <1>2 DEF IInv, TypeOK, Sources
  <2>6. Pending(s) => Pending(s)'
    BY <1>4, <2>3, <2>4, <2>5 DEF Pending, IsLocal
  <2>7. QED
    BY <2>1, <2>2, <2>6
<1>12. PhaseInv' /\ LocalsDone'
  BY <1>4, <1>7 DEF IInv, PhaseInv, LocalsDone
<1>13. UntouchedInv'
  <2>1. ASSUME NEW l \in DOMAIN project[Root], Awaits(l)'
        PROVE  l # k /\ Awaits(l)
    BY <1>2, <1>4, <2>1, ConstantsAssumption DEF IInv, UntouchedInv, Awaits, Messages, DefKeys
  <2>2. \A l : OnStack(<<Root, l>>)' => l = k
    BY <1>6, <1>7 DEF OnStack, Id
  <2>3. QED
    BY <1>4, <2>1, <2>2 DEF IInv, UntouchedInv
<1>14. QED
  BY <1>8, <1>9, <1>10, <1>11, <1>12, <1>13 DEF IInv

LEMMA FinishElementPreserves ==
    ASSUME IInv, FinishElement
    PROVE  IInv'
<1>1. PICK top : top = Top
  OBVIOUS
<1>2. PICK k, def : k = top.key /\ def = top.def
  OBVIOUS
<1>3. /\ stack \in Seq(FrameTypes) /\ Len(stack) = 1 /\ stack[1] = top /\ Returning
      /\ top \in FrameTypes
      /\ doc' = [doc EXCEPT ![k] = def] /\ stack' = << >>
      /\ UNCHANGED <<project, done, owner, origins, todo, phase, errs>>
  BY <1>1, <1>2, TopFrame DEF IInv, TypeOK, FinishElement, Returning, Top
<1>4. /\ Id(top) = <<Root, k>> /\ top.file = Root /\ k \in DOMAIN project[Root]
      /\ IsWritten(<<Root, k>>)
  <2>1. Placed(1)
    BY <1>3 DEF IInv, StackInv
  <2>2. QED
    BY <1>2, <1>3, <2>1 DEF Placed, IsLocal, Id, IsWritten, IInv, TypeOK, IsProject
<1>5. /\ Strip(def) = Strip(project[Root][k]) /\ def \in Definitions
      /\ \A j \in DOMAIN project[Root][k].refs : errs = {} => Covered(Root, project[Root][k], j)
  BY <1>1, <1>2, <1>3, <1>4, TopWalked DEF FrameTypes
<1>6. /\ k \in DOMAIN doc /\ DOMAIN doc' = DOMAIN doc /\ doc'[k] = def
      /\ \A l \in DOMAIN doc : l # k => doc'[l] = doc[l]
      /\ \A l \in DOMAIN doc : Strip(doc'[l]) = Strip(doc[l])
  BY <1>3, <1>4, <1>5 DEF IInv, NamesInv, LocalsKept, TypeOK, IsDocument
<1>7. TypeOK'
  BY <1>3, <1>5, <1>6 DEF IInv, TypeOK, IsProject, IsDocument
<1>8. NamesInv'
  <2>1. LocalsKept' /\ OriginsTrue'
    BY <1>3, <1>6 DEF IInv, NamesInv, LocalsKept, OriginsTrue
  <2>2. QED
    BY <1>3, <1>6, <2>1 DEF IInv, NamesInv
<1>9. StackInv' /\ \A s : ~OnStack(s)'
  BY <1>3 DEF StackInv, OnStack
<1>10. SettledInv'
  <2> SUFFICES ASSUME errs' = {}, NEW s \in Sources
               PROVE  (Pending(s) \/ Settled(s))'
    BY <1>3 DEF SettledInv, Sources
  <2>1. Pending(s) \/ Settled(s)
    BY <1>3 DEF IInv, SettledInv
  <2>2. Settled(s) => Settled(s)'
    BY <1>3, <1>6 DEF Settled, IsWritten, Covered
  <2>3. OnStack(s) => s = <<Root, k>>
    BY <1>3, <1>4 DEF OnStack
  <2>4. Settled(<<Root, k>>)'
    BY <1>3, <1>5, <1>6 DEF Settled, Covered
  <2>5. QED
    BY <1>3, <2>1, <2>2, <2>3, <2>4 DEF Pending, IsLocal
<1>11. PhaseInv' /\ LocalsDone'
  BY <1>3 DEF IInv, PhaseInv, LocalsDone
<1>12. UntouchedInv'
  <2>1. ~Awaits(k)
    BY <1>3, <1>4 DEF IInv, UntouchedInv, OnStack
  <2>2. \A l \in DOMAIN project[Root] : l \in DOMAIN doc
    BY DEF IInv, NamesInv, LocalsKept
  <2>3. QED
    BY <1>3, <1>6, <1>9, <2>1, <2>2 DEF IInv, UntouchedInv, Awaits
<1>13. QED
  BY <1>7, <1>8, <1>9, <1>10, <1>11, <1>12 DEF IInv

LEMMA StartLocalsPreserves ==
    ASSUME IInv, StartLocals
    PROVE  IInv'
<1>1. /\ stack = << >> /\ todo = {} /\ phase = "messages" /\ phase' = "locals"
      /\ todo' = (DOMAIN doc \cap DefKeys) \ DOMAIN origins
      /\ UNCHANGED <<project, doc, done, owner, origins, stack, errs>>
  BY DEF StartLocals
<1>2. todo' = DOMAIN project[Root] \cap DefKeys
  BY <1>1 DEF IInv, NamesInv, LocalsKept
<1>3. TypeOK' /\ NamesInv' /\ StackInv' /\ PhaseInv' /\ LocalsDone'
  BY <1>1, <1>2 DEF IInv, TypeOK, IsProject, IsDocument, NamesInv, LocalsKept, OriginsTrue,
                    StackInv, PhaseInv, LocalsDone
<1>4. \A s : ~OnStack(s) /\ ~OnStack(s)'
  BY <1>1 DEF OnStack
<1>5. SettledInv'
  <2> SUFFICES ASSUME errs' = {}, NEW s \in Sources
               PROVE  (Pending(s) \/ Settled(s))'
    BY <1>1 DEF SettledInv, Sources
  <2>1. Pending(s) \/ Settled(s)
    BY <1>1 DEF IInv, SettledInv
  <2>2. Settled(s) => Settled(s)'
    BY <1>1 DEF Settled, IsWritten, Covered
  <2>3. Pending(s) => Pending(s)'
    BY <1>1, <1>2, <1>4 DEF Pending, IsLocal
  <2>4. QED
    BY <2>1, <2>2, <2>3
<1>6. UntouchedInv'
  BY <1>1, <1>2, <1>4 DEF IInv, UntouchedInv, Awaits
<1>7. QED
  BY <1>3, <1>5, <1>6 DEF IInv

LEMMA FinishPreserves ==
    ASSUME IInv, Finish
    PROVE  IInv'
<1>1. /\ stack = << >> /\ todo = {} /\ phase = "locals"
      /\ phase' \in {"inlined", "refused"} /\ (phase' = "inlined" => errs = {})
      /\ UNCHANGED <<project, doc, done, owner, origins, stack, todo, errs>>
  BY DEF Finish
<1>2. TypeOK' /\ NamesInv' /\ StackInv' /\ PhaseInv' /\ LocalsDone' /\ UntouchedInv'
  BY <1>1 DEF IInv, TypeOK, IsProject, IsDocument, NamesInv, LocalsKept, OriginsTrue,
              StackInv, PhaseInv, LocalsDone, UntouchedInv, Awaits
<1>3. SettledInv'
  BY <1>1 DEF IInv, SettledInv, Sources, Pending, OnStack, IsLocal, Settled, IsWritten, Covered
<1>4. QED
  BY <1>2, <1>3 DEF IInv

-----------------------------------------------------------------------------
(* The theorems.                                                           *)

LEMMA InitIInv == Init => IInv
<1> SUFFICES ASSUME Init
             PROVE  IInv
  OBVIOUS
<1>1. PICK r : r = project[Root]
  OBVIOUS
<1>2. /\ IsProject(project) /\ IsDocument(r) /\ doc = r
      /\ DOMAIN r \subseteq Keys /\ r \in [DOMAIN r -> Definitions]
  BY <1>1, ProjectsAssumption DEF Init, IsProject, IsDocument
<1>3. ASSUME NEW k \in DOMAIN r
      PROVE  /\ Fold(k) \in DOMAIN owner /\ Fold(k) \in {FoldOf[n] : n \in Names}
             /\ owner[Fold(k)] \in DOMAIN r
  <2>1. PICK S : S = {l \in DOMAIN r : Fold(l) = Fold(k)}
    OBVIOUS
  <2>2. S \in SUBSET Keys /\ S # {} /\ S \subseteq DOMAIN r
    BY <1>2, <2>1
  <2>3. First(S) \in S
    BY <2>2, FirstIn
  <2>4. Fold(k) \in DOMAIN owner /\ owner[Fold(k)] = First(S)
    BY <1>1, <2>1 DEF Init
  <2>5. k.name \in Names
    BY <1>2 DEF Keys, DefKeys, Messages
  <2>6. QED
    BY <2>2, <2>3, <2>4, <2>5 DEF Fold
<1>4. \A n \in DOMAIN owner : \E k \in DOMAIN r : n = Fold(k)
  BY <1>1 DEF Init
<1>5. TypeOK
  <2>1. DOMAIN owner \subseteq {FoldOf[n] : n \in Names}
    BY <1>3, <1>4
  <2>2. owner \in [DOMAIN owner -> Keys]
    <3>1. \A n \in DOMAIN owner : owner[n] \in Keys
      BY <1>2, <1>3, <1>4
    <3>2. owner = [n \in DOMAIN owner |-> owner[n]]
      BY DEF Init
    <3>3. QED
      BY <3>1, <3>2
  <2>3. done \subseteq Files \X DefKeys
    BY ConstantsAssumption DEF Init
  <2>4. stack \in Seq(FrameTypes)
    BY DEF Init
  <2>5. DOMAIN origins \subseteq DefKeys /\ origins \in [DOMAIN origins -> Files \X DefKeys]
    BY DEF Init
  <2>6. todo \subseteq DOMAIN project[Root] /\ phase = "messages" /\ errs = {}
    BY DEF Init
  <2>7. QED
    BY <1>2, <2>1, <2>2, <2>3, <2>4, <2>5, <2>6 DEF TypeOK
<1>6. NamesInv
  <2>1. DOMAIN origins = {}
    BY DEF Init
  <2>2. LocalsKept /\ OriginsTrue
    BY <1>1, <1>2, <2>1 DEF LocalsKept, OriginsTrue
  <2>3. \A n \in DOMAIN owner : owner[n] \in DOMAIN doc
    BY <1>2, <1>3, <1>4
  <2>4. QED
    BY <1>1, <1>2, <1>3, <2>1, <2>2, <2>3 DEF NamesInv
<1>7. Len(stack) = 0 /\ stack = << >>
  BY DEF Init
<1>8. StackInv
  BY <1>7 DEF StackInv
<1>9. SettledInv
  <2> SUFFICES ASSUME NEW s \in Sources
               PROVE  Pending(s)
    BY DEF SettledInv
  <2>1. PICK k \in DOMAIN r : s = <<Root, k>>
    BY <1>1 DEF Sources, Init
  <2>2. k \in DefKeys \/ k \in Messages
    BY <1>2 DEF Keys
  <2>3. QED
    BY <1>1, <2>1, <2>2 DEF Init, Pending, IsLocal
<1>10. PhaseInv /\ LocalsDone
  BY DEF Init, PhaseInv, LocalsDone
<1>11. UntouchedInv
  BY <1>7 DEF Init, UntouchedInv, OnStack
<1>12. QED
  BY <1>5, <1>6, <1>8, <1>9, <1>10, <1>11 DEF IInv

\* What is not rewritten is covered: the reference that is passed over.
LEMMA RefPreserves ==
    ASSUME IInv, SkipLocal \/ AlreadyDone \/ BadRef \/ LoadFails \/ MissingDef
    PROVE  IInv'
<1>1. Walking /\ UNCHANGED <<project, doc, done, owner, origins, todo, phase>>
  BY DEF SkipLocal, AlreadyDone, BadRef, LoadFails, MissingDef, FailRef, Importing
<1>2. PointsTo(Ref, Top.file) = <<Target, Ref.key>> /\ Top \in FrameTypes /\ errs \subseteq Reports
  BY <1>1, TopFrame DEF PointsTo, Target, Walking, IInv, TypeOK
<1>3. CASE SkipLocal
  BY <1>1, <1>2, <1>3, PassPreserves DEF SkipLocal
<1>4. CASE AlreadyDone
  BY <1>1, <1>2, <1>4, PassPreserves DEF AlreadyDone
<1>5. CASE BadRef \/ LoadFails \/ MissingDef
  <2>1. PICK why \in {"pointer", "unreadable", "missing", "clash"} : FailRef(why)
    BY <1>5 DEF BadRef, LoadFails, MissingDef
  <2>2. errs' \subseteq Reports /\ errs \subseteq errs' /\ errs' # {} /\ PassRef(FALSE)
    BY <1>2, <2>1, ReportTyped DEF FailRef
  <2>3. QED
    BY <1>1, <2>2, PassPreserves
<1>6. QED
  BY <1>3, <1>4, <1>5

LEMMA NextIInv == IInv /\ [Next]_vars => IInv'
<1> SUFFICES ASSUME IInv, [Next]_vars
             PROVE  IInv'
  OBVIOUS
<1>1. CASE SkipLocal \/ AlreadyDone \/ BadRef \/ LoadFails \/ MissingDef
  BY <1>1, RefPreserves
<1>2. CASE MergeEqual
  BY <1>2, EndPreserves DEF MergeEqual, IInv, TypeOK
<1>3. CASE Clash
  <2>1. PICK fr : fr = stack[Len(stack) - 1]
    OBVIOUS
  <2>2. fr \in FrameTypes /\ errs \subseteq Reports
    BY <1>3, <2>1 DEF IInv, TypeOK, Clash, FinishImport
  <2>3. errs' \subseteq Reports /\ errs \subseteq errs' /\ errs' # {}
    BY <1>3, <2>1, <2>2, ReportTyped DEF Clash
  <2>4. QED
    BY <1>3, <2>3, EndPreserves DEF Clash
<1>4. CASE UNCHANGED vars
  <2>1. UNCHANGED <<project, doc, done, owner, origins, stack, todo, phase, errs>>
    BY <1>4 DEF vars
  <2>2. TypeOK' /\ NamesInv' /\ PhaseInv' /\ LocalsDone'
    BY <2>1, SMTT(30) DEF IInv, TypeOK, IsProject, IsDocument, NamesInv, LocalsKept, OriginsTrue,
                PhaseInv, LocalsDone
  <2>3. StackInv'
    BY <2>1 DEF IInv, StackInv, Placed, Copied, Waiting, Covered, IsWritten, IsLocal, Id
  <2>4. SettledInv' /\ UntouchedInv'
    BY <2>1 DEF IInv, SettledInv, Sources, Pending, OnStack, Settled, Covered, IsWritten,
                IsLocal, Id, UntouchedInv, Awaits
  <2>5. QED
    BY <2>2, <2>3, <2>4 DEF IInv
<1>5. QED
  BY <1>1, <1>2, <1>3, <1>4, ClaimPreserves, DescendPreserves, StartElementPreserves,
     FinishElementPreserves, StartLocalsPreserves, FinishPreserves DEF Next

LEMMA Invariance == Spec => []IInv
BY InitIInv, NextIInv, PTL DEF Spec

\* The importer's state keeps its shape.
THEOREM TypeCorrect == Spec => []TypeOK
<1>1. IInv => TypeOK
  BY DEF IInv
<1>2. QED
  BY <1>1, Invariance, PTL

\* However the files refer to each other, an import never shares a folded name
\* with anything, and a local name is never displaced.
THEOREM NamespaceSafe == Spec => [](OneNamespace /\ LocalsKept)
<1>1. IInv => OneNamespace /\ LocalsKept
  BY DEF IInv, NamesInv, OneNamespace, LocalsKept
<1>2. QED
  BY <1>1, Invariance, PTL

\* An error in an imported definition is placed where that definition is
\* written: d.Origins names a file that defines it, and the definition there.
THEOREM OriginsRight == Spec => []OriginsTrue
<1>1. IInv => OriginsTrue
  BY DEF IInv, NamesInv
<1>2. QED
  BY <1>1, Invariance, PTL

\* An accepted document is closed under reference, and each of its definitions
\* means what it means in the file that writes it.
THEOREM MeaningPreserved == Spec => []MeaningKept
<1>1. IInv => MeaningKept
  BY DEF IInv, PhaseInv, SettledInv, MeaningKept, Pending, OnStack
<1>2. QED
  BY <1>1, Invariance, PTL

(***************************************************************************)
(* The importer, which follows one reference at a time, depth first, gives *)
(* the verdict and the document that the files determine as a whole        *)
(* (Flatten).                                                              *)
(***************************************************************************)

-----------------------------------------------------------------------------
(* What is reachable is the least set that holds the document's own        *)
(* elements and what any written member refers to.                         *)

LEMMA LowestOf ==
    ASSUME NEW S \in SUBSET Nat, S # {}
    PROVE  \E n \in S : \A m \in S : n <= m
<1>1. PICK n \in S : \A m \in S : ~ (<<m, n>> \in OpToRel(<, Nat))
  BY NatLessThanWellFounded, WFMin
<1>2. \A m \in S : ~ (m < n)
  BY <1>1 DEF OpToRel
<1> QED
  BY <1>2

\* Flatten counts with its own instance of FiniteSets.
LEMMA SameCardinality ==
    ASSUME NEW S
    PROVE  Abstract!Cardinality(S) = Cardinality(S)
  BY Zenon DEF Abstract!Cardinality, Cardinality

\* The first n steps of the search.
IsGrowth(p, g, n) ==
    /\ g[0] = Abstract!Locals(p)
    /\ \A i \in 1 .. n : g[i] = Abstract!More(p, g[i - 1])

LEMMA GrowthExists ==
    ASSUME NEW p
    PROVE  \A n \in Nat : \E g : IsGrowth(p, g, n)
<1> DEFINE T == {n \in Nat : ~ \E g : IsGrowth(p, g, n)}
<1> SUFFICES ASSUME T # {} PROVE FALSE
  OBVIOUS
<1>1. PICK n \in T : \A m \in T : n <= m
  BY LowestOf
<1>2. CASE n = 0
  <2>1. PICK l : l = Abstract!Locals(p)
    OBVIOUS
  <2>2. IsGrowth(p, [i \in {0} |-> l], n)
    BY <1>2, <2>1 DEF IsGrowth
  <2> QED
    BY <2>2
<1>3. CASE n # 0
  <2>1. n - 1 \in Nat /\ n \in Nat /\ n - 1 \notin T
    BY <1>1, <1>3
  <2>2. PICK g : IsGrowth(p, g, n - 1)
    BY <2>1
  <2>3. PICK top : top = Abstract!More(p, g[n - 1])
    OBVIOUS
  <2> DEFINE h == [i \in 0 .. n |-> IF i = n THEN top ELSE g[i]]
  <2>4. h[0] = Abstract!Locals(p)
    BY <1>3, <2>1, <2>2 DEF IsGrowth
  <2>5. ASSUME NEW i \in 1 .. n PROVE h[i] = Abstract!More(p, h[i - 1])
    <3>1. i - 1 \in 0 .. n /\ i - 1 # n /\ i \in 0 .. n
      BY <2>1
    <3>2. h[i - 1] = g[i - 1]
      BY <3>1
    <3>3. CASE i = n
      BY <2>3, <3>1, <3>2, <3>3
    <3>4. CASE i # n
      <4>1. i \in 1 .. n - 1
        BY <2>1, <3>4
      <4>2. h[i] = g[i]
        BY <3>1, <3>4
      <4> QED
        BY <2>2, <3>2, <4>1, <4>2 DEF IsGrowth
    <3> QED
      BY <3>3, <3>4
  <2> HIDE DEF h
  <2>6. IsGrowth(p, h, n)
    BY <2>4, <2>5 DEF IsGrowth
  <2> QED
    BY <2>6
<1> QED
  BY <1>2, <1>3

LEMMA GrowthSame ==
    ASSUME NEW p, NEW g, NEW h, NEW n \in Nat, IsGrowth(p, g, n), IsGrowth(p, h, n)
    PROVE  \A i \in 0 .. n : g[i] = h[i]
<1> DEFINE T == {i \in 0 .. n : g[i] # h[i]}
<1> SUFFICES ASSUME T # {} PROVE FALSE
  OBVIOUS
<1>1. T \subseteq Nat
  OBVIOUS
<1>2. PICK i \in T : \A m \in T : i <= m
  BY <1>1, LowestOf
<1>3. i # 0
  BY <1>2 DEF IsGrowth
<1>4. i \in 1 .. n /\ i - 1 \in 0 .. n /\ i - 1 \notin T
  BY <1>2, <1>3
<1>5. g[i - 1] = h[i - 1]
  BY <1>4
<1>6. g[i] = Abstract!More(p, g[i - 1]) /\ h[i] = Abstract!More(p, h[i - 1])
  BY <1>4 DEF IsGrowth
<1> QED
  BY <1>2, <1>5, <1>6

\* All the steps of the search.
IsSearch(p, f) ==
    /\ f[0] = Abstract!Locals(p)
    /\ \A n \in Nat : f[n + 1] = Abstract!More(p, f[n])
    /\ Abstract!Reached(p) = f[Cardinality(Abstract!AllWritten(p)) + 1]

LEMMA Growing ==
    ASSUME NEW p
    PROVE  \E f : IsSearch(p, f)
<1> DEFINE G(n) == CHOOSE g : IsGrowth(p, g, n)
           Is(f) == f = [n \in Nat |-> IF n = 0 THEN Abstract!Locals(p) ELSE Abstract!More(p, f[n - 1])]
<1>1. \A n \in Nat : IsGrowth(p, G(n), n)
  BY GrowthExists
<1>2. PICK f : f = [n \in Nat |-> G(n)[n]]
  OBVIOUS
<1> HIDE DEF G
<1>3. f[0] = Abstract!Locals(p)
  BY <1>1, <1>2 DEF IsGrowth
<1>4. ASSUME NEW n \in Nat, n # 0 PROVE f[n] = Abstract!More(p, f[n - 1])
  <2>1. n - 1 \in Nat /\ n \in 1 .. n
    BY <1>4
  <2>2. IsGrowth(p, G(n), n - 1)
    BY <1>1, <2>1 DEF IsGrowth
  <2>3. G(n)[n - 1] = G(n - 1)[n - 1]
    BY <1>1, <2>1, <2>2, GrowthSame
  <2>4. G(n)[n] = Abstract!More(p, G(n)[n - 1])
    BY <1>1, <2>1 DEF IsGrowth
  <2> QED
    BY <1>2, <2>1, <2>3, <2>4
<1>5. Is(f)
  BY <1>2, <1>3, <1>4
<1>6. PICK c : c = (CHOOSE x : Is(x)) /\ Is(c)
  BY <1>5
<1>7. Abstract!Reached(p) = c[Cardinality(Abstract!AllWritten(p)) + 1]
  <2>1. Abstract!Reached(p) = c[Abstract!Cardinality(Abstract!AllWritten(p)) + 1]
    BY <1>6, Zenon DEF Abstract!Reached
  <2> QED
    BY <2>1, SameCardinality
<1>8. c[0] = Abstract!Locals(p)
  BY <1>6
<1>9. ASSUME NEW n \in Nat PROVE c[n + 1] = Abstract!More(p, c[n])
  <2>1. n + 1 \in Nat /\ n + 1 # 0 /\ (n + 1) - 1 = n
    OBVIOUS
  <2> QED
    BY <1>6, <2>1
<1> QED
  BY <1>7, <1>8, <1>9 DEF IsSearch

LEMMA SuccessorIs ==
    ASSUME NEW p, NEW s, NEW x
    PROVE  x \in Abstract!Successors(p, s) <=>
               \E j \in DOMAIN p[s[1]][s[2]].refs :
                   LET r == p[s[1]][s[2]].refs[j]
                   IN  /\ ~ (s[1] = Root /\ r.file = Here)
                       /\ x = <<IF r.file = Here THEN s[1] ELSE r.file, r.key>>
  BY DEF Abstract!Successors

LEMMA MoreIs ==
    ASSUME NEW p, NEW S, NEW x
    PROVE  x \in Abstract!More(p, S) <=>
               x \in S \/ \E s \in S : Abstract!Written(p, s) /\ x \in Abstract!Successors(p, s)
  BY DEF Abstract!More

\* Whatever holds the start and is closed holds what is reached.
LEMMA ReachedLeast ==
    ASSUME NEW p, NEW C, IsFiniteSet(Abstract!AllWritten(p)), Abstract!Locals(p) \subseteq C,
           \A s \in C : Abstract!Written(p, s) => Abstract!Successors(p, s) \subseteq C
    PROVE  Abstract!Reached(p) \subseteq C
<1>1. PICK f : IsSearch(p, f)
  BY Growing
<1> DEFINE T == {n \in Nat : ~ f[n] \subseteq C}
<1>2. T = {}
  <2> SUFFICES ASSUME T # {} PROVE FALSE
    OBVIOUS
  <2>1. PICK n \in T : \A m \in T : n <= m
    BY LowestOf
  <2>2. n # 0
    BY <1>1, <2>1 DEF IsSearch
  <2>3. n - 1 \in Nat /\ n - 1 \notin T /\ (n - 1) + 1 = n
    BY <2>1, <2>2
  <2>4. f[n - 1] \subseteq C /\ f[n] = Abstract!More(p, f[n - 1])
    BY <1>1, <2>3 DEF IsSearch
  <2>5. f[n] \subseteq C
    BY <2>4, MoreIs
  <2> QED
    BY <2>1, <2>5
<1>3. Cardinality(Abstract!AllWritten(p)) + 1 \in Nat
  BY FS_CardinalityType
<1> QED
  BY <1>1, <1>2, <1>3 DEF IsSearch

\* Sources are pairs.
LEMMA SearchPairs ==
    ASSUME NEW p, NEW f, IsSearch(p, f)
    PROVE  \A n \in Nat : \A s \in f[n] : s = <<s[1], s[2]>>
<1> DEFINE T == {n \in Nat : ~ \A s \in f[n] : s = <<s[1], s[2]>>}
<1> SUFFICES ASSUME T # {} PROVE FALSE
  OBVIOUS
<1>1. PICK n \in T : \A m \in T : n <= m
  BY LowestOf
<1>2. n # 0
  BY <1>1 DEF IsSearch, Abstract!Locals
<1>3. n - 1 \in Nat /\ n - 1 \notin T /\ (n - 1) + 1 = n
  BY <1>1, <1>2
<1>4. f[n] = Abstract!More(p, f[n - 1])
  BY <1>3 DEF IsSearch
<1>5. ASSUME NEW s \in f[n] PROVE s = <<s[1], s[2]>>
  <2>1. CASE s \in f[n - 1]
    BY <1>3, <2>1
  <2>2. CASE \E u \in f[n - 1] : s \in Abstract!Successors(p, u)
    BY <2>2, SuccessorIs
  <2> QED
    BY <1>4, <2>1, <2>2, MoreIs
<1> QED
  BY <1>1, <1>5

LEMMA ReachedPairs ==
    ASSUME NEW p, IsFiniteSet(Abstract!AllWritten(p))
    PROVE  \A s \in Abstract!Reached(p) : s = <<s[1], s[2]>>
<1>1. PICK f : IsSearch(p, f)
  BY Growing
<1>2. Cardinality(Abstract!AllWritten(p)) + 1 \in Nat
  BY FS_CardinalityType
<1> QED
  BY <1>1, <1>2, SearchPairs DEF IsSearch

\* A step that adds nothing written is the last to add anything, so that there
\* are no more steps than there are written sources.
LEMMA ReachedClosed ==
    ASSUME NEW p, IsFiniteSet(Abstract!AllWritten(p))
    PROVE  /\ Abstract!Locals(p) \subseteq Abstract!Reached(p)
           /\ \A s \in Abstract!Reached(p) :
                 Abstract!Written(p, s) => Abstract!Successors(p, s) \subseteq Abstract!Reached(p)
<1>1. PICK f : IsSearch(p, f)
  BY Growing
<1> DEFINE W(n) == {s \in f[n] : Abstract!Written(p, s)}
           V == Abstract!AllWritten(p)
           Settling(n) == f[n + 1] = f[n] \/ (IsFiniteSet(W(n)) /\ Cardinality(W(n)) >= n)
<1>2. \A n \in Nat : f[n] \subseteq f[n + 1]
  BY <1>1, MoreIs DEF IsSearch
<1>3. \A n \in Nat : f[n + 1] = f[n] => f[n + 2] = f[n + 1]
  <2> SUFFICES ASSUME NEW n \in Nat, f[n + 1] = f[n] PROVE f[n + 2] = f[n + 1]
    OBVIOUS
  <2>1. n + 1 \in Nat /\ (n + 1) + 1 = n + 2
    OBVIOUS
  <2>2. f[n + 2] = Abstract!More(p, f[n + 1])
    BY <1>1, <2>1 DEF IsSearch
  <2> QED
    BY <1>1, <2>2 DEF IsSearch
<1>4. ASSUME NEW n \in Nat, W(n + 1) = W(n) PROVE f[n + 2] = f[n + 1]
  <2>1. n + 1 \in Nat /\ (n + 1) + 1 = n + 2
    OBVIOUS
  <2>2. f[n + 2] = Abstract!More(p, f[n + 1]) /\ f[n + 1] = Abstract!More(p, f[n])
    BY <1>1, <2>1 DEF IsSearch
  <2>3. ASSUME NEW x \in f[n + 2] PROVE x \in f[n + 1]
    <3>1. CASE x \in f[n + 1]
      BY <3>1
    <3>2. CASE \E s \in f[n + 1] : Abstract!Written(p, s) /\ x \in Abstract!Successors(p, s)
      <4>1. PICK s \in f[n + 1] : Abstract!Written(p, s) /\ x \in Abstract!Successors(p, s)
        BY <3>2
      <4>2. s \in f[n]
        BY <1>4, <4>1
      <4> QED
        BY <2>2, <4>1, <4>2, MoreIs
    <3> QED
      BY <2>2, <3>1, <3>2, MoreIs
  <2>4. f[n + 1] \subseteq f[n + 2]
    BY <1>2, <2>1
  <2> QED
    BY <2>3, <2>4
<1>5. \A n \in Nat : W(n) \subseteq V
  BY <1>1, SearchPairs DEF Abstract!AllWritten, Abstract!Written
<1>6. \A n \in Nat : IsFiniteSet(W(n)) /\ Cardinality(W(n)) \in Nat
  BY <1>5, FS_Subset, FS_CardinalityType
<1>7. \A n \in Nat : Settling(n)
  <2> DEFINE T == {n \in Nat : ~ Settling(n)}
  <2> SUFFICES ASSUME T # {} PROVE FALSE
    OBVIOUS
  <2>1. PICK n \in T : \A m \in T : n <= m
    BY LowestOf
  <2>2. IsFiniteSet(W(n)) /\ Cardinality(W(n)) \in Nat
    BY <1>6, <2>1
  <2>3. n # 0
    BY <2>1, <2>2
  <2>4. PICK m \in Nat : n = m + 1 /\ m \notin T
    <3>1. n - 1 \in Nat /\ n = (n - 1) + 1 /\ n - 1 \notin T
      BY <2>1, <2>3
    <3> QED
      BY <3>1
  <2>5. f[n + 1] # f[n] /\ n + 1 = m + 2
    BY <2>1, <2>2, <2>4
  <2>6. f[m + 1] # f[m] /\ W(m + 1) # W(m)
    BY <1>3, <1>4, <2>4, <2>5
  <2>7. Cardinality(W(m)) >= m
    BY <2>4, <2>6
  <2>8. W(m) \subseteq W(n) /\ W(m) # W(n)
    BY <1>2, <2>4, <2>6
  <2>9. Cardinality(W(m)) < Cardinality(W(n))
    BY <2>2, <2>8, FS_Subset, FS_CardinalityType
  <2>10. Cardinality(W(n)) >= n
    BY <1>6, <2>2, <2>4, <2>7, <2>9
  <2> QED
    BY <2>1, <2>2, <2>10
<1>8. PICK k \in Nat : k = Cardinality(V)
  BY FS_CardinalityType
<1>9. k + 1 \in Nat /\ ~ (k >= k + 1)
  BY <1>8
<1>10. Cardinality(W(k + 1)) <= k /\ Cardinality(W(k + 1)) \in Nat
  BY <1>5, <1>6, <1>8, <1>9, FS_Subset
<1>11. f[(k + 1) + 1] = f[k + 1]
  BY <1>7, <1>9, <1>10
<1>12. f[k + 1] = Abstract!More(p, f[k + 1]) /\ Abstract!Reached(p) = f[k + 1]
  BY <1>1, <1>8, <1>9, <1>11 DEF IsSearch
<1>13. Abstract!Locals(p) \subseteq f[k + 1]
  <2> DEFINE T == {n \in Nat : ~ f[0] \subseteq f[n]}
  <2>1. T = {}
    <3> SUFFICES ASSUME T # {} PROVE FALSE
      OBVIOUS
    <3>1. PICK n \in T : \A m \in T : n <= m
      BY LowestOf
    <3>2. n # 0
      BY <3>1
    <3>3. n - 1 \in Nat /\ n - 1 \notin T /\ (n - 1) + 1 = n
      BY <3>1, <3>2
    <3>4. f[0] \subseteq f[n]
      BY <1>2, <3>3
    <3> QED
      BY <3>1, <3>4
  <2> QED
    BY <1>1, <1>9, <2>1 DEF IsSearch
<1> QED
  BY <1>12, <1>13, MoreIs

-----------------------------------------------------------------------------
(* What the importer has done, said of what is reachable.                  *)

LocalsAt(n) == {k \in DOMAIN project[Root] : Fold(k) = n}
AllHere(d) == \A j \in DOMAIN d.refs : d.refs[j].file = Here

\* Until something fails: what is imported is reachable,
ReachInv == errs = {} => Sources \subseteq Abstract!Reached(project)

\* and what is left of a walk in another file, or of what was imported into the
\* document, refers to the document.
FrameLocal(fr) ==
    /\ fr.file # Root => \A j \in 1 .. Len(fr.def.refs) : j < fr.pos => fr.def.refs[j].file = Here
    /\ ~ IsWritten(Id(fr)) => fr.file = Root /\ AllHere(fr.def)
FramesInv == errs = {} => \A i \in 1 .. Len(stack) : FrameLocal(stack[i])
CopiesInv == errs = {} => \A k \in DOMAIN origins : AllHere(doc[k])

\* An import is done, and whatever is done is written or was imported under its
\* key from elsewhere.
OriginsDone == \A k \in DOMAIN origins : origins[k] \in done
DoneInv == \A s \in done : IsWritten(s) \/ (s[1] = Root /\ s[2] \in DOMAIN origins)

\* The first local name of a fold holds it, every import its own.
SlotInv == \A n \in DOMAIN owner : Fold(owner[n]) = n
FirstInv == \A k \in DOMAIN project[Root] : owner[Fold(k)] = First(LocalsAt(Fold(k)))
HoldsInv ==
    errs = {} => \A s \in done : s[1] # Root => \/ OnStack(s)
                                                \/ Fold(s[2]) \in DOMAIN owner /\ owner[Fold(s[2])] = s[2]

\* An error has its reason in the files.
WrongInv == errs # {} => ~ Abstract!Sound(project)

RInv ==
    /\ ReachInv /\ FramesInv /\ CopiesInv /\ OriginsDone /\ DoneInv
    /\ SlotInv /\ FirstInv /\ HoldsInv /\ WrongInv

-----------------------------------------------------------------------------
LEMMA ProjectFinite ==
    ASSUME TypeOK
    PROVE  IsFiniteSet(Abstract!AllWritten(project))
<1>1. IsFiniteSet(DOMAIN project) /\ \A f \in DOMAIN project : IsFiniteSet(DOMAIN project[f])
  BY DEF TypeOK, IsProject
<1> DEFINE In(f) == {<<f, k>> : k \in DOMAIN project[f]}
           Each == {In(f) : f \in DOMAIN project}
<1>2. ASSUME NEW f \in DOMAIN project PROVE IsFiniteSet(In(f))
  <2>1. [k \in DOMAIN project[f] |-> <<f, k>>] \in Surjection(DOMAIN project[f], In(f))
    BY DEF Surjection
  <2> QED
    BY <1>1, <2>1, FS_Surjection
<1>3. IsFiniteSet(Each)
  <2>1. [f \in DOMAIN project |-> In(f)] \in Surjection(DOMAIN project, Each)
    BY DEF Surjection
  <2> QED
    BY <1>1, <2>1, FS_Surjection
<1>4. IsFiniteSet(UNION Each)
  BY <1>2, <1>3, FS_UNION
<1> QED
  BY <1>4 DEF Abstract!AllWritten

LEMMA WrittenIs ==
    ASSUME NEW s
    PROVE  Abstract!Written(project, s) <=> IsWritten(s)
  BY DEF Abstract!Written, IsWritten

LEMMA MeaningIs ==
    ASSUME NEW s
    PROVE  Abstract!Meaning(project, s) = Strip(project[s[1]][s[2]])
  BY DEF Abstract!Meaning, Strip

\* A reference of a reached definition, if it is imported at all, points to
\* something reached.
LEMMA RefReached ==
    ASSUME TypeOK, NEW s \in Abstract!Reached(project), IsWritten(s),
           NEW j \in DOMAIN project[s[1]][s[2]].refs,
           ~ (s[1] = Root /\ project[s[1]][s[2]].refs[j].file = Here)
    PROVE  PointsTo(project[s[1]][s[2]].refs[j], s[1]) \in Abstract!Reached(project)
<1>1. PICK x : x = PointsTo(project[s[1]][s[2]].refs[j], s[1])
  BY SMTT(30)
<1>2. x \in Abstract!Successors(project, s)
  BY <1>1, SuccessorIs DEF PointsTo
<1> QED
  BY <1>1, <1>2, ProjectFinite, ReachedClosed, WrittenIs

\* Every walk in progress is of something imported.
LEMMA StackSources ==
    ASSUME IInv, NEW i \in 1 .. Len(stack)
    PROVE  Id(stack[i]) \in Sources
<1>1. Len(stack) \in Nat
  BY DEF IInv, TypeOK
<1>2. Placed(i)
  BY DEF IInv, StackInv
<1>3. CASE i = 1
  <2>1. IsLocal(Id(stack[i]))
    BY <1>2, <1>3 DEF Placed
  <2> QED
    BY <2>1 DEF IsLocal, Sources, Id
<1>4. CASE i > 1
  BY <1>2, <1>4 DEF Placed, Sources
<1> QED
  BY <1>1, <1>3, <1>4

\* While nothing has failed, a definition whose reference is imported is a
\* written one, and what it refers to is reachable.
LEMMA TargetReached ==
    ASSUME IInv, RInv, errs = {}, Importing
    PROVE  <<Target, Ref.key>> \in Abstract!Reached(project)
<1>1. PICK n, fr, f, k, p : /\ n = Len(stack) /\ fr = stack[n] /\ fr = Top
                            /\ f = fr.file /\ k = fr.key /\ p = fr.pos
  BY DEF Top
<1>2. /\ n \in 1 .. Len(stack) /\ fr \in FrameTypes /\ fr.def.refs \in Seq(Refs)
      /\ p \in 1 .. Len(fr.def.refs) /\ Ref = fr.def.refs[p] /\ ~ (f = Root /\ Ref.file = Here)
  BY <1>1, TopFrame DEF IInv, Importing, Walking, Ref
<1>3. Id(fr) \in Sources /\ Id(fr) = <<f, k>>
  BY <1>1, <1>2, StackSources DEF Id
<1>4. FrameLocal(fr)
  BY <1>1, <1>2 DEF RInv, FramesInv
<1>5. IsWritten(<<f, k>>)
  <2>1. ASSUME ~ IsWritten(<<f, k>>) PROVE FALSE
    <3>1. fr.file = Root /\ AllHere(fr.def)
      BY <1>3, <1>4, <2>1 DEF FrameLocal
    <3>2. p \in DOMAIN fr.def.refs
      BY <1>2
    <3>3. Ref.file = Here
      BY <1>2, <3>1, <3>2 DEF AllHere
    <3> QED
      BY <1>1, <1>2, <3>1, <3>3
  <2> QED
    BY <2>1
<1>6. PICK d : d = project[f][k]
  OBVIOUS
<1>7. Copied(n)
  BY <1>2 DEF IInv, StackInv
<1>8. Strip(fr.def) = Strip(d) /\ \A j \in DOMAIN d.refs : j >= p => fr.def.refs[j] = d.refs[j]
  BY <1>1, <1>3, <1>5, <1>6, <1>7 DEF Copied
<1>9. p \in DOMAIN d.refs
  <2>1. DOMAIN d.refs = DOMAIN fr.def.refs
    BY <1>8 DEF Strip
  <2> QED
    BY <1>2, <2>1
<1>10. d.refs[p] = Ref
  BY <1>2, <1>8, <1>9
<1>11. <<f, k>> \in Abstract!Reached(project)
  BY <1>3 DEF RInv, ReachInv
<1>12. PointsTo(Ref, f) \in Abstract!Reached(project)
  <2>1. PICK s : s = <<f, k>>
    OBVIOUS
  <2>2. /\ s[1] = f /\ s[2] = k
        /\ TypeOK /\ s \in Abstract!Reached(project) /\ IsWritten(s) /\ p \in DOMAIN project[s[1]][s[2]].refs
        /\ project[s[1]][s[2]].refs[p] = Ref
    BY <1>5, <1>6, <1>9, <1>10, <1>11, <2>1 DEF IInv
  <2> QED
    BY <1>2, <2>1, <2>2, RefReached
<1> QED
  BY <1>1, <1>12 DEF PointsTo, Target

\* Not found, or found to be ambiguous: the files are wrong.
LEMMA NotFound ==
    ASSUME NEW s \in Abstract!Reached(project), ~ IsWritten(s) \/ s[2] = BadPointer
    PROVE  ~ Abstract!Sound(project)
  BY WrittenIs DEF Abstract!Sound, Abstract!AllFound

LEMMA RefFails ==
    ASSUME IInv, RInv, errs = {}, BadRef \/ LoadFails \/ MissingDef
    PROVE  ~ Abstract!Sound(project)
<1>1. PICK s : s = <<Target, Ref.key>>
  OBVIOUS
<1>2. Importing
  BY DEF BadRef, LoadFails, MissingDef
<1>3. s \in Abstract!Reached(project) /\ s[1] = Target /\ s[2] = Ref.key
  BY <1>1, <1>2, TargetReached
<1>4. CASE BadRef
  BY <1>3, <1>4, NotFound DEF BadRef
<1>5. CASE LoadFails
  BY <1>3, <1>5, NotFound DEF LoadFails, IsWritten
<1>6. CASE MissingDef
  <2>1. Ref.key \notin DOMAIN project[Target]
    BY <1>6 DEF MissingDef, Loaded, IInv, NamesInv, LocalsKept
  <2> QED
    BY <1>3, <2>1, NotFound DEF IsWritten
<1> QED
  BY <1>4, <1>5, <1>6

LEMMA LocalsAtKeys ==
    ASSUME TypeOK, NEW k \in DOMAIN project[Root]
    PROVE  /\ LocalsAt(Fold(k)) \in SUBSET Keys /\ k \in LocalsAt(Fold(k))
           /\ First(LocalsAt(Fold(k))) \in LocalsAt(Fold(k))
           /\ \A o \in LocalsAt(Fold(k)) : Rank[First(LocalsAt(Fold(k)))] <= Rank[o]
<1>1. DOMAIN project[Root] \subseteq Keys
  BY DEF TypeOK, IsProject, IsDocument
<1>2. LocalsAt(Fold(k)) \in SUBSET Keys /\ k \in LocalsAt(Fold(k))
  BY <1>1 DEF LocalsAt
<1> QED
  BY <1>2, FirstIn

\* An import is held against what is reached under its fold, or against the
\* first local name of it, if there is one.
LEMMA RivalsAre ==
    ASSUME TypeOK, NEW s, NEW S, S = Abstract!Reached(project)
    PROVE  LET same == {t \in S : IsWritten(t) /\ Fold(t[2]) = Fold(s[2])}
           IN  /\ LocalsAt(Fold(s[2])) = {} => Abstract!Rivals(project, S, s) = same
               /\ \A k \in LocalsAt(Fold(s[2])) :
                     Abstract!Rivals(project, S, s) = {<<Root, First(LocalsAt(Fold(k)))>>}
<1> DEFINE same == {t \in S : IsWritten(t) /\ Fold(t[2]) = Fold(s[2])}
           local == {t \in same : t[1] = Root}
           Least(t) == \A u \in local : Rank[t[2]] <= Rank[u[2]]
<1>0. \A t \in S : t = <<t[1], t[2]>>
  BY ProjectFinite, ReachedPairs
<1>1. Abstract!Rivals(project, S, s) = IF local = {} THEN same ELSE {CHOOSE t \in local : Least(t)}
  BY WrittenIs DEF Abstract!Rivals, Fold
<1>2. Root \in DOMAIN project
  BY DEF TypeOK, IsProject
<1>3. \A t \in local : t = <<Root, t[2]>> /\ t[2] \in LocalsAt(Fold(s[2]))
  BY <1>0 DEF IsWritten, LocalsAt
<1>4. \A k \in LocalsAt(Fold(s[2])) : <<Root, k>> \in local
  <2> SUFFICES ASSUME NEW k \in LocalsAt(Fold(s[2])) PROVE <<Root, k>> \in local
    OBVIOUS
  <2>1. k \in DOMAIN project[Root] /\ Fold(k) = Fold(s[2])
    BY DEF LocalsAt
  <2>2. <<Root, k>> \in S
    BY <2>1, ProjectFinite, ReachedClosed DEF Abstract!Locals
  <2>3. PICK t : t = <<Root, k>>
    OBVIOUS
  <2>4. t[1] = Root /\ t[2] = k /\ t \in S
    BY <2>2, <2>3
  <2>5. t \in local
    BY <1>2, <2>1, <2>4 DEF IsWritten
  <2> QED
    BY <2>3, <2>5
<1>5. ASSUME LocalsAt(Fold(s[2])) = {} PROVE Abstract!Rivals(project, S, s) = same
  BY <1>1, <1>3, <1>5
<1>6. ASSUME NEW k \in LocalsAt(Fold(s[2]))
      PROVE  Abstract!Rivals(project, S, s) = {<<Root, First(LocalsAt(Fold(k)))>>}
  <2>1. k \in DOMAIN project[Root] /\ LocalsAt(Fold(k)) = LocalsAt(Fold(s[2]))
    BY <1>6 DEF LocalsAt
  <2>2. PICK o, L : o = First(LocalsAt(Fold(k))) /\ L = LocalsAt(Fold(s[2]))
    OBVIOUS
  <2>3. /\ L \in SUBSET Keys /\ o \in L /\ \A l \in L : Rank[o] <= Rank[l]
    BY <2>1, <2>2, LocalsAtKeys
  <2>4. PICK x : x = <<Root, o>>
    OBVIOUS
  <2>5. x \in local /\ x[2] = o
    BY <1>4, <2>2, <2>3, <2>4
  <2>6. Least(x)
    BY <1>3, <2>2, <2>3, <2>5
  <2>7. ASSUME NEW t \in local, Least(t) PROVE t = x
    <3>1. t = <<Root, t[2]>> /\ t[2] \in L
      BY <1>3, <2>2, <2>7
    <3>2. Rank[t[2]] <= Rank[o] /\ Rank[o] <= Rank[t[2]]
      BY <2>3, <2>5, <2>7, <3>1
    <3>3. Rank[t[2]] \in Nat /\ Rank[o] \in Nat
      BY <2>3, <3>1, ConstantsAssumption
    <3>4. t[2] = o
      BY <2>3, <3>1, <3>2, <3>3, ConstantsAssumption
    <3> QED
      BY <2>4, <3>1, <3>4
  <2> HIDE DEF local, Least
  <2>8. (CHOOSE t \in local : Least(t)) = x
    BY <2>5, <2>6, <2>7
  <2> QED
    BY <1>1, <2>2, <2>4, <2>5, <2>8
<1> QED
  BY <1>5, <1>6

\* A name that is taken by something else is ambiguous in the files.
LEMMA ClashFails ==
    ASSUME IInv, RInv, errs = {}, Clash
    PROVE  ~ Abstract!Sound(project)
<1>1. PICK n, fr, f, k, s : /\ n = Len(stack) /\ fr = stack[n] /\ fr = Top
                            /\ f = fr.file /\ k = fr.key /\ s = <<f, k>>
  BY DEF Top
<1>2. /\ n \in 1 .. Len(stack) /\ n > 1 /\ Returning /\ s[1] = f /\ s[2] = k /\ Id(fr) = s
  BY <1>1, TopFrame DEF IInv, Clash, FinishImport, Returning, Id
<1>3. s \in Abstract!Reached(project)
  BY <1>1, <1>2, StackSources DEF RInv, ReachInv
<1>4. CASE ~ IsWritten(s)
  BY <1>3, <1>4, NotFound
<1>5. CASE IsWritten(s)
  <2>1. f # Root
    <3>1. Placed(n)
      BY <1>2 DEF IInv, StackInv
    <3>2. ~ IsLocal(s)
      BY <1>1, <1>2, <3>1 DEF Placed
    <3> QED
      BY <1>2, <1>5, <3>2 DEF IsLocal, IsWritten
  <2>2. Strip(fr.def) = Abstract!Meaning(project, s)
    <3>1. IsWritten(Id(Top)) /\ Top.file = f /\ Top.key = k
      BY <1>1, <1>2, <1>5
    <3>2. Strip(Top.def) = Strip(project[Top.file][Top.key])
      BY <1>2, <3>1, TopWalked
    <3> QED
      BY <1>1, <1>2, <3>1, <3>2, MeaningIs
  <2>3. PICK o : o = owner[Fold(k)]
    OBVIOUS
  <2>4. /\ Fold(k) \in DOMAIN owner /\ o \in DOMAIN doc
        /\ ~ (o = k /\ Strip(doc[k]) = Strip(fr.def))
    BY <1>1, <2>3 DEF Clash, Taken, SameType, IInv, NamesInv
  <2>5. PICK S : S = Abstract!Reached(project)
    OBVIOUS
  <2>6. ASSUME NEW t \in Abstract!Rivals(project, S, s), t[2] = o, Abstract!Meaning(project, t) = Strip(doc[o])
        PROVE  ~ Abstract!Sound(project)
    <3>1. ~ Abstract!OneMeaning(project, s, t)
      BY <1>2, <2>2, <2>4, <2>6 DEF Abstract!OneMeaning
    <3>2. ~ Abstract!Unambiguous(project, S, s)
      BY <1>2, <2>1, <3>1 DEF Abstract!Unambiguous
    <3> QED
      BY <1>3, <2>5, <3>2 DEF Abstract!Sound
  <2>7. CASE LocalsAt(Fold(k)) # {}
    <3>1. PICK l \in LocalsAt(Fold(k)) : TRUE
      BY <2>7
    <3>2. l \in DOMAIN project[Root] /\ Fold(l) = Fold(k)
      BY DEF LocalsAt
    <3>3. o = First(LocalsAt(Fold(l)))
      BY <2>3, <3>2 DEF RInv, FirstInv
    <3>4. Abstract!Rivals(project, S, s) = {<<Root, o>>}
      BY <1>2, <2>5, <3>1, <3>3, RivalsAre DEF IInv
    <3>5. o \in DOMAIN project[Root]
      BY <3>2, <3>3, LocalsAtKeys DEF IInv, LocalsAt
    <3>6. PICK t : t = <<Root, o>>
      OBVIOUS
    <3>7. t[1] = Root /\ t[2] = o
      BY <3>6
    <3>8. Abstract!Meaning(project, t) = Strip(doc[o])
      BY <3>5, <3>7, MeaningIs DEF IInv, NamesInv, LocalsKept
    <3> QED
      BY <2>6, <3>4, <3>6, <3>7, <3>8
  <2>8. CASE LocalsAt(Fold(k)) = {}
    <3>1. Fold(o) \in DOMAIN owner /\ (o \in DOMAIN origins \/ o \in DOMAIN project[Root])
      BY <2>4 DEF IInv, NamesInv
    <3>2. Fold(o) = Fold(k)
      BY <2>3, <2>4 DEF RInv, SlotInv
    <3>3. o \in DOMAIN origins
      BY <2>8, <3>1, <3>2 DEF LocalsAt
    <3>4. PICK t : t = origins[o]
      OBVIOUS
    <3>5. t[2] = o /\ IsWritten(t) /\ Strip(doc[o]) = Strip(project[t[1]][t[2]])
      BY <3>3, <3>4 DEF IInv, NamesInv, OriginsTrue, IsWritten
    <3>6. t \in S
      BY <2>5, <3>3, <3>4 DEF RInv, OriginsDone, ReachInv, Sources
    <3>7. t \in Abstract!Rivals(project, S, s)
      <4>1. Abstract!Rivals(project, S, s) = {u \in S : IsWritten(u) /\ Fold(u[2]) = Fold(s[2])}
        BY <1>2, <2>5, <2>8, RivalsAre DEF IInv
      <4> QED
        BY <1>2, <3>2, <3>5, <3>6, <4>1
    <3> QED
      BY <2>6, <3>5, <3>7, MeaningIs
  <2> QED
    BY <2>7, <2>8
<1> QED
  BY <1>4, <1>5

-----------------------------------------------------------------------------
(* Every step keeps RInv.                                                  *)

LEMMA InitRInv == Init => RInv
<1> SUFFICES ASSUME Init
             PROVE  RInv
  OBVIOUS
<1>1. IInv
  BY InitIInv
<1>2. /\ doc = project[Root] /\ origins = << >> /\ stack = << >> /\ errs = {}
      /\ done = {<<Root, k>> : k \in DOMAIN project[Root] \cap DefKeys}
  BY DEF Init
<1>3. DOMAIN origins = {} /\ Len(stack) = 0
  BY <1>2
<1>4. ReachInv
  <2>1. Sources \subseteq Abstract!Locals(project)
    BY <1>2 DEF Sources, Abstract!Locals
  <2> QED
    BY <1>1, <2>1, ProjectFinite, ReachedClosed DEF ReachInv, IInv
<1>5. FramesInv /\ CopiesInv /\ OriginsDone
  BY <1>3 DEF FramesInv, CopiesInv, OriginsDone
<1>6. \A s \in done : s[1] = Root /\ IsWritten(s)
  <2> SUFFICES ASSUME NEW k \in DOMAIN project[Root] \cap DefKeys, NEW s, s = <<Root, k>>
               PROVE  s[1] = Root /\ IsWritten(s)
    BY <1>2
  <2> QED
    BY <1>1 DEF IInv, TypeOK, IsProject, IsWritten
<1>7. DoneInv /\ HoldsInv
  BY <1>6 DEF DoneInv, HoldsInv
<1>8. ASSUME NEW k \in DOMAIN project[Root]
      PROVE  Fold(k) \in DOMAIN owner /\ owner[Fold(k)] = First(LocalsAt(Fold(k)))
  BY DEF Init, LocalsAt
<1>9. SlotInv
  <2> SUFFICES ASSUME NEW n \in DOMAIN owner
               PROVE  Fold(owner[n]) = n
    BY DEF SlotInv
  <2>1. PICK k \in DOMAIN project[Root] : n = Fold(k)
    BY DEF Init
  <2>2. owner[n] \in LocalsAt(n)
    BY <1>1, <1>8, <2>1, LocalsAtKeys DEF IInv
  <2> QED
    BY <2>2 DEF LocalsAt
<1> QED
  BY <1>2, <1>4, <1>5, <1>7, <1>8, <1>9 DEF RInv, FirstInv, WrongInv

LEMMA PastLocal ==
    ASSUME NEW fr \in FrameTypes, fr.pos <= Len(fr.def.refs), NEW ok \in BOOLEAN,
           FrameLocal(fr), ok \/ fr.file = Root
    PROVE  FrameLocal(Past(fr, ok))
<1>1. PICK new, n, p : new = Past(fr, ok) /\ n = Len(fr.def.refs) /\ p = fr.pos
  OBVIOUS
<1>2. /\ new \in FrameTypes /\ new.file = fr.file /\ new.key = fr.key /\ new.pos = p + 1
      /\ Len(new.def.refs) = n
      /\ \A j \in 1 .. n : j # p => new.def.refs[j] = fr.def.refs[j]
  BY <1>1, PastFrame
<1>3. /\ fr.def.refs \in Seq(Refs) /\ new.def.refs \in Seq(Refs)
      /\ n \in Nat /\ p \in 1 .. n
      /\ DOMAIN fr.def.refs = 1 .. n /\ DOMAIN new.def.refs = 1 .. n
  BY <1>1, <1>2 DEF FrameTypes, Definitions
<1>4. new.def.refs = IF ok THEN [fr.def.refs EXCEPT ![p] = Localised(fr.def.refs[p])] ELSE fr.def.refs
  BY <1>1 DEF Past, MovedTo
<1>5. /\ ok => new.def.refs[p].file = Here
      /\ ~ ok => new.def.refs[p] = fr.def.refs[p]
  BY <1>3, <1>4 DEF Localised
<1>6. ASSUME new.file # Root, NEW j \in 1 .. n, j < new.pos
      PROVE  new.def.refs[j].file = Here
  <2>1. CASE j = p
    BY <1>2, <1>5, <1>6, <2>1
  <2>2. CASE j # p
    <3>1. j < p
      BY <1>2, <1>3, <1>6, <2>2
    <3>2. fr.def.refs[j].file = Here
      BY <1>1, <1>2, <1>6, <3>1 DEF FrameLocal
    <3> QED
      BY <1>2, <2>2, <3>2
  <2> QED
    BY <2>1, <2>2
<1>7. ASSUME ~ IsWritten(Id(new))
      PROVE  new.file = Root /\ AllHere(new.def)
  <2>1. ~ IsWritten(Id(fr))
    BY <1>2, <1>7 DEF Id
  <2>2. fr.file = Root /\ AllHere(fr.def)
    BY <2>1 DEF FrameLocal
  <2>3. ASSUME NEW j \in 1 .. n
        PROVE  new.def.refs[j].file = Here
    BY <1>2, <1>3, <1>5, <2>2 DEF AllHere
  <2> QED
    BY <1>2, <1>3, <2>2, <2>3 DEF AllHere
<1> QED
  BY <1>1, <1>2, <1>6, <1>7 DEF FrameLocal

\* A reference left behind, rewritten if its file is not the document.
LEMMA PassKeepsRInv ==
    ASSUME IInv, RInv, Walking, NEW ok \in BOOLEAN, PassRef(ok),
           UNCHANGED <<project, doc, done, owner, origins, todo, phase>>,
           errs \subseteq errs', errs' = {} => ok \/ Top.file = Root,
           errs' # {} => ~ Abstract!Sound(project)
    PROVE  RInv'
<1>1. PICK n, top, new : n = Len(stack) /\ top = Top /\ new = Past(top, ok)
  OBVIOUS
<1>2. /\ stack \in Seq(FrameTypes) /\ n \in Nat \ {0} /\ top = stack[n] /\ top \in FrameTypes
      /\ top.pos <= Len(top.def.refs)
  BY <1>1, TopFrame DEF IInv, TypeOK, Walking, Top
<1>3. new \in FrameTypes /\ Id(new) = Id(top)
  BY <1>1, <1>2, PastFrame DEF Id
<1>4. /\ Len(stack') = n /\ stack'[n] = new
      /\ \A i \in 1 .. n : i # n => stack'[i] = stack[i]
  <2>1. stack' = [stack EXCEPT ![n] = new]
    BY <1>1 DEF PassRef
  <2>2. PICK moved \in FrameTypes : moved = new
    BY <1>3
  <2>3. stack' = [stack EXCEPT ![n] = moved] /\ n \in 1 .. Len(stack) /\ n = Len(stack)
    BY <1>1, <1>2, <2>1, <2>2
  <2> QED
    BY <1>2, <2>2, <2>3
<1>5. FramesInv'
  <2> SUFFICES ASSUME errs' = {}, NEW i \in 1 .. n
               PROVE  FrameLocal(stack'[i])
    BY <1>4 DEF FramesInv, FrameLocal, IsWritten
  <2>1. FrameLocal(stack[i])
    BY <1>1 DEF RInv, FramesInv
  <2>2. CASE i = n
    BY <1>1, <1>2, <1>4, <2>1, <2>2, PastLocal
  <2> QED
    BY <1>4, <2>1, <2>2
<1>6. \A s : OnStack(s) => OnStack(s)'
  <2> SUFFICES ASSUME NEW s, OnStack(s)
               PROVE  OnStack(s)'
    OBVIOUS
  <2>1. PICK i \in 1 .. n : Id(stack[i]) = s
    BY <1>1 DEF OnStack
  <2>2. Id(stack'[i]) = s
    BY <1>2, <1>3, <1>4, <2>1
  <2> QED
    BY <1>4, <2>2 DEF OnStack, Id
<1>7. ReachInv' /\ CopiesInv' /\ OriginsDone' /\ DoneInv' /\ SlotInv' /\ FirstInv' /\ WrongInv'
  BY DEF RInv, ReachInv, Sources, CopiesInv, OriginsDone, DoneInv, IsWritten, SlotInv,
         FirstInv, LocalsAt, WrongInv
<1>8. HoldsInv'
  BY <1>6 DEF RInv, HoldsInv
<1> QED
  BY <1>5, <1>7, <1>8 DEF RInv

LEMMA RefKeepsRInv ==
    ASSUME IInv, RInv, SkipLocal \/ AlreadyDone \/ BadRef \/ LoadFails \/ MissingDef
    PROVE  RInv'
<1>1. Walking /\ UNCHANGED <<project, doc, done, owner, origins, todo, phase>>
  BY DEF SkipLocal, AlreadyDone, BadRef, LoadFails, MissingDef, FailRef, Importing
<1>2. errs # {} => ~ Abstract!Sound(project)
  BY DEF RInv, WrongInv
<1>3. CASE SkipLocal
  BY <1>1, <1>2, <1>3, PassKeepsRInv DEF SkipLocal
<1>4. CASE AlreadyDone
  BY <1>1, <1>2, <1>4, PassKeepsRInv DEF AlreadyDone
<1>5. CASE BadRef \/ LoadFails \/ MissingDef
  <2>1. PICK why : FailRef(why)
    BY <1>5 DEF BadRef, LoadFails, MissingDef
  <2>2. errs \subseteq errs' /\ errs' # {} /\ PassRef(FALSE)
    BY <2>1 DEF FailRef, Report
  <2>3. ~ Abstract!Sound(project)
    BY <1>2, <1>5, RefFails
  <2> QED
    BY <1>1, <2>2, <2>3, PassKeepsRInv
<1> QED
  BY <1>3, <1>4, <1>5

\* importRef returned: what was walked is not on the stack any more.
LEMMA ReturnKeepsFrames ==
    ASSUME IInv, RInv, FinishImport, NEW ok \in BOOLEAN, Return(ok),
           UNCHANGED <<project, done>>, DOMAIN doc \subseteq DOMAIN doc',
           errs \subseteq errs', errs' = {} => ok
    PROVE  FramesInv' /\ \A s : OnStack(s) => OnStack(s)' \/ s = Id(Top)
<1>1. PICK n, fr, new : n = Len(stack) /\ fr = stack[n - 1] /\ new = Past(fr, ok)
  OBVIOUS
<1>2. /\ n \in Nat /\ n > 1 /\ fr \in FrameTypes /\ n - 1 \in 1 .. n
      /\ n - 1 \in 1 .. n - 1
  BY <1>1, TopFrame DEF IInv, TypeOK, FinishImport, Returning
<1>3. fr.pos <= Len(fr.def.refs)
  BY <1>1, <1>2 DEF IInv, StackInv, Waiting
<1>4. /\ Len(stack') = n - 1
      /\ \A i \in 1 .. n - 1 : stack'[i] = IF i = n - 1 THEN new ELSE stack[i]
  <2>1. stack' = [i \in 1 .. n - 1 |-> IF i = n - 1 THEN new ELSE stack[i]]
    BY <1>1 DEF Return
  <2>2. stack' \in Seq(FrameTypes)
    BY ReturnStack
  <2> QED
    BY <1>2, <2>1, <2>2
<1>5. FramesInv'
  <2> SUFFICES ASSUME errs' = {}, NEW i \in 1 .. n - 1
               PROVE  FrameLocal(stack'[i])
    BY <1>4 DEF FramesInv, FrameLocal, IsWritten
  <2>1. FrameLocal(stack[i])
    BY <1>1, <1>2 DEF RInv, FramesInv
  <2>2. CASE i = n - 1
    BY <1>1, <1>2, <1>3, <1>4, <2>1, <2>2, PastLocal
  <2> QED
    BY <1>4, <2>1, <2>2
<1> QED
  BY <1>5, ReturnStack

LEMMA MergeKeepsRInv ==
    ASSUME IInv, RInv, MergeEqual
    PROVE  RInv'
<1>1. /\ FinishImport /\ Return(TRUE) /\ Taken(Top.key) /\ SameType(Top.key, Top.def)
      /\ UNCHANGED <<project, doc, done, owner, origins, todo, phase, errs>>
  BY DEF MergeEqual
<1>2. FramesInv' /\ \A s : OnStack(s) => OnStack(s)' \/ s = Id(Top)
  BY <1>1, ReturnKeepsFrames
<1>3. ReachInv' /\ CopiesInv' /\ OriginsDone' /\ DoneInv' /\ SlotInv' /\ FirstInv' /\ WrongInv'
  BY <1>1 DEF RInv, ReachInv, Sources, CopiesInv, OriginsDone, DoneInv, IsWritten, SlotInv,
              FirstInv, LocalsAt, WrongInv
<1>4. PICK s : s = Id(Top)
  OBVIOUS
<1>5. Fold(s[2]) \in DOMAIN owner /\ owner[Fold(s[2])] = s[2]
  BY <1>1, <1>4 DEF Id, Taken, SameType
<1>6. HoldsInv'
  BY <1>1, <1>2, <1>4, <1>5 DEF RInv, HoldsInv
<1> QED
  BY <1>2, <1>3, <1>6 DEF RInv

LEMMA ClashKeepsRInv ==
    ASSUME IInv, RInv, Clash
    PROVE  RInv'
<1>1. UNCHANGED <<project, doc, done, owner, origins, todo, phase>> /\ errs' # {}
  BY DEF Clash, Report
<1>2. ~ Abstract!Sound(project)
  BY ClashFails DEF RInv, WrongInv
<1>3. ReachInv' /\ FramesInv' /\ CopiesInv' /\ HoldsInv' /\ WrongInv'
  BY <1>1, <1>2 DEF ReachInv, FramesInv, CopiesInv, HoldsInv, WrongInv
<1>4. OriginsDone' /\ DoneInv' /\ SlotInv' /\ FirstInv'
  BY <1>1 DEF RInv, OriginsDone, DoneInv, IsWritten, SlotInv, FirstInv, LocalsAt
<1> QED
  BY <1>3, <1>4 DEF RInv

LEMMA ClaimKeepsRInv ==
    ASSUME IInv, RInv, ClaimName
    PROVE  RInv'
<1>1. PICK k, f, def, s : k = Top.key /\ f = Top.file /\ def = Top.def /\ s = <<f, k>>
  OBVIOUS
<1>2. /\ Return(TRUE) /\ FinishImport
      /\ UNCHANGED <<project, done, todo, phase, errs>>
  BY DEF ClaimName
<1>3. /\ Fold(k) \notin DOMAIN owner /\ k \notin DOMAIN project[Root]
      /\ DOMAIN doc' = DOMAIN doc \cup {k} /\ doc'[k] = def
      /\ \A l \in DOMAIN doc : doc'[l] = doc[l]
      /\ DOMAIN owner' = DOMAIN owner \cup {Fold(k)} /\ owner'[Fold(k)] = k
      /\ \A n \in DOMAIN owner : owner'[n] = owner[n]
      /\ DOMAIN origins' = DOMAIN origins \cup {k} /\ origins'[k] = <<f, k>>
      /\ \A l \in DOMAIN origins : origins'[l] = origins[l]
      /\ f # Root
  BY <1>1, ClaimEffect, ZenonT(40)
<1>4. FramesInv' /\ \A t : OnStack(t) => OnStack(t)' \/ t = s
  BY <1>1, <1>2, <1>3, ReturnKeepsFrames DEF Id
<1>5. ReachInv' /\ WrongInv'
  BY <1>2 DEF RInv, ReachInv, Sources, WrongInv
<1>6. PICK i : i = Len(stack) /\ i > 1 /\ i \in 1 .. Len(stack) /\ Top = stack[i]
  BY <1>2, TopFrame DEF IInv, FinishImport, Returning, Top
<1>7. ASSUME errs = {}
      PROVE  AllHere(def)
  <2>1. FrameLocal(Top)
    BY <1>6, <1>7 DEF RInv, FramesInv
  <2>2. /\ Top.file # Root /\ def.refs \in Seq(Refs) /\ Top.pos \in Nat
        /\ Top.pos > Len(def.refs)
    BY <1>1, <1>2, <1>3, TopFrame DEF IInv, FinishImport, Returning, FrameTypes
  <2>3. \A j \in DOMAIN def.refs : j \in 1 .. Len(def.refs) /\ j < Top.pos
    BY <2>2
  <2> QED
    BY <1>1, <2>1, <2>2, <2>3 DEF FrameLocal, AllHere
<1>8. CopiesInv'
  <2>1. \A l \in DOMAIN origins : l \in DOMAIN doc
    BY DEF IInv, NamesInv, OriginsTrue
  <2> QED
    BY <1>2, <1>3, <1>7, <2>1 DEF RInv, CopiesInv
<1>9. s \in done
  <2>1. Placed(i)
    BY <1>6 DEF IInv, StackInv
  <2> QED
    BY <1>1, <1>6, <2>1 DEF Placed, Id
<1>10. OriginsDone' /\ DoneInv'
  BY <1>1, <1>2, <1>3, <1>9 DEF RInv, OriginsDone, DoneInv, IsWritten
<1>11. SlotInv'
  BY <1>3 DEF RInv, SlotInv, Fold
<1>12. FirstInv'
  <2>1. \A l \in DOMAIN project[Root] : Fold(l) \in DOMAIN owner
    BY DEF IInv, NamesInv, LocalsKept
  <2> QED
    BY <1>2, <1>3, <2>1 DEF RInv, FirstInv, LocalsAt, Fold
<1>13. HoldsInv'
  <2>1. s[2] = k
    BY <1>1
  <2> QED
    BY <1>2, <1>3, <1>4, <2>1 DEF RInv, HoldsInv, Fold
<1> QED
  BY <1>4, <1>5, <1>8, <1>10, <1>11, <1>12, <1>13 DEF RInv

LEMMA DescendKeepsRInv ==
    ASSUME IInv, RInv, Descend
    PROVE  RInv'
<1>1. PICK n, f, k, d, s : /\ n = Len(stack) /\ f = Target /\ k = Ref.key /\ s = <<f, k>>
                           /\ d = Loaded(Target)[Ref.key]
  OBVIOUS
<1>2. PICK new : new = Frame(f, k, d)
  OBVIOUS
<1>3. /\ Importing /\ done' = done \cup {s}
      /\ f \in DOMAIN project /\ k \in DOMAIN Loaded(f) /\ d = Loaded(f)[k]
      /\ stack' = Append(stack, new)
      /\ UNCHANGED <<project, doc, owner, origins, todo, phase, errs>>
  BY <1>1, <1>2 DEF Descend
<1>4. s[1] = f /\ s[2] = k /\ new.file = f /\ new.key = k /\ new.def = d /\ new.pos = 1
  BY <1>1, <1>2 DEF Frame
<1>5. /\ n \in Nat /\ Len(stack') = n + 1 /\ stack'[n + 1] = new
      /\ \A i \in 1 .. n : stack'[i] = stack[i]
  <2>1. f \in Files /\ k \in Keys /\ d \in Definitions
    BY <1>3 DEF IInv, TypeOK, IsProject, IsDocument, Loaded
  <2>2. new \in FrameTypes
    BY <1>2, <2>1 DEF Frame, FrameTypes
  <2>3. stack \in Seq(FrameTypes)
    BY DEF IInv, TypeOK
  <2> QED
    BY <1>1, <1>3, <2>2, <2>3
<1>6. ReachInv'
  <2>1. errs = {} => s \in Abstract!Reached(project)
    BY <1>1, <1>3, TargetReached
  <2>2. Sources' = Sources \cup {s}
    BY <1>3 DEF Sources
  <2> QED
    BY <1>3, <2>1, <2>2 DEF RInv, ReachInv
<1>7. ~ IsWritten(s) => f = Root /\ k \in DOMAIN origins
  BY <1>3, <1>4 DEF IsWritten, Loaded, IInv, NamesInv
<1>8. FramesInv'
  <2> SUFFICES ASSUME errs = {}, NEW i \in 1 .. n + 1
               PROVE  FrameLocal(stack'[i])
    BY <1>3, <1>5 DEF FramesInv, FrameLocal, IsWritten
  <2>1. CASE i # n + 1
    BY <1>1, <1>5, <2>1 DEF RInv, FramesInv
  <2>2. CASE i = n + 1
    <3>1. ASSUME ~ IsWritten(s) PROVE f = Root /\ AllHere(d)
      BY <1>3, <1>7, <3>1 DEF RInv, CopiesInv, Loaded
    <3>2. \A j \in 1 .. Len(d.refs) : ~ (j < 1)
      OBVIOUS
    <3> QED
      BY <1>1, <1>4, <1>5, <2>2, <3>1, <3>2 DEF FrameLocal, Id
  <2> QED
    BY <2>1, <2>2
<1>9. OnStack(s)' /\ \A t : OnStack(t) => OnStack(t)'
  BY <1>1, <1>4, <1>5 DEF OnStack, Id
<1>10. DoneInv' /\ HoldsInv'
  BY <1>3, <1>4, <1>7, <1>9 DEF RInv, DoneInv, HoldsInv, IsWritten
<1>11. CopiesInv' /\ OriginsDone' /\ SlotInv' /\ FirstInv' /\ WrongInv'
  BY <1>3 DEF RInv, CopiesInv, OriginsDone, SlotInv, FirstInv, LocalsAt, WrongInv
<1> QED
  BY <1>6, <1>8, <1>10, <1>11 DEF RInv

LEMMA ElementKeepsRInv ==
    ASSUME IInv, RInv, StartElement \/ FinishElement
    PROVE  RInv'
<1>1. /\ UNCHANGED <<project, done, owner, origins, errs>>
      /\ StartElement => doc' = doc /\ stack = << >>
      /\ FinishElement => stack' = << >> /\ doc' = [doc EXCEPT ![Top.key] = Top.def] /\ Len(stack) = 1
  BY DEF StartElement, FinishElement
<1>2. ReachInv' /\ OriginsDone' /\ DoneInv' /\ SlotInv' /\ FirstInv' /\ WrongInv'
  BY <1>1 DEF RInv, ReachInv, Sources, OriginsDone, DoneInv, IsWritten, SlotInv, FirstInv,
              LocalsAt, WrongInv
<1>3. CASE StartElement
  <2>1. PICK k, new : k = First(todo) /\ new = Frame(Root, k, doc[k])
    OBVIOUS
  <2>2. k \in DOMAIN project[Root] /\ Root \in DOMAIN project
    <3>1. todo \in SUBSET Keys /\ todo # {} /\ todo \subseteq DOMAIN project[Root]
      BY <1>3 DEF StartElement, IInv, TypeOK, IsProject, IsDocument
    <3> QED
      BY <2>1, <3>1, FirstIn DEF IInv, TypeOK, IsProject
  <2>3. Len(stack') = 1 /\ stack'[1] = new /\ new.file = Root /\ new.key = k
    BY <1>3, <2>1 DEF StartElement, Frame
  <2>4. FrameLocal(new)
    BY <2>2, <2>3 DEF FrameLocal, IsWritten, Id
  <2>5. FramesInv'
    BY <1>1, <2>3, <2>4 DEF FramesInv, FrameLocal, IsWritten
  <2>6. \A s : ~ OnStack(s)
    BY <1>1, <1>3 DEF OnStack
  <2>7. CopiesInv' /\ HoldsInv'
    BY <1>1, <1>3, <2>6 DEF RInv, CopiesInv, HoldsInv
  <2> QED
    BY <1>2, <2>5, <2>7 DEF RInv
<1>4. CASE FinishElement
  <2>1. PICK fr, k : fr = Top /\ k = fr.key
    OBVIOUS
  <2>2. fr = stack[1] /\ Len(stack) = 1 /\ Placed(1)
    <3>1. Len(stack) = 1
      BY <1>1, <1>4
    <3>2. 1 \in 1 .. Len(stack)
      BY <3>1
    <3> QED
      BY <2>1, <3>1, <3>2 DEF IInv, StackInv, Top
  <2>3. fr.file = Root /\ k \in DOMAIN project[Root]
    BY <2>1, <2>2 DEF Placed, IsLocal, Id
  <2>4. FramesInv' /\ CopiesInv'
    <3>1. \A l \in DOMAIN origins : l # k /\ doc'[l] = doc[l]
      BY <1>1, <1>4, <2>1, <2>3 DEF IInv, NamesInv, OriginsTrue
    <3> QED
      BY <1>1, <1>4, <3>1 DEF RInv, FramesInv, CopiesInv
  <2>5. \A s : OnStack(s) => s[1] = Root
    BY <2>2, <2>3 DEF OnStack, Id
  <2>6. HoldsInv'
    BY <1>1, <2>5 DEF RInv, HoldsInv
  <2> QED
    BY <1>2, <2>4, <2>6 DEF RInv
<1> QED
  BY <1>3, <1>4

LEMMA NextRInv == IInv /\ RInv /\ [Next]_vars => RInv'
<1> SUFFICES ASSUME IInv, RInv, [Next]_vars
             PROVE  RInv'
  OBVIOUS
<1>1. CASE StartLocals \/ Finish \/ UNCHANGED vars
  <2>1. UNCHANGED <<project, doc, done, owner, origins, stack, errs>>
    BY <1>1 DEF StartLocals, Finish, vars
  <2>2. ReachInv' /\ CopiesInv' /\ OriginsDone' /\ DoneInv' /\ SlotInv' /\ FirstInv' /\ WrongInv'
    BY <2>1 DEF RInv, ReachInv, Sources, CopiesInv, OriginsDone, DoneInv, IsWritten, SlotInv,
                FirstInv, LocalsAt, WrongInv
  <2>3. FramesInv' /\ HoldsInv'
    BY <2>1 DEF RInv, FramesInv, FrameLocal, IsWritten, HoldsInv, OnStack, Id
  <2> QED
    BY <2>2, <2>3 DEF RInv
<1> QED
  BY <1>1, RefKeepsRInv, MergeKeepsRInv, ClashKeepsRInv, ClaimKeepsRInv, DescendKeepsRInv,
     ElementKeepsRInv DEF Next

-----------------------------------------------------------------------------
(* The verdict is the one the files determine.                             *)

\* An accepted document holds what is reachable, and nothing else.
LEMMA SourcesReached ==
    ASSUME IInv, RInv, errs = {}, \A s : ~ Pending(s)
    PROVE  Sources = Abstract!Reached(project) /\ \A s \in Sources : Settled(s)
<1>1. \A s \in Sources : Settled(s)
  BY DEF IInv, SettledInv
<1>2. Abstract!Locals(project) \subseteq Sources
  BY DEF Abstract!Locals, Sources
<1>3. ASSUME NEW s \in Sources, IsWritten(s), NEW x \in Abstract!Successors(project, s)
      PROVE  x \in Sources
  <2>1. PICK d : d = project[s[1]][s[2]]
    BY SMTT(30)
  <2>2. PICK j \in DOMAIN d.refs : /\ ~ (s[1] = Root /\ d.refs[j].file = Here)
                                   /\ x = PointsTo(d.refs[j], s[1])
    BY <2>1, SuccessorIs DEF PointsTo
  <2>3. Covered(s[1], d, j)
    BY <1>1, <1>3, <2>1, <2>2 DEF Settled
  <2> QED
    BY <2>2, <2>3 DEF Covered, Sources
<1>4. Abstract!Reached(project) \subseteq Sources
  <2>1. \A s \in Sources : Abstract!Written(project, s) => Abstract!Successors(project, s) \subseteq Sources
    BY <1>3, WrittenIs
  <2> QED
    BY <1>2, <2>1, ProjectFinite, ReachedLeast DEF IInv
<1>5. Sources \subseteq Abstract!Reached(project)
  BY DEF RInv, ReachInv
<1> QED
  BY <1>1, <1>4, <1>5

\* Each of its names is written by something reachable, and means what is
\* written.
LEMMA FlatIs ==
    ASSUME IInv, RInv, errs = {}, \A s : ~ Pending(s)
    PROVE  [k \in DOMAIN doc |-> Strip(doc[k])] = Abstract!Flat(project)
<1>1. PICK S : S = {s \in Abstract!Reached(project) : Abstract!Written(project, s)}
  OBVIOUS
<1>2. /\ \A s \in S : s \in Sources /\ IsWritten(s) /\ Settled(s)
      /\ \A s \in Sources : IsWritten(s) => s \in S
  BY <1>1, SourcesReached, WrittenIs
<1>3. ASSUME NEW k \in DOMAIN doc
      PROVE  \E s \in S : s[2] = k
  <2>1. CASE k \in DOMAIN project[Root]
    <3>1. PICK s : s = <<Root, k>>
      OBVIOUS
    <3>2. s[1] = Root /\ s[2] = k /\ s \in Sources
      BY <2>1, <3>1 DEF Sources
    <3>3. IsWritten(s)
      BY <2>1, <3>2 DEF IsWritten, IInv, TypeOK, IsProject
    <3> QED
      BY <1>2, <3>2, <3>3
  <2>2. CASE k \in DOMAIN origins
    <3>1. PICK s : s = origins[k]
      OBVIOUS
    <3>2. s[2] = k /\ IsWritten(s)
      BY <2>2, <3>1 DEF IInv, NamesInv, OriginsTrue, IsWritten
    <3>3. s \in Sources
      BY <2>2, <3>1 DEF RInv, OriginsDone, Sources
    <3> QED
      BY <1>2, <3>2, <3>3
  <2> QED
    BY <2>1, <2>2 DEF IInv, NamesInv
<1>4. \A s \in S : s[2] \in DOMAIN doc /\ Strip(doc[s[2]]) = Abstract!Meaning(project, s)
  BY <1>2, MeaningIs DEF Settled
<1>5. DOMAIN doc = {s[2] : s \in S}
  BY <1>3, <1>4
<1>6. ASSUME NEW k \in DOMAIN doc
      PROVE  Strip(doc[k]) = Abstract!Meaning(project, CHOOSE s \in S : s[2] = k)
  BY <1>3, <1>4
<1> QED
  BY <1>1, <1>5, <1>6 DEF Abstract!Flat

\* What was imported is found and unambiguous.
LEMMA AcceptedTolerable ==
    ASSUME IInv, RInv, errs = {}, \A s : ~ Pending(s)
    PROVE  Abstract!Tolerable(project)
<1>1. PICK S : S = Abstract!Reached(project)
  OBVIOUS
<1>2. S = Sources /\ \A s \in S : Settled(s)
  BY <1>1, SourcesReached
<1>3. ASSUME NEW s \in S
      PROVE  Abstract!AllFound(project, S, s) \/ Abstract!BackReference(project, S, s)
  <2>1. s[2] # BadPointer
    <3>1. s[2] \in Keys
      BY <1>2 DEF Settled, IInv, TypeOK, IsDocument
    <3> QED
      BY <3>1, ConstantsAssumption
  <2>2. CASE IsWritten(s)
    BY <2>1, <2>2, WrittenIs DEF Abstract!AllFound
  <2>3. CASE ~ IsWritten(s)
    <3>1. s[1] = Root /\ s[2] \in DOMAIN origins
      <4>1. s \in done
        <5>1. ASSUME NEW k \in DOMAIN project[Root] PROVE s # <<Root, k>>
          BY <2>3 DEF IsWritten, IInv, TypeOK, IsProject
        <5> QED
          BY <1>2, <5>1 DEF Sources
      <4> QED
        BY <2>3, <4>1 DEF RInv, DoneInv
    <3>2. PICK t : t = origins[s[2]]
      OBVIOUS
    <3>3. t[1] # Root /\ t[2] = s[2] /\ IsWritten(t)
      BY <3>1, <3>2 DEF IInv, NamesInv, OriginsTrue, IsWritten
    <3>4. t \in S
      BY <1>2, <3>1, <3>2 DEF RInv, OriginsDone, Sources
    <3> QED
      BY <3>1, <3>3, <3>4, WrittenIs DEF Abstract!BackReference
  <2> QED
    BY <2>2, <2>3
<1>4. ASSUME NEW s \in S, s[1] # Root
      PROVE  Fold(s[2]) \in DOMAIN owner /\ owner[Fold(s[2])] = s[2]
  <2>1. s \in done /\ ~ OnStack(s)
    BY <1>2, <1>4 DEF Sources, Pending
  <2> QED
    BY <1>4, <2>1 DEF RInv, HoldsInv
<1>5. ASSUME NEW s \in S, IsWritten(s), s[1] # Root, NEW t \in Abstract!Rivals(project, S, s)
      PROVE  Abstract!OneMeaning(project, s, t)
  <2>1. owner[Fold(s[2])] = s[2] /\ Strip(doc[s[2]]) = Abstract!Meaning(project, s)
    BY <1>2, <1>4, <1>5, MeaningIs DEF Settled
  <2>2. t[2] = s[2] /\ Strip(doc[t[2]]) = Abstract!Meaning(project, t)
    <3>1. CASE LocalsAt(Fold(s[2])) # {}
      <4>1. PICK l \in LocalsAt(Fold(s[2])) : TRUE
        BY <3>1
      <4>2. l \in DOMAIN project[Root] /\ Fold(l) = Fold(s[2])
        BY DEF LocalsAt
      <4>3. First(LocalsAt(Fold(l))) = s[2]
        BY <2>1, <4>2 DEF RInv, FirstInv
      <4>4. t = <<Root, s[2]>>
        BY <1>1, <1>5, <4>1, <4>3, RivalsAre DEF IInv
      <4>5. t[1] = Root /\ t[2] = s[2]
        BY <4>4
      <4>6. s[2] \in DOMAIN project[Root]
        BY <4>2, <4>3, LocalsAtKeys DEF IInv, LocalsAt
      <4> QED
        BY <4>5, <4>6, MeaningIs DEF IInv, NamesInv, LocalsKept
    <3>2. CASE LocalsAt(Fold(s[2])) = {}
      <4>1. t \in S /\ IsWritten(t) /\ Fold(t[2]) = Fold(s[2])
        <5>1. Abstract!Rivals(project, S, s) = {u \in S : IsWritten(u) /\ Fold(u[2]) = Fold(s[2])}
          BY <1>1, <3>2, RivalsAre DEF IInv
        <5> QED
          BY <1>5, <5>1
      <4>2. t[1] # Root
        BY <3>2, <4>1 DEF LocalsAt, IsWritten
      <4>3. t[2] = s[2]
        BY <1>4, <2>1, <4>1, <4>2
      <4> QED
        BY <1>2, <4>1, <4>3, MeaningIs DEF Settled
    <3> QED
      BY <3>1, <3>2
  <2> QED
    BY <2>1, <2>2 DEF Abstract!OneMeaning
<1> QED
  BY <1>1, <1>3, <1>5, WrittenIs DEF Abstract!Tolerable, Abstract!Unambiguous

LEMMA InitFlatten == Init => Abstract!Init
  BY DEF Init, Abstract!Init

LEMMA FinishFlattens ==
    ASSUME IInv, RInv, Finish
    PROVE  Abstract!Accept \/ Abstract!Refuse
<1>1. /\ stack = << >> /\ todo = {} /\ phase = "locals"
      /\ phase' = IF errs = {} THEN "inlined" ELSE "refused"
      /\ UNCHANGED <<project, doc, done, owner, origins, stack, todo, errs>>
  BY DEF Finish
<1>2. CASE errs = {}
  <2>1. \A s : ~ Pending(s)
    BY <1>1 DEF Pending, OnStack
  <2>2. Abstract!Tolerable(project) /\ [k \in DOMAIN doc |-> Strip(doc[k])] = Abstract!Flat(project)
    BY <1>2, <2>1, AcceptedTolerable, FlatIs
  <2>3. phase' = "inlined" /\ project' = project /\ doc' = doc
    BY <1>1, <1>2
  <2> QED
    BY <1>1, <2>2, <2>3 DEF Abstract!Accept
<1>3. CASE errs # {}
  <2>1. ~ Abstract!Sound(project)
    BY <1>3 DEF RInv, WrongInv
  <2> QED
    BY <1>1, <1>3, <2>1 DEF Abstract!Refuse
<1> QED
  BY <1>2, <1>3

LEMMA NextFlattens ==
    ASSUME IInv, RInv, [Next]_vars
    PROVE  [Abstract!Next]_(Abstract!absvars)
<1>1. CASE Finish
  BY <1>1, FinishFlattens DEF Abstract!Next
<1>2. CASE UNCHANGED vars
  BY <1>2 DEF vars, Abstract!absvars
<1>3. CASE Next /\ ~ Finish
  <2>1. project' = project
    BY <1>3 DEF Next, StartElement, FinishElement, StartLocals, SkipLocal, AlreadyDone, BadRef,
                LoadFails, MissingDef, FailRef, Descend, MergeEqual, Clash, ClaimName
  <2>2. phase \in {"messages", "locals"} /\ phase' \in {"messages", "locals"}
    <3>1. CASE StartElement \/ StartLocals
      BY <3>1 DEF StartElement, StartLocals
    <3>2. CASE ~ (StartElement \/ StartLocals)
      <4>1. phase' = phase /\ stack # << >>
        BY <1>3, <3>2 DEF Next, FinishElement, SkipLocal, AlreadyDone, BadRef, LoadFails, MissingDef,
                          FailRef, Importing, Walking, Descend, MergeEqual, Clash, ClaimName,
                          FinishImport, Returning
      <4> QED
        BY <4>1 DEF IInv, PhaseInv
    <3> QED
      BY <3>1, <3>2
  <2> QED
    BY <2>1, <2>2 DEF Abstract!absvars
<1> QED
  BY <1>1, <1>2, <1>3

\* Following references one at a time, depth first, the importer reaches the
\* verdict the files deserve as a whole, and an accepted document is the one
\* their definitions determine: the order of the walk changes nothing.
THEOREM FlattenImplemented == Spec => ImplementsFlatten
<1>1. Init => IInv /\ RInv
  BY InitIInv, InitRInv
<1>2. IInv /\ RInv /\ [Next]_vars => (IInv /\ RInv)'
  BY NextIInv, NextRInv
<1>3. IInv /\ RInv /\ [Next]_vars => [Abstract!Next]_(Abstract!absvars)
  BY NextFlattens
<1> QED
  BY <1>1, <1>2, <1>3, InitFlatten, PTL DEF Spec, ImplementsFlatten, Abstract!Spec

=============================================================================
