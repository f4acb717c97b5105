------------------------------- MODULE Orders -------------------------------
(***************************************************************************)
(* What the sorts of the code return, said of the result: sort.Slice of    *)
(* names that differ lists them ascending, sort.SliceStable puts elements  *)
(* by their keys and leaves those of one key as they were.                 *)
(***************************************************************************)
EXTENDS Naturals, Sequences, FiniteSets, Functions

\* The members of S, each once.
Lists(s, S) ==
    /\ s \in Seq(S)
    /\ \A e \in S : \E i \in 1 .. Len(s) : s[i] = e
    /\ \A i, j \in 1 .. Len(s) : s[i] = s[j] => i = j

\* The numbers of a finite set, lowest first.
Ascending(S) ==
    CHOOSE s \in [1 .. Cardinality(S) -> S] :
        Range(s) = S /\ \A i, j \in DOMAIN s : i < j => s[i] < s[j]

\* key[i] is what element i is sorted by.
Precedes(key, i, j) == key[i] < key[j] \/ (key[i] = key[j] /\ i < j)
Rank(key, i) == Cardinality({j \in DOMAIN key : Precedes(key, j, i)}) + 1

StablySorted(s, key) == [k \in DOMAIN s |-> s[CHOOSE i \in DOMAIN s : Rank(key, i) = k]]

=============================================================================
