----------------------------- MODULE MCWireSize -----------------------------
(***************************************************************************)
(* Payloads of one or two fields over every kind of type.  Counts and      *)
(* lengths stand at the steps of the varint: 15 and 16 for an id or a      *)
(* length, 127 and 128 for a count.  OneText is a string of bounded length *)
(* with a length word of two bytes.  Big holds what only the two widest    *)
(* counts of the validator reach, scaled with Width: 2^64 is four times    *)
(* the square of 2^31 as 2^18 is of 2^8, so 255 stands for 2^31-1.         *)
(***************************************************************************)
EXTENDS WireSize

Leaf(l) == [counts |-> << >>, leaf |-> l]
V(w) == Leaf([kind |-> "varint", width |-> w])
F(w) == Leaf([kind |-> "fixed", width |-> w])
Str(n) == Leaf([kind |-> "string", max |-> n])
Blob(n) == Leaf([kind |-> "blob", max |-> n])
Arr(n, e) == [e EXCEPT !.counts = Append(@, n)]
Ref(t) == Leaf([kind |-> "ref", to |-> t])
At(id, t) == [id |-> id, type |-> t]

Singles == {V(1), V(5), V(10), F(4), F(8), Str(3), Str(16), Blob(3), Str(None), Blob(None)}
Refs == {Ref("S"), Ref("U"), Ref("R")}
Arrays == {Arr(n, e) : n \in {1, 2, 15, 16, 17, 128, None}, e \in Singles \cup Refs}
Matrices == {Arr(n, Arr(k, e)) : n \in {2, 17, None}, k \in {3, None}, e \in {V(5), F(4), Str(3), Ref("U")}}
Members == {V(2), F(8), Str(15), Str(None), Arr(2, Str(3)), Arr(None, V(1)), Ref("N"), Ref("S")}

\* S and U have the same two members; N is a struct of its own; R is a pair of N.
Types(a, b) ==
    [S |-> [cat |-> "struct", fields |-> <<At(0, a), At(16, b)>>],
     U |-> [cat |-> "union", fields |-> <<At(0, a), At(16, b)>>],
     N |-> [cat |-> "struct", fields |-> <<At(1, V(5))>>],
     R |-> [cat |-> "struct", fields |-> <<At(1, Ref("N")), At(2, Ref("N"))>>]]

Plain == Types(V(2), Str(15))
One == {[payload |-> <<At(id, t)>>, types |-> Plain] :
           id \in {0, 16}, t \in Singles \cup Refs \cup Arrays \cup Matrices}
Pairs == {[payload |-> <<At(0, t), At(1, u)>>, types |-> Types(a, b)] :
             t \in {V(5), Ref("S"), Arr(2, Ref("U"))}, u \in {Ref("U"), Ref("R"), Str(None)},
             a \in Members, b \in Members}
Small == One \cup Pairs
OneText == {[payload |-> <<At(0, Str(16))>>, types |-> Plain]}
Long == {[payload |-> <<At(0, Arr(n, Str(3)))>>, types |-> Plain] : n \in 1 .. 200}
Big == Long \cup {[payload |-> <<At(0, Arr(n, Arr(n, Arr(n, V(1)))))>>, types |-> Plain] : n \in 1 .. 255}

MCNoCaps == [array |-> None, string |-> None, blob |-> None]
MCCaps == [array |-> 16, string |-> 4, blob |-> None]
MCPolicies == [limit : {None, 20, 4096}, caps : {MCNoCaps, MCCaps}]
DefaultOnly == [limit : {None}, caps : {MCNoCaps}]

=============================================================================
