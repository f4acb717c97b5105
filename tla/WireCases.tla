----------------------------- MODULE WireCases ------------------------------
(***************************************************************************)
(* The schemas the codecs of all backends are checked on: each has the     *)
(* declarations one rule of the wire is about, and the fields a peer sends *)
(* for it, those no schema of its declares included.                       *)
(***************************************************************************)
EXTENDS Wire

U(max) == [kind |-> "u", max |-> max]
I == [kind |-> "i", max |-> None]
F8 == [kind |-> "f8", max |-> None]
Str(max) == [kind |-> "str", max |-> max]
Blob(max) == [kind |-> "blob", max |-> max]
Native(elem, count) == [kind |-> "native", elem |-> elem, count |-> count]
List(elem, count) == [kind |-> "list", elem |-> elem, count |-> count]
Ref(to) == [kind |-> "ref", to |-> to]
Fld(id, type, dflt) == [id |-> id, type |-> type, dflt |-> dflt]
Struct(fields) == [cat |-> "struct", held |-> None, fields |-> fields]
Union(held, fields) == [cat |-> "union", held |-> held, fields |-> fields]

\* Headers: nothing of the content has come yet.
PayHead(id, k, n) == Token("pay", id, k, n, << >>)
ArrHead(id, k, n) == Token("arr", id, k, n, << >>)
\* A message that is decoded into again held used before, or what a decode left.
Case(length, types, heads, numbers, pieces, used, values) ==
    [length |-> length, types |-> types, root |-> "M", heads |-> heads, numbers |-> numbers,
     pieces |-> pieces, values |-> values, used |-> used, wide |-> {}, first |-> heads]
\* Only messages that begin so.
From(first, case) == [case EXCEPT !.first = first]
\* Numbers only a language whose types are wider can set.
WithWide(case, values) == [case EXCEPT !.wide = values]

Two(a, b) == [i \in 0 .. 1 |-> IF i = 0 THEN a ELSE b]
Three(a, b, c) == [i \in 0 .. 2 |-> CASE i = 0 -> a [] i = 1 -> b [] i = 2 -> c]

\* Numbers, texts and arrays of numbers with and without bounds and defaults.
Leaves == WithWide(
    Case(2, [M |-> Struct(<<Fld(0, U(2), 1), Fld(1, Str(2), <<1>>), Fld(2, Native(U(2), 2), <<2>>)>>)],
         {Val(0, "u", 0), Val(0, "u", 1), Val(0, "u", 3), Val(0, "i", 2), Val(1, "u", 1), Val(2, "u", 1), Val(5, "u", 9),
          PayHead(1, "str", 0), PayHead(1, "str", 2), PayHead(1, "str", 3), PayHead(1, "blob", 3),
          ArrHead(2, "u", 0), ArrHead(2, "u", 2), ArrHead(2, "u", 3), ArrHead(2, "i", 3), Open(1), Open(2)},
         {1, 3}, {<<1>>, <<1, 1>>, <<BadByte>>}, {Three(0, <<1>>, <<2>>)},
         {Three(0, <<1>>, <<2>>), Three(1, << >>, << >>), Three(1, <<1>>, <<0, 0>>), Three(0, << >>, <<2>>),
          Three(1, <<1, 1, 1>>, <<2>>), Three(1, <<1>>, <<2, 2, 2>>)}),
    {Three(3, <<1>>, <<2>>)})

\* Fields only the receiver's caps bound.
Capped ==
    Case(3, [M |-> Struct(<<Fld(0, Blob(None), << >>), Fld(1, Native(F8, None), << >>), Fld(2, List(Str(1), None), << >>)>>)],
         {PayHead(0, "blob", 1), PayHead(0, "blob", 3), PayHead(0, "str", 3), ArrHead(1, "f8", 2), ArrHead(1, "f8", 3),
          ArrHead(1, "f4", 3), Open(2), PayHead(2, "str", 1), PayHead(1, "str", 2), PayHead(1, "str", 0), PayHead(2, "blob", 3),
          PayHead(3, "str", 1), ArrHead(2, "u", 3)},
         {1}, {<<1>>}, {Three(<<1, 1, 1>>, << >>, << <<1>>, << >>, <<1>> >>)},
         {Three(b, << >>, l) :
             b \in {<< >>, <<1, 1, 1>>}, l \in {<< << >>, << >> >>, << <<1>>, << >>, <<1>> >>, << <<1, 1>> >>}})

\* Structs in structs and in arrays; their defaults are not zero.
NestedTypes ==
    [M |-> Struct(<<Fld(0, Ref("S"), None), Fld(1, List(Ref("S"), 2), << >>)>>),
     S |-> Struct(<<Fld(0, U(None), 1), Fld(1, Ref("T"), None)>>),
     T |-> Struct(<<Fld(0, I, 0)>>)]
S(a, b) == [i \in 0 .. 1 |-> IF i = 0 THEN a ELSE (0 :> b)]
Nested ==
    Case(3, NestedTypes,
         {Open(0), Open(1), Open(2), Val(0, "u", 0), Val(0, "u", 2), Val(0, "i", 2), Val(1, "u", 5)},
         {}, {}, {[i \in 0 .. 1 |-> IF i = 0 THEN S(0, 1) ELSE <<S(1, 1), S(1, 0)>>]},
         {[i \in 0 .. 1 |-> IF i = 0 THEN s ELSE l] :
                 s \in {S(1, 0), S(0, 1)}, l \in {<<S(1, 0)>>, <<S(1, 0), S(0, 0)>>, <<S(1, 1), S(1, 0)>>}})

\* A union whose options are of every kind, at its default or not.
Unions == WithWide(From({Open(1), Val(1, "u", 2)},
    Case(3, [M |-> Struct(<<Fld(1, Ref("V"), None)>>),
          V |-> Union(1, <<Fld(0, U(2), 0), Fld(1, U(2), 1), Fld(2, Ref("S"), None), Fld(3, List(Blob(1), 2), << >>),
                           Fld(4, Str(1), << >>), Fld(5, Native(I, 1), << >>)>>),
          S |-> Struct(<<Fld(0, U(None), 1), Fld(2, U(None), 0)>>)],
         {Open(1), Open(2), Open(3), Val(0, "u", 0), Val(1, "u", 2), Val(0, "i", 1), Val(1, "u", 3), Val(2, "u", 7),
          PayHead(4, "str", 0), PayHead(4, "str", 1), PayHead(4, "blob", 2), PayHead(1, "blob", 1), ArrHead(5, "i", 0), ArrHead(5, "u", 2)},
         {4}, {<<1>>, <<BadByte>>}, {(1 :> <<2, (0 :> 0) @@ (2 :> 1)>>)},
         {(1 :> u) : u \in {<<0, 0>>, <<0, 1>>, <<1, 1>>, <<1, 0>>, <<2, (0 :> 1) @@ (2 :> 0)>>, <<2, (0 :> 0) @@ (2 :> 1)>>, <<3, << >> >>,
                            <<3, << << >> >> >>, <<3, << <<1>>, << >>, << >> >> >>, <<4, << >> >>, <<4, <<1>> >>, <<5, << >> >>, <<5, <<1>> >>}})),
    {(1 :> <<0, 3>>)})

\* Arrays of arrays.
Rows == From({Open(0), Open(1), ArrHead(0, "u", 2)},
    Case(3, [M |-> Struct(<<Fld(0, List(Native(U(3), 2), 3), << >>), Fld(1, List(List(Str(1), 2), 2), << >>)>>)],
         {Open(0), Open(1), Open(2), ArrHead(0, "u", 2), ArrHead(1, "u", 0), ArrHead(2, "u", 1), ArrHead(0, "i", 3), ArrHead(3, "u", 1), Val(0, "u", 1),
          PayHead(0, "str", 1), PayHead(1, "str", 0), PayHead(2, "str", 1)},
         {1, 4}, {<<1>>, <<BadByte>>}, {Two(<< << >>, <<0>> >>, << << <<1>> >>, << >> >>)},
         {Two(<< <<1>>, << >> >>, << << >>, << << >> >> >>), Two(<< << >>, <<0>> >>, << << <<1>> >>, << >> >>), Two(<< >>, << << >> >>)}))

\* An array of unions, one of whose options is a union.
Elements ==
    Case(4, [M |-> Struct(<<Fld(0, List(Ref("W"), None), << >>)>>),
             W |-> Union(0, <<Fld(0, U(None), 2), Fld(1, Ref("W2"), None)>>),
             W2 |-> Union(1, <<Fld(0, U(None), 0), Fld(1, U(None), 0)>>)],
         {Open(0), Open(1), Open(2), Val(0, "u", 0), Val(1, "u", 1)}, {}, {}, {(0 :> << <<0, 2>>, <<1, <<1, 0>> >> >>)},
         {(0 :> l) : l \in {<< <<0, 2>> >>, << <<0, 2>>, <<1, <<1, 0>> >> >>, << <<1, <<0, 0>> >>, <<0, 2>>, <<0, 0>> >>}})

\* What a union holds when an option is opened again.
Reopened ==
    Case(6, [M |-> Struct(<<Fld(2, Ref("V"), None)>>),
             V |-> Union(0, <<Fld(0, U(None), 0), Fld(2, Ref("S"), None), Fld(3, List(Str(1), 2), << >>)>>),
             S |-> Struct(<<Fld(0, U(None), 1), Fld(2, U(None), 0)>>)],
         {Open(2), Val(0, "u", 0), Val(2, "u", 7)}, {}, {}, {}, {(2 :> <<0, 1>>)})

\* Arrays of arrays of floats; numbers with no array around them are skipped there.
FloatRows == From({Open(0)},
    Case(4, [M |-> Struct(<<Fld(0, List(Native(F8, 2), 2), << >>), Fld(1, U(None), 0)>>)],
         {Open(0), ArrHead(0, "f8", 1), ArrHead(1, "u", 1), Val(0, "f8", 2), Val(1, "f8", 3)},
         {1}, {}, {}, {(0 :> << <<1>>, <<2, 2>> >>) @@ (1 :> 0)}))

\* Unions whose options are a number, a struct and a union; and one whose option
\* has a text that is not empty by default.
Options == From({Open(1), Open(2)},
    Case(6, [M |-> Struct(<<Fld(0, U(None), 1), Fld(1, Ref("V"), None), Fld(2, Ref("X"), None)>>),
             V |-> Union(0, <<Fld(0, U(None), 2), Fld(1, Ref("W"), None), Fld(2, Ref("S"), None)>>),
             W |-> Union(1, <<Fld(0, U(None), 0), Fld(1, U(None), 3)>>),
             S |-> Struct(<<Fld(0, U(None), 1)>>),
             X |-> Union(0, <<Fld(0, U(None), 0), Fld(2, Ref("P"), None)>>),
             P |-> Struct(<<Fld(1, Str(1), <<1>>)>>)],
         {Open(1), Open(2), Val(0, "u", 4)}, {}, {}, {},
         {Three(1, <<1, <<1, 0>> >>, <<0, 0>>), Three(0, <<2, (0 :> 1)>>, <<2, (1 :> <<1>>)>>)}))

MCCaps == [array |-> 2, str |-> 2, blob |-> 2]
MCSchemas == {Leaves, Capped, Nested, Unions, Rows, Elements, Reopened, FloatRows, Options}

=============================================================================
