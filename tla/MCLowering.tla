----------------------------- MODULE MCLowering ------------------------------
(***************************************************************************)
(* Two messages, a and a_b, and definitions of every category with aliases *)
(* of two of them.  The first field of a runs through every way to write a *)
(* field; names are chosen so that joining them with "_" or with nothing   *)
(* would make two of them one.                                             *)
(***************************************************************************)
EXTENDS Lowering, TLC

Alphabet == <<"a", "b", "c", "d", "e", "f">>
MCLetters ==
    [a |-> <<"a">>, b |-> <<"b">>, c |-> <<"c">>, a_b |-> <<"a", "_", "b">>, b_c |-> <<"b", "_", "c">>, c_ |-> <<"c", "_">>,
     D |-> <<"D">>, Da |-> <<"D", "a">>, E |-> <<"E">>, Ea |-> <<"E", "a">>, U |-> <<"F">>, B |-> <<"F", "a">>]
MCCapital == [c \in Range(Alphabet) |-> CASE c = "a" -> "A" [] c = "b" -> "B" [] c = "c" -> "C"
                                          [] c = "d" -> "D" [] c = "e" -> "E" [] c = "f" -> "F"]

Ref(p) == Keys("$ref" :> [ptr |-> p])
Typed(typ, body) == ("type" :> Leaf(typ)) @@ (BodyOf[typ] :> body)
Plain(typ) == "type" :> Leaf(typ)
WithId(id, spec) == IF "$ref" \in DOMAIN spec THEN Keys(spec) ELSE Keys(("id" :> Leaf(id)) @@ spec)
ArrayOf(spec) == Typed("array", Keys(spec))

Number(id) == WithId(id, Plain("u8"))
Names == Keys("b" :> Leaf("0") @@ "c" :> Keys("value" :> Leaf("2")))
Flags == Keys("b" :> Keys("pos" :> Leaf("1")))
OneNumber == Keys("c" :> Number("1"))
Inner == Keys("c" :> WithId("0", Typed("struct", OneNumber)))

DefPtr(cat, name) == <<"$defs", cat, name>>
\* Documented forms, right and wrong category, and forms that are not
\* documented but lowered or refused.
Specs ==
    {Plain("string"), Typed("struct", Inner), Typed("enum", Names), Typed("bitfield", Flags), Typed("union", OneNumber),
     ArrayOf(Typed("struct", Inner)), ArrayOf(ArrayOf(Typed("enum", Ref(DefPtr("enum", "Ea"))))),
     ArrayOf(Typed("union", Ref(DefPtr("struct", "D"))))}
    \cup {Typed(cat, Ref(DefPtr(to[1], to[2]))) :
            cat \in Cats, to \in {<<"struct", "D">>, <<"struct", "Da">>, <<"enum", "Ea">>, <<"union", "U">>, <<"bitfield", "B">>}}
    \cup {Typed("struct", Ref(<<"messages", "a_b", "payload">>)), Typed("struct", Ref(<<"$defs", "struct", "D", "c", "fields">>)),
          Typed("struct", Ref(<<"messages", "a", "payload">>)), Typed("struct", Ref(DefPtr("struct", "gone")))}
    \cup {"$ref" :> [ptr |-> p] : p \in {<<"$defs", "struct", "D", "b">>, <<"$defs", "struct", "D", "c">>,
                                         <<"$defs", "struct", "Da", "b">>, <<"$defs", "union", "U", "b">>,
                                         <<"messages", "a_b", "payload", "c">>, <<"$defs", "enum", "E", "b">>}}

\* The payload of a_b, and the second field of a.
Payloads == {Inner, Keys("c" :> WithId("0", Typed("enum", Ref(DefPtr("enum", "Ea")))) @@ "b" :> Number("1")),
             Ref(DefPtr("struct", "Da")), Ref(DefPtr("union", "U")), Keys("c_" :> Number("0"))}
Seconds == {Typed("struct", OneNumber), Typed("union", Ref(DefPtr("union", "U"))), "$ref" :> [ptr |-> <<"$defs", "struct", "D", "c">>]}

Document(first, second, payload, struct, enum) ==
    Keys("messages" :> Keys("a" :> Keys("payload" :> Keys("b" :> WithId("0", first) @@ "b_c" :> WithId("1", second)))
                            @@ "a_b" :> Keys("payload" :> payload))
         @@ "$defs" :> Keys("struct" :> Keys("D" :> Keys("b" :> WithId("0", Typed("enum", Ref(DefPtr("enum", "E"))))
                                                         @@ "c" :> WithId("2", Typed("struct", OneNumber)))
                                             @@ "Da" :> struct)
                            @@ "union" :> Keys("U" :> Keys("b" :> WithId("2", Typed("struct", Ref(DefPtr("struct", "D")))) @@ "c" :> Number("0")))
                            @@ "enum" :> Keys("E" :> Names @@ "Ea" :> enum)
                            @@ "bitfield" :> Keys("B" :> Flags)))

MCDocuments ==
    {Document(first, second, payload, struct, enum) :
        first \in Specs, second \in Seconds, payload \in Payloads,
        struct \in {Ref(DefPtr("struct", "D")), Ref(DefPtr("union", "U")), Inner}, enum \in {Ref(DefPtr("enum", "E")), Names}}
    \cup {Document(first, Typed("struct", OneNumber), Inner, Ref(DefPtr("struct", "Da")), Names) : first \in Specs}

\* The constants of an enum are named where a field of a message has them.
MCElsewhere ==
    {Document(Typed("enum", Names), Typed("enum", Ref(<<"messages", "a", "payload", "b", "enum">>)), Inner, Inner, Names)}

=============================================================================
