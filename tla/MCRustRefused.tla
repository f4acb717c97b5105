---------------------------- MODULE MCRustRefused ----------------------------
(***************************************************************************)
(* A text only a cap bounds, then an array of structs that hold a struct.  *)
(***************************************************************************)
EXTENDS RustCodec, WireCases

Refusing ==
    Case(4, [M |-> Struct(<<Fld(0, Str(None), << >>), Fld(1, List(Ref("S"), 2), << >>)>>),
             S |-> Struct(<<Fld(5, Ref("T"), None)>>),
             T |-> Struct(<<Fld(0, U(None), 0)>>)],
         {PayHead(0, "str", 3), PayHead(0, "str", 0), Open(1), Open(0), Open(5), Val(0, "u", 1)}, {}, {<<1, 1, 1>>}, {}, {})

RefusedSchemas == {Refusing}

=============================================================================
