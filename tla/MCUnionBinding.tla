--------------------------- MODULE MCUnionBinding ---------------------------
(***************************************************************************)
(* Two unions and a struct in three orders; four references, each to one  *)
(* of them with any default_id, or one of them to a key that names no type. *)
(***************************************************************************)
EXTENDS UnionBinding

MCUnions == [U |-> {1, 2, 3}, V |-> {2, 3}]
MCUses == {[key |-> "U", id |-> i] : i \in {1, 2, 3, Absent}}
          \cup {[key |-> "V", id |-> i] : i \in {2, 3, Absent}}
          \cup {[key |-> "S", id |-> Absent]}
MCOrders == {<<"S", "U", "V">>, <<"V", "S", "U">>, <<"U", "V", "S">>}
DanglingAt(x) == [y \in Sites |-> [key |-> IF y = x THEN "gone" ELSE "U", id |-> Absent]]

MCSchemas ==
    {[unions |-> MCUnions, order |-> o, uses |-> f] : o \in MCOrders, f \in [Sites -> MCUses]}
    \cup {[unions |-> MCUnions, order |-> o, uses |-> DanglingAt(x)] : o \in MCOrders, x \in Sites}

=============================================================================
