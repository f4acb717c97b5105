----------------------------- MODULE MCIdScopes -----------------------------
(***************************************************************************)
(* Payloads of three fields, the third a scope of two more or a field      *)
(* without a type; and payloads of two fields, one a union.  Ids 1 and 2,  *)
(* so that three fields must share one, or an id for each field of the     *)
(* payload; ids also missing or out of range.                              *)
(***************************************************************************)
EXTENDS IdScopes

CONSTANTS p, q, s, x, y

MCInOrder == <<p, q, s, x, y>>
\* #/p < #/p/id < #/s < #/s/default_id < #/s/oneof < #/s/oneof/x < ... < #/s/id
Of(f, parts) == [i \in DOMAIN parts |-> <<f, parts[i]>>]
Plain == <<"field", "default_id", "id", "oneof">>
MCLocations ==
    Of(p, Plain) \o Of(q, Plain) \o Of(s, <<"field", "default_id">>)
    \o Of(x, Plain) \o Of(y, Plain) \o Of(s, <<"id", "oneof">>)

Distinct(S) == [f \in S |-> f]
All(S, v) == [f \in S |-> v]
Doc(parent, id, fold, type, extra, defaultId) ==
    [parent |-> parent, id |-> id, fold |-> fold, type |-> type,
     extra |-> extra, defaultId |-> defaultId]

Five == {p, q, s, x, y}
Parent5 == [f \in Five |-> IF f \in {x, y} THEN s ELSE Root]
Folds5 == {Distinct(Five), [Distinct(Five) EXCEPT ![q] = p],
           [Distinct(Five) EXCEPT ![q] = p, ![s] = p, ![y] = x],
           [Distinct(Five) EXCEPT ![x] = p]}
Nested == {Doc(Parent5, id, fold, [f \in Five |-> IF f = s THEN t ELSE "leaf"],
               All(Five, {}), [f \in Five |-> IF f = s THEN d ELSE Missing]) :
              id \in [Five -> {1, 2}] \cup {i \in [Five -> {1, 2, 3}] : i[p] = 1 /\ i[q] = 2 /\ i[s] = 3},
              fold \in Folds5, t \in {"struct", "union"},
              d \in {Missing, 2}}

Two == {p, s}
Flat == {Doc(All(Two, Root), id, fold, [f \in Two |-> IF f = s THEN t ELSE "leaf"],
             [f \in Two |-> IF f = p THEN e ELSE {}], [f \in Two |-> IF f = s THEN d ELSE Missing]) :
            id \in [Two -> {1, Missing, TooBig}], fold \in {Distinct(Two), All(Two, p)},
            t \in {"leaf", "struct", "union", "untyped"},
            e \in SUBSET {"k", "l"}, d \in {Missing, 1}}

\* Three fields of one scope, every way to give them ids.
Three == {p, q, s}
Row == {Doc(All(Three, Root), id, Distinct(Three), All(Three, "leaf"), All(Three, {}), All(Three, Missing)) :
            id \in [Three -> {1, 2, 3, Missing, TooBig}]}

MCTrees == {d \in Nested \cup Flat \cup Row : IsDocument(d)}

=============================================================================
