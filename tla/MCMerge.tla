------------------------------- MODULE MCMerge -------------------------------
(***************************************************************************)
(* Directories of up to three files.  Three keys fold to one name: two     *)
(* kinds, two spellings.  A file may define one of them, import one from   *)
(* another file of the directory or from a library outside it, and define  *)
(* a message; or it may be broken.                                         *)
(***************************************************************************)
EXTENDS Merge

CONSTANTS a, b, c, lib, Bad

Struct(n) == [kind |-> "struct", name |-> n]
Enum(n) == [kind |-> "enum", name |-> n]
Msg(n) == [kind |-> "message", name |-> n]

MCKeys == {Struct("P"), Struct("p"), Enum("P"), Msg("Q")}
MCFold == [n \in {"P", "p", "Q"} |-> IF n = "Q" THEN "q" ELSE "p"]
MCRank == [k \in MCKeys |-> CASE k = Msg("Q") -> 1 [] k = Enum("P") -> 2
                              [] k = Struct("P") -> 3 [] k = Struct("p") -> 4]

Doc1(k, e) == [x \in {k} |-> e]
Own(f) == {Doc1(k, [def |-> d, src |-> <<f, k>>]) : k \in MCKeys \ {Msg("Q")}, d \in Defs}
Imports(f) == {Doc1(Struct("P"), [def |-> d, src |-> <<g, Struct("P")>>]) : d \in Defs, g \in Paths \ {f}}
              \cup {Doc1(Enum("P"), [def |-> 1, src |-> <<lib, Enum("P")>>])}
Messages(f) == {Doc1(Msg("Q"), [def |-> d, src |-> <<f, Msg("Q")>>]) : d \in Defs}
Join(x, y) == [k \in DOMAIN x \cup DOMAIN y |-> IF k \in DOMAIN x THEN x[k] ELSE y[k]]
Documents(f) ==
    {Join(x, y) : x \in Own(f) \cup Imports(f) \cup {<< >>}, y \in Messages(f) \cup {<< >>}} \cup {Bad}

Three == {[files |-> <<a, b, c>>, docs |-> [f \in {a, b, c} |-> IF f = a THEN x ELSE IF f = b THEN y ELSE z]] :
             x \in Documents(a), y \in Documents(b), z \in Documents(c)}
Fewer == {[files |-> << >>, docs |-> << >>]}
         \cup {[files |-> <<b>>, docs |-> [f \in {b} |-> x]] : x \in Documents(b)}
MCDirectories == {D \in Three \cup Fewer : IsDirectory(D)}

=============================================================================
