----------------------------- MODULE MCSofabgen -----------------------------
(***************************************************************************)
(* Two runs over one tree, of a definition that loses one file and gains   *)
(* another between its versions, or has nothing to format, or no file.     *)
(***************************************************************************)
EXTENDS Sofabgen

CONSTANTS a, b, c, toml

MCFilesOf == [v \in 1 .. 4 |-> CASE v = 1 -> <<a, toml, b>> [] v = 2 -> <<a, c>>
                                 [] v = 3 -> <<toml>> [] v = 4 -> << >>]

Plain == [schema |-> 1, info |-> "none", lang |-> "formatting", dump |-> FALSE, flag |-> NotGiven,
          config |-> NotGiven, fails |-> Nowhere, tool |-> "works"]

\* Every format switch with every formatter; every check failing; every way to
\* stop early, failing or not.
Formats == {[Plain EXCEPT !.schema = v, !.flag = f, !.config = g, !.tool = t] :
               v \in 1 .. 4, f \in {NotGiven, "off", "auto", "require"}, g \in {NotGiven, "auto"},
               t \in {"absent", "works", b, c, toml}}
Failures == {[Plain EXCEPT !.fails = Checks[i], !.info = n, !.lang = l] :
                i \in 1 .. Len(Checks), n \in {"none", "version", "defaults"}, l \in {"formatting", "none"}}
Stops == {[Plain EXCEPT !.info = n, !.lang = l, !.dump = d] :
             n \in {"none", "version", "defaults"}, l \in {"none", "unwired", "plain"}, d \in BOOLEAN}
MCRequests == Formats \cup Failures \cup Stops

=============================================================================
