----------------------------- MODULE MCCatalog ------------------------------
(***************************************************************************)
(* An instance of Catalog for TLC: two versions of a rule, the rules and   *)
(* the rule as collections, and a schema; the second namespace accepts one *)
(* content of two.                                                         *)
(***************************************************************************)
EXTENDS Catalog, TLC, SequencesExt

CONSTANTS t1, t2, ns1, ns2, x, y

TwoThreads == {t1, t2}
OneThread  == {t1}

SchemaNames == {<<"schema", "a", "0">>}
AssetNames == {<<"rule">>, <<"rule", "a">>, <<"rule", "a", "0">>, <<"rule", "a", "1">>}
                \union SchemaNames
AssetParents == [n \in AssetNames |-> {p \in AssetNames : IsStrictPrefix(p, n)}]

TwoNamespaces == {ns1, ns2}
Accepted == [s \in TwoNamespaces |-> IF s = ns1 THEN {x, y} ELSE {x}]
=============================================================================
