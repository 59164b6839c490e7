------------------------------- MODULE MCStore ------------------------------
(***************************************************************************)
(* Instances of Store for TLC.                                             *)
(***************************************************************************)
EXTENDS Store, TLC, SequencesExt

CONSTANTS t1, t2

TwoThreads == {t1, t2}

(* a, a/b, a/c and d: a is a document or the collection of the next two. *)
SmallNames == {<<"a">>, <<"a", "b">>, <<"a", "c">>, <<"d">>}

PrefixesIn(S) == [n \in S |-> {p \in S : IsStrictPrefix(p, n)}]
SmallParents == PrefixesIn(SmallNames)
=============================================================================
