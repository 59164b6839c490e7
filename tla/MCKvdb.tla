------------------------------- MODULE MCKvdb -------------------------------
(***************************************************************************)
(* Instances of Kvdb for TLC.                                              *)
(***************************************************************************)
EXTENDS Kvdb, TLC

CONSTANTS t1, t2, t3    (* the worker threads of the small instances *)

AllThreads == {t1, t2, t3}
TwoThreads == {t1, t2}
OneAdmin   == {t1}

(* Threads may be exchanged when all of them have the same rights. *)
ThreadSymmetry == Permutations(AllThreads)
UserSymmetry   == Permutations(AllThreads \ OneAdmin)
=============================================================================
