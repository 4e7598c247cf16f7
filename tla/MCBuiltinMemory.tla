--------------------------- MODULE MCBuiltinMemory ---------------------------
(* A small instance of BuiltinMemory: two entries share a file, a third has its own. *)
EXTENDS BuiltinMemory, TLC

CONSTANTS t1, t2, e1, e2, e3

TwoThreads == {t1, t2}
ThreeEntries == {e1, e2, e3}
TwoOfRepository == {e1, e2}

(* Threads, and the entries of one scope, are interchangeable. *)
Symmetry == Permutations(TwoThreads) \union Permutations(TwoOfRepository)
=============================================================================
