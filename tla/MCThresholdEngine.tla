-------------------------- MODULE MCThresholdEngine --------------------------
(* A small instance of ThresholdEngine: one risk on each side of every boundary. *)
EXTENDS ThresholdEngine, TLC

CONSTANTS t1, t2

TwoThreads == {t1, t2}

BoundaryRisks == {1499, 1500, 3499, 3500, 5999, 6000, 7999, 8000}

Symmetry == Permutations(TwoThreads)
=============================================================================
