----------------------------- MODULE MCApexFacade -----------------------------
(* A small instance of ApexFacade. *)
EXTENDS ApexFacade, TLC

CONSTANTS t1, t2, m1, m2, a1

TwoThreads == {t1, t2}
OneMemory == {m1}
OneAlert == {a1}
LowAndHigh == {0, 2}

OneVerifier == {t2}
CycleRecords == {"mape_cycle_complete"}
=============================================================================
