---------------------------- MODULE MCOrchestrator ----------------------------
(* Small instances of Orchestrator: one context per branch of Select. *)
EXTENDS Orchestrator

CONSTANTS t1, t2, t3

ThreeThreads == {t1, t2, t3}

Ctx(urgency, risk, novelty, confidence, safety) ==
    [urgency |-> urgency, risk |-> risk, novelty |-> novelty,
     confidence |-> confidence, affectsSafety |-> safety]

AllPaths == {Ctx("critical", 14, 90, 50, TRUE), Ctx("normal", 15, 71, 90, TRUE),
             Ctx("critical", 15, 70, 90, TRUE), Ctx("high", 61, 70, 90, FALSE),
             Ctx("normal", 60, 70, 81, FALSE), Ctx("normal", 60, 70, 80, FALSE)}
=============================================================================
