------------------------ MODULE MCDecisionOrchestrator ------------------------
(* A small instance of DecisionOrchestrator. *)
EXTENDS DecisionOrchestrator, TLC

CONSTANTS t1, t2, r1, p1, p2

TwoThreads == {t1, t2}
OneArbiter == {r1}

Ctx(urgency, risk, novelty, confidence, safety) ==
    [urgency |-> urgency, risk |-> risk, novelty |-> novelty,
     confidence |-> confidence, affectsSafety |-> safety]

(* Contexts for the lowest rigor and the highest. *)
TwoPaths == {Ctx("critical", 14, 90, 50, TRUE), Ctx("critical", 15, 70, 90, TRUE)}

(* Two policies of one priority; each may be registered as a soft or a hard constraint. *)
SoftAndHard == [id : {p1, p2}, priority : {1}, hard : BOOLEAN]

DefaultAndMore == {5, 7}

Symmetry == Permutations(TwoThreads)
=============================================================================
