------------------------------ MODULE RiskScorer ------------------------------
(***************************************************************************)
(* The risk score of a plan and the level it stands for                    *)
(* (src/apex/thresholds/risk_scorer.py).  A weight and a component are in  *)
(* hundredths, so a product of the two, and with it a score, is an integer *)
(* number of ten-thousandths: the four digits the code rounds to.          *)
(***************************************************************************)
EXTENDS Integers, ApexTypes

Factor == {"reversibility", "blastRadius", "novelty", "safety", "confidence"}

(* Weights are normalised: they sum to one. *)
Weighting ==
    {w \in [Factor -> Int] :
        w.reversibility + w.blastRadius + w.novelty + w.safety + w.confidence = 100}

(* The defaults of RiskScorer: what ApexSystem builds its planner with. *)
DefaultWeights ==
    [reversibility |-> 25, blastRadius |-> 25, novelty |-> 20, safety |-> 20, confidence |-> 10]

ReversibilityPenalty ==
    [r \in Reversibility |-> CASE r = "fully_reversible" -> 5
                               [] r = "partially_reversible" -> 50
                               [] r = "destructive" -> 100]

MaxBlastRadius == 10

Clamp(low, x, high) == IF x < low THEN low ELSE IF x > high THEN high ELSE x

(* blast is a number of components, deficit is in hundredths. *)
Score(w, reversibility, blast, novel, safety, deficit) ==
    Clamp(0, w.reversibility * ReversibilityPenalty[reversibility]
               + w.blastRadius * Clamp(0, blast * (100 \div MaxBlastRadius), 100)
               + w.novelty * (IF novel THEN 100 ELSE 0)
               + w.safety * (IF safety THEN 100 ELSE 0)
               + w.confidence * Clamp(0, deficit, 100), 10000)

ThresholdLevel(risk) ==
    IF risk < 1500 THEN "L0"
    ELSE IF risk < 3500 THEN "L1"
    ELSE IF risk < 6000 THEN "L2"
    ELSE IF risk < 8000 THEN "L3"
    ELSE "L4"

(* The levels that wait for a human. *)
Gated == {"L3", "L4"}
=============================================================================
