----------------------------- MODULE PathSelector -----------------------------
(***************************************************************************)
(* Selection of a decision path (src/apex/orchestration/selector.py).      *)
(* Risk, novelty and confidence are in hundredths; the four thresholds are *)
(* the defaults of PathSelector.                                           *)
(***************************************************************************)
EXTENDS Integers, ApexTypes

LowThreshold == 15
HighThreshold == 60
NoveltyThreshold == 70
ConfidenceThreshold == 80

Context == [urgency : {"normal", "high", "critical"}, risk : 0 .. 100, novelty : 0 .. 100,
            confidence : 0 .. 100, affectsSafety : BOOLEAN]

(* The order of the tests is the order of the code: urgency with low risk comes
   before safety, novelty before risk. *)
Select(c) ==
    IF c.urgency = "critical" /\ c.risk < LowThreshold THEN "reflexive"
    ELSE IF c.novelty > NoveltyThreshold THEN "collaborative"
    ELSE IF c.affectsSafety \/ c.risk > HighThreshold THEN "adversarial"
    ELSE IF c.confidence > ConfidenceThreshold THEN "deliberative"
    ELSE "collaborative"
=============================================================================
