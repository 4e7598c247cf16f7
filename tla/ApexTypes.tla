------------------------------ MODULE ApexTypes ------------------------------
(* The enumerations and records of src/apex/core/types.py that several components share. *)
EXTENDS Integers

Level == {"L0", "L1", "L2", "L3", "L4"}

Severity == {"informational", "warning", "degraded", "critical", "catastrophic"}

(* The position of a severity in _SEVERITY_ORDER. *)
SeverityRank(s) ==
    CASE s = "informational" -> 0
      [] s = "warning" -> 1
      [] s = "degraded" -> 2
      [] s = "critical" -> 3
      [] s = "catastrophic" -> 4

Reversibility == {"fully_reversible", "partially_reversible", "destructive"}

DecisionPath == {"reflexive", "deliberative", "collaborative", "adversarial"}

(* SymptomCluster: its probable cause names a metric of a source, and whether a rule or
   an anomaly detector saw it. *)
Cluster == [source : STRING, metric : STRING, anomaly : BOOLEAN,
            severity : Severity, candidate : BOOLEAN]

VerificationResult == {"VERIFIED", "REFUTED", "UNDECIDABLE"}
=============================================================================
