------------------------------- MODULE Planner -------------------------------
(***************************************************************************)
(* The Plan phase (src/apex/mape/planner.py): one adaptation plan per      *)
(* symptom cluster, ranked by utility.  Benefits are in hundredths.        *)
(***************************************************************************)
EXTENDS Integers, Sequences, Ordering, RiskScorer

CONSTANT Weights    \* the weights of the planner's RiskScorer

ASSUME PlannerAssumption == Weights \in Weighting

Benefit ==
    [s \in Severity |-> CASE s = "informational" -> 5
                          [] s = "warning" -> 15
                          [] s = "degraded" -> 30
                          [] s = "critical" -> 60
                          [] s = "catastrophic" -> 90]

AdaptationTypeFor(severity) ==
    CASE severity \in {"informational", "warning"} -> "micro"
      [] severity = "degraded" -> "meso"
      [] OTHER -> "macro"

ReversibilityFor(type) ==
    CASE type = "micro" -> "fully_reversible"
      [] type = "meso" -> "partially_reversible"
      [] type = "macro" -> "destructive"

(* The prefix shared by a cluster's signals, and its probable cause. *)
BlastRadius == 2

(* A planner that takes every adaptation to touch safety. *)
RiskOfSafety(w, cluster) ==
    Score(w, ReversibilityFor(AdaptationTypeFor(cluster.severity)), BlastRadius,
          cluster.candidate, TRUE, 100 - Benefit[cluster.severity])

(* The risk of the plan for a cluster; planning always says affects_safety=False. *)
RiskOf(w, cluster) ==
    Score(w, ReversibilityFor(AdaptationTypeFor(cluster.severity)), BlastRadius,
          cluster.candidate, FALSE, 100 - Benefit[cluster.severity])

Plan == [cluster : Cluster, benefit : 0 .. 100, risk : 0 .. 10000, requiresApproval : BOOLEAN]

PlanFor(cluster) ==
    [cluster |-> cluster,
     benefit |-> Benefit[cluster.severity],
     risk |-> RiskOf(Weights, cluster),
     requiresApproval |-> ThresholdLevel(RiskOf(Weights, cluster)) \in Gated]

(* benefit / (1 + risk) of p is above that of q. *)
MoreUseful(p, q) == p.benefit * (10000 + q.risk) > q.benefit * (10000 + p.risk)

(* The sort is by falling utility, and stable. *)
RanksBefore(clusters, i, j) ==
    LET p == PlanFor(clusters[i])
        q == PlanFor(clusters[j])
    IN MoreUseful(p, q) \/ (~MoreUseful(q, p) /\ i < j)

Ranking(clusters) == InOrder(DOMAIN clusters, LAMBDA i, j : RanksBefore(clusters, i, j))

Plans(clusters) == [k \in DOMAIN clusters |-> PlanFor(clusters[Ranking(clusters)[k]])]
=============================================================================
