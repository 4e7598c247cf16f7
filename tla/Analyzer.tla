------------------------------- MODULE Analyzer -------------------------------
(***************************************************************************)
(* The Analyze phase (src/apex/mape/analyzer.py): from telemetry events    *)
(* and anomaly alerts to symptom clusters, in the order the code makes     *)
(* them.  A cluster's signals are texts "value=..." or "rolling_mean=...": *)
(* what is read of them later is their one common prefix, so they are left *)
(* out here and counted in the blast radius (Planner).                     *)
(***************************************************************************)
EXTENDS Integers, Sequences, FiniteSets, SequencesExt, Ordering, ApexTypes

CONSTANTS
    Rules,          \* the signal rules, in the order of add_rule
    Unbounded       \* a threshold that is None

MetricEvent == [source : STRING, metric : STRING, value : Int]

AnomalyAlert == [source : STRING, metric : STRING]

SignalRule ==
    [metric : STRING, upper : Int \union {Unbounded}, lower : Int \union {Unbounded},
     severity : Severity, candidate : BOOLEAN]

ASSUME AnalyzerAssumption == Rules \in Seq(SignalRule)

(* SignalRule.evaluate *)
Evaluate(rule, event) ==
    /\ event.metric = rule.metric
    /\ \/ rule.upper # Unbounded /\ event.value > rule.upper
       \/ rule.lower # Unbounded /\ event.value < rule.lower

(* The evaluations that fire, as pairs of an event and a rule, and their order. *)
Firings(events) ==
    {f \in (DOMAIN events) \X (DOMAIN Rules) : Evaluate(Rules[f[2]], events[f[1]])}

Earlier(f, g) == f[1] < g[1] \/ (f[1] = g[1] /\ f[2] < g[2])

InLogOrder(fs) == InOrder(fs, Earlier)

LastOf(fs) == CHOOSE f \in fs : \A g \in fs : g = f \/ Earlier(g, f)

(* The key "source:metric" that collects firings of one cause: a pair, since a source is
   taken to have no colon in it. *)
Cause(event) == <<event.source, event.metric>>

FiringsOf(events, cause) == {f \in Firings(events) : Cause(events[f[1]]) = cause}

(* rule_meta[key] is overwritten by every firing: the last one classifies the cause. *)
RuleMeta(events, cause) == Rules[LastOf(FiringsOf(events, cause))[2]]

(* The firings that enter a new key into the dictionary. *)
Opening(events) ==
    {f \in Firings(events) : \A g \in FiringsOf(events, Cause(events[f[1]])) : ~Earlier(g, f)}

RuleCluster(events, cause) ==
    [source |-> cause[1], metric |-> cause[2], anomaly |-> FALSE,
     severity |-> RuleMeta(events, cause).severity,
     candidate |-> RuleMeta(events, cause).candidate]

(* One cluster per key, in the order in which the keys were entered. *)
RuleClusters(events) ==
    LET order == InLogOrder(Opening(events))
    IN [i \in 1 .. Cardinality(Opening(events)) |-> RuleCluster(events, Cause(events[order[i][1]]))]

AnomalyClusters(alerts) ==
    [i \in DOMAIN alerts |->
        [source |-> alerts[i].source, metric |-> alerts[i].metric, anomaly |-> TRUE,
         severity |-> "warning", candidate |-> TRUE]]

Report == [clusters : Seq(Cluster), severity : Severity, targets : SUBSET STRING]

(* The most severe of a set, INFORMATIONAL when there is none. *)
MaxSeverity(severities) ==
    CHOOSE s \in severities \union {"informational"} :
        \A u \in severities : SeverityRank(u) <= SeverityRank(s)

Analyze(events, alerts) ==
    LET clusters == RuleClusters(events) \o AnomalyClusters(alerts)
    IN [clusters |-> clusters,
        severity |-> MaxSeverity({clusters[i].severity : i \in DOMAIN clusters}),
        targets |-> {clusters[i].source : i \in {j \in DOMAIN clusters : clusters[j].candidate}}]
=============================================================================
