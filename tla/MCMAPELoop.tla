------------------------------ MODULE MCMAPELoop ------------------------------
(* A small instance of MAPELoop: one metric with two rules, one with a lower bound. *)
EXTENDS MAPELoop

CONSTANTS t1, t2

TwoThreads == {t1, t2}

(* The second rule fires on fewer readings and, firing last, replaces the first's verdict. *)
TwoMetricRules ==
    <<[metric |-> "cpu", upper |-> 1, lower |-> Unbounded,
       severity |-> "critical", candidate |-> TRUE],
      [metric |-> "cpu", upper |-> 2, lower |-> Unbounded,
       severity |-> "degraded", candidate |-> TRUE],
      [metric |-> "disk", upper |-> Unbounded, lower |-> 5,
       severity |-> "warning", candidate |-> FALSE]>>

Readings == {[source |-> "svc", metric |-> "cpu", value |-> 2],
             [source |-> "svc", metric |-> "cpu", value |-> 3],
             [source |-> "svc", metric |-> "disk", value |-> 4]}

NoneOrOneAnomaly == {<<>>, <<[source |-> "db", metric |-> "cpu"]>>}

(* On the limit of a rollback, and above it. *)
MetricPairs == {[baseline |-> 10, post |-> 11], [baseline |-> -10, post |-> 0]}

(* Weights under which a destructive novel plan is L4 and a meso novel one L3. *)
CautiousWeights ==
    [reversibility |-> 50, blastRadius |-> 10, novelty |-> 30, safety |-> 0, confidence |-> 10]

(* Two events meet one cycle, whose thread or another publishes before or during it; two
   cycles meet one event. *)
OneEventOrOneCycle == Len(eventLog) <= 1 \/ cycleCount <= 1

Symmetry == Permutations(TwoThreads)
=============================================================================
