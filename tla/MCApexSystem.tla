----------------------------- MODULE MCApexSystem -----------------------------
(* A small instance of ApexSystem with its default weights: one thread runs cycles,
   one oversees. *)
EXTENDS ApexSystem

CONSTANTS t1, o1

OneThread == {t1}
OneOverseer == {o1}

OneMetricRule ==
    <<[metric |-> "cpu", upper |-> 1, lower |-> Unbounded,
       severity |-> "critical", candidate |-> TRUE]>>

OneReading == {[source |-> "svc", metric |-> "cpu", value |-> 2]}
NoAnomaly == {<<>>}
NoMetrics == {[baseline |-> None, post |-> None]}
OneSignificantRisk == {5400}
=============================================================================
