----------------------------- MODULE Calibration -----------------------------
(***************************************************************************)
(* The calibration review (src/apex/thresholds/calibration.py): a pure     *)
(* function of the adaptation history, which it reads once.  Its           *)
(* tolerances are a tenth and a fiftieth; as in the code, the rollback     *)
(* rate of a level at which nothing was executed is zero.                  *)
(***************************************************************************)
EXTENDS Integers, Sequences, FiniteSets, RiskScorer

CONSTANT MinSamples     \* executions at a level before a recommendation is made

ASSUME CalibrationAssumption == MinSamples \in Nat

Autonomous == {"L0", "L1", "L2"}

(* The entries of a level with one of the statuses, by their positions. *)
EntriesOf(list, level, statuses) ==
    {i \in 1 .. Len(list) : /\ ThresholdLevel(list[i].plan.risk) = level
                            /\ list[i].result.status \in statuses}

(* Everything that was decided on counts as executed. *)
ExecutionsWithBlocked(list, level) ==
    EntriesOf(list, level, {"committed", "rolled_back", "blocked"})

(* Blocked plans are no executions. *)
Executions(list, level) == EntriesOf(list, level, {"committed", "rolled_back"})

Rollbacks(list, level) == EntriesOf(list, level, {"rolled_back"})

EnoughSamples(list, level) == Cardinality(Executions(list, level)) >= MinSamples

Tightened(list) ==
    {level \in Autonomous :
        /\ EnoughSamples(list, level)
        /\ 10 * Cardinality(Rollbacks(list, level)) > Cardinality(Executions(list, level))}

Relaxed(list) ==
    {level \in Gated :
        /\ EnoughSamples(list, level)
        /\ 50 * Cardinality(Rollbacks(list, level)) <= Cardinality(Executions(list, level))}

Review(list) ==
    [sampleSize |-> Len(list),
     recommendations |-> {[level |-> l, kind |-> "tighten"] : l \in Tightened(list)}
                           \union {[level |-> l, kind |-> "relax"] : l \in Relaxed(list)}]
=============================================================================
