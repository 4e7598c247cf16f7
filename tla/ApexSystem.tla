------------------------------ MODULE ApexSystem ------------------------------
(***************************************************************************)
(* One ApexSystem (src/apex/system.py, lines 77-101): it builds one MAPE   *)
(* loop and one threshold engine around the same scorer, and hands the     *)
(* engine to nobody.  Threads of the host call the loop, the oversight     *)
(* side calls the engine; each step is a step of one of the two.           *)
(***************************************************************************)
EXTENDS Integers, Sequences, SequencesExt, RiskScorer

CONSTANTS
    Threads, Overseers, Rules, Unbounded, Events, AlertLists, Metrics, None,
    HasCallback, MinSamples, Weights, Risks, Timeout, MaxEvents, MaxCycles, MaxClock

VARIABLES
    eventLog, cycleCount, lastReport, executed, adaptations, ledger,
    pc, call, plans, approval, result, own, made, offered, consented, aborted,
    now, lastContact, deadManActive, enginePc, lvl, deadMan, decision,
    silentSince, silentOnce

loop == <<eventLog, cycleCount, lastReport, executed, adaptations, ledger,
          pc, call, plans, approval, result, own, made, offered, consented, aborted>>
engine == <<now, lastContact, deadManActive, enginePc, lvl, deadMan, decision,
            silentSince, silentOnce>>

Loop == INSTANCE MAPELoop
Engine == INSTANCE ThresholdEngine WITH Threads <- Overseers, pc <- enginePc

Init == Loop!Init /\ Engine!Init

Next == \/ Loop!Next /\ UNCHANGED engine
        \/ Engine!Next /\ UNCHANGED loop

Spec == Init /\ [][Next]_<<loop, engine>>
-----------------------------------------------------------------------------
(* Properties *)

(* What README.md:138 says of the dead-man switch: "all L2+ evolutions are automatically
   suspended".  While the switch is known to be active, no cycle commits an L2+ plan. *)
DeadManSuspends ==
    [][\A t \in Threads :
          deadManActive /\ pc[t] = "execute" /\ pc'[t] = "store"
              => \/ result'[t].status # "committed"
                 \/ ThresholdLevel(Head(plans[t]).plan.risk) \in {"L0", "L1"}]_<<loop, engine>>
=============================================================================
