------------------------ MODULE ThresholdEngineProofs ------------------------
(***************************************************************************)
(* Proofs about ThresholdEngine for every set of threads, every set of     *)
(* risks, every timeout and every run of the clock.                        *)
(***************************************************************************)
EXTENDS ThresholdEngine, TLAPS

(* Every risk has a level. *)
LEMMA RiskLevels == \A risk \in Risks : ThresholdLevel(risk) \in Level
<1> SUFFICES ASSUME NEW risk \in Risks PROVE ThresholdLevel(risk) \in Level
  OBVIOUS
<1>0. risk \in 0 .. 10000
  BY EngineAssumption DEF EngineAssumption
<1> QED
  BY <1>0 DEF ThresholdLevel, Level

(* What a decision says of a suspended level, and that nothing else suspends. *)
LEMMA DecisionFacts ==
    ASSUME NEW l \in Level, NEW flag \in BOOLEAN
    PROVE  /\ DecisionFor(l, flag) \in Decision
           /\ DecisionFor(l, flag).level = l
           /\ flag /\ l \notin {"L0", "L1"} =>
                DecisionFor(l, flag).blocked /\ ~DecisionFor(l, flag).autonomous
           /\ l \in {"L2", "L3"} /\ DecisionFor(l, flag).blocked => flag
<1>1. DecisionFor(l, flag) \in Decision
  BY DEF Decision
<1>2. DecisionFor(l, flag).level = l
  BY DEF DecisionFor
<1>3. flag /\ l \notin {"L0", "L1"} =>
          DecisionFor(l, flag).blocked /\ ~DecisionFor(l, flag).autonomous
  BY DEF DecisionFor, Level
<1>4. l \in {"L2", "L3"} /\ DecisionFor(l, flag).blocked => flag
  BY DEF DecisionFor
<1> QED
  BY <1>1, <1>2, <1>3, <1>4

LEMMA NoDecisionFacts == NoDecision \in Decision /\ NoDecision.level = "L0"
  BY DEF Decision, NoDecision

-----------------------------------------------------------------------------
(* The inductive invariant. *)

(* What an evaluation has seen of the silence up to its present step. *)
EvaluationInv ==
    \A t \in Threads :
        /\ silentSince[t] => Silent
        /\ pc[t] # "idle" => decision[t] = NoDecision
        /\ pc[t] # "idle" /\ Silent => silentOnce[t]
        /\ pc[t] \in {"alert", "decide"} /\ silentSince[t] => deadMan[t]
        /\ pc[t] \in {"alert", "decide"} /\ deadMan[t] => silentOnce[t]

Inv == /\ TypeOK
       /\ FlagMeansSilence
       /\ EvaluationInv
       /\ SilenceSuspends
       /\ NoFalseSuspension

LEMMA InitInv == Init => Inv
<1> SUFFICES ASSUME Init PROVE Inv
  OBVIOUS
<1>0. deadManActive \in BOOLEAN
  <2>1. deadManActive = FALSE
    BY DEF Init
  <2> QED
    BY <2>1
<1> USE EngineAssumption DEF EngineAssumption, Init
<1>1. TypeOK
  <2>1. "L0" \in Level
    BY DEF Level
  <2>2. now \in 0 .. MaxClock /\ lastContact \in 0 .. now
    OBVIOUS
  <2>3. /\ deadManActive \in BOOLEAN
        /\ deadMan \in [Threads -> BOOLEAN]
        /\ silentSince \in [Threads -> BOOLEAN]
        /\ silentOnce \in [Threads -> BOOLEAN]
    <3>1. [t \in Threads |-> FALSE] \in [Threads -> BOOLEAN]
      OBVIOUS
    <3> QED
      BY <1>0, <3>1
  <2>4. pc \in [Threads -> {"idle", "check", "alert", "decide"}] /\ lvl \in [Threads -> Level]
    BY <2>1
  <2>5. decision \in [Threads -> Decision]
    BY NoDecisionFacts
  <2> QED
    BY <2>2, <2>3, <2>4, <2>5 DEF TypeOK
<1>2. FlagMeansSilence /\ EvaluationInv
  BY DEF FlagMeansSilence, EvaluationInv, Silent, SilentAt
<1>3. SilenceSuspends /\ NoFalseSuspension
  BY NoDecisionFacts DEF SilenceSuspends, NoFalseSuspension
<1> QED
  BY <1>1, <1>2, <1>3 DEF Inv

(* The locked block reports silence exactly, because the flag is honest. *)
LEMMA SwitchReport ==
    ASSUME Inv, NEW flag \in BOOLEAN, ReadSwitch(flag), now' = now, lastContact' = lastContact
    PROVE  (flag <=> Silent) /\ FlagMeansSilence' /\ deadManActive' \in BOOLEAN
<1>1. (Silent \/ deadManActive) <=> Silent
  BY DEF Inv, FlagMeansSilence
<1>2. Silent' = Silent
  BY DEF Silent, SilentAt
<1>3. Silent \in BOOLEAN
  BY DEF Silent, SilentAt
<1>4. deadManActive' = Silent
  BY <1>1, <1>3 DEF ReadSwitch, Inv, TypeOK
<1>5. FlagMeansSilence'
  BY <1>2, <1>4 DEF FlagMeansSilence
<1>6. flag = Silent
  BY <1>4 DEF ReadSwitch
<1> QED
  BY <1>3, <1>4, <1>5, <1>6

LEMMA StepInv == Inv /\ [Next]_vars => Inv'
<1> SUFFICES ASSUME Inv, [Next]_vars PROVE Inv'
  OBVIOUS
<1> USE DEF Inv, TypeOK, FlagMeansSilence, EvaluationInv, SilenceSuspends, NoFalseSuspension
<1>0. now \in Int /\ lastContact \in Int /\ Timeout \in Nat /\ MaxClock \in Nat
  BY EngineAssumption DEF EngineAssumption
<1>1. ASSUME NEW t \in Threads, Heartbeat(t) PROVE Inv'
  <2>1. ~Silent'
    BY <1>0, <1>1 DEF Heartbeat, ContactTime, FlagAfterContact, Silent, SilentAt
  <2>2. \A u \in Threads : ~silentSince'[u]
    BY <1>1 DEF Heartbeat, ContactTime, FlagAfterContact
  <2>3. TypeOK'
    <3>1. lastContact' \in 0 .. now'
      BY <1>0, <1>1 DEF Heartbeat, ContactTime, FlagAfterContact
    <3>2. silentSince' \in [Threads -> BOOLEAN]
      BY <1>1 DEF Heartbeat, ContactTime, FlagAfterContact
    <3> QED
      BY <1>1, <3>1, <3>2 DEF Heartbeat, ContactTime, FlagAfterContact
  <2> QED
    BY <1>1, <2>1, <2>2, <2>3 DEF Heartbeat, ContactTime, FlagAfterContact
<1>2. ASSUME NEW t \in Threads, CheckDeadManSwitch(t) PROVE Inv'
  <2>1. FlagMeansSilence' /\ deadManActive' \in BOOLEAN
    BY <1>2, SwitchReport DEF CheckDeadManSwitch
  <2>2. Silent' = Silent
    BY <1>2 DEF CheckDeadManSwitch, Silent, SilentAt
  <2> QED
    BY <1>2, <2>1, <2>2 DEF CheckDeadManSwitch
<1>3. ASSUME NEW t \in Threads, NEW risk \in Risks, Evaluate(t, risk) PROVE Inv'
  <2>1. ThresholdLevel(risk) \in Level
    BY RiskLevels
  <2>2. Silent' = Silent /\ Silent \in BOOLEAN
    BY <1>3 DEF Evaluate, Silent, SilentAt
  <2>3. TypeOK'
    BY <1>3, <2>1, <2>2, NoDecisionFacts DEF Evaluate
  <2> QED
    BY <1>3, <2>2, <2>3, NoDecisionFacts DEF Evaluate
<1>4. ASSUME NEW t \in Threads, CheckForEvaluation(t) PROVE Inv'
  <2>1. PICK flag \in BOOLEAN : ReadSwitch(flag) /\ deadMan' = [deadMan EXCEPT ![t] = flag]
    BY <1>4 DEF CheckForEvaluation
  <2>2. (flag <=> Silent) /\ FlagMeansSilence' /\ deadManActive' \in BOOLEAN
    BY <1>4, <2>1, SwitchReport DEF CheckForEvaluation
  <2>3. Silent' = Silent
    BY <1>4 DEF CheckForEvaluation, Silent, SilentAt
  <2>4. TypeOK'
    BY <1>4, <2>1, <2>2 DEF CheckForEvaluation
  <2>5. EvaluationInv'
    BY <1>4, <2>1, <2>2, <2>3 DEF CheckForEvaluation
  <2>6. SilenceSuspends' /\ NoFalseSuspension'
    BY <1>4 DEF CheckForEvaluation
  <2> QED
    BY <2>2, <2>4, <2>5, <2>6
<1>5. ASSUME NEW t \in Threads, Alert(t) PROVE Inv'
  <2>1. Silent' = Silent
    BY <1>5 DEF Alert, Silent, SilentAt
  <2> QED
    BY <1>5, <2>1 DEF Alert
<1>6. ASSUME NEW t \in Threads, Decide(t) PROVE Inv'
  <2>1. Silent' = Silent
    BY <1>6 DEF Decide, Silent, SilentAt
  <2>2. TypeOK'
    BY <1>6, DecisionFacts DEF Decide
  <2>3. SilenceSuspends' /\ NoFalseSuspension'
    BY <1>6, DecisionFacts DEF Decide
  <2> QED
    BY <1>6, <2>1, <2>2, <2>3 DEF Decide
<1>7. CASE Tick
  <2>1. Silent => Silent'
    BY <1>0, <1>7 DEF Tick, Silent, SilentAt
  <2>2. Silent' <=> SilentAt(now + 1)
    BY <1>7 DEF Tick, Silent, SilentAt
  <2>3. SilentAt(now + 1) \in BOOLEAN
    BY DEF SilentAt
  <2>4. TypeOK'
    BY <1>0, <1>7, <2>3 DEF Tick
  <2> QED
    BY <1>7, <2>1, <2>2, <2>4 DEF Tick
<1>8. CASE UNCHANGED vars
  BY <1>8 DEF vars, Silent, SilentAt
<1> QED
  BY <1>1, <1>2, <1>3, <1>4, <1>5, <1>6, <1>7, <1>8 DEF Next, EvaluationStep

LEMMA AlwaysInv == Spec => []Inv
  BY InitInv, StepInv, PTL DEF Spec

-----------------------------------------------------------------------------
(* The theorems. *)

(* The variables keep their types. *)
THEOREM EngineTypes == Spec => []TypeOK
<1>1. Inv => TypeOK
  BY DEF Inv
<1> QED
  BY <1>1, AlwaysInv, PTL

(* The latched dead-man flag is never set without a silence that is still going on. *)
THEOREM FlagIsHonest == Spec => []FlagMeansSilence
<1>1. Inv => FlagMeansSilence
  BY DEF Inv
<1> QED
  BY <1>1, AlwaysInv, PTL

(* A silence that lasts from the beginning of an evaluation blocks its L2+ plan, however
   long the alert callback takes and whatever the other threads do, short of calling. *)
THEOREM SilenceBlocks == Spec => []SilenceSuspends
<1>1. Inv => SilenceSuspends
  BY DEF Inv
<1> QED
  BY <1>1, AlwaysInv, PTL

(* No L2 or L3 plan is suspended by an evaluation during which oversight was in touch. *)
THEOREM SuspensionHasCause == Spec => []NoFalseSuspension
<1>1. Inv => NoFalseSuspension
  BY DEF Inv
<1> QED
  BY <1>1, AlwaysInv, PTL
=============================================================================
