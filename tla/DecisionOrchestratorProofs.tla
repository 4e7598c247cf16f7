---------------------- MODULE DecisionOrchestratorProofs ----------------------
(***************************************************************************)
(* Proofs about the decision orchestrator.  Its decide, for every finite   *)
(* set of threads, every set of contexts and every number of pipeline runs *)
(* that raise: the shared stack holds an entry per call in flight and one  *)
(* per call that raised.  Its arbitrate, for any policies, weights and     *)
(* arbiters: what an arbiter has resolved and what it has still to resolve *)
(* make up the conflicts of the policies it saw, and the first weight it   *)
(* read is current until somebody writes it.  Both, side by side: a step   *)
(* of one leaves what the other works on alone.                            *)
(***************************************************************************)
EXTENDS DecisionOrchestrator, FiniteSetTheorems, SequenceTheorems, TLAPS

(* decide *)

(* Every context has a path. *)
LEMMA SelectType == ASSUME NEW c PROVE Select(c) \in DecisionPath
  BY DEF Select, DecisionPath

(* A non-empty stack has an entry of the highest rigor, and it governs. *)
LEMMA GoverningType ==
    ASSUME NEW stack \in Seq(DecisionPath), stack # <<>>
    PROVE  /\ GoverningPath(stack) \in Entries(stack)
           /\ GoverningPath(stack) \in DecisionPath
<1>1. stack[1] \in Entries(stack)
  BY DEF Entries
<1>2. Entries(stack) \subseteq DecisionPath
  BY DEF Entries
<1>3. \E p \in Entries(stack) : \A q \in Entries(stack) : Rigor(q) <= Rigor(p)
  <2>1. CASE "adversarial" \in Entries(stack)
    BY <1>2, <2>1 DEF DecisionPath, Rigor
  <2>2. CASE "adversarial" \notin Entries(stack) /\ "collaborative" \in Entries(stack)
    BY <1>2, <2>2 DEF DecisionPath, Rigor
  <2>3. CASE /\ "adversarial" \notin Entries(stack) /\ "collaborative" \notin Entries(stack)
             /\ "deliberative" \in Entries(stack)
    BY <1>2, <2>3 DEF DecisionPath, Rigor
  <2>4. CASE Entries(stack) \subseteq {"reflexive"}
    BY <1>1, <2>4 DEF Rigor
  <2> QED
    BY <1>2, <2>1, <2>2, <2>3, <2>4 DEF DecisionPath
<1> QED
  BY <1>2, <1>3 DEF GoverningPath

(* The type invariant is inductive. *)
LEMMA TypeStep == TypeOK /\ [Next]_vars => TypeOK'
<1> SUFFICES ASSUME TypeOK, [Next]_vars PROVE TypeOK'
  OBVIOUS
<1> USE OrchestratorAssumption DEF OrchestratorAssumption, TypeOK
<1>1. ASSUME NEW t \in Threads, Decide(t) PROVE TypeOK'
  BY <1>1, SelectType DEF Decide
<1>2. ASSUME NEW t \in Threads, Push(t) PROVE TypeOK'
  <2>1. Append(callStack, own[t]) \in Seq(DecisionPath) /\ Append(callStack, own[t]) # <<>>
    BY AppendProperties
  <2>2. GoverningPath(Append(callStack, own[t])) \in DecisionPath
    BY <2>1, GoverningType
  <2>3. {own[u] : u \in InFlight} \in SUBSET DecisionPath
    BY DEF InFlight
  <2> QED
    BY <1>2, <2>1, <2>2, <2>3 DEF Push
<1>3. ASSUME NEW t \in Threads, PipelineRaises(t) PROVE TypeOK'
  BY <1>3 DEF PipelineRaises, Return, DecisionPath
<1>4. ASSUME NEW t \in Threads, Pop(t) PROVE TypeOK'
  <2>1. callStack # <<>> => SubSeq(callStack, 1, Len(callStack) - 1) \in Seq(DecisionPath)
    BY EmptySeq, LenProperties, SubSeqProperties
  <2> QED
    BY <1>4, <2>1 DEF Pop, Popped, Return, DecisionPath
<1>5. CASE UNCHANGED vars
  BY <1>5 DEF vars
<1> QED
  BY <1>1, <1>2, <1>3, <1>4, <1>5 DEF Next

LEMMA TypeInit == Init => TypeOK
  BY OrchestratorAssumption DEF OrchestratorAssumption, Init, TypeOK, DecisionPath

(* The type invariant holds for every instance. *)
THEOREM OrchestratorTypes == Spec => []TypeOK
  BY TypeInit, TypeStep, PTL DEF Spec

-----------------------------------------------------------------------------

(* The calls in flight are finitely many, so that counting them makes sense. *)
LEMMA InFlightFinite == IsFiniteSet(InFlight) /\ Cardinality(InFlight) \in Nat
<1>1. IsFiniteSet(InFlight)
  BY OrchestratorAssumption, FS_Subset DEF OrchestratorAssumption, InFlight
<1> QED
  BY <1>1, FS_CardinalityType

(* The arithmetic of dropping the last of n entries. *)
LEMMA DropLast ==
    ASSUME NEW n \in Nat, n > 0, NEW m, m = IF 1 <= n - 1 THEN n - 1 - 1 + 1 ELSE 0
    PROVE  m = n - 1
  OBVIOUS

LEMMA AccountInit == Init => StackAccountsForCalls
<1> SUFFICES ASSUME Init PROVE StackAccountsForCalls
  OBVIOUS
<1>1. InFlight = {}
  BY DEF Init, InFlight
<1> QED
  BY <1>1, FS_EmptySet DEF Init, StackAccountsForCalls

LEMMA AccountStep == TypeOK /\ StackAccountsForCalls /\ [Next]_vars => StackAccountsForCalls'
<1> SUFFICES ASSUME TypeOK, StackAccountsForCalls, [Next]_vars PROVE StackAccountsForCalls'
  OBVIOUS
<1> USE DEF TypeOK
<1>0. leaked \in Nat /\ Len(callStack) \in Nat
  BY OrchestratorAssumption, LenProperties DEF OrchestratorAssumption
<1>1. ASSUME NEW t \in Threads, Decide(t) PROVE StackAccountsForCalls'
  <2>1. InFlight' = InFlight
    BY <1>1 DEF Decide, InFlight
  <2> QED
    BY <1>1, <2>1 DEF Decide, StackAccountsForCalls
<1>2. ASSUME NEW t \in Threads, Push(t) PROVE StackAccountsForCalls'
  <2>1. InFlight' = InFlight \union {t} /\ t \notin InFlight
    BY <1>2 DEF Push, InFlight
  <2>2. Cardinality(InFlight') = Cardinality(InFlight) + 1
    BY <2>1, InFlightFinite, FS_AddElement
  <2>3. Len(callStack') = Len(callStack) + 1
    BY <1>2, AppendProperties DEF Push
  <2> QED
    BY <1>0, <1>2, <2>2, <2>3, InFlightFinite DEF Push, StackAccountsForCalls
<1>3. ASSUME NEW t \in Threads, PipelineRaises(t) PROVE StackAccountsForCalls'
  <2>1. InFlight' = InFlight \ {t} /\ t \in InFlight
    BY <1>3 DEF PipelineRaises, Return, InFlight
  <2>2. Cardinality(InFlight') = Cardinality(InFlight) - 1
    BY <2>1, InFlightFinite, FS_RemoveElement
  <2> QED
    BY <1>0, <1>3, <2>2, InFlightFinite DEF PipelineRaises, StackAccountsForCalls
<1>4. ASSUME NEW t \in Threads, Pop(t) PROVE StackAccountsForCalls'
  <2>1. InFlight' = InFlight \ {t} /\ t \in InFlight
    BY <1>4 DEF Pop, Return, InFlight
  <2>2. Cardinality(InFlight') = Cardinality(InFlight) - 1 /\ Cardinality(InFlight) # 0
    BY <2>1, InFlightFinite, FS_RemoveElement, FS_EmptySet
  <2>3. Len(callStack) > 0
    BY <1>0, <2>2, InFlightFinite DEF StackAccountsForCalls
  <2>4. callStack # <<>>
    BY <2>3, EmptySeq
  <2>5. callStack' = SubSeq(callStack, 1, Len(callStack) - 1)
    BY <1>4, <2>4 DEF Pop, Popped
  <2>6. Len(SubSeq(callStack, 1, Len(callStack) - 1)) = Len(callStack) - 1
    <3>1. \A i \in 1 .. Len(callStack) - 1 : callStack[i] \in DecisionPath
      BY <1>0, ElementOfSeq
    <3>2. 1 \in Int /\ Len(callStack) - 1 \in Int
      BY <1>0
    <3>3. Len(SubSeq(callStack, 1, Len(callStack) - 1)) =
              IF 1 <= Len(callStack) - 1 THEN Len(callStack) - 1 - 1 + 1 ELSE 0
      BY <3>1, <3>2, SubSeqProperties
    <3> QED
      BY <1>0, <2>3, <3>3, DropLast, Zenon
  <2>7. Len(callStack') = Len(callStack) - 1
    BY <2>5, <2>6
  <2> QED
    BY <1>0, <1>4, <2>2, <2>7, InFlightFinite DEF Pop, StackAccountsForCalls
<1>5. CASE UNCHANGED vars
  BY <1>5 DEF vars, StackAccountsForCalls, InFlight
<1> QED
  BY <1>1, <1>2, <1>3, <1>4, <1>5 DEF Next

(* However overlapping calls end, the shared stack holds exactly one entry per call
   in flight and one per call whose pipeline raised; no pop finds it empty. *)
THEOREM StackAccounted == Spec => []StackAccountsForCalls
  BY TypeInit, TypeStep, AccountInit, AccountStep, PTL DEF Spec

-----------------------------------------------------------------------------

LEMMA LoneStep ==
    TypeOK /\ StackAccountsForCalls /\ LoneCallGovernsItself /\ [Next]_vars
        => LoneCallGovernsItself'
<1> SUFFICES ASSUME TypeOK, StackAccountsForCalls, LoneCallGovernsItself, [Next]_vars
             PROVE  LoneCallGovernsItself'
  OBVIOUS
<1> USE DEF TypeOK, LoneCallGovernsItself
<1>1. ASSUME NEW t \in Threads, Decide(t) PROVE LoneCallGovernsItself'
  BY <1>1 DEF Decide
<1>2. ASSUME NEW t \in Threads, Push(t) PROVE LoneCallGovernsItself'
  <2>1. ASSUME leaked = 0, overlapping'[t] = {} PROVE governing'[t] = own'[t]
    <3>1. InFlight = {}
      <4>1. overlapping'[t] = {own[u] : u \in InFlight}
        BY <1>2 DEF Push
      <4>2. \A u \in InFlight : own[u] \in {own[v] : v \in InFlight}
        OBVIOUS
      <4> QED
        BY <2>1, <4>1, <4>2
    <3>2. Len(callStack) = 0
      BY <2>1, <3>1, FS_EmptySet DEF StackAccountsForCalls
    <3>3. callStack = <<>>
      BY <3>2, EmptySeq
    <3>4. Append(callStack, own[t]) = <<own[t]>>
      BY <3>3
    <3>5. <<own[t]>> \in Seq(DecisionPath) /\ <<own[t]>> # <<>>
      OBVIOUS
    <3>6. Entries(<<own[t]>>) = {own[t]}
      BY DEF Entries
    <3> QED
      BY <1>2, <3>4, <3>5, <3>6, GoverningType DEF Push
  <2> QED
    BY <1>2, <2>1 DEF Push
<1>3. ASSUME NEW t \in Threads, PipelineRaises(t) PROVE LoneCallGovernsItself'
  BY <1>3, OrchestratorAssumption DEF OrchestratorAssumption, PipelineRaises, Return
<1>4. ASSUME NEW t \in Threads, Pop(t) PROVE LoneCallGovernsItself'
  BY <1>4 DEF Pop, Return
<1>5. CASE UNCHANGED vars
  BY <1>5 DEF vars
<1> QED
  BY <1>1, <1>2, <1>3, <1>4, <1>5 DEF Next

(* As long as no pipeline run raised, a call that entered alone is governed by its
   own path, whatever calls came and went before it. *)
THEOREM LoneCallGoverned == Spec => []LoneCallGovernsItself
<1>1. Init => LoneCallGovernsItself
  BY DEF Init, LoneCallGovernsItself
<1> QED
  BY <1>1, TypeInit, TypeStep, AccountInit, AccountStep, LoneStep, PTL DEF Spec

-----------------------------------------------------------------------------
(* arbitrate *)

Distinct(list) == \A i, j \in 1 .. Len(list) : list[i].id = list[j].id => i = j

Settled(r) ==
    /\ r.of.a.hard => r.how = "a"
    /\ r.of.b.hard /\ ~r.of.a.hard => r.how = "b"

(* What is resolved and what is not, in a call of arbitrate. *)
AnswersOK(t) ==
    /\ Distinct(detected[t])
    /\ apc[t] = "idle" => resolved[t] = {}
    /\ apc[t] # "idle" => conflicts[t] \union {r.of : r \in resolved[t]} = ConflictsOf(detected[t])
    /\ \A r \in resolved[t] : r.of \notin conflicts[t] /\ Settled(r)
    /\ \A r, s \in resolved[t] : s.of = r.of => s = r

(* What it knows of the conflict it weighs. *)
WeighingOK(t) ==
    /\ apc[t] = "weighing" => outcome[t] = "none"
    /\ \A c, d \in conflict[t] : c = d
    /\ \A c \in conflict[t] :
         /\ apc[t] \in {"weighing", "escalating"} => ~c.a.hard /\ ~c.b.hard
         /\ apc[t] = "weighing" =>
              /\ Compare(weight[c.a.id], weight[c.b.id]) \in held[t]
              /\ c.a.id \notin written[t] => weightA[t] = weight[c.a.id]
              /\ c.b.id \notin written[t] => Compare(weightA[t], weight[c.b.id]) \in held[t]
         /\ outcome[t] # "none" /\ ~({c.a.id, c.b.id} \subseteq written[t])
              => outcome[t] \in held[t]

ArbitrationInv ==
    /\ ArbitrationTypeOK
    /\ \A t \in Arbiters : AnswersOK(t) /\ WeighingOK(t)

LEMMA PolicyFacts ==
    /\ \A p \in Policies : p \in Policy /\ p.id \in PolicyIds
    /\ \A c \in Conflict : c.a \in Policy /\ c.b \in Policy
                           /\ c.a.id \in PolicyIds /\ c.b.id \in PolicyIds
    /\ \A x, y : Compare(x, y) \in {"a", "b", "tie"}
BY ArbitrationAssumption DEF PolicyIds, Conflict, Policy, Compare

LEMMA ConflictsFacts ==
    ASSUME NEW list \in Seq(Policies)
    PROVE  /\ ConflictsOf(list) \in SUBSET Conflict
           /\ \A c \in ConflictsOf(list) : \E i, j \in 1 .. Len(list) :
                /\ i < j /\ list[i].priority = list[j].priority
                /\ c = [a |-> list[i], b |-> list[j]]
           /\ \A i, j \in 1 .. Len(list) : i < j /\ list[i].priority = list[j].priority
                => [a |-> list[i], b |-> list[j]] \in ConflictsOf(list)
<1>1. \A i \in 1 .. Len(list) : list[i] \in Policy
  BY PolicyFacts
<1>2. \A c \in ConflictsOf(list) : \E i, j \in 1 .. Len(list) :
                /\ i < j /\ list[i].priority = list[j].priority
                /\ c = [a |-> list[i], b |-> list[j]]
  BY DEF ConflictsOf
<1>3. ASSUME NEW i \in 1 .. Len(list), NEW j \in 1 .. Len(list),
             i < j, list[i].priority = list[j].priority
      PROVE  [a |-> list[i], b |-> list[j]] \in ConflictsOf(list)
  <2> DEFINE k == <<i, j>>
  <2>1. /\ k \in (1 .. Len(list)) \X (1 .. Len(list)) /\ k[1] = i /\ k[2] = j
    OBVIOUS
  <2> QED
    BY <1>3, <2>1 DEF ConflictsOf
<1>4. ConflictsOf(list) \in SUBSET Conflict
  BY <1>1, <1>2 DEF Conflict
<1> QED
  BY <1>2, <1>3, <1>4

LEMMA RegisteredFacts ==
    ASSUME policies \in Seq(Policies), Distinct(policies), NEW p \in Policies
    PROVE  Registered(p) \in Seq(Policies) /\ Distinct(Registered(p))
<1> DEFINE n == Len(policies)
<1>0. n \in Nat /\ \A i \in 1 .. n : policies[i] \in Policies
  OBVIOUS
<1>1. CASE \E i \in 1 .. n : policies[i].id = p.id
  <2> DEFINE new == [i \in 1 .. n |-> IF policies[i].id = p.id THEN p ELSE policies[i]]
  <2>1. Registered(p) = new
    BY <1>1 DEF Registered
  <2>2. new \in Seq(Policies) /\ Len(new) = n
    BY <1>0
  <2>3. \A i \in 1 .. n : new[i].id = policies[i].id
    OBVIOUS
  <2> HIDE DEF new
  <2> QED
    BY <2>1, <2>2, <2>3 DEF Distinct
<1>2. CASE ~\E i \in 1 .. n : policies[i].id = p.id
  <2>1. Registered(p) = Append(policies, p)
    BY <1>2 DEF Registered
  <2>2. /\ Append(policies, p) \in Seq(Policies) /\ Len(Append(policies, p)) = n + 1
        /\ \A i \in 1 .. n : Append(policies, p)[i] = policies[i]
        /\ Append(policies, p)[n + 1] = p
    BY AppendProperties
  <2>3. \A i \in 1 .. n + 1 : i \in 1 .. n \/ i = n + 1
    BY <1>0
  <2> DEFINE new == Append(policies, p)
  <2> HIDE DEF new
  <2>4. Distinct(new)
    BY <1>0, <1>2, <2>2, <2>3 DEF Distinct, new
  <2> QED
    BY <2>1, <2>2, <2>4 DEF new
<1> QED
  BY <1>1, <1>2

LEMMA ArbitrationTypesStep ==
    ASSUME ArbitrationTypeOK, \A t \in Arbiters : AnswersOK(t) /\ WeighingOK(t),
           [ArbitrationNext]_arbitrationVars
    PROVE  ArbitrationTypeOK'
<1> USE DEF ArbitrationTypeOK
<1>1. ASSUME NEW p \in Policies, RegisterPolicy(p) PROVE ArbitrationTypeOK'
  BY <1>1, RegisteredFacts DEF RegisterPolicy, Distinct, arbiterVars
<1>2. ASSUME NEW id \in PolicyIds, NEW w \in Weights, SetWorldContext(id, w)
      PROVE  ArbitrationTypeOK'
  <2>1. weight' \in [PolicyIds -> Weights \union {DefaultWeight}]
    BY <1>2 DEF SetWorldContext
  <2>2. held' \in [Arbiters -> SUBSET {"a", "b", "tie"}]
    BY <1>2, PolicyFacts DEF SetWorldContext
  <2>3. written' \in [Arbiters -> SUBSET PolicyIds]
    BY <1>2 DEF SetWorldContext
  <2> QED
    BY <1>2, <2>1, <2>2, <2>3 DEF SetWorldContext
<1>3. ASSUME NEW t \in Arbiters, DetectConflicts(t) PROVE ArbitrationTypeOK'
  BY <1>3, ConflictsFacts DEF DetectConflicts, ArbiterGoto
<1>4. ASSUME NEW t \in Arbiters, NEW c \in conflicts[t], NEW how \in {"a", "b", "escalated"},
             Resolve(t, c, how)
      PROVE  /\ conflicts' \in [Arbiters -> SUBSET Conflict]
             /\ resolved' \in [Arbiters -> SUBSET Resolution]
             /\ apc' \in [Arbiters -> {"idle", "arbitrating", "weighing", "escalating"}]
  <2>1. [of |-> c, how |-> how] \in Resolution
    BY DEF Resolution
  <2> QED
    BY <1>4, <2>1 DEF Resolve, ArbiterGoto
<1>5. ASSUME NEW t \in Arbiters, NEW c \in conflicts[t], ArbitrateHard(t, c)
      PROVE  ArbitrationTypeOK'
  BY <1>4, <1>5 DEF ArbitrateHard
<1>6. ASSUME NEW t \in Arbiters, NEW c \in conflicts[t], ReadWeightA(t, c)
      PROVE  ArbitrationTypeOK'
  <2>1. c \in Conflict
    OBVIOUS
  <2>2. weight[c.a.id] \in Weights \union {DefaultWeight}
    BY <2>1, PolicyFacts
  <2>3. weightA' \in [Arbiters -> Weights \union {DefaultWeight}]
    BY <1>6, <2>2 DEF ReadWeightA
  <2>4. held' \in [Arbiters -> SUBSET {"a", "b", "tie"}]
    BY <1>6, PolicyFacts DEF ReadWeightA
  <2>5. /\ written' \in [Arbiters -> SUBSET PolicyIds]
        /\ outcome' \in [Arbiters -> {"none", "a", "b", "tie"}]
        /\ conflict' \in [Arbiters -> SUBSET Conflict]
        /\ apc' \in [Arbiters -> {"idle", "arbitrating", "weighing", "escalating"}]
    BY <1>6, <2>1 DEF ReadWeightA, ArbiterGoto
  <2> QED
    BY <1>6, <2>3, <2>4, <2>5 DEF ReadWeightA
<1>7. ASSUME NEW t \in Arbiters, NEW c \in conflicts[t], ReadWeightB(t, c)
      PROVE  ArbitrationTypeOK'
  <2>1. Weighed(t, c) \in {"a", "b", "tie"}
    BY PolicyFacts DEF Weighed
  <2>2. outcome' \in [Arbiters -> {"none", "a", "b", "tie"}]
    BY <1>7, <2>1 DEF ReadWeightB
  <2>3. CASE Weighed(t, c) # "tie" /\ Resolve(t, c, Weighed(t, c))
    BY <1>4, <1>7, <2>1, <2>2, <2>3 DEF ReadWeightB
  <2>4. CASE ArbiterGoto(t, "escalating") /\ UNCHANGED <<conflicts, resolved>>
    BY <1>7, <2>2, <2>4 DEF ReadWeightB, ArbiterGoto
  <2> QED
    BY <1>7, <2>3, <2>4 DEF ReadWeightB
<1>8. ASSUME NEW t \in Arbiters, NEW c \in conflicts[t], Escalate(t, c)
      PROVE  ArbitrationTypeOK'
  BY <1>4, <1>8 DEF Escalate
<1>9. ASSUME NEW t \in Arbiters, Leave(t) PROVE ArbitrationTypeOK'
  BY <1>9, EmptySeq DEF Leave, ArbiterGoto
<1>10. CASE UNCHANGED arbitrationVars
  BY <1>10 DEF arbitrationVars, arbiterVars
<1> QED
  BY <1>1, <1>2, <1>3, <1>5, <1>6, <1>7, <1>8, <1>9, <1>10
     DEF ArbitrationNext, ArbiterStep, EscalationRaises, ReturnResolved

(* A step of one arbiter leaves what the others hold. *)
LEMMA OtherArbiters ==
    ASSUME ArbitrationTypeOK, NEW u \in Arbiters, ArbiterStep(u), NEW t \in Arbiters, t # u
    PROVE  /\ UNCHANGED <<apc[t], conflicts[t], conflict[t], weightA[t], resolved[t]>>
           /\ UNCHANGED <<detected[t], held[t], written[t], outcome[t]>>
           /\ UNCHANGED weight
BY DEF ArbiterStep, DetectConflicts, ArbitrateHard, ReadWeightA, ReadWeightB, Escalate,
       EscalationRaises, ReturnResolved, Resolve, Leave, ArbiterGoto, ArbitrationTypeOK

(* A conflict goes from those to be resolved to those that are, with its outcome. *)
LEMMA ResolveStep ==
    ASSUME ArbitrationTypeOK, NEW t \in Arbiters, AnswersOK(t), apc[t] # "idle",
           NEW c \in conflicts[t], NEW how, Resolve(t, c, how), UNCHANGED detected,
           Settled([of |-> c, how |-> how])
    PROVE  AnswersOK(t)'
<1> DEFINE new == [of |-> c, how |-> how]
<1>1. /\ conflicts'[t] = conflicts[t] \ {c} /\ resolved'[t] = resolved[t] \union {new}
      /\ apc'[t] = "arbitrating" /\ detected'[t] = detected[t]
      /\ new.of = c /\ Settled(new)
  BY DEF Resolve, ArbiterGoto, ArbitrationTypeOK
<1> HIDE DEF new
<1>2. /\ Distinct(detected[t])
      /\ conflicts[t] \union {r.of : r \in resolved[t]} = ConflictsOf(detected[t])
      /\ \A r \in resolved[t] : r.of \notin conflicts[t] /\ Settled(r)
      /\ \A r, s \in resolved[t] : s.of = r.of => s = r
  BY DEF AnswersOK
<1>3. Distinct(detected[t])' /\ ConflictsOf(detected[t])' = ConflictsOf(detected[t])
  <2>1. detected' = detected
    OBVIOUS
  <2>2. Distinct(detected[t])'
    BY <1>2, <2>1 DEF Distinct
  <2>3. ConflictsOf(detected[t])' = ConflictsOf(detected[t])
    BY <2>1 DEF ConflictsOf
  <2> QED
    BY <2>2, <2>3
<1>4. {r.of : r \in resolved'[t]} = {r.of : r \in resolved[t]} \union {c}
  BY <1>1
<1>5. conflicts'[t] \union {r.of : r \in resolved'[t]} = ConflictsOf(detected[t])'
  BY <1>1, <1>2, <1>3, <1>4
<1>6. \A r \in resolved'[t] : r.of \notin conflicts'[t] /\ Settled(r)
  BY <1>1, <1>2
<1>7. \A r, s \in resolved'[t] : s.of = r.of => s = r
  BY <1>1, <1>2
<1> QED
  BY <1>1, <1>3, <1>5, <1>6, <1>7 DEF AnswersOK, Settled

LEMMA AnswersStep ==
    ASSUME ArbitrationTypeOK, Distinct(policies), NEW t \in Arbiters, AnswersOK(t), WeighingOK(t),
           [ArbitrationNext]_arbitrationVars
    PROVE  AnswersOK(t)'
<1>1. ASSUME UNCHANGED <<apc[t], conflicts[t], resolved[t], detected[t]>>
      PROVE  AnswersOK(t)'
  BY <1>1 DEF AnswersOK, Distinct, ConflictsOf, Settled
<1>2. ASSUME NEW u \in Arbiters, ArbiterStep(u), u # t PROVE AnswersOK(t)'
  BY <1>1, <1>2, OtherArbiters
<1>3. ASSUME ArbiterStep(t) PROVE AnswersOK(t)'
  <2>1. CASE DetectConflicts(t)
    <3>1. /\ apc[t] = "idle" /\ apc'[t] = "arbitrating" /\ detected'[t] = policies
          /\ conflicts'[t] = ConflictsOf(policies) /\ resolved'[t] = {} /\ policies' = policies
      BY <2>1 DEF DetectConflicts, ArbiterGoto, ArbitrationTypeOK, AnswersOK
    <3>2. Distinct(detected[t])' /\ ConflictsOf(detected[t])' = ConflictsOf(policies)
      BY <3>1 DEF Distinct, ConflictsOf
    <3> QED
      BY <3>1, <3>2 DEF AnswersOK
  <2>2. ASSUME NEW c \in conflicts[t], ArbitrateHard(t, c) PROVE AnswersOK(t)'
    <3>1. Settled([of |-> c, how |-> IF c.a.hard THEN "a" ELSE "b"])
      BY <2>2 DEF ArbitrateHard, Settled
    <3> QED
      BY <2>2, <3>1, ResolveStep DEF ArbitrateHard
  <2>3. ASSUME NEW c \in conflicts[t], ReadWeightA(t, c) PROVE AnswersOK(t)'
    <3>1. /\ apc'[t] = "weighing" /\ apc[t] = "arbitrating"
          /\ UNCHANGED <<conflicts[t], resolved[t], detected[t]>>
      BY <2>3 DEF ReadWeightA, ArbiterGoto, ArbitrationTypeOK
    <3> QED
      BY <3>1 DEF AnswersOK, Distinct, ConflictsOf, Settled
  <2>4. ASSUME NEW c \in conflicts[t], ReadWeightB(t, c) PROVE AnswersOK(t)'
    <3>1. ~c.a.hard /\ ~c.b.hard /\ apc[t] = "weighing" /\ detected' = detected
      BY <2>4 DEF ReadWeightB, WeighingOK
    <3>2. CASE Resolve(t, c, Weighed(t, c))
      BY <3>1, <3>2, ResolveStep DEF Settled
    <3>3. CASE ArbiterGoto(t, "escalating") /\ UNCHANGED <<conflicts, resolved>>
      <4>1. /\ apc'[t] = "escalating" /\ UNCHANGED <<conflicts[t], resolved[t], detected[t]>>
        BY <3>1, <3>3 DEF ArbiterGoto, ArbitrationTypeOK
      <4> QED
        BY <3>1, <4>1 DEF AnswersOK, Distinct, ConflictsOf, Settled
    <3> QED
      BY <2>4, <3>2, <3>3 DEF ReadWeightB
  <2>5. ASSUME NEW c \in conflicts[t], Escalate(t, c) PROVE AnswersOK(t)'
    <3>1. ~c.a.hard /\ ~c.b.hard /\ apc[t] = "escalating" /\ detected' = detected
      BY <2>5 DEF Escalate, WeighingOK
    <3> QED
      BY <2>5, <3>1, ResolveStep DEF Escalate, Settled
  <2>6. CASE Leave(t)
    <3>1. apc'[t] = "idle" /\ resolved'[t] = {} /\ detected'[t] = <<>>
      BY <2>6 DEF Leave, ArbiterGoto, ArbitrationTypeOK
    <3> QED
      BY <3>1 DEF AnswersOK, Distinct
  <2> QED
    BY <1>3, <2>1, <2>2, <2>3, <2>4, <2>5, <2>6 DEF ArbiterStep, EscalationRaises, ReturnResolved
<1>4. ASSUME NEW p \in Policies, RegisterPolicy(p) PROVE AnswersOK(t)'
  BY <1>1, <1>4 DEF RegisterPolicy, arbiterVars
<1>5. ASSUME NEW id \in PolicyIds, NEW w \in Weights, SetWorldContext(id, w) PROVE AnswersOK(t)'
  BY <1>1, <1>5 DEF SetWorldContext
<1>6. CASE UNCHANGED arbitrationVars
  BY <1>1, <1>6 DEF arbitrationVars, arbiterVars
<1> QED
  BY <1>2, <1>3, <1>4, <1>5, <1>6 DEF ArbitrationNext

LEMMA WriteStep ==
    ASSUME ArbitrationTypeOK, NEW t \in Arbiters, WeighingOK(t),
           NEW id \in PolicyIds, NEW w \in Weights, SetWorldContext(id, w)
    PROVE  WeighingOK(t)'
<1>1. /\ UNCHANGED <<apc[t], conflict[t], weightA[t], outcome[t]>>
      /\ \A p \in PolicyIds : p # id => weight'[p] = weight[p]
      /\ \A c \in conflict[t] : c.a.id \in PolicyIds /\ c.b.id \in PolicyIds
  BY PolicyFacts DEF SetWorldContext, ArbitrationTypeOK
<1>2. CASE apc[t] = "weighing"
  <2>1. /\ held'[t] = held[t] \union {Compare(weight'[c.a.id], weight'[c.b.id]) : c \in conflict[t]}
        /\ (conflict[t] # {} => written'[t] = written[t] \union {id})
    BY <1>2 DEF SetWorldContext, Weighing
  <2>2. ASSUME NEW c \in conflict[t]
        PROVE  /\ Compare(weight'[c.a.id], weight'[c.b.id]) \in held'[t]
               /\ c.a.id \notin written'[t] => weightA[t] = weight'[c.a.id]
               /\ c.b.id \notin written'[t] => Compare(weightA[t], weight'[c.b.id]) \in held'[t]
    <3>1. written'[t] = written[t] \union {id} /\ held[t] \subseteq held'[t]
      BY <2>1
    <3>2. c.a.id \notin written'[t] => weightA[t] = weight'[c.a.id]
      BY <1>1, <1>2, <3>1 DEF WeighingOK
    <3>3. c.b.id \notin written'[t] => Compare(weightA[t], weight'[c.b.id]) \in held'[t]
      BY <1>1, <1>2, <3>1 DEF WeighingOK
    <3> QED
      BY <2>1, <3>2, <3>3
  <2>3. outcome[t] = "none" /\ \A c \in conflict[t] : ~c.a.hard /\ ~c.b.hard
    BY <1>2 DEF WeighingOK
  <2> QED
    BY <1>1, <2>2, <2>3 DEF WeighingOK
<1>3. CASE apc[t] # "weighing"
  <2>1. held'[t] = held[t] /\ written'[t] = written[t]
    BY <1>3 DEF SetWorldContext, Weighing
  <2> QED
    BY <1>1, <1>3, <2>1 DEF WeighingOK
<1> QED
  BY <1>2, <1>3

LEMMA WeighingStep ==
    ASSUME ArbitrationTypeOK, NEW t \in Arbiters, WeighingOK(t),
           [ArbitrationNext]_arbitrationVars
    PROVE  WeighingOK(t)'
<1>1. ASSUME UNCHANGED <<apc[t], conflict[t], weightA[t], held[t], written[t], outcome[t], weight>>
      PROVE  WeighingOK(t)'
  BY <1>1 DEF WeighingOK, Compare
<1>2. ASSUME NEW u \in Arbiters, ArbiterStep(u), u # t PROVE WeighingOK(t)'
  BY <1>1, <1>2, OtherArbiters
<1>3. ASSUME apc'[t] = "arbitrating", apc[t] \in {"idle", "arbitrating", "escalating"},
             UNCHANGED <<conflict[t], held[t], written[t], outcome[t]>>
      PROVE  WeighingOK(t)'
  BY <1>3 DEF WeighingOK
<1>4. ASSUME ArbiterStep(t) PROVE WeighingOK(t)'
  <2>1. CASE DetectConflicts(t)
    BY <1>3, <2>1 DEF DetectConflicts, ArbiterGoto, ArbitrationTypeOK
  <2>2. ASSUME NEW c \in conflicts[t], ArbitrateHard(t, c) PROVE WeighingOK(t)'
    BY <1>3, <2>2 DEF ArbitrateHard, Resolve, ArbiterGoto, ArbitrationTypeOK
  <2>3. ASSUME NEW c \in conflicts[t], ReadWeightA(t, c) PROVE WeighingOK(t)'
    <3>1. /\ apc'[t] = "weighing" /\ conflict'[t] = {c} /\ outcome'[t] = "none"
          /\ weightA'[t] = weight[c.a.id] /\ weight' = weight
          /\ held'[t] = {Compare(weight[c.a.id], weight[c.b.id])}
          /\ ~c.a.hard /\ ~c.b.hard
      BY <2>3 DEF ReadWeightA, ArbiterGoto, ArbitrationTypeOK
    <3>2. \A d \in conflict'[t] : d = c
      BY <3>1
    <3> QED
      BY <3>1, <3>2 DEF WeighingOK
  <2>4. ASSUME NEW c \in conflicts[t], ReadWeightB(t, c) PROVE WeighingOK(t)'
    <3>1. /\ apc[t] = "weighing" /\ outcome'[t] = Weighed(t, c)
          /\ UNCHANGED <<weight, conflict[t], weightA[t], held[t], written[t]>>
          /\ apc'[t] \in {"arbitrating", "escalating"} /\ c \in conflict[t]
      BY <2>4 DEF ReadWeightB, Resolve, ArbiterGoto, ArbitrationTypeOK
    <3>2. ~({c.a.id, c.b.id} \subseteq written[t]) => Weighed(t, c) \in held[t]
      BY <3>1 DEF WeighingOK, Weighed
    <3>3. conflict[t] = {c}
      BY <3>1 DEF WeighingOK
    <3> QED
      BY <3>1, <3>2, <3>3 DEF WeighingOK
  <2>5. ASSUME NEW c \in conflicts[t], Escalate(t, c) PROVE WeighingOK(t)'
    BY <1>3, <2>5 DEF Escalate, Resolve, ArbiterGoto, ArbitrationTypeOK
  <2>6. CASE Leave(t)
    <3>1. conflict'[t] = {} /\ apc'[t] = "idle"
      BY <2>6 DEF Leave, ArbiterGoto, ArbitrationTypeOK
    <3> QED
      BY <3>1 DEF WeighingOK
  <2> QED
    BY <1>4, <2>1, <2>2, <2>3, <2>4, <2>5, <2>6 DEF ArbiterStep, EscalationRaises, ReturnResolved
<1>5. ASSUME NEW p \in Policies, RegisterPolicy(p) PROVE WeighingOK(t)'
  BY <1>1, <1>5 DEF RegisterPolicy, arbiterVars
<1>6. ASSUME NEW id \in PolicyIds, NEW w \in Weights, SetWorldContext(id, w) PROVE WeighingOK(t)'
  BY <1>6, WriteStep
<1>7. CASE UNCHANGED arbitrationVars
  BY <1>1, <1>7 DEF arbitrationVars, arbiterVars
<1> QED
  BY <1>2, <1>4, <1>5, <1>6, <1>7 DEF ArbitrationNext

LEMMA ArbitrationInvariant == ArbitrationSpec => []ArbitrationInv
<1>1. ArbitrationInit => ArbitrationInv
  BY EmptySeq DEF ArbitrationInit, ArbitrationInv, ArbitrationTypeOK, AnswersOK, WeighingOK, Distinct
<1>2. ArbitrationInv /\ [ArbitrationNext]_arbitrationVars => ArbitrationInv'
  <2> SUFFICES ASSUME ArbitrationInv, [ArbitrationNext]_arbitrationVars PROVE ArbitrationInv'
    OBVIOUS
  <2>1. Distinct(policies)
    BY DEF ArbitrationInv, ArbitrationTypeOK, Distinct
  <2> QED
    BY <2>1, ArbitrationTypesStep, AnswersStep, WeighingStep DEF ArbitrationInv
<1> QED
  BY <1>1, <1>2, PTL DEF ArbitrationSpec

(* The orchestrator keeps the types of policies, weights and arbitrations, and registers
   no policy twice. *)
THEOREM ArbitrationTypes == ArbitrationSpec => []ArbitrationTypeOK
<1>1. ArbitrationInv => ArbitrationTypeOK
  BY DEF ArbitrationInv
<1> QED
  BY <1>1, ArbitrationInvariant, PTL

(* For any number of policies, arbitrate answers every conflict of those it was given once,
   whatever is registered meanwhile; as they were then, a hard constraint wins over a soft
   one, and the earlier of two over the later. *)
THEOREM ConflictsAreAnswered == ArbitrationSpec => []EveryConflictAnswered
<1>1. ArbitrationInv => EveryConflictAnswered
  <2> SUFFICES ASSUME ArbitrationInv, NEW t \in Arbiters, Answered(t)
               PROVE  /\ \A i, j \in 1 .. Len(detected[t]) :
                           i < j /\ detected[t][i].priority = detected[t][j].priority =>
                             \E r \in resolved[t] :
                                r.of = [a |-> detected[t][i], b |-> detected[t][j]]
                      /\ \A r \in resolved[t] :
                           /\ r.of.a.id # r.of.b.id /\ r.of.a.priority = r.of.b.priority
                           /\ \A s \in resolved[t] : s.of = r.of => s = r
                           /\ r.of.a.hard => r.how = "a"
                           /\ r.of.b.hard /\ ~r.of.a.hard => r.how = "b"
    BY DEF EveryConflictAnswered
  <2> DEFINE list == detected[t]
  <2>1. /\ list \in Seq(Policies) /\ Distinct(list)
        /\ {r.of : r \in resolved[t]} = ConflictsOf(list)
        /\ \A r, s \in resolved[t] : s.of = r.of => s = r
        /\ \A r \in resolved[t] : Settled(r)
    BY DEF ArbitrationInv, ArbitrationTypeOK, AnswersOK, Answered
  <2> HIDE DEF list
  <2>2. ASSUME NEW i \in 1 .. Len(list), NEW j \in 1 .. Len(list), i < j,
               list[i].priority = list[j].priority
        PROVE  \E r \in resolved[t] : r.of = [a |-> list[i], b |-> list[j]]
    <3>1. [a |-> list[i], b |-> list[j]] \in {r.of : r \in resolved[t]}
      BY <2>1, <2>2, ConflictsFacts
    <3> QED
      BY <3>1
  <2>3. ASSUME NEW r \in resolved[t]
        PROVE  r.of.a.id # r.of.b.id /\ r.of.a.priority = r.of.b.priority
    <3>1. r.of \in ConflictsOf(list)
      BY <2>1
    <3>2. PICK i, j \in 1 .. Len(list) : /\ i < j /\ list[i].priority = list[j].priority
                                         /\ r.of = [a |-> list[i], b |-> list[j]]
      BY <2>1, <3>1, ConflictsFacts
    <3>3. r.of.a = list[i] /\ r.of.b = list[j] /\ i # j
      BY <3>2
    <3> QED
      BY <2>1, <3>2, <3>3 DEF Distinct
  <2> QED
    BY <2>1, <2>2, <2>3 DEF list, Settled
<1> QED
  BY <1>1, ArbitrationInvariant, PTL

(* Whatever weights are written while two of them are read, the outcome is how they
   compared at some time in between, unless both were written then. *)
THEOREM WeightsAreCompared == ArbitrationSpec => []ComparedAsHeld
<1>1. ArbitrationInv => ComparedAsHeld
  BY DEF ArbitrationInv, WeighingOK, ComparedAsHeld
<1> QED
  BY <1>1, ArbitrationInvariant, PTL

-----------------------------------------------------------------------------
(* decide and arbitrate, side by side *)

(* A step of the orchestrator is a step of one of them and none of the other. *)
LEMMA StepOfOne ==
    ASSUME [OrchestratorNext]_<<vars, arbitrationVars>>
    PROVE  [Next]_vars /\ [ArbitrationNext]_arbitrationVars
<1>1. CASE Next /\ UNCHANGED arbitrationVars
  BY <1>1
<1>2. CASE ArbitrationNext /\ UNCHANGED vars
  BY <1>2
<1>3. CASE UNCHANGED <<vars, arbitrationVars>>
  BY <1>3
<1> QED
  BY <1>1, <1>2, <1>3 DEF OrchestratorNext

(* With threads in decide and others in arbitrate, under a lock that neither holds
   through a call, each of the two does what it does alone. *)
THEOREM CallsDoNotInterfere == OrchestratorSpec => Spec /\ ArbitrationSpec
<1>1. OrchestratorInit => Init /\ ArbitrationInit
  BY DEF OrchestratorInit
<1> QED
  BY <1>1, StepOfOne, PTL DEF OrchestratorSpec, Spec, ArbitrationSpec

(* What holds of each of them alone holds of the orchestrator that runs both: the stack
   accounts for the calls of decide and a lone one governs itself, whoever arbitrates
   meanwhile, and every conflict is answered, by weights that compared so, whoever
   decides meanwhile. *)
THEOREM OrchestratorGoverns ==
    OrchestratorSpec => [](/\ TypeOK /\ StackAccountsForCalls /\ LoneCallGovernsItself
                           /\ ArbitrationTypeOK /\ EveryConflictAnswered /\ ComparedAsHeld)
  BY CallsDoNotInterfere, OrchestratorTypes, StackAccounted, LoneCallGoverned,
     ArbitrationTypes, ConflictsAreAnswered, WeightsAreCompared, PTL
=============================================================================
