---------------------- MODULE VerificationPipelineProofs ----------------------
(***************************************************************************)
(* Proofs about VerificationPipeline for every set of threads, contents    *)
(* and rules and every number of retries.                                  *)
(***************************************************************************)
EXTENDS VerificationPipeline, TLAPS

(* The ids of a dictionary are keys. *)
Keyed(dict) == \A i, j \in DOMAIN dict : dict[i].id = dict[j].id => i = j

(* Storing a rule keeps the keys unique and every id in its place. *)
LEMMA AssignFacts ==
    ASSUME NEW dict \in Seq(Rules), NEW rule \in Rules, Keyed(dict)
    PROVE  /\ Assign(dict, rule) \in Seq(Rules)
           /\ Keyed(Assign(dict, rule))
           /\ Len(dict) <= Len(Assign(dict, rule))
           /\ \A i \in 1 .. Len(dict) : Assign(dict, rule)[i].id = dict[i].id
<1>1. CASE HasId(dict, rule.id)
  <2>1. Assign(dict, rule) =
            [i \in 1 .. Len(dict) |-> IF dict[i].id = rule.id THEN rule ELSE dict[i]]
    BY <1>1 DEF Assign
  <2>2. \A i \in 1 .. Len(dict) : /\ Assign(dict, rule)[i] \in Rules
                                  /\ Assign(dict, rule)[i].id = dict[i].id
    BY <2>1
  <2>3. Assign(dict, rule) \in Seq(Rules) /\ Len(Assign(dict, rule)) = Len(dict)
    BY <2>1, <2>2
  <2> QED
    BY <2>2, <2>3 DEF Keyed
<1>2. CASE ~HasId(dict, rule.id)
  <2>1. Assign(dict, rule) = Append(dict, rule)
    BY <1>2 DEF Assign
  <2>2. \A i \in 1 .. Len(dict) : dict[i].id # rule.id
    BY <1>2 DEF HasId
  <2> QED
    BY <2>1, <2>2 DEF Keyed
<1> QED
  BY <1>1, <1>2

-----------------------------------------------------------------------------
(* The inductive invariant. *)

Ids(n) == {rules[i].id : i \in 1 .. n}

(* What a thread inside verify, or past it, has made of the rules it went through. *)
WalkInv ==
    \A t \in Threads :
        /\ pc[t] = "verify" =>
             /\ position[t] <= size[t] /\ size[t] <= Len(rules)
             /\ satisfied[t] \intersect violated[t] = {}
             /\ satisfied[t] \union violated[t] = Ids(position[t])
             /\ hardViolation[t] => violated[t] # {}
        /\ pc[t] = "record" =>
             /\ size[t] <= Len(rules)
             /\ satisfied[t] \intersect violated[t] = {}
             /\ satisfied[t] \union violated[t] = Ids(size[t])

(* A standing rule is still where it was when verify began; once passed, it has left its
   mark on hard_violation. *)
StandingInv ==
    \A t \in Threads :
        /\ pc[t] = "verify" =>
             /\ standing[t] \subseteq Entries(rules)
             /\ \A i \in 1 .. Len(rules) : rules[i] \in standing[t] =>
                  /\ i <= size[t]
                  /\ rules[i].type = "hard"
                  /\ i <= position[t] /\ content[t] \in rules[i].fails => hardViolation[t]
        /\ pc[t] = "record" /\ result[t] = "VERIFIED" =>
             \A r \in standing[t] : content[t] \notin r.fails

(* Attempts and refutations go together, and only verify makes a result of them. *)
RetryInv ==
    \A t \in Threads :
        /\ pc[t] \in {"idle", "pop", "activate"} =>
             attempt[t] = 0 /\ refutations[t] = 0
        /\ pc[t] \in {"predict", "verify"} => refutations[t] = attempt[t]
        /\ pc[t] # "record" => result[t] = "UNDECIDABLE"
        /\ pc[t] \in {"verify", "record"} => content[t] \in Contents
        /\ pc[t] = "record" /\ result[t] # "VERIFIED" =>
             refutations[t] = MaxRetries + 1 /\ violated[t] # {}

(* A thread that is activating a rule has one. *)
MovingInv == \A t \in Threads : pc[t] \in {"pop", "activate"} => moving[t] \in Rules

Inv == TypeOK /\ WalkInv /\ StandingInv /\ RetryInv /\ MovingInv

LEMMA InitInv == Init => Inv
<1> SUFFICES ASSUME Init PROVE Inv
  OBVIOUS
<1> USE PipelineAssumption DEF PipelineAssumption, Init
<1>1. TypeOK
  <2>1. [t \in Threads |-> FALSE] \in [Threads -> BOOLEAN]
    OBVIOUS
  <2>2. hardViolation \in [Threads -> BOOLEAN]
    BY <2>1
  <2>3. result \in [Threads -> VerificationResult]
    BY DEF VerificationResult
  <2>4. rules \in Seq(Rules) /\ \A i, j \in DOMAIN rules : rules[i].id = rules[j].id => i = j
    OBVIOUS
  <2>5. records \in Seq(DecisionRecord)
    OBVIOUS
  <2> QED
    BY <2>2, <2>3, <2>4, <2>5 DEF TypeOK
<1>2. WalkInv /\ StandingInv /\ RetryInv /\ MovingInv
  BY DEF WalkInv, StandingInv, RetryInv, MovingInv
<1> QED
  BY <1>1, <1>2 DEF Inv

(* Storing a rule disturbs no verification under way: what it has passed keeps its id,
   and what it may still count on keeps its place. *)
LEMMA StoreRule ==
    ASSUME Inv, NEW t \in Threads, NEW rule \in Rules,
           pc[t] \in {"idle", "activate"}, pc' = [pc EXCEPT ![t] = "idle"],
           rules' = Assign(rules, rule), StillStanding,
           UNCHANGED <<attempt, content, verdict, result, refutations>>
    PROVE  /\ rules' \in Seq(Rules) /\ Keyed(rules)'
           /\ standing' \in [Threads -> SUBSET Rules]
           /\ WalkInv' /\ StandingInv' /\ RetryInv'
<1>1. rules \in Seq(Rules) /\ Keyed(rules)
  BY DEF Inv, TypeOK, Keyed
<1>2. /\ rules' \in Seq(Rules) /\ Keyed(rules)' /\ Len(rules) <= Len(rules')
      /\ \A i \in 1 .. Len(rules) : rules'[i].id = rules[i].id
  BY <1>1, AssignFacts DEF Keyed
<1>3. pc \in [Threads -> {"idle", "pop", "activate", "predict", "verify", "record"}]
  BY DEF Inv, TypeOK
<1>4. \A u \in Threads : pc'[u] # "idle" => pc'[u] = pc[u]
  BY <1>3
<1>5. \A u \in Threads : /\ pc[u] = "verify" => standing'[u] = standing[u] \intersect Entries(rules')
                         /\ pc[u] # "verify" => standing'[u] = standing[u]
  BY DEF StillStanding
<1>6. standing' \in [Threads -> SUBSET Rules]
  <2>1. standing \in [Threads -> SUBSET Rules]
    BY DEF Inv, TypeOK
  <2> QED
    BY <2>1 DEF StillStanding
<1>7. \A n \in Nat : n <= Len(rules) => Ids(n)' = Ids(n)
  BY <1>1, <1>2 DEF Ids
<1>8. position \in [Threads -> Nat] /\ size \in [Threads -> Nat]
  BY DEF Inv, TypeOK
<1>9. WalkInv'
  <2> SUFFICES ASSUME NEW u \in Threads
               PROVE  /\ pc'[u] = "verify" =>
                           /\ position[u] <= size[u] /\ size[u] <= Len(rules')
                           /\ satisfied[u] \intersect violated[u] = {}
                           /\ satisfied[u] \union violated[u] = Ids(position[u])'
                           /\ hardViolation[u] => violated[u] # {}
                      /\ pc'[u] = "record" =>
                           /\ size[u] <= Len(rules')
                           /\ satisfied[u] \intersect violated[u] = {}
                           /\ satisfied[u] \union violated[u] = Ids(size[u])'
    BY DEF WalkInv, verdict, Ids
  <2>1. CASE pc[u] = "verify"
    <3>1. /\ position[u] <= size[u] /\ size[u] <= Len(rules)
          /\ satisfied[u] \intersect violated[u] = {}
          /\ satisfied[u] \union violated[u] = Ids(position[u])
          /\ hardViolation[u] => violated[u] # {}
      BY <2>1 DEF Inv, WalkInv
    <3>2. Ids(position[u])' = Ids(position[u])
      <4>1. position[u] \in Nat /\ position[u] <= Len(rules)
        BY <1>1, <1>8, <3>1
      <4>2. position'[u] = position[u]
        BY DEF verdict
      <4>3. {rules'[i].id : i \in 1 .. position[u]} = {rules[i].id : i \in 1 .. position[u]}
        BY <1>7, <4>1 DEF Ids
      <4> QED
        BY <4>2, <4>3 DEF Ids
    <3> QED
      BY <1>1, <1>2, <1>4, <1>8, <2>1, <3>1, <3>2
  <2>2. CASE pc[u] = "record"
    <3>1. /\ size[u] <= Len(rules)
          /\ satisfied[u] \intersect violated[u] = {}
          /\ satisfied[u] \union violated[u] = Ids(size[u])
      BY <2>2 DEF Inv, WalkInv
    <3>2. Ids(size[u])' = Ids(size[u])
      BY <1>1, <1>7, <1>8, <3>1 DEF verdict, Ids
    <3> QED
      BY <1>1, <1>2, <1>4, <1>8, <2>2, <3>1, <3>2
  <2> QED
    BY <1>4, <2>1, <2>2
<1>10. StandingInv'
  <2> SUFFICES ASSUME NEW u \in Threads
               PROVE  /\ pc'[u] = "verify" =>
                           /\ standing'[u] \subseteq Entries(rules')
                           /\ \A i \in 1 .. Len(rules') : rules'[i] \in standing'[u] =>
                                /\ i <= size[u]
                                /\ rules'[i].type = "hard"
                                /\ i <= position[u] /\ content[u] \in rules'[i].fails =>
                                     hardViolation[u]
                      /\ pc'[u] = "record" /\ result[u] = "VERIFIED" =>
                           \A r \in standing'[u] : content[u] \notin r.fails
    BY DEF StandingInv, verdict
  <2>1. ASSUME pc[u] = "verify", NEW i \in 1 .. Len(rules'), rules'[i] \in standing'[u]
        PROVE  i \in 1 .. Len(rules) /\ rules[i] = rules'[i] /\ rules[i] \in standing[u]
    <3>1. rules'[i] \in standing[u] /\ standing[u] \subseteq Entries(rules)
      BY <1>5, <2>1 DEF Inv, StandingInv
    <3>2. PICK j \in 1 .. Len(rules) : rules[j] = rules'[i]
      BY <1>1, <3>1 DEF Entries
    <3>3. rules'[j].id = rules'[i].id /\ j \in 1 .. Len(rules')
      BY <1>1, <1>2, <3>2
    <3>4. i = j
      BY <1>2, <3>3 DEF Keyed
    <3> QED
      BY <3>1, <3>2, <3>4
  <2>2. CASE pc[u] = "verify"
    BY <1>4, <1>5, <2>1, <2>2 DEF Inv, StandingInv
  <2>3. CASE pc[u] = "record"
    BY <1>4, <1>5, <2>3 DEF Inv, StandingInv
  <2> QED
    BY <1>4, <2>2, <2>3
<1>11. RetryInv'
  BY <1>3, <1>4 DEF Inv, RetryInv, verdict
<1> QED
  BY <1>2, <1>6, <1>9, <1>10, <1>11

(* The end of a run leaves the thread as it was at the beginning. *)
LEMMA ReturnInv ==
    ASSUME Inv, NEW t \in Threads, Return(t), UNCHANGED <<registry, moving>>,
           records' = records \/ (pc[t] = "record" /\ records' = Append(records, Record(t)))
    PROVE  Inv'
<1> USE DEF Inv
<1>1. TypeOK'
  <2>1. records' \in Seq(DecisionRecord)
    <3>1. ASSUME pc[t] = "record" PROVE Record(t) \in DecisionRecord
      <4>1. content[t] \in Contents /\ result[t] \in VerificationResult
        BY <3>1 DEF RetryInv, TypeOK
      <4>2. satisfied[t] \union violated[t] \in SUBSET RuleIds
        BY DEF TypeOK
      <4> QED
        BY <4>1, <4>2 DEF Record, DecisionRecord
    <3>2. records \in Seq(DecisionRecord)
      BY DEF TypeOK
    <3> QED
      BY <3>1, <3>2
  <2>2. hardViolation' \in [Threads -> BOOLEAN]
    <3>1. hardViolation' = [hardViolation EXCEPT ![t] = FALSE]
      BY DEF Return
    <3> QED
      BY <3>1 DEF TypeOK
  <2>3. result' \in [Threads -> VerificationResult]
    BY DEF TypeOK, Return, VerificationResult
  <2>4. attempt' \in [Threads -> 0 .. MaxRetries] /\ content' \in [Threads -> Contents \union {NoContent}]
    BY PipelineAssumption DEF PipelineAssumption, TypeOK, Return
  <2>5. /\ rules' \in Seq(Rules)
        /\ \A i, j \in DOMAIN rules' : rules'[i].id = rules'[j].id => i = j
        /\ pending' \subseteq {r \in Rules : r.type = "learned"}
        /\ moving' \in [Threads -> Rules \union {NoRule}]
    BY DEF TypeOK, registry
  <2>6. /\ pc' \in [Threads -> {"idle", "pop", "activate", "predict", "verify", "record"}]
        /\ position' \in [Threads -> Nat] /\ size' \in [Threads -> Nat]
        /\ satisfied' \in [Threads -> SUBSET RuleIds] /\ violated' \in [Threads -> SUBSET RuleIds]
        /\ standing' \in [Threads -> SUBSET Rules] /\ refutations' \in [Threads -> Nat]
    BY DEF TypeOK, Return, Goto
  <2> QED
    BY <2>1, <2>2, <2>3, <2>4, <2>5, <2>6 DEF TypeOK
<1>2. \A u \in Threads \ {t} :
          /\ pc'[u] = pc[u] /\ attempt'[u] = attempt[u] /\ content'[u] = content[u]
          /\ position'[u] = position[u] /\ size'[u] = size[u]
          /\ satisfied'[u] = satisfied[u] /\ violated'[u] = violated[u]
          /\ hardViolation'[u] = hardViolation[u] /\ result'[u] = result[u]
          /\ standing'[u] = standing[u] /\ refutations'[u] = refutations[u]
  BY DEF TypeOK, Return, Goto
<1>3. /\ pc'[t] = "idle" /\ attempt'[t] = 0 /\ refutations'[t] = 0
      /\ result'[t] = "UNDECIDABLE"
  BY DEF TypeOK, Return, Goto
<1>4. WalkInv'
  BY <1>2, <1>3 DEF WalkInv, registry, Ids
<1>5. StandingInv'
  BY <1>2, <1>3 DEF StandingInv, registry
<1>6. RetryInv' /\ MovingInv'
  BY <1>2, <1>3 DEF RetryInv, MovingInv
<1> QED
  BY <1>1, <1>4, <1>5, <1>6

LEMMA StepInv == Inv /\ [Next]_vars => Inv'
<1> SUFFICES ASSUME Inv, [Next]_vars PROVE Inv'
  OBVIOUS
<1> USE DEF Inv
<1>0. /\ rules \in Seq(Rules) /\ Len(rules) \in Nat
      /\ position \in [Threads -> Nat] /\ size \in [Threads -> Nat]
  BY DEF TypeOK
<1>1. ASSUME NEW t \in Threads, NEW rule \in Rules, RegisterRule(t, rule) PROVE Inv'
  <2>1. CASE rule.type = "learned"
    BY <1>1, <2>1 DEF RegisterRule, TypeOK, WalkInv, StandingInv, RetryInv, MovingInv, Ids,
                      verdict
  <2>2. CASE rule.type # "learned"
    <3>1. pc' = [pc EXCEPT ![t] = "idle"]
      BY <1>1 DEF RegisterRule, Idle, TypeOK
    <3>2. /\ rules' \in Seq(Rules) /\ Keyed(rules)'
          /\ standing' \in [Threads -> SUBSET Rules]
          /\ WalkInv' /\ StandingInv' /\ RetryInv'
      BY <1>1, <2>2, <3>1, StoreRule DEF RegisterRule, Idle
    <3>3. TypeOK' /\ MovingInv'
      BY <1>1, <2>2, <3>2 DEF RegisterRule, TypeOK, MovingInv, Keyed, verdict
    <3> QED
      BY <3>2, <3>3
  <2> QED
    BY <2>1, <2>2
<1>2. ASSUME NEW t \in Threads, NEW rule \in Rules, ActivateLearnedRule(t, rule) PROVE Inv'
  <2>1. TypeOK'
    BY <1>2 DEF ActivateLearnedRule, TypeOK, Goto, registry, verdict, history
  <2>2. WalkInv' /\ StandingInv' /\ RetryInv' /\ MovingInv'
    BY <1>2 DEF ActivateLearnedRule, Idle, Goto, registry, verdict, history, TypeOK,
                WalkInv, StandingInv, RetryInv, MovingInv, Ids
  <2> QED
    BY <2>1, <2>2
<1>3. ASSUME NEW t \in Threads, PopPending(t) PROVE Inv'
  <2>1. /\ pc[t] = "pop" /\ pending' \subseteq pending
        /\ UNCHANGED <<rules, records, attempt, content, verdict, result, history>>
    BY <1>3 DEF PopPending
  <2>2. PICK rule \in Rules \union {NoRule}, label \in {"idle", "activate"} :
            /\ moving' = [moving EXCEPT ![t] = rule] /\ pc' = [pc EXCEPT ![t] = label]
            /\ label = "activate" => rule \in Rules
    BY <1>3 DEF PopPending, Goto, TypeOK
  <2>3. /\ pc'[t] = label /\ moving'[t] = rule
        /\ \A u \in Threads \ {t} : pc'[u] = pc[u] /\ moving'[u] = moving[u]
    BY <2>2 DEF TypeOK
  <2>4. TypeOK'
    <3>1. /\ pc' \in [Threads -> {"idle", "pop", "activate", "predict", "verify", "record"}]
          /\ moving' \in [Threads -> Rules \union {NoRule}]
      BY <2>2 DEF TypeOK
    <3> QED
      BY <2>1, <3>1 DEF TypeOK, verdict, history
  <2>5. WalkInv' /\ StandingInv'
    BY <2>1, <2>3 DEF verdict, history, WalkInv, StandingInv, Ids
  <2>6. RetryInv' /\ MovingInv'
    BY <2>1, <2>2, <2>3 DEF verdict, history, RetryInv, MovingInv
  <2> QED
    BY <2>4, <2>5, <2>6
<1>4. ASSUME NEW t \in Threads, ActivatePopped(t) PROVE Inv'
  <2>1. moving[t] \in Rules
    BY <1>4 DEF ActivatePopped, MovingInv
  <2>2. /\ rules' \in Seq(Rules) /\ Keyed(rules)'
        /\ standing' \in [Threads -> SUBSET Rules]
        /\ WalkInv' /\ StandingInv' /\ RetryInv'
    BY <1>4, <2>1, StoreRule DEF ActivatePopped, Goto
  <2>3. TypeOK' /\ MovingInv'
    BY <1>4, <2>2 DEF ActivatePopped, TypeOK, MovingInv, Keyed, verdict, Goto
  <2> QED
    BY <2>2, <2>3
<1>5. ASSUME NEW t \in Threads, Run(t) PROVE Inv'
  <2>1. TypeOK'
    BY <1>5 DEF Run, TypeOK, Goto, registry, verdict, history
  <2>2. WalkInv' /\ StandingInv' /\ RetryInv' /\ MovingInv'
    BY <1>5 DEF Run, Idle, Goto, registry, verdict, history, TypeOK,
                WalkInv, StandingInv, RetryInv, MovingInv, Ids
  <2> QED
    BY <2>1, <2>2
<1>6. ASSUME NEW t \in Threads, Predict(t) PROVE Inv'
  <2>1. TypeOK'
    <3>1. hardViolation' \in [Threads -> BOOLEAN]
      <4>1. hardViolation' = [hardViolation EXCEPT ![t] = FALSE]
        BY <1>6 DEF Predict, BeginVerify
      <4> QED
        BY <4>1 DEF TypeOK
    <3>2. {r \in Entries(rules) : r.type = "hard"} \subseteq Rules
      BY <1>0 DEF Entries
    <3>3. /\ standing' \in [Threads -> SUBSET Rules]
          /\ content' \in [Threads -> Contents \union {NoContent}]
      BY <1>6, <3>2 DEF Predict, BeginVerify, TypeOK
    <3> QED
      BY <1>0, <1>6, <3>1, <3>3 DEF Predict, BeginVerify, TypeOK, Goto, registry
  <2>2. WalkInv'
    BY <1>0, <1>6 DEF Predict, BeginVerify, WalkInv, Goto, registry, TypeOK, Ids
  <2>3. StandingInv'
    BY <1>0, <1>6 DEF Predict, BeginVerify, StandingInv, Goto, registry, TypeOK, Entries
  <2>4. RetryInv' /\ MovingInv'
    BY <1>6 DEF Predict, BeginVerify, RetryInv, MovingInv, Goto, TypeOK
  <2> QED
    BY <2>1, <2>2, <2>3, <2>4
<1>7. ASSUME NEW t \in Threads, EvaluateRule(t) PROVE Inv'
  <2> DEFINE rule == rules[position[t] + 1]
             fails == content[t] \in rule.fails
  <2>1. /\ pc[t] = "verify" /\ position[t] + 1 <= size[t] /\ size[t] = Len(rules)
        /\ position[t] + 1 \in 1 .. Len(rules) /\ rule \in Rules
    BY <1>0, <1>7 DEF EvaluateRule, HardViolation, Grown
  <2>2. /\ violated' = [violated EXCEPT ![t] = IF fails THEN @ \union {rule.id} ELSE @]
        /\ satisfied' = [satisfied EXCEPT ![t] = IF fails THEN @ ELSE @ \union {rule.id}]
        /\ hardViolation' = [hardViolation EXCEPT ![t] = @ \/ (fails /\ rule.type = "hard")]
        /\ position' = [position EXCEPT ![t] = @ + 1]
        /\ UNCHANGED <<registry, records, pc, moving, attempt, content, size, result, history>>
    BY <1>7 DEF EvaluateRule, HardViolation
  <2>3. hardViolation' \in [Threads -> BOOLEAN]
    <3>1. hardViolation \in [Threads -> BOOLEAN]
      BY DEF TypeOK
    <3>2. (hardViolation[t] \/ (fails /\ rule.type = "hard")) \in BOOLEAN
      OBVIOUS
    <3> HIDE DEF rule, fails
    <3> QED
      BY <2>2, <3>1, <3>2
  <2>4. rule.id \in RuleIds
    BY <2>1 DEF RuleIds
  <2>5. violated' \in [Threads -> SUBSET RuleIds] /\ satisfied' \in [Threads -> SUBSET RuleIds]
    <3> HIDE DEF rule, fails
    <3> QED
      BY <2>2, <2>4 DEF TypeOK
  <2>6. TypeOK'
    BY <1>0, <2>2, <2>3, <2>5 DEF TypeOK, registry, history
  <2>7. rule.id \notin Ids(position[t])
    <3>1. position[t] \in Nat /\ Keyed(rules)
      BY <1>0 DEF TypeOK, Keyed
    <3>2. \A i \in 1 .. position[t] : i \in 1 .. Len(rules) /\ i # position[t] + 1
      BY <1>0, <2>1, <3>1
    <3>3. ASSUME NEW i \in 1 .. position[t] PROVE rules[i].id # rules[position[t] + 1].id
      BY <1>0, <2>1, <3>1, <3>2 DEF Keyed
    <3> QED
      BY <3>3 DEF Ids
  <2>8. Ids(position[t] + 1) = Ids(position[t]) \union {rule.id}
    <3>1. 1 .. position[t] + 1 = (1 .. position[t]) \union {position[t] + 1}
      BY <1>0
    <3> QED
      BY <3>1 DEF Ids
  <2>9. \A n : Ids(n)' = Ids(n)
    BY <2>2 DEF registry, Ids
  <2>10. /\ pc' = pc /\ content' = content /\ size' = size /\ standing' = standing /\ rules' = rules
         /\ position'[t] = position[t] + 1
         /\ \A u \in Threads \ {t} :
              /\ position'[u] = position[u] /\ satisfied'[u] = satisfied[u]
              /\ violated'[u] = violated[u] /\ hardViolation'[u] = hardViolation[u]
    <3> HIDE DEF rule, fails
    <3> QED
      BY <1>0, <2>2 DEF registry, history, TypeOK
  <2>11. /\ fails => /\ violated'[t] = violated[t] \union {rule.id}
                     /\ satisfied'[t] = satisfied[t]
         /\ ~fails => /\ violated'[t] = violated[t]
                      /\ satisfied'[t] = satisfied[t] \union {rule.id}
    <3> HIDE DEF rule, fails
    <3> QED
      BY <2>2 DEF TypeOK
  <2>12. hardViolation'[t] <=> hardViolation[t] \/ (fails /\ rule.type = "hard")
    <3>1. hardViolation \in [Threads -> BOOLEAN]
      BY DEF TypeOK
    <3> HIDE DEF rule, fails
    <3> QED
      BY <2>2, <3>1
  <2>13. WalkInv'
    <3> SUFFICES ASSUME NEW u \in Threads
                 PROVE  /\ pc[u] = "verify" =>
                             /\ position'[u] <= size[u] /\ size[u] <= Len(rules)
                             /\ satisfied'[u] \intersect violated'[u] = {}
                             /\ satisfied'[u] \union violated'[u] = Ids(position'[u])
                             /\ hardViolation'[u] => violated'[u] # {}
                        /\ pc[u] = "record" =>
                             /\ size[u] <= Len(rules)
                             /\ satisfied'[u] \intersect violated'[u] = {}
                             /\ satisfied'[u] \union violated'[u] = Ids(size[u])
      BY <2>10 DEF WalkInv, Ids
    <3>1. CASE u # t
      BY <2>10, <3>1 DEF WalkInv
    <3>2. CASE u = t
      <4>1. /\ satisfied[t] \intersect violated[t] = {}
            /\ satisfied[t] \union violated[t] = Ids(position[t])
            /\ hardViolation[t] => violated[t] # {}
        BY <2>1 DEF WalkInv
      <4> HIDE DEF rule, fails
      <4>2. /\ satisfied'[t] \intersect violated'[t] = {}
            /\ satisfied'[t] \union violated'[t] = Ids(position[t]) \union {rule.id}
            /\ hardViolation'[t] => violated'[t] # {}
        BY <2>7, <2>11, <2>12, <4>1
      <4> QED
        BY <1>0, <2>1, <2>8, <2>10, <3>2, <4>2
    <3> QED
      BY <3>1, <3>2
  <2>14. StandingInv'
    <3> SUFFICES ASSUME NEW u \in Threads
                 PROVE  /\ pc[u] = "verify" =>
                             /\ standing[u] \subseteq Entries(rules)
                             /\ \A i \in 1 .. Len(rules) : rules[i] \in standing[u] =>
                                  /\ i <= size[u]
                                  /\ rules[i].type = "hard"
                                  /\ i <= position'[u] /\ content[u] \in rules[i].fails =>
                                       hardViolation'[u]
                        /\ pc[u] = "record" /\ result[u] = "VERIFIED" =>
                             \A r \in standing[u] : content[u] \notin r.fails
      BY <2>2, <2>10 DEF StandingInv
    <3>1. CASE u # t
      BY <2>10, <3>1 DEF StandingInv
    <3>2. CASE u = t
      <4>1. /\ standing[t] \subseteq Entries(rules)
            /\ \A i \in 1 .. Len(rules) : rules[i] \in standing[t] =>
                 /\ i <= size[t]
                 /\ rules[i].type = "hard"
                 /\ i <= position[t] /\ content[t] \in rules[i].fails => hardViolation[t]
        BY <2>1 DEF StandingInv
      <4>2. \A i \in 1 .. Len(rules) : i <= position[t] + 1 => i <= position[t] \/ i = position[t] + 1
        BY <1>0
      <4>3. \A i \in 1 .. Len(rules) : rules[i] \in standing[t] =>
                (i <= position[t] + 1 /\ content[t] \in rules[i].fails => hardViolation'[t])
        BY <2>12, <4>1, <4>2
      <4> QED
        BY <2>1, <2>10, <3>2, <4>1, <4>3
    <3> QED
      BY <3>1, <3>2
  <2>15. RetryInv' /\ MovingInv'
    <3>1. \A u \in Threads : pc[u] = "record" => violated'[u] = violated[u]
      BY <2>1, <2>10
    <3> QED
      BY <2>2, <2>10, <3>1 DEF RetryInv, MovingInv, history
  <2> QED
    BY <2>6, <2>13, <2>14, <2>15
<1>8. ASSUME NEW t \in Threads, Verified(t) PROVE Inv'
  <2>1. TypeOK'
    BY <1>8 DEF Verified, TypeOK, Goto, registry, verdict, history, VerificationResult
  <2>2. position[t] = size[t] /\ ~hardViolation[t] /\ pc[t] = "verify" /\ size[t] = Len(rules)
    BY <1>8 DEF Verified, Grown
  <2>3. /\ pc' = [pc EXCEPT ![t] = "record"] /\ result' = [result EXCEPT ![t] = "VERIFIED"]
        /\ UNCHANGED <<registry, moving, attempt, content, verdict, history>>
    BY <1>8 DEF Verified, Goto
  <2>4. /\ pc'[t] = "record" /\ result'[t] = "VERIFIED"
        /\ \A u \in Threads \ {t} : pc'[u] = pc[u] /\ result'[u] = result[u]
    BY <2>3 DEF TypeOK
  <2>5. WalkInv'
    BY <2>2, <2>3, <2>4 DEF WalkInv, registry, verdict, Ids
  <2>6. \A r \in standing[t] : content[t] \notin r.fails
    <3> SUFFICES ASSUME NEW r \in standing[t] PROVE content[t] \notin r.fails
      OBVIOUS
    <3>1. PICK i \in 1 .. Len(rules) : rules[i] = r
      BY <1>0, <2>2 DEF StandingInv, Entries
    <3> QED
      BY <2>2, <3>1 DEF StandingInv
  <2>7. StandingInv'
    BY <2>3, <2>4, <2>6 DEF StandingInv, registry, verdict, history
  <2>8. RetryInv' /\ MovingInv'
    BY <2>2, <2>3, <2>4 DEF RetryInv, MovingInv, verdict, history
  <2> QED
    BY <2>1, <2>5, <2>7, <2>8
<1>9. ASSUME NEW t \in Threads, Refuted(t) PROVE Inv'
  <2>1. /\ position[t] = size[t] /\ hardViolation[t] /\ pc[t] = "verify" /\ size[t] = Len(rules)
        /\ refutations' = [refutations EXCEPT ![t] = @ + 1]
        /\ UNCHANGED <<registry, records, moving, content, verdict, result, standing>>
    BY <1>9 DEF Refuted, AsksAgain, Grown
  <2>2. refutations[t] = attempt[t] /\ result[t] = "UNDECIDABLE" /\ violated[t] # {}
    BY <2>1 DEF RetryInv, WalkInv
  <2>3. attempt \in [Threads -> 0 .. MaxRetries] /\ MaxRetries \in Nat
    BY PipelineAssumption DEF PipelineAssumption, TypeOK
  <2>4. \/ /\ attempt[t] < MaxRetries
           /\ attempt' = [attempt EXCEPT ![t] = @ + 1]
           /\ pc' = [pc EXCEPT ![t] = "predict"]
        \/ /\ attempt[t] = MaxRetries
           /\ pc' = [pc EXCEPT ![t] = "record"]
           /\ attempt' = attempt
    <3>1. attempt[t] \in 0 .. MaxRetries /\ MaxRetries \in Nat
      BY <2>3
    <3>2. ~AsksAgain(t) => attempt[t] = MaxRetries
      BY <3>1 DEF AsksAgain
    <3>3. AsksAgain(t) => attempt[t] < MaxRetries
      BY DEF AsksAgain
    <3> QED
      BY <1>9, <3>2, <3>3 DEF Refuted, Goto
  <2>5. \A u \in Threads \ {t} :
            pc'[u] = pc[u] /\ attempt'[u] = attempt[u] /\ refutations'[u] = refutations[u]
    BY <2>1, <2>4 DEF TypeOK
  <2>6. TypeOK'
    <3>1. attempt' \in [Threads -> 0 .. MaxRetries]
      BY <2>3, <2>4
    <3>2. pc' \in [Threads -> {"idle", "pop", "activate", "predict", "verify", "record"}]
      BY <2>4 DEF TypeOK
    <3>3. refutations' \in [Threads -> Nat]
      BY <2>1 DEF TypeOK
    <3> QED
      BY <2>1, <3>1, <3>2, <3>3 DEF TypeOK, registry, verdict
  <2>7. /\ pc'[t] \in {"predict", "record"}
        /\ refutations'[t] = refutations[t] + 1
        /\ pc'[t] = "predict" => attempt'[t] = attempt[t] + 1
        /\ pc'[t] = "record" => attempt[t] = MaxRetries
    BY <2>1, <2>3, <2>4 DEF TypeOK
  <2>8. WalkInv'
    BY <2>1, <2>5, <2>7 DEF WalkInv, registry, verdict, Ids
  <2>9. StandingInv'
    BY <2>1, <2>2, <2>5, <2>7 DEF StandingInv, registry, verdict
  <2>10. RetryInv'
    BY <2>1, <2>2, <2>3, <2>5, <2>7 DEF RetryInv, verdict
  <2>11. MovingInv'
    BY <2>1, <2>5, <2>7 DEF MovingInv
  <2> QED
    BY <2>6, <2>8, <2>9, <2>10, <2>11
<1>10. ASSUME NEW t \in Threads, RunRaises(t) PROVE Inv'
  BY <1>10, ReturnInv DEF RunRaises
<1>11. ASSUME NEW t \in Threads, StoreRecord(t) PROVE Inv'
  BY <1>11, ReturnInv DEF StoreRecord, StoreDecisionRecord
<1>12. ASSUME UNCHANGED vars PROVE Inv'
  <2>1. TypeOK'
    BY <1>12 DEF vars, registry, verdict, history, TypeOK
  <2>2. WalkInv' /\ StandingInv' /\ RetryInv' /\ MovingInv'
    BY <1>12 DEF vars, registry, verdict, history, WalkInv, StandingInv, RetryInv, MovingInv, Ids
  <2> QED
    BY <2>1, <2>2
<1> HIDE DEF Inv
<1> QED
  BY <1>1, <1>2, <1>3, <1>4, <1>5, <1>6, <1>7, <1>8, <1>9, <1>10, <1>11, <1>12
  DEF Next, Call, Continue

LEMMA AlwaysInv == Spec => []Inv
  BY InitInv, StepInv, PTL DEF Spec

-----------------------------------------------------------------------------
(* Every variable keeps to its type, and no two rules in force have one id. *)
THEOREM PipelineTypes == Spec => []TypeOK
<1>1. Inv => TypeOK
  BY DEF Inv
<1> QED
  BY <1>1, AlwaysInv, PTL

(* However rules are replaced and activated while verify walks over them, what is about to
   be recorded as VERIFIED breaks no hard rule that was in force all along. *)
THEOREM VerifiedObeysRules == Spec => []VerifiedObeysStandingRules
<1>1. Inv => VerifiedObeysStandingRules
  BY DEF Inv, StandingInv, VerifiedObeysStandingRules
<1> QED
  BY <1>1, AlwaysInv, PTL

(* The record names every rule that was in force when the last verification began, and
   each of them on one side only. *)
THEOREM RecordIsComplete == Spec => []RecordNamesEveryRule
<1>1. Inv => RecordNamesEveryRule
  BY DEF Inv, WalkInv, Ids, RecordNamesEveryRule
<1> QED
  BY <1>1, AlwaysInv, PTL

(* Whatever the number of retries, a run that gives up was refuted once more than that, and
   its record names a violated rule. *)
THEOREM GivesUpLast == Spec => []GivesUpAfterRetries
<1>1. Inv => GivesUpAfterRetries
  BY DEF Inv, RetryInv, GivesUpAfterRetries
<1> QED
  BY <1>1, AlwaysInv, PTL
=============================================================================
