------------------------- MODULE VerificationPipeline -------------------------
(***************************************************************************)
(* The neuro-symbolic layer (src/apex/neuro_symbolic): threads run the     *)
(* verification pipeline while others register and activate rules.  There  *)
(* is no lock: verify iterates over the live dictionary of rules, and each *)
(* predicate it calls is the host's, so that any thread can come in        *)
(* between two rules.  A dictionary is a sequence of rules in the order in *)
(* which their ids were first stored.                                      *)
(***************************************************************************)
EXTENDS Integers, Sequences, FiniteSets, ApexTypes

CONSTANTS
    Threads,        \* threads that run the pipeline and manage rules
    Contents,       \* the contents of candidate decisions
    NoContent,      \* not a content: what a thread outside a run works on
    Rules,          \* the rules that may be registered
    NoRule,         \* not a rule: a thread is not activating one
    MaxRetries,     \* _max_retries
    MaxRecords      \* bound: so many runs begin with room for a record

ConstraintType == {"hard", "soft", "learned"}

(* A predicate is a function of the content; `fails' are the contents for which it
   returns False or raises, which verify treats alike. *)
SymbolicRule == [id : STRING, type : ConstraintType, fails : SUBSET Contents]

ASSUME PipelineAssumption ==
    /\ Rules \subseteq SymbolicRule
    /\ NoRule \notin Rules
    /\ NoContent \notin Contents
    /\ MaxRetries \in Nat
    /\ MaxRecords \in Nat

VARIABLES
    rules,          \* _rules
    pending,        \* _pending_learned
    records,        \* the decision records of the knowledge base
    pc,             \* where each thread is in its call
    moving,         \* the learned rule a thread is activating
    attempt,        \* attempt of its run
    content,        \* last_candidate.content
    position,       \* how many rules verify has been through
    size,           \* the size of the dictionary when verify began
    satisfied,      \* satisfied_rules
    violated,       \* violated_rules
    hardViolation,  \* hard_violation
    result,         \* the result the record will have
    \* history variables, read by properties only
    standing,       \* the hard rules that have been in force since verify began
    refutations     \* how many verdicts of the run were refutations

registry == <<rules, pending>>
verdict == <<position, size, satisfied, violated, hardViolation>>
history == <<standing, refutations>>
vars == <<registry, records, pc, moving, attempt, content, verdict, result, history>>

Entries(dict) == {dict[i] : i \in DOMAIN dict}
HasId(dict, id) == \E i \in DOMAIN dict : dict[i].id = id

(* dict[rule.rule_id] = rule: a known id keeps its place. *)
Assign(dict, rule) ==
    IF HasId(dict, rule.id)
    THEN [i \in DOMAIN dict |-> IF dict[i].id = rule.id THEN rule ELSE dict[i]]
    ELSE Append(dict, rule)

Goto(t, label) == pc' = [pc EXCEPT ![t] = label]
Idle(t) == pc[t] = "idle"

Init ==
    /\ rules = <<>>
    /\ pending = {}
    /\ records = <<>>
    /\ pc = [t \in Threads |-> "idle"]
    /\ moving = [t \in Threads |-> NoRule]
    /\ attempt = [t \in Threads |-> 0]
    /\ content = [t \in Threads |-> NoContent]
    /\ position = [t \in Threads |-> 0]
    /\ size = [t \in Threads |-> 0]
    /\ satisfied = [t \in Threads |-> {}]
    /\ violated = [t \in Threads |-> {}]
    /\ hardViolation = [t \in Threads |-> FALSE]
    /\ result = [t \in Threads |-> "UNDECIDABLE"]
    /\ standing = [t \in Threads |-> {}]
    /\ refutations = [t \in Threads |-> 0]

-----------------------------------------------------------------------------
(* Rule management *)

(* A verification under way can count on a hard rule as long as nobody replaces it. *)
StillStanding ==
    standing' = [t \in Threads |-> IF pc[t] = "verify"
                                   THEN standing[t] \intersect Entries(rules')
                                   ELSE standing[t]]

(* register_rule: learned rules wait for their activation. *)
RegisterRule(t, rule) ==
    /\ Idle(t)
    /\ \/ /\ rule.type = "learned"
          /\ pending' = {r \in pending : r.id # rule.id} \union {rule}
          /\ UNCHANGED <<rules, standing>>
       \/ /\ rule.type # "learned"
          /\ rules' = Assign(rules, rule)
          /\ StillStanding
          /\ UNCHANGED pending
    /\ UNCHANGED <<records, pc, moving, attempt, content, verdict, result, refutations>>

(* activate_learned_rule: the id is looked up, ... *)
ActivateLearnedRule(t, rule) ==
    /\ Idle(t)
    /\ rule \in pending
    /\ moving' = [moving EXCEPT ![t] = rule]
    /\ Goto(t, "pop")
    /\ UNCHANGED <<registry, records, attempt, content, verdict, result, history>>

(* ... taken out of the pending rules, where another thread may have replaced it or
   been faster, which is a KeyError, ... *)
PopPending(t) ==
    /\ pc[t] = "pop"
    /\ \/ \E rule \in pending :
            /\ rule.id = moving[t].id
            /\ pending' = pending \ {rule}
            /\ moving' = [moving EXCEPT ![t] = rule]
            /\ Goto(t, "activate")
       \/ /\ \A rule \in pending : rule.id # moving[t].id
          /\ moving' = [moving EXCEPT ![t] = NoRule]
          /\ Goto(t, "idle")
          /\ UNCHANGED pending
    /\ UNCHANGED <<rules, records, attempt, content, verdict, result, history>>

(* ... and put in force under its id, whatever rule had it. *)
ActivatePopped(t) ==
    /\ pc[t] = "activate"
    /\ rules' = Assign(rules, moving[t])
    /\ StillStanding
    /\ moving' = [moving EXCEPT ![t] = NoRule]
    /\ Goto(t, "idle")
    /\ UNCHANGED <<pending, records, attempt, content, verdict, result, refutations>>

-----------------------------------------------------------------------------
(* VerificationPipeline.run *)

(* The run is over: its locals are gone. *)
Return(t) ==
    /\ Goto(t, "idle")
    /\ attempt' = [attempt EXCEPT ![t] = 0]
    /\ content' = [content EXCEPT ![t] = NoContent]
    /\ position' = [position EXCEPT ![t] = 0]
    /\ size' = [size EXCEPT ![t] = 0]
    /\ satisfied' = [satisfied EXCEPT ![t] = {}]
    /\ violated' = [violated EXCEPT ![t] = {}]
    /\ hardViolation' = [hardViolation EXCEPT ![t] = FALSE]
    /\ result' = [result EXCEPT ![t] = "UNDECIDABLE"]
    /\ standing' = [standing EXCEPT ![t] = {}]
    /\ refutations' = [refutations EXCEPT ![t] = 0]

Run(t) ==
    /\ Idle(t)
    /\ Len(records) < MaxRecords
    /\ Goto(t, "predict")
    /\ UNCHANGED <<registry, records, moving, attempt, content, verdict, result, history>>

(* A verdict whose lists go on from the last attempt. *)
BeginVerifyKeepingLists(t) ==
    /\ position' = [position EXCEPT ![t] = 0]
    /\ size' = [size EXCEPT ![t] = Len(rules)]
    /\ hardViolation' = [hardViolation EXCEPT ![t] = FALSE]
    /\ standing' = [standing EXCEPT ![t] = {r \in Entries(rules) : r.type = "hard"}]
    /\ UNCHANGED <<satisfied, violated>>

(* verify starts with empty lists and an iterator over the dictionary. *)
BeginVerify(t) ==
    /\ position' = [position EXCEPT ![t] = 0]
    /\ size' = [size EXCEPT ![t] = Len(rules)]
    /\ satisfied' = [satisfied EXCEPT ![t] = {}]
    /\ violated' = [violated EXCEPT ![t] = {}]
    /\ hardViolation' = [hardViolation EXCEPT ![t] = FALSE]
    /\ standing' = [standing EXCEPT ![t] = {r \in Entries(rules) : r.type = "hard"}]

(* The model answers, with or without a counterexample in its prompt. *)
Predict(t) ==
    /\ pc[t] = "predict"
    /\ \E c \in Contents : content' = [content EXCEPT ![t] = c]
    /\ BeginVerify(t)
    /\ Goto(t, "verify")
    /\ UNCHANGED <<registry, records, moving, attempt, result, refutations>>

(* Python notices that a dictionary has grown when it is asked for the next rule. *)
Grown(t) == Len(rules) # size[t]

(* A violation that the next rule forgets. *)
HardViolationForgotten(t, rule) == content[t] \in rule.fails /\ rule.type = "hard"

HardViolation(t, rule) == hardViolation[t] \/ (content[t] \in rule.fails /\ rule.type = "hard")

EvaluateRule(t) ==
    /\ pc[t] = "verify"
    /\ ~Grown(t) /\ position[t] < size[t]
    /\ LET rule == rules[position[t] + 1]
           fails == content[t] \in rule.fails
       IN /\ violated' = [violated EXCEPT ![t] = IF fails THEN @ \union {rule.id} ELSE @]
          /\ satisfied' = [satisfied EXCEPT ![t] = IF fails THEN @ ELSE @ \union {rule.id}]
          /\ hardViolation' = [hardViolation EXCEPT ![t] = HardViolation(t, rule)]
    /\ position' = [position EXCEPT ![t] = @ + 1]
    /\ UNCHANGED <<registry, records, pc, moving, attempt, content, size, result, history>>

(* verify returns VERIFIED. *)
Verified(t) ==
    /\ pc[t] = "verify"
    /\ ~Grown(t) /\ position[t] = size[t]
    /\ ~hardViolation[t]
    /\ result' = [result EXCEPT ![t] = "VERIFIED"]
    /\ Goto(t, "record")
    /\ UNCHANGED <<registry, records, moving, attempt, content, verdict, history>>

(* A loop of max_retries rounds in place of one more. *)
AsksAgainOnceLess(t) == attempt[t] + 1 < MaxRetries

(* A loop of one round more than its range. *)
AsksAgainOnceMore(t) == attempt[t] <= MaxRetries

AsksAgain(t) == attempt[t] < MaxRetries

(* verify returns REFUTED: the model is asked again, or the run gives up. *)
Refuted(t) ==
    /\ pc[t] = "verify"
    /\ ~Grown(t) /\ position[t] = size[t]
    /\ hardViolation[t]
    /\ refutations' = [refutations EXCEPT ![t] = @ + 1]
    /\ \/ /\ AsksAgain(t)
          /\ attempt' = [attempt EXCEPT ![t] = @ + 1]
          /\ Goto(t, "predict")
       \/ /\ ~AsksAgain(t)
          /\ Goto(t, "record")
          /\ UNCHANGED attempt
    /\ UNCHANGED <<registry, records, moving, content, verdict, result, standing>>

(* run ends with an exception and no record: the model raised, the dictionary grew under
   the loop, or the record does not validate (a confidence outside 0..1). *)
RunRaises(t) ==
    /\ \/ pc[t] = "predict"
       \/ pc[t] = "verify" /\ Grown(t)
       \/ pc[t] = "record"
    /\ Return(t)
    /\ UNCHANGED <<registry, records, moving>>

Record(t) == [content |-> content[t], result |-> result[t],
              evaluated |-> satisfied[t] \union violated[t]]

(* KnowledgeBase.store_decision_record, under its lock. *)
StoreDecisionRecord(record) == records' = Append(records, record)

StoreRecord(t) ==
    /\ pc[t] = "record"
    /\ StoreDecisionRecord(Record(t))
    /\ Return(t)
    /\ UNCHANGED <<registry, moving>>

Call(t) ==
    \/ Run(t)
    \/ \E rule \in Rules : RegisterRule(t, rule) \/ ActivateLearnedRule(t, rule)

Continue(t) ==
    \/ PopPending(t) \/ ActivatePopped(t)
    \/ Predict(t) \/ EvaluateRule(t) \/ Verified(t) \/ Refuted(t)
    \/ RunRaises(t) \/ StoreRecord(t)

Next == \E t \in Threads : Call(t) \/ Continue(t)

Spec == Init /\ [][Next]_vars
-----------------------------------------------------------------------------
(* Properties *)

RuleIds == {r.id : r \in Rules}

DecisionRecord ==
    [content : Contents, result : VerificationResult, evaluated : SUBSET RuleIds]

(* Every variable holds a value the code can store there; ids are keys. *)
TypeOK ==
    /\ rules \in Seq(Rules)
    /\ \A i, j \in DOMAIN rules : rules[i].id = rules[j].id => i = j
    /\ pending \subseteq {r \in Rules : r.type = "learned"}
    /\ records \in Seq(DecisionRecord)
    /\ pc \in [Threads -> {"idle", "pop", "activate", "predict", "verify", "record"}]
    /\ moving \in [Threads -> Rules \union {NoRule}]
    /\ attempt \in [Threads -> 0 .. MaxRetries]
    /\ content \in [Threads -> Contents \union {NoContent}]
    /\ position \in [Threads -> Nat]
    /\ size \in [Threads -> Nat]
    /\ satisfied \in [Threads -> SUBSET RuleIds]
    /\ violated \in [Threads -> SUBSET RuleIds]
    /\ hardViolation \in [Threads -> BOOLEAN]
    /\ result \in [Threads -> VerificationResult]
    /\ standing \in [Threads -> SUBSET Rules]
    /\ refutations \in [Threads -> Nat]

(* Rules are replaced and activated while verify walks over them.  Still a content that
   is about to be recorded as VERIFIED breaks no hard rule that was in force from the
   beginning of its verification to the end (symbolic.py lines 85-101). *)
VerifiedObeysStandingRules ==
    \A t \in Threads :
        pc[t] = "record" /\ result[t] = "VERIFIED" =>
            \A r \in standing[t] : content[t] \notin r.fails

(* The rules a record is about to name are those of the last answer's verification: each
   id that was in force when it began, once, satisfied or violated, whatever was replaced
   meanwhile and whatever an earlier answer did (verifier.py lines 82, 103-107). *)
RecordNamesEveryRule ==
    \A t \in Threads : pc[t] = "record" =>
        /\ satisfied[t] \intersect violated[t] = {}
        /\ satisfied[t] \union violated[t] = {rules[i].id : i \in 1 .. size[t]}

(* A run gives up only when the first answer and every regeneration were refuted, and its
   record then names a violated rule of the last of them (verifier.py lines 57-115). *)
GivesUpAfterRetries ==
    \A t \in Threads :
        pc[t] = "record" /\ result[t] # "VERIFIED" =>
            refutations[t] = MaxRetries + 1 /\ violated[t] # {}
=============================================================================
