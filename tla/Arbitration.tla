----------------------------- MODULE Arbitration -----------------------------
(***************************************************************************)
(* The policies of the decision orchestrator and the arbitration of their  *)
(* conflicts (src/apex/orchestration/orchestrator.py).  A conflict that no *)
(* hard constraint settles is settled by two weights, which are read from  *)
(* the world model of the knowledge base one after the other; others write *)
(* there at any time.  Weights are in tenths.  The conflicts of one call   *)
(* are resolved in any order: the order of the list is one of them.        *)
(***************************************************************************)
EXTENDS Integers, Sequences

CONSTANTS
    Arbiters,       \* threads that detect conflicts and arbitrate them
    Policies,       \* the policies that are registered
    Weights         \* the weights that are written

PolicyIds == {p.id : p \in Policies}
Priorities == {p.priority : p \in Policies}
Policy == [id : PolicyIds, priority : Priorities, hard : BOOLEAN]
DefaultWeight == 5

ASSUME ArbitrationAssumption == Policies \subseteq Policy /\ Weights \subseteq Int

VARIABLES
    policies,       \* _policies, in the order of the dictionary
    weight,         \* "policy_weight:<id>" in the world model, or the default
    apc,            \* where each arbiter is
    conflicts,      \* what it has still to resolve
    conflict,       \* the one it weighed last, as a set: {} before the first
    weightA,        \* weight_a
    resolved,       \* what it has resolved, with the outcome
    \* history variables, read by properties only
    detected,       \* the policies when it detected conflicts
    held,           \* how the two weights compared since it read the first
    written,        \* the policies whose weight was written since
    outcome         \* how it compared them

arbiterVars == <<apc, conflicts, conflict, weightA, resolved, detected, held, written, outcome>>
arbitrationVars == <<policies, weight, arbiterVars>>

Compare(x, y) == IF x > y THEN "a" ELSE IF x < y THEN "b" ELSE "tie"

ArbiterGoto(t, label) == apc' = [apc EXCEPT ![t] = label]

ArbitrationInit ==
    /\ policies = <<>>
    /\ weight = [id \in PolicyIds |-> DefaultWeight]
    /\ apc = [t \in Arbiters |-> "idle"]
    /\ conflicts = [t \in Arbiters |-> {}]
    /\ conflict = [t \in Arbiters |-> {}]
    /\ weightA = [t \in Arbiters |-> DefaultWeight]
    /\ resolved = [t \in Arbiters |-> {}]
    /\ detected = [t \in Arbiters |-> <<>>]
    /\ held = [t \in Arbiters |-> {}]
    /\ written = [t \in Arbiters |-> {}]
    /\ outcome = [t \in Arbiters |-> "none"]

(* A registry that keeps the policy that had the id. *)
RegisteredAsNew(p) == Append(policies, p)

(* A policy takes the place of the one that has its id. *)
Registered(p) ==
    IF \E i \in 1 .. Len(policies) : policies[i].id = p.id
    THEN [i \in 1 .. Len(policies) |-> IF policies[i].id = p.id THEN p ELSE policies[i]]
    ELSE Append(policies, p)

RegisterPolicy(p) ==
    /\ policies' = Registered(p)
    /\ UNCHANGED <<weight, arbiterVars>>

Weighing(t) == IF apc[t] = "weighing" THEN conflict[t] ELSE {}

(* KnowledgeBase.set_world_context, by anybody. *)
SetWorldContext(id, w) ==
    /\ weight' = [weight EXCEPT ![id] = w]
    /\ held' = [t \in Arbiters |->
                  held[t] \union {Compare(weight'[c.a.id], weight'[c.b.id]) : c \in Weighing(t)}]
    /\ written' = [t \in Arbiters |->
                     IF Weighing(t) = {} THEN written[t] ELSE written[t] \union {id}]
    /\ UNCHANGED <<policies, apc, conflicts, conflict, weightA, resolved, detected, outcome>>

(* Every two policies of equal priority, the earlier one first. *)
ConflictsOf(list) ==
    {[a |-> list[ij[1]], b |-> list[ij[2]]] :
        ij \in {k \in (1 .. Len(list)) \X (1 .. Len(list)) :
                  k[1] < k[2] /\ list[k[1]].priority = list[k[2]].priority}}

DetectConflicts(t) ==
    /\ apc[t] = "idle"
    /\ conflicts' = [conflicts EXCEPT ![t] = ConflictsOf(policies)]
    /\ detected' = [detected EXCEPT ![t] = policies]
    /\ ArbiterGoto(t, "arbitrating")
    /\ UNCHANGED <<policies, weight, conflict, weightA, resolved, held, written, outcome>>

Resolve(t, c, how) ==
    /\ conflicts' = [conflicts EXCEPT ![t] = @ \ {c}]
    /\ resolved' = [resolved EXCEPT ![t] = @ \union {[of |-> c, how |-> how]}]
    /\ ArbiterGoto(t, "arbitrating")

(* The list is empty. *)
Answered(t) == apc[t] = "arbitrating" /\ conflicts[t] = {}

(* Of two hard constraints the second dominates. *)
ArbitrateHardSecond(t, c) ==
    /\ apc[t] = "arbitrating"
    /\ c.a.hard \/ c.b.hard
    /\ Resolve(t, c, IF c.b.hard THEN "b" ELSE "a")
    /\ UNCHANGED <<policies, weight, conflict, weightA, detected, held, written, outcome>>

(* Rule 1: a hard constraint dominates; of two, the first. *)
ArbitrateHard(t, c) ==
    /\ apc[t] = "arbitrating"
    /\ c.a.hard \/ c.b.hard
    /\ Resolve(t, c, IF c.a.hard THEN "a" ELSE "b")
    /\ UNCHANGED <<policies, weight, conflict, weightA, detected, held, written, outcome>>

(* Rule 2: the weights. *)
ReadWeightA(t, c) ==
    /\ apc[t] = "arbitrating"
    /\ ~c.a.hard /\ ~c.b.hard
    /\ conflict' = [conflict EXCEPT ![t] = {c}]
    /\ weightA' = [weightA EXCEPT ![t] = weight[c.a.id]]
    /\ held' = [held EXCEPT ![t] = {Compare(weight[c.a.id], weight[c.b.id])}]
    /\ written' = [written EXCEPT ![t] = {}]
    /\ outcome' = [outcome EXCEPT ![t] = "none"]
    /\ ArbiterGoto(t, "weighing")
    /\ UNCHANGED <<policies, weight, conflicts, resolved, detected>>

(* The lower weight wins. *)
WeighedBackwards(t, c) == Compare(weight[c.b.id], weightA[t])

Weighed(t, c) == Compare(weightA[t], weight[c.b.id])

ReadWeightB(t, c) ==
    /\ apc[t] = "weighing"
    /\ c \in conflict[t]
    /\ outcome' = [outcome EXCEPT ![t] = Weighed(t, c)]
    /\ \/ Weighed(t, c) # "tie" /\ Resolve(t, c, Weighed(t, c))
       \/ /\ Weighed(t, c) = "tie"
          /\ ArbiterGoto(t, "escalating")
          /\ UNCHANGED <<conflicts, resolved>>
    /\ UNCHANGED <<policies, weight, conflict, weightA, detected, held, written>>

(* Rule 4: on_escalation, which may raise; then what arbitrate has resolved is lost. *)
Escalate(t, c) ==
    /\ apc[t] = "escalating"
    /\ c \in conflict[t]
    /\ Resolve(t, c, "escalated")
    /\ UNCHANGED <<policies, weight, conflict, weightA, detected, held, written, outcome>>

(* The call is over: its locals are gone. *)
Leave(t) ==
    /\ conflicts' = [conflicts EXCEPT ![t] = {}]
    /\ conflict' = [conflict EXCEPT ![t] = {}]
    /\ weightA' = [weightA EXCEPT ![t] = DefaultWeight]
    /\ resolved' = [resolved EXCEPT ![t] = {}]
    /\ detected' = [detected EXCEPT ![t] = <<>>]
    /\ held' = [held EXCEPT ![t] = {}]
    /\ written' = [written EXCEPT ![t] = {}]
    /\ outcome' = [outcome EXCEPT ![t] = "none"]
    /\ ArbiterGoto(t, "idle")
    /\ UNCHANGED <<policies, weight>>

EscalationRaises(t) == apc[t] = "escalating" /\ Leave(t)

ReturnResolved(t) == Answered(t) /\ Leave(t)

ArbiterStep(t) ==
    \/ DetectConflicts(t)
    \/ \E c \in conflicts[t] :
         ArbitrateHard(t, c) \/ ReadWeightA(t, c) \/ ReadWeightB(t, c) \/ Escalate(t, c)
    \/ EscalationRaises(t) \/ ReturnResolved(t)

ArbitrationNext ==
    \/ \E p \in Policies : RegisterPolicy(p)
    \/ \E id \in PolicyIds, w \in Weights : SetWorldContext(id, w)
    \/ \E t \in Arbiters : ArbiterStep(t)

ArbitrationSpec == ArbitrationInit /\ [][ArbitrationNext]_arbitrationVars
-----------------------------------------------------------------------------
(* Properties *)

Conflict == [a : Policy, b : Policy]
Resolution == [of : Conflict, how : {"a", "b", "escalated"}]

(* Every variable holds a value the code can store there; no id is registered twice. *)
ArbitrationTypeOK ==
    /\ policies \in Seq(Policies)
    /\ \A i, j \in 1 .. Len(policies) : policies[i].id = policies[j].id => i = j
    /\ weight \in [PolicyIds -> Weights \union {DefaultWeight}]
    /\ apc \in [Arbiters -> {"idle", "arbitrating", "weighing", "escalating"}]
    /\ conflicts \in [Arbiters -> SUBSET Conflict]
    /\ conflict \in [Arbiters -> SUBSET Conflict]
    /\ weightA \in [Arbiters -> Weights \union {DefaultWeight}]
    /\ resolved \in [Arbiters -> SUBSET Resolution]
    /\ detected \in [Arbiters -> Seq(Policies)]
    /\ held \in [Arbiters -> SUBSET {"a", "b", "tie"}]
    /\ written \in [Arbiters -> SUBSET PolicyIds]
    /\ outcome \in [Arbiters -> {"none", "a", "b", "tie"}]

(* Whatever is registered meanwhile, a call that returns has answered every two policies
   that had one priority when it looked, none twice and nothing else (lines 90-97).  As
   they were then, a hard constraint never loses to a soft one, of two the one earlier in
   the dictionary wins, and none is ever escalated (lines 104-111). *)
EveryConflictAnswered ==
    \A t \in Arbiters : Answered(t) =>
        /\ \A i, j \in 1 .. Len(detected[t]) :
             i < j /\ detected[t][i].priority = detected[t][j].priority =>
                 \E r \in resolved[t] : r.of = [a |-> detected[t][i], b |-> detected[t][j]]
        /\ \A r \in resolved[t] :
             /\ r.of.a.id # r.of.b.id /\ r.of.a.priority = r.of.b.priority
             /\ \A s \in resolved[t] : s.of = r.of => s = r
             /\ r.of.a.hard => r.how = "a"
             /\ r.of.b.hard /\ ~r.of.a.hard => r.how = "b"

(* The two weights are read one after the other, and others write them meanwhile: still
   the outcome is how the weights compared at some time in between, unless both of them
   were written then (lines 115-122). *)
ComparedAsHeld ==
    \A t \in Arbiters : \A c \in conflict[t] :
        outcome[t] # "none" /\ ~({c.a.id, c.b.id} \subseteq written[t]) => outcome[t] \in held[t]
=============================================================================
