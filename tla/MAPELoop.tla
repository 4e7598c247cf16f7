------------------------------- MODULE MAPELoop -------------------------------
(***************************************************************************)
(* Adaptation cycles and metric publications, called by several threads    *)
(* through ApexSystem: src/apex/mape/loop.py, executor.py and the log of   *)
(* monitor.py, with the audit records of src/apex/system.py.  A call is    *)
(* cut where it takes a lock, touches a shared list, or calls a hook that  *)
(* the host supplied and that may raise.                                   *)
(***************************************************************************)
EXTENDS Integers, Sequences, FiniteSets, Analyzer, Planner, Calibration

CONSTANTS
    Threads,        \* threads that publish metrics and run cycles
    Events,         \* the metric events they publish
    AlertLists,     \* the anomaly alerts a cycle is started with
    Metrics,        \* the (baseline, post) readings a cycle is started with
    None,           \* a reading that is not given
    HasCallback,    \* on_plan_generated is configured
    MaxEvents,      \* bound: so many events are published
    MaxCycles       \* bound: so many cycles are started

ASSUME LoopAssumption ==
    /\ None \notin Int
    /\ Events \subseteq MetricEvent
    /\ AlertLists \subseteq Seq(AnomalyAlert)
    /\ Metrics \subseteq [baseline : Int \union {None}, post : Int \union {None}]
    /\ HasCallback \in BOOLEAN
    /\ MaxEvents \in Nat /\ MaxCycles \in Nat

VARIABLES
    eventLog,       \* Monitor._event_log
    cycleCount,     \* MAPELoop._cycle_count
    lastReport,     \* MAPELoop._last_report
    executed,       \* Executor._executed
    adaptations,    \* KnowledgeBase._history
    ledger,         \* AuditLedger._entries
    pc,             \* where each thread is in its call
    call,           \* what its call was given and has read
    plans,          \* the plans of its cycle not yet gone through
    approval,       \* `approved' of the plan at hand
    result,         \* the ExecutionResult being stored
    \* history variables, read by properties only
    own,            \* the number its cycle was given
    made,           \* all plans of its cycle
    offered,        \* plans on_plan_generated was invoked with
    consented,      \* those it returned True for
    aborted         \* plans whose rollout hooks raised

shared == <<eventLog, cycleCount, lastReport, executed, adaptations, ledger>>
locals == <<pc, call, plans, approval, result>>
history == <<own, made, offered, consented, aborted>>
vars == <<shared, locals, history>>

NoCall == [kind |-> "none"]
NoResult == [plan |-> <<0, 0>>, status |-> "none"]
NoReport == [clusters |-> <<>>, severity |-> "informational", targets |-> {}]

Goto(t, label) == pc' = [pc EXCEPT ![t] = label]

Return(t) ==
    /\ Goto(t, "idle")
    /\ call' = [call EXCEPT ![t] = NoCall]
    /\ plans' = [plans EXCEPT ![t] = <<>>]
    /\ approval' = [approval EXCEPT ![t] = FALSE]
    /\ result' = [result EXCEPT ![t] = NoResult]
    /\ own' = [own EXCEPT ![t] = 0]
    /\ made' = [made EXCEPT ![t] = {}]

Init ==
    /\ eventLog = <<>>
    /\ cycleCount = 0
    /\ lastReport = NoReport
    /\ executed = <<>>
    /\ adaptations = <<>>
    /\ ledger = <<>>
    /\ pc = [t \in Threads |-> "idle"]
    /\ call = [t \in Threads |-> NoCall]
    /\ plans = [t \in Threads |-> <<>>]
    /\ approval = [t \in Threads |-> FALSE]
    /\ result = [t \in Threads |-> NoResult]
    /\ own = [t \in Threads |-> 0]
    /\ made = [t \in Threads |-> {}]
    /\ offered = {}
    /\ consented = {}
    /\ aborted = {}

-----------------------------------------------------------------------------
(* ApexSystem.publish_metric *)

Publish(t, e) ==
    /\ pc[t] = "idle"
    /\ Len(eventLog) < MaxEvents
    /\ eventLog' = Append(eventLog, e)
    /\ call' = [call EXCEPT ![t] = [kind |-> "publish", position |-> Len(eventLog) + 1]]
    /\ Goto(t, "notify")
    /\ UNCHANGED <<cycleCount, lastReport, executed, adaptations, ledger,
                   plans, approval, result, history>>

(* The bus calls the detectors one after the other; on_anomaly is the host's, and an
   exception leaves publish_metric before its audit record. *)
NotifySubscribers(t) ==
    /\ pc[t] = "notify"
    /\ \/ Goto(t, "auditMetric") /\ UNCHANGED <<call, plans, approval, result, own, made>>
       \/ Return(t)
    /\ UNCHANGED <<shared, offered, consented, aborted>>

AuditMetric(t) ==
    /\ pc[t] = "auditMetric"
    /\ ledger' = Append(ledger, [type |-> "metric_published", number |-> call[t].position,
                                 own |-> call[t].position, severity |-> "informational"])
    /\ Return(t)
    /\ UNCHANGED <<eventLog, cycleCount, lastReport, executed, adaptations, offered, consented, aborted>>

-----------------------------------------------------------------------------
(* ApexSystem.run_cycle *)

BeginCycle(t, alerts, metrics) ==
    /\ pc[t] = "idle"
    /\ cycleCount < MaxCycles
    /\ cycleCount' = cycleCount + 1
    /\ own' = [own EXCEPT ![t] = cycleCount + 1]
    /\ call' = [call EXCEPT ![t] = [kind |-> "cycle", alerts |-> alerts, metrics |-> metrics,
                                    events |-> <<>>, report |-> NoReport, number |-> 0,
                                    began |-> Len(eventLog)]]
    /\ Goto(t, "monitor")
    /\ UNCHANGED <<eventLog, lastReport, executed, adaptations, ledger,
                   plans, approval, result, made, offered, consented, aborted>>

(* A slice of the log that stops one event short. *)
ReadEventsButLast == SubSeq(eventLog, 1, Len(eventLog) - 1)

(* The whole log, whatever earlier cycles made of it. *)
ReadEvents == eventLog

GetEvents(t) ==
    /\ pc[t] = "monitor"
    /\ call' = [call EXCEPT ![t].events = ReadEvents]
    /\ Goto(t, "analyze")
    /\ UNCHANGED <<shared, plans, approval, result, history>>

(* A plan gets a fresh id (uuid4): here its cycle's number and its rank. *)
AnalyzeAndPlan(t) ==
    /\ pc[t] = "analyze"
    /\ LET report == Analyze(call[t].events, call[t].alerts)
           ranked == Plans(report.clusters)
           named == [k \in DOMAIN ranked |-> [id |-> <<own[t], k>>, plan |-> ranked[k]]]
       IN /\ call' = [call EXCEPT ![t].report = report]
          /\ lastReport' = report
          /\ plans' = [plans EXCEPT ![t] = named]
          /\ made' = [made EXCEPT ![t] = {named[k] : k \in DOMAIN named}]
    /\ Goto(t, "approve")
    /\ UNCHANGED <<eventLog, cycleCount, executed, adaptations, ledger,
                   approval, result, own, offered, consented, aborted>>

ThisPlan(t) == Head(plans[t]).plan
ThisId(t) == Head(plans[t]).id

(* A loop that takes the plan at hand again. *)
NextPlanAgain(t) ==
    /\ UNCHANGED plans
    /\ approval' = [approval EXCEPT ![t] = FALSE]
    /\ result' = [result EXCEPT ![t] = NoResult]
    /\ Goto(t, "approve")

(* A loop that settles approval once, for all plans of the cycle. *)
NextPlanUnasked(t) ==
    /\ plans' = [plans EXCEPT ![t] = Tail(@)]
    /\ result' = [result EXCEPT ![t] = NoResult]
    /\ Goto(t, "execute")
    /\ UNCHANGED approval

(* The plan at hand is done with: the loop turns to the next. *)
NextPlan(t) ==
    /\ plans' = [plans EXCEPT ![t] = Tail(@)]
    /\ approval' = [approval EXCEPT ![t] = FALSE]
    /\ result' = [result EXCEPT ![t] = NoResult]
    /\ Goto(t, "approve")

(* Without a need for approval, or without anybody to ask. *)
ApproveByDefault(t) ==
    /\ pc[t] = "approve"
    /\ plans[t] # <<>>
    /\ ~(ThisPlan(t).requiresApproval /\ HasCallback)
    /\ approval' = [approval EXCEPT ![t] = ~ThisPlan(t).requiresApproval]
    /\ Goto(t, "execute")
    /\ UNCHANGED <<shared, call, plans, result, history>>

(* A refusal that skips the plan. *)
RefusedSkipping(t) == NextPlan(t)

(* A refused plan goes to the executor as well, which is to block it. *)
Refused(t) ==
    /\ approval' = [approval EXCEPT ![t] = FALSE]
    /\ Goto(t, "execute")
    /\ UNCHANGED <<plans, result>>

(* on_plan_generated: an exception ends the cycle, with no further plan and no audit. *)
AskForApproval(t) ==
    /\ pc[t] = "approve"
    /\ plans[t] # <<>>
    /\ ThisPlan(t).requiresApproval /\ HasCallback
    /\ offered' = offered \union {ThisId(t)}
    /\ \/ /\ approval' = [approval EXCEPT ![t] = TRUE]
          /\ consented' = consented \union {ThisId(t)}
          /\ Goto(t, "execute")
          /\ UNCHANGED <<call, plans, result, own, made>>
       \/ Refused(t) /\ UNCHANGED <<call, own, made, consented>>
       \/ Return(t) /\ UNCHANGED consented
    /\ UNCHANGED <<shared, aborted>>

(* Executor._check_rollback: worse by more than rollback_delta, a tenth of the baseline. *)
Magnitude(x) == IF x < 0 THEN -x ELSE x

CheckRollback(m) ==
    /\ m.baseline # None /\ m.post # None
    /\ m.baseline # 0
    /\ 10 * (m.post - m.baseline) > Magnitude(m.baseline)

(* An executor that asks for approval only at the hard-blocked level. *)
BlockedAtL4Only(t) ==
    /\ ThisPlan(t).requiresApproval /\ ~approval[t]
    /\ ThresholdLevel(ThisPlan(t).risk) = "L4"

(* The safety gate of Executor.execute: the flag of the plan and its level. *)
Blocked(t) ==
    /\ ThisPlan(t).requiresApproval /\ ~approval[t]
    /\ ThresholdLevel(ThisPlan(t).risk) \in Gated

Finish(t, status) ==
    /\ result' = [result EXCEPT ![t] = [plan |-> ThisId(t), status |-> status]]
    /\ Goto(t, "store")
    /\ UNCHANGED <<shared, call, plans, approval, history>>

Block(t) ==
    /\ pc[t] = "execute"
    /\ Blocked(t)
    /\ Finish(t, "blocked")

(* The shadow and canary hooks of the host ran: the change is committed or rolled back. *)
Rollout(t) ==
    /\ pc[t] = "execute"
    /\ ~Blocked(t)
    /\ Finish(t, IF CheckRollback(call[t].metrics) THEN "rolled_back" ELSE "committed")

(* One of them raised: run_cycle swallows it and turns to the next plan. *)
RolloutRaises(t) ==
    /\ pc[t] = "execute"
    /\ ~Blocked(t)
    /\ aborted' = aborted \union {ThisId(t)}
    /\ NextPlan(t)
    /\ UNCHANGED <<shared, call, own, made, offered, consented>>

(* _store: the executor's list first, ... *)
StoreResult(t) ==
    /\ pc[t] = "store"
    /\ executed' = Append(executed, result[t])
    /\ Goto(t, "record")
    /\ UNCHANGED <<eventLog, cycleCount, lastReport, adaptations, ledger,
                   call, plans, approval, result, history>>

(* ... then the knowledge base, under its lock; then the loop goes on. *)
RecordAdaptation(t) ==
    /\ pc[t] = "record"
    /\ adaptations' = Append(adaptations, [plan |-> ThisPlan(t), result |-> result[t]])
    /\ NextPlan(t)
    /\ UNCHANGED <<eventLog, cycleCount, lastReport, executed, ledger, call, history>>

(* The payload of the audit record is built before the ledger is locked. *)
ReadCycleCount(t) ==
    /\ pc[t] = "approve"
    /\ plans[t] = <<>>
    /\ call' = [call EXCEPT ![t].number = cycleCount]
    /\ Goto(t, "auditCycle")
    /\ UNCHANGED <<shared, plans, approval, result, history>>

AuditCycle(t) ==
    /\ pc[t] = "auditCycle"
    /\ ledger' = Append(ledger, [type |-> "mape_cycle_complete", number |-> call[t].number,
                                 own |-> own[t], severity |-> call[t].report.severity])
    /\ Return(t)
    /\ UNCHANGED <<eventLog, cycleCount, lastReport, executed, adaptations, offered, consented, aborted>>

-----------------------------------------------------------------------------

Call(t) ==
    \/ \E e \in Events : Publish(t, e)
    \/ \E alerts \in AlertLists, m \in Metrics : BeginCycle(t, alerts, m)

Continue(t) ==
    \/ NotifySubscribers(t) \/ AuditMetric(t)
    \/ GetEvents(t) \/ AnalyzeAndPlan(t)
    \/ ApproveByDefault(t) \/ AskForApproval(t)
    \/ Block(t) \/ Rollout(t) \/ RolloutRaises(t)
    \/ StoreResult(t) \/ RecordAdaptation(t)
    \/ ReadCycleCount(t) \/ AuditCycle(t)

Next == \E t \in Threads : Call(t) \/ Continue(t)

Spec == Init /\ [][Next]_vars
-----------------------------------------------------------------------------
(* Properties *)

PlanId == (1 .. MaxCycles) \X (Nat \ {0})
NamedPlan == [id : PlanId, plan : Plan]
Result == [plan : PlanId, status : {"blocked", "committed", "rolled_back"}]

(* Every variable holds a value the code can store there; in particular a thread
   that executes or stores has a plan at hand and its own result for it. *)
TypeOK ==
    /\ Len(eventLog) <= MaxEvents /\ ToSet(eventLog) \subseteq Events
    /\ cycleCount \in 0 .. MaxCycles
    /\ lastReport.severity \in Severity /\ ToSet(lastReport.clusters) \subseteq Cluster
    /\ ToSet(executed) \subseteq Result
    /\ ToSet(adaptations) \subseteq [plan : Plan, result : Result]
    /\ \A t \in Threads :
         /\ ToSet(plans[t]) \subseteq NamedPlan
         /\ pc[t] \in {"execute", "store", "record"} => plans[t] # <<>>
         /\ pc[t] \in {"store", "record"} => result[t] \in Result /\ result[t].plan = ThisId(t)
    /\ approval \in [Threads -> BOOLEAN]
    /\ own \in [Threads -> 0 .. MaxCycles]

(* Executor._store writes two lists without a lock around both (lines 163-165).
   However cycles overlap, no outcome is stored twice or lost: the knowledge base has
   what the executor has, but for results a thread is carrying from one to the other. *)
StoresAgree ==
    LET known == {a.result : a \in ToSet(adaptations)}
    IN /\ Cardinality(known) = Len(adaptations)
       /\ known \subseteq ToSet(executed)
       /\ \A r \in ToSet(executed) \ known :
             \E t \in Threads : pc[t] = "record" /\ result[t] = r

(* Two gates in a row, the loop's approval and the executor's check, and a flag and a
   level computed apart: still no L3+ plan is enacted unless a human approved that very
   plan, and no approved one is blocked (loop.py lines 90-94, executor.py 96-104). *)
EnactedOnlyWithConsent ==
    \A a \in ToSet(adaptations) :
        ThresholdLevel(a.plan.risk) \in Gated =>
            (a.result.status # "blocked" <=> a.result.plan \in consented)

(* A cycle about to be audited has an outcome in the knowledge base for each plan it
   made, the refused ones too, unless a rollout hook raised for that plan: exceptions
   of one plan cost no other plan its record (loop.py lines 89-104). *)
CycleAccountsForPlans ==
    \A t \in Threads : pc[t] = "auditCycle" =>
        \A m \in made[t] : \/ m.id \in aborted
                          \/ \E a \in ToSet(adaptations) : a.result.plan = m.id

(* Whoever publishes meanwhile, a cycle's report names the cause of every breach that
   was in the log before the cycle began (loop.py line 79, analyzer.py 91-112). *)
NoBreachMissed ==
    \A t \in Threads : pc[t] \in {"approve", "execute", "store", "record", "auditCycle"} =>
        \A i \in 1 .. call[t].began :
            (\E rule \in ToSet(Rules) : Evaluate(rule, eventLog[i])) =>
                \E c \in ToSet(call[t].report.clusters) :
                    ~c.anomaly /\ <<c.source, c.metric>> = Cause(eventLog[i])

(* Built with the default weights, the planner asks nobody: no cluster an analysis can
   produce scores L3 or above, so the approval gate of the loop is never reached
   (risk_scorer.py lines 41-45 and 72-79 against planner.py 77-98). *)
DefaultPlansAreAutonomous ==
    \A t \in Threads : \A m \in made[t] :
        ThresholdLevel(RiskOf(DefaultWeights, m.plan.cluster)) \notin Gated

(* A review, at any time, advises to relax the boundary of a human-gated level only where
   so many plans of that level were enacted after a human's word: neither refused plans
   nor an outcome that is in the history twice make up the sample ("over N approved
   executions", calibration.py lines 167-180, against the gates of loop and executor). *)
RelaxRestsOnConsent ==
    \A r \in Review(adaptations).recommendations : r.kind = "relax" =>
        Cardinality({adaptations[i].result.plan : i \in Executions(adaptations, r.level)}
                        \intersect consented) >= MinSamples

(* What loop.py:37 says of on_plan_generated: "Optional callback invoked with each
   generated plan before execution".  Where there is a callback, what is enacted was
   shown to it first. *)
EnactedWasOffered ==
    HasCallback => \A r \in ToSet(executed) : r.plan \in offered
=============================================================================
