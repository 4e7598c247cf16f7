---------------------------- MODULE MAPELoopProofs ----------------------------
(***************************************************************************)
(* Proofs about the MAPE loop: what overlapping cycles leave in the two    *)
(* stores, and what each of them has seen, reported and planned.           *)
(***************************************************************************)
EXTENDS MAPELoop, AnalysisProofs

LEMMA CycleAnalysis ==
    ASSUME NEW events \in Seq(Events), NEW alerts \in AlertLists
    PROVE  /\ events \in Seq(MetricEvent) /\ alerts \in Seq(AnomalyAlert)
           /\ Analyze(events, alerts) \in Report
           /\ Analyze(events, alerts).clusters \in Seq(Cluster)
<1>1. events \in Seq(MetricEvent) /\ alerts \in Seq(AnomalyAlert)
  BY LoopAssumption, SeqMonotonic
<1>2. Analyze(events, alerts) \in Report
  BY <1>1, ReportsAreComplete
<1> QED
  BY <1>1, <1>2 DEF Report

(* A plan's flag says what its level says. *)
FlagIsLevel(plan) == plan.requiresApproval = (ThresholdLevel(plan.risk) \in Gated)

Named(number, ranked) == [k \in DOMAIN ranked |-> [id |-> <<number, k>>, plan |-> ranked[k]]]

LEMMA NamedPlans ==
    ASSUME NEW events \in Seq(Events), NEW alerts \in AlertLists, NEW number
    PROVE  LET named == Named(number, Plans(Analyze(events, alerts).clusters))
           IN /\ named \in Seq(ToSet(named))
              /\ \A m \in ToSet(named) : m.id[1] = number /\ FlagIsLevel(m.plan)
              /\ \A i, j \in 1 .. Len(named) : named[i].id = named[j].id => i = j
              /\ number \in 1 .. MaxCycles => ToSet(named) \subseteq NamedPlan
<1> DEFINE clusters == Analyze(events, alerts).clusters
           ranked == Plans(clusters)
           named == Named(number, ranked)
<1>1. clusters \in Seq(Cluster)
  BY CycleAnalysis
<1> HIDE DEF clusters
<1>2. PICK n \in Nat : n = Len(clusters) /\ DOMAIN clusters = 1 .. n
  BY <1>1, ClustersHavePlans
<1>3. ranked \in Seq(Plan) /\ Len(ranked) = n
  BY <1>1, <1>2, PlansAreRanked
<1>4. \A k \in 1 .. n : \E i \in 1 .. n : ranked[k] = PlanFor(clusters[i])
  <2>1. PICK order : RankedBy(order, clusters)
    BY <1>1, PlansAreRanked
  <2>2. order \in [1 .. n -> 1 .. n]
    BY <1>2, <2>1 DEF RankedBy, Bijection, Surjection
  <2>3. \A k \in 1 .. n : ranked[k] = PlanFor(clusters[order[k]])
    BY <1>2, <2>1 DEF RankedBy
  <2> QED
    BY <2>2, <2>3
<1> HIDE DEF ranked
<1>5. DOMAIN ranked = 1 .. n /\ \A k \in 1 .. n : ranked[k] \in Plan
  BY <1>3, LenProperties, ElementOfSeq
<1>6. \A k \in 1 .. n : FlagIsLevel(ranked[k])
  BY <1>1, <1>2, <1>4, ClustersHavePlans, PlanIsTyped DEF FlagIsLevel
<1>7. /\ DOMAIN named = 1 .. n
      /\ named = [k \in 1 .. n |-> named[k]]
      /\ \A k \in 1 .. n : named[k] = [id |-> <<number, k>>, plan |-> ranked[k]]
  BY <1>5 DEF Named
<1> HIDE DEF named
<1>8. IsSeq(named) /\ Len(named) = n
  BY <1>7, FunctionIsSeq
<1>9. \A m \in ToSet(named) : m.id[1] = number /\ FlagIsLevel(m.plan)
  BY <1>6, <1>7 DEF ToSet
<1>10. \A i, j \in 1 .. n : named[i].id = named[j].id => i = j
  BY <1>7
<1>11. ASSUME number \in 1 .. MaxCycles, NEW k \in 1 .. n PROVE named[k] \in NamedPlan
  <2>1. <<number, k>> \in PlanId
    BY <1>11 DEF PlanId
  <2>2. named[k] = [id |-> <<number, k>>, plan |-> ranked[k]] /\ ranked[k] \in Plan
    BY <1>5, <1>7
  <2> QED
    BY <2>1, <2>2 DEF NamedPlan
<1>12. number \in 1 .. MaxCycles => ToSet(named) \subseteq NamedPlan
  BY <1>7, <1>11 DEF ToSet
<1> QED
  BY <1>8, <1>9, <1>10, <1>12 DEF IsSeq, named, ranked, clusters
-----------------------------------------------------------------------------
(* The inductive invariant: whose plans are whose, and how far each has come.  The id of
   a plan begins with the number of its cycle, which no two calls under way share. *)

Begun(t) == pc[t] \in {"monitor", "analyze"}
Carrying(t) == pc[t] \in {"execute", "store", "record"}
Working(t) == Carrying(t) \/ pc[t] \in {"approve", "auditCycle"}
Active(t) == Begun(t) \/ Working(t)

KnownResults == {a.result : a \in ToSet(adaptations)}
Known == {a.result.plan : a \in ToSet(adaptations)}
Spent == {r.plan : r \in ToSet(executed)}

FreshCall ==
    [kind : {"cycle"}, alerts : AlertLists, metrics : Metrics, events : Seq(Events),
     report : {NoReport}, number : {0}, began : Nat]

SharedOK ==
    /\ eventLog \in Seq(Events)
    /\ cycleCount \in Nat
    /\ IsSeq(executed) /\ IsSeq(adaptations)
    /\ \A id \in Spent \union consented : id[1] \in 1 .. cycleCount

LocalsAreFunctions ==
    /\ DOMAIN pc = Threads /\ pc = [t \in Threads |-> pc[t]]
    /\ DOMAIN call = Threads /\ call = [t \in Threads |-> call[t]]
    /\ DOMAIN plans = Threads /\ plans = [t \in Threads |-> plans[t]]
    /\ approval \in [Threads -> BOOLEAN]
    /\ DOMAIN result = Threads /\ result = [t \in Threads |-> result[t]]
    /\ DOMAIN own = Threads /\ own = [t \in Threads |-> own[t]]
    /\ DOMAIN made = Threads /\ made = [t \in Threads |-> made[t]]

NumbersDiffer == \A t, u \in Threads : Active(t) /\ Active(u) /\ own[t] = own[u] => t = u

(* A cycle that has no plans yet: its number is in no id. *)
BegunOK(t) ==
    /\ Active(t) => own[t] \in 1 .. cycleCount
    /\ Begun(t) => call[t] \in FreshCall /\ \A id \in Spent \union consented : id[1] # own[t]

(* The plans of a cycle carry its number, and are different ones. *)
PlansOK(t) ==
    Working(t) =>
        /\ plans[t] \in Seq(made[t])
        /\ \A m \in made[t] : m.id[1] = own[t] /\ FlagIsLevel(m.plan)
        /\ \A i, j \in 1 .. Len(plans[t]) : plans[t][i].id = plans[t][j].id => i = j

(* What remains of them has no outcome and no consent yet, but for the one at hand. *)
FreshOK(t) ==
    Working(t) =>
        \A i \in 1 .. Len(plans[t]) :
            /\ plans[t][i].id \notin Known
            /\ i > 1 \/ pc[t] # "record" => plans[t][i].id \notin Spent
            /\ i > 1 \/ pc[t] = "approve" => plans[t][i].id \notin consented

(* What does not remain has an outcome, or was given up. *)
DoneOK(t) ==
    Working(t) =>
        \A m \in made[t] : \/ m.id \in aborted \union Known
                          \/ \E i \in 1 .. Len(plans[t]) : plans[t][i].id = m.id

(* The plan at hand, its approval and its result. *)
HandOK(t) ==
    /\ Carrying(t) => plans[t] # <<>>
    /\ pc[t] = "auditCycle" => plans[t] = <<>>
    /\ pc[t] = "execute" =>
          (ThisPlan(t).requiresApproval => (approval[t] <=> ThisId(t) \in consented))
    /\ pc[t] \in {"store", "record"} =>
          /\ result[t].plan = ThisId(t)
          /\ ThresholdLevel(ThisPlan(t).risk) \in Gated =>
                (result[t].status # "blocked" <=> ThisId(t) \in consented)
    /\ pc[t] = "record" => result[t] \in ToSet(executed)

LocalOK(t) == BegunOK(t) /\ PlansOK(t) /\ FreshOK(t) /\ DoneOK(t) /\ HandOK(t)

(* The two stores, the knowledge base and what was consented to. *)
StoresOK ==
    /\ \A i, j \in 1 .. Len(adaptations) :
          adaptations[i].result.plan = adaptations[j].result.plan => i = j
    /\ KnownResults \subseteq ToSet(executed)
    /\ \A r \in ToSet(executed) \ KnownResults :
          \E t \in Threads : pc[t] = "record" /\ result[t] = r
    /\ EnactedOnlyWithConsent

LoopInv ==
    SharedOK /\ LocalsAreFunctions /\ NumbersDiffer /\ (\A t \in Threads : LocalOK(t)) /\ StoresOK

(* A step of another thread leaves a thread's locals alone. *)
Untouched(t) ==
    /\ pc'[t] = pc[t] /\ call'[t] = call[t] /\ plans'[t] = plans[t]
    /\ approval'[t] = approval[t] /\ result'[t] = result[t]
    /\ own'[t] = own[t] /\ made'[t] = made[t]

(* The sets only grow, and only by ids of the cycle whose step it is. *)
Grows(t, old, new) == old \subseteq new /\ \A id \in new \ old : Active(t) /\ id[1] = own[t]

LEMMA PlanAtHand ==
    ASSUME NEW t \in Threads, PlansOK(t), Working(t)
    PROVE  /\ Len(plans[t]) \in Nat
           /\ \A i \in 1 .. Len(plans[t]) : plans[t][i] \in made[t] /\ plans[t][i].id[1] = own[t]
           /\ plans[t] # <<>> => /\ Len(plans[t]) > 0
                                /\ Head(plans[t]) = plans[t][1]
                                /\ ThisId(t) = plans[t][1].id /\ ThisId(t)[1] = own[t]
                                /\ FlagIsLevel(ThisPlan(t))
<1>1. plans[t] \in Seq(made[t]) /\ \A m \in made[t] : m.id[1] = own[t] /\ FlagIsLevel(m.plan)
  BY DEF PlansOK
<1>2. Len(plans[t]) \in Nat /\ \A i \in 1 .. Len(plans[t]) : plans[t][i] \in made[t]
  BY <1>1, LenProperties, ElementOfSeq
<1>3. plans[t] # <<>> => Len(plans[t]) > 0 /\ Head(plans[t]) = plans[t][1]
  BY <1>1, EmptySeq
<1> QED
  BY <1>1, <1>2, <1>3 DEF ThisId, ThisPlan

LEMMA OthersKeep ==
    ASSUME LoopInv, NEW t \in Threads, NEW u \in Threads, u # t, Untouched(u),
           cycleCount' \in Nat, cycleCount <= cycleCount',
           Grows(t, Spent, Spent'), Grows(t, Known, Known'), Grows(t, consented, consented'),
           ToSet(executed) \subseteq ToSet(executed)', aborted \subseteq aborted'
    PROVE  LocalOK(u)'
<1>1. /\ cycleCount \in Nat
      /\ BegunOK(u) /\ PlansOK(u) /\ FreshOK(u) /\ DoneOK(u) /\ HandOK(u)
      /\ Active(t) /\ Active(u) => own[t] # own[u]
  BY DEF LoopInv, SharedOK, NumbersDiffer, LocalOK
<1>2. /\ Begun(u)' = Begun(u) /\ Carrying(u)' = Carrying(u)
      /\ Working(u)' = Working(u) /\ Active(u)' = Active(u)
  BY DEF Untouched, Begun, Carrying, Working, Active
<1>3. \A id : Active(u) /\ id[1] = own[u] =>
          /\ id \in Spent' <=> id \in Spent
          /\ id \in Known' <=> id \in Known
          /\ id \in consented' <=> id \in consented
  BY <1>1 DEF Grows
<1>4. BegunOK(u)'
  BY <1>1, <1>2, <1>3 DEF BegunOK, Untouched, Active
<1>5. PlansOK(u)'
  BY <1>1, <1>2 DEF PlansOK, Untouched
<1>6. Working(u) => \A i \in 1 .. Len(plans[u]) : Active(u) /\ plans[u][i].id[1] = own[u]
  BY <1>1, PlanAtHand DEF Active
<1>7. FreshOK(u)'
  BY <1>1, <1>2, <1>3, <1>6 DEF FreshOK, Untouched
<1>8. DoneOK(u)'
  BY <1>1, <1>2 DEF DoneOK, Untouched, Grows
<1>9. HandOK(u)'
  <2>1. Carrying(u) => ThisId(u)[1] = own[u] /\ Active(u)
    BY <1>1, PlanAtHand DEF HandOK, Working, Active
  <2>2. ThisId(u)' = ThisId(u) /\ ThisPlan(u)' = ThisPlan(u)
    BY DEF Untouched, ThisId, ThisPlan
  <2>3. Carrying(u) => (ThisId(u) \in consented' <=> ThisId(u) \in consented)
    BY <1>3, <2>1
  <2>4. pc[u] \in {"execute", "store", "record"} <=> Carrying(u)
    BY DEF Carrying
  <2> QED
    BY <1>1, <1>2, <2>2, <2>3, <2>4 DEF HandOK, Untouched
<1> QED
  BY <1>4, <1>5, <1>7, <1>8, <1>9 DEF LocalOK

LEMMA Assemble ==
    ASSUME LoopInv, NEW t \in Threads,
           SharedOK', LocalsAreFunctions', LocalOK(t)', StoresOK',
           \A u \in Threads : u # t => Untouched(u),
           cycleCount <= cycleCount',
           Grows(t, Spent, Spent'), Grows(t, Known, Known'), Grows(t, consented, consented'),
           ToSet(executed) \subseteq ToSet(executed)', aborted \subseteq aborted',
           Active(t)' => \/ Active(t) /\ own'[t] = own[t]
                         \/ \A u \in Threads : Active(u) => own[u] # own'[t]
    PROVE  LoopInv'
<1>1. \A u \in Threads : u # t => LocalOK(u)'
  BY OthersKeep DEF SharedOK
<1>2. NumbersDiffer'
  <2>1. \A u \in Threads : u # t => Active(u)' = Active(u) /\ own'[u] = own[u]
    BY DEF Untouched, Active, Begun, Working, Carrying
  <2>2. ASSUME NEW u \in Threads, NEW v \in Threads, Active(u)', Active(v)', own'[u] = own'[v]
        PROVE  u = v
    BY <2>1, <2>2 DEF LoopInv, NumbersDiffer
  <2> QED
    BY <2>2 DEF NumbersDiffer
<1> QED
  BY <1>1, <1>2 DEF LoopInv

LEMMA SpentByAppend ==
    ASSUME NEW r, IsSeq(executed), executed' = Append(executed, r)
    PROVE  /\ IsSeq(executed)' /\ ToSet(executed)' = ToSet(executed) \union {r}
           /\ Spent' = Spent \union {r.plan}
  BY AppendToSet DEF Spent

LEMMA KnownByAppend ==
    ASSUME NEW a, IsSeq(adaptations), adaptations' = Append(adaptations, a)
    PROVE  /\ IsSeq(adaptations)' /\ ToSet(adaptations)' = ToSet(adaptations) \union {a}
           /\ Known' = Known \union {a.result.plan}
           /\ KnownResults' = KnownResults \union {a.result}
  BY AppendToSet DEF Known, KnownResults

(* Nothing is stored, and nothing is consented to that has an outcome. *)
LEMMA StoresKept ==
    ASSUME LoopInv, NEW t \in Threads, pc[t] # "record",
           UNCHANGED <<executed, adaptations>>,
           \A u \in Threads : u # t => Untouched(u),
           consented \subseteq consented', consented' \intersect Known \subseteq consented
    PROVE  StoresOK'
<1>1. StoresOK
  BY DEF LoopInv
<1>2. KnownResults' = KnownResults
  BY DEF KnownResults
<1>3. \A r \in ToSet(executed)' \ KnownResults' :
          \E u \in Threads : pc'[u] = "record" /\ result'[u] = r
  BY <1>1, <1>2 DEF StoresOK, Untouched
<1>4. EnactedOnlyWithConsent'
  <2>1. \A a \in ToSet(adaptations) : a.result.plan \in Known
    BY DEF Known
  <2>2. \A a \in ToSet(adaptations) : a.result.plan \in consented' <=> a.result.plan \in consented
    BY <2>1
  <2> QED
    BY <1>1, <2>2 DEF StoresOK, EnactedOnlyWithConsent
<1> QED
  BY <1>1, <1>2, <1>3, <1>4 DEF StoresOK

LEMMA AppendToLog ==
    ASSUME NEW e \in Events, eventLog \in Seq(Events), eventLog' = Append(eventLog, e)
    PROVE  eventLog' \in Seq(Events)
  BY AppendProperties

(* A thread that is in no cycle and enters none. *)
LEMMA IdleKeeps ==
    ASSUME LoopInv, NEW t \in Threads, ~Active(t)',  pc[t] # "record",
           LocalsAreFunctions', eventLog' \in Seq(Events),
           \A u \in Threads : u # t => Untouched(u),
           UNCHANGED <<cycleCount, executed, adaptations, aborted, consented>>
    PROVE  LoopInv'
<1>1. SharedOK /\ cycleCount \in Nat
  BY DEF LoopInv, SharedOK
<1>2. Spent' = Spent /\ Known' = Known
  BY DEF Spent, Known
<1>3. SharedOK'
  BY <1>1, <1>2 DEF SharedOK, IsSeq
<1>4. LocalOK(t)'
  BY DEF LocalOK, BegunOK, PlansOK, FreshOK, DoneOK, HandOK, Active, Begun, Working, Carrying
<1>5. StoresOK'
  BY StoresKept
<1> QED
  BY <1>1, <1>2, <1>3, <1>4, <1>5, Assemble DEF Grows

(* The locals that Return resets. *)
LEMMA ReturnKeeps ==
    ASSUME LoopInv, NEW t \in Threads, Return(t), pc[t] # "record",
           UNCHANGED <<eventLog, cycleCount, executed, adaptations, aborted, consented>>
    PROVE  LoopInv'
<1>1. LocalsAreFunctions /\ eventLog \in Seq(Events)
  BY DEF LoopInv, SharedOK
<1>2. LocalsAreFunctions' /\ pc'[t] = "idle"
  BY <1>1 DEF LocalsAreFunctions, Return, Goto
<1>3. \A u \in Threads : u # t => Untouched(u)
  BY <1>1 DEF LocalsAreFunctions, Return, Goto, Untouched
<1>4. ~Active(t)'
  BY <1>2 DEF Active, Begun, Working, Carrying
<1> QED
  BY <1>1, <1>2, <1>3, <1>4, IdleKeeps

LEMMA PublishKeeps ==
    ASSUME LoopInv, NEW t \in Threads, NEW e \in Events, Publish(t, e)
    PROVE  LoopInv'
<1>1. LocalsAreFunctions /\ eventLog \in Seq(Events)
  BY DEF LoopInv, SharedOK
<1>2. LocalsAreFunctions' /\ pc'[t] = "notify" /\ pc[t] = "idle"
  BY <1>1 DEF LocalsAreFunctions, Publish, Goto, history
<1>3. \A u \in Threads : u # t => Untouched(u)
  BY <1>1 DEF LocalsAreFunctions, Publish, Goto, Untouched, history
<1>4. ~Active(t)'
  BY <1>2 DEF Active, Begun, Working, Carrying
<1>5. eventLog' \in Seq(Events)
  BY <1>1, AppendToLog DEF Publish
<1> QED
  BY <1>2, <1>3, <1>4, <1>5, IdleKeeps DEF Publish, history

LEMMA NotifyKeeps ==
    ASSUME LoopInv, NEW t \in Threads, NotifySubscribers(t)
    PROVE  LoopInv'
<1>1. LocalsAreFunctions /\ eventLog \in Seq(Events)
  BY DEF LoopInv, SharedOK
<1>2. UNCHANGED <<eventLog, cycleCount, executed, adaptations, aborted, consented>> /\ pc[t] = "notify"
  BY DEF NotifySubscribers, shared
<1>3. CASE Return(t)
  BY <1>2, <1>3, ReturnKeeps
<1>4. CASE Goto(t, "auditMetric") /\ UNCHANGED <<call, plans, approval, result, own, made>>
  <2>1. LocalsAreFunctions' /\ pc'[t] = "auditMetric"
    BY <1>1, <1>4 DEF LocalsAreFunctions, Goto
  <2>2. \A u \in Threads : u # t => Untouched(u)
    BY <1>1, <1>4 DEF LocalsAreFunctions, Goto, Untouched
  <2>3. ~Active(t)'
    BY <2>1 DEF Active, Begun, Working, Carrying
  <2> QED
    BY <1>1, <1>2, <2>1, <2>2, <2>3, IdleKeeps
<1> QED
  BY <1>3, <1>4 DEF NotifySubscribers

LEMMA AuditMetricKeeps ==
    ASSUME LoopInv, NEW t \in Threads, AuditMetric(t)
    PROVE  LoopInv'
  BY ReturnKeeps DEF AuditMetric

LEMMA AuditCycleKeeps ==
    ASSUME LoopInv, NEW t \in Threads, AuditCycle(t)
    PROVE  LoopInv'
  BY ReturnKeeps DEF AuditCycle

LEMMA BeginCycleKeeps ==
    ASSUME LoopInv, NEW t \in Threads, NEW alerts \in AlertLists, NEW m \in Metrics,
           BeginCycle(t, alerts, m)
    PROVE  LoopInv'
<1>1. /\ SharedOK /\ LocalsAreFunctions /\ cycleCount \in Nat /\ eventLog \in Seq(Events)
      /\ \A u \in Threads : Active(u) => own[u] \in 1 .. cycleCount
  BY DEF LoopInv, SharedOK, LocalOK, BegunOK
<1>2. /\ LocalsAreFunctions'
      /\ pc'[t] = "monitor" /\ pc[t] = "idle" /\ own'[t] = cycleCount + 1
      /\ cycleCount' = cycleCount + 1
      /\ UNCHANGED <<eventLog, executed, adaptations, consented, aborted>>
  BY <1>1 DEF LocalsAreFunctions, BeginCycle, Goto
<1>3. \A u \in Threads : u # t => Untouched(u)
  BY <1>1 DEF LocalsAreFunctions, BeginCycle, Goto, Untouched
<1>4. Spent' = Spent /\ Known' = Known
  BY <1>2 DEF Spent, Known
<1>5. SharedOK'
  BY <1>1, <1>2, <1>4 DEF SharedOK, IsSeq
<1>6. call'[t] \in FreshCall
  <2>1. Len(eventLog) \in Nat
    BY <1>1, LenProperties
  <2>2. <<>> \in Seq(Events)
    BY EmptySeq
  <2> QED
    BY <1>1, <2>1, <2>2 DEF BeginCycle, FreshCall, LocalsAreFunctions
<1>7. LocalOK(t)'
  <2>1. \A id \in Spent' \union consented' : id[1] # cycleCount + 1
    BY <1>1, <1>2, <1>4 DEF SharedOK
  <2>2. BegunOK(t)'
    BY <1>1, <1>2, <1>6, <2>1 DEF BegunOK
  <2> QED
    BY <1>2, <2>2 DEF LocalOK, PlansOK, FreshOK, DoneOK, HandOK, Working, Carrying
<1>8. StoresOK'
  BY <1>2, <1>3, StoresKept
<1>9. \A u \in Threads : Active(u) => own[u] # own'[t]
  BY <1>1, <1>2
<1> QED
  BY <1>1, <1>2, <1>3, <1>4, <1>5, <1>7, <1>8, <1>9, Assemble DEF Grows

(* A step of a cycle that stores nothing. *)
LEMMA QuietStep ==
    ASSUME LoopInv, NEW t \in Threads, Active(t), own'[t] = own[t], pc[t] # "record",
           LocalsAreFunctions', LocalOK(t)', \A u \in Threads : u # t => Untouched(u),
           UNCHANGED <<eventLog, cycleCount, executed, adaptations>>,
           aborted \subseteq aborted', consented \subseteq consented',
           \A id \in consented' \ consented : id[1] = own[t] /\ id \notin Known
    PROVE  LoopInv'
<1>1. SharedOK /\ cycleCount \in Nat /\ own[t] \in 1 .. cycleCount
  BY DEF LoopInv, SharedOK, LocalOK, BegunOK
<1>2. Spent' = Spent /\ Known' = Known
  BY DEF Spent, Known
<1>3. SharedOK'
  BY <1>1, <1>2 DEF SharedOK, IsSeq
<1>4. StoresOK'
  BY StoresKept
<1> QED
  BY <1>1, <1>2, <1>3, <1>4, Assemble DEF Grows

LEMMA GetEventsKeeps ==
    ASSUME LoopInv, NEW t \in Threads, GetEvents(t)
    PROVE  LoopInv'
<1>1. /\ LocalsAreFunctions /\ BegunOK(t) /\ eventLog \in Seq(Events)
      /\ pc[t] = "monitor" /\ call[t] \in FreshCall
  BY DEF LoopInv, SharedOK, LocalOK, BegunOK, Begun, GetEvents
<1>2. /\ LocalsAreFunctions' /\ pc'[t] = "analyze"
      /\ UNCHANGED <<eventLog, cycleCount, executed, adaptations, own, consented, aborted>>
  BY <1>1 DEF LocalsAreFunctions, GetEvents, Goto, shared, history
<1>3. \A u \in Threads : u # t => Untouched(u)
  BY <1>1 DEF LocalsAreFunctions, GetEvents, Goto, Untouched, shared, history
<1>4. call'[t] \in FreshCall
  BY <1>1 DEF LocalsAreFunctions, GetEvents, ReadEvents, FreshCall
<1>5. Spent' = Spent
  BY <1>2 DEF Spent
<1>6. BegunOK(t)'
  BY <1>1, <1>2, <1>4, <1>5 DEF BegunOK, Begun, Active
<1>7. LocalOK(t)'
  BY <1>2, <1>6 DEF LocalOK, PlansOK, FreshOK, DoneOK, HandOK, Working, Carrying
<1> QED
  BY <1>1, <1>2, <1>3, <1>7, QuietStep DEF Active, Begun

LEMMA AnalyzeAndPlanKeeps ==
    ASSUME LoopInv, NEW t \in Threads, AnalyzeAndPlan(t)
    PROVE  LoopInv'
<1> DEFINE named == Named(own[t], Plans(Analyze(call[t].events, call[t].alerts).clusters))
<1>1. /\ LocalsAreFunctions /\ BegunOK(t) /\ StoresOK
      /\ pc[t] = "analyze" /\ Begun(t) /\ Active(t)
      /\ call[t].events \in Seq(Events) /\ call[t].alerts \in AlertLists
  BY DEF LoopInv, LocalOK, BegunOK, Begun, Active, AnalyzeAndPlan, FreshCall
<1>2. /\ plans' = [plans EXCEPT ![t] = named]
      /\ made' = [made EXCEPT ![t] = ToSet(named)]
  BY DEF AnalyzeAndPlan, Named, ToSet
<1>3. /\ named \in Seq(ToSet(named))
      /\ \A m \in ToSet(named) : m.id[1] = own[t] /\ FlagIsLevel(m.plan)
      /\ \A i, j \in 1 .. Len(named) : named[i].id = named[j].id => i = j
  BY <1>1, NamedPlans
<1> HIDE DEF named
<1>4. DOMAIN call' = Threads /\ call' = [u \in Threads |-> call'[u]]
  BY <1>1 DEF AnalyzeAndPlan, LocalsAreFunctions
<1>5. /\ pc' = [pc EXCEPT ![t] = "approve"]
      /\ UNCHANGED <<eventLog, cycleCount, executed, adaptations, approval, result,
                     own, consented, aborted>>
      /\ \A u \in Threads : u # t => call'[u] = call[u]
  BY <1>1 DEF AnalyzeAndPlan, Goto, LocalsAreFunctions
<1>6. LocalsAreFunctions'
  BY <1>1, <1>2, <1>4, <1>5 DEF LocalsAreFunctions
<1>7. \A u \in Threads : u # t => Untouched(u)
  BY <1>1, <1>2, <1>5 DEF LocalsAreFunctions, Untouched
<1>8. pc'[t] = "approve" /\ plans'[t] = named /\ made'[t] = ToSet(named) /\ own'[t] = own[t]
  BY <1>1, <1>2, <1>5 DEF LocalsAreFunctions
<1>9. Spent' = Spent /\ Known' = Known
  BY <1>5 DEF Spent, Known
<1>10. BegunOK(t)' /\ PlansOK(t)'
  BY <1>1, <1>3, <1>5, <1>8, <1>9 DEF BegunOK, PlansOK, Begun
<1>11. Known \subseteq Spent
  BY <1>1 DEF StoresOK, Known, KnownResults, Spent
<1>12. PICK n \in Nat : n = Len(named)
  BY <1>3, LenProperties
<1>13. \A i \in 1 .. n : named[i] \in ToSet(named)
  BY <1>3, <1>12, ElementOfSeq
<1>14. FreshOK(t)'
  <2>1. \A i \in 1 .. n : named[i].id \notin Spent /\ named[i].id \notin consented
    BY <1>1, <1>3, <1>13 DEF BegunOK
  <2> QED
    BY <1>5, <1>8, <1>9, <1>11, <1>12, <2>1 DEF FreshOK
<1>15. DoneOK(t)'
  <2>1. \A m \in ToSet(named) : \E i \in 1 .. n : named[i] = m
    BY <1>3, <1>12, LenProperties DEF ToSet
  <2> QED
    BY <1>8, <1>12, <2>1 DEF DoneOK
<1>16. HandOK(t)'
  BY <1>8 DEF HandOK, Carrying
<1> QED
  BY <1>1, <1>5, <1>6, <1>7, <1>8, <1>10, <1>14, <1>15, <1>16, QuietStep DEF LocalOK

(* From the approval to the gate: the plan at hand stays, its consent is settled. *)
LEMMA SettledKeeps ==
    ASSUME LoopInv, NEW t \in Threads, pc[t] = "approve", plans[t] # <<>>,
           LocalsAreFunctions', \A u \in Threads : u # t => Untouched(u),
           pc'[t] = "execute", plans'[t] = plans[t], own'[t] = own[t], made'[t] = made[t],
           UNCHANGED <<eventLog, cycleCount, executed, adaptations, aborted>>,
           consented' \in {consented, consented \union {ThisId(t)}},
           ThisPlan(t).requiresApproval => (approval'[t] <=> ThisId(t) \in consented')
    PROVE  LoopInv'
<1>1. /\ BegunOK(t) /\ PlansOK(t) /\ FreshOK(t) /\ DoneOK(t)
      /\ Working(t) /\ Working(t)' /\ Active(t) /\ ~Begun(t)'
  BY DEF LoopInv, LocalOK, Working, Active, Begun, Carrying
<1>2. Spent' = Spent /\ Known' = Known
  BY DEF Spent, Known
<1>3. PICK n \in Nat : n = Len(plans[t])
  BY <1>1, PlanAtHand
<1>4. /\ n > 0 /\ ThisId(t) = plans[t][1].id /\ ThisId(t)[1] = own[t]
  BY <1>1, <1>3, PlanAtHand
<1>5. BegunOK(t)' /\ PlansOK(t)' /\ DoneOK(t)'
  BY <1>1, <1>2 DEF BegunOK, PlansOK, DoneOK
<1>6. \A i \in 1 .. n : i > 1 => plans[t][i].id # ThisId(t)
  BY <1>1, <1>3, <1>4 DEF PlansOK
<1>7. FreshOK(t)'
  BY <1>1, <1>2, <1>3, <1>6 DEF FreshOK
<1>8. HandOK(t)'
  BY DEF HandOK, Carrying, ThisId, ThisPlan
<1>9. ThisId(t) \notin Known
  BY <1>1, <1>3, <1>4 DEF FreshOK
<1> QED
  BY <1>1, <1>4, <1>5, <1>7, <1>8, <1>9, QuietStep DEF LocalOK

LEMMA ApproveByDefaultKeeps ==
    ASSUME LoopInv, NEW t \in Threads, ApproveByDefault(t)
    PROVE  LoopInv'
<1>1. LocalsAreFunctions /\ pc[t] = "approve" /\ plans[t] # <<>> /\ PlansOK(t) /\ FreshOK(t)
  BY DEF LoopInv, LocalOK, ApproveByDefault
<1>2. FlagIsLevel(ThisPlan(t)) /\ ThisId(t) \notin consented
  BY <1>1, PlanAtHand DEF FreshOK, Working
<1>3. LocalsAreFunctions'
  BY <1>1, <1>2 DEF LocalsAreFunctions, ApproveByDefault, Goto, history, FlagIsLevel
<1>4. \A u \in Threads : u # t => Untouched(u)
  BY <1>1 DEF LocalsAreFunctions, ApproveByDefault, Goto, Untouched, history
<1>5. /\ pc'[t] = "execute" /\ approval'[t] = ~ThisPlan(t).requiresApproval
      /\ UNCHANGED <<eventLog, cycleCount, executed, adaptations, aborted, plans, own, made, consented>>
  BY <1>1 DEF LocalsAreFunctions, ApproveByDefault, Goto, history, shared
<1>6. ThisPlan(t).requiresApproval => (approval'[t] <=> ThisId(t) \in consented')
  BY <1>2, <1>5
<1> QED
  BY <1>1, <1>3, <1>4, <1>5, <1>6, SettledKeeps

LEMMA AskForApprovalKeeps ==
    ASSUME LoopInv, NEW t \in Threads, AskForApproval(t)
    PROVE  LoopInv'
<1>1. LocalsAreFunctions /\ pc[t] = "approve" /\ plans[t] # <<>> /\ PlansOK(t) /\ FreshOK(t)
  BY DEF LoopInv, LocalOK, AskForApproval
<1>2. ThisId(t) \notin consented
  BY <1>1, PlanAtHand DEF FreshOK, Working
<1>3. UNCHANGED <<eventLog, cycleCount, executed, adaptations, aborted>>
  BY DEF AskForApproval, shared
<1>4. CASE /\ approval' = [approval EXCEPT ![t] = TRUE]
           /\ consented' = consented \union {ThisId(t)}
           /\ Goto(t, "execute")
           /\ UNCHANGED <<call, plans, result, own, made>>
  <2>1. LocalsAreFunctions'
    BY <1>1, <1>4 DEF LocalsAreFunctions, Goto
  <2>2. \A u \in Threads : u # t => Untouched(u)
    BY <1>1, <1>4 DEF LocalsAreFunctions, Goto, Untouched
  <2>3. pc'[t] = "execute" /\ approval'[t] = TRUE
    BY <1>1, <1>4 DEF LocalsAreFunctions, Goto
  <2> QED
    BY <1>1, <1>3, <1>4, <2>1, <2>2, <2>3, SettledKeeps
<1>5. CASE Refused(t) /\ UNCHANGED <<call, own, made, consented>>
  <2>1. LocalsAreFunctions'
    BY <1>1, <1>5 DEF LocalsAreFunctions, Goto, Refused
  <2>2. \A u \in Threads : u # t => Untouched(u)
    BY <1>1, <1>5 DEF LocalsAreFunctions, Goto, Untouched, Refused
  <2>3. pc'[t] = "execute" /\ approval'[t] = FALSE /\ UNCHANGED plans
    BY <1>1, <1>5 DEF LocalsAreFunctions, Goto, Refused
  <2> QED
    BY <1>1, <1>2, <1>3, <1>5, <2>1, <2>2, <2>3, SettledKeeps
<1>6. CASE Return(t) /\ UNCHANGED consented
  BY <1>1, <1>3, <1>6, ReturnKeeps
<1> QED
  BY <1>4, <1>5, <1>6 DEF AskForApproval

(* Block and Rollout: the gate has looked at flag and level, and the outcome tells which. *)
LEMMA FinishKeeps ==
    ASSUME LoopInv, NEW t \in Threads, NEW status, pc[t] = "execute", Finish(t, status),
           status # "blocked" <=> ~Blocked(t)
    PROVE  LoopInv'
<1>1. /\ LocalsAreFunctions /\ BegunOK(t) /\ PlansOK(t) /\ FreshOK(t) /\ DoneOK(t) /\ HandOK(t)
      /\ plans[t] # <<>> /\ Working(t) /\ Active(t)
  BY DEF LoopInv, LocalOK, HandOK, Working, Active, Carrying
<1>2. /\ LocalsAreFunctions' /\ pc'[t] = "store"
      /\ result'[t] = [plan |-> ThisId(t), status |-> status]
      /\ UNCHANGED <<eventLog, cycleCount, executed, adaptations, aborted, plans, own, made,
                     consented, approval>>
  BY <1>1 DEF LocalsAreFunctions, Finish, Goto, shared, history
<1>3. \A u \in Threads : u # t => Untouched(u)
  BY <1>1 DEF LocalsAreFunctions, Finish, Goto, Untouched, shared, history
<1>4. Spent' = Spent /\ Known' = Known
  BY <1>2 DEF Spent, Known
<1>5. BegunOK(t)' /\ PlansOK(t)' /\ DoneOK(t)' /\ FreshOK(t)'
  BY <1>1, <1>2, <1>4 DEF BegunOK, PlansOK, DoneOK, FreshOK, Begun, Working, Active, Carrying
<1>6. ThresholdLevel(ThisPlan(t).risk) \in Gated =>
          (status # "blocked" <=> ThisId(t) \in consented)
  <2>1. FlagIsLevel(ThisPlan(t)) /\ approval[t] \in BOOLEAN
    BY <1>1, PlanAtHand DEF LocalsAreFunctions
  <2> QED
    BY <1>1, <2>1 DEF HandOK, Blocked, FlagIsLevel
<1>7. ThisId(t)' = ThisId(t) /\ ThisPlan(t)' = ThisPlan(t)
  BY <1>2 DEF ThisId, ThisPlan
<1>8. HandOK(t)'
  BY <1>1, <1>2, <1>6, <1>7 DEF HandOK, Carrying
<1> QED
  BY <1>1, <1>2, <1>3, <1>5, <1>8, QuietStep DEF LocalOK

LEMMA GateKeeps ==
    ASSUME LoopInv, NEW t \in Threads, Block(t) \/ Rollout(t)
    PROVE  LoopInv'
<1>1. CASE Block(t)
  BY <1>1, FinishKeeps DEF Block
<1>2. CASE Rollout(t)
  BY <1>2, FinishKeeps DEF Rollout
<1> QED
  BY <1>1, <1>2

(* The plan at hand has an outcome, or is given up: what remains is as fresh as before. *)
LEMMA AdvanceKeeps ==
    ASSUME LoopInv, NEW t \in Threads, Carrying(t), NextPlan(t),
           UNCHANGED <<call, own, made, consented, cycleCount, executed>>,
           Known' \in {Known, Known \union {ThisId(t)}}, aborted \subseteq aborted',
           ThisId(t) \in aborted' \union Known'
    PROVE  LocalOK(t)' /\ LocalsAreFunctions' /\ \A u \in Threads : u # t => Untouched(u)
<1>1. /\ LocalsAreFunctions /\ BegunOK(t) /\ PlansOK(t) /\ FreshOK(t) /\ DoneOK(t)
      /\ plans[t] # <<>> /\ Working(t) /\ Active(t) /\ ~Begun(t)
  BY DEF LoopInv, LocalOK, HandOK, Working, Active, Begun, Carrying
<1>2. /\ LocalsAreFunctions' /\ pc'[t] = "approve" /\ plans'[t] = Tail(plans[t])
      /\ own'[t] = own[t] /\ made'[t] = made[t]
  BY <1>1 DEF LocalsAreFunctions, NextPlan, Goto
<1>3. \A u \in Threads : u # t => Untouched(u)
  BY <1>1 DEF LocalsAreFunctions, NextPlan, Goto, Untouched
<1>4. Working(t)' /\ Active(t)' /\ ~Begun(t)'
  BY <1>2 DEF Working, Active, Begun, Carrying
<1>5. PICK n \in Nat : n = Len(plans[t])
  BY <1>1, PlanAtHand
<1>6. n > 0 /\ ThisId(t) = plans[t][1].id
  BY <1>1, <1>5, PlanAtHand
<1> DEFINE rest == Tail(plans[t])
<1>7. /\ rest \in Seq(made[t]) /\ Len(rest) = n - 1
      /\ \A i \in 1 .. n - 1 : rest[i] = plans[t][i + 1]
  BY <1>1, <1>5, HeadTailProperties DEF PlansOK
<1>8. plans'[t] = rest
  BY <1>2
<1> HIDE DEF rest
<1>9. Spent' = Spent
  BY DEF Spent
<1>10. BegunOK(t)'
  BY <1>1, <1>2, <1>4 DEF BegunOK
<1>11. \A i, j \in 1 .. n : plans[t][i].id = plans[t][j].id => i = j
  BY <1>1, <1>5 DEF PlansOK
<1>12. \A i, j \in 1 .. n - 1 : rest[i].id = rest[j].id => i = j
  <2>1. \A i \in 1 .. n - 1 : i + 1 \in 1 .. n
    OBVIOUS
  <2> QED
    BY <1>7, <1>11, <2>1
<1>13. PlansOK(t)'
  BY <1>1, <1>2, <1>7, <1>8, <1>12 DEF PlansOK
<1>14. \A i \in 1 .. n - 1 :
          rest[i].id \notin Known' /\ rest[i].id \notin Spent /\ rest[i].id \notin consented
  <2> SUFFICES ASSUME NEW i \in 1 .. n - 1
               PROVE  /\ rest[i].id \notin Known' /\ rest[i].id \notin Spent
                      /\ rest[i].id \notin consented
    OBVIOUS
  <2>1. i + 1 \in 1 .. n /\ i + 1 > 1 /\ 1 \in 1 .. n /\ i + 1 # 1
    BY <1>6
  <2>2. rest[i].id = plans[t][i + 1].id /\ rest[i].id # ThisId(t)
    BY <1>6, <1>7, <1>11, <2>1
  <2> QED
    BY <1>1, <1>5, <2>1, <2>2 DEF FreshOK
<1>15. FreshOK(t)'
  BY <1>7, <1>8, <1>9, <1>14 DEF FreshOK
<1>16. DoneOK(t)'
  <2> SUFFICES ASSUME NEW m \in made[t]
               PROVE  \/ m.id \in aborted' \union Known'
                      \/ \E i \in 1 .. n - 1 : rest[i].id = m.id
    BY <1>2, <1>7, <1>8 DEF DoneOK
  <2>1. CASE m.id \in aborted \union Known
    BY <2>1
  <2>2. CASE \E i \in 1 .. n : plans[t][i].id = m.id
    <3>1. PICK i \in 1 .. n : plans[t][i].id = m.id
      BY <2>2
    <3>2. CASE i = 1
      BY <1>6, <3>1, <3>2
    <3>3. CASE i # 1
      <4>1. i - 1 \in 1 .. n - 1 /\ (i - 1) + 1 = i
        BY <3>3
      <4> QED
        BY <1>7, <3>1, <4>1
    <3> QED
      BY <3>2, <3>3
  <2> QED
    BY <1>1, <1>5, <2>1, <2>2 DEF DoneOK
<1>17. HandOK(t)'
  BY <1>2 DEF HandOK, Carrying
<1> QED
  BY <1>2, <1>3, <1>10, <1>13, <1>15, <1>16, <1>17 DEF LocalOK

LEMMA RolloutRaisesKeeps ==
    ASSUME LoopInv, NEW t \in Threads, RolloutRaises(t)
    PROVE  LoopInv'
<1>1. /\ NextPlan(t) /\ Carrying(t) /\ Active(t) /\ pc[t] # "record"
      /\ aborted' = aborted \union {ThisId(t)}
      /\ UNCHANGED <<eventLog, cycleCount, executed, adaptations, call, own, made, consented>>
  BY DEF RolloutRaises, shared, Carrying, Active, Working
<1>2. Known' = Known
  BY <1>1 DEF Known
<1>3. LocalOK(t)' /\ LocalsAreFunctions' /\ \A u \in Threads : u # t => Untouched(u)
  BY <1>1, <1>2, AdvanceKeeps
<1> QED
  BY <1>1, <1>3, QuietStep

LEMMA StoreResultKeeps ==
    ASSUME LoopInv, NEW t \in Threads, StoreResult(t)
    PROVE  LoopInv'
<1>1. /\ SharedOK /\ LocalsAreFunctions /\ StoresOK
      /\ BegunOK(t) /\ PlansOK(t) /\ FreshOK(t) /\ DoneOK(t) /\ HandOK(t)
      /\ pc[t] = "store" /\ plans[t] # <<>> /\ Working(t) /\ Active(t) /\ IsSeq(executed)
      /\ result[t].plan = ThisId(t)
  BY DEF LoopInv, SharedOK, LocalOK, HandOK, Working, Active, Carrying, StoreResult
<1>2. /\ LocalsAreFunctions' /\ pc'[t] = "record" /\ executed' = Append(executed, result[t])
      /\ UNCHANGED <<eventLog, cycleCount, adaptations, aborted, plans, own, made, consented,
                     approval, result>>
  BY <1>1 DEF LocalsAreFunctions, StoreResult, Goto, history
<1>3. \A u \in Threads : u # t => Untouched(u)
  BY <1>1 DEF LocalsAreFunctions, StoreResult, Goto, Untouched, history
<1>4. /\ IsSeq(executed)' /\ ToSet(executed)' = ToSet(executed) \union {result[t]}
      /\ Spent' = Spent \union {ThisId(t)}
  BY <1>1, <1>2, SpentByAppend
<1>5. Known' = Known /\ KnownResults' = KnownResults
  BY <1>2 DEF Known, KnownResults
<1>6. PICK n \in Nat : n = Len(plans[t])
  BY <1>1, PlanAtHand
<1>7. n > 0 /\ ThisId(t) = plans[t][1].id /\ ThisId(t)[1] = own[t]
  BY <1>1, <1>6, PlanAtHand
<1>8. ThisId(t)[1] \in 1 .. cycleCount
  BY <1>1, <1>7 DEF BegunOK
<1>9. SharedOK'
  BY <1>1, <1>2, <1>4, <1>8 DEF SharedOK, IsSeq
<1>10. BegunOK(t)' /\ PlansOK(t)' /\ DoneOK(t)'
  BY <1>1, <1>2, <1>5 DEF BegunOK, PlansOK, DoneOK, Begun, Working, Active, Carrying
<1>11. \A i \in 1 .. n : i > 1 => plans[t][i].id # ThisId(t)
  BY <1>1, <1>6, <1>7 DEF PlansOK
<1>12. FreshOK(t)'
  BY <1>1, <1>2, <1>4, <1>5, <1>6, <1>11 DEF FreshOK
<1>13. ThisId(t)' = ThisId(t) /\ ThisPlan(t)' = ThisPlan(t)
  BY <1>2 DEF ThisId, ThisPlan
<1>14. HandOK(t)'
  BY <1>1, <1>2, <1>4, <1>13 DEF HandOK, Carrying
<1>15. StoresOK'
  <2>1. \A r \in ToSet(executed)' \ KnownResults' :
            \E u \in Threads : pc'[u] = "record" /\ result'[u] = r
    BY <1>1, <1>2, <1>3, <1>4, <1>5 DEF StoresOK, Untouched
  <2> QED
    BY <1>1, <1>2, <1>4, <1>5, <2>1 DEF StoresOK, EnactedOnlyWithConsent
<1>16. Grows(t, Spent, Spent') /\ Grows(t, Known, Known') /\ Grows(t, consented, consented')
  BY <1>1, <1>2, <1>4, <1>5, <1>7 DEF Grows
<1>17. LocalOK(t)'
  BY <1>10, <1>12, <1>14 DEF LocalOK
<1>18. cycleCount <= cycleCount'
  BY <1>1, <1>2 DEF SharedOK
<1> QED
  BY <1>1, <1>2, <1>3, <1>4, <1>9, <1>15, <1>16, <1>17, <1>18, Assemble

LEMMA RecordAdaptationKeeps ==
    ASSUME LoopInv, NEW t \in Threads, RecordAdaptation(t)
    PROVE  LoopInv'
<1> DEFINE a == [plan |-> ThisPlan(t), result |-> result[t]]
<1>1. /\ SharedOK /\ StoresOK /\ BegunOK(t) /\ PlansOK(t) /\ FreshOK(t) /\ HandOK(t)
      /\ pc[t] = "record" /\ plans[t] # <<>> /\ Carrying(t) /\ Working(t) /\ Active(t)
      /\ IsSeq(adaptations) /\ result[t].plan = ThisId(t) /\ result[t] \in ToSet(executed)
  BY DEF LoopInv, SharedOK, LocalOK, HandOK, Working, Active, Carrying, RecordAdaptation
<1>2. /\ NextPlan(t) /\ adaptations' = Append(adaptations, a)
      /\ UNCHANGED <<eventLog, cycleCount, executed, aborted, call, own, made, consented>>
  BY DEF RecordAdaptation, history
<1>3. a.plan = ThisPlan(t) /\ a.result = result[t]
  OBVIOUS
<1> HIDE DEF a
<1>4. /\ IsSeq(adaptations)' /\ ToSet(adaptations)' = ToSet(adaptations) \union {a}
      /\ Known' = Known \union {ThisId(t)}
      /\ KnownResults' = KnownResults \union {result[t]}
  BY <1>1, <1>2, <1>3, KnownByAppend
<1>5. LocalOK(t)' /\ LocalsAreFunctions' /\ \A u \in Threads : u # t => Untouched(u)
  BY <1>1, <1>2, <1>4, AdvanceKeeps
<1>6. ThisId(t) \notin Known /\ ThisId(t)[1] = own[t]
  BY <1>1, PlanAtHand DEF FreshOK
<1>7. Spent' = Spent
  BY <1>2 DEF Spent
<1>8. SharedOK'
  BY <1>1, <1>2, <1>4, <1>7 DEF SharedOK, IsSeq
<1>9. StoresOK'
  <2>1. KnownResults' \subseteq ToSet(executed)'
    BY <1>1, <1>2, <1>4 DEF StoresOK
  <2>2. \A r \in ToSet(executed)' \ KnownResults' :
            \E u \in Threads : pc'[u] = "record" /\ result'[u] = r
    <3> SUFFICES ASSUME NEW r \in ToSet(executed) \ KnownResults, r # result[t]
                 PROVE  \E u \in Threads : pc'[u] = "record" /\ result'[u] = r
      BY <1>2, <1>4
    <3>1. PICK u \in Threads : pc[u] = "record" /\ result[u] = r
      BY <1>1 DEF StoresOK
    <3> QED
      BY <1>5, <3>1 DEF Untouched
  <2>3. EnactedOnlyWithConsent'
    <3>1. ThresholdLevel(a.plan.risk) \in Gated =>
              (a.result.status # "blocked" <=> a.result.plan \in consented)
      BY <1>1, <1>3 DEF HandOK
    <3> QED
      BY <1>1, <1>2, <1>4, <3>1 DEF StoresOK, EnactedOnlyWithConsent
  <2>4. \A i, j \in 1 .. Len(adaptations') :
            adaptations'[i].result.plan = adaptations'[j].result.plan => i = j
    <3>1. PICK n \in Nat : n = Len(adaptations) /\ DOMAIN adaptations = 1 .. n
      BY <1>1, SeqHasDomain
    <3>2. /\ Len(adaptations') = n + 1
          /\ \A i \in 1 .. n : adaptations'[i] = adaptations[i]
          /\ adaptations'[n + 1] = a
      BY <1>1, <1>2, <3>1, AppendToSet
    <3>3. \A i \in 1 .. n : adaptations[i].result.plan # ThisId(t)
      BY <1>6, <3>1 DEF Known, ToSet
    <3>4. \A i, j \in 1 .. n :
              adaptations[i].result.plan = adaptations[j].result.plan => i = j
      BY <1>1, <3>1 DEF StoresOK
    <3> QED
      BY <1>1, <1>3, <3>2, <3>3, <3>4
  <2> QED
    BY <2>1, <2>2, <2>3, <2>4 DEF StoresOK
<1>10. Grows(t, Spent, Spent') /\ Grows(t, Known, Known') /\ Grows(t, consented, consented')
  BY <1>1, <1>2, <1>4, <1>6, <1>7 DEF Grows
<1>11. cycleCount <= cycleCount' /\ own'[t] = own[t]
  BY <1>1, <1>2 DEF SharedOK
<1> QED
  BY <1>1, <1>2, <1>5, <1>8, <1>9, <1>10, <1>11, Assemble

LEMMA ReadCycleCountKeeps ==
    ASSUME LoopInv, NEW t \in Threads, ReadCycleCount(t)
    PROVE  LoopInv'
<1>1. /\ LocalsAreFunctions /\ BegunOK(t) /\ PlansOK(t) /\ FreshOK(t) /\ DoneOK(t)
      /\ pc[t] = "approve" /\ plans[t] = <<>> /\ Active(t)
  BY DEF LoopInv, LocalOK, Working, Active, ReadCycleCount
<1>2. /\ LocalsAreFunctions' /\ pc'[t] = "auditCycle"
      /\ UNCHANGED <<eventLog, cycleCount, executed, adaptations, aborted, plans, own, made, consented>>
  BY <1>1 DEF LocalsAreFunctions, ReadCycleCount, Goto, shared, history
<1>3. \A u \in Threads : u # t => Untouched(u)
  BY <1>1 DEF LocalsAreFunctions, ReadCycleCount, Goto, Untouched, shared, history
<1>4. Spent' = Spent /\ Known' = Known
  BY <1>2 DEF Spent, Known
<1>5. Len(plans[t]) = 0
  BY <1>1, EmptySeq
<1>6. BegunOK(t)' /\ PlansOK(t)' /\ DoneOK(t)' /\ FreshOK(t)' /\ HandOK(t)'
  BY <1>1, <1>2, <1>4, <1>5
     DEF BegunOK, PlansOK, DoneOK, FreshOK, HandOK, Begun, Working, Active, Carrying
<1> QED
  BY <1>1, <1>2, <1>3, <1>6, QuietStep DEF LocalOK

LEMMA InitEstablishes == Init => LoopInv
<1> SUFFICES ASSUME Init PROVE LoopInv
  OBVIOUS
<1>1. <<>> \in Seq(Events) /\ IsSeq(<<>>) /\ Len(<<>>) = 0 /\ ToSet(<<>>) = {}
  BY EmptySeq DEF IsSeq, ToSet
<1>2. Known = {} /\ Spent = {} /\ KnownResults = {} /\ consented = {}
  BY <1>1 DEF Init, Known, Spent, KnownResults
<1>3. SharedOK
  BY <1>1, <1>2 DEF Init, SharedOK
<1>4. LocalsAreFunctions
  BY DEF Init, LocalsAreFunctions
<1>5. \A t \in Threads : ~Active(t) /\ pc[t] = "idle"
  BY DEF Init, Active, Begun, Working, Carrying
<1>6. \A t \in Threads : LocalOK(t)
  BY <1>5 DEF LocalOK, BegunOK, PlansOK, FreshOK, DoneOK, HandOK, Active, Begun, Working, Carrying
<1>7. StoresOK
  BY <1>1, <1>2 DEF Init, StoresOK, EnactedOnlyWithConsent
<1> QED
  BY <1>3, <1>4, <1>5, <1>6, <1>7 DEF LoopInv, NumbersDiffer

LEMMA StepKeeps == LoopInv /\ [Next]_vars => LoopInv'
<1> SUFFICES ASSUME LoopInv, [Next]_vars PROVE LoopInv'
  OBVIOUS
<1>1. ASSUME NEW t \in Threads, Call(t) PROVE LoopInv'
  BY <1>1, PublishKeeps, BeginCycleKeeps DEF Call
<1>2. ASSUME NEW t \in Threads, Continue(t) PROVE LoopInv'
  BY <1>2, NotifyKeeps, AuditMetricKeeps, GetEventsKeeps, AnalyzeAndPlanKeeps, ApproveByDefaultKeeps,
     AskForApprovalKeeps, GateKeeps, RolloutRaisesKeeps, StoreResultKeeps, RecordAdaptationKeeps,
     ReadCycleCountKeeps, AuditCycleKeeps
     DEF Continue
<1>3. CASE UNCHANGED vars
  BY <1>3 DEF vars, shared, locals, history, LoopInv, SharedOK, LocalsAreFunctions, NumbersDiffer,
     LocalOK, BegunOK, PlansOK, FreshOK, DoneOK, HandOK, StoresOK, EnactedOnlyWithConsent, Active,
     Begun, Working, Carrying, Known, KnownResults, Spent, ThisId, ThisPlan, IsSeq
<1> QED
  BY <1>1, <1>2, <1>3 DEF Next

LEMMA LoopInvariant == Spec => []LoopInv
  BY InitEstablishes, StepKeeps, PTL DEF Spec
-----------------------------------------------------------------------------
(* What follows from it. *)

LEMMA CountUpTo ==
    ASSUME NEW n \in Nat
    PROVE  IsFiniteSet(1 .. n) /\ Cardinality(1 .. n) = n
<1>1. IsFiniteSet(1 .. n) /\ Cardinality(1 .. n) = IF 1 > n THEN 0 ELSE n - 1 + 1
  BY FS_Interval
<1> QED
  BY <1>1

LEMMA OutcomesAreCounted ==
    ASSUME LoopInv
    PROVE  Cardinality(KnownResults) = Len(adaptations)
<1> DEFINE f == [i \in 1 .. Len(adaptations) |-> adaptations[i].result]
<1>1. IsSeq(adaptations) /\ StoresOK
  BY DEF LoopInv, SharedOK
<1>2. PICK n \in Nat : n = Len(adaptations) /\ DOMAIN adaptations = 1 .. n
  BY <1>1, SeqHasDomain
<1>3. f \in Surjection(1 .. n, KnownResults)
  BY <1>2 DEF Surjection, KnownResults, ToSet
<1>4. f \in Injection(1 .. n, KnownResults)
  BY <1>1, <1>2, <1>3 DEF Surjection, Injection, IsInjective, StoresOK
<1>5. IsFiniteSet(1 .. n) /\ Cardinality(1 .. n) = n
  BY CountUpTo
<1> HIDE DEF f
<1> QED
  BY <1>2, <1>3, <1>4, <1>5, FS_Surjection

(* However cycles overlap, the executor's list and the knowledge base agree, but for the
   result a thread is carrying from one to the other, and no outcome is stored twice. *)
THEOREM OutcomesAgree == Spec => []StoresAgree
<1>1. LoopInv => StoresAgree
  BY OutcomesAreCounted DEF LoopInv, StoresOK, StoresAgree, KnownResults
<1> QED
  BY <1>1, LoopInvariant, PTL

(* For any weights, metrics, hooks and callback answers: a plan of L3 or above is enacted
   just when a human consented to that very plan. *)
THEOREM ConsentGoverns == Spec => []EnactedOnlyWithConsent
<1>1. LoopInv => EnactedOnlyWithConsent
  BY DEF LoopInv, StoresOK
<1> QED
  BY <1>1, LoopInvariant, PTL

(* A cycle that comes to its audit has an outcome for each of its plans, unless a rollout
   hook raised for that plan. *)
THEOREM PlansAreAccountedFor == Spec => []CycleAccountsForPlans
<1>1. ASSUME LoopInv, NEW t \in Threads, pc[t] = "auditCycle", NEW m \in made[t]
      PROVE  m.id \in aborted \/ \E a \in ToSet(adaptations) : a.result.plan = m.id
  <2>1. DoneOK(t) /\ plans[t] = <<>> /\ Working(t)
    BY <1>1 DEF LoopInv, LocalOK, HandOK, Working
  <2>2. Len(plans[t]) = 0
    BY <2>1, EmptySeq
  <2>3. m.id \in aborted \union Known
    BY <1>1, <2>1, <2>2 DEF DoneOK
  <2> QED
    BY <2>3 DEF Known
<1>2. LoopInv => CycleAccountsForPlans
  BY <1>1 DEF CycleAccountsForPlans
<1> QED
  BY <1>2, LoopInvariant, PTL

(* For any number of samples a review asks for, and however cycles overlap: its advice to
   relax a gated level rests on as many different plans that a human consented to. *)
THEOREM AdviceRestsOnConsent == Spec => []RelaxRestsOnConsent
<1>1. ASSUME LoopInv, NEW level \in Relaxed(adaptations)
      PROVE  Cardinality({adaptations[i].result.plan : i \in Executions(adaptations, level)}
                             \intersect consented) >= MinSamples
  <2> DEFINE E == Executions(adaptations, level)
             T == {adaptations[i].result.plan : i \in E}
             f == [i \in E |-> adaptations[i].result.plan]
  <2>1. IsSeq(adaptations) /\ StoresOK
    BY <1>1 DEF LoopInv, SharedOK
  <2>2. PICK n \in Nat : n = Len(adaptations) /\ DOMAIN adaptations = 1 .. n
    BY <2>1, SeqHasDomain
  <2>3. E \in SUBSET (1 .. n)
    BY <2>2 DEF Executions, EntriesOf
  <2>4. IsFiniteSet(E)
    BY <2>3, CountUpTo, FS_Subset
  <2>5. Cardinality(E) >= MinSamples /\ level \in Gated
    BY <1>1 DEF Relaxed, EnoughSamples
  <2>6. \A i \in E : /\ ThresholdLevel(adaptations[i].plan.risk) \in Gated
                     /\ adaptations[i].result.status # "blocked"
                     /\ adaptations[i] \in ToSet(adaptations)
    BY <2>2, <2>3, <2>5 DEF Executions, EntriesOf, ToSet
  <2>7. T \subseteq consented
    BY <2>1, <2>6 DEF StoresOK, EnactedOnlyWithConsent
  <2>8. \A i, j \in E : adaptations[i].result.plan = adaptations[j].result.plan => i = j
    BY <2>1, <2>2, <2>3 DEF StoresOK
  <2>9. f \in Surjection(E, T)
    BY DEF Surjection
  <2>10. f \in Injection(E, T)
    BY <2>8 DEF Injection, IsInjective
  <2> HIDE DEF E, f
  <2>11. Cardinality(T) = Cardinality(E)
    BY <2>4, <2>9, <2>10, FS_Surjection
  <2>12. T \intersect consented = T
    BY <2>7
  <2> HIDE DEF T
  <2>13. Cardinality(T \intersect consented) >= MinSamples
    BY <2>5, <2>11, <2>12
  <2> QED
    BY <2>13 DEF T, E
<1>2. LoopInv => RelaxRestsOnConsent
  <2>1. \A r \in Review(adaptations).recommendations :
            r.kind = "relax" => r.level \in Relaxed(adaptations)
    BY DEF Review
  <2> QED
    BY <1>1, <2>1 DEF RelaxRestsOnConsent
<1> QED
  BY <1>2, LoopInvariant, PTL
-----------------------------------------------------------------------------
(* What the calls hold, on top of LoopInv: the log is only appended to, so what a cycle
   read of it stays a part of it, and its report covers what was there when it began. *)

CycleCall ==
    [kind : {"cycle"}, alerts : AlertLists, metrics : Metrics, events : Seq(Events),
     report : Report, number : Nat, began : Nat]

ReadOK(t) ==
    /\ Active(t) => call[t] \in CycleCall /\ call[t].began <= Len(eventLog)
    /\ pc[t] = "analyze" =>
          /\ call[t].began <= Len(call[t].events)
          /\ \A i \in 1 .. call[t].began : call[t].events[i] = eventLog[i]
    /\ Working(t) =>
          \A i \in 1 .. call[t].began : Breach(eventLog[i]) =>
              \E c \in ToSet(call[t].report.clusters) : Names(c, eventLog[i])

TypedOK(t) ==
    /\ own[t] \in 0 .. MaxCycles
    /\ made[t] \subseteq NamedPlan
    /\ Working(t) \/ (plans[t] = <<>> /\ made[t] = {})
    /\ pc[t] \in {"store", "record"} => result[t] \in Result

SharedTyped ==
    /\ Len(eventLog) <= MaxEvents
    /\ cycleCount <= MaxCycles
    /\ lastReport \in Report
    /\ ToSet(executed) \subseteq Result
    /\ ToSet(adaptations) \subseteq [plan : Plan, result : Result]

CallsInv == SharedTyped /\ \A t \in Threads : ReadOK(t) /\ TypedOK(t)

LogExtends ==
    /\ Len(eventLog) \in Nat /\ Len(eventLog)' \in Nat /\ Len(eventLog) <= Len(eventLog)'
    /\ \A i \in 1 .. Len(eventLog) : eventLog'[i] = eventLog[i]

LEMMA LogIsKept ==
    ASSUME LoopInv, UNCHANGED eventLog
    PROVE  LogExtends
<1>1. eventLog \in Seq(Events)
  BY DEF LoopInv, SharedOK
<1>2. Len(eventLog) \in Nat
  BY <1>1, LenProperties
<1> QED
  BY <1>2 DEF LogExtends

LEMMA EventsArePublished ==
    ASSUME LoopInv, NEW e \in Events, eventLog' = Append(eventLog, e)
    PROVE  LogExtends /\ Len(eventLog') = Len(eventLog) + 1
<1>1. eventLog \in Seq(Events)
  BY DEF LoopInv, SharedOK
<1>2. Len(eventLog) \in Nat
  BY <1>1, LenProperties
<1>3. /\ Len(Append(eventLog, e)) = Len(eventLog) + 1
      /\ \A i \in 1 .. Len(eventLog) : Append(eventLog, e)[i] = eventLog[i]
  BY <1>1, AppendProperties
<1> QED
  BY <1>2, <1>3 DEF LogExtends

LEMMA OthersAreUntouched ==
    ASSUME LoopInv, NEW t \in Threads, Call(t) \/ Continue(t), NEW u \in Threads, u # t
    PROVE  Untouched(u)
<1>1. LocalsAreFunctions
  BY DEF LoopInv
<1>2. CASE Call(t)
  BY <1>1, <1>2 DEF LocalsAreFunctions, Untouched, Call, Publish, BeginCycle, Goto, history
<1>3. ASSUME Return(t) PROVE Untouched(u)
  BY <1>1, <1>3 DEF LocalsAreFunctions, Untouched, Return, Goto
<1>4. ASSUME NextPlan(t), UNCHANGED <<call, own, made>> PROVE Untouched(u)
  BY <1>1, <1>4 DEF LocalsAreFunctions, Untouched, NextPlan, Goto
<1>5. CASE NotifySubscribers(t) \/ AuditMetric(t) \/ AuditCycle(t)
  BY <1>1, <1>3, <1>5
     DEF LocalsAreFunctions, Untouched, NotifySubscribers, AuditMetric, AuditCycle, Goto
<1>6. CASE GetEvents(t) \/ AnalyzeAndPlan(t) \/ ReadCycleCount(t)
  BY <1>1, <1>6
     DEF LocalsAreFunctions, Untouched, GetEvents, AnalyzeAndPlan, ReadCycleCount, Goto, history
<1>7. CASE ApproveByDefault(t)
  BY <1>1, <1>7 DEF LocalsAreFunctions, Untouched, ApproveByDefault, Goto, history
<1>8. CASE AskForApproval(t)
  BY <1>1, <1>3, <1>8 DEF LocalsAreFunctions, Untouched, AskForApproval, Refused, Goto
<1>9. CASE Block(t) \/ Rollout(t) \/ StoreResult(t)
  BY <1>1, <1>9
     DEF LocalsAreFunctions, Untouched, Block, Rollout, StoreResult, Finish, Goto, history
<1>10. CASE RolloutRaises(t) \/ RecordAdaptation(t)
  BY <1>4, <1>10 DEF RolloutRaises, RecordAdaptation, history
<1> QED
  BY <1>2, <1>5, <1>6, <1>7, <1>8, <1>9, <1>10 DEF Continue

(* What a cycle read and reported stays true of a log that grows. *)
LEMMA ReadIsKept ==
    ASSUME NEW t \in Threads, ReadOK(t), LogExtends,
           call'[t] = call[t], Active(t)' => Active(t), Working(t)' => Working(t),
           pc'[t] = "analyze" => pc[t] = "analyze"
    PROVE  ReadOK(t)'
<1> SUFFICES ASSUME Active(t), Active(t)' PROVE ReadOK(t)'
  BY DEF ReadOK, Active, Begun
<1>1. call[t] \in CycleCall /\ call[t].began <= Len(eventLog)
  BY DEF ReadOK
<1>2. call[t].began \in Nat
  BY <1>1 DEF CycleCall
<1>3. call[t].began <= Len(eventLog)'
  BY <1>1, <1>2 DEF LogExtends
<1>4. \A i \in 1 .. call[t].began : eventLog'[i] = eventLog[i]
  BY <1>1, <1>2 DEF LogExtends
<1> QED
  BY <1>1, <1>3, <1>4 DEF ReadOK

LEMMA OthersCallsAreKept ==
    ASSUME CallsInv, LogExtends, NEW u \in Threads, Untouched(u)
    PROVE  ReadOK(u)' /\ TypedOK(u)'
<1>1. ReadOK(u) /\ TypedOK(u)
  BY DEF CallsInv
<1>2. Active(u)' = Active(u) /\ Working(u)' = Working(u)
  BY DEF Untouched, Active, Begun, Working, Carrying
<1>3. ReadOK(u)'
  BY <1>1, <1>2, ReadIsKept DEF Untouched
<1> QED
  BY <1>1, <1>2, <1>3 DEF TypedOK, Untouched

LEMMA AssembleCalls ==
    ASSUME LoopInv, CallsInv, NEW t \in Threads, Call(t) \/ Continue(t), LogExtends,
           ReadOK(t)', TypedOK(t)', SharedTyped'
    PROVE  CallsInv'
  BY OthersAreUntouched, OthersCallsAreKept DEF CallsInv

(* A thread outside a cycle. *)
LEMMA IdleCalls ==
    ASSUME NEW t \in Threads, ~Active(t)', own'[t] \in 0 .. MaxCycles,
           plans'[t] = <<>>, made'[t] = {}, pc'[t] \notin {"store", "record"}
    PROVE  ReadOK(t)' /\ TypedOK(t)'
  BY DEF ReadOK, TypedOK, Active, Begun

LEMMA ReturnCalls ==
    ASSUME LoopInv, NEW t \in Threads, Return(t)
    PROVE  ReadOK(t)' /\ TypedOK(t)'
<1>1. pc'[t] = "idle" /\ plans'[t] = <<>> /\ made'[t] = {} /\ own'[t] = 0
  BY DEF LoopInv, LocalsAreFunctions, Return, Goto
<1>2. ~Active(t)'
  BY <1>1 DEF Active, Begun, Working, Carrying
<1>3. 0 \in 0 .. MaxCycles
  BY LoopAssumption
<1> QED
  BY <1>1, <1>2, <1>3, IdleCalls

(* A step of a cycle that goes through its plans. *)
LEMMA WorkingCalls ==
    ASSUME LoopInv, CallsInv, NEW t \in Threads, Working(t), Working(t)',
           UNCHANGED eventLog, call'[t] = call[t], own'[t] = own[t], made'[t] = made[t],
           pc'[t] \in {"store", "record"} => result'[t] \in Result
    PROVE  ReadOK(t)' /\ TypedOK(t)'
<1>1. ReadOK(t) /\ TypedOK(t) /\ Active(t)
  BY DEF CallsInv, Active
<1>2. pc'[t] # "analyze"
  BY DEF Working, Carrying
<1>3. ReadOK(t)'
  BY <1>1, <1>2, LogIsKept, ReadIsKept
<1> QED
  BY <1>1, <1>3 DEF TypedOK

LEMMA PublishCalls ==
    ASSUME LoopInv, CallsInv, NEW t \in Threads, NEW e \in Events, Publish(t, e)
    PROVE  CallsInv'
<1>1. /\ pc[t] = "idle" /\ pc'[t] = "notify" /\ plans'[t] = plans[t] /\ own'[t] = own[t]
      /\ made'[t] = made[t] /\ Len(eventLog) < MaxEvents /\ eventLog' = Append(eventLog, e)
      /\ UNCHANGED <<cycleCount, lastReport, executed, adaptations>>
  BY DEF LoopInv, LocalsAreFunctions, Publish, Goto, history
<1>2. ~Working(t) /\ ~Active(t)'
  BY <1>1 DEF Active, Begun, Working, Carrying
<1>3. ReadOK(t)' /\ TypedOK(t)'
  BY <1>1, <1>2, IdleCalls DEF CallsInv, TypedOK
<1>4. LogExtends /\ Len(eventLog') = Len(eventLog) + 1 /\ Len(eventLog) \in Nat
  BY <1>1, EventsArePublished DEF LogExtends
<1>5. Len(eventLog') <= MaxEvents
  BY <1>1, <1>4, LoopAssumption
<1>6. SharedTyped'
  BY <1>1, <1>5 DEF CallsInv, SharedTyped
<1> QED
  BY <1>3, <1>4, <1>6, AssembleCalls DEF Call

LEMMA BeginCycleCalls ==
    ASSUME LoopInv, CallsInv, NEW t \in Threads, NEW alerts \in AlertLists, NEW m \in Metrics,
           BeginCycle(t, alerts, m)
    PROVE  CallsInv'
<1>1. /\ pc[t] = "idle" /\ pc'[t] = "monitor" /\ plans'[t] = plans[t] /\ made'[t] = made[t]
      /\ own'[t] = cycleCount + 1 /\ cycleCount < MaxCycles /\ cycleCount' = cycleCount + 1
      /\ call'[t] = [kind |-> "cycle", alerts |-> alerts, metrics |-> m, events |-> <<>>,
                     report |-> NoReport, number |-> 0, began |-> Len(eventLog)]
      /\ UNCHANGED <<eventLog, lastReport, executed, adaptations>>
  BY DEF LoopInv, LocalsAreFunctions, BeginCycle, Goto
<1>2. ~Working(t) /\ ~Working(t)'
  BY <1>1 DEF Working, Carrying
<1>3. LogExtends /\ Len(eventLog) \in Nat
  BY <1>1, LogIsKept DEF LogExtends
<1>4. cycleCount \in Nat /\ cycleCount + 1 \in 0 .. MaxCycles
  BY <1>1, LoopAssumption DEF LoopInv, SharedOK
<1>5. TypedOK(t)'
  BY <1>1, <1>2, <1>4 DEF CallsInv, TypedOK
<1>6. NoReport \in Report
  BY EmptySeq DEF NoReport, Report, Severity
<1>7. call'[t] \in CycleCall /\ call'[t].began = Len(eventLog)
  BY <1>1, <1>3, <1>6, EmptySeq DEF CycleCall
<1>8. ReadOK(t)'
  BY <1>1, <1>2, <1>3, <1>7 DEF ReadOK
<1>9. SharedTyped'
  BY <1>1, <1>4 DEF CallsInv, SharedTyped
<1> QED
  BY <1>3, <1>5, <1>8, <1>9, AssembleCalls DEF Call

LEMMA GetEventsCalls ==
    ASSUME LoopInv, CallsInv, NEW t \in Threads, GetEvents(t)
    PROVE  CallsInv'
<1>1. /\ pc[t] = "monitor" /\ pc'[t] = "analyze" /\ plans'[t] = plans[t] /\ made'[t] = made[t]
      /\ own'[t] = own[t] /\ call'[t] = [call[t] EXCEPT !.events = eventLog]
      /\ UNCHANGED <<eventLog, cycleCount, lastReport, executed, adaptations>>
  BY DEF LoopInv, LocalsAreFunctions, GetEvents, ReadEvents, Goto, shared, history
<1>2. Active(t) /\ ~Working(t) /\ ~Working(t)'
  BY <1>1 DEF Active, Begun, Working, Carrying
<1>3. LogExtends /\ Len(eventLog) \in Nat /\ eventLog \in Seq(Events)
  BY <1>1, LogIsKept DEF LogExtends, LoopInv, SharedOK
<1>4. TypedOK(t)'
  BY <1>1, <1>2 DEF CallsInv, TypedOK
<1>5. call[t] \in CycleCall /\ call[t].began <= Len(eventLog)
  BY <1>2 DEF CallsInv, ReadOK
<1>6. /\ call'[t] \in CycleCall /\ call'[t].events = eventLog
      /\ call'[t].began = call[t].began
  BY <1>1, <1>3, <1>5 DEF CycleCall
<1>7. ReadOK(t)'
  BY <1>1, <1>2, <1>5, <1>6 DEF ReadOK
<1>8. SharedTyped'
  BY <1>1 DEF CallsInv, SharedTyped
<1> QED
  BY <1>3, <1>4, <1>7, <1>8, AssembleCalls DEF Continue

(* The report is made of what was read, whatever was published since. *)
LEMMA AnalyzeAndPlanCalls ==
    ASSUME LoopInv, CallsInv, NEW t \in Threads, AnalyzeAndPlan(t)
    PROVE  CallsInv'
<1> DEFINE report == Analyze(call[t].events, call[t].alerts)
           named == Named(own[t], Plans(report.clusters))
<1>1. /\ pc[t] = "analyze" /\ pc'[t] = "approve" /\ own'[t] = own[t]
      /\ call'[t] = [call[t] EXCEPT !.report = report] /\ lastReport' = report
      /\ made'[t] = ToSet(named)
      /\ UNCHANGED <<eventLog, cycleCount, executed, adaptations>>
  BY DEF LoopInv, LocalsAreFunctions, AnalyzeAndPlan, Goto, Named, ToSet
<1>2. Active(t) /\ Working(t)'
  BY <1>1 DEF Active, Begun, Working, Carrying
<1>3. /\ call[t] \in CycleCall /\ call[t].began <= Len(eventLog)
      /\ call[t].began <= Len(call[t].events)
      /\ \A i \in 1 .. call[t].began : call[t].events[i] = eventLog[i]
      /\ own[t] \in 0 .. MaxCycles /\ own[t] \in 1 .. cycleCount
  BY <1>1, <1>2 DEF CallsInv, ReadOK, TypedOK, LoopInv, LocalOK, BegunOK
<1>4. call[t].events \in Seq(Events) /\ call[t].alerts \in AlertLists /\ call[t].began \in Nat
  BY <1>3 DEF CycleCall
<1>5. cycleCount \in Nat /\ own[t] \in 1 .. MaxCycles
  BY <1>3 DEF LoopInv, SharedOK
<1>6. made'[t] \subseteq NamedPlan
  BY <1>1, <1>4, <1>5, NamedPlans
<1>7. TypedOK(t)'
  BY <1>1, <1>2, <1>3, <1>6 DEF TypedOK
<1>8. /\ report \in Report
      /\ \A i \in 1 .. Len(call[t].events) : Breach(call[t].events[i]) =>
             \E c \in ToSet(report.clusters) : Names(c, call[t].events[i])
  BY <1>4, CycleAnalysis, ReportsAreComplete
<1>9. Len(call[t].events) \in Nat
  BY <1>4, LenProperties
<1> HIDE DEF report, named
<1>10. \A i \in 1 .. call[t].began : Breach(eventLog[i]) =>
           \E c \in ToSet(report.clusters) : Names(c, eventLog[i])
  <2> SUFFICES ASSUME NEW i \in 1 .. call[t].began, Breach(eventLog[i])
               PROVE  \E c \in ToSet(report.clusters) : Names(c, eventLog[i])
    OBVIOUS
  <2>1. i \in 1 .. Len(call[t].events) /\ call[t].events[i] = eventLog[i]
    BY <1>3, <1>4, <1>9
  <2> QED
    BY <1>8, <2>1
<1>11. /\ call'[t] \in CycleCall /\ call'[t].report = report
       /\ call'[t].began = call[t].began
  BY <1>1, <1>3, <1>8 DEF CycleCall
<1>12. ReadOK(t)'
  BY <1>1, <1>3, <1>10, <1>11 DEF ReadOK
<1>13. SharedTyped'
  BY <1>1, <1>8 DEF CallsInv, SharedTyped
<1> QED
  BY <1>1, <1>7, <1>12, <1>13, LogIsKept, AssembleCalls DEF Continue

(* The approval of a plan, and its refusal: nothing is stored. *)
LEMMA ApprovalCalls ==
    ASSUME LoopInv, CallsInv, NEW t \in Threads, ApproveByDefault(t) \/ AskForApproval(t)
    PROVE  CallsInv'
<1>1. /\ UNCHANGED <<eventLog, cycleCount, lastReport, executed, adaptations>>
      /\ pc[t] = "approve" /\ Working(t)
  BY DEF ApproveByDefault, AskForApproval, shared, Working
<1>2. SharedTyped'
  BY <1>1 DEF CallsInv, SharedTyped
<1>3. CASE Return(t)
  BY <1>1, <1>2, <1>3, ReturnCalls, LogIsKept, AssembleCalls DEF Continue
<1>4. CASE pc'[t] = "execute" /\ UNCHANGED <<call, own, made>>
  <2>1. Working(t)'
    BY <1>4 DEF Working, Carrying
  <2>2. ReadOK(t)' /\ TypedOK(t)'
    BY <1>1, <1>4, <2>1, WorkingCalls
  <2> QED
    BY <1>1, <1>2, <2>2, LogIsKept, AssembleCalls DEF Continue
<1>5. Return(t) \/ (pc'[t] = "execute" /\ UNCHANGED <<call, own, made>>)
  BY DEF LoopInv, LocalsAreFunctions, ApproveByDefault, AskForApproval, Refused, Goto, history
<1> QED
  BY <1>3, <1>4, <1>5

(* The plan at hand, with its id, is one that the cycle made. *)
LEMMA ThisPlanIsTyped ==
    ASSUME LoopInv, CallsInv, NEW t \in Threads, Carrying(t)
    PROVE  Working(t) /\ plans[t] # <<>> /\ ThisId(t) \in PlanId /\ ThisPlan(t) \in Plan
<1>1. Working(t) /\ PlansOK(t) /\ plans[t] # <<>> /\ made[t] \subseteq NamedPlan
  BY DEF LoopInv, LocalOK, HandOK, Working, CallsInv, TypedOK
<1>2. PICK n \in Nat : n = Len(plans[t]) /\ n > 0 /\ Head(plans[t]) = plans[t][1]
  BY <1>1, PlanAtHand
<1>3. Head(plans[t]) \in NamedPlan
  BY <1>1, <1>2, PlanAtHand
<1> QED
  BY <1>1, <1>3 DEF ThisId, ThisPlan, NamedPlan

LEMMA GateCalls ==
    ASSUME LoopInv, CallsInv, NEW t \in Threads, Block(t) \/ Rollout(t)
    PROVE  CallsInv'
<1>1. PICK status \in {"blocked", "committed", "rolled_back"} : pc[t] = "execute" /\ Finish(t, status)
  BY DEF Block, Rollout
<1>2. /\ UNCHANGED <<eventLog, cycleCount, lastReport, executed, adaptations, call, own, made>>
      /\ pc'[t] = "store" /\ result'[t] = [plan |-> ThisId(t), status |-> status]
  BY <1>1 DEF LoopInv, LocalsAreFunctions, Finish, Goto, shared, history
<1>3. Working(t)' /\ Carrying(t)
  BY <1>1, <1>2 DEF Working, Carrying
<1>4. Working(t) /\ ThisId(t) \in PlanId
  BY <1>3, ThisPlanIsTyped
<1>5. result'[t] \in Result
  BY <1>2, <1>4 DEF Result
<1>6. ReadOK(t)' /\ TypedOK(t)'
  BY <1>2, <1>3, <1>4, <1>5, WorkingCalls
<1>7. SharedTyped'
  BY <1>2 DEF CallsInv, SharedTyped
<1> QED
  BY <1>2, <1>6, <1>7, LogIsKept, AssembleCalls DEF Continue

LEMMA RolloutRaisesCalls ==
    ASSUME LoopInv, CallsInv, NEW t \in Threads, RolloutRaises(t)
    PROVE  CallsInv'
<1>1. /\ UNCHANGED <<eventLog, cycleCount, lastReport, executed, adaptations, call, own, made>>
      /\ pc'[t] = "approve" /\ pc[t] = "execute"
  BY DEF LoopInv, LocalsAreFunctions, RolloutRaises, NextPlan, Goto, shared
<1>2. Working(t) /\ Working(t)'
  BY <1>1 DEF Working, Carrying
<1>3. ReadOK(t)' /\ TypedOK(t)'
  BY <1>1, <1>2, WorkingCalls
<1>4. SharedTyped'
  BY <1>1 DEF CallsInv, SharedTyped
<1> QED
  BY <1>1, <1>3, <1>4, LogIsKept, AssembleCalls DEF Continue

LEMMA StoreResultCalls ==
    ASSUME LoopInv, CallsInv, NEW t \in Threads, StoreResult(t)
    PROVE  CallsInv'
<1>1. /\ UNCHANGED <<eventLog, cycleCount, lastReport, adaptations, call, own, made, result>>
      /\ executed' = Append(executed, result[t]) /\ pc'[t] = "record" /\ pc[t] = "store"
      /\ IsSeq(executed)
  BY DEF LoopInv, SharedOK, LocalsAreFunctions, StoreResult, Goto, history
<1>2. Working(t) /\ Working(t)'
  BY <1>1 DEF Working, Carrying
<1>3. result[t] \in Result
  BY <1>1 DEF CallsInv, TypedOK
<1>4. ReadOK(t)' /\ TypedOK(t)'
  BY <1>1, <1>2, <1>3, WorkingCalls
<1>5. ToSet(executed)' = ToSet(executed) \union {result[t]}
  BY <1>1, AppendToSet
<1>6. SharedTyped'
  BY <1>1, <1>3, <1>5 DEF CallsInv, SharedTyped
<1> QED
  BY <1>1, <1>4, <1>6, LogIsKept, AssembleCalls DEF Continue

LEMMA RecordAdaptationCalls ==
    ASSUME LoopInv, CallsInv, NEW t \in Threads, RecordAdaptation(t)
    PROVE  CallsInv'
<1> DEFINE a == [plan |-> ThisPlan(t), result |-> result[t]]
<1>1. /\ UNCHANGED <<eventLog, cycleCount, lastReport, executed, call, own, made>>
      /\ adaptations' = Append(adaptations, a) /\ pc'[t] = "approve" /\ pc[t] = "record"
      /\ IsSeq(adaptations)
  BY DEF LoopInv, SharedOK, LocalsAreFunctions, RecordAdaptation, NextPlan, Goto, history
<1>2. Carrying(t) /\ Working(t) /\ Working(t)'
  BY <1>1 DEF Working, Carrying
<1>3. result[t] \in Result /\ ThisPlan(t) \in Plan
  BY <1>1, <1>2, ThisPlanIsTyped DEF CallsInv, TypedOK
<1>4. a \in [plan : Plan, result : Result]
  BY <1>3
<1> HIDE DEF a
<1>5. ReadOK(t)' /\ TypedOK(t)'
  BY <1>1, <1>2, WorkingCalls
<1>6. ToSet(adaptations)' = ToSet(adaptations) \union {a}
  BY <1>1, AppendToSet
<1>7. SharedTyped'
  BY <1>1, <1>4, <1>6 DEF CallsInv, SharedTyped
<1> QED
  BY <1>1, <1>5, <1>7, LogIsKept, AssembleCalls DEF Continue

LEMMA ReadCycleCountCalls ==
    ASSUME LoopInv, CallsInv, NEW t \in Threads, ReadCycleCount(t)
    PROVE  CallsInv'
<1>1. /\ UNCHANGED <<eventLog, cycleCount, lastReport, executed, adaptations, own, made, plans>>
      /\ call'[t] = [call[t] EXCEPT !.number = cycleCount]
      /\ pc'[t] = "auditCycle" /\ pc[t] = "approve" /\ cycleCount \in Nat
  BY DEF LoopInv, SharedOK, LocalsAreFunctions, ReadCycleCount, Goto, shared, history
<1>2. Working(t) /\ Working(t)' /\ Active(t)
  BY <1>1 DEF Active, Working, Carrying
<1>3. ReadOK(t) /\ TypedOK(t) /\ call[t] \in CycleCall
  BY <1>2 DEF CallsInv, ReadOK
<1>4. /\ call'[t] \in CycleCall /\ call'[t].began = call[t].began
      /\ call'[t].report = call[t].report
  BY <1>1, <1>3 DEF CycleCall
<1>5. ReadOK(t)'
  BY <1>1, <1>2, <1>3, <1>4 DEF ReadOK
<1>6. TypedOK(t)'
  BY <1>1, <1>2, <1>3 DEF TypedOK
<1>7. SharedTyped'
  BY <1>1 DEF CallsInv, SharedTyped
<1> QED
  BY <1>1, <1>5, <1>6, <1>7, LogIsKept, AssembleCalls DEF Continue

LEMMA NotifyCalls ==
    ASSUME LoopInv, CallsInv, NEW t \in Threads, NotifySubscribers(t)
    PROVE  CallsInv'
<1>1. /\ UNCHANGED <<eventLog, cycleCount, lastReport, executed, adaptations>> /\ pc[t] = "notify"
  BY DEF NotifySubscribers, shared
<1>2. SharedTyped'
  BY <1>1 DEF CallsInv, SharedTyped
<1>3. CASE Return(t)
  BY <1>1, <1>2, <1>3, ReturnCalls, LogIsKept, AssembleCalls DEF Continue
<1>4. CASE Goto(t, "auditMetric") /\ UNCHANGED <<call, plans, approval, result, own, made>>
  <2>1. pc'[t] = "auditMetric"
    BY <1>4 DEF LoopInv, LocalsAreFunctions, Goto
  <2>2. ~Working(t) /\ ~Active(t)'
    BY <1>1, <2>1 DEF Active, Begun, Working, Carrying
  <2>3. ReadOK(t)' /\ TypedOK(t)'
    BY <1>4, <2>1, <2>2, IdleCalls DEF CallsInv, TypedOK
  <2> QED
    BY <1>1, <1>2, <2>3, LogIsKept, AssembleCalls DEF Continue
<1> QED
  BY <1>3, <1>4 DEF NotifySubscribers

LEMMA AuditCalls ==
    ASSUME LoopInv, CallsInv, NEW t \in Threads, AuditMetric(t) \/ AuditCycle(t)
    PROVE  CallsInv'
<1>1. UNCHANGED <<eventLog, cycleCount, lastReport, executed, adaptations>> /\ Return(t)
  BY DEF AuditMetric, AuditCycle
<1>2. SharedTyped'
  BY <1>1 DEF CallsInv, SharedTyped
<1> QED
  BY <1>1, <1>2, ReturnCalls, LogIsKept, AssembleCalls DEF Continue

LEMMA InitCalls == Init => CallsInv
<1> SUFFICES ASSUME Init PROVE CallsInv
  OBVIOUS
<1>1. ToSet(<<>>) = {} /\ Len(<<>>) = 0 /\ NoReport \in Report
  BY EmptySeq DEF ToSet, NoReport, Report, Severity
<1>2. SharedTyped
  BY <1>1, LoopAssumption DEF Init, SharedTyped
<1>3. 0 \in 0 .. MaxCycles
  BY LoopAssumption
<1>4. \A t \in Threads : ReadOK(t) /\ TypedOK(t)
  BY <1>3 DEF Init, ReadOK, TypedOK, Active, Begun, Working, Carrying
<1> QED
  BY <1>2, <1>4 DEF CallsInv

LEMMA StepCalls == LoopInv /\ CallsInv /\ [Next]_vars => CallsInv'
<1> SUFFICES ASSUME LoopInv, CallsInv, [Next]_vars PROVE CallsInv'
  OBVIOUS
<1>1. ASSUME NEW t \in Threads, Call(t) PROVE CallsInv'
  BY <1>1, PublishCalls, BeginCycleCalls DEF Call
<1>2. ASSUME NEW t \in Threads, Continue(t) PROVE CallsInv'
  BY <1>2, NotifyCalls, AuditCalls, GetEventsCalls, AnalyzeAndPlanCalls, ApprovalCalls, GateCalls,
     RolloutRaisesCalls, StoreResultCalls, RecordAdaptationCalls, ReadCycleCountCalls
     DEF Continue
<1>3. CASE UNCHANGED vars
  BY <1>3 DEF vars, shared, locals, history, CallsInv, SharedTyped, ReadOK, TypedOK, Active, Begun,
     Working, Carrying
<1> QED
  BY <1>1, <1>2, <1>3 DEF Next

LEMMA CallsInvariant == Spec => [](LoopInv /\ CallsInv)
<1>1. Init => LoopInv /\ CallsInv
  BY InitEstablishes, InitCalls
<1>2. (LoopInv /\ CallsInv) /\ [Next]_vars => (LoopInv /\ CallsInv)'
  BY StepKeeps, StepCalls
<1> QED
  BY <1>1, <1>2, PTL DEF Spec

(* For any number of threads, rules, events, weights and cycles: every variable keeps to
   its type, and a thread that executes or stores has a plan and its own result at hand. *)
THEOREM LoopTypes == Spec => []TypeOK
<1>1. ASSUME LoopInv, CallsInv PROVE TypeOK
  <2>1. eventLog \in Seq(Events) /\ cycleCount \in Nat
    BY <1>1 DEF LoopInv, SharedOK
  <2>2. Len(eventLog) <= MaxEvents /\ ToSet(eventLog) \subseteq Events
    <3>1. \A i \in DOMAIN eventLog : eventLog[i] \in Events
      BY <2>1, LenProperties, ElementOfSeq
    <3> QED
      BY <1>1, <3>1 DEF CallsInv, SharedTyped, ToSet
  <2>3. cycleCount \in 0 .. MaxCycles
    BY <1>1, <2>1, LoopAssumption DEF CallsInv, SharedTyped
  <2>4. lastReport.severity \in Severity /\ ToSet(lastReport.clusters) \subseteq Cluster
    <3>1. lastReport.severity \in Severity /\ lastReport.clusters \in Seq(Cluster)
      BY <1>1 DEF CallsInv, SharedTyped, Report
    <3>2. \A i \in DOMAIN lastReport.clusters : lastReport.clusters[i] \in Cluster
      BY <3>1, LenProperties, ElementOfSeq
    <3> QED
      BY <3>1, <3>2 DEF ToSet
  <2>5. ASSUME NEW t \in Threads
        PROVE  /\ ToSet(plans[t]) \subseteq NamedPlan
               /\ pc[t] \in {"execute", "store", "record"} => plans[t] # <<>>
               /\ pc[t] \in {"store", "record"} => result[t] \in Result /\ result[t].plan = ThisId(t)
    <3>1. LocalOK(t) /\ TypedOK(t)
      BY <1>1 DEF LoopInv, CallsInv
    <3>2. ToSet(plans[t]) \subseteq NamedPlan
      <4>1. CASE Working(t)
        <5>1. plans[t] \in Seq(made[t]) /\ made[t] \subseteq NamedPlan
          BY <3>1, <4>1 DEF LocalOK, PlansOK, TypedOK
        <5>2. \A i \in DOMAIN plans[t] : plans[t][i] \in made[t]
          BY <5>1, LenProperties, ElementOfSeq
        <5> QED
          BY <5>1, <5>2 DEF ToSet
      <4>2. CASE ~Working(t)
        BY <3>1, <4>2 DEF TypedOK, ToSet
      <4> QED
        BY <4>1, <4>2
    <3>3. pc[t] \in {"execute", "store", "record"} => plans[t] # <<>>
      BY <3>1 DEF LocalOK, HandOK, Carrying
    <3>4. pc[t] \in {"store", "record"} => result[t] \in Result /\ result[t].plan = ThisId(t)
      BY <3>1 DEF LocalOK, HandOK, TypedOK
    <3> QED
      BY <3>2, <3>3, <3>4
  <2>6. approval \in [Threads -> BOOLEAN] /\ own \in [Threads -> 0 .. MaxCycles]
    BY <1>1 DEF LoopInv, LocalsAreFunctions, CallsInv, TypedOK
  <2>7. ToSet(executed) \subseteq Result /\ ToSet(adaptations) \subseteq [plan : Plan, result : Result]
    BY <1>1 DEF CallsInv, SharedTyped
  <2> QED
    BY <2>2, <2>3, <2>4, <2>5, <2>6, <2>7 DEF TypeOK
<1> QED
  BY <1>1, CallsInvariant, PTL

(* Whoever publishes meanwhile, and however many events there are: the report of a cycle
   names the cause of every breach that was in the log before the cycle began. *)
THEOREM BreachesAreReported == Spec => []NoBreachMissed
<1>1. CallsInv => NoBreachMissed
  BY DEF CallsInv, ReadOK, Working, Carrying, NoBreachMissed, Breach, Names
<1> QED
  BY <1>1, CallsInvariant, PTL

(* Whatever the rules, the events and the alerts: no plan that a cycle makes would have to
   wait for a human under the default weights. *)
THEOREM PlansNeedNobody == Spec => []DefaultPlansAreAutonomous
<1>1. ASSUME CallsInv, NEW t \in Threads, NEW m \in made[t]
      PROVE  ThresholdLevel(RiskOf(DefaultWeights, m.plan.cluster)) \notin Gated
  <2>1. m \in NamedPlan
    BY <1>1 DEF CallsInv, TypedOK
  <2>2. m.plan.cluster \in Cluster
    BY <2>1 DEF NamedPlan, Plan
  <2>3. Plannable(m.plan.cluster)
    BY <2>2 DEF Plannable, Cluster
  <2> QED
    BY <2>3, DefaultPlannerAsksNobody
<1>2. CallsInv => DefaultPlansAreAutonomous
  BY <1>1 DEF DefaultPlansAreAutonomous
<1> QED
  BY <1>2, CallsInvariant, PTL
=============================================================================
