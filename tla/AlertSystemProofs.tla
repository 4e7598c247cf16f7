-------------------------- MODULE AlertSystemProofs --------------------------
(***************************************************************************)
(* Proofs about AlertSystem for every set of alerts and threads, every     *)
(* window and every clock bound.                                           *)
(***************************************************************************)
EXTENDS AlertSystem, SequenceTheorems, TLAPS

(* A thread inside a call works on a real alert, and one inside approve() or
   deny() is about to write a real verdict. *)
WorkOK ==
    \A t \in Threads :
        /\ pc[t] \in {"insert", "dispatch", "record", "freeze", "onFreeze", "setApproved",
                      "setResolvedAt", "setEvent", "waiting", "woken"} => cur[t] \in Alerts
        /\ pc[t] = "setApproved" => verdict[t] \in Verdict

TypeInv == TypeOK /\ WorkOK

(* What dispatch returns is a sequence of receipts for the alert it was given. *)
LEMMA DispatchType ==
    ASSUME NEW a \in Alerts, NEW v \in BOOLEAN, NEW d \in SUBSET Channel
    PROVE  Dispatch(a, v, d) \in Seq(Receipt)
<1>1. \A c \in Channel : Send(c, a, d) \in Receipt
  BY DEF Send, Receipt, Channel
<1> DEFINE voice == IF v THEN <<Send("voice", a, d)>> ELSE <<>>
           push == <<Send("push", a, d)>>
           sms == IF "push" \in d THEN <<>> ELSE <<Send("sms", a, d)>>
           email == <<Send("email", a, d)>>
<1>2. voice \in Seq(Receipt) /\ push \in Seq(Receipt) /\ sms \in Seq(Receipt)
        /\ email \in Seq(Receipt)
  BY <1>1 DEF Channel
<1> HIDE DEF voice, push, sms, email
<1>3. voice \o push \o sms \o email \in Seq(Receipt)
  BY <1>2, ConcatProperties
<1> QED
  BY <1>3 DEF Dispatch, voice, push, sms, email

(* The initial state is well typed. *)
LEMMA TypeInit == Init => TypeInv
<1> SUFFICES ASSUME Init PROVE TypeInv
  OBVIOUS
<1> USE AlertAssumption DEF AlertAssumption, Init, Time, PC, NoTime
<1>1. /\ now \in Time
      /\ pending \in Seq(Alerts)
      /\ level \in [Alerts -> Level \union {Unbuilt}]
      /\ deadline \in [Alerts -> Time \union {NoTime}]
      /\ approved \in [Alerts -> Verdict \union {Undecided}]
  OBVIOUS
<1>2. resolvedAt \in [Alerts -> BOOLEAN] /\ event \in [Alerts -> BOOLEAN]
  OBVIOUS
<1>3. receipts \in Seq(Receipt)
  OBVIOUS
<1>4. handed \in [Alerts -> {"nothing", "handle", "exception"}]
  OBVIOUS
<1>5. frozen \in BOOLEAN /\ unfrozen \in BOOLEAN
  OBVIOUS
<1>6. /\ pc \in [Threads -> PC]
      /\ cur \in [Threads -> Alerts \union {NoAlert}]
      /\ verdict \in [Threads -> Verdict \union {Undecided}]
      /\ sweepNow \in [Threads -> Time \union {NoTime}]
      /\ todo \in [Threads -> Seq(Alerts)]
      /\ outbox \in [Threads -> Seq(Receipt)]
  OBVIOUS
<1>7. said \in [Alerts -> SUBSET Verdict] /\ spared \in [Threads -> SUBSET Alerts]
  OBVIOUS
<1>8. WorkOK
  BY DEF WorkOK
<1> QED
  BY <1>1, <1>2, <1>3, <1>4, <1>5, <1>6, <1>7, <1>8 DEF TypeInv, TypeOK

(* A step of the specification is one of its actions, taken by some thread. *)
LEMMA StepCases ==
    ASSUME [Next]_vars
    PROVE  \/ \E t \in Threads, a \in Alerts :
                 \/ \E l \in Level : BuildAlert(t, a, l)
                 \/ \E v \in Verdict : Respond(t, a, v)
                 \/ Wait(t, a)
           \/ \E t \in Threads : \/ Unfreeze(t) \/ ProcessTimeouts(t) \/ Continue(t)
           \/ Tick
           \/ UNCHANGED vars
<1>1. CASE \E t \in Clients : Call(t)
  <2>1. PICK t \in Clients : Call(t)
    BY <1>1
  <2>2. t \in Threads
    BY DEF Threads
  <2>3. \A a \in Alerts : RaiseAlert(t, a) \/ RaiseIntegrityAlert(t, a)
                             \/ (\E r \in VerificationResult : RaiseVerificationAlert(t, a, r))
          => \E l \in Level : BuildAlert(t, a, l)
    BY AlertAssumption
       DEF AlertAssumption, Level, RaiseAlert, RaiseIntegrityAlert, RaiseVerificationAlert
  <2> QED
    BY <2>1, <2>2, <2>3 DEF Call
<1> QED
  BY <1>1 DEF Next

(* Every step of every thread keeps the state well typed. *)
LEMMA TypeStep == TypeInv /\ [Next]_vars => TypeInv'
<1> SUFFICES ASSUME TypeInv, [Next]_vars PROVE TypeInv'
  OBVIOUS
<1> USE AlertAssumption DEF AlertAssumption, TypeInv, TypeOK, WorkOK, clock, payloads,
        decisions, system, locals, history, Time, NoTime, Goto, Idle, PC, Level
<1>1. ASSUME NEW t \in Threads, NEW a \in Alerts, NEW l \in Level, BuildAlert(t, a, l)
      PROVE TypeInv'
  BY <1>1, SMTT(60) DEF BuildAlert, TimeoutWindow
<1>2. ASSUME NEW t \in Threads, NEW a \in Alerts, NEW v \in Verdict, Respond(t, a, v)
      PROVE TypeInv'
  BY <1>2 DEF Respond
<1>3. ASSUME NEW t \in Threads, NEW a \in Alerts, Wait(t, a) PROVE TypeInv'
  BY <1>3 DEF Wait
<1>4. ASSUME NEW t \in Threads, Unfreeze(t) PROVE TypeInv'
  BY <1>4 DEF Unfreeze
<1>5. ASSUME NEW t \in Threads, ProcessTimeouts(t) PROVE TypeInv'
  BY <1>5 DEF ProcessTimeouts
<1>6. ASSUME NEW t \in Threads, InsertPending(t) PROVE TypeInv'
  BY <1>6, AppendProperties DEF InsertPending
<1>7. ASSUME NEW t \in Threads, DispatchAlert(t) PROVE TypeInv'
  <2>1. \A d \in SUBSET Reachable : Dispatch(cur[t], level[cur[t]] = "L4", d) \in Seq(Receipt)
    BY <1>7, DispatchType DEF DispatchAlert
  <2> QED
    BY <1>7, <2>1 DEF DispatchAlert
<1>8. ASSUME NEW t \in Threads, RecordReceipts(t) PROVE TypeInv'
  <2>1. receipts' \in Seq(Receipt)
    <3>1. receipts \in Seq(Receipt) /\ outbox[t] \in Seq(Receipt)
      OBVIOUS
    <3>2. receipts \o outbox[t] \in Seq(Receipt)
      BY <3>1, ConcatProperties
    <3> QED
      BY <1>8, <3>2 DEF RecordReceipts, Critical
  <2>2. CASE Critical(t)
    <3>1. /\ pc[t] = "record" /\ Goto(t, "freeze")
          /\ outbox' = [outbox EXCEPT ![t] = <<>>]
          /\ UNCHANGED <<handed, cur, verdict, sweepNow, todo, spared>>
          /\ UNCHANGED <<clock, payloads, decisions, pending, frozen, said, unfrozen>>
      BY <1>8, <2>2 DEF RecordReceipts, Critical
    <3> QED
      BY <2>1, <3>1
  <2>3. CASE ~Critical(t)
    <3>1. /\ pc[t] = "record" /\ Return(t)
          /\ handed' = [handed EXCEPT ![cur[t]] = "handle"]
          /\ UNCHANGED <<clock, payloads, decisions, pending, frozen, said, unfrozen>>
      BY <1>8, <2>3 DEF RecordReceipts, Critical
    <3> QED
      BY <2>1, <3>1 DEF Return
  <2> QED
    BY <2>2, <2>3
<1>9. ASSUME NEW t \in Threads, TriggerFreeze(t) PROVE TypeInv'
  BY <1>9 DEF TriggerFreeze
<1>10. ASSUME NEW t \in Threads, OnFreeze(t) PROVE TypeInv'
  BY <1>10 DEF OnFreeze, Return
<1>11. ASSUME NEW t \in Threads, SetApproved(t) PROVE TypeInv'
  BY <1>11 DEF SetApproved
<1>12. ASSUME NEW t \in Threads, SetResolvedAt(t) PROVE TypeInv'
  BY <1>12 DEF SetResolvedAt
<1>13. ASSUME NEW t \in Threads, SetEvent(t) PROVE TypeInv'
  <2> DEFINE common == /\ pc[t] = "setEvent"
                       /\ event' = [event EXCEPT ![cur[t]] = TRUE]
                       /\ UNCHANGED <<clock, payloads, approved, resolvedAt, system, said, unfrozen>>
  <2>1. CASE InSweep(t)
    <3>1. /\ common /\ Goto(t, "sweep")
          /\ cur' = [cur EXCEPT ![t] = NoAlert]
          /\ verdict' = [verdict EXCEPT ![t] = Undecided]
          /\ UNCHANGED <<sweepNow, todo, outbox, spared>>
      BY <1>13, <2>1 DEF SetEvent
    <3> QED
      BY <3>1
  <2>2. CASE ~InSweep(t)
    <3>1. common /\ Return(t)
      BY <1>13, <2>2 DEF SetEvent
    <3> QED
      BY <3>1 DEF Return
  <2> QED
    BY <2>1, <2>2
<1>14. ASSUME NEW t \in Threads, SnapshotPending(t) PROVE TypeInv'
  BY <1>14 DEF SnapshotPending, Snapshot
<1>15. ASSUME NEW t \in Threads, SweepItem(t) PROVE TypeInv'
  <2>1. todo[t] \in Seq(Alerts) /\ todo[t] # <<>>
    BY <1>15 DEF SweepItem
  <2>2. Head(todo[t]) \in Alerts /\ Tail(todo[t]) \in Seq(Alerts)
    BY <2>1, HeadTailProperties
  <2>3. DefaultVerdict(level[Head(todo[t])]) \in Verdict
    BY DEF DefaultVerdict, Verdict
  <2> DEFINE a == Head(todo[t])
             common == /\ pc[t] = "sweep"
                       /\ todo' = [todo EXCEPT ![t] = Tail(@)]
                       /\ UNCHANGED <<clock, payloads, decisions, system, sweepNow, outbox, history>>
  <2>4. CASE TimedOut(t, a)
    <3>1. /\ common /\ Goto(t, "setApproved")
          /\ cur' = [cur EXCEPT ![t] = a]
          /\ verdict' = [verdict EXCEPT ![t] = DefaultVerdict(level[a])]
      BY <1>15, <2>4 DEF SweepItem
    <3> QED
      BY <2>2, <2>3, <3>1
  <2>5. CASE ~TimedOut(t, a)
    <3>1. common /\ UNCHANGED <<pc, cur, verdict>>
      BY <1>15, <2>5 DEF SweepItem
    <3> QED
      BY <2>2, <3>1
  <2> QED
    BY <2>4, <2>5
<1>16. ASSUME NEW t \in Threads, SweepDone(t) PROVE TypeInv'
  BY <1>16 DEF SweepDone, Return
<1>17. ASSUME NEW t \in Threads, WaitReturnsTrue(t) PROVE TypeInv'
  BY <1>17 DEF WaitReturnsTrue
<1>18. ASSUME NEW t \in Threads, WaitTimesOut(t) PROVE TypeInv'
  BY <1>18 DEF WaitTimesOut, Return
<1>19. ASSUME NEW t \in Threads, ReadDecision(t) PROVE TypeInv'
  BY <1>19 DEF ReadDecision, Return
<1>20. CASE Tick
  BY <1>20 DEF Tick
<1>21. CASE UNCHANGED vars
  BY <1>21 DEF vars
<1> HIDE DEF TypeInv
<1> QED
  BY StepCases, <1>1, <1>2, <1>3, <1>4, <1>5, <1>6, <1>7, <1>8, <1>9, <1>10, <1>11, <1>12, <1>13,
     <1>14, <1>15, <1>16, <1>17, <1>18, <1>19, <1>20, <1>21 DEF Continue

(* The type invariant of AlertSystem holds for every instance: threads, alerts,
   windows and clock bound are arbitrary. *)
THEOREM AlertTypes == Spec => []TypeOK
<1>1. TypeInv => TypeOK
  BY DEF TypeInv
<1> QED
  BY <1>1, TypeInit, TypeStep, PTL DEF Spec

-----------------------------------------------------------------------------

(* Who may be about to approve: a thread that a human sent, or a sweep of an L2 request. *)
GateInv ==
    /\ NoGatedAutoApproval
    /\ \A t \in Threads : pc[t] = "setApproved" /\ verdict[t] = "approved" =>
           level[cur[t]] = "L2" \/ "approved" \in said[cur[t]]

(* No step of any thread breaks it. *)
LEMMA GateStep == TypeInv /\ GateInv /\ [Next]_vars => GateInv'
<1> SUFFICES ASSUME TypeInv, GateInv, [Next]_vars PROVE GateInv'
  OBVIOUS
<1>0. /\ pc \in [Threads -> PC] /\ cur \in [Threads -> Alerts \union {NoAlert}]
      /\ verdict \in [Threads -> Verdict \union {Undecided}]
      /\ level \in [Alerts -> Level \union {Unbuilt}] /\ said \in [Alerts -> SUBSET Verdict]
      /\ approved \in [Alerts -> Verdict \union {Undecided}]
      /\ \A t \in Threads : pc[t] = "setApproved" => cur[t] \in Alerts
  BY DEF TypeInv, TypeOK, WorkOK
<1> USE DEF clock, payloads, decisions, system, locals, history, Goto, Idle
<1>1. ASSUME NEW t \in Threads, NEW a \in Alerts, NEW l \in Level, BuildAlert(t, a, l)
      PROVE GateInv'
  BY <1>0, <1>1 DEF BuildAlert, GateInv, NoGatedAutoApproval, Unbuilt
<1>2. ASSUME NEW t \in Threads, NEW a \in Alerts, NEW v \in Verdict, Respond(t, a, v)
      PROVE GateInv'
  BY <1>0, <1>2 DEF Respond, GateInv, NoGatedAutoApproval
<1>3. ASSUME NEW t \in Threads, NEW a \in Alerts, Wait(t, a) PROVE GateInv'
  BY <1>0, <1>3 DEF Wait, GateInv, NoGatedAutoApproval
<1>4. ASSUME NEW t \in Threads, Unfreeze(t) PROVE GateInv'
  BY <1>0, <1>4 DEF Unfreeze, GateInv, NoGatedAutoApproval
<1>5. ASSUME NEW t \in Threads, ProcessTimeouts(t) PROVE GateInv'
  BY <1>0, <1>5 DEF ProcessTimeouts, GateInv, NoGatedAutoApproval
<1>6. ASSUME NEW t \in Threads, InsertPending(t) PROVE GateInv'
  BY <1>0, <1>6 DEF InsertPending, GateInv, NoGatedAutoApproval
<1>7. ASSUME NEW t \in Threads, DispatchAlert(t) PROVE GateInv'
  BY <1>0, <1>7 DEF DispatchAlert, GateInv, NoGatedAutoApproval
<1>8. ASSUME NEW t \in Threads, RecordReceipts(t) PROVE GateInv'
  BY <1>0, <1>8 DEF RecordReceipts, Critical, Return, GateInv, NoGatedAutoApproval
<1>9. ASSUME NEW t \in Threads, TriggerFreeze(t) PROVE GateInv'
  BY <1>0, <1>9 DEF TriggerFreeze, GateInv, NoGatedAutoApproval
<1>10. ASSUME NEW t \in Threads, OnFreeze(t) PROVE GateInv'
  BY <1>0, <1>10 DEF OnFreeze, Return, GateInv, NoGatedAutoApproval
<1>11. ASSUME NEW t \in Threads, SetApproved(t) PROVE GateInv'
  BY <1>0, <1>11 DEF SetApproved, GateInv, NoGatedAutoApproval
<1>12. ASSUME NEW t \in Threads, SetResolvedAt(t) PROVE GateInv'
  BY <1>0, <1>12 DEF SetResolvedAt, GateInv, NoGatedAutoApproval
<1>13. ASSUME NEW t \in Threads, SetEvent(t) PROVE GateInv'
  BY <1>0, <1>13 DEF SetEvent, Return, GateInv, NoGatedAutoApproval
<1>14. ASSUME NEW t \in Threads, SnapshotPending(t) PROVE GateInv'
  BY <1>0, <1>14 DEF SnapshotPending, Snapshot, GateInv, NoGatedAutoApproval
<1>15. ASSUME NEW t \in Threads, SweepItem(t) PROVE GateInv'
  BY <1>0, <1>15 DEF SweepItem, DefaultVerdict, GateInv, NoGatedAutoApproval
<1>16. ASSUME NEW t \in Threads, SweepDone(t) PROVE GateInv'
  BY <1>0, <1>16 DEF SweepDone, Return, GateInv, NoGatedAutoApproval
<1>17. ASSUME NEW t \in Threads, WaitReturnsTrue(t) PROVE GateInv'
  BY <1>0, <1>17 DEF WaitReturnsTrue, GateInv, NoGatedAutoApproval
<1>18. ASSUME NEW t \in Threads, WaitTimesOut(t) PROVE GateInv'
  BY <1>0, <1>18 DEF WaitTimesOut, Return, GateInv, NoGatedAutoApproval
<1>19. ASSUME NEW t \in Threads, ReadDecision(t) PROVE GateInv'
  BY <1>0, <1>19 DEF ReadDecision, Return, GateInv, NoGatedAutoApproval
<1>20. CASE Tick
  BY <1>20 DEF Tick, GateInv, NoGatedAutoApproval
<1>21. CASE UNCHANGED vars
  BY <1>21 DEF vars, GateInv, NoGatedAutoApproval
<1> QED
  BY StepCases, <1>1, <1>2, <1>3, <1>4, <1>5, <1>6, <1>7, <1>8, <1>9, <1>10, <1>11, <1>12, <1>13,
     <1>14, <1>15, <1>16, <1>17, <1>18, <1>19, <1>20, <1>21 DEF Continue

(* No interleaving of sweeps and responses approves a request that needs a human
   without a human having said so (process_timeouts, respond, approve, deny). *)
THEOREM HumanGate == Spec => []NoGatedAutoApproval
<1>1. Init => GateInv
  BY DEF Init, GateInv, NoGatedAutoApproval, Undecided
<1>2. GateInv => NoGatedAutoApproval
  BY DEF GateInv
<1> QED
  BY <1>1, <1>2, TypeInit, TypeStep, GateStep, PTL DEF Spec

-----------------------------------------------------------------------------

(* How far each call of approve() or deny() has come is visible in the request, an idle
   thread is in no sweep, and what a sweep spares stays decided. *)
DecisionInv ==
    /\ WokenFindsDecision
    /\ SweepSparesDecided
    /\ \A t \in Threads :
         /\ pc[t] \in {"setResolvedAt", "setEvent"} => approved[cur[t]] # Undecided
         /\ pc[t] = "setEvent" => resolvedAt[cur[t]]
         /\ Idle(t) => ~InSweep(t)
         /\ \A a \in spared[t] : approved[a] # Undecided

(* No step of any thread breaks it. *)
LEMMA DecisionStep == TypeInv /\ DecisionInv /\ [Next]_vars => DecisionInv'
<1> SUFFICES ASSUME TypeInv, DecisionInv, [Next]_vars PROVE DecisionInv'
  OBVIOUS
<1>0. /\ pc \in [Threads -> PC] /\ cur \in [Threads -> Alerts \union {NoAlert}]
      /\ verdict \in [Threads -> Verdict \union {Undecided}]
      /\ sweepNow \in [Threads -> Time \union {NoTime}] /\ spared \in [Threads -> SUBSET Alerts]
      /\ approved \in [Alerts -> Verdict \union {Undecided}]
      /\ resolvedAt \in [Alerts -> BOOLEAN] /\ event \in [Alerts -> BOOLEAN]
      /\ \A t \in Threads :
           /\ pc[t] \in {"setApproved", "setResolvedAt", "setEvent"} => cur[t] \in Alerts
           /\ pc[t] = "setApproved" => verdict[t] \in Verdict
  BY DEF TypeInv, TypeOK, WorkOK
<1> USE DEF clock, payloads, decisions, system, locals, history, Goto, Idle,
        InSweep, NoTime, Undecided, Verdict
<1>1. ASSUME NEW t \in Threads, NEW a \in Alerts, NEW l \in Level, BuildAlert(t, a, l)
      PROVE DecisionInv'
  BY <1>0, <1>1 DEF BuildAlert, DecisionInv, WokenFindsDecision, SweepSparesDecided, Unbuilt
<1>2. ASSUME NEW t \in Threads, NEW a \in Alerts, NEW v \in Verdict, Respond(t, a, v)
      PROVE DecisionInv'
  BY <1>0, <1>2 DEF Respond, DecisionInv, WokenFindsDecision, SweepSparesDecided
<1>3. ASSUME NEW t \in Threads, NEW a \in Alerts, Wait(t, a) PROVE DecisionInv'
  BY <1>0, <1>3 DEF Wait, DecisionInv, WokenFindsDecision, SweepSparesDecided
<1>4. ASSUME NEW t \in Threads, Unfreeze(t) PROVE DecisionInv'
  BY <1>0, <1>4 DEF Unfreeze, DecisionInv, WokenFindsDecision, SweepSparesDecided
<1>5. ASSUME NEW t \in Threads, ProcessTimeouts(t) PROVE DecisionInv'
  BY <1>0, <1>5 DEF ProcessTimeouts, DecisionInv, WokenFindsDecision, SweepSparesDecided
<1>6. ASSUME NEW t \in Threads, InsertPending(t) PROVE DecisionInv'
  BY <1>0, <1>6 DEF InsertPending, DecisionInv, WokenFindsDecision, SweepSparesDecided
<1>7. ASSUME NEW t \in Threads, DispatchAlert(t) PROVE DecisionInv'
  BY <1>0, <1>7 DEF DispatchAlert, DecisionInv, WokenFindsDecision, SweepSparesDecided
<1>8. ASSUME NEW t \in Threads, RecordReceipts(t) PROVE DecisionInv'
  <2>1. CASE Critical(t)
    BY <1>0, <1>8, <2>1
       DEF RecordReceipts, Critical, DecisionInv, WokenFindsDecision, SweepSparesDecided
  <2>2. CASE ~Critical(t)
    <3>1. /\ Return(t)
          /\ UNCHANGED <<approved, resolvedAt, event>>
      BY <1>8, <2>2 DEF RecordReceipts, Critical
    <3> QED
      BY <1>0, <3>1 DEF Return, DecisionInv, WokenFindsDecision, SweepSparesDecided
  <2> QED
    BY <2>1, <2>2
<1>9. ASSUME NEW t \in Threads, TriggerFreeze(t) PROVE DecisionInv'
  BY <1>0, <1>9 DEF TriggerFreeze, DecisionInv, WokenFindsDecision, SweepSparesDecided
<1>10. ASSUME NEW t \in Threads, OnFreeze(t) PROVE DecisionInv'
  BY <1>0, <1>10 DEF OnFreeze, Return, DecisionInv, WokenFindsDecision, SweepSparesDecided
<1>11. ASSUME NEW t \in Threads, SetApproved(t) PROVE DecisionInv'
  BY <1>0, <1>11 DEF SetApproved, DecisionInv, WokenFindsDecision, SweepSparesDecided
<1>12. ASSUME NEW t \in Threads, SetResolvedAt(t) PROVE DecisionInv'
  BY <1>0, <1>12 DEF SetResolvedAt, DecisionInv, WokenFindsDecision, SweepSparesDecided
<1>13. ASSUME NEW t \in Threads, SetEvent(t) PROVE DecisionInv'
  BY <1>0, <1>13 DEF SetEvent, Return, DecisionInv, WokenFindsDecision, SweepSparesDecided
<1>14. ASSUME NEW t \in Threads, SnapshotPending(t) PROVE DecisionInv'
  BY <1>0, <1>14
     DEF SnapshotPending, Snapshot, DecisionInv, WokenFindsDecision, SweepSparesDecided
<1>15. ASSUME NEW t \in Threads, SweepItem(t) PROVE DecisionInv'
  BY <1>0, <1>15 DEF SweepItem, TimedOut, DecisionInv, WokenFindsDecision, SweepSparesDecided
<1>16. ASSUME NEW t \in Threads, SweepDone(t) PROVE DecisionInv'
  BY <1>0, <1>16 DEF SweepDone, Return, DecisionInv, WokenFindsDecision, SweepSparesDecided
<1>17. ASSUME NEW t \in Threads, WaitReturnsTrue(t) PROVE DecisionInv'
  BY <1>0, <1>17 DEF WaitReturnsTrue, DecisionInv, WokenFindsDecision, SweepSparesDecided
<1>18. ASSUME NEW t \in Threads, WaitTimesOut(t) PROVE DecisionInv'
  BY <1>0, <1>18 DEF WaitTimesOut, Return, DecisionInv, WokenFindsDecision, SweepSparesDecided
<1>19. ASSUME NEW t \in Threads, ReadDecision(t) PROVE DecisionInv'
  BY <1>0, <1>19 DEF ReadDecision, Return, DecisionInv, WokenFindsDecision, SweepSparesDecided
<1>20. CASE Tick
  BY <1>20 DEF Tick, DecisionInv, WokenFindsDecision, SweepSparesDecided
<1>21. CASE UNCHANGED vars
  BY <1>21 DEF vars, DecisionInv, WokenFindsDecision, SweepSparesDecided
<1> QED
  BY StepCases, <1>1, <1>2, <1>3, <1>4, <1>5, <1>6, <1>7, <1>8, <1>9, <1>10, <1>11, <1>12, <1>13,
     <1>14, <1>15, <1>16, <1>17, <1>18, <1>19, <1>20, <1>21 DEF Continue

(* A thread that wait() woke finds a verdict and its time, whoever else is inside
   approve() or deny(). *)
THEOREM WokenSeesVerdict == Spec => []WokenFindsDecision
<1>1. Init => DecisionInv
  BY DEF Init, DecisionInv, WokenFindsDecision, SweepSparesDecided, Idle, InSweep
<1>2. DecisionInv => WokenFindsDecision
  BY DEF DecisionInv
<1> QED
  BY <1>1, <1>2, TypeInit, TypeStep, DecisionStep, PTL DEF Spec

(* A sweep never overwrites a verdict that was on record when it began: the race of
   process_timeouts with respond is confined to one check-then-write window. *)
THEOREM SweepRaceIsConfined == Spec => []SweepSparesDecided
<1>1. Init => DecisionInv
  BY DEF Init, DecisionInv, WokenFindsDecision, SweepSparesDecided, Idle, InSweep
<1>2. DecisionInv => SweepSparesDecided
  BY DEF DecisionInv
<1> QED
  BY <1>1, <1>2, TypeInit, TypeStep, DecisionStep, PTL DEF Spec

-----------------------------------------------------------------------------

(* A raise_alert call past its first step has given its alert a level, and the freeze
   is in force, or was lifted, from TriggerFreeze on. *)
FreezeInv ==
    /\ CriticalAlertFreezes
    /\ \A a \in Alerts : handed[a] # "nothing" => level[a] # Unbuilt
    /\ \A t \in Threads :
         /\ pc[t] \in {"insert", "dispatch", "record", "freeze", "onFreeze"} => level[cur[t]] # Unbuilt
         /\ pc[t] = "onFreeze" => frozen \/ unfrozen

(* No step of any thread breaks it. *)
LEMMA FreezeStep == TypeInv /\ FreezeInv /\ [Next]_vars => FreezeInv'
<1> SUFFICES ASSUME TypeInv, FreezeInv, [Next]_vars PROVE FreezeInv'
  OBVIOUS
<1>0. /\ pc \in [Threads -> PC] /\ cur \in [Threads -> Alerts \union {NoAlert}]
      /\ level \in [Alerts -> Level \union {Unbuilt}]
      /\ handed \in [Alerts -> {"nothing", "handle", "exception"}]
      /\ \A t \in Threads :
           pc[t] \in {"insert", "dispatch", "record", "freeze", "onFreeze"} => cur[t] \in Alerts
  BY DEF TypeInv, TypeOK, WorkOK
<1> USE DEF clock, payloads, decisions, system, locals, history, Goto, Idle, Unbuilt, Level
<1>1. ASSUME NEW t \in Threads, NEW a \in Alerts, NEW l \in Level, BuildAlert(t, a, l)
      PROVE FreezeInv'
  BY <1>0, <1>1 DEF BuildAlert, FreezeInv, CriticalAlertFreezes, Unbuilt
<1>2. ASSUME NEW t \in Threads, NEW a \in Alerts, NEW v \in Verdict, Respond(t, a, v)
      PROVE FreezeInv'
  BY <1>0, <1>2 DEF Respond, FreezeInv, CriticalAlertFreezes
<1>3. ASSUME NEW t \in Threads, NEW a \in Alerts, Wait(t, a) PROVE FreezeInv'
  BY <1>0, <1>3 DEF Wait, FreezeInv, CriticalAlertFreezes
<1>4. ASSUME NEW t \in Threads, Unfreeze(t) PROVE FreezeInv'
  BY <1>0, <1>4 DEF Unfreeze, FreezeInv, CriticalAlertFreezes
<1>5. ASSUME NEW t \in Threads, ProcessTimeouts(t) PROVE FreezeInv'
  BY <1>0, <1>5 DEF ProcessTimeouts, FreezeInv, CriticalAlertFreezes
<1>6. ASSUME NEW t \in Threads, InsertPending(t) PROVE FreezeInv'
  BY <1>0, <1>6 DEF InsertPending, FreezeInv, CriticalAlertFreezes
<1>7. ASSUME NEW t \in Threads, DispatchAlert(t) PROVE FreezeInv'
  BY <1>0, <1>7 DEF DispatchAlert, FreezeInv, CriticalAlertFreezes
<1>8. ASSUME NEW t \in Threads, RecordReceipts(t) PROVE FreezeInv'
  BY <1>0, <1>8 DEF RecordReceipts, Critical, Return, FreezeInv, CriticalAlertFreezes
<1>9. ASSUME NEW t \in Threads, TriggerFreeze(t) PROVE FreezeInv'
  BY <1>0, <1>9 DEF TriggerFreeze, FreezeInv, CriticalAlertFreezes
<1>10. ASSUME NEW t \in Threads, OnFreeze(t) PROVE FreezeInv'
  BY <1>0, <1>10 DEF OnFreeze, Return, FreezeInv, CriticalAlertFreezes
<1>11. ASSUME NEW t \in Threads, SetApproved(t) PROVE FreezeInv'
  BY <1>0, <1>11 DEF SetApproved, FreezeInv, CriticalAlertFreezes
<1>12. ASSUME NEW t \in Threads, SetResolvedAt(t) PROVE FreezeInv'
  BY <1>0, <1>12 DEF SetResolvedAt, FreezeInv, CriticalAlertFreezes
<1>13. ASSUME NEW t \in Threads, SetEvent(t) PROVE FreezeInv'
  BY <1>0, <1>13 DEF SetEvent, Return, FreezeInv, CriticalAlertFreezes
<1>14. ASSUME NEW t \in Threads, SnapshotPending(t) PROVE FreezeInv'
  BY <1>0, <1>14 DEF SnapshotPending, Snapshot, FreezeInv, CriticalAlertFreezes
<1>15. ASSUME NEW t \in Threads, SweepItem(t) PROVE FreezeInv'
  BY <1>0, <1>15 DEF SweepItem, DefaultVerdict, FreezeInv, CriticalAlertFreezes
<1>16. ASSUME NEW t \in Threads, SweepDone(t) PROVE FreezeInv'
  BY <1>0, <1>16 DEF SweepDone, Return, FreezeInv, CriticalAlertFreezes
<1>17. ASSUME NEW t \in Threads, WaitReturnsTrue(t) PROVE FreezeInv'
  BY <1>0, <1>17 DEF WaitReturnsTrue, FreezeInv, CriticalAlertFreezes
<1>18. ASSUME NEW t \in Threads, WaitTimesOut(t) PROVE FreezeInv'
  BY <1>0, <1>18 DEF WaitTimesOut, Return, FreezeInv, CriticalAlertFreezes
<1>19. ASSUME NEW t \in Threads, ReadDecision(t) PROVE FreezeInv'
  BY <1>0, <1>19 DEF ReadDecision, Return, FreezeInv, CriticalAlertFreezes
<1>20. CASE Tick
  BY <1>20 DEF Tick, FreezeInv, CriticalAlertFreezes
<1>21. CASE UNCHANGED vars
  BY <1>21 DEF vars, FreezeInv, CriticalAlertFreezes
<1> QED
  BY StepCases, <1>1, <1>2, <1>3, <1>4, <1>5, <1>6, <1>7, <1>8, <1>9, <1>10, <1>11, <1>12, <1>13,
     <1>14, <1>15, <1>16, <1>17, <1>18, <1>19, <1>20, <1>21 DEF Continue

(* When raise_alert is over, an L4 alert has frozen the system or an operator has
   unfrozen it, even if the on_freeze callback raised. *)
THEOREM CriticalFreezes == Spec => []CriticalAlertFreezes
<1>1. Init => FreezeInv
  BY DEF Init, FreezeInv, CriticalAlertFreezes
<1>2. FreezeInv => CriticalAlertFreezes
  BY DEF FreezeInv
<1> QED
  BY <1>1, <1>2, TypeInit, TypeStep, FreezeStep, PTL DEF Spec
-----------------------------------------------------------------------------

(* Receipts s hold the attempts that dispatch makes for an alert a of level l: more than
   AlertWasAttempted asks, for it rings push and SMS below L3, too. *)
Tried(s, a, c) == \E i \in DOMAIN s : s[i].alert = a /\ s[i].channel = c
Pushed(s, a) ==
    \E i \in DOMAIN s : s[i] = [channel |-> "push", alert |-> a, delivered |-> TRUE]
Complete(s, a, l) ==
    /\ Tried(s, a, "email")
    /\ Tried(s, a, "push")
    /\ l = "L4" => Tried(s, a, "voice")
    /\ Pushed(s, a) \/ Tried(s, a, "sms")

(* Receipts before or after take no attempt away. *)
LEMMA AttemptsStay ==
    ASSUME NEW r \in Seq(Receipt), NEW s \in Seq(Receipt), NEW a
    PROVE  /\ r \o s \in Seq(Receipt)
           /\ \A c : (Tried(r, a, c) \/ Tried(s, a, c)) => Tried(r \o s, a, c)
           /\ (Pushed(r, a) \/ Pushed(s, a)) => Pushed(r \o s, a)
<1>1. /\ \A i \in DOMAIN r : i \in DOMAIN (r \o s) /\ (r \o s)[i] = r[i]
      /\ \A i \in DOMAIN s : Len(r) + i \in DOMAIN (r \o s) /\ (r \o s)[Len(r) + i] = s[i]
  OBVIOUS
<1>2. r \o s \in Seq(Receipt)
  BY ConcatProperties
<1>3. \A c : (Tried(r, a, c) \/ Tried(s, a, c)) => Tried(r \o s, a, c)
  BY <1>1 DEF Tried
<1>4. (Pushed(r, a) \/ Pushed(s, a)) => Pushed(r \o s, a)
  BY <1>1 DEF Pushed
<1> QED
  BY <1>2, <1>3, <1>4

(* Recording more receipts keeps a complete attempt complete. *)
LEMMA MoreReceipts ==
    ASSUME NEW r \in Seq(Receipt), NEW s \in Seq(Receipt), NEW a, NEW l
    PROVE  Complete(r, a, l) \/ Complete(s, a, l) => Complete(r \o s, a, l)
BY AttemptsStay DEF Complete

(* Whatever handlers fail, dispatch attempts each channel it should. *)
LEMMA DispatchIsComplete ==
    ASSUME NEW a \in Alerts, NEW l, NEW d \in SUBSET Channel
    PROVE  Complete(Dispatch(a, l = "L4", d), a, l)
<1> DEFINE voice == IF l = "L4" THEN <<Send("voice", a, d)>> ELSE <<>>
           push == <<Send("push", a, d)>>
           sms == IF "push" \in d THEN <<>> ELSE <<Send("sms", a, d)>>
           email == <<Send("email", a, d)>>
           all == voice \o push \o sms \o email
<1>1. \A c \in Channel : Send(c, a, d) \in Receipt
  BY DEF Send, Receipt, Channel
<1>2. voice \in Seq(Receipt) /\ push \in Seq(Receipt) /\ sms \in Seq(Receipt)
        /\ email \in Seq(Receipt)
  BY <1>1 DEF Channel
<1>3. /\ l = "L4" => Tried(voice, a, "voice")
      /\ Tried(push, a, "push") /\ Tried(email, a, "email")
      /\ Pushed(push, a) \/ Tried(sms, a, "sms")
  <2>1. \A c : Tried(<<Send(c, a, d)>>, a, c)
    <3> TAKE c
    <3>1. 1 \in DOMAIN <<Send(c, a, d)>> /\ <<Send(c, a, d)>>[1] = Send(c, a, d)
      OBVIOUS
    <3>2. Send(c, a, d).alert = a /\ Send(c, a, d).channel = c
      BY DEF Send
    <3> QED
      BY <3>1, <3>2 DEF Tried
  <2>2. CASE "push" \in d
    <3>1. Send("push", a, d) = [channel |-> "push", alert |-> a, delivered |-> TRUE]
      BY <2>2 DEF Send
    <3>2. 1 \in DOMAIN push /\ push[1] = Send("push", a, d)
      OBVIOUS
    <3>3. Pushed(push, a)
      BY <3>1, <3>2 DEF Pushed
    <3> QED
      BY <2>1, <3>3
  <2>3. CASE "push" \notin d
    BY <2>1, <2>3
  <2> QED
    BY <2>2, <2>3
<1> HIDE DEF voice, push, sms, email
<1>4. \A r \in Seq(Receipt), s \in Seq(Receipt) :
        /\ r \o s \in Seq(Receipt)
        /\ \A c : (Tried(r, a, c) \/ Tried(s, a, c)) => Tried(r \o s, a, c)
        /\ (Pushed(r, a) \/ Pushed(s, a)) => Pushed(r \o s, a)
  BY AttemptsStay
<1>5. /\ voice \o push \in Seq(Receipt) /\ voice \o push \o sms \in Seq(Receipt)
      /\ l = "L4" => Tried(voice \o push, a, "voice")
      /\ Tried(voice \o push, a, "push")
      /\ Pushed(push, a) => Pushed(voice \o push, a)
  BY <1>2, <1>3, <1>4
<1>6. /\ l = "L4" => Tried(voice \o push \o sms, a, "voice")
      /\ Tried(voice \o push \o sms, a, "push")
      /\ Pushed(voice \o push \o sms, a) \/ Tried(voice \o push \o sms, a, "sms")
  BY <1>2, <1>3, <1>4, <1>5
<1>7. Complete(all, a, l)
  BY <1>2, <1>3, <1>4, <1>5, <1>6 DEF Complete
<1> QED
  BY <1>7 DEF Dispatch, voice, push, sms, email

(* What was attempted is on record once recorded, and in the raiser's hands before. *)
AttemptInv ==
    /\ \A a \in Alerts : handed[a] # "nothing" => Complete(receipts, a, level[a])
    /\ \A t \in Threads :
         /\ pc[t] = "record" => Complete(outbox[t], cur[t], level[cur[t]])
         /\ pc[t] \in {"freeze", "onFreeze"} => Complete(receipts, cur[t], level[cur[t]])

(* No step of any thread breaks it. *)
LEMMA AttemptStep == TypeInv /\ FreezeInv /\ AttemptInv /\ [Next]_vars => AttemptInv'
<1> SUFFICES ASSUME TypeInv, FreezeInv, AttemptInv, [Next]_vars PROVE AttemptInv'
  OBVIOUS
<1>0. /\ pc \in [Threads -> PC] /\ cur \in [Threads -> Alerts \union {NoAlert}]
      /\ level \in [Alerts -> Level \union {Unbuilt}]
      /\ handed \in [Alerts -> {"nothing", "handle", "exception"}]
      /\ receipts \in Seq(Receipt) /\ outbox \in [Threads -> Seq(Receipt)]
      /\ \A t \in Threads :
           pc[t] \in {"insert", "dispatch", "record", "freeze", "onFreeze"} => cur[t] \in Alerts
      /\ \A a \in Alerts : handed[a] # "nothing" => level[a] # Unbuilt
      /\ \A t \in Threads :
           pc[t] \in {"insert", "dispatch", "record", "freeze", "onFreeze"} => level[cur[t]] # Unbuilt
  BY DEF TypeInv, TypeOK, WorkOK, FreezeInv
<1> USE DEF clock, payloads, decisions, system, locals, history, Goto, Idle
<1>1. ASSUME NEW t \in Threads, NEW a \in Alerts, NEW l \in Level, BuildAlert(t, a, l) PROVE AttemptInv'
  BY <1>0, <1>1 DEF BuildAlert, AttemptInv
<1>2. ASSUME NEW t \in Threads, NEW a \in Alerts, NEW v \in Verdict, Respond(t, a, v) PROVE AttemptInv'
  BY <1>0, <1>2 DEF Respond, AttemptInv
<1>3. ASSUME NEW t \in Threads, NEW a \in Alerts, Wait(t, a) PROVE AttemptInv'
  BY <1>0, <1>3 DEF Wait, AttemptInv
<1>4. ASSUME NEW t \in Threads, Unfreeze(t) PROVE AttemptInv'
  BY <1>0, <1>4 DEF Unfreeze, AttemptInv
<1>5. ASSUME NEW t \in Threads, ProcessTimeouts(t) PROVE AttemptInv'
  BY <1>0, <1>5 DEF ProcessTimeouts, AttemptInv
<1>6. ASSUME NEW t \in Threads, InsertPending(t) PROVE AttemptInv'
  BY <1>0, <1>6 DEF InsertPending, AttemptInv
<1>7. ASSUME NEW t \in Threads, DispatchAlert(t) PROVE AttemptInv'
  <2>1. PICK d \in SUBSET Reachable :
          outbox' = [outbox EXCEPT ![t] = Dispatch(cur[t], level[cur[t]] = "L4", d)]
    BY <1>7 DEF DispatchAlert
  <2>2. Complete(outbox'[t], cur[t], level[cur[t]])
    BY <1>0, <1>7, <2>1, DispatchIsComplete, AlertAssumption DEF AlertAssumption, DispatchAlert
  <2> QED
    BY <1>0, <1>7, <2>1, <2>2 DEF DispatchAlert, AttemptInv
<1>8. ASSUME NEW t \in Threads, RecordReceipts(t) PROVE AttemptInv'
  <2>1. /\ pc[t] = "record" /\ receipts' = receipts \o outbox[t]
        /\ UNCHANGED level
    BY <1>8 DEF RecordReceipts
  <2>2. \A a \in Alerts : Complete(receipts, a, level[a]) => Complete(receipts', a, level[a])
    BY <1>0, <2>1, MoreReceipts
  <2>3. Complete(receipts', cur[t], level[cur[t]])
    BY <1>0, <2>1, MoreReceipts DEF AttemptInv
  <2>4. CASE Critical(t)
    BY <1>0, <1>8, <2>1, <2>2, <2>3, <2>4 DEF RecordReceipts, AttemptInv
  <2>5. CASE ~Critical(t)
    <3>1. Return(t) /\ handed' = [handed EXCEPT ![cur[t]] = "handle"]
      BY <1>8, <2>5 DEF RecordReceipts
    <3> QED
      BY <1>0, <2>1, <2>2, <2>3, <3>1 DEF Return, AttemptInv
  <2> QED
    BY <2>4, <2>5
<1>9. ASSUME NEW t \in Threads, TriggerFreeze(t) PROVE AttemptInv'
  BY <1>0, <1>9 DEF TriggerFreeze, AttemptInv
<1>10. ASSUME NEW t \in Threads, OnFreeze(t) PROVE AttemptInv'
  BY <1>0, <1>10 DEF OnFreeze, Return, AttemptInv
<1>11. ASSUME NEW t \in Threads, SetApproved(t) PROVE AttemptInv'
  BY <1>0, <1>11 DEF SetApproved, AttemptInv
<1>12. ASSUME NEW t \in Threads, SetResolvedAt(t) PROVE AttemptInv'
  BY <1>0, <1>12 DEF SetResolvedAt, AttemptInv
<1>13. ASSUME NEW t \in Threads, SetEvent(t) PROVE AttemptInv'
  BY <1>0, <1>13 DEF SetEvent, Return, AttemptInv
<1>14. ASSUME NEW t \in Threads, SnapshotPending(t) PROVE AttemptInv'
  BY <1>0, <1>14 DEF SnapshotPending, AttemptInv
<1>15. ASSUME NEW t \in Threads, SweepItem(t) PROVE AttemptInv'
  BY <1>0, <1>15 DEF SweepItem, AttemptInv
<1>16. ASSUME NEW t \in Threads, SweepDone(t) PROVE AttemptInv'
  BY <1>0, <1>16 DEF SweepDone, Return, AttemptInv
<1>17. ASSUME NEW t \in Threads, WaitReturnsTrue(t) PROVE AttemptInv'
  BY <1>0, <1>17 DEF WaitReturnsTrue, AttemptInv
<1>18. ASSUME NEW t \in Threads, WaitTimesOut(t) PROVE AttemptInv'
  BY <1>0, <1>18 DEF WaitTimesOut, Return, AttemptInv
<1>19. ASSUME NEW t \in Threads, ReadDecision(t) PROVE AttemptInv'
  BY <1>0, <1>19 DEF ReadDecision, Return, AttemptInv
<1>20. CASE Tick
  BY <1>20 DEF Tick, AttemptInv
<1>21. CASE UNCHANGED vars
  BY <1>21 DEF vars, AttemptInv
<1> QED
  BY StepCases, <1>1, <1>2, <1>3, <1>4, <1>5, <1>6, <1>7, <1>8, <1>9, <1>10, <1>11, <1>12, <1>13,
     <1>14, <1>15, <1>16, <1>17, <1>18, <1>19, <1>20, <1>21 DEF Continue

(* However many threads raise alerts at once over channels that fail, an alert whose
   raise_alert is over was attempted on every channel its level calls for, and the
   receipts are on record (dispatch, raise_alert lines 126-129). *)
THEOREM AttemptsAreKept == Spec => []AlertWasAttempted
<1>1. Init => FreezeInv /\ AttemptInv
  BY DEF Init, FreezeInv, CriticalAlertFreezes, AttemptInv
<1>2. AttemptInv => AlertWasAttempted
  BY DEF AttemptInv, Complete, Tried, Pushed, AlertWasAttempted
<1> QED
  BY <1>1, <1>2, TypeInit, TypeStep, FreezeStep, AttemptStep, PTL DEF Spec

-----------------------------------------------------------------------------

(* What a step towards a verdict rests on: only filed requests are answered or swept,
   each is filed once, and a verdict about to be written is a human's or, after the
   window, the default of the level. *)
PromiseInv ==
    /\ \A a \in Alerts : /\ IsPending(a) => level[a] \in Level
                         /\ ~IsPending(a) => approved[a] = Undecided
    /\ \A t \in Threads :
         /\ pc[t] = "insert" => ~IsPending(cur[t]) /\ level[cur[t]] \in Level
         /\ \A u \in Threads :
               pc[t] = "insert" /\ pc[u] = "insert" /\ cur[t] = cur[u] => t = u
         /\ sweepNow[t] <= now
         /\ \A i \in DOMAIN todo[t] : IsPending(todo[t][i])
         /\ pc[t] = "setApproved" =>
              /\ IsPending(cur[t])
              /\ \/ verdict[t] \in said[cur[t]]
                 \/ now >= deadline[cur[t]] /\ verdict[t] = DefaultVerdict(level[cur[t]])

(* The part of TypeInv that the steps below use. *)
PromiseTypes ==
    /\ now \in Time /\ pending \in Seq(Alerts)
    /\ pc \in [Threads -> PC] /\ cur \in [Threads -> Alerts \union {NoAlert}]
    /\ verdict \in [Threads -> Verdict \union {Undecided}]
    /\ level \in [Alerts -> Level \union {Unbuilt}]
    /\ deadline \in [Alerts -> Time \union {NoTime}]
    /\ said \in [Alerts -> SUBSET Verdict]
    /\ approved \in [Alerts -> Verdict \union {Undecided}]
    /\ sweepNow \in [Threads -> Time \union {NoTime}]
    /\ todo \in [Threads -> Seq(Alerts)]
    /\ WorkOK

(* Every time the code compares is a number. *)
LEMMA TimesAreNumbers ==
    ASSUME PromiseTypes
    PROVE  /\ now \in Int
           /\ \A a \in Alerts : deadline[a] \in Int
           /\ \A t \in Threads : sweepNow[t] \in Int
<1>1. Time \subseteq Int /\ NoTime \in Int
  BY AlertAssumption DEF AlertAssumption, Time, NoTime
<1> HIDE DEF Time, NoTime
<1> QED
  BY <1>1 DEF PromiseTypes

(* Appending a request files that one and no other. *)
LEMMA PendingGrows ==
    ASSUME NEW a \in Alerts, pending \in Seq(Alerts), pending' = Append(pending, a)
    PROVE  \A b : IsPending(b)' <=> IsPending(b) \/ b = a
<1>1. /\ Len(pending') = Len(pending) + 1 /\ Len(pending) \in Nat
      /\ DOMAIN pending = 1 .. Len(pending) /\ DOMAIN pending' = 1 .. Len(pending')
      /\ \A i \in 1 .. Len(pending) : pending'[i] = pending[i]
      /\ pending'[Len(pending) + 1] = a
  BY AppendProperties
<1> QED
  BY <1>1 DEF IsPending

(* No step of any thread breaks it. *)
LEMMA PromiseStep == TypeInv /\ PromiseInv /\ [Next]_vars => PromiseInv'
<1> SUFFICES ASSUME TypeInv, PromiseInv, [Next]_vars PROVE PromiseInv'
  OBVIOUS
<1>0. PromiseTypes
  BY DEF TypeInv, TypeOK, PromiseTypes
<1> USE <1>0 DEF PromiseTypes, WorkOK, clock, payloads, decisions, system, locals, history,
        Goto, Idle
<1>1. ASSUME NEW t \in Threads, NEW a \in Alerts, NEW l \in Level, BuildAlert(t, a, l)
      PROVE PromiseInv'
  <2>1. Unbuilt \notin Level
    BY DEF Unbuilt, Level
  <2>2. pending' = pending /\ approved' = approved /\ said' = said /\ now' = now
    BY <1>1 DEF BuildAlert
  <2>3. ~IsPending(a) /\ \A u \in Threads : pc[u] \in {"insert", "setApproved"} => cur[u] # a
    BY <1>1, <2>1 DEF BuildAlert, PromiseInv
  <2>4. \A b : IsPending(b)' <=> IsPending(b)
    BY <2>2 DEF IsPending
  <2> QED
    BY <1>1, <2>1, <2>2, <2>3, <2>4 DEF BuildAlert, PromiseInv
<1>2. ASSUME NEW t \in Threads, NEW a \in Alerts, NEW v \in Verdict, Respond(t, a, v)
      PROVE PromiseInv'
  BY <1>2 DEF Respond, PromiseInv, IsPending
<1>3. ASSUME NEW t \in Threads, NEW a \in Alerts, Wait(t, a) PROVE PromiseInv'
  BY <1>3 DEF Wait, PromiseInv, IsPending
<1>4. ASSUME NEW t \in Threads, Unfreeze(t) PROVE PromiseInv'
  BY <1>4 DEF Unfreeze, PromiseInv, IsPending
<1>5. ASSUME NEW t \in Threads, ProcessTimeouts(t) PROVE PromiseInv'
  BY <1>5 DEF ProcessTimeouts, PromiseInv, IsPending, Time
<1>6. ASSUME NEW t \in Threads, InsertPending(t) PROVE PromiseInv'
  <2>1. cur[t] \in Alerts /\ pending' = Append(pending, cur[t])
    BY <1>6 DEF InsertPending
  <2>2. \A b : IsPending(b)' <=> IsPending(b) \/ b = cur[t]
    BY <2>1, PendingGrows
  <2> QED
    BY <1>6, <2>1, <2>2 DEF InsertPending, PromiseInv
<1>7. ASSUME NEW t \in Threads, DispatchAlert(t) PROVE PromiseInv'
  BY <1>7 DEF DispatchAlert, PromiseInv, IsPending
<1>8. ASSUME NEW t \in Threads, RecordReceipts(t) PROVE PromiseInv'
  <2>1. CASE Critical(t)
    BY <1>8, <2>1, AlertAssumption DEF AlertAssumption, RecordReceipts, PromiseInv, IsPending
  <2>2. CASE ~Critical(t)
    <3>1. Return(t) /\ UNCHANGED <<clock, payloads, decisions, pending, frozen, said, unfrozen>>
      BY <1>8, <2>2 DEF RecordReceipts
    <3> QED
      BY <3>1, AlertAssumption DEF AlertAssumption, Return, PromiseInv, IsPending, Time, NoTime
  <2> QED
    BY <2>1, <2>2
<1>9. ASSUME NEW t \in Threads, TriggerFreeze(t) PROVE PromiseInv'
  BY <1>9 DEF TriggerFreeze, PromiseInv, IsPending
<1>10. ASSUME NEW t \in Threads, OnFreeze(t) PROVE PromiseInv'
  BY <1>10 DEF OnFreeze, Return, PromiseInv, IsPending, Time, NoTime
<1>11. ASSUME NEW t \in Threads, SetApproved(t) PROVE PromiseInv'
  BY <1>11 DEF SetApproved, PromiseInv, IsPending
<1>12. ASSUME NEW t \in Threads, SetResolvedAt(t) PROVE PromiseInv'
  BY <1>12 DEF SetResolvedAt, PromiseInv, IsPending
<1>13. ASSUME NEW t \in Threads, SetEvent(t) PROVE PromiseInv'
  <2>1. CASE InSweep(t)
    <3>1. /\ pc' = [pc EXCEPT ![t] = "sweep"]
          /\ cur' = [cur EXCEPT ![t] = NoAlert]
          /\ verdict' = [verdict EXCEPT ![t] = Undecided]
          /\ UNCHANGED <<clock, payloads, approved, system, said, sweepNow, todo>>
      BY <1>13, <2>1 DEF SetEvent
    <3>2. \A a : IsPending(a)' <=> IsPending(a)
      BY <3>1 DEF IsPending
    <3> QED
      BY <3>1, <3>2 DEF PromiseInv
  <2>2. CASE ~InSweep(t)
    <3>1. Return(t) /\ UNCHANGED <<clock, payloads, approved, resolvedAt, system, said, unfrozen>>
      BY <1>13, <2>2 DEF SetEvent
    <3> QED
      BY <3>1, AlertAssumption DEF AlertAssumption, Return, PromiseInv, IsPending, Time, NoTime
  <2> QED
    BY <2>1, <2>2
<1>14. ASSUME NEW t \in Threads, SnapshotPending(t) PROVE PromiseInv'
  BY <1>14 DEF SnapshotPending, Snapshot, PromiseInv, IsPending
<1>15. ASSUME NEW t \in Threads, SweepItem(t) PROVE PromiseInv'
  <2> DEFINE a == Head(todo[t])
  <2>1. /\ a \in Alerts /\ IsPending(a)
        /\ \A i \in DOMAIN todo'[t] : IsPending(todo'[t][i])
    <3>1. todo[t] \in Seq(Alerts) /\ todo[t] # <<>> /\ todo'[t] = Tail(todo[t])
      BY <1>15 DEF SweepItem
    <3>2. a = todo[t][1] /\ 1 \in DOMAIN todo[t] /\ a \in Alerts
      BY <3>1
    <3>3. \A i \in DOMAIN Tail(todo[t]) :
            i + 1 \in DOMAIN todo[t] /\ Tail(todo[t])[i] = todo[t][i + 1]
      BY <3>1
    <3> QED
      BY <3>1, <3>2, <3>3 DEF PromiseInv
  <2>2. /\ todo' = [todo EXCEPT ![t] = Tail(@)]
        /\ UNCHANGED <<clock, payloads, decisions, system, sweepNow, outbox, history>>
    BY <1>15 DEF SweepItem
  <2> HIDE DEF a
  <2>3. CASE TimedOut(t, a)
    <3>1. /\ cur' = [cur EXCEPT ![t] = a]
          /\ verdict' = [verdict EXCEPT ![t] = DefaultVerdict(level[a])]
          /\ Goto(t, "setApproved")
      BY <1>15, <2>3 DEF SweepItem, a
    <3>2. now >= deadline[a]
      BY <2>1, <2>3, TimesAreNumbers DEF TimedOut, PromiseInv
    <3> QED
      BY <2>1, <2>2, <3>1, <3>2 DEF PromiseInv, IsPending
  <2>4. CASE ~TimedOut(t, a)
    <3>1. UNCHANGED <<pc, cur, verdict>>
      BY <1>15, <2>4 DEF SweepItem, a
    <3> QED
      BY <2>1, <2>2, <3>1 DEF PromiseInv, IsPending
  <2> QED
    BY <2>3, <2>4
<1>16. ASSUME NEW t \in Threads, SweepDone(t) PROVE PromiseInv'
  BY <1>16 DEF SweepDone, Return, PromiseInv, IsPending, Time, NoTime
<1>17. ASSUME NEW t \in Threads, WaitReturnsTrue(t) PROVE PromiseInv'
  BY <1>17 DEF WaitReturnsTrue, PromiseInv, IsPending
<1>18. ASSUME NEW t \in Threads, WaitTimesOut(t) PROVE PromiseInv'
  BY <1>18 DEF WaitTimesOut, Return, PromiseInv, IsPending, Time, NoTime
<1>19. ASSUME NEW t \in Threads, ReadDecision(t) PROVE PromiseInv'
  BY <1>19 DEF ReadDecision, Return, PromiseInv, IsPending, Time, NoTime
<1>20. CASE Tick
  <2>1. now' = now + 1 /\ UNCHANGED <<payloads, decisions, system, locals, history>>
    BY <1>20 DEF Tick
  <2>2. /\ \A t \in Threads : sweepNow[t] <= now => sweepNow[t] <= now + 1
        /\ \A a \in Alerts : now >= deadline[a] => now + 1 >= deadline[a]
    BY TimesAreNumbers
  <2>3. \A a : IsPending(a)' <=> IsPending(a)
    BY <2>1 DEF IsPending
  <2> QED
    BY <2>1, <2>2, <2>3 DEF PromiseInv
<1>21. CASE UNCHANGED vars
  BY <1>21 DEF vars, PromiseInv, IsPending
<1> QED
  BY StepCases, <1>1, <1>2, <1>3, <1>4, <1>5, <1>6, <1>7, <1>8, <1>9, <1>10, <1>11, <1>12, <1>13,
     <1>14, <1>15, <1>16, <1>17, <1>18, <1>19, <1>20, <1>21 DEF Continue

(* Each step is a step of Approvals on the requests, or changes nothing Approvals sees. *)
LEMMA PromiseSimulation ==
    TypeInv /\ PromiseInv /\ [Next]_vars => [Promise!Next]_(Promise!vars)
<1> SUFFICES ASSUME TypeInv, PromiseInv, [Next]_vars PROVE [Promise!Next]_(Promise!vars)
  OBVIOUS
<1>0. PromiseTypes
  BY DEF TypeInv, TypeOK, PromiseTypes
<1> DEFINE status == [a \in Alerts |-> IF ~IsPending(a) THEN "absent"
                                       ELSE IF approved[a] = Undecided THEN "open"
                                       ELSE approved[a]]
           expired == {a \in Alerts : IsPending(a) /\ now >= deadline[a]}
<1> USE DEF clock, payloads, decisions, system, locals, history, Goto, Idle
<1>a. ASSUME UNCHANGED <<pending, approved, level, said, now, deadline>>
      PROVE  UNCHANGED Promise!vars
  <2>1. \A a : IsPending(a)' <=> IsPending(a)
    BY <1>a DEF IsPending
  <2>2. status' = status /\ expired' = expired
    BY <1>a, <2>1
  <2> QED
    BY <1>a, <2>2 DEF Promise!vars
<1>1. ASSUME NEW t \in Threads, NEW a \in Alerts, NEW l \in Level, BuildAlert(t, a, l)
      PROVE Promise!Next
  <2>1. /\ level[a] = Unbuilt /\ level' = [level EXCEPT ![a] = l]
        /\ UNCHANGED <<pending, approved, said, now>>
        /\ \A b \in Alerts \ {a} : deadline'[b] = deadline[b]
    BY <1>0, <1>1 DEF BuildAlert, PromiseTypes
  <2>2. ~IsPending(a)
    BY <2>1 DEF PromiseInv, Unbuilt, Level
  <2>3. \A b : IsPending(b)' <=> IsPending(b)
    BY <2>1 DEF IsPending
  <2>4. status' = status /\ expired' = expired /\ status[a] = "absent"
    BY <2>1, <2>2, <2>3
  <2>5. Promise!Prepare(a, l)
    BY <2>1, <2>4 DEF Promise!Prepare
  <2> QED
    BY <2>5 DEF Promise!Next
<1>2. ASSUME NEW t \in Threads, NEW a \in Alerts, NEW v \in Verdict, Respond(t, a, v)
      PROVE Promise!Next
  <2>1. /\ IsPending(a) /\ said' = [said EXCEPT ![a] = @ \union {v}]
        /\ UNCHANGED <<pending, approved, level, now, deadline>>
    BY <1>2 DEF Respond
  <2>2. \A b : IsPending(b)' <=> IsPending(b)
    BY <2>1 DEF IsPending
  <2>3. status' = status /\ expired' = expired
    BY <2>1, <2>2
  <2>4. status[a] # "absent"
    BY <1>0, <2>1 DEF PromiseTypes, Verdict, Undecided
  <2>5. Promise!Say(a, v)
    BY <2>1, <2>3, <2>4 DEF Promise!Say
  <2> QED
    BY <2>5 DEF Promise!Next, Promise!Verdict, Verdict
<1>3. ASSUME NEW t \in Threads, InsertPending(t) PROVE Promise!Next
  <2>0. PICK a \in Alerts : a = cur[t]
    BY <1>0, <1>3 DEF InsertPending, PromiseTypes, WorkOK
  <2>1. /\ ~IsPending(a) /\ level[a] \in Level /\ approved[a] = Undecided
        /\ pending' = Append(pending, a)
        /\ UNCHANGED <<approved, level, said, now, deadline>>
    BY <2>0, <1>3 DEF InsertPending, PromiseInv
  <2>2. \A b : IsPending(b)' <=> IsPending(b) \/ b = a
    BY <1>0, <2>1, PendingGrows DEF PromiseTypes
  <2>3. status[a] = "absent" /\ status' = [status EXCEPT ![a] = "open"]
    BY <2>1, <2>2
  <2>4. expired' \in {expired, expired \union {a}}
    BY <2>1, <2>2
  <2>5. Promise!Open(a)
    BY <2>1, <2>3, <2>4 DEF Promise!Open
  <2> QED
    BY <2>5 DEF Promise!Next
<1>4. ASSUME NEW t \in Threads, SetApproved(t) PROVE Promise!Next
  <2>0. PICK a \in Alerts, v \in Verdict : a = cur[t] /\ v = verdict[t]
    BY <1>0, <1>4 DEF SetApproved, PromiseTypes, WorkOK
  <2>1. /\ IsPending(a)
        /\ v \in said[a] \/ (now >= deadline[a] /\ v = DefaultVerdict(level[a]))
        /\ approved' = [approved EXCEPT ![a] = v]
        /\ UNCHANGED <<pending, level, said, now, deadline>>
    BY <2>0, <1>4 DEF SetApproved, PromiseInv
  <2>2. \A b : IsPending(b)' <=> IsPending(b)
    BY <2>1 DEF IsPending
  <2>3. status' = [status EXCEPT ![a] = v]
    BY <1>0, <2>1, <2>2 DEF PromiseTypes, Verdict, Undecided
  <2>4. status[a] # "absent"
    BY <1>0, <2>1 DEF PromiseTypes, Verdict, Undecided
  <2>5. expired' = expired /\ (now >= deadline[a] => a \in expired)
    BY <2>1, <2>2
  <2>6. Promise!Decide(a, v)
    BY <2>1, <2>3, <2>4, <2>5 DEF Promise!Decide
  <2> QED
    BY <2>6 DEF Promise!Next, Promise!Verdict, Verdict
<1>5. ASSUME Tick PROVE Promise!Next
  <2>1. now' = now + 1 /\ UNCHANGED <<pending, approved, level, said, deadline>>
    BY <1>5 DEF Tick
  <2>2. \A b : IsPending(b)' <=> IsPending(b)
    BY <2>1 DEF IsPending
  <2>3. status' = status
    BY <2>1, <2>2
  <2>4. \A b \in Alerts : now >= deadline[b] => now + 1 >= deadline[b]
    BY <1>0, TimesAreNumbers
  <2>5. expired \subseteq expired'
    BY <2>1, <2>2, <2>4
  <2>6. expired' \subseteq {a \in Alerts : status[a] # "absent"}
    BY <1>0, <2>2 DEF PromiseTypes, Verdict, Undecided
  <2>7. Promise!Elapse
    BY <2>1, <2>3, <2>5, <2>6 DEF Promise!Elapse
  <2> QED
    BY <2>7 DEF Promise!Next
<1>6. ASSUME NEW t \in Threads,
             \/ \E a \in Alerts : Wait(t, a)
             \/ Unfreeze(t) \/ ProcessTimeouts(t) \/ DispatchAlert(t) \/ RecordReceipts(t)
             \/ TriggerFreeze(t) \/ OnFreeze(t) \/ SetResolvedAt(t) \/ SetEvent(t)
             \/ SnapshotPending(t) \/ SweepItem(t) \/ SweepDone(t)
             \/ WaitReturnsTrue(t) \/ WaitTimesOut(t) \/ ReadDecision(t)
      PROVE  UNCHANGED <<pending, approved, level, said, now, deadline>>
  BY <1>6 DEF Wait, Unfreeze, ProcessTimeouts, DispatchAlert, RecordReceipts, TriggerFreeze,
     OnFreeze, SetResolvedAt, SetEvent, SnapshotPending, SweepItem, SweepDone,
     WaitReturnsTrue, WaitTimesOut, ReadDecision
<1>7. CASE UNCHANGED vars
  BY <1>7, <1>a DEF vars
<1> QED
  BY StepCases, <1>a, <1>1, <1>2, <1>3, <1>4, <1>5, <1>6, <1>7 DEF Continue

(* The alert system implements Approvals: a request is never withdrawn, and every verdict
   is a human's or, once its window is over, the default of its level (raise_alert,
   respond, process_timeouts, approve and deny under any interleaving). *)
THEOREM KeepsPromise == Spec => ApprovalPromise
<1>1. Init => PromiseInv
  BY DEF Init, PromiseInv, IsPending, NoTime
<1>2. Init => Promise!Init
  <2> SUFFICES ASSUME Init PROVE Promise!Init
    OBVIOUS
  <2>1. \A a : ~IsPending(a)
    BY DEF Init, IsPending
  <2> QED
    BY <2>1 DEF Init, Promise!Init, Unbuilt
<1> QED
  BY <1>1, <1>2, TypeInit, TypeStep, PromiseStep, PromiseSimulation, PTL
     DEF Spec, ApprovalPromise, Promise!Spec
=============================================================================
