----------------------------- MODULE AlertSystem -----------------------------
(***************************************************************************)
(* The alert and approval system (src/apex/alerts/system.py) under threads.*)
(* Every thread executes one call at a time; a call is cut into the steps  *)
(* between which CPython may switch threads and the shared state it reads  *)
(* or writes can change: a `with self._lock' block is one step, each of    *)
(* the three assignments of approve()/deny() is one step, a callback is    *)
(* one step.  Time is a clock that every `datetime.now' reads.             *)
(***************************************************************************)
EXTENDS Integers, Sequences, FiniteSets, ApexTypes, AlertChannels

CONSTANTS
    Alerts,         \* identities (uuid4) of the alerts that will be raised
    NoAlert,        \* not an alert: what a thread without a call works on
    Clients,        \* threads that make any call
    Pollers,        \* threads of the host that only poll process_timeouts
    RaisedLevels,   \* the levels raise_alert is called with
    Reachable,      \* channels whose handler can succeed
    WindowL2, WindowL3, WindowL4,   \* _TIMEOUT_WINDOWS, in clock ticks
    MaxClock        \* bound: the clock stops here, windows must end by it

Threads == Clients \union Pollers
Verdict == {"approved", "denied"}
Undecided == "undecided"
Unbuilt == "unbuilt"
NoTime == -1
Time == 0 .. MaxClock

ASSUME AlertAssumption ==
    /\ NoAlert \notin Alerts
    /\ RaisedLevels \subseteq Level
    /\ Reachable \subseteq Channel
    /\ WindowL2 \in Nat /\ WindowL3 \in Nat /\ WindowL4 \in Nat
    /\ MaxClock \in Nat

VARIABLES
    now,            \* the wall clock
    pending,        \* _pending: alert ids in insertion order
    level,          \* payload.severity of each alert
    deadline,       \* payload.auto_deny_at
    approved,       \* PendingApproval.approved
    resolvedAt,     \* PendingApproval.resolved_at is set (to what is never read)
    event,          \* PendingApproval._event is set
    receipts,       \* _receipts
    frozen,         \* _frozen
    handed,         \* what raise_alert's caller got: nothing yet, the handle, an exception
    pc,             \* where each thread is in its call
    cur,            \* the alert the call works on
    verdict,        \* the verdict approve()/deny() is writing
    sweepNow,       \* `now' of process_timeouts, NoTime outside it
    todo,           \* the rest of its snapshot of _pending
    outbox,         \* receipts dispatch returned, not yet recorded
    \* history variables, read by properties only
    said,           \* verdicts humans gave on each alert
    spared,         \* alerts already decided when a thread's sweep began
    unfrozen        \* unfreeze was called

clock == <<now>>
payloads == <<level, deadline>>
decisions == <<approved, resolvedAt, event>>
system == <<pending, receipts, frozen, handed>>
locals == <<pc, cur, verdict, sweepNow, todo, outbox>>
history == <<said, spared, unfrozen>>
vars == <<clock, payloads, decisions, system, locals, history>>

(* `severity not in _TIMEOUT_WINDOWS' falls back to thirty minutes, L3's window. *)
TimeoutWindow(l) ==
    CASE l = "L2" -> WindowL2
      [] l = "L4" -> WindowL4
      [] OTHER -> WindowL3

(* An approve-on-timeout set that has grown by one level. *)
DefaultVerdictWithL3(l) == IF l \in {"L2", "L3"} THEN "approved" ELSE "denied"

(* A timeout recorded as a verdict of its own. *)
DefaultVerdictTimeout(l) == IF l = "L2" THEN "approved" ELSE "timeout"

(* _AUTO_APPROVE_ON_TIMEOUT = {L2}; every other level is denied. *)
DefaultVerdict(l) == IF l = "L2" THEN "approved" ELSE "denied"

IsPending(a) == \E i \in DOMAIN pending : pending[i] = a
InSweep(t) == sweepNow[t] # NoTime

Goto(t, label) == pc' = [pc EXCEPT ![t] = label]
Idle(t) == pc[t] = "idle"

(* The call is over: its locals are gone. *)
Return(t) ==
    /\ Goto(t, "idle")
    /\ cur' = [cur EXCEPT ![t] = NoAlert]
    /\ verdict' = [verdict EXCEPT ![t] = Undecided]
    /\ sweepNow' = [sweepNow EXCEPT ![t] = NoTime]
    /\ todo' = [todo EXCEPT ![t] = <<>>]
    /\ outbox' = [outbox EXCEPT ![t] = <<>>]
    /\ spared' = [spared EXCEPT ![t] = {}]

Init ==
    /\ now = 0
    /\ pending = <<>>
    /\ level = [a \in Alerts |-> Unbuilt]
    /\ deadline = [a \in Alerts |-> NoTime]
    /\ approved = [a \in Alerts |-> Undecided]
    /\ resolvedAt = [a \in Alerts |-> FALSE]
    /\ event = [a \in Alerts |-> FALSE]
    /\ receipts = <<>>
    /\ frozen = FALSE
    /\ handed = [a \in Alerts |-> "nothing"]
    /\ pc = [t \in Threads |-> "idle"]
    /\ cur = [t \in Threads |-> NoAlert]
    /\ verdict = [t \in Threads |-> Undecided]
    /\ sweepNow = [t \in Threads |-> NoTime]
    /\ todo = [t \in Threads |-> <<>>]
    /\ outbox = [t \in Threads |-> <<>>]
    /\ said = [a \in Alerts |-> {}]
    /\ spared = [t \in Threads |-> {}]
    /\ unfrozen = FALSE

-----------------------------------------------------------------------------
(* raise_alert *)

(* The payload is built, and its deadline fixed, before anybody can see it. *)
BuildAlert(t, a, l) ==
    /\ Idle(t)
    /\ level[a] = Unbuilt
    /\ now + TimeoutWindow(l) <= MaxClock
    /\ level' = [level EXCEPT ![a] = l]
    /\ deadline' = [deadline EXCEPT ![a] = now + TimeoutWindow(l)]
    /\ cur' = [cur EXCEPT ![t] = a]
    /\ Goto(t, "insert")
    /\ UNCHANGED <<clock, decisions, system, verdict, sweepNow, todo, outbox, history>>

RaiseAlert(t, a) == \E l \in RaisedLevels : BuildAlert(t, a, l)

RaiseIntegrityAlert(t, a) == BuildAlert(t, a, "L4")

(* Only a refuted verdict raises anything. *)
RaiseVerificationAlert(t, a, result) == result = "REFUTED" /\ BuildAlert(t, a, "L4")

InsertPending(t) ==
    /\ pc[t] = "insert"
    /\ pending' = Append(pending, cur[t])
    /\ Goto(t, "dispatch")
    /\ UNCHANGED <<clock, payloads, decisions, receipts, frozen, handed,
                   cur, verdict, sweepNow, todo, outbox, history>>

(* Outside the lock: the request can be answered while the channels ring. *)
DispatchAlert(t) ==
    /\ pc[t] = "dispatch"
    /\ \E delivered \in SUBSET Reachable :
         outbox' = [outbox EXCEPT ![t] = Dispatch(cur[t], level[cur[t]] = "L4", delivered)]
    /\ Goto(t, "record")
    /\ UNCHANGED <<clock, payloads, decisions, system, cur, verdict, sweepNow, todo, history>>

(* Freezing only for alerts nobody has answered yet. *)
CriticalUnanswered(t) == level[cur[t]] = "L4" /\ approved[cur[t]] = Undecided

Critical(t) == level[cur[t]] = "L4"

RecordReceipts(t) ==
    /\ pc[t] = "record"
    /\ receipts' = receipts \o outbox[t]
    /\ \/ /\ Critical(t)
          /\ Goto(t, "freeze")
          /\ outbox' = [outbox EXCEPT ![t] = <<>>]
          /\ UNCHANGED <<handed, cur, verdict, sweepNow, todo, spared>>
       \/ /\ ~Critical(t)
          /\ handed' = [handed EXCEPT ![cur[t]] = "handle"]
          /\ Return(t)
    /\ UNCHANGED <<clock, payloads, decisions, pending, frozen, said, unfrozen>>

TriggerFreeze(t) ==
    /\ pc[t] = "freeze"
    /\ frozen' = TRUE
    /\ Goto(t, "onFreeze")
    /\ UNCHANGED <<clock, payloads, decisions, pending, receipts, handed,
                   cur, verdict, sweepNow, todo, outbox, history>>

(* on_freeze is the host's: if it raises, raise_alert raises and the handle is lost. *)
OnFreeze(t) ==
    /\ pc[t] = "onFreeze"
    /\ \E outcome \in {"handle", "exception"} :
         handed' = [handed EXCEPT ![cur[t]] = outcome]
    /\ Return(t)
    /\ UNCHANGED <<clock, payloads, decisions, pending, receipts, frozen, said, unfrozen>>

-----------------------------------------------------------------------------
(* respond, and the three statements of approve() and deny() *)

(* An id that is not pending changes nothing: respond returns False. *)
Respond(t, a, v) ==
    /\ Idle(t)
    /\ IsPending(a)
    /\ cur' = [cur EXCEPT ![t] = a]
    /\ verdict' = [verdict EXCEPT ![t] = v]
    /\ said' = [said EXCEPT ![a] = @ \union {v}]
    /\ Goto(t, "setApproved")
    /\ UNCHANGED <<clock, payloads, decisions, system, sweepNow, todo, outbox, spared, unfrozen>>

(* approve() waking the waiters before resolved_at is written. *)
SetApprovedWakingEarly(t) ==
    /\ pc[t] = "setApproved"
    /\ approved' = [approved EXCEPT ![cur[t]] = verdict[t]]
    /\ event' = [event EXCEPT ![cur[t]] = TRUE]
    /\ Goto(t, "setResolvedAt")
    /\ UNCHANGED <<clock, payloads, resolvedAt, system,
                   cur, verdict, sweepNow, todo, outbox, history>>

SetApproved(t) ==
    /\ pc[t] = "setApproved"
    /\ approved' = [approved EXCEPT ![cur[t]] = verdict[t]]
    /\ Goto(t, "setResolvedAt")
    /\ UNCHANGED <<clock, payloads, resolvedAt, event, system,
                   cur, verdict, sweepNow, todo, outbox, history>>

SetResolvedAt(t) ==
    /\ pc[t] = "setResolvedAt"
    /\ resolvedAt' = [resolvedAt EXCEPT ![cur[t]] = TRUE]
    /\ Goto(t, "setEvent")
    /\ UNCHANGED <<clock, payloads, approved, event, system,
                   cur, verdict, sweepNow, todo, outbox, history>>

SetEvent(t) ==
    /\ pc[t] = "setEvent"
    /\ event' = [event EXCEPT ![cur[t]] = TRUE]
    /\ \/ /\ InSweep(t)
          /\ Goto(t, "sweep")
          /\ cur' = [cur EXCEPT ![t] = NoAlert]
          /\ verdict' = [verdict EXCEPT ![t] = Undecided]
          /\ UNCHANGED <<sweepNow, todo, outbox, spared>>
       \/ ~InSweep(t) /\ Return(t)
    /\ UNCHANGED <<clock, payloads, approved, resolvedAt, system, said, unfrozen>>

-----------------------------------------------------------------------------
(* process_timeouts *)

ProcessTimeouts(t) ==
    /\ Idle(t)
    /\ sweepNow' = [sweepNow EXCEPT ![t] = now]
    /\ spared' = [spared EXCEPT ![t] = {a \in Alerts : approved[a] # Undecided}]
    /\ Goto(t, "snapshot")
    /\ UNCHANGED <<clock, payloads, decisions, system, cur, verdict, todo, outbox,
                   said, unfrozen>>

(* A snapshot that forgets the requests whose on_freeze raised. *)
SnapshotHanded == SelectSeq(pending, LAMBDA a : handed[a] = "handle")

Snapshot == pending

SnapshotPending(t) ==
    /\ pc[t] = "snapshot"
    /\ todo' = [todo EXCEPT ![t] = Snapshot]
    /\ Goto(t, "sweep")
    /\ UNCHANGED <<clock, payloads, decisions, system, cur, verdict, sweepNow, outbox, history>>

(* A sweep that does not look at the verdict. *)
TimedOutWithoutCheck(t, a) == sweepNow[t] >= deadline[a]

(* A sweep that does not look at the deadline. *)
TimedOutEarly(t, a) == approved[a] = Undecided

(* The check and the write it allows are two steps: nothing is locked between them. *)
TimedOut(t, a) == approved[a] = Undecided /\ sweepNow[t] >= deadline[a]

SweepItem(t) ==
    /\ pc[t] = "sweep"
    /\ todo[t] # <<>>
    /\ todo' = [todo EXCEPT ![t] = Tail(@)]
    /\ LET a == Head(todo[t])
       IN \/ /\ TimedOut(t, a)
             /\ cur' = [cur EXCEPT ![t] = a]
             /\ verdict' = [verdict EXCEPT ![t] = DefaultVerdict(level[a])]
             /\ Goto(t, "setApproved")
          \/ ~TimedOut(t, a) /\ UNCHANGED <<pc, cur, verdict>>
    /\ UNCHANGED <<clock, payloads, decisions, system, sweepNow, outbox, history>>

SweepDone(t) ==
    /\ pc[t] = "sweep"
    /\ todo[t] = <<>>
    /\ Return(t)
    /\ UNCHANGED <<clock, payloads, decisions, system, said, unfrozen>>

-----------------------------------------------------------------------------
(* PendingApproval.wait, unfreeze and time *)

Wait(t, a) ==
    /\ Idle(t)
    /\ IsPending(a)
    /\ cur' = [cur EXCEPT ![t] = a]
    /\ Goto(t, "waiting")
    /\ UNCHANGED <<clock, payloads, decisions, system, verdict, sweepNow, todo, outbox, history>>

(* wait() returned True; the caller will now read `approved'. *)
WaitReturnsTrue(t) ==
    /\ pc[t] = "waiting"
    /\ event[cur[t]]
    /\ Goto(t, "woken")
    /\ UNCHANGED <<clock, payloads, decisions, system, cur, verdict, sweepNow, todo, outbox, history>>

WaitTimesOut(t) ==
    /\ pc[t] = "waiting"
    /\ ~event[cur[t]]
    /\ Return(t)
    /\ UNCHANGED <<clock, payloads, decisions, system, said, unfrozen>>

ReadDecision(t) ==
    /\ pc[t] = "woken"
    /\ Return(t)
    /\ UNCHANGED <<clock, payloads, decisions, system, said, unfrozen>>

Unfreeze(t) ==
    /\ Idle(t)
    /\ frozen' = FALSE
    /\ unfrozen' = TRUE
    /\ UNCHANGED <<clock, payloads, decisions, pending, receipts, handed, locals, said, spared>>

Tick ==
    /\ now < MaxClock
    /\ now' = now + 1
    /\ UNCHANGED <<payloads, decisions, system, locals, history>>

-----------------------------------------------------------------------------

Call(t) ==
    \/ \E a \in Alerts :
         \/ RaiseAlert(t, a)
         \/ RaiseIntegrityAlert(t, a)
         \/ \E result \in VerificationResult : RaiseVerificationAlert(t, a, result)
         \/ \E v \in Verdict : Respond(t, a, v)
         \/ Wait(t, a)
    \/ Unfreeze(t)

(* A thread that is inside a call takes its next step. *)
Continue(t) ==
    \/ InsertPending(t) \/ DispatchAlert(t) \/ RecordReceipts(t)
    \/ TriggerFreeze(t) \/ OnFreeze(t)
    \/ SetApproved(t) \/ SetResolvedAt(t) \/ SetEvent(t)
    \/ SnapshotPending(t) \/ SweepItem(t) \/ SweepDone(t)
    \/ WaitReturnsTrue(t) \/ WaitTimesOut(t) \/ ReadDecision(t)

Next ==
    \/ \E t \in Clients : Call(t)
    \/ \E t \in Threads : ProcessTimeouts(t) \/ Continue(t)
    \/ Tick

Spec == Init /\ [][Next]_vars

(* Calls run to their end, the clock runs, and the host's pollers poll. *)
Fairness ==
    /\ \A t \in Threads : WF_vars(Continue(t))
    /\ \A t \in Pollers : WF_vars(ProcessTimeouts(t))
    /\ WF_vars(Tick)

FairSpec == Spec /\ Fairness
-----------------------------------------------------------------------------
(* Properties *)

PC == {"idle", "insert", "dispatch", "record", "freeze", "onFreeze", "setApproved",
       "setResolvedAt", "setEvent", "snapshot", "sweep", "waiting", "woken"}

Receipt == [channel : Channel, alert : Alerts, delivered : BOOLEAN]

(* Every variable holds a value the code can store there; in particular a thread
   that works on an alert works on a real one and writes a real verdict. *)
TypeOK ==
    /\ now \in Time
    /\ pending \in Seq(Alerts)
    /\ level \in [Alerts -> Level \union {Unbuilt}]
    /\ deadline \in [Alerts -> Time \union {NoTime}]
    /\ approved \in [Alerts -> Verdict \union {Undecided}]
    /\ resolvedAt \in [Alerts -> BOOLEAN]
    /\ event \in [Alerts -> BOOLEAN]
    /\ receipts \in Seq(Receipt)
    /\ frozen \in BOOLEAN
    /\ handed \in [Alerts -> {"nothing", "handle", "exception"}]
    /\ pc \in [Threads -> PC]
    /\ cur \in [Threads -> Alerts \union {NoAlert}]
    /\ verdict \in [Threads -> Verdict \union {Undecided}]
    /\ sweepNow \in [Threads -> Time \union {NoTime}]
    /\ todo \in [Threads -> Seq(Alerts)]
    /\ outbox \in [Threads -> Seq(Receipt)]
    /\ said \in [Alerts -> SUBSET Verdict]
    /\ spared \in [Threads -> SUBSET Alerts]
    /\ unfrozen \in BOOLEAN

(* No interleaving of sweeps, responses and late responses approves a change that
   needs a human (L3, L4, and any level outside the approve-on-timeout set) unless
   a human said so: _AUTO_APPROVE_ON_TIMEOUT, process_timeouts and respond. *)
NoGatedAutoApproval ==
    \A a \in Alerts :
        approved[a] = "approved" /\ level[a] # "L2" => "approved" \in said[a]

(* A waiter that PendingApproval.wait woke finds a verdict and its time, whichever
   threads are still inside approve() or deny() (the order of lines 58-60, 63-65). *)
WokenFindsDecision ==
    \A a \in Alerts : event[a] => approved[a] # Undecided /\ resolvedAt[a]

(* The race of process_timeouts with respond is confined to its check-then-write
   window: what was decided before the sweep began, the sweep leaves alone. *)
SweepSparesDecided ==
    \A t \in Threads :
        InSweep(t) /\ pc[t] = "setApproved" => cur[t] \notin spared[t]

(* By the time raise_alert is over, even with an exception from on_freeze, an L4
   alert has frozen the system, unless an operator has unfrozen it (line 131, 208). *)
CriticalAlertFreezes ==
    \A a \in Alerts :
        level[a] = "L4" /\ handed[a] # "nothing" => frozen \/ unfrozen

(* What README.md:145-150 and channels.py:3-7 promise of an alert whose raise_alert is over:
   it was attempted by e-mail; from L3 on by push, and by SMS unless push delivered it; at
   L4 by voice.  Two raisers dispatch at once, and what each got back from the channels it
   records later, in another critical section (lines 126-129). *)
AlertWasAttempted ==
    \A a \in Alerts : handed[a] # "nothing" =>
        LET tried(c) == \E i \in DOMAIN receipts :
                            receipts[i].alert = a /\ receipts[i].channel = c
            pushed == \E i \in DOMAIN receipts :
                            receipts[i] = [channel |-> "push", alert |-> a, delivered |-> TRUE]
        IN /\ tried("email")
           /\ level[a] \in {"L3", "L4"} => tried("push") /\ (pushed \/ tried("sms"))
           /\ level[a] = "L4" => tried("voice")

(* The abstract promise: requests are never withdrawn, and every verdict is a
   human's or, after the window, the default of the level (Approvals.tla). *)
Promise == INSTANCE Approvals WITH
    status <- [a \in Alerts |-> IF ~IsPending(a) THEN "absent"
                                ELSE IF approved[a] = Undecided THEN "open"
                                ELSE approved[a]],
    expired <- {a \in Alerts : IsPending(a) /\ now >= deadline[a]},
    Default <- DefaultVerdict

ApprovalPromise == Promise!Spec

(* With a host that polls, every request that was filed gets a verdict and wakes its
   waiters, whatever the other threads do (process_timeouts, lines 188-202). *)
EveryRequestDecided == \A a \in Alerts : IsPending(a) ~> event[a]

(* A raise_alert that has filed an L4 request freezes the system at a later moment,
   even if the request is answered while the channels still ring (lines 123-132). *)
CriticalAlertLeadsToFreeze ==
    \A t \in Clients :
        (pc[t] = "dispatch" /\ level[cur[t]] = "L4") ~> frozen

(* What system.py:12 says of an L2 notification: "auto-approve if no veto".  A
   sweep's write never turns a veto that is on record into an approval. *)
AutoApproveOnlyIfNoVeto ==
    [][\A t \in Threads, a \in Alerts :
          pc[t] = "setApproved" /\ InSweep(t) /\ cur[t] = a /\ pc'[t] = "setResolvedAt"
              => ~(approved[a] = "denied" /\ approved'[a] = "approved")]_vars
=============================================================================
