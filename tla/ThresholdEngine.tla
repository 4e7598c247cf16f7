--------------------------- MODULE ThresholdEngine ---------------------------
(***************************************************************************)
(* The autonomic threshold engine (src/apex/thresholds/engine.py) under    *)
(* threads that evaluate plans and threads that report oversight contact.  *)
(* evaluate reads the dead-man switch under the lock and uses what it read *)
(* without it, on the far side of a callback of the host.                  *)
(***************************************************************************)
EXTENDS Integers, RiskScorer

CONSTANTS
    Threads,        \* threads that evaluate plans, check the switch and send heartbeats
    Risks,          \* the risk scores of the plans they evaluate
    Timeout,        \* _dead_man_timeout, in clock ticks
    MaxClock        \* bound: the clock stops here

ASSUME EngineAssumption ==
    /\ Risks \subseteq 0 .. 10000
    /\ Timeout \in Nat
    /\ MaxClock \in Nat

VARIABLES
    now,            \* the wall clock
    lastContact,    \* _last_oversight_contact
    deadManActive,  \* _dead_man_active
    pc,             \* where each thread is in evaluate
    lvl,            \* `level' of its evaluation
    deadMan,        \* `dead_man' of its evaluation
    decision,       \* the decision its last evaluation returned, if it did
    \* history variables, read by properties only
    silentSince,    \* the switch was due when the evaluation began, and nobody called since
    silentOnce      \* the switch was due at some moment of the evaluation

vars == <<now, lastContact, deadManActive, pc, lvl, deadMan, decision, silentSince, silentOnce>>

NoDecision == [level |-> "L0", autonomous |-> FALSE, approval |-> FALSE, blocked |-> FALSE]

SilentAt(clock) == clock - lastContact > Timeout
Silent == SilentAt(now)

Init ==
    /\ now = 0
    /\ lastContact = 0
    /\ deadManActive = FALSE
    /\ pc = [t \in Threads |-> "idle"]
    /\ lvl = [t \in Threads |-> "L0"]
    /\ deadMan = [t \in Threads |-> FALSE]
    /\ decision = [t \in Threads |-> NoDecision]
    /\ silentSince = [t \in Threads |-> FALSE]
    /\ silentOnce = [t \in Threads |-> FALSE]

(* A contact that leaves the latched flag alone. *)
FlagAfterContactKept == deadManActive

FlagAfterContact == FALSE

(* A contact that is given credit in advance. *)
ContactTimeWithGrace == now + Timeout

ContactTime == now

Heartbeat(t) ==
    /\ pc[t] = "idle"
    /\ lastContact' = ContactTime
    /\ deadManActive' = FlagAfterContact
    /\ silentSince' = [u \in Threads |-> FALSE]
    /\ UNCHANGED <<now, pc, lvl, deadMan, decision, silentOnce>>

(* A check that reports the flag before it brings it up to date. *)
ReadSwitchLate(flag) == deadManActive' = (Silent \/ deadManActive) /\ flag = deadManActive

(* The locked block of check_dead_man_switch; flag is what it returns. *)
ReadSwitch(flag) == deadManActive' = (Silent \/ deadManActive) /\ flag = deadManActive'

CheckDeadManSwitch(t) ==
    /\ pc[t] = "idle"
    /\ \E flag \in BOOLEAN : ReadSwitch(flag)
    /\ UNCHANGED <<now, lastContact, pc, lvl, deadMan, decision, silentSince, silentOnce>>

(* evaluate: the level of the plan. *)
Evaluate(t, risk) ==
    /\ pc[t] = "idle"
    /\ lvl' = [lvl EXCEPT ![t] = ThresholdLevel(risk)]
    /\ silentSince' = [silentSince EXCEPT ![t] = Silent]
    /\ silentOnce' = [silentOnce EXCEPT ![t] = Silent]
    /\ decision' = [decision EXCEPT ![t] = NoDecision]
    /\ pc' = [pc EXCEPT ![t] = "check"]
    /\ UNCHANGED <<now, lastContact, deadManActive, deadMan>>

CheckForEvaluation(t) ==
    /\ pc[t] = "check"
    /\ \E flag \in BOOLEAN :
         ReadSwitch(flag) /\ deadMan' = [deadMan EXCEPT ![t] = flag]
    /\ pc' = [pc EXCEPT ![t] = IF lvl[t] \in Gated THEN "alert" ELSE "decide"]
    /\ UNCHANGED <<now, lastContact, lvl, decision, silentSince, silentOnce>>

(* on_l3_alert or on_l4_alert; an exception ends evaluate without a decision. *)
Alert(t) ==
    /\ pc[t] = "alert"
    /\ \E next \in {"decide", "idle"} : pc' = [pc EXCEPT ![t] = next]
    /\ UNCHANGED <<now, lastContact, deadManActive, lvl, deadMan, decision,
                   silentSince, silentOnce>>

(* The ThresholdDecision for a level and the flag that was read. *)
DecisionFor(level, flag) ==
    [level |-> level,
     autonomous |-> level \in {"L0", "L1"} \/ (level = "L2" /\ ~flag),
     approval |-> level \in Gated,
     blocked |-> level = "L4" \/ (level \in {"L2", "L3"} /\ flag)]

Decide(t) ==
    /\ pc[t] = "decide"
    /\ decision' = [decision EXCEPT ![t] = DecisionFor(lvl[t], deadMan[t])]
    /\ pc' = [pc EXCEPT ![t] = "idle"]
    /\ UNCHANGED <<now, lastContact, deadManActive, lvl, deadMan, silentSince, silentOnce>>

(* Time passes; an evaluation under way sees the switch become due. *)
Tick ==
    /\ now < MaxClock
    /\ now' = now + 1
    /\ silentOnce' = [t \in Threads |-> silentOnce[t] \/ (pc[t] # "idle" /\ SilentAt(now + 1))]
    /\ UNCHANGED <<lastContact, deadManActive, pc, lvl, deadMan, decision, silentSince>>

EvaluationStep(t) == CheckForEvaluation(t) \/ Alert(t) \/ Decide(t)

Next ==
    \/ \E t \in Threads :
         \/ Heartbeat(t) \/ CheckDeadManSwitch(t)
         \/ \E risk \in Risks : Evaluate(t, risk)
         \/ EvaluationStep(t)
    \/ Tick

Spec == Init /\ [][Next]_vars
-----------------------------------------------------------------------------
(* Properties *)

Decision == {DecisionFor(l, flag) : l \in Level, flag \in BOOLEAN} \union {NoDecision}

(* Every variable holds a value the code can store there. *)
TypeOK ==
    /\ now \in 0 .. MaxClock
    /\ lastContact \in 0 .. now
    /\ deadManActive \in BOOLEAN
    /\ pc \in [Threads -> {"idle", "check", "alert", "decide"}]
    /\ lvl \in [Threads -> Level]
    /\ deadMan \in [Threads -> BOOLEAN]
    /\ decision \in [Threads -> Decision]
    /\ silentSince \in [Threads -> BOOLEAN]
    /\ silentOnce \in [Threads -> BOOLEAN]

(* The latched flag never outlives its reason: while it is set, oversight really has
   been silent for longer than the timeout, whoever calls what in between (lines 85-94). *)
FlagMeansSilence == deadManActive => Silent

(* The flag is read before the host's alert callback and used after it.  Still, when
   oversight was silent beyond the timeout as an evaluation began and nobody has called
   since, its decision on an L2+ plan is a block (lines 99, 122, 148). *)
SilenceSuspends ==
    \A t \in Threads :
        silentSince[t] /\ decision[t] # NoDecision /\ decision[t].level \notin {"L0", "L1"}
            => decision[t].blocked /\ ~decision[t].autonomous

(* An evaluation that saw no silence suspends nothing: an L2 or L3 decision is a block
   only if the timeout was exceeded at some moment of that very evaluation. *)
NoFalseSuspension ==
    \A t \in Threads :
        decision[t].level \in {"L2", "L3"} /\ decision[t].blocked => silentOnce[t]
=============================================================================
