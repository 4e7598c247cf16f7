------------------------------ MODULE Approvals ------------------------------
(***************************************************************************)
(* What the alert system promises about an approval request, without       *)
(* threads, locks or statements.  A request is opened once and never       *)
(* withdrawn; from then on its verdict is one that a human gave or, after  *)
(* the request's window has elapsed, the default of its level.  (It does   *)
(* NOT promise that the default leaves a human's verdict alone: the run    *)
(* AlertVeto shows why.)                                                   *)
(***************************************************************************)
CONSTANTS
    Alerts,         \* identities of alerts
    Level,          \* threshold levels
    Default(_)      \* the verdict a level gets when nobody answers

VARIABLES
    status,         \* "absent", "open" or the verdict of each request
    level,          \* the level each request was opened at
    said,           \* the verdicts humans have given on it
    expired         \* the requests whose window has elapsed

vars == <<status, level, said, expired>>

Verdict == {"approved", "denied"}

Init ==
    /\ status = [a \in Alerts |-> "absent"]
    /\ said = [a \in Alerts |-> {}]
    /\ expired = {}
    /\ level = [a \in Alerts |-> "unbuilt"]

(* A request gets its level while nobody can see it yet. *)
Prepare(a, l) ==
    /\ status[a] = "absent"
    /\ level' = [level EXCEPT ![a] = l]
    /\ UNCHANGED <<status, said, expired>>

Open(a) ==
    /\ status[a] = "absent"
    /\ level[a] \in Level
    /\ status' = [status EXCEPT ![a] = "open"]
    /\ expired' \in {expired, expired \union {a}}
    /\ UNCHANGED <<level, said>>

Say(a, v) ==
    /\ status[a] # "absent"
    /\ said' = [said EXCEPT ![a] = @ \union {v}]
    /\ UNCHANGED <<status, level, expired>>

Elapse ==
    /\ expired \subseteq expired'
    /\ expired' \subseteq {a \in Alerts : status[a] # "absent"}
    /\ UNCHANGED <<status, level, said>>

(* A verdict is a human's, or the level's default once the window is over. *)
Decide(a, v) ==
    /\ status[a] # "absent"
    /\ v \in said[a] \/ (a \in expired /\ v = Default(level[a]))
    /\ status' = [status EXCEPT ![a] = v]
    /\ UNCHANGED <<level, said, expired>>

Next ==
    \/ \E a \in Alerts : \/ \E l \in Level : Prepare(a, l)
                         \/ Open(a)
                         \/ \E v \in Verdict : Say(a, v) \/ Decide(a, v)
    \/ Elapse

Spec == Init /\ [][Next]_vars
=============================================================================
