---------------------------- MODULE MCAlertSystem ----------------------------
(* Small instances of AlertSystem: identities are model values. *)
EXTENDS AlertSystem, SequencesExt

CONSTANTS a1, a2, c1, c2, p1

OneAlert == {a1}
TwoAlerts == {a1, a2}
OneClient == {c1}
TwoClients == {c1, c2}
OnePoller == {p1}
Nobody == {}

Gated == {"L2", "L3", "L4"}
PushAndVoice == {"push", "voice"}
OnlyPush == {"push"}

(* Nobody answers, polls or waits, and no time has passed. *)
Unanswered ==
    /\ now = 0
    /\ \A a \in Alerts : said[a] = {}
    /\ \A t \in Threads : pc[t] \in {"idle", "insert", "dispatch", "record", "freeze", "onFreeze"}

NothingDelivered ==
    \A receipt \in ToSet(receipts) \union UNION {ToSet(outbox[t]) : t \in Threads} :
        ~receipt.delivered

(* Bound: a second alert is raised, and push delivers, only while no alert is answered; of
   one alert whose handlers fail, everything. *)
OneUndeliveredOrUnanswered ==
    \/ (\E a \in Alerts : level[a] = Unbuilt) /\ NothingDelivered
    \/ Unanswered

(* Alerts and client threads are interchangeable. *)
Symmetry == Permutations(TwoAlerts) \union Permutations(TwoClients)
=============================================================================
