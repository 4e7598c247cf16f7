------------------------------ MODULE ApexFacade ------------------------------
(***************************************************************************)
(* ApexSystem as its callers see it (src/apex/system.py): each helper has  *)
(* an effect in one part of the system and then appends one record to the  *)
(* ledger; an effect may raise, and then there is no record.  Between the  *)
(* two, and inside verify_chain's loop, other threads do the same.  The    *)
(* anomaly detectors of src/apex/mape/monitor.py are here as well, since   *)
(* they run inside publish_metric.                                         *)
(***************************************************************************)
EXTENDS AuditLedger, FiniteSets, Functions

CONSTANTS
    Threads,        \* threads that call the system
    Verifiers,      \* bound: those of them that verify the chain
    Memories,       \* ids of memories (uuid4)
    AlertIds,       \* ids of alerts (uuid4)
    NoSubject,      \* what a thread without a call works on
    Readings,       \* the values that are published
    WindowSize, Upper, Lower,   \* of the detector
    MaxEntries,     \* bound: records in the ledger
    MaxCycles,      \* bound: adaptation cycles
    Shared,         \* bound: types of the entries that callers overwrite
    MaxOverwrites,  \* bound: assignments to fields of entries
    MaxRaises       \* bound: calls that raise

ASSUME FacadeAssumption ==
    /\ Verifiers \subseteq Threads
    /\ Readings \subseteq Int
    /\ NoSubject \notin Memories \union AlertIds
    /\ WindowSize \in Nat \ {0} /\ Upper \in Int /\ Lower \in Int
    /\ MaxEntries \in Nat /\ MaxCycles \in Nat /\ MaxOverwrites \in Nat
    /\ MaxRaises \in Nat

VARIABLES
    memory,         \* the ids the memory provider holds
    filed,          \* the alerts raise_alert has filed
    window,         \* AnomalyDetector._window
    cycleCount,     \* MAPELoop._cycle_count
    pc,             \* where each thread is in its call
    job,            \* the content of the record its call will append
    position,       \* the entry its verification is at
    size,           \* the entries its verification has copied
    previous,       \* verify_chain's prev_hash
    expected,       \* verify_chain's expected_sig
    \* history variables, read by properties only
    used,           \* ids that were ever remembered
    doubt,          \* memories and alerts whose call raised
    raises,         \* how many calls have raised
    failed,         \* a cycle has raised
    alerted,        \* the last evaluation of the window called on_anomaly
    overwritten     \* the entries overwritten since its verification began

parts == <<memory, filed, window, cycleCount>>
ledger == <<entries, appended, offChain, overwrites>>
verification == <<position, size, previous, expected, overwritten>>
history == <<used, doubt, raises, failed, alerted>>
vars == <<parts, ledger, pc, job, verification, history>>

NoJob == [type |-> "none", about |-> NoSubject]
Job(type, about) == [type |-> type, about |-> about]

Idle(t) == pc[t] = "idle"
Goto(t, label) == pc' = [pc EXCEPT ![t] = label]

(* The call will append this record next. *)
WillAudit(t, type, about) ==
    /\ job' = [job EXCEPT ![t] = Job(type, about)]
    /\ Goto(t, "audit")

Auditing == {job[t].about : t \in {u \in Threads : pc[u] = "audit"}}

(* The call raises here, before its record. *)
Raise(t) ==
    /\ raises < MaxRaises
    /\ raises' = raises + 1
    /\ job' = [job EXCEPT ![t] = NoJob]
    /\ Goto(t, "idle")

Recording == {t \in Threads : pc[t] \in {"observe", "evaluate", "cycle", "audit"}}
Room == Len(entries) + Cardinality(Recording) < MaxEntries

Init ==
    /\ entries = <<>>
    /\ appended = <<>>
    /\ offChain = {}
    /\ overwrites = 0
    /\ memory = {}
    /\ filed = {}
    /\ window = <<>>
    /\ cycleCount = 0
    /\ pc = [t \in Threads |-> "idle"]
    /\ job = [t \in Threads |-> NoJob]
    /\ position = [t \in Threads |-> 0]
    /\ size = [t \in Threads |-> 0]
    /\ previous = [t \in Threads |-> Genesis]
    /\ expected = [t \in Threads |-> Genesis]
    /\ used = {}
    /\ doubt = {}
    /\ raises = 0
    /\ failed = FALSE
    /\ alerted = FALSE
    /\ overwritten = [t \in Threads |-> {}]

-----------------------------------------------------------------------------
(* remember, forget_memory *)

Remember(t, m) ==
    /\ Idle(t) /\ Room
    /\ m \notin used
    /\ used' = used \union {m}
    /\ \/ /\ memory' = memory \union {m}
          /\ WillAudit(t, "memory_stored", m)
          /\ UNCHANGED <<doubt, raises>>
       \/ /\ Raise(t)
          /\ memory' \in {memory, memory \union {m}}
          /\ doubt' = doubt \union {m}
    /\ UNCHANGED <<filed, window, cycleCount, ledger, verification, failed, alerted>>

(* The record of remember, copied. *)
ForgottenEventCopied == "memory_stored"

ForgottenEvent == "memory_forgotten"

(* A provider that raises in the middle of its rewrite may have lost others, too. *)
ForgetMemory(t, m) ==
    /\ Idle(t) /\ Room
    /\ m \in memory
    /\ \/ /\ memory' = memory \ {m}
          /\ WillAudit(t, ForgottenEvent, m)
          /\ UNCHANGED <<doubt, raises>>
       \/ /\ Raise(t)
          /\ \E lost \in SUBSET memory :
               /\ memory' = memory \ lost
               /\ doubt' = doubt \union {m} \union lost
    /\ UNCHANGED <<filed, window, cycleCount, ledger, verification, used, failed, alerted>>

-----------------------------------------------------------------------------
(* publish_metric, and the detector the bus calls in it *)

PublishMetric(t, v) ==
    /\ Idle(t) /\ Room
    /\ job' = [job EXCEPT ![t] = Job("metric_published", v)]
    /\ Goto(t, "observe")
    /\ UNCHANGED <<parts, ledger, verification, history>>

(* A window that only grows. *)
SlideUnbounded(w, v) == Append(w, v)

(* The window is a deque of WindowSize readings. *)
Slide(w, v) == IF Len(w) < WindowSize THEN Append(w, v) ELSE Append(Tail(w), v)

(* `mean > upper', `mean < lower', without the division. *)
Total(w) == SumFunction(w)
Breach(w) ==
    Len(w) = WindowSize /\ (Total(w) > Upper * WindowSize \/ Total(w) < Lower * WindowSize)

(* A detector that forgets its lower threshold. *)
AnomalyAboveOnly == Len(window) = WindowSize /\ Total(window) > Upper * WindowSize

Anomaly == Breach(window)

Observe(t) ==
    /\ pc[t] = "observe"
    /\ window' = Slide(window, job[t].about)
    /\ Goto(t, "evaluate")
    /\ UNCHANGED <<memory, filed, cycleCount, ledger, job, verification, history>>

(* The window by now may hold the readings of others; on_anomaly may raise. *)
EvaluateWindow(t) ==
    /\ pc[t] = "evaluate"
    /\ alerted' = Anomaly
    /\ \/ Goto(t, "audit") /\ UNCHANGED <<job, raises>>
       \/ Anomaly /\ Raise(t)
    /\ UNCHANGED <<parts, ledger, verification, used, doubt, failed>>

-----------------------------------------------------------------------------
(* run_cycle: the loop is MAPELoop's, here only its counter *)

RunCycle(t) ==
    /\ Idle(t) /\ Room
    /\ cycleCount < MaxCycles
    /\ cycleCount' = cycleCount + 1
    /\ Goto(t, "cycle")
    /\ UNCHANGED <<memory, filed, window, ledger, job, verification, history>>

(* A record numbered from zero. *)
CycleNumberFromZero == cycleCount - 1

CycleNumber == cycleCount

CycleReturns(t) ==
    /\ pc[t] = "cycle"
    /\ WillAudit(t, "mape_cycle_complete", CycleNumber)
    /\ UNCHANGED <<parts, ledger, verification, history>>

CycleRaises(t) ==
    /\ pc[t] = "cycle"
    /\ failed' = TRUE
    /\ Raise(t)
    /\ UNCHANGED <<parts, ledger, verification, used, doubt, alerted>>

-----------------------------------------------------------------------------
(* _handle_l3, _handle_l4 *)

HandleL3(t, a) ==
    /\ Idle(t) /\ Room
    /\ a \notin filed
    /\ filed' = filed \union {a}
    /\ WillAudit(t, "alert_raised", a)
    /\ UNCHANGED <<memory, window, cycleCount, ledger, verification, history>>

(* on_freeze may raise when the request is filed. *)
HandleL4(t, a) ==
    /\ Idle(t) /\ Room
    /\ a \notin filed
    /\ filed' = filed \union {a}
    /\ \/ WillAudit(t, "critical_alert_raised", a) /\ UNCHANGED <<doubt, raises>>
       \/ Raise(t) /\ doubt' = doubt \union {a}
    /\ UNCHANGED <<memory, window, cycleCount, ledger, verification, used, failed, alerted>>

-----------------------------------------------------------------------------
(* The audit record of each of them, and verify_audit_chain *)

Audit(t) ==
    /\ pc[t] = "audit"
    /\ AppendEntry(job[t])
    /\ job' = [job EXCEPT ![t] = NoJob]
    /\ Goto(t, "idle")
    /\ UNCHANGED <<parts, verification, history>>

(* The list is copied under the lock; the entries in the copy are the live ones. *)
VerifyChain(t) ==
    /\ Idle(t) /\ t \in Verifiers
    /\ position' = [position EXCEPT ![t] = 1]
    /\ size' = [size EXCEPT ![t] = Len(entries)]
    /\ previous' = [previous EXCEPT ![t] = Genesis]
    /\ overwritten' = [overwritten EXCEPT ![t] = {}]
    /\ Goto(t, "verify")
    /\ UNCHANGED <<parts, ledger, job, expected, history>>

(* verify_chain's loop reads an entry at its lines 127, 135, 137 and 139; a caller may
   overwrite it between any two of them.  At 127 it hashes what the entry says. *)
VerifyContent(t) ==
    /\ pc[t] = "verify"
    /\ position[t] <= size[t]
    /\ expected' = [expected EXCEPT ![t] =
                      Signature(entries[position[t]].content, previous[t])]
    /\ Goto(t, "verify_signature")
    /\ UNCHANGED <<parts, ledger, job, position, size, previous, overwritten, history>>

VerifySignature(t) ==
    /\ pc[t] = "verify_signature"
    /\ Goto(t, IF entries[position[t]].signature = expected[t]
                 THEN "verify_previous" ELSE "broken")
    /\ UNCHANGED <<parts, ledger, job, verification, history>>

(* A verification that trusts the signatures to cover previous_hash. *)
VerifyPreviousSkipped(t) ==
    /\ pc[t] = "verify_previous"
    /\ Goto(t, "verify_next")
    /\ UNCHANGED <<parts, ledger, job, verification, history>>

VerifyPrevious(t) ==
    /\ pc[t] = "verify_previous"
    /\ Goto(t, IF entries[position[t]].previous = previous[t]
                 THEN "verify_next" ELSE "broken")
    /\ UNCHANGED <<parts, ledger, job, verification, history>>

VerifyNext(t) ==
    /\ pc[t] = "verify_next"
    /\ previous' = [previous EXCEPT ![t] = entries[position[t]].signature]
    /\ position' = [position EXCEPT ![t] = @ + 1]
    /\ Goto(t, "verify")
    /\ UNCHANGED <<parts, ledger, job, size, expected, overwritten, history>>

ChainValid(t) ==
    /\ pc[t] = "verify"
    /\ position[t] > size[t]
    /\ Goto(t, "valid")
    /\ UNCHANGED <<parts, ledger, job, verification, history>>

ReturnVerdict(t) ==
    /\ pc[t] \in {"valid", "broken"}
    /\ position' = [position EXCEPT ![t] = 0]
    /\ size' = [size EXCEPT ![t] = 0]
    /\ previous' = [previous EXCEPT ![t] = Genesis]
    /\ expected' = [expected EXCEPT ![t] = Genesis]
    /\ overwritten' = [overwritten EXCEPT ![t] = {}]
    /\ Goto(t, "idle")
    /\ UNCHANGED <<parts, ledger, job, history>>

(* A caller overwrites a field of an entry, or a list its payload shares. *)
HostOverwrites ==
    /\ overwrites < MaxOverwrites
    /\ \E i \in DOMAIN entries :
         /\ appended[i].content.type \in Shared
         /\ Overwrite(i)
         /\ overwritten' = [t \in Threads |->
                              IF i <= size[t] THEN overwritten[t] \union {i}
                              ELSE overwritten[t]]
    /\ UNCHANGED <<parts, pc, job, position, size, previous, expected, history>>

-----------------------------------------------------------------------------

Call(t) ==
    \/ \E m \in Memories : Remember(t, m) \/ ForgetMemory(t, m)
    \/ \E v \in Readings : PublishMetric(t, v)
    \/ \E a \in AlertIds : HandleL3(t, a) \/ HandleL4(t, a)
    \/ RunCycle(t)
    \/ VerifyChain(t)

Continue(t) ==
    \/ Observe(t) \/ EvaluateWindow(t)
    \/ CycleReturns(t) \/ CycleRaises(t)
    \/ Audit(t)
    \/ VerifyContent(t) \/ VerifySignature(t) \/ VerifyPrevious(t) \/ VerifyNext(t)
    \/ ChainValid(t) \/ ReturnVerdict(t)

Next ==
    \/ \E t \in Threads : Call(t) \/ Continue(t)
    \/ HostOverwrites

Spec == Init /\ [][Next]_vars
-----------------------------------------------------------------------------
(* Properties *)

EventType == {"memory_stored", "memory_forgotten", "metric_published",
              "mape_cycle_complete", "alert_raised", "critical_alert_raised"}
Subject == Memories \union AlertIds \union Readings \union (0 .. MaxCycles)
Content == [type : EventType, about : Subject]

Verifying == {"verify", "verify_signature", "verify_previous", "verify_next"}

(* Every variable holds a value the code can store there; calls that overlap never
   append more records than the bound they looked at. *)
TypeOK ==
    /\ Len(entries) = Len(appended) /\ Len(entries) <= MaxEntries
    /\ \A i \in DOMAIN appended : appended[i].content \in Content
    /\ memory \subseteq used /\ used \subseteq Memories
    /\ filed \subseteq AlertIds
    /\ \A i \in DOMAIN window : window[i] \in Readings
    /\ Len(window) <= WindowSize
    /\ cycleCount \in 0 .. MaxCycles
    /\ pc \in [Threads -> {"idle", "observe", "evaluate", "cycle", "audit"}
                           \union Verifying \union {"valid", "broken"}]
    /\ job \in [Threads -> Content \union {NoJob}]
    /\ \A t \in Threads : pc[t] = "audit" => job[t] \in Content
    /\ size \in [Threads -> 0 .. MaxEntries]
    /\ position \in [Threads -> 0 .. MaxEntries + 1]
    /\ \A t \in Threads : overwritten[t] \subseteq 1 .. size[t]
    /\ overwrites \in 0 .. MaxOverwrites /\ offChain \subseteq DOMAIN entries
    /\ doubt \subseteq Memories \union AlertIds
    /\ raises \in 0 .. MaxRaises
    /\ failed \in BOOLEAN /\ alerted \in BOOLEAN

Recorded(type, about) == \E i \in DOMAIN appended : appended[i].content = Job(type, about)

(* However calls overlap, and although a record follows its effect with no lock around
   both (a "forgotten" may precede its "stored"), the ledger tells what is remembered and
   which alerts are out, but for calls under way or that raised (system.py 136-176, 230-249). *)
LedgerTellsEffects ==
    /\ \A m \in Memories \ (doubt \union Auditing) :
         m \in memory <=> Recorded("memory_stored", m) /\ ~Recorded("memory_forgotten", m)
    /\ \A a \in AlertIds \ (doubt \union Auditing) :
         a \in filed <=> Recorded("alert_raised", a) \/ Recorded("critical_alert_raised", a)

(* verify_chain walks live entries outside the lock and its hash takes no key: a caller
   may alter the last entry and sign it anew.  What a chain it calls valid does tell: when
   the signature at its end is the one that was appended, then every entry is unaltered from
   which an unbroken chain of entries, none overwritten meanwhile, leads there (119-141). *)
ValidMeansUnaltered ==
    \A t \in Threads :
      pc[t] = "valid" /\ size[t] > 0
        /\ entries[size[t]].signature = appended[size[t]].signature
            => \A i \in 1 .. size[t] :
                 /\ (i .. size[t]) \intersect overwritten[t] = {}
                 /\ (i + 1 .. size[t]) \intersect offChain = {}
                 => i \notin Altered

(* Appends in flight never break a chain: an entry is blamed when it, or the one before it,
   was altered or is overwritten between two reads of one round (a signature replaced between
   lines 135 and 139 puts the blame behind it), or when it was appended to a signature that
   had been overwritten (lines 135-139). *)
BrokenNamesAltered ==
    \A t \in Threads : pc[t] = "broken" =>
        \/ {position[t] - 1, position[t]} \intersect (Altered \union overwritten[t]) # {}
        \/ position[t] \in offChain

(* A detector appends a reading and averages the window with no lock around both, and a
   publication may be judged by the readings of others; still a window that is in breach
   when nobody is publishing was reported (monitor.py lines 110-133). *)
BreachAtRestWasAlerted ==
    (\A t \in Threads : pc[t] # "evaluate") /\ Breach(window) => alerted

(* cycle_count is read after the cycle, so that two records may carry one number: but
   when no cycle is under way and none has raised, the newest number is on record (line 219). *)
NewestCycleIsRecorded ==
    (\A t \in Threads : pc[t] # "cycle") /\ cycleCount \notin Auditing
        /\ ~failed /\ cycleCount > 0
            => Recorded("mape_cycle_complete", cycleCount)
=============================================================================
