----------------------------- MODULE Orchestrator -----------------------------
(***************************************************************************)
(* DecisionOrchestrator.decide (src/apex/orchestration/orchestrator.py)    *)
(* called by several threads.  All calls share one stack: a call pushes    *)
(* its own path and reads the governing one under the lock, runs the       *)
(* verification pipeline without it, and takes the LAST entry off under it.*)
(***************************************************************************)
EXTENDS Integers, Sequences, FiniteSets, PathSelector

CONSTANTS
    Threads,        \* threads that call decide
    Contexts,       \* the decision contexts they pass
    MaxLeaks        \* bound: so many pipeline runs raise

ASSUME OrchestratorAssumption ==
    /\ IsFiniteSet(Threads)
    /\ Contexts \subseteq Context
    /\ MaxLeaks \in Nat

VARIABLES
    callStack,      \* _call_stack
    pc,             \* where each thread is in decide
    own,            \* the path selected for its call
    governing,      \* governing_path of its call
    \* history variables, read by properties only
    leaked,         \* calls whose pipeline raised: their entry was never popped
    overlapping     \* the paths that were in flight when the call was pushed

vars == <<callStack, pc, own, governing, leaked, overlapping>>

Rigor(p) ==
    CASE p = "reflexive" -> 0
      [] p = "deliberative" -> 1
      [] p = "collaborative" -> 2
      [] p = "adversarial" -> 3

Entries(stack) == {stack[i] : i \in DOMAIN stack}

(* A call that finds nobody else on the stack is given no governing path. *)
GoverningPathOfOthers(stack) ==
    IF Len(stack) = 1 THEN "none"
    ELSE CHOOSE p \in Entries(stack) : \A q \in Entries(stack) : Rigor(q) <= Rigor(p)

(* max() over the stack by rigor; the four rigors differ, so the choice is unique. *)
GoverningPath(stack) ==
    CHOOSE p \in Entries(stack) : \A q \in Entries(stack) : Rigor(q) <= Rigor(p)

(* The call is over: its locals are gone. *)
Return(t) ==
    /\ pc' = [pc EXCEPT ![t] = "idle"]
    /\ own' = [own EXCEPT ![t] = "deliberative"]
    /\ governing' = [governing EXCEPT ![t] = "deliberative"]
    /\ overlapping' = [overlapping EXCEPT ![t] = {}]

InFlight == {t \in Threads : pc[t] = "running"}

Init ==
    /\ callStack = <<>>
    /\ pc = [t \in Threads |-> "idle"]
    /\ own = [t \in Threads |-> "deliberative"]
    /\ governing = [t \in Threads |-> "deliberative"]
    /\ leaked = 0
    /\ overlapping = [t \in Threads |-> {}]

(* decide, line 149: the path is selected before the lock is taken. *)
Decide(t) ==
    /\ pc[t] = "idle"
    /\ \E c \in Contexts : own' = [own EXCEPT ![t] = Select(c)]
    /\ pc' = [pc EXCEPT ![t] = "entering"]
    /\ UNCHANGED <<callStack, governing, leaked, overlapping>>

Push(t) ==
    /\ pc[t] = "entering"
    /\ callStack' = Append(callStack, own[t])
    /\ governing' = [governing EXCEPT ![t] = GoverningPath(Append(callStack, own[t]))]
    /\ overlapping' = [overlapping EXCEPT ![t] = {own[u] : u \in InFlight}]
    /\ pc' = [pc EXCEPT ![t] = "running"]
    /\ UNCHANGED <<own, leaked>>

(* VerificationPipeline.run raised (the model function did, or the record's confidence
   is out of range): decide has no finally, so the pop of line 158 is skipped. *)
PipelineRaises(t) ==
    /\ pc[t] = "running"
    /\ leaked < MaxLeaks
    /\ leaked' = leaked + 1
    /\ Return(t)
    /\ UNCHANGED callStack

(* A pop that clears the stack, and one that is forgotten. *)
PoppedAll(stack) == <<>>
PoppedNone(stack) == stack

Popped(stack) == IF stack # <<>> THEN SubSeq(stack, 1, Len(stack) - 1) ELSE stack

(* The pipeline returned.  list.pop(): the last entry goes, which need not be this call's. *)
Pop(t) ==
    /\ pc[t] = "running"
    /\ callStack' = Popped(callStack)
    /\ Return(t)
    /\ UNCHANGED leaked

Next == \E t \in Threads : Decide(t) \/ Push(t) \/ PipelineRaises(t) \/ Pop(t)

Spec == Init /\ [][Next]_vars
-----------------------------------------------------------------------------
(* Properties *)

(* Every variable holds a value the code can store there. *)
TypeOK ==
    /\ callStack \in Seq(DecisionPath)
    /\ pc \in [Threads -> {"idle", "entering", "running"}]
    /\ own \in [Threads -> DecisionPath]
    /\ governing \in [Threads -> DecisionPath]
    /\ leaked \in 0 .. MaxLeaks
    /\ overlapping \in [Threads -> SUBSET DecisionPath]

(* Whatever order the calls end in, the shared stack holds one entry per call in
   flight and one per call whose pipeline raised: pops take wrong entries but never
   a wrong number of them, and `if self._call_stack' (line 159) never saves a pop. *)
StackAccountsForCalls == Len(callStack) = Cardinality(InFlight) + leaked

(* As long as no pipeline has raised, a call that was alone when it entered is governed
   by its own path: no entry of a finished call is left to govern it (lines 152-160). *)
LoneCallGovernsItself ==
    \A t \in Threads :
        pc[t] = "running" /\ leaked = 0 /\ overlapping[t] = {} => governing[t] = own[t]

(* orchestrator.py:153 says: "highest-rigor path in call stack governs approval".  A
   call is governed by at least the rigor of every call in flight when it entered. *)
HighestRigorGoverns ==
    \A t \in InFlight : \A p \in overlapping[t] : Rigor(governing[t]) >= Rigor(p)
=============================================================================
