------------------------- MODULE BuiltinMemoryProofs -------------------------
(***************************************************************************)
(* Proofs about BuiltinMemory for every set of threads and entries.  All   *)
(* of them rest on the lock: while a thread is inside a call, every other  *)
(* one is idle, failing system calls and restarts included.                *)
(***************************************************************************)
EXTENDS BuiltinMemory, TLAPS

(* What is in a file belongs to its scope and the file exists; what is safe is stored. *)
StoreOK ==
    /\ \A s \in Scope, e \in Entries : Holds(s, e) => s \in exists /\ s = ScopeOf(e)
    /\ SafeIsStored

(* A call of remember: it creates a missing file only, and has stored its entry. *)
RememberOK(t) ==
    /\ pc[t] \in {"create", "append"} => file[ScopeOf(arg[t])][arg[t]] < MaxCopies
    /\ pc[t] = "create" => ScopeOf(arg[t]) \notin exists
    /\ pc[t] = "append" => ScopeOf(arg[t]) \in exists
    /\ pc[t] = "remembered" => Holds(ScopeOf(arg[t]), arg[t])

(* A call of forget: no file it has passed, or will not read, has the entry, and what
   it writes back is the rest of the file in which it found the entry. *)
ForgetOK(t) ==
    /\ pc[t] \in {"read", "truncate", "rewrite", "forgotten"} => arg[t] \notin safe
    /\ pc[t] = "read" => \A s \in Scope \ todo[t] : ~Holds(s, arg[t])
    /\ pc[t] \in {"truncate", "rewrite"} =>
         /\ First(todo[t]) \in exists
         /\ kept[t][arg[t]] = 0
         /\ \A e \in Entries : kept[t][e] > 0 => ScopeOf(e) = First(todo[t])
         /\ \A s \in Scope : s # First(todo[t]) => ~Holds(s, arg[t])
    /\ pc[t] = "truncate" =>
         \A e \in Entries : e # arg[t] => kept[t][e] = file[First(todo[t])][e]
    /\ pc[t] = "rewrite" => \A e \in Entries : ~Holds(First(todo[t]), e)
    /\ pc[t] = "forgotten" => \A s \in Scope : ~Holds(s, arg[t])

(* A call of recall has what is safe in the files it has read. *)
RecallOK(t) ==
    pc[t] = "recall" =>
        \A e \in safe : ScopeOf(e) \in scopes[t] /\ ScopeOf(e) \notin todo[t] => e \in entries[t]

WorkOK(t) ==
    /\ pc[t] # "idle" => lock = t
    /\ pc[t] \notin {"idle", "recall"} => arg[t] \in Entries
    /\ RememberOK(t) /\ ForgetOK(t) /\ RecallOK(t)

MemoryInv == TypeOK /\ StoreOK /\ \A t \in Threads : WorkOK(t)

(* Scopes are the two of MemoryScope, and the first of some is one of them. *)
LEMMA ScopeFacts ==
    /\ \A e : ScopeOf(e) \in Scope
    /\ \A S \in SUBSET Scope : First(S) \in Scope /\ (S # {} => First(S) \in S)
BY DEF ScopeOf, Scope, First

(* Files of so many lines stay such files when a line is added below the bound, and
   when all lines of an entry go. *)
LEMMA LinesFacts ==
    ASSUME NEW lines \in Lines, NEW e \in Entries
    PROVE  /\ \A f \in Entries : lines[f] \in 0 .. MaxCopies
           /\ Without(lines, e) \in Lines
           /\ \A f \in Entries : Without(lines, e)[f] = IF f = e THEN 0 ELSE lines[f]
           /\ lines[e] < MaxCopies => [lines EXCEPT ![e] = @ + 1] \in Lines
<1> USE MemoryAssumption DEF MemoryAssumption
<1>1. \A f \in Entries : lines[f] \in 0 .. MaxCopies
  BY DEF Lines
<1>2. Without(lines, e) \in Lines
  BY DEF Lines, Without
<1>3. \A f \in Entries : Without(lines, e)[f] = IF f = e THEN 0 ELSE lines[f]
  BY DEF Lines, Without
<1>4. ASSUME lines[e] < MaxCopies PROVE [lines EXCEPT ![e] = @ + 1] \in Lines
  <2>1. lines[e] + 1 \in 0 .. MaxCopies
    BY <1>1, <1>4
  <2> QED
    BY <2>1 DEF Lines
<1> QED
  BY <1>1, <1>2, <1>3, <1>4

(* The initial state satisfies the invariant. *)
LEMMA MemoryInit == Init => MemoryInv
<1> SUFFICES ASSUME Init PROVE MemoryInv
  OBVIOUS
<1>1. Empty \in Lines
  BY MemoryAssumption DEF MemoryAssumption, Empty, Lines
<1>2. TypeOK
  BY <1>1 DEF Init, TypeOK, PC
<1>3. \A s \in Scope, e \in Entries : ~Holds(s, e)
  BY DEF Init, Holds, Empty
<1>4. StoreOK
  BY <1>3 DEF StoreOK, SafeIsStored, Init
<1>5. \A t \in Threads : WorkOK(t)
  BY DEF Init, WorkOK, RememberOK, ForgetOK, RecallOK
<1> QED
  BY <1>2, <1>4, <1>5 DEF MemoryInv

(* A call begins when no other is under way, and a step inside a call finds every other
   thread idle: the lock. *)
LEMMA Alone ==
    ASSUME MemoryInv, NEW t \in Threads, pc[t] # "idle" \/ lock = NoThread,
           NEW u \in Threads, u # t
    PROVE  pc[u] = "idle"
BY MemoryAssumption DEF MemoryInv, WorkOK, MemoryAssumption

(* No step of a thread, no failing system call and no restart breaks the invariant. *)
LEMMA MemoryStep == MemoryInv /\ [Next]_vars => MemoryInv'
<1> SUFFICES ASSUME MemoryInv, [Next]_vars PROVE MemoryInv'
  OBVIOUS
<1>0. Empty \in Lines /\ MaxCopies \in Nat /\ NoThread \notin Threads
  BY MemoryAssumption DEF MemoryAssumption, Empty, Lines
<1>t. /\ file \in [Scope -> Lines] /\ exists \subseteq Scope /\ lock \in Threads \union {NoThread}
      /\ pc \in [Threads -> PC] /\ arg \in [Threads -> Entries \union {NoEntry}]
      /\ scopes \in [Threads -> SUBSET Scope] /\ todo \in [Threads -> SUBSET Scope]
      /\ kept \in [Threads -> Lines] /\ entries \in [Threads -> SUBSET Entries]
      /\ safe \subseteq Entries
  BY DEF MemoryInv, TypeOK
<1>e. Empty \in Lines /\ \A e \in Entries : ~(Empty[e] > 0)
  BY <1>0 DEF Empty
<1>w. \A t \in Threads : WorkOK(t)
  BY DEF MemoryInv
<1>s. StoreOK
  BY DEF MemoryInv
<1> DEFINE Others(t) == \A u \in Threads : u # t => pc'[u] = "idle"
<1>q. ASSUME NEW t \in Threads, TypeOK', StoreOK', Others(t), WorkOK(t)' PROVE MemoryInv'
  BY <1>q DEF MemoryInv, WorkOK, RememberOK, ForgetOK, RecallOK
<1> USE DEF Goto, Idle, locals
<1>1. ASSUME NEW t \in Threads, NEW e \in Entries, Remember(t, e) PROVE MemoryInv'
  <2>0. Others(t)
    BY <1>t, <1>1, Alone DEF Remember, Acquire, Return
  <2>1. TypeOK'
    BY <1>0, <1>t, <1>1, ScopeFacts DEF Remember, Acquire, TypeOK, PC
  <2>2. StoreOK'
    BY <1>0, <1>t, <1>e, <1>w, <1>s, <1>1, <2>0, <2>1, ScopeFacts
       DEF Remember, Acquire, StoreOK, SafeIsStored, Holds, WorkOK, RememberOK, ForgetOK, RecallOK
  <2>3. WorkOK(t)'
    BY <1>0, <1>t, <1>e, <1>w, <1>s, <1>1, <2>0, <2>1, ScopeFacts
       DEF Remember, Acquire, Holds, StoreOK, WorkOK, RememberOK, ForgetOK, RecallOK
  <2> QED
    BY <1>q, <2>0, <2>1, <2>2, <2>3
<1>2. ASSUME NEW t \in Threads, NEW e \in Entries, Forget(t, e) PROVE MemoryInv'
  <2>0. Others(t)
    BY <1>t, <1>2, Alone DEF Forget, Acquire, Return
  <2>1. TypeOK'
    BY <1>0, <1>t, <1>2, ScopeFacts DEF Forget, Acquire, TypeOK, PC
  <2>2. StoreOK'
    BY <1>0, <1>t, <1>e, <1>w, <1>s, <1>2, <2>0, <2>1, ScopeFacts
       DEF Forget, Acquire, StoreOK, SafeIsStored, Holds, WorkOK, RememberOK, ForgetOK, RecallOK
  <2>3. WorkOK(t)'
    BY <1>0, <1>t, <1>e, <1>w, <1>s, <1>2, <2>0, <2>1, ScopeFacts
       DEF Forget, Acquire, Holds, StoreOK, WorkOK, RememberOK, ForgetOK, RecallOK
  <2> QED
    BY <1>q, <2>0, <2>1, <2>2, <2>3
<1>3. ASSUME NEW t \in Threads, NEW S \in SUBSET Scope, Recall(t, S) PROVE MemoryInv'
  <2>0. Others(t)
    BY <1>t, <1>3, Alone DEF Recall, Acquire, Return
  <2>1. TypeOK'
    BY <1>0, <1>t, <1>3, ScopeFacts DEF Recall, Acquire, TypeOK, PC
  <2>2. StoreOK'
    BY <1>0, <1>t, <1>e, <1>w, <1>s, <1>3, <2>0, <2>1, ScopeFacts
       DEF Recall, Acquire, StoreOK, SafeIsStored, Holds, WorkOK, RememberOK, ForgetOK, RecallOK
  <2>3. WorkOK(t)'
    BY <1>0, <1>t, <1>e, <1>w, <1>s, <1>3, <2>0, <2>1, ScopeFacts
       DEF Recall, Acquire, Holds, StoreOK, WorkOK, RememberOK, ForgetOK, RecallOK
  <2> QED
    BY <1>q, <2>0, <2>1, <2>2, <2>3
<1>4. ASSUME NEW t \in Threads, Create(t) PROVE MemoryInv'
  <2>0. Others(t)
    BY <1>t, <1>4, Alone DEF Create, Return
  <2>1. TypeOK'
    BY <1>0, <1>t, <1>4, ScopeFacts DEF Create, TypeOK, PC
  <2>2. StoreOK'
    BY <1>0, <1>t, <1>e, <1>w, <1>s, <1>4, <2>0, <2>1, ScopeFacts
       DEF Create, StoreOK, SafeIsStored, Holds, WorkOK, RememberOK, ForgetOK, RecallOK
  <2>3. WorkOK(t)'
    <3>1. arg[t] \in Entries /\ file[ScopeOf(arg[t])] \in Lines
      BY <1>t, <1>w, <1>4, ScopeFacts DEF Create, WorkOK
    <3>2. file[ScopeOf(arg[t])][arg[t]] \in 0 .. MaxCopies /\ file[ScopeOf(arg[t])][arg[t]] < MaxCopies
      BY <1>w, <1>4, <3>1, LinesFacts DEF Create, WorkOK, RememberOK
    <3>3. 0 < MaxCopies
      BY <1>0, <3>2
    <3>4. file'[ScopeOf(arg[t])] = Empty /\ Empty[arg[t]] = 0
      BY <1>t, <1>4, <3>1, ScopeFacts DEF Create, Empty
    <3> QED
      BY <1>t, <1>w, <1>4, <3>1, <3>3, <3>4 DEF Create, WorkOK, RememberOK, ForgetOK, RecallOK
  <2> QED
    BY <1>q, <2>0, <2>1, <2>2, <2>3
<1>5. ASSUME NEW t \in Threads, AppendEntry(t) PROVE MemoryInv'
  <2>0. Others(t)
    BY <1>t, <1>5, Alone DEF AppendEntry, Return
  <2>1. TypeOK'
    <3>1. arg[t] \in Entries /\ ScopeOf(arg[t]) \in Scope /\ file[ScopeOf(arg[t])] \in Lines
          /\ file[ScopeOf(arg[t])][arg[t]] < MaxCopies
      BY <1>t, <1>w, <1>5, ScopeFacts DEF AppendEntry, WorkOK, RememberOK
    <3>2. [file[ScopeOf(arg[t])] EXCEPT ![arg[t]] = @ + 1] \in Lines
      BY <3>1, LinesFacts
    <3>3. file' \in [Scope -> Lines]
      BY <1>t, <1>5, <3>1, <3>2 DEF AppendEntry
    <3> QED
      BY <1>t, <1>5, <3>3 DEF AppendEntry, TypeOK, PC
  <2>2. StoreOK'
    <3>1. arg[t] \in Entries /\ ScopeOf(arg[t]) \in exists
      BY <1>t, <1>w, <1>5 DEF AppendEntry, WorkOK, RememberOK
    <3>2. \A s \in Scope, e \in Entries : file[s] \in Lines /\ file[s][e] \in 0 .. MaxCopies
      BY <1>t, LinesFacts
    <3>3. \A s \in Scope, e \in Entries : file'[s][e] = IF s = ScopeOf(arg[t]) /\ e = arg[t]
                                                 THEN file[s][e] + 1 ELSE file[s][e]
      BY <1>t, <1>5, <3>1, <3>2, ScopeFacts DEF AppendEntry, Lines
    <3>4. \A s \in Scope, e \in Entries :
            Holds(s, e)' <=> Holds(s, e) \/ (s = ScopeOf(arg[t]) /\ e = arg[t])
      BY <1>0, <3>2, <3>3 DEF Holds
    <3>5. \A e \in safe : Holds(ScopeOf(e), e)
      BY <1>t, <1>w, <1>s, <1>5, Alone DEF AppendEntry, StoreOK, SafeIsStored
    <3> QED
      BY <1>t, <1>s, <1>5, <3>1, <3>4, <3>5, ScopeFacts DEF AppendEntry, StoreOK, SafeIsStored
  <2>3. WorkOK(t)'
    BY <1>0, <1>t, <1>e, <1>w, <1>s, <1>5, <2>0, <2>1, ScopeFacts
       DEF AppendEntry, Lines, Holds, StoreOK, WorkOK, RememberOK, ForgetOK, RecallOK
  <2> QED
    BY <1>q, <2>0, <2>1, <2>2, <2>3
<1>6. ASSUME NEW t \in Threads, ReturnEntry(t) PROVE MemoryInv'
  <2>0. Others(t)
    BY <1>t, <1>6, Alone DEF ReturnEntry, Return
  <2>1. TypeOK'
    BY <1>0, <1>t, <1>w, <1>6 DEF ReturnEntry, Return, TypeOK, PC, WorkOK
  <2>2. StoreOK'
    BY <1>0, <1>t, <1>e, <1>w, <1>s, <1>6, <2>0, <2>1, ScopeFacts
       DEF ReturnEntry, Return, StoreOK, SafeIsStored, Holds, WorkOK, RememberOK, ForgetOK,
           RecallOK
  <2>3. WorkOK(t)'
    BY <1>0, <1>t, <1>e, <1>w, <1>s, <1>6, <2>0, <2>1, ScopeFacts
       DEF ReturnEntry, Return, Holds, StoreOK, WorkOK, RememberOK, ForgetOK, RecallOK
  <2> QED
    BY <1>q, <2>0, <2>1, <2>2, <2>3
<1>7. ASSUME NEW t \in Threads, ReadLines(t) PROVE MemoryInv'
  <2>0. Others(t)
    BY <1>t, <1>7, Alone DEF ReadLines, Return
  <2>1. TypeOK'
    <3>1. arg[t] \in Entries
      BY <1>w, <1>7 DEF ReadLines, WorkOK
    <3>2. \A s \in Scope : Without(file[s], arg[t]) \in Lines
      BY <1>t, <3>1, LinesFacts
    <3>3. First(todo[t]) \in Scope
      BY <1>t, ScopeFacts
    <3> QED
      BY <1>t, <1>7, <3>2, <3>3 DEF ReadLines, TypeOK, PC
  <2>2. StoreOK'
    BY <1>0, <1>t, <1>e, <1>w, <1>s, <1>7, <2>0, <2>1, ScopeFacts
       DEF ReadLines, Without, Lines, StoreOK, SafeIsStored, Holds, WorkOK, RememberOK, ForgetOK,
           RecallOK
  <2>3. WorkOK(t)'
    <3> DEFINE s0 == First(todo[t])
                 found == s0 \in exists /\ Holds(s0, arg[t])
    <3>1. /\ arg[t] \in Entries /\ arg[t] \notin safe /\ lock = t
          /\ \A s \in Scope \ todo[t] : ~Holds(s, arg[t])
          /\ todo[t] # {} /\ s0 \in todo[t] /\ s0 \in Scope
      BY <1>t, <1>w, <1>7, ScopeFacts DEF ReadLines, WorkOK, ForgetOK
    <3>2. UNCHANGED <<file, exists, lock, arg, scopes, entries, safe>>
      BY <1>7 DEF ReadLines
    <3>3. CASE found
      <4>1. /\ pc'[t] = "truncate" /\ todo' = todo
            /\ kept'[t] = Without(file[s0], arg[t])
        BY <1>t, <1>7, <3>3 DEF ReadLines
      <4>2. \A e \in Entries : kept'[t][e] = IF e = arg[t] THEN 0 ELSE file[s0][e]
        <5> HIDE DEF s0
        <5>1. file[s0] \in Lines
          BY <1>t, <3>1
        <5>2. \A f \in Entries : Without(file[s0], arg[t])[f] = IF f = arg[t] THEN 0 ELSE file[s0][f]
          BY <3>1, <5>1, LinesFacts
        <5> QED
          BY <4>1, <5>2
      <4>3. \A s \in Scope : s # s0 => ~Holds(s, arg[t])
        BY <1>s, <3>1, <3>3 DEF StoreOK
      <4>4. \A e \in Entries : kept'[t][e] > 0 => ScopeOf(e) = s0
        BY <1>s, <3>1, <4>2 DEF StoreOK, Holds
      <4> HIDE DEF s0
      <4>5. ForgetOK(t)'
        BY <3>1, <3>2, <3>3, <4>1, <4>2, <4>3, <4>4 DEF ForgetOK, s0, Holds
      <4> QED
        BY <3>1, <3>2, <4>1, <4>5 DEF WorkOK, RememberOK, RecallOK
    <3>4. CASE ~found
      <4>1. pc'[t] = "read" /\ todo'[t] = todo[t] \ {s0}
        BY <1>t, <1>7, <3>4 DEF ReadLines
      <4>2. ~Holds(s0, arg[t])
        BY <1>s, <3>1, <3>4 DEF StoreOK
      <4> HIDE DEF s0
      <4>3. ForgetOK(t)'
        BY <3>1, <3>2, <4>1, <4>2 DEF ForgetOK, Holds
      <4> QED
        BY <3>1, <3>2, <4>1, <4>3 DEF WorkOK, RememberOK, RecallOK
    <3> QED
      BY <3>3, <3>4
  <2> QED
    BY <1>q, <2>0, <2>1, <2>2, <2>3
<1>8. ASSUME NEW t \in Threads, Truncate(t) PROVE MemoryInv'
  <2>0. Others(t)
    BY <1>t, <1>8, Alone DEF Truncate, Return
  <2>1. TypeOK'
    BY <1>0, <1>t, <1>8, ScopeFacts DEF Truncate, TypeOK, PC
  <2>2. StoreOK'
    BY <1>0, <1>t, <1>e, <1>w, <1>s, <1>8, <2>0, <2>1, ScopeFacts
       DEF Truncate, StoreOK, SafeIsStored, Holds, WorkOK, RememberOK, ForgetOK, RecallOK
  <2>3. WorkOK(t)'
    BY <1>0, <1>t, <1>e, <1>w, <1>s, <1>8, <2>0, <2>1, ScopeFacts
       DEF Truncate, Holds, StoreOK, WorkOK, RememberOK, ForgetOK, RecallOK
  <2> QED
    BY <1>q, <2>0, <2>1, <2>2, <2>3
<1>9. ASSUME NEW t \in Threads, Rewrite(t) PROVE MemoryInv'
  <2>0. Others(t)
    BY <1>t, <1>9, Alone DEF Rewrite, Return
  <2>1. TypeOK'
    BY <1>0, <1>t, <1>9, ScopeFacts DEF Rewrite, TypeOK, PC
  <2>2. StoreOK'
    <3> DEFINE s0 == First(todo[t])
    <3>1. arg[t] \in Entries /\ s0 \in Scope /\ s0 \in exists
          /\ \A e \in Entries : kept[t][e] > 0 => ScopeOf(e) = s0
      BY <1>t, <1>w, <1>9, ScopeFacts DEF Rewrite, WorkOK, ForgetOK
    <3>2. file' = [file EXCEPT ![s0] = kept[t]] /\ UNCHANGED <<exists, safe>>
      BY <1>9 DEF Rewrite
    <3> HIDE DEF s0
    <3>3. \A s \in Scope, e \in Entries :
            Holds(s, e)' <=> IF s = s0 THEN kept[t][e] > 0 ELSE Holds(s, e)
      BY <1>t, <3>1, <3>2 DEF Holds
    <3>4. \A e \in safe : Holds(ScopeOf(e), e) \/ (s0 = ScopeOf(e) /\ kept[t][e] > 0)
      BY <1>t, <1>s, <1>9, Alone DEF Rewrite, StoreOK, SafeIsStored, s0
    <3>5. \A e \in safe : ScopeOf(e) = s0 => kept[t][e] > 0
      BY <1>t, <1>w, <1>9, <3>4 DEF Rewrite, WorkOK, ForgetOK, s0
    <3> QED
      BY <1>t, <1>s, <3>1, <3>2, <3>3, <3>4, <3>5, ScopeFacts DEF StoreOK, SafeIsStored
  <2>3. WorkOK(t)'
    BY <1>0, <1>t, <1>e, <1>w, <1>s, <1>9, <2>0, <2>1, ScopeFacts
       DEF Rewrite, Holds, StoreOK, WorkOK, RememberOK, ForgetOK, RecallOK
  <2> QED
    BY <1>q, <2>0, <2>1, <2>2, <2>3
<1>10. ASSUME NEW t \in Threads, NotFound(t) PROVE MemoryInv'
  <2>0. Others(t)
    BY <1>t, <1>10, Alone DEF NotFound, Return
  <2>1. TypeOK'
    BY <1>0, <1>t, <1>10, ScopeFacts DEF NotFound, TypeOK, PC
  <2>2. StoreOK'
    BY <1>0, <1>t, <1>e, <1>w, <1>s, <1>10, <2>0, <2>1, ScopeFacts
       DEF NotFound, StoreOK, SafeIsStored, Holds, WorkOK, RememberOK, ForgetOK, RecallOK
  <2>3. WorkOK(t)'
    BY <1>0, <1>t, <1>e, <1>w, <1>s, <1>10, <2>0, <2>1, ScopeFacts
       DEF NotFound, Holds, StoreOK, WorkOK, RememberOK, ForgetOK, RecallOK
  <2> QED
    BY <1>q, <2>0, <2>1, <2>2, <2>3
<1>11. ASSUME NEW t \in Threads, ReturnForgotten(t) PROVE MemoryInv'
  <2>0. Others(t)
    BY <1>t, <1>11, Alone DEF ReturnForgotten, Return
  <2>1. TypeOK'
    BY <1>0, <1>t, <1>11, ScopeFacts DEF ReturnForgotten, Return, TypeOK, PC
  <2>2. StoreOK'
    BY <1>0, <1>t, <1>e, <1>w, <1>s, <1>11, <2>0, <2>1, ScopeFacts
       DEF ReturnForgotten, Return, StoreOK, SafeIsStored, Holds, WorkOK, RememberOK, ForgetOK,
           RecallOK
  <2>3. WorkOK(t)'
    BY <1>0, <1>t, <1>e, <1>w, <1>s, <1>11, <2>0, <2>1, ScopeFacts
       DEF ReturnForgotten, Return, Holds, StoreOK, WorkOK, RememberOK, ForgetOK, RecallOK
  <2> QED
    BY <1>q, <2>0, <2>1, <2>2, <2>3
<1>12. ASSUME NEW t \in Threads, ReadEntries(t) PROVE MemoryInv'
  <2>0. Others(t)
    BY <1>t, <1>12, Alone DEF ReadEntries, Return
  <2>1. TypeOK'
    BY <1>0, <1>t, <1>12, ScopeFacts DEF ReadEntries, TypeOK, PC
  <2>2. StoreOK'
    BY <1>0, <1>t, <1>e, <1>w, <1>s, <1>12, <2>0, <2>1, ScopeFacts
       DEF ReadEntries, StoreOK, SafeIsStored, Holds, WorkOK, RememberOK, ForgetOK, RecallOK
  <2>3. WorkOK(t)'
    <3> DEFINE s0 == First(todo[t])
    <3>1. \A e \in safe : Holds(ScopeOf(e), e)
      BY <1>t, <1>w, <1>s, <1>12, Alone DEF ReadEntries, StoreOK, SafeIsStored
    <3>2. /\ entries'[t] = entries[t] \union {e \in Entries : Holds(s0, e)}
          /\ todo'[t] = todo[t] \ {s0}
          /\ UNCHANGED <<file, lock, pc, arg, scopes, safe>>
      BY <1>t, <1>12 DEF ReadEntries
    <3>3. RecallOK(t)'
      BY <1>t, <1>w, <3>1, <3>2 DEF WorkOK, RecallOK
    <3> QED
      BY <1>w, <1>12, <3>2, <3>3 DEF ReadEntries, WorkOK, RememberOK, ForgetOK
  <2> QED
    BY <1>q, <2>0, <2>1, <2>2, <2>3
<1>13. ASSUME NEW t \in Threads, ReturnEntries(t) PROVE MemoryInv'
  <2>0. Others(t)
    BY <1>t, <1>13, Alone DEF ReturnEntries, Return
  <2>1. TypeOK'
    BY <1>0, <1>t, <1>13, ScopeFacts DEF ReturnEntries, Return, TypeOK, PC
  <2>2. StoreOK'
    BY <1>0, <1>t, <1>e, <1>w, <1>s, <1>13, <2>0, <2>1, ScopeFacts
       DEF ReturnEntries, Return, StoreOK, SafeIsStored, Holds, WorkOK, RememberOK, ForgetOK,
           RecallOK
  <2>3. WorkOK(t)'
    BY <1>0, <1>t, <1>e, <1>w, <1>s, <1>13, <2>0, <2>1, ScopeFacts
       DEF ReturnEntries, Return, Holds, StoreOK, WorkOK, RememberOK, ForgetOK, RecallOK
  <2> QED
    BY <1>q, <2>0, <2>1, <2>2, <2>3
<1>14. ASSUME NEW t \in Threads, Raises(t) PROVE MemoryInv'
  <2>0. Others(t)
    BY <1>t, <1>14, Alone DEF Raises, Return
  <2>1. TypeOK'
    BY <1>0, <1>t, <1>14, ScopeFacts DEF Raises, Return, Cut, TypeOK, PC
  <2>2. StoreOK'
    BY <1>0, <1>t, <1>e, <1>w, <1>s, <1>14, <2>0, <2>1, ScopeFacts
       DEF Raises, Return, Cut, StoreOK, SafeIsStored, Holds, WorkOK, RememberOK, ForgetOK,
           RecallOK
  <2>3. WorkOK(t)'
    BY <1>0, <1>t, <1>e, <1>w, <1>s, <1>14, <2>0, <2>1, ScopeFacts
       DEF Raises, Return, Cut, Holds, StoreOK, WorkOK, RememberOK, ForgetOK, RecallOK
  <2> QED
    BY <1>q, <2>0, <2>1, <2>2, <2>3
<1>15. CASE Crash
  <2>1. TypeOK'
    BY <1>0, <1>t, <1>15 DEF Crash, Restart, TypeOK, PC
  <2>2. StoreOK'
    BY <1>t, <1>s, <1>15 DEF Crash, Restart, Cut, StoreOK, SafeIsStored, Holds
  <2>3. \A t \in Threads : WorkOK(t)'
    BY <1>15 DEF Crash, Restart, WorkOK, RememberOK, ForgetOK, RecallOK
  <2> QED
    BY <2>1, <2>2, <2>3 DEF MemoryInv
<1>16. CASE UNCHANGED vars
  BY <1>16 DEF vars, MemoryInv, TypeOK, StoreOK, SafeIsStored, Holds, WorkOK, RememberOK,
               ForgetOK, RecallOK
<1> QED
  <2> HIDE DEF Goto, Idle, locals
  <2>1. CASE \E t \in Threads : Call(t)
    <3>1. PICK t \in Threads : Call(t)
      BY <2>1
    <3>2. \/ \E e \in Entries : Remember(t, e) \/ Forget(t, e)
          \/ \E S \in SUBSET Scope : Recall(t, S)
      BY <3>1 DEF Call, Scope
    <3> QED
      BY <3>2, <1>1, <1>2, <1>3
  <2>2. CASE \E t \in Threads : Continue(t) \/ Raises(t)
    BY <2>2, <1>4, <1>5, <1>6, <1>7, <1>8, <1>9, <1>10, <1>11, <1>12, <1>13, <1>14 DEF Continue
  <2> QED
    BY <2>1, <2>2, <1>15, <1>16 DEF Next

(* The memory keeps its types for any number of threads, entries and copies. *)
THEOREM MemoryTypes == Spec => []TypeOK
<1>1. MemoryInv => TypeOK
  BY DEF MemoryInv
<1> QED
  BY <1>1, MemoryInit, MemoryStep, PTL DEF Spec

(* What remember returned is stored until it is forgotten, or lost with a rewrite of its
   file that was cut short: no other failure, retry or restart costs an entry. *)
THEOREM RememberedIsStored == Spec => []SafeIsStored
<1>1. MemoryInv => SafeIsStored
  BY DEF MemoryInv, StoreOK
<1> QED
  BY <1>1, MemoryInit, MemoryStep, PTL DEF Spec

(* A forget that returned has left no line of its entry in either file, although it
   stops at the first file in which it finds one. *)
THEOREM ForgottenIsGone == Spec => []ForgetLeavesNoCopy
<1>1. MemoryInv => ForgetLeavesNoCopy
  BY DEF MemoryInv, WorkOK, ForgetOK, ForgetLeavesNoCopy
<1> QED
  BY <1>1, MemoryInit, MemoryStep, PTL DEF Spec

(* A recall, which reads one file after the other, returns every safe entry it was
   asked for. *)
THEOREM RecallIsComplete == Spec => []RecallMissesNothing
<1>1. MemoryInv => RecallMissesNothing
  BY DEF MemoryInv, WorkOK, RecallOK, RecallMissesNothing
<1> QED
  BY <1>1, MemoryInit, MemoryStep, PTL DEF Spec
=============================================================================
