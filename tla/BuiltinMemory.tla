---------------------------- MODULE BuiltinMemory ----------------------------
(***************************************************************************)
(* The file-backed memory (src/apex/memory/builtin.py): one provider, its  *)
(* threads, and the two files it keeps in a directory that outlives it.    *)
(* Every operation holds the provider's lock from its first step to its    *)
(* return, but a system call of it may fail, which raises, and the process *)
(* may end between any two of them and start again with a new provider.    *)
(* A file is the number of lines each entry has in it: the order of lines, *)
(* the header and the spelling of an entry are left out.                   *)
(***************************************************************************)
EXTENDS Integers

CONSTANTS
    Threads,        \* threads that call the provider
    NoThread,       \* not a thread: the lock is free
    Entries,        \* the entries they remember, by id
    NoEntry,        \* not an entry: what a thread without a call works on
    RepositoryEntries,  \* those of REPOSITORY scope; the others are of USER scope
    MaxCopies       \* bound: an entry has no more lines in a file

ASSUME MemoryAssumption ==
    /\ NoThread \notin Threads
    /\ NoEntry \notin Entries
    /\ RepositoryEntries \subseteq Entries
    /\ MaxCopies \in Nat

Scope == {"repository", "user"}
Empty == [e \in Entries |-> 0]

VARIABLES
    file,           \* the lines of MEMORY.md and USER.md, as a bag of entries
    exists,         \* the files that exist
    lock,           \* _lock
    pc,             \* where each thread is in its call
    arg,            \* the entry remembered or forgotten
    scopes,         \* the scopes a recall was asked for
    todo,           \* the scopes a forget or a recall has yet to read
    kept,           \* the lines forget will write back
    entries,        \* what a recall has read so far
    \* history variable, read by properties only
    safe            \* entries whose remember returned and that no forget, and no
                    \* rewrite that was cut short, has touched since

locals == <<pc, arg, scopes, todo, kept, entries>>
vars == <<file, exists, lock, locals, safe>>

ScopeOf(e) == IF e \in RepositoryEntries THEN "repository" ELSE "user"

(* MemoryScope is iterated in the order of its declaration. *)
First(S) == IF "repository" \in S THEN "repository" ELSE "user"
Holds(s, e) == file[s][e] > 0

Idle(t) == pc[t] = "idle"
Goto(t, label) == pc' = [pc EXCEPT ![t] = label]

(* A lock that keeps nobody out. *)
AcquireAnyway(t) == lock' = t

Acquire(t) == lock = NoThread /\ lock' = t

(* The call is over, and with it its locked block. *)
Return(t) ==
    /\ lock' = NoThread
    /\ Goto(t, "idle")
    /\ arg' = [arg EXCEPT ![t] = NoEntry]
    /\ scopes' = [scopes EXCEPT ![t] = {}]
    /\ todo' = [todo EXCEPT ![t] = {}]
    /\ kept' = [kept EXCEPT ![t] = Empty]
    /\ entries' = [entries EXCEPT ![t] = {}]

Restart ==
    /\ lock' = NoThread
    /\ pc' = [t \in Threads |-> "idle"]
    /\ arg' = [t \in Threads |-> NoEntry]
    /\ scopes' = [t \in Threads |-> {}]
    /\ todo' = [t \in Threads |-> {}]
    /\ kept' = [t \in Threads |-> Empty]
    /\ entries' = [t \in Threads |-> {}]

Init ==
    /\ file = [s \in Scope |-> Empty]
    /\ exists = {}
    /\ lock = NoThread
    /\ pc = [t \in Threads |-> "idle"]
    /\ arg = [t \in Threads |-> NoEntry]
    /\ scopes = [t \in Threads |-> {}]
    /\ todo = [t \in Threads |-> {}]
    /\ kept = [t \in Threads |-> Empty]
    /\ entries = [t \in Threads |-> {}]
    /\ safe = {}

-----------------------------------------------------------------------------
(* remember *)

Remember(t, e) ==
    /\ Idle(t)
    /\ Acquire(t)
    /\ file[ScopeOf(e)][e] < MaxCopies
    /\ arg' = [arg EXCEPT ![t] = e]
    /\ Goto(t, IF ScopeOf(e) \in exists THEN "append" ELSE "create")
    /\ UNCHANGED <<file, exists, scopes, todo, kept, entries, safe>>

(* write_text(header) makes the file anew. *)
Create(t) ==
    /\ pc[t] = "create"
    /\ file' = [file EXCEPT ![ScopeOf(arg[t])] = Empty]
    /\ exists' = exists \union {ScopeOf(arg[t])}
    /\ Goto(t, "append")
    /\ UNCHANGED <<lock, arg, scopes, todo, kept, entries, safe>>

AppendEntry(t) ==
    /\ pc[t] = "append"
    /\ file' = [file EXCEPT ![ScopeOf(arg[t])][arg[t]] = @ + 1]
    /\ Goto(t, "remembered")
    /\ UNCHANGED <<exists, lock, arg, scopes, todo, kept, entries, safe>>

ReturnEntry(t) ==
    /\ pc[t] = "remembered"
    /\ safe' = safe \union {arg[t]}
    /\ Return(t)
    /\ UNCHANGED <<file, exists>>

-----------------------------------------------------------------------------
(* forget *)

Forget(t, e) ==
    /\ Idle(t)
    /\ Acquire(t)
    /\ arg' = [arg EXCEPT ![t] = e]
    /\ todo' = [todo EXCEPT ![t] = Scope]
    /\ safe' = safe \ {e}
    /\ Goto(t, "read")
    /\ UNCHANGED <<file, exists, scopes, kept, entries>>

(* One line of the id is dropped, not each. *)
WithoutFirst(lines, e) == [lines EXCEPT ![e] = @ - 1]

(* Every line of the id goes. *)
Without(lines, e) == [lines EXCEPT ![e] = 0]

(* A file without a line of this id, or no file at all, is passed over. *)
ReadLines(t) ==
    /\ pc[t] = "read"
    /\ todo[t] # {}
    /\ LET s == First(todo[t])
       IN IF s \in exists /\ Holds(s, arg[t])
          THEN /\ kept' = [kept EXCEPT ![t] = Without(file[s], arg[t])]
               /\ Goto(t, "truncate")
               /\ UNCHANGED todo
          ELSE /\ todo' = [todo EXCEPT ![t] = @ \ {s}]
               /\ UNCHANGED <<pc, kept>>
    /\ UNCHANGED <<file, exists, lock, arg, scopes, entries, safe>>

(* write_text(kept): opening truncates, ... *)
Truncate(t) ==
    /\ pc[t] = "truncate"
    /\ file' = [file EXCEPT ![First(todo[t])] = Empty]
    /\ Goto(t, "rewrite")
    /\ UNCHANGED <<exists, lock, arg, scopes, todo, kept, entries, safe>>

(* ... closing writes. *)
Rewrite(t) ==
    /\ pc[t] = "rewrite"
    /\ file' = [file EXCEPT ![First(todo[t])] = kept[t]]
    /\ Goto(t, "forgotten")
    /\ UNCHANGED <<exists, lock, arg, scopes, todo, kept, entries, safe>>

NotFound(t) ==
    /\ pc[t] = "read"
    /\ todo[t] = {}
    /\ Goto(t, "forgotten")
    /\ UNCHANGED <<file, exists, lock, arg, scopes, todo, kept, entries, safe>>

ReturnForgotten(t) ==
    /\ pc[t] = "forgotten"
    /\ Return(t)
    /\ UNCHANGED <<file, exists, safe>>

-----------------------------------------------------------------------------
(* recall, and search: a recall whose list is filtered once the lock is released *)

Recall(t, S) ==
    /\ Idle(t)
    /\ Acquire(t)
    /\ scopes' = [scopes EXCEPT ![t] = S]
    /\ todo' = [todo EXCEPT ![t] = S]
    /\ Goto(t, "recall")
    /\ UNCHANGED <<file, exists, arg, kept, entries, safe>>

(* A missing file has no entries. *)
ReadEntries(t) ==
    /\ pc[t] = "recall"
    /\ todo[t] # {}
    /\ LET s == First(todo[t])
       IN /\ entries' = [entries EXCEPT ![t] = @ \union {e \in Entries : Holds(s, e)}]
          /\ todo' = [todo EXCEPT ![t] = @ \ {s}]
    /\ UNCHANGED <<file, exists, lock, pc, arg, scopes, kept, safe>>

ReturnEntries(t) ==
    /\ pc[t] = "recall"
    /\ todo[t] = {}
    /\ Return(t)
    /\ UNCHANGED <<file, exists, safe>>

-----------------------------------------------------------------------------
(* What can go wrong between two steps *)

(* The entries of the file whose rewrite thread t will not complete. *)
Cut(t) == IF pc[t] = "rewrite" THEN {e \in Entries : ScopeOf(e) = First(todo[t])} ELSE {}

(* A system call of the thread fails (no space, no permission): the call raises. *)
Raises(t) ==
    /\ pc[t] \in {"create", "append", "read", "truncate", "rewrite", "recall"}
    /\ safe' = safe \ Cut(t)
    /\ Return(t)
    /\ UNCHANGED <<file, exists>>

(* The process ends; the next one begins with the files as they are. *)
Crash ==
    /\ safe' = safe \ UNION {Cut(t) : t \in Threads}
    /\ Restart
    /\ UNCHANGED <<file, exists>>

Call(t) ==
    \/ \E e \in Entries : Remember(t, e) \/ Forget(t, e)
    \/ \E S \in {{"repository"}, {"user"}, Scope} : Recall(t, S)

Continue(t) ==
    \/ Create(t) \/ AppendEntry(t) \/ ReturnEntry(t)
    \/ ReadLines(t) \/ Truncate(t) \/ Rewrite(t) \/ NotFound(t) \/ ReturnForgotten(t)
    \/ ReadEntries(t) \/ ReturnEntries(t)

Next ==
    \/ \E t \in Threads : Call(t) \/ Continue(t) \/ Raises(t)
    \/ Crash

Spec == Init /\ [][Next]_vars
-----------------------------------------------------------------------------
(* Properties *)

Lines == [Entries -> 0 .. MaxCopies]

PC == {"idle", "create", "append", "remembered", "read", "truncate", "rewrite",
       "forgotten", "recall"}

(* Every variable holds a value the code can store there; in particular two calls of
   remember never store more lines than the bound one of them has looked at. *)
TypeOK ==
    /\ file \in [Scope -> Lines]
    /\ exists \subseteq Scope
    /\ lock \in Threads \union {NoThread}
    /\ pc \in [Threads -> PC]
    /\ arg \in [Threads -> Entries \union {NoEntry}]
    /\ scopes \in [Threads -> SUBSET Scope]
    /\ todo \in [Threads -> SUBSET Scope]
    /\ kept \in [Threads -> Lines]
    /\ entries \in [Threads -> SUBSET Entries]
    /\ safe \subseteq Entries

(* An entry whose remember returned is in its file, or in the hands of a forget about to
   write it back, for good: only a forget of that entry, or a forget of another one in
   the same scope that was cut short between its two system calls, takes it away.  An
   interrupted remember, a failed append, a restart and a retry cost nothing
   (lines 55-60, 94-95). *)
SafeIsStored ==
    \A e \in safe :
        \/ Holds(ScopeOf(e), e)
        \/ \E t \in Threads : /\ pc[t] = "rewrite" /\ First(todo[t]) = ScopeOf(e)
                              /\ kept[t][e] > 0

(* When forget has its answer, True or False, no copy of the entry is left in either
   file: not one that a retried remember added, nor one in the second file when the
   first does not exist (lines 81-97). *)
ForgetLeavesNoCopy ==
    \A t \in Threads : pc[t] = "forgotten" => \A s \in Scope : ~Holds(s, arg[t])

(* A recall of both scopes reads two files one after the other; still it misses nothing
   a client may rely on, whatever other threads remember or rewrite meanwhile (lines 64-69). *)
RecallMissesNothing ==
    \A t \in Threads :
        pc[t] = "recall" /\ todo[t] = {} =>
            \A e \in safe : ScopeOf(e) \in scopes[t] => e \in entries[t]
=============================================================================
