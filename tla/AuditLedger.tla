----------------------------- MODULE AuditLedger -----------------------------
(***************************************************************************)
(* The hash-chained ledger (src/apex/governance/audit.py).  What an entry  *)
(* says (id, time, type, actor, payload) is its content.  A signature is   *)
(* taken for what was hashed: the sequence of contents it commits to, so   *)
(* that two signatures are equal when what they sign is.                   *)
(*                                                                         *)
(* An entry is a mutable object that callers share: read() hands out the   *)
(* entries themselves, and a payload may hold a list the caller goes on    *)
(* using, as run_cycle's does.                                             *)
(***************************************************************************)
EXTENDS Integers, Sequences

VARIABLES
    entries,        \* _entries, as they are now
    appended,       \* history: the entries as they were appended
    offChain,       \* history: the entries appended to an overwritten signature
    overwrites      \* history: how often a field of an entry was overwritten

Genesis == <<>>

Signature(content, previous) == Append(previous, content)

(* The hashes a caller finds in the ledger. *)
Hashes == {Genesis} \union {entries[i].signature : i \in DOMAIN entries}

(* The chain linked to the entry before the last. *)
LastSignatureOffByOne ==
    IF Len(entries) < 2 THEN Genesis ELSE entries[Len(entries) - 1].signature

LastSignature ==
    IF entries = <<>> THEN Genesis ELSE entries[Len(entries)].signature

NewEntry(content) ==
    [content |-> content, previous |-> LastSignature,
     signature |-> Signature(content, LastSignature)]

LastOverwritten ==
    entries # <<>> /\ entries[Len(entries)].signature # appended[Len(entries)].signature

(* One block under the lock. *)
AppendEntry(content) ==
    /\ entries' = Append(entries, NewEntry(content))
    /\ appended' = Append(appended, NewEntry(content))
    /\ offChain' = IF LastOverwritten THEN offChain \union {Len(entries) + 1} ELSE offChain
    /\ UNCHANGED overwrites

-----------------------------------------------------------------------------
(* What a caller can do to an entry it holds: assign to one of its fields.  The  *)
(* hash takes no key, so that it can sign the entry anew.                        *)

Overwritten == [type |-> "overwritten", about |-> 0]

Overwritings(entry) ==
    {[entry EXCEPT !.content = Overwritten],
     [entry EXCEPT !.signature = Signature(entry.content, entry.previous)]}
    \union {[entry EXCEPT !.previous = hash] : hash \in Hashes}
    \union {[entry EXCEPT !.signature = hash] : hash \in Hashes}

Overwrite(i) ==
    /\ \E entry \in Overwritings(entries[i]) \ {entries[i]} :
         entries' = [entries EXCEPT ![i] = entry]
    /\ overwrites' = overwrites + 1
    /\ UNCHANGED <<appended, offChain>>

Altered == {i \in DOMAIN entries : entries[i] # appended[i]}
=============================================================================
