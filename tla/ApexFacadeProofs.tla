--------------------------- MODULE ApexFacadeProofs ---------------------------
(***************************************************************************)
(* Proofs about the façade and its ledger for any threads, bounds and      *)
(* readings.  The first part is about the chain alone: what is in an       *)
(* entry, compared with what was appended.  The second follows a call from *)
(* its effect to its record.                                               *)
(***************************************************************************)
EXTENDS ApexFacade, SequenceTheorems, FiniteSetTheorems, TLAPS

Signed == Content \union {Overwritten}
Signatures == Seq(Signed)
Entry == [content : Signed, previous : Signatures, signature : Signatures]

LedgerTypes ==
    /\ entries \in Seq(Entry) /\ appended \in Seq(Entry)
    /\ Len(entries) = Len(appended)
    /\ \A i \in 1 .. Len(appended) : appended[i].content \in Content
    /\ offChain \subseteq 1 .. Len(appended)
    /\ overwrites \in 0 .. MaxOverwrites

(* What was appended is signed, and follows what was appended before it unless the
   signature there had been overwritten.  Of what callers write, only its type is known. *)
AppendedOK(i) ==
    /\ appended[i].signature = Append(appended[i].previous, appended[i].content)
    /\ i \notin offChain =>
         appended[i].previous = IF i = 1 THEN Genesis ELSE appended[i - 1].signature

LedgerOK == LedgerTypes /\ \A i \in 1 .. Len(appended) : AppendedOK(i)

LEMMA SignedFacts ==
    /\ Overwritten \in Signed /\ Overwritten \notin Content /\ Content \subseteq Signed
    /\ Genesis \in Signatures
    /\ NoJob \notin Content
<1>1. /\ Overwritten \in Signed /\ Content \subseteq Signed
      /\ Overwritten.type = "overwritten" /\ NoJob.type = "none"
      /\ \A c \in Content : c.type \in EventType
  BY DEF Signed, Overwritten, NoJob, Content
<1>2. "overwritten" \notin EventType /\ "none" \notin EventType
  BY DEF EventType
<1> QED
  BY <1>1, <1>2 DEF Signatures, Genesis

LEMMA EntryFacts ==
    ASSUME LedgerTypes, NEW i \in 1 .. Len(appended)
    PROVE  /\ entries[i] \in Entry /\ appended[i] \in Entry
           /\ entries[i].content \in Signed /\ appended[i].content \in Content
           /\ entries[i].previous \in Signatures /\ appended[i].previous \in Signatures
           /\ entries[i].signature \in Signatures /\ appended[i].signature \in Signatures
<1>1. entries[i] \in Entry /\ appended[i] \in Entry
  BY ElementOfSeq DEF LedgerTypes
<1> QED
  BY <1>1 DEF LedgerTypes, Entry

(* The fields of two entries tell them apart. *)
LEMMA SameEntry ==
    ASSUME NEW e \in Entry, NEW f \in Entry,
           e.content = f.content, e.previous = f.previous, e.signature = f.signature
    PROVE  e = f
BY DEF Entry

(* A signature tells what it signs and what it follows. *)
LEMMA SignatureTells ==
    ASSUME NEW s \in Seq(Signed), NEW c \in Signed, NEW t \in Seq(Signed), NEW d \in Signed
    PROVE  /\ Append(s, c) \in Seq(Signed) /\ Append(s, c) # Genesis
           /\ Append(s, c) = Append(t, d) => s = t /\ c = d
<1>1. Append(s, c) = Append(t, d) <=> s = t /\ c = d
  BY AppendInjective
<1> QED
  BY <1>1, AppendProperties DEF Genesis

LEMMA AlteredFacts ==
    ASSUME LedgerTypes
    PROVE  /\ Altered \subseteq 1 .. Len(appended)
           /\ \A i \in 1 .. Len(appended) : i \in Altered <=> entries[i] # appended[i]
BY DEF LedgerTypes, Altered

(* An entry that is signed as it was appended says what it said then. *)
LEMMA SignedAsAppended ==
    ASSUME LedgerOK, NEW i \in 1 .. Len(appended), NEW p \in Signatures,
           entries[i].previous = p,
           entries[i].signature = Append(p, entries[i].content),
           entries[i].signature = appended[i].signature
    PROVE  i \notin Altered /\ p = appended[i].previous
<1> DEFINE x == entries[i].content
           q == appended[i].previous
           y == appended[i].content
<1>1. Append(p, x) = Append(q, y)
  BY DEF LedgerOK, AppendedOK
<1>2. p \in Seq(Signed) /\ x \in Signed /\ q \in Seq(Signed) /\ y \in Signed
  BY EntryFacts, SignedFacts DEF LedgerOK, Signatures
<1>3. p = q /\ x = y
  <2> HIDE DEF x, q, y
  <2> QED
    BY <1>1, <1>2, SignatureTells
<1>4. entries[i] = appended[i]
  BY <1>3, SameEntry, EntryFacts DEF LedgerOK
<1> QED
  BY <1>3, <1>4, AlteredFacts DEF LedgerOK

LEMMA AppendStep ==
    ASSUME LedgerOK, NEW c \in Content, AppendEntry(c)
    PROVE  /\ LedgerOK'
           /\ Len(appended') = Len(appended) + 1 /\ Len(entries') = Len(entries) + 1
           /\ \A i \in 1 .. Len(appended) :
                /\ appended'[i] = appended[i] /\ entries'[i] = entries[i]
                /\ i \in offChain' <=> i \in offChain
           /\ appended'[Len(appended) + 1].content = c
<1> DEFINE e == NewEntry(c)
<1>1. PICK n \in Nat : n = Len(appended) /\ n = Len(entries)
  BY DEF LedgerOK, LedgerTypes
<1>2. LastSignature \in Signatures
  <2>1. CASE entries = <<>>
    BY <2>1, SignedFacts DEF LastSignature
  <2>2. CASE entries # <<>>
    <3>1. n \in 1 .. n
      BY <1>1, <2>2, EmptySeq DEF LedgerOK, LedgerTypes
    <3> QED
      BY <1>1, <2>2, <3>1, EntryFacts DEF LedgerOK, LastSignature
  <2> QED
    BY <2>1, <2>2
<1>3. /\ e \in Entry /\ e.content = c /\ e.previous = LastSignature
      /\ e.signature = Append(e.previous, c)
  <2>1. c \in Signed /\ Append(LastSignature, c) \in Signatures
    BY <1>2, SignedFacts, AppendProperties DEF Signatures
  <2> QED
    BY <1>2, <2>1 DEF NewEntry, Signature, Entry
<1>4. /\ entries' = Append(entries, e) /\ appended' = Append(appended, e)
      /\ overwrites' = overwrites
      /\ offChain' = IF LastOverwritten THEN offChain \union {n + 1} ELSE offChain
  BY <1>1 DEF AppendEntry
<1> HIDE DEF e
<1>5. /\ entries' \in Seq(Entry) /\ Len(entries') = n + 1
      /\ \A i \in 1 .. n : entries'[i] = entries[i]
      /\ entries'[n + 1] = e
  BY <1>1, <1>3, <1>4, AppendProperties DEF LedgerOK, LedgerTypes
<1>6. /\ appended' \in Seq(Entry) /\ Len(appended') = n + 1
      /\ \A i \in 1 .. n : appended'[i] = appended[i]
      /\ appended'[n + 1] = e
  BY <1>1, <1>3, <1>4, AppendProperties DEF LedgerOK, LedgerTypes
<1>7. \A i \in 1 .. n + 1 : i \in 1 .. n \/ i = n + 1
  BY <1>1
<1>8. /\ offChain' \subseteq 1 .. n + 1
      /\ \A i \in 1 .. n : i \in offChain' <=> i \in offChain
      /\ n + 1 \in offChain' <=> LastOverwritten
  <2>1. offChain \subseteq 1 .. n /\ n + 1 \notin 1 .. n /\ n + 1 \in 1 .. n + 1
    BY <1>1 DEF LedgerOK, LedgerTypes
  <2>2. \A i \in 1 .. n : i \in 1 .. n + 1 /\ i # n + 1
    BY <1>1
  <2>3. CASE LastOverwritten
    <3>1. offChain' = offChain \union {n + 1}
      BY <1>4, <2>3
    <3> QED
      BY <2>1, <2>2, <2>3, <3>1
  <2>4. CASE ~LastOverwritten
    <3>1. offChain' = offChain
      BY <1>4, <2>4
    <3> QED
      BY <2>1, <2>2, <2>4, <3>1
  <2> QED
    BY <2>3, <2>4
<1>9. LedgerTypes'
  BY <1>1, <1>3, <1>4, <1>5, <1>6, <1>7, <1>8 DEF LedgerOK, LedgerTypes
<1>10. \A i \in 1 .. n : AppendedOK(i)'
  <2> TAKE i \in 1 .. n
  <2>1. AppendedOK(i) /\ (i # 1 => i - 1 \in 1 .. n)
    BY <1>1 DEF LedgerOK
  <2> QED
    BY <2>1, <1>6, <1>8 DEF AppendedOK
<1>11. AppendedOK(n + 1)'
  <2>1. ASSUME ~LastOverwritten
        PROVE  e.previous = IF n + 1 = 1 THEN Genesis ELSE appended[n].signature
    <3>1. CASE n = 0
      BY <1>1, <1>3, <3>1, EmptySeq DEF LedgerOK, LedgerTypes, LastSignature
    <3>2. CASE n # 0
      <4>1. entries # <<>> /\ n + 1 # 1
        BY <1>1, <3>2, EmptySeq DEF LedgerOK, LedgerTypes
      <4> QED
        BY <1>1, <1>3, <2>1, <4>1 DEF LastSignature, LastOverwritten
    <3> QED
      BY <3>1, <3>2
  <2>2. (n + 1) - 1 = n /\ (n # 0 => n \in 1 .. n)
    BY <1>1
  <2> QED
    BY <1>1, <1>3, <1>6, <1>8, <2>1, <2>2 DEF AppendedOK
<1>12. LedgerOK'
  BY <1>6, <1>7, <1>9, <1>10, <1>11 DEF LedgerOK
<1> QED
  BY <1>1, <1>3, <1>5, <1>6, <1>8, <1>12

(* The proofs know no more of an overwriting than this. *)
LEMMA OverwriteStep ==
    ASSUME LedgerOK, NEW k \in DOMAIN entries, Overwrite(k), overwrites < MaxOverwrites
    PROVE  /\ LedgerOK'
           /\ Len(entries') = Len(entries)
           /\ appended' = appended /\ offChain' = offChain
           /\ \A i \in 1 .. Len(appended) : i # k => entries'[i] = entries[i]
<1>1. PICK n \in Nat : n = Len(appended) /\ Len(entries) = n /\ k \in 1 .. n
  BY DEF LedgerOK, LedgerTypes
<1>2. PICK e \in Overwritings(entries[k]) : entries' = [entries EXCEPT ![k] = e]
  BY DEF Overwrite
<1>3. appended' = appended /\ offChain' = offChain /\ overwrites' = overwrites + 1
  BY DEF Overwrite
<1>4. /\ entries[k] \in Entry /\ entries[k].content \in Signed
      /\ entries[k].previous \in Seq(Signed)
  BY <1>1, EntryFacts DEF LedgerOK, Signatures
<1>5. \A hash \in Hashes : hash \in Signatures
  <2>1. \A i \in DOMAIN entries : entries[i].signature \in Signatures
    BY <1>1, EntryFacts DEF LedgerOK, LedgerTypes
  <2> QED
    BY <2>1, SignedFacts DEF Hashes
<1>6. e \in Entry
  <2>1. CASE e = [entries[k] EXCEPT !.content = Overwritten]
    BY <2>1, <1>4, SignedFacts DEF Entry
  <2>2. CASE e = [entries[k] EXCEPT !.signature =
                    Signature(entries[k].content, entries[k].previous)]
    <3>1. Append(entries[k].previous, entries[k].content) \in Signatures
      BY <1>4, AppendProperties DEF Signatures
    <3> QED
      BY <2>2, <3>1, <1>4 DEF Entry, Signature
  <2>3. ASSUME NEW hash \in Hashes, e = [entries[k] EXCEPT !.previous = hash] PROVE e \in Entry
    BY <2>3, <1>4, <1>5 DEF Entry
  <2>4. ASSUME NEW hash \in Hashes, e = [entries[k] EXCEPT !.signature = hash] PROVE e \in Entry
    BY <2>4, <1>4, <1>5 DEF Entry
  <2> QED
    BY <1>2, <2>1, <2>2, <2>3, <2>4 DEF Overwritings
<1>7. /\ entries' \in Seq(Entry) /\ Len(entries') = n
      /\ \A i \in 1 .. n : i # k => entries'[i] = entries[i]
  BY <1>1, <1>2, <1>6 DEF LedgerOK, LedgerTypes
<1>8. LedgerTypes'
  BY <1>1, <1>3, <1>7, FacadeAssumption DEF LedgerOK, LedgerTypes
<1>9. \A i \in 1 .. n : AppendedOK(i)'
  BY <1>1, <1>3 DEF LedgerOK, AppendedOK
<1> QED
  BY <1>1, <1>3, <1>7, <1>8, <1>9 DEF LedgerOK

-----------------------------------------------------------------------------
(* The parts of the system and the calls under way. *)

WalkLabels == Verifying \union {"valid", "broken"}
Labels == {"idle", "observe", "evaluate", "cycle", "audit"} \union WalkLabels
RecordLabels == {"observe", "evaluate", "cycle", "audit"}
Jobs == Content \union {NoJob}

PartTypes ==
    /\ memory \subseteq used /\ used \subseteq Memories
    /\ filed \subseteq AlertIds
    /\ window \in Seq(Readings) /\ Len(window) <= WindowSize
    /\ cycleCount \in 0 .. MaxCycles
    /\ doubt \subseteq Memories \union AlertIds
    /\ raises \in 0 .. MaxRaises
    /\ failed \in BOOLEAN /\ alerted \in BOOLEAN

IsMetric(j) == \E v \in Readings : j = Job("metric_published", v)

CallTypes ==
    /\ pc \in [Threads -> Labels]
    /\ job \in [Threads -> Jobs]
    /\ \A t \in Threads : pc[t] = "audit" => job[t] \in Content
    /\ \A t \in Threads : pc[t] \in {"observe", "evaluate"} => IsMetric(job[t])

(* Every record under way has its place in the bounded ledger. *)
RoomOK == IsFiniteSet(Recording) /\ Len(entries) + Cardinality(Recording) <= MaxEntries

LEMMA JobTypes ==
    /\ \A m \in Memories : /\ Job("memory_stored", m) \in Content
                           /\ Job("memory_forgotten", m) \in Content
    /\ \A a \in AlertIds : /\ Job("alert_raised", a) \in Content
                           /\ Job("critical_alert_raised", a) \in Content
    /\ \A v \in Readings : Job("metric_published", v) \in Content
    /\ \A c \in 0 .. MaxCycles : Job("mape_cycle_complete", c) \in Content
BY DEF Job, Content, EventType, Subject

LEMMA WindowStep ==
    ASSUME NEW w \in Seq(Readings), Len(w) <= WindowSize, NEW v \in Readings
    PROVE  Slide(w, v) \in Seq(Readings) /\ Len(Slide(w, v)) <= WindowSize
<1>1. Len(w) \in Nat /\ WindowSize \in Nat \ {0}
  BY FacadeAssumption
<1>2. CASE Len(w) < WindowSize
  BY <1>1, <1>2, AppendProperties DEF Slide
<1>3. CASE Len(w) >= WindowSize
  <2>1. w # <<>>
    BY <1>1, <1>3
  <2>2. Tail(w) \in Seq(Readings) /\ Len(Tail(w)) = Len(w) - 1
    BY <2>1, HeadTailProperties
  <2> DEFINE tail == Tail(w)
  <2>3. /\ Append(tail, v) \in Seq(Readings)
        /\ Len(Append(tail, v)) = Len(tail) + 1
    BY <2>2, AppendProperties
  <2> QED
    BY <1>1, <1>3, <2>2, <2>3 DEF Slide
<1> QED
  BY <1>1, <1>2, <1>3

(* One of the reads of verify_chain's loop. *)
Looks(t) == VerifyContent(t) \/ VerifySignature(t) \/ VerifyPrevious(t) \/ VerifyNext(t)

LEMMA PartTypesStep ==
    ASSUME PartTypes, CallTypes, [Next]_vars
    PROVE  PartTypes'
<1>1. ASSUME NEW t \in Threads, NEW m \in Memories, Remember(t, m) PROVE PartTypes'
  <2>1. /\ memory' \subseteq used' /\ used' \subseteq Memories
        /\ doubt' \subseteq Memories \union AlertIds
        /\ UNCHANGED <<filed, window, cycleCount, failed, alerted>>
    BY <1>1 DEF Remember, PartTypes
  <2>2. raises' \in 0 .. MaxRaises
    BY <1>1, FacadeAssumption DEF Remember, Raise, PartTypes
  <2> QED
    BY <2>1, <2>2 DEF PartTypes
<1>2. ASSUME NEW t \in Threads, NEW m \in Memories, ForgetMemory(t, m) PROVE PartTypes'
  <2>1. /\ memory' \subseteq memory /\ used' = used
        /\ doubt' \subseteq Memories \union AlertIds
        /\ UNCHANGED <<filed, window, cycleCount, failed, alerted>>
    BY <1>2 DEF ForgetMemory, PartTypes
  <2>2. raises' \in 0 .. MaxRaises
    BY <1>2, FacadeAssumption DEF ForgetMemory, Raise, PartTypes
  <2> QED
    BY <2>1, <2>2 DEF PartTypes
<1>3. ASSUME NEW t \in Threads, NEW a \in AlertIds, HandleL3(t, a) PROVE PartTypes'
  BY <1>3 DEF HandleL3, PartTypes, history
<1>4. ASSUME NEW t \in Threads, NEW a \in AlertIds, HandleL4(t, a) PROVE PartTypes'
  <2>1. /\ filed' \subseteq AlertIds /\ doubt' \subseteq Memories \union AlertIds
        /\ UNCHANGED <<memory, used, window, cycleCount, failed, alerted>>
    BY <1>4 DEF HandleL4, PartTypes
  <2>2. raises' \in 0 .. MaxRaises
    BY <1>4, FacadeAssumption DEF HandleL4, Raise, PartTypes
  <2> QED
    BY <2>1, <2>2 DEF PartTypes
<1>5. ASSUME NEW t \in Threads, RunCycle(t) PROVE PartTypes'
  <2>1. cycleCount' \in 0 .. MaxCycles
    BY <1>5, FacadeAssumption DEF RunCycle, PartTypes
  <2> QED
    BY <1>5, <2>1 DEF RunCycle, PartTypes, history
<1>6. ASSUME NEW t \in Threads, Observe(t) PROVE PartTypes'
  <2>1. PICK v \in Readings : job[t] = Job("metric_published", v)
    BY <1>6 DEF Observe, CallTypes, IsMetric
  <2>2. window' = Slide(window, v)
    BY <1>6, <2>1 DEF Observe, Job
  <2>3. window' \in Seq(Readings) /\ Len(window') <= WindowSize
    BY <2>2, WindowStep DEF PartTypes
  <2> QED
    BY <1>6, <2>3 DEF Observe, PartTypes, history
<1>7. ASSUME NEW t \in Threads, EvaluateWindow(t) PROVE PartTypes'
  <2>1. Anomaly \in BOOLEAN
    BY DEF Anomaly, Breach
  <2>2. alerted' \in BOOLEAN
    BY <1>7, <2>1 DEF EvaluateWindow
  <2>3. raises' \in 0 .. MaxRaises
    BY <1>7, FacadeAssumption DEF EvaluateWindow, Raise, PartTypes
  <2> QED
    BY <1>7, <2>2, <2>3 DEF EvaluateWindow, PartTypes, parts
<1>8. ASSUME NEW t \in Threads, CycleRaises(t) PROVE PartTypes'
  <2>1. raises' \in 0 .. MaxRaises
    BY <1>8, FacadeAssumption DEF CycleRaises, Raise, PartTypes
  <2> QED
    BY <1>8, <2>1 DEF CycleRaises, PartTypes, parts
<1>9. ASSUME UNCHANGED <<parts, history>> PROVE PartTypes'
  BY <1>9 DEF PartTypes, parts, history
<1>10. ASSUME NEW t \in Threads, Call(t) PROVE PartTypes'
  <2>1. ASSUME NEW v \in Readings, PublishMetric(t, v) PROVE PartTypes'
    BY <2>1, <1>9 DEF PublishMetric
  <2>2. ASSUME VerifyChain(t) PROVE PartTypes'
    BY <2>2, <1>9 DEF VerifyChain
  <2> QED
    BY <1>1, <1>2, <1>3, <1>4, <1>5, <1>10, <2>1, <2>2 DEF Call
<1>11. ASSUME NEW t \in Threads, Continue(t) PROVE PartTypes'
  <2>1. ASSUME CycleReturns(t) \/ Audit(t) \/ Looks(t) \/ ChainValid(t) \/ ReturnVerdict(t)
        PROVE  UNCHANGED <<parts, history>>
    BY <2>1 DEF CycleReturns, Audit, Looks, VerifyContent, VerifySignature, VerifyPrevious,
                VerifyNext, ChainValid, ReturnVerdict
  <2> QED
    BY <1>6, <1>7, <1>8, <1>9, <1>11, <2>1 DEF Continue, Looks
<1>12. ASSUME HostOverwrites \/ UNCHANGED vars PROVE PartTypes'
  BY <1>9, <1>12 DEF HostOverwrites, vars
<1> QED
  BY <1>10, <1>11, <1>12 DEF Next

(* A step of a thread takes it to a label with the record it has to append; where it
   begins a call that will append one, there is room for it. *)
Moves(t, l, j) ==
    /\ Goto(t, l)
    /\ job' = [job EXCEPT ![t] = j]
    /\ l = "audit" => j \in Content
    /\ l \in {"observe", "evaluate"} => IsMetric(j)
    /\ l \in RecordLabels /\ pc[t] \notin RecordLabels => Room

LEMMA MoveTo ==
    ASSUME PartTypes, CallTypes, NEW t \in Threads, Call(t) \/ Continue(t)
    PROVE  \E l \in Labels, j \in Jobs : Moves(t, l, j)
<1> USE DEF Labels, WalkLabels, Verifying, RecordLabels, Jobs
<1> DEFINE OK == \E l \in Labels, j \in Jobs : Moves(t, l, j)
<1>1. ASSUME NEW type, NEW about, WillAudit(t, type, about), Job(type, about) \in Content,
             Room \/ pc[t] \in RecordLabels
      PROVE  OK
  <2>1. Moves(t, "audit", Job(type, about))
    BY <1>1 DEF WillAudit, Moves
  <2> QED
    BY <1>1, <2>1
<1>2. ASSUME Raise(t) PROVE OK
  <2>1. Moves(t, "idle", NoJob)
    BY <1>2 DEF Raise, Moves
  <2> QED
    BY <2>1
<1>3. ASSUME NEW l \in Labels, Goto(t, l), job' = job,
             l = "audit" => job[t] \in Content,
             l \in {"observe", "evaluate"} => IsMetric(job[t]),
             l \in RecordLabels /\ pc[t] \notin RecordLabels => Room
      PROVE  OK
  <2>1. job' = [job EXCEPT ![t] = job[t]] /\ job[t] \in Jobs
    BY <1>3 DEF CallTypes
  <2>2. Moves(t, l, job[t])
    BY <1>3, <2>1 DEF Moves
  <2> QED
    BY <2>1, <2>2
<1>4. ASSUME Call(t) PROVE OK
  <2>1. ASSUME NEW m \in Memories, Remember(t, m) PROVE OK
    BY <2>1, <1>1, <1>2, JobTypes DEF Remember
  <2>2. ASSUME NEW m \in Memories, ForgetMemory(t, m) PROVE OK
    BY <2>2, <1>1, <1>2, JobTypes DEF ForgetMemory, ForgottenEvent
  <2>3. ASSUME NEW v \in Readings, PublishMetric(t, v) PROVE OK
    <3>1. Moves(t, "observe", Job("metric_published", v))
      BY <2>3 DEF PublishMetric, Moves, IsMetric
    <3> QED
      BY <3>1, JobTypes
  <2>4. ASSUME NEW a \in AlertIds, HandleL3(t, a) PROVE OK
    BY <2>4, <1>1, JobTypes DEF HandleL3
  <2>5. ASSUME NEW a \in AlertIds, HandleL4(t, a) PROVE OK
    BY <2>5, <1>1, <1>2, JobTypes DEF HandleL4
  <2>6. ASSUME RunCycle(t) PROVE OK
    BY <2>6, <1>3 DEF RunCycle
  <2>7. ASSUME VerifyChain(t) PROVE OK
    BY <2>7, <1>3 DEF VerifyChain
  <2> QED
    BY <1>4, <2>1, <2>2, <2>3, <2>4, <2>5, <2>6, <2>7 DEF Call
<1>5. ASSUME Continue(t) PROVE OK
  <2>1. ASSUME Observe(t) PROVE OK
    BY <2>1, <1>3 DEF Observe, CallTypes
  <2>2. ASSUME EvaluateWindow(t) PROVE OK
    <3>1. job[t] \in Content
      BY <2>2, JobTypes DEF EvaluateWindow, CallTypes, IsMetric
    <3> QED
      BY <2>2, <3>1, <1>2, <1>3 DEF EvaluateWindow
  <2>3. ASSUME CycleReturns(t) PROVE OK
    BY <2>3, <1>1, JobTypes DEF CycleReturns, CycleNumber, PartTypes
  <2>4. ASSUME CycleRaises(t) PROVE OK
    BY <2>4, <1>2 DEF CycleRaises
  <2>5. ASSUME Audit(t) PROVE OK
    <3>1. Moves(t, "idle", NoJob)
      BY <2>5 DEF Audit, Moves
    <3> QED
      BY <3>1
  <2>6. ASSUME Looks(t) PROVE OK
    <3>1. ASSUME VerifyContent(t) PROVE OK
      BY <3>1, <1>3 DEF VerifyContent
    <3>2. ASSUME VerifySignature(t) PROVE OK
      BY <3>2, <1>3 DEF VerifySignature
    <3>3. ASSUME VerifyPrevious(t) PROVE OK
      BY <3>3, <1>3 DEF VerifyPrevious
    <3>4. ASSUME VerifyNext(t) PROVE OK
      BY <3>4, <1>3 DEF VerifyNext
    <3> QED
      BY <2>6, <3>1, <3>2, <3>3, <3>4 DEF Looks
  <2>7. ASSUME ChainValid(t) PROVE OK
    BY <2>7, <1>3 DEF ChainValid
  <2>8. ASSUME ReturnVerdict(t) PROVE OK
    BY <2>8, <1>3 DEF ReturnVerdict
  <2> QED
    BY <1>5, <2>1, <2>2, <2>3, <2>4, <2>5, <2>6, <2>7, <2>8 DEF Continue, Looks
<1> QED
  BY <1>4, <1>5

LEMMA CallTypesStep ==
    ASSUME PartTypes, CallTypes, [Next]_vars
    PROVE  CallTypes'
<1>1. ASSUME NEW t \in Threads, Call(t) \/ Continue(t) PROVE CallTypes'
  <2>1. PICK l \in Labels, j \in Jobs : Moves(t, l, j)
    BY <1>1, MoveTo
  <2>2. pc' = [pc EXCEPT ![t] = l] /\ job' = [job EXCEPT ![t] = j]
    BY <2>1 DEF Moves, Goto
  <2>3. pc' \in [Threads -> Labels] /\ job' \in [Threads -> Jobs]
    BY <2>2 DEF CallTypes
  <2>4. ASSUME NEW u \in Threads
        PROVE  /\ pc'[u] = "audit" => job'[u] \in Content
               /\ pc'[u] \in {"observe", "evaluate"} => IsMetric(job'[u])
    <3>1. CASE u = t
      BY <2>1, <2>2, <3>1 DEF Moves, CallTypes
    <3>2. CASE u # t
      BY <2>2, <3>2 DEF CallTypes
    <3> QED
      BY <3>1, <3>2
  <2> QED
    BY <2>3, <2>4 DEF CallTypes, IsMetric
<1>2. ASSUME UNCHANGED <<pc, job>> PROVE CallTypes'
  BY <1>2 DEF CallTypes, IsMetric
<1> QED
  BY <1>1, <1>2 DEF Next, HostOverwrites, vars

LEMMA OnlyAuditAppends ==
    ASSUME NEW t \in Threads, Call(t) \/ Continue(t)
    PROVE  Audit(t) \/ UNCHANGED ledger
<1>1. ASSUME Call(t) PROVE UNCHANGED ledger
  BY <1>1 DEF Call, Remember, ForgetMemory, PublishMetric, HandleL3, HandleL4, RunCycle,
              VerifyChain
<1>2. ASSUME Continue(t), ~Audit(t) PROVE UNCHANGED ledger
  BY <1>2 DEF Continue, Observe, EvaluateWindow, CycleReturns, CycleRaises,
              VerifyContent, VerifySignature, VerifyPrevious, VerifyNext, ChainValid,
              ReturnVerdict
<1> QED
  BY <1>1, <1>2

(* Records under way are counted right: a call takes its place when it begins, and gives
   it up for its record or when it raises. *)
LEMMA RoomStep ==
    ASSUME PartTypes, CallTypes, RoomOK, LedgerOK, [Next]_vars
    PROVE  RoomOK'
<1> DEFINE n == Cardinality(Recording)
<1>0. n \in Nat /\ IsFiniteSet(Recording) /\ Len(entries) \in Nat /\ MaxEntries \in Nat
  BY FS_CardinalityType, FacadeAssumption DEF RoomOK, LedgerOK, LedgerTypes
<1>1. ASSUME NEW t \in Threads, Call(t) \/ Continue(t), Len(entries') = Len(entries)
      PROVE  RoomOK'
  <2>1. PICK l \in Labels, j \in Jobs : Moves(t, l, j)
    BY <1>1, MoveTo
  <2>2. pc' = [pc EXCEPT ![t] = l] /\ pc \in [Threads -> Labels]
    BY <2>1 DEF Moves, Goto, CallTypes
  <2>3. CASE l \in RecordLabels /\ pc[t] \notin RecordLabels
    <3>1. Recording' = Recording \union {t} /\ t \notin Recording
      BY <2>2, <2>3 DEF Recording, RecordLabels
    <3>2. IsFiniteSet(Recording') /\ Cardinality(Recording') = n + 1
      BY <1>0, <3>1, FS_AddElement
    <3>3. Len(entries) + n < MaxEntries
      BY <2>1, <2>3 DEF Moves, Room
    <3> QED
      BY <1>0, <1>1, <3>2, <3>3 DEF RoomOK
  <2>4. CASE l \in RecordLabels /\ pc[t] \in RecordLabels
    <3>1. Recording' = Recording
      BY <2>2, <2>4 DEF Recording, RecordLabels
    <3> QED
      BY <1>1, <3>1 DEF RoomOK
  <2>5. CASE l \notin RecordLabels
    <3>1. Recording' = Recording \ {t}
      BY <2>2, <2>5 DEF Recording, RecordLabels
    <3>2. IsFiniteSet(Recording') /\ Cardinality(Recording') \in {n, n - 1}
      BY <1>0, <3>1, FS_RemoveElement
    <3> QED
      BY <1>0, <1>1, <3>2 DEF RoomOK
  <2> QED
    BY <2>3, <2>4, <2>5
<1>2. ASSUME NEW t \in Threads, Audit(t) PROVE RoomOK'
  <2>1. job[t] \in Content /\ AppendEntry(job[t])
    BY <1>2 DEF Audit, CallTypes
  <2>2. Len(entries') = Len(entries) + 1
    BY <2>1, AppendStep
  <2>3. Recording' = Recording \ {t} /\ t \in Recording
    BY <1>2 DEF Audit, Goto, CallTypes, Recording
  <2>4. IsFiniteSet(Recording') /\ Cardinality(Recording') = n - 1
    BY <1>0, <2>3, FS_RemoveElement
  <2> QED
    BY <1>0, <2>2, <2>4 DEF RoomOK
<1>3. ASSUME Len(entries') = Len(entries), pc' = pc PROVE RoomOK'
  BY <1>3 DEF RoomOK, Recording
<1>4. ASSUME HostOverwrites PROVE RoomOK'
  BY <1>3, <1>4, OverwriteStep DEF HostOverwrites
<1>5. ASSUME UNCHANGED vars PROVE RoomOK'
  BY <1>3, <1>5 DEF vars, ledger
<1> QED
  BY <1>1, <1>2, <1>4, <1>5, OnlyAuditAppends DEF Next, ledger

-----------------------------------------------------------------------------
(* A verification under way. *)

WalkTypes ==
    /\ position \in [Threads -> 0 .. MaxEntries + 1]
    /\ size \in [Threads -> 0 .. MaxEntries]
    /\ previous \in [Threads -> Signatures]
    /\ expected \in [Threads -> Signatures]
    /\ overwritten \in [Threads -> SUBSET Nat]
    /\ \A t \in Threads : overwritten[t] \subseteq 1 .. size[t]

(* What was appended stays; an entry changes only when it is overwritten, and then every
   verification that has it in its copy is marked. *)
LEMMA LedgerStep ==
    ASSUME CallTypes, WalkTypes, LedgerOK, [Next]_vars
    PROVE  /\ LedgerOK'
           /\ Len(appended) <= Len(appended')
           /\ \A i \in 1 .. Len(appended) :
                /\ appended'[i] = appended[i]
                /\ i \in offChain' <=> i \in offChain
                /\ \/ entries'[i] = entries[i]
                   \/ \A t \in Threads : i <= size[t] => i \in overwritten'[t]
<1> DEFINE Kept == /\ LedgerOK'
                   /\ Len(appended) <= Len(appended')
                   /\ \A i \in 1 .. Len(appended) :
                        /\ appended'[i] = appended[i]
                        /\ i \in offChain' <=> i \in offChain
                        /\ \/ entries'[i] = entries[i]
                           \/ \A t \in Threads : i <= size[t] => i \in overwritten'[t]
<1>0. Len(appended) \in Nat
  BY DEF LedgerOK, LedgerTypes
<1>1. ASSUME NEW t \in Threads, Audit(t) PROVE Kept
  <2>1. job[t] \in Content /\ AppendEntry(job[t])
    BY <1>1 DEF Audit, CallTypes
  <2> QED
    BY <1>0, <2>1, AppendStep
<1>2. ASSUME HostOverwrites PROVE Kept
  <2>1. PICK k \in DOMAIN entries :
          /\ Overwrite(k)
          /\ overwritten' = [t \in Threads |-> IF k <= size[t] THEN overwritten[t] \union {k}
                                               ELSE overwritten[t]]
    BY <1>2 DEF HostOverwrites
  <2>2. \A t \in Threads : k <= size[t] => k \in overwritten'[t]
    BY <2>1
  <2>3. /\ LedgerOK' /\ appended' = appended /\ offChain' = offChain
        /\ \A i \in 1 .. Len(appended) : i # k => entries'[i] = entries[i]
    BY <1>2, <2>1, OverwriteStep DEF HostOverwrites
  <2> QED
    BY <1>0, <2>2, <2>3
<1>3. ASSUME UNCHANGED ledger PROVE Kept
  <2>1. LedgerOK'
    BY <1>3 DEF ledger, LedgerOK, LedgerTypes, AppendedOK
  <2> QED
    BY <1>0, <1>3, <2>1 DEF ledger
<1> QED
  BY <1>1, <1>2, <1>3, OnlyAuditAppends DEF Next, vars

(* An unbroken chain leads from entry i to entry k, and nobody wrote to it meanwhile. *)
Clean(t, i, k) ==
    /\ (i .. k) \intersect overwritten[t] = {}
    /\ (i + 1 .. k) \intersect offChain = {}

(* What the walk compares the next entry with is the signature before it. *)
ReachedOK(t) ==
    /\ position[t] = 1 => previous[t] = Genesis
    /\ position[t] # 1 /\ position[t] - 1 \notin overwritten[t] =>
         previous[t] = entries[position[t] - 1].signature

(* When the last signature it took is as it was appended, then the clean chain before it
   is unaltered. *)
PassedOK(t) ==
    position[t] # 1 /\ previous[t] = appended[position[t] - 1].signature =>
        \A i \in 1 .. position[t] - 1 : Clean(t, i, position[t] - 1) => i \notin Altered

(* What the reads of this round have shown of an entry that nobody wrote to meanwhile. *)
RoundOK(t) ==
    LET p == position[t] IN
    p \notin overwritten[t] =>
        /\ pc[t] = "verify_signature" => expected[t] = Append(previous[t], entries[p].content)
        /\ pc[t] \in {"verify_previous", "verify_next"} =>
             entries[p].signature = Append(previous[t], entries[p].content)
        /\ pc[t] = "verify_next" => entries[p].previous = previous[t]
        /\ pc[t] = "broken" => \/ entries[p].signature # Append(previous[t], entries[p].content)
                               \/ entries[p].previous # previous[t]

WalkOK(t) ==
    pc[t] \in WalkLabels =>
        /\ size[t] <= Len(appended)
        /\ position[t] \in 1 .. size[t] + 1
        /\ pc[t] \notin {"verify", "valid"} => position[t] <= size[t]
        /\ pc[t] = "valid" => position[t] = size[t] + 1
        /\ ReachedOK(t) /\ PassedOK(t) /\ RoundOK(t)

(* A step of another thread, or of a caller that overwrites, leaves it all. *)
LEMMA WalkKept ==
    ASSUME CallTypes, WalkTypes, LedgerOK, [Next]_vars, NEW t \in Threads, WalkOK(t),
           pc'[t] \in WalkLabels => pc'[t] = pc[t],
           UNCHANGED <<position[t], size[t], previous[t], expected[t]>>,
           overwritten[t] \subseteq overwritten'[t]
    PROVE  WalkOK(t)'
<1>0. SUFFICES ASSUME pc'[t] \in WalkLabels PROVE WalkOK(t)'
  BY DEF WalkOK
<1>1. /\ pc'[t] = pc[t] /\ LedgerOK'
      /\ Len(appended) <= Len(appended') /\ Len(appended) \in Nat /\ Len(appended') \in Nat
      /\ \A i \in 1 .. Len(appended) :
           /\ appended'[i] = appended[i]
           /\ i \in offChain' <=> i \in offChain
           /\ entries'[i] = entries[i] \/ (i <= size[t] => i \in overwritten'[t])
  <2>1. /\ LedgerOK' /\ Len(appended) <= Len(appended')
        /\ \A i \in 1 .. Len(appended) :
             /\ appended'[i] = appended[i]
             /\ i \in offChain' <=> i \in offChain
             /\ entries'[i] = entries[i] \/ (i <= size[t] => i \in overwritten'[t])
    BY LedgerStep
  <2>2. Len(appended) \in Nat /\ Len(appended') \in Nat
    BY <2>1 DEF LedgerOK, LedgerTypes
  <2> QED
    BY <1>0, <2>1, <2>2
<1>2. PICK s \in Nat, p \in Nat : s = size[t] /\ p = position[t]
  BY FacadeAssumption DEF WalkTypes
<1>3. /\ s <= Len(appended) /\ p \in 1 .. s + 1
      /\ pc[t] \notin {"verify", "valid"} => p <= s
      /\ pc[t] = "valid" => p = s + 1
      /\ ReachedOK(t) /\ PassedOK(t) /\ RoundOK(t)
  BY <1>0, <1>1, <1>2 DEF WalkOK
<1>4. ASSUME NEW i \in 1 .. s, i \notin overwritten'[t]
      PROVE  entries'[i] = entries[i] /\ i \notin overwritten[t] /\ appended'[i] = appended[i]
  BY <1>1, <1>2, <1>3, <1>4
<1>5. ReachedOK(t)'
  <2>1. p # 1 => p - 1 \in 1 .. s
    BY <1>2, <1>3
  <2> QED
    BY <1>2, <1>3, <1>4, <2>1 DEF ReachedOK
<1>6. PassedOK(t)'
  <2> SUFFICES ASSUME p # 1, previous[t] = appended'[p - 1].signature,
                      NEW i \in 1 .. p - 1, Clean(t, i, p - 1)'
               PROVE  i \notin Altered'
    BY <1>2 DEF PassedOK
  <2>1. p - 1 \in 1 .. s /\ i \in 1 .. s /\ i \in i .. p - 1 /\ p - 1 \in 1 .. Len(appended)
        /\ i \in 1 .. Len(appended) /\ i \in 1 .. Len(appended')
    BY <1>1, <1>2, <1>3
  <2>2. \A j \in i .. p - 1 : j \in 1 .. Len(appended)
    BY <1>1, <1>2, <1>3
  <2>3. Clean(t, i, p - 1)
    BY <1>1, <2>2 DEF Clean
  <2>4. i \notin Altered
    BY <1>1, <1>2, <1>3, <2>1, <2>3 DEF PassedOK
  <2>5. entries'[i] = entries[i] /\ appended'[i] = appended[i]
    BY <1>4, <2>1 DEF Clean
  <2>6. entries[i] = appended[i]
    BY <2>1, <2>4, AlteredFacts DEF LedgerOK
  <2>7. i \in DOMAIN entries' /\ DOMAIN entries' = 1 .. Len(appended')
    BY <1>1, <2>1 DEF LedgerOK, LedgerTypes
  <2> QED
    BY <2>5, <2>6 DEF Altered
<1>7. RoundOK(t)'
  <2>1. CASE pc[t] \in {"verify", "valid"}
    BY <1>1, <2>1 DEF RoundOK
  <2>2. CASE pc[t] \notin {"verify", "valid"}
    <3>1. p \in 1 .. s
      BY <1>2, <1>3, <2>2
    <3> QED
      BY <1>1, <1>2, <1>3, <1>4, <3>1 DEF RoundOK
  <2> QED
    BY <2>1, <2>2
<1> QED
  BY <1>1, <1>2, <1>3, <1>5, <1>6, <1>7 DEF WalkOK

LEMMA WalkBegins ==
    ASSUME CallTypes, WalkTypes, LedgerOK, NEW t \in Threads, VerifyChain(t)
    PROVE  WalkOK(t)'
<1>1. /\ pc'[t] = "verify" /\ position'[t] = 1 /\ previous'[t] = Genesis
      /\ size'[t] = Len(appended) /\ appended' = appended
  BY DEF VerifyChain, CallTypes, WalkTypes, LedgerOK, LedgerTypes, Goto, ledger
<1>2. Len(appended) \in Nat
  BY DEF LedgerOK, LedgerTypes
<1> QED
  BY <1>1, <1>2 DEF WalkOK, ReachedOK, PassedOK, RoundOK

(* The four reads of one round. *)
LEMMA WalkGoesOn ==
    ASSUME CallTypes, WalkTypes, LedgerOK, NEW t \in Threads, WalkOK(t), Looks(t)
    PROVE  WalkOK(t)'
<1>1. PICK s \in Nat, p \in Nat : s = size[t] /\ p = position[t]
  BY FacadeAssumption DEF WalkTypes
<1>2. /\ pc[t] \in Verifying /\ UNCHANGED <<entries, appended, offChain, size, overwritten>>
      /\ pc[t] = "verify" => p <= s
  BY <1>1 DEF Looks, VerifyContent, VerifySignature, VerifyPrevious, VerifyNext, ledger,
              verification, Verifying
<1>3. /\ s <= Len(appended) /\ p \in 1 .. s /\ p \in 1 .. Len(appended) /\ Len(appended) \in Nat
      /\ ReachedOK(t) /\ PassedOK(t) /\ RoundOK(t)
  BY <1>1, <1>2 DEF WalkOK, WalkLabels, Verifying, LedgerOK, LedgerTypes
<1>4. Altered' = Altered
  BY <1>2 DEF Altered
<1>5. ASSUME UNCHANGED <<position, previous>> PROVE ReachedOK(t)' /\ PassedOK(t)'
  BY <1>2, <1>3, <1>4, <1>5 DEF ReachedOK, PassedOK, Clean
<1>6. CASE VerifyContent(t)
  <2>1. /\ pc'[t] = "verify_signature" /\ UNCHANGED <<position, previous>>
        /\ expected'[t] = Append(previous[t], entries[p].content)
    BY <1>1, <1>6 DEF VerifyContent, Goto, CallTypes, WalkTypes, Signature
  <2>2. RoundOK(t)'
    BY <1>1, <1>2, <2>1 DEF RoundOK
  <2> QED
    BY <1>1, <1>2, <1>3, <1>5, <2>1, <2>2 DEF WalkOK
<1>7. CASE VerifySignature(t)
  <2>1. /\ UNCHANGED <<position, previous>> /\ pc[t] = "verify_signature"
        /\ pc'[t] = IF entries[p].signature = expected[t] THEN "verify_previous" ELSE "broken"
    BY <1>1, <1>7 DEF VerifySignature, Goto, CallTypes, verification
  <2>2. RoundOK(t)'
    BY <1>1, <1>2, <1>3, <2>1 DEF RoundOK
  <2> QED
    BY <1>1, <1>2, <1>3, <1>5, <2>1, <2>2 DEF WalkOK
<1>8. CASE VerifyPrevious(t)
  <2>1. /\ UNCHANGED <<position, previous>> /\ pc[t] = "verify_previous"
        /\ pc'[t] = IF entries[p].previous = previous[t] THEN "verify_next" ELSE "broken"
    BY <1>1, <1>8 DEF VerifyPrevious, Goto, CallTypes, verification
  <2>2. RoundOK(t)'
    BY <1>1, <1>2, <1>3, <2>1 DEF RoundOK
  <2> QED
    BY <1>1, <1>2, <1>3, <1>5, <2>1, <2>2 DEF WalkOK
<1>9. CASE VerifyNext(t)
  <2>1. /\ pc[t] = "verify_next" /\ pc'[t] = "verify"
        /\ position'[t] = p + 1 /\ previous'[t] = entries[p].signature
    BY <1>1, <1>9 DEF VerifyNext, Goto, CallTypes, WalkTypes
  <2>2. p + 1 # 1 /\ (p + 1) - 1 = p /\ p + 1 \in 1 .. s + 1
    BY <1>1, <1>3
  <2>3. ReachedOK(t)'
    BY <1>2, <2>1, <2>2 DEF ReachedOK
  <2>4. PassedOK(t)'
    <3> SUFFICES ASSUME entries[p].signature = appended[p].signature,
                        NEW i \in 1 .. p, Clean(t, i, p)
                 PROVE  i \notin Altered
      BY <1>2, <1>4, <2>1, <2>2 DEF PassedOK, Clean
    <3>1. p \notin overwritten[t]
      BY <1>1 DEF Clean
    <3>2. /\ entries[p].signature = Append(previous[t], entries[p].content)
          /\ entries[p].previous = previous[t]
      BY <1>1, <1>3, <2>1, <3>1 DEF RoundOK
    <3>3. p \notin Altered /\ previous[t] = appended[p].previous
      BY <1>3, <3>2, SignedAsAppended DEF WalkTypes
    <3>4. CASE i = p
      BY <3>3, <3>4
    <3>5. CASE i # p
      <4>1. p # 1 /\ i \in 1 .. p - 1 /\ p \in i + 1 .. p
        BY <1>1, <3>5
      <4>2. p \notin offChain
        BY <4>1 DEF Clean
      <4>3. previous[t] = appended[p - 1].signature
        BY <1>3, <3>3, <4>1, <4>2 DEF LedgerOK, AppendedOK
      <4>4. Clean(t, i, p - 1)
        BY <1>1, <4>1 DEF Clean
      <4> QED
        BY <1>1, <1>3, <4>1, <4>3, <4>4 DEF PassedOK
    <3> QED
      BY <3>4, <3>5
  <2>5. RoundOK(t)'
    BY <2>1 DEF RoundOK
  <2> QED
    BY <1>1, <1>2, <1>3, <2>1, <2>2, <2>3, <2>4, <2>5 DEF WalkOK
<1> QED
  BY <1>6, <1>7, <1>8, <1>9 DEF Looks

LEMMA WalkTypesStep ==
    ASSUME CallTypes, WalkTypes, LedgerOK, RoomOK, \A t \in Threads : WalkOK(t), [Next]_vars
    PROVE  WalkTypes'
<1>0. Len(entries) \in 0 .. MaxEntries /\ MaxEntries \in Nat /\ Genesis \in Signatures
  BY FS_CardinalityType, FacadeAssumption, SignedFacts DEF RoomOK, LedgerOK, LedgerTypes
<1>1. ASSUME NEW t \in Threads, VerifyChain(t) PROVE WalkTypes'
  BY <1>0, <1>1 DEF VerifyChain, WalkTypes
<1>2. ASSUME NEW t \in Threads, Looks(t) PROVE WalkTypes'
  <2>1. pc[t] \in Verifying /\ (pc[t] = "verify" => position[t] <= size[t])
    BY <1>2 DEF Looks, VerifyContent, VerifySignature, VerifyPrevious, VerifyNext, Verifying
  <2>2. /\ size[t] <= Len(appended) /\ position[t] \in 1 .. size[t]
        /\ Len(appended) \in Nat /\ size[t] \in 0 .. MaxEntries
    BY <1>0, <2>1 DEF WalkOK, WalkLabels, Verifying, LedgerOK, LedgerTypes, WalkTypes
  <2>3. position[t] \in 1 .. Len(appended) /\ position[t] + 1 \in 0 .. MaxEntries + 1
    BY <1>0, <2>2
  <2>4. /\ entries[position[t]].signature \in Signatures
        /\ entries[position[t]].content \in Signed /\ previous[t] \in Seq(Signed)
    BY <2>3, EntryFacts DEF LedgerOK, WalkTypes, Signatures
  <2>5. Signature(entries[position[t]].content, previous[t]) \in Signatures
    BY <2>4, AppendProperties DEF Signature, Signatures
  <2>6. CASE VerifyContent(t)
    BY <2>5, <2>6 DEF VerifyContent, WalkTypes
  <2>7. CASE VerifySignature(t) \/ VerifyPrevious(t)
    BY <2>7 DEF VerifySignature, VerifyPrevious, verification, WalkTypes
  <2>8. CASE VerifyNext(t)
    BY <2>3, <2>4, <2>8 DEF VerifyNext, WalkTypes
  <2> QED
    BY <1>2, <2>6, <2>7, <2>8 DEF Looks
<1>3. ASSUME NEW t \in Threads, ReturnVerdict(t) PROVE WalkTypes'
  BY <1>0, <1>3 DEF ReturnVerdict, WalkTypes
<1>4. ASSUME UNCHANGED verification PROVE WalkTypes'
  BY <1>4 DEF verification, WalkTypes
<1>5. ASSUME NEW t \in Threads, Call(t)
      PROVE  VerifyChain(t) \/ UNCHANGED verification
  BY <1>5 DEF Call, Remember, ForgetMemory, PublishMetric, HandleL3, HandleL4, RunCycle
<1>6. ASSUME NEW t \in Threads, Continue(t)
      PROVE  Looks(t) \/ ReturnVerdict(t) \/ UNCHANGED verification
  BY <1>6 DEF Continue, Looks, Observe, EvaluateWindow, CycleReturns, CycleRaises, Audit,
              ChainValid
<1>7. ASSUME HostOverwrites PROVE WalkTypes'
  <2>1. PICK k \in DOMAIN entries :
          overwritten' = [t \in Threads |-> IF k <= size[t] THEN overwritten[t] \union {k}
                                            ELSE overwritten[t]]
    BY <1>7 DEF HostOverwrites
  <2>2. k \in Nat /\ k >= 1
    BY DEF LedgerOK, LedgerTypes
  <2>3. UNCHANGED <<position, size, previous, expected>>
    BY <1>7 DEF HostOverwrites
  <2>4. /\ overwritten' \in [Threads -> SUBSET Nat]
        /\ \A t \in Threads : overwritten'[t] \subseteq 1 .. size[t]
    BY <1>0, <2>1, <2>2 DEF WalkTypes
  <2> QED
    BY <2>3, <2>4 DEF WalkTypes
<1> QED
  BY <1>1, <1>2, <1>3, <1>4, <1>5, <1>6, <1>7 DEF Next, vars

LEMMA WalkStep ==
    ASSUME PartTypes, CallTypes, WalkTypes, LedgerOK, [Next]_vars, NEW t \in Threads, WalkOK(t)
    PROVE  WalkOK(t)'
<1>1. ASSUME UNCHANGED verification, pc'[t] \in WalkLabels => pc'[t] = pc[t]
      PROVE  WalkOK(t)'
  BY <1>1, WalkKept DEF verification
<1>2. ASSUME NEW u \in Threads, u # t, VerifyChain(u) \/ Looks(u) \/ ReturnVerdict(u)
      PROVE  WalkOK(t)'
  <2>1. /\ pc'[t] = pc[t]
        /\ UNCHANGED <<position[t], size[t], previous[t], expected[t], overwritten[t]>>
    BY <1>2 DEF VerifyChain, Looks, VerifyContent, VerifySignature, VerifyPrevious, VerifyNext,
                ReturnVerdict, verification, Goto, CallTypes, WalkTypes
  <2> QED
    BY <2>1, WalkKept
<1>3. ASSUME NEW u \in Threads, Call(u) PROVE WalkOK(t)'
  <2>1. CASE VerifyChain(u)
    BY <1>2, <2>1, WalkBegins
  <2>2. CASE ~VerifyChain(u)
    <3>1. UNCHANGED verification
      BY <1>3, <2>2 DEF Call, Remember, ForgetMemory, PublishMetric, HandleL3, HandleL4, RunCycle
    <3>2. /\ pc' \in {[pc EXCEPT ![u] = "audit"], [pc EXCEPT ![u] = "idle"],
                      [pc EXCEPT ![u] = "observe"], [pc EXCEPT ![u] = "cycle"]}
      BY <1>3, <2>2 DEF Call, Remember, ForgetMemory, PublishMetric, HandleL3, HandleL4, RunCycle,
                        WillAudit, Raise, Goto
    <3>3. pc'[t] = pc[t] \/ pc'[t] \in {"audit", "idle", "observe", "cycle"}
      BY <3>2 DEF CallTypes
    <3> QED
      BY <1>1, <3>1, <3>3 DEF WalkLabels, Verifying
  <2> QED
    BY <2>1, <2>2
<1>4. ASSUME NEW u \in Threads, Continue(u) PROVE WalkOK(t)'
  <2>1. CASE Looks(u)
    BY <1>2, <2>1, WalkGoesOn
  <2>2. CASE ReturnVerdict(u)
    <3>1. CASE u = t
      BY <2>2, <3>1 DEF ReturnVerdict, Goto, CallTypes, WalkOK, WalkLabels, Verifying
    <3> QED
      BY <1>2, <2>2, <3>1
  <2>3. CASE ChainValid(u)
    <3>1. CASE u = t
      <4>1. /\ pc[t] = "verify" /\ position[t] > size[t] /\ pc'[t] = "valid"
            /\ UNCHANGED <<entries, appended, offChain, position, size, previous, expected,
                           overwritten>>
        BY <2>3, <3>1 DEF ChainValid, Goto, CallTypes, ledger, verification
      <4>2. /\ position[t] = size[t] + 1 /\ size[t] <= Len(appended) /\ position[t] \in 1 .. size[t] + 1
            /\ ReachedOK(t) /\ PassedOK(t)
        BY <4>1, FacadeAssumption DEF WalkOK, WalkTypes, WalkLabels, Verifying
      <4>3. ReachedOK(t)' /\ PassedOK(t)'
        BY <4>1, <4>2 DEF ReachedOK, PassedOK, Clean, Altered
      <4>4. RoundOK(t)'
        BY <4>1 DEF RoundOK
      <4> QED
        BY <4>1, <4>2, <4>3, <4>4 DEF WalkOK
    <3>2. CASE u # t
      <4>1. pc'[t] = pc[t] /\ UNCHANGED verification
        BY <2>3, <3>2 DEF ChainValid, Goto, CallTypes
      <4> QED
        BY <1>1, <4>1
    <3> QED
      BY <3>1, <3>2
  <2>4. CASE Observe(u) \/ EvaluateWindow(u) \/ CycleReturns(u) \/ CycleRaises(u) \/ Audit(u)
    <3>1. UNCHANGED verification
      BY <2>4 DEF Observe, EvaluateWindow, CycleReturns, CycleRaises, Audit
    <3>2. pc' \in {[pc EXCEPT ![u] = "audit"], [pc EXCEPT ![u] = "idle"],
                   [pc EXCEPT ![u] = "evaluate"]}
      BY <2>4 DEF Observe, EvaluateWindow, CycleReturns, CycleRaises, Audit, WillAudit, Raise,
                  Goto
    <3>3. pc'[t] = pc[t] \/ pc'[t] \in {"audit", "idle", "evaluate"}
      BY <3>2 DEF CallTypes
    <3> QED
      BY <1>1, <3>1, <3>3 DEF WalkLabels, Verifying
  <2> QED
    BY <1>4, <2>1, <2>2, <2>3, <2>4 DEF Continue, Looks
<1>5. ASSUME HostOverwrites PROVE WalkOK(t)'
  <2>1. /\ UNCHANGED <<pc, position, size, previous, expected>>
        /\ overwritten[t] \subseteq overwritten'[t]
    BY <1>5 DEF HostOverwrites
  <2> QED
    BY <2>1, WalkKept
<1>6. ASSUME UNCHANGED vars PROVE WalkOK(t)'
  <2>1. UNCHANGED verification /\ pc' = pc
    BY <1>6 DEF vars
  <2> QED
    BY <1>1, <2>1
<1> QED
  BY <1>3, <1>4, <1>5, <1>6 DEF Next

-----------------------------------------------------------------------------
(* From an effect to its record. *)

Records == {appended[i].content : i \in 1 .. Len(appended)}
Waiting == {job[t] : t \in {u \in Threads : pc[u] = "audit"}}
Told == Records \union Waiting

(* What became of a memory, or of an alert, is what has been told or is about to be. *)
EffectsOK ==
    /\ \A m \in Memories \ doubt :
         /\ m \in used <=> Job("memory_stored", m) \in Told
         /\ m \in used \ memory <=> Job("memory_forgotten", m) \in Told
    /\ \A a \in AlertIds \ doubt :
         a \in filed <=> Job("alert_raised", a) \in Told \/ Job("critical_alert_raised", a) \in Told

CyclesOK ==
    (\A t \in Threads : pc[t] # "cycle") /\ ~failed /\ cycleCount > 0
        => Job("mape_cycle_complete", cycleCount) \in Told

LEMMA JobsDiffer ==
    \A x, y, a, b : Job(x, a) = Job(y, b) => x = y /\ a = b
<1> TAKE x, y, a, b
<1> HAVE Job(x, a) = Job(y, b)
<1>1. Job(x, a).type = x /\ Job(y, b).type = y /\ Job(x, a).about = a /\ Job(y, b).about = b
  BY DEF Job
<1> QED
  BY <1>1

LEMMA ToldMoves ==
    ASSUME CallTypes, NEW t \in Threads, pc[t] # "audit",
           NEW l, NEW j, Goto(t, l), job' = [job EXCEPT ![t] = j], UNCHANGED appended
    PROVE  Told' = Told \union (IF l = "audit" THEN {j} ELSE {})
<1>1. Records' = Records
  BY DEF Records
<1>2. /\ pc'[t] = l /\ job'[t] = j
      /\ \A u \in Threads : u # t => pc'[u] = pc[u] /\ job'[u] = job[u]
  BY DEF Goto, CallTypes
<1>3. Waiting' = Waiting \union (IF l = "audit" THEN {j} ELSE {})
  BY <1>2 DEF Waiting
<1> QED
  BY <1>1, <1>3 DEF Told

LEMMA ToldAudit ==
    ASSUME CallTypes, LedgerOK, NEW t \in Threads, Audit(t)
    PROVE  Told' = Told
<1>1. job[t] \in Content /\ AppendEntry(job[t]) /\ pc[t] = "audit"
  BY DEF Audit, CallTypes
<1>2. /\ Len(appended') = Len(appended) + 1 /\ Len(appended) \in Nat
      /\ \A i \in 1 .. Len(appended) : appended'[i] = appended[i]
      /\ appended'[Len(appended) + 1].content = job[t]
  BY <1>1, AppendStep DEF LedgerOK, LedgerTypes
<1>3. Records' = Records \union {job[t]}
  BY <1>2 DEF Records
<1>4. /\ pc'[t] = "idle"
      /\ \A u \in Threads : u # t => pc'[u] = pc[u] /\ job'[u] = job[u]
  BY DEF Audit, Goto, CallTypes
<1>5. Waiting \subseteq Waiting' \union {job[t]} /\ Waiting' \subseteq Waiting
  BY <1>4 DEF Waiting
<1>6. job[t] \in Waiting
  BY <1>1 DEF Waiting
<1> QED
  BY <1>3, <1>5, <1>6 DEF Told

(* Records of other kinds say nothing of memories and alerts. *)
LEMMA EffectsKept ==
    ASSUME EffectsOK, UNCHANGED <<memory, used, filed, doubt>>,
           Told \subseteq Told',
           \A j \in Told' \ Told : \E type \in {"metric_published", "mape_cycle_complete"} :
                \E about : j = Job(type, about)
    PROVE  EffectsOK'
<1>1. \A x, type : type \in {"memory_stored", "memory_forgotten", "alert_raised",
                             "critical_alert_raised"}
            => (Job(type, x) \in Told' <=> Job(type, x) \in Told)
  BY JobsDiffer
<1> QED
  BY <1>1 DEF EffectsOK

LEMMA RememberStep ==
    ASSUME CallTypes, PartTypes, EffectsOK,
           NEW t \in Threads, NEW m \in Memories, Remember(t, m)
    PROVE  EffectsOK' /\ Told \subseteq Told'
<1>1. /\ pc[t] = "idle" /\ m \notin used /\ used' = used \union {m}
      /\ appended' = appended /\ filed' = filed /\ memory \subseteq used
  BY DEF Remember, Idle, ledger, PartTypes
<1>2. CASE WillAudit(t, "memory_stored", m) /\ memory' = memory \union {m} /\ doubt' = doubt
  <2>1. Told' = Told \union {Job("memory_stored", m)}
    BY <1>1, <1>2, ToldMoves DEF WillAudit
  <2> QED
    BY <1>1, <1>2, <2>1, JobsDiffer DEF EffectsOK
<1>3. CASE /\ Raise(t) /\ memory' \in {memory, memory \union {m}}
           /\ doubt' = doubt \union {m}
  <2>1. Told' = Told
    BY <1>1, <1>3, ToldMoves DEF Raise
  <2> QED
    BY <1>1, <1>3, <2>1 DEF EffectsOK
<1> QED
  BY <1>2, <1>3 DEF Remember

LEMMA ForgetStep ==
    ASSUME CallTypes, PartTypes, EffectsOK,
           NEW t \in Threads, NEW m \in Memories, ForgetMemory(t, m)
    PROVE  EffectsOK' /\ Told \subseteq Told'
<1>1. /\ pc[t] = "idle" /\ m \in memory /\ used' = used
      /\ appended' = appended /\ filed' = filed /\ memory \subseteq used
  BY DEF ForgetMemory, Idle, ledger, PartTypes
<1>2. CASE /\ WillAudit(t, ForgottenEvent, m) /\ memory' = memory \ {m} /\ doubt' = doubt
  <2>1. Told' = Told \union {Job("memory_forgotten", m)}
    BY <1>1, <1>2, ToldMoves DEF WillAudit, ForgottenEvent
  <2> QED
    BY <1>1, <1>2, <2>1, JobsDiffer DEF EffectsOK
<1>3. CASE /\ Raise(t)
           /\ \E lost \in SUBSET memory :
                memory' = memory \ lost /\ doubt' = doubt \union {m} \union lost
  <2>1. Told' = Told
    BY <1>1, <1>3, ToldMoves DEF Raise
  <2> QED
    BY <1>1, <1>3, <2>1 DEF EffectsOK
<1> QED
  BY <1>2, <1>3 DEF ForgetMemory

LEMMA AlertStep ==
    ASSUME CallTypes, EffectsOK, NEW t \in Threads, NEW a \in AlertIds,
           HandleL3(t, a) \/ HandleL4(t, a)
    PROVE  EffectsOK' /\ Told \subseteq Told'
<1>1. /\ pc[t] = "idle" /\ filed' = filed \union {a} /\ appended' = appended
      /\ memory' = memory /\ used' = used
  BY DEF HandleL3, HandleL4, Idle, ledger, history
<1>2. CASE /\ WillAudit(t, "alert_raised", a) \/ WillAudit(t, "critical_alert_raised", a)
           /\ doubt' = doubt
  <2>1. \/ Told' = Told \union {Job("alert_raised", a)}
        \/ Told' = Told \union {Job("critical_alert_raised", a)}
    BY <1>1, <1>2, ToldMoves DEF WillAudit
  <2> QED
    BY <1>1, <1>2, <2>1, JobsDiffer DEF EffectsOK
<1>3. CASE Raise(t) /\ doubt' = doubt \union {a}
  <2>1. Told' = Told
    BY <1>1, <1>3, ToldMoves DEF Raise
  <2> QED
    BY <1>1, <1>3, <2>1 DEF EffectsOK
<1> QED
  BY <1>2, <1>3 DEF HandleL3, HandleL4, history

(* Every other step of a thread leaves memories and alerts, and tells of readings and
   cycles only. *)
LEMMA OtherStep ==
    ASSUME CallTypes, LedgerOK, EffectsOK, NEW t \in Threads,
           \/ \E v \in Readings : PublishMetric(t, v)
           \/ RunCycle(t) \/ VerifyChain(t) \/ Continue(t)
    PROVE  EffectsOK' /\ Told \subseteq Told'
<1>1. UNCHANGED <<memory, used, filed, doubt>>
  BY DEF PublishMetric, RunCycle, VerifyChain, Continue, Observe, EvaluateWindow, CycleReturns,
         CycleRaises, Audit, VerifyContent, VerifySignature, VerifyPrevious, VerifyNext,
         ChainValid, ReturnVerdict, parts, history
<1>2. CASE Audit(t)
  BY <1>1, <1>2, ToldAudit, EffectsKept
<1>3. CASE CycleReturns(t)
  <2>1. Told' = Told \union {Job("mape_cycle_complete", cycleCount)}
    BY <1>3, ToldMoves DEF CycleReturns, CycleNumber, WillAudit, ledger
  <2>2. \A j \in Told' \ Told : j = Job("mape_cycle_complete", cycleCount)
    BY <2>1
  <2> QED
    BY <1>1, <2>1, <2>2, EffectsKept
<1>4. CASE EvaluateWindow(t)
  <2>1. PICK v \in Readings : job[t] = Job("metric_published", v)
    BY <1>4 DEF EvaluateWindow, CallTypes, IsMetric
  <2>2. CASE Goto(t, "audit") /\ job' = job
    <3>1. job' = [job EXCEPT ![t] = job[t]]
      BY <2>2 DEF CallTypes
    <3>2. Told' = Told \union {job[t]}
      BY <1>4, <2>2, <3>1, ToldMoves DEF EvaluateWindow, ledger
    <3>3. \A j \in Told' \ Told : j = Job("metric_published", v)
      BY <2>1, <3>2
    <3> QED
      BY <1>1, <3>2, <3>3, EffectsKept
  <2>3. CASE Raise(t)
    <3>1. /\ pc[t] # "audit" /\ UNCHANGED appended
          /\ Goto(t, "idle") /\ job' = [job EXCEPT ![t] = NoJob]
      BY <1>4, <2>3 DEF EvaluateWindow, ledger, Raise
    <3>2. Told' = Told \union (IF "idle" = "audit" THEN {NoJob} ELSE {})
      BY <3>1, ToldMoves
    <3> QED
      BY <1>1, <3>2, EffectsKept
  <2> QED
    BY <1>4, <2>2, <2>3 DEF EvaluateWindow
<1>5. ASSUME UNCHANGED ledger, pc[t] # "audit",
             NEW l \in Labels \ {"audit"}, NEW j, Goto(t, l), job' = [job EXCEPT ![t] = j]
      PROVE  EffectsOK' /\ Told \subseteq Told'
  <2>1. Told' = Told
    BY <1>5, ToldMoves DEF ledger
  <2> QED
    BY <1>1, <2>1, EffectsKept
<1>6. job = [job EXCEPT ![t] = job[t]] /\ pc = [pc EXCEPT ![t] = pc[t]] /\ pc[t] \in Labels
  BY DEF CallTypes
<1>7. ASSUME NEW v \in Readings, PublishMetric(t, v) PROVE EffectsOK' /\ Told \subseteq Told'
  BY <1>5, <1>7 DEF PublishMetric, Idle, Labels
<1>8. CASE RunCycle(t) \/ VerifyChain(t) \/ Observe(t) \/ ChainValid(t) \/ ReturnVerdict(t)
  <2>1. job' = job /\ UNCHANGED ledger /\ pc[t] # "audit"
    BY <1>8 DEF RunCycle, VerifyChain, Observe, ChainValid, ReturnVerdict, Idle
  <2>2. \E l \in Labels \ {"audit"} : Goto(t, l)
    BY <1>8 DEF RunCycle, VerifyChain, Observe, ChainValid, ReturnVerdict, Labels,
                WalkLabels, Verifying
  <2> QED
    BY <1>5, <1>6, <2>1, <2>2
<1>9. CASE CycleRaises(t)
  BY <1>5, <1>9 DEF CycleRaises, Raise, Labels
<1>10. CASE Looks(t)
  <2>1. job' = job /\ UNCHANGED ledger /\ pc[t] # "audit"
    BY <1>10 DEF Looks, VerifyContent, VerifySignature, VerifyPrevious, VerifyNext
  <2>2. \E l \in Labels \ {"audit"} : Goto(t, l)
    BY <1>10 DEF Looks, VerifyContent, VerifySignature, VerifyPrevious, VerifyNext, Labels,
                 WalkLabels, Verifying
  <2> QED
    BY <1>5, <1>6, <2>1, <2>2
<1> QED
  BY <1>2, <1>3, <1>4, <1>7, <1>8, <1>9, <1>10 DEF Continue, Looks

LEMMA EffectsStep ==
    ASSUME PartTypes, CallTypes, LedgerOK, EffectsOK, [Next]_vars
    PROVE  EffectsOK' /\ Told \subseteq Told'
<1>1. ASSUME NEW t \in Threads, Call(t) \/ Continue(t) PROVE EffectsOK' /\ Told \subseteq Told'
  BY <1>1, RememberStep, ForgetStep, AlertStep, OtherStep DEF Call
<1>2. ASSUME HostOverwrites \/ UNCHANGED vars PROVE EffectsOK' /\ Told \subseteq Told'
  <2>1. appended' = appended /\ UNCHANGED <<pc, job, memory, used, filed, doubt>>
    BY <1>2 DEF HostOverwrites, Overwrite, vars, ledger, parts, history
  <2>2. Told' = Told
    BY <2>1 DEF Told, Records, Waiting
  <2> QED
    BY <2>1, <2>2, EffectsKept
<1> QED
  BY <1>1, <1>2 DEF Next

LEMMA CyclesStep ==
    ASSUME PartTypes, CallTypes, LedgerOK, EffectsOK, CyclesOK, [Next]_vars
    PROVE  CyclesOK'
<1>1. Told \subseteq Told'
  BY EffectsStep
<1>2. ASSUME NEW t \in Threads, RunCycle(t) PROVE CyclesOK'
  <2>1. pc'[t] = "cycle"
    BY <1>2 DEF RunCycle, Goto, CallTypes
  <2> QED
    BY <2>1 DEF CyclesOK
<1>3. ASSUME NEW t \in Threads, CycleRaises(t) PROVE CyclesOK'
  BY <1>3 DEF CycleRaises, CyclesOK
<1>4. ASSUME NEW t \in Threads, CycleReturns(t) PROVE CyclesOK'
  <2>1. Told' = Told \union {Job("mape_cycle_complete", cycleCount)} /\ cycleCount' = cycleCount
    BY <1>4, ToldMoves DEF CycleReturns, CycleNumber, WillAudit, ledger, parts
  <2> QED
    BY <2>1 DEF CyclesOK
<1>5. ASSUME UNCHANGED <<failed, cycleCount>>,
             \A u \in Threads : pc[u] = "cycle" => pc'[u] = "cycle"
      PROVE  CyclesOK'
  BY <1>1, <1>5 DEF CyclesOK
<1>6. ASSUME NEW t \in Threads, Call(t), ~RunCycle(t) PROVE CyclesOK'
  <2>1. pc[t] # "cycle" /\ UNCHANGED <<failed, cycleCount>>
    BY <1>6 DEF Call, Remember, ForgetMemory, PublishMetric, HandleL3, HandleL4, VerifyChain,
                Idle, parts, history
  <2>2. PICK l \in Labels, j \in Jobs : Moves(t, l, j)
    BY <1>6, MoveTo
  <2>3. \A u \in Threads : u # t => pc'[u] = pc[u]
    BY <2>2 DEF Moves, Goto, CallTypes
  <2> QED
    BY <1>5, <2>1, <2>3
<1>7. ASSUME NEW t \in Threads, Continue(t), ~CycleRaises(t), ~CycleReturns(t) PROVE CyclesOK'
  <2>1. pc[t] # "cycle" /\ UNCHANGED <<failed, cycleCount>>
    BY <1>7 DEF Continue, Observe, EvaluateWindow, Audit, VerifyContent, VerifySignature,
                VerifyPrevious, VerifyNext, ChainValid, ReturnVerdict, parts, history
  <2>2. PICK l \in Labels, j \in Jobs : Moves(t, l, j)
    BY <1>7, MoveTo
  <2>3. \A u \in Threads : u # t => pc'[u] = pc[u]
    BY <2>2 DEF Moves, Goto, CallTypes
  <2> QED
    BY <1>5, <2>1, <2>3
<1>8. ASSUME HostOverwrites \/ UNCHANGED vars PROVE CyclesOK'
  BY <1>5, <1>8 DEF HostOverwrites, vars, parts, history
<1> QED
  BY <1>2, <1>3, <1>4, <1>6, <1>7, <1>8 DEF Next

LEMMA BreachStep ==
    ASSUME PartTypes, CallTypes, BreachAtRestWasAlerted, [Next]_vars
    PROVE  BreachAtRestWasAlerted'
<1>1. ASSUME NEW t \in Threads, Observe(t) PROVE BreachAtRestWasAlerted'
  <2>1. pc'[t] = "evaluate"
    BY <1>1 DEF Observe, Goto, CallTypes
  <2> QED
    BY <2>1 DEF BreachAtRestWasAlerted
<1>2. ASSUME NEW t \in Threads, EvaluateWindow(t) PROVE BreachAtRestWasAlerted'
  <2>1. alerted' = Breach(window) /\ window' = window
    BY <1>2 DEF EvaluateWindow, Anomaly, parts
  <2>2. Breach(window)' = Breach(window)
    BY <2>1 DEF Breach, Total
  <2> QED
    BY <2>1, <2>2 DEF BreachAtRestWasAlerted
<1>3. ASSUME UNCHANGED <<window, alerted>>,
             \A u \in Threads : pc[u] = "evaluate" => pc'[u] = "evaluate"
      PROVE  BreachAtRestWasAlerted'
  <2>1. Breach(window)' = Breach(window)
    BY <1>3 DEF Breach, Total
  <2> QED
    BY <1>3, <2>1 DEF BreachAtRestWasAlerted
<1>4. ASSUME NEW t \in Threads, Call(t) \/ Continue(t), ~Observe(t), ~EvaluateWindow(t)
      PROVE  BreachAtRestWasAlerted'
  <2>1. pc[t] # "evaluate" /\ UNCHANGED <<window, alerted>>
    BY <1>4 DEF Call, Remember, ForgetMemory, PublishMetric, HandleL3, HandleL4, RunCycle,
                VerifyChain, Continue, CycleReturns, CycleRaises, Audit, VerifyContent,
                VerifySignature, VerifyPrevious, VerifyNext, ChainValid, ReturnVerdict, Idle,
                parts, history
  <2>2. PICK l \in Labels, j \in Jobs : Moves(t, l, j)
    BY <1>4, MoveTo
  <2>3. \A u \in Threads : u # t => pc'[u] = pc[u]
    BY <2>2 DEF Moves, Goto, CallTypes
  <2> QED
    BY <1>3, <2>1, <2>3
<1>5. ASSUME HostOverwrites \/ UNCHANGED vars PROVE BreachAtRestWasAlerted'
  BY <1>3, <1>5 DEF HostOverwrites, vars, parts, history
<1> QED
  BY <1>1, <1>2, <1>4, <1>5 DEF Next

-----------------------------------------------------------------------------

FacadeInv ==
    /\ PartTypes /\ CallTypes /\ RoomOK /\ LedgerOK
    /\ WalkTypes /\ \A t \in Threads : WalkOK(t)
    /\ EffectsOK /\ CyclesOK /\ BreachAtRestWasAlerted

LEMMA FacadeInit == Init => FacadeInv
<1> HAVE Init
<1>1. PartTypes /\ CallTypes
  <2>1. window \in Seq(Readings) /\ Len(window) = 0
    BY EmptySeq DEF Init
  <2>2. CallTypes
    BY DEF Init, CallTypes, Labels, WalkLabels, Verifying, Jobs
  <2>3. Len(window) <= WindowSize /\ cycleCount \in 0 .. MaxCycles /\ raises \in 0 .. MaxRaises
    BY <2>1, FacadeAssumption DEF Init
  <2>4. /\ memory = {} /\ used = {} /\ filed = {} /\ doubt = {}
        /\ failed \in BOOLEAN /\ alerted \in BOOLEAN
    BY DEF Init
  <2> QED
    BY <2>1, <2>2, <2>3, <2>4 DEF PartTypes
<1>2. LedgerOK
  BY EmptySeq, FacadeAssumption DEF Init, LedgerOK, LedgerTypes
<1>3. RoomOK
  <2>1. Recording = {} /\ Len(entries) = 0
    BY DEF Init, Recording
  <2> QED
    BY <2>1, FS_EmptySet, FacadeAssumption DEF RoomOK
<1>4. WalkTypes /\ \A t \in Threads : WalkOK(t)
  BY SignedFacts, FacadeAssumption DEF Init, WalkTypes, WalkOK, WalkLabels, Verifying
<1>5. EffectsOK /\ CyclesOK
  <2>1. Told = {}
    BY DEF Init, Told, Records, Waiting
  <2> QED
    BY <2>1, FacadeAssumption DEF Init, EffectsOK, CyclesOK
<1>6. BreachAtRestWasAlerted
  BY FacadeAssumption DEF Init, BreachAtRestWasAlerted, Breach
<1> QED
  BY <1>1, <1>2, <1>3, <1>4, <1>5, <1>6 DEF FacadeInv

LEMMA FacadeStep == FacadeInv /\ [Next]_vars => FacadeInv'
<1> SUFFICES ASSUME FacadeInv, [Next]_vars PROVE FacadeInv'
  OBVIOUS
<1>1. PartTypes' /\ CallTypes' /\ RoomOK' /\ LedgerOK'
  BY PartTypesStep, CallTypesStep, RoomStep, LedgerStep DEF FacadeInv
<1>2. WalkTypes' /\ \A t \in Threads : WalkOK(t)'
  BY WalkTypesStep, WalkStep DEF FacadeInv
<1>3. EffectsOK' /\ CyclesOK' /\ BreachAtRestWasAlerted'
  BY EffectsStep, CyclesStep, BreachStep DEF FacadeInv
<1> QED
  BY <1>1, <1>2, <1>3 DEF FacadeInv

LEMMA FacadeInvariant == Spec => []FacadeInv
BY FacadeInit, FacadeStep, PTL DEF Spec

(* The façade keeps its types for any number of threads and calls, and calls that
   overlap never outgrow the bound of the ledger that each of them looked at. *)
THEOREM FacadeTypes == Spec => []TypeOK
<1>1. FacadeInv => TypeOK
  <2> HAVE FacadeInv
  <2>1. Len(entries) = Len(appended) /\ Len(entries) <= MaxEntries
    BY FS_CardinalityType, FacadeAssumption
       DEF FacadeInv, RoomOK, LedgerOK, LedgerTypes
  <2>2. \A i \in DOMAIN appended : appended[i].content \in Content
    BY DEF FacadeInv, LedgerOK, LedgerTypes
  <2>3. \A i \in DOMAIN window : window[i] \in Readings
    BY DEF FacadeInv, PartTypes
  <2> QED
    BY <2>1, <2>2, <2>3
       DEF FacadeInv, TypeOK, PartTypes, CallTypes, WalkTypes, LedgerOK, LedgerTypes, Labels,
           WalkLabels, Jobs
<1> QED
  BY <1>1, FacadeInvariant, PTL

(* The ledger tells what became of every memory and alert whose calls have returned,
   although each record follows its effect with nothing around the two. *)
THEOREM EffectsAreTold == Spec => []LedgerTellsEffects
<1>1. FacadeInv => LedgerTellsEffects
  <2> HAVE FacadeInv
  <2>1. /\ EffectsOK /\ memory \subseteq used /\ LedgerTypes
    BY DEF FacadeInv, PartTypes, LedgerOK
  <2>2. ASSUME NEW x, x \notin Auditing, NEW type
        PROVE  Job(type, x) \in Told <=> Recorded(type, x)
    <3>1. Job(type, x) \notin Waiting
      BY <2>2 DEF Waiting, Auditing, Job
    <3>2. Job(type, x) \in Records <=> Recorded(type, x)
      BY <2>1 DEF Records, Recorded, LedgerTypes
    <3> QED
      BY <3>1, <3>2 DEF Told
  <2>3. ASSUME NEW m \in Memories \ (doubt \union Auditing)
        PROVE  m \in memory <=> Recorded("memory_stored", m) /\ ~Recorded("memory_forgotten", m)
    BY <2>1, <2>2 DEF EffectsOK
  <2>4. ASSUME NEW a \in AlertIds \ (doubt \union Auditing)
        PROVE  a \in filed <=> Recorded("alert_raised", a) \/ Recorded("critical_alert_raised", a)
    BY <2>1, <2>2 DEF EffectsOK
  <2> QED
    BY <2>3, <2>4 DEF LedgerTellsEffects
<1> QED
  BY <1>1, FacadeInvariant, PTL

(* When verify_chain says valid, the signature at the end vouches for every entry from which
   an unbroken chain leads to it, whatever was appended or overwritten while it ran, and
   whatever callers write: an entry altered and signed anew, too. *)
THEOREM ValidIsUnaltered == Spec => []ValidMeansUnaltered
<1>1. FacadeInv => ValidMeansUnaltered
  <2> SUFFICES ASSUME FacadeInv, NEW t \in Threads, pc[t] = "valid", size[t] > 0,
                      entries[size[t]].signature = appended[size[t]].signature,
                      NEW i \in 1 .. size[t], Clean(t, i, size[t])
               PROVE  i \notin Altered
    BY DEF ValidMeansUnaltered, Clean
  <2>1. WalkOK(t) /\ size[t] \in Nat
    BY FacadeAssumption DEF FacadeInv, WalkTypes
  <2>2. /\ position[t] = size[t] + 1 /\ position[t] # 1 /\ position[t] - 1 = size[t]
        /\ ReachedOK(t) /\ PassedOK(t)
    BY <2>1 DEF WalkOK, WalkLabels
  <2>3. size[t] \notin overwritten[t]
    BY <2>1 DEF Clean
  <2>4. previous[t] = appended[size[t]].signature
    BY <2>2, <2>3 DEF ReachedOK
  <2> QED
    BY <2>2, <2>4 DEF PassedOK
<1> QED
  BY <1>1, FacadeInvariant, PTL

(* The entry a verification blames, or the one before it, was altered or overwritten while
   it ran, or it was appended to an overwritten signature: appends never cost it its chain. *)
THEOREM BlameIsDeserved == Spec => []BrokenNamesAltered
<1>1. FacadeInv => BrokenNamesAltered
  <2> SUFFICES ASSUME FacadeInv, NEW t \in Threads, pc[t] = "broken",
                      {position[t] - 1, position[t]} \intersect (Altered \union overwritten[t]) = {},
                      position[t] \notin offChain
               PROVE  FALSE
    BY DEF BrokenNamesAltered
  <2> DEFINE p == position[t]
  <2>1. /\ WalkOK(t) /\ LedgerOK /\ size[t] \in Nat /\ Len(appended) \in Nat
        /\ p \notin Altered /\ p \notin overwritten[t]
        /\ p - 1 \notin Altered /\ p - 1 \notin overwritten[t]
    BY FacadeAssumption DEF FacadeInv, WalkTypes, LedgerOK, LedgerTypes
  <2>2. /\ p \in 1 .. size[t] /\ size[t] <= Len(appended)
        /\ ReachedOK(t) /\ RoundOK(t)
    BY <2>1 DEF WalkOK, WalkLabels
  <2>3. p \in 1 .. Len(appended) /\ (p # 1 => p - 1 \in 1 .. Len(appended))
    BY <2>1, <2>2
  <2>4. entries[p] = appended[p] /\ (p # 1 => entries[p - 1] = appended[p - 1])
    BY <2>1, <2>3, AlteredFacts DEF LedgerOK
  <2>5. previous[t] = appended[p].previous
    BY <2>1, <2>2, <2>3, <2>4 DEF ReachedOK, LedgerOK, AppendedOK
  <2>6. entries[p].signature = Append(previous[t], entries[p].content)
    BY <2>1, <2>3, <2>4, <2>5 DEF LedgerOK, AppendedOK
  <2> QED
    BY <2>1, <2>2, <2>4, <2>5, <2>6 DEF RoundOK
<1> QED
  BY <1>1, FacadeInvariant, PTL

(* With any number of publishers and any window, a breach that is there when nobody is
   evaluating has been reported. *)
THEOREM BreachIsAlerted == Spec => []BreachAtRestWasAlerted
<1>1. FacadeInv => BreachAtRestWasAlerted
  BY DEF FacadeInv
<1> QED
  BY <1>1, FacadeInvariant, PTL

(* However cycles overlap, the number of the newest is on record when none is under way,
   unless one has raised. *)
THEOREM NewestIsRecorded == Spec => []NewestCycleIsRecorded
<1>1. FacadeInv => NewestCycleIsRecorded
  <2> SUFFICES ASSUME FacadeInv, \A t \in Threads : pc[t] # "cycle", cycleCount \notin Auditing,
                      ~failed, cycleCount > 0
               PROVE  Recorded("mape_cycle_complete", cycleCount)
    BY DEF NewestCycleIsRecorded
  <2>1. Job("mape_cycle_complete", cycleCount) \in Told /\ LedgerTypes
    BY DEF FacadeInv, CyclesOK, LedgerOK
  <2>2. Job("mape_cycle_complete", cycleCount) \notin Waiting
    BY DEF Waiting, Auditing, Job
  <2> QED
    BY <2>1, <2>2 DEF Told, Records, Recorded, LedgerTypes
<1> QED
  BY <1>1, FacadeInvariant, PTL
=============================================================================
