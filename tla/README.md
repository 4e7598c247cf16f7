# APEX Life OS in TLA+

TLA+ models of the program under `src/apex`, the TLC runs that check small
instances of them, and theorems that TLAPS checks for every value of the
constants. `PROJECT.json` lists the runs, the theorems, the hazards each property
is aimed at, and for every definition the lines of code it stands for.

APEX is a library. It starts no thread of its own: the host process calls an
`ApexSystem` (or one of its parts) from as many threads as it likes, gives it
callbacks, and polls it. So the behaviours that are hard to test are all of one
kind: *calls of several threads that overlap, cut wherever the code does not hold
a lock*, with callbacks of the host that answer, refuse or raise in between.

## 1. The system

| Part | State | Operations | Talks to |
|---|---|---|---|
| `alerts/system.py` | `_pending` (dict), `_receipts`, `_frozen`; per request `approved`, `resolved_at`, an `Event` | `raise_alert`, `raise_integrity_alert`, `raise_verification_alert`, `respond`, `process_timeouts`, `unfreeze`, `PendingApproval.wait` | channels; `on_freeze` of the host |
| `alerts/channels.py` | the handlers | `dispatch`: voice (L4), push, SMS if push failed, e-mail | handlers of the host |
| `orchestration/orchestrator.py` | `_call_stack` shared by all calls, policies | `decide`, policy registration, arbitration | selector, verification pipeline, knowledge base |
| `orchestration/selector.py` | four thresholds | `select` (pure) | |
| `mape/monitor.py` | event log, bus, detector windows | `publish`, `get_events`, detectors | `on_anomaly` of the host |
| `mape/analyzer.py` | rules | `add_rule`, `analyze` (pure) | |
| `mape/planner.py` | none | `plan` (pure) | risk scorer |
| `mape/executor.py` | `_executed` | `execute`: gate, shadow, canary, rollback, store | hooks of the host, knowledge base |
| `mape/loop.py` | `_last_report` | `run_cycle` | the four above; `on_plan_generated` of the host |
| `thresholds/risk_scorer.py` | weights | `score`, `threshold_level` (pure) | |
| `thresholds/engine.py` | `_last_oversight_contact`, `_dead_man_active` | `heartbeat`, `check_dead_man_switch`, `evaluate`, `bulk_evaluate` | alert callbacks |
| `thresholds/calibration.py` | none | `review` of the adaptation history (pure) | knowledge base |
| `governance/audit.py` | `_entries`, a hash chain | `append`, `read`, `verify_chain` | callers keep what `read` returns and what payloads hold |
| `governance/constraints.py` | hard constraints, soft policies | registration, look-ups, a keyword check | |
| `core/knowledge_base.py` | world context (policy weights), adaptation history, decision records, ... | dictionary operations under one lock | |
| `core/causal.py` | recorded outcomes | estimates (pure) | |
| `neuro_symbolic/symbolic.py` | active and pending rules | `register_rule`, `activate_learned_rule`, `verify` | predicates of the host |
| `neuro_symbolic/verifier.py` | records | `run`: propose, verify, retry | neural subsystem |
| `memory/builtin.py` | `MEMORY.md`, `USER.md` | `remember`, `recall`, `search`, `forget` | the file system |
| `memory/registry.py`, `provider.py` | names of factories | look-ups | |
| `system.py` | `_cycle_count`, one of each of the above | `publish_metric`, `run_cycle`, helpers | everything |

What makes each part correct, and which of it a unit test would hardly reach:

* **Alert system.** Nothing that needs a human (L3, L4) is approved without one,
  however sweeps, answers and late answers interleave; a woken waiter finds a
  decision; a sweep spares what was decided before it began; an L4 alert has
  frozen the system when its caller gets control back, exception or not; every
  request is decided in the end.
* **Channels.** An alert is attempted on every channel it should be, and no
  receipt is lost when two threads raise at once.
* **Orchestrator.** The shared stack accounts for the calls in flight, and the
  most rigorous of them governs.
* **MAPE loop.** What is enacted had the consent it needs; the executor and the
  knowledge base agree; a cycle accounts for every plan; no breach in the log is
  missed.
* **Threshold engine.** The latched flag has a reason; a silence suspends L2+
  changes although the flag is read before a callback and used after it; nothing
  is suspended without a silence.
* **Façade.** Its parts together keep what the documentation promises of the
  dead-man switch; what became of memories, alerts and cycles is in the ledger,
  although each record follows its effect with no lock around both; a breach the
  detector's window shows at rest was reported.
* **Memory.** What `remember` returned stays in its file until it is forgotten,
  across failed system calls and restarts; `forget` leaves no copy; `recall`, which
  reads two files, misses nothing.
* **Verification pipeline.** A verified answer breaks no hard rule that was in force
  while it was verified, although rules are replaced meanwhile; a record names every
  rule, and is that of the last answer; a run gives up after the last retry and not
  before.
* **Ledger.** Its entries can be assigned to, its hash takes no key and `verify_chain`
  reads live entries, so that what a verification tells needs saying. Called valid, it
  vouches for what leads to a signature that is as it was appended; a broken chain is
  blamed on an entry that was altered or on the one behind it; and appending never
  breaks a chain.
* **Arbitration.** Each conflict of the policies a call has read is answered once; no hard
  constraint loses to a soft policy, and of two the earlier wins; two
  weights that are read one after the other decide as if they were read at once.
* **Calibration.** Advice to relax a gate rests on changes a human consented to.

`PROJECT.json` lists under `hazards` each place where this can go wrong, with the
properties that watch it.

## 2. The modules

```
ApexTypes ---- AlertChannels
    |              |
    |          AlertSystem ---refines---> Approvals
    |              |- MCAlertSystem          (AlertRaces, AlertLiveness, AlertVeto)
    |              '- AlertSystemProofs
    |- PathSelector - Orchestrator
    |              '- MCOrchestrator         (OrchestratorGovernance)
    |- RiskScorer - Planner ------.
    |     |         Analyzer -----+- MAPELoop
    |     |-------- Calibration --'   |- MCMAPELoop     (MapeCycles, MapeOffered)
    |     |                           '- MAPELoopProofs - AnalysisProofs (Analyzer, Planner)
    |     '------- ThresholdEngine
    |              |- MCThresholdEngine      (DeadManSwitch)
    |              '- ThresholdEngineProofs
    |- ApexSystem = MAPELoop + ThresholdEngine
    |              '- MCApexSystem           (ApexDeadMan)
    '- VerificationPipeline
                   |- MCVerificationPipeline (Verification)
                   '- VerificationPipelineProofs
Arbitration
    '- DecisionOrchestrator = Orchestrator + Arbitration
                   |- MCDecisionOrchestrator (OrchestratorCalls)
                   '- DecisionOrchestratorProofs
Ordering: the order of clusters and of plans, for Analyzer and Planner
AuditLedger - ApexFacade
                   |- MCApexFacade           (Facade)
                   '- ApexFacadeProofs
BuiltinMemory
                   |- MCBuiltinMemory        (MemoryFiles)
                   '- BuiltinMemoryProofs
```

How the models cut the code is the same everywhere. A thread executes one call at
a time and `pc` says where in it it is. One action is what runs between two
points where another thread can come in and matter: a `with self._lock:` block is
one action, a callback of the host is one action, and an unlocked read or write
of shared state is one action. Statements that touch only locals are part of the
action before or after them. Where the code does not lock, no action pretends it
does.

**AlertSystem.** `BuildAlert` makes a payload (its deadline is `now` plus
`_TIMEOUT_WINDOWS`), `InsertPending` files it under the lock, `DispatchAlert`
rings the channels outside it, `RecordReceipts` takes the lock again, and an L4
alert goes on with `TriggerFreeze` and `OnFreeze`, which may raise.
`Respond` looks a request up and then runs `approve()` or `deny()` in its three
statements, `SetApproved`, `SetResolvedAt`, `SetEvent`: no lock is held, so that
two verdicts can mix. `process_timeouts` reads the time (`ProcessTimeouts`),
copies the dictionary (`SnapshotPending`), tests one request after the other
(`SweepItem`) and uses the same three statements to decide it. `Wait`,
`WaitReturnsTrue`, `WaitTimesOut` and `ReadDecision` are a host thread on the
`Event`. **AlertChannels** is `dispatch` as a function of which handlers succeed;
a handler that is missing, fails or raises gives the same receipt.

**Approvals** is what the above promises, with no threads in it: requests are
opened once and never withdrawn, and a verdict is one a human gave or, after the
window, the default of the level.

**Orchestrator** is `decide`: `Decide` selects the path, `Push` appends to the
shared stack and computes the governing path under the lock, the pipeline runs
unlocked and `Pop` takes the last entry off. `PipelineRaises` is the exit by an
exception, for which the code has no `finally`. **PathSelector** is `select`.

**Arbitration** is the orchestrator's other half. `RegisterPolicy` stores a policy
under its id, in place of the one that had it. `DetectConflicts` reads the policies
under the lock and pairs those of one priority; what follows is unlocked.
`arbitrate` settles a conflict by a hard constraint (`ArbitrateHard`) or reads one
weight (`ReadWeightA`) and then the other (`ReadWeightB`) from the knowledge base,
where `SetWorldContext` is anybody's write; a tie goes to `Escalate`, and the host's
callback may raise (`EscalationRaises`), which loses what the call had resolved. The
third rule in the header of `orchestrator.py`, historical outcomes, has no code and
so no action; two hard constraints of one priority are settled for the first of them,
silently. **DecisionOrchestrator** runs `decide` and arbitration side by side: the
lock is around single steps of either.

**RiskScorer**, **Analyzer** and **Planner** are the pure parts of the loop, in
integers: weights and components are in hundredths, a score in ten-thousandths,
which are the digits the code rounds to. The order of clusters (by the first
firing of a key), the severity of a key (by its *last* firing) and the order of
plans (by utility, then as they came) are those of the code. **Ordering** says what
a dictionary's iteration and `list.sort` leave: the thing at place *k* is the one that
*k* - 1 others come before. It picks no permutation and folds over no list, so that it
can be reasoned about. **Calibration** is
`review`: the levels of the adaptation history with enough executions, and which of
them it advises to tighten (autonomous, too many rollbacks) or relax (gated, hardly
any); tolerances are compared without the division.

**MAPELoop** is the loop with its monitor, executor and the façade's
`publish_metric` and `run_cycle` around it: `Publish`, `NotifySubscribers`,
`AuditMetric`; `BeginCycle`, `GetEvents`, `AnalyzeAndPlan`, then for each plan
`ApproveByDefault` or `AskForApproval`, `Block`, `Rollout` or `RolloutRaises`,
`StoreResult`, `RecordAdaptation`; at last `ReadCycleCount` and `AuditCycle`.
The two halves of `Executor._store` are two actions, since only the second takes
a lock.

**ThresholdEngine** is `evaluate` cut at its locked read of the switch and at the
alert callback, with `Heartbeat`, `CheckDeadManSwitch` and the clock.

**ApexSystem** puts a loop and an engine side by side, as `ApexSystem.__init__`
does. They share no variable because in the code nobody hands the engine to the
loop; that is what its run is about.

**ApexFacade** is `ApexSystem` as its callers see it: `Remember`, `ForgetMemory`,
`PublishMetric`, `RunCycle`, `HandleL3` and `HandleL4` each have their effect on one
part, whole, and then `Audit` appends the record; an effect that raises (`Raise`)
leaves none. The parts are here what a caller can tell of them: the ids a provider
holds, the alerts that are filed, the number of cycles. The detector is not
abstracted: `Observe` appends a reading to its window, `EvaluateWindow` averages
whatever is in it by then and calls `on_anomaly`. `verify_audit_chain` copies the list
under the lock (`VerifyChain`) and walks the live entries outside it, with an action
for each read of an entry: of what it says and its signature's expected value
(`VerifyContent`), of its signature (`VerifySignature`), of its `previous_hash`
(`VerifyPrevious`), of its signature once more (`VerifyNext`); `ChainValid` and
`ReturnVerdict` end the call. `HostOverwrites` is a caller that assigns to one field of an
entry it got from `read`, or changes a list its payload shares (the report's list of
targets that `run_cycle` returns is the one in the ledger): the content, either hash to
one that is in the ledger, or the signature to the one that fits the entry, since
anybody can compute it. **AuditLedger** has the entries and
the signature, which stands for the sequence of contents that was hashed: equal
signatures, equal contents. Its histories say what was appended, and which entries were
appended to a signature that had been overwritten (`offChain`).

**BuiltinMemory** is the file-backed provider. All its operations hold one lock, so
what matters is where they can be *cut*: each system call is an action (`Create`,
`AppendEntry`, `Truncate`, `Rewrite`: opening a file for writing truncates it, closing
it writes). At each, `Raises` lets the call fail, and `Crash` ends the process and
starts a new one on the same files. `remember` is `Remember` to `ReturnEntry`,
`forget` is `Forget` to `ReturnForgotten` or `NotFound`, `recall` is `Recall` to
`ReturnEntries`; `search` is a recall whose list is filtered after the lock is
released. A file is a bag: how many lines each entry has in it. The history variable
`safe` holds what a client may count on.

**VerificationPipeline** is `SymbolicSubsystem` and `VerificationPipeline.run`, which
have no lock at all. A dictionary is the sequence of its rules in the order of their
ids, so that storing a known id replaces a rule in its place and a new one lengthens
the sequence. `Predict` asks the model and begins a verification (`BeginVerify`), `EvaluateRule` is one
round of its loop (the predicate is the host's code), `Grown` is Python's check that
a dictionary has not changed its size under an iterator, `Verified` and `Refuted` are
the two verdicts, and `StoreRecord` ends the run, or `RunRaises` does.
`activate_learned_rule` is three steps: `ActivateLearnedRule`, `PopPending` and
`ActivatePopped`. A predicate is the set of contents on which it returns `False` or
raises; the text that `verify` adds to the id of a rule that raised is left out. The
history variable `standing` holds the hard rules nobody has replaced since a
verification began, `refutations` counts the refuted answers of a run.

## 3. The runs

| Run | Question | Answer |
|---|---|---|
| `alert_races` | Two clients and a poller race over one request: are the gate, the wake-up, the sweep and the freeze right, and is each step one that `Approvals` allows? Is each of two alerts raised at once attempted where it should be? | yes |
| `alert_liveness` | With a host that polls, is every request decided, and does every L4 alert freeze? | yes |
| `alert_veto` | Does an L2 veto that is on record stay one? | **no**, see 6 |
| `orchestrator_calls` | Do overlapping calls, one of which raises, keep the stack accountable? Beside them, are conflicts, of hard policies too, answered while policies and weights change? | yes |
| `orchestrator_governance` | Does the most rigorous call in flight govern? | **no**, see 6 |
| `mape_cycles` | Two overlapping cycles, or publications around and during one, refusals and exceptions: consent, stores, records, breaches, and the advice a review would give at any time? | yes |
| `mape_offered` | Is every plan shown to `on_plan_generated` before it is enacted? | **no**, see 6 |
| `dead_man_switch` | Evaluations, checks and heartbeats race with the clock: is the flag honest and a silence respected? | yes |
| `facade` | Records follow effects: does the ledger tell them? Entries are overwritten and signed anew while the chain is walked: what does its verdict tell? Is a breach at rest reported? | yes |
| `memory_files` | Do failing system calls, restarts and retries cost entries, leave copies or hide entries from a recall? | only what a cut rewrite loses |
| `verification` | Two threads verify, register and activate rules that share ids: are verdict, record and retries right? | yes |
| `apex_dead_man` | As `ApexSystem` wires the parts, does the switch suspend L2+ adaptations? | **no**, see 6 |

### Bounds, and why they are enough

* `alert_races`: one alert, because requests share nothing but the dictionary, the list
  of receipts and each request's three statements; two clients and a poller, because the
  interesting mix is of two writers of one verdict and a third thread that reads
  it. Windows of one tick and a clock of two: an alert raised at time 0 or at
  time 1 expires within the run, before, during or after every other step. For the
  receipts two clients raise two alerts at once, of any levels, and push may deliver or
  fail; the state constraint `OneUndeliveredOrUnanswered` follows those behaviours, of
  two alerts or of a delivered one, up to the first answer, wait or tick of the clock.
* `alert_liveness`: one client and a poller, since fairness is about each of them
  alone; here the push and voice handlers may succeed or fail at each call and the
  others always fail.
* `orchestrator_governance`: three threads are the fewest for which a pop can take the
  entry of a call in flight while another enters. The six contexts take each
  branch of `select`, at its boundaries.
* `orchestrator_calls`: two calls and two contexts, of the lowest and the
  highest rigor, since counting does not need a third call; one call may raise
  (`MaxLeaks`). One arbiter, as arbiters share nothing but what others write;
  two policies of one priority, each of them hard or soft and replaced by the
  other kind at any time, so that a conflict is of two soft ones, of two hard ones and of one of
  each in both orders; and two weights, so that every comparison and every change of it
  happens.
* `facade`: two threads, since what is to be caught lies between one thread's effect
  and its record; one memory and one alert, as their ids never meet; three records,
  so that an entry has one before and one behind it; one thread that verifies
  (`Verifiers`), as verifications only read; two assignments to fields (`MaxOverwrites`),
  so that an entry is altered and signed anew, two entries are altered, or one is altered and put
  back, at any time; of the records of cycles (`Shared`), which are the ones whose
  payloads callers are handed and of which there can be two; a window of two readings, low or high, with both thresholds in
  between; two cycles, so that they overlap; one call that raises.
* `mape_cycles`: two threads, two cycles with one publication or one cycle with two
  (`OneEventOrOneCycle`, a state constraint), so that a breach is in the log when a
  cycle begins and another is published before the cycle reads or analyses it, and
  perhaps an anomaly: two or three clusters, and so two plans, a cycle, of different severities. `CautiousWeights` are weights a
  host may choose; under them a `meso` plan is L3 and a `macro` one L4, so that the
  gates are reached (with the defaults they never are, see 5). The metric pairs
  lie on the limit of a rollback and beyond it. `MinSamples` is two, so that two
  cycles can yield advice of both kinds.
* `dead_man_switch`: a timeout of one tick and a clock of five: two silences with
  a contact in between. The eight risks are the two sides of each boundary.
* `memory_files`: two entries in one file, so that forgetting one rewrites the
  other, and a third in the second file; up to two lines of an entry a file
  (`MaxCopies`), so that a retried `remember` can store it twice. A write is taken to
  reach the file in one system call, as it does up to the size of Python's buffer.
* `verification`: two ids, one of which a hard, a soft and a learned rule share, so
  that a rule is replaced by each other kind, in front of and behind the place where a
  verification stands; one retry, so that a run has a first and a last answer;
  two records, so that both threads run the pipeline at once.
* Clocks, counters of cycles, events and raising calls stop at `MaxClock`,
  `MaxCycles`, `MaxEvents`, `MaxLeaks` and `MaxRaises`, lines of an entry at
  `MaxCopies`, the ledger at `MaxEntries`, assignments to its entries at `MaxOverwrites`,
  decision records at about `MaxRecords` (runs that began with room may still store
  theirs). A run that ends because of such a bound
  says `CHECK_DEADLOCK FALSE`; no other does.

Threads and alerts are interchangeable in the runs that declare symmetry; the
liveness run declares none, nor does `facade`, whose threads differ.

### Fairness

Only `alert_liveness` needs it. `WF(Continue(t))`: a thread inside a call goes on,
since no call of the library waits for another one (a wait has a timeout, and a
lock is held for a few statements only). `WF(Tick)`: the clock runs.
`WF(ProcessTimeouts(t))` for the threads in `Pollers`: **the host polls**. The
code itself schedules nothing; without such a host an unanswered request
stays open for ever, and the property would be false. Nobody is assumed to
answer, to wait or to raise.

## 4. What is assumed of the world

* The wall clock does not step back. (`datetime.now` is not monotonic; a clock set
  back would delay sweeps and the switch.)
* CPython's dictionary and list operations are atomic, and `list(d.values())` under
  the lock is a snapshot.
* Callbacks of the host return or raise; they do not block for ever and do not call
  back into the same part.
* `add_rule`, weights and thresholds are configuration: they do not change while
  calls run.
* `uuid4` never repeats.
* Events and alerts are the records their dataclasses declare, and a source has no
  colon in it: the analyzer joins source and metric with one and splits there again.
* One memory provider works on a directory, and nobody edits its files while a
  `forget` runs. (With two, or an editor, each overwrites what the other wrote;
  `PROJECT.json` lists it as a hazard no property covers.)

## 5. What is proved

TLAPS checks these for every set of threads, alerts, contexts, policies, entries,
every window, timeout, weight and bound, from the assumptions on constants that the
modules state and nothing else. Each is proved from an inductive invariant: the
property alone is not one, since it says nothing of what a thread is *about* to do.

* **AlertSystemProofs**: `AlertTypes`, `HumanGate`, `WokenSeesVerdict`,
  `SweepRaceIsConfined`, `CriticalFreezes`, `AttemptsAreKept`, `KeepsPromise`.
  `HumanGate` needs that whatever a thread is about to write is justified: a
  verdict in `setApproved` or later is one that was said, or the default of the
  level in a sweep (`GateInv`). `WokenSeesVerdict` needs that a thread past
  `SetApproved` has left a verdict behind and one past `SetResolvedAt` a time, and
  that a verdict once set is never unset (`DecisionInv`). `SweepRaceIsConfined`
  needs that what a sweep spares is decided and stays so. `CriticalFreezes` needs
  that a thread past `TriggerFreeze` has frozen the system unless someone has
  unfrozen it, and that no two threads raise the same alert (`FreezeInv`).
  `AttemptsAreKept` follows the receipts from the thread that holds them to the list
  they are added to under the lock (`AttemptInv`), from a lemma on which channels
  `Dispatch` tries.
  `KeepsPromise` is the refinement `Spec => ApprovalPromise`: only filed requests are
  answered or swept, each is filed once, and a verdict about to be written is a
  human's or, with the window over, the default of the level (`PromiseInv`). With
  that, `InsertPending` is an `Open`, `SetApproved` a `Decide`, and every other step
  leaves what `Approvals` sees alone.
* **DecisionOrchestratorProofs**, of `decide`: `OrchestratorTypes`, `StackAccounted`,
  `LoneCallGoverned`. The stack's length equals the calls in flight plus the leaked
  ones, by counting: each action changes both sides alike. With it, a call that enters
  alone before any leak finds an empty stack, and the rigor of a one-entry stack
  is its own. Of arbitration: `ArbitrationTypes`, `ConflictsAreAnswered`,
  `WeightsAreCompared`. What a call has resolved and what it has still to resolve are
  the conflicts of the list it was given, each on one side only (`AnswersOK`), from a
  lemma on how registering a policy keeps ids distinct. It speaks of the policies the
  call has read: one made hard after that counts as soft in this call. A thread between two reads knows
  the first weight as it was unless it was written since, and how the two compared is
  among what was true in between (`WeighingOK`). Of the two side by side:
  `CallsDoNotInterfere`, that the composed specification implements either (a step is a
  step of one and a stutter of the other), and with it `OrchestratorGoverns`, that all
  six invariants hold of `OrchestratorSpec`, which is what the run checks.
* **ThresholdEngineProofs**: `EngineTypes`, `FlagIsHonest`, `SilenceBlocks`,
  `SuspensionHasCause`. The invariant adds what an evaluation under way has seen
  (`EvaluationInv`): a silence that began before it and was not broken is
  still there at its read of the switch, so it reads TRUE; and a flag it read as
  TRUE had a silence behind it.
* **AnalysisProofs**, of the pure parts of the loop, for every log, rules, alerts and
  weights. A strict order on a finite set gives each member a place of its own, found by
  counting those before it (`OrderIsComplete`; the least counterexample is excluded by
  well-foundedness of the naturals), and that is used twice, of the order in which
  firings enter the dictionary and of the order of plans. `OneClusterPerCause`: a breach
  has its cause named by one cluster, although `fired` and `rule_meta` are filled firing
  by firing. `ReportsAreComplete`: a report names each breach and each alert and is no
  milder than any of its clusters. `PlansAreRanked`: the plans are those of the clusters,
  one for each, by falling utility and stable; utilities are compared without division, so
  the lemma is that such a comparison is transitive (`RatioTransitive`).
  `WorseIsNoSafer`: with weights that are not negative, the score, and with it the need
  for a human, grows in each of its five inputs. Of severity nothing like it holds: a
  graver cluster has a smaller confidence deficit, so that with the default weights a
  warning scores below an informational one.
  `DefaultPlannerAsksNobody`: with the default weights no
  cluster an analysis can yield scores 6000 or more. The worst is a catastrophic
  one with a candidate cause; blast radius is always two and `affects_safety`
  always false. So in the default façade `requires_human_approval` is never set,
  and neither the loop's callback nor the executor's gate is ever reached.
* **MAPELoopProofs**: `LoopTypes`, `BreachesAreReported` and `PlansNeedNobody` rest on
  what a thread has at hand in a cycle (`CallsInv`): the log is only appended to, so that
  what a cycle read agrees with the log up to where the log ended when the cycle began,
  and from the analysis on its report names every breach there (`ReadOK`, with
  `ReportsAreComplete`); its plans are plans of clusters of that report, and a result at
  its hand is one of them (`TypedOK`, with `PlansAreRanked`).
  `OutcomesAgree`, `ConsentGoverns`, `PlansAreAccountedFor` and `AdviceRestsOnConsent`
  need that no two cycles under way have the same number, so that the plans and
  results at a thread's hand are its own cycle's, consent is to the very plan it
  executes, and an executed result that is not in the knowledge base is at the hand of
  the thread that will record it (`LoopInv`). The advice then follows by counting:
  results of different plans that were enacted are as many different consents.
* **ApexFacadeProofs**: `FacadeTypes`, `EffectsAreTold`, `ValidIsUnaltered`,
  `BlameIsDeserved`, `BreachIsAlerted`, `NewestIsRecorded`. Every effect is on
  record, in the hands of the thread that is about to record it, or in doubt because
  a call on it raised (`EffectsOK`, `CyclesOK`); calls looked for room before they began and still have
  it (`RoomOK`). An entry's signature, as appended, is that of
  its own content and of what it was linked to, and equal signatures sign equal contents
  (`SignatureTells`); histories agree with what is in the ledger (`LedgerOK`). What a
  verification has passed and nobody has overwritten since is linked up as it found it,
  and what it expects of the entry it is at is what it read of it, unless that was
  overwritten under it (`WalkOK`). From the last signature backwards, each entry that was
  appended to a genuine signature then has the contents it was appended with; and an
  entry whose neighbours are untouched is never blamed.
* **VerificationPipelineProofs**: `PipelineTypes`, `VerifiedObeysRules`,
  `RecordIsComplete`, `GivesUpLast`. The invariant follows a verification through the
  dictionary: the ids it has filed are those of the rules up to its position, and
  they are still there since rules are replaced in place (`WalkInv`); a hard rule that
  still stands is where it was, and once passed it has set `hard_violation` if the
  content breaks it (`StandingInv`); attempts and refutations count alike
  (`RetryInv`). The lemma `StoreRule`, for `register_rule` and `activate_learned_rule`
  alike, is where the argument is: keys are unique, so a standing rule has one place.
* **BuiltinMemoryProofs**: `MemoryTypes`, `RememberedIsStored`, `ForgottenIsGone`,
  `RecallIsComplete`. Whoever is inside a call holds the lock, so that one call at most
  is cut at a time (`WorkOK`); the lines a forget is about to write are those of its
  file without the entry, and no other file holds the entry (`ForgetOK`); an entry is in the file of its
  own scope only (`StoreOK`), which is why a forget may stop at the first hit.

Only model-checked: the two liveness properties, `EveryRequestDecided` and
`CriticalAlertLeadsToFreeze`, which are out of the prover's reach under fairness. Every
invariant a passing run checks, and the refinement of `Approvals`, is a theorem. The
four runs of section 6 refute their property, so there is nothing to prove. That
`ApexSystem` keeps the invariants of its loop and its engine is not stated as a theorem:
it instantiates both, and they share no variable.

## 6. Where the code and its documentation disagree

* **A veto can be overwritten** (`alert_veto`). `alerts/system.py:12`: "auto-approve
  if no veto". `process_timeouts` tests `approved is not None` and then calls
  `approve()`, with no lock around the two; a `deny()` that completes in between
  is replaced, and the L2 change ends up approved.
* **The rigor of a call in flight can be lost** (`orchestrator_governance`).
  `orchestration/orchestrator.py:153`: "highest-rigor path in call stack governs
  approval". `decide` pops the *last* entry, whoever pushed it.
* **Plans are enacted without being offered** (`mape_offered`). `mape/loop.py:37`:
  "invoked with each generated plan before execution". Only plans that need approval
  are; with the default weights, none.
* **The dead-man switch suspends nothing** (`apex_dead_man`). `README.md:138` and
  `thresholds/engine.py:16`: "all L2+ evolutions are suspended". The engine is
  built and given to nobody; the loop never asks it.

Two more have no run of their own, since a property that passes already says what holds
instead:

* **A valid chain is not an untouched one.** `README.md:204` and
  `governance/audit.py:50`: "detects any tampering". The hash takes no key and entries
  can be assigned to, so that the last entry can be altered and signed anew, and what is
  then appended links to the new signature. `ValidMeansUnaltered` says what is left: given
  that the last signature is as it was appended, which a caller must know from elsewhere.
* **Push and SMS ring for L2, too.** `README.md:147-148` and `alerts/channels.py:5-6` use
  push for L3 and SMS as a fallback for L3 and L4; `dispatch` looks at neither level.
  `AlertWasAttempted` asks for what the documents promise and no more.

## 7. What is not modelled

`PROJECT.json` has each part with its status and its reason. In short:

* *Safety constraints, causal model, the registry of memory backends, and the stores of
  the knowledge base that nothing reads*: each operation is one block under one lock
  on one dictionary, nothing else in the program calls it, and what it returns is a
  search for words or a mean. There is no second step to come out of order.
* *Cryptography*: that two contents have different hashes is assumed, and a caller who
  rewrites an entry and every one behind it is not followed in the run, which has two assignments; the
  theorem allows any number.
* *Validation by pydantic and the wording* of receipts, rationales, conflicts, reports
  and refutations.
* *Of calibration*: the boundaries it proposes and its texts. Which levels it
  advises on, and which way, is modelled.
* *Of the memory*: how an entry is spelled as a line (a fact with a line break is read
  back as something else), the order of the lines, and two providers on one
  directory; the last would need the files as bytes with an offset for each open
  handle.
* *Of a plan*: its simulations. Of a cluster: its signals, whose only effect, a blast
  radius of two components, is kept.
* *`add_rule`, `add_detector`, `subscribe` and the setters of thresholds and weights*
  while calls run: the code treats them as configuration.

## 8. What could come next

* `Orchestrator` composed with `VerificationPipeline`, whose exceptions (of the model,
  of a dictionary that grew) are then those that leave an entry on the call stack.
* `core/types.py:62` calls hard constraints "immutable", while a learned rule may be
  activated under the id of a hard one: the run `verification` replaces rules in that way, and
  its properties are about the rules that stand. Whether a replacement was meant
  is for the authors to say.
* The façade with `AlertSystem` and `MAPELoop` in full, where it now has of both what a
  caller can tell.
* A rollback with a zero or a negative baseline (`mape/executor.py:136`): the code's
  answer is modelled; the documentation does not say what it should be.

No module declares a `RECURSIVE` operator, each operation is an action of its own,
and constants carry only the assumptions the code justifies, so that further
theorems can build on the modules as they are.
