# Verification of spor's execution core

spor runs coding agents over a graph of work items. A worker process takes an
item, has an agent implement it, has gates judge the result, integrates it and
records the completion. Several workers, on several machines, compete for the
items; any of them may crash at any moment; the record of what happened must
survive that. This project models the part of the code that carries this
promise: the file lock, the execution record and its store, the outbox towards
a server, the replayed stage workflows, what the gate and the integration stage
decide, the write of the completion, the dispatch of a run and the work loop
around them, and the spool of background findings. Modules are checked with TLC on small
instances; what matters most about eight of them is also proved with TLAPS, for every
instance.

Contents: 1 inventory, 2 modules, 3 runs, 4 fairness, 5 proofs, 6 observations,
7 what is not modelled, 8 plan.

## 1. Inventory

| component (source under `src/`) | state | operations | interacts with |
|---|---|---|---|
| local execution lock (`lib/shell/local-execution-lock.js`) | lock, breaker, guard and moved-aside files, each naming its owner process | acquire, release, break a dead holder's lock, clear a dead breaker, sweep leftovers | every store call runs inside it |
| execution reducer (`lib/kernel/execution.js`) | one record: owner and fence, stage, candidate chain, gate verdicts, integration | claim, renew, release, force release, eleven event types | pure; used by the local store and byte for byte by the server |
| local execution store (`lib/shell/execution-store.js`, first half) | per execution an event log and a view, per item a pointer | open, claim, renew, release, force release, event | lock, reducer, reporter |
| ownership check (`withOwnershipCheck`, same file) | what this process lost, the fences it holds and since when | wraps every door of either store; loss is sticky | both stores |
| remote adapter and outbox (same file, second half) | an outbox file per process, a takeover ledger | spool, replay, adopt, forfeit | server, lock |
| execution reporter (`bin/spor.js`) | events the outbox could not take | report, hold, flush, resume | stores |
| workflow kernel (`lib/kernel/workflow.js`) | an append-only journal, its copy in memory | run, now, sleepUntil, yieldUntil, awaitSignal, tombstone | stage driver |
| stage driver and stages (`lib/shell/stage-workflow.js`, `*-workflow.js`) | the drive's definition, re-opens spent | drive, re-open, refuse, settle | kernel, pipeline lease |
| pipeline lease (`lib/shell/agent-dispatch-runner.js`, `stage-projection.js`) | the last lease line of the pipeline log | claim, renew, yield, settle | work loop, stages |
| gate kernel and runner (`lib/kernel/gates.js`, `lib/shell/gate-runner.js`, `gate-workflow.js`, `gate-deps.js`) | saved progress and ledger of each gate and rescue pass, retry pools, the stamp of the last fix | judge, fix, reuse, back off, rescue, escalate | stages, dispatch |
| work loop (`lib/shell/work.js`, `work-loop.js`) | slots, runs followed, gate jobs | select, dispatch, harvest, stop, adopt, drive, settle | everything above |
| dispatch (`lib/shell/dispatch.js`, `preflight.js`, `agent-dispatch-runner.js`) | dispatch and workspace locks, run records, withdrawal debts | plan, lock, launch, refuse, withdraw; close provisionally, verify, reconcile | work loop, supervisors |
| provider attempts (`provider-attempts.js`, `providers/local.js`) | submit keys and handles on the record, attempts followed | submit, resume, adopt, observe | stores, dispatch |
| integration (`integration-workflow.js`, `integration-runner.js`) | target ref, the stage's candidate | build, test, land by compare-and-swap, re-gate | git, gates |
| completion (`lib/kernel/completion.js`, `lib/shell/completion.js`) | the item's hold and status, resolving edges, the record's debt | complete, withdraw, retype, consume | graph, people |
| spools and hook engines (`lib/shell/spool.js`, `scripts/engines/`) | spooled findings, result claims, job locks | claim, drain, sweep | hooks, models |
| graph memory core (`lib/kernel/graph.js`, `queue.js`, ...) | none (pure functions over nodes) | parse, resolve, rank, queue | every command |
| client, auth, configuration, assets, command line | files, tokens | HTTP, file I/O | - |

What is hard here, and so what the properties are about:

- *two processes of one agent*. A restarted worker must take over from its dead
  predecessor at once, so a live second process of the same agent is admitted
  too; only the fence tells them apart.
- *a crash between any two writes*: of the lock's three files, of log, view and
  pointer, of two outbox files, of an activity and its journal line.
- *judged, then acted on by name*: a file is judged dead, then renamed or
  unlinked by path; an owner is read from the server, then files are merged.
- *late and repeated messages*: the answer is lost, the request arrives after
  its sender gave up; events come for a superseded candidate.
- *a pass that starts again*: a gate pass interrupted anywhere resumes from what
  was saved, and must neither trust a verdict of another tree nor forget what it
  spent.
- *people and agents beside the controller*: an item is dropped, resolved or
  released while a controller is between its read and its write.
- *edits under way*: the factory's definition changes, or the client is
  upgraded, while a journal is open.

The full list, each at its line and with the properties that guard it, is under
`hazards` in `PROJECT.json`.

## 2. Modules

| module | models | role |
|---|---|---|
| `LocalLock` | `local-execution-lock.js`, `sweepLockLeftovers` | one label per file system call of `withLocalExecutionLock` and `clearBreaker`; processes die between any two |
| `LocalLockProofs` | | theorems about `LocalLock` |
| `Execution` | `kernel/execution.js` | operators only: what each ownership transition and event asks and does |
| `ExecutionRecord` | | the **abstract specification**: one atomic record, its lease, and worker processes |
| `ExecutionRecordProofs` | | theorems about `ExecutionRecord` |
| `ExecutionStore` | the local engine and the sticky loss | the files of one item, one write per step; shown to implement `ExecutionRecord` |
| `ExecutionStoreProofs` | | theorems about `ExecutionStore`, the refinement among them |
| `RemoteOutbox` | the remote adapter and the sticky loss | outbox files of several processes against a server that follows `ExecutionRecord` |
| `StageWorkflow` | workflow kernel, stage driver, pipeline lease | one stage, several drivers, one journal |
| `GatePipeline` | `gate-workflow.js` (`gatePass`), `gate-deps.js`, the outcomes of `runOneGate` | the gate list of one run over its fix cycles, outages and rescues |
| `ReviewLedger` | the ledger of `kernel/gates.js`, the review branch of `runOneGate` | the findings of one review gate |
| `Landing` | `integration-workflow.js`, `integration-runner.js` | several items landing on one ref |
| `Completion` | `kernel/completion.js`, `shell/completion.js`, the graph doors of `bin/spor.js`, `person-force-release.js` | one item, its executions and people |
| `Dispatch` | `dispatchWorkItem`, `executeDispatch`, `provider-attempts.js`, the local provider, `work-outcome.js` | one item dispatched by the processes of one box |
| `WorkLoop` | `work-loop.js`, the run supervisor, reconcile and harvest of `bin/spor.js` | workers sharing run records and leases |
| `NudgeSpool` | `shell/spool.js`, `engines/spool-drain.js`, the nudge drains of `distill.js`, the spool worker of `util.js` | one classification job |
| `LandingProofs`, `CompletionProofs`, `DispatchProofs`, `WorkLoopProofs`, `NudgeSpoolProofs` | | theorems about the module of that name |
| `MC...` | | values for the constants, symmetry sets |

They meet at their boundaries. `ExecutionStore` implements `ExecutionRecord`, and
`RemoteOutbox`'s server follows it. `LocalLock` justifies the atomic lock step of
`ExecutionStore` and the atomic record writes of `WorkLoop`; `StageWorkflow`
justifies that a pass of `GatePipeline` and a stage of `Landing` are one control
thread whose effects are repeated only at a crash. A drive of `WorkLoop` ends in what
`GatePipeline` reports, and its dispatch is what `Dispatch` takes apart, on a store
that answers as `ExecutionRecord` does; `judged` of `Landing` is what `GatePipeline` passed; a
completion of `Completion` is owed once the gates passed.

How state and actions correspond to the code (line by line under `map`):

**LocalLock.** `lock`, `breaker`, `guard` and `moved[p]` are the four kinds of
files; a file has an owner and says whether the owner was written yet, since the
code creates it exclusively and writes it afterwards. `pc` walks through the
function. Every unlink or rename by name removes whatever stands at the path.
`StartSweep` is `gcExecutions`; that a leftover is "older than 15 minutes" is
left to chance, which includes every real timing.

**Execution.** A record has owner, stage, candidate chain, gate verdicts,
integration and the released flag. `Admits` and `Effect` are the two halves of
`applyByType`; `Accepts` puts terminal, fence and lease in front in the order of
`applyExecutionEvent`; `hist` is `historicalReplay`, under which old journals are
folded. Timestamps, reasons and references are abstracted away; an event's
attempt label is kept because its idempotency key is derived from it.

**ExecutionStore.** A call takes the item lock in one step (justified by
`LocalLock`), decides on what it reads, and queues its writes in `todo`; each
write is a step, a crash or a failed write may stop the rest, and the lock is
free again afterwards. `readRecord` replays the log, as the code does, rather
than trusting the view. `lost` is `FENCED_OUT` together with `LOST_ITEM`.

**RemoteOutbox.** `file[i]` is process i's outbox, `ledger` the takeover ledger,
`grant[i]` is `HELD_FENCE` with `ACQUIRED_AT`, `loss[i]` is `FENCED_OUT` and how far
its forfeit is. One call of a process is under way at a time, except that a
refused renewal (heartbeat) and the forfeit that follows may fall anywhere.
Adoption and hand-back touch several files and are several steps, under the
outbox lock. The server is external: it answers a recorded key first, then
terminal, then the fence, as the reducer does. The clock advances when a grant is
stamped; two readings within one millisecond are not told apart from an order.
Processes that have not claimed yet are interchangeable, so they are numbered in
the order in which they claim (`Outside`).

**StageWorkflow.** The workflow function is the constant `Program`, a sequence of
kernel calls; a run stands at the first call its journal does not answer, so
replay itself is no step. `disk` is the journal file, `mem[d]` the driver's copy.
An append lands, or fails with the line on disk or not (`Persist`), and then the
drive is poisoned and re-opened, at most `MaxReopen` times. `Edit` changes the
definition or the code version between any two steps.

**GatePipeline.** What survives an interruption (`progress` by rescue pass and gate,
`pools`, `rescues`, the stamp on the run record, the checkout, the runs launched)
and the memory of a pass (`pp`, `d`, `pc`) are separate variables; `Leave` and
`Interrupt` forget the second. A head is a number and knows its ancestors. Runs
are launched under a name made of lane, rescue pass, gate, cycle and try, and a
launch under a known name adopts the run, as `dispatchThrough` does. What a gate can
answer is the set `Outcomes`. `passes` and `again` are ghosts for the properties.

**ReviewLedger.** An entry of the ledger has its name, topic, rating, status and the
`prev` snapshot `snapshotBefore` takes; `ApplyReview` folds a reviewer's answer into
it, `RollbackCycle` undoes one on resume. Row texts and notes are left out. A pass
starts from its saved progress, else from the seed of its rescue entry (`Start`, on
a resume and on a rescue). The list of rescues and the progress are saved and read
fail-soft, so a rescue entry can be lost and a later rescue can take up progress of
an earlier pass of its number; the several saves of one entry are one step. `before`
and `owed` are ghosts.

**Landing.** A head is the sequence of its commits, so "contains" is the prefix
relation; the target is the sequence of what landed. The integration lease only
makes races rarer (the code goes on without it) and is left out. `LandUnrecorded` is
the crash after the swap and before the journal line.

**Completion.** One step per call to the graph. `at[t]` is a process with the item as
it read it; the compare-and-swap compares revisions, and edges live on the resolver
node, so writing one does not move the item's revision. `Faults` lets a call fail, be
applied with its reply lost, or the process die. A read of the resolver that fails shows
none (`ReadsOwn`), as `readOwnResolver` has it, and the step that reads goes on with that;
`blind` is a history of such a read by a withdrawal. Whether the screenshots a factory
requires can be verified (`shown`) is settled with the gates; a transient failure of the
verification is a fault.

**WorkLoop.** A supervisor closes its record in two writes, provisional and verified.
A worker's pass is one sequence: it asks the graph (`look`), and acts when the
answer is there, on a record that may have changed since. Leases and journals are
reduced to what the loop reads of them.

**Dispatch.** One action per call of a pass: open and claim, stamp the hold and look for
a recorded attempt, plan, the two locks, re-check and persist the key, launch, spawn
and handshake, record the handle; a refusal then owes, ends and clears. `exec[e]` is
the record as this component sees it, `mem[p]` the pass, `owned[p]` the attempt a
process follows, `top` and `lost` are `HELD_FENCE` and `FENCED_OUT`. A run is a record
and a supervisor, which with its child is one unit. A dead process's lock files are
as good as gone, since every reader asks who is alive; the dispatch lock's breaker is
one step, and a live holder's lock that grew old is a mishap. The two calls of
`terminate` are one. One workspace: the runs share a checkout.

**NudgeSpool.** The files of one job: the input and its copy, results with their
claimant, a lock per contender. A process runs one pass, a directory listing is a
snapshot (`seen`), and each rename, unlink and spawn is a step. Ages are three-valued
as far as horizons ask (`new`, `old`); a stall lets a live process outlast one.

## 3. Runs

Every bound is a constant of the module and appears in a guard. States are
distinct states, with symmetry where the cfg declares it.

| run | bounds | shows |
|---|---|---|
| `local_lock` | 3 processes, 2 may crash; 26 thousand states | `MutualExclusion`, `FileOfLive`, and `DeadLockBroken`: dead breakers never keep a dead lock for ever. Two dead (a holder and a breaker) and one live process are the smallest case of a nested break; the proofs cover the rest |
| `execution_record` | 3 processes of 2 agents, lease of 2 ticks, fences to 2, 1 gate, 2 candidates, boundary integration; 406 thousand | `FenceNamesOwner`, `CompletedAccepted`, `IntegrationOfTip`, `DeadOwnerReplaced`. Three processes give displacement within an agent and between agents, two candidates one supersession; the proofs cover larger fences |
| `execution_store` | 3 processes of 2 agents, 1 factory, 2 pipeline attempts, 4 log rows; 326 thousand | `LogReplays`, `OneLive`, `LostStaysOut`, and `RefinesRecord` (the store implements `ExecutionRecord`), with a crash or failed write before any write; the proofs cover longer logs, more attempts and factories |
| `remote_outbox` | 3 processes, 2 crashes, 1 further fault, 2 events, 3 fences, the third after a crash; 863 thousand | `AuthorOrder`, `Accounted`, and `Drains`: a lost or late request, a lost answer, a failed read, write or forfeit. The third fence and process give an adopter that is fenced out and hands back, one that crashes in the middle of its adoption, and a process left to adopt from either; the fault gives two unsent events of one author. The execution ends only in behaviours with at most 2 fences, crashes and faults before it |
| `stage_workflow` | 2 processes of one worker, a program with every kind of kernel call, 1 fault, 2 edits; 209 thousand | `JournalReplays`, `ExecutedAlike`, `NeverRedone`, and `Reports`: the stage completes, is refused or fails. Two edits give a change and its reversal |
| `gate_pipeline` | a command gate that keeps its verdict and a review gate with one fix cycle, a ladder and a fallback; 1 retry, 1 rescue, 3 heads, 1 failed call; 2.6 million | `PassedOfTip`, `FixesBounded`, `OutagesPaid`. A fix moves the head once and a rescue again, so a verdict can be stale in both ways; interruptions are not bounded |
| `review_ledger` | 1 topic, 5 ratings, 1 cycle in each of 2 passes, 2 entries, 2 faults; 289 thousand | `RedoneAlike`, `PassedClean`. Two faults are a lost save, of progress or of a rescue entry, and a crash after it; both properties name what they except beyond that |
| `landing` | 2 items, both strategies, pinned and not, 1 fix cycle, 2 commits, 1 foreign push, 1 fault; 2.5 million | `LandedCovered`, `ReportedLanded`, `NothingLost`. Two items and a foreign push give a lost race and a lost second one |
| `completion` | 2 executions, 1 swept and required to show screenshots, 1 other node, 8 records of other items (the cap of a pass is 10), 2 acts of people, 1 fault; 1.0 million | `CompletionStands`, `WithdrawnLeavesNothing`, `AbandonKept`, `HoldEnds`. Two acts are an edge and a status, or an abandonment and a release; the proofs of the safety properties cover more of everything |
| `nudge_spool` | 2 prompt drains, 1 session-end drain, 3 workers, 1 stall, 1 fault; 1.6 million | `FindingKept`, `JobKept`, `OneRedriver` |
| `work_loop` | 2 workers, 1 item, 1 run, 1 slot, 2 faults, both kinds of completion; 198 thousand | `VerdictFrozen`, `ObservedWins`, `OwedSettles`. One run met by two workers is where the loop's writers race; two faults are a crash and a lost lease |
| `dispatch` | 2 processes, 2 executions, claims of an execution with a run to fence 2, 1 mishap (a crash, a failed or unanswered call, a lapsed lease, an old dispatch lock); 540 thousand | `OneWriter`, `OneRunPerKey`, `ClearedEnded`, `HeldIsWorked`. Two executions are a withdrawn attempt whose run lives and its successor; displacement of one process by the other needs no mishap |

`CHECK_DEADLOCK FALSE` stands in every cfg but `LocalLock.cfg`: executions end,
counters are bounded, and all processes may have crashed. The lock never comes
to a stop as long as one process lives, and its run checks that.

Each property has a mutant, a small change of a mapped definition that a
plausible bug would make (`mutants` in `PROJECT.json`; the operators are marked
"Mutant" in the modules or named `Mut...`, and used by nothing else). TLC finds the
property violated under it. The type invariants of `LocalLock`,
`ExecutionRecord` and `ExecutionStore` are proved; those of other modules state the types for a reader.

## 4. Fairness

- `LocalLock`: a live process in a call goes on (weak); calls recur, since the
  work loop polls; sweeps recur at every pass of the loop and every session start,
  which is strong fairness because a process may be busy whenever a sweep is due.
  `DeadLockBroken` assumes no crash fell between the creation of a lock file and
  the write of its owner: such a file is never judged dead, by design.
- `ExecutionRecord`: live workers claim what they can, time passes.
- `StageWorkflow`: a driver that can act does, restarted processes are offered
  what is open, timers fire. Faults and edits are bounded, not fair.
- `Completion`: a pass examines at most ten unsettled records of the machine, in a fixed
  order (`COMPLETION_RECONCILE_MAX`). While there are no more than ten (`Reached`) each is
  driven again by every pass; beyond that nothing is assumed, and `HoldEnds` claims
  nothing. A forced release is finished by its command or the cleanup it journaled. Asked
  of swept executions only.
- `Dispatch`: a process with something to do goes on and a dead worker is started
  again (weak). Nothing is assumed of supervisors. `HeldIsWorked` names the two ways
  to stay stuck (section 6).
- `WorkLoop`: a supervisor ends (its watchdog ends the child), a silent run ages,
  timers fire, workers poll and are restarted, and a graph read is answered. Crashes,
  lost leases and refused writes are bounded, not fair.
- `RemoteOutbox`: a process carries its call through, and a holder drains again
  (the drain after a claim and `confirmOwnership` before the completion).

## 5. Proofs

`LocalLockProofs`, from `ProcAssumption` only (any set of processes, any of them
mortal): `TypeCorrectness`, `Exclusion`, `LiveKeepsFiles`, `RemovesOnlyDead`.
Mutual exclusion is not inductive: that two processes are both inside says
nothing about the files. The invariant is
`TypeOK /\ FileOfLive /\ MovedOnlyDead /\ UnlinksJudged /\ OneSweep`: a live process
past the write of a file has its own token at that path; only a dead process's
lock is ever moved aside; from the judgement to the rename or unlink the judged
file stays a dead process's; one live sweep at a time. Each removal by name
preserves the first part because of the third, the third survives because the
breaker and the guard are themselves exclusive by the first, and the guard's
removal by the sweep needs the last.

`ExecutionRecordProofs`, from `ExecutionAssumption` and `RecordAssumption`:
`TypeCorrectness`, `OneFenceHolder`, `CompletionEarned`, `FenceGrows`,
`TerminalStays`, `IntegrationIsOfTip`. The invariant adds to `FenceNamesOwner` that no process holds a
fence above the record's (`FenceBound`), without which the fence a claim hands out
might already be someone's, and that a released record has no owner. Lemmas on
`Effect` state once what events keep (`EffectKeepsOwner`), type (`EffectType`) and
establish (`EffectCompletes`); each action then needs only the parts it disturbs.
`IntegrationIsOfTip` needs in addition that an integration is never on a record
without a candidate (`EffectKeepsIntegrated`), or the first pin could inherit one.

`ExecutionStoreProofs`, from `ExecutionAssumption` and `StoreAssumption`: `JournalsReplay`,
`OneLiveExecution`, `LostForGood`, `StoreTypes`, and `StoreRefines`, that the log of every
execution behaves as the one atomic record of `ExecutionRecord`. Two promises of that record
are then stated of the files: `FenceNamesOwnerInStore` and `TerminalForGood`.

- *Replay.* `rebuildFromEvents` is a recursive function over the rows. What the proofs need of
  it is that an appended row is replayed on the record before it (`RebuildAppend`). That such a
  fold exists and is unique is shown by a smallest counterexample, from
  `WellFoundedInduction`'s minimum over the naturals, and no induction rule is used.
- *The invariant.* A log is `Sound` when it replays, its owner is the process it granted the
  execution to last, under the fence of that grant, nobody else was granted the record's
  fence and, until a release, nobody a higher one. The four rows a call may append (`Claims`, `Renews`, `Releases`,
  `Reports`) keep it so (`ContinuesAdvances`), but a row is appended some steps after it was
  decided on. `Pending` therefore says of what a call has still to write that it fits the files
  as they are now: one row that continues a log, or the two that begin the log of the next
  attempt while no execution is live; the pointer lists an execution only once its log exists;
  and a caller is told a fence only once the log grants it. `Locked` makes this stable: only the
  live process that holds the lock has anything to write. `Numbered` (attempts without gaps,
  one of them unfinished), `Listed` and `Answered` are what the next call reads.
- *The refinement.* A row that claims is a `Claim` of the record, one that renews a `Renew`, one
  that releases (the owner's, a forced one) a `ForceRelease`, an event a `Report`; the row that
  opens a journal, every view, pointer and reply write, and every decision are stutters; a crash
  and a tick of the clock are the record's own. The fence a process holds maps to the one the
  log last granted it, so a claim is complete when its row lands, whether or not the process
  lives to be told.

TLC checked this invariant, too, on the run's instance.

The five modules below follow one pattern. `Own`, `Local`, `Mine` or `Sound` says of
one process what it may still rely on of the things it read, at each of its labels;
a step of another process must leave that true, and the step's own process must
establish it for its next label. TLC checked each invariant on its run's instance before
it was proved. Each module's only assumption is the one its constants have.

`LandingProofs`, from `ConstantsAssumption` (finite items, none of them the outside
writer): `TargetOnlyGrows`, `LandedIsCovered`, `ReportedIsLanded`. `NothingLost` rests on
the compare-and-swap alone. The others are not inductive, since what lands was decided
when the stage read its checkout: `GatedJudged`, `Cleared` and `Built` say that the head a
stage was cleared for passed the gates, that what it integrates is contained in that head
from the build to the landing, and that its candidate has it; `Passed` that what was
reported is on the target.

`CompletionProofs`, from `ConstantsAssumption`: `CompletionIsFinal`, `NothingLeftBehind`,
`DropIsFinal`. A read of the item is older than the item or is the item (`Snapshot`), so a
compare-and-swap decides on the present item. The edges are the hard part, because they
are not under the item's revision: an execution may be about to retype an edge it read long
ago while another completes. `Gone` is the key: an execution that has claimed the item and
lost it never gets it back. What a pass retypes belongs to executions that are `Gone`
(`Strays`), so the resolver's edge is still there at the compare-and-swap (`Linked`) and
under every completion written (`Stands`); and a claim that finds no edge finds no
completion (`Claiming`). A withdrawal goes on past its read only with the edge off or the
read failed (`Untied`), and nobody but the execution itself puts the edge back. What a step owes the other processes is stated once (`Guarantee`),
and `OtherKept` draws the consequences, so that each action argues about its own process
only.

`DispatchProofs`, from the constants' assumption: `WorkspaceHasOneWriter`,
`KeyStartsOneRun`, `HoldOutlivesExecution`. A lock file created before the scan excludes
(`OneHolder`); the count of writers made under it sees every supervisor alive, the one
whose launcher died before it noted the pid included (`UpIsSeen`); from that count to the
spawn nobody else can start one (`Quiet`); and the resumption of a recorded attempt, which
takes no lock, never gets to a launch (`Resumed`).

`WorkLoopProofs`, from the constants' assumption: `VerdictIsFinal`, `ObservedStands`. A lease
token is handed out once (`Unique`) and never ahead of the lease (`Tokened`), and whoever
drives under the token the lease has drives a run without a verdict (`Owning`); what a
supervisor leaves is ended and not pending, over which no derived outcome is written
(`Supervision`). The run a dispatch takes is the least free one, which the proof gets from
`WellFoundedInduction`'s minimum.

`NudgeSpoolProofs`, from the constants' assumption: `FindingIsKept`, `JobIsKept`,
`AtMostOneRedriver`. A removal is decided in one step and made in a later one: a result
about to be dropped has been discharged (`DropDischarged`), a pass that settled the job or
knew its marker has an answer behind it (`KnowMarked`, `Memory`), an input about to be
unlinked is answered or retried (`Justified`, `Cleared`), and only a pass past its creation
of the lock file has one (`LockPC`, `OneHolder`).

Attempting a proof corrected the models in three places. `PutCompletion` counted its attempts
on the entry it was about to forget, so the bound of four (`shell/completion.js` 284) never
ended a pass. `Landing` did not say that the outside writer is not an item. And
`ExecutionStore` did not say that a log has room for one row, without which not even the first
fence is within its bound.

Only model-checked: every liveness property, since the prover has no rule for
fairness; `JournalReplays`, `ExecutedAlike` and `NeverRedone` of `StageWorkflow`, `AuthorOrder`
and `Accounted` of `RemoteOutbox`, and `PassedOfTip`, `FixesBounded` and `OutagesPaid` of
`GatePipeline`, whose inductive invariants have not been worked out; and `RedoneAlike` and
`PassedClean` of `ReviewLedger`, which speak of a fold with an operator as its argument. The
prover cannot instantiate a rule of induction over such data, and the ledger's fold is not
a recursive function that could be unfolded as the log's was.

## 6. Observations

Places where the code does less than a comment or a document beside it says. Each
was met as a behaviour of a model while its property was being stated, and the
property says what does hold.

*Execution record and store*
- A landed candidate can be superseded: `pinCandidate` (`kernel/execution.js` 939-941)
  says nothing supersedes one, but a second `integration.started` (858-864) sets the
  integration back to running, after which a re-pin is admitted. `IntegrationOfTip`
  therefore speaks of the tip of the moment.
- A process may lose an execution to itself: a claim whose row was appended
  (`execution-store.js` 409) and whose view write failed is answered as a conflict; its
  next write under the old fence is refused as stale and recorded as a loss to another
  holder (1606, against 1529-1533).
- An adoption may drop a live holder's event: between the adopter's read of the server
  and its adoption another process may claim, spool under the live fence and die; its
  line is younger than the adopter's grant and is dropped (1133, against 1114).

*Gates and landing*
- A stamp of a launched fix carries no rescue pass (`gate-deps.js` 985): a fix decided in
  a later rescue pass and not launched reads as launched if the gate and cycle agree.
- A fresh blocking finding whose id collides with a minor entry is folded into it
  (`kernel/gates.js` 2546, against 2590-2593).
- After a yield in a re-gate the stage re-gates without re-pinning
  (`integration-workflow.js` 874) and then lands the pinned candidate (517), which need
  not be the head that was re-gated; it is an ancestor of one, which is what
  `LandedCovered` says.
- A landing executed and not recorded is recognised while the ref still stands at it;
  after further landings a squash reads as a conflict, a definition edited meanwhile
  refuses the stage (1154), and the race cap can report failed what landed.
  `ReportedLanded` therefore speaks of reported landings only.

- A review whose finding could not be saved is forgotten by a crash: the cycle is judged
  again, on the ledger from before it, and may pass (`gate-workflow.js` 586, which says "would
  restart this gate"). A rescue whose entry could not be saved (1016-1024) makes a resume judge
  the pass before it, and the next rescue then takes up what the lost one left (1364, 1414)
  rather than its own seed. `PassedClean` names both.

*Completion*
- A premature edge is removed before its twin is written (`shell/completion.js` 157-163,
  against "evidence, never deleted", 126-135): if the second call fails the twin is never
  written.
- A withdrawal whose read of its own resolver fails goes on as if there were no edge: the
  hold is cleared and the record stamped withdrawn with the `resolves` edge standing
  (`shell/completion.js` 197, 211-222, against `bin/spor.js` 16482, "an unreadable graph
  leaves every debt owed"). An abandoned item that has lost the hold is consumed the same
  way (293), and so is one a person released (305). `WithdrawnLeavesNothing` excepts it.
- A completion whose required screenshots cannot be verified stays owed and keeps the item
  held until a person abandons or releases it (`shell/completion.js` 322-330).
- A pass examines the first ten unsettled records (`bin/spor.js` 16483-16497); ten that
  never settle, held refusals or completions without their screenshots, keep every later
  record from being examined.
- A crash between the compare-and-swap (383) and its stamp (386) makes the next pass
  find the hold gone and consume an execution that completed (against 260-266).

*Work loop*
- An agent that writes its resolver after the idle check read the graph (`bin/spor.js`
  12091) and before the stop is closed as failed and never gated.
- A supervisor killed before its provisional write is reconciled as failed without a
  read of the graph (against WORKERS.md 1151-1153); a late verified write may overwrite
  what a worker verified; an adopting worker does not verify a record still awaiting its
  contract (WORKERS.md 1145).

*Dispatch*
- A second process of the same agent on the same box re-claims an execution that is
  being launched, is refused by the lock or the live writer, and withdraws it: the
  first one's run goes on under an ended execution (`bin/spor.js` 12371-12378, against
  "this execution will run nothing", `work-outcome.js` 176).
- A debt is keyed by the execution (`work-outcome.js` 66): a displaced process overwrites
  the holder's and retires it. A holder that then dies between ending the execution and
  clearing the hold leaves an item held by an ended execution, and every later hold is
  refused until a person releases it. A lost answer of the stamp (`bin/spor.js`
  15532-15542) ends the same way. This is `Forgotten` in `HeldIsWorked`.
- Re-driving a debt under a superseded fence marks a process as having lost an execution
  it never held (`execution-store.js` 1605-1617); once every worker of the box is so marked
  only a restart takes the execution up. This is `LockedOut`.
- A debt whose rewrite under a new fence failed is retired as superseded on the next pass
  rather than "re-claimed the same way" (`work-outcome.js` 133), since the fence is asked
  before the lease.

*Spool*
- A drain that outlasts the claim horizon re-injects a finding another drain showed
  (against `spool-drain.js` 335-338); one that dies after the marker and before its
  output has shown nothing; a session-end drain captures without asking for the
  input, so a finding may be captured twice. `FindingKept` is about loss only.

Also met: a line the loser spools between the server's grant and the successor's
stamp is adopted (the machine has no clock that could tell); a process that re-claims
sends its own older lines under the new fence (a comment says it may); a refused line
duplicated by a crash may be sent again.

## 7. Not modelled

- The reporter's memory of events the outbox could not take and its resumption
  under an unconfirmed fence; a person's resolution of a stranded outbox file; the
  shared outbox of processes without an instance; the cached copy of remote records.
- The rows of stage and provider attempts in the record: no other transition reads
  them but dispatch, which `Dispatch` models on its own copy. External providers over
  stdio, cancellation, attempt tokens, the server's claim of a dispatch (`Dispatch` is
  local mode), forced and read-only dispatches, a workspace lock that cannot be written.
- The window between the owner check and the append in the pipeline log, which the
  code names as its residual; check and append are one step here.
- `awaitSignal`'s deadline, which no stage uses; re-opening of settled pipelines
  (`--regate`), reviewer pauses, programs, cooldowns and the ranking of candidates in
  the work loop. Its resume scan leaves out a pipeline whose run ended, or was last due,
  more than a day ago (`work-loop.js` 1197): such a pipeline stays owed until a person
  re-gates it, and `OwedSettles` speaks of younger ones. The run has one
  pipeline and one slot, so pipelines competing for slots are not explored.
- Process identity is an atom. For the execution lock and the outbox, a recycled pid without
  a recorded start time only makes a dead owner look alive, which withholds a break or an
  adoption. The workspace lock is different: a live holder whose identity cannot be verified
  stops contending after 30 minutes (`preflight.js` 404), so `OneWriter` assumes that start
  times can be read or that a launch takes less.
- The bulk of the repository is outside any state machine: parsing and rendering of
  Markdown nodes, ranking, tokenising and analytics, command line parsing and output
  (`bin/spor.js` alone is a fifth of the code), the harnesses' command lines,
  configuration, authentication and HTTP, prompts and briefings of the hook engines.
  They are text or I/O, keep no state between calls that another process could
  race on, and a model of them would repeat the code.

## 8. Plan

1. *(done)* `LocalLock`, `Execution`, `ExecutionRecord`, `ExecutionStore`,
   `RemoteOutbox`, `StageWorkflow`; proofs of the first and third.
2. *(done)* `GatePipeline`, `ReviewLedger`, `Landing`, `Completion`, `WorkLoop`,
   `NudgeSpool`, `Dispatch`.
3. External providers: cancellation, tokens and the stdio protocol on top of `Dispatch`.
4. `QueueResolution`: resolution and queue readiness as operators, against a
   declarative reference over small graphs.
5. *(done)* Proofs about `Landing`, `Completion`, `Dispatch`, `WorkLoop` and `NudgeSpool`:
   every safety property their runs check.
6. *(done)* Proofs about `ExecutionStore`: every property its run checks, the refinement of
   `ExecutionRecord` included.
7. Proofs: `AuthorOrder` of `RemoteOutbox`, `NeverRedone` of `StageWorkflow`, `PassedOfTip` of
   `GatePipeline`.
