# Hypatia: models, checks and proofs

This directory holds TLA+ models of the part of Hypatia that acts on an
operator's behalf: how an execution of a research plan is approved, begun,
carried out and taken up again after a restart; the queue and the one-shot
schedules that run executions later; the desktop runner that drives both from
one window; and what it remembers, the sessions its records belong to and the
semantic index that answers from them. TLC checks the models on small instances;
TLAPS proves what TLC checks of safety for every value of the constants, some of
it under a hypothesis that the desktop meets (section 4).
Paths below are relative to the repository root.

## 1. The system

Hypatia is a single-process Python desktop application. A request goes from a
shell (the Tkinter window or the CLI) through `Brain` to one application
service under `src/cognition/`, which keeps live state in dictionaries and
writes it to one JSON document per store. Stores replace their document
atomically (`os.replace` of a synced temporary file), and
`ExclusiveStoreOwnership` keeps a second process out. There is no event loop
and no database: what makes the system hard is a handful of threads that share
those dictionaries, services that hold their lock only for part of a call, and
restarts that start again from whatever documents were written last.

| Part | State it keeps | Operations | Meets others by |
|---|---|---|---|
| Plan execution state (`src/research/ResearchPlanExecutionState.py`) | one immutable value: plan status, step statuses, rulings, refusal and pause notes | `start_step`, `complete_step`, `fail_step`, `block_step`, `cancel`, `resolve_interrupted_step`, `recover_blocked_step`, notes, restore | used by the service |
| Plan execution service (`src/cognition/ResearchPlanExecutionApplicationService.py`) | `_executions`, `_plans`, `_allowances`, `_restored`, the execution document | start, advance, cancel, resolve, recover, rebind, continue | called from worker threads, the window's thread, and autonomy; calls operations that reach providers |
| Background scheduler (`src/cognition/BackgroundResearchSchedulerApplicationService.py`) | `_tasks`, the task document | create, pause, resume, cancel, worker cycle, exact deferred run | runs autonomy, which advances executions |
| Desktop request runner (`src/desktop/DesktopRequestRunner.py`, the request part of `src/desktop/TkinterDesktopWindow.py`) | running, stopped, cancel flags, the deque of completions; the window's handler and busy controls | start, cancel, poll, close | one daemon thread per request; a callback into the request's cancellation token |
| Plan authorization (`src/cognition/ResearchPlanAuthorizationApplicationService.py`) | previews, confirmed approvals, the authorization document | preview, confirm, record, consume | consumed by every start |
| Goal start (`src/cognition/ResearchGoalStartApplicationService.py`) | the requests it has taken, whether missions were recovered | start a goal, recover missions | records and spends its own approval; starts, rebinds and runs executions |
| One-shot deferred scheduler and grants (`src/cognition/TrustedOneShotDeferredExecutionScheduler.py`, `src/cognition/TrustedDeferredExecutionControlService.py`) | none in memory: a document of schedules, a document of grants; the window's one wake-up | grant, revoke, schedule, cancel, fire, skip | fires exact deferred runs of the background scheduler |
| Autonomy (`src/cognition/ResearchAutonomyApplicationService.py`) | none of its own | run | a loop of advances under a budget |
| Semantic memory index (`src/memory/SemanticMemoryIndexRuntime.py`) | the index, generations, pending updates, failed ids, the worker thread | start a rebuild, handle an event, search, shut down | receives the memory manager's events in the writer's thread; its worker reads the manager |
| Memory manager (`src/memory/MemoryManager.py`) | records, their document | add, update, delete, clear, purge of what expired | emits its events after releasing its lock |
| Sessions (`src/session/`) | the registry of sessions and the active one, their document | create, select, rename, delete | a rename writes the registry's and the memory's documents; a deletion looks at the memory under its lock; an answer is recorded for a session |

The rest (guest-agent transport and replay protection, research runs, step
operations, missions, findings, knowledge, planner, language model, tools,
bootstrap, read models) is listed with its reason in `PROJECT.json`: it is
input and output, parsing, sequential calls over append-only records, or
presentation.

What makes the modelled parts correct:

* **Execution.** A provider is reached at most once per approval to try; never
  before the attempt is written down and paid for; an outcome that comes late
  never overwrites a newer decision; a restart invents neither success nor a
  second attempt; what an operator is shown is true of the present state.
* **Approvals.** An approval begins one execution; whatever runs or may be
  taken up again is named by a spent approval; a mission that was asked for once
  is launched once, across restarts; a spending that could not be written is
  taken back.
* **Scheduler.** One holder per claimed task; runs equal claims and retries,
  within the limit, across a restart; a closed task stays closed.
* **One-shot schedules.** A schedule is attempted at most once, over restarts and
  failed writes; its record tells what came to pass; a record that is due is
  considered, and a claimed run is resolved.
* **Desktop.** One request at a time, its result shown by its own handler, its
  cancellation honoured, nothing delivered after the window closed, and no
  control left disabled.
* **Sessions.** The process and both its documents agree outside a rename; no
  answer is lost by one; every record names a session there is.
* **Semantic index.** What search answers from has every change that was
  announced, or an error is reported; a vector never goes back to an older
  text; one worker at a time, which ends; nothing is published after shutdown.

Every place in the code where one of these could go wrong without a test
noticing is a hazard in `PROJECT.json`, with its line and the property that
watches it, or why none does.

## 2. Modules

```
PlanExecutionState          the value and its transitions
   '-- PlanExecution        the service, its store, its threads, restarts, and
          |                 the refinement mapping (Approved == INSTANCE ApprovedPlan)
          '-- MCPlanExecution     instances, and what a test and a comment claim
ApprovedPlan                what an operator is promised; PlanExecution
                            implements it (KeepsItsPromise)
BackgroundScheduler         the queue
   '-- OneShotSchedules     schedules, grants and the wake-up, composed with the
                            queue (Scheduler == INSTANCE BackgroundScheduler), of
                            which it is also an implementation
ApprovedStarts              approvals, and the executions begun under them
DesktopRequests             the runner and the window
Sessions                    the registry, renames and deletions, over the memory
SemanticIndex               the memory manager's events and the index runtime
```

Eight modules hold the theorems, each for the module it is named after:
`PlanExecutionStateProofs`, `PlanExecutionProofs`, `ApprovedStartsProofs`,
`BackgroundSchedulerProofs`, `OneShotSchedulesProofs`, `DesktopRequestsProofs`,
`SessionsProofs`, `SemanticIndexProofs`.

### PlanExecutionState

A step is its position in the plan; identifiers, texts and timestamps are gone.
An execution is a record: the plan's status, each step's status, whether work
was performed, the ruling and the recovery on it, and the steps that the
refusal and the pause notes name. The value `Absent` is the plan without an
execution. Each transition `T` of the class is an operator, and its guard, the
condition under which the code does not raise, is `CanT`. `WellFormed` is what
`__post_init__` demands. `Restored` is `ResearchPlanExecutionSnapshot.restored`
(what was running is interrupted); `Rebound` is the reconstruction in
`rebind_restored`, which copies four of a step's fields and so drops the ruling
and the recovery.

### PlanExecution

State: the live execution and its allowance, the restored snapshot not yet
rebound, the document on disk, the set of steps whose revalidation the run
store holds, and the locals of every thread (`job`). The service takes
`_commit_lock` only around a compare-and-replace, so `process_advance` is a
sequence of steps, each with its line range in `map`:

```
BeginAdvance -> CheckAllowance -> Charge -> CommitStart -> Capture -> CaptureAllowance -> Save
                                              | lost                                    | failed
                                              v                                         v
                                            Refund                           Withdraw -> Uncharge
Save -> Run | Decline -> RecordRevalidation* -> Return -> CommitOutcome -> Capture -> ...
```

`CancelExecution` reads, derives and writes under the lock; `BeginResolve`,
`BeginRecover` and `CommitRuling` read first and compare later, and `Unrule`
takes a decision back that could not be written. A rebind is three
steps: `BeginRebind` reads without the lock (the restored entry, that nothing is
live, what the run store proves), `RebindExecution` then writes what was rebuilt
over whatever stands there, and `RebindAllowance` lets the allowance follow, outside
the lock, and drops the restored entry. `Rebinders` are the advancing threads that
rebind. `Crash` kills the process between any two steps and loads the
document. `SaveFails` is a write that raises.

Two history variables exist only for properties: `calls`, the steps whose
operation was entered, how often any was, and what those calls drew on the
network meter; and `licensed`, the steps whose operation may be entered: every
step at first, again after a ruling that it never ran.

### ApprovedPlan

The abstract specification: what the durable record says of each step (untried,
begun, over), which steps are licensed, how many were performed and how many the
record says were paid for. It knows no threads, no locals and no order of
writes; a record may lag, but may never offer a step that may not be performed,
and its budget must cover every performance. `PlanExecution!Approved` maps
`PlanExecution` to it by reading the document alone: `Entry` of each step on
disk, the allowance on disk, and the history.

### ApprovedStarts

What happens before an execution exists and what makes it exist again. An
approval is unrecorded, unspent, or spent on an execution, in memory (`live`)
and in the document (`disk`); an execution is an identity with the plan, the
approval and the request it was made for. `Preview`, `Confirm` and `StartPlan`
are the panel's; `StartGoal`, `SpendOwn`, `Begin`, `Return` are one goal start
in the worker:

```
StartGoal -> Capture -> Save (record) -> SpendOwn -> Capture -> Save (spend) -> Begin
          -> Capture -> Save (checkpoint) -> Capture -> Save (report) -> Return
```

Both services capture a whole document and save it with no lock over the two, so
`Capture` and `Save` are two steps for whatever the save is for, and `SaveFails`
is what the caller then does: a spending is taken back, a mission whose
checkpoint failed is not begun, a confirmation stays in memory. `ResumeRestored`
and `Recover`, `RecoverOne`, `Recovered` take restored executions up again.
`stale` and `lost` record that a document was last saved from a capture that
another save had outdated, and that a process died then.

### BackgroundScheduler

Claims, rulings and the commit of a result hold the task lock over their read,
their write and their save, so each is one action. A run (`EnterAutonomy`, then
`CommitResult`) holds no lock, nor does the save that ends a cycle, which is
`CaptureTasks` then `SaveTasks`. What autonomy reports is any of the outcomes
that `outcome_for` knows, or a response without a result.
`RunRaises` is an operation's exception that nobody on the way catches: the
task stays running, and `raised` remembers it.

### OneShotSchedules

Neither service keeps anything in memory, so the two documents are variables
that survive `Restart` by themselves. The window has one wake-up (`timer`),
armed for the earliest pending record after every call that changes the
document and after every poll. `request` is what the desktop's one worker is at:

```
WakeUp -> Fire -> RunExact -> SchedulerStep* -> Finish -> Poll
```

`Fire` writes the claim before anything runs; `RunExact` decides anew, by the
grant that is active then, and takes the task with `Scheduler!Claim`; while it
runs every step is one of `BackgroundScheduler`'s. `WakeUpBusy` skips the record
if the worker is taken, and `WakeUpUnstarted` is a thread that does not start. A
cycle of the queue is a request of the same worker, and `TaskCall` is the
operator's create, pause, resume and cancel, so the two modules share every task.

### DesktopRequests

The event thread is one sequence of calls, each section of the runner's lock a
step; between `Reserve` and `Launch`, and between a cancellation and its
callback (`Ring`), workers go on. A worker acts, then leaves its completion
(`Deliver`). `Poll` presents and re-enables, and clears the request to cancel
whether or not a request is running, as `drain` does.

### Sessions

The registry and the memory, each in memory and in its document; a record is
stood for by the session it names. A rename is

```
PlanRename -> PersistMemory -> PersistSessions -> CommitSessions -> CommitMemory
                                    | failed
                                 Rollback
```

under a lock that keeps out other renames alone, so `Create`, `SetActive`,
`Answer` and `Delete` of the other thread come between any two of its steps. An
answer resolves its session before it is composed and is recorded later. `torn`,
`halved` and `stray` remember a write beside a rename, a rename left with one
document written, and an answer whose session went before it was recorded.

### SemanticIndex

Content does not matter, only which change it is from: a record is the number
of changes made to it, and a vector the number of the change it was computed
from. A client is a thread that calls the manager. Its write is one step, under
the manager's lock; the events of the write wait in `outbox` and each reaches
the runtime in a later step, as `_emit` is called after the lock is released.
Both classes start a worker outside the lock under which they made it, so
`MakesWorker` and `Launch` (or `RefreshUnlaunched`, `UpdateUnlaunched`, when
`Thread.start` raises) are steps of their own. The worker:

```
top -> attempt -> purge -> (notify) -> read -> build -> publish, fail, discard | attempt again
top -> update -> publish, fail, drop          top -> ended
```

`BuilderPurges`, `BuilderNotifies` and `BuilderReads` are the one call of
`MemoryManager.all` that the builder makes. Two history variables exist only
for properties: `seen`, the newest change of each record that the runtime was
told of, and `missed`, the records for which a full queue, or a full set of
failed ids, had no room.

Operators whose comment begins with "Variant" are mutated forms of the
definition below them. No specification uses them; they are the evidence that
each property would notice the bug it is about.

## 3. What is checked

| Run | Instance | Shows |
|---|---|---|
| `execution_desktop` | a worker and the cancelling window thread, four two-step plans (network, none, revalidation, local, model), with and without an allowance, two process deaths, failing writes, fair threads | `Constructible`, `CompletedWasRun`, `ExplanationIsCurrent`, `PaidFor`, the refinement `KeepsItsPromise`, `RunningSettles` |
| `execution_racing` | two threads that advance and rule, one of which also rebinds and the other also cancels, one process death | the inductive invariant `Inv`, `OneAttempt`, `TerminalIsFinal` |
| `execution_charged_once` | two racing advances | **violated** `ChargedForEveryCall`: the refund of the losing advance erases the winner's charge |
| `execution_rulings` | two deaths with a ruling in between | **violated** `RulingsSurviveRestart`: a rebind drops the ruling from the execution, and the next write drops it from the document |
| `scheduler_racing` | two workers and an operator, two tasks, capacity one, one restart, failing writes | `ClaimedByOne`, `ClosedStaysClosed` |
| `one_shot` | one schedule, two grants, one task with a retry, the window, its worker and a clock of three values, one failing write or thread start, one restart, fair | `TypeOK`, `AttemptedAtMostOnce`, `OutcomeIsTrue`, `AttemptsAccounted`, `DueIsConsidered`, `ClaimIsResolved`, `RunningSettles` |
| `approvals` | two approvals, three executions, two requests, one failing save, one process death | `TypeOK`, `StartsOnce`, `CoveredByApproval`, `MissionOnce`, `SpentIsWritten` |
| `approvals_respent` | the same with one request and no failing save | **violated** `SpentForGood`: a goal start saves approvals it captured before the panel spent one; after a restart the approval begins a second execution |
| `desktop_polled` | three requests, with and without a signal and a kept result, fair | `SingleFlight`, `ToOwnHandler`, `ControlsMatch`, `CancellationHolds`, `EveryRequestAnswered` |
| `desktop_cancelled` | one request | **violated** `CancelledIsDiscarded`: a poll between a cancellation and the return of the action forgets the cancellation |
| `sessions` | three session names, two answers, two failing saves, one process death | `TypeOK`, `SettledAgrees`, `RecordsHaveSession`, `NoRecordLost` |
| `semantic_events` | one client, two records, one of which expires, a queue of one, two rebuilds, starts and providers that fail, fair | `TypeOK`, `OneWorker`, `AnswersAreCurrent`, `RebuiltIsCurrent`, `NeverOlder`, `NothingAfterStop`, `Settles` |

The four violated properties each restate a sentence of the repository, quoted
under `findings` in `PROJECT.json`. Where the suite has a test of such a race, it
holds the second thread at one chosen point, and the failing order is another one.

**Bounds.** Two steps are enough for every relation between steps that the code
knows: a next pending step, an earlier one that is running, blocked or
interrupted, and the last one. Two process deaths let a restart happen to an
execution that was itself restored. An allowance of two or three network
operations and as many advances is exhausted, exactly used, and left over. Two
workers are all a race for a claim or a commit needs, because every guard
compares one thread's locals with shared state; the proofs remove this bound.
Two tasks and a capacity of one meet the full queue. Two approvals and three
executions let an approval that was put back be spent again beside one that was
not; two requests let one be given again. One schedule meets every race that is
within a record, and two grants let one be replaced between the schedule and its
run; that schedules do not disturb each other's records is proved for any number.
Three names let a rename meet a session that is created or deleted beside it, and
two failing saves are a rename whose rollback fails. Three requests let a request
follow one that was cancelled while a third is turned away. Two records and a
queue of one meet the full queue with an update in flight; two rebuilds meet
updates that were queued before, and a worker that has ended; two changes of a
record that keep it, and a delete, meet every order of updates of one record.
Identities are given out from the least free number, which only names them.
Deadlock is not an error in any of these: an execution that is closed, a queue
that is empty and a window that is closed may stop, and liveness is stated where
something must not.

**Fairness.** `WF(Continue(t))` for a thread under way: Python threads are
scheduled, and every operation and autonomy run is bounded by its own timeout
or budget, so it returns. No fairness is given to calls an operator may never
make, or to a crash. On the desktop, workers, the sections of a call under way,
and the poll are fair; the poll re-arms itself with `after` as long as the
window is open. In `OneShotSchedules` the worker (`Work`), the poll, and the
wake-up (`WakeUp \/ WakeUpBusy`, which the event loop serves) are fair; the clock
is not, since what is due is due by the clock that was reached. In
`SemanticIndex` an announcement and a thread start under way are fair, and so is
the worker, whose provider calls are bounded by a timeout; writes, rebuilds and
shutdown are not.

**Conditions the runs make visible.** Each property above holds under the
arrangement its run states. Where the code holds it under a condition only, the
condition is here.

*Execution.*
- `Inv`, `OneAttempt` and `TerminalIsFinal` are of one thread that rebinds, among
  any that advance. `rebind_restored` looks for a live execution without the lock
  (line 471) and writes its own without looking again (572-574). With
  `Rebinders = {w, x}` TLC violates all three: a rebind that passed line 471 before
  another one writes the recorded state back after the other has gone on, so that
  the step of a live attempt is pending again and is attempted a second time, or an
  execution that was cancelled, failed or completed is open again, although the
  method says that "a completed step stays completed and is never run a second time"
  (lines 437-439). `BeginRebind` takes the reads from line 450 to 571 in one step; with
  one thread that rebinds nothing they read changes in between, since nothing is live.
- `RunningSettles`, `KeepsItsPromise`, `PaidFor` and `ExplanationIsCurrent` are of
  one advancing thread. The code has no lock or worker that gives it: mission
  recovery, background continuations and autonomy run on the request worker, but
  "Advance one step", "Continue bounded", "Resume after restart" and the rulings run
  on the window's thread. What
  keeps them apart is that the window greys their buttons while a request is active
  (`_request_button`, `TkinterDesktopWindow.py:1556`); only "Cancel execution" stays
  usable. The same greying gives the one thread that rebinds.
  With two, a second advance that blocks the next step closes the plan to the
  running step's outcome (hazard at line 1792), and the step stays running until a
  restart; the two advances' documents can replace each other in the wrong order;
  the refund of one erases the charge of the other; and an advance that comes
  between the last two steps of a rebind finds no allowance and pauses for an authority
  that is there a moment later.
- A document captured before a cancellation can be written after it (line 1706):
  with every call returned the cancellation is not on disk. The record then still
  says that the step was begun, which is why the promise holds.

*Queue and schedules.*
- `AttemptsAccounted` holds across a restart for writes that succeed and one
  worker. A claim whose failed write is swallowed is run again by the next
  process. `JsonFileBackgroundTaskStore` refuses more than 500 tasks and closed
  ones are never removed, so that a long life ends in saves that all fail.
- The save that ends a cycle is made without the lock (line 463): a task created
  beside it can be missing from the document until the next save.
  `tests/integration/test_scheduler_task_serialization.py:272`, "the durable
  document holds both", is about two creates, which hold the lock over theirs.
- The scheduler's `RunningSettles` excepts a task whose run raised (`raised`).
- `DueIsConsidered` excepts a wake-up used up by a thread that did not start; the
  record waits for the next arming. It holds of the record, not of its run: with
  more than one schedule, a call that arms again while the worker is about to
  fire a due record finds that same record pending, and the busy wake-up skips it.
- `ClaimIsResolved` leaves out claims whose process died, which stay claimed.
  They are not repeated.

*Approvals.*
- `StartsOnce` is of processes that did not die with an outdated document of
  approvals (`lost`); `SpentForGood`, which has no such condition, is violated. The
  service saves its capture with no lock over the two (line 629), but the race is
  hard to reach by clicking: the panel's buttons are grey while a request runs.
- `MissionOnce` is likewise of processes that did not die with an outdated
  document of executions.
- A confirmation whose save failed, and the approval a caller is told was "not
  recorded" (`CuriosityApplicationService.py:254-260`), stay in memory, and the
  next save of any thread makes them durable.
- A mission refused because its checkpoint failed can be in the document all the
  same, when another thread captured it before the refusal took it back. After a
  restart it is recovered. `MissionOnce` still holds, because the request is then
  taken.
- The statements between looking at an approval and marking it (lines 476-498),
  and `_snapshots`, which goes through the live executions without the lock, are
  one step each. CPython may switch threads in either.

*Sessions.*
- Every property leaves out a write beside a rename (`torn`). With one, an answer
  is gone from memory when the rename commits the snapshot it took before, and
  the next save removes it from the document.
- A rename takes its snapshots of the registry and of the memory one after the other,
  each under its own lock (`SessionRenameTransactionService.py:43-44`). `PlanRename` takes
  both in one step, and `torn` counts what is written after it: a session that is
  created, selected or deleted between the two is forgotten, or comes back, with
  `torn` false.
- A death between the two writes of a rename, or a rollback that cannot be
  written, leaves records that name a session no document registers (`halved`).
- An answer whose session was renamed or deleted while it was composed names a
  session that is gone (`stray`).

*Semantic index.*
- `NeverOlder` holds for one writing thread, the arrangement of the run: with two (`Clients = {c1, c2}`), the events of two updates of a record
  can arrive in the other order, and the older text is published last (hazard at
  line 364).
- `AnswersAreCurrent` and `NeverOlder` leave out what a full queue turned away
  and failures that the full set of failed ids does not keep (`missed`): an older
  embedding in flight is published then and its success clears the diagnostic,
  although `README.md:1620` says that "a later update or delete prevents an older
  in-flight result from being published". `AnswersAreCurrent` leaves out expired
  records too, which may keep a vector; recall reads the record before it uses
  one.
- `Settles` excepts a shutdown: a worker that finds the runtime stopped before it
  takes a rebuild leaves `_rebuilding` set, and `wait_for_idle` answers False from
  then on.

## 4. What is proved

Every theorem is of the module's `Spec`, with no fairness, and for every value of
the constants that its named assumption allows: `StepCountAssumption` (a plan has
a step), `ConfigAssumption`, `SchedulerAssumption`, `OneShotAssumption`,
`StartsAssumption`, `MaxRequestsAssumption`, `SessionsAssumption`,
`ExpiringAssumption` and `BoundsAssumption` say that bounds are numbers, that a
thread is of the set it is said to be of, and that the panel and the worker of
`Sessions` are two. TLC evaluates each of them. Where a property holds under a
condition only, the condition is a hypothesis written in the theorem: `OneRebinder`
(at most one thread rebinds), `Sole` (one thread advances an execution), `Reliable`
(one worker runs the queue, and writes succeed), `OneClient` (one thread changes
memories). Section 3 says what happens without them. On the desktop the controls
that are grey while its one request runs give `OneRebinder`, `Sole` and the one
worker of the queue; nothing in the code gives writes that succeed.

### Plan execution

`PlanExecutionStateProofs` and `PlanExecutionProofs`, for every `N`, every set
of plans, budget and bound on restarts, in three layers.

For any set of threads, those that rebind included:

* `TypeCorrect`: `Spec => []TypeOK`; in particular no refund takes an
  allowance below zero.
* `Soundness`: `Spec => []Values`, and from it `AlwaysConstructible`
  (`Constructible`) and `CompletedRan` (`CompletedWasRun`).

For any set of threads of which at most one rebinds (`OneRebinder`), from `Inv`:

* `Invariance`: `OneRebinder => (Spec => []Inv)`
* `OneAttemptAtATime`: at most one thread is between the commit of a start and
  the commit of its outcome.
* `FinalStaysFinal`: `[][IsTerminal(exec) => exec' = exec \/ crashes' > crashes]_vars`.

For one thread that advances and any number that cancel (`Sole`), from `Solo`:

* `PromiseKept`: `Sole => (Spec => KeepsItsPromise)`, the refinement of
  `ApprovedPlan`.
* `CallsArePaidFor` (`PaidFor`) and `ExplainedTruly` (`ExplanationIsCurrent`).

`OneAttempt` is not inductive: two threads can both have
decided to start a step, and nothing in `OneAttempt` says that the second
commit will fail. `Inv` adds what each thread's locals promise (`JobAgrees`)
and that an attempt shows in the live execution (`ShowsAttempt`: a step is
running, or the plan was closed under it). A start can only be committed over
a state equal to the one it was decided from; that state had no step running
(`CanStartStep`, kept in `JobAgrees`); so while another thread is attempting,
the live execution differs from it and the commit fails. In turn every commit
that is made beside an attempt, a note, a block, a ruling or a recovery, leaves
the running step alone (`Running(goal) = Running(view)`) or closes the plan. A
rebind compares nothing, so `Inv` also says that there is nothing for it to overwrite
(`RebindsFirst`): until the one thread that rebinds has written, nothing is live, and
what it rebuilt is from the entry that is still restored. Two such threads break it.
`FinalStaysFinal` follows because every view a thread compares with is not
final, again from `JobAgrees`.

`Inv` is proved as `DataInv /\ JobInv`. What they say of types and of each thread's
locals needs no condition on the threads; `Together`, that is `ShowsAttempt`,
`RebindsFirst` and `OneAttempt`, they say under `OneRebinder` (`RebindsKept`, `RebindSafe`).
Most actions replace the locals of one thread: `LocalStep` and `AttemptEnds` reduce them to a fact about one record,
and `CommitShows` says what a compare-and-replace leaves. There is one lemma
per group of actions (`CallSafe`, `AdvanceSafe`, `PersistSafe`, `AttemptSafe`,
`DecisionSafe`, `CrashSafe`) with one step per action. The state module's
lemmas say that every transition stays within `Execution` and what it does to
the set of running steps.

`WellFormed` is not inductive either: a pause and a refusal exclude each other
only because a note is dropped when its step stops being next. `Sound` says so
(a note names the next pending step of a running plan, with nothing running or
interrupted), and that a cancelled plan has nothing open. Each transition takes a
sound value to a sound one, and the state module has one lemma for each that also
says what becomes of the completed, untried and interrupted steps (`StartStepSound`,
`FailStepSound`, ..., `ReboundSound`). `Values` says that every execution there is,
in memory, on disk, in a capture or in a thread's locals, is sound and claims
nothing completed that was not called; its proof looks at where each came from.

`PaidFor` and the refinement speak of the document alone, and the document is
written from captures that are old when they are written, so the invariant says
of every copy what the document will have to satisfy. `Solo` has five parts.
`Control`: the thread in charge decided from the execution that stands, or it was
cancelled beside it; the others are idle, cancelling or recording that.
`Licences`: what may still be attempted, wherever an execution is kept, is
licensed, a step that is owed is licensed and no capture offers it, and what is
interrupted is begun on disk. `Budget`: an allowance, wherever one is kept, covers
the calls made, and one more where a call is coming. `Metering`: the disk knows
whether there is an allowance, unless nothing was called or nothing is left to try
(`Late`); a rebind is the moment when memory does not know. `Explanations`: a
refusal goes with an allowance, a pause with none. Most steps are those of the
thread in charge and need `OwnStep` or `AnyStep`, which say what its new locals have to
meet; those of a thread beside it need `OtherStep`, because all it does is close
what is open. The simulation is then short: `Save` is a `Write`, `Run` is a
`Perform`, a committed ruling is a `RuleNeverRan` or nothing, its withdrawal a
`DropRuling` or nothing, `Crash` is a `Restart`, and every other step a stutter.

### Approvals

`ApprovedStartsProofs`: `Typing` (`TypeOK`), `OneStart` (`StartsOnce`), `Covered`
(`CoveredByApproval`), `Written` (`SpentIsWritten`) and `LaunchedOnce`
(`MissionOnce`), for any number of approvals, executions, requests, failed saves
and process deaths.

`StartsOnce` says nothing of the document, but a restart makes the document the
memory, so the invariant must. It cannot say that what is spent is written: a
spending is in memory before its save, and may be taken back. So a spending is
either under way in one thread or *firm* (`Firm`), and `FirmKept` says of the firm
ones that they are in the document unless it is stale, and in every capture that
could still replace the document and is not outdated. Beside it: what was begun
was spent on (`BegunSpent`), an execution is on its way in one thread and not begun
(`Owned`), a use names the execution that was planned for the approval (`Uses`), and
a thread that spends has it in memory and in its own capture (`SpentHere`).

`MissionOnce` compares requests, and a process that restarts has only the document
to know them by. `Launches` says that a mission past its checkpoint is in the
document, unless that is stale, and in every capture that could replace it
(`Remembered`, by `Durable`); that no two missions that are known, filed or captured have
one request (`Separate`); and that what was launched is known (`LaunchedKnown`).
Recovery then takes its requests from what it restored, and a request that comes
again is found taken.

### Queue and schedules

`BackgroundSchedulerProofs`: `OneRunner` (`ClaimedByOne`) and `ClosedStays`
(`ClosedStaysClosed`), for any threads, tasks, restarts and failed writes. What a
thread holds is running in the queue, or a ruling has closed it (`Claimed`), so
nobody can take, pause or queue it again; and no document, in memory, on disk or
captured, has a task before it was created (`Numbered`), so a new one is new.

`Accounted`: `Spec => [](Reliable => AttemptsAccounted)`. The runs of a task equal its
claims only if no document forgets one. `Accounts` says that every document, in
memory, on disk or captured, pays for the runs so far, with one to spare if the
task may still be claimed (`Paid`), and that a thread which holds a task has it
on disk as in memory (`Entitled`). A write that fails leaves an older document to
the next process, and a second worker can put one back with the save that ends its
cycle, hence both halves of `Reliable`.

`OneShotSchedulesProofs`: `AttemptedOnce` (`AttemptedAtMostOnce`), `OutcomeHolds`
(`OutcomeIsTrue`) and `ResolvedStays` (a triggered, skipped or cancelled record is
never written again), for any number of schedules and restarts. The invariant
relates the document with what came to pass (`Recorded`) and with what the worker
is at (`AtHand`); `ClaimedWhileRunning` says that from before the run to its end
the document says "claimed", whatever the window does beside it, which is what
keeps a cancel or a busy skip away. Nothing is assumed of the wake-up.

`Implements`: `Spec => Scheduler!Spec`. With the request worker and the window as
threads, every step of schedules, grants, wake-up and clock is a step of
`BackgroundScheduler` or a stutter; the one that takes work is `RunExact`, which
claims its task by the same `Claim` as a cycle (`ExactIsAClaim`). So what is proved of the
queue holds here: `Typing` (`TypeOK`) takes its half from `Invariance` of the queue, and
`Accounted` (`AttemptsAccounted`, for writes that succeed, since the worker is one) from its `Accounted`.

### Desktop

`DesktopRequestsProofs`: `OneAtATime` (`SingleFlight`), `OwnHandler`
(`ToOwnHandler`), `Controls` (`ControlsMatch`) and `Cancellations`
(`CancellationHolds`), for sessions of any length. The runner's flag, the threads
and the deque each know a part of what is under way; the invariant says that the
flag is up exactly while a thread is (`FlagIsThread`), that the deque holds one
completion at most and only with the flag down (`AtMostOneResult`), that a
reservation is what the event thread is in the middle of (`ReservedIsLaunching`),
and whose handler the window keeps (`HandlerInHand`).

### Sessions

`SessionsProofs`: `Typing` (`TypeOK`), `Agreement` (`SettledAgrees`), `Sessioned`
(`RecordsHaveSession`) and `NothingLost` (`NoRecordLost`), for any sessions,
answers, failed saves and process deaths. `Progress` says for each step of a
rename which of the two documents and two memories is already the candidate and
which is what it began with; with one rename at a time (`Lone`) each step then
moves one of the four.

### Semantic index

`SemanticIndexProofs`, for every set of records, clients and threads, every
capacity and every bound:

* `OneWorkerHolds`: `Spec => []OneWorker`
* `NothingAfterStopHolds` and `RebuiltIsCurrentHolds`: two action
  properties, the second for any number of writing threads.
* `Typing`: `Spec => []TypeOK`
* `AnswersAreCurrentHolds` and `NeverOlderHolds`: `OneClient => (Spec => ...)`, for
  one writing thread.

Their invariant `IInv` has five parts beside `Typed`, what they need of the
types. `OneWorker` is inductive only with `LaunchesOwn` (a thread that a client
is about to start is made and not running, and no other client's, so that a
start that fails clears no worker that runs). `NothingAfterStop` needs `NothingPendingAfterStop`.
`RebuiltIsCurrent` needs `BuildsInRebuild` (a worker that builds does so while
the runtime is rebuilding, so that an event marks it dirty and is not queued)
and `ReadIsCurrent`: what a builder has read agrees with the records, unless it
is dirty or the change is still in some client's `outbox`. `InductiveIInv`
proves each part action by action.

`Whole` adds the types and what the queue, the index and the failed ids are made
of. With one client a change is announced before the next is made, and `Single`
follows it from there: an event not yet emitted tells of the record as it is
(`EventsTrue`); a pending update, one in flight, and what a builder has read are no older than what
the runtime was told of (`PendingLatest`, `WorkLatest`, `SnapshotLatest`); and a
record that the index does not hold as it is has failed, is to be announced, is
pending or is in flight (`IndexLatest`). When nothing is, the index is current.

### Only model-checked

Liveness under fairness is out of the prover's reach: `RunningSettles` (of an
execution and of the queue), `DueIsConsidered`, `ClaimIsResolved`,
`EveryRequestAnswered`, `Settles`. Every other property of a run that passes is
stated by a theorem, under the hypotheses above. A violated one is a behaviour of
a small instance, which TLC shows.

## 5. What is not modelled

* One plan in `PlanExecution`. Executions of different plans share the document
  and nothing else; a save of one plan's document therefore also rewrites the
  others'. `ApprovedStarts` has many executions and their shared document, and
  nothing of their steps.
* Mission scope, follow-up decisions, disclosure and the mission resolver, the
  target scope check, and the reports. A started execution has a research run
  bound to it, so a pause for authority is always recorded, as on the desktop.
* Network and model operations are one meter; a model step spends one of each.
  Seconds are kept as "used up or not", and charging them is one step, although
  line 1681 reads and stores an allowance as line 1418 does.
* "No capability" and "capability without a registered operation" are one kind.
* In `PlanExecution` an operation returns or raises a `ResearchError`; another
  exception is the scheduler's `RunRaises`.
* The contents of an approval or a grant (plan fingerprints, budgets, scopes):
  `ApprovedStarts` keeps which execution may use it, `OneShotSchedules` whether the
  task is eligible. An approval that has expired is one that is refused.
* Autonomy is a loop of advances with no state of its own. `PlanExecution` has
  each advance; the scheduler takes the loop's outcome as a choice among those
  `outcome_for` knows.
* The synchronous `refresh` of the index, which only tests call, the embedding
  cache (a pure function of the text), the ranking of vectors, and the memory
  store. In `SemanticIndex` a save of the manager that fails changes nothing and is
  not a step; in `Sessions` it is.
* The window is its request machinery and its wake-up; widgets, panels and read
  models are not modelled. A cancellation is a press of a button that the window
  enables.
* Exclusive ownership of the stores is assumed: one writing process at a time.
* Guest-agent transport and replay protection, research runs, step operations,
  missions and hypotheses, findings, knowledge, planner, language model, tools,
  response composition, bootstrap and configuration: sequential calls over
  append-only records, parsing, wording, input and output. Most of the
  repository's lines are of these kinds, and the map covers few of them.
  `PROJECT.json` gives the reason for each.

## 6. Plan

In order of importance:

1. **Autonomy** as a loop over `PlanExecution`, so that the scheduler's outcomes
   are derived instead of chosen, and its budget is checked against the
   allowance.
2. **Several plans in one document**: `PlanExecution` with executions that share
   `_save`, where one plan's save can put another's document back.
3. **Proofs with weaker hypotheses**: what of `Inv` survives two threads that rebind;
   of `PromiseKept`, what of it two advancing threads keep (licences and records,
   without the budget), and of `AttemptsAccounted`, which failing writes it survives.
4. **Larger instances**: two schedules, two clients of the index, three threads
   of an execution, beyond what the bounds above finish in minutes.
