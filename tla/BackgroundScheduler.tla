------------------------ MODULE BackgroundScheduler ------------------------
(***************************************************************************)
(* BackgroundResearchSchedulerApplicationService: a queue of approved      *)
(* tasks that worker cycles claim and run through autonomy, and that       *)
(* operators create, pause, resume and cancel.                             *)
(*                                                                         *)
(* A claim, a ruling and the commit of a result each hold the task lock    *)
(* over their reads, their write and their save, so each is one step.  The *)
(* run itself, and the save that ends a cycle, hold no lock.               *)
(*                                                                         *)
(* Tasks are numbered in creation order.  What autonomy makes of the       *)
(* execution is a choice among the outcomes it can report; whether an      *)
(* exact deferred task is eligible is a choice too.                        *)
(*                                                                         *)
(* Bounds: MaxTasks creations, MaxCrashes process deaths.                  *)
(***************************************************************************)
EXTENDS Naturals, FiniteSets

CONSTANTS
    Workers,        \* threads that run cycles and fire exact deferred tasks
    Operators,      \* threads that create, pause, resume and cancel
    MaxTasks,       \* bound on creations
    MaxActive,      \* max_active_tasks
    PerCycle,       \* max_tasks_per_cycle
    RetryLimits,    \* the retry limits a creation asks for
    MaxCrashes,     \* bound on process deaths
    DiskMayFail     \* whether a write of the task document can fail

ASSUME SchedulerAssumption ==
    /\ MaxTasks \in Nat /\ MaxActive \in Nat \ {0} /\ PerCycle \in Nat \ {0}
    /\ RetryLimits \subseteq Nat
    /\ MaxCrashes \in Nat
    /\ DiskMayFail \in BOOLEAN

Threads == Workers \cup Operators

VARIABLES
    tasks,      \* _tasks
    disk,       \* the task document
    job,        \* what each thread is in the middle of
    created,    \* how many tasks were ever created
    crashes,
    runs,       \* history: how often autonomy was entered for each task
    raised      \* history: tasks a run of which raised

vars == <<tasks, disk, job, created, crashes, runs, raised>>

TaskIds == 1..MaxTasks
NoTask == 0

Status == {"pending", "running", "paused", "completed", "failed", "cancelled", "interrupted"}
Closed == {"completed", "failed", "cancelled"}

Task == [status: Status \cup {"none"}, retries: Nat, limit: Nat]
Uncreated == [status |-> "none", retries |-> 0, limit |-> 0]

\* Variant: a claim may take what another thread has claimed.
RunnableOrRunning == {k \in TaskIds : tasks[k].status \in {"pending", "running"}}

Known == {k \in TaskIds : tasks[k].status # "none"}
Active == {k \in Known : tasks[k].status \notin Closed}
Runnable == {k \in TaskIds : tasks[k].status = "pending"}

\* What one autonomy run means for its task; "missing" is a run that found
\* no execution and returned no result.
Outcome == {"missing", "completed", "cancelled", "retryable", "blocked", "failed", "interrupted"}

\* A thread's locals: the task it claimed, as it claimed it; whether it is in
\* a cycle and how many more it may take; and the document it has captured.
PC == {"idle", "claim", "run", "result", "capture", "save"}
Job == [pc: PC, task: TaskIds \cup {NoTask}, held: Task, cycle: BOOLEAN, left: Nat,
        doc: [TaskIds -> Task]]
IdleJob == [pc |-> "idle", task |-> NoTask, held |-> Uncreated, cycle |-> FALSE, left |-> 0,
            doc |-> [k \in TaskIds |-> Uncreated]]

At(t, pc) == job[t].pc = pc
Become(t, j) == job' = [job EXCEPT ![t] = j]

TypeOK ==
    /\ tasks \in [TaskIds -> Task]
    /\ disk \in [TaskIds -> Task]
    /\ job \in [Threads -> Job]
    /\ created \in 0..MaxTasks
    /\ crashes \in 0..MaxCrashes
    /\ runs \in [TaskIds -> Nat]
    /\ raised \in SUBSET TaskIds

Init ==
    /\ tasks = [k \in TaskIds |-> Uncreated]
    /\ disk = tasks
    /\ job = [t \in Threads |-> IdleJob]
    /\ created = 0
    /\ crashes = 0
    /\ runs = [k \in TaskIds |-> 0]
    /\ raised = {}

\* _persist under the lock; a save that fails is swallowed.
Persisted == disk' = tasks' \/ (DiskMayFail /\ disk' = disk)

Transition(k, task) == tasks' = [tasks EXCEPT ![k] = task] /\ Persisted
InStatus(k, status) == [tasks[k] EXCEPT !.status = status]

-----------------------------------------------------------------------------
\* process_create.  The execution was looked at before the lock was taken.
Create(t) ==
    /\ At(t, "idle")
    /\ created < MaxTasks
    /\ Cardinality(Active) < MaxActive
    /\ created' = created + 1
    /\ \E limit \in RetryLimits :
          Transition(created + 1, [status |-> "pending", retries |-> 0, limit |-> limit])
    /\ UNCHANGED <<job, crashes, runs, raised>>

\* process_pause, process_resume and process_cancel.
Pause(t) ==
    /\ At(t, "idle")
    /\ \E k \in Runnable : Transition(k, InStatus(k, "paused"))
    /\ UNCHANGED <<job, created, crashes, runs, raised>>

Resume(t) ==
    /\ At(t, "idle")
    /\ \E k \in Known : tasks[k].status = "paused" /\ Transition(k, InStatus(k, "pending"))
    /\ UNCHANGED <<job, created, crashes, runs, raised>>

Cancel(t) ==
    /\ At(t, "idle")
    /\ \E k \in Active : Transition(k, InStatus(k, "cancelled"))
    /\ UNCHANGED <<job, created, crashes, runs, raised>>

-----------------------------------------------------------------------------
\* process_worker_cycle.
BeginCycle(t) ==
    /\ At(t, "idle")
    /\ Become(t, [IdleJob EXCEPT !.pc = "claim", !.cycle = TRUE, !.left = PerCycle])
    /\ UNCHANGED <<tasks, disk, created, crashes, runs, raised>>

\* Selecting and claiming are one act: the task goes to this thread alone.
Claim(t, k) ==
    /\ Transition(k, InStatus(k, "running"))
    /\ Become(t, [job[t] EXCEPT !.pc = "run", !.task = k, !.held = InStatus(k, "running"),
                                !.left = IF @ > 0 THEN @ - 1 ELSE 0])

ClaimNext(t) ==
    /\ At(t, "claim")
    /\ job[t].left > 0
    /\ \E k \in Runnable : (\A i \in Runnable : k <= i) /\ Claim(t, k)
    /\ UNCHANGED <<created, crashes, runs, raised>>

\* run_exact_deferred_task: one named task, once, with no fallback.
ClaimExact(t) ==
    /\ At(t, "idle")
    /\ \E k \in Runnable : Claim(t, k)
    /\ UNCHANGED <<created, crashes, runs, raised>>

\* The bound is reached, nothing is runnable, or the request was cancelled.
EndCycle(t) ==
    /\ At(t, "claim")
    /\ Become(t, [job[t] EXCEPT !.pc = "capture"])
    /\ UNCHANGED <<tasks, disk, created, crashes, runs, raised>>

\* _run enters autonomy, without the lock.
EnterAutonomy(t) ==
    /\ At(t, "run")
    /\ runs' = [runs EXCEPT ![job[t].task] = @ + 1]
    /\ Become(t, [job[t] EXCEPT !.pc = "result"])
    /\ UNCHANGED <<tasks, disk, created, crashes, raised>>

\* Variant: a run without a result leaves its task as it was claimed.
SettledIfResult(task, outcome) ==
    IF outcome = "missing" THEN task
    ELSE IF outcome = "retryable" /\ task.retries < task.limit
        THEN [task EXCEPT !.status = "pending", !.retries = @ + 1]
    ELSE [task EXCEPT !.status = "completed"]

\* What becomes of a task that is still as it was claimed.
Settled(task, outcome) ==
    IF outcome = "completed" THEN [task EXCEPT !.status = "completed"]
    ELSE IF outcome = "cancelled" THEN [task EXCEPT !.status = "cancelled"]
    ELSE IF outcome = "retryable" /\ task.retries < task.limit
        THEN [task EXCEPT !.status = "pending", !.retries = @ + 1]
    ELSE [task EXCEPT !.status = "failed"]

\* Variant: a result written over whatever the task has become.
CommitResultBlindly(t) ==
    /\ At(t, "result")
    /\ \E outcome \in Outcome :
          Transition(job[t].task, Settled(job[t].held, outcome))
    /\ Become(t, IF job[t].cycle
                 THEN [job[t] EXCEPT !.pc = "claim", !.task = NoTask, !.held = Uncreated]
                 ELSE IdleJob)
    /\ UNCHANGED <<created, crashes, runs, raised>>

\* _run, back under the lock.  A task that moved on meanwhile keeps the newer
\* ruling: its outcome is dropped.
CommitResult(t) ==
    LET k == job[t].task IN
    /\ At(t, "result")
    /\ \E outcome \in Outcome :
          Transition(k, IF tasks[k] = job[t].held THEN Settled(tasks[k], outcome) ELSE tasks[k])
    /\ Become(t, IF job[t].cycle
                 THEN [job[t] EXCEPT !.pc = "claim", !.task = NoTask, !.held = Uncreated]
                 ELSE IdleJob)
    /\ UNCHANGED <<created, crashes, runs, raised>>

\* Autonomy raises, as it does when an operation raises anything but a
\* ResearchError: nothing is recorded, the call ends, the task stays running.
RunRaises(t) ==
    /\ At(t, "result")
    /\ Become(t, IdleJob)
    /\ raised' = raised \cup {job[t].task}
    /\ UNCHANGED <<tasks, disk, created, crashes, runs>>

\* The _persist that ends a cycle: the snapshot is taken under the lock, the
\* save is made without it.
CaptureTasks(t) ==
    /\ At(t, "capture")
    /\ Become(t, [job[t] EXCEPT !.pc = "save", !.doc = tasks])
    /\ UNCHANGED <<tasks, disk, created, crashes, runs, raised>>

SaveTasks(t) ==
    /\ At(t, "save")
    /\ disk' = job[t].doc \/ (DiskMayFail /\ disk' = disk)
    /\ Become(t, IdleJob)
    /\ UNCHANGED <<tasks, created, crashes, runs, raised>>

\* Variant: a restart that queues what was running.
RecoveredPending(task) ==
    IF task.status = "running" THEN [task EXCEPT !.status = "pending"] ELSE task

\* The process dies, and _restore loads the document.
Recovered(task) == IF task.status = "running" THEN [task EXCEPT !.status = "interrupted"] ELSE task

Crash ==
    /\ crashes < MaxCrashes
    /\ crashes' = crashes + 1
    /\ tasks' = [k \in TaskIds |-> Recovered(disk[k])]
    /\ job' = [t \in Threads |-> IdleJob]
    /\ UNCHANGED <<disk, created, runs, raised>>

-----------------------------------------------------------------------------
\* The steps a call takes by itself once it is under way.
Continue(t) ==
    \/ ClaimNext(t) \/ EndCycle(t) \/ EnterAutonomy(t) \/ CommitResult(t) \/ RunRaises(t)
    \/ CaptureTasks(t) \/ SaveTasks(t)

Next ==
    \/ \E t \in Operators : Create(t) \/ Pause(t) \/ Resume(t) \/ Cancel(t)
    \/ \E t \in Workers : BeginCycle(t) \/ ClaimExact(t) \/ Continue(t)
    \/ Crash

Spec == Init /\ [][Next]_vars

\* Threads are scheduled, and autonomy is bounded in steps and seconds.
FairSpec == Spec /\ \A t \in Workers : WF_vars(Continue(t))

-----------------------------------------------------------------------------
Holding(t) == job[t].pc \in {"run", "result"}

\* Two cycles, or a cycle and a deferred fire, never run the same task at the
\* same time.
ClaimedByOne ==
    \A t, u \in Threads : (Holding(t) /\ Holding(u) /\ job[t].task = job[u].task) => t = u

\* A task that is completed, failed or cancelled is never touched again in its
\* process: the result of a run that ends later is dropped.
ClosedStaysClosed ==
    [][\A k \in TaskIds : tasks[k].status \in Closed =>
          tasks'[k] = tasks[k] \/ crashes' > crashes]_vars

\* Autonomy is entered once for a task, and once more for each retry that was
\* scheduled, within the limit the task was created with; a restart adds none.
AttemptsAccounted ==
    \A k \in Known : runs[k] <= tasks[k].retries + 1 /\ tasks[k].retries <= tasks[k].limit

\* A running task does not stay running, unless its run raised.
RunningSettles == \A k \in TaskIds :
    tasks[k].status = "running" ~> (tasks[k].status # "running" \/ k \in raised)
=============================================================================
