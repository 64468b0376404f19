------------------------ MODULE BackgroundSchedulerProofs ------------------------
(***************************************************************************)
(* Theorems of BackgroundScheduler, for any set of threads, any number of  *)
(* tasks, restarts and failed writes: a task is run by one thread at a     *)
(* time, and a closed task stays as it is.  With one worker and writes that *)
(* succeed, its attempts are the runs its retries allow.                   *)
(*                                                                         *)
(* They rest on what a thread's claim means to the others: while a task is *)
(* held it is running, or a ruling has closed it, so that nobody can take  *)
(* it, pause it or queue it again.                                         *)
(***************************************************************************)
EXTENDS BackgroundScheduler, TLAPS

\* No document, in memory, on disk or captured, has a task before its creation.
Numbered(doc) == \A k \in TaskIds : doc[k].status # "none" => k <= created

\* What the claim of thread t guarantees it.
Claimed(t) ==
    /\ job[t].task \in TaskIds
    /\ job[t].task <= created
    /\ job[t].held.status = "running"
    /\ tasks[job[t].task].status \in {"running"} \cup Closed

IInv ==
    /\ TypeOK
    /\ Numbered(tasks) /\ Numbered(disk) /\ \A t \in Threads : Numbered(job[t].doc)
    /\ \A t \in Threads : Holding(t) => Claimed(t)
    /\ ClaimedByOne

LEMMA IdleTyped == IdleJob \in Job
BY DEF IdleJob, Job, PC, Task, Uncreated

LEMMA InitIInv == Init => IInv
<1> SUFFICES ASSUME Init PROVE IInv
    OBVIOUS
<1> USE DEF Init, Uncreated
<1>1. TypeOK
    BY SchedulerAssumption, IdleTyped DEF TypeOK, Task
<1>2. Numbered(tasks) /\ Numbered(disk) /\ \A t \in Threads : Numbered(job[t].doc)
    BY DEF Numbered, IdleJob
<1>3. \A t \in Threads : ~Holding(t)
    BY DEF Holding, IdleJob
<1> QED  BY <1>1, <1>2, <1>3 DEF IInv, ClaimedByOne

-----------------------------------------------------------------------------
\* A write of one task, made under the lock.
LEMMA Transitions ==
    ASSUME IInv, NEW k \in TaskIds, NEW task \in Task, Transition(k, task),
           created' \in 0..MaxTasks, created <= created', k <= created'
    PROVE  /\ tasks' \in [TaskIds -> Task] /\ disk' \in [TaskIds -> Task]
           /\ Numbered(tasks)' /\ Numbered(disk)'
           /\ tasks'[k] = task
           /\ \A i \in TaskIds : i # k => tasks'[i] = tasks[i]
<1>1. /\ tasks' \in [TaskIds -> Task] /\ tasks'[k] = task
      /\ \A i \in TaskIds : i # k => tasks'[i] = tasks[i]
    BY DEF Transition, IInv, TypeOK
<1>2. disk' = tasks' \/ disk' = disk
    BY DEF Transition, Persisted
<1>3. disk' \in [TaskIds -> Task]
    BY <1>1, <1>2 DEF IInv, TypeOK
<1>4. created \in Nat /\ created' \in Nat /\ TaskIds \subseteq Nat
    BY SchedulerAssumption DEF IInv, TypeOK, TaskIds
<1>5. Numbered(tasks)'
    BY <1>1, <1>4 DEF Numbered, IInv
<1>6. Numbered(disk)'
    BY <1>2, <1>4, <1>5 DEF Numbered, IInv
<1> QED  BY <1>1, <1>3, <1>5, <1>6

\* A ruling, or a creation: no thread's job changes.
LEMMA RulingKeeps ==
    ASSUME IInv, NEW k \in TaskIds, NEW task \in Task, Transition(k, task),
           created' \in 0..MaxTasks, created <= created', k <= created',
           tasks[k].status \in {"running"} \cup Closed => task.status \in {"running"} \cup Closed,
           k <= created \/ tasks[k].status = "none",
           UNCHANGED <<job, crashes, runs, raised>>
    PROVE  IInv'
<1>1. /\ tasks' \in [TaskIds -> Task] /\ disk' \in [TaskIds -> Task]
      /\ Numbered(tasks)' /\ Numbered(disk)'
      /\ tasks'[k] = task
      /\ \A i \in TaskIds : i # k => tasks'[i] = tasks[i]
    BY Transitions
<1>2. created \in Nat /\ created' \in Nat /\ TaskIds \subseteq Nat
    BY SchedulerAssumption DEF IInv, TypeOK, TaskIds
<1>3. TypeOK'
    BY <1>1 DEF IInv, TypeOK
<1>4. \A t \in Threads : Numbered(job[t].doc)'
    BY <1>2 DEF IInv, Numbered
<1>5. ASSUME NEW t \in Threads, Holding(t)'  PROVE Claimed(t)'
  <2>1. Holding(t) /\ Claimed(t) /\ job' = job
      BY <1>5 DEF IInv, Holding
  <2>2. CASE job[t].task = k
      BY <1>1, <1>2, <2>1, <2>2 DEF Claimed
  <2>3. CASE job[t].task # k
    <3>1. job[t].task \in TaskIds /\ job[t].task <= created
        BY <2>1 DEF Claimed
    <3>2. tasks'[job[t].task] = tasks[job[t].task]
        BY <1>1, <2>3, <3>1
    <3>3. job[t].task \in Nat
        BY <1>2, <3>1
    <3>4. job[t].task <= created'
        BY <1>2, <3>1, <3>3
    <3> QED  BY <2>1, <3>2, <3>4 DEF Claimed
  <2> QED  BY <2>2, <2>3
<1>6. ClaimedByOne'
    BY DEF IInv, ClaimedByOne, Holding
<1> QED  BY <1>1, <1>3, <1>4, <1>5, <1>6 DEF IInv

LEMMA OperatorKeeps ==
    ASSUME IInv, NEW t \in Operators, Create(t) \/ Pause(t) \/ Resume(t) \/ Cancel(t)
    PROVE  IInv'
<1>1. /\ created \in 0..MaxTasks /\ MaxTasks \in Nat
      /\ tasks \in [TaskIds -> Task]
      /\ \A k \in Known : k \in TaskIds /\ k <= created
    BY SchedulerAssumption DEF IInv, TypeOK, Known, Numbered
<1>2. CASE Create(t)
  <2>1. created + 1 \in TaskIds /\ created' = created + 1 /\ created' \in 0..MaxTasks /\ created <= created'
      BY <1>1, <1>2 DEF Create, TaskIds
  <2>2. PICK limit \in RetryLimits :
          Transition(created + 1, [status |-> "pending", retries |-> 0, limit |-> limit])
      BY <1>2 DEF Create
  <2> DEFINE new == [status |-> "pending", retries |-> 0, limit |-> limit]
  <2>3. new \in Task
      BY <2>2, SchedulerAssumption DEF Task, Status
  <2>4. tasks[created + 1].status = "none"
      BY <1>1, <2>1 DEF Known
  <2>5. UNCHANGED <<job, crashes, runs, raised>>
      BY <1>2 DEF Create
  <2> HIDE DEF new
  <2> QED  BY <1>1, <2>1, <2>2, <2>3, <2>4, <2>5, RulingKeeps DEF new, Closed
<1>3. ASSUME NEW k \in Known, NEW status \in Status, Transition(k, InStatus(k, status)),
             status \in Closed \/ tasks[k].status \in {"pending", "paused"},
             UNCHANGED <<job, created, crashes, runs, raised>>
      PROVE  IInv'
  <2>1. InStatus(k, status) \in Task /\ InStatus(k, status).status = status
      BY <1>1 DEF InStatus, Task, Known
  <2>2. created' = created /\ created <= created'
      BY <1>1, <1>3
  <2> QED  BY <1>1, <1>3, <2>1, <2>2, RulingKeeps DEF Closed
<1>4. CASE Pause(t)
    BY <1>3, <1>4 DEF Pause, Runnable, Known, Status
<1>5. CASE Resume(t)
    BY <1>3, <1>5 DEF Resume, Status
<1>6. CASE Cancel(t)
    BY <1>3, <1>6 DEF Cancel, Active, Status, Closed
<1> QED  BY <1>2, <1>4, <1>5, <1>6

-----------------------------------------------------------------------------
\* A claim: the task was pending, so that nobody held it.
LEMMA ClaimKeeps ==
    ASSUME IInv, NEW t \in Threads, NEW k \in Runnable, Claim(t, k),
           UNCHANGED <<created, crashes, runs, raised>>
    PROVE  IInv'
<1> DEFINE new == InStatus(k, "running")
           mine == [job[t] EXCEPT !.pc = "run", !.task = k, !.held = new,
                                  !.left = IF @ > 0 THEN @ - 1 ELSE 0]
<1>1. /\ k \in TaskIds /\ tasks[k].status = "pending" /\ tasks[k] \in Task
      /\ k <= created /\ created \in 0..MaxTasks /\ created \in Nat /\ job[t] \in Job
      /\ job \in [Threads -> Job]
    BY SchedulerAssumption DEF IInv, TypeOK, Runnable, Numbered
<1>2. new \in Task /\ new.status = "running"
    BY <1>1 DEF InStatus, Task, Status
<1>3. Transition(k, new) /\ job' = [job EXCEPT ![t] = mine]
    BY DEF Claim, Become
<1>4. /\ mine \in Job /\ mine.task = k /\ mine.held.status = "running" /\ mine.doc = job[t].doc
  <2> HIDE DEF new
  <2>1. (IF job[t].left > 0 THEN job[t].left - 1 ELSE 0) \in Nat
      BY <1>1 DEF Job
  <2> QED  BY <1>1, <1>2, <2>1 DEF Job, PC
<1> HIDE DEF new, mine
<1>5. /\ tasks' \in [TaskIds -> Task] /\ disk' \in [TaskIds -> Task]
      /\ Numbered(tasks)' /\ Numbered(disk)'
      /\ tasks'[k] = new
      /\ \A i \in TaskIds : i # k => tasks'[i] = tasks[i]
    BY <1>1, <1>2, <1>3, Transitions
<1>6. job' \in [Threads -> Job] /\ job'[t] = mine /\ \A u \in Threads : u # t => job'[u] = job[u]
    BY <1>1, <1>3, <1>4
<1>7. TypeOK'
    BY <1>5, <1>6 DEF IInv, TypeOK
<1>8. ASSUME NEW u \in Threads  PROVE Numbered(job[u].doc)'
    BY <1>4, <1>6 DEF IInv, Numbered
<1>9. ASSUME NEW u \in Threads, Holding(u)', u # t  PROVE Claimed(u)' /\ job[u].task # k
  <2>1. Claimed(u) /\ job'[u] = job[u]
      BY <1>6, <1>9 DEF IInv, Holding
  <2>2. job[u].task # k
      BY <1>1, <2>1 DEF Claimed, Closed
  <2> QED  BY <1>5, <2>1, <2>2 DEF Claimed
<1>10. Claimed(t)'
    BY <1>1, <1>2, <1>4, <1>5, <1>6 DEF Claimed
<1>11. ClaimedByOne'
    BY <1>4, <1>6, <1>9 DEF IInv, ClaimedByOne, Holding
<1> QED  BY <1>5, <1>7, <1>8, <1>9, <1>10, <1>11 DEF IInv

\* A step of thread t's own that writes no task and holds nothing it did not.
LEMMA LocalKeeps ==
    ASSUME IInv, NEW t \in Threads, NEW mine \in Job, Become(t, mine),
           Numbered(mine.doc), UNCHANGED <<tasks, created, crashes>>,
           disk' = disk \/ disk' = job[t].doc,
           runs' \in [TaskIds -> Nat], raised' \in SUBSET TaskIds,
           mine.pc \in {"run", "result"} =>
               Holding(t) /\ mine.task = job[t].task /\ mine.held = job[t].held
    PROVE  IInv'
<1>1. job' \in [Threads -> Job] /\ job'[t] = mine /\ \A u \in Threads : u # t => job'[u] = job[u]
    BY DEF Become, IInv, TypeOK
<1>2. job[t].doc \in [TaskIds -> Task] /\ Numbered(job[t].doc)
    BY DEF IInv, TypeOK, Job
<1>3. TypeOK'
    BY <1>1, <1>2 DEF IInv, TypeOK
<1>4. Numbered(tasks)' /\ Numbered(disk)' /\ \A u \in Threads : Numbered(job[u].doc)'
    BY <1>1, <1>2 DEF IInv, Numbered
<1>5. \A u \in Threads : Holding(u)' => Holding(u) /\ job'[u].task = job[u].task /\ job'[u].held = job[u].held
    BY <1>1 DEF Holding
<1>6. \A u \in Threads : Holding(u)' => Claimed(u)'
    BY <1>5 DEF IInv, Claimed
<1>7. ClaimedByOne'
    BY <1>5 DEF IInv, ClaimedByOne
<1> QED  BY <1>3, <1>4, <1>6, <1>7 DEF IInv

LEMMA StepKeeps ==
    ASSUME IInv, NEW t \in Threads,
           BeginCycle(t) \/ EndCycle(t) \/ EnterAutonomy(t) \/ RunRaises(t)
               \/ CaptureTasks(t) \/ SaveTasks(t)
    PROVE  IInv'
<1> DEFINE k == job[t].task
<1>1. /\ job[t] \in Job /\ Numbered(job[t].doc) /\ Numbered(tasks) /\ tasks \in [TaskIds -> Task]
      /\ runs \in [TaskIds -> Nat] /\ raised \in SUBSET TaskIds
    BY DEF IInv, TypeOK
<1>2. IdleJob \in Job /\ Numbered(IdleJob.doc) /\ IdleJob.pc = "idle"
    BY IdleTyped DEF IdleJob, Numbered, Uncreated
<1>3. CASE BeginCycle(t)
  <2> DEFINE mine == [IdleJob EXCEPT !.pc = "claim", !.cycle = TRUE, !.left = PerCycle]
  <2>1. mine \in Job /\ mine.doc = IdleJob.doc /\ mine.pc = "claim"
      BY <1>2, SchedulerAssumption DEF Job, PC
  <2>2. Become(t, mine)
      BY <1>3 DEF BeginCycle
  <2> HIDE DEF mine
  <2> QED  BY <1>1, <1>2, <1>3, <2>1, <2>2, LocalKeeps DEF BeginCycle
<1>4. CASE EndCycle(t)
  <2> DEFINE mine == [job[t] EXCEPT !.pc = "capture"]
  <2>1. mine \in Job /\ mine.doc = job[t].doc /\ mine.pc = "capture"
      BY <1>1 DEF Job, PC
  <2>2. Become(t, mine)
      BY <1>4 DEF EndCycle
  <2> HIDE DEF mine
  <2> QED  BY <1>1, <1>4, <2>1, <2>2, LocalKeeps DEF EndCycle
<1>5. CASE EnterAutonomy(t)
  <2> DEFINE mine == [job[t] EXCEPT !.pc = "result"]
  <2>1. mine \in Job /\ mine.doc = job[t].doc /\ mine.task = k /\ mine.held = job[t].held
      BY <1>1 DEF Job, PC
  <2>2. Become(t, mine) /\ Holding(t)
      BY <1>5 DEF EnterAutonomy, Holding, At
  <2>3. runs' \in [TaskIds -> Nat]
    <3>1. \A i \in TaskIds : runs[i] + 1 \in Nat
        BY <1>1
    <3>2. runs' = [runs EXCEPT ![k] = runs[k] + 1]
        BY <1>5 DEF EnterAutonomy
    <3> QED  BY <1>1, <3>1, <3>2
  <2> HIDE DEF mine
  <2> QED  BY <1>1, <1>5, <2>1, <2>2, <2>3, LocalKeeps DEF EnterAutonomy
<1>6. CASE RunRaises(t)
  <2>1. k \in TaskIds
      BY <1>6 DEF RunRaises, At, IInv, Holding, Claimed
  <2> QED  BY <1>1, <1>2, <1>6, <2>1, LocalKeeps DEF RunRaises
<1>7. CASE CaptureTasks(t)
  <2> DEFINE mine == [job[t] EXCEPT !.pc = "save", !.doc = tasks]
  <2>1. mine \in Job /\ mine.doc = tasks /\ mine.pc = "save"
      BY <1>1 DEF Job, PC
  <2>2. Become(t, mine)
      BY <1>7 DEF CaptureTasks
  <2> HIDE DEF mine
  <2> QED  BY <1>1, <1>7, <2>1, <2>2, LocalKeeps DEF CaptureTasks
<1>8. CASE SaveTasks(t)
    BY <1>1, <1>2, <1>8, LocalKeeps DEF SaveTasks
<1> QED  BY <1>3, <1>4, <1>5, <1>6, <1>7, <1>8

\* A result is committed by the one that holds the task, and only if nobody
\* has ruled on it since.
LEMMA CommitKeeps ==
    ASSUME IInv, NEW t \in Threads, CommitResult(t)
    PROVE  IInv'
<1> DEFINE k == job[t].task
<1>1. Holding(t) /\ Claimed(t)
    BY DEF CommitResult, At, Holding, IInv
<1>2. /\ k \in TaskIds /\ k <= created /\ tasks[k] \in Task
      /\ created \in 0..MaxTasks /\ created \in Nat /\ job[t] \in Job /\ job \in [Threads -> Job]
    BY <1>1, SchedulerAssumption DEF IInv, TypeOK, Claimed
<1>3. PICK new \in Task : Transition(k, new)
  <2>1. PICK outcome \in Outcome :
          Transition(k, IF tasks[k] = job[t].held THEN Settled(tasks[k], outcome) ELSE tasks[k])
      BY DEF CommitResult
  <2>2. Settled(tasks[k], outcome) \in Task
    <3>1. \A status \in Status : [tasks[k] EXCEPT !.status = status] \in Task
        BY <1>2 DEF Task
    <3>2. tasks[k].retries + 1 \in Nat
        BY <1>2 DEF Task
    <3>3. [tasks[k] EXCEPT !.status = "pending", !.retries = @ + 1] \in Task
        BY <1>2, <3>2 DEF Task, Status
    <3> QED  BY <3>1, <3>3 DEF Settled, Status
  <2> QED  BY <1>2, <2>1, <2>2
<1>4. PICK mine \in Job : /\ job' = [job EXCEPT ![t] = mine] /\ Numbered(mine.doc)
                          /\ mine.pc \notin {"run", "result"}
  <2>1. CASE job[t].cycle
    <3> DEFINE mine == [job[t] EXCEPT !.pc = "claim", !.task = NoTask, !.held = Uncreated]
    <3>1. mine \in Job /\ mine.doc = job[t].doc /\ mine.pc = "claim"
        BY <1>2 DEF Job, PC, Task, Uncreated
    <3>2. job' = [job EXCEPT ![t] = mine]
        BY <2>1 DEF CommitResult, Become
    <3> HIDE DEF mine
    <3> QED  BY <3>1, <3>2 DEF IInv
  <2>2. CASE ~job[t].cycle
      BY <2>2, IdleTyped DEF CommitResult, Become, IdleJob, Numbered, Uncreated
  <2> QED  BY <2>1, <2>2
<1>5. UNCHANGED <<created, crashes, runs, raised>>
    BY DEF CommitResult
<1>6. /\ tasks' \in [TaskIds -> Task] /\ disk' \in [TaskIds -> Task]
      /\ Numbered(tasks)' /\ Numbered(disk)'
      /\ \A i \in TaskIds : i # k => tasks'[i] = tasks[i]
    BY <1>2, <1>3, <1>5, Transitions
<1>7. job' \in [Threads -> Job] /\ job'[t] = mine /\ \A u \in Threads : u # t => job'[u] = job[u]
    BY <1>2, <1>4
<1>8. TypeOK'
    BY <1>5, <1>6, <1>7 DEF IInv, TypeOK
<1>9. \A u \in Threads : Numbered(job[u].doc)'
    BY <1>4, <1>5, <1>7 DEF IInv, Numbered
<1>10. \A u \in Threads : Holding(u)' => u # t /\ Holding(u) /\ job'[u] = job[u]
    BY <1>4, <1>7 DEF Holding
<1>11. ASSUME NEW u \in Threads, Holding(u)'  PROVE Claimed(u)'
  <2>1. Claimed(u) /\ job[u].task # k
      BY <1>1, <1>10, <1>11 DEF IInv, ClaimedByOne
  <2> QED  BY <1>5, <1>6, <1>10, <1>11, <2>1 DEF Claimed
<1>12. ClaimedByOne'
    BY <1>10 DEF IInv, ClaimedByOne
<1> QED  BY <1>6, <1>8, <1>9, <1>11, <1>12 DEF IInv

\* A new process holds nothing, and has what the document had.
LEMMA CrashKeeps ==
    ASSUME IInv, Crash
    PROVE  IInv'
<1>1. \A k \in TaskIds : Recovered(disk[k]) \in Task /\ (Recovered(disk[k]).status # "none" => disk[k].status # "none")
    BY DEF IInv, TypeOK, Recovered, Task, Status
<1>2. crashes' \in 0..MaxCrashes
    BY SchedulerAssumption DEF Crash, IInv, TypeOK
<1>3. TypeOK'
    BY <1>1, <1>2, IdleTyped DEF Crash, IInv, TypeOK
<1>4. Numbered(tasks)' /\ Numbered(disk)'
    BY <1>1 DEF Crash, IInv, Numbered
<1>5. \A t \in Threads : Numbered(job[t].doc)' /\ ~Holding(t)'
    BY DEF Crash, IdleJob, Numbered, Uncreated, Holding
<1> QED  BY <1>3, <1>4, <1>5 DEF IInv, ClaimedByOne

LEMMA StepIInv == IInv /\ [Next]_vars => IInv'
<1> SUFFICES ASSUME IInv, [Next]_vars PROVE IInv'
    OBVIOUS
<1>1. CASE UNCHANGED vars
    BY <1>1 DEF vars, IInv, TypeOK, Numbered, Holding, Claimed, ClaimedByOne
<1>2. ASSUME NEW t \in Threads, ClaimNext(t) \/ ClaimExact(t)  PROVE IInv'
    BY <1>2, ClaimKeeps DEF ClaimNext, ClaimExact
<1>3. CASE Next
    BY <1>2, <1>3, OperatorKeeps, StepKeeps, CommitKeeps, CrashKeeps DEF Next, Continue, Threads
<1> QED  BY <1>1, <1>3

-----------------------------------------------------------------------------
\* The inductive invariant holds of every reachable state.
THEOREM Invariance == Spec => []IInv
BY InitIInv, StepIInv, PTL DEF Spec

\* Two threads never run the same task at the same time.
THEOREM OneRunner == Spec => []ClaimedByOne
<1>1. IInv => ClaimedByOne
    BY DEF IInv
<1> QED  BY <1>1, Invariance, PTL

\* A closed task is left alone until its process ends.
THEOREM ClosedStays == Spec => ClosedStaysClosed
<1> DEFINE Kept == \A k \in TaskIds : tasks[k].status \in Closed => tasks'[k] = tasks[k] \/ crashes' > crashes
<1>1. ASSUME IInv, NEW k \in TaskIds, NEW task, tasks[k].status \notin Closed, Transition(k, task)
      PROVE  Kept
    BY <1>1 DEF Transition, IInv, TypeOK
<1>2. ASSUME IInv, [Next]_vars  PROVE Kept
  <2> USE <1>2
  <2>1. CASE UNCHANGED tasks
      BY <2>1
  <2>2. CASE Crash
      BY <2>2, SchedulerAssumption DEF Crash, IInv, TypeOK
  <2>3. ASSUME NEW t \in Operators, Create(t)  PROVE Kept
    <3>1. created + 1 \in TaskIds /\ tasks[created + 1].status = "none"
        BY <2>3, SchedulerAssumption DEF Create, TaskIds, IInv, TypeOK, Numbered
    <3> QED  BY <1>1, <2>3, <3>1 DEF Create, Closed
  <2>4. ASSUME NEW t \in Operators, Pause(t) \/ Resume(t) \/ Cancel(t)  PROVE Kept
      BY <1>1, <2>4 DEF Pause, Resume, Cancel, Runnable, Known, Active, Closed
  <2>5. ASSUME NEW t \in Workers, ClaimNext(t) \/ ClaimExact(t)  PROVE Kept
      BY <1>1, <2>5 DEF ClaimNext, ClaimExact, Claim, Runnable, Closed
  <2>6. ASSUME NEW t \in Workers, CommitResult(t)  PROVE Kept
    <3> DEFINE k == job[t].task
    <3>1. t \in Threads /\ Claimed(t)
        BY <2>6 DEF CommitResult, At, Holding, IInv, Threads
    <3>2. CASE tasks[k] = job[t].held
        BY <1>1, <2>6, <3>1, <3>2 DEF CommitResult, Claimed, Closed
    <3>3. CASE tasks[k] # job[t].held
        BY <2>6, <3>1, <3>3 DEF CommitResult, Transition, IInv, TypeOK
    <3> QED  BY <3>2, <3>3
  <2> QED  BY <2>1, <2>2, <2>3, <2>4, <2>5, <2>6 DEF Next, Continue, vars, BeginCycle, EndCycle,
              EnterAutonomy, RunRaises, CaptureTasks, SaveTasks
<1>3. IInv /\ [Next]_vars => [Kept]_vars
    BY <1>2
<1> QED  BY <1>3, Invariance, PTL DEF Spec, ClosedStaysClosed
-----------------------------------------------------------------------------
(***************************************************************************)
(* Autonomy is entered once for a task and once more for each retry, also  *)
(* across restarts, as long as one worker runs and writes succeed: what    *)
(* the document says of a task is then never older than its last run.      *)
(***************************************************************************)
Reliable == (\A t, u \in Workers : t = u) /\ ~DiskMayFail

\* The runs of task k are paid for by its first run and its retries; one that
\* may still be claimed, or is not there, has the coming run to spare.
Within(task, k) ==
    /\ runs[k] <= task.retries + (IF task.status \in {"none", "pending", "paused"} THEN 0 ELSE 1)
    /\ task.retries <= task.limit

Paid(doc) == \A k \in TaskIds : Within(doc[k], k)

\* A thread that holds a task has written its claim; before it enters autonomy
\* the task has that run to spare.
Entitled(t) == Holding(t) =>
    /\ disk = tasks
    /\ At(t, "run") => runs[job[t].task] <= tasks[job[t].task].retries

Accounts ==
    /\ Paid(tasks) /\ Paid(disk)
    /\ \A k \in TaskIds : k > created => runs[k] = 0
    /\ \A t \in Threads : /\ job[t].pc # "idle" => t \in Workers
                          /\ At(t, "save") => Paid(job[t].doc)
                          /\ Entitled(t)

LEMMA InitAccounts == Init => Accounts
BY SchedulerAssumption DEF Init, Accounts, Paid, Within, Uncreated, Entitled, Holding, At, IdleJob

\* One task is written, by a thread that goes on as mine.
LEMMA WriteAccounts ==
    ASSUME IInv, Reliable, Accounts, NEW t \in Threads, NEW mine \in Job, Become(t, mine),
           NEW k \in TaskIds, NEW task \in Task, Transition(k, task), UNCHANGED runs,
           Within(task, k), created' \in 0..MaxTasks, created <= created',
           mine.pc \notin {"save", "result"} \/ mine = job[t],
           mine.pc # "idle" => t \in Workers,
           mine.pc = "run" => mine.task = k /\ runs[k] <= task.retries,
           mine.pc = "idle" =>
               \A u \in Threads : u # t /\ Holding(u) /\ job[u].task = k => task.retries = tasks[k].retries
    PROVE  Accounts'
<1>1. /\ job' \in [Threads -> Job] /\ job'[t] = mine /\ \A u \in Threads : u # t => job'[u] = job[u]
    BY DEF Become, IInv, TypeOK
<1>2. /\ tasks'[k] = task /\ \A i \in TaskIds : i # k => tasks'[i] = tasks[i]
      /\ disk' = tasks'
    BY DEF Transition, Persisted, Reliable, IInv, TypeOK
<1>3. Paid(tasks)' /\ Paid(disk)'
    BY <1>2 DEF Accounts, Paid, Within
<1>4. \A i \in TaskIds : i > created' => i > created
    BY SchedulerAssumption DEF IInv, TypeOK, TaskIds
<1>5. \A i \in TaskIds : i > created' => runs'[i] = 0
    BY <1>4 DEF Accounts
<1>6. ASSUME NEW u \in Threads  PROVE job'[u].pc # "idle" => u \in Workers
    BY <1>1 DEF Accounts
<1>7. ASSUME NEW u \in Threads, At(u, "save")'  PROVE Paid(job[u].doc)'
  <2>1. At(u, "save") /\ job'[u] = job[u]
      BY <1>1, <1>7 DEF At
  <2> QED  BY <2>1 DEF Accounts, Paid, Within
<1>8. ASSUME NEW u \in Threads  PROVE Entitled(u)'
  <2>1. CASE mine.pc = "idle" /\ u # t
    <3>1. Holding(u) => job[u].task \in TaskIds
        BY DEF IInv, Claimed
    <3> QED  BY <1>1, <1>2, <2>1, <3>1 DEF Accounts, Entitled, Holding, At
  <2>2. CASE mine.pc = "idle" /\ u = t
      BY <1>1, <2>2 DEF Entitled, Holding
  <2>3. CASE mine.pc # "idle" /\ u = t
    <3>1. CASE mine.pc = "run"
        BY <1>1, <1>2, <2>3, <3>1 DEF Entitled, At
    <3>2. CASE mine.pc # "run"
        BY <1>1, <1>2, <2>3, <3>2 DEF Entitled, At
    <3> QED  BY <3>1, <3>2
  <2>4. CASE mine.pc # "idle" /\ u # t
      BY <1>1, <2>4 DEF Accounts, Entitled, Holding, Reliable
  <2> QED  BY <2>1, <2>2, <2>3, <2>4
<1> QED  BY <1>3, <1>5, <1>6, <1>7, <1>8 DEF Accounts

\* A step of thread t's own that writes no task.
LEMMA LocalAccounts ==
    ASSUME IInv, Reliable, Accounts, NEW t \in Workers, NEW mine \in Job, Become(t, mine),
           UNCHANGED <<tasks, created>>,
           UNCHANGED disk \/ (mine.pc = "idle" /\ disk' = job[t].doc /\ At(t, "save")),
           \A k \in TaskIds : runs'[k] = runs[k]
               \/ (runs'[k] = runs[k] + 1 /\ At(t, "run") /\ job[t].task = k /\ mine.pc = "result"),
           mine.pc = "save" => mine.doc = tasks,
           mine.pc # "run",
           mine.pc = "result" => At(t, "run") /\ mine.task = job[t].task
    PROVE  Accounts'
<1>1. /\ job' \in [Threads -> Job] /\ job'[t] = mine /\ \A u \in Threads : u # t => job'[u] = job[u]
      /\ t \in Threads
    BY DEF Become, IInv, TypeOK, Threads
<1>2. ASSUME NEW u \in Threads, u # t  PROVE job[u].pc = "idle" /\ job'[u] = job[u]
    BY <1>1, <1>2 DEF Accounts, Reliable
<1>3. ASSUME NEW k \in TaskIds, runs'[k] # runs[k]
      PROVE  /\ runs'[k] = runs[k] + 1 /\ runs[k] <= tasks[k].retries /\ tasks[k].status \in {"running"} \cup Closed
             /\ disk = tasks /\ disk' = disk /\ k <= created
  <2>1. Holding(t) /\ job[t].task = k /\ At(t, "run") /\ mine.pc = "result"
      BY <1>3 DEF Holding, At
  <2> QED  BY <1>1, <1>3, <2>1 DEF Accounts, Entitled, IInv, Claimed
<1>4. /\ tasks \in [TaskIds -> Task] /\ runs \in [TaskIds -> Nat] /\ \A k \in TaskIds : k \in Nat
      /\ created \in Nat
    BY SchedulerAssumption DEF IInv, TypeOK, TaskIds
<1>5. Paid(tasks)'
  <2>1. ASSUME NEW k \in TaskIds  PROVE Within(tasks[k], k)'
    <3>1. Within(tasks[k], k)
        BY DEF Accounts, Paid
    <3>2. tasks[k].retries \in Nat
        BY <1>4 DEF Task
    <3> QED  BY <1>3, <1>4, <3>1, <3>2 DEF Within, Closed
  <2> QED  BY <2>1 DEF Paid
<1>6. Paid(disk)'
  <2>1. CASE disk = tasks /\ disk' = disk
      BY <1>5, <2>1 DEF Paid, Within
  <2>2. CASE \A k \in TaskIds : runs'[k] = runs[k]
      BY <1>1, <2>2 DEF Accounts, Paid, Within
  <2> QED  BY <1>3, <2>1, <2>2
<1>7. \A k \in TaskIds : k > created' => runs'[k] = 0
    BY <1>3, <1>4 DEF Accounts
<1>8. ASSUME NEW u \in Threads
      PROVE  /\ job'[u].pc # "idle" => u \in Workers
             /\ At(u, "save")' => Paid(job[u].doc)'
             /\ Entitled(u)'
  <2>1. CASE u = t
    <3>1. At(u, "save")' => Paid(job[u].doc)'
        BY <1>1, <1>5, <2>1 DEF At, Paid, Within
    <3>2. Entitled(u)'
        BY <1>1, <2>1 DEF Accounts, Entitled, Holding, At
    <3> QED  BY <2>1, <3>1, <3>2
  <2>2. CASE u # t
      BY <1>2, <2>2 DEF At, Entitled, Holding
  <2> QED  BY <2>1, <2>2
<1> QED  BY <1>5, <1>6, <1>7, <1>8 DEF Accounts
LEMMA OperatorAccounts ==
    ASSUME IInv, Reliable, Accounts, NEW t \in Operators, Create(t) \/ Pause(t) \/ Resume(t) \/ Cancel(t)
    PROVE  Accounts'
<1>1. /\ t \in Threads /\ At(t, "idle") /\ Become(t, job[t]) /\ job[t] \in Job /\ UNCHANGED runs
      /\ created \in 0..MaxTasks /\ tasks \in [TaskIds -> Task] /\ MaxTasks \in Nat
    BY SchedulerAssumption DEF Create, Pause, Resume, Cancel, Become, IInv, TypeOK, Threads
<1>2. CASE Create(t)
  <2>1. created + 1 \in TaskIds /\ created' = created + 1 /\ created' \in 0..MaxTasks /\ created <= created'
      BY <1>1, <1>2 DEF Create, TaskIds
  <2>2. PICK limit \in RetryLimits :
          Transition(created + 1, [status |-> "pending", retries |-> 0, limit |-> limit])
      BY <1>2 DEF Create
  <2> DEFINE new == [status |-> "pending", retries |-> 0, limit |-> limit]
             k == created + 1
  <2>3. new \in Task /\ limit \in Nat
      BY SchedulerAssumption DEF Task, Status
  <2>4. Within(new, k)
    <3>1. runs[k] = 0
        BY <1>1, <2>1 DEF Accounts
    <3> QED  BY <2>3, <3>1 DEF Within
  <2>5. \A u \in Threads : Holding(u) => job[u].task # k
      BY <1>1 DEF IInv, Claimed, TaskIds
  <2> HIDE DEF new
  <2> QED  BY <1>1, <2>1, <2>2, <2>3, <2>4, <2>5, WriteAccounts DEF new, At
<1>3. ASSUME NEW k \in Known, NEW status \in Status \ {"running"}, Transition(k, InStatus(k, status)), created' = created,
             status \in {"pending", "paused"} => tasks[k].status \in {"pending", "paused"}
      PROVE  Accounts'
  <2>1. /\ k \in TaskIds /\ InStatus(k, status) \in Task
        /\ InStatus(k, status).status = status /\ InStatus(k, status).retries = tasks[k].retries
        /\ InStatus(k, status).limit = tasks[k].limit /\ tasks[k].retries \in Nat
      BY <1>1 DEF InStatus, Task, Known
  <2>2. Within(InStatus(k, status), k)
    <3>1. Within(tasks[k], k) /\ runs[k] \in Nat /\ status # "none"
        BY <2>1 DEF Accounts, Paid, IInv, TypeOK, Status
    <3> QED  BY <1>3, <2>1, <3>1 DEF Within
  <2> QED  BY <1>1, <1>3, <2>1, <2>2, WriteAccounts DEF At
<1>4. CASE Pause(t)
    BY <1>3, <1>4 DEF Pause, Runnable, Known, Status
<1>5. CASE Resume(t)
    BY <1>3, <1>5 DEF Resume, Status
<1>6. CASE Cancel(t)
    BY <1>3, <1>6 DEF Cancel, Active, Status
<1> QED  BY <1>2, <1>4, <1>5, <1>6

\* A claim is of a pending task, whose next run is still to spare.
LEMMA ClaimAccounts ==
    ASSUME IInv, Reliable, Accounts, NEW t \in Workers, NEW k \in Runnable, Claim(t, k),
           UNCHANGED <<created, runs>>
    PROVE  Accounts'
<1> DEFINE new == InStatus(k, "running")
           mine == [job[t] EXCEPT !.pc = "run", !.task = k, !.held = new,
                                  !.left = IF @ > 0 THEN @ - 1 ELSE 0]
<1>1. /\ k \in TaskIds /\ tasks[k].status = "pending" /\ tasks[k] \in Task /\ t \in Threads
      /\ created \in 0..MaxTasks /\ created <= created' /\ job[t] \in Job
      /\ runs[k] \in Nat /\ Within(tasks[k], k)
    BY SchedulerAssumption DEF IInv, TypeOK, Runnable, Threads, Accounts, Paid
<1>2. /\ new \in Task /\ new.status = "running" /\ new.retries = tasks[k].retries /\ new.limit = tasks[k].limit
      /\ tasks[k].retries \in Nat
    BY <1>1 DEF InStatus, Task, Status
<1>3. Transition(k, new) /\ Become(t, mine)
    BY DEF Claim
<1>4. mine \in Job /\ mine.task = k /\ mine.pc = "run"
  <2> HIDE DEF new
  <2>1. (IF job[t].left > 0 THEN job[t].left - 1 ELSE 0) \in Nat
      BY <1>1 DEF Job
  <2> QED  BY <1>1, <1>2, <2>1 DEF Job, PC
<1>5. Within(new, k) /\ runs[k] <= new.retries
    BY <1>1, <1>2 DEF Within
<1> HIDE DEF new, mine
<1> QED  BY <1>1, <1>2, <1>3, <1>4, <1>5, WriteAccounts

\* A result queues its task again only against a retry.
LEMMA CommitAccounts ==
    ASSUME IInv, Reliable, Accounts, NEW t \in Workers, CommitResult(t)
    PROVE  Accounts'
<1> DEFINE k == job[t].task
<1>1. t \in Threads /\ Holding(t) /\ Claimed(t)
    BY DEF CommitResult, At, Holding, IInv, Threads
<1>2. /\ k \in TaskIds /\ tasks[k] \in Task /\ runs[k] \in Nat /\ Within(tasks[k], k)
      /\ created \in 0..MaxTasks /\ created' = created /\ created <= created' /\ job[t] \in Job /\ UNCHANGED runs
    BY <1>1, SchedulerAssumption DEF IInv, TypeOK, Claimed, Accounts, Paid, CommitResult
<1>3. PICK new \in Task : Transition(k, new) /\ Within(new, k)
  <2>1. PICK outcome \in Outcome :
          Transition(k, IF tasks[k] = job[t].held THEN Settled(tasks[k], outcome) ELSE tasks[k])
      BY DEF CommitResult
  <2>2. ASSUME tasks[k] = job[t].held
        PROVE  Settled(tasks[k], outcome) \in Task /\ Within(Settled(tasks[k], outcome), k)
    <3>1. tasks[k].status = "running" /\ tasks[k].retries \in Nat /\ tasks[k].limit \in Nat
        BY <1>1, <1>2, <2>2 DEF Claimed, Task
    <3>2. \A status \in Status \ {"pending", "paused"} :
            [tasks[k] EXCEPT !.status = status] \in Task /\ Within([tasks[k] EXCEPT !.status = status], k)
        BY <1>2, <3>1 DEF Task, Within, Status
    <3> DEFINE again == [tasks[k] EXCEPT !.status = "pending", !.retries = @ + 1]
    <3>3. /\ again \in Task /\ again.status = "pending" /\ again.retries = tasks[k].retries + 1
          /\ again.limit = tasks[k].limit
      <4>1. tasks[k].retries + 1 \in Nat
          BY <3>1
      <4> QED  BY <1>2, <4>1 DEF Task, Status
    <3>4. tasks[k].retries < tasks[k].limit => Within(again, k)
        BY <1>2, <3>1, <3>3 DEF Within
    <3> QED  BY <3>2, <3>3, <3>4 DEF Settled, Status
  <2> QED  BY <1>2, <2>1, <2>2
<1>4. PICK mine \in Job : Become(t, mine) /\ mine.pc \in {"claim", "idle"}
  <2>1. CASE job[t].cycle
    <3> DEFINE mine == [job[t] EXCEPT !.pc = "claim", !.task = NoTask, !.held = Uncreated]
    <3>1. mine \in Job /\ mine.pc = "claim"
        BY <1>2 DEF Job, PC, Task, Uncreated
    <3>2. Become(t, mine)
        BY <2>1 DEF CommitResult
    <3> HIDE DEF mine
    <3> QED  BY <3>1, <3>2
  <2>2. CASE ~job[t].cycle
      BY <2>2, IdleTyped DEF CommitResult, IdleJob
  <2> QED  BY <2>1, <2>2
<1>5. \A u \in Threads : u # t /\ Holding(u) => job[u].task # k
    BY <1>1 DEF IInv, ClaimedByOne
<1> QED  BY <1>1, <1>2, <1>3, <1>4, <1>5, WriteAccounts

LEMMA StepAccounts ==
    ASSUME IInv, Reliable, Accounts, NEW t \in Workers,
           BeginCycle(t) \/ EndCycle(t) \/ EnterAutonomy(t) \/ RunRaises(t)
               \/ CaptureTasks(t) \/ SaveTasks(t)
    PROVE  Accounts'
<1>1. /\ t \in Threads /\ job[t] \in Job /\ tasks \in [TaskIds -> Task] /\ disk \in [TaskIds -> Task]
      /\ runs \in [TaskIds -> Nat] /\ IdleJob \in Job /\ IdleJob.pc = "idle"
    BY IdleTyped DEF IInv, TypeOK, Threads, IdleJob
<1>2. CASE BeginCycle(t)
  <2> DEFINE mine == [IdleJob EXCEPT !.pc = "claim", !.cycle = TRUE, !.left = PerCycle]
  <2>1. mine \in Job /\ mine.pc = "claim"
      BY <1>1, SchedulerAssumption DEF Job, PC
  <2>2. Become(t, mine)
      BY <1>2 DEF BeginCycle
  <2> HIDE DEF mine
  <2> QED  BY <1>2, <2>1, <2>2, LocalAccounts DEF BeginCycle
<1>3. CASE EndCycle(t)
  <2> DEFINE mine == [job[t] EXCEPT !.pc = "capture"]
  <2>1. mine \in Job /\ mine.pc = "capture"
      BY <1>1 DEF Job, PC
  <2>2. Become(t, mine)
      BY <1>3 DEF EndCycle
  <2> HIDE DEF mine
  <2> QED  BY <1>3, <2>1, <2>2, LocalAccounts DEF EndCycle
<1>4. CASE EnterAutonomy(t)
  <2> DEFINE mine == [job[t] EXCEPT !.pc = "result"]
  <2>1. mine \in Job /\ mine.pc = "result" /\ mine.task = job[t].task
      BY <1>1 DEF Job, PC
  <2>2. Become(t, mine) /\ At(t, "run") /\ UNCHANGED <<tasks, created, disk>>
      BY <1>4 DEF EnterAutonomy
  <2>3. \A k \in TaskIds : runs'[k] = IF k = job[t].task THEN runs[k] + 1 ELSE runs[k]
      BY <1>1, <1>4 DEF EnterAutonomy
  <2> HIDE DEF mine
  <2> QED  BY <2>1, <2>2, <2>3, LocalAccounts
<1>5. CASE RunRaises(t)
    BY <1>1, <1>5, LocalAccounts DEF RunRaises
<1>6. CASE CaptureTasks(t)
  <2> DEFINE mine == [job[t] EXCEPT !.pc = "save", !.doc = tasks]
  <2>1. mine \in Job /\ mine.doc = tasks /\ mine.pc = "save"
      BY <1>1 DEF Job, PC
  <2>2. Become(t, mine)
      BY <1>6 DEF CaptureTasks
  <2> HIDE DEF mine
  <2> QED  BY <1>6, <2>1, <2>2, LocalAccounts DEF CaptureTasks
<1>7. CASE SaveTasks(t)
    BY <1>1, <1>7, LocalAccounts DEF SaveTasks, Reliable
<1> QED  BY <1>2, <1>3, <1>4, <1>5, <1>6, <1>7

LEMMA CrashAccounts == ASSUME IInv, Reliable, Accounts, Crash  PROVE Accounts'
<1>1. UNCHANGED <<disk, created, runs>> /\ \A t \in Threads : job'[t].pc = "idle"
    BY DEF Crash, IdleJob
<1>2. \A k \in TaskIds : Within(disk[k], k) => Within(Recovered(disk[k]), k)
  <2>1. \A k \in TaskIds : disk[k] \in Task
      BY DEF IInv, TypeOK
  <2> QED  BY <2>1 DEF Within, Recovered, Task
<1>3. Paid(tasks)' /\ Paid(disk)'
    BY <1>1, <1>2 DEF Crash, Accounts, Paid, Within
<1> QED  BY <1>1, <1>3 DEF Accounts, At, Entitled, Holding

LEMMA NextAccounts == IInv /\ Reliable /\ Accounts /\ [Next]_vars => Accounts'
<1> SUFFICES ASSUME IInv, Reliable, Accounts, [Next]_vars PROVE Accounts'
    OBVIOUS
<1>1. CASE UNCHANGED vars
    BY <1>1 DEF vars, Accounts, Paid, Within, Entitled, Holding, At
<1>2. ASSUME NEW t \in Workers, ClaimNext(t) \/ ClaimExact(t)  PROVE Accounts'
    BY <1>2, ClaimAccounts DEF ClaimNext, ClaimExact
<1>3. CASE Next
    BY <1>2, <1>3, OperatorAccounts, StepAccounts, CommitAccounts, CrashAccounts DEF Next, Continue
<1> QED  BY <1>1, <1>3

\* A task is run once and once more for each retry within its limit, over any
\* number of cycles, rulings and restarts, by a worker whose writes succeed.
THEOREM Accounted == Spec => [](Reliable => AttemptsAccounted)
<1>1. IInv /\ Accounts => AttemptsAccounted
  <2> SUFFICES ASSUME IInv, Accounts, NEW k \in Known
               PROVE  runs[k] <= tasks[k].retries + 1 /\ tasks[k].retries <= tasks[k].limit
      BY DEF AttemptsAccounted
  <2>1. k \in TaskIds /\ Within(tasks[k], k) /\ runs[k] \in Nat /\ tasks[k].retries \in Nat
      BY DEF Known, Accounts, Paid, IInv, TypeOK, Task
  <2> QED  BY <2>1 DEF Within
<1> DEFINE Paying == Reliable => Accounts
<1>2. Init => Paying
    BY InitAccounts
<1>3. IInv /\ Paying /\ [Next]_vars => Paying'
    BY NextAccounts DEF Reliable
<1>4. IInv /\ Paying => (Reliable => AttemptsAccounted)
    BY <1>1
<1> HIDE DEF Paying
<1> QED  BY <1>2, <1>3, <1>4, Invariance, PTL DEF Spec
=============================================================================
