--------------------------- MODULE PlanExecution ---------------------------
(***************************************************************************)
(* ResearchPlanExecutionApplicationService for one plan: the live          *)
(* execution and its allowance, the store document that survives the       *)
(* process, and the threads that call the service.                         *)
(*                                                                         *)
(* The service takes its lock only around a commit.  Everything else, the  *)
(* reads a decision is made from, the checks of a rebind, the allowance,   *)
(* the capture of a snapshot and the write of the document, interleaves    *)
(* freely, so each of them is a step of its own here.  Crash ends the      *)
(* process at any point and starts the next one from the document.         *)
(*                                                                         *)
(* Bound: MaxCrashes.  The two metered resources, network and model calls, *)
(* are folded into one counter: a model step spends one of each.           *)
(***************************************************************************)
EXTENDS PlanExecutionState

CONSTANTS
    Advancers,      \* threads that start, advance, resolve and recover
    Rebinders,      \* those of them that also rebind
    Cancellers,     \* threads that cancel; the desktop's own thread is one
    Plans,          \* the authored plans considered: functions Steps -> Kind
    Grants,         \* whether a start comes with an approved allowance
    MaxAdvances,    \* approved step advances
    MaxNetwork,     \* approved network (and model) operations
    MaxCrashes,     \* bound on process deaths
    DiskMayFail     \* whether a write of the store document can fail

Threads == Advancers \cup Cancellers

\* What decides how the service treats a step: no executable operation, a
\* local one, one network call, a model call, a source revalidation.
Kind == {"none", "local", "network", "model", "revalidation"}

ASSUME ConfigAssumption ==
    /\ Rebinders \subseteq Advancers
    /\ Plans \subseteq [Steps -> Kind]
    /\ Grants \subseteq BOOLEAN
    /\ MaxAdvances \in Nat /\ MaxNetwork \in Nat /\ MaxCrashes \in Nat
    /\ DiskMayFail \in BOOLEAN

VARIABLES
    plan,           \* the authored plan, fixed
    exec,           \* _executions[plan_id]
    allowance,      \* _allowances[plan_id]
    restored,       \* _restored[plan_id], not yet rebound
    disk,           \* the execution store document
    recorded,       \* steps whose revalidation is committed to the run store
    job,            \* what each thread is in the middle of
    crashes,
    calls,          \* history: the steps whose operation.run was entered, how
                    \* often that was, and the network operations it drew
    licensed        \* history: steps whose operation may be entered

vars == <<plan, exec, allowance, restored, disk, recorded, job, crashes, calls, licensed>>

-----------------------------------------------------------------------------
\* ResearchExecutionAllowance.  `late` says the approved seconds are used up.
Allowance == [granted: BOOLEAN, advances: Nat, network: Nat, late: BOOLEAN]
NoAllowance == [granted |-> FALSE, advances |-> 0, network |-> 0, late |-> FALSE]

Cost(s) == IF plan[s] \in {"none", "local"} THEN 0 ELSE 1
NeedsAllowance(s) == plan[s] \in {"model", "revalidation"}

Affords(a, s) ==
    /\ a.advances < MaxAdvances
    /\ ~a.late
    /\ a.network + Cost(s) <= MaxNetwork

Charged(a, s) == [a EXCEPT !.advances = @ + 1, !.network = @ + Cost(s)]

Snapshot == [exec: Execution, allowance: Allowance]
NoSnapshot == [exec |-> Absent, allowance |-> NoAllowance]

Calls == [of: SUBSET Steps, made: Nat, network: Nat]
NoCalls == [of |-> {}, made |-> 0, network |-> 0]

\* One thread's locals: the state it read (`view`), the successor it wants
\* to commit (`goal`), the allowance it read, the document it captured or, in a
\* rebind, was restored from, and what the write in progress is for.
PC == {"idle", "allowance", "charge", "start", "refund", "capture", "captureAllowance",
       "save", "withdraw", "uncharge", "run", "provider", "outcome", "commit",
       "ruling", "unrule", "rebind", "rebindAllowance"}
Purpose == {"report", "checkpoint", "decision"}

Job == [pc: PC, step: Steps \cup {NoStep}, view: Execution, goal: Execution,
        budget: Allowance, doc: Snapshot, purpose: Purpose]

IdleJob == [pc |-> "idle", step |-> NoStep, view |-> Absent, goal |-> Absent,
            budget |-> NoAllowance, doc |-> NoSnapshot, purpose |-> "report"]

At(t, pc) == job[t].pc = pc
Become(t, j) == job' = [job EXCEPT ![t] = j]
Goto(t, pc) == Become(t, [job[t] EXCEPT !.pc = pc])
Finish(t) == Become(t, IdleJob)
Persist(t, purpose) == Become(t, [job[t] EXCEPT !.pc = "capture", !.purpose = purpose])

\* Variant: a commit that does not compare.
CommittedBlindly(expected, successor) == successor

\* _commit_outcome: compare the live execution with the one decided from.
Committed(expected, successor) == IF exec = expected THEN successor ELSE exec

TypeOK ==
    /\ plan \in [Steps -> Kind]
    /\ exec \in Execution
    /\ allowance \in Allowance
    /\ restored \in Snapshot
    /\ disk \in Snapshot
    /\ recorded \in SUBSET Steps
    /\ job \in [Threads -> Job]
    /\ crashes \in 0..MaxCrashes
    /\ calls \in Calls
    /\ licensed \in SUBSET Steps

Init ==
    /\ plan \in Plans
    /\ exec = Absent
    /\ allowance = NoAllowance
    /\ restored = NoSnapshot
    /\ disk = NoSnapshot
    /\ recorded = {}
    /\ job = [t \in Threads |-> IdleJob]
    /\ crashes = 0
    /\ calls = NoCalls
    /\ licensed = Steps

-----------------------------------------------------------------------------
\* process_start: the plan becomes runnable with the budget that was approved.
\* Its id was drawn for this start, so nobody else starts or rebinds it.
Start(t) ==
    /\ At(t, "idle")
    /\ exec = Absent /\ restored = NoSnapshot /\ disk = NoSnapshot
    /\ \E granted \in Grants : allowance' = [NoAllowance EXCEPT !.granted = granted]
    /\ exec' = Started
    /\ Persist(t, "report")
    /\ UNCHANGED <<plan, restored, disk, recorded, crashes, calls, licensed>>

\* process_advance, first half: everything decided from the state alone.  It
\* refuses while a step is interrupted or none is pending, and blocks a step
\* that declares nothing executable.
BeginAdvance(t) ==
    /\ At(t, "idle")
    /\ InStatus(exec, "interrupted") = {}
    /\ \E s \in Steps :
          /\ exec.status # "absent"
          /\ IsNextPending(exec, s)
          /\ IF plan[s] = "none"
             THEN /\ CanBlockStep(exec, s)
                  /\ Become(t, [IdleJob EXCEPT !.pc = "commit", !.step = s, !.view = exec,
                                               !.goal = BlockStep(exec, s)])
             ELSE Become(t, [IdleJob EXCEPT !.pc = "allowance", !.step = s, !.view = exec])
    /\ UNCHANGED <<plan, exec, allowance, restored, disk, recorded, crashes, calls, licensed>>

\* The allowance is read later than the state.  Missing authority pauses and
\* a short allowance refuses, each recorded only while nothing is running;
\* otherwise the step is started, on paper.
CheckAllowance(t) ==
    LET j == job[t]
        quiet == Running(j.view) = {}
    IN /\ At(t, "allowance")
       /\ \/ /\ NeedsAllowance(j.step) /\ ~allowance.granted
             /\ IF quiet /\ CanRequireAuthority(j.view, j.step)
                THEN Become(t, [j EXCEPT !.pc = "commit",
                                         !.goal = RequireAuthority(j.view, j.step)])
                ELSE Finish(t)
          \/ /\ allowance.granted /\ ~Affords(allowance, j.step)
             /\ IF quiet /\ CanRefuseAdvance(j.view, j.step)
                THEN Become(t, [j EXCEPT !.pc = "commit",
                                         !.goal = RefuseAdvance(j.view, j.step)])
                ELSE Finish(t)
          \/ /\ IF allowance.granted THEN Affords(allowance, j.step) ELSE ~NeedsAllowance(j.step)
             /\ IF CanStartStep(j.view, j.step)
                THEN Become(t, [j EXCEPT !.pc = IF allowance.granted THEN "charge" ELSE "start",
                                         !.goal = StartStep(j.view, j.step),
                                         !.budget = allowance])
                ELSE Finish(t)
       /\ UNCHANGED <<plan, exec, allowance, restored, disk, recorded, crashes, calls, licensed>>

\* The charge is computed from the allowance read above, not from the live one.
Charge(t) ==
    /\ At(t, "charge")
    /\ allowance' = Charged(job[t].budget, job[t].step)
    /\ Goto(t, "start")
    /\ UNCHANGED <<plan, exec, restored, disk, recorded, crashes, calls, licensed>>

\* The attempt boundary: only the thread whose state still stands goes on, to
\* a checkpoint; any other gives back what it charged.
CommitStart(t) ==
    LET j == job[t] IN
    /\ At(t, "start")
    /\ exec' = Committed(j.view, j.goal)
    /\ IF exec = j.view THEN Persist(t, "checkpoint") ELSE Goto(t, "refund")
    /\ UNCHANGED <<plan, allowance, restored, disk, recorded, crashes, calls, licensed>>

Refund(t) ==
    /\ At(t, "refund")
    /\ allowance' = IF job[t].budget.granted THEN job[t].budget ELSE allowance
    /\ Persist(t, "report")
    /\ UNCHANGED <<plan, exec, restored, disk, recorded, crashes, calls, licensed>>

-----------------------------------------------------------------------------
\* _persist_checkpoint: the state, then the allowance, are read into the
\* document, and the document replaces the file.  No lock is held.
Capture(t) ==
    /\ At(t, "capture")
    /\ Become(t, [job[t] EXCEPT !.pc = "captureAllowance", !.doc.exec = exec])
    /\ UNCHANGED <<plan, exec, allowance, restored, disk, recorded, crashes, calls, licensed>>

CaptureAllowance(t) ==
    /\ At(t, "captureAllowance")
    /\ Become(t, [job[t] EXCEPT !.pc = "save", !.doc.allowance = allowance])
    /\ UNCHANGED <<plan, exec, allowance, restored, disk, recorded, crashes, calls, licensed>>

Save(t) ==
    /\ At(t, "save")
    /\ disk' = job[t].doc
    /\ IF job[t].purpose = "checkpoint" THEN Goto(t, "run") ELSE Finish(t)
    /\ UNCHANGED <<plan, exec, allowance, restored, recorded, crashes, calls, licensed>>

\* A write that fails leaves the file as it was.  Only a checkpoint and an
\* operator's decision look at the answer.
SaveFails(t) ==
    /\ DiskMayFail
    /\ At(t, "save")
    /\ CASE job[t].purpose = "checkpoint" -> Goto(t, "withdraw")
         [] job[t].purpose = "decision" -> Goto(t, "unrule")
         [] OTHER -> Finish(t)
    /\ UNCHANGED <<plan, exec, allowance, restored, disk, recorded, crashes, calls, licensed>>

\* Variant: a rollback that gives the charge back and leaves the step running.
WithdrawChargeOnly(t) ==
    /\ At(t, "withdraw")
    /\ Goto(t, "uncharge")
    /\ UNCHANGED <<plan, exec, allowance, restored, disk, recorded, crashes, calls, licensed>>

\* The attempt that could not be written down is taken back, if it still
\* stands, and so is its charge.
Withdraw(t) ==
    /\ At(t, "withdraw")
    /\ exec' = Committed(job[t].goal, job[t].view)
    /\ Goto(t, "uncharge")
    /\ UNCHANGED <<plan, allowance, restored, disk, recorded, crashes, calls, licensed>>

Uncharge(t) ==
    /\ At(t, "uncharge")
    /\ allowance' = IF job[t].budget.granted THEN job[t].budget ELSE allowance
    /\ Finish(t)
    /\ UNCHANGED <<plan, exec, restored, disk, recorded, crashes, calls, licensed>>

-----------------------------------------------------------------------------
\* The time an attempt took is charged on every way out of it; it may be the
\* last of the approved seconds.
ChargeElapsed ==
    \E late \in BOOLEAN :
        allowance' = [allowance EXCEPT !.late = @ \/ (allowance.granted /\ late)]

\* The outcome is derived from the running state this thread committed.
Outcome(t, successor) ==
    Become(t, [job[t] EXCEPT !.pc = "outcome", !.view = job[t].goal, !.goal = successor])

\* operation.run reaches its provider, or, for a revalidation the run store
\* already holds, declines before that.
Run(t) ==
    LET s == job[t].step IN
    /\ At(t, "run")
    /\ s \notin recorded
    /\ Goto(t, "provider")
    /\ calls' = [calls EXCEPT !.of = @ \cup {s}, !.made = @ + 1, !.network = @ + Cost(s)]
    /\ licensed' = licensed \ {s}
    /\ UNCHANGED <<plan, exec, allowance, restored, disk, recorded, crashes>>

Decline(t) ==
    /\ At(t, "run")
    /\ job[t].step \in recorded
    /\ Outcome(t, BlockStep(job[t].goal, job[t].step))
    /\ ChargeElapsed
    /\ UNCHANGED <<plan, exec, restored, disk, recorded, crashes, calls, licensed>>

\* The acceptance transaction of a revalidation commits to the run store
\* before its operation returns.
RecordRevalidation(t) ==
    LET s == job[t].step IN
    /\ At(t, "provider")
    /\ plan[s] = "revalidation"
    /\ recorded' = recorded \cup {s}
    /\ UNCHANGED <<plan, exec, allowance, restored, disk, job, crashes, calls, licensed>>

\* operation.run returns: it raised, performed nothing, ran and failed, or
\* succeeded.  Once a revalidation is recorded it can only raise or succeed.
Return(t) ==
    LET e == job[t].goal
        s == job[t].step
    IN /\ At(t, "provider")
       /\ \/ Outcome(t, FailStep(e, s, FALSE))
          \/ s \notin recorded /\ Outcome(t, BlockStep(e, s))
          \/ s \notin recorded /\ Outcome(t, FailStep(e, s, TRUE))
          \/ /\ plan[s] = "revalidation" => s \in recorded
             /\ Outcome(t, CompleteStep(e, s))
       /\ ChargeElapsed
       /\ UNCHANGED <<plan, exec, restored, disk, recorded, crashes, calls, licensed>>

\* Variant: an outcome written over whatever stands.
CommitOutcomeBlindly(t) ==
    /\ At(t, "outcome") \/ At(t, "commit")
    /\ exec' = job[t].goal
    /\ Persist(t, "report")
    /\ UNCHANGED <<plan, allowance, restored, disk, recorded, crashes, calls, licensed>>

\* Commit of an outcome, or of a note or block made before any attempt.  Both
\* the winner and the superseded thread persist what now stands.
CommitOutcome(t) ==
    /\ At(t, "outcome") \/ At(t, "commit")
    /\ exec' = Committed(job[t].view, job[t].goal)
    /\ Persist(t, "report")
    /\ UNCHANGED <<plan, allowance, restored, disk, recorded, crashes, calls, licensed>>

-----------------------------------------------------------------------------
\* process_cancel: read, derive and write under the lock, persist after it.
CancelExecution(t) ==
    /\ At(t, "idle")
    /\ CanCancel(exec)
    /\ exec' = Cancel(exec)
    /\ Persist(t, "report")
    /\ UNCHANGED <<plan, allowance, restored, disk, recorded, crashes, calls, licensed>>

\* process_resolve and process_recover read, derive, then commit.
BeginResolve(t) ==
    /\ At(t, "idle")
    /\ \E s \in Steps, ruling \in Resolution \ {"none"} :
          /\ CanResolve(exec, s)
          /\ Become(t, [IdleJob EXCEPT !.pc = "ruling", !.step = s, !.view = exec,
                                       !.goal = ResolveInterrupted(exec, s, ruling)])
    /\ UNCHANGED <<plan, exec, allowance, restored, disk, recorded, crashes, calls, licensed>>

BeginRecover(t) ==
    /\ At(t, "idle")
    /\ \E s \in Steps, decision \in Recovery \ {"none"} :
          /\ CanRecover(exec, s)
          /\ Become(t, [IdleJob EXCEPT !.pc = "ruling", !.step = s, !.view = exec,
                                       !.goal = RecoverBlocked(exec, s, decision)])
    /\ UNCHANGED <<plan, exec, allowance, restored, disk, recorded, crashes, calls, licensed>>

\* A decision found superseded is rejected without a write.
CommitRuling(t) ==
    LET j == job[t]
        s == j.step
    IN /\ At(t, "ruling")
       /\ exec' = Committed(j.view, j.goal)
       /\ IF exec = j.view THEN Persist(t, "decision") ELSE Finish(t)
       /\ licensed' = IF exec = j.view /\ j.goal.steps[s].status = "pending"
                      THEN licensed \cup {s} ELSE licensed
       /\ UNCHANGED <<plan, allowance, restored, disk, recorded, crashes, calls>>

\* A decision that did not reach the disk is not kept.
Unrule(t) ==
    LET j == job[t]
        s == j.step
    IN /\ At(t, "unrule")
       /\ exec' = Committed(j.goal, j.view)
       /\ Finish(t)
       /\ licensed' = IF exec = j.goal /\ j.goal.steps[s].status = "pending"
                      THEN licensed \ {s} ELSE licensed
       /\ UNCHANGED <<plan, allowance, restored, disk, recorded, crashes, calls>>

-----------------------------------------------------------------------------
\* Variant: an interrupted revalidation taken for recorded.
RecordPresumed(e, s) ==
    /\ plan[s] = "revalidation"
    /\ e.steps[s].status = "interrupted"
    /\ e.steps[s].resolution = "none"

\* rebind_restored completes from the run store an interrupted revalidation that
\* nobody ruled on and whose result is there.
RecordProves(e, s) ==
    /\ s \in recorded
    /\ e.steps[s].status = "interrupted"
    /\ e.steps[s].resolution = "none"

\* rebind_restored, its reads: the restored snapshot, that no execution is live
\* yet, and what the run store proves.  No lock is held.
BeginRebind(t) ==
    /\ At(t, "idle")
    /\ exec = Absent
    /\ Resumable(restored.exec)
    /\ restored.allowance.granted
    /\ \/ /\ \A s \in Steps : ~RecordProves(restored.exec, s)
          /\ Become(t, [IdleJob EXCEPT !.pc = "rebind", !.doc = restored])
       \/ \E s \in Steps :
             /\ RecordProves(restored.exec, s)
             /\ Become(t, [IdleJob EXCEPT !.pc = "rebind", !.doc = restored, !.step = s])
    /\ UNCHANGED <<plan, exec, allowance, restored, disk, recorded, crashes, calls, licensed>>

\* Variant: a rebind that prepares the plan anew.
RebindAnew(t) ==
    /\ At(t, "rebind")
    /\ exec' = Started
    /\ Goto(t, "rebindAllowance")
    /\ UNCHANGED <<plan, allowance, restored, disk, recorded, crashes, calls, licensed>>

\* The rebuilt execution becomes the live one, under the lock and whatever
\* stands there by then.
RebindExecution(t) ==
    LET j == job[t]
        e == Rebound(j.doc.exec)
    IN /\ At(t, "rebind")
       /\ exec' = IF j.step = NoStep THEN e ELSE CompleteFromRecord(e, j.step)
       /\ Goto(t, "rebindAllowance")
       /\ UNCHANGED <<plan, allowance, restored, disk, recorded, crashes, calls, licensed>>

\* Variant: a rebind that grants the approved allowance anew.
RebindAllowanceAnew(t) ==
    /\ At(t, "rebindAllowance")
    /\ allowance' = [NoAllowance EXCEPT !.granted = TRUE]
    /\ restored' = NoSnapshot
    /\ IF job[t].step = NoStep THEN Finish(t) ELSE Persist(t, "report")
    /\ UNCHANGED <<plan, exec, disk, recorded, crashes, calls, licensed>>

\* The allowance follows the execution, outside the lock, and only then is
\* the restored entry dropped.  Only a reconciled execution is persisted.
RebindAllowance(t) ==
    /\ At(t, "rebindAllowance")
    /\ allowance' = job[t].doc.allowance
    /\ restored' = NoSnapshot
    /\ IF job[t].step = NoStep THEN Finish(t) ELSE Persist(t, "report")
    /\ UNCHANGED <<plan, exec, disk, recorded, crashes, calls, licensed>>

\* The process dies between any two steps, and _restore loads the document.
Crash ==
    /\ crashes < MaxCrashes
    /\ crashes' = crashes + 1
    /\ exec' = Absent
    /\ allowance' = NoAllowance
    /\ restored' = [disk EXCEPT !.exec = Restored(@)]
    /\ job' = [t \in Threads |-> IdleJob]
    /\ licensed' = {s \in licensed : disk.exec.steps[s].status = "pending"}
    /\ UNCHANGED <<plan, disk, recorded, calls>>

-----------------------------------------------------------------------------
\* The steps a call takes by itself once it is under way.
Continue(t) ==
    \/ CheckAllowance(t) \/ Charge(t) \/ CommitStart(t) \/ Refund(t)
    \/ Capture(t) \/ CaptureAllowance(t) \/ Save(t) \/ SaveFails(t)
    \/ Withdraw(t) \/ Uncharge(t) \/ Run(t) \/ Decline(t) \/ RecordRevalidation(t) \/ Return(t)
    \/ CommitOutcome(t) \/ CommitRuling(t) \/ Unrule(t)
    \/ RebindExecution(t) \/ RebindAllowance(t)

Call(t) == Start(t) \/ BeginAdvance(t) \/ BeginResolve(t) \/ BeginRecover(t)

Next ==
    \/ \E t \in Advancers : Call(t)
    \/ \E t \in Rebinders : BeginRebind(t)
    \/ \E t \in Cancellers : CancelExecution(t)
    \/ \E t \in Threads : Continue(t)
    \/ Crash

Spec == Init /\ [][Next]_vars

\* Threads are scheduled and operation.run returns: every operation is bounded
\* by its own timeout.
FairSpec == Spec /\ \A t \in Threads : WF_vars(Continue(t))

-----------------------------------------------------------------------------
\* A thread is attempting from the commit of its running state until the
\* outcome, or the withdrawal, of that attempt is committed.
Writing == {"capture", "captureAllowance", "save"}
MakesAttempt(j) ==
    \/ j.pc \in {"run", "provider", "outcome", "withdraw"}
    \/ (j.pc \in Writing /\ j.purpose = "checkpoint")
Attempting(t) == MakesAttempt(job[t])

AtRest == \A t \in Threads : At(t, "idle")

\* Two advances racing for the same execution cannot both get past the commit
\* of process_advance, however the calls, cancels and rulings around them
\* interleave.
OneAttempt == \A t, u \in Threads : Attempting(t) /\ Attempting(u) => t = u

\* Within one process no late outcome, rollback, ruling or recovery reopens or
\* rewrites an execution that was cancelled, failed or completed.
TerminalIsFinal == [][IsTerminal(exec) => exec' = exec \/ crashes' > crashes]_vars

\* A step is said to be completed, live or on disk, only if its operation was
\* run: not by a ruling, a restart or a reconciliation.
CompletedWasRun ==
    \A s \in Steps :
        "completed" \in {exec.steps[s].status, disk.exec.steps[s].status} => s \in calls.of

\* The refusal or pause an operator is shown always names the step that would
\* be advanced next, with nothing running or interrupted beside it, and says
\* why: a refusal has an allowance that falls short, a pause has none at all.
Current(e, granted) ==
    \A s \in {e.refusal, e.pause} \ {NoStep} :
        /\ e.status = "running"
        /\ IsNextPending(e, s)
        /\ InStatus(e, "running") \cup InStatus(e, "interrupted") = {}
        /\ s = e.refusal <=> granted

ExplanationIsCurrent ==
    AtRest => /\ exec # Absent => Current(exec, allowance.granted)
              /\ Current(disk.exec, disk.allowance.granted)

\* The constructor raises on a value that is not well formed, and outside an
\* advance nobody catches it: no transition, however long the sequence of calls
\* before it, builds one, live, recorded, or in a caller's hands.
Constructible ==
    /\ WellFormed(exec) /\ WellFormed(disk.exec) /\ WellFormed(restored.exec)
    /\ \A t \in Threads : WellFormed(job[t].view) /\ WellFormed(job[t].goal)

\* What an approved execution has called is covered by what its durable
\* allowance says was spent, and that by what was approved: no crash, refund
\* or failed write hands back a call that was made.
PaidFor ==
    disk.allowance.granted =>
        /\ calls.made <= disk.allowance.advances /\ disk.allowance.advances <= MaxAdvances
        /\ calls.network <= disk.allowance.network /\ disk.allowance.network <= MaxNetwork

\* How a document reads to somebody who has nothing else: a step that was
\* running or interrupted may have run, one that is pending did not.
Entry(step) ==
    CASE step.status = "pending" -> "untried"
      [] step.status \in {"running", "interrupted", "cancelled"} -> "begun"
      [] OTHER -> "over"

Approved == INSTANCE ApprovedPlan WITH
    Budget <- MaxAdvances,
    record <- [s \in Steps |-> Entry(disk.exec.steps[s])],
    performed <- calls.made,
    metered <- disk.allowance.granted,
    paid <- disk.allowance.advances

\* What the operator was promised, of an execution that was approved with a
\* budget: threads, snapshots, failing writes and restarts implement
\* ApprovedPlan.
KeepsItsPromise == Approved!Spec

\* A step that is running ends: its operation's outcome, a withdrawal, a
\* cancellation or a restart takes it out of that status.
RunningSettles == \A s \in Steps :
    exec.steps[s].status = "running" ~> exec.steps[s].status # "running"

-----------------------------------------------------------------------------
\* What a thread's locals say of each other.  Every state a thread decided
\* from, or wants to see replaced, is one in which nothing is final; only a
\* start adds a running step, to a state that has none; and notes, blocks,
\* rulings and recoveries leave the running step alone.  A rebind is of an
\* execution that may be resumed.
Decides(j) == j.pc \in {"ruling", "unrule"} \/ (j.pc \in Writing /\ j.purpose = "decision")
Rebinds(j) == j.pc \in {"rebind", "rebindAllowance"}

JobAgrees(j) ==
    /\ (MakesAttempt(j) \/ Decides(j) \/ j.pc \in {"allowance", "charge", "start"}) =>
          j.step \in Steps
    /\ j.pc = "allowance" => IsNextPending(j.view, j.step)
    /\ j.pc \in {"charge", "start"} =>
          (CanStartStep(j.view, j.step) /\ j.goal = StartStep(j.view, j.step))
    /\ MakesAttempt(j) => j.view.status = "running"
    /\ (MakesAttempt(j) /\ j.pc # "outcome") => j.goal.status = "running"
    /\ j.pc = "commit" => (j.view.status = "running" /\ Running(j.goal) = Running(j.view))
    /\ Decides(j) =>
          (/\ j.view.status # "absent" /\ ~IsTerminal(j.view)
           /\ j.goal.status # "absent" /\ ~IsTerminal(j.goal)
           /\ Running(j.goal) = Running(j.view))
    /\ Rebinds(j) => (Resumable(j.doc.exec) /\ j.doc.allowance.granted)

\* A thread that is attempting shows in the live execution: a step is running
\* there, unless the execution was closed under it.
ShowsAttempt(e) == Running(e) # {} \/ IsTerminal(e)

\* Where one thread rebinds, nothing is live until it has written what it
\* rebuilt, and what it rebuilt it from is still the restored entry.
RebindsFirst ==
    \A t \in Threads :
        /\ At(t, "rebind") => exec = Absent
        /\ Rebinds(job[t]) => job[t].doc = restored

\* OneAttempt is not inductive by itself: that the second of two racing
\* commits fails follows from what both threads hold in their locals, and that
\* no rebind comes in between from RebindsFirst.
Inv ==
    /\ TypeOK
    /\ \A t \in Threads : JobAgrees(job[t])
    /\ \A t \in Threads : Attempting(t) => ShowsAttempt(exec)
    /\ RebindsFirst
    /\ OneAttempt
=============================================================================
