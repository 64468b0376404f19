------------------------- MODULE PlanExecutionState -------------------------
(***************************************************************************)
(* One research plan execution as an immutable value, and the transitions  *)
(* that derive one such value from another (ResearchPlanExecutionState and *)
(* ResearchPlanStepState), with the two conversions a restart applies to   *)
(* it (ResearchPlanExecutionSnapshot.restored and the rebuild inside       *)
(* ResearchPlanExecutionApplicationService.rebind_restored).               *)
(*                                                                         *)
(* A transition T comes with a guard CanT: the code raises ResearchError   *)
(* exactly when the guard is false.  Identifiers, details, operation names *)
(* and timestamps are abstracted away: a step is its position in the plan. *)
(***************************************************************************)
EXTENDS Integers

CONSTANT N          \* number of steps of the plan

ASSUME StepCountAssumption == N \in Nat \ {0}

Steps == 1..N
NoStep == 0

PlanStatus ==
    {"ready", "running", "completed", "failed", "cancelled", "blocked", "interrupted"}
StepStatus ==
    {"pending", "running", "completed", "failed", "cancelled", "blocked", "interrupted"}
Terminal == {"completed", "failed", "cancelled"}

\* A human ruling on an interrupted attempt, and what was done about an
\* attempt that ran unseen.
Resolution == {"none", "performed_result_unknown", "not_performed", "remains_unknown"}
Recovery == {"none", "abandoned", "operator_supplied_result"}

StepState == [status: StepStatus, work: BOOLEAN, resolution: Resolution, recovery: Recovery]

\* `refusal` and `pause` name the step an advance was refused for, or paused
\* at for want of authority; "absent" is the plan that has no execution.
Execution ==
    [status: PlanStatus \cup {"absent"},
     steps: [Steps -> StepState],
     refusal: Steps \cup {NoStep},
     pause: Steps \cup {NoStep}]

InStatus(e, status) == {s \in Steps : e.steps[s].status = status}
Running(e) == InStatus(e, "running")
IsTerminal(e) == e.status \in Terminal

\* next_pending_step_id: the first authored step still awaiting execution.
IsNextPending(e, s) ==
    /\ e.steps[s].status = "pending"
    /\ \A t \in Steps : e.steps[t].status = "pending" => s <= t

\* What the constructor demands of every execution it builds.
WellFormed(e) ==
    /\ e.status = "completed" => InStatus(e, "completed") = Steps
    /\ \A s, t \in Running(e) : s = t
    /\ e.refusal = NoStep \/ e.pause = NoStep
    /\ \A s \in Steps :
          /\ e.steps[s].work => e.steps[s].status # "pending"
          /\ e.steps[s].recovery # "none" => e.steps[s].resolution # "none"

-----------------------------------------------------------------------------
FreshStep == [status |-> "pending", work |-> FALSE,
              resolution |-> "none", recovery |-> "none"]

Absent == [status |-> "absent", steps |-> [s \in Steps |-> FreshStep],
           refusal |-> NoStep, pause |-> NoStep]

\* prepare(plan).start()
Started == [Absent EXCEPT !.status = "running"]

\* with_status keeps the ruling and the recovery already on the step.
WithStatus(step, status, work) == [step EXCEPT !.status = status, !.work = work]

\* The refusal and the pause are dropped together wherever the step they
\* name can no longer start.
Unexplained(e) == [e EXCEPT !.refusal = NoStep, !.pause = NoStep]

\* Variant: a start that does not look for a running step.
CanStartBeside(e, s) == e.status = "running" /\ IsNextPending(e, s)

CanStartStep(e, s) ==
    /\ e.status = "running"
    /\ Running(e) = {}
    /\ IsNextPending(e, s)

StartStep(e, s) ==
    [e EXCEPT !.steps[s] = WithStatus(@, "running", FALSE),
              !.refusal = IF @ = s THEN NoStep ELSE @,
              !.pause = IF @ = s THEN NoStep ELSE @]

\* Variant: nothing pending counts as everything completed.
CompleteLastStep(e, s) ==
    [e EXCEPT !.steps[s] = WithStatus(@, "completed", TRUE),
              !.status = IF InStatus(e, "pending") = {} THEN "completed" ELSE @]

CompleteStep(e, s) ==
    [e EXCEPT !.steps[s] = WithStatus(@, "completed", TRUE),
              !.status = IF \A t \in Steps \ {s} : e.steps[t].status = "completed"
                         THEN "completed" ELSE @]

FailStep(e, s, work) ==
    Unexplained([e EXCEPT !.steps[s] = WithStatus(@, "failed", work),
                          !.status = "failed"])

CanBlockStep(e, s) ==
    e.status = "running" /\ e.steps[s].status \in {"pending", "running"}

BlockStep(e, s) ==
    Unexplained([e EXCEPT !.steps[s] = WithStatus(@, "blocked", FALSE),
                          !.status = "blocked"])

\* refuse_advance and require_authority: a note on the next pending step.
\* The constructor rejects a value that carries both notes.
CanRefuseAdvance(e, s) ==
    e.status = "running" /\ IsNextPending(e, s) /\ e.pause = NoStep
RefuseAdvance(e, s) == [e EXCEPT !.refusal = s]

CanRequireAuthority(e, s) ==
    e.status = "running" /\ IsNextPending(e, s) /\ e.refusal = NoStep
RequireAuthority(e, s) == [e EXCEPT !.pause = s]

CanCancel(e) == e.status # "absent" /\ ~IsTerminal(e)

\* Variant: a cancellation that leaves the refusal and the pause in place.
CancelStillExplained(e) ==
    [e EXCEPT !.status = "cancelled",
              !.steps = [s \in Steps |->
                  IF @[s].status \in Terminal THEN @[s]
                  ELSE WithStatus(@[s], "cancelled", @[s].work)]]

Cancel(e) ==
    Unexplained([e EXCEPT !.status = "cancelled",
                          !.steps = [s \in Steps |->
                              IF @[s].status \in Terminal THEN @[s]
                              ELSE WithStatus(@[s], "cancelled", @[s].work)]])

-----------------------------------------------------------------------------
CanResolve(e, s) == e.status = "interrupted" /\ e.steps[s].status = "interrupted"

ResolveInterrupted(e, s, ruling) ==
    LET Ruled(status, work, planStatus) ==
            [e EXCEPT !.status = planStatus,
                      !.steps[s] = [@ EXCEPT !.status = status, !.work = work,
                                             !.resolution = ruling]]
    IN CASE ruling = "remains_unknown" -> Ruled("interrupted", FALSE, "interrupted")
         [] ruling = "performed_result_unknown" ->
                Unexplained(Ruled("blocked", TRUE, "blocked"))
         [] OTHER -> Ruled("pending", FALSE, "running")

CanRecover(e, s) ==
    /\ e.status = "blocked"
    /\ e.steps[s].status = "blocked"
    /\ e.steps[s].resolution = "performed_result_unknown"

RecoverBlocked(e, s, decision) ==
    LET abandoned == decision = "abandoned"
    IN [e EXCEPT !.status = IF abandoned THEN "running" ELSE "blocked",
                 !.steps[s] = [@ EXCEPT !.recovery = decision,
                                        !.status = IF abandoned THEN "cancelled"
                                                   ELSE "blocked"]]

\* complete_interrupted_step_from_record: the step's own result is on disk.
CompleteFromRecord(e, s) ==
    LET done == [e.steps EXCEPT ![s] = WithStatus(@, "completed", TRUE)]
    IN [e EXCEPT !.steps = done,
                 !.status = IF \E t \in Steps : done[t].status = "interrupted"
                                THEN "interrupted"
                            ELSE IF \A t \in Steps : done[t].status = "completed"
                                THEN "completed"
                            ELSE "running"]

\* Loading a snapshot: what was running when the process died is unknown now.
Restored(e) ==
    IF Running(e) = {} THEN e
    ELSE [e EXCEPT !.steps = [s \in Steps |->
                       IF @[s].status = "running"
                       THEN [@[s] EXCEPT !.status = "interrupted"] ELSE @[s]],
                   !.status = IF @ \in Terminal THEN @ ELSE "interrupted"]

\* Rebinding a snapshot copies status, work, refusal and pause, and builds
\* each step anew without its resolution and its recovery.
Rebound(e) ==
    [e EXCEPT !.steps = [s \in Steps |->
        [@[s] EXCEPT !.resolution = "none", !.recovery = "none"]]]

Resumable(e) == e.status \in {"running", "interrupted"}
=============================================================================
