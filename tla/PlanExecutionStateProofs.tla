---------------------- MODULE PlanExecutionStateProofs ----------------------
(***************************************************************************)
(* What the transitions of PlanExecutionState return: an execution, with   *)
(* its running steps where each transition says they are; and, from a      *)
(* sound value, a sound one again.                                         *)
(***************************************************************************)
EXTENDS PlanExecutionState, TLAPS

\* The plan that was never started, and the one just started, are executions
\* with every step pending.
LEMMA StartedType ==
    /\ Absent \in Execution
    /\ Started \in Execution
    /\ Running(Started) = {}
BY DEF Absent, Started, FreshStep, Execution, StepState, PlanStatus, StepStatus,
       Resolution, Recovery, Running, InStatus, NoStep

\* with_status returns a step of the same ruling and recovery.
LEMMA WithStatusType ==
    ASSUME NEW step \in StepState, NEW status \in StepStatus, NEW work \in BOOLEAN
    PROVE  /\ WithStatus(step, status, work) \in StepState
           /\ WithStatus(step, status, work).status = status
BY DEF WithStatus, StepState

\* Dropping the refusal and the pause changes nothing else.
LEMMA UnexplainedType ==
    ASSUME NEW e \in Execution
    PROVE  /\ Unexplained(e) \in Execution
           /\ Unexplained(e).status = e.status
           /\ Unexplained(e).steps = e.steps
BY DEF Unexplained, Execution, NoStep

\* start_step leaves exactly the started step running.
LEMMA StartStepType ==
    ASSUME NEW e \in Execution, NEW s \in Steps, CanStartStep(e, s)
    PROVE  /\ StartStep(e, s) \in Execution
           /\ StartStep(e, s).status = "running"
           /\ Running(StartStep(e, s)) = {s}
<1> DEFINE step == WithStatus(e.steps[s], "running", FALSE)
<1>1. e.steps[s] \in StepState /\ e.status = "running" /\ Running(e) = {}
  BY DEF Execution, CanStartStep
<1>2. step \in StepState /\ step.status = "running"
  BY <1>1, WithStatusType DEF StepStatus
<1> DEFINE Dropped(note) == IF note = s THEN NoStep ELSE note
<1>3. StartStep(e, s) = [e EXCEPT !.steps = [e.steps EXCEPT ![s] = step],
                                  !.refusal = Dropped(e.refusal),
                                  !.pause = Dropped(e.pause)]
  BY DEF StartStep, Execution
<1>4. /\ StartStep(e, s) \in Execution
      /\ StartStep(e, s).status = "running"
      /\ StartStep(e, s).steps = [e.steps EXCEPT ![s] = step]
  <2>1. Dropped(e.refusal) \in Steps \cup {NoStep} /\ Dropped(e.pause) \in Steps \cup {NoStep}
    BY DEF Execution
  <2>2. [e.steps EXCEPT ![s] = step] \in [Steps -> StepState]
    <3> HIDE DEF step
    <3> QED BY <1>2 DEF Execution
  <2> HIDE DEF step, Dropped
  <2> QED BY <1>1, <1>3, <2>1, <2>2 DEF Execution
<1> HIDE DEF step
<1>5. \A t \in Steps : StartStep(e, s).steps[t] = IF t = s THEN step ELSE e.steps[t]
  BY <1>4 DEF Execution
<1>6. \A t \in Steps : e.steps[t].status # "running"
  BY <1>1 DEF Running, InStatus
<1>7. Running(StartStep(e, s)) = {s}
  BY <1>2, <1>5, <1>6 DEF Running, InStatus
<1> QED BY <1>4, <1>7

\* A finished attempt is an execution again, whatever its outcome.
LEMMA OutcomeType ==
    ASSUME NEW e \in Execution, NEW s \in Steps, NEW work \in BOOLEAN
    PROVE  /\ FailStep(e, s, work) \in Execution
           /\ CompleteStep(e, s) \in Execution
           /\ BlockStep(e, s) \in Execution
<1>1. e.steps[s] \in StepState
  BY DEF Execution
<1> DEFINE With(status, w) == WithStatus(e.steps[s], status, w)
<1>2. /\ With("failed", work) \in StepState
      /\ With("completed", TRUE) \in StepState
      /\ With("blocked", FALSE) \in StepState
  BY <1>1, WithStatusType DEF StepStatus
<1>3. FailStep(e, s, work) \in Execution
  <2> DEFINE step == With("failed", work)
  <2> HIDE DEF step
  <2>1. [e EXCEPT !.steps[s] = step, !.status = "failed"] \in Execution
    BY <1>2 DEF Execution, PlanStatus, step
  <2> QED BY <2>1, UnexplainedType DEF FailStep, step
<1>4. CompleteStep(e, s) \in Execution
  <2> DEFINE step == With("completed", TRUE)
  <2> HIDE DEF step
  <2>1. \A b \in BOOLEAN :
           [e EXCEPT !.steps[s] = step, !.status = IF b THEN "completed" ELSE @] \in Execution
    BY <1>2 DEF Execution, PlanStatus, step
  <2> QED BY <2>1 DEF CompleteStep, step
<1>5. BlockStep(e, s) \in Execution
  <2> DEFINE step == With("blocked", FALSE)
  <2> HIDE DEF step
  <2>1. [e EXCEPT !.steps[s] = step, !.status = "blocked"] \in Execution
    BY <1>2 DEF Execution, PlanStatus, step
  <2> QED BY <2>1, UnexplainedType DEF BlockStep, step
<1> QED BY <1>3, <1>4, <1>5

\* Changing a step that is not running to another that is not leaves the
\* running steps as they were.
LEMMA SameRunning ==
    ASSUME NEW e \in Execution, NEW f \in Execution, NEW s \in Steps, NEW step \in StepState,
           f.steps = [e.steps EXCEPT ![s] = step],
           e.steps[s].status # "running", step.status # "running"
    PROVE  Running(f) = Running(e)
<1>1. \A t \in Steps : f.steps[t] = IF t = s THEN step ELSE e.steps[t]
  BY DEF Execution
<1> QED BY <1>1 DEF Running, InStatus

\* Blocking a pending step, refusing and pausing leave what is running alone.
LEMMA NoteType ==
    ASSUME NEW e \in Execution, NEW s \in Steps, e.steps[s].status = "pending"
    PROVE  /\ RefuseAdvance(e, s) \in Execution
           /\ RequireAuthority(e, s) \in Execution
           /\ Running(RefuseAdvance(e, s)) = Running(e)
           /\ Running(RequireAuthority(e, s)) = Running(e)
           /\ Running(BlockStep(e, s)) = Running(e)
<1>1. /\ RefuseAdvance(e, s) \in Execution /\ RefuseAdvance(e, s).steps = e.steps
      /\ RequireAuthority(e, s) \in Execution /\ RequireAuthority(e, s).steps = e.steps
  BY DEF RefuseAdvance, RequireAuthority, Execution
<1>2. Running(BlockStep(e, s)) = Running(e)
  <2> DEFINE step == WithStatus(e.steps[s], "blocked", FALSE)
             b == [e EXCEPT !.steps[s] = step, !.status = "blocked"]
  <2>1. step \in StepState /\ step.status # "running"
    BY WithStatusType DEF Execution, StepStatus
  <2>2. b \in Execution /\ b.steps = [e.steps EXCEPT ![s] = step]
    <3> HIDE DEF step
    <3> QED BY <2>1 DEF Execution, PlanStatus
  <2>3. BlockStep(e, s) = Unexplained(b)
    BY DEF BlockStep
  <2> HIDE DEF b, step
  <2> QED BY <2>1, <2>2, <2>3, UnexplainedType, SameRunning
<1> QED BY <1>1, <1>2 DEF Running, InStatus

\* cancel closes the execution.
LEMMA CancelType ==
    ASSUME NEW e \in Execution
    PROVE  Cancel(e) \in Execution /\ IsTerminal(Cancel(e))
<1> DEFINE steps == [s \in Steps |-> IF e.steps[s].status \in Terminal THEN e.steps[s]
                                     ELSE WithStatus(e.steps[s], "cancelled", e.steps[s].work)]
           c == [e EXCEPT !.status = "cancelled", !.steps = steps]
<1>1. steps \in [Steps -> StepState]
  <2> SUFFICES ASSUME NEW s \in Steps PROVE steps[s] \in StepState
    OBVIOUS
  <2>1. e.steps[s] \in StepState /\ e.steps[s].work \in BOOLEAN
    BY DEF Execution, StepState
  <2> QED BY <2>1, WithStatusType DEF StepStatus
<1>2. c \in Execution /\ c.status = "cancelled"
  <2> HIDE DEF steps
  <2> QED BY <1>1 DEF Execution, PlanStatus
<1>3. Cancel(e) = Unexplained(c)
  BY DEF Cancel, Execution
<1> HIDE DEF c
<1> QED BY <1>2, <1>3, UnexplainedType DEF IsTerminal, Terminal

\* A ruling touches an interrupted step only, and closes nothing.
LEMMA RulingType ==
    ASSUME NEW e \in Execution, NEW s \in Steps, NEW ruling \in Resolution, CanResolve(e, s)
    PROVE  /\ ResolveInterrupted(e, s, ruling) \in Execution
           /\ ~IsTerminal(ResolveInterrupted(e, s, ruling))
           /\ ResolveInterrupted(e, s, ruling).status # "absent"
           /\ Running(ResolveInterrupted(e, s, ruling)) = Running(e)
<1> DEFINE Step(status, work) == [e.steps[s] EXCEPT !.status = status, !.work = work,
                                                    !.resolution = ruling]
           Ruled(status, work, planStatus) ==
               [e EXCEPT !.status = planStatus,
                         !.steps[s] = [@ EXCEPT !.status = status, !.work = work,
                                                !.resolution = ruling]]
<1>1. ASSUME NEW status \in {"interrupted", "blocked", "pending"}, NEW work \in BOOLEAN,
             NEW planStatus \in {"interrupted", "blocked", "running"}
      PROVE  /\ Ruled(status, work, planStatus) \in Execution
             /\ Ruled(status, work, planStatus).status = planStatus
             /\ Running(Ruled(status, work, planStatus)) = Running(e)
  <2> DEFINE step == Step(status, work)
             f == [e EXCEPT !.status = planStatus, !.steps[s] = step]
  <2>1. step \in StepState /\ step.status = status
    BY DEF Execution, StepState, StepStatus
  <2>2. Ruled(status, work, planStatus) = f
    BY DEF Execution
  <2>3. f \in Execution /\ f.status = planStatus /\ f.steps = [e.steps EXCEPT ![s] = step]
    <3> HIDE DEF step
    <3> QED BY <2>1 DEF Execution, PlanStatus
  <2>4. e.steps[s].status # "running" /\ step.status # "running"
    BY <2>1 DEF CanResolve
  <2> HIDE DEF step, f
  <2> QED BY <2>1, <2>2, <2>3, <2>4, SameRunning
<1>2. CASE ruling = "remains_unknown"
  <2>1. ResolveInterrupted(e, s, ruling) = Ruled("interrupted", FALSE, "interrupted")
    BY <1>2 DEF ResolveInterrupted
  <2> HIDE DEF Ruled
  <2> QED BY <2>1, <1>1 DEF IsTerminal, Terminal
<1>3. CASE ruling = "performed_result_unknown"
  <2>1. ResolveInterrupted(e, s, ruling) = Unexplained(Ruled("blocked", TRUE, "blocked"))
    BY <1>3 DEF ResolveInterrupted
  <2> DEFINE f == Ruled("blocked", TRUE, "blocked")
  <2> HIDE DEF Ruled
  <2>2. f \in Execution /\ f.status = "blocked" /\ Running(f) = Running(e)
    BY <1>1
  <2> HIDE DEF f
  <2>3. ResolveInterrupted(e, s, ruling) = Unexplained(f)
    BY <2>1 DEF f
  <2>4. Running(Unexplained(f)) = Running(f)
    BY <2>2, UnexplainedType DEF Running, InStatus
  <2> QED BY <2>2, <2>3, <2>4, UnexplainedType DEF IsTerminal, Terminal
<1>4. CASE ruling \notin {"remains_unknown", "performed_result_unknown"}
  <2>1. ResolveInterrupted(e, s, ruling) = Ruled("pending", FALSE, "running")
    BY <1>4 DEF ResolveInterrupted
  <2> HIDE DEF Ruled
  <2> QED BY <2>1, <1>1 DEF IsTerminal, Terminal
<1> QED BY <1>2, <1>3, <1>4

\* A recovery touches a blocked step only, and closes nothing.
LEMMA RecoveryType ==
    ASSUME NEW e \in Execution, NEW s \in Steps, NEW decision \in Recovery, CanRecover(e, s)
    PROVE  /\ RecoverBlocked(e, s, decision) \in Execution
           /\ ~IsTerminal(RecoverBlocked(e, s, decision))
           /\ RecoverBlocked(e, s, decision).status # "absent"
           /\ Running(RecoverBlocked(e, s, decision)) = Running(e)
<1> DEFINE status == IF decision = "abandoned" THEN "cancelled" ELSE "blocked"
           planStatus == IF decision = "abandoned" THEN "running" ELSE "blocked"
           step == [e.steps[s] EXCEPT !.recovery = decision, !.status = status]
           f == [e EXCEPT !.status = planStatus, !.steps[s] = step]
<1>1. step \in StepState /\ step.status # "running"
  BY DEF Execution, StepState, StepStatus
<1>2. RecoverBlocked(e, s, decision) = f
  BY DEF RecoverBlocked, Execution
<1>3. planStatus \in PlanStatus \ Terminal
  BY DEF PlanStatus, Terminal
<1>4. f \in Execution /\ f.status = planStatus /\ f.steps = [e.steps EXCEPT ![s] = step]
  <2> HIDE DEF step, planStatus
  <2> QED BY <1>1, <1>3 DEF Execution
<1>5. e.steps[s].status # "running"
  BY DEF CanRecover
<1> HIDE DEF step, f, planStatus
<1>6. Running(f) = Running(e)
  BY <1>1, <1>4, <1>5, SameRunning
<1> QED BY <1>2, <1>3, <1>4, <1>6 DEF IsTerminal, PlanStatus

\* What a restart makes of a recorded execution.
LEMMA RestartType ==
    ASSUME NEW e \in Execution
    PROVE  Restored(e) \in Execution /\ Rebound(e) \in Execution
<1>1. Rebound(e) \in Execution
  <2> DEFINE steps == [s \in Steps |-> [e.steps[s] EXCEPT !.resolution = "none",
                                                          !.recovery = "none"]]
  <2>1. steps \in [Steps -> StepState]
    BY DEF Execution, StepState, Resolution, Recovery
  <2>2. Rebound(e) = [e EXCEPT !.steps = steps]
    BY DEF Rebound, Execution
  <2> HIDE DEF steps
  <2> QED BY <2>1, <2>2 DEF Execution
<1>2. Restored(e) \in Execution
  <2> DEFINE steps == [s \in Steps |-> IF e.steps[s].status = "running"
                                       THEN [e.steps[s] EXCEPT !.status = "interrupted"]
                                       ELSE e.steps[s]]
             status == IF e.status \in Terminal THEN e.status ELSE "interrupted"
  <2>1. steps \in [Steps -> StepState]
    BY DEF Execution, StepState, StepStatus
  <2>2. status \in PlanStatus \cup {"absent"}
    BY DEF Execution, PlanStatus
  <2>3. Restored(e) = e \/ Restored(e) = [e EXCEPT !.steps = steps, !.status = status]
    BY DEF Restored, Execution
  <2> HIDE DEF steps, status
  <2> QED BY <2>1, <2>2, <2>3 DEF Execution
<1> QED BY <1>1, <1>2

LEMMA CompleteFromRecordType ==
    ASSUME NEW e \in Execution, NEW s \in Steps
    PROVE  CompleteFromRecord(e, s) \in Execution
<1> DEFINE done == [e.steps EXCEPT ![s] = WithStatus(e.steps[s], "completed", TRUE)]
<1>1. done \in [Steps -> StepState]
  BY WithStatusType DEF Execution, StepStatus
<1>2. \E status \in PlanStatus :
        CompleteFromRecord(e, s) = [e EXCEPT !.steps = done, !.status = status]
  BY DEF CompleteFromRecord, Execution, PlanStatus
<1> HIDE DEF done
<1> QED BY <1>1, <1>2 DEF Execution

-----------------------------------------------------------------------------
(***************************************************************************)
(* Sound values.  Beside what the constructor demands: a refusal or pause  *)
(* names the step that is next, with nothing running or interrupted; the   *)
(* plan without an execution is Absent; and what is cancelled has every    *)
(* step closed.                                                            *)
(***************************************************************************)
Untried(e) == InStatus(e, "pending")
Completed(e) == InStatus(e, "completed")
Interrupted(e) == InStatus(e, "interrupted")
Explained(e) == e.refusal # NoStep \/ e.pause # NoStep

Sound(e) ==
    /\ WellFormed(e)
    /\ Explained(e) =>
          /\ e.status = "running"
          /\ Running(e) = {} /\ Interrupted(e) = {}
          /\ \A s \in {e.refusal, e.pause} \ {NoStep} : IsNextPending(e, s)
    /\ e.status = "absent" => e = Absent
    /\ e.status = "cancelled" => \A s \in Steps : e.steps[s].status \in Terminal

\* The plan that was never started, and the one just started, are sound.
LEMMA StartedSound ==
    /\ Sound(Absent) /\ Sound(Started)
    /\ Completed(Absent) = {} /\ Completed(Started) = {}
    /\ Interrupted(Absent) = {} /\ Interrupted(Started) = {}
    /\ ~Explained(Absent) /\ ~Explained(Started)
    /\ Untried(Absent) = Steps
BY DEF Absent, Started, FreshStep, Sound, WellFormed, Explained, Running, Interrupted, Completed,
       Untried, InStatus, NoStep

\* What every change of one step comes to: a step that is well formed is put
\* in the place of another, and notes are dropped, or there were none.
LEMMA OneStepSound ==
    ASSUME NEW e \in Execution, NEW f \in Execution, Sound(e), NEW s \in Steps,
           \A r \in Steps \ {s} : f.steps[r] = e.steps[r],
           f.steps[s].work => f.steps[s].status # "pending",
           f.steps[s].recovery # "none" => f.steps[s].resolution # "none",
           f.steps[s].status = "running" => Running(e) = {},
           ~Explained(f),
           f.status \in {"running", "completed", "failed", "blocked", "interrupted"},
           f.status = "completed" => \A r \in Steps : f.steps[r].status = "completed"
    PROVE  Sound(f)
<1>1. \A r \in Running(f) \ {s} : r \in Running(e)
  BY DEF Running, InStatus
<1>2. s \in Running(f) => Running(e) = {}
  BY DEF Running, InStatus
<1>3. \A r, q \in Running(f) : r = q
  BY <1>1, <1>2 DEF Sound, WellFormed
<1>4. f.refusal = NoStep \/ f.pause = NoStep
  BY DEF Explained
<1>5. \A r \in Steps :
          /\ f.steps[r].work => f.steps[r].status # "pending"
          /\ f.steps[r].recovery # "none" => f.steps[r].resolution # "none"
  BY DEF Sound, WellFormed
<1>6. f.status = "completed" => InStatus(f, "completed") = Steps
  BY DEF InStatus
<1> QED BY <1>3, <1>4, <1>5, <1>6 DEF Sound, WellFormed

\* start_step.
LEMMA StartStepSound ==
    ASSUME NEW e \in Execution, NEW s \in Steps, CanStartStep(e, s), Sound(e)
    PROVE  /\ Sound(StartStep(e, s))
           /\ StartStep(e, s).steps[s].status = "running"
           /\ ~Explained(StartStep(e, s))
           /\ Completed(StartStep(e, s)) = Completed(e)
           /\ Untried(StartStep(e, s)) = Untried(e) \ {s}
           /\ Interrupted(StartStep(e, s)) = Interrupted(e)
<1> DEFINE f == StartStep(e, s)
           step == WithStatus(e.steps[s], "running", FALSE)
<1>1. f \in Execution /\ f.status = "running"
  BY StartStepType
<1>2. /\ \A r \in Steps : f.steps[r] = IF r = s THEN step ELSE e.steps[r]
      /\ f.refusal = (IF e.refusal = s THEN NoStep ELSE e.refusal)
      /\ f.pause = (IF e.pause = s THEN NoStep ELSE e.pause)
  BY DEF StartStep, Execution
<1>3. /\ step.status = "running" /\ ~step.work
      /\ step.resolution = e.steps[s].resolution /\ step.recovery = e.steps[s].recovery
  BY DEF WithStatus, Execution, StepState
<1> HIDE DEF f, step
<1>4. \A r \in {e.refusal, e.pause} \ {NoStep} : r = s
  <2> SUFFICES ASSUME NEW r \in {e.refusal, e.pause} \ {NoStep} PROVE r = s
    OBVIOUS
  <2>1. IsNextPending(e, r) /\ r \in Steps /\ IsNextPending(e, s)
    BY DEF Sound, Explained, Execution, CanStartStep
  <2> QED BY <2>1 DEF IsNextPending, Steps
<1>5. ~Explained(f)
  BY <1>2, <1>4 DEF Explained
<1>6. e.steps[s].recovery # "none" => e.steps[s].resolution # "none"
  BY DEF Sound, WellFormed
<1>7. Running(e) = {} /\ e.steps[s].status = "pending"
  BY DEF CanStartStep, IsNextPending
<1>8. Sound(f)
  BY <1>1, <1>2, <1>3, <1>5, <1>6, <1>7, OneStepSound
<1>9. Completed(f) = Completed(e) /\ Untried(f) = Untried(e) \ {s} /\ Interrupted(f) = Interrupted(e)
  BY <1>2, <1>3, <1>7 DEF Completed, Untried, Interrupted, InStatus
<1> QED BY <1>2, <1>3, <1>5, <1>8, <1>9 DEF f

\* The three outcomes of an attempt: complete_step, fail_step, block_step.
\* A block may be of a pending step as well.
LEMMA CompleteStepSound ==
    ASSUME NEW e \in Execution, NEW s \in Steps, Sound(e), e.status = "running",
           e.steps[s].status = "running"
    PROVE  /\ Sound(CompleteStep(e, s))
           /\ ~Explained(CompleteStep(e, s))
           /\ Completed(CompleteStep(e, s)) = Completed(e) \cup {s}
           /\ Untried(CompleteStep(e, s)) = Untried(e)
           /\ Interrupted(CompleteStep(e, s)) = Interrupted(e)
<1> DEFINE f == CompleteStep(e, s)
           step == WithStatus(e.steps[s], "completed", TRUE)
<1>1. f \in Execution
  BY OutcomeType
<1>2. /\ \A r \in Steps : f.steps[r] = IF r = s THEN step ELSE e.steps[r]
      /\ f.refusal = e.refusal /\ f.pause = e.pause
      /\ f.status = IF \A t \in Steps \ {s} : e.steps[t].status = "completed"
                    THEN "completed" ELSE "running"
  BY DEF CompleteStep, Execution
<1>3. /\ step.status = "completed"
      /\ step.resolution = e.steps[s].resolution /\ step.recovery = e.steps[s].recovery
  BY DEF WithStatus, Execution, StepState
<1> HIDE DEF f, step
<1>4. ~Explained(f)
  BY <1>2 DEF Explained, Sound, Running, InStatus
<1>5. e.steps[s].recovery # "none" => e.steps[s].resolution # "none"
  BY DEF Sound, WellFormed
<1>6. f.status = "completed" => \A r \in Steps : f.steps[r].status = "completed"
  BY <1>2, <1>3
<1>7. Sound(f)
  BY <1>1, <1>2, <1>3, <1>4, <1>5, <1>6, OneStepSound
<1>8. Completed(f) = Completed(e) \cup {s} /\ Untried(f) = Untried(e) /\ Interrupted(f) = Interrupted(e)
  BY <1>2, <1>3 DEF Completed, Untried, Interrupted, InStatus
<1> QED BY <1>4, <1>7, <1>8 DEF f

LEMMA FailStepSound ==
    ASSUME NEW e \in Execution, NEW s \in Steps, Sound(e), NEW work \in BOOLEAN,
           e.steps[s].status = "running"
    PROVE  /\ Sound(FailStep(e, s, work))
           /\ ~Explained(FailStep(e, s, work))
           /\ Completed(FailStep(e, s, work)) = Completed(e)
           /\ Untried(FailStep(e, s, work)) = Untried(e)
           /\ Interrupted(FailStep(e, s, work)) = Interrupted(e)
<1> DEFINE f == FailStep(e, s, work)
           step == WithStatus(e.steps[s], "failed", work)
<1>1. f \in Execution
  BY OutcomeType
<1>2. /\ \A r \in Steps : f.steps[r] = IF r = s THEN step ELSE e.steps[r]
      /\ f.refusal = NoStep /\ f.pause = NoStep /\ f.status = "failed"
  BY DEF FailStep, Unexplained, Execution
<1>3. /\ step.status = "failed"
      /\ step.resolution = e.steps[s].resolution /\ step.recovery = e.steps[s].recovery
  BY DEF WithStatus, Execution, StepState
<1> HIDE DEF f, step
<1>4. ~Explained(f)
  BY <1>2 DEF Explained
<1>5. e.steps[s].recovery # "none" => e.steps[s].resolution # "none"
  BY DEF Sound, WellFormed
<1>7. Sound(f)
  BY <1>1, <1>2, <1>3, <1>4, <1>5, OneStepSound
<1>8. Completed(f) = Completed(e) /\ Untried(f) = Untried(e) /\ Interrupted(f) = Interrupted(e)
  BY <1>2, <1>3 DEF Completed, Untried, Interrupted, InStatus
<1> QED BY <1>4, <1>7, <1>8 DEF f

LEMMA BlockStepSound ==
    ASSUME NEW e \in Execution, NEW s \in Steps, Sound(e),
           e.steps[s].status \in {"pending", "running"}
    PROVE  /\ Sound(BlockStep(e, s))
           /\ ~Explained(BlockStep(e, s))
           /\ Completed(BlockStep(e, s)) = Completed(e)
           /\ Untried(BlockStep(e, s)) = Untried(e) \ {s}
           /\ Interrupted(BlockStep(e, s)) = Interrupted(e)
<1> DEFINE f == BlockStep(e, s)
           step == WithStatus(e.steps[s], "blocked", FALSE)
<1>1. f \in Execution
  BY OutcomeType
<1>2. /\ \A r \in Steps : f.steps[r] = IF r = s THEN step ELSE e.steps[r]
      /\ f.refusal = NoStep /\ f.pause = NoStep /\ f.status = "blocked"
  BY DEF BlockStep, Unexplained, Execution
<1>3. /\ step.status = "blocked"
      /\ step.resolution = e.steps[s].resolution /\ step.recovery = e.steps[s].recovery
  BY DEF WithStatus, Execution, StepState
<1> HIDE DEF f, step
<1>4. ~Explained(f)
  BY <1>2 DEF Explained
<1>5. e.steps[s].recovery # "none" => e.steps[s].resolution # "none"
  BY DEF Sound, WellFormed
<1>7. Sound(f)
  BY <1>1, <1>2, <1>3, <1>4, <1>5, OneStepSound
<1>8. Completed(f) = Completed(e) /\ Untried(f) = Untried(e) \ {s} /\ Interrupted(f) = Interrupted(e)
  BY <1>2, <1>3 DEF Completed, Untried, Interrupted, InStatus
<1> QED BY <1>4, <1>7, <1>8 DEF f

\* refuse_advance and require_authority, of the next pending step while
\* nothing is running or interrupted.
LEMMA NoteSound ==
    ASSUME NEW e \in Execution, NEW s \in Steps, Sound(e), IsNextPending(e, s),
           e.status = "running", Running(e) = {}, Interrupted(e) = {}
    PROVE  /\ e.pause = NoStep =>
                 /\ Sound(RefuseAdvance(e, s))
                 /\ RefuseAdvance(e, s).refusal # NoStep /\ RefuseAdvance(e, s).pause = NoStep
           /\ e.refusal = NoStep =>
                 /\ Sound(RequireAuthority(e, s))
                 /\ RequireAuthority(e, s).pause # NoStep /\ RequireAuthority(e, s).refusal = NoStep
           /\ RefuseAdvance(e, s).steps = e.steps /\ RequireAuthority(e, s).steps = e.steps
<1>1. ASSUME NEW f \in Execution, f.steps = e.steps, f.status = e.status,
             {f.refusal, f.pause} = {NoStep, s}
      PROVE  Sound(f)
  <2>1. f.status = "running" /\ Running(f) = {} /\ Interrupted(f) = {} /\ IsNextPending(f, s)
    BY <1>1 DEF Running, Interrupted, InStatus, IsNextPending
  <2>2. WellFormed(f)
    BY <1>1, <2>1 DEF Sound, WellFormed, InStatus
  <2> QED BY <1>1, <2>1, <2>2 DEF Sound
<1>2. s # NoStep
  BY DEF Steps, NoStep
<1>3. e.pause = NoStep =>
        LET f == RefuseAdvance(e, s)
        IN f.steps = e.steps /\ f.status = e.status /\ f.refusal = s /\ f.pause = NoStep
  BY DEF RefuseAdvance, Execution
<1>4. e.refusal = NoStep =>
        LET f == RequireAuthority(e, s)
        IN f.steps = e.steps /\ f.status = e.status /\ f.pause = s /\ f.refusal = NoStep
  BY DEF RequireAuthority, Execution
<1>5. RefuseAdvance(e, s) \in Execution /\ RequireAuthority(e, s) \in Execution
  BY NoteType DEF IsNextPending
<1>6. RefuseAdvance(e, s).steps = e.steps /\ RequireAuthority(e, s).steps = e.steps
  BY DEF RefuseAdvance, RequireAuthority, Execution
<1>7. e.pause = NoStep => Sound(RefuseAdvance(e, s))
  BY <1>1, <1>3, <1>5
<1>8. e.refusal = NoStep => Sound(RequireAuthority(e, s))
  BY <1>1, <1>4, <1>5
<1> QED BY <1>2, <1>3, <1>4, <1>6, <1>7, <1>8

\* What is cancelled has nothing left in it, and nothing to explain.
LEMMA CancelledEmpty ==
    ASSUME NEW e, Sound(e), e.status = "cancelled"
    PROVE  Untried(e) = {} /\ Interrupted(e) = {} /\ Running(e) = {} /\ ~Explained(e)
BY DEF Sound, Untried, Interrupted, Running, InStatus, Terminal

\* cancel closes every step that was open.
LEMMA CancelSound ==
    ASSUME NEW e \in Execution, Sound(e)
    PROVE  /\ Sound(Cancel(e))
           /\ Cancel(e).status = "cancelled" /\ ~Explained(Cancel(e))
           /\ Completed(Cancel(e)) = Completed(e)
<1> DEFINE f == Cancel(e)
           Closed(step) == IF step.status \in Terminal THEN step
                           ELSE WithStatus(step, "cancelled", step.work)
<1>1. /\ f.status = "cancelled" /\ f.refusal = NoStep /\ f.pause = NoStep
      /\ \A r \in Steps : f.steps[r] = Closed(e.steps[r])
  BY DEF Cancel, Unexplained, Execution
<1>2. \A r \in Steps :
          /\ Closed(e.steps[r]).status \in Terminal
          /\ Closed(e.steps[r]).status = "completed" <=> e.steps[r].status = "completed"
          /\ Closed(e.steps[r]).resolution = e.steps[r].resolution
          /\ Closed(e.steps[r]).recovery = e.steps[r].recovery
  BY DEF WithStatus, Execution, StepState, Terminal
<1> HIDE DEF f, Closed
<1>3. \A r \in Steps : f.steps[r].status \in Terminal
  BY <1>1, <1>2
<1>4. Running(f) = {} /\ Completed(f) = Completed(e)
  BY <1>1, <1>2, <1>3 DEF Running, Completed, InStatus, Terminal
<1>5. WellFormed(f)
  BY <1>1, <1>2, <1>3, <1>4 DEF Sound, WellFormed, Terminal
<1> QED BY <1>1, <1>3, <1>4, <1>5 DEF Sound, Explained, f

\* resolve_interrupted_step.
LEMMA ResolveSound ==
    ASSUME NEW e \in Execution, NEW s \in Steps, NEW ruling \in Resolution \ {"none"},
           CanResolve(e, s), Sound(e)
    PROVE  LET f == ResolveInterrupted(e, s, ruling)
           IN /\ Sound(f) /\ ~Explained(f)
              /\ Completed(f) = Completed(e)
              /\ Untried(f) \subseteq Untried(e) \cup {s}
              /\ Interrupted(f) \subseteq Interrupted(e)
<1> DEFINE f == ResolveInterrupted(e, s, ruling)
<1>1. f \in Execution /\ Running(f) = Running(e)
  BY RulingType
<1>2. /\ \A r \in Steps \ {s} : f.steps[r] = e.steps[r]
      /\ f.steps[s].resolution = ruling
      /\ f.steps[s].status \in {"interrupted", "blocked", "pending"}
      /\ f.steps[s].work => f.steps[s].status # "pending"
      /\ f.status \in {"interrupted", "blocked", "running"}
      /\ f.refusal \in {NoStep, e.refusal} /\ f.pause \in {NoStep, e.pause}
  <2>1. CASE ruling = "remains_unknown"
    BY <2>1 DEF ResolveInterrupted, Execution, StepState
  <2>2. CASE ruling = "performed_result_unknown"
    BY <2>2 DEF ResolveInterrupted, Unexplained, Execution, StepState
  <2>3. CASE ruling \notin {"remains_unknown", "performed_result_unknown"}
    BY <2>3 DEF ResolveInterrupted, Execution, StepState
  <2> QED BY <2>1, <2>2, <2>3
<1>3. e.refusal = NoStep /\ e.pause = NoStep
  BY DEF CanResolve, Sound, Explained
<1> HIDE DEF f
<1>4. ~Explained(f)
  BY <1>2, <1>3 DEF Explained
<1>5. Sound(f)
  BY <1>1, <1>2, <1>4, OneStepSound
<1>6. e.steps[s].status = "interrupted"
  BY DEF CanResolve
<1>7. /\ Completed(f) = Completed(e)
      /\ Untried(f) \subseteq Untried(e) \cup {s}
      /\ Interrupted(f) \subseteq Interrupted(e)
  BY <1>2, <1>6 DEF Completed, Untried, Interrupted, InStatus
<1> QED BY <1>4, <1>5, <1>7 DEF f

\* recover_blocked_step.
LEMMA RecoverSound ==
    ASSUME NEW e \in Execution, NEW s \in Steps, NEW decision \in Recovery,
           CanRecover(e, s), Sound(e)
    PROVE  LET f == RecoverBlocked(e, s, decision)
           IN /\ Sound(f) /\ ~Explained(f)
              /\ Completed(f) = Completed(e) /\ Untried(f) = Untried(e)
              /\ Interrupted(f) = Interrupted(e)
              /\ f.steps[s].status # "pending"
<1> DEFINE f == RecoverBlocked(e, s, decision)
<1>1. f \in Execution
  BY RecoveryType
<1>2. /\ \A r \in Steps \ {s} : f.steps[r] = e.steps[r]
      /\ f.steps[s].resolution = "performed_result_unknown"
      /\ f.steps[s].status \in {"cancelled", "blocked"}
      /\ f.status \in {"blocked", "running"}
      /\ f.refusal = e.refusal /\ f.pause = e.pause
  BY DEF RecoverBlocked, Execution, StepState, CanRecover
<1> HIDE DEF f
<1>3. ~Explained(f)
  BY <1>2 DEF CanRecover, Sound, Explained
<1>4. Sound(f)
  BY <1>1, <1>2, <1>3, OneStepSound
<1>5. /\ Completed(f) = Completed(e) /\ Untried(f) = Untried(e) /\ Interrupted(f) = Interrupted(e)
  BY <1>2 DEF Completed, Untried, Interrupted, InStatus, CanRecover
<1> QED BY <1>2, <1>3, <1>4, <1>5 DEF f

\* The two conversions of a restart, and what an execution's own record of a
\* result makes of it.
LEMMA RestoredSound ==
    ASSUME NEW e \in Execution, Sound(e)
    PROVE  /\ Sound(Restored(e))
           /\ Completed(Restored(e)) = Completed(e) /\ Untried(Restored(e)) = Untried(e)
           /\ Interrupted(Restored(e)) = Interrupted(e) \cup Running(e)
           /\ Restored(e).refusal = e.refusal /\ Restored(e).pause = e.pause
<1> DEFINE f == Restored(e)
<1>1. f \in Execution
  BY RestartType
<1>2. CASE Running(e) = {}
  BY <1>2 DEF Restored
<1>3. CASE Running(e) # {}
  <2>1. /\ f.refusal = e.refusal /\ f.pause = e.pause
        /\ f.status = IF e.status \in Terminal THEN e.status ELSE "interrupted"
        /\ \A r \in Steps : f.steps[r] = IF e.steps[r].status = "running"
                                         THEN [e.steps[r] EXCEPT !.status = "interrupted"]
                                         ELSE e.steps[r]
    BY <1>3 DEF Restored, Execution
  <2>2. \A r \in Steps :
          /\ f.steps[r].status = IF e.steps[r].status = "running" THEN "interrupted"
                                 ELSE e.steps[r].status
          /\ f.steps[r].work = e.steps[r].work
          /\ f.steps[r].resolution = e.steps[r].resolution
          /\ f.steps[r].recovery = e.steps[r].recovery
    <3> HIDE DEF f
    <3>1. \A r \in Steps : e.steps[r] \in StepState
      BY DEF Execution
    <3> QED BY <2>1, <3>1 DEF StepState
  <2>3. ~Explained(e) /\ e.status \notin {"completed", "cancelled", "absent"}
    BY <1>3 DEF Sound, WellFormed, Running, InStatus, Terminal, Absent, FreshStep
  <2> HIDE DEF f
  <2>4. Running(f) = {} /\ ~Explained(f) /\ f.status \notin {"completed", "cancelled", "absent"}
    BY <2>1, <2>2, <2>3 DEF Running, InStatus, Explained
  <2>5. Sound(f)
    <3>1. \A r \in Steps :
            /\ f.steps[r].work => f.steps[r].status # "pending"
            /\ f.steps[r].recovery # "none" => f.steps[r].resolution # "none"
      BY <2>2 DEF Sound, WellFormed
    <3>2. WellFormed(f)
      BY <2>4, <3>1 DEF WellFormed, Explained
    <3> QED BY <2>4, <3>2 DEF Sound
  <2>6. /\ Completed(f) = Completed(e) /\ Untried(f) = Untried(e)
        /\ Interrupted(f) = Interrupted(e) \cup Running(e)
    BY <2>2 DEF Completed, Untried, Interrupted, Running, InStatus
  <2> QED BY <2>1, <2>5, <2>6 DEF f
<1> QED BY <1>2, <1>3 DEF Interrupted, Running

LEMMA ReboundSound ==
    ASSUME NEW e \in Execution, Sound(e), Resumable(e)
    PROVE  /\ Sound(Rebound(e))
           /\ Rebound(e).status = e.status
           /\ \A s \in Steps : Rebound(e).steps[s].status = e.steps[s].status
           /\ Completed(Rebound(e)) = Completed(e) /\ Untried(Rebound(e)) = Untried(e)
           /\ Interrupted(Rebound(e)) = Interrupted(e) /\ Running(Rebound(e)) = Running(e)
           /\ Rebound(e).refusal = e.refusal /\ Rebound(e).pause = e.pause
<1> DEFINE f == Rebound(e)
<1>1. /\ f.refusal = e.refusal /\ f.pause = e.pause /\ f.status = e.status
      /\ \A r \in Steps : f.steps[r] = [e.steps[r] EXCEPT !.resolution = "none", !.recovery = "none"]
  BY DEF Rebound, Execution
<1>2. \A r \in Steps :
        /\ f.steps[r].status = e.steps[r].status /\ f.steps[r].work = e.steps[r].work
        /\ f.steps[r].resolution = "none" /\ f.steps[r].recovery = "none"
  <2> HIDE DEF f
  <2>1. \A r \in Steps : e.steps[r] \in StepState
    BY DEF Execution
  <2> QED BY <1>1, <2>1 DEF StepState
<1>3. e.status \notin {"completed", "cancelled", "absent"}
  BY DEF Resumable
<1> HIDE DEF f
<1>4. \A status : InStatus(f, status) = InStatus(e, status)
  BY <1>2 DEF InStatus
<1>5. \A r \in Steps : IsNextPending(e, r) => IsNextPending(f, r)
  BY <1>2 DEF IsNextPending
<1>6. WellFormed(f)
  <2>1. \A r \in Steps :
          /\ f.steps[r].work => f.steps[r].status # "pending"
          /\ f.steps[r].recovery # "none" => f.steps[r].resolution # "none"
    BY <1>2 DEF Sound, WellFormed
  <2> QED BY <1>1, <1>3, <1>4, <2>1 DEF Sound, WellFormed, Running
<1>7. Sound(f)
  <2>1. Explained(f) = Explained(e) /\ Running(f) = Running(e) /\ Interrupted(f) = Interrupted(e)
    BY <1>1, <1>4 DEF Explained, Running, Interrupted
  <2>2. \A r \in {f.refusal, f.pause} \ {NoStep} : r \in Steps /\ r \in {e.refusal, e.pause} \ {NoStep}
    BY <1>1 DEF Execution
  <2>3. Explained(f) => \A r \in {f.refusal, f.pause} \ {NoStep} : IsNextPending(f, r)
    BY <1>5, <2>1, <2>2 DEF Sound
  <2> QED BY <1>1, <1>3, <1>6, <2>1, <2>3 DEF Sound
<1> QED BY <1>1, <1>2, <1>4, <1>7 DEF Running, Interrupted, Completed, Untried, f

LEMMA CompleteFromRecordSound ==
    ASSUME NEW e \in Execution, NEW s \in Steps, Sound(e), e.steps[s].status = "interrupted"
    PROVE  LET f == CompleteFromRecord(e, s)
           IN /\ Sound(f) /\ ~Explained(f)
              /\ f.status \in {"interrupted", "completed", "running"}
              /\ Completed(f) = Completed(e) \cup {s} /\ Untried(f) = Untried(e)
              /\ Interrupted(f) \subseteq Interrupted(e)
<1> DEFINE f == CompleteFromRecord(e, s)
           step == WithStatus(e.steps[s], "completed", TRUE)
<1>1. f \in Execution
  BY CompleteFromRecordType
<1>2. /\ \A r \in Steps : f.steps[r] = IF r = s THEN step ELSE e.steps[r]
      /\ f.refusal = e.refusal /\ f.pause = e.pause
      /\ f.status \in {"interrupted", "completed", "running"}
      /\ f.status = "completed" => \A r \in Steps : f.steps[r].status = "completed"
  BY DEF CompleteFromRecord, Execution
<1>3. /\ step.status = "completed"
      /\ step.resolution = e.steps[s].resolution /\ step.recovery = e.steps[s].recovery
  BY DEF WithStatus, Execution, StepState
<1> HIDE DEF f, step
<1>4. ~Explained(f)
  BY <1>2 DEF Explained, Sound, Interrupted, InStatus
<1>5. e.steps[s].recovery # "none" => e.steps[s].resolution # "none"
  BY DEF Sound, WellFormed
<1>6. Sound(f)
  BY <1>1, <1>2, <1>3, <1>4, <1>5, OneStepSound
<1>7. /\ Completed(f) = Completed(e) \cup {s} /\ Untried(f) = Untried(e)
      /\ Interrupted(f) \subseteq Interrupted(e)
  BY <1>2, <1>3 DEF Completed, Untried, Interrupted, InStatus
<1> QED BY <1>2, <1>4, <1>6, <1>7 DEF f
=============================================================================
