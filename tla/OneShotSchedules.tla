-------------------------- MODULE OneShotSchedules --------------------------
(***************************************************************************)
(* TrustedOneShotDeferredExecutionScheduler and the grants it depends on   *)
(* (TrustedDeferredExecutionControlService), with the part of the desktop  *)
(* window that arms one wake-up and fires it through its single worker,    *)
(* composed with the background scheduler that runs the task.              *)
(*                                                                         *)
(* Both services keep nothing in memory: every operation loads its         *)
(* document and replaces it, so a document is a variable here and survives *)
(* Crash by itself.  The window's thread makes one call at a time; the     *)
(* worker runs beside it.                                                  *)
(*                                                                         *)
(* Time is a small clock.  Bounds: Horizon on the clock, MaxSchedules and  *)
(* MaxGrants made, MaxFaults writes and thread starts that fail.           *)
(***************************************************************************)
EXTENDS Naturals

CONSTANTS
    MaxTasks, MaxActive, PerCycle, RetryLimits, MaxCrashes, DiskMayFail,
    Worker,         \* the desktop's one worker
    Window,         \* the desktop's event thread
    MaxSchedules, MaxGrants, MaxFaults, Horizon,
    Week            \* how far ahead a run may be, and how long a grant is valid

ASSUME OneShotAssumption ==
    /\ MaxTasks \in Nat /\ MaxActive \in Nat \ {0} /\ PerCycle \in Nat \ {0}
    /\ RetryLimits \subseteq Nat /\ MaxCrashes \in Nat /\ DiskMayFail \in BOOLEAN
    /\ MaxSchedules \in Nat /\ MaxGrants \in Nat /\ MaxFaults \in Nat
    /\ Horizon \in Nat /\ Week \in Nat \ {0}

VARIABLES
    tasks, disk, job, created, crashes, runs, raised,  \* the background scheduler's
    now,
    schedules,      \* the one-shot schedule document
    grants,         \* the deferred grant document
    request,        \* what the desktop's one worker is at
    timer,          \* the schedule the window's one wake-up is armed for
    unstarted,      \* the wake-up was used up by a thread that could not start
    faults,
    attempts,       \* history: how often each schedule got to the exact run
    entered         \* history: schedules whose exact run the scheduler claimed

schedulerVars == <<tasks, disk, job, created, crashes, runs, raised>>
history == <<attempts, entered>>
vars == <<schedulerVars, now, schedules, grants, request, timer, unstarted, faults, history>>

\* The desktop has one thread that runs tasks and one that rules on them.
Scheduler == INSTANCE BackgroundScheduler WITH Workers <- {Worker}, Operators <- {Window}

ScheduleIds == 1..MaxSchedules
GrantIds == 1..MaxGrants
Nobody == 0

ScheduleStatus == {"none", "pending", "claimed", "triggered", "skipped", "cancelled"}
Outcome == {"none", "grant", "busy", "ineligible", "refused"}  \* of a skip
Schedule == [status: ScheduleStatus, task: 0..MaxTasks, grant: 0..MaxGrants,
             runAt: Nat, outcome: Outcome]
Grant == [task: 0..MaxTasks, revoked: BOOLEAN, until: Nat]

\* What the worker is at: nothing, a cycle, a fire before and after its claim,
\* the exact run, a run that is over and has to be recorded, or a completion
\* that waits to be polled.
Doing == {"nothing", "cycle", "fire", "claimed", "running", "ran", "ineligible", "refused", "done"}

TypeOK ==
    /\ Scheduler!TypeOK
    /\ now \in 0..Horizon
    /\ schedules \in [ScheduleIds -> Schedule]
    /\ grants \in [GrantIds -> Grant]
    /\ request \in [doing: Doing, of: ScheduleIds \cup {Nobody}]
    /\ timer \in ScheduleIds \cup {Nobody}
    /\ unstarted \in BOOLEAN
    /\ faults \in 0..MaxFaults
    /\ attempts \in [ScheduleIds -> Nat]
    /\ entered \in SUBSET ScheduleIds

Free == [doing |-> "nothing", of |-> Nobody]

Init ==
    /\ Scheduler!Init
    /\ now = 0
    /\ schedules = [i \in ScheduleIds |-> [status |-> "none", task |-> 0, grant |-> 0,
                                           runAt |-> 0, outcome |-> "none"]]
    /\ grants = [g \in GrantIds |-> [task |-> 0, revoked |-> FALSE, until |-> 0]]
    /\ request = Free
    /\ timer = Nobody
    /\ unstarted = FALSE
    /\ faults = 0
    /\ attempts = [i \in ScheduleIds |-> 0]
    /\ entered = {}

-----------------------------------------------------------------------------
PendingIn(S) == {i \in ScheduleIds : S[i].status = "pending"}

\* next_pending: the earliest pending record.
NextPending(S) ==
    IF PendingIn(S) = {} THEN Nobody
    ELSE CHOOSE i \in PendingIn(S) : \A j \in PendingIn(S) :
             S[i].runAt < S[j].runAt \/ (S[i].runAt = S[j].runAt /\ i <= j)

\* _arm_one_shot_deferred_execution, after the document became S.
ArmFor(S) == timer' = NextPending(S) /\ unstarted' = FALSE

\* active_for_task, with and without its expiry.
ActiveGrants(k) == {g \in GrantIds : grants[g].task = k /\ ~grants[g].revoked}
Live(g) == now < grants[g].until

\* deferred_execution_decision, as far as the task and its grant go.
Eligible(k) == tasks[k].status = "pending" /\ \E g \in ActiveGrants(k) : Live(g)

\* A write of the schedule document; one that fails leaves it as it was.
Fault == faults < MaxFaults /\ faults' = faults + 1
Replace(i, schedule) == schedules' = [schedules EXCEPT ![i] = schedule] /\ faults' = faults
NotWritten == schedules' = schedules /\ Fault

\* Variant: the reason in the place of the status.
SkippedByReason(i, outcome) == [schedules[i] EXCEPT !.status = outcome]

Skipped(i, outcome) == [schedules[i] EXCEPT !.status = "skipped", !.outcome = outcome]

-----------------------------------------------------------------------------
\* TrustedDeferredExecutionControlService.grant: one fresh grant for a task
\* that is pending, retiring one that has expired in the same write.
GrantRun(k) ==
    /\ tasks[k].status = "pending"
    /\ \A g \in ActiveGrants(k) : ~Live(g)
    /\ \E fresh \in GrantIds :
          /\ grants[fresh].task = 0 /\ \A g \in GrantIds : grants[g].task = 0 => fresh <= g
          /\ grants' = [g \in GrantIds |->
                IF g = fresh THEN [task |-> k, revoked |-> FALSE, until |-> now + Week]
                ELSE IF g \in ActiveGrants(k) THEN [grants[g] EXCEPT !.revoked = TRUE]
                ELSE grants[g]]
    /\ UNCHANGED <<schedulerVars, now, schedules, request, timer, unstarted, faults, history>>

RevokeGrant(k) ==
    /\ \E g \in ActiveGrants(k) : grants' = [grants EXCEPT ![g].revoked = TRUE]
    /\ UNCHANGED <<schedulerVars, now, schedules, request, timer, unstarted, faults, history>>

\* schedule, then the window arms.  The preview it begins with finds the task
\* eligible; a claim that comes between the two changes no document of these.
ScheduleRun(k) ==
    /\ Eligible(k)
    /\ \A i \in PendingIn(schedules) : schedules[i].task # k
    /\ \E i \in ScheduleIds, g \in ActiveGrants(k), at \in (now + 1)..(now + Week) :
          /\ schedules[i].status = "none" /\ \A j \in ScheduleIds : schedules[j].status = "none" => i <= j
          /\ at <= Horizon
          /\ \/ Replace(i, [status |-> "pending", task |-> k, grant |-> g, runAt |-> at,
                            outcome |-> "none"])
                /\ ArmFor(schedules')
             \/ NotWritten /\ UNCHANGED <<timer, unstarted>>
    /\ UNCHANGED <<schedulerVars, now, grants, request, history>>

\* cancel, then the window arms.
CancelRun(k) ==
    /\ \E i \in PendingIn(schedules) :
          /\ schedules[i].task = k
          /\ \/ Replace(i, [schedules[i] EXCEPT !.status = "cancelled"]) /\ ArmFor(schedules')
             \/ NotWritten /\ UNCHANGED <<timer, unstarted>>
    /\ UNCHANGED <<schedulerVars, now, grants, request, history>>

-----------------------------------------------------------------------------
\* The wake-up: _fire_one_shot_deferred_execution.  The worker takes it, or
\* its thread cannot be started and the record stays pending with no wake-up.
Due == timer # Nobody /\ schedules[timer].runAt <= now

WakeUp ==
    /\ Due /\ request = Free
    /\ request' = [doing |-> "fire", of |-> timer]
    /\ timer' = Nobody
    /\ UNCHANGED <<schedulerVars, now, schedules, grants, unstarted, faults, history>>

WakeUpUnstarted ==
    /\ Due /\ request = Free
    /\ Fault
    /\ timer' = Nobody
    /\ unstarted' = TRUE
    /\ UNCHANGED <<schedulerVars, now, schedules, grants, request, history>>

\* skip_due_to_busy, and the arming after it.  What is not pending any more, or
\* could not be written, is refused, and then nothing is armed.
WakeUpBusy ==
    /\ Due /\ request # Free
    /\ \/ /\ schedules[timer].status = "pending"
          /\ Replace(timer, Skipped(timer, "busy"))
          /\ ArmFor(schedules')
       \/ /\ IF schedules[timer].status = "pending" THEN NotWritten ELSE UNCHANGED <<schedules, faults>>
          /\ timer' = Nobody
          /\ UNCHANGED unstarted
    /\ UNCHANGED <<schedulerVars, now, grants, request, history>>

\* Variant: a fire that goes on when its claim could not be written.
FireUnwritten ==
    LET i == request.of IN
    /\ request.doing = "fire"
    /\ schedules[i].status = "pending"
    /\ Replace(i, [schedules[i] EXCEPT !.status = "claimed"]) \/ NotWritten
    /\ request' = [request EXCEPT !.doing = "claimed"]
    /\ UNCHANGED <<schedulerVars, now, grants, timer, unstarted, history>>

\* fire, as far as its claim: exactly this record, still pending, under the
\* grant it names, or it is skipped.  What cannot be written is not done.
Fire ==
    LET i == request.of
        g == schedules[i].grant
    IN /\ request.doing = "fire"
       /\ \/ /\ schedules[i].status # "pending"
             /\ request' = [request EXCEPT !.doing = "done"]
             /\ UNCHANGED <<schedules, faults>>
          \/ /\ schedules[i].status = "pending"
             /\ IF grants[g].revoked \/ ~Live(g)
                THEN /\ Replace(i, Skipped(i, "grant"))
                     /\ request' = [request EXCEPT !.doing = "done"]
                ELSE /\ Replace(i, [schedules[i] EXCEPT !.status = "claimed"])
                     /\ request' = [request EXCEPT !.doing = "claimed"]
          \/ /\ schedules[i].status = "pending"
             /\ NotWritten
             /\ request' = [request EXCEPT !.doing = "done"]
       /\ UNCHANGED <<schedulerVars, now, grants, timer, unstarted, history>>

\* run_exact_deferred_background_task: the scheduler decides anew, by the
\* grant that is active now, and claims the task or leaves it.
RunExact ==
    LET i == request.of
        k == schedules[i].task
    IN /\ request.doing = "claimed"
       /\ attempts' = [attempts EXCEPT ![i] = @ + 1]
       /\ \/ /\ Eligible(k)
             /\ Scheduler!Claim(Worker, k)
             /\ request' = [request EXCEPT !.doing = "running"]
             /\ entered' = entered \cup {i}
             /\ UNCHANGED <<created, crashes, runs, raised>>
          \/ /\ request' = [request EXCEPT !.doing = "ineligible"]
             /\ UNCHANGED <<schedulerVars, entered>>
       /\ UNCHANGED <<now, schedules, grants, timer, unstarted, faults>>

\* A worker cycle is a request of the same worker.
StartCycle ==
    /\ request = Free
    /\ Scheduler!BeginCycle(Worker)
    /\ request' = [Free EXCEPT !.doing = "cycle"]
    /\ UNCHANGED <<now, schedules, grants, timer, unstarted, faults, history>>

\* The scheduler's own steps; when its call returns, or raises, the request
\* goes on from there.
SchedulerStep ==
    /\ Scheduler!Continue(Worker)
    /\ request' = [request EXCEPT !.doing =
           IF job'[Worker].pc # "idle" THEN @
           ELSE IF @ = "cycle" THEN "done"
           ELSE IF raised' # raised THEN "refused" ELSE "ran"]
    /\ UNCHANGED <<now, schedules, grants, timer, unstarted, faults, history>>

\* Variants: every run that got this far counts as triggered, and one that
\* raised is left as it is.
FinishTriggered ==
    /\ request.doing \in {"ran", "ineligible", "refused"}
    /\ Replace(request.of, [schedules[request.of] EXCEPT !.status = "triggered"])
    /\ request' = [request EXCEPT !.doing = "done"]
    /\ UNCHANGED <<schedulerVars, now, grants, timer, unstarted, history>>

FinishUnlessRefused ==
    /\ request.doing \in {"ran", "ineligible", "refused"}
    /\ IF request.doing = "refused" THEN UNCHANGED <<schedules, faults>>
       ELSE Replace(request.of, IF request.doing = "ran"
                                THEN [schedules[request.of] EXCEPT !.status = "triggered"]
                                ELSE Skipped(request.of, request.doing))
    /\ request' = [request EXCEPT !.doing = "done"]
    /\ UNCHANGED <<schedulerVars, now, grants, timer, unstarted, history>>

\* _finish_claimed, whatever the run came to.  One that cannot be written
\* leaves the record claimed.
Finish ==
    LET i == request.of IN
    /\ request.doing \in {"ran", "ineligible", "refused"}
    /\ \/ Replace(i, IF request.doing = "ran" THEN [schedules[i] EXCEPT !.status = "triggered"]
                     ELSE Skipped(i, request.doing))
       \/ NotWritten
    /\ request' = [request EXCEPT !.doing = "done"]
    /\ UNCHANGED <<schedulerVars, now, grants, timer, unstarted, history>>

\* Variant: a poll that arms nothing.
PollUnarmed ==
    /\ request.doing = "done"
    /\ request' = Free
    /\ UNCHANGED <<schedulerVars, now, schedules, grants, timer, unstarted, faults, history>>

\* _poll_requests presents the completion, frees the worker and arms.
Poll ==
    /\ request.doing = "done"
    /\ request' = Free
    /\ ArmFor(schedules)
    /\ UNCHANGED <<schedulerVars, now, schedules, grants, faults, history>>

-----------------------------------------------------------------------------
\* Pausing, cancelling and creating tasks, from the same window.
TaskCall ==
    /\ \/ Scheduler!Create(Window) \/ Scheduler!Pause(Window)
       \/ Scheduler!Resume(Window) \/ Scheduler!Cancel(Window)
    /\ UNCHANGED <<now, schedules, grants, request, timer, unstarted, faults, history>>

Tick ==
    /\ now < Horizon
    /\ now' = now + 1
    /\ UNCHANGED <<schedulerVars, schedules, grants, request, timer, unstarted, faults, history>>

\* Closing the window ends the process, as a crash does; the next window arms.
Restart ==
    /\ Scheduler!Crash
    /\ request' = Free
    /\ ArmFor(schedules)
    /\ UNCHANGED <<now, schedules, grants, faults, history>>

-----------------------------------------------------------------------------
Work == Fire \/ RunExact \/ SchedulerStep \/ Finish

Next ==
    \/ \E k \in Scheduler!TaskIds : GrantRun(k) \/ RevokeGrant(k) \/ ScheduleRun(k) \/ CancelRun(k)
    \/ WakeUp \/ WakeUpUnstarted \/ WakeUpBusy \/ Poll
    \/ StartCycle \/ Work
    \/ TaskCall \/ Tick \/ Restart

Spec == Init /\ [][Next]_vars

\* The worker's thread is scheduled, its run is bounded, and the event loop
\* serves its timers.
FairSpec == Spec /\ WF_vars(Work) /\ WF_vars(Poll) /\ WF_vars(WakeUp \/ WakeUpBusy)

-----------------------------------------------------------------------------
Resolved == {"triggered", "skipped", "cancelled"}

\* A schedule gets to its exact run at most once, over any number of restarts,
\* failed writes and wake-ups: no record is replayed.
AttemptedAtMostOnce == \A i \in ScheduleIds : attempts[i] <= 1

\* What the worker is at from its claim of a record to the record's outcome.
Exact == {"claimed", "running", "ran", "ineligible", "refused"}

\* From before its task is reached until its outcome is recorded the document
\* says of the schedule that it was claimed, whatever the window does beside.
ClaimedWhileRunning == \A i \in ScheduleIds :
    request.of = i /\ request.doing \in Exact => schedules[i].status = "claimed"

\* The record tells the truth: triggered means that the scheduler ran the
\* task; cancelled, skipped for its grant, for a busy desktop or as ineligible
\* means that it did not.
OutcomeIsTrue == \A i \in ScheduleIds :
    /\ schedules[i].status = "triggered" => i \in entered
    /\ schedules[i].status = "cancelled" => attempts[i] = 0
    /\ schedules[i].outcome \in {"grant", "busy"} => attempts[i] = 0
    /\ schedules[i].outcome = "ineligible" => i \notin entered

\* A resolved record is history: no operation changes it.
ResolvedStaysResolved ==
    [][\A i \in ScheduleIds : schedules[i].status \in Resolved => schedules'[i] = schedules[i]]_vars

\* A record that is due is considered: it leaves pending, unless the thread
\* that was to do it could not start.
DueIsConsidered == \A i \in ScheduleIds :
    (schedules[i].status = "pending" /\ schedules[i].runAt <= now)
        ~> (schedules[i].status # "pending" \/ unstarted)

\* Once no process dies and no write fails any more, a run that was claimed and
\* is under way is resolved, whatever it comes to.
ClaimIsResolved == \A i \in ScheduleIds :
    (request.of = i /\ request.doing \in Exact
        /\ crashes = MaxCrashes /\ faults = MaxFaults)
        ~> schedules[i].status \in Resolved

\* What the scheduler promises of its claims holds of an exact run as well, and
\* across a restart: autonomy is entered once for a task and for each retry.
AttemptsAccounted == Scheduler!AttemptsAccounted

\* The same of its liveness: a task that is run does not stay running.
RunningSettles == Scheduler!RunningSettles

=============================================================================
