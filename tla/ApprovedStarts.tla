--------------------------- MODULE ApprovedStarts ---------------------------
(***************************************************************************)
(* How an execution comes to be: an approval is recorded                   *)
(* (ResearchPlanAuthorizationApplicationService), spent on exactly one     *)
(* execution, and the execution is begun, recorded and, after a restart,   *)
(* taken up again (ResearchPlanExecutionApplicationService,                *)
(* ResearchGoalStartApplicationService, CuriosityApplicationService).      *)
(*                                                                         *)
(* Two threads do this.  The desktop's event thread ("panel") previews,    *)
(* confirms, starts and resumes; its one worker ("goal") starts a research *)
(* goal, which records and spends its own approval, and recovers missions  *)
(* after a restart.  Neither service takes a lock for a save: a thread     *)
(* captures a whole document and later replaces the file with it, and the  *)
(* other thread may save in between.                                       *)
(*                                                                         *)
(* Bounds: MaxApprovals and MaxStarts identities, MaxRequests goal         *)
(* requests, MaxFaults failing saves, MaxCrashes process deaths.           *)
(***************************************************************************)
EXTENDS Integers, FiniteSets

CONSTANTS MaxApprovals, MaxStarts, MaxRequests, MaxFaults, MaxCrashes

ASSUME StartsAssumption ==
    /\ MaxApprovals \in Nat /\ MaxStarts \in Nat /\ MaxRequests \in Nat
    /\ MaxFaults \in Nat /\ MaxCrashes \in Nat

VARIABLES
    pending,        \* previewed approvals that await their confirmation
    live, disk,     \* what each approval is used for: in memory, in the document
    made,           \* how many approval identities there are
    plan,           \* what each execution identity was made for
    running,        \* _executions
    restored,       \* _restored
    document,       \* the executions the durable document holds
    goalIds,        \* _goal_request_ids
    recoveryTried,  \* _mission_recovery_attempted
    job,            \* what each thread is in the middle of
    faults, crashes,
    begun,          \* history: executions that came to run
    launched,       \* history: executions autonomy was asked to run for a goal
    stale,          \* history: documents last saved from an outdated capture
    lost            \* history: documents a process died with in that state

approvalVars == <<pending, live, disk, made>>
executionVars == <<plan, running, restored, document, goalIds, recoveryTried>>
history == <<begun, launched, stale, lost>>
vars == <<approvalVars, executionVars, job, faults, crashes, history>>

Threads == {"panel", "goal"}
Approvals == 1..MaxApprovals
Executions == 1..MaxStarts
Requests == 1..MaxRequests
None == 0

\* An approval is unrecorded, recorded and unspent, or spent on an execution.
Unrecorded == -1
Unspent == 0
Use == {Unrecorded, Unspent} \cup Executions

\* An authored or proposed plan, and the scopes of a goal: its opening, a
\* mission, and a mission that names its model and may be recovered.
Kind == {"none", "plan", "opening", "mission", "learning"}
Missions == {"mission", "learning"}
Plan == [kind : Kind, approval : Approvals \cup {None}, request : Requests \cup {None}]

PC == {"idle", "spend", "capture", "save", "begin", "return", "recover"}
Purpose == {"none", "confirm", "record", "spend", "checkpoint", "report"}
Documents == {"approvals", "executions"}
Job == [pc : PC, purpose : Purpose, execution : Executions \cup {None},
        approvals : [Approvals -> Use],     \* the captured approvals
        executions : SUBSET Executions,     \* the captured executions
        behind : BOOLEAN,                   \* saved over since the capture
        left : SUBSET Executions]           \* missions recovery has yet to look at

Blank == [a \in Approvals |-> Unrecorded]
Idle == [pc |-> "idle", purpose |-> "none", execution |-> None, approvals |-> Blank,
         executions |-> {}, behind |-> FALSE, left |-> {}]

TypeOK ==
    /\ pending \subseteq Approvals
    /\ live \in [Approvals -> Use] /\ disk \in [Approvals -> Use]
    /\ made \in 0..MaxApprovals
    /\ plan \in [Executions -> Plan]
    /\ running \subseteq Executions /\ restored \subseteq Executions
    /\ document \subseteq Executions
    /\ goalIds \subseteq Requests
    /\ recoveryTried \in BOOLEAN
    /\ job \in [Threads -> Job]
    /\ faults \in 0..MaxFaults /\ crashes \in 0..MaxCrashes
    /\ begun \subseteq Executions /\ launched \subseteq Executions
    /\ stale \subseteq Documents /\ lost \subseteq Documents

Init ==
    /\ pending = {} /\ live = Blank /\ disk = Blank /\ made = 0
    /\ plan = [e \in Executions |-> [kind |-> "none", approval |-> None, request |-> None]]
    /\ running = {} /\ restored = {} /\ document = {}
    /\ goalIds = {} /\ recoveryTried = FALSE
    /\ job = [t \in Threads |-> Idle]
    /\ faults = 0 /\ crashes = 0
    /\ begun = {} /\ launched = {} /\ stale = {} /\ lost = {}

-----------------------------------------------------------------------------
At(t, pc) == job[t].pc = pc
Become(t, j) == job' = [job EXCEPT ![t] = j]

\* A save of some document, with what the thread does it for.
Saving(purpose, e) == [Idle EXCEPT !.pc = "capture", !.purpose = purpose, !.execution = e]
DocumentOf(t) ==
    IF job[t].purpose \in {"confirm", "record", "spend"} THEN "approvals" ELSE "executions"

\* Variant: the requests of a process are forgotten with it.
RequestsForgotten(S) == {}

\* restored_mission_request_ids: what a mission keeps of its request.
RequestsOf(S) == {plan[e].request : e \in {f \in S : plan[f].kind \in Missions}}

\* The next execution identity: a plan is built anew for every start.
Fresh(e) == plan[e].kind = "none" /\ \A f \in Executions : plan[f].kind = "none" => e <= f

-----------------------------------------------------------------------------
\* process_preview writes nothing.
Preview ==
    /\ At("panel", "idle")
    /\ made < MaxApprovals
    /\ made' = made + 1
    /\ pending' = pending \cup {made'}
    /\ UNCHANGED <<live, disk, executionVars, job, faults, crashes, history>>

\* process_confirm: a plan that no longer is what was previewed takes the
\* preview with it; otherwise the approval is in memory, and is saved.
Confirm ==
    /\ At("panel", "idle")
    /\ \E a \in pending :
          /\ pending' = pending \ {a}
          /\ \/ UNCHANGED <<live, job>>
             \/ /\ live' = [live EXCEPT ![a] = Unspent]
                /\ Become("panel", Saving("confirm", None))
    /\ UNCHANGED <<disk, made, executionVars, faults, crashes, history>>

\* Variant: spent in memory only.
SpendUnwritten(t, a, e) ==
    /\ live[a] = Unspent
    /\ live' = [live EXCEPT ![a] = e]
    /\ Become(t, [Idle EXCEPT !.pc = "begin", !.execution = e])

\* consume_for_execution, as far as its save: an approval that is recorded
\* and unspent is spent in memory on this execution.  Its few statements from
\* the look to the mark are one step here.
Spend(t, a, e) ==
    /\ live[a] = Unspent
    /\ live' = [live EXCEPT ![a] = e]
    /\ Become(t, Saving("spend", e))

\* The panel can author the plan of an opening again, never that of a mission.
Authorable(a) == \A e \in Executions : plan[e].approval = a => plan[e].kind \notin Missions

\* process_start and process_start_authorized_proposal.
StartPlan ==
    /\ At("panel", "idle")
    /\ \E a \in Approvals, e \in Executions :
          /\ Fresh(e) /\ Authorable(a)
          /\ Spend("panel", a, e)
          /\ plan' = [plan EXCEPT ![e] = [kind |-> "plan", approval |-> a, request |-> None]]
    /\ UNCHANGED <<pending, disk, made, running, restored, document, goalIds, recoveryTried,
                   faults, crashes, history>>

\* _start_goal, as far as the save of its approval: no request is taken twice.
StartGoal ==
    /\ At("goal", "idle")
    /\ made < MaxApprovals
    /\ made' = made + 1
    /\ \E r \in Requests \ goalIds, e \in Executions, kind \in Kind \ {"none", "plan"} :
          /\ Fresh(e)
          /\ plan' = [plan EXCEPT ![e] = [kind |-> kind, approval |-> made', request |-> r]]
          /\ Become("goal", Saving("record", e))
    /\ live' = [live EXCEPT ![made'] = Unspent]
    /\ UNCHANGED <<pending, disk, running, restored, document, goalIds, recoveryTried,
                   faults, crashes, history>>

\* start_for_plan with the approval just recorded; refused if it is spent.
SpendOwn ==
    LET e == job["goal"].execution
        a == plan[e].approval
    IN /\ At("goal", "spend")
       /\ \/ Spend("goal", a, e)
          \/ live[a] # Unspent /\ Become("goal", Idle) /\ UNCHANGED live
       /\ UNCHANGED <<pending, disk, made, executionVars, faults, crashes, history>>

-----------------------------------------------------------------------------
\* _persist of the approvals, and _snapshots: live executions beside restored.
Capture(t) ==
    /\ At(t, "capture")
    /\ Become(t, IF DocumentOf(t) = "approvals"
                 THEN [job[t] EXCEPT !.pc = "save", !.approvals = live]
                 ELSE [job[t] EXCEPT !.pc = "save", !.executions = running \cup restored])
    /\ UNCHANGED <<approvalVars, executionVars, faults, crashes, history>>

\* What follows a save of thread t that landed.
AfterSave(t) ==
    LET j == job[t] IN
    CASE j.purpose = "record"     -> [Idle EXCEPT !.pc = "spend", !.execution = j.execution]
      [] j.purpose = "spend"      -> [Idle EXCEPT !.pc = "begin", !.execution = j.execution]
      [] j.purpose = "checkpoint" -> Saving("report", j.execution)
      [] j.purpose = "report" /\ j.execution # None
                                  -> [Idle EXCEPT !.pc = "return", !.execution = j.execution]
      [] OTHER -> Idle

\* The file is replaced; what another thread has captured of it is outdated.
Save(t) ==
    /\ At(t, "save")
    /\ IF DocumentOf(t) = "approvals"
       THEN disk' = job[t].approvals /\ UNCHANGED document
       ELSE document' = job[t].executions /\ UNCHANGED disk
    /\ job' = [u \in Threads |->
          IF u = t THEN AfterSave(t)
          ELSE IF job[u].pc = "save" /\ DocumentOf(u) = DocumentOf(t)
          THEN [job[u] EXCEPT !.behind = TRUE] ELSE job[u]]
    /\ stale' = IF job[t].behind THEN stale \cup {DocumentOf(t)} ELSE stale \ {DocumentOf(t)}
    /\ UNCHANGED <<pending, live, made, plan, running, restored, goalIds, recoveryTried,
                   faults, crashes, begun, launched, lost>>

\* Variants: a spending that is not taken back, and one that is not needed.
SaveFailsSpent(t) ==
    /\ At(t, "save")
    /\ faults < MaxFaults /\ faults' = faults + 1
    /\ running' = IF job[t].purpose = "checkpoint" THEN running \ {job[t].execution} ELSE running
    /\ Become(t, IF job[t].purpose = "report" THEN AfterSave(t) ELSE Idle)
    /\ UNCHANGED <<approvalVars, plan, restored, document, goalIds, recoveryTried, crashes, history>>

SaveFailsIgnored(t) ==
    /\ At(t, "save")
    /\ faults < MaxFaults /\ faults' = faults + 1
    /\ running' = IF job[t].purpose = "checkpoint" THEN running \ {job[t].execution} ELSE running
    /\ Become(t, IF job[t].purpose \in {"spend", "report"} THEN AfterSave(t) ELSE Idle)
    /\ UNCHANGED <<approvalVars, plan, restored, document, goalIds, recoveryTried, crashes, history>>

\* A save fails.  A confirmed approval stays in memory, a recorded one too
\* although its caller is told that there is none; a spending is taken back;
\* a mission whose checkpoint failed is not begun and stays paid for; a
\* report is only a report.
SaveFails(t) ==
    LET e == job[t].execution IN
    /\ At(t, "save")
    /\ faults < MaxFaults /\ faults' = faults + 1
    /\ live' = IF job[t].purpose = "spend" THEN [live EXCEPT ![plan[e].approval] = Unspent] ELSE live
    /\ running' = IF job[t].purpose = "checkpoint" THEN running \ {e} ELSE running
    /\ Become(t, IF job[t].purpose = "report" THEN AfterSave(t) ELSE Idle)
    /\ UNCHANGED <<pending, disk, made, plan, restored, document, goalIds, recoveryTried,
                   crashes, history>>

\* The permitted start: a mission is recorded before it is announced.
Begin(t) ==
    LET e == job[t].execution IN
    /\ At(t, "begin")
    /\ running' = running \cup {e}
    /\ begun' = begun \cup {e}
    /\ Become(t, Saving(IF plan[e].kind \in Missions THEN "checkpoint" ELSE "report",
                        IF t = "goal" THEN e ELSE None))
    /\ UNCHANGED <<approvalVars, plan, restored, document, goalIds, recoveryTried,
                   faults, crashes, launched, stale, lost>>

\* Variant: the identity kept is the execution's.
ReturnExecution ==
    /\ At("goal", "return")
    /\ goalIds' = goalIds \cup {job["goal"].execution}
    /\ launched' = launched \cup {job["goal"].execution}
    /\ Become("goal", Idle)
    /\ UNCHANGED <<approvalVars, plan, running, restored, document, recoveryTried,
                   faults, crashes, begun, stale, lost>>

\* Back in _start_goal: the request is a duplicate from now on, and autonomy
\* is asked to run the execution.
Return ==
    LET e == job["goal"].execution IN
    /\ At("goal", "return")
    /\ goalIds' = goalIds \cup {plan[e].request}
    /\ launched' = launched \cup {e}
    /\ Become("goal", Idle)
    /\ UNCHANGED <<approvalVars, plan, running, restored, document, recoveryTried,
                   faults, crashes, begun, stale, lost>>

\* Every advance, report and cancellation saves the executions.
Report(t) ==
    /\ At(t, "idle")
    /\ running # {}
    /\ Become(t, Saving("report", None))
    /\ UNCHANGED <<approvalVars, executionVars, faults, crashes, history>>

-----------------------------------------------------------------------------
\* process_mission_recovery, once in a process.
Recover ==
    /\ At("goal", "idle")
    /\ ~recoveryTried
    /\ recoveryTried' = TRUE
    /\ Become("goal", [Idle EXCEPT !.pc = "recover",
                                   !.left = {e \in restored : plan[e].kind = "learning"}])
    /\ UNCHANGED <<approvalVars, plan, running, restored, document, goalIds,
                   faults, crashes, history>>

\* rebind_restored: no approval is looked at, none is spent.
Rebind(e) == running' = running \cup {e} /\ restored' = restored \ {e}

\* One mission: cancelled, refused, or rebound and run with what is left of
\* its allowance.
RecoverOne ==
    /\ At("goal", "recover")
    /\ \E e \in job["goal"].left :
          /\ \/ UNCHANGED <<running, restored, launched>>
             \/ Rebind(e) /\ launched' = launched \cup {e}
          /\ Become("goal", [job["goal"] EXCEPT !.left = @ \ {e}])
    /\ UNCHANGED <<approvalVars, plan, document, goalIds, recoveryTried,
                   faults, crashes, begun, stale, lost>>

Recovered ==
    /\ At("goal", "recover")
    /\ job["goal"].left = {}
    /\ Become("goal", Idle)
    /\ UNCHANGED <<approvalVars, executionVars, faults, crashes, history>>

\* process_resume_execution: only for an execution an approval names.  A step
\* reconciled with its record is saved.
ResumeRestored ==
    /\ At("panel", "idle")
    /\ \E e \in restored :
          /\ plan[e].kind = "plan"
          /\ \E a \in Approvals : live[a] = e
          /\ Rebind(e)
    /\ UNCHANGED job \/ Become("panel", Saving("report", None))
    /\ UNCHANGED <<approvalVars, plan, document, goalIds, recoveryTried, faults, crashes, history>>

\* The process dies; the next one loads both documents.
Crash ==
    /\ crashes < MaxCrashes
    /\ crashes' = crashes + 1
    /\ pending' = {}
    /\ live' = disk
    /\ running' = {} /\ restored' = document
    /\ goalIds' = RequestsOf(document) /\ recoveryTried' = FALSE
    /\ job' = [t \in Threads |-> Idle]
    /\ lost' = lost \cup stale
    /\ UNCHANGED <<disk, made, plan, document, faults, begun, launched, stale>>

-----------------------------------------------------------------------------
Next ==
    \/ Preview \/ Confirm \/ StartPlan \/ ResumeRestored
    \/ StartGoal \/ SpendOwn \/ Return \/ Recover \/ RecoverOne \/ Recovered
    \/ \E t \in Threads : Capture(t) \/ Save(t) \/ SaveFails(t) \/ Begin(t) \/ Report(t)
    \/ Crash

Spec == Init /\ [][Next]_vars

-----------------------------------------------------------------------------
\* One approval begins one execution, over any number of restarts and failed
\* saves, unless a process died with a document of approvals that an outdated
\* capture had replaced.
StartsOnce == "approvals" \notin lost =>
    \A e, f \in begun : plan[e].approval = plan[f].approval => e = f

\* Whatever runs or may be taken up again is covered by an approval whose
\* document says it was spent on it.
CoveredByApproval == "approvals" \notin stale \cup lost =>
    \A e \in running \cup restored : disk[plan[e].approval] = e

\* A mission request is launched once, also when it is given again after a
\* restart, and also when its start was refused in between.
MissionOnce == "executions" \notin lost =>
    \A e, f \in launched :
        (plan[e].kind \in Missions /\ plan[f].kind \in Missions
            /\ plan[e].request = plan[f].request) => e = f

\* Between calls memory and document agree on what is spent.
SpentIsWritten ==
    (\A t \in Threads : At(t, "idle")) /\ "approvals" \notin stale =>
        \A a \in Approvals : live[a] \in Executions => disk[a] = live[a]

\* README.md:1120-1126: starting one foreground execution spends one approval,
\* permanently, and a spent approval can never cover anything again.
SpentForGood ==
    \A e, f \in begun : plan[e].approval = plan[f].approval => e = f
=============================================================================
