------------------------ MODULE OneShotSchedulesProofs ------------------------
(***************************************************************************)
(* Theorems of OneShotSchedules, for any number of schedules, grants,      *)
(* tasks, restarts and failures: a schedule gets to its exact run at most  *)
(* once, the document says of it what is true, and a resolved record stays *)
(* as it is.  The wake-up's steps are steps of BackgroundScheduler, with   *)
(* the request worker and the window as its threads; while every write     *)
(* succeeds a task's attempts are the runs it was given.                   *)
(*                                                                         *)
(* What the window's one wake-up is armed for does not matter to the first *)
(* three, so nothing is assumed of it there.                               *)
(***************************************************************************)
EXTENDS OneShotSchedules, TLAPS, WellFoundedInduction

Typed ==
    /\ now \in Nat
    /\ schedules \in [ScheduleIds -> Schedule]
    /\ request = [doing |-> request.doing, of |-> request.of] /\ request.doing \in Doing
    /\ attempts \in [ScheduleIds -> Nat]

\* The worker's own thread is in the scheduler only for a cycle or a run.
InScheduler == request.doing \notin {"cycle", "running"} => job[Worker].pc = "idle"

\* What the document says of a schedule, beside what came to pass.
Recorded(i) ==
    /\ attempts[i] <= 1
    /\ schedules[i].status \in {"none", "pending", "cancelled"} => attempts[i] = 0
    /\ schedules[i].status = "triggered" => i \in entered
    /\ schedules[i].outcome # "none" => schedules[i].status = "skipped"
    /\ schedules[i].outcome \in {"grant", "busy"} => attempts[i] = 0
    /\ schedules[i].outcome = "ineligible" => i \notin entered
    /\ i \in entered => attempts[i] = 1

\* What the worker knows of the record it has claimed.
AtHand(i) == request.of = i =>
    /\ request.doing = "claimed" => attempts[i] = 0
    /\ request.doing \in {"running", "ran"} => i \in entered
    /\ request.doing = "ineligible" => i \notin entered

IInv ==
    /\ Typed
    /\ InScheduler
    /\ \A i \in ScheduleIds : Recorded(i) /\ AtHand(i)
    /\ ClaimedWhileRunning

LEMMA InitIInv == Init => IInv
<1> SUFFICES ASSUME Init PROVE IInv
    OBVIOUS
<1> USE DEF Init, Free
<1>1. Typed
  <2>1. [status |-> "none", task |-> 0, grant |-> 0, runAt |-> 0, outcome |-> "none"] \in Schedule
      BY OneShotAssumption DEF Schedule, ScheduleStatus, Outcome
  <2> QED  BY <2>1 DEF Typed, Doing, Nobody
<1>2. InScheduler
    BY OneShotAssumption DEF InScheduler, Scheduler!Init, Scheduler!Threads, Scheduler!IdleJob
<1>3. \A i \in ScheduleIds : Recorded(i) /\ AtHand(i)
    BY DEF Recorded, AtHand
<1>4. request.doing \notin Exact
    BY DEF Exact
<1> QED  BY <1>1, <1>2, <1>3, <1>4 DEF IInv, ClaimedWhileRunning

-----------------------------------------------------------------------------
\* A write of the document is of one record, or of none.
LEMMA Writes ==
    ASSUME Typed, NEW j, NEW record \in Schedule, Replace(j, record) \/ NotWritten
    PROVE  /\ schedules' \in [ScheduleIds -> Schedule]
           /\ \A i \in ScheduleIds :
                schedules'[i] = schedules[i] \/ (i = j /\ schedules'[i] = record)
BY DEF Typed, Replace, NotWritten

\* Grants and time are no part of the invariant.
LEMMA GrantKeeps ==
    ASSUME IInv, NEW k \in Scheduler!TaskIds, GrantRun(k) \/ RevokeGrant(k)
    PROVE  IInv'
BY DEF GrantRun, RevokeGrant, IInv, ClaimedWhileRunning, Typed, InScheduler, Recorded, AtHand, schedulerVars, history

\* A record is made where there was none.
LEMMA ScheduleKeeps ==
    ASSUME IInv, NEW k \in Scheduler!TaskIds, ScheduleRun(k)
    PROVE  IInv'
<1> USE DEF IInv, ClaimedWhileRunning
<1>1. PICK j \in ScheduleIds, g \in ActiveGrants(k), at \in (now + 1)..(now + Week) :
        /\ schedules[j].status = "none"
        /\ Replace(j, [status |-> "pending", task |-> k, grant |-> g, runAt |-> at,
                       outcome |-> "none"]) \/ NotWritten
    BY DEF ScheduleRun
<1> DEFINE new == [status |-> "pending", task |-> k, grant |-> g, runAt |-> at, outcome |-> "none"]
<1>2. new \in Schedule
    BY OneShotAssumption DEF Schedule, ScheduleStatus, Outcome, Typed, ActiveGrants, GrantIds, Scheduler!TaskIds
<1>3. new.status = "pending" /\ new.outcome = "none"
    OBVIOUS
<1> HIDE DEF new
<1>4. /\ schedules' \in [ScheduleIds -> Schedule]
      /\ \A i \in ScheduleIds : schedules'[i] = schedules[i] \/ (i = j /\ schedules'[i] = new)
    BY <1>1, <1>2, Writes DEF new
<1>5. UNCHANGED <<now, request, attempts, entered, job>>
    BY DEF ScheduleRun, schedulerVars, history
<1> QED  BY <1>1, <1>3, <1>4, <1>5 DEF Typed, InScheduler, Recorded, AtHand, Exact

\* A record that is cancelled, or skipped for a busy desktop, was pending.
LEMMA CancelKeeps ==
    ASSUME IInv, NEW k \in Scheduler!TaskIds, CancelRun(k)
    PROVE  IInv'
<1> USE DEF IInv, ClaimedWhileRunning
<1>1. PICK j \in PendingIn(schedules) :
        Replace(j, [schedules[j] EXCEPT !.status = "cancelled"]) \/ NotWritten
    BY DEF CancelRun
<1> DEFINE new == [schedules[j] EXCEPT !.status = "cancelled"]
<1>2. new \in Schedule /\ new.status = "cancelled" /\ new.outcome = schedules[j].outcome
    BY DEF PendingIn, Typed, Schedule, ScheduleStatus
<1>3. j \in ScheduleIds /\ schedules[j].status = "pending"
    BY DEF PendingIn
<1> HIDE DEF new
<1>4. /\ schedules' \in [ScheduleIds -> Schedule]
      /\ \A i \in ScheduleIds : schedules'[i] = schedules[i] \/ (i = j /\ schedules'[i] = new)
    BY <1>1, <1>2, Writes DEF new
<1>5. UNCHANGED <<now, request, attempts, entered, job>>
    BY DEF CancelRun, schedulerVars, history
<1> QED  BY <1>2, <1>3, <1>4, <1>5 DEF Typed, InScheduler, Recorded, AtHand, Exact

LEMMA BusyKeeps ==
    ASSUME IInv, WakeUpBusy
    PROVE  IInv'
<1> USE DEF IInv, ClaimedWhileRunning
<1> DEFINE new == Skipped(timer, "busy")
<1>1. UNCHANGED <<now, request, attempts, entered, job>>
    BY DEF WakeUpBusy, schedulerVars, history
<1>2. CASE schedules' = schedules
    BY <1>1, <1>2 DEF Typed, InScheduler, Recorded, AtHand
<1>3. CASE schedules[timer].status = "pending" /\ Replace(timer, new) /\ timer \in ScheduleIds
  <2>1. new \in Schedule /\ new.status = "skipped" /\ new.outcome = "busy"
      BY <1>3 DEF Skipped, Typed, Schedule, ScheduleStatus, Outcome
  <2> HIDE DEF new
  <2>2. /\ schedules' \in [ScheduleIds -> Schedule]
        /\ \A i \in ScheduleIds : schedules'[i] = schedules[i] \/ (i = timer /\ schedules'[i] = new)
      BY <1>3, <2>1, Writes
  <2> QED  BY <1>1, <1>3, <2>1, <2>2 DEF Typed, InScheduler, Recorded, AtHand, Exact
<1>4. CASE Replace(timer, new) /\ timer \notin ScheduleIds
    BY <1>2, <1>4 DEF Replace, Typed
<1> QED  BY <1>2, <1>3, <1>4 DEF WakeUpBusy, NotWritten

-----------------------------------------------------------------------------
\* The worker takes a wake-up, finishes with one, or is asked for a cycle.
LEMMA RequestKeeps ==
    ASSUME IInv, WakeUp \/ WakeUpUnstarted \/ Poll \/ StartCycle
    PROVE  IInv'
<1> USE DEF IInv, ClaimedWhileRunning, Typed, InScheduler, Recorded, AtHand, Exact, Free, Doing, schedulerVars, history
<1>1. CASE WakeUp  BY <1>1 DEF WakeUp
<1>2. CASE WakeUpUnstarted  BY <1>2 DEF WakeUpUnstarted
<1>3. CASE Poll  BY <1>3 DEF Poll
<1>4. CASE StartCycle  BY <1>4 DEF StartCycle, Scheduler!BeginCycle
<1> QED  BY <1>1, <1>2, <1>3, <1>4

\* The claim is written before anything is run.
LEMMA FireKeeps ==
    ASSUME IInv, Fire
    PROVE  IInv'
<1> USE DEF IInv, ClaimedWhileRunning
<1> DEFINE i == request.of
<1>1. /\ UNCHANGED <<now, attempts, entered, job>>
      /\ request.doing = "fire"
    BY DEF Fire, schedulerVars, history
<1>2. CASE schedules' = schedules /\ request' = [request EXCEPT !.doing = "done"]
    BY <1>1, <1>2 DEF Typed, InScheduler, Recorded, AtHand, Exact, Doing
<1>3. CASE /\ schedules[i].status = "pending" /\ Replace(i, Skipped(i, "grant"))
           /\ request' = [request EXCEPT !.doing = "done"]
  <2>1. CASE i \in ScheduleIds
    <3> DEFINE new == Skipped(i, "grant")
    <3>1. new \in Schedule /\ new.status = "skipped" /\ new.outcome = "grant"
        BY <2>1 DEF Skipped, Typed, Schedule, ScheduleStatus, Outcome
    <3> HIDE DEF new
    <3>2. /\ schedules' \in [ScheduleIds -> Schedule]
          /\ \A s \in ScheduleIds : schedules'[s] = schedules[s] \/ (s = i /\ schedules'[s] = new)
        BY <1>3, <3>1, Writes DEF new
    <3> QED  BY <1>1, <1>3, <2>1, <3>1, <3>2 DEF Typed, InScheduler, Recorded, AtHand, Exact, Doing
  <2>2. CASE i \notin ScheduleIds
      BY <1>2, <1>3, <2>2 DEF Replace, Typed
  <2> QED  BY <2>1, <2>2
<1>4. CASE /\ schedules[i].status = "pending"
           /\ Replace(i, [schedules[i] EXCEPT !.status = "claimed"])
           /\ request' = [request EXCEPT !.doing = "claimed"]
  <2>1. request' = [doing |-> "claimed", of |-> i]
      BY <1>4 DEF Typed
  <2>2. CASE i \in ScheduleIds
    <3> DEFINE new == [schedules[i] EXCEPT !.status = "claimed"]
    <3>1. new \in Schedule /\ new.status = "claimed" /\ new.outcome = schedules[i].outcome
        BY <2>2 DEF Typed, Schedule, ScheduleStatus
    <3> HIDE DEF new
    <3>2. /\ schedules' \in [ScheduleIds -> Schedule]
          /\ \A s \in ScheduleIds : schedules'[s] = schedules[s] \/ s = i
          /\ schedules'[i] = new
        BY <1>4, <2>2, <3>1, Writes DEF new, Replace, Typed
    <3> QED  BY <1>1, <1>4, <2>1, <2>2, <3>1, <3>2 DEF Typed, InScheduler, Recorded, AtHand, Exact, Doing
  <2>3. CASE i \notin ScheduleIds
    <3>1. schedules' = schedules
        BY <1>4, <2>3 DEF Replace, Typed
    <3> QED  BY <1>1, <2>1, <2>3, <3>1 DEF Typed, InScheduler, Recorded, AtHand, Exact, Doing
  <2> QED  BY <2>2, <2>3
<1> QED  BY <1>2, <1>3, <1>4 DEF Fire, NotWritten

\* One more of one of them.
LEMMA Counted ==
    ASSUME NEW S, NEW f \in [S -> Nat], NEW i
    PROVE  /\ [f EXCEPT ![i] = @ + 1] \in [S -> Nat]
           /\ \A s \in S : [f EXCEPT ![i] = @ + 1][s] = IF s = i THEN f[s] + 1 ELSE f[s]
<1>1. \A s \in S : [f EXCEPT ![i] = @ + 1][s] = IF s = i THEN f[s] + 1 ELSE f[s]
    OBVIOUS
<1>2. \A s \in S : f[s] + 1 \in Nat
    OBVIOUS
<1> QED  BY <1>1, <1>2

\* The exact run is made of a claimed record that was never attempted.
LEMMA RunKeeps ==
    ASSUME IInv, RunExact
    PROVE  IInv'
<1> USE DEF IInv, ClaimedWhileRunning
<1> DEFINE i == request.of
<1>1. /\ UNCHANGED <<now, schedules>>
      /\ request.doing = "claimed"
      /\ attempts' = [attempts EXCEPT ![i] = @ + 1]
    BY DEF RunExact
<1>2. \/ entered' = entered \cup {i} /\ request' = [doing |-> "running", of |-> i]
      \/ UNCHANGED <<entered, job>> /\ request' = [doing |-> "ineligible", of |-> i]
    BY DEF RunExact, Typed, schedulerVars
<1>3. attempts' \in [ScheduleIds -> Nat] /\ \A s \in ScheduleIds :
        attempts'[s] = IF s = i THEN attempts[s] + 1 ELSE attempts[s]
    BY <1>1, Counted DEF Typed
<1>4. Typed'
  <2>1. request' = [doing |-> request'.doing, of |-> request'.of] /\ request'.doing \in Doing
      BY <1>2 DEF Doing
  <2>2. now' \in Nat /\ schedules' \in [ScheduleIds -> Schedule]
      BY <1>1 DEF Typed
  <2> QED  BY <1>3, <2>1, <2>2 DEF Typed
<1>5. InScheduler'
    BY <1>1, <1>2 DEF InScheduler
<1>6. ASSUME NEW s \in ScheduleIds  PROVE Recorded(s)' /\ AtHand(s)'
  <2>1. CASE s = i
      BY <1>1, <1>2, <1>3, <2>1 DEF Typed, Recorded, AtHand, Exact
  <2>2. CASE s # i
      BY <1>1, <1>2, <1>3, <2>2 DEF Typed, Recorded, AtHand
  <2> QED  BY <2>1, <2>2
<1>7. ASSUME NEW s \in ScheduleIds, request'.of = s  PROVE schedules'[s].status = "claimed"
    BY <1>1, <1>2, <1>7 DEF Exact
<1> QED  BY <1>4, <1>5, <1>6, <1>7

\* The scheduler's own steps change no record.
LEMMA SchedulerKeeps ==
    ASSUME IInv, SchedulerStep
    PROVE  IInv'
<1> USE DEF IInv, ClaimedWhileRunning
<1>1. request.doing \in {"cycle", "running"}
    BY DEF SchedulerStep, InScheduler, Scheduler!Continue, Scheduler!At, Scheduler!ClaimNext, Scheduler!EndCycle,
           Scheduler!EnterAutonomy, Scheduler!CommitResult, Scheduler!RunRaises, Scheduler!CaptureTasks,
           Scheduler!SaveTasks
<1>2. UNCHANGED <<now, schedules, attempts, entered>>
    BY DEF SchedulerStep, history
<1>3. /\ request' = [doing |-> request'.doing, of |-> request.of]
      /\ request'.doing = IF job'[Worker].pc # "idle" THEN request.doing
                          ELSE IF request.doing = "cycle" THEN "done"
                          ELSE IF raised' # raised THEN "refused" ELSE "ran"
    BY DEF SchedulerStep, Typed
<1> QED  BY <1>1, <1>2, <1>3 DEF Typed, InScheduler, Recorded, AtHand, Exact, Doing

\* The outcome that is recorded is what the run came to.
LEMMA FinishKeeps ==
    ASSUME IInv, Finish
    PROVE  IInv'
<1> USE DEF IInv, ClaimedWhileRunning
<1> DEFINE i == request.of
           new == IF request.doing = "ran" THEN [schedules[i] EXCEPT !.status = "triggered"]
                  ELSE Skipped(i, request.doing)
<1>1. /\ UNCHANGED <<now, attempts, entered, job>>
      /\ request' = [request EXCEPT !.doing = "done"]
      /\ request.doing \in {"ran", "ineligible", "refused"}
      /\ Replace(i, new) \/ NotWritten
    BY DEF Finish, schedulerVars, history
<1>2. CASE i \in ScheduleIds
  <2>1. schedules[i].status = "claimed" /\ schedules[i].outcome = "none"
      BY <1>1, <1>2 DEF Exact, Recorded
  <2>2. /\ new \in Schedule
        /\ request.doing = "ran" => new.status = "triggered" /\ new.outcome = "none"
        /\ request.doing # "ran" => new.status = "skipped" /\ new.outcome = request.doing
      BY <1>1, <1>2, <2>1 DEF Skipped, Typed, Schedule, ScheduleStatus, Outcome
  <2> HIDE DEF new
  <2>3. /\ schedules' \in [ScheduleIds -> Schedule]
        /\ \A s \in ScheduleIds : schedules'[s] = schedules[s] \/ (s = i /\ schedules'[s] = new)
      BY <1>1, <2>2, Writes
  <2> QED  BY <1>1, <1>2, <2>1, <2>2, <2>3 DEF Typed, InScheduler, Recorded, AtHand, Exact, Doing
<1>3. CASE i \notin ScheduleIds
  <2>1. schedules' = schedules
      BY <1>1, <1>3 DEF Replace, NotWritten, Typed
  <2> QED  BY <1>1, <2>1 DEF Typed, InScheduler, Recorded, AtHand, Exact, Doing
<1> QED  BY <1>2, <1>3

\* Calls about tasks, the clock, and a new process.
LEMMA BesidesKeep ==
    ASSUME IInv, TaskCall \/ Tick \/ Restart
    PROVE  IInv'
<1> USE DEF IInv, ClaimedWhileRunning, Typed, InScheduler, Recorded, AtHand, Exact, Free, Doing, history
<1>1. CASE TaskCall
    BY <1>1 DEF TaskCall, Scheduler!Create, Scheduler!Pause, Scheduler!Resume, Scheduler!Cancel
<1>2. CASE Tick
    BY <1>2 DEF Tick, schedulerVars
<1>3. CASE Restart
    BY <1>3, OneShotAssumption DEF Restart, Scheduler!Crash, Scheduler!Threads, Scheduler!IdleJob
<1> QED  BY <1>1, <1>2, <1>3

LEMMA StepIInv == IInv /\ [Next]_vars => IInv'
<1> SUFFICES ASSUME IInv, [Next]_vars PROVE IInv'
    OBVIOUS
<1>1. CASE UNCHANGED vars
    BY <1>1 DEF vars, schedulerVars, history, IInv, ClaimedWhileRunning, Typed, InScheduler, Recorded, AtHand
<1>2. CASE Next
    BY <1>2, GrantKeeps, ScheduleKeeps, CancelKeeps, BusyKeeps, RequestKeeps, FireKeeps, RunKeeps,
       SchedulerKeeps, FinishKeeps, BesidesKeep DEF Next, Work
<1> QED  BY <1>1, <1>2

-----------------------------------------------------------------------------
\* The inductive invariant holds of every reachable state.
THEOREM Invariance == Spec => []IInv
BY InitIInv, StepIInv, PTL DEF Spec

\* No schedule gets to its exact run twice: however many restarts, failed
\* writes and wake-ups there are, no record is replayed.
THEOREM AttemptedOnce == Spec => []AttemptedAtMostOnce
<1>1. IInv => AttemptedAtMostOnce
    BY DEF IInv, Recorded, AttemptedAtMostOnce
<1> QED  BY <1>1, Invariance, PTL

\* What the document says of a schedule is what came to pass.
THEOREM OutcomeHolds == Spec => []OutcomeIsTrue
<1>1. IInv => OutcomeIsTrue
    BY DEF IInv, Recorded, OutcomeIsTrue
<1> QED  BY <1>1, Invariance, PTL

\* A record that is resolved is never written again.
THEOREM ResolvedStays == Spec => ResolvedStaysResolved
<1> DEFINE Kept(i) == schedules[i].status \in Resolved => schedules'[i] = schedules[i]
<1>1. ASSUME IInv, [Next]_vars, NEW i \in ScheduleIds  PROVE Kept(i)
    BY <1>1 DEF Next, Work, vars, schedulerVars, history, Resolved, IInv, ClaimedWhileRunning, Typed, Exact, Replace, NotWritten,
        GrantRun, RevokeGrant, ScheduleRun, CancelRun, PendingIn, WakeUp, WakeUpUnstarted, WakeUpBusy,
        Poll, StartCycle, Fire, RunExact, SchedulerStep, Finish, TaskCall, Tick, Restart
<1>2. IInv /\ [Next]_vars => [\A i \in ScheduleIds : Kept(i)]_vars
    BY <1>1
<1> QED  BY <1>2, Invariance, PTL DEF Spec, ResolvedStaysResolved
-----------------------------------------------------------------------------
\* The rest of the types: whom the records, the request and the wake-up name.
Named ==
    /\ now \in 0..Horizon
    /\ grants \in [GrantIds -> Grant]
    /\ \A i \in ScheduleIds : schedules[i].status # "none" => schedules[i].task \in Scheduler!TaskIds
    /\ request.of \in ScheduleIds \cup {Nobody}
    /\ request.doing \in {"fire"} \cup Exact => request.of \in ScheduleIds
    /\ timer \in ScheduleIds \cup {Nobody}
    /\ unstarted \in BOOLEAN
    /\ faults \in 0..MaxFaults
    /\ entered \in SUBSET ScheduleIds

\* Natural numbers have a least one among them.
LEMMA Smallest ==
    ASSUME NEW S \in SUBSET Nat, S # {}
    PROVE  \E n \in S : \A m \in S : n <= m
<1> DEFINE R == OpToRel(<, Nat)
<1>1. IsWellFoundedOn(R, Nat)
    BY NatLessThanWellFounded
<1>2. \A m, n \in Nat : m < n => <<m, n>> \in R
    BY DEF OpToRel
<1> HIDE DEF R
<1>3. PICK n \in S : \A m \in S : ~(<<m, n>> \in R)
    BY <1>1, WFMin
<1>4. n \in Nat /\ \A m \in S : m \in Nat
    OBVIOUS
<1>5. \A m \in S : ~(m < n)
    BY ONLY <1>2, <1>3, <1>4
<1> QED  BY ONLY <1>4, <1>5

\* next_pending finds a record wherever one is pending: of those due first,
\* the one that was made first.
LEMMA Next_Pending ==
    ASSUME NEW S \in [ScheduleIds -> Schedule]
    PROVE  NextPending(S) \in PendingIn(S) \cup {Nobody}
<1> SUFFICES ASSUME PendingIn(S) # {}  PROVE NextPending(S) \in PendingIn(S)
    BY DEF NextPending
<1> DEFINE Times == {S[i].runAt : i \in PendingIn(S)}
<1>1. PendingIn(S) \in SUBSET Nat /\ \A i \in PendingIn(S) : S[i].runAt \in Nat
    BY OneShotAssumption DEF PendingIn, ScheduleIds, Schedule
<1>2. Times \in SUBSET Nat /\ Times # {}
    BY <1>1
<1>3. PICK due \in Times : \A at \in Times : due <= at
  <2> HIDE DEF Times
  <2> QED  BY <1>2, Smallest
<1> DEFINE First == {i \in PendingIn(S) : S[i].runAt = due}
<1>4. First \in SUBSET Nat /\ First # {}
    BY <1>1, <1>3
<1>5. PICK i \in First : \A j \in First : i <= j
  <2> HIDE DEF First
  <2> QED  BY <1>4, Smallest
<1>6. ASSUME NEW j \in PendingIn(S)
      PROVE  S[i].runAt < S[j].runAt \/ (S[i].runAt = S[j].runAt /\ i <= j)
  <2>1. S[i].runAt = due /\ due <= S[j].runAt /\ due \in Nat /\ S[j].runAt \in Nat
      BY <1>1, <1>3
  <2>2. CASE S[j].runAt = due
      BY <1>5, <2>1, <2>2
  <2>3. CASE S[j].runAt # due
      BY ONLY <2>1, <2>3
  <2> QED  BY <2>2, <2>3
<1> HIDE DEF Times, First
<1>7. i \in PendingIn(S)
    BY DEF First
<1> QED  BY <1>6, <1>7 DEF NextPending
LEMMA ArmedFor ==
    ASSUME NEW S \in [ScheduleIds -> Schedule], ArmFor(S)
    PROVE  timer' \in ScheduleIds \cup {Nobody} /\ unstarted' \in BOOLEAN
BY Next_Pending DEF ArmFor, PendingIn

LEMMA FaultCounted ==
    ASSUME faults \in 0..MaxFaults, faults' = faults \/ Fault
    PROVE  faults' \in 0..MaxFaults
BY OneShotAssumption DEF Fault

LEMMA InitNamed == Init => Named
<1> SUFFICES ASSUME Init PROVE Named
    OBVIOUS
<1>1. [task |-> 0, revoked |-> FALSE, until |-> 0] \in Grant
    BY OneShotAssumption DEF Grant
<1>2. now \in 0..Horizon /\ faults \in 0..MaxFaults
    BY OneShotAssumption DEF Init
<1> QED  BY <1>1, <1>2 DEF Init, Named, Free, Nobody, Exact

\* Who is given a grant, and until when.
LEMMA GrantNames ==
    ASSUME IInv, Named, NEW k \in Scheduler!TaskIds, GrantRun(k) \/ RevokeGrant(k)
    PROVE  Named'
<1>1. grants' \in [GrantIds -> Grant]
  <2>1. CASE GrantRun(k)
    <3>1. PICK fresh \in GrantIds : grants' = [g \in GrantIds |->
                IF g = fresh THEN [task |-> k, revoked |-> FALSE, until |-> now + Week]
                ELSE IF g \in ActiveGrants(k) THEN [grants[g] EXCEPT !.revoked = TRUE]
                ELSE grants[g]]
        BY <2>1 DEF GrantRun
    <3>2. [task |-> k, revoked |-> FALSE, until |-> now + Week] \in Grant
        BY OneShotAssumption DEF Grant, Scheduler!TaskIds, IInv, Typed
    <3>3. \A g \in GrantIds : grants[g] \in Grant /\ [grants[g] EXCEPT !.revoked = TRUE] \in Grant
        BY DEF Named, Grant
    <3> QED  BY <3>1, <3>2, <3>3
  <2>2. CASE RevokeGrant(k)
      BY <2>2 DEF RevokeGrant, ActiveGrants, Named, Grant
  <2> QED  BY <2>1, <2>2
<1> QED  BY <1>1 DEF Named, GrantRun, RevokeGrant, history

\* The document is written and the wake-up is armed for it.
LEMMA WriteNames ==
    ASSUME IInv, Named, NEW i \in ScheduleIds, NEW record \in Schedule,
           Replace(i, record) \/ NotWritten,
           record.status # "none" => record.task \in Scheduler!TaskIds,
           UNCHANGED <<now, grants>>, entered' \in SUBSET ScheduleIds,
           request'.of \in ScheduleIds \cup {Nobody},
           request'.doing \in {"fire"} \cup Exact => request'.of \in ScheduleIds,
           UNCHANGED <<timer, unstarted>> \/ ArmFor(schedules')
                \/ (timer' = Nobody /\ unstarted' = unstarted)
    PROVE  Named'
<1>1. /\ schedules' \in [ScheduleIds -> Schedule]
      /\ \A j \in ScheduleIds : schedules'[j] = schedules[j] \/ (j = i /\ schedules'[j] = record)
    BY Writes DEF IInv
<1>2. faults' \in 0..MaxFaults
    BY FaultCounted DEF Named, Replace, NotWritten
<1>3. timer' \in ScheduleIds \cup {Nobody} /\ unstarted' \in BOOLEAN
    BY <1>1, ArmedFor DEF Named
<1>4. \A j \in ScheduleIds : schedules'[j].status # "none" => schedules'[j].task \in Scheduler!TaskIds
    BY <1>1 DEF Named
<1> QED  BY <1>2, <1>3, <1>4 DEF Named

\* A record keeps its task, whatever becomes of it.
LEMMA SameTask ==
    ASSUME IInv, Named, NEW i \in ScheduleIds, schedules[i].status # "none", NEW status \in ScheduleStatus,
           NEW outcome \in Outcome
    PROVE  /\ [schedules[i] EXCEPT !.status = status] \in Schedule
           /\ [schedules[i] EXCEPT !.status = status].task \in Scheduler!TaskIds
           /\ outcome \in Outcome => Skipped(i, outcome) \in Schedule /\ Skipped(i, outcome).task \in Scheduler!TaskIds
BY DEF IInv, Typed, Named, Schedule, Skipped, ScheduleStatus

LEMMA ScheduleNames ==
    ASSUME IInv, Named, NEW k \in Scheduler!TaskIds, ScheduleRun(k) \/ CancelRun(k)
    PROVE  Named'
<1>0. UNCHANGED <<now, grants, request, entered>>
    BY DEF ScheduleRun, CancelRun, history
<1>1. CASE ScheduleRun(k)
  <2>1. PICK i \in ScheduleIds, g \in ActiveGrants(k), at \in (now + 1)..(now + Week) :
            \/ Replace(i, [status |-> "pending", task |-> k, grant |-> g, runAt |-> at,
                           outcome |-> "none"])
               /\ ArmFor(schedules')
            \/ NotWritten /\ UNCHANGED <<timer, unstarted>>
      BY <1>1 DEF ScheduleRun
  <2> DEFINE new == [status |-> "pending", task |-> k, grant |-> g, runAt |-> at, outcome |-> "none"]
  <2>2. new \in Schedule /\ new.task = k
      BY OneShotAssumption DEF Schedule, ScheduleStatus, Outcome, IInv, Typed, ActiveGrants, GrantIds,
         Scheduler!TaskIds
  <2> HIDE DEF new
  <2>3. (Replace(i, new) /\ ArmFor(schedules')) \/ (NotWritten /\ UNCHANGED <<timer, unstarted>>)
      BY <2>1 DEF new
  <2> QED  BY <1>0, <2>2, <2>3, WriteNames DEF Named
<1>2. CASE CancelRun(k)
  <2>1. PICK i \in PendingIn(schedules) :
            \/ Replace(i, [schedules[i] EXCEPT !.status = "cancelled"]) /\ ArmFor(schedules')
            \/ NotWritten /\ UNCHANGED <<timer, unstarted>>
      BY <1>2 DEF CancelRun
  <2>2. i \in ScheduleIds /\ schedules[i].status = "pending"
      BY DEF PendingIn
  <2> DEFINE new == [schedules[i] EXCEPT !.status = "cancelled"]
  <2>3. new \in Schedule /\ new.task \in Scheduler!TaskIds
      BY <2>2, SameTask DEF ScheduleStatus, Outcome
  <2> HIDE DEF new
  <2>4. (Replace(i, new) /\ ArmFor(schedules')) \/ (NotWritten /\ UNCHANGED <<timer, unstarted>>)
      BY <2>1 DEF new
  <2> QED  BY <1>0, <2>2, <2>3, <2>4, WriteNames DEF Named
<1> QED  BY <1>1, <1>2

LEMMA BusyNames ==
    ASSUME IInv, Named, WakeUpBusy
    PROVE  Named'
<1>1. timer \in ScheduleIds /\ UNCHANGED <<now, grants, request, entered>>
    BY DEF WakeUpBusy, Due, Named, history
<1>2. CASE UNCHANGED <<schedules, faults, unstarted>> /\ timer' = Nobody
    BY <1>1, <1>2 DEF Named
<1>3. CASE schedules[timer].status = "pending" /\ NotWritten /\ timer' = Nobody /\ unstarted' = unstarted
  <2>1. faults' \in 0..MaxFaults
      BY <1>3, FaultCounted DEF Named, NotWritten
  <2> QED  BY <1>1, <1>3, <2>1 DEF Named, NotWritten
<1>4. CASE schedules[timer].status = "pending" /\ Replace(timer, Skipped(timer, "busy")) /\ ArmFor(schedules')
  <2>1. Skipped(timer, "busy") \in Schedule /\ Skipped(timer, "busy").task \in Scheduler!TaskIds
      BY <1>1, <1>4, SameTask DEF ScheduleStatus, Outcome
  <2> QED  BY <1>1, <1>4, <2>1, WriteNames DEF Named
<1> QED  BY <1>2, <1>3, <1>4 DEF WakeUpBusy

LEMMA RequestNames ==
    ASSUME IInv, Named, WakeUp \/ WakeUpUnstarted \/ Poll \/ StartCycle
    PROVE  Named'
<1>1. CASE WakeUp
    BY <1>1 DEF WakeUp, Due, Named, history, Nobody
<1>2. CASE WakeUpUnstarted
  <2>1. faults' \in 0..MaxFaults
      BY <1>2, FaultCounted DEF Named, WakeUpUnstarted
  <2> QED  BY <1>2, <2>1 DEF WakeUpUnstarted, Named, history
<1>3. CASE Poll
  <2>1. timer' \in ScheduleIds \cup {Nobody} /\ unstarted' \in BOOLEAN
      BY <1>3, ArmedFor DEF Poll, IInv, Typed
  <2> QED  BY <1>3, <2>1 DEF Poll, Named, history, Free, Exact
<1>4. CASE StartCycle
    BY <1>4 DEF StartCycle, Named, history, Free, Exact
<1> QED  BY <1>1, <1>2, <1>3, <1>4

\* The worker keeps to the record it was woken up for.
LEMMA WorkNames ==
    ASSUME IInv, Named, Work
    PROVE  Named'
<1> DEFINE i == request.of
<1>1. CASE Fire
  <2>1. i \in ScheduleIds /\ UNCHANGED <<now, grants, timer, unstarted, entered>>
      BY <1>1 DEF Fire, Named, history
  <2>2. request'.of = i
      BY <1>1 DEF Fire, IInv, Typed
  <2>3. CASE schedules[i].status # "pending"
    <3>1. UNCHANGED <<schedules, faults>>
        BY <1>1, <2>3 DEF Fire
    <3> QED  BY <2>1, <2>2, <3>1 DEF Named
  <2>4. CASE schedules[i].status = "pending"
    <3>1. /\ [schedules[i] EXCEPT !.status = "claimed"] \in Schedule
          /\ [schedules[i] EXCEPT !.status = "claimed"].task \in Scheduler!TaskIds
          /\ Skipped(i, "grant") \in Schedule /\ Skipped(i, "grant").task \in Scheduler!TaskIds
        BY <2>1, <2>4, SameTask DEF ScheduleStatus, Outcome
    <3> DEFINE claimed == [schedules[i] EXCEPT !.status = "claimed"]
    <3> HIDE DEF claimed
    <3>2. Replace(i, Skipped(i, "grant")) \/ Replace(i, claimed) \/ NotWritten
        BY <1>1, <2>4 DEF Fire, claimed
    <3>3. claimed \in Schedule /\ claimed.task \in Scheduler!TaskIds
        BY <3>1 DEF claimed
    <3> QED  BY <2>1, <2>2, <3>1, <3>2, <3>3, WriteNames DEF Named
  <2> QED  BY <2>3, <2>4
<1>2. CASE RunExact
  <2>1. i \in ScheduleIds /\ request'.of = i
      BY <1>2 DEF RunExact, Named, Exact, IInv, Typed
  <2>2. UNCHANGED <<now, schedules, grants, timer, unstarted, faults>>
      BY <1>2 DEF RunExact
  <2>3. entered' \in SUBSET ScheduleIds
      BY <1>2, <2>1 DEF RunExact, Named
  <2> QED  BY <2>1, <2>2, <2>3 DEF Named
<1>3. CASE SchedulerStep
  <2>0. request.doing \in {"cycle", "running"}
      BY <1>3 DEF SchedulerStep, IInv, InScheduler, Scheduler!Continue, Scheduler!At, Scheduler!ClaimNext,
         Scheduler!EndCycle, Scheduler!EnterAutonomy, Scheduler!CommitResult, Scheduler!RunRaises,
         Scheduler!CaptureTasks, Scheduler!SaveTasks
  <2>1. request'.of = i
      BY <1>3 DEF SchedulerStep, IInv, Typed
  <2>2. request.doing = "cycle" => request'.doing \in {"cycle", "done"}
      BY <1>3 DEF SchedulerStep, IInv, Typed
  <2>3. UNCHANGED <<now, schedules, grants, timer, unstarted, faults, entered>>
      BY <1>3 DEF SchedulerStep, history
  <2> QED  BY <2>0, <2>1, <2>2, <2>3 DEF Named, Exact
<1>4. CASE Finish
  <2>1. i \in ScheduleIds /\ UNCHANGED <<now, grants, timer, unstarted, entered>>
      BY <1>4 DEF Finish, Named, history, Exact
  <2>2. request'.of = i
      BY <1>4 DEF Finish, IInv, Typed
  <2>3. schedules[i].status = "claimed"
      BY <1>4, <2>1 DEF Finish, IInv, ClaimedWhileRunning, Exact
  <2> DEFINE new == IF request.doing = "ran" THEN [schedules[i] EXCEPT !.status = "triggered"]
                    ELSE Skipped(i, request.doing)
  <2>4. new \in Schedule /\ new.task \in Scheduler!TaskIds
    <3>1. CASE request.doing = "ran"
        BY <2>1, <2>3, <3>1, SameTask DEF ScheduleStatus, Outcome
    <3>2. CASE request.doing # "ran"
        BY <1>4, <2>1, <2>3, <3>2, SameTask DEF Finish, ScheduleStatus, Outcome
    <3> QED  BY <3>1, <3>2
  <2> HIDE DEF new
  <2>5. Replace(i, new) \/ NotWritten
      BY <1>4 DEF Finish, new
  <2> QED  BY <2>1, <2>2, <2>4, <2>5, WriteNames DEF Named
<1> QED  BY <1>1, <1>2, <1>3, <1>4 DEF Work

LEMMA BesidesName ==
    ASSUME IInv, Named, TaskCall \/ Tick \/ Restart
    PROVE  Named'
<1>1. CASE TaskCall
    BY <1>1 DEF TaskCall, Named, history
<1>2. CASE Tick
    BY <1>2, OneShotAssumption DEF Tick, Named, history
<1>3. CASE Restart
  <2>1. timer' \in ScheduleIds \cup {Nobody} /\ unstarted' \in BOOLEAN
      BY <1>3, ArmedFor DEF Restart, IInv, Typed
  <2> QED  BY <1>3, <2>1 DEF Restart, Named, history, Free, Exact
<1> QED  BY <1>1, <1>2, <1>3

LEMMA StepNamed == IInv /\ Named /\ [Next]_vars => Named'
<1> SUFFICES ASSUME IInv, Named, [Next]_vars PROVE Named'
    OBVIOUS
<1>1. CASE UNCHANGED vars
    BY <1>1 DEF vars, schedulerVars, history, Named
<1>2. CASE Next
    BY <1>2, GrantNames, ScheduleNames, BusyNames, RequestNames, WorkNames, BesidesName DEF Next
<1> QED  BY <1>1, <1>2

-----------------------------------------------------------------------------
\* The background scheduler, with the desktop's two threads for its own, and
\* what is proved of it.
Proved == INSTANCE BackgroundSchedulerProofs WITH Workers <- {Worker}, Operators <- {Window}

\* The exact run of a schedule's task is a claim like any other: the worker is
\* in no other call of the scheduler, and the task is one that waits.
LEMMA ExactIsAClaim ==
    ASSUME IInv, Named, RunExact
    PROVE  Scheduler!ClaimExact(Worker) \/ UNCHANGED schedulerVars
<1> DEFINE k == schedules[request.of].task
<1>1. request.doing = "claimed" /\ request.of \in ScheduleIds
    BY DEF RunExact, Named, Exact
<1>2. job[Worker].pc = "idle"
    BY <1>1 DEF IInv, InScheduler
<1>3. schedules[request.of].status = "claimed"
    BY <1>1 DEF IInv, ClaimedWhileRunning, Exact
<1>4. k \in Scheduler!TaskIds
    BY <1>1, <1>3 DEF Named
<1>5. CASE Eligible(k) /\ Scheduler!Claim(Worker, k) /\ UNCHANGED <<created, crashes, runs, raised>>
  <2>1. k \in Scheduler!Runnable
      BY <1>4, <1>5 DEF Eligible, Scheduler!Runnable
  <2> QED  BY <1>2, <1>5, <2>1 DEF Scheduler!ClaimExact, Scheduler!At
<1> QED  BY <1>5 DEF RunExact

LEMMA StepImplements == IInv /\ Named /\ [Next]_vars => [Scheduler!Next]_schedulerVars
<1> SUFFICES ASSUME IInv, Named, [Next]_vars PROVE [Scheduler!Next]_schedulerVars
    OBVIOUS
<1>1. CASE UNCHANGED vars
    BY <1>1 DEF vars
<1>2. ASSUME NEW k \in Scheduler!TaskIds, GrantRun(k) \/ RevokeGrant(k) \/ ScheduleRun(k) \/ CancelRun(k)
      PROVE  UNCHANGED schedulerVars
    BY <1>2 DEF GrantRun, RevokeGrant, ScheduleRun, CancelRun
<1>3. CASE WakeUp \/ WakeUpUnstarted \/ WakeUpBusy \/ Poll \/ Fire \/ Finish \/ Tick
    BY <1>3 DEF WakeUp, WakeUpUnstarted, WakeUpBusy, Poll, Fire, Finish, Tick
<1>4. CASE RunExact
    BY <1>4, ExactIsAClaim DEF Scheduler!Next
<1>5. CASE StartCycle \/ SchedulerStep
    BY <1>5 DEF StartCycle, SchedulerStep, Scheduler!Next
<1>6. CASE TaskCall
    BY <1>6 DEF TaskCall, Scheduler!Next
<1>7. CASE Restart
    BY <1>7 DEF Restart, Scheduler!Next
<1> QED  BY <1>1, <1>2, <1>3, <1>4, <1>5, <1>6, <1>7 DEF Next, Work

\* One-shot schedules keep to the scheduler's own rules: whatever is done with
\* schedules, grants and wake-ups, each step is a step of the scheduler, or
\* none at all.
THEOREM Implements == Spec => Scheduler!Spec
<1>1. Init => Scheduler!Init
    BY DEF Init
<1>2. Spec => []Named
    BY Invariance, InitNamed, StepNamed, PTL DEF Spec
<1>3. schedulerVars = Scheduler!vars
    BY DEF schedulerVars, Scheduler!vars
<1> QED  BY <1>1, <1>2, Invariance, StepImplements, PTL DEF Spec, Scheduler!Spec, Scheduler!vars, schedulerVars
\* What is proved of the scheduler is proved of the same steps.
LEMMA SameTerms ==
    /\ Scheduler!TaskIds = Proved!TaskIds /\ Scheduler!Closed = Proved!Closed
    /\ Scheduler!Uncreated = Proved!Uncreated /\ Scheduler!IdleJob = Proved!IdleJob
    /\ Scheduler!Known = Proved!Known /\ Scheduler!Active = Proved!Active /\ Scheduler!Runnable = Proved!Runnable
    /\ Scheduler!Threads = Proved!Threads
    /\ Scheduler!Outcome = Proved!Outcome
    /\ Scheduler!Task = Proved!Task /\ Scheduler!Job = Proved!Job
BY DEF Scheduler!TaskIds, Proved!TaskIds, Scheduler!Closed, Proved!Closed, Scheduler!Uncreated, Proved!Uncreated,
   Scheduler!IdleJob, Proved!IdleJob, Scheduler!NoTask, Proved!NoTask, Scheduler!Known, Proved!Known,
   Scheduler!Active, Proved!Active, Scheduler!Runnable, Proved!Runnable, Scheduler!Threads, Proved!Threads,
   Scheduler!Outcome, Proved!Outcome, Scheduler!Task, Proved!Task, Scheduler!Job, Proved!Job,
   Scheduler!Status, Proved!Status, Scheduler!PC, Proved!PC

LEMMA SameParts ==
    ASSUME NEW t, NEW k, NEW task, NEW pc, NEW j, NEW status, NEW outcome
    PROVE  /\ Scheduler!At(t, pc) <=> Proved!At(t, pc)
           /\ Scheduler!Become(t, j) <=> Proved!Become(t, j)
           /\ Scheduler!Transition(k, task) <=> Proved!Transition(k, task)
           /\ Scheduler!InStatus(k, status) = Proved!InStatus(k, status)
           /\ Scheduler!Settled(task, outcome) = Proved!Settled(task, outcome)
           /\ Scheduler!Recovered(task) = Proved!Recovered(task)
BY DEF Scheduler!At, Proved!At, Scheduler!Become, Proved!Become, Scheduler!Transition, Proved!Transition,
   Scheduler!Persisted, Proved!Persisted, Scheduler!InStatus, Proved!InStatus, Scheduler!Settled, Proved!Settled,
   Scheduler!Recovered, Proved!Recovered

LEMMA SameCalls ==
    ASSUME NEW t
    PROVE  /\ Scheduler!Create(t) => Proved!Create(t)
           /\ Scheduler!Pause(t) => Proved!Pause(t)
           /\ Scheduler!Resume(t) => Proved!Resume(t)
           /\ Scheduler!Cancel(t) => Proved!Cancel(t)
           /\ Scheduler!Crash => Proved!Crash
<1>1. Scheduler!Create(t) => Proved!Create(t)
  <2>1. \A S : Scheduler!Cardinality(S) = Proved!Cardinality(S)
      BY DEF Scheduler!Cardinality, Proved!Cardinality
  <2> QED  BY <2>1, SameTerms, SameParts DEF Scheduler!Create, Proved!Create
<1>2. Scheduler!Pause(t) => Proved!Pause(t)
    BY SameTerms, SameParts DEF Scheduler!Pause, Proved!Pause
<1>3. Scheduler!Resume(t) => Proved!Resume(t)
    BY SameTerms, SameParts DEF Scheduler!Resume, Proved!Resume
<1>4. Scheduler!Cancel(t) => Proved!Cancel(t)
    BY SameTerms, SameParts DEF Scheduler!Cancel, Proved!Cancel
<1>5. Scheduler!Crash => Proved!Crash
    BY SameTerms, SameParts DEF Scheduler!Crash, Proved!Crash
<1> QED BY <1>1, <1>2, <1>3, <1>4, <1>5

LEMMA SameSteps ==
    ASSUME NEW t
    PROVE  /\ Scheduler!BeginCycle(t) => Proved!BeginCycle(t)
           /\ Scheduler!ClaimExact(t) => Proved!ClaimExact(t)
           /\ Scheduler!Continue(t) => Proved!Continue(t)
<1>1. Scheduler!BeginCycle(t) => Proved!BeginCycle(t)
    BY SameTerms, SameParts DEF Scheduler!BeginCycle, Proved!BeginCycle
<1>2. ASSUME NEW k PROVE Scheduler!Claim(t, k) => Proved!Claim(t, k)
    BY SameTerms, SameParts DEF Scheduler!Claim, Proved!Claim
<1>3. Scheduler!ClaimExact(t) => Proved!ClaimExact(t)
    BY <1>2, SameTerms, SameParts DEF Scheduler!ClaimExact, Proved!ClaimExact
<1>4. Scheduler!ClaimNext(t) => Proved!ClaimNext(t)
    BY <1>2, SameTerms, SameParts DEF Scheduler!ClaimNext, Proved!ClaimNext
<1>5. Scheduler!EndCycle(t) => Proved!EndCycle(t)
    BY SameParts DEF Scheduler!EndCycle, Proved!EndCycle
<1>6. Scheduler!EnterAutonomy(t) => Proved!EnterAutonomy(t)
    BY SameParts DEF Scheduler!EnterAutonomy, Proved!EnterAutonomy
<1>7. Scheduler!CommitResult(t) => Proved!CommitResult(t)
    BY SameTerms, SameParts DEF Scheduler!CommitResult, Proved!CommitResult, Scheduler!NoTask, Proved!NoTask
<1>8. Scheduler!RunRaises(t) => Proved!RunRaises(t)
    BY SameTerms, SameParts DEF Scheduler!RunRaises, Proved!RunRaises
<1>9. Scheduler!CaptureTasks(t) => Proved!CaptureTasks(t)
    BY SameParts DEF Scheduler!CaptureTasks, Proved!CaptureTasks
<1>10. Scheduler!SaveTasks(t) => Proved!SaveTasks(t)
    BY SameTerms, SameParts DEF Scheduler!SaveTasks, Proved!SaveTasks
<1> QED BY <1>1, <1>3, <1>4, <1>5, <1>6, <1>7, <1>8, <1>9, <1>10 DEF Scheduler!Continue, Proved!Continue

LEMMA SameSpec == Scheduler!Spec => Proved!Spec
<1>1. Scheduler!Init => Proved!Init
    BY SameTerms DEF Scheduler!Init, Proved!Init
<1>2. [Scheduler!Next]_Scheduler!vars => [Proved!Next]_Proved!vars
    BY SameCalls, SameSteps DEF Scheduler!vars, Proved!vars, Scheduler!Next, Proved!Next
<1> QED BY <1>1, <1>2, PTL DEF Scheduler!Spec, Proved!Spec

\* Every variable keeps its type, the scheduler's among them.
THEOREM Typing == Spec => []TypeOK
<1>1. Spec => []Proved!IInv
    BY Implements, SameSpec, OneShotAssumption, Proved!Invariance
<1>2. IInv /\ Named /\ Proved!IInv => TypeOK
    BY SameTerms DEF IInv, Typed, Named, Proved!IInv, TypeOK, Scheduler!TypeOK, Proved!TypeOK
<1> QED  BY <1>1, <1>2, Invariance, InitNamed, StepNamed, PTL DEF Spec

\* What the scheduler promises holds of exact runs as well: a task is run once
\* and once more for each retry within its limit, whatever fires it, over any
\* number of restarts.
THEOREM Accounted == Spec => [](~DiskMayFail => AttemptsAccounted)
<1>1. Spec => [](Proved!Reliable => Proved!AttemptsAccounted)
    BY Implements, SameSpec, OneShotAssumption, Proved!Accounted
<1>2. ~DiskMayFail => Proved!Reliable
    BY DEF Proved!Reliable
<1>3. Proved!AttemptsAccounted => AttemptsAccounted
    BY SameTerms DEF AttemptsAccounted, Scheduler!AttemptsAccounted, Proved!AttemptsAccounted
<1> QED  BY <1>1, <1>2, <1>3, PTL
=============================================================================
