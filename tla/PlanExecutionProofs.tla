------------------------ MODULE PlanExecutionProofs ------------------------
(***************************************************************************)
(* What is proved of PlanExecution, for every plan and every budget, in    *)
(* three layers.                                                           *)
(*                                                                         *)
(* Inv, where one thread at most rebinds: one attempt at a time, and       *)
(* executions that stay final.  It is proved in two parts, DataInv, the    *)
(* types of whatever is not a thread's locals, and JobInv, the locals and  *)
(* what they agree on; of these the types, and what one thread's locals    *)
(* say of each other, need no condition on the threads.  Most actions      *)
(* replace one thread's locals; LocalStep and AttemptEnds say what JobInv  *)
(* needs of the new ones and of the new execution, and each action is then *)
(* a matter of looking at its record.                                      *)
(*                                                                         *)
(* Values, for any threads: every execution there is, live, recorded or in *)
(* a caller's hands, is one the constructor accepts, and what it says is   *)
(* completed was run.                                                      *)
(*                                                                         *)
(* Solo, for one thread that advances and any number that cancel: what the *)
(* document, the locals, the allowances and the licences have to do with   *)
(* each other.  From it follow PaidFor, ExplanationIsCurrent, and that     *)
(* PlanExecution implements ApprovedPlan.                                  *)
(***************************************************************************)
EXTENDS PlanExecution, PlanExecutionStateProofs

DataInv ==
    /\ plan \in [Steps -> Kind]
    /\ exec \in Execution
    /\ allowance \in Allowance
    /\ restored \in Snapshot
    /\ disk \in Snapshot
    /\ recorded \in SUBSET Steps
    /\ crashes \in 0..MaxCrashes
    /\ calls \in Calls
    /\ licensed \in SUBSET Steps

\* The condition: rebind_restored is called by one thread at most.
OneRebinder == \A t, u \in Rebinders : t = u

\* What the threads' locals have to do with each other and with the rest.
Together ==
    /\ \A t \in Threads : Attempting(t) => ShowsAttempt(exec)
    /\ RebindsFirst
    /\ OneAttempt

JobInv ==
    /\ job \in [Threads -> Job]
    /\ \A t \in Threads : JobAgrees(job[t])
    /\ \A t \in Threads : Rebinds(job[t]) => t \in Rebinders
    /\ OneRebinder => Together

\* Where one thread rebinds, the two parts give Inv.
LEMMA InvParts == OneRebinder /\ DataInv /\ JobInv => Inv
BY DEF Inv, TypeOK, DataInv, JobInv, Together

\* An allowance nobody granted, and a document nobody wrote, are of their types.
LEMMA NothingType ==
    /\ NoAllowance \in Allowance
    /\ NoSnapshot \in Snapshot
    /\ NoSnapshot.exec = Absent
BY StartedType DEF NoAllowance, Allowance, NoSnapshot, Snapshot

\* Charging an allowance for a step gives an allowance.
LEMMA ChargedType ==
    ASSUME NEW a \in Allowance, NEW s
    PROVE  Charged(a, s) \in Allowance
<1> DEFINE advances == a.advances + 1
           network == a.network + Cost(s)
<1>1. advances \in Nat
  BY DEF Allowance
<1>2. network \in Nat
  <2>1. Cost(s) \in {0, 1} /\ a.network \in Nat
    BY DEF Cost, Allowance
  <2> QED BY <2>1
<1>3. Charged(a, s) = [a EXCEPT !.advances = advances, !.network = network]
  BY DEF Charged, Allowance
<1> HIDE DEF advances, network
<1> QED BY <1>1, <1>2, <1>3 DEF Allowance

\* A thread between calls promises nothing.
LEMMA IdleLocals ==
    /\ IdleJob \in Job
    /\ JobAgrees(IdleJob)
    /\ ~MakesAttempt(IdleJob) /\ ~Rebinds(IdleJob)
<1>1. IdleJob \in Job
  BY StartedType, NothingType DEF IdleJob, Job, PC, Purpose, NoStep
<1>2. IdleJob.pc = "idle"
  BY DEF IdleJob
<1> QED BY <1>1, <1>2 DEF JobAgrees, MakesAttempt, Decides, Writing, Rebinds

\* Nor does one that only has a document to write.
LEMMA ReportLocals ==
    ASSUME NEW j \in Job
    PROVE  LET r == [j EXCEPT !.pc = "capture", !.purpose = "report"]
           IN r \in Job /\ JobAgrees(r) /\ ~MakesAttempt(r) /\ ~Rebinds(r)
<1> DEFINE r == [j EXCEPT !.pc = "capture", !.purpose = "report"]
<1>1. r \in Job /\ r.pc = "capture" /\ r.purpose = "report"
  BY DEF Job, PC, Purpose
<1> HIDE DEF r
<1>2. JobAgrees(r) /\ ~MakesAttempt(r) /\ ~Rebinds(r)
  BY <1>1 DEF JobAgrees, MakesAttempt, Decides, Writing, Rebinds
<1> QED BY <1>1, <1>2 DEF r

\* The plan that has no execution shows no attempt.
LEMMA AbsentShows == ~ShowsAttempt(Absent)
BY DEF ShowsAttempt, IsTerminal, Terminal, Running, InStatus, Absent, FreshStep

\* No thread is about to write what it rebuilt over a step that leaves the
\* execution be, that finds one live, or that finds nothing to restore.
Unrebound ==
    /\ exec' = exec \/ exec # Absent \/ restored = NoSnapshot
    /\ restored' = restored

\* A thread that is not rebinding moves on: the rebinding of others is kept.
LEMMA RebindsKept ==
    ASSUME JobInv, RebindsFirst, NEW t \in Threads, NEW j, ~Rebinds(j), Unrebound,
           job' = [job EXCEPT ![t] = j]
    PROVE  RebindsFirst'
<1>1. \A u \in Threads : job'[u] = IF u = t THEN j ELSE job[u]
  BY DEF JobInv
<1>2. \A u \in Threads : Rebinds(job'[u]) => job'[u] = job[u]
  BY <1>1
<1>3. ~Resumable(NoSnapshot.exec)
  BY NothingType DEF Resumable, Absent
<1>4. \A u \in Threads : Rebinds(job'[u]) => job'[u].doc = restored' /\ restored # NoSnapshot
  BY <1>2, <1>3 DEF Unrebound, RebindsFirst, JobInv, JobAgrees
<1>5. \A u \in Threads : job'[u].pc = "rebind" => exec' = Absent
  BY <1>2, <1>4 DEF Unrebound, RebindsFirst, Rebinds, At
<1> QED BY <1>4, <1>5 DEF RebindsFirst, At

\* One thread moves on, begins no attempt, and hides none.
LEMMA LocalStep ==
    ASSUME JobInv, NEW t \in Threads, NEW j \in Job, JobAgrees(j), ~Rebinds(j),
           job' = [job EXCEPT ![t] = j],
           MakesAttempt(j) => MakesAttempt(job[t]),
           ShowsAttempt(exec) => ShowsAttempt(exec'), Unrebound
    PROVE  JobInv'
<1>1. job' \in [Threads -> Job]
  BY DEF JobInv
<1>2. \A u \in Threads : job'[u] = IF u = t THEN j ELSE job[u]
  BY DEF JobInv
<1>3. \A u \in Threads : MakesAttempt(job'[u]) => MakesAttempt(job[u])
  BY <1>2
<1>4. \A u \in Threads : JobAgrees(job'[u]) /\ (Rebinds(job'[u]) => u \in Rebinders)
  BY <1>2 DEF JobInv
<1>5. ASSUME OneRebinder PROVE Together'
  <2>1. Together
    BY <1>5 DEF JobInv
  <2>2. \A u \in Threads : MakesAttempt(job'[u]) => ShowsAttempt(exec')
    BY <1>3, <2>1 DEF Together, Attempting
  <2>3. \A u, v \in Threads : MakesAttempt(job'[u]) /\ MakesAttempt(job'[v]) => u = v
    BY <1>3, <2>1 DEF Together, OneAttempt, Attempting
  <2>4. RebindsFirst'
    BY <2>1, RebindsKept DEF Together
  <2> QED BY <2>2, <2>3, <2>4 DEF Together, OneAttempt, Attempting
<1> QED BY <1>1, <1>4, <1>5 DEF JobInv, OneRebinder

\* The attempting thread ends its attempt: nobody is attempting any more.
LEMMA AttemptEnds ==
    ASSUME JobInv, NEW t \in Threads, NEW j \in Job, JobAgrees(j), ~Rebinds(j),
           job' = [job EXCEPT ![t] = j],
           MakesAttempt(job[t]), ~MakesAttempt(j), Unrebound
    PROVE  JobInv'
<1>1. job' \in [Threads -> Job]
  BY DEF JobInv
<1>2. \A u \in Threads : job'[u] = IF u = t THEN j ELSE job[u]
  BY DEF JobInv
<1>3. \A u \in Threads : JobAgrees(job'[u]) /\ (Rebinds(job'[u]) => u \in Rebinders)
  BY <1>2 DEF JobInv
<1>4. ASSUME OneRebinder PROVE Together'
  <2>1. Together
    BY <1>4 DEF JobInv
  <2>2. \A u \in Threads : ~MakesAttempt(job'[u])
    BY <1>2, <2>1 DEF Together, OneAttempt, Attempting
  <2>3. RebindsFirst'
    BY <2>1, RebindsKept DEF Together
  <2> QED BY <2>2, <2>3 DEF Together, OneAttempt, Attempting
<1> QED BY <1>1, <1>3, <1>4 DEF JobInv, OneRebinder

\* The thread that commits a start is the only one attempting: the state it
\* decided from had nothing running, and that state still stood.
LEMMA AttemptBegins ==
    ASSUME JobInv, NEW t \in Threads, NEW j \in Job, JobAgrees(j), ~Rebinds(j),
           job' = [job EXCEPT ![t] = j],
           ~ShowsAttempt(exec), ShowsAttempt(exec'), Unrebound
    PROVE  JobInv'
<1>1. job' \in [Threads -> Job]
  BY DEF JobInv
<1>2. \A u \in Threads : job'[u] = IF u = t THEN j ELSE job[u]
  BY DEF JobInv
<1>3. \A u \in Threads : JobAgrees(job'[u]) /\ (Rebinds(job'[u]) => u \in Rebinders)
  BY <1>2 DEF JobInv
<1>4. ASSUME OneRebinder PROVE Together'
  <2>1. Together
    BY <1>4 DEF JobInv
  <2>2. \A u \in Threads \ {t} : ~MakesAttempt(job'[u])
    BY <1>2, <2>1 DEF Together, Attempting
  <2>3. RebindsFirst'
    BY <2>1, RebindsKept DEF Together
  <2> QED BY <2>2, <2>3 DEF Together, OneAttempt, Attempting
<1> QED BY <1>1, <1>3, <1>4 DEF JobInv, OneRebinder

\* Committing a successor with the same running step, from a state that is
\* not final and has an execution, hides no attempt and rewrites nothing final.
LEMMA CommitShows ==
    ASSUME NEW view \in Execution, NEW goal \in Execution, exec \in Execution,
           ~IsTerminal(view), view.status # "absent", Running(goal) = Running(view),
           exec' = Committed(view, goal)
    PROVE  /\ exec' \in Execution
           /\ ShowsAttempt(exec) => ShowsAttempt(exec')
           /\ IsTerminal(exec) => exec' = exec
           /\ exec' = exec \/ exec # Absent
BY DEF Committed, ShowsAttempt, Absent

-----------------------------------------------------------------------------
\* What every step is shown to do: keep both parts and, where one thread
\* rebinds, leave a final execution be unless it is a restart.
Final == IsTerminal(exec) => (exec' = exec \/ crashes' > crashes)
Safe == DataInv' /\ JobInv' /\ (OneRebinder => Final)

\* Beginning a call: process_start, and the reads of process_advance,
\* process_resolve and process_recover.
LEMMA CallSafe ==
    ASSUME ConfigAssumption, DataInv, JobInv, NEW t \in Threads, Call(t)
    PROVE  Safe
<1> USE DEF Safe, Final
<1>1. ASSUME Start(t) PROVE Safe
  <2>1. JobInv'
    <3>1. job[t] \in Job
      BY DEF JobInv
    <3> QED BY <1>1, <3>1, AbsentShows, ReportLocals, LocalStep DEF Unrebound, Start, Persist, Become
  <2>2. DataInv'
    <3>1. \A granted \in BOOLEAN : [NoAllowance EXCEPT !.granted = granted] \in Allowance
      BY DEF NoAllowance, Allowance
    <3> QED BY <1>1, <3>1, StartedType DEF Start, DataInv, ConfigAssumption
  <2> QED BY <1>1, <2>1, <2>2 DEF Start, IsTerminal, Terminal, Absent
<1>2. ASSUME BeginAdvance(t) PROVE Safe
  <2>1. PICK s \in Steps :
           /\ IsNextPending(exec, s)
           /\ \/ /\ CanBlockStep(exec, s)
                 /\ Become(t, [IdleJob EXCEPT !.pc = "commit", !.step = s, !.view = exec,
                                              !.goal = BlockStep(exec, s)])
              \/ Become(t, [IdleJob EXCEPT !.pc = "allowance", !.step = s, !.view = exec])
    BY <1>2 DEF BeginAdvance
  <2>2. exec \in Execution /\ BlockStep(exec, s) \in Execution
    BY OutcomeType DEF DataInv
  <2>3. JobInv'
    <3>1. CASE CanBlockStep(exec, s) /\
               Become(t, [IdleJob EXCEPT !.pc = "commit", !.step = s, !.view = exec,
                                         !.goal = BlockStep(exec, s)])
      <4> DEFINE j == [IdleJob EXCEPT !.pc = "commit", !.step = s, !.view = exec,
                                      !.goal = BlockStep(exec, s)]
      <4>1. j \in Job /\ j.pc = "commit" /\ j.view = exec /\ j.goal = BlockStep(exec, s)
        BY <2>2, IdleLocals DEF Job, PC
      <4>2. Running(BlockStep(exec, s)) = Running(exec) /\ exec.status = "running"
        BY <2>1, <2>2, <3>1, NoteType DEF IsNextPending, CanBlockStep
      <4>3. job' = [job EXCEPT ![t] = j]
        BY <3>1 DEF Become
      <4> HIDE DEF j
      <4>4. JobAgrees(j) /\ ~MakesAttempt(j) /\ ~Rebinds(j)
        BY <4>1, <4>2 DEF JobAgrees, MakesAttempt, Decides, Writing, Rebinds
      <4> QED BY <1>2, <4>1, <4>3, <4>4, LocalStep DEF Unrebound, BeginAdvance
    <3>2. CASE Become(t, [IdleJob EXCEPT !.pc = "allowance", !.step = s, !.view = exec])
      <4> DEFINE j == [IdleJob EXCEPT !.pc = "allowance", !.step = s, !.view = exec]
      <4>1. j \in Job /\ j.pc = "allowance" /\ j.view = exec /\ j.step = s
        BY <2>2, IdleLocals DEF Job, PC
      <4>2. job' = [job EXCEPT ![t] = j]
        BY <3>2 DEF Become
      <4> HIDE DEF j
      <4>3. JobAgrees(j) /\ ~MakesAttempt(j) /\ ~Rebinds(j)
        BY <2>1, <4>1 DEF JobAgrees, MakesAttempt, Decides, Writing, Rebinds
      <4> QED BY <1>2, <4>1, <4>2, <4>3, LocalStep DEF Unrebound, BeginAdvance
    <3> QED BY <2>1, <3>1, <3>2
  <2> QED BY <1>2, <2>3 DEF BeginAdvance, DataInv
<1>3. ASSUME BeginResolve(t) PROVE Safe
  <2>1. PICK s \in Steps, ruling \in Resolution \ {"none"} :
           /\ CanResolve(exec, s)
           /\ Become(t, [IdleJob EXCEPT !.pc = "ruling", !.step = s, !.view = exec,
                                        !.goal = ResolveInterrupted(exec, s, ruling)])
    BY <1>3 DEF BeginResolve
  <2> DEFINE goal == ResolveInterrupted(exec, s, ruling)
             j == [IdleJob EXCEPT !.pc = "ruling", !.step = s, !.view = exec, !.goal = goal]
  <2>2. /\ exec \in Execution /\ goal \in Execution
        /\ ~IsTerminal(exec) /\ ~IsTerminal(goal) /\ Running(goal) = Running(exec)
        /\ exec.status # "absent" /\ goal.status # "absent"
    BY <2>1, RulingType DEF DataInv, CanResolve, IsTerminal, Terminal
  <2> HIDE DEF goal
  <2>3. j \in Job /\ j.pc = "ruling" /\ j.step = s /\ j.view = exec /\ j.goal = goal
    BY <2>2, IdleLocals DEF Job, PC
  <2>4. job' = [job EXCEPT ![t] = j]
    BY <2>1 DEF Become, goal
  <2> HIDE DEF j
  <2>5. JobAgrees(j) /\ ~MakesAttempt(j) /\ ~Rebinds(j)
    BY <2>2, <2>3 DEF JobAgrees, MakesAttempt, Decides, Writing, Rebinds
  <2>6. JobInv'
    BY <1>3, <2>3, <2>4, <2>5, LocalStep DEF Unrebound, BeginResolve
  <2> QED BY <1>3, <2>6 DEF BeginResolve, DataInv
<1>4. ASSUME BeginRecover(t) PROVE Safe
  <2>1. PICK s \in Steps, decision \in Recovery \ {"none"} :
           /\ CanRecover(exec, s)
           /\ Become(t, [IdleJob EXCEPT !.pc = "ruling", !.step = s, !.view = exec,
                                        !.goal = RecoverBlocked(exec, s, decision)])
    BY <1>4 DEF BeginRecover
  <2> DEFINE goal == RecoverBlocked(exec, s, decision)
             j == [IdleJob EXCEPT !.pc = "ruling", !.step = s, !.view = exec, !.goal = goal]
  <2>2. /\ exec \in Execution /\ goal \in Execution
        /\ ~IsTerminal(exec) /\ ~IsTerminal(goal) /\ Running(goal) = Running(exec)
        /\ exec.status # "absent" /\ goal.status # "absent"
    BY <2>1, RecoveryType DEF DataInv, CanRecover, IsTerminal, Terminal
  <2> HIDE DEF goal
  <2>3. j \in Job /\ j.pc = "ruling" /\ j.step = s /\ j.view = exec /\ j.goal = goal
    BY <2>2, IdleLocals DEF Job, PC
  <2>4. job' = [job EXCEPT ![t] = j]
    BY <2>1 DEF Become, goal
  <2> HIDE DEF j
  <2>5. JobAgrees(j) /\ ~MakesAttempt(j) /\ ~Rebinds(j)
    BY <2>2, <2>3 DEF JobAgrees, MakesAttempt, Decides, Writing, Rebinds
  <2>6. JobInv'
    BY <1>4, <2>3, <2>4, <2>5, LocalStep DEF Unrebound, BeginRecover
  <2> QED BY <1>4, <2>6 DEF BeginRecover, DataInv
<1> QED BY <1>1, <1>2, <1>3, <1>4 DEF Call

\* rebind_restored: its reads, its write of the execution, and its write of the
\* allowance.  Where one thread rebinds, nothing is live at the second of them.
LEMMA RebindSafe ==
    ASSUME ConfigAssumption, DataInv, JobInv, NEW t \in Threads,
           \/ t \in Rebinders /\ BeginRebind(t)
           \/ RebindExecution(t) \/ RebindAllowance(t)
    PROVE  Safe
<1> USE DEF Safe, Final
<1> DEFINE j == job[t]
<1>1. j \in Job /\ JobAgrees(j) /\ j.doc \in Snapshot /\ j.step \in Steps \cup {NoStep}
  BY DEF JobInv, Job
<1>2. ASSUME NEW k \in Job, JobAgrees(k), Rebinds(k), ~MakesAttempt(k), t \in Rebinders,
             job' = [job EXCEPT ![t] = k], restored' = restored,
             OneRebinder => /\ k.doc = restored /\ exec \in {Absent, exec'}
                            /\ k.pc = "rebind" => exec' = Absent
      PROVE  JobInv'
  <2>1. job' \in [Threads -> Job] /\ \A u \in Threads : job'[u] = IF u = t THEN k ELSE job[u]
    BY <1>2 DEF JobInv
  <2>2. \A u \in Threads : JobAgrees(job'[u]) /\ (Rebinds(job'[u]) => u \in Rebinders)
    BY <1>2, <2>1 DEF JobInv
  <2>3. ASSUME OneRebinder PROVE Together'
    <3>1. Together
      BY <2>3 DEF JobInv
    <3>2. ShowsAttempt(exec) => ShowsAttempt(exec')
      BY <1>2, <2>3, AbsentShows
    <3>3. \A u \in Threads : MakesAttempt(job'[u]) => MakesAttempt(job[u]) /\ u # t
      BY <1>2, <2>1
    <3>4. \A u \in Threads : Rebinds(job'[u]) => u = t
      BY <1>2, <2>2, <2>3 DEF OneRebinder
    <3>5. RebindsFirst'
      BY <1>2, <2>1, <2>3, <3>4 DEF RebindsFirst, Rebinds, At
    <3> QED BY <3>1, <3>2, <3>3, <3>5 DEF Together, OneAttempt, Attempting
  <2> QED BY <2>1, <2>2, <2>3 DEF JobInv, OneRebinder
<1>3. ASSUME t \in Rebinders, BeginRebind(t) PROVE Safe
  <2>1. PICK s \in Steps \cup {NoStep} :
           Become(t, [IdleJob EXCEPT !.pc = "rebind", !.doc = restored, !.step = s])
    <3>1. IdleJob.step = NoStep /\ IdleJob \in Job
      BY IdleLocals DEF IdleJob
    <3>2. [IdleJob EXCEPT !.pc = "rebind", !.doc = restored]
             = [IdleJob EXCEPT !.pc = "rebind", !.doc = restored, !.step = NoStep]
      BY <3>1 DEF Job
    <3> QED BY <1>3, <3>2 DEF BeginRebind
  <2> DEFINE k == [IdleJob EXCEPT !.pc = "rebind", !.doc = restored, !.step = s]
  <2>2. k \in Job /\ k.pc = "rebind" /\ k.doc = restored
    BY IdleLocals DEF Job, PC, DataInv
  <2>3. job' = [job EXCEPT ![t] = k]
    BY <2>1 DEF Become
  <2> HIDE DEF k
  <2>4. JobAgrees(k) /\ ~MakesAttempt(k) /\ Rebinds(k)
    BY <1>3, <2>2 DEF JobAgrees, MakesAttempt, Decides, Writing, Rebinds, BeginRebind
  <2>5. JobInv'
    BY <1>2, <1>3, <2>2, <2>3, <2>4 DEF BeginRebind
  <2> QED BY <1>3, <2>5 DEF BeginRebind, DataInv
<1>4. ASSUME RebindExecution(t) PROVE Safe
  <2> DEFINE k == [j EXCEPT !.pc = "rebindAllowance"]
  <2>1. Rebinds(j) /\ j.pc = "rebind" /\ t \in Rebinders
    BY <1>4 DEF RebindExecution, At, Rebinds, JobInv
  <2>2. k \in Job /\ k.pc = "rebindAllowance" /\ k.doc = j.doc
    BY <1>1 DEF Job, PC
  <2>3. job' = [job EXCEPT ![t] = k]
    BY <1>4 DEF RebindExecution, Goto, Become
  <2> HIDE DEF k
  <2>4. JobAgrees(k) /\ ~MakesAttempt(k) /\ Rebinds(k)
    BY <1>1, <2>1, <2>2 DEF JobAgrees, MakesAttempt, Decides, Writing, Rebinds
  <2>5. OneRebinder => exec = Absent /\ j.doc = restored
    BY <2>1 DEF JobInv, Together, RebindsFirst, At
  <2>6. JobInv'
    BY <1>2, <1>4, <2>1, <2>2, <2>3, <2>4, <2>5 DEF RebindExecution
  <2>7. exec' \in Execution
    <3>1. Rebound(j.doc.exec) \in Execution
      BY <1>1, RestartType DEF Snapshot
    <3> QED BY <1>1, <1>4, <3>1, CompleteFromRecordType DEF RebindExecution
  <2> QED BY <1>4, <2>5, <2>6, <2>7 DEF RebindExecution, DataInv, IsTerminal, Terminal, Absent
<1>5. ASSUME RebindAllowance(t) PROVE Safe
  <2>1. t \in Rebinders
    BY <1>5 DEF RebindAllowance, At, Rebinds, JobInv
  <2>2. PICK k \in Job : /\ JobAgrees(k) /\ ~MakesAttempt(k) /\ ~Rebinds(k)
                         /\ job' = [job EXCEPT ![t] = k]
    BY <1>1, <1>5, IdleLocals, ReportLocals DEF RebindAllowance, Finish, Persist, Become
  <2>3. job' \in [Threads -> Job] /\ \A u \in Threads : job'[u] = IF u = t THEN k ELSE job[u]
    BY <2>2 DEF JobInv
  <2>4. \A u \in Threads : JobAgrees(job'[u]) /\ (Rebinds(job'[u]) => u \in Rebinders)
    BY <2>2, <2>3 DEF JobInv
  <2>5. ASSUME OneRebinder PROVE Together'
    <3>1. Together
      BY <2>5 DEF JobInv
    <3>2. \A u \in Threads : MakesAttempt(job'[u]) => MakesAttempt(job[u])
      BY <2>2, <2>3
    <3>3. \A u \in Threads : ~Rebinds(job'[u])
      BY <2>1, <2>2, <2>3, <2>4, <2>5 DEF OneRebinder
    <3>4. exec' = exec
      BY <1>5 DEF RebindAllowance
    <3> QED BY <3>1, <3>2, <3>3, <3>4
            DEF Together, OneAttempt, Attempting, RebindsFirst, Rebinds, At
  <2>6. JobInv'
    BY <2>3, <2>4, <2>5 DEF JobInv, OneRebinder
  <2>7. j.doc.allowance \in Allowance
    BY <1>1 DEF Snapshot
  <2> QED BY <1>5, <2>6, <2>7, NothingType DEF RebindAllowance, DataInv
<1> QED BY <1>3, <1>4, <1>5

\* An advance up to its checkpoint, and back when it cannot have one: the
\* rest of process_advance before operation.run.
LEMMA AdvanceSafe ==
    ASSUME ConfigAssumption, DataInv, JobInv, NEW t \in Threads,
           CheckAllowance(t) \/ Charge(t) \/ CommitStart(t) \/ Refund(t)
              \/ Withdraw(t) \/ Uncharge(t)
    PROVE  Safe
<1> USE DEF Safe, Final
<1> DEFINE j == job[t]
           s == j.step
<1>1. j \in Job /\ JobAgrees(j)
  BY DEF JobInv
<1>2. /\ j.view \in Execution /\ j.goal \in Execution
      /\ j.budget \in Allowance /\ s \in Steps \cup {NoStep}
  BY <1>1 DEF Job
<1>3. ASSUME CheckAllowance(t) PROVE Safe
  <2>1. s \in Steps /\ IsNextPending(j.view, s)
    BY <1>1, <1>3 DEF CheckAllowance, At, JobAgrees
  <2>2. CASE Finish(t)
    <3>1. JobInv'
      BY <1>3, <2>2, IdleLocals, LocalStep DEF Unrebound, CheckAllowance, Finish, Become
    <3> QED BY <1>3, <3>1 DEF CheckAllowance, DataInv
  <2>3. ASSUME NEW goal \in Execution, Running(goal) = Running(j.view),
               j.view.status = "running",
               Become(t, [j EXCEPT !.pc = "commit", !.goal = goal])
        PROVE  Safe
    <3> DEFINE k == [j EXCEPT !.pc = "commit", !.goal = goal]
    <3>1. k \in Job /\ k.pc = "commit" /\ k.view = j.view /\ k.goal = goal
      BY <1>1 DEF Job, PC
    <3>2. job' = [job EXCEPT ![t] = k]
      BY <2>3 DEF Become
    <3> HIDE DEF k
    <3>3. JobAgrees(k) /\ ~MakesAttempt(k) /\ ~Rebinds(k)
      BY <2>3, <3>1 DEF JobAgrees, MakesAttempt, Decides, Writing, Rebinds
    <3>4. JobInv'
      BY <1>3, <3>1, <3>2, <3>3, LocalStep DEF Unrebound, CheckAllowance
    <3> QED BY <1>3, <3>4 DEF CheckAllowance, DataInv
  <2>4. ASSUME CanStartStep(j.view, s), NEW pc \in {"charge", "start"},
               Become(t, [j EXCEPT !.pc = pc, !.goal = StartStep(j.view, s),
                                   !.budget = allowance])
        PROVE  Safe
    <3> DEFINE k == [j EXCEPT !.pc = pc, !.goal = StartStep(j.view, s), !.budget = allowance]
    <3>1. StartStep(j.view, s) \in Execution
      BY <1>2, <2>1, <2>4, StartStepType
    <3>2. /\ k \in Job /\ k.pc = pc /\ k.view = j.view /\ k.step = s
          /\ k.goal = StartStep(j.view, s)
      BY <1>1, <3>1 DEF Job, PC, DataInv
    <3>3. job' = [job EXCEPT ![t] = k]
      BY <2>4 DEF Become
    <3> HIDE DEF k
    <3>4. JobAgrees(k) /\ ~MakesAttempt(k) /\ ~Rebinds(k)
      BY <2>1, <2>4, <3>2 DEF JobAgrees, MakesAttempt, Decides, Writing, Rebinds
    <3>5. JobInv'
      BY <1>3, <3>2, <3>3, <3>4, LocalStep DEF Unrebound, CheckAllowance
    <3> QED BY <1>3, <3>5 DEF CheckAllowance, DataInv
  <2>5. /\ RequireAuthority(j.view, s) \in Execution
        /\ RefuseAdvance(j.view, s) \in Execution
        /\ Running(RequireAuthority(j.view, s)) = Running(j.view)
        /\ Running(RefuseAdvance(j.view, s)) = Running(j.view)
    BY <1>2, <2>1, NoteType DEF IsNextPending
  <2> QED BY <1>3, <2>2, <2>3, <2>4, <2>5
          DEF CheckAllowance, CanRequireAuthority, CanRefuseAdvance
<1>4. ASSUME Charge(t) PROVE Safe
  <2> DEFINE k == [j EXCEPT !.pc = "start"]
  <2>1. j.pc = "charge"
    BY <1>4 DEF Charge, At
  <2>2. /\ k \in Job /\ k.pc = "start" /\ k.view = j.view /\ k.goal = j.goal
        /\ k.step = s
    BY <1>1 DEF Job, PC
  <2>3. job' = [job EXCEPT ![t] = k]
    BY <1>4 DEF Charge, Goto, Become
  <2> HIDE DEF k
  <2>4. JobAgrees(k) /\ ~MakesAttempt(k) /\ ~Rebinds(k)
    BY <1>1, <2>1, <2>2 DEF JobAgrees, MakesAttempt, Decides, Writing, Rebinds
  <2>5. JobInv'
    BY <1>4, <2>2, <2>3, <2>4, LocalStep DEF Unrebound, Charge
  <2>6. Charged(j.budget, s) \in Allowance
    BY <1>2, ChargedType
  <2> QED BY <1>4, <2>5, <2>6 DEF Charge, DataInv
<1>5. ASSUME CommitStart(t) PROVE Safe
  <2>1. s \in Steps /\ CanStartStep(j.view, s) /\ j.goal = StartStep(j.view, s)
    BY <1>1, <1>5 DEF CommitStart, At, JobAgrees
  <2>2. /\ Running(j.goal) = {s} /\ j.goal.status = "running"
        /\ Running(j.view) = {} /\ j.view.status = "running"
    BY <1>2, <2>1, StartStepType DEF CanStartStep
  <2>3. CASE exec = j.view
    <3> DEFINE k == [j EXCEPT !.pc = "capture", !.purpose = "checkpoint"]
    <3>1. /\ k \in Job /\ k.pc = "capture" /\ k.purpose = "checkpoint"
          /\ k.view = j.view /\ k.goal = j.goal /\ k.step = s
      BY <1>1 DEF Job, PC, Purpose
    <3>2. job' = [job EXCEPT ![t] = k] /\ exec' = j.goal
      BY <1>5, <2>3 DEF CommitStart, Persist, Become, Committed
    <3> HIDE DEF k
    <3>3. JobAgrees(k)
      BY <2>1, <2>2, <3>1 DEF JobAgrees, Decides, Writing, Rebinds
    <3>4. ~ShowsAttempt(exec) /\ ShowsAttempt(exec') /\ ~IsTerminal(exec)
      BY <2>2, <2>3, <3>2 DEF ShowsAttempt, IsTerminal, Terminal
    <3>5. JobInv'
      <4>1. exec # Absent /\ restored' = restored
        BY <1>5, <2>2, <2>3 DEF CommitStart, Absent
      <4> QED BY <3>1, <3>2, <3>3, <3>4, <4>1, AttemptBegins DEF Unrebound, Rebinds
    <3> QED BY <1>2, <1>5, <3>2, <3>4, <3>5 DEF CommitStart, DataInv
  <2>4. CASE exec # j.view
    <3> DEFINE k == [j EXCEPT !.pc = "refund"]
    <3>1. k \in Job /\ k.pc = "refund"
      BY <1>1 DEF Job, PC
    <3>2. job' = [job EXCEPT ![t] = k] /\ exec' = exec
      BY <1>5, <2>4 DEF CommitStart, Goto, Become, Committed
    <3> HIDE DEF k
    <3>3. JobAgrees(k) /\ ~MakesAttempt(k) /\ ~Rebinds(k)
      BY <3>1 DEF JobAgrees, MakesAttempt, Decides, Writing, Rebinds
    <3>4. JobInv'
      BY <1>5, <3>1, <3>2, <3>3, LocalStep DEF Unrebound, CommitStart
    <3> QED BY <1>5, <3>2, <3>4 DEF CommitStart, DataInv
  <2> QED BY <2>3, <2>4
<1>6. ASSUME Refund(t) PROVE Safe
  <2>1. JobInv'
    BY <1>1, <1>6, ReportLocals, LocalStep DEF Unrebound, Refund, Persist, Become
  <2> QED BY <1>2, <1>6, <2>1 DEF Refund, DataInv
<1>7. ASSUME Withdraw(t) PROVE Safe
  <2> DEFINE k == [j EXCEPT !.pc = "uncharge"]
  <2>1. j.pc = "withdraw" /\ MakesAttempt(j) /\ ~IsTerminal(j.goal) /\ j.goal # Absent
    BY <1>1, <1>7 DEF Withdraw, At, JobAgrees, MakesAttempt, IsTerminal, Terminal, Absent
  <2>2. k \in Job /\ k.pc = "uncharge"
    BY <1>1 DEF Job, PC
  <2>3. job' = [job EXCEPT ![t] = k]
    BY <1>7 DEF Withdraw, Goto, Become
  <2> HIDE DEF k
  <2>4. JobAgrees(k) /\ ~MakesAttempt(k) /\ ~Rebinds(k)
    BY <2>2 DEF JobAgrees, MakesAttempt, Decides, Writing, Rebinds
  <2>5. JobInv'
    BY <1>7, <2>1, <2>2, <2>3, <2>4, AttemptEnds DEF Unrebound, Withdraw, Committed
  <2> QED BY <1>2, <1>7, <2>1, <2>5 DEF Withdraw, Committed, DataInv
<1>8. ASSUME Uncharge(t) PROVE Safe
  <2>1. JobInv'
    BY <1>8, IdleLocals, LocalStep DEF Unrebound, Uncharge, Finish, Become
  <2> QED BY <1>2, <1>8, <2>1 DEF Uncharge, DataInv
<1> QED BY <1>3, <1>4, <1>5, <1>6, <1>7, <1>8

\* Writing the document: _persist_checkpoint.
LEMMA PersistSafe ==
    ASSUME ConfigAssumption, DataInv, JobInv, NEW t \in Threads,
           Capture(t) \/ CaptureAllowance(t) \/ Save(t) \/ SaveFails(t)
    PROVE  Safe
<1> USE DEF Safe, Final
<1> DEFINE j == job[t]
<1>1. j \in Job /\ JobAgrees(j)
  BY DEF JobInv
<1>2. j.doc \in Snapshot /\ j.purpose \in Purpose
  BY <1>1 DEF Job
<1>3. ASSUME NEW k \in Job, k.view = j.view, k.goal = j.goal, k.step = j.step,
             k.purpose = j.purpose, j.pc \in Writing,
             \/ k.pc \in Writing
             \/ k.pc \in {"run", "withdraw"} /\ j.purpose = "checkpoint"
             \/ k.pc = "unrule" /\ j.purpose = "decision",
             job' = [job EXCEPT ![t] = k], exec' = exec, restored' = restored
      PROVE  JobInv'
  <2>1. MakesAttempt(k) => MakesAttempt(j)
    BY <1>3 DEF MakesAttempt, Writing
  <2>2. JobAgrees(k) /\ ~Rebinds(k)
    BY <1>1, <1>3, <2>1 DEF JobAgrees, Decides, Writing, Rebinds, MakesAttempt
  <2> QED BY <1>3, <2>1, <2>2, LocalStep DEF Unrebound
<1>4. ASSUME Capture(t) PROVE Safe
  <2> DEFINE k == [j EXCEPT !.pc = "captureAllowance", !.doc.exec = exec]
  <2>1. j.pc = "capture"
    BY <1>4 DEF Capture, At
  <2>2. [j.doc EXCEPT !.exec = exec] \in Snapshot
    BY <1>2 DEF Snapshot, DataInv
  <2>3. k = [j EXCEPT !.pc = "captureAllowance", !.doc = [j.doc EXCEPT !.exec = exec]]
    BY <1>1 DEF Job
  <2>4. /\ k \in Job /\ k.pc = "captureAllowance" /\ k.purpose = j.purpose
        /\ k.view = j.view /\ k.goal = j.goal /\ k.step = j.step
    BY <1>1, <2>2, <2>3 DEF Job, PC
  <2>5. job' = [job EXCEPT ![t] = k] /\ exec' = exec /\ restored' = restored
    BY <1>4 DEF Capture, Become
  <2> HIDE DEF k
  <2>6. JobInv'
    BY <1>3, <2>1, <2>4, <2>5 DEF Writing
  <2> QED BY <1>4, <2>6 DEF Capture, DataInv
<1>5. ASSUME CaptureAllowance(t) PROVE Safe
  <2> DEFINE k == [j EXCEPT !.pc = "save", !.doc.allowance = allowance]
  <2>1. j.pc = "captureAllowance"
    BY <1>5 DEF CaptureAllowance, At
  <2>2. [j.doc EXCEPT !.allowance = allowance] \in Snapshot
    BY <1>2 DEF Snapshot, DataInv
  <2>3. k = [j EXCEPT !.pc = "save", !.doc = [j.doc EXCEPT !.allowance = allowance]]
    BY <1>1 DEF Job
  <2>4. /\ k \in Job /\ k.pc = "save" /\ k.purpose = j.purpose
        /\ k.view = j.view /\ k.goal = j.goal /\ k.step = j.step
    BY <1>1, <2>2, <2>3 DEF Job, PC
  <2>5. job' = [job EXCEPT ![t] = k] /\ exec' = exec /\ restored' = restored
    BY <1>5 DEF CaptureAllowance, Become
  <2> HIDE DEF k
  <2>6. JobInv'
    BY <1>3, <2>1, <2>4, <2>5 DEF Writing
  <2> QED BY <1>5, <2>6 DEF CaptureAllowance, DataInv
<1>6. ASSUME NEW pc \in {"run", "withdraw", "unrule"}, Goto(t, pc), At(t, "save"), exec' = exec,
             restored' = restored,
             pc = "unrule" => j.purpose = "decision",
             pc # "unrule" => j.purpose = "checkpoint"
      PROVE  JobInv'
  <2> DEFINE k == [j EXCEPT !.pc = pc]
  <2>1. /\ k \in Job /\ k.pc = pc /\ k.purpose = j.purpose
        /\ k.view = j.view /\ k.goal = j.goal /\ k.step = j.step
    BY <1>1 DEF Job, PC
  <2>2. job' = [job EXCEPT ![t] = k] /\ j.pc = "save"
    BY <1>6 DEF Goto, Become, At
  <2> HIDE DEF k
  <2> QED BY <1>3, <1>6, <2>1, <2>2 DEF Writing
<1>7. ASSUME Finish(t), exec' = exec, restored' = restored PROVE JobInv'
  BY <1>7, IdleLocals, LocalStep DEF Unrebound, Finish, Become
<1>8. ASSUME Save(t) PROVE Safe
  <2>1. JobInv'
    BY <1>6, <1>7, <1>8 DEF Save
  <2> QED BY <1>2, <1>8, <2>1 DEF Save, DataInv
<1>9. ASSUME SaveFails(t) PROVE Safe
  <2>1. JobInv'
    BY <1>6, <1>7, <1>9 DEF SaveFails
  <2> QED BY <1>9, <2>1 DEF SaveFails, DataInv
<1> QED BY <1>4, <1>5, <1>8, <1>9

\* Running the step and committing what came of it: the rest of
\* process_advance.
LEMMA AttemptSafe ==
    ASSUME ConfigAssumption, DataInv, JobInv, NEW t \in Threads,
           Run(t) \/ Decline(t) \/ RecordRevalidation(t) \/ Return(t) \/ CommitOutcome(t)
    PROVE  Safe
<1> USE DEF Safe, Final
<1> DEFINE j == job[t]
           s == j.step
<1>1. j \in Job /\ JobAgrees(j)
  BY DEF JobInv
<1>2. /\ j.view \in Execution /\ j.goal \in Execution
      /\ s \in Steps \cup {NoStep}
  BY <1>1 DEF Job
<1>3. ASSUME ChargeElapsed PROVE allowance' \in Allowance
  <2>1. PICK late \in BOOLEAN :
           allowance' = [allowance EXCEPT !.late = @ \/ (allowance.granted /\ late)]
    BY <1>3 DEF ChargeElapsed
  <2> DEFINE spent == allowance.late \/ (allowance.granted /\ late)
  <2>2. spent \in BOOLEAN /\ allowance \in Allowance
    BY DEF DataInv, Allowance
  <2>3. allowance' = [allowance EXCEPT !.late = spent]
    BY <2>1 DEF DataInv, Allowance
  <2> HIDE DEF spent
  <2> QED BY <2>2, <2>3 DEF Allowance
<1>4. ASSUME At(t, "run") \/ At(t, "provider")
      PROVE  s \in Steps /\ MakesAttempt(j) /\ j.goal.status = "running"
  BY <1>1, <1>4 DEF At, JobAgrees, MakesAttempt
<1>5. ASSUME NEW goal \in Execution, Outcome(t, goal), exec' = exec, restored' = restored,
             At(t, "run") \/ At(t, "provider")
      PROVE  JobInv'
  <2> DEFINE k == [j EXCEPT !.pc = "outcome", !.view = j.goal, !.goal = goal]
  <2>1. k \in Job /\ k.pc = "outcome" /\ k.view = j.goal /\ k.step = s
    BY <1>1, <1>2 DEF Job, PC
  <2>2. job' = [job EXCEPT ![t] = k]
    BY <1>5 DEF Outcome, Become
  <2> HIDE DEF k
  <2>3. JobAgrees(k) /\ ~Rebinds(k)
    BY <1>4, <1>5, <2>1 DEF JobAgrees, MakesAttempt, Decides, Writing, Rebinds
  <2> QED BY <1>4, <1>5, <2>1, <2>2, <2>3, LocalStep DEF Unrebound
<1>6. ASSUME Run(t) PROVE Safe
  <2> DEFINE k == [j EXCEPT !.pc = "provider"]
  <2>1. k \in Job /\ k.pc = "provider" /\ k.view = j.view /\ k.goal = j.goal /\ k.step = s
    BY <1>1 DEF Job, PC
  <2>2. job' = [job EXCEPT ![t] = k]
    BY <1>6 DEF Run, Goto, Become
  <2>3. MakesAttempt(j) /\ j.pc # "outcome" /\ s \in Steps
    BY <1>4, <1>6 DEF Run, At
  <2> HIDE DEF k
  <2>4. JobAgrees(k) /\ ~Rebinds(k)
    BY <1>1, <2>1, <2>3 DEF JobAgrees, MakesAttempt, Decides, Writing, Rebinds
  <2>5. JobInv'
    BY <1>6, <2>1, <2>2, <2>3, <2>4, LocalStep DEF Unrebound, Run
  <2>6. calls' \in Calls
    <3>1. Cost(s) \in Nat
      BY DEF Cost
    <3> HIDE DEF s
    <3>2. calls.of \cup {s} \in SUBSET Steps /\ calls.made + 1 \in Nat /\ calls.network + Cost(s) \in Nat
      BY <2>3, <3>1 DEF DataInv, Calls, s
    <3>3. calls' = [calls EXCEPT !.of = calls.of \cup {s}, !.made = calls.made + 1,
                                 !.network = calls.network + Cost(s)]
      BY <1>6 DEF Run, DataInv, Calls, s
    <3> QED BY <3>2, <3>3 DEF DataInv, Calls
  <2> QED BY <1>6, <2>5, <2>6 DEF Run, DataInv
<1>7. ASSUME Decline(t) PROVE Safe
  <2>1. At(t, "run")
    BY <1>7 DEF Decline
  <2>2. BlockStep(j.goal, s) \in Execution
    BY <1>2, <1>4, <2>1, OutcomeType
  <2>3. JobInv'
    BY <1>5, <1>7, <2>2 DEF Decline
  <2> QED BY <1>3, <1>7, <2>3 DEF Decline, DataInv
<1>8. ASSUME RecordRevalidation(t) PROVE Safe
  <2>1. s \in Steps
    BY <1>4, <1>8 DEF RecordRevalidation
  <2>2. JobInv'
    BY <1>8 DEF RecordRevalidation, JobInv, Together, OneAttempt, Attempting, RebindsFirst, At
  <2> QED BY <1>8, <2>1, <2>2 DEF RecordRevalidation, DataInv
<1>9. ASSUME Return(t) PROVE Safe
  <2>1. At(t, "provider")
    BY <1>9 DEF Return
  <2>2. \A goal \in {FailStep(j.goal, s, FALSE), FailStep(j.goal, s, TRUE),
                     BlockStep(j.goal, s), CompleteStep(j.goal, s)} : goal \in Execution
    BY <1>2, <1>4, <2>1, OutcomeType
  <2>3. JobInv'
    BY <1>5, <1>9, <2>1, <2>2 DEF Return
  <2> QED BY <1>3, <1>9, <2>3 DEF Return, DataInv
<1>10. ASSUME CommitOutcome(t) PROVE Safe
  <2> DEFINE k == [j EXCEPT !.pc = "capture", !.purpose = "report"]
  <2>1. k \in Job /\ JobAgrees(k) /\ ~MakesAttempt(k) /\ ~Rebinds(k)
    BY <1>1, ReportLocals
  <2>2. job' = [job EXCEPT ![t] = k] /\ exec' = Committed(j.view, j.goal)
    BY <1>10 DEF CommitOutcome, Persist, Become
  <2> HIDE DEF k
  <2>3. /\ j.view.status = "running" /\ ~IsTerminal(j.view)
        /\ exec' = exec \/ exec # Absent
        /\ restored' = restored
    BY <1>1, <1>10, <2>2
       DEF CommitOutcome, At, JobAgrees, MakesAttempt, IsTerminal, Terminal, Committed, Absent
  <2>4. JobInv'
    <3>1. CASE j.pc = "outcome"
      BY <2>1, <2>2, <2>3, <3>1, AttemptEnds DEF Unrebound, MakesAttempt
    <3>2. CASE j.pc = "commit"
      <4>1. Running(j.goal) = Running(j.view)
        BY <1>1, <3>2 DEF JobAgrees
      <4>2. ShowsAttempt(exec) => ShowsAttempt(exec')
        BY <1>2, <2>2, <2>3, <4>1, CommitShows DEF DataInv
      <4> QED BY <2>1, <2>2, <2>3, <4>2, LocalStep DEF Unrebound
    <3> QED BY <1>10, <3>1, <3>2 DEF CommitOutcome, At
  <2>5. exec' \in Execution /\ (IsTerminal(exec) => exec' = exec)
    BY <1>2, <2>2, <2>3 DEF Committed, DataInv
  <2> QED BY <1>10, <2>4, <2>5 DEF CommitOutcome, DataInv
<1> QED BY <1>6, <1>7, <1>8, <1>9, <1>10

\* An operator's decision and its rollback, and a cancellation.
LEMMA DecisionSafe ==
    ASSUME ConfigAssumption, DataInv, JobInv, NEW t \in Threads,
           CancelExecution(t) \/ CommitRuling(t) \/ Unrule(t)
    PROVE  Safe
<1> USE DEF Safe, Final
<1> DEFINE j == job[t]
           s == j.step
<1>1. j \in Job /\ JobAgrees(j)
  BY DEF JobInv
<1>2. j.view \in Execution /\ j.goal \in Execution
  BY <1>1 DEF Job
<1>3. ASSUME j.pc \in {"ruling", "unrule"}
      PROVE  /\ s \in Steps
             /\ ~IsTerminal(j.view) /\ ~IsTerminal(j.goal) /\ Running(j.goal) = Running(j.view)
             /\ j.view.status # "absent" /\ j.goal.status # "absent"
  BY <1>1, <1>3 DEF JobAgrees, Decides
<1>4. ASSUME CancelExecution(t) PROVE Safe
  <2>1. exec' \in Execution /\ IsTerminal(exec') /\ ~IsTerminal(exec) /\ exec # Absent
    BY <1>4, CancelType DEF CancelExecution, CanCancel, DataInv, Absent
  <2>2. JobInv'
    BY <1>1, <1>4, <2>1, ReportLocals, LocalStep
       DEF Unrebound, CancelExecution, Persist, Become, ShowsAttempt
  <2> QED BY <1>4, <2>1, <2>2 DEF CancelExecution, DataInv
<1>5. ASSUME CommitRuling(t) PROVE Safe
  <2>1. /\ s \in Steps /\ ~IsTerminal(j.view) /\ ~IsTerminal(j.goal)
        /\ j.view.status # "absent" /\ j.goal.status # "absent"
        /\ Running(j.goal) = Running(j.view) /\ exec' = Committed(j.view, j.goal)
    BY <1>3, <1>5 DEF CommitRuling, At
  <2>2. /\ exec' \in Execution /\ (ShowsAttempt(exec) => ShowsAttempt(exec'))
        /\ (IsTerminal(exec) => exec' = exec)
        /\ Unrebound
    BY <1>2, <1>5, <2>1, CommitShows DEF DataInv, Unrebound, CommitRuling
  <2>3. JobInv'
    <3>1. CASE Persist(t, "decision")
      <4> DEFINE k == [j EXCEPT !.pc = "capture", !.purpose = "decision"]
      <4>1. /\ k \in Job /\ k.pc = "capture" /\ k.purpose = "decision"
            /\ k.view = j.view /\ k.goal = j.goal /\ k.step = s
        BY <1>1 DEF Job, PC, Purpose
      <4>2. job' = [job EXCEPT ![t] = k]
        BY <3>1 DEF Persist, Become
      <4> HIDE DEF k
      <4>3. JobAgrees(k) /\ ~MakesAttempt(k) /\ ~Rebinds(k)
        BY <2>1, <4>1 DEF JobAgrees, MakesAttempt, Decides, Writing, Rebinds
      <4> QED BY <2>2, <4>1, <4>2, <4>3, LocalStep
    <3>2. CASE Finish(t)
      BY <2>2, <3>2, IdleLocals, LocalStep DEF Finish, Become
    <3> QED BY <1>5, <3>1, <3>2 DEF CommitRuling
  <2>4. licensed' \in SUBSET Steps
    BY <1>5, <2>1 DEF CommitRuling, DataInv
  <2> QED BY <1>5, <2>2, <2>3, <2>4 DEF CommitRuling, DataInv
<1>6. ASSUME Unrule(t) PROVE Safe
  <2>1. /\ s \in Steps /\ ~IsTerminal(j.view) /\ ~IsTerminal(j.goal)
        /\ j.view.status # "absent" /\ j.goal.status # "absent"
        /\ Running(j.goal) = Running(j.view) /\ exec' = Committed(j.goal, j.view)
    BY <1>3, <1>6 DEF Unrule, At
  <2>2. /\ exec' \in Execution /\ (ShowsAttempt(exec) => ShowsAttempt(exec'))
        /\ (IsTerminal(exec) => exec' = exec)
        /\ Unrebound
    BY <1>2, <1>6, <2>1, CommitShows DEF DataInv, Unrebound, Unrule
  <2>3. JobInv'
    BY <1>6, <2>2, IdleLocals, LocalStep DEF Unrule, Finish, Become
  <2>4. licensed' \in SUBSET Steps
    BY <1>6, <2>1 DEF Unrule, DataInv
  <2> QED BY <1>6, <2>2, <2>3, <2>4 DEF Unrule, DataInv
<1> QED BY <1>4, <1>5, <1>6

\* A restart: nobody is attempting anything in the new process.
LEMMA CrashSafe ==
    ASSUME ConfigAssumption, DataInv, JobInv, Crash
    PROVE  Safe
<1>1. JobInv'
  <2>1. job' \in [Threads -> Job] /\ \A t \in Threads : job'[t] = IdleJob
    BY IdleLocals DEF Crash
  <2> QED BY <2>1, IdleLocals
          DEF JobInv, Together, OneAttempt, Attempting, OneRebinder, RebindsFirst, Rebinds, At
<1>2. restored' \in Snapshot
  <2>1. Restored(disk.exec) \in Execution /\ disk \in Snapshot
    BY RestartType DEF DataInv, Snapshot
  <2>2. restored' = [disk EXCEPT !.exec = Restored(disk.exec)]
    BY DEF Crash
  <2> QED BY <2>1, <2>2 DEF Snapshot
<1>3. crashes' \in 0..MaxCrashes /\ crashes' > crashes
  BY DEF Crash, DataInv, ConfigAssumption
<1> QED BY <1>1, <1>2, <1>3, StartedType, NothingType DEF Safe, Final, Crash, DataInv

\* Every step, and every stutter, is safe.
LEMMA StepSafe ==
    ASSUME ConfigAssumption, DataInv, JobInv, [Next]_vars
    PROVE  Safe
<1>1. CASE Next
  <2>1. \A t \in Threads : Call(t) => Safe
    BY CallSafe
  <2>2. \A t \in Threads : CancelExecution(t) => Safe
    BY DecisionSafe
  <2>3. ASSUME NEW t \in Threads, Continue(t) PROVE Safe
    BY <2>3, AdvanceSafe, PersistSafe, AttemptSafe, DecisionSafe, RebindSafe DEF Continue
  <2>4. \A t \in Rebinders : BeginRebind(t) => Safe
    BY RebindSafe DEF ConfigAssumption, Threads
  <2> QED BY <1>1, <2>1, <2>2, <2>3, <2>4, CrashSafe DEF Next, Threads
<1>2. CASE UNCHANGED vars
  BY <1>2 DEF vars, Safe, Final, DataInv, JobInv, Together, OneAttempt, Attempting,
              OneRebinder, RebindsFirst, Rebinds, At
<1> QED BY <1>1, <1>2

\* The first state.
LEMMA InitInv ==
    ASSUME ConfigAssumption, Init
    PROVE  DataInv /\ JobInv
<1>1. DataInv
  BY StartedType, NothingType DEF Init, DataInv, ConfigAssumption, Calls, NoCalls
<1>2. JobInv
  <2>1. job \in [Threads -> Job] /\ \A t \in Threads : job[t] = IdleJob
    BY IdleLocals DEF Init
  <2> QED BY <2>1, IdleLocals
          DEF JobInv, Together, OneAttempt, Attempting, RebindsFirst, Rebinds, At
<1> QED BY <1>1, <1>2

-----------------------------------------------------------------------------
\* Whatever the threads do, the types hold and each thread's locals agree.
LEMMA PartsHold == Spec => [](DataInv /\ JobInv)
<1>1. Init => DataInv /\ JobInv
  BY InitInv, ConfigAssumption
<1>2. DataInv /\ JobInv /\ [Next]_vars => DataInv' /\ JobInv'
  BY StepSafe, ConfigAssumption DEF Safe
<1> QED BY <1>1, <1>2, PTL DEF Spec

\* Every state is of the declared types, with any threads.
THEOREM TypeCorrect == Spec => []TypeOK
<1>1. DataInv /\ JobInv => TypeOK
  BY DEF DataInv, JobInv, TypeOK
<1> QED BY <1>1, PartsHold, PTL

\* With any number of threads that advance, cancel and rule, and one that
\* rebinds, the service keeps Inv: its types, what its threads hold in their
\* locals of the live execution, and one attempt at a time.
THEOREM Invariance == OneRebinder => (Spec => []Inv)
<1> SUFFICES ASSUME OneRebinder PROVE Spec => []Inv
  OBVIOUS
<1>1. DataInv /\ JobInv => Inv
  BY InvParts
<1> QED BY <1>1, PartsHold, PTL

\* Whatever the number of threads that advance, cancel and rule, while one of
\* them rebinds, at most one is past the commit of its start and short of its
\* outcome.
THEOREM OneAttemptAtATime == OneRebinder => (Spec => []OneAttempt)
<1> SUFFICES ASSUME OneRebinder PROVE Spec => []OneAttempt
  OBVIOUS
<1>1. DataInv /\ JobInv => OneAttempt
  BY InvParts DEF Inv
<1> QED BY <1>1, PartsHold, PTL

\* An execution that is cancelled, failed or completed never changes again in
\* its process, whatever outcome, rollback or ruling comes late, when one
\* thread rebinds.
THEOREM FinalStaysFinal == OneRebinder => (Spec => TerminalIsFinal)
<1> SUFFICES ASSUME OneRebinder PROVE Spec => TerminalIsFinal
  OBVIOUS
<1>1. DataInv /\ JobInv /\ [Next]_vars
         => [IsTerminal(exec) => exec' = exec \/ crashes' > crashes]_vars
  BY StepSafe, ConfigAssumption DEF Safe, Final
<1> QED BY <1>1, PartsHold, PTL DEF Spec, TerminalIsFinal

-----------------------------------------------------------------------------
(***************************************************************************)
(* Every execution there is, live, recorded, captured or in a caller's     *)
(* hands, is sound, and what it says is completed was run.                 *)
(***************************************************************************)
Kept(e) == Sound(e) /\ Completed(e) \subseteq calls.of

SoundJob(j) ==
    /\ Kept(j.view) /\ Kept(j.goal) /\ Kept(j.doc.exec)
    /\ j.pc = "idle" => j = IdleJob
    /\ j.pc = "allowance" => Interrupted(j.view) = {}
    /\ MakesAttempt(j) /\ j.pc # "outcome" => j.goal.steps[j.step].status = "running"
    /\ j.pc = "provider" => j.step \in calls.of
    /\ j.pc = "rebind" /\ j.step # NoStep =>
          j.step \in calls.of /\ j.doc.exec.steps[j.step].status = "interrupted"

Values ==
    /\ Kept(exec) /\ Kept(disk.exec) /\ Kept(restored.exec)
    /\ recorded \subseteq calls.of
    /\ \A t \in Threads : SoundJob(job[t])

\* Where there is no execution, and where one starts, everything is sound.
LEMMA IdleSound == Kept(Absent) /\ Kept(Started) /\ SoundJob(IdleJob)
BY StartedSound DEF Kept, SoundJob, IdleJob, NoSnapshot, MakesAttempt, Writing

LEMMA InitValues == Init => Values
BY IdleSound DEF Init, Values, NoSnapshot

\* One thread moves on, with nothing called.
LEMMA ValuesLocal ==
    ASSUME Values, JobInv, NEW t \in Threads, NEW k, job' = [job EXCEPT ![t] = k],
           calls' = calls, recorded' = recorded, SoundJob(k),
           exec' = exec \/ Kept(exec'),
           disk' = disk \/ Kept(disk.exec'),
           restored' = restored \/ Kept(restored.exec')
    PROVE  Values'
<1>1. \A u \in Threads : job'[u] = IF u = t THEN k ELSE job[u]
  BY DEF JobInv
<1>2. \A u \in Threads : SoundJob(job'[u])
  BY <1>1 DEF Values
<1>3. \A u \in Threads : SoundJob(job[u])'
  BY <1>2 DEF SoundJob, Kept
<1>4. Kept(exec)' /\ Kept(disk.exec)' /\ Kept(restored.exec)'
  BY DEF Values, Kept
<1> QED BY <1>3, <1>4 DEF Values

\* A start, and a decision read from the live execution.
LEMMA ValuesCall ==
    ASSUME DataInv, JobInv, Values, NEW t \in Threads, Call(t)
    PROVE  Values'
<1>1. /\ Kept(exec) /\ exec \in Execution
      /\ IdleJob \in Job /\ SoundJob(IdleJob) /\ Kept(NoSnapshot.exec)
      /\ IdleJob.view = Absent /\ IdleJob.goal = Absent /\ IdleJob.doc = NoSnapshot
      /\ IdleJob.step = NoStep
  BY IdleLocals, IdleSound, NothingType DEF Values, DataInv, IdleJob
<1>2. CASE Start(t)
  <2>1. job[t] = IdleJob
    BY <1>2 DEF Values, SoundJob, Start, At
  <2> DEFINE k == [IdleJob EXCEPT !.pc = "capture", !.purpose = "report"]
  <2>2. /\ k.view = Absent /\ k.goal = Absent /\ k.doc = NoSnapshot
        /\ k.pc = "capture" /\ k.purpose = "report"
    BY <1>1 DEF Job
  <2>3. job' = [job EXCEPT ![t] = k]
    BY <1>2, <2>1 DEF Start, Persist, Become
  <2> HIDE DEF k
  <2>4. SoundJob(k)
    BY <1>1, <2>2, IdleSound DEF SoundJob, MakesAttempt, Writing
  <2> QED BY <1>2, <2>3, <2>4, IdleSound, ValuesLocal DEF Start
<1>3. CASE BeginAdvance(t)
  <2>1. PICK s \in Steps :
           /\ IsNextPending(exec, s)
           /\ \/ /\ CanBlockStep(exec, s)
                 /\ Become(t, [IdleJob EXCEPT !.pc = "commit", !.step = s, !.view = exec,
                                              !.goal = BlockStep(exec, s)])
              \/ Become(t, [IdleJob EXCEPT !.pc = "allowance", !.step = s, !.view = exec])
    BY <1>3 DEF BeginAdvance
  <2> DEFINE goal == BlockStep(exec, s)
  <2>2. Kept(goal) /\ Interrupted(exec) = {}
    BY <1>1, <1>3, <2>1, BlockStepSound DEF Kept, BeginAdvance, Interrupted, IsNextPending
  <2> HIDE DEF goal
  <2>3. CASE Become(t, [IdleJob EXCEPT !.pc = "commit", !.step = s, !.view = exec, !.goal = goal])
    <3> DEFINE k == [IdleJob EXCEPT !.pc = "commit", !.step = s, !.view = exec, !.goal = goal]
    <3>1. k.view = exec /\ k.goal = goal /\ k.doc = NoSnapshot /\ k.pc = "commit"
      BY <1>1 DEF Job
    <3>2. job' = [job EXCEPT ![t] = k]
      BY <2>3 DEF Become
    <3> HIDE DEF k
    <3>3. SoundJob(k)
      BY <1>1, <2>2, <3>1 DEF SoundJob, MakesAttempt, Writing
    <3> QED BY <1>3, <3>2, <3>3, ValuesLocal DEF BeginAdvance
  <2>4. CASE Become(t, [IdleJob EXCEPT !.pc = "allowance", !.step = s, !.view = exec])
    <3> DEFINE k == [IdleJob EXCEPT !.pc = "allowance", !.step = s, !.view = exec]
    <3>1. k.view = exec /\ k.goal = Absent /\ k.doc = NoSnapshot /\ k.pc = "allowance"
      BY <1>1 DEF Job
    <3>2. job' = [job EXCEPT ![t] = k]
      BY <2>4 DEF Become
    <3> HIDE DEF k
    <3>3. SoundJob(k)
      BY <1>1, <2>2, <3>1, IdleSound DEF SoundJob, MakesAttempt, Writing
    <3> QED BY <1>3, <3>2, <3>3, ValuesLocal DEF BeginAdvance
  <2> QED BY <2>1, <2>3, <2>4 DEF goal
<1>4. ASSUME NEW goal, Kept(goal), NEW s \in Steps, UNCHANGED <<exec, disk, restored, recorded, calls>>,
             Become(t, [IdleJob EXCEPT !.pc = "ruling", !.step = s, !.view = exec, !.goal = goal])
      PROVE  Values'
  <2> DEFINE k == [IdleJob EXCEPT !.pc = "ruling", !.step = s, !.view = exec, !.goal = goal]
  <2>1. k.view = exec /\ k.goal = goal /\ k.doc = NoSnapshot /\ k.pc = "ruling"
    BY <1>1 DEF Job
  <2>2. job' = [job EXCEPT ![t] = k]
    BY <1>4 DEF Become
  <2> HIDE DEF k
  <2>3. SoundJob(k)
    BY <1>1, <1>4, <2>1 DEF SoundJob, MakesAttempt, Writing
  <2> QED BY <1>4, <2>2, <2>3, ValuesLocal
<1>5. CASE BeginResolve(t)
  <2>1. PICK s \in Steps, ruling \in Resolution \ {"none"} :
           /\ CanResolve(exec, s)
           /\ Become(t, [IdleJob EXCEPT !.pc = "ruling", !.step = s, !.view = exec,
                                        !.goal = ResolveInterrupted(exec, s, ruling)])
    BY <1>5 DEF BeginResolve
  <2>2. Kept(ResolveInterrupted(exec, s, ruling))
    BY <1>1, <2>1, ResolveSound DEF Kept
  <2> QED BY <1>4, <1>5, <2>1, <2>2 DEF BeginResolve
<1>6. CASE BeginRecover(t)
  <2>1. PICK s \in Steps, decision \in Recovery \ {"none"} :
           /\ CanRecover(exec, s)
           /\ Become(t, [IdleJob EXCEPT !.pc = "ruling", !.step = s, !.view = exec,
                                        !.goal = RecoverBlocked(exec, s, decision)])
    BY <1>6 DEF BeginRecover
  <2>2. Kept(RecoverBlocked(exec, s, decision))
    BY <1>1, <2>1, RecoverSound DEF Kept
  <2> QED BY <1>4, <1>6, <2>1, <2>2 DEF BeginRecover
<1> QED BY <1>2, <1>3, <1>5, <1>6 DEF Call

\* A rebind starts from the restored entry, which is sound, and what it takes
\* from the run store was called.
LEMMA ValuesRebind ==
    ASSUME DataInv, JobInv, Values, NEW t \in Threads, BeginRebind(t) \/ RebindExecution(t)
    PROVE  Values'
<1> DEFINE j == job[t]
<1>1. /\ j \in Job /\ JobAgrees(j) /\ SoundJob(j) /\ Kept(restored.exec)
      /\ IdleJob \in Job /\ SoundJob(IdleJob) /\ IdleJob.step = NoStep
      /\ IdleJob.view = Absent /\ IdleJob.goal = Absent /\ Kept(Absent)
  BY IdleLocals, IdleSound DEF JobInv, Values, IdleJob
<1>2. CASE BeginRebind(t)
  <2>1. ASSUME NEW s \in Steps \cup {NoStep}, s # NoStep => RecordProves(restored.exec, s),
               Become(t, [IdleJob EXCEPT !.pc = "rebind", !.doc = restored, !.step = s])
        PROVE  Values'
    <3> DEFINE k == [IdleJob EXCEPT !.pc = "rebind", !.doc = restored, !.step = s]
    <3>1. /\ k.view = Absent /\ k.goal = Absent /\ k.doc = restored
          /\ k.pc = "rebind" /\ k.step = s
      BY <1>1 DEF Job
    <3>2. job' = [job EXCEPT ![t] = k]
      BY <2>1 DEF Become
    <3> HIDE DEF k
    <3>3. SoundJob(k)
      BY <1>1, <2>1, <3>1 DEF SoundJob, MakesAttempt, Writing, RecordProves, Values
    <3> QED BY <1>2, <3>2, <3>3, ValuesLocal DEF BeginRebind
  <2>2. [IdleJob EXCEPT !.pc = "rebind", !.doc = restored]
           = [IdleJob EXCEPT !.pc = "rebind", !.doc = restored, !.step = NoStep]
    BY <1>1 DEF Job
  <2> QED BY <1>2, <2>1, <2>2 DEF BeginRebind
<1>3. CASE RebindExecution(t)
  <2> DEFINE e == j.doc.exec
             k == [j EXCEPT !.pc = "rebindAllowance"]
  <2>1. /\ e \in Execution /\ Kept(e) /\ Resumable(e) /\ Rebound(e) \in Execution
        /\ j.pc = "rebind"
    BY <1>1, <1>3, RestartType DEF Job, Snapshot, SoundJob, JobAgrees, Rebinds, RebindExecution, At
  <2>2. Kept(Rebound(e))
    BY <2>1, ReboundSound DEF Kept
  <2>3. ASSUME j.step # NoStep PROVE Kept(CompleteFromRecord(Rebound(e), j.step))
    <3>1. j.step \in Steps /\ j.step \in calls.of /\ e.steps[j.step].status = "interrupted"
      BY <1>1, <2>1, <2>3 DEF SoundJob, DataInv, Calls
    <3>2. Rebound(e).steps[j.step].status = "interrupted"
      BY <2>1, <3>1, ReboundSound DEF Kept
    <3> QED BY <2>1, <2>2, <3>1, <3>2, CompleteFromRecordSound DEF Kept
  <2>4. Kept(exec')
    BY <1>3, <2>2, <2>3 DEF RebindExecution
  <2>5. /\ k.view = j.view /\ k.goal = j.goal /\ k.doc = j.doc
        /\ k.pc = "rebindAllowance"
    BY <1>1 DEF Job
  <2>6. job' = [job EXCEPT ![t] = k]
    BY <1>3 DEF RebindExecution, Goto, Become
  <2> HIDE DEF k
  <2>7. SoundJob(k)
    BY <1>1, <2>5 DEF SoundJob, MakesAttempt, Writing
  <2> QED BY <1>3, <2>4, <2>6, <2>7, ValuesLocal DEF RebindExecution
<1> QED BY <1>2, <1>3

\* The steps of an advance up to its checkpoint, and back.
LEMMA ValuesAdvance ==
    ASSUME DataInv, JobInv, Values, NEW t \in Threads,
           CheckAllowance(t) \/ Charge(t) \/ CommitStart(t) \/ Refund(t)
              \/ Withdraw(t) \/ Uncharge(t)
    PROVE  Values'
<1> DEFINE j == job[t]
           s == j.step
<1>1. j \in Job /\ JobAgrees(j) /\ SoundJob(j) /\ Kept(exec) /\ exec \in Execution
  BY DEF JobInv, DataInv, Values
<1>2. j.view \in Execution /\ j.goal \in Execution
  BY <1>1 DEF Job
<1>3. Kept(j.view) /\ Kept(j.goal) /\ Kept(j.doc.exec)
  BY <1>1 DEF SoundJob
<1>4. ASSUME Finish(t), UNCHANGED <<disk, restored, recorded, calls>>, exec' = exec \/ Kept(exec')
      PROVE  Values'
  BY <1>4, IdleSound, ValuesLocal DEF Finish, Become
<1>5. ASSUME NEW pc \in {"start", "refund", "uncharge", "withdraw", "capture"}, NEW purpose,
             pc = "capture" /\ purpose = "checkpoint" => j.goal.steps[s].status = "running",
             pc # "withdraw",
             NEW k, k = [j EXCEPT !.pc = pc, !.purpose = purpose], job' = [job EXCEPT ![t] = k],
             UNCHANGED <<disk, restored, recorded, calls>>, exec' = exec \/ Kept(exec')
      PROVE  Values'
  <2>1. /\ k.view = j.view /\ k.goal = j.goal /\ k.step = s /\ k.doc = j.doc
        /\ k.pc = pc /\ k.purpose = purpose
    BY <1>1, <1>5 DEF Job
  <2>2. SoundJob(k)
    BY <1>3, <1>5, <2>1 DEF SoundJob, MakesAttempt, Writing
  <2> QED BY <1>5, <2>2, ValuesLocal
<1>6. CASE CheckAllowance(t)
  <2>1. s \in Steps /\ IsNextPending(j.view, s) /\ Interrupted(j.view) = {}
    BY <1>1, <1>6 DEF CheckAllowance, At, JobAgrees, SoundJob
  <2>2. ASSUME NEW pc \in {"commit", "charge", "start"}, NEW goal, Kept(goal), NEW budget,
               NEW k, k = [j EXCEPT !.pc = pc, !.goal = goal, !.budget = budget],
               job' = [job EXCEPT ![t] = k]
        PROVE  Values'
    <3>1. k.view = j.view /\ k.goal = goal /\ k.doc = j.doc /\ k.pc = pc
      BY <1>1, <2>2 DEF Job
    <3>2. SoundJob(k)
      BY <1>3, <2>2, <3>1 DEF SoundJob, MakesAttempt, Writing
    <3> QED BY <1>6, <2>2, <3>2, ValuesLocal DEF CheckAllowance
  <2>3. ASSUME NEW goal, Kept(goal), Become(t, [j EXCEPT !.pc = "commit", !.goal = goal])
        PROVE  Values'
    <3>1. [j EXCEPT !.pc = "commit", !.goal = goal]
             = [j EXCEPT !.pc = "commit", !.goal = goal, !.budget = j.budget]
      BY <1>1 DEF Job
    <3> QED BY <2>2, <2>3, <3>1 DEF Become
  <2>4. Running(j.view) = {} /\ j.view.status = "running" =>
           /\ j.view.refusal = NoStep => Kept(RequireAuthority(j.view, s))
           /\ j.view.pause = NoStep => Kept(RefuseAdvance(j.view, s))
    BY <1>2, <1>3, <2>1, NoteSound DEF Kept, Completed, InStatus
  <2>5. CanStartStep(j.view, s) => Kept(StartStep(j.view, s))
    BY <1>2, <1>3, <2>1, StartStepSound DEF Kept
  <2>6. CASE /\ CanStartStep(j.view, s)
             /\ \E pc \in {"charge", "start"} :
                   Become(t, [j EXCEPT !.pc = pc, !.goal = StartStep(j.view, s), !.budget = allowance])
    <3>1. PICK pc \in {"charge", "start"} :
             Become(t, [j EXCEPT !.pc = pc, !.goal = StartStep(j.view, s), !.budget = allowance])
      BY <2>6
    <3> DEFINE k == [j EXCEPT !.pc = pc, !.goal = StartStep(j.view, s), !.budget = allowance]
    <3>2. job' = [job EXCEPT ![t] = k] /\ Kept(StartStep(j.view, s))
      BY <2>5, <2>6, <3>1 DEF Become
    <3> QED BY ONLY <2>2, <3>2
  <2>7. CASE Finish(t)
    BY <1>4, <1>6, <2>7 DEF CheckAllowance
  <2>8. CASE /\ Running(j.view) = {} /\ CanRequireAuthority(j.view, s)
             /\ Become(t, [j EXCEPT !.pc = "commit", !.goal = RequireAuthority(j.view, s)])
    BY <2>3, <2>4, <2>8 DEF CanRequireAuthority
  <2>9. CASE /\ Running(j.view) = {} /\ CanRefuseAdvance(j.view, s)
             /\ Become(t, [j EXCEPT !.pc = "commit", !.goal = RefuseAdvance(j.view, s)])
    BY <2>3, <2>4, <2>9 DEF CanRefuseAdvance
  <2> QED BY <1>6, <2>6, <2>7, <2>8, <2>9 DEF CheckAllowance
<1>7. ASSUME NEW pc \in {"start", "refund", "uncharge"}, Goto(t, pc),
             UNCHANGED <<disk, restored, recorded, calls>>, exec' = exec \/ Kept(exec')
      PROVE  Values'
  <2>1. [j EXCEPT !.pc = pc] = [j EXCEPT !.pc = pc, !.purpose = j.purpose]
    BY <1>1 DEF Job
  <2> QED BY <1>5, <1>7, <2>1 DEF Goto, Become
<1>8. CASE Charge(t)
  BY <1>7, <1>8 DEF Charge
<1>9. CASE CommitStart(t)
  <2>1. CanStartStep(j.view, s) /\ j.goal = StartStep(j.view, s) /\ s \in Steps
    BY <1>1, <1>9 DEF CommitStart, At, JobAgrees
  <2>2. j.goal.steps[s].status = "running"
    BY <1>2, <1>3, <2>1, StartStepSound DEF Kept
  <2>3. exec' = exec \/ Kept(exec')
    BY <1>3, <1>9 DEF CommitStart, Committed
  <2>4. CASE Persist(t, "checkpoint")
    BY <1>5, <1>9, <2>2, <2>3, <2>4 DEF CommitStart, Persist, Become
  <2>5. CASE Goto(t, "refund")
    BY <1>7, <1>9, <2>3, <2>5 DEF CommitStart
  <2> QED BY <1>9, <2>4, <2>5 DEF CommitStart
<1>10. CASE Refund(t)
  BY <1>5, <1>10 DEF Refund, Persist, Become
<1>11. CASE Withdraw(t)
  <2>1. exec' = exec \/ Kept(exec')
    BY <1>3, <1>11 DEF Withdraw, Committed
  <2> QED BY <1>7, <1>11, <2>1 DEF Withdraw
<1>12. CASE Uncharge(t)
  BY <1>4, <1>12 DEF Uncharge
<1> QED BY <1>6, <1>8, <1>9, <1>10, <1>11, <1>12

\* A document is what stood when it was captured.
LEMMA ValuesPersist ==
    ASSUME DataInv, JobInv, Values, NEW t \in Threads,
           Capture(t) \/ CaptureAllowance(t) \/ Save(t) \/ SaveFails(t)
    PROVE  Values'
<1> DEFINE j == job[t]
<1>1. j \in Job /\ SoundJob(j) /\ Kept(exec) /\ Kept(j.doc.exec) /\ j.doc \in Snapshot
  BY DEF JobInv, Values, SoundJob, Job
<1>2. ASSUME Finish(t), UNCHANGED <<exec, restored, recorded, calls>>, disk' = disk \/ disk' = j.doc
      PROVE  Values'
  BY <1>1, <1>2, IdleSound, ValuesLocal DEF Finish, Become
<1>3. ASSUME NEW k, k.view = j.view, k.goal = j.goal, k.step = j.step, k.purpose = j.purpose,
             Kept(k.doc.exec), k.pc \in {"captureAllowance", "save", "run", "withdraw", "unrule"},
             k.pc \in {"run", "withdraw"} => j.purpose = "checkpoint", j.pc \in Writing,
             job' = [job EXCEPT ![t] = k],
             UNCHANGED <<exec, restored, recorded, calls>>, disk' = disk \/ disk' = j.doc
      PROVE  Values'
  <2>1. SoundJob(k)
    BY <1>1, <1>3 DEF SoundJob, MakesAttempt, Writing
  <2> QED BY <1>1, <1>3, <2>1, ValuesLocal
<1>4. CASE Capture(t)
  <2> DEFINE k == [j EXCEPT !.pc = "captureAllowance", !.doc = [j.doc EXCEPT !.exec = exec]]
  <2>1. k = [j EXCEPT !.pc = "captureAllowance", !.doc.exec = exec]
    BY <1>1 DEF Job
  <2>2. /\ k.view = j.view /\ k.goal = j.goal /\ k.step = j.step /\ k.purpose = j.purpose
        /\ k.doc.exec = exec /\ k.pc = "captureAllowance"
    BY <1>1 DEF Job, Snapshot
  <2>3. job' = [job EXCEPT ![t] = k] /\ j.pc = "capture"
    BY <1>4, <2>1 DEF Capture, Become, At
  <2> HIDE DEF k
  <2> QED BY <1>1, <1>3, <1>4, <2>2, <2>3 DEF Capture, Writing
<1>5. CASE CaptureAllowance(t)
  <2> DEFINE k == [j EXCEPT !.pc = "save", !.doc = [j.doc EXCEPT !.allowance = allowance]]
  <2>1. k = [j EXCEPT !.pc = "save", !.doc.allowance = allowance]
    BY <1>1 DEF Job
  <2>2. /\ k.view = j.view /\ k.goal = j.goal /\ k.step = j.step /\ k.purpose = j.purpose
        /\ k.doc.exec = j.doc.exec /\ k.pc = "save"
    BY <1>1 DEF Job, Snapshot
  <2>3. job' = [job EXCEPT ![t] = k] /\ j.pc = "captureAllowance"
    BY <1>5, <2>1 DEF CaptureAllowance, Become, At
  <2> HIDE DEF k
  <2> QED BY <1>1, <1>3, <1>5, <2>2, <2>3 DEF CaptureAllowance, Writing
<1>6. ASSUME NEW pc \in {"run", "withdraw", "unrule"}, Goto(t, pc), j.pc = "save",
             pc # "unrule" => j.purpose = "checkpoint",
             UNCHANGED <<exec, restored, recorded, calls>>, disk' = disk \/ disk' = j.doc
      PROVE  Values'
  <2> DEFINE k == [j EXCEPT !.pc = pc]
  <2>1. /\ k.view = j.view /\ k.goal = j.goal /\ k.step = j.step /\ k.purpose = j.purpose
        /\ k.doc = j.doc /\ k.pc = pc
    BY <1>1 DEF Job
  <2>2. job' = [job EXCEPT ![t] = k]
    BY <1>6 DEF Goto, Become
  <2> HIDE DEF k
  <2> QED BY <1>1, <1>3, <1>6, <2>1, <2>2 DEF Writing
<1>7. CASE Save(t)
  BY <1>2, <1>6, <1>7 DEF Save, At
<1>8. CASE SaveFails(t)
  BY <1>2, <1>6, <1>8 DEF SaveFails, At
<1> QED BY <1>4, <1>5, <1>7, <1>8

\* Only what was called is completed.
LEMMA ValuesAttempt ==
    ASSUME DataInv, JobInv, Values, NEW t \in Threads,
           Run(t) \/ Decline(t) \/ RecordRevalidation(t) \/ Return(t) \/ CommitOutcome(t)
    PROVE  Values'
<1> DEFINE j == job[t]
           s == j.step
<1>1. j \in Job /\ JobAgrees(j) /\ SoundJob(j) /\ Kept(exec) /\ exec \in Execution
  BY DEF JobInv, DataInv, Values
<1>2. j.goal \in Execution
  BY <1>1 DEF Job
<1>3. Kept(j.view) /\ Kept(j.goal) /\ Kept(j.doc.exec)
  BY <1>1 DEF SoundJob
<1>4. At(t, "run") \/ At(t, "provider") =>
        s \in Steps /\ j.goal.status = "running" /\ j.goal.steps[s].status = "running"
  BY <1>1 DEF At, JobAgrees, MakesAttempt, SoundJob
<1>5. ASSUME NEW goal, Kept(goal), Outcome(t, goal), UNCHANGED <<exec, disk, restored, recorded, calls>>
      PROVE  Values'
  <2> DEFINE k == [j EXCEPT !.pc = "outcome", !.view = j.goal, !.goal = goal]
  <2>1. k.view = j.goal /\ k.goal = goal /\ k.doc = j.doc /\ k.pc = "outcome"
    BY <1>1 DEF Job
  <2>2. job' = [job EXCEPT ![t] = k]
    BY <1>5 DEF Outcome, Become
  <2> HIDE DEF k
  <2>3. SoundJob(k)
    BY <1>3, <1>5, <2>1 DEF SoundJob, MakesAttempt, Writing
  <2> QED BY <1>5, <2>2, <2>3, ValuesLocal
<1>6. CASE Run(t)
  <2> DEFINE k == [j EXCEPT !.pc = "provider"]
  <2>1. k.view = j.view /\ k.goal = j.goal /\ k.doc = j.doc /\ k.pc = "provider" /\ k.step = s
    BY <1>1 DEF Job
  <2>2. \A u \in Threads : job'[u] = IF u = t THEN k ELSE job[u]
    BY <1>6 DEF Run, Goto, Become, JobInv
  <2>3. calls'.of = calls.of \cup {s} /\ UNCHANGED <<exec, disk, restored, recorded>>
    BY <1>6 DEF Run, DataInv, Calls
  <2> HIDE DEF k
  <2>4. \A e : Kept(e) => Sound(e) /\ Completed(e) \subseteq calls'.of
    BY <2>3 DEF Kept
  <2>5. Kept(exec)' /\ Kept(disk.exec)' /\ Kept(restored.exec)'
    BY <2>3, <2>4 DEF Values, Kept
  <2>6. \A u \in Threads \ {t} : SoundJob(job[u])'
    <3> SUFFICES ASSUME NEW u \in Threads \ {t} PROVE SoundJob(job[u])'
      OBVIOUS
    <3>1. job'[u] = job[u] /\ SoundJob(job[u])
      BY <2>2 DEF Values
    <3> QED BY <2>3, <2>4, <3>1 DEF SoundJob, Kept
  <2>7. SoundJob(job[t])'
    <3>1. job'[t] = k /\ At(t, "run")
      BY <1>6, <2>2 DEF Run
    <3>2. /\ k.pc # "idle" /\ k.pc # "allowance"
          /\ k.goal.steps[k.step].status = "running" /\ k.step \in calls'.of
      BY <1>4, <2>1, <2>3, <3>1
    <3> QED BY <1>3, <2>1, <2>4, <3>1, <3>2 DEF SoundJob, Kept
  <2> QED BY <2>3, <2>5, <2>6, <2>7 DEF Values
<1>7. CASE Decline(t)
  <2>1. Kept(BlockStep(j.goal, s))
    BY <1>2, <1>3, <1>4, <1>7, BlockStepSound DEF Decline, Kept
  <2> QED BY <1>5, <1>7, <2>1 DEF Decline
<1>8. CASE RecordRevalidation(t)
  <2>1. s \in calls.of /\ recorded' = recorded \cup {s} /\ UNCHANGED <<exec, disk, restored, calls, job>>
    BY <1>1, <1>8 DEF RecordRevalidation, SoundJob, At
  <2> QED BY <2>1 DEF Values, SoundJob, Kept
<1>9. CASE Return(t)
  <2>1. At(t, "provider") /\ s \in calls.of
    BY <1>1, <1>9 DEF Return, SoundJob, At
  <2>2. Kept(BlockStep(j.goal, s)) /\ Kept(CompleteStep(j.goal, s))
    BY <1>2, <1>3, <1>4, <2>1, BlockStepSound, CompleteStepSound DEF Kept
  <2>3. \A work \in BOOLEAN : Kept(FailStep(j.goal, s, work))
    BY <1>2, <1>3, <1>4, <2>1, FailStepSound DEF Kept
  <2> QED BY <1>5, <1>9, <2>2, <2>3 DEF Return
<1>10. CASE CommitOutcome(t)
  <2> DEFINE k == [j EXCEPT !.pc = "capture", !.purpose = "report"]
  <2>1. /\ k.view = j.view /\ k.goal = j.goal /\ k.doc = j.doc
        /\ k.pc = "capture" /\ k.purpose = "report"
    BY <1>1 DEF Job
  <2>2. job' = [job EXCEPT ![t] = k]
    BY <1>10 DEF CommitOutcome, Persist, Become
  <2> HIDE DEF k
  <2>3. SoundJob(k)
    BY <1>3, <2>1 DEF SoundJob, MakesAttempt, Writing
  <2> QED BY <1>3, <1>10, <2>2, <2>3, ValuesLocal DEF CommitOutcome, Committed
<1> QED BY <1>6, <1>7, <1>8, <1>9, <1>10

\* Cancellations, rulings and the end of a rebind.
LEMMA ValuesDecision ==
    ASSUME DataInv, JobInv, Values, NEW t \in Threads,
           CancelExecution(t) \/ CommitRuling(t) \/ Unrule(t) \/ RebindAllowance(t)
    PROVE  Values'
<1> DEFINE j == job[t]
<1>1. j \in Job /\ SoundJob(j) /\ Kept(exec) /\ exec \in Execution
  BY DEF JobInv, DataInv, Values
<1>2. Kept(j.view) /\ Kept(j.goal) /\ Kept(j.doc.exec)
  BY <1>1 DEF SoundJob
<1>3. ASSUME NEW purpose \in {"report", "decision"}, Persist(t, purpose),
             UNCHANGED <<disk, recorded, calls>>, exec' = exec \/ Kept(exec'),
             restored' = restored \/ restored' = NoSnapshot
      PROVE  Values'
  <2> DEFINE k == [j EXCEPT !.pc = "capture", !.purpose = purpose]
  <2>1. /\ k.view = j.view /\ k.goal = j.goal /\ k.doc = j.doc
        /\ k.pc = "capture" /\ k.purpose = purpose
    BY <1>1 DEF Job
  <2>2. job' = [job EXCEPT ![t] = k]
    BY <1>3 DEF Persist, Become
  <2> HIDE DEF k
  <2>3. SoundJob(k)
    BY <1>2, <1>3, <2>1 DEF SoundJob, MakesAttempt, Writing
  <2> QED BY <1>3, <2>2, <2>3, IdleSound, NothingType, ValuesLocal
<1>4. ASSUME Finish(t), UNCHANGED <<disk, recorded, calls>>, exec' = exec \/ Kept(exec'),
             restored' = restored \/ restored' = NoSnapshot
      PROVE  Values'
  BY <1>4, IdleSound, NothingType, ValuesLocal DEF Finish, Become
<1>5. CASE CancelExecution(t)
  <2>1. Kept(Cancel(exec))
    BY <1>1, CancelSound DEF Kept
  <2> QED BY <1>3, <1>5, <2>1 DEF CancelExecution
<1>6. CASE CommitRuling(t)
  <2>1. exec' = exec \/ Kept(exec')
    BY <1>2, <1>6 DEF CommitRuling, Committed
  <2> QED BY <1>3, <1>4, <1>6, <2>1 DEF CommitRuling
<1>7. CASE Unrule(t)
  <2>1. exec' = exec \/ Kept(exec')
    BY <1>2, <1>7 DEF Unrule, Committed
  <2> QED BY <1>4, <1>7, <2>1 DEF Unrule
<1>8. CASE RebindAllowance(t)
  BY <1>3, <1>4, <1>8 DEF RebindAllowance
<1> QED BY <1>5, <1>6, <1>7, <1>8

\* What a restart makes of a sound document is sound.
LEMMA ValuesCrash == DataInv /\ Values /\ Crash => Values'
<1> SUFFICES ASSUME DataInv, Values, Crash PROVE Values'
  OBVIOUS
<1>1. disk.exec \in Execution /\ Kept(disk.exec)
  BY DEF DataInv, Snapshot, Values
<1>2. Kept(Restored(disk.exec))
  BY <1>1, RestoredSound DEF Kept
<1>3. restored'.exec = Restored(disk.exec)
  BY DEF Crash, DataInv, Snapshot
<1>4. \A t \in Threads : job'[t] = IdleJob
  BY DEF Crash
<1>5. exec' = Absent /\ UNCHANGED <<disk, recorded, calls>>
  BY DEF Crash
<1> QED BY <1>1, <1>2, <1>3, <1>4, <1>5, IdleSound DEF Values, SoundJob, Kept

LEMMA StepValues == DataInv /\ JobInv /\ Values /\ [Next]_vars => Values'
<1> SUFFICES ASSUME DataInv, JobInv, Values, [Next]_vars PROVE Values'
  OBVIOUS
<1>1. CASE Next
  <2>1. \A t \in Threads : Call(t) \/ CancelExecution(t) \/ BeginRebind(t) => Values'
    BY ValuesCall, ValuesDecision, ValuesRebind
  <2>2. \A t \in Threads : Continue(t) => Values'
    BY ValuesAdvance, ValuesPersist, ValuesAttempt, ValuesDecision, ValuesRebind DEF Continue
  <2>3. Rebinders \subseteq Threads
    BY ConfigAssumption DEF Threads
  <2> QED BY <1>1, <2>1, <2>2, <2>3, ValuesCrash DEF Next, Threads
<1>2. CASE UNCHANGED vars
  BY <1>2 DEF vars, Values, SoundJob, Kept
<1> QED BY <1>1, <1>2

\* Everything that stands for an execution is sound in every reachable state,
\* whatever the threads are, two that rebind included.
THEOREM Soundness == Spec => []Values
<1>1. DataInv /\ JobInv /\ Values /\ [Next]_vars => Values'
  BY StepValues
<1> QED BY <1>1, InitValues, PartsHold, PTL DEF Spec

\* No sequence of calls, commits, failed writes and restarts, of any number of
\* threads, builds a value that the constructor would raise on.
THEOREM AlwaysConstructible == Spec => []Constructible
<1>1. Values => Constructible
  BY DEF Values, Kept, SoundJob, Sound, Constructible
<1> QED BY <1>1, Soundness, PTL

\* A step that is said to be completed, live or on disk, was run.
THEOREM CompletedRan == Spec => []CompletedWasRun
<1>1. Values => CompletedWasRun
  BY DEF Values, Kept, Completed, InStatus, CompletedWasRun
<1> QED BY <1>1, Soundness, PTL

-----------------------------------------------------------------------------
(***************************************************************************)
(* One advancing thread, with any number that only cancel: the desktop.    *)
(* What follows is an invariant of five parts.                             *)
(*                                                                         *)
(*   Control       the thread in charge decided from the execution that    *)
(*                 stands, unless it was cancelled beside it; the others   *)
(*                 are cancelling, or recording that.                      *)
(*   Licences      what may still be attempted, wherever an execution is   *)
(*                 kept, is licensed; what is in doubt is begun on disk.   *)
(*   Budget        an allowance, wherever one is kept, covers the calls    *)
(*                 made, and the one that is coming.                       *)
(*   Metering      the disk knows whether there is an allowance, unless    *)
(*                 nothing was called or nothing is left to try.           *)
(*   Explanations  a refusal goes with an allowance, a pause with none.    *)
(***************************************************************************)
Sole == \A t, u \in Advancers : t = u

\* Where one thread advances, one thread at most rebinds.
LEMMA SoleRebinds == Sole => OneRebinder /\ Rebinders \subseteq Advancers
BY ConfigAssumption DEF Sole, OneRebinder

Shut(e) == e.status = "cancelled"

\* Between the commit of a start and its call; a decision not yet written.
Owes(j) == j.pc = "run" \/ (j.pc \in Writing /\ j.purpose = "checkpoint")
Ruled(j) == j.pc = "unrule" \/ (j.pc \in Writing /\ j.purpose = "decision")
Captured(j) == j.pc \in {"captureAllowance", "save"}

Deciding == {"charge", "start", "commit", "outcome", "ruling"}

InCharge(j, e) ==
    /\ j.pc \notin {"idle", "rebind"} => e.status # "absent"
    /\ j.pc \in Deciding \cup {"allowance"} => e = j.view \/ Shut(e)
    /\ Owes(j) \/ Ruled(j) \/ j.pc \in {"withdraw", "provider"} => e = j.goal \/ Shut(e)
    /\ Captured(j) => (e = j.doc.exec \/ Shut(e)) /\ j.doc.exec.status # "absent"
    /\ j.pc \in Deciding \/ Owes(j) \/ Ruled(j) => j.goal.status # "absent"
    /\ j.pc = "ruling" \/ Ruled(j) => j.view.status \in {"interrupted", "blocked"}
    /\ j.pc \in {"rebind", "rebindAllowance"} => j.view = Absent /\ j.goal = Absent

Bystander(j, e) ==
    /\ j.pc # "idle" => j.pc \in Writing /\ j.purpose = "report" /\ Shut(e)
    /\ Captured(j) => Shut(j.doc.exec)

Control == \A t \in Threads : IF t \in Advancers THEN InCharge(job[t], exec)
                              ELSE Bystander(job[t], exec)

Begun(e, s) == e.steps[s].status \in {"running", "interrupted", "cancelled"}

LicensedJob(j, may, e, live) ==
    /\ j.pc \in Deciding =>
          /\ Untried(j.goal) \subseteq Untried(j.view) \cup (IF j.pc = "ruling" THEN {j.step} ELSE {})
          /\ Interrupted(j.goal) \subseteq Interrupted(j.view)
    /\ j.pc \in {"charge", "start", "withdraw"} \/ Owes(j) =>
          Interrupted(j.view) \subseteq Interrupted(j.goal)
    /\ j.pc = "ruling" \/ Ruled(j) =>
          /\ j.step \notin Untried(j.view)
          /\ j.goal.steps[j.step].status = "pending" => j.view.steps[j.step].status = "interrupted"
    /\ Owes(j) \/ j.pc = "withdraw" => j.step \in may
    /\ Owes(j) \/ Ruled(j) \/ j.pc = "withdraw" => Untried(j.view) \subseteq may
    /\ Captured(j) => Untried(j.doc.exec) \subseteq may
    /\ Captured(j) /\ Owes(j) => j.step \notin Untried(j.doc.exec)
    /\ j.pc = "run" => j.step \notin Untried(e)
    /\ Ruled(j) /\ ~Shut(live) => \A s \in Interrupted(j.view) : Begun(e, s)

\* e is what may go on, and d what the disk has of it.
Licensed(e, d, may) ==
    /\ Untried(e) \subseteq may
    /\ \A s \in Interrupted(e) : Begun(d, s)

Licences ==
    /\ Untried(disk.exec) \subseteq licensed
    /\ exec.status = "absent" => Licensed(restored.exec, disk.exec, licensed)
    /\ exec.status # "absent" => Licensed(exec, disk.exec, licensed)
    /\ \A t \in Advancers : LicensedJob(job[t], licensed, disk.exec, exec)

\* The allowance covers so many calls, and what they drew on the network.
Covers(a, made, network) ==
    IF a.granted
    THEN /\ made <= a.advances /\ a.advances <= MaxAdvances
         /\ network <= a.network /\ a.network <= MaxNetwork
    ELSE a.advances = 0 /\ a.network = 0
Fits(a, c) == Covers(a, c.made, c.network)
FitsOne(a, c, s) == Covers(a, c.made + 1, c.network + Cost(s))

BudgetJob(j, a, c, d) ==
    /\ j.pc = "charge" => j.budget = a /\ a.granted /\ Affords(a, j.step)
    /\ Owes(j) \/ j.pc \in {"start", "refund", "withdraw", "uncharge"} =>
          /\ Fits(j.budget, c)
          /\ j.budget.granted => Affords(j.budget, j.step)
          /\ a = IF j.budget.granted THEN Charged(j.budget, j.step) ELSE j.budget
    /\ j.pc = "run" => FitsOne(d, c, j.step)

Rebinding == \E t \in Advancers : At(t, "rebindAllowance")

Budget ==
    /\ Fits(allowance, calls) /\ Fits(disk.allowance, calls)
    /\ exec.status = "absent" \/ Rebinding => Fits(restored.allowance, calls)
    /\ \A u \in Threads : At(u, "save") =>
          /\ Fits(job[u].doc.allowance, calls)
          /\ \A t \in Advancers :
                Owes(job[t]) => FitsOne(job[u].doc.allowance, calls, job[t].step)
    /\ \A t \in Advancers : BudgetJob(job[t], allowance, calls, disk.allowance)
    /\ disk.exec.status = "absent" => calls = NoCalls

\* Nothing is left to try, live or in a document about to be written.
Late == Shut(exec) /\ \A u \in Threads : Captured(job[u]) => Shut(job[u].doc.exec)

Metering ==
    /\ exec.status = "absent" => restored.allowance = disk.allowance /\ allowance = NoAllowance
    /\ Rebinding => /\ restored.allowance.granted /\ allowance = NoAllowance
                    /\ disk.allowance.granted \/ Shut(exec)
    /\ ~Rebinding /\ exec.status # "absent" =>
          /\ calls.made = 0 \/ Late \/ (disk.allowance.granted <=> allowance.granted)
          /\ \A t \in Advancers : At(t, "run") =>
                Late \/ (disk.allowance.granted <=> allowance.granted)
          /\ \A u \in Threads : At(u, "save") =>
                Late \/ (job[u].doc.allowance.granted <=> allowance.granted)

Explains(e, granted) == (e.refusal # NoStep => granted) /\ (e.pause # NoStep => ~granted)

Explanations ==
    /\ Explains(disk.exec, disk.allowance.granted)
    /\ exec.status = "absent" => Explains(restored.exec, restored.allowance.granted)
    /\ Explains(exec, Rebinding \/ allowance.granted)
    /\ \A t \in Advancers :
          Explains(job[t].view, allowance.granted) /\ Explains(job[t].goal, allowance.granted)
    /\ \A u \in Threads :
          /\ At(u, "captureAllowance") => Explains(job[u].doc.exec, allowance.granted)
          /\ At(u, "save") => Explains(job[u].doc.exec, job[u].doc.allowance.granted)

Solo == Control /\ Licences /\ Budget /\ Metering /\ Explanations

\* What an advancing thread's locals are to the rest of the state.
Advancing(j, e, a, c, d, may) ==
    /\ InCharge(j, e)
    /\ LicensedJob(j, may, d.exec, e)
    /\ BudgetJob(j, a, c, d.allowance)
    /\ Explains(j.view, a.granted) /\ Explains(j.goal, a.granted)

\* An idle thread fits every state.
LEMMA IdleAdvancing ==
    ASSUME NEW e, NEW a, NEW c, NEW d, NEW may
    PROVE  Advancing(IdleJob, e, a, c, d, may) /\ Bystander(IdleJob, e)
BY DEF Advancing, InCharge, LicensedJob, BudgetJob, Explains, Bystander, IdleJob, Owes, Ruled,
       Captured, Deciding, Writing, Absent

\* What a charge for a step makes of an allowance.
LEMMA ChargedFields ==
    ASSUME NEW a \in Allowance, NEW s
    PROVE  /\ Charged(a, s).granted = a.granted /\ Charged(a, s).late = a.late
           /\ Charged(a, s).advances = a.advances + 1
           /\ Charged(a, s).network = a.network + Cost(s)
<1> DEFINE advances == a.advances + 1
           network == a.network + Cost(s)
<1>1. Charged(a, s) = [a EXCEPT !.advances = advances, !.network = network]
  BY DEF Charged, Allowance
<1> HIDE DEF advances, network
<1>2. /\ Charged(a, s).granted = a.granted /\ Charged(a, s).late = a.late
      /\ Charged(a, s).advances = advances /\ Charged(a, s).network = network
  BY <1>1 DEF Allowance
<1> QED BY <1>2 DEF advances, network

\* What was enough for the calls made is, charged for a step it affords,
\* enough for that one too.
LEMMA ChargeCovers ==
    ASSUME ConfigAssumption, NEW a \in Allowance, NEW c \in Calls, NEW s,
           a.granted, Affords(a, s), Fits(a, c)
    PROVE  FitsOne(Charged(a, s), c, s)
<1> DEFINE b == Charged(a, s)
<1>1. Cost(s) \in Nat
  BY DEF Cost
<1>2. b.granted /\ b.advances = a.advances + 1 /\ b.network = a.network + Cost(s)
  BY ChargedFields
<1> HIDE DEF b
<1>3. /\ c.made <= a.advances /\ a.advances < MaxAdvances
      /\ c.network <= a.network /\ a.network + Cost(s) <= MaxNetwork
  BY DEF Fits, Covers, Affords
<1>4. /\ c.made \in Nat /\ c.network \in Nat /\ a.advances \in Nat /\ a.network \in Nat
  BY DEF Calls, Allowance
<1>5. c.made + 1 <= b.advances /\ b.advances <= MaxAdvances
  BY <1>2, <1>3, <1>4 DEF ConfigAssumption
<1>6. c.network + Cost(s) <= b.network /\ b.network <= MaxNetwork
  BY <1>1, <1>2, <1>3, <1>4
<1>7. FitsOne(b, c, s)
  BY <1>2, <1>5, <1>6 DEF FitsOne, Covers
<1> QED BY <1>7 DEF b

\* So a step that is owed is covered.
LEMMA OwedCovered ==
    ASSUME ConfigAssumption, NEW j \in Job, NEW a \in Allowance, NEW c \in Calls, NEW d,
           BudgetJob(j, a, c, d), Owes(j)
    PROVE  FitsOne(a, c, j.step)
<1>1. /\ Fits(j.budget, c)
      /\ j.budget.granted => Affords(j.budget, j.step)
      /\ a = IF j.budget.granted THEN Charged(j.budget, j.step) ELSE j.budget
  BY DEF BudgetJob
<1>2. j.budget \in Allowance
  BY DEF Job
<1>3. CASE j.budget.granted
  BY <1>1, <1>2, <1>3, ChargeCovers
<1>4. CASE ~j.budget.granted
  BY <1>1, <1>4 DEF Fits, FitsOne, Covers
<1> QED BY <1>3, <1>4

\* What covers one call more covers those that were made.
LEMMA OneMoreCovers ==
    ASSUME NEW a \in Allowance, NEW c \in Calls, NEW s, FitsOne(a, c, s)
    PROVE  Fits(a, c)
<1>1. c.made \in Nat /\ c.network \in Nat /\ a.advances \in Nat /\ a.network \in Nat /\ Cost(s) \in Nat
  BY DEF Calls, Allowance, Cost
<1> QED BY <1>1 DEF Fits, FitsOne, Covers

\* The thread in charge moves on, short of a call, a write and a rebind: what
\* the new locals and the new execution have to meet.
LEMMA AnyStep ==
    ASSUME ConfigAssumption, Sole, JobInv, DataInv, Solo, NEW t \in Advancers, NEW k \in Job,
           job' = [job EXCEPT ![t] = k],
           UNCHANGED <<plan, restored, disk, calls>>, Untried(disk.exec) \subseteq licensed',
           allowance' \in Allowance, allowance'.granted = allowance.granted, Fits(allowance', calls),
           exec.status # "absent", exec'.status # "absent", Shut(exec) => exec' = exec,
           ~At(t, "rebindAllowance"), k.pc \notin {"rebindAllowance", "run"},
           Licensed(exec', disk.exec, licensed'), Explains(exec', allowance.granted),
           Advancing(k, exec', allowance', calls, disk, licensed'),
           Owes(k) => ~Shut(exec) \/ (Owes(job[t]) /\ k.step = job[t].step),
           \/ ~Captured(k)
           \/ k.pc = "captureAllowance" /\ k.doc.exec = exec
           \/ /\ k.pc = "save" /\ At(t, "captureAllowance")
              /\ k.doc.exec = job[t].doc.exec /\ k.doc.allowance = allowance
              /\ allowance' = allowance /\ exec' = exec
    PROVE  Solo'
<1>1. /\ \A u \in Threads : job'[u] = IF u = t THEN k ELSE job[u]
      /\ \A u \in Advancers : u = t
      /\ t \in Threads
  BY DEF JobInv, Sole, Threads
<1>2. ~Rebinding /\ ~Rebinding'
  BY <1>1 DEF Rebinding, At
<1>3. Control'
  <2>1. ASSUME NEW u \in Threads, u \notin Advancers PROVE Bystander(job'[u], exec')
    BY <1>1, <2>1 DEF Solo, Control, Bystander
  <2>2. InCharge(job'[t], exec')
    BY <1>1 DEF Advancing
  <2> QED BY <1>1, <2>1, <2>2 DEF Control, Sole, InCharge, Bystander, Shut, Owes, Ruled, Captured
<1>4. Licences'
  BY <1>1 DEF Advancing, Solo, Licences, Licensed, LicensedJob, Begun, Shut, Owes, Ruled, Captured
<1>5. \A s : Cost(s)' = Cost(s)
  BY DEF Cost
<1>6. Budget'
  <2>1. BudgetJob(job[t], allowance, calls, disk.allowance)'
    BY <1>1, <1>5 DEF Advancing, BudgetJob, Fits, FitsOne, Covers, Affords, Charged, Owes
  <2>2. ASSUME NEW u \in Threads, job'[u].pc = "save" PROVE Fits(job'[u].doc.allowance, calls)
    BY <1>1, <2>2 DEF Solo, Budget, At, Captured
  <2>3. ASSUME NEW u \in Threads, job'[u].pc = "save", Owes(k)
        PROVE  FitsOne(job'[u].doc.allowance, calls, k.step)
    <3>1. CASE u = t
      <4>1. FitsOne(allowance', calls, k.step)
        BY <2>3, OwedCovered DEF Advancing, DataInv
      <4> QED BY <1>1, <2>3, <3>1, <4>1 DEF Captured
    <3>2. CASE u # t
      <4>1. u \notin Advancers /\ job'[u] = job[u] /\ Shut(exec)
        BY <1>1, <2>3, <3>2 DEF Solo, Control, Bystander
      <4>2. Owes(job[t]) /\ k.step = job[t].step
        BY <2>3, <4>1
      <4> QED BY <2>3, <4>1, <4>2 DEF Solo, Budget, At
    <3> QED BY <3>1, <3>2
  <2>4. Fits(allowance', calls) /\ Fits(disk.allowance, calls)
    BY DEF Solo, Budget
  <2>5. disk.exec.status = "absent" => calls = NoCalls
    BY DEF Solo, Budget
  <2>6. \A u \in Threads : At(u, "save")' =>
          /\ Fits(job[u].doc.allowance, calls)'
          /\ \A v \in Advancers : Owes(job[v])' => FitsOne(job[u].doc.allowance, calls, job[v].step)'
    BY <1>1, <1>5, <2>2, <2>3 DEF Owes, At, Fits, FitsOne, Covers
  <2>7. \A v \in Advancers : BudgetJob(job[v], allowance, calls, disk.allowance)'
    BY <1>1, <2>1
  <2> QED BY <1>2, <2>4, <2>5, <2>6, <2>7 DEF Budget, Fits, Covers, Owes, At, FitsOne
<1>7. Metering'
  <2>1. Late => Late'
    BY <1>1 DEF Late, At, Shut, Captured
  <2>2. ASSUME NEW u \in Threads, job'[u].pc = "save"
        PROVE  (Late \/ (job'[u].doc.allowance.granted <=> allowance.granted))
    BY <1>1, <1>2, <2>2 DEF Solo, Metering, At, Captured
  <2> QED BY <1>1, <1>2, <2>1, <2>2 DEF Solo, Metering, At
<1>8. Explanations'
  BY <1>1, <1>2 DEF Advancing, Solo, Explanations, Explains, At, Captured
<1> QED BY <1>3, <1>4, <1>6, <1>7, <1>8 DEF Solo

\* The same where the licences stay.
LEMMA OwnStep ==
    ASSUME ConfigAssumption, Sole, JobInv, DataInv, Solo, NEW t \in Advancers, NEW k \in Job,
           job' = [job EXCEPT ![t] = k],
           UNCHANGED <<plan, restored, disk, calls, licensed>>,
           allowance' \in Allowance, allowance'.granted = allowance.granted, Fits(allowance', calls),
           exec.status # "absent", exec'.status # "absent", Shut(exec) => exec' = exec,
           ~At(t, "rebindAllowance"), k.pc \notin {"rebindAllowance", "run"},
           Licensed(exec', disk.exec, licensed), Explains(exec', allowance.granted),
           Advancing(k, exec', allowance', calls, disk, licensed),
           Owes(k) => ~Shut(exec) \/ (Owes(job[t]) /\ k.step = job[t].step),
           \/ ~Captured(k)
           \/ k.pc = "captureAllowance" /\ k.doc.exec = exec
           \/ /\ k.pc = "save" /\ At(t, "captureAllowance")
              /\ k.doc.exec = job[t].doc.exec /\ k.doc.allowance = allowance
              /\ allowance' = allowance /\ exec' = exec
    PROVE  Solo'
<1>1. Untried(disk.exec) \subseteq licensed'
  BY DEF Solo, Licences
<1>2. /\ Licensed(exec', disk.exec, licensed')
      /\ Advancing(k, exec', allowance', calls, disk, licensed')
  OBVIOUS
<1> QED BY <1>1, <1>2, AnyStep

\* What Solo says of the thread in charge.
LEMMA SoloAdvancing ==
    ASSUME Sole, JobInv, Solo, NEW t \in Advancers
    PROVE  /\ Advancing(job[t], exec, allowance, calls, disk, licensed)
           /\ ~At(t, "idle") /\ ~At(t, "rebind") => exec.status # "absent"
           /\ exec.status # "absent" => Licensed(exec, disk.exec, licensed)
           /\ ~At(t, "rebindAllowance") => ~Rebinding /\ Explains(exec, allowance.granted)
           /\ Fits(allowance, calls)
<1>1. t \in Threads
  BY DEF Threads
<1>2. ~At(t, "rebindAllowance") => ~Rebinding
  BY DEF Sole, Rebinding
<1>3. InCharge(job[t], exec) /\ (~At(t, "idle") /\ ~At(t, "rebind") => exec.status # "absent")
  BY <1>1 DEF Solo, Control, InCharge, At
<1>4. LicensedJob(job[t], licensed, disk.exec, exec)
      /\ (exec.status # "absent" => Licensed(exec, disk.exec, licensed))
  BY DEF Solo, Licences
<1>5. BudgetJob(job[t], allowance, calls, disk.allowance) /\ Fits(allowance, calls)
  BY DEF Solo, Budget
<1>6. /\ Explains(job[t].view, allowance.granted) /\ Explains(job[t].goal, allowance.granted)
      /\ Explains(exec, Rebinding \/ allowance.granted)
  BY DEF Solo, Explanations
<1>7. ~At(t, "rebindAllowance") => Explains(exec, allowance.granted)
  BY <1>2, <1>6 DEF Explains
<1> QED BY <1>2, <1>3, <1>4, <1>5, <1>6, <1>7 DEF Advancing

\* Where a transition leaves the plan: never without an execution.
LEMMA GoalStatus ==
    ASSUME NEW e \in Execution, NEW s \in Steps
    PROVE  /\ BlockStep(e, s).status = "blocked"
           /\ RefuseAdvance(e, s).status = e.status /\ RequireAuthority(e, s).status = e.status
           /\ \A work \in BOOLEAN : FailStep(e, s, work).status = "failed"
           /\ e.status = "running" => CompleteStep(e, s).status \in {"running", "completed"}
           /\ \A ruling \in Resolution \ {"none"} :
                 ResolveInterrupted(e, s, ruling).status \in {"interrupted", "blocked", "running"}
           /\ \A decision \in Recovery : RecoverBlocked(e, s, decision).status \in {"running", "blocked"}
<1>1. BlockStep(e, s).status = "blocked"
  BY DEF BlockStep, Unexplained, Execution
<1>2. RefuseAdvance(e, s).status = e.status /\ RequireAuthority(e, s).status = e.status
  BY DEF RefuseAdvance, RequireAuthority, Execution
<1>3. \A work \in BOOLEAN : FailStep(e, s, work).status = "failed"
  BY DEF FailStep, Unexplained, Execution
<1>4. e.status = "running" => CompleteStep(e, s).status \in {"running", "completed"}
  BY DEF CompleteStep, Execution
<1>5. \A ruling \in Resolution \ {"none"} :
         ResolveInterrupted(e, s, ruling).status \in {"interrupted", "blocked", "running"}
  BY DEF ResolveInterrupted, Unexplained, Execution
<1>6. \A decision \in Recovery : RecoverBlocked(e, s, decision).status \in {"running", "blocked"}
  BY DEF RecoverBlocked, Execution
<1> QED BY <1>1, <1>2, <1>3, <1>4, <1>5, <1>6

\* A start takes its step from what is left to try, pays for it, and gives it
\* back with its charge if it cannot be written; a note leaves all that alone.
LEMMA SoloAdvance ==
    ASSUME ConfigAssumption, Sole, DataInv, JobInv, Values, Solo, NEW t \in Advancers,
           CheckAllowance(t) \/ Charge(t) \/ CommitStart(t) \/ Refund(t)
              \/ Withdraw(t) \/ Uncharge(t)
    PROVE  Solo'
<1> DEFINE j == job[t]
           s == j.step
<1>0. t \in Threads
  BY DEF Threads
<1>1. j \in Job /\ JobAgrees(j) /\ SoundJob(j) /\ Kept(exec) /\ exec \in Execution /\ allowance \in Allowance
  BY <1>0 DEF JobInv, DataInv, Values
<1>2. j.view \in Execution /\ j.goal \in Execution /\ j.budget \in Allowance
  BY <1>1 DEF Job
<1>3. Sound(j.view) /\ Sound(j.goal)
  BY <1>1 DEF SoundJob, Kept
<1>4. /\ Advancing(j, exec, allowance, calls, disk, licensed)
      /\ ~At(t, "idle") /\ ~At(t, "rebind") => exec.status # "absent"
      /\ exec.status # "absent" => Licensed(exec, disk.exec, licensed)
      /\ ~At(t, "rebindAllowance") => ~Rebinding /\ Explains(exec, allowance.granted)
      /\ Fits(allowance, calls)
  BY SoloAdvancing
<1>5. CASE CheckAllowance(t)
  <2>1. /\ s \in Steps /\ IsNextPending(j.view, s) /\ Interrupted(j.view) = {} /\ At(t, "allowance")
        /\ exec = j.view \/ Shut(exec)
    BY <1>1, <1>4, <1>5 DEF CheckAllowance, At, JobAgrees, SoundJob, Advancing, InCharge
  <2>0. UNCHANGED <<plan, exec, allowance, restored, disk, calls, licensed>>
    BY <1>5 DEF CheckAllowance
  <2>2. CASE Finish(t)
    BY <1>1, <1>4, <1>5, <2>1, <2>2, IdleLocals, IdleAdvancing, OwnStep
       DEF CheckAllowance, Finish, Become, At, IdleJob, Owes, Captured, Writing
  <2>3. ASSUME NEW goal \in Execution, Untried(goal) \subseteq Untried(j.view),
               Interrupted(goal) \subseteq Interrupted(j.view), goal.status # "absent",
               Explains(goal, allowance.granted),
               Become(t, [j EXCEPT !.pc = "commit", !.goal = goal])
        PROVE  Solo'
    <3> DEFINE k == [j EXCEPT !.pc = "commit", !.goal = goal]
    <3>1. k \in Job /\ k.pc = "commit" /\ k.view = j.view /\ k.goal = goal
      BY <1>1 DEF Job, PC
    <3>2. job' = [job EXCEPT ![t] = k]
      BY <2>3 DEF Become
    <3> HIDE DEF k
    <3>3. Advancing(k, exec, allowance, calls, disk, licensed)
      BY <1>4, <2>1, <2>3, <3>1
         DEF Advancing, InCharge, LicensedJob, BudgetJob, Owes, Ruled, Captured, Deciding, Writing, At
    <3>4. ~Owes(k) /\ ~Captured(k)
      BY <3>1 DEF Owes, Captured, Writing
    <3> QED BY <1>1, <1>4, <2>0, <2>1, <3>1, <3>2, <3>3, <3>4, OwnStep DEF At
  <2>4. ASSUME CanStartStep(j.view, s), NEW pc \in {"charge", "start"},
               pc = "charge" <=> allowance.granted,
               allowance.granted => Affords(allowance, s),
               Become(t, [j EXCEPT !.pc = pc, !.goal = StartStep(j.view, s),
                                   !.budget = allowance])
        PROVE  Solo'
    <3> DEFINE k == [j EXCEPT !.pc = pc, !.goal = StartStep(j.view, s), !.budget = allowance]
    <3>1. /\ StartStep(j.view, s) \in Execution /\ StartStep(j.view, s).status = "running"
          /\ Untried(StartStep(j.view, s)) \subseteq Untried(j.view)
          /\ Interrupted(StartStep(j.view, s)) = Interrupted(j.view)
          /\ ~Explained(StartStep(j.view, s))
      BY <1>2, <1>3, <2>1, <2>4, StartStepType, StartStepSound
    <3>2. /\ k \in Job /\ k.pc = pc /\ k.view = j.view /\ k.step = s
          /\ k.goal = StartStep(j.view, s) /\ k.budget = allowance
      BY <1>1, <3>1 DEF Job, PC
    <3>3. job' = [job EXCEPT ![t] = k]
      BY <2>4 DEF Become
    <3> HIDE DEF k
    <3>4. Advancing(k, exec, allowance, calls, disk, licensed)
      BY <1>4, <2>1, <2>4, <3>1, <3>2
         DEF Advancing, InCharge, LicensedJob, BudgetJob, Owes, Ruled, Captured, Deciding, Writing,
             Explains, Explained, At
    <3>5. ~Owes(k) /\ ~Captured(k) /\ k.pc \notin {"rebindAllowance", "run"}
      BY <2>4, <3>2 DEF Owes, Captured, Writing
    <3> QED BY <1>1, <1>4, <2>0, <2>1, <3>2, <3>3, <3>4, <3>5, OwnStep DEF At
  <2>5. CASE /\ ~allowance.granted /\ CanRequireAuthority(j.view, s)
             /\ Become(t, [j EXCEPT !.pc = "commit", !.goal = RequireAuthority(j.view, s)])
    <3> DEFINE goal == RequireAuthority(j.view, s)
    <3>1. /\ goal \in Execution /\ goal.steps = j.view.steps /\ goal.status # "absent"
          /\ goal.refusal = NoStep
      BY <1>2, <2>1, <2>5, NoteType, GoalStatus
         DEF CanRequireAuthority, IsNextPending, RequireAuthority, Execution
    <3> HIDE DEF goal
    <3>2. Explains(goal, allowance.granted)
      BY <2>5, <3>1 DEF Explains
    <3>3. Untried(goal) = Untried(j.view) /\ Interrupted(goal) = Interrupted(j.view)
      BY <3>1 DEF Untried, Interrupted, InStatus
    <3> QED BY <2>3, <2>5, <3>1, <3>2, <3>3 DEF goal
  <2>6. CASE /\ allowance.granted /\ CanRefuseAdvance(j.view, s)
             /\ Become(t, [j EXCEPT !.pc = "commit", !.goal = RefuseAdvance(j.view, s)])
    <3> DEFINE goal == RefuseAdvance(j.view, s)
    <3>1. /\ goal \in Execution /\ goal.steps = j.view.steps /\ goal.status # "absent"
          /\ goal.pause = NoStep
      BY <1>2, <2>1, <2>6, NoteType, GoalStatus
         DEF CanRefuseAdvance, IsNextPending, RefuseAdvance, Execution
    <3> HIDE DEF goal
    <3>2. Explains(goal, allowance.granted)
      BY <2>6, <3>1 DEF Explains
    <3>3. Untried(goal) = Untried(j.view) /\ Interrupted(goal) = Interrupted(j.view)
      BY <3>1 DEF Untried, Interrupted, InStatus
    <3> QED BY <2>3, <2>6, <3>1, <3>2, <3>3 DEF goal
  <2>7. CASE /\ CanStartStep(j.view, s)
             /\ IF allowance.granted THEN Affords(allowance, s) ELSE ~NeedsAllowance(s)
             /\ Become(t, [j EXCEPT !.pc = IF allowance.granted THEN "charge" ELSE "start",
                                    !.goal = StartStep(j.view, s), !.budget = allowance])
    <3> DEFINE pc == IF allowance.granted THEN "charge" ELSE "start"
    <3>1. pc \in {"charge", "start"} /\ (pc = "charge" <=> allowance.granted)
      OBVIOUS
    <3>2. Become(t, [j EXCEPT !.pc = pc, !.goal = StartStep(j.view, s), !.budget = allowance])
      BY <2>7
    <3> HIDE DEF pc
    <3> QED BY <2>4, <2>7, <3>1, <3>2
  <2> QED BY <1>5, <2>2, <2>5, <2>6, <2>7 DEF CheckAllowance
<1>6. ASSUME NEW pc \in {"start", "refund", "uncharge", "capture"},
             NEW purpose \in {j.purpose, "checkpoint", "report"},
             NEW k, k = [j EXCEPT !.pc = pc, !.purpose = purpose]
      PROVE  /\ k \in Job /\ k.pc = pc /\ k.purpose = purpose
             /\ k.view = j.view /\ k.goal = j.goal /\ k.step = s /\ k.budget = j.budget
  BY <1>1, <1>6 DEF Job, PC, Purpose
<1>7. ASSUME NEW pc, Goto(t, pc)
      PROVE  job' = [job EXCEPT ![t] = [j EXCEPT !.pc = pc, !.purpose = j.purpose]]
  <2>1. [j EXCEPT !.pc = pc] = [j EXCEPT !.pc = pc, !.purpose = j.purpose]
    BY <1>1 DEF Job
  <2> QED BY <1>7, <2>1 DEF Goto, Become
<1>8. CASE Charge(t)
  <2> DEFINE k == [j EXCEPT !.pc = "start", !.purpose = j.purpose]
  <2>1. /\ At(t, "charge") /\ allowance' = Charged(j.budget, s) /\ job' = [job EXCEPT ![t] = k]
        /\ UNCHANGED <<plan, exec, restored, disk, calls, licensed>>
    BY <1>7, <1>8 DEF Charge
  <2>2. /\ k \in Job /\ k.pc = "start"
        /\ k.view = j.view /\ k.goal = j.goal /\ k.step = s /\ k.budget = j.budget
    BY <1>6
  <2> HIDE DEF k
  <2>3. j.budget = allowance /\ allowance.granted /\ Affords(allowance, s)
    BY <1>4, <2>1 DEF Advancing, BudgetJob, At
  <2>4. /\ allowance' \in Allowance /\ allowance'.granted = allowance.granted
        /\ Fits(allowance', calls)
    <3>1. calls \in Calls /\ allowance' = Charged(allowance, s)
      BY <2>1, <2>3 DEF DataInv
    <3>2. allowance' \in Allowance /\ allowance'.granted = allowance.granted
      BY <1>1, <3>1, ChargedType, ChargedFields
    <3>3. FitsOne(allowance', calls, s)
      BY <1>1, <1>4, <2>3, <3>1, ChargeCovers
    <3> QED BY <3>1, <3>2, <3>3, OneMoreCovers
  <2>5. Advancing(k, exec, allowance', calls, disk, licensed)
    BY <1>4, <2>1, <2>2, <2>3, <2>4
       DEF Advancing, InCharge, LicensedJob, BudgetJob, Owes, Ruled, Captured, Deciding, Writing,
           Explains, At
  <2>6. ~Owes(k) /\ ~Captured(k)
    BY <2>2 DEF Owes, Captured, Writing
  <2> QED BY <1>4, <2>1, <2>2, <2>4, <2>5, <2>6, OwnStep DEF At
<1>9. CASE CommitStart(t)
  <2>1. /\ s \in Steps /\ CanStartStep(j.view, s) /\ j.goal = StartStep(j.view, s) /\ At(t, "start")
    BY <1>1, <1>9 DEF CommitStart, At, JobAgrees
  <2>2. /\ UNCHANGED <<plan, allowance, restored, disk, calls, licensed>>
        /\ exec' = IF exec = j.view THEN j.goal ELSE exec
        /\ IF exec = j.view THEN Persist(t, "checkpoint") ELSE Goto(t, "refund")
    BY <1>9 DEF CommitStart, Committed
  <2>3. CASE exec = j.view
    <3> DEFINE k == [j EXCEPT !.pc = "capture", !.purpose = "checkpoint"]
    <3>1. /\ k \in Job /\ k.pc = "capture" /\ k.purpose = "checkpoint"
          /\ k.view = j.view /\ k.goal = j.goal /\ k.step = s /\ k.budget = j.budget
      BY <1>6
    <3>2. job' = [job EXCEPT ![t] = k]
      BY <2>2, <2>3 DEF Persist, Become
    <3> HIDE DEF k
    <3>3. /\ Untried(j.goal) \subseteq Untried(j.view) /\ Interrupted(j.goal) = Interrupted(j.view)
          /\ s \in Untried(j.view) /\ j.goal.status = "running" /\ j.view.status = "running"
      BY <1>2, <1>3, <2>1, StartStepSound, StartStepType
         DEF CanStartStep, IsNextPending, Untried, InStatus
    <3>4. Advancing(k, exec', allowance, calls, disk, licensed)
      BY <1>4, <2>1, <2>2, <2>3, <3>1, <3>3
         DEF Advancing, InCharge, LicensedJob, Licensed, BudgetJob, Owes, Ruled, Captured, Deciding,
             Writing, At
    <3>5. Licensed(exec', disk.exec, licensed) /\ Explains(exec', allowance.granted)
      BY <1>4, <2>1, <2>2, <2>3, <3>3 DEF Licensed, Advancing, At
    <3>6. ~Captured(k) /\ ~Shut(exec) /\ exec.status # "absent" /\ exec'.status # "absent"
      BY <2>2, <2>3, <3>1, <3>3 DEF Captured, Shut
    <3> QED BY <1>1, <1>4, <2>1, <2>2, <3>1, <3>2, <3>4, <3>5, <3>6, OwnStep DEF At
  <2>4. CASE exec # j.view
    <3> DEFINE k == [j EXCEPT !.pc = "refund", !.purpose = j.purpose]
    <3>1. /\ k \in Job /\ k.pc = "refund"
          /\ k.view = j.view /\ k.goal = j.goal /\ k.step = s /\ k.budget = j.budget
      BY <1>6
    <3>2. job' = [job EXCEPT ![t] = k]
      BY <1>7, <2>2, <2>4
    <3> HIDE DEF k
    <3>3. Advancing(k, exec, allowance, calls, disk, licensed)
      BY <1>4, <2>1, <3>1
         DEF Advancing, InCharge, LicensedJob, BudgetJob, Owes, Ruled, Captured, Deciding, Writing, At
    <3>4. ~Owes(k) /\ ~Captured(k)
      BY <3>1 DEF Owes, Captured, Writing
    <3> QED BY <1>1, <1>4, <2>1, <2>2, <2>4, <3>1, <3>2, <3>3, <3>4, OwnStep DEF At
  <2> QED BY <2>3, <2>4
<1>10. ASSUME At(t, "refund") \/ At(t, "uncharge"),
              allowance' = IF j.budget.granted THEN j.budget ELSE allowance
       PROVE  /\ allowance' \in Allowance /\ allowance'.granted = allowance.granted
              /\ Fits(allowance', calls)
  <2>1. Fits(j.budget, calls) /\ (j.budget.granted => allowance = Charged(j.budget, s))
    BY <1>4, <1>10 DEF Advancing, BudgetJob, At
  <2>2. j.budget.granted => allowance.granted = j.budget.granted
    BY <1>2, <2>1, ChargedFields
  <2> QED BY <1>1, <1>2, <1>4, <1>10, <2>1, <2>2
<1>11. CASE Refund(t)
  <2> DEFINE k == [j EXCEPT !.pc = "capture", !.purpose = "report"]
  <2>1. /\ At(t, "refund") /\ job' = [job EXCEPT ![t] = k]
        /\ UNCHANGED <<plan, exec, restored, disk, calls, licensed>>
        /\ allowance' = IF j.budget.granted THEN j.budget ELSE allowance
    BY <1>11 DEF Refund, Persist, Become
  <2>2. /\ k \in Job /\ k.pc = "capture" /\ k.purpose = "report"
        /\ k.view = j.view /\ k.goal = j.goal
    BY <1>6
  <2> HIDE DEF k
  <2>3. Advancing(k, exec, allowance', calls, disk, licensed)
    BY <1>4, <1>10, <2>1, <2>2
       DEF Advancing, InCharge, LicensedJob, BudgetJob, Owes, Ruled, Captured, Deciding, Writing,
           Explains, At
  <2>4. ~Owes(k) /\ ~Captured(k)
    BY <2>2 DEF Owes, Captured, Writing
  <2> QED BY <1>4, <1>10, <2>1, <2>2, <2>3, <2>4, OwnStep DEF At
<1>12. CASE Withdraw(t)
  <2> DEFINE k == [j EXCEPT !.pc = "uncharge", !.purpose = j.purpose]
  <2>1. /\ At(t, "withdraw") /\ job' = [job EXCEPT ![t] = k]
        /\ UNCHANGED <<plan, allowance, restored, disk, calls, licensed>>
        /\ exec' = IF exec = j.goal THEN j.view ELSE exec
    BY <1>7, <1>12 DEF Withdraw, Committed
  <2>2. /\ k \in Job /\ k.pc = "uncharge"
        /\ k.view = j.view /\ k.goal = j.goal /\ k.step = s /\ k.budget = j.budget
    BY <1>6
  <2> HIDE DEF k
  <2>3. j.view.status = "running" /\ j.goal.status = "running"
    BY <1>1, <2>1 DEF JobAgrees, MakesAttempt, At
  <2>4. Untried(j.view) \subseteq licensed /\ Interrupted(j.view) \subseteq Interrupted(j.goal)
    BY <1>4, <2>1 DEF Advancing, LicensedJob, At
  <2>5. Advancing(k, exec', allowance, calls, disk, licensed)
    BY <1>4, <2>1, <2>2, <2>3
       DEF Advancing, InCharge, LicensedJob, BudgetJob, Owes, Ruled, Captured, Deciding, Writing, At
  <2>6. Licensed(exec', disk.exec, licensed) /\ Explains(exec', allowance.granted)
    BY <1>4, <2>1, <2>4 DEF Licensed, Advancing, At
  <2>7. /\ ~Owes(k) /\ ~Captured(k) /\ exec.status # "absent" /\ exec'.status # "absent"
        /\ Shut(exec) => exec' = exec
    BY <1>4, <2>1, <2>2, <2>3 DEF Owes, Captured, Writing, Shut, At
  <2> QED BY <1>1, <1>4, <2>1, <2>2, <2>5, <2>6, <2>7, OwnStep DEF At
<1>13. CASE Uncharge(t)
  <2>1. /\ At(t, "uncharge") /\ job' = [job EXCEPT ![t] = IdleJob]
        /\ UNCHANGED <<plan, exec, restored, disk, calls, licensed>>
        /\ allowance' = IF j.budget.granted THEN j.budget ELSE allowance
    BY <1>13 DEF Uncharge, Finish, Become
  <2>2. ~Owes(IdleJob) /\ ~Captured(IdleJob) /\ IdleJob.pc = "idle"
    BY DEF Owes, Captured, Writing, IdleJob
  <2> QED BY <1>4, <1>10, <2>1, <2>2, IdleLocals, IdleAdvancing, OwnStep DEF At
<1> QED BY <1>5, <1>8, <1>9, <1>11, <1>12, <1>13

\* Nothing has been called of a plan that was never recorded.
LEMMA SoloStart ==
    ASSUME ConfigAssumption, Sole, DataInv, JobInv, Values, Solo, NEW t \in Advancers, Start(t)
    PROVE  Solo'
<1> DEFINE k == [job[t] EXCEPT !.pc = "capture", !.purpose = "report"]
<1>1. /\ At(t, "idle") /\ exec = Absent /\ restored = NoSnapshot /\ disk = NoSnapshot
      /\ exec' = Started /\ job' = [job EXCEPT ![t] = k]
      /\ UNCHANGED <<plan, restored, disk, calls, licensed>>
  BY DEF Start, Persist, Become
<1>2. PICK granted \in BOOLEAN : allowance' = [NoAllowance EXCEPT !.granted = granted]
  BY DEF Start, ConfigAssumption
<1>3. allowance'.granted = granted /\ allowance'.advances = 0 /\ allowance'.network = 0
  BY <1>2 DEF NoAllowance
<1>4. t \in Threads /\ job[t] \in Job /\ job[t] = IdleJob
  BY <1>1 DEF Threads, JobInv, Values, SoundJob, At
<1>5. k.pc = "capture" /\ k.purpose = "report" /\ k.view = Absent /\ k.goal = Absent
  BY <1>4 DEF Job, IdleJob
<1>6. /\ \A u \in Threads : job'[u] = IF u = t THEN k ELSE job[u]
      /\ \A u \in Advancers : u = t
  BY <1>1 DEF JobInv, Sole
<1> HIDE DEF k
<1>7. \A u \in Threads \ {t} : job[u].pc = "idle" /\ u \notin Advancers
  BY <1>1, <1>6 DEF Solo, Control, Bystander, Shut, Absent
<1>8. calls = NoCalls /\ Untried(Absent) \subseteq licensed
  BY <1>1 DEF Solo, Budget, Licences, NoSnapshot, Absent
<1>9. Started.status = "running" /\ Started.refusal = NoStep /\ Started.pause = NoStep
  BY DEF Started, Absent
<1>10. ~Rebinding'
  BY <1>4, <1>5, <1>6 DEF Rebinding, At
<1>11. Control'
  <2>1. InCharge(k, Started)
    BY <1>5, <1>9 DEF InCharge, Owes, Ruled, Captured, Deciding, Writing
  <2>2. \A u \in Threads \ {t} : Bystander(job[u], Started)
    BY <1>7 DEF Bystander, Captured
  <2>3. \A u \in Threads : IF u \in Advancers THEN InCharge(job'[u], exec') ELSE Bystander(job'[u], exec')
    BY <1>1, <1>6, <1>7, <2>1, <2>2
  <2> QED BY <2>3 DEF Control, InCharge, Bystander, Shut, Owes, Ruled, Captured
<1>12. Licences'
  <2>1. /\ Untried(Started) \subseteq licensed /\ Interrupted(Started) = {}
        /\ Untried(disk.exec) \subseteq licensed
    <3>1. disk.exec = Absent /\ Untried(Started) \subseteq Steps /\ Untried(Absent) = Steps
      BY <1>1, StartedSound DEF NoSnapshot, Untried, InStatus
    <3> QED BY <1>8, <3>1, StartedSound
  <2>2. LicensedJob(k, licensed, disk.exec, exec')
    BY <1>5 DEF LicensedJob, Owes, Ruled, Captured, Deciding, Writing
  <2>3. Licensed(exec', disk.exec, licensed) /\ exec'.status # "absent"
    BY <1>1, <1>9, <2>1 DEF Licensed
  <2>4. \A u \in Advancers : LicensedJob(job'[u], licensed, disk.exec, exec')
    BY <1>4, <1>6, <2>2
  <2> QED BY <1>1, <2>1, <2>3, <2>4
         DEF Licences, Licensed, LicensedJob, Begun, Shut, Owes, Ruled, Captured
<1>13. Budget'
  <2>1. \A a : a.advances = 0 /\ a.network = 0 => Fits(a, calls)
    BY <1>8 DEF Fits, Covers, NoCalls, ConfigAssumption
  <2>2. Fits(allowance', calls) /\ Fits(disk.allowance, calls)
    BY <1>1, <1>3, <2>1 DEF NoSnapshot, NoAllowance
  <2>3. \A u \in Threads : ~At(u, "save")'
    BY <1>5, <1>6, <1>7 DEF At
  <2>4. \A u \in Advancers : BudgetJob(job[u], allowance, calls, disk.allowance)'
    BY <1>4, <1>5, <1>6 DEF BudgetJob, Owes, Writing
  <2> QED BY <1>1, <1>8, <1>9, <1>10, <2>2, <2>3, <2>4 DEF Budget, Fits, Covers
<1>14. Metering'
  <2>1. calls.made = 0
    BY <1>8 DEF NoCalls
  <2>2. \A u \in Threads : ~At(u, "save")' /\ ~At(u, "run")'
    BY <1>5, <1>6, <1>7 DEF At
  <2> QED BY <1>1, <1>9, <1>10, <2>1, <2>2 DEF Metering, Threads
<1>15. Explanations'
  <2>1. \A u \in Threads : ~At(u, "save")' /\ ~At(u, "captureAllowance")'
    BY <1>5, <1>6, <1>7 DEF At
  <2>2. \A g \in BOOLEAN : Explains(Absent, g) /\ Explains(Started, g)
    BY StartedSound DEF Explains, Explained
  <2>3. exec' = Started /\ exec'.status # "absent" /\ disk'.exec = Absent
    BY <1>1, <1>9 DEF NoSnapshot
  <2>4. \A u \in Advancers : job'[u].view = Absent /\ job'[u].goal = Absent
    BY <1>4, <1>5, <1>6
  <2> QED BY <2>1, <2>2, <2>3, <2>4 DEF Explanations, Explains
<1> QED BY <1>11, <1>12, <1>13, <1>14, <1>15 DEF Solo

\* What is decided from the execution that stands is an advance, a ruling or a
\* recovery of it.
LEMMA SoloBegin ==
    ASSUME ConfigAssumption, Sole, DataInv, JobInv, Values, Solo, NEW t \in Advancers,
           BeginAdvance(t) \/ BeginResolve(t) \/ BeginRecover(t)
    PROVE  Solo'
<1>1. /\ exec \in Execution /\ Sound(exec) /\ allowance \in Allowance
      /\ IdleJob \in Job /\ IdleJob.goal = Absent /\ IdleJob.view = Absent
  BY IdleLocals DEF DataInv, Values, Kept, IdleJob
<1>2. /\ At(t, "idle") /\ exec.status # "absent"
      /\ UNCHANGED <<plan, exec, allowance, restored, disk, calls, licensed>>
  BY DEF BeginAdvance, BeginResolve, BeginRecover, CanResolve, CanRecover
<1>3. /\ Licensed(exec, disk.exec, licensed) /\ Explains(exec, allowance.granted)
      /\ Fits(allowance, calls)
  BY <1>2, SoloAdvancing DEF At
<1>4. ASSUME NEW s \in Steps, NEW goal \in Execution, NEW pc \in {"allowance", "commit", "ruling"},
             pc # "allowance" =>
                 /\ goal.status # "absent"
                 /\ Untried(goal) \subseteq Untried(exec) \cup (IF pc = "ruling" THEN {s} ELSE {})
                 /\ Interrupted(goal) \subseteq Interrupted(exec),
             pc = "ruling" =>
                 /\ exec.status \in {"interrupted", "blocked"} /\ s \notin Untried(exec)
                 /\ goal.steps[s].status = "pending" => exec.steps[s].status = "interrupted",
             ~Explained(goal),
             Become(t, [IdleJob EXCEPT !.pc = pc, !.step = s, !.view = exec, !.goal = goal])
      PROVE  Solo'
  <2> DEFINE k == [IdleJob EXCEPT !.pc = pc, !.step = s, !.view = exec, !.goal = goal]
  <2>1. k \in Job /\ k.pc = pc /\ k.step = s /\ k.view = exec /\ k.goal = goal
    BY <1>1, <1>4 DEF Job, PC
  <2>2. job' = [job EXCEPT ![t] = k]
    BY <1>4 DEF Become
  <2> HIDE DEF k
  <2>3. Advancing(k, exec, allowance, calls, disk, licensed)
    BY <1>2, <1>3, <1>4, <2>1
       DEF Advancing, InCharge, LicensedJob, BudgetJob, Owes, Ruled, Captured, Deciding, Writing,
           Explains, Explained
  <2>4. ~Owes(k) /\ ~Captured(k) /\ k.pc \notin {"rebindAllowance", "run"}
    BY <1>4, <2>1 DEF Owes, Captured, Writing
  <2> QED BY <1>1, <1>2, <1>3, <2>1, <2>2, <2>3, <2>4, OwnStep DEF At
<1>5. CASE BeginAdvance(t)
  <2>1. PICK s \in Steps :
           /\ IsNextPending(exec, s)
           /\ \/ Become(t, [IdleJob EXCEPT !.pc = "commit", !.step = s, !.view = exec,
                                           !.goal = BlockStep(exec, s)])
              \/ Become(t, [IdleJob EXCEPT !.pc = "allowance", !.step = s, !.view = exec])
    BY <1>5 DEF BeginAdvance
  <2>2. CASE Become(t, [IdleJob EXCEPT !.pc = "commit", !.step = s, !.view = exec,
                                       !.goal = BlockStep(exec, s)])
    <3>1. /\ BlockStep(exec, s) \in Execution /\ BlockStep(exec, s).status = "blocked"
          /\ Untried(BlockStep(exec, s)) \subseteq Untried(exec)
          /\ Interrupted(BlockStep(exec, s)) = Interrupted(exec) /\ ~Explained(BlockStep(exec, s))
      BY <1>1, <2>1, OutcomeType, BlockStepSound, GoalStatus DEF IsNextPending
    <3> QED BY <1>4, <2>2, <3>1
  <2>3. CASE Become(t, [IdleJob EXCEPT !.pc = "allowance", !.step = s, !.view = exec])
    <3>1. [IdleJob EXCEPT !.pc = "allowance", !.step = s, !.view = exec]
             = [IdleJob EXCEPT !.pc = "allowance", !.step = s, !.view = exec, !.goal = Absent]
      BY <1>1 DEF Job
    <3>2. Absent \in Execution /\ ~Explained(Absent)
      BY StartedType, StartedSound
    <3> QED BY <1>4, <2>3, <3>1, <3>2
  <2> QED BY <2>1, <2>2, <2>3
<1>6. CASE BeginResolve(t)
  <2>1. PICK s \in Steps, ruling \in Resolution \ {"none"} :
           /\ CanResolve(exec, s)
           /\ Become(t, [IdleJob EXCEPT !.pc = "ruling", !.step = s, !.view = exec,
                                        !.goal = ResolveInterrupted(exec, s, ruling)])
    BY <1>6 DEF BeginResolve
  <2> DEFINE goal == ResolveInterrupted(exec, s, ruling)
  <2>2. /\ goal \in Execution /\ goal.status # "absent" /\ ~Explained(goal)
        /\ Untried(goal) \subseteq Untried(exec) \cup {s}
        /\ Interrupted(goal) \subseteq Interrupted(exec)
    BY <1>1, <2>1, RulingType, ResolveSound, GoalStatus
  <2>3. exec.status = "interrupted" /\ exec.steps[s].status = "interrupted" /\ s \notin Untried(exec)
    BY <2>1 DEF CanResolve, Untried, InStatus
  <2> HIDE DEF goal
  <2>4. Become(t, [IdleJob EXCEPT !.pc = "ruling", !.step = s, !.view = exec, !.goal = goal])
    BY <2>1 DEF goal
  <2> QED BY <1>4, <2>2, <2>3, <2>4
<1>7. CASE BeginRecover(t)
  <2>1. PICK s \in Steps, decision \in Recovery \ {"none"} :
           /\ CanRecover(exec, s)
           /\ Become(t, [IdleJob EXCEPT !.pc = "ruling", !.step = s, !.view = exec,
                                        !.goal = RecoverBlocked(exec, s, decision)])
    BY <1>7 DEF BeginRecover
  <2> DEFINE goal == RecoverBlocked(exec, s, decision)
  <2>2. /\ goal \in Execution /\ goal.status # "absent" /\ ~Explained(goal)
        /\ Untried(goal) = Untried(exec) /\ Interrupted(goal) = Interrupted(exec)
        /\ goal.steps[s].status # "pending"
    BY <1>1, <2>1, RecoveryType, RecoverSound, GoalStatus
  <2>3. exec.status = "blocked" /\ s \notin Untried(exec)
    BY <2>1 DEF CanRecover, Untried, InStatus
  <2> HIDE DEF goal
  <2>4. Become(t, [IdleJob EXCEPT !.pc = "ruling", !.step = s, !.view = exec, !.goal = goal])
    BY <2>1 DEF goal
  <2> QED BY <1>4, <2>2, <2>3, <2>4
<1> QED BY <1>5, <1>6, <1>7

\* What is known of an advancing thread and of what it works on.
LEMMA Standing ==
    ASSUME DataInv, JobInv, Values, NEW t \in Threads
    PROVE  /\ job[t] \in Job /\ JobAgrees(job[t]) /\ SoundJob(job[t])
           /\ job[t].view \in Execution /\ job[t].goal \in Execution
           /\ job[t].doc \in Snapshot /\ job[t].doc.exec \in Execution
           /\ Sound(job[t].view) /\ Sound(job[t].goal) /\ Sound(job[t].doc.exec)
           /\ exec \in Execution /\ Sound(exec) /\ allowance \in Allowance
           /\ disk.exec \in Execution /\ Sound(disk.exec)
<1>1. job[t] \in Job /\ JobAgrees(job[t]) /\ SoundJob(job[t])
  BY DEF JobInv, Values
<1>2. job[t].view \in Execution /\ job[t].goal \in Execution /\ job[t].doc \in Snapshot
  BY <1>1 DEF Job
<1>3. Sound(job[t].view) /\ Sound(job[t].goal) /\ Sound(job[t].doc.exec)
  BY <1>1 DEF SoundJob, Kept
<1> QED BY <1>1, <1>2, <1>3 DEF DataInv, Values, Kept, Snapshot

\* Nothing of what Solo is about changes.
LEMMA SoloStays ==
    ASSUME Solo, UNCHANGED <<plan, exec, allowance, restored, disk, job, calls, licensed>>
    PROVE  Solo'
<1>1. \A s : Cost(s)' = Cost(s)
  BY DEF Cost
<1>2. Control' /\ Licences'
  BY DEF Solo, Control, InCharge, Bystander, Licences, Licensed, LicensedJob, Begun, Shut, Owes,
         Ruled, Captured
<1>3. Budget'
  <2>1. \A t \in Advancers : BudgetJob(job[t], allowance, calls, disk.allowance)'
    BY <1>1 DEF Solo, Budget, BudgetJob, Fits, FitsOne, Covers, Affords, Charged, Owes
  <2> QED BY <1>1, <2>1 DEF Solo, Budget, Rebinding, At, Fits, FitsOne, Covers, Owes
<1>4. Metering' /\ Explanations'
  BY DEF Solo, Metering, Explanations, Explains, Rebinding, Late, Shut, Captured, At
<1> QED BY <1>2, <1>3, <1>4 DEF Solo

\* An outcome tries nothing anew and leaves in doubt what was in doubt.
LEMMA SoloOutcome ==
    ASSUME ConfigAssumption, Sole, DataInv, JobInv, Values, Solo, NEW t \in Advancers,
           Decline(t) \/ RecordRevalidation(t) \/ Return(t) \/ CommitOutcome(t)
    PROVE  Solo'
<1> DEFINE j == job[t]
           s == j.step
<1>1. /\ j \in Job /\ JobAgrees(j) /\ SoundJob(j)
      /\ j.view \in Execution /\ j.goal \in Execution /\ Sound(j.view) /\ Sound(j.goal)
      /\ exec \in Execution /\ Sound(exec) /\ allowance \in Allowance
  BY Standing DEF Threads
<1>2. /\ Advancing(j, exec, allowance, calls, disk, licensed)
      /\ ~At(t, "idle") /\ ~At(t, "rebind") => exec.status # "absent"
      /\ exec.status # "absent" => Licensed(exec, disk.exec, licensed)
      /\ ~At(t, "rebindAllowance") => ~Rebinding /\ Explains(exec, allowance.granted)
      /\ Fits(allowance, calls)
  BY SoloAdvancing
<1>3. ASSUME At(t, "run") \/ At(t, "provider"), ChargeElapsed,
             NEW goal \in Execution, Outcome(t, goal), goal.status # "absent", ~Explained(goal),
             Untried(goal) \subseteq Untried(j.goal), Interrupted(goal) = Interrupted(j.goal),
             UNCHANGED <<plan, exec, restored, disk, calls, licensed>>
      PROVE  Solo'
  <2> DEFINE k == [j EXCEPT !.pc = "outcome", !.view = j.goal, !.goal = goal]
  <2>1. k \in Job /\ k.pc = "outcome" /\ k.view = j.goal /\ k.goal = goal
    BY <1>1, <1>3 DEF Job, PC
  <2>2. job' = [job EXCEPT ![t] = k]
    BY <1>3 DEF Outcome, Become
  <2> HIDE DEF k
  <2>3. PICK spent \in BOOLEAN : allowance' = [allowance EXCEPT !.late = spent]
    BY <1>1, <1>3 DEF ChargeElapsed, Allowance
  <2>4. /\ allowance' \in Allowance /\ allowance'.granted = allowance.granted
        /\ allowance'.advances = allowance.advances /\ allowance'.network = allowance.network
    BY <1>1, <2>3 DEF Allowance
  <2>5. Fits(allowance', calls)
    BY <1>2, <2>4 DEF Fits, Covers
  <2>6. Advancing(k, exec, allowance', calls, disk, licensed)
    BY <1>2, <1>3, <2>1, <2>4
       DEF Advancing, InCharge, LicensedJob, BudgetJob, Owes, Ruled, Captured, Deciding, Writing,
           Explains, Explained, At
  <2>7. ~Owes(k) /\ ~Captured(k)
    BY <2>1 DEF Owes, Captured, Writing
  <2> QED BY <1>2, <1>3, <2>1, <2>2, <2>4, <2>5, <2>6, <2>7, OwnStep DEF At
<1>4. At(t, "run") \/ At(t, "provider") =>
        s \in Steps /\ j.goal.status = "running" /\ j.goal.steps[s].status = "running"
  BY <1>1 DEF At, JobAgrees, MakesAttempt, SoundJob
<1>5. ASSUME At(t, "run") \/ At(t, "provider"), ChargeElapsed, Outcome(t, BlockStep(j.goal, s)),
             UNCHANGED <<plan, exec, restored, disk, calls, licensed>>
      PROVE  Solo'
  <2>1. /\ BlockStep(j.goal, s) \in Execution /\ BlockStep(j.goal, s).status # "absent"
        /\ Untried(BlockStep(j.goal, s)) \subseteq Untried(j.goal)
        /\ Interrupted(BlockStep(j.goal, s)) = Interrupted(j.goal)
        /\ ~Explained(BlockStep(j.goal, s))
    BY <1>1, <1>4, <1>5, OutcomeType, GoalStatus, BlockStepSound
  <2> QED BY <1>3, <1>5, <2>1
<1>6. CASE Decline(t)
  BY <1>5, <1>6 DEF Decline
<1>7. CASE RecordRevalidation(t)
  BY <1>7, SoloStays DEF RecordRevalidation
<1>8. CASE Return(t)
  <2>1. At(t, "provider") /\ ChargeElapsed /\ UNCHANGED <<plan, exec, restored, disk, calls, licensed>>
    BY <1>8 DEF Return
  <2>2. ASSUME NEW work \in BOOLEAN, Outcome(t, FailStep(j.goal, s, work)) PROVE Solo'
    <3>1. /\ FailStep(j.goal, s, work) \in Execution /\ FailStep(j.goal, s, work).status # "absent"
          /\ Untried(FailStep(j.goal, s, work)) = Untried(j.goal)
          /\ Interrupted(FailStep(j.goal, s, work)) = Interrupted(j.goal)
          /\ ~Explained(FailStep(j.goal, s, work))
      <4>1. s \in Steps /\ j.goal.steps[s].status = "running"
        BY <1>4, <2>1
      <4>2. FailStep(j.goal, s, work).status = "failed"
        BY <1>1, <4>1, GoalStatus
      <4> QED BY <1>1, <4>1, <4>2, OutcomeType, FailStepSound
    <3> QED BY <1>3, <2>1, <2>2, <3>1
  <2>3. ASSUME Outcome(t, CompleteStep(j.goal, s)) PROVE Solo'
    <3>1. /\ CompleteStep(j.goal, s) \in Execution /\ CompleteStep(j.goal, s).status # "absent"
          /\ Untried(CompleteStep(j.goal, s)) = Untried(j.goal)
          /\ Interrupted(CompleteStep(j.goal, s)) = Interrupted(j.goal)
          /\ ~Explained(CompleteStep(j.goal, s))
      BY <1>1, <1>4, <2>1, OutcomeType, GoalStatus, CompleteStepSound
    <3> QED BY <1>3, <2>1, <2>3, <3>1
  <2> QED BY <1>5, <1>8, <2>1, <2>2, <2>3 DEF Return
<1>9. CASE CommitOutcome(t)
  <2> DEFINE k == [j EXCEPT !.pc = "capture", !.purpose = "report"]
  <2>1. k \in Job /\ k.pc = "capture" /\ k.purpose = "report" /\ k.view = j.view /\ k.goal = j.goal
    BY <1>1 DEF Job, PC, Purpose
  <2>2. /\ At(t, "outcome") \/ At(t, "commit")
        /\ job' = [job EXCEPT ![t] = k] /\ exec' = IF exec = j.view THEN j.goal ELSE exec
        /\ UNCHANGED <<plan, allowance, restored, disk, calls, licensed>>
    BY <1>9 DEF CommitOutcome, Persist, Become, Committed
  <2> HIDE DEF k
  <2>3. /\ Untried(j.goal) \subseteq Untried(j.view) /\ Interrupted(j.goal) \subseteq Interrupted(j.view)
        /\ j.goal.status # "absent" /\ j.view.status = "running"
    BY <1>1, <1>2, <2>2
       DEF Advancing, LicensedJob, InCharge, Deciding, At, JobAgrees, MakesAttempt
  <2>4. /\ exec.status # "absent" /\ exec'.status # "absent" /\ (Shut(exec) => exec' = exec)
        /\ Licensed(exec', disk.exec, licensed) /\ Explains(exec', allowance.granted)
    BY <1>2, <2>2, <2>3 DEF Licensed, Shut, Advancing, At
  <2>5. Advancing(k, exec', allowance, calls, disk, licensed)
    BY <1>2, <2>1, <2>4
       DEF Advancing, InCharge, LicensedJob, BudgetJob, Owes, Ruled, Captured, Deciding, Writing
  <2>6. ~Owes(k) /\ ~Captured(k)
    BY <2>1 DEF Owes, Captured, Writing
  <2> QED BY <1>1, <1>2, <2>1, <2>2, <2>4, <2>5, <2>6, OwnStep DEF At
<1> QED BY <1>6, <1>7, <1>8, <1>9

\* The document is captured from what stands; a write that fails changes nothing.
LEMMA SoloPersist ==
    ASSUME ConfigAssumption, Sole, DataInv, JobInv, Values, Solo, NEW t \in Advancers,
           Capture(t) \/ CaptureAllowance(t) \/ SaveFails(t)
    PROVE  Solo'
<1> DEFINE j == job[t]
           s == j.step
<1>1. /\ j \in Job /\ JobAgrees(j) /\ SoundJob(j)
      /\ j.view \in Execution /\ j.goal \in Execution /\ j.doc \in Snapshot
      /\ exec \in Execution /\ Sound(exec) /\ allowance \in Allowance
  BY Standing DEF Threads
<1>2. /\ Advancing(j, exec, allowance, calls, disk, licensed)
      /\ ~At(t, "idle") /\ ~At(t, "rebind") => exec.status # "absent"
      /\ exec.status # "absent" => Licensed(exec, disk.exec, licensed)
      /\ ~At(t, "rebindAllowance") => ~Rebinding /\ Explains(exec, allowance.granted)
      /\ Fits(allowance, calls)
  BY SoloAdvancing
<1>3. CASE Capture(t)
  <2> DEFINE doc == [j.doc EXCEPT !.exec = exec]
             k == [j EXCEPT !.pc = "captureAllowance", !.doc = doc]
  <2>1. doc \in Snapshot /\ doc.exec = exec
    BY <1>1 DEF Snapshot
  <2>2. k = [j EXCEPT !.pc = "captureAllowance", !.doc.exec = exec]
    BY <1>1 DEF Job
  <2> HIDE DEF doc
  <2>3. /\ k \in Job /\ k.pc = "captureAllowance" /\ k.purpose = j.purpose /\ k.doc = doc
        /\ k.view = j.view /\ k.goal = j.goal /\ k.step = s /\ k.budget = j.budget
    BY <1>1, <2>1 DEF Job, PC
  <2>4. /\ At(t, "capture") /\ job' = [job EXCEPT ![t] = k]
        /\ UNCHANGED <<plan, exec, allowance, restored, disk, calls, licensed>>
    BY <1>3, <2>2 DEF Capture, Become
  <2> HIDE DEF k
  <2>5. Shut(exec) => Untried(exec) = {}
    BY <1>1, CancelledEmpty DEF Shut
  <2>6. Owes(j) => s \in Steps /\ j.goal.steps[s].status = "running"
    BY <1>1 DEF Owes, JobAgrees, SoundJob, MakesAttempt, Writing
  <2>7. Owes(j) => s \notin Untried(exec)
    BY <1>2, <2>5, <2>6 DEF Advancing, InCharge, Untried, InStatus
  <2>8. /\ (Owes(k) => Owes(j)) /\ (Ruled(k) => Ruled(j))
        /\ k.pc \notin Deciding \cup {"allowance", "rebindAllowance"}
    BY <2>3, <2>4 DEF Owes, Ruled, Writing, Deciding, At
  <2>9. Advancing(k, exec, allowance, calls, disk, licensed)
    <3>1. InCharge(k, exec)
      BY <1>2, <2>1, <2>3, <2>4, <2>8 DEF Advancing, InCharge, Captured, At
    <3>2. LicensedJob(k, licensed, disk.exec, exec)
      BY <1>2, <2>1, <2>3, <2>4, <2>7, <2>8 DEF Advancing, LicensedJob, Licensed, Captured, At
    <3>3. BudgetJob(k, allowance, calls, disk.allowance)
      BY <1>2, <2>3, <2>8 DEF Advancing, BudgetJob
    <3> QED BY <1>2, <2>3, <3>1, <3>2, <3>3 DEF Advancing
  <2> QED BY <1>1, <1>2, <2>1, <2>3, <2>4, <2>8, <2>9, OwnStep DEF At
<1>4. CASE CaptureAllowance(t)
  <2> DEFINE doc == [j.doc EXCEPT !.allowance = allowance]
             k == [j EXCEPT !.pc = "save", !.doc = doc]
  <2>1. doc \in Snapshot /\ doc.exec = j.doc.exec /\ doc.allowance = allowance
    BY <1>1 DEF Snapshot
  <2>2. k = [j EXCEPT !.pc = "save", !.doc.allowance = allowance]
    BY <1>1 DEF Job
  <2> HIDE DEF doc
  <2>3. /\ k \in Job /\ k.pc = "save" /\ k.purpose = j.purpose /\ k.doc = doc
        /\ k.view = j.view /\ k.goal = j.goal /\ k.step = s /\ k.budget = j.budget
    BY <1>1, <2>1 DEF Job, PC
  <2>4. /\ At(t, "captureAllowance") /\ job' = [job EXCEPT ![t] = k]
        /\ UNCHANGED <<plan, exec, allowance, restored, disk, calls, licensed>>
    BY <1>4, <2>2 DEF CaptureAllowance, Become
  <2> HIDE DEF k
  <2>5. /\ Owes(k) => Owes(j)
        /\ Ruled(k) => Ruled(j)
        /\ Captured(j) /\ k.pc \notin Deciding \cup {"allowance", "rebindAllowance"}
    BY <2>3, <2>4 DEF Owes, Ruled, Captured, Writing, Deciding, At
  <2>6. Advancing(k, exec, allowance, calls, disk, licensed)
    <3>1. InCharge(k, exec)
      BY <1>2, <2>1, <2>3, <2>4, <2>5 DEF Advancing, InCharge, At
    <3>2. LicensedJob(k, licensed, disk.exec, exec)
      BY <1>2, <2>1, <2>3, <2>5 DEF Advancing, LicensedJob
    <3>3. BudgetJob(k, allowance, calls, disk.allowance)
      BY <1>2, <2>3, <2>5 DEF Advancing, BudgetJob
    <3> QED BY <1>2, <2>3, <3>1, <3>2, <3>3 DEF Advancing
  <2> QED BY <1>1, <1>2, <2>1, <2>3, <2>4, <2>5, <2>6, OwnStep DEF At
<1>5. CASE SaveFails(t)
  <2>1. At(t, "save") /\ UNCHANGED <<plan, exec, allowance, restored, disk, calls, licensed>>
    BY <1>5 DEF SaveFails
  <2>2. CASE Finish(t)
    <3>1. job' = [job EXCEPT ![t] = IdleJob]
      BY <2>2 DEF Finish, Become
    <3>2. ~Owes(IdleJob) /\ ~Captured(IdleJob) /\ IdleJob.pc = "idle"
      BY DEF Owes, Captured, Writing, IdleJob
    <3> QED BY <1>1, <1>2, <2>1, <3>1, <3>2, IdleLocals, IdleAdvancing, OwnStep DEF At
  <2>3. ASSUME NEW pc \in {"withdraw", "unrule"}, Goto(t, pc),
               pc = "withdraw" => j.purpose = "checkpoint",
               pc = "unrule" => j.purpose = "decision"
        PROVE  Solo'
    <3> DEFINE k == [j EXCEPT !.pc = pc]
    <3>1. /\ k \in Job /\ k.pc = pc
          /\ k.view = j.view /\ k.goal = j.goal /\ k.step = s /\ k.budget = j.budget
      BY <1>1 DEF Job, PC
    <3>2. job' = [job EXCEPT ![t] = k]
      BY <2>3 DEF Goto, Become
    <3> HIDE DEF k
    <3>3. /\ k.pc = "withdraw" => Owes(j)
          /\ Ruled(k) => Ruled(j)
          /\ ~Owes(k) /\ ~Captured(k) /\ k.pc \notin Deciding \cup {"allowance", "rebindAllowance", "run"}
      BY <2>1, <2>3, <3>1 DEF Owes, Ruled, Captured, Writing, Deciding, At
    <3>4. Advancing(k, exec, allowance, calls, disk, licensed)
      <4>1. InCharge(k, exec)
        BY <1>2, <2>1, <2>3, <3>1, <3>3 DEF Advancing, InCharge, At
      <4>2. LicensedJob(k, licensed, disk.exec, exec)
        BY <1>2, <2>3, <3>1, <3>3 DEF Advancing, LicensedJob
      <4>3. BudgetJob(k, allowance, calls, disk.allowance)
        BY <1>2, <2>3, <3>1, <3>3 DEF Advancing, BudgetJob
      <4> QED BY <1>2, <3>1, <4>1, <4>2, <4>3 DEF Advancing
    <3> QED BY <1>1, <1>2, <2>1, <3>1, <3>2, <3>3, <3>4, OwnStep DEF At
  <2>4. j.purpose \in Purpose
    BY <1>1 DEF Job
  <2> QED BY <1>5, <2>2, <2>3, <2>4 DEF SaveFails, Purpose
<1> QED BY <1>3, <1>4, <1>5

\* A document is written: what it holds was true, or is closed.
LEMMA SoloSave ==
    ASSUME ConfigAssumption, Sole, DataInv, JobInv, Values, Solo, NEW t \in Threads, Save(t)
    PROVE  Solo'
<1> DEFINE j == job[t]
<1>1. /\ At(t, "save") /\ disk' = j.doc
      /\ UNCHANGED <<plan, exec, allowance, restored, calls, licensed>>
  BY DEF Save
<1>2. /\ j \in Job /\ Sound(j.doc.exec) /\ j.doc.exec \in Execution
      /\ exec \in Execution /\ Sound(exec) /\ JobAgrees(j)
  BY Standing
<1> DEFINE k == IF j.purpose = "checkpoint" THEN [j EXCEPT !.pc = "run"] ELSE IdleJob
<1>3. job' = [job EXCEPT ![t] = k]
  BY DEF Save, Goto, Finish, Become
<1>4. /\ j.purpose = "checkpoint" =>
            /\ k.pc = "run" /\ k.view = j.view /\ k.goal = j.goal /\ k.step = j.step
            /\ k.budget = j.budget
      /\ j.purpose # "checkpoint" => k = IdleJob
  BY <1>2 DEF Job
<1>5. /\ \A u \in Threads : job'[u] = IF u = t THEN k ELSE job[u]
      /\ \A u, v \in Advancers : u = v
      /\ t \in Advancers \/ t \notin Advancers
  BY <1>3 DEF JobInv, Sole
<1> HIDE DEF k
<1>6. /\ ~Captured(k) /\ ~Ruled(k)
      /\ Owes(k) => Owes(j) /\ k.pc = "run" /\ k.step = j.step
      /\ k.pc \in {"idle", "run"} /\ k.pc \notin Deciding \cup Writing
  BY <1>1, <1>4 DEF Captured, Ruled, Owes, Writing, Deciding, IdleJob, At
<1>7. Shut(exec) => Untried(exec) = {} /\ Interrupted(exec) = {}
  BY <1>2, CancelledEmpty DEF Shut
<1>8. Shut(j.doc.exec) => Untried(j.doc.exec) = {}
  BY <1>2, CancelledEmpty DEF Shut
<1>9. t \notin Advancers => Shut(exec) /\ Shut(j.doc.exec) /\ k = IdleJob
  BY <1>1, <1>4 DEF Solo, Control, Bystander, Captured, At
<1>10. /\ exec.status # "absent" /\ j.doc.exec.status # "absent"
       /\ exec = j.doc.exec \/ Shut(exec)
  BY <1>1, <1>9 DEF Solo, Control, InCharge, Captured, Shut, At
<1>11. Untried(j.doc.exec) \subseteq licensed
  BY <1>1, <1>8, <1>9 DEF Solo, Licences, LicensedJob, Captured, At
<1>12. Control'
  <2>1. ASSUME NEW u \in Threads, u # t
        PROVE  IF u \in Advancers THEN InCharge(job[u], exec) ELSE Bystander(job[u], exec)
    BY DEF Solo, Control
  <2>2. IF t \in Advancers THEN InCharge(k, exec) ELSE Bystander(k, exec)
    <3>1. CASE k = IdleJob
      BY <3>1, IdleAdvancing DEF Advancing
    <3>2. CASE k # IdleJob /\ t \in Advancers
      BY <1>4, <1>6, <1>10, <3>2 DEF Solo, Control, InCharge, Owes
    <3> QED BY <1>9, <3>1, <3>2
  <2>3. \A u \in Threads : IF u \in Advancers THEN InCharge(job'[u], exec) ELSE Bystander(job'[u], exec)
    BY <1>5, <2>1, <2>2
  <2> QED BY <1>1, <2>3 DEF Control, InCharge, Bystander, Shut, Owes, Ruled, Captured
<1>13. Licences'
  <2>1. Licensed(exec, disk.exec, licensed)
    BY <1>10 DEF Solo, Licences
  <2>2. Licensed(exec, j.doc.exec, licensed)
    BY <1>7, <1>10, <2>1 DEF Licensed, Begun, Interrupted, InStatus
  <2>3. ASSUME NEW u \in Advancers PROVE LicensedJob(job'[u], licensed, j.doc.exec, exec)
    <3>1. CASE u = t
      <4>1. CASE k = IdleJob
        BY <1>5, <3>1, <4>1, IdleAdvancing DEF Advancing
      <4>2. CASE k # IdleJob
        <5>1. LicensedJob(j, licensed, disk.exec, exec) /\ Captured(j) /\ Owes(j)
          BY <1>1, <1>4, <3>1, <4>2 DEF Solo, Licences, Captured, Owes, Writing, At
        <5>2. LicensedJob(k, licensed, j.doc.exec, exec)
          BY <1>4, <1>6, <4>2, <5>1 DEF LicensedJob
        <5> QED BY <1>5, <3>1, <5>2
      <4> QED BY <4>1, <4>2
    <3>2. CASE u # t
      <4>1. Shut(exec) /\ Shut(j.doc.exec) /\ LicensedJob(job[u], licensed, disk.exec, exec)
        BY <1>5, <1>9, <3>2 DEF Solo, Licences
      <4>2. LicensedJob(job[u], licensed, j.doc.exec, exec)
        BY <1>8, <4>1 DEF LicensedJob
      <4> QED BY <1>5, <3>2, <4>2 DEF Threads
    <3> QED BY <3>1, <3>2
  <2> QED BY <1>1, <1>10, <1>11, <2>2, <2>3
         DEF Licences, Licensed, LicensedJob, Begun, Shut, Owes, Ruled, Captured
<1>14. Rebinding' => Rebinding
  BY <1>5, <1>6 DEF Rebinding, At, Threads
<1>15. Budget'
  <2>1. \A r : Cost(r)' = Cost(r)
    BY <1>1 DEF Cost
  <2>2. Fits(j.doc.allowance, calls) /\ Fits(allowance, calls)
    BY <1>1 DEF Solo, Budget
  <2>3. ASSUME NEW u \in Advancers PROVE BudgetJob(job'[u], allowance, calls, j.doc.allowance)
    <3>1. /\ BudgetJob(job[u], allowance, calls, disk.allowance)
          /\ Owes(job[u]) => FitsOne(j.doc.allowance, calls, job[u].step)
      BY <1>1 DEF Solo, Budget
    <3>2. CASE u # t
      <4>1. BudgetJob(job[u], allowance, calls, j.doc.allowance)
        BY <3>1 DEF BudgetJob, Owes
      <4> QED BY <1>5, <3>2, <4>1 DEF Threads
    <3>3. CASE u = t /\ k = IdleJob
      BY <1>5, <3>3, IdleAdvancing DEF Advancing
    <3>4. CASE u = t /\ k # IdleJob
      <4>1. Owes(j) /\ k.pc = "run" /\ k.step = j.step /\ k.budget = j.budget
        BY <1>1, <1>4, <3>4 DEF Owes, Writing, At
      <4>2. BudgetJob(k, allowance, calls, j.doc.allowance)
        BY <3>1, <3>4, <4>1 DEF BudgetJob
      <4> QED BY <1>5, <3>4, <4>2
    <3> QED BY <3>2, <3>3, <3>4
  <2>4. ASSUME NEW u \in Threads, job'[u].pc = "save"
        PROVE  /\ Fits(job'[u].doc.allowance, calls)
               /\ \A v \in Advancers :
                     Owes(job'[v]) => FitsOne(job'[u].doc.allowance, calls, job'[v].step)
    <3>1. u # t /\ job'[u] = job[u] /\ At(u, "save")
      BY <1>5, <1>6, <2>4 DEF At
    <3>2. \A v \in Advancers : Owes(job'[v]) => Owes(job[v]) /\ job'[v].step = job[v].step
      BY <1>4, <1>5, <1>6 DEF Threads
    <3> QED BY <3>1, <3>2 DEF Solo, Budget
  <2>5. exec'.status = "absent" \/ Rebinding' => Fits(restored.allowance, calls)
    BY <1>1, <1>10, <1>14 DEF Solo, Budget
  <2>6. \A u \in Advancers : BudgetJob(job[u], allowance, calls, disk.allowance)'
    BY <1>1, <2>1, <2>3 DEF BudgetJob, Fits, FitsOne, Covers, Affords, Charged, Owes
  <2>7. \A u \in Threads : At(u, "save")' =>
          /\ Fits(job[u].doc.allowance, calls)'
          /\ \A v \in Advancers : Owes(job[v])' => FitsOne(job[u].doc.allowance, calls, job[v].step)'
    BY <1>1, <2>1, <2>4 DEF Owes, At, Fits, FitsOne, Covers
  <2> QED BY <1>1, <1>10, <2>2, <2>5, <2>6, <2>7 DEF Budget, Fits, Covers
<1>16. Metering'
  <2>1. Late => Late'
    BY <1>1, <1>5, <1>6 DEF Late, Shut, Captured
  <2>2. ~Rebinding => Late \/ (j.doc.allowance.granted <=> allowance.granted)
    BY <1>1, <1>10 DEF Solo, Metering
  <2>3. ASSUME NEW u \in Threads, job'[u].pc = "save", ~Rebinding
        PROVE  Late \/ (job'[u].doc.allowance.granted <=> allowance.granted)
    BY <1>5, <1>6, <1>10, <2>3 DEF Solo, Metering, At
  <2>4. Rebinding' => Rebinding /\ Shut(exec)
    BY <1>1, <1>5, <1>9, <1>14 DEF Rebinding, At, Threads
  <2>5. Rebinding => Rebinding'
    BY <1>1, <1>5 DEF Rebinding, At, Threads
  <2> QED BY <1>1, <1>10, <2>1, <2>2, <2>3, <2>4, <2>5 DEF Solo, Metering, Shut, At
<1>17. Explanations'
  <2>1. Explains(j.doc.exec, j.doc.allowance.granted)
    BY <1>1 DEF Solo, Explanations
  <2>2. \A u \in Advancers :
           Explains(job'[u].view, allowance.granted) /\ Explains(job'[u].goal, allowance.granted)
    <3>1. \A g : Explains(IdleJob.view, g) /\ Explains(IdleJob.goal, g)
      BY DEF IdleJob, Explains, Absent
    <3> QED BY <1>4, <1>5, <3>1 DEF Solo, Explanations, Threads
  <2>3. Explains(exec, Rebinding' \/ allowance.granted)
    <3>1. Rebinding => Rebinding'
      BY <1>1, <1>5 DEF Rebinding, At, Threads
    <3> QED BY <1>14, <3>1 DEF Solo, Explanations, Explains
  <2>4. ASSUME NEW u \in Threads
        PROVE  /\ job'[u].pc = "captureAllowance" => Explains(job'[u].doc.exec, allowance.granted)
               /\ job'[u].pc = "save" => Explains(job'[u].doc.exec, job'[u].doc.allowance.granted)
    BY <1>5, <1>6 DEF Solo, Explanations, At, Writing
  <2> QED BY <1>1, <1>10, <2>1, <2>2, <2>3, <2>4 DEF Explanations, Explains, At
<1> QED BY <1>12, <1>13, <1>15, <1>16, <1>17 DEF Solo

\* A thread beside the one in charge: it has closed the execution, or writes
\* down that it is closed.
LEMMA OtherStep ==
    ASSUME ConfigAssumption, Sole, JobInv, DataInv, Solo, NEW t \in Threads, t \notin Advancers,
           NEW k \in Job, job' = [job EXCEPT ![t] = k],
           UNCHANGED <<plan, allowance, restored, disk, calls, licensed>>,
           exec.status # "absent", exec' = exec \/ ~Shut(exec), exec' \in Execution,
           Sound(exec'), Shut(exec'), Bystander(k, exec'),
           Captured(k) => ~Explained(k.doc.exec),
           k.pc = "save" => k.doc.allowance = allowance
    PROVE  Solo'
<1>1. /\ \A u \in Threads : job'[u] = IF u = t THEN k ELSE job[u]
      /\ \A u \in Advancers : job'[u] = job[u] /\ u \in Threads
  BY DEF JobInv, Threads
<1>2. /\ Untried(exec') = {} /\ Interrupted(exec') = {} /\ ~Explained(exec')
      /\ exec'.status # "absent"
  BY CancelledEmpty DEF Shut
<1>3. Rebinding' = Rebinding
  BY <1>1 DEF Rebinding, At
<1>4. k.pc \in {"idle"} \cup Writing /\ (Captured(k) => Shut(k.doc.exec))
  BY DEF Bystander
<1>5. Control'
  <2>1. ASSUME NEW u \in Threads
        PROVE  IF u \in Advancers THEN InCharge(job'[u], exec') ELSE Bystander(job'[u], exec')
    <3>1. CASE u \in Advancers
      BY <1>1, <1>2, <3>1 DEF Solo, Control, InCharge
    <3>2. CASE u \notin Advancers /\ u # t
      BY <1>1, <3>2 DEF Solo, Control, Bystander
    <3>3. CASE u = t
      BY <1>1, <3>3
    <3> QED BY <3>1, <3>2, <3>3
  <2> QED BY <2>1 DEF Control, InCharge, Bystander, Shut, Owes, Ruled, Captured
<1>6. Licences'
  <2>1. ASSUME NEW u \in Advancers PROVE LicensedJob(job'[u], licensed, disk.exec, exec')
    BY <1>1 DEF Solo, Licences, LicensedJob
  <2>2. Licensed(exec', disk.exec, licensed) /\ Untried(disk.exec) \subseteq licensed
    BY <1>2 DEF Solo, Licences, Licensed
  <2> QED BY <1>2, <2>1, <2>2
         DEF Licences, Licensed, LicensedJob, Begun, Shut, Owes, Ruled, Captured
<1>7. Budget'
  <2>1. \A r : Cost(r)' = Cost(r)
    BY DEF Cost
  <2>2. ASSUME NEW u \in Advancers
        PROVE  BudgetJob(job'[u], allowance, calls, disk.allowance)
    BY <1>1 DEF Solo, Budget
  <2>3. ASSUME NEW u \in Threads, job'[u].pc = "save"
        PROVE  /\ Fits(job'[u].doc.allowance, calls)
               /\ \A v \in Advancers :
                     Owes(job'[v]) => FitsOne(job'[u].doc.allowance, calls, job'[v].step)
    <3>1. CASE u # t
      BY <1>1, <2>3, <3>1 DEF Solo, Budget, At
    <3>2. CASE u = t
      <4>1. job'[u].doc.allowance = allowance /\ Fits(allowance, calls)
        BY <1>1, <2>3, <3>2 DEF Solo, Budget
      <4>2. ASSUME NEW v \in Advancers, Owes(job'[v]) PROVE FitsOne(allowance, calls, job'[v].step)
        <5>1. job'[v] \in Job /\ allowance \in Allowance /\ calls \in Calls
          BY <1>1 DEF JobInv, DataInv
        <5> QED BY <2>2, <4>2, <5>1, OwedCovered
      <4> QED BY <4>1, <4>2
    <3> QED BY <3>1, <3>2
  <2>4. Rebinding => Fits(restored.allowance, calls)
    BY DEF Solo, Budget
  <2>5. /\ Fits(allowance, calls) /\ Fits(disk.allowance, calls)
        /\ disk.exec.status = "absent" => calls = NoCalls
    BY DEF Solo, Budget
  <2>6. \A u \in Advancers : BudgetJob(job[u], allowance, calls, disk.allowance)'
    BY <2>1, <2>2 DEF BudgetJob, Fits, FitsOne, Covers, Affords, Charged, Owes
  <2>7. \A u \in Threads : At(u, "save")' =>
          /\ Fits(job[u].doc.allowance, calls)'
          /\ \A v \in Advancers : Owes(job[v])' => FitsOne(job[u].doc.allowance, calls, job[v].step)'
    BY <2>1, <2>3 DEF Owes, At, Fits, FitsOne, Covers
  <2> QED BY <1>2, <1>3, <2>4, <2>5, <2>6, <2>7 DEF Budget, Fits, Covers
<1>8. Metering'
  <2>1. Late => Late'
    BY <1>1, <1>4 DEF Late, Shut, Captured
  <2>2. ASSUME NEW u \in Threads, job'[u].pc = "save", ~Rebinding
        PROVE  Late \/ (job'[u].doc.allowance.granted <=> allowance.granted)
    BY <1>1, <2>2 DEF Solo, Metering, At
  <2> QED BY <1>1, <1>2, <1>3, <2>1, <2>2 DEF Solo, Metering, Shut, At
<1>9. Explanations'
  <2>1. Explains(exec', Rebinding \/ allowance.granted)
    BY <1>2 DEF Explains, Explained
  <2>2. ASSUME NEW u \in Threads
        PROVE  /\ job'[u].pc = "captureAllowance" => Explains(job'[u].doc.exec, allowance.granted)
               /\ job'[u].pc = "save" => Explains(job'[u].doc.exec, job'[u].doc.allowance.granted)
    <3>1. CASE u # t
      BY <1>1, <3>1 DEF Solo, Explanations, At
    <3>2. CASE u = t
      BY <1>1, <3>2 DEF Captured, Explains, Explained
    <3> QED BY <3>1, <3>2
  <2>3. ASSUME NEW u \in Advancers
        PROVE  Explains(job'[u].view, allowance.granted) /\ Explains(job'[u].goal, allowance.granted)
    BY <1>1 DEF Solo, Explanations
  <2> QED BY <1>2, <1>3, <2>1, <2>2, <2>3 DEF Solo, Explanations, Explains, At
<1> QED BY <1>5, <1>6, <1>7, <1>8, <1>9 DEF Solo

\* A thread beside the one in charge only writes down that the execution is closed.
LEMMA SoloBystander ==
    ASSUME ConfigAssumption, Sole, DataInv, JobInv, Values, Solo,
           NEW t \in Threads, t \notin Advancers, Continue(t)
    PROVE  Solo'
<1> DEFINE j == job[t]
<1>1. /\ j \in Job /\ j.doc \in Snapshot /\ Sound(j.doc.exec) /\ exec \in Execution /\ Sound(exec)
  BY Standing
<1>2. Bystander(j, exec)
  BY DEF Solo, Control
<1>3. j.pc # "idle"
  BY DEF Continue, CheckAllowance, Charge, CommitStart, Refund, Capture, CaptureAllowance, Save,
         SaveFails, Withdraw, Uncharge, Run, Decline, RecordRevalidation, Return, CommitOutcome,
         CommitRuling, Unrule, RebindExecution, RebindAllowance, At
<1>4. j.pc \in Writing /\ j.purpose = "report" /\ Shut(exec) /\ (Captured(j) => Shut(j.doc.exec))
  BY <1>2, <1>3 DEF Bystander
<1>5. Capture(t) \/ CaptureAllowance(t) \/ Save(t) \/ SaveFails(t)
  BY <1>4 DEF Continue, CheckAllowance, Charge, CommitStart, Refund, Withdraw, Uncharge, Run,
              Decline, RecordRevalidation, Return, CommitOutcome, CommitRuling, Unrule,
              RebindExecution, RebindAllowance, At, Writing
<1>6. exec.status # "absent" /\ ~Explained(exec)
  BY <1>1, <1>4, CancelledEmpty DEF Shut
<1>7. CASE Capture(t)
  <2> DEFINE doc == [j.doc EXCEPT !.exec = exec]
             k == [j EXCEPT !.pc = "captureAllowance", !.doc = doc]
  <2>1. doc \in Snapshot /\ doc.exec = exec
    BY <1>1 DEF Snapshot
  <2>2. k = [j EXCEPT !.pc = "captureAllowance", !.doc.exec = exec]
    BY <1>1 DEF Job
  <2> HIDE DEF doc
  <2>3. k \in Job /\ k.pc = "captureAllowance" /\ k.purpose = j.purpose /\ k.doc = doc
    BY <1>1, <2>1 DEF Job, PC
  <2>4. /\ job' = [job EXCEPT ![t] = k]
        /\ UNCHANGED <<plan, exec, allowance, restored, disk, calls, licensed>>
    BY <1>7, <2>2 DEF Capture, Become
  <2> HIDE DEF k
  <2>5. Bystander(k, exec)
    BY <1>4, <2>1, <2>3 DEF Bystander, Writing
  <2> QED BY <1>1, <1>4, <1>6, <2>1, <2>3, <2>4, <2>5, OtherStep
<1>8. CASE CaptureAllowance(t)
  <2> DEFINE doc == [j.doc EXCEPT !.allowance = allowance]
             k == [j EXCEPT !.pc = "save", !.doc = doc]
  <2>1. doc \in Snapshot /\ doc.exec = j.doc.exec /\ doc.allowance = allowance
    BY <1>1 DEF Snapshot, DataInv
  <2>2. k = [j EXCEPT !.pc = "save", !.doc.allowance = allowance]
    BY <1>1 DEF Job
  <2> HIDE DEF doc
  <2>3. k \in Job /\ k.pc = "save" /\ k.purpose = j.purpose /\ k.doc = doc
    BY <1>1, <2>1 DEF Job, PC
  <2>4. /\ job' = [job EXCEPT ![t] = k] /\ j.pc = "captureAllowance"
        /\ UNCHANGED <<plan, exec, allowance, restored, disk, calls, licensed>>
    BY <1>8, <2>2 DEF CaptureAllowance, Become, At
  <2> HIDE DEF k
  <2>5. Shut(j.doc.exec) /\ ~Explained(j.doc.exec)
    BY <1>1, <1>4, <2>4, CancelledEmpty DEF Captured, Shut
  <2>6. Bystander(k, exec)
    BY <1>4, <2>1, <2>3, <2>5 DEF Bystander, Writing
  <2> QED BY <1>1, <1>4, <1>6, <2>1, <2>3, <2>4, <2>5, <2>6, OtherStep
<1>9. CASE Save(t)
  BY <1>9, SoloSave
<1>10. CASE SaveFails(t)
  <2>1. /\ job' = [job EXCEPT ![t] = IdleJob]
        /\ UNCHANGED <<plan, exec, allowance, restored, disk, calls, licensed>>
    BY <1>4, <1>10 DEF SaveFails, Finish, Become
  <2>2. ~Captured(IdleJob) /\ IdleJob.pc = "idle" /\ Bystander(IdleJob, exec)
    BY IdleAdvancing DEF Captured, IdleJob
  <2> QED BY <1>1, <1>4, <1>6, <2>1, <2>2, IdleLocals, OtherStep
<1> QED BY <1>5, <1>7, <1>8, <1>9, <1>10

LEMMA SoloCancel ==
    ASSUME ConfigAssumption, Sole, DataInv, JobInv, Values, Solo, NEW t \in Threads,
           CancelExecution(t)
    PROVE  Solo'
<1> DEFINE k == [job[t] EXCEPT !.pc = "capture", !.purpose = "report"]
<1>1. /\ At(t, "idle") /\ exec.status # "absent" /\ ~Shut(exec) /\ exec' = Cancel(exec)
      /\ job' = [job EXCEPT ![t] = k]
      /\ UNCHANGED <<plan, allowance, restored, disk, calls, licensed>>
  BY DEF CancelExecution, CanCancel, IsTerminal, Terminal, Shut, Persist, Become
<1>2. /\ exec \in Execution /\ Sound(exec) /\ job[t] \in Job /\ job[t] = IdleJob
      /\ allowance \in Allowance
  BY <1>1, Standing DEF SoundJob, At
<1>3. /\ k \in Job /\ k.pc = "capture" /\ k.purpose = "report"
      /\ k.view = Absent /\ k.goal = Absent
  <2>1. /\ k \in Job /\ k.pc = "capture" /\ k.purpose = "report"
        /\ k.view = job[t].view /\ k.goal = job[t].goal
    BY <1>2 DEF Job, PC, Purpose
  <2>2. job[t].view = Absent /\ job[t].goal = Absent
    BY <1>2 DEF IdleJob
  <2> QED BY <2>1, <2>2
<1>4. exec' \in Execution /\ Sound(exec') /\ Shut(exec') /\ ~Explained(exec')
  BY <1>1, <1>2, CancelType, CancelSound DEF Shut
<1> HIDE DEF k
<1>5. ~Captured(k) /\ ~Owes(k) /\ Bystander(k, exec')
  BY <1>3, <1>4 DEF Captured, Owes, Bystander, Writing
<1>6. CASE t \notin Advancers
  BY <1>1, <1>2, <1>3, <1>4, <1>5, <1>6, OtherStep
<1>7. CASE t \in Advancers
  <2>1. /\ Licensed(exec', disk.exec, licensed) /\ Explains(exec', allowance.granted)
        /\ exec'.status # "absent"
    BY <1>4, CancelledEmpty DEF Licensed, Explains, Explained, Shut
  <2>2. Advancing(k, exec', allowance, calls, disk, licensed)
    BY <1>3, <1>4, <2>1
       DEF Advancing, InCharge, LicensedJob, BudgetJob, Owes, Ruled, Captured, Deciding, Writing,
           Explains, Absent
  <2>3. Fits(allowance, calls)
    BY <1>7, SoloAdvancing
  <2> QED BY <1>1, <1>2, <1>3, <1>4, <1>5, <1>7, <2>1, <2>2, <2>3, OwnStep DEF At
<1> QED BY <1>6, <1>7

\* A ruling licenses the step it leaves to try, and its withdrawal takes that back.
LEMMA SoloRuling ==
    ASSUME ConfigAssumption, Sole, DataInv, JobInv, Values, Solo, NEW t \in Advancers,
           CommitRuling(t) \/ Unrule(t)
    PROVE  Solo'
<1> DEFINE j == job[t]
           s == j.step
<1>1. /\ j \in Job /\ JobAgrees(j)
      /\ j.view \in Execution /\ j.goal \in Execution /\ Sound(j.view) /\ Sound(j.goal)
      /\ exec \in Execution /\ Sound(exec) /\ allowance \in Allowance
  BY Standing DEF Threads
<1>2. /\ Advancing(j, exec, allowance, calls, disk, licensed)
      /\ ~At(t, "idle") /\ ~At(t, "rebind") => exec.status # "absent"
      /\ exec.status # "absent" => Licensed(exec, disk.exec, licensed)
      /\ ~At(t, "rebindAllowance") => ~Rebinding /\ Explains(exec, allowance.granted)
      /\ Fits(allowance, calls) /\ Untried(disk.exec) \subseteq licensed
  BY SoloAdvancing DEF Solo, Licences
<1>3. At(t, "ruling") \/ At(t, "unrule")
  BY DEF CommitRuling, Unrule
<1>4. /\ j.pc \in {"ruling", "unrule"} /\ s \in Steps /\ ~IsTerminal(j.view) /\ ~IsTerminal(j.goal)
      /\ j.view.status \in {"interrupted", "blocked"} /\ j.goal.status # "absent"
      /\ s \notin Untried(j.view)
      /\ j.goal.steps[s].status = "pending" => j.view.steps[s].status = "interrupted"
      /\ exec.status # "absent" /\ ~At(t, "rebindAllowance")
  BY <1>1, <1>2, <1>3 DEF Advancing, InCharge, LicensedJob, Ruled, Deciding, JobAgrees, Decides, At
<1>5. /\ ~Shut(j.view) /\ ~Shut(j.goal) /\ j.view.status # "absent"
  BY <1>4 DEF Shut, IsTerminal, Terminal
<1>6. ~Owes(IdleJob) /\ ~Captured(IdleJob) /\ IdleJob.pc = "idle"
  BY DEF Owes, Captured, Writing, IdleJob
<1>7. ASSUME Finish(t), UNCHANGED <<plan, exec, allowance, restored, disk, calls, licensed>>
      PROVE  Solo'
  <2>1. job' = [job EXCEPT ![t] = IdleJob]
    BY <1>7 DEF Finish, Become
  <2> QED BY <1>1, <1>2, <1>4, <1>6, <1>7, <2>1, IdleLocals, IdleAdvancing, OwnStep
<1>8. CASE CommitRuling(t)
  <2>1. UNCHANGED <<plan, allowance, restored, disk, calls>> /\ j.pc = "ruling"
    BY <1>8 DEF CommitRuling, At
  <2>2. CASE exec # j.view
    BY <1>7, <1>8, <2>2 DEF CommitRuling, Committed
  <2>3. CASE exec = j.view
    <3> DEFINE k == [j EXCEPT !.pc = "capture", !.purpose = "decision"]
    <3>1. /\ k \in Job /\ k.pc = "capture" /\ k.purpose = "decision"
          /\ k.view = j.view /\ k.goal = j.goal /\ k.step = s
      BY <1>1 DEF Job, PC, Purpose
    <3>2. /\ job' = [job EXCEPT ![t] = k] /\ exec' = j.goal
          /\ licensed' = IF j.goal.steps[s].status = "pending" THEN licensed \cup {s} ELSE licensed
      BY <1>8, <2>3 DEF CommitRuling, Committed, Persist, Become
    <3> HIDE DEF k
    <3>3. /\ Untried(j.goal) \subseteq Untried(j.view) \cup {s}
          /\ Interrupted(j.goal) \subseteq Interrupted(j.view)
          /\ Untried(j.view) \subseteq licensed
          /\ \A r \in Interrupted(j.view) : Begun(disk.exec, r)
      BY <1>2, <1>4, <2>1, <2>3 DEF Advancing, LicensedJob, Licensed, Deciding
    <3>4. s \in Untried(j.goal) => j.goal.steps[s].status = "pending"
      BY DEF Untried, InStatus
    <3>5. Licensed(exec', disk.exec, licensed') /\ Untried(disk.exec) \subseteq licensed'
          /\ Untried(j.view) \subseteq licensed'
      BY <1>2, <3>2, <3>3, <3>4 DEF Licensed
    <3>6. Explains(exec', allowance.granted)
      BY <1>2, <3>2 DEF Advancing
    <3>7. ~Owes(k) /\ ~Captured(k)
      BY <3>1 DEF Owes, Captured, Writing
    <3>8. Advancing(k, exec', allowance, calls, disk, licensed')
      BY <1>2, <1>4, <3>1, <3>2, <3>3, <3>5, <3>7
         DEF Advancing, InCharge, LicensedJob, BudgetJob, Ruled, Deciding, Writing
    <3> QED BY <1>1, <1>2, <1>4, <1>5, <2>1, <2>3, <3>1, <3>2, <3>5, <3>6, <3>7, <3>8, AnyStep
  <2> QED BY <2>2, <2>3
<1>9. CASE Unrule(t)
  <2>1. UNCHANGED <<plan, allowance, restored, disk, calls>> /\ j.pc = "unrule"
        /\ job' = [job EXCEPT ![t] = IdleJob]
    BY <1>9 DEF Unrule, At, Finish, Become
  <2>2. CASE exec # j.goal
    BY <1>7, <1>9, <2>2 DEF Unrule, Committed
  <2>3. CASE exec = j.goal
    <3>1. /\ exec' = j.view
          /\ licensed' = IF j.goal.steps[s].status = "pending" THEN licensed \ {s} ELSE licensed
      BY <1>9, <2>3 DEF Unrule, Committed
    <3>2. Untried(j.view) \subseteq licensed /\ \A r \in Interrupted(j.view) : Begun(disk.exec, r)
      BY <1>2, <1>5, <2>1, <2>3 DEF Advancing, LicensedJob, Ruled
    <3>3. j.goal.steps[s].status = "pending" => s \notin Untried(disk.exec)
      BY <1>4, <3>2 DEF Interrupted, Untried, InStatus, Begun
    <3>4. Licensed(exec', disk.exec, licensed') /\ Untried(disk.exec) \subseteq licensed'
      BY <1>2, <1>4, <3>1, <3>2, <3>3 DEF Licensed
    <3>5. Explains(exec', allowance.granted)
      BY <1>2, <3>1 DEF Advancing
    <3> QED BY <1>1, <1>2, <1>4, <1>5, <1>6, <2>1, <2>3, <3>1, <3>4, <3>5, IdleLocals, IdleAdvancing,
               AnyStep
  <2> QED BY <2>2, <2>3
<1> QED BY <1>8, <1>9

\* The operation is entered: its licence is used up, and it was charged for.
LEMMA SoloRun ==
    ASSUME ConfigAssumption, Sole, DataInv, JobInv, Values, Solo, NEW t \in Advancers, Run(t)
    PROVE  Solo'
<1> DEFINE j == job[t]
           s == j.step
           k == [j EXCEPT !.pc = "provider"]
<1>1. /\ t \in Threads /\ j \in Job /\ JobAgrees(j) /\ SoundJob(j)
      /\ exec \in Execution /\ Sound(exec) /\ allowance \in Allowance
      /\ Sound(disk.exec) /\ Sound(j.goal)
  BY Standing DEF Threads
<1>2. /\ Advancing(j, exec, allowance, calls, disk, licensed)
      /\ ~At(t, "idle") /\ ~At(t, "rebind") => exec.status # "absent"
      /\ exec.status # "absent" => Licensed(exec, disk.exec, licensed)
      /\ ~At(t, "rebindAllowance") => ~Rebinding /\ Explains(exec, allowance.granted)
      /\ Fits(allowance, calls) /\ Untried(disk.exec) \subseteq licensed
  BY SoloAdvancing DEF Solo, Licences
<1>3. /\ At(t, "run") /\ job' = [job EXCEPT ![t] = k] /\ licensed' = licensed \ {s}
      /\ UNCHANGED <<plan, exec, allowance, restored, disk>>
      /\ calls'.made = calls.made + 1 /\ calls'.network = calls.network + Cost(s)
  BY DEF Run, Goto, Become, DataInv, Calls
<1>4. k.pc = "provider" /\ k.view = j.view /\ k.goal = j.goal
  BY <1>1 DEF Job
<1>5. /\ \A u \in Threads : job'[u] = IF u = t THEN k ELSE job[u]
      /\ \A u \in Advancers : u = t
  BY <1>3 DEF JobInv, Sole
<1> HIDE DEF k
<1>6. /\ s \in Steps /\ j.goal.steps[s].status = "running" /\ s \notin Untried(disk.exec) /\ Owes(j)
      /\ exec = j.goal \/ Shut(exec)
      /\ exec.status # "absent" /\ ~Rebinding
  BY <1>1, <1>2, <1>3
     DEF JobAgrees, MakesAttempt, SoundJob, Advancing, LicensedJob, InCharge, Owes, At
<1>7. ~Owes(k) /\ ~Captured(k) /\ ~Ruled(k) /\ k.pc \notin Deciding
  BY <1>4 DEF Owes, Captured, Ruled, Writing, Deciding
<1>8. s \notin Untried(exec)
  <2>1. CASE exec = j.goal
    BY <1>6, <2>1 DEF Untried, InStatus
  <2>2. CASE Shut(exec)
    BY <1>1, <2>2, CancelledEmpty DEF Shut
  <2> QED BY <1>6, <2>1, <2>2
<1>9. ~Rebinding'
  BY <1>1, <1>4, <1>5 DEF Rebinding, At
<1>10. Control'
  <2>1. ASSUME NEW u \in Threads
        PROVE  IF u \in Advancers THEN InCharge(job'[u], exec) ELSE Bystander(job'[u], exec)
    <3>1. CASE u \in Advancers
      <4>1. InCharge(k, exec)
        BY <1>2, <1>3, <1>4, <1>6, <1>7 DEF Advancing, InCharge, Owes
      <4> QED BY <1>1, <1>5, <3>1, <4>1
    <3>2. CASE u \notin Advancers
      BY <1>5, <3>2 DEF Solo, Control
    <3> QED BY <3>1, <3>2
  <2> QED BY <1>3, <2>1 DEF Control, InCharge, Bystander, Shut, Owes, Ruled, Captured
<1>11. Licences'
  <2>1. Licensed(exec, disk.exec, licensed') /\ Untried(disk.exec) \subseteq licensed'
    BY <1>2, <1>3, <1>6, <1>8 DEF Licensed
  <2>2. \A u \in Advancers : LicensedJob(job'[u], licensed', disk.exec, exec)
    BY <1>1, <1>4, <1>5, <1>7 DEF LicensedJob
  <2> QED BY <1>3, <1>6, <2>1, <2>2
         DEF Licences, Licensed, LicensedJob, Begun, Shut, Owes, Ruled, Captured
<1>12. Budget'
  <2>1. \A a : FitsOne(a, calls, s) => Covers(a, calls'.made, calls'.network)
    BY <1>3 DEF FitsOne
  <2>2. FitsOne(allowance, calls, s)
    BY <1>1, <1>2, <1>6, OwedCovered DEF Advancing, DataInv
  <2>3. FitsOne(disk.allowance, calls, s)
    BY <1>2, <1>3 DEF Advancing, BudgetJob, At
  <2>4. ASSUME NEW u \in Threads, job'[u].pc = "save"
        PROVE  FitsOne(job'[u].doc.allowance, calls, s)
    BY <1>1, <1>4, <1>5, <1>6, <2>4 DEF Solo, Budget, At
  <2>5. disk.exec.status # "absent"
    <3>1. Untried(Absent) = Steps
      BY StartedSound
    <3> QED BY <1>1, <1>6, <3>1 DEF Sound
  <2>6. \A u \in Advancers : ~Owes(job'[u]) /\ BudgetJob(job[u], allowance, calls, disk.allowance)'
    BY <1>1, <1>4, <1>5, <1>7 DEF BudgetJob, Owes
  <2>7. \A u \in Advancers : ~Owes(job[u])'
    BY <2>6 DEF Owes
  <2>8. \A u \in Threads : At(u, "save")' => Fits(job[u].doc.allowance, calls)'
    BY <2>1, <2>4 DEF Fits, At, Covers
  <2>9. Fits(allowance, calls)' /\ Fits(disk.allowance, calls)'
    BY <1>3, <2>1, <2>2, <2>3 DEF Fits, Covers
  <2> QED BY <1>3, <1>6, <1>9, <2>5, <2>6, <2>7, <2>8, <2>9 DEF Budget
<1>13. Metering'
  <2>1. Late => Late'
    BY <1>3, <1>5, <1>7 DEF Late, Shut, Captured
  <2>2. Late \/ (disk.allowance.granted <=> allowance.granted)
    BY <1>3, <1>6 DEF Solo, Metering
  <2>3. ASSUME NEW u \in Threads, job'[u].pc = "save"
        PROVE  Late \/ (job'[u].doc.allowance.granted <=> allowance.granted)
    BY <1>1, <1>4, <1>5, <1>6, <2>3 DEF Solo, Metering, At
  <2> QED BY <1>3, <1>6, <1>9, <2>1, <2>2, <2>3 DEF Metering, At
<1>14. Explanations'
  <2>1. Explains(exec, allowance.granted)
    BY <1>2, <1>3 DEF At
  <2>2. ASSUME NEW u \in Threads
        PROVE  /\ job'[u].pc = "captureAllowance" => Explains(job'[u].doc.exec, allowance.granted)
               /\ job'[u].pc = "save" => Explains(job'[u].doc.exec, job'[u].doc.allowance.granted)
    BY <1>1, <1>4, <1>5 DEF Solo, Explanations, At
  <2>3. ASSUME NEW u \in Advancers
        PROVE  Explains(job'[u].view, allowance.granted) /\ Explains(job'[u].goal, allowance.granted)
    BY <1>1, <1>2, <1>4, <1>5 DEF Advancing
  <2> QED BY <1>3, <1>6, <1>9, <2>1, <2>2, <2>3 DEF Solo, Explanations, Explains, At
<1> QED BY <1>10, <1>11, <1>12, <1>13, <1>14 DEF Solo

\* A rebind only reads: the recorded execution, which nobody else has made live.
LEMMA SoloBeginRebind ==
    ASSUME ConfigAssumption, Sole, DataInv, JobInv, Values, Solo, NEW t \in Advancers,
           BeginRebind(t)
    PROVE  Solo'
<1>1. /\ exec = Absent /\ exec.status = "absent"
      /\ UNCHANGED <<plan, exec, allowance, restored, disk, calls, licensed>>
  BY DEF BeginRebind, Absent
<1>2. t \in Threads /\ IdleJob.step = NoStep /\ IdleJob.view = Absent /\ IdleJob.goal = Absent
      /\ IdleJob \in Job
  BY IdleLocals DEF Threads, IdleJob
<1>3. PICK step : job' = [job EXCEPT ![t] = [IdleJob EXCEPT !.pc = "rebind", !.doc = restored,
                                                            !.step = step]]
  <2>1. [IdleJob EXCEPT !.pc = "rebind", !.doc = restored]
           = [IdleJob EXCEPT !.pc = "rebind", !.doc = restored, !.step = NoStep]
    BY <1>2 DEF Job
  <2> QED BY <2>1 DEF BeginRebind, Become
<1> DEFINE k == [IdleJob EXCEPT !.pc = "rebind", !.doc = restored, !.step = step]
<1>4. k.pc = "rebind" /\ k.view = Absent /\ k.goal = Absent
  BY <1>2 DEF Job
<1>5. /\ \A u \in Threads : job'[u] = IF u = t THEN k ELSE job[u]
      /\ \A u \in Advancers : u = t
  BY <1>3 DEF JobInv, Sole
<1> HIDE DEF k
<1>6. \A u \in Threads \ {t} : job[u].pc = "idle" /\ u \notin Advancers
  BY <1>1, <1>2, <1>5 DEF Solo, Control, Bystander, Shut
<1>7. ~Owes(k) /\ ~Ruled(k) /\ ~Captured(k) /\ k.pc \notin Deciding
  BY <1>4 DEF Owes, Ruled, Captured, Deciding, Writing
<1>8. /\ \A u \in Threads : ~At(u, "save")' /\ ~At(u, "captureAllowance")' /\ ~At(u, "run")'
      /\ ~Rebinding'
  BY <1>2, <1>4, <1>5, <1>6 DEF Rebinding, At
<1>9. Control'
  <2>1. InCharge(k, exec)
    BY <1>4, <1>7 DEF InCharge, Deciding
  <2>2. \A u \in Threads : IF u \in Advancers THEN InCharge(job'[u], exec) ELSE Bystander(job'[u], exec)
    BY <1>2, <1>5, <2>1 DEF Solo, Control
  <2> QED BY <1>1, <2>2 DEF Control, InCharge, Bystander, Shut, Owes, Ruled, Captured
<1>10. Licences'
  <2>1. LicensedJob(k, licensed, disk.exec, exec)
    BY <1>4, <1>7 DEF LicensedJob
  <2>2. \A u \in Advancers : LicensedJob(job'[u], licensed, disk.exec, exec)
    BY <1>2, <1>5, <2>1
  <2> QED BY <1>1, <2>2 DEF Solo, Licences, Licensed, LicensedJob, Begun, Shut, Owes, Ruled, Captured
<1>11. Budget'
  <2>1. \A u \in Advancers : BudgetJob(job[u], allowance, calls, disk.allowance)'
    BY <1>2, <1>4, <1>5, <1>7 DEF BudgetJob, Owes
  <2> QED BY <1>1, <1>8, <2>1 DEF Solo, Budget, Fits, Covers
<1>12. Metering'
  BY <1>1, <1>8 DEF Solo, Metering
<1>13. Explanations'
  <2>1. \A u \in Advancers : job'[u].view = Absent /\ job'[u].goal = Absent
    BY <1>2, <1>4, <1>5
  <2>2. \A granted : Explains(Absent, granted)
    BY StartedSound DEF Explains, Explained
  <2> QED BY <1>1, <1>8, <2>1, <2>2 DEF Solo, Explanations, Explains
<1> QED BY <1>9, <1>10, <1>11, <1>12, <1>13 DEF Solo

\* The recorded execution becomes live: it has what the record had left to
\* try, and no more in doubt.
LEMMA SoloRebindExecution ==
    ASSUME ConfigAssumption, Sole, DataInv, JobInv, Values, Solo, NEW t \in Advancers,
           RebindExecution(t)
    PROVE  Solo'
<1> DEFINE e == restored.exec
           j == job[t]
<1>1. /\ t \in Threads /\ j \in Job /\ JobAgrees(j) /\ SoundJob(j) /\ InCharge(j, exec)
      /\ j.pc = "rebind" /\ Rebinds(j)
  BY Standing DEF Threads, RebindExecution, At, Rebinds, Solo, Control
<1>2. /\ exec = Absent /\ j.doc = restored /\ Resumable(e) /\ restored.allowance.granted
      /\ UNCHANGED <<plan, allowance, restored, disk, calls, licensed>>
  <2>1. RebindsFirst
    BY SoleRebinds DEF JobInv, Together
  <2> QED BY <1>1, <2>1 DEF RebindsFirst, At, JobAgrees, RebindExecution
<1>3. /\ e \in Execution /\ Sound(e) /\ exec.status = "absent"
      /\ j.view = Absent /\ j.goal = Absent
  BY <1>1, <1>2 DEF DataInv, Snapshot, Values, Kept, Absent, InCharge
<1>4. /\ Licensed(e, disk.exec, licensed) /\ Untried(disk.exec) \subseteq licensed
      /\ restored.allowance = disk.allowance /\ allowance = NoAllowance
      /\ e.pause = NoStep
      /\ Fits(allowance, calls) /\ Fits(disk.allowance, calls) /\ Fits(restored.allowance, calls)
      /\ disk.exec.status = "absent" => calls = NoCalls
      /\ Explains(disk.exec, disk.allowance.granted)
  BY <1>2, <1>3 DEF Solo, Licences, Budget, Metering, Explanations, Explains
<1>5. /\ Sound(exec') /\ exec'.status # "absent"
      /\ Untried(exec') = Untried(e) /\ Interrupted(exec') \subseteq Interrupted(e)
      /\ exec'.pause = NoStep
  <2>1. /\ Rebound(e) \in Execution /\ Sound(Rebound(e)) /\ Rebound(e).status = e.status
        /\ Untried(Rebound(e)) = Untried(e) /\ Interrupted(Rebound(e)) = Interrupted(e)
        /\ Rebound(e).pause = e.pause
        /\ \A s \in Steps : Rebound(e).steps[s].status = e.steps[s].status
    BY <1>2, <1>3, ReboundSound, RestartType
  <2>2. exec' = IF j.step = NoStep THEN Rebound(e) ELSE CompleteFromRecord(Rebound(e), j.step)
    BY <1>2 DEF RebindExecution
  <2>3. CASE j.step = NoStep
    BY <1>2, <1>4, <2>1, <2>2, <2>3 DEF Resumable
  <2>4. CASE j.step # NoStep
    <3>1. j.step \in Steps /\ Rebound(e).steps[j.step].status = "interrupted"
      BY <1>1, <1>2, <2>1, <2>4 DEF SoundJob, DataInv, Calls
    <3>2. /\ Sound(exec') /\ ~Explained(exec')
          /\ exec'.status \in {"interrupted", "completed", "running"}
          /\ Untried(exec') = Untried(Rebound(e))
          /\ Interrupted(exec') \subseteq Interrupted(Rebound(e))
      BY <2>1, <2>2, <2>4, <3>1, CompleteFromRecordSound
    <3> QED BY <2>1, <3>2 DEF Explained
  <2> QED BY <2>3, <2>4
<1> DEFINE k == [j EXCEPT !.pc = "rebindAllowance"]
<1>6. k.pc = "rebindAllowance" /\ k.view = Absent /\ k.goal = Absent
  BY <1>1, <1>3 DEF Job
<1>7. /\ \A u \in Threads : job'[u] = IF u = t THEN k ELSE job[u]
      /\ \A u \in Advancers : u = t
  BY DEF RebindExecution, Goto, Become, JobInv, Sole
<1> HIDE DEF k, e
<1>8. \A u \in Threads \ {t} : job[u].pc = "idle" /\ u \notin Advancers
  BY <1>3, <1>7 DEF Solo, Control, Bystander, Shut
<1>9. /\ Rebinding'
      /\ \A u \in Threads : ~At(u, "save")' /\ ~At(u, "captureAllowance")' /\ ~At(u, "run")'
  BY <1>1, <1>6, <1>7, <1>8 DEF Rebinding, At
<1>10. ~Owes(k) /\ ~Ruled(k) /\ ~Captured(k) /\ k.pc \notin Deciding
  BY <1>6 DEF Owes, Ruled, Captured, Deciding, Writing
<1>11. Control'
  <2>1. InCharge(k, exec')
    BY <1>5, <1>6, <1>10 DEF InCharge
  <2>2. \A u \in Threads \ {t} : Bystander(job[u], exec')
    BY <1>8 DEF Bystander, Captured
  <2>3. \A u \in Threads : IF u \in Advancers THEN InCharge(job'[u], exec') ELSE Bystander(job'[u], exec')
    BY <1>7, <1>8, <2>1, <2>2
  <2> QED BY <2>3 DEF Control, InCharge, Bystander, Shut, Owes, Ruled, Captured
<1>12. Licences'
  <2>1. Licensed(exec', disk.exec, licensed)
    BY <1>4, <1>5 DEF Licensed
  <2>2. LicensedJob(k, licensed, disk.exec, exec')
    BY <1>6, <1>10 DEF LicensedJob
  <2>3. \A u \in Advancers : LicensedJob(job'[u], licensed, disk.exec, exec')
    BY <1>1, <1>7, <2>2
  <2> QED BY <1>2, <1>4, <1>5, <2>1, <2>3
         DEF Licences, Licensed, LicensedJob, Begun, Shut, Owes, Ruled, Captured
<1>13. Budget'
  <2>1. \A u \in Advancers : BudgetJob(job[u], allowance, calls, disk.allowance)'
    BY <1>1, <1>6, <1>7, <1>10 DEF BudgetJob, Owes
  <2> QED BY <1>2, <1>4, <1>5, <1>9, <2>1 DEF Budget, Fits, Covers
<1>14. Metering'
  BY <1>2, <1>4, <1>5, <1>9 DEF Metering
<1>15. Explanations'
  <2>1. Explains(exec', TRUE)
    BY <1>5 DEF Explains
  <2>2. \A u \in Advancers : job'[u].view = Absent /\ job'[u].goal = Absent
    BY <1>1, <1>6, <1>7
  <2>3. \A granted : Explains(Absent, granted)
    BY StartedSound DEF Explains, Explained
  <2> QED BY <1>2, <1>4, <1>5, <1>9, <2>1, <2>2, <2>3 DEF Explanations, Explains
<1> QED BY <1>11, <1>12, <1>13, <1>14, <1>15 DEF Solo

\* The allowance follows; if a cancellation came in between, everything that
\* may still be written is closed.
LEMMA SoloRebindAllowance ==
    ASSUME ConfigAssumption, Sole, DataInv, JobInv, Values, Solo, NEW t \in Advancers,
           RebindAllowance(t)
    PROVE  Solo'
<1> DEFINE j == job[t]
<1>1. /\ At(t, "rebindAllowance") /\ allowance' = restored.allowance /\ restored' = NoSnapshot
      /\ UNCHANGED <<plan, exec, disk, calls, licensed>>
  <2>1. job[t].doc = restored
    BY SoleRebinds DEF RebindAllowance, At, Rebinds, JobInv, Together, RebindsFirst, Threads
  <2> QED BY <2>1 DEF RebindAllowance
<1>2. /\ t \in Threads /\ j \in Job
      /\ IdleJob \in Job /\ IdleJob.view = Absent /\ IdleJob.goal = Absent
      /\ InCharge(j, exec)
  BY IdleLocals DEF Threads, JobInv, IdleJob, Solo, Control
<1>3. j.view = Absent /\ j.goal = Absent /\ exec.status # "absent" /\ Rebinding
  BY <1>1, <1>2 DEF InCharge, At, Rebinding
<1>4. /\ Licensed(exec, disk.exec, licensed) /\ Untried(disk.exec) \subseteq licensed
      /\ restored.allowance.granted /\ (disk.allowance.granted \/ Shut(exec))
      /\ Explains(exec, TRUE)
      /\ Fits(disk.allowance, calls) /\ Fits(restored.allowance, calls)
      /\ disk.exec.status = "absent" => calls = NoCalls
      /\ Explains(disk.exec, disk.allowance.granted)
  BY <1>3 DEF Solo, Licences, Budget, Metering, Explanations
<1> DEFINE k == IF j.step = NoStep THEN IdleJob ELSE [j EXCEPT !.pc = "capture", !.purpose = "report"]
<1>5. /\ k.pc = "idle" \/ (k.pc = "capture" /\ k.purpose = "report")
      /\ k.view = Absent /\ k.goal = Absent
  <2>1. IdleJob.pc = "idle"
    BY DEF IdleJob
  <2> QED BY <1>2, <1>3, <2>1 DEF Job
<1>6. job' = [job EXCEPT ![t] = k]
  BY DEF RebindAllowance, Finish, Persist, Become
<1>7. /\ \A u \in Threads : job'[u] = IF u = t THEN k ELSE job[u]
      /\ \A u \in Advancers : u = t
  BY <1>6 DEF JobInv, Sole
<1> HIDE DEF k
<1>8. ~Owes(k) /\ ~Ruled(k) /\ ~Captured(k) /\ k.pc \notin Deciding \cup {"rebindAllowance", "run"}
  BY <1>5 DEF Owes, Ruled, Captured, Deciding, Writing
<1>9. ~Rebinding'
  BY <1>2, <1>7, <1>8 DEF Rebinding, At
<1>10. \A u \in Threads : Captured(job'[u]) =>
          u # t /\ job'[u] = job[u] /\ Shut(exec) /\ Shut(job[u].doc.exec)
  BY <1>7, <1>8 DEF Solo, Control, Bystander, Captured
<1>11. Control'
  <2>1. InCharge(k, exec)
    BY <1>3, <1>5, <1>8 DEF InCharge
  <2>2. \A u \in Threads : IF u \in Advancers THEN InCharge(job'[u], exec) ELSE Bystander(job'[u], exec)
    BY <1>7, <2>1 DEF Solo, Control
  <2> QED BY <1>1, <2>2 DEF Control, InCharge, Bystander, Shut, Owes, Ruled, Captured
<1>12. Licences'
  <2>1. LicensedJob(k, licensed, disk.exec, exec)
    BY <1>5, <1>8 DEF LicensedJob
  <2>2. \A u \in Advancers : LicensedJob(job'[u], licensed, disk.exec, exec)
    BY <1>2, <1>7, <2>1
  <2> QED BY <1>1, <1>3, <1>4, <2>2
         DEF Licences, Licensed, LicensedJob, Begun, Shut, Owes, Ruled, Captured
<1>13. Budget'
  <2>1. \A u \in Advancers : BudgetJob(job[u], allowance, calls, disk.allowance)'
    BY <1>2, <1>5, <1>7, <1>8 DEF BudgetJob, Owes
  <2>2. \A u \in Advancers : ~Owes(job[u])'
    BY <1>2, <1>7, <1>8 DEF Owes
  <2>3. \A u \in Threads : At(u, "save")' => Fits(job[u].doc.allowance, calls)'
    BY <1>1, <1>7, <1>8 DEF Solo, Budget, At, Captured, Fits, Covers
  <2>4. Fits(allowance, calls)' /\ Fits(disk.allowance, calls)'
    BY <1>1, <1>4 DEF Fits, Covers
  <2> QED BY <1>1, <1>3, <1>4, <1>9, <2>1, <2>2, <2>3, <2>4 DEF Budget
<1>14. Metering'
  <2>1. Shut(exec) => Late'
    BY <1>1, <1>10 DEF Late, Shut, Captured
  <2>2. \A u \in Threads : At(u, "save")' => Late'
    BY <1>10, <2>1 DEF At, Captured
  <2>3. \A u \in Advancers : ~At(u, "run")'
    BY <1>2, <1>7, <1>8 DEF At
  <2> QED BY <1>1, <1>3, <1>4, <1>9, <2>1, <2>2, <2>3 DEF Metering
<1>15. Explanations'
  <2>1. \A u \in Advancers : job'[u].view = Absent /\ job'[u].goal = Absent
    BY <1>2, <1>5, <1>7
  <2>2. \A granted : Explains(Absent, granted)
    BY StartedSound DEF Explains, Explained
  <2>3. ASSUME NEW u \in Threads
        PROVE  /\ job'[u].pc = "captureAllowance" => Explains(job'[u].doc.exec, allowance'.granted)
               /\ job'[u].pc = "save" => Explains(job'[u].doc.exec, job'[u].doc.allowance.granted)
    <3>1. Captured(job'[u]) => ~Explained(job'[u].doc.exec)
      BY <1>10, Standing, CancelledEmpty DEF Shut
    <3> QED BY <3>1 DEF Captured, Explained, Explains
  <2> QED BY <1>1, <1>3, <1>4, <1>9, <2>1, <2>2, <2>3 DEF Explanations, Explains, At
<1> QED BY <1>11, <1>12, <1>13, <1>14, <1>15 DEF Solo

\* A restart has the record, and what the record leaves to try.
LEMMA SoloCrash ==
    ASSUME DataInv, Values, Solo, Crash
    PROVE  Solo'
<1>1. /\ \A u \in Threads : job'[u] = IdleJob
      /\ Advancers \subseteq Threads
      /\ exec' = Absent /\ allowance' = NoAllowance
      /\ licensed' = {s \in licensed : disk.exec.steps[s].status = "pending"}
      /\ UNCHANGED <<plan, disk, calls>>
  BY DEF Crash, Threads
<1>2. disk.exec \in Execution /\ Sound(disk.exec)
  BY DEF DataInv, Snapshot, Values, Kept
<1>3. restored'.exec = Restored(disk.exec) /\ restored'.allowance = disk.allowance
  BY DEF Crash, DataInv, Snapshot
<1>4. /\ Untried(disk.exec) \subseteq licensed
      /\ Fits(disk.allowance, calls)
      /\ disk.exec.status = "absent" => calls = NoCalls
      /\ Explains(disk.exec, disk.allowance.granted)
  BY DEF Solo, Licences, Budget, Explanations
<1>5. /\ Untried(Restored(disk.exec)) = Untried(disk.exec)
      /\ Interrupted(Restored(disk.exec)) = Interrupted(disk.exec) \cup Running(disk.exec)
      /\ Restored(disk.exec).refusal = disk.exec.refusal
      /\ Restored(disk.exec).pause = disk.exec.pause
  BY <1>2, RestoredSound
<1>6. Absent.status = "absent"
  BY DEF Absent
<1>7. /\ \A u \in Threads : IdleJob.pc = job'[u].pc
      /\ IdleJob.pc = "idle" /\ IdleJob.view = Absent /\ IdleJob.goal = Absent
  BY <1>1 DEF IdleJob
<1>8. ~Rebinding' /\ \A u \in Threads : ~At(u, "save")' /\ ~At(u, "captureAllowance")' /\ ~At(u, "run")'
  BY <1>1, <1>7 DEF Rebinding, At
<1>9. Control'
  <2>1. InCharge(IdleJob, exec') /\ Bystander(IdleJob, exec')
    BY IdleAdvancing DEF Advancing
  <2> QED BY <1>1, <2>1 DEF Control, InCharge, Bystander, Shut, Owes, Ruled, Captured
<1>10. Licences'
  <2>1. Untried(disk.exec) \subseteq licensed'
    BY <1>1, <1>4 DEF Untried, InStatus
  <2>2. Licensed(restored'.exec, disk.exec, licensed')
    BY <1>3, <1>5, <2>1 DEF Licensed, Begun, Interrupted, Running, InStatus
  <2>3. \A u \in Advancers : LicensedJob(job'[u], licensed', disk.exec, exec')
    BY <1>1, IdleAdvancing DEF Advancing
  <2> QED BY <1>1, <1>6, <2>1, <2>2, <2>3
         DEF Licences, Licensed, LicensedJob, Begun, Shut, Owes, Ruled, Captured
<1>11. Budget'
  <2>1. \A u \in Advancers : BudgetJob(job[u], allowance, calls, disk.allowance)'
    BY <1>1, <1>7 DEF BudgetJob, Owes, Writing
  <2>2. Fits(NoAllowance, calls)
    BY DEF Fits, Covers, NoAllowance
  <2> QED BY <1>1, <1>3, <1>4, <1>8, <2>1, <2>2 DEF Budget, Fits, Covers
<1>12. Metering'
  BY <1>1, <1>3, <1>6, <1>8 DEF Metering
<1>13. Explanations'
  <2>1. \A granted : Explains(Absent, granted)
    BY StartedSound DEF Explains, Explained
  <2>2. \A u \in Advancers : job'[u].view = Absent /\ job'[u].goal = Absent
    BY <1>1, <1>7
  <2> QED BY <1>1, <1>3, <1>4, <1>5, <1>8, <2>1, <2>2 DEF Explanations, Explains
<1> QED BY <1>9, <1>10, <1>11, <1>12, <1>13 DEF Solo

\* Nothing is begun, called or charged at first.
LEMMA SoloInit == Init => Solo
<1> SUFFICES ASSUME Init PROVE Solo
  OBVIOUS
<1>1. /\ \A u \in Threads : job[u] = IdleJob
      /\ Advancers \subseteq Threads
      /\ exec = Absent /\ allowance = NoAllowance /\ restored = NoSnapshot /\ disk = NoSnapshot
      /\ calls = NoCalls /\ licensed = Steps
  BY DEF Init, Threads
<1>2. /\ NoSnapshot.exec = Absent /\ NoSnapshot.allowance = NoAllowance /\ Absent.status = "absent"
      /\ IdleJob.pc = "idle" /\ IdleJob.view = Absent /\ IdleJob.goal = Absent
  BY DEF NoSnapshot, Absent, IdleJob
<1>3. ~Rebinding /\ \A u \in Threads : ~At(u, "save") /\ ~At(u, "captureAllowance") /\ ~At(u, "run")
  BY <1>1, <1>2 DEF Rebinding, At
<1>4. Control
  BY <1>1, IdleAdvancing DEF Control, Advancing
<1>5. Licences
  <2>1. Untried(Absent) = Steps /\ Interrupted(Absent) = {}
    BY StartedSound
  <2>2. \A u \in Advancers : LicensedJob(job[u], licensed, disk.exec, exec)
    BY <1>1, IdleAdvancing DEF Advancing
  <2> QED BY <1>1, <1>2, <2>1, <2>2 DEF Licences, Licensed
<1>6. Budget
  <2>1. \A u \in Advancers : BudgetJob(job[u], allowance, calls, disk.allowance)
    BY <1>1, IdleAdvancing DEF Advancing
  <2>2. Fits(NoAllowance, calls)
    BY DEF Fits, Covers, NoAllowance
  <2> QED BY <1>1, <1>2, <1>3, <2>1, <2>2 DEF Budget
<1>7. Metering
  BY <1>1, <1>2, <1>3 DEF Metering
<1>8. Explanations
  <2>1. \A granted : Explains(Absent, granted)
    BY StartedSound DEF Explains, Explained
  <2> QED BY <1>1, <1>2, <1>3, <2>1 DEF Explanations
<1> QED BY <1>4, <1>5, <1>6, <1>7, <1>8 DEF Solo

\* So every step keeps the invariant.
LEMMA StepSolo == Sole /\ DataInv /\ JobInv /\ Values /\ Solo /\ [Next]_vars => Solo'
<1> SUFFICES ASSUME Sole, DataInv, JobInv, Values, Solo, [Next]_vars PROVE Solo'
  OBVIOUS
<1>1. ConfigAssumption
  BY ConfigAssumption
<1>2. CASE UNCHANGED vars
  BY <1>2, SoloStays DEF vars
<1>3. ASSUME NEW t \in Advancers, Call(t) \/ BeginRebind(t) PROVE Solo'
  BY <1>1, <1>3, SoloStart, SoloBegin, SoloBeginRebind DEF Call
<1>4. ASSUME NEW t \in Threads, CancelExecution(t) PROVE Solo'
  BY <1>1, <1>4, SoloCancel
<1>5. ASSUME NEW t \in Threads, Continue(t) PROVE Solo'
  <2>1. CASE t \notin Advancers
    BY <1>1, <1>5, <2>1, SoloBystander
  <2>2. CASE t \in Advancers
    BY <1>1, <1>5, <2>2, SoloAdvance, SoloPersist, SoloSave, SoloRun, SoloOutcome, SoloRuling,
       SoloRebindExecution, SoloRebindAllowance
       DEF Continue
  <2> QED BY <2>1, <2>2
<1> QED BY <1>1, <1>2, <1>3, <1>4, <1>5, SoleRebinds, SoloCrash DEF Next, Threads

\* What holds, in every reachable state, of one advancing thread and any
\* number that cancel beside it.
THEOREM SoleInvariance == Sole => (Spec => [](DataInv /\ JobInv /\ Values /\ Solo))
<1> SUFFICES ASSUME Sole PROVE Spec => [](DataInv /\ JobInv /\ Values /\ Solo)
  OBVIOUS
<1>1. Init => Solo
  BY SoloInit
<1>2. DataInv /\ JobInv /\ Values /\ Solo /\ [Next]_vars => Solo'
  BY StepSolo
<1> QED BY <1>1, <1>2, PartsHold, Soundness, PTL DEF Spec

\* With one thread that advances, and any number that cancel: whenever no call
\* is under way, the refusal or pause an operator sees, live and in the
\* document, is about the step that is next, and says truly whether there is
\* an allowance.
THEOREM ExplainedTruly == Sole => (Spec => []ExplanationIsCurrent)
<1> SUFFICES ASSUME Sole PROVE Spec => []ExplanationIsCurrent
  OBVIOUS
<1>1. ASSUME NEW e, NEW granted, granted \in BOOLEAN, Sound(e), Explains(e, granted)
      PROVE  Current(e, granted)
  BY <1>1 DEF Sound, Explained, Explains, Current, WellFormed, Running, Interrupted
<1>2. ASSUME DataInv, JobInv, Values, Solo PROVE ExplanationIsCurrent
  <2>1. allowance.granted \in BOOLEAN /\ disk.allowance.granted \in BOOLEAN
    BY <1>2 DEF DataInv, Snapshot, Allowance
  <2>2. Sound(exec) /\ Sound(disk.exec) /\ Explains(disk.exec, disk.allowance.granted)
    BY <1>2 DEF Values, Kept, Solo, Explanations
  <2>3. AtRest => ~Rebinding
    BY DEF AtRest, Rebinding, At, Threads
  <2>4. AtRest => Explains(exec, allowance.granted)
    BY <1>2, <2>3 DEF Solo, Explanations, Explains
  <2> QED BY <1>1, <2>1, <2>2, <2>4 DEF ExplanationIsCurrent
<1> QED BY <1>2, SoleInvariance, PTL

\* With one thread that advances: every call an approved execution has made is
\* paid for in its durable allowance, and that within what was approved.
THEOREM CallsArePaidFor == Sole => (Spec => []PaidFor)
<1> SUFFICES ASSUME Sole PROVE Spec => []PaidFor
  OBVIOUS
<1>1. Solo => PaidFor
  BY DEF Solo, Budget, Fits, Covers, PaidFor
<1> QED BY <1>1, SoleInvariance, PTL

-----------------------------------------------------------------------------
(***************************************************************************)
(* The refinement of ApprovedPlan.  A document is written as one record    *)
(* for another, an operation entered is a step performed, and rulings and  *)
(* restarts change the licences; everything else is a stutter.             *)
(***************************************************************************)

\* What the document says of the steps, read as ApprovedPlan reads it.
Record(e) == [s \in Steps |-> Entry(e.steps[s])]

LEMMA RecordReads ==
    ASSUME NEW e \in Execution
    PROVE  /\ Record(e) \in [Steps -> Approved!Entry]
           /\ Approved!Untried(Record(e)) = Untried(e)
           /\ \A s \in Steps : Begun(e, s) => Record(e)[s] = "begun"
BY DEF Record, Entry, Approved!Entry, Approved!Untried, Untried, InStatus, Begun, Execution, StepState

\* Nothing is recorded at first.
LEMMA InitImplements == Init => Approved!Init
<1> SUFFICES ASSUME Init PROVE Approved!Init
  OBVIOUS
<1>1. /\ \A s \in Steps : disk.exec.steps[s] = FreshStep
      /\ licensed = Steps /\ calls.made = 0
      /\ disk.allowance.granted = FALSE /\ disk.allowance.advances = 0
  BY DEF Init, NoSnapshot, Absent, NoAllowance, NoCalls
<1>2. Entry(FreshStep) = "untried"
  BY DEF Entry, FreshStep
<1> QED BY <1>1, <1>2 DEF Approved!Init

\* Writing the document replaces the record.
LEMMA SaveWrites ==
    ASSUME ConfigAssumption, Sole, DataInv, JobInv, Values, Solo, DataInv', Solo',
           NEW t \in Threads, Save(t)
    PROVE  Approved!Write
<1> DEFINE j == job[t]
<1>1. /\ j.pc = "save" /\ disk' = j.doc /\ licensed' = licensed /\ calls' = calls
  BY DEF Save, At
<1>2. /\ j.doc.exec \in Execution /\ Sound(j.doc.exec)
      /\ disk'.exec \in Execution /\ disk'.allowance \in Allowance /\ calls \in Calls
  BY <1>1, Standing DEF DataInv, Snapshot
<1>3. Untried(disk'.exec) \subseteq licensed
  BY <1>1 DEF Solo, Licences, Untried, InStatus
<1>4. Covers(disk'.allowance, calls.made, calls.network)
  BY <1>1 DEF Solo, Budget, Fits, Covers
<1>5. disk'.allowance.granted => disk'.allowance.advances \in calls.made..MaxAdvances
  BY <1>2, <1>4 DEF Covers, Calls, Allowance, ConfigAssumption
<1>6. ~disk'.allowance.granted => disk'.allowance.advances = 0
  BY <1>4 DEF Covers
<1>7. \/ disk'.allowance.granted = disk.allowance.granted
      \/ calls.made = 0
      \/ Untried(disk'.exec) = {}
  <2>1. Shut(j.doc.exec) => Untried(disk'.exec) = {}
    BY <1>1, <1>2, CancelledEmpty DEF Shut
  <2>2. Late => Shut(j.doc.exec)
    BY <1>1 DEF Late, Captured
  <2>3. CASE t \notin Advancers
    BY <1>1, <2>1, <2>3 DEF Solo, Control, Bystander, Captured
  <2>4. CASE t \in Advancers
    <3>1. exec.status # "absent" /\ ~Rebinding
      BY <1>1, <2>4 DEF Solo, Control, InCharge, Rebinding, At, Sole
    <3>2. calls.made = 0 \/ Late \/ (disk.allowance.granted <=> allowance.granted)
      BY <3>1 DEF Solo, Metering
    <3>3. Late \/ (j.doc.allowance.granted <=> allowance.granted)
      BY <1>1, <3>1 DEF Solo, Metering, At
    <3>4. disk.allowance.granted \in BOOLEAN /\ disk'.allowance.granted \in BOOLEAN
      BY DEF DataInv, Snapshot, Allowance
    <3> QED BY <1>1, <2>1, <2>2, <3>2, <3>3, <3>4
  <2> QED BY <2>3, <2>4
<1>8. disk'.allowance.granted \in BOOLEAN
  BY <1>2 DEF Allowance
<1>9. /\ Record(disk'.exec) \in [Steps -> Approved!Entry]
      /\ Approved!Untried(Record(disk'.exec)) = Untried(disk'.exec)
  BY <1>2, RecordReads
<1> QED BY <1>1, <1>3, <1>5, <1>6, <1>7, <1>8, <1>9 DEF Approved!Write, Record

\* Entering an operation performs a step, on its licence and paid for.
LEMMA RunPerforms ==
    ASSUME ConfigAssumption, Sole, DataInv, JobInv, Values, Solo, NEW t \in Advancers, Run(t)
    PROVE  Approved!Perform(job[t].step)
<1> DEFINE j == job[t]
           s == j.step
<1>1. /\ At(t, "run") /\ licensed' = licensed \ {s} /\ calls'.made = calls.made + 1
      /\ disk' = disk
  BY DEF Run, DataInv, Calls
<1>2. LicensedJob(j, licensed, disk.exec, exec) /\ BudgetJob(j, allowance, calls, disk.allowance)
  BY DEF Solo, Licences, Budget
<1>3. s \in licensed /\ s \notin Untried(disk.exec) /\ FitsOne(disk.allowance, calls, s)
  BY <1>1, <1>2 DEF LicensedJob, BudgetJob, Owes, At
<1>4. disk.allowance \in Allowance /\ calls \in Calls /\ disk.exec \in Execution
  BY DEF DataInv, Snapshot
<1>5. disk.allowance.granted => calls.made < disk.allowance.advances
  BY <1>3, <1>4 DEF FitsOne, Covers, Calls, Allowance
<1>6. Approved!Untried(Record(disk.exec)) = Untried(disk.exec)
  BY <1>4, RecordReads
<1> QED BY <1>1, <1>3, <1>5, <1>6 DEF Approved!Perform, Record

\* A ruling that a step never ran licenses it again; dropping that takes the
\* licence back.
LEMMA RulingRules ==
    ASSUME ConfigAssumption, Sole, DataInv, JobInv, Values, Solo, NEW t \in Advancers,
           CommitRuling(t) \/ Unrule(t)
    PROVE  [Approved!Next]_(Approved!apVars)
<1> DEFINE j == job[t]
           s == j.step
<1>1. /\ j.goal \in Execution /\ Sound(j.view) /\ JobAgrees(j)
      /\ disk.exec \in Execution
  BY Standing DEF Threads
<1>2. /\ InCharge(j, exec) /\ LicensedJob(j, licensed, disk.exec, exec)
      /\ exec.status # "absent" => Licensed(exec, disk.exec, licensed)
  BY DEF Solo, Control, Licences, Threads
<1>3. disk' = disk /\ calls' = calls /\ (At(t, "ruling") \/ At(t, "unrule"))
  BY DEF CommitRuling, Unrule
<1>4. /\ s \in Steps /\ exec.status # "absent" /\ ~Shut(j.goal)
      /\ j.goal.steps[s].status = "pending" => j.view.steps[s].status = "interrupted"
  BY <1>1, <1>2, <1>3
     DEF InCharge, LicensedJob, Ruled, JobAgrees, Decides, At, Shut, IsTerminal, Terminal
<1>5. Begun(disk.exec, s) => Record(disk.exec)[s] = "begun"
  BY <1>1, <1>4, RecordReads
<1>6. CASE licensed' = licensed
  BY <1>3, <1>6 DEF Approved!apVars
<1>7. CASE CommitRuling(t) /\ exec = j.view /\ j.goal.steps[s].status = "pending"
  <2>1. Begun(disk.exec, s)
    BY <1>2, <1>4, <1>7 DEF Licensed, Interrupted, InStatus
  <2>2. Approved!RuleNeverRan(s)
    BY <1>3, <1>5, <1>7, <2>1 DEF CommitRuling, Approved!RuleNeverRan, Record
  <2> QED BY <1>4, <2>2 DEF Approved!Next
<1>8. CASE Unrule(t) /\ exec = j.goal /\ j.goal.steps[s].status = "pending"
  <2>1. Ruled(j) /\ ~Shut(exec)
    BY <1>4, <1>8 DEF Unrule, Ruled, At
  <2>2. Begun(disk.exec, s)
    BY <1>2, <1>4, <1>8, <2>1 DEF LicensedJob, Interrupted, InStatus
  <2>3. Approved!DropRuling(s)
    BY <1>3, <1>5, <1>8, <2>2 DEF Unrule, Approved!DropRuling, Record
  <2> QED BY <1>4, <2>3 DEF Approved!Next
<1> QED BY <1>6, <1>7, <1>8 DEF CommitRuling, Unrule

\* A restart keeps the licences of what the record says is untried.
LEMMA CrashRestarts ==
    ASSUME DataInv, Crash
    PROVE  Approved!Restart
<1>1. Approved!Untried(Record(disk.exec)) = Untried(disk.exec) /\ licensed \subseteq Steps
  BY RecordReads DEF DataInv, Snapshot
<1>2. licensed' = licensed \cap Untried(disk.exec) /\ disk' = disk /\ calls' = calls
  BY <1>1 DEF Crash, Untried, InStatus
<1> QED BY <1>1, <1>2 DEF Approved!Restart, Record

\* Nothing else touches the document, the calls or the licences.
LEMMA StepImplements ==
    ASSUME Sole, DataInv, JobInv, Values, Solo, DataInv', Solo', [Next]_vars
    PROVE  [Approved!Next]_(Approved!apVars)
<1>1. ConfigAssumption
  BY ConfigAssumption
<1>2. ASSUME UNCHANGED <<disk, calls, licensed>> PROVE UNCHANGED Approved!apVars
  BY <1>2 DEF Approved!apVars
<1>3. ASSUME NEW t, Call(t) \/ BeginRebind(t) \/ CancelExecution(t)
      PROVE  UNCHANGED <<disk, calls, licensed>>
  BY <1>3 DEF Call, Start, BeginAdvance, BeginResolve, BeginRecover, BeginRebind, CancelExecution
<1>4. ASSUME NEW t \in Threads, Continue(t), ~Save(t), ~Run(t), ~CommitRuling(t), ~Unrule(t)
      PROVE  UNCHANGED <<disk, calls, licensed>>
  BY <1>4 DEF Continue, CheckAllowance, Charge, CommitStart, Refund, Capture, CaptureAllowance,
              SaveFails, Withdraw, Uncharge, Decline, RecordRevalidation, Return, CommitOutcome,
              RebindExecution, RebindAllowance
<1>5. ASSUME NEW t \in Threads, Run(t) \/ CommitRuling(t) \/ Unrule(t) PROVE t \in Advancers
  <2>1. job[t].pc \in {"run", "ruling", "unrule"}
    BY <1>5 DEF Run, CommitRuling, Unrule, At
  <2> QED BY <2>1 DEF Solo, Control, Bystander, Writing
<1>6. ASSUME NEW t \in Threads, Save(t) PROVE Approved!Next
  BY <1>1, <1>6, SaveWrites DEF Approved!Next
<1>7. ASSUME NEW t \in Threads, Run(t) PROVE Approved!Next
  <2>1. job[t].step \in Steps
    BY <1>1, <1>7 DEF JobInv, JobAgrees, MakesAttempt, Run, At
  <2> QED BY <1>1, <1>5, <1>7, <2>1, RunPerforms DEF Approved!Next
<1>8. ASSUME NEW t \in Threads, CommitRuling(t) \/ Unrule(t) PROVE [Approved!Next]_(Approved!apVars)
  BY <1>1, <1>5, <1>8, RulingRules
<1>9. CASE Crash
  BY <1>1, <1>9, CrashRestarts DEF Approved!Next
<1>10. CASE UNCHANGED vars
  BY <1>2, <1>10 DEF vars
<1>11. CASE (\E t \in Advancers : Call(t)) \/ (\E t \in Rebinders : BeginRebind(t))
  BY <1>2, <1>3, <1>11
<1>12. CASE \E t \in Cancellers : CancelExecution(t)
  BY <1>2, <1>3, <1>12
<1>13. CASE \E t \in Threads : Continue(t)
  BY <1>2, <1>4, <1>6, <1>7, <1>8, <1>13
<1> QED BY <1>9, <1>10, <1>11, <1>12, <1>13 DEF Next

\* With one thread that advances and any number that cancel: what an operator
\* was promised, of an execution that was approved, is kept, over snapshots
\* taken late, writes that fail and any number of restarts.
THEOREM PromiseKept == Sole => (Spec => KeepsItsPromise)
<1> SUFFICES ASSUME Sole PROVE Spec => KeepsItsPromise
  OBVIOUS
<1>1. DataInv /\ JobInv /\ Values /\ Solo /\ DataInv' /\ Solo' /\ [Next]_vars
         => [Approved!Next]_(Approved!apVars)
  BY StepImplements
<1> QED BY <1>1, InitImplements, SoleInvariance, PTL DEF Spec, KeepsItsPromise, Approved!Spec
=============================================================================
