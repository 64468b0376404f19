-------------------------- MODULE ApprovedStartsProofs --------------------------
(***************************************************************************)
(* Theorems of ApprovedStarts, for any number of approvals, executions,    *)
(* failed saves and restarts: an approval begins one execution, whatever   *)
(* runs is covered by a spent approval, and what is spent is written.      *)
(*                                                                         *)
(* A spending is either under way, in one thread, or firm.  What is firm   *)
(* is in the document, unless an outdated capture replaced it, and in      *)
(* every capture that could replace it and is not outdated itself.         *)
(*                                                                         *)
(* The requests for missions come last: each is launched once, because it  *)
(* is in memory, or with its execution, until it is (Launches).            *)
(***************************************************************************)
EXTENDS ApprovedStarts, TLAPS

\* A thread's job: it spends an approval; it is on its way to begin an
\* execution of its own; it has captured the approvals and not yet saved them.
Spends(j) == j.pc \in {"capture", "save"} /\ j.purpose = "spend"
Owns(j) ==
    \/ j.pc \in {"spend", "begin"}
    \/ j.pc \in {"capture", "save"} /\ j.purpose \in {"record", "spend"}
Holds(j) == j.pc = "save" /\ j.purpose \in {"confirm", "record", "spend"}

\* The approval is spent, and no thread may still take that back.
Firm(a) == live[a] \in Executions /\ \A t \in Threads : ~(Spends(job[t]) /\ job[t].execution = live[a])

Typed ==
    /\ pending \subseteq Approvals /\ made \in 0..MaxApprovals
    /\ live \in [Approvals -> Use] /\ disk \in [Approvals -> Use]
    /\ plan \in [Executions -> Plan]
    /\ job \in [Threads -> Job]
    /\ begun \subseteq Executions

\* What ran was begun, and what was begun was planned under an approval.
Begun ==
    /\ running \cup restored \cup document \subseteq begun
    /\ \A t \in Threads : job[t].executions \cup job[t].left \subseteq begun
    /\ \A e \in begun : plan[e].kind # "none"
    /\ \A e \in Executions : plan[e].kind # "none" => plan[e].approval \in Approvals

\* An execution is on its way in one thread, and not begun before.
Owned ==
    /\ \A t \in Threads : Owns(job[t]) =>
        job[t].execution \in Executions \ begun /\ plan[job[t].execution].kind # "none"
    /\ \A t, u \in Threads : Owns(job[t]) /\ Owns(job[u]) /\ job[t].execution = job[u].execution => t = u

\* A use names the execution that was planned for the approval, and only what
\* was made is used.
Sound(uses) == \A a \in Approvals :
    /\ uses[a] \in Executions => plan[uses[a]].kind # "none" /\ plan[uses[a]].approval = a
    /\ uses[a] # Unrecorded => a <= made

Uses ==
    /\ Sound(live) /\ Sound(disk) /\ \A t \in Threads : Sound(job[t].approvals)
    /\ \A a \in pending : a <= made /\ live[a] = Unrecorded

\* What a thread spends it has spent in memory, and has in what it captured.
SpentHere == \A t \in Threads :
    LET e == job[t].execution IN
    /\ Spends(job[t]) \/ job[t].pc = "begin" => live[plan[e].approval] = e
    /\ Spends(job[t]) /\ job[t].pc = "save" => job[t].approvals[plan[e].approval] = e

\* What is firm is durable.
FirmKept == \A a \in Approvals : Firm(a) =>
    /\ "approvals" \notin stale => disk[a] = live[a]
    /\ \A t \in Threads : Holds(job[t]) /\ ~job[t].behind => job[t].approvals[a] = live[a]

\* Whatever was begun has its approval.
BegunSpent == "approvals" \notin lost => \A e \in begun : live[plan[e].approval] = e

Parts == Begun /\ Owned /\ Uses /\ SpentHere /\ FirmKept /\ BegunSpent
IInv == Typed /\ Parts

LEMMA IdleTyped ==
    /\ Idle \in Job /\ Sound(Blank) /\ ~Owns(Idle) /\ ~Spends(Idle) /\ ~Holds(Idle)
    /\ \A uses : (\A a \in Approvals : uses[a] = Unrecorded) => Sound(uses)
    /\ Unrecorded \notin Executions /\ Unspent \notin Executions
<1>1. Unrecorded \notin Executions /\ Unspent \notin Executions
    BY DEF Unrecorded, Unspent, Executions
<1>2. Idle \in Job
    BY DEF Idle, Job, PC, Purpose, Blank, Use
<1> QED  BY <1>1, <1>2 DEF Idle, Sound, Blank, Owns, Spends, Holds

\* A job that saves.
LEMMA SavingTyped ==
    ASSUME NEW purpose \in Purpose, NEW e \in Executions \cup {None}
    PROVE  /\ Saving(purpose, e) \in Job
           /\ Saving(purpose, e).pc = "capture" /\ Saving(purpose, e).purpose = purpose
           /\ Saving(purpose, e).execution = e /\ Saving(purpose, e).executions \cup Saving(purpose, e).left = {}
           /\ Saving(purpose, e).approvals = Blank
BY IdleTyped DEF Saving, Idle, Job, PC

LEMMA InitIInv == Init => IInv
<1> SUFFICES ASSUME Init PROVE IInv
    OBVIOUS
<1> USE DEF Init
<1>1. Typed
  <2>1. made \in 0..MaxApprovals
      BY StartsAssumption
  <2> QED  BY <2>1, IdleTyped DEF Typed, Blank, Use, Plan, Kind
<1>2. \A t \in Threads : job[t] = Idle
    OBVIOUS
<1>3. Begun
    BY <1>2 DEF Begun, Idle
<1>4. Owned /\ SpentHere
    BY <1>2, IdleTyped DEF Owned, SpentHere, Idle
<1>5. Uses
    BY <1>2, IdleTyped DEF Uses, Idle
<1>6. FirmKept /\ BegunSpent
    BY IdleTyped DEF FirmKept, Firm, BegunSpent, Blank
<1> QED  BY <1>1, <1>3, <1>4, <1>5, <1>6 DEF IInv, Parts

-----------------------------------------------------------------------------
LEMMA Becoming ==
    ASSUME Typed, NEW t \in Threads, NEW mine \in Job, Become(t, mine)
    PROVE  /\ job' \in [Threads -> Job] /\ job'[t] = mine
           /\ \A u \in Threads : u # t => job'[u] = job[u]
BY DEF Typed, Become

\* A step that touches no approval: the thread goes on with what it owns, or
\* drops what it has not spent, and captures what memory holds.
LEMMA QuietKeeps ==
    ASSUME IInv, NEW t \in Threads, NEW mine \in Job, Become(t, mine),
           UNCHANGED <<pending, live, disk, made, plan, begun, stale, lost>>,
           running' \cup restored' \cup document' \subseteq begun,
           mine.executions \cup mine.left \subseteq begun,
           mine.approvals = Blank \/ mine.approvals = live \/ mine.approvals = job[t].approvals,
           mine.pc # "begin",
           Owns(mine) => Owns(job[t]) /\ mine.execution = job[t].execution,
           Spends(mine) <=> Spends(job[t]),
           Holds(mine) => mine.approvals = live
    PROVE  IInv'
<1> USE DEF IInv, Parts
<1>1. /\ job' \in [Threads -> Job] /\ job'[t] = mine
      /\ \A u \in Threads : u # t => job'[u] = job[u]
    BY Becoming
<1>2. Typed'
    BY <1>1 DEF Typed
<1>3. Begun'
    BY <1>1 DEF Begun
<1>4. Owned'
    BY <1>1 DEF Owned
<1>5. \A uses : Sound(uses)' <=> Sound(uses)
    BY DEF Sound
<1>6. Uses'
  <2>1. \A u \in Threads : Sound(job'[u].approvals)
      BY <1>1, IdleTyped DEF Uses
  <2> QED  BY <2>1 DEF Uses, Sound
<1>7. Spends(mine) => mine.execution = job[t].execution
    BY DEF Owns, Spends
<1>8. SpentHere'
    BY <1>1, <1>7 DEF SpentHere, Spends, Holds
<1>9. \A a \in Approvals : Firm(a)' => Firm(a)
    BY <1>1, <1>7 DEF Firm
<1>10. FirmKept'
    BY <1>1, <1>9 DEF FirmKept
<1>11. BegunSpent'
    BY DEF BegunSpent
<1> QED  BY <1>2, <1>3, <1>4, <1>6, <1>8, <1>10, <1>11

\* A use is opened or spent in memory, and the thread sets out to save it.
LEMMA MarkKeeps ==
    ASSUME IInv, NEW t \in Threads, ~Spends(job[t]),
           NEW a \in Approvals, NEW e \in Executions \cup {None},
           NEW purpose \in {"confirm", "record", "spend"}, NEW use \in Use,
           Become(t, Saving(purpose, e)), live' = [live EXCEPT ![a] = use],
           live[a] \notin Executions, use # Unrecorded,
           IF purpose = "spend" THEN use = e ELSE use = Unspent,
           purpose # "confirm" => /\ e \in Executions \ begun
                                  /\ plan'[e].kind # "none" /\ plan'[e].approval = a
                                  /\ \A u \in Threads : u # t /\ Owns(job[u]) => job[u].execution # e,
           plan' \in [Executions -> Plan],
           \A i \in Executions : plan[i].kind # "none" => plan'[i] = plan[i],
           \A i \in Executions : plan'[i].kind # "none" => plan'[i].approval \in Approvals,
           made' \in 0..MaxApprovals, made <= made', a <= made',
           pending' \subseteq pending \ {a},
           UNCHANGED <<disk, begun, running, restored, document, stale, lost>>
    PROVE  IInv'
<1> USE DEF IInv, Parts
<1> DEFINE mine == Saving(purpose, e)
<1>1. /\ mine \in Job /\ mine.pc = "capture" /\ mine.purpose = purpose /\ mine.execution = e
      /\ mine.executions \cup mine.left = {} /\ mine.approvals = Blank
    BY SavingTyped DEF Purpose
<1>2. Become(t, mine)
    OBVIOUS
<1> HIDE DEF mine
<1>3. /\ job' \in [Threads -> Job] /\ job'[t] = mine
      /\ \A u \in Threads : u # t => job'[u] = job[u]
    BY <1>1, <1>2, Becoming
<1>4. /\ live' \in [Approvals -> Use] /\ live'[a] = use
      /\ \A b \in Approvals : b # a => live'[b] = live[b]
    BY DEF Typed
<1>5. Typed'
    BY <1>3, <1>4 DEF Typed
<1>6. Begun'
    BY <1>1, <1>3 DEF Begun, Typed
<1>7. Owns(mine) <=> purpose # "confirm"
    BY <1>1 DEF Owns
<1>8. Owned'
    BY <1>1, <1>3, <1>7 DEF Owned, Typed
<1>9. made \in Nat /\ made' \in Nat /\ Approvals \subseteq Nat
    BY StartsAssumption DEF Typed, Approvals
<1>10. \A uses \in [Approvals -> Use] : Sound(uses) => Sound(uses)'
    BY <1>9 DEF Sound
<1>11. Uses'
  <2>1. Sound(live)'
      BY <1>4, <1>9, <1>10, IdleTyped DEF Uses, Sound, Typed
  <2>2. Sound(disk)' /\ Blank \in [Approvals -> Use] /\ \A u \in Threads : job[u].approvals \in [Approvals -> Use]
      BY <1>10 DEF Uses, Typed, Job, Sound, Blank, Use
  <2>3. \A u \in Threads : Sound(job[u].approvals)'
    <3>1. Sound(Blank)'
        BY IdleTyped DEF Sound, Blank
    <3>2. ASSUME NEW u \in Threads, u # t  PROVE Sound(job[u].approvals)'
        BY <1>3, <1>10, <2>2, <3>2 DEF Uses
    <3> QED  BY <1>1, <1>3, <3>1, <3>2
  <2>4. \A b \in pending' : b <= made' /\ live'[b] = Unrecorded
      BY <1>4, <1>9 DEF Uses, Typed
  <2> QED  BY <2>1, <2>2, <2>3, <2>4 DEF Uses
<1>12. ASSUME NEW u \in Threads, u # t, Spends(job[u]) \/ job[u].pc = "begin"
       PROVE  /\ job[u].execution \in Executions /\ plan'[job[u].execution] = plan[job[u].execution]
              /\ plan[job[u].execution].approval \in Approvals \ {a}
  <2>1. job[u].execution \in Executions /\ plan[job[u].execution].kind # "none"
      BY <1>12 DEF Owned, Owns, Spends
  <2>2. plan[job[u].execution].approval \in Approvals
      BY <2>1 DEF Begun
  <2> QED  BY <1>12, <2>1, <2>2 DEF SpentHere
<1>13. SpentHere'
  <2>1. Spends(mine) => purpose = "spend"
      BY <1>1 DEF Spends
  <2> QED  BY <1>1, <1>3, <1>4, <1>12, <2>1 DEF SpentHere
<1>14. ASSUME NEW b \in Approvals, Firm(b)'  PROVE b # a /\ Firm(b)
  <2>1. b # a
      BY <1>1, <1>3, <1>4, <1>14, IdleTyped DEF Firm, Spends
  <2> QED  BY <1>3, <1>4, <1>14, <2>1 DEF Firm
<1>15. FirmKept'
    BY <1>1, <1>3, <1>4, <1>14 DEF FirmKept, Holds
<1>16. BegunSpent'
  <2>1. ASSUME NEW f \in begun, "approvals" \notin lost  PROVE live'[plan'[f].approval] = f
    <3>1. f \in Executions /\ plan[f].kind # "none" /\ plan[f].approval \in Approvals
        BY DEF Begun, Typed
    <3>2. live[plan[f].approval] = f
        BY <2>1 DEF BegunSpent
    <3> QED  BY <1>4, <3>1, <3>2
  <2> QED  BY <2>1 DEF BegunSpent
<1> QED  BY <1>5, <1>6, <1>8, <1>11, <1>13, <1>15, <1>16

-----------------------------------------------------------------------------
LEMMA PreviewKeeps == ASSUME IInv, Preview  PROVE IInv'
<1> USE DEF IInv, Parts
<1>1. /\ made \in Nat /\ made' = made + 1 /\ made' \in 0..MaxApprovals /\ made' \in Approvals
      /\ Approvals \subseteq Nat /\ pending' = pending \cup {made'}
      /\ UNCHANGED <<live, disk, plan, running, restored, document, job, begun, stale, lost>>
    BY StartsAssumption DEF Preview, executionVars, history, Typed, Approvals
<1>2. live[made'] = Unrecorded
    BY <1>1 DEF Uses, Sound
<1>3. Typed' /\ Begun' /\ Owned' /\ SpentHere' /\ FirmKept' /\ BegunSpent'
    BY <1>1 DEF Typed, Begun, Owned, SpentHere, FirmKept, Firm, BegunSpent
<1>4. \A a \in Approvals : a <= made => a <= made'
    BY <1>1
<1>5. \A uses : Sound(uses) => Sound(uses)'
    BY <1>1, <1>4 DEF Sound
<1>6. /\ Sound(live)' /\ Sound(disk)' /\ \A t \in Threads : Sound(job[t].approvals)'
    BY <1>1, <1>4 DEF Uses, Sound
<1>7. \A a \in pending' : a <= made' /\ live'[a] = Unrecorded
  <2>1. \A a \in pending : a \in Approvals /\ a <= made /\ live[a] = Unrecorded
      BY DEF Uses, Typed
  <2>2. made' <= made' /\ live' = live /\ pending' = pending \cup {made'}
      BY <1>1
  <2> HIDE DEF IInv, Parts
  <2> QED  BY <1>2, <1>4, <2>1, <2>2
<1> QED  BY <1>3, <1>6, <1>7 DEF Uses

LEMMA ConfirmKeeps == ASSUME IInv, Confirm  PROVE IInv'
<1> USE DEF IInv, Parts
<1>1. PICK a \in pending :
        /\ pending' = pending \ {a}
        /\ \/ UNCHANGED <<live, job>>
           \/ live' = [live EXCEPT ![a] = Unspent] /\ Become("panel", Saving("confirm", None))
    BY DEF Confirm
<1>2. /\ UNCHANGED <<disk, made, plan, running, restored, document, begun, stale, lost>>
      /\ ~Spends(job["panel"]) /\ "panel" \in Threads
    BY DEF Confirm, executionVars, history, At, Spends, Threads
<1>3. CASE UNCHANGED <<live, job>>
    BY <1>1, <1>2, <1>3 DEF Typed, Begun, Owned, Uses, Sound, SpentHere, FirmKept, Firm, BegunSpent
<1>4. CASE live' = [live EXCEPT ![a] = Unspent] /\ Become("panel", Saving("confirm", None))
  <2>1. /\ a \in Approvals /\ a <= made /\ live[a] \notin Executions /\ made \in 0..MaxApprovals
        /\ Unspent \in Use /\ Unspent # Unrecorded /\ made <= made
      BY IdleTyped, StartsAssumption DEF Typed, Uses, Use, Unspent, Unrecorded
  <2>2. /\ \A i \in Executions : plan[i].kind # "none" => plan[i].approval \in Approvals
        /\ plan \in [Executions -> Plan]
      BY DEF Begun, Typed
  <2> QED  BY <1>1, <1>2, <1>4, <2>1, <2>2, MarkKeeps
<1> QED  BY <1>1, <1>3, <1>4

\* A plan that is made anew is nobody's yet.
LEMMA FreshPlan ==
    ASSUME IInv, NEW e \in Executions, Fresh(e), NEW p \in Plan, p.kind # "none", p.approval \in Approvals,
           plan' = [plan EXCEPT ![e] = p]
    PROVE  /\ e \in Executions \ begun /\ \A t \in Threads : Owns(job[t]) => job[t].execution # e
           /\ plan' \in [Executions -> Plan] /\ plan'[e] = p
           /\ \A i \in Executions : plan[i].kind # "none" => plan'[i] = plan[i]
           /\ \A i \in Executions : plan'[i].kind # "none" => plan'[i].approval \in Approvals
BY DEF IInv, Parts, Typed, Begun, Owned, Fresh

LEMMA StartPlanKeeps == ASSUME IInv, StartPlan  PROVE IInv'
<1> USE DEF IInv, Parts
<1>1. PICK a \in Approvals, e \in Executions :
        /\ Fresh(e) /\ Spend("panel", a, e)
        /\ plan' = [plan EXCEPT ![e] = [kind |-> "plan", approval |-> a, request |-> None]]
    BY DEF StartPlan
<1> DEFINE p == [kind |-> "plan", approval |-> a, request |-> None]
<1>2. p \in Plan /\ p.kind # "none" /\ p.approval = a /\ plan' = [plan EXCEPT ![e] = p]
    BY <1>1 DEF Plan, Kind
<1> HIDE DEF p
<1>3. /\ UNCHANGED <<pending, disk, made, running, restored, document, begun, stale, lost>>
      /\ ~Spends(job["panel"]) /\ "panel" \in Threads
    BY DEF StartPlan, history, At, Spends, Threads
<1>4. /\ live[a] = Unspent /\ live[a] \notin Executions /\ live' = [live EXCEPT ![a] = e]
      /\ Become("panel", Saving("spend", e)) /\ e \in Use /\ e # Unrecorded
    BY <1>1, IdleTyped DEF Spend, Use
<1>5. /\ made' \in 0..MaxApprovals /\ made <= made' /\ a <= made' /\ pending' \subseteq pending \ {a}
    BY <1>3, <1>4, StartsAssumption DEF Typed, Uses, Sound, Unspent, Unrecorded
<1>6. /\ e \in Executions \ begun /\ \A t \in Threads : Owns(job[t]) => job[t].execution # e
      /\ plan' \in [Executions -> Plan] /\ plan'[e] = p
      /\ \A i \in Executions : plan[i].kind # "none" => plan'[i] = plan[i]
      /\ \A i \in Executions : plan'[i].kind # "none" => plan'[i].approval \in Approvals
    BY <1>1, <1>2, FreshPlan
<1> HIDE DEF IInv, Parts
<1> QED  BY <1>1, <1>2, <1>3, <1>4, <1>5, <1>6, MarkKeeps

LEMMA StartGoalKeeps == ASSUME IInv, StartGoal  PROVE IInv'
<1> USE DEF IInv, Parts
<1>1. PICK r \in Requests \ goalIds, e \in Executions, kind \in Kind \ {"none", "plan"} :
        /\ Fresh(e)
        /\ plan' = [plan EXCEPT ![e] = [kind |-> kind, approval |-> made', request |-> r]]
        /\ Become("goal", Saving("record", e))
    BY DEF StartGoal
<1>2. /\ made \in Nat /\ made' = made + 1 /\ made' \in 0..MaxApprovals /\ made' \in Approvals
      /\ made <= made' /\ made' <= made'
    BY StartsAssumption DEF StartGoal, Typed, Approvals
<1>3. live[made'] = Unrecorded /\ made' \notin pending
    BY <1>2 DEF Uses, Sound
<1> DEFINE p == [kind |-> kind, approval |-> made', request |-> r]
<1>4. p \in Plan /\ p.kind # "none" /\ p.approval = made' /\ plan' = [plan EXCEPT ![e] = p]
    BY <1>1, <1>2 DEF Plan
<1> HIDE DEF p
<1>5. /\ UNCHANGED <<pending, disk, running, restored, document, begun, stale, lost>>
      /\ live' = [live EXCEPT ![made'] = Unspent]
      /\ ~Spends(job["goal"]) /\ "goal" \in Threads
    BY DEF StartGoal, history, At, Spends, Threads
<1>6. live[made'] \notin Executions /\ Unspent \in Use /\ Unspent # Unrecorded
    BY <1>3, IdleTyped DEF Use, Unspent, Unrecorded
<1>7. pending' \subseteq pending \ {made'}
    BY <1>3, <1>5
<1>8. /\ e \in Executions \ begun /\ \A t \in Threads : Owns(job[t]) => job[t].execution # e
      /\ plan' \in [Executions -> Plan] /\ plan'[e] = p
      /\ \A i \in Executions : plan[i].kind # "none" => plan'[i] = plan[i]
      /\ \A i \in Executions : plan'[i].kind # "none" => plan'[i].approval \in Approvals
    BY <1>1, <1>2, <1>4, FreshPlan
<1> HIDE DEF IInv, Parts
<1> QED  BY <1>1, <1>2, <1>4, <1>5, <1>6, <1>7, <1>8, MarkKeeps

LEMMA SpendOwnKeeps == ASSUME IInv, SpendOwn  PROVE IInv'
<1> USE DEF IInv, Parts
<1> DEFINE e == job["goal"].execution
           a == plan[e].approval
<1>1. /\ UNCHANGED <<pending, disk, made, plan, running, restored, document, begun, stale, lost>>
      /\ "goal" \in Threads /\ job["goal"].pc = "spend"
    BY DEF SpendOwn, executionVars, history, At, Threads
<1>2. Owns(job["goal"]) /\ ~Spends(job["goal"])
    BY <1>1 DEF Owns, Spends
<1>3. /\ e \in Executions \ begun /\ plan[e].kind # "none" /\ a \in Approvals
      /\ \A u \in Threads : u # "goal" /\ Owns(job[u]) => job[u].execution # e
    BY <1>1, <1>2 DEF Owned, Begun
<1>4. CASE Spend("goal", a, e)
  <2>1. /\ live[a] = Unspent /\ live[a] \notin Executions /\ live' = [live EXCEPT ![a] = e]
        /\ Become("goal", Saving("spend", e)) /\ e \in Use /\ e # Unrecorded
      BY <1>3, <1>4, IdleTyped DEF Spend, Use
  <2>2. /\ made' \in 0..MaxApprovals /\ made <= made' /\ a <= made' /\ pending' \subseteq pending \ {a}
      BY <1>1, <1>3, <2>1, StartsAssumption DEF Typed, Uses, Sound, Unspent, Unrecorded
  <2>3. /\ \A i \in Executions : plan[i].kind # "none" => plan[i].approval \in Approvals
        /\ plan \in [Executions -> Plan]
      BY DEF Begun, Typed
  <2> HIDE DEF e, a
  <2> QED  BY <1>1, <1>2, <1>3, <2>1, <2>2, <2>3, MarkKeeps DEF a
<1>5. CASE Become("goal", Idle) /\ UNCHANGED live
    BY <1>1, <1>2, <1>5, IdleTyped, QuietKeeps DEF Idle, Begun
<1> QED  BY <1>4, <1>5 DEF SpendOwn

-----------------------------------------------------------------------------
\* What a document is captured from.
LEMMA CaptureKeeps == ASSUME IInv, NEW t \in Threads, Capture(t)  PROVE IInv'
<1> USE DEF IInv, Parts
<1>1. /\ UNCHANGED <<pending, live, disk, made, plan, running, restored, document, begun, stale, lost>>
      /\ job[t].pc = "capture" /\ job[t] \in Job /\ job[t].executions \cup job[t].left \subseteq begun
      /\ running \cup restored \subseteq begun /\ live \in [Approvals -> Use] /\ begun \subseteq Executions
    BY DEF Capture, approvalVars, executionVars, history, At, Typed, Begun
<1>2. CASE DocumentOf(t) = "approvals"
  <2> DEFINE mine == [job[t] EXCEPT !.pc = "save", !.approvals = live]
  <2>1. /\ mine \in Job /\ mine.pc = "save" /\ mine.purpose = job[t].purpose /\ mine.execution = job[t].execution
        /\ mine.executions = job[t].executions /\ mine.left = job[t].left /\ mine.approvals = live
      BY <1>1 DEF Job, PC
  <2>2. Become(t, mine)
      BY <1>2 DEF Capture
  <2> HIDE DEF mine
  <2> QED  BY <1>1, <2>1, <2>2, QuietKeeps DEF Owns, Spends, Begun
<1>3. CASE DocumentOf(t) # "approvals"
  <2> DEFINE mine == [job[t] EXCEPT !.pc = "save", !.executions = running \cup restored]
  <2>1. /\ mine \in Job /\ mine.pc = "save" /\ mine.purpose = job[t].purpose /\ mine.execution = job[t].execution
        /\ mine.executions = running \cup restored /\ mine.left = job[t].left /\ mine.approvals = job[t].approvals
      BY <1>1 DEF Job, PC
  <2>2. Become(t, mine) /\ job[t].purpose \notin {"confirm", "record", "spend"}
      BY <1>3 DEF Capture, DocumentOf
  <2> HIDE DEF mine
  <2> QED  BY <1>1, <2>1, <2>2, QuietKeeps DEF Owns, Spends, Holds, Begun
<1> QED  BY <1>2, <1>3

\* What a save leads to: a recording to the spending, a spending to the start.
LEMMA AfterSaveFacts ==
    ASSUME IInv, NEW t \in Threads, job[t].pc = "save"
    PROVE  /\ AfterSave(t) \in Job /\ AfterSave(t).executions \cup AfterSave(t).left = {} /\ AfterSave(t).approvals = Blank
           /\ ~Spends(AfterSave(t)) /\ ~Holds(AfterSave(t))
           /\ Owns(AfterSave(t)) => Owns(job[t]) /\ AfterSave(t).execution = job[t].execution
           /\ AfterSave(t).pc = "begin" =>
                job[t].purpose = "spend" /\ AfterSave(t).execution = job[t].execution
           /\ job[t].purpose = "spend" => AfterSave(t).pc = "begin" /\ AfterSave(t).execution = job[t].execution
<1> DEFINE e == job[t].execution
<1>1. job[t] \in Job /\ e \in Executions \cup {None} /\ job[t].purpose \in Purpose
    BY DEF IInv, Typed, Job
<1>2. ASSUME NEW pc \in {"spend", "begin", "return"}
      PROVE  LET j == [Idle EXCEPT !.pc = pc, !.execution = e]
             IN j \in Job /\ j.executions \cup j.left = {} /\ j.approvals = Blank /\ j.pc = pc /\ j.execution = e
    BY <1>1, IdleTyped DEF Idle, Job, PC
<1>3. CASE job[t].purpose = "record"
    BY <1>2, <1>3 DEF AfterSave, Owns, Spends, Holds
<1>4. CASE job[t].purpose = "spend"
    BY <1>2, <1>4 DEF AfterSave, Owns, Spends, Holds
<1>5. CASE job[t].purpose = "checkpoint"
    BY <1>1, <1>5, SavingTyped DEF AfterSave, Owns, Spends, Holds, Purpose
<1>6. CASE job[t].purpose = "report" /\ e # None
    BY <1>2, <1>6 DEF AfterSave, Owns, Spends, Holds
<1>7. CASE job[t].purpose \notin {"record", "spend", "checkpoint"} /\ ~(job[t].purpose = "report" /\ e # None)
  <2>1. AfterSave(t) = Idle
      BY <1>7 DEF AfterSave
  <2> QED  BY <1>7, <2>1, IdleTyped DEF Idle
<1> QED  BY <1>3, <1>4, <1>5, <1>6, <1>7

\* The file is replaced: a spending becomes firm, and whatever others have
\* captured of the approvals is outdated.
LEMMA SaveKeeps == ASSUME IInv, NEW t \in Threads, Save(t)  PROVE IInv'
<1> USE DEF IInv, Parts
<1> DEFINE mine == AfterSave(t)
           e == job[t].execution
<1>1. /\ UNCHANGED <<pending, live, made, plan, running, restored, begun, lost>>
      /\ job[t].pc = "save" /\ job[t] \in Job
    BY DEF Save, At, Typed
<1>2. /\ mine \in Job /\ mine.executions \cup mine.left = {} /\ mine.approvals = Blank
      /\ ~Spends(mine) /\ ~Holds(mine)
      /\ Owns(mine) => Owns(job[t]) /\ mine.execution = e
      /\ mine.pc = "begin" => job[t].purpose = "spend" /\ mine.execution = e
    BY <1>1, AfterSaveFacts
<1>3. /\ job'[t] = mine
      /\ \A u \in Threads : u # t =>
           \/ job'[u] = job[u] /\ ~(Holds(job[u]) /\ DocumentOf(t) = "approvals")
           \/ job'[u] = [job[u] EXCEPT !.behind = TRUE]
      /\ job' = [u \in Threads |-> job'[u]]
    BY <1>1 DEF Save, Holds, DocumentOf
<1>4. ASSUME NEW u \in Threads, u # t
      PROVE  /\ job'[u] \in Job /\ job'[u].pc = job[u].pc /\ job'[u].purpose = job[u].purpose
             /\ job'[u].execution = job[u].execution /\ job'[u].executions = job[u].executions
             /\ job'[u].left = job[u].left
             /\ job'[u].approvals = job[u].approvals /\ (~job'[u].behind => ~job[u].behind)
             /\ (Owns(job'[u]) <=> Owns(job[u])) /\ (Spends(job'[u]) <=> Spends(job[u]))
             /\ (Holds(job'[u]) <=> Holds(job[u]))
             /\ DocumentOf(t) = "approvals" /\ Holds(job'[u]) => job'[u].behind
  <2>1. job[u] \in Job
      BY DEF Typed
  <2>2. CASE job'[u] = job[u] /\ ~(Holds(job[u]) /\ DocumentOf(t) = "approvals")
      BY <2>1, <2>2
  <2>3. CASE job'[u] = [job[u] EXCEPT !.behind = TRUE]
      BY <2>1, <2>3 DEF Job, Owns, Spends, Holds
  <2> QED  BY <1>3, <1>4, <2>2, <2>3
<1> HIDE DEF mine
<1>5. job' \in [Threads -> Job]
    BY <1>2, <1>3, <1>4
<1>6. disk' = disk \/ disk' = job[t].approvals
    BY DEF Save
<1>7. document' \subseteq begun
    BY DEF Save, Begun
<1>8. Typed'
    BY <1>1, <1>5, <1>6 DEF Typed, Job
<1>9. Begun'
    BY <1>1, <1>2, <1>3, <1>4, <1>7 DEF Begun
<1>10. Owned'
    BY <1>1, <1>2, <1>3, <1>4 DEF Owned
<1>11. \A uses : Sound(uses)' <=> Sound(uses)
    BY <1>1 DEF Sound
<1>12. Uses'
  <2>1. Sound(live)' /\ Sound(disk)'
      BY <1>1, <1>6 DEF Uses, Sound
  <2>2. \A u \in Threads : Sound(job'[u].approvals)
      BY <1>2, <1>3, <1>4, IdleTyped DEF Uses
  <2> QED  BY <1>1, <2>1, <2>2 DEF Uses, Sound
<1>13. job[t].purpose = "spend" => Spends(job[t])
    BY <1>1 DEF Spends
<1>14. SpentHere'
    BY <1>1, <1>2, <1>3, <1>4, <1>13 DEF SpentHere
<1>15. ASSUME NEW a \in Approvals, Firm(a)', ~Firm(a)
       PROVE  Spends(job[t]) /\ live[a] = e /\ DocumentOf(t) = "approvals"
    BY <1>1, <1>4, <1>15 DEF Firm, Spends, DocumentOf
<1>16. ASSUME NEW a \in Approvals, Firm(a)', ~job[t].behind, DocumentOf(t) = "approvals"
       PROVE  job[t].approvals[a] = live[a]
  <2>1. CASE Firm(a)
      BY <1>1, <1>16, <2>1 DEF FirmKept, Holds, DocumentOf
  <2>2. CASE ~Firm(a)
    <3>1. Spends(job[t]) /\ live[a] = e /\ e \in Executions
        BY <1>15, <1>16, <2>2 DEF Owned, Owns, Spends
    <3>2. plan[e].approval = a
        BY <3>1 DEF Uses, Sound
    <3> QED  BY <1>1, <3>1, <3>2 DEF SpentHere
  <2> QED  BY <2>1, <2>2
<1>17. FirmKept'
  <2>1. CASE DocumentOf(t) = "approvals"
    <3>1. disk' = job[t].approvals /\ ("approvals" \notin stale' => ~job[t].behind)
        BY <2>1 DEF Save
    <3> QED  BY <1>1, <1>2, <1>3, <1>4, <1>16, <2>1, <3>1 DEF FirmKept
  <2>2. CASE DocumentOf(t) # "approvals"
    <3>1. DocumentOf(t) = "executions"
        BY <2>2 DEF DocumentOf
    <3>2. disk' = disk /\ ("approvals" \in stale' <=> "approvals" \in stale)
        BY <2>2, <3>1 DEF Save
    <3>3. \A a \in Approvals : Firm(a)' => Firm(a)
        BY <1>15, <2>2
    <3> QED  BY <1>1, <1>2, <1>3, <1>4, <3>2, <3>3 DEF FirmKept
  <2> QED  BY <2>1, <2>2
<1>18. BegunSpent'
    BY <1>1 DEF BegunSpent
<1> QED  BY <1>8, <1>9, <1>10, <1>12, <1>14, <1>17, <1>18

\* A spending that could not be saved is taken back: it was not firm.
LEMMA SaveFailsKeeps == ASSUME IInv, NEW t \in Threads, SaveFails(t)  PROVE IInv'
<1> USE DEF IInv, Parts
<1> DEFINE e == job[t].execution
           a == plan[e].approval
           mine == IF job[t].purpose = "report" THEN AfterSave(t) ELSE Idle
<1>1. /\ UNCHANGED <<pending, disk, made, plan, restored, document, begun, stale, lost>>
      /\ running' \subseteq running /\ job[t].pc = "save" /\ Become(t, mine)
    BY DEF SaveFails, history, At
<1>2. /\ mine \in Job /\ mine.executions \cup mine.left = {} /\ mine.approvals = Blank
      /\ ~Spends(mine) /\ ~Holds(mine) /\ ~Owns(mine) /\ mine.pc # "begin"
    BY <1>1, AfterSaveFacts, IdleTyped DEF Idle, Owns
<1> HIDE DEF mine
<1>3. CASE job[t].purpose # "spend"
  <2>1. UNCHANGED live /\ ~Spends(job[t])
      BY <1>3 DEF SaveFails, Spends
  <2> QED  BY <1>1, <1>2, <2>1, QuietKeeps DEF Begun
<1>4. CASE job[t].purpose = "spend"
  <2>1. /\ Spends(job[t]) /\ Owns(job[t]) /\ e \in Executions \ begun /\ a \in Approvals /\ live[a] = e
        /\ plan[e].kind # "none" /\ live' = [live EXCEPT ![a] = Unspent]
      BY <1>1, <1>4 DEF Spends, Owns, Owned, Begun, SpentHere, SaveFails
  <2>2. /\ live' \in [Approvals -> Use] /\ live'[a] = Unspent
        /\ \A b \in Approvals : b # a => live'[b] = live[b]
      BY <2>1 DEF Typed, Use
  <2>3. /\ job' \in [Threads -> Job] /\ job'[t] = mine
        /\ \A u \in Threads : u # t => job'[u] = job[u]
      BY <1>1, <1>2, Becoming
  <2>4. Typed' /\ Begun' /\ Owned'
      BY <1>1, <1>2, <2>2, <2>3 DEF Typed, Begun, Owned
  <2>5. \A uses : Sound(uses)' <=> Sound(uses)
      BY <1>1 DEF Sound
  <2>6. Sound(live)' /\ live[a] # Unrecorded
      BY <1>1, <2>1, <2>2, IdleTyped DEF Uses, Sound
  <2>7. Uses'
    <3>1. \A u \in Threads : Sound(job'[u].approvals)
        BY <1>2, <2>3, IdleTyped DEF Uses
    <3> QED  BY <1>1, <2>2, <2>6, <3>1 DEF Uses, Sound, Typed
  <2>8. ASSUME NEW u \in Threads, u # t, Spends(job[u]) \/ job[u].pc = "begin"
        PROVE  plan[job[u].execution].approval \in Approvals \ {a}
    <3>1. Owns(job[u]) /\ job[u].execution # e
        BY <2>1, <2>8 DEF Owned, Owns, Spends
    <3> QED  BY <2>1, <2>8, <3>1 DEF Owned, Begun, SpentHere
  <2>9. SpentHere'
      BY <1>1, <1>2, <2>2, <2>3, <2>8 DEF SpentHere
  <2>10. ASSUME NEW b \in Approvals, Firm(b)'  PROVE b # a /\ Firm(b)
    <3>1. b # a
        BY <2>2, <2>10, IdleTyped DEF Firm
    <3>2. live[b] # e
        BY <2>1, <3>1 DEF Uses, Sound
    <3> QED  BY <2>2, <2>3, <2>10, <3>1, <3>2 DEF Firm
  <2>11. FirmKept'
      BY <1>1, <1>2, <2>2, <2>3, <2>10 DEF FirmKept
  <2>12. BegunSpent'
    <3>1. ASSUME NEW f \in begun, "approvals" \notin lost  PROVE live'[plan[f].approval] = f
      <4>1. f \in Executions /\ plan[f].approval \in Approvals /\ live[plan[f].approval] = f
          BY <3>1 DEF Begun, Typed, BegunSpent
      <4> QED  BY <2>1, <2>2, <4>1
    <3> QED  BY <1>1, <3>1 DEF BegunSpent
  <2> QED  BY <2>4, <2>7, <2>9, <2>11, <2>12
<1> QED  BY <1>3, <1>4

-----------------------------------------------------------------------------
\* A start: the execution's own approval is spent on it, and saved.
LEMMA BeginKeeps == ASSUME IInv, NEW t \in Threads, Begin(t)  PROVE IInv'
<1> USE DEF IInv, Parts
<1> DEFINE e == job[t].execution
           mine == Saving(IF plan[e].kind \in Missions THEN "checkpoint" ELSE "report",
                          IF t = "goal" THEN e ELSE None)
<1>1. /\ UNCHANGED <<pending, live, disk, made, plan, restored, document, stale, lost>>
      /\ running' = running \cup {e} /\ begun' = begun \cup {e}
      /\ job[t].pc = "begin" /\ Become(t, mine)
    BY DEF Begin, approvalVars, At
<1>2. Owns(job[t]) /\ ~Spends(job[t]) /\ e \in Executions \ begun /\ plan[e].kind # "none" /\ live[plan[e].approval] = e
    BY <1>1 DEF Owns, Spends, Owned, SpentHere
<1>3. /\ mine \in Job /\ mine.executions \cup mine.left = {} /\ mine.approvals = Blank
      /\ ~Spends(mine) /\ ~Holds(mine) /\ ~Owns(mine) /\ mine.pc # "begin"
    BY <1>2, SavingTyped DEF Purpose, Spends, Holds, Owns
<1> HIDE DEF mine
<1>4. /\ job' \in [Threads -> Job] /\ job'[t] = mine
      /\ \A u \in Threads : u # t => job'[u] = job[u]
    BY <1>1, <1>3, Becoming
<1>5. Typed' /\ Begun'
    BY <1>1, <1>2, <1>3, <1>4 DEF Typed, Begun
<1>6. Owned'
    BY <1>1, <1>2, <1>3, <1>4 DEF Owned
<1>7. Uses'
  <2>1. \A uses : Sound(uses)' <=> Sound(uses)
      BY <1>1 DEF Sound
  <2>2. \A u \in Threads : Sound(job'[u].approvals)
      BY <1>3, <1>4, IdleTyped DEF Uses
  <2> QED  BY <1>1, <2>2 DEF Uses, Sound
<1>8. SpentHere'
    BY <1>1, <1>3, <1>4 DEF SpentHere
<1>9. \A a \in Approvals : Firm(a)' => Firm(a)
    BY <1>1, <1>2, <1>4 DEF Firm
<1>10. FirmKept'
    BY <1>1, <1>3, <1>4, <1>9 DEF FirmKept
<1>11. BegunSpent'
    BY <1>1, <1>2 DEF BegunSpent
<1> QED  BY <1>5, <1>6, <1>7, <1>8, <1>10, <1>11

\* Steps of an execution that is begun, and of recovery.
LEMMA RunKeeps ==
    ASSUME IInv, Return \/ Recover \/ RecoverOne \/ Recovered \/ ResumeRestored \/ \E t \in Threads : Report(t)
    PROVE  IInv'
<1> USE DEF IInv, Parts, approvalVars, executionVars, history, At
<1>1. /\ "goal" \in Threads /\ "panel" \in Threads
      /\ restored \subseteq begun /\ begun \subseteq Executions
    BY DEF Threads, Begun, Typed
<1>2. CASE Return \/ Recovered
  <2>1. /\ Become("goal", Idle) /\ ~Owns(job["goal"]) /\ ~Spends(job["goal"])
        /\ UNCHANGED <<pending, live, disk, made, plan, running, restored, document, begun, stale, lost>>
      BY <1>2 DEF Return, Recovered, Owns, Spends
  <2> QED  BY <1>1, <2>1, IdleTyped, QuietKeeps DEF Idle, Begun
<1>3. CASE Recover
  <2> DEFINE mine == [Idle EXCEPT !.pc = "recover", !.left = {e \in restored : plan[e].kind = "learning"}]
  <2>1. /\ mine \in Job /\ mine.executions \cup mine.left \subseteq restored /\ mine.approvals = Blank /\ mine.pc = "recover"
      BY <1>1, IdleTyped DEF Idle, Job, PC
  <2>2. /\ Become("goal", mine) /\ ~Owns(job["goal"]) /\ ~Spends(job["goal"])
        /\ UNCHANGED <<pending, live, disk, made, plan, running, restored, document, begun, stale, lost>>
      BY <1>3 DEF Recover, Owns, Spends
  <2> HIDE DEF mine
  <2> QED  BY <1>1, <2>1, <2>2, QuietKeeps DEF Begun, Owns, Spends, Holds
<1>4. CASE RecoverOne
  <2>1. PICK e \in job["goal"].left :
          /\ UNCHANGED <<running, restored>> \/ Rebind(e)
          /\ Become("goal", [job["goal"] EXCEPT !.left = @ \ {e}])
      BY <1>4 DEF RecoverOne
  <2> DEFINE mine == [job["goal"] EXCEPT !.left = @ \ {e}]
  <2>2. /\ mine \in Job /\ mine.executions = job["goal"].executions /\ mine.left \subseteq job["goal"].left
        /\ mine.approvals = job["goal"].approvals /\ mine.pc = "recover"
      BY <1>1, <1>4 DEF RecoverOne, Typed, Job
  <2>3. /\ ~Owns(job["goal"]) /\ ~Spends(job["goal"]) /\ Become("goal", mine)
        /\ UNCHANGED <<pending, live, disk, made, plan, document, begun, stale, lost>>
      BY <1>4, <2>1 DEF RecoverOne, Owns, Spends
  <2> HIDE DEF mine
  <2>4. e \in begun
      BY <1>1 DEF Begun
  <2> QED  BY <1>1, <2>1, <2>2, <2>3, <2>4, QuietKeeps DEF Begun, Owns, Spends, Holds, Rebind
<1>5. CASE ResumeRestored
  <2>1. /\ running' \cup restored' \subseteq begun
        /\ job["panel"].pc = "idle" /\ job["panel"] \in Job /\ ~Owns(job["panel"]) /\ ~Spends(job["panel"])
        /\ UNCHANGED <<pending, live, disk, made, plan, document, begun, stale, lost>>
      BY <1>1, <1>5 DEF ResumeRestored, Rebind, Begun, Owns, Spends, Typed
  <2>2. CASE UNCHANGED job
    <3>1. Become("panel", job["panel"])
        BY <1>1, <2>2 DEF Become, Typed
    <3> QED  BY <1>1, <2>1, <3>1, QuietKeeps DEF Begun, Owns, Spends, Holds
  <2>3. CASE Become("panel", Saving("report", None))
      BY <1>1, <2>1, <2>3, SavingTyped, QuietKeeps DEF Begun, Owns, Spends, Holds, Purpose
  <2> QED  BY <1>5, <2>2, <2>3 DEF ResumeRestored
<1>6. ASSUME NEW t \in Threads, Report(t)  PROVE IInv'
  <2>1. /\ Become(t, Saving("report", None)) /\ ~Owns(job[t]) /\ ~Spends(job[t])
        /\ UNCHANGED <<pending, live, disk, made, plan, running, restored, document, begun, stale, lost>>
      BY <1>6 DEF Report, Owns, Spends
  <2> QED  BY <2>1, SavingTyped, QuietKeeps DEF Begun, Owns, Spends, Holds, Purpose
<1> QED  BY <1>2, <1>3, <1>4, <1>5, <1>6

\* What was begun is firm, so that the next process finds it spent, unless
\* the document was outdated.
LEMMA CrashKeeps == ASSUME IInv, Crash  PROVE IInv'
<1> USE DEF IInv, Parts
<1>1. /\ pending' = {} /\ live' = disk /\ running' = {} /\ restored' = document
      /\ job' = [t \in Threads |-> Idle] /\ lost' = lost \cup stale
      /\ UNCHANGED <<disk, made, plan, document, begun, stale>>
    BY DEF Crash
<1>2. \A t \in Threads : job'[t] = Idle
    BY <1>1
<1>3. job' \in [Threads -> Job]
    BY <1>1, IdleTyped
<1>4. Typed' /\ Begun'
    BY <1>1, <1>2, <1>3 DEF Typed, Begun, Idle
<1>5. Owned' /\ SpentHere'
    BY <1>2, IdleTyped DEF Owned, SpentHere, Idle
<1>6. \A uses : Sound(uses)' <=> Sound(uses)
    BY <1>1 DEF Sound
<1>7. Uses'
  <2>1. Sound(live)' /\ Sound(disk)'
      BY <1>1 DEF Uses, Sound
  <2>2. \A t \in Threads : Sound(job'[t].approvals)
      BY <1>2, IdleTyped DEF Idle
  <2> QED  BY <1>1, <2>1, <2>2 DEF Uses, Sound
<1>8. FirmKept'
    BY <1>1, <1>2, IdleTyped DEF FirmKept
<1>9. ASSUME NEW f \in begun, "approvals" \notin lost \cup stale  PROVE disk[plan[f].approval] = f
  <2>1. /\ f \in Executions /\ plan[f].approval \in Approvals /\ live[plan[f].approval] = f
      BY <1>9 DEF Begun, Typed, BegunSpent
  <2>2. Firm(plan[f].approval)
      BY <2>1 DEF Firm, Owned, Owns, Spends
  <2> QED  BY <1>9, <2>1, <2>2 DEF FirmKept
<1>10. BegunSpent'
    BY <1>1, <1>9 DEF BegunSpent
<1> QED  BY <1>4, <1>5, <1>7, <1>8, <1>10

LEMMA StepIInv == IInv /\ [Next]_vars => IInv'
<1> SUFFICES ASSUME IInv, [Next]_vars PROVE IInv'
    OBVIOUS
<1>1. CASE UNCHANGED vars
    BY <1>1 DEF vars, approvalVars, executionVars, history, IInv, Parts, Typed, Begun, Owned, Uses, Sound,
        SpentHere, FirmKept, Firm, BegunSpent
<1>2. CASE Next
    BY <1>2, PreviewKeeps, ConfirmKeeps, StartPlanKeeps, StartGoalKeeps, SpendOwnKeeps, CaptureKeeps, SaveKeeps,
        SaveFailsKeeps, BeginKeeps, RunKeeps, CrashKeeps DEF Next
<1> QED  BY <1>1, <1>2

-----------------------------------------------------------------------------
\* The inductive invariant holds of every reachable state.
THEOREM Invariance == Spec => []IInv
BY InitIInv, StepIInv, PTL DEF Spec

\* An approval begins one execution, over any number of restarts and failures.
THEOREM OneStart == Spec => []StartsOnce
<1>1. IInv => StartsOnce
    BY DEF IInv, Parts, BegunSpent, StartsOnce
<1> QED  BY <1>1, Invariance, PTL

\* The document covers whatever runs or may be taken up again.
THEOREM Covered == Spec => []CoveredByApproval
<1>1. IInv => CoveredByApproval
  <2> SUFFICES ASSUME IInv, "approvals" \notin stale \cup lost, NEW e \in running \cup restored
               PROVE  disk[plan[e].approval] = e
      BY DEF CoveredByApproval
  <2> USE DEF IInv, Parts
  <2>1. e \in begun /\ e \in Executions /\ plan[e].approval \in Approvals /\ live[plan[e].approval] = e
      BY DEF Begun, Typed, BegunSpent
  <2>2. Firm(plan[e].approval)
      BY <2>1 DEF Firm, Owned, Owns, Spends
  <2> QED  BY <2>1, <2>2 DEF FirmKept
<1> QED  BY <1>1, Invariance, PTL

\* Between calls the document has every spending that memory has.
THEOREM Written == Spec => []SpentIsWritten
<1>1. IInv => SpentIsWritten
    BY DEF IInv, Parts, FirmKept, Firm, Spends, SpentIsWritten, At
<1> QED  BY <1>1, Invariance, PTL
-----------------------------------------------------------------------------
(***************************************************************************)
(* A mission request is launched once.                                     *)
(*                                                                         *)
(* What a process knows, it runs or may take up again.  A mission that is  *)
(* known and past its checkpoint is durable: it is in the document, unless *)
(* an outdated capture replaced it, and in every capture that could        *)
(* replace it.  So the next process knows it too, and finds its request    *)
(* among those that were taken; and no two missions that are known, filed  *)
(* or captured have the same request.                                      *)
(***************************************************************************)
Known == running \cup restored
Mission(e) == plan[e].kind \in Missions
Goal == job["goal"]

\* The goal's own execution, before its checkpoint landed and up to its launch.
Checkpointing(e) == Goal.execution = e /\ Goal.pc \in {"capture", "save"} /\ Goal.purpose = "checkpoint"
UnderWay(e) ==
    /\ Goal.execution = e
    /\ Goal.pc = "return" \/ (Goal.pc \in {"capture", "save"} /\ Goal.purpose \in {"checkpoint", "report"})

\* A thread has captured the executions and not yet saved them.
Files(j) == j.pc = "save" /\ j.purpose \notin {"confirm", "record", "spend"}

Durable(e) ==
    /\ "executions" \notin stale => e \in document
    /\ \A t \in Threads : Files(job[t]) /\ ~job[t].behind => e \in job[t].executions

Distinct(S) == \A e, f \in S : Mission(e) /\ Mission(f) /\ plan[e].request = plan[f].request => e = f

\* The panel starts what it authored, the goal what it was asked for.
Asked ==
    /\ Owns(job["panel"]) => plan[job["panel"].execution].kind = "plan"
    /\ job["panel"].purpose # "checkpoint"
    /\ \A e \in Executions : plan[e].kind \notin {"none", "plan"} => plan[e].request \in Requests
    /\ Owns(Goal) => plan[Goal.execution].kind # "plan"

\* No two missions have one request, and the goal's has not been taken yet.
Separate ==
    /\ Distinct(Known) /\ Distinct(document) /\ \A t \in Threads : Distinct(job[t].executions)
    /\ Owns(Goal) => \A f \in Known : Mission(f) => plan[f].request # plan[Goal.execution].request

\* What the goal is in the middle of.
InHand ==
    /\ \A e \in Executions : UnderWay(e) => e \in running /\ plan[e].kind # "plan"
    /\ \A e \in Executions : Checkpointing(e) =>
        e \notin launched \cup restored /\ (Goal.pc = "save" => e \in Goal.executions)
    /\ Goal.pc = "return" => Goal.execution # None
    /\ Goal.left \subseteq Known /\ (Goal.pc # "recover" => Goal.left = {})

\* A known mission is remembered, by its request and in the document.
Remembered == \A e \in Known : Mission(e) =>
    /\ plan[e].request \in goalIds \/ UnderWay(e)
    /\ Durable(e) \/ Checkpointing(e)

LaunchedKnown ==
    /\ launched \subseteq begun
    /\ "executions" \notin lost => \A e \in launched : Mission(e) => e \in Known

Launches == Asked /\ Separate /\ InHand /\ Remembered /\ LaunchedKnown

LEMMA InitLaunches == Init => Launches
<1> SUFFICES ASSUME Init PROVE Launches
    OBVIOUS
<1> USE DEF Init, Known, Goal
<1>1. /\ \A t \in Threads : job[t] = Idle /\ job[t].pc = "idle" /\ job[t].purpose = "none"
                           /\ job[t].executions = {} /\ job[t].left = {}
      /\ "goal" \in Threads /\ "panel" \in Threads
    BY DEF Idle, Threads
<1>2. Asked /\ Separate
    BY <1>1 DEF Asked, Separate, Distinct, Owns
<1>3. InHand /\ Remembered /\ LaunchedKnown
    BY <1>1 DEF InHand, Remembered, LaunchedKnown, UnderWay, Checkpointing
<1> QED  BY <1>2, <1>3 DEF Launches

\* Facts of a step that plans nothing anew for what was planned.
LEMMA Planned ==
    ASSUME IInv, Launches, \A i \in Executions : plan[i].kind # "none" => plan'[i] = plan[i]
    PROVE  /\ "goal" \in Threads /\ "panel" \in Threads /\ None \notin Executions
           /\ Known \subseteq begun /\ running \subseteq Known /\ document \subseteq begun /\ begun \subseteq Executions
           /\ \A e \in begun : plan'[e] = plan[e] /\ (Mission(e)' <=> Mission(e))
           /\ \A S \in SUBSET begun : Distinct(S)' <=> Distinct(S)
           /\ \A t \in Threads : /\ job[t].executions \subseteq begun
                                 /\ Owns(job[t]) => /\ job[t].execution \in Executions \ begun
                                                    /\ plan'[job[t].execution] = plan[job[t].execution]
<1> USE DEF IInv, Parts
<1>1. /\ Known \subseteq begun /\ running \subseteq Known /\ document \subseteq begun /\ begun \subseteq Executions
      /\ \A e \in begun : plan'[e] = plan[e]
    BY DEF Begun, Typed, Known
<1>2. \A e \in begun : Mission(e)' <=> Mission(e)
    BY <1>1 DEF Mission
<1>3. \A S \in SUBSET begun : Distinct(S)' <=> Distinct(S)
    BY <1>1, <1>2 DEF Distinct
<1> QED  BY <1>1, <1>2, <1>3 DEF Begun, Owned, Threads, None, Executions

\* A step of a thread that neither saves nor brings the goal's execution on.
LEMMA IdleLaunches ==
    ASSUME IInv, Launches, NEW t \in Threads, NEW mine \in Job, Become(t, mine),
           UNCHANGED <<document, goalIds, begun, stale, lost>>,
           Known' = Known, running \subseteq running', restored' \subseteq restored,
           launched \subseteq launched', launched' \subseteq launched \cup Known,
           \A i \in Executions : plan[i].kind # "none" => plan'[i] = plan[i],
           \A i \in Executions : plan'[i].kind \notin {"none", "plan"} => plan'[i].request \in Requests,
           mine.executions \in {{}, job[t].executions}, mine.pc # "save",
           t = "panel" \/ mine.pc = "capture" => mine.purpose # "checkpoint",
           t = "panel" => launched' = launched /\ (Owns(mine) => plan'[mine.execution].kind = "plan"),
           t = "goal" =>
               /\ \A e \in Executions : ~UnderWay(e)
               /\ mine.pc \in {"capture", "save"} /\ mine.purpose = "report" => mine.execution = None
               /\ mine.pc # "return"
               /\ mine.left \subseteq Known /\ (mine.pc # "recover" => mine.left = {})
               /\ Owns(mine) => /\ plan'[mine.execution].kind # "plan"
                                /\ \A f \in Known : Mission(f) => plan'[f].request # plan'[mine.execution].request
    PROVE  Launches'
<1> USE DEF Launches
<1>1. /\ job' \in [Threads -> Job] /\ job'[t] = mine
      /\ \A u \in Threads : u # t => job'[u] = job[u]
    BY Becoming DEF IInv
<1>2. /\ "goal" \in Threads /\ "panel" \in Threads /\ None \notin Executions
      /\ Known \subseteq begun /\ running \subseteq Known /\ document \subseteq begun /\ begun \subseteq Executions
      /\ \A e \in begun : plan'[e] = plan[e] /\ (Mission(e)' <=> Mission(e))
      /\ \A S \in SUBSET begun : Distinct(S)' <=> Distinct(S)
      /\ \A u \in Threads : /\ job[u].executions \subseteq begun
                            /\ Owns(job[u]) => /\ job[u].execution \in Executions \ begun
                                               /\ plan'[job[u].execution] = plan[job[u].execution]
    BY Planned
<1>3. Asked'
    BY <1>1, <1>2 DEF Asked, Goal
<1>4. Distinct(Known)' /\ Distinct(document)'
    BY <1>2 DEF Separate
<1>5. ASSUME NEW u \in Threads  PROVE Distinct(job[u].executions)'
  <2>1. job'[u].executions \in {{}, job[u].executions}
      BY <1>1
  <2> QED  BY <1>2, <2>1 DEF Separate, Distinct
<1>6. Separate'
    BY <1>1, <1>2, <1>4, <1>5 DEF Separate, Goal
<1>7. \A e \in Executions : (UnderWay(e)' <=> UnderWay(e)) /\ (Checkpointing(e)' <=> Checkpointing(e))
    BY <1>1, <1>2 DEF UnderWay, Checkpointing, Goal
<1>8. InHand'
  <2>1. CASE t = "panel"
    <3>1. Goal' = Goal /\ launched' = launched
        BY <1>1, <1>2, <2>1 DEF Goal
    <3> QED  BY <1>2, <1>7, <3>1 DEF InHand
  <2>2. CASE t = "goal"
    <3>1. Goal' = mine /\ \A e \in Executions : ~UnderWay(e)' /\ ~Checkpointing(e)'
        BY <1>1, <1>7, <2>2 DEF Goal, UnderWay, Checkpointing
    <3> QED  BY <2>2, <3>1 DEF InHand
  <2> QED  BY <2>1, <2>2 DEF Threads
<1>9. \A e \in Executions : Durable(e) => Durable(e)'
    BY <1>1 DEF Durable, Files
<1>10. Remembered'
    BY <1>2, <1>7, <1>9 DEF Remembered
<1>11. LaunchedKnown'
    BY <1>2 DEF LaunchedKnown
<1> QED  BY <1>3, <1>6, <1>8, <1>10, <1>11
\* A thread sets out to save something, though not a mission's checkpoint.
LEMMA SetsOut ==
    ASSUME IInv, Launches, NEW t \in Threads, NEW purpose \in {"confirm", "record", "spend", "report"},
           NEW e \in Executions \cup {None}, Become(t, Saving(purpose, e)),
           UNCHANGED <<document, goalIds, begun, launched, stale, lost>>,
           Known' = Known, running \subseteq running', restored' \subseteq restored,
           \A i \in Executions : plan[i].kind # "none" => plan'[i] = plan[i],
           \A i \in Executions : plan'[i].kind \notin {"none", "plan"} => plan'[i].request \in Requests,
           purpose = "report" => e = None,
           t = "panel" /\ purpose \in {"record", "spend"} => plan'[e].kind = "plan",
           t = "goal" => Goal.pc \notin {"capture", "save", "return"},
           t = "goal" /\ purpose \in {"record", "spend"} =>
               plan'[e].kind # "plan" /\ \A f \in Known : Mission(f) => plan'[f].request # plan'[e].request
    PROVE  Launches'
<1> DEFINE mine == Saving(purpose, e)
<1>1. /\ mine \in Job /\ mine.pc = "capture" /\ mine.purpose = purpose /\ mine.execution = e
      /\ mine.executions = {} /\ mine.left = {} /\ (Owns(mine) <=> purpose \in {"record", "spend"})
    BY SavingTyped DEF Owns, Purpose
<1>2. Become(t, mine)
    OBVIOUS
<1>3. t = "goal" => \A i \in Executions : ~UnderWay(i)
    BY DEF UnderWay
<1> HIDE DEF mine
<1> QED  BY <1>1, <1>2, <1>3, IdleLaunches

\* Calls that only set out to do something, and recovery.
LEMMA PlainLaunches ==
    ASSUME IInv, Launches,
           \/ Preview \/ Confirm \/ StartPlan \/ StartGoal \/ SpendOwn \/ ResumeRestored
           \/ Recover \/ RecoverOne \/ Recovered \/ \E t \in Threads : Report(t)
    PROVE  Launches'
<1> USE DEF Launches, approvalVars, executionVars, history, At
<1>1. /\ "goal" \in Threads /\ "panel" \in Threads /\ job["panel"] \in Job /\ Goal \in Job
      /\ None \notin Executions /\ None \in Executions \cup {None}
      /\ job = [job EXCEPT !["panel"] = job["panel"]]
      /\ \A i \in Executions : plan[i].kind \notin {"none", "plan"} => plan[i].request \in Requests
    BY DEF IInv, Typed, Threads, Goal, None, Executions, Asked
<1>2. Idle.pc = "idle" /\ Idle.purpose = "none" /\ Idle.executions = {} /\ Idle.left = {} /\ Idle \in Job /\ ~Owns(Idle)
    BY IdleTyped DEF Idle
<1>3. ASSUME Goal.pc \notin {"capture", "save", "return"}  PROVE \A e \in Executions : ~UnderWay(e)
    BY <1>3 DEF UnderWay
<1>4. CASE UNCHANGED <<job, plan, running, restored, document, goalIds, launched, begun, stale, lost>> /\ job["panel"].pc = "idle"
  <2>1. Become("panel", job["panel"]) /\ ~Owns(job["panel"]) /\ job["panel"].purpose # "checkpoint"
      BY <1>1, <1>4 DEF Become, Owns, Asked
  <2>2. Known' = Known
      BY <1>4 DEF Known
  <2> QED  BY <1>1, <1>4, <2>1, <2>2, IdleLaunches
<1>5. CASE ResumeRestored
  <2>1. /\ UNCHANGED <<plan, document, goalIds, launched, begun, stale, lost>> /\ job["panel"].pc = "idle"
        /\ Known' = Known /\ running \subseteq running' /\ restored' \subseteq restored
      BY <1>5 DEF ResumeRestored, Rebind, Known
  <2>2. CASE UNCHANGED job
    <3>1. Become("panel", job["panel"]) /\ ~Owns(job["panel"]) /\ job["panel"].purpose # "checkpoint"
        BY <1>1, <2>1, <2>2 DEF Become, Owns, Asked
    <3> QED  BY <1>1, <2>1, <3>1, IdleLaunches
  <2>3. CASE Become("panel", Saving("report", None))
      BY <1>1, <2>1, <2>3, SetsOut
  <2> QED  BY <1>5, <2>2, <2>3 DEF ResumeRestored
<1>6. CASE Confirm
  <2>1. /\ UNCHANGED <<plan, running, restored, document, goalIds, launched, begun, stale, lost>>
        /\ job["panel"].pc = "idle"
        /\ UNCHANGED job \/ Become("panel", Saving("confirm", None))
      BY <1>6 DEF Confirm, At
  <2>2. Known' = Known
      BY <2>1 DEF Known
  <2>3. CASE Become("panel", Saving("confirm", None))
      BY <1>1, <2>1, <2>2, <2>3, SetsOut
  <2> QED  BY <1>4, <2>1, <2>3
<1>7. CASE StartPlan
  <2>1. PICK a \in Approvals, e \in Executions :
          /\ Fresh(e) /\ Spend("panel", a, e)
          /\ plan' = [plan EXCEPT ![e] = [kind |-> "plan", approval |-> a, request |-> None]]
      BY <1>7 DEF StartPlan
  <2>2. /\ UNCHANGED <<running, restored, document, goalIds, launched, begun, stale, lost>> /\ Known' = Known
        /\ Become("panel", Saving("spend", e))
      BY <1>7, <2>1 DEF StartPlan, Spend, Known
  <2>3. /\ plan'[e].kind = "plan" /\ \A i \in Executions : i # e => plan'[i] = plan[i]
        /\ plan[e].kind = "none"
      BY <2>1 DEF IInv, Typed, Fresh
  <2> QED  BY <1>1, <2>2, <2>3, SetsOut
<1>8. CASE StartGoal
  <2>1. PICK r \in Requests \ goalIds, e \in Executions, kind \in Kind \ {"none", "plan"} :
          /\ Fresh(e)
          /\ plan' = [plan EXCEPT ![e] = [kind |-> kind, approval |-> made', request |-> r]]
          /\ Become("goal", Saving("record", e))
      BY <1>8 DEF StartGoal
  <2>2. /\ UNCHANGED <<running, restored, document, goalIds, launched, begun, stale, lost>> /\ Known' = Known
        /\ Goal.pc = "idle"
      BY <1>8 DEF StartGoal, Known, Goal
  <2>3. /\ plan'[e].kind = kind /\ plan'[e].request = r /\ \A i \in Executions : i # e => plan'[i] = plan[i]
        /\ plan[e].kind = "none"
      BY <2>1 DEF IInv, Typed, Fresh
  <2>4. ASSUME NEW f \in Known, Mission(f)  PROVE f # e /\ f \in Executions /\ plan[f].request # r
      BY <1>3, <2>1, <2>2, <2>3, <2>4, Planned DEF Remembered, Mission, Missions, IInv, Parts, Begun
  <2>5. \A f \in Known : Mission(f) => plan'[f].request # r
      BY <2>3, <2>4
  <2> QED  BY <1>1, <2>1, <2>2, <2>3, <2>5, SetsOut
<1>9. CASE SpendOwn
  <2>1. /\ UNCHANGED <<plan, running, restored, document, goalIds, launched, begun, stale, lost>> /\ Known' = Known
        /\ Goal.pc = "spend" /\ Owns(Goal)
        /\ Become("goal", Saving("spend", Goal.execution)) \/ Become("goal", Idle)
      BY <1>9 DEF SpendOwn, Spend, Known, Goal, Owns
  <2>2. Goal.execution \in Executions
      BY <1>1, <2>1 DEF IInv, Parts, Owned, Goal
  <2>3. CASE Become("goal", Saving("spend", Goal.execution))
      BY <1>1, <2>1, <2>2, <2>3, SetsOut DEF Asked, Separate
  <2>4. CASE Become("goal", Idle)
      BY <1>1, <1>2, <1>3, <2>1, <2>4, IdleLaunches
  <2> QED  BY <2>1, <2>3, <2>4
<1>10. ASSUME NEW t \in Threads, Report(t)  PROVE Launches'
  <2>1. /\ UNCHANGED <<plan, running, restored, document, goalIds, launched, begun, stale, lost>> /\ Known' = Known
        /\ job[t].pc = "idle" /\ Become(t, Saving("report", None))
      BY <1>10 DEF Report, Known
  <2> QED  BY <1>1, <2>1, SetsOut DEF Goal
<1>11. CASE Recover \/ Recovered
  <2> DEFINE learning == {e \in restored : plan[e].kind = "learning"}
             recovering == [Idle EXCEPT !.pc = "recover", !.left = learning]
  <2>1. learning \subseteq Executions /\ learning \subseteq Known
      BY DEF IInv, Parts, Begun, Typed, Known
  <2>2. Become("goal", Idle) \/ Become("goal", recovering)
      BY <1>11 DEF Recover, Recovered
  <2> HIDE DEF learning
  <2>3. /\ recovering \in Job /\ recovering.executions = {} /\ recovering.pc = "recover"
        /\ recovering.left \subseteq Known /\ ~Owns(recovering)
      BY <1>2, <2>1 DEF Job, PC, Owns
  <2> HIDE DEF recovering
  <2>4. /\ UNCHANGED <<plan, running, restored, document, goalIds, launched, begun, stale, lost>> /\ Known' = Known
        /\ Goal.pc \in {"idle", "recover"}
      BY <1>11 DEF Recover, Recovered, Known, Goal
  <2> QED  BY <1>1, <1>2, <1>3, <2>2, <2>3, <2>4, IdleLaunches
<1>12. CASE RecoverOne
  <2>1. PICK e \in Goal.left :
          /\ UNCHANGED <<running, restored, launched>> \/ (Rebind(e) /\ launched' = launched \cup {e})
          /\ Become("goal", [Goal EXCEPT !.left = @ \ {e}])
      BY <1>12 DEF RecoverOne, Goal
  <2> DEFINE mine == [Goal EXCEPT !.left = @ \ {e}]
  <2>2. Goal.pc = "recover" /\ Goal.purpose \in Purpose
      BY <1>1, <1>12 DEF RecoverOne, Goal, Job
  <2>3. /\ mine \in Job /\ mine.executions = Goal.executions /\ mine.purpose = Goal.purpose
        /\ mine.pc = "recover" /\ mine.left \subseteq Goal.left /\ ~Owns(mine)
      BY <1>1, <2>2 DEF Job, Owns
  <2>4. Goal.left \subseteq Known
      BY DEF InHand
  <2>5. /\ UNCHANGED <<plan, document, goalIds, begun, stale, lost>> /\ Known' = Known
        /\ running \subseteq running' /\ restored' \subseteq restored
        /\ launched \subseteq launched' /\ launched' \subseteq launched \cup Known
      BY <1>12, <2>1, <2>4 DEF RecoverOne, Known, Rebind
  <2>6. Become("goal", mine)
      BY <2>1
  <2> HIDE DEF mine
  <2> QED  BY <1>1, <1>3, <2>2, <2>3, <2>4, <2>5, <2>6, IdleLaunches DEF Goal
<1>13. CASE Preview
    BY <1>4, <1>13 DEF Preview
<1> QED  BY <1>5, <1>6, <1>7, <1>8, <1>9, <1>10, <1>11, <1>12, <1>13
\* A capture takes all that is known.
LEMMA CaptureLaunches == ASSUME IInv, Launches, NEW t \in Threads, Capture(t)  PROVE Launches'
<1> USE DEF Launches
<1> DEFINE mine == IF DocumentOf(t) = "approvals" THEN [job[t] EXCEPT !.pc = "save", !.approvals = live]
                   ELSE [job[t] EXCEPT !.pc = "save", !.executions = Known]
<1>1. /\ Become(t, mine) /\ job[t].pc = "capture" /\ job[t] \in Job
      /\ UNCHANGED <<plan, running, restored, document, goalIds, launched, begun, stale, lost>> /\ Known' = Known
    BY DEF Capture, At, Known, approvalVars, executionVars, history, IInv, Typed
<1>2. /\ "goal" \in Threads /\ "panel" \in Threads /\ Known \subseteq begun /\ begun \subseteq Executions
    BY <1>1, Planned
<1>3. /\ mine \in Job /\ mine.pc = "save" /\ mine.purpose = job[t].purpose /\ mine.execution = job[t].execution
      /\ mine.left = job[t].left /\ mine.behind = job[t].behind
      /\ mine.executions \in {job[t].executions, Known}
      /\ Files(mine) => mine.executions = Known
  <2>1. [job[t] EXCEPT !.pc = "save", !.approvals = live] \in Job
      BY <1>1 DEF IInv, Typed, Job, PC
  <2>2. [job[t] EXCEPT !.pc = "save", !.executions = Known] \in Job
      BY <1>1, <1>2 DEF Job, PC
  <2>3. DocumentOf(t) = "approvals" <=> job[t].purpose \in {"confirm", "record", "spend"}
      BY DEF DocumentOf
  <2> QED  BY <1>1, <2>1, <2>2, <2>3 DEF Job, Files
<1> HIDE DEF mine
<1>4. /\ job' \in [Threads -> Job] /\ job'[t] = mine
      /\ \A u \in Threads : u # t => job'[u] = job[u]
    BY <1>1, <1>3, Becoming DEF IInv
<1>5. \A u \in Threads : /\ Owns(job'[u]) <=> Owns(job[u])
                         /\ job'[u].execution = job[u].execution /\ job'[u].purpose = job[u].purpose
                         /\ job'[u].left = job[u].left /\ job'[u].executions \in {job[u].executions, Known}
                         /\ job'[u].pc = job[u].pc \/ (job[u].pc = "capture" /\ job'[u].pc = "save")
                         /\ Files(job'[u]) => (Files(job[u]) /\ job'[u] = job[u]) \/ job'[u].executions = Known
    BY <1>1, <1>3, <1>4 DEF Owns
<1>6. \A S : Distinct(S)' <=> \A e, f \in S' : Mission(e) /\ Mission(f) /\ plan[e].request = plan[f].request => e = f
    BY <1>1 DEF Distinct, Mission
<1>7. Asked'
    BY <1>1, <1>2, <1>5 DEF Asked, Goal
<1>8. \A e : Mission(e)' <=> Mission(e)
    BY <1>1 DEF Mission
<1>9. Separate'
  <2>1. Distinct(Known)' /\ Distinct(document)'
      BY <1>1, <1>8 DEF Separate, Distinct
  <2>2. \A u \in Threads : Distinct(job[u].executions)'
      BY <1>1, <1>5, <1>8 DEF Separate, Distinct
  <2> QED  BY <1>1, <1>2, <1>5, <1>8, <2>1, <2>2 DEF Separate, Goal
<1>10. \A e : (UnderWay(e)' <=> UnderWay(e)) /\ (Checkpointing(e)' <=> Checkpointing(e))
    BY <1>2, <1>5 DEF UnderWay, Checkpointing, Goal
<1>11. ASSUME NEW e \in Executions, Checkpointing(e), Goal'.pc = "save"  PROVE e \in Goal'.executions
  <2>1. e \in Known /\ Files(Goal')
      BY <1>1, <1>5, <1>2, <1>11 DEF InHand, UnderWay, Checkpointing, Known, Goal, Files
  <2>2. Goal.pc = "save" => e \in Goal.executions
      BY <1>11 DEF InHand
  <2> QED  BY <1>2, <1>5, <2>1, <2>2 DEF Goal, Files
<1>12. InHand'
    BY <1>1, <1>2, <1>5, <1>10, <1>11 DEF InHand, Goal
<1>13. \A e \in Known : Durable(e) => Durable(e)'
    BY <1>1, <1>3, <1>4 DEF Durable, Files
<1>14. Remembered'
    BY <1>1, <1>8, <1>10, <1>13 DEF Remembered
<1>15. LaunchedKnown'
    BY <1>1, <1>8 DEF LaunchedKnown
<1> QED  BY <1>7, <1>9, <1>12, <1>14, <1>15

\* What a save takes a thread on to.
LEMMA AfterSaveIs ==
    ASSUME NEW t \in Threads, job[t] \in Job
    PROVE  /\ AfterSave(t) \in Job /\ AfterSave(t).executions = {} /\ AfterSave(t).left = {}
           /\ AfterSave(t).pc \in {"idle", "spend", "begin", "capture", "return"}
           /\ AfterSave(t).purpose # "checkpoint" /\ ~Files(AfterSave(t))
           /\ job[t].purpose \in {"record", "spend"} => AfterSave(t).execution = job[t].execution
           /\ Owns(AfterSave(t)) <=> job[t].purpose \in {"record", "spend"}
           /\ job[t].purpose = "checkpoint" =>
                /\ AfterSave(t).pc = "capture" /\ AfterSave(t).purpose = "report"
                /\ AfterSave(t).execution = job[t].execution
           /\ job[t].purpose = "report" =>
                IF job[t].execution = None THEN AfterSave(t) = Idle
                ELSE AfterSave(t).pc = "return" /\ AfterSave(t).execution = job[t].execution
           /\ job[t].purpose \in {"none", "confirm", "record", "spend"} => AfterSave(t).pc \in {"idle", "spend", "begin"}
           /\ AfterSave(t).pc = "return" => AfterSave(t).execution # None
<1> DEFINE e == job[t].execution
<1>1. /\ Idle.pc = "idle" /\ Idle.purpose = "none" /\ Idle.executions = {} /\ Idle.left = {} /\ Idle \in Job /\ ~Owns(Idle)
      /\ e \in Executions \cup {None} /\ job[t].purpose \in Purpose
    BY IdleTyped DEF Idle, Job
<1>2. ASSUME NEW pc \in PC  PROVE /\ [Idle EXCEPT !.pc = pc, !.execution = e] \in Job
                                  /\ [Idle EXCEPT !.pc = pc, !.execution = e].pc = pc
                                  /\ [Idle EXCEPT !.pc = pc, !.execution = e].purpose = "none"
                                  /\ [Idle EXCEPT !.pc = pc, !.execution = e].execution = e
                                  /\ [Idle EXCEPT !.pc = pc, !.execution = e].executions = {}
                                  /\ [Idle EXCEPT !.pc = pc, !.execution = e].left = {}
    BY <1>1 DEF Job
<1>3. LET j == Saving("report", e) IN /\ j \in Job /\ j.pc = "capture" /\ j.purpose = "report" /\ j.execution = e
                                      /\ j.executions = {} /\ j.left = {}
    BY <1>1, SavingTyped DEF Purpose
<1>4. CASE job[t].purpose = "record"
    BY <1>2, <1>4 DEF AfterSave, PC, Owns, Files
<1>5. CASE job[t].purpose = "spend"
    BY <1>2, <1>5 DEF AfterSave, PC, Owns, Files
<1>6. CASE job[t].purpose = "checkpoint"
  <2>1. AfterSave(t) = Saving("report", e)
      BY <1>6 DEF AfterSave
  <2> QED  BY <1>3, <1>6, <2>1 DEF Owns, Files
<1>7. CASE job[t].purpose = "report" /\ e # None
    BY <1>2, <1>7 DEF AfterSave, PC, Owns, Files
<1>8. CASE job[t].purpose \in {"none", "confirm"} \/ (job[t].purpose = "report" /\ e = None)
  <2>1. AfterSave(t) = Idle
      BY <1>8 DEF AfterSave
  <2> QED  BY <1>1, <1>8, <2>1 DEF Files
<1> QED  BY <1>1, <1>4, <1>5, <1>6, <1>7, <1>8 DEF Purpose

\* A save that lands: every other capture of the document is outdated by it.
LEMMA SaveLaunches == ASSUME IInv, Launches, NEW t \in Threads, Save(t)  PROVE Launches'
<1> USE DEF Launches
<1> DEFINE mine == AfterSave(t)
<1>1. /\ UNCHANGED <<plan, running, restored, goalIds, launched, begun, lost>> /\ Known' = Known
      /\ job[t].pc = "save" /\ job[t] \in Job
    BY DEF Save, At, Known, IInv, Typed
<1>2. /\ "goal" \in Threads /\ "panel" \in Threads /\ Known \subseteq begun /\ begun \subseteq Executions
      /\ job[t].executions \subseteq begun
    BY <1>1, Planned
<1>3. /\ mine \in Job /\ mine.executions = {} /\ mine.left = {}
      /\ mine.pc \in {"idle", "spend", "begin", "capture", "return"}
      /\ mine.purpose # "checkpoint" /\ ~Files(mine)
      /\ job[t].purpose \in {"record", "spend"} => mine.execution = job[t].execution
      /\ Owns(mine) <=> job[t].purpose \in {"record", "spend"}
      /\ job[t].purpose = "checkpoint" =>
                /\ mine.pc = "capture" /\ mine.purpose = "report"
                /\ mine.execution = job[t].execution
      /\ job[t].purpose = "report" =>
                IF job[t].execution = None THEN mine = Idle
                ELSE mine.pc = "return" /\ mine.execution = job[t].execution
      /\ job[t].purpose \in {"none", "confirm", "record", "spend"} => mine.pc \in {"idle", "spend", "begin"}
      /\ mine.pc = "return" => mine.execution # None
    BY <1>1, AfterSaveIs
<1>4. /\ job'[t] = mine
      /\ \A u \in Threads : u # t =>
           IF job[u].pc = "save" /\ DocumentOf(u) = DocumentOf(t)
           THEN job'[u] = [job[u] EXCEPT !.behind = TRUE] ELSE job'[u] = job[u]
    BY DEF Save
<1> HIDE DEF mine
<1>5. ASSUME NEW u \in Threads, u # t
      PROVE  /\ job'[u].pc = job[u].pc /\ job'[u].purpose = job[u].purpose
             /\ job'[u].execution = job[u].execution /\ job'[u].executions = job[u].executions
             /\ job'[u].left = job[u].left /\ (Owns(job'[u]) <=> Owns(job[u]))
             /\ Files(job'[u]) /\ ~job'[u].behind =>
                  Files(job[u]) /\ ~job[u].behind /\ DocumentOf(t) # "executions"
  <2>1. job[u] \in Job
      BY DEF IInv, Typed
  <2>2. Files(job[u]) => DocumentOf(u) = "executions"
      BY DEF Files, DocumentOf
  <2> QED  BY <1>4, <1>5, <2>1, <2>2 DEF Job, Owns, Files
<1>6. job[t].purpose \in Purpose /\ (Owns(job[t]) <=> job[t].purpose \in {"record", "spend"})
    BY <1>1 DEF Job, Owns
<1>7. \A e : Mission(e)' <=> Mission(e)
    BY <1>1 DEF Mission
<1>8. \A u \in Threads : Owns(job'[u]) => Owns(job[u]) /\ job'[u].execution = job[u].execution
    BY <1>3, <1>4, <1>5, <1>6
<1>9. Asked'
    BY <1>1, <1>2, <1>3, <1>4, <1>5, <1>8 DEF Asked, Goal
<1>10. document' = document \/ document' = job[t].executions
    BY DEF Save
<1>11. Separate'
  <2>1. Distinct(Known)' /\ Distinct(document)'
      BY <1>1, <1>7, <1>10 DEF Separate, Distinct
  <2>2. ASSUME NEW u \in Threads  PROVE Distinct(job[u].executions)'
    <3>1. job'[u].executions \in {{}, job[u].executions}
        BY <1>3, <1>4, <1>5
    <3> QED  BY <1>1, <1>7, <3>1 DEF Separate, Distinct
  <2> QED  BY <1>1, <1>2, <1>7, <1>8, <2>1, <2>2 DEF Separate, Goal
<1>12. /\ \A e \in Executions : (UnderWay(e)' <=> UnderWay(e)) /\ (Checkpointing(e)' => Checkpointing(e) /\ t # "goal")
       /\ \A e \in Executions : Checkpointing(e) /\ ~Checkpointing(e)' =>
            t = "goal" /\ e \in job[t].executions /\ DocumentOf(t) = "executions"
  <2>1. CASE t = "goal"
    <3>1. \A e \in Executions : e # None
        BY DEF Executions, None
    <3>2. \A e \in Executions : UnderWay(e)' <=> UnderWay(e)
        BY <1>1, <1>3, <1>4, <1>6, <2>1, <3>1, IdleTyped DEF UnderWay, Goal, Purpose, Idle
    <3>3. \A e \in Executions : ~Checkpointing(e)'
        BY <1>3, <1>4, <2>1 DEF Checkpointing, Goal
    <3>4. \A e \in Executions : Checkpointing(e) => e \in job[t].executions /\ DocumentOf(t) = "executions"
        BY <1>1, <2>1 DEF InHand, Checkpointing, Goal, DocumentOf
    <3> QED  BY <2>1, <3>2, <3>3, <3>4
  <2>2. CASE t # "goal"
      BY <1>2, <1>5, <2>2 DEF UnderWay, Checkpointing, Goal
  <2> QED  BY <2>1, <2>2
<1>13. InHand'
  <2>1. Goal'.left \subseteq Known' /\ (Goal'.pc # "recover" => Goal'.left = {})
      BY <1>1, <1>2, <1>3, <1>4, <1>5 DEF InHand, Goal
  <2>2. Goal'.pc = "return" => Goal'.execution # None
      BY <1>2, <1>3, <1>4, <1>5 DEF InHand, Goal
  <2>3. ASSUME NEW e \in Executions, Checkpointing(e)'
        PROVE  e \notin launched' \cup restored' /\ (Goal'.pc = "save" => e \in Goal'.executions)
      BY <1>1, <1>2, <1>5, <1>12, <2>3 DEF InHand, Goal
  <2> QED  BY <1>1, <1>12, <2>1, <2>2, <2>3 DEF InHand
<1>14. ASSUME NEW e \in Known, Mission(e), ~Checkpointing(e)'  PROVE Durable(e)'
  <2>1. e \in Executions /\ (Durable(e) \/ Checkpointing(e))
      BY <1>2, <1>14 DEF Remembered
  <2>2. CASE DocumentOf(t) = "executions"
    <3>1. /\ document' = job[t].executions
          /\ "executions" \notin stale' => ~job[t].behind
        BY <2>2 DEF Save
    <3>2. Files(job[t])
        BY <1>1, <2>2 DEF Files, DocumentOf
    <3>3. "executions" \notin stale' => e \in document'
        BY <1>12, <1>14, <2>1, <3>1, <3>2 DEF Durable
    <3> QED  BY <1>3, <1>4, <1>5, <2>2, <3>3 DEF Durable
  <2>3. CASE DocumentOf(t) # "executions"
    <3>1. document' = document /\ ("executions" \in stale' <=> "executions" \in stale)
        BY <2>3 DEF Save, DocumentOf
    <3>2. Durable(e)
        BY <1>12, <1>14, <2>1, <2>3
    <3> QED  BY <1>3, <1>4, <1>5, <3>1, <3>2 DEF Durable
  <2> QED  BY <2>2, <2>3
<1>15. Remembered'
    BY <1>1, <1>2, <1>7, <1>12, <1>14 DEF Remembered
<1>16. LaunchedKnown'
    BY <1>1, <1>7 DEF LaunchedKnown
<1> QED  BY <1>9, <1>11, <1>13, <1>15, <1>16
\* A checkpoint that fails takes its mission back, which nobody else knew of.
LEMMA SaveFailsLaunches == ASSUME IInv, Launches, NEW t \in Threads, SaveFails(t)  PROVE Launches'
<1> USE DEF Launches
<1> DEFINE e == job[t].execution
           mine == IF job[t].purpose = "report" THEN AfterSave(t) ELSE Idle
<1>1. /\ UNCHANGED <<plan, restored, document, goalIds, launched, begun, stale, lost>>
      /\ job[t].pc = "save" /\ job[t] \in Job /\ Become(t, mine)
      /\ running' = IF job[t].purpose = "checkpoint" THEN running \ {e} ELSE running
    BY DEF SaveFails, At, history, IInv, Typed
<1>2. /\ "goal" \in Threads /\ "panel" \in Threads /\ Known \subseteq begun /\ begun \subseteq Executions
      /\ job[t].executions \subseteq begun
    BY <1>1, Planned
<1>3. /\ mine \in Job /\ mine.executions = {} /\ mine.left = {} /\ ~Owns(mine) /\ ~Files(mine)
      /\ mine.purpose # "checkpoint"
      /\ IF job[t].purpose = "report" /\ e # None THEN mine.pc = "return" /\ mine.execution = e
         ELSE mine.pc = "idle"
  <2>1. Idle.pc = "idle" /\ Idle.purpose = "none" /\ Idle.executions = {} /\ Idle.left = {} /\ Idle \in Job /\ ~Owns(Idle)
      BY IdleTyped DEF Idle
  <2> QED  BY <1>1, <2>1, AfterSaveIs DEF Files
<1> HIDE DEF mine
<1>4. /\ job' \in [Threads -> Job] /\ job'[t] = mine
      /\ \A u \in Threads : u # t => job'[u] = job[u]
    BY <1>1, <1>3, Becoming DEF IInv
<1>5. \A f : Mission(f)' <=> Mission(f)
    BY <1>1 DEF Mission
<1>6. Known' \subseteq Known /\ running' \subseteq running
    BY <1>1 DEF Known
<1>7. Asked'
    BY <1>1, <1>2, <1>3, <1>4 DEF Asked, Goal
<1>8. Separate'
  <2>1. Distinct(Known)' /\ Distinct(document)'
      BY <1>1, <1>5, <1>6 DEF Separate, Distinct
  <2>2. ASSUME NEW u \in Threads  PROVE Distinct(job[u].executions)'
    <3>1. job'[u].executions \in {{}, job[u].executions}
        BY <1>3, <1>4
    <3> QED  BY <1>1, <1>5, <3>1 DEF Separate, Distinct
  <2> QED  BY <1>1, <1>2, <1>3, <1>4, <1>5, <1>6, <2>1, <2>2 DEF Separate, Goal
<1>9. /\ \A f \in Executions : Checkpointing(f)' => Checkpointing(f) /\ t # "goal"
      /\ \A f \in Executions : UnderWay(f)' => UnderWay(f) /\ ~(t = "goal" /\ job[t].purpose = "checkpoint")
      /\ \A f \in Executions : UnderWay(f) /\ ~UnderWay(f)' => Checkpointing(f) /\ f = e /\ t = "goal"
      /\ \A f \in Executions : Checkpointing(f) /\ ~Checkpointing(f)' => f = e /\ t = "goal"
  <2>1. CASE t = "goal"
    <3>1. \A f \in Executions : f # None
        BY DEF Executions, None
    <3> QED  BY <1>1, <1>3, <1>4, <2>1, <3>1 DEF UnderWay, Checkpointing, Goal
  <2>2. CASE t # "goal"
      BY <1>2, <1>4, <2>2 DEF UnderWay, Checkpointing, Goal
  <2> QED  BY <2>1, <2>2
<1>10. \/ running' = running /\ Known' = Known /\ \A f \in Executions : Checkpointing(f) => Checkpointing(f)'
       \/ /\ t = "goal" /\ job[t].purpose = "checkpoint" /\ running' = running \ {e} /\ Known' = Known \ {e}
          /\ Goal.left = {} /\ e \notin launched
  <2>1. CASE job[t].purpose # "checkpoint"
      BY <1>1, <1>9, <2>1 DEF Known, Checkpointing, Goal
  <2>2. CASE job[t].purpose = "checkpoint"
    <3>1. t = "goal" /\ Checkpointing(e)
        BY <1>1, <2>2 DEF Asked, Threads, Checkpointing, Goal
    <3>2. Goal.left = {}
        BY <1>1, <3>1 DEF InHand, Goal
    <3>3. e \in Executions => e \notin launched \cup restored
        BY <3>1 DEF InHand
    <3>4. CASE e \in Executions
        BY <1>1, <2>2, <3>1, <3>2, <3>3, <3>4 DEF Known
    <3>5. CASE e \notin Executions
        BY <1>1, <1>2, <2>2, <3>1, <3>2, <3>5 DEF Known, LaunchedKnown
    <3> QED  BY <3>4, <3>5
  <2> QED  BY <2>1, <2>2
<1>11. InHand'
  <2>1. \A f \in Executions : UnderWay(f)' => f \in running' /\ plan'[f].kind # "plan"
      BY <1>1, <1>9, <1>10 DEF InHand
  <2>2. \A f \in Executions : Checkpointing(f)' =>
          f \notin launched' \cup restored' /\ (Goal'.pc = "save" => f \in Goal'.executions)
      BY <1>1, <1>2, <1>4, <1>9 DEF InHand, Goal
  <2>3. Goal'.pc = "return" => Goal'.execution # None
      BY <1>2, <1>3, <1>4 DEF InHand, Goal
  <2>4. Goal'.left \subseteq Known' /\ (Goal'.pc # "recover" => Goal'.left = {})
      BY <1>2, <1>3, <1>4, <1>10 DEF InHand, Goal
  <2> QED  BY <2>1, <2>2, <2>3, <2>4 DEF InHand
<1>12. \A f \in Known : Durable(f) => Durable(f)'
    BY <1>1, <1>3, <1>4 DEF Durable
<1>13. Remembered'
    BY <1>1, <1>2, <1>5, <1>9, <1>10, <1>12 DEF Remembered
<1>14. LaunchedKnown'
    BY <1>1, <1>5, <1>10 DEF LaunchedKnown
<1> QED  BY <1>7, <1>8, <1>11, <1>13, <1>14

\* A start: a mission of the goal is known from here on, and not yet durable.
LEMMA BeginLaunches == ASSUME IInv, Launches, NEW t \in Threads, Begin(t)  PROVE Launches'
<1> USE DEF Launches
<1> DEFINE e == job[t].execution
           purpose == IF plan[e].kind \in Missions THEN "checkpoint" ELSE "report"
           mine == Saving(purpose, IF t = "goal" THEN e ELSE None)
<1>1. /\ UNCHANGED <<plan, restored, document, goalIds, launched, stale, lost>>
      /\ running' = running \cup {e} /\ begun' = begun \cup {e} /\ Known' = Known \cup {e}
      /\ job[t].pc = "begin" /\ job[t] \in Job /\ Owns(job[t]) /\ Become(t, mine)
    BY DEF Begin, At, IInv, Typed, Owns, Known
<1>2. /\ "goal" \in Threads /\ "panel" \in Threads /\ Known \subseteq begun /\ begun \subseteq Executions
      /\ document \subseteq begun /\ \A u \in Threads : job[u].executions \subseteq begun
      /\ None \notin Executions /\ e \in Executions \ begun
    BY <1>1, Planned
<1>3. /\ mine \in Job /\ mine.pc = "capture" /\ mine.purpose = purpose /\ purpose \in {"checkpoint", "report"}
      /\ mine.execution = (IF t = "goal" THEN e ELSE None)
      /\ mine.executions = {} /\ mine.left = {} /\ ~Owns(mine) /\ ~Files(mine)
    BY <1>2, SavingTyped DEF Purpose, Owns, Files
<1>4. t = "panel" => ~Mission(e) /\ purpose = "report"
    BY <1>1, <1>2 DEF Asked, Mission, Missions
<1>5. Mission(e) => purpose = "checkpoint"
    BY DEF Mission
<1>6. t = "goal" => plan[e].kind # "plan"
    BY <1>1 DEF Asked, Goal
<1> HIDE DEF mine, purpose
<1>7. /\ job' \in [Threads -> Job] /\ job'[t] = mine
      /\ \A u \in Threads : u # t => job'[u] = job[u]
    BY <1>1, <1>3, Becoming DEF IInv
<1>8. \A f : Mission(f)' <=> Mission(f)
    BY <1>1 DEF Mission
<1>9. Asked'
    BY <1>1, <1>2, <1>3, <1>4, <1>7 DEF Asked, Goal
<1>10. Separate'
  <2>1. Distinct(document)'
      BY <1>1, <1>8 DEF Separate, Distinct
  <2>2. Distinct(Known)'
    <3>1. Mission(e) => \A f \in Known : Mission(f) => plan[f].request # plan[e].request
        BY <1>1, <1>4 DEF Separate, Goal, Threads
    <3> QED  BY <1>1, <1>8, <3>1 DEF Separate, Distinct
  <2>3. ASSUME NEW u \in Threads  PROVE Distinct(job[u].executions)'
    <3>1. job'[u].executions \in {{}, job[u].executions}
        BY <1>3, <1>7
    <3> QED  BY <1>1, <1>8, <3>1 DEF Separate, Distinct
  <2>4. Owns(Goal)' => Owns(Goal) /\ Goal' = Goal /\ t = "panel"
      BY <1>2, <1>3, <1>7 DEF Goal, Threads
  <2> QED  BY <1>1, <1>4, <1>8, <2>1, <2>2, <2>3, <2>4 DEF Separate
<1>11. /\ \A f \in Executions : Checkpointing(f)' => Checkpointing(f) \/ (f = e /\ t = "goal")
       /\ \A f \in Executions : UnderWay(f)' => UnderWay(f) \/ (f = e /\ t = "goal")
       /\ \A f \in Executions : (UnderWay(f) => UnderWay(f)') /\ (Checkpointing(f) => Checkpointing(f)')
       /\ t = "goal" => \A f \in Executions : f = e => UnderWay(f)' /\ (Mission(f) => Checkpointing(f)')
  <2>1. CASE t = "goal"
      BY <1>1, <1>3, <1>5, <1>7, <2>1 DEF UnderWay, Checkpointing, Goal
  <2>2. CASE t # "goal"
      BY <1>2, <1>7, <2>2 DEF UnderWay, Checkpointing, Goal
  <2> QED  BY <2>1, <2>2
<1>12. InHand'
  <2>1. \A f \in Executions : UnderWay(f)' => f \in running' /\ plan'[f].kind # "plan"
      BY <1>1, <1>6, <1>11 DEF InHand
  <2>2. ASSUME NEW f \in Executions, Checkpointing(f)'
        PROVE f \notin launched' \cup restored' /\ (Goal'.pc = "save" => f \in Goal'.executions)
    <3>1. e \notin launched \cup restored
        BY <1>2 DEF LaunchedKnown, Known
    <3>2. CASE t = "goal"
      <4>1. f = e /\ Goal'.pc = "capture"
          BY <1>3, <1>7, <2>2, <3>2 DEF Goal, Checkpointing
      <4> QED  BY <1>1, <3>1, <4>1
    <3>3. CASE t # "goal"
        BY <1>1, <1>2, <1>7, <1>11, <2>2, <3>3 DEF InHand, Goal
    <3> QED  BY <3>2, <3>3
  <2>3. Goal'.pc = "return" => Goal'.execution # None
      BY <1>2, <1>3, <1>7 DEF InHand, Goal
  <2>4. Goal'.left \subseteq Known' /\ (Goal'.pc # "recover" => Goal'.left = {})
      BY <1>1, <1>2, <1>3, <1>7 DEF InHand, Goal
  <2> QED  BY <2>1, <2>2, <2>3, <2>4 DEF InHand
<1>13. \A f \in Known : Durable(f) => Durable(f)'
    BY <1>1, <1>3, <1>7 DEF Durable
<1>14. Remembered'
  <2>1. Mission(e) => t = "goal"
      BY <1>4 DEF Threads
  <2>2. \A f \in Executions : f = e /\ Mission(f) => UnderWay(f)' /\ Checkpointing(f)'
      BY <1>11, <2>1
  <2>3. ASSUME NEW f \in Known, Mission(f)
        PROVE  /\ plan[f].request \in goalIds \/ UnderWay(f)'
               /\ Durable(f)' \/ Checkpointing(f)'
      BY <1>2, <1>11, <1>13, <2>3 DEF Remembered
  <2> QED  BY <1>1, <1>2, <1>8, <2>2, <2>3 DEF Remembered
<1>15. LaunchedKnown'
    BY <1>1, <1>8 DEF LaunchedKnown
<1> QED  BY <1>9, <1>10, <1>12, <1>14, <1>15

\* The goal's execution is launched, and its request is taken from here on.
LEMMA ReturnLaunches == ASSUME IInv, Launches, Return  PROVE Launches'
<1> USE DEF Launches
<1> DEFINE e == Goal.execution
<1>1. /\ UNCHANGED <<plan, running, restored, document, begun, stale, lost>> /\ Known' = Known
      /\ goalIds' = goalIds \cup {plan[e].request} /\ launched' = launched \cup {e}
      /\ Goal.pc = "return" /\ Become("goal", Idle) /\ Goal \in Job
    BY DEF Return, At, approvalVars, Goal, Known, IInv, Typed, Threads
<1>2. /\ "goal" \in Threads /\ "panel" \in Threads /\ Known \subseteq begun /\ begun \subseteq Executions
    BY <1>1, Planned
<1>3. e \in Executions /\ UnderWay(e)
    BY <1>1 DEF InHand, UnderWay, Job
<1>4. e \in Known /\ e \in begun
    BY <1>2, <1>3 DEF InHand, Known
<1>5. /\ Idle.pc = "idle" /\ Idle.purpose = "none" /\ Idle.executions = {} /\ Idle.left = {} /\ Idle \in Job
      /\ ~Owns(Idle) /\ ~Files(Idle)
    BY IdleTyped DEF Idle, Files
<1>6. /\ job' \in [Threads -> Job] /\ job'["goal"] = Idle
      /\ \A u \in Threads : u # "goal" => job'[u] = job[u]
    BY <1>1, <1>2, <1>5, Becoming DEF IInv
<1>7. \A f : (Mission(f)' <=> Mission(f)) /\ ~UnderWay(f)' /\ ~Checkpointing(f)' /\ ~Checkpointing(f)
    BY <1>1, <1>5, <1>6 DEF Mission, UnderWay, Checkpointing, Goal
<1>8. Asked'
    BY <1>1, <1>2, <1>5, <1>6 DEF Asked, Goal
<1>9. Separate'
  <2>1. Distinct(Known)' /\ Distinct(document)'
      BY <1>1, <1>7 DEF Separate, Distinct
  <2>2. ASSUME NEW u \in Threads  PROVE Distinct(job[u].executions)'
    <3>1. job'[u].executions \in {{}, job[u].executions}
        BY <1>5, <1>6
    <3> QED  BY <1>1, <1>7, <3>1 DEF Separate, Distinct
  <2> QED  BY <1>5, <1>6, <2>1, <2>2 DEF Separate, Goal
<1>10. InHand'
    BY <1>5, <1>6, <1>7 DEF InHand, Goal
<1>11. \A f \in Known : Durable(f) => Durable(f)'
    BY <1>1, <1>5, <1>6 DEF Durable
<1>12. \A f \in Executions : UnderWay(f) => f = e
    BY DEF UnderWay
<1>13. Remembered'
    BY <1>1, <1>2, <1>7, <1>11, <1>12 DEF Remembered
<1>14. LaunchedKnown'
    BY <1>1, <1>4, <1>7 DEF LaunchedKnown
<1> QED  BY <1>8, <1>9, <1>10, <1>13, <1>14

\* What the document holds is known to the next process, with its requests.
LEMMA CrashLaunches == ASSUME IInv, Launches, Crash  PROVE Launches'
<1> USE DEF Launches
<1>1. /\ UNCHANGED <<plan, document, launched, begun, stale>>
      /\ restored' = document /\ Known' = document /\ goalIds' = RequestsOf(document)
      /\ \A t \in Threads : job'[t] = Idle
      /\ lost' = lost \cup stale
    BY DEF Crash, Known
<1>2. "goal" \in Threads /\ "panel" \in Threads /\ Known \subseteq begun /\ begun \subseteq Executions
    BY <1>1, Planned
<1>3. /\ Idle.pc = "idle" /\ Idle.purpose = "none" /\ Idle.executions = {} /\ Idle.left = {} /\ ~Owns(Idle) /\ ~Files(Idle)
    BY IdleTyped DEF Idle, Files
<1>4. \A f : (Mission(f)' <=> Mission(f)) /\ ~UnderWay(f)' /\ ~Checkpointing(f)'
    BY <1>1, <1>2, <1>3 DEF Mission, UnderWay, Checkpointing, Goal
<1>5. Asked'
    BY <1>1, <1>2, <1>3 DEF Asked, Goal
<1>6. Separate'
  <2>1. Distinct(Known)' /\ Distinct(document)'
      BY <1>1, <1>4 DEF Separate, Distinct
  <2>2. ASSUME NEW u \in Threads  PROVE Distinct(job[u].executions)'
      BY <1>1, <1>3 DEF Distinct
  <2> QED  BY <1>1, <1>2, <1>3, <2>1, <2>2 DEF Separate, Goal
<1>7. InHand'
    BY <1>1, <1>2, <1>3, <1>4 DEF InHand, Goal
<1>8. ASSUME NEW f \in document, Mission(f)  PROVE plan[f].request \in goalIds' /\ Durable(f)'
  <2>1. plan[f].request \in goalIds'
      BY <1>1, <1>8 DEF RequestsOf, Mission
  <2>2. Durable(f)'
      BY <1>1, <1>3, <1>8 DEF Durable
  <2> QED  BY <2>1, <2>2
<1>9. Remembered'
    BY <1>1, <1>4, <1>8 DEF Remembered
<1>10. ASSUME "executions" \notin lost', NEW f \in launched, Mission(f)  PROVE f \in document
  <2>1. f \in Known /\ f \in Executions /\ "executions" \notin stale
      BY <1>1, <1>2, <1>10 DEF LaunchedKnown
  <2>2. ~Checkpointing(f)
      BY <1>10, <2>1 DEF InHand
  <2> QED  BY <1>10, <2>1, <2>2 DEF Remembered, Durable
<1>11. LaunchedKnown'
    BY <1>1, <1>4, <1>10 DEF LaunchedKnown
<1> QED  BY <1>5, <1>6, <1>7, <1>9, <1>11

LEMMA StepLaunches == IInv /\ Launches /\ [Next]_vars => Launches'
<1> SUFFICES ASSUME IInv, Launches, [Next]_vars PROVE Launches'
    OBVIOUS
<1>1. CASE UNCHANGED vars
    BY <1>1 DEF vars, approvalVars, executionVars, history, Launches, Asked, Separate, InHand, Remembered,
        LaunchedKnown, Known, Mission, Goal, Checkpointing, UnderWay, Files, Durable, Distinct
<1>2. CASE Next
    BY <1>2, PlainLaunches, CaptureLaunches, SaveLaunches, SaveFailsLaunches, BeginLaunches, ReturnLaunches,
        CrashLaunches DEF Next
<1> QED  BY <1>1, <1>2

\* A mission request is launched once, over any number of restarts, failed
\* checkpoints and repetitions of the request, as long as no process died with
\* an outdated document of executions.
THEOREM LaunchedOnce == Spec => []MissionOnce
<1>1. Launches => MissionOnce
    BY DEF Launches, Separate, LaunchedKnown, Distinct, Mission, MissionOnce
<1> QED  BY <1>1, Invariance, InitLaunches, StepLaunches, PTL DEF Spec

\* What no proof above needed the range of.
Counted ==
    /\ goalIds \subseteq Requests /\ recoveryTried \in BOOLEAN
    /\ faults \in 0..MaxFaults /\ crashes \in 0..MaxCrashes
    /\ stale \subseteq Documents /\ lost \subseteq Documents

LEMMA StepCounted == IInv /\ Launches /\ Counted /\ [Next]_vars => Counted'
<1> SUFFICES ASSUME IInv, Launches, Counted, [Next]_vars PROVE Counted'
    OBVIOUS
<1> USE StartsAssumption DEF Counted
<1>1. \A e \in Executions : plan[e].kind \notin {"none", "plan"} => plan[e].request \in Requests
    BY DEF Launches, Asked
<1>2. CASE UNCHANGED <<goalIds, recoveryTried, faults, crashes, stale, lost>>
    BY <1>2
<1>3. ASSUME NEW t \in Threads, Save(t)  PROVE Counted'
    BY <1>3 DEF Save, DocumentOf, Documents
<1>4. ASSUME NEW t \in Threads, SaveFails(t)  PROVE Counted'
    BY <1>4 DEF SaveFails, history
<1>5. CASE Return
  <2>1. Goal.execution \in Executions /\ UnderWay(Goal.execution)
      BY <1>5 DEF Return, At, Goal, UnderWay, Launches, InHand, IInv, Typed, Threads, Job
  <2>2. plan[Goal.execution].kind \notin {"none", "plan"}
      BY <2>1 DEF Launches, InHand, IInv, Parts, Begun
  <2> QED  BY <1>1, <1>5, <2>1, <2>2 DEF Return, Goal
<1>6. CASE Recover
    BY <1>6 DEF Recover, history
<1>7. CASE Crash
  <2>1. \A e \in document : e \in Executions
      BY DEF IInv, Parts, Begun, Typed
  <2>2. goalIds' \subseteq Requests
      BY <1>1, <1>7, <2>1 DEF Crash, RequestsOf, Missions
  <2>3. crashes' \in 0..MaxCrashes
      BY <1>7 DEF Crash
  <2> QED  BY <1>7, <2>2, <2>3 DEF Crash
<1>8. CASE Preview \/ Confirm \/ StartPlan \/ ResumeRestored \/ StartGoal \/ SpendOwn \/ RecoverOne \/ Recovered
    BY <1>2, <1>8 DEF Preview, Confirm, StartPlan, ResumeRestored, StartGoal, SpendOwn, RecoverOne, Recovered,
        approvalVars, executionVars, history
<1>9. ASSUME NEW t \in Threads, Capture(t) \/ Begin(t) \/ Report(t)  PROVE Counted'
    BY <1>2, <1>9 DEF Capture, Begin, Report, approvalVars, executionVars, history
<1>10. CASE UNCHANGED vars
    BY <1>2, <1>10 DEF vars, executionVars, history
<1> QED  BY <1>3, <1>4, <1>5, <1>6, <1>7, <1>8, <1>9, <1>10 DEF Next

\* Every variable stays in its range: a request that is taken is one that was
\* made, and whatever ran, was filed or launched is an execution.
THEOREM Typing == Spec => []TypeOK
<1>1. Init => Counted
  <2>1. 0 \in 0..MaxFaults /\ 0 \in 0..MaxCrashes
      BY StartsAssumption
  <2> QED  BY <2>1 DEF Init, Counted
<1>2. IInv /\ Launches /\ Counted => TypeOK
    BY DEF IInv, Parts, Typed, Begun, Launches, LaunchedKnown, Counted, TypeOK
<1> QED  BY <1>1, <1>2, Invariance, InitLaunches, StepLaunches, StepCounted, PTL DEF Spec
=============================================================================
