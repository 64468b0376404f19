------------------------- MODULE SemanticIndexProofs -------------------------
(***************************************************************************)
(* Theorems of SemanticIndex, for any records, clients and capacity: one   *)
(* worker at a time, nothing published after shutdown, and no rebuilt      *)
(* index that misses a change already announced.  With one client they go  *)
(* on: the index that answers is current, and no search is answered from   *)
(* an older state than one before it.                                      *)
(*                                                                         *)
(* The parts are in this order: what one worker at a time needs (IInv);    *)
(* the types and what the queue and the index are made of (Whole); what    *)
(* one client adds (Alone).                                                *)
(***************************************************************************)
EXTENDS SemanticIndex, SequenceTheorems, FiniteSetTheorems, TLAPS

Typed ==
    /\ worker \in Threads \cup {NoThread}
    /\ stage \in [Threads -> Stage]
    /\ launching \in [Clients -> Threads \cup {NoThread}]
    /\ DOMAIN outbox = Clients /\ DOMAIN snapshot = Threads
    /\ live \subseteq Memories
    /\ rebuilding \in BOOLEAN /\ dirty \in BOOLEAN /\ stopped \in BOOLEAN

\* A thread that is to be started has not run, and one client starts it.
LaunchesOwn ==
    \A c \in Clients : launching[c] # NoThread =>
        /\ stage[launching[c]] = "made"
        /\ \A d \in Clients : launching[d] = launching[c] => d = c

Building == {"attempt", "purge", "notify", "read", "build"}
BuildsInRebuild == \A k \in Threads : stage[k] \in Building => rebuilding

NothingPendingAfterStop == stopped => pending = <<>>

\* What a builder has read is still true, unless a change is to be announced,
\* or was and has made the rebuild dirty.
ReadIsCurrent ==
    \A k \in Threads : stage[k] = "build" /\ ~stopped /\ ~dirty =>
        \A m \in Memories : Announcements(m) = {} => snapshot[k][m] = Truth[m]

IInv ==
    /\ Typed
    /\ OneWorker
    /\ LaunchesOwn
    /\ BuildsInRebuild
    /\ NothingPendingAfterStop
    /\ ReadIsCurrent

LEMMA NoThreadIsNone == NoThread \notin Threads
BY BoundsAssumption DEF NoThread, Threads

LEMMA InitIInv == Init => IInv
BY NoThreadIsNone DEF Init, IInv, Typed, OneWorker, Running, LaunchesOwn, BuildsInRebuild, Building,
    NothingPendingAfterStop, ReadIsCurrent, Stage, NoThread

\* Removing records announces each of them, in whatever order.
LEMMA RemovalsAnnounce ==
    ASSUME NEW ms, NEW order \in Orders(ms), NEW m \in ms
    PROVE  \E i \in DOMAIN Removals(order) : Removals(order)[i].id = m
<1>1. PICK i \in DOMAIN order : order[i] = m
    BY DEF Orders, Range
<1>2. Removals(order)[i].id = m /\ i \in DOMAIN Removals(order)
    BY <1>1 DEF Removals, Announcement
<1> QED  BY <1>2

\* A client at rest that announces is heard of for the records it announces,
\* and the others stay announced by whom they were.
LEMMA AnnouncingKeeps ==
    ASSUME NEW c \in Clients, Rests(c), DOMAIN outbox = Clients, NEW events, Announces(c, events),
           NEW m \in Memories, Announcements(m)' = {}
    PROVE  /\ Announcements(m) = {}
           /\ \A i \in DOMAIN events : events[i].id # m
BY DEF Rests, Announces, Announcements

----------------------------------------------------------------------------
\* A manager's step leaves the runtime alone and announces what it changes.
LEMMA ManagerKeeps ==
    ASSUME IInv, NEW c \in Clients, ManagerStep(c)
    PROVE  IInv'
<1> USE DEF IInv, Typed
<1>1. UNCHANGED <<worker, stage, launching, rebuilding, dirty, stopped, pending, snapshot>>
    BY DEF ManagerStep, Add, UpdateRecord, Write, Delete, Clear, Erase, Purge, Announces, queue, locals
<1>2. Typed'
    BY <1>1 DEF ManagerStep, Add, UpdateRecord, Write, Delete, Clear, Erase, Purge, Purged, Announces
<1>3. OneWorker' /\ LaunchesOwn' /\ BuildsInRebuild' /\ NothingPendingAfterStop'
    BY <1>1 DEF OneWorker, Running, LaunchesOwn, BuildsInRebuild, NothingPendingAfterStop
<1>4. \A m \in Memories : Announcements(m)' = {} => Announcements(m) = {} /\ Truth'[m] = Truth[m]
  <2> SUFFICES ASSUME NEW m \in Memories, Announcements(m)' = {}
               PROVE  Announcements(m) = {} /\ Truth'[m] = Truth[m]
      OBVIOUS
  <2>1. ASSUME NEW n \in Memories, Write(c, n)  PROVE Announcements(m) = {} /\ Truth'[m] = Truth[m]
    <3>1. Announcements(m) = {} /\ m # n
        BY <2>1, AnnouncingKeeps DEF Write, Announcement
    <3> QED  BY <2>1, <3>1 DEF Write, Bumped, Truth
  <2>2. ASSUME NEW ms \in SUBSET Memories, Erase(c, ms)
        PROVE  Announcements(m) = {} /\ Truth'[m] = Truth[m]
    <3>1. PICK order \in Orders(ms) : Announces(c, Removals(order))
        BY <2>2 DEF Erase
    <3>2. Announcements(m) = {} /\ m \notin ms
        BY <2>2, <3>1, AnnouncingKeeps, RemovalsAnnounce DEF Erase
    <3> QED  BY <2>2, <3>2 DEF Erase, Bumped, Truth
  <2>3. CASE Purge(c)
    <3>1. PICK order \in Orders(due) : Announces(c, Removals(order))
        BY <2>3 DEF Purge
    <3>2. Announcements(m) = {} /\ m \notin due
        BY <2>3, <3>1, AnnouncingKeeps, RemovalsAnnounce DEF Purge
    <3> QED  BY <2>3, <3>2 DEF Purge, Purged, Bumped, Truth
  <2> QED  BY <2>1, <2>2, <2>3 DEF ManagerStep, Add, UpdateRecord, Delete, Clear
<1>5. ReadIsCurrent'
    BY <1>1, <1>4 DEF ReadIsCurrent
<1> QED  BY <1>2, <1>3, <1>5

----------------------------------------------------------------------------
\* The runtime hears of a change: a rebuild that is on is made dirty, and no
\* thread is made while one is held.
LEMMA AnnounceKeeps ==
    ASSUME IInv, NEW c \in Clients, AnnounceStep(c)
    PROVE  IInv'
<1> USE NoThreadIsNone DEF IInv, Typed
<1>1. UNCHANGED <<version, live, rebuilding, stopped, snapshot>> /\ DOMAIN outbox' = Clients
    BY DEF AnnounceStep, EventIgnored, EventDirties, EventRejected, EventQueued, Announces, Takes,
           memory, locals
<1>2. CASE EventIgnored(c) \/ EventRejected(c) \/ EventDirties(c)
  <2>1. UNCHANGED <<worker, stage, launching, pending>> /\ dirty' \in BOOLEAN
      BY <1>2 DEF EventIgnored, EventRejected, EventDirties, Announces, queue
  <2>2. Typed' /\ OneWorker' /\ LaunchesOwn' /\ BuildsInRebuild' /\ NothingPendingAfterStop'
      BY <1>1, <2>1 DEF OneWorker, Running, LaunchesOwn, BuildsInRebuild, NothingPendingAfterStop
  <2>3. ReadIsCurrent'
      BY <1>1, <1>2, <2>1 DEF ReadIsCurrent, BuildsInRebuild, Building, EventIgnored, EventRejected,
                              EventDirties, Takes
  <2> QED  BY <2>2, <2>3
<1>3. CASE EventQueued(c)
  <2>1. ~stopped /\ ~rebuilding /\ launching[c] = NoThread /\ UNCHANGED dirty
      BY <1>3 DEF EventQueued, Takes, Announcing
  <2>2. CASE worker # NoThread
    <3>1. UNCHANGED <<worker, stage, launching>>
        BY <1>3, <2>2 DEF EventQueued, MakesWorker
    <3> QED  BY <1>1, <2>1, <3>1 DEF OneWorker, Running, LaunchesOwn, BuildsInRebuild, Building,
                                   NothingPendingAfterStop, ReadIsCurrent
  <2>3. CASE worker = NoThread
    <3>1. PICK k \in Threads : /\ worker' = k /\ stage' = [stage EXCEPT ![k] = "made"]
                               /\ launching' = [launching EXCEPT ![c] = k]
        BY <1>3, <2>3 DEF EventQueued, MakesWorker
    <3>2. Typed'
        BY <1>1, <2>1, <3>1 DEF Stage
    <3>3. OneWorker' /\ LaunchesOwn'
        BY <2>1, <2>3, <3>1 DEF OneWorker, Running, LaunchesOwn
    <3>4. BuildsInRebuild' /\ NothingPendingAfterStop' /\ ReadIsCurrent'
        BY <1>1, <2>1, <3>1 DEF BuildsInRebuild, Building, NothingPendingAfterStop, ReadIsCurrent
    <3> QED  BY <3>2, <3>3, <3>4
  <2> QED  BY <2>2, <2>3
<1> QED  BY <1>2, <1>3 DEF AnnounceStep

\* A client asks for a rebuild, or starts the thread it made.
LEMMA CallKeeps ==
    ASSUME IInv, NEW c \in Clients, StartRefresh(c) \/ LaunchStep(c)
    PROVE  IInv'
<1> USE NoThreadIsNone DEF IInv, Typed
<1>1. UNCHANGED <<version, live, outbox, stopped, pending, snapshot>>
    BY DEF StartRefresh, LaunchStep, Launch, RefreshUnlaunched, UpdateUnlaunched, Launched,
           memory, locals, queue
<1>2. NothingPendingAfterStop'
    BY <1>1 DEF NothingPendingAfterStop
<1>3. CASE StartRefresh(c)
  <2>1. ~rebuilding /\ rebuilding' = TRUE /\ dirty' = FALSE /\ launching[c] = NoThread
      BY <1>3 DEF StartRefresh, Rests
  <2>2. CASE worker # NoThread
    <3>1. UNCHANGED <<worker, stage, launching>>
        BY <1>3, <2>2 DEF StartRefresh, MakesWorker
    <3> QED  BY <1>1, <1>2, <2>1, <3>1 DEF OneWorker, Running, LaunchesOwn, BuildsInRebuild, Building,
                                         ReadIsCurrent
  <2>3. CASE worker = NoThread
    <3>1. PICK k \in Threads : /\ worker' = k /\ stage' = [stage EXCEPT ![k] = "made"]
                               /\ launching' = [launching EXCEPT ![c] = k]
        BY <1>3, <2>3 DEF StartRefresh, MakesWorker
    <3>2. Typed'
        BY <1>1, <2>1, <3>1 DEF Stage
    <3>3. OneWorker' /\ LaunchesOwn'
        BY <2>1, <2>3, <3>1 DEF OneWorker, Running, LaunchesOwn
    <3>4. BuildsInRebuild' /\ ReadIsCurrent'
        BY <1>1, <2>1, <3>1 DEF BuildsInRebuild, Building, ReadIsCurrent
    <3> QED  BY <1>2, <3>2, <3>3, <3>4
  <2> QED  BY <2>2, <2>3
<1>4. CASE LaunchStep(c)
  <2> DEFINE k == launching[c]
  <2>1. k \in Threads /\ stage[k] = "made" /\ worker = k
      BY <1>4 DEF LaunchStep, Launch, RefreshUnlaunched, UpdateUnlaunched, Launched, LaunchesOwn,
                  OneWorker, Running
  <2>2. \A j \in Threads : j # k => stage[j] = "ended"
      BY <2>1 DEF OneWorker, Running
  <2>3. launching' = [launching EXCEPT ![c] = NoThread] /\ UNCHANGED dirty
      BY <1>4 DEF LaunchStep, Launch, RefreshUnlaunched, UpdateUnlaunched, Launched
  <2>4. \/ stage' = [stage EXCEPT ![k] = "top"] /\ UNCHANGED <<worker, rebuilding>>
        \/ stage' = [stage EXCEPT ![k] = "ended"] /\ worker' = NoThread /\ rebuilding' \in BOOLEAN
      BY <1>4, <2>1 DEF LaunchStep, Launch, RefreshUnlaunched, UpdateUnlaunched, Launched
  <2>5. Typed'
      BY <1>1, <2>1, <2>3, <2>4 DEF Stage
  <2>6. \A j \in Threads : stage'[j] \notin Building /\ (stage'[j] # "ended" => worker' = j)
      BY <2>1, <2>2, <2>4 DEF Building
  <2>7. LaunchesOwn'
      BY <2>1, <2>2, <2>3, <2>4 DEF LaunchesOwn
  <2> QED  BY <1>2, <2>5, <2>6, <2>7 DEF OneWorker, Running, BuildsInRebuild, ReadIsCurrent, Building
<1> QED  BY <1>3, <1>4

\* The only thread that runs takes a step.
LEMMA WorkerKeeps ==
    ASSUME IInv, NEW k \in Threads, WorkerStep(k)
    PROVE  IInv'
<1> USE NoThreadIsNone DEF IInv, Typed
<1>1. stage[k] \notin {"ended", "made"} /\ worker = k
    BY DEF WorkerStep, WorkerEnds, TakeRebuild, TakeUpdate, StartAttempt, BuilderPurges,
           BuilderNotifies, BuilderReads, BuildFails, BuildDiscarded, BuildRetried, PublishRebuild,
           DropUpdate, UpdateFails, PublishUpdate, Updating, OneWorker, Running
<1>2. \A j \in Threads : j # k => stage[j] = "ended"
    BY <1>1 DEF OneWorker, Running
<1>3. /\ UNCHANGED <<launching, outbox, stopped>>
      /\ \E at \in Stage : stage' = [stage EXCEPT ![k] = at]
      /\ DOMAIN snapshot' = Threads
      /\ rebuilding' \in BOOLEAN /\ dirty' \in BOOLEAN /\ live' \subseteq Memories
    BY <1>1 DEF WorkerStep, WorkerEnds, TakeRebuild, TakeUpdate, StartAttempt, BuilderPurges,
           BuilderNotifies, BuilderReads, BuildFails, BuildDiscarded, BuildRetried, PublishRebuild,
           DropUpdate, UpdateFails, PublishUpdate, Goes, Returns, Forgets, Stage, Purged, memory,
           calls, locals
<1>4. \/ worker' = k
      \/ worker' = NoThread /\ stage'[k] = "ended"
    BY <1>1 DEF WorkerStep, WorkerEnds, TakeRebuild, TakeUpdate, StartAttempt, BuilderPurges,
           BuilderNotifies, BuilderReads, BuildFails, BuildDiscarded, BuildRetried, PublishRebuild,
           DropUpdate, UpdateFails, PublishUpdate, Goes
<1>5. Typed'
    BY <1>3, <1>4
<1>6. OneWorker' /\ LaunchesOwn'
    BY <1>1, <1>2, <1>3, <1>4 DEF OneWorker, Running, LaunchesOwn
<1>7. BuildsInRebuild'
  <2>1. stage'[k] \in Building => rebuilding'
      BY <1>1 DEF WorkerStep, WorkerEnds, TakeRebuild, TakeUpdate, StartAttempt, BuilderPurges,
             BuilderNotifies, BuilderReads, BuildFails, BuildDiscarded, BuildRetried, PublishRebuild,
             DropUpdate, UpdateFails, PublishUpdate, Goes, Returns, BuildsInRebuild, Building
  <2> QED  BY <1>2, <1>3, <2>1 DEF BuildsInRebuild, Building
<1>8. NothingPendingAfterStop'
    BY <1>3 DEF WorkerStep, WorkerEnds, TakeRebuild, TakeUpdate, StartAttempt, BuilderPurges,
           BuilderNotifies, BuilderReads, BuildFails, BuildDiscarded, BuildRetried, PublishRebuild,
           DropUpdate, UpdateFails, PublishUpdate, queue, NothingPendingAfterStop
<1>9. ReadIsCurrent'
  <2>1. stage'[k] = "build" => snapshot'[k] = Truth'
      BY DEF WorkerStep, WorkerEnds, TakeRebuild, TakeUpdate, StartAttempt, BuilderPurges,
             BuilderNotifies, BuilderReads, BuildFails, BuildDiscarded, BuildRetried, PublishRebuild,
             DropUpdate, UpdateFails, PublishUpdate, Goes, Returns, Truth, memory
  <2> QED  BY <1>2, <1>3, <2>1 DEF ReadIsCurrent
<1> QED  BY <1>5, <1>6, <1>7, <1>8, <1>9

LEMMA OthersKeep ==
    ASSUME IInv, (\E m \in Memories : FallDue(m)) \/ Shutdown \/ UNCHANGED vars
    PROVE  IInv'
<1> USE DEF IInv, Typed
<1>1. UNCHANGED <<version, live, outbox, launching, stage, worker, rebuilding, dirty, snapshot>>
    BY DEF FallDue, Shutdown, vars, memory, calls, locals
<1>2. stopped' \in BOOLEAN /\ (stopped => stopped') /\ (stopped' => pending' = <<>>)
  <2>1. CASE Shutdown
      BY <2>1 DEF Shutdown
  <2>2. CASE (\E m \in Memories : FallDue(m)) \/ UNCHANGED vars
    <3>1. stopped' = stopped /\ pending' = pending
        BY <2>2 DEF FallDue, vars, queue
    <3> QED  BY <3>1 DEF NothingPendingAfterStop
  <2> QED  BY <2>1, <2>2
<1>3. Typed' /\ OneWorker' /\ LaunchesOwn' /\ BuildsInRebuild' /\ NothingPendingAfterStop'
    BY <1>1, <1>2 DEF OneWorker, Running, LaunchesOwn, BuildsInRebuild, NothingPendingAfterStop
<1>4. \A m \in Memories : Announcements(m)' = Announcements(m) /\ Truth'[m] = Truth[m]
    BY <1>1 DEF Announcements, Truth
<1>5. ReadIsCurrent'
    BY <1>1, <1>2, <1>4 DEF ReadIsCurrent
<1> QED  BY <1>3, <1>5

\* The first invariant holds of every reachable state.
THEOREM InductiveIInv == Spec => []IInv
<1>1. IInv /\ [Next]_vars => IInv'
    BY ManagerKeeps, AnnounceKeeps, CallKeeps, WorkerKeeps, OthersKeep DEF Next
<1> QED  BY InitIInv, <1>1, PTL DEF Spec

\* At most one worker thread is made or runs, and the runtime holds it.
THEOREM OneWorkerHolds == Spec => []OneWorker
BY InductiveIInv, PTL DEF IInv

\* After shutdown nothing is published, pending or asked for.
THEOREM NothingAfterStopHolds == Spec => NothingAfterStop
<1> DEFINE Quiet == UNCHANGED published /\ pending' = <<>> /\ refreshes' = refreshes
<1>1. ASSUME IInv, [Next]_vars, stopped  PROVE Quiet
  <2> USE <1>1 DEF IInv, NothingPendingAfterStop, queue, published
  <2>1. ASSUME NEW c \in Clients, ManagerStep(c) \/ AnnounceStep(c) \/ StartRefresh(c) \/ LaunchStep(c)
        PROVE  Quiet
      BY <2>1 DEF ManagerStep, Add, UpdateRecord, Write, Delete, Clear, Erase, Purge, AnnounceStep, EventIgnored,
                  EventDirties, EventRejected, EventQueued, Takes, StartRefresh, LaunchStep, Launch,
                  RefreshUnlaunched, UpdateUnlaunched, Launched
  <2>2. ASSUME NEW k \in Threads, WorkerStep(k)  PROVE Quiet
      BY <2>2 DEF WorkerStep, WorkerEnds, TakeRebuild, TakeUpdate, StartAttempt, BuilderPurges,
                  BuilderNotifies, BuilderReads, BuildFails, BuildDiscarded, BuildRetried,
                  PublishRebuild, DropUpdate, UpdateFails, PublishUpdate, IsCurrent
  <2>3. CASE (\E m \in Memories : FallDue(m)) \/ Shutdown \/ UNCHANGED vars
      BY <2>3 DEF FallDue, Shutdown, vars
  <2> QED  BY <1>1, <2>1, <2>2, <2>3 DEF Next
<1> QED  BY InductiveIInv, <1>1, PTL DEF Spec, NothingAfterStop

\* A rebuilt index that goes live misses no change but those to be announced.
THEOREM RebuiltIsCurrentHolds == Spec => RebuiltIsCurrent
<1> DEFINE Current(k) ==
        stage[k] = "build" /\ index' = snapshot[k] /\ index' # index =>
            \A m \in Memories : Announcements(m) = {} => index'[m] = Truth[m]
<1>1. ASSUME IInv, [Next]_vars  PROVE \A k \in Threads : Current(k)
  <2> SUFFICES ASSUME NEW k \in Threads, stage[k] = "build", index' = snapshot[k], index' # index
               PROVE  \A m \in Memories : Announcements(m) = {} => index'[m] = Truth[m]
      OBVIOUS
  <2>1. PICK j \in Threads : PublishRebuild(j) \/ PublishUpdate(j)
    <3>1. CASE \E c \in Clients : ManagerStep(c) \/ AnnounceStep(c) \/ StartRefresh(c) \/ LaunchStep(c)
        BY <3>1 DEF ManagerStep, Add, UpdateRecord, Write, Delete, Clear, Erase, Purge, AnnounceStep, EventIgnored,
                    EventDirties, EventRejected, EventQueued, StartRefresh, LaunchStep, Launch,
                    RefreshUnlaunched, UpdateUnlaunched, Launched, published
    <3>2. CASE \E i \in Threads : WorkerStep(i)
        BY <3>2 DEF WorkerStep, WorkerEnds, TakeRebuild, TakeUpdate, StartAttempt, BuilderPurges,
                    BuilderNotifies, BuilderReads, BuildFails, BuildDiscarded, BuildRetried,
                    DropUpdate, UpdateFails, published
    <3>3. CASE (\E m \in Memories : FallDue(m)) \/ Shutdown \/ UNCHANGED vars
        BY <3>3 DEF FallDue, Shutdown, vars, published
    <3> QED  BY <1>1, <3>1, <3>2, <3>3 DEF Next
  <2>2. stage[j] \in {"build", "update"}
      BY <2>1 DEF PublishRebuild, PublishUpdate, Updating
  <2>3. j = k
      BY <1>1, <2>2 DEF IInv, OneWorker, Running
  <2>4. ~stopped /\ ~dirty
      BY <2>1, <2>3 DEF PublishRebuild, PublishUpdate, Updating
  <2> QED  BY <1>1, <2>4 DEF IInv, ReadIsCurrent
<1> QED  BY InductiveIInv, <1>1, PTL DEF Spec, RebuiltIsCurrent

----------------------------------------------------------------------------
(* The queue of pending updates.                                           *)

\* Taking one place out of a sequence moves the places behind it up.
LEMMA WithoutPlace ==
    ASSUME NEW S, NEW q \in Seq(S), NEW r \in DOMAIN q
    PROVE  /\ RemoveAt(q, r) \in Seq(S)
           /\ Len(RemoveAt(q, r)) = Len(q) - 1
           /\ \A i \in 1..(Len(q) - 1) : RemoveAt(q, r)[i] = q[IF i < r THEN i ELSE i + 1]
<1> DEFINE a == SubSeq(q, 1, r - 1)
           b == SubSeq(q, r + 1, Len(q))
<1>1. Len(q) \in Nat /\ r \in 1..Len(q) /\ \A i \in 1..Len(q) : q[i] \in S
    OBVIOUS
<1>2. a \in Seq(S) /\ Len(a) = r - 1 /\ \A i \in 1..(r - 1) : a[i] = q[i]
    BY <1>1, SubSeqProperties
<1>3. b \in Seq(S) /\ Len(b) = Len(q) - r /\ \A i \in 1..(Len(q) - r) : b[i] = q[r + i]
  <2>1. /\ b \in Seq(S)
        /\ Len(b) = IF r + 1 <= Len(q) THEN Len(q) - (r + 1) + 1 ELSE 0
        /\ \A i \in 1..(Len(q) - (r + 1) + 1) : b[i] = q[r + 1 + i - 1]
    <3>1. r + 1 \in Int /\ Len(q) \in Int /\ \A i \in (r + 1)..Len(q) : q[i] \in S
        BY <1>1
    <3> QED  BY <3>1, SubSeqProperties
  <2>2. Len(q) - (r + 1) + 1 = Len(q) - r /\ \A i \in 1..(Len(q) - r) : r + 1 + i - 1 = r + i
      BY <1>1
  <2> QED  BY <1>1, <2>1, <2>2
<1>4. RemoveAt(q, r) = a \o b
    BY DEF RemoveAt
<1> HIDE DEF a, b
<1>5. /\ a \o b \in Seq(S) /\ Len(a \o b) = Len(q) - 1
      /\ \A i \in 1..(Len(q) - 1) : (a \o b)[i] = IF i <= r - 1 THEN a[i] ELSE b[i - (r - 1)]
  <2>1. /\ a \o b \in Seq(S) /\ Len(a \o b) = Len(a) + Len(b)
        /\ \A i \in 1..(Len(a) + Len(b)) : (a \o b)[i] = IF i <= Len(a) THEN a[i] ELSE b[i - Len(a)]
      BY <1>2, <1>3, ConcatProperties
  <2>2. Len(a) + Len(b) = Len(q) - 1
      BY <1>1, <1>2, <1>3
  <2> QED  BY <1>2, <2>1, <2>2
<1>6. ASSUME NEW i \in 1..(Len(q) - 1)  PROVE (a \o b)[i] = q[IF i < r THEN i ELSE i + 1]
  <2>1. CASE i < r
      BY <1>1, <1>2, <1>5, <2>1
  <2>2. CASE ~(i < r)
    <3>1. i - (r - 1) \in 1..(Len(q) - r) /\ ~(i <= r - 1) /\ r + (i - (r - 1)) = i + 1
        BY <1>1, <2>2
    <3> QED  BY <1>3, <1>5, <2>2, <3>1
  <2> QED  BY <2>1, <2>2
<1> QED  BY <1>4, <1>5, <1>6

\* The pending updates of the other records, in the order they have.
LEMMA WithoutIs ==
    ASSUME pending \in Seq(Update), NEW m,
           \A i, j \in DOMAIN pending : pending[i].id = pending[j].id => i = j
    PROVE  /\ Without(m) \in Seq(Update)
           /\ \A i \in DOMAIN Without(m) :
                \E j \in DOMAIN pending : Without(m)[i] = pending[j] /\ pending[j].id # m
           /\ \A j \in DOMAIN pending : pending[j].id # m => \E i \in DOMAIN Without(m) : Without(m)[i] = pending[j]
           /\ \A i, j \in DOMAIN Without(m) : Without(m)[i].id = Without(m)[j].id => i = j
<1>1. CASE ~IsPending(m)
    BY <1>1 DEF Without, IsPending
<1>2. CASE IsPending(m)
  <2> DEFINE r == CHOOSE i \in DOMAIN pending : pending[i].id = m
             h == [i \in 1..(Len(pending) - 1) |-> IF i < r THEN i ELSE i + 1]
  <2>1. r \in DOMAIN pending /\ pending[r].id = m
      BY <1>2 DEF IsPending
  <2>2. Without(m) = RemoveAt(pending, r)
      BY <1>2 DEF Without
  <2> HIDE DEF r
  <2>3. /\ Without(m) \in Seq(Update) /\ DOMAIN Without(m) = 1..(Len(pending) - 1)
        /\ \A i \in 1..(Len(pending) - 1) : Without(m)[i] = pending[h[i]]
      BY <2>1, <2>2, WithoutPlace
  <2>4. /\ Len(pending) \in Nat /\ DOMAIN pending = 1..Len(pending) /\ r \in 1..Len(pending)
      BY <2>1
  <2>5. /\ \A i \in 1..(Len(pending) - 1) : h[i] \in 1..Len(pending) /\ h[i] # r
        /\ \A i, j \in 1..(Len(pending) - 1) : h[i] = h[j] => i = j
      BY <2>4
  <2>6. \A j \in 1..Len(pending) : j # r => \E i \in 1..(Len(pending) - 1) : h[i] = j
    <3> SUFFICES ASSUME NEW j \in 1..Len(pending), j # r
                 PROVE  \E i \in 1..(Len(pending) - 1) : h[i] = j
        OBVIOUS
    <3>1. CASE j < r
        BY <2>4, <3>1
    <3>2. CASE ~(j < r)
      <4>1. j - 1 \in 1..(Len(pending) - 1) /\ ~(j - 1 < r) /\ (j - 1) + 1 = j
          BY <2>4, <3>2
      <4> QED  BY <4>1
    <3> QED  BY <3>1, <3>2
  <2> HIDE DEF h
  <2>7. ASSUME NEW i \in DOMAIN Without(m)
        PROVE  h[i] \in DOMAIN pending /\ Without(m)[i] = pending[h[i]] /\ pending[h[i]].id # m
      BY <2>1, <2>3, <2>4, <2>5
  <2>8. ASSUME NEW j \in DOMAIN pending, pending[j].id # m
        PROVE  \E i \in DOMAIN Without(m) : Without(m)[i] = pending[j]
    <3>1. j \in 1..Len(pending) /\ j # r
        BY <2>1, <2>4, <2>8
    <3>2. PICK i \in 1..(Len(pending) - 1) : h[i] = j
        BY <2>6, <3>1
    <3> QED  BY <2>3, <3>2
  <2>9. ASSUME NEW i \in DOMAIN Without(m), NEW j \in DOMAIN Without(m), Without(m)[i].id = Without(m)[j].id
        PROVE  i = j
    <3>1. h[i] \in DOMAIN pending /\ h[j] \in DOMAIN pending /\ pending[h[i]].id = pending[h[j]].id
        BY <2>7, <2>9
    <3>2. h[i] = h[j]
        BY <3>1
    <3> QED  BY <2>3, <2>5, <3>2
  <2> QED  BY <2>3, <2>7, <2>8, <2>9
<1> QED  BY <1>1, <1>2

\* A record's entry is replaced by its new one, which comes last; the entries
\* of the others stay.
LEMMA Replaced ==
    ASSUME pending \in Seq(Update), NEW new \in Update, pending' = Append(Without(new.id), new),
           \A i, j \in DOMAIN pending : pending[i].id = pending[j].id => i = j
    PROVE  /\ pending' \in Seq(Update) /\ pending' # <<>>
           /\ \A i \in DOMAIN pending' : pending'[i] = new
                \/ \E j \in DOMAIN pending : pending'[i] = pending[j] /\ pending[j].id # new.id
           /\ \A j \in DOMAIN pending : pending[j].id # new.id => \E i \in DOMAIN pending' : pending'[i] = pending[j]
           /\ \E i \in DOMAIN pending' : pending'[i] = new
           /\ \A i, j \in DOMAIN pending' : pending'[i].id = pending'[j].id => i = j
<1> DEFINE q == Without(new.id)
<1>1. /\ q \in Seq(Update)
      /\ \A i \in DOMAIN q : \E j \in DOMAIN pending : q[i] = pending[j] /\ pending[j].id # new.id
      /\ \A j \in DOMAIN pending : pending[j].id # new.id => \E i \in DOMAIN q : q[i] = pending[j]
      /\ \A i, j \in DOMAIN q : q[i].id = q[j].id => i = j
    BY WithoutIs
<1> HIDE DEF q
<1>2. /\ pending' \in Seq(Update) /\ pending' # <<>> /\ DOMAIN pending' = 1..(Len(q) + 1)
      /\ DOMAIN q = 1..Len(q) /\ Len(q) \in Nat
      /\ \A i \in DOMAIN q : pending'[i] = q[i]
      /\ pending'[Len(q) + 1] = new
    BY <1>1, AppendProperties DEF q
<1>3. \A i \in DOMAIN pending' : i \in DOMAIN q \/ i = Len(q) + 1
    BY <1>2
<1>4. DOMAIN q \subseteq DOMAIN pending' /\ Len(q) + 1 \in DOMAIN pending'
    BY <1>2
<1>5. \A i \in DOMAIN q : pending'[i].id # new.id
    BY <1>1, <1>2
<1>6. ASSUME NEW i \in DOMAIN pending', NEW j \in DOMAIN pending', pending'[i].id = pending'[j].id
      PROVE  i = j
    BY <1>1, <1>2, <1>3, <1>5, <1>6
<1>7. ASSUME NEW i \in DOMAIN pending'
      PROVE  pending'[i] = new \/ \E j \in DOMAIN pending : pending'[i] = pending[j] /\ pending[j].id # new.id
    BY <1>1, <1>2, <1>3
<1>8. ASSUME NEW j \in DOMAIN pending, pending[j].id # new.id
      PROVE  \E i \in DOMAIN pending' : pending'[i] = pending[j]
    BY <1>1, <1>2, <1>4, <1>8
<1> QED  BY <1>2, <1>4, <1>6, <1>7, <1>8

\* The first entry is taken; the others stay.
LEMMA Taking ==
    ASSUME NEW S, NEW q \in Seq(S), q # <<>>
    PROVE  /\ Head(q) = q[1] /\ 1 \in DOMAIN q /\ Head(q) \in S
           /\ Tail(q) \in Seq(S)
           /\ \A i \in DOMAIN Tail(q) : i + 1 \in DOMAIN q /\ Tail(q)[i] = q[i + 1]
           /\ \A j \in DOMAIN q : j = 1 \/ (j - 1 \in DOMAIN Tail(q) /\ Tail(q)[j - 1] = q[j])
<1>1. Len(q) \in Nat /\ Len(q) # 0 /\ DOMAIN q = 1..Len(q)
    OBVIOUS
<1>2. Tail(q) \in Seq(S) /\ Len(Tail(q)) = Len(q) - 1 /\ \A i \in 1..Len(Tail(q)) : Tail(q)[i] = q[i + 1]
    OBVIOUS
<1>3. Head(q) = q[1] /\ q[1] \in S
    BY <1>1
<1> QED  BY <1>1, <1>2, <1>3

----------------------------------------------------------------------------
(* What else is true of the state, whatever clients there are.             *)

\* The changes of a record stay within Versions, and one that expired is not
\* taken for a new one.
Numbered ==
    /\ IsFiniteSet(live)
    /\ \A m \in live : version[m] <= MaxVersion
    /\ \A m \in expired : version[m] # 0

\* One pending update for a record, the latest it was asked for; none while no
\* index is there or the next one is built.
Dictionary ==
    /\ \A i, j \in DOMAIN pending : pending[i].id = pending[j].id => i = j
    /\ \A i \in DOMAIN pending : pending[i].generation = generation[pending[i].id]
    /\ pending # <<>> => built
    /\ \A k \in Threads : stage[k] \in Building => pending = <<>>

\* The update a worker has taken is not of a later generation than its record.
Taken == \A k \in Threads : stage[k] = "update" =>
    /\ built
    /\ \E u \in Range(work[k]) : work[k] = <<u>> /\ (stopped \/ u.generation <= generation[u.id])

\* A failure is reported as long as it is remembered, and no rebuild or update
\* waits for a worker that is gone without an error being reported.
Reported ==
    /\ failed # {} => updateError
    /\ worker = NoThread /\ ~stopped => ~rebuilding /\ (pending # <<>> => updateError \/ rebuildError)

\* Nobody announces a change, or was told of one, that was not made.
MadeBefore ==
    /\ \A m \in Memories : seen[m] <= version[m]
    /\ \A c \in Clients : \A i \in DOMAIN outbox[c] : outbox[c][i].version <= version[outbox[c][i].id]

Whole == TypeOK /\ Numbered /\ Dictionary /\ Taken /\ Reported /\ MadeBefore

LEMMA InitWhole == Init => Whole
<1> SUFFICES ASSUME Init PROVE Whole
    OBVIOUS
<1> USE DEF Init
<1>1. NoVectors \in Vectors /\ NoVectors \in [Memories -> Nat]
    BY BoundsAssumption DEF NoVectors, Vectors, Versions
<1>2. TypeOK
  <2>1. outbox \in [Clients -> Seq(Event)] /\ work \in [Threads -> Seq(Update)] /\ pending \in Seq(Update)
      OBVIOUS
  <2>2. refreshes \in 0..MaxRefreshes
      BY BoundsAssumption
  <2> QED  BY <1>1, <2>1, <2>2, NoThreadIsNone DEF TypeOK, Stage
<1>3. Numbered
    BY FS_EmptySet DEF Numbered
<1>4. Dictionary /\ Taken /\ Reported
    BY DEF Dictionary, Taken, Reported, Building
<1>5. MadeBefore
    BY DEF MadeBefore, NoVectors
<1> QED  BY <1>2, <1>3, <1>4, <1>5 DEF Whole

\* The records that are changed get one version more.
LEMMA BumpedIs ==
    ASSUME Whole, NEW ms \in SUBSET live
    PROVE  /\ Bumped(ms) \in Vectors
           /\ \A m \in Memories : Bumped(ms)[m] = IF m \in ms THEN version[m] + 1 ELSE version[m]
           /\ \A m \in Memories : version[m] <= Bumped(ms)[m]
<1> USE DEF Whole, TypeOK
<1>1. \A m \in Memories : Bumped(ms)[m] = IF m \in ms THEN version[m] + 1 ELSE version[m]
    BY DEF Bumped
<1>2. ASSUME NEW m \in Memories  PROVE Bumped(ms)[m] \in Versions /\ version[m] <= Bumped(ms)[m]
  <2>1. version[m] \in Nat /\ version[m] <= MaxVersion + 1 /\ MaxVersion \in Nat
      BY BoundsAssumption DEF Vectors, Versions
  <2>2. m \in ms => version[m] <= MaxVersion
      BY DEF Numbered
  <2> QED  BY <1>1, <2>1, <2>2 DEF Versions
<1> QED  BY <1>1, <1>2 DEF Bumped, Vectors

\* The removals announced are of the records removed, as they are afterwards.
LEMMA RemovalsAre ==
    ASSUME Whole, NEW ms \in SUBSET live, NEW order \in Orders(ms)
    PROVE  /\ Removals(order) \in Seq(Event)
           /\ \A i \in DOMAIN Removals(order) :
                /\ Removals(order)[i].id \in ms /\ ~Removals(order)[i].upsert
                /\ Removals(order)[i].version = version[Removals(order)[i].id] + 1
<1> USE DEF Whole, TypeOK
<1>1. IsFiniteSet(ms)
    BY FS_Subset DEF Numbered
<1>2. Cardinality(ms) \in Nat
    BY <1>1, FS_CardinalityType
<1>3. order \in [1..Cardinality(ms) -> ms]
    BY DEF Orders
<1>4. ASSUME NEW m \in ms  PROVE Announcement(m, FALSE) \in Event
  <2>1. version[m] \in Nat /\ version[m] <= MaxVersion /\ MaxVersion \in Nat /\ m \in Memories
      BY BoundsAssumption DEF Numbered, Vectors, Versions
  <2>2. version[m] + 1 \in Versions
      BY <2>1 DEF Versions
  <2> QED  BY <2>1, <2>2 DEF Announcement, Event
<1>5. /\ Removals(order) = [i \in 1..Cardinality(ms) |-> Announcement(order[i], FALSE)]
      /\ \A i \in 1..Cardinality(ms) : order[i] \in ms
    BY <1>3 DEF Removals
<1>6. Removals(order) \in [1..Cardinality(ms) -> Event]
    BY <1>4, <1>5
<1>7. Removals(order) \in Seq(Event)
  <2> HIDE DEF Whole, TypeOK
  <2> QED  BY <1>2, <1>6, SeqDef
<1> QED  BY <1>5, <1>7 DEF Announcement

\* Client c has made one change to each of the records ms, and now has to
\* announce them, as they are.
Changes(c, ms, events) ==
    /\ Announces(c, events) /\ outbox[c] = <<>>
    /\ version' \in Vectors
    /\ \A m \in Memories : version[m] <= version'[m]
    /\ \A m \in Memories \ ms : version'[m] = version[m] /\ (m \in live' <=> m \in live)
    /\ live' \subseteq live \cup ms /\ IsFiniteSet(live')
    /\ \A m \in live' : version'[m] <= MaxVersion
    /\ due' \subseteq live' /\ expired' \cap live' = {}
    /\ expired \subseteq expired' /\ expired' \subseteq expired \cup ms
    /\ \A m \in ms : version'[m] = version[m] + 1 /\ \E i \in DOMAIN events : events[i].id = m
    /\ \A i \in DOMAIN events :
          /\ events[i].id \in ms /\ events[i].version = version'[events[i].id]
          /\ events[i].upsert <=> events[i].id \in live'

LEMMA Writes ==
    ASSUME Whole, NEW c \in Clients, NEW m \in Memories, Write(c, m), version[m] = 0 \/ m \in live
    PROVE  \E events \in Seq(Event) : Changes(c, {m}, events)
<1> USE DEF Whole, TypeOK
<1> DEFINE events == <<Announcement(m, TRUE)>>
<1>1. /\ Announces(c, events) /\ outbox[c] = <<>> /\ version' = Bumped({m}) /\ live' = live \cup {m}
      /\ UNCHANGED <<due, expired>> /\ version[m] < MaxVersion /\ version[m] \in Nat /\ MaxVersion \in Nat
    BY BoundsAssumption DEF Write, Rests, Vectors, Versions
<1>2. version[m] + 1 \in Versions /\ version[m] + 1 <= MaxVersion /\ version[m] <= version[m] + 1
    BY <1>1 DEF Versions
<1>3. \A n \in Memories : version'[n] = IF n = m THEN version[n] + 1 ELSE version[n]
    BY <1>1 DEF Bumped
<1>4. version' \in Vectors
  <2>1. \A n \in Memories : version'[n] \in Versions
      BY <1>2, <1>3 DEF Vectors
  <2> QED  BY <1>1, <2>1 DEF Bumped, Vectors
<1>5. events \in Seq(Event)
    BY <1>2 DEF Announcement, Event
<1>6. IsFiniteSet(live') /\ \A n \in live' : version'[n] <= MaxVersion
  <2>1. IsFiniteSet(live')
      BY <1>1, FS_AddElement DEF Numbered
  <2> QED  BY <1>1, <1>2, <1>3, <2>1 DEF Numbered
<1>7. expired' \cap live' = {}
  <2>1. m \notin expired /\ expired \cap live = {}
      BY DEF Numbered
  <2> HIDE DEF Whole, TypeOK, events
  <2> QED  BY <1>1, <2>1
<1>8. DOMAIN events = {1} /\ events[1] = [id |-> m, version |-> version'[m], upsert |-> TRUE]
  <2>1. version'[m] = version[m] + 1
      BY <1>3
  <2> HIDE DEF Whole, TypeOK
  <2> QED  BY <2>1 DEF Announcement
<1>9. \A n \in Memories : version[n] <= version'[n]
  <2>1. \A n \in Memories : version[n] \in Nat
      BY DEF Vectors, Versions
  <2> HIDE DEF Whole, TypeOK
  <2> QED  BY <1>3, <2>1
<1>10. due' \subseteq live' /\ live' = live \cup {m}
    BY <1>1
<1> DEFINE ms == {m}
<1> HIDE DEF events, Whole, TypeOK
<1>11. \A n \in Memories \ ms : version'[n] = version[n] /\ (n \in live' <=> n \in live)
    BY <1>3, <1>10
<1>12. \A n \in ms : version'[n] = version[n] + 1 /\ \E i \in DOMAIN events : events[i].id = n
    BY <1>3, <1>8
<1>13. \A i \in DOMAIN events :
          /\ events[i].id \in ms /\ events[i].version = version'[events[i].id]
          /\ events[i].upsert <=> events[i].id \in live'
    BY <1>8, <1>10
<1>14. /\ due' \subseteq live' /\ live' \subseteq live \cup ms
       /\ expired \subseteq expired' /\ expired' \subseteq expired \cup ms
       /\ Announces(c, events) /\ outbox[c] = <<>>
    BY <1>1, <1>10 DEF events
<1> HIDE DEF ms
<1>15. Changes(c, ms, events)
    BY <1>4, <1>6, <1>7, <1>9, <1>11, <1>12, <1>13, <1>14 DEF Changes
<1> QED  BY <1>5, <1>15 DEF ms

LEMMA Removes ==
    ASSUME Whole, NEW c \in Clients, Rests(c), NEW ms \in SUBSET live, NEW order \in Orders(ms),
           Announces(c, Removals(order)), version' = Bumped(ms), live' = live \ ms, due' \subseteq due \ ms,
           expired \subseteq expired', expired' \subseteq expired \cup ms
    PROVE  \E events \in Seq(Event) : Changes(c, ms, events)
<1> USE DEF Whole, TypeOK
<1> DEFINE events == Removals(order)
<1>1. /\ version' \in Vectors /\ \A m \in Memories : version[m] <= version'[m]
      /\ \A m \in Memories : version'[m] = IF m \in ms THEN version[m] + 1 ELSE version[m]
    BY BumpedIs
<1>2. /\ events \in Seq(Event)
      /\ \A i \in DOMAIN events : /\ events[i].id \in ms /\ ~events[i].upsert
                                  /\ events[i].version = version[events[i].id] + 1
    BY RemovalsAre
<1>3. \A m \in ms : \E i \in DOMAIN events : events[i].id = m
    BY RemovalsAnnounce
<1>4. IsFiniteSet(live') /\ \A m \in live' : version'[m] <= MaxVersion
  <2>1. IsFiniteSet(live')
      BY FS_Subset DEF Numbered
  <2> QED  BY <1>1, <2>1 DEF Numbered
<1> HIDE DEF events
<1>5. Announces(c, events) /\ outbox[c] = <<>>
    BY DEF events, Rests
<1>6. Changes(c, ms, events)
    BY <1>1, <1>2, <1>3, <1>4, <1>5 DEF Changes
<1> QED  BY <1>2, <1>6

LEMMA ManagerChanges ==
    ASSUME Whole, NEW c \in Clients, ManagerStep(c)
    PROVE  \E ms \in SUBSET Memories : \E events \in Seq(Event) : Changes(c, ms, events)
<1> USE DEF Whole, TypeOK
<1>1. CASE \E m \in Memories : Add(c, m) \/ UpdateRecord(c, m)
  <2>1. PICK m \in Memories : Write(c, m) /\ (version[m] = 0 \/ m \in live)
      BY <1>1 DEF Add, UpdateRecord
  <2> QED  BY <2>1, Writes
<1>2. CASE Clear(c) \/ \E m \in Memories : Delete(c, m)
  <2>1. PICK ms \in SUBSET live : Erase(c, ms)
      BY <1>2 DEF Clear, Delete
  <2>2. PICK order \in Orders(ms) : Announces(c, Removals(order))
      BY <2>1 DEF Erase
  <2>3. \E events \in Seq(Event) : Changes(c, ms, events)
      BY <2>1, <2>2, Removes DEF Erase
  <2> QED  BY <2>3
<1>3. CASE Purge(c)
  <2>1. PICK order \in Orders(due) : Announces(c, Removals(order))
      BY <1>3 DEF Purge
  <2>2. due \in SUBSET live
      OBVIOUS
  <2>3. \E events \in Seq(Event) : Changes(c, due, events)
      BY <1>3, <2>1, <2>2, Removes DEF Purge, Purged
  <2> QED  BY <2>2, <2>3
<1> QED  BY <1>1, <1>2, <1>3 DEF ManagerStep

LEMMA ManagerWhole ==
    ASSUME IInv, Whole, NEW c \in Clients, ManagerStep(c)
    PROVE  Whole'
<1>1. PICK ms \in SUBSET Memories, events \in Seq(Event) : Changes(c, ms, events)
    BY ManagerChanges
<1>2. UNCHANGED <<launching, for, published, rebuilding, dirty, stopped, worker, queue, errors, stage, locals,
                  refreshes, seen>>
    BY DEF ManagerStep, Add, UpdateRecord, Write, Delete, Clear, Erase, Purge, Announces
<1>3. expired' \in SUBSET Memories /\ live' \in SUBSET Memories
    BY <1>1 DEF Changes, Whole, TypeOK
<1>4. outbox' \in [Clients -> Seq(Event)] /\ outbox' = [outbox EXCEPT ![c] = events]
    BY <1>1 DEF Changes, Announces, Whole, TypeOK
<1>5. TypeOK'
    BY <1>1, <1>2, <1>3, <1>4 DEF Changes, Whole, TypeOK, published, queue, errors, locals
<1>6. Numbered'
  <2>1. \A m \in expired' : version'[m] # 0
    <3>1. \A m \in Memories : version[m] \in Nat
        BY DEF Whole, TypeOK, Vectors, Versions
    <3>2. \A m \in expired : version[m] # 0 /\ m \in Memories
        BY DEF Whole, TypeOK, Numbered
    <3> QED  BY <1>1, <3>1, <3>2 DEF Changes
  <2> QED  BY <1>1, <2>1 DEF Changes, Numbered
<1>7. Dictionary' /\ Taken' /\ Reported'
    BY <1>2 DEF Whole, Dictionary, Taken, Reported, published, queue, errors, locals
<1>8. MadeBefore'
  <2>1. \A m \in Memories : version[m] \in Nat /\ version'[m] \in Nat /\ seen[m] \in Nat /\ version[m] <= version'[m]
      BY <1>1 DEF Changes, Whole, TypeOK, Vectors, Versions
  <2>2. \A m \in Memories : seen'[m] <= version'[m]
      BY <1>2, <2>1 DEF Whole, MadeBefore
  <2>3. ASSUME NEW d \in Clients, NEW i \in DOMAIN outbox'[d]
        PROVE  outbox'[d][i].version <= version'[outbox'[d][i].id]
    <3>1. CASE d = c
      <4>1. outbox'[d] = events
          BY <1>4, <3>1 DEF Whole, TypeOK
      <4> QED  BY <1>1, <2>1, <2>3, <4>1 DEF Changes
    <3>2. CASE d # c
      <4>1. outbox'[d] = outbox[d] /\ outbox[d] \in Seq(Event)
          BY <1>4, <3>2 DEF Whole, TypeOK
      <4>2. outbox[d][i].id \in Memories /\ outbox[d][i].version \in Nat
        <5>1. outbox[d][i] \in Event
            BY <2>3, <4>1
        <5> QED  BY <5>1, BoundsAssumption DEF Event, Versions
      <4>3. outbox[d][i].version <= version[outbox[d][i].id]
          BY <2>3, <4>1 DEF Whole, MadeBefore
      <4> QED  BY <2>1, <4>1, <4>2, <4>3
    <3> QED  BY <3>1, <3>2
  <2> QED  BY <2>2, <2>3 DEF MadeBefore
<1> QED  BY <1>5, <1>6, <1>7, <1>8 DEF Whole

\* The first event of a client is heard; it goes on with the rest.
LEMMA Hears ==
    ASSUME Whole, NEW c \in Clients, Announcing(c), Saw(Announced(c)),
           outbox' = [outbox EXCEPT ![c] = Unannounced(c)], version' = version
    PROVE  /\ Announced(c) \in Event
           /\ 1 \in DOMAIN outbox[c] /\ Announced(c) = outbox[c][1]
           /\ outbox' \in [Clients -> Seq(Event)]
           /\ \A d \in Clients : \A i \in DOMAIN outbox'[d] :
                \E j \in DOMAIN outbox[d] : outbox'[d][i] = outbox[d][j]
           /\ \A d \in Clients : \A j \in DOMAIN outbox[d] :
                (d = c /\ j = 1) \/ \E i \in DOMAIN outbox'[d] : outbox'[d][i] = outbox[d][j]
           /\ seen' \in Vectors
           /\ \A m \in Memories : seen'[m] = IF m = Announced(c).id THEN Newest(seen[m], Announced(c).version)
                                             ELSE seen[m]
           /\ MadeBefore'
<1>1. outbox[c] \in Seq(Event) /\ outbox[c] # <<>>
    BY DEF Whole, TypeOK, Announcing
<1>2. /\ Announced(c) = outbox[c][1] /\ 1 \in DOMAIN outbox[c] /\ Announced(c) \in Event
      /\ Unannounced(c) \in Seq(Event)
      /\ \A i \in DOMAIN Unannounced(c) : i + 1 \in DOMAIN outbox[c] /\ Unannounced(c)[i] = outbox[c][i + 1]
      /\ \A j \in DOMAIN outbox[c] :
            j = 1 \/ (j - 1 \in DOMAIN Unannounced(c) /\ Unannounced(c)[j - 1] = outbox[c][j])
    BY <1>1, Taking DEF Announced, Unannounced
<1>3. /\ outbox' \in [Clients -> Seq(Event)] /\ outbox'[c] = Unannounced(c)
      /\ \A d \in Clients : d # c => outbox'[d] = outbox[d]
    BY <1>2 DEF Whole, TypeOK
<1>4. \A d \in Clients : \A i \in DOMAIN outbox'[d] :
                \E j \in DOMAIN outbox[d] : outbox'[d][i] = outbox[d][j]
    BY <1>2, <1>3
<1>5. \A d \in Clients : \A j \in DOMAIN outbox[d] :
                (d = c /\ j = 1) \/ \E i \in DOMAIN outbox'[d] : outbox'[d][i] = outbox[d][j]
    BY <1>2, <1>3
<1> DEFINE e == Announced(c)
<1>6. e.id \in Memories /\ e.version \in Versions /\ e.version <= version[e.id]
    BY <1>2 DEF Event, Whole, MadeBefore
<1>7. seen' = [seen EXCEPT ![e.id] = Newest(seen[e.id], e.version)] /\ seen \in [Memories -> Versions]
    BY DEF Saw, Whole, TypeOK, Vectors
<1>8. \A m \in Memories : seen'[m] = IF m = e.id THEN Newest(seen[m], e.version) ELSE seen[m]
    BY <1>7
<1>9. Newest(seen[e.id], e.version) \in Versions /\ Newest(seen[e.id], e.version) <= version[e.id]
    BY <1>6, <1>7 DEF Newest, Whole, MadeBefore
<1>10. seen' \in Vectors
    BY <1>7, <1>9 DEF Vectors
<1>11. MadeBefore'
  <2>1. \A m \in Memories : seen'[m] <= version'[m]
      BY <1>6, <1>8, <1>9 DEF Whole, MadeBefore
  <2>2. \A d \in Clients : \A i \in DOMAIN outbox'[d] : outbox'[d][i].version <= version'[outbox'[d][i].id]
      BY <1>4 DEF Whole, MadeBefore
  <2> QED  BY <2>1, <2>2 DEF MadeBefore
<1> QED  BY <1>2, <1>3, <1>4, <1>5, <1>8, <1>10, <1>11

\* A thread that is made for a client takes the place of one that has ended.
LEMMA MakesIs ==
    ASSUME Whole, NEW c \in Clients, NEW ms \in SUBSET Memories, MakesWorker(c, ms)
    PROVE  /\ worker' \in Threads
           /\ stage' \in [Threads -> Stage]
           /\ \A k \in Threads : stage'[k] = stage[k] \/ (stage[k] = "ended" /\ stage'[k] = "made")
           /\ launching' \in [Clients -> Threads \cup {NoThread}] /\ for' \in [Clients -> SUBSET Memories]
<1>1. CASE worker # NoThread
    BY <1>1 DEF MakesWorker, Whole, TypeOK
<1>2. CASE worker = NoThread
  <2>1. PICK k \in Threads : /\ worker' = k /\ stage[k] = "ended" /\ stage' = [stage EXCEPT ![k] = "made"]
                             /\ launching' = [launching EXCEPT ![c] = k]
                             /\ for' = [for EXCEPT ![c] = ms]
      BY <1>2 DEF MakesWorker, Fresh
  <2> QED  BY <2>1 DEF Whole, TypeOK, Stage
<1> QED  BY <1>1, <1>2

LEMMA AnnounceWhole ==
    ASSUME IInv, Whole, NEW c \in Clients, AnnounceStep(c)
    PROVE  Whole'
<1> DEFINE e == Announced(c)
<1>1. /\ Announcing(c) /\ Saw(e) /\ outbox' = [outbox EXCEPT ![c] = Unannounced(c)]
      /\ UNCHANGED <<memory, published, rebuilding, stopped, rebuildError, locals, refreshes>>
    BY DEF AnnounceStep, EventIgnored, EventDirties, EventRejected, EventQueued, Takes, Announces, errors
<1>2. UNCHANGED <<version, live, due, expired, index, built, rebuilding, stopped, rebuildError,
                  retried, snapshot, work, refreshes>>
    BY <1>1 DEF memory, published, locals
<1>3. /\ e \in Event /\ outbox' \in [Clients -> Seq(Event)] /\ seen' \in Vectors /\ MadeBefore'
    BY <1>1, <1>2, Hears
<1>4. Numbered'
    BY <1>2 DEF Whole, Numbered
<1>5. CASE EventIgnored(c) \/ EventDirties(c)
  <2>1. dirty' \in BOOLEAN /\ UNCHANGED <<launching, for, worker, queue, errors, stage>>
      BY <1>5 DEF EventIgnored, EventDirties, Announces, Whole, TypeOK
  <2>2. TypeOK'
      BY <1>2, <1>3, <2>1 DEF Whole, TypeOK, queue, errors
  <2> QED  BY <1>2, <1>3, <1>4, <2>1, <2>2 DEF Whole, Dictionary, Taken, Reported, queue, errors
<1>6. CASE EventRejected(c)
  <2>1. /\ MarkFailed(e.id) /\ missed' = missed \cup {e.id}
        /\ UNCHANGED <<launching, for, worker, dirty, queue, stage>>
      BY <1>6 DEF EventRejected, Announces
  <2>2. failed' \subseteq Memories /\ missed' \subseteq Memories /\ updateError' = TRUE
      BY <1>3, <2>1 DEF MarkFailed, Event, Whole, TypeOK
  <2>3. TypeOK'
      BY <1>2, <1>3, <2>1, <2>2 DEF Whole, TypeOK, queue
  <2> QED  BY <1>2, <1>3, <1>4, <2>1, <2>2, <2>3 DEF Whole, Dictionary, Taken, Reported, queue
<1>7. CASE EventQueued(c)
  <2> DEFINE next == generation[e.id] + 1
             new == [id |-> e.id, version |-> e.version, upsert |-> e.upsert, generation |-> next]
  <2>1. /\ ~stopped /\ ~rebuilding /\ built
        /\ generation' = [generation EXCEPT ![e.id] = next]
        /\ pending' = Append(Without(e.id), new)
        /\ MakesWorker(c, {e.id})
        /\ UNCHANGED <<dirty, errors>>
      BY <1>7 DEF EventQueued, Takes
  <2>2. next \in Nat /\ new \in Update /\ generation' \in [Memories -> Nat]
      BY <1>3, <2>1 DEF Event, Update, Whole, TypeOK
  <2>3. new.id = e.id /\ new.generation = next
      OBVIOUS
  <2> HIDE DEF new
  <2>4. /\ pending' \in Seq(Update) /\ pending' # <<>>
        /\ \A i \in DOMAIN pending' : pending'[i] = new
              \/ \E j \in DOMAIN pending : pending'[i] = pending[j] /\ pending[j].id # e.id
        /\ \A i, j \in DOMAIN pending' : pending'[i].id = pending'[j].id => i = j
    <3>1. pending \in Seq(Update) /\ \A i, j \in DOMAIN pending : pending[i].id = pending[j].id => i = j
        BY DEF Whole, TypeOK, Dictionary
    <3>2. new \in Update /\ pending' = Append(Without(new.id), new)
        BY <2>1, <2>2, <2>3
    <3> HIDE DEF next
    <3> QED  BY <2>3, <3>1, <3>2, Replaced
  <2>5. /\ worker' \in Threads
        /\ stage' \in [Threads -> Stage]
        /\ \A k \in Threads : stage'[k] = stage[k] \/ (stage[k] = "ended" /\ stage'[k] = "made")
        /\ launching' \in [Clients -> Threads \cup {NoThread}] /\ for' \in [Clients -> SUBSET Memories]
    <3>1. {e.id} \in SUBSET Memories
        BY <1>3 DEF Event
    <3> QED  BY <2>1, <3>1, MakesIs
  <2>6. TypeOK'
      BY <1>2, <1>3, <2>1, <2>2, <2>4, <2>5 DEF Whole, TypeOK, errors
  <2>7. Dictionary'
    <3>1. \A i \in DOMAIN pending' : pending'[i].generation = generation'[pending'[i].id]
      <4> SUFFICES ASSUME NEW i \in DOMAIN pending'
                   PROVE  pending'[i].generation = generation'[pending'[i].id]
          OBVIOUS
      <4>1. CASE pending'[i] = new
          BY <1>3, <2>1, <2>3, <4>1 DEF Event, Whole, TypeOK
      <4>2. ASSUME NEW j \in DOMAIN pending, pending'[i] = pending[j], pending[j].id # e.id
            PROVE  pending'[i].generation = generation'[pending'[i].id]
        <5>1. pending[j] \in Update /\ pending[j].generation = generation[pending[j].id]
            BY DEF Whole, TypeOK, Dictionary
        <5> QED  BY <2>1, <4>2, <5>1 DEF Update, Whole, TypeOK
      <4> QED  BY <2>4, <4>1, <4>2
    <3>2. \A k \in Threads : stage'[k] \notin Building
        BY <2>1, <2>5 DEF IInv, BuildsInRebuild, Building
    <3> QED  BY <1>2, <2>1, <2>4, <3>1, <3>2 DEF Dictionary
  <2>8. Taken'
    <3> SUFFICES ASSUME NEW k \in Threads, stage'[k] = "update"
                 PROVE  built' /\ \E u \in Range(work'[k]) :
                            work'[k] = <<u>> /\ (stopped' \/ u.generation <= generation'[u.id])
        BY DEF Taken
    <3>1. PICK u \in Range(work[k]) : work[k] = <<u>> /\ u.generation <= generation[u.id]
        BY <2>1, <2>5 DEF Whole, Taken
    <3>2. u \in Update
      <4>1. work[k] \in Seq(Update)
          BY DEF Whole, TypeOK
      <4> QED  BY <3>1, <4>1 DEF Range
    <3>3. u.generation <= generation'[u.id]
        BY <2>1, <2>2, <3>1, <3>2 DEF Update, Whole, TypeOK
    <3> QED  BY <1>2, <2>1, <3>1, <3>3
  <2>9. Reported'
      BY <2>1, <2>5, NoThreadIsNone DEF Whole, Reported, errors
  <2> QED  BY <1>3, <1>4, <2>6, <2>7, <2>8, <2>9 DEF Whole
<1> QED  BY <1>5, <1>6, <1>7 DEF AnnounceStep

\* A client asks for a rebuild, or starts the thread it made.
LEMMA CallWhole ==
    ASSUME IInv, Whole, NEW c \in Clients, StartRefresh(c) \/ LaunchStep(c)
    PROVE  Whole'
<1>1. UNCHANGED <<version, live, due, expired, outbox, index, built, stopped, pending, generation,
                  retried, snapshot, work, seen>>
    BY DEF StartRefresh, LaunchStep, Launch, RefreshUnlaunched, UpdateUnlaunched, Launched, memory, published,
           queue, locals
<1>2. Numbered' /\ MadeBefore'
    BY <1>1 DEF Whole, Numbered, MadeBefore
<1>3. CASE StartRefresh(c)
  <2>1. /\ ~rebuilding /\ rebuilding' = TRUE /\ dirty' = FALSE /\ MakesWorker(c, {})
        /\ refreshes < MaxRefreshes /\ refreshes' = refreshes + 1
        /\ UNCHANGED <<failed, updateError, rebuildError, missed>>
      BY <1>3 DEF StartRefresh, errors
  <2>2. /\ worker' \in Threads
        /\ stage' \in [Threads -> Stage]
        /\ \A k \in Threads : stage'[k] = stage[k] \/ (stage[k] = "ended" /\ stage'[k] = "made")
        /\ launching' \in [Clients -> Threads \cup {NoThread}] /\ for' \in [Clients -> SUBSET Memories]
      BY <2>1, MakesIs
  <2>3. refreshes' \in 0..MaxRefreshes
      BY <2>1, BoundsAssumption DEF Whole, TypeOK
  <2>4. TypeOK'
      BY <1>1, <2>1, <2>2, <2>3 DEF Whole, TypeOK
  <2>5. \A k \in Threads : stage'[k] \notin Building
      BY <2>1, <2>2 DEF IInv, BuildsInRebuild, Building
  <2>6. Dictionary' /\ Taken'
      BY <1>1, <2>2, <2>5 DEF Whole, Dictionary, Taken
  <2>7. Reported'
      BY <2>1, <2>2, NoThreadIsNone DEF Whole, Reported
  <2> QED  BY <1>2, <2>4, <2>6, <2>7 DEF Whole
<1>4. CASE LaunchStep(c)
  <2> DEFINE k == launching[c]
  <2>1. /\ k # NoThread /\ k \in Threads /\ stage[k] = "made" /\ worker = k
        /\ launching' = [launching EXCEPT ![c] = NoThread] /\ for' = [for EXCEPT ![c] = {}]
        /\ UNCHANGED <<dirty, refreshes>>
      BY <1>4 DEF LaunchStep, Launch, RefreshUnlaunched, UpdateUnlaunched, Launched, IInv, Typed, LaunchesOwn,
                  OneWorker, Running
  <2>2. \E at \in {"top", "ended"} : stage' = [stage EXCEPT ![k] = at]
      BY <1>4 DEF LaunchStep, Launch, RefreshUnlaunched, UpdateUnlaunched, Launched
  <2>3. /\ worker' \in {k, NoThread} /\ rebuilding' \in BOOLEAN
        /\ failed' \subseteq Memories /\ missed' \subseteq Memories
        /\ updateError' \in BOOLEAN /\ rebuildError' \in BOOLEAN
    <3>1. CASE Launch(c) \/ RefreshUnlaunched(c)
        BY <2>1, <3>1 DEF Launch, RefreshUnlaunched, errors, Whole, TypeOK
    <3>2. CASE UpdateUnlaunched(c)
      <4>1. for[c] \subseteq Memories /\ failed \subseteq Memories /\ missed \subseteq Memories
            /\ rebuilding \in BOOLEAN /\ updateError \in BOOLEAN /\ rebuildError \in BOOLEAN
            /\ stopped \in BOOLEAN
          BY DEF Whole, TypeOK
      <4>2. worker' \in {k, NoThread}
          BY <2>1, <3>2 DEF UpdateUnlaunched
      <4>3. CASE stopped
          BY <3>2, <4>1, <4>2, <4>3 DEF UpdateUnlaunched, errors
      <4>4. CASE ~stopped
        <5>1. PICK m \in for[c] : MarkFailed(m)
            BY <3>2, <4>4 DEF UpdateUnlaunched
        <5>2. failed' \subseteq Memories /\ updateError' = TRUE
            BY <4>1, <5>1 DEF MarkFailed
        <5>3. missed' \subseteq Memories
            BY <3>2, <4>1, <4>4 DEF UpdateUnlaunched, Unkept
        <5>4. rebuilding' = FALSE /\ rebuildError' \in BOOLEAN
            BY <3>2, <4>1, <4>4 DEF UpdateUnlaunched
        <5> QED  BY <4>2, <5>2, <5>3, <5>4
      <4> QED  BY <4>3, <4>4
    <3> QED  BY <1>4, <3>1, <3>2 DEF LaunchStep
  <2>4. TypeOK'
    <3>1. stage' \in [Threads -> Stage] /\ launching' \in [Clients -> Threads \cup {NoThread}]
          /\ for' \in [Clients -> SUBSET Memories]
        BY <2>1, <2>2 DEF Whole, TypeOK, Stage
    <3> QED  BY <1>1, <2>1, <2>3, <3>1 DEF Whole, TypeOK
  <2>5. \A j \in Threads : stage'[j] = stage[j] \/ stage'[j] \in {"top", "ended"}
      BY <2>1, <2>2 DEF Whole, TypeOK
  <2>6. Dictionary' /\ Taken'
      BY <1>1, <2>5 DEF Whole, Dictionary, Taken, Building
  <2>7. Reported'
    <3>1. CASE Launch(c)
        BY <1>1, <2>1, <3>1 DEF Launch, errors, Whole, Reported
    <3>2. CASE RefreshUnlaunched(c)
        BY <1>1, <3>2 DEF RefreshUnlaunched, Whole, Reported
    <3>3. CASE UpdateUnlaunched(c)
        BY <1>1, <2>1, <3>3 DEF UpdateUnlaunched, MarkFailed, errors, Whole, Reported
    <3> QED  BY <1>4, <3>1, <3>2, <3>3 DEF LaunchStep
  <2> QED  BY <1>2, <2>4, <2>6, <2>7 DEF Whole
<1> QED  BY <1>3, <1>4

\* The only thread that runs takes a step.
LEMMA WorkerWhole ==
    ASSUME IInv, Whole, NEW k \in Threads, WorkerStep(k)
    PROVE  Whole'
<1>1. stage[k] \notin {"ended", "made"} /\ worker = k /\ \A j \in Threads : j # k => stage[j] = "ended"
    BY DEF WorkerStep, WorkerEnds, TakeRebuild, TakeUpdate, StartAttempt, BuilderPurges,
           BuilderNotifies, BuilderReads, BuildFails, BuildDiscarded, BuildRetried, PublishRebuild,
           DropUpdate, UpdateFails, PublishUpdate, Updating, OneWorker, Running, IInv
<1>2. /\ UNCHANGED <<launching, for, outbox, stopped, refreshes>>
      /\ \E at \in Stage : stage' = [stage EXCEPT ![k] = at]
    BY DEF WorkerStep, WorkerEnds, TakeRebuild, TakeUpdate, StartAttempt, BuilderPurges,
           BuilderNotifies, BuilderReads, BuildFails, BuildDiscarded, BuildRetried, PublishRebuild,
           DropUpdate, UpdateFails, PublishUpdate, Goes, Returns, Stage, calls
<1>3. IInv'
    BY WorkerKeeps
<1>4. \A j \in Threads : j # k => stage'[j] = "ended"
    BY <1>1, <1>2 DEF Whole, TypeOK
<1>5. /\ version' \in Vectors /\ live' \subseteq Memories /\ due' \subseteq live'
      /\ expired' \subseteq Memories \ live' /\ Numbered'
      /\ \A m \in Memories : version[m] <= version'[m]
  <2>1. \A m \in Memories : version[m] \in Nat
      BY DEF Whole, TypeOK, Vectors, Versions
  <2>2. CASE BuilderPurges(k)
    <3>1. /\ version' \in Vectors /\ \A m \in Memories : version[m] <= version'[m]
          /\ \A m \in Memories : version'[m] = IF m \in due THEN version[m] + 1 ELSE version[m]
        BY <2>2, BumpedIs DEF BuilderPurges, Purged, Whole, TypeOK
    <3>2. live' = live \ due /\ due' = {} /\ expired' = expired \cup due
        BY <2>2 DEF BuilderPurges, Purged
    <3>3. IsFiniteSet(live')
        BY <3>2, FS_Subset DEF Whole, Numbered
    <3>4. live \subseteq Memories /\ due \subseteq live /\ expired \subseteq Memories \ live
        BY DEF Whole, TypeOK
    <3>5. Numbered'
        BY <2>1, <3>1, <3>2, <3>3, <3>4 DEF Whole, Numbered
    <3> QED  BY <3>1, <3>2, <3>4, <3>5
  <2>3. CASE ~BuilderPurges(k)
    <3>1. UNCHANGED <<version, live, due, expired>>
        BY <2>3 DEF WorkerStep, WorkerEnds, TakeRebuild, TakeUpdate, StartAttempt, BuilderNotifies, BuilderReads,
               BuildFails, BuildDiscarded, BuildRetried, PublishRebuild, DropUpdate, UpdateFails,
               PublishUpdate, memory
    <3> QED  BY <2>1, <3>1 DEF Whole, TypeOK, Numbered
  <2> QED  BY <2>2, <2>3
<1>6. seen' \in Vectors /\ MadeBefore'
  <2>1. \A m \in Memories : version[m] \in Nat /\ version'[m] \in Nat /\ seen[m] \in Nat /\ seen'[m] \in {seen[m], version[m]}
    <3>1. seen' = seen \/ seen' = [m \in Memories |-> IF m \in expired THEN version[m] ELSE seen[m]]
        BY DEF WorkerStep, WorkerEnds, TakeRebuild, TakeUpdate, StartAttempt, BuilderPurges,
               BuilderNotifies, BuilderReads, BuildFails, BuildDiscarded, BuildRetried, PublishRebuild,
               DropUpdate, UpdateFails, PublishUpdate
    <3> QED  BY <1>5, <3>1 DEF Whole, TypeOK, Vectors, Versions
  <2>2. seen' \in Vectors
    <3>1. seen' = seen \/ seen' = [m \in Memories |-> IF m \in expired THEN version[m] ELSE seen[m]]
        BY DEF WorkerStep, WorkerEnds, TakeRebuild, TakeUpdate, StartAttempt, BuilderPurges,
               BuilderNotifies, BuilderReads, BuildFails, BuildDiscarded, BuildRetried, PublishRebuild,
               DropUpdate, UpdateFails, PublishUpdate
    <3> QED  BY <3>1 DEF Whole, TypeOK, Vectors
  <2>3. \A m \in Memories : seen'[m] <= version'[m]
      BY <1>5, <2>1 DEF Whole, MadeBefore
  <2>4. ASSUME NEW c \in Clients, NEW i \in DOMAIN outbox[c]
        PROVE  outbox[c][i].version <= version'[outbox[c][i].id]
    <3>1. outbox[c][i].id \in Memories /\ outbox[c][i].version \in Nat
      <4>1. outbox[c] \in Seq(Event)
          BY DEF Whole, TypeOK
      <4>2. outbox[c][i] \in Event
          BY <4>1
      <4> QED  BY <4>2 DEF Event, Versions
    <3>2. outbox[c][i].version <= version[outbox[c][i].id]
        BY DEF Whole, MadeBefore
    <3> QED  BY <1>5, <2>1, <3>1, <3>2
  <2> QED  BY <1>2, <2>2, <2>3, <2>4 DEF MadeBefore
<1>7. ASSUME NEW u \in Range(work[k])  PROVE u \in Update
  <2>1. work[k] \in Seq(Update)
      BY DEF Whole, TypeOK
  <2> QED  BY <2>1 DEF Range
<1>8. retried' \in [Threads -> BOOLEAN] /\ snapshot' \in [Threads -> Vectors] /\ work' \in [Threads -> Seq(Update)]
  <2>1. Truth \in Vectors
      BY BoundsAssumption DEF Truth, Whole, TypeOK, Vectors, Versions
  <2>2. NoVectors \in Vectors
      BY BoundsAssumption DEF NoVectors, Vectors, Versions
  <2>3. pending # <<>> => <<Head(pending)>> \in Seq(Update)
      BY Taking DEF Whole, TypeOK
  <2>4. <<>> \in Seq(Update)
      OBVIOUS
  <2>5. /\ retried' = retried \/ \E b \in BOOLEAN : retried' = [retried EXCEPT ![k] = b]
        /\ snapshot' = snapshot \/ \E v \in Vectors : snapshot' = [snapshot EXCEPT ![k] = v]
        /\ work' = work \/ \E q \in Seq(Update) : work' = [work EXCEPT ![k] = q]
      BY <2>1, <2>2, <2>3, <2>4 DEF WorkerStep, WorkerEnds, TakeRebuild, TakeUpdate, StartAttempt, BuilderPurges,
             BuilderNotifies, BuilderReads, BuildFails, BuildDiscarded, BuildRetried, PublishRebuild,
             DropUpdate, UpdateFails, PublishUpdate, Returns, Forgets, locals
  <2> QED  BY <2>5 DEF Whole, TypeOK
<1>9. index' \in Vectors /\ built' \in BOOLEAN /\ (built => built')
  <2>1. CASE PublishRebuild(k)
      BY <2>1 DEF PublishRebuild, Whole, TypeOK
  <2>2. CASE PublishUpdate(k)
    <3>1. PICK u \in Range(work[k]) : index' = [index EXCEPT ![u.id] = IF u.upsert THEN u.version ELSE 0]
        BY <2>2 DEF PublishUpdate
    <3>2. u.version \in Versions /\ 0 \in Versions
        BY <1>7, BoundsAssumption DEF Update, Versions
    <3>3. built' = built
        BY <2>2 DEF PublishUpdate
    <3> QED  BY <3>1, <3>2, <3>3 DEF Whole, TypeOK, Vectors
  <2>3. CASE ~PublishRebuild(k) /\ ~PublishUpdate(k)
    <3>1. UNCHANGED <<index, built>>
        BY <2>3 DEF WorkerStep, WorkerEnds, TakeRebuild, TakeUpdate, StartAttempt, BuilderPurges,
               BuilderNotifies, BuilderReads, BuildFails, BuildDiscarded, BuildRetried, DropUpdate,
               UpdateFails, published
    <3> QED  BY <3>1 DEF Whole, TypeOK
  <2> QED  BY <2>1, <2>2, <2>3

<1>10. pending' = pending \/ pending' = <<>> \/ (TakeUpdate(k) /\ pending # <<>> /\ pending' = Tail(pending))
    BY DEF WorkerStep, WorkerEnds, TakeRebuild, TakeUpdate, StartAttempt, BuilderPurges,
           BuilderNotifies, BuilderReads, BuildFails, BuildDiscarded, BuildRetried, PublishRebuild,
           DropUpdate, UpdateFails, PublishUpdate, queue
<1>11. \/ generation' = generation
       \/ generation' = NoVectors /\ pending' = <<>>
       \/ pending' = pending /\ \E m \in Memories : ~IsPending(m) /\ generation' = [generation EXCEPT ![m] = 0]
  <2>1. CASE UpdateFails(k) \/ PublishUpdate(k)
    <3>1. PICK u \in Range(work[k]) : Completed(u)
        BY <2>1 DEF UpdateFails, PublishUpdate
    <3>2. u.id \in Memories /\ pending' = pending
        BY <1>7, <2>1 DEF Update, UpdateFails, PublishUpdate
    <3> QED  BY <3>1, <3>2 DEF Completed
  <2>2. CASE ~UpdateFails(k) /\ ~PublishUpdate(k)
      BY <2>2 DEF WorkerStep, WorkerEnds, TakeRebuild, TakeUpdate, StartAttempt, BuilderPurges,
             BuilderNotifies, BuilderReads, BuildFails, BuildDiscarded, BuildRetried, PublishRebuild,
             DropUpdate, queue
  <2> QED  BY <2>1, <2>2
<1>12. pending' \in Seq(Update) /\ generation' \in [Memories -> Nat]
  <2>1. pending \in Seq(Update) /\ generation \in [Memories -> Nat] /\ <<>> \in Seq(Update)
      BY DEF Whole, TypeOK
  <2>2. pending # <<>> => Tail(pending) \in Seq(Update)
      BY <2>1, Taking
  <2>3. NoVectors \in [Memories -> Nat] /\ \A m \in Memories : [generation EXCEPT ![m] = 0] \in [Memories -> Nat]
      BY <2>1 DEF NoVectors
  <2>4. generation' \in [Memories -> Nat]
      BY <1>11, <2>1, <2>3
  <2>5. pending' \in Seq(Update)
      BY <1>10, <2>1, <2>2
  <2> QED  BY <2>4, <2>5
<1>13. /\ failed' \subseteq Memories /\ missed' \subseteq Memories
       /\ updateError' \in BOOLEAN /\ rebuildError' \in BOOLEAN /\ (failed' # {} => updateError')
  <2>1. /\ failed \subseteq Memories /\ missed \subseteq Memories /\ stopped \in BOOLEAN
        /\ updateError \in BOOLEAN /\ rebuildError \in BOOLEAN /\ (failed # {} => updateError)
      BY DEF Whole, TypeOK, Reported
  <2>2. CASE UpdateFails(k)
    <3>1. PICK u \in Range(work[k]) : MarkFailed(u.id) /\ missed' = missed \cup Unkept({u.id})
        BY <2>2 DEF UpdateFails
    <3>2. u.id \in Memories
        BY <1>7 DEF Update
    <3>3. rebuildError' = rebuildError
        BY <2>2 DEF UpdateFails
    <3> QED  BY <2>1, <3>1, <3>2, <3>3 DEF MarkFailed, Unkept
  <2>3. CASE PublishUpdate(k)
    <3>1. PICK u \in Range(work[k]) : MarkSucceeded(u.id)
        BY <2>3 DEF PublishUpdate
    <3>2. rebuildError' = rebuildError /\ missed' = missed
        BY <2>3 DEF PublishUpdate
    <3> QED  BY <2>1, <3>1, <3>2 DEF MarkSucceeded
  <2>4. CASE ~UpdateFails(k) /\ ~PublishUpdate(k)
      BY <2>1, <2>4 DEF WorkerStep, WorkerEnds, TakeRebuild, TakeUpdate, StartAttempt, BuilderPurges,
             BuilderNotifies, BuilderReads, BuildFails, BuildDiscarded, BuildRetried, PublishRebuild,
             DropUpdate, errors
  <2> QED  BY <2>2, <2>3, <2>4
<1>14. TypeOK'
    BY <1>2, <1>3, <1>5, <1>6, <1>8, <1>9, <1>12, <1>13 DEF Whole, TypeOK, IInv, Typed
<1>15. Dictionary'
  <2>1. /\ pending \in Seq(Update) /\ generation \in [Memories -> Nat]
        /\ \A i, j \in DOMAIN pending : pending[i].id = pending[j].id => i = j
        /\ \A i \in DOMAIN pending : pending[i].generation = generation[pending[i].id]
      BY DEF Whole, TypeOK, Dictionary
  <2>2. \A i, j \in DOMAIN pending' : pending'[i].id = pending'[j].id => i = j
    <3>1. CASE pending' = Tail(pending) /\ pending # <<>>
      <4>1. /\ \A i \in DOMAIN pending' : i + 1 \in DOMAIN pending /\ pending'[i] = pending[i + 1]
            /\ pending' \in Seq(Update)
          BY <2>1, <3>1, Taking
      <4> QED  BY <2>1, <4>1
    <3> QED  BY <1>10, <2>1, <3>1
  <2>3. ASSUME NEW i \in DOMAIN pending'  PROVE pending'[i].generation = generation'[pending'[i].id]
    <3>1. PICK j \in DOMAIN pending : pending'[i] = pending[j]
      <4>1. CASE pending' = Tail(pending) /\ pending # <<>>
          BY <2>1, <2>3, <4>1, Taking
      <4> QED  BY <1>10, <2>3, <4>1
    <3>2. pending[j] \in Update /\ pending[j].generation = generation[pending[j].id]
        BY <2>1
    <3>3. generation'[pending[j].id] = generation[pending[j].id]
        BY <1>11, <2>1, <2>3, <3>2 DEF IsPending, Update
    <3> QED  BY <3>1, <3>2, <3>3
  <2>4. pending' # <<>> => built'
      BY <1>9, <1>10 DEF Whole, Dictionary
  <2>5. stage'[k] \in Building => pending' = <<>>
    <3>1. stage[k] \in Building => pending = <<>>
        BY DEF Whole, Dictionary
    <3> QED  BY <1>2, <3>1 DEF Whole, TypeOK, WorkerStep, WorkerEnds, TakeRebuild, TakeUpdate, StartAttempt, BuilderPurges,
             BuilderNotifies, BuilderReads, BuildFails, BuildDiscarded, BuildRetried, PublishRebuild,
             DropUpdate, UpdateFails, PublishUpdate, Goes, Returns, Building, queue
  <2> QED  BY <1>4, <2>2, <2>3, <2>4, <2>5 DEF Dictionary, Building
<1>16. Taken'
  <2>1. ASSUME stage'[k] = "update"
        PROVE  built' /\ \E u \in Range(work'[k]) : work'[k] = <<u>> /\ u.generation <= generation'[u.id]
    <3>1. TakeUpdate(k)
        BY <2>1 DEF Whole, TypeOK, WorkerStep, WorkerEnds, TakeRebuild, TakeUpdate, StartAttempt, BuilderPurges,
             BuilderNotifies, BuilderReads, BuildFails, BuildDiscarded, BuildRetried, PublishRebuild,
             DropUpdate, UpdateFails, PublishUpdate, Goes, Returns
    <3> DEFINE u == Head(pending)
    <3>2. pending # <<>> /\ work' = [work EXCEPT ![k] = <<u>>] /\ generation' = generation
        BY <3>1 DEF TakeUpdate
    <3>3. u = pending[1] /\ 1 \in DOMAIN pending /\ u \in Update
        BY <3>2, Taking DEF Whole, TypeOK
    <3>4. u.generation = generation[u.id] /\ built
        BY <3>2, <3>3 DEF Whole, Dictionary
    <3>5. u.generation \in Nat
        BY <3>3 DEF Update
    <3> HIDE DEF u
    <3>6. work'[k] = <<u>>
        BY <3>2 DEF Whole, TypeOK
    <3>7. u \in Range(work'[k])
        BY <3>6 DEF Range
    <3> QED  BY <1>9, <3>2, <3>4, <3>5, <3>6, <3>7
  <2> QED  BY <1>4, <2>1 DEF Taken
<1>17. Reported'
  <2>1. worker' = NoThread => stopped \/ (~rebuilding' /\ pending' = <<>>)
      BY <1>1, NoThreadIsNone DEF WorkerStep, WorkerEnds, TakeRebuild, TakeUpdate, StartAttempt, BuilderPurges,
             BuilderNotifies, BuilderReads, BuildFails, BuildDiscarded, BuildRetried, PublishRebuild,
             DropUpdate, UpdateFails, PublishUpdate, queue
  <2> QED  BY <1>2, <1>13, <2>1 DEF Reported
<1> QED  BY <1>5, <1>6, <1>14, <1>15, <1>16, <1>17 DEF Whole

LEMMA OthersWhole ==
    ASSUME Whole, (\E m \in Memories : FallDue(m)) \/ Shutdown \/ UNCHANGED vars
    PROVE  Whole'
<1>1. CASE \E m \in Memories : FallDue(m)
  <2>1. /\ due' \subseteq live'
        /\ UNCHANGED <<version, live, expired, outbox, launching, for, index, built, rebuilding, dirty, stopped,
                       worker, pending, generation, failed, missed, updateError, rebuildError, stage, retried,
                       snapshot, work, refreshes, seen>>
      BY <1>1 DEF FallDue, Whole, TypeOK, calls, published, queue, errors, locals
  <2> QED  BY <2>1 DEF Whole, TypeOK, Numbered, Dictionary, Taken, Reported, MadeBefore
<1>2. CASE Shutdown
  <2>1. /\ stopped' = TRUE /\ pending' = <<>> /\ generation' = NoVectors /\ failed' = {}
        /\ UNCHANGED <<version, live, due, expired, outbox, launching, for, index, built, rebuilding, dirty,
                       worker, missed, updateError, rebuildError, stage, retried, snapshot, work, refreshes, seen>>
      BY <1>2 DEF Shutdown, memory, calls, published, locals
  <2>2. pending' \in Seq(Update) /\ generation' \in [Memories -> Nat]
      BY <2>1 DEF NoVectors
  <2>3. TypeOK'
      BY <2>1, <2>2 DEF Whole, TypeOK
  <2> QED  BY <2>1, <2>3 DEF Whole, Numbered, Dictionary, Taken, Reported, MadeBefore
<1>3. CASE UNCHANGED vars
    BY <1>3 DEF Whole, TypeOK, Numbered, Dictionary, Taken, Reported, MadeBefore, vars, memory, calls, published,
                queue, errors, locals
<1> QED  BY <1>1, <1>2, <1>3

LEMMA NextWhole == IInv /\ Whole /\ [Next]_vars => Whole'
BY ManagerWhole, AnnounceWhole, CallWhole, WorkerWhole, OthersWhole DEF Next

\* The types, and what the queue and the index are made of, hold of every
\* reachable state.
THEOREM InductiveWhole == Spec => [](IInv /\ Whole)
<1>1. IInv /\ Whole /\ [Next]_vars => IInv' /\ Whole'
    BY NextWhole, ManagerKeeps, AnnounceKeeps, CallKeeps, WorkerKeeps, OthersKeep DEF Next
<1> QED  BY InitIInv, InitWhole, <1>1, PTL DEF Spec

\* The type invariant, for any records, clients and capacity.
THEOREM Typing == Spec => []TypeOK
BY InductiveWhole, PTL DEF Whole

----------------------------------------------------------------------------
(* What is true when the changes come from one client: it announces a      *)
(* change before it makes the next, so that the runtime is told of the     *)
(* changes in the order they are made.                                     *)

OneClient == \A c, d \in Clients : c = d

Says(u) == u.version = version[u.id] /\ (u.upsert <=> u.id \in live)
Latest(u) == u.version >= seen[u.id] /\ (Says(u) \/ Announcements(u.id) # {})
Counts(m) == m \notin expired \cup missed

\* An event that has not been emitted yet tells of the record as it is.
EventsTrue ==
    \A c \in Clients : \A i \in DOMAIN outbox[c] : outbox[c][i].id \notin expired => Says(outbox[c][i])

\* A pending update is the latest its record was announced with.  One that a
\* rebuild will clear need not be, once the thread that rebuilds is started.
PendingLatest ==
    (rebuilding => \E c \in Clients : launching[c] # NoThread) =>
        \A i \in DOMAIN pending : Counts(pending[i].id) => Latest(pending[i])

WorkLatest ==
    \A k \in Threads : \A u \in Range(work[k]) :
        Updating(k, u) /\ IsCurrent(u) /\ Counts(u.id) => Latest(u)

\* What a builder read is not older than what the runtime was told of.
SnapshotLatest ==
    \A k \in Threads : stage[k] = "build" /\ ~stopped /\ ~dirty =>
        \A m \in Memories : snapshot[k][m] # 0 => snapshot[k][m] >= seen[m]

InFlight(m) == \E k \in Threads : \E u \in Range(work[k]) : Updating(k, u) /\ IsCurrent(u) /\ u.id = m

\* A record that the index does not hold as it is has failed, is to be
\* announced, is pending or is in flight.
IndexLatest ==
    built /\ ~stopped /\ ~rebuilding /\ ~rebuildError =>
        \A m \in Memories : Counts(m) =>
            m \in failed \/ Announcements(m) # {} \/ IsPending(m) \/ InFlight(m) \/ index[m] = Truth[m]

Single == EventsTrue /\ PendingLatest /\ WorkLatest /\ SnapshotLatest /\ IndexLatest

LEMMA InitSingle == Init => Single
BY DEF Init, Single, EventsTrue, PendingLatest, WorkLatest, Updating, SnapshotLatest, IndexLatest

LEMMA Entries ==
    ASSUME Whole
    PROVE  /\ \A i \in DOMAIN pending : pending[i] \in Update
           /\ \A k \in Threads : \A u \in Range(work[k]) : u \in Update
           /\ \A c \in Clients : \A i \in DOMAIN outbox[c] : outbox[c][i] \in Event
<1>1. pending \in Seq(Update) /\ (\A k \in Threads : work[k] \in Seq(Update)) /\ \A c \in Clients : outbox[c] \in Seq(Event)
    BY DEF Whole, TypeOK
<1> QED  BY <1>1 DEF Range

LEMMA ManagerSingle ==
    ASSUME OneClient, Whole, Single, NEW c \in Clients, ManagerStep(c)
    PROVE  Single'
<1>1. PICK ms \in SUBSET Memories, events \in Seq(Event) : Changes(c, ms, events)
    BY ManagerChanges
<1>2. Rests(c) /\ UNCHANGED <<launching, index, built, rebuilding, dirty, stopped, pending, generation, failed,
                  missed, rebuildError, stage, snapshot, work, seen>>
    BY DEF ManagerStep, Add, UpdateRecord, Write, Delete, Clear, Erase, Purge, Announces, published, queue,
           errors, locals
<1>3. ASSUME NEW m \in Memories, Announcements(m)' = {}
      PROVE  /\ Announcements(m) = {} /\ version'[m] = version[m] /\ (m \in live' <=> m \in live)
  <2>1. Announcements(m) = {} /\ \A i \in DOMAIN events : events[i].id # m
    <3>1. DOMAIN outbox = Clients
        BY DEF Whole, TypeOK
    <3>2. Announces(c, events) /\ Rests(c)
        BY <1>1, <1>2 DEF Changes
    <3> QED  BY <1>3, <3>1, <3>2, AnnouncingKeeps
  <2> QED  BY <1>1, <2>1 DEF Changes
<1>4. ASSUME NEW u \in Update, Latest(u)  PROVE Latest(u)'
  <2>1. u.id \in Memories
      BY DEF Update
  <2> QED  BY <1>2, <1>3, <1>4, <2>1 DEF Latest, Says
<1>5. \A m : Counts(m)' => Counts(m)
    BY <1>1, <1>2 DEF Changes, Counts
<1>6. EventsTrue'
  <2>1. outbox' = [outbox EXCEPT ![c] = events]
      BY <1>1 DEF Changes, Announces
  <2>2. outbox'[c] = events /\ \A d \in Clients : d = c
      BY <2>1 DEF OneClient, Whole, TypeOK
  <2> QED  BY <1>1, <2>2 DEF EventsTrue, Says, Changes
<1>7. PendingLatest'
    BY <1>2, <1>4, <1>5, Entries DEF Single, PendingLatest
<1>8. WorkLatest'
    BY <1>2, <1>4, <1>5, Entries DEF Single, WorkLatest, Updating, IsCurrent
<1>9. SnapshotLatest'
    BY <1>2 DEF Single, SnapshotLatest
<1>10. IndexLatest'
  <2>1. \A m \in Memories : Announcements(m)' = {} => Announcements(m) = {} /\ Truth'[m] = Truth[m]
      BY <1>3 DEF Truth
  <2>2. \A m : IsPending(m)' <=> IsPending(m)
      BY <1>2 DEF IsPending
  <2>3. \A m : InFlight(m)' <=> InFlight(m)
      BY <1>2 DEF InFlight, Updating, IsCurrent
  <2> QED  BY <1>2, <1>5, <2>1, <2>2, <2>3 DEF Single, IndexLatest
<1> QED  BY <1>6, <1>7, <1>8, <1>9, <1>10 DEF Single

\* What the client had announced is heard; the others of its events remain.
LEMMA AnnounceSingle ==
    ASSUME OneClient, IInv, Whole, Single, NEW c \in Clients, AnnounceStep(c)
    PROVE  Single'
<1>1. /\ Announcing(c) /\ Saw(Announced(c)) /\ outbox' = [outbox EXCEPT ![c] = Unannounced(c)]
      /\ UNCHANGED <<version, live, expired, index, built, rebuilding, stopped, rebuildError, snapshot, work>>
    BY DEF AnnounceStep, EventIgnored, EventDirties, EventRejected, EventQueued, Takes, Announces, errors,
           memory, published, locals
<1>0. Announced(c) \in Event
    BY <1>1, Hears
<1> PICK e \in Event : e = Announced(c)
    BY <1>0
<1>2. /\ 1 \in DOMAIN outbox[c] /\ e = outbox[c][1]
      /\ \A d \in Clients : \A i \in DOMAIN outbox'[d] : \E j \in DOMAIN outbox[d] : outbox'[d][i] = outbox[d][j]
      /\ \A d \in Clients : \A j \in DOMAIN outbox[d] :
            (d = c /\ j = 1) \/ \E i \in DOMAIN outbox'[d] : outbox'[d][i] = outbox[d][j]
      /\ \A m \in Memories : seen'[m] = IF m = e.id THEN Newest(seen[m], e.version) ELSE seen[m]
  <2>1. outbox' = [outbox EXCEPT ![c] = Unannounced(c)] /\ version' = version /\ Announcing(c) /\ Saw(Announced(c))
      BY <1>1
  <2>2. /\ 1 \in DOMAIN outbox[c] /\ Announced(c) = outbox[c][1]
        /\ \A d \in Clients : \A i \in DOMAIN outbox'[d] : \E j \in DOMAIN outbox[d] : outbox'[d][i] = outbox[d][j]
        /\ \A d \in Clients : \A j \in DOMAIN outbox[d] :
              (d = c /\ j = 1) \/ \E i \in DOMAIN outbox'[d] : outbox'[d][i] = outbox[d][j]
        /\ \A m \in Memories : seen'[m] = IF m = Announced(c).id THEN Newest(seen[m], Announced(c).version)
                                           ELSE seen[m]
      BY <2>1, Hears
  <2> QED  BY <2>2
<1>3. EventsTrue'
    BY <1>1, <1>2 DEF Single, EventsTrue, Says
<1>4. ASSUME NEW m \in Memories, m # e.id  PROVE Announcements(m)' = Announcements(m)
  <2>1. ASSUME NEW d \in Clients, NEW j \in DOMAIN outbox[d], outbox[d][j].id = m
        PROVE  \E i \in DOMAIN outbox'[d] : outbox'[d][i].id = m
      BY <1>2, <1>4, <2>1
  <2>2. ASSUME NEW d \in Clients, NEW i \in DOMAIN outbox'[d], outbox'[d][i].id = m
        PROVE  \E j \in DOMAIN outbox[d] : outbox[d][j].id = m
      BY <1>2, <2>2
  <2> QED  BY <2>1, <2>2 DEF Announcements
<1>5. ASSUME NEW u \in Update, u.id # e.id, Latest(u)  PROVE Latest(u)'
  <2>1. u.id \in Memories
      BY DEF Update
  <2> QED  BY <1>1, <1>2, <1>4, <1>5, <2>1 DEF Latest, Says
<1>6. CASE EventIgnored(c)
  <2>1. stopped \/ (~rebuilding /\ ~built)
      BY <1>6 DEF EventIgnored
  <2>2. UNCHANGED <<pending, generation, stage>>
      BY <1>6 DEF EventIgnored, queue
  <2>3. pending = <<>> /\ \A k \in Threads : ~stopped => stage[k] \notin {"update", "build"}
      BY <2>1 DEF IInv, NothingPendingAfterStop, BuildsInRebuild, Building, Whole, Dictionary, Taken
  <2>4. PendingLatest' /\ SnapshotLatest' /\ IndexLatest'
      BY <1>1, <2>1, <2>2, <2>3 DEF PendingLatest, SnapshotLatest, IndexLatest
  <2>5. WorkLatest'
      BY <1>1, <2>2, <2>3 DEF WorkLatest, Updating, IsCurrent
  <2> QED  BY <1>3, <2>4, <2>5 DEF Single
<1>7. CASE EventDirties(c)
  <2>1. rebuilding /\ dirty' = TRUE /\ UNCHANGED <<launching, stage>>
      BY <1>7 DEF EventDirties, Announces
  <2>2. \A d \in Clients : launching[d] = NoThread
      BY <1>1 DEF OneClient, Announcing
  <2> QED  BY <1>1, <1>3, <2>1, <2>2 DEF Single, PendingLatest, WorkLatest, IsCurrent, SnapshotLatest, IndexLatest
<1>8. CASE EventRejected(c) \/ EventQueued(c)
  <2>1. /\ ~stopped /\ ~rebuilding /\ built
        /\ \A k \in Threads : stage[k] \notin Building
        /\ \A k \in Threads : stage'[k] = "update" => stage[k] = "update"
        /\ \A k \in Threads : stage[k] = "update" => stage'[k] = "update"
        /\ \A k \in Threads : stage'[k] \notin Building
    <3>1. ~stopped /\ ~rebuilding /\ built /\ \A k \in Threads : stage[k] \notin Building
        BY <1>8 DEF EventRejected, EventQueued, Takes, IInv, BuildsInRebuild
    <3>2. CASE EventRejected(c)
        BY <3>1, <3>2 DEF EventRejected
    <3>3. CASE EventQueued(c)
      <4>1. \A k \in Threads : stage'[k] = stage[k] \/ (stage[k] = "ended" /\ stage'[k] = "made")
        <5>1. {e.id} \in SUBSET Memories
            BY <1>2 DEF Event
        <5>2. MakesWorker(c, {e.id})
            BY <3>3 DEF EventQueued
        <5> QED  BY <5>1, <5>2, MakesIs
      <4> QED  BY <3>1, <4>1 DEF Building
    <3> QED  BY <1>8, <3>1, <3>2, <3>3
  <2>2. SnapshotLatest'
      BY <2>1 DEF SnapshotLatest, Building
  <2>3. Single => PendingLatest /\ WorkLatest /\ IndexLatest
      BY DEF Single
  <2>4. ASSUME EventRejected(c)  PROVE PendingLatest' /\ WorkLatest' /\ IndexLatest'
    <3>1. missed' = missed \cup {e.id} /\ failed \subseteq failed' /\ UNCHANGED <<pending, generation>>
        BY <2>4 DEF EventRejected, MarkFailed, queue
    <3>2. \A m : Counts(m)' => Counts(m) /\ m # e.id
        BY <1>1, <3>1 DEF Counts
    <3>3. PendingLatest'
        BY <1>5, <2>1, <2>3, <3>1, <3>2, Entries DEF PendingLatest
    <3>4. WorkLatest'
        BY <1>1, <1>5, <2>1, <2>3, <3>1, <3>2, Entries DEF WorkLatest, Updating, IsCurrent
    <3>5. \A m : IsPending(m)' <=> IsPending(m)
        BY <3>1 DEF IsPending
    <3>6. \A m : InFlight(m)' <=> InFlight(m)
        BY <1>1, <2>1, <3>1 DEF InFlight, Updating, IsCurrent
    <3>7. \A m \in Memories : Truth'[m] = Truth[m]
        BY <1>1 DEF Truth
    <3>8. IndexLatest'
        BY <1>1, <1>4, <2>1, <2>3, <3>1, <3>2, <3>5, <3>6, <3>7 DEF IndexLatest
    <3> QED  BY <3>3, <3>4, <3>8
  <2>5. ASSUME EventQueued(c)  PROVE PendingLatest' /\ WorkLatest' /\ IndexLatest'
    <3>1. /\ generation' = [generation EXCEPT ![e.id] = generation[e.id] + 1]
          /\ UNCHANGED <<failed, missed>>
        BY <2>5 DEF EventQueued, errors
    <3>2. [id |-> e.id, version |-> e.version, upsert |-> e.upsert, generation |-> generation[e.id] + 1] \in Update
        BY DEF Event, Update, Whole, TypeOK
    <3>0. PICK new \in Update : /\ new = [id |-> e.id, version |-> e.version, upsert |-> e.upsert,
                                         generation |-> generation[e.id] + 1]
                                /\ pending' = Append(Without(e.id), new)
        BY <2>5, <3>2 DEF EventQueued
    <3>3. new \in Update /\ new.id = e.id /\ new.version = e.version /\ new.upsert = e.upsert
        BY <3>0
    <3>4. /\ \A i \in DOMAIN pending' : pending'[i] = new
                \/ \E j \in DOMAIN pending : pending'[i] = pending[j] /\ pending[j].id # e.id
          /\ \A j \in DOMAIN pending : pending[j].id # e.id => \E i \in DOMAIN pending' : pending'[i] = pending[j]
          /\ \E i \in DOMAIN pending' : pending'[i] = new
      <4>1. pending \in Seq(Update) /\ \A i, j \in DOMAIN pending : pending[i].id = pending[j].id => i = j
          BY DEF Whole, TypeOK, Dictionary
      <4>2. pending' = Append(Without(new.id), new)
          BY <3>0, <3>3
      <4>3. new \in Update
          BY <3>3
      <4>4. /\ \A i \in DOMAIN pending' : pending'[i] = new
                  \/ \E j \in DOMAIN pending : pending'[i] = pending[j] /\ pending[j].id # new.id
            /\ \A j \in DOMAIN pending : pending[j].id # new.id => \E i \in DOMAIN pending' : pending'[i] = pending[j]
            /\ \E i \in DOMAIN pending' : pending'[i] = new
          BY <4>1, <4>2, <4>3, Replaced
      <4> QED  BY <3>3, <4>4
    <3>5. \A m : Counts(m)' => Counts(m)
        BY <1>1, <3>1 DEF Counts
    <3>6. ASSUME e.id \notin expired  PROVE Latest(new)'
      <4>1. e.id \in Memories /\ e.version \in Nat /\ seen[e.id] \in Nat /\ seen[e.id] <= version[e.id]
          BY <1>2 DEF Event, Versions, Whole, TypeOK, Vectors, MadeBefore
      <4>2. Says(e)
          BY <1>2, <3>6 DEF Single, EventsTrue
      <4>3. seen'[e.id] = e.version
          BY <1>2, <4>1, <4>2 DEF Newest, Says
      <4>4. Says(new)'
          BY <1>1, <3>3, <4>2 DEF Says
      <4>5. new.version >= seen'[new.id]
          BY <3>3, <4>1, <4>3
      <4> QED  BY <4>4, <4>5 DEF Latest
    <3>7. PendingLatest'
      <4> SUFFICES ASSUME NEW i \in DOMAIN pending', Counts(pending[i].id)'  PROVE Latest(pending[i])'
          BY DEF PendingLatest
      <4>1. CASE pending'[i] = new
          BY <1>1, <3>3, <3>6, <4>1 DEF Counts
      <4>2. CASE pending'[i] # new
        <5>1. PICK j \in DOMAIN pending : pending'[i] = pending[j] /\ pending[j].id # e.id
            BY <3>4, <4>2
        <5>2. Latest(pending[j]) /\ pending[j] \in Update
            BY <2>1, <2>3, <3>5, <5>1, Entries DEF PendingLatest
        <5>3. PICK u \in Update : u = pending[j]
            BY <5>2
        <5>4. Latest(u)'
            BY <1>5, <5>1, <5>2, <5>3
        <5> QED  BY <5>1, <5>3, <5>4
      <4> QED  BY <4>1, <4>2
    <3>8. ASSUME NEW k \in Threads, NEW u \in Range(work[k]), Updating(k, u)', IsCurrent(u)'
          PROVE  Updating(k, u) /\ IsCurrent(u) /\ u.id # e.id
      <4>1. u \in Update /\ generation \in [Memories -> Nat]
          BY Entries DEF Whole, TypeOK
      <4>2. Updating(k, u)
          BY <1>1, <2>1, <3>8 DEF Updating
      <4>3. u.generation <= generation[u.id]
          BY <2>1, <4>2 DEF Updating, Whole, Taken
      <4>4. u.generation = generation'[u.id]
          BY <3>8 DEF IsCurrent
      <4>5. u.id # e.id
          BY <3>1, <4>1, <4>3, <4>4 DEF Update
      <4> QED  BY <2>1, <3>1, <4>1, <4>2, <4>4, <4>5 DEF IsCurrent, Update
    <3>9. WorkLatest'
      <4> SUFFICES ASSUME NEW k \in Threads, NEW u \in Range(work[k]), Updating(k, u)', IsCurrent(u)', Counts(u.id)'
                   PROVE  Latest(u)'
          BY <1>1 DEF WorkLatest
      <4> QED  BY <1>5, <2>3, <3>5, <3>8, Entries DEF WorkLatest
    <3>10. ASSUME NEW m \in Memories, m # e.id  PROVE (IsPending(m) => IsPending(m)') /\ (InFlight(m) => InFlight(m)')
      <4>1. IsPending(m) => IsPending(m)'
          BY <3>4, <3>10 DEF IsPending
      <4>2. generation'[m] = generation[m]
          BY <3>1, <3>10 DEF Whole, TypeOK
      <4>3. InFlight(m) => InFlight(m)'
          BY <1>1, <2>1, <4>2 DEF InFlight, Updating, IsCurrent
      <4> QED  BY <4>1, <4>3
    <3>11. IsPending(e.id)'
        BY <3>3, <3>4 DEF IsPending
    <3>12. \A m \in Memories : Truth'[m] = Truth[m]
        BY <1>1 DEF Truth
    <3>13. IndexLatest'
      <4> SUFFICES ASSUME built, ~stopped, ~rebuilding, ~rebuildError, NEW m \in Memories, Counts(m)', m # e.id
                   PROVE  \/ m \in failed' \/ Announcements(m)' # {} \/ IsPending(m)' \/ InFlight(m)'
                          \/ index'[m] = Truth'[m]
          BY <1>1, <3>11 DEF IndexLatest
      <4>1. m \in failed \/ Announcements(m) # {} \/ IsPending(m) \/ InFlight(m) \/ index[m] = Truth[m]
          BY <2>3, <3>5 DEF IndexLatest
      <4> QED  BY <1>1, <1>4, <3>1, <3>10, <3>12, <4>1
    <3> QED  BY <3>7, <3>9, <3>13
  <2> QED  BY <1>3, <1>8, <2>2, <2>4, <2>5 DEF Single
<1> QED  BY <1>6, <1>7, <1>8 DEF AnnounceStep

\* A client that asks for a rebuild or starts a thread makes no change.
LEMMA CallSingle ==
    ASSUME IInv, Whole, Single, NEW c \in Clients, StartRefresh(c) \/ LaunchStep(c)
    PROVE  Single'
<1>1. UNCHANGED <<version, live, expired, outbox, index, built, stopped, pending, generation, snapshot, work, seen>>
    BY DEF StartRefresh, LaunchStep, Launch, RefreshUnlaunched, UpdateUnlaunched, Launched, memory, published,
           queue, locals
<1>2. EventsTrue'
    BY <1>1 DEF Single, EventsTrue, Says
<1>3. \A u \in Update : Latest(u)' <=> Latest(u)
    BY <1>1 DEF Latest, Says, Announcements
<1>4. missed \subseteq missed'
    BY DEF StartRefresh, LaunchStep, Launch, RefreshUnlaunched, UpdateUnlaunched, errors
<1>5. \A m : Counts(m)' => Counts(m)
    BY <1>1, <1>4 DEF Counts
<1>6. PendingLatest'
  <2>1. ~rebuilding \/ \E d \in Clients : launching[d] # NoThread
      BY DEF StartRefresh, LaunchStep, Launch, RefreshUnlaunched, UpdateUnlaunched, Launched
  <2>2. \A i \in DOMAIN pending : Counts(pending[i].id) => Latest(pending[i]) /\ pending[i] \in Update
      BY <2>1, Entries DEF Single, PendingLatest
  <2> QED  BY <1>1, <1>3, <1>5, <2>2 DEF PendingLatest
<1>7. CASE StartRefresh(c)
  <2>1. ~rebuilding /\ rebuilding' = TRUE /\ MakesWorker(c, {})
      BY <1>7 DEF StartRefresh
  <2>2. \A k \in Threads : stage'[k] # "build"
      BY <2>1, MakesIs DEF IInv, BuildsInRebuild, Building
  <2> QED  BY <1>2, <1>6, <2>1, <2>2 DEF Single, WorkLatest, IsCurrent, SnapshotLatest, IndexLatest
<1>8. CASE LaunchStep(c)
  <2>1. \A k \in Threads : stage[k] \in {"made", "ended"} /\ stage'[k] \in {"top", "ended"}
    <3>1. launching[c] \in Threads /\ stage[launching[c]] = "made"
        BY <1>8 DEF LaunchStep, Launch, RefreshUnlaunched, UpdateUnlaunched, Launched, IInv, Typed, LaunchesOwn
    <3>2. \A k \in Threads : k # launching[c] => stage[k] = "ended"
        BY <3>1 DEF IInv, OneWorker, Running
    <3>3. \E at \in {"top", "ended"} : stage' = [stage EXCEPT ![launching[c]] = at]
        BY <1>8 DEF LaunchStep, Launch, RefreshUnlaunched, UpdateUnlaunched, Launched
    <3> QED  BY <3>1, <3>2, <3>3 DEF Whole, TypeOK
  <2>2. WorkLatest' /\ SnapshotLatest'
      BY <2>1 DEF WorkLatest, Updating, SnapshotLatest
  <2>3. IndexLatest'
    <3>1. ~stopped /\ ~rebuilding' /\ ~rebuildError' => ~rebuilding /\ ~rebuildError /\ failed \subseteq failed'
      <4>1. CASE Launch(c) \/ RefreshUnlaunched(c)
          BY <4>1 DEF Launch, RefreshUnlaunched, errors
      <4>2. CASE UpdateUnlaunched(c)
          BY <4>2 DEF UpdateUnlaunched, MarkFailed, errors
      <4> QED  BY <1>8, <4>1, <4>2 DEF LaunchStep
    <3>2. \A m : ~InFlight(m)
        BY <2>1 DEF InFlight, Updating
    <3>3. \A m \in Memories : Announcements(m)' = Announcements(m) /\ Truth'[m] = Truth[m]
        BY <1>1 DEF Announcements, Truth
    <3>4. \A m : IsPending(m)' <=> IsPending(m)
        BY <1>1 DEF IsPending
    <3> QED  BY <1>1, <1>5, <3>1, <3>2, <3>3, <3>4 DEF Single, IndexLatest
  <2> QED  BY <1>2, <1>6, <2>2, <2>3 DEF Single
<1> QED  BY <1>7, <1>8

\* The worker changes what is announced of a record that expires only.
LEMMA WorkerSingle ==
    ASSUME IInv, Whole, Single, NEW k \in Threads, WorkerStep(k)
    PROVE  Single'
<1> DEFINE Builds == \/ StartAttempt(k) \/ BuilderPurges(k) \/ BuilderNotifies(k) \/ BuilderReads(k)
                     \/ BuildFails(k) \/ BuildDiscarded(k) \/ BuildRetried(k) \/ PublishRebuild(k)
           Updates == DropUpdate(k) \/ UpdateFails(k) \/ PublishUpdate(k)
<1>1. stage[k] \notin {"ended", "made"} /\ worker = k /\ \A j \in Threads : j # k => stage[j] = "ended"
    BY DEF WorkerStep, WorkerEnds, TakeRebuild, TakeUpdate, StartAttempt, BuilderPurges,
           BuilderNotifies, BuilderReads, BuildFails, BuildDiscarded, BuildRetried, PublishRebuild,
           DropUpdate, UpdateFails, PublishUpdate, Updating, OneWorker, Running, IInv
<1>2. /\ UNCHANGED <<launching, outbox, stopped>>
      /\ \E at \in Stage : stage' = [stage EXCEPT ![k] = at]
    BY DEF WorkerStep, WorkerEnds, TakeRebuild, TakeUpdate, StartAttempt, BuilderPurges,
           BuilderNotifies, BuilderReads, BuildFails, BuildDiscarded, BuildRetried, PublishRebuild,
           DropUpdate, UpdateFails, PublishUpdate, Goes, Returns, Stage, calls
<1>3. \A j \in Threads : j # k => stage'[j] = "ended"
    BY <1>1, <1>2 DEF Whole, TypeOK
<1>4. \A c \in Clients : launching[c] = NoThread
    BY <1>1 DEF IInv, Typed, LaunchesOwn
<1>5. Whole'
    BY WorkerWhole
<1>6. /\ Builds => stage[k] \in Building /\ rebuilding /\ pending = <<>>
      /\ Updates => stage[k] = "update"
      /\ WorkerEnds(k) \/ TakeRebuild(k) \/ TakeUpdate(k) => stage[k] = "top"
    BY DEF StartAttempt, BuilderPurges, BuilderNotifies, BuilderReads, BuildFails, BuildDiscarded, BuildRetried,
           PublishRebuild, DropUpdate, UpdateFails, PublishUpdate, Updating, WorkerEnds, TakeRebuild, TakeUpdate,
           Building, IInv, BuildsInRebuild, Whole, Dictionary
<1>7. WorkerStep(k) => Builds \/ Updates \/ WorkerEnds(k) \/ TakeRebuild(k) \/ TakeUpdate(k)
    BY DEF WorkerStep
<1>8. ~Builds => UNCHANGED <<version, live, expired, seen, rebuilding, rebuildError, built>> /\ missed \subseteq missed'
    BY DEF WorkerStep, WorkerEnds, TakeRebuild, TakeUpdate, DropUpdate, UpdateFails, PublishUpdate, memory,
           published, errors
<1>9. EventsTrue'
  <2>1. \A m \in Memories : m \notin expired' => m \notin expired /\ version'[m] = version[m] /\ (m \in live' <=> m \in live)
    <3>1. CASE BuilderPurges(k)
        BY <3>1 DEF BuilderPurges, Purged, Bumped
    <3>2. CASE ~BuilderPurges(k)
        BY <3>2 DEF WorkerStep, WorkerEnds, TakeRebuild, TakeUpdate, StartAttempt, BuilderNotifies, BuilderReads,
               BuildFails, BuildDiscarded, BuildRetried, PublishRebuild, DropUpdate, UpdateFails,
               PublishUpdate, memory
    <3> QED  BY <3>1, <3>2
  <2>2. \A c \in Clients : \A i \in DOMAIN outbox[c] : outbox[c][i].id \in Memories
      BY Entries DEF Event
  <2> QED  BY <1>2, <2>1, <2>2 DEF Single, EventsTrue, Says
<1> HIDE DEF Builds, Updates
<1>10. ASSUME ~Builds  PROVE /\ \A u \in Update : Latest(u)' <=> Latest(u)
                             /\ \A m : Counts(m)' => Counts(m)
    BY <1>2, <1>8, <1>10 DEF Latest, Says, Counts, Announcements
<1>11. ASSUME ~rebuilding
       PROVE  \A i \in DOMAIN pending : Counts(pending[i].id) => Latest(pending[i]) /\ pending[i] \in Update
    BY <1>11, Entries DEF Single, PendingLatest
<1>12. PendingLatest'
  <2> SUFFICES ASSUME NEW i \in DOMAIN pending', Counts(pending[i].id)', ~rebuilding'  PROVE Latest(pending[i])'
      BY <1>2, <1>4 DEF PendingLatest
  <2>1. pending' = pending \/ pending' = <<>> \/ (pending # <<>> /\ pending' = Tail(pending))
      BY DEF WorkerStep, WorkerEnds, TakeRebuild, TakeUpdate, StartAttempt, BuilderPurges,
             BuilderNotifies, BuilderReads, BuildFails, BuildDiscarded, BuildRetried, PublishRebuild,
             DropUpdate, UpdateFails, PublishUpdate, queue
  <2>2. PICK j \in DOMAIN pending : pending'[i] = pending[j]
    <3>1. pending \in Seq(Update)
        BY DEF Whole, TypeOK
    <3> QED  BY <2>1, <3>1, Taking
  <2>3. ~Builds
      BY <1>6, <2>2
  <2>4. Counts(pending[j].id) /\ ~rebuilding
      BY <1>8, <1>10, <2>2, <2>3
  <2>5. PICK u \in Update : u = pending[j] /\ Latest(u)
      BY <1>11, <2>4
  <2> QED  BY <1>10, <2>2, <2>3, <2>5

<1>13. WorkLatest'
  <2> SUFFICES ASSUME NEW j \in Threads, NEW u \in Range(work'[j]), Updating(j, u)', IsCurrent(u)', Counts(u.id)'
               PROVE  Latest(u)'
      BY DEF WorkLatest
  <2>1. stage'[j] = "update" /\ j = k
      BY <1>3 DEF Updating
  <2>2. TakeUpdate(k)
      BY <2>1 DEF Whole, TypeOK, WorkerStep, WorkerEnds, TakeRebuild, TakeUpdate, StartAttempt, BuilderPurges,
             BuilderNotifies, BuilderReads, BuildFails, BuildDiscarded, BuildRetried, PublishRebuild,
             DropUpdate, UpdateFails, PublishUpdate, Goes, Returns
  <2>3. pending # <<>> /\ work' = [work EXCEPT ![k] = <<Head(pending)>>] /\ ~rebuilding
      BY <2>2 DEF TakeUpdate
  <2>4. u = Head(pending)
      BY <2>1, <2>3 DEF Updating, Whole, TypeOK
  <2>5. u = pending[1] /\ 1 \in DOMAIN pending
      BY <2>3, <2>4, Taking DEF Whole, TypeOK
  <2>6. ~Builds
      BY <1>6, <2>3
  <2>7. Latest(u) /\ u \in Update
      BY <1>10, <1>11, <2>3, <2>5, <2>6
  <2> QED  BY <1>10, <2>6, <2>7
<1>14. SnapshotLatest'
  <2> SUFFICES ASSUME NEW j \in Threads, stage'[j] = "build", NEW m \in Memories, snapshot'[j][m] # 0
               PROVE  snapshot'[j][m] >= seen'[m]
      BY DEF SnapshotLatest
  <2>1. j = k
      BY <1>3
  <2>2. BuilderReads(k)
      BY <2>1 DEF Whole, TypeOK, WorkerStep, WorkerEnds, TakeRebuild, TakeUpdate, StartAttempt, BuilderPurges,
             BuilderNotifies, BuilderReads, BuildFails, BuildDiscarded, BuildRetried, PublishRebuild,
             DropUpdate, UpdateFails, PublishUpdate, Goes, Returns
  <2>3. snapshot'[k] = Truth /\ seen' = seen
      BY <2>2 DEF BuilderReads, Whole, TypeOK
  <2>4. snapshot'[k][m] = version[m]
      BY <2>1, <2>3 DEF Truth
  <2>5. version[m] \in Nat /\ seen[m] \in Nat /\ seen[m] <= version[m]
      BY DEF Whole, TypeOK, Vectors, Versions, MadeBefore
  <2> QED  BY <2>1, <2>3, <2>4, <2>5
<1>15. IndexLatest'
  <2> SUFFICES ASSUME built', ~stopped', ~rebuilding', ~rebuildError', NEW m \in Memories, Counts(m)'
               PROVE  \/ m \in failed' \/ Announcements(m)' # {} \/ IsPending(m)' \/ InFlight(m)'
                      \/ index'[m] = Truth'[m]
      BY DEF IndexLatest
  <2>1. Announcements(m)' = Announcements(m)
      BY <1>2 DEF Announcements
  <2>2. CASE Builds
    <3>1. PublishRebuild(k)
        BY <1>2, <1>6, <2>2 DEF Builds, StartAttempt, BuilderPurges, BuilderNotifies, BuilderReads, BuildFails,
           BuildDiscarded, BuildRetried, PublishRebuild
    <3>2. stage[k] = "build" /\ ~stopped /\ ~dirty /\ index' = snapshot[k] /\ UNCHANGED <<version, live>>
        BY <3>1 DEF PublishRebuild, memory
    <3>3. Truth'[m] = Truth[m]
        BY <3>2 DEF Truth
    <3>4. Announcements(m) = {} => snapshot[k][m] = Truth[m]
        BY <3>2 DEF IInv, ReadIsCurrent
    <3> QED  BY <2>1, <3>2, <3>3, <3>4
  <2>3. CASE ~Builds
    <3>1. /\ Truth'[m] = Truth[m] /\ Counts(m)
          /\ m \in failed \/ Announcements(m) # {} \/ IsPending(m) \/ InFlight(m) \/ index[m] = Truth[m]
      <4>1. Truth'[m] = Truth[m]
          BY <1>8, <2>3 DEF Truth
      <4>2. Counts(m) /\ built /\ ~stopped /\ ~rebuilding /\ ~rebuildError
        <5>1. Counts(m)
            BY <1>8, <2>3 DEF Counts
        <5>2. built' = built /\ stopped' = stopped /\ rebuilding' = rebuilding /\ rebuildError' = rebuildError
            BY <1>2, <1>8, <2>3
        <5> QED  BY <5>1, <5>2
      <4> QED  BY <4>1, <4>2 DEF Single, IndexLatest
    <3>2. CASE WorkerEnds(k) \/ TakeRebuild(k) \/ TakeUpdate(k)
      <4>1. ~InFlight(m)
          BY <1>1, <1>6, <3>2 DEF InFlight, Updating
      <4>2. UNCHANGED <<failed, index, rebuilding>>
          BY <3>2 DEF WorkerEnds, TakeRebuild, TakeUpdate, errors, published
      <4>3. IsPending(m) => IsPending(m)' \/ InFlight(m)'
        <5>1. CASE WorkerEnds(k)
            BY <5>1 DEF WorkerEnds, queue, IsPending
        <5>2. CASE TakeRebuild(k)
            BY <4>2, <5>2 DEF TakeRebuild
        <5>3. CASE TakeUpdate(k)
          <6> SUFFICES ASSUME NEW i \in DOMAIN pending, pending[i].id = m, ~IsPending(m)'
                       PROVE  InFlight(m)'
              BY DEF IsPending
          <6>1. /\ pending \in Seq(Update) /\ pending # <<>> /\ pending' = Tail(pending)
                /\ work' = [work EXCEPT ![k] = <<Head(pending)>>]
                /\ stage' = [stage EXCEPT ![k] = "update"] /\ generation' = generation
                /\ ~stopped /\ ~rebuilding
              BY <5>3 DEF TakeUpdate, Goes, Whole, TypeOK
          <6>2. i = 1 \/ (i - 1 \in DOMAIN pending' /\ pending'[i - 1] = pending[i])
              BY <6>1, Taking
          <6>3. Head(pending) = pending[i] /\ Head(pending) \in Update
              BY <6>1, <6>2, Taking DEF IsPending
          <6>4. PICK u \in Update : u = Head(pending)
              BY <6>3
          <6>5. u.id = m /\ u.generation = generation[m]
              BY <6>3, <6>4 DEF Whole, Dictionary
          <6>6. work'[k] = <<u>> /\ stage'[k] = "update"
              BY <6>1, <6>4 DEF Whole, TypeOK
          <6>7. u \in Range(work'[k])
              BY <6>6 DEF Range
          <6> QED  BY <1>2, <4>2, <6>1, <6>5, <6>6, <6>7 DEF InFlight, Updating, IsCurrent
        <5> QED  BY <3>2, <5>1, <5>2, <5>3
      <4> QED  BY <2>1, <3>1, <4>1, <4>2, <4>3
    <3>3. CASE Updates
      <4>1. IsPending(m) => IsPending(m)'
          BY <3>3 DEF Updates, DropUpdate, UpdateFails, PublishUpdate, queue, IsPending
      <4>2. \A v \in Range(work[k]) : \A u : work[k] = <<u>> => v = u
          BY DEF Range
      <4>3. CASE DropUpdate(k)
        <5>1. PICK u \in Range(work[k]) : Updating(k, u) /\ ~IsCurrent(u)
            BY <4>3 DEF DropUpdate
        <5>2. ~InFlight(m)
            BY <1>1, <4>2, <5>1 DEF InFlight, Updating
        <5>3. UNCHANGED <<failed, index>>
            BY <4>3 DEF DropUpdate, errors, published
        <5> QED  BY <2>1, <3>1, <4>1, <5>2, <5>3
      <4>4. CASE UpdateFails(k)
        <5>1. PICK u \in Range(work[k]) : /\ Updating(k, u) /\ IsCurrent(u)
                                          /\ MarkFailed(u.id) /\ missed' = missed \cup Unkept({u.id})
            BY <4>4 DEF UpdateFails
        <5>2. m # u.id => ~InFlight(m)
            BY <1>1, <4>2, <5>1 DEF InFlight, Updating
        <5>3. failed \subseteq failed' /\ index' = index
            BY <4>4, <5>1 DEF MarkFailed, UpdateFails, published
        <5>4. u.id \in failed' \/ u.id \in missed'
            BY <5>1 DEF MarkFailed, Unkept
        <5> QED  BY <2>1, <3>1, <4>1, <5>2, <5>3, <5>4 DEF Counts
      <4>5. CASE PublishUpdate(k)
        <5>1. PICK u \in Range(work[k]) : /\ Updating(k, u) /\ IsCurrent(u) /\ MarkSucceeded(u.id)
                                          /\ index' = [index EXCEPT ![u.id] = IF u.upsert THEN u.version ELSE 0]
            BY <4>5 DEF PublishUpdate
        <5>2. u \in Update /\ u.id \in Memories
            BY Entries DEF Update
        <5>3. CASE m = u.id
          <6>1. Says(u) \/ Announcements(m) # {}
              BY <3>1, <5>1, <5>3 DEF Single, WorkLatest, Latest
          <6>2. Says(u) => index'[m] = Truth[m]
              BY <5>1, <5>2, <5>3 DEF Says, Truth, Whole, TypeOK, Vectors
          <6> QED  BY <2>1, <3>1, <6>1, <6>2
        <5>4. CASE m # u.id
          <6>1. ~InFlight(m)
              BY <1>1, <4>2, <5>1, <5>4 DEF InFlight, Updating
          <6>2. index'[m] = index[m] /\ (m \in failed => m \in failed')
              BY <5>1, <5>2, <5>4 DEF MarkSucceeded, Whole, TypeOK, Vectors
          <6> QED  BY <2>1, <3>1, <4>1, <6>1, <6>2
        <5> QED  BY <5>3, <5>4
      <4> QED  BY <3>3, <4>3, <4>4, <4>5 DEF Updates
    <3> QED  BY <1>7, <2>3, <3>2, <3>3
  <2> QED  BY <2>2, <2>3
<1> QED  BY <1>9, <1>12, <1>13, <1>14, <1>15 DEF Single

LEMMA OthersSingle ==
    ASSUME Single, (\E m \in Memories : FallDue(m)) \/ Shutdown \/ UNCHANGED vars
    PROVE  Single'
<1>1. CASE (\E m \in Memories : FallDue(m)) \/ UNCHANGED vars
  <2>1. UNCHANGED <<version, live, expired, outbox, launching, index, built, rebuilding, dirty, stopped, pending,
                    generation, failed, missed, rebuildError, stage, snapshot, work, seen>>
      BY <1>1 DEF FallDue, vars, memory, calls, published, queue, errors, locals
  <2>2. EventsTrue' /\ PendingLatest' /\ WorkLatest' /\ SnapshotLatest'
      BY <2>1 DEF Single, EventsTrue, PendingLatest, WorkLatest, SnapshotLatest, Updating, IsCurrent, Latest, Says,
                  Announcements, Counts
  <2>3. \A m \in Memories : /\ Announcements(m)' = Announcements(m) /\ Truth'[m] = Truth[m]
                            /\ (Counts(m)' <=> Counts(m)) /\ (IsPending(m)' <=> IsPending(m))
                            /\ (InFlight(m)' <=> InFlight(m))
      BY <2>1 DEF Announcements, Truth, Counts, IsPending, InFlight, Updating, IsCurrent
  <2>4. IndexLatest'
      BY <2>1, <2>3 DEF Single, IndexLatest
  <2> QED  BY <2>2, <2>4 DEF Single
<1>2. CASE Shutdown
  <2>1. stopped' = TRUE /\ pending' = <<>> /\ UNCHANGED <<version, live, expired, outbox>>
      BY <1>2 DEF Shutdown, memory, calls
  <2> QED  BY <2>1 DEF Single, EventsTrue, PendingLatest, WorkLatest, SnapshotLatest, IndexLatest, IsCurrent, Says
<1> QED  BY <1>1, <1>2

LEMMA NextSingle == OneClient /\ IInv /\ Whole /\ Single /\ [Next]_vars => Single'
BY ManagerSingle, AnnounceSingle, CallSingle, WorkerSingle, OthersSingle DEF Next

\* Together, with the number of clients as the hypothesis.
Alone == OneClient => Single

\* What one client adds holds of every reachable state.
THEOREM InductiveAlone == Spec => [](IInv /\ Whole /\ Alone)
<1>1. Init => Alone
    BY InitSingle DEF Alone
<1>2. IInv /\ Whole /\ Alone /\ [Next]_vars => Alone'
    BY NextSingle DEF Alone
<1> QED  BY InductiveWhole, <1>1, <1>2, PTL DEF Spec

\* One client changes the records: an index that search answers from holds
\* exactly the records whose changes have been announced, unless an error is
\* reported.  (With two, an older change can be announced last.)
THEOREM AnswersAreCurrentHolds == OneClient => (Spec => []AnswersAreCurrent)
<1> SUFFICES ASSUME OneClient  PROVE Spec => []AnswersAreCurrent
    OBVIOUS
<1>1. ASSUME IInv, Whole, Alone  PROVE AnswersAreCurrent
  <2> SUFFICES ASSUME Answers, ~updateError, ~rebuildError,
                      NEW m \in Memories, m \notin expired \cup missed, Announcements(m) = {}
               PROVE  index[m] = Truth[m]
      BY DEF AnswersAreCurrent
  <2>1. ~rebuilding /\ pending = <<>> /\ failed = {} /\ built /\ ~stopped /\ worker = NoThread
      BY <1>1 DEF Answers, Whole, Reported
  <2>2. ~IsPending(m) /\ ~InFlight(m)
      BY <1>1, <2>1, NoThreadIsNone DEF IsPending, InFlight, Updating, IInv, OneWorker, Running
  <2> QED  BY <1>1, <2>1, <2>2 DEF Alone, Single, IndexLatest, Counts
<1> QED  BY InductiveAlone, <1>1, PTL

\* One client changes the records: a vector that goes live is not older than a
\* change of its record that the runtime was told of.
THEOREM NeverOlderHolds == OneClient => (Spec => NeverOlder)
<1> SUFFICES ASSUME OneClient  PROVE Spec => NeverOlder
    OBVIOUS
<1> DEFINE Goal == \A m \in Memories \ (expired \cup missed) :
                       index'[m] \notin {0, index[m]} => index'[m] >= seen[m]
<1>1. ASSUME IInv, Whole, Alone, [Next]_vars  PROVE Goal
  <2> SUFFICES ASSUME NEW m \in Memories, Counts(m), index'[m] # 0, index'[m] # index[m]
               PROVE  index'[m] >= seen[m]
      BY DEF Counts
  <2>1. Single
      BY <1>1 DEF Alone
  <2>2. PICK k \in Threads : PublishRebuild(k) \/ PublishUpdate(k)
    <3>1. CASE \E c \in Clients : ManagerStep(c) \/ AnnounceStep(c) \/ StartRefresh(c) \/ LaunchStep(c)
        BY <3>1 DEF ManagerStep, Add, UpdateRecord, Write, Delete, Clear, Erase, Purge, AnnounceStep, EventIgnored,
                    EventDirties, EventRejected, EventQueued, StartRefresh, LaunchStep, Launch,
                    RefreshUnlaunched, UpdateUnlaunched, Launched, published
    <3>2. CASE \E i \in Threads : WorkerStep(i)
        BY <3>2 DEF WorkerStep, WorkerEnds, TakeRebuild, TakeUpdate, StartAttempt, BuilderPurges,
                    BuilderNotifies, BuilderReads, BuildFails, BuildDiscarded, BuildRetried,
                    DropUpdate, UpdateFails, published
    <3>3. CASE (\E n \in Memories : FallDue(n)) \/ Shutdown \/ UNCHANGED vars
        BY <3>3 DEF FallDue, Shutdown, vars, published
    <3> QED  BY <1>1, <3>1, <3>2, <3>3 DEF Next
  <2>3. CASE PublishRebuild(k)
      BY <2>1, <2>3 DEF PublishRebuild, Single, SnapshotLatest
  <2>4. CASE PublishUpdate(k)
    <3>1. PICK u \in Range(work[k]) : /\ Updating(k, u) /\ IsCurrent(u)
                                      /\ index' = [index EXCEPT ![u.id] = IF u.upsert THEN u.version ELSE 0]
        BY <2>4 DEF PublishUpdate
    <3>2. u.id \in Memories
        BY <1>1, Entries DEF Update
    <3>3. u.id = m /\ index'[m] = u.version
        BY <1>1, <3>1, <3>2 DEF Whole, TypeOK, Vectors
    <3> QED  BY <2>1, <3>1, <3>3 DEF Single, WorkLatest, Latest
  <2> QED  BY <2>2, <2>3, <2>4
<1> QED  BY InductiveAlone, <1>1, PTL DEF Spec, NeverOlder

=============================================================================
