---------------------------- MODULE SemanticIndex ----------------------------
(***************************************************************************)
(* SemanticMemoryIndexRuntime beside the MemoryManager whose events feed   *)
(* it.  A client is a thread that calls the manager and the runtime; a     *)
(* worker thread rebuilds the index or applies one pending update at a     *)
(* time.  Every section under the manager's or the runtime's lock is a     *)
(* step: a write is committed in one and announced in a later one.         *)
(*                                                                         *)
(* A record is the number of changes made to it; a vector in the index is  *)
(* the number of the change it was computed from, 0 for none.              *)
(*                                                                         *)
(* Bounds: MaxVersion, the changes of a record that keep it; MaxThreads,   *)
(* the worker threads at once; MaxRefreshes, the rebuilds asked for.       *)
(* Capacity is MAX_PENDING_SEMANTIC_MEMORY_UPDATES.                        *)
(***************************************************************************)
EXTENDS Naturals, FiniteSets, SequencesExt

CONSTANTS Memories, Clients, Expiring, Capacity, MaxVersion, MaxThreads, MaxRefreshes

ASSUME ExpiringAssumption == Expiring \subseteq Memories
ASSUME BoundsAssumption ==
    /\ Capacity \in Nat \ {0} /\ MaxVersion \in Nat \ {0}
    /\ MaxThreads \in Nat \ {0} /\ MaxRefreshes \in Nat

VARIABLES
    version, live,      \* the manager's records: changes made, and who is there
    due, expired,       \* records past expires_at, and those purged for it
    outbox,             \* the events each client still has to emit
    launching, for,     \* the thread a client is about to start, and the record it was made for
    index, built,       \* _index, and whether it is not None
    rebuilding, dirty, stopped,
    worker,             \* _worker: the thread it holds, 0 for None
    pending,            \* _pending_updates, in the order of the dictionary
    generation,         \* _update_generations, 0 for no entry
    failed, updateError, rebuildError,
    stage,              \* what each worker thread is doing
    retried, snapshot, work,    \* its second attempt, what it read, the update it took
    refreshes,          \* rebuilds asked for
    seen,               \* history: the newest change announced of each record
    missed              \* history: records that a full queue or a full `failed` had no room for

memory == <<version, live, due, expired>>
published == <<index, built>>
queue == <<pending, generation>>
errors == <<failed, updateError, rebuildError, missed>>
calls == <<outbox, launching, for>>
locals == <<retried, snapshot, work>>
vars == <<memory, calls, published, rebuilding, dirty, stopped, worker, queue, errors,
          stage, locals, refreshes, seen>>

Threads == 1..MaxThreads
NoThread == 0
Versions == 0..(MaxVersion + 1)
Vectors == [Memories -> Versions]
NoVectors == [m \in Memories |-> 0]
Event == [id: Memories, version: Versions, upsert: BOOLEAN]
Update == [id: Memories, version: Versions, upsert: BOOLEAN, generation: Nat]

Stage == {"made", "top", "attempt", "purge", "notify", "read", "build", "update", "ended"}

TypeOK ==
    /\ version \in Vectors /\ live \subseteq Memories
    /\ due \subseteq live /\ expired \subseteq Memories \ live
    /\ outbox \in [Clients -> Seq(Event)]
    /\ launching \in [Clients -> Threads \cup {NoThread}]
    /\ for \in [Clients -> SUBSET Memories]
    /\ index \in Vectors /\ built \in BOOLEAN
    /\ rebuilding \in BOOLEAN /\ dirty \in BOOLEAN /\ stopped \in BOOLEAN
    /\ worker \in Threads \cup {NoThread}
    /\ pending \in Seq(Update) /\ generation \in [Memories -> Nat]
    /\ failed \subseteq Memories /\ missed \subseteq Memories
    /\ updateError \in BOOLEAN /\ rebuildError \in BOOLEAN
    /\ stage \in [Threads -> Stage]
    /\ retried \in [Threads -> BOOLEAN] /\ snapshot \in [Threads -> Vectors]
    /\ work \in [Threads -> Seq(Update)]
    /\ refreshes \in 0..MaxRefreshes
    /\ seen \in Vectors

Init ==
    /\ version = NoVectors /\ live = {} /\ due = {} /\ expired = {}
    /\ outbox = [c \in Clients |-> <<>>]
    /\ launching = [c \in Clients |-> NoThread] /\ for = [c \in Clients |-> {}]
    /\ index = NoVectors /\ built = FALSE
    /\ rebuilding = FALSE /\ dirty = FALSE /\ stopped = FALSE
    /\ worker = NoThread
    /\ pending = <<>> /\ generation = NoVectors
    /\ failed = {} /\ missed = {} /\ updateError = FALSE /\ rebuildError = FALSE
    /\ stage = [k \in Threads |-> "ended"]
    /\ retried = [k \in Threads |-> FALSE] /\ snapshot = [k \in Threads |-> NoVectors]
    /\ work = [k \in Threads |-> <<>>]
    /\ refreshes = 0
    /\ seen = NoVectors

----------------------------------------------------------------------------
(* The manager.  A save that fails changes nothing and is not a step.      *)

Bumped(ms) == [m \in Memories |-> IF m \in ms THEN version[m] + 1 ELSE version[m]]
Announcement(m, upsert) == [id |-> m, version |-> version[m] + 1, upsert |-> upsert]
Removals(order) == [i \in DOMAIN order |-> Announcement(order[i], FALSE)]

\* dictionary order
Orders(ms) == {order \in [1..Cardinality(ms) -> ms] : Range(order) = ms}

Rests(c) == outbox[c] = <<>> /\ launching[c] = NoThread
Announces(c, events) == outbox' = [outbox EXCEPT ![c] = events] /\ UNCHANGED <<launching, for>>

Write(c, m) ==
    /\ Rests(c) /\ version[m] < MaxVersion
    /\ version' = Bumped({m})
    /\ live' = live \cup {m}
    /\ Announces(c, <<Announcement(m, TRUE)>>)
    /\ UNCHANGED <<due, expired, published, rebuilding, dirty, stopped, worker, queue, errors,
                   stage, locals, refreshes, seen>>

\* An added record has an id of its own, and one that is gone never returns.
Add(c, m) == version[m] = 0 /\ Write(c, m)
UpdateRecord(c, m) == m \in live /\ Write(c, m)

\* delete of one record, clear of all of them.
Erase(c, ms) ==
    /\ Rests(c) /\ ms # {}
    /\ version' = Bumped(ms)
    /\ live' = live \ ms /\ due' = due \ ms
    /\ \E order \in Orders(ms) : Announces(c, Removals(order))
    /\ UNCHANGED <<expired, published, rebuilding, dirty, stopped, worker, queue, errors,
                   stage, locals, refreshes, seen>>

Delete(c, m) == m \in live /\ Erase(c, {m})
Clear(c) == Erase(c, live)

\* Variant: what is purged is still taken to be due.
PurgedButDue ==
    /\ version' = Bumped(due)
    /\ live' = live \ due /\ expired' = expired \cup due /\ due' = due

Purged ==
    /\ version' = Bumped(due)
    /\ live' = live \ due /\ expired' = expired \cup due /\ due' = {}

\* get, all, search, count and update purge before they do anything else.
Purge(c) ==
    /\ Rests(c) /\ due # {}
    /\ Purged
    /\ \E order \in Orders(due) : Announces(c, Removals(order))
    /\ UNCHANGED <<published, rebuilding, dirty, stopped, worker, queue, errors,
                   stage, locals, refreshes, seen>>

FallDue(m) ==
    /\ m \in Expiring \cap live /\ m \notin due
    /\ due' = due \cup {m}
    /\ UNCHANGED <<version, live, expired, calls, published, rebuilding, dirty, stopped,
                   worker, queue, errors, stage, locals, refreshes, seen>>

----------------------------------------------------------------------------
(* The runtime, called by a client.                                        *)

Newest(a, b) == IF a < b THEN b ELSE a
Saw(event) == seen' = [seen EXCEPT ![event.id] = Newest(@, event.version)]

HasRoom == Cardinality(failed) < Capacity
MarkFailed(m) ==
    /\ failed' = IF HasRoom THEN failed \cup {m} ELSE failed
    /\ updateError' = TRUE
Unkept(ms) == IF HasRoom THEN {} ELSE ms \ failed

\* Variant: one success clears the report of every failure.
MarkSucceededAll(m) ==
    /\ failed' = failed \ {m}
    /\ updateError' = FALSE

MarkSucceeded(m) ==
    /\ failed' = failed \ {m}
    /\ updateError' = (failed \ {m} # {})

IsPending(m) == \E i \in DOMAIN pending : pending[i].id = m
\* a dictionary has one entry of a record, or none
Without(m) ==
    IF IsPending(m) THEN RemoveAt(pending, CHOOSE i \in DOMAIN pending : pending[i].id = m)
    ELSE pending

\* A new thread: the least number that no thread has.
Fresh(k) == stage[k] = "ended" /\ \A j \in 1..(k - 1) : stage[j] # "ended"

\* Variant: a thread for every update and rebuild.
MakesAnyway(c, ms) ==
    \E k \in Threads :
       /\ Fresh(k)
       /\ worker' = k
       /\ stage' = [stage EXCEPT ![k] = "made"]
       /\ launching' = [launching EXCEPT ![c] = k] /\ for' = [for EXCEPT ![c] = ms]

\* A thread is made for whoever finds none, and has to start it.
MakesWorker(c, ms) ==
    IF worker # NoThread
    THEN UNCHANGED <<worker, stage, launching, for>>
    ELSE \E k \in Threads :
            /\ Fresh(k)
            /\ worker' = k
            /\ stage' = [stage EXCEPT ![k] = "made"]
            /\ launching' = [launching EXCEPT ![c] = k] /\ for' = [for EXCEPT ![c] = ms]

\* _handle_memory_event, in the thread that changed the record.
Announcing(c) == outbox[c] # <<>> /\ launching[c] = NoThread
Announced(c) == Head(outbox[c])
Unannounced(c) == Tail(outbox[c])

EventIgnored(c) ==
    /\ Announcing(c) /\ Saw(Announced(c))
    /\ stopped \/ (~rebuilding /\ ~built)
    /\ Announces(c, Unannounced(c))
    /\ UNCHANGED <<memory, published, rebuilding, dirty, stopped, worker, queue, errors,
                   stage, locals, refreshes>>

\* Variant: a change during a rebuild is not noted.
EventUnnoticed(c) ==
    /\ Announcing(c) /\ Saw(Announced(c))
    /\ ~stopped /\ rebuilding
    /\ Announces(c, Unannounced(c))
    /\ UNCHANGED <<memory, published, rebuilding, dirty, stopped, worker, queue, errors,
                   stage, locals, refreshes>>

EventDirties(c) ==
    /\ Announcing(c) /\ Saw(Announced(c))
    /\ ~stopped /\ rebuilding
    /\ dirty' = TRUE
    /\ Announces(c, Unannounced(c))
    /\ UNCHANGED <<memory, published, rebuilding, stopped, worker, queue, errors, stage,
                   locals, refreshes>>

Takes(c) == Announcing(c) /\ Saw(Announced(c)) /\ ~stopped /\ ~rebuilding /\ built
Full(m) == ~IsPending(m) /\ Len(pending) >= Capacity

EventRejected(c) ==
    /\ Takes(c) /\ Full(Announced(c).id)
    /\ MarkFailed(Announced(c).id)
    /\ missed' = missed \cup {Announced(c).id}
    /\ Announces(c, Unannounced(c))
    /\ UNCHANGED <<memory, published, rebuilding, dirty, stopped, worker, queue, rebuildError,
                   stage, locals, refreshes>>

EventQueued(c) ==
    LET event == Announced(c)
        next == generation[event.id] + 1
    IN  /\ Takes(c) /\ ~Full(event.id)
        /\ generation' = [generation EXCEPT ![event.id] = next]
        /\ pending' = Append(Without(event.id),
                             [id |-> event.id, version |-> event.version,
                              upsert |-> event.upsert, generation |-> next])
        /\ outbox' = [outbox EXCEPT ![c] = Unannounced(c)] /\ MakesWorker(c, {event.id})
        /\ UNCHANGED <<memory, published, rebuilding, dirty, stopped, errors, locals, refreshes>>

StartRefresh(c) ==
    /\ Rests(c) /\ refreshes < MaxRefreshes
    /\ ~stopped /\ ~rebuilding
    /\ rebuilding' = TRUE /\ dirty' = FALSE
    /\ MakesWorker(c, {})
    /\ refreshes' = refreshes + 1
    /\ UNCHANGED <<memory, outbox, published, stopped, queue, errors, locals, seen>>

Launched(c, at) ==
    /\ launching[c] # NoThread
    /\ stage' = [stage EXCEPT ![launching[c]] = at]
    /\ launching' = [launching EXCEPT ![c] = NoThread] /\ for' = [for EXCEPT ![c] = {}]
    /\ UNCHANGED <<memory, outbox, published, dirty, stopped, queue, locals, refreshes, seen>>

Launch(c) == Launched(c, "top") /\ UNCHANGED <<rebuilding, worker, errors>>

RefreshUnlaunched(c) ==
    /\ for[c] = {} /\ Launched(c, "ended")
    /\ worker' = NoThread
    /\ rebuilding' = FALSE
    /\ rebuildError' = (rebuildError \/ ~stopped)
    /\ UNCHANGED <<failed, updateError, missed>>

UpdateUnlaunched(c) ==
    /\ for[c] # {} /\ Launched(c, "ended")
    /\ worker' = IF worker = launching[c] THEN NoThread ELSE worker
    /\ IF stopped
       THEN UNCHANGED <<rebuilding, errors>>
       ELSE /\ \A m \in for[c] : MarkFailed(m)
            /\ missed' = missed \cup Unkept(for[c])
            /\ rebuilding' = FALSE
            /\ rebuildError' = (rebuildError \/ rebuilding)

Shutdown ==
    /\ ~stopped
    /\ stopped' = TRUE
    /\ pending' = <<>> /\ generation' = NoVectors /\ failed' = {}
    /\ UNCHANGED <<memory, calls, published, rebuilding, dirty, worker, updateError,
                   rebuildError, missed, stage, locals, refreshes, seen>>

----------------------------------------------------------------------------
(* The worker.                                                             *)

Goes(k, at) == stage' = [stage EXCEPT ![k] = at]
Forgets(k) ==
    /\ retried' = [retried EXCEPT ![k] = FALSE] /\ snapshot' = [snapshot EXCEPT ![k] = NoVectors]
    /\ work' = [work EXCEPT ![k] = <<>>]
Returns(k) == Goes(k, "top") /\ Forgets(k)

WorkerEnds(k) ==
    /\ stage[k] = "top"
    /\ stopped \/ (~rebuilding /\ pending = <<>>)
    /\ worker' = NoThread /\ Goes(k, "ended")
    /\ UNCHANGED <<memory, calls, published, rebuilding, dirty, stopped, queue, errors,
                   locals, refreshes, seen>>

TakeRebuild(k) ==
    /\ stage[k] = "top" /\ ~stopped /\ rebuilding
    /\ pending' = <<>> /\ generation' = NoVectors
    /\ Goes(k, "attempt")
    /\ UNCHANGED <<memory, calls, published, rebuilding, dirty, stopped, worker, errors,
                   locals, refreshes, seen>>

TakeUpdate(k) ==
    /\ stage[k] = "top" /\ ~stopped /\ ~rebuilding /\ pending # <<>>
    /\ pending' = Tail(pending)
    /\ Goes(k, "update") /\ work' = [work EXCEPT ![k] = <<Head(pending)>>]
    /\ UNCHANGED <<memory, calls, published, rebuilding, dirty, stopped, worker, generation,
                   errors, retried, snapshot, refreshes, seen>>

\* _run_background_refresh: two attempts, the second when the first was dirty.
StartAttempt(k) ==
    /\ stage[k] = "attempt"
    /\ IF stopped
       THEN rebuilding' = FALSE /\ Returns(k) /\ UNCHANGED dirty
       ELSE dirty' = FALSE /\ Goes(k, "purge") /\ UNCHANGED <<rebuilding, locals>>
    /\ UNCHANGED <<memory, calls, published, stopped, worker, queue, errors, refreshes, seen>>

\* MemoryManager.all, called by build: purge, announce, list.
BuilderPurges(k) ==
    /\ stage[k] = "purge"
    /\ IF due = {} THEN Goes(k, "read") ELSE Goes(k, "notify")
    /\ Purged
    /\ UNCHANGED <<calls, published, rebuilding, dirty, stopped, worker, queue, errors,
                   locals, refreshes, seen>>

\* The worker's own announcement reaches a runtime that is rebuilding.
BuilderNotifies(k) ==
    /\ stage[k] = "notify"
    /\ dirty' = (dirty \/ ~stopped)
    /\ seen' = [m \in Memories |-> IF m \in expired THEN version[m] ELSE seen[m]]
    /\ Goes(k, "read")
    /\ UNCHANGED <<memory, calls, published, rebuilding, stopped, worker, queue, errors,
                   locals, refreshes>>

Truth == [m \in Memories |-> IF m \in live THEN version[m] ELSE 0]

BuilderReads(k) ==
    /\ stage[k] = "read"
    /\ Goes(k, "build") /\ snapshot' = [snapshot EXCEPT ![k] = Truth]
    /\ UNCHANGED <<memory, calls, published, rebuilding, dirty, stopped, worker, queue, errors,
                   retried, work, refreshes, seen>>

\* Variant: a failed rebuild is still the one that is on.
BuildFailsOpen(k) ==
    /\ stage[k] = "build"
    /\ rebuildError' = (rebuildError \/ ~stopped)
    /\ Returns(k)
    /\ UNCHANGED <<memory, calls, published, rebuilding, dirty, stopped, worker, queue, failed,
                   updateError, missed, refreshes, seen>>

\* The provider, a budget or the cancellation of a shutdown.
BuildFails(k) ==
    /\ stage[k] = "build"
    /\ rebuilding' = FALSE
    /\ rebuildError' = (rebuildError \/ ~stopped)
    /\ Returns(k)
    /\ UNCHANGED <<memory, calls, published, dirty, stopped, worker, queue, failed, updateError,
                   missed, refreshes, seen>>

BuildDiscarded(k) ==
    /\ stage[k] = "build" /\ (stopped \/ (dirty /\ retried[k]))
    /\ rebuilding' = FALSE
    /\ rebuildError' = (rebuildError \/ ~stopped)
    /\ Returns(k)
    /\ UNCHANGED <<memory, calls, published, dirty, stopped, worker, queue, failed, updateError,
                   missed, refreshes, seen>>

BuildRetried(k) ==
    /\ stage[k] = "build" /\ ~stopped /\ dirty /\ ~retried[k]
    /\ Goes(k, "attempt") /\ retried' = [retried EXCEPT ![k] = TRUE]
    /\ UNCHANGED <<memory, calls, published, rebuilding, dirty, stopped, worker, queue, errors,
                   snapshot, work, refreshes, seen>>

\* Variant: a rebuild goes live without a look at stopped.
PublishStopped(k) ==
    /\ stage[k] = "build" /\ ~dirty
    /\ index' = snapshot[k] /\ built' = TRUE
    /\ failed' = {} /\ missed' = {} /\ updateError' = FALSE /\ rebuildError' = FALSE
    /\ rebuilding' = FALSE
    /\ Returns(k)
    /\ UNCHANGED <<memory, calls, dirty, stopped, worker, queue, refreshes, seen>>

PublishRebuild(k) ==
    /\ stage[k] = "build" /\ ~stopped /\ ~dirty
    /\ index' = snapshot[k] /\ built' = TRUE
    /\ failed' = {} /\ missed' = {} /\ updateError' = FALSE /\ rebuildError' = FALSE
    /\ rebuilding' = FALSE
    /\ Returns(k)
    /\ UNCHANGED <<memory, calls, dirty, stopped, worker, queue, refreshes, seen>>

\* Variant: an update is taken to be current whatever came since.
IsCurrentAnyway(u) == ~stopped /\ ~rebuilding

\* _is_current_update_locked, _complete_update_locked
IsCurrent(u) == ~stopped /\ ~rebuilding /\ generation[u.id] = u.generation
Completed(u) ==
    generation' = IF generation[u.id] = u.generation /\ ~IsPending(u.id)
                  THEN [generation EXCEPT ![u.id] = 0] ELSE generation

Updating(k, u) == stage[k] = "update" /\ work[k] = <<u>>

DropUpdate(k) ==
    /\ \E u \in Range(work[k]) : Updating(k, u) /\ ~IsCurrent(u)
    /\ Returns(k)
    /\ UNCHANGED <<memory, calls, published, rebuilding, dirty, stopped, worker, queue, errors,
                   refreshes, seen>>

\* A removal needs no provider, and only a provider or a vector's shape fails.
UpdateFails(k) ==
    /\ \E u \in Range(work[k]) :
          /\ Updating(k, u) /\ IsCurrent(u) /\ u.upsert
          /\ MarkFailed(u.id) /\ Completed(u)
          /\ missed' = missed \cup Unkept({u.id})
    /\ Returns(k)
    /\ UNCHANGED <<memory, calls, published, rebuilding, dirty, stopped, worker, pending,
                   rebuildError, refreshes, seen>>

PublishUpdate(k) ==
    /\ \E u \in Range(work[k]) :
          /\ Updating(k, u) /\ IsCurrent(u)
          /\ index' = [index EXCEPT ![u.id] = IF u.upsert THEN u.version ELSE 0]
          /\ MarkSucceeded(u.id) /\ Completed(u)
    /\ Returns(k)
    /\ UNCHANGED <<memory, calls, built, rebuilding, dirty, stopped, worker, pending,
                   rebuildError, missed, refreshes, seen>>

----------------------------------------------------------------------------
ManagerStep(c) ==
    \/ \E m \in Memories : Add(c, m) \/ UpdateRecord(c, m) \/ Delete(c, m)
    \/ Clear(c)
    \/ Purge(c)

AnnounceStep(c) == EventIgnored(c) \/ EventDirties(c) \/ EventRejected(c) \/ EventQueued(c)

LaunchStep(c) == Launch(c) \/ RefreshUnlaunched(c) \/ UpdateUnlaunched(c)

WorkerStep(k) ==
    \/ WorkerEnds(k) \/ TakeRebuild(k) \/ TakeUpdate(k)
    \/ StartAttempt(k) \/ BuilderPurges(k) \/ BuilderNotifies(k) \/ BuilderReads(k)
    \/ BuildFails(k) \/ BuildDiscarded(k) \/ BuildRetried(k) \/ PublishRebuild(k)
    \/ DropUpdate(k) \/ UpdateFails(k) \/ PublishUpdate(k)

Next ==
    \/ \E c \in Clients : ManagerStep(c) \/ AnnounceStep(c) \/ StartRefresh(c) \/ LaunchStep(c)
    \/ \E k \in Threads : WorkerStep(k)
    \/ \E m \in Memories : FallDue(m)
    \/ Shutdown

Spec == Init /\ [][Next]_vars

\* A call that has begun is finished, and a thread that runs goes on.
FairSpec ==
    /\ Spec
    /\ \A c \in Clients : WF_vars(AnnounceStep(c)) /\ WF_vars(LaunchStep(c))
    /\ \A k \in Threads : WF_vars(WorkerStep(k))

----------------------------------------------------------------------------
(* Properties                                                              *)

Running == {k \in Threads : stage[k] # "ended"}

\* At most one worker thread is made or runs, and it is the one _worker holds:
\* none that the runtime has forgotten can still publish (README.md, "the same
\* single daemon worker").
OneWorker == \A k \in Running : worker = k

\* What search answers from (lines 344-356): a complete index, no worker.
Answers == built /\ worker = NoThread /\ ~stopped

Announcements(m) ==
    {c \in Clients : \E i \in DOMAIN outbox[c] : outbox[c][i].id = m}

\* An index that search answers from holds exactly the records whose changes
\* have been announced, unless the runtime reports an error.  (A record that
\* expired may keep a vector: recall reads the record before it uses it.  Of a
\* record that was missed for lack of room the runtime can forget the error.)
AnswersAreCurrent ==
    Answers /\ ~updateError /\ ~rebuildError =>
        \A m \in Memories \ (expired \cup missed) : Announcements(m) = {} => index[m] = Truth[m]

\* A rebuilt index goes live with the latest change of every record but the
\* changes still to be announced, which will be applied to it.
RebuiltIsCurrent ==
    [][\A k \in Threads :
          stage[k] = "build" /\ index' = snapshot[k] /\ index' # index =>
              \A m \in Memories : Announcements(m) = {} => index'[m] = Truth[m]]_vars

\* A vector that goes live is not older than a change of its record that the
\* runtime was told of: a later update or delete prevents an older result in
\* flight from being published.  Left out are the records whose last change the
\* full queue turned away: those have no new generation.
NeverOlder ==
    [][\A m \in Memories \ (expired \cup missed) :
          index'[m] \notin {0, index[m]} => index'[m] >= seen[m]]_vars

\* After shutdown nothing is published, and no rebuild or update is accepted.
NothingAfterStop ==
    [][stopped => UNCHANGED published /\ pending' = <<>> /\ refreshes' = refreshes]_vars

\* The worker ends, and with it, unless the runtime was stopped, the rebuild:
\* it does not keep search on its fallback for ever.
Settles ==
    /\ (worker # NoThread) ~> (worker = NoThread)
    /\ rebuilding ~> (~rebuilding \/ stopped)

=============================================================================
