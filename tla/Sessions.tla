------------------------------ MODULE Sessions ------------------------------
(***************************************************************************)
(* The session registry (SessionManager), the renaming of a session with   *)
(* the records that name it (SessionRenameTransactionService) and the      *)
(* deletion of one without records (SessionDeleteService), over the memory *)
(* they share with the conversation.                                       *)
(*                                                                         *)
(* The registry and the memory each have a lock and a document of their    *)
(* own, and no lock covers both: a rename persists the one, then the       *)
(* other, and replaces both in memory afterwards.  The desktop's event     *)
(* thread selects, renames and deletes; its worker answers messages and    *)
(* runs the same commands when they are typed.                             *)
(*                                                                         *)
(* A record is stood for by the session it names; creation times, events   *)
(* and the other writers of the memory are left out.                       *)
(*                                                                         *)
(* Bounds: MaxRecords answers, MaxFaults saves that fail, MaxCrashes       *)
(* process deaths.                                                         *)
(***************************************************************************)
EXTENDS Naturals

CONSTANTS SessionIds, NoSession, Default, Panel, Worker, MaxRecords, MaxFaults, MaxCrashes

ASSUME SessionsAssumption ==
    /\ Default \in SessionIds /\ NoSession \notin SessionIds /\ Panel # Worker
    /\ MaxRecords \in Nat /\ MaxFaults \in Nat /\ MaxCrashes \in Nat

VARIABLES
    sessions, sessionDoc,   \* the registry, in memory and in its document
    memory, memoryDoc,      \* the session each record names, likewise
    job,                    \* what each thread is in the middle of
    said,                   \* how many answers were recorded
    faults, crashes,
    torn,       \* history: something was written during a rename, that is
                \* after both of its snapshots
    halved,     \* history: a rename was left with one document written
    stray       \* history: answers recorded for a session that was gone

documents == <<sessionDoc, memoryDoc>>
history == <<torn, halved, stray>>
vars == <<sessions, memory, documents, job, said, faults, crashes, history>>

Threads == {Panel, Worker}
Records == 1..MaxRecords

Registry == [ids : SUBSET SessionIds, active : SessionIds]
Memory == [Records -> SessionIds \cup {NoSession}]

PC == {"idle", "answer", "delete", "memory", "sessions", "rollback", "commit", "replace"}
Renaming == {"memory", "sessions", "rollback", "commit", "replace"}

\* A thread's locals: the session it answers for, deletes or renames, the new
\* name, and what it has seen of the registry and the memory.
Job == [pc : PC, of : SessionIds, to : SessionIds, registry : Registry, records : Memory]

Blank == [ids |-> {Default}, active |-> Default]
NoRecords == [r \in Records |-> NoSession]
Idle == [pc |-> "idle", of |-> Default, to |-> Default, registry |-> Blank, records |-> NoRecords]

\* Default is registered, and so is the session that is active.
Sound(registry) == Default \in registry.ids /\ registry.active \in registry.ids

TypeOK ==
    /\ sessions \in Registry /\ Sound(sessions)
    /\ sessionDoc \in Registry /\ Sound(sessionDoc)
    /\ memory \in Memory /\ memoryDoc \in Memory
    /\ job \in [Threads -> Job]
    /\ said \in 0..MaxRecords
    /\ faults \in 0..MaxFaults /\ crashes \in 0..MaxCrashes
    /\ torn \in BOOLEAN /\ halved \in BOOLEAN /\ stray \subseteq Records

Init ==
    /\ sessions = Blank /\ sessionDoc = Blank
    /\ memory = NoRecords /\ memoryDoc = NoRecords
    /\ job = [t \in Threads |-> Idle]
    /\ said = 0 /\ faults = 0 /\ crashes = 0
    /\ torn = FALSE /\ halved = FALSE /\ stray = {}

-----------------------------------------------------------------------------
At(t, pc) == job[t].pc = pc
Become(t, j) == job' = [job EXCEPT ![t] = j]
Fault == faults < MaxFaults /\ faults' = faults + 1

\* A write beside a rename that is under way in the other thread.
Tears(t) == torn' = (torn \/ \E u \in Threads \ {t} : job[u].pc \in Renaming)

\* The registry is persisted and replaced under its lock; if it cannot be
\* written the call fails and it stays.
Register(t, registry) ==
    \/ /\ sessionDoc' = registry /\ sessions' = registry
       /\ Tears(t)
       /\ UNCHANGED faults
    \/ Fault /\ UNCHANGED <<sessions, sessionDoc, torn>>

\* create, typed as a command.
Create ==
    /\ At(Worker, "idle")
    /\ \E s \in SessionIds \ sessions.ids :
          Register(Worker, [sessions EXCEPT !.ids = @ \cup {s}])
    /\ UNCHANGED <<memory, memoryDoc, job, said, crashes, halved, stray>>

\* set_active.
SetActive(t) ==
    /\ At(t, "idle")
    /\ \E s \in sessions.ids \ {sessions.active} :
          Register(t, [sessions EXCEPT !.active = s])
    /\ UNCHANGED <<memory, memoryDoc, job, said, crashes, halved, stray>>

-----------------------------------------------------------------------------
\* _process_conversation resolves the session of a message: the one it names,
\* if it is registered, or the active one.  The answer is composed after that.
Resolve ==
    /\ At(Worker, "idle")
    /\ said < MaxRecords
    /\ \E s \in sessions.ids : Become(Worker, [Idle EXCEPT !.pc = "answer", !.of = s])
    /\ UNCHANGED <<sessions, memory, documents, said, faults, crashes, history>>

\* MemoryManager.add, under the memory's lock.
Answer ==
    LET s == job[Worker].of
        r == said + 1
    IN /\ At(Worker, "answer")
       /\ \/ /\ memory' = [memory EXCEPT ![r] = s]
             /\ memoryDoc' = memory'
             /\ said' = r
             /\ stray' = IF s \in sessions.ids THEN stray ELSE stray \cup {r}
             /\ Tears(Worker)
             /\ UNCHANGED faults
          \/ Fault /\ UNCHANGED <<memory, memoryDoc, said, torn, stray>>
       /\ Become(Worker, Idle)
       /\ UNCHANGED <<sessions, sessionDoc, crashes, halved>>

-----------------------------------------------------------------------------
\* SessionDeleteService.delete, as far as its plan: not the default session,
\* not the active one, and none that a record names.
Deletable(s, registry) == s \in registry.ids \ {Default, registry.active}

PlanDelete(t) ==
    /\ At(t, "idle")
    /\ \E s \in SessionIds :
          /\ Deletable(s, sessions)
          /\ \A r \in Records : memory[r] # s
          /\ Become(t, [Idle EXCEPT !.pc = "delete", !.of = s, !.records = memory])
    /\ UNCHANGED <<sessions, memory, documents, said, faults, crashes, history>>

\* Variant: without run_if_snapshot_current.
DeleteAsPlanned(t) ==
    LET s == job[t].of IN
    /\ At(t, "delete")
    /\ \/ /\ Deletable(s, sessions)
          /\ Register(t, [sessions EXCEPT !.ids = @ \ {s}])
       \/ UNCHANGED <<sessions, sessionDoc, faults, torn>>
    /\ Become(t, Idle)
    /\ UNCHANGED <<memory, memoryDoc, said, crashes, halved, stray>>

\* run_if_snapshot_current and commit: under the memory's lock, while the
\* memory is what the plan has seen and the session may still be deleted.  It
\* is refused as well if the registry changes from its snapshot to its write.
Delete(t) ==
    LET s == job[t].of IN
    /\ At(t, "delete")
    /\ \/ /\ memory = job[t].records
          /\ Deletable(s, sessions)
          /\ Register(t, [sessions EXCEPT !.ids = @ \ {s}])
       \/ UNCHANGED <<sessions, sessionDoc, faults, torn>>
    /\ Become(t, Idle)
    /\ UNCHANGED <<memory, memoryDoc, said, crashes, halved, stray>>

-----------------------------------------------------------------------------
\* Variants: the active session keeps its old name; the records of other
\* sessions are left out.
RenamedButActive(registry, s, n) == [registry EXCEPT !.ids = (@ \ {s}) \cup {n}]

RenamedOnly(records, s, n) == [r \in Records |-> IF records[r] = s THEN n ELSE NoSession]

\* The candidate: the registry and the records, with s named n.
RenamedRegistry(registry, s, n) ==
    [ids |-> (registry.ids \ {s}) \cup {n},
     active |-> IF registry.active = s THEN n ELSE registry.active]

RenamedRecords(records, s, n) == [r \in Records |-> IF records[r] = s THEN n ELSE records[r]]

\* rename, as far as its candidate.  Its lock keeps out other renames alone.  The
\* registry and the memory are snapshotted one after the other, each under its
\* own lock; the two are one step here.
PlanRename(t) ==
    /\ At(t, "idle")
    /\ \A u \in Threads : job[u].pc \notin Renaming
    /\ \E s \in sessions.ids \ {Default}, n \in SessionIds \ sessions.ids :
          Become(t, [pc |-> "memory", of |-> s, to |-> n,
                     registry |-> sessions, records |-> memory])
    /\ UNCHANGED <<sessions, memory, documents, said, faults, crashes, history>>

\* persist_snapshot of the memory; nothing is done if it fails.
PersistMemory(t) ==
    LET j == job[t] IN
    /\ At(t, "memory")
    /\ \/ /\ memoryDoc' = RenamedRecords(j.records, j.of, j.to)
          /\ Become(t, [j EXCEPT !.pc = "sessions"])
          /\ UNCHANGED faults
       \/ Fault /\ Become(t, Idle) /\ UNCHANGED memoryDoc
    /\ UNCHANGED <<sessions, memory, sessionDoc, said, crashes, history>>

\* Variant: a failure is reported at once.
PersistSessionsOnly(t) ==
    LET j == job[t] IN
    /\ At(t, "sessions")
    /\ \/ /\ sessionDoc' = RenamedRegistry(j.registry, j.of, j.to)
          /\ Become(t, [j EXCEPT !.pc = "commit"])
          /\ UNCHANGED faults
       \/ Fault /\ Become(t, Idle) /\ UNCHANGED sessionDoc
    /\ UNCHANGED <<sessions, memory, memoryDoc, said, crashes, history>>

\* persist_snapshot of the registry, which may call for the memory's backup.
PersistSessions(t) ==
    LET j == job[t] IN
    /\ At(t, "sessions")
    /\ \/ /\ sessionDoc' = RenamedRegistry(j.registry, j.of, j.to)
          /\ Become(t, [j EXCEPT !.pc = "commit"])
          /\ UNCHANGED faults
       \/ Fault /\ Become(t, [j EXCEPT !.pc = "rollback"]) /\ UNCHANGED sessionDoc
    /\ UNCHANGED <<sessions, memory, memoryDoc, said, crashes, history>>

Rollback(t) ==
    /\ At(t, "rollback")
    /\ \/ memoryDoc' = job[t].records /\ UNCHANGED <<faults, halved>>
       \/ Fault /\ halved' = TRUE /\ UNCHANGED memoryDoc
    /\ Become(t, Idle)
    /\ UNCHANGED <<sessions, memory, sessionDoc, said, crashes, torn, stray>>

\* commit_snapshot of the registry, then of the memory.
CommitSessions(t) ==
    LET j == job[t] IN
    /\ At(t, "commit")
    /\ sessions' = RenamedRegistry(j.registry, j.of, j.to)
    /\ Become(t, [j EXCEPT !.pc = "replace"])
    /\ UNCHANGED <<memory, documents, said, faults, crashes, history>>

CommitMemory(t) ==
    LET j == job[t] IN
    /\ At(t, "replace")
    /\ memory' = RenamedRecords(j.records, j.of, j.to)
    /\ Become(t, Idle)
    /\ UNCHANGED <<sessions, documents, said, faults, crashes, history>>

-----------------------------------------------------------------------------
\* The process dies, and both documents are loaded.
Crash ==
    /\ crashes < MaxCrashes
    /\ crashes' = crashes + 1
    /\ sessions' = sessionDoc /\ memory' = memoryDoc
    /\ halved' = (halved \/ \E t \in Threads : job[t].pc \in {"sessions", "rollback"})
    /\ job' = [t \in Threads |-> Idle]
    /\ UNCHANGED <<documents, said, faults, torn, stray>>

Rename(t) ==
    \/ PlanRename(t) \/ PersistMemory(t) \/ PersistSessions(t) \/ Rollback(t)
    \/ CommitSessions(t) \/ CommitMemory(t)

Next ==
    \/ Create \/ Resolve \/ Answer
    \/ \E t \in Threads : SetActive(t) \/ PlanDelete(t) \/ Delete(t) \/ Rename(t)
    \/ Crash

Spec == Init /\ [][Next]_vars

-----------------------------------------------------------------------------
Settled == \A t \in Threads : job[t].pc \notin Renaming

\* Outside a rename both documents are what the process holds, also after a
\* rename that could not be written was taken back and after a restart.
SettledAgrees ==
    (Settled /\ ~torn /\ ~halved) => sessionDoc = sessions /\ memoryDoc = memory

\* Every record names a session that is registered, through deletions and
\* renames, unless its session went while the answer was composed.
RecordsHaveSession ==
    (Settled /\ ~torn /\ ~halved) =>
        \A r \in 1..said : memory[r] \in sessions.ids \/ r \in stray

\* An answer that was recorded is neither forgotten by the process nor gone
\* from its document, at any point of a rename or of its failure.
NoRecordLost ==
    ~torn => \A r \in 1..said : memory[r] # NoSession /\ memoryDoc[r] # NoSession
=============================================================================
