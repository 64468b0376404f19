----------------------------- MODULE SessionsProofs -----------------------------
(***************************************************************************)
(* Theorems of Sessions, for any sessions, answers, failed saves and       *)
(* restarts: a rename takes both documents and both memories from one name *)
(* to the other, or back, and loses no answer, as long as nothing is       *)
(* written beside it; and the registries stay sound.                       *)
(*                                                                         *)
(* The invariant says, for each step of a rename, which of the four is     *)
(* already the candidate and which is still what the rename began with.    *)
(***************************************************************************)
EXTENDS Sessions, TLAPS

InRename(t) == job[t].pc \in Renaming

\* The lock of the rename service.
Lone == \A t, u \in Threads : InRename(t) /\ InRename(u) => t = u

\* What a thread has planned is sound by what it has seen.
Planned(t) ==
    /\ InRename(t) =>
        /\ Sound(job[t].registry)
        /\ job[t].of \in job[t].registry.ids \ {Default} /\ job[t].to \notin job[t].registry.ids
    /\ job[t].pc = "delete" => \A r \in Records : job[t].records[r] # job[t].of
    /\ job[t].pc = "answer" => t = Worker /\ said < MaxRecords

\* Every answer names some session.
Whole(records) == \A r \in 1..said : records[r] # NoSession

\* Every answer names a session of the registry.
Named(records, registry) == \A r \in 1..said : records[r] \in registry.ids \/ r \in stray

Candidate(t) == RenamedRegistry(job[t].registry, job[t].of, job[t].to)
CandidateRecords(t) == RenamedRecords(job[t].records, job[t].of, job[t].to)

\* How far a rename has come.
Progress(t) == InRename(t) =>
    /\ Named(job[t].records, job[t].registry)
    /\ memory = job[t].records
    /\ memoryDoc = IF job[t].pc = "memory" THEN job[t].records ELSE CandidateRecords(t)
    /\ sessions = IF job[t].pc = "replace" THEN Candidate(t) ELSE job[t].registry
    /\ sessionDoc = IF job[t].pc \in {"commit", "replace"} THEN Candidate(t) ELSE job[t].registry

AtRest == sessionDoc = sessions /\ memoryDoc = memory /\ Named(memory, sessions)

KeptWhole == ~torn => Whole(memory) /\ Whole(memoryDoc) /\ \A t \in Threads : InRename(t) => Whole(job[t].records)

InStep == (~torn /\ ~halved) => (Settled => AtRest) /\ \A t \in Threads : Progress(t)

IInv == TypeOK /\ Lone /\ (\A t \in Threads : Planned(t)) /\ KeptWhole /\ InStep

LEMMA IdleTyped == Idle \in Job /\ Blank \in Registry /\ Sound(Blank) /\ NoRecords \in Memory
BY SessionsAssumption DEF Idle, Job, PC, Registry, Blank, Sound, NoRecords, Memory

LEMMA InitIInv == Init => IInv
<1> SUFFICES ASSUME Init PROVE IInv
    OBVIOUS
<1> USE DEF Init
<1>1. TypeOK
  <2>1. job \in [Threads -> Job]
      BY IdleTyped
  <2>2. 0 \in 0..MaxRecords /\ 0 \in 0..MaxFaults /\ 0 \in 0..MaxCrashes
      BY SessionsAssumption
  <2> QED  BY <2>1, <2>2, IdleTyped DEF TypeOK
<1>2. \A t \in Threads : job[t].pc = "idle"
    BY DEF Idle
<1>3. Lone /\ \A t \in Threads : Planned(t) /\ Progress(t)
    BY <1>2 DEF Lone, Planned, Progress, InRename, Renaming
<1>4. KeptWhole /\ AtRest
    BY <1>2 DEF KeptWhole, AtRest, Whole, Named, InRename, Renaming
<1> QED  BY <1>1, <1>3, <1>4 DEF IInv, InStep

-----------------------------------------------------------------------------
\* The candidate of a rename: sound, whole and named as its original is.
LEMMA RenamedTyped ==
    ASSUME NEW registry \in Registry, Sound(registry), NEW records \in Memory,
           NEW s \in registry.ids \ {Default}, NEW n \in SessionIds \ registry.ids
    PROVE  /\ RenamedRegistry(registry, s, n) \in Registry
           /\ Sound(RenamedRegistry(registry, s, n))
           /\ RenamedRecords(records, s, n) \in Memory
           /\ \A r \in Records : records[r] # NoSession => RenamedRecords(records, s, n)[r] # NoSession
           /\ \A r \in Records : records[r] \in registry.ids =>
                RenamedRecords(records, s, n)[r] \in RenamedRegistry(registry, s, n).ids
BY SessionsAssumption DEF Registry, Sound, Memory, RenamedRegistry, RenamedRecords

LEMMA CandidateTyped ==
    ASSUME IInv, NEW t \in Threads, InRename(t)
    PROVE  /\ Candidate(t) \in Registry /\ Sound(Candidate(t)) /\ CandidateRecords(t) \in Memory
           /\ Whole(job[t].records) => Whole(CandidateRecords(t))
           /\ Named(job[t].records, job[t].registry) => Named(CandidateRecords(t), Candidate(t))
<1>1. /\ job[t] \in Job /\ Sound(job[t].registry)
      /\ job[t].of \in job[t].registry.ids \ {Default} /\ job[t].to \in SessionIds \ job[t].registry.ids
    BY DEF IInv, TypeOK, Planned, Job
<1>2. 1..said \subseteq Records
    BY SessionsAssumption DEF IInv, TypeOK, Records
<1>3. job[t].registry \in Registry /\ job[t].records \in Memory
    BY <1>1 DEF Job
<1> QED  BY <1>1, <1>2, <1>3, RenamedTyped DEF Candidate, CandidateRecords, Whole, Named

\* A step after which thread t is not in a rename, nobody else is, and the
\* process and its documents agree.
LEMMA RestKeeps ==
    ASSUME IInv, NEW t \in Threads, NEW mine \in Job, Become(t, mine), mine.pc \notin Renaming,
           mine.pc = "delete" => \A r \in Records : mine.records[r] # mine.of,
           mine.pc = "answer" => t = Worker /\ said' < MaxRecords,
           t = Worker \/ said' = said,
           sessions' \in Registry, Sound(sessions)', sessionDoc' \in Registry, Sound(sessionDoc)',
           memory' \in Memory, memoryDoc' \in Memory, said' \in 0..MaxRecords,
           faults' \in 0..MaxFaults, crashes' = crashes, torn' \in BOOLEAN, halved' \in BOOLEAN,
           stray' \subseteq Records,
           ~torn' => Whole(memory)' /\ Whole(memoryDoc)',
           ~torn' => \A u \in Threads : u # t /\ InRename(u) => ~torn /\ said' = said,
           (~torn' /\ ~halved') => \/ \A u \in Threads : u # t => ~InRename(u)
                                   \/ ~torn /\ ~halved /\ UNCHANGED <<sessions, memory, documents, said, stray>>,
           (~torn' /\ ~halved' /\ \A u \in Threads : u # t => ~InRename(u)) => AtRest'
    PROVE  IInv'
<1>1. job' \in [Threads -> Job] /\ job'[t] = mine /\ \A u \in Threads : u # t => job'[u] = job[u]
    BY DEF Become, IInv, TypeOK
<1>2. TypeOK'
    BY <1>1 DEF IInv, TypeOK
<1>3. ~InRename(t)' /\ \A u \in Threads : u # t => (InRename(u)' <=> InRename(u))
    BY <1>1 DEF InRename
<1>4. Lone'
    BY <1>3 DEF IInv, Lone
<1>5. ASSUME NEW u \in Threads  PROVE Planned(u)'
  <2>1. CASE u = t
      BY <1>1, <1>3, <2>1 DEF Planned
  <2>2. CASE u # t
      BY <1>1, <1>3, <2>2 DEF IInv, Planned
  <2> QED  BY <2>1, <2>2
<1>6. KeptWhole'
  <2>1. ASSUME ~torn', NEW u \in Threads, InRename(u)'  PROVE Whole(job[u].records)'
      BY <1>1, <1>3, <2>1 DEF IInv, KeptWhole, Whole
  <2> QED  BY <2>1 DEF KeptWhole
<1>7. Settled' <=> \A u \in Threads : u # t => ~InRename(u)
    BY <1>3 DEF Settled, InRename
<1>8. ASSUME ~torn', ~halved', NEW u \in Threads, InRename(u)'  PROVE Progress(u)'
  <2>1. u # t /\ InRename(u) /\ ~torn /\ ~halved
      BY <1>3, <1>8
  <2>2. UNCHANGED <<sessions, memory, documents, said, stray>>
      BY <1>3, <1>8
  <2>3. Progress(u) /\ job'[u] = job[u]
      BY <1>1, <2>1 DEF IInv, InStep
  <2> QED  BY <2>1, <2>2, <2>3 DEF Progress, Named, Candidate, CandidateRecords, documents
<1>9. InStep'
  <2>1. ASSUME ~torn', ~halved', NEW u \in Threads  PROVE Progress(u)'
      BY <1>8, <2>1 DEF Progress
  <2> QED  BY <1>7, <2>1 DEF InStep
<1> QED  BY <1>2, <1>4, <1>5, <1>6, <1>9 DEF IInv

\* A step of a rename itself, which nobody else is in.
LEMMA MoveKeeps ==
    ASSUME IInv, NEW t \in Threads, NEW mine \in Job, Become(t, mine), mine.pc \in Renaming,
           \A u \in Threads : u # t => ~InRename(u),
           Sound(mine.registry), mine.of \in mine.registry.ids \ {Default}, mine.to \notin mine.registry.ids,
           sessions' \in Registry, Sound(sessions)', sessionDoc' \in Registry, Sound(sessionDoc)',
           memory' \in Memory, memoryDoc' \in Memory, faults' \in 0..MaxFaults,
           UNCHANGED <<said, crashes, torn, halved, stray>>,
           ~torn => Whole(memory)' /\ Whole(memoryDoc)' /\ Whole(mine.records),
           (~torn /\ ~halved) => Progress(t)'
    PROVE  IInv'
<1>1. job' \in [Threads -> Job] /\ job'[t] = mine /\ \A u \in Threads : u # t => job'[u] = job[u]
    BY DEF Become, IInv, TypeOK
<1>2. TypeOK'
    BY <1>1 DEF IInv, TypeOK
<1>3. InRename(t)' /\ \A u \in Threads : u # t => ~InRename(u)'
    BY <1>1 DEF InRename
<1>4. Lone'
    BY <1>3 DEF Lone
<1>5. ASSUME NEW u \in Threads  PROVE Planned(u)'
  <2>1. CASE u = t
      BY <1>1, <2>1 DEF Planned, Renaming
  <2>2. CASE u # t
      BY <1>1, <1>3, <2>2 DEF IInv, Planned
  <2> QED  BY <2>1, <2>2
<1>6. KeptWhole'
  <2>1. ASSUME ~torn, NEW u \in Threads, InRename(u)'  PROVE Whole(job[u].records)'
      BY <1>1, <1>3, <2>1 DEF Whole
  <2> QED  BY <2>1 DEF KeptWhole
<1>7. ~Settled'
    BY <1>3 DEF Settled, InRename
<1>8. ASSUME ~torn', ~halved', NEW u \in Threads  PROVE Progress(u)'
  <2>1. CASE u = t
      BY <1>8, <2>1
  <2>2. CASE u # t
      BY <1>3, <2>2 DEF Progress
  <2> QED  BY <2>1, <2>2
<1>9. InStep'
    BY <1>7, <1>8 DEF InStep
<1> QED  BY <1>2, <1>4, <1>5, <1>6, <1>9 DEF IInv

-----------------------------------------------------------------------------
\* A thread that is in no rename writes the registry, and the names the
\* records use stay in it.
LEMMA RegisterKeeps ==
    ASSUME IInv, NEW t \in Threads, ~InRename(t), NEW registry \in Registry, Sound(registry),
           NEW mine \in Job, Become(t, mine), mine.pc = "idle",
           Register(t, registry) \/ UNCHANGED <<sessions, sessionDoc, faults, torn>>,
           sessions' = registry => \A r \in Records : memory[r] \in sessions.ids => memory[r] \in registry.ids,
           UNCHANGED <<memory, memoryDoc, said, crashes, halved, stray>>
    PROVE  IInv'
<1> USE DEF IInv, TypeOK
<1>1. mine.pc \notin Renaming /\ mine.pc # "delete"
    BY DEF Renaming
<1>2. faults' \in 0..MaxFaults
    BY SessionsAssumption DEF Register, Fault
<1>3. /\ sessions' \in Registry /\ Sound(sessions)' /\ sessionDoc' \in Registry /\ Sound(sessionDoc)'
      /\ torn' \in BOOLEAN
    BY DEF Register, Tears, Sound
<1>4. \/ UNCHANGED <<sessions, sessionDoc, torn>>
      \/ /\ sessions' = registry /\ sessionDoc' = registry
         /\ torn' = (torn \/ \E u \in Threads : u # t /\ InRename(u))
    BY DEF Register, Tears, InRename
<1>5. ~torn' => Whole(memory)' /\ Whole(memoryDoc)'
    BY <1>4 DEF KeptWhole, Whole
<1>6. ~torn' /\ ~halved' => \/ \A u \in Threads : u # t => ~InRename(u)
                            \/ ~torn /\ ~halved /\ UNCHANGED <<sessions, memory, documents, said, stray>>
    BY <1>4 DEF documents
<1>7. ASSUME ~torn', ~halved', \A u \in Threads : u # t => ~InRename(u)  PROVE AtRest'
  <2>1. Settled /\ AtRest
      BY <1>4, <1>7 DEF Settled, InRename, InStep
  <2>2. 1..said \subseteq Records
      BY SessionsAssumption DEF Records
  <2> QED  BY <1>4, <2>1, <2>2 DEF AtRest, Named
<1>8. \A u \in Threads : u # t /\ InRename(u) /\ ~torn' => ~torn /\ said' = said
    BY <1>4
<1> QED  BY <1>1, <1>2, <1>3, <1>5, <1>6, <1>7, <1>8, RestKeeps

\* Creating and selecting sessions.
LEMMA RegistryKeeps ==
    ASSUME IInv, Create \/ \E t \in Threads : SetActive(t)
    PROVE  IInv'
<1> USE DEF IInv, TypeOK
<1>1. PICK t \in Threads : (t = Worker /\ Create) \/ SetActive(t)
    BY DEF Threads
<1>2. Become(t, job[t]) /\ job[t] \in Job /\ job[t].pc = "idle" /\ ~InRename(t)
    BY <1>1 DEF Create, SetActive, Become, At, InRename, Renaming
<1>3. CASE Create /\ t = Worker
  <2>1. PICK s \in SessionIds \ sessions.ids : Register(t, [sessions EXCEPT !.ids = @ \cup {s}])
      BY <1>3 DEF Create
  <2> DEFINE new == [sessions EXCEPT !.ids = @ \cup {s}]
  <2>2. new \in Registry /\ Sound(new) /\ sessions.ids \subseteq new.ids
      BY DEF Registry, Sound
  <2> HIDE DEF new
  <2> QED  BY <1>2, <1>3, <2>1, <2>2, RegisterKeeps DEF Create, new
<1>4. CASE SetActive(t)
  <2>1. PICK s \in sessions.ids \ {sessions.active} : Register(t, [sessions EXCEPT !.active = s])
      BY <1>4 DEF SetActive
  <2> DEFINE new == [sessions EXCEPT !.active = s]
  <2>2. new \in Registry /\ Sound(new) /\ sessions.ids = new.ids
      BY DEF Registry, Sound
  <2> HIDE DEF new
  <2> QED  BY <1>2, <1>4, <2>1, <2>2, RegisterKeeps DEF SetActive, new
<1> QED  BY <1>1, <1>3, <1>4

\* What changes nothing but a thread's plan.
LEMMA PlanKeeps ==
    ASSUME IInv, NEW t \in Threads, ~InRename(t), NEW mine \in Job, Become(t, mine),
           mine.pc \notin Renaming, mine.pc = "delete" => \A r \in Records : mine.records[r] # mine.of,
           mine.pc = "answer" => t = Worker /\ said < MaxRecords,
           UNCHANGED <<sessions, memory, documents, said, faults, crashes, history>>
    PROVE  IInv'
<1> USE DEF IInv, TypeOK, documents, history
<1>1. Sound(sessions)' /\ Sound(sessionDoc)'
    BY DEF Sound
<1>2. ~torn' => Whole(memory)' /\ Whole(memoryDoc)'
    BY DEF KeptWhole, Whole
<1>3. ~torn' /\ ~halved' /\ (\A u \in Threads : u # t => ~InRename(u)) => AtRest'
    BY DEF InStep, Settled, AtRest, Named, InRename
<1> QED  BY <1>1, <1>2, <1>3, RestKeeps

LEMMA ResolveKeeps == ASSUME IInv, Resolve  PROVE IInv'
<1>1. PICK s \in sessions.ids : Become(Worker, [Idle EXCEPT !.pc = "answer", !.of = s])
    BY DEF Resolve
<1> DEFINE mine == [Idle EXCEPT !.pc = "answer", !.of = s]
<1>2. mine \in Job /\ mine.pc = "answer"
    BY IdleTyped DEF Idle, Job, PC, IInv, TypeOK, Registry
<1>3. ~InRename(Worker) /\ Worker \in Threads
    BY DEF Resolve, At, InRename, Renaming, Threads
<1> HIDE DEF mine
<1> QED  BY <1>1, <1>2, <1>3, PlanKeeps DEF Resolve, mine, Renaming

LEMMA PlanDeleteKeeps == ASSUME IInv, NEW t \in Threads, PlanDelete(t)  PROVE IInv'
<1>1. PICK s \in SessionIds :
        /\ \A r \in Records : memory[r] # s
        /\ Become(t, [Idle EXCEPT !.pc = "delete", !.of = s, !.records = memory])
    BY DEF PlanDelete
<1> DEFINE mine == [Idle EXCEPT !.pc = "delete", !.of = s, !.records = memory]
<1>2. mine \in Job /\ mine.pc = "delete" /\ mine.of = s /\ mine.records = memory
    BY IdleTyped DEF Idle, Job, PC, IInv, TypeOK
<1>3. ~InRename(t)
    BY DEF PlanDelete, At, InRename, Renaming
<1> HIDE DEF mine
<1> QED  BY <1>1, <1>2, <1>3, PlanKeeps DEF PlanDelete, mine, Renaming

\* What is deleted was named by no record, and the memory has not changed.
LEMMA DeleteKeeps == ASSUME IInv, NEW t \in Threads, Delete(t)  PROVE IInv'
<1> DEFINE s == job[t].of
           new == [sessions EXCEPT !.ids = @ \ {s}]
<1>1. /\ Become(t, Idle) /\ Idle \in Job /\ Idle.pc = "idle" /\ ~InRename(t)
      /\ \A r \in Records : job[t].records[r] # s
      /\ UNCHANGED <<memory, memoryDoc, said, crashes, halved, stray>>
    BY IdleTyped DEF Delete, Idle, At, InRename, Renaming, IInv, Planned
<1>2. CASE memory = job[t].records /\ Deletable(s, sessions) /\ Register(t, new)
  <2>1. new \in Registry /\ Sound(new) /\ \A n \in sessions.ids : n # s => n \in new.ids
      BY <1>2 DEF Deletable, Registry, Sound, IInv, TypeOK
  <2>2. \A r \in Records : memory[r] \in sessions.ids => memory[r] \in new.ids
      BY <1>1, <1>2, <2>1
  <2> HIDE DEF new
  <2> QED  BY <1>1, <1>2, <2>1, <2>2, RegisterKeeps
<1>3. CASE UNCHANGED <<sessions, sessionDoc, faults, torn>>
    BY <1>1, <1>3, RegisterKeeps DEF IInv, TypeOK
<1> QED  BY <1>2, <1>3 DEF Delete

\* An answer: recorded in memory and document, for its session or astray.
LEMMA AnswerKeeps == ASSUME IInv, Answer  PROVE IInv'
<1> DEFINE s == job[Worker].of
           r == said + 1
<1> USE DEF IInv, TypeOK, documents
<1>1. /\ Worker \in Threads /\ Become(Worker, Idle) /\ Idle \in Job /\ Idle.pc = "idle" /\ ~InRename(Worker)
      /\ Idle.pc \notin Renaming /\ UNCHANGED <<sessions, sessionDoc, crashes, halved>>
      /\ s \in SessionIds
    BY IdleTyped DEF Answer, Idle, At, InRename, Renaming, Threads, Job
<1>2. Sound(sessions)' /\ Sound(sessionDoc)'
    BY <1>1 DEF Sound
<1>3. CASE Fault /\ UNCHANGED <<memory, memoryDoc, said, torn, stray>>
  <2>1. faults' \in 0..MaxFaults
      BY <1>3, SessionsAssumption DEF Fault
  <2>2. ~torn' => Whole(memory)' /\ Whole(memoryDoc)'
      BY <1>3 DEF KeptWhole, Whole
  <2>3. ~torn' /\ ~halved' /\ (\A u \in Threads : u # Worker => ~InRename(u)) => AtRest'
      BY <1>1, <1>3 DEF InStep, Settled, AtRest, Named, InRename
  <2> QED  BY <1>1, <1>2, <1>3, <2>1, <2>2, <2>3, RestKeeps
<1>4. CASE /\ memory' = [memory EXCEPT ![r] = s]
           /\ memoryDoc' = memory'
           /\ said' = r
           /\ stray' = IF s \in sessions.ids THEN stray ELSE stray \cup {r}
           /\ Tears(Worker)
           /\ UNCHANGED faults
  <2>1. torn' \in BOOLEAN /\ torn' = (torn \/ \E u \in Threads : u # Worker /\ InRename(u))
      BY <1>4 DEF Tears, InRename
  <2>2. said < MaxRecords /\ said \in Nat
      BY <1>1, SessionsAssumption DEF Answer, At, Planned
  <2>3. r \in Records /\ said' = r /\ said' \in 0..MaxRecords /\ 1..said' = (1..said) \cup {r}
      BY <1>4, <2>2, SessionsAssumption DEF Records
  <2>4. /\ memory' \in Memory /\ memoryDoc' \in Memory /\ stray' \subseteq Records
        /\ memory'[r] = s /\ memoryDoc' = memory'
        /\ \A i \in 1..said : memory'[i] = memory[i]
      BY <1>1, <1>4, <2>2, <2>3, SessionsAssumption DEF Memory, Records
  <2>5. ~torn' => Whole(memory)' /\ Whole(memoryDoc)'
      BY <1>1, <2>1, <2>3, <2>4, SessionsAssumption DEF KeptWhole, Whole
  <2>6. ASSUME ~torn', ~halved', \A u \in Threads : u # Worker => ~InRename(u)  PROVE AtRest'
    <3>1. AtRest
        BY <1>1, <2>1, <2>6 DEF InStep, Settled, InRename
    <3>2. \A i \in 1..said : memory'[i] \in sessions'.ids \/ i \in stray'
        BY <1>1, <1>4, <2>4, <3>1 DEF AtRest, Named
    <3>3. memory'[r] \in sessions'.ids \/ r \in stray'
        BY <1>1, <1>4, <2>4
    <3>4. Named(memory, sessions)'
        BY <2>3, <3>2, <3>3 DEF Named
    <3> QED  BY <1>1, <2>4, <3>1, <3>4 DEF AtRest
  <2>7. ~torn' => \A u \in Threads : u # Worker => ~InRename(u)
      BY <2>1
  <2>8. UNCHANGED faults
      BY <1>4
  <2> QED  BY <1>1, <1>2, <2>1, <2>3, <2>4, <2>5, <2>6, <2>7, <2>8, RestKeeps
<1> QED  BY <1>3, <1>4 DEF Answer

-----------------------------------------------------------------------------
\* A rename begins alone, with what the process and its documents agree on.
LEMMA PlanRenameKeeps == ASSUME IInv, NEW t \in Threads, PlanRename(t)  PROVE IInv'
<1> USE DEF IInv, TypeOK, documents, history
<1>1. PICK s \in sessions.ids \ {Default}, n \in SessionIds \ sessions.ids :
        Become(t, [pc |-> "memory", of |-> s, to |-> n, registry |-> sessions, records |-> memory])
    BY DEF PlanRename
<1> DEFINE mine == [pc |-> "memory", of |-> s, to |-> n, registry |-> sessions, records |-> memory]
<1>2. /\ mine \in Job /\ mine.pc = "memory" /\ mine.of = s /\ mine.to = n
      /\ mine.registry = sessions /\ mine.records = memory
    BY DEF Job, PC, Registry
<1>3. Become(t, mine)
    BY <1>1
<1> HIDE DEF mine
<1>4. /\ \A u \in Threads : ~InRename(u)
      /\ UNCHANGED <<sessions, memory, documents, said, faults, crashes, history>>
    BY DEF PlanRename, InRename
<1>5. Sound(sessions)' /\ Sound(sessionDoc)'
    BY <1>4 DEF Sound
<1>6. ~torn => Whole(memory)' /\ Whole(memoryDoc)' /\ Whole(mine.records)
    BY <1>2, <1>4 DEF KeptWhole, Whole
<1>7. job'[t] = mine
    BY <1>3 DEF Become
<1>8. ~torn /\ ~halved => Progress(t)'
    BY <1>2, <1>4, <1>7 DEF InStep, Settled, InRename, AtRest, Named, Progress
<1> QED  BY <1>2, <1>3, <1>4, <1>5, <1>6, <1>8, MoveKeeps DEF Renaming

\* What holds of every thread that is in a rename, and of what it has planned.
LEMMA RenamingFacts ==
    ASSUME IInv, NEW t \in Threads, InRename(t)
    PROVE  /\ \A u \in Threads : u # t => ~InRename(u)
           /\ job[t] \in Job
           /\ ~torn => Whole(memory) /\ Whole(memoryDoc) /\ Whole(job[t].records) /\ Whole(CandidateRecords(t))
           /\ (~torn /\ ~halved) => Progress(t)
           /\ Sound(job[t].registry)
           /\ job[t].of \in job[t].registry.ids \ {Default} /\ job[t].to \notin job[t].registry.ids
BY CandidateTyped DEF IInv, TypeOK, Lone, Planned, KeptWhole, InStep, InRename, Idle, Renaming

\* The steps of a rename that lead to its next one.
LEMMA NextMove ==
    ASSUME IInv, NEW t \in Threads, InRename(t), NEW pc \in Renaming,
           Become(t, [job[t] EXCEPT !.pc = pc]),
           sessions' = sessions \/ sessions' = Candidate(t),
           sessionDoc' = sessionDoc \/ sessionDoc' = Candidate(t),
           memoryDoc' = memoryDoc \/ memoryDoc' = CandidateRecords(t),
           faults' \in 0..MaxFaults,
           UNCHANGED <<memory, said, crashes, torn, halved, stray>>,
           (~torn /\ ~halved /\ Progress(t)) =>
               /\ memoryDoc' = IF pc = "memory" THEN job[t].records ELSE CandidateRecords(t)
               /\ sessions' = IF pc = "replace" THEN Candidate(t) ELSE job[t].registry
               /\ sessionDoc' = IF pc \in {"commit", "replace"} THEN Candidate(t) ELSE job[t].registry
    PROVE  IInv'
<1> DEFINE mine == [job[t] EXCEPT !.pc = pc]
<1> USE DEF IInv, TypeOK
<1>1. /\ mine \in Job /\ mine.pc = pc /\ mine.of = job[t].of /\ mine.to = job[t].to
      /\ mine.registry = job[t].registry /\ mine.records = job[t].records
    BY DEF Job, PC, Renaming
<1>2. Become(t, mine)
    OBVIOUS
<1> HIDE DEF mine
<1>3. /\ Candidate(t) \in Registry /\ Sound(Candidate(t)) /\ CandidateRecords(t) \in Memory
    BY CandidateTyped
<1>4. /\ sessions' \in Registry /\ Sound(sessions)' /\ sessionDoc' \in Registry /\ Sound(sessionDoc)'
      /\ memory' \in Memory /\ memoryDoc' \in Memory
    BY <1>3 DEF Sound
<1>5. job'[t] = mine
    BY <1>2 DEF Become
<1>6. ~torn => Whole(memory)' /\ Whole(memoryDoc)' /\ Whole(mine.records)
    BY <1>1, RenamingFacts DEF Whole
<1>7. Candidate(t)' = Candidate(t) /\ CandidateRecords(t)' = CandidateRecords(t)
    BY <1>1, <1>5 DEF Candidate, CandidateRecords
<1>8. ~torn /\ ~halved => Progress(t)'
    BY <1>1, <1>5, <1>7, RenamingFacts DEF Progress, Named
<1> QED  BY <1>1, <1>2, <1>4, <1>6, <1>8, RenamingFacts, MoveKeeps

\* The steps that end a rename, with what it began with or with its candidate.
LEMMA LastMove ==
    ASSUME IInv, NEW t \in Threads, InRename(t), Become(t, Idle),
           memory' = memory \/ memory' = CandidateRecords(t),
           memoryDoc' = memoryDoc \/ memoryDoc' = job[t].records,
           faults' \in 0..MaxFaults, halved' \in BOOLEAN, halved => halved',
           UNCHANGED <<sessions, sessionDoc, said, crashes, torn, stray>>,
           (~torn /\ ~halved' /\ Progress(t)) =>
               \/ /\ sessions = job[t].registry /\ sessionDoc = sessions
                  /\ memory' = memory /\ memoryDoc' = memory
               \/ /\ sessions = Candidate(t) /\ sessionDoc = sessions
                  /\ memory' = CandidateRecords(t) /\ memoryDoc' = memory'
    PROVE  IInv'
<1> USE DEF IInv, TypeOK
<1>1. Idle \in Job /\ Idle.pc = "idle" /\ Idle.pc \notin Renaming
    BY IdleTyped DEF Idle, Renaming
<1>2. job[t] \in Job /\ CandidateRecords(t) \in Memory /\ job[t].records \in Memory
    BY CandidateTyped DEF Job
<1>3. /\ Sound(sessions)' /\ Sound(sessionDoc)' /\ memory' \in Memory /\ memoryDoc' \in Memory
    BY <1>2 DEF Sound
<1>4. ~torn' => Whole(memory)' /\ Whole(memoryDoc)'
    BY RenamingFacts DEF Whole
<1>5. ASSUME ~torn', ~halved'  PROVE AtRest'
  <2>1. Progress(t) /\ Named(job[t].records, job[t].registry) /\ Named(CandidateRecords(t), Candidate(t))
        /\ memory = job[t].records
      BY <1>5, RenamingFacts, CandidateTyped DEF Progress
  <2> QED  BY <1>5, <2>1 DEF AtRest, Named
<1>6. \A u \in Threads : u # t => ~InRename(u)
    BY RenamingFacts
<1> QED  BY <1>1, <1>3, <1>4, <1>5, <1>6, RestKeeps

LEMMA RenameKeeps == ASSUME IInv, NEW t \in Threads, Rename(t)  PROVE IInv'
<1> USE DEF documents, history, Candidate, CandidateRecords, At
<1>1. CASE PlanRename(t)
    BY <1>1, PlanRenameKeeps
<1>2. ASSUME Fault  PROVE faults' \in 0..MaxFaults
    BY <1>2, SessionsAssumption DEF Fault, IInv, TypeOK
<1>3. faults \in 0..MaxFaults /\ halved \in BOOLEAN
    BY DEF IInv, TypeOK
<1>4. CASE PersistMemory(t)
  <2>1. InRename(t) /\ job[t].pc = "memory"
      BY <1>4 DEF PersistMemory, InRename, Renaming
  <2>2. CASE Become(t, Idle) /\ Fault /\ UNCHANGED memoryDoc
      BY <1>2, <1>3, <1>4, <2>1, <2>2, LastMove DEF PersistMemory, Progress
  <2>3. CASE Become(t, [job[t] EXCEPT !.pc = "sessions"]) /\ memoryDoc' = CandidateRecords(t) /\ UNCHANGED faults
      BY <1>3, <1>4, <2>1, <2>3, NextMove DEF PersistMemory, Progress, Renaming
  <2> QED  BY <1>4, <2>2, <2>3 DEF PersistMemory
<1>5. CASE PersistSessions(t)
  <2>1. InRename(t) /\ job[t].pc = "sessions"
      BY <1>5 DEF PersistSessions, InRename, Renaming
  <2>2. CASE Become(t, [job[t] EXCEPT !.pc = "rollback"]) /\ Fault /\ UNCHANGED sessionDoc
      BY <1>2, <1>5, <2>1, <2>2, NextMove DEF PersistSessions, Progress, Renaming
  <2>3. CASE Become(t, [job[t] EXCEPT !.pc = "commit"]) /\ sessionDoc' = Candidate(t) /\ UNCHANGED faults
      BY <1>3, <1>5, <2>1, <2>3, NextMove DEF PersistSessions, Progress, Renaming
  <2> QED  BY <1>5, <2>2, <2>3 DEF PersistSessions
<1>6. CASE Rollback(t)
  <2>1. InRename(t) /\ job[t].pc = "rollback"
      BY <1>6 DEF Rollback, InRename, Renaming
  <2>2. CASE Fault /\ halved' = TRUE /\ UNCHANGED memoryDoc
      BY <1>2, <1>6, <2>1, <2>2, LastMove DEF Rollback
  <2>3. CASE memoryDoc' = job[t].records /\ UNCHANGED <<faults, halved>>
      BY <1>3, <1>6, <2>1, <2>3, LastMove DEF Rollback, Progress
  <2> QED  BY <1>6, <2>2, <2>3 DEF Rollback
<1>7. CASE CommitSessions(t)
  <2>1. InRename(t) /\ job[t].pc = "commit"
      BY <1>7 DEF CommitSessions, InRename, Renaming
  <2> QED  BY <1>3, <1>7, <2>1, NextMove DEF CommitSessions, Progress, Renaming
<1>8. CASE CommitMemory(t)
  <2>1. InRename(t) /\ job[t].pc = "replace"
      BY <1>8 DEF CommitMemory, InRename, Renaming
  <2> QED  BY <1>3, <1>8, <2>1, LastMove DEF CommitMemory, Progress
<1> QED  BY <1>1, <1>4, <1>5, <1>6, <1>7, <1>8 DEF Rename

\* The new process has what the documents have: both as before, or both as
\* after a rename, unless it was between its two writes.
LEMMA CrashKeeps == ASSUME IInv, Crash  PROVE IInv'
<1> USE DEF IInv, TypeOK, documents
<1>1. /\ job' = [t \in Threads |-> Idle] /\ sessions' = sessionDoc /\ memory' = memoryDoc
      /\ UNCHANGED <<sessionDoc, memoryDoc, said, faults, torn, stray>>
    BY DEF Crash
<1>2. \A t \in Threads : job'[t].pc = "idle"
    BY <1>1 DEF Idle
<1>3. job' \in [Threads -> Job]
    BY <1>1, IdleTyped
<1>4. crashes' \in 0..MaxCrashes /\ halved' \in BOOLEAN
    BY SessionsAssumption DEF Crash
<1>5. TypeOK'
    BY <1>1, <1>3, <1>4 DEF Sound
<1>6. Lone' /\ \A t \in Threads : Planned(t)' /\ Progress(t)' /\ ~InRename(t)'
    BY <1>2 DEF Lone, Planned, Progress, InRename, Renaming
<1>7. KeptWhole'
    BY <1>1, <1>6 DEF KeptWhole, Whole
<1>8. ASSUME ~torn, ~halved'  PROVE Named(memoryDoc, sessionDoc)
  <2>1. ~halved /\ \A t \in Threads : job[t].pc \notin {"sessions", "rollback"}
      BY <1>8 DEF Crash
  <2>2. CASE Settled
      BY <1>8, <2>1, <2>2 DEF InStep, AtRest
  <2>3. ASSUME NEW t \in Threads, InRename(t)  PROVE Named(memoryDoc, sessionDoc)
    <3>1. Progress(t) /\ job[t].pc \in {"memory", "commit", "replace"}
        BY <1>8, <2>1, <2>3 DEF InStep, InRename, Renaming
    <3>2. Named(job[t].records, job[t].registry) /\ Named(CandidateRecords(t), Candidate(t))
        BY <2>3, <3>1, CandidateTyped DEF Progress
    <3> QED  BY <2>3, <3>1, <3>2 DEF Progress
  <2> QED  BY <2>2, <2>3 DEF Settled, InRename
<1>9. InStep'
    BY <1>1, <1>6, <1>8 DEF InStep, AtRest, Named
<1> QED  BY <1>5, <1>6, <1>7, <1>9

LEMMA StepIInv == IInv /\ [Next]_vars => IInv'
<1> SUFFICES ASSUME IInv, [Next]_vars PROVE IInv'
    OBVIOUS
<1>1. CASE UNCHANGED vars
    BY <1>1 DEF vars, documents, history, IInv, TypeOK, Sound, Lone, Planned, KeptWhole, InStep, Whole, Named,
        Progress, AtRest, Settled, InRename, Candidate, CandidateRecords
<1>2. CASE Next
    BY <1>2, RegistryKeeps, ResolveKeeps, AnswerKeeps, PlanDeleteKeeps, DeleteKeeps, RenameKeeps, CrashKeeps
    DEF Next
<1> QED  BY <1>1, <1>2

-----------------------------------------------------------------------------
\* The inductive invariant holds of every reachable state.
THEOREM Invariance == Spec => []IInv
BY InitIInv, StepIInv, PTL DEF Spec

\* Both registries keep the default session and an active one that is theirs,
\* through every rename, deletion, failed save and restart.
THEOREM Typing == Spec => []TypeOK
<1>1. IInv => TypeOK
    BY DEF IInv
<1> QED  BY <1>1, Invariance, PTL

\* Outside a rename the process and its documents agree.
THEOREM Agreement == Spec => []SettledAgrees
<1>1. IInv => SettledAgrees
    BY DEF IInv, InStep, AtRest, SettledAgrees
<1> QED  BY <1>1, Invariance, PTL

\* Every record names a session that is there, unless it went astray.
THEOREM Sessioned == Spec => []RecordsHaveSession
<1>1. IInv => RecordsHaveSession
    BY DEF IInv, InStep, AtRest, Named, RecordsHaveSession
<1> QED  BY <1>1, Invariance, PTL

\* No answer is lost by a rename that nothing is written beside, whatever fails.
THEOREM NothingLost == Spec => []NoRecordLost
<1>1. IInv => NoRecordLost
    BY DEF IInv, KeptWhole, Whole, NoRecordLost
<1> QED  BY <1>1, Invariance, PTL
=============================================================================
