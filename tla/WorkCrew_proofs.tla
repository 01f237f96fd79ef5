-------------------------- MODULE WorkCrew_proofs --------------------------
(***************************************************************************)
(* The types, the slot table and the size of the crew, then what happens   *)
(* to its jobs, and that a crew that runs keeps a worker, for any number   *)
(* of jobs and workers.                                                    *)
(***************************************************************************)
EXTENDS WorkCrew, FiniteSetTheorems, SequenceTheorems, TLAPS

\* The places of addWorker at which it has a slot.
Filling == {"launch", "start", "clear", "delete", "release"}

\* The holder of m_addWorker is the addJob call or the owner that is in its
\* loop; from getSlot to addWorker's end it has a slot; nobody adds workers
\* to a crew that is destroyed.
AddingInv ==
  /\ apc = "none" <=> addLock = NULL
  /\ \A j \in Jobs : cpc[j] = "growing" <=> addLock = j
  /\ opc = "starting" <=> addLock = "owner"
  /\ apc \in Filling => newSlot \in DOMAIN crew
  /\ discard => /\ addLock = NULL
                /\ \A j \in Jobs : cpc[j] \in {"new", "returned"}
                /\ opc \in {"stopAll", "shutdown", "noWaiting", "join", "futexWait",
                            "restop", "finish", "dlock", "deleted"} \cup StopLoops

\* Until the crew is destroyed every worker sits in its slot, except the one
\* that failed to start and has left it; the one that was created and not
\* started, or failed to start, is the one addWorker is at.
MemberInv ==
  ~discard =>
    /\ \A w \in Workers :
         IF wpc[w] = "free" THEN slot[w] = -1
         ELSE /\ slot[w] \in DOMAIN crew
              /\ crew[slot[w]] = w \/ (wpc[w] = "failed" /\ apc = "delete")
    /\ \A s \in DOMAIN crew : crew[s] # NULL => slot[crew[s]] = s
    /\ \A w \in Workers : wpc[w] = "created" => apc = "start" /\ crew[newSlot] = w
    /\ apc = "start" => crew[newSlot] # NULL /\ wpc[crew[newSlot]] = "created"
    /\ \A w \in Workers :
         wpc[w] = "failed" => apc \in {"clear", "delete"} /\ slot[w] = newSlot
    /\ apc = "clear" => crew[newSlot] # NULL /\ wpc[crew[newSlot]] = "failed"
    /\ \A v, w \in Workers : wpc[v] = "failed" /\ wpc[w] = "failed" => v = w

\* Free slots are listed once, are empty, and are not the one being filled.
FreeInv ==
  ~discard =>
    /\ IsInjective(emptySlots)
    /\ \A i \in DOMAIN emptySlots : crew[emptySlots[i]] = NULL
    /\ apc \in {"launch", "delete", "release"} =>
         /\ crew[newSlot] = NULL
         /\ \A i \in DOMAIN emptySlots : emptySlots[i] # newSlot

At(places) == {w \in Workers : wpc[w] \in places}
Counted == Looping \cup {"created", "exit", "dying", "segv"}

\* The counters cover the workers they count.
CountInv ==
  /\ Cardinality(At(Idling)) <= idle
  /\ Cardinality(At(Counted)) <= running

IInv == TypeOK /\ AddingInv /\ MemberInv /\ FreeInv /\ CountInv

\* The owner does not lower the limit of a crew that runs.
LimitKept ==
  /\ \A n \in MaxChoices : n >= MaxWorkers
  /\ \A m, n \in MaxChoices : m = n

\* Before the start there is no worker; from then on the limit is one of two
\* values, and whoever is about to launch a worker has seen room for it.
LimitInv ==
  /\ state = "TO_START" => running = 0 /\ apc \in {"none", "loop"}
  /\ opc = "start" => Deferred /\ state = "TO_START" /\ maxWorkers = MaxWorkers
  /\ opc \in {"startLock", "starting", "stopAll", "shutdown", "noWaiting", "join",
              "futexWait", "restop"} \cup StopLoops => state # "TO_START"
  /\ state # "TO_START" \/ ~Deferred => maxWorkers \in {MaxWorkers} \cup MaxChoices
  /\ running <= maxWorkers
  /\ apc = "launch" => running < maxWorkers

-----------------------------------------------------------------------------
(* Sequences and counting *)

\* The last element of a list is taken off.
LEMMA TakenOff ==
  ASSUME NEW S, NEW q \in Seq(S), q # <<>>
  PROVE  /\ Last(q) \in S /\ Last(q) = q[Len(q)]
         /\ Front(q) \in Seq(S) /\ DOMAIN Front(q) = 1..(Len(q) - 1)
         /\ \A i \in 1..(Len(q) - 1) : Front(q)[i] = q[i]
<1>1. Len(q) \in Nat /\ Len(q) > 0
  BY EmptySeq, LenProperties
<1>2. \A i \in 1..(Len(q) - 1) : q[i] \in S
  BY <1>1, ElementOfSeq
<1>3. /\ SubSeq(q, 1, Len(q) - 1) \in Seq(S)
      /\ Len(SubSeq(q, 1, Len(q) - 1)) = Len(q) - 1
      /\ \A i \in 1..(Len(q) - 1) : SubSeq(q, 1, Len(q) - 1)[i] = q[i]
  <2>1. PICK n \in Nat : n = Len(q) - 1
    BY <1>1
  <2>2. \A i \in 1..n : q[i] \in S
    BY <1>2, <2>1
  <2>3. /\ SubSeq(q, 1, n) \in Seq(S)
        /\ Len(SubSeq(q, 1, n)) = IF 1 <= n THEN n - 1 + 1 ELSE 0
        /\ \A i \in 1..(n - 1 + 1) : SubSeq(q, 1, n)[i] = q[1 + i - 1]
    BY <2>2, SubSeqProperties
  <2>4. n - 1 + 1 = n /\ \A i \in 1..n : 1 + i - 1 = i
    OBVIOUS
  <2>5. (IF 1 <= n THEN n ELSE 0) = n
    OBVIOUS
  <2> QED BY <2>1, <2>3, <2>4, <2>5
<1>4. DOMAIN SubSeq(q, 1, Len(q) - 1) = 1..(Len(q) - 1)
  BY <1>3, LenProperties
<1>5. q[Len(q)] \in S
  BY <1>1, ElementOfSeq
<1> QED BY <1>3, <1>4, <1>5 DEF Front, Last

\* One entry of a list is replaced.
LEMMA Replaced ==
  ASSUME NEW S, NEW q \in Seq(S), NEW s \in DOMAIN q, NEW e \in S
  PROVE  /\ [q EXCEPT ![s] = e] \in Seq(S)
         /\ DOMAIN [q EXCEPT ![s] = e] = DOMAIN q
         /\ \A i \in DOMAIN q : [q EXCEPT ![s] = e][i] = IF i = s THEN e ELSE q[i]
<1>1. DOMAIN q = 1..Len(q)
  BY LenProperties
<1>2. [q EXCEPT ![s] = e] \in Seq(S)
  BY <1>1, ExceptSeq
<1> QED BY <1>2

\* One entry is added at the end of a list.
LEMMA Appended ==
  ASSUME NEW S, NEW q \in Seq(S), NEW e \in S
  PROVE  /\ Append(q, e) \in Seq(S) /\ Len(q) \in Nat
         /\ DOMAIN q = 1..Len(q) /\ DOMAIN Append(q, e) = 1..(Len(q) + 1)
         /\ \A i \in 1..Len(q) : Append(q, e)[i] = q[i]
         /\ Append(q, e)[Len(q) + 1] = e
<1>1. /\ Append(q, e) \in Seq(S) /\ Len(Append(q, e)) = Len(q) + 1
      /\ \A i \in 1..Len(q) : Append(q, e)[i] = q[i]
      /\ Append(q, e)[Len(q) + 1] = e
  BY AppendProperties
<1> QED BY <1>1, LenProperties

\* A worker moves from one place to another.
LEMMA Moved ==
  ASSUME WorkerTypes, NEW w \in Workers, NEW p, wpc' = [wpc EXCEPT ![w] = p],
         NEW P
  PROVE  /\ Cardinality(At(P)) \in Nat
         /\ Cardinality(At(P)') = Cardinality(At(P))
              + (IF p \in P THEN 1 ELSE 0) - (IF wpc[w] \in P THEN 1 ELSE 0)
<1>1. IsFiniteSet(At(P))
  BY FS_Subset, CrewAssumption DEF At
<1>2. Cardinality(At(P)) \in Nat
  BY <1>1, FS_CardinalityType
<1>3. w \in At(P) <=> wpc[w] \in P
  BY DEF At
<1>4. CASE p \in P
  <2>1. At(P)' = At(P) \cup {w}
    BY <1>4 DEF At, WorkerTypes
  <2>2. Cardinality(At(P) \cup {w})
          = IF w \in At(P) THEN Cardinality(At(P)) ELSE Cardinality(At(P)) + 1
    BY <1>1, FS_AddElement
  <2> QED BY <1>2, <1>3, <1>4, <2>1, <2>2
<1>5. CASE p \notin P
  <2>1. At(P)' = At(P) \ {w}
    BY <1>5 DEF At, WorkerTypes
  <2>2. Cardinality(At(P) \ {w})
          = IF w \in At(P) THEN Cardinality(At(P)) - 1 ELSE Cardinality(At(P))
    BY <1>1, FS_RemoveElement
  <2> QED BY <1>2, <1>3, <1>5, <2>1, <2>2
<1> QED BY <1>4, <1>5

-----------------------------------------------------------------------------
(* The types *)

\* The places of the threads and the state of the crew stay in their ranges.
LEMMA ControlStep ==
  ASSUME IInv, Next
  PROVE  ControlTypes'
<1> USE DEF ControlTypes, limits, slots, counters, jobQueue, results, adding, workers,
           callers, owner
<1>1. ASSUME NEW j \in Jobs, AddJob(j) \/ Calling(j) PROVE ControlTypes'
  BY <1>1 DEF IInv, TypeOK, Calling, AddJob, AppendJob, TryGrow, Grow, Grown,
         ReleaseAddLock
<1>2. CASE AddWorker
  BY <1>2 DEF IInv, TypeOK, AddWorker, GetSlot, Launch, StartWorker, StartFails,
         ClearSlot, DeleteWorker, ReleaseSlot, Freed
<1>3. ASSUME NEW w \in Workers, Work(w) PROVE ControlTypes'
  BY <1>3 DEF IInv, TypeOK, Work, Loop, Poll, Get, WaitDone, Gotten, Process, Put,
         Check, Exit, Dying,
         Unslot, Take, Release, Freed
<1>4. CASE StartJobProcessor \/ Start \/ Stop \/ Destroy \/ OwnerStep
  BY <1>4 DEF IInv, TypeOK, StartJobProcessor, Start, Stop, Destroy, OwnerStep,
         StartLock, StartMore,
         StartAdded, StopAll, LockCrew, StopEach, StopAllDone,
         StopLoops, Shutdown, NoWaiting, Join, FutexWait,
         Restop, Finish, Delete, ReleaseAddLock
<1>5. ASSUME NEW c \in IdleChoices, AdjustIdle(c[1], c[2]) PROVE ControlTypes'
  BY <1>5, CrewAssumption DEF IInv, TypeOK, AdjustIdle
<1>6. ASSUME NEW n \in MaxChoices, SetMaxWorkers(n) PROVE ControlTypes'
  BY <1>6, CrewAssumption DEF IInv, TypeOK, SetMaxWorkers
<1> QED BY <1>1, <1>2, <1>3, <1>4, <1>5, <1>6 DEF Next

\* The flags stay flags.
LEMMA FlagStep ==
  ASSUME IInv, Next
  PROVE  FlagTypes'
<1> USE DEF FlagTypes, limits, slots, counters, jobQueue, results, adding, workers,
           callers, owner
<1>1. ASSUME NEW j \in Jobs, AddJob(j) \/ Calling(j) PROVE FlagTypes'
  BY <1>1 DEF IInv, TypeOK, Calling, AddJob, AppendJob, TryGrow, Grow, Grown,
         ReleaseAddLock
<1>2. CASE AddWorker
  BY <1>2 DEF IInv, TypeOK, AddWorker, GetSlot, Launch, StartWorker, StartFails,
         ClearSlot, DeleteWorker, ReleaseSlot, Freed
<1>3. ASSUME NEW w \in Workers, Work(w) PROVE FlagTypes'
  BY <1>3 DEF IInv, TypeOK, Work, Loop, Poll, Get, WaitDone, Gotten, Process, Put,
         Check, Exit, Dying,
         Unslot, Take, Release, Freed
<1>4. CASE StartJobProcessor \/ Start \/ Stop \/ Destroy \/ OwnerStep
  BY <1>4 DEF IInv, TypeOK, StartJobProcessor, Start, Stop, Destroy, OwnerStep,
         StartLock, StartMore,
         StartAdded, StopAll, LockCrew, StopEach, StopAllDone,
         StopLoops, Shutdown, NoWaiting, Join, FutexWait,
         Restop, Finish, Delete, ReleaseAddLock
<1>5. ASSUME NEW c \in IdleChoices, AdjustIdle(c[1], c[2]) PROVE FlagTypes'
  BY <1>5, CrewAssumption DEF IInv, TypeOK, AdjustIdle
<1>6. ASSUME NEW n \in MaxChoices, SetMaxWorkers(n) PROVE FlagTypes'
  BY <1>6, CrewAssumption DEF IInv, TypeOK, SetMaxWorkers
<1> QED BY <1>1, <1>2, <1>3, <1>4, <1>5, <1>6 DEF Next

\* The places and flags of the workers stay in their ranges.
LEMMA WorkerStep ==
  ASSUME IInv, Next
  PROVE  WorkerTypes'
<1> USE DEF WorkerTypes, limits, slots, counters, jobQueue, results, adding, workers,
           callers, owner, Looping, Idling
<1>1. ASSUME NEW j \in Jobs, AddJob(j) \/ Calling(j) PROVE WorkerTypes'
  BY <1>1 DEF IInv, TypeOK, Calling, AddJob, AppendJob, TryGrow, Grow, Grown,
         ReleaseAddLock
<1>2. CASE AddWorker
  BY <1>2 DEF IInv, TypeOK, AddWorker, GetSlot, Launch, StartWorker, StartFails,
         ClearSlot, DeleteWorker, ReleaseSlot, Freed
<1>3. ASSUME NEW w \in Workers, Work(w) PROVE WorkerTypes'
  BY <1>3 DEF IInv, TypeOK, Work, Loop, Poll, Get, WaitDone, Gotten, Process, Put,
         Check, Exit, Dying,
         Unslot, Take, Release, Freed
<1>4. CASE StartJobProcessor \/ Start \/ Stop \/ Destroy \/ OwnerStep
  BY <1>4 DEF IInv, TypeOK, StartJobProcessor, Start, Stop, Destroy, OwnerStep,
         StartLock, StartMore,
         StartAdded, StopAll, LockCrew, StopEach, StopAllDone,
         StopLoops, Shutdown, NoWaiting, Join, FutexWait,
         Restop, Finish, Delete, ReleaseAddLock
<1>5. ASSUME NEW c \in IdleChoices, AdjustIdle(c[1], c[2]) PROVE WorkerTypes'
  BY <1>5, CrewAssumption DEF IInv, TypeOK, AdjustIdle
<1>6. ASSUME NEW n \in MaxChoices, SetMaxWorkers(n) PROVE WorkerTypes'
  BY <1>6, CrewAssumption DEF IInv, TypeOK, SetMaxWorkers
<1> QED BY <1>1, <1>2, <1>3, <1>4, <1>5, <1>6 DEF Next

\* Somebody is at one of the places.
LEMMA SomebodyAt ==
  ASSUME NEW P, NEW w \in Workers, wpc[w] \in P
  PROVE  Cardinality(At(P)) \in Nat /\ Cardinality(At(P)) > 0
<1>1. IsFiniteSet(At(P))
  BY FS_Subset, CrewAssumption DEF At
<1>2. At(P) # {}
  BY DEF At
<1>3. Cardinality(At(P)) \in Nat
  BY <1>1, FS_CardinalityType
<1>4. Cardinality(At(P)) # 0
  BY <1>1, <1>2, FS_EmptySet
<1> QED BY <1>3, <1>4

\* The slot addWorker is at: of a crew that is not destroyed, and from new
\* CrewWorker to pthread_create and its failure with the new worker in it.
LEMMA AtSlot ==
  ASSUME IInv, apc \in Filling
  PROVE  /\ ~discard /\ newSlot \in DOMAIN crew
         /\ apc = "start" => /\ crew[newSlot] \in Workers
                             /\ wpc[crew[newSlot]] = "created"
                             /\ slot[crew[newSlot]] = newSlot
         /\ apc = "clear" => /\ crew[newSlot] \in Workers
                             /\ wpc[crew[newSlot]] = "failed"
                             /\ slot[crew[newSlot]] = newSlot
<1>1. ~discard /\ newSlot \in DOMAIN crew
  BY DEF IInv, AddingInv, Filling
<1>2. crew[newSlot] \in Workers \cup {NULL}
  BY <1>1, ElementOfSeq, LenProperties DEF IInv, TypeOK, SlotTypes
<1> QED BY <1>1, <1>2 DEF IInv, MemberInv

\* No counter drops below zero.
LEMMA NumberStep ==
  ASSUME IInv, Next
  PROVE  NumberTypes'
<1> USE DEF NumberTypes, limits, slots, counters, jobQueue, results, adding, workers,
           callers, owner
<1>1. ASSUME NEW j \in Jobs, AddJob(j) \/ Calling(j) PROVE NumberTypes'
  BY <1>1 DEF IInv, TypeOK, Calling, AddJob, AppendJob, TryGrow, Grow, Grown,
         ReleaseAddLock
<1>2. CASE AddWorker
  <2>1. CASE StartFails
    <3>1. running > 0
      BY <2>1, AtSlot, SomebodyAt DEF StartFails, Filling, IInv, TypeOK, CountInv,
         Counted
    <3> QED BY <2>1, <3>1 DEF IInv, TypeOK, StartFails
  <2> QED BY <1>2, <2>1 DEF IInv, TypeOK, AddWorker, GetSlot, Launch, StartWorker,
                ClearSlot, DeleteWorker, ReleaseSlot
<1>3. ASSUME NEW w \in Workers, Work(w) PROVE NumberTypes'
  <2>1. CASE Gotten(w)
    <3>1. idle > 0
      BY <2>1, SomebodyAt DEF Gotten, IInv, TypeOK, CountInv, Idling
    <3> QED BY <2>1, <3>1 DEF IInv, TypeOK, Gotten
  <2>2. CASE Dying(w)
    <3>1. running > 0
      BY <2>2, SomebodyAt DEF Dying, IInv, TypeOK, CountInv, Counted
    <3> QED BY <2>2, <3>1 DEF IInv, TypeOK, Dying
  <2> QED BY <1>3, <2>1, <2>2 DEF IInv, TypeOK, Work, Loop, Poll, Get, WaitDone,
                Process, Put, Check, Exit, Unslot
<1>4. CASE StartJobProcessor \/ Start \/ Stop \/ Destroy \/ OwnerStep
  BY <1>4, CrewAssumption DEF IInv, TypeOK, StartJobProcessor, Start, Stop, Destroy,
         OwnerStep, StartLock, StartMore,
         StartAdded, StopAll, LockCrew, StopEach, StopAllDone,
         StopLoops, Shutdown, NoWaiting, Join, FutexWait,
         Restop, Finish, Delete, ReleaseAddLock
<1>5. ASSUME NEW c \in IdleChoices, AdjustIdle(c[1], c[2]) PROVE NumberTypes'
  BY <1>5, CrewAssumption DEF IInv, TypeOK, AdjustIdle
<1>6. ASSUME NEW n \in MaxChoices, SetMaxWorkers(n) PROVE NumberTypes'
  BY <1>6, CrewAssumption DEF IInv, TypeOK, SetMaxWorkers
<1> QED BY <1>1, <1>2, <1>3, <1>4, <1>5, <1>6 DEF Next

\* The queue and the hands of the workers hold jobs.
LEMMA JobStep ==
  ASSUME IInv, Next
  PROVE  JobTypes'
<1> USE DEF JobTypes, limits, slots, counters, jobQueue, results, adding, workers,
           callers, owner
<1>1. ASSUME NEW j \in Jobs, AddJob(j) \/ Calling(j) PROVE JobTypes'
  BY <1>1 DEF IInv, TypeOK, Calling, AddJob, AppendJob, TryGrow, Grow, Grown,
         ReleaseAddLock
<1>2. CASE AddWorker
  BY <1>2 DEF IInv, TypeOK, AddWorker, GetSlot, Launch, StartWorker, StartFails,
         ClearSlot, DeleteWorker, ReleaseSlot
<1>3. ASSUME NEW w \in Workers, Work(w) PROVE JobTypes'
  <2>1. queue # <<>> => Head(queue) \in Jobs /\ Tail(queue) \in Seq(Jobs)
    BY HeadTailProperties DEF IInv, TypeOK
  <2>2. CASE Poll(w) \/ Get(w) \/ WaitDone(w)
    BY <2>1, <2>2 DEF IInv, TypeOK, Poll, Get, WaitDone, Take
  <2>3. CASE Process(w) \/ Put(w)
    BY <2>3 DEF IInv, TypeOK, Process, Put, Release
  <2> QED BY <1>3, <2>2, <2>3 DEF IInv, TypeOK, Work, Loop, Gotten, Check, Exit, Dying,
                Unslot
<1>4. CASE StartJobProcessor \/ Start \/ Stop \/ Destroy \/ OwnerStep
  BY <1>4 DEF IInv, TypeOK, StartJobProcessor, Start, Stop, Destroy, OwnerStep,
         StartLock, StartMore,
         StartAdded, StopAll, LockCrew, StopEach, StopAllDone,
         StopLoops, Shutdown, NoWaiting, Join, FutexWait,
         Restop, Finish, Delete, ReleaseAddLock
<1>5. ASSUME NEW c \in IdleChoices, AdjustIdle(c[1], c[2]) PROVE JobTypes'
  BY <1>5, CrewAssumption DEF IInv, TypeOK, AdjustIdle
<1>6. ASSUME NEW n \in MaxChoices, SetMaxWorkers(n) PROVE JobTypes'
  BY <1>6, CrewAssumption DEF IInv, TypeOK, SetMaxWorkers
<1> QED BY <1>1, <1>2, <1>3, <1>4, <1>5, <1>6 DEF Next

\* Slot numbers are numbers of slots.
LEMMA SlotStep ==
  ASSUME IInv, Next
  PROVE  SlotTypes'
<1> USE DEF SlotTypes, limits, slots, counters, jobQueue, results, adding, workers,
           callers, owner
<1>1. ASSUME NEW j \in Jobs, AddJob(j) \/ Calling(j) PROVE SlotTypes'
  BY <1>1 DEF IInv, TypeOK, Calling, AddJob, AppendJob, TryGrow, Grow, Grown,
         ReleaseAddLock
<1>2. CASE AddWorker
  <2>1. CASE GetSlot
    <3>1. CASE emptySlots # <<>>
      <4>1. Last(emptySlots) \in DOMAIN crew /\ Front(emptySlots) \in Seq(DOMAIN crew)
        BY <3>1, TakenOff DEF IInv, TypeOK
      <4> QED BY <2>1, <3>1, <4>1 DEF IInv, TypeOK, GetSlot
    <3>2. CASE emptySlots = <<>> /\ crew' = Append(crew, NULL) /\ newSlot' = Len(crew) + 1
      <4>1. /\ crew' \in Seq(Workers \cup {NULL}) /\ Len(crew) \in Nat
            /\ DOMAIN crew = 1..Len(crew) /\ DOMAIN crew' = 1..(Len(crew) + 1)
        BY <3>2, Appended DEF IInv, TypeOK
      <4>2. DOMAIN crew \subseteq DOMAIN crew' /\ newSlot' \in DOMAIN crew'
        BY <3>2, <4>1
      <4>3. emptySlots' = <<>> /\ slot' = slot
        BY <2>1, <3>2 DEF GetSlot
      <4> QED BY <4>1, <4>2, <4>3 DEF IInv, TypeOK
    <3> QED BY <2>1, <3>1, <3>2 DEF IInv, TypeOK, GetSlot
  <2>2. CASE Launch
    <3>1. newSlot \in DOMAIN crew
      BY <2>2, AtSlot DEF Launch, Filling
    <3>2. crew' \in Seq(Workers \cup {NULL}) /\ DOMAIN crew' = DOMAIN crew
      <4>1. \E w \in Workers : crew' = [crew EXCEPT ![newSlot] = w]
        BY <2>2 DEF Launch
      <4> QED BY <3>1, <4>1, Replaced DEF IInv, TypeOK
    <3> QED BY <2>2, <3>1, <3>2 DEF IInv, TypeOK, Launch
  <2>3. CASE ClearSlot
    <3>1. newSlot \in DOMAIN crew
      BY <2>3, AtSlot DEF ClearSlot, Filling
    <3>2. crew' \in Seq(Workers \cup {NULL}) /\ DOMAIN crew' = DOMAIN crew
      <4>1. crew' = [crew EXCEPT ![newSlot] = NULL]
        BY <2>3 DEF ClearSlot
      <4> QED BY <3>1, <4>1, Replaced DEF IInv, TypeOK
    <3> QED BY <2>3, <3>2 DEF IInv, TypeOK, ClearSlot
  <2>4. CASE ReleaseSlot
    <3>1. newSlot \in DOMAIN crew
      BY <2>4, AtSlot DEF ReleaseSlot, Filling
    <3>2. emptySlots' \in Seq(DOMAIN crew)
      <4>1. emptySlots' = Append(emptySlots, newSlot)
        BY <2>4 DEF ReleaseSlot
      <4> QED BY <3>1, <4>1, Appended DEF IInv, TypeOK
    <3> QED BY <2>4, <3>2 DEF IInv, TypeOK, ReleaseSlot
  <2> QED BY <1>2, <2>1, <2>2, <2>3, <2>4 DEF IInv, TypeOK, AddWorker, StartWorker,
                StartFails, DeleteWorker, Freed
<1>3. ASSUME NEW w \in Workers, Work(w) PROVE SlotTypes'
  <2>1. CASE Unslot(w) /\ slot[w] # -1
    <3>1. slot[w] \in DOMAIN crew
      BY <2>1 DEF IInv, TypeOK
    <3>2. crew' \in Seq(Workers \cup {NULL}) /\ DOMAIN crew' = DOMAIN crew
      <4>1. crew' = [crew EXCEPT ![slot[w]] = NULL]
        BY <2>1 DEF Unslot
      <4> QED BY <3>1, <4>1, Replaced DEF IInv, TypeOK
    <3>3. emptySlots' \in Seq(DOMAIN crew)
      <4>1. emptySlots' = Append(emptySlots, slot[w])
        BY <2>1 DEF Unslot
      <4> QED BY <3>1, <4>1, Appended DEF IInv, TypeOK
    <3> QED BY <2>1, <3>2, <3>3 DEF IInv, TypeOK, Unslot, Freed
  <2>2. CASE Unslot(w) /\ slot[w] = -1
    BY <2>2 DEF IInv, TypeOK, Unslot, Freed
  <2> QED BY <1>3, <2>1, <2>2 DEF IInv, TypeOK, Work, Loop, Poll, Get, WaitDone, Gotten,
                Process, Put, Check, Exit, Dying, Freed
<1>4. CASE StartJobProcessor \/ Start \/ Stop \/ Destroy \/ OwnerStep
  BY <1>4 DEF IInv, TypeOK, StartJobProcessor, Start, Stop, Destroy, OwnerStep,
         StartLock, StartMore,
         StartAdded, StopAll, LockCrew, StopEach, StopAllDone,
         StopLoops, Shutdown, NoWaiting, Join, FutexWait,
         Restop, Finish, Delete, ReleaseAddLock
<1>5. ASSUME NEW c \in IdleChoices, AdjustIdle(c[1], c[2]) PROVE SlotTypes'
  BY <1>5, CrewAssumption DEF IInv, TypeOK, AdjustIdle
<1>6. ASSUME NEW n \in MaxChoices, SetMaxWorkers(n) PROVE SlotTypes'
  BY <1>6, CrewAssumption DEF IInv, TypeOK, SetMaxWorkers
<1> QED BY <1>1, <1>2, <1>3, <1>4, <1>5, <1>6 DEF Next

-----------------------------------------------------------------------------
(* The holder of m_addWorker *)

\* Whoever takes m_addWorker is in its loop until it lets it go.
LEMMA AddingStep ==
  ASSUME IInv, Next
  PROVE  AddingInv'
<1> USE DEF AddingInv, Filling, ControlTypes, limits, slots, counters, jobQueue, results, adding,
           workers, callers, owner
<1>1. ASSUME NEW j \in Jobs, AddJob(j) \/ Calling(j) PROVE AddingInv'
  BY <1>1, CrewAssumption DEF IInv, TypeOK, Destroying,
         Calling, AddJob, AppendJob, TryGrow, Grow, Grown, ReleaseAddLock
<1>2. CASE AddWorker
  <2>1. apc' \in Filling => newSlot' \in DOMAIN crew'
    <3>1. CASE GetSlot /\ emptySlots # <<>>
      BY <3>1, TakenOff DEF IInv, TypeOK, SlotTypes, GetSlot
    <3>2. CASE GetSlot /\ emptySlots = <<>>
      <4>1. Len(crew) \in Nat /\ DOMAIN Append(crew, NULL) = 1..(Len(crew) + 1)
        BY Appended DEF IInv, TypeOK, SlotTypes
      <4> QED BY <3>2, <4>1 DEF GetSlot
    <3>3. CASE \/ Launch \/ StartWorker \/ StartFails \/ ClearSlot \/ DeleteWorker
               \/ ReleaseSlot
      <4>1. newSlot \in DOMAIN crew /\ newSlot' = newSlot
        BY <3>3, AtSlot DEF Launch, StartWorker, StartFails, ClearSlot,
           DeleteWorker, ReleaseSlot, Filling
      <4>2. DOMAIN crew' = DOMAIN crew
        BY <3>3 DEF Launch, StartWorker, StartFails,
         ClearSlot, DeleteWorker, ReleaseSlot
      <4> QED BY <4>1, <4>2
    <3> QED BY <1>2, <3>1, <3>2, <3>3 DEF AddWorker
  <2> QED BY <1>2, <2>1 DEF IInv, TypeOK,
         AddWorker, GetSlot, Launch, StartWorker, StartFails,
         ClearSlot, DeleteWorker, ReleaseSlot
<1>3. ASSUME NEW w \in Workers, Work(w) PROVE AddingInv'
  BY <1>3 DEF IInv, TypeOK,
         Work, Loop, Poll, Get, WaitDone, Gotten, Process, Put, Check, Exit, Dying,
         Unslot
<1>4. CASE StartJobProcessor \/ Start \/ Stop \/ Destroy \/ OwnerStep
  BY <1>4, CrewAssumption DEF IInv, TypeOK,
         StartJobProcessor, Start, Stop, Destroy, OwnerStep, StartLock, StartMore,
         StartAdded, StopAll, LockCrew, StopEach, StopAllDone,
         StopLoops, Shutdown, NoWaiting, Join, FutexWait,
         Restop, Finish, Delete, ReleaseAddLock
<1>5. ASSUME NEW c \in IdleChoices, AdjustIdle(c[1], c[2]) PROVE AddingInv'
  BY <1>5 DEF IInv, TypeOK, AdjustIdle
<1>6. ASSUME NEW n \in MaxChoices, SetMaxWorkers(n) PROVE AddingInv'
  BY <1>6 DEF IInv, TypeOK, SetMaxWorkers
<1> QED BY <1>1, <1>2, <1>3, <1>4, <1>5, <1>6 DEF Next

-----------------------------------------------------------------------------
(* Slots and counters *)

\* What the crew keeps of its slots and of its workers.
Books == MemberInv /\ FreeInv /\ CountInv

\* Steps that touch neither slots nor counters, and steps of the loop of
\* m_addWorker's holder around addWorker.
LEMMA Quiet ==
  ASSUME IInv, UNCHANGED <<crew, emptySlots, wpc, idle, running>>,
         \/ UNCHANGED <<apc, newSlot>>
         \/ {apc, apc'} \cap Filling = {},
         discard' \/ (slot' = slot /\ discard' = discard)
  PROVE  Books'
<1>1. CountInv'
  BY DEF IInv, CountInv, At
<1>2. MemberInv'
  BY DEF IInv, MemberInv, Filling
<1>3. FreeInv'
  BY DEF IInv, FreeInv, Filling
<1> QED BY <1>1, <1>2, <1>3 DEF Books

\* The counters after a worker has moved.
LEMMA Recount ==
  ASSUME IInv, NEW w \in Workers, NEW p, wpc' = [wpc EXCEPT ![w] = p],
         idle' \in Int, running' \in Int,
         idle' >= idle + (IF p \in Idling THEN 1 ELSE 0)
                       - (IF wpc[w] \in Idling THEN 1 ELSE 0),
         running' >= running + (IF p \in Counted THEN 1 ELSE 0)
                             - (IF wpc[w] \in Counted THEN 1 ELSE 0)
  PROVE  CountInv'
<1>1. WorkerTypes /\ NumberTypes
  BY DEF IInv, TypeOK
<1>2. Cardinality(At(Idling)') <= idle'
  <2>1. /\ Cardinality(At(Idling)) \in Nat
        /\ Cardinality(At(Idling)') = Cardinality(At(Idling))
             + (IF p \in Idling THEN 1 ELSE 0) - (IF wpc[w] \in Idling THEN 1 ELSE 0)
    BY <1>1, Moved
  <2>2. Cardinality(At(Idling)) <= idle /\ idle \in Nat
    BY <1>1 DEF IInv, CountInv, NumberTypes
  <2> QED BY <2>1, <2>2
<1>3. Cardinality(At(Counted)') <= running'
  <2>1. /\ Cardinality(At(Counted)) \in Nat
        /\ Cardinality(At(Counted)') = Cardinality(At(Counted))
             + (IF p \in Counted THEN 1 ELSE 0) - (IF wpc[w] \in Counted THEN 1 ELSE 0)
    BY <1>1, Moved
  <2>2. Cardinality(At(Counted)) <= running /\ running \in Nat
    BY <1>1 DEF IInv, CountInv, NumberTypes
  <2> QED BY <2>1, <2>2
<1>4. Idling' = Idling /\ Counted' = Counted
  BY DEF Idling, Counted, Looping
<1> QED BY <1>2, <1>3, <1>4 DEF CountInv, At

\* A worker of the loop, or one that leaves it, goes on.
LEMMA Onward ==
  ASSUME IInv, UNCHANGED <<crew, emptySlots, apc, newSlot, slot, discard>>,
         NEW w \in Workers, NEW p, wpc' = [wpc EXCEPT ![w] = p],
         {wpc[w], p} \cap {"free", "created", "failed"} = {},
         idle' \in Int, running' \in Int,
         idle' >= idle + (IF p \in Idling THEN 1 ELSE 0)
                       - (IF wpc[w] \in Idling THEN 1 ELSE 0),
         running' >= running + (IF p \in Counted THEN 1 ELSE 0)
                             - (IF wpc[w] \in Counted THEN 1 ELSE 0)
  PROVE  Books'
<1>1. \A v \in Workers : v # w => wpc'[v] = wpc[v]
  BY DEF IInv, TypeOK, WorkerTypes
<1>2. wpc'[w] = p
  BY DEF IInv, TypeOK, WorkerTypes
<1>3. MemberInv'
  <2> SUFFICES ASSUME ~discard PROVE MemberInv'
    BY DEF MemberInv
  <2>1. \A v \in Workers :
          IF wpc'[v] = "free" THEN slot[v] = -1
          ELSE /\ slot[v] \in DOMAIN crew
               /\ crew[slot[v]] = v \/ (wpc'[v] = "failed" /\ apc = "delete")
    BY <1>1, <1>2 DEF IInv, MemberInv
  <2>2. \A v \in Workers : wpc'[v] = "created" => apc = "start" /\ crew[newSlot] = v
    BY <1>1, <1>2 DEF IInv, MemberInv
  <2>3. apc = "start" => crew[newSlot] # NULL /\ wpc'[crew[newSlot]] = "created"
    BY <1>1, AtSlot DEF IInv, MemberInv, Filling
  <2>4. \A v \in Workers :
          wpc'[v] = "failed" => apc \in {"clear", "delete"} /\ slot[v] = newSlot
    BY <1>1, <1>2 DEF IInv, MemberInv
  <2>5. apc = "clear" => crew[newSlot] # NULL /\ wpc'[crew[newSlot]] = "failed"
    BY <1>1, AtSlot DEF IInv, MemberInv, Filling
  <2>6. \A u, v \in Workers : wpc'[u] = "failed" /\ wpc'[v] = "failed" => u = v
    <3>1. p # "failed"
      OBVIOUS
    <3>2. \A u, v \in Workers : wpc[u] = "failed" /\ wpc[v] = "failed" => u = v
      BY DEF IInv, MemberInv
    <3> QED BY <1>1, <1>2, <3>1, <3>2
  <2> QED BY <2>1, <2>2, <2>3, <2>4, <2>5, <2>6 DEF IInv, MemberInv
<1>4. FreeInv'
  BY DEF IInv, FreeInv
<1>5. CountInv'
  BY Recount
<1> QED BY <1>3, <1>4, <1>5 DEF Books

\* getSlot
LEMMA BooksGetSlot ==
  ASSUME IInv, GetSlot
  PROVE  Books'
<1> USE DEF slots, counters, workers, owner
<1>1. CASE running >= maxWorkers
  BY <1>1, Quiet DEF GetSlot, Filling, IInv, TypeOK, NumberTypes
<1>2. CASE running < maxWorkers
  <2>1. CountInv'
    BY <1>2 DEF IInv, CountInv, At, GetSlot
  <2>2. CASE emptySlots # <<>>
    <3>0. newSlot' = Last(emptySlots) /\ emptySlots' = Front(emptySlots)
      BY <1>2, <2>2 DEF GetSlot, IInv, TypeOK, NumberTypes
    <3>1. /\ newSlot' = emptySlots[Len(emptySlots)]
          /\ DOMAIN emptySlots' = 1..(Len(emptySlots) - 1)
          /\ DOMAIN emptySlots = 1..Len(emptySlots) /\ Len(emptySlots) \in Nat
          /\ \A i \in DOMAIN emptySlots' : emptySlots'[i] = emptySlots[i]
          /\ Len(emptySlots) > 0
      <4>1. emptySlots \in Seq(DOMAIN crew)
        BY DEF IInv, TypeOK, SlotTypes
      <4>2. /\ Last(emptySlots) = emptySlots[Len(emptySlots)]
            /\ DOMAIN Front(emptySlots) = 1..(Len(emptySlots) - 1)
            /\ \A i \in 1..(Len(emptySlots) - 1) : Front(emptySlots)[i] = emptySlots[i]
        BY <2>2, <4>1, TakenOff
      <4>3. /\ DOMAIN emptySlots = 1..Len(emptySlots) /\ Len(emptySlots) \in Nat
            /\ Len(emptySlots) > 0
        BY <2>2, <4>1, LenProperties, EmptySeq
      <4> QED BY <3>0, <4>2, <4>3
    <3>2. UNCHANGED <<crew, wpc, slot, discard>> /\ apc = "slot" /\ apc' = "launch"
      BY <1>2, <2>2 DEF GetSlot, IInv, TypeOK, NumberTypes
    <3>3. MemberInv'
      BY <3>2 DEF IInv, MemberInv
    <3>4. FreeInv'
      BY <3>1, <3>2 DEF IInv, FreeInv, IsInjective
    <3> QED BY <2>1, <3>3, <3>4 DEF Books
  <2>3. CASE emptySlots = <<>>
    <3>1. /\ crew' = Append(crew, NULL) /\ newSlot' = Len(crew) + 1
          /\ UNCHANGED <<emptySlots, wpc, slot, discard>>
          /\ apc = "slot" /\ apc' = "launch"
      BY <1>2, <2>3 DEF GetSlot, IInv, TypeOK, NumberTypes
    <3>2. /\ Len(crew) \in Nat
          /\ DOMAIN crew = 1..Len(crew) /\ DOMAIN crew' = 1..(Len(crew) + 1)
          /\ \A i \in 1..Len(crew) : crew'[i] = crew[i]
          /\ crew'[newSlot'] = NULL
      BY <3>1, Appended DEF IInv, TypeOK, SlotTypes
    <3>3. MemberInv'
      BY <3>1, <3>2 DEF IInv, MemberInv
    <3>4. FreeInv'
      BY <2>3, <3>1, <3>2 DEF IInv, FreeInv
    <3> QED BY <2>1, <3>3, <3>4 DEF Books
  <2> QED BY <2>2, <2>3
<1> QED BY <1>1, <1>2 DEF IInv, TypeOK, NumberTypes

\* new CrewWorker in the slot that was gotten.
LEMMA BooksLaunch ==
  ASSUME IInv, Launch
  PROVE  Books'
<1>1. PICK w \in Workers : /\ wpc[w] = "free"
                           /\ wpc' = [wpc EXCEPT ![w] = "created"]
                           /\ slot' = [slot EXCEPT ![w] = newSlot]
                           /\ crew' = [crew EXCEPT ![newSlot] = w]
  BY DEF Launch
<1>2. /\ apc = "launch" /\ apc' = "start" /\ running' = running + 1
      /\ UNCHANGED <<idle, emptySlots, newSlot, discard>>
  BY DEF Launch, owner
<1>3. ~discard /\ newSlot \in DOMAIN crew
  BY <1>2, AtSlot DEF Filling
<1>4. /\ \A v \in Workers : wpc'[v] = IF v = w THEN "created" ELSE wpc[v]
      /\ \A v \in Workers : slot'[v] = IF v = w THEN newSlot ELSE slot[v]
  BY <1>1 DEF IInv, TypeOK, WorkerTypes, SlotTypes
<1>5. /\ DOMAIN crew' = DOMAIN crew
      /\ \A s \in DOMAIN crew : crew'[s] = IF s = newSlot THEN w ELSE crew[s]
      /\ \A s \in DOMAIN crew : crew[s] \in Workers \cup {NULL}
  BY <1>1, <1>3, ElementOfSeq, LenProperties DEF IInv, TypeOK, SlotTypes
<1>6. w # NULL
  BY CrewAssumption
<1>7. MemberInv'
  <2>1. \A v \in Workers :
          IF wpc'[v] = "free" THEN slot'[v] = -1
          ELSE slot'[v] \in DOMAIN crew' /\ crew'[slot'[v]] = v
    <3>1. \A v \in Workers : v # w => wpc'[v] = wpc[v] /\ slot'[v] = slot[v]
      BY <1>4
    <3>2. \A v \in Workers : wpc[v] # "free" => slot[v] \in DOMAIN crew /\ crew[slot[v]] = v
      BY <1>2, <1>3 DEF IInv, MemberInv
    <3>3. crew[newSlot] = NULL
      BY <1>2, <1>3 DEF IInv, FreeInv
    <3>4. \A v \in Workers : wpc[v] = "free" => slot[v] = -1
      BY <1>3 DEF IInv, MemberInv
    <3> QED BY <1>3, <1>4, <1>5, <3>1, <3>2, <3>3, <3>4, CrewAssumption
  <2>2. \A s \in DOMAIN crew' : crew'[s] # NULL => slot'[crew'[s]] = s
    <3>1. slot[w] = -1 /\ \A s \in DOMAIN crew : s # -1
      BY <1>1, <1>3, LenProperties DEF IInv, TypeOK, SlotTypes, MemberInv
    <3>2. \A s \in DOMAIN crew : crew[s] # NULL => slot[crew[s]] = s
      BY <1>3 DEF IInv, MemberInv
    <3> QED BY <1>3, <1>4, <1>5, <3>1, <3>2
  <2>3. \A v \in Workers : wpc'[v] = "created" => crew'[newSlot'] = v
    BY <1>2, <1>3, <1>4, <1>5 DEF IInv, MemberInv
  <2>4. crew'[newSlot'] # NULL /\ wpc'[crew'[newSlot']] = "created"
    BY <1>2, <1>3, <1>4, <1>5, <1>6
  <2>5. \A v \in Workers : wpc'[v] # "failed"
    BY <1>2, <1>3, <1>4 DEF IInv, MemberInv
  <2> QED BY <1>2, <2>1, <2>2, <2>3, <2>4, <2>5 DEF MemberInv
<1>8. FreeInv'
  <2>1. \A i \in DOMAIN emptySlots : emptySlots[i] \in DOMAIN crew
    BY ElementOfSeq, LenProperties DEF IInv, TypeOK, SlotTypes
  <2> QED BY <1>2, <1>3, <1>5, <2>1 DEF IInv, FreeInv
<1>9. CountInv'
  <2>1. /\ {"free", "created"} \cap Idling = {}
        /\ "free" \notin Counted /\ "created" \in Counted
    BY DEF Counted, Looping, Idling
  <2>2. idle \in Nat /\ running \in Nat
    BY DEF IInv, TypeOK, NumberTypes
  <2>3. /\ idle' \in Int /\ running' \in Int
        /\ idle' >= idle + (IF "created" \in Idling THEN 1 ELSE 0)
                         - (IF wpc[w] \in Idling THEN 1 ELSE 0)
        /\ running' >= running + (IF "created" \in Counted THEN 1 ELSE 0)
                               - (IF wpc[w] \in Counted THEN 1 ELSE 0)
    BY <1>1, <1>2, <2>1, <2>2
  <2> QED BY <1>1, <1>2, <2>3, Recount
<1> QED BY <1>7, <1>8, <1>9 DEF Books

\* The new worker's thread starts.
LEMMA BooksStartWorker ==
  ASSUME IInv, StartWorker
  PROVE  Books'
<1> DEFINE w == crew[newSlot]
<1>1. /\ wpc' = [wpc EXCEPT ![w] = "loop"] /\ apc = "start" /\ apc' = "added"
      /\ UNCHANGED <<idle, running, crew, emptySlots, newSlot, slot, discard>>
  BY DEF StartWorker, slots, counters, owner
<1>2. ~discard /\ newSlot \in DOMAIN crew /\ w \in Workers /\ wpc[w] = "created"
  BY <1>1, AtSlot DEF Filling
<1> HIDE DEF w
<1>3. \A v \in Workers : wpc'[v] = IF v = w THEN "loop" ELSE wpc[v]
  BY <1>1 DEF IInv, TypeOK, WorkerTypes
<1>4. MemberInv'
  BY <1>1, <1>2, <1>3 DEF IInv, MemberInv, w
<1>5. FreeInv'
  BY <1>1 DEF IInv, FreeInv
<1>6. CountInv'
  <2>1. {"created", "loop"} \cap Idling = {} /\ {"created", "loop"} \subseteq Counted
    BY DEF Counted, Looping, Idling
  <2>2. idle \in Nat /\ running \in Nat
    BY DEF IInv, TypeOK, NumberTypes
  <2>3. /\ idle' \in Int /\ running' \in Int
        /\ idle' >= idle + (IF "loop" \in Idling THEN 1 ELSE 0)
                         - (IF wpc[w] \in Idling THEN 1 ELSE 0)
        /\ running' >= running + (IF "loop" \in Counted THEN 1 ELSE 0)
                               - (IF wpc[w] \in Counted THEN 1 ELSE 0)
    BY <1>1, <1>2, <2>1, <2>2
  <2> QED BY <1>1, <1>2, <2>3, Recount
<1> QED BY <1>4, <1>5, <1>6 DEF Books

\* pthread_create failed: the worker is counted out.
LEMMA BooksStartFails ==
  ASSUME IInv, StartFails
  PROVE  Books'
<1> DEFINE w == crew[newSlot]
<1>1. /\ wpc' = [wpc EXCEPT ![w] = "failed"] /\ apc = "start" /\ apc' = "clear"
      /\ running' = running - 1
      /\ UNCHANGED <<idle, crew, emptySlots, newSlot, slot, discard>>
  BY DEF StartFails, slots, owner
<1>2. /\ ~discard /\ newSlot \in DOMAIN crew /\ w \in Workers
      /\ wpc[w] = "created" /\ slot[w] = newSlot
  BY <1>1, AtSlot DEF Filling
<1>3. w # NULL /\ crew[newSlot] = w
  BY <1>2, CrewAssumption
<1> HIDE DEF w
<1>4. \A v \in Workers : wpc'[v] = IF v = w THEN "failed" ELSE wpc[v]
  BY <1>1 DEF IInv, TypeOK, WorkerTypes
<1>5. \A v \in Workers : wpc[v] # "failed" /\ (wpc[v] = "created" => v = w)
  BY <1>1, <1>2, <1>3 DEF IInv, MemberInv
<1>6. MemberInv'
  BY <1>1, <1>2, <1>3, <1>4, <1>5 DEF IInv, MemberInv
<1>7. FreeInv'
  BY <1>1 DEF IInv, FreeInv
<1>8. CountInv'
  <2>1. /\ {"failed", "created"} \cap Idling = {}
        /\ "failed" \notin Counted /\ "created" \in Counted
    BY DEF Counted, Looping, Idling
  <2>2. idle \in Nat /\ running \in Nat
    BY DEF IInv, TypeOK, NumberTypes
  <2>3. /\ idle' \in Int /\ running' \in Int
        /\ idle' >= idle + (IF "failed" \in Idling THEN 1 ELSE 0)
                         - (IF wpc[w] \in Idling THEN 1 ELSE 0)
        /\ running' >= running + (IF "failed" \in Counted THEN 1 ELSE 0)
                               - (IF wpc[w] \in Counted THEN 1 ELSE 0)
    BY <1>1, <1>2, <2>1, <2>2
  <2> QED BY <1>1, <1>2, <2>3, Recount
<1> QED BY <1>6, <1>7, <1>8 DEF Books

\* It leaves its slot, which is not a free one yet.
LEMMA BooksClearSlot ==
  ASSUME IInv, ClearSlot
  PROVE  Books'
<1> DEFINE w == crew[newSlot]
<1>1. /\ crew' = [crew EXCEPT ![newSlot] = NULL] /\ apc = "clear" /\ apc' = "delete"
      /\ UNCHANGED <<idle, running, emptySlots, newSlot, slot, wpc, discard>>
  BY DEF ClearSlot, counters, workers, owner
<1>2. /\ ~discard /\ newSlot \in DOMAIN crew /\ w \in Workers
      /\ wpc[w] = "failed" /\ slot[w] = newSlot
  BY <1>1, AtSlot DEF Filling
<1>3. w # NULL /\ crew[newSlot] = w
  BY <1>2, CrewAssumption
<1> HIDE DEF w
<1>4. \A i \in DOMAIN emptySlots : /\ emptySlots[i] \in DOMAIN crew
                                   /\ crew[emptySlots[i]] = NULL
  BY <1>2, ElementOfSeq, LenProperties DEF IInv, TypeOK, SlotTypes, FreeInv
<1>5. /\ DOMAIN crew' = DOMAIN crew
      /\ \A s \in DOMAIN crew : crew'[s] = IF s = newSlot THEN NULL ELSE crew[s]
  BY <1>1, <1>2 DEF IInv, TypeOK, SlotTypes
<1>6. MemberInv'
  <2>1. \A v \in Workers :
          wpc[v] # "free" => slot[v] \in DOMAIN crew /\ crew[slot[v]] = v
    BY <1>1, <1>2 DEF IInv, MemberInv
  <2>2. \A v \in Workers : v # w /\ wpc[v] # "free" => slot[v] # newSlot
    BY <1>3, <2>1
  <2>3. \A v \in Workers :
          IF wpc[v] = "free" THEN slot[v] = -1
          ELSE /\ slot[v] \in DOMAIN crew
               /\ crew'[slot[v]] = v \/ wpc[v] = "failed"
    BY <1>2, <1>5, <2>1, <2>2 DEF IInv, MemberInv
  <2>4. \A v \in Workers : wpc[v] # "created" /\ (wpc[v] = "failed" => slot[v] = newSlot)
    BY <1>1, <1>2 DEF IInv, MemberInv
  <2>5. \A s \in DOMAIN crew : crew'[s] # NULL => slot[crew'[s]] = s
    BY <1>2, <1>5 DEF IInv, MemberInv
  <2>6. \A u, v \in Workers : wpc[u] = "failed" /\ wpc[v] = "failed" => u = v
    BY <1>2 DEF IInv, MemberInv
  <2> QED BY <1>1, <1>5, <2>3, <2>4, <2>5, <2>6 DEF MemberInv
<1>7. FreeInv'
  BY <1>1, <1>2, <1>3, <1>4, <1>5 DEF IInv, FreeInv
<1>8. CountInv'
  BY <1>1 DEF IInv, CountInv, At
<1> QED BY <1>6, <1>7, <1>8 DEF Books

\* It is deleted.
LEMMA BooksDeleteWorker ==
  ASSUME IInv, DeleteWorker
  PROVE  Books'
<1>1. PICK w \in Workers : wpc[w] = "failed" /\ Freed(w)
  BY DEF DeleteWorker
<1>2. /\ wpc' = [wpc EXCEPT ![w] = "free"] /\ slot' = [slot EXCEPT ![w] = -1]
      /\ apc = "delete" /\ apc' = "release"
      /\ UNCHANGED <<idle, running, crew, emptySlots, newSlot, discard>>
  BY <1>1 DEF DeleteWorker, Freed, slots, counters, owner
<1>3. ~discard /\ newSlot \in DOMAIN crew
  BY <1>2, AtSlot DEF Filling
<1>4. /\ \A v \in Workers : wpc'[v] = IF v = w THEN "free" ELSE wpc[v]
      /\ \A v \in Workers : slot'[v] = IF v = w THEN -1 ELSE slot[v]
  BY <1>2 DEF IInv, TypeOK, WorkerTypes, SlotTypes
<1>5. slot[w] = newSlot /\ crew[newSlot] = NULL
  BY <1>1, <1>2, <1>3 DEF IInv, MemberInv, FreeInv
<1>6. \A v \in Workers : wpc[v] # "created" /\ (wpc[v] = "failed" => v = w)
  BY <1>1, <1>2, <1>3 DEF IInv, MemberInv
<1>7. \A s \in DOMAIN crew : crew[s] # NULL => slot[crew[s]] = s /\ crew[s] \in Workers
  BY <1>3, ElementOfSeq, LenProperties DEF IInv, TypeOK, SlotTypes, MemberInv
<1>8. MemberInv'
  <2>1. \A v \in Workers :
          IF wpc'[v] = "free" THEN slot'[v] = -1
          ELSE slot'[v] \in DOMAIN crew /\ crew[slot'[v]] = v
    BY <1>3, <1>4, <1>6 DEF IInv, MemberInv
  <2>2. \A s \in DOMAIN crew : crew[s] # NULL => slot'[crew[s]] = s
    BY <1>4, <1>5, <1>7
  <2>3. \A v \in Workers : wpc'[v] \notin {"created", "failed"}
    BY <1>4, <1>6
  <2> QED BY <1>2, <2>1, <2>2, <2>3 DEF MemberInv
<1>9. FreeInv'
  BY <1>2 DEF IInv, FreeInv
<1>10. CountInv'
  <2>1. {"free", "failed"} \cap Idling = {} /\ {"free", "failed"} \cap Counted = {}
    BY DEF Counted, Looping, Idling
  <2>2. idle \in Nat /\ running \in Nat
    BY DEF IInv, TypeOK, NumberTypes
  <2>3. /\ idle' \in Int /\ running' \in Int
        /\ idle' >= idle + (IF "free" \in Idling THEN 1 ELSE 0)
                         - (IF wpc[w] \in Idling THEN 1 ELSE 0)
        /\ running' >= running + (IF "free" \in Counted THEN 1 ELSE 0)
                               - (IF wpc[w] \in Counted THEN 1 ELSE 0)
    BY <1>1, <1>2, <2>1, <2>2
  <2> QED BY <1>1, <1>2, <2>3, Recount
<1> QED BY <1>8, <1>9, <1>10 DEF Books

\* The empty slot goes back to the list.
LEMMA BooksReleaseSlot ==
  ASSUME IInv, ReleaseSlot
  PROVE  Books'
<1>1. /\ emptySlots' = Append(emptySlots, newSlot)
      /\ apc = "release" /\ apc' = "added"
      /\ UNCHANGED <<idle, running, crew, wpc, slot, newSlot, discard>>
  BY DEF ReleaseSlot, counters, workers, owner
<1>2. ~discard /\ newSlot \in DOMAIN crew
  BY <1>1, AtSlot DEF Filling
<1>3. MemberInv'
  BY <1>1 DEF IInv, MemberInv
<1>4. FreeInv'
  <2>1. /\ Len(emptySlots) \in Nat
        /\ DOMAIN emptySlots = 1..Len(emptySlots)
        /\ DOMAIN emptySlots' = 1..(Len(emptySlots) + 1)
        /\ \A i \in 1..Len(emptySlots) : emptySlots'[i] = emptySlots[i]
        /\ emptySlots'[Len(emptySlots) + 1] = newSlot
    BY <1>1, <1>2, Appended DEF IInv, TypeOK, SlotTypes
  <2>2. /\ crew[newSlot] = NULL
        /\ \A i \in DOMAIN emptySlots : emptySlots[i] # newSlot
        /\ \A i \in DOMAIN emptySlots : crew[emptySlots[i]] = NULL
        /\ IsInjective(emptySlots)
    BY <1>1, <1>2 DEF IInv, FreeInv
  <2>3. IsInjective(emptySlots')
    BY <2>1, <2>2 DEF IsInjective
  <2>4. \A i \in DOMAIN emptySlots' : crew[emptySlots'[i]] = NULL
    BY <2>1, <2>2
  <2> QED BY <1>1, <2>3, <2>4 DEF FreeInv
<1>5. CountInv'
  BY <1>1 DEF IInv, CountInv, At
<1> QED BY <1>3, <1>4, <1>5 DEF Books

\* The end of a worker, under m_crewLock.
LEMMA BooksUnslot ==
  ASSUME IInv, NEW w \in Workers, Unslot(w)
  PROVE  Books'
<1>1. /\ wpc[w] = "unslot"
      /\ wpc' = [wpc EXCEPT ![w] = "free"] /\ slot' = [slot EXCEPT ![w] = -1]
      /\ UNCHANGED <<idle, running, apc, newSlot, discard>>
  BY DEF Unslot, Freed, counters, adding, owner
<1>2. CountInv'
  <2>1. {"free", "unslot"} \cap Idling = {} /\ {"free", "unslot"} \cap Counted = {}
    BY DEF Counted, Looping, Idling
  <2>2. idle \in Nat /\ running \in Nat
    BY DEF IInv, TypeOK, NumberTypes
  <2>3. /\ idle' \in Int /\ running' \in Int
        /\ idle' >= idle + (IF "free" \in Idling THEN 1 ELSE 0)
                         - (IF wpc[w] \in Idling THEN 1 ELSE 0)
        /\ running' >= running + (IF "free" \in Counted THEN 1 ELSE 0)
                               - (IF wpc[w] \in Counted THEN 1 ELSE 0)
    BY <1>1, <2>1, <2>2
  <2> QED BY <1>1, <2>3, Recount
<1>3. CASE discard
  BY <1>1, <1>2, <1>3 DEF Books, MemberInv, FreeInv
<1>4. CASE ~discard
  <2> DEFINE s == slot[w]
  <2>1. s \in DOMAIN crew /\ crew[s] = w
    BY <1>1, <1>4 DEF IInv, MemberInv
  <2>2. \A t \in DOMAIN crew : t # -1 /\ crew[t] \in Workers \cup {NULL}
    BY ElementOfSeq, LenProperties DEF IInv, TypeOK, SlotTypes
  <2>3. /\ emptySlots' = Append(emptySlots, s)
        /\ crew' = [crew EXCEPT ![s] = NULL]
    BY <2>1, <2>2 DEF Unslot
  <2>4. \A t \in DOMAIN crew : crew[t] # NULL => slot[crew[t]] = t
    BY <1>4 DEF IInv, MemberInv
  <2>5. slot[w] = s
    OBVIOUS
  <2> HIDE DEF s
  <2>6. /\ \A v \in Workers : wpc'[v] = IF v = w THEN "free" ELSE wpc[v]
        /\ \A v \in Workers : slot'[v] = IF v = w THEN -1 ELSE slot[v]
        /\ DOMAIN crew' = DOMAIN crew
        /\ \A t \in DOMAIN crew : crew'[t] = IF t = s THEN NULL ELSE crew[t]
    BY <1>1, <2>1, <2>3 DEF IInv, TypeOK, WorkerTypes, SlotTypes
  <2>7. w # NULL
    BY CrewAssumption
  <2>8. MemberInv'
    <3>1. \A v \in Workers :
            IF wpc'[v] = "free" THEN slot'[v] = -1
            ELSE /\ slot'[v] \in DOMAIN crew'
                 /\ crew'[slot'[v]] = v \/ (wpc'[v] = "failed" /\ apc = "delete")
      BY <1>4, <2>1, <2>6 DEF IInv, MemberInv
    <3>2. \A t \in DOMAIN crew' : crew'[t] # NULL => slot'[crew'[t]] = t
      BY <2>1, <2>2, <2>4, <2>5, <2>6
    <3>3. apc = "start" => crew[newSlot] \in Workers /\ newSlot \in DOMAIN crew
                           /\ wpc[crew[newSlot]] = "created"
      BY AtSlot DEF Filling
    <3>4. \A v \in Workers : wpc'[v] = "created" => apc = "start" /\ crew'[newSlot] = v
      BY <1>1, <1>4, <2>1, <2>6, <3>3 DEF IInv, MemberInv
    <3>5. apc = "start" => crew'[newSlot] # NULL /\ wpc'[crew'[newSlot]] = "created"
      BY <1>1, <2>1, <2>6, <3>3, CrewAssumption
    <3>6. apc = "clear" => crew[newSlot] \in Workers /\ newSlot \in DOMAIN crew
                           /\ wpc[crew[newSlot]] = "failed"
      BY AtSlot DEF Filling
    <3>7. apc = "clear" => crew'[newSlot] # NULL /\ wpc'[crew'[newSlot]] = "failed"
      BY <1>1, <2>1, <2>6, <3>6, CrewAssumption
    <3>8. /\ \A v \in Workers : wpc'[v] = "failed" =>
               apc \in {"clear", "delete"} /\ slot'[v] = newSlot
          /\ \A u, v \in Workers : wpc'[u] = "failed" /\ wpc'[v] = "failed" => u = v
      BY <1>4, <2>6 DEF IInv, MemberInv
    <3> QED BY <1>1, <3>1, <3>2, <3>4, <3>5, <3>7, <3>8 DEF MemberInv
  <2>9. FreeInv'
    <3>1. /\ Len(emptySlots) \in Nat
          /\ DOMAIN emptySlots = 1..Len(emptySlots)
          /\ DOMAIN emptySlots' = 1..(Len(emptySlots) + 1)
          /\ \A i \in 1..Len(emptySlots) : emptySlots'[i] = emptySlots[i]
          /\ emptySlots'[Len(emptySlots) + 1] = s
      BY <2>1, <2>3, Appended DEF IInv, TypeOK, SlotTypes
    <3>2. /\ \A i \in DOMAIN emptySlots : emptySlots[i] \in DOMAIN crew
          /\ \A i \in DOMAIN emptySlots : crew[emptySlots[i]] = NULL
          /\ IsInjective(emptySlots)
      BY <1>4, ElementOfSeq, LenProperties DEF IInv, TypeOK, SlotTypes, FreeInv
    <3>3. \A i \in DOMAIN emptySlots : emptySlots[i] # s
      BY <2>1, <2>7, <3>2
    <3>4. IsInjective(emptySlots')
      BY <3>1, <3>2, <3>3 DEF IsInjective
    <3>5. \A i \in DOMAIN emptySlots' : crew'[emptySlots'[i]] = NULL
      BY <2>1, <2>6, <3>1, <3>2
    <3>6. apc \in {"launch", "delete", "release"} =>
            /\ newSlot \in DOMAIN crew /\ crew[newSlot] = NULL
            /\ \A i \in DOMAIN emptySlots : emptySlots[i] # newSlot
      BY <1>4, AtSlot DEF IInv, FreeInv, Filling
    <3>7. apc \in {"launch", "delete", "release"} =>
            /\ crew'[newSlot] = NULL
            /\ \A i \in DOMAIN emptySlots' : emptySlots'[i] # newSlot
      BY <2>1, <2>6, <2>7, <3>1, <3>6
    <3> QED BY <1>1, <3>4, <3>5, <3>7 DEF FreeInv
  <2> QED BY <1>2, <2>8, <2>9 DEF Books
<1> QED BY <1>3, <1>4

\* A step of a worker.
LEMMA BooksWork ==
  ASSUME IInv, NEW w \in Workers, Work(w)
  PROVE  Books'
<1> DEFINE still == <<crew, emptySlots, apc, newSlot, slot, discard>>
<1> USE DEF slots, counters, adding, owner
<1>1. idle \in Nat /\ running \in Nat
  BY DEF IInv, TypeOK, NumberTypes
<1>2. CASE Loop(w) \/ Process(w) \/ Put(w) \/ Check(w)
  <2>1. /\ wpc[w] \in {"loop", "process", "put", "check"}
        /\ UNCHANGED still /\ UNCHANGED <<idle, running>>
    BY <1>2 DEF Loop, Process, Put, Check, Release
  <2>2. PICK p \in {"poll", "exit", "loop", "put", "check", "segv"} :
          wpc' = [wpc EXCEPT ![w] = p]
    BY <1>2 DEF Loop, Process, Put, Check, Release
  <2>3. {wpc[w], p} \cap {"free", "created", "failed"} = {}
    BY <2>1
  <2>4. /\ idle' \in Int /\ running' \in Int
        /\ idle' >= idle + (IF p \in Idling THEN 1 ELSE 0)
                         - (IF wpc[w] \in Idling THEN 1 ELSE 0)
        /\ running' >= running + (IF p \in Counted THEN 1 ELSE 0)
                               - (IF wpc[w] \in Counted THEN 1 ELSE 0)
    BY <1>1, <2>1, <2>2 DEF Counted, Looping, Idling
  <2> QED BY <2>1, <2>2, <2>3, <2>4, Onward
<1>3. CASE Get(w) \/ WaitDone(w)
  <2>1. wpc[w] \in {"get", "wait"} /\ UNCHANGED still /\ UNCHANGED <<idle, running>>
    BY <1>3 DEF Get, WaitDone
  <2>2. PICK p \in {"wait", "gotten"} : wpc' = [wpc EXCEPT ![w] = p]
    BY <1>3 DEF Get, WaitDone
  <2>3. {wpc[w], p} \cap {"free", "created", "failed"} = {}
    BY <2>1
  <2>4. /\ idle' \in Int /\ running' \in Int
        /\ idle' >= idle + (IF p \in Idling THEN 1 ELSE 0)
                         - (IF wpc[w] \in Idling THEN 1 ELSE 0)
        /\ running' >= running + (IF p \in Counted THEN 1 ELSE 0)
                               - (IF wpc[w] \in Counted THEN 1 ELSE 0)
    BY <1>1, <2>1, <2>2 DEF Counted, Looping, Idling
  <2> QED BY <2>1, <2>2, <2>3, <2>4, Onward
<1>4. CASE Poll(w)
  <2>1. wpc[w] \in {"poll"} /\ UNCHANGED still /\ running' = running
    BY <1>4 DEF Poll
  <2>2. PICK p \in {"process", "get"} : wpc' = [wpc EXCEPT ![w] = p]
               /\ idle' = idle + (IF p = "get" THEN 1 ELSE 0)
    BY <1>1, <1>4 DEF Poll
  <2>3. {wpc[w], p} \cap {"free", "created", "failed"} = {}
    BY <2>1
  <2>4. /\ idle' \in Int /\ running' \in Int
        /\ idle' >= idle + (IF p \in Idling THEN 1 ELSE 0)
                         - (IF wpc[w] \in Idling THEN 1 ELSE 0)
        /\ running' >= running + (IF p \in Counted THEN 1 ELSE 0)
                               - (IF wpc[w] \in Counted THEN 1 ELSE 0)
    BY <1>1, <2>1, <2>2 DEF Counted, Looping, Idling
  <2> QED BY <2>1, <2>2, <2>3, <2>4, Onward
<1>5. CASE Gotten(w)
  <2>1. wpc[w] \in {"gotten"} /\ UNCHANGED still /\ running' = running /\ idle' = idle - 1
    BY <1>5 DEF Gotten
  <2>2. PICK p \in {"check", "process"} : wpc' = [wpc EXCEPT ![w] = p]
    BY <1>5 DEF Gotten
  <2>3. {wpc[w], p} \cap {"free", "created", "failed"} = {}
    BY <2>1
  <2>4. /\ idle' \in Int /\ running' \in Int
        /\ idle' >= idle + (IF p \in Idling THEN 1 ELSE 0)
                         - (IF wpc[w] \in Idling THEN 1 ELSE 0)
        /\ running' >= running + (IF p \in Counted THEN 1 ELSE 0)
                               - (IF wpc[w] \in Counted THEN 1 ELSE 0)
    BY <1>1, <2>1, <2>2 DEF Counted, Looping, Idling
  <2> QED BY <2>1, <2>2, <2>3, <2>4, Onward
<1>6. CASE Dying(w)
  <2>1. wpc[w] \in {"dying"} /\ UNCHANGED still /\ running' = running - 1 /\ idle' = idle
    BY <1>6 DEF Dying
  <2>2. PICK p \in {"unslot"} : wpc' = [wpc EXCEPT ![w] = p]
    BY <1>6 DEF Dying
  <2>3. {wpc[w], p} \cap {"free", "created", "failed"} = {}
    BY <2>1
  <2>4. /\ idle' \in Int /\ running' \in Int
        /\ idle' >= idle + (IF p \in Idling THEN 1 ELSE 0)
                         - (IF wpc[w] \in Idling THEN 1 ELSE 0)
        /\ running' >= running + (IF p \in Counted THEN 1 ELSE 0)
                               - (IF wpc[w] \in Counted THEN 1 ELSE 0)
    BY <1>1, <2>1, <2>2 DEF Counted, Looping, Idling
  <2> QED BY <2>1, <2>2, <2>3, <2>4, Onward
<1>7. CASE Exit(w) /\ slot[w] # -1
  <2>1. wpc[w] = "exit" /\ UNCHANGED still /\ UNCHANGED <<idle, running>>
    BY <1>7 DEF Exit
  <2>2. wpc' = [wpc EXCEPT ![w] = "dying"]
    BY <1>7 DEF Exit
  <2>3. {wpc[w], "dying"} \cap {"free", "created", "failed"} = {}
    BY <2>1
  <2>4. /\ idle' \in Int /\ running' \in Int
        /\ idle' >= idle + (IF "dying" \in Idling THEN 1 ELSE 0)
                         - (IF wpc[w] \in Idling THEN 1 ELSE 0)
        /\ running' >= running + (IF "dying" \in Counted THEN 1 ELSE 0)
                               - (IF wpc[w] \in Counted THEN 1 ELSE 0)
    BY <1>1, <2>1 DEF Counted, Looping, Idling
  <2> QED BY <2>1, <2>2, <2>3, <2>4, Onward
<1>8. CASE Exit(w) /\ slot[w] = -1
  <2>1. /\ wpc[w] = "exit" /\ wpc' = [wpc EXCEPT ![w] = "free"]
        /\ UNCHANGED <<idle, running, crew, discard>>
    BY <1>8 DEF Exit, Freed
  <2>2. -1 \notin DOMAIN crew
    BY LenProperties DEF IInv, TypeOK, SlotTypes
  <2>3. discard'
    BY <1>8, <2>1, <2>2 DEF IInv, MemberInv
  <2>4. /\ idle' \in Int /\ running' \in Int
        /\ idle' >= idle + (IF "free" \in Idling THEN 1 ELSE 0)
                         - (IF wpc[w] \in Idling THEN 1 ELSE 0)
        /\ running' >= running + (IF "free" \in Counted THEN 1 ELSE 0)
                               - (IF wpc[w] \in Counted THEN 1 ELSE 0)
    BY <1>1, <2>1 DEF Counted, Looping, Idling
  <2>5. CountInv'
    BY <2>1, <2>4, Recount
  <2> QED BY <2>3, <2>5 DEF Books, MemberInv, FreeInv
<1>9. CASE Unslot(w)
  BY <1>9, BooksUnslot
<1> QED BY <1>2, <1>3, <1>4, <1>5, <1>6, <1>7, <1>8, <1>9 DEF Work

\* stopAllWorkers changes no slot but those of a crew that is destroyed.
LEMMA BooksStopEach ==
  ASSUME IInv, StopEach
  PROVE  Books'
<1>1. UNCHANGED <<crew, emptySlots, wpc, idle, running, apc, newSlot, discard>>
  BY DEF StopEach, slots, counters, adding
<1>2. discard' \/ slot' = slot
  BY <1>1 DEF StopEach
<1> QED BY <1>1, <1>2, Quiet

\* Every step keeps slots and counters in order.
LEMMA BooksStep ==
  ASSUME IInv, Next
  PROVE  Books'
<1> USE DEF slots, counters, adding, workers, owner
<1>1. ASSUME NEW j \in Jobs, AddJob(j) \/ Calling(j) PROVE Books'
  <2>1. /\ UNCHANGED <<crew, emptySlots, wpc, idle, running, slot, discard>>
        /\ \/ UNCHANGED <<apc, newSlot>>
           \/ {apc, apc'} \cap Filling = {}
    BY <1>1 DEF AddJob, Calling, AppendJob, TryGrow, Grow, Grown, ReleaseAddLock,
                IInv, AddingInv, Filling
  <2> QED BY <2>1, Quiet
<1>2. CASE AddWorker
  BY <1>2, BooksGetSlot, BooksLaunch, BooksStartWorker, BooksStartFails,
     BooksClearSlot, BooksDeleteWorker, BooksReleaseSlot DEF AddWorker
<1>3. ASSUME NEW w \in Workers, Work(w) PROVE Books'
  BY <1>3, BooksWork
<1>4. CASE StartJobProcessor \/ Start \/ Stop \/ Destroy \/ OwnerStep
  <2>1. CASE StopEach
    BY <2>1, BooksStopEach
  <2>2. CASE ~StopEach
    <3>1. /\ UNCHANGED <<crew, emptySlots, wpc, idle, running, slot>>
          /\ \/ UNCHANGED <<apc, newSlot>>
             \/ {apc, apc'} \cap Filling = {}
      BY <1>4, <2>2 DEF IInv, AddingInv, Filling, StartJobProcessor, Start, Stop, Destroy,
         OwnerStep, StartLock, StartMore, StartAdded, StopAll, Restop, LockCrew, StopAllDone, Shutdown, NoWaiting, Join,
         FutexWait, Finish, Delete, ReleaseAddLock
    <3>2. discard' = discard \/ discard' = TRUE
      BY <1>4, <2>2 DEF StartJobProcessor, Start, Stop, Destroy, OwnerStep, StartLock,
         StartMore, StartAdded, StopAll, Restop, LockCrew, StopAllDone, Shutdown, NoWaiting, Join, FutexWait, Finish, Delete
    <3>3. discard' \/ (slot' = slot /\ discard' = discard)
      <4>1. slot' = slot
        BY <3>1
      <4>2. CASE discard' = TRUE
        BY <4>2, FlagStep DEF FlagTypes
      <4>3. CASE discard' = discard
        BY <4>1, <4>3
      <4> QED BY <3>2, <4>2, <4>3
    <3> QED BY <3>1, <3>3, Quiet
  <2> QED BY <2>1, <2>2
<1>5. ASSUME NEW c \in IdleChoices, AdjustIdle(c[1], c[2]) PROVE Books'
  BY <1>5, Quiet DEF AdjustIdle
<1>6. ASSUME NEW n \in MaxChoices, SetMaxWorkers(n) PROVE Books'
  BY <1>6, Quiet DEF SetMaxWorkers
<1> QED BY <1>1, <1>2, <1>3, <1>4, <1>5, <1>6 DEF Next

-----------------------------------------------------------------------------
(* The theorems *)

\* A new crew has no worker and no slot.
LEMMA InitInv == Init => IInv
<1> SUFFICES ASSUME Init PROVE IInv
  OBVIOUS
<1>1. TypeOK
  <2>1. ControlTypes /\ WorkerTypes
    BY DEF Init, ControlTypes, WorkerTypes
  <2>2. FlagTypes
    BY CrewAssumption DEF Init, FlagTypes
  <2>3. NumberTypes
    BY CrewAssumption DEF Init, NumberTypes
  <2>4. SlotTypes
    BY DEF Init, SlotTypes
  <2>5. JobTypes
    BY DEF Init, JobTypes
  <2> QED BY <2>1, <2>2, <2>3, <2>4, <2>5 DEF TypeOK
<1>2. AddingInv
  BY CrewAssumption DEF Init, AddingInv, Filling, StopLoops
<1>3. MemberInv /\ FreeInv
  BY DEF Init, MemberInv, FreeInv, IsInjective
<1>4. CountInv
  <2>1. At(Idling) = {} /\ At(Counted) = {}
    BY DEF Init, At, Idling, Counted, Looping
  <2> QED BY <2>1, FS_EmptySet DEF Init, CountInv
<1> QED BY <1>1, <1>2, <1>3, <1>4 DEF IInv

\* The invariant is inductive.
LEMMA NextInv == IInv /\ [Next]_vars => IInv'
<1> SUFFICES ASSUME IInv, [Next]_vars PROVE IInv'
  OBVIOUS
<1>1. CASE Next
  BY <1>1, ControlStep, FlagStep, NumberStep, SlotStep, WorkerStep, JobStep, AddingStep,
     BooksStep DEF IInv, TypeOK, Books
<1>2. CASE UNCHANGED vars
  <2>1. TypeOK'
    BY <1>2 DEF IInv, TypeOK, ControlTypes, FlagTypes, NumberTypes, SlotTypes,
       WorkerTypes, JobTypes, vars, limits, slots, counters, jobQueue, results, adding,
       workers, callers, owner
  <2>2. AddingInv'
    BY <1>2 DEF IInv, AddingInv, vars, slots, adding, callers, owner
  <2>3. MemberInv' /\ FreeInv' /\ CountInv'
    BY <1>2 DEF IInv, MemberInv, FreeInv, CountInv, At, vars, slots, counters, adding,
       workers, owner
  <2> QED BY <2>1, <2>2, <2>3 DEF IInv
<1> QED BY <1>1, <1>2

\* Every variable keeps its type, and m_idleWorkers and m_iRunningWorkers, which
\* callers, workers and owner count without a common lock, never drop below zero.
THEOREM CrewTypes == Spec => []TypeOK
<1>1. IInv => TypeOK
  BY DEF IInv
<1> QED BY <1>1, InitInv, NextInv, PTL DEF Spec

-----------------------------------------------------------------------------
(* The size of a crew whose limit is not lowered *)

\* maxWorkers bounds the crew at every step, since what getSlot compared it
\* with can only drop before the new worker is counted.
LEMMA LimitStep ==
  ASSUME LimitKept, IInv, LimitInv, Next
  PROVE  LimitInv'
<1> USE DEF LimitInv, StopLoops, limits, slots, counters, jobQueue, results, adding, workers, callers,
           owner
<1>0. /\ running \in Nat /\ maxWorkers \in Nat /\ MaxWorkers \in Nat
      /\ running' \in Nat /\ MaxChoices \subseteq Int
  BY NumberStep, CrewAssumption DEF IInv, TypeOK, NumberTypes
<1>1. ASSUME NEW j \in Jobs, AddJob(j) \/ Calling(j) PROVE LimitInv'
  BY <1>1 DEF AddJob, Calling, AppendJob, TryGrow, Grow, Grown, ReleaseAddLock
<1>2. CASE AddWorker
  BY <1>0, <1>2 DEF AddWorker, GetSlot, Launch, StartWorker, StartFails,
         ClearSlot, DeleteWorker, ReleaseSlot
<1>3. ASSUME NEW w \in Workers, Work(w) PROVE LimitInv'
  BY <1>0, <1>3 DEF Work, Loop, Poll, Get, WaitDone, Gotten, Process, Put, Check,
         Exit, Dying,
         Unslot
<1>4. CASE StartJobProcessor \/ Start \/ Stop \/ Destroy \/ OwnerStep
  <2>1. CASE StartJobProcessor
    BY <1>0, <2>1 DEF StartJobProcessor
  <2>2. CASE Start
    BY <1>0, <2>2, CrewAssumption DEF Start
  <2>3. CASE Stop \/ Destroy
    BY <2>3 DEF Stop, Destroy
  <2>4. CASE StartLock \/ StartMore \/ StartAdded
    BY <2>4 DEF StartLock, StartMore, StartAdded, ReleaseAddLock
  <2>5. CASE \/ StopAll \/ StopEach \/ StopAllDone \/ Shutdown \/ NoWaiting \/ Join
             \/ FutexWait \/ Restop
    BY <2>5 DEF StopAll, LockCrew, StopEach, StopAllDone,
         StopLoops, Shutdown, NoWaiting, Join, FutexWait, Restop
  <2>6. CASE Finish \/ Delete
    BY <2>6 DEF Finish, Delete
  <2> QED BY <1>4, <2>1, <2>2, <2>3, <2>4, <2>5, <2>6 DEF OwnerStep
<1>5. ASSUME NEW c \in IdleChoices, AdjustIdle(c[1], c[2]) PROVE LimitInv'
  BY <1>5 DEF AdjustIdle
<1>6. ASSUME NEW n \in MaxChoices, SetMaxWorkers(n) PROVE LimitInv'
  BY <1>0, <1>6 DEF LimitKept, SetMaxWorkers
<1> QED BY <1>1, <1>2, <1>3, <1>4, <1>5, <1>6 DEF Next

\* The table of slots is sound and the crew is never larger than its limit,
\* for any number of jobs and workers, while callers of addJob launch workers
\* that others see leave, if the owner does not lower the limit.
THEOREM CrewBooks ==
  ASSUME LimitKept
  PROVE  Spec => []CrewSound
<1>1. Init => LimitInv
  BY CrewAssumption DEF Init, LimitInv, StopLoops
<1>2. IInv /\ LimitInv /\ [Next]_vars => LimitInv'
  <2> SUFFICES ASSUME IInv, LimitInv, [Next]_vars PROVE LimitInv'
    OBVIOUS
  <2>1. CASE UNCHANGED vars
    BY <2>1 DEF LimitInv, vars, limits, counters, adding, owner
  <2> QED BY <2>1, LimitStep
<1>3. IInv /\ LimitInv => CrewSound
  <2> SUFFICES ASSUME IInv, LimitInv PROVE CrewSound
    OBVIOUS
  <2>1. SlotTable
    <3> SUFFICES ASSUME ~discard PROVE SlotTable
      BY DEF SlotTable
    <3>1. \A s \in DOMAIN crew : s # -1 /\ crew[s] \in Workers \cup {NULL}
      BY ElementOfSeq, LenProperties DEF IInv, TypeOK, SlotTypes
    <3>2. \A s \in DOMAIN crew :
            \/ crew[s] # NULL /\ slot[crew[s]] = s /\ wpc[crew[s]] # "free"
            \/ /\ crew[s] = NULL
               /\ \A w \in Workers : slot[w] = s => apc = "delete" /\ wpc[w] = "failed"
      BY <3>1, CrewAssumption DEF IInv, MemberInv
    <3>3. \A s \in ToSet(emptySlots) : crew[s] = NULL
      BY DEF IInv, FreeInv, ToSet
    <3>4. apc \in {"launch", "delete", "release"} =>
            newSlot \notin ToSet(emptySlots) /\ crew[newSlot] = NULL
      BY DEF IInv, FreeInv, ToSet
    <3> QED BY <3>2, <3>3, <3>4 DEF SlotTable, IInv, FreeInv
  <2>2. SizeBounded
    <3>1. IsFiniteSet(At(Counted)) /\ At(Looping) \subseteq At(Counted)
      BY FS_Subset, CrewAssumption DEF At, Counted
    <3>2. /\ Cardinality(At(Looping)) <= Cardinality(At(Counted))
          /\ Cardinality(At(Looping)) \in Nat /\ Cardinality(At(Counted)) \in Nat
      BY <3>1, FS_Subset, FS_CardinalityType
    <3>3. /\ Cardinality(At(Counted)) <= running /\ running <= maxWorkers
          /\ idle \in Nat /\ running \in Nat /\ maxWorkers \in Nat
      BY DEF IInv, CountInv, LimitInv, TypeOK, NumberTypes
    <3>4. Cardinality(At(Looping)) <= maxWorkers
      BY <3>2, <3>3
    <3> QED BY <3>3, <3>4 DEF SizeBounded, At
  <2> QED BY <2>1, <2>2 DEF CrewSound
<1> QED BY <1>1, <1>2, <1>3, InitInv, NextInv, PTL DEF Spec
-----------------------------------------------------------------------------
(* The jobs and the smallest size of the crew *)

\* The places a job can be in, and whether addJob has accepted it.
InQueue(j) == \E i \in DOMAIN queue : queue[i] = j
InHands(j) == \E w \in Workers : job[w] = j
Done(j) == outcome[j] # "none"
Accepted(j) == cpc[j] \in {"appended", "growing", "returned"} /\ ret[j] = 0

\* A worker has a job from the moment it takes one until it is done with it.
HandsInv ==
  \A w \in Workers :
    /\ job[w] # NULL => wpc[w] \in {"gotten", "process", "put", "segv"}
    /\ wpc[w] \in {"process", "put", "segv"} => job[w] # NULL

\* A job is in one place if it was accepted, and in none otherwise.
PlaceInv ==
  /\ \A i, k \in DOMAIN queue : queue[i] = queue[k] => i = k
  /\ \A v, w \in Workers : job[v] = job[w] /\ job[v] # NULL => v = w
  /\ \A j \in Jobs :
       /\ InQueue(j) => ~InHands(j) /\ ~Done(j)
       /\ InHands(j) => ~Done(j)
       /\ Accepted(j) <=> InQueue(j) \/ InHands(j) \/ Done(j)
       /\ cpc[j] \in {"new", "append"} => ret[j] = 0

\* The owner's place goes with the state of the crew, which has a finished
\* queue while it is RUNNING.
StateInv ==
  /\ state = "TO_START" => /\ running = 0 /\ apc \in {"none", "loop"}
                           /\ opc \in {"main", "start", "dlock", "deleted"}
                           /\ hasFinished \/ (Deferred /\ opc # "start")
  /\ opc \in {"start"} => state = "TO_START"
  /\ opc \in {"startLock", "starting"} => state = "RUNNING"
  /\ opc \in {"stopAll", "shutdown", "noWaiting", "join", "futexWait", "restop",
              "finish"} \cup StopLoops => state \in {"STOPPING", "STOPPED"}
  /\ state = "RUNNING" => hasFinished

\* m_idleWorkers counts the idle workers, and nobody asks the workers of a
\* RUNNING crew to stop.
IdleInv ==
  /\ idle = Cardinality(At(Idling))
  /\ state = "RUNNING" => \A w \in Workers : wpc[w] \in Looping => working[w] = "RUNNING"

\* The owner always asks for an idle worker to be kept.
IdleKept ==
  /\ MaxIdle >= 1 \/ MinIdle >= 1
  /\ \A c \in IdleChoices : c[2] >= 1

\* Then the limit of idle workers is never zero while the crew runs.
MaxIdleInv == state \in {"TO_START", "RUNNING"} => maxIdle >= 1

-----------------------------------------------------------------------------
(* Where the jobs are *)

\* A worker has its job from the moment it takes it until it is done with it.
LEMMA HandsStep ==
  ASSUME IInv, HandsInv, Next
  PROVE  HandsInv'
<1> USE DEF HandsInv, slots, counters, jobQueue, results, adding, workers
<1>0. /\ wpc \in [Workers -> Looping \cup
                  {"free", "created", "failed", "exit", "dying", "unslot", "segv"}]
      /\ job \in [Workers -> Jobs \cup {NULL}]
  BY DEF IInv, TypeOK, WorkerTypes, JobTypes
<1>1. ASSUME NEW j \in Jobs, AddJob(j) \/ Calling(j) PROVE HandsInv'
  BY <1>1 DEF AddJob, Calling, AppendJob, TryGrow, Grow, Grown
<1>2. CASE AddWorker
  <2>1. CASE GetSlot \/ ClearSlot \/ ReleaseSlot
    BY <2>1 DEF GetSlot, ClearSlot, ReleaseSlot
  <2>2. CASE Launch \/ DeleteWorker
    BY <1>0, <2>2 DEF Launch, DeleteWorker, Freed
  <2>3. CASE StartWorker \/ StartFails
    <3>1. crew[newSlot] \in Workers /\ wpc[crew[newSlot]] = "created"
      BY <2>3, AtSlot DEF StartWorker, StartFails, Filling
    <3> QED BY <1>0, <2>3, <3>1 DEF StartWorker, StartFails
  <2> QED BY <1>2, <2>1, <2>2, <2>3 DEF AddWorker
<1>3. ASSUME NEW w \in Workers, Work(w) PROVE HandsInv'
  <2>1. queue # <<>> => Head(queue) \in Jobs /\ Head(queue) # NULL
    BY HeadTailProperties, CrewAssumption DEF IInv, TypeOK, JobTypes
  <2>2. CASE Poll(w) \/ Get(w) \/ WaitDone(w)
    BY <1>0, <2>1, <2>2 DEF Poll, Get, WaitDone, Take
  <2>3. CASE Gotten(w) \/ Process(w) \/ Put(w)
    BY <1>0, <2>3 DEF Gotten, Process, Put, Release
  <2>4. CASE Loop(w) \/ Check(w) \/ Exit(w) \/ Dying(w) \/ Unslot(w)
    BY <1>0, <2>4 DEF Loop, Check, Exit, Dying, Unslot, Freed
  <2> QED BY <1>3, <2>2, <2>3, <2>4 DEF Work
<1>4. CASE StartJobProcessor \/ Start \/ Stop \/ Destroy \/ OwnerStep
  BY <1>4 DEF StartJobProcessor, Start, Stop, Destroy, OwnerStep, StartLock, StartMore,
     StartAdded, StopAll, LockCrew, StopEach, StopAllDone,
         StopLoops, Shutdown, NoWaiting, Join, FutexWait,
     Restop, Finish, Delete
<1>5. ASSUME NEW c \in IdleChoices, AdjustIdle(c[1], c[2]) PROVE HandsInv'
  BY <1>5 DEF AdjustIdle
<1>6. ASSUME NEW n \in MaxChoices, SetMaxWorkers(n) PROVE HandsInv'
  BY <1>6 DEF SetMaxWorkers
<1> QED BY <1>1, <1>2, <1>3, <1>4, <1>5, <1>6 DEF Next

\* What PlaceInv is about stays as it is.
LEMMA PlaceKept ==
  ASSUME PlaceInv, UNCHANGED <<queue, job, outcome>>,
         \A j \in Jobs : Accepted(j)' <=> Accepted(j),
         \A j \in Jobs : cpc'[j] \in {"new", "append"} => ret'[j] = 0
  PROVE  PlaceInv'
BY DEF PlaceInv, InQueue, InHands, Done

\* append: a job that was nowhere comes to the end of the queue.
LEMMA PlaceAppend ==
  ASSUME IInv, PlaceInv, NEW j \in Jobs, AppendJob(j)
  PROVE  PlaceInv'
<1>1. /\ cpc[j] = "append" /\ cpc' = [cpc EXCEPT ![j] = "appended"]
      /\ UNCHANGED <<job, outcome>>
      /\ cpc \in [Jobs -> {"new", "append", "appended", "growing", "returned"}]
      /\ ret \in [Jobs -> {0, LS_FAIL, EACCES}] /\ queue \in Seq(Jobs)
  BY DEF AppendJob, workers, results, IInv, TypeOK, ControlTypes, JobTypes
<1>2. ~Accepted(j) /\ ret[j] = 0
  BY <1>1 DEF PlaceInv, Accepted
<1>3. CASE shutdown
  <2>1. ret' = [ret EXCEPT ![j] = EACCES] /\ queue' = queue
    BY <1>3 DEF AppendJob
  <2>2. \A k \in Jobs : Accepted(k)' <=> Accepted(k)
    BY <1>1, <1>2, <2>1 DEF Accepted, EACCES
  <2>3. \A k \in Jobs : cpc'[k] \in {"new", "append"} => ret'[k] = 0
    BY <1>1, <2>1 DEF PlaceInv
  <2> QED BY <1>1, <2>1, <2>2, <2>3, PlaceKept
<1>4. CASE ~shutdown
  <2>1. ret' = ret /\ queue' = Append(queue, j)
    BY <1>4 DEF AppendJob
  <2>2. /\ Len(queue) \in Nat /\ DOMAIN queue = 1..Len(queue)
        /\ DOMAIN queue' = 1..(Len(queue) + 1)
        /\ \A i \in 1..Len(queue) : queue'[i] = queue[i]
        /\ queue'[Len(queue) + 1] = j
    BY <1>1, <2>1, Appended
  <2>3. DOMAIN queue' = DOMAIN queue \cup {Len(queue) + 1} /\ Len(queue) + 1 \notin DOMAIN queue
    BY <2>2
  <2>4. \A i \in DOMAIN queue : queue'[i] = queue[i] /\ queue[i] # j
    BY <1>2, <2>2 DEF PlaceInv, InQueue
  <2>5. \A i, k \in DOMAIN queue' : queue'[i] = queue'[k] => i = k
    BY <2>2, <2>3, <2>4 DEF PlaceInv
  <2>6. \A k \in Jobs : /\ InQueue(k)' <=> InQueue(k) \/ k = j
                        /\ InHands(k)' <=> InHands(k)
                        /\ Done(k)' <=> Done(k)
    BY <1>1, <2>2, <2>3, <2>4 DEF InQueue, InHands, Done
  <2>7. \A k \in Jobs : Accepted(k)' <=> Accepted(k) \/ k = j
    BY <1>1, <1>2, <2>1 DEF Accepted
  <2>8. \A k \in Jobs : cpc'[k] \in {"new", "append"} => ret'[k] = 0
    BY <1>1, <2>1 DEF PlaceInv
  <2> QED BY <1>1, <1>2, <2>5, <2>6, <2>7, <2>8 DEF PlaceInv
<1> QED BY <1>3, <1>4

\* The front of the queue changes to the hands of a worker who had none.
LEMMA PlaceTake ==
  ASSUME IInv, PlaceInv, NEW w \in Workers, job[w] = NULL, Take(w),
         UNCHANGED <<outcome, cpc, ret>>
  PROVE  PlaceInv'
<1> DEFINE j == Head(queue)
<1>1. /\ queue # <<>> /\ queue' = Tail(queue) /\ job' = [job EXCEPT ![w] = j]
      /\ queue \in Seq(Jobs) /\ job \in [Workers -> Jobs \cup {NULL}]
  BY DEF Take, IInv, TypeOK, JobTypes
<1>2. /\ Len(queue) \in Nat /\ Len(queue) > 0 /\ DOMAIN queue = 1..Len(queue)
  BY <1>1, EmptySeq, LenProperties
<1>3. j = queue[1] /\ j \in Jobs /\ j # NULL
  BY <1>1, HeadTailProperties, CrewAssumption
<1>4. /\ Tail(queue) \in Seq(Jobs) /\ Len(Tail(queue)) = Len(queue) - 1
      /\ \A i \in 1..Len(Tail(queue)) : Tail(queue)[i] = queue[i + 1]
  BY <1>1, HeadTailProperties
<1>5. DOMAIN queue' = 1..(Len(queue) - 1) /\ \A i \in DOMAIN queue' : queue'[i] = queue[i + 1]
  BY <1>1, <1>4, LenProperties
<1>6. \A i \in DOMAIN queue' : i + 1 \in DOMAIN queue /\ i + 1 # 1 /\ queue'[i] # j
  BY <1>2, <1>3, <1>5 DEF PlaceInv
<1>7. \A i, k \in DOMAIN queue' : queue'[i] = queue'[k] => i = k
  <2> SUFFICES ASSUME NEW i \in DOMAIN queue', NEW k \in DOMAIN queue', queue'[i] = queue'[k]
      PROVE i = k
    OBVIOUS
  <2>1. i + 1 = k + 1
    BY <1>5, <1>6 DEF PlaceInv
  <2> QED BY <1>2, <1>5, <2>1
<1>8. \A k \in Jobs : InQueue(k)' <=> InQueue(k) /\ k # j
  <2> SUFFICES ASSUME NEW k \in Jobs PROVE InQueue(k)' <=> InQueue(k) /\ k # j
    OBVIOUS
  <2>1. InQueue(k)' => InQueue(k) /\ k # j
    BY <1>5, <1>6 DEF InQueue
  <2>2. ASSUME InQueue(k), k # j PROVE InQueue(k)'
    <3>1. PICK i \in DOMAIN queue : queue[i] = k
      BY <2>2 DEF InQueue
    <3>2. i # 1
      BY <1>3, <2>2, <3>1
    <3>3. i - 1 \in DOMAIN queue' /\ (i - 1) + 1 = i
      BY <1>2, <1>5, <3>2
    <3> QED BY <1>5, <3>1, <3>3 DEF InQueue
  <2> QED BY <2>1, <2>2
<1>9. InQueue(j) /\ ~InHands(j)
  BY <1>2, <1>3 DEF InQueue, PlaceInv
<1>10. \A k \in Jobs : /\ InHands(k)' <=> InHands(k) \/ k = j
                       /\ Done(k)' <=> Done(k)
                       /\ Accepted(k)' <=> Accepted(k)
  <2>1. \A k \in Jobs : (Done(k)' <=> Done(k)) /\ (Accepted(k)' <=> Accepted(k))
    BY DEF Done, Accepted
  <2>2. \A k \in Jobs : InHands(k)' <=> InHands(k) \/ k = j
    BY <1>1, CrewAssumption DEF InHands
  <2> QED BY <2>1, <2>2
<1>11. \A u, v \in Workers : job'[u] = job'[v] /\ job'[u] # NULL => u = v
  BY <1>1, <1>3, <1>9 DEF PlaceInv, InHands
<1>12. \A k \in Jobs : cpc'[k] \in {"new", "append"} => ret'[k] = 0
  BY DEF PlaceInv
<1> HIDE DEF j
<1> QED BY <1>3, <1>7, <1>8, <1>9, <1>10, <1>11, <1>12 DEF PlaceInv

\* A worker is done with its job.
LEMMA PlaceRelease ==
  ASSUME IInv, HandsInv, PlaceInv, NEW w \in Workers, NEW how \in {"finished", "released"},
         wpc[w] \in {"process", "put"}, Release(w, how), UNCHANGED <<queue, cpc, ret>>
  PROVE  PlaceInv'
<1>1. PICK j \in Jobs : j = job[w]
  BY DEF HandsInv, IInv, TypeOK, JobTypes
<1>2. /\ outcome' = [outcome EXCEPT ![j] = how] /\ job' = [job EXCEPT ![w] = NULL]
      /\ outcome \in [Jobs -> {"none", "finished", "released"}]
      /\ job \in [Workers -> Jobs \cup {NULL}] /\ j # NULL
  BY <1>1, CrewAssumption DEF Release, IInv, TypeOK, JobTypes
<1>3. \A k \in Jobs : InHands(k)' <=> InHands(k) /\ k # j
  BY <1>1, <1>2, CrewAssumption DEF InHands, PlaceInv
<1>4. \A k \in Jobs : /\ Done(k)' <=> Done(k) \/ k = j
                      /\ InQueue(k)' <=> InQueue(k)
                      /\ Accepted(k)' <=> Accepted(k)
  <2>1. \A k \in Jobs : Done(k)' <=> Done(k) \/ k = j
    BY <1>2 DEF Done
  <2>2. \A k \in Jobs : (InQueue(k)' <=> InQueue(k)) /\ (Accepted(k)' <=> Accepted(k))
    BY DEF InQueue, Accepted
  <2> QED BY <2>1, <2>2
<1>5. \A u, v \in Workers : job'[u] = job'[v] /\ job'[u] # NULL => u = v
  BY <1>2 DEF PlaceInv
<1>6. \A i, k \in DOMAIN queue' : queue'[i] = queue'[k] => i = k
  BY DEF PlaceInv
<1>7. \A k \in Jobs : cpc'[k] \in {"new", "append"} => ret'[k] = 0
  BY DEF PlaceInv
<1>8. InHands(j)
  BY <1>1 DEF InHands
<1> QED BY <1>3, <1>4, <1>5, <1>6, <1>7, <1>8 DEF PlaceInv

\* No step loses, doubles or invents a job.
LEMMA PlaceStep ==
  ASSUME IInv, HandsInv, PlaceInv, Next
  PROVE  PlaceInv'
<1> USE DEF jobQueue, results, workers, callers
<1>0. /\ cpc \in [Jobs -> {"new", "append", "appended", "growing", "returned"}]
      /\ ret \in [Jobs -> {0, LS_FAIL, EACCES}]
  BY DEF IInv, TypeOK, ControlTypes, JobTypes
<1>1. ASSUME NEW j \in Jobs, AddJob(j) \/ Calling(j) PROVE PlaceInv'
  <2>1. CASE AppendJob(j)
    BY <2>1, PlaceAppend
  <2>2. CASE AddJob(j)
    <3>1. UNCHANGED <<queue, job, outcome>> /\ ret[j] = 0 /\ cpc[j] = "new"
      BY <2>2 DEF AddJob, PlaceInv
    <3>2. \A k \in Jobs : Accepted(k)' <=> Accepted(k)
      BY <1>0, <2>2, <3>1 DEF AddJob, Accepted, LS_FAIL
    <3>3. \A k \in Jobs : cpc'[k] \in {"new", "append"} => ret'[k] = 0
      BY <1>0, <2>2, <3>1 DEF AddJob, PlaceInv
    <3> QED BY <3>1, <3>2, <3>3, PlaceKept
  <2>3. CASE TryGrow(j) \/ Grow(j) \/ Grown(j)
    <3>1. UNCHANGED <<queue, job, outcome, ret>>
      BY <2>3 DEF TryGrow, Grow, Grown
    <3>2. \A k \in Jobs : Accepted(k)' <=> Accepted(k)
      BY <1>0, <2>3, <3>1 DEF TryGrow, Grow, Grown, Accepted
    <3>3. \A k \in Jobs : cpc'[k] \in {"new", "append"} => ret'[k] = 0
      BY <1>0, <2>3, <3>1 DEF TryGrow, Grow, Grown, PlaceInv
    <3> QED BY <3>1, <3>2, <3>3, PlaceKept
  <2> QED BY <1>1, <2>1, <2>2, <2>3 DEF Calling
<1>2. ASSUME UNCHANGED <<queue, job, outcome, cpc, ret>> PROVE PlaceInv'
  <2>1. \A k \in Jobs : Accepted(k)' <=> Accepted(k)
    BY <1>2 DEF Accepted
  <2>2. \A k \in Jobs : cpc'[k] \in {"new", "append"} => ret'[k] = 0
    BY <1>2 DEF PlaceInv
  <2> QED BY <1>2, <2>1, <2>2, PlaceKept
<1>3. CASE AddWorker
  BY <1>2, <1>3 DEF AddWorker, GetSlot, Launch, StartWorker, StartFails,
         ClearSlot, DeleteWorker, ReleaseSlot
<1>4. ASSUME NEW w \in Workers, Work(w) PROVE PlaceInv'
  <2>1. CASE Poll(w) \/ Get(w) \/ WaitDone(w)
    <3>1. job[w] = NULL /\ UNCHANGED <<outcome, cpc, ret>>
      BY <2>1 DEF HandsInv, Poll, Get, WaitDone
    <3>2. Take(w) \/ UNCHANGED <<queue, job>>
      BY <2>1 DEF Poll, Get, WaitDone
    <3> QED BY <1>2, <3>1, <3>2, PlaceTake
  <2>2. CASE Process(w) \/ Put(w)
    <3>1. wpc[w] \in {"process", "put"} /\ UNCHANGED <<queue, cpc, ret>>
      BY <2>2 DEF Process, Put
    <3>2. \/ Release(w, "finished") \/ Release(w, "released")
          \/ UNCHANGED <<outcome, job>>
      BY <2>2 DEF Process, Put
    <3> QED BY <1>2, <3>1, <3>2, PlaceRelease
  <2>3. CASE Loop(w) \/ Gotten(w) \/ Check(w) \/ Exit(w) \/ Dying(w) \/ Unslot(w)
    BY <1>2, <2>3 DEF Loop, Gotten, Check, Exit, Dying, Unslot
  <2> QED BY <1>4, <2>1, <2>2, <2>3 DEF Work
<1>5. CASE StartJobProcessor \/ Start \/ Stop \/ Destroy \/ OwnerStep
  BY <1>2, <1>5 DEF StartJobProcessor, Start, Stop, Destroy, OwnerStep, StartLock, StartMore,
     StartAdded, StopAll, LockCrew, StopEach, StopAllDone,
         StopLoops, Shutdown, NoWaiting, Join, FutexWait,
     Restop, Finish, Delete
<1>6. ASSUME NEW c \in IdleChoices, AdjustIdle(c[1], c[2]) PROVE PlaceInv'
  BY <1>2, <1>6 DEF AdjustIdle
<1>7. ASSUME NEW n \in MaxChoices, SetMaxWorkers(n) PROVE PlaceInv'
  BY <1>2, <1>7 DEF SetMaxWorkers
<1> QED BY <1>1, <1>3, <1>4, <1>5, <1>6, <1>7 DEF Next

\* A job has as many places as PlaceInv says.
LEMMA PlacesCounted ==
  ASSUME IInv, PlaceInv
  PROVE  JobsNotLost
<1> SUFFICES ASSUME NEW j \in Jobs
    PROVE  Cardinality({i \in DOMAIN queue : queue[i] = j})
             + Cardinality({w \in Workers : job[w] = j})
             + (IF outcome[j] = "none" THEN 0 ELSE 1)
           = IF Accepted(j) THEN 1 ELSE 0
  BY DEF JobsNotLost, Accepted
<1>1. Cardinality({i \in DOMAIN queue : queue[i] = j}) = IF InQueue(j) THEN 1 ELSE 0
  <2>1. CASE InQueue(j)
    <3>1. PICK i \in DOMAIN queue : queue[i] = j
      BY <2>1 DEF InQueue
    <3>2. {k \in DOMAIN queue : queue[k] = j} = {i}
      BY <3>1 DEF PlaceInv
    <3> QED BY <2>1, <3>2, FS_Singleton
  <2>2. CASE ~InQueue(j)
    <3>1. {k \in DOMAIN queue : queue[k] = j} = {}
      BY <2>2 DEF InQueue
    <3> QED BY <2>2, <3>1, FS_EmptySet
  <2> QED BY <2>1, <2>2
<1>2. Cardinality({w \in Workers : job[w] = j}) = IF InHands(j) THEN 1 ELSE 0
  <2>1. CASE InHands(j)
    <3>1. PICK w \in Workers : job[w] = j
      BY <2>1 DEF InHands
    <3>2. {v \in Workers : job[v] = j} = {w}
      BY <3>1, CrewAssumption DEF PlaceInv
    <3> QED BY <2>1, <3>2, FS_Singleton
  <2>2. CASE ~InHands(j)
    <3>1. {v \in Workers : job[v] = j} = {}
      BY <2>2 DEF InHands
    <3> QED BY <2>2, <3>1, FS_EmptySet
  <2> QED BY <2>1, <2>2
<1>3. (IF outcome[j] = "none" THEN 0 ELSE 1) = IF Done(j) THEN 1 ELSE 0
  BY DEF Done
<1>4. /\ InQueue(j) => ~InHands(j) /\ ~Done(j)
      /\ InHands(j) => ~Done(j)
      /\ Accepted(j) <=> InQueue(j) \/ InHands(j) \/ Done(j)
  BY DEF PlaceInv
<1> QED BY <1>1, <1>2, <1>3, <1>4

-----------------------------------------------------------------------------
(* The state of the crew *)

\* The owner's place goes with the state of the crew.
LEMMA StateStep ==
  ASSUME IInv, StateInv, Next
  PROVE  StateInv'
<1> USE DEF StateInv, StopLoops, counters, adding, owner, results
<1>0. running \in Nat /\ running' \in Nat /\ hasFinished \in BOOLEAN
  BY NumberStep DEF IInv, TypeOK, NumberTypes, FlagTypes
<1>1. ASSUME NEW j \in Jobs, AddJob(j) \/ Calling(j) PROVE StateInv'
  BY <1>1 DEF AddJob, Calling, AppendJob, TryGrow, Grow, Grown, ReleaseAddLock
<1>2. CASE AddWorker
  BY <1>0, <1>2 DEF AddWorker, GetSlot, Launch, StartWorker, StartFails,
         ClearSlot, DeleteWorker, ReleaseSlot
<1>3. ASSUME NEW w \in Workers, Work(w) PROVE StateInv'
  BY <1>0, <1>3 DEF Work, Loop, Poll, Get, WaitDone, Gotten, Process, Put, Check, Exit, Dying, Unslot
<1>4. CASE StartJobProcessor \/ Start \/ Stop \/ Destroy \/ OwnerStep
  <2>1. CASE StartJobProcessor \/ Start \/ Stop \/ Destroy
    BY <1>0, <2>1 DEF StartJobProcessor, Start, Stop, Destroy
  <2>2. CASE StartLock \/ StartMore \/ StartAdded
    BY <2>2 DEF StartLock, StartMore, StartAdded, ReleaseAddLock
  <2>3. CASE \/ StopAll \/ StopEach \/ StopAllDone \/ Shutdown \/ NoWaiting \/ Join
             \/ FutexWait \/ Restop
    BY <2>3 DEF StopAll, LockCrew, StopEach, StopAllDone,
         StopLoops, Shutdown, NoWaiting, Join, FutexWait, Restop
  <2>4. CASE Finish \/ Delete
    BY <2>4 DEF Finish, Delete
  <2> QED BY <1>4, <2>1, <2>2, <2>3, <2>4 DEF OwnerStep
<1>5. ASSUME NEW c \in IdleChoices, AdjustIdle(c[1], c[2]) PROVE StateInv'
  BY <1>5 DEF AdjustIdle
<1>6. ASSUME NEW n \in MaxChoices, SetMaxWorkers(n) PROVE StateInv'
  BY <1>6 DEF SetMaxWorkers
<1> QED BY <1>1, <1>2, <1>3, <1>4, <1>5, <1>6 DEF Next

\* Finitely many workers are at a place.
LEMMA FewAt ==
  ASSUME NEW P
  PROVE  IsFiniteSet(At(P)) /\ Cardinality(At(P)) \in Nat
<1>1. IsFiniteSet(At(P))
  BY FS_Subset, CrewAssumption DEF At
<1> QED BY <1>1, FS_CardinalityType

-----------------------------------------------------------------------------
(* The last worker *)

\* m_idleWorkers counts a worker who counts itself in and out.
LEMMA IdleMoved ==
  ASSUME IInv, IdleInv, NEW w \in Workers, NEW p, wpc' = [wpc EXCEPT ![w] = p],
         idle' = idle + (IF p \in Idling THEN 1 ELSE 0)
                      - (IF wpc[w] \in Idling THEN 1 ELSE 0)
  PROVE  idle' = Cardinality(At(Idling)')
<1>1. /\ Cardinality(At(Idling)) \in Nat
      /\ Cardinality(At(Idling)') = Cardinality(At(Idling))
           + (IF p \in Idling THEN 1 ELSE 0) - (IF wpc[w] \in Idling THEN 1 ELSE 0)
  BY Moved DEF IInv, TypeOK
<1> QED BY <1>1 DEF IdleInv

\* m_idleWorkers is the number of the workers between their two counts.
LEMMA IdleCount ==
  ASSUME IInv, IdleInv, Next
  PROVE  idle' = Cardinality(At(Idling)')
<1> USE DEF counters, workers
<1>0. idle \in Nat
  BY DEF IInv, TypeOK, NumberTypes
<1>1. ASSUME UNCHANGED <<idle, wpc>> PROVE idle' = Cardinality(At(Idling)')
  BY <1>1 DEF IdleInv, At
<1>2. ASSUME NEW j \in Jobs, AddJob(j) \/ Calling(j) PROVE idle' = Cardinality(At(Idling)')
  BY <1>1, <1>2 DEF AddJob, Calling, AppendJob, TryGrow, Grow, Grown
<1>3. CASE AddWorker
  <2>1. CASE GetSlot \/ ClearSlot \/ ReleaseSlot
    BY <1>1, <2>1 DEF GetSlot, ClearSlot, ReleaseSlot
  <2>2. CASE Launch
    <3>1. PICK w \in Workers : wpc[w] = "free" /\ wpc' = [wpc EXCEPT ![w] = "created"]
      BY <2>2 DEF Launch
    <3>2. idle' = idle + (IF "created" \in Idling THEN 1 ELSE 0)
                       - (IF wpc[w] \in Idling THEN 1 ELSE 0)
      BY <1>0, <2>2, <3>1 DEF Launch, Idling
    <3> QED BY <3>1, <3>2, IdleMoved
  <2>3. CASE StartWorker \/ StartFails
    <3>1. crew[newSlot] \in Workers /\ wpc[crew[newSlot]] = "created"
      BY <2>3, AtSlot DEF StartWorker, StartFails, Filling
    <3>2. PICK p \in {"loop", "failed"} : wpc' = [wpc EXCEPT ![crew[newSlot]] = p]
      BY <2>3 DEF StartWorker, StartFails
    <3>3. idle' = idle + (IF p \in Idling THEN 1 ELSE 0)
                       - (IF wpc[crew[newSlot]] \in Idling THEN 1 ELSE 0)
      BY <1>0, <2>3, <3>1 DEF StartWorker, StartFails, Idling
    <3> QED BY <3>1, <3>2, <3>3, IdleMoved
  <2>4. CASE DeleteWorker
    <3>1. PICK w \in Workers : wpc[w] = "failed" /\ wpc' = [wpc EXCEPT ![w] = "free"]
      BY <2>4 DEF DeleteWorker, Freed
    <3>2. idle' = idle + (IF "free" \in Idling THEN 1 ELSE 0)
                       - (IF wpc[w] \in Idling THEN 1 ELSE 0)
      BY <1>0, <2>4, <3>1 DEF DeleteWorker, Idling
    <3> QED BY <3>1, <3>2, IdleMoved
  <2> QED BY <1>3, <2>1, <2>2, <2>3, <2>4 DEF AddWorker
<1>4. ASSUME NEW w \in Workers, Work(w) PROVE idle' = Cardinality(At(Idling)')
  <2>1. CASE Poll(w)
    <3>1. PICK p \in {"process", "get"} :
            wpc' = [wpc EXCEPT ![w] = p] /\ idle' = idle + (IF p = "get" THEN 1 ELSE 0)
      BY <1>0, <2>1 DEF Poll
    <3>2. idle' = idle + (IF p \in Idling THEN 1 ELSE 0)
                       - (IF wpc[w] \in Idling THEN 1 ELSE 0)
      BY <1>0, <2>1, <3>1 DEF Poll, Idling
    <3> QED BY <3>1, <3>2, IdleMoved
  <2>2. CASE Get(w) \/ WaitDone(w)
    <3>1. PICK p \in {"wait", "gotten"} : wpc' = [wpc EXCEPT ![w] = p]
      BY <2>2 DEF Get, WaitDone
    <3>2. idle' = idle + (IF p \in Idling THEN 1 ELSE 0)
                       - (IF wpc[w] \in Idling THEN 1 ELSE 0)
      BY <1>0, <2>2 DEF Get, WaitDone, Idling
    <3> QED BY <3>1, <3>2, IdleMoved
  <2>3. CASE Gotten(w)
    <3>1. PICK p \in {"check", "process"} : wpc' = [wpc EXCEPT ![w] = p]
      BY <2>3 DEF Gotten
    <3>2. idle' = idle + (IF p \in Idling THEN 1 ELSE 0)
                       - (IF wpc[w] \in Idling THEN 1 ELSE 0)
      BY <1>0, <2>3 DEF Gotten, Idling
    <3> QED BY <3>1, <3>2, IdleMoved
  <2>4. CASE ~(Poll(w) \/ Get(w) \/ WaitDone(w) \/ Gotten(w))
    <3>1. PICK p \in {"poll", "exit", "loop", "put", "check", "segv", "dying", "unslot",
                      "free"} : wpc' = [wpc EXCEPT ![w] = p]
      BY <1>4, <2>4 DEF Work, Loop, Process, Put, Check, Exit, Dying, Unslot, Release, Freed
    <3>2. idle' = idle /\ wpc[w] \notin Idling
      BY <1>4, <2>4 DEF Work, Loop, Process, Put, Check, Exit, Dying, Unslot, Idling
    <3>3. p \notin Idling
      BY DEF Idling
    <3>4. idle' = idle + (IF p \in Idling THEN 1 ELSE 0)
                       - (IF wpc[w] \in Idling THEN 1 ELSE 0)
      BY <1>0, <3>2, <3>3
    <3> QED BY <3>1, <3>4, IdleMoved
  <2> QED BY <2>1, <2>2, <2>3, <2>4
<1>5. CASE StartJobProcessor \/ Start \/ Stop \/ Destroy \/ OwnerStep
  BY <1>1, <1>5 DEF StartJobProcessor, Start, Stop, Destroy, OwnerStep, StartLock, StartMore,
     StartAdded, StopAll, LockCrew, StopEach, StopAllDone,
         StopLoops, Shutdown, NoWaiting, Join, FutexWait,
     Restop, Finish, Delete
<1>6. ASSUME NEW c \in IdleChoices, AdjustIdle(c[1], c[2]) PROVE idle' = Cardinality(At(Idling)')
  BY <1>1, <1>6 DEF AdjustIdle
<1>7. ASSUME NEW n \in MaxChoices, SetMaxWorkers(n) PROVE idle' = Cardinality(At(Idling)')
  BY <1>1, <1>7 DEF SetMaxWorkers
<1> QED BY <1>2, <1>3, <1>4, <1>5, <1>6, <1>7 DEF Next

\* Nobody asks a worker of a RUNNING crew to stop.
LEMMA IdleStep ==
  ASSUME IInv, StateInv, IdleInv, Next
  PROVE  IdleInv'
<1> DEFINE Unasked == state = "RUNNING" =>
             \A w \in Workers : wpc[w] \in Looping => working[w] = "RUNNING"
<1> SUFFICES Unasked'
  BY IdleCount DEF IdleInv
<1> USE DEF workers, adding, owner, StateInv
<1>0. /\ wpc \in [Workers -> Looping \cup
                  {"free", "created", "failed", "exit", "dying", "unslot", "segv"}]
      /\ working \in [Workers -> {"TO_START", "RUNNING", "TO_STOP"}]
      /\ Unasked
      /\ {"free", "created", "failed", "exit", "dying", "unslot", "segv"} \cap Looping = {}
  BY DEF IInv, TypeOK, WorkerTypes, IdleInv, Looping, Idling
<1>1. ASSUME NEW j \in Jobs, AddJob(j) \/ Calling(j) PROVE Unasked'
  BY <1>0, <1>1 DEF AddJob, Calling, AppendJob, TryGrow, Grow, Grown
<1>2. CASE AddWorker
  <2>1. CASE GetSlot \/ ClearSlot \/ DeleteWorker \/ ReleaseSlot \/ Launch
    BY <1>0, <2>1 DEF GetSlot, ClearSlot, DeleteWorker, ReleaseSlot, Launch, Freed
  <2>2. CASE StartWorker \/ StartFails
    <3>1. crew[newSlot] \in Workers
      BY <2>2, AtSlot DEF StartWorker, StartFails, Filling
    <3> QED BY <1>0, <2>2, <3>1 DEF StartWorker, StartFails
  <2> QED BY <1>2, <2>1, <2>2 DEF AddWorker
<1>3. ASSUME NEW w \in Workers, Work(w) PROVE Unasked'
  <2>1. CASE Loop(w) \/ Poll(w) \/ Get(w) \/ WaitDone(w) \/ Gotten(w) \/ Process(w)
             \/ Put(w) \/ Check(w)
    <3>1. wpc[w] \in Looping /\ UNCHANGED <<state, working>>
      BY <2>1 DEF Loop, Poll, Get, WaitDone, Gotten, Process, Put, Check, Looping, Idling
    <3>2. \A v \in Workers : v # w => wpc'[v] = wpc[v]
      BY <1>0, <2>1 DEF Loop, Poll, Get, WaitDone, Gotten, Process, Put, Check, Release
    <3> QED BY <1>0, <3>1, <3>2
  <2>2. CASE Exit(w) \/ Dying(w) \/ Unslot(w)
    BY <1>0, <2>2 DEF Exit, Dying, Unslot, Freed
  <2> QED BY <1>3, <2>1, <2>2 DEF Work
<1>4. CASE StartJobProcessor \/ Start \/ Stop \/ Destroy \/ OwnerStep
  <2>1. CASE Start
    <3>1. running = 0 /\ Cardinality(At(Counted)) <= running /\ Cardinality(At(Counted)) \in Nat
      BY <2>1, FewAt DEF Start, IInv, CountInv
    <3>2. At(Counted) = {} /\ wpc' = wpc
      BY <2>1, <3>1, FewAt, FS_EmptySet DEF Start
    <3> QED BY <3>2 DEF At, Counted
  <2>2. CASE StopEach
    BY <2>2 DEF StopEach
  <2>3. CASE ~(Start \/ StopEach)
    BY <1>0, <1>4, <2>3 DEF StartJobProcessor, Start, Stop, Destroy, OwnerStep, StartLock, StartMore,
     StartAdded, StopAll, Restop, LockCrew, StopAllDone, Shutdown, NoWaiting, Join,
     FutexWait, Finish, Delete
  <2> QED BY <2>1, <2>2, <2>3
<1>5. ASSUME NEW c \in IdleChoices, AdjustIdle(c[1], c[2]) PROVE Unasked'
  BY <1>0, <1>5 DEF AdjustIdle
<1>6. ASSUME NEW n \in MaxChoices, SetMaxWorkers(n) PROVE Unasked'
  BY <1>0, <1>6 DEF SetMaxWorkers
<1> QED BY <1>1, <1>2, <1>3, <1>4, <1>5, <1>6 DEF Next

\* Until the stop the crew keeps an idle worker, if the owner asks for one.
LEMMA MaxIdleStep ==
  ASSUME IdleKept, IInv, StateInv, MaxIdleInv, Next
  PROVE  MaxIdleInv'
<1> USE DEF MaxIdleInv, limits, owner, StateInv
<1>1. ASSUME NEW j \in Jobs, AddJob(j) \/ Calling(j) PROVE MaxIdleInv'
  BY <1>1 DEF AddJob, Calling, AppendJob, TryGrow, Grow, Grown
<1>2. CASE AddWorker
  BY <1>2 DEF AddWorker, GetSlot, Launch, StartWorker, StartFails,
         ClearSlot, DeleteWorker, ReleaseSlot
<1>3. ASSUME NEW w \in Workers, Work(w) PROVE MaxIdleInv'
  BY <1>3 DEF Work, Loop, Poll, Get, WaitDone, Gotten, Process, Put, Check, Exit, Dying, Unslot
<1>4. CASE StartJobProcessor \/ Start \/ Stop \/ Destroy \/ OwnerStep
  BY <1>4 DEF StartJobProcessor, Start, Stop, Destroy, OwnerStep, StartLock, StartMore,
     StartAdded, StopAll, LockCrew, StopEach, StopAllDone,
         StopLoops, Shutdown, NoWaiting, Join, FutexWait,
     Restop, Finish, Delete
<1>5. ASSUME NEW c \in IdleChoices, AdjustIdle(c[1], c[2]) PROVE MaxIdleInv'
  BY <1>5 DEF AdjustIdle, IdleKept
<1>6. ASSUME NEW n \in MaxChoices, SetMaxWorkers(n) PROVE MaxIdleInv'
  BY <1>6 DEF SetMaxWorkers
<1> QED BY <1>1, <1>2, <1>3, <1>4, <1>5, <1>6 DEF Next

\* A worker that leaves a RUNNING crew because others are idle leaves one of
\* them behind.
LEMMA WorkerLeft ==
  ASSUME IInv, LimitInv, StateInv, IdleInv, MaxIdleInv, Next,
         state = "RUNNING", state' = "RUNNING", NEW w \in Able
  PROVE  Able' # {}
<1> USE DEF workers, adding, owner, StateInv
<1>0. /\ wpc \in [Workers -> Looping \cup
                  {"free", "created", "failed", "exit", "dying", "unslot", "segv"}]
      /\ working \in [Workers -> {"TO_START", "RUNNING", "TO_STOP"}]
      /\ {"free", "created", "failed", "exit", "dying", "unslot", "segv"} \cap Looping = {}
      /\ w \in Workers /\ wpc[w] \in Looping /\ working[w] = "RUNNING"
  BY DEF IInv, TypeOK, WorkerTypes, Looping, Idling, Able
<1>1. ASSUME NEW v \in Workers, wpc'[v] \in Looping, working'[v] = "RUNNING"
      PROVE  Able' # {}
  BY <1>1 DEF Able
<1>2. ASSUME NEW j \in Jobs, AddJob(j) \/ Calling(j) PROVE Able' # {}
  BY <1>0, <1>1, <1>2 DEF AddJob, Calling, AppendJob, TryGrow, Grow, Grown
<1>3. CASE AddWorker
  <2>1. CASE GetSlot \/ ClearSlot \/ DeleteWorker \/ ReleaseSlot \/ Launch
    BY <1>0, <1>1, <2>1 DEF GetSlot, ClearSlot, DeleteWorker, ReleaseSlot, Launch, Freed
  <2>2. CASE StartWorker \/ StartFails
    <3>1. crew[newSlot] \in Workers /\ wpc[crew[newSlot]] = "created"
      BY <2>2, AtSlot DEF StartWorker, StartFails, Filling
    <3> QED BY <1>0, <1>1, <2>2, <3>1 DEF StartWorker, StartFails
  <2> QED BY <1>3, <2>1, <2>2 DEF AddWorker
<1>4. ASSUME NEW v \in Workers, v # w, Work(v) PROVE Able' # {}
  <2>1. wpc'[w] = wpc[w] /\ working'[w] = working[w]
    BY <1>0, <1>4 DEF Work, Loop, Poll, Get, WaitDone, Gotten, Process, Put, Check, Exit, Dying, Unslot, Release, Freed
  <2> QED BY <1>0, <1>1, <2>1
<1>5. CASE Work(w)
  <2>1. CASE Loop(w) \/ Poll(w) \/ Get(w) \/ WaitDone(w) \/ Gotten(w) \/ Process(w) \/ Put(w)
    <3>1. hasFinished /\ working' = working
      BY <2>1 DEF Loop, Poll, Get, WaitDone, Gotten, Process, Put
    <3>2. wpc'[w] \in {"poll", "process", "get", "wait", "gotten", "check", "put"}
      BY <1>0, <2>1, <3>1 DEF Loop, Poll, Get, WaitDone, Gotten, Process, Put, Release
    <3> QED BY <1>0, <1>1, <3>1, <3>2 DEF Looping, Idling
  <2>2. CASE Check(w)
    <3>1. working' = working
      BY <2>2 DEF Check
    <3>2. CASE idle >= maxIdle
      <4>1. idle >= 1 /\ idle = Cardinality(At(Idling))
        BY <3>2 DEF MaxIdleInv, IdleInv, IInv, TypeOK, NumberTypes
      <4>2. At(Idling) # {}
        BY <4>1, FS_EmptySet
      <4>3. PICK v \in Workers : wpc[v] \in Idling
        BY <4>2 DEF At
      <4>4. v # w /\ wpc[v] \in Looping /\ working[v] = "RUNNING"
        BY <2>2, <4>3 DEF Check, IdleInv, Looping, Idling
      <4>5. wpc'[v] = wpc[v]
        BY <1>0, <2>2, <4>4 DEF Check
      <4> QED BY <1>1, <3>1, <4>4, <4>5
    <3>3. CASE ~(idle >= maxIdle)
      <4>1. ~(running > maxWorkers)
        BY DEF LimitInv, IInv, TypeOK, NumberTypes
      <4>2. wpc'[w] = "loop"
        BY <1>0, <2>2, <3>3, <4>1 DEF Check
      <4> QED BY <1>0, <1>1, <3>1, <4>2 DEF Looping
    <3> QED BY <3>2, <3>3
  <2>3. ~(Exit(w) \/ Dying(w) \/ Unslot(w))
    BY <1>0 DEF Exit, Dying, Unslot
  <2> QED BY <1>5, <2>1, <2>2, <2>3 DEF Work
<1>6. CASE StartJobProcessor \/ Start \/ Stop \/ Destroy \/ OwnerStep
  <2>1. ~StopEach
    BY DEF StopEach
  <2> QED BY <1>0, <1>1, <1>6, <2>1 DEF StartJobProcessor, Start, Stop, Destroy, OwnerStep, StartLock, StartMore,
     StartAdded, StopAll, Restop, LockCrew, StopAllDone, Shutdown, NoWaiting, Join,
     FutexWait, Finish, Delete
<1>7. ASSUME NEW c \in IdleChoices, AdjustIdle(c[1], c[2]) PROVE Able' # {}
  BY <1>0, <1>1, <1>7 DEF AdjustIdle
<1>8. ASSUME NEW n \in MaxChoices, SetMaxWorkers(n) PROVE Able' # {}
  BY <1>0, <1>1, <1>8 DEF SetMaxWorkers
<1> QED BY <1>2, <1>3, <1>4, <1>5, <1>6, <1>7, <1>8 DEF Next

-----------------------------------------------------------------------------
(* The theorems *)

\* What the jobs and the last worker need.
JInv == HandsInv /\ PlaceInv /\ StateInv /\ IdleInv

\* A new crew has no job.
LEMMA InitJInv == Init => JInv
<1> SUFFICES ASSUME Init PROVE JInv
  OBVIOUS
<1> USE DEF Init
<1>1. HandsInv /\ PlaceInv
  BY CrewAssumption DEF HandsInv, PlaceInv, InQueue, InHands, Done, Accepted
<1>2. StateInv
  BY CrewAssumption DEF StateInv, StopLoops
<1>3. IdleInv
  <2>1. At(Idling) = {}
    BY DEF At, Idling
  <2> QED BY <2>1, FS_EmptySet DEF IdleInv
<1> QED BY <1>1, <1>2, <1>3 DEF JInv

\* The invariant is inductive.
LEMMA NextJInv == IInv /\ JInv /\ [Next]_vars => JInv'
<1> SUFFICES ASSUME IInv, JInv, [Next]_vars PROVE JInv'
  OBVIOUS
<1>1. CASE Next
  BY <1>1, HandsStep, PlaceStep, StateStep, IdleStep DEF JInv
<1>2. CASE UNCHANGED vars
  <2> USE <1>2 DEF vars, counters, jobQueue, results, adding, workers, callers, owner
  <2>1. HandsInv' /\ PlaceInv'
    BY DEF JInv, HandsInv, PlaceInv, InQueue, InHands, Done, Accepted
  <2>2. StateInv'
    BY DEF JInv, StateInv
  <2>3. IdleInv'
    BY DEF JInv, IdleInv, At
  <2> QED BY <2>1, <2>2, <2>3 DEF JInv
<1> QED BY <1>1, <1>2

\* A job addJob accepted is in the queue, in the hands of one worker or done,
\* in exactly one of these places, whatever callers, workers and the owner do.
THEOREM CrewJobs == Spec => []JobsNotLost
<1>1. IInv /\ JInv => JobsNotLost
  BY PlacesCounted DEF JInv
<1> QED BY <1>1, InitInv, NextInv, InitJInv, NextJInv, PTL DEF Spec

\* Workers of a RUNNING crew that see each other idle never all leave, if the
\* owner asks for an idle worker and does not lower the limit.
THEOREM CrewKeeps ==
  ASSUME LimitKept, IdleKept
  PROVE  Spec => CrewKeepsAWorker
<1>1. Init => LimitInv /\ MaxIdleInv
  BY CrewAssumption DEF Init, LimitInv, MaxIdleInv, IdleKept, StopLoops
<1>2. IInv /\ JInv /\ LimitInv /\ MaxIdleInv /\ [Next]_vars => LimitInv' /\ MaxIdleInv'
  <2> SUFFICES ASSUME IInv, JInv, LimitInv, MaxIdleInv, [Next]_vars
               PROVE LimitInv' /\ MaxIdleInv'
    OBVIOUS
  <2>1. CASE UNCHANGED vars
    BY <2>1 DEF LimitInv, MaxIdleInv, vars, limits, counters, adding, owner
  <2>2. CASE Next
    BY <2>2, LimitStep, MaxIdleStep DEF JInv
  <2> QED BY <2>1, <2>2
<1>3. IInv /\ JInv /\ LimitInv /\ MaxIdleInv /\ [Next]_vars
        => [state = "RUNNING" /\ state' = "RUNNING" /\ Able # {} => Able' # {}]_vars
  BY WorkerLeft DEF JInv
<1> QED BY <1>1, <1>2, <1>3, InitInv, NextInv, InitJInv, NextJInv, PTL
       DEF Spec, CrewKeepsAWorker
=============================================================================
