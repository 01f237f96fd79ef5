------------------------------- MODULE WorkCrew -------------------------------
(***************************************************************************)
(* The thread pool of the server (WorkCrew, CrewWorker, PThreadWorkQueue): *)
(* it runs the handlers of multi-threaded modules, asynchronous private    *)
(* key operations and file transfers.                                      *)
(*                                                                         *)
(* Three kinds of threads step through it: the callers of addJob (one per  *)
(* job), the workers, and the owner of the crew, who starts, tunes, stops  *)
(* and destroys it.  A short section under m_crewLock or under the mutex   *)
(* of the job queue is one action; m_addWorker, and m_crewLock in the loop *)
(* of stopAllWorkers, are held over several steps and are variables.  The  *)
(* sleeps of the code are all timed, so a sleeper may wake at any moment   *)
(* and signals need not be modelled.                                       *)
(* Slots are numbered from 1 here.  The build is the released one, without *)
(* assert(): what the assertions say is stated as properties.              *)
(***************************************************************************)
EXTENDS Integers, Sequences, FiniteSets, SequencesExt

CONSTANTS
  Jobs,          \* the jobs, each with the addJob call that brings it
  Workers,       \* worker objects; bounds how many exist at a time
  NULL,
  MinIdle, MaxIdle, MaxWorkers,   \* the constructor's arguments
  IdleChoices,   \* arguments the owner gives to adjustIdle
  MaxChoices,    \* arguments the owner gives to maxWorkers
  Deferred       \* the crew gets its processor, finished queue and limit
                 \* from startJobProcessor instead of the constructor

ASSUME CrewAssumption ==
  /\ MinIdle \in Nat /\ MaxIdle \in Nat /\ MaxWorkers \in Nat
  /\ IdleChoices \subseteq Int \X Int
  /\ MaxChoices \subseteq Int
  /\ NULL \notin Jobs \cup Workers \cup {"owner"}
  /\ "owner" \notin Jobs
  /\ Deferred \in BOOLEAN
  /\ IsFiniteSet(Workers)

LS_FAIL == -1
EACCES == 13

VARIABLES
  state,       \* m_stateFutex
  minIdle, maxIdle, maxWorkers,
  idle,        \* m_idleWorkers
  running,     \* m_iRunningWorkers, what size() returns
  crew,        \* m_crew: the worker in each slot, or NULL
  emptySlots,  \* m_emptySlots
  crewLocked,  \* m_crewLock is held in stopAllWorkers, or was left locked
  queue,       \* the job queue
  shutdown,    \* its m_bShutdown
  hasFinished, \* m_pFinishedQueue is not NULL
  outcome,     \* of each job: "finished" is in the finished queue
  addLock,     \* who holds m_addWorker
  apc, newSlot, tries,     \* the addWorker loop of that holder
  wpc, slot, working, job, \* the workers: place, m_slot, m_isWorking, job
  cpc, ret,                \* the addJob calls: place, value to return
  opc, discard, at         \* the owner: place, argument of stopProcessing,
                           \* the slot stopAllWorkers looks at

limits == <<minIdle, maxIdle, maxWorkers>>
slots == <<crew, emptySlots, crewLocked>>
counters == <<idle, running>>
jobQueue == <<queue, shutdown>>
results == <<hasFinished, outcome>>
adding == <<addLock, apc, newSlot, tries>>
workers == <<wpc, slot, working, job>>
callers == <<cpc, ret>>
owner == <<opc, discard, at>>
vars == <<state, limits, slots, counters, jobQueue, results, adding, workers,
          callers, owner>>

\* Places in workerRoutine between the counting in and out of m_idleWorkers,
\* and all the places in its loop.
Idling == {"get", "wait", "gotten"}
Looping == Idling \cup {"loop", "poll", "process", "put", "check"}

\* A running worker of the loop nobody has asked to stop.
Able == {w \in Workers : wpc[w] \in Looping /\ working[w] = "RUNNING"}

Destroying == discard \/ opc \in {"dlock", "deleted"}

\* WorkCrew::WorkCrew, init
Init ==
  /\ state = "TO_START"
  /\ minIdle = MinIdle
  /\ maxWorkers = IF Deferred THEN 1 ELSE MaxWorkers
  /\ maxIdle = IF MaxIdle < MinIdle THEN MinIdle ELSE MaxIdle
  /\ idle = 0 /\ running = 0
  /\ crew = <<>> /\ emptySlots = <<>> /\ crewLocked = FALSE
  /\ queue = <<>> /\ shutdown = FALSE
  /\ hasFinished = ~Deferred /\ outcome = [j \in Jobs |-> "none"]
  /\ addLock = NULL /\ apc = "none" /\ newSlot = -1 /\ tries = 0
  /\ wpc = [w \in Workers |-> "free"]
  /\ slot = [w \in Workers |-> -1]
  /\ working = [w \in Workers |-> "TO_START"]
  /\ job = [w \in Workers |-> NULL]
  /\ cpc = [j \in Jobs |-> "new"] /\ ret = [j \in Jobs |-> 0]
  /\ opc = "main" /\ discard = FALSE /\ at = 0

-----------------------------------------------------------------------------
\* delete this: the object may be allocated again.
Freed(w) ==
  /\ wpc' = [wpc EXCEPT ![w] = "free"]
  /\ slot' = [slot EXCEPT ![w] = -1]
  /\ working' = [working EXCEPT ![w] = "TO_START"]

-----------------------------------------------------------------------------
(* addWorker, run by the holder of m_addWorker *)

ReleaseAddLock ==
  /\ addLock' = NULL /\ apc' = "none" /\ newSlot' = -1 /\ tries' = 0

\* Fault: a free slot is taken without leaving the list of free slots.
GetSlotKeepsEntry ==
  /\ apc = "slot" /\ ~crewLocked
  /\ \/ /\ running >= maxWorkers
        /\ apc' = "added"
        /\ UNCHANGED <<slots, newSlot>>
     \/ /\ running < maxWorkers /\ emptySlots # <<>>
        /\ newSlot' = Last(emptySlots)
        /\ apc' = "launch"
        /\ UNCHANGED slots
     \/ /\ running < maxWorkers /\ emptySlots = <<>>
        /\ newSlot' = Len(crew) + 1
        /\ crew' = Append(crew, NULL)
        /\ apc' = "launch"
        /\ UNCHANGED <<emptySlots, crewLocked>>
  /\ UNCHANGED <<state, limits, counters, jobQueue, results, workers, callers,
                 owner, addLock, tries>>

GetSlot ==
  /\ apc = "slot" /\ ~crewLocked
  /\ \/ /\ running >= maxWorkers
        /\ apc' = "added"
        /\ UNCHANGED <<slots, newSlot>>
     \/ /\ running < maxWorkers /\ emptySlots # <<>>
        /\ newSlot' = Last(emptySlots)
        /\ emptySlots' = Front(emptySlots)
        /\ apc' = "launch"
        /\ UNCHANGED <<crew, crewLocked>>
     \/ /\ running < maxWorkers /\ emptySlots = <<>>
        /\ newSlot' = Len(crew) + 1
        /\ crew' = Append(crew, NULL)
        /\ apc' = "launch"
        /\ UNCHANGED <<emptySlots, crewLocked>>
  /\ UNCHANGED <<state, limits, counters, jobQueue, results, workers, callers,
                 owner, addLock, tries>>

\* m_crew[slot] = new CrewWorker(this, slot), without m_crewLock.
Launch ==
  /\ apc = "launch"
  /\ \E w \in Workers :
       /\ wpc[w] = "free"
       /\ wpc' = [wpc EXCEPT ![w] = "created"]
       /\ slot' = [slot EXCEPT ![w] = newSlot]
       /\ crew' = [crew EXCEPT ![newSlot] = w]
  /\ running' = running + 1
  /\ apc' = "start"
  /\ UNCHANGED <<state, limits, jobQueue, results, callers, owner, working,
                 job, idle, emptySlots, crewLocked, addLock, newSlot, tries>>

\* Worker::start and pthread_create.
StartWorker ==
  /\ apc = "start"
  /\ wpc' = [wpc EXCEPT ![crew[newSlot]] = "loop"]
  /\ working' = [working EXCEPT ![crew[newSlot]] = "RUNNING"]
  /\ apc' = "added"
  /\ UNCHANGED <<state, limits, slots, counters, jobQueue, results, callers,
                 owner, slot, job, addLock, newSlot, tries>>

\* pthread_create fails.  What follows runs without m_crewLock: the worker is
\* counted out ...
StartFails ==
  /\ apc = "start"
  /\ running' = running - 1
  /\ wpc' = [wpc EXCEPT ![crew[newSlot]] = "failed"]
  /\ working' = [working EXCEPT ![crew[newSlot]] = "RUNNING"]
  /\ apc' = "clear"
  /\ UNCHANGED <<state, limits, slots, jobQueue, results, callers, owner, idle,
                 slot, job, addLock, newSlot, tries>>

\* ... leaves its slot ...
ClearSlot ==
  /\ apc = "clear"
  /\ crew' = [crew EXCEPT ![newSlot] = NULL]
  /\ apc' = "delete"
  /\ UNCHANGED <<state, limits, counters, jobQueue, results, workers, callers,
                 owner, emptySlots, crewLocked, addLock, newSlot, tries>>

\* ... and is deleted.
DeleteWorker ==
  /\ apc = "delete"
  /\ \E w \in Workers : wpc[w] = "failed" /\ Freed(w)
  /\ apc' = "release"
  /\ UNCHANGED <<state, limits, slots, counters, jobQueue, results, callers,
                 owner, job, addLock, newSlot, tries>>

ReleaseSlot ==
  /\ apc = "release" /\ ~crewLocked
  /\ emptySlots' = Append(emptySlots, newSlot)
  /\ apc' = "added"
  /\ UNCHANGED <<state, limits, counters, jobQueue, results, workers, callers,
                 owner, crew, crewLocked, addLock, newSlot, tries>>

AddWorker ==
  \/ GetSlot \/ Launch \/ StartWorker
  \/ StartFails \/ ClearSlot \/ DeleteWorker \/ ReleaseSlot

-----------------------------------------------------------------------------
(* addJob *)

AddJob(j) ==
  /\ cpc[j] = "new" /\ ~Destroying
  /\ IF state \in {"STOPPING", "STOPPED"}
       THEN /\ cpc' = [cpc EXCEPT ![j] = "returned"]
            /\ ret' = [ret EXCEPT ![j] = LS_FAIL]
       ELSE cpc' = [cpc EXCEPT ![j] = "append"] /\ UNCHANGED ret
  /\ UNCHANGED <<state, limits, slots, counters, jobQueue, results, adding,
                 workers, owner>>

\* PThreadWorkQueue::append
AppendJob(j) ==
  /\ cpc[j] = "append"
  /\ cpc' = [cpc EXCEPT ![j] = "appended"]
  /\ IF shutdown
       THEN ret' = [ret EXCEPT ![j] = EACCES] /\ UNCHANGED queue
       ELSE queue' = Append(queue, j) /\ UNCHANGED ret
  /\ UNCHANGED <<state, limits, slots, counters, results, adding, workers,
                 owner, shutdown>>

\* Enough workers are idle or somebody else is adding one, or
\* ls_mutex_trylock(&m_addWorker) succeeds.
TryGrow(j) ==
  /\ cpc[j] = "appended"
  /\ IF idle >= minIdle \/ addLock # NULL
       THEN cpc' = [cpc EXCEPT ![j] = "returned"] /\ UNCHANGED adding
       ELSE /\ cpc' = [cpc EXCEPT ![j] = "growing"]
            /\ addLock' = j /\ apc' = "loop"
            /\ UNCHANGED <<newSlot, tries>>
  /\ UNCHANGED <<state, limits, slots, counters, jobQueue, results, workers,
                 owner, ret>>

\* The loop of addJob, from its condition to the call of addWorker ...
Grow(j) ==
  /\ cpc[j] = "growing" /\ addLock = j /\ apc = "loop"
  /\ IF state = "RUNNING" /\ running < maxWorkers /\ idle < minIdle
       THEN apc' = "slot" /\ UNCHANGED <<cpc, addLock, newSlot, tries>>
       ELSE ReleaseAddLock /\ cpc' = [cpc EXCEPT ![j] = "returned"]
  /\ UNCHANGED <<state, limits, slots, counters, jobQueue, results, workers,
                 owner, ret>>

\* ... and from there: if (i++ > maxIdle) break;
Grown(j) ==
  /\ cpc[j] = "growing" /\ addLock = j /\ apc = "added"
  /\ IF tries > maxIdle
       THEN ReleaseAddLock /\ cpc' = [cpc EXCEPT ![j] = "returned"]
       ELSE /\ apc' = "loop" /\ tries' = tries + 1
            /\ UNCHANGED <<cpc, addLock, newSlot>>
  /\ UNCHANGED <<state, limits, slots, counters, jobQueue, results, workers,
                 owner, ret>>

Calling(j) == AppendJob(j) \/ TryGrow(j) \/ Grow(j) \/ Grown(j)

-----------------------------------------------------------------------------
(* The workers: workerRoutine, thr_cleanup, workerDied *)

\* while (isWorking())
Loop(w) ==
  /\ wpc[w] = "loop"
  /\ wpc' = [wpc EXCEPT ![w] = IF working[w] = "RUNNING" THEN "poll" ELSE "exit"]
  /\ UNCHANGED <<state, limits, slots, counters, jobQueue, results, adding,
                 callers, owner, slot, working, job>>

\* The front of the queue goes to worker w.
Take(w) ==
  /\ queue # <<>>
  /\ job' = [job EXCEPT ![w] = Head(queue)]
  /\ queue' = Tail(queue)

\* Fault: the worker waits for a job without counting itself idle.
PollUncounted(w) ==
  /\ wpc[w] = "poll"
  /\ \/ /\ ~shutdown /\ Take(w)
        /\ wpc' = [wpc EXCEPT ![w] = "process"]
     \/ /\ wpc' = [wpc EXCEPT ![w] = "get"]
        /\ UNCHANGED <<job, queue>>
  /\ UNCHANGED <<state, limits, slots, results, adding, callers, owner, slot,
                 working, shutdown, counters>>

\* getJob(true): tryget.  It fails also when the mutex is busy, and then the
\* worker counts itself idle.
Poll(w) ==
  /\ wpc[w] = "poll"
  /\ \/ /\ ~shutdown /\ Take(w)
        /\ wpc' = [wpc EXCEPT ![w] = "process"]
        /\ UNCHANGED idle
     \/ /\ wpc' = [wpc EXCEPT ![w] = "get"]
        /\ idle' = idle + 1
        /\ UNCHANGED <<job, queue>>
  /\ UNCHANGED <<state, limits, slots, results, adding, callers, owner, slot,
                 working, shutdown, running>>

\* getJob(): get with a timeout, up to the wait for an empty queue to fill.
Get(w) ==
  /\ wpc[w] = "get"
  /\ \/ /\ shutdown
        /\ wpc' = [wpc EXCEPT ![w] = "gotten"]
        /\ UNCHANGED <<job, queue>>
     \/ /\ ~shutdown /\ Take(w)
        /\ wpc' = [wpc EXCEPT ![w] = "gotten"]
     \/ /\ ~shutdown /\ queue = <<>>
        /\ wpc' = [wpc EXCEPT ![w] = "wait"]
        /\ UNCHANGED <<job, queue>>
  /\ UNCHANGED <<state, limits, slots, counters, results, adding, callers,
                 owner, slot, working, shutdown>>

\* The wait is over, signalled or timed out; m_bShutdown is not looked at.
WaitDone(w) ==
  /\ wpc[w] = "wait"
  /\ wpc' = [wpc EXCEPT ![w] = "gotten"]
  /\ Take(w) \/ (queue = <<>> /\ UNCHANGED <<job, queue>>)
  /\ UNCHANGED <<state, limits, slots, counters, results, adding, callers,
                 owner, slot, working, shutdown>>

\* Fault: the job that came with the end of the wait is forgotten.
GottenDropsJob(w) ==
  /\ wpc[w] = "gotten"
  /\ idle' = idle - 1
  /\ wpc' = [wpc EXCEPT ![w] = "check"]
  /\ job' = [job EXCEPT ![w] = NULL]
  /\ UNCHANGED <<state, limits, slots, jobQueue, results, adding, callers,
                 owner, slot, working, running>>

Gotten(w) ==
  /\ wpc[w] = "gotten"
  /\ idle' = idle - 1
  /\ wpc' = [wpc EXCEPT ![w] = IF job[w] = NULL THEN "check" ELSE "process"]
  /\ UNCHANGED <<state, limits, slots, jobQueue, results, adding, callers,
                 owner, slot, working, job, running>>

\* The worker is done with its job.
Release(w, how) ==
  /\ outcome' = [outcome EXCEPT ![job[w]] = how]
  /\ job' = [job EXCEPT ![w] = NULL]
  /\ wpc' = [wpc EXCEPT ![w] = "check"]

\* m_pProcess(job), then the check of m_pFinishedQueue.
Process(w) ==
  /\ wpc[w] = "process"
  /\ IF hasFinished
       THEN wpc' = [wpc EXCEPT ![w] = "put"] /\ UNCHANGED <<outcome, job>>
       ELSE Release(w, "released")
  /\ UNCHANGED <<state, limits, slots, counters, jobQueue, hasFinished, adding,
                 callers, owner, slot, working>>

\* putFinishedItem reads the pointer again; ls_lfqueue_put does not survive
\* a NULL one.
Put(w) ==
  /\ wpc[w] = "put"
  /\ IF hasFinished
       THEN Release(w, "finished")
       ELSE wpc' = [wpc EXCEPT ![w] = "segv"] /\ UNCHANGED <<outcome, job>>
  /\ UNCHANGED <<state, limits, slots, counters, jobQueue, hasFinished, adding,
                 callers, owner, slot, working>>

\* Fault: a worker leaves when there is an idle one less than it should be.
CheckOffByOne(w) ==
  /\ wpc[w] = "check"
  /\ wpc' = [wpc EXCEPT ![w] = IF idle + 1 >= maxIdle \/ running > maxWorkers
                                 THEN "exit" ELSE "loop"]
  /\ UNCHANGED <<state, limits, slots, counters, jobQueue, results, adding,
                 callers, owner, slot, working, job>>

\* Enough others are idle, or there are too many workers.
Check(w) ==
  /\ wpc[w] = "check"
  /\ wpc' = [wpc EXCEPT ![w] = IF idle >= maxIdle \/ running > maxWorkers
                                 THEN "exit" ELSE "loop"]
  /\ UNCHANGED <<state, limits, slots, counters, jobQueue, results, adding,
                 callers, owner, slot, working, job>>

\* if (m_slot != -1) workerDied(this); requestStop(); delete this;
Exit(w) ==
  /\ wpc[w] = "exit"
  /\ IF slot[w] # -1
       THEN wpc' = [wpc EXCEPT ![w] = "dying"] /\ UNCHANGED <<slot, working>>
       ELSE Freed(w)
  /\ UNCHANGED <<state, limits, slots, counters, jobQueue, results, adding,
                 callers, owner, job>>

\* Fault: the death is not counted.
DyingUncounted(w) ==
  /\ wpc[w] = "dying"
  /\ wpc' = [wpc EXCEPT ![w] = "unslot"]
  /\ UNCHANGED <<state, limits, slots, counters, jobQueue, results, adding,
                 callers, owner, slot, working, job>>

\* workerDied, before m_crewLock is taken ...
Dying(w) ==
  /\ wpc[w] = "dying"
  /\ running' = running - 1
  /\ wpc' = [wpc EXCEPT ![w] = "unslot"]
  /\ UNCHANGED <<state, limits, slots, jobQueue, results, adding, callers,
                 owner, slot, working, job, idle>>

\* ... and under it.  A worker whose slot was set to -1 in the meantime
\* returns without unlocking.
Unslot(w) ==
  /\ wpc[w] = "unslot" /\ ~crewLocked
  /\ Freed(w)
  /\ IF slot[w] = -1
       THEN crewLocked' = TRUE /\ UNCHANGED <<state, crew, emptySlots>>
       ELSE /\ emptySlots' = Append(emptySlots, slot[w])
            /\ crew' = [crew EXCEPT ![slot[w]] = NULL]
            /\ state' = IF state = "STOPPING" /\ running = 0
                          THEN "STOPPED" ELSE state
            /\ UNCHANGED crewLocked
  /\ UNCHANGED <<limits, counters, jobQueue, results, adding, callers, owner,
                 job>>

Work(w) ==
  \/ Loop(w) \/ Poll(w) \/ Get(w) \/ WaitDone(w) \/ Gotten(w) \/ Process(w)
  \/ Put(w) \/ Check(w) \/ Exit(w) \/ Dying(w) \/ Unslot(w)

-----------------------------------------------------------------------------
(* The owner: startJobProcessor, startProcessing, adjustIdle, maxWorkers *)

StartJobProcessor ==
  /\ opc = "main" /\ Deferred /\ state = "TO_START"
  /\ hasFinished' = TRUE
  /\ maxWorkers' = MaxWorkers
  /\ opc' = "start"
  /\ UNCHANGED <<state, slots, counters, jobQueue, outcome, adding, workers,
                 callers, minIdle, maxIdle, discard, at>>

Start ==
  /\ opc = IF Deferred THEN "start" ELSE "main"
  /\ state = "TO_START"
  /\ state' = "RUNNING"
  /\ shutdown' = FALSE
  /\ opc' = "startLock"
  /\ UNCHANGED <<limits, slots, counters, queue, results, adding, workers,
                 callers, discard, at>>

StartLock ==
  /\ opc = "startLock" /\ addLock = NULL
  /\ addLock' = "owner" /\ apc' = "loop"
  /\ opc' = "starting"
  /\ UNCHANGED <<state, limits, slots, counters, jobQueue, results, workers,
                 callers, newSlot, tries, discard, at>>

\* for (i = 0; i < m_minIdle; i++) addWorker();
StartMore ==
  /\ opc = "starting" /\ addLock = "owner" /\ apc = "loop"
  /\ IF tries < minIdle
       THEN apc' = "slot" /\ UNCHANGED <<opc, addLock, newSlot, tries>>
       ELSE ReleaseAddLock /\ opc' = "main"
  /\ UNCHANGED <<state, limits, slots, counters, jobQueue, results, workers,
                 callers, discard, at>>

StartAdded ==
  /\ opc = "starting" /\ addLock = "owner" /\ apc = "added"
  /\ apc' = "loop" /\ tries' = tries + 1
  /\ UNCHANGED <<state, limits, slots, counters, jobQueue, results, workers,
                 callers, owner, addLock, newSlot>>

AdjustIdle(min, max) ==
  /\ opc = "main"
  /\ min >= 0 /\ max <= maxWorkers /\ min <= max
  /\ minIdle' = min /\ maxIdle' = max
  /\ UNCHANGED <<state, slots, counters, jobQueue, results, adding, workers,
                 callers, owner, maxWorkers>>

SetMaxWorkers(num) ==
  /\ opc = "main"
  /\ num >= 0 /\ (num > 0 => num >= minIdle)
  /\ maxWorkers' = num
  /\ UNCHANGED <<state, slots, counters, jobQueue, results, adding, workers,
                 callers, owner, minIdle, maxIdle>>

(* stopProcessing and the destructor *)

\* stopAllWorkers takes m_crewLock ...
LockCrew(to) ==
  /\ ~crewLocked
  /\ crewLocked' = TRUE /\ at' = 1
  /\ opc' = to
  /\ UNCHANGED <<state, limits, counters, jobQueue, results, adding, workers,
                 callers, crew, emptySlots, discard>>

StopLoops == {"stopEach", "restopEach"}

\* ... tells one worker after the other, while all of them go on, ...
StopEach ==
  LET w == crew[at] IN
  /\ opc \in StopLoops /\ at <= Len(crew)
  /\ slot' = IF w # NULL /\ discard /\ opc = "stopEach"
               THEN [slot EXCEPT ![w] = -1] ELSE slot
  /\ working' = IF w # NULL /\ working[w] = "RUNNING"
                  THEN [working EXCEPT ![w] = "TO_STOP"] ELSE working
  /\ at' = at + 1
  /\ UNCHANGED <<state, limits, slots, counters, jobQueue, results, adding,
                 callers, wpc, job, opc, discard>>

\* ... and sets both limits to 0.
StopAllDone ==
  /\ opc \in StopLoops /\ at > Len(crew)
  /\ minIdle' = 0 /\ maxIdle' = 0
  /\ crewLocked' = FALSE /\ at' = 0
  /\ opc' = IF opc = "stopEach" THEN "shutdown" ELSE "join"
  /\ UNCHANGED <<state, counters, jobQueue, results, adding, workers, callers,
                 maxWorkers, crew, emptySlots, discard>>

Stop ==
  /\ opc = "main" /\ state = "RUNNING"
  /\ state' = "STOPPING"
  /\ opc' = "stopAll"
  /\ UNCHANGED <<limits, slots, counters, jobQueue, results, adding, workers,
                 callers, discard, at>>

StopAll == opc = "stopAll" /\ LockCrew("stopEach")

\* PThreadWorkQueue::shutdown ...
Shutdown ==
  /\ opc = "shutdown"
  /\ shutdown' = TRUE
  /\ opc' = "noWaiting"
  /\ UNCHANGED <<state, limits, slots, counters, queue, results, adding,
                 workers, callers, discard, at>>

\* ... waitTillNoWaiting
NoWaiting ==
  /\ opc = "noWaiting" /\ \A w \in Workers : wpc[w] # "wait"
  /\ opc' = "join"
  /\ UNCHANGED <<state, limits, slots, counters, jobQueue, results, adding,
                 workers, callers, discard, at>>

\* while (!discard && !isAllWorkerDead())
Join ==
  /\ opc = "join"
  /\ opc' = IF discard \/ running = 0 THEN "finish" ELSE "futexWait"
  /\ UNCHANGED <<state, limits, slots, counters, jobQueue, results, adding,
                 workers, callers, discard, at>>

\* The futex wait ends (its timeout is half a second).
FutexWait ==
  /\ opc = "futexWait"
  /\ \/ state = "STOPPED" /\ opc' = "finish" /\ UNCHANGED state
     \/ state # "STOPPED" /\ running # 0 /\ opc' = "restop" /\ UNCHANGED state
     \/ state # "STOPPED" /\ running = 0 /\ opc' = "finish" /\ state' = "STOPPED"
  /\ UNCHANGED <<limits, slots, counters, jobQueue, results, adding, workers,
                 callers, discard, at>>

Restop == opc = "restop" /\ LockCrew("restopEach")

\* The finished queue is let go; stopProcessing returns.
Finish ==
  /\ opc = "finish"
  /\ hasFinished' = FALSE
  /\ opc' = IF discard THEN "dlock" ELSE "main"
  /\ UNCHANGED <<state, limits, slots, counters, jobQueue, outcome, adding,
                 workers, callers, discard, at>>

\* ~WorkCrew: nobody calls addJob any more.
Destroy ==
  /\ opc = "main" /\ \A j \in Jobs : cpc[j] \in {"new", "returned"}
  /\ IF state = "RUNNING"
       THEN state' = "STOPPING" /\ discard' = TRUE /\ opc' = "stopAll"
       ELSE opc' = "dlock" /\ UNCHANGED <<state, discard>>
  /\ UNCHANGED <<limits, slots, counters, jobQueue, results, adding, workers,
                 callers, at>>

\* The queue, the callbacks and then the members are deleted.
Delete ==
  /\ opc = "dlock" /\ ~crewLocked
  /\ opc' = "deleted"
  /\ UNCHANGED <<state, limits, slots, counters, jobQueue, results, adding,
                 workers, callers, discard, at>>

OwnerStep ==
  \/ StartLock \/ StartMore \/ StartAdded
  \/ StopAll \/ StopEach \/ StopAllDone \/ Shutdown \/ NoWaiting
  \/ Join \/ FutexWait \/ Restop \/ Finish \/ Delete

-----------------------------------------------------------------------------
\* A worker died of a NULL finished queue, or the crew is deleted: what the
\* threads do then is undefined.
Over == opc = "deleted" \/ \E w \in Workers : wpc[w] = "segv"

Next ==
  /\ ~Over
  /\ \/ \E j \in Jobs : AddJob(j) \/ Calling(j)
     \/ AddWorker
     \/ \E w \in Workers : Work(w)
     \/ StartJobProcessor \/ Start \/ Stop \/ Destroy \/ OwnerStep
     \/ \E c \in IdleChoices : AdjustIdle(c[1], c[2])
     \/ \E n \in MaxChoices : SetMaxWorkers(n)

\* Every thread runs once it can, m_pProcess returns, and the timed waits
\* end.  Nobody has to call anything.
Fairness ==
  /\ \A w \in Workers : WF_vars(~Over /\ Work(w))
  /\ \A j \in Jobs : WF_vars(~Over /\ Calling(j))
  /\ WF_vars(~Over /\ AddWorker)
  /\ WF_vars(~Over /\ OwnerStep)

Spec == Init /\ [][Next]_vars
FairSpec == Spec /\ Fairness

-----------------------------------------------------------------------------
ControlTypes ==
  /\ state \in {"TO_START", "RUNNING", "STOPPING", "STOPPED"}
  /\ opc \in {"main", "start", "startLock", "starting", "stopAll", "shutdown",
              "noWaiting", "join", "futexWait", "restop", "finish", "dlock",
              "deleted"} \cup StopLoops
  /\ addLock \in Jobs \cup {"owner", NULL}
  /\ apc \in {"none", "loop", "slot", "launch", "start", "clear", "delete",
              "release", "added"}
  /\ cpc \in [Jobs -> {"new", "append", "appended", "growing", "returned"}]

FlagTypes ==
  /\ crewLocked \in BOOLEAN /\ shutdown \in BOOLEAN
  /\ hasFinished \in BOOLEAN /\ discard \in BOOLEAN

NumberTypes ==
  /\ minIdle \in Nat /\ maxIdle \in Nat /\ maxWorkers \in Nat
  /\ idle \in Nat /\ running \in Nat /\ tries \in Nat /\ at \in Nat

SlotTypes ==
  /\ crew \in Seq(Workers \cup {NULL}) /\ emptySlots \in Seq(DOMAIN crew)
  /\ newSlot \in {-1} \cup DOMAIN crew
  /\ slot \in [Workers -> {-1} \cup DOMAIN crew]

WorkerTypes ==
  /\ wpc \in [Workers -> Looping \cup
                {"free", "created", "failed", "exit", "dying", "unslot",
                 "segv"}]
  /\ working \in [Workers -> {"TO_START", "RUNNING", "TO_STOP"}]

JobTypes ==
  /\ queue \in Seq(Jobs) /\ job \in [Workers -> Jobs \cup {NULL}]
  /\ outcome \in [Jobs -> {"none", "finished", "released"}]
  /\ ret \in [Jobs -> {0, LS_FAIL, EACCES}]

\* Types and ranges; m_idleWorkers and m_iRunningWorkers, which are counted
\* without a lock, never drop below zero.
TypeOK ==
  /\ ControlTypes /\ FlagTypes /\ NumberTypes
  /\ SlotTypes /\ WorkerTypes /\ JobTypes

\* The slot table is sound: a free slot is listed once and is empty, the
\* occupant of a slot knows its number, and a slot that is being filled is
\* neither listed nor occupied by another: the assertions of getSlot and
\* workerDied, which run against addWorker's unlocked stores.
SlotTable ==
  ~discard =>
    /\ IsInjective(emptySlots)
    /\ \A s \in DOMAIN crew :
         \/ crew[s] # NULL /\ slot[crew[s]] = s /\ wpc[crew[s]] # "free"
         \/ /\ crew[s] = NULL
            /\ \A w \in Workers : slot[w] = s => apc = "delete" /\ wpc[w] = "failed"
    /\ \A s \in ToSet(emptySlots) : crew[s] = NULL
    /\ apc \in {"launch", "delete", "release"} =>
         newSlot \notin ToSet(emptySlots) /\ crew[newSlot] = NULL

\* The crew never outgrows maxWorkers, although getSlot compares a counter
\* that is raised only later, and m_idleWorkers never drops below zero
\* (assert(idle >= 0) in workerRoutine).  The owner must not lower the limit.
SizeBounded ==
  /\ idle >= 0 /\ running <= maxWorkers
  /\ Cardinality({w \in Workers : wpc[w] \in Looping}) <= maxWorkers

\* The bookkeeping of the crew - slots, counters and size - survives workers
\* that are launched, fail to start, leave and die without a common lock.
CrewSound == SlotTable /\ SizeBounded

\* A job addJob accepted is in exactly one place - queue, hands of one worker,
\* done - while it is RUNNING and after: workers that wake, give up, leave or
\* are stopped neither lose nor share it.
JobsNotLost ==
  \A j \in Jobs :
    LET places == Cardinality({i \in DOMAIN queue : queue[i] = j})
                + Cardinality({w \in Workers : job[w] = j})
                + (IF outcome[j] = "none" THEN 0 ELSE 1)
    IN  places = IF cpc[j] \in {"appended", "growing", "returned"} /\ ret[j] = 0
                   THEN 1 ELSE 0

\* assert(isAllWorkerDead()) in stopProcessing: when it sees STOPPED, which the
\* last worker to die has set, no worker is counted.
AllWorkersDead == opc = "futexWait" /\ state = "STOPPED" => running = 0

\* Shrinking never takes the last worker: while the crew is RUNNING, workers
\* that see each other idle do not all leave (maxIdle at least 1).
CrewKeepsAWorker ==
  [][state = "RUNNING" /\ state' = "RUNNING" /\ Able # {} => Able' # {}]_vars

\* A job queued in a running crew with a worker is taken, even if it came
\* while every worker was about to wait, to leave or to be replaced.
QueuedJobTaken ==
  \A j \in Jobs :
    (j \in ToSet(queue) /\ state = "RUNNING" /\ Able # {}) ~>
      (j \notin ToSet(queue) \/ state # "RUNNING")

\* stopProcessing(0) returns, whatever the workers and the callers of addJob
\* were doing when it was called: nobody waits for a worker that is not
\* counted, or for a count that nobody lowers.
StopReturns == (opc = "stopAll" /\ ~discard) ~> opc = "main"
=============================================================================
