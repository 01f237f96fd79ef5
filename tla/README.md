# TLA+ models of OpenLiteSpeed

This directory holds TLA+ specifications of the concurrent and re-entrant core
of OpenLiteSpeed, the TLC runs that check them on small instances, and TLAPS
proofs for every value of their constants.  Paths are relative to the
repository's root, whose C++ code is under `src/`, headers under `include/`.

## 1. The system

OpenLiteSpeed is an event-driven web server.  A guard process forks worker
processes and restarts those that die; each worker runs one event loop and a
few thread pools; the workers share state through memory-mapped files.  Inside
a worker everything but the thread pools is single-threaded, and what is hard
there is re-entrance: a callback or an error path calls back into the object
that called it.

| Component | State | Operations | Interacts with | Hard behaviour | What makes it correct | Module |
|---|---|---|---|---|---|---|
| Supervision (`src/main/lshttpdmain.cpp`) | signal bits, child list, slots, fork counter, mark file | fork, reap, reload, graceful restart, stop | worker processes | signals between any two steps, children that die while they are replaced, a guard that dies | books exact; no gap in service during a restart; a stop stops; missing workers come back | `Supervisor` |
| Shared-memory lock (`include/lsr/ls_lock.h`, `src/lsr/ls_lock.c`) | a word in a shared file: the pid of the owner or 0 | lock, try-lock, unlock | every shm structure, in all worker processes | owners crash inside; zombies; stale or garbage words from an earlier server | one holder at a time; take-over only from dead owners, reported to the caller; nobody spins for ever | `PidSpinLock`, `RobustMutex` |
| Process-local mutex (same files) | a word: 0, 1, 2 | lock, try-lock, unlock | WorkCrew, memory pools | sleeping against releasing | one holder; no lost wake-up | `FutexLock` |
| WorkCrew (`src/thread/workcrew.cpp`, `pthreadworkqueue.h`, ...) | slot table, counters, limits, job queue, state | start, addJob, adjustIdle, maxWorkers, stop, destroy; worker loop | event loop (callers), LSIAPI, AIO | unlocked counters, workers that leave and arrive, stop against add | slots consistent; size bounded; no job lost; a worker remains; stop returns | `WorkCrew` |
| EvtcbQue (`src/edio/evtcbque.cpp`) | list of callback nodes, per-session tail, run queue and back reference | schedule, run, run(session), remove, cancel | sessions, worker threads, modules | callbacks that schedule, run and close sessions while the list is run | order per session; nothing runs for a closed session; no node lost | `EvtcbQue`, `CallbackQueue` |
| External workers (`src/extensions/`, `httpextconnector.cpp`) | worker states, connection pool, request queue | processRequest, recycle, error, retry, timers | HTTP session, load balancer | errors and retries re-enter the worker | requests and connections paired; no request lost; pool within its capacity; every request ends | `ExtWorker` |
| HTTP/2 (`src/h2/`) | streams, windows, priority queues, output buffer, wake-up flags | frames in, output, write events, timer | HTTP session, socket | five reasons to wait, each granted at its own time; streams closed while they are queued | no wake-up lost; queues and counters agree; streams that are done are counted | `H2Conn` |
| Shared memory (`src/shm/`), lock-free queues (`src/lsr/`), Offloader (`src/thread/offloader.cpp`) | | | | | | section 8 |
| HTTP session, event loop, TLS, QUIC, caches, configuration, logging, DNS, SSI | | | | | sequential or I/O-bound code | section 8 |

`PROJECT.json` lists all components, and under `hazards` each place in the code
where a test would hardly reach what can go wrong.

## 2. Plan

Done, in this order: the locks with their proofs (`RobustMutex`,
`PidSpinLock`, `FutexLock`); the thread pool on top of the mutex (`WorkCrew`);
the deferred callbacks and their abstract queue (`EvtcbQue`,
`CallbackQueue`); requests to external applications (`ExtWorker`); the sending
side of HTTP/2 (`H2Conn`); the guard process (`Supervisor`) with its proofs;
the proofs of the thread pool, of the sending side of HTTP/2, of the
deferred callbacks, with the proof that `EvtcbQue` implements `CallbackQueue`, and
of the external workers through all their nested calls.

Left:

1. The lock-free queue `ls_lfqueue`, which `WorkCrew` takes for atomic.
2. The lock list of the shared memory on top of `RobustMutex`.

## 3. Modules and how they follow the code

### RobustMutex, PidSpinLock
`lsshmtypes.h` maps the locks of all shared-memory structures to
`ls_atomic_spin_pidlock` and its companions.  `PidSpinLock` has one action per
access to the shared word or system call: `PidLock` (the first CAS), `PidWait`
(the assertion), `Spin` (a CAS of the loop), `Reset` (the plain store over a
value below `LS_SPIN_MIN_PID`), `Kill`, `Steal` (the CAS after it), `PidUnlock`
(the assertion) and `Clear`.  `Fork`, `Crash` and `Reap` are the environment:
a process dies at any point, stays a zombie until its parent waits for it, and
only then does `kill(pid, 0)` fail.  A failed assertion terminates the process,
or does nothing when `NDEBUG` is TRUE; both builds exist.  `ret` records what
the lock call returned, so that the refinement of `RobustMutex` also says that
a caller is told about a dead owner exactly when there was one.

### FutexLock
`ls_mutex_t` on Linux: `Spin` is a turn of the adaptive loop, `Cas1` the CAS
after it, `Mark`, `FutexWait` and `Cas2` the loop that sleeps, `Unlock` and
`Wake` the release.  The kernel compares the word and puts the thread to sleep
in one step, wakes any one sleeper, and may let a sleep end early (`Interrupt`).

### WorkCrew
The threads are the callers of `addJob` (one per job), the workers and the
owner.  Short sections under `m_crewLock` and under the mutex of the job queue
are single actions; `m_addWorker` is held over many steps and is the variable
`addLock`.  `crewLocked` is TRUE while `stopAllWorkers` is in its loop, where
each worker is a step and the workers go on between them, and for ever once a
section ended without unlocking.  When `pthread_create` fails, the count, the
slot, the object and the entry of the slot list are given back in four steps.

| Code | Actions |
|---|---|
| `addJob` | `AddJob`, `AppendJob`, `TryGrow`, `Grow`, `Grown` |
| `addWorker`, `getSlot`, `releaseSlot` | `GetSlot`, `Launch`, `StartWorker`, `StartFails`, `ClearSlot`, `DeleteWorker`, `ReleaseSlot` |
| `workerRoutine`, `getJob`, `PThreadWorkQueue::get/tryget` | `Loop`, `Poll`, `Get`, `WaitDone`, `Gotten`, `Process`, `Put`, `Check` |
| `thr_cleanup`, `workerDied` | `Exit`, `Dying`, `Unslot` |
| `startJobProcessor`, `startProcessing` | `StartJobProcessor`, `Start`, `StartLock`, `StartMore`, `StartAdded` |
| `adjustIdle`, `maxWorkers` | `AdjustIdle`, `SetMaxWorkers` |
| `stopProcessing`, `PThreadWorkQueue::shutdown` | `Stop`, `StopAll`, `Restop`, `StopEach`, `StopAllDone`, `Shutdown`, `NoWaiting`, `Join`, `FutexWait`, `Finish` |
| `~WorkCrew` | `Destroy`, then the stop with `discard`, then `Delete` |

Abstractions.  All sleeps in the pool have a time-out (250 ms, 500 ms), so a
sleeper may go on at any moment and condition variables are not modelled.  A
poll may fail although there is a job (`tryget` returns EBUSY when its mutex is
taken), and a failed poll changes nothing, so it is one step with the increment
of `m_idleWorkers` that follows.  The loads of `idles()`, `maxIdle()`,
`maxWorkers()` and `size()` at the end of the worker's loop are one step, and
so are the two stores of `adjustIdle`.  After the deletion of the crew, or after a worker has used a NULL finished queue,
nothing is modelled: the behaviour is undefined (`Over`).  The model is of the
build without assertions: `assert(isAllWorkerDead())` of `workcrew.cpp:341` is
the property `AllWorkersDead`, and `worker.h:52`, which a failing
`pthread_create` violates, is passed over.  The owner
calls one operation at a time, and destroys the crew when no `addJob` is in
progress, as any caller must.

### CallbackQueue, EvtcbQue
`CallbackQueue` is the promise: a sequence of callbacks per session, a set of
callbacks without session, a stack of those that run; a callback starts when it
is the first of its session, closing a session drops what waits for it.
`EvtcbQue` has the pointers of the code: the doubly linked list, `evtcb_tail`,
`evtcb_runqueue` and `back_ref_ptr` of each session, and a stack of frames for
the nested calls of `run()` and `run(session)`.  The loops that follow the
pointers (`removeSessionCb`, `extractSession`) are `Walk`: the least set of nodes
that has the first one and, with each node, the one its pointer leads to, as long
as they belong to the session.  What waits for a session is, as a sequence, the
nodes of its run queue and then those it has in the list, each along `m_pNext`:
the i-th one has i nodes that start no later than it (`Waiting`, `Ranked`).
Under way are the callbacks of the calls on the stack, the innermost one only
while its callback runs (`UnderWay`); a call that steps over a cancelled node is
not in one.

| Code | Actions |
|---|---|
| `schedule`, `schedule_once` | `Schedule`, `ScheduleOnce` (any thread) |
| `get_event_obj`, `schedule_event`, `cancel_event` | `GetEventObj`, `ScheduleEvent`, `CancelEvent` |
| `run()` | `Run` (detaches the list, starts the first group), `Advance` (next node, next group, end) |
| `runAllCallbacks`, `run(session)`, `extractSession` | `RunSession`, `Advance` |
| `runOne`, `recycle` | the start of a node in `RunNode`, its end in `Return` |
| `removeSessionCb`, `resetBackRefPtr` as sessions call them | `RemoveSessionCbs`, `CloseSession`, `CloseOverwrites` |

Abstractions.  One action is a section under `m_lock` with what its thread then
does to nodes nobody else can reach.  Callbacks and their parameters have no
content.  The notifier is left out, because the loop calls `run()` after every
poll.  `removeSessionCbs`, and `nextRequest` where it returns early
(`httpsession.cpp:527`, `537`), leave `back_ref_ptr` alone, and
`get_event_obj` overwrites one that a session already has; both are possible for
every session (`get_event_obj` for those of `EventUsers`, whose modules use event
objects).  So a back reference may lead into a node that was used again.  When
its session is then closed and the node has become another session's,
`resetBackRefPtr` clears the session of that node (`CloseOverwrites`).  What the
loop makes of such a list is not followed: the model stops there (`wild`).

### ExtWorker
One event loop runs requests, workers, connections and the load balancer, so an
action is a whole callback.  The callbacks nest, and nested error recovery is
where requests get lost: a failing connect hands its request back to the worker,
which may choose the same connection again while the outer calls still hold it.
The calls are operators from a state to the set of states (and return values)
that the network permits; each has the name of its function.  A call that can
lead back to itself (`assignReq`, `processPending`, the loop of `recycleConn`,
`failOutstandingReqs`, `connError` of a nested `onWrite`) is looked up in a table `F` of the calls one level deeper:
`Calls[0]` has no results, `Calls[d]` is made from `Calls[d - 1]` by
`CallsAbove`, and the callbacks use `Nested`, which is `Calls[MaxDepth]`.  A turn
of a loop counts as a level.

| Code | Definitions |
|---|---|
| `HttpExtConnector::process`, `tryRecover`, `cleanUp`, `endResponse` | `Process`, `TryRecover`, `CleanUp`, `EndResponse`, `ReleaseProcessor` |
| `ExtWorker::processRequest`, `processPending`, `recycleConn`, `connectionError`, `failOutstandingReqs` | operators of the same names (`PendingLoop`, `RecycleLoop` for the loops), `Penalty`, `DecMaxConn`, `ClearConnPool`, `Requeue` |
| `ConnPool` | `GetConn`, `Reuse`, `RemoveConn`, `Erase` |
| `ExtConn` and `ProxyConn` events | `AssignReq`, `Reconnect`, `ConnError`, `OnRead`, `OnWrite`, `OnError`, `OnSecTimer`, `OnTimer`, `ProcessResp` |
| `LoadBalancer::selectWorker`, `workerLoadCompare` | `SelectWorker`, `WorkerLoadLess` |
| `resetStats` (timer) | `ResetStats` |
| the client | `ClientGone` |

Abstractions.  The protocol is HTTP proxying with kept connections.  Contents
are reduced to "header seen" and "complete", clocks are nondeterministic, and
connection errors are bounded by `MaxFaults`, and the depth of the calls by
`MaxDepth`: a callback that would need more levels has no result.  In the runs it
is 30, more than the nested calls need with the errors there are.  The proofs
hold for every depth.  A connect that succeeds at once calls `onWrite` nested
(`Connected`), with all that may follow from a failing write.  `endOfReqBody`
marks the request as sent before its last flush (`sent = "ending"` of `DoWrite`),
so after an early answer a connection with unsent bytes may be used again; no
document promises otherwise and no property says so.

### H2Conn
The sending half of a connection.  An event (read, write, timer, output of the
application) enters the code; the loops inside it are steps of their own, `pc`
says which.  The record `c` is the connection with its streams, passed through
the operators the way the code passes `this`.

| Code | Definitions |
|---|---|
| `processFrame` and the handlers of frames | `HeadersFrame`, `EndStreamFrame`, `RstFrame`, `PriorityFrame`, `SettingsFrame`, `WindowUpdateConn`, `WindowUpdateStream`, `UndecodedHeaders` and `BadFrame` (the ones that end the connection) between `ReadStart` and `ReadEnd` |
| `onWriteEx2`, `processQueue`, `processPendingStreams` | `WriteEvent`, `PendingStep`, `QueueStep`, `QueueNext`, `LevelDone`, `PendingDone`, `QueueDone` |
| `sendRespHeaders`, `write`, `sendDataFrame` | `SendRespHeaders`, `WriteFrame`, `EndLocal`, `WriteBlocked`, `WriteDone` |
| `add2PriorityQue`, `removePriQue`, `apply_priority`, `TDLinkQueue` | `Add2PriorityQue`, `RemovePriQue`, `ApplyPriority`, `Pop` |
| `shutdown`, `close`, `abort`, `resetStream`, `recycleStream`, `onTimer` | `Shutdown`, `CloseEx`, `Abort`, `ResetStream`, `RecycleStream`, `Timer`, `TimerGoAway` |
| the session | `AppOutput`, `AppFail` |

Abstractions.  Data is counted in DATA frames, the output buffer saturates at
`BufFull`, windows are integers that wrap at `MaxWindow` as an `int32_t` does,
two of the eight priority levels exist.  The connection is a plain one (no
direct buffer, no TLS records).  Nothing is modelled after a GOAWAY, nor the
frames that follow, in the same input, the one that ended the connection.

* SETTINGS may hold several INITIAL_WINDOW_SIZE entries; the streams get the
  difference of the last two values (`h2connbase.cpp:539`), so `SettingsFrame` has
  the last value and the one before it.
* A session may wait, answer, close its stream at once, or not be had.  In the
  last case `resetStream` recycles the stream; after HEADERS without END_STREAM
  `recycleStream` is then called a second time, and its `assert(pClientInfo)`
  (`h2connection.cpp:291`) ends the process: `pc = "aborted"`.
* END_STREAM on a DATA frame (`eor`) is only asked for by the file of a
  sub-request (`hiochainstream.cpp:177-182`), since `httpsession.cpp:5530` leaves
  out the streams of HTTP/2; `WriteFrame` allows it for every response.

### Supervisor
`LshttpdMain::guardCrash`, the event loops of its workers as far as they start,
stop and exit, and the next instance of the server during a graceful restart.
Signal handlers only set bits; `processSignal` tests them one after the other
and `resetEvents` clears all, so each test is a step and signals arrive between
any two.

| Code | Actions |
|---|---|
| `guardCrash` | `WindowOver`, `ForkCheck`, `StartChild`, `StartChildFails`, `ForkDone`, `PollInput`, `PollReload`, `PollRestart`, `PollIdle`, `DelayCheck` |
| `processSignal`, `waitChildren`, `childDead`, `resetEvents` | `TestAlarm`, `TestAlarmRestart`, `TestStop`, `TestUsr1`, `TestHup`, `TestChild`, `WaitChild`, `WaitDone`, `Reset` |
| `gracefulRestart`, `restartMark`, the new instance | `RestartMark`, `RestartBroadcast`, `RestartFork`, `NewInstance` |
| `stopAllChildren` | `StopAll`, `StopWait`, `StopEnd` |
| a worker (`EventDispatcher::run`, `HttpServer`) | `WorkerStart`, `WorkerStop`, `WorkerStopLost`, `WorkerOrphaned`, `WorkerLinger`, `WorkerExit` |
| the environment | `Signal`, `Tick`, `WorkerCrash`, `GuardCrash` |

Abstractions.  The alarm is raised at the poll only; the limits of 10, 60 and
300 seconds pass at any time; `ForkLimit` stands for eight forks per worker.
Requests of a worker for a restart are `TestAlarmRestart`.  The mark file is
always created.  A new instance becomes ready or fails.  After a crash of the
guard only the workers go on.

## 4. Runs

| Run | Shows | Bounds and why | States |
|---|---|---|---|
| `pidspin` | `MutualExclusion`, `HolderOwnsWord`, `NoSelfWait`, `Progress`, `ImplementsRobustMutex` | three processes of one thread: an owner that dies and two thieves that race for its lock; `MAX_SPINCNT_CHECK` 2 and `LS_SPIN_MIN_PID` 3 stand for 5000 and 10; the word is free or names a process of an earlier server | 3,760 |
| `pidspin_garbage` | `Progress` when the word starts as garbage | the same with the words 2 and -1 | 3,849 |
| `futex` | `MutualExclusion`, `NoLostWakeUp`, `Progress`, no deadlock | four threads: a holder, one who releases, two sleepers | 10,173 |
| `workcrew` | `CrewSound`, `JobsNotLost`, `CrewKeepsAWorker` | two jobs, limit two, three worker objects, so that one can be dying while two run; symmetry in jobs and workers | @WC@ |
| `workcrew_live` | `QueuedJobTaken`, `StopReturns` | one job, two worker objects, with `startJobProcessor`, `adjustIdle` and `maxWorkers`; no symmetry | @WCL@ |
| `workcrew_stop` (violation) | `AllWorkersDead` fails: `stopProcessing` finds STOPPED with a worker alive | one job is enough | |
| `evtcbque` | `NodesAccounted`, `RunsAsPromised`, `EventuallyFree` | two sessions, three nodes: a group of two and one of another session, or one scheduled while two are in hand | 32,189 |
| `extworker` | `Assignments`, `RequestsPlaced`, `PoolSound` | a load balancer over two workers of one connection each, two requests, three errors: enough to fail over and back with one request queued | 770,425 |
| `extworker_live` | `EventuallyEnded` | one worker with one connection, two requests, two errors, so that the worker goes bad and recovers | @EWL@ |
| `h2conn` | `QueuesSound`, `WakeupPending`, `ShutdownCounted` | two streams of at most one unit that compete, windows of at most 1 that wrap, one SETTINGS frame, a buffer of two frames: every reason to wait but the limit by weight (it needs two units) occurs; this one and the refusal of a stream beyond the limit are covered by the proofs | 2,379,175 |
| `h2_priority` (violation) | `PopFrontSound` fails with rewrite rules that set a priority | two streams at once, window 1 of at most 2 | |
| `supervisor` | `ChildrenAccounted`, `ListenersKept`, `ServerStops`, `CrewRestored` | one worker to keep running, two worker objects (the old and the new generation), two incidents; the proofs cover more | 57,374 |

Each run also checks the type invariant of its module.  Deadlock is checked in
`futex`, where every thread may always go on.  In the other models the system
may stop: all processes may have crashed, a crew ends, a connection closes.

### Findings
* **Priority of a linked stream** (`hiostream.h:145`, run `h2_priority`): the
  rewrite flag `E=http-prio:N` changes the priority of an HTTP/2 stream that may
  be linked in a queue, without moving it.  The counters of the queues are then
  wrong, and `pop_front` aborts the process (`dlinkqueue.h:174-179`).
* **Stop against add** (`workcrew.cpp:341`, run `workcrew_stop`): a caller of
  `addJob` between `getSlot` and the increment of `m_iRunningWorkers` is invisible
  to the last worker, which declares the crew STOPPED.  `stopProcessing` then
  finds `assert(isAllWorkerDead())` violated.  Without assertions it returns with
  a worker that nobody asked to stop and that may take a job and use a finished
  queue that is NULL by then (`Put`, "segv").

### Observations
What the models show about the code without a document that says otherwise:

* Small pids (`ls_lock.c:88-93`): in a container a worker may have a pid below
  10; waiters take its lock for garbage and free it.  The proofs exclude such
  pids by an assumption.
* Lock left behind (`workcrew.cpp:418-419`): an early return in `workerDied`
  without unlocking `m_crewLock`.
* `addJob` may return EACCES (`workcrew.cpp:390`); its callers test for -1.
* Stale back reference (`httpsession.cpp:522-537`, `lsiapilib.cpp:1069-1078`):
  `back_ref_ptr` outlives its node, and `resetBackRefPtr` may clear the session
  of somebody else's node (`CloseOverwrites`).
* Settings (`h2connbase.cpp:539`): a SETTINGS frame with the windows 0 and 65535
  gives open streams 65535 more credit than the client gave.
* Count of shut-down streams (`h2connbase.cpp:640`): a reset of a stream in state
  SHUTDOWN is not counted out, so the counter may be too high and `getNewStream`
  lets more streams in than the limit.  `ShutdownCounted` is the other direction.
* Early answer (`proxyconn.cpp:913`): a connection to a backend with unsent bytes
  of a request may get the next one.
* Lost signals (`lshttpdmain.cpp:2023`): a signal that arrives after its test
  and before `resetEvents` has no effect.  `ServerStops` is stated for the
  others.  A worker has the same window (`eventdispatcher.cpp:277`, action
  `WorkerStopLost`); the guard's repeated signals make up for it when it stops,
  not after a reload.
* A new instance that fails leaves the old guard waiting for 300 seconds and
  then stopping everything: there is no server.
* Lost wake-up (`h2connbase.cpp:1818`): `processQueue` stops at a short write
  (`isPauseWrite`) and returns `wantWrite = 0`, although a second stream that
  wants to write is queued behind the one that filled the socket.  When the
  `flush()` at its end (`h2connbase.cpp:1860`) then empties the buffer,
  `onWriteEx` takes the connection for idle and calls `suspendWrite()`
  (`h2connection.cpp:484`).  The second stream waits until the client sends
  another frame or the connection times out.  `WakeupPending` states what the code does promise: the write event, unless
  the socket is still marked as paused.  That every stream ends is therefore not
  claimed: with two streams it is false.
* A retry on a kept connection has no limit of its own (`extconn.cpp:371-380`);
  `EventuallyEnded` holds because errors are finitely many.

## 5. Fairness

* `PidSpinLock`: weak fairness of each thread inside the lock or unlock code
  (the kernel schedules runnable threads, critical sections end) and of `Reap`
  (the guard process waits for its children).  Nobody has to lock or to crash.
  No fairness among waiters is assumed, and `Progress` promises only that
  somebody gets the lock: a spin lock has no queue.
* `FutexLock`: weak fairness of each running thread and of the release; early
  wake-ups are possible but not promised.
* `WorkCrew`: weak fairness of each worker, of each `addJob` call that has
  begun, and of the owner inside an operation.  This includes the end of timed
  waits (they have time-outs) and the return of `m_pProcess`.
* `EvtcbQue`: the loop comes back to `run()` (strong: other events may come in
  between), callbacks return after finitely many calls of their own.
* `ExtWorker`: a session ends a request that was answered or whose client left,
  the application reads and answers or fails, the ten-second timer ticks.  It is
  written as "if for ever possible, then again and again", which is weak
  fairness, because TLC is slow at deciding when the nested calls are enabled.
* `H2Conn`: no liveness property, no fairness.
* `Supervisor`: the guard runs; its descriptors are not ready for ever (the loop
  skips the signals while they are), the timer ticks and a minute passes again
  and again; a worker reaches its loop, notices a signal that keeps coming,
  looks at its parent every second and does not linger for ever.

## 6. Proofs

`PidSpinLock_proofs` proves, for any threads, processes, pids and spin counts,
`TypeCorrect`, `LockExcludes`, `UnlockAssertHolds`, `PidWaitAssertHolds` and
`LockRefinesRobustMutex`.  Assumptions: no pid is given out twice while the
lock file is in use (`NoPidReuse`), and no pid or initial word is one that
`pidwait` takes for garbage or that a coming process will have (`SanePids`).
`PidWaitAssertHolds` also needs one thread per process: a second thread of the
owner's process would meet its own pid.  `MutualExclusion` is not inductive.
`IInv` adds that the word is never garbage (so nobody resets it), that only
threads of live processes run, that a pid found dead by `kill` belongs to a
process that is gone for good (`PidsStarted`, the step from `kill` to the CAS),
and that a live process named by the word really holds the lock (`OwnerHolds`).
The refinement theorem maps `Steal` to `Recover`, and needs the same invariant.

`FutexLock_proofs` proves `FutexTypes`, `FutexExcludes` and `FutexKeepsWakeUps`
for any number of threads and any spin count.  `NoLostWakeUp` is inductive
together with `MutualExclusion` and the types.

`Supervisor_proofs` proves `SupervisorTypes`, `GuardBooks` (`ChildrenAccounted`),
`SlotAvailable` and `RestartKeepsListeners` (`ListenersKept`) for any finite set of workers, any
number of slots and any limits.  The books are inductive with the types, once
said exactly: the counter is the number of running children, their slots are
distinct and are those marked in `m_pProcState`, and every process that exists
is in the list.  `SlotAvailable` follows by counting: when a worker is missing
there is a free slot, so the early return of `startChild` at
`lshttpdmain.cpp:1560`, which would leave the forking loop without a way out, is
never taken.  The action property about listeners needs `MarkInv`: from the
broadcast of the restart on, the mark file exists or a new instance has been
ready.

`WorkCrew_proofs` proves `CrewTypes` (which includes that `m_idleWorkers` and
`m_iRunningWorkers` never drop below zero) and `CrewBooks` (`CrewSound`) for any
jobs and any finite set of worker objects.  The types are not inductive: a
counter that is lowered was raised before, and an index taken without
`m_crewLock` must be one of the table.  `IInv` adds who holds `m_addWorker` and
that it owns the slot it is at (`AddingInv`), that every worker sits in its slot
and only the slot being filled holds one that was not started (`MemberInv`),
that free slots are listed once and empty (`FreeInv`), and that the counters
cover the workers they count (`CountInv`; after a stop with `discard` they count
more, since a worker without a slot leaves uncounted).  `CrewBooks` assumes that
the owner never lowers the limit (`LimitKept`); then what `getSlot` compared
with `m_maxWorkers` can only have dropped when the new worker is counted
(`LimitInv`).

Its second part builds on that and proves `CrewJobs` (`JobsNotLost`) and
`CrewKeeps` (`CrewKeepsAWorker`).  `JInv` says where each job is (`HandsInv`,
`PlaceInv`: in the queue once, in the hands of one worker or done, and exactly then
accepted) and which states of the crew go with which places of its owner
(`StateInv`).  `CrewKeeps` needs that `m_idleWorkers` is exactly the number of idle
workers (`IdleInv`) and assumes that the owner never lowers the limit
(`LimitKept`) and always asks for at least one idle worker (`IdleKept`); with a
limit of zero idle workers all of them may leave.

`H2ConnLemmas` and `H2Conn_proofs` prove `H2Types`, `H2Queues`, `H2WakeUp`,
`H2Counted` and `H2PopFront` for any number of streams, any window and
buffer sizes, any settings and any length of responses.  The first module holds
what each operation on a stream does to the connection (`Weak`, `Rel`: it stays
sound, other streams stay as they are, stay queued and are not moved back, and
nobody takes back a request for a write event), by composition from the
operators up, and the inductive invariant; the second has one lemma per action.
`QueuesSound` and `ShutdownCounted` are not inductive: `Sound` adds that queued
streams are distinct in both directions, that a queued stream is one the client
has opened, and that the counter lies between the streams that are shut down and
those that are over.  `WakeupPending` speaks of the moments between events; inside
an event it is `Called` (the event itself will look at the queues again) and,
while `processQueue` walks the queues, `Looping`: whoever is to be served is
queued or in its hand, and either the loop will ask for another write event or it
still has all of them before it (`Found`).  That a stream which is passed over is
not lost rests on `Later`: no operation moves another stream towards the tail.
The folds over
the streams (recycling, SETTINGS) are handled by an induction over finite sets in
set form (`Grows`, `Leads`, `IsFold`), proved from the facts of
`WellFoundedInduction` that have no operator parameter.

`EvtcbQue_proofs` proves `EvtcbTypes`, `EvtcbNodes` (`NodesAccounted`) and
`EvtcbRunsAsPromised` for any finite set of nodes and any sessions, up to the
moment when a stale back reference cuts a session off from its node (`wild`).
The first two are not inductive: that a walk along the pointers ends, and where, depends
on all of the pointers.  The inductive invariant `IInv` therefore says that some
arrangement exists: a part for each node (the list, what `run()` has detached and
not begun, the group in the hands of call i, or none) and a position in it, such
that

* each `m_pNext` and `m_pPrev` leads to the neighbour in the part and the ends of
  a part are marked as the code expects, NULL or the head (`Shape`);
* each call knows the first node of its group and of the rest, there is one call
  of `run()` or several of `run(session)` of different sessions (`Framed`);
* the nodes of a session in the list stand next to each other and `evtcb_tail` is
  the last (`Tailed`), a group in hand is of one session and `evtcb_runqueue` is
  its first node, unless the session was closed meanwhile (`Grouped`);
* a node in no part is free, prepared or running, in one place (`Placed`).  Of the
  back references nothing is needed but that they are nodes (`Referred`).

Each operation on the pointers (insert behind a node, take the first, cut a piece
off) is one lemma about `Shape`; each action gives the new arrangement: a
scheduled node is put behind its neighbour (the positions behind it move up), a
detached piece moves to another part with its positions.  The walks of the
properties are then the parts (`WalkOn`, `WalkBack`), from the well-foundedness of
the naturals.

`EvtcbRunsAsPromised` (`RunsAsPromised`) is the refinement of `CallbackQueue`.  It
needs one more invariant, `CallInv`: a call that has others inside is in a
callback that was not cancelled, and a node with a session has its callback.  What
waits for a session is the row of its nodes in an arrangement, ordered by `Before`:
first the group in hand, then the list, by position.  Each lemma about an action
also says what the action does to the rows: `Grows` (one node comes to wait, behind
all others of its session, and the others keep their order), `Shrinks` (the first
one of its session leaves), `StepStays`, `StepCloses`.  A row is a chain (`Chain`),
the sequence of a chain is its elements by rank, and adding a last or removing a
first element of the chain is `Append` and `Tail` of the sequence (`RankedAppend`,
`RankedTail`, by counting).  So scheduling is `Schedule` of the promise even when
the node is put into a list that `run()` has detached, the start of a node is
`Start` of the first that waits, and the start and the end of a cancelled node and
the end of a call show nothing.

`ExtWorker_proofs` proves `ExtTypes`, `ExtPoolSound`, `ExtAssignments` and
`ExtRequestsPlaced`, for any workers, pool sizes, requests, numbers of errors and depths of nested calls.  The assumptions
are those of `ExtWorkerAssumption`: workers are listed once, there are finitely
many requests, and every pool has room for at least one connection.  None of the
invariants holds inside a callback, and none is inductive alone.  The argument has
three parts.

* `Ready(s, c, X)` is the state inside a callback, `c` being the connection that a
  caller holds (or NULL) and `X` the requests that may be nowhere for the moment.
  It says that the pools are in order (`Pools`), that connections and requests
  agree and only `c` is neither free nor busy (`Linked`), that a request in a queue
  or on a connection is still to be answered and names that worker (`Places`),
  that only requests of `X` are lost (`NoneLost`), and that a connection with a
  request is connecting or processing (`Opened`).  `Between`, which is `Ready`
  with nothing in hand, is the inductive invariant; the invariants follow from it.
* `Good(F)` is the contract of the nested calls: called in a state that is ready
  but for the connection and the request handed over, each leaves a state that is
  ready again.  In particular, after an `assignReq` that did not return 0 the
  request is placed or answered and the connection has none; so
  the branches of `processRequest`, `processPending` and `recycleConn` that take
  the request back from such a connection are never needed.  `Good(NoCalls)` is
  trivial, and `Good(F) => Good(CallsAbove(F))` takes one lemma per operator, from
  `AssignReq` through `ConnError`, `ConnectionError` and `TryRecover` back to the
  loops.  `CallsGood` is the induction on the depth, from
  the facts of `WellFoundedInduction` that have no operator parameter.
* `Rel(s, t, w, R)` is what nested calls leave alone, and what the callers rely on:
  a bad worker other than `w` stays bad and gives no request to its connections
  (`Barred`), and a request that is in no place, `R` excepted, is not touched
  (`Spared`).  It composes, so each operator's lemma gives it along with the state
  it leaves.

The attempt changed the model in two places.  `OnRead` used a `CASE` with
overlapping guards, of which TLA+ does not say which one applies (TLC takes the
first); it is now a chain of `IF` as in the code.  And `Erase` now moves the last
element into the gap, as `ls_ptrlist_erase` does, instead of closing it.

Only model-checked: all liveness, since TLAPS does not reason about fairness and
ENABLED (`Progress`, `EventuallyEnded` and the other properties of the runs with
fairness).  Every invariant and every action property that a passing run checks,
and both refinements, are proved as well.

## 7. Faults

Definitions marked "Fault" in the modules are altered forms of the definition
that follows them; `PROJECT.json` names, for each property, one that violates
it.

## 8. Not modelled

* `ls_futex_safe_*`: no user in the server.  The plain spin lock
  `ls_atomic_spin_lock`: a single CAS loop.
* Pid reuse within the life of the lock file.
* The shared-memory pool, hash and lock list (`src/shm/`): every store matters
  once a process may die between two of them, so a faithful model is about as
  large as the code.  What can be said without it: the callers of the lock
  ignore its negative result (a take-over), so they go on with what the dead
  owner left.
* The lock-free queue and stacks: `WorkCrew` takes the finished queue as atomic.
* `Offloader` and `sslasyncpk.cpp`: nothing in the repository starts them.
* The count of lingering connections `m_iLingerConns`, which only the management
  of local processes reads.
* Of external applications: FastCGI, LSAPI, SCGI, uwsgi and CGI, the processes
  of local applications, TLS to a backend.
* Of HTTP/2: header compression, request bodies and receiving windows, the
  limits against abusive clients (but for their effect, `BadFrame`), TLS records.
* Of supervision: crash reports, the CGI daemon, ACME, administration commands
  other than reload and restart.
* The HTTP session, parsers, rewrite engine, TLS, QUIC, caches, file I/O,
  configuration, logging, DNS and SSI: sequential, I/O-bound or wrappers around
  libraries; their state is too large for a small model to say much.
