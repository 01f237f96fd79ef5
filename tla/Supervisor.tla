----------------------------- MODULE Supervisor -----------------------------
(***************************************************************************)
(* The guard process of the server (LshttpdMain::guardCrash) and its       *)
(* workers.  The guard forks workers into numbered slots, replaces those   *)
(* that die, and reacts to signals, whose handlers only set bits of        *)
(* HttpSignals::s_iEvents.  It tests the bits one after the other and then *)
(* clears all of them, so a signal may arrive between any two of its steps.*)
(* A graceful restart keeps the old workers listening until a new instance *)
(* of the server has removed the mark file admin/tmp/.restart.             *)
(***************************************************************************)
EXTENDS Integers, FiniteSets

CONSTANTS
  Workers,       \* ChildProc objects, each with the process it stands for
  NumChildren,   \* iNumChildren, the number of workers that are to run
  ForkLimit,     \* forks allowed in 60 seconds, iNumChildren << 3 in the code
  MaxIncidents   \* bound: signals and commands from outside, processes that
                 \* die by themselves, failures to start one

ASSUME SupervisorAssumption ==
  /\ NumChildren \in Nat \ {0}
  /\ ForkLimit \in Nat
  /\ IsFiniteSet(Workers) /\ Cardinality(Workers) >= NumChildren
  /\ MaxIncidents \in Nat

VARIABLES
  gpc,         \* where the guard is
  gret,        \* where gracefulRestart returns to
  events,      \* HttpSignals::s_iEvents of the guard
  running,     \* s_iRunning: 1, 0 for a restart, -1 for a stop
  delay,       \* s_tmDelayShutdown: 0 not set, n + 1 if due in n seconds
  forkCount,   \* iForkCount, -1 while forking is suspended
  curChildren, \* m_curChildren
  procState,   \* m_pProcState, the slots in use
  list,        \* m_childrenList
  state,       \* m_iState of the children in the list
  slot,        \* m_iProcNo of the children in the list
  proc,        \* the processes of the workers
  term,        \* HS_STOP in s_iEvents of the worker
  knows,       \* the worker has recorded the guard as its parent (s_ppid)
  listening,   \* the worker has its listeners open
  mark,        \* the file admin/tmp/.restart exists
  starting,    \* a new instance has been forked and is not ready yet
  ready,       \* a new instance has been ready for service
  incidents    \* how many have happened

guardVars == <<gpc, gret, running, delay, forkCount>>
childVars == <<curChildren, procState, list, state, slot>>
workerVars == <<proc, term, knows, listening>>
instVars == <<mark, starting, ready>>
vars == <<guardVars, events, childVars, workerVars, instVars, incidents>>

-----------------------------------------------------------------------------
Signals == {"ALARM", "STOP", "USR1", "HUP", "CHILD"}
Alive == {"start", "loop", "linger"}
Gone == {"exited", "crashed"}

\* The guard at the head of its loop, before any worker.
Init ==
  /\ gpc = "top" /\ gret = "top" /\ events = {} /\ running = 1 /\ delay = 0
  /\ forkCount = 0 /\ curChildren = 0 /\ procState = {} /\ list = {}
  /\ state = [w \in Workers |-> "running"]
  /\ slot = [w \in Workers |-> 0]
  /\ proc = [w \in Workers |-> "none"]
  /\ term = [w \in Workers |-> FALSE]
  /\ knows = [w \in Workers |-> FALSE]
  /\ listening = [w \in Workers |-> FALSE]
  /\ mark = FALSE /\ starting = FALSE /\ ready = FALSE
  /\ incidents = 0

\* A step that changes only the guard's own control state.
GuardOnly == UNCHANGED <<events, childVars, workerVars, instVars, incidents>>

Incident ==
  /\ incidents < MaxIncidents
  /\ incidents' = incidents + 1

-----------------------------------------------------------------------------
(* The children of the guard. *)

\* The children that are to serve, CP_RUNNING.
Current == {w \in list : state[w] = "running"}

\* getFirstAvailSlot returns s.  (There is a free slot as long as the counter is
\* right, see ChildrenAccounted.)
FirstAvailSlot(s) ==
  /\ s \in (1..NumChildren) \ procState
  /\ \A t \in (1..NumChildren) \ procState : s <= t

\* startChild succeeds: w is taken from the pool, its process runs with a copy
\* of the guard's memory, the bits of s_iEvents included.
StartChild(w) ==
  /\ gpc = "fork" /\ curChildren < NumChildren
  /\ w \in Workers \ list
  /\ \E s \in 1..NumChildren :
       /\ FirstAvailSlot(s)
       /\ slot' = [slot EXCEPT ![w] = s]
       /\ procState' = procState \cup {s}
  /\ forkCount' = forkCount + 1
  /\ list' = list \cup {w}
  /\ state' = [state EXCEPT ![w] = "running"]
  /\ curChildren' = curChildren + 1
  /\ proc' = [proc EXCEPT ![w] = "start"]
  /\ term' = [term EXCEPT ![w] = "STOP" \in events]
  /\ listening' = [listening EXCEPT ![w] = TRUE]
  /\ UNCHANGED <<gpc, gret, running, delay, events, knows, instVars, incidents>>

\* fork() or the memory for the black board fails; the loop tries again.
StartChildFails ==
  /\ gpc = "fork" /\ curChildren < NumChildren
  /\ Incident
  /\ forkCount' = forkCount + 1
  /\ UNCHANGED <<gpc, gret, running, delay, events, childVars, workerVars,
                 instVars>>

\* Fault: a child that is CP_SHUTDOWN gives its slot back a second time.
FaultChildDead(w) ==
  /\ proc[w] = "zombie"
  /\ procState' = procState \ {slot[w]}
  /\ curChildren' = curChildren - 1
  /\ list' = list \ {w}
  /\ state' = [state EXCEPT ![w] = "running"]
  /\ slot' = [slot EXCEPT ![w] = 0]
  /\ proc' = [proc EXCEPT ![w] = "none"]
  /\ knows' = [knows EXCEPT ![w] = FALSE]
  /\ UNCHANGED <<term, listening>>

\* childDead: waitpid has returned the process of w.  (What the pool keeps of a
\* recycled object is set anew by startChild.)
ChildDead(w) ==
  /\ proc[w] = "zombie"
  /\ procState' = IF state[w] = "running" THEN procState \ {slot[w]} ELSE procState
  /\ curChildren' = IF state[w] = "running" THEN curChildren - 1 ELSE curChildren
  /\ list' = list \ {w}
  /\ state' = [state EXCEPT ![w] = "running"]
  /\ slot' = [slot EXCEPT ![w] = 0]
  /\ proc' = [proc EXCEPT ![w] = "none"]
  /\ knows' = [knows EXCEPT ![w] = FALSE]
  /\ UNCHANGED <<term, listening>>

\* broadcastSig(SIGTERM, ...): a worker that lingers already, or is dead, is
\* not changed by the signal.
Terminate ==
  term' = [w \in Workers |->
             IF w \in list /\ proc[w] \in {"start", "loop"} THEN TRUE ELSE term[w]]

\* Fault: children that were told before are counted again.
FaultShutdownChildren ==
  /\ state' = [w \in Workers |-> IF w \in list THEN "shutdown" ELSE state[w]]
  /\ procState' = procState \ {slot[w] : w \in list}
  /\ curChildren' = curChildren - Cardinality(list)
  /\ UNCHANGED <<list, slot>>

\* ... with changeState: the children give their slots back.
ShutdownChildren ==
  /\ state' = [w \in Workers |-> IF w \in list THEN "shutdown" ELSE state[w]]
  /\ procState' = procState \ {slot[w] : w \in Current}
  /\ curChildren' = curChildren - Cardinality(Current)
  /\ UNCHANGED <<list, slot>>

-----------------------------------------------------------------------------
(* The loop of guardCrash. *)

\* Fault: forking stays suspended.
FaultWindowOver ==
  /\ gpc = "top" /\ running > 0
  /\ gpc' = "poll" /\ forkCount' = IF forkCount = -1 THEN -1 ELSE 0
  /\ GuardOnly /\ UNCHANGED <<gret, running, delay>>

\* 60 seconds have passed since the count of forks was reset; this turn of the
\* loop does not fork.
WindowOver ==
  /\ gpc = "top" /\ running > 0
  /\ forkCount' = 0 /\ gpc' = "poll"
  /\ GuardOnly /\ UNCHANGED <<gret, running, delay>>

\* Less than 60 seconds: fork, suspend forking, or leave it suspended.
ForkCheck ==
  /\ gpc = "top" /\ running > 0
  /\ forkCount' = IF forkCount > ForkLimit THEN -1 ELSE forkCount
  /\ gpc' = IF forkCount \in 0..ForkLimit THEN "fork" ELSE "poll"
  /\ GuardOnly /\ UNCHANGED <<gret, running, delay>>

\* The inner loop ends when all children run.
ForkDone ==
  /\ gpc = "fork" /\ ~(curChildren < NumChildren)
  /\ gpc' = "poll"
  /\ GuardOnly /\ UNCHANGED <<gret, running, delay, forkCount>>

\* poll() returns a descriptor: a command of a child or its error log, which
\* do not concern the children.  The signals wait for another turn.
PollInput ==
  /\ gpc = "poll" /\ gpc' = "top"
  /\ GuardOnly /\ UNCHANGED <<gret, running, delay, forkCount>>

\* The administrator's socket: a new configuration is applied (applyChanges).
\* The pool makes a new ChildProc when it is empty, so the bound is on Workers.
PollReload ==
  /\ gpc = "poll" /\ gpc' = "top"
  /\ Incident
  /\ Cardinality(list) + NumChildren <= Cardinality(Workers)
  /\ Terminate /\ ShutdownChildren
  /\ UNCHANGED <<gret, running, delay, forkCount, events, proc, knows, listening,
                 instVars>>

\* ... or a restart is asked for.
PollRestart ==
  /\ gpc = "poll" /\ gpc' = "mark" /\ gret' = "top"
  /\ Incident
  /\ UNCHANGED <<running, delay, forkCount, events, childVars, workerVars, instVars>>

\* poll() times out or is interrupted: the signals are looked at.
PollIdle ==
  /\ gpc = "poll"
  /\ gpc' = IF events = {} THEN "delay" ELSE "alarm"
  /\ GuardOnly /\ UNCHANGED <<gret, running, delay, forkCount>>

-----------------------------------------------------------------------------
(* processSignal: one step for each test of a bit. *)

\* onGuardTimer: the clock of the guard goes on by at least a second.
TestAlarm ==
  /\ gpc = "alarm" /\ gpc' = "stop"
  /\ IF "ALARM" \in events /\ delay > 1
       THEN delay' \in 1..delay - 1
       ELSE UNCHANGED delay
  /\ GuardOnly /\ UNCHANGED <<gret, running, forkCount>>

\* ... which restarts the server when the pid file is somebody else's or a
\* child has asked for it.
TestAlarmRestart ==
  /\ gpc = "alarm" /\ "ALARM" \in events
  /\ gpc' = "mark" /\ gret' = "stop"
  /\ Incident
  /\ UNCHANGED <<running, delay, forkCount, events, childVars, workerVars, instVars>>

TestStop ==
  /\ gpc = "stop" /\ gpc' = "usr1"
  /\ running' = IF "STOP" \in events THEN -1 ELSE running
  /\ GuardOnly /\ UNCHANGED <<gret, delay, forkCount>>

TestUsr1 ==
  /\ gpc = "usr1"
  /\ IF "USR1" \in events
       THEN gpc' = "mark" /\ gret' = "hup"
       ELSE gpc' = "hup" /\ UNCHANGED gret
  /\ GuardOnly /\ UNCHANGED <<running, delay, forkCount>>

TestHup ==
  /\ gpc = "hup" /\ gpc' = "child"
  /\ delay' = IF "HUP" \in events THEN 3 ELSE delay
  /\ GuardOnly /\ UNCHANGED <<gret, running, forkCount>>

TestChild ==
  /\ gpc = "child"
  /\ gpc' = IF "CHILD" \in events THEN "wait" ELSE "reset"
  /\ GuardOnly /\ UNCHANGED <<gret, running, delay, forkCount>>

\* A turn of waitChildren, and its end.
WaitChild(w) ==
  /\ gpc = "wait"
  /\ ChildDead(w)
  /\ UNCHANGED <<guardVars, events, instVars, incidents>>

WaitDone ==
  /\ gpc = "wait" /\ \A w \in Workers : proc[w] # "zombie"
  /\ gpc' = "reset"
  /\ GuardOnly /\ UNCHANGED <<gret, running, delay, forkCount>>

\* resetEvents: also what came after its test is cleared.
Reset ==
  /\ gpc = "reset" /\ gpc' = "delay"
  /\ events' = {}
  /\ UNCHANGED <<gret, running, delay, forkCount, childVars, workerVars, instVars,
                 incidents>>

DelayCheck ==
  /\ gpc = "delay" /\ gpc' = "top"
  /\ running' = IF delay = 1 THEN -1 ELSE running
  /\ GuardOnly /\ UNCHANGED <<gret, delay, forkCount>>

-----------------------------------------------------------------------------
(* gracefulRestart, in the order the workers can observe. *)

\* Fault: the mark file is not made.
FaultRestartMark ==
  /\ gpc = "mark" /\ gpc' = "broadcast"
  /\ GuardOnly /\ UNCHANGED <<gret, running, delay, forkCount>>

RestartMark ==
  /\ gpc = "mark" /\ gpc' = "broadcast"
  /\ mark' = TRUE
  /\ UNCHANGED <<gret, running, delay, forkCount, events, childVars, workerVars,
                 starting, ready, incidents>>

RestartBroadcast ==
  /\ gpc = "broadcast" /\ gpc' = "newinst"
  /\ Terminate /\ ShutdownChildren
  /\ delay' = 0 /\ running' = 0
  /\ UNCHANGED <<gret, forkCount, events, proc, knows, listening, instVars, incidents>>

\* The new instance is forked, or "Failed to restart the server!".
RestartFork ==
  /\ gpc = "newinst" /\ gpc' = gret
  /\ \/ starting' = TRUE /\ UNCHANGED incidents
     \/ Incident /\ UNCHANGED starting
  /\ UNCHANGED <<gret, running, delay, forkCount, events, childVars, workerVars,
                 mark, ready>>

\* The new instance (another process) is ready and removes the mark, or fails.
NewInstance ==
  /\ starting /\ starting' = FALSE
  /\ \/ mark' = FALSE /\ ready' = TRUE /\ UNCHANGED incidents
     \/ /\ Incident
        /\ UNCHANGED <<mark, ready>>
  /\ UNCHANGED <<guardVars, events, childVars, workerVars>>

-----------------------------------------------------------------------------
(* The end of guardCrash: stopAllChildren, then exit(). *)

StopAll ==
  /\ gpc = "top" /\ running <= 0
  /\ gpc' = IF list = {} THEN "exited" ELSE "sleep"
  /\ Terminate
  /\ UNCHANGED <<gret, running, delay, forkCount, events, childVars, proc, knows,
                 listening, instVars, incidents>>

\* The loop that sleeps and waits for the children ...
StopWait(w) ==
  /\ gpc = "sleep"
  /\ ChildDead(w)
  /\ UNCHANGED <<guardVars, events, instVars, incidents>>

\* Fault: no time limit for the children.
FaultStopEnd ==
  /\ list = {}
  /\ gpc = "sleep" /\ gpc' = "exited"
  /\ UNCHANGED <<gret, running, delay, forkCount, events, childVars, workerVars,
                 instVars, incidents>>

\* ... until all have ended or 10 (300 for a restart) seconds are over; then
\* SIGKILL ends those that are left.
StopEnd ==
  /\ gpc = "sleep" /\ gpc' = "exited"
  /\ proc' = [w \in Workers |-> IF w \in list THEN "zombie" ELSE proc[w]]
  /\ term' = [w \in Workers |-> FALSE]
  /\ listening' = [w \in Workers |-> FALSE]
  /\ UNCHANGED <<gret, running, delay, forkCount, events, childVars, knows, instVars,
                 incidents>>

-----------------------------------------------------------------------------
(* A worker: HttpServerImpl::start, EventDispatcher::run and linger. *)

\* The worker enters its event loop; run() takes whoever is its parent now for
\* the guard.
WorkerStart(w) ==
  /\ proc[w] = "start"
  /\ proc' = [proc EXCEPT ![w] = "loop"]
  /\ knows' = [knows EXCEPT ![w] = gpc \notin Gone]
  /\ UNCHANGED <<guardVars, events, childVars, term, listening, instVars, incidents>>

\* The loop sees HS_STOP; gracefulShutdown closes the listeners unless a
\* graceful restart is going on.
WorkerStop(w) ==
  /\ proc[w] = "loop" /\ term[w]
  /\ proc' = [proc EXCEPT ![w] = "linger"]
  /\ term' = [term EXCEPT ![w] = FALSE]
  /\ listening' = [listening EXCEPT ![w] = mark]
  /\ UNCHANGED <<guardVars, events, childVars, knows, instVars, incidents>>

\* SIGTERM arrives after the loop has read another bit of s_iEvents and before
\* it clears all of them.
WorkerStopLost(w) ==
  /\ proc[w] = "loop" /\ term[w]
  /\ term' = [term EXCEPT ![w] = FALSE]
  /\ UNCHANGED <<guardVars, events, childVars, proc, knows, listening, instVars,
                 incidents>>

\* processTimerNew: the parent has changed.
WorkerOrphaned(w) ==
  /\ proc[w] = "loop" /\ ~term[w]
  /\ knows[w] /\ gpc \in Gone
  /\ term' = [term EXCEPT ![w] = TRUE]
  /\ UNCHANGED <<guardVars, events, childVars, proc, knows, listening, instVars,
                 incidents>>

\* linger() notices that the new instance is ready.
WorkerLinger(w) ==
  /\ proc[w] = "linger" /\ listening[w] /\ ~mark
  /\ listening' = [listening EXCEPT ![w] = FALSE]
  /\ UNCHANGED <<guardVars, events, childVars, proc, term, knows, instVars, incidents>>

\* The end of a process, which the kernel reports to the guard.
Die(w) ==
  /\ proc' = [proc EXCEPT ![w] = "zombie"]
  /\ term' = [term EXCEPT ![w] = FALSE]
  /\ listening' = [listening EXCEPT ![w] = FALSE]
  /\ events' = IF gpc \in Gone THEN events ELSE events \cup {"CHILD"}
  /\ UNCHANGED <<guardVars, childVars, knows, instVars>>

\* linger() ends with the last connection or after its time limit.
WorkerExit(w) ==
  /\ proc[w] = "linger"
  /\ Die(w)
  /\ UNCHANGED incidents

WorkerCrash(w) ==
  /\ proc[w] \in Alive
  /\ Incident
  /\ Die(w)

-----------------------------------------------------------------------------
(* Signals to the guard. *)

Signal(sig) ==
  /\ gpc \notin Gone /\ sig \notin events
  /\ Incident
  /\ events' = events \cup {sig}
  /\ UNCHANGED <<guardVars, childVars, workerVars, instVars>>

\* The timer of one second.  A tick at another place comes too early or too
\* late for its test, which is like one here or none.
Tick ==
  /\ gpc = "poll" /\ "ALARM" \notin events
  /\ events' = events \cup {"ALARM"}
  /\ UNCHANGED <<guardVars, childVars, workerVars, instVars, incidents>>

\* SIGKILL, for instance from the script lswsctrl after 14 seconds.
GuardCrash ==
  /\ gpc \notin Gone /\ gpc' = "crashed"
  /\ Incident
  /\ UNCHANGED <<gret, running, delay, forkCount, events, childVars, workerVars,
                 instVars>>

-----------------------------------------------------------------------------
Loop ==
  \/ ForkCheck \/ (\E w \in Workers : StartChild(w)) \/ StartChildFails \/ ForkDone
  \/ PollInput \/ PollReload \/ PollRestart

ProcessSignal ==
  \/ TestAlarm \/ TestAlarmRestart \/ TestStop \/ TestUsr1 \/ TestHup \/ TestChild
  \/ (\E w \in Workers : WaitChild(w)) \/ WaitDone \/ Reset \/ DelayCheck

GracefulRestart == RestartMark \/ RestartBroadcast \/ RestartFork

StopChildren == StopAll \/ (\E w \in Workers : StopWait(w)) \/ StopEnd

Guard ==
  \/ WindowOver \/ Loop \/ PollIdle \/ ProcessSignal \/ GracefulRestart \/ StopChildren

Worker(w) ==
  \/ WorkerStart(w) \/ WorkerStop(w) \/ WorkerStopLost(w) \/ WorkerOrphaned(w)
  \/ WorkerLinger(w) \/ WorkerExit(w) \/ WorkerCrash(w)

Next ==
  \/ Guard
  \/ \E w \in Workers : Worker(w)
  \/ NewInstance
  \/ \E sig \in {"STOP", "USR1", "HUP"} : Signal(sig)
  \/ Tick \/ GuardCrash

\* The guard runs, its descriptors are not ready for ever, its timer ticks and
\* 60 seconds pass again and again, but not in each turn; a worker reaches its
\* loop, sees a signal that keeps coming, looks at its parent every second and
\* does not linger for ever.
Fairness ==
  /\ WF_vars(Guard) /\ SF_vars(PollIdle) /\ SF_vars(Tick)
  /\ SF_vars(WindowOver) /\ SF_vars(ForkCheck)
  /\ \A w \in Workers :
       /\ WF_vars(WorkerStart(w)) /\ SF_vars(WorkerStop(w))
       /\ WF_vars(WorkerOrphaned(w)) /\ WF_vars(WorkerExit(w))

Spec == Init /\ [][Next]_vars /\ Fairness

-----------------------------------------------------------------------------
(* Properties. *)

ControlTypes ==
  /\ gpc \in {"top", "fork", "poll", "alarm", "stop", "usr1", "hup", "child", "wait",
              "reset", "delay", "mark", "broadcast", "newinst", "sleep"} \cup Gone
  /\ gret \in {"top", "stop", "hup"}
  /\ events \subseteq Signals
  /\ running \in -1..1 /\ delay \in 0..3
  /\ forkCount \in Nat \cup {-1}
  /\ incidents \in 0..MaxIncidents

ChildTypes ==
  /\ curChildren \in 0..NumChildren
  /\ procState \subseteq 1..NumChildren
  /\ list \subseteq Workers
  /\ state \in [Workers -> {"running", "shutdown"}]
  /\ slot \in [Workers -> 0..NumChildren]
  /\ proc \in [Workers -> {"none", "zombie"} \cup Alive]

FlagTypes ==
  /\ term \in [Workers -> BOOLEAN] /\ knows \in [Workers -> BOOLEAN]
  /\ listening \in [Workers -> BOOLEAN]
  /\ mark \in BOOLEAN /\ starting \in BOOLEAN /\ ready \in BOOLEAN

\* Types and ranges; m_curChildren stays between 0 and iNumChildren.
TypeOK == ControlTypes /\ ChildTypes /\ FlagTypes

\* The counter, the slots and the list of the guard agree whatever the order of
\* deaths, reloads and restarts: each running child has a slot of its own
\* (it selects the worker's sockets and CPUs), no process is forgotten, and
\* none survives the guard's orderly exit.
ChildrenAccounted ==
  /\ curChildren = Cardinality(Current)
  /\ procState = {slot[w] : w \in Current}
  /\ \A v, w \in Current : slot[v] = slot[w] => v = w
  /\ gpc \notin Gone => \A w \in Workers : proc[w] # "none" <=> w \in list
  /\ gpc = "exited" => \A w \in Workers : proc[w] \notin Alive

\* Nobody refuses connections during a graceful restart: a worker that is still
\* there closes its listeners only when a new instance has been ready.
ListenersKept ==
  [][\A w \in Workers :
       running = 0 /\ listening[w] /\ ~listening'[w] /\ proc'[w] \in Alive => ready]_vars

\* A SIGTERM or SIGHUP that arrives before the guard tests for it ends the
\* server - not one that arrives between the test and resetEvents - and when
\* the guard is gone every worker that had seen it as its parent ends.
ServerStops ==
  LET early == {"top", "fork", "poll", "alarm", "stop"}
  IN /\ (gpc \in early /\ events \cap {"STOP", "HUP"} # {}) ~> (gpc \in Gone)
     /\ \A w \in Workers :
          (gpc \in Gone /\ knows[w] /\ proc[w] \in Alive) ~> (proc[w] \notin Alive)

\* A guard that knows of missing workers starts them, also after it has
\* suspended forking because children kept dying.
CrewRestored ==
  (curChildren < NumChildren /\ running = 1) ~>
    (curChildren = NumChildren \/ running <= 0 \/ gpc \in Gone)
=============================================================================
