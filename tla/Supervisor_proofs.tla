-------------------------- MODULE Supervisor_proofs --------------------------
(***************************************************************************)
(* The books of the guard and the gap-free restart, for any number of      *)
(* workers, slots and incidents.                                           *)
(***************************************************************************)
EXTENDS Supervisor, FiniteSetTheorems, TLAPS

\* From the moment the mark file is made until a new instance is ready the
\* mark is there.
MarkInv == (gpc = "broadcast" \/ running = 0) => (mark \/ ready)

IInv == TypeOK /\ ChildrenAccounted /\ MarkInv

\* The children that serve are finitely many.
LEMMA CurrentFinite ==
  ASSUME TypeOK
  PROVE  /\ IsFiniteSet(Current)
         /\ Cardinality(Current) \in Nat
<1>1. Current \in SUBSET Workers
  BY DEF TypeOK, ChildTypes, Current
<1>2. IsFiniteSet(Current)
  BY <1>1, FS_Subset, SupervisorAssumption
<1> QED BY <1>2, FS_CardinalityType

\* The guard starts without children.
LEMMA InitIInv == Init => IInv
<1> SUFFICES ASSUME Init PROVE IInv
  OBVIOUS
<1>1. TypeOK
  <2>1. ControlTypes
    BY SupervisorAssumption DEF Init, ControlTypes
  <2>2. ChildTypes
    BY SupervisorAssumption DEF Init, ChildTypes
  <2>3. FlagTypes
    BY DEF Init, FlagTypes
  <2> QED BY <2>1, <2>2, <2>3 DEF TypeOK
<1>2. Current = {}
  BY DEF Init, Current
<1>3. ChildrenAccounted
  BY <1>2, FS_EmptySet DEF Init, ChildrenAccounted, Gone
<1>4. MarkInv
  BY DEF Init, MarkInv
<1> QED BY <1>1, <1>3, <1>4 DEF IInv

\* A step of the guard that leaves its children and their processes alone.
LEMMA QuietKeepsBooks ==
  ASSUME IInv, UNCHANGED <<childVars, proc>>, gpc \notin Gone, gpc' # "exited"
  PROVE  ChildrenAccounted'
BY DEF IInv, ChildrenAccounted, childVars, Current, Gone

\* A step of a process that lives.
LEMMA WorkerKeepsBooks ==
  ASSUME IInv, UNCHANGED <<childVars, gpc>>, NEW w \in Workers, proc[w] \in Alive,
         NEW p \in {"start", "loop", "linger", "zombie"},
         proc' = [proc EXCEPT ![w] = p]
  PROVE  ChildrenAccounted'
<1>1. gpc # "exited"
  BY DEF IInv, ChildrenAccounted
<1>2. \A v \in Workers : proc'[v] # "none" <=> proc[v] # "none"
  BY DEF IInv, TypeOK, ChildTypes, Alive
<1> QED BY <1>1, <1>2 DEF IInv, ChildrenAccounted, childVars, Current, Gone

\* childDead: the slot of a serving child becomes free and only that one.
LEMMA ReapKeepsBooks ==
  ASSUME IInv, NEW w \in Workers, ChildDead(w), gpc \notin Gone, gpc' = gpc
  PROVE  ChildrenAccounted'
<1>1. w \in list
  BY DEF IInv, ChildrenAccounted, ChildDead
<1>2. Current' = Current \ {w}
  BY DEF IInv, TypeOK, ChildTypes, ChildDead, Current
<1>3. w \in Current <=> state[w] = "running"
  BY <1>1 DEF Current
<1>4. curChildren' = Cardinality(Current')
  BY <1>2, <1>3, CurrentFinite, FS_RemoveElement DEF IInv, ChildrenAccounted, ChildDead
<1>5. \A v \in Current' : v \in Current /\ v # w /\ v \in Workers /\ slot'[v] = slot[v]
  BY <1>2 DEF IInv, TypeOK, ChildTypes, ChildDead, Current
<1>6. procState' = {slot'[v] : v \in Current'}
  <2>1. CASE state[w] = "running"
    <3>1. procState' = {slot[v] : v \in Current} \ {slot[w]}
      BY <2>1 DEF IInv, ChildrenAccounted, ChildDead
    <3>2. \A v \in Current : v # w => slot[v] # slot[w]
      BY <1>3, <2>1 DEF IInv, ChildrenAccounted
    <3> QED BY <1>2, <1>5, <3>1, <3>2
  <2>2. CASE state[w] # "running"
    <3>1. Current' = Current
      BY <1>2, <1>3, <2>2
    <3>2. procState' = {slot[v] : v \in Current}
      BY <2>2 DEF IInv, ChildrenAccounted, ChildDead
    <3> QED BY <1>5, <3>1, <3>2
  <2> QED BY <2>1, <2>2
<1>7. \A u, v \in Current' : slot'[u] = slot'[v] => u = v
  BY <1>5 DEF IInv, ChildrenAccounted
<1>8. \A v \in Workers : proc'[v] # "none" <=> v \in list'
  BY DEF IInv, TypeOK, ChildTypes, ChildrenAccounted, ChildDead
<1>9. gpc' # "exited"
  BY DEF Gone
<1> QED BY <1>4, <1>6, <1>7, <1>8, <1>9 DEF ChildrenAccounted

\* broadcastSig with changeState: all slots become free.
LEMMA ShutdownKeepsBooks ==
  ASSUME IInv, ShutdownChildren, gpc \notin Gone, gpc' \notin Gone, proc' = proc
  PROVE  /\ ChildrenAccounted'
         /\ curChildren' = 0 /\ procState' = {}
<1>1. Current' = {}
  BY DEF IInv, TypeOK, ChildTypes, ShutdownChildren, Current
<1>2. curChildren' = 0
  BY CurrentFinite DEF IInv, ChildrenAccounted, ShutdownChildren
<1>3. procState' = {}
  BY DEF IInv, ChildrenAccounted, ShutdownChildren
<1>4. \A v \in Workers : proc'[v] # "none" <=> v \in list'
  BY DEF IInv, ChildrenAccounted, ShutdownChildren
<1>5. gpc' # "exited"
  BY DEF Gone
<1>6. curChildren' = Cardinality(Current')
  BY <1>1, <1>2, FS_EmptySet
<1>7. procState' = {slot'[w] : w \in Current'}
  BY <1>1, <1>3
<1>8. \A v, w \in Current' : slot'[v] = slot'[w] => v = w
  BY <1>1
<1> QED BY <1>2, <1>3, <1>4, <1>5, <1>6, <1>7, <1>8 DEF ChildrenAccounted

\* startChild: the new child takes a slot nobody has.
LEMMA StartKeepsBooks ==
  ASSUME IInv, NEW w \in Workers, StartChild(w)
  PROVE  ChildrenAccounted'
<1>0. PICK s \in 1..NumChildren :
        /\ FirstAvailSlot(s)
        /\ slot' = [slot EXCEPT ![w] = s]
        /\ procState' = procState \cup {s}
  BY DEF StartChild
<1>1. Current' = Current \cup {w} /\ w \notin Current
  BY DEF IInv, TypeOK, ChildTypes, StartChild, Current
<1>2. curChildren' = Cardinality(Current')
  BY <1>1, CurrentFinite, FS_AddElement DEF IInv, ChildrenAccounted, StartChild
<1>3. slot'[w] = s /\ \A v \in Current : slot'[v] = slot[v]
  BY <1>0, <1>1 DEF IInv, TypeOK, ChildTypes, Current
<1>4. procState' = {slot'[v] : v \in Current'}
  BY <1>0, <1>1, <1>3 DEF IInv, ChildrenAccounted
<1>5. \A v \in Current : slot[v] # s
  BY <1>0 DEF IInv, ChildrenAccounted, FirstAvailSlot
<1>6. \A u, v \in Current' : slot'[u] = slot'[v] => u = v
  BY <1>1, <1>3, <1>5 DEF IInv, ChildrenAccounted
<1>7. gpc \notin Gone /\ gpc' = gpc /\ gpc' # "exited"
  BY DEF StartChild, Gone
<1>8. \A v \in Workers : proc'[v] # "none" <=> v \in list'
  BY <1>7 DEF IInv, TypeOK, ChildTypes, ChildrenAccounted, StartChild
<1> QED BY <1>2, <1>4, <1>6, <1>7, <1>8 DEF ChildrenAccounted

\* The guard leaves: nobody is in the list, or SIGKILL ends those who are.
LEMMA ExitKeepsBooks ==
  ASSUME IInv, StopAll \/ StopEnd
  PROVE  ChildrenAccounted'
<1>1. CASE StopAll /\ list # {}
  BY <1>1, QuietKeepsBooks DEF StopAll, Gone, childVars
<1>2. CASE StopAll /\ list = {}
  BY <1>2 DEF StopAll, IInv, ChildrenAccounted, childVars, Current, Gone, Alive
<1>3. CASE StopEnd
  <2>1. \A w \in Workers : proc'[w] \in {"none", "zombie"}
    BY <1>3 DEF StopEnd, IInv, ChildrenAccounted, Gone
  <2> QED BY <1>3, <2>1 DEF StopEnd, IInv, ChildrenAccounted, childVars, Current, Gone, Alive
<1> QED BY <1>1, <1>2, <1>3

\* The steps of the guard that leave children and workers alone keep the types.
LEMMA GuardKeepsTypes ==
  ASSUME IInv,
         \/ WindowOver \/ ForkCheck \/ StartChildFails \/ ForkDone
         \/ PollInput \/ PollRestart \/ PollIdle
         \/ TestAlarm \/ TestAlarmRestart \/ TestStop \/ TestUsr1 \/ TestHup \/ TestChild
         \/ WaitDone \/ Reset \/ DelayCheck
         \/ RestartMark \/ RestartFork \/ NewInstance
  PROVE  TypeOK' /\ MarkInv' /\ UNCHANGED <<childVars, proc>>
<1> USE DEF childVars, workerVars, instVars, guardVars, GuardOnly, Incident
<1>1. UNCHANGED <<childVars, workerVars>>
  <2>1. CASE WindowOver \/ ForkCheck \/ StartChildFails \/ ForkDone
    BY <2>1 DEF WindowOver, ForkCheck, StartChildFails, ForkDone
  <2>2. CASE PollInput \/ PollRestart \/ PollIdle
    BY <2>2 DEF PollInput, PollRestart, PollIdle
  <2>3. CASE TestAlarm \/ TestAlarmRestart
    BY <2>3 DEF TestAlarm, TestAlarmRestart
  <2>4. CASE TestStop \/ TestUsr1 \/ TestHup \/ TestChild
    BY <2>4 DEF TestStop, TestUsr1, TestHup, TestChild
  <2>5. CASE WaitDone \/ Reset \/ DelayCheck
    BY <2>5 DEF WaitDone, Reset, DelayCheck
  <2>6. CASE RestartMark \/ RestartFork \/ NewInstance
    BY <2>6 DEF RestartMark, RestartFork, NewInstance
  <2> QED BY <2>1, <2>2, <2>3, <2>4, <2>5, <2>6
<1>2. ControlTypes'
  <2> USE SupervisorAssumption DEF IInv, TypeOK, ControlTypes
  <2>1. CASE WindowOver \/ ForkCheck \/ StartChildFails \/ ForkDone
    BY <2>1 DEF WindowOver, ForkCheck, StartChildFails, ForkDone
  <2>2. CASE PollInput \/ PollRestart \/ PollIdle
    BY <2>2 DEF PollInput, PollRestart, PollIdle
  <2>3. CASE TestAlarm \/ TestAlarmRestart
    BY <2>3 DEF TestAlarm, TestAlarmRestart
  <2>4. CASE TestStop \/ TestUsr1 \/ TestHup \/ TestChild
    BY <2>4 DEF TestStop, TestUsr1, TestHup, TestChild
  <2>5. CASE WaitDone \/ Reset \/ DelayCheck
    BY <2>5 DEF WaitDone, Reset, DelayCheck
  <2>6. CASE RestartMark \/ RestartFork \/ NewInstance
    BY <2>6 DEF RestartMark, RestartFork, NewInstance
  <2> QED BY <2>1, <2>2, <2>3, <2>4, <2>5, <2>6
<1>3. ChildTypes'
  BY <1>1 DEF IInv, TypeOK, ChildTypes
<1>4. FlagTypes'
  <2>1. mark' \in BOOLEAN /\ starting' \in BOOLEAN /\ ready' \in BOOLEAN
    <3> USE DEF IInv, TypeOK, FlagTypes
    <3>1. CASE WindowOver \/ ForkCheck \/ StartChildFails \/ ForkDone
      BY <3>1 DEF WindowOver, ForkCheck, StartChildFails, ForkDone
    <3>2. CASE PollInput \/ PollRestart \/ PollIdle
      BY <3>2 DEF PollInput, PollRestart, PollIdle
    <3>3. CASE TestAlarm \/ TestAlarmRestart
      BY <3>3 DEF TestAlarm, TestAlarmRestart
    <3>4. CASE TestStop \/ TestUsr1 \/ TestHup \/ TestChild
      BY <3>4 DEF TestStop, TestUsr1, TestHup, TestChild
    <3>5. CASE WaitDone \/ Reset \/ DelayCheck
      BY <3>5 DEF WaitDone, Reset, DelayCheck
    <3>6. CASE RestartMark \/ RestartFork \/ NewInstance
      BY <3>6 DEF RestartMark, RestartFork, NewInstance
    <3> QED BY <3>1, <3>2, <3>3, <3>4, <3>5, <3>6
  <2> QED BY <1>1, <2>1 DEF IInv, TypeOK, FlagTypes
<1>5. MarkInv'
  <2> USE DEF IInv, MarkInv
  <2>1. CASE WindowOver \/ ForkCheck \/ StartChildFails \/ ForkDone
    BY <2>1 DEF WindowOver, ForkCheck, StartChildFails, ForkDone
  <2>2. CASE PollInput \/ PollRestart \/ PollIdle
    BY <2>2 DEF PollInput, PollRestart, PollIdle
  <2>3. CASE TestAlarm \/ TestAlarmRestart
    BY <2>3 DEF TestAlarm, TestAlarmRestart
  <2>4. CASE TestStop \/ TestUsr1 \/ TestHup \/ TestChild
    BY <2>4 DEF TestStop, TestUsr1, TestHup, TestChild
  <2>5. CASE WaitDone \/ Reset \/ DelayCheck
    BY <2>5 DEF WaitDone, Reset, DelayCheck
  <2>6. CASE RestartMark \/ RestartFork \/ NewInstance
    <3>1. gret # "broadcast"
      BY DEF TypeOK, ControlTypes
    <3> QED BY <2>6, <3>1 DEF RestartMark, RestartFork, NewInstance
  <2> QED BY <2>1, <2>2, <2>3, <2>4, <2>5, <2>6
<1> QED BY <1>1, <1>2, <1>3, <1>4, <1>5 DEF TypeOK

\* ... those that start, tell, reap or kill children ...
LEMMA ChildrenKeepTypes ==
  ASSUME IInv,
         \/ \E w \in Workers : StartChild(w) \/ WaitChild(w) \/ StopWait(w)
         \/ PollReload \/ RestartBroadcast \/ StopAll \/ StopEnd
  PROVE  TypeOK' /\ MarkInv' /\ ChildrenAccounted'
<1> USE SupervisorAssumption
    DEF childVars, workerVars, instVars, guardVars, Gone, Incident
<1>1. CASE \E w \in Workers : StartChild(w)
  <2>1. PICK w \in Workers : StartChild(w)
    BY <1>1
  <2>2. ControlTypes'
    BY <2>1 DEF StartChild, IInv, TypeOK, ControlTypes
  <2>3. ChildTypes'
    BY <2>1 DEF StartChild, IInv, TypeOK, ChildTypes, Alive
  <2>4. FlagTypes'
    BY <2>1 DEF StartChild, IInv, TypeOK, FlagTypes
  <2>5. MarkInv'
    BY <2>1 DEF StartChild, IInv, MarkInv
  <2> QED BY <2>1, <2>2, <2>3, <2>4, <2>5, StartKeepsBooks DEF TypeOK
<1>2. CASE \E w \in Workers : WaitChild(w) \/ StopWait(w)
  <2>1. PICK w \in Workers : WaitChild(w) \/ StopWait(w)
    BY <1>2
  <2>2. ChildDead(w) /\ gpc \notin Gone /\ gpc' = gpc
    BY <2>1 DEF WaitChild, StopWait
  <2>3. ChildrenAccounted'
    BY <2>2, ReapKeepsBooks
  <2>4. curChildren' \in 0..NumChildren
    <3>1. w \in list
      BY <2>2 DEF IInv, ChildrenAccounted, ChildDead
    <3>2. state[w] = "running" => Current # {}
      BY <3>1 DEF Current
    <3>3. state[w] = "running" => curChildren # 0
      BY <3>2, CurrentFinite, FS_EmptySet DEF IInv, ChildrenAccounted
    <3> QED BY <2>2, <3>3 DEF IInv, TypeOK, ChildTypes, ChildDead
  <2>5. ControlTypes'
    BY <2>1 DEF WaitChild, StopWait, IInv, TypeOK, ControlTypes
  <2>6. ChildTypes'
    <3>1. procState' \subseteq 1..NumChildren /\ list' \subseteq Workers
      BY <2>2 DEF ChildDead, IInv, TypeOK, ChildTypes
    <3>2. slot' \in [Workers -> 0..NumChildren]
      BY <2>2, SupervisorAssumption DEF ChildDead, IInv, TypeOK, ChildTypes
    <3>3. /\ state' \in [Workers -> {"running", "shutdown"}]
          /\ proc' \in [Workers -> {"none", "zombie"} \cup Alive]
      BY <2>2 DEF ChildDead, IInv, TypeOK, ChildTypes
    <3> QED BY <2>4, <3>1, <3>2, <3>3 DEF ChildTypes
  <2>7. FlagTypes'
    BY <2>1 DEF WaitChild, StopWait, ChildDead, IInv, TypeOK, FlagTypes
  <2>8. MarkInv'
    BY <2>1 DEF WaitChild, StopWait, IInv, MarkInv
  <2> QED BY <2>3, <2>5, <2>6, <2>7, <2>8 DEF TypeOK
<1>3. CASE PollReload
  <2>1. gpc \notin Gone /\ gpc' \notin Gone /\ proc' = proc /\ ShutdownChildren
    BY <1>3 DEF PollReload
  <2>2. ChildrenAccounted' /\ curChildren' = 0 /\ procState' = {}
    BY <2>1, ShutdownKeepsBooks
  <2>3. ControlTypes'
    BY <1>3 DEF PollReload, IInv, TypeOK, ControlTypes
  <2>4. ChildTypes'
    BY <2>1, <2>2 DEF ShutdownChildren, IInv, TypeOK, ChildTypes
  <2>5. FlagTypes'
    BY <1>3 DEF PollReload, Terminate, IInv, TypeOK, FlagTypes
  <2>6. MarkInv'
    BY <1>3 DEF PollReload, IInv, MarkInv
  <2> QED BY <2>2, <2>3, <2>4, <2>5, <2>6 DEF TypeOK
<1>4. CASE RestartBroadcast
  <2>1. gpc \notin Gone /\ gpc' \notin Gone /\ proc' = proc /\ ShutdownChildren
    BY <1>4 DEF RestartBroadcast
  <2>2. ChildrenAccounted' /\ curChildren' = 0 /\ procState' = {}
    BY <2>1, ShutdownKeepsBooks
  <2>3. ControlTypes'
    BY <1>4 DEF RestartBroadcast, IInv, TypeOK, ControlTypes
  <2>4. ChildTypes'
    BY <2>1, <2>2 DEF ShutdownChildren, IInv, TypeOK, ChildTypes
  <2>5. FlagTypes'
    BY <1>4 DEF RestartBroadcast, Terminate, IInv, TypeOK, FlagTypes
  <2>6. MarkInv'
    BY <1>4 DEF RestartBroadcast, IInv, MarkInv
  <2> QED BY <2>2, <2>3, <2>4, <2>5, <2>6 DEF TypeOK
<1>5. CASE StopAll \/ StopEnd
  <2>1. ControlTypes'
    BY <1>5 DEF StopAll, StopEnd, IInv, TypeOK, ControlTypes
  <2>2. ChildTypes'
    BY <1>5 DEF StopAll, StopEnd, IInv, TypeOK, ChildTypes
  <2>3. FlagTypes'
    BY <1>5 DEF StopAll, StopEnd, Terminate, IInv, TypeOK, FlagTypes
  <2>4. MarkInv'
    BY <1>5 DEF StopAll, StopEnd, IInv, MarkInv
  <2> QED BY <1>5, <2>1, <2>2, <2>3, <2>4, ExitKeepsBooks DEF TypeOK
<1> QED BY <1>1, <1>2, <1>3, <1>4, <1>5

\* ... and those of the workers and of the outside.
LEMMA OthersKeepIInv ==
  ASSUME IInv,
         \/ \E w \in Workers : Worker(w)
         \/ \E sig \in {"STOP", "USR1", "HUP"} : Signal(sig)
         \/ Tick \/ GuardCrash
  PROVE  IInv'
<1> USE DEF childVars, workerVars, instVars, guardVars, Incident
<1>1. ASSUME NEW w \in Workers, Worker(w) PROVE IInv'
  <2>1. TypeOK' /\ MarkInv'
    <3>1. CASE WorkerStart(w) \/ WorkerStop(w) \/ WorkerStopLost(w)
      <4> USE DEF WorkerStart, WorkerStop, WorkerStopLost
      <4>1. ControlTypes'
        BY <3>1 DEF IInv, TypeOK, ControlTypes
      <4>2. ChildTypes'
        BY <3>1 DEF IInv, TypeOK, ChildTypes, Alive
      <4>3. FlagTypes' /\ MarkInv'
        BY <3>1 DEF IInv, TypeOK, FlagTypes, MarkInv
      <4> QED BY <4>1, <4>2, <4>3 DEF TypeOK
    <3>2. CASE WorkerOrphaned(w) \/ WorkerLinger(w)
      <4> USE DEF WorkerOrphaned, WorkerLinger
      <4>1. ControlTypes'
        BY <3>2 DEF IInv, TypeOK, ControlTypes
      <4>2. ChildTypes'
        BY <3>2 DEF IInv, TypeOK, ChildTypes
      <4>3. FlagTypes' /\ MarkInv'
        BY <3>2 DEF IInv, TypeOK, FlagTypes, MarkInv
      <4> QED BY <4>1, <4>2, <4>3 DEF TypeOK
    <3>3. CASE WorkerExit(w) \/ WorkerCrash(w)
      <4> USE DEF WorkerExit, WorkerCrash, Die
      <4>1. ControlTypes'
        <5>1. events' \subseteq Signals
          BY <3>3 DEF IInv, TypeOK, ControlTypes, Signals
        <5>2. incidents' \in 0..MaxIncidents
          BY <3>3, SupervisorAssumption DEF IInv, TypeOK, ControlTypes
        <5> QED BY <3>3, <5>1, <5>2 DEF IInv, TypeOK, ControlTypes
      <4>2. ChildTypes'
        BY <3>3 DEF IInv, TypeOK, ChildTypes
      <4>3. FlagTypes' /\ MarkInv'
        BY <3>3 DEF IInv, TypeOK, FlagTypes, MarkInv
      <4> QED BY <4>1, <4>2, <4>3 DEF TypeOK
    <3> QED BY <1>1, <3>1, <3>2, <3>3 DEF Worker
  <2>2. /\ UNCHANGED <<childVars, gpc>> /\ proc[w] \in Alive
        /\ \E p \in {"start", "loop", "linger", "zombie"} : proc' = [proc EXCEPT ![w] = p]
    <3>1. CASE WorkerStart(w) \/ WorkerStop(w)
      BY <3>1 DEF WorkerStart, WorkerStop, Alive
    <3>2. CASE WorkerStopLost(w) \/ WorkerOrphaned(w) \/ WorkerLinger(w)
      <4>1. proc[w] \in {"loop", "linger"} /\ UNCHANGED <<childVars, gpc, proc>>
        BY <3>2 DEF WorkerStopLost, WorkerOrphaned, WorkerLinger
      <4>2. proc' = [proc EXCEPT ![w] = proc[w]]
        BY <4>1 DEF IInv, TypeOK, ChildTypes
      <4> QED BY <4>1, <4>2 DEF Alive
    <3>3. CASE WorkerExit(w) \/ WorkerCrash(w)
      BY <3>3 DEF WorkerExit, WorkerCrash, Die, Alive
    <3> QED BY <1>1, <3>1, <3>2, <3>3 DEF Worker
  <2>3. ChildrenAccounted'
    BY <2>2, WorkerKeepsBooks
  <2> QED BY <2>1, <2>3 DEF IInv
<1>2. CASE (\E sig \in {"STOP", "USR1", "HUP"} : Signal(sig)) \/ Tick \/ GuardCrash
  <2>1. TypeOK' /\ MarkInv'
    <3> USE DEF Signal, Tick, GuardCrash
    <3>1. ControlTypes'
      <4>1. events' \subseteq Signals
        BY <1>2 DEF IInv, TypeOK, ControlTypes, Signals
      <4>2. incidents' \in 0..MaxIncidents
        BY <1>2, SupervisorAssumption DEF IInv, TypeOK, ControlTypes
      <4> QED BY <1>2, <4>1, <4>2 DEF IInv, TypeOK, ControlTypes, Gone
    <3>2. ChildTypes'
      BY <1>2 DEF IInv, TypeOK, ChildTypes
    <3>3. FlagTypes' /\ MarkInv'
      BY <1>2 DEF IInv, TypeOK, FlagTypes, MarkInv
    <3> QED BY <3>1, <3>2, <3>3 DEF TypeOK
  <2>2. UNCHANGED <<childVars, proc>> /\ gpc \notin Gone /\ gpc' # "exited"
    BY <1>2 DEF Signal, Tick, GuardCrash, Gone
  <2>3. ChildrenAccounted'
    BY <2>2, QuietKeepsBooks
  <2> QED BY <2>1, <2>3 DEF IInv
<1> QED BY <1>1, <1>2

\* Every step preserves the invariant.
LEMMA NextIInv == IInv /\ [Next]_vars => IInv'
<1> SUFFICES ASSUME IInv, [Next]_vars PROVE IInv'
  OBVIOUS
<1>1. CASE UNCHANGED vars
  <2> USE <1>1 DEF vars, guardVars, childVars, workerVars, instVars, IInv
  <2>1. TypeOK'
    BY DEF TypeOK, ControlTypes, ChildTypes, FlagTypes
  <2>2. ChildrenAccounted' /\ MarkInv'
    BY DEF ChildrenAccounted, MarkInv, Current
  <2> QED BY <2>1, <2>2
<1>2. CASE \/ WindowOver \/ ForkCheck \/ StartChildFails \/ ForkDone
           \/ PollInput \/ PollRestart \/ PollIdle
           \/ TestAlarm \/ TestAlarmRestart \/ TestStop \/ TestUsr1 \/ TestHup \/ TestChild
           \/ WaitDone \/ Reset \/ DelayCheck
           \/ RestartMark \/ RestartFork
  <2>1. TypeOK' /\ MarkInv' /\ UNCHANGED <<childVars, proc>>
    BY <1>2, GuardKeepsTypes
  <2>2. gpc \notin Gone /\ gpc' # "exited"
    BY <1>2 DEF WindowOver, ForkCheck, StartChildFails, ForkDone, PollInput, PollRestart,
                PollIdle, TestAlarm, TestAlarmRestart, TestStop, TestUsr1, TestHup,
                TestChild, WaitDone, Reset, DelayCheck, RestartMark, RestartFork, Gone,
                IInv, TypeOK, ControlTypes
  <2> QED BY <2>1, <2>2, QuietKeepsBooks DEF IInv
<1>3. CASE NewInstance
  <2>1. TypeOK' /\ MarkInv' /\ UNCHANGED <<childVars, proc>>
    BY <1>3, GuardKeepsTypes
  <2>2. gpc' = gpc
    BY <1>3 DEF NewInstance, guardVars
  <2> QED BY <2>1, <2>2 DEF IInv, ChildrenAccounted, childVars, Current
<1>4. CASE \/ \E w \in Workers : StartChild(w) \/ WaitChild(w) \/ StopWait(w)
           \/ PollReload \/ RestartBroadcast \/ StopAll \/ StopEnd
  BY <1>4, ChildrenKeepTypes DEF IInv
<1>5. CASE \/ \E w \in Workers : Worker(w)
           \/ \E sig \in {"STOP", "USR1", "HUP"} : Signal(sig)
           \/ Tick \/ GuardCrash
  BY <1>5, OthersKeepIInv
<1> QED BY <1>1, <1>2, <1>3, <1>4, <1>5
        DEF Next, Guard, Loop, ProcessSignal, GracefulRestart, StopChildren

\* The invariant holds throughout.
LEMMA AlwaysIInv == Spec => []IInv
BY InitIInv, NextIInv, PTL DEF Spec

\* The guard and its workers never leave their types; in particular
\* m_curChildren is never negative and never above the number of children.
THEOREM SupervisorTypes == Spec => []TypeOK
<1>1. IInv => TypeOK
  BY DEF IInv
<1> QED BY <1>1, AlwaysIInv, PTL

\* For any number of children: counter, slots, list and processes agree in
\* every order of forks, deaths, reloads, restarts and stops, and nobody
\* survives an orderly exit of the guard.
THEOREM GuardBooks == Spec => []ChildrenAccounted
<1>1. IInv => ChildrenAccounted
  BY DEF IInv
<1> QED BY <1>1, AlwaysIInv, PTL

\* startChild never runs out of slots: as long as the counter asks for another
\* worker, getFirstAvailSlot finds a free slot, so the early return behind it is
\* not taken and the loop that forks missing workers is not stuck there.
THEOREM SlotAvailable ==
  Spec => [](curChildren < NumChildren => (1..NumChildren) \ procState # {})
<1>1. ASSUME IInv, curChildren < NumChildren, procState = 1..NumChildren
      PROVE  FALSE
  <2> DEFINE f == [w \in Current |-> slot[w]]
  <2>0. procState = {slot[w] : w \in Current}
    BY <1>1 DEF IInv, ChildrenAccounted
  <2>1. f \in Surjection(Current, procState)
    <3>1. f \in [Current -> procState]
      BY <2>0
    <3>2. \A t \in procState : \E w \in Current : f[w] = t
      BY <2>0
    <3> QED BY <3>1, <3>2 DEF Surjection
  <2>2. Cardinality(procState) <= Cardinality(Current)
    BY <1>1, <2>1, CurrentFinite, FS_Surjection DEF IInv
  <2>3. Cardinality(1..NumChildren) = NumChildren
    BY FS_Interval, SupervisorAssumption
  <2>4. curChildren = Cardinality(Current) /\ curChildren \in Nat
    BY <1>1, CurrentFinite DEF IInv, ChildrenAccounted
  <2> HIDE DEF f
  <2> QED BY <1>1, <2>2, <2>3, <2>4, SupervisorAssumption
<1>2. IInv => procState \subseteq 1..NumChildren
  BY DEF IInv, TypeOK, ChildTypes
<1>3. IInv => (curChildren < NumChildren => (1..NumChildren) \ procState # {})
  BY <1>1, <1>2
<1> QED BY <1>3, AlwaysIInv, PTL

\* A graceful restart leaves no gap: while it lasts no surviving worker closes
\* its listeners before a new instance is ready.
THEOREM RestartKeepsListeners == Spec => ListenersKept
<1> DEFINE Kept == \A w \in Workers :
             running = 0 /\ listening[w] /\ ~listening'[w] /\ proc'[w] \in Alive => ready
<1>1. IInv /\ [Next]_vars => [Kept]_vars
  <2> SUFFICES ASSUME IInv, Next, NEW w \in Workers, running = 0, listening[w],
                      ~listening'[w], proc'[w] \in Alive
               PROVE  ready
    OBVIOUS
  <2>1. mark \/ ready
    BY DEF IInv, MarkInv
  <2>2. CASE UNCHANGED listening
    BY <2>2
  <2>3. CASE StopEnd
    BY <2>3 DEF StopEnd, IInv, ChildrenAccounted, Alive, Gone
  <2>4. ASSUME NEW v \in Workers, StartChild(v) PROVE ready
    BY <2>4 DEF StartChild, IInv, TypeOK, FlagTypes
  <2>5. ASSUME NEW v \in Workers, WorkerStop(v) \/ WorkerLinger(v) PROVE ready
    BY <2>1, <2>5 DEF WorkerStop, WorkerLinger, IInv, TypeOK, FlagTypes
  <2>6. ASSUME NEW v \in Workers, WorkerExit(v) \/ WorkerCrash(v) PROVE ready
    BY <2>6 DEF WorkerExit, WorkerCrash, Die, IInv, TypeOK, ChildTypes, FlagTypes, Alive
  <2>7. CASE \/ WindowOver \/ ForkCheck \/ StartChildFails \/ ForkDone
             \/ PollInput \/ PollRestart \/ PollIdle \/ ProcessSignal
    BY <2>2, <2>7 DEF WindowOver, ForkCheck, StartChildFails, ForkDone, PollInput,
         PollRestart, PollIdle, ProcessSignal, TestAlarm, TestAlarmRestart, TestStop,
         TestUsr1, TestHup, TestChild, WaitChild, ChildDead, WaitDone, Reset, DelayCheck,
         GuardOnly, workerVars
  <2>8. CASE \/ PollReload \/ GracefulRestart \/ StopAll
             \/ (\E v \in Workers : StopWait(v)) \/ NewInstance
             \/ (\E sig \in {"STOP", "USR1", "HUP"} : Signal(sig)) \/ Tick \/ GuardCrash
    BY <2>2, <2>8 DEF PollReload, GracefulRestart, RestartMark, RestartBroadcast,
         RestartFork, StopAll, StopWait, ChildDead, NewInstance, Signal, Tick, GuardCrash,
         workerVars
  <2>9. ASSUME NEW v \in Workers, WorkerStart(v) \/ WorkerStopLost(v) \/ WorkerOrphaned(v)
        PROVE  ready
    BY <2>2, <2>9 DEF WorkerStart, WorkerStopLost, WorkerOrphaned
  <2> QED BY <2>3, <2>4, <2>5, <2>6, <2>7, <2>8, <2>9
          DEF Next, Guard, Loop, StopChildren, Worker
<1> QED BY <1>1, AlwaysIInv, PTL DEF Spec, ListenersKept
=============================================================================
