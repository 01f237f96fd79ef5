-------------------------- MODULE PidSpinLock_proofs --------------------------
(***************************************************************************)
(* Mutual exclusion of the shared-memory lock, the assertions in its code, *)
(* and the refinement of RobustMutex, for any number of processes and      *)
(* threads.                                                                *)
(***************************************************************************)
EXTENDS PidSpinLock, TLAPS

\* The lock word is free or a pid pidwait takes seriously, and no thread is
\* about to reset it.
WordSane ==
  /\ word = LS_LOCK_AVAIL \/ word >= LS_SPIN_MIN_PID
  /\ \A t \in Threads : pc[t] # "reset"

\* Only the threads of running processes are anywhere in the code.
OnlyLiveRun ==
  \A t \in Threads : pc[t] # "none" => proc[ProcOf[t]] = "alive"

\* Pids in use or under examination belong to processes that have started,
\* and a pid found dead stays dead: the step from kill() to the CAS is safe.
PidsStarted ==
  /\ \A p \in Procs : word = PidOf[p] => proc[p] # "unborn"
  /\ \A t \in Threads, p \in Procs :
       pc[t] \in {"kill", "steal"} /\ waitpid[t] = PidOf[p] => proc[p] # "unborn"
  /\ \A t \in Threads, p \in Procs :
       pc[t] = "steal" /\ waitpid[t] = PidOf[p] => proc[p] = "gone"
  /\ \A t \in Threads : pc[t] \in {"kill", "steal"} => waitpid[t] # LS_LOCK_AVAIL

\* A live process that the word names really holds the lock.
OwnerHolds ==
  \A p \in Procs : word = PidOf[p] /\ proc[p] = "alive"
    => \E t \in Threads : ProcOf[t] = p /\ pc[t] \in Holding

IInv ==
  /\ TypeOK
  /\ WordSane
  /\ OnlyLiveRun
  /\ PidsStarted
  /\ HolderOwnsWord
  /\ MutualExclusion
  /\ OwnerHolds

\* The word and the pids pidwait checks are integers, the latter not 0.
LEMMA WordFacts ==
  /\ Words \subseteq Int /\ 0 \in Words /\ Owners \subseteq Words
  /\ \A p \in Procs : PidOf[p] \in Words
  /\ \A w \in Owners : w # 0 /\ w \in Int /\ -w \in Int /\ -(-w) = w
<1> USE ConstantsAssumption DEF LS_LOCK_AVAIL
<1>1. \A p \in Procs : PidOf[p] \in Int
  OBVIOUS
<1>2. \A w \in Words : w \in InitialWords \/ w = 0 \/ \E p \in Procs : w = PidOf[p]
  BY Zenon DEF Words
<1>3. \A w \in Words : w \in Int
  <2> SUFFICES ASSUME NEW w \in Words PROVE w \in Int
    OBVIOUS
  <2>1. CASE w \in InitialWords
    <3>1. \A v \in InitialWords : v \in Int
      BY Zenon DEF ConstantsAssumption
    <3> QED BY <2>1, <3>1
  <2>3. CASE w = 0
    BY <2>3
  <2>2. CASE \E p \in Procs : w = PidOf[p]
    BY <1>1, <2>2, Zenon
  <2> QED BY <1>2, <2>1, <2>2, <2>3
<1>4. 0 \in Words /\ \A p \in Procs : PidOf[p] \in Words
  BY DEF Words
<1>5. Owners \subseteq Words /\ \A w \in Owners : w >= LS_SPIN_MIN_PID
  BY DEF Owners
<1> QED BY <1>3, <1>4, <1>5

\* The type invariant, whatever the pids and the initial word: the word is
\* free, a pid of the server or what the file held; the owner is checked
\* exactly when the attempts are used up; a take-over reports a checked pid.
THEOREM TypeCorrect == Spec => []TypeOK
<1> USE ConstantsAssumption DEF LS_LOCK_AVAIL
<1>1. Init => TypeOK /\ OnlyLiveRun
  BY WordFacts DEF Init, TypeOK, OnlyLiveRun, PCs, Words
<1>2. TypeOK /\ OnlyLiveRun /\ [Next]_vars => TypeOK' /\ OnlyLiveRun'
  <2> SUFFICES ASSUME TypeOK, OnlyLiveRun, [Next]_vars PROVE TypeOK' /\ OnlyLiveRun'
    OBVIOUS
  <2> DEFINE Goal == TypeOK' /\ OnlyLiveRun'
  <2> USE WordFacts DEF TypeOK, OnlyLiveRun, PCs, Waiting, Holding, Goto, Pid
  <2>1. ASSUME NEW p \in Procs, Fork(p) PROVE Goal
    BY <2>1 DEF Fork
  <2>2. ASSUME NEW p \in Procs, Terminate(p) PROVE Goal
    BY <2>2 DEF Terminate
  <2>3. ASSUME NEW p \in Procs, Reap(p) PROVE Goal
    BY <2>3 DEF Reap
  <2>4. ASSUME NEW t \in Threads, NEW r \in Int, r # 0 => -r \in Owners,
               pc[t] # "none", Acquired(t, r)
        PROVE  Goal
    BY <2>4 DEF Acquired, ForgetLocals
  <2>5. ASSUME NEW t \in Threads, pc[t] \in {"kill", "steal"}, Respin(t) PROVE Goal
    BY <2>5 DEF Respin, ForgetLocals
  <2>6. ASSUME NEW t \in Threads, PidLock(t) \/ TryLock(t) PROVE Goal
    BY <2>4, <2>6 DEF PidLock, TryLock
  <2>7. ASSUME NEW t \in Threads, PidWait(t) PROVE Goal
    BY <2>2, <2>7 DEF PidWait
  <2>8. ASSUME NEW t \in Threads, Spin(t) PROVE Goal
    BY <2>4, <2>8 DEF Spin, Owners
  <2>9. ASSUME NEW t \in Threads, Reset(t) PROVE Goal
    BY <2>9 DEF Reset
  <2>10. ASSUME NEW t \in Threads, Kill(t) PROVE Goal
    BY <2>5, <2>10 DEF Kill
  <2>11. ASSUME NEW t \in Threads, Steal(t) PROVE Goal
    <3>1. waitpid[t] \in Owners
      BY <2>11 DEF Steal
    <3>2. -waitpid[t] \in Int /\ -(-waitpid[t]) \in Owners
      BY <3>1
    <3> QED BY <2>4, <2>5, <2>11, <3>1, <3>2 DEF Steal
  <2>12. ASSUME NEW t \in Threads, PidUnlock(t) PROVE Goal
    BY <2>2, <2>12 DEF PidUnlock
  <2>13. ASSUME NEW t \in Threads, Clear(t) PROVE Goal
    BY <2>13 DEF Clear
  <2>14. CASE UNCHANGED vars
    BY <2>14 DEF vars
  <2> QED
    BY <2>1, <2>2, <2>3, <2>6, <2>7, <2>8, <2>9, <2>10, <2>11, <2>12, <2>13, <2>14
    DEF Next, Locking, Unlocking, Crash
<1> QED BY <1>1, <1>2, PTL DEF Spec

-----------------------------------------------------------------------------
(* How the three shared outcomes - a process ends, a thread acquires the   *)
(* lock, a thread starts spinning again - preserve the inductive           *)
(* invariant.                                                              *)

\* A process that ends leaves the invariant intact: its pid stays in the
\* word, and the pid counts as started.
LEMMA TerminateKeepsIInv ==
  ASSUME IInv, NEW p \in Procs, proc[p] = "alive", Terminate(p), TypeOK'
  PROVE  IInv'
<1> USE ConstantsAssumption DEF Terminate, TypeOK, Pid, Holding
<1>1. \A t \in Threads : pc'[t] # "none" => pc'[t] = pc[t] /\ ProcOf[t] # p
  BY DEF IInv
<1>2. WordSane'
  BY <1>1 DEF IInv, WordSane
<1>3. OnlyLiveRun'
  BY <1>1 DEF IInv, OnlyLiveRun
<1>4. PidsStarted'
  BY <1>1 DEF IInv, PidsStarted
<1>5. HolderOwnsWord'
  BY <1>1 DEF IInv, HolderOwnsWord
<1>6. MutualExclusion'
  BY <1>1 DEF IInv, MutualExclusion
<1>7. OwnerHolds'
  <2> SUFFICES ASSUME NEW q \in Procs, word = PidOf[q], proc'[q] = "alive"
               PROVE  \E t \in Threads : ProcOf[t] = q /\ pc'[t] \in Holding
    BY DEF OwnerHolds
  <2>1. q # p /\ proc[q] = "alive"
    BY DEF IInv
  <2>2. PICK t \in Threads : ProcOf[t] = q /\ pc[t] \in Holding
    BY <2>1 DEF IInv, OwnerHolds
  <2> QED BY <2>1, <2>2
<1> QED BY <1>2, <1>3, <1>4, <1>5, <1>6, <1>7 DEF IInv

\* Taking the lock is safe when nobody holds it.
LEMMA AcquiredKeepsIInv ==
  ASSUME SanePids, NoPidReuse, IInv, NEW t \in Threads, NEW r, Acquired(t, r),
         pc[t] # "none", \A s \in Threads : pc[s] \notin Holding, TypeOK'
  PROVE  IInv'
<1> USE ConstantsAssumption DEF Acquired, Goto, ForgetLocals, TypeOK, Pid, Holding,
        LS_LOCK_AVAIL
<1>0. ProcOf[t] \in Procs /\ proc[ProcOf[t]] = "alive" /\ word' = PidOf[ProcOf[t]]
  BY DEF IInv, OnlyLiveRun
<1>1. \A s \in Threads : s # t => pc'[s] = pc[s] /\ waitpid'[s] = waitpid[s]
  BY DEF IInv
<1>2. pc'[t] = "held"
  BY DEF IInv
<1>3. WordSane'
  BY <1>0, <1>1, <1>2 DEF IInv, WordSane, SanePids
<1>4. OnlyLiveRun'
  BY <1>0, <1>1, <1>2 DEF IInv, OnlyLiveRun
<1>5. PidsStarted'
  BY <1>0, <1>1, <1>2 DEF IInv, PidsStarted, NoPidReuse
<1>6. HolderOwnsWord'
  BY <1>0, <1>1, <1>2 DEF IInv, HolderOwnsWord
<1>7. MutualExclusion'
  BY <1>1, <1>2 DEF IInv, MutualExclusion
<1>8. OwnerHolds'
  <2>1. \A p \in Procs : PidOf[ProcOf[t]] = PidOf[p] => p = ProcOf[t]
    BY <1>0, Zenon DEF NoPidReuse
  <2>2. pc'[t] \in Holding
    BY <1>2
  <2> SUFFICES ASSUME NEW p \in Procs, word' = PidOf[p]
               PROVE  \E s \in Threads : ProcOf[s] = p /\ pc'[s] \in Holding
    BY DEF OwnerHolds
  <2>3. p = ProcOf[t]
    BY <1>0, <2>1, Zenon
  <2> QED BY <2>2, <2>3
<1> QED BY <1>3, <1>4, <1>5, <1>6, <1>7, <1>8 DEF IInv

\* A thread that moves between places where it neither holds the lock nor
\* relies on a pid changes nothing the invariant speaks of.
LEMMA MovingKeepsIInv ==
  ASSUME IInv, NEW t \in Threads, NEW to, Goto(t, to),
         pc[t] # "none", pc[t] \notin Holding,
         to \in {"idle", "entered", "spin"},
         UNCHANGED <<word, proc>>, TypeOK',
         \A s \in Threads : s # t => waitpid'[s] = waitpid[s]
  PROVE  IInv'
<1> USE ConstantsAssumption DEF Goto, TypeOK, Pid, Holding
<1>1. \A s \in Threads : s # t => pc'[s] = pc[s]
  BY DEF IInv
<1>2. pc'[t] = to
  BY DEF IInv
<1>3. WordSane' /\ OnlyLiveRun' /\ HolderOwnsWord' /\ MutualExclusion'
  BY <1>1, <1>2 DEF IInv, WordSane, OnlyLiveRun, HolderOwnsWord, MutualExclusion
<1>4. PidsStarted'
  BY <1>1, <1>2 DEF IInv, PidsStarted
<1>5. OwnerHolds'
  BY <1>1, <1>2 DEF IInv, OwnerHolds
<1> QED BY <1>3, <1>4, <1>5 DEF IInv

-----------------------------------------------------------------------------
\* A free word means that nobody holds the lock, and so does a word naming a
\* process that no longer exists.
LEMMA NobodyHolds ==
  ASSUME IInv
  PROVE  /\ word = LS_LOCK_AVAIL => \A s \in Threads : pc[s] \notin Holding
         /\ \A t \in Threads : pc[t] = "steal" /\ word = waitpid[t]
              => \A s \in Threads : pc[s] \notin Holding
<1> USE ConstantsAssumption DEF Holding, Pid, LS_LOCK_AVAIL
<1>1. \A s \in Threads : pc[s] \in Holding =>
        ProcOf[s] \in Procs /\ word = PidOf[ProcOf[s]] /\ proc[ProcOf[s]] = "alive"
  BY DEF IInv, HolderOwnsWord, OnlyLiveRun
<1>2. \A p \in Procs : PidOf[p] # 0
  OBVIOUS
<1> QED BY <1>1, <1>2 DEF IInv, PidsStarted

\* Every step preserves the inductive invariant.
LEMMA StepKeepsIInv ==
  ASSUME SanePids, NoPidReuse, IInv, [Next]_vars, TypeOK'
  PROVE  IInv'
<1> USE ConstantsAssumption DEF Pid
<1>1. ASSUME NEW p \in Procs, Fork(p) PROVE IInv'
  <2> USE <1>1 DEF Fork, TypeOK, Holding
  <2>1. \A t \in Threads : ProcOf[t] = p => pc[t] = "none"
    BY DEF IInv, OnlyLiveRun
  <2>2. \A t \in Threads : pc'[t] = pc[t] \/ (pc'[t] = "idle" /\ ProcOf[t] = p)
    BY DEF IInv
  <2>3. WordSane' /\ OnlyLiveRun'
    BY <2>2 DEF IInv, WordSane, OnlyLiveRun
  <2>4. HolderOwnsWord' /\ MutualExclusion'
    BY <2>2 DEF IInv, HolderOwnsWord, MutualExclusion
  <2>5. PidsStarted'
    BY <2>2 DEF IInv, PidsStarted
  <2>6. OwnerHolds'
    <3> SUFFICES ASSUME NEW q \in Procs, word = PidOf[q], proc'[q] = "alive"
                 PROVE  \E t \in Threads : ProcOf[t] = q /\ pc'[t] \in Holding
      BY DEF OwnerHolds
    <3>1. q # p
      BY DEF IInv, PidsStarted
    <3>2. PICK t \in Threads : ProcOf[t] = q /\ pc[t] \in Holding
      BY <3>1 DEF IInv, OwnerHolds
    <3> QED BY <3>1, <3>2 DEF IInv
  <2> QED BY <2>3, <2>4, <2>5, <2>6 DEF IInv
<1>2. ASSUME NEW p \in Procs, Crash(p) PROVE IInv'
  BY <1>2, TerminateKeepsIInv DEF Crash
<1>3. ASSUME NEW p \in Procs, Reap(p) PROVE IInv'
  <2> USE <1>3 DEF Reap, TypeOK, Holding
  <2>1. \A q \in Procs : proc'[q] = proc[q] \/ (proc[q] = "zombie" /\ proc'[q] = "gone")
    BY DEF IInv
  <2>2. WordSane' /\ OnlyLiveRun' /\ HolderOwnsWord' /\ MutualExclusion'
    BY <2>1 DEF IInv, WordSane, OnlyLiveRun, HolderOwnsWord, MutualExclusion
  <2>3. PidsStarted' /\ OwnerHolds'
    BY <2>1 DEF IInv, PidsStarted, OwnerHolds
  <2> QED BY <2>2, <2>3 DEF IInv
<1>4. ASSUME NEW t \in Threads, PidLock(t) \/ TryLock(t) PROVE IInv'
  <2>1. CASE Acquired(t, 0) /\ word = LS_LOCK_AVAIL /\ pc[t] = "idle"
    BY <2>1, NobodyHolds, AcquiredKeepsIInv
  <2>2. CASE Goto(t, "entered") /\ UNCHANGED <<word, proc, waitpid, cnt, ret>>
             /\ pc[t] = "idle"
    BY <2>2, MovingKeepsIInv DEF Holding
  <2> QED BY <1>4, <2>1, <2>2 DEF PidLock, TryLock
<1>5. ASSUME NEW t \in Threads, PidWait(t) PROVE IInv'
  <2>1. proc[ProcOf[t]] = "alive" /\ ProcOf[t] \in Procs
    BY <1>5 DEF IInv, OnlyLiveRun, PidWait
  <2>2. CASE Terminate(ProcOf[t])
    BY <2>1, <2>2, TerminateKeepsIInv
  <2>3. CASE Goto(t, "spin") /\ UNCHANGED <<word, proc, waitpid, cnt, ret>>
    BY <1>5, <2>3, MovingKeepsIInv DEF PidWait, Holding
  <2> QED BY <1>5, <2>2, <2>3 DEF PidWait
<1>6. ASSUME NEW t \in Threads, Spin(t) PROVE IInv'
  <2>1. CASE Acquired(t, 0) /\ word = LS_LOCK_AVAIL
    BY <1>6, <2>1, NobodyHolds, AcquiredKeepsIInv DEF Spin
  <2>2. CASE word # LS_LOCK_AVAIL /\ word < LS_SPIN_MIN_PID
    BY <2>2, WordFacts DEF IInv, WordSane, TypeOK
  <2>3. CASE /\ word # LS_LOCK_AVAIL /\ word >= LS_SPIN_MIN_PID
             /\ Goto(t, "kill") /\ waitpid' = [waitpid EXCEPT ![t] = word]
             /\ UNCHANGED <<word, proc, ret>>
    <3> USE <1>6, <2>3 DEF Spin, Goto, TypeOK, Holding
    <3>1. \A s \in Threads : s # t => pc'[s] = pc[s] /\ waitpid'[s] = waitpid[s]
      BY DEF IInv
    <3>2. pc'[t] = "kill" /\ waitpid'[t] = word
      BY DEF IInv
    <3>3. WordSane' /\ OnlyLiveRun' /\ HolderOwnsWord' /\ MutualExclusion'
      BY <3>1, <3>2 DEF IInv, WordSane, OnlyLiveRun, HolderOwnsWord, MutualExclusion
    <3>4. PidsStarted'
      BY <3>1, <3>2 DEF IInv, PidsStarted
    <3>5. OwnerHolds'
      BY <3>1, <3>2 DEF IInv, OwnerHolds
    <3> QED BY <3>3, <3>4, <3>5 DEF IInv
  <2>4. CASE UNCHANGED <<word, proc, pc, waitpid>>
    BY <2>4 DEF IInv, WordSane, OnlyLiveRun, PidsStarted, HolderOwnsWord,
                MutualExclusion, OwnerHolds
  <2> QED BY <1>6, <2>1, <2>2, <2>3, <2>4 DEF Spin
<1>7. ASSUME NEW t \in Threads, Reset(t) PROVE IInv'
  BY <1>7 DEF Reset, IInv, WordSane
<1>8. ASSUME NEW t \in Threads, Respin(t), pc[t] \in {"kill", "steal"} PROVE IInv'
  <2>1. \A s \in Threads : s # t => waitpid'[s] = waitpid[s]
    BY <1>8 DEF Respin, ForgetLocals, IInv, TypeOK
  <2> QED BY <1>8, <2>1, MovingKeepsIInv DEF Respin, Holding
<1>9. ASSUME NEW t \in Threads, Kill(t) PROVE IInv'
  <2>1. CASE Goto(t, "steal") /\ ~Exists(waitpid[t])
             /\ UNCHANGED <<word, proc, waitpid, cnt, ret>>
    <3> USE <1>9, <2>1 DEF Kill, Goto, TypeOK, Holding
    <3>1. \A s \in Threads : s # t => pc'[s] = pc[s]
      BY DEF IInv
    <3>2. pc'[t] = "steal" /\ pc[t] = "kill"
      BY DEF IInv
    <3>3. WordSane' /\ OnlyLiveRun' /\ HolderOwnsWord' /\ MutualExclusion'
      BY <3>1, <3>2 DEF IInv, WordSane, OnlyLiveRun, HolderOwnsWord, MutualExclusion
    <3>4. \A p \in Procs : waitpid[t] = PidOf[p] => proc[p] = "gone"
      BY <3>2 DEF IInv, PidsStarted, Exists
    <3>5. PidsStarted'
      BY <3>1, <3>2, <3>4 DEF IInv, PidsStarted
    <3>6. OwnerHolds'
      BY <3>1, <3>2 DEF IInv, OwnerHolds
    <3> QED BY <3>3, <3>5, <3>6 DEF IInv
  <2> QED BY <1>8, <1>9, <2>1 DEF Kill
<1>10. ASSUME NEW t \in Threads, Steal(t) PROVE IInv'
  <2>1. CASE word = waitpid[t] /\ Acquired(t, -waitpid[t])
    BY <1>10, <2>1, NobodyHolds, AcquiredKeepsIInv DEF Steal
  <2> QED BY <1>8, <1>10, <2>1 DEF Steal
<1>11. ASSUME NEW t \in Threads, PidUnlock(t) PROVE IInv'
  <2> USE <1>11 DEF PidUnlock, Goto, TypeOK, Holding
  <2>1. word = PidOf[ProcOf[t]]
    BY DEF IInv, HolderOwnsWord
  <2>2. \A s \in Threads : s # t => pc'[s] = pc[s]
    BY <2>1 DEF IInv
  <2>3. pc[t] = "held" /\ pc'[t] = "clear" /\ UNCHANGED <<word, proc, waitpid>>
    BY <2>1 DEF IInv
  <2>4. WordSane' /\ OnlyLiveRun' /\ HolderOwnsWord' /\ MutualExclusion'
    BY <2>2, <2>3 DEF IInv, WordSane, OnlyLiveRun, HolderOwnsWord, MutualExclusion
  <2>5. PidsStarted' /\ OwnerHolds'
    BY <2>2, <2>3 DEF IInv, PidsStarted, OwnerHolds
  <2> QED BY <2>4, <2>5 DEF IInv
<1>12. ASSUME NEW t \in Threads, Clear(t) PROVE IInv'
  <2> USE <1>12 DEF Clear, Goto, TypeOK, Holding, LS_LOCK_AVAIL
  <2>1. \A s \in Threads : s # t => pc'[s] = pc[s] /\ pc[s] \notin Holding
    BY DEF IInv, MutualExclusion
  <2>2. pc[t] = "clear" /\ pc'[t] = "idle" /\ word' = 0 /\ UNCHANGED <<proc, waitpid>>
    BY DEF IInv
  <2>3. \A p \in Procs : PidOf[p] # 0
    OBVIOUS
  <2>4. WordSane' /\ OnlyLiveRun'
    BY <2>1, <2>2 DEF IInv, WordSane, OnlyLiveRun
  <2>5. HolderOwnsWord' /\ MutualExclusion'
    BY <2>1, <2>2 DEF IInv, HolderOwnsWord, MutualExclusion
  <2>6. PidsStarted' /\ OwnerHolds'
    BY <2>1, <2>2, <2>3 DEF IInv, PidsStarted, OwnerHolds
  <2> QED BY <2>4, <2>5, <2>6 DEF IInv
<1>13. CASE UNCHANGED vars
  BY <1>13 DEF vars, IInv, WordSane, OnlyLiveRun, PidsStarted, HolderOwnsWord,
               MutualExclusion, OwnerHolds
<1> QED
  BY <1>1, <1>2, <1>3, <1>4, <1>5, <1>6, <1>7, <1>9, <1>10, <1>11, <1>12, <1>13
  DEF Next, Locking, Unlocking

\* The initial states satisfy the inductive invariant.
LEMMA InitIInv == ASSUME SanePids, Init PROVE IInv
<1> USE ConstantsAssumption DEF Init
<1>1. TypeOK
  BY WordFacts DEF TypeOK, PCs, Words
<1>2. WordSane /\ OnlyLiveRun
  BY DEF WordSane, OnlyLiveRun, SanePids, LS_LOCK_AVAIL
<1>3. HolderOwnsWord /\ MutualExclusion
  BY DEF HolderOwnsWord, MutualExclusion, Holding
<1>4. PidsStarted /\ OwnerHolds
  BY DEF PidsStarted, OwnerHolds, SanePids, LS_LOCK_AVAIL
<1> QED BY <1>1, <1>2, <1>3, <1>4 DEF IInv

\* The inductive invariant holds in every reachable state: processes may
\* crash and be forked at any point of pidlock, pidwait and pidunlock.
THEOREM Invariance == ASSUME SanePids, NoPidReuse PROVE Spec => []IInv
<1>1. Init => IInv
  BY InitIInv
<1>2. IInv /\ TypeOK' /\ [Next]_vars => IInv'
  BY StepKeepsIInv
<1> QED BY <1>1, <1>2, TypeCorrect, PTL DEF Spec

\* ls_atomic_spin_pidlock admits one thread at a time, whatever crashes and
\* take-overs happen, provided no pid is reused and none is below
\* LS_SPIN_MIN_PID.
THEOREM LockExcludes ==
  ASSUME SanePids, NoPidReuse PROVE Spec => []MutualExclusion
<1>1. IInv => MutualExclusion
  BY DEF IInv
<1> QED BY <1>1, Invariance, PTL

\* assert(*p == ls_spin_pid) in ls_atomic_spin_pidunlock holds.
THEOREM UnlockAssertHolds ==
  ASSUME SanePids, NoPidReuse PROVE Spec => []HolderOwnsWord
<1>1. IInv => HolderOwnsWord
  BY DEF IInv
<1> QED BY <1>1, Invariance, PTL

\* Each process uses the lock from one thread.
OneThreadPerProc == \A s, t \in Threads : ProcOf[s] = ProcOf[t] => s = t

\* assert(*p != ls_spin_pid) in ls_atomic_spin_pidwait holds if no process
\* uses the lock from two threads.
THEOREM PidWaitAssertHolds ==
  ASSUME SanePids, NoPidReuse, OneThreadPerProc PROVE Spec => []NoSelfWait
<1>1. IInv => NoSelfWait
  <2> SUFFICES ASSUME IInv, NEW t \in Threads, pc[t] = "entered", word = Pid(t)
               PROVE  FALSE
    BY DEF NoSelfWait
  <2>1. ProcOf[t] \in Procs /\ proc[ProcOf[t]] = "alive"
    BY ConstantsAssumption DEF IInv, OnlyLiveRun
  <2>2. PICK s \in Threads : ProcOf[s] = ProcOf[t] /\ pc[s] \in Holding
    BY <2>1 DEF IInv, OwnerHolds, Pid
  <2> QED BY <2>2 DEF OneThreadPerProc, Holding
<1> QED BY <1>1, Invariance, PTL

-----------------------------------------------------------------------------
(* Refinement of RobustMutex *)

Inside == {t \in Threads : pc[t] \in Holding}
Running == {p \in Procs : proc[p] = "alive"}
Known == {p \in Procs : proc[p] \in {"alive", "zombie"}}

\* An acquisition is Lock if the word was free and Recover if it named a
\* process that no longer exists.
LEMMA AcquiredRefines ==
  ASSUME IInv, NEW t \in Threads, NEW r, Acquired(t, r),
         pc[t] # "none", pc[t] \notin Holding,
         \/ word = LS_LOCK_AVAIL /\ r = 0
         \/ word # LS_LOCK_AVAIL /\ r = -word /\ \A p \in Known : PidOf[p] # word
  PROVE  Abstract!Lock(t) \/ Abstract!Recover(t)
<1>1. Inside' = Inside \cup {t}
  BY DEF Acquired, Goto, Inside, IInv, TypeOK, Holding
<1>2. Running' = Running /\ Known' = Known
  BY DEF Acquired, Running, Known
<1>3. ProcOf[t] \in Running /\ t \notin Inside
  BY ConstantsAssumption DEF IInv, OnlyLiveRun, Running, Inside
<1>4. word' = PidOf[ProcOf[t]] /\ ret' = [ret EXCEPT ![t] = r]
  BY DEF Acquired, Pid
<1> QED
  BY <1>1, <1>2, <1>3, <1>4
  DEF Abstract!Lock, Abstract!Recover, Abstract!CanRun, Abstract!PidUnused,
      Inside, Running, Known

\* The end of a process is Die.
LEMMA TerminateRefines ==
  ASSUME IInv, NEW p \in Procs, proc[p] = "alive", Terminate(p)
  PROVE  Abstract!Die(p)
<1>1. Inside' = {t \in Inside : ProcOf[t] # p}
  BY DEF Terminate, Inside, IInv, TypeOK, Holding
<1>2. Running' = Running \ {p} /\ Known' = Known
  BY DEF Terminate, Running, Known, IInv, TypeOK
<1> QED
  BY <1>1, <1>2 DEF Abstract!Die, Terminate, Inside, Running, Known

\* A step that moves a thread outside the critical section is invisible.
LEMMA MovingStutters ==
  ASSUME IInv, NEW t \in Threads, NEW to, Goto(t, to),
         pc[t] \in Holding <=> to \in Holding, UNCHANGED <<word, proc, ret>>
  PROVE  UNCHANGED Abstract!vars
<1>1. Inside' = Inside
  BY DEF Goto, Inside, IInv, TypeOK, Holding
<1> QED BY <1>1 DEF Abstract!vars, Inside

\* Every step is a step of RobustMutex or leaves its variables unchanged.
LEMMA StepRefines ==
  ASSUME IInv, [Next]_vars
  PROVE  [Abstract!Next]_Abstract!vars
<1> USE ConstantsAssumption
<1>1. ASSUME NEW p \in Procs, Fork(p) PROVE Abstract!Start(p)
  <2>1. Inside' = Inside
    BY <1>1 DEF Fork, Inside, IInv, TypeOK, OnlyLiveRun, Holding
  <2>2. Running' = Running \cup {p} /\ Known' = Known \cup {p}
    BY <1>1 DEF Fork, Running, Known, IInv, TypeOK
  <2>3. p \notin Known /\ \A q \in Known : PidOf[q] # PidOf[p]
    BY <1>1 DEF Fork, Known, Exists
  <2> QED
    BY <1>1, <2>1, <2>2, <2>3
    DEF Fork, Abstract!Start, Abstract!PidUnused, Inside, Running, Known
<1>2. ASSUME NEW p \in Procs, Reap(p) PROVE Abstract!Reap(p)
  <2>1. Running' = Running /\ Known' = Known \ {p} /\ p \in Known \ Running
    BY <1>2 DEF Reap, Running, Known, IInv, TypeOK
  <2> QED
    BY <1>2, <2>1 DEF Reap, Abstract!Reap, Running, Known
<1>3. ASSUME NEW p \in Procs, Crash(p) PROVE Abstract!Die(p)
  BY <1>3, TerminateRefines DEF Crash
<1>4. ASSUME NEW t \in Threads, PidLock(t) \/ TryLock(t)
      PROVE  Abstract!Lock(t) \/ Abstract!Recover(t) \/ UNCHANGED Abstract!vars
  BY <1>4, AcquiredRefines, MovingStutters DEF PidLock, TryLock, Holding
<1>5. ASSUME NEW t \in Threads, PidWait(t)
      PROVE  Abstract!Die(ProcOf[t]) \/ UNCHANGED Abstract!vars
  <2>1. ProcOf[t] \in Procs /\ proc[ProcOf[t]] = "alive"
    BY <1>5 DEF PidWait, IInv, OnlyLiveRun
  <2> QED BY <1>5, <2>1, TerminateRefines, MovingStutters DEF PidWait, Holding
<1>6. ASSUME NEW t \in Threads, Spin(t)
      PROVE  Abstract!Lock(t) \/ Abstract!Recover(t) \/ UNCHANGED Abstract!vars
  <2>1. CASE Acquired(t, 0) /\ word = LS_LOCK_AVAIL
    BY <1>6, <2>1, AcquiredRefines DEF Spin, Holding
  <2>2. CASE \/ Goto(t, "reset") /\ UNCHANGED <<word, proc, ret>>
             \/ Goto(t, "kill") /\ UNCHANGED <<word, proc, ret>>
    BY <1>6, <2>2, MovingStutters DEF Spin, Holding
  <2>3. CASE UNCHANGED <<word, proc, pc, ret>>
    BY <2>3 DEF Abstract!vars
  <2> QED BY <1>6, <2>1, <2>2, <2>3 DEF Spin
<1>7. ASSUME NEW t \in Threads, Reset(t) PROVE FALSE
  BY <1>7 DEF Reset, IInv, WordSane
<1>8. ASSUME NEW t \in Threads, Kill(t) PROVE UNCHANGED Abstract!vars
  BY <1>8, MovingStutters DEF Kill, Respin, Holding
<1>9. ASSUME NEW t \in Threads, Steal(t)
      PROVE  Abstract!Lock(t) \/ Abstract!Recover(t) \/ UNCHANGED Abstract!vars
  <2>1. CASE word = waitpid[t]
    <3>1. \A p \in Known : PidOf[p] # word
      BY <1>9, <2>1 DEF Steal, IInv, PidsStarted, Known
    <3>2. word # LS_LOCK_AVAIL /\ pc[t] # "none" /\ pc[t] \notin Holding
      BY <1>9, <2>1 DEF Steal, IInv, PidsStarted, Holding
    <3>3. Acquired(t, -word)
      BY <1>9, <2>1 DEF Steal
    <3> QED BY <3>1, <3>2, <3>3, AcquiredRefines
  <2>2. CASE word # waitpid[t]
    BY <1>9, <2>2, MovingStutters DEF Steal, Respin, Holding
  <2> QED BY <2>1, <2>2
<1>10. ASSUME NEW t \in Threads, PidUnlock(t) PROVE UNCHANGED Abstract!vars
  <2>1. word = Pid(t)
    BY <1>10 DEF PidUnlock, IInv, HolderOwnsWord, Holding
  <2> QED BY <1>10, <2>1, MovingStutters DEF PidUnlock, Holding
<1>11. ASSUME NEW t \in Threads, Clear(t) PROVE Abstract!Unlock(t)
  <2>1. Inside' = Inside \ {t} /\ t \in Inside
    BY <1>11 DEF Clear, Goto, Inside, IInv, TypeOK, Holding
  <2>2. ProcOf[t] \in Running
    BY <1>11 DEF Clear, IInv, OnlyLiveRun, Running
  <2> QED
    BY <1>11, <2>1, <2>2 DEF Clear, Abstract!Unlock, Abstract!CanRun, Inside, Running
<1>12. CASE UNCHANGED vars
  BY <1>12 DEF vars, Abstract!vars
<1> QED
  BY <1>1, <1>2, <1>3, <1>4, <1>5, <1>6, <1>7, <1>8, <1>9, <1>10, <1>11, <1>12
  DEF Next, Locking, Unlocking, Abstract!Next

\* Every behaviour of the spinning lock is one of the atomic robust mutex.
THEOREM LockRefinesRobustMutex ==
  ASSUME SanePids, NoPidReuse PROVE Spec => ImplementsRobustMutex
<1>1. Init => Abstract!Init
  BY ConstantsAssumption DEF Init, Abstract!Init, Holding
<1>2. IInv /\ [Next]_vars => [Abstract!Next]_Abstract!vars
  BY StepRefines
<1> QED BY <1>1, <1>2, Invariance, PTL DEF Spec, ImplementsRobustMutex, Abstract!Spec

=============================================================================
