--------------------------- MODULE FutexLock_proofs ---------------------------
(***************************************************************************)
(* Mutual exclusion and the absence of lost wake-ups in ls_futex_lock and  *)
(* ls_futex_unlock, for any number of threads.                             *)
(***************************************************************************)
EXTENDS FutexLock, TLAPS

IInv == TypeOK /\ MutualExclusion /\ NoLostWakeUp

\* The initial states satisfy the invariant.
LEMMA InitIInv == Init => IInv
BY DEF Init, IInv, TypeOK, MutualExclusion, NoLostWakeUp, PCs,
       LS_LOCK_AVAIL, LS_FUTEX_LOCKED1, LS_FUTEX_LOCKED2

\* A thread takes a free lock: nobody else holds it, and if the word becomes
\* LS_FUTEX_LOCKED1 whoever had to look after the sleepers still has to.
LEMMA TakeKeepsIInv ==
  ASSUME IInv, NEW t \in Threads, word = LS_LOCK_AVAIL,
         \/ word' = LS_FUTEX_LOCKED2
         \/ word' = LS_FUTEX_LOCKED1 /\ pc[t] \in {"idle", "spin", "cas1"},
         pc' = [pc EXCEPT ![t] = "held"], spins' \in [Threads -> Nat]
  PROVE  IInv'
<1> USE DEF LS_LOCK_AVAIL, LS_FUTEX_LOCKED1, LS_FUTEX_LOCKED2
<1>1. TypeOK'
  BY DEF IInv, TypeOK, PCs
<1>2. \A s \in Threads : pc[s] # "held" /\ (s # t => pc'[s] = pc[s])
  BY DEF IInv, MutualExclusion, TypeOK
<1>3. pc'[t] = "held"
  BY DEF IInv, TypeOK
<1>4. MutualExclusion'
  BY <1>2, <1>3 DEF MutualExclusion
<1>5. NoLostWakeUp'
  BY <1>2, <1>3 DEF IInv, NoLostWakeUp
<1> QED BY <1>1, <1>4, <1>5 DEF IInv

\* A thread that does not hold the lock moves on; the word is the same or is
\* marked.
LEMMA MoveKeepsIInv ==
  ASSUME IInv, NEW t \in Threads, NEW to \in PCs,
         pc[t] # "held", to # "held", pc' = [pc EXCEPT ![t] = to],
         word' = word \/ (word = LS_FUTEX_LOCKED1 /\ word' = LS_FUTEX_LOCKED2),
         \/ word' = LS_FUTEX_LOCKED2
         \/ to \in {"cas2", "mark", "wait"}
         \/ pc[t] \in {"idle", "spin", "cas1"} /\ to # "asleep",
         spins' \in [Threads -> Nat]
  PROVE  IInv'
<1> USE DEF LS_LOCK_AVAIL, LS_FUTEX_LOCKED1, LS_FUTEX_LOCKED2
<1>1. TypeOK'
  BY DEF IInv, TypeOK
<1>2. \A s \in Threads : s # t => pc'[s] = pc[s]
  BY DEF IInv, TypeOK
<1>3. pc'[t] = to
  BY DEF IInv, TypeOK
<1>4. MutualExclusion'
  BY <1>2, <1>3 DEF IInv, MutualExclusion, TypeOK
<1>5. NoLostWakeUp'
  BY <1>2, <1>3 DEF IInv, NoLostWakeUp
<1> QED BY <1>1, <1>4, <1>5 DEF IInv

\* Every step preserves the invariant.
LEMMA StepKeepsIInv == IInv /\ [Next]_vars => IInv'
<1> SUFFICES ASSUME IInv, [Next]_vars PROVE IInv'
  OBVIOUS
<1> USE SpinAssumption DEF Goto, LS_LOCK_AVAIL, LS_FUTEX_LOCKED1, LS_FUTEX_LOCKED2
<1>0. spins \in [Threads -> Nat] /\ word \in {0, 1, 2}
  BY DEF IInv, TypeOK
<1>1. ASSUME NEW t \in Threads, TryLock(t) PROVE IInv'
  BY <1>0, <1>1, TakeKeepsIInv DEF TryLock
<1>2. ASSUME NEW t \in Threads, Call(t) PROVE IInv'
  BY <1>0, <1>2, MoveKeepsIInv DEF Call, PCs, Waiting, Awake
<1>3. ASSUME NEW t \in Threads, Spin(t) PROVE IInv'
  <2>1. CASE word = LS_LOCK_AVAIL
    BY <1>0, <1>3, <2>1, TakeKeepsIInv DEF Spin
  <2>2. CASE Goto(t, "cas1") /\ word' = word
    <3>1. spins' \in [Threads -> Nat]
      BY <1>0, <1>3 DEF Spin
    <3> QED BY <1>3, <2>2, <3>1, MoveKeepsIInv DEF Spin, PCs, Waiting, Awake
  <2>3. CASE UNCHANGED <<word, pc>>
    <3>1. spins' \in [Threads -> Nat]
      BY <1>0, <1>3 DEF Spin
    <3> QED BY <2>3, <3>1 DEF IInv, TypeOK, MutualExclusion, NoLostWakeUp
  <2> QED BY <1>3, <2>1, <2>2, <2>3 DEF Spin
<1>4. ASSUME NEW t \in Threads, Cas1(t) PROVE IInv'
  <2>1. CASE word = LS_LOCK_AVAIL
    BY <1>0, <1>4, <2>1, TakeKeepsIInv DEF Cas1
  <2>2. CASE word # LS_LOCK_AVAIL
    BY <1>0, <1>4, <2>2, MoveKeepsIInv DEF Cas1, AfterMiss, PCs, Waiting, Awake
  <2> QED BY <2>1, <2>2
<1>5. ASSUME NEW t \in Threads, Mark(t) PROVE IInv'
  BY <1>0, <1>5, MoveKeepsIInv DEF Mark, PCs, Waiting, Awake
<1>6. ASSUME NEW t \in Threads, FutexWait(t) PROVE IInv'
  BY <1>0, <1>6, MoveKeepsIInv DEF FutexWait, PCs, Waiting, Awake
<1>7. ASSUME NEW t \in Threads, Interrupt(t) PROVE IInv'
  BY <1>0, <1>7, MoveKeepsIInv DEF Interrupt, PCs, Waiting, Awake
<1>8. ASSUME NEW t \in Threads, Cas2(t) PROVE IInv'
  <2>1. CASE word = LS_LOCK_AVAIL
    BY <1>0, <1>8, <2>1, TakeKeepsIInv DEF Cas2
  <2>2. CASE word # LS_LOCK_AVAIL
    BY <1>0, <1>8, <2>2, MoveKeepsIInv DEF Cas2, AfterMiss, PCs, Waiting, Awake
  <2> QED BY <2>1, <2>2
<1>9. ASSUME NEW t \in Threads, Unlock(t) PROVE IInv'
  <2> USE <1>9 DEF Unlock
  <2>1. TypeOK'
    BY DEF IInv, TypeOK, PCs, Waiting, Awake
  <2>2. \A s \in Threads : s # t => pc'[s] = pc[s] /\ pc[s] # "held"
    BY DEF IInv, MutualExclusion, TypeOK
  <2>3. pc'[t] = (IF word = 2 THEN "wake" ELSE "idle") /\ word' = 0
    BY DEF IInv, TypeOK
  <2>4. MutualExclusion'
    BY <2>2, <2>3 DEF MutualExclusion
  <2>5. NoLostWakeUp'
    BY <2>2, <2>3 DEF IInv, NoLostWakeUp
  <2> QED BY <2>1, <2>4, <2>5 DEF IInv
<1>10. ASSUME NEW t \in Threads, Wake(t) PROVE IInv'
  <2> USE <1>10 DEF Wake
  <2>1. CASE \A s \in Threads : pc[s] # "asleep"
    <3>1. \A s \in Threads : pc'[s] # "asleep" /\ (s # t => pc'[s] = pc[s])
      BY <2>1 DEF IInv, TypeOK
    <3>2. pc[t] = "wake" /\ pc'[t] = "idle" /\ word' = word
      BY <2>1 DEF IInv, TypeOK
    <3>3. TypeOK'
      BY <2>1 DEF IInv, TypeOK, PCs
    <3>4. MutualExclusion'
      BY <3>1, <3>2 DEF IInv, MutualExclusion
    <3>5. NoLostWakeUp'
      BY <3>1 DEF NoLostWakeUp
    <3> QED BY <3>3, <3>4, <3>5 DEF IInv
  <2>2. CASE \E s \in Threads : pc[s] = "asleep"
    <3>1. PICK s \in Threads : pc[s] = "asleep"
                            /\ pc' = [pc EXCEPT ![t] = "idle", ![s] = "cas2"]
      BY <2>2
    <3>2. s # t /\ pc[t] = "wake" /\ pc'[s] = "cas2" /\ pc'[t] = "idle" /\ word' = word
      BY <3>1 DEF IInv, TypeOK
    <3>3. \A u \in Threads : u # s /\ u # t => pc'[u] = pc[u]
      BY <3>1 DEF IInv, TypeOK
    <3>4. TypeOK'
      BY <3>1 DEF IInv, TypeOK, PCs, Waiting, Awake
    <3>5. MutualExclusion'
      <4>1. \A u \in Threads : pc'[u] = "held" <=> pc[u] = "held"
        BY <3>1, <3>2, <3>3
      <4> QED BY <3>2, <4>1 DEF IInv, MutualExclusion
    <3>6. NoLostWakeUp'
      BY <3>2 DEF NoLostWakeUp
    <3> QED BY <3>4, <3>5, <3>6 DEF IInv
  <2> QED BY <2>1, <2>2
<1>11. CASE UNCHANGED vars
  BY <1>11 DEF vars, IInv, TypeOK, MutualExclusion, NoLostWakeUp
<1> QED
  BY <1>1, <1>2, <1>3, <1>4, <1>5, <1>6, <1>7, <1>8, <1>9, <1>10, <1>11
  DEF Next, Run

\* The three parts of the invariant hold in every reachable state.
THEOREM Invariance == Spec => []IInv
BY InitIInv, StepKeepsIInv, PTL DEF Spec

\* The word of the mutex is only ever available, locked or contended, at every
\* point of ls_futex_lock and ls_futex_unlock.
THEOREM FutexTypes == Spec => []TypeOK
<1>1. IInv => TypeOK
  BY DEF IInv
<1> QED BY <1>1, Invariance, PTL

\* ls_futex_lock admits one thread at a time, and the assertion of
\* ls_futex_unlock holds.
THEOREM FutexExcludes == Spec => []MutualExclusion
<1>1. IInv => MutualExclusion
  BY DEF IInv
<1> QED BY <1>1, Invariance, PTL

\* No wake-up of a thread sleeping in ls_futex_lock is lost.
THEOREM FutexKeepsWakeUps == Spec => []NoLostWakeUp
<1>1. IInv => NoLostWakeUp
  BY DEF IInv
<1> QED BY <1>1, Invariance, PTL
=============================================================================
