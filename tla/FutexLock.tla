------------------------------ MODULE FutexLock ------------------------------
(***************************************************************************)
(* ls_mutex_t on Linux and the BSDs: ls_futex_lock, ls_futex_trylock and   *)
(* ls_futex_unlock, the mutex of the thread pools (WorkCrew) and of the    *)
(* memory pools.  The word is 0 (free), 1 (locked) or 2 (locked, somebody  *)
(* may sleep).  The sleep has no timeout, so a wake-up that is lost is     *)
(* lost for ever.                                                          *)
(*                                                                         *)
(* One action per atomic access or system call; the threads belong to one  *)
(* process and do not crash.                                               *)
(***************************************************************************)
EXTENDS Integers

CONSTANTS
  Threads,
  MAX_FUTEX_SPINCNT     \* attempts before a thread goes to sleep

ASSUME SpinAssumption == MAX_FUTEX_SPINCNT \in Nat

LS_LOCK_AVAIL == 0
LS_FUTEX_LOCKED1 == 1
LS_FUTEX_LOCKED2 == 2

VARIABLES
  word,   \* *p
  pc,     \* where each thread is
  spins   \* i, the attempts made in the spin loop

vars == <<word, pc, spins>>

\* Places in ls_futex_lock; "asleep" is in the kernel, in FUTEX_WAIT.
Awake == {"spin", "cas1", "mark", "wait", "cas2"}
Waiting == Awake \cup {"asleep"}
PCs == {"idle", "held", "wake"} \cup Waiting

Goto(t, to) == pc' = [pc EXCEPT ![t] = to]

Init ==
  /\ word = LS_LOCK_AVAIL
  /\ pc = [t \in Threads |-> "idle"]
  /\ spins = [t \in Threads |-> 0]

-----------------------------------------------------------------------------
(* ls_futex_trylock *)
TryLock(t) ==
  /\ pc[t] = "idle" /\ word = LS_LOCK_AVAIL
  /\ word' = LS_FUTEX_LOCKED1
  /\ Goto(t, "held")
  /\ UNCHANGED spins

(* ls_futex_lock *)
Call(t) ==
  /\ pc[t] = "idle"
  /\ Goto(t, IF MAX_FUTEX_SPINCNT = 0 THEN "cas1" ELSE "spin")
  /\ UNCHANGED <<word, spins>>

\* A turn of the adaptive loop: casvint(p, LS_LOCK_AVAIL, LS_FUTEX_LOCKED1).
Spin(t) ==
  /\ pc[t] = "spin"
  /\ IF word = LS_LOCK_AVAIL
       THEN /\ word' = LS_FUTEX_LOCKED1
            /\ Goto(t, "held")
            /\ spins' = [spins EXCEPT ![t] = 0]
       ELSE /\ UNCHANGED word
            /\ IF word = LS_FUTEX_LOCKED2 \/ spins[t] + 1 >= MAX_FUTEX_SPINCNT
                 THEN Goto(t, "cas1") /\ spins' = [spins EXCEPT ![t] = 0]
                 ELSE UNCHANGED pc /\ spins' = [spins EXCEPT ![t] = @ + 1]

\* Where a thread goes that found the word taken: it may sleep at once if the
\* word says that there are waiters, and has to say so itself otherwise.
AfterMiss == IF word = LS_FUTEX_LOCKED2 THEN "wait" ELSE "mark"

\* The CAS after the spin loop.
Cas1(t) ==
  /\ pc[t] = "cas1"
  /\ IF word = LS_LOCK_AVAIL
       THEN word' = LS_FUTEX_LOCKED1 /\ Goto(t, "held")
       ELSE UNCHANGED word /\ Goto(t, AfterMiss)
  /\ UNCHANGED spins

\* Fault: sleep without announcing it.
MarkSkipped(t) ==
  /\ pc[t] = "mark"
  /\ Goto(t, "asleep")
  /\ UNCHANGED <<word, spins>>

\* Fault: the waiters are counted in the word.
MarkCounts(t) ==
  /\ pc[t] = "mark"
  /\ word' = IF word = LS_LOCK_AVAIL THEN word ELSE word + 1
  /\ Goto(t, IF word # LS_LOCK_AVAIL THEN "wait" ELSE "cas2")
  /\ UNCHANGED spins

\* casvint(p, LS_FUTEX_LOCKED1, LS_FUTEX_LOCKED2) != LS_LOCK_AVAIL
Mark(t) ==
  /\ pc[t] = "mark"
  /\ word' = IF word = LS_FUTEX_LOCKED1 THEN LS_FUTEX_LOCKED2 ELSE word
  /\ Goto(t, IF word # LS_LOCK_AVAIL THEN "wait" ELSE "cas2")
  /\ UNCHANGED spins

\* FUTEX_WAIT: sleeps only if the word is still LS_FUTEX_LOCKED2.
FutexWait(t) ==
  /\ pc[t] = "wait"
  /\ Goto(t, IF word = LS_FUTEX_LOCKED2 THEN "asleep" ELSE "cas2")
  /\ UNCHANGED <<word, spins>>

\* FUTEX_WAIT may also return early (a signal).
Interrupt(t) ==
  /\ pc[t] = "asleep"
  /\ Goto(t, "cas2")
  /\ UNCHANGED <<word, spins>>

\* Fault: the lock is retaken as LOCKED1, although others may sleep.
Cas2AsLocked1(t) ==
  /\ pc[t] = "cas2"
  /\ IF word = LS_LOCK_AVAIL
       THEN word' = LS_FUTEX_LOCKED1 /\ Goto(t, "held")
       ELSE UNCHANGED word /\ Goto(t, AfterMiss)
  /\ UNCHANGED spins

\* The loop condition: casvint(p, LS_LOCK_AVAIL, LS_FUTEX_LOCKED2).
Cas2(t) ==
  /\ pc[t] = "cas2"
  /\ IF word = LS_LOCK_AVAIL
       THEN word' = LS_FUTEX_LOCKED2 /\ Goto(t, "held")
       ELSE UNCHANGED word /\ Goto(t, AfterMiss)
  /\ UNCHANGED spins

(* ls_futex_unlock *)

\* Fault: the word is reset only if nobody waits.
UnlockKeepsWaiters(t) ==
  /\ pc[t] = "held"
  /\ word' = IF word = LS_FUTEX_LOCKED2 THEN word ELSE LS_LOCK_AVAIL
  /\ Goto(t, IF word = LS_FUTEX_LOCKED2 THEN "wake" ELSE "idle")
  /\ UNCHANGED spins

\* Fault: a mutex marked LOCKED2 is released twice, by the exchange and
\* again after the wake-up.
WakeClearsWord(t) ==
  /\ pc[t] = "wake"
  /\ word' = LS_LOCK_AVAIL
  /\ Goto(t, "idle")
  /\ UNCHANGED spins

\* ls_atomic_setint(p, LS_LOCK_AVAIL) == LS_FUTEX_LOCKED2
Unlock(t) ==
  /\ pc[t] = "held"
  /\ word' = LS_LOCK_AVAIL
  /\ Goto(t, IF word = LS_FUTEX_LOCKED2 THEN "wake" ELSE "idle")
  /\ UNCHANGED spins

\* FUTEX_WAKE wakes one sleeper, if there is one.
Wake(t) ==
  /\ pc[t] = "wake"
  /\ \/ \E s \in Threads :
          /\ pc[s] = "asleep"
          /\ pc' = [pc EXCEPT ![t] = "idle", ![s] = "cas2"]
     \/ /\ \A s \in Threads : pc[s] # "asleep"
        /\ Goto(t, "idle")
  /\ UNCHANGED <<word, spins>>

-----------------------------------------------------------------------------
\* The steps the kernel must let a running thread make.
Run(t) == Spin(t) \/ Cas1(t) \/ Mark(t) \/ FutexWait(t) \/ Cas2(t) \/ Wake(t)

Next == \E t \in Threads :
  TryLock(t) \/ Call(t) \/ Run(t) \/ Interrupt(t) \/ Unlock(t)

\* Threads that can run do run, and critical sections end.  Interruptions of
\* the sleep are not promised by anybody.
Fairness == \A t \in Threads : WF_vars(Run(t)) /\ WF_vars(Unlock(t))

Spec == Init /\ [][Next]_vars
FairSpec == Spec /\ Fairness

-----------------------------------------------------------------------------
TypeOK ==
  /\ word \in {LS_LOCK_AVAIL, LS_FUTEX_LOCKED1, LS_FUTEX_LOCKED2}
  /\ pc \in [Threads -> PCs]
  /\ spins \in [Threads -> Nat]

\* ls_futex_lock lets one thread in at a time, and the word is free exactly
\* when nobody is in: assert(ls_atomic_value(p) != 0) in ls_futex_unlock.
MutualExclusion ==
  /\ \A s, t \in Threads : pc[s] = "held" /\ pc[t] = "held" => s = t
  /\ word = LS_LOCK_AVAIL <=> \A t \in Threads : pc[t] # "held"

\* No wake-up is lost: while a thread sleeps, either the word tells the holder
\* to wake somebody, or a thread is awake that will wake a sleeper or put
\* LS_FUTEX_LOCKED2 back before it sleeps or holds the lock itself.
NoLostWakeUp ==
  (\E t \in Threads : pc[t] = "asleep") =>
    \/ word = LS_FUTEX_LOCKED2
    \/ \E t \in Threads : pc[t] \in {"wake", "cas2", "mark", "wait"}

\* A lock that somebody waits for is handed over: it never happens that all
\* who want a free mutex sleep.
Progress ==
  (\E t \in Threads : pc[t] \in Waiting) ~>
    \/ \E t \in Threads : pc[t] = "held"
    \/ \A t \in Threads : pc[t] \notin Waiting
=============================================================================
