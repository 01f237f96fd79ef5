----------------------------- MODULE PidSpinLock -----------------------------
(***************************************************************************)
(* The lock every shared-memory structure of the server is guarded by:     *)
(* lsshmtypes.h maps ls_shmlock_lock and ls_shmlock_unlock to              *)
(* ls_atomic_spin_pidlock and ls_atomic_spin_pidunlock.  The word lives in *)
(* a file shared by all worker processes and outlives them; it holds the   *)
(* pid of the owner, so that a waiter can notice an owner that died and    *)
(* take the lock over.                                                     *)
(*                                                                         *)
(* One action per atomic access to the word or system call.  A process is  *)
(* "unborn", "alive", a "zombie" (dead, not waited for by its parent:      *)
(* kill(pid, 0) still succeeds) or "gone".                                 *)
(***************************************************************************)
EXTENDS Integers, FiniteSets

CONSTANTS
  Threads, Procs, ProcOf, PidOf,
  LS_SPIN_MIN_PID,       \* a word below it is taken for garbage
  MAX_SPINCNT_CHECK,     \* CAS attempts between two checks of the owner
  InitialWords,          \* what the lock file may hold at start
  NDEBUG                 \* the build leaves assert() out

LS_LOCK_AVAIL == 0

ASSUME ConstantsAssumption ==
  /\ ProcOf \in [Threads -> Procs]
  /\ PidOf \in [Procs -> Nat \ {0}]
  /\ LS_SPIN_MIN_PID \in Nat \ {0}
  /\ MAX_SPINCNT_CHECK \in Nat \ {0}
  /\ InitialWords \subseteq Int
  /\ NDEBUG \in BOOLEAN

VARIABLES
  word,     \* *p, the shared lock word
  proc,     \* life cycle of each process
  pc,       \* where each thread is
  waitpid,  \* the pid pidwait is checking
  cnt,      \* attempts left before the next check
  ret       \* what the lock call of a holder returned, 0 for the others

vars == <<word, proc, pc, waitpid, cnt, ret>>

Pid(t) == PidOf[ProcOf[t]]
ThreadsOf(p) == {t \in Threads : ProcOf[t] = p}

\* Places in ls_atomic_spin_pidlock, ls_atomic_spin_pidwait and pidunlock.
Waiting == {"entered", "spin", "reset", "kill", "steal"}
Holding == {"held", "clear"}
PCs == {"none", "idle"} \cup Waiting \cup Holding

Exists(pid) == \E p \in Procs : proc[p] \in {"alive", "zombie"} /\ PidOf[p] = pid

Goto(t, to) == pc' = [pc EXCEPT ![t] = to]

\* SIGKILL, a failed assert() or exit: the threads vanish, the word stays.
Terminate(p) ==
  /\ proc' = [proc EXCEPT ![p] = "zombie"]
  /\ pc' = [t \in Threads |-> IF ProcOf[t] = p THEN "none" ELSE pc[t]]
  /\ ret' = [t \in Threads |-> IF ProcOf[t] = p THEN 0 ELSE ret[t]]
  /\ waitpid' = [t \in Threads |-> IF ProcOf[t] = p THEN 0 ELSE waitpid[t]]
  /\ cnt' = [t \in Threads |-> IF ProcOf[t] = p THEN MAX_SPINCNT_CHECK
                                               ELSE cnt[t]]
  /\ UNCHANGED word

\* The locals of pidwait go back to their initial values.
ForgetLocals(t) ==
  /\ waitpid' = [waitpid EXCEPT ![t] = 0]
  /\ cnt' = [cnt EXCEPT ![t] = MAX_SPINCNT_CHECK]

\* A thread gets the lock: the word has just become its pid.
Acquired(t, r) ==
  /\ word' = Pid(t)
  /\ Goto(t, "held")
  /\ ret' = [ret EXCEPT ![t] = r]
  /\ ForgetLocals(t)
  /\ UNCHANGED proc

Init ==
  /\ word \in InitialWords
  /\ proc = [p \in Procs |-> "unborn"]
  /\ pc = [t \in Threads |-> "none"]
  /\ waitpid = [t \in Threads |-> 0]
  /\ cnt = [t \in Threads |-> MAX_SPINCNT_CHECK]
  /\ ret = [t \in Threads |-> 0]

-----------------------------------------------------------------------------
(* Processes *)

\* fork(): child_func() sets ls_spin_pid to the pid of the child, which is a
\* pid no existing process has.
Fork(p) ==
  /\ proc[p] = "unborn" /\ ~Exists(PidOf[p])
  /\ proc' = [proc EXCEPT ![p] = "alive"]
  /\ pc' = [t \in Threads |-> IF ProcOf[t] = p THEN "idle" ELSE pc[t]]
  /\ UNCHANGED <<word, waitpid, cnt, ret>>

Crash(p) == proc[p] = "alive" /\ Terminate(p)

\* The parent process waits for the child; from here on kill() fails.
Reap(p) ==
  /\ proc[p] = "zombie"
  /\ proc' = [proc EXCEPT ![p] = "gone"]
  /\ UNCHANGED <<word, pc, waitpid, cnt, ret>>

-----------------------------------------------------------------------------
(* ls_atomic_spin_pidlock, ls_atomic_pidspin_trylock *)

PidLock(t) ==
  /\ pc[t] = "idle"
  /\ IF word = LS_LOCK_AVAIL
       THEN Acquired(t, 0)
       ELSE Goto(t, "entered") /\ UNCHANGED <<word, proc, waitpid, cnt, ret>>

TryLock(t) ==
  /\ pc[t] = "idle" /\ word = LS_LOCK_AVAIL
  /\ Acquired(t, 0)

(* ls_atomic_spin_pidwait *)

\* assert(*p != ls_spin_pid), a plain read.
PidWait(t) ==
  /\ pc[t] = "entered"
  /\ IF word = Pid(t) /\ ~NDEBUG
       THEN Terminate(ProcOf[t])
       ELSE Goto(t, "spin") /\ UNCHANGED <<word, proc, waitpid, cnt, ret>>

\* One turn of the loop up to the next shared access.
Spin(t) ==
  /\ pc[t] = "spin"
  /\ \/ /\ word = LS_LOCK_AVAIL
        /\ Acquired(t, 0)
     \/ /\ word # LS_LOCK_AVAIL /\ word < LS_SPIN_MIN_PID
        /\ Goto(t, "reset")
        /\ UNCHANGED <<word, proc, waitpid, cnt, ret>>
     \/ /\ word >= LS_SPIN_MIN_PID /\ word # LS_LOCK_AVAIL
        /\ cnt' = [cnt EXCEPT ![t] = @ - 1]
        /\ IF cnt[t] = 1
             THEN Goto(t, "kill") /\ waitpid' = [waitpid EXCEPT ![t] = word]
             ELSE UNCHANGED <<pc, waitpid>>
        /\ UNCHANGED <<word, proc, ret>>

\* Fault: the store is forgotten.
ResetForgotten(t) ==
  /\ pc[t] = "reset"
  /\ Goto(t, "spin")
  /\ UNCHANGED <<word, proc, waitpid, cnt, ret>>

\* *p = LS_LOCK_AVAIL, a plain store.
Reset(t) ==
  /\ pc[t] = "reset"
  /\ word' = LS_LOCK_AVAIL
  /\ Goto(t, "spin")
  /\ UNCHANGED <<proc, waitpid, cnt, ret>>

\* Fault: cnt = MAX_SPINCNT_CHECK is forgotten after a check of the owner.
RespinKeepsCount(t) ==
  /\ Goto(t, "spin")
  /\ waitpid' = [waitpid EXCEPT ![t] = 0]
  /\ UNCHANGED <<word, proc, cnt, ret>>

\* Not taken over: cnt starts again, after usleep(200).
Respin(t) ==
  /\ Goto(t, "spin")
  /\ ForgetLocals(t)
  /\ UNCHANGED <<word, proc, ret>>

\* Fault: any failure of the owner check counts as a dead owner.
KillIgnoresResult(t) ==
  /\ pc[t] = "kill"
  /\ Goto(t, "steal") /\ UNCHANGED <<word, proc, waitpid, cnt, ret>>

\* Fault: the owner is never declared dead.
KillNeverFails(t) == pc[t] = "kill" /\ Respin(t)

\* kill(waitpid, 0) < 0 && errno == ESRCH
Kill(t) ==
  /\ pc[t] = "kill"
  /\ IF Exists(waitpid[t])
       THEN Respin(t)
       ELSE Goto(t, "steal") /\ UNCHANGED <<word, proc, waitpid, cnt, ret>>

\* Fault: a plain store instead of the CAS.
StealWithoutCas(t) == pc[t] = "steal" /\ Acquired(t, -waitpid[t])

\* Fault: the caller is not told that the owner had died.
StealSilently(t) ==
  /\ pc[t] = "steal"
  /\ IF word = waitpid[t] THEN Acquired(t, 0) ELSE Respin(t)

\* ls_atomic_casint(p, waitpid, ls_spin_pid)
Steal(t) ==
  /\ pc[t] = "steal"
  /\ IF word = waitpid[t] THEN Acquired(t, -waitpid[t]) ELSE Respin(t)

(* ls_atomic_spin_pidunlock *)

\* assert(*p == ls_spin_pid)
PidUnlock(t) ==
  /\ pc[t] = "held"
  /\ IF word = Pid(t) \/ NDEBUG
       THEN Goto(t, "clear") /\ UNCHANGED <<word, proc, waitpid, cnt, ret>>
       ELSE Terminate(ProcOf[t])

\* Fault: the store of the release is lost.
ClearLost(t) ==
  /\ pc[t] = "clear"
  /\ Goto(t, "idle")
  /\ UNCHANGED <<word, proc, waitpid, cnt, ret>>

\* ls_atomic_clrint(p)
Clear(t) ==
  /\ pc[t] = "clear"
  /\ word' = LS_LOCK_AVAIL
  /\ Goto(t, "idle")
  /\ ret' = [ret EXCEPT ![t] = 0]
  /\ UNCHANGED <<proc, waitpid, cnt>>

-----------------------------------------------------------------------------
Locking(t) ==
  PidWait(t) \/ Spin(t) \/ Reset(t) \/ Kill(t) \/ Steal(t)
Unlocking(t) == PidUnlock(t) \/ Clear(t)

Next ==
  \/ \E p \in Procs : Fork(p) \/ Crash(p) \/ Reap(p)
  \/ \E t \in Threads :
       PidLock(t) \/ TryLock(t) \/ Locking(t) \/ Unlocking(t)

\* The kernel runs every runnable thread, critical sections end, and the
\* server's parent process waits for its children.  Nobody has to ask for
\* the lock, and nobody has to crash.
Fairness ==
  /\ \A t \in Threads : WF_vars(Locking(t)) /\ WF_vars(Unlocking(t))
  /\ \A p \in Procs : WF_vars(Reap(p))

Spec == Init /\ [][Next]_vars
FairSpec == Spec /\ Fairness

-----------------------------------------------------------------------------
\* What the lock word can hold, and the pids among it that pidwait checks.
Words == InitialWords \cup {LS_LOCK_AVAIL} \cup {PidOf[p] : p \in Procs}
Owners == {w \in Words : w >= LS_SPIN_MIN_PID}

\* The word is never anything but what the file held, a pid of the server, or
\* free.  pidwait examines an owner exactly when its attempts are used up, and
\* a lock call returns 0 or the negated pid of such an owner.
TypeOK ==
  /\ word \in Words
  /\ proc \in [Procs -> {"unborn", "alive", "zombie", "gone"}]
  /\ pc \in [Threads -> PCs]
  /\ waitpid \in [Threads -> Owners \cup {0}]
  /\ cnt \in [Threads -> 0 .. MAX_SPINCNT_CHECK]
  /\ ret \in [Threads -> Int]
  /\ \A t \in Threads :
       /\ cnt[t] = 0 <=> pc[t] \in {"kill", "steal"}
       /\ waitpid[t] # 0 <=> pc[t] \in {"kill", "steal"}
       /\ ret[t] # 0 => pc[t] \in Holding /\ -ret[t] \in Owners

\* No pid is given out twice while the lock file is in use.
NoPidReuse == \A p, q \in Procs : PidOf[p] = PidOf[q] => p = q

\* No process of the server has a pid pidwait would take for garbage, and
\* the lock file holds none.
SanePids ==
  /\ \A p \in Procs : PidOf[p] >= LS_SPIN_MIN_PID
  /\ \A w \in InitialWords :
       w = LS_LOCK_AVAIL \/ (w >= LS_SPIN_MIN_PID /\ \A p \in Procs : PidOf[p] # w)

\* At most one thread is between a lock call that returned and the release,
\* however the owners before it died and whoever takes over: the guarantee
\* of ls_atomic_spin_pidlock.
MutualExclusion ==
  \A s, t \in Threads : pc[s] \in Holding /\ pc[t] \in Holding => s = t

\* assert(*p == ls_spin_pid) in ls_atomic_spin_pidunlock never fails: the
\* word names the holder from the acquisition to the release.
HolderOwnsWord == \A t \in Threads : pc[t] \in Holding => word = Pid(t)

\* assert(*p != ls_spin_pid) in ls_atomic_spin_pidwait never fails where each
\* process uses the lock from one thread: a process that died holding the
\* lock does not come back to find itself the owner.
NoSelfWait == \A t \in Threads : pc[t] = "entered" => word # Pid(t)

\* Whenever somebody waits while nobody holds the lock - it is free, or its
\* owner died holding it - somebody gets it, or the waiters are gone:
\* pidwait never spins for ever on a dead owner.
Progress ==
  (\E t \in Threads : pc[t] \in Waiting) ~>
    \/ \E t \in Threads : pc[t] \in Holding
    \/ \A t \in Threads : pc[t] \notin Waiting

\* The spinning, checking and stealing of pidlock amounts to atomic lock,
\* take-over and unlock steps, each reported to the caller as it happened:
\* 0, or the negated pid of an owner that no longer existed.
Abstract == INSTANCE RobustMutex WITH
  owner <- word,
  inside <- {t \in Threads : pc[t] \in Holding},
  running <- {p \in Procs : proc[p] = "alive"},
  known <- {p \in Procs : proc[p] \in {"alive", "zombie"}},
  Avail <- LS_LOCK_AVAIL

ImplementsRobustMutex == Abstract!Spec
=============================================================================
