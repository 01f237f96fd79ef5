----------------------------- MODULE RobustMutex -----------------------------
(***************************************************************************)
(* What the locks of ls_lock.h promise their callers.                      *)
(*                                                                         *)
(* A lock word names the process that holds the lock by its pid, or is     *)
(* AVAIL.  Taking and releasing are single steps here.  A process may end  *)
(* at any point, leaving its pid in the word; once its pid no longer       *)
(* exists another thread may take the lock over, and is told so: the call  *)
(* returns the negated pid instead of 0.                                   *)
(***************************************************************************)
EXTENDS Integers

CONSTANTS
  Threads,   \* the threads that use the lock
  Procs,     \* process incarnations
  ProcOf,    \* the process a thread belongs to
  PidOf,     \* the pid the kernel gives to a process incarnation
  Avail      \* LS_LOCK_AVAIL

VARIABLES
  owner,     \* pid recorded in the lock word, or Avail
  inside,    \* threads between a successful lock and the release
  running,   \* processes whose threads can run
  known,     \* processes whose pid still exists (running, or not reaped yet)
  ret        \* what the lock call of a holder returned, 0 for the others

vars == <<owner, inside, running, known, ret>>

\* kill(pid, 0) finds nobody.
PidUnused(pid) == \A p \in known : PidOf[p] # pid

CanRun(t) == ProcOf[t] \in running

\* The lock file outlives the server: the word a new server finds may still
\* name a process of an earlier one.
Init ==
  /\ owner \in Int
  /\ inside = {}
  /\ running = {}
  /\ known = {}
  /\ ret = [t \in Threads |-> 0]

Lock(t) ==
  /\ CanRun(t) /\ t \notin inside
  /\ owner = Avail
  /\ owner' = PidOf[ProcOf[t]]
  /\ inside' = inside \cup {t}
  /\ ret' = [ret EXCEPT ![t] = 0]
  /\ UNCHANGED <<running, known>>

\* Take the lock over from a process that no longer exists.
Recover(t) ==
  /\ CanRun(t) /\ t \notin inside
  /\ owner # Avail /\ PidUnused(owner)
  /\ owner' = PidOf[ProcOf[t]]
  /\ inside' = inside \cup {t}
  /\ ret' = [ret EXCEPT ![t] = -owner]
  /\ UNCHANGED <<running, known>>

Unlock(t) ==
  /\ CanRun(t) /\ t \in inside
  /\ owner' = Avail
  /\ inside' = inside \ {t}
  /\ ret' = [ret EXCEPT ![t] = 0]
  /\ UNCHANGED <<running, known>>

Start(p) ==
  /\ p \notin known /\ PidUnused(PidOf[p])
  /\ running' = running \cup {p}
  /\ known' = known \cup {p}
  /\ UNCHANGED <<owner, inside, ret>>

\* The process ends: its threads stop where they are, the word stays.
Die(p) ==
  /\ p \in running
  /\ running' = running \ {p}
  /\ inside' = {t \in inside : ProcOf[t] # p}
  /\ ret' = [t \in Threads |-> IF ProcOf[t] = p THEN 0 ELSE ret[t]]
  /\ UNCHANGED <<owner, known>>

Reap(p) ==
  /\ p \in known \ running
  /\ known' = known \ {p}
  /\ UNCHANGED <<owner, inside, running, ret>>

Next ==
  \/ \E t \in Threads : Lock(t) \/ Recover(t) \/ Unlock(t)
  \/ \E p \in Procs : Start(p) \/ Die(p) \/ Reap(p)

Spec == Init /\ [][Next]_vars
=============================================================================
