---------------------------- MODULE MCPidSpinLock ----------------------------
(***************************************************************************)
(* Instances of PidSpinLock: three worker processes, one of which the      *)
(* server may fork later than the others, each using the lock from one     *)
(* thread.                                                                 *)
(***************************************************************************)
EXTENDS PidSpinLock

CONSTANTS t1, t2, t3, p1, p2, p3

MCThreads == {t1, t2, t3}
MCProcs == {p1, p2, p3}
MCProcOf == [t \in MCThreads |->
               CASE t = t1 -> p1 [] t = t2 -> p2 [] t = t3 -> p3]

\* Pids as a server outside a container has them; 9 of MCStaleWords belongs to
\* an earlier server (LS_SPIN_MIN_PID is scaled down to 3).
MCPidOf == [p \in MCProcs |->
               CASE p = p1 -> 4 [] p = p2 -> 5 [] p = p3 -> 6]
MCInitialWords == {0, 9}

\* A word no process of the server ever wrote.
MCGarbageWords == {2, -1}
=============================================================================
