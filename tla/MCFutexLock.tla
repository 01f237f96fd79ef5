----------------------------- MODULE MCFutexLock -----------------------------
(***************************************************************************)
(* Instance of FutexLock.  The threads are only compared with each other,  *)
(* but the run checks liveness, so no symmetry is declared.                *)
(***************************************************************************)
EXTENDS FutexLock
=============================================================================
