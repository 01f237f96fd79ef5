---------------------------- MODULE MCSupervisor ----------------------------
(***************************************************************************)
(* The instance of Supervisor for model checking.                          *)
(***************************************************************************)
EXTENDS Supervisor
=============================================================================
