----------------------------- MODULE MCEvtcbQue -----------------------------
(***************************************************************************)
(* Two sessions, one of which uses an event object, and three nodes: the   *)
(* least for which run() has a group in hand, a group behind it and a      *)
(* callback scheduled meanwhile.                                           *)
(***************************************************************************)
EXTENDS EvtcbQue, TLC
=============================================================================
