---------------------------- MODULE CallbackQueue ----------------------------
(***************************************************************************)
(* What EvtcbQue promises to the sessions of the server.  A callback is    *)
(* scheduled for a session or for none.  The callbacks of one session      *)
(* start in the order of scheduling, each of them once, and closing a      *)
(* session takes away all that have not started.  Callbacks of different   *)
(* sessions, and those of no session, may start in any order.  A callback  *)
(* may itself run further callbacks before it returns, so those under way  *)
(* form a stack.                                                           *)
(***************************************************************************)
EXTENDS Sequences, SequencesExt

CONSTANTS Nodes, Sessions

VARIABLES
  pending,   \* for each session, its scheduled callbacks that wait, in order
  loose,     \* scheduled callbacks of no session that wait
  active     \* callbacks under way, the innermost last

Fresh(n) ==
  /\ n \notin loose \cup Range(active)
  /\ \A s \in Sessions : n \notin Range(pending[s])

Init ==
  /\ pending = [s \in Sessions |-> <<>>]
  /\ loose = {}
  /\ active = <<>>

Schedule(n, s) ==
  /\ Fresh(n)
  /\ pending' = [pending EXCEPT ![s] = Append(@, n)]
  /\ UNCHANGED <<loose, active>>

ScheduleLoose(n) ==
  /\ Fresh(n)
  /\ loose' = loose \cup {n}
  /\ UNCHANGED <<pending, active>>

Close(s) ==
  /\ pending' = [pending EXCEPT ![s] = <<>>]
  /\ UNCHANGED <<loose, active>>

Start(s) ==
  /\ pending[s] # <<>>
  /\ active' = Append(active, Head(pending[s]))
  /\ pending' = [pending EXCEPT ![s] = Tail(@)]
  /\ UNCHANGED loose

StartLoose(n) ==
  /\ n \in loose
  /\ loose' = loose \ {n}
  /\ active' = Append(active, n)
  /\ UNCHANGED pending

Finish ==
  /\ active # <<>>
  /\ active' = Front(active)
  /\ UNCHANGED <<pending, loose>>

Next ==
  \/ \E n \in Nodes : ScheduleLoose(n) \/ StartLoose(n)
  \/ \E n \in Nodes, s \in Sessions : Schedule(n, s)
  \/ \E s \in Sessions : Close(s) \/ Start(s)
  \/ Finish

vars == <<pending, loose, active>>
Spec == Init /\ [][Next]_vars
=============================================================================
