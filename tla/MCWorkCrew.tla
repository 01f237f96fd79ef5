----------------------------- MODULE MCWorkCrew -----------------------------
(***************************************************************************)
(* Instances of WorkCrew.  Jobs and workers are only compared with each    *)
(* other, so the run without liveness uses their symmetry.                 *)
(***************************************************************************)
EXTENDS WorkCrew

Symmetry == Permutations(Jobs) \cup Permutations(Workers)

\* adjustIdle allows one idle worker; maxWorkers raises the limit.
MCIdleChoices == {<<1, 1>>}
MCMaxChoices == {2}
MCNoChoices == {}
=============================================================================
