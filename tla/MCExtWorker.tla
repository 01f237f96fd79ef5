---------------------------- MODULE MCExtWorker ----------------------------
(***************************************************************************)
(* Workers with one connection each: two of them behind a load balancer,   *)
(* only the first with a retry timeout (run extworker), and the first of   *)
(* them alone (extworker_live).                                            *)
(***************************************************************************)
EXTENDS ExtWorker, TLC

CONSTANTS w1, w2

TwoWorkers == <<w1, w2>>
OneWorker == <<w1>>
Pools == w1 :> 1 @@ w2 :> 1
Pool == w1 :> 1
FirstRetries == w1 :> TRUE @@ w2 :> FALSE
Retries == w1 :> TRUE
Symmetry == Permutations(Requests)
=============================================================================
