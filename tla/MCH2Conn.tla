------------------------------ MODULE MCH2Conn ------------------------------
(* Instances of H2Conn for TLC. *)
EXTENDS H2Conn
MCDeltas == {1}
MCInitWindows == {0, MaxWindow}
=============================================================================
