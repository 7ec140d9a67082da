------------------------------ MODULE MCLogRing ------------------------------
(* Instances of LogRing for TLC: two tasks that log, as model values.      *)
EXTENDS LogRing
=============================================================================
