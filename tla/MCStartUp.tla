------------------------------ MODULE MCStartUp ------------------------------
(* Instances of StartUp for TLC: workers and stations as model values.     *)
EXTENDS StartUp
=============================================================================
