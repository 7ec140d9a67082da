----------------------------- MODULE MCOtaUpdate -----------------------------
(* OtaUpdate for TLC; the configurations give the constants their values.  *)
EXTENDS OtaUpdate
=============================================================================
