--------------------------- MODULE MCHttpAdmission ---------------------------
(* Instance of HttpAdmission for TLC: sockets are model values.            *)
EXTENDS HttpAdmission
=============================================================================
