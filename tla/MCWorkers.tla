------------------------------- MODULE MCWorkers -------------------------------
(* Workers for TLC: three texts, so that one can be set while one is shown   *)
(* and one more is on its way.                                               *)
EXTENDS Workers
=============================================================================
