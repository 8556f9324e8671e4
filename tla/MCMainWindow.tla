---------------------------- MODULE MCMainWindow ----------------------------
(* MainWindow for TLC: every constant that names a thing is a model value. *)
EXTENDS MainWindow
=============================================================================
