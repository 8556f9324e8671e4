----------------------------- MODULE MCSaveFile -----------------------------
(* SaveFile for TLC.  Absent, Torn and NotOpen are model values. *)
EXTENDS SaveFile
=============================================================================
