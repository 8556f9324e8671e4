------------------------------- MODULE MCConfig -------------------------------
(***************************************************************************)
(* Config for TLC: a list of two, up to four widgets, so that it overflows *)
(* with elements that were read and with elements that were added, files   *)
(* with up to three, one more than the program writes; two settings tabs.  *)
(***************************************************************************)
EXTENDS Config, TLC

Symmetry == Permutations(SettingTabs)
=============================================================================
