--------------------------- MODULE TournamentLife ---------------------------
(***************************************************************************)
(* What the window promises about each tournament, whatever the tabs, the  *)
(* dialogues and the files: it is worked on in at most one place at a      *)
(* time, and one that was dismissed with unsaved changes does not come     *)
(* back in this run of the program.                                        *)
(***************************************************************************)
CONSTANT Tournaments

VARIABLE stage   (* of each tournament *)

Stages == {"new", "closed", "open", "dismissed"}

Init == stage = [t \in Tournaments |-> "new"]

Open(t) ==
  /\ stage[t] \in {"new", "closed"}
  /\ stage' = [stage EXCEPT ![t] = "open"]

Close(t) ==
  /\ stage[t] = "open"
  /\ stage' = [stage EXCEPT ![t] = "closed"]

Dismiss(t) ==
  /\ stage[t] = "open"
  /\ stage' = [stage EXCEPT ![t] = "dismissed"]

(* The program ends, perhaps while it was making a tournament: nothing is
   open in the next run. *)
Quit ==
  \E made \in SUBSET Tournaments :
    stage' = [t \in Tournaments |->
                IF stage[t] = "new" /\ t \notin made THEN "new" ELSE "closed"]

Next == (\E t \in Tournaments : Open(t) \/ Close(t) \/ Dismiss(t)) \/ Quit

Spec == Init /\ [][Next]_stage
=============================================================================
