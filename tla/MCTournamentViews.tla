-------------------------- MODULE MCTournamentViews --------------------------
(* TournamentViews for TLC: two players, who meet in one round, and one of   *)
(* whom has another round alone (a bye).                                   *)
EXTENDS TournamentViews

CONSTANTS p1, p2, r1, r2

MCMembers == [r \in Rounds |-> IF r = r1 THEN {p1, p2} ELSE {p1}]
=============================================================================
