----------------------------- MODULE MCTableList -----------------------------
(* TableList for TLC: three rows that the columns order differently, with    *)
(* equal times, a dropped player, game names that are names of others, and   *)
(* scores less than a point apart.                                           *)
EXTENDS TableList

CONSTANTS a, b, c, v, w

MCRow == [x \in Items |->
  CASE x = a -> [number |-> 1, left |-> 2, status |-> 0, text |-> 2, gameName |-> 3, score |-> 0]
    [] x = b -> [number |-> 2, left |-> 1, status |-> 1, text |-> 1, gameName |-> 1, score |-> 1]
    [] x = c -> [number |-> 3, left |-> 1, status |-> 0, text |-> 3, gameName |-> 2, score |-> 3]]
MCPassing == {a, c}
MCHits == [x \in Words |-> IF x = v THEN {a, b} ELSE {c}]
=============================================================================
