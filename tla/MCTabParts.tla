----------------------------- MODULE MCTabParts -----------------------------
(* Three parts of a tournament tab for TLC, of which one moves in each       *)
(* behaviour and the others rest: the match panel, a table, and the times.   *)
(* They share nothing but the client, which each module has its own part of. *)
EXTENDS MatchPanel, TableList, RoundTimer

VARIABLE part

(* A match of two players and a bye, not played yet or with results beyond the
   spin boxes, as another program may write them. *)
CONSTANTS p1, p2, p3, r1, r2

MCMembers == [r \in Rounds |-> IF r = r1 THEN <<p1, p2>> ELSE <<p3>>]
NotPlayed == [wins |-> [p \in Players |-> Unset], draws |-> 0, confirmed |-> {}]
MCLoadable ==
  {NotPlayed,
   [wins |-> [p \in Players |-> SpinMax + 1], draws |-> 1, confirmed |-> {p1}]}

(* Three rows that the columns order differently, with equal times, a dropped
   player, game names that are names of others, and scores less than a point
   apart. *)
CONSTANTS a, b, c, v, w

MCRow == [x \in Items |->
  CASE x = a -> [number |-> 1, left |-> 2, status |-> 0, text |-> 2, gameName |-> 3, score |-> 0]
    [] x = b -> [number |-> 2, left |-> 1, status |-> 1, text |-> 1, gameName |-> 1, score |-> 1]
    [] x = c -> [number |-> 3, left |-> 1, status |-> 0, text |-> 3, gameName |-> 2, score |-> 3]]
MCPassing == {a, c}
MCHits == [x \in Words |-> IF x = v THEN {a, b} ELSE {c}]

-----------------------------------------------------------------------------
PanelRests == match = [r \in Rounds |-> NotPlayed] /\ Init
TableRests == kind = "rounds" /\ data = <<>> /\ TableInit
TimesRest == roundLength = Least(Lengths) /\ RoundTimerInit

TabInit ==
  \/ part = "panel" /\ Init /\ TableRests /\ TimesRest
  \/ part = "table" /\ PanelRests /\ TableInit /\ TimesRest
  \/ part = "times" /\ PanelRests /\ TableRests /\ RoundTimerInit

tabVars == <<part, vars, tableVars, roundTimerVars>>

TabNext ==
  \/ part = "panel" /\ Next /\ UNCHANGED <<part, tableVars, roundTimerVars>>
  \/ part = "table" /\ TableNext /\ UNCHANGED <<part, vars, roundTimerVars>>
  \/ part = "times" /\ RoundTimerNext /\ UNCHANGED <<part, vars, tableVars>>

TabSpec == TabInit /\ [][TabNext]_tabVars
=============================================================================
