------------------------------- MODULE MCTools -------------------------------
(* The crash handler and the small tools beside the tournaments for TLC, of  *)
(* which one moves in each behaviour and the others rest: the handler and    *)
(* its log buffer, the folder its program runs in, a pausable timer, the     *)
(* random number dialogues, and the table of found cards.                    *)
EXTENDS CrashHandler, DataFolder, Timers, RandomTools, CardSearch

VARIABLE tried

(* Three cards that every column orders differently, two of equal cost; a
   query that finds all, one, or none. *)
CONSTANTS c1, c2, c3, q1, q2, q3

MCAttribute == [c \in Cards |->
  CASE c = c1 -> [name |-> 1, cmc |-> 2, power |-> 3, toughness |-> 1]
    [] c = c2 -> [name |-> 2, cmc |-> 2, power |-> 1, toughness |-> 3]
    [] c = c3 -> [name |-> 3, cmc |-> 1, power |-> 2, toughness |-> 2]]
MCFound == [q \in Queries |-> CASE q = q1 -> <<c1, c2, c3>> [] q = q2 -> <<c2>> [] q = q3 -> <<>>]

-----------------------------------------------------------------------------
HandlerRests == optedIn = "no" /\ Init
FolderRests == exists = {"start"} /\ FolderInit
TimerRests == now = 0 /\ duration = 0 /\ start_time = 0 /\ TimerInit

ToolsInit ==
  /\ RandomInit /\ CardInit
  /\ \/ tried = "handler" /\ Init /\ FolderRests /\ TimerRests
     \/ tried = "folder" /\ HandlerRests /\ FolderInit /\ TimerRests
     \/ tried = "timer" /\ HandlerRests /\ FolderRests /\ TimerInit
     \/ tried \in {"random", "cards"} /\ HandlerRests /\ FolderRests /\ TimerRests

toolVars == <<tried, vars, folderVars, timerVars, randomVars, cardVars>>

ToolsNext ==
  /\ UNCHANGED tried
  /\ \/ tried = "handler" /\ Next
          /\ UNCHANGED <<folderVars, timerVars, randomVars, cardVars>>
     \/ tried = "folder" /\ FolderNext
          /\ UNCHANGED <<vars, timerVars, randomVars, cardVars>>
     \/ tried = "timer" /\ TimerNext
          /\ UNCHANGED <<vars, folderVars, randomVars, cardVars>>
     \/ tried = "random" /\ RandomNext
          /\ UNCHANGED <<vars, folderVars, timerVars, cardVars>>
     \/ tried = "cards" /\ CardNext
          /\ UNCHANGED <<vars, folderVars, timerVars, randomVars>>

ToolsSpec == ToolsInit /\ [][ToolsNext]_toolVars
=============================================================================
