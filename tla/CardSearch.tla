----------------------------- MODULE CardSearch -----------------------------
(***************************************************************************)
(* The search for cards: SearchModel, a table model for a Qt view, keeps   *)
(* one SearchResult of the search engine and which end it is read from.    *)
(* A view knows the number of rows it was last told, and may ask for any   *)
(* of their cells at any time.                                             *)
(***************************************************************************)
EXTENDS Integers, Sequences, SequencesExt

CONSTANTS
  Cards,
  Attribute,   (* of every card: name, cmc, power, toughness, as numbers     *)
  Queries,
  Found,       (* what the engine finds for a query, in its own order        *)
  NoResult     (* the result is nullptr                                      *)

(* mse_search_sort_type_t, as far as the program knows it.  The sort_type of a
   new result is indeterminate: any of them is assumed to be there. *)
SortTypes == {"name", "cmc", "power", "toughness"}

ASSUME CardAssumption ==
  /\ Attribute \in [Cards -> [SortTypes -> Int]]
  /\ Found \in [Queries -> Seq(Cards)]
  /\ \A q \in Queries : IsInjective(Found[q])

VARIABLES
  result,      (* cards, and sort_type, which no constructor sets            *)
  ascending,
  viewRows,    (* the rows the view was told                                 *)
  clicked      (* history: the column result was last sorted by, or -1       *)

cardVars == <<result, ascending, viewRows, clicked>>

CardInit ==
  /\ result = NoResult
  /\ ascending = TRUE
  /\ viewRows = 0 /\ clicked = -1

CardCount == IF result = NoResult THEN 0 ELSE Len(result.cards)

-----------------------------------------------------------------------------
(* Deliberately wrong variants of definitions below, one per property: each  *)
(* is a bug this code could have had, and breaks the property named.       *)

(* RowsAreResult: the view is told of the new rows when it sorts them. *)
QuietQuery(q) ==
  /\ \E ty \in SortTypes : result' = [cards |-> Found[q], sort_type |-> ty]
  /\ clicked' = -1
  /\ UNCHANGED <<ascending, viewRows>>

(* CellsAreSorted: a row counts from the end when the order is descending. *)
RowFromOtherEnd(row) ==
  IF ascending THEN result.cards[row + 1] ELSE result.cards[CardCount - row]

-----------------------------------------------------------------------------
(* What SearchModel::data reads for a row, counted from 0. *)
RowRead(row) == IF ascending THEN CardCount - row - 1 ELSE row
RowShown(row) == result.cards[RowRead(row) + 1]

(* mse_sort_search_results: the largest first, which data takes for granted
   when it reads the ascending order from the end. *)
mse_sort(cards, type) ==
  {s \in SetToSeqs(ToSet(cards)) :
     \A j \in 1..(Len(s) - 1) : Attribute[s[j]][type] >= Attribute[s[j + 1]][type]}

rerender == viewRows' = IF result' = NoResult THEN 0 ELSE Len(result'.cards)

(* The columns are "Name", "CMC", "Colours", "Power", "Toughness" and "Types";
   the last two are sorted as the result was before, or was not. *)
TypeOf(column) ==
  CASE column = 0 -> "name"
    [] column = 1 -> "cmc"
    [] column = 2 -> "power"
    [] column = 3 -> "toughness"
    [] OTHER -> result.sort_type

SortCards(column, up) ==
  /\ ascending' = up
  /\ IF result = NoResult THEN UNCHANGED <<result, clicked>>
     ELSE /\ \E s \in mse_sort(result.cards, TypeOf(column)) :
               result' = [cards |-> s, sort_type |-> TypeOf(column)]
          /\ clicked' = column
  /\ rerender

(* The new result is not sorted, whatever the header shows. *)
set_query(q) ==
  /\ \E ty \in SortTypes : result' = [cards |-> Found[q], sort_type |-> ty]
  /\ clicked' = -1
  /\ rerender
  /\ UNCHANGED ascending

(* The engine refuses the query: the old result is gone, and the view is not
   told. *)
set_query_fails ==
  /\ result' = NoResult /\ clicked' = -1
  /\ UNCHANGED <<ascending, viewRows>>

CardNext ==
  \/ \E column \in 0..5, up \in BOOLEAN : SortCards(column, up)
  \/ \E q \in Queries : set_query(q)
  \/ set_query_fails

CardSpec == CardInit /\ [][CardNext]_cardVars

-----------------------------------------------------------------------------
(* data() gives a blank for a row beyond rowCount. *)
Blank(row) == row >= CardCount

(* Whichever row the view asks for, data() never reads beyond the result, which
   would throw into Qt; and the view has another number of rows than the result
   only after a query failed, when all its cells are blank. *)
RowsAreResult ==
  /\ \A row \in 0..(viewRows - 1) :
       Blank(row) \/ RowRead(row) \in 0..(CardCount - 1)
  /\ viewRows # CardCount => result = NoResult

(* A click on "Name" or "CMC" orders the cells by what the column shows, in the
   direction of its arrow, until the next query; one on "Power" orders them by
   toughness, and one on "Colours" by power. *)
CellsAreSorted ==
  clicked \in 0..3 =>
    \A row \in 0..(CardCount - 2) :
      LET at(r) == Attribute[RowShown(r)]
                     [CASE clicked = 0 -> "name" [] clicked = 1 -> "cmc"
                        [] clicked = 2 -> "power" [] clicked = 3 -> "toughness"]
      IN  IF ascending THEN at(row) <= at(row + 1) ELSE at(row) >= at(row + 1)
=============================================================================
