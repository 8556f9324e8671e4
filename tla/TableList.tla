------------------------------ MODULE TableList ------------------------------
(***************************************************************************)
(* One table of a tournament tab: SearchSortTableWidget keeps the rows it  *)
(* was given, a FilteredList keeps those that pass the box, ordered, and   *)
(* those of them that match the search, and the TableModel draws a copy.   *)
(* A row that is clicked is looked up in the list by its number.           *)
(*                                                                         *)
(* The comparators return an int, negative, zero or positive;              *)
(* std::stable_sort takes it for a bool, so that "differs" becomes "comes  *)
(* before".  FilteredList::insert, which no table calls, is left out.      *)
(***************************************************************************)
EXTENDS Integers, Sequences, SequencesExt

CONSTANTS
  Items,       (* players, rounds or scores                                  *)
  Row,         (* what the comparators read of an item: texts as numbers in
                  the order of strcmp, scores in parts of a point            *)
  Point,       (* so many parts are a whole point                            *)
  Passing,     (* the items that pass the box                                *)
  Words, Hits, (* words a search is made of, and the items that hold them    *)
  MaxRows      (* bound on the rows of a table                               *)

Columns == {"number", "left", "status", "text", "gameName", "score"}

ASSUME TableAssumption ==
  /\ Row \in [Items -> [Columns -> Int]]
  /\ Point \in Nat \ {0}
  /\ Passing \subseteq Items
  /\ Hits \in [Words -> SUBSET Items]
  /\ MaxRows \in Nat

VARIABLES
  kind,                (* what the table is about                            *)
  data, box,           (* of SearchSortTableWidget: its rows, its tick box   *)
  original, filtered,  (* of FilteredList, and the four below                *)
  lastSearch, ascending, current_sort,
  mdldata              (* of TableModel: the rows as they are drawn          *)

list == <<original, filtered, lastSearch, ascending, current_sort>>
tableVars == <<kind, data, box, list, mdldata>>

-----------------------------------------------------------------------------
(* Comparators and orders.                                                 *)

(* The algorithms of the columns.  The scores have six columns of numbers,
   which are compared alike: one stands for all. *)
getDefaultAlgs ==
  [rounds  |-> <<"number", "left", "text">>,
   players |-> <<"status", "text", "gameName">>,
   scores  |-> <<"text", "score">>]

Sign(n) == IF n > 0 THEN 1 ELSE IF n < 0 THEN -1 ELSE 0

(* A difference of two scores, as the parameter x of __sort holds it. *)
Truncated(d) == Sign(d) * ((Sign(d) * d) \div Point)

compare(alg, a, b) ==
  CASE alg = "number"   -> IF Row[a].number > Row[b].number THEN 1 ELSE 0
    [] alg = "gameName" -> Sign(Row[a].text - Row[b].gameName)
    [] alg = "score"    -> Sign(Truncated(Row[a].score - Row[b].score))
    [] OTHER            -> Sign(Row[a][alg] - Row[b][alg])

ComesBefore(alg, a, b) == compare(alg, a, b) # 0

Reordered(rows, p) == [i \in DOMAIN rows |-> rows[p[i]]]

(* std::stable_sort.  When every row claims to come before every other one,
   each merge takes the later row first, and the rows are reversed.  When
   ComesBefore is a strict weak order of the rows they are sorted.  Otherwise the
   behaviour is undefined, and the rows may end in any order. *)
stable_sort(alg, rows) ==
  LET R == DOMAIN rows
      before(i, j) == ComesBefore(alg, rows[i], rows[j])
      tied(i, j) == ~before(i, j) /\ ~before(j, i)
      mutual == \A i, j \in R : i # j => before(i, j)
      weakOrder ==
        \A i, j, k \in R : (i # j /\ j # k) =>
          /\ before(i, j) => ~before(j, i)
          /\ i # k /\ before(i, j) /\ before(j, k) => before(i, k)
          /\ i # k /\ tied(i, j) /\ tied(j, k) => tied(i, k)
      inOrder(p) ==
        \A i, j \in R : i < j =>
          before(p[i], p[j]) \/ (tied(p[i], p[j]) /\ p[i] < p[j])
  IN  IF mutual THEN {Reverse(rows)}
      ELSE {Reordered(rows, p) :
              p \in {q \in Bijection(R, R) : weakOrder => inOrder(q)}}

(* A search is a sequence of words with a blank between two.  The loop over its
   words looks at the first, then at the empty text before the blank it has
   just found, which every name holds. *)
matches(x, query) == Len(query) > 1 \/ x \in Hits[query[1]]

(* The loops that copy the rows of a set, in their order. *)
Kept(rows, good) ==
  LET kept[i \in 0..Len(rows)] ==
        IF i = 0 THEN <<>>
        ELSE IF rows[i] \in good THEN Append(kept[i - 1], rows[i]) ELSE kept[i - 1]
  IN  kept[Len(rows)]

Found(rows, query) ==
  IF query = <<>> THEN rows ELSE Kept(rows, {x \in Items : matches(x, query)})

Boxed(rows, ticked) == IF ticked THEN Kept(rows, Passing) ELSE rows

getFiltered(rows, up) == IF up THEN rows ELSE Reverse(rows)

getDataAt(i) == getFiltered(filtered, ascending)[i]

Rows == BoundedSeq(Items, MaxRows)
Searches == BoundedSeq(Words, 2)

-----------------------------------------------------------------------------
TableInit ==
  /\ kind \in DOMAIN getDefaultAlgs
  /\ data \in Rows
  /\ box = FALSE
  /\ current_sort = getDefaultAlgs[kind][1]
  /\ original \in stable_sort(current_sort, data)
  /\ filtered = original
  /\ lastSearch = <<>>
  /\ ascending = TRUE
  /\ mdldata = filtered

(* Mutant of FilterList: the search is forgotten. *)
FilterListAfresh(rows, ticked) ==
  /\ data' = rows
  /\ box' = ticked
  /\ original' \in stable_sort(current_sort, Boxed(rows, ticked))
  /\ filtered' = original'
  /\ mdldata' = getFiltered(filtered', ascending)
  /\ UNCHANGED <<kind, lastSearch, ascending, current_sort>>

(* filterList with setBase: the box, the order, then the search. *)
FilterList(rows, ticked) ==
  /\ data' = rows
  /\ box' = ticked
  /\ original' \in stable_sort(current_sort, Boxed(rows, ticked))
  /\ filtered' = Found(original', lastSearch)
  /\ mdldata' = getFiltered(filtered', ascending)
  /\ UNCHANGED <<kind, lastSearch, ascending, current_sort>>

setData(rows) == FilterList(rows, box)

addDatum(x) == Len(data) < MaxRows /\ FilterList(Append(data, x), box)

(* The players of a tournament and its rounds have a box, the scores none. *)
filterSelected == kind # "scores" /\ FilterList(data, ~box)

onFilterChange(query) ==
  /\ lastSearch' = query
  /\ filtered' = Found(original, query)
  /\ mdldata' = getFiltered(filtered', ascending)
  /\ UNCHANGED <<kind, data, box, original, ascending, current_sort>>

(* Mutant of sortChanged: the arrow is kept after the rows are drawn. *)
sortChangedArrowLast(column, up) ==
  /\ column \in DOMAIN getDefaultAlgs[kind]
  /\ ascending' = up
  /\ current_sort' = getDefaultAlgs[kind][column]
  /\ original' \in stable_sort(current_sort', original)
  /\ filtered' \in stable_sort(current_sort', filtered)
  /\ mdldata' = getFiltered(filtered', ascending)
  /\ UNCHANGED <<kind, data, box, lastSearch>>

(* Mutant of sortChanged: only the rows found are sorted. *)
sortChangedFoundOnly(column, up) ==
  /\ column \in DOMAIN getDefaultAlgs[kind]
  /\ ascending' = up
  /\ current_sort' = getDefaultAlgs[kind][column]
  /\ filtered' \in stable_sort(current_sort', filtered)
  /\ mdldata' = getFiltered(filtered', up)
  /\ UNCHANGED <<kind, data, box, original, lastSearch>>

(* A click on a column, or on its arrow.  No table has a column without an
   algorithm; FilteredList::sort orders its two lists one by one. *)
sortChanged(column, up) ==
  /\ column \in DOMAIN getDefaultAlgs[kind]
  /\ ascending' = up
  /\ current_sort' = getDefaultAlgs[kind][column]
  /\ original' \in stable_sort(current_sort', original)
  /\ filtered' \in stable_sort(current_sort', filtered)
  /\ mdldata' = getFiltered(filtered', up)
  /\ UNCHANGED <<kind, data, box, lastSearch>>

TableNext ==
  \/ \E rows \in Rows : setData(rows)
  \/ \E x \in Items : addDatum(x)
  \/ filterSelected
  \/ \E query \in Searches : onFilterChange(query)
  \/ \E column \in 1..3, up \in BOOLEAN : sortChanged(column, up)

TableSpec == TableInit /\ [][TableNext]_tableVars

-----------------------------------------------------------------------------
(* Properties.                                                             *)

Times(rows, x) == Cardinality({i \in DOMAIN rows : rows[i] = x})

(* The row a click is on is the row getDataAt finds: the list that is looked up
   has not been turned, sorted or filtered since the table was drawn. *)
RowIsItem ==
  /\ Len(mdldata) = Len(filtered)
  /\ \A i \in DOMAIN mdldata : getDataAt(i) = mdldata[i]

(* Whatever sorting, ticking, searching and replacing came before, the table
   draws each row it was given that passes the box and the search, as often as
   it was given, and no other row. *)
FilterIsExact ==
  \A x \in Items :
    Times(mdldata, x) =
      IF (box => x \in Passing) /\ (lastSearch = <<>> \/ matches(x, lastSearch))
      THEN Times(data, x) ELSE 0

(* By match number, the one column whose comparator orders, the rows fall as
   they are drawn "ascending", and they stay in order when rows are replaced,
   and when a search is made or given up. *)
NumbersFall ==
  current_sort = "number" =>
    /\ filtered = Found(original, lastSearch)
    /\ IsSorted(getFiltered(mdldata, ascending),
                LAMBDA a, b : Row[a].number >= Row[b].number)

(* test_sort of FilteredList: sorted with strcmp, the larger text is first. *)
SortedAsTested ==
  [][(\E column \in 1..3, up \in BOOLEAN : sortChanged(column, up))
       /\ current_sort' = "text"
     => IsSorted(filtered', LAMBDA a, b : compare("text", a, b) >= 0)]_tableVars

=============================================================================
