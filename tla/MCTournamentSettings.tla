------------------------ MODULE MCTournamentSettings ------------------------
(***************************************************************************)
(* TournamentSettings for TLC: spin boxes to 2, a length to 3 minutes, C   *)
(* ints of nine bits, and loaded settings on both sides of each: every pair *)
(* of limits up to 3, a length that is not of whole minutes, one over the  *)
(* box, and lengths and table numbers that become negative, or another     *)
(* number, as an int.                                                      *)
(***************************************************************************)
EXTENDS TournamentSettings

MCSpinMax == 2
MCLengthMax == 3
MCMaxInt == 255

(* Size, table number and length of the loaded settings. *)
MCOthers ==
  {[size |-> 2, table |-> 1, length |-> 60], [size |-> 3, table |-> 3, length |-> 90],
   [size |-> 1, table |-> 300, length |-> 180], [size |-> 0, table |-> 2, length |-> 240],
   [size |-> 2, table |-> 513, length |-> 300], [size |-> 2, table |-> 0, length |-> 572]}
MCLoadable ==
  {[min |-> l[1], max |-> l[2], size |-> o.size, table |-> o.table, length |-> o.length,
    checkIn |-> c, deckReg |-> d] :
     l \in {x \in (0..3) \X (0..3) : x[1] <= x[2]}, o \in MCOthers, c \in BOOLEAN, d \in BOOLEAN}
MCDefaults ==
  [min |-> 0, max |-> 1, size |-> 2, table |-> 1, length |-> 60,
   checkIn |-> FALSE, deckReg |-> FALSE]
MCEntries ==
  [min : 0..MCSpinMax, max : 0..MCSpinMax, size : {2}, table : {1}, minutes : {1},
   checkIn : {TRUE}, choice : 1..4]
=============================================================================
