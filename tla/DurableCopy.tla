----------------------------- MODULE DurableCopy -----------------------------
(***************************************************************************)
(* What the application promises about a tournament's data, whatever the   *)
(* files it is kept in: the newest readable copy on the disk is replaced   *)
(* only by a complete write of what is in memory.  It may be lost, or fall *)
(* back to an older one, only after something went wrong since that write. *)
(***************************************************************************)
EXTENDS Integers

CONSTANTS Absent, NotOpen

VARIABLES
  live,   (* the version in memory, or NotOpen         *)
  kept,   (* the newest readable copy, or Absent       *)
  risk    (* faults since the last complete write      *)

Init ==
  /\ live = NotOpen
  /\ kept = Absent
  /\ risk = 0

(* A new tournament, where nothing is kept yet. *)
Begin ==
  /\ live = NotOpen /\ kept = Absent
  /\ live' = 0
  /\ UNCHANGED <<kept, risk>>

(* A tournament is only ever opened at its newest copy. *)
Reopen ==
  /\ live = NotOpen /\ kept # Absent
  /\ live' = kept
  /\ UNCHANGED <<kept, risk>>

Edit ==
  /\ live # NotOpen
  /\ live' = live + 1
  /\ UNCHANGED <<kept, risk>>

Commit ==
  /\ live # NotOpen
  /\ kept' = live
  /\ risk' = 0
  /\ UNCHANGED live

Leave ==
  /\ live' = NotOpen
  /\ UNCHANGED <<kept, risk>>

(* A fault alone never costs the copy... *)
Mishap ==
  /\ risk' = risk + 1
  /\ live' \in {live, NotOpen}
  /\ UNCHANGED kept

(* ...but what the application does after one may. *)
Lose ==
  /\ risk >= 1 /\ live # NotOpen /\ kept # Absent
  /\ kept' = Absent \/ (kept' \in Nat /\ kept' < kept)
  /\ UNCHANGED <<live, risk>>

Next == Begin \/ Reopen \/ Edit \/ Commit \/ Leave \/ Mishap \/ Lose

Spec == Init /\ [][Next]_<<live, kept, risk>>
=============================================================================
