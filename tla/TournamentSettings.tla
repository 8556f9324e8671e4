------------------------- MODULE TournamentSettings -------------------------
(***************************************************************************)
(* The settings and the status of one tournament, and the two modal        *)
(* dialogues that set them: CreateTournamentDialogue and                   *)
(* TournamentChangeSettingsDialogue.  The second calls                     *)
(* Tournament::updateSettings, whose FFI half applies the deck limits one  *)
(* after the other in an order it chooses, then the rest, as one bulk      *)
(* operation that the client rolls back when a part of it is refused; and  *)
(* then it changes the status.                                             *)
(*                                                                         *)
(* Of the settings the module keeps those that some code converts, orders  *)
(* or derives: the numbers, each shown by a spin box of its own range after *)
(* it has become a C int, the check-in and the deck registration.  The     *)
(* others (format, use of table numbers, open registration) are handed     *)
(* over as they are.  A length is in whole seconds.  The save that ends    *)
(* every operation is in SaveFile.                                         *)
(***************************************************************************)
EXTENDS Integers, Sequences

CONSTANTS
  Loadable,   (* settings a tournament file may hold                        *)
  Defaults,   (* settings the client gives a new tournament                 *)
  Entries,    (* what the user may enter in the fields of a dialogue        *)
  SpinMax,    (* top of the spin boxes whose .ui names none: 99 in Qt       *)
  LengthMax,  (* top of matchLengthEdit: 9999 minutes                       *)
  MaxInt      (* largest C int                                              *)

VARIABLES
  settings,   (* t.settings, in the Rust client                             *)
  status,     (* t.status, or "none" when no tournament is open             *)
  dialogue,   (* the modal dialogue that is shown                           *)
  fields,     (* what its fields hold                                       *)
  touched,    (* history: the user edited a field since it was opened       *)
  pc,         (* where onApply is                                           *)
  maxFirst,   (* tid_update_settings sets the upper limit first             *)
  base,       (* what the client goes back to if the bulk is refused        *)
  refusal     (* history: what refused the last bulk                        *)

vars == <<settings, status, dialogue, fields, touched, pc, maxFirst, base, refusal>>
tournament == <<settings, status>>
call == <<maxFirst, base, refusal>>
form == <<dialogue, fields, touched>>

Settings == [min : Nat, max : Nat, size : Nat, table : Nat, length : Nat,
             checkIn : BOOLEAN, deckReg : BOOLEAN]
Fields == [min : 0..SpinMax, max : 0..SpinMax, size : 0..SpinMax, table : 0..SpinMax,
           minutes : 0..LengthMax, checkIn : BOOLEAN, choice : 1..4]
Statuses == {"Planned", "Started", "Frozen", "Ended", "Cancelled"}

(* External: the limits the client accepts, one operation at a time. *)
LimitsHold(s) == s.min <= s.max

ASSUME ConstantsAssumption ==
  /\ Loadable \subseteq {s \in Settings : LimitsHold(s)}
  /\ Defaults \in Settings /\ LimitsHold(Defaults)
  /\ Entries \subseteq Fields
  /\ SpinMax \in Nat \ {0} /\ LengthMax \in Nat /\ MaxInt \in Nat
  /\ SpinMax <= MaxInt /\ LengthMax * 60 + 59 <= MaxInt

(* What the fields hold while no dialogue is shown. *)
NoFields == [min |-> 0, max |-> 0, size |-> 0, table |-> 0, minutes |-> 0,
             checkIn |-> FALSE, choice |-> 1]

Init ==
  /\ settings = Defaults /\ status = "none"
  /\ dialogue = "none" /\ fields = NoFields /\ touched = FALSE
  /\ pc = "idle" /\ maxFirst = FALSE /\ base = Defaults /\ refusal = "none"

-----------------------------------------------------------------------------
(* Deliberately wrong variants of definitions below, one per property: each  *)
(* is a bug this code could have had, and breaks the property named.       *)

(* ValidLimitsPass: the lower limit is always set first. *)
SetsMinFirst(f) == FALSE

(* ApplyIsAtomic: nothing is rolled back. *)
RefuseInPlace(reason) ==
  /\ refusal' = reason
  /\ pc' = "idle" /\ maxFirst' = FALSE /\ base' = Defaults
  /\ UNCHANGED <<tournament, form>>

(* UntouchedIsUnchanged: matchLengthEdit has the range of the other boxes. *)
SameRange(v, top) == IF v < 0 THEN 0 ELSE IF v <= SpinMax THEN v ELSE SpinMax

-----------------------------------------------------------------------------
(* A file that was written elsewhere, or here earlier, is opened. *)
Load ==
  /\ status = "none" /\ dialogue = "none"
  /\ settings' \in Loadable
  /\ status' \in Statuses
  /\ UNCHANGED <<form, pc, call>>

Close ==
  /\ status # "none" /\ dialogue = "none"
  /\ status' = "none"
  /\ UNCHANGED <<settings, form, pc, call>>

(* The fields of the new-tournament dialogue start at the configuration; its
   match size is 2 at least. *)
OpenCreate ==
  /\ status = "none" /\ dialogue = "none"
  /\ dialogue' = "create"
  /\ fields' \in {f \in Entries : f.choice = 1 /\ f.size >= 2}
  /\ touched' = FALSE
  /\ UNCHANGED <<tournament, pc, call>>

(* What is left of a natural number in a C int: its low bits. *)
AsInt(n) ==
  IF n <= MaxInt THEN n
  ELSE ((n + MaxInt + 1) % (2 * (MaxInt + 1))) - (MaxInt + 1)

(* QSpinBox::setValue, in a box from 0 to top. *)
Shown(v, top) == IF v < 0 THEN 0 ELSE IF v <= top THEN v ELSE top

FieldsOf(s) ==
  [min |-> Shown(s.min, SpinMax), max |-> Shown(s.max, SpinMax),
   size |-> Shown(s.size, SpinMax), table |-> Shown(AsInt(s.table), SpinMax),
   minutes |-> Shown(AsInt(s.length) \div 60, LengthMax),
   checkIn |-> s.checkIn, choice |-> 1]

(* The constructor of TournamentChangeSettingsDialogue. *)
OpenChange ==
  /\ status # "none" /\ dialogue = "none"
  /\ dialogue' = "change"
  /\ fields' = FieldsOf(settings)
  /\ touched' = FALSE
  /\ UNCHANGED <<tournament, pc, call>>

(* availableStatusChanges: the status it has comes first. *)
availableStatusChanges(s) ==
  CASE s = "Planned" -> <<s, "Started", "Frozen", "Cancelled">>
    [] s = "Started" -> <<s, "Frozen", "Ended">>
    [] OTHER -> <<s>>

Edit ==
  /\ dialogue # "none" /\ pc = "idle"
  /\ fields' \in {f \in Entries :
       IF dialogue = "change" THEN f.choice \in DOMAIN availableStatusChanges(status)
       ELSE f.choice = 1 /\ f.size >= 2}
  /\ touched' = TRUE
  /\ UNCHANGED <<tournament, dialogue, pc, call>>

Dismissed ==
  /\ dialogue' = "none" /\ fields' = NoFields /\ touched' = FALSE
  /\ refusal' = "none"

Reject ==
  /\ dialogue # "none" /\ pc = "idle"
  /\ Dismissed
  /\ UNCHANGED <<tournament, pc, maxFirst, base>>

-----------------------------------------------------------------------------
(* CreateTournamentDialogue::onOkay. *)

(* min above max: max is corrected and the dialogue stays. *)
CorrectMax ==
  /\ dialogue = "create" /\ fields.min > fields.max
  /\ fields' = [fields EXCEPT !.max = fields.min]
  /\ UNCHANGED <<tournament, dialogue, touched, pc, call>>

(* The bulk of new_tournament_from_settings sets min, then max, then the rest.
   Its result is dropped: if a part is refused, none of it is there. *)
NewSettings(f) ==
  {Defaults} \cup
  {s \in {[Defaults EXCEPT !.min = f.min, !.max = f.max, !.size = f.size,
                           !.checkIn = f.checkIn, !.deckReg = (f.min = 0)]} :
     f.min <= Defaults.max}

Create ==
  /\ dialogue = "create" /\ fields.min <= fields.max
  /\ settings' \in NewSettings(fields)
  /\ status' = "Planned"
  /\ Dismissed
  /\ UNCHANGED <<pc, maxFirst, base>>

-----------------------------------------------------------------------------
(* TournamentChangeSettingsDialogue::onApply. *)

ChangeRequest(f) ==
  [min |-> f.min, max |-> f.max, size |-> f.size, table |-> f.table,
   length |-> f.minutes * 60, checkIn |-> f.checkIn, deckReg |-> f.min > 0]

(* The condition of the branch in tid_update_settings. *)
SetsMaxFirst(f) == f.min > settings.max

BeginApply ==
  /\ dialogue = "change" /\ pc = "idle"
  /\ maxFirst' = SetsMaxFirst(fields)
  /\ base' = settings
  /\ refusal' = "none"
  /\ pc' = "first"
  /\ UNCHANGED <<tournament, form>>

(* onApply returns. *)
Return == pc' = "idle" /\ maxFirst' = FALSE /\ base' = Defaults

(* The client rolls the bulk back, updateSettings returns false, and the
   dialogue stays behind its message box. *)
Refuse(reason) ==
  /\ settings' = base /\ refusal' = reason
  /\ Return
  /\ UNCHANGED <<status, form>>

(* One of the two operations on the deck limits, refused if they would cross. *)
SetLimit(isMax, next) ==
  LET s == IF isMax THEN [settings EXCEPT !.max = fields.max]
                    ELSE [settings EXCEPT !.min = fields.min]
  IN  \/ /\ LimitsHold(s)
         /\ settings' = s
         /\ pc' = next
         /\ UNCHANGED <<status, form, call>>
      \/ ~LimitsHold(s) /\ Refuse("limits")

FirstLimit == pc = "first" /\ SetLimit(maxFirst, "second")
SecondLimit == pc = "second" /\ SetLimit(~maxFirst, "others")

(* The other operations of the bulk, which the client may refuse too. *)
OtherSettings ==
  /\ pc = "others"
  /\ \/ /\ settings' = ChangeRequest(fields)
        /\ pc' = "status"
        /\ UNCHANGED <<status, form, call>>
     \/ Refuse("client")

(* The status is changed if another one was chosen; whether the client did it
   makes no difference, since res stays true (res |= ...). *)
SetStatus ==
  /\ pc = "status"
  /\ status' \in {status, availableStatusChanges(status)[fields.choice]}
  /\ Return
  /\ Dismissed
  /\ UNCHANGED settings

-----------------------------------------------------------------------------
ApplyStep == FirstLimit \/ SecondLimit \/ OtherSettings \/ SetStatus

Next ==
  \/ Load \/ Close
  \/ OpenCreate \/ CorrectMax \/ Create
  \/ OpenChange \/ BeginApply \/ ApplyStep
  \/ Edit \/ Reject

Spec == Init /\ [][Next]_vars

-----------------------------------------------------------------------------
TypeOK ==
  /\ settings \in Settings /\ base \in Settings
  /\ status \in Statuses \cup {"none"}
  /\ dialogue \in {"none", "create", "change"}
  /\ fields \in Fields
  /\ touched \in BOOLEAN /\ maxFirst \in BOOLEAN
  /\ pc \in {"idle", "first", "second", "others", "status"}
  /\ refusal \in {"none", "limits", "client"}

(* The lower limit never exceeds the upper one, in the middle of a bulk too. *)
LimitsAlwaysHold == LimitsHold(settings)

(* Where a bulk stands between its two limits: the inductive invariant that
   the order of tid_update_settings rests on. *)
BulkProgress ==
  /\ LimitsHold(base)
  /\ pc # "idle" => dialogue = "change"
  /\ pc = "first" => settings = base /\ (maxFirst <=> fields.min > base.max)
  /\ pc = "second" =>
       IF maxFirst THEN /\ settings = [base EXCEPT !.max = fields.max]
                        /\ fields.min > base.max
                   ELSE /\ settings = [base EXCEPT !.min = fields.min]
                        /\ fields.min <= base.max
  /\ pc = "others" => fields.min <= fields.max
  /\ pc = "status" => settings = ChangeRequest(fields)

(* The index onApply reads of possibleStatusChanges is in it: no status can
   change behind the modal dialogue that made the list. *)
ChoiceIsOffered ==
  dialogue = "change" => fields.choice \in DOMAIN availableStatusChanges(status)

(* All of it together is preserved by every step of an Apply. *)
IInv == TypeOK /\ LimitsAlwaysHold /\ BulkProgress /\ ChoiceIsOffered

(* tid_update_settings orders the two limits so that a valid pair is never
   refused halfway because of the pair it replaces. *)
ValidLimitsPass ==
  [][refusal # "limits" /\ refusal' = "limits" => fields.min > fields.max]_vars

(* When onApply returns, the dialogue is gone and the settings in the client
   are those of its fields, or it is still there and they are as before. *)
ApplyIsAtomic ==
  [][pc # "idle" /\ pc' = "idle" =>
       \/ dialogue' = "none" /\ settings' = ChangeRequest(fields)
       \/ dialogue' = "change" /\ settings' = base]_vars

(* "Values that are not to be changed should remain the current setting" (the
   comment on tid_update_settings), as far as it is so: an Apply of fields that
   nobody edited keeps each setting that its own field can hold, whatever the
   others are.  A field holds a number in its range, the length whole minutes,
   and the deck registration follows the limits; what a field cannot hold is
   replaced by what it shows, a table number of 200 by 99 for instance. *)
UntouchedIsUnchanged ==
  [][pc = "status" /\ ~touched =>
       /\ base.min <= SpinMax => settings.min = base.min
       /\ base.max <= SpinMax => settings.max = base.max
       /\ base.size <= SpinMax => settings.size = base.size
       /\ base.table <= SpinMax => settings.table = base.table
       /\ base.length % 60 = 0 /\ base.length \div 60 <= LengthMax =>
            settings.length = base.length
       /\ settings.checkIn = base.checkIn
       /\ base.deckReg = (base.min > 0) => settings.deckReg = base.deckReg]_vars
=============================================================================
