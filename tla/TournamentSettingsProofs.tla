---------------------- MODULE TournamentSettingsProofs ----------------------
(***************************************************************************)
(* Proofs about TournamentSettings, for every set of loadable settings, of *)
(* entries and of defaults: the limits hold in the middle of an Apply too, *)
(* and a valid pair of limits is never refused because of the pair that it *)
(* replaces, whichever they are.                                           *)
(***************************************************************************)
EXTENDS TournamentSettings, TLAPS

(* A natural number becomes an integer as a C int. *)
LEMMA AsIntType == \A n \in Nat : AsInt(n) \in Int
  BY ConstantsAssumption DEF ConstantsAssumption, AsInt

(* A box shows a number of its range, and one of its range as it is. *)
LEMMA ShownInRange ==
  \A v \in Int, top \in Nat :
    Shown(v, top) \in 0..top /\ (v \in 0..top => Shown(v, top) = v)
  BY DEF Shown

(* What the fields show of settings in the client is something they can hold. *)
LEMMA FieldsOfType == \A s \in Settings : FieldsOf(s) \in Fields
<1> SUFFICES ASSUME NEW s \in Settings PROVE FieldsOf(s) \in Fields
  OBVIOUS
<1>1. /\ s.min \in Int /\ s.max \in Int /\ s.size \in Int
      /\ AsInt(s.table) \in Int /\ AsInt(s.length) \div 60 \in Int
      /\ s.checkIn \in BOOLEAN
  BY AsIntType DEF Settings
<1>2. SpinMax \in Nat /\ LengthMax \in Nat
  BY ConstantsAssumption DEF ConstantsAssumption
<1>3. \A v \in Int : Shown(v, SpinMax) \in 0..SpinMax /\ Shown(v, LengthMax) \in 0..LengthMax
  BY <1>2, ShownInRange
<1>4. /\ Shown(s.min, SpinMax) \in 0..SpinMax
      /\ Shown(s.max, SpinMax) \in 0..SpinMax
      /\ Shown(s.size, SpinMax) \in 0..SpinMax
      /\ Shown(AsInt(s.table), SpinMax) \in 0..SpinMax
      /\ Shown(AsInt(s.length) \div 60, LengthMax) \in 0..LengthMax
  BY <1>1, <1>3
<1>5. QED BY <1>1, <1>4 DEF FieldsOf, Fields

(* What an Apply asks for is settings, with limits that hold if the fields'
   limits do. *)
LEMMA ChangeRequestType ==
  \A f \in Fields :
    /\ ChangeRequest(f) \in Settings
    /\ f.min <= f.max => LimitsHold(ChangeRequest(f))
<1> SUFFICES ASSUME NEW f \in Fields
             PROVE  /\ ChangeRequest(f) \in Settings
                    /\ f.min <= f.max => LimitsHold(ChangeRequest(f))
  OBVIOUS
<1>1. /\ f.min \in Nat /\ f.max \in Nat /\ f.minutes * 60 \in Nat
      /\ f.size \in Nat /\ f.table \in Nat
  BY ConstantsAssumption DEF ConstantsAssumption, Fields
<1>2. (f.min > 0) \in BOOLEAN /\ f.checkIn \in BOOLEAN
  BY <1>1 DEF Fields
<1>3. QED
  BY <1>1, <1>2 DEF ChangeRequest, Settings, LimitsHold

(* A new tournament has the client's settings, or valid ones of its own. *)
LEMMA NewSettingsType ==
  \A f \in Fields : f.min <= f.max =>
    NewSettings(f) \subseteq {s \in Settings : LimitsHold(s)}
<1> SUFFICES ASSUME NEW f \in Fields, f.min <= f.max, NEW s \in NewSettings(f)
             PROVE  s \in Settings /\ LimitsHold(s)
  OBVIOUS
<1>1. CASE s = Defaults
  BY <1>1, ConstantsAssumption DEF ConstantsAssumption
<1>2. CASE s = [Defaults EXCEPT !.min = f.min, !.max = f.max, !.size = f.size,
                                !.checkIn = f.checkIn, !.deckReg = (f.min = 0)]
  <2>1. /\ Defaults \in Settings
        /\ f.min \in Nat /\ f.max \in Nat /\ f.size \in Nat /\ f.checkIn \in BOOLEAN
    BY ConstantsAssumption DEF ConstantsAssumption, Fields
  <2>2. (f.min = 0) \in BOOLEAN
    OBVIOUS
  <2>3. QED
    BY <1>2, <2>1, <2>2 DEF Settings, LimitsHold
<1>3. QED BY <1>1, <1>2 DEF NewSettings

(* The status a tournament has is always offered, and is the first choice. *)
LEMMA FirstChoice == \A s : 1 \in DOMAIN availableStatusChanges(s)
  BY DEF availableStatusChanges

(* Setting one limit gives settings again. *)
LEMMA OneLimitType ==
  \A s \in Settings, f \in Fields :
    /\ [s EXCEPT !.max = f.max] \in Settings
    /\ [s EXCEPT !.min = f.min] \in Settings
  BY DEF Settings, Fields

(* No tournament is open at first, and the dialogues hold nothing. *)
LEMMA InitInvariant == Init => IInv
<1> SUFFICES ASSUME Init PROVE IInv
  OBVIOUS
<1> USE ConstantsAssumption DEF ConstantsAssumption, Init
<1>1. NoFields \in Fields
  BY DEF NoFields, Fields
<1>2. touched \in BOOLEAN /\ maxFirst \in BOOLEAN
  BY Zenon
<1>3. TypeOK BY <1>1, <1>2 DEF TypeOK
<1>4. LimitsAlwaysHold /\ BulkProgress /\ ChoiceIsOffered
  BY DEF LimitsAlwaysHold, BulkProgress, ChoiceIsOffered
<1>5. QED BY <1>3, <1>4 DEF IInv

(* A bulk that is refused leaves the settings it began with. *)
LEMMA RefusePreserves ==
  ASSUME IInv, NEW reason \in {"limits", "client"}, Refuse(reason)
  PROVE  IInv'
<1> USE ConstantsAssumption DEF ConstantsAssumption, IInv, Refuse, Return, form
<1>1. maxFirst' \in BOOLEAN /\ touched' \in BOOLEAN
  BY Zenon DEF TypeOK
<1>2. TypeOK' BY <1>1 DEF TypeOK
<1>3. LimitsAlwaysHold' /\ BulkProgress' /\ ChoiceIsOffered'
  BY DEF TypeOK, LimitsAlwaysHold, BulkProgress, ChoiceIsOffered
<1>4. QED BY <1>2, <1>3

(* One limit is set, or the bulk is refused: first step. *)
LEMMA FirstLimitPreserves == IInv /\ FirstLimit => IInv'
<1> SUFFICES ASSUME IInv, FirstLimit PROVE IInv'
  OBVIOUS
<1>1. settings = base /\ (maxFirst <=> fields.min > base.max) /\ pc = "first" /\ dialogue = "change"
  BY DEF FirstLimit, IInv, BulkProgress
<1>2. CASE Refuse("limits")
  BY <1>2, RefusePreserves
<1>3. CASE /\ pc' = "second" /\ UNCHANGED <<status, form, call>>
           /\ LimitsHold(settings')
           /\ settings' = IF maxFirst THEN [settings EXCEPT !.max = fields.max]
                           ELSE [settings EXCEPT !.min = fields.min]
  <2> USE <1>1, <1>3 DEF IInv, call, form
  <2>1. settings' \in Settings
    BY OneLimitType DEF TypeOK
  <2>2. TypeOK'
    <3>1. maxFirst' \in BOOLEAN /\ touched' \in BOOLEAN
      BY Zenon DEF TypeOK
    <3>2. QED BY <2>1, <3>1 DEF TypeOK
  <2>3. LimitsAlwaysHold'
    BY DEF LimitsAlwaysHold
  <2>4. BulkProgress' /\ ChoiceIsOffered'
    <3>1. base \in Settings /\ fields \in Fields
      BY DEF TypeOK
    <3>2. ChoiceIsOffered' BY DEF ChoiceIsOffered
    <3>3. CASE maxFirst
      BY <3>1, <3>2, <3>3 DEF BulkProgress, Settings, Fields
    <3>4. CASE ~maxFirst
      <4>1. fields.min <= base.max
        BY <3>1, <3>4 DEF Settings, Fields
      <4>2. settings' = [base EXCEPT !.min = fields.min] /\ ~maxFirst' /\ fields'.min <= base'.max
        BY <3>4, <4>1
      <4>3. LimitsHold(base') /\ dialogue' = "change" /\ UNCHANGED <<base, fields>>
        BY DEF BulkProgress
      <4>4. QED BY <3>2, <4>2, <4>3 DEF BulkProgress
    <3>5. QED BY <3>3, <3>4
  <2>5. QED BY <2>2, <2>3, <2>4
<1>4. QED
  BY <1>2, <1>3 DEF FirstLimit, SetLimit

(* One limit is set, or the bulk is refused: second step. *)
LEMMA SecondLimitPreserves == IInv /\ SecondLimit => IInv'
<1> SUFFICES ASSUME IInv, SecondLimit PROVE IInv'
  OBVIOUS
<1>1. /\ pc = "second" /\ dialogue = "change"
      /\ IF maxFirst THEN settings = [base EXCEPT !.max = fields.max]
                     ELSE settings = [base EXCEPT !.min = fields.min]
  BY DEF SecondLimit, IInv, BulkProgress
<1>2. CASE Refuse("limits")
  BY <1>2, RefusePreserves
<1>3. CASE /\ pc' = "others" /\ UNCHANGED <<status, form, call>>
           /\ LimitsHold(settings')
           /\ settings' = IF ~maxFirst THEN [settings EXCEPT !.max = fields.max]
                           ELSE [settings EXCEPT !.min = fields.min]
  <2> USE <1>1, <1>3 DEF IInv, call, form
  <2>1. settings' \in Settings
    BY OneLimitType DEF TypeOK
  <2>2. TypeOK'
    <3>1. maxFirst' \in BOOLEAN /\ touched' \in BOOLEAN
      BY Zenon DEF TypeOK
    <3>2. QED BY <2>1, <3>1 DEF TypeOK
  <2>3. LimitsAlwaysHold'
    BY DEF LimitsAlwaysHold
  <2>4. BulkProgress' /\ ChoiceIsOffered'
    <3>1. base \in Settings /\ settings \in Settings /\ fields \in Fields
      BY DEF TypeOK
    <3>2. settings'.min = fields.min /\ settings'.max = fields.max
      BY <3>1 DEF Settings
    <3>3. fields'.min <= fields'.max
      BY <3>2 DEF LimitsHold
    <3>4. QED BY <3>3 DEF BulkProgress, ChoiceIsOffered
  <2>5. QED BY <2>2, <2>3, <2>4
<1>4. QED
  BY <1>2, <1>3 DEF SecondLimit, SetLimit

(* Every action of the dialogues and every step of onApply preserves the
   inductive invariant. *)
LEMMA StepInvariant == IInv /\ [Next]_vars => IInv'
<1> SUFFICES ASSUME IInv, [Next]_vars PROVE IInv'
  OBVIOUS
<1> USE ConstantsAssumption
    DEF ConstantsAssumption, IInv, LimitsAlwaysHold, tournament, form, call
<1>1. NoFields \in Fields
  BY DEF NoFields, Fields
<1>2. CASE Load
  <2>1. TypeOK'
    <3>1. maxFirst' \in BOOLEAN /\ touched' \in BOOLEAN
      BY <1>2, Zenon DEF Load, TypeOK
    <3>2. QED BY <1>2, <3>1 DEF Load, TypeOK
  <2>2. BulkProgress' /\ ChoiceIsOffered'
    BY <1>2 DEF Load, BulkProgress, ChoiceIsOffered
  <2>3. QED BY <1>2, <2>1, <2>2 DEF Load
<1>3. CASE Close
  <2>1. TypeOK'
    <3>1. maxFirst' \in BOOLEAN /\ touched' \in BOOLEAN
      BY <1>3, Zenon DEF Close, TypeOK
    <3>2. QED BY <1>3, <3>1 DEF Close, TypeOK
  <2>2. BulkProgress' /\ ChoiceIsOffered'
    BY <1>3 DEF Close, BulkProgress, ChoiceIsOffered
  <2>3. QED BY <1>3, <2>1, <2>2 DEF Close
<1>4. CASE OpenCreate
  <2>1. TypeOK'
    <3>1. maxFirst' \in BOOLEAN /\ touched' \in BOOLEAN
      BY <1>4, Zenon DEF OpenCreate, TypeOK
    <3>2. QED BY <1>4, <3>1 DEF OpenCreate, TypeOK
  <2>2. BulkProgress' /\ ChoiceIsOffered'
    BY <1>4 DEF OpenCreate, BulkProgress, ChoiceIsOffered
  <2>3. QED BY <1>4, <2>1, <2>2 DEF OpenCreate
<1>5. CASE CorrectMax
  <2>1. TypeOK'
    <3>1. maxFirst' \in BOOLEAN /\ touched' \in BOOLEAN
      BY <1>5, Zenon DEF CorrectMax, TypeOK
    <3>2. fields' \in Fields
      BY <1>5 DEF CorrectMax, TypeOK, Fields
    <3>3. QED BY <1>5, <3>1, <3>2 DEF CorrectMax, TypeOK
  <2>2. BulkProgress' /\ ChoiceIsOffered'
    BY <1>5 DEF CorrectMax, BulkProgress, ChoiceIsOffered
  <2>3. QED BY <1>5, <2>1, <2>2 DEF CorrectMax
<1>6. CASE Create
  <2>1. settings' \in Settings /\ LimitsHold(settings')
    BY <1>6, NewSettingsType DEF Create, TypeOK
  <2>2. TypeOK'
    <3>1. maxFirst' \in BOOLEAN /\ touched' \in BOOLEAN
      BY <1>6, Zenon DEF Create, Dismissed, TypeOK
    <3>2. QED BY <1>1, <1>6, <2>1, <3>1 DEF Create, Dismissed, TypeOK, Statuses
  <2>3. BulkProgress' /\ ChoiceIsOffered'
    BY <1>6 DEF Create, Dismissed, BulkProgress, ChoiceIsOffered
  <2>4. QED BY <2>1, <2>2, <2>3
<1>7. CASE OpenChange
  <2>1. TypeOK'
    <3>1. maxFirst' \in BOOLEAN /\ touched' \in BOOLEAN
      BY <1>7, Zenon DEF OpenChange, TypeOK
    <3>2. fields' \in Fields
      BY <1>7, FieldsOfType DEF OpenChange, TypeOK
    <3>3. QED BY <1>7, <3>1, <3>2 DEF OpenChange, TypeOK
  <2>2. BulkProgress' /\ ChoiceIsOffered'
    BY <1>7, FirstChoice DEF OpenChange, FieldsOf, BulkProgress, ChoiceIsOffered
  <2>3. QED BY <1>7, <2>1, <2>2 DEF OpenChange
<1>8. CASE BeginApply
  <2>1. maxFirst' = (fields.min > settings.max)
    BY <1>8 DEF BeginApply, SetsMaxFirst
  <2>2. TypeOK'
    <3>1. fields.min \in Nat /\ settings.max \in Nat
      BY DEF TypeOK, Fields, Settings
    <3>2. maxFirst' \in BOOLEAN
      BY <2>1, <3>1
    <3>3. touched' \in BOOLEAN
      BY <1>8, Zenon DEF BeginApply, TypeOK
    <3>4. QED BY <1>8, <3>2, <3>3 DEF BeginApply, TypeOK
  <2>3. BulkProgress' /\ ChoiceIsOffered'
    BY <1>8, <2>1 DEF BeginApply, BulkProgress, ChoiceIsOffered
  <2>4. QED BY <1>8, <2>2, <2>3 DEF BeginApply
<1>9. CASE FirstLimit
  BY <1>9, FirstLimitPreserves
<1>10. CASE SecondLimit
  BY <1>10, SecondLimitPreserves
<1>11. CASE OtherSettings
  <2>1. CASE Refuse("client")
    BY <2>1, RefusePreserves
  <2>2. CASE /\ settings' = ChangeRequest(fields) /\ pc' = "status"
             /\ UNCHANGED <<status, form, call>>
    <3>1. fields \in Fields /\ fields.min <= fields.max /\ dialogue = "change"
      BY <1>11 DEF OtherSettings, TypeOK, BulkProgress
    <3>2. settings' \in Settings /\ LimitsHold(settings')
      BY <2>2, <3>1, ChangeRequestType
    <3>3. maxFirst' \in BOOLEAN /\ touched' \in BOOLEAN
      BY <2>2, Zenon DEF TypeOK
    <3>4. TypeOK' BY <2>2, <3>2, <3>3 DEF TypeOK
    <3>5. BulkProgress' /\ ChoiceIsOffered'
      BY <2>2, <3>1 DEF BulkProgress, ChangeRequest, ChoiceIsOffered
    <3>6. QED BY <3>2, <3>4, <3>5
  <2>3. QED BY <1>11, <2>1, <2>2 DEF OtherSettings
<1>12. CASE SetStatus
  <2>1. dialogue = "change" /\ fields.choice \in DOMAIN availableStatusChanges(status)
    BY <1>12 DEF SetStatus, BulkProgress, ChoiceIsOffered
  <2>2. status' \in Statuses \cup {"none"}
    BY <1>12, <2>1 DEF SetStatus, TypeOK, Statuses, availableStatusChanges
  <2>3. TypeOK'
    <3>1. maxFirst' \in BOOLEAN /\ touched' \in BOOLEAN
      BY <1>12, Zenon DEF SetStatus, Return, Dismissed
    <3>2. QED BY <1>1, <1>12, <2>2, <3>1 DEF SetStatus, Return, Dismissed, TypeOK
  <2>4. BulkProgress' /\ ChoiceIsOffered'
    BY <1>12 DEF SetStatus, Return, Dismissed, BulkProgress, ChoiceIsOffered
  <2>5. QED BY <1>12, <2>3, <2>4 DEF SetStatus
<1>13. CASE Edit
  <2>1. TypeOK'
    <3>1. maxFirst' \in BOOLEAN /\ touched' \in BOOLEAN
      BY <1>13, Zenon DEF Edit, TypeOK
    <3>2. QED BY <1>13, <3>1 DEF Edit, TypeOK
  <2>2. BulkProgress' /\ ChoiceIsOffered'
    BY <1>13, FirstChoice DEF Edit, BulkProgress, ChoiceIsOffered
  <2>3. QED BY <1>13, <2>1, <2>2 DEF Edit
<1>14. CASE Reject
  <2>1. TypeOK'
    <3>1. maxFirst' \in BOOLEAN /\ touched' \in BOOLEAN
      BY <1>14, Zenon DEF Reject, Dismissed, TypeOK
    <3>2. QED BY <1>1, <1>14, <3>1 DEF Reject, Dismissed, TypeOK
  <2>2. BulkProgress' /\ ChoiceIsOffered'
    BY <1>14 DEF Reject, Dismissed, BulkProgress, ChoiceIsOffered
  <2>3. QED BY <1>14, <2>1, <2>2 DEF Reject
<1>15. CASE UNCHANGED vars
  BY <1>15 DEF vars, TypeOK, BulkProgress, ChoiceIsOffered, availableStatusChanges
<1>16. QED
  BY <1>2, <1>3, <1>4, <1>5, <1>6, <1>7, <1>8, <1>9, <1>10, <1>11, <1>12,
     <1>13, <1>14, <1>15 DEF Next, ApplyStep

(* The inductive invariant holds in every reachable state. *)
THEOREM Invariant == Spec => []IInv
  BY InitInvariant, StepInvariant, PTL DEF Spec

(* The deck limits of a tournament never cross, not even between the two
   operations of an Apply that replaces both of them. *)
THEOREM LimitsAreKept == Spec => []LimitsAlwaysHold
  BY Invariant, PTL DEF IInv

(* The client refuses a limit only to a dialogue whose own limits cross. *)
LEMMA RefusedOnlyIfCrossed ==
  ASSUME IInv, [Next]_vars, refusal # "limits", refusal' = "limits"
  PROVE  fields.min > fields.max
<1>1. fields \in Fields /\ settings \in Settings /\ base \in Settings
  BY DEF IInv, TypeOK
<1>2. FirstLimit \/ SecondLimit
  BY DEF Next, ApplyStep, vars, Load, Close, OpenCreate, CorrectMax, Create, OpenChange,
         BeginApply, OtherSettings, SetStatus, Edit, Reject, Dismissed, Return, Refuse, call
<1>3. CASE FirstLimit
  <2>1. settings = base /\ (maxFirst <=> fields.min > base.max) /\ LimitsHold(base)
    BY <1>3 DEF FirstLimit, IInv, BulkProgress
  <2>2. ~LimitsHold(IF maxFirst THEN [settings EXCEPT !.max = fields.max]
                                ELSE [settings EXCEPT !.min = fields.min])
    BY <1>3 DEF FirstLimit, SetLimit, call
  <2>3. QED BY <1>1, <2>1, <2>2 DEF LimitsHold, Settings, Fields
<1>4. CASE SecondLimit
  <2>1. IF maxFirst THEN settings = [base EXCEPT !.max = fields.max]
                    ELSE settings = [base EXCEPT !.min = fields.min]
    BY <1>4 DEF SecondLimit, IInv, BulkProgress
  <2>2. ~LimitsHold(IF ~maxFirst THEN [settings EXCEPT !.max = fields.max]
                                 ELSE [settings EXCEPT !.min = fields.min])
    BY <1>4 DEF SecondLimit, SetLimit, call
  <2>3. QED BY <1>1, <2>1, <2>2 DEF LimitsHold, Settings, Fields
<1>5. QED BY <1>2, <1>3, <1>4

(* Whatever the limits in the client and those asked for, a valid pair goes
   through in the order tid_update_settings chooses. *)
THEOREM OrderIsRight == Spec => ValidLimitsPass
<1>1. IInv /\ [Next]_vars => [refusal # "limits" /\ refusal' = "limits"
                                => fields.min > fields.max]_vars
  BY RefusedOnlyIfCrossed
<1>2. QED BY <1>1, Invariant, PTL DEF Spec, ValidLimitsPass

(* A step that ends an Apply is the roll back of a refusal or the last one. *)
LEMMA ApplyEnds ==
  ASSUME IInv, [Next]_vars, pc # "idle", pc' = "idle"
  PROVE  \/ dialogue' = "none" /\ settings' = ChangeRequest(fields)
         \/ dialogue' = "change" /\ settings' = base
<1>1. dialogue = "change"
  BY DEF IInv, BulkProgress
<1>2. SetStatus \/ \E reason \in {"limits", "client"} : Refuse(reason)
  BY DEF Next, ApplyStep, FirstLimit, SecondLimit, SetLimit, OtherSettings, vars, Load, Close,
         OpenCreate, CorrectMax, Create, OpenChange, BeginApply, Edit, Reject
<1>3. CASE SetStatus
  BY <1>3 DEF SetStatus, Dismissed, IInv, BulkProgress
<1>4. CASE \E reason \in {"limits", "client"} : Refuse(reason)
  BY <1>1, <1>4 DEF Refuse, form
<1>5. QED BY <1>2, <1>3, <1>4

(* All of an Apply is in the client when the dialogue has gone, and none of it
   while the dialogue stays behind its message. *)
THEOREM AllOrNothing == Spec => ApplyIsAtomic
<1>1. IInv /\ [Next]_vars =>
        [pc # "idle" /\ pc' = "idle" =>
           \/ dialogue' = "none" /\ settings' = ChangeRequest(fields)
           \/ dialogue' = "change" /\ settings' = base]_vars
  BY ApplyEnds
<1>2. QED BY <1>1, Invariant, PTL DEF Spec, ApplyIsAtomic

-----------------------------------------------------------------------------
(* While nobody edits them, the fields show the settings the dialogue was opened
   with, which are those an Apply goes back to. *)
FieldsShow ==
  dialogue = "change" /\ ~touched =>
    fields = FieldsOf(IF pc = "idle" THEN settings ELSE base)

(* Only opening the dialogue, editing it and the end of an Apply matter to it. *)
LEMMA ShowPreserved == IInv /\ FieldsShow /\ [Next]_vars => FieldsShow'
<1> SUFFICES ASSUME IInv, FieldsShow, [Next]_vars PROVE FieldsShow'
  OBVIOUS
<1> USE DEF FieldsShow, tournament, form, call
<1>1. CASE \E reason \in {"limits", "client"} : Refuse(reason) /\ pc # "idle"
  BY <1>1 DEF Refuse, Return, FieldsOf
<1>2. CASE /\ pc # "idle" /\ pc' # "idle" /\ UNCHANGED <<form, call>>
  BY <1>2 DEF FieldsOf
<1>3. CASE ApplyStep
  BY <1>1, <1>2, <1>3 DEF ApplyStep, FirstLimit, SecondLimit, SetLimit, OtherSettings, SetStatus,
                          Dismissed
<1>4. CASE BeginApply
  BY <1>4 DEF BeginApply, FieldsOf
<1>5. CASE OpenChange
  <2>1. pc = "idle"
    BY <1>5 DEF OpenChange, IInv, BulkProgress
  <2>2. QED BY <1>5, <2>1 DEF OpenChange, FieldsOf
<1>6. CASE Load \/ Close \/ OpenCreate \/ CorrectMax
  BY <1>6 DEF Load, Close, OpenCreate, CorrectMax
<1>7. CASE Create \/ Edit \/ Reject
  BY <1>7 DEF Create, Edit, Reject, Dismissed
<1>8. CASE UNCHANGED vars
  BY <1>8 DEF vars, FieldsOf
<1>9. QED BY <1>3, <1>4, <1>5, <1>6, <1>7, <1>8 DEF Next

(* Each setting that its field can hold comes back from it as it was. *)
LEMMA HeldReturns ==
  ASSUME NEW s \in Settings
  PROVE  LET c == ChangeRequest(FieldsOf(s))
         IN  /\ s.min <= SpinMax => c.min = s.min
             /\ s.max <= SpinMax => c.max = s.max
             /\ s.size <= SpinMax => c.size = s.size
             /\ s.table <= SpinMax => c.table = s.table
             /\ s.length % 60 = 0 /\ s.length \div 60 <= LengthMax => c.length = s.length
             /\ c.checkIn = s.checkIn
             /\ s.deckReg = (s.min > 0) => c.deckReg = s.deckReg
<1> DEFINE f == FieldsOf(s)
           c == ChangeRequest(f)
<1>1. /\ s.min \in Nat /\ s.max \in Nat /\ s.size \in Nat /\ s.table \in Nat
      /\ s.length \in Nat
  BY DEF Settings
<1>2. /\ SpinMax \in Nat \ {0} /\ LengthMax \in Nat /\ MaxInt \in Nat
      /\ SpinMax <= MaxInt /\ LengthMax * 60 + 59 <= MaxInt
  BY ConstantsAssumption DEF ConstantsAssumption
<1>3. /\ s.min <= SpinMax => f.min = s.min
      /\ s.max <= SpinMax => f.max = s.max
      /\ s.size <= SpinMax => f.size = s.size
  <2>1. \A v \in Nat : v <= SpinMax => Shown(v, SpinMax) = v
    BY <1>2, ShownInRange
  <2>2. /\ f.min = Shown(s.min, SpinMax) /\ f.max = Shown(s.max, SpinMax)
        /\ f.size = Shown(s.size, SpinMax)
    BY DEF FieldsOf
  <2>3. QED BY <1>1, <2>1, <2>2
<1>4. ASSUME s.table <= SpinMax PROVE f.table = s.table
  <2>1. AsInt(s.table) = s.table
    BY <1>1, <1>2, <1>4 DEF AsInt
  <2>2. QED BY <1>1, <1>2, <1>4, <2>1, ShownInRange DEF FieldsOf
<1>5. ASSUME s.length % 60 = 0, s.length \div 60 <= LengthMax
      PROVE  f.minutes * 60 = s.length
  <2>1. (s.length \div 60) * 60 = s.length /\ s.length \div 60 \in Nat
    BY <1>1, <1>5
  <2>2. AsInt(s.length) = s.length
    BY <1>1, <1>2, <1>5, <2>1 DEF AsInt
  <2>3. f.minutes = s.length \div 60
    BY <1>2, <1>5, <2>1, <2>2, ShownInRange DEF FieldsOf
  <2>4. QED BY <2>1, <2>3
<1>6. (f.min > 0) = (s.min > 0)
  BY <1>1, <1>2 DEF FieldsOf, Shown
<1>7. c.checkIn = s.checkIn
  BY DEF ChangeRequest, FieldsOf
<1>8. /\ c.min = f.min /\ c.max = f.max /\ c.size = f.size /\ c.table = f.table
      /\ c.length = f.minutes * 60 /\ c.deckReg = (f.min > 0)
  BY DEF ChangeRequest
<1> HIDE DEF f, c
<1>9. s.min <= SpinMax => c.min = s.min
  BY <1>3, <1>8
<1>10. s.max <= SpinMax => c.max = s.max
  BY <1>3, <1>8
<1>11. s.size <= SpinMax => c.size = s.size
  BY <1>3, <1>8
<1>12. s.table <= SpinMax => c.table = s.table
  BY <1>4, <1>8
<1>13. s.length % 60 = 0 /\ s.length \div 60 <= LengthMax => c.length = s.length
  BY <1>5, <1>8
<1>14. s.deckReg = (s.min > 0) => c.deckReg = s.deckReg
  BY <1>6, <1>8
<1>15. QED
  BY <1>7, <1>9, <1>10, <1>11, <1>12, <1>13, <1>14 DEF c, f

(* An Apply of fields nobody edited leaves each setting its own field can hold
   alone, whatever the boxes reach and the other settings are. *)
THEOREM UntouchedStay == Spec => UntouchedIsUnchanged
<1> DEFINE Held ==
      pc = "status" /\ ~touched =>
        /\ base.min <= SpinMax => settings.min = base.min
        /\ base.max <= SpinMax => settings.max = base.max
        /\ base.size <= SpinMax => settings.size = base.size
        /\ base.table <= SpinMax => settings.table = base.table
        /\ base.length % 60 = 0 /\ base.length \div 60 <= LengthMax =>
             settings.length = base.length
        /\ settings.checkIn = base.checkIn
        /\ base.deckReg = (base.min > 0) => settings.deckReg = base.deckReg
<1>1. IInv /\ FieldsShow /\ [Next]_vars => [Held]_vars
  <2> SUFFICES ASSUME IInv, FieldsShow, pc = "status", ~touched
               PROVE  Held
    OBVIOUS
  <2>1. settings = ChangeRequest(FieldsOf(base)) /\ base \in Settings
    BY DEF IInv, BulkProgress, FieldsShow, TypeOK
  <2>2. QED BY <2>1, HeldReturns
<1>2. Init => FieldsShow
  BY DEF Init, FieldsShow
<1>3. QED BY <1>1, <1>2, ShowPreserved, Invariant, PTL DEF Spec, UntouchedIsUnchanged
=============================================================================
