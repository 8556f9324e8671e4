----------------------- MODULE TournamentViewsProofs -----------------------
(***************************************************************************)
(* For any players and any finite number of rounds, and whichever signals  *)
(* an operation emits before, between and after its write: once it has     *)
(* returned, no change is called saved that is not in the file, the tables *)
(* and the label show what the client has, and the other views are behind  *)
(* only if no signal told them.  All views are about players and rounds    *)
(* there are.                                                              *)
(***************************************************************************)
EXTENDS TournamentViews, SequenceTheorems, FiniteSetTheorems, TLAPS

(* What an agenda is made of. *)
Signals == {"playerAdded", "playersChanged", "roundAdded", "roundsChanged",
            "statusChanged", "regOpenChanged", "unsaved", "write"}

Steps == [do : Signals] \cup [do : Signals, of : Players \cup Rounds]

(* What each operation leaves to do: it says "unsaved" before it writes, with
   nothing in between, and writes at some time. *)
SaysThenWrites(s) ==
  /\ s \in Seq(Steps)
  /\ \A i \in 1..Len(s) : s[i].do = "write" => i > 1 /\ s[i-1].do = "unsaved"
  /\ \E i \in 1..Len(s) : s[i].do = "unsaved"

(* The same of an operation half done. *)
WriteFollows ==
  \A i \in 1..Len(agenda) :
    agenda[i].do = "write" => IF i = 1 THEN ~saved ELSE agenda[i-1].do = "unsaved"

(* The flag may be wrong only while "unsaved" is still to come. *)
WillSay == saved /\ ~written => \E i \in 1..Len(agenda) : agenda[i].do = "unsaved"

ViewsInv ==
  /\ agenda \in Seq(Steps)
  /\ saved \in BOOLEAN /\ written \in BOOLEAN
  /\ WriteFollows /\ WillSay

-----------------------------------------------------------------------------
(* A signal is one step, of its own or about somebody. *)
LEMMA EmitIsStep ==
  ASSUME NEW signal \in Signals
  PROVE  /\ Emit(signal) \in Seq(Steps) /\ Len(Emit(signal)) = 1
         /\ Emit(signal)[1].do = signal
<1>1. [do |-> signal] \in Steps
  BY DEF Steps
<1>2. QED BY <1>1 DEF Emit

LEMMA EmitOfIsStep ==
  ASSUME NEW signal \in Signals, NEW x \in Players \cup Rounds
  PROVE  /\ EmitOf(signal, x) \in Seq(Steps) /\ Len(EmitOf(signal, x)) = 1
         /\ EmitOf(signal, x)[1].do = signal
<1>1. [do |-> signal, of |-> x] \in Steps
  BY DEF Steps
<1>2. QED BY <1>1 DEF EmitOf

(* Tournament::save on its own. *)
LEMMA SaveSaysThenWrites ==
  SaysThenWrites(Save) /\ Len(Save) = 2 /\ Save[1].do = "unsaved" /\ Save[2].do = "write"
<1>1. /\ Emit("unsaved") \in Seq(Steps) /\ Len(Emit("unsaved")) = 1 /\ Emit("unsaved")[1].do = "unsaved"
      /\ Emit("write") \in Seq(Steps) /\ Len(Emit("write")) = 1 /\ Emit("write")[1].do = "write"
  BY EmitIsStep DEF Signals
<1>2. /\ Save \in Seq(Steps) /\ Len(Save) = 2
      /\ Save[1] = Emit("unsaved")[1] /\ Save[2] = Emit("write")[1]
  BY <1>1, ConcatProperties DEF Save
<1>3. QED BY <1>1, <1>2 DEF SaysThenWrites

(* Signals before a save. *)
LEMMA SignalsFirst ==
  ASSUME NEW s \in Seq(Steps), \A i \in 1..Len(s) : s[i].do # "write",
         NEW t, SaysThenWrites(t)
  PROVE  SaysThenWrites(s \o t)
<1>1. t \in Seq(Steps) /\ Len(s) \in Nat /\ Len(t) \in Nat
  BY DEF SaysThenWrites
<1>2. /\ s \o t \in Seq(Steps) /\ Len(s \o t) = Len(s) + Len(t)
      /\ \A i \in 1..Len(s) + Len(t) : (s \o t)[i] = IF i <= Len(s) THEN s[i] ELSE t[i - Len(s)]
  BY <1>1, ConcatProperties
<1>3. ASSUME NEW i \in 1..Len(s \o t), (s \o t)[i].do = "write"
      PROVE  i > 1 /\ (s \o t)[i-1].do = "unsaved"
  <2>1. i > Len(s) /\ t[i - Len(s)].do = "write" /\ i - Len(s) \in 1..Len(t)
    BY <1>1, <1>2, <1>3
  <2>2. i - Len(s) > 1 /\ t[i - Len(s) - 1].do = "unsaved"
    BY <2>1 DEF SaysThenWrites
  <2>3. (s \o t)[i-1] = t[(i-1) - Len(s)] /\ (i-1) - Len(s) = i - Len(s) - 1
    BY <1>1, <1>2, <2>1, <2>2
  <2>4. QED BY <1>1, <2>1, <2>2, <2>3
<1>4. PICK k \in 1..Len(t) : t[k].do = "unsaved"
  BY DEF SaysThenWrites
<1>5. k + Len(s) \in 1..Len(s \o t) /\ (s \o t)[k + Len(s)] = t[k]
  BY <1>1, <1>2, <1>4
<1>6. QED BY <1>2, <1>3, <1>4, <1>5 DEF SaysThenWrites

(* A signal after a save. *)
LEMMA SignalAfter ==
  ASSUME NEW s, SaysThenWrites(s),
         NEW t \in Seq(Steps), \A i \in 1..Len(t) : t[i].do # "write"
  PROVE  SaysThenWrites(s \o t)
<1>1. s \in Seq(Steps) /\ Len(s) \in Nat /\ Len(t) \in Nat
  BY DEF SaysThenWrites
<1>2. /\ s \o t \in Seq(Steps) /\ Len(s \o t) = Len(s) + Len(t)
      /\ \A i \in 1..Len(s) + Len(t) : (s \o t)[i] = IF i <= Len(s) THEN s[i] ELSE t[i - Len(s)]
  BY <1>1, ConcatProperties
<1>3. ASSUME NEW i \in 1..Len(s \o t), (s \o t)[i].do = "write"
      PROVE  i > 1 /\ (s \o t)[i-1].do = "unsaved"
  <2>1. i <= Len(s) /\ s[i].do = "write"
    BY <1>1, <1>2, <1>3
  <2>2. i > 1 /\ s[i-1].do = "unsaved"
    BY <1>1, <1>3, <2>1 DEF SaysThenWrites
  <2>3. (s \o t)[i-1] = s[i-1]
    BY <1>1, <1>2, <2>1, <2>2
  <2>4. QED BY <2>2, <2>3
<1>4. PICK k \in 1..Len(s) : s[k].do = "unsaved"
  BY DEF SaysThenWrites
<1>5. k \in 1..Len(s \o t) /\ (s \o t)[k] = s[k]
  BY <1>1, <1>2, <1>4
<1>6. QED BY <1>2, <1>3, <1>4, <1>5 DEF SaysThenWrites

(* One signal and then a save, as most operations have it. *)
LEMMA SignalThenSave ==
  ASSUME NEW signal \in Signals, signal # "write"
  PROVE  SaysThenWrites(Emit(signal) \o Save)
<1>1. \A i \in 1..Len(Emit(signal)) : Emit(signal)[i].do # "write"
  BY EmitIsStep DEF Signals
<1>2. QED BY <1>1, EmitIsStep, SaveSaysThenWrites, SignalsFirst

(* addPlayer: "unsaved" once more before the save, two signals behind it. *)
LEMMA AddPlayerAgenda ==
  ASSUME NEW p \in Players
  PROVE  SaysThenWrites(Emit("unsaved") \o Save \o EmitOf("playerAdded", p)
                                        \o Emit("playersChanged"))
<1>1. SaysThenWrites(Emit("unsaved") \o Save)
  BY SignalThenSave DEF Signals
<1>2. /\ EmitOf("playerAdded", p) \in Seq(Steps)
      /\ \A i \in 1..Len(EmitOf("playerAdded", p)) : EmitOf("playerAdded", p)[i].do # "write"
  BY EmitOfIsStep DEF Signals
<1>3. /\ Emit("playersChanged") \in Seq(Steps)
      /\ \A i \in 1..Len(Emit("playersChanged")) : Emit("playersChanged")[i].do # "write"
  BY EmitIsStep DEF Signals
<1>4. SaysThenWrites((Emit("unsaved") \o Save) \o EmitOf("playerAdded", p))
  BY <1>1, <1>2, SignalAfter
<1>5. QED BY <1>3, <1>4, SignalAfter

(* pairRounds: a signal for each new round, as many as there may be. *)
LEMMA PairAgenda ==
  ASSUME NEW news \in SetToAllKPermutations(Rounds \ rounds)
  PROVE  SaysThenWrites([i \in DOMAIN news |-> [do |-> "roundAdded", of |-> news[i]]] \o Save)
<1> DEFINE signals == [i \in DOMAIN news |-> [do |-> "roundAdded", of |-> news[i]]]
<1>1. PICK s \in SUBSET (Rounds \ rounds) : news \in [1..Cardinality(s) -> s]
  BY DEF SetToAllKPermutations, SetToSeqs
<1>2. Cardinality(s) \in Nat
  BY <1>1, ConstantsAssumption, FS_Subset, FS_CardinalityType DEF ConstantsAssumption
<1>3. \A i \in DOMAIN news : [do |-> "roundAdded", of |-> news[i]] \in Steps
  BY <1>1 DEF Steps, Signals
<1>4. signals \in [1..Cardinality(s) -> Steps]
  BY <1>1, <1>3
<1>5. signals \in Seq(Steps) /\ Len(signals) = Cardinality(s)
  BY <1>2, <1>4
<1>6. \A i \in 1..Len(signals) : signals[i].do # "write"
  BY <1>1, <1>5
<1>7. QED BY <1>5, <1>6, SaveSaysThenWrites, SignalsFirst

-----------------------------------------------------------------------------
(* An operation that has changed something, or saves after a refusal. *)
LEMMA OperationBegins ==
  ASSUME ViewsInv, SaysThenWrites(agenda'), saved' = saved, written' \in BOOLEAN
  PROVE  ViewsInv'
<1>1. agenda' \in Seq(Steps) /\ saved' \in BOOLEAN /\ written' \in BOOLEAN
  BY DEF ViewsInv, SaysThenWrites
<1>2. WriteFollows'
  BY DEF WriteFollows, SaysThenWrites
<1>3. WillSay'
  BY DEF WillSay, SaysThenWrites
<1>4. QED BY <1>1, <1>2, <1>3 DEF ViewsInv

(* What a step of the agenda leaves of it. *)
LEMMA TailOfAgenda ==
  ASSUME ViewsInv, NEW step, Doing(step)
  PROVE  /\ agenda' \in Seq(Steps) /\ Len(agenda) \in Nat \ {0} /\ Len(agenda') = Len(agenda) - 1
         /\ \A i \in 1..Len(agenda') : agenda'[i] = agenda[i+1]
         /\ agenda[1].do = step
<1>1. agenda \in Seq(Steps) /\ agenda # <<>> /\ Head(agenda).do = step /\ agenda' = Tail(agenda)
  BY DEF ViewsInv, Doing
<1>2. QED BY <1>1, HeadTailProperties, EmptySeq

(* A signal about something else than the file. *)
LEMMA SignalRuns ==
  ASSUME ViewsInv, NEW step, Doing(step), step \notin {"unsaved", "write"}, UNCHANGED file
  PROVE  ViewsInv'
<1>1. /\ agenda' \in Seq(Steps) /\ Len(agenda) \in Nat \ {0} /\ Len(agenda') = Len(agenda) - 1
      /\ \A i \in 1..Len(agenda') : agenda'[i] = agenda[i+1]
      /\ agenda[1].do = step
  BY TailOfAgenda
<1>2. saved' = saved /\ written' = written
  BY DEF file
<1>3. WriteFollows'
  <2> SUFFICES ASSUME NEW i \in 1..Len(agenda'), agenda'[i].do = "write"
               PROVE  i # 1 /\ agenda'[i-1].do = "unsaved"
    BY DEF WriteFollows
  <2>1. i + 1 \in 1..Len(agenda) /\ i + 1 # 1 /\ (i + 1) - 1 = i
    BY <1>1
  <2>2. agenda[i+1].do = "write"
    BY <1>1
  <2>3. agenda[i].do = "unsaved"
    BY <2>1, <2>2 DEF ViewsInv, WriteFollows
  <2>4. i # 1
    BY <1>1, <2>3
  <2>5. i - 1 \in 1..Len(agenda') /\ (i - 1) + 1 = i
    BY <1>1, <2>4
  <2>6. QED BY <1>1, <2>3, <2>4, <2>5
<1>4. WillSay'
  <2> SUFFICES ASSUME saved, ~written PROVE \E i \in 1..Len(agenda') : agenda'[i].do = "unsaved"
    BY <1>2 DEF WillSay
  <2>1. PICK i \in 1..Len(agenda) : agenda[i].do = "unsaved"
    BY DEF ViewsInv, WillSay
  <2>2. i # 1
    BY <1>1, <2>1
  <2>3. i - 1 \in 1..Len(agenda') /\ (i - 1) + 1 = i
    BY <1>1, <2>2
  <2>4. agenda'[i-1] = agenda[i]
    BY <1>1, <2>3
  <2>5. QED BY <2>1, <2>3, <2>4
<1>5. QED BY <1>1, <1>2, <1>3, <1>4 DEF ViewsInv

(* "unsaved" is said: the flag is no longer set when the write comes. *)
LEMMA UnsavedRuns == ViewsInv /\ Unsaved => ViewsInv'
<1> SUFFICES ASSUME ViewsInv, Unsaved PROVE ViewsInv'
  OBVIOUS
<1>1. /\ agenda' \in Seq(Steps) /\ Len(agenda) \in Nat \ {0} /\ Len(agenda') = Len(agenda) - 1
      /\ \A i \in 1..Len(agenda') : agenda'[i] = agenda[i+1]
  BY TailOfAgenda DEF Unsaved
<1>2. saved' = FALSE /\ written' = written
  BY DEF Unsaved
<1>3. WriteFollows'
  <2> SUFFICES ASSUME NEW i \in 1..Len(agenda'), agenda'[i].do = "write", i # 1
               PROVE  agenda'[i-1].do = "unsaved"
    BY <1>2 DEF WriteFollows
  <2>1. i + 1 \in 1..Len(agenda) /\ i + 1 # 1 /\ (i + 1) - 1 = i
    BY <1>1
  <2>2. agenda[i].do = "unsaved"
    BY <1>1, <2>1 DEF ViewsInv, WriteFollows
  <2>3. i - 1 \in 1..Len(agenda') /\ (i - 1) + 1 = i
    BY <1>1
  <2>4. QED BY <1>1, <2>2, <2>3
<1>4. WillSay'
  BY <1>2 DEF WillSay
<1>5. QED BY <1>1, <1>2, <1>3, <1>4 DEF ViewsInv

(* The write succeeds and the flag is set, or it fails and the flag stays
   unset; the next write, if there is one, has its own "unsaved". *)
LEMMA WriteRuns == ViewsInv /\ Write => ViewsInv'
<1> SUFFICES ASSUME ViewsInv, Write PROVE ViewsInv'
  OBVIOUS
<1>1. /\ agenda' \in Seq(Steps) /\ Len(agenda) \in Nat \ {0} /\ Len(agenda') = Len(agenda) - 1
      /\ \A i \in 1..Len(agenda') : agenda'[i] = agenda[i+1]
      /\ agenda[1].do = "write"
  BY TailOfAgenda DEF Write
<1>2. ~saved
  BY <1>1 DEF ViewsInv, WriteFollows
<1>3. written' \in BOOLEAN /\ saved' \in BOOLEAN /\ (saved' => written')
  <2>1. CASE written' = TRUE /\ saved' = TRUE
    BY <2>1
  <2>2. CASE written' = FALSE /\ UNCHANGED saved
    BY <1>2, <2>2 DEF ViewsInv
  <2>3. QED BY <2>1, <2>2 DEF Write
<1>4. WriteFollows'
  <2> SUFFICES ASSUME NEW i \in 1..Len(agenda'), agenda'[i].do = "write"
               PROVE  i # 1 /\ agenda'[i-1].do = "unsaved"
    BY DEF WriteFollows
  <2>1. i + 1 \in 1..Len(agenda) /\ i + 1 # 1 /\ (i + 1) - 1 = i
    BY <1>1
  <2>2. agenda[i].do = "unsaved"
    BY <1>1, <2>1 DEF ViewsInv, WriteFollows
  <2>3. i # 1
    BY <1>1, <2>2
  <2>4. i - 1 \in 1..Len(agenda') /\ (i - 1) + 1 = i
    BY <1>1, <2>3
  <2>5. QED BY <1>1, <2>2, <2>3, <2>4
<1>5. WillSay'
  BY <1>3 DEF WillSay
<1>6. QED BY <1>1, <1>3, <1>4, <1>5 DEF ViewsInv

-----------------------------------------------------------------------------
(* A tab begins with nothing to do and a flag that is right. *)
LEMMA InitViews == Init => ViewsInv
<1> SUFFICES ASSUME Init PROVE ViewsInv
  OBVIOUS
<1>1. agenda = <<>> /\ saved \in BOOLEAN /\ written = saved
  BY DEF Init, FreshTab
<1>2. agenda \in Seq(Steps) /\ Len(agenda) = 0
  BY <1>1, EmptySeq
<1>3. QED BY <1>1, <1>2 DEF ViewsInv, WriteFollows, WillSay

(* Operations that end at once when they are refused. *)
LEMMA AddPlayerViews ==
  ASSUME ViewsInv, NEW p \in Players, AddPlayer(p)
  PROVE  ViewsInv'
<1>1. CASE Refused /\ UNCHANGED agenda
  BY <1>1 DEF AddPlayer, Refused, ViewsInv, WriteFollows, WillSay
<1>2. CASE /\ written' = FALSE
           /\ agenda' = Emit("unsaved") \o Save \o EmitOf("playerAdded", p)
                                        \o Emit("playersChanged")
  BY <1>2, AddPlayerAgenda, OperationBegins DEF AddPlayer
<1>3. QED BY <1>1, <1>2 DEF AddPlayer

LEMMA PairRoundsViews ==
  ASSUME ViewsInv, NEW news \in SetToAllKPermutations(Rounds \ rounds), PairRounds(news)
  PROVE  ViewsInv'
<1>1. CASE Refused /\ UNCHANGED agenda
  BY <1>1 DEF PairRounds, Refused, ViewsInv, WriteFollows, WillSay
<1>2. CASE /\ written' = FALSE
           /\ agenda' = [i \in DOMAIN news |-> [do |-> "roundAdded", of |-> news[i]]] \o Save
  <2>1. SaysThenWrites(agenda')
    BY <1>2, PairAgenda
  <2>2. QED BY <1>2, <2>1, OperationBegins DEF PairRounds
<1>3. QED BY <1>1, <1>2 DEF PairRounds

LEMMA UpdateSettingsViews ==
  ASSUME ViewsInv, NEW open \in BOOLEAN, UpdateSettings(open)
  PROVE  ViewsInv'
<1>1. CASE Refused /\ UNCHANGED agenda
  BY <1>1 DEF UpdateSettings, Refused, ViewsInv, WriteFollows, WillSay
<1>2. CASE written' = FALSE /\ agenda' = Emit("regOpenChanged") \o Save
  BY <1>2, SignalThenSave, OperationBegins DEF UpdateSettings, Signals
<1>3. QED BY <1>1, <1>2 DEF UpdateSettings

(* Operations that signal and save, refused or not. *)
LEMMA SavedAnyway ==
  ASSUME ViewsInv,
         \/ DropPlayer \/ SaveAgain \/ \E s \in Statuses : ChangeStatus(s)
         \/ \E r \in Rounds : \E nowActive, nowRecorded : OnRound(r, nowActive, nowRecorded)
  PROVE  ViewsInv'
<1>1. saved' = saved
  BY DEF DropPlayer, SaveAgain, ChangeStatus, OnRound, file
<1>2. written' \in BOOLEAN
  BY DEF DropPlayer, SaveAgain, ChangeStatus, OnRound, Refused, file, ViewsInv
<1>3. SaysThenWrites(agenda')
  BY SignalThenSave, SaveSaysThenWrites DEF DropPlayer, SaveAgain, ChangeStatus, OnRound, Signals
<1>4. QED BY <1>1, <1>2, <1>3, OperationBegins

(* Every operation, slot and click preserves the invariant. *)
LEMMA ViewsStep == ViewsInv /\ [Next]_vars => ViewsInv'
<1> SUFFICES ASSUME ViewsInv, [Next]_vars PROVE ViewsInv'
  OBVIOUS
<1>1. CASE \E p \in Players : AddPlayer(p)
  BY <1>1, AddPlayerViews
<1>2. CASE \E news \in SetToAllKPermutations(Rounds \ rounds) : PairRounds(news)
  BY <1>2, PairRoundsViews
<1>3. CASE \E open \in BOOLEAN : UpdateSettings(open)
  BY <1>3, UpdateSettingsViews
<1>4. CASE DropPlayer \/ SaveAgain \/ \E s \in Statuses : ChangeStatus(s)
  BY <1>4, SavedAnyway
<1>5. CASE \E r \in Rounds : \/ recordResult(r) \/ recordDraws(r) \/ confirmPlayer(r)
                             \/ killRound(r) \/ timeExtendRound(r)
  BY <1>5, SavedAnyway DEF recordResult, recordDraws, confirmPlayer, killRound, timeExtendRound
<1>6. CASE PlayerAdded \/ PlayersChanged \/ RoundAdded \/ RoundsChanged
             \/ StatusChanged \/ RegOpenChanged
  <2>1. UNCHANGED file
    BY <1>6 DEF PlayerAdded, PlayersChanged, RoundAdded, RoundsChanged, StatusChanged, RegOpenChanged
  <2>2. \E step \in Signals \ {"unsaved", "write"} : Doing(step)
    BY <1>6 DEF PlayerAdded, PlayersChanged, RoundAdded, RoundsChanged, StatusChanged,
              RegOpenChanged, Signals
  <2>3. QED BY <2>1, <2>2, SignalRuns
<1>7. CASE Unsaved
  BY <1>7, UnsavedRuns
<1>8. CASE Write
  BY <1>8, WriteRuns
<1>9. CASE TickPlayerBox \/ TickRoundBox \/ (\E p \in Players : SelectPlayer(p)) \/ UNCHANGED vars
  <2>1. UNCHANGED <<agenda, saved, written>>
    BY <1>9 DEF TickPlayerBox, TickRoundBox, SelectPlayer, vars, file
  <2>2. QED BY <2>1 DEF ViewsInv, WriteFollows, WillSay
<1>10. QED
  BY <1>1, <1>2, <1>3, <1>4, <1>5, <1>6, <1>7, <1>8, <1>9 DEF Next, Slots

(* Once an operation has returned, a set flag means that the file has all of it. *)
THEOREM SavedFlagIsTrue == Spec => []SavedIsTrue
<1>1. ViewsInv => SavedIsTrue
  <2> SUFFICES ASSUME ViewsInv, agenda = <<>>, saved PROVE written
    BY DEF SavedIsTrue, Idle
  <2>1. Len(agenda) = 0
    OBVIOUS
  <2>2. QED BY <2>1 DEF ViewsInv, WillSay
<1>2. QED BY <1>1, InitViews, ViewsStep, PTL DEF Spec

-----------------------------------------------------------------------------
(* What the tables and the label show while an operation runs: the signal that
   corrects them is still to come, and of the new rounds exactly those are
   missing that are not announced yet. *)
Says(signal) == \E i \in 1..Len(agenda) : agenda[i].do = signal

Announces(i, r) == i \in 1..Len(agenda) /\ agenda[i].do = "roundAdded" /\ agenda[i].of = r

ToAnnounce == {r \in rounds : \E i \in 1..Len(agenda) : Announces(i, r)}

(* A player that is added is followed by the whole list, and a round that is
   announced is new, is announced once, and not followed by the whole list. *)
InOrder ==
  /\ \A i \in 1..Len(agenda) : agenda[i].do = "playerAdded" =>
       i < Len(agenda) /\ agenda[i + 1].do = "playersChanged"
  /\ \A i \in 1..Len(agenda) : agenda[i].do = "roundAdded" =>
       agenda[i].of \in rounds /\ ~Says("roundsChanged")
  /\ \A i, j \in 1..Len(agenda), r \in rounds : Announces(i, r) /\ Announces(j, r) => i = j

PlayersShown ==
  playerTable = PlayerRows(Once(Players, players), playerTable.box) \/ Says("playersChanged")

RoundsShown ==
  roundTable = RoundRows(Once(Rounds, rounds \ ToAnnounce), roundTable.box) \/ Says("roundsChanged")

LabelShown == label = Label(status, saved) \/ Says("statusChanged")

TablesInv == InOrder /\ PlayersShown /\ RoundsShown /\ LabelShown

(* Between two operations everything is shown. *)
LEMMA IdleIsCurrent ==
  ASSUME TablesInv, Idle
  PROVE  /\ playerTable = PlayerRows(Once(Players, players), playerTable.box)
         /\ roundTable = RoundRows(Once(Rounds, rounds), roundTable.box)
         /\ label = Label(status, saved)
<1>1. Len(agenda) = 0
  BY DEF Idle
<1>2. \A signal : ~Says(signal)
  BY <1>1 DEF Says
<1>3. rounds \ ToAnnounce = rounds
  BY <1>1 DEF ToAnnounce, Announces
<1>4. QED BY <1>2, <1>3 DEF TablesInv, PlayersShown, RoundsShown, LabelShown

(* An agenda that announces no round and adds no player is in order. *)
LEMMA QuietIsInOrder ==
  ASSUME \A i \in 1..Len(agenda') : agenda'[i].do \notin {"playerAdded", "roundAdded"}
  PROVE  InOrder' /\ ToAnnounce' = {}
<1>1. \A i, r : ~Announces(i, r)'
  BY DEF Announces
<1>2. QED BY <1>1 DEF InOrder, ToAnnounce, Says

(* Where the steps of two lists are when one follows the other. *)
LEMMA StepsOfBoth ==
  ASSUME NEW s \in Seq(Steps), NEW t \in Seq(Steps)
  PROVE  /\ s \o t \in Seq(Steps) /\ Len(s \o t) = Len(s) + Len(t)
         /\ \A i \in 1..Len(s) : (s \o t)[i] = s[i]
         /\ \A i \in 1..Len(t) : (s \o t)[Len(s) + i] = t[i]
<1>1. /\ s \o t \in Seq(Steps) /\ Len(s \o t) = Len(s) + Len(t)
      /\ \A i \in 1..Len(s) + Len(t) : (s \o t)[i] = IF i <= Len(s) THEN s[i] ELSE t[i - Len(s)]
  BY ConcatProperties
<1>2. Len(s) \in Nat /\ Len(t) \in Nat
  OBVIOUS
<1>3. \A i \in 1..Len(s) : (s \o t)[i] = s[i]
  BY <1>1, <1>2
<1>4. \A i \in 1..Len(t) : (s \o t)[Len(s) + i] = t[i]
  <2> SUFFICES ASSUME NEW i \in 1..Len(t) PROVE (s \o t)[Len(s) + i] = t[i]
    OBVIOUS
  <2>1. Len(s) + i \in 1..Len(s) + Len(t) /\ ~(Len(s) + i <= Len(s)) /\ (Len(s) + i) - Len(s) = i
    BY <1>2
  <2>2. QED BY <1>1, <2>1
<1>5. QED BY <1>1, <1>3, <1>4

(* The steps of one signal and a save. *)
LEMMA SignalThenSaveSteps ==
  ASSUME NEW signal \in Signals
  PROVE  /\ Len(Emit(signal) \o Save) = 3
         /\ (Emit(signal) \o Save)[1].do = signal
         /\ (Emit(signal) \o Save)[2].do = "unsaved"
         /\ (Emit(signal) \o Save)[3].do = "write"
<1>1. /\ Emit(signal) \in Seq(Steps) /\ Len(Emit(signal)) = 1 /\ Emit(signal)[1].do = signal
      /\ Save \in Seq(Steps) /\ Len(Save) = 2 /\ Save[1].do = "unsaved" /\ Save[2].do = "write"
  BY EmitIsStep, SaveSaysThenWrites DEF SaysThenWrites
<1>2. /\ Len(Emit(signal) \o Save) = 3
      /\ (Emit(signal) \o Save)[1] = Emit(signal)[1]
      /\ (Emit(signal) \o Save)[2] = Save[1] /\ (Emit(signal) \o Save)[3] = Save[2]
  <2>1. 1 \in 1..Len(Emit(signal)) /\ 1 \in 1..Len(Save) /\ 2 \in 1..Len(Save)
    BY <1>1
  <2>2. Len(Emit(signal) \o Save) = Len(Emit(signal)) + Len(Save)
    BY <1>1, StepsOfBoth
  <2>3. (Emit(signal) \o Save)[1] = Emit(signal)[1]
    BY <1>1, <2>1, StepsOfBoth
  <2>4. /\ (Emit(signal) \o Save)[Len(Emit(signal)) + 1] = Save[1]
        /\ (Emit(signal) \o Save)[Len(Emit(signal)) + 2] = Save[2]
    BY <1>1, <2>1, StepsOfBoth
  <2>5. Len(Emit(signal)) + 1 = 2 /\ Len(Emit(signal)) + 2 = 3 /\ Len(Emit(signal)) + Len(Save) = 3
    BY <1>1
  <2>6. QED BY <2>2, <2>3, <2>4, <2>5
<1>3. QED BY <1>1, <1>2

(* An operation with one signal, which is about all that it changed. *)
LEMMA OneSignalTables ==
  ASSUME TablesInv, Idle, NEW signal \in Signals \ {"playerAdded", "roundAdded", "write"},
         agenda' = Emit(signal) \o Save,
         UNCHANGED <<rounds, saved, playerTable, roundTable, label>>,
         UNCHANGED entrants \/ signal = "playersChanged",
         UNCHANGED active \/ signal = "roundsChanged",
         UNCHANGED status \/ signal = "statusChanged"
  PROVE  TablesInv'
<1>1. /\ Len(agenda') = 3 /\ agenda'[1].do = signal
      /\ agenda'[2].do = "unsaved" /\ agenda'[3].do = "write"
  BY SignalThenSaveSteps
<1>2. InOrder' /\ ToAnnounce' = {}
  <2>1. \A i \in 1..Len(agenda') : agenda'[i].do \notin {"playerAdded", "roundAdded"}
    BY <1>1
  <2>2. QED BY <2>1, QuietIsInOrder
<1>3. Says(signal)'
  BY <1>1 DEF Says
<1>4. PlayersShown'
  BY <1>3, IdleIsCurrent DEF PlayersShown, entrants, PlayerRows, Once
<1>5. RoundsShown'
  BY <1>2, <1>3, IdleIsCurrent DEF RoundsShown, RoundRows, Once
<1>6. LabelShown'
  BY <1>3, IdleIsCurrent DEF LabelShown, Label
<1>7. QED BY <1>2, <1>4, <1>5, <1>6 DEF TablesInv

(* An operation that was refused and ends at once. *)
LEMMA RefusedTables ==
  ASSUME TablesInv, UNCHANGED <<players, dropped, rounds, active, status, saved,
                                playerTable, roundTable, label, agenda>>
  PROVE  TablesInv'
BY DEF TablesInv, InOrder, PlayersShown, RoundsShown, LabelShown, Says, Announces, ToAnnounce,
       PlayerRows, RoundRows, Once, Label

(* A save alone changes nothing but the flag, when its steps run. *)
LEMMA SaveAgainTables == TablesInv /\ SaveAgain => TablesInv'
<1> SUFFICES ASSUME TablesInv, SaveAgain PROVE TablesInv'
  OBVIOUS
<1> USE DEF SaveAgain, client, entrants, matches, file, views, tables, buttons
<1>1. \A i \in 1..Len(agenda') : agenda'[i].do \in {"unsaved", "write"}
  BY SaveSaysThenWrites
<1>2. InOrder' /\ ToAnnounce' = {}
  BY <1>1, QuietIsInOrder
<1>3. PlayersShown' /\ RoundsShown' /\ LabelShown'
  BY <1>2, IdleIsCurrent
  DEF PlayersShown, RoundsShown, LabelShown, PlayerRows, RoundRows, Once, Label
<1>4. QED BY <1>2, <1>3 DEF TablesInv

(* addPlayer: whatever the table does with the new row, the whole list comes. *)
LEMMA AddPlayerTables ==
  ASSUME TablesInv, NEW p \in Players, AddPlayer(p)
  PROVE  TablesInv'
<1> USE DEF AddPlayer, matches, views, tables, buttons
<1>1. CASE Refused /\ UNCHANGED agenda
  BY <1>1, RefusedTables DEF Refused, client, entrants
<1>2. CASE /\ UNCHANGED <<dropped, matches, status>>
           /\ agenda' = Emit("unsaved") \o Save \o EmitOf("playerAdded", p)
                                        \o Emit("playersChanged")
  <2> DEFINE s == Emit("unsaved") \o Save
             a == EmitOf("playerAdded", p)
             c == Emit("playersChanged")
  <2>1. /\ s \in Seq(Steps) /\ Len(s) = 3
        /\ s[1].do = "unsaved" /\ s[2].do = "unsaved" /\ s[3].do = "write"
    BY SignalThenSave, SignalThenSaveSteps DEF Signals, SaysThenWrites
  <2>2. /\ a \in Seq(Steps) /\ Len(a) = 1 /\ a[1].do = "playerAdded"
        /\ c \in Seq(Steps) /\ Len(c) = 1 /\ c[1].do = "playersChanged"
    BY EmitIsStep, EmitOfIsStep DEF Signals
  <2> HIDE DEF s, a, c
  <2>3. /\ s \o a \in Seq(Steps) /\ Len(s \o a) = 4
        /\ \A i \in 1..3 : (s \o a)[i] = s[i]
        /\ (s \o a)[4] = a[1]
    <3>1. /\ s \o a \in Seq(Steps) /\ Len(s \o a) = Len(s) + Len(a)
          /\ \A i \in 1..Len(s) : (s \o a)[i] = s[i]
      BY <2>1, <2>2, StepsOfBoth
    <3>2. (s \o a)[Len(s) + 1] = a[1]
      <4>1. 1 \in 1..Len(a)
        BY <2>2
      <4>2. QED BY <2>1, <2>2, <4>1, StepsOfBoth
    <3>3. Len(s) + 1 = 4 /\ Len(s) + Len(a) = 4
      BY <2>1, <2>2
    <3>4. QED BY <2>1, <3>1, <3>2, <3>3
  <2>4. /\ Len((s \o a) \o c) = 5
        /\ \A i \in 1..4 : ((s \o a) \o c)[i] = (s \o a)[i]
        /\ ((s \o a) \o c)[5] = c[1]
    <3> DEFINE b == s \o a
    <3>1. b \in Seq(Steps) /\ Len(b) = 4
      BY <2>3
    <3> HIDE DEF b
    <3>2. Len(b \o c) = Len(b) + Len(c) /\ \A i \in 1..Len(b) : (b \o c)[i] = b[i]
      BY <2>2, <3>1, StepsOfBoth
    <3>3. (b \o c)[Len(b) + 1] = c[1]
      <4>1. 1 \in 1..Len(c)
        BY <2>2
      <4>2. QED BY <2>2, <3>1, <4>1, StepsOfBoth
    <3>4. Len(b) + 1 = 5 /\ Len(b) + Len(c) = 5
      BY <2>2, <3>1
    <3>5. Len(b \o c) = 5 /\ (\A i \in 1..4 : (b \o c)[i] = b[i]) /\ (b \o c)[5] = c[1]
      BY <3>1, <3>2, <3>3, <3>4
    <3>6. QED BY <3>5 DEF b
  <2>5. agenda' = (s \o a) \o c
    BY <1>2 DEF s, a, c
  <2>6. /\ Len(agenda') = 5
        /\ agenda'[1].do = "unsaved" /\ agenda'[2].do = "unsaved" /\ agenda'[3].do = "write"
        /\ agenda'[4].do = "playerAdded" /\ agenda'[5].do = "playersChanged"
    BY <2>1, <2>2, <2>3, <2>4, <2>5
  <2>7. \A i, r : ~Announces(i, r)'
    BY <2>6 DEF Announces
  <2>8. InOrder'
    BY <2>6, <2>7 DEF InOrder
  <2>9. ToAnnounce' = {}
    BY <2>7 DEF ToAnnounce
  <2>10. PlayersShown'
    BY <2>6 DEF PlayersShown, Says
  <2>11. RoundsShown'
    BY <1>2, <2>9, IdleIsCurrent DEF RoundsShown, RoundRows, Once
  <2>12. LabelShown'
    BY <1>2, IdleIsCurrent DEF LabelShown, Label
  <2>13. QED BY <2>8, <2>10, <2>11, <2>12 DEF TablesInv
<1>3. QED BY <1>1, <1>2

(* pairRounds: the new rounds are those that are announced, each once; a ticked
   box cannot show them before. *)
LEMMA PairRoundsTables ==
  ASSUME TablesInv, NEW news \in SetToAllKPermutations(Rounds \ rounds), PairRounds(news)
  PROVE  TablesInv'
<1> USE DEF PairRounds, entrants, views, tables, buttons
<1>1. CASE Refused /\ UNCHANGED agenda
  BY <1>1, RefusedTables DEF Refused, client, matches
<1>2. CASE /\ rounds' = rounds \cup ToSet(news) /\ active' = active \cup ToSet(news)
           /\ agenda' = [i \in DOMAIN news |-> [do |-> "roundAdded", of |-> news[i]]] \o Save
           /\ UNCHANGED <<entrants, status>>
  <2> DEFINE signals == [i \in DOMAIN news |-> [do |-> "roundAdded", of |-> news[i]]]
  <2>1. PICK s \in SUBSET (Rounds \ rounds) :
          /\ news \in [1..Cardinality(s) -> s]
          /\ \A i, j \in 1..Cardinality(s) : i # j => news[i] # news[j]
    BY DEF SetToAllKPermutations, SetToSeqs
  <2> DEFINE k == Cardinality(s)
  <2>2. k \in Nat
    BY <2>1, ConstantsAssumption, FS_Subset, FS_CardinalityType DEF ConstantsAssumption
  <2>3. \A i \in 1..k : [do |-> "roundAdded", of |-> news[i]] \in Steps
    BY <2>1 DEF Steps, Signals
  <2>4. signals \in [1..k -> Steps] /\ \A i \in 1..k : signals[i] = [do |-> "roundAdded", of |-> news[i]]
    BY <2>1, <2>3
  <2>5. signals \in Seq(Steps) /\ Len(signals) = k
    BY <2>2, <2>4
  <2>6. Save \in Seq(Steps) /\ Len(Save) = 2 /\ Save[1].do = "unsaved" /\ Save[2].do = "write"
    BY SaveSaysThenWrites DEF SaysThenWrites
  <2>7. ToSet(news) = {news[i] : i \in 1..k} /\ ToSet(news) \cap rounds = {}
    BY <2>1 DEF ToSet
  <2>8. agenda' = signals \o Save
    BY <1>2
  <2> HIDE DEF signals, k
  <2>9. /\ Len(agenda') = k + 2
        /\ \A i \in 1..k : agenda'[i] = signals[i]
        /\ agenda'[k + 1] = Save[1] /\ agenda'[k + 2] = Save[2]
    <3>1. /\ Len(agenda') = Len(signals) + Len(Save)
          /\ \A i \in 1..Len(signals) : agenda'[i] = signals[i]
      BY <2>5, <2>6, <2>8, StepsOfBoth
    <3>2. /\ agenda'[Len(signals) + 1] = Save[1]
          /\ agenda'[Len(signals) + 2] = Save[2]
      <4>1. 1 \in 1..Len(Save) /\ 2 \in 1..Len(Save)
        BY <2>6
      <4>2. QED BY <2>5, <2>6, <2>8, <4>1, StepsOfBoth
    <3>3. QED BY <2>5, <2>6, <3>1, <3>2
  <2>10. \A i \in 1..k : agenda'[i].do = "roundAdded" /\ agenda'[i].of = news[i]
    BY <2>2, <2>4, <2>9
  <2>11. agenda'[k + 1].do = "unsaved" /\ agenda'[k + 2].do = "write"
    BY <2>2, <2>6, <2>9
  <2>12. \A i \in 1..Len(agenda') : i \in 1..k \/ i = k + 1 \/ i = k + 2
    BY <2>2, <2>9
  <2>13. \A i, r : Announces(i, r)' <=> i \in 1..k /\ r = news[i]
    BY <2>2, <2>9, <2>10, <2>11, <2>12 DEF Announces
  <2>14. InOrder'
    <3>1. \A i \in 1..Len(agenda') : agenda'[i].do \notin {"playerAdded", "roundsChanged"}
      BY <2>10, <2>11, <2>12
    <3>2. \A i \in 1..Len(agenda') : agenda'[i].do = "roundAdded" => agenda'[i].of \in rounds'
      BY <1>2, <2>7, <2>10, <2>11, <2>12
    <3>3. \A i, j \in 1..Len(agenda'), r \in rounds' :
            Announces(i, r)' /\ Announces(j, r)' => i = j
      BY <2>1, <2>13 DEF k
    <3>4. QED BY <3>1, <3>2, <3>3 DEF InOrder, Says
  <2>15. ToAnnounce' = ToSet(news)
    <3>1. \A i \in 1..k : i \in 1..Len(agenda')
      BY <2>2, <2>9
    <3>2. \A r : (\E i \in 1..Len(agenda') : Announces(i, r)') <=> r \in ToSet(news)
      BY <2>7, <2>13, <3>1
    <3>3. ToSet(news) \subseteq rounds'
      BY <1>2
    <3>4. QED BY <3>2, <3>3 DEF ToAnnounce
  <2>16. rounds' \ ToAnnounce' = rounds
    BY <1>2, <2>7, <2>15
  <2>17. RoundsShown'
    <3>1. roundTable = RoundRows(Once(Rounds, rounds), roundTable.box)
      BY IdleIsCurrent
    <3>2. \A x \in Rounds : x \in active' /\ x \notin active => x \notin rounds
      BY <1>2, <2>7
    <3>3. [x \in Rounds |-> IF roundTable.box /\ x \notin active THEN 0
                            ELSE Once(Rounds, rounds)[x]] =
          [x \in Rounds |-> IF roundTable.box /\ x \notin active' THEN 0
                            ELSE Once(Rounds, rounds)[x]]
      <4>1. \A x \in Rounds : x \notin rounds => Once(Rounds, rounds)[x] = 0
        BY DEF Once
      <4>2. active \subseteq active'
        BY <1>2
      <4>3. QED BY <3>2, <4>1, <4>2
    <3>4. roundTable' = RoundRows(Once(Rounds, rounds), roundTable.box)'
                        \/ roundTable' = [data |-> Once(Rounds, rounds), box |-> roundTable.box,
                             shown |-> [x \in Rounds |-> IF roundTable.box /\ x \notin active'
                                          THEN 0 ELSE Once(Rounds, rounds)[x]]]
      BY <3>1, <3>3 DEF RoundRows, Rows
    <3>5. QED BY <2>16, <3>1, <3>3, <3>4 DEF RoundsShown, RoundRows, Rows, Once
  <2>18. PlayersShown' /\ LabelShown'
    BY <1>2, IdleIsCurrent DEF PlayersShown, LabelShown, PlayerRows, Once, Label
  <2>19. QED BY <2>14, <2>17, <2>18 DEF TablesInv
<1>3. QED BY <1>1, <1>2

-----------------------------------------------------------------------------
(* A step of the agenda moves the others up by one. *)
LEMMA StepsMoveUp ==
  ASSUME ViewsInv, NEW step, Doing(step)
  PROVE  /\ \A signal : Says(signal) /\ signal # step => Says(signal)'
         /\ \A signal : Says(signal)' => Says(signal)
         /\ \A i, r : Announces(i, r)' => Announces(i + 1, r) /\ i \in Nat \ {0}
         /\ \A i, r : Announces(i, r) /\ i # 1 => Announces(i - 1, r)'
         /\ 1 \in 1..Len(agenda) /\ agenda[1].do = step
<1>1. /\ agenda' \in Seq(Steps) /\ Len(agenda) \in Nat \ {0} /\ Len(agenda') = Len(agenda) - 1
      /\ \A i \in 1..Len(agenda') : agenda'[i] = agenda[i+1]
      /\ agenda[1].do = step
  BY TailOfAgenda
<1>2. \A i \in 1..Len(agenda') : i + 1 \in 1..Len(agenda)
  BY <1>1
<1>3. \A i \in 1..Len(agenda) : i # 1 => i - 1 \in 1..Len(agenda') /\ agenda'[i - 1] = agenda[i]
  BY <1>1
<1>4. \A signal : Says(signal) /\ signal # step => Says(signal)'
  BY <1>1, <1>3 DEF Says
<1>5. \A signal : Says(signal)' => Says(signal)
  BY <1>1, <1>2 DEF Says
<1>6. \A i, r : Announces(i, r)' => Announces(i + 1, r) /\ i \in Nat \ {0}
  BY <1>1, <1>2 DEF Announces
<1>7. \A i, r : Announces(i, r) /\ i # 1 => Announces(i - 1, r)'
  BY <1>3 DEF Announces
<1>8. QED BY <1>1, <1>4, <1>5, <1>6, <1>7

(* What is left is in order. *)
LEMMA RestIsInOrder ==
  ASSUME ViewsInv, InOrder, NEW step, Doing(step), rounds' = rounds
  PROVE  InOrder'
<1>1. /\ agenda' \in Seq(Steps) /\ Len(agenda) \in Nat \ {0} /\ Len(agenda') = Len(agenda) - 1
      /\ \A i \in 1..Len(agenda') : agenda'[i] = agenda[i+1]
  BY TailOfAgenda
<1>2. \A i \in 1..Len(agenda') : agenda'[i].do = "playerAdded" =>
        i < Len(agenda') /\ agenda'[i + 1].do = "playersChanged"
  <2> SUFFICES ASSUME NEW i \in 1..Len(agenda'), agenda'[i].do = "playerAdded"
               PROVE  i < Len(agenda') /\ agenda'[i + 1].do = "playersChanged"
    OBVIOUS
  <2>1. i + 1 \in 1..Len(agenda) /\ agenda[i + 1].do = "playerAdded"
    BY <1>1
  <2>2. i + 1 < Len(agenda) /\ agenda[(i + 1) + 1].do = "playersChanged"
    BY <2>1 DEF InOrder
  <2>3. i + 1 \in 1..Len(agenda')
    BY <1>1, <2>2
  <2>4. QED BY <1>1, <2>2, <2>3
<1>3. \A i \in 1..Len(agenda') : agenda'[i].do = "roundAdded" =>
        agenda'[i].of \in rounds' /\ ~Says("roundsChanged")'
  BY <1>1, StepsMoveUp DEF InOrder
<1>4. \A i, j \in 1..Len(agenda'), r \in rounds' : Announces(i, r)' /\ Announces(j, r)' => i = j
  <2> SUFFICES ASSUME NEW i \in 1..Len(agenda'), NEW j \in 1..Len(agenda'), NEW r \in rounds',
                      Announces(i, r)', Announces(j, r)'
               PROVE  i = j
    OBVIOUS
  <2>1. Announces(i + 1, r) /\ Announces(j + 1, r)
    BY StepsMoveUp
  <2>2. i + 1 \in 1..Len(agenda) /\ j + 1 \in 1..Len(agenda)
    BY <1>1
  <2>3. i + 1 = j + 1
    BY <2>1, <2>2 DEF InOrder
  <2>4. QED BY <1>1, <2>3
<1>5. QED BY <1>2, <1>3, <1>4 DEF InOrder

(* A step that announces no round leaves those to announce. *)
LEMMA SameToAnnounce ==
  ASSUME ViewsInv, NEW step, Doing(step), step # "roundAdded", rounds' = rounds
  PROVE  ToAnnounce' = ToAnnounce
<1>1. \A r : (\E i \in 1..Len(agenda') : Announces(i, r)') => \E i \in 1..Len(agenda) : Announces(i, r)
  BY StepsMoveUp DEF Announces
<1>2. \A r : ~Announces(1, r)
  BY StepsMoveUp DEF Announces
<1>3. \A r : (\E i \in 1..Len(agenda) : Announces(i, r)) => \E i \in 1..Len(agenda') : Announces(i, r)'
  BY <1>2, StepsMoveUp DEF Announces
<1>4. QED BY <1>1, <1>3 DEF ToAnnounce

(* onRoundAdded: the row of the round that is announced. *)
LEMMA RoundAddedTables == ViewsInv /\ TablesInv /\ RoundAdded => TablesInv'
<1> SUFFICES ASSUME ViewsInv, TablesInv, RoundAdded PROVE TablesInv'
  OBVIOUS
<1> USE DEF RoundAdded, client, entrants, matches, file, buttons
<1>1. Doing("roundAdded") /\ rounds' = rounds /\ active' = active
  BY DEF RoundAdded
<1> DEFINE new == Head(agenda).of
<1>2. InOrder'
  BY <1>1, RestIsInOrder DEF TablesInv
<1>3. 1 \in 1..Len(agenda) /\ agenda[1].do = "roundAdded" /\ agenda[1].of = new
  <2>1. agenda \in Seq(Steps) /\ agenda # <<>>
    BY <1>1 DEF ViewsInv, Doing
  <2>2. Head(agenda) = agenda[1]
    BY <2>1
  <2>3. QED BY <1>1, <2>2, StepsMoveUp
<1>4. new \in rounds /\ ~Says("roundsChanged")
  BY <1>3 DEF TablesInv, InOrder
<1> HIDE DEF new
<1>5. Announces(1, new)
  BY <1>3 DEF Announces
<1>6. new \in ToAnnounce
  BY <1>3, <1>4, <1>5 DEF ToAnnounce
<1>7. ToAnnounce' = ToAnnounce \ {new}
  <2>1. ASSUME NEW r \in ToAnnounce' PROVE r \in ToAnnounce /\ r # new
    <3>1. PICK i \in 1..Len(agenda') : Announces(i, r)'
      BY <2>1 DEF ToAnnounce
    <3>2. Announces(i + 1, r) /\ i \in Nat \ {0}
      BY <1>1, <3>1, StepsMoveUp
    <3>3. r \in rounds /\ i + 1 \in 1..Len(agenda) /\ i + 1 # 1
      BY <1>1, <2>1, <3>2 DEF ToAnnounce, Announces
    <3>4. QED BY <1>3, <1>5, <3>2, <3>3 DEF ToAnnounce, TablesInv, InOrder
  <2>2. ASSUME NEW r \in ToAnnounce, r # new PROVE r \in ToAnnounce'
    <3>1. PICK i \in 1..Len(agenda) : Announces(i, r)
      BY <2>2 DEF ToAnnounce
    <3>2. i # 1
      BY <1>3, <2>2, <3>1 DEF Announces
    <3>3. Announces(i - 1, r)'
      BY <1>1, <3>1, <3>2, StepsMoveUp
    <3>4. QED BY <1>1, <2>2, <3>3 DEF ToAnnounce, Announces
  <2>3. QED BY <2>1, <2>2
<1>8. RoundsShown'
  <2>1. roundTable = RoundRows(Once(Rounds, rounds \ ToAnnounce), roundTable.box)
    BY <1>4 DEF TablesInv, RoundsShown
  <2>2. roundTable.data = Once(Rounds, rounds \ ToAnnounce)
    BY <2>1 DEF RoundRows, Rows
  <2>3. [roundTable.data EXCEPT ![new] = @ + 1] = Once(Rounds, rounds \ ToAnnounce')
    <3> DEFINE old == rounds \ ToAnnounce
    <3>1. rounds \ ToAnnounce' = old \cup {new} /\ new \notin old
      BY <1>4, <1>6, <1>7
    <3> HIDE DEF old
    <3>2. [Once(Rounds, old) EXCEPT ![new] = @ + 1] = Once(Rounds, old \cup {new})
      BY <3>1 DEF Once
    <3>3. QED BY <2>2, <3>1, <3>2 DEF old
  <2>4. roundTable' = RoundRows(Once(Rounds, rounds \ ToAnnounce'), roundTable.box)
    BY <2>3 DEF new
  <2>5. roundTable'.box = roundTable.box
    BY <2>4 DEF RoundRows, Rows
  <2>6. QED BY <1>1, <2>4, <2>5 DEF RoundsShown, RoundRows, Rows, Once
<1>9. PlayersShown'
  BY <1>1, StepsMoveUp DEF TablesInv, PlayersShown, PlayerRows, Once
<1>10. LabelShown'
  BY <1>1, StepsMoveUp DEF TablesInv, LabelShown, Label
<1>11. QED BY <1>2, <1>8, <1>9, <1>10 DEF TablesInv

(* Every other slot: it corrects its own table or the label, or neither. *)
LEMMA OtherSlotTables ==
  ASSUME ViewsInv, TablesInv,
         \/ PlayerAdded \/ PlayersChanged \/ RoundsChanged
         \/ StatusChanged \/ RegOpenChanged \/ Unsaved \/ Write
  PROVE  TablesInv'
<1> USE DEF client, entrants, matches, file, tables, buttons
<1> DEFINE Others == Signals \ {"roundAdded"}
<1>1. UNCHANGED <<players, dropped, rounds, active, status>>
  BY DEF PlayerAdded, PlayersChanged, RoundsChanged, StatusChanged, RegOpenChanged, Unsaved, Write
<1>2. PICK step \in Others : Doing(step)
  BY DEF PlayerAdded, PlayersChanged, RoundsChanged, StatusChanged, RegOpenChanged, Unsaved, Write,
         Signals
<1>3. InOrder' /\ ToAnnounce' = ToAnnounce
  BY <1>1, <1>2, RestIsInOrder, SameToAnnounce DEF TablesInv
<1>4. PlayersShown'
  <2>1. CASE PlayerAdded
    <3>1. Len(agenda) \in Nat \ {0} /\ agenda[1].do = "playerAdded"
      BY <2>1, TailOfAgenda DEF PlayerAdded
    <3>2. 1 < Len(agenda) /\ agenda[1 + 1].do = "playersChanged"
      BY <3>1 DEF TablesInv, InOrder
    <3>3. Says("playersChanged")
      BY <3>1, <3>2 DEF Says
    <3>4. QED BY <2>1, <3>3, StepsMoveUp DEF PlayerAdded, PlayersShown
  <2>2. CASE PlayersChanged
    <3>1. playerTable'.box = playerTable.box
      BY <2>2 DEF PlayersChanged, PlayerRows, Rows
    <3>2. QED BY <1>1, <2>2, <3>1 DEF PlayersChanged, PlayersShown, PlayerRows, Once
  <2>3. CASE RoundsChanged \/ StatusChanged \/ RegOpenChanged \/ Unsaved \/ Write
    <3>1. playerTable' = playerTable
      BY <2>3 DEF RoundsChanged, StatusChanged, RegOpenChanged, Unsaved, Write
    <3>2. Says("playersChanged") => Says("playersChanged")'
      BY <2>3, StepsMoveUp DEF RoundsChanged, StatusChanged, RegOpenChanged, Unsaved, Write
    <3>3. QED BY <1>1, <3>1, <3>2 DEF TablesInv, PlayersShown, PlayerRows, Once
  <2>4. QED BY <2>1, <2>2, <2>3
<1>5. RoundsShown'
  <2>1. CASE RoundsChanged
    <3>1. 1 \in 1..Len(agenda) /\ agenda[1].do = "roundsChanged"
      BY <2>1, StepsMoveUp DEF RoundsChanged
    <3>2. ToAnnounce = {}
      BY <3>1 DEF TablesInv, InOrder, Says, ToAnnounce, Announces
    <3>3. roundTable'.box = roundTable.box
      BY <2>1 DEF RoundsChanged, RoundRows, Rows
    <3>4. rounds' \ ToAnnounce' = rounds
      BY <1>1, <1>3, <3>2
    <3>5. QED BY <1>1, <2>1, <3>3, <3>4 DEF RoundsChanged, RoundsShown, RoundRows, Once
  <2>2. CASE PlayerAdded \/ PlayersChanged \/ StatusChanged \/ RegOpenChanged \/ Unsaved \/ Write
    <3>1. roundTable' = roundTable
      BY <2>2 DEF PlayerAdded, PlayersChanged, StatusChanged, RegOpenChanged, Unsaved, Write
    <3>2. Says("roundsChanged") => Says("roundsChanged")'
      BY <2>2, StepsMoveUp
      DEF PlayerAdded, PlayersChanged, StatusChanged, RegOpenChanged, Unsaved, Write
    <3>3. QED BY <1>1, <1>3, <3>1, <3>2 DEF TablesInv, RoundsShown, RoundRows, Once
  <2>3. QED BY <2>1, <2>2
<1>6. LabelShown'
  <2>1. CASE StatusChanged
    BY <1>1, <2>1 DEF StatusChanged, LabelShown, Label
  <2>2. CASE Unsaved \/ (Write /\ label' = Label(status, saved'))
    BY <1>1, <2>2 DEF Unsaved, LabelShown, Label
  <2>3. CASE \/ PlayerAdded \/ PlayersChanged \/ RoundsChanged \/ RegOpenChanged
             \/ Write /\ UNCHANGED <<saved, label>>
    <3>1. UNCHANGED <<saved, label>>
      BY <2>3 DEF PlayerAdded, PlayersChanged, RoundsChanged, RegOpenChanged
    <3>2. Says("statusChanged") => Says("statusChanged")'
      BY <2>3, StepsMoveUp DEF PlayerAdded, PlayersChanged, RoundsChanged, RegOpenChanged, Write
    <3>3. QED BY <1>1, <3>1, <3>2 DEF TablesInv, LabelShown, Label
  <2>4. QED BY <2>1, <2>2, <2>3 DEF Write
<1>7. QED BY <1>3, <1>4, <1>5, <1>6 DEF TablesInv

-----------------------------------------------------------------------------
(* A new tab shows everything. *)
LEMMA InitTables == Init => TablesInv
<1> SUFFICES ASSUME Init PROVE TablesInv
  OBVIOUS
<1>1. Len(agenda) = 0
  BY DEF Init, FreshTab
<1>2. InOrder /\ rounds \ ToAnnounce = rounds
  BY <1>1 DEF InOrder, ToAnnounce, Announces
<1>3. playerTable.box = FALSE /\ roundTable.box = FALSE
  BY DEF Init, FreshTab, PlayerRows, RoundRows, Rows
<1>4. QED BY <1>2, <1>3 DEF Init, FreshTab, TablesInv, PlayersShown, RoundsShown, LabelShown

(* A box is ticked between two operations, when the data are those there are. *)
LEMMA BoxTables == TablesInv /\ (TickPlayerBox \/ TickRoundBox) => TablesInv'
<1> SUFFICES ASSUME TablesInv, TickPlayerBox \/ TickRoundBox PROVE TablesInv'
  OBVIOUS
<1> USE DEF client, entrants, matches, file, buttons
<1>0. Idle
  BY DEF TickPlayerBox, TickRoundBox
<1>1. /\ playerTable = PlayerRows(Once(Players, players), playerTable.box)
      /\ roundTable = RoundRows(Once(Rounds, rounds), roundTable.box)
      /\ label = Label(status, saved)
  BY <1>0, IdleIsCurrent
<1>2. UNCHANGED <<players, dropped, rounds, active, status, saved, label, agenda>>
  BY DEF TickPlayerBox, TickRoundBox
<1>3. Len(agenda) = 0
  BY <1>0 DEF Idle
<1>4. InOrder' /\ rounds' \ ToAnnounce' = rounds
  BY <1>2, <1>3 DEF InOrder, ToAnnounce, Announces
<1>5. LabelShown'
  BY <1>1, <1>2 DEF LabelShown, Label
<1>6. CASE TickPlayerBox
  <2>1. playerTable.data = Once(Players, players)
    BY <1>1 DEF PlayerRows, Rows
  <2>2. playerTable' = PlayerRows(Once(Players, players), ~playerTable.box)
    BY <1>6, <2>1 DEF TickPlayerBox
  <2>3. playerTable'.box = ~playerTable.box
    BY <2>2 DEF PlayerRows, Rows
  <2>4. PlayersShown'
    BY <1>2, <2>2, <2>3 DEF PlayersShown, PlayerRows, Once
  <2>5. RoundsShown'
    BY <1>1, <1>2, <1>4, <1>6 DEF TickPlayerBox, RoundsShown, RoundRows, Once
  <2>6. QED BY <1>4, <1>5, <2>4, <2>5 DEF TablesInv
<1>7. CASE TickRoundBox
  <2>1. roundTable.data = Once(Rounds, rounds)
    BY <1>1 DEF RoundRows, Rows
  <2>2. roundTable' = RoundRows(Once(Rounds, rounds), ~roundTable.box)
    BY <1>7, <2>1 DEF TickRoundBox
  <2>3. roundTable'.box = ~roundTable.box
    BY <2>2 DEF RoundRows, Rows
  <2>4. RoundsShown'
    BY <1>2, <1>4, <2>2, <2>3 DEF RoundsShown, RoundRows, Once
  <2>5. PlayersShown'
    BY <1>1, <1>2, <1>7 DEF TickRoundBox, PlayersShown, PlayerRows, Once
  <2>6. QED BY <1>4, <1>5, <2>4, <2>5 DEF TablesInv
<1>8. QED BY <1>6, <1>7

(* The operations with one signal, which have changed what it is about. *)
LEMMA OneSignalOperations ==
  ASSUME TablesInv,
         \/ DropPlayer \/ \E s \in Statuses : ChangeStatus(s)
         \/ \E open \in BOOLEAN : UpdateSettings(open)
         \/ \E r \in Rounds : \E nowActive, nowRecorded : OnRound(r, nowActive, nowRecorded)
  PROVE  TablesInv'
<1> USE DEF client, entrants, matches, views, tables, buttons, Refused
<1>1. CASE DropPlayer
  <2>1. /\ Idle /\ agenda' = Emit("playersChanged") \o Save
        /\ UNCHANGED <<rounds, active, status, saved, playerTable, roundTable, label>>
    BY <1>1 DEF DropPlayer
  <2>2. QED BY <2>1, OneSignalTables DEF Signals
<1>2. CASE \E s \in Statuses : ChangeStatus(s)
  <2>1. /\ Idle /\ agenda' = Emit("statusChanged") \o Save
        /\ UNCHANGED <<players, dropped, rounds, active, saved, playerTable, roundTable, label>>
    BY <1>2 DEF ChangeStatus
  <2>2. QED BY <2>1, OneSignalTables DEF Signals
<1>3. CASE \E open \in BOOLEAN : UpdateSettings(open)
  <2>1. /\ Idle
        /\ UNCHANGED <<players, dropped, rounds, active, status, saved,
                       playerTable, roundTable, label>>
        /\ agenda' = Emit("regOpenChanged") \o Save \/ UNCHANGED agenda
    BY <1>3 DEF UpdateSettings
  <2>2. QED BY <2>1, OneSignalTables, RefusedTables DEF Signals
<1>4. CASE \E r \in Rounds : \E nowActive, nowRecorded : OnRound(r, nowActive, nowRecorded)
  <2>1. /\ Idle /\ agenda' = Emit("roundsChanged") \o Save
        /\ UNCHANGED <<players, dropped, rounds, status, saved, playerTable, roundTable, label>>
    BY <1>4 DEF OnRound
  <2>2. QED BY <2>1, OneSignalTables DEF Signals
<1>5. QED BY <1>1, <1>2, <1>3, <1>4

(* Every operation, slot and click preserves it. *)
LEMMA TablesStep == ViewsInv /\ TablesInv /\ [Next]_vars => TablesInv'
<1> SUFFICES ASSUME ViewsInv, TablesInv, [Next]_vars PROVE TablesInv'
  OBVIOUS
<1>1. CASE \/ \E r \in Rounds : \/ recordResult(r) \/ recordDraws(r) \/ confirmPlayer(r)
                                \/ killRound(r) \/ timeExtendRound(r)
           \/ DropPlayer \/ (\E s \in Statuses : ChangeStatus(s))
           \/ (\E open \in BOOLEAN : UpdateSettings(open))
  BY <1>1, OneSignalOperations
  DEF recordResult, recordDraws, confirmPlayer, killRound, timeExtendRound
<1>2. CASE (\E p \in Players : SelectPlayer(p)) \/ UNCHANGED vars
  BY <1>2, RefusedTables
  DEF SelectPlayer, vars, client, entrants, matches, file, views, tables, buttons
<1>3. CASE Slots
  BY <1>3, RoundAddedTables, OtherSlotTables DEF Slots
<1>4. QED
  BY <1>1, <1>2, <1>3, AddPlayerTables, PairRoundsTables, SaveAgainTables, BoxTables DEF Next

(* Once an operation has returned, both tables and the label show what the client
   has, whichever signals it emitted, for any players and any number of rounds. *)
THEOREM TablesCatchUp == Spec => []TablesAreCurrent
<1>1. TablesInv => TablesAreCurrent
  BY IdleIsCurrent DEF TablesAreCurrent
<1>2. QED BY <1>1, InitViews, ViewsStep, InitTables, TablesStep, PTL DEF Spec

-----------------------------------------------------------------------------
(* The standings, the view of a player and the "add player" button: behind only
   as the history says, or with a signal still to come that brings them up. *)
StandingsBehind ==
  standings = Scored \/ "standings" \in untold
    \/ Says("playersChanged") \/ Says("roundsChanged") \/ Says("roundAdded")

ViewBehind ==
  playerView = Displayed(playerView.player) \/ "playerView" \in untold \/ Says("roundAdded")

ButtonBehind ==
  canAdd = regOpen \/ (canAdd /\ "canAdd" \in untold) \/ Says("regOpenChanged")

BehindInv == regOpen \in BOOLEAN /\ StandingsBehind /\ ViewBehind /\ ButtonBehind

(* An agenda of one signal and a save says that signal. *)
LEMMA SignalIsSaid ==
  ASSUME NEW signal \in Signals, agenda' = Emit(signal) \o Save
  PROVE  Says(signal)'
BY SignalThenSaveSteps DEF Says

(* Between two operations nothing is still to come. *)
LEMMA NothingToSay == Idle => \A signal : ~Says(signal)
<1> SUFFICES ASSUME Idle PROVE Len(agenda) = 0
  BY DEF Says
<1>1. QED BY DEF Idle

(* The operations on players. *)
LEMMA PlayersBehind ==
  ASSUME BehindInv, DropPlayer \/ \E p \in Players : AddPlayer(p)
  PROVE  BehindInv'
<1> USE DEF client, entrants, matches, views, tables, buttons, Refused
<1>1. /\ Idle /\ UNCHANGED <<rounds, regOpen, untold, playerView, canAdd, standings>>
      /\ UNCHANGED <<client, agenda>> \/ Says("playersChanged")'
  <2>1. CASE DropPlayer
    <3>1. agenda' = Emit("playersChanged") \o Save
      BY <2>1 DEF DropPlayer
    <3>2. Says("playersChanged")'
      BY <3>1, SignalIsSaid DEF Signals
    <3>3. QED BY <2>1, <3>2 DEF DropPlayer
  <2>2. CASE \E p \in Players : AddPlayer(p)
    <3>1. PICK p \in Players : AddPlayer(p)
      BY <2>2
    <3>2. CASE agenda' = Emit("unsaved") \o Save \o EmitOf("playerAdded", p)
                                                 \o Emit("playersChanged")
      <4> DEFINE b == Emit("unsaved") \o Save \o EmitOf("playerAdded", p)
      <4>1. b \in Seq(Steps)
        BY EmitOfIsStep, SignalThenSave, ConcatProperties DEF SaysThenWrites, Signals
      <4>2. Emit("playersChanged") \in Seq(Steps) /\ Len(Emit("playersChanged")) = 1
            /\ Emit("playersChanged")[1].do = "playersChanged"
        BY EmitIsStep DEF Signals
      <4>3. agenda' = b \o Emit("playersChanged")
        BY <3>2
      <4> HIDE DEF b
      <4>4. 1 \in 1..Len(Emit("playersChanged")) /\ Len(b) \in Nat
        BY <4>1, <4>2
      <4>5. agenda'[Len(b) + 1].do = "playersChanged" /\ Len(agenda') = Len(b) + 1
        BY <4>1, <4>2, <4>3, <4>4, StepsOfBoth
      <4>6. Len(b) + 1 \in 1..Len(agenda')
        BY <4>4, <4>5
      <4>7. Says("playersChanged")'
        BY <4>5, <4>6 DEF Says
      <4>8. QED BY <3>1, <4>7 DEF AddPlayer
    <3>3. QED BY <3>1, <3>2 DEF AddPlayer
  <2>3. QED BY <2>1, <2>2
<1>2. \A signal : ~Says(signal)
  BY <1>1, NothingToSay
<1>3. StandingsBehind'
  BY <1>1, <1>2 DEF BehindInv, StandingsBehind, Scored
<1>4. ViewBehind'
  BY <1>1, <1>2 DEF BehindInv, ViewBehind, Displayed, playerRounds
<1>5. ButtonBehind'
  BY <1>1, <1>2 DEF BehindInv, ButtonBehind
<1>6. QED BY <1>1, <1>3, <1>4, <1>5 DEF BehindInv

(* pairRounds: a round that is new is announced, and if none is new nothing has
   changed. *)
LEMMA PairBehind ==
  ASSUME BehindInv, NEW news \in SetToAllKPermutations(Rounds \ rounds), PairRounds(news)
  PROVE  BehindInv'
<1> USE DEF PairRounds, client, entrants, matches, views, tables, buttons, Refused
<1>1. /\ Idle /\ UNCHANGED <<entrants, recorded, regOpen, untold, playerView, canAdd, standings>>
      /\ UNCHANGED <<rounds, active>> \/ Says("roundAdded")'
  <2>1. CASE UNCHANGED client
    BY <2>1
  <2>2. CASE /\ rounds' = rounds \cup ToSet(news) /\ active' = active \cup ToSet(news)
             /\ agenda' = [i \in DOMAIN news |-> [do |-> "roundAdded", of |-> news[i]]] \o Save
             /\ UNCHANGED <<entrants, recorded, regOpen, untold>>
    <3> DEFINE signals == [i \in DOMAIN news |-> [do |-> "roundAdded", of |-> news[i]]]
    <3>1. PICK s \in SUBSET (Rounds \ rounds) : news \in [1..Cardinality(s) -> s]
      BY DEF SetToAllKPermutations, SetToSeqs
    <3> DEFINE k == Cardinality(s)
    <3>2. k \in Nat
      BY <3>1, ConstantsAssumption, FS_Subset, FS_CardinalityType DEF ConstantsAssumption
    <3>3. \A i \in 1..k : [do |-> "roundAdded", of |-> news[i]] \in Steps
      BY <3>1 DEF Steps, Signals
    <3>4. /\ signals \in [1..k -> Steps]
          /\ \A i \in 1..k : signals[i] = [do |-> "roundAdded", of |-> news[i]]
      <4> HIDE DEF k
      <4>1. DOMAIN news = 1..k
        BY <3>1 DEF k
      <4>2. signals = [i \in 1..k |-> [do |-> "roundAdded", of |-> news[i]]]
        BY <4>1
      <4>3. QED BY ONLY <3>3, <4>2, Zenon
    <3>5. signals \in Seq(Steps) /\ Len(signals) = k
      <4> HIDE DEF signals, k
      <4>1. QED BY <3>2, <3>4
    <3>6. agenda' = signals \o Save
      BY <2>2
    <3>7. CASE k = 0
      <4>1. ToSet(news) = {}
        BY <3>1, <3>7 DEF ToSet
      <4>2. QED BY <2>2, <4>1
    <3>8. CASE k # 0
      <4> HIDE DEF signals, k
      <4>1. 1 \in 1..k /\ 1 \in 1..Len(signals)
        BY <3>2, <3>5, <3>8
      <4>2. Save \in Seq(Steps) /\ Len(Save) = 2
        BY SaveSaysThenWrites DEF SaysThenWrites
      <4>3. agenda'[1] = signals[1] /\ Len(agenda') = Len(signals) + Len(Save)
        BY <3>5, <3>6, <4>1, <4>2, StepsOfBoth
      <4>4. 1 \in 1..Len(agenda') /\ agenda'[1].do = "roundAdded"
        BY <3>2, <3>4, <3>5, <4>1, <4>2, <4>3
      <4>5. QED BY <2>2, <4>4 DEF Says
    <3>9. QED BY <3>7, <3>8
  <2>3. QED BY <2>1, <2>2
<1>2. \A signal : ~Says(signal)
  BY <1>1, NothingToSay
<1>3. StandingsBehind'
  BY <1>1, <1>2 DEF BehindInv, StandingsBehind, Scored
<1>4. ViewBehind'
  BY <1>1, <1>2 DEF BehindInv, ViewBehind, Displayed, playerRounds
<1>5. ButtonBehind'
  BY <1>1, <1>2 DEF BehindInv, ButtonBehind
<1>6. QED BY <1>1, <1>3, <1>4, <1>5 DEF BehindInv

(* The operations on rounds, the status and the settings, and a save alone. *)
LEMMA OthersBehind ==
  ASSUME BehindInv,
         \/ \E s \in Statuses : ChangeStatus(s)
         \/ \E open \in BOOLEAN : UpdateSettings(open)
         \/ \E r \in Rounds : \E nowActive, nowRecorded : OnRound(r, nowActive, nowRecorded)
         \/ SaveAgain
  PROVE  BehindInv'
<1> USE DEF client, entrants, matches, views, tables, buttons, Refused
<1>1. /\ Idle /\ UNCHANGED <<entrants, rounds, playerView, canAdd, standings>>
      /\ untold \subseteq untold'
  BY DEF ChangeStatus, UpdateSettings, OnRound, SaveAgain
<1>2. \A signal : ~Says(signal)
  BY <1>1, NothingToSay
<1>3. UNCHANGED <<active, recorded>> \/ Says("roundsChanged")'
  <2>1. CASE \E r \in Rounds : \E nowActive, nowRecorded : OnRound(r, nowActive, nowRecorded)
    <3>1. agenda' = Emit("roundsChanged") \o Save
      BY <2>1 DEF OnRound
    <3>2. QED BY <3>1, SignalIsSaid DEF Signals
  <2>2. QED BY <2>1 DEF ChangeStatus, UpdateSettings, SaveAgain
<1>4. StandingsBehind'
  BY <1>1, <1>2, <1>3 DEF BehindInv, StandingsBehind, Scored
<1>5. ViewBehind'
  BY <1>1, <1>2 DEF BehindInv, ViewBehind, Displayed, playerRounds
<1>6. regOpen' \in BOOLEAN /\ ButtonBehind'
  <2>1. regOpen \in BOOLEAN /\ (canAdd = regOpen \/ (canAdd /\ "canAdd" \in untold))
    BY <1>2 DEF BehindInv, ButtonBehind
  <2>2. CASE regOpen' = regOpen
    BY <1>1, <2>1, <2>2 DEF ButtonBehind
  <2>3. CASE \E s \in Statuses : ChangeStatus(s)
    <3>1. regOpen' = FALSE /\ regOpen = TRUE => "canAdd" \in untold'
      BY <2>3 DEF ChangeStatus
    <3>2. regOpen' \in {regOpen, FALSE}
      BY <2>3 DEF ChangeStatus
    <3>3. CASE regOpen = FALSE
      BY <2>2, <3>2, <3>3
    <3>4. CASE regOpen = TRUE /\ regOpen' = FALSE
      BY <1>1, <2>1, <3>1, <3>4 DEF ButtonBehind
    <3>5. QED BY <2>1, <2>2, <3>2, <3>3, <3>4
  <2>4. CASE \E open \in BOOLEAN : UpdateSettings(open) /\ regOpen' = open
                                   /\ agenda' = Emit("regOpenChanged") \o Save
    <3>1. Says("regOpenChanged")'
      BY <2>4, SignalIsSaid DEF Signals
    <3>2. QED BY <2>4, <3>1 DEF ButtonBehind
  <2>5. QED BY <2>2, <2>3, <2>4 DEF UpdateSettings, OnRound, SaveAgain
<1>7. QED BY <1>4, <1>5, <1>6 DEF BehindInv

(* The slots: each brings up what listens to it; the announcement of a round
   brings up neither the standings nor the view, which the history notes. *)
LEMMA SlotsBehind == ViewsInv /\ BehindInv /\ Slots => BehindInv'
<1> SUFFICES ASSUME ViewsInv, BehindInv, Slots PROVE BehindInv'
  OBVIOUS
<1> USE DEF client, entrants, matches, file, tables, buttons
<1>1. UNCHANGED <<players, dropped, rounds, active, recorded, regOpen>>
  BY DEF Slots, PlayerAdded, PlayersChanged, RoundAdded, RoundsChanged, StatusChanged,
         RegOpenChanged, Unsaved, Write
<1>2. Scored' = Scored /\ \A p : Displayed(p)' = Displayed(p)
  BY <1>1 DEF Scored, Displayed, playerRounds
<1>3. CASE PlayersChanged
  <2>1. standings' = Scored /\ playerView' = Displayed(playerView.player)
        /\ canAdd' = canAdd /\ ("canAdd" \in untold => "canAdd" \in untold')
    BY <1>3 DEF PlayersChanged
  <2>2. playerView'.player = playerView.player
    BY <2>1 DEF Displayed
  <2>3. Says("regOpenChanged") => Says("regOpenChanged")'
    BY <1>3, StepsMoveUp DEF PlayersChanged
  <2>4. QED BY <1>1, <1>2, <2>1, <2>2, <2>3
    DEF BehindInv, StandingsBehind, ViewBehind, ButtonBehind
<1>4. CASE RoundAdded
  <2>1. /\ "standings" \in untold' /\ "playerView" \in untold' /\ canAdd' = canAdd
        /\ "canAdd" \in untold => "canAdd" \in untold'
    BY <1>4 DEF RoundAdded
  <2>2. Says("regOpenChanged") => Says("regOpenChanged")'
    BY <1>4, StepsMoveUp DEF RoundAdded
  <2>3. QED BY <1>1, <2>1, <2>2
    DEF BehindInv, StandingsBehind, ViewBehind, ButtonBehind
<1>5. CASE RoundsChanged
  <2>1. /\ standings' = Scored /\ playerView' = playerView /\ canAdd' = canAdd
        /\ "playerView" \in untold => "playerView" \in untold'
        /\ "canAdd" \in untold => "canAdd" \in untold'
    BY <1>5 DEF RoundsChanged
  <2>2. /\ Says("regOpenChanged") => Says("regOpenChanged")'
        /\ Says("roundAdded") => Says("roundAdded")'
    BY <1>5, StepsMoveUp DEF RoundsChanged
  <2>3. QED BY <1>1, <1>2, <2>1, <2>2
    DEF BehindInv, StandingsBehind, ViewBehind, ButtonBehind
<1>6. CASE RegOpenChanged
  <2>1. /\ standings' = standings /\ playerView' = playerView /\ canAdd' = regOpen
        /\ "playerView" \in untold => "playerView" \in untold'
        /\ "standings" \in untold => "standings" \in untold'
    BY <1>6 DEF RegOpenChanged
  <2>2. /\ Says("playersChanged") => Says("playersChanged")'
        /\ Says("roundsChanged") => Says("roundsChanged")'
        /\ Says("roundAdded") => Says("roundAdded")'
    BY <1>6, StepsMoveUp DEF RegOpenChanged
  <2>3. QED BY <1>1, <1>2, <2>1, <2>2
    DEF BehindInv, StandingsBehind, ViewBehind, ButtonBehind
<1>7. CASE PlayerAdded \/ StatusChanged \/ Unsaved \/ Write
  <2>1. UNCHANGED <<standings, playerView, canAdd, untold>>
    BY <1>7 DEF PlayerAdded, StatusChanged, Unsaved, Write
  <2>2. /\ Says("playersChanged") => Says("playersChanged")'
        /\ Says("roundsChanged") => Says("roundsChanged")'
        /\ Says("roundAdded") => Says("roundAdded")'
        /\ Says("regOpenChanged") => Says("regOpenChanged")'
    BY <1>7, StepsMoveUp DEF PlayerAdded, StatusChanged, Unsaved, Write
  <2>3. QED BY <1>1, <1>2, <2>1, <2>2
    DEF BehindInv, StandingsBehind, ViewBehind, ButtonBehind
<1>8. QED BY <1>3, <1>4, <1>5, <1>6, <1>7 DEF Slots

(* What the user does to a view alone. *)
LEMMA ClicksBehind ==
  ASSUME BehindInv,
         TickPlayerBox \/ TickRoundBox \/ (\E p \in Players : SelectPlayer(p)) \/ UNCHANGED vars
  PROVE  BehindInv'
<1> USE DEF client, entrants, matches, file, views, tables, buttons
<1>1. /\ UNCHANGED <<players, dropped, rounds, active, recorded, regOpen, standings, canAdd, agenda>>
      /\ "standings" \in untold => "standings" \in untold'
      /\ "canAdd" \in untold => "canAdd" \in untold'
  BY DEF TickPlayerBox, TickRoundBox, SelectPlayer, vars
<1>2. \A signal : Says(signal)' <=> Says(signal)
  BY <1>1 DEF Says
<1>3. Scored' = Scored /\ \A p : Displayed(p)' = Displayed(p)
  BY <1>1 DEF Scored, Displayed, playerRounds
<1>4. ViewBehind'
  <2>1. CASE \E p \in Players : SelectPlayer(p)
    <3>1. PICK p \in Players : playerView' = Displayed(p)
      BY <2>1 DEF SelectPlayer
    <3>2. playerView'.player = p
      BY <3>1 DEF Displayed
    <3>3. QED BY <1>3, <3>1, <3>2 DEF ViewBehind
  <2>2. CASE UNCHANGED <<playerView, untold>>
    BY <1>2, <1>3, <2>2 DEF BehindInv, ViewBehind
  <2>3. QED BY <2>1, <2>2 DEF TickPlayerBox, TickRoundBox, vars
<1>5. StandingsBehind' /\ ButtonBehind' /\ regOpen' \in BOOLEAN
  BY <1>1, <1>2, <1>3 DEF BehindInv, StandingsBehind, ButtonBehind
<1>6. QED BY <1>4, <1>5 DEF BehindInv

(* A view of the tab is behind only when no signal told it: the standings and a
   player's rounds after a pairing, the button after the client closed the
   registration, for any players and any number of rounds. *)
THEOREM BehindOnlyIfUntold == Spec => []StaleOnlyIfUntold
<1>1. Init => BehindInv
  <2> SUFFICES ASSUME Init PROVE BehindInv
    OBVIOUS
  <2>1. playerView = Displayed(playerView.player)
    BY DEF Init, FreshTab, Displayed
  <2>2. QED BY <2>1 DEF Init, FreshTab, BehindInv, StandingsBehind, ViewBehind, ButtonBehind
<1>2. ViewsInv /\ BehindInv /\ [Next]_vars => BehindInv'
  <2> SUFFICES ASSUME ViewsInv, BehindInv, [Next]_vars PROVE BehindInv'
    OBVIOUS
  <2>1. CASE \E r \in Rounds : \/ recordResult(r) \/ recordDraws(r) \/ confirmPlayer(r)
                               \/ killRound(r) \/ timeExtendRound(r)
    BY <2>1, OthersBehind
    DEF recordResult, recordDraws, confirmPlayer, killRound, timeExtendRound
  <2>2. QED
    BY <2>1, PlayersBehind, PairBehind, OthersBehind, SlotsBehind, ClicksBehind DEF Next
<1>3. BehindInv => StaleOnlyIfUntold
  BY NothingToSay DEF StaleOnlyIfUntold, BehindInv, StandingsBehind, ViewBehind, ButtonBehind
<1>4. QED BY <1>1, <1>2, <1>3, InitViews, ViewsStep, PTL DEF Spec
-----------------------------------------------------------------------------
(* The types.  Whom dropPlayer drops and whom setPlayer shows are players: the
   table and the standings, from which they are chosen, have nobody else. *)
ClientTyped ==
  /\ players \subseteq Players /\ dropped \subseteq players
  /\ rounds \subseteq Rounds /\ active \subseteq rounds /\ recorded \subseteq rounds
  /\ status \in Statuses /\ regOpen \in BOOLEAN

TablesTyped == playerTable \in Table(Players) /\ roundTable \in Table(Rounds)

ChosenTyped ==
  /\ standings.players \subseteq players
  /\ playerView.player \in players \cup {NoPlayer} /\ playerView.rounds \subseteq rounds

ButtonsTyped ==
  /\ label.status \in Statuses /\ label.starred \in BOOLEAN /\ canAdd \in BOOLEAN
  /\ untold \subseteq {"standings", "playerView", "canAdd"}

TypesInv == ClientTyped /\ TablesTyped /\ ChosenTyped /\ ButtonsTyped

LEMMA RowsTyped ==
  ASSUME NEW items, NEW data \in [items -> Nat], NEW box \in BOOLEAN, NEW passing
  PROVE  Rows(items, data, box, passing) \in Table(items)
BY DEF Rows, Table

LEMMA OnceTyped ==
  ASSUME NEW items, NEW present
  PROVE  Once(items, present) \in [items -> Nat]
BY DEF Once

LEMMA InitTypes == Init => TypesInv
<1> SUFFICES ASSUME Init PROVE TypesInv
  OBVIOUS
<1>1. ClientTyped
  BY DEF Init, ClientTyped
<1>2. TablesTyped
  BY RowsTyped, OnceTyped DEF Init, FreshTab, TablesTyped, PlayerRows, RoundRows
<1>3. ChosenTyped
  BY DEF Init, FreshTab, ChosenTyped, Scored
<1>4. ButtonsTyped
  BY DEF Init, FreshTab, ButtonsTyped, Label
<1>5. QED BY <1>1, <1>2, <1>3, <1>4 DEF TypesInv

(* The operations change the client alone, and take nobody out of it. *)
LEMMA OperationTypes ==
  ASSUME TypesInv,
         \/ \E p \in Players : AddPlayer(p)
         \/ DropPlayer
         \/ \E news \in SetToAllKPermutations(Rounds \ rounds) : PairRounds(news)
         \/ \E r \in Rounds : \/ recordResult(r) \/ recordDraws(r) \/ confirmPlayer(r)
                              \/ killRound(r) \/ timeExtendRound(r)
         \/ \E s \in Statuses : ChangeStatus(s)
         \/ \E open \in BOOLEAN : UpdateSettings(open)
         \/ SaveAgain
  PROVE  TypesInv'
<1>1. /\ UNCHANGED <<playerTable, roundTable, standings, playerView, label, canAdd>>
      /\ ClientTyped' /\ players \subseteq players' /\ rounds \subseteq rounds'
      /\ untold' \subseteq {"standings", "playerView", "canAdd"}
  <2> USE DEF TypesInv, ClientTyped, ButtonsTyped, views, tables, buttons
  <2>1. CASE \E p \in Players : AddPlayer(p)
    BY <2>1 DEF AddPlayer, Refused, client, entrants, matches
  <2>2. CASE DropPlayer
    BY <2>2 DEF DropPlayer, Refused, client, entrants, matches, ChosenTyped
  <2>3. CASE \E news \in SetToAllKPermutations(Rounds \ rounds) : PairRounds(news)
    <3>1. PICK news \in SetToAllKPermutations(Rounds \ rounds) : PairRounds(news)
      BY <2>3
    <3>2. ToSet(news) \subseteq Rounds
      BY DEF SetToAllKPermutations, SetToSeqs, ToSet
    <3>3. QED BY <3>1, <3>2 DEF PairRounds, Refused, client, entrants, matches
  <2>4. CASE \E r \in Rounds : \/ recordResult(r) \/ recordDraws(r) \/ confirmPlayer(r)
                               \/ killRound(r) \/ timeExtendRound(r)
    <3>1. PICK r \in Rounds : \/ recordResult(r) \/ recordDraws(r) \/ confirmPlayer(r)
                              \/ killRound(r) \/ timeExtendRound(r)
      BY <2>4
    <3>2. \/ UNCHANGED <<client, untold>>
          \/ /\ r \in rounds /\ active' \in {active, active \ {r}}
             /\ recorded' \in {recorded, recorded \cup {r}}
             /\ UNCHANGED <<entrants, rounds, status, regOpen, untold>>
      BY <3>1 DEF recordResult, recordDraws, confirmPlayer, killRound, timeExtendRound, OnRound, Refused
    <3>3. UNCHANGED views
      BY <3>1 DEF recordResult, recordDraws, confirmPlayer, killRound, timeExtendRound, OnRound
    <3>4. QED BY <3>2, <3>3 DEF client, entrants, matches
  <2>5. CASE \E s \in Statuses : ChangeStatus(s)
    BY <2>5 DEF ChangeStatus, Refused, client, entrants, matches
  <2>6. CASE \E open \in BOOLEAN : UpdateSettings(open)
    BY <2>6 DEF UpdateSettings, Refused, client, entrants, matches
  <2>7. CASE SaveAgain
    BY <2>7 DEF SaveAgain, client, entrants, matches
  <2>8. QED BY <2>1, <2>2, <2>3, <2>4, <2>5, <2>6, <2>7
<1>2. TablesTyped'
  BY <1>1 DEF TypesInv, TablesTyped
<1>3. ChosenTyped'
  BY <1>1 DEF TypesInv, ChosenTyped
<1>4. ButtonsTyped'
  BY <1>1 DEF TypesInv, ButtonsTyped
<1>5. QED BY <1>1, <1>2, <1>3, <1>4 DEF TypesInv

(* The slots draw what the client has. *)
LEMMA SlotTypes ==
  ASSUME TypesInv, saved' \in BOOLEAN, Slots \/ TickPlayerBox \/ TickRoundBox
  PROVE  TypesInv'
<1>1. UNCHANGED client /\ ClientTyped' /\ UNCHANGED <<players, rounds>>
  BY DEF Slots, PlayerAdded, PlayersChanged, RoundAdded, RoundsChanged, StatusChanged,
         RegOpenChanged, Unsaved, Write, TickPlayerBox, TickRoundBox, client, entrants, matches,
         TypesInv, ClientTyped
<1>2. /\ playerTable.data \in [Players -> Nat] /\ playerTable.box \in BOOLEAN
      /\ roundTable.data \in [Rounds -> Nat] /\ roundTable.box \in BOOLEAN
      /\ (~playerTable.box) \in BOOLEAN /\ (~roundTable.box) \in BOOLEAN
      /\ \A p : [playerTable.data EXCEPT ![p] = @ + 1] \in [Players -> Nat]
      /\ \A r : [roundTable.data EXCEPT ![r] = @ + 1] \in [Rounds -> Nat]
  <2>1. /\ playerTable.data \in [Players -> Nat] /\ playerTable.box \in BOOLEAN
        /\ roundTable.data \in [Rounds -> Nat] /\ roundTable.box \in BOOLEAN
    BY DEF TypesInv, TablesTyped, Table
  <2>2. ASSUME NEW items, NEW data \in [items -> Nat], NEW x
        PROVE  [data EXCEPT ![x] = @ + 1] \in [items -> Nat]
    <3>1. CASE x \in items
      BY <3>1
    <3>2. CASE x \notin items
      <4>1. [data EXCEPT ![x] = @ + 1] = data
        BY <3>2
      <4>2. QED BY <4>1
    <3>3. QED BY <3>1, <3>2
  <2>3. \A box \in BOOLEAN : (~box) \in BOOLEAN
    OBVIOUS
  <2>4. QED BY <2>1, <2>2, <2>3
<1>3. TablesTyped'
  <2>1. playerTable' \in Table(Players)
    <3>1. \A data \in [Players -> Nat], box \in BOOLEAN : PlayerRows(data, box) \in Table(Players)
      BY RowsTyped DEF PlayerRows
    <3>2. \/ UNCHANGED playerTable
          \/ \E data \in [Players -> Nat], box \in BOOLEAN : playerTable' = PlayerRows(data, box)
      BY <1>2, OnceTyped
         DEF Slots, PlayerAdded, PlayersChanged, RoundAdded, RoundsChanged, StatusChanged,
             RegOpenChanged, Unsaved, Write, TickPlayerBox, TickRoundBox, tables
    <3>3. QED BY <3>1, <3>2 DEF TypesInv, TablesTyped
  <2>2. roundTable' \in Table(Rounds)
    <3>1. \A data \in [Rounds -> Nat], box \in BOOLEAN : RoundRows(data, box) \in Table(Rounds)
      BY RowsTyped DEF RoundRows
    <3>2. \/ UNCHANGED roundTable
          \/ \E data \in [Rounds -> Nat], box \in BOOLEAN : roundTable' = RoundRows(data, box)
      BY <1>2, OnceTyped
         DEF Slots, PlayerAdded, PlayersChanged, RoundAdded, RoundsChanged, StatusChanged,
             RegOpenChanged, Unsaved, Write, TickPlayerBox, TickRoundBox, tables
    <3>3. QED BY <3>1, <3>2 DEF TypesInv, TablesTyped
  <2>3. QED BY <2>1, <2>2 DEF TablesTyped
<1>4. ChosenTyped'
  <2>1. standings' \in {standings, Scored}
    BY DEF Slots, PlayerAdded, PlayersChanged, RoundAdded, RoundsChanged, StatusChanged,
           RegOpenChanged, Unsaved, Write, TickPlayerBox, TickRoundBox, tables
  <2>2. playerView' \in {playerView, Displayed(playerView.player)}
    BY DEF Slots, PlayerAdded, PlayersChanged, RoundAdded, RoundsChanged, StatusChanged,
           RegOpenChanged, Unsaved, Write, TickPlayerBox, TickRoundBox, tables
  <2>3. QED BY <1>1, <2>1, <2>2 DEF TypesInv, ChosenTyped, Scored, Displayed, playerRounds
<1>5. ButtonsTyped'
  <2>1. UNCHANGED label \/ label' = Label(status, saved')
    BY DEF Slots, PlayerAdded, PlayersChanged, RoundAdded, RoundsChanged, StatusChanged,
           RegOpenChanged, Unsaved, Write, TickPlayerBox, TickRoundBox, buttons, file
  <2>2. canAdd' \in {canAdd, regOpen}
    BY DEF Slots, PlayerAdded, PlayersChanged, RoundAdded, RoundsChanged, StatusChanged,
           RegOpenChanged, Unsaved, Write, TickPlayerBox, TickRoundBox, buttons
  <2>3. untold' \subseteq untold \cup {"standings", "playerView"}
    BY DEF Slots, PlayerAdded, PlayersChanged, RoundAdded, RoundsChanged, StatusChanged,
           RegOpenChanged, Unsaved, Write, TickPlayerBox, TickRoundBox
  <2>4. ASSUME NEW now \in BOOLEAN
        PROVE  Label(status, now).status = status /\ Label(status, now).starred \in BOOLEAN
    BY DEF Label
  <2>5. label'.status \in Statuses /\ label'.starred \in BOOLEAN
    BY <2>1, <2>4 DEF TypesInv, ButtonsTyped, ClientTyped
  <2>6. QED BY <2>2, <2>3, <2>5 DEF TypesInv, ButtonsTyped, ClientTyped
<1>6. QED BY <1>1, <1>3, <1>4, <1>5 DEF TypesInv

LEMMA SelectTypes ==
  ASSUME TypesInv, TablesInv, NEW p \in Players, SelectPlayer(p)
  PROVE  TypesInv'
<1>1. p \in players
  <2>1. playerTable = PlayerRows(Once(Players, players), playerTable.box)
    BY IdleIsCurrent DEF SelectPlayer
  <2>2. p \notin players => playerTable.shown[p] = 0
    BY <2>1 DEF PlayerRows, Rows, Once
  <2>3. QED BY <2>2 DEF SelectPlayer, TypesInv, ChosenTyped
<1>2. /\ UNCHANGED <<players, dropped, rounds, active, recorded, status, regOpen>>
      /\ UNCHANGED <<playerTable, roundTable, standings, label, canAdd>>
      /\ playerView' = Displayed(p) /\ untold' \subseteq untold
  BY DEF SelectPlayer, client, entrants, matches, buttons
<1>3. playerView'.player = p /\ playerView'.rounds \subseteq rounds
  BY <1>2 DEF Displayed, playerRounds
<1>4. QED
  BY <1>1, <1>2, <1>3 DEF TypesInv, ClientTyped, TablesTyped, ChosenTyped, ButtonsTyped

(* TypeOK for any players and rounds: rounds with a result and rounds that are
   shown were paired, dropped players and the one that is shown were added. *)
THEOREM TypeCorrect == Spec => []TypeOK
<1>1. ASSUME ViewsInv', TablesInv, TypesInv, [Next]_vars PROVE TypesInv'
  <2>1. saved' \in BOOLEAN
    BY <1>1 DEF ViewsInv
  <2>2. CASE UNCHANGED vars
    BY <1>1, <2>2 DEF vars, client, entrants, matches, views, tables, buttons, TypesInv,
                      ClientTyped, TablesTyped, ChosenTyped, ButtonsTyped
  <2>3. CASE \E p \in Players : SelectPlayer(p)
    BY <1>1, <2>3, SelectTypes
  <2>4. CASE Slots \/ TickPlayerBox \/ TickRoundBox
    BY <1>1, <2>1, <2>4, SlotTypes
  <2>5. QED BY <1>1, <2>2, <2>3, <2>4, OperationTypes DEF Next
<1>2. ViewsInv' /\ TablesInv /\ TypesInv /\ [Next]_vars => TypesInv'
  BY <1>1
<1>3. ViewsInv /\ TypesInv => TypeOK
  BY DEF ViewsInv, TypesInv, ClientTyped, TablesTyped, ChosenTyped, ButtonsTyped, TypeOK
<1>4. QED
  BY <1>2, <1>3, InitViews, ViewsStep, InitTables, TablesStep, InitTypes, PTL DEF Spec
=============================================================================
