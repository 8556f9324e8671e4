-------------------------- MODULE TournamentViews --------------------------
(***************************************************************************)
(* One tournament and what its tab shows of it.  Every operation of the    *)
(* class Tournament asks the Rust client, emits signals, whose slots in    *)
(* the widgets of TournamentTab run one after the other, and saves; which  *)
(* signals, in which order and whether it saves after a refusal differs    *)
(* from one operation to the next.  The tables keep ids only: the texts    *)
(* in their rows are asked for again every 100 ms and are left out.        *)
(***************************************************************************)
EXTENDS Integers, Sequences, FiniteSets, SequencesExt

CONSTANTS
  Players, Rounds, NoPlayer,
  Members   (* the players of every round: the client's choice, and final    *)

ASSUME ConstantsAssumption ==
  /\ NoPlayer \notin Players
  /\ IsFiniteSet(Rounds)
  /\ Members \in [Rounds -> SUBSET Players]

VARIABLES
  players, dropped,     (* registered, and those of them who dropped        *)
  rounds, active,       (* paired rounds, and those of them with status Open*)
  recorded,             (* rounds with a result                             *)
  status, regOpen,      (* of the tournament                                *)
  written,              (* the file holds all of this                        *)
  saved,                (* the member saved                                 *)
  playerTable,          (* table of PlayerListWidget                        *)
  roundTable,           (* table of TournamentTab                           *)
  standings,            (* what the table of StandingsBoardWidget is about  *)
  playerView,           (* PlayerViewWidget: player and rounds              *)
  label,                (* status, star and "pair" button of TournamentTab  *)
  canAdd,               (* the "add player" button                          *)
  agenda,               (* what the running operation has left to do        *)
  untold                (* history: views with a change they were not told  *)

entrants == <<players, dropped>>
matches == <<rounds, active, recorded>>
client == <<entrants, matches, status, regOpen>>
file == <<written, saved>>
tables == <<playerTable, roundTable, standings, playerView>>
buttons == <<label, canAdd>>
views == <<tables, buttons>>
vars == <<client, file, views, agenda, untold>>

Statuses == {"Planned", "Started", "Frozen", "Ended", "Cancelled"}

-----------------------------------------------------------------------------
(* SearchSortTableWidget, as far as its rows go: data holds how often each *)
(* item was put in, shown what passed the box when data or the box last    *)
(* changed.                                                                *)

Rows(items, data, box, passing) ==
  [data |-> data, box |-> box,
   shown |-> [x \in items |-> IF box /\ x \notin passing THEN 0 ELSE data[x]]]

Once(items, present) == [x \in items |-> IF x \in present THEN 1 ELSE 0]

PlayerRows(data, box) == Rows(Players, data, box, players \ dropped)
RoundRows(data, box) == Rows(Rounds, data, box, active)

(* What tid_standings works from; how it scores is the client's business. *)
Scored == [players |-> players, dropped |-> dropped, rounds |-> rounds,
           active |-> active, recorded |-> recorded]

playerRounds(p) == {r \in rounds : p \in Members[r]}

Label(s, isSaved) == [status |-> s, starred |-> ~isSaved, canPair |-> (s = "Started")]

(* TournamentTab::TournamentTab with emitAllProps: everything is new. *)
FreshTab ==
  /\ playerTable = PlayerRows(Once(Players, players), FALSE)
  /\ roundTable = RoundRows(Once(Rounds, rounds), FALSE)
  /\ standings = Scored
  /\ playerView = [player |-> NoPlayer, rounds |-> {}]
  /\ label = Label(status, saved)
  /\ canAdd = regOpen
  /\ agenda = <<>>
  /\ untold = {}

(* A tournament that was made or loaded, in a new tab that has saved it or
   not: rounds were paired only if it was started. *)
Init ==
  /\ players \in SUBSET Players /\ dropped \in SUBSET players
  /\ status \in Statuses /\ regOpen \in BOOLEAN
  /\ rounds \in SUBSET {r \in Rounds : status # "Planned" /\ Members[r] \subseteq players}
  /\ active \in SUBSET rounds /\ recorded \in SUBSET rounds
  /\ saved \in BOOLEAN /\ written = saved
  /\ FreshTab

-----------------------------------------------------------------------------
(* What an operation has left to do, in order.                             *)
Emit(signal) == <<[do |-> signal]>>
EmitOf(signal, x) == <<[do |-> signal, of |-> x]>>

(* Tournament::save: setSaveStatus(false), save_tourn, setSaveStatus(true). *)
Save == Emit("unsaved") \o Emit("write")

Idle == agenda = <<>>
Doing(step) == agenda # <<>> /\ Head(agenda).do = step /\ agenda' = Tail(agenda)

-----------------------------------------------------------------------------
(* Deliberately wrong variants of definitions below, one per property: each  *)
(* is a bug this code could have had, and breaks the property named.       *)

(* TablesAreCurrent: a dropped player is saved but not announced. *)
DropQuietly ==
  /\ Idle /\ playerView.player \in players
  /\ dropped' = dropped \cup {playerView.player}
  /\ written' = FALSE
  /\ agenda' = Save
  /\ UNCHANGED <<players, matches, status, regOpen, saved, views, untold>>

(* SavedIsTrue: pairRounds does not save. *)
PairUnsaved(news) ==
  /\ Idle /\ status = "Started"
  /\ rounds' = rounds \cup ToSet(news) /\ active' = active \cup ToSet(news)
  /\ written' = FALSE
  /\ agenda' = [i \in DOMAIN news |-> [do |-> "roundAdded", of |-> news[i]]]
  /\ UNCHANGED <<entrants, recorded, status, regOpen, saved, views, untold>>

(* StaleOnlyIfUntold: the standings listen to the players only. *)
RoundsChangedTableOnly ==
  /\ Doing("roundsChanged")
  /\ roundTable' = RoundRows(Once(Rounds, rounds), roundTable.box)
  /\ UNCHANGED <<client, file, playerTable, standings, playerView, buttons, untold>>

-----------------------------------------------------------------------------
(* Operations of Tournament, up to the first signal.                       *)

(* What the client did; a refusal changes nothing. *)
Refused == UNCHANGED <<client, written, untold>>

(* addPlayer, from the button or from the menu, which is never disabled;
   nothing at all after a refusal. *)
AddPlayer(p) ==
  /\ Idle
  /\ \/ /\ regOpen /\ p \notin players
        /\ players' = players \cup {p}
        /\ written' = FALSE
        /\ agenda' = Emit("unsaved") \o Save \o EmitOf("playerAdded", p)
                                     \o Emit("playersChanged")
        /\ UNCHANGED <<dropped, matches, status, regOpen, untold>>
     \/ Refused /\ UNCHANGED agenda
  /\ UNCHANGED <<saved, views>>

(* dropPlayer, for the player PlayerViewWidget holds.  Before one was selected
   its member player is an uninitialised id, which may be anybody's. *)
DropPlayer ==
  /\ Idle
  /\ \/ /\ dropped' \in {dropped \cup {p} :
                           p \in IF playerView.player = NoPlayer THEN players
                                                                 ELSE {playerView.player}}
        /\ written' = FALSE
        /\ UNCHANGED <<players, matches, status, regOpen, untold>>
     \/ Refused
  /\ agenda' = Emit("playersChanged") \o Save
  /\ UNCHANGED <<saved, views>>

(* pairRounds, from the button or from the menu, which is never disabled: the
   new rounds are announced one by one; nothing at all after a refusal. *)
PairRounds(news) ==
  /\ Idle
  /\ \/ /\ status = "Started"
        /\ \A r \in ToSet(news) : Members[r] \subseteq players \ dropped
        /\ rounds' = rounds \cup ToSet(news)
        /\ active' = active \cup ToSet(news)
        /\ written' = FALSE
        /\ agenda' = [i \in DOMAIN news |-> [do |-> "roundAdded", of |-> news[i]]] \o Save
        /\ UNCHANGED <<entrants, recorded, status, regOpen, untold>>
     \/ Refused /\ UNCHANGED agenda
  /\ UNCHANGED <<saved, views>>

(* The five operations on a round announce and save, refused or not. *)
OnRound(r, nowActive, nowRecorded) ==
  /\ Idle /\ r \in rounds
  /\ \/ /\ active' \in nowActive
        /\ recorded' = nowRecorded
        /\ written' = FALSE
        /\ UNCHANGED <<entrants, rounds, status, regOpen, untold>>
     \/ Refused
  /\ agenda' = Emit("roundsChanged") \o Save
  /\ UNCHANGED <<saved, views>>

(* Whether a result or a confirmation ends a round is the client's business. *)
recordResult(r) == OnRound(r, {active, active \ {r}}, recorded \cup {r})
recordDraws(r) == OnRound(r, {active, active \ {r}}, recorded \cup {r})
confirmPlayer(r) == OnRound(r, {active, active \ {r}}, recorded)
killRound(r) == OnRound(r, {active \ {r}}, recorded)
timeExtendRound(r) == OnRound(r, {active}, recorded)

availableStatusChanges(s) ==
  CASE s = "Planned" -> {"Started", "Frozen", "Cancelled"}
    [] s = "Started" -> {"Frozen", "Ended"}
    [] OTHER -> {}

(* start, end, cancel and freeze, from the settings dialogue: refused or not,
   the status is announced and the tournament saved.  The client may close the
   registration with it, which is not announced. *)
ChangeStatus(s) ==
  /\ Idle
  /\ \/ /\ s \in availableStatusChanges(status)
        /\ status' = s
        /\ regOpen' \in {regOpen, FALSE}
        /\ untold' = IF regOpen' # regOpen THEN untold \cup {"canAdd"} ELSE untold
        /\ written' = FALSE
        /\ UNCHANGED <<entrants, matches>>
     \/ Refused
  /\ agenda' = Emit("statusChanged") \o Save
  /\ UNCHANGED <<saved, views>>

(* updateSettings: nothing at all after a refusal. *)
UpdateSettings(open) ==
  /\ Idle
  /\ \/ /\ regOpen' = open
        /\ written' = FALSE
        /\ agenda' = Emit("regOpenChanged") \o Save
        /\ UNCHANGED <<entrants, matches, status, untold>>
     \/ Refused /\ UNCHANGED agenda
  /\ UNCHANGED <<saved, views>>

(* The unsaved-changes dialogue and the constructor of the tab. *)
SaveAgain ==
  /\ Idle
  /\ agenda' = Save
  /\ UNCHANGED <<client, file, views, untold>>

-----------------------------------------------------------------------------
(* The rest of an operation: one step per signal, with every slot of it.   *)

PlayerAdded ==
  /\ Doing("playerAdded")
  /\ LET p == Head(agenda).of
     IN  playerTable' = PlayerRows([playerTable.data EXCEPT ![p] = @ + 1], playerTable.box)
  /\ UNCHANGED <<client, file, roundTable, standings, playerView, buttons, untold>>

Displayed(p) == [player |-> p, rounds |-> IF p = NoPlayer THEN {} ELSE playerRounds(p)]

PlayersChanged ==
  /\ Doing("playersChanged")
  /\ playerTable' = PlayerRows(Once(Players, players), playerTable.box)
  /\ standings' = Scored
  /\ playerView' = Displayed(playerView.player)
  /\ untold' = untold \ {"standings", "playerView"}
  /\ UNCHANGED <<client, file, roundTable, buttons>>

(* Neither the standings nor the view of a player listen to this one. *)
RoundAdded ==
  /\ Doing("roundAdded")
  /\ LET r == Head(agenda).of
     IN  roundTable' = RoundRows([roundTable.data EXCEPT ![r] = @ + 1], roundTable.box)
  /\ untold' = untold \cup {"standings", "playerView"}
  /\ UNCHANGED <<client, file, playerTable, standings, playerView, buttons>>

RoundsChanged ==
  /\ Doing("roundsChanged")
  /\ roundTable' = RoundRows(Once(Rounds, rounds), roundTable.box)
  /\ standings' = Scored
  /\ untold' = untold \ {"standings"}
  /\ UNCHANGED <<client, file, playerTable, playerView, buttons>>

StatusChanged ==
  /\ Doing("statusChanged")
  /\ label' = Label(status, saved)
  /\ UNCHANGED <<client, file, tables, canAdd, untold>>

RegOpenChanged ==
  /\ Doing("regOpenChanged")
  /\ canAdd' = regOpen
  /\ untold' = untold \ {"canAdd"}
  /\ UNCHANGED <<client, file, tables, label>>

(* setSaveStatus(false), whose slot shows the status anew. *)
Unsaved ==
  /\ Doing("unsaved")
  /\ saved' = FALSE
  /\ label' = Label(status, saved')
  /\ UNCHANGED <<client, written, tables, canAdd, untold>>

(* save_tourn (see SaveFile), and setSaveStatus(true) if it succeeds. *)
Write ==
  /\ Doing("write")
  /\ \/ written' = TRUE /\ saved' = TRUE /\ label' = Label(status, saved')
     \/ written' = FALSE /\ UNCHANGED <<saved, label>>
  /\ UNCHANGED <<client, tables, canAdd, untold>>

-----------------------------------------------------------------------------
(* What the user does to a view alone.                                     *)

(* filterSelected, for the box of either table. *)
TickPlayerBox ==
  /\ Idle
  /\ playerTable' = PlayerRows(playerTable.data, ~playerTable.box)
  /\ UNCHANGED <<client, file, roundTable, standings, playerView, buttons, agenda, untold>>

TickRoundBox ==
  /\ Idle
  /\ roundTable' = RoundRows(roundTable.data, ~roundTable.box)
  /\ UNCHANGED <<client, file, playerTable, standings, playerView, buttons, agenda, untold>>

(* PlayerViewWidget::setPlayer, from a row of the players or of the standings
   or of a match. *)
SelectPlayer(p) ==
  /\ Idle
  /\ playerTable.shown[p] > 0 \/ p \in standings.players
  /\ playerView' = Displayed(p)
  /\ untold' = untold \ {"playerView"}
  /\ UNCHANGED <<client, file, playerTable, roundTable, standings, buttons, agenda>>

-----------------------------------------------------------------------------
Slots == PlayerAdded \/ PlayersChanged \/ RoundAdded \/ RoundsChanged
           \/ StatusChanged \/ RegOpenChanged \/ Unsaved \/ Write

Next ==
  \/ \E p \in Players : AddPlayer(p) \/ SelectPlayer(p)
  \/ DropPlayer
  \/ \E news \in SetToAllKPermutations(Rounds \ rounds) : PairRounds(news)
  \/ \E r \in Rounds : \/ recordResult(r) \/ recordDraws(r) \/ confirmPlayer(r)
                       \/ killRound(r) \/ timeExtendRound(r)
  \/ \E s \in Statuses : ChangeStatus(s)
  \/ \E open \in BOOLEAN : UpdateSettings(open)
  \/ SaveAgain \/ TickPlayerBox \/ TickRoundBox
  \/ Slots

Spec == Init /\ [][Next]_vars

-----------------------------------------------------------------------------
Table(items) ==
  [data : [items -> Nat], box : BOOLEAN, shown : [items -> Nat]]

TypeOK ==
  /\ players \subseteq Players /\ dropped \subseteq players
  /\ rounds \subseteq Rounds /\ active \subseteq rounds /\ recorded \subseteq rounds
  /\ status \in Statuses /\ regOpen \in BOOLEAN
  /\ written \in BOOLEAN /\ saved \in BOOLEAN
  /\ playerTable \in Table(Players) /\ roundTable \in Table(Rounds)
  /\ playerView.player \in Players \cup {NoPlayer} /\ playerView.rounds \subseteq rounds
  /\ label.status \in Statuses /\ label.starred \in BOOLEAN /\ canAdd \in BOOLEAN
  /\ untold \subseteq {"standings", "playerView", "canAdd"}

(* When an operation has returned, both tables have every player and every
   round once, and a ticked box hides exactly those that are not active now:
   addDatum on top of what is there and setData afterwards never disagree.  The
   label, its star and the "pair" button are those of the tournament as it is
   now, whatever was refused or could not be written. *)
TablesAreCurrent ==
  Idle => /\ playerTable = PlayerRows(Once(Players, players), playerTable.box)
          /\ roundTable = RoundRows(Once(Rounds, rounds), roundTable.box)
          /\ label = Label(status, saved)

(* "All operations that change data should call save()"
   (abstract_tournament.h): the tournament is never called saved with a change
   that was not written, in whichever order an operation saves and emits. *)
SavedIsTrue == Idle /\ saved => written

(* The standings are behind only after a pairing, a player's rounds too, and
   the "add player" button only after the client closed the registration
   itself: then it invites to add a player, and is never dead while players
   can be added. *)
StaleOnlyIfUntold ==
  Idle =>
    /\ standings = Scored \/ "standings" \in untold
    /\ playerView = Displayed(playerView.player) \/ "playerView" \in untold
    /\ canAdd = regOpen \/ (canAdd /\ "canAdd" \in untold)
=============================================================================
