----------------------------- MODULE RoundTimer -----------------------------
(***************************************************************************)
(* What a tournament tab shows of the time.  Its header, the time left in  *)
(* the round, the number of active matches and a progress bar, comes from  *)
(* all matches there are; the match panel shows the time of the selected   *)
(* one.  Each is drawn by a timer of its own, every 100 ms, and when       *)
(* something changed.  How a time is written out is left out.              *)
(***************************************************************************)
EXTENDS Integers, FiniteSets, FiniteSetsExt

CONSTANTS
  MatchIds,
  Lengths,       (* round lengths a tournament may have, in seconds          *)
  Extensions,    (* seconds a match may be extended by at once               *)
  MaxClock,      (* bound on the clock                                       *)
  MaxExtension,  (* bound on the extensions of a match                       *)
  NoMatch        (* not paired yet, or not selected                          *)

ASSUME RoundTimerAssumption ==
  /\ Lengths \subseteq Nat /\ Extensions \subseteq Nat
  /\ MaxClock \in Nat /\ MaxExtension \in Nat
  /\ NoMatch \notin MatchIds
  /\ NoMatch \notin [started : Nat, length : Lengths, extension : Nat, active : BOOLEAN]

VARIABLES
  clock,
  roundLength,  (* of the tournament, for the matches paired from now on     *)
  clientMatch,  (* every match in the client, or NoMatch                     *)
  header,       (* the label: seconds left, and the active matches           *)
  bar,          (* the value of the header's progress bar                    *)
  panel,        (* the panel: its match, seconds left, bar and extension     *)
  updated       (* history: when the header and the panel were drawn last    *)

timerViews == <<header, bar, panel, updated>>
roundTimerVars == <<clock, roundLength, clientMatch, timerViews>>

Paired == {x \in MatchIds : clientMatch[x] # NoMatch}
AllMatches == {clientMatch[x] : x \in Paired}

(* QProgressBar::setValue takes no value outside of its range. *)
BarAfter(old, value) == IF value \in 0..100 THEN value ELSE old

-----------------------------------------------------------------------------
(* Round::time_left and Round::duration: the client's clock starts when the
   match is paired and does not stop when it ends; the length is without the
   extensions. *)
TimeAt(m, t) == Max({0, m.length + m.extension - (t - m.started)})
time_left(m) == TimeAt(m, clock)
duration(m) == m.length

Least(S) == IF S = {} THEN 0 ELSE Min(S)
Greatest(S) == IF S = {} THEN 0 ELSE Max(S)

(* A deliberately wrong variant of LeftInRound, which breaks NeverOptimistic:
   the match that has most time. *)
LeftOfLast(ms) == Greatest({time_left(m) : m \in ms})

(* min, over all matches, those of earlier rounds too. *)
LeftInRound(ms) == Least({time_left(m) : m \in ms})

(* The header, from the matches as they are after the step, none of which takes
   time. *)
updateRoundTimer ==
  LET min == LeftInRound(AllMatches')
      max == Greatest({duration(m) : m \in AllMatches'})
  IN  /\ header' = [left |-> min, active |-> Cardinality({x \in Paired' : clientMatch'[x].active})]
      /\ bar' = IF max = 0 THEN 0 ELSE BarAfter(bar, (100 * min) \div max)

(* The panel, about match x.  The bar is set before the text, whose extension
   is what the match is longer than the setting is now; a match whose time is
   over shows none. *)
displayTime(x) ==
  LET left == IF x = NoMatch THEN 0 ELSE time_left(clientMatch'[x])
      length == IF x = NoMatch THEN 0 ELSE duration(clientMatch'[x])
  IN  panel' = [match |-> x, left |-> left,
                bar |-> IF length = 0 THEN 0 ELSE BarAfter(panel.bar, (100 * left) \div length),
                extra |-> IF left = 0 THEN 0 ELSE length - roundLength']

DrawHeader == updateRoundTimer /\ updated' = [updated EXCEPT !.header = clock] /\ UNCHANGED panel
DrawPanel(x) ==
  displayTime(x) /\ updated' = [updated EXCEPT !.panel = clock] /\ UNCHANGED <<header, bar>>
DrawBoth ==
  updateRoundTimer /\ displayTime(panel.match)
    /\ updated' = [header |-> clock, panel |-> clock]

-----------------------------------------------------------------------------
(* A tab for a tournament without matches: the constructor has drawn both. *)
RoundTimerInit ==
  /\ clock = 0 /\ roundLength \in Lengths
  /\ clientMatch = [x \in MatchIds |-> NoMatch]
  /\ header = [left |-> 0, active |-> 0] /\ bar = 0
  /\ panel = [match |-> NoMatch, left |-> 0, bar |-> 0, extra |-> 0]
  /\ updated = [header |-> 0, panel |-> 0]

ClockTick ==
  /\ clock < MaxClock
  /\ clock' = clock + 1
  /\ UNCHANGED <<roundLength, clientMatch, timerViews>>

(* The timeouts of the two timers. *)
HeaderTimeout == UNCHANGED <<clock, roundLength, clientMatch>> /\ DrawHeader
PanelTimeout ==
  /\ panel.match # NoMatch
  /\ UNCHANGED <<clock, roundLength, clientMatch>>
  /\ DrawPanel(panel.match)

(* A row of the round table, or of a player's rounds. *)
ShowMatch(x) ==
  /\ x \in Paired
  /\ UNCHANGED <<clock, roundLength, clientMatch>>
  /\ DrawPanel(x)

(* pairRounds: onRoundAdded, for each of the new matches. *)
MatchesPaired(new) ==
  /\ new # {} /\ new \cap Paired = {}
  /\ clientMatch' = [x \in MatchIds |->
       IF x \in new
       THEN [started |-> clock, length |-> roundLength, extension |-> 0, active |-> TRUE]
       ELSE clientMatch[x]]
  /\ UNCHANGED <<clock, roundLength>>
  /\ DrawHeader

(* A deliberately wrong variant of OnMatch, which breaks OnlyTimeIsMissed: the
   panel tells the tab nothing, and the header waits for its timer. *)
OnMatchPanelOnly(x, outcome) ==
  /\ x \in Paired
  /\ \/ clientMatch' = [clientMatch EXCEPT ![x] = outcome]
     \/ UNCHANGED clientMatch
  /\ UNCHANGED <<clock, roundLength>>
  /\ DrawPanel(panel.match)

(* An operation on match x: onRoundsChanged, whatever the client did. *)
OnMatch(x, outcome) ==
  /\ x \in Paired
  /\ \/ clientMatch' = [clientMatch EXCEPT ![x] = outcome]
     \/ UNCHANGED clientMatch
  /\ UNCHANGED <<clock, roundLength>>
  /\ DrawBoth

(* killRound, and a result or a confirmation that ends the match. *)
MatchEnds(x) == OnMatch(x, [clientMatch[x] EXCEPT !.active = FALSE])

(* timeExtendRound, of the match the panel shows. *)
MatchExtended(e) ==
  /\ panel.match # NoMatch
  /\ LET x == panel.match
     IN  /\ clientMatch[x].extension + e <= MaxExtension
         /\ OnMatch(x, [clientMatch[x] EXCEPT !.extension = @ + e])

(* updateSettings: neither the header nor the panel is told. *)
LengthSet(n) ==
  /\ roundLength' = n
  /\ UNCHANGED <<clock, clientMatch, timerViews>>

(* onPlayersChanged draws the panel only. *)
PanelRerendered == UNCHANGED <<clock, roundLength, clientMatch>> /\ DrawPanel(panel.match)

RoundTimerNext ==
  \/ ClockTick \/ HeaderTimeout \/ PanelTimeout \/ PanelRerendered
  \/ \E x \in MatchIds : ShowMatch(x) \/ MatchEnds(x)
  \/ \E new \in SUBSET MatchIds : MatchesPaired(new)
  \/ \E e \in Extensions : MatchExtended(e)
  \/ \E n \in Lengths : LengthSet(n)

RoundTimerSpec == RoundTimerInit /\ [][RoundTimerNext]_roundTimerVars

-----------------------------------------------------------------------------
(* Neither view promises a player more time than there is, but for the time
   since it was drawn, whatever was paired, ended and extended in between: the
   header not for any match, the panel not for its own. *)
NeverOptimistic ==
  /\ \A x \in Paired : header.left <= time_left(clientMatch[x]) + (clock - updated.header)
  /\ panel.match # NoMatch =>
       panel.left <= time_left(clientMatch[panel.match]) + (clock - updated.panel)

(* A share of the whole, as a progress bar shows it; a share that is out of the
   bar's range is not shown. *)
ShareShown(shown, left, whole) ==
  /\ whole = 0 => shown = 0
  /\ whole # 0 /\ (100 * left) \div whole \in 0..100 => shown = (100 * left) \div whole

HeaderIsLastDraw ==
  /\ header = [left |-> Least({TimeAt(m, updated.header) : m \in AllMatches}),
               active |-> Cardinality({x \in Paired : clientMatch[x].active})]
  /\ ShareShown(bar, header.left, Greatest({duration(m) : m \in AllMatches}))

PanelIsLastDraw ==
  panel.match # NoMatch =>
    LET m == clientMatch[panel.match]
    IN  panel.left = TimeAt(m, updated.panel) /\ ShareShown(panel.bar, panel.left, duration(m))

(* The passing of time is all that the views can miss between two timeouts: the
   header is what the matches there are now had at the moment it was drawn, and
   the panel what its match had, after every order of pairing, ending, extending
   and selecting. *)
OnlyTimeIsMissed == HeaderIsLastDraw /\ PanelIsLastDraw
=============================================================================
