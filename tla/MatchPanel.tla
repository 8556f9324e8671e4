----------------------------- MODULE MatchPanel -----------------------------
(***************************************************************************)
(* RoundViewWidget: the results of the selected match, as the Rust client  *)
(* has them and as the panel shows and edits them.  Saving the results is  *)
(* a loop of operations on the tournament, each of which emits a signal    *)
(* that draws the whole panel anew, over the edits, before the next one;   *)
(* and each of which the client may refuse.  Confirming a match or all     *)
(* matches is such a loop too.                                             *)
(*                                                                         *)
(* The save to the file that ends every operation is in SaveFile, the      *)
(* other widgets the signals reach are in TournamentViews.                 *)
(***************************************************************************)
EXTENDS Integers, Sequences, SequencesExt

CONSTANTS
  Players, Rounds, NoRound,
  Members,    (* the players of every round, in the client's order          *)
  SpinMax,    (* the largest value of a spin box of the panel               *)
  Loadable    (* what a tournament file may hold about a match              *)

Unset == -1   (* rid_result_for, for a player without a result              *)
Matches == [wins : [Players -> Int], draws : Nat, confirmed : SUBSET Players]

ASSUME ConstantsAssumption ==
  /\ IsFiniteSet(Rounds) /\ NoRound \notin Rounds
  /\ Members \in [Rounds -> Seq(Players)]
  /\ \A r \in Rounds : IsInjective(Members[r])
  /\ SpinMax \in Nat
  /\ Loadable \subseteq Matches

VARIABLES
  match,      (* of every round: wins, draws, confirmations, in the client  *)
  selected,   (* the round of the panel, or NoRound                         *)
  fields,     (* what the panel shows: wins, ticks, locked ticks, draws     *)
  edited,     (* history: a field was edited since the panel was drawn      *)
  job,        (* the operations a running loop has left                     *)
  request,    (* history: what the running loop was started for             *)
  refused     (* history: the client refused one of its operations          *)

vars == <<match, selected, fields, edited, job, request, refused>>

In(r) == ToSet(Members[r])
Idle == job = <<>>

-----------------------------------------------------------------------------
(* QSpinBox::setValue *)
Shown(n) == IF n < 0 THEN 0 ELSE IF n > SpinMax THEN SpinMax ELSE n

(* RoundResults and RoundResultWidget: every value of a match, read once. *)
Results(m, in) ==
  [wins |-> [p \in in |-> Shown(m.wins[p])], draws |-> Shown(m.draws),
   ticked |-> m.confirmed, locked |-> m.confirmed]

Blank == [wins |-> <<>>, draws |-> 0, ticked |-> {}, locked |-> {}]

Panel(m, r) == IF r = NoRound THEN Blank ELSE Results(m[r], In(r))

NoRequest == [kind |-> "none", round |-> NoRound, fields |-> Blank, before |-> <<>>]

Init ==
  /\ match \in [Rounds -> Loadable]
  /\ \A r \in Rounds : match[r].confirmed \subseteq In(r)
  /\ selected = NoRound /\ fields = Blank /\ edited = FALSE
  /\ job = <<>> /\ request = NoRequest /\ refused = FALSE

(* The operations of one loop, in its order. *)
Wins(r, p, n) == [do |-> "wins", round |-> r, player |-> p, n |-> n]
Confirm(r, p) == [do |-> "confirm", round |-> r, player |-> p]
Draws(r, n) == [do |-> "draws", round |-> r, n |-> n]

(* A deliberately wrong variant of SaveLoop, which breaks ConfirmedAsEntered:
   all confirmations come first. *)
SaveLoopConfirmingFirst(r, f) ==
  [i \in DOMAIN Members[r] |-> Confirm(r, Members[r][i])]
    \o [i \in DOMAIN Members[r] |-> Wins(r, Members[r][i], f.wins[Members[r][i]])]
    \o <<Draws(r, f.draws)>>

SaveLoop(r, f) ==
  FlattenSeq([i \in DOMAIN Members[r] |->
                LET p == Members[r][i]
                IN  <<Wins(r, p, f.wins[p])>>
                      \o IF p \in f.ticked THEN <<Confirm(r, p)>> ELSE <<>>])
    \o <<Draws(r, f.draws)>>

ConfirmLoop(r) == [i \in DOMAIN Members[r] |-> Confirm(r, Members[r][i])]

-----------------------------------------------------------------------------
(* Deliberately wrong variants of definitions below, one per property: each  *)
(* is a bug this code could have had, and breaks the property named.       *)

(* What RunOn, below, applies: all the players of the match at once. *)
AppliedToAll(o) ==
  IF o.do = "wins" THEN {[match EXCEPT ![o.round].wins[o.player] = o.n]}
  ELSE {[match EXCEPT ![o.round].confirmed = In(o.round)]}

(* PanelIsCurrent: a refused operation announces nothing. *)
DrawnUnlessRefused ==
  /\ fields' = IF refused' THEN fields ELSE Panel(match', selected')
  /\ edited' = FALSE

(* SavedAsEntered: the loop reads the widgets again in every round of it. *)
RunFromWidgets ==
  /\ ~Idle
  /\ LET o == Head(job)
         m == IF o.do = "wins" /\ o.player \in DOMAIN fields.wins
              THEN [match EXCEPT ![o.round].wins[o.player] = fields.wins[o.player]]
              ELSE match
     IN  match' = m /\ fields' = Panel(m, selected)
  /\ job' = Tail(job) /\ edited' = FALSE
  /\ request' = IF job' = <<>> THEN NoRequest ELSE request
  /\ UNCHANGED <<selected, refused>>

(* RefusalEndsLoop: the loop goes on after a refusal. *)
RunOn ==
  /\ ~Idle
  /\ \/ match' \in AppliedToAll(Head(job)) /\ UNCHANGED refused
     \/ match' = match /\ refused' = TRUE
  /\ job' = Tail(job)
  /\ request' = IF job' = <<>> THEN NoRequest ELSE request
  /\ fields' = Panel(match', selected) /\ edited' = FALSE
  /\ UNCHANGED selected

-----------------------------------------------------------------------------
(* displayRound, which every signal that reaches the panel calls. *)
Drawn == fields' = Panel(match', selected') /\ edited' = FALSE

(* A row of the round table or of a player's rounds. *)
setRound(r) ==
  /\ Idle
  /\ selected' = r
  /\ UNCHANGED <<match, job, request, refused>>
  /\ Drawn

Reset ==
  /\ Idle
  /\ UNCHANGED <<match, selected, job, request, refused>>
  /\ Drawn

(* The user edits one field; the tick of a confirmed player is disabled. *)
Edit ==
  /\ Idle /\ selected # NoRound
  /\ \/ \E p \in In(selected) : \E n \in 0..SpinMax :
          fields' = [fields EXCEPT !.wins[p] = n]
     \/ \E p \in In(selected) \ fields.locked :
          fields' = [fields EXCEPT !.ticked = IF p \in @ THEN @ \ {p} ELSE @ \cup {p}]
     \/ \E n \in 0..SpinMax : fields' = [fields EXCEPT !.draws = n]
  /\ edited' = TRUE
  /\ UNCHANGED <<match, selected, job, request, refused>>

Start(kind, loop) ==
  /\ job' = loop /\ refused' = FALSE
  /\ request' = [kind |-> kind, round |-> selected, fields |-> fields, before |-> match]
  /\ UNCHANGED <<match, selected, fields, edited>>

(* The values of all widgets are copied before the first operation, which
   deletes the widgets. *)
onResultsSave ==
  /\ Idle /\ selected # NoRound
  /\ Start("save", SaveLoop(selected, fields))

(* confirmMatch takes no notice of the fields. *)
confirmMatch ==
  /\ Idle /\ selected # NoRound
  /\ Start("confirm", ConfirmLoop(selected))

(* TournamentTab::confirmAllMatches: the matches that are long confirmed or
   were killed are in the loop too. *)
confirmAllMatches ==
  /\ Idle
  /\ \E order \in SetToSeqs(Rounds) :
       Start("confirm", FlattenSeq([i \in DOMAIN order |-> ConfirmLoop(order[i])]))

(* What the client makes of an operation it accepts; whether a result that is
   recorded anew leaves the confirmations is its own business. *)
Applied(o) ==
  CASE o.do = "wins" ->
         {[match EXCEPT ![o.round].wins[o.player] = o.n, ![o.round].confirmed = c] :
            c \in {match[o.round].confirmed, {}}}
    [] o.do = "draws" ->
         {[match EXCEPT ![o.round].draws = o.n, ![o.round].confirmed = c] :
            c \in {match[o.round].confirmed, {}}}
    [] o.do = "confirm" ->
         {[match EXCEPT ![o.round].confirmed = @ \cup {o.player}]}

(* One operation of the loop.  Accepted or refused it draws the panel; after a
   refusal the loop ends behind a message box. *)
Run ==
  /\ ~Idle
  /\ \/ match' \in Applied(Head(job)) /\ job' = Tail(job) /\ UNCHANGED refused
     \/ match' = match /\ job' = <<>> /\ refused' = TRUE
  /\ request' = IF job' = <<>> THEN NoRequest ELSE request
  /\ UNCHANGED selected
  /\ Drawn

(* kill and timeExtend change nothing the panel edits, refused or not, but
   draw it; so does a player who is added or drops. *)
kill ==
  /\ Idle /\ selected # NoRound
  /\ UNCHANGED <<match, selected, job, request, refused>>
  /\ Drawn

timeExtend ==
  /\ Idle /\ selected # NoRound
  /\ UNCHANGED <<match, selected, job, request, refused>>
  /\ Drawn

onPlayersChanged ==
  /\ Idle
  /\ UNCHANGED <<match, selected, job, request, refused>>
  /\ Drawn

-----------------------------------------------------------------------------
Next ==
  \/ \E r \in Rounds : setRound(r)
  \/ Reset \/ Edit
  \/ onResultsSave \/ confirmMatch \/ confirmAllMatches
  \/ Run
  \/ kill \/ timeExtend \/ onPlayersChanged

Spec == Init /\ [][Next]_vars

-----------------------------------------------------------------------------
TypeOK ==
  /\ match \in [Rounds -> Matches]
  /\ \A r \in Rounds : match[r].confirmed \subseteq In(r)
  /\ selected \in Rounds \cup {NoRound}
  /\ DOMAIN fields.wins = (IF selected = NoRound THEN {} ELSE In(selected))
  /\ \A p \in DOMAIN fields.wins : fields.wins[p] \in 0..SpinMax
  /\ fields.draws \in 0..SpinMax
  /\ fields.locked \subseteq fields.ticked
  /\ edited \in BOOLEAN /\ refused \in BOOLEAN

(* Unless the user is editing it, the panel shows what the client has, in the
   middle of a loop too and after every refusal. *)
PanelIsCurrent == ~edited => fields = Panel(match, selected)

Saving == request.kind = "save"
At(m) == m[request.round]
Before == At(request.before)

(* Saved results are those the user entered, although every operation of the
   loop draws the panel anew: when it ended unrefused, everything is as the
   fields were at the click. *)
SavedAsEntered ==
  [][Saving /\ ~Idle /\ job' = <<>> /\ ~refused' =>
       /\ \A p \in In(request.round) :
            match'[request.round].wins[p] = request.fields.wins[p]
       /\ match'[request.round].draws = request.fields.draws]_vars

(* At no moment of a save is a player confirmed anew with another result than
   the user entered for the player, or without the tick. *)
ConfirmedAsEntered ==
  Saving /\ ~Idle =>
    \A p \in At(match).confirmed \ Before.confirmed :
      p \in request.fields.ticked /\ At(match).wins[p] = request.fields.wins[p]

(* A save the client refused in the middle: everybody before some player has
   the entered result, everybody from there on the old one, and none of those
   is confirmed anew unless the confirmation itself follows; draws are old.
   Other matches are as they were in every case. *)
RefusalEndsLoop ==
  [][Saving /\ ~Idle /\ refused' =>
       /\ \E k \in 0..Len(Members[request.round]) :
            \A i \in DOMAIN Members[request.round] :
              LET p == Members[request.round][i]
              IN  IF i <= k THEN match'[request.round].wins[p] = request.fields.wins[p]
                  ELSE /\ match'[request.round].wins[p] = Before.wins[p]
                       /\ p \in match'[request.round].confirmed => p \in Before.confirmed
       /\ match'[request.round].draws = Before.draws
       /\ \A r \in Rounds \ {request.round} : match'[r] = request.before[r]]_vars
=============================================================================
