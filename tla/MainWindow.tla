----------------------------- MODULE MainWindow -----------------------------
(***************************************************************************)
(* The main window: its tabs, the tournaments in the Rust client and their *)
(* files.  A tournament is made or loaded into a tab, changed and saved    *)
(* there, and leaves it through MainWindow::closeTab, which the cross of   *)
(* a tab calls with one index and the close signal of a tab calls with     *)
(* every index in turn.  canExit may open a modal dialogue in the middle.  *)
(*                                                                         *)
(* A save is one step here; SaveFile takes it apart, with the backup that  *)
(* nothing in the program reads.  The recently opened list, the menus and  *)
(* the status text of Discord are left out.                                *)
(***************************************************************************)
EXTENDS Integers, Sequences

CONSTANTS
  Tournaments, Paths,
  Dashboard, SettingsTab,   (* the tabs that hold no tournament            *)
  Unreadable,               (* a path with no file, or with a broken one   *)
  NoPath,                   (* location of a tournament not made yet       *)
  MaxVersion,               (* bound on the changes made to a tournament   *)
  MaxTabs                   (* bound on the tabs                           *)

ASSUME ConstantsAssumption ==
  /\ Dashboard \notin Tournaments /\ SettingsTab \notin Tournaments
  /\ Dashboard # SettingsTab
  /\ NoPath \notin Paths
  /\ MaxVersion \in Nat \ {0} /\ MaxTabs \in Nat \ {0}

VARIABLES
  tabs,       (* ui->tabWidget, from left to right                          *)
  client,     (* the tournaments in the Rust client                         *)
  version,    (* how often each was changed: the data, as of now            *)
  saved,      (* the member saved of its Tournament object                  *)
  location,   (* the member saveLocation                                    *)
  disk,       (* the file at every path                                     *)
  sweep,      (* next index of the loop over all tabs, or 0                 *)
  closing,    (* index whose unsaved-changes dialogue is shown, or 0        *)
  asker,      (* history: tab whose close signal began the last loop        *)
  before      (* history: the tabs when it began                            *)

data == <<version, location, disk>>
screen == <<tabs, client>>
loop == <<asker, before>>
vars == <<tabs, client, version, saved, location, disk, sweep, closing, asker,
          before>>

Tabs == Tournaments \cup {Dashboard, SettingsTab}
Copies == [of : Tournaments, version : 0..MaxVersion]
Contents == Copies \cup {Unreadable}
Copy(t, v) == [of |-> t, version |-> v]

Shown(ts) == {ts[i] : i \in DOMAIN ts}
Without(ts, i) == SubSeq(ts, 1, i - 1) \o SubSeq(ts, i + 1, Len(ts))

Init ==
  /\ tabs = <<Dashboard>>
  /\ client = {}
  /\ version = [t \in Tournaments |-> 0]
  /\ saved = [t \in Tournaments |-> FALSE]
  /\ location = [t \in Tournaments |-> NoPath]
  /\ disk = [p \in Paths |-> Unreadable]
  /\ sweep = 0 /\ closing = 0
  /\ asker = Dashboard /\ before = <<Dashboard>>

-----------------------------------------------------------------------------
(* What save_tourn returns and what it leaves of a file.  When it fails the
   file is gone, torn, or as it was, if it could not be renamed either. *)
SaveOutcomes(old, t, v) ==
  {[ok |-> TRUE, content |-> Copy(t, v)]} \cup
  [ok : {FALSE}, content : {Unreadable, old}]

-----------------------------------------------------------------------------
(* Deliberately wrong variants of definitions below, one per property: each  *)
(* is a bug this code could have had, and breaks the property named.       *)

(* SavedIsKept: save() ignores the result of save_tourn. *)
SaveUnchecked(t, v) ==
  \E save \in SaveOutcomes(disk[location[t]], t, v) :
    /\ disk' = [disk EXCEPT ![location[t]] = save.content]
    /\ saved' = [saved EXCEPT ![t] = TRUE]

(* TabsAreBacked: a tournament that is in the client is loaded again. *)
AlreadyOpenIgnored(t) == TRUE

(* DialogueIsCurrent: the dialogue does not block the window. *)
IdleButForDialogue == sweep = 0

(* NoSilentLoss: canExit does not ask isSaved(). *)
CloseUnasked(i) ==
  /\ tabs[i] \in Tournaments
  /\ tabs' = Without(tabs, i)
  /\ client' = client \ {tabs[i]}
  /\ UNCHANGED <<data, saved, closing>>

(* SweepSparesNeighbour: the index stays where a tab was removed. *)
SweepInPlace ==
  /\ closing = 0
  /\ sweep \in 1..Len(tabs)
  /\ \/ tabs[sweep] \in {Dashboard, SettingsTab} /\ UNCHANGED tabs
     \/ tabs[sweep] # Dashboard /\ tabs' = Without(tabs, sweep)
  /\ client' = client \cap Shown(tabs')
  /\ sweep' = IF tabs' = tabs THEN sweep + 1 ELSE sweep
  /\ UNCHANGED <<data, saved, closing, loop>>

(* ImplementsLife: opening one tournament drops those that have no tab. *)
OpenAfresh(t, p, v, save) ==
  /\ tabs' = Append(tabs, t)
  /\ client' = (client \cap Shown(tabs)) \cup {t}
  /\ version' = [version EXCEPT ![t] = v]
  /\ location' = [location EXCEPT ![t] = p]
  /\ disk' = [disk EXCEPT ![p] = save.content]
  /\ saved' = [saved EXCEPT ![t] = save.ok]
  /\ UNCHANGED <<sweep, closing, loop>>

(* SweepEnds: a tab that refuses to close is asked again. *)
SweepRetries ==
  /\ closing = 0
  /\ sweep \in 1..Len(tabs)
  /\ tabs' = IF tabs[sweep] = Dashboard THEN tabs ELSE Without(tabs, sweep)
  /\ client' = client \cap Shown(tabs')
  /\ sweep' = IF tabs' = tabs THEN 1 ELSE sweep + 1
  /\ UNCHANGED <<data, saved, closing, loop>>

-----------------------------------------------------------------------------
(* No dialogue is shown and no loop runs: the user can reach the window. *)
Idle == sweep = 0 /\ closing = 0

(* The constructor of TournamentTab and addTab: t is at version v, and its
   last save left this content at the path. *)
Open(t, p, v, save) ==
  /\ tabs' = Append(tabs, t)
  /\ client' = client \cup {t}
  /\ version' = [version EXCEPT ![t] = v]
  /\ location' = [location EXCEPT ![t] = p]
  /\ disk' = [disk EXCEPT ![p] = save.content]
  /\ saved' = [saved EXCEPT ![t] = save.ok]
  /\ UNCHANGED <<sweep, closing, loop>>

(* The process ends, and the next one shows the dashboard only. *)
Restart ==
  /\ tabs' = <<Dashboard>>
  /\ client' = {}
  /\ UNCHANGED <<sweep, closing, loop>>

(* The window is closed: no tab is asked. *)
Exit ==
  /\ Idle
  /\ Restart
  /\ UNCHANGED <<data, saved>>

(* CreateTournamentDialogue::onOkay.  Nothing looks at what is at the path.
   new_tournament_from_settings saves twice; if one of them fails it gives
   nullptr, on which onOkay calls save() before it tests it.  Otherwise adding
   the system user changes the tournament, unless the client refuses, and the
   dialogue and, if that fails, the new tab save it. *)
Create(t, p) ==
  /\ Idle /\ Len(tabs) < MaxTabs
  /\ location[t] = NoPath
  /\ \/ /\ \E content \in {Unreadable, disk[p], Copy(t, 0)} :
             disk' = [disk EXCEPT ![p] = content]
        /\ location' = [location EXCEPT ![t] = p]
        /\ Restart
        /\ UNCHANGED <<version, saved>>
     \/ \E v \in 0..1 : \E save \in SaveOutcomes(Copy(t, 0), t, v) : Open(t, p, v, save)

(* load_tournament_from_file asks the client for the tournament it parsed. *)
NotOpenYet(t) == t \notin client

(* loadTournament and loadTournamentFromName: refused, with no change, when the
   file does not parse or its tournament is in the client.  The new tab finds
   the tournament unsaved and saves it. *)
Load(p) ==
  /\ Idle /\ Len(tabs) < MaxTabs
  /\ disk[p] # Unreadable
  /\ LET t == disk[p].of
         v == disk[p].version
     IN  /\ NotOpenYet(t)
         /\ \E save \in SaveOutcomes(disk[p], t, v) : Open(t, p, v, save)

(* Tournament::save, with the tournament at version v. *)
Save(t, v) ==
  \E save \in SaveOutcomes(disk[location[t]], t, v) :
    /\ disk' = [disk EXCEPT ![location[t]] = save.content]
    /\ saved' = [saved EXCEPT ![t] = save.ok]

(* Any operation on the tournament of a tab: it changes the tournament, or the
   client refuses it, and save() follows. *)
Operate(t) ==
  /\ Idle /\ t \in Shown(tabs)
  /\ \E v \in {version[t], version[t] + 1} :
       /\ v <= MaxVersion
       /\ version' = [version EXCEPT ![t] = v]
       /\ Save(t, v)
  /\ UNCHANGED <<screen, location, sweep, closing, loop>>

OpenSettings ==
  /\ Idle /\ Len(tabs) < MaxTabs
  /\ tabs' = Append(tabs, SettingsTab)
  /\ UNCHANGED <<client, data, saved, sweep, closing, loop>>

(* The tab bar is movable: the user drags a tab next to its neighbour. *)
DragTab(i) ==
  /\ Idle
  /\ i + 1 <= Len(tabs)
  /\ tabs' = [tabs EXCEPT ![i] = tabs[i + 1], ![i + 1] = tabs[i]]
  /\ UNCHANGED <<client, data, saved, sweep, closing, loop>>

-----------------------------------------------------------------------------
(* MainWindow::closeTab(i), by what canExit of the tab at i does.          *)

(* The dashboard refuses; the settings tab may. *)
Refuse(i) ==
  /\ tabs[i] \in {Dashboard, SettingsTab}
  /\ UNCHANGED <<screen, data, saved, closing>>

CloseSettings(i) ==
  /\ tabs[i] = SettingsTab
  /\ tabs' = Without(tabs, i)
  /\ UNCHANGED <<client, data, saved, closing>>

(* A saved tournament is closed: it leaves the client with its tab. *)
CloseSaved(i) ==
  /\ tabs[i] \in Tournaments /\ saved[tabs[i]]
  /\ tabs' = Without(tabs, i)
  /\ client' = client \ {tabs[i]}
  /\ UNCHANGED <<data, saved, closing>>

(* An unsaved one has its user asked. *)
Ask(i) ==
  /\ tabs[i] \in Tournaments /\ ~saved[tabs[i]]
  /\ closing' = i
  /\ UNCHANGED <<screen, data, saved>>

CloseTab(i) == Refuse(i) \/ CloseSettings(i) \/ CloseSaved(i) \/ Ask(i)

(* The cross of the tab at i. *)
CloseRequested(i) ==
  /\ Idle /\ i <= Len(tabs)
  /\ CloseTab(i)
  /\ UNCHANGED <<sweep, loop>>

(* "Close Tournament" in the menu of the tab at i emits its close signal; the
   lambda in addTab begins its loop. *)
CloseSignal(i) ==
  /\ Idle /\ i <= Len(tabs)
  /\ tabs[i] \in Tournaments
  /\ sweep' = 1
  /\ asker' = tabs[i] /\ before' = tabs
  /\ UNCHANGED <<screen, data, saved, closing>>

(* One round of the loop: the count is read anew, the index goes up whether a
   tab was removed or not.  The next round waits for the dialogue. *)
SweepTab ==
  /\ closing = 0
  /\ sweep \in 1..Len(tabs)
  /\ CloseTab(sweep)
  /\ sweep' = sweep + 1
  /\ UNCHANGED loop

SweepDone ==
  /\ closing = 0
  /\ sweep > Len(tabs)
  /\ sweep' = 0
  /\ asker' = Dashboard /\ before' = <<Dashboard>>
  /\ UNCHANGED <<screen, data, saved, closing>>

-----------------------------------------------------------------------------
(* TournamentUnsavedErrorDialogue, shown for the tab at closing: accepted, it
   removes the tab and leaves the tournament in the client. *)
Dismiss ==
  /\ tabs' = Without(tabs, closing)
  /\ closing' = 0
  /\ UNCHANGED <<client, version, location, sweep, loop>>

AnswerDiscard ==
  /\ closing # 0
  /\ Dismiss
  /\ UNCHANGED <<saved, disk>>

AnswerCancel ==
  /\ closing # 0
  /\ closing' = 0
  /\ UNCHANGED <<screen, data, saved, sweep, loop>>

(* onSave: after a failed save the dialogue stays. *)
AnswerSave ==
  /\ closing # 0
  /\ LET t == tabs[closing] IN Save(t, version[t]) /\ saved'[t]
  /\ Dismiss

AnswerSaveFails ==
  /\ closing # 0
  /\ LET t == tabs[closing] IN Save(t, version[t]) /\ ~saved'[t]
  /\ UNCHANGED <<screen, version, location, sweep, closing, loop>>

-----------------------------------------------------------------------------
Sweep == SweepTab \/ SweepDone

Next ==
  \/ \E t \in Tournaments : Operate(t) \/ \E p \in Paths : Create(t, p)
  \/ \E p \in Paths : Load(p)
  \/ \E i \in 1..MaxTabs : DragTab(i) \/ CloseRequested(i) \/ CloseSignal(i)
  \/ OpenSettings \/ Sweep
  \/ AnswerDiscard \/ AnswerCancel \/ AnswerSave \/ AnswerSaveFails
  \/ Exit

Spec == Init /\ [][Next]_vars

(* The loop over the tabs runs inside one signal handler. *)
FairSpec == Spec /\ WF_vars(Sweep)

-----------------------------------------------------------------------------
TypeOK ==
  /\ tabs \in Seq(Tabs) /\ Len(tabs) <= MaxTabs
  /\ client \subseteq Tournaments
  /\ version \in [Tournaments -> 0..MaxVersion]
  /\ saved \in [Tournaments -> BOOLEAN]
  /\ location \in [Tournaments -> Paths \cup {NoPath}]
  /\ disk \in [Paths -> Contents]
  /\ sweep \in 0..MaxTabs + 1
  /\ closing \in 0..MaxTabs
  /\ asker \in Tabs /\ before \in Seq(Tabs)

(* Every tournament on the screen is in the client, where its widgets ask for
   its data, and has one tab: closing a tab never pulls the data from under
   another.  The dashboard, whose buttons MainWindow keeps, is never gone. *)
TabsAreBacked ==
  /\ \A i \in DOMAIN tabs : tabs[i] \in Tournaments => tabs[i] \in client
  /\ \A i, j \in DOMAIN tabs :
       i # j /\ tabs[i] = tabs[j] => tabs[i] = SettingsTab
  /\ Dashboard \in Shown(tabs)

(* closeTab keeps its index and its widget across the dialogue: when the
   answer comes the tab is still there, and still holds unsaved changes. *)
DialogueIsCurrent ==
  closing # 0 => /\ closing \in DOMAIN tabs
                 /\ tabs[closing] \in Tournaments
                 /\ ~saved[tabs[closing]]

(* A tournament whose saved flag is set, shown or closed, is on the disk as it
   was last seen, unless another tournament was made at its path. *)
SavedIsKept ==
  \A t \in Tournaments :
    saved[t] => \/ disk[location[t]] = Copy(t, version[t])
                \/ \E u \in Tournaments \ {t} : location[u] = location[t]

(* A tournament leaves the screen without being on the disk only through the
   dialogue, or when the program ends. *)
NoSilentLoss ==
  [][\A t \in Tournaments :
       /\ t \in Shown(tabs) /\ ~saved[t]
       /\ t \notin Shown(tabs')
       => (closing # 0 /\ tabs[closing] = t) \/ client' = {}]_vars

(* The loop of addTab steps over the tab that slides into the place of a
   removed one: of two neighbours at most one goes. *)
SweepSparesNeighbour ==
  sweep # 0 =>
    \A i \in 1..(Len(before) - 1) : {before[i], before[i + 1]} \cap Shown(tabs) # {}

Stage(t) ==
  IF t \in client THEN IF t \in Shown(tabs) THEN "open" ELSE "dismissed"
  ELSE IF location[t] = NoPath THEN "new" ELSE "closed"

Life == INSTANCE TournamentLife WITH stage <- [t \in Tournaments |-> Stage(t)]

(* Tabs, dialogue, loop and client together give every tournament the life
   cycle of TournamentLife: what was dismissed with unsaved changes stays in
   the client and cannot be loaded again until the program ends. *)
ImplementsLife == Life!Spec

(* The loop over the tabs ends, or stops at a dialogue. *)
SweepEnds == sweep # 0 ~> sweep = 0 \/ closing # 0

-----------------------------------------------------------------------------
(* The inductive invariant.                                                *)

(* A tournament in the client was made in some run, and so was a saved one; a
   file that holds a tournament is where that tournament was made. *)
Located ==
  /\ client \subseteq {t \in Tournaments : location[t] # NoPath}
  /\ \A t \in Tournaments : saved[t] => location[t] # NoPath
  /\ \A p \in Paths : disk[p] # Unreadable => location[disk[p].of] = p

(* The first index the loop has not decided on, and the tabs it removed. *)
Frontier == IF closing # 0 THEN closing ELSE sweep
Removed == Len(before) - Len(tabs)

(* In the middle of a loop the tabs from just before the frontier are those of
   the beginning, moved by as many as were removed; of two neighbours behind it
   one is there, and stays. *)
SweepInv ==
  /\ closing # 0 /\ sweep # 0 => sweep = closing + 1
  /\ sweep # 0 =>
       /\ Removed \in 0..(Frontier - 1)
       /\ \A j \in DOMAIN tabs : j >= Frontier - 1 => tabs[j] = before[j + Removed]
       /\ \A i \in 1..(Len(before) - 1) : i + 1 < Frontier + Removed =>
            \E j \in DOMAIN tabs :
              j < Frontier /\ tabs[j] \in {before[i], before[i + 1]}

IInv ==
  /\ TypeOK
  /\ TabsAreBacked /\ DialogueIsCurrent /\ SavedIsKept
  /\ Located /\ SweepInv

(* close is "emitted when the tab wants to close itself"
   (abstracttabwidget.h): nothing else is closed by it. *)
CloseOnlySelf ==
  [][sweep # 0 => Shown(tabs) \ Shown(tabs') \subseteq {asker}]_vars
=============================================================================
