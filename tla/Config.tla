-------------------------------- MODULE Config --------------------------------
(***************************************************************************)
(* The configuration of Squire Desktop: one config_t in memory, which main *)
(* reads and everything else shares by pointer; its file; the settings     *)
(* tabs, which replace it; the list of recently opened tournaments, which  *)
(* MainWindow::onTournamentAdded extends; and the dashboard, whose widgets *)
(* keep the strings of the list that was read, without a copy.             *)
(*                                                                         *)
(* The settings are values here, the user (which nothing in the program    *)
(* sets) and the times and names in the recent list are left out.          *)
(***************************************************************************)
EXTENDS Integers, Sequences

CONSTANTS
  Tournaments,  (* save locations                                           *)
  Settings,     (* default_settings, the save path and report_crashes       *)
  DEFAULT_CONFIG,
  MAXIMUM_RECENT_LIST_SIZE,
  SettingTabs,  (* the settings tabs a user may open                        *)
  Absent, Torn, (* no file; a file that does not parse                      *)
  MaxEntries,   (* bound on the widgets of the dashboard                    *)
  MaxRead       (* bound on the lists of files, which a user may edit       *)

ASSUME ConstantsAssumption ==
  /\ DEFAULT_CONFIG \in Settings
  /\ MAXIMUM_RECENT_LIST_SIZE \in Nat \ {0}
  /\ MaxEntries \in Nat /\ MaxRead \in Nat
  /\ Absent # Torn
  /\ Absent \notin [settings : Settings, recents : Seq(Tournaments)]
  /\ Torn \notin [settings : Settings, recents : Seq(Tournaments)]

Max == MAXIMUM_RECENT_LIST_SIZE

VARIABLES
  running,    (* "no", "yes", or "undefined": after an undefined behaviour  *)
  settings,   (* the config_t, but for its list                             *)
  recents,    (* recent_tournaments: its paths, each with the index of the
                 widget of the dashboard that shows it                      *)
  file,       (* CONFIG_FILE                                                *)
  entries,    (* the widgets of the dashboard, the oldest first             *)
  freed,      (* the strings of recents that were freed, by their entry: a
                 loaded widget shares them, an added one has copies         *)
  tabs,       (* the settings tabs                                          *)
  pc,         (* where onSave or onTournamentAdded is                       *)
  caller,     (* the tab whose onSave it is, or the tournament added        *)
  leaving,    (* canExit called onSave                                      *)
  faults,     (* history: a call failed or the process was killed in one    *)
  lag,        (* history: onReset changed memory only                       *)
  cleared,    (* history: widgets there were when recents was last emptied  *)
  noMemory    (* history: a malloc of add_recent_tourn failed since then    *)

call == <<pc, caller, leaving>>
config == <<settings, recents, freed, noMemory>>
vars == <<running, config, file, entries, tabs, call, faults, lag, cleared>>

Paths(rs) == [i \in DOMAIN rs |-> rs[i].path]
Stored(s, rs) == [settings |-> s, recents |-> Paths(rs)]
Files == [settings : Settings, recents : Seq(Tournaments)]

NoTab == [open |-> FALSE, form |-> DEFAULT_CONFIG, changed |-> FALSE]
NoTabs == [k \in SettingTabs |-> NoTab]
Idle == running = "yes" /\ pc = "idle"
Done == pc' = "idle" /\ leaving' = FALSE /\ UNCHANGED caller

Init ==
  /\ running = "no" /\ pc = "idle" /\ leaving = FALSE
  /\ \E t \in Tournaments : caller = t
  /\ settings = DEFAULT_CONFIG /\ recents = <<>>
  /\ file \in {Absent} \cup
       {[settings |-> s, recents |-> rs] :
          s \in Settings, rs \in UNION {[1..n -> Tournaments] : n \in 0..MaxRead}}
  /\ entries = <<>> /\ freed = {} /\ noMemory = FALSE /\ tabs = NoTabs
  /\ faults = FALSE /\ lag = FALSE /\ cleared = 0

(* free() of the strings of these elements of the list. *)
AfterFree(rs) == freed \cup {rs[i].entry : i \in DOMAIN rs}

(* The list has a string that was freed. *)
ListHasFreed == \E i \in DOMAIN recents : recents[i].entry \in freed

Entry(t, loaded, listed) == [path |-> t, loaded |-> loaded, listed |-> listed]

-----------------------------------------------------------------------------
(* Deliberately wrong variants of definitions below, one per property: each  *)
(* is a bug this code could have had, and breaks the property named.       *)

(* RecentsAreLatest: the newest ones are dropped, not the oldest. *)
KeptOldest == SubSeq(recents, 1, Len(recents) - (IF Len(recents) + 1 > Max THEN 1 ELSE 0))

(* StringsAreOwned: one element too many is freed. *)
DroppedTooMany == SubSeq(recents, 1, IF Len(recents) < Max THEN 0 ELSE 2)

(* FileIsMemory: the list is written before it is extended. *)
WriteAddedEarly ==
  /\ pc = "addWrite"
  /\ file' = Stored(settings, recents)
  /\ recents' = Append(SubSeq(recents, IF Len(recents) < Max THEN 1 ELSE 2, Len(recents)),
                       [path |-> caller, entry |-> Len(entries) + 1])
  /\ entries' = Append(entries, Entry(caller, FALSE, TRUE))
  /\ lag' = FALSE
  /\ Done
  /\ UNCHANGED <<running, settings, freed, noMemory, tabs, faults, cleared>>

-----------------------------------------------------------------------------
(* main.                                                                   *)

(* init_config: the dashboard is made from the list as it was read. *)
StartFromFile ==
  /\ running = "no" /\ file \notin {Absent, Torn}
  /\ running' = "yes"
  /\ settings' = file.settings
  /\ recents' = [i \in DOMAIN file.recents |-> [path |-> file.recents[i], entry |-> i]]
  /\ entries' = [i \in DOMAIN file.recents |-> Entry(file.recents[i], TRUE, TRUE)]
  /\ cleared' = 0 /\ lag' = FALSE /\ faults' = FALSE
  /\ UNCHANGED <<freed, noMemory, file, tabs, call>>

(* No file: a default one is written, if that is possible. *)
StartAfresh ==
  /\ running = "no" /\ file = Absent
  /\ running' = "yes"
  /\ settings' = DEFAULT_CONFIG /\ recents' = <<>> /\ entries' = <<>>
  /\ cleared' = 0 /\ lag' = FALSE
  /\ \/ file' = Stored(DEFAULT_CONFIG, <<>>) /\ faults' = FALSE
     \/ file' \in {Absent, Torn} /\ faults' = TRUE
  /\ UNCHANGED <<freed, noMemory, tabs, call>>

(* Nothing in memory outlives the process. *)
Forget ==
  /\ settings' = DEFAULT_CONFIG /\ recents' = <<>> /\ freed' = {} /\ noMemory' = FALSE
  /\ entries' = <<>> /\ cleared' = 0 /\ tabs' = NoTabs
  /\ pc' = "idle" /\ leaving' = FALSE /\ lag' = FALSE

(* The program reads or frees what it must not: from here anything happens. *)
GoesUndefined ==
  /\ running' = "undefined" /\ faults' = TRUE
  /\ Forget
  /\ UNCHANGED <<file, caller>>

(* init_config fails, as it must when the file does not parse, and main shows the
   window with a config_t that was not initialised; or the list cannot be
   allocated, and nothing sets its length. *)
StartUndefined ==
  /\ running = "no" /\ file # Absent
  /\ GoesUndefined

UndefinedRuns ==
  /\ running = "undefined"
  /\ file' \in {file, Torn} \cup {Stored(s, <<>>) : s \in Settings}
  /\ running' = "no"
  /\ UNCHANGED <<config, entries, tabs, call, faults, lag, cleared>>

(* The window is closed, which asks no tab, or the process is killed. *)
Stop ==
  /\ running = "yes"
  /\ running' = "no" /\ faults' = (faults \/ pc # "idle")
  /\ Forget
  /\ UNCHANGED <<file, caller>>

(* A widget that was made from the file is clicked after its strings, which are
   those of the list, were freed. *)
ClickFreed(j) ==
  /\ Idle /\ entries[j].loaded /\ j \in freed
  /\ GoesUndefined

-----------------------------------------------------------------------------
(* The settings tab.                                                       *)

OpenTab(k) ==
  /\ Idle /\ ~tabs[k].open
  /\ tabs' = [tabs EXCEPT ![k] = [open |-> TRUE, form |-> settings, changed |-> FALSE]]
  /\ UNCHANGED <<running, config, file, entries, call, faults, lag, cleared>>

(* onChange. *)
Edit(k) ==
  /\ Idle /\ tabs[k].open
  /\ \E s \in Settings :
       tabs' = [tabs EXCEPT ![k].form = s, ![k].changed = TRUE]
  /\ UNCHANGED <<running, config, file, entries, call, faults, lag, cleared>>

(* free_config and memcpy: a new config_t without a list. *)
Replace(s) ==
  /\ ~ListHasFreed
  /\ settings' = s /\ recents' = <<>>
  /\ freed' = AfterFree(recents) /\ noMemory' = FALSE
  /\ cleared' = Len(entries)

(* free_config when a part of the list was freed already. *)
ReplaceFreed(k) ==
  /\ Idle /\ tabs[k].open /\ ListHasFreed
  /\ GoesUndefined

(* onReset: the file keeps the old configuration. *)
Reset(k) ==
  /\ Idle /\ tabs[k].open
  /\ Replace(DEFAULT_CONFIG)
  /\ tabs' = [tabs EXCEPT ![k].form = DEFAULT_CONFIG, ![k].changed = TRUE]
  /\ lag' = TRUE
  /\ UNCHANGED <<running, file, entries, call, faults>>

(* onSave: memory first, then fopen(CONFIG_FILE, "w"), then the rest. *)
Save(k, exits) ==
  /\ Idle /\ tabs[k].open
  /\ Replace(tabs[k].form)
  /\ pc' = "saveOpen" /\ caller' = k /\ leaving' = exits
  /\ UNCHANGED <<running, file, entries, tabs, faults, lag>>

(* The button, or canExit when the user wants changes saved. *)
SaveClicked(k) == Save(k, FALSE)
SaveAndClose(k) == tabs[k].changed /\ Save(k, TRUE)

(* onSave returns; after canExit the tab goes, saved or not. *)
SaveReturns(ok) ==
  /\ tabs' = [tabs EXCEPT ![caller] =
                IF leaving THEN NoTab ELSE [@ EXCEPT !.changed = @ /\ ~ok]]
  /\ Done

SaveOpens ==
  /\ pc = "saveOpen"
  /\ file' = Torn
  /\ pc' = "saveWrite"
  /\ UNCHANGED <<running, config, entries, tabs, caller, leaving, faults, lag, cleared>>

SaveCannotOpen ==
  /\ pc = "saveOpen"
  /\ faults' = TRUE
  /\ SaveReturns(FALSE)
  /\ UNCHANGED <<running, config, file, entries, lag, cleared>>

(* write_config. *)
SaveWrites ==
  /\ pc = "saveWrite"
  /\ file' = Stored(settings, recents) /\ lag' = FALSE
  /\ SaveReturns(TRUE)
  /\ UNCHANGED <<running, config, entries, faults, cleared>>

SaveCannotWrite ==
  /\ pc = "saveWrite"
  /\ faults' = TRUE
  /\ SaveReturns(FALSE)
  /\ UNCHANGED <<running, config, file, entries, lag, cleared>>

(* canExit: nothing was changed, or the user answers Cancel. *)
CloseTab(k) ==
  /\ Idle /\ tabs[k].open
  /\ tabs' = [tabs EXCEPT ![k] = NoTab]
  /\ UNCHANGED <<running, config, file, entries, call, faults, lag, cleared>>

-----------------------------------------------------------------------------
(* MainWindow::onTournamentAdded, when a tournament was made.              *)

AddOpens(t) ==
  /\ Idle /\ Len(entries) < MaxEntries
  /\ file' = Torn
  /\ pc' = "addWrite" /\ caller' = t
  /\ UNCHANGED <<running, config, entries, tabs, leaving, faults, lag, cleared>>

(* The dashboard shows it all the same. *)
AddCannotOpen(t) ==
  /\ Idle /\ Len(entries) < MaxEntries
  /\ entries' = Append(entries, Entry(t, FALSE, FALSE))
  /\ faults' = TRUE
  /\ UNCHANGED <<running, config, file, tabs, call, lag, cleared>>

(* add_recent_tourn: the elements before offset are freed and left out. *)
Offset == IF Len(recents) + 1 > Max THEN Len(recents) + 1 - Max ELSE 0
Dropped == SubSeq(recents, 1, Offset)
Kept == SubSeq(recents, Offset + 1, Len(recents))
Extended(t) == Append(Kept, [path |-> t, entry |-> Len(entries) + 1])

AddToList ==
  /\ pc = "addWrite" /\ Offset <= 1 /\ ~ListHasFreed
  /\ recents' = Extended(caller)
  /\ freed' = AfterFree(Dropped)
  /\ entries' = Append(entries, Entry(caller, FALSE, TRUE))
  /\ Done
  /\ UNCHANGED <<running, settings, noMemory, tabs, cleared>>

(* The new list cannot be allocated: the old one stays, with the strings that
   were freed for it, and nothing is written. *)
AddHasNoMemory ==
  /\ pc = "addWrite" /\ ~ListHasFreed
  /\ freed' = AfterFree(Dropped) /\ noMemory' = TRUE
  /\ entries' = Append(entries, Entry(caller, FALSE, FALSE))
  /\ faults' = TRUE
  /\ Done
  /\ UNCHANGED <<running, settings, recents, file, tabs, lag, cleared>>

(* The next call frees them again. *)
AddFreesAgain ==
  /\ pc = "addWrite" /\ ListHasFreed
  /\ GoesUndefined

(* Of a list that is longer than the maximum, memcpy takes offset - 1 elements
   too few, and write_config reads the rest of the new one uninitialised. *)
AddCopiesTooFew ==
  /\ pc = "addWrite" /\ Offset > 1 /\ ~ListHasFreed
  /\ GoesUndefined

WriteAdded ==
  /\ AddToList
  /\ file' = Stored(settings, recents') /\ lag' = FALSE
  /\ UNCHANGED faults

(* Nobody looks at the result. *)
WriteAddedFails ==
  /\ AddToList
  /\ faults' = TRUE
  /\ UNCHANGED <<file, lag>>

-----------------------------------------------------------------------------
Next ==
  \/ StartFromFile \/ StartAfresh \/ StartUndefined \/ UndefinedRuns \/ Stop
  \/ \E j \in DOMAIN entries : ClickFreed(j)
  \/ \E k \in SettingTabs :
       \/ OpenTab(k) \/ Edit(k) \/ Reset(k) \/ ReplaceFreed(k)
       \/ SaveClicked(k) \/ SaveAndClose(k) \/ CloseTab(k)
  \/ SaveOpens \/ SaveCannotOpen \/ SaveWrites \/ SaveCannotWrite
  \/ \E t \in Tournaments : AddOpens(t) \/ AddCannotOpen(t)
  \/ WriteAdded \/ WriteAddedFails
  \/ AddHasNoMemory \/ AddFreesAgain \/ AddCopiesTooFew

Spec == Init /\ [][Next]_vars

-----------------------------------------------------------------------------
Recents == [path : Tournaments, entry : Nat \ {0}]
Entries == [path : Tournaments, loaded : BOOLEAN, listed : BOOLEAN]

TypeOK ==
  /\ running \in {"no", "yes", "undefined"}
  /\ settings \in Settings
  /\ recents \in Seq(Recents)
  /\ file \in {Absent, Torn} \cup Files
  /\ entries \in Seq(Entries) /\ freed \subseteq DOMAIN entries
  /\ tabs \in [SettingTabs -> [open : BOOLEAN, form : Settings, changed : BOOLEAN]]
  /\ pc \in {"idle", "saveOpen", "saveWrite", "addWrite"}
  /\ caller \in SettingTabs \cup Tournaments
  /\ leaving \in BOOLEAN /\ faults \in BOOLEAN /\ lag \in BOOLEAN /\ noMemory \in BOOLEAN
  /\ cleared \in Nat

(* Every recent tournament is on the dashboard, at its own widget, and both
   have the same order: only the dashboard may have more. *)
RecentsAreShown ==
  /\ \A i \in DOMAIN recents :
       recents[i].entry \in DOMAIN entries /\ entries[recents[i].entry].path = recents[i].path
  /\ \A i, j \in DOMAIN recents : i < j => recents[i].entry < recents[j].entry

(* The list has the newest of the tournaments that were listed since it was
   last emptied, as many as it may hold: none is dropped too early, and no
   older one is kept for a newer. *)
LatestAreKept ==
  \A j \in DOMAIN entries :
    entries[j].listed /\ j > cleared
      => \/ \E i \in DOMAIN recents : recents[i].entry = j
         \/ Len(recents) = Max /\ \A i \in DOMAIN recents : j < recents[i].entry

(* The list is not longer than its maximum, but for one that was longer in the
   file and is still as it was read. *)
ListFits ==
  Len(recents) <= Max \/ \A i \in DOMAIN recents : entries[recents[i].entry].loaded

(* Together: the list is the newest part of the dashboard, in its order. *)
RecentsAreLatest == RecentsAreShown /\ LatestAreKept /\ ListFits

(* The list has strings that were freed only after a malloc of add_recent_tourn
   has failed, and then they are those of its oldest elements, as many as had to
   go. *)
StringsAreOwned ==
  ListHasFreed =>
    noMemory /\ \A i \in DOMAIN recents : recents[i].entry \in freed <=> i <= Offset

(* Between two calls the file is what is in memory, unless a call failed since
   the start, or onReset was the last to change it. *)
FileIsMemory ==
  Idle /\ ~faults /\ ~lag => file = Stored(settings, recents)

(* Without a failed or interrupted call the file can be read at every start. *)
FileIsWhole == ~faults /\ pc = "idle" /\ running # "undefined" => file # Torn

(* What the steps in the middle of a call rest on. *)
CallInv ==
  /\ pc # "idle" => running = "yes"
  /\ pc \in {"saveOpen", "saveWrite"} =>
       caller \in SettingTabs /\ tabs[caller].open /\ recents = <<>>
  /\ pc = "addWrite" => caller \in Tournaments
  /\ running # "yes" => recents = <<>> /\ entries = <<>> /\ freed = {} /\ ~noMemory
  /\ running = "undefined" => faults
  /\ cleared <= Len(entries)

(* All of it together is preserved by every step. *)
IInv ==
  /\ TypeOK /\ CallInv
  /\ RecentsAreShown /\ LatestAreKept /\ ListFits /\ StringsAreOwned
  /\ FileIsMemory /\ FileIsWhole
=============================================================================
