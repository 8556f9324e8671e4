# SquireDesktop in TLA+

Squire Desktop runs tournaments: a Qt window with one tab per tournament, over
a Rust client (`squire_ffi`, on the external crate `squire_sdk`) that holds the
tournaments' data, files in which each tournament is saved, a configuration
file, two worker threads, and a crash handler in C that starts the program and
reports how it ended. These modules model that program from its source, TLC
checks them on small instances, and TLAPS proves what matters most for every
value of their constants. Paths below are relative to the root of the
repository; `PROJECT.json` maps each definition to the lines it models.

## The system

| component | state | operations | how it interacts |
|---|---|---|---|
| Tournament object (`src/model/abstract_tournament.cpp`) | `saved`, `saveLocation`, the tournament's id | load, new, about fifteen operations, `save`, `close` | each operation calls the Rust client, emits signals (direct calls of slots) and saves |
| Rust FFI (`squire_ffi/src`) | the tournaments of this run, in the client | apply one operation or a bulk, query, save to and load from a file | blocking calls from the GUI thread; ignores errors of `remove_file` and `rename` |
| Main window (`src/ui/mainwindow.cpp`) | tabs, their order, recents menu | create, load, close, move tabs | closes by index, asks the tab, which may open a modal dialogue |
| Tournament tab and widgets (`src/ui/tournamenttab.cpp`, `src/ui/tournament/`) | tables, labels, the selected player and match, edits | one button per operation | slots of the Tournament's signals |
| Dialogues (`createtournamentdialogue`, `tournamentchangesettingsdialogue`, `tournamentunsavederrordialogue`) | their fields | apply, accept, reject | modal; call the Tournament |
| Configuration (`src/config.cpp`, settings tab, dashboard) | one `config_t`, its file, the recent tournaments | read, save, reset, add a recent tournament | shared by pointer; the dashboard keeps its strings |
| Worker threads (`mainwindow.cpp`) | the Discord text and its mutex, the download flag | set and show the text, load the cards, join | a mutex each, and a timer |
| Crash handler (`crash_handler/`) | ring buffer of the output, wait status, opt-in | copy the output, report | a pipe, `waitpid`, the configuration file, a webhook |
| Tables (`filerable_list.hpp`, `searchsorttablewidget.h`) | rows, filter, order | set, add, filter, sort | used by the tab's widgets |
| Times in a tournament tab (`tournamenttab.cpp`, `roundviewwidget.cpp`) | header, its bar, the panel's time | two timers of 100 ms, redraws | ask the client about every match |
| Card search (`searchmodel.cpp`, `search.cpp`) | a result, its order | query, sort, read a cell | a Qt view calls it; no window makes one yet |
| Data folder (`path_change.c`) | the working directory | change to it at the start | decides which configuration file handler and program share |
| Timers, coins and dice (`timers.cpp`, `coins.cpp`, `ui/menubar/rng/`) | pauses; results | pause, resume, free; flip, roll | unit tests; two dialogues of the main menu |

What is hard here: a save is several system calls any of which may fail or be
the last one before a crash; `canExit` opens a nested event loop in the middle
of closing a tab, which in turn may happen in a loop over all tabs; every
operation emits its signals in an order of its own, with the saved flag stale
in between, and the slots redraw the widgets the running loop took its values
from; a bulk of operations may be refused in the middle; strings are shared
between the configuration and the widgets without a copy; three threads; and
the crash handler has to be right at the one moment it is needed. `PROJECT.json`
lists these hazards at their lines, each with the properties that cover it or a
note why none does.

What makes each component correct:

- *files*: a set `saved` flag is the truth, and no single failure or crash
  costs the last good copy;
- *window*: a tournament is open in one place, its tab always has its data, and
  it leaves with unsaved changes only through the dialogue;
- *settings*: an Apply is all or nothing, valid limits are never refused for
  the sake of the old ones, what nobody edited stays;
- *views*: when an operation has returned, what the window shows is what the
  client has, or is known to be behind;
- *match panel*: what was entered is what is recorded and confirmed, although
  the panel is drawn anew in between, and a refusal leaves a clean prefix;
- *configuration*: list, dashboard and file stay in step, and the list has no
  freed string but after a failed allocation;
- *threads*: a text has one owner, is freed once and never lost, the latest is
  shown in the end, and the progress bar goes;
- *crash handler*: the buffer is the end of the output, and a report is sent
  only when it was asked for and is due;
- *tables*: a click finds the row it is on, the box and the search hide what
  they should and nothing else;
- *times*: no view promises time there is not, and none misses a change but the
  passing of time;
- *card search*: every cell is a card of the result, or blank, and stands where
  the header says;
- *data folder*: handler and program use one file, and a run finds what the last
  one in its folder left;
- *tools*: what is shown is what was drawn, and a timer's time moves as its
  pauses have it.

## Modules

`SaveFile` - `Tournament::save` and `save_tourn` for one tournament. `memory` is
the version in the client, `object`/`saved` the Tournament object, `file` and
`backup` the two files. Actions after `BeginSave` are one system call each, in
the code's order: remove the backup, rename the file onto it, serialise, open
(which truncates), write, report to the caller. The callers are modelled too:
creating (two saves and then the object's), every operation (`Change` and, for
those that save even when refused, `Resave`), loading, closing, discarding,
and the user who copies the backup back, which the program itself never reads.
Every call may fail (`Fault`), and `Crash` is possible at each step.
`DurableCopy` is its abstract specification: the newest readable copy is
replaced by complete writes only, and is lost only after a fault.

`MainWindow` - tabs, client, files and `closeTab`. A save is one step that
succeeds or leaves the file gone, torn or as it was. `CloseRequested` is the
cross of a tab; `CloseSignal`, `SweepTab` and `SweepDone` are the loop that
`addTab` connects to the close signal; `closing` is the tab whose dialogue is
shown, which stops everything but its answers. `Exit` is the closing of the
window, which asks nobody. `TournamentLife` is the abstract specification: new,
open, closed or dismissed.

`TournamentSettings` - the two dialogues with fields and the operations under
them. `BeginApply`, `FirstLimit`, `SecondLimit`, `OtherSettings` and `SetStatus`
are `onApply` and `tid_update_settings`; `Refuse` is the client's roll back.
Of the settings the module keeps those that some code converts (the round length
in minutes, and every number that a spin box shows in its own range: `AsInt`,
`Shown`), orders (the limits) or derives (deck registration).

`TournamentViews` - every operation of the class Tournament as a list of what it
still has to do (`agenda`): emit, mark unsaved, write. Each slot is an action on
the tables, the label, the player view and the standings. `untold` is the list
of views for which the operation has no signal.

`MatchPanel` - `RoundViewWidget`: `fields` is what it shows, `job` what the
running loop has left; `Run` is one operation of it, accepted or refused, and
draws the panel anew.

`Config` - one `config_t`, its file, two settings tabs, the list and the
dashboard. `entries` are the widgets, and `freed` the strings of the list that
were freed, which the widgets made from the file share; a save has
a step for opening (which truncates) and one for writing. `add_recent_tourn` frees
the oldest strings before it allocates the new list: when that fails
(`AddHasNoMemory`) the old list stays with them. A file may have a list of any
length, as a user may edit it. The state "undefined" is what follows where the
program uses what it must not: a file that does not parse (`init_config` clears
`sizeof(config)`, the size of a pointer, and `main` goes on with what is left), the
next call on a list with freed strings (`AddFreesAgain`, `ReplaceFreed`), a click on
a widget whose strings were freed (`ClickFreed`), a list more than one too long, of
which too little is copied (`AddCopiesTooFew`). Only that the program leaves some
file and ends is modelled from there.

`Workers` - the three threads, each access to shared data a step. A text is the
number of its allocation.

`TableList` - one table of players, rounds or scores: the rows it was given, the
box, the search, the sorted list and what is drawn. The comparators are those
of the code, one for each kind of column. `stable_sort` takes what they return for a bool, as
`std::stable_sort` does: where that is a strict weak order it sorts, where each
row claims to come before each other one the rows are reversed, as every merge
does then, and otherwise any order may come out. A search of more than one word
matches every row, as the loop in `Player::matches` has it: it finds the same
blank again and looks for the empty text before it.

`RoundTimer` - the header of a tournament tab over all its matches and the time
in the match panel, drawn by two timers and by the signals that redraw them,
while the clock goes and matches are paired, ended, extended. `updated` keeps
when each was drawn.

`CrashHandler` - ring buffer, escape sequences, the wait status with its
encoding, the opt-in as the file has it at that moment, the message as a C
string that a byte 0 ends.

`DataFolder` - `change_path` with each of its failures, and the runs of handler
and program one after the other, on the file in the folder it leads to. `before`
keeps what the last run in each folder ended with.

`CardSearch` - `SearchModel`: a result as the engine sorts it, the view's number
of rows, and which card `data` reads for a row.

`Timers` - `sq_timer_t` with its growing array; a failed `realloc` is kept as
NULL, with the number of pauses as it was, and the next call reads through it.

`RandomTools` - coins word by word with the shift the processor does, Krark
coins, dice, and what the result dialogues show, in ints of up to `MaxInt`.

`MC...` modules give values to the constants. Two of them also hold several
modules that share no variable and move one of them in each behaviour, so that
one run checks them side by side: `MCTabParts` the match panel, a table and the
times, `MCTools` the crash handler, the data folder, a timer, the random numbers
and the card search. `...Proofs` modules hold the
theorems. Each module also has, under a heading of their own, the wrong variants
of its definitions that `PROJECT.json` lists as mutants: a bug the code could
have had, one for each property, found by TLC through that property.

The modules compose by refinement of grain, not by sharing variables:
`MainWindow` takes from `SaveFile` what a save may leave behind
(`SaveOutcomes`), `TournamentViews` and `MatchPanel` have an operation's write
as one step, and `SaveFile` takes it apart.

## Runs

| run | states | what it shows |
|---|---|---|
| save_file | 4,711 | four changes, three faults, crashes anywhere: `SavedIsOnDisk`, a copy at every step (`CopyAtEveryStep`) and after one fault (`CopyAfterOneFault`); `ImplementsDurableCopy` |
| main_window | 324,398 | two tournaments, two paths, four tabs: `TabsAreBacked`, `DialogueIsCurrent`, `SavedIsKept`, `SweepSparesNeighbour`, `NoSilentLoss`, `ImplementsLife`, `SweepEnds` |
| tournament_settings | 186,860 | limits to 3, spin boxes to 2, lengths to 3 minutes, ints of 9 bits, loaded sizes, tables and lengths on both sides of each: `ValidLimitsPass`, `ApplyIsAtomic`, `UntouchedIsUnchanged` |
| tournament_views | 645,420 | two players, two rounds, all operations: `TablesAreCurrent`, `SavedIsTrue`, `StaleOnlyIfUntold` |
| config | 1,318,334 | two tournaments, two settings, two tabs, a list of two, or three from the file, four widgets: `RecentsAreLatest`, `StringsAreOwned`, `FileIsMemory` |
| workers | 740 | three texts: `TextsAreOwned`, `LatestIsShown`, `BarGoes` |
| tab_parts | 527,509 | a match of two players and a bye, any refusal: `PanelIsCurrent`, `SavedAsEntered`, `ConfirmedAsEntered`, `RefusalEndsLoop`; three rows, every column, two words: `RowIsItem`, `FilterIsExact`, `NumbersFall`; two matches, two lengths, an extension: `NeverOptimistic`, `OnlyTimeIsMissed` |
| handler_and_tools | 248,372 | a buffer of three bytes and seven printed: `BufferIsTail`, `MessageHasTail`, `ReportIsDue`; any runs in any folder: `SettingsFollow`; seven coins in words of three, four dice: `ResultsAreTrue`; three cards and queries for all, one and none: `RowsAreResult`, `CellsAreSorted`; two pauses: `TimeLeftMoves` |
| close_signal | violation | `CloseOnlySelf`: closing one tournament closes others |
| table_order | violation | `SortedAsTested`: sorting by a text reverses the rows |
| exec_until_killed | violation | `ExecUntilKilled`: the second timeout after the download ends the program |
| coin_count | violation | `HeadsWithinCoins`: a number of coins that fills whole words gets the heads of one word too many |

The last four check what a comment or a test of the repository says and find
that the code does something else; `PROJECT.json` quotes each under "findings".

More disagreements met on the way have no run, because one look at the lines
shows them: `tid_require_deck_reg` (`squire_ffi/src/tournament.rs:592`) answers with
the check-in setting, which `test_update_settings` cannot see because it sets both
alike; and the crash handler compares the raw wait status with `NO_START_VAL`
(`crash_handler.c:124`), so that a program that could not be started is reported
as a crash. `ReportIsDue` has the encoding as the code has it. A resumed pause
counts for nothing in `time_left`, which adds its end less its end and takes the
start off with the wrong sign (`timers.cpp:74` and `:80`; `TimeLeftMoves` says
what comes of it). The column headed "Power" of a card search sorts by toughness
and "Colours" by power (`searchmodel.cpp:34` against `:106`; `CellsAreSorted`
is about the columns as they sort). A tournament whose first match ran out of
time shows "No Time" for the matches of all later rounds, since the minimum is
over the matches that ended too (`tournamenttab.cpp:319`).
The handler's own folder is used only by the run that makes it: `mkdir` fails for
every later one, which `change_path` then leaves in `$HOME/.config`
(`path_change.c:59`), although line 65 says "Change the current working directory to
the app-specific folder". The settings of the first run stay behind there, and the
second starts with the defaults; `SettingsFollow` promises them to a run in the same
folder only. Of a recent list that a user (`README.md:135` of the repository) has made
longer than the maximum, `add_recent_tourn` copies `offset - 1` elements too few
(`config.cpp:285`) and `write_config` reads what nobody set: `AddCopiesTooFew`.

### Bounds, and why they are enough

- `MaxVersion` (4 in SaveFile) and `MaxFaults` (3): three faults are one more
  than it takes to lose the last copy, and four versions let each of the
  three be followed by a good save. In MainWindow one change per tournament is
  enough to have it differ from its file.
- `MaxTabs` 4: the dashboard, both tournaments and a settings tab; the loop over
  the tabs meets all kinds of neighbours, in every order.
- Deck limits from 0 to 3 with spin boxes that reach 2: the old and the new
  limits can lie on any side of each other, and some cannot be shown.
- A match of two players and a bye: confirming all joins two loops, in either
  order, and a refusal can fall before, between and after the players of one;
  `SpinMax` 1 with loaded results of -1 and 2 has both ends clamped.
- Three rows in TableList are the least that tell a reversed list from a sorted
  one, and a row may be in the list twice, as `addDatum` can have it until the next `setData`.
- `Size` 3 and `MaxPrinted` 7: the buffer goes round more than twice.
- Words of three bits with up to seven coins: less than a word, whole words and
  a rest behind two of them. `MaxInt` 255 overflows with the third die of a side,
  as 32 bits do for a count the spin box allows.
- `MaxClock` 4 over lengths of 2 and 3 s and extensions up to 2 s: matches run
  out, one before the other, and come back. `MaxTime` 2 with two pauses: each may
  be running, over, of no length, or end before it began.
- Runs of the program follow each other without a bound; two settings tell the
  latest from the one before.
- A list of at most two (its bound in the code is
  `MAXIMUM_RECENT_LIST_SIZE`) and four widgets: the list overflows twice in a run,
  from a file that was full already too. `MaxRead` 3 is one more than the list may
  hold, the least that is copied wrongly. `SettingTabs` is a symmetry set: the tabs are alike
  and no property is temporal.
- `MaxTexts` 3: a text can be taken while the next is set and another follows.

Deadlock is checked but in handler_and_tools, where the handler returns, and in
workers and exec_until_killed, where the program ends.

### Fairness

- `MainWindow`: weak fairness of the loop over the tabs. It runs inside one
  signal handler, so that it goes on until it ends or stops at a dialogue, whose
  user owes no answer.
- `Workers`: the GUI thread finishes the function it is in (weak), the timer
  fires (weak), `dc_thread` gets the mutex if it is free again and again
  (strong: the GUI thread holds it for a few instructions only), and Discord
  answers (weak), which is an assumption about another program without which
  nothing is promised about the text. Nothing is assumed of the download:
  it may take forever.
- Everything else that takes several steps is a straight line of synchronous
  calls; no liveness is claimed of it.

## Proofs

Each proof module has `Init => IInv`, a lemma per group of actions, `IInv /\
[Next]_vars => IInv'` and then the theorems. `IInv` is in the module it is about, so
that TLC can check it too (add it to the cfg), or, where it is a matter of the proof
alone, in the proof module; it implies `TypeOK`. Each safety invariant and each action
property of a passing run is a theorem, and so are both refinements.

- `MainWindowProofs`. None of the properties is inductive alone: that a dialogue's
  index still fits needs that tabs are never twice, that saved is true of the file
  needs to know where each tournament was made (`Located`), and the loop needs to
  know which of the tabs of its beginning it still has (`SweepInv`): from just before
  the first index it has not decided on (`Frontier`) the tabs are the old ones, moved
  by as many as were removed, and of two neighbours behind it one is there and stays.
  Together (`IInv`) they give `TabsAreBacked`, `DialogueIsCurrent`, `SavedIsKept` and
  `SweepSparesNeighbour`, and with a look at each step `NoSilentLoss` and
  `ImplementsLife`: an action of the window is a step of TournamentLife
  or a stutter. For any tournaments, paths and number of tabs.

- `SaveFileProofs`. `CopyAtEveryStep` says where a copy *may* be; inductive is
  where it *is* at each step (`CopyMoves`), that what is written is what is in
  memory (`WritesMemory`), that copies are never newer than memory, nor the
  backup than the file (`CopiesAreOlder`), and for `CopyAfterOneFault` what a single fault
  leaves (`CopyAfterFault`). `Refinement` maps each action to a step of
  DurableCopy or a stutter. For any number of versions and faults.
- `TournamentSettingsProofs`. `BulkProgress` says where the bulk stands between
  its two limits. From it follow `LimitsAlwaysHold`, `ValidLimitsPass` and
  `ApplyIsAtomic`; with what the fields show while nobody edits them
  (`FieldsShow`) also `UntouchedIsUnchanged`: `HeldReturns` follows each number
  through the int, the box and back. For all settings, ranges of the boxes, widths of
  an int and loadable files.
- `TournamentViewsProofs`. An operation is a list of what it has left to do. Each
  list has "unsaved" right before its write (`SaysThenWrites`, shown for the
  agenda of each operation, pairing with any number of rounds included); half done, a write
  that comes next finds the flag unset (`WriteFollows`), and a flag that is wrong has
  its "unsaved" still to come (`WillSay`). With nothing left that is `SavedIsTrue`.
  `TablesInv` is the same idea for `TablesAreCurrent`: each table and the label is
  right or the signal that sets it again is still to come, and the rounds the table
  lacks are exactly those still to be announced, each once, which `InOrder` keeps from
  being added twice. `BehindInv` says of the standings, a player's rounds and the button that they
  are right, are in `untold`, or have a signal still to come: `StaleOnlyIfUntold`. `TypesInv`
  has that the player who is shown, whom `dropPlayer` drops, is one of the tournament:
  the rows and the standings, from which one is chosen, have nobody else. That there
  are finitely many rounds is assumed.
- `TabPartsProofs`. *MatchPanel*: `SaveInv` says how far a save has come: everybody up
  to the k-th player has the entered result, everybody behind the old one, and what is
  left of `job` is the rest of the loop, although each operation has drawn the panel
  over the edits. At the end that is `SavedAsEntered`, at a refusal `RefusalEndsLoop`, in
  between `ConfirmedAsEntered`; `PanelIsCurrent` needs no more than the types.
  For any matches of any players, of which finitely many are assumed for `confirmAllMatches`.
  *TableList*: the list has the rows of the box, what is found those of the list that
  pass, and what is drawn is what is found, turned or not (`TableInv`), each row as often
  as it was given: so `FilterIsExact` and `RowIsItem`, whatever `stable_sort` makes of a
  comparator that is no order. `NumbersFall` has `NumbersInv` beside it and one hypothesis,
  that no two matches have the same number, as the client numbers them.
  *RoundTimer*: `NeverOptimistic` and `OnlyTimeIsMissed` are inductive with the types:
  a step draws the view that it changes something for, or changes nothing the view
  was drawn from (`HeaderIsDraw`, `HeaderIsKept`, and the same of the panel).
- `ToolsProofs`. *CrashHandler*: `CellsInv` says in which cell the k-th last byte is; it
  gives `BufferIsTail` and `MessageHasTail` for every buffer of two bytes or more and every
  output. `SentInv` gives `ReportIsDue`.
  *DataFolder*: the file of the running program is as its memory, each other one as
  the last run in its folder left it (`FileKept`), from which `SettingsFollow`, for
  any settings.
  *Timers*: only the last pause is open (`OnlyLastIsOpen`), for any clock and
  number of pauses; so the sum in `time_left` comes to that pause alone (`SecondsCount`),
  and `TimeLeftMoves` follows action by action.
  *RandomTools*: all words before the last gave at most their width in heads
  (`FlipsInv`), and the counts of the sides add up to the dice rolled (`DiceInv`):
  `ResultsAreTrue`, for words and ints of any width and any coins and dice.
  *CardSearch*: a result is in the order of the column that was clicked, and the view has
  as many rows (`CardInv`): `RowsAreResult` and `CellsAreSorted`.
- `ConfigProofs`. The list, the dashboard and `CallInv`, what is true in the
  middle of a save, for a list of any length. What `add_recent_tourn` frees are the
  oldest of the list (`DropFreesOldest`), so that with the new list none of them is
  left in it, and with the old one exactly they are: `StringsAreOwned`.
- `WorkersProofs`. `LockInv` ties the mutex to where each thread is: in the
  middle of `setDiscordText` the old text is freed but still pointed to, and only the mutex
  keeps `dc_thread` from it. For any number of texts.

Induction over data is out of the prover's reach as a rule of the library, but what the
models fold, flatten and keep can be proved about all the same: the value of a
recursive function is *a* solution of its equation, so a lemma gives an explicit
solution (`SecondsCount`, `TotalGrows`, `FlattenIs`, `KeptCount`), and another shows that
there is no second one, since two solutions would differ at a least argument
(`SumUnique`, `LeastExists`). `TableList` says `Kept`, `Bijection` and `Cardinality`
where the library has `SelectSeq`, `Permutations` and a count by recursion, and
`RandomTools` has `MaxInt` where a power of two would do, because the prover knows
nothing of those operators.

Assumed are only the constants' assumptions, named in each module, which TLC evaluates
in the runs, and the hypothesis of `NumbersStayInOrder`. Only model-checked are the liveness
properties `SweepEnds`, `LatestIsShown` and `BarGoes`, as the prover has no rule for
fairness, and the four runs that expect a violation.

## Abstractions to know of

- What the Rust client accepts is its own business: any operation may be
  refused. Only that a bulk is rolled back when a part of it is refused and that
  it refuses limits that cross are assumed.
- Texts, times, formats and layout are left out, and so is everything that only
  logs.
- A saved tournament may still lose its file to another one that is created at
  its path: the code does not look. `SavedIsKept` excepts that case, and the
  hazard is listed. Likewise `NoSilentLoss` excepts the end of the program.
- `UntouchedIsUnchanged` is claimed setting by setting, for each that its own field
  can hold; the others (90 seconds, 10000 minutes, limits, a match size or a table
  number over 99, a deck registration that does not follow the limits) are changed
  by an Apply of untouched fields. Lengths are in whole seconds: a fraction of one
  in a file would be lost as well.

## Not modelled

- *`FilteredList::insert`* and its binary search: no caller but its tests.
- *Getters of the Rust client*: queries without state.
- *The engine that finds cards*: an external library; `SearchModel` above it is in
  CardSearch, the loading of the cards in Workers.
- *Backend updates* (`poll_remote_update`): no caller in the program.
- *Random names, labels with images, translations, assets, logging,
  build and test programs*: no state between two calls, or no behaviour.
- *Shims for Windows* (`src/lib/windows_compat`) and the other branch of
  `change_path`: third-party headers; the modules follow the Linux build.
- *squire_sdk*, the Discord SDK, Qt and the file system: external; modelled by
  what the program relies on.

## Plan

Done, in this order, the most important behaviour first: SaveFile with its
proofs and refinement; MainWindow with its refinement; TournamentSettings;
TournamentViews; MatchPanel; CrashHandler, Config and Workers with proofs;
TableList; RoundTimer; DataFolder, Timers, RandomTools and CardSearch; the
proofs of TournamentViews, DataFolder and Timers and the rest of those of
TournamentSettings; the proofs of MainWindow with its refinement, MatchPanel,
TableList, RoundTimer, RandomTools and CardSearch.

Next:

1. Lemmas towards the liveness of MainWindow: that each round of the loop brings
   its index nearer to the number of tabs, so that only the fairness is left to TLC.
2. `stable_sort` against an insertion sort, to say of the columns whose comparator
   orders that rows of equal rank keep their order.
3. `CardSearch` under the window that will use it, and backend updates, if that code
   comes into use.
