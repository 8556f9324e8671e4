-------------------------------- MODULE Workers --------------------------------
(***************************************************************************)
(* The three threads of the program: the GUI thread, which sets the text   *)
(* that Discord is to show and polls for the end of the card download on a *)
(* timer; dc_thread, which takes the text; and card_downloader_thread.     *)
(*                                                                         *)
(* A text is a C string that setDiscordText allocates and whoever takes or *)
(* replaces it frees; here it is the number of its allocation.  The mutex  *)
(* around the flag of the download is left out: all of it is one read or   *)
(* one write.                                                              *)
(***************************************************************************)
EXTENDS Integers

CONSTANTS
  MaxTexts   (* bound on the texts that are set                             *)

ASSUME ConstantsAssumption == MaxTexts \in Nat

VARIABLES
  app,     (* "running", or what ended it                                   *)
  lock,    (* dc_info->lock                                                 *)
  text,    (* discord_thread_txt, which dc_info->txt points to, or NULL     *)
  made,    (* the allocations so far                                        *)
  freed,   (* history: those that were freed                                *)
  gui,     (* where setDiscordText is                                       *)
  dc,      (* where dc_thread is                                            *)
  taken,   (* txt of dc_thread, or NULL                                     *)
  shown,   (* history: what Discord shows                                   *)
  cards,   (* where card_downloader_thread is                               *)
  done,    (* cards_downloading->done                                       *)
  joined,  (* card_download_thread is no longer joinable                    *)
  bar      (* the progress bar is shown                                     *)

texts == <<lock, text, made, freed>>
download == <<cards, done, joined, bar>>
discord == <<dc, taken, shown>>
vars == <<app, texts, gui, discord, download>>

NULL == 0

(* The constructor of MainWindow, which sets the first text before there is a
   thread. *)
Init ==
  /\ app = "running"
  /\ lock = "free" /\ text = 1 /\ made = 1 /\ freed = {}
  /\ gui = "idle"
  /\ dc = "create" /\ taken = NULL /\ shown = NULL
  /\ cards = "start" /\ done = FALSE /\ joined = FALSE /\ bar = TRUE

Running == app = "running"

-----------------------------------------------------------------------------
(* Deliberately wrong variants of definitions below, one per property: each  *)
(* is a bug this code could have had, and breaks the property named.       *)

(* TextsAreOwned: dc_thread does not lock. *)
LockIgnored ==
  /\ Running /\ dc = "lock"
  /\ dc' = "take"
  /\ UNCHANGED <<app, texts, gui, taken, shown, download>>

(* LatestIsShown: the text is cleared when it has been shown. *)
ShowAndClear ==
  /\ Running /\ dc = "show"
  /\ IF taken = NULL THEN UNCHANGED <<shown, freed, text>>
     ELSE shown' = taken /\ freed' = freed \cup {taken} /\ text' = NULL
  /\ taken' = NULL
  /\ dc' = "callbacks"
  /\ UNCHANGED <<app, lock, made, gui, download>>

(* BarGoes: the thread sets the flag at its start only. *)
FinishSilently ==
  /\ Running /\ cards = "loading"
  /\ cards' = "finished"
  /\ UNCHANGED <<app, texts, gui, discord, done, joined, bar>>

-----------------------------------------------------------------------------
(* setDiscordText, called for every tab that comes to the front.           *)

SetText ==
  /\ Running /\ gui = "idle" /\ made < MaxTexts
  /\ lock = "free"
  /\ lock' = "gui" /\ gui' = "free"
  /\ UNCHANGED <<app, text, made, freed, discord, download>>

FreeOldText ==
  /\ Running /\ gui = "free"
  /\ freed' = freed \cup ({text} \ {NULL})
  /\ gui' = "store"
  /\ UNCHANGED <<app, lock, text, made, discord, download>>

StoreText ==
  /\ Running /\ gui = "store"
  /\ made' = made + 1 /\ text' = made + 1
  /\ lock' = "free" /\ gui' = "idle"
  /\ UNCHANGED <<app, freed, discord, download>>

-----------------------------------------------------------------------------
(* dc_thread.                                                              *)

(* DiscordCreate fails until there is a Discord to talk to. *)
Create ==
  /\ Running /\ dc = "create"
  /\ dc' = "callbacks"
  /\ UNCHANGED <<app, texts, gui, taken, shown, download>>

(* run_callbacks; while it fails the loop begins again at once. *)
RunCallbacks ==
  /\ Running /\ dc = "callbacks"
  /\ dc' = "lock"
  /\ UNCHANGED <<app, texts, gui, taken, shown, download>>

LockText ==
  /\ Running /\ dc = "lock"
  /\ lock = "free"
  /\ lock' = "dc" /\ dc' = "take"
  /\ UNCHANGED <<app, text, made, freed, gui, taken, shown, download>>

TakeText ==
  /\ Running /\ dc = "take"
  /\ taken' = text
  /\ dc' = "clear"
  /\ UNCHANGED <<app, texts, gui, shown, download>>

ClearText ==
  /\ Running /\ dc = "clear"
  /\ text' = NULL
  /\ lock' = "free" /\ dc' = "show"
  /\ UNCHANGED <<app, made, freed, gui, taken, shown, download>>

(* update_activity copies the text, which is freed then; after a sleep the loop
   begins again. *)
ShowText ==
  /\ Running /\ dc = "show"
  /\ IF taken = NULL THEN UNCHANGED <<shown, freed>>
                     ELSE shown' = taken /\ freed' = freed \cup {taken}
  /\ taken' = NULL
  /\ dc' = "callbacks"
  /\ UNCHANGED <<app, lock, text, made, gui, download>>

-----------------------------------------------------------------------------
(* card_downloader_thread and the timer.                                   *)

StartLoading ==
  /\ Running /\ cards = "start"
  /\ done' = FALSE /\ cards' = "loading"
  /\ UNCHANGED <<app, texts, gui, discord, joined, bar>>

FinishLoading ==
  /\ Running /\ cards = "loading"
  /\ done' = TRUE /\ cards' = "finished"
  /\ UNCHANGED <<app, texts, gui, discord, joined, bar>>

(* The constructor of MTGSearchEngine throws, which a thread cannot: the
   program is aborted. *)
LoadingFails ==
  /\ Running /\ cards = "loading"
  /\ app' = "no cards"
  /\ UNCHANGED <<texts, gui, discord, download>>

(* cardDownloadProgressBarUpdate, every 10 ms in the event loop; a timeout
   while done is FALSE does nothing.  Nothing stops the timer: the second join
   throws, main catches that and exits. *)
Timeout ==
  /\ Running /\ gui = "idle" /\ done
  /\ IF joined THEN app' = "joined twice" /\ UNCHANGED <<joined, bar>>
               ELSE joined' = TRUE /\ bar' = FALSE /\ UNCHANGED app
  /\ UNCHANGED <<texts, gui, discord, cards, done>>

(* The user closes the window: exec returns and exit() is called, with both
   threads wherever they are. *)
Quit ==
  /\ Running /\ gui = "idle"
  /\ app' = "closed"
  /\ UNCHANGED <<texts, gui, discord, download>>

-----------------------------------------------------------------------------
GuiStep == FreeOldText \/ StoreText
DiscordStep == LockText \/ TakeText \/ ClearText \/ ShowText
DiscordAnswers == Create \/ RunCallbacks
CardStep == StartLoading \/ FinishLoading \/ LoadingFails

Next ==
  \/ SetText \/ GuiStep
  \/ DiscordAnswers \/ DiscordStep
  \/ CardStep \/ Timeout
  \/ Quit

Spec == Init /\ [][Next]_vars

(* Threads are scheduled and timers fire; a thread that waits for the mutex
   gets it, as the other holds it for an instant only.  That Discord answers is
   the assumption under which the program promises anything about its text.
   The download may take forever. *)
FairSpec ==
  /\ Spec
  /\ WF_vars(GuiStep) /\ SF_vars(DiscordStep) /\ WF_vars(DiscordAnswers)
  /\ WF_vars(Timeout)

-----------------------------------------------------------------------------
Texts == 1..made

TypeOK ==
  /\ app \in {"running", "closed", "no cards", "joined twice"}
  /\ lock \in {"free", "gui", "dc"}
  /\ made \in Nat
  /\ text \in Texts \cup {NULL} /\ taken \in Texts \cup {NULL}
  /\ shown \in Texts \cup {NULL}
  /\ freed \subseteq Texts
  /\ gui \in {"idle", "free", "store"}
  /\ dc \in {"create", "callbacks", "lock", "take", "clear", "show"}
  /\ cards \in {"start", "loading", "finished"}
  /\ done \in BOOLEAN /\ joined \in BOOLEAN /\ bar \in BOOLEAN

(* Outside of the critical sections a text belongs to one thread, which alone
   will free it: what the GUI thread may free or replace is not what dc_thread
   passes to Discord, and neither has been freed. *)
TextHasOneOwner ==
  /\ taken # NULL => taken \notin freed
  /\ text # NULL /\ gui # "store" => text \notin freed
  /\ text # NULL /\ dc # "clear" => text # taken

(* No text is leaked: what was allocated is freed or still held. *)
NoTextIsLost == Texts \ freed \subseteq {text, taken}

(* Together: every text has one owner from its allocation until it is freed. *)
TextsAreOwned == TextHasOneOwner /\ NoTextIsLost

(* Who holds the mutex is where the mutex guards it. *)
LockInv ==
  /\ lock = "gui" <=> gui # "idle"
  /\ lock = "dc" <=> dc \in {"take", "clear"}
  /\ gui = "store" /\ text # NULL => text \in freed
  /\ dc = "clear" => taken = text
  /\ dc \notin {"clear", "show"} => taken = NULL

(* All of it together is preserved by every step. *)
IInv == TypeOK /\ LockInv /\ TextHasOneOwner /\ NoTextIsLost

(* What was set last is shown at some time, unless another text is set first or
   the program ends: none is overwritten or cleared unseen. *)
LatestIsShown ==
  \A t \in 1..MaxTexts :
    made = t /\ Running ~> shown = t \/ made # t \/ ~Running

(* When the cards are there the progress bar goes. *)
BarGoes == cards = "finished" ~> ~bar \/ ~Running

(* "Exec until the app is kil" (main.cpp): the program ends when its user ends
   it, or is aborted for want of cards, of which card_downloader_thread has a
   TODO. *)
ExecUntilKilled == app \in {"running", "closed", "no cards"}
=============================================================================
