----------------------------- MODULE DataFolder -----------------------------
(***************************************************************************)
(* Which folder Squire Desktop works in.  The crash handler changes to it  *)
(* before it starts the program, which inherits it; CONFIG_FILE, which     *)
(* both read, is a name relative to it.  Linux; what may go wrong with the *)
(* file itself is in Config.                                               *)
(***************************************************************************)
EXTENDS Integers

CONSTANTS
  UserSettings,   (* what can be set in the settings tab, the opt-in with it *)
  DefaultSettings,
  NoFile

ASSUME FolderAssumption ==
  DefaultSettings \in UserSettings /\ NoFile \notin UserSettings

(* Where the handler was started, every time the same; $HOME/.config; and
   SquireDesktop in it. *)
Folders == {"start", "config", "app"}

VARIABLES
  exists,      (* the folders there are                                     *)
  configFile,  (* CONFIG_FILE in each of them                               *)
  cwd,         (* of the handler and of the program                         *)
  stage,       (* "off", "handler" before and "over" after the program, "on" *)
  inMemory,    (* the settings of the program                               *)
  loaded,      (* history: what this run of it started with                 *)
  before       (* history: what the last run in each folder ended with      *)

folderVars == <<exists, configFile, cwd, stage, inMemory, loaded, before>>

FolderInit ==
  /\ exists \in {{"start"}, {"start", "config"}}
  /\ configFile = [f \in Folders |-> NoFile]
  /\ cwd = "start" /\ stage = "off"
  /\ inMemory = DefaultSettings /\ loaded = DefaultSettings
  /\ before = [f \in Folders |-> NoFile]

-----------------------------------------------------------------------------
(* HOME is not set or there is no .config in it: 0, and nothing is changed.
   Otherwise 1, in .config if mkdir fails, as it does when its folder is there
   already, and in the new folder if not. *)
change_path ==
  \/ cwd' = "start" /\ UNCHANGED exists
  \/ "config" \in exists /\ cwd' = "config" /\ exists' \in {exists, exists \cup {"app"}}
  \/ /\ "config" \in exists /\ "app" \notin exists
     /\ cwd' = "app" /\ exists' = exists \cup {"app"}

(* main of the handler goes on whatever change_path returned. *)
StartHandler ==
  /\ stage = "off"
  /\ change_path
  /\ stage' = "handler"
  /\ UNCHANGED <<configFile, inMemory, loaded, before>>

(* A deliberately wrong variant of StartProgram, which breaks SettingsFollow:
   the file is made before it is looked for. *)
StartProgramAfresh ==
  /\ stage = "handler"
  /\ loaded' = DefaultSettings
  /\ inMemory' = loaded'
  /\ configFile' = [configFile EXCEPT ![cwd] = loaded']
  /\ stage' = "on"
  /\ UNCHANGED <<exists, cwd, before>>

(* main of the program: the file, or a new one with the defaults. *)
StartProgram ==
  /\ stage = "handler"
  /\ loaded' = IF configFile[cwd] = NoFile THEN DefaultSettings ELSE configFile[cwd]
  /\ inMemory' = loaded'
  /\ configFile' = [configFile EXCEPT ![cwd] = loaded']
  /\ stage' = "on"
  /\ UNCHANGED <<exists, cwd, before>>

(* SettingsTab::onSave. *)
SaveSettings(c) ==
  /\ stage = "on"
  /\ inMemory' = c
  /\ configFile' = [configFile EXCEPT ![cwd] = c]
  /\ UNCHANGED <<exists, cwd, stage, loaded, before>>

(* The program ends; the handler looks into the file for the opt-in. *)
ProgramOver ==
  /\ stage = "on"
  /\ stage' = "over"
  /\ UNCHANGED <<exists, configFile, cwd, inMemory, loaded, before>>

HandlerReturns ==
  /\ stage = "over"
  /\ before' = [before EXCEPT ![cwd] = inMemory]
  /\ cwd' = "start" /\ stage' = "off"
  /\ UNCHANGED <<exists, configFile, inMemory, loaded>>

(* Another program makes .config. *)
ConfigFolderMade ==
  /\ stage = "off"
  /\ exists' = exists \cup {"config"}
  /\ UNCHANGED <<configFile, cwd, stage, inMemory, loaded, before>>

FolderNext ==
  \/ StartHandler \/ StartProgram \/ ProgramOver \/ HandlerReturns
  \/ \E c \in UserSettings : SaveSettings(c)
  \/ ConfigFolderMade

FolderSpec == FolderInit /\ [][FolderNext]_folderVars

-----------------------------------------------------------------------------
(* Program and handler use one file: when the program is over, the handler finds
   the opt-in the program had.  And settings last: a run starts with what the last
   run in its folder ended with, whatever runs were in other folders since, and
   with the defaults only where there was none. *)
SettingsFollow ==
  /\ stage = "over" => configFile[cwd] = inMemory
  /\ stage = "on" => loaded = IF before[cwd] = NoFile THEN DefaultSettings ELSE before[cwd]
=============================================================================
