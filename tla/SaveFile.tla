------------------------------ MODULE SaveFile ------------------------------
(***************************************************************************)
(* How one tournament reaches the disk: save_tourn of squire_ffi, step by  *)
(* step, called by Tournament::save, by new_tournament_from_settings and   *)
(* by the tab of a tournament that was just opened; and                    *)
(* load_tournament_from_file, which reads it back.                         *)
(*                                                                         *)
(* The tournament itself is abstracted to a version number: the number of  *)
(* operations that changed it.  A file is absent, torn (created or         *)
(* truncated but not fully written) or holds one version.                  *)
(***************************************************************************)
EXTENDS Integers

CONSTANTS
  Absent,       (* a file that does not exist                              *)
  Torn,         (* a file that exists and does not parse                   *)
  NotOpen,      (* the tournament is not in the Rust client                *)
  MaxVersion,   (* bound on the operations that change the tournament      *)
  MaxFaults     (* bound on the faults since the last complete write       *)

ASSUME ConstantsAssumption ==
  /\ MaxVersion \in Nat
  /\ MaxFaults \in Nat
  /\ Absent \notin Nat
  /\ Torn \notin Nat
  /\ NotOpen \notin Nat
  /\ Absent # Torn

VARIABLES
  memory,   (* version held by the Rust client, or NotOpen                 *)
  object,   (* a Tournament object (and so a tab) exists for it            *)
  saved,    (* the member Tournament::saved                                *)
  pc,       (* where the only thread that saves is                         *)
  caller,   (* who called save_tourn: the object, or one of the two calls  *)
            (* in new_tournament_from_settings                             *)
  image,    (* the serialised tournament save_tourn is about to write      *)
  result,   (* what save_tourn is about to return                          *)
  file,     (* content of the tournament's path                            *)
  backup,   (* content of the path with BACKUP_EXT                         *)
  durable,  (* history: version of the last complete write                 *)
  faults    (* history: faults since the last complete write               *)

disk == <<file, backup>>
history == <<durable, faults>>
app == <<memory, object, saved>>
call == <<caller, image, result>>
vars == <<memory, object, saved, pc, caller, image, result, file, backup,
          durable, faults>>

PCs == {"idle", "changed", "remove", "rename", "serialise", "open", "write",
        "report"}

(* A file load_tournament_from_file accepts. *)
Intact(content) == content \in Nat

Init ==
  /\ memory = NotOpen
  /\ object = FALSE
  /\ saved = FALSE
  /\ pc = "idle"
  /\ caller = "object"
  /\ image = Absent
  /\ result = FALSE
  /\ file = Absent
  /\ backup = Absent
  /\ durable = Absent
  /\ faults = 0

Fault ==
  /\ faults < MaxFaults
  /\ faults' = faults + 1
  /\ UNCHANGED durable

-----------------------------------------------------------------------------
(* Deliberately wrong variants of actions below, one per property: each is a *)
(* bug this code could have had, and breaks the property named.            *)

(* SavedIsOnDisk: save() does not look at what save_tourn returned. *)
ReportAlwaysSaved ==
  /\ pc = "report" /\ caller = "object"
  /\ saved' = TRUE /\ pc' = "idle"
  /\ UNCHANGED <<memory, object, call, disk, history>>

(* CopyAtEveryStep: the file is overwritten where it is. *)
NoRename ==
  /\ pc = "rename" /\ pc' = "serialise"
  /\ UNCHANGED <<app, call, disk, history>>

(* CopyAfterOneFault: remove_file is given the file, not the backup. *)
RemoveWrongFile ==
  /\ pc = "remove" /\ pc' = "rename"
  /\ file' = Absent
  /\ UNCHANGED <<app, call, backup, history>>

(* ImplementsDurableCopy: the backup is preferred to the file. *)
LoadBackup ==
  /\ pc = "idle" /\ Intact(file) /\ memory = NotOpen
  /\ memory' = IF Intact(backup) THEN backup ELSE file
  /\ object' = TRUE /\ saved' = FALSE /\ pc' = "changed"
  /\ UNCHANGED <<call, disk, history>>

-----------------------------------------------------------------------------
(* The application's side: what leads to a save.                           *)

(* new_tournament_from_settings puts the tournament in the client and calls
   save_tourn before any Tournament object exists.  (The two paths are free:
   what a second tournament does to an occupied path is in MainWindow.) *)
Create ==
  /\ pc = "idle"
  /\ memory = NotOpen
  /\ file = Absent /\ backup = Absent
  /\ memory' = 0
  /\ pc' = "remove"
  /\ caller' = "new1"
  /\ UNCHANGED <<object, saved, image, result, disk, history>>

(* An operation of Tournament changed the data: its signal handlers run, with
   saved still at its old value, and then it calls save(). *)
Change ==
  /\ pc = "idle"
  /\ object
  /\ memory < MaxVersion
  /\ memory' = memory + 1
  /\ pc' = "changed"
  /\ UNCHANGED <<object, saved, call, disk, history>>

(* start, end, cancel, recordResult, dropPlayer... save even if the operation
   failed, and the unsaved-changes dialogue saves again on request. *)
Resave ==
  /\ pc = "idle"
  /\ object
  /\ pc' = "changed"
  /\ UNCHANGED <<app, call, disk, history>>

(* load_tournament: a parse error, a missing file or a tournament that is
   already in the client give the null id and change nothing (LoadRefused).
   The constructor of Tournament saves under the null id, which fails, so the
   new tab finds the tournament unsaved and saves it at once. *)
Load ==
  /\ pc = "idle"
  /\ Intact(file)
  /\ memory = NotOpen
  /\ memory' = file
  /\ object' = TRUE
  /\ saved' = FALSE
  /\ pc' = "changed"
  /\ UNCHANGED <<call, disk, history>>

LoadRefused ==
  /\ pc = "idle"
  /\ ~Intact(file) \/ memory # NotOpen
  /\ UNCHANGED vars

(* canExit on a saved tournament: Tournament::close removes it from the
   client and the tab is deleted with its Tournament. *)
Close ==
  /\ pc = "idle"
  /\ object /\ saved
  /\ object' = FALSE
  /\ memory' = NotOpen
  /\ UNCHANGED <<saved, pc, call, disk, history>>

(* canExit on an unsaved tournament whose user discards the changes: the tab
   is deleted, the client keeps the tournament. *)
Discard ==
  /\ pc = "idle"
  /\ object /\ ~saved
  /\ object' = FALSE
  /\ UNCHANGED <<memory, saved, pc, call, disk, history>>

(* The process ends between two operations. *)
Exit ==
  /\ pc = "idle"
  /\ memory # NotOpen
  /\ memory' = NotOpen
  /\ object' = FALSE
  /\ saved' = FALSE
  /\ UNCHANGED <<pc, call, disk, history>>

(* External: nothing in the program reads a backup.  A user who finds the
   tournament does not open copies the backup over it by hand. *)
RestoreBackup ==
  /\ pc = "idle"
  /\ memory = NotOpen
  /\ ~Intact(file) /\ Intact(backup)
  /\ file' = backup
  /\ UNCHANGED <<app, pc, call, backup, history>>

-----------------------------------------------------------------------------
(* Tournament::save and save_tourn, one system call at a time.             *)

(* Tournament::save starts with setSaveStatus(false). *)
BeginSave ==
  /\ pc = "changed"
  /\ saved' = FALSE
  /\ caller' = "object"
  /\ pc' = "remove"
  /\ UNCHANGED <<memory, object, image, result, disk, history>>

(* let _ = remove_file(backup): an error is ignored. *)
RemoveBackup ==
  /\ pc = "remove"
  /\ pc' = "rename"
  /\ \/ backup' = Absent /\ UNCHANGED history
     \/ backup # Absent /\ UNCHANGED backup /\ Fault
  /\ UNCHANGED <<app, call, file>>

(* let _ = rename(file, backup): replaces the backup; an error, such as a
   file that does not exist, is ignored. *)
RenameToBackup ==
  /\ pc = "rename"
  /\ pc' = "serialise"
  /\ \/ file # Absent /\ backup' = file /\ file' = Absent /\ UNCHANGED history
     \/ file = Absent /\ UNCHANGED <<disk, history>>
     \/ file # Absent /\ UNCHANGED disk /\ Fault
  /\ UNCHANGED <<app, call>>

(* tournament_manager_query(tid, to_string): the client gives the JSON, or
   the query or the conversion fails. *)
Serialise ==
  /\ pc = "serialise"
  /\ \/ image' = memory /\ pc' = "open" /\ UNCHANGED <<result, history>>
     \/ result' = FALSE /\ pc' = "report" /\ UNCHANGED image /\ Fault
  /\ UNCHANGED <<app, caller, disk>>

(* std::fs::write, first half: create or truncate the file. *)
OpenFile ==
  /\ pc = "open"
  /\ \/ file' = Torn /\ pc' = "write" /\ UNCHANGED <<result, history>>
     \/ result' = FALSE /\ pc' = "report" /\ UNCHANGED file /\ Fault
  /\ UNCHANGED <<app, caller, image, backup>>

(* std::fs::write, second half: all the bytes are written, or not. *)
WriteData ==
  /\ pc = "write"
  /\ pc' = "report"
  /\ \/ file' = image /\ result' = TRUE /\ durable' = image /\ faults' = 0
     \/ result' = FALSE /\ UNCHANGED file /\ Fault
  /\ UNCHANGED <<app, caller, image, backup>>

(* save_tourn returned to Tournament::save, which is the last thing the
   operation does. *)
ReportToObject ==
  /\ pc = "report"
  /\ caller = "object"
  /\ saved' = result
  /\ pc' = "idle"
  /\ UNCHANGED <<memory, object, call, disk, history>>

(* The first of the two saves of new_tournament_from_settings succeeded. *)
ReportFirstSave ==
  /\ pc = "report"
  /\ caller = "new1" /\ result
  /\ caller' = "new2"
  /\ pc' = "remove"
  /\ UNCHANGED <<app, image, result, disk, history>>

(* The second one did: new_tournament registers the system user, which is a
   change of the tournament unless the client refuses it, and makes the
   object, not yet saved; the dialogue that asked for it saves once more. *)
ReportSecondSave ==
  /\ pc = "report"
  /\ caller = "new2" /\ result
  /\ memory' \in {memory, memory + 1}
  /\ object' = TRUE
  /\ saved' = FALSE
  /\ pc' = "changed"
  /\ UNCHANGED <<call, disk, history>>

(* One of them failed: new_tournament returns nullptr and
   CreateTournamentDialogue::onOkay calls save() on it before it tests it. *)
CreateFailed ==
  /\ pc = "report"
  /\ caller \in {"new1", "new2"} /\ ~result
  /\ memory' = NotOpen
  /\ pc' = "idle"
  /\ UNCHANGED <<object, saved, call, disk, history>>

(* The process dies in the middle of an operation or a save. *)
Crash ==
  /\ pc # "idle"
  /\ Fault
  /\ memory' = NotOpen
  /\ object' = FALSE
  /\ saved' = FALSE
  /\ pc' = "idle"
  /\ UNCHANGED <<call, disk>>

-----------------------------------------------------------------------------
SaveStep ==
  \/ BeginSave \/ RemoveBackup \/ RenameToBackup \/ Serialise
  \/ OpenFile \/ WriteData
  \/ ReportToObject \/ ReportFirstSave \/ ReportSecondSave \/ CreateFailed

Next ==
  \/ Create \/ Change \/ Resave \/ Load \/ LoadRefused
  \/ Close \/ Discard \/ Exit \/ RestoreBackup
  \/ SaveStep
  \/ Crash

Spec == Init /\ [][Next]_vars

-----------------------------------------------------------------------------
TypeOK ==
  /\ memory \in Nat \cup {NotOpen}
  /\ object \in BOOLEAN
  /\ saved \in BOOLEAN
  /\ pc \in PCs
  /\ caller \in {"object", "new1", "new2"}
  /\ image \in Nat \cup {Absent}
  /\ result \in BOOLEAN
  /\ file \in Nat \cup {Absent, Torn}
  /\ backup \in Nat \cup {Absent, Torn}
  /\ durable \in Nat \cup {Absent}
  /\ faults \in Nat

(* isSaved() is the truth once an operation has returned: the file holds the
   version that is in the client (the comment on isSaved in
   abstract_tournament.h: "Whether the tournament has been saved
   correctly"). *)
SavedIsOnDisk == object /\ saved /\ pc = "idle" => file = memory

(* The purpose of the backup: while no fault has happened since the last
   complete write, a copy of that write is on the disk at every single step,
   so a crash right now does not lose it. *)
CopyAtEveryStep ==
  durable # Absent /\ faults = 0 => durable \in {file, backup}

(* After one fault of any kind (an ignored error of remove_file or rename, a
   failed or half-done write, a crash) and with no save under way, a copy of
   the last complete write is still on the disk.  Two faults may lose it. *)
CopyAfterOneFault ==
  durable # Absent /\ faults <= 1 /\ pc = "idle" => durable \in {file, backup}

-----------------------------------------------------------------------------
(* The inductive invariant behind the three facts above.                   *)

(* Whoever saves has the tournament open, and while
   new_tournament_from_settings saves there is no object yet. *)
OpenWhileUsed ==
  /\ pc # "idle" => memory # NotOpen
  /\ object => memory # NotOpen
  /\ pc \notin {"idle", "changed"} /\ caller # "object" => ~object

(* What is written is what is in memory: nothing runs between the two. *)
WritesMemory ==
  /\ pc \in {"open", "write"} => image = memory
  /\ pc = "report" /\ result => file = memory /\ durable = memory
  /\ pc = "report" /\ ~result => faults >= 1

(* Where the last complete write is, step by step, when nothing failed. *)
CopyMoves ==
  durable # Absent /\ faults = 0 =>
    /\ pc \in {"idle", "changed", "remove", "rename", "report"} => file = durable
    /\ pc \in {"serialise", "open", "write"} => backup = durable /\ ~Intact(file)

(* The single fault was in the save that now reports it, in an earlier one
   that has ended, or a crash. *)
CopyAfterFault ==
  durable # Absent /\ faults = 1
    /\ (pc \in {"idle", "changed"} \/ (pc = "report" /\ ~result))
  => durable \in {file, backup}

(* Copies are of the past: none before the first complete write, none newer
   than memory, and the backup none newer than the file. *)
CopiesAreOlder ==
  /\ durable = Absent => ~Intact(file) /\ ~Intact(backup)
  /\ memory # NotOpen /\ Intact(file) => file <= memory
  /\ memory # NotOpen /\ Intact(backup) => backup <= memory
  /\ Intact(file) /\ Intact(backup) => backup <= file

(* Type correctness, the five facts above and SavedIsOnDisk are preserved
   together by every step of a save and of the application around it. *)
IInv ==
  /\ TypeOK
  /\ OpenWhileUsed /\ WritesMemory /\ CopyMoves /\ CopyAfterFault
  /\ CopiesAreOlder /\ SavedIsOnDisk

(* The newest copy on the disk behaves as DurableCopy promises. *)
NewestCopy ==
  IF Intact(file) THEN file ELSE IF Intact(backup) THEN backup ELSE Absent

Copy == INSTANCE DurableCopy WITH
          live <- memory, kept <- NewestCopy, risk <- faults

(* save_tourn, taken step by step with its ignored errors, implements the
   promise of DurableCopy: the newest copy on the disk changes only by a
   complete write, unless a fault came before. *)
ImplementsDurableCopy == Copy!Spec
=============================================================================
