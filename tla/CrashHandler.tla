----------------------------- MODULE CrashHandler -----------------------------
(***************************************************************************)
(* The crash handler: it starts Squire Desktop, copies what the program    *)
(* prints to the terminal and to a log file, keeps the end of it in a ring *)
(* buffer, and when the program ends looks at its wait status and at the   *)
(* configuration file and may send the buffer as a crash report.           *)
(*                                                                         *)
(* The pipe is left out: it keeps the order, and nothing the handler does  *)
(* before the end of it depends on when a byte arrives.                    *)
(***************************************************************************)
EXTENDS Integers, Sequences

CONSTANTS
  Letters,      (* bytes with no meaning here                               *)
  Em,           (* the byte 'm', which ends an escape sequence              *)
  Esc, Nul,     (* the byte that begins one, and the byte 0                 *)
  Size,         (* sizeof(in_memory_log)                                    *)
  MaxPrinted,   (* bound on the bytes that reach the buffer                 *)
  None          (* no message was sent                                      *)

ASSUME ConstantsAssumption ==
  /\ Size \in Nat /\ Size >= 2
  /\ MaxPrinted \in Nat
  /\ Esc \notin Letters \cup {Em} /\ Nul \notin Letters \cup {Em}
  /\ Em \notin Letters /\ Esc # Nul

Plain == Letters \cup {Em}
NO_START_VAL == 180

VARIABLES
  phase,      (* of the handler                                             *)
  in_memory_log, f_ptr, b_ptr,   (* the ring buffer                         *)
  escaped,    (* read_ansi_sequence is reading                              *)
  printed,    (* history: the bytes outside of escape sequences             *)
  outcome,    (* how the program ended                                      *)
  optedIn,    (* "report-crashes" in the configuration file, as it stands   *)
  message     (* what was sent, or None                                     *)

ring == <<in_memory_log, f_ptr, b_ptr>>
vars == <<phase, in_memory_log, f_ptr, b_ptr, escaped, printed, outcome,
          optedIn, message>>

Indices == 0..(Size - 1)

(* The program leaves main or calls exit, is killed by a signal it does not
   catch, or could not be started at all. *)
Outcomes ==
  [by : {"exit"}, code : {0, 1, NO_START_VAL}] \cup [by : {"signal"}, code : {9, 15}]
Running == [by |-> "none", code |-> 0]

(* The first argument waitpid fills in. *)
WaitStatus(o) == IF o.by = "exit" THEN 256 * o.code ELSE o.code

Init ==
  /\ phase = "reading"
  /\ in_memory_log = [i \in Indices |-> Nul] /\ f_ptr = 0 /\ b_ptr = 0
  /\ escaped = FALSE /\ printed = <<>>
  /\ outcome = Running
  /\ optedIn \in {"yes", "no", "unreadable"}
  /\ message = None

(* ++ and %= sizeof(in_memory_log), of an index. *)
After(i) == IF i + 1 = Size THEN 0 ELSE i + 1

-----------------------------------------------------------------------------
(* Deliberately wrong variants of definitions below, one per property: each  *)
(* is a bug this code could have had, and breaks the property named.       *)

(* BufferIsTail: the log is truncated one byte late. *)
PushLate(c) ==
  /\ in_memory_log' = [in_memory_log EXCEPT ![b_ptr] = c]
  /\ b_ptr' = After(b_ptr)
  /\ f_ptr' = IF b_ptr = f_ptr /\ printed # <<>> THEN After(f_ptr) ELSE f_ptr
  /\ printed' = Append(printed, c)

(* ReportIsDue: any end but a clean one is a crash. *)
CrashedIfNotClean(o) == o # [by |-> "exit", code |-> 0]

(* MessageHasTail: the copy begins at the start of the array. *)
CopiedFromStart ==
  [k \in 1..(IF f_ptr <= b_ptr THEN b_ptr - f_ptr ELSE b_ptr + Size - f_ptr) |->
     in_memory_log[k - 1]]

-----------------------------------------------------------------------------
(* Reading the pipe.                                                       *)

(* One byte into the buffer, and the front moves on if it has caught up. *)
Push(c) ==
  /\ in_memory_log' = [in_memory_log EXCEPT ![b_ptr] = c]
  /\ b_ptr' = After(b_ptr)
  /\ f_ptr' = IF b_ptr' = f_ptr THEN After(f_ptr) ELSE f_ptr
  /\ printed' = Append(printed, c)

ReadByte(c) ==
  /\ phase = "reading" /\ ~escaped
  /\ Len(printed) < MaxPrinted
  /\ Push(c)
  /\ UNCHANGED <<phase, escaped, outcome, optedIn, message>>

(* A byte 0 goes to the log file only. *)
ReadNul ==
  /\ phase = "reading"
  /\ UNCHANGED vars

(* read_ansi_sequence drops everything up to the next 'm'. *)
ReadEscape ==
  /\ phase = "reading" /\ ~escaped
  /\ escaped' = TRUE
  /\ UNCHANGED <<phase, ring, printed, outcome, optedIn, message>>

ReadEscaped(c) ==
  /\ phase = "reading" /\ escaped
  /\ escaped' = (c # Em)
  /\ UNCHANGED <<phase, ring, printed, outcome, optedIn, message>>

(* The settings tab writes the configuration file, or is interrupted. *)
Configure ==
  /\ phase = "reading"
  /\ optedIn' \in {"yes", "no", "unreadable"}
  /\ UNCHANGED <<phase, ring, escaped, printed, outcome, message>>

(* The program ends, in the middle of an escape sequence perhaps, and the pipe
   with it.  A program that was not started has printed why. *)
ProgramEnds ==
  /\ phase = "reading"
  /\ outcome' \in Outcomes
  /\ outcome'.code = NO_START_VAL => printed # <<>>
  /\ phase' = "ended"
  /\ UNCHANGED <<ring, escaped, printed, optedIn, message>>

(* The log file cannot be opened: the handler returns, and nobody reads what
   the program prints. *)
CannotLog ==
  /\ phase = "reading" /\ printed = <<>> /\ ~escaped
  /\ phase' = "returned"
  /\ UNCHANGED <<ring, escaped, printed, outcome, optedIn, message>>

-----------------------------------------------------------------------------
(* After waitpid.                                                          *)

(* The status is compared as waitpid gives it. *)
Crashed(o) == WaitStatus(o) \notin {NO_START_VAL, 0, 9}

(* The bytes from f_ptr up to b_ptr. *)
Filled == IF f_ptr <= b_ptr THEN b_ptr - f_ptr ELSE b_ptr + Size - f_ptr
Copied ==
  [k \in 1..Filled |->
     in_memory_log[IF f_ptr + k - 1 < Size THEN f_ptr + k - 1 ELSE f_ptr + k - 1 - Size]]

(* log_buf_final, a C string: a byte 0 in it is its end. *)
Message ==
  <<"MSG_START">> \o Copied \o
    IF f_ptr = b_ptr THEN <<"FAILED_START_MSG", "MSG_END">>
    ELSE IF in_memory_log[b_ptr] = Nul THEN <<>>
    ELSE <<in_memory_log[b_ptr], "MSG_END">>

(* No report: the program did not crash, nobody opted in, or read_config could
   not read whether. *)
Return ==
  /\ phase = "ended"
  /\ ~Crashed(outcome) \/ optedIn # "yes"
  /\ phase' = "returned"
  /\ UNCHANGED <<ring, escaped, printed, outcome, optedIn, message>>

(* send_webhook, with its timeouts; whether it arrives changes nothing. *)
Report ==
  /\ phase = "ended"
  /\ Crashed(outcome) /\ optedIn = "yes"
  /\ message' = Message
  /\ phase' = "returned"
  /\ UNCHANGED <<ring, escaped, printed, outcome, optedIn>>

-----------------------------------------------------------------------------
Next ==
  \/ \E c \in Plain : ReadByte(c) \/ ReadEscaped(c)
  \/ ReadNul \/ ReadEscape \/ Configure
  \/ ProgramEnds \/ CannotLog
  \/ Return \/ Report

Spec == Init /\ [][Next]_vars

-----------------------------------------------------------------------------
TypeOK ==
  /\ phase \in {"reading", "ended", "returned"}
  /\ in_memory_log \in [Indices -> Plain \cup {Nul}]
  /\ f_ptr \in Indices /\ b_ptr \in Indices
  /\ escaped \in BOOLEAN
  /\ printed \in Seq(Plain)
  /\ outcome \in Outcomes \cup {Running}
  /\ optedIn \in {"yes", "no", "unreadable"}

(* The last n bytes that were printed. *)
Kept == IF Len(printed) < Size THEN Len(printed) ELSE Size - 1
LastPrinted(n) == [k \in 1..n |-> printed[Len(printed) - n + k]]

(* Between its two indices the ring buffer has the last Size - 1 bytes that
   were printed, or all of them, in order, however often it went round. *)
BufferIsTail == Filled = Kept /\ Copied = LastPrinted(Kept)

(* A report begins with all of the buffer, whatever follows it: one more byte,
   which was overwritten or never written, and that cuts the end off if it is 0. *)
MessageHasTail ==
  message # None => SubSeq(message, 2, Kept + 1) = LastPrinted(Kept)

(* A report is sent only if the configuration file asks for it when the program
   ends, and never when it ended as it should or was killed with SIGKILL. *)
ReportIsDue ==
  message # None => /\ optedIn = "yes"
                    /\ outcome \notin {[by |-> "exit", code |-> 0],
                                       [by |-> "signal", code |-> 9]}

-----------------------------------------------------------------------------
(* The inductive invariant.  Behind BufferIsTail: where the k-th last byte is,
   and where the front is. *)
Cell(k) == IF k <= b_ptr THEN b_ptr - k ELSE b_ptr - k + Size

CellsInv ==
  /\ \A k \in 1..Size :
       k <= Len(printed) => in_memory_log[Cell(k)] = printed[Len(printed) - k + 1]
  /\ IF Len(printed) < Size THEN f_ptr = 0 /\ b_ptr = Len(printed)
                            ELSE f_ptr = After(b_ptr)

(* What was sent is what the handler would send now: nothing moves after it. *)
SentInv ==
  message # None => /\ phase = "returned" /\ message = Message
                    /\ Crashed(outcome) /\ optedIn = "yes"

(* Together they are preserved by every step of the handler. *)
IInv == TypeOK /\ CellsInv /\ SentInv
=============================================================================
