------------------------------ MODULE ToolsProofs ------------------------------
(***************************************************************************)
(* Proofs about what stands beside the tournaments, for a log buffer of    *)
(* every size, any settings and sequence of runs, any duration, clock and  *)
(* number of pauses, any coins and dice, and any cards: the crash handler, *)
(* the folder its program runs in, the pausable timer, the random number   *)
(* dialogues and the search for cards.                                     *)
(***************************************************************************)
EXTENDS CrashHandler, DataFolder, Timers, RandomTools, CardSearch, SequenceTheorems,
  FiniteSetTheorems, WellFoundedInduction, TLAPS

-----------------------------------------------------------------------------
(* CrashHandler: the log buffer and what is sent of it.                    *)

(* Before anything is printed the buffer is empty. *)
LEMMA HandlerInitInv == Init => IInv
<1> SUFFICES ASSUME Init PROVE IInv
  OBVIOUS
<1> USE ConstantsAssumption DEF Init
<1>1. printed \in Seq(Plain) /\ Len(printed) = 0
  OBVIOUS
<1>2. TypeOK
  <2>1. escaped \in BOOLEAN
    BY Zenon
  <2> QED  BY <1>1, <2>1 DEF TypeOK, Indices
<1>3. CellsInv
  BY <1>1 DEF CellsInv
<1>4. SentInv
  BY DEF SentInv
<1> QED  BY <1>2, <1>3, <1>4 DEF IInv

(* An index of the buffer is followed by another, and by a different one. *)
LEMMA AfterIsIndex ==
  ASSUME NEW k \in Indices
  PROVE  After(k) \in Indices /\ After(k) # k
BY ConstantsAssumption DEF After, Indices

(* Push moves both indices so that the last bytes stay between them: the case
   distinction is whether the buffer is filling, is just full, or goes round. *)
LEMMA PushPreserves ==
  ASSUME TypeOK, CellsInv, NEW c \in Plain, Push(c)
  PROVE  /\ in_memory_log' \in [Indices -> Plain \cup {Nul}]
         /\ f_ptr' \in Indices /\ b_ptr' \in Indices
         /\ printed' \in Seq(Plain)
         /\ CellsInv'
<1> USE ConstantsAssumption DEF TypeOK
<1>1. printed' \in Seq(Plain) /\ Len(printed') = Len(printed) + 1
  BY DEF Push
<1>2. b_ptr' = After(b_ptr) /\ b_ptr' \in Indices
  BY AfterIsIndex DEF Push
<1>3. f_ptr' \in Indices
  BY AfterIsIndex DEF Push
<1>4. in_memory_log' \in [Indices -> Plain \cup {Nul}]
  BY DEF Push
<1>5. \A k \in 1..Size :
        k <= Len(printed') => in_memory_log'[Cell(k)'] = printed'[Len(printed') - k + 1]
  <2> SUFFICES ASSUME NEW k \in 1..Size, k <= Len(printed) + 1
               PROVE  in_memory_log'[Cell(k)'] = printed'[Len(printed) + 1 - k + 1]
    BY <1>1
  <2>1. CASE k = 1
    <3>1. Cell(k)' = b_ptr
      BY <2>1, <1>2 DEF Cell, After, Indices
    <3> QED  BY <3>1, <2>1 DEF Push
  <2>2. CASE k # 1
    <3>1. Cell(k)' = Cell(k - 1) /\ Cell(k - 1) \in Indices /\ Cell(k - 1) # b_ptr
      BY <2>2, <1>2 DEF Cell, After, Indices
    <3>2. in_memory_log[Cell(k - 1)] = printed[Len(printed) - (k - 1) + 1]
      BY <2>2 DEF CellsInv
    <3>3. printed'[Len(printed) + 1 - k + 1] = printed[Len(printed) - (k - 1) + 1]
      <4>1. Len(printed) - (k - 1) + 1 \in 1..Len(printed)
        BY <2>2
      <4>2. \A n \in 1..Len(printed) : printed'[n] = printed[n]
        BY AppendProperties DEF Push
      <4> QED  BY <4>1, <4>2
    <3> QED  BY <3>1, <3>2, <3>3 DEF Push
  <2> QED  BY <2>1, <2>2
<1>6. IF Len(printed') < Size THEN f_ptr' = 0 /\ b_ptr' = Len(printed')
                              ELSE f_ptr' = After(b_ptr)'
  BY <1>1, <1>2 DEF CellsInv, Push, After, Indices
<1> QED  BY <1>1, <1>2, <1>3, <1>4, <1>5, <1>6 DEF CellsInv

(* Steps that leave the buffer and the output alone. *)
LEMMA StillPreserves ==
  ASSUME TypeOK, CellsInv, UNCHANGED <<ring, printed>>
  PROVE  /\ in_memory_log' \in [Indices -> Plain \cup {Nul}]
         /\ f_ptr' \in Indices /\ b_ptr' \in Indices
         /\ printed' \in Seq(Plain)
         /\ CellsInv'
BY DEF TypeOK, CellsInv, ring, Cell, After

(* Every step preserves the inductive invariant. *)
LEMMA HandlerStepInv == IInv /\ [Next]_vars => IInv'
<1> SUFFICES ASSUME IInv, [Next]_vars
             PROVE  IInv'
  OBVIOUS
<1> USE DEF IInv
<1>1. ASSUME NEW c \in Plain, ReadByte(c) PROVE IInv'
  <2>1. TypeOK' /\ CellsInv'
    BY <1>1, PushPreserves DEF ReadByte, TypeOK
  <2>2. SentInv'
    BY <1>1 DEF ReadByte, SentInv
  <2> QED  BY <2>1, <2>2
<1>2. ASSUME NEW c \in Plain, ReadEscaped(c) PROVE IInv'
  <2>1. escaped' \in BOOLEAN
    BY <1>2, Zenon DEF ReadEscaped
  <2>2. TypeOK' /\ CellsInv'
    BY <1>2, <2>1, StillPreserves DEF ReadEscaped, TypeOK
  <2>3. SentInv'
    BY <1>2 DEF ReadEscaped, SentInv
  <2> QED  BY <2>2, <2>3
<1>3. CASE ReadEscape
  <2>1. TypeOK' /\ CellsInv'
    BY <1>3, StillPreserves DEF ReadEscape, TypeOK
  <2>2. SentInv'
    BY <1>3 DEF ReadEscape, SentInv
  <2> QED  BY <2>1, <2>2
<1>4. CASE Configure
  <2>1. TypeOK' /\ CellsInv'
    BY <1>4, StillPreserves DEF Configure, TypeOK
  <2>2. SentInv'
    BY <1>4 DEF Configure, SentInv
  <2> QED  BY <2>1, <2>2
<1>5. CASE ProgramEnds
  <2>1. TypeOK' /\ CellsInv'
    BY <1>5, StillPreserves DEF ProgramEnds, TypeOK
  <2>2. SentInv'
    BY <1>5 DEF ProgramEnds, SentInv
  <2> QED  BY <2>1, <2>2
<1>6. CASE CannotLog
  <2>1. TypeOK' /\ CellsInv'
    BY <1>6, StillPreserves DEF CannotLog, TypeOK
  <2>2. SentInv'
    BY <1>6 DEF CannotLog, SentInv
  <2> QED  BY <2>1, <2>2
<1>7. CASE Return
  <2>1. TypeOK' /\ CellsInv'
    BY <1>7, StillPreserves DEF Return, TypeOK
  <2>2. SentInv'
    BY <1>7 DEF Return, SentInv
  <2> QED  BY <2>1, <2>2
<1>8. CASE Report
  <2>1. TypeOK' /\ CellsInv'
    BY <1>8, StillPreserves DEF Report, TypeOK
  <2>2. Message' = Message
    BY <1>8 DEF Report, Message, Copied, Filled, ring
  <2>3. SentInv'
    BY <1>8, <2>2 DEF Report, SentInv, Crashed
  <2> QED  BY <2>1, <2>3
<1>9. CASE UNCHANGED vars
  <2>1. UNCHANGED <<ring, printed>>
    BY <1>9 DEF vars, ring
  <2>2. TypeOK' /\ CellsInv'
    BY <1>9, <2>1, StillPreserves DEF vars, TypeOK
  <2>3. SentInv'
    BY <1>9 DEF vars, SentInv, Message, Copied, Filled, Crashed
  <2> QED  BY <2>2, <2>3
<1> QED
  BY <1>1, <1>2, <1>3, <1>4, <1>5, <1>6, <1>7, <1>8, <1>9 DEF Next, ReadNul

(* IInv holds in every state of the handler. *)
THEOREM HandlerInvariant == Spec => []IInv
BY HandlerInitInv, HandlerStepInv, PTL DEF Spec

(* Every variable keeps its type; the indices stay in the buffer. *)
THEOREM HandlerTypes == Spec => []TypeOK
BY HandlerInvariant, PTL DEF IInv

-----------------------------------------------------------------------------
(* What the invariant says of the bytes from the front to the back. *)
LEMMA TailFromCells == ASSUME TypeOK, CellsInv PROVE BufferIsTail
<1> USE ConstantsAssumption DEF TypeOK
<1>1. Filled = Kept /\ Kept \in 0..(Size - 1) /\ Kept <= Len(printed)
  BY DEF CellsInv, Filled, Kept, After, Indices
<1>2. ASSUME NEW k \in 1..Kept
      PROVE  in_memory_log[IF f_ptr + k - 1 < Size THEN f_ptr + k - 1
                                                   ELSE f_ptr + k - 1 - Size]
               = printed[Len(printed) - Kept + k]
  <2> DEFINE j == Kept - k + 1
  <2>1. j \in 1..Size /\ j <= Len(printed)
    BY <1>1
  <2>2. in_memory_log[Cell(j)] = printed[Len(printed) - j + 1]
    BY <2>1 DEF CellsInv
  <2>3. Len(printed) - j + 1 = Len(printed) - Kept + k
    BY <1>1
  <2>4. Cell(j) = IF f_ptr + k - 1 < Size THEN f_ptr + k - 1 ELSE f_ptr + k - 1 - Size
    BY <1>1 DEF Cell, CellsInv, Kept, After, Indices
  <2> QED  BY <2>2, <2>3, <2>4
<1> QED  BY <1>1, <1>2 DEF BufferIsTail, Copied, LastPrinted

(* However long the program runs and however large the buffer is, between its
   indices are the last bytes that were printed. *)
THEOREM BufferHoldsTail == Spec => []BufferIsTail
<1>1. IInv => BufferIsTail
  BY TailFromCells DEF IInv
<1> QED  BY <1>1, HandlerInvariant, PTL

(* Nothing is sent that was not asked for, nor after a clean end or SIGKILL. *)
THEOREM ReportsAreDue == Spec => []ReportIsDue
<1>1. IInv => ReportIsDue
  BY DEF IInv, SentInv, ReportIsDue, Crashed, WaitStatus
<1> QED  BY <1>1, HandlerInvariant, PTL

(* The part of a message before its end is the buffer, whatever stands there. *)
LEMMA MessageBegins ==
  ASSUME TypeOK, CellsInv
  PROVE  SubSeq(Message, 2, Kept + 1) = LastPrinted(Kept)
<1> USE ConstantsAssumption DEF TypeOK
<1> DEFINE Bytes == Plain \cup {Nul, "MSG_START", "FAILED_START_MSG", "MSG_END"}
           end == IF f_ptr = b_ptr THEN <<"FAILED_START_MSG", "MSG_END">>
                  ELSE IF in_memory_log[b_ptr] = Nul THEN <<>>
                  ELSE <<in_memory_log[b_ptr], "MSG_END">>
<1>1. Filled = Kept /\ Copied = LastPrinted(Kept) /\ Kept \in Nat
  BY TailFromCells DEF BufferIsTail, Kept
<1>2. Copied \in Seq(Bytes) /\ Len(Copied) = Kept
  <2>1. ASSUME NEW k \in 1..Kept
        PROVE  printed[Len(printed) - Kept + k] \in Bytes
    <3>1. Len(printed) - Kept + k \in 1..Len(printed)
      BY DEF Kept
    <3>2. printed[Len(printed) - Kept + k] \in Plain
      BY <3>1
    <3> QED  BY <3>2
  <2>2. LastPrinted(Kept) \in [1..Kept -> Bytes]
    BY <2>1 DEF LastPrinted
  <2> QED  BY <1>1, <2>2
<1>3. end \in Seq(Bytes)
  <2>1. in_memory_log[b_ptr] \in Bytes
    OBVIOUS
  <2>2. "MSG_END" \in Bytes /\ "FAILED_START_MSG" \in Bytes
    OBVIOUS
  <2> HIDE DEF Bytes
  <2>3. /\ <<"FAILED_START_MSG", "MSG_END">> \in Seq(Bytes)
        /\ <<>> \in Seq(Bytes)
        /\ <<in_memory_log[b_ptr], "MSG_END">> \in Seq(Bytes)
    BY <2>1, <2>2
  <2> QED  BY <2>3, Zenon
<1>4. Message = (<<"MSG_START">> \o Copied) \o end
  BY DEF Message
<1> HIDE DEF end, Bytes
<1>5. /\ <<"MSG_START">> \o Copied \in Seq(Bytes)
      /\ Len(<<"MSG_START">> \o Copied) = Kept + 1
      /\ \A k \in 1..Kept : (<<"MSG_START">> \o Copied)[k + 1] = Copied[k]
  <2>1. <<"MSG_START">> \in Seq(Bytes)
    BY DEF Bytes
  <2> QED  BY <1>1, <1>2, <2>1
<1> DEFINE head == <<"MSG_START">> \o Copied
<1> HIDE DEF head
<1>6. /\ Message \in Seq(Bytes) /\ Len(Message) >= Kept + 1
      /\ \A k \in 1..Kept : Message[k + 1] = Copied[k]
  <2>1. /\ head \in Seq(Bytes) /\ Len(head) = Kept + 1
        /\ \A k \in 1..Kept : head[k + 1] = Copied[k]
        /\ Message = head \o end
    BY <1>4, <1>5 DEF head
  <2> QED  BY <2>1, <1>1, <1>3
<1>7. /\ SubSeq(Message, 2, Kept + 1) \in Seq(Bytes)
      /\ Len(SubSeq(Message, 2, Kept + 1)) = Kept
      /\ \A k \in 1..Kept : SubSeq(Message, 2, Kept + 1)[k] = Message[k + 1]
  BY <1>1, <1>6
<1> QED  BY <1>1, <1>2, <1>6, <1>7, SeqEqual

(* Every report begins with all that the buffer has of the last output. *)
THEOREM MessagesHaveTail == Spec => []MessageHasTail
<1>1. IInv => MessageHasTail
  BY MessageBegins DEF IInv, SentInv, MessageHasTail
<1> QED  BY <1>1, HandlerInvariant, PTL

-----------------------------------------------------------------------------
(* DataFolder: the handler finds what the program saved last, and a run     *)
(* starts with what the last one in its folder ended with.                  *)

FolderTypeOK ==
  /\ exists \subseteq Folders
  /\ configFile \in [Folders -> UserSettings \cup {NoFile}]
  /\ cwd \in Folders
  /\ stage \in {"off", "handler", "on", "over"}
  /\ inMemory \in UserSettings /\ loaded \in UserSettings
  /\ before \in [Folders -> UserSettings \cup {NoFile}]

(* The file is as the program has the settings while it runs and when it is
   over; every other file, and between two runs each, is as the last run in its
   folder left it. *)
FileKept ==
  /\ stage \in {"on", "over"} => configFile[cwd] = inMemory
  /\ \A f \in Folders : stage \in {"off", "handler"} \/ f # cwd => configFile[f] = before[f]
  /\ stage = "on" => loaded = IF before[cwd] = NoFile THEN DefaultSettings ELSE before[cwd]

FolderInv == FolderTypeOK /\ FileKept

(* There was no run before the first one. *)
LEMMA InitFolder == FolderInit => FolderInv
  BY FolderAssumption
  DEF FolderAssumption, FolderInit, FolderInv, FolderTypeOK, FileKept, Folders

(* The handler changes the folder, and no file. *)
LEMMA StartHandlerInv == FolderInv /\ StartHandler => FolderInv'
<1> SUFFICES ASSUME FolderInv, StartHandler PROVE FolderInv'
  OBVIOUS
<1> USE DEF FolderInv, StartHandler, change_path
<1>1. FolderTypeOK'
  BY DEF FolderTypeOK, Folders
<1>2. FileKept'
  BY DEF FileKept
<1>3. QED BY <1>1, <1>2

(* The program reads the file of that folder, or writes it. *)
LEMMA StartProgramInv == FolderInv /\ StartProgram => FolderInv'
<1> SUFFICES ASSUME FolderInv, StartProgram PROVE FolderInv'
  OBVIOUS
<1> USE DEF FolderInv, StartProgram
<1>1. loaded' \in UserSettings
  BY FolderAssumption DEF FolderAssumption, FolderTypeOK
<1>2. FolderTypeOK'
  BY <1>1 DEF FolderTypeOK
<1>3. configFile'[cwd'] = inMemory'
  BY DEF FolderTypeOK
<1>4. loaded' = IF before[cwd] = NoFile THEN DefaultSettings ELSE before[cwd]
  BY DEF FileKept, FolderTypeOK
<1>5. \A f \in Folders : f # cwd => configFile'[f] = before[f]
  BY DEF FileKept, FolderTypeOK
<1>6. FileKept'
  BY <1>3, <1>4, <1>5 DEF FileKept
<1>7. QED BY <1>2, <1>6

(* What is saved is in the file too. *)
LEMMA SaveSettingsInv ==
  ASSUME FolderInv, NEW c \in UserSettings, SaveSettings(c)
  PROVE  FolderInv'
<1> USE DEF FolderInv, SaveSettings
<1>1. FolderTypeOK'
  BY DEF FolderTypeOK
<1>2. FileKept'
  BY DEF FileKept, FolderTypeOK
<1>3. QED BY <1>1, <1>2

(* A run that is over becomes the run before. *)
LEMMA ReturnsInv == FolderInv /\ HandlerReturns => FolderInv'
<1> SUFFICES ASSUME FolderInv, HandlerReturns PROVE FolderInv'
  OBVIOUS
<1> USE DEF FolderInv, HandlerReturns
<1>1. configFile[cwd] = inMemory /\ inMemory \in UserSettings
  BY DEF FileKept, FolderTypeOK
<1>2. FolderTypeOK'
  BY <1>1 DEF FolderTypeOK, Folders
<1>3. FileKept'
  BY <1>1 DEF FileKept, FolderTypeOK
<1>4. QED BY <1>2, <1>3

(* Every step of handler, program or another program preserves the invariant. *)
LEMMA FolderStep == FolderInv /\ [FolderNext]_folderVars => FolderInv'
<1> SUFFICES ASSUME FolderInv, [FolderNext]_folderVars PROVE FolderInv'
  OBVIOUS
<1>1. CASE ProgramOver
  BY <1>1 DEF ProgramOver, FolderInv, FolderTypeOK, FileKept
<1>2. CASE ConfigFolderMade
  BY <1>2 DEF ConfigFolderMade, FolderInv, FolderTypeOK, FileKept, Folders
<1>3. CASE UNCHANGED folderVars
  BY <1>3 DEF folderVars, FolderInv, FolderTypeOK, FileKept
<1>4. QED
  BY <1>1, <1>2, <1>3, StartHandlerInv, StartProgramInv, SaveSettingsInv, ReturnsInv
  DEF FolderNext

(* Handler and program share one file, and a run starts with the settings the last
   run in its folder ended with, for any settings and any runs elsewhere. *)
THEOREM SettingsStay == FolderSpec => []SettingsFollow
<1>1. FolderInv => SettingsFollow
  BY DEF FolderInv, FileKept, SettingsFollow
<1>2. QED BY <1>1, InitFolder, FolderStep, PTL DEF FolderSpec

-----------------------------------------------------------------------------
(* Timers: only the last pause of a timer is ever open.                    *)

(* A new timer has no pause. *)
LEMMA TimerInitInv == TimerInit => TimersInv
  <1> SUFFICES ASSUME TimerInit PROVE TimersInv
    OBVIOUS
  <1>0. interrupts \in Seq(Pauses) /\ now \in Nat
    BY TimersAssumption DEF TimerInit
  <1>1. TimersTypeOK
    BY <1>0 DEF TimerInit, TimersTypeOK
  <1>2. OnlyLastIsOpen
    BY DEF TimerInit, OnlyLastIsOpen
  <1>3. QED
    BY <1>1, <1>2 DEF TimersInv

(* pause_timer adds an open pause behind closed ones: the one before it was the
   last, and the guard saw that it was closed. *)
LEMMA PauseInv == TimersInv /\ pause_timer => TimersInv'
  <1> SUFFICES ASSUME TimersInv, pause_timer PROVE TimersInv'
    OBVIOUS
  <1> USE DEF TimersInv
  <1>0. interrupts \in Seq(Pauses) /\ now \in Nat
    BY DEF TimersTypeOK
  <1>1. [start |-> now, end |-> NO_END] \in Pauses
    BY <1>0 DEF Pauses
  <1>2. TimersTypeOK'
    BY <1>0, <1>1 DEF TimersTypeOK, pause_timer
  <1>3. Len(interrupts') = Len(interrupts) + 1
    BY <1>0, <1>1 DEF pause_timer
  <1>4. \A k \in DOMAIN interrupts : interrupts'[k] = interrupts[k]
    BY <1>0, <1>1 DEF pause_timer
  <1>5. ASSUME NEW k \in DOMAIN interrupts PROVE interrupts[k].end # NO_END
    <2>1. CASE k < Len(interrupts)
      BY <1>5, <2>1 DEF OnlyLastIsOpen
    <2>2. CASE k = Len(interrupts)
      <3>1. interrupts # <<>>
        BY <1>0, <1>5
      <3>2. Last(interrupts) = interrupts[k]
        BY <2>2 DEF Last
      <3>3. QED
        BY <3>1, <3>2 DEF pause_timer, Paused
    <2>3. QED
      BY <1>0, <1>5, <2>1, <2>2
  <1>6. \A k \in DOMAIN interrupts' : k < Len(interrupts') => interrupts'[k].end # NO_END
    BY <1>0, <1>3, <1>4, <1>5 DEF pause_timer
  <1>7. ~dangling'
    BY DEF pause_timer
  <1>8. QED
    BY <1>2, <1>6, <1>7 DEF OnlyLastIsOpen

(* resume_timer closes the last pause and touches no other. *)
LEMMA ResumeInv == TimersInv /\ resume_timer => TimersInv'
  <1> SUFFICES ASSUME TimersInv, resume_timer PROVE TimersInv'
    OBVIOUS
  <1> USE DEF TimersInv
  <1>0. interrupts \in Seq(Pauses) /\ now \in Nat
    BY DEF TimersTypeOK
  <1>1. Len(interrupts) \in DOMAIN interrupts
    BY <1>0 DEF resume_timer, Paused
  <1>2. interrupts[Len(interrupts)] \in Pauses
    BY <1>0, <1>1
  <1>3. [interrupts[Len(interrupts)] EXCEPT !.end = now] \in Pauses
    BY <1>0, <1>2 DEF Pauses
  <1>4. interrupts' \in Seq(Pauses)
    BY <1>0, <1>1, <1>3 DEF resume_timer
  <1>5. TimersTypeOK'
    BY <1>4 DEF TimersTypeOK, resume_timer
  <1>6. /\ DOMAIN interrupts' = DOMAIN interrupts
        /\ Len(interrupts') = Len(interrupts)
    BY <1>0 DEF resume_timer
  <1>7. \A k \in DOMAIN interrupts :
          k < Len(interrupts) => interrupts'[k] = interrupts[k]
    BY <1>0 DEF resume_timer
  <1>8. \A k \in DOMAIN interrupts' : k < Len(interrupts') => interrupts'[k].end # NO_END
    BY <1>6, <1>7 DEF OnlyLastIsOpen
  <1>9. ~dangling'
    BY DEF resume_timer
  <1>10. QED
    BY <1>5, <1>8, <1>9 DEF OnlyLastIsOpen

(* No other step touches the pauses; a failed allocation loses them only behind
   the guard that none is open. *)
LEMMA OtherInv ==
  TimersInv /\ (ClockMoves \/ PauseFails \/ ReadNull \/ free_timer \/ UNCHANGED timerVars)
    => TimersInv'
  <1> SUFFICES ASSUME TimersInv,
                      ClockMoves \/ PauseFails \/ ReadNull \/ free_timer \/ UNCHANGED timerVars
               PROVE  TimersInv'
    OBVIOUS
  <1> USE DEF TimersInv
  <1>1. interrupts' = interrupts
    BY DEF ClockMoves, PauseFails, ReadNull, free_timer, timerVars
  <1>2. now' \in Nat
    BY TimersAssumption
       DEF ClockMoves, PauseFails, ReadNull, free_timer, timerVars, TimersTypeOK
  <1>3. TimersTypeOK'
    BY <1>1, <1>2
       DEF ClockMoves, PauseFails, ReadNull, free_timer, timerVars, TimersTypeOK
  <1>4. dangling' => interrupts # <<>> /\ ~Paused
    BY DEF ClockMoves, PauseFails, ReadNull, free_timer, timerVars, OnlyLastIsOpen
  <1>5. QED
    BY <1>1, <1>3, <1>4 DEF OnlyLastIsOpen, Paused

(* Both together are inductive. *)
LEMMA TimersInductive == TimerSpec => []TimersInv
  <1>1. TimerInit => TimersInv
    BY TimerInitInv
  <1>2. TimersInv /\ [TimerNext]_timerVars => TimersInv'
    BY PauseInv, ResumeInv, OtherInv DEF TimerNext
  <1>3. QED
    BY <1>1, <1>2, PTL DEF TimerSpec

(* The types of Timers. *)
THEOREM TimerTypes == TimerSpec => []TimersTypeOK
  BY TimersInductive, PTL DEF TimersInv

(* pause_timer and resume_timer look at the last pause alone, and may: no other
   is ever open, and none is open when a failed allocation loses them. *)
THEOREM LastPauseDecides == TimerSpec => []OnlyLastIsOpen
  BY TimersInductive, PTL DEF TimersInv

-----------------------------------------------------------------------------
(* Sums, as the folds of the library add them up: f[T] for the T that are  *)
(* left, less one element each time.                                       *)

Pick(T) == CHOOSE x \in T : TRUE

(* Where f and g agree on all of T but one element they agree on T. *)
StepAlike(f, g, D) ==
  \A T \in SUBSET D :
    (T # {} => f[T \ {Pick(T)}] = g[T \ {Pick(T)}]) => f[T] = g[T]

(* A recursion of this kind has one solution when D is finite. *)
LEMMA SumUnique ==
  ASSUME NEW D, IsFiniteSet(D), NEW f, NEW g, StepAlike(f, g, D)
  PROVE  f[D] = g[D]
<1> DEFINE R == StrictSubsetOrdering(D)
           Bad == {T \in SUBSET D : f[T] # g[T]}
<1>1. IsWellFoundedOn(R, SUBSET D)
  BY FS_StrictSubsetOrderingWellFounded, FS_FiniteSubsetsOfFinite
<1>2. \A T, U \in SUBSET D : U \subseteq T /\ U # T => <<U, T>> \in R
  BY DEF StrictSubsetOrdering
<1> HIDE DEF R
<1>3. ASSUME Bad # {} PROVE FALSE
  <2>1. PICK T \in Bad : \A U \in Bad : ~(<<U, T>> \in R)
    BY <1>1, <1>3, WFMin
  <2>2. T \in SUBSET D /\ f[T] # g[T]
    OBVIOUS
  <2>3. T # {}
    <3>1. T = {} => f[T] = g[T]
      BY <2>2 DEF StepAlike
    <3>2. QED BY <2>2, <3>1
  <2>4. Pick(T) \in T
    BY <2>3 DEF Pick
  <2> DEFINE U == T \ {Pick(T)}
  <2>5. U \in SUBSET D /\ <<U, T>> \in R
    BY <1>2, <2>2, <2>4
  <2>6. f[U] = g[U]
    BY <2>1, <2>5
  <2>7. QED BY <2>2, <2>6 DEF StepAlike
<1>4. QED BY <1>3

-----------------------------------------------------------------------------
(* Timers: the seconds of the pauses, which time_left adds up.             *)

(* Of the pauses s, of which the last may still run at n. *)
Seconds(s, n) ==
  FoldSeq(LAMBDA k, sum : sum + (IF k.end = NO_END THEN n - k.start ELSE k.end - k.end), 0, s)

LEMMA TimeLeftIs == time_left = duration - now - start_time + Seconds(interrupts, now)
BY DEF time_left, Seconds, PausedFor

(* f[T] is the sum over the pauses at T. *)
Sums(f, s, n) ==
  f = [T \in SUBSET DOMAIN s |->
         IF T = {} THEN 0
         ELSE f[T \ {Pick(T)}]
                + (IF s[Pick(T)].end = NO_END THEN n - s[Pick(T)].start
                   ELSE s[Pick(T)].end - s[Pick(T)].end)]

LEMMA SecondsAre ==
  ASSUME NEW s, NEW n
  PROVE  Seconds(s, n) = (CHOOSE f : Sums(f, s, n))[DOMAIN s]
BY DEF Seconds, FoldSeq, FoldFunction, FoldFunctionOnSet, MapThenFoldSet, Sums, Pick

(* There is at most one such function. *)
LEMMA SumsUnique ==
  ASSUME NEW s, NEW n, IsFiniteSet(DOMAIN s), NEW f, NEW g, Sums(f, s, n), Sums(g, s, n)
  PROVE  f[DOMAIN s] = g[DOMAIN s]
<1> DEFINE D == DOMAIN s
<1>1. StepAlike(f, g, D)
  BY DEF Sums, StepAlike
<1>2. QED BY <1>1, SumUnique

(* Only a last pause that still runs counts. *)
LEMMA SecondsCount ==
  ASSUME NEW s \in Seq(Pauses), NEW n \in Nat,
         \A k \in DOMAIN s : k < Len(s) => s[k].end # NO_END
  PROVE  Seconds(s, n) = IF s # <<>> /\ Last(s).end = NO_END THEN n - Last(s).start ELSE 0
<1> DEFINE D == DOMAIN s
           open == s # <<>> /\ s[Len(s)].end = NO_END
           rest == n - s[Len(s)].start
           F == [T \in SUBSET D |-> IF open /\ Len(s) \in T THEN rest ELSE 0]
           term(x) == IF s[x].end = NO_END THEN n - s[x].start ELSE s[x].end - s[x].end
<1>1. Len(s) \in Nat /\ D = 1..Len(s) /\ (s # <<>> => Len(s) \in D) /\ \A x \in D : s[x] \in Pauses
  OBVIOUS
<1>2. \A x \in D : s[x].end = NO_END => open /\ x = Len(s)
  <2>1. ASSUME NEW x \in D, s[x].end = NO_END PROVE open /\ x = Len(s)
    <3>1. ~(x < Len(s)) /\ x \in Nat /\ x <= Len(s)
      BY <1>1, <2>1
    <3>2. x = Len(s)
      BY <1>1, <3>1
    <3>3. QED BY <1>1, <2>1, <3>2
  <2>2. QED BY <2>1
<1>3. open => rest \in Int
  BY <1>1 DEF Pauses
<1>4. \A x \in D : term(x) = IF open /\ x = Len(s) THEN rest ELSE 0
  <2>1. ASSUME NEW x \in D PROVE term(x) = IF open /\ x = Len(s) THEN rest ELSE 0
    <3>1. CASE s[x].end = NO_END
      BY <1>2, <2>1, <3>1
    <3>2. CASE s[x].end # NO_END
      <4>1. s[x].end \in Nat
        BY <1>1, <2>1, <3>2 DEF Pauses
      <4>2. ~(open /\ x = Len(s))
        BY <3>2
      <4>3. QED BY <3>2, <4>1, <4>2
    <3>3. QED BY <3>1, <3>2
  <2>2. QED BY <2>1
<1> HIDE DEF open, rest, term
<1>5. ASSUME NEW T \in SUBSET D
      PROVE  F[T] = IF T = {} THEN 0 ELSE F[T \ {Pick(T)}] + term(Pick(T))
  <2>1. CASE T = {}
    BY <2>1
  <2>2. CASE T # {}
    <3>1. PICK x : x = Pick(T)
      OBVIOUS
    <3>2. x \in T /\ x \in D /\ T \ {x} \in SUBSET D
      BY <2>2, <3>1 DEF Pick
    <3>3. F[T] = (IF open /\ Len(s) \in T THEN rest ELSE 0)
          /\ F[T \ {x}] = (IF open /\ Len(s) \in T \ {x} THEN rest ELSE 0)
          /\ term(x) = (IF open /\ x = Len(s) THEN rest ELSE 0)
      BY <1>4, <3>2
    <3> HIDE DEF F
    <3>4. F[T] = F[T \ {x}] + term(x)
      BY <1>3, <3>2, <3>3
    <3>5. QED BY <2>2, <3>1, <3>4
  <2>3. QED BY <2>1, <2>2
<1>6. Sums(F, s, n)
  <2>1. F = [T \in SUBSET D |-> F[T]]
    OBVIOUS
  <2> HIDE DEF F
  <2>2. [T \in SUBSET D |-> F[T]]
        = [T \in SUBSET D |-> IF T = {} THEN 0 ELSE F[T \ {Pick(T)}] + term(Pick(T))]
    BY <1>5
  <2>3. QED BY <2>1, <2>2 DEF Sums, term
<1>7. F[D] = IF open THEN rest ELSE 0
  BY <1>1 DEF open
<1> HIDE DEF F
<1> DEFINE g == CHOOSE f : Sums(f, s, n)
<1>8. Sums(g, s, n)
  BY <1>6
<1>9. Seconds(s, n) = g[D]
  BY SecondsAre
<1> HIDE DEF g
<1>10. IsFiniteSet(D)
  BY <1>1, FS_Interval
<1>11. Seconds(s, n) = F[D]
  BY <1>6, <1>8, <1>9, <1>10, SumsUnique
<1>12. QED BY <1>7, <1>11 DEF Last, open, rest

(* What time_left comes to. *)
LEMMA TimeLeftNow ==
  TimersInv =>
    /\ time_left = duration - now - start_time
                     + (IF Paused THEN now - Last(interrupts).start ELSE 0)
    /\ duration \in Int /\ start_time \in Int /\ now \in Int
    /\ Paused => Last(interrupts).start \in Int
<1> SUFFICES ASSUME TimersInv
             PROVE  /\ time_left = duration - now - start_time
                                     + (IF Paused THEN now - Last(interrupts).start ELSE 0)
                    /\ duration \in Int /\ start_time \in Int /\ now \in Int
                    /\ Paused => Last(interrupts).start \in Int
  OBVIOUS
<1>1. /\ duration \in Int /\ start_time \in Int
      /\ now \in Nat /\ interrupts \in Seq(Pauses)
      /\ \A k \in DOMAIN interrupts : k < Len(interrupts) => interrupts[k].end # NO_END
  BY TimersAssumption DEF TimersInv, TimersTypeOK, OnlyLastIsOpen, NOT_STARTED
<1>2. Seconds(interrupts, now) = IF Paused THEN now - Last(interrupts).start ELSE 0
  BY <1>1, SecondsCount DEF Paused
<1>3. Paused => Last(interrupts).start \in Int
  <2>1. interrupts # <<>> => Last(interrupts) \in Pauses
    BY <1>1 DEF Last
  <2>2. QED BY <2>1 DEF Paused, Pauses
<1>4. QED BY <1>1, <1>2, <1>3, TimeLeftIs

(* TimeLeftMoves: a timer's time stands while it is paused, falls with the
   clock while it runs, and falls by the whole pause when it is resumed. *)
THEOREM TimeFallsWithClock == TimerSpec => TimeLeftMoves
<1> DEFINE Moved == timerState' = "live" /\ ~dangling' =>
                      time_left' - time_left =
                        IF Paused /\ Paused' THEN 0
                        ELSE IF Paused THEN Last(interrupts).start - now
                        ELSE now - now'
           rest == IF Paused THEN now - Last(interrupts).start ELSE 0
           left == duration - now - start_time + rest
<1>1. ASSUME TimersInv, TimersInv', TimerNext PROVE Moved
  <2>1. /\ time_left = left
        /\ duration \in Int /\ start_time \in Int /\ now \in Int /\ interrupts \in Seq(Pauses)
        /\ Paused => Last(interrupts).start \in Int
    BY <1>1, TimeLeftNow DEF TimersInv, TimersTypeOK
  <2>2. (TimersInv =>
           /\ time_left = left
           /\ duration \in Int /\ start_time \in Int /\ now \in Int
           /\ Paused => Last(interrupts).start \in Int)'
    BY TimeLeftNow, PTL
  <2>3. /\ time_left' = left'
        /\ now' \in Int
        /\ Paused' => Last(interrupts)'.start \in Int
    BY <1>1, <2>2
  <2>4. CASE ClockMoves
    <3>1. /\ Paused' = Paused /\ Last(interrupts)' = Last(interrupts)
          /\ duration' = duration /\ start_time' = start_time
      BY <2>4 DEF ClockMoves, Paused
    <3>2. CASE Paused
      <4>1. /\ time_left = duration - now - start_time + (now - Last(interrupts).start)
            /\ Last(interrupts).start \in Int
            /\ duration \in Int /\ start_time \in Int /\ now \in Int /\ now' \in Int
        BY <2>1, <2>3, <3>2
      <4>2. time_left' = duration - now' - start_time + (now' - Last(interrupts).start)
        BY <2>3, <3>1, <3>2
      <4>3. time_left' - time_left = 0
        BY <4>1, <4>2
      <4>4. QED BY <3>1, <3>2, <4>3
    <3>3. CASE ~Paused
      <4>1. time_left = duration - now - start_time /\ time_left' = duration - now' - start_time
        BY <2>1, <2>3, <3>1, <3>3
      <4>2. duration \in Int /\ start_time \in Int /\ now \in Int /\ now' \in Int
        BY <2>1, <2>3
      <4>3. time_left' - time_left = now - now'
        BY <4>1, <4>2
      <4>4. QED BY <3>3, <4>3
    <3>4. QED BY <3>2, <3>3
  <2>5. CASE pause_timer
    <3>1. ~Paused /\ now' = now /\ duration' = duration /\ start_time' = start_time
      BY <2>5 DEF pause_timer
    <3>2. interrupts' # <<>> /\ Last(interrupts)' = [start |-> now, end |-> NO_END]
      BY <2>1, <2>5 DEF pause_timer, Last
    <3>3. Paused' /\ Last(interrupts)'.start = now
      BY <3>2 DEF Paused
    <3>4. QED BY <2>1, <2>3, <3>1, <3>3
  <2>6. CASE PauseFails
    <3>1. /\ ~Paused /\ Paused' = Paused
          /\ now' = now /\ duration' = duration /\ start_time' = start_time
      BY <2>6 DEF PauseFails, Paused
    <3>2. QED BY <2>1, <2>3, <3>1
  <2>7. CASE resume_timer
    <3>1. Paused /\ now' = now /\ duration' = duration /\ start_time' = start_time
      BY <2>7 DEF resume_timer
    <3>2. Last(interrupts)'.end = now
      <4>1. interrupts # <<>>
        BY <3>1 DEF Paused
      <4>2. /\ Len(interrupts') = Len(interrupts) /\ Len(interrupts) \in DOMAIN interrupts
            /\ interrupts[Len(interrupts)] \in Pauses
            /\ interrupts' = [interrupts EXCEPT ![Len(interrupts)].end = now]
        BY <2>1, <2>7, <4>1 DEF resume_timer
      <4>3. interrupts'[Len(interrupts)] = [interrupts[Len(interrupts)] EXCEPT !.end = now]
        BY <4>2
      <4>4. [interrupts[Len(interrupts)] EXCEPT !.end = now].end = now
        BY <4>2 DEF Pauses
      <4>5. QED BY <4>2, <4>3, <4>4 DEF Last
    <3>3. ~Paused'
      BY <1>1, <3>1, <3>2 DEF Paused, NO_END, TimersInv, TimersTypeOK
    <3>4. QED BY <2>1, <2>3, <3>1, <3>3
  <2>8. CASE ReadNull \/ free_timer
    BY <2>8 DEF ReadNull, free_timer
  <2>9. QED BY <1>1, <2>4, <2>5, <2>6, <2>7, <2>8 DEF TimerNext
<1>2. TimersInv /\ TimersInv' /\ [TimerNext]_timerVars => [Moved]_timerVars
  BY <1>1
<1>3. TimerSpec => [][TimerNext]_timerVars
  BY DEF TimerSpec
<1>4. QED BY <1>2, <1>3, TimersInductive, PTL DEF TimeLeftMoves

-----------------------------------------------------------------------------
(* RandomTools: heads among the coins, and what the dice came to.          *)

Totals(f, r) ==
  f = [T \in SUBSET DOMAIN r |-> IF T = {} THEN 0 ELSE r[Pick(T)] + f[T \ {Pick(T)}]]

(* The numbers of r add up to n. *)
Total(r, n) ==
  \E f \in [SUBSET DOMAIN r -> Nat] : Totals(f, r) /\ f[DOMAIN r] = n

LEMMA TotalIs ==
  ASSUME NEW r, NEW n, IsFiniteSet(DOMAIN r), Total(r, n)
  PROVE  MapThenSumSet(LAMBDA side : r[side], DOMAIN r) = n
<1> DEFINE g == CHOOSE f : Totals(f, r)
<1>1. MapThenSumSet(LAMBDA side : r[side], DOMAIN r) = g[DOMAIN r]
  BY DEF MapThenSumSet, MapThenFoldSet, Totals, Pick
<1>2. PICK f : Totals(f, r) /\ f[DOMAIN r] = n
  BY DEF Total
<1>3. Totals(g, r)
  BY <1>2
<1> HIDE DEF g
<1>4. StepAlike(f, g, DOMAIN r)
  BY <1>2, <1>3 DEF Totals, StepAlike
<1>5. QED BY <1>1, <1>2, <1>4, SumUnique

LEMMA TotalStarts ==
  ASSUME NEW D
  PROVE  Total([x \in D |-> 0], 0)
<1> DEFINE r == [x \in D |-> 0]
           f == [T \in SUBSET D |-> 0]
<1>1. \A T \in SUBSET D : T # {} => Pick(T) \in D
  BY DEF Pick
<1>2. Totals(f, r)
  BY <1>1 DEF Totals
<1>3. f \in [SUBSET DOMAIN r -> Nat] /\ f[DOMAIN r] = 0
  OBVIOUS
<1>4. QED BY <1>2, <1>3 DEF Total

(* One more of x is one more. *)
LEMMA TotalGrows ==
  ASSUME NEW D, NEW r \in [D -> Nat], NEW n, Total(r, n), NEW x \in D
  PROVE  Total([r EXCEPT ![x] = @ + 1], n + 1)
<1> DEFINE q == [r EXCEPT ![x] = @ + 1]
<1>1. PICK f \in [SUBSET D -> Nat] : Totals(f, r) /\ f[D] = n
  BY DEF Total
<1> DEFINE g == [T \in SUBSET D |-> IF x \in T THEN f[T] + 1 ELSE f[T]]
<1>2. /\ q \in [D -> Nat] /\ q[x] = r[x] + 1
      /\ \A y \in D : y # x => q[y] = r[y]
  OBVIOUS
<1>3. \A T \in SUBSET D : f[T] = IF T = {} THEN 0 ELSE r[Pick(T)] + f[T \ {Pick(T)}]
  BY <1>1 DEF Totals
<1>4. \A T \in SUBSET D : g[T] = IF x \in T THEN f[T] + 1 ELSE f[T]
  OBVIOUS
<1> HIDE DEF q, g
<1>5. ASSUME NEW T \in SUBSET D
      PROVE  g[T] = IF T = {} THEN 0 ELSE q[Pick(T)] + g[T \ {Pick(T)}]
  <2>1. CASE T = {}
    BY <1>3, <1>4, <2>1
  <2>2. CASE T # {}
    <3>1. PICK y : y = Pick(T)
      OBVIOUS
    <3>2. y \in T /\ y \in D /\ T \ {y} \in SUBSET D
      BY <2>2, <3>1 DEF Pick
    <3>3. f[T] = r[y] + f[T \ {y}]
      BY <1>3, <2>2, <3>1
    <3>4. f[T \ {y}] \in Nat /\ r[y] \in Nat /\ r[x] \in Nat
      BY <3>2
    <3>5. /\ g[T] = IF x \in T THEN f[T] + 1 ELSE f[T]
          /\ g[T \ {y}] = IF x \in T \ {y} THEN f[T \ {y}] + 1 ELSE f[T \ {y}]
      BY <1>4, <3>2
    <3>6. g[T] = q[y] + g[T \ {y}]
      BY <1>2, <3>2, <3>3, <3>4, <3>5
    <3>7. QED BY <2>2, <3>1, <3>6
  <2>3. QED BY <2>1, <2>2
<1>6. g \in [SUBSET D -> Nat] /\ g = [T \in SUBSET D |-> g[T]]
  BY DEF g
<1>7. Totals(g, q)
  <2>1. DOMAIN q = D
    BY <1>2
  <2>2. [T \in SUBSET D |-> g[T]]
        = [T \in SUBSET D |-> IF T = {} THEN 0 ELSE q[Pick(T)] + g[T \ {Pick(T)}]]
    BY <1>5
  <2>3. QED BY <1>6, <2>1, <2>2 DEF Totals
<1>8. g[D] = n + 1
  BY <1>1, <1>4
<1>9. Total(q, n + 1)
  BY <1>2, <1>6, <1>7, <1>8 DEF Total
<1>10. QED BY <1>9 DEF q

(* A word has no more than W bits, and what a shift leaves of it is less. *)
LEMMA BitsCount ==
  ASSUME NEW t \in Words
  PROVE  /\ Cardinality(t) \in 0..W
         /\ \A n \in Nat : Cardinality(ShiftedLeft(t, n)) \in 0..(W - (n % W))
<1>1. IsFiniteSet(Bits) /\ Cardinality(Bits) = W
  BY RandomAssumption, FS_Interval DEF Bits
<1>2. IsFiniteSet(t) /\ Cardinality(t) \in 0..W
  BY <1>1, FS_Subset, FS_CardinalityType, RandomAssumption DEF Words
<1>3. ASSUME NEW n \in Nat PROVE Cardinality(ShiftedLeft(t, n)) \in 0..(W - (n % W))
  <2> DEFINE d == n % W
             High == d..(W - 1)
  <2>1. d \in 0..(W - 1)
    BY RandomAssumption
  <2>2. ShiftedLeft(t, n) \subseteq High
    BY <2>1 DEF ShiftedLeft, Words, Bits
  <2> HIDE DEF d
  <2>3. IsFiniteSet(High) /\ Cardinality(High) = W - d
    <3>1. W \in Int /\ W - 1 \in Int /\ d \in Int /\ d <= W - 1
      BY <2>1, RandomAssumption
    <3>2. QED BY <3>1, FS_Interval
  <2> HIDE DEF High
  <2>4. Cardinality(ShiftedLeft(t, n)) \in 0..(W - d)
    BY <2>1, <2>2, <2>3, FS_Subset, FS_CardinalityType, RandomAssumption
  <2>5. QED BY <2>4 DEF d
<1>4. QED BY <1>2, <1>3

(* Every word before this one was whole, and gave at most W heads. *)
FlipsInv ==
  tool \in {"coins", "krark"} =>
    /\ asked[1] \in Nat
    /\ \E k \in Nat \ {0} :
         i = k * W /\ (k - 1) * W <= asked[1] /\ count \in 0..((k - 1) * W)

(* The dice rolled so far are the i of them, and of the first one side came up. *)
DiceInv ==
  tool = "dice" =>
    /\ asked[1] \in Nat /\ asked[2] \in Nat \ {0} /\ i \in 0..asked[2]
    /\ results \in [1..asked[1] -> 0..i]
    /\ Total(results, i)
    /\ i = 1 => \E side \in 1..asked[1] :
                  /\ results[side] = 1
                  /\ \A other \in 1..asked[1] : other # side => results[other] = 0

(* What every step preserves: nothing is shown while something is drawn. *)
RandomInv ==
  /\ tool \in {"none", "coins", "krark", "dice"}
  /\ FlipsInv /\ DiceInv
  /\ tool # "none" => shown = Nothing
  /\ ResultsAreTrue

LEMMA NothingIsTrue == shown = Nothing => ResultsAreTrue
  BY DEF Nothing, ResultsAreTrue

LEMMA NothingIsTrueNext == shown' = Nothing => ResultsAreTrue'
<1>1. (shown = Nothing => ResultsAreTrue)'
  BY NothingIsTrue, PTL
<1>2. QED BY <1>1 DEF Nothing

LEMMA InitRandom == RandomInit => RandomInv
<1> SUFFICES ASSUME RandomInit PROVE RandomInv
  OBVIOUS
<1>1. tool = "none" /\ shown = Nothing
  BY DEF RandomInit
<1>2. QED BY <1>1, NothingIsTrue DEF RandomInv, FlipsInv, DiceInv

LEMMA StartCoinsInv ==
  ASSUME NEW coins \in 1..MaxCoins, NEW krark \in BOOLEAN, StartCoins(coins, krark)
  PROVE  RandomInv'
<1>1. /\ tool' \in {"coins", "krark"} /\ asked'[1] = coins
      /\ i' = W /\ count' = 0 /\ shown' = Nothing
  BY DEF StartCoins
<1>2. FlipsInv'
  <2>1. i' = 1 * W /\ (1 - 1) * W = 0 /\ coins \in Nat
    BY <1>1, RandomAssumption
  <2>2. /\ 1 \in Nat \ {0} /\ i' = 1 * W
        /\ (1 - 1) * W <= asked'[1] /\ count' \in 0..((1 - 1) * W)
    BY <1>1, <2>1
  <2>3. QED BY <1>1, <2>1, <2>2 DEF FlipsInv
<1>3. QED BY <1>1, <1>2, NothingIsTrueNext DEF RandomInv, DiceInv

LEMMA FlippedIsWord == Flipped \subseteq Words
  BY DEF Flipped, Words

LEMMA FlipWordInv == RandomInv /\ FlipWord => RandomInv'
<1> SUFFICES ASSUME RandomInv, FlipWord PROVE RandomInv'
  OBVIOUS
<1>1. /\ tool \in {"coins", "krark"} /\ i <= asked[1] /\ i' = i + W
      /\ tool' = tool /\ asked' = asked /\ shown' = shown /\ shown = Nothing
      /\ asked[1] \in Nat
  BY DEF FlipWord, RandomInv, FlipsInv
<1>2. PICK t \in Words : count' = count + Cardinality(t)
  BY FlippedIsWord DEF FlipWord
<1>3. PICK k \in Nat \ {0} : i = k * W /\ count \in 0..((k - 1) * W)
  BY <1>1 DEF RandomInv, FlipsInv
<1>4. Cardinality(t) \in 0..W
  BY BitsCount
<1>5. /\ (k + 1) * W = k * W + W /\ (k - 1) * W = k * W - W
      /\ k * W \in Nat /\ (k + 1) - 1 = k
  BY RandomAssumption
<1>6. i' = (k + 1) * W /\ ((k + 1) - 1) * W <= asked'[1] /\ count' \in 0..(((k + 1) - 1) * W)
  <2> DEFINE kw == k * W
  <2>1. /\ kw \in Nat /\ i = kw /\ count \in 0..(kw - W) /\ (k + 1) * W = kw + W
        /\ ((k + 1) - 1) * W = kw
    BY <1>3, <1>5
  <2> HIDE DEF kw
  <2>2. count' \in 0..kw /\ i' = kw + W /\ kw <= asked'[1]
    BY <1>1, <1>2, <1>4, <2>1, RandomAssumption
  <2>3. QED BY <2>1, <2>2
<1>7. FlipsInv'
  <2>1. k + 1 \in Nat \ {0}
    OBVIOUS
  <2>2. QED BY <1>1, <1>6, <2>1 DEF FlipsInv
<1>8. QED BY <1>1, <1>7, NothingIsTrueNext DEF RandomInv, DiceInv

LEMMA FlipRestInv == RandomInv /\ FlipRest => RandomInv'
<1> SUFFICES ASSUME RandomInv, FlipRest PROVE RandomInv'
  OBVIOUS
<1>1. /\ tool \in {"coins", "krark"} /\ i > asked[1] /\ tool' = "none" /\ asked[1] \in Nat
      /\ shown' = [kind |-> "heads", coins |-> asked[1], heads |-> count']
  BY DEF FlipRest, RandomInv, FlipsInv
<1>2. PICK t \in Words : count' = count + Cardinality(ShiftedLeft(t, W - asked[1] + i))
  BY FlippedIsWord DEF FlipRest
<1>3. PICK k \in Nat \ {0} :
        i = k * W /\ (k - 1) * W <= asked[1] /\ count \in 0..((k - 1) * W)
  BY <1>1 DEF RandomInv, FlipsInv
<1> DEFINE d == i - asked[1]
           n == W - asked[1] + i
           kept == Cardinality(ShiftedLeft(t, n))
<1>4. k * W \in Nat /\ (k - 1) * W = k * W - W /\ i \in Nat
  BY <1>3, RandomAssumption
<1>5. d \in 1..W /\ n \in Nat /\ n = W + d
  <2>1. W \in Nat /\ i = k * W /\ i - W <= asked[1]
    BY <1>3, <1>4, RandomAssumption
  <2>2. QED BY <1>1, <1>4, <2>1
<1>6. kept \in 0..(W - (n % W))
  BY <1>5, BitsCount
<1>7. count \in 0..(i - W)
  BY <1>3, <1>4
<1> HIDE DEF d, n, kept
<1>8. count' = count + kept
  BY <1>2 DEF kept, n
<1>9. count' <= asked[1] + (IF asked[1] % W = 0 THEN W ELSE 0)
  <2>1. CASE d = W
    <3>1. asked[1] = (k - 1) * W /\ k - 1 \in Nat
      BY <1>1, <1>3, <1>4, <2>1, RandomAssumption DEF d
    <3>2. ((k - 1) * W) % W = 0
      BY <3>1, RandomAssumption
    <3>3. n % W \in Nat
      BY <1>5, RandomAssumption
    <3>4. count' <= asked[1] + W
      BY <1>1, <1>4, <1>5, <1>6, <1>7, <1>8, <2>1, <3>3, RandomAssumption DEF d
    <3>5. QED BY <3>1, <3>2, <3>4
  <2>2. CASE d # W
    <3>1. n % W = d
      BY <1>5, <2>2, RandomAssumption
    <3>2. count' <= asked[1]
      BY <1>1, <1>4, <1>5, <1>6, <1>7, <1>8, <3>1, RandomAssumption DEF d
    <3>3. count' \in Int
      BY <1>4, <1>5, <1>6, <1>7, <1>8, <3>1, RandomAssumption
    <3>4. QED BY <1>1, <3>2, <3>3, RandomAssumption
  <2>3. QED BY <2>1, <2>2
<1>10. ResultsAreTrue'
  BY <1>1, <1>9 DEF ResultsAreTrue
<1>11. QED BY <1>1, <1>10 DEF RandomInv, FlipsInv, DiceInv

LEMMA StartDiceInv ==
  ASSUME NEW sides \in 2..MaxSides, NEW number \in 1..MaxDice,
         RandomInv, StartDice(sides, number)
  PROVE  RandomInv'
<1>1. /\ tool = "none" /\ shown' = Nothing
      /\ asked'[1] = sides /\ asked'[2] = number
  BY DEF StartDice
<1>2. CASE tool' = "dice" /\ results' = [side \in 1..sides |-> 0] /\ i' = 0
  <2>1. Total(results', 0)
    BY <1>2, TotalStarts
  <2>2. /\ asked'[1] \in Nat /\ asked'[2] \in Nat \ {0} /\ i' \in 0..asked'[2]
        /\ results' \in [1..asked'[1] -> 0..i']
    BY <1>1, <1>2
  <2>3. DiceInv'
    BY <1>2, <2>1, <2>2 DEF DiceInv, Total, Totals, Pick
  <2>4. QED BY <1>1, <1>2, <2>3, NothingIsTrueNext DEF RandomInv, FlipsInv
<1>3. CASE tool' = tool
  BY <1>1, <1>3, NothingIsTrueNext DEF RandomInv, FlipsInv, DiceInv
<1>4. QED BY <1>2, <1>3 DEF StartDice

LEMMA RollDieInv ==
  ASSUME RandomInv, tool = "dice", NEW side \in 1..asked[1], RollDie(side)
  PROVE  RandomInv'
<1>1. /\ asked[1] \in Nat /\ asked[2] \in Nat \ {0} /\ i \in 0..asked[2]
      /\ results \in [1..asked[1] -> 0..i] /\ Total(results, i) /\ shown = Nothing
  BY DEF RandomInv, DiceInv
<1>2. /\ i < asked[2] /\ i' = i + 1 /\ results' = [results EXCEPT ![side] = @ + 1]
      /\ tool' = tool /\ asked' = asked /\ shown' = shown
  BY DEF RollDie
<1>3. results' \in [1..asked[1] -> 0..i']
  BY <1>1, <1>2
<1>4. Total(results', i')
  <2>1. results \in [1..asked[1] -> Nat]
    BY <1>1
  <2>2. QED BY <1>1, <1>2, <2>1, TotalGrows
<1>5. ASSUME i' = 1
      PROVE  /\ results'[side] = 1
             /\ \A other \in 1..asked[1] : other # side => results'[other] = 0
  BY <1>1, <1>2, <1>5
<1>6. DiceInv'
  <2>1. Total(results, i)'
    BY <1>4 DEF Total, Totals
  <2>2. QED BY <1>1, <1>2, <1>3, <1>5, <2>1 DEF DiceInv
<1>7. QED BY <1>1, <1>2, <1>6, NothingIsTrueNext DEF RandomInv, FlipsInv

(* The width of a bar, of a number of dice that is no more than were rolled. *)
LEMMA ShareOf ==
  ASSUME NEW r \in Nat, NEW n \in Nat \ {0}, r <= n, 100 * r <= MaxInt
  PROVE  Percentage(r, n) = (100 * r) \div n
<1>1. (100 * r) % (2 * (MaxInt + 1)) = 100 * r
  BY RandomAssumption
<1>2. AsInt(100 * r) = 100 * r
  BY <1>1 DEF AsInt
<1>3. (100 * r) \div n \in 0..100
  OBVIOUS
<1>4. Quotient(100 * r, n) = (100 * r) \div n
  BY DEF Quotient
<1>5. QED BY <1>2, <1>3, <1>4 DEF Percentage, SetValue

(* ResultsAreTrue of several dice. *)
DiceAreTrue ==
  /\ shown.kind = "dice"
  /\ IsFiniteSet(DOMAIN shown.rolled) /\ Total(shown.rolled, shown.number)
  /\ \A side \in DOMAIN shown.rolled :
       100 * shown.rolled[side] <= MaxInt =>
         shown.bars[side] = (100 * shown.rolled[side]) \div shown.number

LEMMA DiceTrue == DiceAreTrue => ResultsAreTrue
<1> SUFFICES ASSUME DiceAreTrue PROVE ResultsAreTrue
  OBVIOUS
<1>1. MapThenSumSet(LAMBDA side : shown.rolled[side], DOMAIN shown.rolled) = shown.number
  BY TotalIs DEF DiceAreTrue
<1>2. QED BY <1>1 DEF DiceAreTrue, ResultsAreTrue

LEMMA ShowDiceInv == RandomInv /\ ShowDice => RandomInv'
<1> SUFFICES ASSUME RandomInv, ShowDice PROVE RandomInv'
  OBVIOUS
<1>1. /\ tool = "dice" /\ i = asked[2] /\ tool' = "none" /\ results' = results
      /\ asked[1] \in Nat /\ i \in Nat \ {0}
      /\ results \in [1..asked[1] -> 0..i] /\ Total(results, i)
  BY DEF ShowDice, RandomInv, DiceInv
<1>2. CASE asked[2] = 1
  <2>1. shown' = [kind |-> "die", side |-> FirstRolled]
    BY <1>2 DEF ShowDice
  <2>2. PICK side \in 1..asked[1] :
          /\ results[side] = 1
          /\ \A other \in 1..asked[1] : other # side => results[other] = 0
    BY <1>1, <1>2 DEF RandomInv, DiceInv
  <2>3. results[side] # 0 /\ \A other \in DOMAIN results : other < side => results[other] = 0
    BY <1>1, <2>2
  <2>4. FirstRolled \in DOMAIN results /\ results[FirstRolled] # 0
    BY <1>1, <2>3 DEF FirstRolled
  <2>5. results[FirstRolled] = 1
    BY <1>1, <2>2, <2>4
  <2>6. results'[shown'.side] = 1 /\ shown'.kind = "die"
    BY <1>1, <2>1, <2>5
  <2>7. ResultsAreTrue'
    BY <2>6 DEF ResultsAreTrue
  <2>8. QED BY <1>1, <2>7 DEF RandomInv, FlipsInv, DiceInv
<1>3. CASE asked[2] # 1
  <2> DEFINE bars == [side \in DOMAIN results |-> Percentage(results[side], asked[2])]
  <2>1. shown' = [kind |-> "dice", number |-> asked[2], rolled |-> results, bars |-> bars]
    BY <1>3 DEF ShowDice
  <2>2. /\ shown'.kind = "dice" /\ shown'.number = i
        /\ shown'.rolled = results /\ shown'.bars = bars
    BY <1>1, <2>1
  <2>3. IsFiniteSet(DOMAIN results)
    <3>1. DOMAIN results = 1..asked[1] /\ 1 \in Int /\ asked[1] \in Int
      BY <1>1
    <3>2. IsFiniteSet(1..asked[1])
      BY <3>1, FS_Interval
    <3>3. QED BY <3>1, <3>2
  <2>4. ASSUME NEW side \in DOMAIN results, 100 * results[side] <= MaxInt
        PROVE  bars[side] = (100 * results[side]) \div i
    <3>1. results[side] \in Nat /\ results[side] <= i
      BY <1>1
    <3>2. Percentage(results[side], i) = (100 * results[side]) \div i
      BY <1>1, <2>4, <3>1, ShareOf
    <3>3. QED BY <1>1, <3>2
  <2> HIDE DEF bars
  <2>5. (DiceAreTrue)'
    <3>1. Total(shown'.rolled, shown'.number)
      BY <1>1, <2>2
    <3>2. Total(shown.rolled, shown.number)'
      BY <3>1 DEF Total, Totals
    <3>3. IsFiniteSet(DOMAIN shown'.rolled)
      BY <2>2, <2>3
    <3>4. QED BY <2>2, <2>4, <3>2, <3>3 DEF DiceAreTrue
  <2>6. (DiceAreTrue => ResultsAreTrue)'
    BY DiceTrue, PTL
  <2>7. ResultsAreTrue'
    BY <2>5, <2>6
  <2>8. QED BY <1>1, <2>7 DEF RandomInv, FlipsInv, DiceInv
<1>4. QED BY <1>2, <1>3

LEMMA RandomStep == RandomInv /\ [RandomNext]_randomVars => RandomInv'
<1> SUFFICES ASSUME RandomInv, [RandomNext]_randomVars PROVE RandomInv'
  OBVIOUS
<1>1. CASE \E coins \in 1..MaxCoins, krark \in BOOLEAN : StartCoins(coins, krark)
  BY <1>1, StartCoinsInv
<1>2. CASE FlipWord
  BY <1>2, FlipWordInv
<1>3. CASE FlipRest
  BY <1>3, FlipRestInv
<1>4. CASE \E sides \in 2..MaxSides, number \in 1..MaxDice : StartDice(sides, number)
  BY <1>4, StartDiceInv
<1>5. CASE tool = "dice" /\ \E side \in 1..asked[1] : RollDie(side)
  BY <1>5, RollDieInv
<1>6. CASE ShowDice
  BY <1>6, ShowDiceInv
<1>7. CASE UNCHANGED randomVars
  <2>1. (RandomInv)' = RandomInv
    BY <1>7 DEF randomVars, RandomInv, FlipsInv, DiceInv, ResultsAreTrue, Total, Totals
  <2>2. QED BY <2>1
<1>8. QED BY <1>1, <1>2, <1>3, <1>4, <1>5, <1>6, <1>7 DEF RandomNext

(* ResultsAreTrue: what a random number dialogue shows is what was drawn, for
   words and ints of any width, any number of coins, and any dice. *)
THEOREM DrawnIsShown == RandomSpec => []ResultsAreTrue
<1>1. RandomInv => ResultsAreTrue
  BY DEF RandomInv
<1>2. QED BY <1>1, InitRandom, RandomStep, PTL DEF RandomSpec

-----------------------------------------------------------------------------
(* CardSearch: the view and the cards it draws.                            *)

CardTypeOK ==
  /\ result # NoResult => /\ result.cards \in Seq(Cards)
                          /\ result.sort_type \in SortTypes
  /\ ascending \in BOOLEAN
  /\ viewRows \in Nat /\ clicked \in -1..5

(* A result is in the order of the column that was clicked last, the largest
   first, as long as that column has an order of its own. *)
ResultSorted ==
  result # NoResult /\ clicked \in 0..3 =>
    \A j \in 1..(Len(result.cards) - 1) :
      Attribute[result.cards[j]][TypeOf(clicked)] >= Attribute[result.cards[j + 1]][TypeOf(clicked)]

CardInv ==
  /\ CardTypeOK /\ ResultSorted
  /\ result # NoResult => viewRows = Len(result.cards)

LEMMA InitCards == CardInit => CardInv
BY DEF CardInit, CardInv, CardTypeOK, ResultSorted

(* What mse_sort leaves is a sequence of cards in the order asked for. *)
LEMMA SortedCards ==
  ASSUME NEW cards \in Seq(Cards), NEW type, NEW s \in mse_sort(cards, type)
  PROVE  /\ s \in Seq(Cards)
         /\ \A j \in 1..(Len(s) - 1) : Attribute[s[j]][type] >= Attribute[s[j + 1]][type]
<1>1. cards \in Surjection(1..Len(cards), ToSet(cards))
  BY DEF Surjection, ToSet
<1>2. IsFiniteSet(ToSet(cards))
  BY <1>1, FS_Interval, FS_Surjection
<1>3. Cardinality(ToSet(cards)) \in Nat
  BY <1>2, FS_CardinalityType
<1>4. ToSet(cards) \subseteq Cards
  BY DEF ToSet
<1>5. s \in [1..Cardinality(ToSet(cards)) -> ToSet(cards)]
  BY DEF mse_sort, SetToSeqs
<1>6. s \in Seq(Cards)
  BY <1>3, <1>4, <1>5
<1>7. QED BY <1>6 DEF mse_sort

(* The columns and the orders they ask for. *)
LEMMA TypeOfColumn ==
  ASSUME CardTypeOK, NEW column \in 0..5, result # NoResult
  PROVE  TypeOf(column) \in SortTypes
BY DEF CardTypeOK, TypeOf, SortTypes

LEMMA SortCardsInv ==
  ASSUME CardInv, NEW column \in 0..5, NEW up \in BOOLEAN, SortCards(column, up)
  PROVE  CardInv'
<1> USE DEF CardInv, CardTypeOK
<1>1. CASE result = NoResult
  BY <1>1 DEF SortCards, rerender, ResultSorted
<1>2. CASE result # NoResult
  <2> DEFINE type == TypeOf(column)
  <2>1. PICK s \in mse_sort(result.cards, type) : result' = [cards |-> s, sort_type |-> type]
    BY <1>2 DEF SortCards
  <2>2. /\ s \in Seq(Cards)
        /\ \A j \in 1..(Len(s) - 1) : Attribute[s[j]][type] >= Attribute[s[j + 1]][type]
    BY <1>2, SortedCards
  <2>3. type \in SortTypes
    BY <1>2, TypeOfColumn
  <2>4. /\ clicked' = column /\ ascending' = up
        /\ viewRows' = IF result' = NoResult THEN 0 ELSE Len(s)
    BY <1>2, <2>1 DEF SortCards, rerender
  <2>5. CardTypeOK'
    <3>1. Len(s) \in Nat
      BY <2>2
    <3>2. QED BY <2>1, <2>2, <2>3, <2>4, <3>1
  <2>6. column \in 0..3 => TypeOf(clicked)' = type
    BY <2>4 DEF TypeOf
  <2>7. ResultSorted'
    <3>1. ASSUME column \in 0..3, NEW j \in 1..(Len(result'.cards) - 1)
          PROVE  Attribute[result'.cards[j]][TypeOf(clicked)'] >= Attribute[result'.cards[j + 1]][TypeOf(clicked)']
      <4>1. TypeOf(clicked)' = type /\ result'.cards = s
        BY <2>1, <2>6, <3>1
      <4>2. QED BY <2>2, <3>1, <4>1
    <3>2. QED BY <2>4, <3>1 DEF ResultSorted
  <2>8. QED BY <2>1, <2>4, <2>5, <2>7
<1>3. QED BY <1>1, <1>2

LEMMA QueryInv ==
  ASSUME CardInv, NEW q \in Queries, set_query(q)
  PROVE  CardInv'
<1> USE DEF CardInv, CardTypeOK
<1>1. PICK ty \in SortTypes : result' = [cards |-> Found[q], sort_type |-> ty]
  BY DEF set_query
<1>2. Found[q] \in Seq(Cards) /\ Len(Found[q]) \in Nat
  BY CardAssumption DEF CardAssumption
<1>3. clicked' = -1 /\ UNCHANGED ascending
      /\ viewRows' = IF result' = NoResult THEN 0 ELSE Len(Found[q])
  BY <1>1 DEF set_query, rerender
<1>4. QED BY <1>1, <1>2, <1>3 DEF ResultSorted

LEMMA CardStep == CardInv /\ [CardNext]_cardVars => CardInv'
<1> SUFFICES ASSUME CardInv, [CardNext]_cardVars PROVE CardInv'
  OBVIOUS
<1>1. CASE set_query_fails
  BY <1>1 DEF set_query_fails, CardInv, CardTypeOK, ResultSorted
<1>2. CASE UNCHANGED cardVars
  BY <1>2 DEF cardVars, CardInv, CardTypeOK, ResultSorted, TypeOf
<1>3. QED BY <1>1, <1>2, SortCardsInv, QueryInv DEF CardNext

LEMMA CardsInductive == CardSpec => []CardInv
BY InitCards, CardStep, PTL DEF CardSpec

(* RowsAreResult: data() never reads beyond the result, for any cards, queries
   and failures, although after one the view still has its old rows. *)
THEOREM RowsExist == CardSpec => []RowsAreResult
<1>1. ASSUME CardInv PROVE RowsAreResult
  <2>1. CardCount \in Nat
    BY <1>1 DEF CardInv, CardTypeOK, CardCount
  <2>2. viewRows # CardCount => result = NoResult
    BY <1>1 DEF CardInv, CardCount
  <2>3. ASSUME NEW row \in 0..(viewRows - 1)
        PROVE  Blank(row) \/ RowRead(row) \in 0..(CardCount - 1)
    BY <1>1, <2>1 DEF CardInv, CardTypeOK, Blank, RowRead
  <2>4. QED BY <2>2, <2>3 DEF RowsAreResult
<1>2. CardInv => RowsAreResult
  BY <1>1
<1>3. QED BY <1>2, CardsInductive, PTL

(* CellsAreSorted: after a click on one of the first four columns the view is
   in the order of what that column is sorted by, in the direction of its arrow,
   although the descending order is the one the cards are in. *)
THEOREM CellsInOrder == CardSpec => []CellsAreSorted
<1>1. ASSUME CardInv PROVE CellsAreSorted
  <2> DEFINE at(r) == Attribute[RowShown(r)]
                        [CASE clicked = 0 -> "name" [] clicked = 1 -> "cmc"
                           [] clicked = 2 -> "power" [] clicked = 3 -> "toughness"]
             n == Len(result.cards)
             key(j) == Attribute[result.cards[j]][TypeOf(clicked)]
  <2> SUFFICES ASSUME clicked \in 0..3, NEW row \in 0..(CardCount - 2)
               PROVE  IF ascending THEN at(row) <= at(row + 1) ELSE at(row) >= at(row + 1)
    BY DEF CellsAreSorted
  <2>1. result # NoResult /\ CardCount = n /\ n \in Nat /\ result.cards \in Seq(Cards)
    BY <1>1 DEF CardInv, CardTypeOK, CardCount
  <2>2. TypeOf(clicked) = CASE clicked = 0 -> "name" [] clicked = 1 -> "cmc"
                            [] clicked = 2 -> "power" [] clicked = 3 -> "toughness"
    BY DEF TypeOf
  <2>3. \A j \in 1..(n - 1) : key(j) >= key(j + 1)
    BY <1>1, <2>1 DEF CardInv, ResultSorted
  <2>4. TypeOf(clicked) \in SortTypes
    BY <1>1, <2>1, TypeOfColumn DEF CardInv
  <2>5. \A j \in 1..n : key(j) \in Int
    BY <2>1, <2>4, CardAssumption DEF CardAssumption
  <2>6. \A r : at(r) = key(RowRead(r) + 1)
    BY <2>2 DEF RowShown
  <2> HIDE DEF at, key, n
  <2>7. CASE ascending
    <3>1. /\ RowRead(row) + 1 = n - row /\ RowRead(row + 1) + 1 = n - row - 1
          /\ n - row - 1 \in 1..(n - 1) /\ (n - row - 1) + 1 = n - row
      BY <2>1, <2>7 DEF RowRead
    <3>2. key(n - row - 1) >= key(n - row) /\ key(n - row - 1) \in Int /\ key(n - row) \in Int
      BY <2>1, <2>3, <2>5, <3>1
    <3>3. at(row) = key(n - row) /\ at(row + 1) = key(n - row - 1)
      BY <2>6, <3>1
    <3>4. QED BY <2>7, <3>2, <3>3
  <2>8. CASE ~ascending
    <3>1. RowRead(row) + 1 = row + 1 /\ RowRead(row + 1) + 1 = row + 2 /\ row + 1 \in 1..(n - 1)
          /\ (row + 1) + 1 = row + 2
      BY <2>1, <2>8 DEF RowRead
    <3>2. key(row + 1) >= key(row + 2)
      BY <2>3, <3>1
    <3>3. at(row) = key(row + 1) /\ at(row + 1) = key(row + 2)
      BY <2>6, <3>1
    <3>4. QED BY <2>8, <3>2, <3>3
  <2>9. QED BY <2>7, <2>8
<1>2. CardInv => CellsAreSorted
  BY <1>1
<1>3. QED BY <1>2, CardsInductive, PTL
=============================================================================
