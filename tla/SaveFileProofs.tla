--------------------------- MODULE SaveFileProofs ---------------------------
(***************************************************************************)
(* Proofs about SaveFile: IInv is inductive, the properties that            *)
(* MCSaveFile checks follow from it, and SaveFile implements DurableCopy,   *)
(* for every number of operations and of faults.                            *)
(***************************************************************************)
EXTENDS SaveFile, TLAPS

(* Nothing is open and nothing is on the disk at first. *)
LEMMA InitInvariant == Init => IInv
<1> SUFFICES ASSUME Init PROVE IInv
  OBVIOUS
<1> USE ConstantsAssumption DEF ConstantsAssumption, Init
<1>1. TypeOK
  <2>1. object \in BOOLEAN /\ saved \in BOOLEAN /\ result \in BOOLEAN
    BY Zenon
  <2>2. QED BY <2>1 DEF TypeOK, PCs
<1>2. OpenWhileUsed /\ WritesMemory /\ SavedIsOnDisk
  BY DEF OpenWhileUsed, WritesMemory, SavedIsOnDisk
<1>3. CopyMoves /\ CopyAfterFault /\ CopiesAreOlder
  BY DEF CopyMoves, CopyAfterFault, CopiesAreOlder, Intact
<1>4. QED BY <1>1, <1>2, <1>3 DEF IInv

(* Every action of the application and every step of save_tourn preserves
   the inductive invariant. *)
LEMMA StepInvariant == IInv /\ [Next]_vars => IInv'
<1> USE ConstantsAssumption
    DEF ConstantsAssumption, IInv, TypeOK, PCs, OpenWhileUsed, WritesMemory, CopyMoves,
        CopyAfterFault, CopiesAreOlder, SavedIsOnDisk, Intact,
        disk, history, app, call
<1> SUFFICES ASSUME IInv, [Next]_vars PROVE IInv'
    OBVIOUS
<1>1. CASE Create           BY <1>1 DEF Create
<1>2. CASE Change
  <2>1. TypeOK' BY <1>2 DEF Change
  <2>2. OpenWhileUsed' BY <1>2 DEF Change
  <2>3. WritesMemory' BY <1>2 DEF Change
  <2>4. CopyMoves' BY <1>2 DEF Change
  <2>5. CopyAfterFault' BY <1>2 DEF Change
  <2>6. CopiesAreOlder' BY <1>2 DEF Change
  <2>7. SavedIsOnDisk' BY <1>2 DEF Change
  <2>8. QED BY <2>1, <2>2, <2>3, <2>4, <2>5, <2>6, <2>7
<1>3. CASE Resave           BY <1>3 DEF Resave
<1>4. CASE Load
  <2>1. TypeOK' BY <1>4 DEF Load
  <2>2. OpenWhileUsed' BY <1>4 DEF Load
  <2>3. WritesMemory' BY <1>4 DEF Load
  <2>4. CopyMoves' BY <1>4 DEF Load
  <2>5. CopyAfterFault' BY <1>4 DEF Load
  <2>6. CopiesAreOlder' BY <1>4 DEF Load
  <2>7. SavedIsOnDisk' BY <1>4 DEF Load
  <2>8. QED BY <2>1, <2>2, <2>3, <2>4, <2>5, <2>6, <2>7
<1>5. CASE LoadRefused      BY <1>5 DEF LoadRefused, vars
<1>6. CASE Close
  <2>1. TypeOK' BY <1>6 DEF Close
  <2>2. OpenWhileUsed' BY <1>6 DEF Close
  <2>3. WritesMemory' BY <1>6 DEF Close
  <2>4. CopyMoves' BY <1>6 DEF Close
  <2>5. CopyAfterFault' BY <1>6 DEF Close
  <2>6. CopiesAreOlder' BY <1>6 DEF Close
  <2>7. SavedIsOnDisk' BY <1>6 DEF Close
  <2>8. QED BY <2>1, <2>2, <2>3, <2>4, <2>5, <2>6, <2>7
<1>7. CASE Discard
  <2>1. TypeOK' BY <1>7 DEF Discard
  <2>2. OpenWhileUsed' BY <1>7 DEF Discard
  <2>3. WritesMemory' BY <1>7 DEF Discard
  <2>4. CopyMoves' BY <1>7 DEF Discard
  <2>5. CopyAfterFault' BY <1>7 DEF Discard
  <2>6. CopiesAreOlder' BY <1>7 DEF Discard
  <2>7. SavedIsOnDisk' BY <1>7 DEF Discard
  <2>8. QED BY <2>1, <2>2, <2>3, <2>4, <2>5, <2>6, <2>7
<1>8. CASE Exit
  <2>1. TypeOK' BY <1>8 DEF Exit
  <2>2. OpenWhileUsed' BY <1>8 DEF Exit
  <2>3. WritesMemory' BY <1>8 DEF Exit
  <2>4. CopyMoves' BY <1>8 DEF Exit
  <2>5. CopyAfterFault' BY <1>8 DEF Exit
  <2>6. CopiesAreOlder' BY <1>8 DEF Exit
  <2>7. SavedIsOnDisk' BY <1>8 DEF Exit
  <2>8. QED BY <2>1, <2>2, <2>3, <2>4, <2>5, <2>6, <2>7
<1>9. CASE RestoreBackup    BY <1>9 DEF RestoreBackup
<1>10. CASE BeginSave       BY <1>10 DEF BeginSave
<1>11. CASE RemoveBackup
  <2>1. TypeOK' BY <1>11 DEF RemoveBackup, Fault
  <2>2. OpenWhileUsed' BY <1>11 DEF RemoveBackup, Fault
  <2>3. WritesMemory' BY <1>11 DEF RemoveBackup, Fault
  <2>4. CopyMoves' BY <1>11 DEF RemoveBackup, Fault
  <2>5. CopyAfterFault' BY <1>11 DEF RemoveBackup, Fault
  <2>6. CopiesAreOlder' BY <1>11 DEF RemoveBackup, Fault
  <2>7. SavedIsOnDisk' BY <1>11 DEF RemoveBackup, Fault
  <2>8. QED BY <2>1, <2>2, <2>3, <2>4, <2>5, <2>6, <2>7
<1>12. CASE RenameToBackup
  <2>1. TypeOK' BY <1>12 DEF RenameToBackup, Fault
  <2>2. OpenWhileUsed' BY <1>12 DEF RenameToBackup, Fault
  <2>3. WritesMemory' BY <1>12 DEF RenameToBackup, Fault
  <2>4. CopyMoves' BY <1>12 DEF RenameToBackup, Fault
  <2>5. CopyAfterFault' BY <1>12 DEF RenameToBackup, Fault
  <2>6. CopiesAreOlder' BY <1>12 DEF RenameToBackup, Fault
  <2>7. SavedIsOnDisk' BY <1>12 DEF RenameToBackup, Fault
  <2>8. QED BY <2>1, <2>2, <2>3, <2>4, <2>5, <2>6, <2>7
<1>13. CASE Serialise
  <2>1. TypeOK'
    <3>1. memory' \in Nat \cup {NotOpen} /\ pc' \in PCs
            /\ caller' \in {"object", "new1", "new2"}
      BY <1>13 DEF Serialise, Fault
    <3>2. image' \in Nat \cup {Absent} /\ durable' \in Nat \cup {Absent} /\ faults' \in Nat
      BY <1>13 DEF Serialise, Fault
    <3>3. file' \in Nat \cup {Absent, Torn} /\ backup' \in Nat \cup {Absent, Torn}
      BY <1>13 DEF Serialise, Fault
    <3>4. object' \in BOOLEAN /\ saved' \in BOOLEAN /\ result' \in BOOLEAN
      BY <1>13, Zenon DEF Serialise, Fault
    <3>5. QED BY <3>1, <3>2, <3>3, <3>4
  <2>2. OpenWhileUsed' BY <1>13 DEF Serialise, Fault
  <2>3. WritesMemory' BY <1>13 DEF Serialise, Fault
  <2>4. CopyMoves' BY <1>13 DEF Serialise, Fault
  <2>5. CopyAfterFault' BY <1>13 DEF Serialise, Fault
  <2>6. CopiesAreOlder' BY <1>13 DEF Serialise, Fault
  <2>7. SavedIsOnDisk' BY <1>13 DEF Serialise, Fault
  <2>8. QED BY <2>1, <2>2, <2>3, <2>4, <2>5, <2>6, <2>7
<1>14. CASE OpenFile
  <2>1. TypeOK'
    <3>1. memory' \in Nat \cup {NotOpen} /\ pc' \in PCs
            /\ caller' \in {"object", "new1", "new2"}
      BY <1>14 DEF OpenFile, Fault
    <3>2. image' \in Nat \cup {Absent} /\ durable' \in Nat \cup {Absent} /\ faults' \in Nat
      BY <1>14 DEF OpenFile, Fault
    <3>3. file' \in Nat \cup {Absent, Torn} /\ backup' \in Nat \cup {Absent, Torn}
      BY <1>14 DEF OpenFile, Fault
    <3>4. object' \in BOOLEAN /\ saved' \in BOOLEAN /\ result' \in BOOLEAN
      BY <1>14, Zenon DEF OpenFile, Fault
    <3>5. QED BY <3>1, <3>2, <3>3, <3>4
  <2>2. OpenWhileUsed' BY <1>14 DEF OpenFile, Fault
  <2>3. WritesMemory' BY <1>14 DEF OpenFile, Fault
  <2>4. CopyMoves' BY <1>14 DEF OpenFile, Fault
  <2>5. CopyAfterFault' BY <1>14 DEF OpenFile, Fault
  <2>6. CopiesAreOlder' BY <1>14 DEF OpenFile, Fault
  <2>7. SavedIsOnDisk' BY <1>14 DEF OpenFile, Fault
  <2>8. QED BY <2>1, <2>2, <2>3, <2>4, <2>5, <2>6, <2>7
<1>15. CASE WriteData
  <2>1. TypeOK'
    <3>1. memory' \in Nat \cup {NotOpen} /\ pc' \in PCs
            /\ caller' \in {"object", "new1", "new2"}
      BY <1>15 DEF WriteData, Fault
    <3>2. image' \in Nat \cup {Absent} /\ durable' \in Nat \cup {Absent} /\ faults' \in Nat
      BY <1>15 DEF WriteData, Fault
    <3>3. file' \in Nat \cup {Absent, Torn} /\ backup' \in Nat \cup {Absent, Torn}
      BY <1>15 DEF WriteData, Fault
    <3>4. object' \in BOOLEAN /\ saved' \in BOOLEAN /\ result' \in BOOLEAN
      BY <1>15, Zenon DEF WriteData, Fault
    <3>5. QED BY <3>1, <3>2, <3>3, <3>4
  <2>2. OpenWhileUsed' BY <1>15 DEF WriteData, Fault
  <2>3. WritesMemory' BY <1>15 DEF WriteData, Fault
  <2>4. CopyMoves' BY <1>15 DEF WriteData, Fault
  <2>5. CopyAfterFault' BY <1>15 DEF WriteData, Fault
  <2>6. CopiesAreOlder' BY <1>15 DEF WriteData, Fault
  <2>7. SavedIsOnDisk' BY <1>15 DEF WriteData, Fault
  <2>8. QED BY <2>1, <2>2, <2>3, <2>4, <2>5, <2>6, <2>7
<1>16. CASE ReportToObject
  <2>1. TypeOK' BY <1>16 DEF ReportToObject
  <2>2. OpenWhileUsed' BY <1>16 DEF ReportToObject
  <2>3. WritesMemory' BY <1>16 DEF ReportToObject
  <2>4. CopyMoves' BY <1>16 DEF ReportToObject
  <2>5. CopyAfterFault' BY <1>16 DEF ReportToObject
  <2>6. CopiesAreOlder' BY <1>16 DEF ReportToObject
  <2>7. SavedIsOnDisk' BY <1>16 DEF ReportToObject
  <2>8. QED BY <2>1, <2>2, <2>3, <2>4, <2>5, <2>6, <2>7
<1>17. CASE ReportFirstSave BY <1>17 DEF ReportFirstSave
<1>18. CASE ReportSecondSave
  <2>1. TypeOK'
    <3>1. memory' \in Nat \cup {NotOpen} /\ pc' \in PCs
            /\ caller' \in {"object", "new1", "new2"}
      BY <1>18 DEF ReportSecondSave
    <3>2. image' \in Nat \cup {Absent} /\ durable' \in Nat \cup {Absent} /\ faults' \in Nat
      BY <1>18 DEF ReportSecondSave
    <3>3. file' \in Nat \cup {Absent, Torn} /\ backup' \in Nat \cup {Absent, Torn}
      BY <1>18 DEF ReportSecondSave
    <3>4. object' \in BOOLEAN /\ saved' \in BOOLEAN /\ result' \in BOOLEAN
      BY <1>18, Zenon DEF ReportSecondSave
    <3>5. QED BY <3>1, <3>2, <3>3, <3>4
  <2>2. OpenWhileUsed' BY <1>18 DEF ReportSecondSave
  <2>3. WritesMemory' BY <1>18 DEF ReportSecondSave
  <2>4. CopyMoves' BY <1>18 DEF ReportSecondSave
  <2>5. CopyAfterFault' BY <1>18 DEF ReportSecondSave
  <2>6. CopiesAreOlder' BY <1>18 DEF ReportSecondSave
  <2>7. SavedIsOnDisk' BY <1>18 DEF ReportSecondSave
  <2>8. QED BY <2>1, <2>2, <2>3, <2>4, <2>5, <2>6, <2>7
<1>19. CASE CreateFailed
  <2>1. TypeOK' BY <1>19 DEF CreateFailed
  <2>2. OpenWhileUsed' BY <1>19 DEF CreateFailed
  <2>3. WritesMemory' BY <1>19 DEF CreateFailed
  <2>4. CopyMoves' BY <1>19 DEF CreateFailed
  <2>5. CopyAfterFault' BY <1>19 DEF CreateFailed
  <2>6. CopiesAreOlder' BY <1>19 DEF CreateFailed
  <2>7. SavedIsOnDisk' BY <1>19 DEF CreateFailed
  <2>8. QED BY <2>1, <2>2, <2>3, <2>4, <2>5, <2>6, <2>7
<1>20. CASE Crash
  <2>1. TypeOK'
    <3>1. memory' \in Nat \cup {NotOpen} /\ pc' \in PCs
            /\ caller' \in {"object", "new1", "new2"}
      BY <1>20 DEF Crash, Fault
    <3>2. image' \in Nat \cup {Absent} /\ durable' \in Nat \cup {Absent} /\ faults' \in Nat
      BY <1>20 DEF Crash, Fault
    <3>3. file' \in Nat \cup {Absent, Torn} /\ backup' \in Nat \cup {Absent, Torn}
      BY <1>20 DEF Crash, Fault
    <3>4. object' \in BOOLEAN /\ saved' \in BOOLEAN /\ result' \in BOOLEAN
      BY <1>20, Zenon DEF Crash, Fault
    <3>5. QED BY <3>1, <3>2, <3>3, <3>4
  <2>2. OpenWhileUsed' BY <1>20 DEF Crash, Fault
  <2>3. WritesMemory' BY <1>20 DEF Crash, Fault
  <2>4. CopyMoves' BY <1>20 DEF Crash, Fault
  <2>5. CopyAfterFault' BY <1>20 DEF Crash, Fault
  <2>6. CopiesAreOlder' BY <1>20 DEF Crash, Fault
  <2>7. SavedIsOnDisk' BY <1>20 DEF Crash, Fault
  <2>8. QED BY <2>1, <2>2, <2>3, <2>4, <2>5, <2>6, <2>7
<1>21. CASE UNCHANGED vars  BY <1>21 DEF vars
<1>22. QED
  BY <1>1, <1>2, <1>3, <1>4, <1>5, <1>6, <1>7, <1>8, <1>9, <1>10, <1>11,
     <1>12, <1>13, <1>14, <1>15, <1>16, <1>17, <1>18, <1>19, <1>20, <1>21
     DEF Next, SaveStep

(* IInv holds in every reachable state. *)
THEOREM Invariant == Spec => []IInv
  BY InitInvariant, StepInvariant, PTL DEF Spec

(* Every variable of the save keeps its type, and so no tournament is ever
   opened from a file that does not parse. *)
THEOREM TypeCorrect == Spec => []TypeOK
  BY Invariant, PTL DEF IInv

(* Once an operation has returned with saved set, the file holds the
   version in the client. *)
THEOREM SavedIsTrue == Spec => []SavedIsOnDisk
  BY Invariant, PTL DEF IInv

(* The backup holds the last complete write whenever the file does not. *)
THEOREM CrashSafe == Spec => []CopyAtEveryStep
<1>1. IInv => CopyAtEveryStep
  BY DEF IInv, TypeOK, PCs, CopyMoves, CopyAtEveryStep
<1>2. QED BY <1>1, Invariant, PTL

(* One ignored error, failed write or crash leaves that copy on the disk. *)
THEOREM OneFaultSafe == Spec => []CopyAfterOneFault
<1>1. IInv => CopyAfterOneFault
  BY DEF IInv, TypeOK, CopyMoves, CopyAfterFault, CopyAfterOneFault
<1>2. QED BY <1>1, Invariant, PTL

-----------------------------------------------------------------------------
(* Refinement.  Each action is, for the newest copy on the disk, a step of
   DurableCopy or no step at all. *)

(* Actions that leave both files alone leave the newest copy alone. *)
LEMMA CopyUnchanged == UNCHANGED disk => UNCHANGED NewestCopy
  BY DEF disk, NewestCopy, Intact

(* Every step of SaveFile is, on the newest copy, one of DurableCopy's. *)
LEMMA StepRefines == IInv /\ [Next]_vars => [Copy!Next]_<<memory, NewestCopy, faults>>
<1> SUFFICES ASSUME IInv, [Next]_vars
             PROVE [Copy!Next]_<<memory, NewestCopy, faults>>
    OBVIOUS
<1> USE ConstantsAssumption, CopyUnchanged
    DEF ConstantsAssumption, IInv, TypeOK, PCs, disk, history, app, call
<1> DEFINE Stays == UNCHANGED <<memory, NewestCopy, faults>>
<1>1. CASE Create
  <2>1. Copy!Begin BY <1>1 DEF Create, Copy!Begin, NewestCopy, Intact
  <2>2. QED BY <2>1 DEF Copy!Next
<1>2. CASE Change
  <2>1. Copy!Edit BY <1>2 DEF Change, Copy!Edit, OpenWhileUsed
  <2>2. QED BY <2>1 DEF Copy!Next
<1>3. CASE Resave
  BY <1>3 DEF Resave
<1>4. CASE Load
  <2>1. Copy!Reopen BY <1>4 DEF Load, Copy!Reopen, NewestCopy, Intact
  <2>2. QED BY <2>1 DEF Copy!Next
<1>5. CASE LoadRefused
  BY <1>5 DEF LoadRefused, vars
<1>6. CASE Close
  <2>1. Copy!Leave BY <1>6 DEF Close, Copy!Leave
  <2>2. QED BY <2>1 DEF Copy!Next
<1>7. CASE Discard
  BY <1>7 DEF Discard
<1>8. CASE Exit
  <2>1. Copy!Leave BY <1>8 DEF Exit, Copy!Leave
  <2>2. QED BY <2>1 DEF Copy!Next
<1>9. CASE RestoreBackup
  <2>1. UNCHANGED NewestCopy BY <1>9 DEF RestoreBackup, NewestCopy, Intact
  <2>2. QED BY <1>9, <2>1 DEF RestoreBackup
<1>10. CASE BeginSave
  BY <1>10 DEF BeginSave
<1>11. CASE RemoveBackup
  <2>1. CASE backup' = Absent /\ UNCHANGED history
    <3>1. CASE Intact(file) \/ ~Intact(backup)
      <4>1. UNCHANGED NewestCopy BY <1>11, <2>1, <3>1 DEF RemoveBackup, NewestCopy, Intact
      <4>2. QED BY <1>11, <2>1, <4>1 DEF RemoveBackup
    <3>2. CASE ~Intact(file) /\ Intact(backup)
      <4>1. faults >= 1
        BY <1>11, <3>2 DEF RemoveBackup, CopyMoves, CopiesAreOlder, Intact
      <4>2. NewestCopy = backup /\ NewestCopy' = Absent
        BY <1>11, <2>1, <3>2 DEF RemoveBackup, NewestCopy, Intact
      <4>3. Copy!Lose
        BY <1>11, <2>1, <3>2, <4>1, <4>2 DEF RemoveBackup, Copy!Lose, OpenWhileUsed, Intact
      <4>4. QED BY <4>3 DEF Copy!Next
    <3>3. QED BY <3>1, <3>2
  <2>2. CASE UNCHANGED backup /\ Fault
    <3>1. Copy!Mishap BY <1>11, <2>2 DEF RemoveBackup, Fault, Copy!Mishap
    <3>2. QED BY <3>1 DEF Copy!Next
  <2>3. QED BY <1>11, <2>1, <2>2 DEF RemoveBackup
<1>12. CASE RenameToBackup
  <2>1. CASE file # Absent /\ backup' = file /\ file' = Absent /\ UNCHANGED history
    <3>1. CASE Intact(file) \/ ~Intact(backup)
      <4>1. UNCHANGED NewestCopy BY <2>1, <3>1 DEF NewestCopy, Intact
      <4>2. QED BY <1>12, <2>1, <4>1 DEF RenameToBackup
    <3>2. CASE ~Intact(file) /\ Intact(backup)
      <4>1. faults >= 1
        BY <1>12, <3>2 DEF RenameToBackup, CopyMoves, CopiesAreOlder, Intact
      <4>2. NewestCopy = backup /\ NewestCopy' = Absent
        BY <2>1, <3>2 DEF NewestCopy, Intact
      <4>3. Copy!Lose
        BY <1>12, <2>1, <3>2, <4>1, <4>2 DEF RenameToBackup, Copy!Lose, OpenWhileUsed, Intact
      <4>4. QED BY <4>3 DEF Copy!Next
    <3>3. QED BY <3>1, <3>2
  <2>2. CASE UNCHANGED <<disk, history>>
    BY <1>12, <2>2 DEF RenameToBackup
  <2>3. CASE UNCHANGED disk /\ Fault
    <3>1. Copy!Mishap BY <1>12, <2>3 DEF RenameToBackup, Fault, Copy!Mishap
    <3>2. QED BY <3>1 DEF Copy!Next
  <2>4. QED BY <1>12, <2>1, <2>2, <2>3 DEF RenameToBackup
<1>13. CASE Serialise
  <2>1. CASE Fault
    <3>1. Copy!Mishap BY <1>13, <2>1 DEF Serialise, Fault, Copy!Mishap
    <3>2. QED BY <3>1 DEF Copy!Next
  <2>2. CASE UNCHANGED history
    BY <1>13, <2>2 DEF Serialise
  <2>3. QED BY <1>13, <2>1, <2>2 DEF Serialise
<1>14. CASE OpenFile
  <2>1. CASE file' = Torn /\ UNCHANGED history
    <3>1. CASE Intact(file)
      <4>1. faults >= 1
        BY <1>14, <3>1 DEF OpenFile, CopyMoves, CopiesAreOlder, Intact
      <4>2. NewestCopy = file
        BY <3>1 DEF NewestCopy
      <4>3. NewestCopy' = Absent \/ (NewestCopy' = backup /\ Intact(backup))
        BY <1>14, <2>1 DEF OpenFile, NewestCopy, Intact
      <4>4. Copy!Lose \/ Stays
        BY <1>14, <2>1, <3>1, <4>1, <4>2, <4>3
           DEF OpenFile, Copy!Lose, OpenWhileUsed, CopiesAreOlder, Intact
      <4>5. QED BY <4>4 DEF Copy!Next
    <3>2. CASE ~Intact(file)
      <4>1. UNCHANGED NewestCopy BY <1>14, <2>1, <3>2 DEF OpenFile, NewestCopy, Intact
      <4>2. QED BY <1>14, <2>1, <4>1 DEF OpenFile
    <3>3. QED BY <3>1, <3>2
  <2>2. CASE UNCHANGED file /\ Fault
    <3>1. Copy!Mishap BY <1>14, <2>2 DEF OpenFile, Fault, Copy!Mishap
    <3>2. QED BY <3>1 DEF Copy!Next
  <2>3. QED BY <1>14, <2>1, <2>2 DEF OpenFile
<1>15. CASE WriteData
  <2>1. CASE file' = image /\ durable' = image /\ faults' = 0
    <3>1. NewestCopy' = memory
      BY <1>15, <2>1 DEF WriteData, NewestCopy, Intact, WritesMemory, OpenWhileUsed
    <3>2. Copy!Commit
      BY <1>15, <2>1, <3>1 DEF WriteData, Copy!Commit, OpenWhileUsed
    <3>3. QED BY <3>2 DEF Copy!Next
  <2>2. CASE UNCHANGED file /\ Fault
    <3>1. Copy!Mishap BY <1>15, <2>2 DEF WriteData, Fault, Copy!Mishap
    <3>2. QED BY <3>1 DEF Copy!Next
  <2>3. QED BY <1>15, <2>1, <2>2 DEF WriteData
<1>16. CASE ReportToObject
  BY <1>16 DEF ReportToObject
<1>17. CASE ReportFirstSave
  BY <1>17 DEF ReportFirstSave
<1>18. CASE ReportSecondSave
  <2>1. memory # NotOpen BY <1>18 DEF ReportSecondSave, OpenWhileUsed
  <2>2. Copy!Edit \/ Stays BY <1>18, <2>1 DEF ReportSecondSave, Copy!Edit
  <2>3. QED BY <2>2 DEF Copy!Next
<1>19. CASE CreateFailed
  <2>1. Copy!Leave BY <1>19 DEF CreateFailed, Copy!Leave
  <2>2. QED BY <2>1 DEF Copy!Next
<1>20. CASE Crash
  <2>1. Copy!Mishap BY <1>20 DEF Crash, Fault, Copy!Mishap
  <2>2. QED BY <2>1 DEF Copy!Next
<1>21. CASE UNCHANGED vars
  BY <1>21 DEF vars
<1>22. QED
  BY <1>1, <1>2, <1>3, <1>4, <1>5, <1>6, <1>7, <1>8, <1>9, <1>10, <1>11,
     <1>12, <1>13, <1>14, <1>15, <1>16, <1>17, <1>18, <1>19, <1>20, <1>21
     DEF Next, SaveStep

(* save_tourn, with its remove and rename whose errors are ignored, keeps the
   promise of DurableCopy for any number of operations and faults. *)
THEOREM Refinement == Spec => ImplementsDurableCopy
<1>1. Init => Copy!Init
  BY ConstantsAssumption DEF ConstantsAssumption, Init, Copy!Init, NewestCopy, Intact
<1>2. QED
  BY <1>1, Invariant, StepRefines, PTL DEF Spec, ImplementsDurableCopy, Copy!Spec
=============================================================================
