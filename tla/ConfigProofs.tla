----------------------------- MODULE ConfigProofs -----------------------------
(***************************************************************************)
(* Proofs about Config, for a recent list of every length and any number   *)
(* of tournaments, settings and settings tabs.                             *)
(***************************************************************************)
EXTENDS Config, TLAPS

(* The invariants that relate the list to the dashboard. *)
ListInv == RecentsAreShown /\ LatestAreKept /\ ListFits /\ StringsAreOwned

(* The two that relate the file to the rest. *)
FileInv == FileIsMemory /\ FileIsWhole

(* A function on 1..n is a sequence. *)
LEMMA FunctionIsSeq ==
  ASSUME NEW S, NEW n \in Nat, NEW f \in [1..n -> S]
  PROVE  f \in Seq(S) /\ Len(f) = n /\ DOMAIN f = 1..n
OBVIOUS

(* A sequence is a function on its indices. *)
LEMMA SeqIsFunction ==
  ASSUME NEW S, NEW s \in Seq(S)
  PROVE  s = [i \in 1..Len(s) |-> s[i]]
<1>1. s \in [1..Len(s) -> S]
  OBVIOUS
<1> QED  BY <1>1, Zenon

(* The empty list, with which most steps below begin or end. *)
LEMMA EmptySeqs ==
  <<>> \in Seq(Recents) /\ <<>> \in Seq(Entries) /\ Len(<<>>) = 0
OBVIOUS

(* What an elementwise copy of the paths of the list is. *)
LEMMA StoredIsFile ==
  ASSUME NEW s \in Settings, NEW rs \in Seq(Recents)
  PROVE  /\ Stored(s, rs) \in Files
         /\ Len(Stored(s, rs).recents) = Len(rs)
<1>1. Paths(rs) \in Seq(Tournaments) /\ Len(Paths(rs)) = Len(rs)
  <2>1. ASSUME NEW i \in 1..Len(rs) PROVE rs[i].path \in Tournaments
    <3>1. rs[i] \in Recents
      OBVIOUS
    <3> QED  BY <3>1 DEF Recents
  <2>2. Paths(rs) = [i \in 1..Len(rs) |-> rs[i].path]
    BY DEF Paths
  <2> QED  BY <2>1, <2>2
<1> QED  BY <1>1 DEF Stored, Files

-----------------------------------------------------------------------------
(* Before anything runs there is no list, no widget and no call. *)
LEMMA InitInvariant == Init => IInv
<1> SUFFICES ASSUME Init PROVE IInv
  OBVIOUS
<1> USE ConstantsAssumption DEF Init
<1>1. file \in {Absent, Torn} \cup Files
  <2>1. CASE file = Absent
    BY <2>1
  <2>2. ASSUME NEW s \in Settings, NEW n \in 0..MaxRead, NEW rs \in [1..n -> Tournaments],
               file = [settings |-> s, recents |-> rs]
        PROVE  file \in Files
    <3>1. rs \in Seq(Tournaments)
      OBVIOUS
    <3> QED  BY <2>2, <3>1 DEF Files
  <2> QED  BY <2>1, <2>2
<1>2. tabs \in [SettingTabs -> [open : BOOLEAN, form : Settings, changed : BOOLEAN]]
  BY DEF NoTabs, NoTab
<1>3. TypeOK
  <2>1. recents \in Seq(Recents) /\ entries \in Seq(Entries) /\ freed \subseteq DOMAIN entries
    OBVIOUS
  <2>2. leaving \in BOOLEAN /\ faults \in BOOLEAN /\ lag \in BOOLEAN /\ noMemory \in BOOLEAN
    BY Zenon
  <2>3. settings \in Settings /\ caller \in SettingTabs \cup Tournaments /\ cleared \in Nat
    OBVIOUS
  <2> QED  BY <1>1, <1>2, <2>1, <2>2, <2>3 DEF TypeOK
<1>4. CallInv
  BY <1>1 DEF CallInv
<1>5. ListInv
  BY DEF ListInv, RecentsAreShown, LatestAreKept, ListFits, StringsAreOwned, ListHasFreed
<1>6. FileInv
  BY DEF FileInv, FileIsMemory, FileIsWhole, Idle, Files
<1> QED  BY <1>3, <1>4, <1>5, <1>6 DEF IInv, ListInv, FileInv

(* Steps that leave the list and the dashboard alone. *)
LEMMA ListUntouched ==
  ASSUME ListInv, UNCHANGED <<recents, entries, freed, noMemory, cleared>>
  PROVE  ListInv'
BY DEF ListInv, RecentsAreShown, LatestAreKept, ListFits, StringsAreOwned, ListHasFreed, Offset

(* A list that is emptied is still the newest of what was added since, and has
   no string that was freed. *)
LEMMA ReplaceKeepsList ==
  ASSUME IInv, NEW s \in Settings, Replace(s), UNCHANGED entries
  PROVE  /\ settings' \in Settings /\ recents' = <<>>
         /\ freed' \subseteq DOMAIN entries' /\ noMemory' \in BOOLEAN
         /\ cleared' \in Nat /\ cleared' = Len(entries')
         /\ ListInv'
<1> USE DEF IInv, TypeOK, Replace
<1>1. freed' \subseteq DOMAIN entries'
  BY DEF AfterFree, RecentsAreShown
<1>2. noMemory' \in BOOLEAN
  BY Zenon
<1>3. ListInv'
  BY DEF ListInv, RecentsAreShown, LatestAreKept, ListFits, StringsAreOwned, ListHasFreed
<1> QED  BY <1>1, <1>2, <1>3

(* What add_recent_tourn frees before it allocates: the strings of as many of the
   oldest elements as are too many, and of no other element. *)
LEMMA DropFreesOldest ==
  ASSUME IInv, ~ListHasFreed
  PROVE  /\ Offset \in Nat /\ Offset <= Len(recents)
         /\ AfterFree(Dropped) \subseteq DOMAIN entries
         /\ \A i \in DOMAIN recents : recents[i].entry \in AfterFree(Dropped) <=> i <= Offset
<1> USE ConstantsAssumption DEF ConstantsAssumption, IInv, TypeOK, Max
<1>1. Offset \in Nat /\ Offset <= Len(recents)
  BY DEF Offset
<1>2. /\ Dropped \in Seq(Recents) /\ Len(Dropped) = Offset
      /\ \A i \in 1..Offset : Dropped[i] = recents[i]
  BY <1>1 DEF Dropped
<1>3. \A e : e \in AfterFree(Dropped) <=>
               e \in freed \/ \E i \in 1..Offset : e = recents[i].entry
  <2>1. DOMAIN Dropped = 1..Offset
    BY <1>1, <1>2
  <2> QED  BY <1>2, <2>1 DEF AfterFree
<1>4. \A i \in 1..Offset : i \in DOMAIN recents
  BY <1>1
<1>5. AfterFree(Dropped) \subseteq DOMAIN entries
  BY <1>3, <1>4 DEF RecentsAreShown
<1>6. ASSUME NEW i \in DOMAIN recents
      PROVE  recents[i].entry \in AfterFree(Dropped) <=> i <= Offset
  <2>1. recents[i].entry \notin freed
    BY DEF ListHasFreed
  <2>2. i <= Offset => recents[i].entry \in AfterFree(Dropped)
    BY <1>1, <1>3
  <2>3. ASSUME NEW k \in 1..Offset, recents[i].entry = recents[k].entry
        PROVE  i <= Offset
    <3>1. k \in DOMAIN recents /\ recents[k].entry \in Nat
      <4>1. k \in DOMAIN recents
        BY <1>4
      <4>2. recents[k] \in Recents
        BY <4>1
      <4> QED  BY <4>1, <4>2 DEF Recents
    <3>2. ~(k < i)
      BY <2>3, <3>1 DEF RecentsAreShown
    <3> QED  BY <1>1, <3>1, <3>2
  <2> QED  BY <1>3, <2>1, <2>2, <2>3
<1> QED  BY <1>1, <1>5, <1>6

(* add_recent_tourn: what it drops is the oldest, by as much as is too many. *)
LEMMA AddKeepsList ==
  ASSUME IInv, AddToList
  PROVE  /\ recents' \in Seq(Recents)
         /\ entries' \in Seq(Entries) /\ Len(entries') = Len(entries) + 1
         /\ freed' \subseteq DOMAIN entries'
         /\ ListInv'
<1> USE ConstantsAssumption DEF IInv, TypeOK, Max
<1> DEFINE n == Len(recents)
           new == [path |-> caller, entry |-> Len(entries) + 1]
<1>1. caller \in Tournaments
  BY DEF AddToList, CallInv
<1>2. /\ Offset \in 0..1 /\ Offset <= n
      /\ Offset = 0 <=> n < Max
      /\ Offset = 1 <=> n = Max
  BY DEF Offset, AddToList
<1>3. /\ Kept \in Seq(Recents) /\ Len(Kept) = n - Offset
      /\ \A i \in 1..(n - Offset) : Kept[i] = recents[i + Offset]
  BY <1>2 DEF Kept
<1>4. /\ ~ListHasFreed /\ freed' = AfterFree(Dropped)
      /\ AfterFree(Dropped) \subseteq DOMAIN entries
      /\ \A i \in 1..n : recents[i].entry \in AfterFree(Dropped) <=> i <= Offset
  BY DropFreesOldest DEF AddToList
<1>5. /\ recents' \in Seq(Recents) /\ Len(recents') = n - Offset + 1
      /\ \A i \in 1..(n - Offset) : recents'[i] = recents[i + Offset]
      /\ recents'[n - Offset + 1] = new
  <2>1. new \in Recents
    BY <1>1 DEF Recents
  <2>2. recents' = Append(Kept, new)
    BY DEF AddToList, Extended
  <2> HIDE DEF new
  <2> QED  BY <1>2, <1>3, <2>1, <2>2
<1>6. Len(recents') <= Max
  BY <1>2, <1>5
<1> DEFINE shown == Entry(caller, FALSE, TRUE)
<1>7. shown \in Entries /\ shown.path = caller /\ shown.listed
  BY <1>1 DEF Entry, Entries
<1>8. entries' = Append(entries, shown)
  BY DEF AddToList
<1> HIDE DEF shown
<1>9. /\ entries' \in Seq(Entries) /\ Len(entries') = Len(entries) + 1
      /\ \A j \in 1..Len(entries) : entries'[j] = entries[j]
      /\ entries'[Len(entries) + 1] = shown
  BY <1>7, <1>8
<1>10. freed' \subseteq DOMAIN entries'
  BY <1>4, <1>9
<1>11. /\ \A i \in 1..n : /\ recents[i].entry \in 1..Len(entries)
                          /\ entries[recents[i].entry].path = recents[i].path
      /\ \A i, j \in 1..n : i < j => recents[i].entry < recents[j].entry
  BY DEF RecentsAreShown
<1>12. \A i \in 1..(n - Offset) :
        /\ i + Offset \in 1..n
        /\ recents'[i].entry = recents[i + Offset].entry
        /\ recents'[i].path = recents[i + Offset].path
        /\ recents'[i].entry \in 1..Len(entries)
        /\ entries[recents'[i].entry].path = recents'[i].path
  <2> SUFFICES ASSUME NEW i \in 1..(n - Offset)
               PROVE  /\ i + Offset \in 1..n
                      /\ recents'[i].entry = recents[i + Offset].entry
                      /\ recents'[i].path = recents[i + Offset].path
                      /\ recents'[i].entry \in 1..Len(entries)
                      /\ entries[recents'[i].entry].path = recents'[i].path
    OBVIOUS
  <2>1. i + Offset \in 1..n
    BY <1>2
  <2>2. recents'[i] = recents[i + Offset]
    BY <1>5
  <2> QED  BY <2>1, <2>2, <1>11
<1>13. \A i, j \in 1..(n - Offset) : i < j => recents'[i].entry < recents'[j].entry
  <2> SUFFICES ASSUME NEW i \in 1..(n - Offset), NEW j \in 1..(n - Offset), i < j
               PROVE  recents'[i].entry < recents'[j].entry
    OBVIOUS
  <2>1. i + Offset \in 1..n /\ j + Offset \in 1..n /\ i + Offset < j + Offset
    BY <1>2
  <2> QED  BY <2>1, <1>11, <1>12
<1>14. recents'[n - Offset + 1].entry = Len(entries) + 1
  BY <1>5
<1>15. \A i \in 1..(n - Offset + 1) : i = n - Offset + 1 \/ i \in 1..(n - Offset)
  BY <1>2
<1>16. RecentsAreShown'
  <2>1. ASSUME NEW i \in 1..(n - Offset + 1)
        PROVE  /\ recents'[i].entry \in 1..(Len(entries) + 1)
               /\ entries'[recents'[i].entry].path = recents'[i].path
    <3>1. CASE i = n - Offset + 1
      BY <3>1, <1>5, <1>7, <1>9
    <3>2. CASE i # n - Offset + 1
      <4>1. i \in 1..(n - Offset)
        BY <3>2, <1>15
      <4>2. /\ recents'[i].entry \in 1..Len(entries)
            /\ entries[recents'[i].entry].path = recents'[i].path
        BY <4>1, <1>12
      <4>3. \A j \in 1..Len(entries) : entries'[j].path = entries[j].path
        BY <1>9
      <4> QED  BY <4>2, <4>3
    <3> QED  BY <3>1, <3>2
  <2>2. ASSUME NEW i \in 1..(n - Offset + 1), NEW j \in 1..(n - Offset + 1), i < j
        PROVE  recents'[i].entry < recents'[j].entry
    <3>1. i \in 1..(n - Offset)
      BY <2>2, <1>2
    <3>2. CASE j = n - Offset + 1
      BY <3>1, <3>2, <1>12, <1>14
    <3>3. CASE j # n - Offset + 1
      <4>1. j \in 1..(n - Offset)
        BY <3>3, <1>15
      <4> QED  BY <2>2, <3>1, <4>1, <1>13
    <3> QED  BY <3>2, <3>3
  <2> QED  BY <2>1, <2>2, <1>5, <1>9 DEF RecentsAreShown
<1>17. LatestAreKept'
  <2>0. DOMAIN entries' = 1..(Len(entries) + 1) /\ cleared' = cleared
    BY <1>9 DEF AddToList
  <2> SUFFICES ASSUME NEW j \in 1..(Len(entries) + 1), entries'[j].listed, j > cleared
               PROVE  \/ \E i \in DOMAIN recents' : recents'[i].entry = j
                      \/ Len(recents') = Max /\ \A i \in DOMAIN recents' : j < recents'[i].entry
    BY <2>0 DEF LatestAreKept
  <2>1. CASE j = Len(entries) + 1
    BY <2>1, <1>2, <1>5
  <2>2. CASE j # Len(entries) + 1
    <3>1. j \in 1..Len(entries) /\ entries[j].listed
      BY <2>2, <1>9
    <3>2. CASE \E i \in 1..n : recents[i].entry = j
      <4> PICK i \in 1..n : recents[i].entry = j
        BY <3>2
      <4>1. CASE i > Offset
        <5>1. i - Offset \in 1..(n - Offset) /\ recents'[i - Offset] = recents[i]
          BY <4>1, <1>2, <1>5
        <5> QED  BY <5>1, <1>5, <1>2
      <4>2. CASE i <= Offset
        <5>1. Offset = 1 /\ i = 1 /\ Len(recents') = Max
          BY <4>2, <1>2, <1>5
        <5>2. ASSUME NEW k \in 1..(n - Offset + 1) PROVE j < recents'[k].entry
          <6>1. CASE k = n - Offset + 1
            BY <6>1, <1>5, <3>1
          <6>2. CASE k # n - Offset + 1
            <7>1. k \in 1..(n - Offset) /\ 1 < k + Offset
              BY <6>2, <5>1
            <7>2. recents'[k].entry = recents[k + Offset].entry /\ k + Offset \in 1..n
              BY <7>1, <1>12
            <7> QED  BY <7>1, <7>2, <5>1, <1>11
          <6> QED  BY <6>1, <6>2
        <5> QED  BY <5>1, <5>2, <1>5
      <4> QED  BY <4>1, <4>2, <1>2
    <3>3. CASE n = Max /\ \A i \in 1..n : j < recents[i].entry
      <4>1. Offset = 1 /\ Len(recents') = Max
        BY <3>3, <1>2, <1>5
      <4>2. ASSUME NEW k \in 1..(n - Offset + 1) PROVE j < recents'[k].entry
        <5>1. CASE k = n - Offset + 1
          BY <5>1, <1>5, <3>1
        <5>2. CASE k # n - Offset + 1
          BY <5>2, <3>3, <4>1, <1>5
        <5> QED  BY <5>1, <5>2
      <4> QED  BY <4>1, <4>2, <1>5
    <3> QED  BY <3>1, <3>2, <3>3 DEF LatestAreKept
  <2> QED  BY <2>1, <2>2
<1>18. StringsAreOwned'
  <2>1. ASSUME NEW i \in 1..(n - Offset + 1) PROVE recents'[i].entry \notin freed'
    <3>1. CASE i = n - Offset + 1
      BY <3>1, <1>4, <1>14
    <3>2. CASE i # n - Offset + 1
      <4>1. i \in 1..(n - Offset) /\ ~(i + Offset <= Offset)
        BY <3>2, <1>2, <1>15
      <4> QED  BY <4>1, <1>4, <1>12
    <3> QED  BY <3>1, <3>2
  <2> QED  BY <2>1, <1>5 DEF StringsAreOwned, ListHasFreed
<1>19. ListFits'
  BY <1>6 DEF ListFits
<1> QED  BY <1>5, <1>9, <1>10, <1>16, <1>17, <1>18, <1>19 DEF ListInv

-----------------------------------------------------------------------------
(* Steps in which a process starts: the list and the dashboard are read from
   the file, or empty. *)
LEMMA StartPreserves ==
  ASSUME IInv, StartFromFile \/ StartAfresh
  PROVE  IInv'
<1> USE ConstantsAssumption DEF IInv, TypeOK
<1>1. CASE StartFromFile
  <2> DEFINE n == Len(file.recents)
             widget(i) == Entry(file.recents[i], TRUE, TRUE)
  <2>1. file \in Files /\ file.recents \in Seq(Tournaments) /\ n \in Nat
    BY <1>1 DEF StartFromFile, CallInv, Files
  <2>2. /\ running' = "yes" /\ settings' \in Settings /\ settings' = file.settings
        /\ recents' = [i \in 1..n |-> [path |-> file.recents[i], entry |-> i]]
        /\ entries' = [i \in 1..n |-> widget(i)]
        /\ cleared' = 0 /\ lag' = FALSE /\ faults' = FALSE
        /\ UNCHANGED <<file, tabs, pc, caller, leaving>> /\ freed' = {}
        /\ UNCHANGED noMemory /\ ~noMemory
    BY <1>1, <2>1 DEF StartFromFile, call, Files, CallInv
  <2>3. \A i \in 1..n : /\ widget(i) \in Entries
                        /\ widget(i).path = file.recents[i] /\ widget(i).loaded
    BY <2>1 DEF Entries, Entry
  <2>4. \A i \in 1..n : file.recents[i] \in Tournaments
    BY <2>1
  <2> HIDE DEF n, widget
  <2>5. /\ recents' \in Seq(Recents) /\ Len(recents') = n
        /\ \A i \in 1..n : recents'[i] = [path |-> file.recents[i], entry |-> i]
    <3>1. \A i \in 1..n : [path |-> file.recents[i], entry |-> i] \in Recents
      BY <2>1, <2>4 DEF Recents
    <3>2. recents' \in [1..n -> Recents]
      BY <2>2, <3>1
    <3>3. recents' \in Seq(Recents) /\ Len(recents') = n
      BY <2>1, <3>2, FunctionIsSeq
    <3> QED  BY <2>2, <3>3
  <2>6. /\ entries' \in Seq(Entries) /\ Len(entries') = n
        /\ \A i \in 1..n : entries'[i].path = file.recents[i] /\ entries'[i].loaded
    <3>1. entries' \in [1..n -> Entries]
      BY <2>2, <2>3
    <3>2. entries' \in Seq(Entries) /\ Len(entries') = n
      BY <2>1, <3>1, FunctionIsSeq
    <3> QED  BY <2>2, <2>3, <3>2
  <2>7. TypeOK'
    <3>1. noMemory' \in BOOLEAN
      BY <2>2
    <3> QED  BY <2>1, <2>2, <2>5, <2>6, <3>1
  <2>8. RecentsAreShown'
    BY <2>1, <2>5, <2>6 DEF RecentsAreShown
  <2>9. LatestAreKept'
    BY <2>1, <2>5, <2>6 DEF LatestAreKept
  <2>10. StringsAreOwned' /\ ListFits'
    BY <2>1, <2>2, <2>5, <2>6 DEF StringsAreOwned, ListHasFreed, ListFits
  <2>11. Stored(settings', recents') = file
    <3>1. Paths(recents') = file.recents
      <4>1. \A i \in 1..n : recents'[i].path = file.recents[i]
        BY <2>5
      <4>2. Paths(recents') = [i \in 1..n |-> recents'[i].path]
        BY <2>1, <2>5 DEF Paths
      <4>3. file.recents = [i \in 1..n |-> file.recents[i]]
        <5>1. file.recents \in Seq(Tournaments) /\ n = Len(file.recents)
          BY <2>1 DEF n
        <5> QED  BY <5>1, SeqIsFunction
      <4> QED  BY <4>1, <4>2, <4>3
    <3> QED  BY <3>1, <2>1, <2>2 DEF Stored, Files
  <2>12. FileIsMemory' /\ FileIsWhole'
    BY <2>1, <2>2, <2>11 DEF FileIsMemory, FileIsWhole, Stored, Paths
  <2>13. CallInv'
    BY <1>1, <2>1, <2>2, <2>6 DEF CallInv, StartFromFile, n
  <2> QED  BY <2>7, <2>8, <2>9, <2>10, <2>12, <2>13
<1>2. CASE StartAfresh
  <2> DEFINE fresh == Stored(DEFAULT_CONFIG, <<>>)
  <2>1. fresh \in Files /\ Len(fresh.recents) = 0
    <3>1. <<>> \in Seq(Recents) /\ Len(<<>>) = 0
      OBVIOUS
    <3> QED  BY <3>1, StoredIsFile
  <2>2. /\ running = "no" /\ running' = "yes" /\ settings' = DEFAULT_CONFIG
        /\ recents' = <<>> /\ entries' = <<>> /\ cleared' = 0 /\ lag' = FALSE
        /\ UNCHANGED <<tabs, pc, caller, leaving>> /\ freed' = {} /\ noMemory' = FALSE
        /\ \/ file' = fresh /\ faults' = FALSE
           \/ file' \in {Absent, Torn} /\ faults' = TRUE
    BY <1>2, Zenon DEF StartAfresh, call, CallInv
  <2>3. Stored(settings', recents') = fresh
    BY <2>2 DEF Stored, Paths
  <2> HIDE DEF fresh
  <2>4. TypeOK'
    <3>1. faults' \in BOOLEAN /\ lag' \in BOOLEAN /\ noMemory' \in BOOLEAN
      BY <2>2, Zenon
    <3> QED  BY <2>1, <2>2, <3>1, EmptySeqs
  <2>5. RecentsAreShown' /\ LatestAreKept' /\ ListFits' /\ StringsAreOwned'
    BY <2>2 DEF RecentsAreShown, LatestAreKept, ListFits, StringsAreOwned, ListHasFreed
  <2>6. FileIsMemory' /\ FileIsWhole'
    BY <2>1, <2>2, <2>3 DEF FileIsMemory, FileIsWhole, Files, Stored, Paths
  <2>7. CallInv'
    BY <2>1, <2>2 DEF CallInv, Max
  <2> QED  BY <2>4, <2>5, <2>6, <2>7
<1> QED  BY <1>1, <1>2

(* Whatever ends a process, or makes its memory worthless, leaves the file. *)
LEMMA ForgetPreserves ==
  ASSUME IInv, Forget, UNCHANGED <<file, caller>>, faults' \in BOOLEAN,
         \/ running' = "undefined" /\ faults'
         \/ running' = "no" /\ (file = Torn => faults')
  PROVE  IInv'
<1> USE ConstantsAssumption DEF IInv, TypeOK, Forget
<1>1. NoTabs \in [SettingTabs -> [open : BOOLEAN, form : Settings, changed : BOOLEAN]]
  BY DEF NoTabs, NoTab
<1>2. leaving' \in BOOLEAN /\ lag' \in BOOLEAN /\ noMemory' \in BOOLEAN
  BY Zenon
<1>3. TypeOK'
  BY <1>1, <1>2, EmptySeqs
<1>4. RecentsAreShown' /\ LatestAreKept' /\ ListFits' /\ StringsAreOwned'
  BY DEF RecentsAreShown, LatestAreKept, ListFits, StringsAreOwned, ListHasFreed
<1>5. FileIsMemory' /\ FileIsWhole' /\ CallInv'
  BY DEF FileIsMemory, FileIsWhole, CallInv, Idle
<1> QED  BY <1>3, <1>4, <1>5

(* An undefined behaviour is a fault. *)
LEMMA UndefinedPreserves == IInv /\ GoesUndefined => IInv'
<1> SUFFICES ASSUME IInv, GoesUndefined PROVE IInv'
  OBVIOUS
<1>1. faults' \in BOOLEAN
  BY Zenon DEF GoesUndefined
<1> QED  BY <1>1, ForgetPreserves DEF GoesUndefined

(* Steps in which a process ends, as it should or not. *)
LEMMA StopPreserves ==
  ASSUME IInv, UndefinedRuns \/ Stop
  PROVE  IInv'
<1> USE ConstantsAssumption DEF IInv, TypeOK
<1>1. CASE UndefinedRuns
  <2>1. ASSUME NEW s \in Settings
        PROVE  Stored(s, <<>>) \in Files
    BY EmptySeqs, StoredIsFile
  <2> USE <1>1 DEF UndefinedRuns
  <2>2. TypeOK'
    BY <2>1 DEF call, config
  <2>3. RecentsAreShown' /\ LatestAreKept' /\ ListFits' /\ StringsAreOwned'
    BY ListUntouched DEF ListInv, config
  <2>4. FileIsMemory' /\ CallInv'
    BY <2>1 DEF FileIsMemory, CallInv, Idle, config, call
  <2>5. FileIsWhole'
    BY DEF FileIsWhole, CallInv, call
  <2> QED  BY <2>2, <2>3, <2>4, <2>5
<1>2. CASE Stop
  <2>1. faults' <=> faults \/ pc # "idle"
    BY <1>2, Zenon DEF Stop
  <2>2. faults' \in BOOLEAN
    BY <1>2, Zenon DEF Stop
  <2>3. file = Torn => faults'
    BY <1>2, <2>1 DEF Stop, FileIsWhole
  <2> QED  BY <1>2, <2>2, <2>3, ForgetPreserves DEF Stop
<1> QED  BY <1>1, <1>2

(* What the user does in a settings tab, up to the point where onSave has
   replaced the configuration in memory. *)
LEMMA TabPreserves ==
  ASSUME IInv, NEW k \in SettingTabs,
         OpenTab(k) \/ Edit(k) \/ Reset(k) \/ SaveClicked(k) \/ SaveAndClose(k) \/ CloseTab(k)
  PROVE  IInv'
<1> USE ConstantsAssumption DEF IInv, TypeOK
<1>1. CASE OpenTab(k) \/ Edit(k) \/ CloseTab(k)
  <2>1. /\ Idle /\ UNCHANGED <<running, config, file, entries, pc, caller>>
        /\ UNCHANGED <<leaving, faults, lag, cleared>>
        /\ tabs' \in [SettingTabs -> [open : BOOLEAN, form : Settings, changed : BOOLEAN]]
    <3>1. CASE OpenTab(k)
      BY <3>1 DEF OpenTab, call, config
    <3>2. CASE Edit(k)
      <4>1. PICK s \in Settings :
              tabs' = [tabs EXCEPT ![k].form = s, ![k].changed = TRUE]
        BY <3>2 DEF Edit
      <4>2. [[tabs[k] EXCEPT !.form = s] EXCEPT !.changed = TRUE]
              \in [open : BOOLEAN, form : Settings, changed : BOOLEAN]
        OBVIOUS
      <4>3. tabs' \in [SettingTabs -> [open : BOOLEAN, form : Settings, changed : BOOLEAN]]
        BY <4>1, <4>2
      <4> QED  BY <3>2, <4>3 DEF Edit, call, config
    <3>3. CASE CloseTab(k)
      <4>1. NoTab \in [open : BOOLEAN, form : Settings, changed : BOOLEAN]
        BY DEF NoTab
      <4> QED  BY <3>3, <4>1 DEF CloseTab, call, config
    <3> QED  BY <1>1, <3>1, <3>2, <3>3
  <2>2. RecentsAreShown' /\ LatestAreKept' /\ ListFits' /\ StringsAreOwned'
    BY <2>1, ListUntouched DEF ListInv, config
  <2>3. FileIsMemory' /\ FileIsWhole' /\ CallInv'
    BY <2>1 DEF FileIsMemory, FileIsWhole, CallInv, Idle, config
  <2> QED  BY <2>1, <2>2, <2>3 DEF config
<1>2. CASE Reset(k)
  <2> USE <1>2 DEF Reset
  <2>1. /\ settings' \in Settings /\ recents' = <<>> /\ UNCHANGED entries
        /\ freed' \subseteq DOMAIN entries' /\ noMemory' \in BOOLEAN
        /\ cleared' \in Nat /\ cleared' = Len(entries') /\ ListInv'
    BY ReplaceKeepsList
  <2>2. tabs' \in [SettingTabs -> [open : BOOLEAN, form : Settings, changed : BOOLEAN]]
    OBVIOUS
  <2>3. TypeOK'
    BY <2>1, <2>2, EmptySeqs DEF call
  <2>4. FileIsMemory' /\ FileIsWhole' /\ CallInv'
    BY <2>1 DEF FileIsMemory, FileIsWhole, CallInv, Idle, call
  <2> QED  BY <2>1, <2>3, <2>4 DEF ListInv
<1>3. CASE SaveClicked(k) \/ SaveAndClose(k)
  <2>1. /\ Idle /\ tabs[k].open /\ Replace(tabs[k].form)
        /\ pc' = "saveOpen" /\ caller' = k /\ leaving' \in BOOLEAN
        /\ UNCHANGED <<running, file, entries, tabs, faults, lag>>
    BY <1>3 DEF SaveClicked, SaveAndClose, Save
  <2>2. /\ settings' \in Settings /\ recents' = <<>> /\ UNCHANGED entries
        /\ freed' \subseteq DOMAIN entries' /\ noMemory' \in BOOLEAN
        /\ cleared' \in Nat /\ cleared' = Len(entries') /\ ListInv'
    BY <2>1, ReplaceKeepsList
  <2>3. TypeOK'
    BY <2>1, <2>2, EmptySeqs
  <2>4. FileIsMemory' /\ FileIsWhole' /\ CallInv'
    BY <2>1, <2>2 DEF FileIsMemory, FileIsWhole, CallInv, Idle
  <2> QED  BY <2>2, <2>3, <2>4 DEF ListInv
<1> QED  BY <1>1, <1>2, <1>3

(* The rest of onSave. *)
LEMMA SavePreserves ==
  ASSUME IInv, SaveOpens \/ SaveCannotOpen \/ SaveWrites \/ SaveCannotWrite
  PROVE  IInv'
<1> USE ConstantsAssumption DEF IInv, TypeOK
<1>1. /\ caller \in SettingTabs /\ running = "yes" /\ running' = "yes"
      /\ UNCHANGED <<config, entries, caller, cleared>>
  BY DEF SaveOpens, SaveCannotOpen, SaveWrites, SaveCannotWrite, SaveReturns, Done,
         CallInv, config
<1> USE DEF config
<1>2. RecentsAreShown' /\ LatestAreKept' /\ ListFits' /\ StringsAreOwned'
  BY <1>1, ListUntouched DEF ListInv
<1>3. CASE SaveOpens
  <2>1. TypeOK'
    BY <1>1, <1>3 DEF SaveOpens
  <2>2. FileIsMemory' /\ FileIsWhole' /\ CallInv'
    BY <1>1, <1>3 DEF SaveOpens, FileIsMemory, FileIsWhole, CallInv, Idle
  <2> QED  BY <1>2, <2>1, <2>2
<1>4. ASSUME NEW ok \in BOOLEAN, SaveReturns(ok)
      PROVE  tabs' \in [SettingTabs -> [open : BOOLEAN, form : Settings, changed : BOOLEAN]]
  <2>1. (tabs[caller].changed /\ ~ok) \in BOOLEAN
    BY Zenon
  <2>2. NoTab \in [open : BOOLEAN, form : Settings, changed : BOOLEAN]
    BY DEF NoTab
  <2>3. [tabs[caller] EXCEPT !.changed = tabs[caller].changed /\ ~ok]
          = [open |-> tabs[caller].open, form |-> tabs[caller].form,
             changed |-> tabs[caller].changed /\ ~ok]
    BY <1>1
  <2>4. [tabs[caller] EXCEPT !.changed = tabs[caller].changed /\ ~ok]
          \in [open : BOOLEAN, form : Settings, changed : BOOLEAN]
    BY <1>1, <2>1, <2>3
  <2> QED  BY <1>1, <1>4, <2>2, <2>4 DEF SaveReturns
<1>5. CASE SaveCannotOpen \/ SaveCannotWrite
  <2>1. TypeOK'
    BY <1>1, <1>4, <1>5 DEF SaveCannotOpen, SaveCannotWrite, SaveReturns, Done
  <2>2. FileIsMemory' /\ FileIsWhole' /\ CallInv'
    BY <1>1, <1>5 DEF SaveCannotOpen, SaveCannotWrite, SaveReturns, Done,
                      FileIsMemory, FileIsWhole, CallInv
  <2> QED  BY <1>2, <2>1, <2>2
<1>6. CASE SaveWrites
  <2>1. Stored(settings, recents) \in Files
    BY StoredIsFile
  <2>2. TypeOK'
    BY <1>1, <1>4, <1>6, <2>1 DEF SaveWrites, SaveReturns, Done
  <2>3. FileIsMemory'
    BY <1>1, <1>6 DEF SaveWrites, FileIsMemory, Stored, Paths
  <2>4. FileIsWhole' /\ CallInv'
    BY <1>1, <1>6, <2>1 DEF SaveWrites, SaveReturns, Done, FileIsWhole, CallInv, Files
  <2> QED  BY <1>2, <2>2, <2>3, <2>4
<1> QED  BY <1>3, <1>5, <1>6

(* onTournamentAdded. *)
LEMMA AddPreserves ==
  ASSUME IInv, \/ \E t \in Tournaments : AddOpens(t) \/ AddCannotOpen(t)
               \/ WriteAdded \/ WriteAddedFails \/ AddHasNoMemory
  PROVE  IInv'
<1> USE ConstantsAssumption DEF IInv, TypeOK
<1>1. ASSUME NEW t \in Tournaments, AddOpens(t) PROVE IInv'
  <2> USE <1>1 DEF AddOpens
  <2>1. TypeOK'
    BY DEF config
  <2>2. RecentsAreShown' /\ LatestAreKept' /\ ListFits' /\ StringsAreOwned'
    BY ListUntouched DEF ListInv, config
  <2>3. FileIsMemory' /\ FileIsWhole' /\ CallInv'
    BY DEF FileIsMemory, FileIsWhole, CallInv, Idle, config
  <2> QED  BY <2>1, <2>2, <2>3
<1>2. ASSUME NEW t \in Tournaments, AddCannotOpen(t) PROVE IInv'
  <2> DEFINE shown == Entry(t, FALSE, FALSE)
  <2>1. shown \in Entries /\ ~shown.listed
    BY DEF Entry, Entries
  <2>2. /\ entries' = Append(entries, shown) /\ faults' = TRUE /\ Idle
        /\ UNCHANGED <<running, config, file, tabs, pc, caller, leaving, lag, cleared>>
    BY <1>2 DEF AddCannotOpen, config, call
  <2> HIDE DEF shown
  <2>3. /\ entries' \in Seq(Entries) /\ Len(entries') = Len(entries) + 1
        /\ \A j \in 1..Len(entries) : entries'[j] = entries[j]
        /\ entries'[Len(entries) + 1] = shown
    BY <2>1, <2>2
  <2> USE DEF config
  <2>4. TypeOK'
    BY <2>2, <2>3
  <2>5. RecentsAreShown'
    BY <2>2, <2>3 DEF RecentsAreShown
  <2>6. LatestAreKept'
    BY <2>1, <2>2, <2>3 DEF LatestAreKept
  <2>7. StringsAreOwned' /\ ListFits'
    BY <2>1, <2>2, <2>3 DEF StringsAreOwned, ListHasFreed, Offset, ListFits, RecentsAreShown
  <2>8. FileIsMemory' /\ FileIsWhole' /\ CallInv'
    BY <2>2, <2>3 DEF FileIsMemory, FileIsWhole, CallInv, Idle
  <2> QED  BY <2>4, <2>5, <2>6, <2>7, <2>8
<1>3. CASE WriteAdded \/ WriteAddedFails
  <2>1. /\ AddToList /\ running' = running /\ running = "yes" /\ pc' = "idle"
        /\ UNCHANGED <<settings, noMemory, tabs, cleared, caller>> /\ leaving' = FALSE
    BY <1>3 DEF WriteAdded, WriteAddedFails, AddToList, Done, CallInv
  <2>2. /\ recents' \in Seq(Recents) /\ freed' \subseteq DOMAIN entries'
        /\ entries' \in Seq(Entries) /\ Len(entries') = Len(entries) + 1
        /\ RecentsAreShown' /\ LatestAreKept' /\ ListFits' /\ StringsAreOwned'
    BY <2>1, AddKeepsList DEF ListInv
  <2>3. Stored(settings, recents') \in Files
    BY <2>2, StoredIsFile
  <2>4. TypeOK'
    BY <1>3, <2>1, <2>2, <2>3 DEF WriteAdded, WriteAddedFails
  <2>5. FileIsMemory'
    BY <1>3, <2>1 DEF WriteAdded, WriteAddedFails, FileIsMemory, Stored, Paths
  <2>6. FileIsWhole' /\ CallInv'
    BY <1>3, <2>1, <2>2, <2>3
       DEF WriteAdded, WriteAddedFails, FileIsWhole, CallInv, Files
  <2> QED  BY <2>2, <2>4, <2>5, <2>6
<1>4. CASE AddHasNoMemory
  <2> DEFINE shown == Entry(caller, FALSE, FALSE)
  <2>1. shown \in Entries /\ ~shown.listed
    BY <1>4 DEF Entry, Entries, AddHasNoMemory, CallInv
  <2>2. /\ entries' = Append(entries, shown) /\ faults' = TRUE /\ noMemory' = TRUE
        /\ pc = "addWrite" /\ pc' = "idle" /\ leaving' = FALSE
        /\ ~ListHasFreed /\ freed' = AfterFree(Dropped)
        /\ UNCHANGED <<running, settings, recents, file, tabs, caller, lag, cleared>>
    BY <1>4 DEF AddHasNoMemory, Done
  <2> HIDE DEF shown
  <2>3. /\ entries' \in Seq(Entries) /\ Len(entries') = Len(entries) + 1
        /\ \A j \in 1..Len(entries) : entries'[j] = entries[j]
        /\ entries'[Len(entries) + 1] = shown
    BY <2>1, <2>2
  <2>4. /\ freed' \subseteq DOMAIN entries'
        /\ \A i \in DOMAIN recents : recents[i].entry \in freed' <=> i <= Offset
    BY <2>2, <2>3, DropFreesOldest
  <2>5. TypeOK'
    <3>1. noMemory' \in BOOLEAN /\ leaving' \in BOOLEAN /\ faults' \in BOOLEAN
      BY <2>2, Zenon
    <3> QED  BY <2>2, <2>3, <2>4, <3>1
  <2>6. RecentsAreShown' /\ ListFits'
    BY <2>2, <2>3 DEF RecentsAreShown, ListFits
  <2>7. LatestAreKept'
    BY <2>1, <2>2, <2>3 DEF LatestAreKept
  <2>8. StringsAreOwned'
    <3>1. Offset' = Offset
      BY <2>2 DEF Offset
    <3> QED  BY <2>2, <2>4, <3>1 DEF StringsAreOwned
  <2>9. FileIsMemory' /\ FileIsWhole' /\ CallInv'
    BY <2>2, <2>3 DEF FileIsMemory, FileIsWhole, CallInv, Idle
  <2> QED  BY <2>5, <2>6, <2>7, <2>8, <2>9
<1> QED  BY <1>1, <1>2, <1>3, <1>4

(* Every step preserves the inductive invariant. *)
LEMMA StepInvariant == IInv /\ [Next]_vars => IInv'
<1> SUFFICES ASSUME IInv, [Next]_vars
             PROVE  IInv'
  OBVIOUS
<1>1. CASE Next
  <2>1. CASE GoesUndefined
    BY <2>1, UndefinedPreserves
  <2> QED
    BY <1>1, <2>1, StartPreserves, StopPreserves, TabPreserves, SavePreserves, AddPreserves
       DEF Next, StartUndefined, ClickFreed, ReplaceFreed, AddFreesAgain, AddCopiesTooFew
<1>2. CASE UNCHANGED vars
  <2> USE <1>2 DEF IInv, vars, call, config
  <2>1. RecentsAreShown' /\ LatestAreKept' /\ ListFits' /\ StringsAreOwned'
    BY ListUntouched DEF ListInv
  <2>2. TypeOK'
    BY DEF TypeOK
  <2>3. FileIsMemory' /\ FileIsWhole' /\ CallInv'
    BY DEF FileIsMemory, FileIsWhole, CallInv, Idle, Stored, Paths
  <2> QED  BY <2>1, <2>2, <2>3
<1> QED  BY <1>1, <1>2

-----------------------------------------------------------------------------
(* IInv holds in every state. *)
THEOREM Invariant == Spec => []IInv
BY InitInvariant, StepInvariant, PTL DEF Spec

(* The variables keep their types. *)
THEOREM TypeCorrect == Spec => []TypeOK
BY Invariant, PTL DEF IInv

(* add_recent_tourn keeps the newest, for every greatest length, in the order
   of the dashboard, whatever lists are read and whichever calls fail. *)
THEOREM ListIsRight == Spec => []RecentsAreLatest
<1>1. IInv => RecentsAreLatest
  BY DEF IInv, RecentsAreLatest
<1> QED  BY <1>1, Invariant, PTL

(* The list has no freed string unless a malloc of add_recent_tourn failed, and
   then exactly those of its oldest elements. *)
THEOREM StringsLive == Spec => []StringsAreOwned
<1>1. IInv => StringsAreOwned
  BY DEF IInv
<1> QED  BY <1>1, Invariant, PTL

(* Without a fault the file can always be read, and has what memory has. *)
THEOREM FileIsRight == Spec => [](FileIsMemory /\ FileIsWhole)
<1>1. IInv => FileIsMemory /\ FileIsWhole
  BY DEF IInv
<1> QED  BY <1>1, Invariant, PTL
=============================================================================
