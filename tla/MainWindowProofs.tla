--------------------------- MODULE MainWindowProofs ---------------------------
(***************************************************************************)
(* For any tournaments, paths and number of tabs: what is shown has its    *)
(* data, a dialogue finds its tab again, the saved flag is the truth, the  *)
(* loop over the tabs spares one of two neighbours, and each tournament    *)
(* has the life cycle of TournamentLife.                                   *)
(***************************************************************************)
EXTENDS MainWindow, SequenceTheorems, TLAPS

-----------------------------------------------------------------------------
(* Tabs that are removed, added and moved.                                 *)

(* The tabs before the removed one stay, those behind it move up. *)
LEMMA WithoutElements ==
  ASSUME NEW ts \in Seq(Tabs), NEW i \in 1..Len(ts)
  PROVE  /\ Without(ts, i) \in Seq(Tabs)
         /\ Len(Without(ts, i)) = Len(ts) - 1
         /\ \A j \in 1..(Len(ts) - 1) : Without(ts, i)[j] = IF j < i THEN ts[j] ELSE ts[j + 1]
<1> DEFINE left == SubSeq(ts, 1, i - 1)
           right == SubSeq(ts, i + 1, Len(ts))
<1>1. /\ left \in Seq(Tabs) /\ Len(left) = i - 1
      /\ \A j \in 1..(i - 1) : left[j] = ts[j]
  BY SubSeqProperties
<1>2. /\ right \in Seq(Tabs) /\ Len(right) = Len(ts) - i
      /\ \A j \in 1..(Len(ts) - i) : right[j] = ts[j + i]
  BY SubSeqProperties
<1>3. Without(ts, i) = left \o right
  BY DEF Without
<1> HIDE DEF left, right
<1>4. /\ left \o right \in Seq(Tabs)
      /\ Len(left \o right) = Len(ts) - 1
      /\ \A j \in 1..(Len(ts) - 1) :
           (left \o right)[j] = IF j < i THEN left[j] ELSE right[j - (i - 1)]
  BY <1>1, <1>2, ConcatProperties
<1>5. \A j \in 1..(Len(ts) - 1) : j >= i => right[j - (i - 1)] = ts[j + 1]
  BY <1>2
<1>6. QED BY <1>1, <1>3, <1>4, <1>5

(* Nothing else is gone than what was removed, and nothing is new. *)
LEMMA WithoutShown ==
  ASSUME NEW ts \in Seq(Tabs), NEW i \in 1..Len(ts)
  PROVE  /\ Shown(Without(ts, i)) \subseteq Shown(ts)
         /\ \A j \in 1..Len(ts) : j # i => ts[j] \in Shown(Without(ts, i))
<1> DEFINE w == Without(ts, i)
<1>1. /\ w \in Seq(Tabs) /\ Len(w) = Len(ts) - 1
      /\ \A j \in 1..(Len(ts) - 1) : w[j] = IF j < i THEN ts[j] ELSE ts[j + 1]
  BY WithoutElements
<1> HIDE DEF w
<1>2. DOMAIN w = 1..(Len(ts) - 1)
  BY <1>1
<1>3. Shown(w) \subseteq Shown(ts)
  BY <1>1, <1>2 DEF Shown
<1>4. ASSUME NEW j \in 1..Len(ts), j # i PROVE ts[j] \in Shown(w)
  <2>1. CASE j < i
    <3>1. j \in 1..(Len(ts) - 1) /\ w[j] = ts[j]
      BY <1>1, <2>1
    <3>2. QED BY <3>1, <1>2 DEF Shown
  <2>2. CASE j > i
    <3>1. j - 1 \in 1..(Len(ts) - 1) /\ w[j - 1] = ts[j]
      BY <1>1, <2>2
    <3>2. QED BY <3>1, <1>2 DEF Shown
  <2>3. QED BY <1>4, <2>1, <2>2
<1>5. QED BY <1>3, <1>4 DEF w

(* What is shown after a tab was added. *)
LEMMA AppendShown ==
  ASSUME NEW ts \in Seq(Tabs), NEW t \in Tabs
  PROVE  /\ Append(ts, t) \in Seq(Tabs) /\ Len(Append(ts, t)) = Len(ts) + 1
         /\ \A j \in 1..Len(ts) : Append(ts, t)[j] = ts[j]
         /\ Append(ts, t)[Len(ts) + 1] = t
         /\ Shown(Append(ts, t)) = Shown(ts) \cup {t}
<1>1. /\ Append(ts, t) \in Seq(Tabs) /\ Len(Append(ts, t)) = Len(ts) + 1
      /\ \A j \in 1..Len(ts) : Append(ts, t)[j] = ts[j]
      /\ Append(ts, t)[Len(ts) + 1] = t
  BY AppendProperties
<1>2. DOMAIN Append(ts, t) = 1..(Len(ts) + 1) /\ DOMAIN ts = 1..Len(ts)
  BY <1>1
<1>3. Shown(Append(ts, t)) = Shown(ts) \cup {t}
  BY <1>1, <1>2 DEF Shown
<1>4. QED BY <1>1, <1>3

(* A tab that changes places with its neighbour. *)
Swapped(ts, i) == [ts EXCEPT ![i] = ts[i + 1], ![i + 1] = ts[i]]

LEMMA SwapShown ==
  ASSUME NEW ts \in Seq(Tabs), NEW i \in 1..(Len(ts) - 1)
  PROVE  /\ Swapped(ts, i) \in Seq(Tabs) /\ Len(Swapped(ts, i)) = Len(ts)
         /\ Shown(Swapped(ts, i)) = Shown(ts)
         /\ \A j \in 1..Len(ts) :
              Swapped(ts, i)[j] =
                IF j = i THEN ts[i + 1] ELSE IF j = i + 1 THEN ts[i] ELSE ts[j]
<1> DEFINE us == Swapped(ts, i)
<1>1. i \in 1..Len(ts) /\ i + 1 \in 1..Len(ts) /\ ts[i] \in Tabs /\ ts[i + 1] \in Tabs
  OBVIOUS
<1>2. /\ us \in Seq(Tabs) /\ Len(us) = Len(ts)
      /\ \A j \in 1..Len(ts) :
           us[j] = IF j = i THEN ts[i + 1] ELSE IF j = i + 1 THEN ts[i] ELSE ts[j]
  BY <1>1 DEF Swapped
<1> HIDE DEF us
<1>3. DOMAIN us = 1..Len(ts) /\ DOMAIN ts = 1..Len(ts)
  BY <1>2
<1>4. us[i] = ts[i + 1] /\ us[i + 1] = ts[i]
  BY <1>1, <1>2
<1>5. \A x : x \in Shown(us) => x \in Shown(ts)
  BY <1>1, <1>2, <1>3 DEF Shown
<1>6. \A j \in 1..Len(ts) : ts[j] \in Shown(us)
  BY <1>1, <1>2, <1>3, <1>4 DEF Shown
<1>7. Shown(ts) \subseteq Shown(us)
  BY <1>3, <1>6 DEF Shown
<1>8. QED BY <1>2, <1>5, <1>7 DEF us

-----------------------------------------------------------------------------
(* Files and flags.                                                        *)

FilesInv ==
  /\ version \in [Tournaments -> 0..MaxVersion]
  /\ saved \in [Tournaments -> BOOLEAN]
  /\ location \in [Tournaments -> Paths \cup {NoPath}]
  /\ disk \in [Paths -> Contents]
  /\ SavedIsKept /\ Located

(* What a save may return and leave behind. *)
LEMMA OutcomesOfSave ==
  ASSUME NEW old, NEW t, NEW v, NEW save \in SaveOutcomes(old, t, v)
  PROVE  /\ save.ok \in BOOLEAN /\ (save.ok => save.content = Copy(t, v))
         /\ save.content \in {Copy(t, v), Unreadable, old}
<1>1. CASE save = [ok |-> TRUE, content |-> Copy(t, v)]
  BY <1>1
<1>2. CASE save \in [ok : {FALSE}, content : {Unreadable, old}]
  <2>1. save.ok = FALSE /\ save.content \in {Unreadable, old}
    BY <1>2
  <2>2. QED BY <2>1
<1>3. QED BY <1>1, <1>2 DEF SaveOutcomes

(* A save at the place of t, of t. *)
LEMMA SaveKeepsFiles ==
  ASSUME FilesInv, NEW t \in client, NEW v \in 0..MaxVersion, Save(t, v),
         version' = [version EXCEPT ![t] = v], UNCHANGED <<location, client>>
  PROVE  FilesInv'
<1> USE DEF FilesInv
<1>1. t \in Tournaments /\ location[t] \in Paths
  BY DEF Located
<1>2. PICK save \in SaveOutcomes(disk[location[t]], t, v) :
        /\ disk' = [disk EXCEPT ![location[t]] = save.content]
        /\ saved' = [saved EXCEPT ![t] = save.ok]
  BY DEF Save
<1>3. /\ save.ok \in BOOLEAN /\ (save.ok => save.content = Copy(t, v))
      /\ save.content \in {Copy(t, v), Unreadable, disk[location[t]]}
  BY OutcomesOfSave
<1>4. Copy(t, v) \in Contents
  BY <1>1 DEF Copy, Copies, Contents
<1>5. disk' \in [Paths -> Contents] /\ saved' \in [Tournaments -> BOOLEAN]
      /\ version' \in [Tournaments -> 0..MaxVersion]
  BY <1>1, <1>2, <1>3, <1>4 DEF Contents
<1>6. SavedIsKept'
  <2> SUFFICES ASSUME NEW u \in Tournaments, saved'[u]
               PROVE  \/ disk'[location[u]] = Copy(u, version'[u])
                      \/ \E w \in Tournaments \ {u} : location[w] = location[u]
    BY DEF SavedIsKept
  <2>1. CASE u = t
    BY <1>1, <1>2, <1>3, <2>1
  <2>2. CASE u # t /\ location[u] = location[t]
    BY <1>1, <2>2
  <2>3. CASE u # t /\ location[u] # location[t]
    <3>1. saved[u] /\ version'[u] = version[u] /\ location[u] \in Paths
      BY <1>1, <1>2, <2>3 DEF Located
    <3>2. disk'[location[u]] = disk[location[u]]
      BY <1>1, <1>2, <2>3, <3>1
    <3>3. QED BY <3>1, <3>2 DEF SavedIsKept
  <2>4. QED BY <2>1, <2>2, <2>3
<1>7. Located'
  <2>1. \A u \in Tournaments : saved'[u] => location[u] # NoPath
    BY <1>1, <1>2, ConstantsAssumption DEF ConstantsAssumption, Located
  <2>2. ASSUME NEW p \in Paths, disk'[p] # Unreadable PROVE location[disk'[p].of] = p
    <3>1. CASE p # location[t]
      BY <1>1, <1>2, <2>2, <3>1 DEF Located
    <3>2. CASE p = location[t]
      BY <1>1, <1>2, <1>3, <2>2, <3>2 DEF Located, Copy
    <3>3. QED BY <3>1, <3>2
  <2>3. QED BY <2>1, <2>2 DEF Located
<1>8. QED BY <1>5, <1>6, <1>7

(* A tournament that is opened, at a place where none is, or at its own. *)
LEMMA OpenKeepsFiles ==
  ASSUME FilesInv, NEW t \in Tournaments, NEW p \in Paths, NEW v \in 0..MaxVersion,
         NEW old \in Copies, old.of = t, location[t] \in {NoPath, p},
         NEW save \in SaveOutcomes(old, t, v), Open(t, p, v, save)
  PROVE  FilesInv'
<1> USE DEF FilesInv
<1>1. /\ save.ok \in BOOLEAN /\ (save.ok => save.content = Copy(t, v))
      /\ save.content \in {Copy(t, v), Unreadable, old}
  BY OutcomesOfSave
<1>2. Copy(t, v) \in Contents /\ old \in Contents /\ Copy(t, v).of = t
  BY DEF Copy, Copies, Contents
<1>3. /\ disk' = [disk EXCEPT ![p] = save.content]
      /\ saved' = [saved EXCEPT ![t] = save.ok]
      /\ version' = [version EXCEPT ![t] = v]
      /\ location' = [location EXCEPT ![t] = p]
      /\ client' = client \cup {t}
  BY DEF Open
<1>4. /\ disk' \in [Paths -> Contents] /\ saved' \in [Tournaments -> BOOLEAN]
      /\ version' \in [Tournaments -> 0..MaxVersion]
      /\ location' \in [Tournaments -> Paths \cup {NoPath}]
  <2>1. save.content \in Contents
    BY <1>1, <1>2 DEF Contents
  <2>2. QED BY <1>1, <1>3, <2>1
<1>5. SavedIsKept'
  <2> SUFFICES ASSUME NEW u \in Tournaments, saved'[u]
               PROVE  \/ disk'[location'[u]] = Copy(u, version'[u])
                      \/ \E w \in Tournaments \ {u} : location'[w] = location'[u]
    BY DEF SavedIsKept
  <2>1. CASE u = t
    BY <1>1, <1>3, <2>1
  <2>2. CASE u # t
    <3>1. saved[u] /\ version'[u] = version[u] /\ location'[u] = location[u]
          /\ location[u] \in Paths
      BY <1>3, <2>2 DEF Located
    <3>2. CASE location[u] = p
      BY <1>3, <2>2, <3>1, <3>2
    <3>3. CASE location[u] # p
      <4>1. disk'[location[u]] = disk[location[u]]
        BY <1>3, <3>1, <3>3
      <4>2. CASE disk[location[u]] = Copy(u, version[u])
        BY <3>1, <4>1, <4>2
      <4>3. CASE \E w \in Tournaments \ {u} : location[w] = location[u]
        <5>1. PICK w \in Tournaments \ {u} : location[w] = location[u]
          BY <4>3
        <5>2. w # t
          BY <5>1, <3>1, <3>3, ConstantsAssumption DEF ConstantsAssumption
        <5>3. location'[w] = location'[u]
          BY <1>3, <3>1, <5>1, <5>2
        <5>4. QED BY <5>1, <5>3
      <4>4. QED BY <3>1, <4>2, <4>3 DEF SavedIsKept
    <3>4. QED BY <3>2, <3>3
  <2>3. QED BY <2>1, <2>2
<1>6. Located'
  <2>1. p # NoPath
    BY ConstantsAssumption DEF ConstantsAssumption
  <2>2. client' \subseteq {u \in Tournaments : location'[u] # NoPath}
    BY <1>3, <2>1 DEF Located
  <2>3. \A u \in Tournaments : saved'[u] => location'[u] # NoPath
    BY <1>3, <2>1 DEF Located
  <2>4. ASSUME NEW q \in Paths, disk'[q] # Unreadable PROVE location'[disk'[q].of] = q
    <3>1. CASE q = p
      BY <1>1, <1>2, <1>3, <2>4, <3>1
    <3>2. CASE q # p
      <4>1. disk'[q] = disk[q] /\ location[disk[q].of] = q /\ disk[q].of \in Tournaments
        BY <1>3, <2>4, <3>2 DEF Located, Contents, Copies
      <4>2. disk[q].of # t
        BY <4>1, <3>2, ConstantsAssumption DEF ConstantsAssumption
      <4>3. QED BY <1>3, <4>1, <4>2
    <3>3. QED BY <3>1, <3>2
  <2>5. QED BY <2>2, <2>3, <2>4 DEF Located
<1>7. QED BY <1>4, <1>5, <1>6

(* A tournament that could not be made ends the program. *)
LEMMA FailedCreateKeepsFiles ==
  ASSUME FilesInv, NEW t \in Tournaments, NEW p \in Paths, location[t] = NoPath,
         NEW content \in {Unreadable, disk[p], Copy(t, 0)},
         disk' = [disk EXCEPT ![p] = content],
         location' = [location EXCEPT ![t] = p], client' = {}, UNCHANGED <<version, saved>>
  PROVE  FilesInv'
<1> USE DEF FilesInv
<1>1. Copy(t, 0) \in Contents /\ Copy(t, 0).of = t
  BY ConstantsAssumption DEF ConstantsAssumption, Copy, Copies, Contents
<1>2. disk' \in [Paths -> Contents] /\ location' \in [Tournaments -> Paths \cup {NoPath}]
  BY <1>1 DEF Contents
<1>3. ~saved[t] /\ p # NoPath
  BY ConstantsAssumption DEF ConstantsAssumption, Located
<1>4. SavedIsKept'
  <2> SUFFICES ASSUME NEW u \in Tournaments, saved[u]
               PROVE  \/ disk'[location'[u]] = Copy(u, version[u])
                      \/ \E w \in Tournaments \ {u} : location'[w] = location'[u]
    BY DEF SavedIsKept
  <2>1. u # t /\ location'[u] = location[u] /\ location[u] \in Paths /\ location'[t] = p
    BY <1>3 DEF Located
  <2>2. CASE location[u] = p
    BY <2>1, <2>2
  <2>3. CASE location[u] # p
    <3>1. disk'[location[u]] = disk[location[u]]
      BY <2>1, <2>3
    <3>2. CASE disk[location[u]] = Copy(u, version[u])
      BY <2>1, <3>1, <3>2
    <3>3. CASE \E w \in Tournaments \ {u} : location[w] = location[u]
      <4>1. PICK w \in Tournaments \ {u} : location[w] = location[u]
        BY <3>3
      <4>2. w # t
        BY <4>1, <2>1, ConstantsAssumption DEF ConstantsAssumption
      <4>3. location'[w] = location'[u]
        BY <2>1, <4>1, <4>2
      <4>4. QED BY <4>1, <4>3
    <3>4. QED BY <3>2, <3>3 DEF SavedIsKept
  <2>4. QED BY <2>2, <2>3
<1>5. Located'
  <2>1. \A u \in Tournaments : saved[u] => location'[u] # NoPath
    BY <1>3 DEF Located
  <2>2. ASSUME NEW q \in Paths, disk'[q] # Unreadable PROVE location'[disk'[q].of] = q
    <3>1. CASE disk'[q] = disk[q]
      <4>1. location[disk[q].of] = q /\ disk[q].of \in Tournaments
        BY <2>2, <3>1 DEF Located, Contents, Copies
      <4>2. disk[q].of # t
        BY <4>1, ConstantsAssumption DEF ConstantsAssumption
      <4>3. QED BY <3>1, <4>1, <4>2
    <3>2. CASE q = p /\ disk'[q] = Copy(t, 0)
      BY <1>1, <3>2
    <3>3. QED BY <2>2, <3>1, <3>2
  <2>3. QED BY <2>1, <2>2 DEF Located
<1>6. QED BY <1>2, <1>4, <1>5

-----------------------------------------------------------------------------
(* Tabs and the loop over them.                                            *)

WindowInv ==
  /\ tabs \in Seq(Tabs) /\ Len(tabs) <= MaxTabs
  /\ client \subseteq Tournaments
  /\ sweep \in 0..MaxTabs + 1 /\ closing \in 0..MaxTabs
  /\ asker \in Tabs /\ before \in Seq(Tabs)
  /\ TabsAreBacked /\ DialogueIsCurrent /\ SweepInv

LEMMA PartsOfInvariant == IInv <=> FilesInv /\ WindowInv
<1>1. Located => client \subseteq Tournaments
  BY DEF Located
<1>2. QED BY <1>1 DEF IInv, TypeOK, FilesInv, WindowInv

(* A tab is removed, and its tournament perhaps with it. *)
LEMMA RemovalKeepsBacking ==
  ASSUME tabs \in Seq(Tabs), TabsAreBacked, NEW i \in 1..Len(tabs), tabs[i] # Dashboard,
         tabs' = Without(tabs, i), client' \in {client, client \ {tabs[i]}}
  PROVE  tabs' \in Seq(Tabs) /\ Len(tabs') = Len(tabs) - 1 /\ TabsAreBacked'
<1>1. /\ tabs' \in Seq(Tabs) /\ Len(tabs') = Len(tabs) - 1
      /\ \A j \in 1..(Len(tabs) - 1) : tabs'[j] = IF j < i THEN tabs[j] ELSE tabs[j + 1]
  BY WithoutElements
<1>2. DOMAIN tabs' = 1..(Len(tabs) - 1) /\ DOMAIN tabs = 1..Len(tabs)
  BY <1>1
<1>3. ASSUME NEW j \in DOMAIN tabs'
      PROVE  \E k \in 1..Len(tabs) : k # i /\ tabs'[j] = tabs[k]
  BY <1>1, <1>2
<1>4. ASSUME NEW j \in DOMAIN tabs', tabs'[j] \in Tournaments PROVE tabs'[j] \in client'
  <2>1. PICK k \in 1..Len(tabs) : k # i /\ tabs'[j] = tabs[k]
    BY <1>3
  <2>2. tabs[k] \in client /\ tabs[k] # tabs[i]
    BY <1>2, <1>4, <2>1, ConstantsAssumption DEF TabsAreBacked, ConstantsAssumption
  <2>3. QED BY <2>1, <2>2
<1>5. ASSUME NEW j \in DOMAIN tabs', NEW k \in DOMAIN tabs', j # k, tabs'[j] = tabs'[k]
      PROVE  tabs'[j] = SettingsTab
  <2> DEFINE at(n) == IF n < i THEN n ELSE n + 1
  <2>1. /\ at(j) \in 1..Len(tabs) /\ at(k) \in 1..Len(tabs) /\ at(j) # at(k)
        /\ tabs'[j] = tabs[at(j)] /\ tabs'[k] = tabs[at(k)]
    BY <1>1, <1>2, <1>5
  <2>2. QED BY <1>2, <1>5, <2>1 DEF TabsAreBacked
<1>6. Dashboard \in Shown(tabs')
  <2>1. PICK d \in 1..Len(tabs) : tabs[d] = Dashboard
    BY <1>2 DEF TabsAreBacked, Shown
  <2>2. tabs[d] \in Shown(tabs')
    BY <2>1, WithoutShown
  <2>3. QED BY <2>1, <2>2
<1>7. QED BY <1>1, <1>4, <1>5, <1>6 DEF TabsAreBacked

(* A tab is added: that of a tournament which is new in the client, or of the
   settings. *)
LEMMA AddingKeepsBacking ==
  ASSUME tabs \in Seq(Tabs), TabsAreBacked, NEW t \in Tabs, t # Dashboard,
         tabs' = Append(tabs, t), client \subseteq client',
         t \in Tournaments => t \notin client /\ t \in client'
  PROVE  tabs' \in Seq(Tabs) /\ Len(tabs') = Len(tabs) + 1 /\ TabsAreBacked'
<1>1. /\ tabs' \in Seq(Tabs) /\ Len(tabs') = Len(tabs) + 1
      /\ \A j \in 1..Len(tabs) : tabs'[j] = tabs[j]
      /\ tabs'[Len(tabs) + 1] = t
      /\ Shown(tabs') = Shown(tabs) \cup {t}
  BY AppendShown
<1>2. DOMAIN tabs' = 1..(Len(tabs) + 1) /\ DOMAIN tabs = 1..Len(tabs)
  BY <1>1
<1>3. ASSUME NEW j \in DOMAIN tabs', tabs'[j] \in Tournaments PROVE tabs'[j] \in client'
  BY <1>1, <1>2, <1>3 DEF TabsAreBacked
<1>4. t \in Tournaments \/ t = SettingsTab
  BY DEF Tabs
<1>5. \A j \in 1..Len(tabs) : tabs[j] = t => t = SettingsTab
  BY <1>2, <1>4 DEF TabsAreBacked
<1>6. ASSUME NEW j \in DOMAIN tabs', NEW k \in DOMAIN tabs', j # k, tabs'[j] = tabs'[k]
      PROVE  tabs'[j] = SettingsTab
  <2>1. CASE j \in 1..Len(tabs) /\ k \in 1..Len(tabs)
    BY <1>1, <1>2, <1>6, <2>1 DEF TabsAreBacked
  <2>2. CASE j = Len(tabs) + 1
    <3>1. k \in 1..Len(tabs)
      BY <1>2, <1>6, <2>2
    <3>2. QED BY <1>1, <1>5, <1>6, <2>2, <3>1
  <2>3. CASE k = Len(tabs) + 1
    <3>1. j \in 1..Len(tabs)
      BY <1>2, <1>6, <2>3
    <3>2. QED BY <1>1, <1>5, <1>6, <2>3, <3>1
  <2>4. QED BY <1>2, <2>1, <2>2, <2>3
<1>7. QED BY <1>1, <1>3, <1>6 DEF TabsAreBacked

(* Two tabs change places. *)
LEMMA SwapKeepsBacking ==
  ASSUME tabs \in Seq(Tabs), TabsAreBacked, NEW i \in 1..(Len(tabs) - 1),
         tabs' = Swapped(tabs, i), client' = client
  PROVE  tabs' \in Seq(Tabs) /\ Len(tabs') = Len(tabs) /\ TabsAreBacked'
<1> DEFINE at(j) == IF j = i THEN i + 1 ELSE IF j = i + 1 THEN i ELSE j
<1>1. /\ tabs' \in Seq(Tabs) /\ Len(tabs') = Len(tabs) /\ Shown(tabs') = Shown(tabs)
      /\ \A j \in 1..Len(tabs) : tabs'[j] = tabs[at(j)]
  <2>1. /\ tabs' \in Seq(Tabs) /\ Len(tabs') = Len(tabs) /\ Shown(tabs') = Shown(tabs)
        /\ \A j \in 1..Len(tabs) :
             tabs'[j] = IF j = i THEN tabs[i + 1] ELSE IF j = i + 1 THEN tabs[i] ELSE tabs[j]
    BY SwapShown
  <2>2. QED BY <2>1
<1>2. DOMAIN tabs' = 1..Len(tabs) /\ DOMAIN tabs = 1..Len(tabs)
  BY <1>1
<1>3. \A j \in 1..Len(tabs) : at(j) \in 1..Len(tabs)
  OBVIOUS
<1>4. \A j, k \in 1..Len(tabs) : j # k => at(j) # at(k)
  OBVIOUS
<1> HIDE DEF at
<1>5. \A j \in DOMAIN tabs' : tabs'[j] \in Tournaments => tabs'[j] \in client'
  BY <1>1, <1>2, <1>3 DEF TabsAreBacked
<1>6. \A j, k \in DOMAIN tabs' : j # k /\ tabs'[j] = tabs'[k] => tabs'[j] = SettingsTab
  BY <1>1, <1>2, <1>3, <1>4 DEF TabsAreBacked
<1>7. QED BY <1>1, <1>5, <1>6 DEF TabsAreBacked

(* Where the loop is, by the indices of the tabs. *)
LEMMA WhereLoopIs ==
  ASSUME WindowInv, sweep # 0
  PROVE  /\ tabs \in Seq(Tabs) /\ before \in Seq(Tabs) /\ Frontier \in Nat /\ Frontier >= 1
         /\ Removed \in Nat /\ Removed < Frontier /\ Len(before) = Len(tabs) + Removed
         /\ \A j \in 1..Len(tabs) : j >= Frontier - 1 => tabs[j] = before[j + Removed]
         /\ \A i \in 1..(Len(before) - 1) : i + 1 < Frontier + Removed =>
              \E j \in 1..Len(tabs) : j < Frontier /\ tabs[j] \in {before[i], before[i + 1]}
<1>1. /\ tabs \in Seq(Tabs) /\ before \in Seq(Tabs)
      /\ Frontier \in Nat /\ Frontier >= 1
  BY DEF WindowInv, Frontier
<1>2. DOMAIN tabs = 1..Len(tabs) /\ Len(tabs) \in Nat /\ Len(before) \in Nat
  BY <1>1
<1>3. Removed \in Nat /\ Removed < Frontier /\ Len(before) = Len(tabs) + Removed
  BY <1>1, <1>2 DEF WindowInv, SweepInv, Removed
<1>4. QED BY <1>1, <1>2, <1>3 DEF WindowInv, SweepInv

(* The loop passes a tab that stays. *)
LEMMA TabPassed ==
  ASSUME WindowInv, sweep # 0, Frontier \in 1..Len(tabs),
         UNCHANGED <<tabs, before>>, Frontier' = Frontier + 1,
         closing' # 0 /\ sweep' # 0 => sweep' = closing' + 1
  PROVE  SweepInv'
<1> DEFINE f == Frontier
           r == Removed
<1>1. /\ tabs \in Seq(Tabs) /\ before \in Seq(Tabs) /\ f \in Nat /\ f >= 1
      /\ r \in Nat /\ r < f /\ Len(before) = Len(tabs) + r /\ f <= Len(tabs)
      /\ Len(tabs) \in Nat /\ DOMAIN tabs = 1..Len(tabs)
  BY WhereLoopIs
<1>2. \A j \in 1..Len(tabs) : j >= f - 1 => tabs[j] = before[j + r]
  BY WhereLoopIs
<1>3. \A i \in 1..(Len(before) - 1) : i + 1 < f + r =>
        \E j \in 1..Len(tabs) : j < f /\ tabs[j] \in {before[i], before[i + 1]}
  BY WhereLoopIs
<1>4. Removed' = r /\ Frontier' = f + 1
  BY DEF Removed
<1> HIDE DEF f, r
<1>5. \A j \in 1..Len(tabs) : j >= f => tabs[j] = before[j + r]
  <2> SUFFICES ASSUME NEW j \in 1..Len(tabs), j >= f PROVE tabs[j] = before[j + r]
    OBVIOUS
  <2>1. j >= f - 1
    BY <1>1
  <2>2. QED BY <1>2, <2>1
<1>6. ASSUME NEW i \in 1..(Len(before) - 1), i + 1 < f + 1 + r
      PROVE  \E j \in 1..Len(tabs) : j < f + 1 /\ tabs[j] \in {before[i], before[i + 1]}
  <2>1. CASE i + 1 < f + r
    <3>1. PICK j \in 1..Len(tabs) : j < f /\ tabs[j] \in {before[i], before[i + 1]}
      BY <1>3, <2>1
    <3>2. j < f + 1
      BY <1>1, <3>1
    <3>3. QED BY <3>1, <3>2
  <2>2. CASE i + 1 = f + r
    <3>1. f \in 1..Len(tabs) /\ f >= f /\ f < f + 1
      BY <1>1
    <3>2. tabs[f] = before[f + r]
      BY <1>5, <3>1
    <3>3. QED BY <2>2, <3>1, <3>2
  <2>3. i + 1 < f + r \/ i + 1 = f + r
    BY <1>1, <1>6
  <2>4. QED BY <2>1, <2>2, <2>3
<1>7. Removed' \in 0..(Frontier' - 1)
  BY <1>1, <1>4
<1>8. \A j \in DOMAIN tabs' : j >= Frontier' - 1 => tabs'[j] = before'[j + Removed']
  <2>1. Frontier' - 1 = f
    BY <1>1, <1>4
  <2>2. QED BY <1>1, <1>4, <1>5, <2>1
<1>9. \A i \in 1..(Len(before') - 1) : i + 1 < Frontier' + Removed' =>
        \E j \in DOMAIN tabs' : j < Frontier' /\ tabs'[j] \in {before'[i], before'[i + 1]}
  BY <1>1, <1>4, <1>6
<1>10. QED BY <1>7, <1>8, <1>9 DEF SweepInv

(* The loop removes a tab, or its dialogue does: the tab behind it slides into
   its place and is stepped over. *)
LEMMA TabRemoved ==
  ASSUME WindowInv, sweep # 0, Frontier \in 1..Len(tabs),
         tabs' = Without(tabs, Frontier), before' = before, Frontier' = Frontier + 1,
         closing' # 0 /\ sweep' # 0 => sweep' = closing' + 1
  PROVE  SweepInv'
<1> DEFINE f == Frontier
           r == Removed
           n == Len(tabs)
<1>1. /\ tabs \in Seq(Tabs) /\ before \in Seq(Tabs) /\ f \in Nat /\ f >= 1
      /\ r \in Nat /\ r < f /\ Len(before) = n + r /\ f <= n /\ n \in Nat
  BY WhereLoopIs
<1>2. \A j \in 1..n : j >= f - 1 => tabs[j] = before[j + r]
  BY WhereLoopIs
<1>3. \A i \in 1..(Len(before) - 1) : i + 1 < f + r =>
        \E j \in 1..n : j < f /\ tabs[j] \in {before[i], before[i + 1]}
  BY WhereLoopIs
<1>4. Without(tabs, f) \in Seq(Tabs) /\ Len(Without(tabs, f)) = n - 1
  BY <1>1, WithoutElements
<1>5. \A j \in 1..(n - 1) : Without(tabs, f)[j] = IF j < f THEN tabs[j] ELSE tabs[j + 1]
  BY <1>1, WithoutElements
<1>6. Frontier' = f + 1 /\ tabs' = Without(tabs, f)
  OBVIOUS
<1>7. Removed' = r + 1
  BY <1>1, <1>4 DEF Removed
<1> HIDE DEF f, r, n
<1>8. DOMAIN tabs' = 1..(n - 1)
  BY <1>1, <1>4, <1>6
<1>9. \A j \in 1..(n - 1) : j < f => tabs'[j] = tabs[j]
  BY <1>5, <1>6
<1>10. ASSUME NEW j \in 1..(n - 1), j >= f PROVE tabs'[j] = before[j + (r + 1)]
  <2>1. tabs'[j] = tabs[j + 1]
    BY <1>1, <1>5, <1>6, <1>10
  <2>2. j + 1 \in 1..n /\ j + 1 >= f - 1
    BY <1>1, <1>10
  <2>3. tabs[j + 1] = before[(j + 1) + r]
    BY <1>2, <2>2
  <2>4. (j + 1) + r = j + (r + 1)
    BY <1>1
  <2>5. QED BY <2>1, <2>3, <2>4
<1>11. ASSUME NEW i \in 1..(Len(before) - 1), i + 1 < (f + 1) + (r + 1)
       PROVE  \E j \in 1..(n - 1) : j < f + 1 /\ tabs'[j] \in {before[i], before[i + 1]}
  <2>1. CASE i + 1 < f + r
    <3>1. PICK j \in 1..n : j < f /\ tabs[j] \in {before[i], before[i + 1]}
      BY <1>3, <2>1
    <3>2. j \in 1..(n - 1) /\ j < f + 1
      BY <1>1, <3>1
    <3>3. QED BY <1>9, <3>1, <3>2
  <2>2. CASE i + 1 = f + r
    <3>1. f - 1 \in 1..(n - 1) /\ f - 1 < f /\ f - 1 < f + 1 /\ (f - 1) + r = i
      BY <1>1, <2>2
    <3>2. f - 1 \in 1..n /\ f - 1 >= f - 1
      BY <1>1, <3>1
    <3>3. tabs[f - 1] = before[(f - 1) + r]
      BY <1>2, <3>2
    <3>4. QED BY <1>9, <3>1, <3>3
  <2>3. CASE i + 1 = f + r + 1
    <3>1. f \in 1..(n - 1) /\ f >= f /\ f < f + 1 /\ f + (r + 1) = i + 1
      BY <1>1, <2>3
    <3>2. tabs'[f] = before[f + (r + 1)]
      BY <1>10, <3>1
    <3>3. QED BY <3>1, <3>2
  <2>4. i + 1 < f + r \/ i + 1 = f + r \/ i + 1 = f + r + 1
    BY <1>1, <1>11
  <2>5. QED BY <2>1, <2>2, <2>3, <2>4
<1>12. Removed' \in 0..(Frontier' - 1)
  BY <1>1, <1>6, <1>7
<1>13. \A j \in DOMAIN tabs' : j >= Frontier' - 1 => tabs'[j] = before'[j + Removed']
  <2>1. Frontier' - 1 = f
    BY <1>1, <1>6
  <2>2. QED BY <1>7, <1>8, <1>10, <2>1
<1>14. \A i \in 1..(Len(before') - 1) : i + 1 < Frontier' + Removed' =>
         \E j \in DOMAIN tabs' : j < Frontier' /\ tabs'[j] \in {before'[i], before'[i + 1]}
  BY <1>6, <1>7, <1>8, <1>11
<1>15. QED BY <1>12, <1>13, <1>14 DEF SweepInv

(* Behind the frontier one of two neighbours is there, at it and before it both. *)
LEMMA SparesNeighbour == WindowInv => SweepSparesNeighbour
<1> SUFFICES ASSUME WindowInv, sweep # 0, NEW i \in 1..(Len(before) - 1)
             PROVE  {before[i], before[i + 1]} \cap Shown(tabs) # {}
  BY DEF SweepSparesNeighbour
<1> DEFINE f == Frontier
           r == Removed
           n == Len(tabs)
<1>1. /\ tabs \in Seq(Tabs) /\ before \in Seq(Tabs) /\ f \in Nat /\ f >= 1
      /\ r \in Nat /\ r < f /\ Len(before) = n + r /\ n \in Nat
  BY WhereLoopIs
<1>2. \A j \in 1..n : j >= f - 1 => tabs[j] = before[j + r]
  BY WhereLoopIs
<1>3. i + 1 < f + r => \E j \in 1..n : j < f /\ tabs[j] \in {before[i], before[i + 1]}
  BY WhereLoopIs
<1>4. \A j \in 1..n : tabs[j] \in Shown(tabs)
  BY <1>1 DEF Shown
<1> HIDE DEF f, r, n
<1>5. CASE i + 1 < f + r
  BY <1>3, <1>4, <1>5
<1>6. CASE i + 1 >= f + r
  <2>1. (i + 1) - r \in 1..n /\ (i + 1) - r >= f - 1 /\ ((i + 1) - r) + r = i + 1
    BY <1>1, <1>6
  <2>2. tabs[(i + 1) - r] = before[((i + 1) - r) + r]
    BY <1>2, <2>1
  <2>3. QED BY <1>4, <2>1, <2>2
<1>7. QED BY <1>1, <1>5, <1>6

-----------------------------------------------------------------------------
(* The steps.                                                              *)

(* Steps that save nothing. *)
LEMMA FilesStay ==
  ASSUME FilesInv, UNCHANGED <<data, saved>>, client' \subseteq client
  PROVE  FilesInv'
<1>1. UNCHANGED <<version, saved, location, disk>>
  BY DEF data
<1>2. QED BY <1>1 DEF FilesInv, SavedIsKept, Located

(* Steps while no loop runs and no dialogue is shown, but those that begin one. *)
LEMMA IdleKeepsWindow ==
  ASSUME WindowInv, Idle, UNCHANGED <<sweep, closing, loop>>,
         tabs' \in Seq(Tabs), Len(tabs') <= MaxTabs, client' \subseteq Tournaments,
         TabsAreBacked'
  PROVE  WindowInv'
<1>1. UNCHANGED <<asker, before>> /\ sweep' = 0 /\ closing' = 0
  BY DEF Idle, loop
<1>2. SweepInv' /\ DialogueIsCurrent'
  BY <1>1 DEF SweepInv, DialogueIsCurrent
<1>3. QED BY <1>1, <1>2, ConstantsAssumption DEF WindowInv, ConstantsAssumption

(* A new process has the dashboard and nothing else. *)
LEMMA RestartKeepsWindow == ASSUME WindowInv, Idle, Restart PROVE WindowInv'
<1>1. tabs' = <<Dashboard>> /\ client' = {} /\ UNCHANGED <<sweep, closing, loop>>
  BY DEF Restart
<1>2. /\ tabs' \in Seq(Tabs) /\ Len(tabs') = 1 /\ DOMAIN tabs' = {1}
      /\ tabs'[1] = Dashboard
  BY <1>1 DEF Tabs
<1>3. Len(tabs') <= MaxTabs
  BY <1>2, ConstantsAssumption DEF ConstantsAssumption
<1>4. TabsAreBacked'
  BY <1>2, ConstantsAssumption DEF TabsAreBacked, Shown, ConstantsAssumption
<1>5. QED BY <1>1, <1>2, <1>3, <1>4, IdleKeepsWindow

(* A tournament that is not in the client gets a tab. *)
LEMMA OpenKeepsWindow ==
  ASSUME WindowInv, Idle, Len(tabs) < MaxTabs, NEW t \in Tournaments \ client,
         NEW p, NEW v, NEW save, Open(t, p, v, save)
  PROVE  WindowInv'
<1>1. /\ tabs' = Append(tabs, t) /\ client' = client \cup {t}
      /\ UNCHANGED <<sweep, closing, loop>>
  BY DEF Open
<1>2. t \in Tabs /\ t # Dashboard
  BY ConstantsAssumption DEF Tabs, ConstantsAssumption
<1>3. tabs' \in Seq(Tabs) /\ Len(tabs') = Len(tabs) + 1 /\ TabsAreBacked'
  BY <1>1, <1>2, AddingKeepsBacking DEF WindowInv
<1>4. Len(tabs') <= MaxTabs
  BY <1>3, ConstantsAssumption DEF WindowInv, ConstantsAssumption
<1>5. client' \subseteq Tournaments
  BY <1>1 DEF WindowInv
<1>6. QED BY <1>1, <1>3, <1>4, <1>5, IdleKeepsWindow

(* Create: what has no place is not in the client. *)
LEMMA CreateInv ==
  ASSUME FilesInv, WindowInv, NEW t \in Tournaments, NEW p \in Paths, Create(t, p)
  PROVE  FilesInv' /\ WindowInv'
<1>1. Idle /\ Len(tabs) < MaxTabs /\ location[t] = NoPath /\ t \notin client
  BY DEF Create, FilesInv, Located
<1>2. CASE /\ \E content \in {Unreadable, disk[p], Copy(t, 0)} :
                disk' = [disk EXCEPT ![p] = content]
           /\ location' = [location EXCEPT ![t] = p]
           /\ Restart
           /\ UNCHANGED <<version, saved>>
  <2>1. client' = {}
    BY <1>2 DEF Restart
  <2>2. FilesInv'
    BY <1>1, <1>2, <2>1, FailedCreateKeepsFiles
  <2>3. QED BY <1>1, <1>2, <2>2, RestartKeepsWindow
<1>3. CASE \E v \in 0..1 : \E save \in SaveOutcomes(Copy(t, 0), t, v) : Open(t, p, v, save)
  <2>1. PICK v \in 0..1 : \E save \in SaveOutcomes(Copy(t, 0), t, v) : Open(t, p, v, save)
    BY <1>3
  <2>2. PICK save \in SaveOutcomes(Copy(t, 0), t, v) : Open(t, p, v, save)
    BY <2>1
  <2>3. v \in 0..MaxVersion /\ Copy(t, 0) \in Copies /\ Copy(t, 0).of = t
    BY ConstantsAssumption DEF ConstantsAssumption, Copy, Copies
  <2>4. FilesInv'
    BY <1>1, <2>2, <2>3, OpenKeepsFiles
  <2>5. QED BY <1>1, <2>2, <2>4, OpenKeepsWindow
<1>4. QED BY <1>2, <1>3 DEF Create

(* Load: a file is where its tournament was made. *)
LEMMA LoadInv ==
  ASSUME FilesInv, WindowInv, NEW p \in Paths, Load(p)
  PROVE  FilesInv' /\ WindowInv'
<1> DEFINE t == disk[p].of
           v == disk[p].version
<1>1. Idle /\ Len(tabs) < MaxTabs /\ disk[p] # Unreadable /\ t \notin client
  BY DEF Load, NotOpenYet
<1>2. disk[p] \in Copies /\ t \in Tournaments /\ v \in 0..MaxVersion /\ location[t] = p
  BY <1>1 DEF FilesInv, Located, Contents, Copies
<1>3. PICK save \in SaveOutcomes(disk[p], t, v) : Open(t, p, v, save)
  BY DEF Load
<1>4. FilesInv'
  BY <1>2, <1>3, OpenKeepsFiles
<1>5. WindowInv'
  BY <1>1, <1>2, <1>3, OpenKeepsWindow
<1>6. QED BY <1>4, <1>5

(* Operate: what is shown is in the client, where it has its place. *)
LEMMA OperateInv ==
  ASSUME FilesInv, WindowInv, NEW t \in Tournaments, Operate(t)
  PROVE  FilesInv' /\ WindowInv'
<1>1. t \in client
  BY DEF Operate, Shown, WindowInv, TabsAreBacked
<1>2. PICK v \in {version[t], version[t] + 1} :
        v <= MaxVersion /\ version' = [version EXCEPT ![t] = v] /\ Save(t, v)
  BY DEF Operate
<1>3. v \in 0..MaxVersion
  BY <1>2, ConstantsAssumption DEF FilesInv, ConstantsAssumption
<1>4. UNCHANGED <<tabs, client, location, sweep, closing, loop>>
  BY DEF Operate, screen
<1>5. FilesInv'
  BY <1>1, <1>2, <1>3, <1>4, SaveKeepsFiles
<1>6. tabs' \in Seq(Tabs) /\ Len(tabs') <= MaxTabs /\ client' \subseteq Tournaments
      /\ TabsAreBacked'
  BY <1>4 DEF WindowInv, TabsAreBacked
<1>7. WindowInv'
  BY <1>4, <1>6, IdleKeepsWindow DEF Operate
<1>8. QED BY <1>5, <1>7

LEMMA OpenSettingsInv ==
  ASSUME FilesInv, WindowInv, OpenSettings
  PROVE  FilesInv' /\ WindowInv'
<1>1. /\ Idle /\ Len(tabs) < MaxTabs /\ tabs' = Append(tabs, SettingsTab)
      /\ UNCHANGED <<client, data, saved, sweep, closing, loop>>
  BY DEF OpenSettings
<1>2. SettingsTab \in Tabs /\ SettingsTab # Dashboard /\ SettingsTab \notin Tournaments
  BY ConstantsAssumption DEF Tabs, ConstantsAssumption
<1>3. tabs' \in Seq(Tabs) /\ Len(tabs') = Len(tabs) + 1 /\ TabsAreBacked'
  BY <1>1, <1>2, AddingKeepsBacking DEF WindowInv
<1>4. Len(tabs') <= MaxTabs /\ client' \subseteq Tournaments
  BY <1>1, <1>3, ConstantsAssumption DEF WindowInv, ConstantsAssumption
<1>5. QED BY <1>1, <1>3, <1>4, FilesStay, IdleKeepsWindow

LEMMA DragTabInv ==
  ASSUME FilesInv, WindowInv, NEW i \in 1..MaxTabs, DragTab(i)
  PROVE  FilesInv' /\ WindowInv'
<1>1. /\ Idle /\ i + 1 <= Len(tabs) /\ tabs' = Swapped(tabs, i)
      /\ UNCHANGED <<client, data, saved, sweep, closing, loop>>
  BY DEF DragTab, Swapped
<1>2. i \in 1..(Len(tabs) - 1)
  BY <1>1 DEF WindowInv
<1>3. tabs' \in Seq(Tabs) /\ Len(tabs') = Len(tabs) /\ TabsAreBacked'
  BY <1>1, <1>2, SwapKeepsBacking DEF WindowInv
<1>4. Len(tabs') <= MaxTabs /\ client' \subseteq Tournaments
  BY <1>1, <1>3 DEF WindowInv
<1>5. QED BY <1>1, <1>3, <1>4, FilesStay, IdleKeepsWindow

LEMMA ExitInv ==
  ASSUME FilesInv, WindowInv, Exit
  PROVE  FilesInv' /\ WindowInv'
<1>1. client' = {} /\ UNCHANGED <<data, saved>> /\ Idle /\ Restart
  BY DEF Exit, Restart
<1>2. QED BY <1>1, FilesStay, RestartKeepsWindow

(* closeTab: the tab stays, goes, or has its user asked. *)
LEMMA CloseTabOutcomes ==
  ASSUME FilesInv, WindowInv, closing = 0, NEW i \in 1..Len(tabs), CloseTab(i)
  PROVE  /\ FilesInv' /\ TabsAreBacked' /\ DialogueIsCurrent'
         /\ tabs' \in Seq(Tabs) /\ Len(tabs') <= MaxTabs /\ client' \subseteq Tournaments
         /\ \/ closing' = 0 /\ tabs' \in {tabs, Without(tabs, i)}
            \/ closing' = i /\ tabs' = tabs
<1> USE DEF WindowInv
<1>1. tabs \in Seq(Tabs) /\ DOMAIN tabs = 1..Len(tabs) /\ Len(tabs) \in Nat
      /\ MaxTabs \in Nat
  BY ConstantsAssumption DEF ConstantsAssumption
<1>2. CASE Refuse(i)
  <2>1. UNCHANGED <<tabs, client, data, saved, closing>>
    BY <1>2 DEF Refuse, screen
  <2>2. FilesInv'
    BY <2>1, FilesStay
  <2>3. QED BY <2>1, <2>2 DEF TabsAreBacked, DialogueIsCurrent
<1>3. ASSUME tabs[i] # Dashboard, tabs' = Without(tabs, i), UNCHANGED <<data, saved, closing>>,
             client' \in {client, client \ {tabs[i]}}
      PROVE  /\ FilesInv' /\ TabsAreBacked' /\ DialogueIsCurrent'
             /\ tabs' \in Seq(Tabs) /\ Len(tabs') <= MaxTabs /\ client' \subseteq Tournaments
             /\ closing' = 0 /\ tabs' \in {tabs, Without(tabs, i)}
  <2>1. tabs' \in Seq(Tabs) /\ Len(tabs') = Len(tabs) - 1 /\ TabsAreBacked'
    BY <1>3, RemovalKeepsBacking
  <2>2. client' \subseteq client /\ client' \subseteq Tournaments
    BY <1>3
  <2>3. FilesInv'
    BY <1>3, <2>2, FilesStay
  <2>4. Len(tabs') <= MaxTabs
    BY <1>1, <2>1
  <2>5. QED BY <1>3, <2>1, <2>2, <2>3, <2>4 DEF DialogueIsCurrent
<1>4. CASE CloseSettings(i)
  BY <1>3, <1>4, ConstantsAssumption DEF CloseSettings, ConstantsAssumption
<1>5. CASE CloseSaved(i)
  BY <1>3, <1>5, ConstantsAssumption DEF CloseSaved, ConstantsAssumption
<1>6. CASE Ask(i)
  <2>1. UNCHANGED <<tabs, client, data, saved>> /\ closing' = i
        /\ tabs[i] \in Tournaments /\ ~saved[tabs[i]]
    BY <1>6 DEF Ask, screen
  <2>2. FilesInv'
    BY <2>1, FilesStay
  <2>3. QED BY <1>1, <2>1, <2>2 DEF TabsAreBacked, DialogueIsCurrent
<1>7. QED BY <1>2, <1>4, <1>5, <1>6 DEF CloseTab

LEMMA CloseRequestedInv ==
  ASSUME FilesInv, WindowInv, NEW i \in 1..MaxTabs, CloseRequested(i)
  PROVE  FilesInv' /\ WindowInv'
<1>1. closing = 0 /\ sweep = 0 /\ i \in 1..Len(tabs) /\ CloseTab(i)
      /\ UNCHANGED <<sweep, asker, before>>
  BY DEF CloseRequested, Idle, WindowInv, loop
<1>2. /\ FilesInv' /\ TabsAreBacked' /\ DialogueIsCurrent'
      /\ tabs' \in Seq(Tabs) /\ Len(tabs') <= MaxTabs /\ client' \subseteq Tournaments
      /\ closing' \in {0, i}
  BY <1>1, CloseTabOutcomes
<1>3. SweepInv'
  BY <1>1 DEF SweepInv
<1>4. closing' \in 0..MaxTabs
  BY <1>2, ConstantsAssumption DEF ConstantsAssumption
<1>5. QED BY <1>1, <1>2, <1>3, <1>4 DEF WindowInv

(* At the beginning of a loop nothing is removed and nothing is behind it. *)
LEMMA CloseSignalInv ==
  ASSUME FilesInv, WindowInv, NEW i \in 1..MaxTabs, CloseSignal(i)
  PROVE  FilesInv' /\ WindowInv'
<1>1. closing' = 0 /\ sweep' = 1 /\ i \in 1..Len(tabs) /\ asker' = tabs[i] /\ before' = tabs
      /\ UNCHANGED <<tabs, client, data, saved>>
  BY DEF CloseSignal, Idle, WindowInv, screen
<1>2. FilesInv'
  BY <1>1, FilesStay
<1>3. tabs \in Seq(Tabs) /\ DOMAIN tabs = 1..Len(tabs) /\ Len(tabs) \in Nat
      /\ MaxTabs \in Nat
  BY ConstantsAssumption DEF WindowInv, ConstantsAssumption
<1>4. Frontier' = 1 /\ Removed' = 0
  BY <1>1, <1>3 DEF Frontier, Removed
<1>5. SweepInv'
  BY <1>1, <1>3, <1>4 DEF SweepInv
<1>6. TabsAreBacked' /\ DialogueIsCurrent'
  BY <1>1 DEF WindowInv, TabsAreBacked, DialogueIsCurrent
<1>7. QED BY <1>1, <1>2, <1>3, <1>5, <1>6 DEF WindowInv

LEMMA SweepTabInv ==
  ASSUME FilesInv, WindowInv, SweepTab
  PROVE  FilesInv' /\ WindowInv'
<1>1. closing = 0 /\ sweep \in 1..Len(tabs) /\ CloseTab(sweep) /\ sweep' = sweep + 1
      /\ UNCHANGED <<asker, before>>
  BY DEF SweepTab, loop
<1>2. /\ FilesInv' /\ TabsAreBacked' /\ DialogueIsCurrent'
      /\ tabs' \in Seq(Tabs) /\ Len(tabs') <= MaxTabs /\ client' \subseteq Tournaments
      /\ \/ closing' = 0 /\ tabs' \in {tabs, Without(tabs, sweep)}
         \/ closing' = sweep /\ tabs' = tabs
  BY <1>1, CloseTabOutcomes
<1>3. Frontier = sweep /\ sweep # 0 /\ sweep \in Nat /\ Len(tabs) \in Nat
      /\ Len(tabs) <= MaxTabs /\ MaxTabs \in Nat
  BY <1>1, ConstantsAssumption DEF Frontier, WindowInv, ConstantsAssumption
<1>4. SweepInv'
  <2>1. CASE closing' = 0
    <3>1. Frontier' = Frontier + 1
      BY <1>1, <1>3, <2>1 DEF Frontier
    <3>2. CASE tabs' = tabs
      BY <1>1, <1>3, <2>1, <3>1, <3>2, TabPassed
    <3>3. CASE tabs' = Without(tabs, sweep)
      BY <1>1, <1>3, <2>1, <3>1, <3>3, TabRemoved
    <3>4. QED BY <1>2, <1>3, <2>1, <3>2, <3>3
  <2>2. CASE closing' = sweep /\ tabs' = tabs
    <3>1. Frontier' = Frontier /\ Removed' = Removed
      BY <1>1, <1>3, <2>2 DEF Frontier, Removed
    <3>2. QED BY <1>1, <1>3, <2>2, <3>1 DEF SweepInv, WindowInv
  <2>3. QED BY <1>2, <2>1, <2>2
<1>5. sweep' \in 0..MaxTabs + 1 /\ closing' \in 0..MaxTabs
  BY <1>1, <1>2, <1>3
<1>6. QED BY <1>1, <1>2, <1>4, <1>5 DEF WindowInv

LEMMA SweepDoneInv ==
  ASSUME FilesInv, WindowInv, SweepDone
  PROVE  FilesInv' /\ WindowInv'
<1>1. closing' = 0 /\ sweep' = 0 /\ asker' = Dashboard /\ before' = <<Dashboard>>
      /\ UNCHANGED <<tabs, client, data, saved>>
  BY DEF SweepDone, screen
<1>2. FilesInv'
  BY <1>1, FilesStay
<1>3. SweepInv' /\ DialogueIsCurrent' /\ TabsAreBacked'
  BY <1>1 DEF SweepInv, DialogueIsCurrent, WindowInv, TabsAreBacked
<1>4. asker' \in Tabs /\ before' \in Seq(Tabs) /\ MaxTabs \in Nat
  BY <1>1, ConstantsAssumption DEF Tabs, ConstantsAssumption
<1>5. QED BY <1>1, <1>2, <1>3, <1>4 DEF WindowInv

(* The tab the dialogue is about goes; a loop goes on with the next index. *)
LEMMA DismissKeepsWindow ==
  ASSUME WindowInv, closing # 0, Dismiss
  PROVE  WindowInv'
<1> USE DEF WindowInv
<1>1. /\ tabs' = Without(tabs, closing) /\ closing' = 0
      /\ UNCHANGED <<client, sweep, asker, before>>
  BY DEF Dismiss, loop
<1>2. closing \in 1..Len(tabs) /\ tabs[closing] # Dashboard
  BY ConstantsAssumption DEF DialogueIsCurrent, ConstantsAssumption
<1>3. tabs' \in Seq(Tabs) /\ Len(tabs') = Len(tabs) - 1 /\ TabsAreBacked'
  BY <1>1, <1>2, RemovalKeepsBacking
<1>4. Len(tabs') <= MaxTabs /\ 0 \in 0..MaxTabs
  BY <1>3, ConstantsAssumption DEF ConstantsAssumption
<1>5. SweepInv'
  <2>1. CASE sweep = 0
    BY <1>1, <2>1 DEF SweepInv
  <2>2. CASE sweep # 0
    <3>1. Frontier = closing /\ sweep = closing + 1 /\ Frontier' = sweep
      BY <1>1, <2>2 DEF Frontier, SweepInv
    <3>2. QED BY <1>1, <1>2, <2>2, <3>1, TabRemoved
  <2>3. QED BY <2>1, <2>2
<1>6. DialogueIsCurrent'
  BY <1>1 DEF DialogueIsCurrent
<1>7. QED BY <1>1, <1>3, <1>4, <1>5, <1>6

LEMMA AnswerDiscardInv ==
  ASSUME FilesInv, WindowInv, AnswerDiscard
  PROVE  FilesInv' /\ WindowInv'
<1>1. closing # 0 /\ Dismiss /\ client' = client /\ UNCHANGED <<data, saved>>
  BY DEF AnswerDiscard, Dismiss, data
<1>2. QED BY <1>1, FilesStay, DismissKeepsWindow

LEMMA AnswerCancelInv ==
  ASSUME FilesInv, WindowInv, AnswerCancel
  PROVE  FilesInv' /\ WindowInv'
<1> USE DEF WindowInv
<1>1. closing # 0 /\ closing' = 0 /\ UNCHANGED <<tabs, client, data, saved, sweep, asker, before>>
  BY DEF AnswerCancel, screen, loop
<1>2. FilesInv'
  BY <1>1, FilesStay
<1>3. SweepInv'
  <2>1. CASE sweep = 0
    BY <1>1, <2>1 DEF SweepInv
  <2>2. CASE sweep # 0
    <3>1. Frontier = closing /\ sweep = closing + 1 /\ Frontier' = sweep
      BY <1>1, <2>2 DEF Frontier, SweepInv
    <3>2. Frontier \in 1..Len(tabs)
      BY <1>1, <3>1 DEF DialogueIsCurrent
    <3>3. QED BY <1>1, <2>2, <3>1, <3>2, TabPassed
  <2>3. QED BY <2>1, <2>2
<1>4. DialogueIsCurrent' /\ TabsAreBacked' /\ 0 \in 0..MaxTabs
  BY <1>1, ConstantsAssumption DEF DialogueIsCurrent, TabsAreBacked, ConstantsAssumption
<1>5. QED BY <1>1, <1>2, <1>3, <1>4

(* The save that the dialogue offers, whatever comes of it. *)
LEMMA DialogueSaves ==
  ASSUME FilesInv, WindowInv, closing # 0, Save(tabs[closing], version[tabs[closing]]),
         UNCHANGED <<version, location, client>>
  PROVE  FilesInv'
<1> DEFINE t == tabs[closing]
<1>1. t \in client
  BY DEF WindowInv, DialogueIsCurrent, TabsAreBacked
<1>2. t \in Tournaments
  BY <1>1 DEF WindowInv
<1>3. version[t] \in 0..MaxVersion /\ version' = [version EXCEPT ![t] = version[t]]
  BY <1>2 DEF FilesInv
<1>4. QED BY <1>1, <1>3, SaveKeepsFiles

LEMMA AnswerSaveInv ==
  ASSUME FilesInv, WindowInv, AnswerSave
  PROVE  FilesInv' /\ WindowInv'
<1>1. closing # 0 /\ Save(tabs[closing], version[tabs[closing]]) /\ Dismiss
      /\ UNCHANGED <<version, location, client>>
  BY DEF AnswerSave, Dismiss
<1>2. QED BY <1>1, DialogueSaves, DismissKeepsWindow

LEMMA AnswerSaveFailsInv ==
  ASSUME FilesInv, WindowInv, AnswerSaveFails
  PROVE  FilesInv' /\ WindowInv'
<1>1. closing # 0 /\ Save(tabs[closing], version[tabs[closing]]) /\ ~saved'[tabs[closing]]
      /\ UNCHANGED <<tabs, client, version, location, sweep, closing, asker, before>>
  BY DEF AnswerSaveFails, screen, loop
<1>2. FilesInv'
  BY <1>1, DialogueSaves
<1>3. SweepInv' /\ TabsAreBacked' /\ DialogueIsCurrent'
  BY <1>1 DEF WindowInv, SweepInv, Frontier, Removed, TabsAreBacked, DialogueIsCurrent
<1>4. QED BY <1>1, <1>2, <1>3 DEF WindowInv

-----------------------------------------------------------------------------
LEMMA InitInv == Init => IInv
<1> SUFFICES ASSUME Init PROVE FilesInv /\ WindowInv
  BY PartsOfInvariant
<1> USE ConstantsAssumption DEF ConstantsAssumption, Init
<1>1. /\ tabs \in Seq(Tabs) /\ Len(tabs) = 1 /\ DOMAIN tabs = {1} /\ tabs[1] = Dashboard
      /\ before \in Seq(Tabs) /\ asker \in Tabs
  BY DEF Tabs
<1>2. TabsAreBacked /\ DialogueIsCurrent /\ SweepInv
  BY <1>1 DEF TabsAreBacked, DialogueIsCurrent, SweepInv, Shown
<1>3. WindowInv
  BY <1>1, <1>2 DEF WindowInv
<1>4. FilesInv
  BY DEF FilesInv, SavedIsKept, Located, Contents
<1>5. QED BY <1>3, <1>4

LEMMA StepInv == IInv /\ [Next]_vars => IInv'
<1> SUFFICES ASSUME FilesInv, WindowInv, [Next]_vars PROVE FilesInv' /\ WindowInv'
  BY PartsOfInvariant DEF IInv, TypeOK, FilesInv, WindowInv
<1>1. ASSUME NEW t \in Tournaments, Operate(t) PROVE FilesInv' /\ WindowInv'
  BY <1>1, OperateInv
<1>2. ASSUME NEW t \in Tournaments, NEW p \in Paths, Create(t, p) PROVE FilesInv' /\ WindowInv'
  BY <1>2, CreateInv
<1>3. ASSUME NEW p \in Paths, Load(p) PROVE FilesInv' /\ WindowInv'
  BY <1>3, LoadInv
<1>4. ASSUME NEW i \in 1..MaxTabs, DragTab(i) PROVE FilesInv' /\ WindowInv'
  BY <1>4, DragTabInv
<1>5. ASSUME NEW i \in 1..MaxTabs, CloseRequested(i) PROVE FilesInv' /\ WindowInv'
  BY <1>5, CloseRequestedInv
<1>6. ASSUME NEW i \in 1..MaxTabs, CloseSignal(i) PROVE FilesInv' /\ WindowInv'
  BY <1>6, CloseSignalInv
<1>7. CASE UNCHANGED vars
  <2>1. UNCHANGED <<tabs, client, version, saved, location, disk, sweep, closing, asker, before>>
    BY <1>7 DEF vars
  <2>2. FilesInv'
    BY <2>1 DEF FilesInv, SavedIsKept, Located
  <2>3. WindowInv'
    BY <2>1 DEF WindowInv, TabsAreBacked, DialogueIsCurrent, SweepInv, Frontier, Removed
  <2>4. QED BY <2>2, <2>3
<1>8. QED
  BY <1>1, <1>2, <1>3, <1>4, <1>5, <1>6, <1>7, OpenSettingsInv, SweepTabInv, SweepDoneInv,
     AnswerDiscardInv, AnswerCancelInv, AnswerSaveInv, AnswerSaveFailsInv, ExitInv
     DEF Next, Sweep

(* IInv is inductive: the parts about the files, about the tabs and about the
   loop need each other. *)
THEOREM Invariant == Spec => []IInv
<1>1. QED BY InitInv, StepInv, PTL DEF Spec

(* TypeOK for any tournaments, paths and bounds: tabs, loop and dialogue stay
   within the tabs there may be, and the files hold tournaments. *)
THEOREM TypeCorrect == Spec => []TypeOK
<1>1. IInv => TypeOK
  BY DEF IInv
<1>2. QED BY <1>1, Invariant, PTL

(* TabsAreBacked: whatever closes a tab, in a loop or not, no other tab loses
   the data its widgets ask for, and the dashboard stays. *)
THEOREM ShownIsBacked == Spec => []TabsAreBacked
<1>1. IInv => TabsAreBacked
  BY DEF IInv
<1>2. QED BY <1>1, Invariant, PTL

(* DialogueIsCurrent: the index closeTab kept while its dialogue was shown
   still is that of the unsaved tournament. *)
THEOREM AnswerFindsItsTab == Spec => []DialogueIsCurrent
<1>1. IInv => DialogueIsCurrent
  BY DEF IInv
<1>2. QED BY <1>1, Invariant, PTL

(* SavedIsKept: the saved flag is the truth about the file, for tournaments
   shown, closed and left behind by an earlier process. *)
THEOREM FlagIsTrue == Spec => []SavedIsKept
<1>1. IInv => SavedIsKept
  BY DEF IInv
<1>2. QED BY <1>1, Invariant, PTL

(* SweepSparesNeighbour: the loop of addTab, with its index that goes up over
   a removed tab, never closes two neighbours, however many tabs there are. *)
THEOREM LoopSparesNeighbour == Spec => []SweepSparesNeighbour
<1>1. IInv => SweepSparesNeighbour
  BY PartsOfInvariant, SparesNeighbour
<1>2. QED BY <1>1, Invariant, PTL

-----------------------------------------------------------------------------
(* What leaves the screen.                                                 *)

(* A tab that is removed takes its tournament from the screen, and no other. *)
LEMMA RemovedShown ==
  ASSUME tabs \in Seq(Tabs), TabsAreBacked, NEW i \in 1..Len(tabs), tabs' = Without(tabs, i),
         NEW u \in Tournaments
  PROVE  u \in Shown(tabs') <=> u \in Shown(tabs) /\ u # tabs[i]
<1>1. DOMAIN tabs = 1..Len(tabs) /\ u # SettingsTab
  BY ConstantsAssumption DEF ConstantsAssumption
<1>2. /\ Shown(tabs') \subseteq Shown(tabs)
      /\ \A j \in 1..Len(tabs) : j # i => tabs[j] \in Shown(tabs')
  BY WithoutShown
<1>3. u \in Shown(tabs) /\ u # tabs[i] => u \in Shown(tabs')
  BY <1>1, <1>2 DEF Shown
<1>4. ASSUME u \in Shown(tabs'), u = tabs[i] PROVE FALSE
  <2>1. /\ tabs' \in Seq(Tabs) /\ Len(tabs') = Len(tabs) - 1
        /\ \A j \in 1..(Len(tabs) - 1) : tabs'[j] = IF j < i THEN tabs[j] ELSE tabs[j + 1]
    BY WithoutElements
  <2>2. PICK j \in 1..(Len(tabs) - 1) : tabs'[j] = u
    BY <1>4, <2>1 DEF Shown
  <2>3. \E k \in 1..Len(tabs) : k # i /\ tabs[k] = u
    BY <2>1, <2>2
  <2>4. QED BY <1>1, <1>4, <2>3 DEF TabsAreBacked
<1>5. QED BY <1>2, <1>3, <1>4

(* What is added or moved hides nothing. *)
LEMMA NothingHidden ==
  ASSUME WindowInv, FilesInv, NEW t \in Tournaments, t \in Shown(tabs),
         \/ tabs' = tabs
         \/ \E u \in Tabs : tabs' = Append(tabs, u)
         \/ \E i \in 1..MaxTabs : DragTab(i)
  PROVE  t \in Shown(tabs')
<1>1. tabs \in Seq(Tabs)
  BY DEF WindowInv
<1>2. ASSUME NEW u \in Tabs, tabs' = Append(tabs, u) PROVE t \in Shown(tabs')
  BY <1>1, <1>2, AppendShown
<1>3. ASSUME NEW i \in 1..MaxTabs, DragTab(i) PROVE t \in Shown(tabs')
  <2>1. tabs' = Swapped(tabs, i) /\ i \in 1..(Len(tabs) - 1)
    BY <1>1, <1>3 DEF DragTab, Swapped
  <2>2. QED BY <1>1, <2>1, SwapShown
<1>4. QED BY <1>2, <1>3

(* A tab that closeTab removes at once holds a saved tournament or none. *)
LEMMA OnlySavedIsClosed ==
  ASSUME WindowInv, NEW t \in Tournaments, t \in Shown(tabs), ~saved[t],
         NEW i \in 1..Len(tabs), CloseTab(i)
  PROVE  t \in Shown(tabs')
<1>1. tabs \in Seq(Tabs) /\ TabsAreBacked
  BY DEF WindowInv
<1>2. CASE tabs' = tabs
  BY <1>2
<1>3. CASE CloseSettings(i)
  BY <1>1, <1>3, RemovedShown, ConstantsAssumption DEF CloseSettings, ConstantsAssumption
<1>4. CASE CloseSaved(i)
  BY <1>1, <1>4, RemovedShown DEF CloseSaved
<1>5. QED BY <1>2, <1>3, <1>4 DEF CloseTab, Refuse, Ask, screen

LEMMA StepNoSilentLoss ==
  ASSUME IInv, [Next]_vars, NEW t \in Tournaments,
         t \in Shown(tabs), ~saved[t], t \notin Shown(tabs')
  PROVE  (closing # 0 /\ tabs[closing] = t) \/ client' = {}
<1>1. FilesInv /\ WindowInv
  BY PartsOfInvariant
<1>2. tabs \in Seq(Tabs) /\ TabsAreBacked /\ DialogueIsCurrent
  BY <1>1 DEF WindowInv
<1>3. tabs' # tabs
  OBVIOUS
<1>4. ASSUME NEW u \in Tournaments, NEW p, NEW v, NEW save, Open(u, p, v, save) PROVE FALSE
  BY <1>1, <1>4, NothingHidden DEF Open, Tabs
<1>5. ASSUME NEW u \in Tournaments, NEW p \in Paths, Create(u, p) PROVE client' = {}
  BY <1>4, <1>5 DEF Create, Restart
<1>6. ASSUME NEW p \in Paths, Load(p) PROVE FALSE
  <2>1. disk[p].of \in Tournaments
    BY <1>1, <1>6 DEF Load, FilesInv, Contents, Copies
  <2>2. QED BY <1>4, <1>6, <2>1 DEF Load
<1>7. ASSUME NEW i \in 1..MaxTabs, DragTab(i) PROVE FALSE
  BY <1>1, <1>7, NothingHidden
<1>8. OpenSettings => FALSE
  BY <1>1, NothingHidden DEF OpenSettings, Tabs
<1>9. ASSUME NEW i \in 1..MaxTabs, CloseRequested(i) PROVE FALSE
  <2>1. i \in 1..Len(tabs) /\ CloseTab(i)
    BY <1>2, <1>9 DEF CloseRequested
  <2>2. QED BY <1>1, <2>1, OnlySavedIsClosed
<1>10. SweepTab => FALSE
  BY <1>1, OnlySavedIsClosed DEF SweepTab
<1>11. ASSUME closing # 0, Dismiss PROVE tabs[closing] = t
  <2>1. closing \in 1..Len(tabs) /\ tabs' = Without(tabs, closing)
    BY <1>2, <1>11 DEF DialogueIsCurrent, Dismiss
  <2>2. QED BY <1>2, <2>1, RemovedShown
<1>12. Exit => client' = {}
  BY DEF Exit, Restart
<1>13. ASSUME NEW u \in Tournaments, Operate(u) PROVE FALSE
  BY <1>3, <1>13 DEF Operate, screen
<1>14. ASSUME NEW i \in 1..MaxTabs, CloseSignal(i) PROVE FALSE
  BY <1>3, <1>14 DEF CloseSignal, screen
<1>15. SweepDone \/ AnswerCancel \/ AnswerSaveFails \/ UNCHANGED vars => FALSE
  BY <1>3 DEF SweepDone, AnswerCancel, AnswerSaveFails, screen, vars
<1>16. QED
  BY <1>5, <1>6, <1>7, <1>8, <1>9, <1>10, <1>11, <1>12, <1>13, <1>14, <1>15
     DEF Next, Sweep, AnswerDiscard, AnswerSave

(* NoSilentLoss: no step of a loop, of a cross or of the tab bar takes an
   unsaved tournament from the screen; only its own dialogue does, or the end
   of the program. *)
THEOREM NothingLostInSilence == Spec => NoSilentLoss
<1>1. IInv /\ [Next]_vars =>
        [\A t \in Tournaments :
           /\ t \in Shown(tabs) /\ ~saved[t]
           /\ t \notin Shown(tabs')
           => (closing # 0 /\ tabs[closing] = t) \/ client' = {}]_vars
  BY StepNoSilentLoss
<1>2. QED BY <1>1, Invariant, PTL DEF Spec, NoSilentLoss

-----------------------------------------------------------------------------
(* The life of a tournament.                                               *)

stages == [t \in Tournaments |-> Stage(t)]

(* Stage of a tournament depends on where it is, not on the other ones. *)
LEMMA SameStage ==
  ASSUME NEW u \in Tournaments, u \in client' <=> u \in client,
         u \in Shown(tabs') <=> u \in Shown(tabs), location'[u] = location[u]
  PROVE  Stage(u)' = Stage(u)
BY DEF Stage

LEMMA StagesStay ==
  ASSUME UNCHANGED <<client, location>>,
         \A u \in Tournaments : u \in Shown(tabs') <=> u \in Shown(tabs)
  PROVE  UNCHANGED stages
<1>1. \A u \in Tournaments : Stage(u)' = Stage(u)
  BY SameStage
<1>2. QED BY <1>1 DEF stages

(* One tournament goes from a stage to another. *)
LEMMA OneStage ==
  ASSUME NEW t \in Tournaments, NEW to, Stage(t)' = to,
         \A u \in Tournaments \ {t} : Stage(u)' = Stage(u)
  PROVE  stages' = [stages EXCEPT ![t] = to]
<1>1. \A u \in Tournaments : stages[u] = Stage(u) /\ stages[u]' = Stage(u)'
  BY DEF stages
<1>2. QED BY <1>1 DEF stages

(* A new tab for a tournament that is not in the client. *)
LEMMA OpenIsOpen ==
  ASSUME FilesInv, WindowInv, NEW t \in Tournaments \ client, NEW p \in Paths, NEW v, NEW save,
         Open(t, p, v, save)
  PROVE  Life!Open(t)
<1>1. /\ tabs' = Append(tabs, t) /\ client' = client \cup {t}
      /\ location' = [location EXCEPT ![t] = p]
  BY DEF Open
<1>2. Shown(tabs') = Shown(tabs) \cup {t}
  BY <1>1, AppendShown DEF WindowInv, Tabs
<1>3. Stage(t) \in {"new", "closed"} /\ Stage(t)' = "open"
  BY <1>1, <1>2 DEF Stage
<1>4. \A u \in Tournaments \ {t} : Stage(u)' = Stage(u)
  <2> SUFFICES ASSUME NEW u \in Tournaments \ {t} PROVE Stage(u)' = Stage(u)
    OBVIOUS
  <2>1. location'[u] = location[u]
    BY <1>1 DEF FilesInv
  <2>2. QED BY <1>1, <1>2, <2>1, SameStage
<1>5. stages' = [stages EXCEPT ![t] = "open"] /\ stages[t] \in {"new", "closed"}
  <2>1. stages' = [stages EXCEPT ![t] = "open"]
    BY <1>3, <1>4, OneStage
  <2>2. QED BY <1>3, <2>1 DEF stages
<1>6. QED BY <1>5 DEF Life!Open, stages

(* The process ends: what was made, or tried to be made, has a place. *)
LEMMA RestartIsQuit ==
  ASSUME FilesInv, Restart, NEW made \in SUBSET Tournaments,
         \A u \in Tournaments : location'[u] = NoPath <=> location[u] = NoPath /\ u \notin made
  PROVE  Life!Quit
<1>1. client' = {}
  BY DEF Restart
<1>2. \A u \in Tournaments : u \in client => location[u] # NoPath
  BY DEF FilesInv, Located
<1>3. \A u \in Tournaments :
        Stage(u)' = IF Stage(u) = "new" /\ u \notin made THEN "new" ELSE "closed"
  BY <1>1, <1>2 DEF Stage
<1>4. \A u \in Tournaments : stages[u] = Stage(u)
  BY DEF stages
<1>5. stages' = [u \in Tournaments |->
                   IF stages[u] = "new" /\ u \notin made THEN "new" ELSE "closed"]
  BY <1>3, <1>4 DEF stages
<1>6. QED BY <1>5 DEF Life!Quit, stages

(* The tab at i goes, and its tournament from the client or not. *)
LEMMA RemovalIsEnd ==
  ASSUME FilesInv, WindowInv, NEW i \in 1..Len(tabs), NEW t \in Tournaments, tabs[i] = t,
         tabs' = Without(tabs, i), location' = location
  PROVE  /\ client' = client \ {t} => Life!Close(t)
         /\ client' = client => Life!Dismiss(t)
<1>1. /\ tabs \in Seq(Tabs) /\ TabsAreBacked /\ DOMAIN tabs = 1..Len(tabs)
  BY DEF WindowInv
<1>2. t \in client /\ t \in Shown(tabs) /\ location[t] # NoPath
  BY <1>1 DEF TabsAreBacked, Shown, FilesInv, Located
<1>3. \A u \in Tournaments : u \in Shown(tabs') <=> u \in Shown(tabs) /\ u # t
  BY <1>1, RemovedShown
<1>4. stages[t] = "open"
  BY <1>2 DEF stages, Stage
<1>5. ASSUME client' \in {client, client \ {t}} PROVE \A u \in Tournaments \ {t} : Stage(u)' = Stage(u)
  <2> SUFFICES ASSUME NEW u \in Tournaments \ {t} PROVE Stage(u)' = Stage(u)
    OBVIOUS
  <2>1. u \in client' <=> u \in client
    BY <1>5
  <2>2. QED BY <1>3, <2>1, SameStage
<1>6. ASSUME client' = client \ {t} PROVE Life!Close(t)
  <2>1. Stage(t)' = "closed"
    BY <1>2, <1>6 DEF Stage
  <2>2. stages' = [stages EXCEPT ![t] = "closed"]
    BY <1>5, <1>6, <2>1, OneStage
  <2>3. QED BY <1>4, <2>2 DEF Life!Close, stages
<1>7. ASSUME client' = client PROVE Life!Dismiss(t)
  <2>1. Stage(t)' = "dismissed"
    BY <1>2, <1>3, <1>7 DEF Stage
  <2>2. stages' = [stages EXCEPT ![t] = "dismissed"]
    BY <1>5, <1>7, <2>1, OneStage
  <2>3. QED BY <1>4, <2>2 DEF Life!Dismiss, stages
<1>8. QED BY <1>6, <1>7

LEMMA CloseTabIsLife ==
  ASSUME FilesInv, WindowInv, NEW i \in 1..Len(tabs), CloseTab(i)
  PROVE  Life!Next \/ UNCHANGED stages
<1>1. tabs \in Seq(Tabs) /\ TabsAreBacked
  BY DEF WindowInv
<1>2. CASE Refuse(i) \/ Ask(i)
  BY <1>2, StagesStay DEF Refuse, Ask, screen, data
<1>3. CASE CloseSettings(i)
  <2>1. UNCHANGED <<client, location>> /\ tabs[i] \notin Tournaments /\ tabs' = Without(tabs, i)
    BY <1>3, ConstantsAssumption DEF CloseSettings, ConstantsAssumption, data
  <2>2. \A u \in Tournaments : u \in Shown(tabs') <=> u \in Shown(tabs)
    BY <1>1, <2>1, RemovedShown
  <2>3. QED BY <2>1, <2>2, StagesStay
<1>4. CASE CloseSaved(i)
  <2>1. Life!Close(tabs[i]) /\ tabs[i] \in Tournaments
    BY <1>4, RemovalIsEnd DEF CloseSaved, data
  <2>2. QED BY <2>1 DEF Life!Next
<1>5. QED BY <1>2, <1>3, <1>4 DEF CloseTab

LEMMA StepLife ==
  ASSUME IInv, [Next]_vars
  PROVE  Life!Next \/ UNCHANGED stages
<1>1. FilesInv /\ WindowInv
  BY PartsOfInvariant
<1>2. tabs \in Seq(Tabs) /\ TabsAreBacked /\ DialogueIsCurrent
  BY <1>1 DEF WindowInv
<1>3. ASSUME UNCHANGED <<tabs, client, location>> PROVE UNCHANGED stages
  BY <1>3, StagesStay
<1>4. ASSUME NEW t \in Tournaments, NEW p \in Paths, Create(t, p) PROVE Life!Next
  <2>1. location[t] = NoPath /\ t \notin client
    BY <1>1, <1>4 DEF Create, FilesInv, Located
  <2>2. ASSUME NEW v, NEW save, Open(t, p, v, save) PROVE Life!Next
    <3>1. Life!Open(t)
      BY <1>1, <2>1, <2>2, OpenIsOpen
    <3>2. QED BY <3>1 DEF Life!Next
  <2>3. ASSUME Restart, location' = [location EXCEPT ![t] = p] PROVE Life!Next
    <3>1. \A u \in Tournaments : location'[u] = NoPath <=> location[u] = NoPath /\ u \notin {t}
      BY <1>1, <2>3, ConstantsAssumption DEF FilesInv, ConstantsAssumption
    <3>2. Life!Quit
      BY <1>1, <2>3, <3>1, RestartIsQuit
    <3>3. QED BY <3>2 DEF Life!Next
  <2>4. QED BY <1>4, <2>2, <2>3 DEF Create
<1>5. ASSUME NEW p \in Paths, Load(p) PROVE Life!Next
  <2>1. disk[p].of \in Tournaments \ client
    BY <1>1, <1>5 DEF Load, NotOpenYet, FilesInv, Contents, Copies
  <2>2. PICK v, save : Open(disk[p].of, p, v, save)
    BY <1>5 DEF Load
  <2>3. Life!Open(disk[p].of)
    BY <1>1, <2>1, <2>2, OpenIsOpen
  <2>4. QED BY <2>1, <2>3 DEF Life!Next
<1>6. ASSUME NEW i \in 1..MaxTabs, DragTab(i) PROVE UNCHANGED stages
  <2>1. tabs' = Swapped(tabs, i) /\ i \in 1..(Len(tabs) - 1) /\ UNCHANGED <<client, location>>
    BY <1>2, <1>6 DEF DragTab, Swapped, data
  <2>2. Shown(tabs') = Shown(tabs)
    BY <1>2, <2>1, SwapShown
  <2>3. QED BY <2>1, <2>2, StagesStay
<1>7. ASSUME OpenSettings PROVE UNCHANGED stages
  <2>1. tabs' = Append(tabs, SettingsTab) /\ UNCHANGED <<client, location>>
    BY <1>7 DEF OpenSettings, data
  <2>2. Shown(tabs') = Shown(tabs) \cup {SettingsTab} /\ SettingsTab \notin Tournaments
    BY <1>2, <2>1, AppendShown, ConstantsAssumption DEF Tabs, ConstantsAssumption
  <2>3. QED BY <2>1, <2>2, StagesStay
<1>8. ASSUME NEW i \in 1..MaxTabs, CloseRequested(i) PROVE Life!Next \/ UNCHANGED stages
  <2>1. i \in 1..Len(tabs) /\ CloseTab(i)
    BY <1>2, <1>8 DEF CloseRequested
  <2>2. QED BY <1>1, <2>1, CloseTabIsLife
<1>9. SweepTab => Life!Next \/ UNCHANGED stages
  BY <1>1, CloseTabIsLife DEF SweepTab
<1>10. ASSUME closing # 0, Dismiss PROVE Life!Next
  <2>1. /\ closing \in 1..Len(tabs) /\ tabs[closing] \in Tournaments
        /\ tabs' = Without(tabs, closing) /\ UNCHANGED <<client, location>>
    BY <1>2, <1>10 DEF DialogueIsCurrent, Dismiss
  <2>2. Life!Dismiss(tabs[closing])
    BY <1>1, <2>1, RemovalIsEnd
  <2>3. QED BY <2>1, <2>2 DEF Life!Next
<1>11. ASSUME Exit PROVE Life!Next
  <2>1. Restart /\ \A u \in Tournaments : location'[u] = NoPath <=> location[u] = NoPath /\ u \notin {}
    BY <1>11 DEF Exit, data
  <2>2. PICK made \in SUBSET Tournaments : made = {}
    OBVIOUS
  <2>3. Life!Quit
    BY <1>1, <2>1, <2>2, RestartIsQuit
  <2>4. QED BY <2>3 DEF Life!Next
<1>12. ASSUME NEW t \in Tournaments, Operate(t) PROVE UNCHANGED stages
  BY <1>3, <1>12 DEF Operate, screen
<1>13. ASSUME NEW i \in 1..MaxTabs, CloseSignal(i) PROVE UNCHANGED stages
  BY <1>3, <1>13 DEF CloseSignal, screen, data
<1>14. SweepDone \/ AnswerCancel \/ AnswerSaveFails \/ UNCHANGED vars => UNCHANGED stages
  BY <1>3 DEF SweepDone, AnswerCancel, AnswerSaveFails, screen, data, vars
<1>15. QED
  BY <1>4, <1>5, <1>6, <1>7, <1>8, <1>9, <1>10, <1>11, <1>12, <1>13, <1>14
     DEF Next, Sweep, AnswerDiscard, AnswerSave

(* ImplementsLife: the tabs, the dialogue, the loop, the client and the files
   together are TournamentLife, for any number of tournaments. *)
THEOREM Refinement == Spec => ImplementsLife
<1>1. Init => Life!Init
  BY DEF Init, Life!Init, Stage
<1>2. IInv /\ [Next]_vars => [Life!Next]_[t \in Tournaments |-> Stage(t)]
  BY StepLife DEF stages
<1>3. QED BY <1>1, <1>2, Invariant, PTL DEF Spec, ImplementsLife, Life!Spec
=============================================================================
