----------------------------- MODULE WorkersProofs -----------------------------
(***************************************************************************)
(* Proofs about Workers, for any number of texts.                          *)
(***************************************************************************)
EXTENDS Workers, TLAPS

(* The first text belongs to the GUI thread. *)
LEMMA InitInvariant == Init => IInv
<1> SUFFICES ASSUME Init PROVE IInv
  OBVIOUS
<1> USE DEF Init, Texts, NULL
<1>1. done \in BOOLEAN /\ joined \in BOOLEAN /\ bar \in BOOLEAN
  BY Zenon
<1>2. TypeOK
  BY <1>1 DEF TypeOK
<1>3. LockInv /\ TextHasOneOwner /\ NoTextIsLost
  BY DEF LockInv, TextHasOneOwner, NoTextIsLost
<1> QED  BY <1>2, <1>3 DEF IInv

(* Steps that leave the text, the mutex and both users of it where they are. *)
LEMMA TextUntouched ==
  ASSUME IInv, UNCHANGED <<texts, gui, dc, taken, shown>>,
         app' \in {"running", "closed", "no cards", "joined twice"},
         cards' \in {"start", "loading", "finished"},
         done' \in BOOLEAN, joined' \in BOOLEAN, bar' \in BOOLEAN
  PROVE  IInv'
<1> USE DEF texts
<1>1. TypeOK'
  BY DEF IInv, TypeOK, Texts
<1>2. LockInv' /\ TextHasOneOwner' /\ NoTextIsLost'
  BY DEF IInv, LockInv, TextHasOneOwner, NoTextIsLost, Texts
<1> QED  BY <1>1, <1>2 DEF IInv

(* NULL is not the number of a text. *)
LEMMA NoText == \A i \in 1..made : i # 0
OBVIOUS

(* The numbers of the texts, with one more. *)
LEMMA OneMore ==
  ASSUME NEW n \in Nat
  PROVE  /\ 1..(n + 1) = (1..n) \cup {n + 1}
         /\ n + 1 \in Nat /\ n + 1 \notin 1..n /\ n + 1 # 0
<1>1. \A i \in 1..(n + 1) : i \in (1..n) \cup {n + 1}
  OBVIOUS
<1>2. \A i \in (1..n) \cup {n + 1} : i \in 1..(n + 1)
  OBVIOUS
<1> QED  BY <1>1, <1>2

(* setDiscordText: between free and the new text the mutex is held. *)
LEMMA GuiPreserves ==
  ASSUME IInv, SetText \/ FreeOldText \/ StoreText
  PROVE  IInv'
<1> USE DEF IInv, TypeOK, Texts, NULL, discord, download
<1>1. CASE SetText
  <2>1. TypeOK'
    BY <1>1 DEF SetText
  <2>2. LockInv' /\ TextHasOneOwner' /\ NoTextIsLost'
    BY <1>1 DEF SetText, LockInv, TextHasOneOwner, NoTextIsLost
  <2> QED  BY <2>1, <2>2
<1>2. CASE FreeOldText
  <2>0. freed' \subseteq Texts'
    <3>1. UNCHANGED made /\ freed' = freed \cup ({text} \ {0})
      BY <1>2 DEF FreeOldText
    <3>2. {text} \ {0} \subseteq 1..made
      OBVIOUS
    <3> QED  BY <3>1, <3>2
  <2>1. TypeOK'
    <3>1. /\ UNCHANGED <<app, lock, text, made, dc, taken, shown>> /\ gui' = "store"
          /\ UNCHANGED <<cards, done, joined, bar>>
      BY <1>2 DEF FreeOldText
    <3>2. done' \in BOOLEAN /\ joined' \in BOOLEAN /\ bar' \in BOOLEAN
      BY <3>1
    <3> QED  BY <2>0, <3>1, <3>2
  <2>2. LockInv' /\ TextHasOneOwner' /\ NoTextIsLost'
    BY <1>2 DEF FreeOldText, LockInv, TextHasOneOwner, NoTextIsLost
  <2> QED  BY <2>1, <2>2
<1>3. CASE StoreText
  <2>1. /\ gui = "store" /\ lock = "gui" /\ gui' = "idle" /\ lock' = "free"
        /\ made' = made + 1 /\ text' = made + 1
        /\ UNCHANGED <<app, freed, dc, taken, shown, cards, done, joined, bar>>
    BY <1>3 DEF StoreText, LockInv
  <2>2. /\ 1..(made + 1) = (1..made) \cup {made + 1}
        /\ made + 1 \in Nat /\ made + 1 \notin 1..made /\ made + 1 # 0
    <3>1. made \in Nat
      OBVIOUS
    <3> QED  BY <3>1, OneMore
  <2>3. dc \notin {"take", "clear"}
    BY <2>1 DEF LockInv
  <2>4. text \in freed \cup {0}
    BY <2>1 DEF LockInv
  <2>5. done' \in BOOLEAN /\ joined' \in BOOLEAN /\ bar' \in BOOLEAN
    BY <2>1
  <2> DEFINE more == made + 1
  <2>6. Texts' = Texts \cup {more} /\ made' = more /\ more \in Nat /\ text' = more
    BY <2>1, <2>2
  <2> HIDE DEF more
  <2>7. /\ made' \in Nat /\ text' \in Texts' \cup {0} /\ freed' \subseteq Texts'
        /\ taken' \in Texts' \cup {0} /\ shown' \in Texts' \cup {0}
    BY <2>1, <2>6
  <2>8. TypeOK'
    BY <2>1, <2>5, <2>7
  <2>9. LockInv'
    BY <2>1, <2>3 DEF LockInv
  <2>10. TextHasOneOwner'
    BY <2>1, <2>2 DEF TextHasOneOwner
  <2>11. NoTextIsLost'
    <3>1. Texts \ freed \subseteq {taken}
      <4>1. \A t \in Texts : t # 0
        BY NoText DEF Texts
      <4>2. \A t \in Texts : t \in freed \/ t = text \/ t = taken
        BY DEF NoTextIsLost
      <4> QED  BY <2>4, <4>1, <4>2
    <3>2. freed' = freed /\ taken' = taken
      BY <2>1
    <3>3. Texts' \ freed' \subseteq {text', taken'}
      BY <2>6, <3>1, <3>2
    <3> QED  BY <3>3 DEF NoTextIsLost
  <2> QED  BY <2>8, <2>9, <2>10, <2>11
<1> QED  BY <1>1, <1>2, <1>3

(* dc_thread: it takes the text away while it holds the mutex. *)
LEMMA DiscordPreserves ==
  ASSUME IInv, DiscordAnswers \/ DiscordStep
  PROVE  IInv'
<1> USE DEF IInv, TypeOK, Texts, NULL, texts, download
<1>1. CASE DiscordAnswers
  <2>1. TypeOK'
    BY <1>1 DEF DiscordAnswers, Create, RunCallbacks
  <2>2. LockInv' /\ TextHasOneOwner' /\ NoTextIsLost'
    BY <1>1 DEF DiscordAnswers, Create, RunCallbacks, LockInv, TextHasOneOwner, NoTextIsLost
  <2> QED  BY <2>1, <2>2
<1>2. CASE LockText
  <2>1. TypeOK'
    BY <1>2 DEF LockText
  <2>2. LockInv' /\ TextHasOneOwner' /\ NoTextIsLost'
    BY <1>2 DEF LockText, LockInv, TextHasOneOwner, NoTextIsLost
  <2> QED  BY <2>1, <2>2
<1>3. CASE TakeText
  <2>1. TypeOK'
    BY <1>3 DEF TakeText
  <2>2. /\ dc = "take" /\ dc' = "clear" /\ taken' = text
        /\ UNCHANGED <<lock, text, made, freed, gui>>
    BY <1>3 DEF TakeText
  <2>3. lock = "dc" /\ gui = "idle" /\ taken = 0
    BY <2>2 DEF LockInv
  <2>4. LockInv'
    BY <2>2, <2>3 DEF LockInv
  <2>5. TextHasOneOwner'
    BY <2>2, <2>3 DEF TextHasOneOwner
  <2>6. NoTextIsLost'
    <3>1. Texts \ freed \subseteq {text}
      <4>1. \A t \in Texts : t # 0
        BY NoText DEF Texts
      <4>2. \A t \in Texts : t \in freed \/ t = text \/ t = taken
        BY DEF NoTextIsLost
      <4> QED  BY <2>3, <4>1, <4>2
    <3>2. Texts' = Texts /\ freed' = freed /\ text' = text
      BY <2>2
    <3> QED  BY <3>1, <3>2 DEF NoTextIsLost
  <2> QED  BY <2>1, <2>4, <2>5, <2>6
<1>4. CASE ClearText
  <2>1. TypeOK'
    BY <1>4 DEF ClearText
  <2>2. LockInv' /\ TextHasOneOwner' /\ NoTextIsLost'
    BY <1>4 DEF ClearText, LockInv, TextHasOneOwner, NoTextIsLost
  <2> QED  BY <2>1, <2>2
<1>5. CASE ShowText
  <2>1. TypeOK'
    BY <1>5 DEF ShowText
  <2>2. LockInv' /\ TextHasOneOwner' /\ NoTextIsLost'
    BY <1>5 DEF ShowText, LockInv, TextHasOneOwner, NoTextIsLost
  <2> QED  BY <2>1, <2>2
<1> QED  BY <1>1, <1>2, <1>3, <1>4, <1>5 DEF DiscordStep

(* The download and the end of the program, which touch no text. *)
LEMMA OthersPreserve ==
  ASSUME IInv, CardStep \/ Timeout \/ Quit
  PROVE  IInv'
<1> USE DEF IInv, TypeOK
<1>1. UNCHANGED <<texts, gui, dc, taken, shown>>
  BY DEF CardStep, StartLoading, FinishLoading, LoadingFails, Timeout, Quit, discord
<1>2. /\ app' \in {"running", "closed", "no cards", "joined twice"}
      /\ cards' \in {"start", "loading", "finished"}
  BY DEF CardStep, StartLoading, FinishLoading, LoadingFails, Timeout, Quit, download
<1>3. done' \in BOOLEAN /\ joined' \in BOOLEAN /\ bar' \in BOOLEAN
  BY DEF CardStep, StartLoading, FinishLoading, LoadingFails, Timeout, Quit, download
<1> QED  BY <1>1, <1>2, <1>3, TextUntouched

(* Every step of every thread preserves the inductive invariant. *)
LEMMA StepInvariant == IInv /\ [Next]_vars => IInv'
<1> SUFFICES ASSUME IInv, [Next]_vars
             PROVE  IInv'
  OBVIOUS
<1>1. CASE Next
  BY <1>1, GuiPreserves, DiscordPreserves, OthersPreserve DEF Next, GuiStep
<1>2. CASE UNCHANGED vars
  <2>1. UNCHANGED <<texts, gui, dc, taken, shown, app, cards, done, joined, bar>>
    BY <1>2 DEF vars, discord, download
  <2> QED  BY <2>1, TextUntouched DEF IInv, TypeOK
<1> QED  BY <1>1, <1>2

(* IInv holds in every state. *)
THEOREM Invariant == Spec => []IInv
BY InitInvariant, StepInvariant, PTL DEF Spec

(* The variables keep their types. *)
THEOREM TypeCorrect == Spec => []TypeOK
BY Invariant, PTL DEF IInv

(* Neither thread ever uses or frees a text the other has freed or will free,
   and every text is freed in the end, but the two that may still be held. *)
THEOREM TextsOwned == Spec => []TextsAreOwned
<1>1. IInv => TextsAreOwned
  BY DEF IInv, TextsAreOwned
<1> QED  BY <1>1, Invariant, PTL
=============================================================================
