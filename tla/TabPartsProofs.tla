---------------------------- MODULE TabPartsProofs ----------------------------
(***************************************************************************)
(* Proofs about the parts of a tournament tab, for any matches, players,   *)
(* rows and lengths: the times it shows, the match panel, and the tables.  *)
(***************************************************************************)
EXTENDS MatchPanel, TableList, RoundTimer, SequenceTheorems, FiniteSetTheorems,
  WellFoundedInduction, TLAPS

-----------------------------------------------------------------------------
(* Numbers.                                                                *)

(* Of some natural numbers one is the least. *)
LEMMA LeastExists == ASSUME NEW T \in SUBSET Nat, T # {} PROVE \E n \in T : \A m \in T : n <= m
<1> DEFINE R == OpToRel(<, Nat)
<1>1. IsWellFoundedOn(R, Nat)
  BY NatLessThanWellFounded
<1> HIDE DEF R
<1>2. \E x \in T : \A y \in T : ~(<<y, x>> \in R)
  BY <1>1, WFMin
<1>3. \A x, y \in Nat : y < x => <<y, x>> \in R
  BY DEF R, OpToRel
<1>4. PICK x \in T : \A y \in T : ~(<<y, x>> \in R)
  BY <1>2
<1>5. ASSUME NEW m \in T PROVE x <= m
  <2>1. x \in Nat /\ m \in Nat
    OBVIOUS
  <2>2. ~(m < x)
    BY <1>3, <1>4, <2>1
  <2>3. QED BY <2>1, <2>2
<1>6. QED BY <1>5

LEMMA LeastIs ==
  ASSUME NEW S \in SUBSET Nat, S # {}
  PROVE  Least(S) \in S /\ \A m \in S : Least(S) <= m
<1>1. \E n \in S : \A m \in S : n <= m
  BY LeastExists
<1>2. Min(S) \in S /\ \A m \in S : Min(S) <= m
  BY <1>1 DEF Min
<1>3. QED BY <1>2 DEF Least

LEMMA MaxWithZero == ASSUME NEW n \in Int PROVE Max({0, n}) = IF n >= 0 THEN n ELSE 0
<1> DEFINE m == IF n >= 0 THEN n ELSE 0
<1>1. \E x \in {0, n} : \A y \in {0, n} : x >= y
  <2>1. m \in {0, n} /\ \A y \in {0, n} : m >= y
    OBVIOUS
  <2>2. QED BY <2>1
<1>2. Max({0, n}) \in {0, n} /\ \A y \in {0, n} : Max({0, n}) >= y
  BY <1>1 DEF Max
<1> HIDE DEF m
<1>3. Max({0, n}) \in Int /\ Max({0, n}) >= 0 /\ Max({0, n}) >= n
      /\ (Max({0, n}) = 0 \/ Max({0, n}) = n)
  BY <1>2
<1>4. QED BY <1>3 DEF m

-----------------------------------------------------------------------------
(* Sequences that are joined.                                              *)

(* How FlattenSeq joins ss: f[i] is what the first i make together. *)
Joins(f, ss) ==
  f = [i \in 1..Len(ss) |-> IF i = 1 THEN ss[i] ELSE f[i - 1] \o ss[i]]

(* There is such a function, and all its values are sequences. *)
LEMMA JoinExists ==
  ASSUME NEW S, NEW ss \in Seq(Seq(S))
  PROVE  \E f \in [1..Len(ss) -> Seq(S)] : Joins(f, ss)
<1> DEFINE upTo(f, n) == \A i \in 1..n : f[i] = IF i = 1 THEN ss[i] ELSE f[i - 1] \o ss[i]
           Bad == {n \in 0..Len(ss) : ~(\E f \in [1..n -> Seq(S)] : upTo(f, n))}
<1>1. Len(ss) \in Nat /\ \A i \in 1..Len(ss) : ss[i] \in Seq(S)
  OBVIOUS
<1>2. ASSUME Bad # {} PROVE FALSE
  <2>1. Bad \subseteq Nat
    BY <1>1
  <2>2. PICK n \in Bad : \A m \in Bad : n <= m
    BY <1>2, <2>1, LeastExists
  <2>3. n \in 0..Len(ss) /\ ~(\E f \in [1..n -> Seq(S)] : upTo(f, n))
    OBVIOUS
  <2>4. CASE n = 0
    <3>1. [i \in 1..0 |-> <<>>] \in [1..0 -> Seq(S)]
      OBVIOUS
    <3>2. upTo([i \in 1..0 |-> <<>>], 0)
      OBVIOUS
    <3> HIDE DEF upTo
    <3>3. QED BY <2>3, <2>4, <3>1, <3>2
  <2>5. CASE n # 0
    <3>1. n - 1 \in 0..Len(ss) /\ n \in 1..Len(ss) /\ ~(n <= n - 1) /\ n \in Nat
      BY <1>1, <2>3, <2>5
    <3>2. n - 1 \notin Bad
      BY <2>2, <3>1
    <3>3. PICK f \in [1..(n - 1) -> Seq(S)] : upTo(f, n - 1)
      BY <3>1, <3>2
    <3> DEFINE g == [i \in 1..n |-> IF i < n THEN f[i]
                                    ELSE IF n = 1 THEN ss[n] ELSE f[n - 1] \o ss[n]]
    <3>4. ss[n] \in Seq(S) /\ (n # 1 => f[n - 1] \o ss[n] \in Seq(S))
      <4>1. ss[n] \in Seq(S)
        BY <1>1, <3>1
      <4>2. n # 1 => f[n - 1] \in Seq(S)
        BY <3>1
      <4>3. QED BY <4>1, <4>2, ConcatProperties
    <3>5. g \in [1..n -> Seq(S)]
      <4>1. \A i \in 1..n : i < n => f[i] \in Seq(S)
        BY <3>1
      <4>2. QED BY <3>4, <4>1
    <3>6. \A i \in 1..n : i < n => g[i] = f[i]
      OBVIOUS
    <3>7. g[n] = IF n = 1 THEN ss[n] ELSE f[n - 1] \o ss[n]
      BY <3>1
    <3> HIDE DEF g
    <3>8. ASSUME NEW i \in 1..n PROVE g[i] = IF i = 1 THEN ss[i] ELSE g[i - 1] \o ss[i]
      <4>1. CASE i < n
        <5>1. i \in 1..(n - 1) /\ (i # 1 => i - 1 \in 1..n /\ i - 1 < n)
          BY <3>1, <4>1
        <5>2. f[i] = IF i = 1 THEN ss[i] ELSE f[i - 1] \o ss[i]
          BY <3>3, <5>1
        <5>3. g[i] = f[i] /\ (i # 1 => g[i - 1] = f[i - 1])
          BY <3>6, <4>1, <5>1
        <5>4. QED BY <5>2, <5>3
      <4>2. CASE i = n
        <5>1. n # 1 => g[n - 1] = f[n - 1]
          BY <3>1, <3>6
        <5>2. QED BY <3>7, <4>2, <5>1
      <4>3. QED BY <3>1, <4>1, <4>2
    <3>9. upTo(g, n)
      BY <3>8
    <3> HIDE DEF upTo
    <3>10. QED BY <2>3, <3>5, <3>9
  <2>6. QED BY <2>4, <2>5
<1>3. Len(ss) \notin Bad
  BY <1>2
<1>4. PICK f \in [1..Len(ss) -> Seq(S)] : upTo(f, Len(ss))
  BY <1>1, <1>3
<1>5. f = [i \in 1..Len(ss) |-> IF i = 1 THEN ss[i] ELSE f[i - 1] \o ss[i]]
  BY <1>4
<1>6. QED BY <1>5 DEF Joins

(* FlattenSeq is what any such function has for all of them. *)
LEMMA FlattenIs ==
  ASSUME NEW S, NEW ss \in Seq(Seq(S)), NEW f, Joins(f, ss), Len(ss) # 0
  PROVE  FlattenSeq(ss) = f[Len(ss)]
<1> DEFINE g == CHOOSE h : Joins(h, ss)
           Bad == {i \in 1..Len(ss) : f[i] # g[i]}
<1>1. Joins(g, ss)
  OBVIOUS
<1>2. FlattenSeq(ss) = g[Len(ss)]
  BY DEF FlattenSeq, Joins
<1> HIDE DEF g
<1>3. Len(ss) \in Nat
  OBVIOUS
<1>4. /\ \A i \in 1..Len(ss) : f[i] = IF i = 1 THEN ss[i] ELSE f[i - 1] \o ss[i]
      /\ \A i \in 1..Len(ss) : g[i] = IF i = 1 THEN ss[i] ELSE g[i - 1] \o ss[i]
  BY <1>1 DEF Joins
<1>5. ASSUME Bad # {} PROVE FALSE
  <2> Bad \subseteq Nat
    BY <1>3
  <2>1. PICK i \in Bad : \A j \in Bad : i <= j
    BY <1>5, LeastExists
  <2>2. i \in 1..Len(ss) /\ f[i] # g[i]
    OBVIOUS
  <2>3. i # 1
    BY <1>4, <2>2
  <2>4. i - 1 \in 1..Len(ss) /\ ~(i <= i - 1)
    BY <1>3, <2>2, <2>3
  <2>5. f[i - 1] = g[i - 1]
    BY <2>1, <2>4
  <2>6. QED BY <1>4, <2>2, <2>3, <2>5
<1>6. Len(ss) \in 1..Len(ss)
  BY <1>3
<1>7. QED BY <1>2, <1>5, <1>6

(* The first of the sequences comes first, then the others. *)
LEMMA FlattenHead ==
  ASSUME NEW S, NEW ss \in Seq(Seq(S)), ss # <<>>
  PROVE  /\ FlattenSeq(ss) = Head(ss) \o FlattenSeq(Tail(ss))
         /\ FlattenSeq(ss) \in Seq(S) /\ FlattenSeq(Tail(ss)) \in Seq(S)
<1> DEFINE n == Len(ss)
           tt == Tail(ss)
<1>1. n \in Nat /\ n >= 1 /\ \A i \in 1..n : ss[i] \in Seq(S)
  OBVIOUS
<1>2. tt \in Seq(Seq(S)) /\ Len(tt) = n - 1 /\ Head(ss) = ss[1] /\ Head(ss) \in Seq(S)
      /\ \A i \in 1..(n - 1) : tt[i] = ss[i + 1]
  BY HeadTailProperties
<1>3. PICK f \in [1..n -> Seq(S)] : Joins(f, ss)
  BY JoinExists
<1>4. FlattenSeq(ss) = f[n] /\ f[n] \in Seq(S)
  <2>1. Joins(f, ss) /\ Len(ss) # 0 /\ n = Len(ss) /\ n \in 1..n
    BY <1>1, <1>3
  <2> HIDE DEF n
  <2>2. FlattenSeq(ss) = f[Len(ss)]
    BY <2>1, FlattenIs
  <2>3. QED BY <1>3, <2>1, <2>2
<1> HIDE DEF n, tt
<1>5. CASE n = 1
  <2>1. Len(tt) = 0
    BY <1>2, <1>5
  <2>2. FlattenSeq(tt) = tt
    BY <2>1 DEF FlattenSeq
  <2>3. tt = <<>>
    BY <1>2, <2>1
  <2>4. f[1] = ss[1]
    BY <1>3, <1>5 DEF Joins, n
  <2>5. Head(ss) \o <<>> = Head(ss) /\ <<>> \in Seq(S)
    BY <1>2, ConcatEmptySeq
  <2>6. FlattenSeq(Tail(ss)) = <<>>
    BY <2>2, <2>3 DEF tt
  <2>7. QED BY <1>2, <1>4, <1>5, <2>4, <2>5, <2>6
<1>6. CASE n # 1
  <2>1. PICK g \in [1..(n - 1) -> Seq(S)] : Joins(g, tt)
    BY <1>2, JoinExists
  <2>2. n - 1 # 0 /\ n - 1 \in Nat
    BY <1>1, <1>6
  <2>3. FlattenSeq(tt) = g[n - 1] /\ g[n - 1] \in Seq(S)
    <3>1. tt \in Seq(Seq(S)) /\ Joins(g, tt) /\ Len(tt) # 0 /\ Len(tt) = n - 1
      BY <1>2, <2>1, <2>2
    <3>2. FlattenSeq(tt) = g[Len(tt)]
      BY <3>1, FlattenIs
    <3>3. n - 1 \in 1..(n - 1)
      BY <1>1, <2>2
    <3>4. QED BY <2>1, <3>1, <3>2, <3>3
  <2> DEFINE h == [i \in 1..n |-> IF i = 1 THEN ss[1] ELSE ss[1] \o g[i - 1]]
  <2>4. \A i \in 1..(n - 1) : g[i] = IF i = 1 THEN tt[i] ELSE g[i - 1] \o tt[i]
    BY <1>2, <2>1 DEF Joins
  <2>5. ASSUME NEW i \in 1..n PROVE h[i] = IF i = 1 THEN ss[i] ELSE h[i - 1] \o ss[i]
    <3>1. CASE i = 1
      BY <3>1
    <3>2. CASE i = 2
      <4>1. i - 1 = 1 /\ 1 \in 1..(n - 1) /\ 1 \in 1..n
        BY <1>1, <1>6, <3>2
      <4>2. g[1] = ss[2]
        BY <1>2, <2>4, <4>1
      <4>3. h[1] = ss[1] /\ h[2] = ss[1] \o g[1]
        BY <3>2, <4>1
      <4>4. QED BY <3>2, <4>1, <4>2, <4>3
    <3>3. CASE i # 1 /\ i # 2
      <4>1. i - 1 \in 1..(n - 1) /\ i - 1 # 1 /\ i - 2 \in 1..(n - 1) /\ i - 1 \in 1..n
            /\ (i - 1) - 1 = i - 2 /\ (i - 1) + 1 = i
        BY <1>1, <3>3
      <4>2. g[i - 1] = g[i - 2] \o ss[i]
        BY <1>2, <2>4, <4>1
      <4>3. h[i] = ss[1] \o g[i - 1] /\ h[i - 1] = ss[1] \o g[i - 2]
        BY <3>3, <4>1
      <4>4. ss[1] \in Seq(S) /\ g[i - 2] \in Seq(S) /\ ss[i] \in Seq(S)
        BY <1>1, <2>1, <4>1
      <4>5. ss[1] \o (g[i - 2] \o ss[i]) = (ss[1] \o g[i - 2]) \o ss[i]
        <5> DEFINE a == ss[1]
                   b == g[i - 2]
                   c == ss[i]
        <5>1. a \in Seq(S) /\ b \in Seq(S) /\ c \in Seq(S)
          BY <4>4
        <5> HIDE DEF a, b, c
        <5>2. (a \o b) \o c = a \o (b \o c)
          BY <5>1, ConcatAssociative, SMTT(30)
        <5>3. QED BY <5>2 DEF a, b, c
      <4>6. QED BY <3>3, <4>2, <4>3, <4>5
    <3>4. QED BY <3>1, <3>2, <3>3
  <2>6. h = [i \in 1..n |-> h[i]] /\ h[n] = ss[1] \o g[n - 1]
    <3>1. h[n] = ss[1] \o g[n - 1]
      <4>1. n \in 1..n
        BY <1>1
      <4>2. \A i \in 1..n : i # 1 => h[i] = ss[1] \o g[i - 1]
        OBVIOUS
      <4> HIDE DEF h
      <4>3. QED BY <1>6, <4>1, <4>2
    <3>2. QED BY <3>1
  <2> HIDE DEF h
  <2>7. Joins(h, ss)
    <3>1. [i \in 1..n |-> h[i]] = [i \in 1..n |-> IF i = 1 THEN ss[i] ELSE h[i - 1] \o ss[i]]
      BY <2>5
    <3>2. QED BY <2>6, <3>1 DEF Joins, n
  <2>8. FlattenSeq(ss) = h[n]
    BY <1>1, <2>7, FlattenIs DEF n
  <2>9. QED BY <1>2, <1>4, <2>3, <2>6, <2>8 DEF tt
<1>7. QED BY <1>5, <1>6

(* Joined sequences of an S make a sequence of it. *)
LEMMA FlattenType ==
  ASSUME NEW S, NEW ss \in Seq(Seq(S))
  PROVE  FlattenSeq(ss) \in Seq(S)
<1>1. CASE ss = <<>>
  <2>1. FlattenSeq(ss) = <<>>
    BY <1>1 DEF FlattenSeq
  <2>2. QED BY <2>1
<1>2. QED BY <1>1, FlattenHead

(* A sequence with one more in front. *)
LEMMA PutFirst ==
  ASSUME NEW S, NEW x \in S, NEW s \in Seq(S)
  PROVE  /\ <<x>> \o s \in Seq(S) /\ <<x>> \o s # <<>>
         /\ Head(<<x>> \o s) = x /\ Tail(<<x>> \o s) = s
<1> DEFINE t == <<x>> \o s
<1>1. <<x>> \in Seq(S) /\ Len(<<x>>) = 1 /\ <<x>>[1] = x /\ Len(s) \in Nat
  OBVIOUS
<1>2. /\ t \in Seq(S) /\ Len(t) = 1 + Len(s)
      /\ \A i \in 1..(1 + Len(s)) : t[i] = IF i <= 1 THEN <<x>>[i] ELSE s[i - 1]
  BY <1>1, ConcatProperties
<1> HIDE DEF t
<1>3. t # <<>> /\ t[1] = x /\ \A i \in 1..Len(s) : t[i + 1] = s[i]
  BY <1>1, <1>2
<1>4. Head(t) = x
  BY <1>2, <1>3
<1>5. /\ Tail(t) \in Seq(S) /\ Len(Tail(t)) = Len(t) - 1
      /\ \A i \in 1..Len(Tail(t)) : Tail(t)[i] = t[i + 1]
  BY <1>2, <1>3, HeadTailProperties
<1>6. Len(Tail(t)) = Len(s) /\ \A i \in 1..Len(s) : Tail(t)[i] = s[i]
  BY <1>1, <1>2, <1>3, <1>5
<1>7. Tail(t) = s
  BY <1>5, <1>6, SeqEqual
<1>8. QED BY <1>2, <1>3, <1>4, <1>7 DEF t

-----------------------------------------------------------------------------
(* MatchPanel: the loop of a save.                                         *)

(* What a widget of the panel may hold: a result per player of the match. *)
PanelPlayers(r) == IF r = NoRound THEN {} ELSE In(r)
Sheets(r) ==
  [wins : [PanelPlayers(r) -> 0..SpinMax], draws : 0..SpinMax,
   ticked : SUBSET PanelPlayers(r), locked : SUBSET PanelPlayers(r)]

OpsOf(r) ==
  {Wins(r, p, n) : p \in In(r), n \in 0..SpinMax} \cup {Confirm(r, p) : p \in In(r)}
    \cup {Draws(r, n) : n \in 0..SpinMax}
Ops == UNION {OpsOf(r) : r \in Rounds}

PanelTypeOK ==
  /\ match \in [Rounds -> Matches]
  /\ \A r \in Rounds : match[r].confirmed \subseteq In(r)
  /\ selected \in Rounds \cup {NoRound}
  /\ fields \in Sheets(selected) /\ fields.locked \subseteq fields.ticked
  /\ edited \in BOOLEAN /\ refused \in BOOLEAN
  /\ job \in Seq(Ops)

(* What the loop of a save does for the i-th player, and what it has left when
   the first k players have their results. *)
Block(r, f, i) ==
  <<Wins(r, Members[r][i], f.wins[Members[r][i]])>>
    \o IF Members[r][i] \in f.ticked THEN <<Confirm(r, Members[r][i])>> ELSE <<>>
Left(r, f, k) ==
  FlattenSeq([i \in 1..(Len(Members[r]) - k) |-> Block(r, f, i + k)]) \o <<Draws(r, f.draws)>>

(* A save of the sheet f over the matches old has come to the k-th player: the
   players up to there have the entered results, and the others the old ones
   and no new confirmation. *)
ResultsUpTo(r, f, old, k) ==
  /\ \A i \in DOMAIN Members[r] :
       LET p == Members[r][i]
       IN  IF i <= k
           THEN /\ match[r].wins[p] = f.wins[p]
                /\ p \in match[r].confirmed => p \in old[r].confirmed \/ p \in f.ticked
           ELSE /\ match[r].wins[p] = old[r].wins[p]
                /\ p \in match[r].confirmed => p \in old[r].confirmed
  /\ match[r].draws = old[r].draws
  /\ \A q \in Rounds \ {r} : match[q] = old[q]

(* The confirmation of the last of them may be still to come. *)
SavedUpTo(r, f, old, k) ==
  /\ ResultsUpTo(r, f, old, k)
  /\ \/ job = Left(r, f, k)
     \/ /\ k # 0 /\ Members[r][k] \in f.ticked
        /\ job = <<Confirm(r, Members[r][k])>> \o Left(r, f, k)

SaveInv ==
  ~Idle =>
    /\ ~refused
    /\ Saving =>
         /\ request.round \in Rounds /\ request.fields \in Sheets(request.round)
         /\ \E k \in 0..Len(Members[request.round]) :
              SavedUpTo(request.round, request.fields, request.before, k)

(* The players of a match stand in one place each. *)
LEMMA PlayersStand ==
  ASSUME NEW r \in Rounds
  PROVE  /\ Len(Members[r]) \in Nat /\ DOMAIN Members[r] = 1..Len(Members[r])
         /\ Members[r] \in Seq(Players)
         /\ \A i \in DOMAIN Members[r] : Members[r][i] \in In(r) /\ Members[r][i] \in Players
         /\ \A p \in In(r) : \E i \in DOMAIN Members[r] : p = Members[r][i]
         /\ \A i, j \in DOMAIN Members[r] : Members[r][i] = Members[r][j] => i = j
         /\ In(r) \subseteq Players /\ PanelPlayers(r) = In(r)
<1>1. Members[r] \in Seq(Players) /\ IsInjective(Members[r]) /\ r # NoRound
  BY ConstantsAssumption DEF ConstantsAssumption
<1>2. Len(Members[r]) \in Nat /\ DOMAIN Members[r] = 1..Len(Members[r])
      /\ \A i \in DOMAIN Members[r] : Members[r][i] \in Players
  BY <1>1
<1>3. In(r) = {Members[r][i] : i \in DOMAIN Members[r]}
  BY DEF In, ToSet
<1>4. \A i, j \in DOMAIN Members[r] : Members[r][i] = Members[r][j] => i = j
  BY <1>1 DEF IsInjective
<1>5. QED BY <1>1, <1>2, <1>3, <1>4 DEF PanelPlayers

LEMMA OpsAre ==
  ASSUME NEW r \in Rounds
  PROVE  /\ \A p \in In(r), n \in 0..SpinMax : Wins(r, p, n) \in Ops
         /\ \A p \in In(r) : Confirm(r, p) \in Ops
         /\ \A n \in 0..SpinMax : Draws(r, n) \in Ops
BY DEF Ops, OpsOf

LEMMA BlockIs ==
  ASSUME NEW r \in Rounds, NEW f \in Sheets(r), NEW i \in DOMAIN Members[r]
  PROVE  Block(r, f, i) \in Seq(Ops)
<1>1. Members[r][i] \in In(r) /\ f.wins[Members[r][i]] \in 0..SpinMax
  BY PlayersStand DEF Sheets
<1>2. Wins(r, Members[r][i], f.wins[Members[r][i]]) \in Ops /\ Confirm(r, Members[r][i]) \in Ops
  BY <1>1, OpsAre
<1>3. <<Wins(r, Members[r][i], f.wins[Members[r][i]])>> \in Seq(Ops)
      /\ <<Confirm(r, Members[r][i])>> \in Seq(Ops) /\ <<>> \in Seq(Ops)
  BY <1>2
<1>4. (IF Members[r][i] \in f.ticked THEN <<Confirm(r, Members[r][i])>> ELSE <<>>) \in Seq(Ops)
  BY <1>3
<1>5. QED BY <1>3, <1>4, ConcatProperties DEF Block

(* The loop of a save, from the first player on. *)
LEMMA LoopFromFirst ==
  ASSUME NEW r \in Rounds, NEW f
  PROVE  SaveLoop(r, f) = Left(r, f, 0)
<1>1. Len(Members[r]) \in Nat /\ DOMAIN Members[r] = 1..Len(Members[r])
  BY PlayersStand
<1>2. 1..(Len(Members[r]) - 0) = DOMAIN Members[r] /\ \A i \in DOMAIN Members[r] : i + 0 = i
  BY <1>1
<1>3. [i \in DOMAIN Members[r] |->
         LET p == Members[r][i]
         IN  <<Wins(r, p, f.wins[p])>> \o IF p \in f.ticked THEN <<Confirm(r, p)>> ELSE <<>>]
      = [i \in DOMAIN Members[r] |-> Block(r, f, i)]
  BY DEF Block
<1>4. [i \in 1..(Len(Members[r]) - 0) |-> Block(r, f, i + 0)]
      = [i \in DOMAIN Members[r] |-> Block(r, f, i)]
  BY <1>2
<1>5. QED BY <1>3, <1>4 DEF SaveLoop, Left

(* What is left comes player by player, and the draws last. *)
LEMMA LeftIs ==
  ASSUME NEW r \in Rounds, NEW f \in Sheets(r), NEW k \in 0..Len(Members[r])
  PROVE  /\ Left(r, f, k) \in Seq(Ops) /\ Left(r, f, k) # <<>>
         /\ k = Len(Members[r]) => Left(r, f, k) = <<Draws(r, f.draws)>>
         /\ k # Len(Members[r]) => Left(r, f, k) = Block(r, f, k + 1) \o Left(r, f, k + 1)
<1> DEFINE n == Len(Members[r])
           blocks(j) == [i \in 1..(n - j) |-> Block(r, f, i + j)]
           last == <<Draws(r, f.draws)>>
<1>1. n \in Nat /\ DOMAIN Members[r] = 1..n
  BY PlayersStand
<1>2. last \in Seq(Ops) /\ Len(last) = 1
  <2>1. f.draws \in 0..SpinMax
    BY DEF Sheets
  <2>2. QED BY <2>1, OpsAre
<1>3. ASSUME NEW j \in 0..n PROVE blocks(j) \in Seq(Seq(Ops)) /\ Len(blocks(j)) = n - j
  <2>1. \A i \in 1..(n - j) : i + j \in DOMAIN Members[r]
    BY <1>1
  <2>2. \A i \in 1..(n - j) : Block(r, f, i + j) \in Seq(Ops)
    BY <2>1, BlockIs
  <2>3. n - j \in Nat
    BY <1>1
  <2>4. QED BY <2>2, <2>3
<1> DEFINE bs == blocks(k)
<1>4. bs \in Seq(Seq(Ops)) /\ Len(bs) = n - k /\ k \in 0..n
  BY <1>3
<1>5. Left(r, f, k) = FlattenSeq(bs) \o last
  BY DEF Left
<1>6. /\ Left(r, f, k) \in Seq(Ops) /\ Left(r, f, k) # <<>>
  <2> HIDE DEF bs, last
  <2>1. FlattenSeq(bs) \in Seq(Ops)
    BY <1>4, FlattenType
  <2>2. Left(r, f, k) \in Seq(Ops) /\ Len(Left(r, f, k)) = Len(FlattenSeq(bs)) + Len(last)
    BY <1>2, <1>5, <2>1, ConcatProperties
  <2>3. Len(Left(r, f, k)) # 0
    BY <1>2, <2>1, <2>2
  <2>4. QED BY <2>2, <2>3
<1>7. ASSUME k = n PROVE Left(r, f, k) = last
  <2> HIDE DEF bs, last
  <2>1. Len(bs) = 0
    BY <1>1, <1>4, <1>7
  <2>2. FlattenSeq(bs) = bs /\ bs = <<>>
    <3>1. bs = <<>>
      BY <1>4, <2>1
    <3>2. FlattenSeq(bs) = bs
      BY <2>1 DEF FlattenSeq
    <3>3. QED BY <3>1, <3>2
  <2>3. QED BY <1>2, <1>5, <2>2, ConcatEmptySeq
<1>8. ASSUME k # n PROVE Left(r, f, k) = Block(r, f, k + 1) \o Left(r, f, k + 1)
  <2> DEFINE rest == blocks(k + 1)
             b == Block(r, f, k + 1)
  <2>1. k \in Nat /\ n - k >= 1 /\ k + 1 \in 0..n /\ 1 \in 1..(n - k) /\ n - k \in Nat /\ 1 + k = k + 1
    BY <1>1, <1>4, <1>8
  <2>2. bs[1] = b
    BY <2>1
  <2>3. rest \in Seq(Seq(Ops)) /\ Len(rest) = n - (k + 1)
    BY <1>3, <2>1
  <2>4. \A i \in 1..(n - (k + 1)) : bs[i + 1] = rest[i]
    <3>1. ASSUME NEW i \in 1..(n - (k + 1)) PROVE bs[i + 1] = rest[i]
      <4>1. i + 1 \in 1..(n - k) /\ (i + 1) + k = i + (k + 1)
        BY <1>1, <2>1
      <4>2. QED BY <4>1
    <3>2. QED BY <3>1
  <2>5. Left(r, f, k + 1) = FlattenSeq(rest) \o last
    BY DEF Left
  <2>6. b \in Seq(Ops)
    <3>1. k + 1 \in DOMAIN Members[r]
      BY <1>1, <2>1
    <3>2. QED BY <3>1, BlockIs
  <2> HIDE DEF bs, rest, last, b
  <2>7. bs # <<>> /\ Head(bs) = b
    BY <1>4, <2>1, <2>2
  <2>8. Tail(bs) = rest
    <3>1. /\ Tail(bs) \in Seq(Seq(Ops)) /\ Len(Tail(bs)) = Len(bs) - 1
          /\ \A i \in 1..Len(Tail(bs)) : Tail(bs)[i] = bs[i + 1]
      BY <1>4, <2>7, HeadTailProperties
    <3>2. Len(Tail(bs)) = Len(rest) /\ Len(rest) = n - (k + 1)
      BY <1>1, <1>4, <2>3, <3>1
    <3>3. \A i \in 1..Len(rest) : Tail(bs)[i] = rest[i]
      BY <2>4, <3>1, <3>2
    <3>4. QED BY <2>3, <3>1, <3>2, <3>3, SeqEqual
  <2>9. FlattenSeq(bs) = b \o FlattenSeq(rest) /\ FlattenSeq(rest) \in Seq(Ops)
    BY <1>4, <2>7, <2>8, FlattenHead
  <2>10. (b \o FlattenSeq(rest)) \o last = b \o (FlattenSeq(rest) \o last)
    BY <1>2, <2>6, <2>9, ConcatAssociative
  <2>11. Left(r, f, k) = b \o Left(r, f, k + 1)
    BY <1>5, <2>5, <2>9, <2>10
  <2>12. QED BY <2>11 DEF b
<1>9. QED BY <1>6, <1>7, <1>8

-----------------------------------------------------------------------------
(* MatchPanel: types, and what the panel shows.                            *)

LEMMA BlankIs == Blank \in Sheets(NoRound) /\ Blank.locked \subseteq Blank.ticked
<1>1. PanelPlayers(NoRound) = {}
  BY DEF PanelPlayers
<1>2. <<>> \in [{} -> 0..SpinMax]
  OBVIOUS
<1>3. 0 \in 0..SpinMax
  BY ConstantsAssumption DEF ConstantsAssumption
<1>4. QED BY <1>1, <1>2, <1>3 DEF Sheets, Blank

(* A panel that is drawn shows a sheet of its match. *)
LEMMA PanelIs ==
  ASSUME NEW m \in [Rounds -> Matches], \A q \in Rounds : m[q].confirmed \subseteq In(q),
         NEW r \in Rounds \cup {NoRound}
  PROVE  Panel(m, r) \in Sheets(r) /\ Panel(m, r).locked \subseteq Panel(m, r).ticked
<1>1. CASE r = NoRound
  BY <1>1, BlankIs DEF Panel
<1>2. CASE r # NoRound
  <2>1. r \in Rounds
    BY <1>2
  <2>2. m[r] \in Matches /\ m[r].confirmed \subseteq In(r) /\ In(r) \subseteq Players
        /\ PanelPlayers(r) = In(r)
    BY <2>1, PlayersStand
  <2>3. \A n \in Int : Shown(n) \in 0..SpinMax
    BY ConstantsAssumption DEF ConstantsAssumption, Shown
  <2>4. \A p \in In(r) : m[r].wins[p] \in Int
    BY <2>2 DEF Matches
  <2>5. m[r].draws \in Int
    BY <2>2 DEF Matches
  <2>6. [p \in In(r) |-> Shown(m[r].wins[p])] \in [In(r) -> 0..SpinMax] /\ Shown(m[r].draws) \in 0..SpinMax
    BY <2>3, <2>4, <2>5
  <2>7. Panel(m, r) = [wins |-> [p \in In(r) |-> Shown(m[r].wins[p])], draws |-> Shown(m[r].draws),
                       ticked |-> m[r].confirmed, locked |-> m[r].confirmed]
    BY <1>2 DEF Panel, Results
  <2>8. QED BY <2>2, <2>6, <2>7 DEF Sheets
<1>3. QED BY <1>1, <1>2

(* An operation of the client keeps its matches matches, and leaves the others. *)
LEMMA AppliedIs ==
  ASSUME match \in [Rounds -> Matches], \A q \in Rounds : match[q].confirmed \subseteq In(q),
         NEW o \in Ops, NEW m \in Applied(o)
  PROVE  m \in [Rounds -> Matches] /\ \A q \in Rounds : m[q].confirmed \subseteq In(q)
<1>1. PICK r \in Rounds : o \in OpsOf(r)
  BY DEF Ops
<1>2. match[r] \in Matches /\ In(r) \subseteq Players
  BY <1>1, PlayersStand
<1>3. ASSUME NEW p \in In(r), NEW n \in 0..SpinMax, o = Wins(r, p, n)
      PROVE  m \in [Rounds -> Matches] /\ \A q \in Rounds : m[q].confirmed \subseteq In(q)
  <2>1. o.do = "wins" /\ o.round = r /\ o.player = p /\ o.n = n
    BY <1>3 DEF Wins
  <2>2. PICK c \in {match[r].confirmed, {}} :
          m = [match EXCEPT ![r].wins[p] = n, ![r].confirmed = c]
    BY <2>1 DEF Applied
  <2> DEFINE x == [match[r] EXCEPT !.wins[p] = n, !.confirmed = c]
  <2>3. n \in Int /\ c \subseteq In(r)
    BY <1>3
  <2>4. x \in Matches /\ x.confirmed = c
    <3>1. [match[r].wins EXCEPT ![p] = n] \in [Players -> Int]
      BY <1>2, <2>3 DEF Matches
    <3>2. QED BY <1>2, <2>3, <3>1 DEF Matches
  <2>5. m = [match EXCEPT ![r] = x]
    BY <2>2
  <2> HIDE DEF x
  <2>6. QED BY <2>3, <2>4, <2>5
<1>4. ASSUME NEW p \in In(r), o = Confirm(r, p)
      PROVE  m \in [Rounds -> Matches] /\ \A q \in Rounds : m[q].confirmed \subseteq In(q)
  <2>1. o.do = "confirm" /\ o.round = r /\ o.player = p
    BY <1>4 DEF Confirm
  <2>2. m = [match EXCEPT ![r].confirmed = match[r].confirmed \cup {p}]
    BY <2>1 DEF Applied
  <2> DEFINE x == [match[r] EXCEPT !.confirmed = match[r].confirmed \cup {p}]
  <2>3. x \in Matches /\ x.confirmed \subseteq In(r)
    BY <1>2 DEF Matches
  <2>4. m = [match EXCEPT ![r] = x]
    BY <2>2
  <2> HIDE DEF x
  <2>5. QED BY <2>3, <2>4
<1>5. ASSUME NEW n \in 0..SpinMax, o = Draws(r, n)
      PROVE  m \in [Rounds -> Matches] /\ \A q \in Rounds : m[q].confirmed \subseteq In(q)
  <2>1. o.do = "draws" /\ o.round = r /\ o.n = n
    BY <1>5 DEF Draws
  <2>2. PICK c \in {match[r].confirmed, {}} :
          m = [match EXCEPT ![r].draws = n, ![r].confirmed = c]
    BY <2>1 DEF Applied
  <2> DEFINE x == [match[r] EXCEPT !.draws = n, !.confirmed = c]
  <2>3. n \in Nat /\ c \subseteq In(r)
    BY <1>5
  <2>4. x \in Matches /\ x.confirmed \subseteq In(r)
    BY <1>2, <2>3 DEF Matches
  <2>5. m = [match EXCEPT ![r] = x]
    BY <2>2
  <2> HIDE DEF x
  <2>6. QED BY <2>4, <2>5
<1>6. QED BY <1>1, <1>3, <1>4, <1>5 DEF OpsOf

(* A sheet that is edited is a sheet. *)
LEMMA EditIs ==
  ASSUME PanelTypeOK, Edit
  PROVE  fields' \in Sheets(selected) /\ fields'.locked \subseteq fields'.ticked
<1>1. /\ selected \in Rounds /\ fields \in Sheets(selected) /\ fields.locked \subseteq fields.ticked
      /\ PanelPlayers(selected) = In(selected)
  BY PlayersStand DEF Edit, PanelTypeOK
<1>2. /\ fields.wins \in [In(selected) -> 0..SpinMax] /\ fields.draws \in 0..SpinMax
      /\ fields.ticked \subseteq In(selected) /\ fields.locked \subseteq In(selected)
  BY <1>1 DEF Sheets
<1>3. ASSUME NEW p \in In(selected), NEW n \in 0..SpinMax,
             fields' = [fields EXCEPT !.wins[p] = n]
      PROVE  fields' \in Sheets(selected) /\ fields'.locked \subseteq fields'.ticked
  <2>1. [fields.wins EXCEPT ![p] = n] \in [In(selected) -> 0..SpinMax]
    BY <1>2
  <2>2. fields' = [fields EXCEPT !.wins = [fields.wins EXCEPT ![p] = n]]
    BY <1>3
  <2>3. QED BY <1>1, <2>1, <2>2 DEF Sheets
<1>4. ASSUME NEW p \in In(selected) \ fields.locked,
             fields' = [fields EXCEPT !.ticked = IF p \in @ THEN @ \ {p} ELSE @ \cup {p}]
      PROVE  fields' \in Sheets(selected) /\ fields'.locked \subseteq fields'.ticked
  <2>1. PICK T \in SUBSET In(selected) : fields' = [fields EXCEPT !.ticked = T] /\ fields.locked \subseteq T
    <3> DEFINE T == IF p \in fields.ticked THEN fields.ticked \ {p} ELSE fields.ticked \cup {p}
    <3>1. fields' = [fields EXCEPT !.ticked = T]
      BY <1>4
    <3>2. T \in SUBSET In(selected) /\ fields.locked \subseteq T
      BY <1>1, <1>2, <1>4
    <3>3. QED BY <3>1, <3>2
  <2>2. QED BY <1>1, <2>1 DEF Sheets
<1>5. ASSUME NEW n \in 0..SpinMax, fields' = [fields EXCEPT !.draws = n]
      PROVE  fields' \in Sheets(selected) /\ fields'.locked \subseteq fields'.ticked
  BY <1>1, <1>5 DEF Sheets
<1>6. QED BY <1>3, <1>4, <1>5 DEF Edit

(* The loops. *)
LEMMA ConfirmLoopIs == ASSUME NEW r \in Rounds PROVE ConfirmLoop(r) \in Seq(Ops)
<1>1. \A i \in DOMAIN Members[r] : Confirm(r, Members[r][i]) \in Ops
  BY PlayersStand, OpsAre
<1>2. DOMAIN Members[r] = 1..Len(Members[r]) /\ Len(Members[r]) \in Nat
  BY PlayersStand
<1>3. QED BY <1>1, <1>2 DEF ConfirmLoop

LEMMA LoopsAre ==
  ASSUME NEW order \in SetToSeqs(Rounds)
  PROVE  FlattenSeq([i \in DOMAIN order |-> ConfirmLoop(order[i])]) \in Seq(Ops)
<1> DEFINE n == Cardinality(Rounds)
<1>1. n \in Nat
  BY FS_CardinalityType, ConstantsAssumption DEF ConstantsAssumption
<1>2. order \in [1..n -> Rounds]
  BY DEF SetToSeqs
<1> HIDE DEF n
<1>3. \A i \in 1..n : ConfirmLoop(order[i]) \in Seq(Ops)
  BY <1>2, ConfirmLoopIs
<1>4. [i \in DOMAIN order |-> ConfirmLoop(order[i])] \in Seq(Seq(Ops))
  <2>1. DOMAIN order = 1..n
    BY <1>2
  <2>2. [i \in 1..n |-> ConfirmLoop(order[i])] \in [1..n -> Seq(Ops)]
    BY <1>3
  <2>3. QED BY <1>1, <2>1, <2>2
<1>5. QED BY <1>4, FlattenType

LEMMA PanelTypeInit == Init => PanelTypeOK
<1> SUFFICES ASSUME Init PROVE PanelTypeOK
  OBVIOUS
<1>1. match \in [Rounds -> Matches]
  BY ConstantsAssumption DEF Init, ConstantsAssumption
<1>2. fields \in Sheets(selected) /\ fields.locked \subseteq fields.ticked
  BY BlankIs DEF Init
<1>3. job \in Seq(Ops)
  BY DEF Init
<1>4. QED BY <1>1, <1>2, <1>3 DEF Init, PanelTypeOK

(* A handler that draws the panel and leaves the matches. *)
LEMMA DrawnType ==
  ASSUME PanelTypeOK, UNCHANGED <<match, job, refused>>, selected' \in Rounds \cup {NoRound}, Drawn
  PROVE  PanelTypeOK'
<1>1. match' \in [Rounds -> Matches] /\ \A q \in Rounds : match'[q].confirmed \subseteq In(q)
  BY DEF PanelTypeOK
<1>2. fields' = Panel(match', selected') /\ edited' = FALSE
  BY DEF Drawn
<1>3. fields' \in Sheets(selected') /\ fields'.locked \subseteq fields'.ticked
  BY <1>1, <1>2, PanelIs
<1>4. QED BY <1>1, <1>2, <1>3 DEF PanelTypeOK

LEMMA StartType ==
  ASSUME PanelTypeOK, NEW what, NEW loop \in Seq(Ops), Start(what, loop)
  PROVE  PanelTypeOK'
BY DEF Start, PanelTypeOK

LEMMA RunType ==
  ASSUME PanelTypeOK, Run
  PROVE  PanelTypeOK'
<1>1. job \in Seq(Ops) /\ job # <<>>
  BY DEF PanelTypeOK, Run, Idle
<1>2. Head(job) \in Ops /\ Tail(job) \in Seq(Ops) /\ <<>> \in Seq(Ops)
  BY <1>1, HeadTailProperties
<1>3. match' \in [Rounds -> Matches] /\ \A q \in Rounds : match'[q].confirmed \subseteq In(q)
  <2>1. CASE match' \in Applied(Head(job))
    BY <1>2, <2>1, AppliedIs DEF PanelTypeOK
  <2>2. CASE match' = match
    BY <2>2 DEF PanelTypeOK
  <2>3. QED BY <2>1, <2>2 DEF Run
<1>4. job' \in Seq(Ops) /\ selected' = selected /\ refused' \in BOOLEAN
  BY <1>2 DEF Run, PanelTypeOK
<1>5. fields' = Panel(match', selected') /\ edited' = FALSE
  BY DEF Run, Drawn
<1>6. selected' \in Rounds \cup {NoRound}
  BY <1>4 DEF PanelTypeOK
<1>7. fields' \in Sheets(selected') /\ fields'.locked \subseteq fields'.ticked
  BY <1>3, <1>5, <1>6, PanelIs
<1>8. QED BY <1>3, <1>4, <1>5, <1>6, <1>7 DEF PanelTypeOK

LEMMA PanelTypeStep == PanelTypeOK /\ [Next]_vars => PanelTypeOK'
<1> SUFFICES ASSUME PanelTypeOK, [Next]_vars PROVE PanelTypeOK'
  OBVIOUS
<1>1. ASSUME NEW r \in Rounds, setRound(r) PROVE PanelTypeOK'
  BY <1>1, DrawnType DEF setRound
<1>2. CASE Reset \/ kill \/ timeExtend \/ onPlayersChanged
  <2>1. UNCHANGED <<match, selected, job, refused>> /\ Drawn
    BY <1>2 DEF Reset, kill, timeExtend, onPlayersChanged
  <2>2. selected' \in Rounds \cup {NoRound}
    BY <2>1 DEF PanelTypeOK
  <2>3. QED BY <2>1, <2>2, DrawnType
<1>3. CASE Edit
  <2>1. fields' \in Sheets(selected) /\ fields'.locked \subseteq fields'.ticked
    BY <1>3, EditIs
  <2>2. edited' = TRUE /\ UNCHANGED <<match, selected, job, request, refused>>
    BY <1>3 DEF Edit
  <2>3. QED BY <2>1, <2>2 DEF PanelTypeOK
<1>4. CASE onResultsSave
  <2>1. selected \in Rounds /\ fields \in Sheets(selected) /\ Len(Members[selected]) \in Nat
    BY <1>4, PlayersStand DEF onResultsSave, PanelTypeOK
  <2>2. SaveLoop(selected, fields) \in Seq(Ops)
    BY <2>1, LoopFromFirst, LeftIs
  <2>3. QED BY <1>4, <2>2, StartType DEF onResultsSave
<1>5. CASE confirmMatch
  <2>1. selected \in Rounds
    BY <1>5 DEF confirmMatch, PanelTypeOK
  <2>2. QED BY <1>5, <2>1, ConfirmLoopIs, StartType DEF confirmMatch
<1>6. CASE confirmAllMatches
  BY <1>6, LoopsAre, StartType DEF confirmAllMatches
<1>7. CASE Run
  BY <1>7, RunType
<1>8. CASE UNCHANGED vars
  BY <1>8 DEF vars, PanelTypeOK
<1>9. QED BY <1>1, <1>2, <1>3, <1>4, <1>5, <1>6, <1>7, <1>8 DEF Next

LEMMA PanelTypes == Spec => []PanelTypeOK
BY PanelTypeInit, PanelTypeStep, PTL DEF Spec

(* TypeOK: every match keeps results of its own players and confirmations of
   nobody else, and the panel has a box for each player of the match it shows
   with a number the box can hold. *)
THEOREM PanelIsSheet == Spec => []TypeOK
<1>1. PanelTypeOK => TypeOK
  <2> SUFFICES ASSUME PanelTypeOK PROVE TypeOK
    OBVIOUS
  <2>1. fields.wins \in [PanelPlayers(selected) -> 0..SpinMax] /\ fields.draws \in 0..SpinMax
    BY DEF PanelTypeOK, Sheets
  <2>2. QED BY <2>1 DEF PanelTypeOK, TypeOK, PanelPlayers
<1>2. QED BY <1>1, PanelTypes, PTL

LEMMA CurrentInit == Init => PanelIsCurrent
BY DEF Init, PanelIsCurrent, Panel

LEMMA CurrentStep == PanelIsCurrent /\ [Next]_vars => PanelIsCurrent'
<1> SUFFICES ASSUME PanelIsCurrent, [Next]_vars PROVE PanelIsCurrent'
  OBVIOUS
<1>1. CASE Drawn
  BY <1>1 DEF Drawn, PanelIsCurrent
<1>2. CASE Edit
  BY <1>2 DEF Edit, PanelIsCurrent
<1>3. CASE UNCHANGED <<match, selected, fields, edited>>
  BY <1>3 DEF PanelIsCurrent
<1>4. QED
  BY <1>1, <1>2, <1>3
     DEF Next, setRound, Reset, kill, timeExtend, onPlayersChanged, Run, onResultsSave,
         confirmMatch, confirmAllMatches, Start, vars

(* PanelIsCurrent: in the middle of a loop, after a refusal and at every other
   moment the panel shows what the client has, unless the user edits it. *)
THEOREM PanelShowsClient == Spec => []PanelIsCurrent
BY CurrentInit, CurrentStep, PTL DEF Spec

-----------------------------------------------------------------------------
(* MatchPanel: what a save has done at each of its operations.             *)

(* What an operation on a match changes. *)
LEMMA WinsAre ==
  ASSUME PanelTypeOK, NEW r \in Rounds, NEW p \in In(r), NEW n, NEW m \in Applied(Wins(r, p, n))
  PROVE  /\ m[r].wins = [match[r].wins EXCEPT ![p] = n]
         /\ m[r].draws = match[r].draws /\ m[r].confirmed \subseteq match[r].confirmed
         /\ \A q \in Rounds \ {r} : m[q] = match[q]
<1>1. /\ Wins(r, p, n).do = "wins" /\ Wins(r, p, n).round = r
      /\ Wins(r, p, n).player = p /\ Wins(r, p, n).n = n
  BY DEF Wins
<1>2. PICK c \in {match[r].confirmed, {}} : m = [match EXCEPT ![r].wins[p] = n, ![r].confirmed = c]
  BY <1>1 DEF Applied
<1>3. match \in [Rounds -> Matches] /\ match[r] \in Matches
  BY DEF PanelTypeOK
<1>4. m[r] = [match[r] EXCEPT !.wins[p] = n, !.confirmed = c]
  BY <1>2, <1>3
<1>5. \A q \in Rounds \ {r} : m[q] = match[q]
  BY <1>2, <1>3
<1>6. QED BY <1>2, <1>3, <1>4, <1>5 DEF Matches

LEMMA ConfirmIs ==
  ASSUME PanelTypeOK, NEW r \in Rounds, NEW p \in In(r), NEW m \in Applied(Confirm(r, p))
  PROVE  /\ m[r].wins = match[r].wins /\ m[r].draws = match[r].draws
         /\ m[r].confirmed = match[r].confirmed \cup {p}
         /\ \A q \in Rounds \ {r} : m[q] = match[q]
<1>1. Confirm(r, p).do = "confirm" /\ Confirm(r, p).round = r /\ Confirm(r, p).player = p
  BY DEF Confirm
<1>2. m = [match EXCEPT ![r].confirmed = match[r].confirmed \cup {p}]
  BY <1>1 DEF Applied
<1>3. match \in [Rounds -> Matches] /\ match[r] \in Matches
  BY DEF PanelTypeOK
<1>4. m[r] = [match[r] EXCEPT !.confirmed = match[r].confirmed \cup {p}]
  BY <1>2, <1>3
<1>5. QED BY <1>2, <1>3, <1>4 DEF Matches

LEMMA DrawsAre ==
  ASSUME PanelTypeOK, NEW r \in Rounds, NEW n, NEW m \in Applied(Draws(r, n))
  PROVE  m[r].wins = match[r].wins /\ m[r].draws = n
<1>1. Draws(r, n).do = "draws" /\ Draws(r, n).round = r /\ Draws(r, n).n = n
  BY DEF Draws
<1>2. PICK c \in {match[r].confirmed, {}} : m = [match EXCEPT ![r].draws = n, ![r].confirmed = c]
  BY <1>1 DEF Applied
<1>3. match \in [Rounds -> Matches] /\ match[r] \in Matches
  BY DEF PanelTypeOK
<1>4. m[r] = [match[r] EXCEPT !.draws = n, !.confirmed = c]
  BY <1>2, <1>3
<1>5. QED BY <1>2, <1>3, <1>4 DEF Matches

(* An operation of the loop that the client accepts brings the save one step
   on, or ends it when everything is as it was entered. *)
LEMMA SaveGoesOn ==
  ASSUME PanelTypeOK, NEW r \in Rounds, NEW f \in Sheets(r), NEW old,
         NEW k \in 0..Len(Members[r]), SavedUpTo(r, f, old, k),
         match' \in Applied(Head(job)), job' = Tail(job)
  PROVE  \/ job' # <<>> /\ \E l \in 0..Len(Members[r]) : SavedUpTo(r, f, old, l)'
         \/ /\ job' = <<>> /\ match'[r].draws = f.draws
            /\ \A p \in In(r) : match'[r].wins[p] = f.wins[p]
<1> DEFINE n == Len(Members[r])
<1>1. n \in Nat /\ DOMAIN Members[r] = 1..n /\ match[r] \in Matches /\ In(r) \subseteq Players
  BY PlayersStand DEF PanelTypeOK
<1>2. Left(r, f, k) \in Seq(Ops) /\ Left(r, f, k) # <<>>
  BY LeftIs
<1>3. ResultsUpTo(r, f, old, k)
  BY DEF SavedUpTo, ResultsUpTo
<1>4. CASE k # 0 /\ Members[r][k] \in f.ticked
           /\ job = <<Confirm(r, Members[r][k])>> \o Left(r, f, k)
  <2> DEFINE p == Members[r][k]
  <2>1. k \in DOMAIN Members[r] /\ p \in In(r) /\ Confirm(r, p) \in Ops
    BY <1>1, <1>4, PlayersStand, OpsAre
  <2>2. Head(job) = Confirm(r, p) /\ job' = Left(r, f, k)
    BY <1>2, <1>4, <2>1, PutFirst
  <2>3. /\ match'[r].wins = match[r].wins /\ match'[r].draws = match[r].draws
        /\ match'[r].confirmed = match[r].confirmed \cup {p}
        /\ \A q \in Rounds \ {r} : match'[q] = match[q]
    BY <2>1, <2>2, ConfirmIs
  <2>4. \A i \in DOMAIN Members[r] : i # k => Members[r][i] # p
    BY <2>1, PlayersStand
  <2>5. ResultsUpTo(r, f, old, k)'
    <3>1. ASSUME NEW i \in DOMAIN Members[r]
          PROVE  LET x == Members[r][i]
                 IN  IF i <= k
                     THEN /\ match'[r].wins[x] = f.wins[x]
                          /\ x \in match'[r].confirmed => x \in old[r].confirmed \/ x \in f.ticked
                     ELSE /\ match'[r].wins[x] = old[r].wins[x]
                          /\ x \in match'[r].confirmed => x \in old[r].confirmed
      <4>1. CASE i = k
        BY <1>1, <1>3, <1>4, <2>1, <2>3, <4>1 DEF ResultsUpTo
      <4>2. CASE i # k
        BY <1>3, <2>3, <2>4, <4>2 DEF ResultsUpTo
      <4>3. QED BY <4>1, <4>2
    <3>2. QED BY <1>3, <2>3, <3>1 DEF ResultsUpTo
  <2>6. SavedUpTo(r, f, old, k)'
    BY <2>2, <2>5 DEF SavedUpTo, ResultsUpTo
  <2>7. QED BY <1>2, <2>2, <2>6
<1>5. CASE job = Left(r, f, k) /\ k # n
  <2> DEFINE l == k + 1
             p == Members[r][l]
             rest == Left(r, f, l)
             tick == IF p \in f.ticked THEN <<Confirm(r, p)>> ELSE <<>>
             wins == Wins(r, p, f.wins[p])
  <2>1. l \in DOMAIN Members[r] /\ l \in 0..n /\ l # 0 /\ l \in Nat /\ k \in Nat
    BY <1>1, <1>5
  <2>2. p \in In(r) /\ \A i \in DOMAIN Members[r] : i # l => Members[r][i] # p
    BY <2>1, PlayersStand
  <2>3. wins \in Ops /\ Confirm(r, p) \in Ops
    <3>1. f.wins[p] \in 0..SpinMax
      BY <2>2, PlayersStand DEF Sheets
    <3>2. QED BY <2>2, <3>1, OpsAre
  <2>4. rest \in Seq(Ops) /\ rest # <<>>
    BY <2>1, LeftIs
  <2>5. job = (<<wins>> \o tick) \o rest
    BY <1>5, LeftIs DEF Block
  <2>6. tick \in Seq(Ops) /\ <<wins>> \in Seq(Ops)
    BY <2>3
  <2>7. tick \o rest \in Seq(Ops) /\ tick \o rest # <<>>
    <3>1. CASE p \in f.ticked
      BY <2>3, <2>4, <3>1, PutFirst
    <3>2. CASE p \notin f.ticked
      BY <2>4, <3>2, ConcatEmptySeq
    <3>3. QED BY <3>1, <3>2
  <2>8. Head(job) = wins /\ job' = tick \o rest
    <3> HIDE DEF tick, rest, wins
    <3>1. job = <<wins>> \o (tick \o rest)
      BY <2>4, <2>5, <2>6, ConcatAssociative
    <3>2. QED BY <2>3, <2>7, <3>1, PutFirst
  <2>9. /\ match'[r].wins = [match[r].wins EXCEPT ![p] = f.wins[p]]
        /\ match'[r].draws = match[r].draws /\ match'[r].confirmed \subseteq match[r].confirmed
        /\ \A q \in Rounds \ {r} : match'[q] = match[q]
    BY <2>2, <2>8, WinsAre
  <2>10. match[r].wins \in [Players -> Int] /\ p \in Players
    BY <1>1, <2>2 DEF Matches
  <2>11. ResultsUpTo(r, f, old, l)'
    <3>1. ASSUME NEW i \in DOMAIN Members[r]
          PROVE  LET x == Members[r][i]
                 IN  IF i <= l
                     THEN /\ match'[r].wins[x] = f.wins[x]
                          /\ x \in match'[r].confirmed => x \in old[r].confirmed \/ x \in f.ticked
                     ELSE /\ match'[r].wins[x] = old[r].wins[x]
                          /\ x \in match'[r].confirmed => x \in old[r].confirmed
      <4>1. CASE i = l
        <5>1. ~(l <= k)
          BY <2>1
        <5>2. match'[r].wins[p] = f.wins[p]
          BY <2>9, <2>10
        <5>3. p \in match'[r].confirmed => p \in old[r].confirmed
          BY <1>3, <2>1, <2>9, <5>1 DEF ResultsUpTo
        <5>4. QED BY <2>1, <4>1, <5>2, <5>3
      <4>2. CASE i # l
        <5>1. i <= l <=> i <= k
          BY <1>1, <2>1, <4>2
        <5>2. match'[r].wins[Members[r][i]] = match[r].wins[Members[r][i]]
          BY <2>2, <2>9, <2>10, <4>2, PlayersStand
        <5>3. QED BY <1>3, <2>9, <5>1, <5>2 DEF ResultsUpTo
      <4>3. QED BY <4>1, <4>2
    <3>2. QED BY <1>3, <2>9, <3>1 DEF ResultsUpTo
  <2>12. \/ job' = rest
         \/ p \in f.ticked /\ job' = <<Confirm(r, p)>> \o rest
    BY <2>4, <2>8, ConcatEmptySeq
  <2>13. SavedUpTo(r, f, old, l)'
    <3>1. \/ job' = Left(r, f, l)
          \/ l # 0 /\ Members[r][l] \in f.ticked
             /\ job' = <<Confirm(r, Members[r][l])>> \o Left(r, f, l)
      BY <2>1, <2>12
    <3> HIDE DEF l
    <3>2. QED BY <2>11, <3>1 DEF SavedUpTo, ResultsUpTo
  <2>14. job' # <<>>
    BY <2>7, <2>8
  <2>15. QED BY <2>1, <2>13, <2>14
<1>6. CASE job = Left(r, f, k) /\ k = n
  <2>1. job = <<Draws(r, f.draws)>>
    BY <1>6, LeftIs
  <2>2. Head(job) = Draws(r, f.draws) /\ job' = <<>>
    BY <2>1
  <2>3. match'[r].wins = match[r].wins /\ match'[r].draws = f.draws
    BY <2>2, DrawsAre
  <2>4. \A i \in DOMAIN Members[r] : match[r].wins[Members[r][i]] = f.wins[Members[r][i]]
    BY <1>1, <1>3, <1>6 DEF ResultsUpTo
  <2>5. \A p \in In(r) : match[r].wins[p] = f.wins[p]
    BY <2>4, PlayersStand
  <2>6. QED BY <2>2, <2>3, <2>5
<1>7. QED BY <1>4, <1>5, <1>6 DEF SavedUpTo

LEMMA SaveInit == Init => SaveInv
BY DEF Init, SaveInv, Idle

(* A save starts with nothing changed. *)
LEMMA SaveStarts ==
  ASSUME PanelTypeOK, NEW what, NEW loop, Start(what, loop),
         what = "save" => selected # NoRound /\ loop = SaveLoop(selected, fields)
  PROVE  SaveInv'
<1>1. /\ job' = loop /\ refused' = FALSE /\ match' = match
      /\ request' = [kind |-> what, round |-> selected, fields |-> fields, before |-> match]
  BY DEF Start
<1>2. CASE what = "save"
  <2>1. PICK r \in Rounds : r = selected
    BY <1>2 DEF PanelTypeOK
  <2>2. PICK f \in Sheets(r) : f = fields
    BY <2>1 DEF PanelTypeOK
  <2>3. PICK old : old = match
    OBVIOUS
  <2>4. Len(Members[r]) \in Nat /\ DOMAIN Members[r] = 1..Len(Members[r])
    BY PlayersStand
  <2>5. 0 \in 0..Len(Members[r]) /\ \A i \in DOMAIN Members[r] : ~(i <= 0)
    BY <2>4
  <2>6. ResultsUpTo(r, f, old, 0)'
    BY <1>1, <2>3, <2>5 DEF ResultsUpTo
  <2>7. job' = Left(r, f, 0)
    BY <1>1, <1>2, <2>1, <2>2, LoopFromFirst
  <2>8. SavedUpTo(r, f, old, 0)'
    BY <2>6, <2>7 DEF SavedUpTo
  <2>9. request'.round = r /\ request'.fields = f /\ request'.before = old
    BY <1>1, <2>1, <2>2, <2>3
  <2>10. SavedUpTo(request.round, request.fields, request.before, 0)'
    BY <2>8, <2>9 DEF SavedUpTo, ResultsUpTo
  <2>11. \E k \in 0..Len(Members[request'.round]) :
           SavedUpTo(request.round, request.fields, request.before, k)'
    BY <2>5, <2>9, <2>10
  <2>12. QED BY <1>1, <2>9, <2>11 DEF SaveInv
<1>3. CASE what # "save"
  BY <1>1, <1>3 DEF SaveInv, Saving
<1>4. QED BY <1>2, <1>3

LEMMA SaveStep == PanelTypeOK /\ SaveInv /\ [Next]_vars => SaveInv'
<1> SUFFICES ASSUME PanelTypeOK, SaveInv, [Next]_vars PROVE SaveInv'
  OBVIOUS
<1>1. CASE Run
  <2> SUFFICES ASSUME ~Idle' PROVE SaveInv'
    BY DEF SaveInv
  <2>1. /\ match' \in Applied(Head(job)) /\ job' = Tail(job) /\ refused' = refused
        /\ request' = request /\ ~Idle /\ ~refused
    BY <1>1 DEF Run, Idle, SaveInv
  <2>2. CASE Saving
    <3>1. /\ request.round \in Rounds /\ request.fields \in Sheets(request.round)
          /\ \E k \in 0..Len(Members[request.round]) :
               SavedUpTo(request.round, request.fields, request.before, k)
      BY <2>1, <2>2 DEF SaveInv
    <3>2. PICK r \in Rounds : r = request.round
      BY <3>1
    <3>3. PICK f \in Sheets(r) : f = request.fields
      BY <3>1, <3>2
    <3>4. PICK old : old = request.before
      OBVIOUS
    <3>5. PICK k \in 0..Len(Members[r]) : SavedUpTo(r, f, old, k)
      BY <3>1, <3>2, <3>3, <3>4
    <3>6. PICK l \in 0..Len(Members[r]) : SavedUpTo(r, f, old, l)'
      BY <2>1, <3>5, SaveGoesOn DEF Idle
    <3>7. r = request'.round /\ f = request'.fields /\ old = request'.before
      BY <2>1, <3>2, <3>3, <3>4
    <3>8. SavedUpTo(request.round, request.fields, request.before, l)'
      BY <3>6, <3>7 DEF SavedUpTo, ResultsUpTo
    <3>9. \E j \in 0..Len(Members[request'.round]) :
            SavedUpTo(request.round, request.fields, request.before, j)'
      BY <3>7, <3>8
    <3>10. QED BY <2>1, <3>7, <3>9 DEF SaveInv
  <2>3. CASE ~Saving
    BY <2>1, <2>3 DEF SaveInv, Saving
  <2>4. QED BY <2>2, <2>3
<1>2. CASE onResultsSave
  BY <1>2, SaveStarts DEF onResultsSave
<1>3. CASE confirmMatch
  BY <1>3, SaveStarts DEF confirmMatch
<1>4. CASE confirmAllMatches
  BY <1>4, SaveStarts DEF confirmAllMatches
<1>5. CASE Idle /\ job' = job
  BY <1>5 DEF SaveInv, Idle
<1>6. CASE UNCHANGED vars
  <2>1. match' = match /\ job' = job /\ request' = request /\ refused' = refused
    BY <1>6 DEF vars
  <2>2. QED BY <2>1 DEF SaveInv, Saving, Idle, SavedUpTo, ResultsUpTo
<1>7. QED
  BY <1>1, <1>2, <1>3, <1>4, <1>5, <1>6
     DEF Next, setRound, Reset, Edit, kill, timeExtend, onPlayersChanged

PanelInv == PanelTypeOK /\ SaveInv

LEMMA PanelInductive == Spec => []PanelInv
<1>1. Init => PanelInv
  BY PanelTypeInit, SaveInit DEF PanelInv
<1>2. PanelInv /\ [Next]_vars => PanelInv'
  BY PanelTypeStep, SaveStep DEF PanelInv
<1>3. QED BY <1>1, <1>2, PTL DEF Spec

(* ConfirmedAsEntered: a save confirms only players with a tick and the results
   the user entered, at every one of its operations, for any number of players. *)
THEOREM NoFalseConfirmation == Spec => []ConfirmedAsEntered
<1>1. PanelInv => ConfirmedAsEntered
  <2> SUFFICES ASSUME PanelInv, Saving, ~Idle,
                      NEW p \in At(match).confirmed \ Before.confirmed
               PROVE  p \in request.fields.ticked /\ At(match).wins[p] = request.fields.wins[p]
    BY DEF ConfirmedAsEntered
  <2>1. PICK r \in Rounds : r = request.round
    BY DEF PanelInv, SaveInv
  <2>2. PICK k \in 0..Len(Members[r]) : ResultsUpTo(r, request.fields, request.before, k)
    BY <2>1 DEF PanelInv, SaveInv, SavedUpTo
  <2>3. p \in match[r].confirmed /\ p \notin request.before[r].confirmed /\ p \in In(r)
    BY <2>1 DEF At, Before, PanelInv, PanelTypeOK
  <2>4. PICK i \in DOMAIN Members[r] : p = Members[r][i]
    BY <2>3, PlayersStand
  <2>5. match[r].wins[p] = request.fields.wins[p] /\ p \in request.fields.ticked
    BY <2>2, <2>3, <2>4 DEF ResultsUpTo
  <2>6. QED BY <2>1, <2>5 DEF At
<1>2. QED BY <1>1, PanelInductive, PTL

(* SavedAsEntered: a save that is not refused ends with the results the user
   entered, although each of its operations draws the panel over the edits. *)
THEOREM SaveIsComplete == Spec => SavedAsEntered
<1>1. PanelInv /\ [Next]_vars =>
        [Saving /\ ~Idle /\ job' = <<>> /\ ~refused' =>
           /\ \A p \in In(request.round) :
                match'[request.round].wins[p] = request.fields.wins[p]
           /\ match'[request.round].draws = request.fields.draws]_vars
  <2> SUFFICES ASSUME PanelInv, [Next]_vars, Saving, ~Idle, job' = <<>>, ~refused'
               PROVE  /\ \A p \in In(request.round) :
                           match'[request.round].wins[p] = request.fields.wins[p]
                      /\ match'[request.round].draws = request.fields.draws
    OBVIOUS
  <2>1. match' \in Applied(Head(job)) /\ job' = Tail(job)
    BY DEF Next, setRound, Reset, Edit, onResultsSave, confirmMatch, confirmAllMatches, Run,
           kill, timeExtend, onPlayersChanged, vars, Idle
  <2>2. PICK r \in Rounds : r = request.round
    BY DEF PanelInv, SaveInv
  <2>3. PICK f \in Sheets(r) : f = request.fields
    BY <2>2 DEF PanelInv, SaveInv
  <2>4. PICK k \in 0..Len(Members[r]) : SavedUpTo(r, f, request.before, k)
    BY <2>2, <2>3 DEF PanelInv, SaveInv
  <2>5. match'[r].draws = f.draws /\ \A p \in In(r) : match'[r].wins[p] = f.wins[p]
    BY <2>1, <2>4, SaveGoesOn DEF PanelInv
  <2>6. QED BY <2>2, <2>3, <2>5
<1>2. QED BY <1>1, PanelInductive, PTL DEF Spec, SavedAsEntered

(* RefusalEndsLoop: a save that is refused leaves the results entered up to one
   player and the old ones from there on, and no confirmation beyond. *)
THEOREM RefusalIsClean == Spec => RefusalEndsLoop
<1>1. PanelInv /\ [Next]_vars =>
        [Saving /\ ~Idle /\ refused' =>
           /\ \E k \in 0..Len(Members[request.round]) :
                \A i \in DOMAIN Members[request.round] :
                  LET p == Members[request.round][i]
                  IN  IF i <= k THEN match'[request.round].wins[p] = request.fields.wins[p]
                      ELSE /\ match'[request.round].wins[p] = Before.wins[p]
                           /\ p \in match'[request.round].confirmed => p \in Before.confirmed
           /\ match'[request.round].draws = Before.draws
           /\ \A r \in Rounds \ {request.round} : match'[r] = request.before[r]]_vars
  <2> SUFFICES ASSUME PanelInv, [Next]_vars, Saving, ~Idle, refused'
               PROVE  /\ \E k \in 0..Len(Members[request.round]) :
                           \A i \in DOMAIN Members[request.round] :
                             LET p == Members[request.round][i]
                             IN  IF i <= k
                                 THEN match'[request.round].wins[p] = request.fields.wins[p]
                                 ELSE /\ match'[request.round].wins[p] = Before.wins[p]
                                      /\ p \in match'[request.round].confirmed =>
                                           p \in Before.confirmed
                      /\ match'[request.round].draws = Before.draws
                      /\ \A r \in Rounds \ {request.round} : match'[r] = request.before[r]
    OBVIOUS
  <2>1. ~refused
    BY DEF PanelInv, SaveInv
  <2>2. match' = match
    BY <2>1 DEF Next, setRound, Reset, Edit, onResultsSave, confirmMatch, confirmAllMatches, Run,
           kill, timeExtend, onPlayersChanged, vars
  <2>3. PICK k \in 0..Len(Members[request.round]) :
          ResultsUpTo(request.round, request.fields, request.before, k)
    BY DEF PanelInv, SaveInv, SavedUpTo
  <2>4. QED BY <2>2, <2>3 DEF ResultsUpTo, Before, At
<1>2. QED BY <1>1, PanelInductive, PTL DEF Spec, RefusalEndsLoop

-----------------------------------------------------------------------------
(* TableList: how often a row is in a list.                                *)

(* How often x is among the first n rows. *)
TimesTo(rows, n, x) == Cardinality({i \in 1..n : rows[i] = x})

LEMMA PlacesFinite ==
  ASSUME NEW n \in Nat, NEW s, NEW x
  PROVE  IsFiniteSet({i \in 1..n : s[i] = x}) /\ TimesTo(s, n, x) \in Nat
<1>1. IsFiniteSet(1..n)
  BY FS_Interval
<1>2. {i \in 1..n : s[i] = x} \in SUBSET (1..n)
  OBVIOUS
<1>3. IsFiniteSet({i \in 1..n : s[i] = x})
  BY <1>1, <1>2, FS_Subset
<1>4. QED BY <1>3, FS_CardinalityType DEF TimesTo

LEMMA TimesIsTo ==
  ASSUME NEW S, NEW s \in Seq(S), NEW x
  PROVE  Times(s, x) = TimesTo(s, Len(s), x) /\ Times(s, x) \in Nat
<1>1. Len(s) \in Nat /\ DOMAIN s = 1..Len(s)
  OBVIOUS
<1>2. QED BY <1>1, PlacesFinite DEF Times, TimesTo

LEMMA TimesToNext ==
  ASSUME NEW n \in Nat, NEW s, NEW x
  PROVE  /\ TimesTo(s, 0, x) = 0
         /\ TimesTo(s, n + 1, x) = TimesTo(s, n, x) + IF s[n + 1] = x THEN 1 ELSE 0
<1> DEFINE P == {i \in 1..n : s[i] = x}
           Q == {i \in 1..(n + 1) : s[i] = x}
<1>1. TimesTo(s, 0, x) = 0
  <2>1. {i \in 1..0 : s[i] = x} = {}
    OBVIOUS
  <2>2. QED BY <2>1, FS_EmptySet DEF TimesTo
<1>2. IsFiniteSet(P) /\ Cardinality(P) \in Nat
  BY PlacesFinite, FS_CardinalityType
<1>3. n + 1 \notin P
  OBVIOUS
<1>4. CASE s[n + 1] = x
  <2>1. Q = P \cup {n + 1}
    BY <1>4
  <2> HIDE DEF P, Q
  <2>2. Cardinality(Q) = Cardinality(P) + 1
    BY <1>2, <1>3, <2>1, FS_AddElement
  <2>3. QED BY <1>1, <1>4, <2>2 DEF TimesTo, P, Q
<1>5. CASE s[n + 1] # x
  <2>1. Q = P
    BY <1>5
  <2>2. QED BY <1>1, <1>2, <1>5, <2>1 DEF TimesTo
<1>6. QED BY <1>4, <1>5

LEMMA TimesAppended ==
  ASSUME NEW S, NEW s \in Seq(S), NEW y \in S, NEW x
  PROVE  Times(Append(s, y), x) = Times(s, x) + IF y = x THEN 1 ELSE 0
<1> DEFINE n == Len(s)
           t == Append(s, y)
<1>1. n \in Nat /\ t \in Seq(S) /\ Len(t) = n + 1 /\ t[n + 1] = y /\ \A i \in 1..n : t[i] = s[i]
  OBVIOUS
<1> HIDE DEF n, t
<1>2. {i \in 1..n : t[i] = x} = {i \in 1..n : s[i] = x}
  BY <1>1
<1>3. TimesTo(t, n, x) = TimesTo(s, n, x)
  BY <1>2 DEF TimesTo
<1>4. Times(t, x) = TimesTo(t, n + 1, x) /\ Times(s, x) = TimesTo(s, n, x)
  BY <1>1, TimesIsTo DEF n
<1>5. TimesTo(t, n + 1, x) = TimesTo(t, n, x) + IF t[n + 1] = x THEN 1 ELSE 0
  <2>1. n \in Nat
    BY <1>1
  <2>2. QED BY <2>1, TimesToNext
<1>6. QED BY <1>1, <1>3, <1>4, <1>5 DEF t

-----------------------------------------------------------------------------
(* TableList: the rows that are kept.                                      *)

(* f[i] is what the loop has kept of the first i rows. *)
Keeps(f, s, T) ==
  f = [i \in 0..Len(s) |->
         IF i = 0 THEN <<>>
         ELSE IF s[i] \in T THEN Append(f[i - 1], s[i]) ELSE f[i - 1]]

LEMMA KeepsStep ==
  ASSUME NEW S, NEW s \in Seq(S), NEW T, NEW f, Keeps(f, s, T)
  PROVE  /\ Len(s) \in Nat /\ f[0] = <<>>
         /\ \A n \in 1..Len(s) :
              f[n] = IF s[n] \in T THEN Append(f[n - 1], s[n]) ELSE f[n - 1]
<1>1. Len(s) \in Nat
  OBVIOUS
<1> DEFINE body == [i \in 0..Len(s) |->
                      IF i = 0 THEN <<>>
                      ELSE IF s[i] \in T THEN Append(f[i - 1], s[i]) ELSE f[i - 1]]
<1>2. f = body
  BY DEF Keeps
<1>3. /\ body[0] = <<>>
      /\ \A n \in 1..Len(s) :
           body[n] = IF s[n] \in T THEN Append(f[n - 1], s[n]) ELSE f[n - 1]
  BY <1>1
<1> HIDE DEF body
<1>4. QED BY <1>1, <1>2, <1>3

LEMMA KeepsExists ==
  ASSUME NEW S, NEW s \in Seq(S), NEW T
  PROVE  \E f : Keeps(f, s, T)
<1> DEFINE upTo(f, n) ==
             \A i \in 0..n :
               f[i] = IF i = 0 THEN <<>>
                      ELSE IF s[i] \in T THEN Append(f[i - 1], s[i]) ELSE f[i - 1]
           Bad == {n \in 0..Len(s) : ~(\E f : upTo(f, n))}
<1>1. Len(s) \in Nat
  OBVIOUS
<1>2. ASSUME Bad # {} PROVE FALSE
  <2>1. Bad \subseteq Nat
    BY <1>1
  <2>2. PICK n \in Bad : \A m \in Bad : n <= m
    BY <1>2, <2>1, LeastExists
  <2>3. n \in 0..Len(s) /\ ~(\E f : upTo(f, n))
    OBVIOUS
  <2>4. CASE n = 0
    <3>1. upTo([i \in {0} |-> <<>>], 0)
      OBVIOUS
    <3> HIDE DEF upTo
    <3>2. QED BY <2>3, <2>4, <3>1
  <2>5. CASE n # 0
    <3>1. n - 1 \in 0..Len(s) /\ ~(n <= n - 1) /\ n \in Nat
      BY <1>1, <2>3, <2>5
    <3>2. n - 1 \notin Bad
      BY <2>2, <3>1
    <3>3. PICK f : upTo(f, n - 1)
      BY <3>1, <3>2
    <3> DEFINE g == [i \in 0..n |->
                       IF i < n THEN f[i]
                       ELSE IF s[n] \in T THEN Append(f[n - 1], s[n]) ELSE f[n - 1]]
    <3>4. \A i \in 0..n : i < n => g[i] = f[i]
      OBVIOUS
    <3>5. g[n] = IF s[n] \in T THEN Append(f[n - 1], s[n]) ELSE f[n - 1]
      BY <3>1
    <3> HIDE DEF g
    <3>6. ASSUME NEW i \in 0..n
          PROVE  g[i] = IF i = 0 THEN <<>>
                        ELSE IF s[i] \in T THEN Append(g[i - 1], s[i]) ELSE g[i - 1]
      <4>1. CASE i < n
        <5>1. i \in 0..(n - 1) /\ (i # 0 => i - 1 \in 0..n /\ i - 1 < n)
          BY <3>1, <4>1
        <5>2. f[i] = IF i = 0 THEN <<>>
                     ELSE IF s[i] \in T THEN Append(f[i - 1], s[i]) ELSE f[i - 1]
          BY <3>3, <5>1
        <5>3. g[i] = f[i] /\ (i # 0 => g[i - 1] = f[i - 1])
          BY <3>4, <4>1, <5>1
        <5>4. QED BY <5>2, <5>3
      <4>2. CASE i = n
        <5>1. g[n - 1] = f[n - 1]
          BY <2>5, <3>1, <3>4
        <5>2. QED BY <2>5, <3>5, <4>2, <5>1
      <4>3. QED BY <3>1, <4>1, <4>2
    <3>7. upTo(g, n)
      BY <3>6
    <3> HIDE DEF upTo
    <3>8. QED BY <2>3, <3>7
  <2>6. QED BY <2>4, <2>5
<1>3. Len(s) \notin Bad
  BY <1>2
<1>4. PICK f : upTo(f, Len(s))
  BY <1>1, <1>3
<1> DEFINE g == [i \in 0..Len(s) |-> f[i]]
<1>5. g = [i \in 0..Len(s) |->
             IF i = 0 THEN <<>>
             ELSE IF s[i] \in T THEN Append(g[i - 1], s[i]) ELSE g[i - 1]]
  <2>1. ASSUME NEW i \in 0..Len(s)
        PROVE  f[i] = IF i = 0 THEN <<>>
                      ELSE IF s[i] \in T THEN Append(g[i - 1], s[i]) ELSE g[i - 1]
    <3>1. i # 0 => i - 1 \in 0..Len(s)
      BY <1>1
    <3>2. i # 0 => g[i - 1] = f[i - 1]
      BY <3>1
    <3> HIDE DEF g
    <3>3. QED BY <1>4, <3>2
  <2>2. QED BY <2>1
<1> HIDE DEF g
<1>6. Keeps(g, s, T)
  BY <1>5 DEF Keeps
<1>7. QED BY <1>6

(* What is kept is what such a function has for all rows. *)
LEMMA KeptIs ==
  ASSUME NEW S, NEW s \in Seq(S), NEW T
  PROVE  \E f : Keeps(f, s, T) /\ Kept(s, T) = f[Len(s)]
<1> DEFINE g == CHOOSE f : Keeps(f, s, T)
<1>1. Keeps(g, s, T)
  BY KeepsExists
<1>2. Kept(s, T) = g[Len(s)]
  BY DEF Kept, Keeps
<1> HIDE DEF g
<1>3. QED BY <1>1, <1>2

(* The rows of the set are kept, as often as they are there, and no other. *)
LEMMA KeptCount ==
  ASSUME NEW S, NEW s \in Seq(S), NEW T
  PROVE  /\ Kept(s, T) \in Seq(S)
         /\ \A x : Times(Kept(s, T), x) = IF x \in T THEN Times(s, x) ELSE 0
<1>1. PICK f : Keeps(f, s, T) /\ Kept(s, T) = f[Len(s)]
  BY KeptIs
<1> DEFINE good(n) == /\ f[n] \in Seq(S)
                      /\ \A x : Times(f[n], x) = IF x \in T THEN TimesTo(s, n, x) ELSE 0
           Bad == {n \in 0..Len(s) : ~good(n)}
<1>2. /\ Len(s) \in Nat /\ f[0] = <<>>
      /\ \A n \in 1..Len(s) :
           f[n] = IF s[n] \in T THEN Append(f[n - 1], s[n]) ELSE f[n - 1]
  BY <1>1, KeepsStep
<1>3. good(0)
  <2>1. \A x : Times(<<>>, x) = 0
    <3>1. \A x : {i \in DOMAIN <<>> : <<>>[i] = x} = {}
      OBVIOUS
    <3>2. QED BY <3>1, FS_EmptySet DEF Times
  <2>2. \A x : TimesTo(s, 0, x) = 0
    BY TimesToNext
  <2>3. QED BY <1>2, <2>1, <2>2
<1>4. ASSUME NEW m \in 0..(Len(s) - 1), good(m) PROVE good(m + 1)
  <2>1. m \in Nat /\ m + 1 \in 1..Len(s) /\ (m + 1) - 1 = m
    BY <1>2
  <2>2. f[m + 1] = IF s[m + 1] \in T THEN Append(f[m], s[m + 1]) ELSE f[m]
    BY <1>2, <2>1
  <2>3. s[m + 1] \in S /\ f[m] \in Seq(S)
    BY <1>4, <2>1
  <2>4. f[m + 1] \in Seq(S)
    BY <2>2, <2>3
  <2>5. ASSUME NEW x PROVE Times(f[m + 1], x) = IF x \in T THEN TimesTo(s, m + 1, x) ELSE 0
    <3>1. TimesTo(s, m + 1, x) = TimesTo(s, m, x) + IF s[m + 1] = x THEN 1 ELSE 0
      BY <2>1, TimesToNext
    <3>2. TimesTo(s, m, x) \in Nat
      BY <2>1, PlacesFinite
    <3>3. Times(f[m], x) = IF x \in T THEN TimesTo(s, m, x) ELSE 0
      BY <1>4
    <3>4. Times(Append(f[m], s[m + 1]), x) = Times(f[m], x) + IF s[m + 1] = x THEN 1 ELSE 0
      BY <2>3, TimesAppended
    <3>5. CASE s[m + 1] \in T
      BY <2>2, <3>1, <3>2, <3>3, <3>4, <3>5
    <3>6. CASE s[m + 1] \notin T
      BY <2>2, <3>1, <3>2, <3>3, <3>6
    <3>7. QED BY <3>5, <3>6
  <2>6. QED BY <2>4, <2>5
<1> HIDE DEF good
<1>5. ASSUME Bad # {} PROVE FALSE
  <2>1. Bad \subseteq Nat
    BY <1>2
  <2>2. PICK n \in Bad : \A m \in Bad : n <= m
    BY <1>5, <2>1, LeastExists
  <2>3. n \in 0..Len(s) /\ ~good(n) /\ n # 0
    BY <1>3
  <2>4. n - 1 \in 0..(Len(s) - 1) /\ n - 1 \in 0..Len(s) /\ ~(n <= n - 1) /\ (n - 1) + 1 = n
    BY <1>2, <2>3
  <2>5. good(n - 1)
    BY <2>2, <2>4
  <2>6. good((n - 1) + 1)
    BY <1>4, <2>4, <2>5
  <2>7. QED BY <2>3, <2>4, <2>6
<1>6. good(Len(s))
  BY <1>2, <1>5
<1>7. QED BY <1>1, <1>6, TimesIsTo DEF good

-----------------------------------------------------------------------------
(* TableList: rows in another order.                                       *)

LEMMA ReorderedIs ==
  ASSUME NEW S, NEW s \in Seq(S), NEW p \in Bijection(DOMAIN s, DOMAIN s)
  PROVE  /\ Reordered(s, p) \in Seq(S) /\ Len(Reordered(s, p)) = Len(s)
         /\ \A x : Times(Reordered(s, p), x) = Times(s, x)
<1> DEFINE D == DOMAIN s
           t == Reordered(s, p)
<1>1. Len(s) \in Nat /\ D = 1..Len(s) /\ \A i \in D : s[i] \in S
  OBVIOUS
<1>2. /\ p \in [D -> D] /\ \A i, j \in D : p[i] = p[j] => i = j
      /\ \A j \in D : \E i \in D : p[i] = j
  BY DEF Bijection, Injection, Surjection, IsInjective
<1>3. t = [i \in D |-> s[p[i]]]
  BY DEF Reordered
<1>4. t \in Seq(S) /\ Len(t) = Len(s) /\ DOMAIN t = D
  <2>1. t \in [1..Len(s) -> S]
    BY <1>1, <1>2, <1>3
  <2>2. QED BY <1>1, <2>1
<1>5. ASSUME NEW x PROVE Times(t, x) = Times(s, x)
  <2> DEFINE P == {i \in D : s[p[i]] = x}
             Q == {i \in D : s[i] = x}
             f == [i \in P |-> p[i]]
  <2>1. f \in [P -> Q]
    BY <1>2
  <2>2. \A i, j \in P : f[i] = f[j] => i = j
    BY <1>2
  <2>3. \A j \in Q : \E i \in P : f[i] = j
    BY <1>2
  <2>4. f \in Bijection(P, Q)
    <3>1. DOMAIN f = P
      OBVIOUS
    <3> HIDE DEF f, P, Q
    <3>2. QED BY <2>1, <2>2, <2>3, <3>1 DEF Bijection, Injection, Surjection, IsInjective
  <2>5. IsFiniteSet(P)
    <3>1. IsFiniteSet(1..Len(s))
      BY <1>1, FS_Interval
    <3>2. P \in SUBSET (1..Len(s))
      BY <1>1
    <3>3. QED BY <3>1, <3>2, FS_Subset
  <2>6. {i \in DOMAIN t : t[i] = x} = P
    BY <1>3
  <2> HIDE DEF f, P, Q
  <2>7. ExistsBijection(P, Q)
    BY <2>4 DEF ExistsBijection
  <2>8. Cardinality(Q) = Cardinality(P)
    BY <2>5, <2>7, FS_Bijection
  <2>9. QED BY <2>6, <2>8 DEF Times, Q
<1>6. QED BY <1>4, <1>5

LEMMA ReverseIs ==
  ASSUME NEW S, NEW s \in Seq(S)
  PROVE  /\ Reverse(s) \in Seq(S) /\ Len(Reverse(s)) = Len(s)
         /\ \A x : Times(Reverse(s), x) = Times(s, x)
<1> DEFINE D == DOMAIN s
           p == [i \in D |-> (Len(s) - i) + 1]
<1>1. Len(s) \in Nat /\ D = 1..Len(s)
  OBVIOUS
<1>2. \A i \in D : (Len(s) - i) + 1 \in D /\ (Len(s) - ((Len(s) - i) + 1)) + 1 = i
  BY <1>1
<1>3. p \in [D -> D] /\ DOMAIN p = D /\ \A i \in D : p[i] \in D /\ p[p[i]] = i
  BY <1>2
<1> HIDE DEF p
<1>4. p \in Bijection(D, D)
  <2>1. \A i, j \in D : p[i] = p[j] => i = j
    BY <1>3
  <2>2. \A j \in D : \E i \in D : p[i] = j
    BY <1>3
  <2>3. QED BY <1>3, <2>1, <2>2 DEF Bijection, Injection, Surjection, IsInjective
<1>5. Reverse(s) = Reordered(s, p)
  BY <1>1 DEF Reverse, Reordered, p
<1>6. QED BY <1>4, <1>5, ReorderedIs

(* Whatever order std::stable_sort makes, it is one of the same rows. *)
LEMMA SortIs ==
  ASSUME NEW S, NEW s \in Seq(S), NEW alg, NEW t \in stable_sort(alg, s)
  PROVE  t \in Seq(S) /\ \A x : Times(t, x) = Times(s, x)
<1>1. t = Reverse(s) \/ \E p \in Bijection(DOMAIN s, DOMAIN s) : t = Reordered(s, p)
  BY DEF stable_sort
<1>2. QED BY <1>1, ReverseIs, ReorderedIs

LEMMA FilteredIs ==
  ASSUME NEW S, NEW s \in Seq(S), NEW up
  PROVE  /\ getFiltered(s, up) \in Seq(S) /\ Len(getFiltered(s, up)) = Len(s)
         /\ \A x : Times(getFiltered(s, up), x) = Times(s, x)
BY ReverseIs DEF getFiltered

-----------------------------------------------------------------------------
(* TableList: the rows of a table.                                         *)

Tested(x, query) == query = <<>> \/ matches(x, query)

TableTypeOK ==
  /\ data \in Seq(Items) /\ original \in Seq(Items) /\ filtered \in Seq(Items)
  /\ box \in BOOLEAN /\ ascending \in BOOLEAN

(* The list holds the rows that pass the box, those found are the ones of them
   that match the search, and the table draws these. *)
ListIsBoxed ==
  \A x \in Items : Times(original, x) = IF box => x \in Passing THEN Times(data, x) ELSE 0
FoundAreTested ==
  \A x \in Items : Times(filtered, x) = IF Tested(x, lastSearch) THEN Times(original, x) ELSE 0
DrawnIsFound == mdldata = getFiltered(filtered, ascending)

TableInv == TableTypeOK /\ ListIsBoxed /\ FoundAreTested /\ DrawnIsFound

LEMMA RowsAre == ASSUME NEW rows \in Rows PROVE rows \in Seq(Items)
<1>1. PICK n \in 0..MaxRows : rows \in [1..n -> Items]
  BY DEF Rows, BoundedSeq, SeqOf
<1>2. n \in Nat
  BY TableAssumption DEF TableAssumption
<1>3. QED BY <1>1, <1>2

LEMMA BoxedIs ==
  ASSUME NEW rows \in Seq(Items), NEW ticked \in BOOLEAN
  PROVE  /\ Boxed(rows, ticked) \in Seq(Items)
         /\ \A x \in Items : Times(Boxed(rows, ticked), x) =
                               IF ticked => x \in Passing THEN Times(rows, x) ELSE 0
<1>1. CASE ticked
  <2>1. Boxed(rows, ticked) = Kept(rows, Passing)
    BY <1>1 DEF Boxed
  <2>2. \A x \in Items : (ticked => x \in Passing) <=> x \in Passing
    BY <1>1
  <2>3. /\ Kept(rows, Passing) \in Seq(Items)
        /\ \A x : Times(Kept(rows, Passing), x) = IF x \in Passing THEN Times(rows, x) ELSE 0
    BY KeptCount
  <2>4. QED BY <2>1, <2>2, <2>3
<1>2. CASE ~ticked
  BY <1>2 DEF Boxed
<1>3. QED BY <1>1, <1>2

LEMMA FoundIs ==
  ASSUME NEW rows \in Seq(Items), NEW query
  PROVE  /\ Found(rows, query) \in Seq(Items)
         /\ \A x \in Items : Times(Found(rows, query), x) =
                               IF Tested(x, query) THEN Times(rows, x) ELSE 0
<1>1. CASE query = <<>>
  BY <1>1 DEF Found, Tested
<1>2. CASE query # <<>>
  <2> DEFINE T == {x \in Items : matches(x, query)}
  <2>1. Found(rows, query) = Kept(rows, T)
    BY <1>2 DEF Found
  <2>2. \A x \in Items : x \in T <=> Tested(x, query)
    BY <1>2 DEF Tested
  <2> HIDE DEF T
  <2>3. QED BY <2>1, <2>2, KeptCount
<1>3. QED BY <1>1, <1>2

LEMMA TableInitInv == TableInit => TableInv
<1> SUFFICES ASSUME TableInit PROVE TableInv
  OBVIOUS
<1>1. data \in Seq(Items)
  BY RowsAre DEF TableInit
<1>2. original \in Seq(Items) /\ \A x : Times(original, x) = Times(data, x)
  BY <1>1, SortIs DEF TableInit
<1>3. box = FALSE /\ lastSearch = <<>> /\ filtered = original /\ ascending = TRUE /\ mdldata = filtered
  BY DEF TableInit
<1>4. QED BY <1>1, <1>2, <1>3
          DEF TableInv, TableTypeOK, ListIsBoxed, FoundAreTested, DrawnIsFound, Tested, getFiltered

LEMMA FilterListInv ==
  ASSUME TableInv, NEW rows \in Seq(Items), NEW ticked \in BOOLEAN, FilterList(rows, ticked)
  PROVE  TableInv'
<1>1. /\ data' = rows /\ box' = ticked
      /\ original' \in stable_sort(current_sort, Boxed(rows, ticked))
      /\ filtered' = Found(original', lastSearch)
      /\ mdldata' = getFiltered(filtered', ascending)
      /\ lastSearch' = lastSearch /\ ascending' = ascending
  BY DEF FilterList
<1>2. /\ original' \in Seq(Items)
      /\ \A x \in Items : Times(original', x) =
                            IF ticked => x \in Passing THEN Times(rows, x) ELSE 0
  BY <1>1, BoxedIs, SortIs
<1>3. /\ filtered' \in Seq(Items)
      /\ \A x \in Items : Times(filtered', x) =
                            IF Tested(x, lastSearch) THEN Times(original', x) ELSE 0
  BY <1>1, <1>2, FoundIs
<1>4. TableTypeOK'
  BY <1>1, <1>2, <1>3 DEF TableInv, TableTypeOK
<1>5. ListIsBoxed' /\ FoundAreTested' /\ DrawnIsFound'
  BY <1>1, <1>2, <1>3 DEF ListIsBoxed, FoundAreTested, DrawnIsFound, Times, Tested
<1>6. QED BY <1>4, <1>5 DEF TableInv

LEMMA TableStep == TableInv /\ [TableNext]_tableVars => TableInv'
<1> SUFFICES ASSUME TableInv, [TableNext]_tableVars PROVE TableInv'
  OBVIOUS
<1> USE DEF TableInv
<1>1. ASSUME NEW rows \in Rows, setData(rows) PROVE TableInv'
  BY <1>1, RowsAre, FilterListInv DEF setData, TableTypeOK
<1>2. ASSUME NEW x \in Items, addDatum(x) PROVE TableInv'
  <2>1. Append(data, x) \in Seq(Items)
    BY DEF TableTypeOK
  <2>2. QED BY <1>2, <2>1, FilterListInv DEF addDatum, TableTypeOK
<1>3. CASE filterSelected
  <2>1. (~box) \in BOOLEAN /\ data \in Seq(Items)
    <3>1. data \in Seq(Items)
      BY DEF TableTypeOK
    <3>2. QED BY <3>1
  <2>2. QED BY <1>3, <2>1, FilterListInv DEF filterSelected
<1>4. ASSUME NEW query \in Searches, onFilterChange(query) PROVE TableInv'
  <2>1. /\ lastSearch' = query /\ filtered' = Found(original, query)
        /\ mdldata' = getFiltered(filtered', ascending)
        /\ UNCHANGED <<kind, data, box, original, ascending, current_sort>>
    BY <1>4 DEF onFilterChange
  <2>2. /\ filtered' \in Seq(Items)
        /\ \A x \in Items : Times(filtered', x) = IF Tested(x, query) THEN Times(original, x) ELSE 0
    BY <2>1, FoundIs DEF TableTypeOK
  <2>3. QED BY <2>1, <2>2
            DEF TableTypeOK, ListIsBoxed, FoundAreTested, DrawnIsFound, Times, Tested
<1>5. ASSUME NEW column \in 1..3, NEW up \in BOOLEAN, sortChanged(column, up) PROVE TableInv'
  <2>1. /\ ascending' = up /\ mdldata' = getFiltered(filtered', up)
        /\ original' \in stable_sort(current_sort', original)
        /\ filtered' \in stable_sort(current_sort', filtered)
        /\ UNCHANGED <<kind, data, box, lastSearch>>
    BY <1>5 DEF sortChanged
  <2>2. /\ original' \in Seq(Items) /\ \A x : Times(original', x) = Times(original, x)
        /\ filtered' \in Seq(Items) /\ \A x : Times(filtered', x) = Times(filtered, x)
    BY <2>1, SortIs DEF TableTypeOK
  <2>3. QED BY <2>1, <2>2
            DEF TableTypeOK, ListIsBoxed, FoundAreTested, DrawnIsFound, Times, Tested
<1>6. CASE UNCHANGED tableVars
  BY <1>6 DEF tableVars, list, TableTypeOK, ListIsBoxed, FoundAreTested, DrawnIsFound, Times, Tested
<1>7. QED BY <1>1, <1>2, <1>3, <1>4, <1>5, <1>6 DEF TableNext

LEMMA TableInductive == TableSpec => []TableInv
BY TableInitInv, TableStep, PTL DEF TableSpec

(* RowIsItem: the row that is clicked is the one the list gives for its number,
   after any sorting, searching, ticking and replacing of any rows. *)
THEOREM ClickFindsItem == TableSpec => []RowIsItem
<1>1. TableInv => RowIsItem
  <2> SUFFICES ASSUME TableInv PROVE RowIsItem
    OBVIOUS
  <2>1. filtered \in Seq(Items) /\ mdldata = getFiltered(filtered, ascending)
    BY DEF TableInv, TableTypeOK, DrawnIsFound
  <2>2. Len(mdldata) = Len(filtered)
    BY <2>1, FilteredIs
  <2>3. QED BY <2>1, <2>2 DEF RowIsItem, getDataAt
<1>2. QED BY <1>1, TableInductive, PTL

(* FilterIsExact: a table draws every row it was given that passes the box and
   the search, as often as it was given, and no other, for any rows at all. *)
THEOREM TableIsExact == TableSpec => []FilterIsExact
<1>1. TableInv => FilterIsExact
  <2> SUFFICES ASSUME TableInv, NEW x \in Items
               PROVE  Times(mdldata, x) =
                        IF (box => x \in Passing) /\ (lastSearch = <<>> \/ matches(x, lastSearch))
                        THEN Times(data, x) ELSE 0
    BY DEF FilterIsExact
  <2>1. Times(mdldata, x) = Times(filtered, x)
    BY FilteredIs DEF TableInv, TableTypeOK, DrawnIsFound
  <2>2. QED BY <2>1 DEF TableInv, ListIsBoxed, FoundAreTested, Tested
<1>2. QED BY <1>1, TableInductive, PTL

-----------------------------------------------------------------------------
(* TableList: rows by match number.                                        *)

Falls(s) ==
  \A i, j \in 1..Len(s) : i < j => Row[s[i]].number >= Row[s[j]].number

LEMMA NumberIs ==
  ASSUME NEW x \in Items, NEW y \in Items
  PROVE  /\ Row[x].number \in Int
         /\ ComesBefore("number", x, y) <=> Row[x].number > Row[y].number
<1>1. "number" \in Columns
  BY DEF Columns
<1>2. Row[x] \in [Columns -> Int] /\ Row[y] \in [Columns -> Int]
  BY TableAssumption DEF TableAssumption
<1>3. Row[x].number \in Int /\ Row[y].number \in Int
  BY <1>1, <1>2
<1>4. compare("number", x, y) = IF Row[x].number > Row[y].number THEN 1 ELSE 0
  BY <1>1 DEF compare
<1>5. QED BY <1>3, <1>4 DEF ComesBefore

(* The one comparator that orders: the rows fall by their numbers. *)
LEMMA SortFalls ==
  ASSUME NEW s \in Seq(Items), NEW t \in stable_sort("number", s)
  PROVE  Falls(t)
<1> DEFINE R == DOMAIN s
           before(i, j) == ComesBefore("number", s[i], s[j])
           tied(i, j) == ~before(i, j) /\ ~before(j, i)
           mutual == \A i, j \in R : i # j => before(i, j)
           weakOrder ==
             \A i, j, k \in R : (i # j /\ j # k) =>
               /\ before(i, j) => ~before(j, i)
               /\ i # k /\ before(i, j) /\ before(j, k) => before(i, k)
               /\ i # k /\ tied(i, j) /\ tied(j, k) => tied(i, k)
           inOrder(p) ==
             \A i, j \in R : i < j =>
               before(p[i], p[j]) \/ (tied(p[i], p[j]) /\ p[i] < p[j])
           num(i) == Row[s[i]].number
<1>1. R = 1..Len(s) /\ Len(s) \in Nat /\ \A i \in R : s[i] \in Items
  OBVIOUS
<1>2. \A i, j \in R : num(i) \in Int /\ (before(i, j) <=> num(i) > num(j))
  BY <1>1, NumberIs
<1>3. \/ mutual /\ t = Reverse(s)
      \/ \E p \in Bijection(R, R) : (weakOrder => inOrder(p)) /\ t = Reordered(s, p)
  BY DEF stable_sort
<1> HIDE DEF before
<1>4. CASE mutual /\ t = Reverse(s)
  <2>1. Len(t) = Len(s)
    BY <1>4, ReverseIs
  <2>2. ASSUME NEW i \in R, NEW j \in R, i # j PROVE FALSE
    <3>1. before(i, j) /\ before(j, i)
      BY <1>4, <2>2
    <3>2. num(i) > num(j) /\ num(j) > num(i) /\ num(i) \in Int /\ num(j) \in Int
      BY <1>2, <3>1
    <3> HIDE DEF num
    <3>3. QED BY <3>2
  <2>3. \A i, j \in 1..Len(t) : ~(i < j)
    BY <1>1, <2>1, <2>2
  <2>4. QED BY <2>3 DEF Falls
<1>5. CASE \E p \in Bijection(R, R) : (weakOrder => inOrder(p)) /\ t = Reordered(s, p)
  <2>1. PICK p \in Bijection(R, R) : (weakOrder => inOrder(p)) /\ t = Reordered(s, p)
    BY <1>5
  <2>2. weakOrder
    <3>1. ASSUME NEW i \in R, NEW j \in R, NEW k \in R
          PROVE  /\ before(i, j) => ~before(j, i)
                 /\ before(i, j) /\ before(j, k) => before(i, k)
                 /\ tied(i, j) /\ tied(j, k) => tied(i, k)
      <4>1. /\ num(i) \in Int /\ num(j) \in Int /\ num(k) \in Int
            /\ before(i, j) <=> num(i) > num(j)
            /\ before(j, i) <=> num(j) > num(i)
            /\ before(j, k) <=> num(j) > num(k)
            /\ before(k, j) <=> num(k) > num(j)
            /\ before(i, k) <=> num(i) > num(k)
            /\ before(k, i) <=> num(k) > num(i)
        BY <1>2
      <4> HIDE DEF num
      <4>2. QED BY <4>1
    <3>2. QED BY <3>1
  <2>3. inOrder(p)
    BY <2>1, <2>2
  <2>4. p \in [R -> R]
    BY DEF Bijection, Injection
  <2>5. Len(t) = Len(s) /\ \A i \in R : t[i] = s[p[i]]
    <3>1. Len(t) = Len(s)
      BY <2>1, ReorderedIs
    <3>2. QED BY <2>1, <3>1 DEF Reordered
  <2>6. ASSUME NEW i \in R, NEW j \in R, i < j PROVE num(p[i]) >= num(p[j])
    <3>1. p[i] \in R /\ p[j] \in R
      BY <2>4
    <3>2. before(p[i], p[j]) \/ (~before(p[i], p[j]) /\ ~before(p[j], p[i]))
      BY <2>3, <2>6
    <3>3. /\ num(p[i]) \in Int /\ num(p[j]) \in Int
          /\ before(p[i], p[j]) <=> num(p[i]) > num(p[j])
          /\ before(p[j], p[i]) <=> num(p[j]) > num(p[i])
      BY <1>2, <3>1
    <3> HIDE DEF num
    <3>4. QED BY <3>2, <3>3
  <2>7. QED BY <1>1, <2>5, <2>6 DEF Falls
<1>6. QED BY <1>3, <1>4, <1>5

LEMMA AppendFalls ==
  ASSUME NEW s \in Seq(Items), NEW y \in Items, Falls(s),
         \A i \in 1..Len(s) : Row[s[i]].number >= Row[y].number
  PROVE  Falls(Append(s, y))
<1> DEFINE n == Len(s)
           t == Append(s, y)
<1>1. n \in Nat /\ Len(t) = n + 1 /\ t[n + 1] = y /\ \A i \in 1..n : t[i] = s[i]
  OBVIOUS
<1> HIDE DEF t
<1>2. ASSUME NEW i \in 1..(n + 1), NEW j \in 1..(n + 1), i < j
      PROVE  Row[t[i]].number >= Row[t[j]].number
  <2>1. i \in 1..n /\ (j \in 1..n \/ j = n + 1)
    BY <1>1, <1>2
  <2>2. CASE j \in 1..n
    BY <1>1, <1>2, <2>1, <2>2 DEF Falls
  <2>3. CASE j = n + 1
    BY <1>1, <2>1, <2>3
  <2>4. QED BY <2>1, <2>2, <2>3
<1>3. QED BY <1>1, <1>2 DEF Falls, t

(* Rows that are kept of rows that fall fall. *)
LEMMA KeptFalls ==
  ASSUME NEW s \in Seq(Items), NEW T, Falls(s)
  PROVE  Falls(Kept(s, T))
<1>1. PICK f : Keeps(f, s, T) /\ Kept(s, T) = f[Len(s)]
  BY KeptIs
<1> DEFINE good(n) == /\ f[n] \in Seq(Items) /\ Falls(f[n])
                      /\ \A i \in 1..Len(f[n]) : \E j \in 1..n : f[n][i] = s[j]
           Bad == {n \in 0..Len(s) : ~good(n)}
<1>2. /\ Len(s) \in Nat /\ f[0] = <<>>
      /\ \A n \in 1..Len(s) :
           f[n] = IF s[n] \in T THEN Append(f[n - 1], s[n]) ELSE f[n - 1]
  BY <1>1, KeepsStep
<1>3. good(0)
  BY <1>2 DEF Falls
<1>4. ASSUME NEW m \in 0..(Len(s) - 1), good(m) PROVE good(m + 1)
  <2>1. m \in Nat /\ m + 1 \in 1..Len(s) /\ (m + 1) - 1 = m
    BY <1>2
  <2>2. f[m + 1] = IF s[m + 1] \in T THEN Append(f[m], s[m + 1]) ELSE f[m]
    BY <1>2, <2>1
  <2>3. s[m + 1] \in Items /\ f[m] \in Seq(Items) /\ Falls(f[m])
    BY <1>4, <2>1
  <2>4. CASE s[m + 1] \notin T
    <3>1. f[m + 1] = f[m]
      BY <2>2, <2>4
    <3>2. \A i \in 1..Len(f[m]) : \E j \in 1..(m + 1) : f[m][i] = s[j]
      BY <1>4, <2>1
    <3>3. QED BY <2>3, <3>1, <3>2
  <2>5. CASE s[m + 1] \in T
    <3>1. f[m + 1] = Append(f[m], s[m + 1])
      BY <2>2, <2>5
    <3>2. ASSUME NEW i \in 1..Len(f[m]) PROVE Row[f[m][i]].number >= Row[s[m + 1]].number
      <4>1. PICK j \in 1..m : f[m][i] = s[j]
        BY <1>4
      <4>2. j \in 1..Len(s) /\ j < m + 1
        BY <1>2, <2>1
      <4>3. QED BY <2>1, <4>1, <4>2 DEF Falls
    <3>3. Falls(f[m + 1])
      BY <2>3, <3>1, <3>2, AppendFalls
    <3>4. ASSUME NEW i \in 1..Len(f[m + 1]) PROVE \E j \in 1..(m + 1) : f[m + 1][i] = s[j]
      <4>1. Len(f[m]) \in Nat /\ Len(f[m + 1]) = Len(f[m]) + 1
            /\ f[m + 1][Len(f[m]) + 1] = s[m + 1] /\ \A k \in 1..Len(f[m]) : f[m + 1][k] = f[m][k]
        BY <2>3, <3>1
      <4>2. CASE i \in 1..Len(f[m])
        <5>1. PICK j \in 1..m : f[m][i] = s[j]
          BY <1>4, <4>2
        <5>2. j \in 1..(m + 1)
          BY <2>1
        <5>3. QED BY <4>1, <4>2, <5>1, <5>2
      <4>3. CASE i = Len(f[m]) + 1
        <5>1. m + 1 \in 1..(m + 1)
          BY <2>1
        <5>2. QED BY <4>1, <4>3, <5>1
      <4>4. QED BY <4>1, <4>2, <4>3
    <3>5. f[m + 1] \in Seq(Items)
      BY <2>3, <3>1
    <3>6. QED BY <3>3, <3>4, <3>5
  <2>6. QED BY <2>4, <2>5
<1> HIDE DEF good
<1>5. ASSUME Bad # {} PROVE FALSE
  <2>1. Bad \subseteq Nat
    BY <1>2
  <2>2. PICK n \in Bad : \A m \in Bad : n <= m
    BY <1>5, <2>1, LeastExists
  <2>3. n \in 0..Len(s) /\ ~good(n) /\ n # 0
    BY <1>3
  <2>4. n - 1 \in 0..(Len(s) - 1) /\ n - 1 \in 0..Len(s) /\ ~(n <= n - 1) /\ (n - 1) + 1 = n
    BY <1>2, <2>3
  <2>5. good(n - 1)
    BY <2>2, <2>4
  <2>6. good((n - 1) + 1)
    BY <1>4, <2>4, <2>5
  <2>7. QED BY <2>3, <2>4, <2>6
<1>6. good(Len(s))
  BY <1>2, <1>5
<1>7. QED BY <1>1, <1>6 DEF good

(* Where two lists that fall part, the larger row is more often in the one. *)
LEMMA WherePart ==
  ASSUME NEW s \in Seq(Items), NEW t \in Seq(Items), Falls(t), NEW i \in 1..Len(s),
         \A j \in 1..(i - 1) : j <= Len(t) /\ s[j] = t[j],
         i <= Len(t) => Row[s[i]].number > Row[t[i]].number
  PROVE  Times(s, s[i]) # Times(t, s[i])
<1> DEFINE x == s[i]
           P == {j \in 1..(i - 1) : s[j] = x}
           Q == {j \in 1..Len(s) : s[j] = x}
<1>1. i \in Nat /\ i # 0 /\ i <= Len(s) /\ i - 1 \in Nat /\ Len(s) \in Nat /\ Len(t) \in Nat /\ x \in Items
      /\ DOMAIN s = 1..Len(s) /\ DOMAIN t = 1..Len(t)
  OBVIOUS
<1>2. {j \in DOMAIN t : t[j] = x} = P
  <2>1. ASSUME NEW j \in 1..Len(t), t[j] = x PROVE j \in P
    <3>1. CASE j <= i - 1
      <4>1. j \in 1..(i - 1)
        BY <1>1, <3>1
      <4>2. QED BY <2>1, <4>1
    <3>2. CASE ~(j <= i - 1)
      <4>1. i <= Len(t) /\ i \in 1..Len(t) /\ (i = j \/ i < j)
        BY <1>1, <3>2
      <4>2. Row[t[i]].number >= Row[t[j]].number
        <5>1. CASE i = j
          <6>1. t[i] \in Items
            BY <4>1
          <6>2. QED BY <5>1, <6>1, NumberIs
        <5>2. CASE i < j
          BY <4>1, <5>2 DEF Falls
        <5>3. QED BY <4>1, <5>1, <5>2
      <4>3. Row[x].number > Row[t[i]].number
        BY <4>1
      <4>4. Row[x].number \in Int /\ Row[t[i]].number \in Int /\ Row[t[j]].number \in Int
        <5>1. t[i] \in Items /\ t[j] \in Items
          BY <4>1
        <5>2. QED BY <1>1, <5>1, NumberIs
      <4> HIDE DEF x
      <4>5. QED BY <2>1, <4>2, <4>3, <4>4
    <3>3. QED BY <3>1, <3>2
  <2>2. \A j \in P : j \in 1..Len(t) /\ t[j] = x
    BY <1>1
  <2>3. QED BY <1>1, <2>1, <2>2
<1>3. IsFiniteSet(P) /\ Cardinality(P) \in Nat /\ IsFiniteSet(Q)
  <2>1. \A n \in Nat : IsFiniteSet({j \in 1..n : s[j] = x})
    BY PlacesFinite
  <2>2. IsFiniteSet(P) /\ IsFiniteSet(Q)
    BY <1>1, <2>1
  <2> HIDE DEF P
  <2>3. QED BY <2>2, FS_CardinalityType
<1>4. i \notin P /\ P \cup {i} \in SUBSET Q
  BY <1>1
<1> HIDE DEF P, Q
<1>5. Cardinality(P \cup {i}) = Cardinality(P) + 1
  BY <1>3, <1>4, FS_AddElement
<1>6. Cardinality(P \cup {i}) <= Cardinality(Q) /\ Cardinality(Q) \in Nat
  BY <1>3, <1>4, FS_Subset, FS_CardinalityType
<1>7. Times(t, x) = Cardinality(P) /\ Times(s, x) = Cardinality(Q)
  BY <1>1, <1>2 DEF Times, Q
<1>8. QED BY <1>3, <1>5, <1>6, <1>7

(* Lists that fall and have the same rows are the same, if numbers tell the
   rows apart. *)
LEMMA FallIsUnique ==
  ASSUME NEW s \in Seq(Items), NEW t \in Seq(Items), Falls(s), Falls(t),
         \A x, y \in Items : Row[x].number = Row[y].number => x = y,
         \A x \in Items : Times(s, x) = Times(t, x)
  PROVE  s = t
<1> DEFINE same(i) == i <= Len(s) /\ i <= Len(t) /\ s[i] = t[i]
           Bad == {i \in Nat : i # 0 /\ (i <= Len(s) \/ i <= Len(t)) /\ ~same(i)}
<1>1. Len(s) \in Nat /\ Len(t) \in Nat
  OBVIOUS
<1>2. ASSUME Bad # {} PROVE FALSE
  <2>1. PICK i \in Bad : \A m \in Bad : i <= m
    BY <1>2, LeastExists
  <2>2. i \in Nat /\ i # 0 /\ (i <= Len(s) \/ i <= Len(t)) /\ ~same(i)
    OBVIOUS
  <2>3. ASSUME NEW j \in 1..(i - 1) PROVE same(j)
    <3>1. j \in Nat /\ j # 0 /\ ~(i <= j) /\ (j <= Len(s) \/ j <= Len(t))
      BY <1>1, <2>2
    <3>2. j \notin Bad
      BY <2>1, <3>1
    <3>3. QED BY <3>1, <3>2
  <2>4. CASE i <= Len(s) /\ (i <= Len(t) => Row[s[i]].number > Row[t[i]].number)
    <3>1. i \in 1..Len(s) /\ s[i] \in Items
      BY <1>1, <2>2, <2>4
    <3>2. Times(s, s[i]) # Times(t, s[i])
      BY <2>3, <2>4, <3>1, WherePart
    <3>3. QED BY <3>1, <3>2
  <2>5. CASE i <= Len(t) /\ (i <= Len(s) => Row[t[i]].number > Row[s[i]].number)
    <3>1. i \in 1..Len(t) /\ t[i] \in Items
      BY <1>1, <2>2, <2>5
    <3>2. Times(t, t[i]) # Times(s, t[i])
      BY <2>3, <2>5, <3>1, WherePart
    <3>3. QED BY <3>1, <3>2
  <2>6. CASE i <= Len(s) /\ i <= Len(t)
    <3>1. s[i] \in Items /\ t[i] \in Items /\ s[i] # t[i]
      BY <1>1, <2>2, <2>6
    <3>2. Row[s[i]].number # Row[t[i]].number /\ Row[s[i]].number \in Int /\ Row[t[i]].number \in Int
      BY <3>1, NumberIs
    <3>3. Row[s[i]].number > Row[t[i]].number \/ Row[t[i]].number > Row[s[i]].number
      BY <3>2
    <3>4. QED BY <2>4, <2>5, <2>6, <3>3
  <2>7. QED BY <2>2, <2>4, <2>5, <2>6
<1>3. \A i \in Nat : i # 0 /\ (i <= Len(s) \/ i <= Len(t)) => same(i)
  BY <1>2
<1>4. Len(s) = Len(t)
  <2>1. Len(s) <= Len(t) \/ Len(s) = 0
    BY <1>1, <1>3
  <2>2. Len(t) <= Len(s) \/ Len(t) = 0
    BY <1>1, <1>3
  <2>3. QED BY <1>1, <2>1, <2>2
<1>5. \A i \in 1..Len(s) : s[i] = t[i]
  BY <1>1, <1>3
<1>6. QED BY <1>4, <1>5, SeqEqual

LEMMA ReverseTwice ==
  ASSUME NEW S, NEW s \in Seq(S), NEW up
  PROVE  getFiltered(getFiltered(s, up), up) = s
<1>1. CASE up
  BY <1>1 DEF getFiltered
<1>2. CASE ~up
  <2> DEFINE n == Len(s)
             t == Reverse(s)
  <2>1. n \in Nat /\ t \in Seq(S) /\ Len(t) = n /\ Reverse(t) \in Seq(S) /\ Len(Reverse(t)) = n
    BY ReverseIs
  <2>2. \A i \in 1..n : (n - i) + 1 \in 1..n /\ (n - ((n - i) + 1)) + 1 = i
    BY <2>1
  <2>3. \A i \in 1..n : t[i] = s[(n - i) + 1]
    BY DEF Reverse
  <2> HIDE DEF t
  <2>4. \A i \in 1..n : Reverse(t)[i] = t[(n - i) + 1]
    BY <2>1 DEF Reverse
  <2> HIDE DEF n
  <2>5. \A i \in 1..n : Reverse(t)[i] = s[i]
    BY <2>2, <2>3, <2>4
  <2>6. Reverse(t) = s
    BY <2>1, <2>5, SeqEqual DEF n
  <2>7. QED BY <1>2, <2>6 DEF getFiltered, t
<1>3. QED BY <1>1, <1>2

(* By match number the list falls, and so do the rows found. *)
NumbersInv ==
  current_sort = "number" => Falls(original) /\ Falls(filtered)

LEMMA FoundFalls ==
  ASSUME NEW rows \in Seq(Items), NEW query, Falls(rows)
  PROVE  Falls(Found(rows, query))
BY KeptFalls DEF Found

LEMMA NumbersInit == TableInit => NumbersInv
<1> SUFFICES ASSUME TableInit, current_sort = "number" PROVE Falls(original) /\ Falls(filtered)
  BY DEF NumbersInv
<1>1. data \in Seq(Items) /\ original \in stable_sort("number", data) /\ filtered = original
  BY RowsAre DEF TableInit
<1>2. QED BY <1>1, SortFalls

LEMMA FilterListFalls ==
  ASSUME NEW rows \in Seq(Items), NEW ticked \in BOOLEAN, FilterList(rows, ticked)
  PROVE  NumbersInv'
<1> SUFFICES ASSUME current_sort' = "number" PROVE Falls(original)' /\ Falls(filtered)'
  BY DEF NumbersInv
<1>1. /\ original' \in stable_sort("number", Boxed(rows, ticked))
      /\ filtered' = Found(original', lastSearch) /\ Boxed(rows, ticked) \in Seq(Items)
  BY BoxedIs DEF FilterList
<1>2. original' \in Seq(Items) /\ Falls(original')
  BY <1>1, SortFalls, SortIs
<1>3. Falls(filtered')
  BY <1>1, <1>2, FoundFalls
<1>4. QED BY <1>2, <1>3 DEF Falls

LEMMA NumbersStep == TableInv /\ NumbersInv /\ [TableNext]_tableVars => NumbersInv'
<1> SUFFICES ASSUME TableInv, NumbersInv, [TableNext]_tableVars PROVE NumbersInv'
  OBVIOUS
<1>1. data \in Seq(Items) /\ original \in Seq(Items) /\ filtered \in Seq(Items)
      /\ box \in BOOLEAN /\ (~box) \in BOOLEAN
  <2>1. data \in Seq(Items) /\ original \in Seq(Items) /\ filtered \in Seq(Items) /\ box \in BOOLEAN
    BY DEF TableInv, TableTypeOK
  <2>2. QED BY <2>1
<1>2. ASSUME NEW rows \in Rows, setData(rows) PROVE NumbersInv'
  BY <1>1, <1>2, RowsAre, FilterListFalls DEF setData
<1>3. ASSUME NEW x \in Items, addDatum(x) PROVE NumbersInv'
  <2>1. Append(data, x) \in Seq(Items)
    BY <1>1
  <2>2. QED BY <1>1, <1>3, <2>1, FilterListFalls DEF addDatum
<1>4. CASE filterSelected
  BY <1>1, <1>4, FilterListFalls DEF filterSelected
<1>5. ASSUME NEW query \in Searches, onFilterChange(query) PROVE NumbersInv'
  <2>1. filtered' = Found(original, query) /\ original' = original /\ current_sort' = current_sort
    BY <1>5 DEF onFilterChange
  <2>2. current_sort = "number" => Falls(filtered')
    BY <1>1, <2>1, FoundFalls DEF NumbersInv
  <2>3. QED BY <2>1, <2>2 DEF NumbersInv, Falls
<1>6. ASSUME NEW column \in 1..3, NEW up \in BOOLEAN, sortChanged(column, up) PROVE NumbersInv'
  <2> SUFFICES ASSUME current_sort' = "number" PROVE Falls(original)' /\ Falls(filtered)'
    BY DEF NumbersInv
  <2>1. original' \in stable_sort("number", original) /\ filtered' \in stable_sort("number", filtered)
    BY <1>6 DEF sortChanged
  <2>2. Falls(original') /\ Falls(filtered')
    BY <1>1, <2>1, SortFalls
  <2>3. QED BY <2>2 DEF Falls
<1>7. CASE UNCHANGED tableVars
  BY <1>7 DEF tableVars, list, NumbersInv, Falls
<1>8. QED BY <1>2, <1>3, <1>4, <1>5, <1>6, <1>7 DEF TableNext

(* NumbersFall: by match number the rows fall as they are drawn ascending, and
   those found stand as in the list, whenever rows are replaced, a search is made
   or given up and a column is clicked, if no two matches have the same number. *)
THEOREM NumbersStayInOrder ==
  ASSUME \A x, y \in Items : Row[x].number = Row[y].number => x = y
  PROVE  TableSpec => []NumbersFall
<1>1. TableInit => TableInv /\ NumbersInv
  BY TableInitInv, NumbersInit
<1>2. TableInv /\ NumbersInv /\ [TableNext]_tableVars => (TableInv /\ NumbersInv)'
  BY TableStep, NumbersStep
<1>3. TableInv /\ NumbersInv => NumbersFall
  <2> SUFFICES ASSUME TableInv, NumbersInv, current_sort = "number"
               PROVE  /\ filtered = Found(original, lastSearch)
                      /\ IsSorted(getFiltered(mdldata, ascending),
                                  LAMBDA x, y : Row[x].number >= Row[y].number)
    BY DEF NumbersFall
  <2>1. original \in Seq(Items) /\ filtered \in Seq(Items)
        /\ mdldata = getFiltered(filtered, ascending) /\ Falls(original) /\ Falls(filtered)
    BY DEF TableInv, TableTypeOK, DrawnIsFound, NumbersInv
  <2>2. Found(original, lastSearch) \in Seq(Items) /\ Falls(Found(original, lastSearch))
        /\ \A x \in Items : Times(Found(original, lastSearch), x) = Times(filtered, x)
    BY <2>1, FoundIs, FoundFalls DEF TableInv, FoundAreTested
  <2>3. filtered = Found(original, lastSearch)
    BY <2>1, <2>2, FallIsUnique
  <2>4. getFiltered(mdldata, ascending) = filtered
    BY <2>1, ReverseTwice
  <2>5. IsSorted(filtered, LAMBDA x, y : Row[x].number >= Row[y].number)
    BY <2>1 DEF IsSorted, Falls
  <2>6. QED BY <2>3, <2>4, <2>5
<1>4. QED BY <1>1, <1>2, <1>3, PTL DEF TableSpec

-----------------------------------------------------------------------------
(* RoundTimer: the time that is shown.                                     *)

TimedMatches == [started : Nat, length : Lengths, extension : Nat, active : BOOLEAN]

TimesTypeOK ==
  /\ clock \in Nat /\ roundLength \in Lengths
  /\ clientMatch \in [MatchIds -> TimedMatches \cup {NoMatch}]
  /\ updated \in [header : Nat, panel : Nat]
  /\ header.left \in Nat /\ panel.left \in Nat
  /\ panel.match # NoMatch => panel.match \in Paired

TimesInv == TimesTypeOK /\ NeverOptimistic /\ OnlyTimeIsMissed

LEMMA TimedIsNumbers ==
  ASSUME NEW m \in TimedMatches
  PROVE  m.length \in Nat /\ m.extension \in Nat /\ m.started \in Nat
BY RoundTimerAssumption DEF RoundTimerAssumption, TimedMatches

(* The time that is left, by cases. *)
LEMMA TimeLeft ==
  ASSUME clock \in Nat, NEW m \in TimedMatches
  PROVE  /\ time_left(m) \in Nat
         /\ time_left(m) = IF m.length + m.extension - (clock - m.started) >= 0
                           THEN m.length + m.extension - (clock - m.started) ELSE 0
<1>1. m.length + m.extension - (clock - m.started) \in Int
  BY TimedIsNumbers
<1>2. QED BY <1>1, MaxWithZero DEF time_left, TimeAt

(* What a header drawn now shows. *)
LEMMA HeaderDrawn ==
  ASSUME clock \in Nat, clock' = clock, clientMatch' \in [MatchIds -> TimedMatches \cup {NoMatch}],
         updateRoundTimer
  PROVE  /\ \A x \in Paired' : header'.left <= time_left(clientMatch'[x])
         /\ header'.left \in Nat
<1> DEFINE S == {time_left(m) : m \in AllMatches'}
<1>1. \A x \in Paired' : clientMatch'[x] \in TimedMatches
  BY DEF Paired
<1>2. S = {time_left(clientMatch'[x]) : x \in Paired'}
  BY DEF AllMatches
<1>3. S \subseteq Nat
  BY <1>1, <1>2, TimeLeft
<1>4. header'.left = Least(S)
  BY DEF updateRoundTimer, LeftInRound
<1> HIDE DEF S
<1>5. CASE Paired' = {}
  BY <1>2, <1>4, <1>5 DEF Least
<1>6. CASE Paired' # {}
  <2>1. S # {}
    BY <1>2, <1>6
  <2>2. Least(S) \in S /\ \A m \in S : Least(S) <= m
    BY <1>3, <2>1, LeastIs
  <2>3. \A x \in Paired' : time_left(clientMatch'[x]) \in S
    BY <1>2
  <2>4. Least(S) \in Nat
    BY <1>3, <2>2
  <2>5. QED BY <1>4, <2>2, <2>3, <2>4
<1>7. QED BY <1>5, <1>6

(* A header drawn now is the last draw, from the matches after the step. *)
LEMMA HeaderIsDraw ==
  ASSUME clock' = clock, updated'.header = clock, updateRoundTimer
  PROVE  HeaderIsLastDraw'
<1>1. /\ header'.left = Least({time_left(m) : m \in AllMatches'})
      /\ header' = [left |-> Least({time_left(m) : m \in AllMatches'}),
                    active |-> Cardinality({x \in Paired' : clientMatch'[x].active})]
  BY DEF updateRoundTimer, LeftInRound
<1>2. {time_left(m) : m \in AllMatches'} = {TimeAt(m, updated'.header) : m \in AllMatches'}
  BY DEF time_left
<1>3. ShareShown(bar', header'.left, Greatest({duration(m) : m \in AllMatches'}))
  BY <1>1 DEF updateRoundTimer, LeftInRound, BarAfter, ShareShown
<1>4. QED BY <1>1, <1>2, <1>3 DEF HeaderIsLastDraw, TimeAt, duration, ShareShown, Least, Greatest

(* Nor does a step that draws no header and leaves the matches alone change what
   it was drawn from; and the same for the panel. *)
LEMMA HeaderIsKept ==
  ASSUME HeaderIsLastDraw, UNCHANGED <<clientMatch, header, bar>>, updated'.header = updated.header
  PROVE  HeaderIsLastDraw'
BY DEF HeaderIsLastDraw, AllMatches, Paired, TimeAt, duration, ShareShown, Least, Greatest

LEMMA PanelIsKept ==
  ASSUME PanelIsLastDraw, UNCHANGED panel, updated'.panel = updated.panel,
         panel.match # NoMatch => clientMatch'[panel.match] = clientMatch[panel.match]
  PROVE  PanelIsLastDraw'
BY DEF PanelIsLastDraw, TimeAt, duration, ShareShown

LEMMA PanelIsDraw ==
  ASSUME clock' = clock, updated'.panel = clock, NEW x, displayTime(x)
  PROVE  PanelIsLastDraw'
<1> SUFFICES ASSUME x # NoMatch PROVE PanelIsLastDraw'
  BY DEF displayTime, PanelIsLastDraw
<1>1. /\ panel'.match = x /\ panel'.left = time_left(clientMatch'[x])
      /\ panel'.bar = IF duration(clientMatch'[x]) = 0 THEN 0
                      ELSE BarAfter(panel.bar, (100 * time_left(clientMatch'[x]))
                                                 \div duration(clientMatch'[x]))
  BY DEF displayTime
<1>2. panel'.left = TimeAt(clientMatch'[x], clock)
  BY <1>1 DEF time_left
<1>3. ShareShown(panel'.bar, panel'.left, duration(clientMatch'[x]))
  BY <1>1 DEF ShareShown, BarAfter
<1>4. QED BY <1>1, <1>2, <1>3 DEF PanelIsLastDraw, TimeAt, duration, ShareShown

(* A match has no more time when the clock has moved on. *)
LEMMA TimeGoes ==
  ASSUME clock \in Nat, clock' = clock + 1, NEW m \in TimedMatches
  PROVE  /\ time_left(m) \in Nat /\ time_left(m)' \in Nat
         /\ time_left(m) <= time_left(m)' + 1
<1>1. clock' \in Nat
  OBVIOUS
<1>2. time_left(m) \in Nat
      /\ time_left(m) = IF m.length + m.extension - (clock - m.started) >= 0
                        THEN m.length + m.extension - (clock - m.started) ELSE 0
  BY TimeLeft
<1>3. time_left(m)' = IF m.length + m.extension - (clock' - m.started) >= 0
                      THEN m.length + m.extension - (clock' - m.started) ELSE 0
  <2>1. m.length + m.extension - (clock' - m.started) \in Int
    BY <1>1, TimedIsNumbers
  <2>2. QED BY <2>1, MaxWithZero DEF time_left, TimeAt
<1>4. m.length \in Nat /\ m.extension \in Nat /\ m.started \in Nat
  BY TimedIsNumbers
<1>5. QED BY <1>1, <1>2, <1>3, <1>4

(* What a panel drawn now shows. *)
LEMMA PanelDrawn ==
  ASSUME clock \in Nat, clock' = clock, clientMatch' \in [MatchIds -> TimedMatches \cup {NoMatch}],
         NEW x, x # NoMatch => x \in Paired', displayTime(x)
  PROVE  /\ panel'.match = x /\ panel'.left \in Nat
         /\ x # NoMatch => panel'.left = time_left(clientMatch'[x])
<1>1. x # NoMatch => clientMatch'[x] \in TimedMatches
  BY DEF Paired
<1>2. panel'.match = x /\ panel'.left = IF x = NoMatch THEN 0 ELSE time_left(clientMatch'[x])
  BY DEF displayTime
<1>3. QED BY <1>1, <1>2, TimeLeft

(* A step that leaves the clock and draws header and panel, or one of them when
   what the other shows has not changed, keeps all promises. *)
LEMMA DrawingInv ==
  ASSUME TimesInv, clock' = clock, UNCHANGED roundLength,
         clientMatch' \in [MatchIds -> TimedMatches \cup {NoMatch}], Paired \subseteq Paired',
         \/ DrawHeader /\ \A x \in Paired : clientMatch'[x] = clientMatch[x]
         \/ UNCHANGED clientMatch /\ \E x : (x # NoMatch => x \in Paired') /\ DrawPanel(x)
         \/ DrawBoth
  PROVE  TimesInv'
<1> USE DEF TimesInv, TimesTypeOK
<1>1. \A m : time_left(m)' = time_left(m)
  BY DEF time_left, TimeAt
<1>2. \A x \in Paired' : clientMatch'[x] \in TimedMatches
  BY DEF Paired
<1>3. \A x \in Paired' : time_left(clientMatch'[x]) \in Nat
  BY <1>2, TimeLeft
<1>4. CASE DrawHeader /\ \A x \in Paired : clientMatch'[x] = clientMatch[x]
  <2>1. /\ updateRoundTimer /\ updated' = [updated EXCEPT !.header = clock] /\ panel' = panel
    BY <1>4 DEF DrawHeader
  <2>2. /\ \A x \in Paired' : header'.left <= time_left(clientMatch'[x])
        /\ header'.left \in Nat
    BY <2>1, HeaderDrawn
  <2>3. updated'.header = clock /\ updated'.panel = updated.panel
        /\ updated' \in [header : Nat, panel : Nat]
    BY <2>1
  <2>4. TimesTypeOK'
    BY <2>1, <2>2, <2>3
  <2>5. OnlyTimeIsMissed'
    <3>1. panel.match # NoMatch => clientMatch'[panel.match] = clientMatch[panel.match]
      BY <1>4
    <3>2. QED BY <2>1, <2>3, <3>1, HeaderIsDraw, PanelIsKept DEF OnlyTimeIsMissed
  <2>6. NeverOptimistic'
    <3>1. \A x \in Paired' : header'.left <= time_left(clientMatch'[x]) + (clock - clock)
      BY <1>3, <2>2
    <3>2. panel'.match # NoMatch =>
            panel'.left <= time_left(clientMatch'[panel'.match]) + (clock - updated.panel)
      BY <1>4, <2>1 DEF NeverOptimistic
    <3>3. QED BY <1>1, <2>3, <3>1, <3>2 DEF NeverOptimistic
  <2>7. QED BY <2>4, <2>5, <2>6
<1>5. CASE UNCHANGED clientMatch /\ \E x : (x # NoMatch => x \in Paired') /\ DrawPanel(x)
  <2>1. PICK x : (x # NoMatch => x \in Paired') /\ DrawPanel(x)
    BY <1>5
  <2>2. /\ displayTime(x) /\ updated' = [updated EXCEPT !.panel = clock] /\ UNCHANGED <<header, bar>>
    BY <2>1 DEF DrawPanel
  <2>3. /\ panel'.match = x /\ panel'.left \in Nat
        /\ x # NoMatch => panel'.left = time_left(clientMatch'[x])
    BY <2>1, <2>2, PanelDrawn
  <2>4. updated'.header = updated.header /\ updated'.panel = clock
        /\ updated' \in [header : Nat, panel : Nat]
    BY <2>2
  <2>5. TimesTypeOK'
    BY <2>1, <2>2, <2>3, <2>4
  <2>6. Paired' = Paired
    BY <1>5 DEF Paired
  <2>7. OnlyTimeIsMissed'
    BY <1>5, <2>2, <2>4, HeaderIsKept, PanelIsDraw DEF OnlyTimeIsMissed
  <2>8. NeverOptimistic'
    <3>1. \A y \in Paired' : header'.left <= time_left(clientMatch'[y]) + (clock - updated.header)
      BY <1>5, <2>2, <2>6 DEF NeverOptimistic
    <3>2. panel'.match # NoMatch =>
            panel'.left <= time_left(clientMatch'[panel'.match]) + (clock - clock)
      BY <1>3, <2>1, <2>3
    <3>3. QED BY <1>1, <2>4, <3>1, <3>2 DEF NeverOptimistic
  <2>9. QED BY <2>5, <2>7, <2>8
<1>6. CASE DrawBoth
  <2>1. /\ updateRoundTimer /\ displayTime(panel.match)
        /\ updated' = [header |-> clock, panel |-> clock]
    BY <1>6 DEF DrawBoth
  <2>2. /\ \A x \in Paired' : header'.left <= time_left(clientMatch'[x])
        /\ header'.left \in Nat
    BY <2>1, HeaderDrawn
  <2>3. panel.match # NoMatch => panel.match \in Paired'
    OBVIOUS
  <2>4. /\ panel'.match = panel.match /\ panel'.left \in Nat
        /\ panel.match # NoMatch => panel'.left = time_left(clientMatch'[panel.match])
    BY <2>1, <2>3, PanelDrawn
  <2>5. TimesTypeOK'
    BY <2>1, <2>2, <2>3, <2>4
  <2>6. OnlyTimeIsMissed'
    BY <2>1, HeaderIsDraw, PanelIsDraw DEF OnlyTimeIsMissed
  <2>7. NeverOptimistic'
    <3>1. \A x \in Paired' : header'.left <= time_left(clientMatch'[x]) + (clock - clock)
      BY <1>3, <2>2
    <3>2. panel'.match # NoMatch =>
            panel'.left <= time_left(clientMatch'[panel'.match]) + (clock - clock)
      BY <1>3, <2>3, <2>4
    <3>3. QED BY <1>1, <2>1, <3>1, <3>2 DEF NeverOptimistic
  <2>8. QED BY <2>5, <2>6, <2>7
<1>7. QED BY <1>4, <1>5, <1>6

LEMMA TimesInit == RoundTimerInit => TimesInv
<1> SUFFICES ASSUME RoundTimerInit PROVE TimesInv
  OBVIOUS
<1>1. Paired = {}
  BY DEF RoundTimerInit, Paired
<1>2. TimesTypeOK /\ NeverOptimistic
  BY <1>1, RoundTimerAssumption
     DEF RoundTimerInit, RoundTimerAssumption, TimesTypeOK, NeverOptimistic
<1>3. AllMatches = {}
  BY <1>1 DEF AllMatches
<1>4. Least({}) = 0 /\ Greatest({}) = 0 /\ Cardinality({}) = 0
  BY FS_EmptySet DEF Least, Greatest
<1>5. HeaderIsLastDraw
  <2>1. /\ {TimeAt(m, updated.header) : m \in AllMatches} = {}
        /\ {x \in Paired : clientMatch[x].active} = {}
        /\ {duration(m) : m \in AllMatches} = {}
    BY <1>1, <1>3
  <2>2. QED BY <1>4, <2>1 DEF RoundTimerInit, HeaderIsLastDraw, ShareShown
<1>6. PanelIsLastDraw
  BY DEF RoundTimerInit, PanelIsLastDraw
<1>7. QED BY <1>2, <1>5, <1>6 DEF TimesInv, OnlyTimeIsMissed

LEMMA ClockTickInv == TimesInv /\ ClockTick => TimesInv'
<1> SUFFICES ASSUME TimesInv, ClockTick PROVE TimesInv'
  OBVIOUS
<1> USE DEF TimesInv, TimesTypeOK
<1>1. clock' = clock + 1 /\ UNCHANGED <<roundLength, clientMatch, header, bar, panel, updated>>
  BY DEF ClockTick, timerViews
<1>2. Paired' = Paired /\ \A x \in Paired : clientMatch[x] \in TimedMatches
  BY <1>1 DEF Paired
<1>3. ASSUME NEW x \in Paired
      PROVE  /\ time_left(clientMatch[x]) \in Nat /\ time_left(clientMatch[x])' \in Nat
             /\ time_left(clientMatch[x]) <= time_left(clientMatch[x])' + 1
  <2>1. PICK m \in TimedMatches : m = clientMatch[x]
    BY <1>2
  <2>2. m = clientMatch'[x]
    BY <1>1, <2>1
  <2>3. /\ time_left(m) \in Nat /\ time_left(m)' \in Nat
        /\ time_left(m) <= time_left(m)' + 1
    BY <1>1, TimeGoes
  <2>4. time_left(clientMatch[x])' = time_left(m)'
    BY <2>2 DEF time_left, TimeAt
  <2>5. QED BY <2>1, <2>3, <2>4
<1>4. OnlyTimeIsMissed'
  BY <1>1, HeaderIsKept, PanelIsKept DEF OnlyTimeIsMissed
<1>5. NeverOptimistic'
  <2>1. clock \in Nat /\ updated.header \in Nat /\ updated.panel \in Nat
    OBVIOUS
  <2>2. ASSUME NEW x \in Paired
        PROVE  header.left <= time_left(clientMatch[x])' + (clock + 1 - updated.header)
    <3>1. header.left <= time_left(clientMatch[x]) + (clock - updated.header)
      BY DEF NeverOptimistic
    <3>2. QED BY <1>3, <2>1, <3>1
  <2>3. ASSUME panel.match # NoMatch
        PROVE  panel.left <= time_left(clientMatch[panel.match])' + (clock + 1 - updated.panel)
    <3>1. panel.left <= time_left(clientMatch[panel.match]) + (clock - updated.panel)
      BY <2>3 DEF NeverOptimistic
    <3>2. PICK x \in Paired : x = panel.match
      BY <2>3
    <3>3. /\ time_left(clientMatch[x]) \in Nat /\ time_left(clientMatch[x])' \in Nat
          /\ time_left(clientMatch[x]) <= time_left(clientMatch[x])' + 1
      BY <1>3
    <3>4. time_left(clientMatch[panel.match])' = time_left(clientMatch[x])'
      BY <1>1, <3>2 DEF time_left, TimeAt
    <3>5. QED BY <2>1, <3>1, <3>2, <3>3, <3>4
  <2>4. QED BY <1>1, <1>2, <2>2, <2>3 DEF NeverOptimistic
<1>6. QED BY <1>1, <1>2, <1>4, <1>5

(* A match that was there stays. *)
LEMMA PairedGrows ==
  ASSUME TimesTypeOK,
         \A x \in Paired : clientMatch'[x] \in TimedMatches
  PROVE  Paired \subseteq Paired'
<1>1. NoMatch \notin TimedMatches
  BY RoundTimerAssumption DEF RoundTimerAssumption, TimedMatches
<1>2. \A x \in Paired : x \in MatchIds /\ clientMatch'[x] # NoMatch
  BY <1>1 DEF Paired
<1>3. QED BY <1>2 DEF Paired

LEMMA MatchesPairedInv ==
  ASSUME TimesInv, NEW new \in SUBSET MatchIds, MatchesPaired(new)
  PROVE  TimesInv'
<1> USE DEF TimesInv, TimesTypeOK
<1>1. /\ clientMatch' = [x \in MatchIds |->
           IF x \in new
           THEN [started |-> clock, length |-> roundLength, extension |-> 0, active |-> TRUE]
           ELSE clientMatch[x]]
      /\ new \cap Paired = {} /\ clock' = clock /\ roundLength' = roundLength /\ DrawHeader
  BY DEF MatchesPaired
<1>2. [started |-> clock, length |-> roundLength, extension |-> 0, active |-> TRUE] \in TimedMatches
  BY DEF TimedMatches
<1>3. clientMatch' \in [MatchIds -> TimedMatches \cup {NoMatch}]
  BY <1>1, <1>2
<1>4. \A x \in Paired : clientMatch'[x] = clientMatch[x] /\ clientMatch[x] \in TimedMatches
  BY <1>1 DEF Paired
<1>5. QED BY <1>1, <1>3, <1>4, PairedGrows, DrawingInv

LEMMA OnMatchInv ==
  ASSUME TimesInv, NEW x, NEW outcome \in TimedMatches, OnMatch(x, outcome)
  PROVE  TimesInv'
<1> USE DEF TimesInv, TimesTypeOK
<1>1. /\ clientMatch' = [clientMatch EXCEPT ![x] = outcome] \/ clientMatch' = clientMatch
      /\ clock' = clock /\ roundLength' = roundLength /\ DrawBoth /\ x \in MatchIds
  BY DEF OnMatch, Paired
<1>2. clientMatch' \in [MatchIds -> TimedMatches \cup {NoMatch}]
  BY <1>1
<1>3. \A y \in Paired : clientMatch'[y] \in TimedMatches
  BY <1>1 DEF Paired
<1>4. QED BY <1>1, <1>2, <1>3, PairedGrows, DrawingInv

LEMMA TimesStep == TimesInv /\ [RoundTimerNext]_roundTimerVars => TimesInv'
<1> SUFFICES ASSUME TimesInv, [RoundTimerNext]_roundTimerVars PROVE TimesInv'
  OBVIOUS
<1> USE DEF TimesInv, TimesTypeOK
<1>1. ASSUME UNCHANGED <<clock, roundLength, clientMatch>>, NEW x, x # NoMatch => x \in Paired,
             DrawPanel(x)
      PROVE  TimesInv'
  <2>1. Paired' = Paired
    BY <1>1 DEF Paired
  <2>2. QED BY <1>1, <2>1, DrawingInv
<1>2. CASE HeaderTimeout
  <2>1. Paired' = Paired
    BY <1>2 DEF HeaderTimeout, Paired
  <2>2. QED BY <1>2, <2>1, DrawingInv DEF HeaderTimeout
<1>3. CASE PanelTimeout \/ PanelRerendered
  BY <1>1, <1>3 DEF PanelTimeout, PanelRerendered
<1>4. ASSUME NEW x \in MatchIds, ShowMatch(x) PROVE TimesInv'
  BY <1>1, <1>4 DEF ShowMatch
<1>5. ASSUME NEW x \in MatchIds, MatchEnds(x) PROVE TimesInv'
  <2>1. clientMatch[x] \in TimedMatches
    BY <1>5 DEF MatchEnds, OnMatch, Paired
  <2>2. [clientMatch[x] EXCEPT !.active = FALSE] \in TimedMatches
    BY <2>1 DEF TimedMatches
  <2>3. QED BY <1>5, <2>2, OnMatchInv DEF MatchEnds
<1>6. ASSUME NEW e \in Extensions, MatchExtended(e) PROVE TimesInv'
  <2>1. clientMatch[panel.match] \in TimedMatches /\ e \in Nat
    BY <1>6, RoundTimerAssumption DEF MatchExtended, Paired, RoundTimerAssumption
  <2>2. [clientMatch[panel.match] EXCEPT !.extension = @ + e] \in TimedMatches
    BY <2>1 DEF TimedMatches
  <2>3. QED BY <1>6, <2>2, OnMatchInv DEF MatchExtended
<1>7. ASSUME NEW n \in Lengths, LengthSet(n) PROVE TimesInv'
  <2>1. roundLength' \in Lengths /\ UNCHANGED <<clock, clientMatch, header, bar, panel, updated>>
    BY <1>7, RoundTimerAssumption DEF LengthSet, timerViews, RoundTimerAssumption
  <2>2. Paired' = Paired
    BY <2>1 DEF Paired
  <2>3. \A m : time_left(m)' = time_left(m)
    BY <2>1 DEF time_left, TimeAt
  <2>4. OnlyTimeIsMissed'
    BY <2>1, HeaderIsKept, PanelIsKept DEF OnlyTimeIsMissed
  <2>5. QED BY <2>1, <2>2, <2>3, <2>4 DEF NeverOptimistic
<1>8. CASE UNCHANGED roundTimerVars
  <2>1. UNCHANGED <<clock, roundLength, clientMatch, header, bar, panel, updated>>
    BY <1>8 DEF roundTimerVars, timerViews
  <2>2. Paired' = Paired
    BY <2>1 DEF Paired
  <2>3. \A m : time_left(m)' = time_left(m)
    BY <2>1 DEF time_left, TimeAt
  <2>4. OnlyTimeIsMissed'
    BY <2>1, HeaderIsKept, PanelIsKept DEF OnlyTimeIsMissed
  <2>5. QED BY <2>1, <2>2, <2>3, <2>4 DEF NeverOptimistic
<1>9. QED
  BY <1>2, <1>3, <1>4, <1>5, <1>6, <1>7, <1>8, ClockTickInv, MatchesPairedInv DEF RoundTimerNext

LEMMA TimesInductive == RoundTimerSpec => []TimesInv
BY TimesInit, TimesStep, PTL DEF RoundTimerSpec

(* NeverOptimistic: neither the header nor the panel promises more time than a
   match has, but for the time since it was drawn, for any number of matches,
   lengths and extensions. *)
THEOREM TimesAreHonest == RoundTimerSpec => []NeverOptimistic
<1>1. TimesInv => NeverOptimistic
  BY DEF TimesInv
<1>2. QED BY <1>1, TimesInductive, PTL

(* OnlyTimeIsMissed: what the header and the panel show is what the matches of
   now had when it was drawn, so that nothing but time has passed since, for any
   number of matches, lengths and extensions. *)
THEOREM ViewsAreLastDraws == RoundTimerSpec => []OnlyTimeIsMissed
<1>1. TimesInv => OnlyTimeIsMissed
  BY DEF TimesInv
<1>2. QED BY <1>1, TimesInductive, PTL
=============================================================================
