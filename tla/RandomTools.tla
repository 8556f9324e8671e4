----------------------------- MODULE RandomTools -----------------------------
(***************************************************************************)
(* The coin flipper and the dice roller of the menu: the dialogue asks for *)
(* numbers its spin boxes allow, coins.cpp draws random words, and the     *)
(* result is shown.  The random numbers are any numbers.                   *)
(***************************************************************************)
EXTENDS Integers, FiniteSets, FiniteSetsExt

CONSTANTS
  W,          (* sizeof(long) * 8, the bits of a random word                *)
  MaxCoins,   (* maximum of the spin box for coins                          *)
  MaxSides,   (* maxima of the spin boxes for sides and for dice            *)
  MaxDice,
  MaxInt      (* INT_MAX                                                    *)

ASSUME RandomAssumption ==
  /\ W \in Nat \ {0} /\ MaxCoins \in Nat \ {0}
  /\ MaxSides \in Nat /\ MaxSides >= 2 /\ MaxDice \in Nat \ {0}
  /\ MaxInt \in Nat \ {0}

Bits == 0..(W - 1)
Words == SUBSET Bits   (* the bits that are set                             *)

VARIABLES
  tool,       (* what runs: "none", "coins", "krark" or "dice"              *)
  asked,      (* the number of coins, or of sides and dice                  *)
  i, count,   (* of the loop: coins counted as flipped, heads               *)
  results,    (* of roll_dice: how often each side came up                  *)
  shown       (* the result as it is shown                                  *)

randomVars == <<tool, asked, i, count, results, shown>>

Nothing == [kind |-> "nothing"]

RandomInit ==
  /\ tool = "none" /\ asked = <<0, 0>>
  /\ i = 0 /\ count = 0 /\ results = <<>> /\ shown = Nothing

-----------------------------------------------------------------------------
(* The program as it is compiled.                                          *)

(* t << n, of a long: a shift by W or more is undefined, and the processors
   the program is built for take n modulo W. *)
ShiftedLeft(t, n) == {b + (n % W) : b \in t} \cap Bits

(* What an int holds after an overflow. *)
AsInt(n) ==
  LET m == n % (2 * (MaxInt + 1))
  IN  IF m <= MaxInt THEN m ELSE m - 2 * (MaxInt + 1)

(* C's division rounds towards 0. *)
Quotient(a, b) == IF a >= 0 THEN a \div b ELSE -((-a) \div b)

(* QProgressBar::setValue takes no value outside of its range; it begins at 0
   in the dialogue's form. *)
SetValue(n) == IF n \in 0..100 THEN n ELSE 0

-----------------------------------------------------------------------------
(* A deliberately wrong variant of Percentage, which breaks ResultsAreTrue: it
   divides first. *)
PercentageInWholes(rolled, total) == SetValue(AsInt(100 * Quotient(rolled, total)))

-----------------------------------------------------------------------------
(* Coins.                                                                  *)

StartCoins(coins, krark) ==
  /\ tool = "none"
  /\ tool' = IF krark THEN "krark" ELSE "coins"
  /\ asked' = <<coins, 0>>
  /\ i' = W /\ count' = 0        (* i += W, before it is compared *)
  /\ shown' = Nothing
  /\ UNCHANGED results

(* The word whose bits are heads: of a Krark coin either flip will do. *)
Flipped == IF tool = "krark" THEN {t \cup t2 : t \in Words, t2 \in Words} ELSE Words

FlipWord ==
  /\ tool \in {"coins", "krark"} /\ i <= asked[1]
  /\ \E t \in Flipped : count' = count + Cardinality(t)
  /\ i' = i + W
  /\ UNCHANGED <<tool, asked, results, shown>>

(* The coins that are left: the shift should keep as many bits of one word. *)
FlipRest ==
  /\ tool \in {"coins", "krark"} /\ i > asked[1]
  /\ \E t \in Flipped :
       count' = count + Cardinality(ShiftedLeft(t, W - asked[1] + i))
  /\ shown' = [kind |-> "heads", coins |-> asked[1], heads |-> count']
  /\ tool' = "none"
  /\ UNCHANGED <<asked, i, results>>

-----------------------------------------------------------------------------
(* Dice.                                                                   *)

(* roll_dice, as far as its allocation. *)
StartDice(sides, number) ==
  /\ tool = "none"
  /\ asked' = <<sides, number>>
  /\ \/ /\ tool' = "dice"
        /\ results' = [side \in 1..sides |-> 0]
        /\ i' = 0
     \/ (* no memory: the message box is gone with its function *)
        UNCHANGED <<tool, results, i>>
  /\ shown' = Nothing
  /\ UNCHANGED count

RollDie(side) ==
  /\ tool = "dice" /\ i < asked[2]
  /\ i' = i + 1
  /\ results' = [results EXCEPT ![side] = @ + 1]
  /\ UNCHANGED <<tool, asked, count, shown>>

(* DiceRollResultWidget, one for each side. *)
Percentage(rolled, total) == SetValue(Quotient(AsInt(100 * rolled), total))

FirstRolled == CHOOSE side \in DOMAIN results :
  results[side] # 0 /\ \A other \in DOMAIN results : other < side => results[other] = 0

ShowDice ==
  /\ tool = "dice" /\ i = asked[2]
  /\ shown' = IF asked[2] = 1 THEN [kind |-> "die", side |-> FirstRolled]
              ELSE [kind |-> "dice", number |-> asked[2], rolled |-> results,
                    bars |-> [side \in DOMAIN results |-> Percentage(results[side], asked[2])]]
  /\ tool' = "none"
  /\ UNCHANGED <<asked, i, count, results>>

-----------------------------------------------------------------------------
RandomNext ==
  \/ \E coins \in 1..MaxCoins, krark \in BOOLEAN : StartCoins(coins, krark)
  \/ FlipWord \/ FlipRest
  \/ \E sides \in 2..MaxSides, number \in 1..MaxDice : StartDice(sides, number)
  \/ tool = "dice" /\ \E side \in 1..asked[1] : RollDie(side)
  \/ ShowDice

RandomSpec == RandomInit /\ [][RandomNext]_randomVars

-----------------------------------------------------------------------------
(* What is shown is what was drawn: no more heads than coins, but when a whole
   number of words is flipped, and then at most a word more; of one die the side
   that came up; of several each side's count, and its share as long as the
   computation of it stays within an int. *)
ResultsAreTrue ==
  CASE shown.kind = "heads" ->
         shown.heads <= shown.coins + (IF shown.coins % W = 0 THEN W ELSE 0)
    [] shown.kind = "die" ->
         results[shown.side] = 1
    [] shown.kind = "dice" ->
         /\ MapThenSumSet(LAMBDA side : shown.rolled[side], DOMAIN shown.rolled) = shown.number
         /\ \A side \in DOMAIN shown.rolled :
              100 * shown.rolled[side] <= MaxInt =>
                shown.bars[side] = (100 * shown.rolled[side]) \div shown.number
    [] OTHER -> TRUE

(* test_coins and test_krark_coins: "coins >= 0 && coins <= i" of the heads
   among i coins. *)
HeadsWithinCoins ==
  shown.kind = "heads" => shown.heads \in 0..shown.coins
=============================================================================
