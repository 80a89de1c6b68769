-------------------------------- MODULE Rules --------------------------------
(***************************************************************************)
(* TStandartRules: which values there are and what a guess is told.  The   *)
(* code has four positions and ten digits.                                 *)
(***************************************************************************)
EXTENDS Integers, FiniteSets, Sequences, Functions

CONSTANTS ValueSize, NumbersCount

ASSUME RulesAssumption ==
  ValueSize \in Nat \ {0} /\ NumbersCount \in Nat /\ ValueSize <= NumbersCount

Position == 1 .. ValueSize
Digit    == 0 .. NumbersCount - 1

(* isValidGameValueList, of a list of digits of the right length.          *)
IsValid(v) == IsInjective(v) /\ \A i \in Position : v[i] < NumbersCount

(* fillPossibleValuesList.                                                 *)
Value == {v \in [Position -> Digit] : IsValid(v)}

DigitsOf(v) == {v[i] : i \in Position}

(* Slip: one loop makes the mask and reads it.                             *)
BullsAndCowsOneLoop(guess, true) ==
  LET bulls == {i \in Position : guess[i] = true[i]}
      mask(k) == {true[i] : i \in {j \in Position \ bulls : j <= k}}
      cows  == {i \in Position \ bulls : guess[i] \in mask(i)}
  IN  <<Cardinality(bulls), Cardinality(cows)>>

(* calculateBullsAndCows: the mask holds the digits of the true value that *)
(* the guess does not have in their place.                                 *)
BullsAndCows(guess, true) ==
  LET bulls == {i \in Position : guess[i] = true[i]}
      mask  == {true[i] : i \in Position \ bulls}
      cows  == {i \in Position \ bulls : guess[i] \in mask}
  IN  <<Cardinality(bulls), Cardinality(cows)>>

IsWin(result) == result = <<ValueSize, 0>>

Total(result) == result[1] + result[2]

(* gameValueToUint; m_possibleValues is in this order.                     *)
ToUint(v) ==
  LET n[i \in 0 .. ValueSize] == IF i = 0 THEN 0 ELSE n[i - 1] * 10 + v[i]
  IN  n[ValueSize]

First(values) == CHOOSE v \in values : \A w \in values : ToUint(v) <= ToUint(w)

(* AllValuesNumber.                                                        *)
AllValuesNumber ==
  LET n[i \in 0 .. ValueSize] ==
        IF i = 0 THEN 1 ELSE n[i - 1] * (NumbersCount - i + 1)
  IN  n[ValueSize]

(* Slip: each digit is drawn from all of them, with nothing taken out.     *)
TakeDigitOfAll(drawn, i) ==
  [uniq |-> drawn.uniq, rest |-> drawn.rest \div NumbersCount,
   value |-> Append(drawn.value, drawn.uniq[drawn.rest % NumbersCount])]

(* The i-th digit is drawn from those not yet at the end of uniqList.      *)
TakeDigit(drawn, i) ==
  LET left == NumbersCount - i
      pos  == drawn.rest % left
  IN  [uniq  |-> [drawn.uniq EXCEPT ![pos] = drawn.uniq[left - 1],
                                    ![left - 1] = drawn.uniq[pos]],
       rest  |-> drawn.rest \div left,
       value |-> Append(drawn.value, drawn.uniq[pos])]

(* GetRandomGameValue, when the random function returns offset.            *)
RandomGameValue(offset) ==
  LET drawn[i \in 0 .. ValueSize] ==
        IF i = 0 THEN [uniq |-> [d \in Digit |-> d], rest |-> offset, value |-> <<>>]
        ELSE LET before == drawn[i - 1] IN TakeDigit(before, i - 1)
  IN  drawn[ValueSize].value
=============================================================================
