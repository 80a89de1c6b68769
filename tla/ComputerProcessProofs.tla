----------------------- MODULE ComputerProcessProofs -----------------------
(***************************************************************************)
(* A computer with any of the four brains, for every number of positions   *)
(* and digits: what the rules compute, what GetRandomGameValue draws, and  *)
(* that no brain ever drops the secret, guesses twice or is told wrong.    *)
(*                                                                         *)
(* None of the invariants is inductive by itself: that the secret is a     *)
(* candidate needs true results, that it is never guessed twice needs that *)
(* a guess is no candidate any more, and the node of the tree brain is the *)
(* path of the results it was told (IInv of ComputerProcess).              *)
(***************************************************************************)
EXTENDS ComputerProcess, FiniteSetTheorems, FunctionTheorems, WellFoundedInduction, TLAPS

-----------------------------------------------------------------------------
(* A set of natural numbers has a least one.                               *)
LEMMA LeastOfNaturals ==
  ASSUME NEW T, T \subseteq Nat, T # {}
  PROVE  \E x \in T : \A y \in T : x <= y
<1> DEFINE R == OpToRel(<, Nat)
<1>1. IsWellFoundedOn(R, Nat)
  BY NatLessThanWellFounded
<1>2. \A x, y \in Nat : y < x => <<y, x>> \in R
  BY DEF OpToRel
<1> HIDE DEF R
<1>3. PICK x \in T : \A y \in T : ~(<<y, x>> \in R)
  BY <1>1, WFMin
<1>4. \A y \in T : ~(y < x)
  BY <1>2, <1>3
<1> QED  BY <1>4

(* A set of numbers up to n that has 0 and, with a number, the next one,   *)
(* has them all.                                                           *)
LEMMA UpTo ==
  ASSUME NEW n \in Nat, NEW T, 0 \in T, \A i \in 1 .. n : i - 1 \in T => i \in T
  PROVE  \A i \in 0 .. n : i \in T
<1> DEFINE U == {i \in 0 .. n : i \notin T}
<1> SUFFICES ASSUME U # {}  PROVE FALSE
  OBVIOUS
<1>0. U \subseteq Nat
  OBVIOUS
<1>1. PICK x \in U : \A y \in U : x <= y
  <2> HIDE DEF U
  <2> QED  BY <1>0, LeastOfNaturals
<1>2. x \in 1 .. n /\ x - 1 \in 0 .. n
  OBVIOUS
<1>3. x - 1 \in T
  BY <1>1, <1>2
<1> QED  BY <1>2, <1>3

(* f begins with a, and each next value is what g makes of the one before. *)
Follows(f, n, a, g) ==
  f[0] = a /\ \A i \in 1 .. n : f[i] = g[i][f[i - 1]]

(* There is a function that begins with a and goes on as g says.  A        *)
(* recursive function of the model is a CHOOSE of one: this is what gives  *)
(* it its values.                                                          *)
LEMMA RecursiveFunction ==
  ASSUME NEW N \in Nat, NEW S, NEW a \in S, NEW g \in [1 .. N -> [S -> S]]
  PROVE  \E f \in [0 .. N -> S] : Follows(f, N, a, g)
<1> DEFINE T == {n \in 0 .. N : \E f \in [0 .. n -> S] : Follows(f, n, a, g)}
<1>1. 0 \in T
  <2>1. [i \in 0 .. 0 |-> a] \in [0 .. 0 -> S] /\ Follows([i \in 0 .. 0 |-> a], 0, a, g)
    BY DEF Follows
  <2> QED BY <2>1
<1>2. ASSUME NEW n \in 1 .. N, n - 1 \in T  PROVE n \in T
  <2>1. PICK f \in [0 .. n - 1 -> S] : Follows(f, n - 1, a, g)
    BY <1>2
  <2> DEFINE h == [i \in 0 .. n |-> IF i = n THEN g[n][f[n - 1]] ELSE f[i]]
  <2>2. f[n - 1] \in S
    BY <2>1
  <2>3. g[n][f[n - 1]] \in S
    BY <2>2
  <2>4. h \in [0 .. n -> S]
    BY <2>1, <2>3
  <2>5. Follows(h, n, a, g)
    <3>1. h[0] = a
      BY <2>1 DEF Follows
    <3>2. ASSUME NEW i \in 1 .. n PROVE h[i] = g[i][h[i - 1]]
      <4>1. CASE i = n
        BY <4>1
      <4>2. CASE i # n
        BY <2>1, <4>2 DEF Follows
      <4> QED BY <4>1, <4>2
    <3> HIDE DEF h
    <3> QED BY <3>1, <3>2 DEF Follows
  <2> HIDE DEF h
  <2> QED BY <2>4, <2>5
<1>3. N \in T
  <2> HIDE DEF T
  <2>1. \A n \in 0 .. N : n \in T
    BY <1>1, <1>2, UpTo
  <2> QED  BY <2>1
<1> QED BY <1>3 DEF T

-----------------------------------------------------------------------------
(* gameValueToUint gives a number.                                         *)
LEMMA ToUintType ==
  ASSUME NEW v \in [Position -> Digit]
  PROVE  ToUint(v) \in Nat
<1> DEFINE n[i \in 0 .. ValueSize] == IF i = 0 THEN 0 ELSE n[i - 1] * 10 + v[i]
<1> DEFINE g == [i \in 1 .. ValueSize |-> [x \in Nat |-> x * 10 + v[i]]]
<1>0. ValueSize \in Nat
  BY RulesAssumption
<1>1. g \in [1 .. ValueSize -> [Nat -> Nat]]
  BY RulesAssumption DEF Position, Digit
<1>2. \E f \in [0 .. ValueSize -> Nat] : Follows(f, ValueSize, 0, g)
  BY <1>0, <1>1, RecursiveFunction
<1>3. PICK f \in [0 .. ValueSize -> Nat] : Follows(f, ValueSize, 0, g)
  BY <1>2
<1>3a. \A i \in 1 .. ValueSize : f[i] = f[i - 1] * 10 + v[i]
  <2> TAKE i \in 1 .. ValueSize
  <2>1. f[i - 1] \in Nat
    BY <1>0
  <2> QED BY <1>3, <2>1 DEF Follows
<1>3b. f = [i \in 0 .. ValueSize |-> IF i = 0 THEN 0 ELSE f[i - 1] * 10 + v[i]]
  BY <1>0, <1>3, <1>3a DEF Follows
<1>4. n = [i \in 0 .. ValueSize |-> IF i = 0 THEN 0 ELSE n[i - 1] * 10 + v[i]]
  BY <1>3b
<1>5. ToUint(v) = n[ValueSize]
  BY DEF ToUint
<1> HIDE DEF n
<1> DEFINE T == {j \in 0 .. ValueSize : n[j] \in Nat}
<1>6. \A i \in 0 .. ValueSize : i \in T
  <2>1. 0 \in T
    BY <1>0, <1>4
  <2>2. ASSUME NEW i \in 1 .. ValueSize, i - 1 \in T  PROVE i \in T
    <3>1. n[i] = n[i - 1] * 10 + v[i] /\ n[i - 1] \in Nat
      BY <1>0, <1>4, <2>2
    <3>2. v[i] \in Nat
      BY RulesAssumption DEF Position, Digit
    <3> QED BY <3>1, <3>2
  <2> HIDE DEF T
  <2> QED  BY <1>0, <2>1, <2>2, UpTo
<1> QED BY <1>0, <1>5, <1>6

(* The first of the candidates in the order of m_possibleValues is one of  *)
(* them.                                                                   *)
LEMMA FirstIsOne ==
  ASSUME NEW S, S \subseteq [Position -> Digit], S # {}
  PROVE  First(S) \in S
<1> DEFINE T == {ToUint(v) : v \in S}
<1>1. T \subseteq Nat /\ T # {}
  BY ToUintType
<1>2. \E x \in T : \A y \in T : x <= y
  <2> HIDE DEF T
  <2> QED BY <1>1, LeastOfNaturals
<1>3. \E v \in S : \A w \in S : ToUint(v) <= ToUint(w)
  BY <1>2
<1> QED BY <1>3 DEF First

(* How many positions and digits there are.                                *)
LEMMA PositionsAndDigits ==
  /\ IsFiniteSet(Position) /\ Cardinality(Position) = ValueSize
  /\ ValueSize \in Nat \ {0}
  /\ Digit \subseteq Nat /\ IsFiniteSet(Digit) /\ Cardinality(Digit) = NumbersCount
<1>1. ValueSize \in Nat \ {0} /\ NumbersCount \in Nat
  BY RulesAssumption
<1>2. IsFiniteSet(Position) /\ Cardinality(Position) = ValueSize
  BY <1>1, FS_Interval DEF Position
<1>3. IsFiniteSet(Digit) /\ Cardinality(Digit) = NumbersCount
  BY <1>1, FS_Interval DEF Digit
<1> QED  BY <1>1, <1>2, <1>3 DEF Digit

(* A valid value is a list of digits without a repetition.                 *)
LEMMA ValuesAreInjections ==
  Value = {v \in [Position -> Digit] : \A i, j \in Position : v[i] = v[j] => i = j}
BY RulesAssumption DEF Value, IsValid, IsInjective, Digit

(* A value has as many digits at some positions as there are positions.    *)
LEMMA DigitsCount ==
  ASSUME NEW v \in Value, NEW P, P \subseteq Position
  PROVE  /\ IsFiniteSet(P) /\ IsFiniteSet({v[i] : i \in P})
         /\ Cardinality({v[i] : i \in P}) = Cardinality(P)
<1> DEFINE D == {v[i] : i \in P}
           f == [i \in P |-> v[i]]
<1>1. IsFiniteSet(P)
  BY PositionsAndDigits, FS_Subset
<1>2. f \in [P -> D] /\ (\A a, b \in P : f[a] = f[b] => a = b) /\ \A d \in D : \E a \in P : f[a] = d
  BY ValuesAreInjections
<1>3. f \in Bijection(P, D)
  <2> HIDE DEF f, D
  <2> QED BY <1>2, Fun_IsBij
<1> HIDE DEF f, D
<1>4. ExistsBijection(P, D)
  BY <1>3 DEF ExistsBijection
<1>5. IsFiniteSet(D) /\ Cardinality(D) = Cardinality(P)
  BY <1>1, <1>4, FS_Bijection
<1> QED BY <1>1, <1>5 DEF D

(* calculateBullsAndCows, which counts with a mask of the digits left,     *)
(* gives what the rules of the game say: the digits in their place, and    *)
(* the common digits that are not.                                         *)
LEMMA ResultIsTrue ==
  ASSUME NEW v \in Value, NEW s \in Value
  PROVE  LET inPlace == {k \in Position : v[k] = s[k]}
             common  == DigitsOf(v) \cap DigitsOf(s)
         IN  /\ IsFiniteSet(inPlace) /\ IsFiniteSet(common)
             /\ Cardinality(inPlace) \in 0 .. ValueSize /\ Cardinality(common) \in 0 .. ValueSize
             /\ Cardinality(inPlace) <= Cardinality(common)
             /\ BullsAndCows(v, s) =
                   <<Cardinality(inPlace), Cardinality(common) - Cardinality(inPlace)>>
<1> DEFINE B == {k \in Position : v[k] = s[k]}
           mask == {s[i] : i \in Position \ B}
           C == {i \in Position \ B : v[i] \in mask}
           E == {i \in Position : v[i] \in DigitsOf(s)}
           D == DigitsOf(v) \cap DigitsOf(s)
<1>1. E = B \cup C /\ B \cap C = {}
  BY ValuesAreInjections DEF DigitsOf
<1>2. D = {v[i] : i \in E}
  BY DEF DigitsOf
<1>3. E \subseteq Position /\ B \subseteq Position /\ C \subseteq Position
  OBVIOUS
<1>4. BullsAndCows(v, s) = <<Cardinality(B), Cardinality(C)>>
  BY DEF BullsAndCows
<1> HIDE DEF B, C, D, E, mask
<1>5. IsFiniteSet(D) /\ Cardinality(D) = Cardinality(E)
  BY <1>2, <1>3, DigitsCount
<1>6. /\ IsFiniteSet(B) /\ IsFiniteSet(C) /\ IsFiniteSet(E)
      /\ Cardinality(B) \in Nat /\ Cardinality(C) \in Nat /\ Cardinality(E) \in Nat
      /\ Cardinality(E) <= ValueSize
  BY <1>3, PositionsAndDigits, FS_Subset, FS_CardinalityType
<1>7. Cardinality(E) = Cardinality(B) + Cardinality(C)
  BY <1>1, <1>6, FS_Union, FS_EmptySet
<1>8. /\ IsFiniteSet(B) /\ IsFiniteSet(D)
      /\ Cardinality(B) \in 0 .. ValueSize /\ Cardinality(D) \in 0 .. ValueSize
      /\ Cardinality(B) <= Cardinality(D)
      /\ BullsAndCows(v, s) = <<Cardinality(B), Cardinality(D) - Cardinality(B)>>
  BY <1>4, <1>5, <1>6, <1>7, PositionsAndDigits
<1> QED BY <1>8 DEF B, D

(* What the brains conclude from a result: a hit is the secret itself, no  *)
(* bulls and cows are no common digit, and all of them the same digits.    *)
LEMMA ResultFacts ==
  ASSUME NEW v \in Value, NEW s \in Value
  PROVE  /\ BullsAndCows(v, s) \in Result
         /\ IsWin(BullsAndCows(v, s)) <=> v = s
         /\ Total(BullsAndCows(v, s)) = 0 => ~Sharing(s, v)
         /\ Total(BullsAndCows(v, s)) = ValueSize => DigitsOf(v) \subseteq DigitsOf(s)
<1> DEFINE B == {k \in Position : v[k] = s[k]}
           D == DigitsOf(v) \cap DigitsOf(s)
           b == Cardinality(B)
           d == Cardinality(D)
<1>1. /\ IsFiniteSet(B) /\ IsFiniteSet(D) /\ b \in 0 .. ValueSize /\ d \in 0 .. ValueSize
      /\ b <= d /\ BullsAndCows(v, s) = <<b, d - b>>
  BY ResultIsTrue
<1>2. v = s <=> B = Position
  BY ValuesAreInjections
<1>3. B \subseteq Position /\ D \subseteq DigitsOf(v)
  OBVIOUS
<1>4. IsFiniteSet(DigitsOf(v)) /\ Cardinality(DigitsOf(v)) = ValueSize
  BY DigitsCount, PositionsAndDigits DEF DigitsOf
<1>5. D = {} => ~Sharing(s, v)
  BY DEF Sharing
<1> HIDE DEF B, D
<1>6. b = ValueSize <=> B = Position
  BY <1>3, PositionsAndDigits, FS_Subset
<1>7. d = ValueSize => D = DigitsOf(v)
  BY <1>3, <1>4, FS_Subset
<1>8. d = 0 => D = {}
  BY <1>1, FS_EmptySet
<1> HIDE DEF b, d
<1>9. /\ BullsAndCows(v, s) \in Result
      /\ IsWin(BullsAndCows(v, s)) <=> b = ValueSize
      /\ Total(BullsAndCows(v, s)) = d
  BY <1>1, PositionsAndDigits DEF Result, IsWin, Total
<1>10. D = DigitsOf(v) => DigitsOf(v) \subseteq DigitsOf(s)
  BY DEF D
<1> QED BY <1>2, <1>5, <1>6, <1>7, <1>8, <1>9, <1>10

-----------------------------------------------------------------------------
(* Quotient and remainder of numbers.                                      *)
LEMMA Division ==
  ASSUME NEW a \in Nat, NEW b \in Nat \ {0}
  PROVE  /\ a \div b \in Nat /\ a % b \in 0 .. b - 1
         /\ a = b * (a \div b) + (a % b)
OBVIOUS

(* m_digitCoins gives each digit a digit of the tree of its own, and no    *)
(* digit of the tree is left out.                                          *)
LEMMA CoinsAreBijections ==
  ASSUME NEW c \in Coins
  PROVE  /\ c \in [Digit -> Digit]
         /\ \A d, e \in Digit : c[d] = c[e] => d = e
         /\ \A d \in Digit : \E e \in Digit : c[e] = d
<1>1. c \in [Digit -> Digit] /\ \A d, e \in Digit : c[d] = c[e] => d = e
  BY DEF Coins, IsInjective
<1>2. c \in Injection(Digit, Digit)
  BY <1>1, Fun_IsInj
<1>3. c \in Surjection(Digit, Digit)
  BY <1>2, PositionsAndDigits, FS_Injection
<1>4. \A d \in Digit : \E e \in Digit : c[e] = d
  BY <1>3, Fun_SurjectionProperties
<1> QED BY <1>1, <1>4

(* Turning the coins keeps values valid, front after back is where one     *)
(* was, and a guess of the tree is told the same on both sides.            *)
LEMMA FlippedCoins ==
  ASSUME NEW c \in Coins, NEW t \in Value, NEW s \in Value
  PROVE  /\ ToBack(c, s) \in Value
         /\ ToFront(c, t) \in Value
         /\ ToBack(c, ToFront(c, t)) = t
         /\ BullsAndCows(ToFront(c, t), s) = BullsAndCows(t, ToBack(c, s))
<1> DEFINE u == ToFront(c, t)
           b == ToBack(c, s)
<1>1. /\ c \in [Digit -> Digit]
      /\ \A d, e \in Digit : c[d] = c[e] => d = e
      /\ \A d \in Digit : \E e \in Digit : c[e] = d
  BY CoinsAreBijections
<1>2. /\ t \in [Position -> Digit] /\ \A i, j \in Position : t[i] = t[j] => i = j
      /\ s \in [Position -> Digit] /\ \A i, j \in Position : s[i] = s[j] => i = j
  BY ValuesAreInjections
<1>3. u \in [Position -> Digit] /\ \A i \in Position : c[u[i]] = t[i]
  <2>1. ASSUME NEW i \in Position
        PROVE  LET d == CHOOSE d \in Digit : c[d] = t[i] IN d \in Digit /\ c[d] = t[i]
    BY <1>1, <1>2
  <2> QED BY <2>1 DEF ToFront
<1>4. b \in [Position -> Digit] /\ \A i \in Position : b[i] = c[s[i]]
  BY <1>1, <1>2 DEF ToBack
<1>5. ToBack(c, u) = t
  <2> HIDE DEF u
  <2> QED BY <1>2, <1>3 DEF ToBack
<1> HIDE DEF u, b
<1>6. u \in Value /\ b \in Value
  BY <1>1, <1>2, <1>3, <1>4, ValuesAreInjections
<1>7. \A i, j \in Position : u[i] = s[j] <=> t[i] = b[j]
  BY <1>1, <1>2, <1>3, <1>4
<1> DEFINE B == {i \in Position : u[i] = s[i]}
<1>8. B = {i \in Position : t[i] = b[i]}
  BY <1>7
<1>9. {i \in Position \ B : u[i] \in {s[j] : j \in Position \ B}}
        = {i \in Position \ B : t[i] \in {b[j] : j \in Position \ B}}
  BY <1>7
<1> HIDE DEF B
<1>10. BullsAndCows(u, s) = BullsAndCows(t, b)
  BY <1>8, <1>9 DEF BullsAndCows, B
<1> QED BY <1>5, <1>6, <1>10 DEF u, b

(* Back after front is where one was, too.                                 *)
LEMMA FrontOfBack ==
  ASSUME NEW c \in Coins, NEW u \in Value
  PROVE  ToFront(c, ToBack(c, u)) = u
<1>1. /\ c \in [Digit -> Digit]
      /\ \A d, e \in Digit : c[d] = c[e] => d = e
  BY CoinsAreBijections
<1>2. u \in [Position -> Digit]
  BY ValuesAreInjections
<1>3. ASSUME NEW i \in Position
      PROVE  (CHOOSE d \in Digit : c[d] = c[u[i]]) = u[i]
  <2>1. u[i] \in Digit
    BY <1>2
  <2> QED BY <1>1, <2>1
<1>4. \A i \in Position : ToBack(c, u)[i] = c[u[i]]
  BY DEF ToBack
<1>5. ToFront(c, ToBack(c, u)) = [i \in Position |-> u[i]]
  BY <1>3, <1>4 DEF ToFront
<1> QED BY <1>2, <1>5

(* What the SMART brain narrows down to is among the candidates: the       *)
(* position at which none would be left is not counted.                    *)
LEMMA SmartBestIsOneOf ==
  ASSUME NEW S, S \subseteq Value, S # {}
  PROVE  SmartBest(S) \subseteq S
<1> DEFINE order == PositionOrder(S)
           left[k \in 0 .. ValueSize] ==
             IF k = 0 THEN S ELSE Having(left[k - 1], order[k], Top(S, order[k]))
           full == {k \in 0 .. ValueSize : left[k] # {}}
           deep == CHOOSE k \in full : \A m \in full : m <= k
           g == [k \in 1 .. ValueSize |->
                   [X \in SUBSET S |-> Having(X, order[k], Top(S, order[k]))]]
<1>1. ValueSize \in Nat
  BY RulesAssumption
<1>2. SmartBest(S) = IF deep = ValueSize THEN left[ValueSize] ELSE {First(left[deep])}
  BY DEF SmartBest
<1> HIDE DEF order
<1>3. g \in [1 .. ValueSize -> [SUBSET S -> SUBSET S]]
  BY DEF Having
<1>4. PICK f \in [0 .. ValueSize -> SUBSET S] : Follows(f, ValueSize, S, g)
  <2> HIDE DEF g
  <2> QED BY <1>1, <1>3, RecursiveFunction
<1>5. \A k \in 1 .. ValueSize : f[k] = Having(f[k - 1], order[k], Top(S, order[k]))
  <2> TAKE k \in 1 .. ValueSize
  <2>1. f[k - 1] \in SUBSET S
    BY <1>1, <1>4
  <2> QED BY <1>4, <2>1 DEF Follows
<1>6. f = [k \in 0 .. ValueSize |->
             IF k = 0 THEN S ELSE Having(f[k - 1], order[k], Top(S, order[k]))]
  BY <1>1, <1>4, <1>5 DEF Follows
<1>7. left = [k \in 0 .. ValueSize |->
                IF k = 0 THEN S ELSE Having(left[k - 1], order[k], Top(S, order[k]))]
  BY <1>6
<1> HIDE DEF left
<1> DEFINE T == {k \in 0 .. ValueSize : left[k] \subseteq S}
<1>8. \A k \in 0 .. ValueSize : k \in T
  <2>1. 0 \in T
    BY <1>1, <1>7
  <2>2. ASSUME NEW k \in 1 .. ValueSize, k - 1 \in T  PROVE k \in T
    BY <1>1, <1>7, <2>2 DEF Having
  <2> HIDE DEF T
  <2> QED  BY <1>1, <2>1, <2>2, UpTo
<1>9. 0 \in full
  BY <1>1, <1>7
<1>10. deep \in full
  <2> DEFINE R == {ValueSize - k : k \in full}
  <2>1. R \subseteq Nat /\ R # {}
    BY <1>1, <1>9
  <2>2. \E x \in R : \A y \in R : x <= y
    <3> HIDE DEF R
    <3> QED BY <2>1, LeastOfNaturals
  <2>3. \E k \in full : \A m \in full : m <= k
    <3>1. \A k \in full : k \in Int /\ ValueSize - k \in R
      BY <1>1
    <3>2. \A x \in R : \E k \in full : x = ValueSize - k
      OBVIOUS
    <3> HIDE DEF full, R
    <3> QED BY <2>2, <1>1, <3>1, <3>2
  <2> HIDE DEF full
  <2> QED BY <2>3
<1>11. left[deep] # {} /\ left[deep] \subseteq S
  BY <1>8, <1>10
<1>12. First(left[deep]) \in left[deep]
  BY <1>11, FirstIsOne, ValuesAreInjections
<1> QED BY <1>2, <1>11, <1>12

-----------------------------------------------------------------------------
(* What GetRandomGameValue has after some of its draws.                    *)
Drawn == [uniq : [Digit -> Digit], rest : Nat, value : Seq(Digit)]

(* A draw takes a digit from the list of the unused ones.                  *)
LEMMA TakeDigitType ==
  ASSUME NEW d \in Drawn, NEW i \in 0 .. ValueSize - 1
  PROVE  /\ TakeDigit(d, i) \in Drawn
         /\ NumbersCount - i \in Nat \ {0}
         /\ d.rest % (NumbersCount - i) \in 0 .. NumbersCount - i - 1
         /\ 0 .. NumbersCount - i - 1 \subseteq Digit
<1> DEFINE left == NumbersCount - i
           pos  == d.rest % left
<1>1. left \in Nat \ {0} /\ 0 .. left - 1 \subseteq Digit
  BY RulesAssumption DEF Digit
<1>2. d.rest \in Nat /\ d.uniq \in [Digit -> Digit] /\ d.value \in Seq(Digit)
  BY DEF Drawn
<1>3. pos \in 0 .. left - 1 /\ d.rest \div left \in Nat
  <2> HIDE DEF left
  <2> QED BY <1>1, <1>2, Division
<1>4. left - 1 \in Digit /\ pos \in Digit
  BY <1>1, <1>3
<1>5. TakeDigit(d, i) = [uniq |-> [d.uniq EXCEPT ![pos] = d.uniq[left - 1], ![left - 1] = d.uniq[pos]],
                         rest |-> d.rest \div left, value |-> Append(d.value, d.uniq[pos])]
  BY DEF TakeDigit
<1> HIDE DEF left, pos
<1>6. TakeDigit(d, i) \in Drawn
  <2>1. [d.uniq EXCEPT ![pos] = d.uniq[left - 1], ![left - 1] = d.uniq[pos]]
          \in [Digit -> Digit]
    BY <1>2, <1>4
  <2>2. Append(d.value, d.uniq[pos]) \in Seq(Digit)
    BY <1>2, <1>4
  <2> QED BY <1>3, <1>5, <2>1, <2>2 DEF Drawn
<1> QED BY <1>1, <1>3, <1>6 DEF left, pos

(* The digits drawn, and the numbers that are left, for one random number. *)
Draws(f, offset) ==
  /\ f \in [0 .. ValueSize -> Drawn]
  /\ f[0] = [uniq |-> [d \in Digit |-> d], rest |-> offset, value |-> <<>>]
  /\ \A i \in 1 .. ValueSize : f[i] = TakeDigit(f[i - 1], i - 1)

(* GetRandomGameValue draws ValueSize times.                               *)
LEMMA DrawsOf ==
  ASSUME NEW offset \in Nat
  PROVE  \E f : Draws(f, offset) /\ RandomGameValue(offset) = f[ValueSize].value
<1> DEFINE drawn[i \in 0 .. ValueSize] ==
             IF i = 0 THEN [uniq |-> [d \in Digit |-> d], rest |-> offset, value |-> <<>>]
             ELSE LET before == drawn[i - 1] IN TakeDigit(before, i - 1)
           a == [uniq |-> [d \in Digit |-> d], rest |-> offset, value |-> <<>>]
           g == [i \in 1 .. ValueSize |-> [d \in Drawn |-> TakeDigit(d, i - 1)]]
<1>1. ValueSize \in Nat
  BY RulesAssumption
<1>2. RandomGameValue(offset) = drawn[ValueSize].value
  BY DEF RandomGameValue
<1>3. a \in Drawn
  BY DEF Drawn
<1>4. \A i \in 1 .. ValueSize : \A d \in Drawn : TakeDigit(d, i - 1) \in Drawn
  <2> TAKE i \in 1 .. ValueSize
  <2>1. i - 1 \in 0 .. ValueSize - 1
    BY <1>1
  <2> QED BY <2>1, TakeDigitType
<1>5. g \in [1 .. ValueSize -> [Drawn -> Drawn]]
  BY <1>4
<1>6. PICK f \in [0 .. ValueSize -> Drawn] : Follows(f, ValueSize, a, g)
  <2> HIDE DEF a, g
  <2> QED BY <1>1, <1>3, <1>5, RecursiveFunction
<1>7. \A i \in 1 .. ValueSize : f[i] = TakeDigit(f[i - 1], i - 1)
  <2> TAKE i \in 1 .. ValueSize
  <2>1. f[i - 1] \in Drawn
    BY <1>1, <1>6
  <2> QED BY <1>6, <2>1 DEF Follows
<1>8. f = [i \in 0 .. ValueSize |-> IF i = 0 THEN a ELSE TakeDigit(f[i - 1], i - 1)]
  <2> HIDE DEF a
  <2> QED BY <1>1, <1>6, <1>7 DEF Follows
<1>9. drawn = [i \in 0 .. ValueSize |-> IF i = 0 THEN a ELSE TakeDigit(drawn[i - 1], i - 1)]
  BY <1>8
<1> HIDE DEF drawn
<1>10. drawn[0] = a /\ \A i \in 1 .. ValueSize : drawn[i] = TakeDigit(drawn[i - 1], i - 1)
  <2> HIDE DEF a
  <2> QED BY <1>1, <1>9
<1>11. drawn \in [0 .. ValueSize -> Drawn]
  <2> DEFINE T == {i \in 0 .. ValueSize : drawn[i] \in Drawn}
  <2>1. 0 \in T
    BY <1>1, <1>3, <1>10
  <2>2. ASSUME NEW i \in 1 .. ValueSize, i - 1 \in T  PROVE i \in T
    BY <1>4, <1>10, <2>2
  <2>3. \A i \in 0 .. ValueSize : i \in T
    <3> HIDE DEF T
    <3> QED BY <1>1, <2>1, <2>2, UpTo
  <2> HIDE DEF a
  <2>4. \A i \in 0 .. ValueSize : drawn[i] \in Drawn
    BY <2>3
  <2> QED BY <1>9, <2>4
<1> QED BY <1>2, <1>10, <1>11 DEF Draws

(* What one draw does: the list stays a permutation, the digit drawn goes  *)
(* to the end of what is left, and what is behind that is left alone.      *)
OneDraw(f, i) ==
  LET left == NumbersCount - i + 1
      pos  == f[i - 1].rest % left
  IN  /\ left \in Nat \ {0} /\ left - 1 \in Digit
      /\ pos \in 0 .. left - 1 /\ pos \in Digit
      /\ f[i].rest \in Nat /\ f[i - 1].rest \in Nat
      /\ f[i - 1].rest = left * f[i].rest + pos
      /\ f[i].value = Append(f[i - 1].value, f[i - 1].uniq[pos])
      /\ f[i].uniq = [f[i - 1].uniq EXCEPT ![pos] = f[i - 1].uniq[left - 1],
                                          ![left - 1] = f[i - 1].uniq[pos]]
      /\ f[i].uniq[left - 1] = f[i - 1].uniq[pos]
      /\ \A a \in Digit : a >= left => f[i].uniq[a] = f[i - 1].uniq[a]
      /\ \A a, b \in Digit : f[i].uniq[a] = f[i].uniq[b] => a = b

(* This is all it does to the list: no digit is lost, and the digits drawn *)
(* before stay where they are.                                             *)
LEMMA DrawIsSwap ==
  ASSUME NEW f, NEW offset \in Nat, Draws(f, offset), NEW i \in 1 .. ValueSize,
         \A a, b \in Digit : f[i - 1].uniq[a] = f[i - 1].uniq[b] => a = b
  PROVE  OneDraw(f, i)
<1> DEFINE left == NumbersCount - i + 1
           pos  == f[i - 1].rest % left
           d == f[i - 1]
           u == d.uniq
<1>1. ValueSize \in Nat /\ i - 1 \in 0 .. ValueSize - 1 /\ NumbersCount - (i - 1) = left
  BY RulesAssumption
<1>2. d \in Drawn /\ f[i] \in Drawn /\ f[i] = TakeDigit(d, i - 1)
  BY <1>1 DEF Draws
<1>3. /\ left \in Nat \ {0} /\ left - 1 \in Digit
      /\ pos \in 0 .. left - 1 /\ pos \in Digit
  <2>1. left \in Nat \ {0} /\ pos \in 0 .. left - 1 /\ 0 .. left - 1 \subseteq Digit
    BY <1>1, <1>2, TakeDigitType
  <2> HIDE DEF left, pos
  <2> QED BY <2>1
<1>4. d.rest \in Nat /\ f[i].rest \in Nat /\ u \in [Digit -> Digit]
  BY <1>2 DEF Drawn
<1>5. /\ f[i].uniq = [u EXCEPT ![pos] = u[left - 1], ![left - 1] = u[pos]]
      /\ f[i].rest = d.rest \div left
      /\ f[i].value = Append(d.value, u[pos])
  BY <1>1, <1>2 DEF TakeDigit
<1>6. d.rest = left * f[i].rest + pos
  <2> HIDE DEF left
  <2> QED BY <1>3, <1>4, <1>5, Division
<1> HIDE DEF left, pos
<1>7. \A a \in Digit : f[i].uniq[a] = IF a = left - 1 THEN u[pos]
                                      ELSE IF a = pos THEN u[left - 1] ELSE u[a]
  BY <1>3, <1>4, <1>5
<1>8. /\ f[i].uniq[left - 1] = u[pos]
      /\ \A a \in Digit : a >= left => f[i].uniq[a] = u[a]
  BY <1>3, <1>7 DEF Digit
<1>9. \A a, b \in Digit : f[i].uniq[a] = f[i].uniq[b] => a = b
  BY <1>3, <1>7
<1> QED BY <1>3, <1>4, <1>5, <1>6, <1>8, <1>9 DEF left, pos, OneDraw

(* The digits drawn so far stand at the end of the list, in reverse.       *)
LEMMA DrawnDigits ==
  ASSUME NEW f, NEW offset \in Nat, Draws(f, offset)
  PROVE  \A i \in 0 .. ValueSize :
           /\ \A a, b \in Digit : f[i].uniq[a] = f[i].uniq[b] => a = b
           /\ f[i].value \in Seq(Digit) /\ Len(f[i].value) = i
           /\ \A k \in 1 .. i : f[i].value[k] = f[i].uniq[NumbersCount - k]
<1> DEFINE P(i) == /\ \A a, b \in Digit : f[i].uniq[a] = f[i].uniq[b] => a = b
                   /\ f[i].value \in Seq(Digit) /\ Len(f[i].value) = i
                   /\ \A k \in 1 .. i : f[i].value[k] = f[i].uniq[NumbersCount - k]
           T == {i \in 0 .. ValueSize : P(i)}
<1>1. ValueSize \in Nat /\ NumbersCount \in Nat /\ ValueSize <= NumbersCount
  BY RulesAssumption
<1>2. 0 \in T
  BY <1>1 DEF Draws
<1>3. ASSUME NEW i \in 1 .. ValueSize, i - 1 \in T  PROVE i \in T
  <2> DEFINE left == NumbersCount - i + 1
             pos  == f[i - 1].rest % left
             u    == f[i - 1].uniq
             w    == f[i - 1].value
  <2>0. P(i - 1)
    BY <1>3
  <2>1. /\ left \in Nat \ {0} /\ pos \in Digit
        /\ f[i].value = Append(w, u[pos])
        /\ f[i].uniq[left - 1] = u[pos]
        /\ \A a \in Digit : a >= left => f[i].uniq[a] = u[a]
        /\ \A a, b \in Digit : f[i].uniq[a] = f[i].uniq[b] => a = b
    <3>1. OneDraw(f, i)
      <4> HIDE DEF T
      <4> QED BY <2>0, DrawIsSwap
    <3> QED BY <3>1 DEF OneDraw
  <2>2. f[i].value \in Seq(Digit) /\ w \in Seq(Digit) /\ Len(w) = i - 1
    BY <1>1, <2>0 DEF Draws, Drawn
  <2> HIDE DEF pos
  <2>3. Len(f[i].value) = i
    BY <2>1, <2>2
  <2>4. ASSUME NEW k \in 1 .. i  PROVE f[i].value[k] = f[i].uniq[NumbersCount - k]
    <3>1. CASE k = i
      <4>1. NumbersCount - k = left - 1
        BY <1>1, <3>1
      <4>2. Append(w, u[pos])[i] = u[pos]
        BY <2>2
      <4> QED  BY <2>1, <3>1, <4>1, <4>2
    <3>2. CASE k # i
      <4>1. k \in 1 .. i - 1 /\ f[i].value[k] = w[k]
        BY <2>1, <2>2, <3>2
      <4>2. w[k] = u[NumbersCount - k]
        BY <2>0, <4>1
      <4>3. NumbersCount - k \in Digit /\ NumbersCount - k >= left
        BY <1>1, <4>1 DEF Digit
      <4> QED BY <2>1, <4>1, <4>2, <4>3
    <3> QED BY <3>1, <3>2
  <2>5. i \in 0 .. ValueSize
    BY <1>1
  <2> HIDE DEF left, u, w
  <2> QED BY <2>1, <2>2, <2>3, <2>4, <2>5
<1> HIDE DEF T
<1>4. \A i \in 0 .. ValueSize : i \in T
  BY <1>1, <1>2, <1>3, UpTo
<1> QED BY <1>4 DEF T

(* No digit is drawn twice.                                                *)
LEMMA DrawnValue ==
  ASSUME NEW f, NEW offset \in Nat, Draws(f, offset)
  PROVE  f[ValueSize].value \in Value
<1> DEFINE v == f[ValueSize].value
           u == f[ValueSize].uniq
<1>1. ValueSize \in Nat /\ NumbersCount \in Nat /\ ValueSize <= NumbersCount
  BY RulesAssumption
<1>2. /\ \A a, b \in Digit : u[a] = u[b] => a = b
      /\ v \in Seq(Digit) /\ Len(v) = ValueSize
      /\ \A k \in 1 .. ValueSize : v[k] = u[NumbersCount - k]
  BY <1>1, DrawnDigits
<1> HIDE DEF v, u
<1>3. v \in [Position -> Digit]
  BY <1>2 DEF Position
<1>4. \A i \in Position : NumbersCount - i \in Digit /\ v[i] = u[NumbersCount - i]
  BY <1>1, <1>2 DEF Position, Digit
<1>5. ASSUME NEW i \in Position, NEW j \in Position, v[i] = v[j]  PROVE i = j
  <2>1. NumbersCount - i = NumbersCount - j
    BY <1>2, <1>4, <1>5
  <2> QED BY <1>1, <2>1 DEF Position
<1>6. v \in Value
  BY <1>3, <1>5, ValuesAreInjections
<1> QED BY <1>6 DEF v

(* The draws of one value are always at the same places of the list.       *)
LEMMA SameDraws ==
  ASSUME NEW f, NEW g, NEW m \in Nat, NEW n \in Nat, Draws(f, m), Draws(g, n),
         f[ValueSize].value = g[ValueSize].value
  PROVE  \A i \in 1 .. ValueSize :
           f[i - 1].rest % (NumbersCount - i + 1) = g[i - 1].rest % (NumbersCount - i + 1)
<1>1. ValueSize \in Nat
  BY RulesAssumption
<1> DEFINE S == {j \in 0 .. ValueSize : f[ValueSize - j].value = g[ValueSize - j].value}
<1>2. 0 \in S
  BY <1>1
<1>3. ASSUME NEW j \in 1 .. ValueSize, j - 1 \in S  PROVE j \in S
  <2> DEFINE i == ValueSize - (j - 1)
  <2>1. i \in 1 .. ValueSize /\ ValueSize - j = i - 1 /\ i - 1 \in 0 .. ValueSize
    BY <1>1
  <2>2. f[i].value = g[i].value
    BY <1>3
  <2> HIDE DEF i
  <2>3. /\ f[i - 1].value \in Seq(Digit) /\ g[i - 1].value \in Seq(Digit)
        /\ \E d \in Digit : f[i].value = Append(f[i - 1].value, d)
        /\ \E d \in Digit : g[i].value = Append(g[i - 1].value, d)
    <3>1. /\ f[i - 1].value \in Seq(Digit) /\ f[i - 1].uniq \in [Digit -> Digit]
          /\ g[i - 1].value \in Seq(Digit) /\ g[i - 1].uniq \in [Digit -> Digit]
      BY <2>1 DEF Draws, Drawn
    <3>2. /\ \A a, b \in Digit : f[i - 1].uniq[a] = f[i - 1].uniq[b] => a = b
          /\ \A a, b \in Digit : g[i - 1].uniq[a] = g[i - 1].uniq[b] => a = b
      BY <2>1, DrawnDigits
    <3>3. \E p \in Digit : f[i].value = Append(f[i - 1].value, f[i - 1].uniq[p])
      <4>1. OneDraw(f, i)
        BY <2>1, <3>2, DrawIsSwap
      <4> QED BY <4>1 DEF OneDraw
    <3>4. \E p \in Digit : g[i].value = Append(g[i - 1].value, g[i - 1].uniq[p])
      <4>1. OneDraw(g, i)
        BY <2>1, <3>2, DrawIsSwap
      <4> QED BY <4>1 DEF OneDraw
    <3> QED BY <3>1, <3>3, <3>4
  <2>4. f[i - 1].value = g[i - 1].value
    <3> DEFINE x == f[i - 1].value
               y == g[i - 1].value
    <3>1. PICK d \in Digit, e \in Digit : Append(x, d) = Append(y, e)
      BY <2>2, <2>3
    <3>2. x \in Seq(Digit) /\ y \in Seq(Digit)
      BY <2>3
    <3> HIDE DEF x, y
    <3>3. x = y
      <4>1. Len(x) + 1 = Len(y) + 1
        BY <3>1, <3>2
      <4>2. Len(x) \in Nat /\ Len(y) \in Nat
        BY <3>2
      <4>3. \A k \in 1 .. Len(x) : x[k] = Append(x, d)[k] /\ y[k] = Append(y, e)[k]
        BY <3>2, <4>1, <4>2
      <4> QED BY <3>1, <3>2, <4>1, <4>2, <4>3
    <3> QED BY <3>3 DEF x, y
  <2> QED BY <2>1, <2>4
<1>4. \A i \in 0 .. ValueSize : f[i].value = g[i].value
  <2>1. \A j \in 0 .. ValueSize : j \in S
    <3> HIDE DEF S
    <3> QED BY <1>1, <1>2, <1>3, UpTo
  <2> TAKE i \in 0 .. ValueSize
  <2>2. ValueSize - i \in S /\ ValueSize - (ValueSize - i) = i
    BY <1>1, <2>1
  <2> QED BY <2>2
<1> HIDE DEF S
<1> DEFINE T == {i \in 0 .. ValueSize : f[i].uniq = g[i].uniq}
<1>5. ASSUME NEW i \in 1 .. ValueSize, f[i - 1].uniq = g[i - 1].uniq
      PROVE  /\ f[i - 1].rest % (NumbersCount - i + 1) = g[i - 1].rest % (NumbersCount - i + 1)
             /\ f[i].uniq = g[i].uniq
  <2> DEFINE left == NumbersCount - i + 1
             p == f[i - 1].rest % left
             q == g[i - 1].rest % left
             u == f[i - 1].uniq
             x == f[i - 1].value
  <2>1. i - 1 \in 0 .. ValueSize /\ i \in 0 .. ValueSize
    BY <1>1
  <2>2. /\ \A a, b \in Digit : f[i - 1].uniq[a] = f[i - 1].uniq[b] => a = b
        /\ \A a, b \in Digit : g[i - 1].uniq[a] = g[i - 1].uniq[b] => a = b
    BY <2>1, DrawnDigits
  <2>3. /\ p \in Digit /\ f[i].value = Append(x, u[p])
        /\ f[i].uniq = [u EXCEPT ![p] = u[left - 1], ![left - 1] = u[p]]
    <3>1. OneDraw(f, i)
      BY <2>2, DrawIsSwap
    <3> QED BY <3>1 DEF OneDraw
  <2>4. /\ q \in Digit /\ g[i].value = Append(x, u[q])
        /\ g[i].uniq = [u EXCEPT ![q] = u[left - 1], ![left - 1] = u[q]]
    <3>1. OneDraw(g, i)
      BY <2>2, DrawIsSwap
    <3>2. /\ q \in Digit /\ g[i].value = Append(g[i - 1].value, g[i - 1].uniq[q])
          /\ g[i].uniq = [g[i - 1].uniq EXCEPT ![q] = g[i - 1].uniq[left - 1],
                                              ![left - 1] = g[i - 1].uniq[q]]
      BY <3>1 DEF OneDraw
    <3>3. g[i - 1].value = x /\ g[i - 1].uniq = u
      BY <1>4, <1>5, <2>1
    <3> HIDE DEF q, x, u, left
    <3> QED BY <3>2, <3>3
  <2>5. x \in Seq(Digit)
    BY <2>1 DEF Draws, Drawn
  <2>6. Append(x, u[p]) = Append(x, u[q])
    BY <1>4, <2>1, <2>3, <2>4
  <2> HIDE DEF x, p, q, u, left
  <2>7. u[p] = u[q]
    BY <2>5, <2>6
  <2>8. p = q
    BY <2>2, <2>3, <2>4, <2>7 DEF u
  <2> QED BY <2>3, <2>4, <2>8 DEF p, q, left
<1>6. 0 \in T
  BY <1>1 DEF Draws
<1>7. ASSUME NEW i \in 1 .. ValueSize, i - 1 \in T  PROVE i \in T
  BY <1>5, <1>7
<1>8. \A i \in 0 .. ValueSize : i \in T
  <2> HIDE DEF T
  <2> QED BY <1>1, <1>6, <1>7, UpTo
<1> TAKE i \in 1 .. ValueSize
<1>9. i - 1 \in T
  BY <1>1, <1>8
<1> QED BY <1>5, <1>9

(* Products of numbers, as the provers need them.                          *)
LEMMA Products ==
  /\ \A a, b, c \in Nat : a <= b => a * c <= b * c
  /\ \A a, b, c \in Nat : (a * b) * c = a * (c * b)
  /\ \A a, b \in Nat : a * b \in Nat
  /\ \A a, b \in Nat : a * b < b => a = 0
<1>1. \A a, b, c \in Nat : a <= b => a * c <= b * c
  OBVIOUS
<1>2. \A a, b, c \in Nat : (a * b) * c = a * (c * b)
  OBVIOUS
<1>3. \A a, b \in Nat : a * b \in Nat
  OBVIOUS
<1>4. ASSUME NEW a \in Nat, NEW b \in Nat, a * b < b  PROVE a = 0
  <2> SUFFICES ASSUME a # 0  PROVE FALSE
    OBVIOUS
  <2>1. 1 <= a /\ 1 * b = b
    OBVIOUS
  <2>2. 1 * b <= a * b
    BY <1>1, <2>1
  <2> QED BY <1>3, <1>4, <2>1, <2>2
<1> QED BY <1>1, <1>2, <1>3, <1>4

(* AllValuesNumber is a product, one factor for each position.             *)
LEMMA AllValuesProduct ==
  \E n \in [0 .. ValueSize -> Nat] :
    /\ n[0] = 1
    /\ \A i \in 1 .. ValueSize : n[i] = n[i - 1] * (NumbersCount - i + 1)
    /\ AllValuesNumber = n[ValueSize]
<1> DEFINE n[i \in 0 .. ValueSize] == IF i = 0 THEN 1 ELSE n[i - 1] * (NumbersCount - i + 1)
           g == [i \in 1 .. ValueSize |-> [x \in Nat |-> x * (NumbersCount - i + 1)]]
<1>1. ValueSize \in Nat /\ NumbersCount \in Nat /\ ValueSize <= NumbersCount
  BY RulesAssumption
<1>2. \A i \in 1 .. ValueSize : \A x \in Nat : x * (NumbersCount - i + 1) \in Nat
  <2> TAKE i \in 1 .. ValueSize
  <2> TAKE x \in Nat
  <2>1. NumbersCount - i + 1 \in Nat
    BY <1>1
  <2> QED BY <2>1, Products
<1>3. g \in [1 .. ValueSize -> [Nat -> Nat]]
  BY <1>2
<1>4. PICK f \in [0 .. ValueSize -> Nat] : Follows(f, ValueSize, 1, g)
  <2> HIDE DEF g
  <2> QED BY <1>1, <1>3, RecursiveFunction
<1>5. \A i \in 1 .. ValueSize : f[i] = f[i - 1] * (NumbersCount - i + 1)
  <2> TAKE i \in 1 .. ValueSize
  <2>1. f[i - 1] \in Nat
    BY <1>1, <1>4
  <2> QED BY <1>4, <2>1 DEF Follows
<1>6. f = [i \in 0 .. ValueSize |-> IF i = 0 THEN 1 ELSE f[i - 1] * (NumbersCount - i + 1)]
  BY <1>1, <1>4, <1>5 DEF Follows
<1>7. n = [i \in 0 .. ValueSize |-> IF i = 0 THEN 1 ELSE n[i - 1] * (NumbersCount - i + 1)]
  BY <1>6
<1>8. AllValuesNumber = n[ValueSize]
  BY DEF AllValuesNumber
<1> HIDE DEF n
<1>9. n[0] = 1 /\ \A i \in 1 .. ValueSize : n[i] = n[i - 1] * (NumbersCount - i + 1)
  BY <1>1, <1>7
<1>10. n \in [0 .. ValueSize -> Nat]
  <2> DEFINE T == {i \in 0 .. ValueSize : n[i] \in Nat}
  <2>1. 0 \in T
    BY <1>1, <1>9
  <2>2. ASSUME NEW i \in 1 .. ValueSize, i - 1 \in T  PROVE i \in T
    <3>1. n[i] = n[i - 1] * (NumbersCount - i + 1) /\ n[i - 1] \in Nat
      BY <1>9, <2>2
    <3>2. n[i - 1] * (NumbersCount - i + 1) \in Nat
      BY <1>2, <3>1
    <3> QED BY <1>1, <3>1, <3>2
  <2>3. \A i \in 0 .. ValueSize : i \in T
    <3> HIDE DEF T
    <3> QED BY <1>1, <2>1, <2>2, UpTo
  <2> QED BY <1>7, <2>3
<1> QED BY <1>8, <1>9, <1>10

(* Nothing is left of the random number when the last digit is drawn.      *)
LEMMA NothingLeft ==
  ASSUME NEW offset \in 0 .. AllValuesNumber - 1, NEW f, Draws(f, offset)
  PROVE  f[ValueSize].rest = 0
<1>1. ValueSize \in Nat /\ NumbersCount \in Nat /\ ValueSize <= NumbersCount
  BY RulesAssumption
<1>2. PICK n \in [0 .. ValueSize -> Nat] :
        /\ n[0] = 1
        /\ \A i \in 1 .. ValueSize : n[i] = n[i - 1] * (NumbersCount - i + 1)
        /\ AllValuesNumber = n[ValueSize]
  BY AllValuesProduct
<1>3. offset \in Nat /\ AllValuesNumber \in Nat /\ offset < AllValuesNumber
  BY <1>1, <1>2
<1> DEFINE T == {i \in 0 .. ValueSize : f[i].rest * n[i] <= offset}
<1>4. 0 \in T
  BY <1>1, <1>2, <1>3 DEF Draws
<1>5. ASSUME NEW i \in 1 .. ValueSize, i - 1 \in T  PROVE i \in T
  <2> DEFINE left == NumbersCount - i + 1
             r == f[i].rest
             s == f[i - 1].rest
             m == n[i - 1]
  <2>1. i - 1 \in 0 .. ValueSize /\ i \in 0 .. ValueSize
    BY <1>1
  <2>2. \A a, b \in Digit : f[i - 1].uniq[a] = f[i - 1].uniq[b] => a = b
    BY <1>3, <2>1, DrawnDigits
  <2>3. OneDraw(f, i)
    BY <1>3, <2>2, DrawIsSwap
  <2>4. r \in Nat /\ s \in Nat /\ left \in Nat /\ r * left <= s
    <3>1. /\ left \in Nat /\ r \in Nat /\ s \in Nat
          /\ \E pos \in 0 .. left - 1 : s = left * r + pos
      BY <2>3 DEF OneDraw
    <3> HIDE DEF left, r, s
    <3> QED BY <3>1
  <2>5. m \in Nat /\ n[i] = m * left /\ s * m <= offset
    BY <1>2, <1>5, <2>1
  <2> HIDE DEF left, r, s, m
  <2>6. r * left \in Nat /\ (r * left) * m <= s * m /\ (r * left) * m = r * (m * left)
    BY <2>4, <2>5, Products
  <2>7. r * (m * left) <= offset
    <3>1. r * (m * left) \in Nat /\ s * m \in Nat
      BY <2>4, <2>5, Products
    <3> QED BY <1>3, <2>5, <2>6, <3>1
  <2> QED BY <2>1, <2>5, <2>7 DEF r
<1>6. \A i \in 0 .. ValueSize : i \in T
  <2> HIDE DEF T
  <2> QED BY <1>1, <1>4, <1>5, UpTo
<1> DEFINE r == f[ValueSize].rest
<1>7. r \in Nat
  BY <1>1 DEF Draws, Drawn
<1>8. r * AllValuesNumber <= offset
  BY <1>1, <1>2, <1>6
<1> HIDE DEF r
<1>9. r * AllValuesNumber < AllValuesNumber
  BY <1>3, <1>7, <1>8, Products
<1>10. r = 0
  BY <1>3, <1>7, <1>9, Products
<1> QED BY <1>10 DEF r

(* GetRandomGameValue gives a valid value.                                 *)
LEMMA RandomValueIsValid ==
  ASSUME NEW offset \in 0 .. AllValuesNumber - 1
  PROVE  RandomGameValue(offset) \in Value
<1>1. offset \in Nat
  BY AllValuesProduct, RulesAssumption
<1>2. PICK f : Draws(f, offset) /\ RandomGameValue(offset) = f[ValueSize].value
  BY <1>1, DrawsOf
<1> QED BY <1>1, <1>2, DrawnValue

(* Two random numbers give two values: they are a numeral with a digit for *)
(* each draw, and the value tells where each draw was.                     *)
LEMMA RandomValueIsOnce ==
  ASSUME NEW m \in 0 .. AllValuesNumber - 1, NEW n \in 0 .. AllValuesNumber - 1,
         RandomGameValue(m) = RandomGameValue(n)
  PROVE  m = n
<1>1. m \in Nat /\ n \in Nat /\ ValueSize \in Nat
  BY AllValuesProduct, RulesAssumption
<1>2. PICK f : Draws(f, m) /\ RandomGameValue(m) = f[ValueSize].value
  BY <1>1, DrawsOf
<1>3. PICK g : Draws(g, n) /\ RandomGameValue(n) = g[ValueSize].value
  BY <1>1, DrawsOf
<1>4. \A i \in 1 .. ValueSize :
        f[i - 1].rest % (NumbersCount - i + 1) = g[i - 1].rest % (NumbersCount - i + 1)
  BY <1>1, <1>2, <1>3, SameDraws
<1> DEFINE T == {j \in 0 .. ValueSize : f[ValueSize - j].rest = g[ValueSize - j].rest}
<1>5. 0 \in T
  BY <1>1, <1>2, <1>3, NothingLeft
<1>6. ASSUME NEW j \in 1 .. ValueSize, j - 1 \in T  PROVE j \in T
  <2> DEFINE i == ValueSize - (j - 1)
  <2>1. i \in 1 .. ValueSize /\ ValueSize - j = i - 1 /\ i - 1 \in 0 .. ValueSize
    BY <1>1
  <2>2. f[i].rest = g[i].rest
    BY <1>6
  <2> HIDE DEF i
  <2>3. /\ \A a, b \in Digit : f[i - 1].uniq[a] = f[i - 1].uniq[b] => a = b
        /\ \A a, b \in Digit : g[i - 1].uniq[a] = g[i - 1].uniq[b] => a = b
    BY <1>1, <1>2, <1>3, <2>1, DrawnDigits
  <2>4. OneDraw(f, i) /\ OneDraw(g, i)
    BY <1>1, <1>2, <1>3, <2>1, <2>3, DrawIsSwap
  <2>5. f[i - 1].rest = g[i - 1].rest
    BY <1>4, <2>1, <2>2, <2>4 DEF OneDraw
  <2> QED BY <2>1, <2>5
<1>7. \A j \in 0 .. ValueSize : j \in T
  <2> HIDE DEF T
  <2> QED BY <1>1, <1>5, <1>6, UpTo
<1>8. f[0].rest = g[0].rest
  BY <1>1, <1>7
<1> QED BY <1>2, <1>3, <1>8 DEF Draws

-----------------------------------------------------------------------------
(* What STUPID concludes from a true result does not exclude the secret.   *)
LEMMA StupidKeepsSecret ==
  ASSUME NEW s \in Value, NEW S, S \subseteq Value, s \in S, NEW item,
         item.value \in Value, item.result = BullsAndCows(item.value, s)
  PROVE  StupidHandle(S, item) \subseteq S /\ s \in StupidHandle(S, item)
BY ResultFacts DEF StupidHandle, EraseForDigits, LeaveForDigits

(* A new process is good.                                                  *)
LEMMA InitCorrect == Init => IInv
<1> SUFFICES ASSUME Init  PROVE IInv
  OBVIOUS
<1>1. [d \in Digit |-> d] \in Coins
  BY DEF Coins, IsInjective
<1>2. TypeOK
  <2>1. brain \in Brain /\ coins \in Coins
    BY <1>1 DEF Init
  <2>2. history \in Seq([value : Value, result : Result]) /\ node \in Seq(Result)
    BY DEF Init
  <2>3. possible \subseteq Value /\ secret \in Value \cup {<<>>} /\ restored \in BOOLEAN
    BY DEF Init
  <2>4. state \in {"WAIT_A_NUMBER", "IN_PROGRESS", "FINISHED"}
    BY DEF Init
  <2> QED BY <2>1, <2>2, <2>3, <2>4 DEF TypeOK
<1> QED
  BY <1>2 DEF Init, IInv, GoodStart, GoodSecret, GoodResults, GoodEnd, GoodCandidates,
              GoodTree, NeverTwice, GuessesAgree, MayRepeat, Brain, Analytic

(* Init() of the process begins a good game anew.                          *)
LEMMA InitProcessKeeps == IInv /\ InitProcess => IInv'
<1> SUFFICES ASSUME IInv, InitProcess  PROVE IInv'
  OBVIOUS
<1> USE DEF IInv, InitProcess, FreshProcess
<1>1. TypeOK'
  <2>1. history' \in Seq([value : Value, result : Result]) /\ node' \in Seq(Result)
    OBVIOUS
  <2>2. possible' \subseteq Value
    OBVIOUS
  <2> QED BY <2>1, <2>2 DEF TypeOK
<1>2. GoodSecret' /\ GoodStart'
  BY DEF GoodSecret, GoodStart
<1>3. GoodResults' /\ GoodEnd' /\ GoodCandidates' /\ NeverTwice' /\ GuessesAgree'
  BY DEF GoodResults, GoodEnd, GoodCandidates, NeverTwice, GuessesAgree
<1>4. GoodTree'
  BY DEF GoodTree
<1> QED BY <1>1, <1>2, <1>3, <1>4

(* A secret that GetRandomGameValue has drawn keeps the process good.      *)
LEMMA SetTrueGameValueKeeps ==
  IInv /\ (\E offset \in 0 .. AllValuesNumber - 1 : SetTrueGameValue(RandomGameValue(offset)))
    => IInv'
<1> SUFFICES ASSUME IInv, NEW offset \in 0 .. AllValuesNumber - 1,
                    SetTrueGameValue(RandomGameValue(offset))
             PROVE  IInv'
  OBVIOUS
<1> USE DEF IInv, SetTrueGameValue
<1>1. secret' = RandomGameValue(offset) /\ secret' \in Value
  BY RandomValueIsValid
<1>2. secret' # <<>>
  <2>1. secret' \in [Position -> Digit] /\ 1 \in Position
    <3>1. 1 \in Position
      BY RulesAssumption DEF Position
    <3> QED BY <1>1, <3>1, ValuesAreInjections
  <2>2. DOMAIN secret' = Position /\ DOMAIN <<>> = {}
    BY <2>1
  <2> QED BY <2>1, <2>2
<1>3. TypeOK'
  BY <1>1 DEF TypeOK
<1>4. GoodSecret' /\ GoodStart'
  BY <1>1, <1>2 DEF GoodSecret, GoodStart
<1>5. history = <<>> /\ node = <<>> /\ ~restored
  BY DEF GoodStart
<1>6. GoodResults' /\ GoodEnd' /\ NeverTwice' /\ GuessesAgree'
  BY <1>5 DEF GoodResults, GoodEnd, NeverTwice, GuessesAgree
<1>7. GoodCandidates'
  BY <1>1, <1>5 DEF GoodCandidates, GoodStart
<1>8. GoodTree'
  BY <1>5 DEF GoodTree
<1> QED BY <1>3, <1>4, <1>6, <1>7, <1>8

(* A guess of a valid value, whoever makes it.                             *)
LEMMA GuessKeeps ==
  ASSUME IInv, CanMakeStep, NEW v \in Value, Append_(v), UNCHANGED <<brain, secret, restored>>,
         possible' \subseteq Value, coins' \in Coins, node' \in Seq(Result),
         ~MayRepeat => \A i \in 1 .. Len(history) : history[i].value # v
  PROVE  /\ secret \in Value
         /\ TypeOK' /\ GoodStart' /\ GoodSecret' /\ GoodResults' /\ GoodEnd' /\ NeverTwice'
         /\ Len(history') = Len(history) + 1 /\ Len(history) \in Nat
         /\ \A i \in 1 .. Len(history) : history'[i] = history[i]
         /\ history'[Len(history) + 1].value = v
         /\ \A i \in 1 .. Len(history) :
              history[i].value \in Value /\ history[i].value # secret
         /\ state' = "IN_PROGRESS" => v # secret
         /\ state' # "WAIT_A_NUMBER"
<1> DEFINE n == Len(history)
           item == [value |-> v, result |-> BullsAndCows(v, secret)]
<1>1. secret \in Value
  BY DEF IInv, TypeOK, GoodSecret, CanMakeStep
<1>2. item \in [value : Value, result : Result] /\ (IsWin(item.result) <=> v = secret)
  BY <1>1, ResultFacts
<1>3. history \in Seq([value : Value, result : Result])
  BY DEF IInv, TypeOK
<1>4. history' = Append(history, item)
      /\ state' = IF IsWin(item.result) THEN "FINISHED" ELSE "IN_PROGRESS"
  BY DEF Append_, CanMakeStep
<1> HIDE DEF item
<1>5. /\ n \in Nat /\ Len(history') = n + 1 /\ history'[n + 1] = item
      /\ \A i \in 1 .. n : history'[i] = history[i]
      /\ history' \in Seq([value : Value, result : Result])
  BY <1>2, <1>3, <1>4
<1>6. item.value = v /\ item.result = BullsAndCows(v, secret)
  BY DEF item
<1>7. \A i \in 1 .. n : history[i].value \in Value /\ history[i].result = BullsAndCows(history[i].value, secret)
  <2>1. \A i \in 1 .. n : history[i] \in [value : Value, result : Result]
    <3>1. \A S : \A h \in Seq(S) : \A i \in 1 .. Len(h) : h[i] \in S
      OBVIOUS
    <3> QED BY <1>3, <3>1
  <2>2. \A i \in 1 .. n : history[i].result = BullsAndCows(history[i].value, secret)
    BY DEF IInv, GoodResults
  <2> QED BY <2>1, <2>2
<1>8. \A i \in 1 .. n : ~IsWin(history[i].result)
  BY DEF IInv, GoodEnd, CanMakeStep
<1>9. \A i \in 1 .. n : history[i].value # secret
  BY <1>1, <1>7, <1>8, ResultFacts
<1>10. TypeOK'
  BY <1>4, <1>5 DEF IInv, TypeOK
<1>11. GoodStart' /\ GoodSecret'
  BY <1>4 DEF IInv, GoodStart, GoodSecret, CanMakeStep
<1>12. GoodResults'
  BY <1>5, <1>6, <1>7 DEF GoodResults
<1>13. GoodEnd'
  <2>1. history' # <<>>
    BY <1>5
  <2>2. \A i \in 1 .. n + 1 : IsWin(history'[i].result) <=> (state' = "FINISHED" /\ i = n + 1)
    BY <1>4, <1>5, <1>8
  <2> QED BY <1>5, <2>1, <2>2 DEF GoodEnd
<1>14. NeverTwice'
  <2> SUFFICES ASSUME ~MayRepeat, NEW i \in 1 .. n + 1, NEW j \in 1 .. n + 1, i # j
               PROVE  history'[i].value # history'[j].value
    BY <1>5 DEF NeverTwice, MayRepeat
  <2>1. \A k \in 1 .. n : history[k].value # v
    OBVIOUS
  <2>2. \A k, l \in 1 .. n : k # l => history[k].value # history[l].value
    BY DEF IInv, NeverTwice, MayRepeat
  <2> QED BY <1>5, <1>6, <2>1, <2>2
<1> QED
  BY <1>1, <1>2, <1>4, <1>5, <1>6, <1>7, <1>9, <1>10, <1>11, <1>12, <1>13, <1>14

(* A guess of an analytic brain: a candidate, which is then none any more. *)
LEMMA CandidateGuessKeeps ==
  ASSUME IInv, CanMakeStep, brain \in Analytic, NEW known, known \subseteq possible,
         secret \in known, NEW v \in known, Append_(v), possible' = known \ {v},
         UNCHANGED <<brain, secret, restored, coins, node>>
  PROVE  /\ TypeOK' /\ GoodStart' /\ GoodSecret' /\ GoodResults' /\ GoodEnd' /\ NeverTwice'
         /\ GoodCandidates' /\ GoodTree'
         /\ Len(history') = Len(history) + 1 /\ Len(history) \in Nat
         /\ \A i \in 1 .. Len(history) : history'[i] = history[i]
         /\ history'[Len(history) + 1].value = v
<1>1. /\ possible \subseteq Value /\ coins' \in Coins /\ node' \in Seq(Result)
      /\ state = "IN_PROGRESS"
  BY DEF IInv, TypeOK, CanMakeStep
<1>2. ~MayRepeat => \A i \in 1 .. Len(history) : history[i].value \notin possible
  BY <1>1 DEF IInv, GoodCandidates
<1>3. v \in Value /\ possible' \subseteq Value
  BY <1>1
<1>4. ~MayRepeat => \A i \in 1 .. Len(history) : history[i].value # v
  BY <1>2
<1>5. /\ TypeOK' /\ GoodStart' /\ GoodSecret' /\ GoodResults' /\ GoodEnd' /\ NeverTwice'
      /\ Len(history') = Len(history) + 1 /\ Len(history) \in Nat
      /\ \A i \in 1 .. Len(history) : history'[i] = history[i]
      /\ history'[Len(history) + 1].value = v
      /\ state' = "IN_PROGRESS" => v # secret
  BY <1>1, <1>3, <1>4, GuessKeeps
<1>6. GoodCandidates'
  <2>1. state' = "IN_PROGRESS" => secret \in possible'
    BY <1>5
  <2>2. ASSUME ~MayRepeat, NEW i \in 1 .. Len(history) + 1
        PROVE  history'[i].value \notin possible'
    BY <1>2, <1>5, <2>2
  <2> QED BY <1>5, <2>1, <2>2 DEF GoodCandidates, MayRepeat
<1>7. GoodTree'
  BY DEF GoodTree, Analytic
<1> QED BY <1>5, <1>6, <1>7

(* The entries of a history.                                               *)
LEMMA HistoryTyped ==
  ASSUME TypeOK
  PROVE  /\ Len(history) \in Nat
         /\ history # <<>> <=> Len(history) # 0
         /\ \A i \in 1 .. Len(history) : history[i].value \in Value /\ history[i].result \in Result
<1>1. history \in Seq([value : Value, result : Result])
  BY DEF TypeOK
<1>2. \A S : \A h \in Seq(S) : \A i \in 1 .. Len(h) : h[i] \in S
  OBVIOUS
<1>3. \A i \in 1 .. Len(history) : history[i] \in [value : Value, result : Result]
  BY <1>1, <1>2
<1>4. Len(history) \in Nat /\ (history # <<>> <=> Len(history) # 0)
  BY <1>1
<1> QED BY <1>3, <1>4

(* What holds of the candidates when a brain is asked for a guess.         *)
LEMMA SecretIsCandidate ==
  ASSUME IInv, CanMakeStep, brain \in Analytic
  PROVE  /\ secret \in Value /\ secret \in possible /\ possible \subseteq Value
         /\ Len(history) \in Nat
         /\ history # <<>> <=> Len(history) # 0
         /\ \A i \in 1 .. Len(history) :
              /\ history[i].value \in Value
              /\ history[i].result = BullsAndCows(history[i].value, secret)
<1>1. TypeOK /\ GoodResults /\ state = "IN_PROGRESS"
  BY DEF IInv, CanMakeStep
<1>2. secret \in possible /\ possible \subseteq Value
  BY <1>1 DEF IInv, GoodCandidates, TypeOK
<1> QED BY <1>1, <1>2, HistoryTyped DEF GoodResults

(* GuessesAgree is about SMART only.                                       *)
LEMMA AgreeOther ==
  ASSUME brain # "SMART", UNCHANGED brain
  PROVE  GuessesAgree'
BY DEF GuessesAgree

(* A guess of RANDOM keeps the process good.                               *)
LEMMA MakeStepRandomKeeps == IInv /\ MakeStepRandom => IInv'
<1> SUFFICES ASSUME IInv, MakeStepRandom  PROVE IInv'
  OBVIOUS
<1>1. CanMakeStep /\ brain = "RANDOM" /\ UNCHANGED <<brain, secret, restored, coins, node>>
  BY DEF MakeStepRandom
<1>2. brain \in Analytic
  BY <1>1 DEF Analytic
<1>3. PICK v \in possible : Append_(v) /\ possible' = possible \ {v}
  BY DEF MakeStepRandom
<1>4. secret \in possible
  BY <1>1, <1>2, SecretIsCandidate
<1>5. /\ TypeOK' /\ GoodStart' /\ GoodSecret' /\ GoodResults' /\ GoodEnd' /\ NeverTwice'
      /\ GoodCandidates' /\ GoodTree'
  BY <1>1, <1>2, <1>3, <1>4, CandidateGuessKeeps
<1>6. GuessesAgree'
  BY <1>1, AgreeOther
<1> QED BY <1>5, <1>6 DEF IInv

(* A guess of STUPID keeps the process good: what it drops by the last     *)
(* result is not the secret, and what it picks it drops.                   *)
LEMMA MakeStepStupidKeeps == IInv /\ MakeStepStupid => IInv'
<1> SUFFICES ASSUME IInv, MakeStepStupid  PROVE IInv'
  OBVIOUS
<1> DEFINE known  == IF history = <<>> THEN possible
                     ELSE StupidHandle(possible, LastOf(history))
           probes == IF Len(history) < 2 THEN FirstAndSecond(known, history) ELSE {}
           picks  == IF probes # {} THEN probes ELSE StupidBest(known, history)
<1>1. CanMakeStep /\ brain = "STUPID" /\ UNCHANGED <<brain, secret, restored, coins, node>>
  BY DEF MakeStepStupid
<1>2. brain \in Analytic
  BY <1>1 DEF Analytic
<1>3. PICK v \in picks : Append_(v) /\ possible' = known \ {v}
  BY DEF MakeStepStupid
<1>4. known \subseteq possible /\ secret \in known
  <2>1. CASE history = <<>>
    BY <1>1, <1>2, <2>1, SecretIsCandidate
  <2>2. CASE history # <<>>
    <3>1. /\ secret \in Value /\ secret \in possible /\ possible \subseteq Value
          /\ LastOf(history).value \in Value
          /\ LastOf(history).result = BullsAndCows(LastOf(history).value, secret)
      BY <1>1, <1>2, <2>2, SecretIsCandidate DEF LastOf
    <3> QED BY <2>2, <3>1, StupidKeepsSecret
  <2> QED BY <2>1, <2>2
<1>5. picks \subseteq known
  BY DEF FirstAndSecond, EraseForDigits, StupidBest
<1> HIDE DEF known, picks
<1>6. /\ TypeOK' /\ GoodStart' /\ GoodSecret' /\ GoodResults' /\ GoodEnd' /\ NeverTwice'
      /\ GoodCandidates' /\ GoodTree'
  BY <1>1, <1>2, <1>3, <1>4, <1>5, CandidateGuessKeeps
<1>7. GuessesAgree'
  BY <1>1, AgreeOther
<1> QED BY <1>6, <1>7 DEF IInv

(* A guess of SMART keeps the process good: once it no longer collects,    *)
(* what it picks agrees with all results.                                  *)
LEMMA MakeStepSmartKeeps == IInv /\ MakeStepSmart => IInv'
<1> SUFFICES ASSUME IInv, MakeStepSmart  PROVE IInv'
  OBVIOUS
<1> DEFINE known  == IF Collecting THEN possible ELSE SmartHandle(possible, history)
           probes == IF Collecting THEN FirstAndSecond(known, history) ELSE {}
           picks  == IF probes # {} THEN probes ELSE SmartBest(known)
           n == Len(history)
<1>1. CanMakeStep /\ brain = "SMART" /\ UNCHANGED <<brain, secret, restored, coins, node>>
  BY DEF MakeStepSmart
<1>2. brain \in Analytic
  BY <1>1 DEF Analytic
<1>3. PICK v \in picks : Append_(v) /\ possible' = known \ {v}
  BY DEF MakeStepSmart
<1>4. /\ secret \in Value /\ secret \in possible /\ possible \subseteq Value
      /\ n \in Nat /\ (history # <<>> <=> n # 0)
      /\ \A i \in 1 .. n : history[i].result = BullsAndCows(history[i].value, secret)
  BY <1>1, <1>2, SecretIsCandidate
<1>5. known \subseteq possible /\ secret \in known
  BY <1>4 DEF SmartHandle
<1>6. ~Collecting => \A w \in known : \A i \in 1 .. n :
                        BullsAndCows(history[i].value, w) = history[i].result
  BY DEF SmartHandle
<1>7. picks \subseteq known
  <2>1. FirstAndSecond(known, history) \subseteq known
    BY DEF FirstAndSecond, EraseForDigits
  <2>2. SmartBest(known) \subseteq known
    <3> HIDE DEF known
    <3> QED BY <1>4, <1>5, SmartBestIsOneOf
  <2> QED BY <2>1, <2>2
<1> HIDE DEF known, picks
<1>8. /\ TypeOK' /\ GoodStart' /\ GoodSecret' /\ GoodResults' /\ GoodEnd' /\ NeverTwice'
      /\ GoodCandidates' /\ GoodTree'
      /\ Len(history') = n + 1
      /\ \A i \in 1 .. n : history'[i] = history[i]
      /\ history'[n + 1].value = v
  BY <1>1, <1>2, <1>3, <1>5, <1>7, CandidateGuessKeeps
<1>9. GuessesAgree'
  <2> SUFFICES ASSUME NEW j \in 1 .. n + 1, j # 1,
                      ~(j = 2 /\ Total(history'[1].result) = ValueSize - 1),
                      NEW i \in 1 .. j - 1
               PROVE  BullsAndCows(history'[i].value, history'[j].value) = history'[i].result
    BY <1>8 DEF GuessesAgree
  <2>1. CASE j = n + 1
    <3>1. ~Collecting
      <4>1. n # 0 /\ history # <<>>
        BY <1>4, <2>1
      <4>2. n = 1 => history'[1] = history[1]
        BY <1>8
      <4> QED BY <2>1, <4>1, <4>2 DEF Collecting, LastOf
    <3> QED BY <1>3, <1>4, <1>6, <1>7, <1>8, <2>1, <3>1
  <2>2. CASE j # n + 1
    <3>1. j \in 1 .. n /\ i \in 1 .. n /\ 1 \in 1 .. n
      BY <1>4, <2>2
    <3>2. BullsAndCows(history[i].value, history[j].value) = history[i].result
      BY <1>1, <1>8, <3>1 DEF IInv, GuessesAgree
    <3> QED BY <1>8, <3>1, <3>2
  <2> QED BY <2>1, <2>2
<1> QED BY <1>8, <1>9 DEF IInv

(* The path of the results that a game of BEST has been told.              *)
LEMMA BestPath ==
  ASSUME IInv, brain = "BEST", state # "WAIT_A_NUMBER", NEW n \in 0 .. Len(history),
         \A i \in 1 .. n : ~IsWin(history[i].result),
         NEW path, path = [i \in 1 .. n |-> history[i].result]
  PROVE  /\ ToBack(coins, secret) \in Value
         /\ path \in [1 .. n -> Result] /\ path \in Seq(Result) /\ Len(path) = n
         /\ Takes(ToBack(coins, secret), path)
         /\ \A i \in 1 .. n : ToBack(coins, history[i].value) = TreeValue(SubSeq(path, 1, i - 1))
<1> DEFINE s == ToBack(coins, secret)
<1>1. TypeOK /\ secret \in Value /\ coins \in Coins /\ Len(history) \in Nat
  BY HistoryTyped DEF IInv, TypeOK, GoodSecret
<1>2. \A i \in 1 .. Len(history) :
        /\ history[i].value \in Value /\ history[i].result \in Result
        /\ history[i].result = BullsAndCows(history[i].value, secret)
  BY <1>1, HistoryTyped DEF IInv, GoodResults
<1>3. s \in Value
  BY <1>1, FlippedCoins
<1>4. path \in [1 .. n -> Result] /\ path \in Seq(Result) /\ Len(path) = n
  BY <1>1, <1>2
<1>5. \A i \in 1 .. n : SubSeq(path, 1, i - 1) = SubSeq(node, 1, i - 1)
  <2>1. node = [i \in 1 .. Len(history) - 1 |-> history[i].result]
    BY DEF IInv, GoodTree
  <2> TAKE i \in 1 .. n
  <2>2. \A k \in 1 .. i - 1 : k \in 1 .. n /\ k \in 1 .. Len(history) - 1 /\ path[k] = node[k]
    BY <1>1, <2>1
  <2>3. SubSeq(path, 1, i - 1) = [k \in 1 .. i - 1 |-> path[k]]
    BY <1>1, <1>4
  <2>4. SubSeq(node, 1, i - 1) = [k \in 1 .. i - 1 |-> node[k]]
    BY <1>1 DEF TypeOK
  <2> QED BY <2>2, <2>3, <2>4
<1>6. \A i \in 1 .. n : ToBack(coins, history[i].value) = TreeValue(SubSeq(path, 1, i - 1))
  <2> TAKE i \in 1 .. n
  <2>1. i \in 1 .. Len(history)
    BY <1>1
  <2>2. ToBack(coins, history[i].value) = TreeValue(SubSeq(node, 1, i - 1))
    BY <2>1 DEF IInv, GoodTree
  <2>3. SubSeq(path, 1, i - 1) = SubSeq(node, 1, i - 1)
    BY <1>5
  <2> QED BY ONLY <2>2, <2>3
<1>7. ASSUME NEW i \in 1 .. n
      PROVE  path[i] = BullsAndCows(TreeValue(SubSeq(path, 1, i - 1)), s)
  <2> DEFINE u == history[i].value
             t == ToBack(coins, u)
  <2>1. u \in Value /\ path[i] = BullsAndCows(u, secret)
    BY <1>1, <1>2
  <2>2. t \in Value
    BY <1>1, <2>1, FlippedCoins
  <2>3. ToFront(coins, t) = u
    BY <1>1, <2>1, FrontOfBack
  <2>4. BullsAndCows(u, secret) = BullsAndCows(t, s)
    BY <1>1, <2>2, <2>3, FlippedCoins
  <2> QED BY <1>6, <2>1, <2>4
<1>8. Takes(s, path)
  BY <1>4, <1>7 DEF Takes
<1> QED BY <1>3, <1>4, <1>6, <1>8

(* A guess of BEST keeps the process good: the node it steps to is the one *)
(* that the tree has the secret under, by TreeFileAssumption.              *)
LEMMA MakeStepBestKeeps == IInv /\ MakeStepBest => IInv'
<1> SUFFICES ASSUME IInv, MakeStepBest  PROVE IInv'
  OBVIOUS
<1> DEFINE n == Len(history)
           path == [i \in 1 .. n |-> history[i].result]
           s == ToBack(coins, secret)
           t == TreeValue(path)
           v == ToFront(coins, t)
<1>1. /\ CanMakeStep /\ brain = "BEST"
      /\ UNCHANGED <<brain, secret, possible, coins, restored>>
      /\ node' = IF history = <<>> THEN node ELSE Append(node, LastOf(history).result)
      /\ Append_(ToFront(coins, TreeValue(node')))
  BY DEF MakeStepBest
<1>2. /\ TypeOK /\ state = "IN_PROGRESS" /\ n \in 0 .. MaxGuesses - 1
      /\ n \in Nat /\ (history # <<>> <=> n # 0)
  BY <1>1, HistoryTyped, MaxGuessesAssumption DEF IInv, CanMakeStep
<1>3. \A i \in 1 .. n : ~IsWin(history[i].result)
  BY <1>2 DEF IInv, GoodEnd
<1>4. /\ s \in Value
      /\ path \in [1 .. n -> Result] /\ path \in Seq(Result) /\ Len(path) = n
      /\ Takes(s, path)
      /\ \A i \in 1 .. n : ToBack(coins, history[i].value) = TreeValue(SubSeq(path, 1, i - 1))
  <2>1. n \in 0 .. Len(history) /\ state # "WAIT_A_NUMBER"
    BY <1>2
  <2> HIDE DEF path
  <2>2. path = [i \in 1 .. n |-> history[i].result]
    BY DEF path
  <2> QED BY <1>1, <1>3, <2>1, <2>2, BestPath
<1>5. node' = path
  <2>1. node = [i \in 1 .. n - 1 |-> history[i].result] /\ node \in Seq(Result)
    BY <1>1, <1>2 DEF IInv, GoodTree, TypeOK
  <2>2. CASE n = 0
    BY <1>1, <1>2, <2>1, <2>2
  <2>3. CASE n # 0
    <3>1. node' = Append(node, history[n].result) /\ Len(node) = n - 1
      BY <1>1, <1>2, <2>1, <2>3 DEF LastOf
    <3>2. \A i \in 1 .. n : Append(node, history[n].result)[i] = path[i]
      BY <1>2, <2>1, <2>3, <3>1
    <3>3. Append(node, history[n].result) \in Seq(Result) /\ Len(Append(node, history[n].result)) = n
      BY <1>2, <1>4, <2>1, <2>3, <3>1
    <3>4. path \in [1 .. n -> Result]
      BY <1>4
    <3> HIDE DEF path
    <3>5. path = [i \in 1 .. n |-> path[i]]
      BY ONLY <3>4
    <3>6. Append(node, history[n].result) = [i \in 1 .. n |-> Append(node, history[n].result)[i]]
      BY <1>2, <3>3
    <3> QED BY <3>1, <3>2, <3>5, <3>6
  <2> QED BY <2>2, <2>3
<1> HIDE DEF path
<1>6. t \in Value /\ \A i \in 1 .. n : t # TreeValue(SubSeq(path, 1, i - 1))
  BY <1>2, <1>4, TreeFileAssumption
<1>7. /\ coins \in Coins /\ v \in Value /\ ToBack(coins, v) = t
      /\ possible' \subseteq Value /\ node' \in Seq(Result) /\ coins' \in Coins
  <2>1. coins \in Coins /\ secret \in Value /\ possible \subseteq Value
    BY <1>2 DEF IInv, TypeOK, GoodSecret
  <2> QED BY <1>1, <1>4, <1>5, <1>6, <2>1, FlippedCoins
<1>8. \A i \in 1 .. n : history[i].value # v
  BY <1>4, <1>6, <1>7
<1>9. Append_(v)
  BY <1>1, <1>5
<1> HIDE DEF v, t
<1>10. /\ TypeOK' /\ GoodStart' /\ GoodSecret' /\ GoodResults' /\ GoodEnd' /\ NeverTwice'
       /\ Len(history') = n + 1
       /\ \A i \in 1 .. n : history'[i] = history[i]
       /\ history'[n + 1].value = v
  BY <1>1, <1>7, <1>8, <1>9, GuessKeeps
<1>11. GoodCandidates' /\ GuessesAgree'
  BY <1>1 DEF GoodCandidates, GuessesAgree, Analytic
<1>12. GoodTree'
  <2>1. node' = [i \in 1 .. Len(history') - 1 |-> history'[i].result]
    BY <1>2, <1>5, <1>10 DEF path
  <2>2. ASSUME NEW i \in 1 .. n + 1
        PROVE  ToBack(coins, history'[i].value) = TreeValue(SubSeq(path, 1, i - 1))
    <3>1. CASE i \in 1 .. n
      BY <1>4, <1>10, <3>1
    <3>2. CASE i = n + 1
      <4>1. SubSeq(path, 1, i - 1) = path
        BY <1>2, <1>4, <3>2
      <4> QED BY <1>7, <1>10, <3>2, <4>1 DEF t
    <3> QED BY <1>2, <3>1, <3>2
  <2> QED BY <1>1, <1>5, <1>10, <2>1, <2>2 DEF GoodTree
<1> QED BY <1>10, <1>11, <1>12 DEF IInv

(* What is told again to a STUPID brain never excludes the secret.         *)
LEMMA RestoreStupidKeepsSecret ==
  ASSUME IInv, state # "WAIT_A_NUMBER", RestoreStupid
  PROVE  possible' \subseteq Value /\ secret \in possible'
<1> DEFINE n == Len(history)
           known[i \in 0 .. n] ==
             IF i = 0 THEN Value ELSE StupidHandle(known[i - 1], history[i])
           g == [i \in 1 .. n |-> [X \in SUBSET Value |-> StupidHandle(X, history[i])]]
<1>1. /\ n \in Nat /\ secret \in Value
      /\ \A i \in 1 .. n : /\ history[i].value \in Value
                           /\ history[i].result = BullsAndCows(history[i].value, secret)
  BY HistoryTyped DEF IInv, TypeOK, GoodSecret, GoodResults
<1>2. possible' = known[n]
  BY DEF RestoreStupid
<1>3. g \in [1 .. n -> [SUBSET Value -> SUBSET Value]]
  BY DEF StupidHandle, EraseForDigits, LeaveForDigits
<1>4. PICK f \in [0 .. n -> SUBSET Value] : Follows(f, n, Value, g)
  <2> HIDE DEF g
  <2> QED BY <1>1, <1>3, RecursiveFunction
<1>5. \A i \in 1 .. n : f[i] = StupidHandle(f[i - 1], history[i])
  <2> TAKE i \in 1 .. n
  <2> HIDE DEF n, g
  <2>1. f[i - 1] \in SUBSET Value
    BY <1>1, <1>4
  <2> USE DEF n, g
  <2> QED BY <1>4, <2>1 DEF Follows
<1>6. f = [i \in 0 .. n |-> IF i = 0 THEN Value ELSE StupidHandle(f[i - 1], history[i])]
  BY <1>1, <1>4, <1>5 DEF Follows
<1>7. known = [i \in 0 .. n |-> IF i = 0 THEN Value ELSE StupidHandle(known[i - 1], history[i])]
  BY <1>6
<1> HIDE DEF known
<1> DEFINE T == {i \in 0 .. n : known[i] \subseteq Value /\ secret \in known[i]}
<1>8. 0 \in T
  BY <1>1, <1>7
<1>9. ASSUME NEW i \in 1 .. n, i - 1 \in T  PROVE i \in T
  <2>1. known[i] = StupidHandle(known[i - 1], history[i]) /\ i \in 0 .. n
    BY <1>1, <1>7
  <2>2. known[i - 1] \subseteq Value /\ secret \in known[i - 1]
    BY <1>9
  <2>3. /\ StupidHandle(known[i - 1], history[i]) \subseteq known[i - 1]
        /\ secret \in StupidHandle(known[i - 1], history[i])
    BY <1>1, <2>2, StupidKeepsSecret
  <2> QED BY <2>1, <2>2, <2>3
<1>10. \A i \in 0 .. n : i \in T
  <2> HIDE DEF T, n
  <2> QED BY <1>1, <1>8, <1>9, UpTo
<1> QED BY <1>1, <1>2, <1>10

(* restoreProcess brings a good process back, from the history alone.      *)
LEMMA RestoreProcessKeeps == IInv /\ RestoreProcess => IInv'
<1> SUFFICES ASSUME IInv, RestoreProcess  PROVE IInv'
  OBVIOUS
<1> DEFINE n == Len(history)
<1>1. /\ state # "WAIT_A_NUMBER" /\ restored' /\ restored' \in BOOLEAN
      /\ UNCHANGED <<brain, secret, history>>
  BY DEF RestoreProcess
<1>2. /\ brain = "RANDOM" => RestoreRandom /\ UNCHANGED <<coins, node>>
      /\ brain = "STUPID" => RestoreStupid /\ UNCHANGED <<coins, node>>
      /\ brain = "SMART" => RestoreSmart /\ UNCHANGED <<coins, node>>
      /\ brain = "BEST" => RestoreBest /\ UNCHANGED possible
  BY DEF RestoreProcess
<1>3. /\ TypeOK /\ secret \in Value /\ n \in Nat /\ (history # <<>> <=> n # 0)
      /\ \A i \in 1 .. n : /\ history[i].value \in Value /\ history[i].result \in Result
                           /\ history[i].result = BullsAndCows(history[i].value, secret)
  BY <1>1, HistoryTyped DEF IInv, TypeOK, GoodSecret, GoodResults
<1>4. state' = state
  <2>1. state' = IF history # <<>> /\ IsWin(LastOf(history).result) THEN "FINISHED"
                 ELSE "IN_PROGRESS"
    BY DEF RestoreProcess
  <2>2. state = "FINISHED" => history # <<>> /\ IsWin(LastOf(history).result)
    BY <1>3 DEF IInv, GoodEnd, LastOf
  <2>3. state = "IN_PROGRESS" => ~(history # <<>> /\ IsWin(LastOf(history).result))
    BY <1>3 DEF IInv, GoodEnd, LastOf
  <2> QED BY <1>1, <1>3, <2>1, <2>2, <2>3 DEF TypeOK
<1>5. possible' \subseteq Value
  <2>1. brain = "STUPID" => possible' \subseteq Value
    BY <1>1, <1>2, RestoreStupidKeepsSecret
  <2> QED BY <1>2, <1>3, <2>1 DEF RestoreRandom, RestoreSmart, SmartHandle, TypeOK, Brain, Analytic
<1>6. coins' \in Coins /\ node' \in Seq(Result)
  <2>1. RestoredNode \in Seq(Result)
    BY <1>3 DEF RestoredNode
  <2> QED BY <1>2, <1>3, <2>1 DEF RestoreBest, TypeOK, Brain, Analytic
<1>7. TypeOK'
  BY <1>1, <1>3, <1>4, <1>5, <1>6 DEF TypeOK
<1>8. GoodStart' /\ GoodSecret' /\ GoodResults' /\ GoodEnd' /\ GuessesAgree'
  BY <1>1, <1>4 DEF IInv, GoodStart, GoodSecret, GoodResults, GoodEnd, GuessesAgree
<1>9. NeverTwice'
  BY <1>1 DEF IInv, NeverTwice
<1>10. GoodCandidates'
  <2> SUFFICES ASSUME brain \in Analytic, state = "IN_PROGRESS"
               PROVE  /\ secret \in possible'
                      /\ brain # "STUPID" => \A i \in 1 .. n : history[i].value \notin possible'
    BY <1>1, <1>4 DEF GoodCandidates, MayRepeat
  <2>1. \A i \in 1 .. n : ~IsWin(history[i].result)
    BY DEF IInv, GoodEnd
  <2>2. \A i \in 1 .. n : history[i].value # secret
    BY <1>3, <2>1, ResultFacts
  <2>3. CASE brain = "RANDOM"
    BY <1>2, <1>3, <2>2, <2>3 DEF RestoreRandom
  <2>4. CASE brain = "STUPID"
    BY <1>1, <1>2, <2>4, RestoreStupidKeepsSecret
  <2>5. CASE brain = "SMART"
    <3>1. possible' = SmartHandle(Value, history)
      BY <1>2, <2>5 DEF RestoreSmart
    <3>2. secret \in possible'
      BY <1>3, <3>1 DEF SmartHandle
    <3>3. ASSUME NEW i \in 1 .. n, history[i].value \in possible'  PROVE FALSE
      <4>1. BullsAndCows(history[i].value, history[i].value) = history[i].result
        BY <3>1, <3>3 DEF SmartHandle
      <4>2. IsWin(BullsAndCows(history[i].value, history[i].value))
        BY <1>3, ResultFacts
      <4> QED BY <2>1, <4>1, <4>2
    <3> QED BY <3>2, <3>3
  <2> QED BY <2>3, <2>4, <2>5 DEF Analytic
<1>11. GoodTree'
  BY <1>1, <1>2 DEF GoodTree, RestoreBest, RestoredNode
<1> QED BY <1>7, <1>8, <1>9, <1>10, <1>11 DEF IInv

(* Every step keeps the process good.                                      *)
LEMMA NextKeeps == IInv /\ [Next]_vars => IInv'
<1> SUFFICES ASSUME IInv, [Next]_vars  PROVE IInv'
  OBVIOUS
<1>1. CASE InitProcess
  BY <1>1, InitProcessKeeps
<1>2. CASE \E offset \in 0 .. AllValuesNumber - 1 : SetTrueGameValue(RandomGameValue(offset))
  BY <1>2, SetTrueGameValueKeeps
<1>3. CASE MakeStepRandom
  BY <1>3, MakeStepRandomKeeps
<1>4. CASE MakeStepStupid
  BY <1>4, MakeStepStupidKeeps
<1>5. CASE MakeStepSmart
  BY <1>5, MakeStepSmartKeeps
<1>6. CASE MakeStepBest
  BY <1>6, MakeStepBestKeeps
<1>7. CASE RestoreProcess
  BY <1>7, RestoreProcessKeeps
<1>8. CASE UNCHANGED vars
  BY <1>8 DEF vars, IInv, TypeOK, GoodStart, GoodSecret, GoodResults, GoodEnd, GoodCandidates,
              GoodTree, NeverTwice, GuessesAgree, MayRepeat
<1> QED BY <1>1, <1>2, <1>3, <1>4, <1>5, <1>6, <1>7, <1>8 DEF Next

(* IInv is an inductive invariant of a computer with any of the four       *)
(* brains, for every number of positions and digits.                       *)
THEOREM Inductive == Spec => []IInv
BY InitCorrect, NextKeeps, PTL DEF Spec

-----------------------------------------------------------------------------
(* In a good process the secret has not been dropped.                      *)
LEMMA SecretFromInvariant == IInv => SecretStaysPossible
<1> SUFFICES ASSUME IInv, state = "IN_PROGRESS"
             PROVE  /\ brain \in Analytic => secret \in possible
                    /\ brain = "BEST" =>
                         \A i \in 1 .. Len(history) :
                           BullsAndCows(TreeValue(SubSeq(node, 1, i - 1)), ToBack(coins, secret))
                             = history[i].result
  BY DEF SecretStaysPossible
<1>1. brain \in Analytic => secret \in possible
  BY DEF IInv, GoodCandidates
<1>2. ASSUME brain = "BEST", NEW i \in 1 .. Len(history)
      PROVE  BullsAndCows(TreeValue(SubSeq(node, 1, i - 1)), ToBack(coins, secret))
               = history[i].result
  <2> DEFINE u == history[i].value
             t == ToBack(coins, u)
  <2>1. coins \in Coins /\ secret \in Value /\ u \in Value
        /\ history[i].result = BullsAndCows(u, secret)
    BY HistoryTyped DEF IInv, TypeOK, GoodSecret, GoodResults
  <2>2. t \in Value /\ ToFront(coins, t) = u
    BY <2>1, FlippedCoins, FrontOfBack
  <2>3. BullsAndCows(u, secret) = BullsAndCows(t, ToBack(coins, secret))
    BY <2>1, <2>2, FlippedCoins
  <2>4. t = TreeValue(SubSeq(node, 1, i - 1))
    BY <1>2 DEF IInv, GoodTree
  <2> QED BY <2>1, <2>3, <2>4
<1> QED BY <1>1, <1>2

(* In a good process every result is true.                                 *)
LEMMA ResultsFromInvariant == IInv => ResultsAreTrue
<1> SUFFICES ASSUME IInv, NEW i \in 1 .. Len(history)
             PROVE  LET v == history[i].value
                        inPlace == {k \in Position : v[k] = secret[k]}
                    IN  history[i].result =
                          <<Cardinality(inPlace),
                            Cardinality(DigitsOf(v) \cap DigitsOf(secret)) - Cardinality(inPlace)>>
  BY DEF ResultsAreTrue
<1>1. state # "WAIT_A_NUMBER"
  BY DEF IInv, GoodStart
<1>2. /\ history[i].value \in Value /\ secret \in Value
      /\ history[i].result = BullsAndCows(history[i].value, secret)
  BY <1>1, HistoryTyped DEF IInv, TypeOK, GoodSecret, GoodResults
<1> QED BY <1>2, ResultIsTrue

(* In a good process the secret is one that is drawn from one random       *)
(* number.                                                                 *)
LEMMA OnceFromInvariant == IInv => EverySecretOnce
<1> SUFFICES ASSUME IInv, secret # <<>>
             PROVE  /\ secret \in Value
                    /\ Cardinality({o \in 0 .. AllValuesNumber - 1 :
                                      RandomGameValue(o) = secret}) = 1
  BY DEF EverySecretOnce
<1> DEFINE S == {o \in 0 .. AllValuesNumber - 1 : RandomGameValue(o) = secret}
<1>1. PICK m \in 0 .. AllValuesNumber - 1 : secret = RandomGameValue(m)
  BY DEF IInv, GoodSecret
<1>2. S = {m}
  BY <1>1, RandomValueIsOnce
<1>3. Cardinality(S) = 1
  BY <1>2, FS_Singleton
<1> QED BY <1>1, <1>3, RandomValueIsValid

(* No brain drops the secret before it has been guessed, so none runs out  *)
(* of values: the assert of the brains cannot fail.                        *)
THEOREM SecretCorrect == Spec => []SecretStaysPossible
BY Inductive, SecretFromInvariant, PTL

(* No brain guesses a value twice, but for a restored STUPID one.          *)
THEOREM NeverTwiceCorrect == Spec => []NeverTwice
<1>1. IInv => NeverTwice
  BY DEF IInv
<1> QED BY <1>1, Inductive, PTL

(* SMART, once it has collected, only guesses what agrees with all         *)
(* results.                                                                *)
THEOREM GuessesCorrect == Spec => []GuessesAgree
<1>1. IInv => GuessesAgree
  BY DEF IInv
<1> QED BY <1>1, Inductive, PTL

(* Every result is what the rules of the game say.                         *)
THEOREM ResultsCorrect == Spec => []ResultsAreTrue
BY Inductive, ResultsFromInvariant, PTL

(* Every secret is a valid value that exactly one random number gives.     *)
THEOREM SecretsOnceCorrect == Spec => []EverySecretOnce
BY Inductive, OnceFromInvariant, PTL

-----------------------------------------------------------------------------
(* There are only so many values.                                          *)
LEMMA ValuesAreFinite == IsFiniteSet(Value)
<1> DEFINE G == SUBSET (Position \X Digit)
           graph == [v \in Value |-> {<<i, v[i]>> : i \in Position}]
<1>1. IsFiniteSet(G)
  BY PositionsAndDigits, FS_Product, FS_SUBSET
<1>2. \A v \in Value : v \in [Position -> Digit]
  BY ValuesAreInjections
<1>3. graph \in [Value -> G]
  BY <1>2
<1>4. ASSUME NEW v \in Value, NEW w \in Value, graph[v] = graph[w]  PROVE v = w
  <2>1. \A i \in Position : v[i] = w[i]
    <3> TAKE i \in Position
    <3>1. <<i, v[i]>> \in graph[v]
      OBVIOUS
    <3>2. PICK j \in Position : <<i, v[i]>> = <<j, w[j]>>
      BY <1>4, <3>1
    <3> QED BY <3>2
  <2> QED BY <1>2, <2>1
<1> HIDE DEF graph, G
<1>5. graph \in Injection(Value, G)
  BY <1>3, <1>4 DEF Injection, IsInjective
<1> QED BY <1>1, <1>5, FS_Injection

(* A game in progress has left at least one value unguessed, the secret.   *)
LEMMA BoundFromInvariant ==
  ASSUME IInv, ~MayRepeat
  PROVE  /\ Len(history) <= Cardinality(Value)
         /\ state = "IN_PROGRESS" => Len(history) < Cardinality(Value)
<1> DEFINE n == Len(history)
           S == {history[i].value : i \in 1 .. n}
           h == [i \in 1 .. n |-> history[i].value]
<1>1. /\ TypeOK /\ n \in Nat
      /\ \A i \in 1 .. n : history[i].value \in Value
  BY HistoryTyped DEF IInv
<1>2. S \subseteq Value
  BY <1>1
<1>3. \A i, j \in 1 .. n : i # j => history[i].value # history[j].value
  BY DEF IInv, NeverTwice, MayRepeat
<1>4. ExistsBijection(1 .. n, S)
  <2>1. h \in Bijection(1 .. n, S)
    BY <1>3 DEF Bijection, Injection, Surjection, IsInjective
  <2> QED BY <2>1 DEF ExistsBijection
<1>5. IsFiniteSet(S) /\ Cardinality(S) = n
  <2>1. IsFiniteSet(1 .. n) /\ Cardinality(1 .. n) = n
    BY <1>1, FS_Interval
  <2> HIDE DEF S
  <2> QED BY <1>4, <2>1, FS_Bijection
<1>6. n <= Cardinality(Value) /\ Cardinality(Value) \in Nat
  <2> HIDE DEF S
  <2> QED BY <1>2, <1>5, ValuesAreFinite, FS_Subset, FS_CardinalityType
<1>7. ASSUME state = "IN_PROGRESS"  PROVE n # Cardinality(Value)
  <2>1. \A i \in 1 .. n : ~IsWin(history[i].result)
    BY <1>7 DEF IInv, GoodEnd
  <2>2. secret \in Value /\ \A i \in 1 .. n : history[i].value # secret
    BY <1>1, <1>7, <2>1, ResultFacts DEF IInv, TypeOK, GoodSecret, GoodResults
  <2>3. secret \notin S
    BY <2>2
  <2> HIDE DEF S
  <2> QED BY <1>2, <1>5, <2>2, <2>3, ValuesAreFinite, FS_Subset
<1> QED BY <1>1, <1>6, <1>7

(* No game of a computer lasts longer than there are values, and its last  *)
(* possible guess hits: the GuessBound of GameOps.  A restored STUPID      *)
(* computer, which may repeat itself, is left out.                         *)
THEOREM GuessesAreBounded ==
  Spec => [](~MayRepeat => /\ Len(history) <= Cardinality(Value)
                           /\ state = "IN_PROGRESS" => Len(history) < Cardinality(Value))
<1>1. IInv => (~MayRepeat =>
                 /\ Len(history) <= Cardinality(Value)
                 /\ state = "IN_PROGRESS" => Len(history) < Cardinality(Value))
  BY BoundFromInvariant
<1> QED BY <1>1, Inductive, PTL
=============================================================================
