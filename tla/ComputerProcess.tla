--------------------------- MODULE ComputerProcess ---------------------------
(***************************************************************************)
(* One computer: a TStandartPlayerProcess with one of the four brains of   *)
(* standart_brain.cpp, through guesses, new games and restores.            *)
(*                                                                         *)
(* A random number of the code is a choice here.  m_possibleValues is      *)
(* always sorted, so it is a set; m_digitsPriority is computed from the    *)
(* history each time it is used.  The decision tree is what the generator  *)
(* makes of these few digits; a node is the results that lead to it.       *)
(***************************************************************************)
EXTENDS DecisionTree

CONSTANT MaxGuesses      (* guesses in one game, bounds a run              *)

ASSUME MaxGuessesAssumption == MaxGuesses \in Nat

VARIABLES
  brain,      (* TGameBrain                                                *)
  state,      (* m_playerState                                             *)
  secret,     (* m_trueGameValue, <<>> for none                            *)
  history,    (* m_historyList: guesses with their results                 *)
  possible,   (* m_possibleValues of the analytic brains                   *)
  coins,      (* m_digitCoins of the tree brain: digit to tree digit       *)
  node,       (* m_gameNode of the tree brain                              *)
  restored    (* the brain has been restored in this game                  *)

vars == <<brain, state, secret, history, possible, coins, node, restored>>

Analytic == {"RANDOM", "STUPID", "SMART"}
Brain    == Analytic \cup {"BEST"}
Coins    == {f \in [Digit -> Digit] : IsInjective(f)}

TypeOK ==
  /\ brain \in Brain
  /\ state \in {"WAIT_A_NUMBER", "IN_PROGRESS", "FINISHED"}
  /\ secret \in Value \cup {<<>>}
  /\ history \in Seq([value : Value, result : Result])
  /\ possible \subseteq Value
  /\ coins \in Coins
  /\ node \in Seq(Result)
  /\ restored \in BOOLEAN

LastOf(h) == h[Len(h)]

-----------------------------------------------------------------------------
(* What the analytic brains drop.                                          *)
Sharing(v, w) == DigitsOf(v) \cap DigitsOf(w) # {}

EraseForDigits(values, guess) == {v \in values : ~Sharing(v, guess)}
LeaveForDigits(values, guess) == {v \in values : DigitsOf(guess) \subseteq DigitsOf(v)}

(* Slip: only the bulls are looked at.                                     *)
StupidHandleBulls(values, item) ==
  IF item.result[1] = 0 THEN EraseForDigits(values, item.value)
  ELSE IF Total(item.result) = ValueSize THEN LeaveForDigits(values, item.value)
  ELSE values

StupidHandle(values, item) ==
  IF Total(item.result) = 0 THEN EraseForDigits(values, item.value)
  ELSE IF Total(item.result) = ValueSize THEN LeaveForDigits(values, item.value)
  ELSE values

(* Slip: the guess as the true value, for the first result only.           *)
SmartHandleFirst(values, h) ==
  {v \in values : h = <<>> \/ BullsAndCows(h[1].value, v) = h[1].result}

SmartHandle(values, h) ==
  {v \in values :
     \A i \in 1 .. Len(h) : BullsAndCows(h[i].value, v) = h[i].result}

(* chooseFirstAndSecondGameValueIndex; no candidate stands for -1.         *)
FirstAndSecond(values, h) ==
  IF h = <<>> THEN values ELSE EraseForDigits(values, LastOf(h).value)

(* calcPriority, scaled to integers.  A digit that was never guessed has   *)
(* more than all others together.                                          *)
Unseen == 1000000

Priority(h, d) ==
  LET items == {i \in 1 .. Len(h) : d \in DigitsOf(h[i].value)}
      f     == Cardinality(items)
      sum   == FoldSet(LAMBDA i, n : n + Total(h[i].result), 0, items)
      scale == FoldSet(LAMBDA i, n : n * i * i, 1, 1 .. MaxGuesses)
  IN  IF f = 0 THEN Unseen ELSE (sum * scale) \div (f * f)

PriorityOf(h, v) ==
  FoldSet(LAMBDA i, n : n + Priority(h, v[i]), 0, Position)

StupidBest(values, h) ==
  {v \in values : \A w \in values : PriorityOf(h, w) <= PriorityOf(h, v)}

(* The digit that most candidates have at a position, and how many have it *)
(* (the greater digit if two are equal): what the priority queue gives     *)
(* first for the position.                                                 *)
Having(values, i, d) == {v \in values : v[i] = d}
Top(values, i) ==
  CHOOSE d \in Digit : \A e \in Digit :
    LET n == Cardinality(Having(values, i, d))
        m == Cardinality(Having(values, i, e))
    IN  n > m \/ (n = m /\ d >= e)

(* Positions in the order of the queue.                                    *)
PositionOrder(values) ==
  LET count(i) == Cardinality(Having(values, i, Top(values, i)))
  IN  SetToSortSeq(Position,
        LAMBDA i, j : count(i) > count(j) \/ (count(i) = count(j) /\ i > j))

(* Candidates are narrowed by one position's digit after the other; if     *)
(* none is left, the first of those before is taken.                       *)
SmartBest(values) ==
  LET order == PositionOrder(values)
      left[k \in 0 .. ValueSize] ==
        IF k = 0 THEN values
        ELSE Having(left[k - 1], order[k], Top(values, order[k]))
      full == {k \in 0 .. ValueSize : left[k] # {}}
      deep == CHOOSE k \in full : \A m \in full : m <= k
  IN  IF deep = ValueSize THEN left[ValueSize] ELSE {First(left[deep])}

-----------------------------------------------------------------------------
(* bc.json, the tree of the generator; ChildsAt of a result that has no    *)
(* child is an error, of at().                                             *)
MainNode ==
  RecalcSteps([Node(FirstValue, 1, Cardinality(Value)) EXCEPT
                 !.childs = {[on |-> r, node |-> Branch(r, 0)] :
                               r \in ResultsOf(FirstValue, Value)}])

TreeValue(path) ==
  LET down[k \in 0 .. Len(path)] ==
        IF k = 0 THEN MainNode ELSE ChildsAt(down[k - 1], path[k])
  IN  down[Len(path)].value

(* flipValueCoins, back and front side.                                    *)
ToBack(c, v)  == [i \in Position |-> c[v[i]]]
ToFront(c, v) == [i \in Position |-> CHOOSE d \in Digit : c[d] = v[i]]

-----------------------------------------------------------------------------
(* Init() of the process and of its brain.                                 *)
FreshProcess ==
  /\ state' = "WAIT_A_NUMBER"
  /\ history' = <<>>
  /\ possible' = IF brain \in Analytic THEN Value ELSE {}
  /\ node' = <<>>
  /\ restored' = FALSE

Init ==
  /\ brain \in Brain
  /\ state = "WAIT_A_NUMBER"
  /\ secret = <<>>
  /\ history = <<>>
  /\ possible = IF brain \in Analytic THEN Value ELSE {}
  /\ coins \in IF brain = "BEST" THEN Coins ELSE {[d \in Digit |-> d]}
  /\ node = <<>>
  /\ restored = FALSE

InitProcess ==
  /\ state # "WAIT_A_NUMBER"
  /\ FreshProcess
  /\ UNCHANGED <<brain, secret, coins>>

(* The caller has drawn the secret with GetRandomGameValue.                *)
SetTrueGameValue(s) ==
  /\ state = "WAIT_A_NUMBER"
  /\ secret' = s
  /\ state' = "IN_PROGRESS"
  /\ UNCHANGED <<brain, history, possible, coins, node, restored>>

(* appendGameValue, of what the brain has predicted.                       *)
Append_(v) ==
  LET result == BullsAndCows(v, secret)
  IN  /\ history' = Append(history, [value |-> v, result |-> result])
      /\ state' = IF IsWin(result) THEN "FINISHED" ELSE state

CanMakeStep == state = "IN_PROGRESS" /\ Len(history) < MaxGuesses

MakeStepRandom ==
  /\ brain = "RANDOM" /\ CanMakeStep
  /\ \E v \in possible : Append_(v) /\ possible' = possible \ {v}
  /\ UNCHANGED <<brain, secret, coins, node, restored>>

(* Slip: the value stays a candidate.                                      *)
MakeStepStupidKeeping ==
  /\ brain = "STUPID" /\ CanMakeStep
  /\ LET known  == IF history = <<>> THEN possible
                   ELSE StupidHandle(possible, LastOf(history))
     IN  /\ \E v \in StupidBest(known, history) : Append_(v)
         /\ possible' = known
  /\ UNCHANGED <<brain, secret, coins, node, restored>>

MakeStepStupid ==
  /\ brain = "STUPID" /\ CanMakeStep
  /\ LET known  == IF history = <<>> THEN possible
                   ELSE StupidHandle(possible, LastOf(history))
         probes == IF Len(history) < 2 THEN FirstAndSecond(known, history) ELSE {}
         picks  == IF probes # {} THEN probes ELSE StupidBest(known, history)
     IN  \E v \in picks : Append_(v) /\ possible' = known \ {v}
  /\ UNCHANGED <<brain, secret, coins, node, restored>>

(* The second guess collects information, without a look at the first      *)
(* result, when that was one short of all digits.                          *)
Collecting ==
  \/ history = <<>>
  \/ Len(history) = 1 /\ Total(LastOf(history).result) = ValueSize - 1

MakeStepSmart ==
  /\ brain = "SMART" /\ CanMakeStep
  /\ LET known  == IF Collecting THEN possible ELSE SmartHandle(possible, history)
         probes == IF Collecting THEN FirstAndSecond(known, history) ELSE {}
         picks  == IF probes # {} THEN probes ELSE SmartBest(known)
     IN  \E v \in picks : Append_(v) /\ possible' = known \ {v}
  /\ UNCHANGED <<brain, secret, coins, node, restored>>

MakeStepBest ==
  /\ brain = "BEST" /\ CanMakeStep
  /\ node' = IF history = <<>> THEN node ELSE Append(node, LastOf(history).result)
  /\ Append_(ToFront(coins, TreeValue(node')))
  /\ UNCHANGED <<brain, secret, possible, coins, restored>>

-----------------------------------------------------------------------------
(* restoreFromHistory of each brain.                                       *)
RestoreRandom == possible' = Value \ {history[i].value : i \in 1 .. Len(history)}

RestoreStupid ==
  LET known[i \in 0 .. Len(history)] ==
        IF i = 0 THEN Value ELSE StupidHandle(known[i - 1], history[i])
  IN  possible' = known[Len(history)]

RestoreSmart == possible' = SmartHandle(Value, history)

(* The node before the last result, which makePredict goes on from.        *)
RestoredNode == [i \in 1 .. Len(history) - 1 |-> history[i].result]

(* The digits guessed get the tree's digits back, the others any of the    *)
(* rest.                                                                   *)
RestoreBest ==
  /\ node' = RestoredNode
  /\ coins' \in {c \in Coins : \A i \in 1 .. Len(history) :
       ToBack(c, history[i].value) = TreeValue(SubSeq(RestoredNode, 1, i - 1))}

(* A new process with the same kind of brain: restoreProcess.              *)
RestoreProcess ==
  /\ state # "WAIT_A_NUMBER"
  /\ CASE brain = "RANDOM" -> RestoreRandom /\ UNCHANGED <<coins, node>>
       [] brain = "STUPID" -> RestoreStupid /\ UNCHANGED <<coins, node>>
       [] brain = "SMART"  -> RestoreSmart /\ UNCHANGED <<coins, node>>
       [] brain = "BEST"   -> RestoreBest /\ UNCHANGED possible
  /\ state' = IF history # <<>> /\ IsWin(LastOf(history).result)
              THEN "FINISHED" ELSE "IN_PROGRESS"
  /\ restored' = TRUE
  /\ UNCHANGED <<brain, secret, history>>

Next ==
  \/ InitProcess
  \/ \E offset \in 0 .. AllValuesNumber - 1 : SetTrueGameValue(RandomGameValue(offset))
  \/ MakeStepRandom
  \/ MakeStepStupid
  \/ MakeStepSmart
  \/ MakeStepBest
  \/ RestoreProcess

Spec == Init /\ [][Next]_vars

-----------------------------------------------------------------------------
(* assert(m_possibleValues.size() > 0): no brain ever runs out of values,  *)
(* because none, restored or not, drops the secret before it has been      *)
(* guessed.  In the tree, the secret is behind the node on which it stands.*)
SecretStaysPossible ==
  state = "IN_PROGRESS" =>
    /\ brain \in Analytic => secret \in possible
    /\ brain = "BEST" =>
         \A i \in 1 .. Len(history) :
           BullsAndCows(TreeValue(SubSeq(node, 1, i - 1)), ToBack(coins, secret))
             = history[i].result

(* No brain guesses a value twice, so it hits within as many guesses as    *)
(* there are values: GuessBound of GameOps.  A restored STUPID brain is    *)
(* the exception: restoreFromHistory brings its own guesses back.          *)
NeverTwice ==
  ~(restored /\ brain = "STUPID") =>
    \A i, j \in 1 .. Len(history) : i # j => history[i].value # history[j].value

(* SMART, once it has collected, only guesses what agrees with everything  *)
(* it has been told, after a restore as well.                              *)
GuessesAgree ==
  \A j \in 1 .. Len(history) :
    \/ brain # "SMART"
    \/ j = 1
    \/ j = 2 /\ Total(history[1].result) = ValueSize - 1
    \/ \A i \in 1 .. j - 1 :
         BullsAndCows(history[i].value, history[j].value) = history[i].result

(* What a guess is told is what the rules of the game say: so many digits  *)
(* in their place, and so many elsewhere in the secret.                    *)
ResultsAreTrue ==
  \A i \in 1 .. Len(history) :
    LET v == history[i].value
        inPlace == {k \in Position : v[k] = secret[k]}
    IN  history[i].result =
          <<Cardinality(inPlace),
            Cardinality(DigitsOf(v) \cap DigitsOf(secret)) - Cardinality(inPlace)>>

(* GetRandomGameValue gives each value for exactly one random number: all  *)
(* secrets are valid and equally likely.                                   *)
EverySecretOnce ==
  secret # <<>> =>
    /\ secret \in Value
    /\ Cardinality({o \in 0 .. AllValuesNumber - 1 : RandomGameValue(o) = secret}) = 1
-----------------------------------------------------------------------------
(* The tree takes a secret down a path of results, none of them a hit.     *)
Takes(s, path) ==
  \A i \in 1 .. Len(path) :
    /\ path[i] = BullsAndCows(TreeValue(SubSeq(path, 1, i - 1)), s)
    /\ ~IsWin(path[i])

(* What TBestStandartBrain relies on in bc.json: wherever a secret may get *)
(* within a game, there is a node, and it asks a valid value that was not  *)
(* asked on the way.  TLC evaluates it for the tree of these few digits;   *)
(* src/projects/binaries/bc.json has it for four positions and ten digits. *)
ASSUME TreeFileAssumption ==
  \A n \in 0 .. MaxGuesses - 1 : \A path \in [1 .. n -> Result] :
    (\E s \in Value : Takes(s, path)) =>
      /\ TreeValue(path) \in Value
      /\ \A i \in 1 .. n : TreeValue(path) # TreeValue(SubSeq(path, 1, i - 1))

-----------------------------------------------------------------------------
(* The inductive invariant.                                                *)
GoodStart ==
  state = "WAIT_A_NUMBER" =>
    /\ history = <<>> /\ node = <<>> /\ ~restored
    /\ brain \in Analytic => possible = Value

GoodSecret ==
  /\ state # "WAIT_A_NUMBER" => secret # <<>>
  /\ secret # <<>> =>
       \E offset \in 0 .. AllValuesNumber - 1 : secret = RandomGameValue(offset)

GoodResults ==
  \A i \in 1 .. Len(history) :
    history[i].result = BullsAndCows(history[i].value, secret)

(* The game is over with a hit, and not before.                            *)
GoodEnd ==
  /\ state = "FINISHED" => history # <<>>
  /\ \A i \in 1 .. Len(history) :
       IsWin(history[i].result) <=> state = "FINISHED" /\ i = Len(history)

(* A restored STUPID brain may guess again what it has guessed.            *)
MayRepeat == restored /\ brain = "STUPID"

GoodCandidates ==
  brain \in Analytic /\ state = "IN_PROGRESS" =>
    /\ secret \in possible
    /\ ~MayRepeat => \A i \in 1 .. Len(history) : history[i].value \notin possible

(* The node is the one that asked last, and each guess is what the tree    *)
(* asked, with the coins turned.                                           *)
GoodTree ==
  brain = "BEST" =>
    /\ node = [i \in 1 .. Len(history) - 1 |-> history[i].result]
    /\ \A i \in 1 .. Len(history) :
         ToBack(coins, history[i].value) = TreeValue(SubSeq(node, 1, i - 1))

IInv ==
  /\ TypeOK
  /\ GoodStart
  /\ GoodSecret
  /\ GoodResults
  /\ GoodEnd
  /\ GoodCandidates
  /\ GoodTree
  /\ NeverTwice
  /\ GuessesAgree
=============================================================================
