---------------------------- MODULE DecisionTree -----------------------------
(***************************************************************************)
(* TValueNode and the search of TDecisionTreeGenerator, which computes the *)
(* tree that the strongest brain plays by (bc.json).                       *)
(*                                                                         *)
(* A node is a record; steps is the average number of guesses from it, as  *)
(* a multiple of 1 / Scale (a double in the code).                         *)
(***************************************************************************)
EXTENDS Rules, SequencesExt, FiniteSetsExt

CONSTANTS
  Opening,       (* guesses chosen among all values: 3                     *)
  SplitAbove,    (* larger sets are first thinned out: 12                  *)
  MaxDepth,      (* the search goes no deeper: 7                           *)
  WeightRange,   (* weights are counted modulo this: 2^32                  *)
  Scale          (* unit of steps                                          *)

ASSUME TreeAssumption ==
  /\ Opening \in Nat \ {0} /\ SplitAbove \in Nat /\ MaxDepth \in Nat
  /\ WeightRange \in Nat \ {0} /\ Scale \in Nat \ {0}

Result == (0 .. ValueSize) \X (0 .. ValueSize)

Before(v, w) == ToUint(v) < ToUint(w)

(* The k-th of some values, from 0, in the order of the lists of the code. *)
Nth(values, k) ==
  CHOOSE v \in values : Cardinality({w \in values : Before(w, v)}) = k

(* generateAllPossibleValues.                                              *)
ValueList ==
  LET after[n \in 0 .. Cardinality(Value)] ==
        IF n = 0 THEN <<>> ELSE Append(after[n - 1], Nth(Value, n - 1))
  IN  after[Cardinality(Value)]

FirstValue == First(Value)

(* distributeValuesByBullsNCows.                                           *)
Part(guess, values, r) == {v \in values : BullsAndCows(guess, v) = r}
ResultsOf(guess, values) == {BullsAndCows(guess, v) : v \in values}

-----------------------------------------------------------------------------
(* TValueNode; m_childs is a set of results, each with its node.           *)
Node(value, steps, weight) ==
  [value |-> value, steps |-> steps * Scale, weight |-> weight, childs |-> {}]

ContainBullsNCows(node, r) == \E c \in node.childs : c.on = r
ChildsAt(node, r) == (CHOOSE c \in node.childs : c.on = r).node

WeightSum(node) == MapThenSumSet(LAMBDA c : c.node.weight, node.childs) % WeightRange

RecalcSteps(node) ==
  LET weights == WeightSum(node)
      steps   == MapThenSumSet(LAMBDA c : c.node.steps * c.node.weight, node.childs)
  IN  IF weights = 0 THEN node ELSE [node EXCEPT !.steps = Scale + steps \div weights]

(* "This way definitely not best": one step, and a weight of 2^32 - 1.     *)
DeadWay == Node([i \in Position |-> NumbersCount], 1, WeightRange - 1)

(* The child for a part of one value, or for the value itself.             *)
LastNode(value, part, r) ==
  IF IsWin(r) THEN Node(value, 0, 1) ELSE Node(First(part), 1, 1)

(* The results of a guess that leave more than one value.                  *)
OpenResults(guess, values) ==
  {r \in ResultsOf(guess, values) : Cardinality(Part(guess, values, r)) > 1}

(* The node that asks a value, with a child for each result; searched is   *)
(* what the search found for the open results.                             *)
NodeAsking(value, values, searched) ==
  LET next(r) == IF r \in DOMAIN searched THEN searched[r]
                 ELSE LastNode(value, Part(value, values, r), r)
  IN  RecalcSteps(
        [Node(value, 1, Cardinality(values)) EXCEPT
           !.childs = {[on |-> r, node |-> next(r)] : r \in ResultsOf(value, values)}])

-----------------------------------------------------------------------------
LeastSteps(nodes) == Min({n.steps : n \in nodes})

(* The nodes kept in nodesList: the best, as long as they are not worse    *)
(* than the bound that bestStepCount starts with; one of them is drawn.    *)
Chosen(nodes, values, offset) ==
  LET bound == (WeightRange - 1) * Scale
      least == LeastSteps(nodes)
      kept  == {n.value : n \in {m \in nodes : m.steps = least /\ least <= bound}}
               \cup {v \in {First(values)} : least >= bound}
  IN  CHOOSE n \in nodes : n.value = Nth(kept, offset % Cardinality(kept))

(* Only values that are still possible are asked.                          *)
CustomMinimax(values, depth, offset) ==
  LET minimax[s \in SUBSET Value, d \in Nat] ==
        LET searched(v) == [r \in OpenResults(v, s) |-> minimax[Part(v, s, r), d + 1]]
        IN  IF d > MaxDepth THEN DeadWay
            ELSE Chosen({NodeAsking(v, s, searched(v)) : v \in s}, s, offset)
  IN  minimax[values, depth]

-----------------------------------------------------------------------------
(* generateEquivalentValues: a permutation of positions that maps each     *)
(* solved value to itself by a change of digits; two values are equivalent *)
(* if one such permutation and change, extended to the digits not in use,  *)
(* maps one to the other.                                                  *)
PositionMaps == {f \in [Position -> Position] : IsInjective(f)}

Preserves(solved, perm) ==
  \A m, n \in DOMAIN solved, i, j \in Position :
    solved[m][i] = solved[n][j] => solved[m][perm[i]] = solved[n][perm[j]]

(* Slip: digits are changed without a look at the solved values.           *)
EquivalentDigits(solved, v, w) ==
  LET used == UNION {DigitsOf(solved[n]) : n \in DOMAIN solved}
  IN  \A i \in Position : v[i] \in used <=> w[i] \in used

Equivalent(solved, v, w) ==
  LET used == UNION {DigitsOf(solved[n]) : n \in DOMAIN solved}
  IN  \E perm \in PositionMaps :
        /\ Preserves(solved, perm)
        /\ \A i \in Position :
             LET e == w[perm[i]]
             IN  IF v[i] \in used
                 THEN \E n \in DOMAIN solved, j \in Position :
                        solved[n][j] = v[i] /\ solved[n][perm[j]] = e
                 ELSE e \notin used

EquivalentValues(solved) ==
  LET keep(found, v) == IF \E w \in found : Equivalent(solved, v, w)
                        THEN found ELSE found \cup {v}
  IN  FoldLeft(keep, Range(solved), ValueList) \ Range(solved)

(* m_values3Steps, by generateAllFirstNEquivalentValues(Opening).          *)
OpeningLists ==
  LET lists[n \in 1 .. Opening] ==
        IF n = 1 THEN {<<FirstValue>>}
        ELSE UNION {{Append(s, v) : v \in EquivalentValues(s)} : s \in lists[n - 1]}
  IN  lists[Opening]

-----------------------------------------------------------------------------
(* splitingAlgorithm: how many parts of each size a guess leaves...        *)
PartSizes(guess, values) ==
  LET sizes == {<<r, Cardinality(Part(guess, values, r))>> : r \in ResultsOf(guess, values)}
  IN  [n \in 1 .. Cardinality(values) |-> Cardinality({s \in sizes : s[2] = n})]

Largest(split)   == Max({n \in DOMAIN split : split[n] > 0})
PartCount(split) == MapThenSumSet(LAMBDA n : split[n], DOMAIN split)

(* ... lessSplits, on the sizes from the largest to the smallest...        *)
LessSplit(s, t) ==
  \E n \in DOMAIN s : s[n] < t[n] /\ \A m \in DOMAIN s : m > n => s[m] = t[m]

(* ... and the guesses that are worth a search.                            *)
WorthASearch(values, guesses) ==
  LET split == [v \in guesses |-> PartSizes(v, values)]
      good  == {v \in guesses : \/ v \in values
                                \/ Largest(split[v]) * 3 < Cardinality(values)
                                \/ PartCount(split[v]) > 5}
      best  == {v \in guesses : \A w \in guesses : ~LessSplit(split[w], split[v])}
  IN  IF good # {} THEN good ELSE {First(best)}

(* chooseBestEquivalentValues: after `solved', the next guess is searched  *)
(* among all values up to equivalence; the first of the best is taken.     *)
OpeningAfter(solved) ==
  LET depth == Len(solved) + 1
  IN  {s[depth] : s \in {t \in OpeningLists : SubSeq(t, 1, depth - 1) = solved}}

FirstOfBest(nodes) ==
  LET best == {n \in nodes : n.steps = LeastSteps(nodes)}
  IN  CHOOSE n \in best : n.value = First({m.value : m \in best})

ChooseBest(available, solved, offset) ==
  LET choose[s \in SUBSET Value, after \in Seq(Value)] ==
        LET all   == OpeningAfter(after)
            tried == IF Cardinality(s) > SplitAbove THEN WorthASearch(s, all) ELSE all
            child(v, part) ==
              IF Len(after) + 1 < Opening THEN choose[part, Append(after, v)]
              ELSE CustomMinimax(part, Len(after) + 2, offset)
            searched(v) == [r \in OpenResults(v, s) |-> child(v, Part(v, s, r))]
        IN  FirstOfBest({NodeAsking(v, s, searched(v)) : v \in tried})
  IN  choose[available, solved]

(* The child of the root for a result of the first guess.                  *)
Branch(r, offset) ==
  IF IsWin(r) THEN Node(FirstValue, 0, 1)
  ELSE ChooseBest(Part(FirstValue, Value, r), <<FirstValue>>, offset)
=============================================================================
