---------------------------- MODULE TreeGenerator ----------------------------
(***************************************************************************)
(* TDecisionTreeGenerator::start() and the file it leaves: the tree found  *)
(* in bc.json is completed, one result of the first guess after the other, *)
(* and written back.  The program may be stopped at any point, and be run  *)
(* again.                                                                  *)
(***************************************************************************)
EXTENDS DecisionTree

CONSTANT Offsets    (* what the calls of rand() for one result may return  *)

ASSUME OffsetsAssumption == Offsets \subseteq Nat /\ Offsets # {}

VARIABLES
  at,      (* where start() is                                             *)
  tree,    (* mainNode                                                     *)
  todo,    (* results of the first guess that are still to be looked at    *)
  file     (* bc.json: no file, one that is cut off, or a tree             *)

vars == <<at, tree, todo, file>>

NoFile  == [kind |-> "none"]
CutFile == [kind |-> "cut"]
FileOf(node) == [kind |-> "tree", root |-> node]

Init ==
  /\ at = "load" /\ file = NoFile
  /\ tree = Node(FirstValue, 1, Cardinality(Value)) /\ todo = {}

-----------------------------------------------------------------------------
(* Slip: nodes read from the file keep the weight they are made with.      *)
UnitWeight(node) ==
  [node EXCEPT !.weight = 1, !.childs = {[c EXCEPT !.node.weight = 1] : c \in @}]

(* The file has no weights; a node that asks nothing more counts for one.  *)
RECURSIVE UpdateWeight(_)
UpdateWeight(node) ==
  LET weighed == [node EXCEPT !.childs =
                    {[on |-> c.on, node |-> UpdateWeight(c.node)] : c \in node.childs}]
  IN  [weighed EXCEPT !.weight = IF node.childs = {} THEN 1 ELSE WeightSum(weighed)]

(* loadNodeFromJson refuses what is not a whole file.                      *)
Load ==
  /\ at = "load" /\ at' = "search"
  /\ tree' = IF file.kind = "tree" THEN UpdateWeight(file.root)
             ELSE Node(FirstValue, 1, Cardinality(Value))
  /\ todo' = ResultsOf(FirstValue, Value)
  /\ UNCHANGED file

(* The map of results is in this order.                                    *)
FirstResult(results) ==
  CHOOSE r \in results : \A q \in results :
    r[1] < q[1] \/ (r[1] = q[1] /\ r[2] <= q[2])

(* All there may be: each is searched once.                                *)
Branches == {[on |-> r, node |-> Branch(r, o)] :
               r \in ResultsOf(FirstValue, Value), o \in Offsets}

AddBranch(r) == \E c \in Branches : c.on = r /\ tree' = [tree EXCEPT !.childs = @ \cup {c}]

(* Slip: what the file has is searched again.                              *)
SearchResultAgain ==
  /\ at = "search" /\ todo # {}
  /\ LET r == FirstResult(todo)
     IN  /\ todo' = todo \ {r}
         /\ \E b \in Branches : b.on = r /\
              tree' = [tree EXCEPT !.childs = {c \in @ : c.on # r} \cup {b}]
  /\ UNCHANGED <<at, file>>

SearchResult ==
  /\ at = "search" /\ todo # {}
  /\ LET r == FirstResult(todo)
     IN  /\ todo' = todo \ {r}
         /\ IF ContainBullsNCows(tree, r) THEN UNCHANGED tree ELSE AddBranch(r)
  /\ UNCHANGED <<at, file>>

(* The file is truncated first.                                            *)
OpenFile ==
  /\ at = "search" /\ todo = {}
  /\ at' = "write"
  /\ tree' = RecalcSteps(tree)
  /\ file' = CutFile
  /\ UNCHANGED todo

WriteFile ==
  /\ at = "write" /\ at' = "load"
  /\ file' = FileOf(tree)
  /\ UNCHANGED <<tree, todo>>

(* The program is stopped, or ends, and is run again.                      *)
Stop == at' = "load" /\ at # "load" /\ UNCHANGED <<tree, todo, file>>

Next == Load \/ SearchResult \/ OpenFile \/ WriteFile \/ Stop

Spec == Init /\ [][Next]_vars

-----------------------------------------------------------------------------
(* Down the tree with the results that a secret gives.                     *)
RECURSIVE GuessesFor(_, _)
GuessesFor(node, secret) ==
  LET r == BullsAndCows(node.value, secret)
  IN  IF node.value = secret THEN 1
      ELSE IF ~ContainBullsNCows(node, r) THEN 2 * MaxDepth
      ELSE 1 + GuessesFor(ChildsAt(node, r), secret)

Whole == file.kind = "tree"

(* Whatever a run of the generator leaves in a whole file, stopped and     *)
(* started again as often as one likes, leads to every secret, in no more  *)
(* guesses than the search is deep (and one), for TBestStandartBrain asks  *)
(* for the child of each result with at(); and the average in the file is  *)
(* that of the tree in the file.                                           *)
TreeFindsAll ==
  Whole =>
    /\ \A s \in Value : GuessesFor(file.root, s) <= MaxDepth + 1
    /\ file.root.steps * Cardinality(Value) =
         Scale * MapThenSumSet(LAMBDA s : GuessesFor(file.root, s), Value)

(* All guesses for all of some values, if the guesses of the opening are   *)
(* any and later ones are still possible values: the least there is.       *)
RECURSIVE LeastGuesses(_, _)
LeastGuesses(values, depth) ==
  LET total(v) == MapThenSumSet(
        LAMBDA r : LET part == Part(v, values, r)
                   IN  IF IsWin(r) THEN 0
                       ELSE IF Cardinality(part) = 1 THEN 1
                       ELSE LeastGuesses(part, depth + 1),
        ResultsOf(v, values))
      guesses == IF depth > Opening THEN values ELSE
                 {v \in Value : v \in values \/ Cardinality(ResultsOf(v, values)) > 1}
  IN  Cardinality(values) + Min({total(v) : v \in guesses})

Least == [r \in ResultsOf(FirstValue, Value) |->
            IF IsWin(r) THEN 0 ELSE LeastGuesses(Part(FirstValue, Value, r), 2)]

(* The search among values up to equivalence loses nothing: no other       *)
(* guesses of the opening lead to fewer guesses altogether, for every      *)
(* result whose values are not so many that the guesses are thinned out.   *)
EquivalentsLoseNothing ==
  Whole =>
    \A c \in file.root.childs :
      LET n == Cardinality(Part(FirstValue, Value, c.on))
      IN  n <= SplitAbove => c.node.steps * n = Least[c.on] * Scale

(* What has been found is kept, in this run and in those that follow,      *)
(* whatever rand() returns in them (ContainBullsNCows, loadNodeFromJson):  *)
(* no branch is replaced, and the weights that the file does not have are  *)
(* computed as they were.                                                  *)
TreeIsKept ==
  [][/\ at = "load" /\ Whole => tree' = file.root
     /\ at # "load" => tree.childs \subseteq tree'.childs]_vars
=============================================================================
