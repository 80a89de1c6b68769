----------------------------- MODULE GameResults -----------------------------
(***************************************************************************)
(* The two places a process is told at the end of a game, PlayerPlace and  *)
(* getGameResults, on the games that GameController reaches.               *)
(***************************************************************************)
EXTENDS GameController, Functions

(* PlayerPlace: 0 for a process that still plays.  Whoever hit is behind   *)
(* those who hit earlier; whoever gave up counts from the last place up.   *)
PlayerPlace(g, p) ==
  IF p \notin Present(g) \/ g.state[p] \notin Terminal THEN 0
  ELSE LET same == {q \in Present(g) \ {p} : g.state[q] = g.state[p]}
       IN  IF g.state[p] = "GAVE_UP"
           THEN Cardinality(Present(g))
                - Cardinality({q \in same : g.attempts[q] >= g.attempts[p]})
           ELSE 1 + Cardinality({q \in same : g.attempts[q] < g.attempts[p]})

(* The comparator of getGameResults' sort.                                 *)
GaveUp(g, p) == g.state[p] = "GAVE_UP"

(* Slip: more guesses first.                                               *)
AheadReversed(g, p, q) ==
  IF GaveUp(g, p) # GaveUp(g, q) THEN GaveUp(g, q)
  ELSE g.attempts[p] > g.attempts[q]

Ahead(g, p, q) ==
  IF GaveUp(g, p) # GaveUp(g, q) THEN GaveUp(g, q)
  ELSE IF GaveUp(g, p) THEN g.attempts[p] > g.attempts[q]
       ELSE g.attempts[p] < g.attempts[q]

(* What the sort may leave: std::sort keeps no order between equals.       *)
SortedResults(g) ==
  {s \in [1 .. Cardinality(Present(g)) -> Present(g)] :
     /\ IsInjective(s)
     /\ \A i, j \in DOMAIN s : i < j => ~Ahead(g, s[j], s[i])}

(* The loop over the sorted results: equals share a place, the next one    *)
(* gets the place after it.                                                *)
PlacesOf(g, sorted) ==
  LET place[i \in DOMAIN sorted] ==
        IF i = 1 THEN 1
        ELSE IF \/ Ahead(g, sorted[i - 1], sorted[i])
                \/ Ahead(g, sorted[i], sorted[i - 1])
             THEN place[i - 1] + 1
             ELSE place[i - 1]
  IN  place

(* getGameResults of a finished game: the places it may tell, by process.  *)
GetGameResults(g) ==
  {[p \in Present(g) |-> PlacesOf(g, s)[CHOOSE i \in DOMAIN s : s[i] = p]] :
     s \in SortedResults(g)}

-----------------------------------------------------------------------------
(* Of two processes that hit, both functions put the one with fewer        *)
(* guesses first and give the same place to equals; nobody who gave up is  *)
(* placed before or with somebody who hit.                                 *)
PlacesRankTheRace ==
  game.stage = "FINISHED" =>
    LET hit == {p \in Present(game) : game.state[p] = "FINISHED"}
        Before(p, q) == q \notin hit \/ game.attempts[p] < game.attempts[q]
    IN  /\ \A p \in hit, q \in Present(game) :
             PlayerPlace(game, p) < PlayerPlace(game, q) <=> Before(p, q)
        /\ \A place \in GetGameResults(game) :
             \A p \in hit, q \in Present(game) : place[p] < place[q] <=> Before(p, q)
=============================================================================
