---------------------------- MODULE MCGameServer ----------------------------
(* Small instances of GameServer for TLC.                                  *)
EXTENDS GameServer, TLC

CONSTANTS p1, p2, c1, c2, s1, g1, g2

TwoPlayers   == {p1, p2}
OneComputer  == {c1}
TwoComputers == {c1, c2}
OneSecret    == {s1}
OneGame      == {g1}
DistinctIds  == {}
EqualIds     == {<<p1, c1>>}

(* What clients may have been told of a game: half a round was played; the *)
(* host has hit and its computer goes on; the only player gave up and the  *)
(* computer's owner, the host, was no player of the game.                  *)
Guessed(n)  == [rounds |-> n, hit |-> FALSE, gaveUp |-> FALSE]
Hits(n)     == [rounds |-> n, hit |-> TRUE, gaveUp |-> FALSE]
GivesUp(n)  == [rounds |-> n, hit |-> FALSE, gaveUp |-> TRUE]

Reports ==
  {[host  |-> (p1 :> TRUE @@ p2 :> FALSE), owner |-> (c2 :> p1),
    told  |-> (p1 :> Guessed(1) @@ p2 :> Guessed(0) @@ c2 :> Guessed(0))],
   [host  |-> (p2 :> TRUE), owner |-> (c1 :> p2),
    told  |-> (p2 :> Hits(1) @@ c1 :> Guessed(1))],
   [host  |-> (p2 :> FALSE), owner |-> (c1 :> p1),
    told  |-> (p2 :> GivesUp(1) @@ c1 :> Guessed(1))]}

NoReports == {}

ASSUME ReportsAreHonest == HonestReports

Symmetry     ==
  Permutations(Player) \cup Permutations(Computer) \cup Permutations(GameId)
=============================================================================
