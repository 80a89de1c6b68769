-------------------------- MODULE MCGameController --------------------------
(* Small instances of GameController for TLC.                              *)
EXTENDS GameResults, GameIsRace, TLC

CONSTANTS p1, p2, p3, c1, c2, s1, s2

TwoPlayers   == {p1, p2}
ThreePlayers == {p1, p2, p3}
OneComputer  == {c1}
TwoComputers == {c1, c2}
TwoSecrets   == {s1, s2}
OneSecret    == {s1}

Symmetry ==
  Permutations(Player) \cup Permutations(Computer) \cup Permutations(Secret)
=============================================================================
