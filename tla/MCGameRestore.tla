---------------------------- MODULE MCGameRestore ----------------------------
(* A small instance of GameRestore for TLC.                                *)
EXTENDS GameRestore, TLC

CONSTANTS p1, p2, p3, c1, s1

ThreePlayers == {p1, p2, p3}
OneComputer  == {c1}
OneSecret    == {s1}
Symmetry     == Permutations(Player)
=============================================================================
