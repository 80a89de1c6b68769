----------------------------- MODULE MCGameView ------------------------------
(* A small instance of GameView for TLC: three rows, and a computer that   *)
(* may need more guesses than that.                                        *)
EXTENDS GameView, TLC

CONSTANTS s1

ThePlayer   == {Me}
TheComputer == {It}
OneSecret   == {s1}
Brains      == 1 .. 2
=============================================================================
