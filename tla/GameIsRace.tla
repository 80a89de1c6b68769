------------------------------ MODULE GameIsRace ------------------------------
(***************************************************************************)
(* TGameController implements FairRace: its rounds, its order of play and  *)
(* the loop of FinishGame are one way of keeping the race fair.            *)
(***************************************************************************)
EXTENDS GameController

PhaseOf(g) ==
  IF g.stage = "WAIT_A_NUMBER" THEN "lobby"
  ELSE IF g.stage = "FINISHED" THEN "over" ELSE "race"

OutcomeOf(g) ==
  [p \in Process |->
     CASE g.state[p] = "IN_PROGRESS" -> "in"
       [] g.state[p] = "FINISHED"    -> "hit"
       [] g.state[p] = "GAVE_UP"     -> "gave_up"
       [] OTHER                      -> "out"]

R == INSTANCE FairRace WITH
       Racer   <- Process,
       phase   <- PhaseOf(game),
       outcome <- OutcomeOf(game),
       guesses <- game.attempts,
       winners <- game.winners

(* Every behaviour of a game is a behaviour of a fair race: no call, in no *)
(* order, names a winner early, late in part, or twice.                    *)
FairRaceSpec == R!RaceSpec
=============================================================================
