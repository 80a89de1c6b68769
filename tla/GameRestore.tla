----------------------------- MODULE GameRestore -----------------------------
(***************************************************************************)
(* restoreGame: the server has died, the games are lost, and a client      *)
(* sends RESTORE_GAME with what it has been told of one of them: the       *)
(* secret, the processes and their guesses.  The game goes on from there.  *)
(* Clients know a game as it was between two commands; a client that has   *)
(* missed the last one restores an earlier reachable game.                 *)
(***************************************************************************)
EXTENDS GameController

VARIABLE restored     (* the game has been restored and not played anew    *)

restoreVars == <<game, finishing, restored>>

-----------------------------------------------------------------------------
RestoreInit == Init /\ restored = FALSE

Restore ==
  /\ Idle
  /\ ~restored
  /\ Started
  /\ CanTell(game)
  /\ \E p \in Present(game) : game' = RestoreGame(game.aim[p], Told(game))
  /\ restored' = TRUE

Play == Next /\ restored' = (restored /\ Started')

RestoreNext == Restore \/ Play

(* The loop of FinishGame goes on, restored or not.                        *)
RestoreFairness ==
  WF_restoreVars(Play /\ (FinishGameIteration \/ FinishGameReturn))

RestoreSpec == RestoreInit /\ [][RestoreNext]_restoreVars /\ RestoreFairness

-----------------------------------------------------------------------------
(* What a restore keeps: every process with its guesses, its outcome and   *)
(* its secret; and, while nobody has hit or given up, also the round and   *)
(* the stage, so that the game goes on as if the server had not died.      *)
RestoreIsExact ==
  [][~restored /\ restored' =>
       /\ game'.state = game.state
       /\ game'.attempts = game.attempts
       /\ \A p \in Present(game) : game'.aim[p] = game.aim[p]
       /\ Present(game) = Running(game) =>
            /\ game'.stage = game.stage
            /\ game'.step = game.step
            /\ game'.winners = game.winners]_restoreVars

(* Restored or not, a game never leaves a running process behind the step  *)
(* counter, where no call could ever reach it again: doComputersStep moves *)
(* a computer only at the counter, and the loop of FinishGame waits for it.*)
NobodyLeftBehind ==
  InPlay(game) => \A p \in Running(game) : game.attempts[p] >= game.step

(* The race stays fair across a restore: the step counter of a restored    *)
(* game may be rounds behind (somebody had hit or given up early), and the *)
(* calls that follow never let one process guess twice more than another.  *)
RaceStaysFair ==
  InPlay(game) =>
    \A p, q \in Running(game) : game.attempts[p] <= game.attempts[q] + 1
=============================================================================
