-------------------------------- MODULE GameView --------------------------------
(***************************************************************************)
(* TGameView, the window of the desktop game: a TGameController with at    *)
(* most one player and one computer, the boxes that choose mode and brain, *)
(* the buttons a user can reach, and the two tables of guesses.            *)
(*                                                                         *)
(* A slot runs to its end before the next; only the loop that lets the     *)
(* computer finish is spread over several steps.  Of a table only the      *)
(* number of its rows matters.                                             *)
(***************************************************************************)
EXTENDS GameOps

CONSTANTS
  Me, It,        (* ids 1 and 2, of the player and of the computer         *)
  Brain,         (* the items of gameBrainComboBox                         *)
  FirstBrain,    (* TGameBrain::BEGIN, the first of them                   *)
  HistoryRows,   (* rows of the computer's table: 10                       *)
  MaxGuesses     (* bound: the player sends no more guesses than this      *)

ASSUME ViewAssumption ==
  /\ Player = {Me} /\ Computer = {It}
  /\ GAME_PROCESS_COUNT_LIMIT >= 1
  /\ FirstBrain \in Brain
  /\ HistoryRows \in Nat /\ HistoryRows >= 2 /\ MaxGuesses \in Nat

Mode == {"PLAYER", "COMPUTER", "PLAYER_VS_COMPUTER"}

VARIABLES
  game,        (* m_game_controller                                        *)
  mode,        (* m_game_mode, and what gameModeComboBox shows             *)
  ids,         (* whose m_player_game_id, m_computer_game_id are not 0     *)
  shown,       (* what gameBrainComboBox shows                             *)
  playing,     (* the brain the computer has been given                    *)
  winIds,      (* m_winIds                                                 *)
  rows,        (* rowCount() of the two tables                             *)
  enabled,     (* the controls the user can reach                          *)
  busy,        (* in the loop of onSendGameValue                           *)
  broken       (* how the program has ended, if it has                     *)

gameVars   == <<game, winIds, rows>>
choiceVars == <<mode, ids, shown, playing>>
vars == <<gameVars, choiceVars, enabled, busy, broken>>

Control == {"start", "mode", "brain", "send", "makeStep", "finish"}

TypeOK ==
  /\ game \in Game
  /\ mode \in Mode /\ ids \subseteq Process
  /\ shown \in Brain /\ playing \in Brain
  /\ winIds \subseteq Process
  /\ rows \in [Process -> Nat]
  /\ enabled \subseteq Control
  /\ busy \in BOOLEAN
  /\ broken \in {"no", "exception", "null", "refused", "invalid"}

-----------------------------------------------------------------------------
(* A control of the window is used.                                        *)
Use(control) == broken = "no" /\ ~busy /\ control \in enabled

BrainBox(m) == IF m = "PLAYER" THEN {} ELSE {"brain"}

(* OnInitialUpdate: the first item of the box of modes has called          *)
(* onSwitchGameMode, which has added the player.                           *)
Init ==
  /\ mode = "PLAYER"
  /\ game = AddPlayer(EmptyGame, Me) /\ ids = {Me}
  /\ shown = FirstBrain /\ playing = FirstBrain
  /\ winIds = {} /\ rows = [p \in Process |-> 0]
  /\ enabled = {"start", "mode"}
  /\ busy = FALSE /\ broken = "no"

-----------------------------------------------------------------------------
(* onSwitchGameMode.                                                       *)
Wanted(m) == (IF m = "COMPUTER" THEN {} ELSE {Me}) \cup (IF m = "PLAYER" THEN {} ELSE {It})

(* Each call, and whether the controller accepts it.                       *)
AddMissing(g, wanted) ==
  LET withIt == IF It \in wanted \ ids THEN AddComputer(g, It) ELSE g
  IN  IF Me \in wanted \ ids THEN AddPlayer(withIt, Me) ELSE withIt

RemoveOthers(g, wanted) ==
  IF ids \subseteq wanted THEN g
  ELSE RemoveProcess(g, CHOOSE p \in ids : p \notin wanted)

CallsAccepted(g, wanted) ==
  /\ It \in wanted \ ids => CanAddComputer(g, It)
  /\ Me \in wanted \ ids => CanAddPlayer(g, Me)
  /\ \A p \in ids \ wanted : CanRemove(g, p)

(* Slip: the id of a process that has been removed is kept.                *)
SwitchGameModeKeepId(m) ==
  /\ Use("mode")
  /\ m # mode
  /\ mode' = m
  /\ LET fresh == InitGame(game) IN
       /\ game' = RemoveOthers(AddMissing(fresh, Wanted(m)), Wanted(m))
       /\ broken' = IF CallsAccepted(fresh, Wanted(m)) THEN "no" ELSE "refused"
  /\ ids' = ids \cup Wanted(m)
  /\ playing' = IF It \in Wanted(m) \ ids THEN FirstBrain ELSE playing
  /\ enabled' = (enabled \ {"brain"}) \cup BrainBox(m)
  /\ UNCHANGED <<shown, winIds, rows, busy>>

(* A computer that is added gets m_game_brain, which nobody ever sets to   *)
(* what the box shows.                                                     *)
SwitchGameMode(m) ==
  /\ Use("mode")
  /\ m # mode
  /\ mode' = m
  /\ LET fresh == InitGame(game) IN
       /\ game' = RemoveOthers(AddMissing(fresh, Wanted(m)), Wanted(m))
       /\ broken' = IF CallsAccepted(fresh, Wanted(m)) THEN "no" ELSE "refused"
  /\ ids' = Wanted(m)
  /\ playing' = IF It \in Wanted(m) \ ids THEN FirstBrain ELSE playing
  /\ enabled' = (enabled \ {"brain"}) \cup BrainBox(m)
  /\ UNCHANGED <<shown, winIds, rows, busy>>

(* onSwitchGameBrain; the box is only enabled when there is a computer.    *)
SwitchBrain(b) ==
  /\ Use("brain")
  /\ b # shown
  /\ shown' = b
  /\ IF It \in ids
     THEN game' = SwitchGameBrain(InitGame(game), It) /\ UNCHANGED ids
     ELSE game' = AddComputer(InitGame(game), It) /\ ids' = ids \cup {It}
  /\ playing' = b
  /\ UNCHANGED <<mode, winIds, rows, enabled, busy, broken>>

(* Slip: the tables and the winners of the last game stay.                 *)
StartKeepingTables(s) ==
  /\ Use("start")
  /\ game' = StartGame(InitGame(game), s)
  /\ enabled' = IF mode = "COMPUTER" THEN {"makeStep"} ELSE {"send"}
  /\ UNCHANGED <<choiceVars, winIds, rows, busy, broken>>

(* onStartGame.                                                            *)
Start(s) ==
  /\ Use("start")
  /\ game' = StartGame(InitGame(game), s)
  /\ winIds' = {}
  /\ rows' = [p \in Process |-> 0]
  /\ enabled' = IF mode = "COMPUTER" THEN {"makeStep"} ELSE {"send"}
  /\ UNCHANGED <<choiceVars, busy, broken>>

-----------------------------------------------------------------------------
(* getStepResults of one process: a line of its history, or only how it    *)
(* ended if it made no guess in that step.                                 *)
StepResult(g, p, step) ==
  LET guessed == step <= g.attempts[p]
      done    == g.state[p] \in Terminal
  IN  [step     |-> IF guessed THEN step ELSE g.attempts[p],
       value    |-> guessed,
       finished |-> done /\ (guessed => step = g.attempts[p])]

(* writeResults adds a row, or writes the last one anew.                   *)
RowsAfter(p, n, r) == IF p = It /\ r.step > HistoryRows THEN n ELSE n + 1

(* The value of a computer that plays against the player is not shown; any *)
(* other is, its digits are read with at().                                *)
ReadsValue(p) == ~(mode = "PLAYER_VS_COMPUTER" /\ p = It)

(* What becomes of the window when a result is written and, for a process  *)
(* that has finished, item(step - 1, 3) coloured.                          *)
Show(window, p, r) ==
  LET n == RowsAfter(p, window.rows[p], r)
  IN  IF window.broken # "no" THEN window
      ELSE IF ~r.value /\ ReadsValue(p) THEN [window EXCEPT !.broken = "exception"]
      ELSE [window EXCEPT
              !.rows[p] = n,
              !.broken = IF r.finished /\ r.step - 1 \notin 0 .. n - 1 THEN "null" ELSE @]

(* The results of a round, the player's first.                             *)
ShowStep(g) ==
  LET none == [rows |-> rows, broken |-> "no"]
      mine == IF Me \in Present(g) THEN Show(none, Me, StepResult(g, Me, g.step)) ELSE none
  IN  IF It \in Present(g) THEN Show(mine, It, StepResult(g, It, g.step)) ELSE mine

(* Slip: gameFinished leaves the buttons of the game.                      *)
AfterGameButtons == enabled \cup {"start", "mode"} \cup BrainBox(mode)

AfterGame == {"start", "mode"} \cup BrainBox(mode)

(* finishGameStep, and gameFinished once the game has finished.            *)
FinishGameStep(g) ==
  LET window == ShowStep(g)
      winner == IF winIds = {} THEN g.winners ELSE winIds
  IN  /\ game' = g
      /\ rows' = window.rows
      /\ broken' = window.broken
      /\ winIds' = winner
      /\ enabled' = IF window.broken = "no" /\ g.stage = "FINISHED" THEN AfterGame
                    ELSE IF winIds = {} /\ winner # {} THEN enabled \cup {"finish"}
                    ELSE enabled

(* The player has won and others go on.                                    *)
MustFinish(g, winner) == g.stage = "IN_PROGRESS_WINNER_DEFINED" /\ Me \in winner

(* An assert fails: assert(error == OK) behind a refused call, or the one  *)
(* of appendGameValue.                                                     *)
Abort(why) == broken' = why /\ UNCHANGED <<gameVars, enabled, busy>>

(* onSendGameValue sends the four digits as the boxes have them, 0 0 0 0   *)
(* at first.  The controller refuses who may not guess, and only then does *)
(* appendGameValue assert that the digits differ.  (A build without        *)
(* asserts takes such a guess for a miss.)                                 *)
SendGameValue ==
  /\ Use("send")
  /\ game.attempts[Me] < MaxGuesses
  /\ IF CanStep(game, Me)
     THEN \/ Abort("invalid")
          \/ \E hit \in BOOLEAN, hits \in Outcomes(game) :
               LET g == DoPlayerStep(game, Me, hit, hits)
               IN  FinishGameStep(g) /\ busy' = MustFinish(g, winIds')
     ELSE Abort("refused")
  /\ UNCHANGED choiceVars

(* Its while loop.                                                         *)
SendLoop ==
  /\ busy /\ broken = "no"
  /\ \E hits \in Outcomes(game) :
       LET g == FinishStep(game, hits)
       IN  FinishGameStep(g) /\ busy' = (g.stage # "FINISHED")
  /\ UNCHANGED choiceVars

(* onMakeStep.                                                             *)
MakeStep ==
  /\ Use("makeStep")
  /\ IF UnsteppedPlayers(game) = {}
     THEN /\ \E hits \in Outcomes(game) : FinishGameStep(FinishStep(game, hits))
          /\ UNCHANGED busy
     ELSE Abort("refused")
  /\ UNCHANGED choiceVars

(* onFinishGame, with the whole loop of TGameController::FinishGame: the   *)
(* computer, if it is still to hit, does so with this many guesses at the  *)
(* latest.                                                                 *)
Finished(g, guesses) ==
  LET given == GiveUpAll(g)
      last[k \in 0 .. GuessBound] ==
        IF k = 0 THEN given
        ELSE LET r == last[k - 1]
             IN  IF r.stage = "FINISHED" THEN r
                 ELSE FinishStep(r, IF r.attempts[It] + 1 >= guesses THEN Movers(r) ELSE {})
  IN  last[GuessBound]

FinishGame ==
  /\ Use("finish")
  /\ \E guesses \in 1 .. GuessBound : game' = Finished(game, guesses)
  /\ enabled' = AfterGame
  /\ UNCHANGED <<winIds, rows, choiceVars, busy, broken>>

-----------------------------------------------------------------------------
Next ==
  \/ \E m \in Mode : SwitchGameMode(m)
  \/ \E b \in Brain : SwitchBrain(b)
  \/ \E s \in Secret : Start(s)
  \/ SendGameValue \/ SendLoop
  \/ MakeStep
  \/ FinishGame

Spec == Init /\ [][Next]_vars

-----------------------------------------------------------------------------
(* The controls the user can reach fit the game the controller holds: a    *)
(* guess can be sent only while the player may guess, a round made only    *)
(* when no player is awaited, the end asked for only once there is a       *)
(* winner, and the mode or the brain changed only when no game is on       *)
(* (onStartGame, finishGameStep, gameFinished).                            *)
ControlsFitGame ==
  broken = "no" /\ ~busy =>
    /\ "send" \in enabled => CanStep(game, Me)
    /\ "makeStep" \in enabled => InPlay(game) /\ UnsteppedPlayers(game) = {}
    /\ "finish" \in enabled => InPlay(game) /\ game.winners # {}
    /\ enabled \cap {"start", "mode", "brain"} # {} => ~InPlay(game)
    /\ InPlay(game) => enabled \cap {"send", "makeStep"} # {}

(* The tables tell the games of this start and no other: whoever is still  *)
(* guessing has a row for each of its guesses, the computer for the first  *)
(* HistoryRows of them (writeResults, onStartGame).                        *)
RowsShowHistory ==
  broken = "no" /\ InPlay(game) =>
    \A p \in Running(game) :
      rows[p] = IF p = It /\ game.attempts[p] > HistoryRows
                THEN HistoryRows ELSE game.attempts[p]

(* However the modes are switched, with games in between, the controller   *)
(* never refuses a call that the window asserts to succeed (the asserts of *)
(* onSwitchGameMode, onSendGameValue and onMakeStep).  The window breaks   *)
(* in three ways only: on digits that are not a value, sent by a player    *)
(* who may guess in a game under way (player_process.cpp:77); on the empty *)
(* value of a player who has hit when the computer needs another round     *)
(* (game_view.cpp:253); or on a row beyond the table's when the computer   *)
(* hits late (line 280).                                                   *)
BreaksOnlyThen ==
  /\ broken # "refused"
  /\ broken = "invalid" =>
       mode # "COMPUTER" /\ InPlay(game) /\ CanStep(game, Me)
  /\ broken = "exception" =>
       mode = "PLAYER_VS_COMPUTER" /\ game.attempts[Me] < game.attempts[It]
  /\ broken = "null" => game.state[It] = "FINISHED" /\ game.attempts[It] > HistoryRows

(* The assertion of appendGameValue (player_process.cpp:77): every guess is *)
(* a value, four different digits.                                         *)
GuessesAreValues == broken # "invalid"

(* README.md:6, "Game View - the game itself, with 3 modes", the third of  *)
(* them (line 10) "A game of the player against the computer": a game can  *)
(* be played in each, if the player sends four different digits.           *)
WindowSurvives == broken \in {"no", "invalid"}

-----------------------------------------------------------------------------
(* The inductive invariant: what window and game are between two slots and *)
(* in the loop of onSendGameValue.                                         *)

(* Present are exactly those the mode asks for.                            *)
WindowFits ==
  /\ ids = Wanted(mode)
  /\ Present(game) = ids
  /\ ~InPlay(game) => enabled = AfterGame /\ ~busy

(* p has made a guess in each round before this one and in no later one.   *)
Guesses(p) == game.state[p] = "IN_PROGRESS" /\ game.attempts[p] = game.step

(* The three ways a game can stand.  A computer that has hit still had a   *)
(* row for its guess.                                                      *)
NobodyHasHit ==
  /\ game.stage = "IN_PROGRESS" /\ game.winners = {}
  /\ \A p \in ids : Guesses(p)

ComputerHasHit ==
  /\ game.stage = "IN_PROGRESS_WINNER_DEFINED" /\ game.winners = {It}
  /\ mode = "PLAYER_VS_COMPUTER"
  /\ Guesses(Me)
  /\ game.state[It] = "FINISHED"
  /\ game.attempts[It] \in 1 .. HistoryRows
  /\ game.attempts[It] <= game.step
  /\ game.attempts[It] <= rows[It]

PlayerHasHit ==
  /\ game.stage = "IN_PROGRESS_WINNER_DEFINED" /\ game.winners = {Me}
  /\ mode = "PLAYER_VS_COMPUTER"
  /\ game.state[Me] = "FINISHED"
  /\ game.attempts[Me] <= game.step
  /\ Guesses(It)

Turn(m) == IF m = "COMPUTER" THEN {"makeStep"} ELSE {"send"}

GameStands ==
  InPlay(game) =>
    /\ winIds = game.winners
    /\ busy => PlayerHasHit
    /\ ~busy =>
         /\ NobodyHasHit \/ ComputerHasHit
         /\ enabled = Turn(mode) \cup (IF winIds = {} THEN {} ELSE {"finish"})

IInv ==
  /\ TypeOK
  /\ BreaksOnlyThen
  /\ broken = "no" => WindowFits /\ GameStands /\ RowsShowHistory
=============================================================================
