--------------------------- MODULE GameRestoreProofs ---------------------------
(***************************************************************************)
(* A restored game, for every set of processes and every bound.            *)
(*                                                                         *)
(* The inductive invariant of GameController does not hold of a restored   *)
(* game: its step counter may be rounds behind its players, its winners    *)
(* are forgotten, and it may wait for nobody.  What does hold is Banded:   *)
(* all who still guess are within one round, a base that the counter has   *)
(* yet to reach.  Until it is reached no computer moves and no player is   *)
(* let in; from there on the rounds are those of any game.                 *)
(***************************************************************************)
EXTENDS GameRestore, GameControllerProofs

(* Before a restore the invariant of the game, after it the band.          *)
RInv ==
  /\ restored \in BOOLEAN /\ finishing \in BOOLEAN
  /\ ~restored => IInv
  /\ restored => /\ Banded(game)
                 /\ finishing => PlayerList(game) \cap Running(game) = {}

-----------------------------------------------------------------------------
(* What the report of a game restores to: every process as it was, a stage *)
(* by who still guesses, and the fewest guesses of a player as the step.   *)
RestoredFrom(g, p, r) ==
  /\ \A q \in Present(g) : g.state[q] \in {"IN_PROGRESS"} \cup Terminal
  /\ r.stage \in GameStage \ {"WAIT_A_NUMBER"}
  /\ (\A q \in Present(g) : g.state[q] = "IN_PROGRESS") => r.stage = "IN_PROGRESS"
  /\ r.stage = "FINISHED" => \A q \in Present(g) : g.state[q] # "IN_PROGRESS"
  /\ \E q \in PlayerList(g) : r.step = g.attempts[q]
  /\ \A q \in PlayerList(g) : r.step <= g.attempts[q]
  /\ r.winners = {} /\ r.secret = g.aim[p] /\ r.ready = Present(g) \cap Computer
  /\ r.state = g.state
  /\ r.attempts = [q \in Process |-> IF q \in Present(g) THEN g.attempts[q] ELSE 0]
  /\ r.aim = [q \in Process |-> IF q \in Present(g) THEN g.aim[p] ELSE NoSecret]
  /\ r \in Game

(* restoreGame makes this of what RESTORE_GAME has told.                   *)
LEMMA RestoredFields ==
  ASSUME NEW g, GoodRound(g), g.stage # "WAIT_A_NUMBER", CanTell(g), NEW p \in Present(g),
         NEW r, r = RestoreGame(g.aim[p], Told(g))
  PROVE  RestoredFrom(g, p, r)
<1> DEFINE told == Told(g)
           rounds == {told[q].rounds : q \in DOMAIN told \cap Player}
           open == {q \in DOMAIN told : RestoredState(told[q]) = "IN_PROGRESS"}
<1>1. /\ g \in Game /\ Present(g) \subseteq Process
      /\ g.state = [q \in Process |-> g.state[q]]
      /\ \A q \in Process : g.attempts[q] \in Nat /\ g.state[q] \in ProcessState
      /\ p \in Process /\ g.aim[p] \in Secret \cup {NoSecret} /\ g.stage \in GameStage
  BY DEF GoodRound, Game, Present
<1>2. DOMAIN told = Present(g) /\ \A q \in Present(g) : told[q].rounds = g.attempts[q]
  BY DEF Told
<1>3. \A q \in Present(g) : g.state[q] \in {"IN_PROGRESS"} \cup Terminal
  BY <1>1 DEF GoodRound, GoodAttempts, GoodEnd, InPlay, GameStage, Present, ProcessState
<1>4. \A q \in Present(g) : RestoredState(told[q]) = g.state[q]
  BY <1>3 DEF Told, RestoredState, Terminal
<1>5. rounds = {g.attempts[q] : q \in PlayerList(g)} /\ rounds \subseteq Nat /\ rounds # {}
  BY <1>1, <1>2 DEF CanTell, PlayerList
<1>6. RestoredStep(told) \in rounds /\ \A m \in rounds : RestoredStep(told) <= m
  <2>1. DOMAIN told \cap Player # {} /\ \A q \in DOMAIN told : told[q].rounds \in Nat
    BY <1>1, <1>2 DEF CanTell, PlayerList, Present
  <2> HIDE DEF told
  <2> QED  BY <2>1, LeastRestored
<1> HIDE DEF told, rounds
<1>7. /\ r.stage = RestoredStage(told) /\ r.step = RestoredStep(told)
      /\ r.state = [q \in Process |-> IF q \in Present(g) THEN g.state[q] ELSE "ABSENT"]
      /\ r.attempts = [q \in Process |-> IF q \in Present(g) THEN g.attempts[q] ELSE 0]
      /\ r.winners = {} /\ r.secret = g.aim[p] /\ r.ready = Present(g) \cap Computer
      /\ r.aim = [q \in Process |-> IF q \in Present(g) THEN g.aim[p] ELSE NoSecret]
      /\ r = [stage |-> r.stage, step |-> r.step, winners |-> r.winners, secret |-> r.secret,
              state |-> r.state, attempts |-> r.attempts, aim |-> r.aim, ready |-> r.ready]
  BY <1>2, <1>4 DEF RestoreGame, told
<1>8. open = {q \in Present(g) : g.state[q] = "IN_PROGRESS"}
  BY <1>2, <1>4
<1>9. r.stage = IF open = Present(g) THEN "IN_PROGRESS"
                ELSE IF open = {} THEN "FINISHED" ELSE "IN_PROGRESS_WINNER_DEFINED"
  BY <1>2, <1>7 DEF RestoredStage
<1> HIDE DEF open
<1>10. r.state = g.state
  BY <1>1, <1>7 DEF Present
<1>11. r \in Game
  <2>1. r.step \in Nat
    BY <1>5, <1>6, <1>7
  <2>2. r.state \in [Process -> ProcessState] /\ r.attempts \in [Process -> Nat]
    BY <1>1, <1>7, <1>10
  <2>3. r.aim \in [Process -> Secret \cup {NoSecret}]
    BY <1>1, <1>7
  <2>4. r.stage \in GameStage
    BY <1>9 DEF GameStage
  <2> QED  BY <2>1, <2>2, <2>3, <2>4, <1>1, <1>7 DEF Game
<1>12. /\ \E q \in PlayerList(g) : r.step = g.attempts[q]
       /\ \A q \in PlayerList(g) : r.step <= g.attempts[q]
  BY <1>5, <1>6, <1>7
<1>13. /\ r.stage \in GameStage \ {"WAIT_A_NUMBER"}
       /\ (\A q \in Present(g) : g.state[q] = "IN_PROGRESS") => r.stage = "IN_PROGRESS"
       /\ r.stage = "FINISHED" => \A q \in Present(g) : g.state[q] # "IN_PROGRESS"
  BY <1>8, <1>9 DEF GameStage
<1> QED  BY <1>3, <1>7, <1>10, <1>11, <1>12, <1>13 DEF RestoredFrom

(* What is told of a game is honest, and restores to a banded game; who    *)
(* still guesses has a secret.                                             *)
LEMMA RestoreOfGood ==
  ASSUME NEW g, GoodRound(g), Open(g), g.stage # "WAIT_A_NUMBER", CanTell(g),
         NEW p \in Present(g)
  PROVE  Banded(RestoreGame(g.aim[p], Told(g)))
<1> DEFINE told == Told(g)
<1>1. /\ g \in Game /\ p \in Process /\ Present(g) \subseteq Process
      /\ DOMAIN told = Present(g)
      /\ \A q \in DOMAIN told : told[q].rounds \in Nat
      /\ g.aim[p] \in Secret \cup {NoSecret}
  BY DEF GoodRound, Game, Present, Told
<1>2. DOMAIN told \subseteq Process /\ DOMAIN told \cap Player # {}
  BY <1>1 DEF CanTell, PlayerList
<1>3. Honest(told)
  BY GoodIsTellable, ToldIsHonest
<1>4. CASE g.stage = "FINISHED"
  <2>1. \A q \in DOMAIN told : RestoredState(told[q]) # "IN_PROGRESS"
    BY <1>1, <1>4 DEF GoodRound, GoodEnd, Told, RestoredState, Terminal, Present
  <2> HIDE DEF told
  <2>2. RestoredStage(told) = "FINISHED"
    BY <2>1, <1>2 DEF RestoredStage
  <2> QED  BY <2>2, <1>1, <1>2, <1>3, RestoreBanded DEF told
<1>5. CASE InPlay(g)
  <2>1. g.aim[p] \in Secret
    BY <1>5 DEF GoodRound, GoodSecret, InPlay
  <2> HIDE DEF told
  <2> QED  BY <2>1, <1>1, <1>2, <1>3, RestoreBanded DEF told
<1> QED  BY <1>1, <1>4, <1>5 DEF Game, GameStage, InPlay

(* While nobody has hit or given up, a restored game is where it was.      *)
LEMMA RestoreOfRunning ==
  ASSUME NEW g, GoodRound(g), Open(g), g.stage # "WAIT_A_NUMBER", CanTell(g),
         NEW p \in Present(g), Present(g) = Running(g),
         NEW r, r = RestoreGame(g.aim[p], Told(g))
  PROVE  r.stage = g.stage /\ r.step = g.step /\ r.winners = g.winners
<1>1. /\ g \in Game /\ g.step \in Nat /\ g.stage \in GameStage
      /\ g.winners \subseteq Process
      /\ \A q \in Process : g.attempts[q] \in Nat
  BY DEF GoodRound, Game
<1>0. RestoredFrom(g, p, r)
  BY RestoredFields
<1>2. \A q \in Present(g) : g.state[q] = "IN_PROGRESS"
  BY <1>0 DEF RestoredFrom, Running
<1>3. /\ r.stage = "IN_PROGRESS" /\ r.winners = {}
      /\ \E q \in PlayerList(g) : r.step = g.attempts[q]
      /\ \A q \in PlayerList(g) : r.step <= g.attempts[q]
  BY <1>0, <1>2 DEF RestoredFrom
<1>4. g.stage = "IN_PROGRESS"
  <2>1. p \in Process /\ g.state[p] = "IN_PROGRESS"
    BY <1>2 DEF Present
  <2>2. g.stage # "FINISHED"
    BY <2>1 DEF GoodRound, GoodEnd, Terminal
  <2>3. g.stage # "IN_PROGRESS_WINNER_DEFINED"
    BY <1>1, <1>2 DEF GoodRound, GoodWinners, Present
  <2> QED  BY <1>1, <2>2, <2>3 DEF GameStage
<1>5. g.winners = {}
  BY <1>4 DEF GoodRound, GoodRace
<1>6. \A q \in PlayerList(g) : g.attempts[q] \in {g.step, g.step + 1}
  BY <1>1, <1>2, <1>4 DEF GoodRound, GoodAttempts, InPlay, PlayerList, Present
<1>7. \E q \in PlayerList(g) : g.attempts[q] = g.step
  <2>1. CASE \E q \in PlayerList(g) : g.attempts[q] > g.step
    BY <2>1, <1>4 DEF Open, InPlay, UnsteppedPlayers, UnsteppedAt
  <2>2. CASE ~\E q \in PlayerList(g) : g.attempts[q] > g.step
    BY <1>1, <1>3, <1>6, <2>2
  <2> QED  BY <2>1, <2>2
<1>8. r.step = g.step
  BY <1>1, <1>3, <1>6, <1>7
<1> QED  BY <1>3, <1>4, <1>5, <1>8

-----------------------------------------------------------------------------
LEMMA InitRInv == RestoreInit => RInv
BY InitIInv DEF RestoreInit, RInv, Init

(* A restored game that goes on.                                           *)
LEMMA PlayBanded ==
  ASSUME RInv, restored, Next, ~CallInitGame
  PROVE  /\ Banded(game') /\ finishing' \in BOOLEAN
         /\ finishing' => PlayerList(game') \cap Running(game') = {}
<1>1. Banded(game) /\ Begun(game) /\ Started
  BY DEF RInv, Banded, Begun, Started
<1> DEFINE Goal == /\ Banded(game') /\ finishing' \in BOOLEAN
                   /\ finishing' => PlayerList(game') \cap Running(game') = {}
<1>2. ASSUME Idle, Banded(game') PROVE Goal
  <2>1. finishing \in BOOLEAN
    BY DEF RInv
  <2>2. finishing' = FALSE
    BY <1>2, <2>1 DEF Idle
  <2> QED  BY <1>2, <2>2
<1>3. ASSUME NEW p \in Process, CallRemove(p) PROVE Goal
  BY <1>1, <1>2, <1>3, RemoveBanded DEF CallRemove
<1>4. ASSUME NEW s \in Secret, CallStartGame(s) PROVE Goal
  BY <1>1, <1>2, <1>4, StartGameBanded DEF CallStartGame
<1>5. ASSUME NEW p \in Player, CallDoPlayerStep(p) PROVE Goal
  BY <1>1, <1>2, <1>5, DoPlayerStepBanded DEF CallDoPlayerStep
<1>6. ASSUME NEW p \in Player, CallPlayerGiveUp(p) PROVE Goal
  BY <1>1, <1>2, <1>6, PlayerGiveUpBanded DEF CallPlayerGiveUp
<1>7. ASSUME CallFinishStep PROVE Goal
  BY <1>1, <1>2, <1>7, FinishStepBanded DEF CallFinishStep
<1>8. ASSUME CallFinishGame PROVE Goal
  <2> DEFINE Q == PlayerList(game) \cap Running(game)
  <2>1. game' = GiveUp(game, Q) /\ finishing' = TRUE
    BY <1>8 DEF CallFinishGame, GiveUpAll
  <2>2. /\ Banded(game')
        /\ \A p \in Process : game'.state[p] = IF p \in Q THEN "GAVE_UP" ELSE game.state[p]
    <3>1. Q \in SUBSET (PlayerList(game) \cap Running(game))
      OBVIOUS
    <3> HIDE DEF Q
    <3> QED  BY <3>1, <2>1, <1>1, GiveUpBanded, GiveUpBegun
  <2>3. PlayerList(game') \cap Running(game') = {}
    BY <2>2 DEF PlayerList, Running, Present, Terminal
  <2> QED  BY <2>1, <2>2, <2>3
<1>9. ASSUME FinishGameIteration PROVE Goal
  <2>1. PICK hits \in Outcomes(game) : game' = FinishStep(game, hits)
    BY <1>9 DEF FinishGameIteration
  <2>2. finishing /\ finishing' = finishing /\ PlayerList(game) \cap Running(game) = {}
    BY <1>9 DEF FinishGameIteration, RInv
  <2>3. game.stage # "FINISHED"
    BY <1>9 DEF FinishGameIteration
  <2>4. Banded(game') /\ PlayerList(game') \cap Running(game') = {}
    BY <1>1, <2>1, <2>2, <2>3, LoopAdvances
  <2>5. finishing \in BOOLEAN
    BY DEF RInv
  <2> QED  BY <2>2, <2>4, <2>5
<1>10. ASSUME FinishGameReturn PROVE Goal
  BY <1>1, <1>10 DEF FinishGameReturn
<1>11. \A p \in Player : ~CallAddPlayer(p)
  BY <1>1 DEF CallAddPlayer, CanAddPlayer, Started
<1>12. \A c \in Computer : ~CallAddComputer(c) /\ ~CallSwitchBrain(c)
  BY <1>1 DEF CallAddComputer, CanAddComputer, CallSwitchBrain, Started
<1> HIDE DEF Goal
<1>13. Goal
  BY <1>3, <1>4, <1>5, <1>6, <1>7, <1>8, <1>9, <1>10, <1>11, <1>12 DEF Next, AnyStage
<1> QED  BY <1>13 DEF Goal

(* A restored game that is given up for a new one is a game like any other.*)
LEMMA PlayAnew ==
  ASSUME RInv, restored, CallInitGame
  PROVE  IInv' /\ ~Started'
<1>1. Banded(game) /\ game \in Game
  BY DEF RInv, Banded, Begun
<1>2. GoodRound(game') /\ Open(game') /\ game'.stage = "WAIT_A_NUMBER"
  BY <1>1, InitGameGood DEF CallInitGame
<1>3. finishing' = FALSE
  <2>1. finishing \in BOOLEAN
    BY DEF RInv
  <2> QED  BY <2>1 DEF CallInitGame, Idle
<1> QED  BY <1>2, <1>3 DEF IInv, Started

LEMMA NextRInv == RInv /\ [RestoreNext]_restoreVars => RInv'
<1> SUFFICES ASSUME RInv, [RestoreNext]_restoreVars PROVE RInv'
  OBVIOUS
<1>1. CASE Restore
  <2>1. finishing = FALSE /\ finishing' = FALSE /\ restored = FALSE /\ restored' = TRUE
    BY <1>1, Zenon DEF Restore, Idle, RInv
  <2>2. GoodRound(game) /\ Open(game) /\ game.stage # "WAIT_A_NUMBER"
    BY <1>1, <2>1 DEF Restore, RInv, IInv, Started
  <2>3. PICK p \in Present(game) : game' = RestoreGame(game.aim[p], Told(game))
    BY <1>1 DEF Restore
  <2>4. Banded(game')
    BY <1>1, <2>2, <2>3, RestoreOfGood DEF Restore
  <2>5. Banded(game)'
    BY <2>4
  <2> QED  BY <2>1, <2>5 DEF RInv
<1>2. ASSUME Play, ~restored PROVE RInv'
  <2>1. restored' = FALSE
    BY <1>2, Zenon DEF Play
  <2>2. IInv'
    BY <1>2, NextIInv DEF Play, RInv
  <2>3. finishing' \in BOOLEAN
    BY <2>2 DEF IInv
  <2> QED  BY <2>1, <2>2, <2>3 DEF RInv
<1>3. ASSUME Play, restored, CallInitGame PROVE RInv'
  <2>1. IInv' /\ ~Started'
    BY <1>3, PlayAnew
  <2>2. restored' = FALSE
    BY <1>3, <2>1, Zenon DEF Play
  <2>3. finishing' \in BOOLEAN
    BY <2>1 DEF IInv
  <2> QED  BY <2>1, <2>2, <2>3 DEF RInv
<1>4. ASSUME Play, restored, ~CallInitGame PROVE RInv'
  <2>1. /\ Banded(game') /\ finishing' \in BOOLEAN
        /\ finishing' => PlayerList(game') \cap Running(game') = {}
    BY <1>4, PlayBanded DEF Play
  <2>2. Started'
    BY <2>1 DEF Banded, Begun, Started
  <2>3. restored' = TRUE
    BY <1>4, <2>2, Zenon DEF Play, RInv
  <2>4. Banded(game)' /\ (PlayerList(game) \cap Running(game))' = PlayerList(game') \cap Running(game')
    BY <2>1
  <2> QED  BY <2>1, <2>3, <2>4 DEF RInv
<1>5. CASE UNCHANGED restoreVars
  BY <1>5 DEF restoreVars, RInv, IInv, Started
<1> QED  BY <1>1, <1>2, <1>3, <1>4, <1>5 DEF RestoreNext

LEMMA RInvImplies == RInv => NobodyLeftBehind /\ RaceStaysFair
<1> SUFFICES ASSUME RInv, InPlay(game) PROVE NobodyLeftBehind /\ RaceStaysFair
  BY DEF NobodyLeftBehind, RaceStaysFair
<1>1. Banded(game)
  <2>1. CASE restored
    BY <2>1 DEF RInv
  <2>2. CASE ~restored
    BY <2>2, GoodIsBanded DEF RInv, IInv, InPlay
  <2> QED  BY <2>1, <2>2
<1>2. PICK b \in Nat : Base(game, b)
  BY <1>1 DEF Banded
<1>3. \A p \in Running(game) : game.attempts[p] \in {b, b + 1}
  BY <1>1, <1>2, BegunRunning DEF Banded, Base
<1>4. game.step \in Nat /\ game.step <= b
  BY <1>1, <1>2 DEF Banded, Begun, Base, Game
<1>5. NobodyLeftBehind
  BY <1>3, <1>4 DEF NobodyLeftBehind
<1>6. RaceStaysFair
  BY <1>3 DEF RaceStaysFair
<1> QED  BY <1>5, <1>6

-----------------------------------------------------------------------------
(* The invariant of games that may have been restored (restoreGame).       *)
THEOREM RestoreInductive == RestoreSpec => []RInv
<1>1. RestoreInit => RInv
  BY InitRInv
<1>2. RInv /\ [RestoreNext]_restoreVars => RInv'
  BY NextRInv
<1> QED  BY <1>1, <1>2, PTL DEF RestoreSpec

(* A game, restored or not, has no running process behind its step counter *)
(* (restoreGame, doComputersStep).                                         *)
THEOREM NobodyLeftBehindCorrect == RestoreSpec => []NobodyLeftBehind
BY RestoreInductive, RInvImplies, PTL

(* After a restore as before it, no process still guessing is more than a  *)
(* guess ahead of another (restoreGame, doPlayerStep, FinishStep).         *)
THEOREM RaceStaysFairCorrect == RestoreSpec => []RaceStaysFair
BY RestoreInductive, RInvImplies, PTL

(* The loop of FinishGame ends in a restored game too: first the counter   *)
(* catches up with the computers, a round that moves nobody each time.     *)
THEOREM RestoredFinishGoesOn == RestoreSpec => FinishGameAdvances
<1>1. RInv /\ [RestoreNext]_restoreVars =>
        [finishing /\ game.stage # "FINISHED" =>
           RoundsLeft(game') \in 0 .. RoundsLeft(game) - 1]_vars
  <2> SUFFICES ASSUME RInv, RestoreNext, finishing, game.stage # "FINISHED"
               PROVE  RoundsLeft(game') \in 0 .. RoundsLeft(game) - 1
    BY DEF vars, restoreVars
  <2>1. FinishGameIteration
    BY DEF RestoreNext, Restore, Play, Next, AnyStage, Idle, CallInitGame, CallAddPlayer,
       CallAddComputer, CallRemove, CallSwitchBrain, CallStartGame, CallDoPlayerStep,
       CallPlayerGiveUp, CallFinishStep, CallFinishGame, FinishGameReturn
  <2>2. PICK hits \in Outcomes(game) : game' = FinishStep(game, hits)
    BY <2>1 DEF FinishGameIteration
  <2>3. Banded(game) /\ PlayerList(game) \cap Running(game) = {}
    BY GoodIsBanded DEF RInv, IInv, Started
  <2> QED  BY <2>2, <2>3, LoopAdvances
<1> QED  BY <1>1, RestoreInductive, PTL DEF RestoreSpec, FinishGameAdvances

-----------------------------------------------------------------------------
(* A process that is not in a game has no guesses there: what RESTORE_GAME *)
(* does not tell of it is nothing.                                         *)
AbsentAreNew ==
  ~restored => \A p \in Process : game.state[p] = "ABSENT" => game.attempts[p] = 0

(* No call gives a guess to a process that has left.                       *)
LEMMA NextAbsent ==
  ASSUME RInv, RInv', AbsentAreNew, [RestoreNext]_restoreVars
  PROVE  AbsentAreNew'
<1>1. CASE ~restored /\ Play
  <2>1. IInv /\ [Next]_vars
    BY <1>1 DEF RInv, Play
  <2>2. IInv'
    BY <2>1, NextIInv
  <2>3. /\ \A p \in Process : game.state[p] = "ABSENT" => game.attempts[p] = 0
        /\ GoodRound(game) /\ GoodRound(game')
    BY <1>1, <2>1, <2>2 DEF AbsentAreNew, IInv
  <2>4. \A p \in Process : game'.state[p] = "ABSENT" => game'.attempts[p] = 0
    <3>1. CASE PlayStep(game, game') /\ Punctual(game, game')
      BY <2>3, <3>1 DEF PlayStep, Kept, Moved
    <3>2. CASE game'.stage = "WAIT_A_NUMBER"
      BY <2>3, <3>2 DEF GoodRound, GoodLobby
    <3>3. CASE StartStep(game, game')
      BY <2>3, <3>3 DEF StartStep, GoodRound, GoodLobby
    <3>4. CASE \E p \in Process : LeaveStep(game, game', p)
      <4>1. PICK p \in Process : LeaveStep(game, game', p)
        BY <3>4
      <4>2. game.attempts \in [Process -> Nat] /\ game.state \in [Process -> ProcessState]
        BY <2>3 DEF GoodRound, Game
      <4> QED  BY <2>3, <4>1, <4>2 DEF LeaveStep
    <3>5. CASE SameStepOf(game, game')
      BY <2>3, <3>5 DEF SameStepOf
    <3> QED  BY <2>1, <3>1, <3>2, <3>3, <3>4, <3>5, StepShape
  <2> QED  BY <2>4 DEF AbsentAreNew
<1>2. CASE restored /\ Play /\ CallInitGame
  <2>1. IInv' /\ ~Started'
    BY <1>2, PlayAnew
  <2>2. \A p \in Process : game'.attempts[p] = 0
    BY <2>1 DEF IInv, GoodRound, GoodLobby, Started
  <2> QED  BY <2>2 DEF AbsentAreNew
<1>3. CASE restored /\ Play /\ ~CallInitGame
  <2>1. Started'
    BY <1>3, PlayBanded DEF Play, Banded, Begun, Started
  <2>2. restored'
    BY <1>3, <2>1, Zenon DEF Play
  <2> QED  BY <2>2 DEF AbsentAreNew
<1>4. CASE Restore
  <2>1. restored'
    BY <1>4, Zenon DEF Restore
  <2> QED  BY <2>1 DEF AbsentAreNew
<1>5. CASE UNCHANGED restoreVars
  BY <1>5 DEF restoreVars, AbsentAreNew
<1> QED  BY <1>1, <1>2, <1>3, <1>4, <1>5 DEF RestoreNext

(* restoreGame loses nothing of any process, and nothing of the round      *)
(* while everybody is still guessing.                                      *)
THEOREM RestoreIsExactCorrect == RestoreSpec => RestoreIsExact
<1>1. RestoreInit => AbsentAreNew
  BY DEF RestoreInit, Init, EmptyGame, AbsentAreNew
<1>2. RInv /\ RInv' /\ AbsentAreNew /\ [RestoreNext]_restoreVars => AbsentAreNew'
  BY NextAbsent
<1>3. RInv /\ AbsentAreNew /\ [RestoreNext]_restoreVars =>
        [~restored /\ restored' =>
           /\ game'.state = game.state
           /\ game'.attempts = game.attempts
           /\ \A p \in Present(game) : game'.aim[p] = game.aim[p]
           /\ Present(game) = Running(game) =>
                /\ game'.stage = game.stage
                /\ game'.step = game.step
                /\ game'.winners = game.winners]_restoreVars
  <2> SUFFICES ASSUME RInv, AbsentAreNew, RestoreNext, ~restored, restored'
               PROVE  /\ game'.state = game.state
                      /\ game'.attempts = game.attempts
                      /\ \A p \in Present(game) : game'.aim[p] = game.aim[p]
                      /\ Present(game) = Running(game) =>
                           /\ game'.stage = game.stage
                           /\ game'.step = game.step
                           /\ game'.winners = game.winners
    BY DEF restoreVars
  <2>1. ~Play
    BY Zenon DEF Play
  <2>2. Restore
    BY <2>1 DEF RestoreNext
  <2>3. finishing = FALSE
    BY <2>2 DEF Restore, Idle, RInv
  <2>4. GoodRound(game) /\ Open(game) /\ game.stage # "WAIT_A_NUMBER" /\ CanTell(game)
    BY <2>2, <2>3 DEF Restore, RInv, IInv, Started
  <2>5. PICK p \in Present(game) : game' = RestoreGame(game.aim[p], Told(game))
    BY <2>2 DEF Restore
  <2>6. /\ game'.state = game.state
        /\ game'.attempts = [q \in Process |->
                              IF q \in Present(game) THEN game.attempts[q] ELSE 0]
        /\ game'.aim = [q \in Process |-> IF q \in Present(game) THEN game.aim[p] ELSE NoSecret]
    BY <2>4, <2>5, RestoredFields DEF RestoredFrom
  <2>7. game'.attempts = game.attempts
    <3>1. game.attempts \in [Process -> Nat]
      BY <2>4 DEF GoodRound, Game
    <3>2. \A q \in Process : q \notin Present(game) => game.attempts[q] = 0
      BY DEF AbsentAreNew, Present
    <3> QED  BY <2>6, <3>1, <3>2
  <2>8. \A q \in Present(game) : game'.aim[q] = game.aim[q]
    <3>1. \A q \in Present(game) : q \in Process /\ game.aim[q] = game.aim[p]
      BY <2>4 DEF GoodRound, GoodSecret, Present
    <3> QED  BY <2>6, <3>1
  <2>9. Present(game) = Running(game) =>
          game'.stage = game.stage /\ game'.step = game.step /\ game'.winners = game.winners
    BY <2>4, <2>5, RestoreOfRunning
  <2> QED  BY <2>6, <2>7, <2>8, <2>9
<1> QED  BY <1>1, <1>2, <1>3, RestoreInductive, PTL DEF RestoreSpec, RestoreIsExact
=============================================================================
