------------------------ MODULE GameControllerProofs ------------------------
(***************************************************************************)
(* Proofs about GameController, for every set of players, computers and    *)
(* secrets and every value of the bounds.                                  *)
(***************************************************************************)
EXTENDS GameResults, GameIsRace, GameOpsProofs

-----------------------------------------------------------------------------
LEMMA InitIInv == Init => IInv
<1> SUFFICES ASSUME Init PROVE IInv
  OBVIOUS
<1>1. game = EmptyGame /\ finishing = FALSE
  BY DEF Init
<1>2. EmptyGame \in Game
  BY DEF EmptyGame, Game, GameStage, ProcessState
<1>3. /\ GoodLobby(EmptyGame) /\ GoodAttempts(EmptyGame) /\ GoodEnd(EmptyGame)
      /\ GoodRace(EmptyGame) /\ GoodWinners(EmptyGame) /\ GoodSecret(EmptyGame)
      /\ Open(EmptyGame)
  BY DEF EmptyGame, GoodLobby, GoodAttempts, GoodEnd, GoodRace, GoodWinners,
     GoodSecret, Open, InPlay, ComputerList, Present
<1> QED  BY <1>1, <1>2, <1>3 DEF IInv, GoodRound

(* Every call, and every iteration of FinishGame, preserves IInv.          *)
LEMMA NextIInv == IInv /\ [Next]_vars => IInv'
<1> SUFFICES ASSUME IInv, [Next]_vars PROVE IInv'
  OBVIOUS
<1>1. /\ GoodRound(game) /\ game \in Game /\ finishing \in BOOLEAN
      /\ ~finishing => Open(game)
  BY DEF IInv, GoodRound
<1> DEFINE Between == GoodRound(game') /\ Open(game') /\ finishing' = FALSE
<1>2. ASSUME Between PROVE IInv'
  <2>1. GoodRound(game)' /\ Open(game)'
    BY <1>2
  <2> QED  BY <2>1, <1>2 DEF IInv
<1>3. ASSUME CallInitGame PROVE Between
  BY <1>1, <1>3, InitGameGood DEF CallInitGame, Idle
<1>4. ASSUME NEW p \in Player, CallAddPlayer(p) PROVE Between
  BY <1>1, <1>4, InitGameGood, ListOpsTyped DEF CallAddPlayer, Idle
<1>5. ASSUME NEW c \in Computer, CallAddComputer(c) PROVE Between
  BY <1>1, <1>5, InitGameGood, ListOpsTyped DEF CallAddComputer, Idle
<1>6. ASSUME NEW p \in Process, CallRemove(p) PROVE Between
  BY <1>1, <1>6, RemoveGood DEF CallRemove, Idle
<1>7. ASSUME NEW c \in Computer, CallSwitchBrain(c) PROVE Between
  BY <1>1, <1>7, InitGameGood, ListOpsTyped DEF CallSwitchBrain, Idle
<1>8. ASSUME NEW s \in Secret, CallStartGame(s) PROVE Between
  BY <1>1, <1>8, StartGameGood DEF CallStartGame, Idle
<1>9. ASSUME NEW p \in Player, CallDoPlayerStep(p) PROVE Between
  BY <1>1, <1>9, DoPlayerStepGood DEF CallDoPlayerStep, Idle
<1>10. ASSUME NEW p \in Player, CallPlayerGiveUp(p) PROVE Between
  BY <1>1, <1>10, PlayerGiveUpGood DEF CallPlayerGiveUp, Idle
<1>11. ASSUME Started, CallFinishStep PROVE Between
  <2>1. PICK hits \in Outcomes(game) : game' = FinishStep(game, hits)
    BY <1>11 DEF CallFinishStep
  <2>2. UnsteppedPlayers(game) = {} /\ finishing' = FALSE
    BY <1>11 DEF CallFinishStep, Idle
  <2>3. game' = CloseRound(game, hits)
    BY <2>1, <2>2 DEF FinishStep
  <2> QED  BY <2>2, <2>3, <1>1, <1>11, CloseRoundGood DEF Started
<1>12. ASSUME Started, CallFinishGame PROVE IInv'
  <2> DEFINE Q == PlayerList(game) \cap Running(game)
  <2>1. game' = GiveUp(game, Q) /\ finishing' = TRUE
    BY <1>12 DEF CallFinishGame, GiveUpAll
  <2>2. /\ GoodRound(game') /\ game'.stage = game.stage
        /\ \A p \in Process : game'.state[p] = IF p \in Q THEN "GAVE_UP" ELSE game.state[p]
    <3>1. Q \in SUBSET (PlayerList(game) \cap Running(game)) /\ game.stage # "WAIT_A_NUMBER"
      BY <1>12 DEF Started
    <3> HIDE DEF Q
    <3> QED  BY <3>1, <2>1, <1>1, GivingUpGood
  <2>3. PlayerList(game') \cap Running(game') = {}
    BY <2>2 DEF PlayerList, Running, Present, Terminal
  <2>4. GoodRound(game)' /\ Started' /\ (PlayerList(game) \cap Running(game) = {})'
    BY <2>2, <2>3, <1>12 DEF Started
  <2> QED  BY <2>1, <2>4 DEF IInv
<1>13. ASSUME FinishGameIteration PROVE IInv'
  <2>1. PICK hits \in Outcomes(game) : game' = FinishStep(game, hits)
    BY <1>13 DEF FinishGameIteration
  <2>2. /\ finishing /\ finishing' = TRUE /\ game.stage # "WAIT_A_NUMBER"
        /\ PlayerList(game) \cap Running(game) = {}
    BY <1>13, <1>1 DEF FinishGameIteration, IInv, Started
  <2>3. UnsteppedPlayers(game) = {}
    BY <2>2 DEF UnsteppedPlayers, UnsteppedAt, PlayerList, Running
  <2>4. game' = CloseRound(game, hits)
    BY <2>1, <2>3 DEF FinishStep
  <2>5. GoodRound(game') /\ Open(game')
    BY <2>2, <2>3, <2>4, <1>1, CloseRoundGood
  <2>6. /\ game'.stage # "WAIT_A_NUMBER"
        /\ \A p \in Process : game'.state[p] \in {"FINISHED", game.state[p]}
        /\ \A p \in Player : p \in Process => game'.state[p] = game.state[p]
    <3>1. hits \in SUBSET Movers(game)
      BY <2>1 DEF Outcomes
    <3>2. \A p \in hits : p \notin Player
      BY <3>1, ProcessAssumption DEF Movers, ComputerList
    <3>3. /\ game'.stage = "FINISHED" \/ game'.stage = game.stage
             \/ game'.stage = "IN_PROGRESS_WINNER_DEFINED"
          /\ game'.state = [p \in Process |->
                IF p \in hits THEN "FINISHED" ELSE game.state[p]]
      BY <3>1, <2>4, <1>1, CloseRoundFields
    <3> QED  BY <3>2, <3>3, <2>2
  <2>7. PlayerList(game') \cap Running(game') = {}
    BY <2>2, <2>6 DEF PlayerList, Running, Present
  <2>8. GoodRound(game)' /\ Started' /\ (PlayerList(game) \cap Running(game) = {})'
    BY <2>5, <2>6, <2>7 DEF Started
  <2> QED  BY <2>2, <2>8 DEF IInv
<1>14. ASSUME FinishGameReturn PROVE Between
  BY <1>1, <1>14 DEF FinishGameReturn, Open, InPlay
<1>15. ASSUME UNCHANGED vars PROVE IInv'
  BY <1>15 DEF vars, IInv, Started
<1> HIDE DEF Between
<1> QED
  BY <1>2, <1>3, <1>4, <1>5, <1>6, <1>7, <1>8, <1>9, <1>10, <1>11, <1>12, <1>13,
     <1>14, <1>15 DEF Next, AnyStage

(* The invariants that the model checker checks follow from IInv.          *)
LEMMA IInvImplies ==
  IInv => /\ TypeOK /\ RoundBand /\ RoundOpen /\ FinishedMeansDone
          /\ WinnersAreBest /\ WinnerOnTime /\ SameSecretForAll
<1> SUFFICES ASSUME IInv
             PROVE  /\ TypeOK /\ RoundBand /\ RoundOpen /\ FinishedMeansDone
                    /\ WinnersAreBest /\ WinnerOnTime /\ SameSecretForAll
  OBVIOUS
<1>1. /\ GoodRound(game) /\ game \in Game /\ finishing \in BOOLEAN
      /\ ~finishing => Open(game)
      /\ finishing => PlayerList(game) \cap Running(game) = {}
  BY DEF IInv, GoodRound
<1>2. TypeOK
  BY <1>1 DEF TypeOK
<1>3. ASSUME InPlay(game), NEW p \in Process, p \in Running(game)
      PROVE  /\ game.state[p] = "IN_PROGRESS"
             /\ game.attempts[p] \in {game.step, game.step + 1}
             /\ p \in Computer => game.attempts[p] = game.step
  BY <1>1, <1>3 DEF GoodRound, GoodAttempts, Running, Present, Game, ProcessState, Terminal
<1>4. RoundBand
  BY <1>3 DEF RoundBand, PlayerList, ComputerList, Present
<1>5. RoundOpen
  <2> SUFFICES ASSUME InPlay(game), NEW p \in PlayerList(game) \cap Running(game)
               PROVE  UnsteppedPlayers(game) # {}
    BY DEF RoundOpen
  <2>1. p \in Process /\ game.attempts[p] \in {game.step, game.step + 1} /\ game.step \in Nat
    BY <1>1, <1>3 DEF PlayerList, Present, Game
  <2>2. CASE game.attempts[p] = game.step
    BY <2>2 DEF UnsteppedPlayers, UnsteppedAt, Running
  <2>3. CASE game.attempts[p] > game.step
    BY <2>3, <1>1 DEF Open
  <2> QED  BY <2>1, <2>2, <2>3
<1>6. FinishedMeansDone
  BY <1>1 DEF FinishedMeansDone, GoodRound, GoodEnd, Open, Running, Present
<1>7. WinnersAreBest
  BY <1>1 DEF WinnersAreBest, GoodRound, GoodWinners, Present, Game
<1>8. WinnerOnTime
  <2> SUFFICES ASSUME InPlay(game), ~finishing
               PROVE  game.winners # {} <=> Settled(game)
    BY DEF WinnerOnTime
  <2>1. CASE game.stage = "IN_PROGRESS_WINNER_DEFINED"
    <3>1. PICK w \in game.winners : game.state[w] = "FINISHED" /\ game.attempts[w] <= game.step
      BY <2>1, <1>1 DEF GoodRound, GoodWinners
    <3>2. w \in Process /\ game.attempts[w] \in Nat /\ game.step \in Nat
      BY <3>1, <1>1 DEF Game
    <3>3. w \in Present(game)
      BY <3>1, <3>2 DEF Present
    <3>4. \A p \in Running(game) : p \in Process /\ game.attempts[p] \in {game.step, game.step + 1}
      BY <1>3 DEF Running, Present
    <3>5. \A p \in Running(game) : game.attempts[p] >= game.attempts[w]
      BY <3>1, <3>2, <3>4
    <3> QED  BY <3>1, <3>3, <3>5 DEF Settled
  <2>2. CASE game.stage = "IN_PROGRESS"
    <3>1. game.winners = {}
      BY <2>2, <1>1 DEF GoodRound, GoodRace
    <3>2. SUFFICES ASSUME NEW q \in Present(game), game.state[q] = "FINISHED"
                   PROVE  \E p \in Running(game) : ~(game.attempts[p] >= game.attempts[q])
      BY <3>1, <3>2 DEF Settled
    <3>3. q \in Process /\ game.attempts[q] > game.step
      BY <2>2, <3>2, <1>1 DEF GoodRound, GoodRace, Present
    <3>4. game.attempts[q] \in Nat /\ game.step \in Nat
      BY <3>3, <1>1 DEF Game
    <3>5. q \notin Computer
      BY <3>2, <3>3, <3>4, <1>1 DEF GoodRound, GoodAttempts
    <3>6. q \in PlayerList(game)
      BY <3>2, <3>3, <3>5 DEF PlayerList, Process
    <3>7. PICK p \in UnsteppedPlayers(game) : TRUE
      BY <3>3, <3>6, <1>1 DEF Open
    <3>8. p \in Running(game) /\ game.attempts[p] = game.step
      BY <3>7 DEF UnsteppedPlayers, UnsteppedAt, Running, PlayerList
    <3> QED  BY <3>3, <3>4, <3>8
  <2> QED  BY <2>1, <2>2 DEF InPlay
<1>9. SameSecretForAll
  <2> SUFFICES ASSUME InPlay(game), NEW p \in Running(game), NEW q \in Running(game)
               PROVE  /\ game.aim[p] # NoSecret
                      /\ game.aim[p] = game.aim[q]
                      /\ p \in Computer => p \in game.ready
    BY DEF SameSecretForAll
  <2>1. p \in Present(game) /\ q \in Present(game)
    BY DEF Running
  <2>2. game.aim[p] = game.aim[q] /\ game.aim[p] \in Secret
    BY <2>1, <1>1 DEF GoodRound, GoodSecret, InPlay
  <2>3. p \in Computer => p \in game.ready
    BY <2>1, <1>1 DEF GoodRound, GoodSecret, ComputerList
  <2> QED  BY <2>2, <2>3, SecretAssumption
<1> QED  BY <1>2, <1>4, <1>5, <1>6, <1>7, <1>8, <1>9

(* The inductive invariant holds in every reachable state.                 *)
THEOREM Inductive == Spec => []IInv
<1>1. Init => IInv
  BY InitIInv
<1>2. IInv /\ [Next]_vars => IInv'
  BY NextIInv
<1> QED  BY <1>1, <1>2, PTL DEF Spec

(* The members of TGameController keep their types.                        *)
THEOREM TypeCorrect == Spec => []TypeOK
BY Inductive, IInvImplies, PTL

(* Rounds: nobody runs ahead or falls behind.                              *)
THEOREM RoundsCorrect == Spec => []RoundBand
BY Inductive, IInvImplies, PTL

(* A game with a running player always waits for one.                      *)
THEOREM RoundsOpenCorrect == Spec => []RoundOpen
BY Inductive, IInvImplies, PTL

(* The stage is FINISHED exactly when nobody is left to guess.             *)
THEOREM FinishCorrect == Spec => []FinishedMeansDone
BY Inductive, IInvImplies, PTL

(* The winners are exactly the processes that hit with the fewest guesses. *)
THEOREM WinnersCorrect == Spec => []WinnersAreBest
BY Inductive, IInvImplies, PTL

(* The winners are announced as soon as nobody can still catch up.         *)
THEOREM WinnersOnTimeCorrect == Spec => []WinnerOnTime
BY Inductive, IInvImplies, PTL

(* Everybody guesses the same, existing secret.                            *)
THEOREM SecretCorrect == Spec => []SameSecretForAll
BY Inductive, IInvImplies, PTL

-----------------------------------------------------------------------------
(* Every step of a game is one of these five.                              *)
LEMMA StepShape ==
  ASSUME IInv, [Next]_vars
  PROVE  \/ PlayStep(game, game') /\ Punctual(game, game')
         \/ game'.stage = "WAIT_A_NUMBER"
         \/ StartStep(game, game')
         \/ \E p \in Process : LeaveStep(game, game', p)
         \/ SameStepOf(game, game')
<1> DEFINE Shape ==
             \/ PlayStep(game, game') /\ Punctual(game, game')
             \/ game'.stage = "WAIT_A_NUMBER"
             \/ StartStep(game, game')
             \/ \E p \in Process : LeaveStep(game, game', p)
             \/ SameStepOf(game, game')
<1>1. GoodRound(game) /\ game \in Game /\ (Started => Begun(game))
  BY GoodIsBegun DEF IInv, GoodRound, Started
<1>2. ASSUME CallInitGame PROVE Shape
  BY <1>1, <1>2 DEF CallInitGame, InitGame, Game
<1>3. ASSUME NEW p \in Player, CallAddPlayer(p) PROVE Shape
  BY <1>1, <1>3 DEF CallAddPlayer, InitGame, AddPlayer, Game
<1>4. ASSUME NEW c \in Computer, CallAddComputer(c) PROVE Shape
  BY <1>1, <1>4 DEF CallAddComputer, InitGame, AddComputer, Game
<1>5. ASSUME NEW p \in Process, CallRemove(p) PROVE Shape
  <2>1. game' = RemoveProcess(game, p) /\ CanRemove(game, p)
    BY <1>5 DEF CallRemove
  <2>2. CASE game.stage = "FINISHED"
    BY <1>1, <2>1, <2>2, RemoveBegun DEF Started
  <2>3. CASE game.stage = "WAIT_A_NUMBER"
    BY <1>1, <2>1, <2>3 DEF RemoveProcess, Game
  <2> QED  BY <2>1, <2>2, <2>3 DEF CanRemove
<1>6. ASSUME NEW c \in Computer, CallSwitchBrain(c) PROVE Shape
  BY <1>1, <1>6 DEF CallSwitchBrain, InitGame, SwitchGameBrain, Game
<1>7. ASSUME NEW s \in Secret, CallStartGame(s) PROVE Shape
  <2>1. game' = StartGame(game, s)
    BY <1>7 DEF CallStartGame
  <2>2. CASE ~Started
    <3>1. /\ game'.stage = "IN_PROGRESS" /\ game'.step = game.step
          /\ game'.winners = game.winners /\ game'.attempts = game.attempts
          /\ game'.state = [p \in Process |->
                IF p \in Present(game) THEN "IN_PROGRESS" ELSE "ABSENT"]
      BY <2>1, <2>2, <1>1 DEF StartGame, Game, Started
    <3> QED  BY <3>1, <2>2 DEF StartStep, Started
  <2>3. CASE Started
    BY <1>1, <2>1, <2>3, StartGameBegun
  <2> QED  BY <2>2, <2>3
<1>8. ASSUME NEW p \in Player, CallDoPlayerStep(p) PROVE Shape
  <2>1. PICK hit \in BOOLEAN, hits \in Outcomes(game) :
           CanStep(game, p) /\ game' = DoPlayerStep(game, p, hit, hits)
    BY <1>8 DEF CallDoPlayerStep
  <2>2. Started
    BY <1>1, <2>1, InProgressInPlay DEF CanStep, PlayerList, Present, InPlay, Started
  <2> QED  BY <1>1, <2>1, <2>2, DoPlayerStepBegun, MovesArePunctual
<1>9. ASSUME NEW p \in Player, CallPlayerGiveUp(p) PROVE Shape
  <2>1. PICK hits \in Outcomes(game) :
           CanGiveUp(game, p) /\ game' = PlayerGiveUp(game, p, hits)
    BY <1>9 DEF CallPlayerGiveUp
  <2>2. Started
    BY <1>1, <2>1, InProgressInPlay DEF CanGiveUp, PlayerList, Present, InPlay, Started
  <2> QED  BY <1>1, <2>1, <2>2, PlayerGiveUpBegun, MovesArePunctual
<1>10. ASSUME Started, NEW hits \in Outcomes(game), game' = FinishStep(game, hits)
       PROVE  Shape
  BY <1>1, <1>10, FinishStepBegun, FinishStepPunctual DEF Started
<1>11. ASSUME Started, CallFinishStep \/ FinishGameIteration PROVE Shape
  BY <1>10, <1>11 DEF CallFinishStep, FinishGameIteration
<1>12. FinishGameIteration => Started
  BY DEF FinishGameIteration, IInv
<1>13. ASSUME Started, CallFinishGame PROVE Shape
  <2> DEFINE Q == PlayerList(game) \cap Running(game)
  <2>1. game' = GiveUp(game, Q) /\ Q \in SUBSET (PlayerList(game) \cap Running(game))
    BY <1>13 DEF CallFinishGame, GiveUpAll
  <2> HIDE DEF Q
  <2>2. PlayStep(game, game') /\ game'.step = game.step
    BY <1>1, <1>13, <2>1, GiveUpBegun
  <2> QED  BY <2>2 DEF Punctual
<1>14. ASSUME FinishGameReturn \/ UNCHANGED vars PROVE Shape
  BY <1>14 DEF FinishGameReturn, vars, SameStepOf
<1> HIDE DEF Shape
<1>15. Shape
  BY <1>2, <1>3, <1>4, <1>5, <1>6, <1>7, <1>8, <1>9, <1>11, <1>12, <1>13, <1>14
  DEF Next, AnyStage
<1> QED  BY <1>15 DEF Shape

-----------------------------------------------------------------------------
(* Each kind of step keeps what the action properties ask.                 *)
LEMMA ActionsKept ==
  ASSUME IInv, IInv', [Next]_vars
  PROVE  /\ game.winners # {} => game'.winners = game.winners \/ ~Started'
         /\ \A p \in Process :
              game.state[p] \in Terminal /\ Started' =>
                \/ game'.state[p] = "ABSENT"
                \/ /\ game'.state[p] = game.state[p]
                   /\ game'.attempts[p] = game.attempts[p]
         /\ \A p \in Process :
              \/ game'.attempts[p] > game.attempts[p]
              \/ game'.state[p] = "GAVE_UP" /\ game.state[p] # "GAVE_UP"
              => game.state[p] = "IN_PROGRESS"
         /\ Started /\ game'.step > game.step =>
              /\ game'.step = game.step + 1
              /\ \A p \in Process : game'.attempts[p] <= game.attempts[p] + 1
              /\ \A c \in ComputerList(game) \cap Running(game) :
                    game'.attempts[c] = game.attempts[c] + 1
<1>1. /\ GoodRound(game) /\ GoodRound(game')
      /\ game.step \in Nat /\ game'.step \in Nat
      /\ \A p \in Process : game.attempts[p] \in Nat /\ game'.attempts[p] \in Nat
  BY DEF IInv, GoodRound, Game
<1>2. CASE PlayStep(game, game') /\ Punctual(game, game')
  <2>1. game.winners # {} => game'.winners = game.winners
    BY <1>1, <1>2 DEF PlayStep, Named, GoodRound, GoodRace
  <2>2. \A p \in Process : /\ Kept(game, game', p) \/ Moved(game, game', p)
                          /\ game'.attempts[p] <= game.attempts[p] + 1
    BY <1>1, <1>2 DEF PlayStep, Kept, Moved
  <2>3. \A p \in Process :
          /\ game.state[p] \in Terminal => Kept(game, game', p)
          /\ \/ game'.attempts[p] > game.attempts[p]
             \/ game'.state[p] = "GAVE_UP" /\ game.state[p] # "GAVE_UP"
             => game.state[p] = "IN_PROGRESS"
    BY <1>1, <2>2 DEF Kept, Moved, Terminal
  <2>4. game'.step > game.step =>
          /\ game'.step = game.step + 1
          /\ \A c \in ComputerList(game) \cap Running(game) :
                game'.attempts[c] = game.attempts[c] + 1
    BY <1>1, <1>2 DEF PlayStep, Punctual
  <2> QED  BY <2>1, <2>2, <2>3, <2>4 DEF Kept
<1>3. CASE game'.stage = "WAIT_A_NUMBER"
  <2>1. /\ game'.step = 0
        /\ \A p \in Process :
              game'.state[p] \in {"ABSENT", "WAIT_A_NUMBER"} /\ game'.attempts[p] = 0
    BY <1>1, <1>3 DEF GoodRound, GoodLobby
  <2> QED  BY <1>1, <1>3, <2>1 DEF Started
<1>4. CASE StartStep(game, game')
  BY <1>1, <1>4 DEF StartStep, Started, GoodRound, GoodLobby, Terminal
<1>5. CASE \E p \in Process : LeaveStep(game, game', p)
  <2>1. PICK p \in Process : LeaveStep(game, game', p)
    BY <1>5
  <2>2. /\ game'.winners = game.winners /\ game'.step = game.step
        /\ game'.state[p] = "ABSENT" /\ game'.attempts[p] = 0
        /\ \A q \in Process \ {p} : Kept(game, game', q)
    BY <1>1, <2>1 DEF LeaveStep, Kept, GoodRound, Game
  <2> QED  BY <1>1, <2>2 DEF Kept
<1>6. CASE SameStepOf(game, game')
  BY <1>1, <1>6 DEF SameStepOf
<1> QED  BY <1>2, <1>3, <1>4, <1>5, <1>6, StepShape

(* Announced winners stay until the game is initialised again.             *)
THEOREM WinnersStayForever == Spec => WinnersStay
<1>1. IInv /\ IInv' /\ [Next]_vars =>
        [game.winners # {} => game'.winners = game.winners \/ ~Started']_vars
  BY ActionsKept
<1> QED  BY <1>1, Inductive, PTL DEF Spec, WinnersStay

(* Nobody guesses again after a hit or after giving up.                    *)
THEOREM TerminalStaysForever == Spec => TerminalStays
<1>1. IInv /\ IInv' /\ [Next]_vars =>
        [\A p \in Process :
           game.state[p] \in Terminal /\ Started' =>
             \/ game'.state[p] = "ABSENT"
             \/ /\ game'.state[p] = game.state[p]
                /\ game'.attempts[p] = game.attempts[p]]_vars
  BY ActionsKept
<1> QED  BY <1>1, Inductive, PTL DEF Spec, TerminalStays

(* The assertions of makeStep, appendGameValue and giveUp.                 *)
THEOREM OnlyInProgressEverPlay == Spec => OnlyInProgressPlay
<1>1. IInv /\ IInv' /\ [Next]_vars =>
        [\A p \in Process :
           \/ game'.attempts[p] > game.attempts[p]
           \/ game'.state[p] = "GAVE_UP" /\ game.state[p] # "GAVE_UP"
           => game.state[p] = "IN_PROGRESS"]_vars
  BY ActionsKept
<1> QED  BY <1>1, Inductive, PTL DEF Spec, OnlyInProgressPlay

(* A closed round has given each running computer exactly one guess.       *)
THEOREM EveryRoundIsFair == Spec => FairRound
<1>1. IInv /\ IInv' /\ [Next]_vars =>
        [Started /\ game'.step > game.step =>
           /\ game'.step = game.step + 1
           /\ \A p \in Process : game'.attempts[p] <= game.attempts[p] + 1
           /\ \A c \in ComputerList(game) \cap Running(game) :
                 game'.attempts[c] = game.attempts[c] + 1]_vars
  BY ActionsKept
<1> QED  BY <1>1, Inductive, PTL DEF Spec, FairRound

(* Every iteration of FinishGame that is not the last leaves fewer rounds  *)
(* to play, so its loop does not go on for ever.                           *)
THEOREM FinishGameGoesOn == Spec => FinishGameAdvances
<1>1. IInv /\ [Next]_vars =>
        [finishing /\ game.stage # "FINISHED" =>
           RoundsLeft(game') \in 0 .. RoundsLeft(game) - 1]_vars
  <2> SUFFICES ASSUME IInv, Next, finishing, game.stage # "FINISHED"
               PROVE  RoundsLeft(game') \in 0 .. RoundsLeft(game) - 1
    BY DEF vars
  <2>1. FinishGameIteration
    BY DEF Next, AnyStage, Idle, CallInitGame, CallAddPlayer, CallAddComputer, CallRemove,
       CallSwitchBrain, CallStartGame, CallDoPlayerStep, CallPlayerGiveUp, CallFinishStep,
       CallFinishGame, FinishGameReturn
  <2>2. PICK hits \in Outcomes(game) : game' = FinishStep(game, hits)
    BY <2>1 DEF FinishGameIteration
  <2>3. Banded(game) /\ PlayerList(game) \cap Running(game) = {}
    BY GoodIsBanded DEF IInv, Started
  <2> QED  BY <2>2, <2>3, LoopAdvances
<1> QED  BY <1>1, Inductive, PTL DEF Spec, FinishGameAdvances

-----------------------------------------------------------------------------
(* TGameController implements FairRace: each kind of step is a step of the *)
(* race.                                                                   *)

(* What a game shows of itself to the race.                                *)
LEMMA RaceView ==
  ASSUME NEW g, g \in Game
  PROVE  /\ \A p \in Process :
              /\ OutcomeOf(g)[p] = "in" <=> g.state[p] = "IN_PROGRESS"
              /\ OutcomeOf(g)[p] = "hit" <=> g.state[p] = "FINISHED"
              /\ OutcomeOf(g)[p] = "gave_up" <=> g.state[p] = "GAVE_UP"
              /\ OutcomeOf(g)[p] = "out" <=> g.state[p] \in {"ABSENT", "WAIT_A_NUMBER"}
         /\ OutcomeOf(g) \in [Process -> {"out", "in", "hit", "gave_up"}]
         /\ DOMAIN OutcomeOf(g) = Process
         /\ PhaseOf(g) = "lobby" <=> g.stage = "WAIT_A_NUMBER"
         /\ PhaseOf(g) = "over" <=> g.stage = "FINISHED"
         /\ PhaseOf(g) = "race" <=> InPlay(g)
<1>1. \A p \in Process : g.state[p] \in ProcessState
  BY DEF Game
<1>2. g.stage \in GameStage
  BY DEF Game
<1>3. /\ PhaseOf(g) = "lobby" <=> g.stage = "WAIT_A_NUMBER"
      /\ PhaseOf(g) = "over" <=> g.stage = "FINISHED"
      /\ PhaseOf(g) = "race" <=> InPlay(g)
  BY <1>2 DEF PhaseOf, InPlay, GameStage
<1>4. \A p \in Process :
        OutcomeOf(g)[p] = CASE g.state[p] = "IN_PROGRESS" -> "in"
                            [] g.state[p] = "FINISHED"    -> "hit"
                            [] g.state[p] = "GAVE_UP"     -> "gave_up"
                            [] OTHER                      -> "out"
  BY DEF OutcomeOf
<1>5. \A p \in Process :
        /\ OutcomeOf(g)[p] \in {"out", "in", "hit", "gave_up"}
        /\ OutcomeOf(g)[p] = "in" <=> g.state[p] = "IN_PROGRESS"
        /\ OutcomeOf(g)[p] = "hit" <=> g.state[p] = "FINISHED"
        /\ OutcomeOf(g)[p] = "gave_up" <=> g.state[p] = "GAVE_UP"
        /\ OutcomeOf(g)[p] = "out" <=> g.state[p] \in {"ABSENT", "WAIT_A_NUMBER"}
  BY <1>1, <1>4 DEF ProcessState, Terminal
<1>6. OutcomeOf(g) = [p \in Process |-> OutcomeOf(g)[p]]
  BY DEF OutcomeOf
<1> QED  BY <1>3, <1>5, <1>6

(* A game in the lobby shows nothing.                                      *)
LEMMA LobbyView ==
  ASSUME NEW g, GoodRound(g), g.stage = "WAIT_A_NUMBER"
  PROVE  /\ PhaseOf(g) = "lobby"
         /\ OutcomeOf(g) = [p \in Process |-> "out"]
         /\ g.attempts = [p \in Process |-> 0]
         /\ g.winners = {}
<1>1. /\ g \in Game
      /\ \A p \in Process :
            g.state[p] \in {"ABSENT", "WAIT_A_NUMBER"} /\ g.attempts[p] = 0
  BY DEF GoodRound, GoodLobby
<1>2. OutcomeOf(g) = [p \in Process |-> "out"]
  BY <1>1 DEF OutcomeOf
<1>3. g.attempts = [p \in Process |-> 0]
  BY <1>1 DEF Game
<1> QED  BY <1>2, <1>3 DEF PhaseOf, GoodRound, GoodLobby

-----------------------------------------------------------------------------
(* A call in play is a step of the race: those who are still in stay at    *)
(* most one guess apart, and winners are named once, in time and in full.  *)
LEMMA PlayIsRace ==
  ASSUME GoodRound(game), GoodRound(game'), PlayStep(game, game')
  PROVE  R!Race \/ UNCHANGED R!raceVars
<1>1. game \in Game /\ game' \in Game
  BY DEF GoodRound
<1>2. /\ \A p \in Process : Kept(game, game', p) \/ Moved(game, game', p)
      /\ Named(game, game')
      /\ game.stage # "WAIT_A_NUMBER" /\ game'.stage # "WAIT_A_NUMBER"
      /\ game.stage = "FINISHED" => game'.stage = "FINISHED"
  BY DEF PlayStep
<1>3. CASE game.stage = "FINISHED"
  <2>1. \A p \in Process : Kept(game, game', p)
    BY <1>2, <1>3 DEF GoodRound, GoodEnd, Moved, Terminal
  <2>2. game'.state = game.state /\ game'.attempts = game.attempts
    BY <1>1, <2>1 DEF Game, Kept
  <2>3. PhaseOf(game') = PhaseOf(game) /\ OutcomeOf(game') = OutcomeOf(game)
    BY <1>2, <1>3, <2>2 DEF PhaseOf, OutcomeOf
  <2>4. game'.winners = game.winners
    BY <1>2, <1>3 DEF Named
  <2> QED  BY <2>2, <2>3, <2>4 DEF R!raceVars
<1>4. CASE InPlay(game)
  <2> DEFINE StillNow == {p \in Process : OutcomeOf(game')[p] = "in"}
             HitNow   == {p \in Process : OutcomeOf(game')[p] = "hit"}
  <2>1. /\ \A p \in StillNow : p \in Process /\ game'.state[p] = "IN_PROGRESS"
        /\ \A p \in Process : game'.state[p] = "FINISHED" <=> p \in HitNow
        /\ HitNow \subseteq Process
    BY <1>1, RaceView
  <2>2. \A p \in Process : game'.attempts[p] \in Nat
    BY <1>1 DEF Game
  <2>3. \A p \in StillNow :
          InPlay(game') /\ game'.attempts[p] \in {game'.step, game'.step + 1}
    <3>1. ASSUME NEW p \in StillNow
          PROVE  InPlay(game') /\ game'.attempts[p] \in {game'.step, game'.step + 1}
      <4>1. p \in Process /\ game'.state[p] = "IN_PROGRESS"
        BY <2>1
      <4>2. InPlay(game')
        BY <4>1, InProgressInPlay
      <4>3. game'.attempts[p] >= game'.step /\ game'.attempts[p] <= game'.step + 1
        BY <4>1, <4>2 DEF GoodRound, GoodAttempts
      <4> QED  BY <4>1, <4>2, <4>3, <2>2, <1>1 DEF Game
    <3> QED  BY <3>1
  <2>4. \A p, q \in StillNow : game'.attempts[p] <= game'.attempts[q] + 1
    BY <2>3, <1>1 DEF Game
  <2> HIDE DEF StillNow, HitNow
  <2>5. R!Play
    <3>1. \A p \in Process :
            \/ OutcomeOf(game')[p] = OutcomeOf(game)[p] /\ game'.attempts[p] = game.attempts[p]
            \/ /\ OutcomeOf(game)[p] = "in"
               /\ \/ /\ OutcomeOf(game')[p] \in {"in", "hit"}
                     /\ game'.attempts[p] = game.attempts[p] + 1
                  \/ /\ OutcomeOf(game')[p] = "gave_up"
                     /\ game'.attempts[p] = game.attempts[p]
      <4> SUFFICES ASSUME NEW p \in Process
                   PROVE
            \/ OutcomeOf(game')[p] = OutcomeOf(game)[p] /\ game'.attempts[p] = game.attempts[p]
            \/ /\ OutcomeOf(game)[p] = "in"
               /\ \/ /\ OutcomeOf(game')[p] \in {"in", "hit"}
                     /\ game'.attempts[p] = game.attempts[p] + 1
                  \/ /\ OutcomeOf(game')[p] = "gave_up"
                     /\ game'.attempts[p] = game.attempts[p]
        OBVIOUS
      <4>1. CASE Kept(game, game', p)
        BY <4>1 DEF Kept, OutcomeOf
      <4>2. CASE Moved(game, game', p)
        BY <4>2, <1>1, RaceView DEF Moved
      <4> QED  BY <4>1, <4>2, <1>2
    <3>2. PhaseOf(game) = "race"
      BY <1>1, <1>4, RaceView
    <3>3. /\ OutcomeOf(game') \in [Process -> {"out", "in", "hit", "gave_up"}]
          /\ game'.attempts \in [Process -> Nat]
      BY <1>1, RaceView DEF Game
    <3> QED  BY <3>1, <3>2, <3>3, <2>4 DEF R!Play, R!Still, StillNow
  <2>6. R!Name
    <3>1. CASE game'.winners = game.winners
      BY <3>1 DEF R!Name
    <3>2. CASE game'.winners # game.winners
      <4>1. /\ game.stage = "IN_PROGRESS" /\ game.winners = {}
            /\ game'.winners # {}
            /\ \A w \in game'.winners : w \in Process /\ game'.state[w] = "FINISHED"
        BY <1>2, <3>2 DEF Named, GoodRound, GoodRace
      <4>2. game'.stage \in {"IN_PROGRESS_WINNER_DEFINED", "FINISHED"}
        BY <4>1, <1>1, <1>2 DEF GoodRound, GoodRace, Game, GameStage
      <4>3. \A w \in game'.winners, q \in HitNow :
              /\ game'.attempts[w] <= game'.attempts[q]
              /\ game'.attempts[w] = game'.attempts[q] <=> q \in game'.winners
        BY <4>1, <4>2, <2>1 DEF GoodRound, GoodWinners
      <4>4. game'.winners \subseteq HitNow
        BY <4>1, <2>1
      <4>5. game'.winners =
              {b \in HitNow : \A r \in HitNow : game'.attempts[b] <= game'.attempts[r]}
        <5>1. ASSUME NEW b \in HitNow,
                     \A r \in HitNow : game'.attempts[b] <= game'.attempts[r]
              PROVE  b \in game'.winners
          <6>1. PICK w \in game'.winners : TRUE
            BY <4>1
          <6>2. /\ game'.attempts[w] \in Nat /\ game'.attempts[b] \in Nat
                /\ game'.attempts[b] <= game'.attempts[w]
                /\ game'.attempts[w] <= game'.attempts[b]
            BY <5>1, <6>1, <4>3, <4>4, <2>1, <2>2
          <6> QED  BY <6>1, <6>2, <4>3
        <5> QED  BY <5>1, <4>3, <4>4
      <4>6. \A b \in game'.winners, r \in StillNow : game'.attempts[r] >= game'.attempts[b]
        <5> SUFFICES ASSUME NEW b \in game'.winners, NEW r \in StillNow
                     PROVE  game'.attempts[r] >= game'.attempts[b]
          OBVIOUS
        <5>1. game'.stage = "IN_PROGRESS_WINNER_DEFINED"
          BY <2>3, <4>2 DEF InPlay
        <5>2. game'.attempts[b] <= game'.step
          BY <5>1 DEF GoodRound, GoodWinners
        <5>3. r \in Process /\ b \in Process
          BY <2>1, <4>1
        <5> QED  BY <5>2, <5>3, <2>2, <2>3, <1>1 DEF Game
      <4>7. \E b \in HitNow : \A r \in StillNow : game'.attempts[r] >= game'.attempts[b]
        BY <4>1, <4>4, <4>6
      <4> QED  BY <4>1, <4>5, <4>7
               DEF R!Name, R!Final, R!Best, R!Hit, R!Still, StillNow, HitNow
    <3> QED  BY <3>1, <3>2
  <2>7. R!Close
    <3>1. CASE InPlay(game')
      BY <3>1, <1>1, RaceView DEF R!Close
    <3>2. CASE game'.stage = "FINISHED"
      <4>1. StillNow = {}
        BY <3>2, <2>1 DEF GoodRound, GoodEnd, Terminal
      <4>2. HitNow # {} => game'.winners # {}
        BY <3>2, <2>1 DEF GoodRound, GoodWinners
      <4>3. PhaseOf(game') = "over"
        BY <3>2, <1>1, RaceView
      <4> QED  BY <4>1, <4>2, <4>3 DEF R!Close, R!Still, R!Hit, StillNow, HitNow
    <3> QED  BY <3>1, <3>2, <1>1, <1>2 DEF Game, GameStage, InPlay
  <2> QED  BY <2>5, <2>6, <2>7 DEF R!Race
<1> QED  BY <1>1, <1>2, <1>3, <1>4 DEF Game, GameStage, InPlay

(* Every step of a game is a step of the race or leaves it alone.          *)
LEMMA StepIsRace ==
  ASSUME IInv, IInv', [Next]_vars
  PROVE  [R!RaceNext]_(R!raceVars)
<1>1. /\ GoodRound(game) /\ GoodRound(game') /\ game \in Game /\ game' \in Game
  BY DEF IInv, GoodRound
<1>2. CASE PlayStep(game, game')
  BY <1>1, <1>2, PlayIsRace DEF R!RaceNext
<1>3. CASE game'.stage = "WAIT_A_NUMBER"
  BY <1>1, <1>3, LobbyView DEF R!RaceNext, R!Lobby
<1>4. CASE StartStep(game, game')
  <2>1. PhaseOf(game) = "lobby" /\ PhaseOf(game') = "race"
    BY <1>1, <1>4, RaceView DEF StartStep, InPlay
  <2>2. OutcomeOf(game') \in [Process -> {"out", "in"}]
    <3>1. \A p \in Process : OutcomeOf(game')[p] \in {"out", "in"}
      BY <1>1, <1>4, RaceView DEF StartStep
    <3>2. OutcomeOf(game') = [p \in Process |-> OutcomeOf(game')[p]]
      BY DEF OutcomeOf
    <3> QED  BY <3>1, <3>2
  <2> QED  BY <2>1, <2>2, <1>4 DEF StartStep, R!RaceNext, R!Start
<1>5. CASE \E p \in Process : LeaveStep(game, game', p)
  <2>1. PICK p \in Process : LeaveStep(game, game', p)
    BY <1>5
  <2>2. PhaseOf(game) = "over" /\ PhaseOf(game') = PhaseOf(game)
    BY <2>1 DEF LeaveStep, PhaseOf
  <2>3. OutcomeOf(game') = [OutcomeOf(game) EXCEPT ![p] = "out"]
    BY <1>1, <2>1 DEF LeaveStep, OutcomeOf, Game
  <2> QED  BY <2>1, <2>2, <2>3 DEF LeaveStep, R!RaceNext, R!Leave
<1>6. CASE SameStepOf(game, game')
  <2>1. PhaseOf(game') = PhaseOf(game) /\ OutcomeOf(game') = OutcomeOf(game)
    BY <1>6 DEF SameStepOf, PhaseOf, OutcomeOf
  <2> QED  BY <2>1, <1>6 DEF SameStepOf, R!raceVars
<1> QED  BY <1>2, <1>3, <1>4, <1>5, <1>6, StepShape

(* The game implements the fair race.                                      *)
THEOREM GameImplementsRace == Spec => FairRaceSpec
<1>1. Init => R!RaceInit
  <2> SUFFICES ASSUME Init PROVE R!RaceInit
    OBVIOUS
  <2>1. GoodRound(game) /\ game.stage = "WAIT_A_NUMBER"
    BY InitIInv DEF IInv, Init, EmptyGame
  <2> QED  BY <2>1, LobbyView DEF R!RaceInit
<1>2. IInv /\ IInv' /\ [Next]_vars => [R!RaceNext]_(R!raceVars)
  BY StepIsRace
<1> QED  BY <1>1, <1>2, Inductive, PTL DEF Spec, FairRaceSpec, R!RaceSpec

-----------------------------------------------------------------------------
(* The comparator of getGameResults is a strict weak order, as std::sort   *)
(* demands.                                                                *)
LEMMA AheadIsWeakOrder ==
  ASSUME NEW g \in Game, NEW p \in Process, NEW q \in Process, NEW r \in Process
  PROVE  /\ ~Ahead(g, p, p)
         /\ Ahead(g, p, q) => ~Ahead(g, q, p)
         /\ Ahead(g, p, q) /\ ~Ahead(g, r, q) => Ahead(g, p, r)
         /\ ~Ahead(g, q, p) /\ Ahead(g, q, r) => Ahead(g, p, r)
         /\ ~Ahead(g, q, r) /\ ~Ahead(g, r, q) =>
              (Ahead(g, p, q) <=> Ahead(g, p, r))
<1>1. \A x \in Process : g.attempts[x] \in Nat
  BY DEF Game
<1> QED BY <1>1 DEF Ahead, GaveUp

(* The loop that hands out the places: one more wherever two neighbours    *)
(* are not equals.                                                         *)
LEMMA PlacesStep ==
  ASSUME NEW g \in Game, NEW n \in Nat, NEW s \in [1 .. n -> Process]
  PROVE  /\ PlacesOf(g, s) \in [1 .. n -> Nat]
         /\ \A i \in 2 .. n : PlacesOf(g, s)[i] =
               IF Ahead(g, s[i - 1], s[i]) \/ Ahead(g, s[i], s[i - 1])
               THEN PlacesOf(g, s)[i - 1] + 1 ELSE PlacesOf(g, s)[i - 1]
<1> DEFINE differ(i) == Ahead(g, s[i - 1], s[i]) \/ Ahead(g, s[i], s[i - 1])
           h == [i \in 1 .. n |-> [x \in Nat |-> IF i = 1 \/ differ(i) THEN x + 1 ELSE x]]
           place[i \in 1 .. n] ==
             IF i = 1 THEN 1 ELSE IF differ(i) THEN place[i - 1] + 1 ELSE place[i - 1]
<1>1. h \in [1 .. n -> [Nat -> Nat]]
  OBVIOUS
<1>2. PICK f \in [0 .. n -> Nat] : Follows(f, n, 0, h)
  <2> HIDE DEF h
  <2> QED BY <1>1, RecursiveFunction
<1>3. /\ f[0] = 0
      /\ \A i \in 1 .. n : f[i] = IF i = 1 \/ differ(i) THEN f[i - 1] + 1 ELSE f[i - 1]
  <2>1. \A i \in 1 .. n : f[i - 1] \in Nat
    OBVIOUS
  <2> QED BY <1>2, <2>1 DEF Follows
<1> HIDE DEF h
<1> DEFINE r == [i \in 1 .. n |-> f[i]]
<1>4. r = [i \in 1 .. n |->
             IF i = 1 THEN 1 ELSE IF differ(i) THEN r[i - 1] + 1 ELSE r[i - 1]]
  <2>1. ASSUME NEW i \in 1 .. n
        PROVE  f[i] = IF i = 1 THEN 1 ELSE IF differ(i) THEN r[i - 1] + 1 ELSE r[i - 1]
    <3>1. CASE i = 1
      BY <1>3, <3>1
    <3>2. CASE i # 1
      <4>1. r[i - 1] = f[i - 1]
        BY <3>2
      <4> QED BY <1>3, <3>2, <4>1
    <3> QED BY <3>1, <3>2
  <2> HIDE DEF differ
  <2> QED BY <2>1
<1>5. place = [i \in 1 .. n |->
                 IF i = 1 THEN 1 ELSE IF differ(i) THEN place[i - 1] + 1 ELSE place[i - 1]]
  <2> HIDE DEF r, differ
  <2> QED BY <1>4
<1>6. PlacesOf(g, s) = place
  <2>1. DOMAIN s = 1 .. n
    OBVIOUS
  <2> QED BY <2>1 DEF PlacesOf
<1> HIDE DEF place
<1>7. \A i \in 1 .. n : i \in 1 .. n => place[i] \in Nat
  <2> DEFINE T == {i \in 0 .. n : i = 0 \/ place[i] \in Nat}
  <2>1. 0 \in T
    OBVIOUS
  <2>2. ASSUME NEW i \in 1 .. n, i - 1 \in T  PROVE i \in T
    <3> HIDE DEF differ
    <3> QED BY <1>5, <2>2
  <2>3. \A i \in 0 .. n : i \in T
    <3> HIDE DEF T
    <3> QED BY <2>1, <2>2, UpTo
  <2> QED BY <2>3
<1>8. place \in [1 .. n -> Nat]
  <2> HIDE DEF differ
  <2> QED BY <1>5, <1>7
<1>9. \A i \in 2 .. n : place[i] = IF differ(i) THEN place[i - 1] + 1 ELSE place[i - 1]
  <2> HIDE DEF differ
  <2> QED BY <1>5
<1> QED BY <1>6, <1>8, <1>9

(* So, of two sorted processes, the first has the lower place exactly when *)
(* it is ahead, and never a higher one.                                    *)
LEMMA PlacesAreSorted ==
  ASSUME NEW g \in Game, NEW n \in Nat, NEW s \in [1 .. n -> Process],
         \A i, j \in 1 .. n : i < j => ~Ahead(g, s[j], s[i]),
         NEW place, place = PlacesOf(g, s)
  PROVE  \A j \in 1 .. n, i \in 1 .. n : i < j =>
           /\ place[i] <= place[j]
           /\ place[i] < place[j] <=> Ahead(g, s[i], s[j])
<1> DEFINE Sorted(i, j) == /\ place[i] <= place[j]
                           /\ place[i] < place[j] <=> Ahead(g, s[i], s[j])
           T == {j \in 0 .. n : \A i \in 1 .. n : i < j => Sorted(i, j)}
<1>1. /\ \A i \in 1 .. n : place[i] \in Nat
      /\ \A i \in 2 .. n : place[i] = IF Ahead(g, s[i - 1], s[i])
                                      THEN place[i - 1] + 1 ELSE place[i - 1]
  <2>1. /\ place \in [1 .. n -> Nat]
        /\ \A i \in 2 .. n : place[i] =
               IF Ahead(g, s[i - 1], s[i]) \/ Ahead(g, s[i], s[i - 1])
               THEN place[i - 1] + 1 ELSE place[i - 1]
    BY PlacesStep
  <2>2. \A i \in 2 .. n : ~Ahead(g, s[i], s[i - 1])
    OBVIOUS
  <2> QED BY <2>1, <2>2
<1>2. 0 \in T
  OBVIOUS
<1>3. ASSUME NEW j \in 1 .. n, j - 1 \in T  PROVE j \in T
  <2> SUFFICES ASSUME NEW i \in 1 .. n, i < j  PROVE Sorted(i, j)
    OBVIOUS
  <2> DEFINE k == j - 1
  <2>1. k \in 1 .. n /\ j \in 2 .. n /\ i <= k
    OBVIOUS
  <2>2. place[j] = IF Ahead(g, s[k], s[j]) THEN place[k] + 1 ELSE place[k]
    BY <1>1, <2>1
  <2>3. s[i] \in Process /\ s[k] \in Process /\ s[j] \in Process
    BY <2>1
  <2>4. ~Ahead(g, s[j], s[k]) /\ ~Ahead(g, s[j], s[i])
    BY <2>1
  <2>5. CASE i = k
    BY <1>1, <2>1, <2>2, <2>5
  <2>6. CASE i # k
    <3>1. Sorted(i, k) /\ ~Ahead(g, s[k], s[i])
      BY <1>3, <2>1, <2>6
    <3>2. CASE Ahead(g, s[k], s[j])
      <4>1. Ahead(g, s[i], s[j])
        BY <2>3, <3>1, <3>2, AheadIsWeakOrder
      <4> QED BY <1>1, <2>1, <2>2, <3>1, <3>2, <4>1
    <3>3. CASE ~Ahead(g, s[k], s[j])
      <4>1. Ahead(g, s[i], s[k]) <=> Ahead(g, s[i], s[j])
        BY <2>3, <2>4, <3>3, AheadIsWeakOrder
      <4> QED BY <1>1, <2>1, <2>2, <3>1, <3>3, <4>1
    <3> QED BY <3>2, <3>3
  <2> QED BY <2>5, <2>6
<1>4. \A j \in 0 .. n : j \in T
  <2> HIDE DEF T
  <2> QED BY <1>2, <1>3, UpTo
<1> QED BY <1>4

(* Whatever std::sort makes of equals, getGameResults puts those who hit   *)
(* in the order of their guesses, before all who gave up.                  *)
LEMMA ResultsRank ==
  ASSUME NEW g \in Game, NEW place \in GetGameResults(g),
         NEW p \in Present(g), g.state[p] = "FINISHED", NEW q \in Present(g),
         g.state[q] \in Terminal
  PROVE  place[p] < place[q] <=>
           g.state[q] # "FINISHED" \/ g.attempts[p] < g.attempts[q]
<1> DEFINE n == Cardinality(Present(g))
<1>1. IsFiniteSet(Present(g)) /\ n \in Nat /\ Present(g) \subseteq Process
  <2>1. Present(g) \in SUBSET Process
    BY DEF Present
  <2>2. IsFiniteSet(Process)
    BY IdAssumption, FS_Union DEF Process
  <2> QED BY <2>1, <2>2, FS_Subset, FS_CardinalityType
<1>2. PICK s \in SortedResults(g) :
        place = [x \in Present(g) |-> PlacesOf(g, s)[CHOOSE i \in DOMAIN s : s[i] = x]]
  BY DEF GetGameResults
<1>3. /\ s \in [1 .. n -> Present(g)] /\ s \in [1 .. n -> Process]
      /\ \A i, j \in 1 .. n : i < j => ~Ahead(g, s[j], s[i])
      /\ IsInjective(s)
  BY <1>1 DEF SortedResults
<1>4. \A x \in Present(g) : \E i \in 1 .. n : s[i] = x
  <2>1. s \in Injection(1 .. n, Present(g))
    BY <1>3 DEF Injection, IsInjective
  <2>2. IsFiniteSet(1 .. n) /\ Cardinality(1 .. n) = Cardinality(Present(g))
    BY <1>1, FS_Interval
  <2>3. s \in Surjection(1 .. n, Present(g))
    BY <1>1, <2>1, <2>2, FS_Injection
  <2> QED BY <2>3 DEF Surjection
<1> HIDE DEF n
<1>5. \A x \in Present(g) : \E i \in 1 .. n : s[i] = x /\ place[x] = PlacesOf(g, s)[i]
  <2> TAKE x \in Present(g)
  <2> DEFINE i == CHOOSE i \in DOMAIN s : s[i] = x
  <2>1. i \in 1 .. n /\ s[i] = x
    BY <1>3, <1>4
  <2>2. place[x] = PlacesOf(g, s)[i]
    BY <1>2
  <2> QED BY <2>1, <2>2
<1>6. PICK i \in 1 .. n : s[i] = p /\ place[p] = PlacesOf(g, s)[i]
  BY <1>5
<1>7. PICK j \in 1 .. n : s[j] = q /\ place[q] = PlacesOf(g, s)[j]
  BY <1>5
<1>8. PlacesOf(g, s)[i] \in Nat /\ PlacesOf(g, s)[j] \in Nat
  BY <1>1, <1>3, PlacesStep DEF n
<1>9. \A x, y \in 1 .. n : x < y =>
        /\ PlacesOf(g, s)[x] <= PlacesOf(g, s)[y]
        /\ PlacesOf(g, s)[x] < PlacesOf(g, s)[y] <=> Ahead(g, s[x], s[y])
  <2>1. n \in Nat
    BY <1>1 DEF n
  <2> QED BY <1>3, <2>1, PlacesAreSorted
<1>10. Ahead(g, p, q) <=> g.state[q] # "FINISHED" \/ g.attempts[p] < g.attempts[q]
  BY DEF Ahead, GaveUp, Terminal
<1>11. CASE i < j
  BY <1>6, <1>7, <1>9, <1>10, <1>11
<1>12. CASE i = j
  <2>1. p = q /\ g.attempts[p] \in Nat
    BY <1>1, <1>6, <1>7, <1>12 DEF Game
  <2> QED BY <1>8, <1>6, <1>7, <1>12, <2>1
<1>13. CASE j < i
  <2>1. ~Ahead(g, p, q)
    BY <1>3, <1>6, <1>7, <1>13
  <2>2. PlacesOf(g, s)[j] <= PlacesOf(g, s)[i]
    BY <1>9, <1>13
  <2> QED BY <1>6, <1>7, <1>8, <1>10, <2>1, <2>2
<1>14. i < j \/ i = j \/ j < i
  <2>1. i \in Nat /\ j \in Nat
    BY <1>1 DEF n
  <2> QED BY <2>1
<1> QED BY <1>11, <1>12, <1>13, <1>14

(* PlayerPlace ranks those who hit in the same way.                        *)
LEMMA PlayerPlaceRanks ==
  ASSUME NEW g \in Game, NEW p \in Present(g), g.state[p] = "FINISHED", NEW q \in Present(g),
         \A x \in Present(g) : g.state[x] \in Terminal
  PROVE  PlayerPlace(g, p) < PlayerPlace(g, q) <=>
           g.state[q] # "FINISHED" \/ g.attempts[p] < g.attempts[q]
<1> DEFINE hit == {x \in Present(g) : g.state[x] = "FINISHED"}
           gave == {x \in Present(g) : g.state[x] = "GAVE_UP"}
           Faster(y) == {x \in hit : g.attempts[x] < g.attempts[y]}
           Later(y) == {x \in gave \ {y} : g.attempts[x] >= g.attempts[y]}
<1>1. IsFiniteSet(Present(g)) /\ \A x \in Present(g) : g.attempts[x] \in Nat
  <2>1. Present(g) \in SUBSET Process
    BY DEF Present
  <2>2. IsFiniteSet(Process)
    BY IdAssumption, FS_Union DEF Process
  <2> QED BY <2>1, <2>2, FS_Subset DEF Game
<1>2. \A y \in hit : PlayerPlace(g, y) = 1 + Cardinality(Faster(y))
  <2> TAKE y \in hit
  <2>1. {x \in {z \in Present(g) \ {y} : g.state[z] = g.state[y]} : g.attempts[x] < g.attempts[y]}
          = Faster(y)
    BY <1>1
  <2> HIDE DEF Faster
  <2> QED BY <2>1 DEF PlayerPlace, Terminal
<1>3. \A y \in gave : PlayerPlace(g, y) = Cardinality(Present(g)) - Cardinality(Later(y))
  <2> TAKE y \in gave
  <2>1. {x \in {z \in Present(g) \ {y} : g.state[z] = g.state[y]} : g.attempts[x] >= g.attempts[y]}
          = Later(y)
    BY <1>1
  <2> HIDE DEF Later
  <2> QED BY <2>1 DEF PlayerPlace, Terminal
<1>4. /\ IsFiniteSet(hit) /\ IsFiniteSet(gave)
      /\ Cardinality(Present(g)) = Cardinality(hit) + Cardinality(gave)
  <2>1. hit \in SUBSET Present(g) /\ gave \in SUBSET Present(g)
    OBVIOUS
  <2>2. Present(g) = hit \cup gave /\ hit \cap gave = {}
    BY DEF Terminal
  <2> HIDE DEF hit, gave
  <2>3. IsFiniteSet(hit) /\ IsFiniteSet(gave)
    BY <1>1, <2>1, FS_Subset
  <2>4. Cardinality(hit \cup gave) = Cardinality(hit) + Cardinality(gave) - Cardinality(hit \cap gave)
    BY <2>3, FS_Union
  <2>5. Cardinality(hit \cap gave) = 0
    BY <2>2, FS_EmptySet
  <2> QED BY <2>2, <2>3, <2>4, <2>5, FS_CardinalityType
<1>5. p \in hit /\ (q \in hit <=> g.state[q] = "FINISHED") /\ (q \in hit \/ q \in gave)
  BY DEF Terminal
<1>6. Faster(p) \in SUBSET hit /\ p \notin Faster(p)
  BY <1>1
<1>7. /\ IsFiniteSet(Faster(p)) /\ Cardinality(Faster(p)) \in Nat
      /\ Cardinality(Faster(p)) < Cardinality(hit) /\ Cardinality(hit) \in Nat
  <2> HIDE DEF Faster, hit
  <2>1. /\ IsFiniteSet(Faster(p)) /\ Cardinality(Faster(p)) <= Cardinality(hit)
        /\ Cardinality(Faster(p)) = Cardinality(hit) => Faster(p) = hit
    BY <1>4, <1>6, FS_Subset
  <2> QED BY <1>4, <1>5, <1>6, <2>1, FS_CardinalityType
<1>8. CASE q \in hit
  <2>1. /\ IsFiniteSet(Faster(q)) /\ Cardinality(Faster(q)) \in Nat
    <3>1. Faster(q) \in SUBSET hit
      OBVIOUS
    <3> HIDE DEF Faster, hit
    <3> QED BY <1>4, <3>1, FS_Subset, FS_CardinalityType
  <2>2. CASE g.attempts[p] < g.attempts[q]
    <3>1. Faster(p) \in SUBSET Faster(q) /\ p \in Faster(q)
      BY <1>1, <1>5, <2>2
    <3>2. Cardinality(Faster(p)) < Cardinality(Faster(q))
      <4> HIDE DEF Faster
      <4>1. /\ Cardinality(Faster(p)) <= Cardinality(Faster(q))
            /\ Cardinality(Faster(q)) = Cardinality(Faster(p)) => Faster(q) = Faster(p)
        BY <2>1, <3>1, FS_Subset
      <4> QED BY <1>6, <1>7, <2>1, <3>1, <4>1
    <3> HIDE DEF Faster, hit
    <3> QED BY <1>2, <1>5, <1>7, <1>8, <2>1, <2>2, <3>2
  <2>3. CASE ~(g.attempts[p] < g.attempts[q])
    <3>1. Faster(q) \in SUBSET Faster(p)
      BY <1>1, <1>5, <2>3
    <3> HIDE DEF Faster, hit
    <3>2. Cardinality(Faster(q)) <= Cardinality(Faster(p))
      BY <1>7, <3>1, FS_Subset
    <3> QED BY <1>2, <1>5, <1>7, <1>8, <2>1, <2>3, <3>2
  <2> QED BY <2>2, <2>3
<1>9. CASE q \notin hit
  <2>1. q \in gave
    BY <1>5, <1>9
  <2>2. Later(q) \in SUBSET gave /\ q \notin Later(q)
    OBVIOUS
  <2>3. Cardinality(Later(q)) < Cardinality(gave) /\ Cardinality(Later(q)) \in Nat
        /\ Cardinality(gave) \in Nat
    <3> HIDE DEF Later, gave
    <3>1. /\ IsFiniteSet(Later(q)) /\ Cardinality(Later(q)) <= Cardinality(gave)
          /\ Cardinality(gave) = Cardinality(Later(q)) => gave = Later(q)
      BY <1>4, <2>2, FS_Subset
    <3> QED BY <1>4, <2>1, <2>2, <3>1, FS_CardinalityType
  <2> HIDE DEF Later, Faster, hit, gave
  <2> QED BY <1>2, <1>3, <1>4, <1>5, <1>7, <1>9, <2>1, <2>3
<1> QED BY <1>8, <1>9

(* Both functions rank those who hit by their guesses, equals in one       *)
(* place, and before all who gave up (PlayerPlace, getGameResults).        *)
THEOREM PlacesCorrect == Spec => []PlacesRankTheRace
<1>1. IInv => PlacesRankTheRace
  <2> SUFFICES ASSUME IInv, game.stage = "FINISHED" PROVE PlacesRankTheRace
    BY DEF PlacesRankTheRace
  <2>1. game \in Game /\ \A x \in Present(game) : game.state[x] \in Terminal
    BY DEF IInv, GoodRound, GoodEnd, Present
  <2>2. \A p \in Present(game), q \in Present(game) : game.state[p] = "FINISHED" =>
          (PlayerPlace(game, p) < PlayerPlace(game, q)
             <=> game.state[q] # "FINISHED" \/ game.attempts[p] < game.attempts[q])
    BY <2>1, PlayerPlaceRanks
  <2>3. \A place \in GetGameResults(game), p \in Present(game), q \in Present(game) :
          game.state[p] = "FINISHED" =>
            (place[p] < place[q]
               <=> game.state[q] # "FINISHED" \/ game.attempts[p] < game.attempts[q])
    BY <2>1, ResultsRank
  <2> QED BY <2>2, <2>3 DEF PlacesRankTheRace
<1> QED BY <1>1, Inductive, PTL
=============================================================================
