--------------------------- MODULE GameController ---------------------------
(***************************************************************************)
(* One game under the calls its owners make: TEventProcessor for a game of *)
(* the server, TGameView for the desktop game.  A call is one action; the  *)
(* loop of FinishGame is one action per iteration, with no other call in   *)
(* between (the owner holds the game's lock, or is the only thread).       *)
(***************************************************************************)
EXTENDS GameInvariants

CONSTANT MaxStep             (* rounds that players may open, bounds a run *)

ASSUME MaxStepAssumption == MaxStep \in Nat

VARIABLES
  game,        (* the TGameController                                      *)
  finishing    (* the owner is inside the while loop of FinishGame         *)

vars == <<game, finishing>>

TypeOK == game \in Game /\ finishing \in BOOLEAN

-----------------------------------------------------------------------------
Init == game = EmptyGame /\ finishing = FALSE

Idle == ~finishing /\ UNCHANGED finishing

CallInitGame == Idle /\ game' = InitGame(game)

(* The server calls InitGame after every accepted change of the lists.     *)
CallAddPlayer(p) ==
  Idle /\ CanAddPlayer(game, p) /\ game' = InitGame(AddPlayer(game, p))

CallAddComputer(c) ==
  Idle /\ CanAddComputer(game, c) /\ game' = InitGame(AddComputer(game, c))

CallRemove(p) ==
  Idle /\ CanRemove(game, p) /\ game' = RemoveProcess(game, p)

(* switchGameBrain has no stage check of its own: the server makes it.     *)
CallSwitchBrain(c) ==
  /\ Idle
  /\ game.stage = "WAIT_A_NUMBER"
  /\ c \in ComputerList(game)
  /\ game' = InitGame(SwitchGameBrain(game, c))

CallStartGame(s) == Idle /\ game' = StartGame(game, s)

CallDoPlayerStep(p) ==
  /\ Idle
  /\ CanStep(game, p)
  /\ game.step < MaxStep
  /\ \E hit \in BOOLEAN, hits \in Outcomes(game) :
        game' = DoPlayerStep(game, p, hit, hits)

CallPlayerGiveUp(p) ==
  /\ Idle
  /\ CanGiveUp(game, p)
  /\ \E hits \in Outcomes(game) : game' = PlayerGiveUp(game, p, hits)

CallFinishStep ==
  /\ Idle
  /\ UnsteppedPlayers(game) = {}
  /\ game.step < MaxStep
  /\ \E hits \in Outcomes(game) : game' = FinishStep(game, hits)

CallFinishGame ==
  /\ ~finishing
  /\ game' = GiveUpAll(game)
  /\ finishing' = TRUE

FinishGameIteration ==
  /\ finishing
  /\ game.stage # "FINISHED"
  /\ \E hits \in Outcomes(game) : game' = FinishStep(game, hits)
  /\ UNCHANGED finishing

FinishGameReturn ==
  /\ finishing
  /\ game.stage = "FINISHED"
  /\ finishing' = FALSE
  /\ UNCHANGED game

-----------------------------------------------------------------------------
(* Calls that the code accepts or refuses in every stage by itself.        *)
AnyStage ==
  \/ \E p \in Player : CallAddPlayer(p)
  \/ \E c \in Computer : CallAddComputer(c)
  \/ \E p \in Process : CallRemove(p)
  \/ \E c \in Computer : CallSwitchBrain(c)
  \/ \E s \in Secret : CallStartGame(s)
  \/ \E p \in Player : CallDoPlayerStep(p)
  \/ \E p \in Player : CallPlayerGiveUp(p)
  \/ FinishGameIteration
  \/ FinishGameReturn

(* Neither FinishStep nor FinishGame asks whether the game has started.    *)
(* Next is an owner that does, and may play the game again, as TGameView;  *)
(* EarlyNext is one that does neither: COMPUTER_STEP and FINISH_GAME of    *)
(* the server come at any time, and no handler re-initialises a game that  *)
(* has been started.                                                       *)
Started == game.stage # "WAIT_A_NUMBER"

Next ==
  \/ AnyStage
  \/ CallInitGame
  \/ Started /\ CallFinishStep
  \/ Started /\ CallFinishGame

EarlyNext == AnyStage \/ CallFinishStep \/ CallFinishGame

(* FinishGame runs on its caller's thread without waiting for anyone.      *)
Fairness == WF_vars(FinishGameIteration) /\ WF_vars(FinishGameReturn)

Spec == Init /\ [][Next]_vars /\ Fairness

-----------------------------------------------------------------------------
(* What must hold of the rounds.                                           *)

(* Nobody runs ahead of or falls behind the round: a running player has    *)
(* made its guess for the open round or not, a running computer has not.   *)
RoundBand ==
  InPlay(game) =>
    /\ \A p \in PlayerList(game) \cap Running(game) :
          game.attempts[p] \in {game.step, game.step + 1}
    /\ \A c \in ComputerList(game) \cap Running(game) :
          game.attempts[c] = game.step

(* The last player to guess or to give up closes the round: a game that    *)
(* still has a running player always waits for one of them, so nobody is   *)
(* refused with PLAYER_ALREADY_STEP for ever.                              *)
RoundOpen ==
  InPlay(game) /\ PlayerList(game) \cap Running(game) # {}
    => UnsteppedPlayers(game) # {}

(* The stage says FINISHED exactly when nobody is left to guess, whichever *)
(* of guess, give-up, FinishStep or FinishGame ended the last process.     *)
FinishedMeansDone ==
  /\ game.stage = "FINISHED" => Running(game) = {}
  /\ InPlay(game) /\ ~finishing /\ Present(game) # {} => Running(game) # {}

(* The winners are the processes that hit with the fewest guesses, all of  *)
(* them and only them, although players guess before the computers of the  *)
(* same round and one player before another.                               *)
WinnersAreBest ==
  game.stage \in {"IN_PROGRESS_WINNER_DEFINED", "FINISHED"} =>
    \A q \in Present(game) :
      game.state[q] = "FINISHED" =>
        /\ game.winners # {}
        /\ \A p \in game.winners \cap Present(game) :
              /\ game.state[p] = "FINISHED"
              /\ game.attempts[p] <= game.attempts[q]
              /\ game.attempts[p] = game.attempts[q] <=> q \in game.winners

(* The winner is announced neither too early nor too late: between two     *)
(* calls winners stand exactly when somebody has hit and nobody who still  *)
(* plays can catch up with it, be it a guess or a give-up that settled it. *)
Settled(g) ==
  \E q \in Present(g) :
    /\ g.state[q] = "FINISHED"
    /\ \A p \in Running(g) : g.attempts[p] >= g.attempts[q]

WinnerOnTime ==
  InPlay(game) /\ ~finishing => (game.winners # {} <=> Settled(game))

(* All who still guess are measured against one and the same secret, even  *)
(* if StartGame is called again during the game, and each computer's brain *)
(* has been initialised (m_trueGameValue and the candidates are used       *)
(* without a check by appendGameValue and makePredict).                    *)
SameSecretForAll ==
  InPlay(game) =>
    \A p, q \in Running(game) :
      /\ game.aim[p] # NoSecret
      /\ game.aim[p] = game.aim[q]
      /\ p \in Computer => p \in game.ready

-----------------------------------------------------------------------------
(* What a step may never do.                                               *)

(* Announced winners stay until the game is initialised again.             *)
WinnersStay ==
  [][game.winners # {} => game'.winners = game.winners \/ ~Started']_vars

(* A process that has hit or given up makes no further guess and is not    *)
(* revived, until InitGame or its removal.                                 *)
TerminalStays ==
  [][\A p \in Process :
       game.state[p] \in Terminal /\ Started' =>
         \/ game'.state[p] = "ABSENT"
         \/ /\ game'.state[p] = game.state[p]
            /\ game'.attempts[p] = game.attempts[p]]_vars

(* assert(PlayerState() == IN_PROGRESS) of makeStep, appendGameValue and   *)
(* giveUp: only a process in progress guesses or gives up.                 *)
OnlyInProgressPlay ==
  [][\A p \in Process :
       \/ game'.attempts[p] > game.attempts[p]
       \/ game'.state[p] = "GAVE_UP" /\ game.state[p] # "GAVE_UP"
       => game.state[p] = "IN_PROGRESS"]_vars

(* A round in which several processes play gives each exactly one guess:   *)
(* when the step counter moves, every computer still in the game has moved *)
(* with it and no process has moved by more than one guess.                *)
FairRound ==
  [][Started /\ game'.step > game.step =>
       /\ game'.step = game.step + 1
       /\ \A p \in Process : game'.attempts[p] <= game.attempts[p] + 1
       /\ \A c \in ComputerList(game) \cap Running(game) :
             game'.attempts[c] = game.attempts[c] + 1]_vars

-----------------------------------------------------------------------------
(* FinishGame returns: its while loop reaches stage FINISHED.              *)
FinishGameTerminates == finishing ~> ~finishing

(* What makes it return: every iteration leaves fewer rounds to go.        *)
FinishGameAdvances ==
  [][finishing /\ game.stage # "FINISHED" =>
       RoundsLeft(game') \in 0 .. RoundsLeft(game) - 1]_vars

-----------------------------------------------------------------------------
(* The inductive invariant, of the parts that GameInvariants names: it     *)
(* holds between the calls and in the loop of FinishGame.                  *)
IInv ==
  /\ GoodRound(game)
  /\ finishing \in BOOLEAN
  /\ ~finishing => Open(game)
  /\ finishing => Started /\ PlayerList(game) \cap Running(game) = {}
=============================================================================
