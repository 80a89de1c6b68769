------------------------------- MODULE GameOps -------------------------------
(***************************************************************************)
(* The value of one TGameController object (model/src/game_controller.cpp) *)
(* and its member functions, as operators from a game to a game.           *)
(*                                                                         *)
(* A process is a TStandartPlayerProcess.  Players live in m_player_list,  *)
(* computers in m_computer_list; the code tells (id, true) from (id,       *)
(* false), so the two identity sets are disjoint here.                     *)
(*                                                                         *)
(* What is abstracted: a guess is only "hits the secret" or "misses it",   *)
(* the history is its length, and a brain is a device that hits within     *)
(* GuessBound guesses: with one guess for each value that is so, a theorem *)
(* about ComputerProcess (GuessesAreBounded), but for a STUPID brain that  *)
(* has been restored and may guess a value again.                          *)
(***************************************************************************)
EXTENDS Integers, FiniteSets

CONSTANTS
  Player,                    (* ids usable in m_player_list                *)
  Computer,                  (* ids usable in m_computer_list              *)
  Secret,                    (* valid secret values                        *)
  NoSecret,                  (* the empty m_secretValue, a null pointer    *)
  GuessBound,                (* a brain has hit by this many guesses       *)
  GAME_PROCESS_COUNT_LIMIT   (* capacity of each of the two lists          *)

(* Players and computers have their own lists; the ids are uint32_t.       *)
ASSUME ProcessAssumption == Player \cap Computer = {}
ASSUME IdAssumption      == IsFiniteSet(Player) /\ IsFiniteSet(Computer)
ASSUME SecretAssumption  == NoSecret \notin Secret
ASSUME BoundAssumption   == GuessBound \in Nat \ {0}
ASSUME LimitAssumption   == GAME_PROCESS_COUNT_LIMIT \in Nat \ {0}

Process  == Player \cup Computer
Terminal == {"FINISHED", "GAVE_UP"}

(* TPlayerState, plus ABSENT for an id that is in neither list.            *)
ProcessState == {"ABSENT", "WAIT_A_NUMBER", "IN_PROGRESS"} \cup Terminal

(* TGameStage from the first InitGame on.                                  *)
GameStage == {"WAIT_A_NUMBER", "IN_PROGRESS",
              "IN_PROGRESS_WINNER_DEFINED", "FINISHED"}

Game == [stage    : GameStage,                       \* m_gameStage
         step     : Nat,                             \* m_game_step
         winners  : SUBSET Process,                  \* m_winnersId
         secret   : Secret \cup {NoSecret},          \* m_secretValue
         state    : [Process -> ProcessState],       \* m_playerState
         attempts : [Process -> Nat],                \* AttemptsCount()
         aim      : [Process -> Secret \cup {NoSecret}], \* m_trueGameValue
         ready    : SUBSET Computer]                 \* brains Init()-ed

-----------------------------------------------------------------------------
Present(g)      == {p \in Process : g.state[p] # "ABSENT"}
PlayerList(g)   == Present(g) \cap Player
ComputerList(g) == Present(g) \cap Computer
Running(g)      == {p \in Present(g) : g.state[p] \notin Terminal}
InPlay(g)       == g.stage \in {"IN_PROGRESS", "IN_PROGRESS_WINNER_DEFINED"}

(* UnsteppedPlayers(step), as the set it counts.                           *)
UnsteppedAt(g, step) ==
  {p \in PlayerList(g) : g.state[p] \notin Terminal /\ g.attempts[p] = step}

UnsteppedPlayers(g) == UnsteppedAt(g, g.step)

(* Slip: doComputersStep forgets to skip computers that are done.          *)
MoversEvenDone(g) == {c \in ComputerList(g) : g.attempts[c] = g.step}

(* The computers doComputersStep will move.                                *)
Movers(g) ==
  {c \in ComputerList(g) : g.state[c] \notin Terminal /\ g.attempts[c] = g.step}

(* A mover that was never told a secret: appendGameValue of its guess would *)
(* read a null m_trueGameValue.                                            *)
NullSecret(g) ==
  UnsteppedPlayers(g) = {} /\ \E c \in Movers(g) : g.aim[c] = NoSecret

(* The outcomes of the movers' next guesses: which of them hit.  A mover   *)
(* that is about to make its last possible guess hits.                     *)
Outcomes(g) ==
  {hits \in SUBSET Movers(g) :
      \A c \in Movers(g) : g.attempts[c] + 1 >= GuessBound => c \in hits}

-----------------------------------------------------------------------------
EmptyGame ==
  [stage    |-> "WAIT_A_NUMBER",
   step     |-> 0,
   winners  |-> {},
   secret   |-> NoSecret,
   state    |-> [p \in Process |-> "ABSENT"],
   attempts |-> [p \in Process |-> 0],
   aim      |-> [p \in Process |-> NoSecret],
   ready    |-> {}]

(* InitGame keeps the processes and, as TStandartPlayerProcess::Init does, *)
(* leaves their m_trueGameValue alone.                                     *)
InitGame(g) ==
  [g EXCEPT
     !.stage    = "WAIT_A_NUMBER",
     !.step     = 0,
     !.winners  = {},
     !.secret   = NoSecret,
     !.state    = [p \in Process |->
                     IF p \in Present(g) THEN "WAIT_A_NUMBER" ELSE "ABSENT"],
     !.attempts = [p \in Process |-> 0],
     !.ready    = ComputerList(g)]

(* Slip: StartGame tells the secret to the players only.                   *)
StartGamePlayersOnly(g, s) ==
  IF g.stage # "WAIT_A_NUMBER"
  THEN [g EXCEPT !.secret = s]
  ELSE [g EXCEPT
          !.secret = s,
          !.stage  = "IN_PROGRESS",
          !.state  = [p \in Process |->
                        IF p \in Present(g) THEN "IN_PROGRESS" ELSE "ABSENT"],
          !.aim    = [p \in Process |->
                        IF p \in PlayerList(g) THEN s ELSE g.aim[p]]]

(* StartGame stores the secret before it looks at the stage.               *)
StartGame(g, s) ==
  IF g.stage # "WAIT_A_NUMBER"
  THEN [g EXCEPT !.secret = s]
  ELSE [g EXCEPT
          !.secret = s,
          !.stage  = "IN_PROGRESS",
          !.state  = [p \in Process |->
                        IF p \in Present(g) THEN "IN_PROGRESS" ELSE "ABSENT"],
          !.aim    = [p \in Process |->
                        IF p \in Present(g) THEN s ELSE g.aim[p]]]

CanAddPlayer(g, p) ==
  /\ g.stage = "WAIT_A_NUMBER"
  /\ p \notin Present(g)
  /\ Cardinality(PlayerList(g)) < GAME_PROCESS_COUNT_LIMIT

AddPlayer(g, p) ==
  [g EXCEPT !.state[p] = "WAIT_A_NUMBER", !.attempts[p] = 0, !.aim[p] = NoSecret]

CanAddComputer(g, c) ==
  /\ g.stage = "WAIT_A_NUMBER"
  /\ c \notin Present(g)
  /\ Cardinality(ComputerList(g)) < GAME_PROCESS_COUNT_LIMIT

AddComputer(g, c) ==
  [g EXCEPT !.state[c] = "WAIT_A_NUMBER", !.attempts[c] = 0, !.aim[c] = NoSecret,
            !.ready = @ \cup {c}]

CanRemove(g, p) ==
  /\ g.stage \in {"FINISHED", "WAIT_A_NUMBER"}
  /\ p \in Present(g)

(* erase() destroys the process; m_winnersId is not touched.               *)
RemoveProcess(g, p) ==
  [g EXCEPT !.state[p] = "ABSENT", !.attempts[p] = 0, !.aim[p] = NoSecret,
            !.ready = @ \ {p}]

(* switchGameBrain: the process is Init()-ed first, then gets a new brain  *)
(* on which nobody has called Init yet.  There is no stage check.          *)
SwitchGameBrain(g, c) ==
  [g EXCEPT !.state[c] = "WAIT_A_NUMBER", !.attempts[c] = 0, !.ready = @ \ {c}]

-----------------------------------------------------------------------------
DoComputersStep(g, hits) ==
  [g EXCEPT
     !.attempts = [p \in Process |->
                     IF p \in Movers(g) THEN g.attempts[p] + 1 ELSE g.attempts[p]],
     !.state    = [p \in Process |->
                     IF p \in hits THEN "FINISHED" ELSE g.state[p]]]

(* defineWinners: whoever finished in the round that has just been closed. *)
FinishedAt(g, step) ==
  {p \in Present(g) : g.state[p] = "FINISHED" /\ g.attempts[p] = step}

DefineWinners(g) ==
  IF FinishedAt(g, g.step) = {}
  THEN g
  ELSE [g EXCEPT !.stage = "IN_PROGRESS_WINNER_DEFINED",
                 !.winners = FinishedAt(g, g.step)]

(* Slip: checkFinish looks at the players only.                            *)
CheckFinishPlayers(g) ==
  IF Running(g) \cap PlayerList(g) = {} THEN [g EXCEPT !.stage = "FINISHED"] ELSE g

CheckFinish(g) ==
  IF Running(g) = {} THEN [g EXCEPT !.stage = "FINISHED"] ELSE g

(* Slip: the step counter stays.                                           *)
SameStep(g) == g

NextStep(g) == [g EXCEPT !.step = @ + 1]

(* Slips in closing a round: winners are defined again in every round, or  *)
(* before the computers have moved.                                        *)
CloseRoundRedefining(g, hits) ==
  CheckFinish(DefineWinners(NextStep(DoComputersStep(g, hits))))

CloseRoundWinnersFirst(g, hits) ==
  LET closed == NextStep(g)
      judged == IF closed.stage = "IN_PROGRESS" THEN DefineWinners(closed) ELSE closed
      moved  == DoComputersStep([judged EXCEPT !.step = g.step], hits)
  IN  CheckFinish([moved EXCEPT !.step = judged.step])

(* FinishStep past its early return.                                       *)
CloseRound(g, hits) ==
  LET closed == NextStep(DoComputersStep(g, hits))
  IN  CheckFinish(IF closed.stage = "IN_PROGRESS"
                  THEN DefineWinners(closed) ELSE closed)

(* Slip: FinishStep does not wait for the players.                         *)
FinishStepAtOnce(g, hits) == CloseRound(g, hits)

FinishStep(g, hits) ==
  IF UnsteppedPlayers(g) # {} THEN g ELSE CloseRound(g, hits)

-----------------------------------------------------------------------------
(* Slip: a player may guess again before the round is closed.              *)
CanStepTwice(g, p) == p \in PlayerList(g) /\ g.state[p] = "IN_PROGRESS"

CanStep(g, p) ==
  /\ p \in PlayerList(g)
  /\ g.attempts[p] <= g.step
  /\ g.state[p] = "IN_PROGRESS"

(* Of a guess that is a value: four different digits, as the code asserts. *)
(* The server has checked that before, and a brain makes no other; the     *)
(* window checks nothing, so GameView has the assert's failure.            *)
AppendGameValue(g, p, hit) ==
  [g EXCEPT !.attempts[p] = @ + 1,
            !.state[p] = IF hit THEN "FINISHED" ELSE @]

DoPlayerStep(g, p, hit, hits) == FinishStep(AppendGameValue(g, p, hit), hits)

CanGiveUp(g, p) == p \in PlayerList(g) /\ g.state[p] = "IN_PROGRESS"

IsStepInTransitionStage(g) ==
  /\ \E p \in PlayerList(g) : g.state[p] = "IN_PROGRESS" /\ g.attempts[p] = g.step
  /\ \E p \in PlayerList(g) :
        \/ g.attempts[p] > g.step
        \/ g.state[p] = "GAVE_UP" /\ g.attempts[p] = g.step

(* TStandartPlayerProcess::giveUp, of each process in a set.               *)
GiveUp(g, procs) ==
  [g EXCEPT !.state =
     [p \in Process |-> IF p \in procs THEN "GAVE_UP" ELSE g.state[p]]]

(* Slip: PlayerGiveUp never closes the round.                              *)
PlayerGiveUpOnly(g, p, hits) == CheckFinish(GiveUp(g, {p}))

(* PlayerGiveUp closes the round only if it was half played.               *)
PlayerGiveUp(g, p, hits) ==
  IF IsStepInTransitionStage(g)
  THEN FinishStep(GiveUp(g, {p}), hits)
  ELSE CheckFinish(GiveUp(g, {p}))

(* Slip: FinishGame does not make the players give up.                     *)
GiveUpNobody(g) == g

(* The first loop of FinishGame.                                           *)
GiveUpAll(g) == GiveUp(g, PlayerList(g) \cap Running(g))

-----------------------------------------------------------------------------
(* Slip: the last result of a computer is not told.                        *)
ToldLessOfComputers(g) ==
  [p \in Present(g) |->
     [rounds |-> IF p \in Computer /\ g.attempts[p] > 0
                 THEN g.attempts[p] - 1 ELSE g.attempts[p],
      hit    |-> g.state[p] = "FINISHED" /\ p \in Player,
      gaveUp |-> g.state[p] = "GAVE_UP"]]

(* What the handler of RESTORE_GAME collects of a process: the length of   *)
(* its history, whether the last result wins, and the give_up flag.        *)
Told(g) ==
  [p \in Present(g) |->
     [rounds |-> g.attempts[p],
      hit    |-> g.state[p] = "FINISHED",
      gaveUp |-> g.state[p] = "GAVE_UP"]]

(* history[item.step - 1] cannot tell of a process that gave up before its *)
(* first guess, and without a player the request is refused.               *)
CanTell(g) ==
  /\ PlayerList(g) # {}
  /\ \A p \in Present(g) : g.state[p] = "GAVE_UP" => g.attempts[p] > 0

(* Slip: the give_up flag is set before restoreProcess, which resets it.   *)
RestoredStateNoGiveUp(told) == IF told.hit THEN "FINISHED" ELSE "IN_PROGRESS"

(* restoreProcess, and the give_up flag set after it.                      *)
RestoredState(told) ==
  IF told.gaveUp THEN "GAVE_UP" ELSE IF told.hit THEN "FINISHED" ELSE "IN_PROGRESS"

RestoredStage(told) ==
  LET open == {p \in DOMAIN told : RestoredState(told[p]) = "IN_PROGRESS"}
  IN  IF open = DOMAIN told THEN "IN_PROGRESS"
      ELSE IF open = {} THEN "FINISHED" ELSE "IN_PROGRESS_WINNER_DEFINED"

(* Slip: the most guesses instead of the fewest.                           *)
RestoredStepMax(told) ==
  LET rounds == {told[p].rounds : p \in DOMAIN told \cap Player}
  IN  CHOOSE n \in rounds : \A m \in rounds : m <= n

(* The step is the smallest number of guesses of a player, done or not.    *)
RestoredStep(told) ==
  LET rounds == {told[p].rounds : p \in DOMAIN told \cap Player}
  IN  CHOOSE n \in rounds : \A m \in rounds : n <= m

(* restoreGame on a new TGameController: m_winnersId stays empty.          *)
RestoreGame(s, told) ==
  [stage    |-> RestoredStage(told),
   step     |-> RestoredStep(told),
   winners  |-> {},
   secret   |-> s,
   state    |-> [p \in Process |->
                   IF p \in DOMAIN told THEN RestoredState(told[p]) ELSE "ABSENT"],
   attempts |-> [p \in Process |->
                   IF p \in DOMAIN told THEN told[p].rounds ELSE 0],
   aim      |-> [p \in Process |-> IF p \in DOMAIN told THEN s ELSE NoSecret],
   ready    |-> DOMAIN told \cap Computer]
=============================================================================
