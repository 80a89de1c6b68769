---------------------------- MODULE GameInvariants ----------------------------
(***************************************************************************)
(* What is true of one game at a time, whoever owns it: the parts of the   *)
(* inductive invariants of GameController, GameRestore and GameServer, and *)
(* what decreases in the loop of FinishGame.                               *)
(***************************************************************************)
EXTENDS GameOps

(* A game that has never been restored.  GoodRound holds inside a call     *)
(* too, between a player's move and the closing of the round; Open is what *)
(* the end of the call restores.                                           *)
GoodLobby(g) ==
  g.stage = "WAIT_A_NUMBER" =>
    /\ g.step = 0
    /\ g.winners = {}
    /\ \A p \in Process :
          g.state[p] \in {"ABSENT", "WAIT_A_NUMBER"} /\ g.attempts[p] = 0

GoodAttempts(g) ==
  InPlay(g) =>
    \A p \in Process :
      /\ g.state[p] # "WAIT_A_NUMBER"
      /\ g.state[p] # "ABSENT" => g.attempts[p] <= g.step + 1
      /\ g.state[p] = "IN_PROGRESS" => g.attempts[p] >= g.step
      /\ p \in Computer /\ g.state[p] # "ABSENT" => g.attempts[p] <= g.step

GoodEnd(g) ==
  g.stage = "FINISHED" => \A p \in Process : g.state[p] \in Terminal \cup {"ABSENT"}

GoodRace(g) ==
  g.stage = "IN_PROGRESS" =>
    /\ g.winners = {}
    /\ \A p \in Process : g.state[p] = "FINISHED" => g.attempts[p] > g.step

GoodWinners(g) ==
  g.stage \in {"IN_PROGRESS_WINNER_DEFINED", "FINISHED"} =>
    /\ g.stage = "IN_PROGRESS_WINNER_DEFINED" =>
          /\ g.winners # {}
          /\ \A w \in g.winners : g.state[w] = "FINISHED" /\ g.attempts[w] <= g.step
    /\ \A w \in g.winners : g.state[w] \in {"FINISHED", "ABSENT"}
    /\ \A q \in Process : g.state[q] = "FINISHED" =>
          /\ g.winners # {}
          /\ \A w \in g.winners : g.state[w] = "FINISHED" =>
                /\ g.attempts[w] <= g.attempts[q]
                /\ g.attempts[w] = g.attempts[q] <=> q \in g.winners

(* One secret for all; it may be none only if the game was finished before *)
(* it had started.                                                         *)
GoodSecret(g) ==
  /\ ComputerList(g) \subseteq g.ready
  /\ g.stage # "WAIT_A_NUMBER" =>
       \E s \in Secret \cup {NoSecret} :
         /\ \A p \in Present(g) : g.aim[p] = s
         /\ InPlay(g) => s \in Secret

GoodRound(g) ==
  /\ g \in Game
  /\ GoodLobby(g)
  /\ GoodAttempts(g)
  /\ GoodEnd(g)
  /\ GoodRace(g)
  /\ GoodWinners(g)
  /\ GoodSecret(g)

(* A process that is ahead of the round waits for an unstepped player, and *)
(* somebody is still running.                                              *)
Open(g) ==
  InPlay(g) =>
    /\ (\E p \in PlayerList(g) : g.attempts[p] > g.step) => UnsteppedPlayers(g) # {}
    /\ Present(g) # {} => Running(g) # {}

-----------------------------------------------------------------------------
(* A game that has begun or ended, restored or not, from whatever report.  *)
Begun(g) ==
  /\ g \in Game
  /\ g.stage # "WAIT_A_NUMBER"
  /\ GoodEnd(g)
  /\ InPlay(g) => \A p \in Process : g.state[p] # "WAIT_A_NUMBER"
  /\ g.stage = "IN_PROGRESS" => g.winners = {}
  /\ GoodSecret(g)

(* Who still guesses has made b guesses, or, a player, one more; b is a    *)
(* base that the step counter may have yet to reach.                       *)
Base(g, b) ==
  /\ b \in Nat /\ g.step <= b
  /\ \A p \in Process : g.state[p] = "IN_PROGRESS" =>
       /\ g.attempts[p] \in {b, b + 1}
       /\ p \in Computer => g.attempts[p] = b

Banded(g) == Begun(g) /\ (InPlay(g) => \E b \in Nat : Base(g, b))

(* Between two calls not every player of a banded game is past the base:   *)
(* what a client is told of the game tells the base.                       *)
Level(g, b) == PlayerList(g) # {} => \E p \in PlayerList(g) : g.attempts[p] <= b

Tellable(g) ==
  Begun(g) /\ (InPlay(g) => \E b \in Nat : Base(g, b) /\ Level(g, b))

(* What a client that has been told the truth reports: some round that all *)
(* who still guess are in, and that not every player is past.              *)
Honest(told) ==
  \E b \in {told[p].rounds : p \in DOMAIN told} :
    /\ \E p \in DOMAIN told \cap Player : told[p].rounds <= b
    /\ \A p \in DOMAIN told : RestoredState(told[p]) = "IN_PROGRESS" =>
         /\ told[p].rounds \in {b, b + 1}
         /\ p \in Computer => told[p].rounds = b

-----------------------------------------------------------------------------
(* A game before its start, on a server, which never plays a game again:   *)
(* nobody has been told a secret.                                          *)
Lobby(g) ==
  /\ GoodRound(g)
  /\ g.stage = "WAIT_A_NUMBER"
  /\ \A p \in Process : g.aim[p] = NoSecret

(* The same while FINISH_GAME is at it: the players have given up.         *)
GivenUpLobby(g) ==
  /\ g \in Game
  /\ g.stage = "WAIT_A_NUMBER" /\ g.step = 0 /\ g.winners = {}
  /\ \A p \in Process :
       /\ g.state[p] \in {"ABSENT", IF p \in Player THEN "GAVE_UP" ELSE "WAIT_A_NUMBER"}
       /\ g.attempts[p] = 0 /\ g.aim[p] = NoSecret

-----------------------------------------------------------------------------
(* The loop of FinishGame, in which no player is left: the counter comes   *)
(* to the guesses the computers have made, then they guess once a round    *)
(* until the last of them has hit, with GuessBound guesses at the latest;  *)
(* one that has made more hits with its next.                              *)
RoundsLeft(g) ==
  IF g.stage = "FINISHED" THEN 0
  ELSE IF Running(g) = {} THEN 1
  ELSE LET made == CHOOSE n \in {g.attempts[p] : p \in Running(g)} : TRUE
           last == IF made < GuessBound THEN GuessBound ELSE made + 1
       IN  1 + last - g.step
=============================================================================
