------------------------------ MODULE GameServer ------------------------------
(***************************************************************************)
(* The commands of TEventProcessor on the games of TDataStorage and on     *)
(* what each TPlayer remembers of its games.  The one worker handles one   *)
(* command at a time, so a command is one action; only the loop of         *)
(* FINISH_GAME is spread over several, during which no other runs.         *)
(* STEP_INFO, GAME_RESULT and SERVER_INFO change nothing.  The games of a  *)
(* process that died come back as a new Init and RESTORE_GAME.             *)
(***************************************************************************)
EXTENDS GameInvariants

CONSTANTS
  GameId,                (* ids usable in m_games                          *)
  PLAYER_GAMES_LIMIT,    (* games CREATE_GAME lets a player have           *)
  MaxStep,               (* rounds opened by requests, bounds a run        *)
  SameId,                (* pairs of a player and a computer with one id   *)
  Report                 (* what clients tell of a game in RESTORE_GAME    *)

ASSUME GamesAssumption  == PLAYER_GAMES_LIMIT \in Nat \ {0} /\ MaxStep \in Nat
ASSUME NoGameAssumption == "none" \notin GameId    \* NoGame, below
ASSUME SameIdAssumption == SameId \subseteq Player \X Computer

(* The clients' players with their host rights, the owner of each computer *)
(* and what Told takes from the history.  A player and a computer with one *)
(* id cannot both be told of: the handler's map has one place for them.    *)
ASSUME ReportAssumption ==
  \A r \in Report :
    /\ DOMAIN r.host \subseteq Player /\ DOMAIN r.host # {}
    /\ DOMAIN r.owner \subseteq Computer
    /\ \A c \in DOMAIN r.owner : r.owner[c] \in Player
    /\ DOMAIN r.told = DOMAIN r.host \cup DOMAIN r.owner
    /\ IsFiniteSet(DOMAIN r.told)
    /\ \A p \in DOMAIN r.told : r.told[p].rounds \in Nat
    /\ \A p \in DOMAIN r.host : r.host[p] \in BOOLEAN
    /\ ((DOMAIN r.host) \X (DOMAIN r.owner)) \cap SameId = {}

VARIABLES
  registered,   (* m_serverState = READY_TO_WORK                           *)
  exists,       (* the ids in m_games                                      *)
  game,         (* the controller of each of them                          *)
  known,        (* the ids in m_players                                    *)
  entry,        (* m_gamesIds of each player                               *)
  finishing,    (* the game in the loop of FINISH_GAME, if any             *)
  alive         (* the process is up and has done nothing undefined        *)

vars == <<registered, exists, game, known, entry, finishing, alive>>

NoGame == "none"

(* TGameData, with in = FALSE for an id that is not in m_gamesIds.         *)
Entry   == [in : BOOLEAN, host : BOOLEAN, computers : SUBSET Computer]
NoEntry == [in |-> FALSE, host |-> FALSE, computers |-> {}]
NewEntry(host, computers) == [in |-> TRUE, host |-> host, computers |-> computers]

TypeOK ==
  /\ registered \in BOOLEAN
  /\ exists \subseteq GameId
  /\ game \in [GameId -> Game]
  /\ known \subseteq Player
  /\ entry \in [Player -> [GameId -> Entry]]
  /\ finishing \in exists \cup {NoGame}
  /\ alive \in BOOLEAN

Init ==
  /\ registered = FALSE
  /\ exists = {}
  /\ game = [g \in GameId |-> EmptyGame]
  /\ known = {}
  /\ entry = [p \in Player |-> [g \in GameId |-> NoEntry]]
  /\ finishing = NoGame
  /\ alive = TRUE

-----------------------------------------------------------------------------
GamesCount(p)     == Cardinality({g \in GameId : entry[p][g].in})
isHost(p, g)      == entry[p][g].host
PlayersCount(gm)  == Cardinality(Present(gm))
SetGame(g, gm)    == game' = [game EXCEPT ![g] = gm]
SetEntry(p, g, e) == entry' = [entry EXCEPT ![p][g] = e]

(* The worker is free and the server is registered.                        *)
Ready == alive /\ registered /\ finishing = NoGame /\ UNCHANGED <<registered, alive>>

(* What almost every handler asks first.                                   *)
Found(p, g) == Ready /\ p \in known /\ g \in exists

RegisterServer ==
  /\ alive /\ ~registered
  /\ registered' = TRUE
  /\ UNCHANGED <<exists, game, known, entry, finishing, alive>>

(* DISCONNECT_SERVER clears the storage.                                   *)
DisconnectServer ==
  /\ alive /\ registered /\ finishing = NoGame
  /\ registered' = FALSE
  /\ exists' = {}
  /\ game' = [g \in GameId |-> EmptyGame]
  /\ known' = {}
  /\ entry' = [p \in Player |-> [g \in GameId |-> NoEntry]]
  /\ UNCHANGED <<finishing, alive>>

(* A CREATE_GAME or ADD_PLAYER that is refused has still created the       *)
(* player: there is always an id of no game to ask for.                    *)
CreatePlayer(p) ==
  /\ Ready
  /\ known' = known \cup {p}
  /\ UNCHANGED <<exists, game, entry, finishing>>

-----------------------------------------------------------------------------
CanCreate(p, g) == GamesCount(p) < PLAYER_GAMES_LIMIT /\ g \notin exists

CreateGame(p, g) ==
  /\ Ready
  /\ CanCreate(p, g)
  /\ known' = known \cup {p}
  /\ exists' = exists \cup {g}
  /\ SetGame(g, InitGame(AddPlayer(EmptyGame, p)))
  /\ SetEntry(p, g, NewEntry(TRUE, {}))
  /\ UNCHANGED finishing

(* With a computer id the creator is the host and not a player.            *)
CreateComputerGame(p, g, c) ==
  /\ Ready
  /\ CanCreate(p, g)
  /\ known' = known \cup {p}
  /\ exists' = exists \cup {g}
  /\ SetGame(g, InitGame(AddComputer(EmptyGame, c)))
  /\ SetEntry(p, g, NewEntry(TRUE, {c}))
  /\ UNCHANGED finishing

(* addGame replaces what the player's entry held before.                   *)
AddPlayerToGame(p, g) ==
  /\ Ready
  /\ g \in exists
  /\ CanAddPlayer(game[g], p)
  /\ known' = known \cup {p}
  /\ SetGame(g, InitGame(AddPlayer(game[g], p)))
  /\ SetEntry(p, g, NewEntry(FALSE, {}))
  /\ UNCHANGED <<exists, finishing>>

AddComputerToGame(p, g, c) ==
  /\ Found(p, g)
  /\ isHost(p, g)
  /\ CanAddComputer(game[g], c)
  /\ SetGame(g, InitGame(AddComputer(game[g], c)))
  /\ SetEntry(p, g, [entry[p][g] EXCEPT !.computers = @ \cup {c}])
  /\ UNCHANGED <<exists, known, finishing>>

(* Slip: a brain may be switched in the middle of a game.                  *)
SwitchBrainAnyStage(p, g, c) ==
  /\ Found(p, g)
  /\ isHost(p, g)
  /\ c \in ComputerList(game[g])
  /\ SetGame(g, InitGame(SwitchGameBrain(game[g], c)))
  /\ UNCHANGED <<exists, known, entry, finishing>>

SwitchBrain(p, g, c) ==
  /\ Found(p, g)
  /\ isHost(p, g)
  /\ game[g].stage = "WAIT_A_NUMBER"
  /\ c \in ComputerList(game[g])
  /\ SetGame(g, InitGame(SwitchGameBrain(game[g], c)))
  /\ UNCHANGED <<exists, known, entry, finishing>>

GiveRights(p, g) ==
  /\ Found(p, g)
  /\ SetEntry(p, g, [entry[p][g] EXCEPT !.in = TRUE, !.host = TRUE])
  /\ UNCHANGED <<exists, game, known, finishing>>

-----------------------------------------------------------------------------
(* Who is asked for by RESTORE_GAME, and created if unknown.               *)
ToldPlayers(r) == DOMAIN r.host \cup {r.owner[c] : c \in DOMAIN r.owner}

(* addGame unless the player has the game already, then addComputer, which *)
(* makes an entry without host right for an owner that does not play.      *)
RestoredEntry(r, p, e) ==
  LET mine == {c \in DOMAIN r.owner : r.owner[c] = p}
      kept == IF e.in THEN e
              ELSE IF p \in DOMAIN r.host THEN NewEntry(r.host[p], {})
              ELSE IF mine # {} THEN NewEntry(FALSE, {}) ELSE e
  IN  [kept EXCEPT !.computers = @ \cup mine]

AtLimit(r) == \E p \in DOMAIN r.host : GamesCount(p) >= PLAYER_GAMES_LIMIT

(* Slip: players are put in the game and are not told.                     *)
RestoreGameOfOwners(g, r, s) ==
  /\ Ready
  /\ g \notin exists
  /\ ~AtLimit(r)
  /\ exists' = exists \cup {g}
  /\ SetGame(g, RestoreGame(s, r.told))
  /\ known' = known \cup ToldPlayers(r)
  /\ entry' = [p \in Player |->
       [entry[p] EXCEPT ![g] = RestoredEntry([r EXCEPT !.host = << >>], p, @)]]
  /\ UNCHANGED finishing

RestoreGameCommand(g, r, s) ==
  /\ Ready
  /\ g \notin exists
  /\ ~AtLimit(r)
  /\ exists' = exists \cup {g}
  /\ SetGame(g, RestoreGame(s, r.told))
  /\ known' = known \cup ToldPlayers(r)
  /\ entry' = [p \in Player |-> [entry[p] EXCEPT ![g] = RestoredEntry(r, p, @)]]
  /\ UNCHANGED finishing

-----------------------------------------------------------------------------
StartGameCommand(p, g, s) ==
  /\ Found(p, g)
  /\ isHost(p, g)
  /\ SetGame(g, StartGame(game[g], s))
  /\ UNCHANGED <<exists, known, entry, finishing>>

(* PLAYER_STEP with a value; any other request is answered with an error   *)
(* before the controller is called.                                        *)
PlayerStep(p, g) ==
  /\ Found(p, g)
  /\ game[g].stage # "FINISHED"
  /\ CanStep(game[g], p)
  /\ game[g].step < MaxStep
  /\ \E hit \in BOOLEAN, hits \in Outcomes(game[g]) :
        SetGame(g, DoPlayerStep(game[g], p, hit, hits))
  /\ UNCHANGED <<exists, known, entry, finishing>>

PlayerGiveUpCommand(p, g) ==
  /\ Found(p, g)
  /\ CanGiveUp(game[g], p)
  /\ \E hits \in Outcomes(game[g]) : SetGame(g, PlayerGiveUp(game[g], p, hits))
  /\ UNCHANGED <<exists, known, entry, finishing>>

(* COMPUTER_STEP closes the round, started or not, for any known player.   *)
ComputerStep(p, g) ==
  /\ Found(p, g)
  /\ UnsteppedPlayers(game[g]) = {}
  /\ ~NullSecret(game[g])
  /\ game[g].step < MaxStep
  /\ \E hits \in Outcomes(game[g]) : SetGame(g, FinishStep(game[g], hits))
  /\ UNCHANGED <<exists, known, entry, finishing>>

FinishGame(p, g) ==
  /\ Found(p, g)
  /\ isHost(p, g)
  /\ SetGame(g, GiveUpAll(game[g]))
  /\ finishing' = g
  /\ UNCHANGED <<exists, known, entry>>

FinishGameLoop(g) ==
  /\ alive /\ finishing = g
  /\ ~NullSecret(game[g])
  /\ IF game[g].stage = "FINISHED"
     THEN finishing' = NoGame /\ UNCHANGED game
     ELSE /\ \E hits \in Outcomes(game[g]) : SetGame(g, FinishStep(game[g], hits))
          /\ UNCHANGED finishing
  /\ UNCHANGED <<registered, exists, known, entry, alive>>

(* The behaviour is undefined from here on: a null pointer is read, or     *)
(* a game that has been destroyed is used.                                 *)
Crash == alive' = FALSE /\ UNCHANGED <<registered, exists, game, known, entry, finishing>>

(* The break at the limit only leaves the loop over the players: the game  *)
(* has been removed, and the reference to it is used all the same.         *)
RestoreGameAtLimit(g, r) ==
  /\ alive /\ registered /\ finishing = NoGame
  /\ g \notin exists
  /\ AtLimit(r)
  /\ Crash

ComputerStepCrash(p, g) ==
  /\ alive /\ registered /\ finishing = NoGame
  /\ p \in known /\ g \in exists
  /\ NullSecret(game[g])
  /\ Crash

FinishGameCrash(g) ==
  /\ alive /\ finishing = g
  /\ NullSecret(game[g])
  /\ Crash

-----------------------------------------------------------------------------
(* Slip: a game is kept when the last process has left.                    *)
KeepAlways(g, gm) == SetGame(g, gm) /\ UNCHANGED exists

(* A game without processes is removed.                                    *)
KeepIfPlayed(g, gm) ==
  IF PlayersCount(gm) = 0
  THEN exists' = exists \ {g} /\ SetGame(g, EmptyGame)
  ELSE SetGame(g, gm) /\ UNCHANGED exists

(* Slip: computers do not keep their owner from leaving.                   *)
LeaveWithComputers(p, g) ==
  /\ Found(p, g)
  /\ CanRemove(game[g], p)
  /\ KeepIfPlayed(g, RemoveProcess(game[g], p))
  /\ SetEntry(p, g, NoEntry)
  /\ UNCHANGED <<known, finishing>>

LeavePlayer(p, g) ==
  /\ Found(p, g)
  /\ entry[p][g].computers = {}
  /\ CanRemove(game[g], p)
  /\ KeepIfPlayed(g, RemoveProcess(game[g], p))
  /\ SetEntry(p, g, NoEntry)
  /\ UNCHANGED <<known, finishing>>

(* Slip: the player goes on remembering the computer.                      *)
LeaveComputerRemembered(p, g, c) ==
  /\ Found(p, g)
  /\ c \in entry[p][g].computers
  /\ CanRemove(game[g], c)
  /\ KeepIfPlayed(g, RemoveProcess(game[g], c))
  /\ UNCHANGED <<known, entry, finishing>>

(* removeComputer forgets the whole game if the ids are equal.             *)
LeaveComputer(p, g, c) ==
  /\ Found(p, g)
  /\ c \in entry[p][g].computers
  /\ CanRemove(game[g], c)
  /\ KeepIfPlayed(g, RemoveProcess(game[g], c))
  /\ SetEntry(p, g, IF <<p, c>> \in SameId THEN NoEntry
                    ELSE [entry[p][g] EXCEPT !.computers = @ \ {c}])
  /\ UNCHANGED <<known, finishing>>

RemoveGame(p, g) ==
  /\ Found(p, g)
  /\ PlayersCount(game[g]) <= 1
  /\ CanRemove(game[g], p)
  /\ exists' = exists \ {g}
  /\ SetGame(g, EmptyGame)
  /\ SetEntry(p, g, NoEntry)
  /\ UNCHANGED <<known, finishing>>

-----------------------------------------------------------------------------
Next ==
  \/ RegisterServer
  \/ DisconnectServer
  \/ \E p \in Player :
       \/ CreatePlayer(p)
       \/ \E g \in GameId :
            \/ CreateGame(p, g)
            \/ AddPlayerToGame(p, g)
            \/ GiveRights(p, g)
            \/ \E s \in Secret : StartGameCommand(p, g, s)
            \/ PlayerStep(p, g)
            \/ PlayerGiveUpCommand(p, g)
            \/ ComputerStep(p, g)
            \/ FinishGame(p, g)
            \/ ComputerStepCrash(p, g)
            \/ LeavePlayer(p, g)
            \/ RemoveGame(p, g)
            \/ \E c \in Computer :
                 \/ CreateComputerGame(p, g, c)
                 \/ AddComputerToGame(p, g, c)
                 \/ SwitchBrain(p, g, c)
                 \/ LeaveComputer(p, g, c)
  \/ \E g \in GameId :
       \/ FinishGameLoop(g)
       \/ FinishGameCrash(g)
       \/ \E r \in Report :
            \/ \E s \in Secret : RestoreGameCommand(g, r, s)
            \/ RestoreGameAtLimit(g, r)

(* The worker, once in the loop of FINISH_GAME, goes on with it.           *)
Fairness ==
  \A g \in GameId : WF_vars(FinishGameLoop(g) \/ FinishGameCrash(g))

Spec == Init /\ [][Next]_vars /\ Fairness

-----------------------------------------------------------------------------
(* Whoever plays in a game has it among its games: a player that is in the *)
(* controller's list and not in m_gamesIds could not be counted against    *)
(* the limit and would not be refused while it owns computers; a player    *)
(* restored with RESTORE_GAME counts it too.  Of a player with a computer  *)
(* of its own id it is not true (removeComputer).                          *)
PlayersHaveTheirGames ==
  \A g \in exists : \A p \in PlayerList(game[g]) :
    (\A c \in Computer : <<p, c>> \notin SameId) => p \in known /\ entry[p][g].in

(* A computer that a player may remove exists: across CREATE, ADD, LEAVE,  *)
(* REMOVE and the re-use of a game id, TPlayer never remembers a computer  *)
(* that TGameController has forgotten, nor do two players own the same.    *)
OwnedComputersExist ==
  \A g \in GameId, p \in Player : \A c \in entry[p][g].computers :
    /\ g \in exists
    /\ c \in ComputerList(game[g])
    /\ \A q \in Player \ {p} : c \notin entry[q][g].computers

(* No game is kept that nobody could ever leave, and so nobody could ever  *)
(* remove: each one has a process.                                         *)
GamesHaveProcesses == \A g \in exists : Present(game[g]) # {}

(* A player that leaves a game others go on with leaves no computer of its *)
(* own behind and no longer counts the game, and nobody else loses theirs. *)
LeavingIsClean ==
  [][\A g \in exists \cap exists', p \in Player :
       (p \in PlayerList(game[g]) /\ p \notin PlayerList(game'[g])) =>
         /\ entry[p][g].computers = {}
         /\ ~entry'[p][g].in
         /\ \A q \in Player \ {p} : entry'[q] = entry[q]]_vars

(* The test error_player_have_undeleted_computers.json:57 refuses to let a *)
(* player go that still has computers, so that every computer has somebody *)
(* who may remove it.                                                      *)
ComputersAreOwned ==
  \A g \in exists : \A c \in ComputerList(game[g]) :
    \E p \in Player : c \in entry[p][g].computers

(* FINISH_GAME of any game at any time, before its start and after its end *)
(* included, does not occupy the only worker for ever: players have given  *)
(* up and computers hit, or move without a secret and end the process.     *)
FinishGameEnds ==
  \A g \in GameId : (finishing = g) ~> (finishing # g \/ ~alive)

(* COMPUTER_STEP and FINISH_GAME meet a computer without a secret only     *)
(* before the start: once a game has begun, or has been restored from      *)
(* whatever a client tells, no order of commands leaves one without.       *)
NullOnlyBeforeStart ==
  \A g \in exists : NullSecret(game[g]) => game[g].stage = "WAIT_A_NUMBER"

(* The reports are true of some state of a game between two commands.      *)
HonestReports == \A r \in Report : Honest(r.told)

(* Every game of the server is a fair race, though COMPUTER_STEP and       *)
(* FINISH_GAME come at any time and games are restored in mid-round: who   *)
(* still guesses does so for one secret, nobody is a guess more than one   *)
(* ahead of another, and nobody is left behind the step counter, where the *)
(* loop of FINISH_GAME would go on for ever.                               *)
GamesPlayFair ==
  \A g \in exists : InPlay(game[g]) =>
    \A p, q \in Running(game[g]) :
      /\ game[g].aim[p] = game[g].aim[q] /\ game[g].aim[p] # NoSecret
      /\ game[g].attempts[p] <= game[g].attempts[q] + 1
      /\ game[g].attempts[p] >= game[g].step

(* What players are told of a game that has begun, restored or not and in  *)
(* mid-loop of FINISH_GAME too, is honest: a server that follows this one  *)
(* after a crash is restored from honest reports again.                    *)
ToldHonestly ==
  \A g \in exists : game[g].stage # "WAIT_A_NUMBER" /\ CanTell(game[g])
    => Honest(Told(game[g]))

(* Without RESTORE_GAME the server keeps each game that has begun as good  *)
(* as a controller keeps its only one: the winners have the fewest guesses *)
(* of those who hit, and nobody waits for nothing.                         *)
GamesAreRaces ==
  \A g \in exists : game[g].stage # "WAIT_A_NUMBER" =>
    /\ GoodRound(game[g])
    /\ finishing # g => Open(game[g])

(* Each iteration of the loop of FINISH_GAME, of any game that is honestly *)
(* reported or was never restored, brings the end of the loop nearer: no   *)
(* computer waits for a counter that has passed it.                        *)
FinishGameAdvances ==
  [][\A g \in GameId : (finishing = g /\ finishing' = g /\ alive') =>
       RoundsLeft(game'[g]) \in 0 .. RoundsLeft(game[g]) - 1]_vars

(* No command, in no order, takes back an outcome while the game exists:   *)
(* the announced winners stay, and so does each process that has hit or    *)
(* given up, with its guesses, until it leaves.                            *)
OutcomesStand ==
  [][\A g \in exists \cap exists' :
       /\ game[g].winners # {} => game'[g].winners = game[g].winners
       /\ \A p \in Process : game[g].state[p] \in Terminal =>
            \/ game'[g].state[p] = "ABSENT"
            \/ /\ game'[g].state[p] = game[g].state[p]
               /\ game'[g].attempts[p] = game[g].attempts[p]]_vars

(* Seen from one game, every command is a call that TGameController        *)
(* accepts at that moment, or creates or removes the game; no command for  *)
(* one game disturbs another.                                              *)
Controller(g) ==
  INSTANCE GameController WITH game <- game[g], finishing <- (finishing = g)

EveryGameIsAController ==
  [][\A g \in GameId :
       \/ Controller(g)!EarlyNext
       \/ game'[g] = game[g] /\ (finishing' = g <=> finishing = g)
       \/ g \notin exists
       \/ g \notin exists' /\ game'[g] = EmptyGame]_vars

-----------------------------------------------------------------------------
(* The inductive invariant: what one game, the ids and the entries of that *)
(* game have to do with each other.                                        *)
Typed ==
  /\ exists \subseteq GameId
  /\ game \in [GameId -> Game]
  /\ known \subseteq Player
  /\ entry \in [Player -> [GameId -> Entry]]

(* gm is the game, here whether it exists, and mine[p] is the entry that   *)
(* player p of those known has of it.                                      *)
GoodGame(gm, here, players, mine) ==
  /\ IsFiniteSet(Present(gm))
  /\ here => /\ Present(gm) # {}
             /\ \A p \in PlayerList(gm) :
                  (\A c \in Computer : <<p, c>> \notin SameId)
                    => p \in players /\ mine[p].in
  /\ \A p \in Player : \A c \in mine[p].computers :
        /\ here
        /\ c \in ComputerList(gm)
        /\ \A q \in Player \ {p} : c \notin mine[q].computers

SInv ==
  /\ Typed
  /\ \A g \in GameId :
        GoodGame(game[g], g \in exists, known, [p \in Player |-> entry[p][g]])

(* One game at a time, in the loop of FINISH_GAME or not: every report     *)
(* lets it begin, an honest one keeps it tellable, and one that has never  *)
(* been restored is as good as one that has a controller for itself.       *)
FreeGame(gm) ==
  \/ Lobby(gm)
  \/ /\ Begun(gm)
     /\ HonestReports => Tellable(gm)
     /\ Report = {} => GoodRound(gm) /\ Open(gm)

BusyGame(gm) ==
  \/ GivenUpLobby(gm)
  \/ /\ Begun(gm)
     /\ PlayerList(gm) \cap Running(gm) = {}
     /\ HonestReports => Tellable(gm)
     /\ Report = {} => GoodRound(gm)

FInv ==
  /\ finishing # NoGame => registered /\ finishing \in exists
  /\ \A g \in exists :
       IF finishing = g THEN BusyGame(game[g]) ELSE FreeGame(game[g])
=============================================================================
