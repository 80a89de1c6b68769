# A TLA+ model of BullsAndCows

The repository holds a game, *bulls and cows*, for several people and computers:
a model library (`src/projects/model`), a server that offers games to chat bots
over Kafka or TCP (`src/projects/server`), a desktop game
(`src/projects/game_view`), a simulation of the computer players
(`src/projects/simulation`) and a generator for the decision tree of the
strongest one (`src/projects/decision_tree_generator`).

This directory holds TLA+ modules translated from that code, instances of them
that TLC checks, and proofs that TLAPS checks. `PROJECT.json` says for every
definition which lines of the source it stands for.

## 1. Inventory

| Component | State | Operations | Talks to |
|---|---|---|---|
| `TGameController` (game_controller.cpp) | stage, step, winners, secret, players, computers | InitGame, StartGame, DoPlayerStep, PlayerGiveUp, FinishStep, FinishGame, add/remove processes, switchGameBrain, restoreGame, PlayerPlace, getGameResults | its processes; owned by the server or the desktop game |
| `TStandartPlayerProcess` (player_process.cpp) | state, history, secret, brain | Init, setTrueGameValue, appendGameValue, makeStep, giveUp, restoreProcess | brain, rules |
| Brains (standart_brain.cpp) | candidate values | Init, makePredict, restoreFromHistory | rules |
| Rules (standart_rules.cpp) | none | isValid, calculateBullsAndCows, enumeration | |
| `TEventProcessor` (event_processor.cpp) | registration, worker threads | 2 server and 14 game commands | storage, player records, controllers, event manager |
| `TDataStorage` (data_storage.hpp) | games, players, locks | create, get, remove, lock, clear | |
| `TPlayer` (player.cpp) | for each game: host right, computers | add/remove game and computer, setHost | |
| `TEventManager`, `TEvent` (events/) | queue, map, stop flag, responses | addEvent, getNextEvent, set/getEventResponse, removeEvent, stop | the threads below |
| `TServer`, Kafka build (server.cpp) | 4 consumer threads | consume, hand over, wait, commit, stop | Kafka, event manager |
| `TServer`, TCP build | acceptor, session threads | accept, session, stop | event manager |
| `main()` | signal flag | start processor, start server; stop both | |
| `TGameView` | mode, ids, winners, tables | buttons | one controller |
| `TDecisionTreeGenerator`, `TValueNode` | tree, file bc.json | start, search, load, write | rules; the strongest brain reads its file |
| Simulation | thread, statistics, stop flag | start, stop, results | one process |

What is hard here, and what the properties are about (`hazards` in
`PROJECT.json` has each at its line):

* **Rounds.** Players guess in any order, computers when the last player has. A
  give-up can close a round, end the game or do neither. The stage, the step
  counter, the histories' lengths and the list of winners must agree after
  any sequence of calls.
* **The end.** A game can end by a guess, a give-up, `FinishStep` or
  `FinishGame`; the loop of `FinishGame` has no bound of its own.
* **Three records of one game.** The storage, the controller and the players'
  own records are updated one after the other by the handlers.
* **Threads.** Consumers, worker and main meet in `TEventManager`: a condition
  variable each way, a map, a stop flag.
* **Sessions.** The TCP build counts threads that start and end on their own,
  and decides by that count without its mutex.
* **Crashes.** Kafka delivers again what has not been committed; clients send
  the games a dead server has lost; the tree generator resumes from its file.
* **The window.** What the user may press, see and choose is kept beside the
  controller and must follow it.

## 2. Modules

```
GameOps            TGameController and its processes as operators on a record
  GameInvariants   what is true of one game, whoever owns it
  GameOpsProofs              lemmas: what each operator does to a game
  GameController   one game under its owner's calls
    GameResults              PlayerPlace and getGameResults
    GameIsRace ---> FairRace the abstract specification it implements
    GameControllerProofs     theorems: the invariants, what a step may never
                             do, the places, that it implements the race
    GameRestore              a game restored from what clients know of it
      GameRestoreProofs      theorems: what a restore keeps, what holds after it
  GameServer       the commands on games, storage and player records
                   (INSTANCE GameController for each game)
    GameServerProofs         theorems: they agree with each other, every
                             command is a call the controller accepts, every
                             game is played fairly and keeps its outcome
  GameView         the window of the desktop game around one game
    GameViewProofs           theorems: controls and tables follow the game
EventManager       consumers, worker, main, Kafka's offsets
  EventManagerProofs         theorems: no event is lost, doubled, overtaken
TcpServer          acceptor, sessions, main of the TCP build
  TcpServerProofs            theorems: sessions and their count
Rules              values, bulls and cows, the random value
  DecisionTree     nodes and search of the decision tree generator
    TreeGenerator  its runs and the file bc.json
    ComputerProcess  one computer with one of the four brains
      ComputerProcessProofs  theorems: what each brain guesses and keeps
```

`MC*.tla` give the model values and the small sets; each `.cfg` is one run.

**GameOps.** A game is a record with the members of `TGameController`. The two
process lists are functions over `Process == Player \cup Computer`, where state
`"ABSENT"` means that the id is in no list; the code tells processes apart by
`(id, isPlayer)`, so `Player` and `Computer` are disjoint. What is abstracted:
a guess hits the secret or misses it; a history is its length; a brain is a
device that hits within `GuessBound` guesses (`Outcomes`). That some bound exists
is a theorem about `ComputerProcess` (`GuessesAreBounded`): but for a STUPID
brain that was restored, no brain guesses more often than there are values. The
process ids are finitely many, being `uint32_t`. Each member function is an
operator from game to game (`InitGame`, `StartGame`, `FinishStep`, ...) and each
early return a predicate (`CanStep`, `CanRemove`, ...). `Told` is what a client
knows of a game, `RestoreGame` what `restoreGame` makes of that.
**GameInvariants** states what is true of one such record, before and after a
restore, in the lobby and in play; the inductive invariants of the three modules
whose owners play games are built from it.

**GameController.** `game` is the object, `finishing` says that the caller is in
the loop of `FinishGame`. A call is one action, because the owner holds the game
while it calls: the server by its one worker, the desktop game by its one
thread. Only the loop of `FinishGame` is one action per iteration, so that its
termination can be asked. `Next` is an owner that calls `FinishStep` and
`FinishGame` after the start only (the desktop game shows those buttons then);
`EarlyNext` calls them at any time (the server does not check the stage).

**GameResults** has the two functions that give places. `getGameResults` calls
`std::sort`, which keeps no order among equals, so a result is any sorted order
of the processes (`SortedResults`).

**FairRace** is what a game promises without rounds: any racers may make one
guess or give up, nobody is ever more than one guess ahead of somebody else who
is still in, the winners are named at most once, only when nobody can catch up,
and all of them. **GameIsRace** maps a game to a race.

**GameRestore.** At any moment between two calls the game is replaced by what
`RESTORE_GAME` and `restoreGame` make of the history its players were told.
`restoreGame` computes stage and step anew and restores no winners. In a game in
which nobody has hit or given up this changes nothing. Otherwise the step
counter may fall behind (it is the smallest number of guesses of *any* player,
also of one who is done), players are then refused until `COMPUTER_STEP` has
raised it, and the winners stay empty. What still holds, and is checked: the
same processes play on, nobody is left behind, nobody guesses twice more than
another, and `FinishGame` ends. `CanTell` keeps out what the handler cannot
express: a process that gave up before its first guess has step 0, and
`history[item.step - 1]` is out of range (event_processor.cpp:804). The call of
`TGameController::restoreGame` itself is given no more processes than its lists
hold; its early return in the middle (game_controller.cpp:41) is not reached.

**GameServer.** A command is one action: `TEventProcessor::start()` is called
without an argument and starts one worker, so commands do not interleave and
the storage's per-game and per-player locks never refuse. Each handler's guard
is the conjunction of its refusals. `entry[p][g]` is `TPlayer::m_gamesIds`.
`SameId` says which player and computer have one id, since
`TPlayer::removeComputer` compares them: a computer with its owner's id takes
the player's own record of the game with it when it goes, so
`PlayersHaveTheirGames` is not asked of a player that shares its id with a
computer. `FINISH_GAME` is several steps, as in `GameController`;
`ComputerStepCrash` and `FinishGameCrash` are a computer that moves before it
has been told a secret and reads a null `m_trueGameValue`
(player_process.cpp:78). `RestoreGameCommand` is `RESTORE_GAME` for each
`Report` a client may send: players are created, given their entry, host right
and computers, in a game that did not exist. `RestoreGameAtLimit` is the
`break` at a player's games limit, which uses a game that has been removed; like
the two crashes it ends the behaviour (`alive`). A restart of the server is a
new `Init`, after which `RESTORE_GAME` can bring a game back.

**GameView.** A slot of the window is an action; `enabled` is the set of
controls the user can reach. The loop of `onSendGameValue` that lets the
computer finish is one action per round. `Show` is `writeResults` and the
colouring of a cell, with the two places at which they fail: an empty value
whose digits are read, and a null item beyond the table's rows (`broken`).
`SendGameValue` sends a value, which may hit, or digits that are none: the boxes
hold any, and the assertion of `appendGameValue` ends the program (`"invalid"`).
A build without asserts takes such a guess for a miss, which the model has too.

**EventManager.** A consumer goes `poll, consume, lookup, await, remove,
commit`; the worker `loop, next, block, waiting, process, respond`; main through
the stop. One action is what a thread does between two points at which
another can see a difference. The state `"block"` is the moment between the
worker's test of the queue and its sleep, in which it holds the queue's mutex:
`addEvent` needs that mutex and cannot notify then, `stop()` does not and can.
`Restart` loses everything but Kafka's committed offsets; a commit may fail
silently (`commitAsync`). One partition belongs to one consumer throughout;
rebalancing is Kafka's and not modelled.

**TcpServer.** The accept handler goes `check, lock, spawned, rearm`: it reads
the count without the mutex, starts a thread under the mutex, counts it, and
accepts again. A session goes `read, await, write, remove, lock, uncount`; its
client may hang up, be silent or be gone when the answer is written. `count`
starts with any of `FirstCounts`, for `m_threadCount` is never initialised, and
counts modulo `CountRange`. `start()` runs the io_service, so main reaches its
loop only after `RunReturns`. `AnswerRequest` is the whole of `EventManager`.

**Rules** and **ComputerProcess.** `ValueSize` and `NumbersCount` are 4 and 10
in the code. `m_possibleValues` is sorted at all times, so it is a set and
`First` its front; each call of the random function is a choice, and
`TakeDigit` is how the random value is made from one number by remainders.
Priorities are exact here and doubles in the code, where two equal ones may
differ by rounding: the model then has the choice that the code makes. BEST
plays by the tree that `DecisionTree` computes for the model's digits; like
bc.json it may ask what does not agree with all results, so `GuessesAgree` is
not asked of BEST.

**DecisionTree** and **TreeGenerator.** A node holds its value, weight, average
number of steps (in units of 1/`Scale`) and children by result. `Equivalent` is
the map of positions and digits under which two opening guesses are searched
once; sets larger than `SplitAbove` are thinned out, from an offset that
`rand()` gives (one draw for each result of the first guess); `DeadWay` is the
way that is definitely not best, with the two arguments as the code passes them
(a weight of 2^32 - 1, reduced by `WeightRange`). `TreeGenerator` runs `start()`
result by result, with a file that is truncated, then written, and a program
that may be stopped anywhere and run again.

Operators introduced by a comment "Slip:" are not part of the model. Each is a
mistake one could make in the operator that follows it; `mutants` in
`PROJECT.json` pairs it with the property that fails with it, which shows
that the property depends on the code.

## 3. Runs

All bounds are constants of the `.cfg` files: `MaxStep` and `MaxGuesses` bound
the rounds that requests open, `GuessBound` a computer's guesses,
`GAME_PROCESS_COUNT_LIMIT` is 10 in the code and smaller here so that full lists
occur, `LogLength` and `MaxCrashes` bound the messages and crashes.

| Run | Instance | What it shows |
|---|---|---|
| controller | 3 players, 2 computers, 2 secrets, 4 rounds, GuessBound 5; symmetric | 91448 states. `RoundBand`, `RoundOpen`: rounds neither tear nor stick. `FinishedMeansDone`: the stage is FINISHED exactly when all are done. `WinnersAreBest`, `WinnerOnTime`: the winners are right and in time. `SameSecretForAll`. `PlacesRankTheRace`: both rankings follow the race. `FairRaceSpec`: the game implements the fair race, so winners are final and who is done plays no more |
| events | 2 consumers, 2 and 1 messages, 1 crash | 109452 states. No event is lost (`EventIsSomewhere`), doubled (`OncePerProcess`) or overtaken (`HandledInOrder`: neither in the queue nor, across the crash, in its partition); what is committed has been handled (`CommittedIsHandled`); the worker never sleeps over work (`NoSleepOverWork`); who waits gets a response (`EveryRequestAnswered`) |
| server | 2 players, 2 computers, 1 game, 3 reports; p1 and c1 have the same id | 16246 states. Storage, controllers and player records agree (`PlayersHaveTheirGames`, `OwnedComputersExist`, `GamesHaveProcesses`, `LeavingIsClean`), every command is a step of `GameController` under `EarlyNext` (`EveryGameIsAController`). `GamesPlayFair`: though `COMPUTER_STEP` and `FINISH_GAME` come at any time and games are restored in mid-round, who still guesses does so for one secret, within a guess of the others and not behind the step counter. `OutcomesStand`: no command takes back winners, a hit or a give-up. `FinishGameEnds`: the worker comes back from `FINISH_GAME`, sent at whatever time, unless the program stopped |
| restore | 3 players, 1 computer, 1 secret, 3 rounds | 72773 states. `RestoreIsExact`: a restore brings back every process, and before anybody has hit or given up also round and stage. `NobodyLeftBehind`, `RaceStaysFair`, `FinishGameTerminates`: the restored game can be played to its end, fairly |
| computer | 2 positions, 4 digits, 4 guesses, each brain | 279291 states. `SecretStaysPossible`: no brain drops the secret, so none runs out of candidates. `NeverTwice`: no guess is repeated, except by a restored STUPID. `GuessesAgree`: SMART only guesses what can be true. `ResultsAreTrue`: bulls and cows are what the rules of the game say. `EverySecretOnce`: the number drawn gives each value exactly once |
| tcp | 3 clients, 2 places, a count modulo 5 that starts with 0, 1, 2 or 4 | 86862 states. `CountIsSessions`: the count is the number of sessions above what it began with, and never wraps around. `SessionsBounded`: never more than `MAX_THREADS`. `ServedToTheEnd`: who has sent a line is served and gives its place back, while no signal has come |
| view | 1 player, 1 computer, 2 brains, 3 rows (10 in the code), 6 guesses | 823 states. `ControlsFitGame`: every button the user can reach is one the controller accepts. `RowsShowHistory`: the tables show the guesses of this game. `BreaksOnlyThen`: the controller refuses no call the window makes, and the window breaks in three known ways only |
| tree | 3 positions, 5 digits (60 values) | 8981 states. `TreeFindsAll`: a whole file leads to every secret and states its own average. `EquivalentsLoseNothing`: the search up to equivalence is as good as a search of all guesses. `TreeIsKept`: no run replaces what another has found |

Why these sizes are enough. A round needs two players to have an order between
them and a third to be neither first nor last; two computers that can hit in
different rounds; four rounds, so that a winner of an early round meets guesses
of later ones. The rules of a round never look further than one round back,
and the proofs cover every size. For the events two consumers race
each other and the worker; two messages on one of them make order and position
matter; one crash doubles what is uncommitted. For the server one game
exercises creation, re-creation under a used id, restoring and removal; two
games share nothing but a player's record, which is one entry per game, and the
limit on entries is met with one game already (`PLAYER_GAMES_LIMIT` is 1); the
proofs cover any number of games. A restore happens once in a game; three
rounds let it fall behind, into and after the round of the first hit. With two
positions and four digits there are twelve values; a guess can share no digit,
one, two, each in its place or not, which are all the results a brain
distinguishes. Two places and three clients make the TCP server full, and a
place free again. Three rows let the computer run beyond its table. Sixty values
give opening guesses that are equivalent in positions, in digits and in both,
and parts on either side of `SplitAbove`; the dead way of the search is not
reached at this depth.

Deadlock is checked where the system never stops: the games, the restore, the
brains, the generator. `CHECK_DEADLOCK FALSE` stands where it may stop: after
`exit` or with nothing more to do (events, tcp), after a crash (server), in a
window that is broken (view).

Fairness. `FinishGame` runs on its caller's thread and waits for nobody: weak
fairness of its iterations. Each thread of the servers is scheduled: weak
fairness of each consumer's or session's steps, of the worker, of the accept
handler and of main; a connection in the backlog is accepted. None for the
arrival of a message, a connection, a client's line, a spurious wakeup, an error
of accept, the signal or a crash. A timed `consume` does come back.

### Where the code and what is said of it differ

| Run | Property | What happens |
|---|---|---|
| event_shutdown | `SignalStopsTheServer` | the worker is stopped before the consumers, a consumer whose event is still queued waits for ever and `server.stop()` hangs |
| orphan_computer | `ComputersAreOwned` | a host that joins, as a player, the game it created with a computer loses its record of the computers |
| view_breaks | `WindowSurvives` | a player who hits before the computer: the window reads the first digit of a guess that was not made, the exception leaves the slot |
| invalid_guess | `GuessesAreValues` | a player sends digits that are not all different, such as the 0 0 0 0 the boxes show at first: the assertion that a guess is a value (player_process.cpp:77) fails |

Met while modelling, part of the models, and without a run of their own because
no document says otherwise or another run is about the same lines:

* `PlayerPlace` puts who gave up later behind who gave up earlier
  (unit-game_controller_test.cpp:334 expects that), the sort of `getGameResults`
  before (game_controller.cpp:585 says that); each does what is said of it.
* `StartGame` on a busy game returns GAME_BUSY and still replaces
  `m_secretValue` (game_controller.cpp:186); who guesses is measured against
  `m_trueGameValue`, so play is not affected (`SameSecretForAll`).
* `FINISH_GAME` and `COMPUTER_STEP` do not ask for the stage: before the start
  players give up a game that has not begun and a computer reads a null secret.
* `TEventManager::stop` sets its flag without the queue's mutex
  (event_manager.cpp:72); its last notification can be lost.
* TCP build: `stop()` joins the sessions while it holds the mutex each needs to
  end; after an accept error no connection is accepted any more; "Server started
  successfully" is printed when `run()` is over; `m_threadCount` is never
  initialised; when `write` throws, the event stays in `m_events`.
* `RESTORE_GAME`: the `break` at the games limit leaves only the loop
  (event_processor.cpp:762); a player and a computer with one id are taken for
  one; the host of a restored game that does not play loses the host right; an
  entry that no game belongs to any more counts against the limit.
* `m_game_brain` of the window is never set to what the box shows
  (game_view.cpp:157); `item(step - 1, 3)` is null beyond the table's rows.
* The generator's "definitely not best" way has its two arguments in the wrong
  order (decision_tree_generator.cpp:374).

## 4. Proofs

The theorems hold for every set of players, computers, secrets, games,
consumers, clients, and every bound that satisfies the named assumptions
(consumers and clients are finitely many). Each follows one pattern: an
inductive invariant, a lemma for `Init`, one for `[Next]_vars` with a step for
each action, one that reads the properties from the invariant.

**GameOpsProofs** has the lemmas about operators that the others cite: what
closing a round does to each member of the record (`CloseRoundFields`), which
processes a game has after each operation (`...Present`), and that a set of
numbers has a least one (`LeastOfNaturals`, from the well-foundedness of the
naturals), which makes `RestoredStep` a number. From the least one follows
`RecursiveFunction`: a function the model defines by recursion over the naturals
has the values its definition says. The library's theorem about that takes an
operator, which the provers cannot instantiate; here the recursion is given by a
function, and `CHOOSE` is opened by hand.

Its largest part follows a game that has begun (`GameInvariants`) through every
operation, at three strengths: `Begun` holds of whatever a client reports
(`RestoreBegun`); `Tellable`, of an honest report and then for good, says that
all who still guess are within one round, at a base the step counter has not
passed and not every player has; `GoodRound` and `Open` are those of a game
never restored. Two lemmas close the circle of crash and restore: what players
are told of a tellable game is honest (`ToldIsHonest`), and a game restored from
an honest report is tellable (`RestoreTellable`). `LoopAdvances` is about the
loop of `FinishGame`: `RoundsLeft`, the rounds the counter has to catch up on and
those until the last computer has hit, is a natural number that every iteration
makes smaller.

**GameControllerProofs**: `Inductive` (`Spec => []IInv`), `TypeCorrect`,
`RoundsCorrect`, `RoundsOpenCorrect`, `FinishCorrect`, `WinnersCorrect`,
`WinnersOnTimeCorrect`, `SecretCorrect`. The invariants are not inductive. That
the winners are best, for instance, depends on no process having hit in an
*earlier* round while the stage is still IN_PROGRESS, which in turn depends on
computers never being ahead of the step counter. `IInv` collects this:

* `GoodRound`, which also holds inside a call, between a player's move and the
  closing of the round: in the lobby everything is reset (`GoodLobby`); in play
  everybody is at the step counter or one ahead, computers never ahead
  (`GoodAttempts`); before a winner is defined, whoever has hit did so in the
  open round (`GoodRace`); afterwards the winners are those with the fewest
  guesses (`GoodWinners`); all aim at one secret (`GoodSecret`);
* `Open`, which the end of a call restores: somebody who is ahead waits for an
  unstepped player, and somebody is still running.

The same module proves `WinnersStay`, `TerminalStays`, `OnlyInProgressPlay` and
`FairRound` of every step. A call is a move of one process, perhaps followed by
a closed round. `StepShape` says of each of these what it does to the state and
the number of guesses of each process, `ComposeSteps` that two such changes make
one, and `ActionsKept` reads the properties from it. No run checks these four:
`FairRaceSpec` says as much and more. `FinishGameGoesOn` is what is safety in the
liveness of `FinishGame`: no iteration leaves as many rounds to play as it found.

`GameImplementsRace` is the refinement, `Spec => FairRaceSpec`: the lobby maps
to the start of a race, each call to a step of it or to a stutter. `IInv` is what
makes the fairness conditions of `FairRace` true of each call, `StepShape` gives
the moves.

`PlacesCorrect` is about both rankings, `PlacesRankTheRace`. `AheadIsWeakOrder`
says that the comparison `std::sort` is given is a strict weak order, without
which the sort would be undefined; `PlacesStep` says of neighbours in a sorted
list when they share a place, `PlacesAreSorted` carries that along the list by
`RecursiveFunction` and the least counterexample, `ResultsRank` and
`PlayerPlaceRanks` compare with the race.

**GameRestoreProofs**: `RestoreInductive`, `NobodyLeftBehindCorrect`,
`RaceStaysFairCorrect`, `RestoreIsExactCorrect`, `RestoredFinishGoesOn`. `IInv`
is false of a restored game, whose counter may be rounds behind and whose
winners are forgotten. Before a restore `RInv` is `IInv`; after it, it is
`Banded`: all who still guess are within one round, at a base that the counter
has not passed. The truth about a good round is an honest report (the open round
has a player that has not left it, so the minimum of the players' guesses is not
beyond the counter), from which `RestoreBanded` gets the band; closing a round either brings the counter nearer,
moving nobody, or moves everybody on (`CloseRoundBanded`). Hence also
`RestoredFinishGoesOn`: in a restored game the loop of `FinishGame` may begin with
rounds that move nobody, and still every iteration has fewer to go. That a
restore is exact needs two facts that no property asks for: a process that is in
no list keeps nothing of its past (`AbsentAreNew`), or a restored game would
differ in it, and all present aim at the game's secret (`GoodSecret`), from
which alone their secrets are restored. While nobody has hit or given up the
smallest number of a player's guesses is the counter, because the open round
has a player that has not left it.

**GameServerProofs**: `ServerInductive`, `PlayersHaveTheirGamesCorrect`,
`OwnedComputersExistCorrect`, `GamesHaveProcessesCorrect`,
`LeavingIsCleanCorrect`, `ControllerCorrect`, and those about the play below.
`SInv` is `GoodGame` of every game: its processes are finitely many, at least
one if the game exists, each player among them has an entry, each computer in an
entry is in the game and in no other entry. `OneGame` is the frame: a command that touches one game and its
entries leaves the others good. `PlayKeepsProcesses` covers all commands in which
nobody enters or leaves. `ReportAssumption` is what is assumed of `RESTORE_GAME`.

`ControllerCorrect` is `Spec => EveryGameIsAController`, the composition of
server and controllers: each step of the server is, for each game, a call that
`TGameController` accepts at that moment, the creation or removal of the game,
or nothing. `GameServer` speaks of the games through its own copy of `GameOps`
and `Controller(g)` through another; `SameLists`, `SameRounds` and the like show
that the two copies agree, so that `CommandIsCall`, `LeavingIsCall` and
`FinishingIsCall` can pair each command with its call. `NoGameAssumption` says
that the mark for "no game is being finished" is no game's id.

`ServerPlayInductive` (`Spec => []FInv`) is about the play itself, which on the
server is freer than in a controller: `COMPUTER_STEP` and `FINISH_GAME` come at any
time, and a game may begin with a report. `FInv` says of each game, by itself,
that it is in the lobby with nobody told a secret (`Lobby`, or `GivenUpLobby`
while `FINISH_GAME` is at it) or has begun, as strongly as the reports allow
(`FreeGame`, and `BusyGame` inside the loop, where no player is left). It has a
step for each command, `StartFree` to `RestoreFree`, and `OneGameFree` as its frame.
What follows:

* `NullOnlyBeforeStartCorrect` and `OutcomesStandCorrect`, for *any* reports: once
  a game has begun no computer of it lacks a secret, and no command takes back
  the winners, a hit or a give-up;
* `GamesPlayFairCorrect` and `ServerFinishGoesOn`, if the reports are honest
  (`HonestReports`). The code takes the counts a client sends as they are. From a
  report in which a computer has made fewer guesses than every player, the
  counter starts past the computer, which then never moves: `FINISH_GAME` would
  not end. An honest report has a round that all who still guess are in, players
  perhaps one ahead, and that not every player is past;
* `ToldHonestlyCorrect`: that assumption reproduces itself. What players are told
  of any game of such a server, restored before or not, at any moment, is honest
  again, so it holds of the next server if it held of this one;
* `GamesAreRacesCorrect`, if there are no reports: each begun game satisfies what
  `IInv` says of a controller's only game, under `EarlyNext` and not just `Next`;
* `ServerTypeOK`, which needs `FInv` for the game in the loop to exist.

`NullOnlyBeforeStart`, `ToldHonestly`, `GamesAreRaces` and the two
`FinishGameAdvances` are stated for the proofs: TLC has confirmed them, with
`FInv`, on the instance of the run, and the runs check what they are for
(`GamesPlayFair`, `FinishGameEnds`, `FinishGameTerminates`).

**ComputerProcessProofs**: `Inductive`, `SecretCorrect`, `NeverTwiceCorrect`,
`GuessesCorrect`, `ResultsCorrect`, `SecretsOnceCorrect`, `GuessesAreBounded`,
for every number of positions and of digits that `Rules` admits. `IInv` says of
each brain what it relies on: while a game is in progress the candidates of an
analytic brain contain the secret and nothing that was guessed
(`GoodCandidates`); the tree brain stands at the node that asked last, and each
of its guesses is what the tree asked there, in renamed digits (`GoodTree`); a
hit is the last guess and ends the game (`GoodEnd`). `FlippedCoins` is the lemma
about renamings: a guess of the tree is told the same on both sides.
`TreeFileAssumption` is all that is assumed of the tree: wherever a secret may
get there is a node with a valid value that was not asked on the way. TLC
evaluates it for the tree of the run, which the model of the generator made;
the shipped `src/projects/binaries/bc.json` has the property for four positions
and ten digits, where it reaches each of the 5040 secrets within 7 guesses.
`SecretsOnceCorrect` is about `GetRandomGameValue`: `TakeDigit` swaps a drawn
digit away, so that the draws and the values are in bijection
(`SameDraws`, `Products`, `RandomValueIsOnce`).

**GameViewProofs**: `WindowInductive`, `ControlsCorrect`, `RowsCorrect`,
`BreaksCorrect`, for any number of rows, rounds and guesses. The strengthening
says how a game under way can stand: nobody has hit and all have made the same
number of guesses (`NobodyHasHit`), the computer has hit and the player may go on
(`ComputerHasHit`), or the player has and the window is letting the computer
finish (`PlayerHasHit`, the only case in which a slot is interrupted). In the
first two a player, if there is one, is awaited: its guess is never refused, and
the assertion on its digits is the one that can fail. Nothing else is
claimed of a window that has broken: it takes no further step. `RoundOfAll` and
`AfterRoundOf...` take a round from the controller's calls to the tables;
`FinishedFields` shows that the loop of `onFinishGame` makes one round and ends.

**EventManagerProofs**: `Inductive`, `TypeCorrect`, `SomewhereCorrect`,
`OrderCorrect`, `CommitCorrect`, `OnceCorrect`, `WakeupCorrect`. The invariant
says where an event is (`Placed`), that no two consumers have the same one
(`Owners`), and how far a partition has been handled (`Progress`): up to its
position, except for the message still pending, which like the ones after it
was handled by processes that have died only, at most once by each.
`OrderCorrect` adds the order of the offsets (`InOffsetOrder`): the message in
the worker's hands is the one at its partition's position, and by `Progress`
all before it have been handled, by this process or a dead one.

**TcpServerProofs**: `Inductive`, `TypeCorrect`, `CountCorrect`,
`SessionsCorrect`. `HasRoom` is the strengthening: once the handler has found a
place it keeps it, for only the handler starts sessions, and from the check to
the start their number can only fall. `Holders` says whose the mutex is, which
is why a session cannot be counted out before it is counted in.

Only model-checked: liveness (`FinishGameTerminates`, `FinishGameEnds`,
`EveryRequestAnswered`, `ServedToTheEnd`), which needs fairness and ENABLED; of
the first two the decreasing measure is proved, and that an iteration is always
possible (`OutcomesExist`), so what is left to TLC is that a scheduled loop is
run. And the generator (`TreeFindsAll`, `EquivalentsLoseNothing`, `TreeIsKept`):
its search and its weights are recursive over a tree as data, which would need
induction over data, and the module's RECURSIVE operators keep the provers out.
Nor do these hold for all constants: its averages are exact only for a `Scale`
that the sizes of the parts divide, and the weight of a dead way is not the one
that a file gives back, so `MaxDepth` must be deep enough that there is none. The
brains' theorems rest on nothing of it but `TreeFileAssumption`.

## 5. Not modelled

* **Simulation.** One computer guesses random secrets on a thread of its own.
  Its game is `ComputerProcess`. What is left are statistics and a stop flag
  that Qt slots write; the order of those is Qt's. (A stop requested after the
  last game leaves `m_emergency_stop` set, and no games at all divide by zero:
  thread_simulation.cpp:60 and 42.)
* **Message parsing and serialising, enum printing, small helpers.** Text only:
  they keep no state, and no property is about the wording.
* **Configuration of Qt, librdkafka and boost; rebalancing of partitions.** Not
  the program's own. `init()` of the Kafka build pushes to a vector that threads
  it has started read already (server.cpp:127): a race on memory, below these
  models.
* **The product of `EventManager` and `GameServer`.** Each is checked alone. A
  request delivered again after a crash meets a server without games and is
  refused, until `RESTORE_GAME`; the product has too many states to check.
* **Undefined behaviour.** After a null pointer, a destroyed game or an index out
  of range is used, the models stop: nothing can be claimed of what follows.
