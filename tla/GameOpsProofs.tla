---------------------------- MODULE GameOpsProofs ----------------------------
(***************************************************************************)
(* Lemmas about the operators on games: what each of them does to a game,  *)
(* for every set of players, computers and secrets, and that each yields a *)
(* game with the processes it should have.                                 *)
(***************************************************************************)
EXTENDS GameInvariants, FiniteSetTheorems, WellFoundedInduction, TLAPS

-----------------------------------------------------------------------------
(* What closing a round does to each member of the game: the computers     *)
(* that move make one guess, the step counter moves by one, and stage and  *)
(* winners follow from who has finished in the round just closed.          *)
LEMMA CloseRoundFields ==
  ASSUME NEW g \in Game, NEW hits \in SUBSET Movers(g)
  PROVE  LET r == CloseRound(g, hits)
             now == {p \in Process : r.state[p] = "FINISHED" /\ r.attempts[p] = g.step + 1}
             done == \A p \in Process : r.state[p] \in Terminal \cup {"ABSENT"}
         IN  /\ r \in Game
             /\ r.step = g.step + 1
             /\ r.secret = g.secret /\ r.aim = g.aim /\ r.ready = g.ready
             /\ r.attempts = [p \in Process |->
                   IF p \in Movers(g) THEN g.attempts[p] + 1 ELSE g.attempts[p]]
             /\ r.state = [p \in Process |->
                   IF p \in hits THEN "FINISHED" ELSE g.state[p]]
             /\ r.winners = IF g.stage = "IN_PROGRESS" /\ now # {}
                            THEN now ELSE g.winners
             /\ r.stage = IF done THEN "FINISHED"
                          ELSE IF g.stage = "IN_PROGRESS" /\ now # {}
                          THEN "IN_PROGRESS_WINNER_DEFINED" ELSE g.stage
<1> DEFINE m == DoComputersStep(g, hits)
           c == NextStep(m)
           d == IF c.stage = "IN_PROGRESS" THEN DefineWinners(c) ELSE c
           r == CloseRound(g, hits)
           now == {p \in Process : r.state[p] = "FINISHED" /\ r.attempts[p] = g.step + 1}
<1>1. hits \subseteq Process /\ Movers(g) \subseteq Process
  BY DEF Movers, ComputerList, Present
<1>2. /\ m \in Game
      /\ m.step = g.step /\ m.secret = g.secret /\ m.aim = g.aim /\ m.ready = g.ready
      /\ m.stage = g.stage /\ m.winners = g.winners
      /\ m.attempts = [p \in Process |->
            IF p \in Movers(g) THEN g.attempts[p] + 1 ELSE g.attempts[p]]
      /\ m.state = [p \in Process |->
            IF p \in hits THEN "FINISHED" ELSE g.state[p]]
  <2> DEFINE A == [p \in Process |->
                     IF p \in Movers(g) THEN g.attempts[p] + 1 ELSE g.attempts[p]]
             S == [p \in Process |-> IF p \in hits THEN "FINISHED" ELSE g.state[p]]
  <2>1. A \in [Process -> Nat]
    BY DEF Game
  <2>2. S \in [Process -> ProcessState]
    BY DEF Game, ProcessState, Terminal
  <2>3. m = [g EXCEPT !.attempts = A, !.state = S]
    BY DEF DoComputersStep
  <2> HIDE DEF A, S, m
  <2>4. /\ m \in Game
        /\ m.step = g.step /\ m.secret = g.secret /\ m.aim = g.aim /\ m.ready = g.ready
        /\ m.stage = g.stage /\ m.winners = g.winners
        /\ m.attempts = A /\ m.state = S
    BY <2>1, <2>2, <2>3 DEF Game
  <2> QED  BY <2>4 DEF A, S
<1>3. /\ c \in Game
      /\ c.step = g.step + 1 /\ c.secret = g.secret /\ c.aim = g.aim /\ c.ready = g.ready
      /\ c.stage = g.stage /\ c.winners = g.winners
      /\ c.attempts = m.attempts /\ c.state = m.state
  BY <1>2 DEF NextStep, Game
<1>4. FinishedAt(c, c.step) =
         {p \in Process : c.state[p] = "FINISHED" /\ c.attempts[p] = g.step + 1}
  BY <1>3 DEF FinishedAt, Present
<1>5. /\ d \in Game
      /\ d.step = c.step /\ d.secret = c.secret /\ d.aim = c.aim /\ d.ready = c.ready
      /\ d.attempts = c.attempts /\ d.state = c.state
      /\ d.winners = IF g.stage = "IN_PROGRESS" /\ FinishedAt(c, c.step) # {}
                     THEN FinishedAt(c, c.step) ELSE g.winners
      /\ d.stage = IF g.stage = "IN_PROGRESS" /\ FinishedAt(c, c.step) # {}
                   THEN "IN_PROGRESS_WINNER_DEFINED" ELSE g.stage
  <2>1. FinishedAt(c, c.step) \subseteq Process
    BY <1>4
  <2>2. CASE c.stage = "IN_PROGRESS" /\ FinishedAt(c, c.step) # {}
    <3>1. d = [c EXCEPT !.stage = "IN_PROGRESS_WINNER_DEFINED",
                        !.winners = FinishedAt(c, c.step)]
      BY <2>2 DEF DefineWinners
    <3> HIDE DEF d
    <3> QED  BY <3>1, <2>2, <2>1, <1>3 DEF Game, GameStage
  <2>3. CASE ~(c.stage = "IN_PROGRESS" /\ FinishedAt(c, c.step) # {})
    <3>1. d = c
      BY <2>3 DEF DefineWinners
    <3> QED  BY <3>1, <2>3, <1>3
  <2> QED  BY <2>2, <2>3
<1>6. r = IF Running(d) = {} THEN [d EXCEPT !.stage = "FINISHED"] ELSE d
  BY DEF CloseRound, CheckFinish
<1>7. Running(d) = {} <=> \A p \in Process : d.state[p] \in Terminal \cup {"ABSENT"}
  BY DEF Running, Present
<1> HIDE DEF m, c, d, r
<1>8. /\ r \in Game
      /\ r.step = d.step /\ r.secret = d.secret /\ r.aim = d.aim /\ r.ready = d.ready
      /\ r.attempts = d.attempts /\ r.state = d.state /\ r.winners = d.winners
      /\ r.stage = IF Running(d) = {} THEN "FINISHED" ELSE d.stage
  BY <1>5, <1>6 DEF Game, GameStage
<1>9. now = FinishedAt(c, c.step)
  BY <1>8, <1>5, <1>4
<1> QED
  BY <1>2, <1>3, <1>5, <1>7, <1>8, <1>9 DEF r

(* The list operations stay inside Game.                                   *)
LEMMA ListOpsTyped ==
  ASSUME NEW g \in Game
  PROVE  /\ \A p \in Player : AddPlayer(g, p) \in Game
         /\ \A c \in Computer : AddComputer(g, c) \in Game
         /\ \A c \in Computer : SwitchGameBrain(g, c) \in Game
BY DEF Game, ProcessState, Process, AddPlayer, AddComputer, SwitchGameBrain

(* The step counter of a restored game is a minimum, and there is one.     *)
LEMMA LeastOfNaturals ==
  ASSUME NEW T, T \subseteq Nat, T # {}
  PROVE  \E x \in T : \A y \in T : x <= y
<1> DEFINE R == OpToRel(<, Nat)
<1>1. IsWellFoundedOn(R, Nat)
  BY NatLessThanWellFounded
<1>2. \A x, y \in Nat : y < x => <<y, x>> \in R
  BY DEF OpToRel
<1> HIDE DEF R
<1>3. PICK x \in T : \A y \in T : ~(<<y, x>> \in R)
  BY <1>1, WFMin
<1>4. \A y \in T : ~(y < x)
  BY <1>2, <1>3
<1> QED  BY <1>4

(* A set of numbers up to n that has 0 and, with a number, the next one,   *)
(* has them all.                                                           *)
LEMMA UpTo ==
  ASSUME NEW n \in Nat, NEW T, 0 \in T, \A i \in 1 .. n : i - 1 \in T => i \in T
  PROVE  \A i \in 0 .. n : i \in T
<1> DEFINE U == {i \in 0 .. n : i \notin T}
<1> SUFFICES ASSUME U # {}  PROVE FALSE
  OBVIOUS
<1>0. U \subseteq Nat
  OBVIOUS
<1>1. PICK x \in U : \A y \in U : x <= y
  <2> HIDE DEF U
  <2> QED  BY <1>0, LeastOfNaturals
<1>2. x \in 1 .. n /\ x - 1 \in 0 .. n
  OBVIOUS
<1>3. x - 1 \in T
  BY <1>1, <1>2
<1> QED  BY <1>2, <1>3

(* f begins with a, and each next value is what g makes of the one before. *)
Follows(f, n, a, g) ==
  f[0] = a /\ \A i \in 1 .. n : f[i] = g[i][f[i - 1]]

(* There is such a function.  A recursive function of the model is a       *)
(* CHOOSE of one: this is what gives it its values.                        *)
LEMMA RecursiveFunction ==
  ASSUME NEW N \in Nat, NEW S, NEW a \in S, NEW g \in [1 .. N -> [S -> S]]
  PROVE  \E f \in [0 .. N -> S] : Follows(f, N, a, g)
<1> DEFINE T == {n \in 0 .. N : \E f \in [0 .. n -> S] : Follows(f, n, a, g)}
<1>1. 0 \in T
  <2>1. [i \in 0 .. 0 |-> a] \in [0 .. 0 -> S] /\ Follows([i \in 0 .. 0 |-> a], 0, a, g)
    BY DEF Follows
  <2> QED BY <2>1
<1>2. ASSUME NEW n \in 1 .. N, n - 1 \in T  PROVE n \in T
  <2>1. PICK f \in [0 .. n - 1 -> S] : Follows(f, n - 1, a, g)
    BY <1>2
  <2> DEFINE h == [i \in 0 .. n |-> IF i = n THEN g[n][f[n - 1]] ELSE f[i]]
  <2>2. f[n - 1] \in S
    BY <2>1
  <2>3. g[n][f[n - 1]] \in S
    BY <2>2
  <2>4. h \in [0 .. n -> S]
    BY <2>1, <2>3
  <2>5. Follows(h, n, a, g)
    <3>1. h[0] = a
      BY <2>1 DEF Follows
    <3>2. ASSUME NEW i \in 1 .. n PROVE h[i] = g[i][h[i - 1]]
      <4>1. CASE i = n
        BY <4>1
      <4>2. CASE i # n
        BY <2>1, <4>2 DEF Follows
      <4> QED BY <4>1, <4>2
    <3> HIDE DEF h
    <3> QED BY <3>1, <3>2 DEF Follows
  <2> HIDE DEF h
  <2> QED BY <2>4, <2>5
<1>3. N \in T
  <2> HIDE DEF T
  <2>1. \A n \in 0 .. N : n \in T
    BY <1>1, <1>2, UpTo
  <2> QED  BY <2>1
<1> QED BY <1>3 DEF T

-----------------------------------------------------------------------------
(* Which processes are in a game after each operation.                     *)
LEMMA ListOpsPresent ==
  ASSUME NEW g \in Game
  PROVE  /\ \A p \in Player : Present(AddPlayer(g, p)) = Present(g) \cup {p}
         /\ \A c \in Computer : Present(AddComputer(g, c)) = Present(g) \cup {c}
         /\ \A c \in ComputerList(g) : Present(SwitchGameBrain(g, c)) = Present(g)
         /\ \A p \in Process : /\ RemoveProcess(g, p) \in Game
                              /\ Present(RemoveProcess(g, p)) = Present(g) \ {p}
<1>1. \A p \in Player : Present(AddPlayer(g, p)) = Present(g) \cup {p}
  BY DEF Game, Process, AddPlayer, Present
<1>2. \A c \in Computer : Present(AddComputer(g, c)) = Present(g) \cup {c}
  BY DEF Game, Process, AddComputer, Present
<1>3. \A c \in ComputerList(g) : Present(SwitchGameBrain(g, c)) = Present(g)
  BY DEF Game, SwitchGameBrain, Present, ComputerList
<1>4. ASSUME NEW p \in Process
      PROVE  /\ RemoveProcess(g, p) \in Game
             /\ Present(RemoveProcess(g, p)) = Present(g) \ {p}
  BY DEF Game, ProcessState, RemoveProcess, Present
<1> QED  BY <1>1, <1>2, <1>3, <1>4

LEMMA EmptyGamePresent == EmptyGame \in Game /\ Present(EmptyGame) = {}
BY DEF EmptyGame, Game, GameStage, ProcessState, Present

LEMMA InitGamePresent ==
  ASSUME NEW g \in Game
  PROVE  InitGame(g) \in Game /\ Present(InitGame(g)) = Present(g)
<1> DEFINE S == [p \in Process |-> IF p \in Present(g) THEN "WAIT_A_NUMBER" ELSE "ABSENT"]
           A == [p \in Process |-> 0]
           r == InitGame(g)
<1>1. S \in [Process -> ProcessState] /\ A \in [Process -> Nat]
  BY DEF ProcessState
<1>2. ComputerList(g) \in SUBSET Computer
  BY DEF ComputerList
<1>3. r = [g EXCEPT !.stage = "WAIT_A_NUMBER", !.step = 0, !.winners = {},
                    !.secret = NoSecret, !.state = S, !.attempts = A,
                    !.ready = ComputerList(g)]
  BY DEF InitGame
<1> HIDE DEF S, A, r
<1>4. r \in Game /\ r.state = S
  BY <1>1, <1>2, <1>3 DEF Game, GameStage
<1> QED  BY <1>4 DEF Present, S, r

LEMMA StartGamePresent ==
  ASSUME NEW g \in Game, NEW s \in Secret
  PROVE  StartGame(g, s) \in Game /\ Present(StartGame(g, s)) = Present(g)
<1> DEFINE S == [p \in Process |-> IF p \in Present(g) THEN "IN_PROGRESS" ELSE "ABSENT"]
           A == [p \in Process |-> IF p \in Present(g) THEN s ELSE g.aim[p]]
           r == StartGame(g, s)
<1>1. S \in [Process -> ProcessState] /\ A \in [Process -> Secret \cup {NoSecret}]
  BY DEF ProcessState, Game
<1>2. r = IF g.stage # "WAIT_A_NUMBER" THEN [g EXCEPT !.secret = s]
          ELSE [g EXCEPT !.secret = s, !.stage = "IN_PROGRESS", !.state = S, !.aim = A]
  BY DEF StartGame
<1> HIDE DEF S, A, r
<1>3. r \in Game /\ (r.state = g.state \/ r.state = S)
  BY <1>1, <1>2 DEF Game, GameStage
<1> QED  BY <1>3 DEF Present, S, r

LEMMA GiveUpPresent ==
  ASSUME NEW g \in Game, NEW Q \in SUBSET Present(g)
  PROVE  GiveUp(g, Q) \in Game /\ Present(GiveUp(g, Q)) = Present(g)
<1> DEFINE S == [p \in Process |-> IF p \in Q THEN "GAVE_UP" ELSE g.state[p]]
           r == GiveUp(g, Q)
<1>1. S \in [Process -> ProcessState]
  BY DEF ProcessState, Terminal, Game
<1>2. r = [g EXCEPT !.state = S]
  BY DEF GiveUp
<1> HIDE DEF S, r
<1>3. r \in Game /\ r.state = S
  BY <1>1, <1>2 DEF Game
<1> QED  BY <1>3 DEF Present, S, r

LEMMA CheckFinishPresent ==
  ASSUME NEW g \in Game
  PROVE  CheckFinish(g) \in Game /\ Present(CheckFinish(g)) = Present(g)
BY DEF CheckFinish, Game, GameStage, Present

LEMMA FinishStepPresent ==
  ASSUME NEW g \in Game, NEW hits \in SUBSET Movers(g)
  PROVE  FinishStep(g, hits) \in Game /\ Present(FinishStep(g, hits)) = Present(g)
<1> DEFINE r == CloseRound(g, hits)
<1>1. /\ r \in Game
      /\ r.state = [p \in Process |-> IF p \in hits THEN "FINISHED" ELSE g.state[p]]
  BY CloseRoundFields
<1> HIDE DEF r
<1>2. Present(r) = Present(g)
  BY <1>1 DEF Present, Movers, ComputerList
<1> QED  BY <1>1, <1>2 DEF FinishStep, r

LEMMA AppendPresent ==
  ASSUME NEW g \in Game, NEW p \in Present(g), NEW hit \in BOOLEAN
  PROVE  /\ AppendGameValue(g, p, hit) \in Game
         /\ Present(AppendGameValue(g, p, hit)) = Present(g)
         /\ AppendGameValue(g, p, hit).stage = g.stage
<1> DEFINE S == [g.state EXCEPT ![p] = IF hit THEN "FINISHED" ELSE @]
           A == [g.attempts EXCEPT ![p] = @ + 1]
           r == AppendGameValue(g, p, hit)
<1>1. S \in [Process -> ProcessState] /\ A \in [Process -> Nat] /\ p \in Process
  BY DEF ProcessState, Terminal, Game, Present
<1>2. r = [g EXCEPT !.attempts = A, !.state = S]
  BY DEF AppendGameValue
<1> HIDE DEF S, A, r
<1>3. r \in Game /\ r.state = S /\ r.stage = g.stage
  BY <1>1, <1>2 DEF Game
<1>4. \A q \in Process : /\ q # p => S[q] = g.state[q]
                        /\ S[p] # "ABSENT"
  BY <1>1 DEF S, Game, Present
<1> QED  BY <1>3, <1>4 DEF Present, r

(* RestoredStep is the fewest guesses that a player has reported.          *)
LEMMA LeastRestored ==
  ASSUME NEW told, DOMAIN told \cap Player # {},
         \A p \in DOMAIN told : told[p].rounds \in Nat
  PROVE  /\ RestoredStep(told) \in Nat
         /\ \E p \in DOMAIN told \cap Player : RestoredStep(told) = told[p].rounds
         /\ \A p \in DOMAIN told \cap Player : RestoredStep(told) <= told[p].rounds
<1> DEFINE rounds == {told[p].rounds : p \in DOMAIN told \cap Player}
<1>1. rounds \subseteq Nat /\ rounds # {}
  OBVIOUS
<1>2. RestoredStep(told) = CHOOSE n \in rounds : \A m \in rounds : n <= m
  BY DEF RestoredStep
<1>3. \E n \in rounds : \A m \in rounds : n <= m
  <2> HIDE DEF rounds
  <2> QED  BY <1>1, LeastOfNaturals
<1>4. RestoredStep(told) \in rounds /\ \A m \in rounds : RestoredStep(told) <= m
  <2> HIDE DEF rounds
  <2> QED  BY <1>2, <1>3
<1> QED  BY <1>1, <1>4

(* A game restored from what was told has the processes that were told of. *)
LEMMA RestorePresent ==
  ASSUME NEW told, DOMAIN told \subseteq Process, DOMAIN told \cap Player # {},
         \A p \in DOMAIN told : told[p].rounds \in Nat, NEW s \in Secret \cup {NoSecret}
  PROVE  RestoreGame(s, told) \in Game /\ Present(RestoreGame(s, told)) = DOMAIN told
<1> DEFINE S == [p \in Process |->
                   IF p \in DOMAIN told THEN RestoredState(told[p]) ELSE "ABSENT"]
           A == [p \in Process |-> IF p \in DOMAIN told THEN told[p].rounds ELSE 0]
           M == [p \in Process |-> IF p \in DOMAIN told THEN s ELSE NoSecret]
           r == RestoreGame(s, told)
<1>1. RestoredStep(told) \in Nat
  BY LeastRestored
<1>2. RestoredStage(told) \in GameStage
  BY DEF RestoredStage, GameStage
<1>3. \A p \in DOMAIN told : RestoredState(told[p]) \in ProcessState \ {"ABSENT"}
  BY DEF RestoredState, ProcessState, Terminal
<1>4. /\ S \in [Process -> ProcessState] /\ A \in [Process -> Nat]
      /\ M \in [Process -> Secret \cup {NoSecret}]
  BY <1>3 DEF ProcessState
<1>5. r = [stage |-> RestoredStage(told), step |-> RestoredStep(told), winners |-> {},
           secret |-> s, state |-> S, attempts |-> A, aim |-> M,
           ready |-> DOMAIN told \cap Computer]
  BY DEF RestoreGame
<1> HIDE DEF A, M, r
<1>6. Present(r) = DOMAIN told
  <2>1. \A p \in Process : S[p] # "ABSENT" <=> p \in DOMAIN told
    BY <1>3
  <2> HIDE DEF S
  <2>2. r.state = S
    BY <1>5
  <2> QED  BY <2>1, <2>2 DEF Present
<1> HIDE DEF S
<1>7. r \in Game
  BY <1>1, <1>2, <1>4, <1>5 DEF Game
<1> QED  BY <1>6, <1>7 DEF r
-----------------------------------------------------------------------------
(* Who is in the game, and is told nothing, still guesses the same secret. *)
LEMMA SecretKept ==
  ASSUME NEW g, GoodSecret(g), g.stage # "WAIT_A_NUMBER",
         NEW r, Present(r) \subseteq Present(g), InPlay(r) => InPlay(g),
         \A p \in Present(r) : r.aim[p] = g.aim[p],
         ComputerList(r) \subseteq r.ready
  PROVE  GoodSecret(r)
<1>1. PICK s \in Secret \cup {NoSecret} :
        (\A p \in Present(g) : g.aim[p] = s) /\ (InPlay(g) => s \in Secret)
  BY DEF GoodSecret
<1>2. (\A p \in Present(r) : r.aim[p] = s) /\ (InPlay(r) => s \in Secret)
  BY <1>1
<1> QED  BY <1>2 DEF GoodSecret

-----------------------------------------------------------------------------
(* Closing a round that every player has played keeps the game good and    *)
(* opens the next round: this is where the winners are picked.             *)
LEMMA CloseRoundGood ==
  ASSUME NEW g, GoodRound(g), NEW hits \in Outcomes(g),
         g.stage # "WAIT_A_NUMBER", UnsteppedPlayers(g) = {}
  PROVE  GoodRound(CloseRound(g, hits)) /\ Open(CloseRound(g, hits))
<1> DEFINE r == CloseRound(g, hits)
           now == {p \in Process : r.state[p] = "FINISHED" /\ r.attempts[p] = g.step + 1}
           done == \A p \in Process : r.state[p] \in Terminal \cup {"ABSENT"}
<1>1. g \in Game /\ hits \in SUBSET Movers(g)
  BY DEF GoodRound, Outcomes
<1>2. /\ r \in Game
      /\ r.step = g.step + 1
      /\ r.secret = g.secret /\ r.aim = g.aim /\ r.ready = g.ready
      /\ r.attempts = [p \in Process |->
            IF p \in Movers(g) THEN g.attempts[p] + 1 ELSE g.attempts[p]]
      /\ r.state = [p \in Process |->
            IF p \in hits THEN "FINISHED" ELSE g.state[p]]
      /\ r.winners = IF g.stage = "IN_PROGRESS" /\ now # {} THEN now ELSE g.winners
      /\ r.stage = IF done THEN "FINISHED"
                   ELSE IF g.stage = "IN_PROGRESS" /\ now # {}
                   THEN "IN_PROGRESS_WINNER_DEFINED" ELSE g.stage
  BY <1>1, CloseRoundFields
<1> HIDE DEF r
<1>3. /\ g.step \in Nat
      /\ \A p \in Process : g.attempts[p] \in Nat /\ r.attempts[p] \in Nat
  BY <1>1, <1>2 DEF Game
<1>4. \A p \in Movers(g) : /\ p \in Computer /\ p \in Process
                           /\ g.state[p] \notin Terminal /\ g.state[p] # "ABSENT"
                           /\ g.attempts[p] = g.step
  BY DEF Movers, ComputerList, Present
<1>5. \A p \in Process : p \notin Movers(g) =>
         r.attempts[p] = g.attempts[p] /\ r.state[p] = g.state[p]
  BY <1>1, <1>2
<1>6. \A p \in Movers(g) : /\ r.attempts[p] = g.step + 1
                           /\ r.state[p] \in {"FINISHED", g.state[p]}
  BY <1>2, <1>4
<1>7. r.stage = "WAIT_A_NUMBER" => FALSE
  BY <1>2
<1>8. g.stage \in GameStage /\ (\A p \in Process : g.state[p] \in ProcessState)
  BY <1>1 DEF Game
<1>9. CASE g.stage = "FINISHED"
  <2>1. Movers(g) = {}
    BY <1>9, <1>4 DEF GoodRound, GoodEnd, Terminal
  <2>2. \A p \in Process : r.attempts[p] = g.attempts[p] /\ r.state[p] = g.state[p]
    BY <2>1, <1>5
  <2>3. done /\ r.stage = "FINISHED" /\ r.winners = g.winners
    BY <2>2, <1>2, <1>9 DEF GoodRound, GoodEnd
  <2>4. GoodLobby(r) /\ GoodAttempts(r) /\ GoodEnd(r) /\ GoodRace(r) /\ Open(r)
    BY <2>3 DEF GoodLobby, GoodAttempts, GoodEnd, GoodRace, Open, InPlay
  <2>5. GoodWinners(r)
    <3>1. g.winners \subseteq Process /\ r.winners = g.winners /\ GoodWinners(g)
      BY <1>1, <2>3 DEF Game, GoodRound
    <3> HIDE DEF now, done
    <3> QED  BY <3>1, <2>2, <2>3, <1>9 DEF GoodWinners
  <2>6. GoodSecret(r)
    <3>1. Present(r) = Present(g)
      BY <2>2 DEF Present
    <3>2. ComputerList(r) \subseteq r.ready /\ ~InPlay(r)
      BY <3>1, <2>3, <1>2 DEF GoodRound, GoodSecret, ComputerList, InPlay
    <3> QED  BY <3>1, <3>2, <1>2, <1>9, SecretKept DEF GoodRound
  <2> QED  BY <2>4, <2>5, <2>6, <1>2 DEF GoodRound, r
<1>10. CASE InPlay(g)
  <2>1. \A p \in Process :
          /\ g.state[p] # "WAIT_A_NUMBER"
          /\ g.state[p] # "ABSENT" => g.attempts[p] <= g.step + 1
          /\ g.state[p] = "IN_PROGRESS" => g.attempts[p] >= g.step
          /\ p \in Computer /\ g.state[p] # "ABSENT" => g.attempts[p] <= g.step
    BY <1>10 DEF GoodRound, GoodAttempts
  <2>2. \A p \in Player : g.state[p] = "IN_PROGRESS" => g.attempts[p] # g.step
    BY DEF UnsteppedPlayers, UnsteppedAt, PlayerList, Present, Terminal, Process
  <2>3. \A p \in Computer : g.state[p] = "IN_PROGRESS" => p \in Movers(g)
    BY <2>1, <1>3 DEF Movers, ComputerList, Present, Terminal, Process
  <2>4. \A p \in Process : g.state[p] = "IN_PROGRESS" => r.attempts[p] >= g.step + 1
    BY <2>1, <2>2, <2>3, <1>3, <1>5, <1>6 DEF Process
  <2>5. \A p \in Process :
          /\ r.state[p] # "WAIT_A_NUMBER"
          /\ r.state[p] # "ABSENT" => r.attempts[p] <= g.step + 1
          /\ r.state[p] = "IN_PROGRESS" => r.attempts[p] >= g.step + 1
    BY <2>1, <2>4, <1>3, <1>4, <1>5, <1>6
  <2>6. GoodAttempts(r)
    BY <2>5, <1>2, <1>3 DEF GoodAttempts
  <2>7. GoodLobby(r) /\ GoodEnd(r)
    BY <1>2, <1>7, <1>10 DEF GoodLobby, GoodEnd, InPlay
  <2>8. Present(r) = Present(g)
    BY <1>4, <1>5, <1>6 DEF Present
  <2>9. GoodSecret(r)
    <3>1. ComputerList(r) \subseteq r.ready
      BY <2>8, <1>2 DEF GoodRound, GoodSecret, ComputerList
    <3> QED  BY <2>8, <3>1, <1>2, <1>10, SecretKept DEF GoodRound, InPlay
  <2>10. Open(r)
    <3>1. ~\E p \in PlayerList(r) : r.attempts[p] > r.step
      BY <2>5, <1>2, <1>3 DEF PlayerList, Present
    <3>2. InPlay(r) => Running(r) # {}
      BY <1>2 DEF InPlay, Running, Present
    <3> QED  BY <3>1, <3>2 DEF Open
  <2>11. GoodRace(r) /\ GoodWinners(r)
    <3>1. CASE g.stage = "IN_PROGRESS"
      <4>1. g.winners = {} /\ \A p \in Process : g.state[p] = "FINISHED" => g.attempts[p] > g.step
        BY <3>1 DEF GoodRound, GoodRace
      <4>2. \A p \in Process : r.state[p] = "FINISHED" => r.attempts[p] = g.step + 1
        BY <4>1, <2>5, <1>3, <1>5, <1>6
      <4>3. now = {p \in Process : r.state[p] = "FINISHED"}
        BY <4>2
      <4>4. r.winners = now
        BY <4>1, <3>1, <1>2
      <4>5. \A p \in Process : (r.state[p] = "FINISHED") <=> (p \in r.winners)
        BY <4>3, <4>4
      <4>6. r.winners \subseteq Process
        BY <4>4
      <4>7. r.stage = "IN_PROGRESS" => r.winners = {}
        BY <4>4, <3>1, <1>2
      <4>8. r.stage = "IN_PROGRESS_WINNER_DEFINED" => r.winners # {}
        BY <4>4, <3>1, <1>2
      <4> HIDE DEF now, done
      <4>9. GoodRace(r)
        BY <4>5, <4>7 DEF GoodRace
      <4>10. GoodWinners(r)
        BY <4>2, <4>5, <4>6, <4>8, <1>2, <1>3 DEF GoodWinners
      <4> QED  BY <4>9, <4>10
    <3>2. CASE g.stage = "IN_PROGRESS_WINNER_DEFINED"
      <4>1. /\ g.winners # {}
            /\ \A w \in g.winners : g.state[w] = "FINISHED" /\ g.attempts[w] <= g.step
            /\ \A q \in Process : g.state[q] = "FINISHED" =>
                  \A w \in g.winners : g.state[w] = "FINISHED" =>
                    /\ g.attempts[w] <= g.attempts[q]
                    /\ g.attempts[w] = g.attempts[q] <=> q \in g.winners
        BY <3>2 DEF GoodRound, GoodWinners
      <4>2. /\ r.winners = g.winners
            /\ r.stage \in {"IN_PROGRESS_WINNER_DEFINED", "FINISHED"}
            /\ g.winners \subseteq Process
        BY <3>2, <1>1, <1>2 DEF Game
      <4>3. \A w \in g.winners : w \notin Movers(g)
        BY <4>1, <1>4 DEF Terminal
      <4>4. \A w \in g.winners : /\ r.state[w] = "FINISHED"
                                /\ r.attempts[w] = g.attempts[w]
                                /\ r.attempts[w] <= g.step
        BY <4>1, <4>2, <4>3, <1>5
      <4>5. ASSUME NEW q \in Process, r.state[q] = "FINISHED", NEW w \in g.winners
            PROVE  /\ r.attempts[w] <= r.attempts[q]
                   /\ r.attempts[w] = r.attempts[q] <=> q \in g.winners
        <5>1. CASE q \in Movers(g)
          BY <5>1, <4>2, <4>3, <4>4, <4>5, <1>3, <1>6
        <5>2. CASE q \notin Movers(g)
          BY <5>2, <4>1, <4>4, <4>5, <1>5
        <5> QED  BY <5>1, <5>2
      <4> HIDE DEF now, done
      <4>6. \A w \in r.winners : r.attempts[w] <= r.step
        BY <4>2, <4>4, <1>2, <1>3
      <4>7. GoodWinners(r)
        BY <4>1, <4>2, <4>4, <4>5, <4>6 DEF GoodWinners
      <4>8. GoodRace(r)
        BY <4>2 DEF GoodRace
      <4> QED  BY <4>7, <4>8
    <3> QED  BY <3>1, <3>2, <1>10 DEF InPlay
  <2> QED  BY <2>6, <2>7, <2>9, <2>10, <2>11, <1>2 DEF GoodRound, r
<1> QED  BY <1>8, <1>9, <1>10 DEF GameStage, InPlay

-----------------------------------------------------------------------------
(* InitGame gives a good game whatever it starts from.                     *)
LEMMA InitGameGood ==
  ASSUME NEW g \in Game
  PROVE  /\ GoodRound(InitGame(g)) /\ Open(InitGame(g))
         /\ InitGame(g).stage = "WAIT_A_NUMBER"
<1> DEFINE S == [p \in Process |-> IF p \in Present(g) THEN "WAIT_A_NUMBER" ELSE "ABSENT"]
           A == [p \in Process |-> 0]
           r == InitGame(g)
<1>1. S \in [Process -> ProcessState] /\ A \in [Process -> Nat]
  BY DEF ProcessState
<1>2. ComputerList(g) \in SUBSET Computer
  BY DEF ComputerList
<1>3. r = [g EXCEPT !.stage = "WAIT_A_NUMBER", !.step = 0, !.winners = {},
                    !.secret = NoSecret, !.state = S, !.attempts = A,
                    !.ready = ComputerList(g)]
  BY DEF InitGame
<1> HIDE DEF S, A, r
<1>4. /\ r \in Game /\ r.stage = "WAIT_A_NUMBER" /\ r.step = 0 /\ r.winners = {}
      /\ r.state = S /\ r.attempts = A /\ r.ready = ComputerList(g)
  BY <1>1, <1>2, <1>3 DEF Game, GameStage
<1>5. ComputerList(r) = ComputerList(g)
  BY <1>4 DEF ComputerList, Present, S
<1>6. GoodLobby(r)
  BY <1>4 DEF GoodLobby, S, A
<1> QED
  BY <1>4, <1>5, <1>6 DEF GoodRound, GoodAttempts, GoodEnd, GoodRace, GoodWinners,
     GoodSecret, Open, InPlay, r

(* Erasing a process that may be erased keeps the game good.               *)
LEMMA RemoveGood ==
  ASSUME NEW g, GoodRound(g), NEW p \in Process, CanRemove(g, p)
  PROVE  GoodRound(RemoveProcess(g, p)) /\ Open(RemoveProcess(g, p))
<1> DEFINE r == RemoveProcess(g, p)
<1>1. g \in Game /\ g.stage \in {"FINISHED", "WAIT_A_NUMBER"}
  BY DEF GoodRound, CanRemove
<1>2. /\ r \in Game /\ r.stage = g.stage /\ r.step = g.step /\ r.winners = g.winners
      /\ r.state = [g.state EXCEPT ![p] = "ABSENT"]
      /\ r.attempts = [g.attempts EXCEPT ![p] = 0]
      /\ r.ready = g.ready \ {p} /\ r.aim = [g.aim EXCEPT ![p] = NoSecret]
  BY <1>1 DEF RemoveProcess, Game, ProcessState
<1> HIDE DEF r
<1>3. \A q \in Process : /\ q = p => r.state[q] = "ABSENT" /\ r.attempts[q] = 0
                         /\ q # p => r.state[q] = g.state[q] /\ r.attempts[q] = g.attempts[q]
  BY <1>1, <1>2 DEF Game
<1>4. GoodLobby(r) /\ GoodEnd(r)
  BY <1>2, <1>3 DEF GoodRound, GoodLobby, GoodEnd
<1>5. GoodAttempts(r) /\ GoodRace(r) /\ Open(r)
  BY <1>1, <1>2 DEF GoodAttempts, GoodRace, Open, InPlay
<1>6. GoodWinners(r)
  <2>1. r.winners \subseteq Process /\ GoodWinners(g)
    BY <1>2 DEF Game, GoodRound
  <2> QED  BY <2>1, <1>1, <1>2, <1>3 DEF GoodWinners
<1>7. GoodSecret(r)
  <2>1. \A q \in Present(r) : q \in Present(g) /\ q # p /\ r.aim[q] = g.aim[q]
    BY <1>1, <1>2, <1>3 DEF Present, Game
  <2>2. ComputerList(r) \subseteq r.ready
    BY <1>2, <2>1 DEF GoodRound, GoodSecret, ComputerList
  <2>3. CASE g.stage = "WAIT_A_NUMBER"
    BY <2>2, <2>3, <1>2 DEF GoodSecret
  <2>4. CASE g.stage # "WAIT_A_NUMBER"
    <3>1. GoodSecret(g) /\ Present(r) \subseteq Present(g) /\ (InPlay(r) => InPlay(g))
      BY <2>1, <1>2 DEF GoodRound, InPlay
    <3>2. \A q \in Present(r) : r.aim[q] = g.aim[q]
      BY <2>1
    <3> QED  BY <3>1, <3>2, <2>2, <2>4, SecretKept
  <2> QED  BY <2>3, <2>4
<1> QED  BY <1>2, <1>4, <1>5, <1>6, <1>7 DEF GoodRound, r

(* StartGame, accepted or refused with GAME_BUSY, keeps the game good.     *)
LEMMA StartGameGood ==
  ASSUME NEW g, GoodRound(g), Open(g), NEW s \in Secret
  PROVE  GoodRound(StartGame(g, s)) /\ Open(StartGame(g, s))
<1> DEFINE r == StartGame(g, s)
<1>1. g \in Game
  BY DEF GoodRound
<1>2. CASE g.stage # "WAIT_A_NUMBER"
  <2>1. r = [g EXCEPT !.secret = s]
    BY <1>2 DEF StartGame
  <2> HIDE DEF r
  <2>2. /\ r \in Game /\ r.stage = g.stage /\ r.step = g.step /\ r.winners = g.winners
        /\ r.state = g.state /\ r.attempts = g.attempts /\ r.aim = g.aim /\ r.ready = g.ready
    BY <1>1, <2>1 DEF Game
  <2>3. GoodSecret(r)
    <3>1. Present(r) = Present(g) /\ ComputerList(r) \subseteq r.ready
      BY <2>2 DEF GoodRound, GoodSecret, ComputerList, Present
    <3> QED  BY <3>1, <2>2, <1>2, SecretKept DEF GoodRound, InPlay
  <2> QED
    BY <2>2, <2>3 DEF r, GoodRound, GoodLobby, GoodAttempts, GoodEnd, GoodRace, GoodWinners,
       Open, InPlay, Present, Running, PlayerList, UnsteppedPlayers, UnsteppedAt
<1>3. CASE g.stage = "WAIT_A_NUMBER"
  <2> DEFINE S == [p \in Process |-> IF p \in Present(g) THEN "IN_PROGRESS" ELSE "ABSENT"]
             T == [p \in Process |-> IF p \in Present(g) THEN s ELSE g.aim[p]]
  <2>1. S \in [Process -> ProcessState] /\ T \in [Process -> Secret \cup {NoSecret}]
    BY <1>1 DEF ProcessState, Game
  <2>2. r = [g EXCEPT !.secret = s, !.stage = "IN_PROGRESS", !.state = S, !.aim = T]
    BY <1>3 DEF StartGame
  <2> HIDE DEF r, S, T
  <2>3. /\ r \in Game /\ r.stage = "IN_PROGRESS" /\ r.step = g.step /\ r.winners = g.winners
        /\ r.state = S /\ r.attempts = g.attempts /\ r.aim = T /\ r.ready = g.ready
    BY <1>1, <2>1, <2>2 DEF Game, GameStage
  <2>4. /\ g.step = 0 /\ g.winners = {} /\ \A p \in Process : g.attempts[p] = 0
    BY <1>3 DEF GoodRound, GoodLobby
  <2>5. \A p \in Process : /\ r.attempts[p] = 0 /\ r.state[p] \in {"IN_PROGRESS", "ABSENT"}
                           /\ r.state[p] = "ABSENT" <=> p \notin Present(g)
                           /\ p \in Present(g) => r.aim[p] = s
    BY <2>3, <2>4 DEF S, T
  <2>6. Present(r) = Present(g) /\ Running(r) = Present(r)
    BY <2>5 DEF Present, Running, Terminal
  <2>7. GoodLobby(r) /\ GoodAttempts(r) /\ GoodEnd(r) /\ GoodRace(r) /\ GoodWinners(r)
    BY <2>3, <2>4, <2>5 DEF GoodLobby, GoodAttempts, GoodEnd, GoodRace, GoodWinners, InPlay
  <2>8. GoodSecret(r)
    BY <2>3, <2>5, <2>6 DEF GoodRound, GoodSecret, ComputerList, Present
  <2>9. Open(r)
    BY <2>3, <2>4, <2>5, <2>6 DEF Open, PlayerList, Present
  <2> QED  BY <2>3, <2>7, <2>8, <2>9 DEF GoodRound, r
<1> QED  BY <1>2, <1>3

-----------------------------------------------------------------------------
(* A process in progress means that the game is in play.                   *)
LEMMA InProgressInPlay ==
  ASSUME NEW g, GoodRound(g), NEW p \in Process, g.state[p] = "IN_PROGRESS"
  PROVE  InPlay(g)
BY DEF GoodRound, GoodLobby, GoodEnd, Game, GameStage, InPlay, Terminal

(* A player's guess keeps the game good; the round may now be complete.    *)
LEMMA AppendGood ==
  ASSUME NEW g, GoodRound(g), NEW p \in Player, CanStep(g, p), NEW hit \in BOOLEAN
  PROVE  /\ GoodRound(AppendGameValue(g, p, hit))
         /\ InPlay(AppendGameValue(g, p, hit))
         /\ Outcomes(AppendGameValue(g, p, hit)) = Outcomes(g)
<1> DEFINE r == AppendGameValue(g, p, hit)
<1>1. /\ g \in Game /\ p \in Process /\ p \notin Computer
      /\ g.state[p] = "IN_PROGRESS" /\ g.attempts[p] <= g.step
  BY ProcessAssumption DEF GoodRound, CanStep, PlayerList, Present
<1>2. InPlay(g)
  BY <1>1, InProgressInPlay
<1>3. /\ r \in Game /\ r.stage = g.stage /\ r.step = g.step /\ r.winners = g.winners
      /\ r.state = [g.state EXCEPT ![p] = IF hit THEN "FINISHED" ELSE @]
      /\ r.attempts = [g.attempts EXCEPT ![p] = @ + 1]
      /\ r.aim = g.aim /\ r.ready = g.ready
  <2> DEFINE S == [g.state EXCEPT ![p] = IF hit THEN "FINISHED" ELSE @]
             A == [g.attempts EXCEPT ![p] = @ + 1]
  <2>1. S \in [Process -> ProcessState]
    BY <1>1 DEF Game, ProcessState, Terminal
  <2>2. A \in [Process -> Nat]
    BY <1>1 DEF Game
  <2>3. r = [g EXCEPT !.attempts = A, !.state = S]
    BY DEF AppendGameValue
  <2> HIDE DEF S, A, r
  <2>4. /\ r \in Game /\ r.stage = g.stage /\ r.step = g.step /\ r.winners = g.winners
        /\ r.state = S /\ r.attempts = A /\ r.aim = g.aim /\ r.ready = g.ready
    BY <1>1, <2>1, <2>2, <2>3 DEF Game
  <2> QED  BY <2>4 DEF S, A
<1> HIDE DEF r
<1>4. /\ g.step \in Nat /\ \A q \in Process : g.attempts[q] \in Nat
      /\ g.winners \subseteq Process
  BY <1>1 DEF Game
<1>5. \A q \in Process : q # p => r.state[q] = g.state[q] /\ r.attempts[q] = g.attempts[q]
  BY <1>1, <1>3 DEF Game
<1>6. /\ g.attempts[p] = g.step /\ r.attempts[p] = g.step + 1
      /\ r.state[p] \in {"IN_PROGRESS", "FINISHED"}
  BY <1>1, <1>2, <1>3, <1>4 DEF Game, GoodRound, GoodAttempts
<1>7. InPlay(r)
  BY <1>2, <1>3 DEF InPlay
<1>8. GoodLobby(r) /\ GoodEnd(r)
  BY <1>7 DEF InPlay, GoodLobby, GoodEnd
<1>9. GoodAttempts(r) /\ GoodRace(r)
  <2>1. ASSUME NEW q \in Process
        PROVE  /\ r.state[q] # "WAIT_A_NUMBER"
               /\ r.state[q] # "ABSENT" => r.attempts[q] <= r.step + 1
               /\ r.state[q] = "IN_PROGRESS" => r.attempts[q] >= r.step
               /\ q \in Computer /\ r.state[q] # "ABSENT" => r.attempts[q] <= r.step
    <3>1. CASE q = p
      BY <3>1, <1>1, <1>3, <1>4, <1>6
    <3>2. CASE q # p
      BY <3>2, <1>2, <1>3, <1>5 DEF GoodRound, GoodAttempts
    <3> QED  BY <3>1, <3>2
  <2>2. GoodRace(r)
    BY <1>3, <1>4, <1>5, <1>6 DEF GoodRound, GoodRace
  <2> QED  BY <2>1, <2>2 DEF GoodAttempts
<1>10. GoodWinners(r)
  <2>1. CASE g.stage = "IN_PROGRESS"
    BY <2>1, <1>3 DEF GoodWinners
  <2>2. CASE g.stage = "IN_PROGRESS_WINNER_DEFINED"
    <3>1. \A w \in g.winners : /\ g.state[w] = "FINISHED" /\ w # p
                              /\ r.state[w] = "FINISHED"
                              /\ r.attempts[w] = g.attempts[w] /\ g.attempts[w] <= g.step
      BY <2>2, <1>1, <1>4, <1>5 DEF GoodRound, GoodWinners
    <3>2. g.winners # {} /\ p \notin g.winners
      BY <2>2, <3>1 DEF GoodRound, GoodWinners
    <3>3. ASSUME NEW q \in Process, r.state[q] = "FINISHED", NEW w \in g.winners
          PROVE  /\ r.attempts[w] <= r.attempts[q]
                 /\ r.attempts[w] = r.attempts[q] <=> q \in g.winners
      <4>1. CASE q = p
        BY <4>1, <3>1, <3>2, <1>4, <1>6
      <4>2. CASE q # p
        BY <4>2, <3>1, <3>3, <2>2, <1>5 DEF GoodRound, GoodWinners
      <4> QED  BY <4>1, <4>2
    <3> QED  BY <3>1, <3>2, <3>3, <2>2, <1>3 DEF GoodWinners
  <2> QED  BY <2>1, <2>2, <1>2 DEF InPlay
<1>11. Present(r) = Present(g)
  BY <1>1, <1>5, <1>6 DEF Present
<1>12. GoodSecret(r)
  <2>1. ComputerList(r) \subseteq r.ready
    BY <1>3, <1>11 DEF GoodRound, GoodSecret, ComputerList
  <2> QED  BY <2>1, <1>2, <1>3, <1>11, SecretKept DEF GoodRound, InPlay
<1>13. Movers(r) = Movers(g)
  BY <1>1, <1>3, <1>5, <1>11 DEF Movers, ComputerList, Process
<1>14. \A c \in Movers(g) : r.attempts[c] = g.attempts[c]
  BY <1>1, <1>5 DEF Movers, ComputerList, Process
<1>15. Outcomes(r) = Outcomes(g)
  BY <1>13, <1>14 DEF Outcomes
<1> QED  BY <1>3, <1>7, <1>8, <1>9, <1>10, <1>12, <1>15 DEF GoodRound, r

(* A whole call of doPlayerStep keeps the game good.                       *)
LEMMA DoPlayerStepGood ==
  ASSUME NEW g, GoodRound(g), NEW p \in Player, CanStep(g, p),
         NEW hit \in BOOLEAN, NEW hits \in Outcomes(g)
  PROVE  GoodRound(DoPlayerStep(g, p, hit, hits)) /\ Open(DoPlayerStep(g, p, hit, hits))
<1> DEFINE m == AppendGameValue(g, p, hit)
<1>1. GoodRound(m) /\ InPlay(m) /\ hits \in Outcomes(m)
  BY AppendGood
<1>2. DoPlayerStep(g, p, hit, hits) = FinishStep(m, hits)
  BY DEF DoPlayerStep
<1> HIDE DEF m
<1>3. CASE UnsteppedPlayers(m) # {}
  <2>1. FinishStep(m, hits) = m /\ Running(m) # {}
    BY <1>3 DEF FinishStep, UnsteppedPlayers, UnsteppedAt, Running, PlayerList
  <2> QED  BY <2>1, <1>1, <1>2, <1>3 DEF Open
<1>4. CASE UnsteppedPlayers(m) = {}
  <2>1. FinishStep(m, hits) = CloseRound(m, hits) /\ m.stage # "WAIT_A_NUMBER"
    BY <1>1, <1>4 DEF FinishStep, InPlay
  <2> QED  BY <2>1, <1>1, <1>2, <1>4, CloseRoundGood
<1> QED  BY <1>3, <1>4

(* Giving up, by one player or by all of them, touches only the states of  *)
(* players in progress: none of the winners, no count and no computer.     *)
LEMMA GivingUpGood ==
  ASSUME NEW g, GoodRound(g), g.stage # "WAIT_A_NUMBER",
         NEW Q \in SUBSET (PlayerList(g) \cap Running(g))
  PROVE  LET r == GiveUp(g, Q)
         IN  /\ GoodRound(r)
             /\ r.stage = g.stage /\ r.step = g.step /\ r.attempts = g.attempts
             /\ \A p \in Process :
                   r.state[p] = IF p \in Q THEN "GAVE_UP" ELSE g.state[p]
             /\ Outcomes(r) = Outcomes(g)
<1> DEFINE r == GiveUp(g, Q)
           S == [p \in Process |-> IF p \in Q THEN "GAVE_UP" ELSE g.state[p]]
<1>1. g \in Game
  BY DEF GoodRound
<1>2. \A p \in Q : /\ p \in Process /\ p \in Player /\ p \notin Computer
                   /\ g.state[p] \notin Terminal /\ g.state[p] # "ABSENT"
  BY ProcessAssumption DEF PlayerList, Running, Present
<1>3. S \in [Process -> ProcessState]
  BY <1>1 DEF Game, ProcessState, Terminal
<1>0. r = [g EXCEPT !.state = S]
  BY DEF GiveUp
<1> HIDE DEF r, S
<1>4. /\ r \in Game /\ r.stage = g.stage /\ r.step = g.step /\ r.winners = g.winners
      /\ r.state = S /\ r.attempts = g.attempts /\ r.aim = g.aim /\ r.ready = g.ready
  BY <1>0, <1>1, <1>3 DEF Game
<1>5. \A p \in Process : r.state[p] = IF p \in Q THEN "GAVE_UP" ELSE g.state[p]
  BY <1>4 DEF S
<1>6. \A p \in Process : (r.state[p] = "FINISHED") <=> (g.state[p] = "FINISHED")
  BY <1>2, <1>5 DEF Terminal
<1>7. Present(r) = Present(g)
  BY <1>2, <1>5 DEF Present
<1>8. GoodLobby(r) /\ GoodEnd(r) /\ GoodRace(r)
  BY <1>4, <1>5, <1>6 DEF GoodRound, GoodLobby, GoodEnd, GoodRace, Terminal
<1>9. GoodAttempts(r)
  BY <1>2, <1>4, <1>5 DEF GoodRound, GoodAttempts, InPlay
<1>10. GoodWinners(r)
  <2>1. g.winners \subseteq Process /\ GoodWinners(g)
    BY <1>1 DEF Game, GoodRound
  <2>2. \A w \in g.winners : r.state[w] = "ABSENT" \/ g.state[w] # "ABSENT"
    BY <2>1, <1>2, <1>5
  <2> QED  BY <2>1, <2>2, <1>4, <1>6 DEF GoodWinners
<1>11. GoodSecret(r)
  <2>1. ComputerList(r) \subseteq r.ready
    BY <1>4, <1>7 DEF GoodRound, GoodSecret, ComputerList
  <2> QED  BY <2>1, <1>4, <1>7, SecretKept DEF GoodRound, InPlay
<1>12. Movers(r) = Movers(g)
  BY <1>2, <1>4, <1>5, <1>7 DEF Movers, ComputerList, Present
<1>13. Outcomes(r) = Outcomes(g)
  BY <1>4, <1>12 DEF Outcomes
<1> QED  BY <1>4, <1>5, <1>8, <1>9, <1>10, <1>11, <1>13 DEF GoodRound, r

(* PlayerGiveUp keeps the game good: in a half-played round it closes the  *)
(* round when it was the last move missing, and when it does not look at   *)
(* the round there is nobody whose finish has not been judged.             *)
LEMMA PlayerGiveUpGood ==
  ASSUME NEW g, GoodRound(g), Open(g), NEW p \in Player, CanGiveUp(g, p),
         NEW hits \in Outcomes(g)
  PROVE  GoodRound(PlayerGiveUp(g, p, hits)) /\ Open(PlayerGiveUp(g, p, hits))
<1> DEFINE r == GiveUp(g, {p})
<1>1. /\ g \in Game /\ p \in Process /\ g.state[p] = "IN_PROGRESS"
      /\ p \in PlayerList(g) \cap Running(g)
  BY DEF GoodRound, CanGiveUp, PlayerList, Present, Running, Terminal
<1>2. InPlay(g)
  BY <1>1, InProgressInPlay
<1>3. {p} \in SUBSET (PlayerList(g) \cap Running(g)) /\ g.stage # "WAIT_A_NUMBER"
  BY <1>1, <1>2 DEF InPlay
<1>4. /\ GoodRound(r)
      /\ r.stage = g.stage /\ r.step = g.step /\ r.attempts = g.attempts
      /\ \A q \in Process : r.state[q] = IF q \in {p} THEN "GAVE_UP" ELSE g.state[q]
      /\ Outcomes(r) = Outcomes(g)
  BY <1>3, GivingUpGood
<1> HIDE DEF r
<1>5. InPlay(r)
  BY <1>2, <1>4 DEF InPlay
<1>6. CASE IsStepInTransitionStage(g)
  <2>1. CASE UnsteppedPlayers(r) # {}
    <3>1. PlayerGiveUp(g, p, hits) = r
      BY <1>6, <2>1 DEF PlayerGiveUp, FinishStep, r
    <3>2. Running(r) # {}
      BY <2>1 DEF UnsteppedPlayers, UnsteppedAt, Running, PlayerList
    <3> QED  BY <3>1, <3>2, <2>1, <1>4 DEF Open
  <2>2. CASE UnsteppedPlayers(r) = {}
    <3>1. PlayerGiveUp(g, p, hits) = CloseRound(r, hits)
      BY <1>6, <2>2 DEF PlayerGiveUp, FinishStep, r
    <3>2. r.stage # "WAIT_A_NUMBER" /\ hits \in Outcomes(r)
      BY <1>4, <1>5 DEF InPlay
    <3> QED  BY <3>1, <3>2, <2>2, <1>4, CloseRoundGood
  <2> QED  BY <2>1, <2>2
<1>7. CASE ~IsStepInTransitionStage(g)
  <2>1. PlayerGiveUp(g, p, hits) = CheckFinish(r)
    BY <1>7 DEF PlayerGiveUp, r
  <2>2. /\ g.step \in Nat /\ g.attempts[p] \in Nat
        /\ g.attempts[p] \in {g.step, g.step + 1}
    BY <1>1, <1>2 DEF Game, GoodRound, GoodAttempts
  <2>3. \A q \in PlayerList(g) : ~(g.attempts[q] > g.step)
    <3> SUFFICES ASSUME NEW q \in PlayerList(g), g.attempts[q] > g.step
                 PROVE  FALSE
      OBVIOUS
    <3>1. PICK u \in UnsteppedPlayers(g) : TRUE
      BY <1>2 DEF Open
    <3>2. /\ u \in PlayerList(g) /\ g.attempts[u] = g.step
          /\ g.state[u] = "IN_PROGRESS"
      BY <3>1, <1>1, <1>2 DEF UnsteppedPlayers, UnsteppedAt, GoodRound, GoodAttempts,
         PlayerList, Present, Terminal, Game, ProcessState
    <3> QED  BY <3>2, <1>7 DEF IsStepInTransitionStage
  <2>4. \A q \in Process : g.state[q] # "ABSENT" => ~(g.attempts[q] > g.step)
    BY <2>3, <1>1, <1>2 DEF GoodRound, GoodAttempts, PlayerList, Present, Process, Game
  <2>5. CASE Running(r) = {}
    <3> DEFINE t == CheckFinish(r)
    <3>1. t = [r EXCEPT !.stage = "FINISHED"]
      BY <2>5 DEF CheckFinish
    <3> HIDE DEF t
    <3>2. /\ t \in Game /\ t.stage = "FINISHED" /\ t.winners = r.winners
          /\ t.state = r.state /\ t.attempts = r.attempts /\ t.ready = r.ready
          /\ t.aim = r.aim
      BY <3>1, <1>4 DEF GoodRound, Game, GameStage
    <3>3. \A q \in Process : r.state[q] \in Terminal \cup {"ABSENT"}
      BY <2>5 DEF Running, Present
    <3>4. GoodEnd(t)
      BY <3>2, <3>3 DEF GoodEnd
    <3>5. GoodLobby(t) /\ GoodAttempts(t) /\ GoodRace(t) /\ Open(t)
      BY <3>2 DEF GoodLobby, GoodAttempts, GoodRace, Open, InPlay
    <3>6. GoodWinners(t)
      <4>1. CASE r.stage = "IN_PROGRESS"
        <5>1. \A q \in Process : r.state[q] # "FINISHED"
          BY <4>1, <2>4, <1>4 DEF GoodRound, GoodRace
        <5>2. r.winners = {}
          BY <4>1, <1>4 DEF GoodRound, GoodRace
        <5> QED  BY <5>1, <5>2, <3>2 DEF GoodWinners
      <4>2. CASE r.stage = "IN_PROGRESS_WINNER_DEFINED"
        BY <4>2, <3>2, <1>4 DEF GoodRound, GoodWinners
      <4> QED  BY <4>1, <4>2, <1>5 DEF InPlay
    <3>7. GoodSecret(t)
      <4>1. Present(t) = Present(r) /\ ComputerList(t) \subseteq t.ready
        BY <3>2, <1>4 DEF GoodRound, GoodSecret, ComputerList, Present
      <4>2. r.stage # "WAIT_A_NUMBER" /\ ~InPlay(t)
        BY <3>2, <1>5 DEF InPlay
      <4> QED  BY <3>2, <4>1, <4>2, <1>4, SecretKept DEF GoodRound
    <3> QED  BY <3>2, <3>4, <3>5, <3>6, <3>7, <2>1 DEF GoodRound, t
  <2>6. CASE Running(r) # {}
    <3>1. PlayerGiveUp(g, p, hits) = r
      BY <2>1, <2>6 DEF CheckFinish
    <3>2. ~\E q \in PlayerList(r) : r.attempts[q] > r.step
      BY <2>4, <1>4, <1>1 DEF PlayerList, Present
    <3> QED  BY <3>1, <3>2, <2>6, <1>4 DEF Open
  <2> QED  BY <2>5, <2>6
<1> QED  BY <1>6, <1>7

-----------------------------------------------------------------------------
(* A game that has begun or ended, restored or not: what a call may do to  *)
(* it, whatever its step counter.                                          *)

(* One process in one call: it is left alone, or it was in progress and    *)
(* has made one guess or given up.                                         *)
Kept(g, r, p) == r.state[p] = g.state[p] /\ r.attempts[p] = g.attempts[p]

Moved(g, r, p) ==
  /\ g.state[p] = "IN_PROGRESS"
  /\ \/ r.attempts[p] = g.attempts[p] + 1 /\ r.state[p] \in {"IN_PROGRESS", "FINISHED"}
     \/ r.attempts[p] = g.attempts[p] /\ r.state[p] = "GAVE_UP"

Named(g, r) ==
  \/ r.winners = g.winners
  \/ /\ g.stage = "IN_PROGRESS"
     /\ r.winners # {}
     /\ \A w \in r.winners : w \in Process /\ r.state[w] = "FINISHED"

(* A call in a started game.                                               *)
PlayStep(g, r) ==
  /\ g.stage # "WAIT_A_NUMBER"
  /\ r.stage # "WAIT_A_NUMBER"
  /\ g.stage = "FINISHED" => r.stage = "FINISHED"
  /\ Named(g, r)
  /\ \A p \in Process : Kept(g, r, p) \/ Moved(g, r, p)
  /\ r.step \in {g.step, g.step + 1}

(* A round that is closed moves each computer that is still running.       *)
Punctual(g, r) ==
  \/ r.step = g.step
  \/ \A c \in ComputerList(g) \cap Running(g) : r.attempts[c] = g.attempts[c] + 1

StartStep(g, r) ==
  /\ g.stage = "WAIT_A_NUMBER"
  /\ r.stage = "IN_PROGRESS"
  /\ r.step = g.step /\ r.winners = g.winners /\ r.attempts = g.attempts
  /\ \A p \in Process : r.state[p] \in {"ABSENT", "IN_PROGRESS"}

LeaveStep(g, r, p) ==
  /\ g.stage = "FINISHED"
  /\ r.stage = g.stage /\ r.step = g.step /\ r.winners = g.winners
  /\ r.state = [g.state EXCEPT ![p] = "ABSENT"]
  /\ r.attempts = [g.attempts EXCEPT ![p] = 0]

SameStepOf(g, r) ==
  /\ r.stage = g.stage /\ r.step = g.step /\ r.winners = g.winners
  /\ r.state = g.state /\ r.attempts = g.attempts

-----------------------------------------------------------------------------
(* A good game that is no longer in the lobby has begun.                   *)
LEMMA GoodIsBegun ==
  ASSUME NEW g, GoodRound(g), g.stage # "WAIT_A_NUMBER"
  PROVE  Begun(g)
BY DEF Begun, GoodRound, GoodAttempts, GoodRace

(* In such a game who runs is in progress, and nobody once it has ended;   *)
(* and the brain of a computer that is to move has a secret to guess.      *)
LEMMA BegunRunning ==
  ASSUME NEW g, Begun(g)
  PROVE  /\ \A p \in Running(g) :
              p \in Process /\ p \in Present(g) /\ g.state[p] = "IN_PROGRESS"
         /\ g.stage = "FINISHED" => Running(g) = {}
         /\ Movers(g) \subseteq Running(g) \cap Computer
         /\ ~NullSecret(g)
<1>1. /\ g.stage \in GameStage /\ (\A p \in Process : g.state[p] \in ProcessState)
      /\ g.stage # "WAIT_A_NUMBER"
  BY DEF Begun, Game
<1>2. g.stage = "FINISHED" => Running(g) = {}
  BY DEF Begun, GoodEnd, Running, Present
<1>3. g.stage # "FINISHED" => InPlay(g)
  BY <1>1 DEF GameStage, InPlay
<1>4. \A p \in Running(g) : p \in Process /\ p \in Present(g) /\ g.state[p] = "IN_PROGRESS"
  BY <1>1, <1>2, <1>3 DEF Begun, Running, Present, ProcessState, Terminal
<1>5. Movers(g) \subseteq Running(g) \cap Computer
  BY DEF Movers, ComputerList, Running
<1>6. ~NullSecret(g)
  <2> SUFFICES ASSUME NEW c \in Movers(g), g.aim[c] = NoSecret  PROVE FALSE
    BY DEF NullSecret
  <2>1. c \in Present(g) /\ InPlay(g)
    BY <1>2, <1>3, <1>4, <1>5
  <2>2. g.aim[c] \in Secret
    BY <2>1, <1>1 DEF Begun, GoodSecret
  <2> QED  BY <2>2, SecretAssumption
<1> QED  BY <1>2, <1>4, <1>5, <1>6

LEMMA BegunInPlay ==
  ASSUME NEW g, Begun(g), NEW p \in Process, g.state[p] = "IN_PROGRESS"
  PROVE  InPlay(g)
BY DEF Begun, GoodEnd, Game, GameStage, InPlay, Terminal

(* Closing a round moves computers only.                                   *)
LEMMA CloseRoundBegun ==
  ASSUME NEW g, Begun(g), NEW hits \in Outcomes(g)
  PROVE  /\ Begun(CloseRound(g, hits))
         /\ PlayStep(g, CloseRound(g, hits))
         /\ \A p \in Player : Kept(g, CloseRound(g, hits), p)
<1> DEFINE r == CloseRound(g, hits)
           now == {p \in Process : r.state[p] = "FINISHED" /\ r.attempts[p] = g.step + 1}
           done == \A p \in Process : r.state[p] \in Terminal \cup {"ABSENT"}
<1>1. g \in Game /\ hits \in SUBSET Movers(g)
  BY DEF Begun, Outcomes
<1>2. /\ r \in Game
      /\ r.step = g.step + 1
      /\ r.aim = g.aim /\ r.ready = g.ready
      /\ r.attempts = [p \in Process |->
            IF p \in Movers(g) THEN g.attempts[p] + 1 ELSE g.attempts[p]]
      /\ r.state = [p \in Process |->
            IF p \in hits THEN "FINISHED" ELSE g.state[p]]
      /\ r.winners = IF g.stage = "IN_PROGRESS" /\ now # {} THEN now ELSE g.winners
      /\ r.stage = IF done THEN "FINISHED"
                   ELSE IF g.stage = "IN_PROGRESS" /\ now # {}
                   THEN "IN_PROGRESS_WINNER_DEFINED" ELSE g.stage
  BY <1>1, CloseRoundFields
<1> HIDE DEF r
<1>3. \A p \in Movers(g) : /\ p \in Process /\ p \in Computer /\ p \notin Player
                           /\ g.state[p] = "IN_PROGRESS"
  BY BegunRunning, ProcessAssumption
<1>4. \A p \in Process : IF p \in Movers(g) THEN Moved(g, r, p) ELSE Kept(g, r, p)
  BY <1>1, <1>2, <1>3 DEF Moved, Kept
<1>5. \A p \in Player : Kept(g, r, p)
  BY <1>3, <1>4 DEF Process
<1>6. Named(g, r)
  BY <1>2 DEF Named
<1>7. g.stage = "FINISHED" => done
  BY <1>2 DEF Begun, GoodEnd, Terminal
<1>8. r.stage # "WAIT_A_NUMBER" /\ (g.stage = "FINISHED" => r.stage = "FINISHED")
  BY <1>2, <1>7 DEF Begun
<1>9. PlayStep(g, r)
  BY <1>2, <1>4, <1>6, <1>8 DEF PlayStep, Begun
<1>10. GoodEnd(r)
  BY <1>2, <1>7 DEF GoodEnd
<1>11. InPlay(r) => InPlay(g)
  BY <1>2, <1>8, <1>1 DEF InPlay, Game, GameStage, Begun
<1>12. Present(r) = Present(g)
  BY <1>4 DEF Present, Moved, Kept
<1>13. InPlay(r) => \A p \in Process : r.state[p] # "WAIT_A_NUMBER"
  BY <1>4, <1>11 DEF Begun, Moved, Kept
<1>14. r.stage = "IN_PROGRESS" => r.winners = {}
  BY <1>2 DEF Begun
<1>15. GoodSecret(r)
  <2>1. ComputerList(r) \subseteq r.ready
    BY <1>2, <1>12 DEF ComputerList, Begun, GoodSecret
  <2> QED  BY <2>1, <1>2, <1>11, <1>12, SecretKept DEF Begun
<1>16. Begun(r)
  BY <1>2, <1>8, <1>10, <1>13, <1>14, <1>15 DEF Begun
<1> QED  BY <1>5, <1>9, <1>16 DEF r

(* Of a game that has not been restored it moves all that still run.       *)
LEMMA CloseRoundPunctual ==
  ASSUME NEW g, GoodRound(g), g.stage # "WAIT_A_NUMBER", NEW hits \in Outcomes(g)
  PROVE  Punctual(g, CloseRound(g, hits))
<1> DEFINE r == CloseRound(g, hits)
<1>1. g \in Game /\ hits \in SUBSET Movers(g) /\ Begun(g)
  BY GoodIsBegun DEF GoodRound, Outcomes
<1>2. r.attempts = [p \in Process |->
         IF p \in Movers(g) THEN g.attempts[p] + 1 ELSE g.attempts[p]]
  BY <1>1, CloseRoundFields
<1> HIDE DEF r
<1>3. ASSUME NEW c \in ComputerList(g) \cap Running(g)
      PROVE  c \in Movers(g) /\ c \in Process
  <2>1. c \in Process /\ c \in Computer /\ g.state[c] = "IN_PROGRESS" /\ InPlay(g)
    BY <1>1, BegunRunning, BegunInPlay DEF ComputerList
  <2>2. g.attempts[c] = g.step
    BY <2>1, <1>1 DEF GoodRound, GoodAttempts, Game
  <2> QED  BY <2>1, <2>2 DEF Movers, Running
<1>4. Punctual(g, r)
  BY <1>2, <1>3 DEF Punctual
<1> QED  BY <1>4 DEF r

(* A guess is one step of one player.                                      *)
LEMMA AppendBegun ==
  ASSUME NEW g, Begun(g), NEW p \in Player, CanStep(g, p), NEW hit \in BOOLEAN
  PROVE  LET m == AppendGameValue(g, p, hit)
         IN  /\ Begun(m) /\ InPlay(m)
             /\ PlayStep(g, m)
             /\ m.stage = g.stage /\ m.step = g.step /\ m.winners = g.winners
             /\ m.attempts = [g.attempts EXCEPT ![p] = @ + 1]
             /\ \A q \in Process \ {p} : Kept(g, m, q)
             /\ \A c \in Computer : Kept(g, m, c)
             /\ Outcomes(m) = Outcomes(g)
<1> DEFINE m == AppendGameValue(g, p, hit)
           S == [g.state EXCEPT ![p] = IF hit THEN "FINISHED" ELSE @]
           A == [g.attempts EXCEPT ![p] = @ + 1]
<1>1. /\ g \in Game /\ p \in Process /\ p \notin Computer /\ g.state[p] = "IN_PROGRESS"
  BY ProcessAssumption DEF Begun, CanStep, Process
<1>2. InPlay(g)
  BY <1>1, BegunInPlay
<1>3. S \in [Process -> ProcessState] /\ A \in [Process -> Nat]
  BY <1>1 DEF Game, ProcessState, Terminal
<1>4. m = [g EXCEPT !.attempts = A, !.state = S]
  BY DEF AppendGameValue
<1> HIDE DEF m, S, A
<1>5. /\ m \in Game /\ m.stage = g.stage /\ m.step = g.step /\ m.winners = g.winners
      /\ m.state = S /\ m.attempts = A /\ m.aim = g.aim /\ m.ready = g.ready
  BY <1>1, <1>3, <1>4 DEF Game
<1>6. \A q \in Process \ {p} : Kept(g, m, q)
  BY <1>1, <1>5 DEF S, A, Kept, Game
<1>7. Moved(g, m, p)
  BY <1>1, <1>5 DEF S, A, Moved, Game
<1>8. PlayStep(g, m) /\ InPlay(m)
  BY <1>2, <1>5, <1>6, <1>7 DEF PlayStep, Named, InPlay
<1>9. \A c \in Computer : Kept(g, m, c)
  BY <1>1, <1>6 DEF Process
<1>10. Present(m) = Present(g)
  BY <1>6, <1>7 DEF Present, Kept, Moved
<1>11. GoodSecret(m)
  <2>1. ComputerList(m) \subseteq m.ready
    BY <1>5, <1>10 DEF ComputerList, Begun, GoodSecret
  <2> QED  BY <2>1, <1>2, <1>5, <1>10, SecretKept DEF Begun
<1>12. Begun(m)
  <2>1. \A q \in Process : m.state[q] # "WAIT_A_NUMBER"
    BY <1>2, <1>6, <1>7 DEF Begun, Kept, Moved
  <2> QED  BY <2>1, <1>2, <1>5, <1>11 DEF Begun, GoodEnd, InPlay
<1>13. Movers(m) = Movers(g)
  BY <1>5, <1>9, <1>10 DEF Movers, ComputerList, Kept
<1>14. Outcomes(m) = Outcomes(g)
  BY <1>9, <1>13 DEF Outcomes, Movers, ComputerList, Kept
<1> QED  BY <1>5, <1>6, <1>8, <1>9, <1>12, <1>14 DEF m, A

(* Giving up, of one player or of all, is one step of each of them.        *)
LEMMA GiveUpBegun ==
  ASSUME NEW g, Begun(g), NEW Q \in SUBSET (PlayerList(g) \cap Running(g))
  PROVE  LET m == GiveUp(g, Q)
         IN  /\ Begun(m)
             /\ PlayStep(g, m)
             /\ m.stage = g.stage /\ m.step = g.step /\ m.winners = g.winners
             /\ m.attempts = g.attempts
             /\ \A p \in Process : m.state[p] = IF p \in Q THEN "GAVE_UP" ELSE g.state[p]
             /\ \A c \in Computer : Kept(g, m, c)
             /\ Outcomes(m) = Outcomes(g)
<1> DEFINE m == GiveUp(g, Q)
           S == [p \in Process |-> IF p \in Q THEN "GAVE_UP" ELSE g.state[p]]
<1>1. g \in Game
  BY DEF Begun
<1>2. \A p \in Q : p \in Process /\ p \notin Computer /\ g.state[p] = "IN_PROGRESS"
  BY BegunRunning, ProcessAssumption DEF PlayerList
<1>3. S \in [Process -> ProcessState]
  BY <1>1 DEF Game, ProcessState, Terminal
<1>4. m = [g EXCEPT !.state = S]
  BY DEF GiveUp
<1> HIDE DEF m, S
<1>5. /\ m \in Game /\ m.stage = g.stage /\ m.step = g.step /\ m.winners = g.winners
      /\ m.state = S /\ m.attempts = g.attempts /\ m.aim = g.aim /\ m.ready = g.ready
  BY <1>1, <1>3, <1>4 DEF Game
<1>6. \A p \in Process : m.state[p] = IF p \in Q THEN "GAVE_UP" ELSE g.state[p]
  BY <1>5 DEF S
<1>7. \A p \in Process : IF p \in Q THEN Moved(g, m, p) ELSE Kept(g, m, p)
  BY <1>2, <1>5, <1>6 DEF Kept, Moved
<1>8. PlayStep(g, m)
  BY <1>5, <1>7 DEF PlayStep, Named, Begun
<1>9. \A c \in Computer : Kept(g, m, c)
  BY <1>2, <1>7 DEF Process
<1>10. Present(m) = Present(g)
  BY <1>2, <1>6 DEF Present
<1>11. GoodSecret(m)
  <2>1. ComputerList(m) \subseteq m.ready
    BY <1>5, <1>10 DEF ComputerList, Begun, GoodSecret
  <2> QED  BY <2>1, <1>5, <1>10, SecretKept DEF Begun, InPlay
<1>12. Begun(m)
  BY <1>5, <1>6, <1>11 DEF Begun, GoodEnd, InPlay, Terminal
<1>13. Movers(m) = Movers(g)
  BY <1>5, <1>9, <1>10 DEF Movers, ComputerList, Kept
<1>14. Outcomes(m) = Outcomes(g)
  BY <1>5, <1>13 DEF Outcomes
<1> QED  BY <1>5, <1>6, <1>8, <1>9, <1>12, <1>14 DEF m

LEMMA CheckFinishBegun ==
  ASSUME NEW g, NEW m, Begun(m), PlayStep(g, m)
  PROVE  Begun(CheckFinish(m)) /\ PlayStep(g, CheckFinish(m))
<1> DEFINE t == CheckFinish(m)
<1>1. CASE Running(m) # {}
  BY <1>1 DEF CheckFinish
<1>2. CASE Running(m) = {}
  <2>1. t = [m EXCEPT !.stage = "FINISHED"]
    BY <1>2 DEF CheckFinish
  <2> HIDE DEF t
  <2>2. /\ t \in Game /\ t.stage = "FINISHED" /\ t.step = m.step /\ t.winners = m.winners
        /\ t.state = m.state /\ t.attempts = m.attempts /\ t.aim = m.aim /\ t.ready = m.ready
    BY <2>1 DEF Begun, Game, GameStage
  <2>3. PlayStep(g, t)
    BY <2>2 DEF PlayStep, Named, Kept, Moved
  <2>4. GoodEnd(t)
    BY <1>2, <2>2 DEF GoodEnd, Running, Present
  <2>5. GoodSecret(t)
    <3>1. Present(t) = Present(m) /\ ComputerList(t) \subseteq t.ready /\ ~InPlay(t)
      BY <2>2 DEF Present, ComputerList, Begun, GoodSecret, InPlay
    <3> QED  BY <3>1, <2>2, SecretKept DEF Begun
  <2>6. Begun(t)
    BY <2>2, <2>4, <2>5 DEF Begun, InPlay
  <2> QED  BY <2>3, <2>6 DEF t
<1> QED  BY <1>1, <1>2

(* Erasing a process of a game that has ended.                             *)
LEMMA RemoveBegun ==
  ASSUME NEW g, Begun(g), NEW p \in Process, CanRemove(g, p)
  PROVE  LET r == RemoveProcess(g, p)
         IN  Begun(r) /\ r.stage = "FINISHED" /\ LeaveStep(g, r, p)
<1> DEFINE r == RemoveProcess(g, p)
<1>1. g \in Game /\ g.stage = "FINISHED"
  BY DEF Begun, CanRemove
<1>2. /\ r \in Game /\ r.stage = "FINISHED" /\ r.step = g.step /\ r.winners = g.winners
      /\ r.state = [g.state EXCEPT ![p] = "ABSENT"]
      /\ r.attempts = [g.attempts EXCEPT ![p] = 0]
      /\ r.aim = [g.aim EXCEPT ![p] = NoSecret]
      /\ r.ready = g.ready \ {p}
  BY <1>1 DEF RemoveProcess, Game, ProcessState
<1> HIDE DEF r
<1>3. LeaveStep(g, r, p)
  BY <1>1, <1>2 DEF LeaveStep
<1>4. \A q \in Process : r.state[q] = IF q = p THEN "ABSENT" ELSE g.state[q]
  BY <1>1, <1>2 DEF Game
<1>5. GoodEnd(r)
  BY <1>1, <1>2, <1>4 DEF Begun, GoodEnd
<1>6. GoodSecret(r)
  <2>1. Present(r) \subseteq Present(g) \ {p}
    BY <1>4 DEF Present
  <2>2. ComputerList(r) \subseteq r.ready
    BY <1>2, <2>1 DEF ComputerList, Begun, GoodSecret
  <2>3. \A q \in Present(r) : r.aim[q] = g.aim[q]
    BY <1>1, <1>2, <2>1 DEF Present, Game
  <2>4. ~InPlay(r) /\ g.stage # "WAIT_A_NUMBER" /\ Present(r) \subseteq Present(g)
    BY <1>1, <1>2, <2>1 DEF InPlay
  <2> QED  BY <2>2, <2>3, <2>4, SecretKept DEF Begun
<1>7. Begun(r)
  BY <1>2, <1>5, <1>6 DEF Begun, InPlay
<1> QED  BY <1>2, <1>3, <1>7 DEF r

(* StartGame refused: the secret is stored, and used by nobody.            *)
LEMMA StartGameBegun ==
  ASSUME NEW g, Begun(g), NEW s \in Secret
  PROVE  Begun(StartGame(g, s)) /\ SameStepOf(g, StartGame(g, s))
<1> DEFINE r == StartGame(g, s)
<1>1. r = [g EXCEPT !.secret = s]
  BY DEF StartGame, Begun
<1> HIDE DEF r
<1>2. /\ r \in Game /\ r.stage = g.stage /\ r.step = g.step /\ r.winners = g.winners
      /\ r.state = g.state /\ r.attempts = g.attempts /\ r.aim = g.aim /\ r.ready = g.ready
  BY <1>1 DEF Begun, Game
<1>3. GoodSecret(r)
  <2>1. Present(r) = Present(g) /\ ComputerList(r) \subseteq r.ready
    BY <1>2 DEF Begun, GoodSecret, ComputerList, Present
  <2> QED  BY <2>1, <1>2, SecretKept DEF Begun, InPlay
<1>4. Begun(r)
  BY <1>2, <1>3 DEF Begun, GoodEnd, InPlay
<1> QED  BY <1>2, <1>4 DEF r, SameStepOf

(* FinishStep, whether or not it returns early.                            *)
LEMMA FinishStepBegun ==
  ASSUME NEW g, Begun(g), NEW hits \in Outcomes(g)
  PROVE  /\ Begun(FinishStep(g, hits))
         /\ PlayStep(g, FinishStep(g, hits))
         /\ \A p \in Player : Kept(g, FinishStep(g, hits), p)
<1>1. CASE UnsteppedPlayers(g) # {}
  BY <1>1 DEF FinishStep, PlayStep, Named, Kept, Begun
<1>2. CASE UnsteppedPlayers(g) = {}
  BY <1>2, CloseRoundBegun DEF FinishStep
<1> QED  BY <1>1, <1>2

LEMMA FinishStepPunctual ==
  ASSUME NEW g, GoodRound(g), g.stage # "WAIT_A_NUMBER", NEW hits \in Outcomes(g)
  PROVE  Punctual(g, FinishStep(g, hits))
BY CloseRoundPunctual DEF FinishStep, Punctual

(* A player's move and the closing of the round are one call.              *)
LEMMA ComposeSteps ==
  ASSUME NEW g, NEW m, NEW r, PlayStep(g, m), PlayStep(m, r),
         m.stage = g.stage, m.step = g.step, m.winners = g.winners,
         \A c \in Computer : Kept(g, m, c),
         \A p \in Player : Kept(m, r, p)
  PROVE  PlayStep(g, r) /\ (Punctual(m, r) => Punctual(g, r))
<1>1. \A p \in Process : Kept(g, r, p) \/ Moved(g, r, p)
  BY DEF PlayStep, Kept, Moved, Process
<1>2. ComputerList(g) \cap Running(g) = ComputerList(m) \cap Running(m)
  BY DEF ComputerList, Running, Present, Kept, Process
<1>3. \A c \in ComputerList(g) : m.attempts[c] = g.attempts[c]
  BY DEF ComputerList, Kept
<1>4. PlayStep(g, r)
  BY <1>1 DEF PlayStep, Named
<1>5. Punctual(m, r) => Punctual(g, r)
  BY <1>2, <1>3 DEF Punctual
<1> QED  BY <1>4, <1>5

-----------------------------------------------------------------------------
(* A whole call of doPlayerStep.                                           *)
LEMMA DoPlayerStepBegun ==
  ASSUME NEW g, Begun(g), NEW p \in Player, CanStep(g, p),
         NEW hit \in BOOLEAN, NEW hits \in Outcomes(g)
  PROVE  /\ Begun(DoPlayerStep(g, p, hit, hits))
         /\ PlayStep(g, DoPlayerStep(g, p, hit, hits))
<1> DEFINE m == AppendGameValue(g, p, hit)
           r == FinishStep(m, hits)
<1>1. /\ Begun(m) /\ PlayStep(g, m) /\ hits \in Outcomes(m)
      /\ m.stage = g.stage /\ m.step = g.step /\ m.winners = g.winners
      /\ \A c \in Computer : Kept(g, m, c)
  BY AppendBegun
<1> HIDE DEF m
<1>2. Begun(r) /\ PlayStep(m, r) /\ \A q \in Player : Kept(m, r, q)
  BY <1>1, FinishStepBegun
<1> HIDE DEF r
<1>3. PlayStep(g, r)
  BY <1>1, <1>2, ComposeSteps
<1> QED  BY <1>2, <1>3 DEF DoPlayerStep, m, r

(* A whole call of PlayerGiveUp.                                           *)
LEMMA PlayerGiveUpBegun ==
  ASSUME NEW g, Begun(g), NEW p \in Player, CanGiveUp(g, p), NEW hits \in Outcomes(g)
  PROVE  /\ Begun(PlayerGiveUp(g, p, hits))
         /\ PlayStep(g, PlayerGiveUp(g, p, hits))
<1> DEFINE m == GiveUp(g, {p})
           r == FinishStep(m, hits)
<1>1. {p} \in SUBSET (PlayerList(g) \cap Running(g))
  BY DEF CanGiveUp, PlayerList, Running, Terminal
<1>2. /\ Begun(m) /\ PlayStep(g, m) /\ hits \in Outcomes(m)
      /\ m.stage = g.stage /\ m.step = g.step /\ m.winners = g.winners
      /\ \A c \in Computer : Kept(g, m, c)
  BY <1>1, GiveUpBegun
<1>3. PlayerGiveUp(g, p, hits) \in {r, CheckFinish(m)}
  BY DEF PlayerGiveUp
<1> HIDE DEF m
<1>4. Begun(r) /\ PlayStep(m, r) /\ \A q \in Player : Kept(m, r, q)
  BY <1>2, FinishStepBegun
<1> HIDE DEF r
<1>5. PlayStep(g, r)
  BY <1>2, <1>4, ComposeSteps
<1>6. Begun(CheckFinish(m)) /\ PlayStep(g, CheckFinish(m))
  BY <1>2, CheckFinishBegun
<1> QED  BY <1>3, <1>4, <1>5, <1>6

(* Both close a round for all who run in it.                               *)
LEMMA MovesArePunctual ==
  ASSUME NEW g, GoodRound(g), NEW p \in Player, NEW hits \in Outcomes(g)
  PROVE  /\ \A hit \in BOOLEAN :
              CanStep(g, p) => Punctual(g, DoPlayerStep(g, p, hit, hits))
         /\ CanGiveUp(g, p) => Punctual(g, PlayerGiveUp(g, p, hits))
<1>1. ASSUME NEW hit \in BOOLEAN, CanStep(g, p)
      PROVE  Punctual(g, DoPlayerStep(g, p, hit, hits))
  <2> DEFINE m == AppendGameValue(g, p, hit)
             r == FinishStep(m, hits)
  <2>1. Begun(g)
    BY <1>1, InProgressInPlay, GoodIsBegun DEF CanStep, PlayerList, Present, InPlay, GoodRound
  <2>2. /\ PlayStep(g, m) /\ m.stage = g.stage /\ m.step = g.step /\ m.winners = g.winners
        /\ \A c \in Computer : Kept(g, m, c)
    BY <2>1, <1>1, AppendBegun
  <2>3. GoodRound(m) /\ m.stage # "WAIT_A_NUMBER" /\ hits \in Outcomes(m)
    BY <1>1, AppendGood DEF InPlay
  <2> HIDE DEF m
  <2>4. PlayStep(m, r) /\ (\A q \in Player : Kept(m, r, q)) /\ Punctual(m, r)
    BY <2>3, GoodIsBegun, FinishStepBegun, FinishStepPunctual
  <2> HIDE DEF r
  <2>5. Punctual(g, r)
    BY <2>2, <2>4, ComposeSteps
  <2> QED  BY <2>5 DEF DoPlayerStep, m, r
<1>2. ASSUME CanGiveUp(g, p)
      PROVE  Punctual(g, PlayerGiveUp(g, p, hits))
  <2> DEFINE m == GiveUp(g, {p})
             r == FinishStep(m, hits)
  <2>1. Begun(g) /\ {p} \in SUBSET (PlayerList(g) \cap Running(g))
    BY <1>2, InProgressInPlay, GoodIsBegun
    DEF CanGiveUp, PlayerList, Present, Running, Terminal, InPlay, GoodRound
  <2>2. /\ PlayStep(g, m) /\ m.stage = g.stage /\ m.step = g.step /\ m.winners = g.winners
        /\ \A c \in Computer : Kept(g, m, c)
    BY <2>1, GiveUpBegun
  <2>3. GoodRound(m) /\ m.stage # "WAIT_A_NUMBER" /\ hits \in Outcomes(m)
    BY <2>1, GivingUpGood DEF Begun
  <2>4. PlayerGiveUp(g, p, hits) \in {r, CheckFinish(m)}
    BY DEF PlayerGiveUp
  <2> HIDE DEF m
  <2>5. PlayStep(m, r) /\ (\A q \in Player : Kept(m, r, q)) /\ Punctual(m, r)
    BY <2>3, GoodIsBegun, FinishStepBegun, FinishStepPunctual
  <2> HIDE DEF r
  <2>6. Punctual(g, r)
    BY <2>2, <2>5, ComposeSteps
  <2>7. CheckFinish(m).step = m.step
    BY <2>3 DEF CheckFinish, GoodRound, Game
  <2> QED  BY <2>2, <2>4, <2>6, <2>7 DEF Punctual
<1> QED  BY <1>1, <1>2

(* What RESTORE_GAME makes of any report has begun; who still guesses must *)
(* have a secret.                                                          *)
LEMMA RestoreBegun ==
  ASSUME NEW told, DOMAIN told \subseteq Process, DOMAIN told \cap Player # {},
         \A p \in DOMAIN told : told[p].rounds \in Nat,
         NEW s \in Secret \cup {NoSecret}, RestoredStage(told) = "FINISHED" \/ s \in Secret
  PROVE  Begun(RestoreGame(s, told))
<1> DEFINE r == RestoreGame(s, told)
           open == {p \in DOMAIN told : RestoredState(told[p]) = "IN_PROGRESS"}
<1>1. r \in Game /\ Present(r) = DOMAIN told
  BY RestorePresent
<1>2. /\ r.stage = IF open = DOMAIN told THEN "IN_PROGRESS"
                   ELSE IF open = {} THEN "FINISHED" ELSE "IN_PROGRESS_WINNER_DEFINED"
      /\ r.winners = {} /\ r.ready = DOMAIN told \cap Computer
      /\ r.state = [p \in Process |->
                      IF p \in DOMAIN told THEN RestoredState(told[p]) ELSE "ABSENT"]
      /\ r.aim = [p \in Process |-> IF p \in DOMAIN told THEN s ELSE NoSecret]
  BY DEF RestoreGame, RestoredStage
<1> HIDE DEF r
<1>3. \A p \in DOMAIN told : RestoredState(told[p]) \in {"IN_PROGRESS"} \cup Terminal
  BY DEF RestoredState, Terminal
<1>4. \A p \in Process : r.state[p] # "WAIT_A_NUMBER"
  BY <1>2, <1>3 DEF Terminal
<1>5. GoodEnd(r)
  <2>1. r.stage = "FINISHED" => open = {}
    BY <1>2
  <2>2. open = {} => \A p \in DOMAIN told : RestoredState(told[p]) \in Terminal
    BY <1>3
  <2> HIDE DEF open
  <2> QED  BY <1>2, <2>1, <2>2 DEF GoodEnd
<1>6. GoodSecret(r)
  <2>1. ComputerList(r) \subseteq r.ready /\ \A p \in Present(r) : r.aim[p] = s
    BY <1>1, <1>2 DEF ComputerList
  <2>2. InPlay(r) => s \in Secret
    BY DEF InPlay, r, RestoreGame
  <2> QED  BY <2>1, <2>2 DEF GoodSecret
<1>7. r.stage # "WAIT_A_NUMBER"
  BY <1>2
<1>8. Begun(r)
  BY <1>1, <1>2, <1>4, <1>5, <1>6, <1>7 DEF Begun
<1> QED  BY <1>8 DEF r
-----------------------------------------------------------------------------
(* All who still guess are in one band.  A game without a restore is       *)
(* banded by its step counter.                                             *)
LEMMA GoodIsBanded ==
  ASSUME NEW g, GoodRound(g), g.stage # "WAIT_A_NUMBER"
  PROVE  Banded(g)
<1>1. Begun(g) /\ g.step \in Nat /\ \A p \in Process : g.attempts[p] \in Nat
  BY GoodIsBegun DEF GoodRound, Game
<1>2. ASSUME InPlay(g) PROVE Base(g, g.step)
  BY <1>1, <1>2 DEF GoodRound, GoodAttempts, Base
<1> QED  BY <1>1, <1>2 DEF Banded

(* A step of a banded game that leaves the counter and the guesses of all  *)
(* who go on alone leaves the band alone.                                  *)
LEMMA StillBanded ==
  ASSUME NEW g, NEW r, Banded(g), Begun(r), r.step = g.step, InPlay(r) => InPlay(g),
         \A p \in Process : r.state[p] = "IN_PROGRESS" =>
            g.state[p] = "IN_PROGRESS" /\ r.attempts[p] = g.attempts[p]
  PROVE  Banded(r)
BY DEF Banded, Base

(* Closing a round keeps the band: either the counter comes one round      *)
(* nearer and nobody moves, or it has been reached and everybody moves on. *)
LEMMA CloseRoundBase ==
  ASSUME NEW g, Begun(g), NEW hits \in Outcomes(g), UnsteppedPlayers(g) = {},
         NEW b \in Nat, Base(g, b)
  PROVE  LET r == CloseRound(g, hits)
         IN  /\ r.step = g.step + 1
             /\ g.step < b => /\ Base(r, b)
                              /\ \A p \in Process : Kept(g, r, p)
             /\ g.step = b => Base(r, b + 1)
<1> DEFINE r == CloseRound(g, hits)
<1>1. g \in Game /\ hits \in SUBSET Movers(g)
  BY DEF Begun, Outcomes
<1>2. /\ r.step = g.step + 1
      /\ r.attempts = [p \in Process |->
            IF p \in Movers(g) THEN g.attempts[p] + 1 ELSE g.attempts[p]]
      /\ r.state = [p \in Process |->
            IF p \in hits THEN "FINISHED" ELSE g.state[p]]
  BY <1>1, CloseRoundFields
<1> HIDE DEF r
<1>3. \A p \in Movers(g) : /\ p \in Computer /\ p \in Process /\ p \in Running(g)
                           /\ g.state[p] = "IN_PROGRESS" /\ g.attempts[p] = g.step
  BY BegunRunning DEF Movers
<1>4. g.step \in Nat /\ \A p \in Process : g.attempts[p] \in Nat
  BY <1>1 DEF Game
<1>5. ASSUME g.step < b
      PROVE  Base(r, b) /\ \A p \in Process : Kept(g, r, p)
  <2>1. Movers(g) = {}
    BY <1>3, <1>4, <1>5 DEF Base
  <2>2. \A p \in Process : Kept(g, r, p)
    BY <2>1, <1>1, <1>2 DEF Kept
  <2>3. r.step <= b
    BY <1>2, <1>4, <1>5
  <2> QED  BY <2>2, <2>3 DEF Base, Kept
<1>6. ASSUME g.step = b
      PROVE  Base(r, b + 1)
  <2>1. ASSUME NEW p \in Process, r.state[p] = "IN_PROGRESS"
        PROVE  r.attempts[p] = b + 1
    <3>1. CASE p \in Movers(g)
      BY <3>1, <1>2, <1>3, <1>6
    <3>2. CASE p \notin Movers(g)
      <4>1. g.state[p] = "IN_PROGRESS" /\ r.attempts[p] = g.attempts[p]
        BY <2>1, <3>2, <1>1, <1>2
      <4>2. g.state[p] \notin Terminal /\ p \in Present(g)
        BY <4>1 DEF Terminal, Present
      <4>3. p \notin Computer
        BY <3>2, <4>1, <4>2, <1>6 DEF Movers, ComputerList, Base
      <4>4. g.attempts[p] # g.step
        BY <4>2, <4>3 DEF UnsteppedPlayers, UnsteppedAt, PlayerList, Process
      <4> QED  BY <4>1, <4>4, <1>6 DEF Base
    <3> QED  BY <3>1, <3>2
  <2> QED  BY <2>1, <1>2, <1>6 DEF Base
<1> QED  BY <1>2, <1>5, <1>6 DEF r

LEMMA CloseRoundBanded ==
  ASSUME NEW g, Banded(g), NEW hits \in Outcomes(g), UnsteppedPlayers(g) = {}
  PROVE  Banded(CloseRound(g, hits))
<1> DEFINE r == CloseRound(g, hits)
<1>1. Begun(g) /\ Begun(r) /\ PlayStep(g, r)
  BY CloseRoundBegun DEF Banded
<1>2. InPlay(r) => InPlay(g)
  BY <1>1 DEF PlayStep, Begun, Game, GameStage, InPlay
<1>3. ASSUME InPlay(g) PROVE \E d \in Nat : Base(r, d)
  <2>1. PICK b \in Nat : Base(g, b)
    BY <1>3 DEF Banded
  <2>2. g.step < b \/ g.step = b
    BY <1>1, <2>1 DEF Base, Begun, Game
  <2>3. Base(r, b) \/ Base(r, b + 1)
    BY <1>1, <2>1, <2>2, CloseRoundBase
  <2> HIDE DEF r
  <2> QED  BY <2>1, <2>3
<1> HIDE DEF r
<1>4. Banded(r)
  BY <1>1, <1>2, <1>3 DEF Banded
<1> QED  BY <1>4 DEF r

(* Only who is at the counter may guess, and the counter is at the base.   *)
LEMMA AppendBanded ==
  ASSUME NEW g, Banded(g), NEW p \in Player, CanStep(g, p), NEW hit \in BOOLEAN
  PROVE  Banded(AppendGameValue(g, p, hit))
<1> DEFINE m == AppendGameValue(g, p, hit)
<1>1. /\ Begun(m) /\ InPlay(m)
      /\ m.stage = g.stage /\ m.step = g.step
      /\ m.attempts = [g.attempts EXCEPT ![p] = @ + 1]
      /\ \A q \in Process \ {p} : Kept(g, m, q)
  BY AppendBegun DEF Banded
<1> HIDE DEF m
<1>2. /\ p \in Process /\ p \notin Computer /\ g.state[p] = "IN_PROGRESS"
      /\ g.attempts[p] <= g.step
      /\ g.step \in Nat /\ g.attempts \in [Process -> Nat]
  BY ProcessAssumption DEF CanStep, Process, Banded, Begun, Game
<1>3. PICK b \in Nat : Base(g, b)
  BY <1>1 DEF Banded, InPlay
<1>4. g.attempts[p] = b
  BY <1>2, <1>3 DEF Base
<1>5. m.attempts[p] = b + 1
  BY <1>1, <1>2, <1>4
<1>6. Base(m, b)
  BY <1>1, <1>2, <1>3, <1>5 DEF Base, Kept
<1>7. Banded(m)
  BY <1>1, <1>6 DEF Banded
<1> QED  BY <1>7 DEF m

(* Giving up takes nobody out of the band.                                 *)
LEMMA GiveUpBanded ==
  ASSUME NEW g, Banded(g), NEW Q \in SUBSET (PlayerList(g) \cap Running(g))
  PROVE  Banded(GiveUp(g, Q))
<1> DEFINE m == GiveUp(g, Q)
<1>1. /\ Begun(m) /\ m.stage = g.stage /\ m.step = g.step /\ m.attempts = g.attempts
      /\ \A p \in Process : m.state[p] = IF p \in Q THEN "GAVE_UP" ELSE g.state[p]
  BY GiveUpBegun DEF Banded
<1> HIDE DEF m
<1>2. Banded(m)
  BY <1>1, StillBanded DEF InPlay
<1> QED  BY <1>2 DEF m

LEMMA CheckFinishBanded ==
  ASSUME NEW g, Banded(g)
  PROVE  Banded(CheckFinish(g))
<1>1. PlayStep(g, g)
  BY DEF PlayStep, Named, Kept, Banded, Begun
<1>2. Begun(CheckFinish(g))
  BY <1>1, CheckFinishBegun DEF Banded
<1>3. CASE Running(g) = {}
  <2>1. CheckFinish(g) = [g EXCEPT !.stage = "FINISHED"]
    BY <1>3 DEF CheckFinish
  <2>2. CheckFinish(g).stage = "FINISHED"
    BY <2>1 DEF Banded, Begun, Game
  <2> QED  BY <1>2, <2>2 DEF Banded, InPlay
<1>4. CASE Running(g) # {}
  BY <1>4 DEF CheckFinish
<1> QED  BY <1>3, <1>4

LEMMA RemoveBanded ==
  ASSUME NEW g, Banded(g), NEW p \in Process, CanRemove(g, p)
  PROVE  Banded(RemoveProcess(g, p))
BY RemoveBegun DEF Banded, InPlay

LEMMA StartGameBanded ==
  ASSUME NEW g, Banded(g), NEW s \in Secret
  PROVE  Banded(StartGame(g, s))
BY StartGameBegun, StillBanded DEF Banded, SameStepOf, InPlay

LEMMA FinishStepBanded ==
  ASSUME NEW g, Banded(g), NEW hits \in Outcomes(g)
  PROVE  Banded(FinishStep(g, hits))
BY CloseRoundBanded DEF FinishStep

LEMMA DoPlayerStepBanded ==
  ASSUME NEW g, Banded(g), NEW p \in Player, CanStep(g, p),
         NEW hit \in BOOLEAN, NEW hits \in Outcomes(g)
  PROVE  Banded(DoPlayerStep(g, p, hit, hits))
<1>1. hits \in Outcomes(AppendGameValue(g, p, hit))
  BY AppendBegun DEF Banded
<1> QED  BY <1>1, AppendBanded, FinishStepBanded DEF DoPlayerStep

LEMMA PlayerGiveUpBanded ==
  ASSUME NEW g, Banded(g), NEW p \in Player, CanGiveUp(g, p), NEW hits \in Outcomes(g)
  PROVE  Banded(PlayerGiveUp(g, p, hits))
<1>1. {p} \in SUBSET (PlayerList(g) \cap Running(g))
  BY DEF CanGiveUp, PlayerList, Running, Terminal
<1>2. hits \in Outcomes(GiveUp(g, {p})) /\ Banded(GiveUp(g, {p}))
  BY <1>1, GiveUpBegun, GiveUpBanded DEF Banded
<1> QED  BY <1>2, FinishStepBanded, CheckFinishBanded DEF PlayerGiveUp

-----------------------------------------------------------------------------
(* Between two calls a game can be told: not every player is past its base.*)
LEMMA TellableIsBanded ==
  ASSUME NEW g, Tellable(g)
  PROVE  Banded(g)
BY DEF Tellable, Banded

LEMMA EndedIsTellable ==
  ASSUME NEW g, Begun(g), ~InPlay(g)
  PROVE  Tellable(g)
BY DEF Tellable

LEMMA GoodIsTellable ==
  ASSUME NEW g, GoodRound(g), Open(g), g.stage # "WAIT_A_NUMBER"
  PROVE  Tellable(g)
<1>1. /\ Begun(g) /\ g.step \in Nat /\ \A p \in Process : g.attempts[p] \in Nat
      /\ PlayerList(g) \subseteq Process
  BY GoodIsBegun DEF GoodRound, Game, PlayerList, Present
<1>2. ASSUME InPlay(g)  PROVE Base(g, g.step) /\ Level(g, g.step)
  <2>1. Base(g, g.step)
    BY <1>1, <1>2 DEF GoodRound, GoodAttempts, Base
  <2>2. CASE \E p \in PlayerList(g) : g.attempts[p] > g.step
    <3>1. PICK u \in UnsteppedPlayers(g) : TRUE
      BY <1>2, <2>2 DEF Open
    <3>2. u \in PlayerList(g) /\ g.attempts[u] = g.step
      BY <3>1 DEF UnsteppedPlayers, UnsteppedAt
    <3> QED  BY <2>1, <3>2, <1>1 DEF Level
  <2>3. CASE ~\E p \in PlayerList(g) : g.attempts[p] > g.step
    BY <2>1, <2>3, <1>1 DEF Level
  <2> QED  BY <2>2, <2>3
<1> QED  BY <1>1, <1>2 DEF Tellable

(* Closing a round, from any base that some player has not passed or that  *)
(* the counter has come to.                                                *)
LEMMA CloseRoundLevel ==
  ASSUME NEW g, Begun(g), NEW hits \in Outcomes(g), UnsteppedPlayers(g) = {},
         NEW b \in Nat, Base(g, b),
         \/ Level(g, b)
         \/ g.step = b /\ Level(g, b + 1)
  PROVE  Tellable(CloseRound(g, hits))
<1> DEFINE r == CloseRound(g, hits)
<1>1. /\ Begun(r) /\ \A p \in Player : Kept(g, r, p)
      /\ g.step < b => Base(r, b)
      /\ g.step = b => Base(r, b + 1)
  BY CloseRoundBegun, CloseRoundBase
<1> HIDE DEF r
<1>2. /\ g.step \in Nat /\ g.step <= b /\ PlayerList(g) \subseteq Process
      /\ \A p \in Process : g.attempts[p] \in Nat
  BY DEF Base, Begun, Game, PlayerList, Present
<1>3. PlayerList(r) = PlayerList(g) /\ \A p \in PlayerList(g) : r.attempts[p] = g.attempts[p]
  BY <1>1 DEF Kept, PlayerList, Present, Process
<1>4. Level(g, b) => Level(g, b + 1)
  <2> SUFFICES ASSUME Level(g, b), PlayerList(g) # {}
               PROVE  \E p \in PlayerList(g) : g.attempts[p] <= b + 1
    BY DEF Level
  <2>1. PICK p \in PlayerList(g) : g.attempts[p] <= b
    BY DEF Level
  <2>2. g.attempts[p] <= b + 1
    BY <1>2, <2>1
  <2> QED  BY <2>2
<1>5. CASE g.step < b
  <2>1. Level(g, b)
    BY <1>2, <1>5
  <2>2. Base(r, b) /\ Level(r, b)
    BY <1>1, <1>3, <1>5, <2>1 DEF Level
  <2> QED  BY <1>1, <2>2 DEF Tellable, r
<1>6. CASE g.step = b
  <2>1. Base(r, b + 1) /\ Level(r, b + 1)
    BY <1>1, <1>3, <1>4, <1>6 DEF Level
  <2>2. b + 1 \in Nat
    OBVIOUS
  <2> QED  BY <1>1, <2>1, <2>2 DEF Tellable, r
<1> QED  BY <1>2, <1>5, <1>6

LEMMA CloseRoundEnded ==
  ASSUME NEW g, Begun(g), ~InPlay(g), NEW hits \in Outcomes(g)
  PROVE  Tellable(CloseRound(g, hits))
<1>1. Begun(CloseRound(g, hits)) /\ PlayStep(g, CloseRound(g, hits))
  BY CloseRoundBegun
<1>2. ~InPlay(CloseRound(g, hits))
  BY <1>1 DEF PlayStep, Begun, Game, GameStage, InPlay
<1> QED  BY <1>1, <1>2, EndedIsTellable

LEMMA FinishStepTellable ==
  ASSUME NEW g, Tellable(g), NEW hits \in Outcomes(g)
  PROVE  Tellable(FinishStep(g, hits))
<1>1. CASE UnsteppedPlayers(g) # {}
  BY <1>1 DEF FinishStep
<1>2. CASE UnsteppedPlayers(g) = {}
  <2>1. FinishStep(g, hits) = CloseRound(g, hits) /\ Begun(g)
    BY <1>2 DEF FinishStep, Tellable
  <2>2. CASE InPlay(g)
    <3>1. PICK b \in Nat : Base(g, b) /\ Level(g, b)
      BY <2>2 DEF Tellable
    <3> QED  BY <1>2, <2>1, <3>1, CloseRoundLevel
  <2>3. CASE ~InPlay(g)
    BY <2>1, <2>3, CloseRoundEnded
  <2> QED  BY <2>2, <2>3
<1> QED  BY <1>1, <1>2

(* The last player to guess leaves nobody at the base, but closes the      *)
(* round in the same call.                                                 *)
LEMMA DoPlayerStepTellable ==
  ASSUME NEW g, Tellable(g), NEW p \in Player, CanStep(g, p),
         NEW hit \in BOOLEAN, NEW hits \in Outcomes(g)
  PROVE  Tellable(DoPlayerStep(g, p, hit, hits))
<1> DEFINE m == AppendGameValue(g, p, hit)
<1>1. /\ Begun(m) /\ InPlay(m) /\ m.stage = g.stage /\ m.step = g.step
      /\ m.attempts = [g.attempts EXCEPT ![p] = @ + 1]
      /\ \A q \in Process \ {p} : Kept(g, m, q)
      /\ Outcomes(m) = Outcomes(g)
  BY AppendBegun DEF Tellable
<1>2. /\ p \in Process /\ p \notin Computer /\ g.state[p] = "IN_PROGRESS"
      /\ g.attempts[p] <= g.step
      /\ g.step \in Nat /\ g.attempts \in [Process -> Nat]
  BY ProcessAssumption DEF CanStep, Process, Tellable, Begun, Game
<1>3. p \in Present(m) \cap Player
  BY <1>2, AppendPresent DEF CanStep, PlayerList, Tellable, Begun
<1> HIDE DEF m
<1>4. PICK b \in Nat : Base(g, b)
  BY <1>1 DEF Tellable, InPlay
<1>5. g.attempts[p] = b /\ g.step = b
  BY <1>2, <1>4 DEF Base
<1>6. m.attempts[p] = b + 1
  BY <1>1, <1>2, <1>5
<1>7. Base(m, b)
  BY <1>1, <1>2, <1>4, <1>6 DEF Base, Kept
<1>8. CASE UnsteppedPlayers(m) # {}
  <2>1. PICK u \in PlayerList(m) : m.attempts[u] = b
    BY <1>1, <1>5, <1>8 DEF UnsteppedPlayers, UnsteppedAt
  <2>2. Level(m, b)
    BY <2>1 DEF Level
  <2>3. FinishStep(m, hits) = m
    BY <1>8 DEF FinishStep
  <2> QED  BY <1>1, <1>7, <2>2, <2>3 DEF Tellable, DoPlayerStep, m
<1>9. CASE UnsteppedPlayers(m) = {}
  <2>1. p \in PlayerList(m) /\ m.attempts[p] <= b + 1
    BY <1>3, <1>6 DEF PlayerList
  <2>2. Level(m, b + 1)
    BY <2>1 DEF Level
  <2>3. Tellable(CloseRound(m, hits))
    BY <1>1, <1>5, <1>7, <1>9, <2>2, CloseRoundLevel
  <2> QED  BY <1>9, <2>3 DEF FinishStep, DoPlayerStep, m
<1> QED  BY <1>8, <1>9

LEMMA GiveUpTellable ==
  ASSUME NEW g, Tellable(g), NEW Q \in SUBSET (PlayerList(g) \cap Running(g))
  PROVE  Tellable(GiveUp(g, Q))
<1> DEFINE m == GiveUp(g, Q)
<1>1. /\ Begun(m) /\ m.stage = g.stage /\ m.step = g.step /\ m.attempts = g.attempts
      /\ \A p \in Process : m.state[p] = IF p \in Q THEN "GAVE_UP" ELSE g.state[p]
  BY GiveUpBegun DEF Tellable
<1>2. Present(m) = Present(g)
  <2>1. g \in Game /\ Q \in SUBSET Present(g)
    BY DEF Tellable, Begun, PlayerList
  <2> QED  BY <2>1, GiveUpPresent
<1> HIDE DEF m
<1>3. \A b \in Nat : Base(g, b) /\ Level(g, b) => Base(m, b) /\ Level(m, b)
  BY <1>1, <1>2 DEF Base, Level, PlayerList
<1>4. Tellable(m)
  BY <1>1, <1>3 DEF Tellable, InPlay
<1> QED  BY <1>4 DEF m

LEMMA CheckFinishTellable ==
  ASSUME NEW g, Tellable(g)
  PROVE  Tellable(CheckFinish(g))
<1>1. PlayStep(g, g)
  BY DEF PlayStep, Named, Kept, Tellable, Begun
<1>2. Begun(CheckFinish(g))
  BY <1>1, CheckFinishBegun DEF Tellable
<1>3. CASE Running(g) = {}
  <2>1. CheckFinish(g) = [g EXCEPT !.stage = "FINISHED"]
    BY <1>3 DEF CheckFinish
  <2>2. CheckFinish(g).stage = "FINISHED"
    BY <2>1 DEF Tellable, Begun, Game
  <2> QED  BY <1>2, <2>2, EndedIsTellable DEF InPlay
<1>4. CASE Running(g) # {}
  BY <1>4 DEF CheckFinish
<1> QED  BY <1>3, <1>4

LEMMA PlayerGiveUpTellable ==
  ASSUME NEW g, Tellable(g), NEW p \in Player, CanGiveUp(g, p), NEW hits \in Outcomes(g)
  PROVE  Tellable(PlayerGiveUp(g, p, hits))
<1>1. {p} \in SUBSET (PlayerList(g) \cap Running(g))
  BY DEF CanGiveUp, PlayerList, Running, Terminal
<1>2. hits \in Outcomes(GiveUp(g, {p})) /\ Tellable(GiveUp(g, {p}))
  BY <1>1, GiveUpBegun, GiveUpTellable DEF Tellable
<1> QED  BY <1>2, FinishStepTellable, CheckFinishTellable DEF PlayerGiveUp

LEMMA RemoveTellable ==
  ASSUME NEW g, Tellable(g), NEW p \in Process, CanRemove(g, p)
  PROVE  Tellable(RemoveProcess(g, p))
BY RemoveBegun DEF Tellable, InPlay

LEMMA StartGameTellable ==
  ASSUME NEW g, Tellable(g), NEW s \in Secret
  PROVE  Tellable(StartGame(g, s))
<1> DEFINE r == StartGame(g, s)
<1>1. Begun(r) /\ SameStepOf(g, r)
  BY StartGameBegun DEF Tellable
<1> HIDE DEF r
<1>2. \A b \in Nat : Base(g, b) /\ Level(g, b) => Base(r, b) /\ Level(r, b)
  BY <1>1 DEF SameStepOf, Base, Level, PlayerList, Present
<1>3. Tellable(r)
  BY <1>1, <1>2 DEF Tellable, SameStepOf, InPlay
<1> QED  BY <1>3 DEF r

(* What clients are told of a game that can be told is honest: its base,   *)
(* or, if all have left that behind, the next one.                         *)
LEMMA ToldIsHonest ==
  ASSUME NEW g, Tellable(g), CanTell(g)
  PROVE  Honest(Told(g))
<1> DEFINE told == Told(g)
<1>1. /\ Present(g) \subseteq Process
      /\ \A q \in Process : g.attempts[q] \in Nat
      /\ PlayerList(g) = Present(g) \cap Player /\ PlayerList(g) # {}
  BY DEF Tellable, Begun, Game, Present, PlayerList, CanTell
<1>2. /\ DOMAIN told = Present(g)
      /\ \A q \in Present(g) : told[q].rounds = g.attempts[q]
      /\ \A q \in Present(g) : RestoredState(told[q]) = "IN_PROGRESS" => q \in Running(g)
  BY DEF Told, RestoredState, Running, Terminal
<1> HIDE DEF told
<1>3. ASSUME NEW b \in Nat, \E q \in Present(g) : g.attempts[q] = b,
             \E q \in PlayerList(g) : g.attempts[q] <= b,
             \A q \in Running(g) : /\ g.attempts[q] \in {b, b + 1}
                                   /\ q \in Computer => g.attempts[q] = b
      PROVE  Honest(told)
  <2>1. b \in {told[q].rounds : q \in DOMAIN told}
    BY <1>2, <1>3
  <2>2. \E q \in DOMAIN told \cap Player : told[q].rounds <= b
    BY <1>1, <1>2, <1>3
  <2>3. \A q \in DOMAIN told : RestoredState(told[q]) = "IN_PROGRESS" =>
          /\ told[q].rounds \in {b, b + 1}
          /\ q \in Computer => told[q].rounds = b
    BY <1>2, <1>3
  <2> QED  BY <2>1, <2>2, <2>3 DEF Honest
<1>4. CASE Running(g) = {}
  <2>1. PICK q \in PlayerList(g) : q \in Present(g) /\ g.attempts[q] \in Nat
    BY <1>1
  <2>2. g.attempts[q] <= g.attempts[q]
    BY <2>1
  <2> QED  BY <1>3, <1>4, <2>1, <2>2 DEF told
<1>5. CASE Running(g) # {}
  <2>1. Begun(g) /\ Running(g) \subseteq Present(g)
    BY DEF Tellable, Running
  <2>2. \A q \in Running(g) : q \in Process /\ g.state[q] = "IN_PROGRESS"
    BY <2>1, BegunRunning
  <2>3. InPlay(g)
    BY <1>5, <2>1, <2>2, BegunInPlay
  <2>4. PICK b \in Nat : Base(g, b) /\ Level(g, b)
    BY <2>3 DEF Tellable
  <2>5. \A q \in Running(g) : /\ g.attempts[q] \in {b, b + 1}
                              /\ q \in Computer => g.attempts[q] = b
    BY <2>2, <2>4 DEF Base
  <2>6. CASE \E q \in Running(g) : g.attempts[q] = b
    <3>1. (\E q \in Present(g) : g.attempts[q] = b) /\ \E q \in PlayerList(g) : g.attempts[q] <= b
      BY <1>1, <2>1, <2>4, <2>6 DEF Level
    <3> QED  BY <1>3, <2>5, <3>1 DEF told
  <2>7. CASE ~\E q \in Running(g) : g.attempts[q] = b
    <3>1. \A q \in Running(g) : g.attempts[q] = b + 1 /\ q \notin Computer
      BY <2>5, <2>7
    <3>2. PICK c \in Running(g) : TRUE
      BY <1>5
    <3>3. c \in Present(g) /\ c \in PlayerList(g) /\ g.attempts[c] = b + 1
      BY <1>1, <2>1, <2>2, <3>1, <3>2 DEF Process
    <3>4. b + 1 \in Nat /\ g.attempts[c] <= b + 1
      BY <3>3
    <3> QED  BY <1>3, <3>1, <3>3, <3>4 DEF told
  <2> QED  BY <2>6, <2>7
<1> QED  BY <1>4, <1>5

(* An honest report restores to a game that can be told again: a player    *)
(* that has not left the round of the report keeps the counter from        *)
(* passing it.                                                             *)
LEMMA RestoreTellable ==
  ASSUME NEW told, DOMAIN told \subseteq Process, DOMAIN told \cap Player # {},
         \A p \in DOMAIN told : told[p].rounds \in Nat, Honest(told),
         NEW s \in Secret \cup {NoSecret}, RestoredStage(told) = "FINISHED" \/ s \in Secret
  PROVE  Tellable(RestoreGame(s, told))
<1> DEFINE r == RestoreGame(s, told)
<1>1. Begun(r)
  BY RestoreBegun
<1>2. /\ r.step = RestoredStep(told)
      /\ r.state = [p \in Process |->
                      IF p \in DOMAIN told THEN RestoredState(told[p]) ELSE "ABSENT"]
      /\ r.attempts = [p \in Process |-> IF p \in DOMAIN told THEN told[p].rounds ELSE 0]
  BY DEF RestoreGame
<1> HIDE DEF r
<1>3. PICK b \in {told[p].rounds : p \in DOMAIN told} :
         /\ \E p \in DOMAIN told \cap Player : told[p].rounds <= b
         /\ \A p \in DOMAIN told : RestoredState(told[p]) = "IN_PROGRESS" =>
              /\ told[p].rounds \in {b, b + 1}
              /\ p \in Computer => told[p].rounds = b
  BY DEF Honest
<1>4. b \in Nat
  BY <1>3
<1>5. RestoredStep(told) \in Nat /\ RestoredStep(told) <= b
  BY <1>3, <1>4, LeastRestored
<1>6. \A p \in Process : r.state[p] = "IN_PROGRESS" =>
         /\ r.attempts[p] \in {b, b + 1}
         /\ p \in Computer => r.attempts[p] = b
  BY <1>2, <1>3
<1>7. Base(r, b)
  BY <1>2, <1>4, <1>5, <1>6 DEF Base
<1>8. PICK p \in DOMAIN told \cap Player : told[p].rounds <= b
  BY <1>3
<1>9. p \in PlayerList(r) /\ r.attempts[p] <= b
  BY <1>2, <1>8 DEF PlayerList, Present, RestoredState
<1>10. Level(r, b)
  BY <1>9 DEF Level
<1>11. Tellable(r)
  BY <1>1, <1>4, <1>7, <1>10 DEF Tellable
<1> QED  BY <1>11 DEF r

LEMMA RestoreBanded ==
  ASSUME NEW told, DOMAIN told \subseteq Process, DOMAIN told \cap Player # {},
         \A p \in DOMAIN told : told[p].rounds \in Nat, Honest(told),
         NEW s \in Secret \cup {NoSecret}, RestoredStage(told) = "FINISHED" \/ s \in Secret
  PROVE  Banded(RestoreGame(s, told))
BY RestoreTellable, TellableIsBanded
-----------------------------------------------------------------------------
(* The loop of FinishGame.                                                 *)

(* The rounds left, when the computers that still guess have made b.       *)
LEMMA RoundsLeftOf ==
  ASSUME NEW g, g.stage # "FINISHED", Running(g) # {}, NEW b,
         \A p \in Running(g) : g.attempts[p] = b
  PROVE  RoundsLeft(g) = 1 + (IF b < GuessBound THEN GuessBound ELSE b + 1) - g.step
<1> DEFINE M == {g.attempts[p] : p \in Running(g)}
<1>1. M = {b}
  OBVIOUS
<1>2. (CHOOSE n \in M : TRUE) = b
  BY <1>1
<1> QED  BY <1>2 DEF RoundsLeft

(* Closing a round when no player is left: the counter comes nearer to the *)
(* computers or takes them along, and who has made its last guess is done. *)
LEMMA LoopAdvances ==
  ASSUME NEW g, Banded(g), g.stage # "FINISHED", PlayerList(g) \cap Running(g) = {},
         NEW hits \in Outcomes(g)
  PROVE  LET r == FinishStep(g, hits)
         IN  /\ Banded(r)
             /\ PlayerList(r) \cap Running(r) = {}
             /\ RoundsLeft(r) \in 0 .. RoundsLeft(g) - 1
<1> DEFINE r == CloseRound(g, hits)
<1>1. UnsteppedPlayers(g) = {}
  BY DEF UnsteppedPlayers, UnsteppedAt, Running, PlayerList
<1>2. FinishStep(g, hits) = r
  BY <1>1 DEF FinishStep
<1>3. Begun(g) /\ Banded(r) /\ g \in Game
  BY <1>1, CloseRoundBanded DEF Banded, Begun
<1>4. Begun(r) /\ PlayStep(g, r) /\ \A p \in Player : Kept(g, r, p)
  BY <1>3, CloseRoundBegun
<1>5. /\ r.step = g.step + 1
      /\ r.attempts = [p \in Process |->
            IF p \in Movers(g) THEN g.attempts[p] + 1 ELSE g.attempts[p]]
      /\ r.state = [p \in Process |-> IF p \in hits THEN "FINISHED" ELSE g.state[p]]
      /\ (\A p \in Process : r.state[p] \in Terminal \cup {"ABSENT"}) => r.stage = "FINISHED"
  BY <1>3, CloseRoundFields DEF Outcomes
<1> HIDE DEF r
<1>6. PlayerList(r) \cap Running(r) = {}
  BY <1>4 DEF PlayerList, Running, Present, Kept
<1>7. /\ \A p \in Running(g) : p \in Computer /\ p \in Process /\ p \in Present(g)
                               /\ g.state[p] = "IN_PROGRESS"
      /\ hits \subseteq Movers(g)
  BY <1>3, BegunRunning DEF PlayerList, Process, Outcomes
<1>8. GuessBound \in Nat \ {0} /\ g.step \in Nat
  BY <1>3, BoundAssumption DEF Game
<1>9. r.stage = "FINISHED" => RoundsLeft(r) = 0
  BY DEF RoundsLeft
<1>10. CASE Running(g) = {}
  <2>1. RoundsLeft(g) = 1
    BY <1>10 DEF RoundsLeft
  <2>2. \A p \in Process : r.state[p] \in Terminal \cup {"ABSENT"}
    BY <1>10, <1>5 DEF Running, Present, Terminal
  <2> QED  BY <2>1, <2>2, <1>2, <1>3, <1>5, <1>6, <1>9
<1>11. CASE Running(g) # {}
  <2>1. PICK b \in Nat : Base(g, b)
    <3>1. InPlay(g)
      BY <1>3, <1>7, <1>11, BegunInPlay
    <3> QED  BY <3>1 DEF Banded
  <2>2. /\ \A p \in Running(g) : g.attempts[p] = b
        /\ g.step <= b
    BY <1>7, <2>1 DEF Base
  <2> DEFINE last == IF b < GuessBound THEN GuessBound ELSE b + 1
  <2>3. RoundsLeft(g) = 1 + last - g.step /\ last \in Nat /\ last > b
    BY <1>8, <1>11, <2>2, RoundsLeftOf
  <2> HIDE DEF last
  <2>4. RoundsLeft(g) \in Nat /\ RoundsLeft(g) > 1
    BY <2>1, <2>2, <2>3, <1>8
  <2>5. \A p \in Running(r) : p \in Running(g)
    BY <1>5 DEF Running, Present, Terminal
  <2>6. CASE r.stage = "FINISHED"
    BY <2>4, <2>6, <1>2, <1>3, <1>6, <1>9
  <2>7. CASE r.stage # "FINISHED" /\ Running(r) = {}
    <3>1. RoundsLeft(r) = 1
      BY <2>7 DEF RoundsLeft
    <3> QED  BY <3>1, <2>4, <1>2, <1>3, <1>6
  <2>8. CASE r.stage # "FINISHED" /\ Running(r) # {}
    <3>1. CASE g.step < b
      <4>1. \A p \in Process : Kept(g, r, p)
        BY <3>1, <2>1, <1>1, <1>3, CloseRoundBase DEF r
      <4>2. \A p \in Running(r) : r.attempts[p] = b
        BY <4>1, <2>2, <2>5, <1>7 DEF Kept
      <4>3. RoundsLeft(r) = 1 + last - r.step
        BY <4>2, <2>8, RoundsLeftOf DEF last
      <4>4. RoundsLeft(r) \in 0 .. RoundsLeft(g) - 1
        BY <4>3, <2>1, <2>2, <2>3, <3>1, <1>5, <1>8
      <4> QED  BY <4>4, <1>2, <1>3, <1>6
    <3>2. CASE g.step = b
      <4>1. \A p \in Running(g) : p \in Movers(g)
        BY <3>2, <2>2, <1>7 DEF Running, Movers, ComputerList
      <4>2. b + 1 < GuessBound
        <5> SUFFICES ASSUME b + 1 >= GuessBound  PROVE FALSE
          BY <1>8, <2>1
        <5>1. \A p \in Running(g) : p \in hits
          BY <4>1, <2>2 DEF Outcomes
        <5>2. \A p \in Running(r) : r.state[p] = "FINISHED"
          BY <5>1, <2>5, <1>5, <1>7
        <5> QED  BY <5>2, <2>8 DEF Running, Terminal
      <4>3. \A p \in Running(r) : r.attempts[p] = b + 1
        BY <4>1, <2>2, <2>5, <1>5, <1>7
      <4>4. RoundsLeft(r) = 1 + GuessBound - r.step /\ RoundsLeft(g) = 1 + GuessBound - g.step
        BY <4>2, <4>3, <2>1, <2>3, <2>8, <1>8, RoundsLeftOf DEF last
      <4>5. RoundsLeft(r) \in 0 .. RoundsLeft(g) - 1
        BY <4>2, <4>4, <3>2, <2>1, <1>5, <1>8
      <4> QED  BY <4>5, <1>2, <1>3, <1>6
    <3> QED  BY <3>1, <3>2, <2>1, <2>2, <1>8
  <2> QED  BY <2>6, <2>7, <2>8
<1> QED  BY <1>10, <1>11

(* The loop is never stuck: some outcome of the next guesses is possible.  *)
LEMMA OutcomesExist == ASSUME NEW g  PROVE Movers(g) \in Outcomes(g)
BY DEF Outcomes
=============================================================================
