---------------------------- MODULE GameViewProofs ----------------------------
(***************************************************************************)
(* Proofs about the desktop game, for every capacity of the lists, every   *)
(* GuessBound, every set of secrets and brains and every number of rows:   *)
(* IInv of GameView is inductive, so the controls fit the game, the tables *)
(* tell it, and the window breaks in the three ways of BreaksOnlyThen.     *)
(***************************************************************************)
EXTENDS GameView, GameOpsProofs

-----------------------------------------------------------------------------
(* The two processes, and what each mode asks for.                         *)
LEMMA TwoProcesses ==
  /\ Process = {Me, It} /\ Me # It
  /\ Me \in Player /\ It \in Computer /\ Me \notin Computer /\ It \notin Player
BY ViewAssumption, ProcessAssumption DEF Process

LEMMA ModesAskFor ==
  /\ Wanted("PLAYER") = {Me} /\ Wanted("COMPUTER") = {It}
  /\ Wanted("PLAYER_VS_COMPUTER") = {Me, It}
BY DEF Wanted

(* In the lists of a game there is at most the one process each is for.    *)
LEMMA ListsOfTwo ==
  ASSUME NEW g \in Game
  PROVE  /\ Present(g) \subseteq {Me, It}
         /\ Me \notin Present(g) => PlayerList(g) = {} /\ Cardinality(PlayerList(g)) = 0
         /\ It \notin Present(g) => ComputerList(g) = {} /\ Cardinality(ComputerList(g)) = 0
<1>1. Present(g) \subseteq {Me, It}
  BY TwoProcesses DEF Present
<1>2. Me \notin Present(g) => PlayerList(g) = {}
  BY ViewAssumption DEF PlayerList
<1>3. It \notin Present(g) => ComputerList(g) = {}
  BY ViewAssumption DEF ComputerList
<1> QED  BY <1>1, <1>2, <1>3, FS_EmptySet

-----------------------------------------------------------------------------
(* A game that has been initialised is in no stage of play, and neither is *)
(* what the list operations make of it.                                    *)
LEMMA InitGameStage ==
  ASSUME NEW g \in Game
  PROVE  /\ InitGame(g).stage = "WAIT_A_NUMBER"
         /\ InitGame(g).state = [p \in Process |->
               IF p \in Present(g) THEN "WAIT_A_NUMBER" ELSE "ABSENT"]
         /\ InitGame(g).attempts = [p \in Process |-> 0]
         /\ InitGame(g).step = 0
         /\ InitGame(g).winners = {}
<1> DEFINE S == [p \in Process |-> IF p \in Present(g) THEN "WAIT_A_NUMBER" ELSE "ABSENT"]
           A == [p \in Process |-> 0]
<1>1. InitGame(g) = [g EXCEPT !.stage = "WAIT_A_NUMBER", !.step = 0, !.winners = {},
                    !.secret = NoSecret, !.state = S, !.attempts = A,
                    !.ready = ComputerList(g)]
  BY DEF InitGame
<1> HIDE DEF S, A
<1>2. /\ InitGame(g).stage = "WAIT_A_NUMBER" /\ InitGame(g).state = S
      /\ InitGame(g).attempts = A /\ InitGame(g).step = 0 /\ InitGame(g).winners = {}
  BY <1>1 DEF Game
<1> QED  BY <1>2 DEF S, A

LEMMA ListOpsStage ==
  ASSUME NEW g \in Game
  PROVE  /\ \A p \in Process : /\ AddPlayer(g, p).stage = g.stage
                              /\ AddComputer(g, p).stage = g.stage
                              /\ RemoveProcess(g, p).stage = g.stage
                              /\ SwitchGameBrain(g, p).stage = g.stage
BY DEF Game, AddPlayer, AddComputer, RemoveProcess, SwitchGameBrain

(* A game that has just been started.                                      *)
LEMMA StartedGame ==
  ASSUME NEW g \in Game, NEW s \in Secret
  PROVE  LET r == StartGame(InitGame(g), s)
         IN  /\ r \in Game /\ Present(r) = Present(g)
             /\ r.stage = "IN_PROGRESS" /\ r.step = 0 /\ r.winners = {}
             /\ r.attempts = [p \in Process |-> 0]
             /\ \A p \in Present(g) : r.state[p] = "IN_PROGRESS"
<1> DEFINE i == InitGame(g)
           r == StartGame(i, s)
           S == [p \in Process |-> IF p \in Present(i) THEN "IN_PROGRESS" ELSE "ABSENT"]
           A == [p \in Process |-> IF p \in Present(i) THEN s ELSE i.aim[p]]
<1>1. /\ i \in Game /\ Present(i) = Present(g) /\ i.stage = "WAIT_A_NUMBER"
      /\ i.step = 0 /\ i.winners = {} /\ i.attempts = [p \in Process |-> 0]
  BY InitGamePresent, InitGameStage
<1> HIDE DEF i
<1>2. r \in Game /\ Present(r) = Present(i)
  BY <1>1, StartGamePresent
<1>3. r = [i EXCEPT !.secret = s, !.stage = "IN_PROGRESS", !.state = S, !.aim = A]
  BY <1>1 DEF StartGame
<1> HIDE DEF S, A, r
<1>4. /\ r.stage = "IN_PROGRESS" /\ r.step = 0 /\ r.winners = {}
      /\ r.attempts = [p \in Process |-> 0] /\ r.state = S
  BY <1>1, <1>3 DEF Game
<1>5. \A p \in Present(g) : S[p] = "IN_PROGRESS"
  BY <1>1 DEF S, Present
<1> QED  BY <1>1, <1>2, <1>4, <1>5 DEF r, i

-----------------------------------------------------------------------------
(* A round from old to g: whoever still guesses has made one guess more,   *)
(* which may have hit; stage and winners follow.                           *)
Round(old, g) ==
  LET now  == {p \in Process : g.state[p] = "FINISHED" /\ g.attempts[p] = g.step}
      done == \A p \in Process : g.state[p] \in Terminal \cup {"ABSENT"}
  IN  /\ g \in Game
      /\ g.step = old.step + 1
      /\ \A p \in Process :
           IF old.state[p] = "IN_PROGRESS"
           THEN g.attempts[p] = g.step /\ g.state[p] \in {"IN_PROGRESS", "FINISHED"}
           ELSE g.attempts[p] = old.attempts[p] /\ g.state[p] = old.state[p]
      /\ g.winners = IF old.stage = "IN_PROGRESS" /\ now # {} THEN now ELSE old.winners
      /\ g.stage = IF done THEN "FINISHED"
                   ELSE IF old.stage = "IN_PROGRESS" /\ now # {}
                   THEN "IN_PROGRESS_WINNER_DEFINED" ELSE old.stage

(* FinishStep when no player is awaited: the computer makes the round.     *)
LEMMA ComputerRound ==
  ASSUME NEW g \in Game, NEW hits \in Outcomes(g), UnsteppedPlayers(g) = {},
         \A p \in Player : g.state[p] # "IN_PROGRESS",
         \A p \in Process : g.state[p] = "IN_PROGRESS" => g.attempts[p] = g.step,
         \A p \in Process : g.state[p] # "WAIT_A_NUMBER"
  PROVE  Round(g, FinishStep(g, hits))
<1>1. FinishStep(g, hits) = CloseRound(g, hits)
  BY DEF FinishStep
<1>2. hits \in SUBSET Movers(g)
  BY DEF Outcomes
<1>3. Movers(g) = {p \in Process : g.state[p] = "IN_PROGRESS"}
  BY DEF Movers, ComputerList, Present, Process, Terminal, Game, ProcessState
<1> DEFINE r == CloseRound(g, hits)
<1>4. LET now == {p \in Process : r.state[p] = "FINISHED" /\ r.attempts[p] = g.step + 1}
          done == \A p \in Process : r.state[p] \in Terminal \cup {"ABSENT"}
      IN  /\ r \in Game
          /\ r.step = g.step + 1
          /\ r.attempts = [p \in Process |->
                IF p \in Movers(g) THEN g.attempts[p] + 1 ELSE g.attempts[p]]
          /\ r.state = [p \in Process |-> IF p \in hits THEN "FINISHED" ELSE g.state[p]]
          /\ r.winners = IF g.stage = "IN_PROGRESS" /\ now # {} THEN now ELSE g.winners
          /\ r.stage = IF done THEN "FINISHED"
                       ELSE IF g.stage = "IN_PROGRESS" /\ now # {}
                       THEN "IN_PROGRESS_WINNER_DEFINED" ELSE g.stage
  BY <1>2, CloseRoundFields
<1> HIDE DEF r
<1>5. ASSUME NEW p \in Process
      PROVE  IF g.state[p] = "IN_PROGRESS"
             THEN r.attempts[p] = r.step /\ r.state[p] \in {"IN_PROGRESS", "FINISHED"}
             ELSE r.attempts[p] = g.attempts[p] /\ r.state[p] = g.state[p]
  BY <1>2, <1>3, <1>4
<1>6. Round(g, r)
  BY <1>4, <1>5 DEF Round
<1> QED  BY <1>1, <1>6 DEF r

(* DoPlayerStep of the one player: its guess is the last that the round    *)
(* waits for, and the computer follows.                                    *)
LEMMA PlayerRound ==
  ASSUME NEW g \in Game, NEW hit \in BOOLEAN, NEW hits \in Outcomes(g),
         g.state[Me] = "IN_PROGRESS",
         \A p \in Process : g.state[p] = "IN_PROGRESS" => g.attempts[p] = g.step,
         \A p \in Process : g.state[p] # "WAIT_A_NUMBER"
  PROVE  Round(g, DoPlayerStep(g, Me, hit, hits))
<1> DEFINE S == [g.state EXCEPT ![Me] = IF hit THEN "FINISHED" ELSE @]
           A == [g.attempts EXCEPT ![Me] = @ + 1]
           m == AppendGameValue(g, Me, hit)
<1>1. Me \in Process /\ Me \in Present(g)
  BY TwoProcesses DEF Present
<1>2. m \in Game
  BY <1>1, AppendPresent
<1>3. m = [g EXCEPT !.attempts = A, !.state = S]
  BY DEF AppendGameValue
<1> HIDE DEF S, A, m
<1>4. /\ m.attempts = A /\ m.state = S
      /\ m.step = g.step /\ m.stage = g.stage /\ m.winners = g.winners
  BY <1>3 DEF Game
<1>5. /\ A[Me] = g.step + 1 /\ A[It] = g.attempts[It]
      /\ S[Me] \in {"IN_PROGRESS", "FINISHED"} /\ S[It] = g.state[It]
  BY <1>1, TwoProcesses DEF A, S, Game
<1>6. UnsteppedPlayers(m) = {}
  <2>1. g.step \in Nat
    BY DEF Game
  <2> QED  BY <1>4, <1>5, <2>1, ViewAssumption DEF UnsteppedPlayers, UnsteppedAt, PlayerList
<1>7. Movers(m) = Movers(g)
  BY <1>4, <1>5, TwoProcesses, ViewAssumption DEF Movers, ComputerList, Present
<1>8. hits \in SUBSET Movers(m)
  BY <1>7 DEF Outcomes
<1> DEFINE r == CloseRound(m, hits)
<1>9. LET now == {p \in Process : r.state[p] = "FINISHED" /\ r.attempts[p] = m.step + 1}
          done == \A p \in Process : r.state[p] \in Terminal \cup {"ABSENT"}
      IN  /\ r \in Game
          /\ r.step = m.step + 1
          /\ r.attempts = [p \in Process |->
                IF p \in Movers(m) THEN m.attempts[p] + 1 ELSE m.attempts[p]]
          /\ r.state = [p \in Process |-> IF p \in hits THEN "FINISHED" ELSE m.state[p]]
          /\ r.winners = IF m.stage = "IN_PROGRESS" /\ now # {} THEN now ELSE m.winners
          /\ r.stage = IF done THEN "FINISHED"
                       ELSE IF m.stage = "IN_PROGRESS" /\ now # {}
                       THEN "IN_PROGRESS_WINNER_DEFINED" ELSE m.stage
  BY <1>2, <1>8, CloseRoundFields
<1> HIDE DEF r
<1>10. DoPlayerStep(g, Me, hit, hits) = r
  BY <1>6 DEF DoPlayerStep, FinishStep, m, r
<1>11. /\ Me \notin Movers(g)
       /\ It \in Movers(g) <=> g.state[It] = "IN_PROGRESS"
  BY TwoProcesses DEF Movers, ComputerList, Present, Terminal, Game, ProcessState
<1>12. ASSUME NEW p \in Process
       PROVE  IF g.state[p] = "IN_PROGRESS"
              THEN r.attempts[p] = r.step /\ r.state[p] \in {"IN_PROGRESS", "FINISHED"}
              ELSE r.attempts[p] = g.attempts[p] /\ r.state[p] = g.state[p]
  <2>1. CASE p = Me
    BY <1>4, <1>5, <1>7, <1>8, <1>9, <1>11, <2>1
  <2>2. CASE p = It
    BY <1>4, <1>5, <1>7, <1>8, <1>9, <1>11, <2>2
  <2> QED  BY <2>1, <2>2, TwoProcesses
<1>13. Round(g, r)
  BY <1>4, <1>9, <1>12 DEF Round
<1> QED  BY <1>10, <1>13

-----------------------------------------------------------------------------
(* What the window shows of a round.                                       *)
Window == [rows : [Process -> Nat], broken : {"no", "exception", "null"}]
Result == [step : Nat, value : BOOLEAN, finished : BOOLEAN]

LEMMA StepResultFields ==
  ASSUME NEW g \in Game, NEW p \in Process, g.state[p] # "ABSENT"
  PROVE  LET r == StepResult(g, p, g.step)
         IN  /\ r \in Result
             /\ g.step <= g.attempts[p] =>
                  /\ r.value /\ r.step = g.step
                  /\ r.finished <=> g.state[p] \in Terminal /\ g.step = g.attempts[p]
             /\ g.step > g.attempts[p] =>
                  /\ ~r.value /\ r.step = g.attempts[p]
                  /\ r.finished <=> g.state[p] \in Terminal
<1> DEFINE guessed == g.step <= g.attempts[p]
           done == g.state[p] \in Terminal /\ (guessed => g.step = g.attempts[p])
           r == StepResult(g, p, g.step)
<1>1. g.step \in Nat /\ g.attempts[p] \in Nat
  BY DEF Game
<1>2. r = [step |-> IF guessed THEN g.step ELSE g.attempts[p],
           value |-> guessed, finished |-> done]
  BY DEF StepResult
<1>3. guessed \in BOOLEAN /\ done \in BOOLEAN
  OBVIOUS
<1>4. /\ guessed <=> g.step <= g.attempts[p]
      /\ g.step > g.attempts[p] <=> ~guessed
      /\ guessed => (done <=> g.state[p] \in Terminal /\ g.step = g.attempts[p])
      /\ ~guessed => (done <=> g.state[p] \in Terminal)
  BY <1>1
<1> HIDE DEF guessed, done, r
<1>5. /\ r \in Result
      /\ r.step = IF guessed THEN g.step ELSE g.attempts[p]
      /\ r.value = guessed /\ r.finished = done
  BY <1>1, <1>2, <1>3 DEF Result
<1>6. CASE guessed
  <2>1. r.value /\ r.step = g.step
    BY <1>5, <1>6
  <2>2. r.finished <=> g.state[p] \in Terminal /\ g.step = g.attempts[p]
    BY <1>4, <1>5, <1>6
  <2> QED  BY <1>4, <1>5, <1>6, <2>1, <2>2 DEF r
<1>7. CASE ~guessed
  <2>1. ~r.value /\ r.step = g.attempts[p]
    BY <1>5, <1>7
  <2>2. r.finished <=> g.state[p] \in Terminal
    BY <1>4, <1>5, <1>7
  <2> QED  BY <1>4, <1>5, <1>7, <2>1, <2>2 DEF r
<1> QED  BY <1>6, <1>7

LEMMA ShowFields ==
  ASSUME NEW w \in Window, w.broken = "no", NEW p \in Process, NEW r \in Result
  PROVE  LET n == RowsAfter(p, w.rows[p], r)
             v == Show(w, p, r)
         IN  /\ v \in Window
             /\ ~r.value /\ ReadsValue(p) => v.broken = "exception"
             /\ r.value \/ ~ReadsValue(p) =>
                  /\ v.rows = [w.rows EXCEPT ![p] = n]
                  /\ v.broken = IF r.finished /\ r.step - 1 \notin 0 .. n - 1
                                THEN "null" ELSE "no"
<1> DEFINE n == RowsAfter(p, w.rows[p], r)
           v == Show(w, p, r)
           b == IF r.finished /\ r.step - 1 \notin 0 .. n - 1 THEN "null" ELSE "no"
<1>1. w.rows[p] \in Nat
  BY DEF Window
<1>2. n \in Nat
  BY <1>1 DEF RowsAfter
<1>3. v = IF ~r.value /\ ReadsValue(p) THEN [w EXCEPT !.broken = "exception"]
          ELSE [w EXCEPT !.rows[p] = n, !.broken = b]
  BY DEF Show
<1>4. b \in {"null", "no"}
  OBVIOUS
<1> HIDE DEF n, b, v
<1>5. CASE ~r.value /\ ReadsValue(p)
  <2>1. v = [w EXCEPT !.broken = "exception"]
    BY <1>3, <1>5
  <2>2. v \in Window /\ v.broken = "exception"
    BY <2>1 DEF Window
  <2> QED  BY <1>5, <2>2 DEF v
<1>6. CASE r.value \/ ~ReadsValue(p)
  <2>1. v = [w EXCEPT !.rows[p] = n, !.broken = b]
    BY <1>3, <1>6
  <2>2. v \in Window /\ v.rows = [w.rows EXCEPT ![p] = n] /\ v.broken = b
    BY <1>2, <1>4, <2>1 DEF Window
  <2>3. ~(~r.value /\ ReadsValue(p))
    BY <1>6
  <2> QED  BY <2>2, <2>3 DEF v, n, b
<1> QED  BY <1>5, <1>6

(* The rows that a number of guesses fills.                                *)
RowsFor(p, guesses) == IF p = It /\ guesses > HistoryRows THEN HistoryRows ELSE guesses

(* A process that has guessed in the round gets a row, or has its last one *)
(* written anew; only a hit of the computer on a row beyond the last ends  *)
(* the window.                                                             *)
LEMMA GuesserShown ==
  ASSUME NEW w \in Window, w.broken = "no", NEW p \in Process, NEW g \in Game,
         NEW a \in Nat, w.rows[p] = RowsFor(p, a), g.step = a + 1,
         g.attempts[p] = g.step, g.state[p] \in {"IN_PROGRESS", "FINISHED"}
  PROVE  LET v == Show(w, p, StepResult(g, p, g.step))
         IN  /\ v \in Window
             /\ v.rows = [w.rows EXCEPT ![p] = RowsFor(p, g.step)]
             /\ v.broken = IF g.state[p] = "FINISHED" /\ p = It /\ g.step > HistoryRows
                           THEN "null" ELSE "no"
<1> DEFINE r == StepResult(g, p, g.step)
           n == RowsAfter(p, w.rows[p], r)
<1>1. /\ r \in Result /\ r.value /\ r.step = g.step
      /\ r.finished <=> g.state[p] = "FINISHED"
  <2>1. g.step \in Nat
    OBVIOUS
  <2>2. g.state[p] # "ABSENT" /\ (g.state[p] \in Terminal <=> g.state[p] = "FINISHED")
    BY DEF Terminal
  <2> QED  BY <2>1, <2>2, StepResultFields
<1> HIDE DEF r
<1>2. n = RowsFor(p, g.step)
  BY <1>1, ViewAssumption DEF RowsAfter, RowsFor
<1>3. r.step - 1 \notin 0 .. n - 1 <=> p = It /\ g.step > HistoryRows
  BY <1>1, <1>2, ViewAssumption DEF RowsFor
<1> HIDE DEF n
<1>4. LET v == Show(w, p, r)
      IN  /\ v \in Window
          /\ v.rows = [w.rows EXCEPT ![p] = n]
          /\ v.broken = IF r.finished /\ r.step - 1 \notin 0 .. n - 1 THEN "null" ELSE "no"
  BY <1>1, ShowFields DEF n
<1> QED  BY <1>1, <1>2, <1>3, <1>4 DEF r

(* A computer that has hit before, on a row of the table, ends nothing.    *)
LEMMA ComputerDoneShown ==
  ASSUME NEW w \in Window, w.broken = "no", NEW g \in Game,
         mode = "PLAYER_VS_COMPUTER", g.state[It] = "FINISHED",
         g.attempts[It] < g.step, g.attempts[It] \in 1 .. HistoryRows,
         g.attempts[It] <= w.rows[It]
  PROVE  LET v == Show(w, It, StepResult(g, It, g.step))
         IN  /\ v \in Window
             /\ v.rows[Me] = w.rows[Me] /\ v.rows[It] >= g.attempts[It]
             /\ v.broken = "no"
<1> DEFINE r == StepResult(g, It, g.step)
           n == RowsAfter(It, w.rows[It], r)
<1>1. It \in Process /\ g.attempts[It] \in Nat /\ g.step \in Nat /\ w.rows[It] \in Nat
  BY TwoProcesses DEF Game, Window
<1>2. r \in Result /\ ~r.value /\ r.step = g.attempts[It]
  BY <1>1, StepResultFields
<1>3. ~ReadsValue(It)
  BY DEF ReadsValue
<1> HIDE DEF r
<1>4. n = w.rows[It] + 1
  BY <1>1, <1>2, ViewAssumption DEF RowsAfter
<1>5. LET v == Show(w, It, r)
      IN  /\ v \in Window
          /\ v.rows = [w.rows EXCEPT ![It] = n]
          /\ v.broken = IF r.finished /\ r.step - 1 \notin 0 .. n - 1 THEN "null" ELSE "no"
  BY <1>1, <1>2, <1>3, ShowFields DEF n
<1> HIDE DEF n
<1>6. r.step - 1 \in 0 .. n - 1
  BY <1>1, <1>2, <1>4
<1> QED  BY <1>1, <1>4, <1>5, <1>6, TwoProcesses DEF r, Window

-----------------------------------------------------------------------------
(* The window shows the round from the controller's game to g.             *)
ShowsRound(g) ==
  /\ Round(game, g)
  /\ FinishGameStep(g)
  /\ UNCHANGED choiceVars

(* Whoever is in the game stays, and a round ends in one of four ways.     *)
LEMMA RoundPresent ==
  ASSUME NEW g \in Game, NEW old \in Game, Round(old, g)
  PROVE  Present(g) = Present(old)
BY DEF Round, Present

(* Nobody had hit: who hits in this round wins.                            *)
LEMMA RoundOfAll ==
  ASSUME NEW g, game \in Game, Round(game, g), WindowFits, NobodyHasHit, mode \in Mode
  PROVE  /\ \A p \in ids : g.attempts[p] = g.step /\ g.state[p] \in {"IN_PROGRESS", "FINISHED"}
         /\ Present(g) = ids
         /\ LET now == {p \in ids : g.state[p] = "FINISHED"}
            IN  /\ g.winners = now
                /\ g.stage = IF now = ids THEN "FINISHED"
                             ELSE IF now # {} THEN "IN_PROGRESS_WINNER_DEFINED"
                             ELSE "IN_PROGRESS"
<1>1. g \in Game /\ Present(g) = ids
  BY RoundPresent DEF Round, WindowFits
<1>2. ids \subseteq Process /\ ids # {}
  BY ModesAskFor, TwoProcesses DEF WindowFits, Mode
<1>3. \A p \in ids : g.attempts[p] = g.step /\ g.state[p] \in {"IN_PROGRESS", "FINISHED"}
  BY <1>2 DEF Round, NobodyHasHit, Guesses
<1>4. \A p \in Process \ ids : g.state[p] = "ABSENT"
  BY <1>1 DEF Present
<1> DEFINE now == {p \in ids : g.state[p] = "FINISHED"}
<1>5. now = {p \in Process : g.state[p] = "FINISHED" /\ g.attempts[p] = g.step}
  BY <1>2, <1>3, <1>4
<1>6. (\A p \in Process : g.state[p] \in Terminal \cup {"ABSENT"}) <=> now = ids
  BY <1>2, <1>3, <1>4 DEF Terminal
<1>7. game.stage = "IN_PROGRESS" /\ game.winners = {}
  BY DEF NobodyHasHit
<1> HIDE DEF now
<1>8. /\ g.winners = now
      /\ g.stage = IF now = ids THEN "FINISHED"
                   ELSE IF now # {} THEN "IN_PROGRESS_WINNER_DEFINED"
                   ELSE "IN_PROGRESS"
  BY <1>5, <1>6, <1>7 DEF Round
<1> QED  BY <1>1, <1>3, <1>8 DEF now

(* What rows and the end of the window become, process by process.         *)
LEMMA RowsOfAll ==
  ASSUME NEW g, IInv, broken = "no", Round(game, g), NobodyHasHit, InPlay(game)
  PROVE  LET w == ShowStep(g)
         IN  /\ w \in Window
             /\ w.broken = "no" => \A p \in ids : w.rows[p] = RowsFor(p, g.step)
             /\ w.broken \in {"no", "null"}
             /\ w.broken = "null" <=> It \in ids /\ g.state[It] = "FINISHED"
                                      /\ g.attempts[It] > HistoryRows
<1>1. /\ g \in Game /\ Present(g) = ids /\ ids = Wanted(mode) /\ mode \in Mode
      /\ \A p \in ids : g.attempts[p] = g.step /\ g.state[p] \in {"IN_PROGRESS", "FINISHED"}
  BY RoundOfAll DEF IInv, TypeOK, Round, WindowFits
<1>2. g.step = game.step + 1 /\ game.step \in Nat
  BY DEF Round, IInv, TypeOK, Game
<1>3. \A p \in ids : p \in Process /\ rows[p] = RowsFor(p, game.step)
  BY DEF IInv, TypeOK, WindowFits, RowsShowHistory, NobodyHasHit, Guesses, Running, Present,
         Terminal, RowsFor
<1> DEFINE none == [rows |-> rows, broken |-> "no"]
           mine == IF Me \in Present(g) THEN Show(none, Me, StepResult(g, Me, g.step)) ELSE none
           w == IF It \in Present(g) THEN Show(mine, It, StepResult(g, It, g.step)) ELSE mine
<1>4. ShowStep(g) = w
  BY DEF ShowStep
<1>5. none \in Window /\ none.rows = rows /\ none.broken = "no"
  BY DEF Window, IInv, TypeOK
<1> HIDE DEF none
<1>6. /\ mine \in Window /\ mine.broken = "no"
      /\ Me \in ids => mine.rows[Me] = RowsFor(Me, g.step)
      /\ mine.rows[It] = rows[It]
  <2>1. CASE Me \in ids
    <3>1. /\ mine \in Window
          /\ mine.rows = [none.rows EXCEPT ![Me] = RowsFor(Me, g.step)]
          /\ mine.broken = "no"
      BY <1>1, <1>2, <1>3, <1>5, <2>1, TwoProcesses, GuesserShown
    <3> QED  BY <1>5, <3>1, TwoProcesses DEF Window
  <2>2. CASE Me \notin ids
    BY <1>1, <1>5, <2>2
  <2> QED  BY <2>1, <2>2
<1> HIDE DEF mine
<1>7. CASE It \in ids
  <2>1. /\ w \in Window
        /\ w.rows = [mine.rows EXCEPT ![It] = RowsFor(It, g.step)]
        /\ w.broken = IF g.state[It] = "FINISHED" /\ g.step > HistoryRows THEN "null" ELSE "no"
    <3> DEFINE v == Show(mine, It, StepResult(g, It, g.step))
    <3>1. mine.rows[It] = RowsFor(It, game.step)
      BY <1>3, <1>6, <1>7
    <3>2. /\ v \in Window
          /\ v.rows = [mine.rows EXCEPT ![It] = RowsFor(It, g.step)]
          /\ v.broken = IF g.state[It] = "FINISHED" /\ It = It /\ g.step > HistoryRows
                        THEN "null" ELSE "no"
      BY <1>1, <1>2, <1>3, <1>6, <1>7, <3>1, GuesserShown
    <3>3. w = v
      BY <1>1, <1>7
    <3> HIDE DEF v, w
    <3> QED  BY <3>2, <3>3
  <2> HIDE DEF w
  <2>2. \A p \in ids : w.rows[p] = RowsFor(p, g.step)
    BY <1>3, <1>6, <2>1, TwoProcesses DEF Window
  <2>3. w.broken = "null" <=> g.attempts[It] > HistoryRows /\ g.state[It] = "FINISHED"
    BY <1>1, <1>7, <2>1
  <2> QED  BY <1>4, <1>7, <2>1, <2>2, <2>3
<1>8. CASE It \notin ids
  <2>1. w = mine
    BY <1>1, <1>8
  <2> HIDE DEF w
  <2>2. \A p \in ids : p = Me
    BY <1>3, <1>8, TwoProcesses
  <2> QED  BY <1>4, <1>6, <1>8, <2>1, <2>2
<1> QED  BY <1>7, <1>8

(* The computer had hit: the player goes on alone.                         *)
LEMMA RowsOfPlayer ==
  ASSUME NEW g, IInv, broken = "no", Round(game, g), ComputerHasHit
  PROVE  LET w == ShowStep(g)
         IN  /\ w \in Window /\ w.broken = "no"
             /\ w.rows[Me] = RowsFor(Me, g.step)
             /\ w.rows[It] >= g.attempts[It]
             /\ g.attempts[Me] = g.step /\ g.state[Me] \in {"IN_PROGRESS", "FINISHED"}
             /\ g.attempts[It] = game.attempts[It] /\ g.state[It] = "FINISHED"
<1>1. /\ g \in Game /\ game \in Game /\ game.step \in Nat /\ g.step = game.step + 1
      /\ Me \in Process /\ It \in Process
  BY TwoProcesses DEF Round, IInv, TypeOK, Game
<1>2. /\ g.attempts[Me] = g.step /\ g.state[Me] \in {"IN_PROGRESS", "FINISHED"}
      /\ g.attempts[It] = game.attempts[It] /\ g.state[It] = "FINISHED"
  BY <1>1 DEF Round, ComputerHasHit, Guesses
<1>3. Me \in Present(g) /\ It \in Present(g)
  BY <1>1, <1>2 DEF Present
<1>4. rows[Me] = RowsFor(Me, game.step) /\ rows[It] >= g.attempts[It]
  <2>1. Me \in Running(game) /\ InPlay(game)
    BY <1>1 DEF Running, Present, Terminal, ComputerHasHit, Guesses, InPlay
  <2>2. rows[Me] = game.attempts[Me]
    BY <2>1, TwoProcesses DEF IInv, RowsShowHistory
  <2>3. rows[It] \in Nat /\ game.attempts[It] \in Nat
    BY <1>1 DEF IInv, TypeOK, Game
  <2> QED  BY <1>2, <2>2, <2>3, TwoProcesses DEF RowsFor, ComputerHasHit, Guesses
<1> DEFINE none == [rows |-> rows, broken |-> "no"]
           mine == Show(none, Me, StepResult(g, Me, g.step))
           w == Show(mine, It, StepResult(g, It, g.step))
<1>5. ShowStep(g) = w
  BY <1>3 DEF ShowStep
<1>6. none \in Window /\ none.rows = rows /\ none.broken = "no"
  BY DEF Window, IInv, TypeOK
<1> HIDE DEF none
<1>7. /\ mine \in Window
      /\ mine.rows = [none.rows EXCEPT ![Me] = RowsFor(Me, g.step)]
      /\ mine.broken = "no"
  BY <1>1, <1>2, <1>4, <1>6, TwoProcesses, GuesserShown
<1> HIDE DEF mine
<1>8. mine.rows[Me] = RowsFor(Me, g.step) /\ mine.rows[It] = rows[It]
  BY <1>1, <1>6, <1>7, TwoProcesses DEF Window
<1>9. g.attempts[It] \in 1 .. HistoryRows /\ g.attempts[It] < g.step /\ g.attempts[It] <= mine.rows[It]
  <2>1. game.attempts[It] \in 1 .. HistoryRows /\ game.attempts[It] <= game.step
    BY DEF ComputerHasHit
  <2> QED  BY <1>1, <1>2, <1>4, <1>8, <2>1, ViewAssumption
<1>10. /\ w \in Window
       /\ w.rows[Me] = mine.rows[Me] /\ w.rows[It] >= g.attempts[It]
       /\ w.broken = "no"
  BY <1>1, <1>2, <1>7, <1>9, ComputerDoneShown DEF ComputerHasHit
<1> HIDE DEF w
<1> QED  BY <1>2, <1>5, <1>8, <1>10

-----------------------------------------------------------------------------
(* The invariant after a round that the window has shown.                  *)
LEMMA RoundTyped ==
  ASSUME NEW g, IInv, broken = "no", ShowsRound(g), busy' \in BOOLEAN, ShowStep(g) \in Window
  PROVE  TypeOK'
<1>1. rows' \in [Process -> Nat] /\ broken' \in {"no", "exception", "null", "refused", "invalid"}
  BY DEF ShowsRound, FinishGameStep, Window
<1>2. g \in Game /\ game' = g
  BY DEF ShowsRound, FinishGameStep, Round
<1>3. winIds' \subseteq Process
  BY <1>2 DEF ShowsRound, FinishGameStep, IInv, TypeOK, Game
<1>4. enabled' \subseteq Control
  BY DEF ShowsRound, FinishGameStep, IInv, TypeOK, AfterGame, BrainBox, Control
<1>5. mode' \in Mode /\ ids' \subseteq Process /\ shown' \in Brain /\ playing' \in Brain
  BY DEF ShowsRound, choiceVars, IInv, TypeOK
<1> QED  BY <1>1, <1>2, <1>3, <1>4, <1>5 DEF TypeOK

(* A round in which nobody had hit, in any mode.                           *)
LEMMA AfterRoundOfAll ==
  ASSUME NEW g, IInv, broken = "no", ~busy, InPlay(game), NobodyHasHit, ShowsRound(g),
         busy' = MustFinish(g, winIds')
  PROVE  IInv'
<1> DEFINE w == ShowStep(g)
           now == {p \in ids : g.state[p] = "FINISHED"}
<1>1. /\ w \in Window
      /\ w.broken = "no" => \A p \in ids : w.rows[p] = RowsFor(p, g.step)
      /\ w.broken \in {"no", "null"}
      /\ w.broken = "null" <=> It \in ids /\ g.state[It] = "FINISHED"
                               /\ g.attempts[It] > HistoryRows
  BY RowsOfAll DEF ShowsRound
<1>2. WindowFits /\ GameStands /\ TypeOK
  BY DEF IInv
<1>3. /\ \A p \in ids : g.attempts[p] = g.step /\ g.state[p] \in {"IN_PROGRESS", "FINISHED"}
      /\ Present(g) = ids
      /\ g.winners = now
      /\ g.stage = IF now = ids THEN "FINISHED"
                   ELSE IF now # {} THEN "IN_PROGRESS_WINNER_DEFINED" ELSE "IN_PROGRESS"
  BY <1>2, RoundOfAll DEF ShowsRound, TypeOK
<1> HIDE DEF w
<1>4. /\ game' = g /\ rows' = w.rows /\ broken' = w.broken
      /\ winIds' = now
      /\ enabled' = IF w.broken = "no" /\ g.stage = "FINISHED" THEN AfterGame
                    ELSE IF now # {} THEN enabled \cup {"finish"} ELSE enabled
      /\ mode' = mode /\ ids' = ids
  <2>1. winIds = {}
    BY <1>2 DEF GameStands, NobodyHasHit
  <2> QED  BY <1>3, <2>1 DEF ShowsRound, FinishGameStep, choiceVars, w
<1>5. ids = Wanted(mode) /\ mode \in Mode /\ g \in Game /\ g.step \in Nat /\ g.step >= 1
  BY <1>2 DEF WindowFits, TypeOK, ShowsRound, Round, Game
<1>6. TypeOK'
  BY <1>1, RoundTyped DEF MustFinish, w
<1>7. BreaksOnlyThen'
  BY <1>1, <1>4 DEF BreaksOnlyThen
<1>8. ASSUME broken' = "no"  PROVE WindowFits' /\ GameStands' /\ RowsShowHistory'
  <2>1. \A p \in ids : p \in Process /\ w.rows[p] = RowsFor(p, g.step)
    BY <1>1, <1>2, <1>4, <1>8 DEF TypeOK
  <2>2. RowsShowHistory'
    BY <1>3, <1>4, <2>1 DEF RowsShowHistory, RowsFor, Running
  <2>3. busy' <=> g.stage = "IN_PROGRESS_WINNER_DEFINED" /\ Me \in now
    BY <1>4 DEF MustFinish
  <2>4. WindowFits'
    <3>1. ~InPlay(game)' => g.stage = "FINISHED"
      BY <1>3, <1>4 DEF InPlay
    <3> QED  BY <1>3, <1>4, <1>5, <1>8, <2>3, <3>1 DEF WindowFits, AfterGame, BrainBox, Wanted
  <2>5. GameStands'
    <3>1. CASE now = ids
      BY <1>3, <1>4, <3>1 DEF GameStands, InPlay
    <3>2. CASE now = {} /\ ids # {}
      <4>1. NobodyHasHit'
        BY <1>3, <1>4, <3>2 DEF NobodyHasHit, Guesses
      <4>2. enabled = Turn(mode) /\ enabled' = enabled /\ winIds' = {}
        BY <1>2, <1>3, <1>4, <3>2 DEF GameStands, NobodyHasHit
      <4> QED  BY <1>3, <1>4, <2>3, <3>2, <4>1, <4>2 DEF GameStands
    <3>3. CASE now # {} /\ now # ids
      <4>1. mode = "PLAYER_VS_COMPUTER" /\ ids = {Me, It}
        BY <1>5, <3>3, ModesAskFor DEF Mode
      <4>2. enabled = Turn(mode) /\ enabled' = enabled \cup {"finish"}
        BY <1>2, <1>3, <1>4, <3>3 DEF GameStands, NobodyHasHit
      <4>3. CASE now = {Me}
        <5>1. g.state[It] = "IN_PROGRESS" /\ g.state[Me] = "FINISHED"
          BY <1>3, <4>1, <4>3, TwoProcesses
        <5>2. PlayerHasHit'
          BY <1>3, <1>4, <1>5, <3>3, <4>1, <4>3, <5>1 DEF PlayerHasHit, Guesses
        <5> QED  BY <1>4, <1>3, <2>3, <3>3, <4>3, <5>2 DEF GameStands
      <4>4. CASE now = {It}
        <5>1. g.state[Me] = "IN_PROGRESS" /\ g.state[It] = "FINISHED"
          BY <1>3, <4>1, <4>4, TwoProcesses
        <5>2. g.step <= HistoryRows /\ w.rows[It] = g.step
          <6>1. ~(g.step > HistoryRows)
            BY <1>1, <1>3, <1>4, <1>8, <4>1, <5>1
          <6> QED  BY <2>1, <4>1, <6>1, <1>5, ViewAssumption DEF RowsFor
        <5>3. ComputerHasHit'
          BY <1>3, <1>4, <1>5, <3>3, <4>1, <4>4, <5>1, <5>2 DEF ComputerHasHit, Guesses
        <5> QED  BY <1>4, <1>3, <2>3, <3>3, <4>2, <4>4, <5>3, TwoProcesses DEF GameStands
      <4> QED  BY <3>3, <4>1, <4>3, <4>4
    <3> QED  BY <3>1, <3>2, <3>3
  <2> QED  BY <2>2, <2>4, <2>5
<1> QED  BY <1>6, <1>7, <1>8 DEF IInv

(* A round of the player after the computer has hit.                       *)
LEMMA AfterRoundOfPlayer ==
  ASSUME NEW g, IInv, broken = "no", ~busy, ComputerHasHit, ShowsRound(g),
         busy' = MustFinish(g, winIds')
  PROVE  IInv'
<1> DEFINE w == ShowStep(g)
<1>1. /\ w \in Window /\ w.broken = "no"
      /\ w.rows[Me] = RowsFor(Me, g.step)
      /\ w.rows[It] >= g.attempts[It]
      /\ g.attempts[Me] = g.step /\ g.state[Me] \in {"IN_PROGRESS", "FINISHED"}
      /\ g.attempts[It] = game.attempts[It] /\ g.state[It] = "FINISHED"
  BY RowsOfPlayer DEF ShowsRound
<1> HIDE DEF w
<1>2. WindowFits /\ GameStands /\ TypeOK /\ InPlay(game)
  BY DEF IInv, ComputerHasHit, InPlay
<1>3. ids = {Me, It} /\ ids = Wanted(mode) /\ mode = "PLAYER_VS_COMPUTER" /\ Present(g) = ids
  BY <1>2, ModesAskFor, RoundPresent DEF WindowFits, ComputerHasHit, ShowsRound, TypeOK, Round
<1>4. /\ g.winners = {It}
      /\ g.stage = IF g.state[Me] = "FINISHED" THEN "FINISHED" ELSE "IN_PROGRESS_WINNER_DEFINED"
  <2>1. (\A p \in Process : g.state[p] \in Terminal \cup {"ABSENT"})
           <=> g.state[Me] = "FINISHED"
    BY <1>1, TwoProcesses DEF Terminal
  <2> QED  BY <2>1 DEF ShowsRound, Round, ComputerHasHit
<1>5. /\ game' = g /\ rows' = w.rows /\ broken' = "no"
      /\ winIds = {It} /\ winIds' = {It}
      /\ enabled = {"send"} \cup {"finish"}
      /\ enabled' = IF g.stage = "FINISHED" THEN AfterGame ELSE enabled
      /\ mode' = mode /\ ids' = ids
  <2>1. winIds = {It} /\ enabled = {"send"} \cup {"finish"}
    BY <1>2, <1>3 DEF GameStands, ComputerHasHit, Turn
  <2> QED  BY <1>1, <2>1 DEF ShowsRound, FinishGameStep, choiceVars, w
<1>6. TypeOK'
  BY <1>1, RoundTyped DEF MustFinish, w
<1>7. BreaksOnlyThen'
  BY <1>5 DEF BreaksOnlyThen
<1>8. ~busy'
  BY <1>5, TwoProcesses DEF MustFinish
<1>9. WindowFits'
  <2>1. ~InPlay(game)' => g.stage = "FINISHED"
    BY <1>4, <1>5 DEF InPlay
  <2> QED  BY <1>3, <1>5, <1>8, <2>1 DEF WindowFits, AfterGame, BrainBox, Wanted
<1>10. g.step \in Nat /\ g.step = game.step + 1 /\ game.step \in Nat
  BY <1>2 DEF ShowsRound, Round, Game, TypeOK
<1>11. RowsShowHistory'
  <2>1. \A p \in Running(game)' : p = Me
    BY <1>1, <1>3, <1>5 DEF Running, Terminal
  <2> QED  BY <1>1, <1>5, <2>1, TwoProcesses DEF RowsShowHistory, RowsFor
<1>12. GameStands'
  <2>1. CASE g.state[Me] = "FINISHED"
    BY <1>4, <1>5, <2>1 DEF GameStands, InPlay
  <2>2. CASE g.state[Me] # "FINISHED"
    <3>1. game.attempts[It] \in 1 .. HistoryRows /\ game.attempts[It] <= g.step
      BY <1>10, ViewAssumption DEF ComputerHasHit
    <3>2. g.attempts[It] <= w.rows[It]
      BY <1>1, <3>1, TwoProcesses, ViewAssumption DEF Window
    <3>3. ComputerHasHit'
      BY <1>1, <1>3, <1>4, <1>5, <2>2, <3>1, <3>2 DEF ComputerHasHit, Guesses
    <3> QED  BY <1>3, <1>4, <1>5, <1>8, <2>2, <3>3 DEF GameStands, Turn
  <2> QED  BY <2>1, <2>2
<1> QED  BY <1>5, <1>6, <1>7, <1>9, <1>11, <1>12 DEF IInv

(* The player had hit: the computer needs another round, and the window    *)
(* reads a guess that the player has not made.                             *)
LEMMA AfterRoundOfComputer ==
  ASSUME NEW g, IInv, broken = "no", PlayerHasHit, ShowsRound(g), busy' \in BOOLEAN
  PROVE  IInv'
<1>1. WindowFits /\ TypeOK
  BY DEF IInv
<1>2. ids = {Me, It} /\ mode = "PLAYER_VS_COMPUTER"
  BY <1>1, ModesAskFor DEF WindowFits, PlayerHasHit
<1>3. /\ g \in Game /\ Present(g) = ids
      /\ g.step = game.step + 1 /\ game.step \in Nat
  BY <1>1, RoundPresent DEF WindowFits, ShowsRound, TypeOK, Round, Game
<1>4. /\ g.attempts[Me] = game.attempts[Me] /\ g.state[Me] = "FINISHED"
      /\ g.attempts[It] = g.step
      /\ g.attempts[Me] \in Nat /\ game.attempts[Me] <= game.step
  BY <1>1, <1>3, TwoProcesses DEF ShowsRound, Round, PlayerHasHit, Guesses, TypeOK, Game
<1> DEFINE none == [rows |-> rows, broken |-> "no"]
           r == StepResult(g, Me, g.step)
           mine == Show(none, Me, r)
           w == Show(mine, It, StepResult(g, It, g.step))
<1>5. none \in Window /\ none.broken = "no"
  BY <1>1 DEF Window, TypeOK
<1>6. r \in Result /\ ~r.value
  BY <1>3, <1>4, TwoProcesses, StepResultFields
<1>7. ReadsValue(Me)
  BY TwoProcesses DEF ReadsValue
<1>8. ShowStep(g) = w
  BY <1>2, <1>3 DEF ShowStep
<1> HIDE DEF none, r
<1>9. mine \in Window /\ mine.broken = "exception"
  BY <1>5, <1>6, <1>7, TwoProcesses, ShowFields
<1> HIDE DEF mine
<1>10. w = mine
  BY <1>9 DEF Show
<1> HIDE DEF w
<1>11. broken' = "exception" /\ game' = g /\ mode' = mode
  BY <1>8, <1>9, <1>10 DEF ShowsRound, FinishGameStep, choiceVars
<1>12. TypeOK'
  BY <1>8, <1>9, <1>10, RoundTyped
<1>13. BreaksOnlyThen'
  BY <1>2, <1>3, <1>4, <1>11 DEF BreaksOnlyThen
<1> QED  BY <1>11, <1>12, <1>13 DEF IInv

-----------------------------------------------------------------------------
(* The slots.                                                              *)

(* Who guesses when it is whose turn: what the rounds above need to know.  *)
LEMMA TurnFacts ==
  ASSUME IInv, broken = "no", InPlay(game)
  PROVE  /\ game \in Game
         /\ \A p \in Process : game.state[p] # "WAIT_A_NUMBER"
         /\ \A p \in Process : game.state[p] = "IN_PROGRESS" => game.attempts[p] = game.step
         /\ ids = Wanted(mode) /\ mode \in Mode
         /\ ~busy => (Me \in ids => game.state[Me] = "IN_PROGRESS")
         /\ Me \in Present(game) <=> Me \in ids
         /\ ~busy => NobodyHasHit \/ ComputerHasHit
         /\ busy => PlayerHasHit
<1>1. WindowFits /\ GameStands /\ TypeOK
  BY DEF IInv
<1>2. NobodyHasHit \/ ComputerHasHit \/ PlayerHasHit
  BY <1>1 DEF GameStands
<1>3. \A p \in Process \ ids : game.state[p] = "ABSENT"
  BY <1>1 DEF WindowFits, Present
<1>4. ASSUME NEW p \in Process
      PROVE  /\ game.state[p] # "WAIT_A_NUMBER"
             /\ game.state[p] = "IN_PROGRESS" => game.attempts[p] = game.step
  <2>1. CASE p \notin ids
    BY <1>3, <2>1
  <2>2. CASE p \in ids
    BY <1>2, <2>2, TwoProcesses DEF NobodyHasHit, ComputerHasHit, PlayerHasHit, Guesses
  <2> QED  BY <2>1, <2>2
<1> QED
  BY <1>1, <1>4 DEF WindowFits, GameStands, TypeOK, NobodyHasHit, ComputerHasHit, Guesses

LEMMA SendKeeps ==
  ASSUME IInv, SendGameValue
  PROVE  IInv'
<1>1. broken = "no" /\ ~busy /\ "send" \in enabled
  BY DEF SendGameValue, Use
<1>2. WindowFits /\ GameStands /\ TypeOK
  BY <1>1 DEF IInv
<1>3. InPlay(game)
  BY <1>1, <1>2 DEF WindowFits, AfterGame, BrainBox
<1>4. mode # "COMPUTER"
  BY <1>1, <1>2, <1>3 DEF GameStands, Turn
<1>5. /\ game \in Game /\ Me \in Process
      /\ \A p \in Process : game.state[p] # "WAIT_A_NUMBER"
      /\ \A p \in Process : game.state[p] = "IN_PROGRESS" => game.attempts[p] = game.step
      /\ game.state[Me] = "IN_PROGRESS"
      /\ NobodyHasHit \/ ComputerHasHit
  BY <1>1, <1>3, <1>4, TurnFacts, TwoProcesses DEF Wanted
<1>6. CanStep(game, Me)
  BY <1>5, TwoProcesses DEF CanStep, PlayerList, Present, Game
<1>7. CASE Abort("invalid")
  <2>1. /\ broken' = "invalid" /\ game' = game /\ mode' = mode
        /\ UNCHANGED <<ids, shown, playing, winIds, rows, enabled, busy>>
    BY <1>7 DEF SendGameValue, Abort, gameVars, choiceVars
  <2>2. TypeOK'
    BY <1>2, <2>1 DEF TypeOK
  <2>3. InPlay(game') /\ CanStep(game', Me)
    BY <1>3, <1>6, <2>1
  <2>4. BreaksOnlyThen'
    BY <1>4, <2>1, <2>3 DEF BreaksOnlyThen
  <2> QED  BY <2>1, <2>2, <2>4 DEF IInv
<1>8. ASSUME NEW hit \in BOOLEAN, NEW hits \in Outcomes(game),
             FinishGameStep(DoPlayerStep(game, Me, hit, hits)),
             busy' = MustFinish(DoPlayerStep(game, Me, hit, hits), winIds')
      PROVE  IInv'
  <2> DEFINE g == DoPlayerStep(game, Me, hit, hits)
  <2>1. Round(game, g)
    BY <1>5, PlayerRound
  <2>2. FinishGameStep(g) /\ busy' = MustFinish(g, winIds')
    BY <1>8
  <2> HIDE DEF g
  <2>3. ShowsRound(g)
    BY <2>1, <2>2 DEF ShowsRound, SendGameValue
  <2> QED  BY <1>1, <1>3, <1>5, <2>2, <2>3, AfterRoundOfAll, AfterRoundOfPlayer
<1> QED  BY <1>6, <1>7, <1>8 DEF SendGameValue

LEMMA MakeStepKeeps ==
  ASSUME IInv, MakeStep
  PROVE  IInv'
<1>1. broken = "no" /\ ~busy /\ "makeStep" \in enabled
  BY DEF MakeStep, Use
<1>2. WindowFits /\ GameStands /\ TypeOK
  BY <1>1 DEF IInv
<1>3. InPlay(game)
  BY <1>1, <1>2 DEF WindowFits, AfterGame, BrainBox
<1>4. mode = "COMPUTER"
  BY <1>1, <1>2, <1>3 DEF GameStands, Turn
<1>5. /\ game \in Game
      /\ \A p \in Process : game.state[p] # "WAIT_A_NUMBER"
      /\ \A p \in Process : game.state[p] = "IN_PROGRESS" => game.attempts[p] = game.step
      /\ ids = {It} /\ NobodyHasHit
  BY <1>1, <1>3, <1>4, TurnFacts, ModesAskFor DEF ComputerHasHit
<1>6. Me \notin Present(game)
  BY <1>2, <1>5, TwoProcesses DEF WindowFits
<1>7. UnsteppedPlayers(game) = {}
  BY <1>5, <1>6, ListsOfTwo DEF UnsteppedPlayers, UnsteppedAt
<1>8. PICK hits \in Outcomes(game) : FinishGameStep(FinishStep(game, hits))
  BY <1>7 DEF MakeStep
<1> DEFINE g == FinishStep(game, hits)
<1>9. \A p \in Player : game.state[p] # "IN_PROGRESS"
  BY <1>6, TwoProcesses, ViewAssumption DEF Present
<1>10. Round(game, g)
  BY <1>5, <1>7, <1>9, ComputerRound
<1> HIDE DEF g
<1>11. ShowsRound(g)
  BY <1>8, <1>10 DEF ShowsRound, MakeStep, g
<1>12. busy' = MustFinish(g, winIds')
  <2>1. winIds = {} /\ g.winners \subseteq ids
    BY <1>2, <1>3, <1>5, <1>10, RoundOfAll DEF GameStands, NobodyHasHit, TypeOK
  <2>2. Me \notin winIds'
    BY <1>5, <1>11, <2>1, TwoProcesses DEF ShowsRound, FinishGameStep
  <2>3. MustFinish(g, winIds') = FALSE
    BY <2>2 DEF MustFinish
  <2>4. busy' = busy /\ busy \in BOOLEAN
    BY <1>2, <1>7 DEF MakeStep, TypeOK
  <2> QED  BY <1>1, <2>3, <2>4
<1> QED  BY <1>1, <1>3, <1>5, <1>11, <1>12, AfterRoundOfAll

LEMMA SendLoopKeeps ==
  ASSUME IInv, SendLoop
  PROVE  IInv'
<1>1. broken = "no" /\ busy
  BY DEF SendLoop
<1>2. WindowFits /\ GameStands /\ TypeOK
  BY <1>1 DEF IInv
<1>3. InPlay(game)
  BY <1>1, <1>2 DEF WindowFits
<1>4. /\ game \in Game
      /\ \A p \in Process : game.state[p] # "WAIT_A_NUMBER"
      /\ \A p \in Process : game.state[p] = "IN_PROGRESS" => game.attempts[p] = game.step
      /\ PlayerHasHit
  BY <1>1, <1>3, TurnFacts
<1>5. PICK hits \in Outcomes(game) :
         LET g == FinishStep(game, hits)
         IN  FinishGameStep(g) /\ busy' = (g.stage # "FINISHED")
  BY DEF SendLoop
<1> DEFINE g == FinishStep(game, hits)
<1>6. \A p \in Player : game.state[p] # "IN_PROGRESS"
  BY <1>4, ViewAssumption DEF PlayerHasHit
<1>7. UnsteppedPlayers(game) = {}
  BY <1>4, ViewAssumption DEF PlayerHasHit, UnsteppedPlayers, UnsteppedAt, PlayerList, Terminal
<1>8. Round(game, g)
  BY <1>4, <1>6, <1>7, ComputerRound
<1> HIDE DEF g
<1>9. ShowsRound(g) /\ busy' \in BOOLEAN
  BY <1>5, <1>8 DEF ShowsRound, SendLoop, g
<1> QED  BY <1>1, <1>4, <1>9, AfterRoundOfComputer

(* onFinishGame: the player has given up, the computer has hit, and the    *)
(* first round of the loop finds nobody left to guess.                     *)
LEMMA FinishedFields ==
  ASSUME game \in Game, WindowFits, ComputerHasHit, NEW guesses \in Nat
  PROVE  LET r == Finished(game, guesses)
         IN  r \in Game /\ Present(r) = ids /\ r.stage = "FINISHED"
<1> DEFINE given == GiveUpAll(game)
           done == FinishStep(given, {})
           S == [p \in Process |-> IF p \in {Me} THEN "GAVE_UP" ELSE game.state[p]]
<1>1. PlayerList(game) \cap Running(game) = {Me}
  BY TwoProcesses, ViewAssumption DEF PlayerList, Running, Present, ComputerHasHit, Guesses, Terminal
<1>2. given = [game EXCEPT !.state = S]
  BY <1>1 DEF GiveUpAll, GiveUp
<1>3. {Me} \in SUBSET Present(game) /\ given = GiveUp(game, {Me})
  BY <1>1 DEF GiveUpAll, Running
<1>4. given \in Game /\ Present(given) = ids
  BY <1>3, GiveUpPresent DEF WindowFits
<1> HIDE DEF given, S
<1>5. given.stage = "IN_PROGRESS_WINNER_DEFINED" /\ given.state = S
  BY <1>2 DEF ComputerHasHit, Game
<1>6. \A p \in Process : given.state[p] \in Terminal
  BY <1>5, TwoProcesses DEF S, ComputerHasHit, Terminal
<1>7. Movers(given) = {} /\ UnsteppedPlayers(given) = {}
  BY <1>6 DEF Movers, UnsteppedPlayers, UnsteppedAt, ComputerList, PlayerList, Present
<1>8. done = CloseRound(given, {})
  BY <1>7 DEF FinishStep
<1>9. done \in Game /\ Present(done) = ids
  BY <1>4, <1>7, FinishStepPresent
<1>10. done.stage = "FINISHED"
  <2> DEFINE c == CloseRound(given, {})
  <2>1. /\ c.state = [p \in Process |-> IF p \in {} THEN "FINISHED" ELSE given.state[p]]
        /\ (\A p \in Process : c.state[p] \in Terminal \cup {"ABSENT"}) => c.stage = "FINISHED"
    <3>1. {} \in SUBSET Movers(given)
      OBVIOUS
    <3>2. LET now == {p \in Process : c.state[p] = "FINISHED" /\ c.attempts[p] = given.step + 1}
              over == \A p \in Process : c.state[p] \in Terminal \cup {"ABSENT"}
          IN  /\ c.state = [p \in Process |-> IF p \in {} THEN "FINISHED" ELSE given.state[p]]
              /\ c.stage = IF over THEN "FINISHED"
                           ELSE IF given.stage = "IN_PROGRESS" /\ now # {}
                           THEN "IN_PROGRESS_WINNER_DEFINED" ELSE given.stage
      BY <1>4, <3>1, CloseRoundFields
    <3> HIDE DEF c
    <3> QED  BY <3>2
  <2> HIDE DEF c
  <2>2. \A p \in Process : c.state[p] \in Terminal \cup {"ABSENT"}
    BY <1>6, <2>1
  <2> QED  BY <1>8, <2>1, <2>2 DEF c
<1> HIDE DEF done
<1> DEFINE next(r) ==
             IF r.stage = "FINISHED" THEN r
             ELSE FinishStep(r, IF r.attempts[It] + 1 >= guesses THEN Movers(r) ELSE {})
           last[k \in 0 .. GuessBound] == IF k = 0 THEN given ELSE next(last[k - 1])
           f == [k \in 0 .. GuessBound |-> IF k = 0 THEN given ELSE done]
<1>11. next(given) = done /\ next(done) = done
  BY <1>5, <1>7, <1>10 DEF done
<1> HIDE DEF next
<1>12. f = [k \in 0 .. GuessBound |-> IF k = 0 THEN given ELSE next(f[k - 1])]
  <2>1. ASSUME NEW k \in 0 .. GuessBound
        PROVE  (IF k = 0 THEN given ELSE done) = IF k = 0 THEN given ELSE next(f[k - 1])
    <3>1. CASE k = 0
      BY <3>1
    <3>2. CASE k = 1
      <4>1. f[k - 1] = given
        BY <3>2, BoundAssumption
      <4> QED  BY <1>11, <3>2, <4>1
    <3>3. CASE k # 0 /\ k # 1
      <4>1. f[k - 1] = done
        BY <3>3, BoundAssumption
      <4> QED  BY <1>11, <3>3, <4>1
    <3> QED  BY <3>1, <3>2, <3>3
  <2> QED  BY <2>1
<1> HIDE DEF f
<1>13. last = [k \in 0 .. GuessBound |-> IF k = 0 THEN given ELSE next(last[k - 1])]
  BY <1>12
<1>14. Finished(game, guesses) = last[GuessBound]
  BY DEF Finished, given, next
<1> HIDE DEF last
<1>15. last[GuessBound] = done
  <2> DEFINE T == {k \in 0 .. GuessBound : k = 0 \/ last[k] = done}
  <2>1. 0 \in T /\ GuessBound \in Nat
    BY BoundAssumption
  <2>2. ASSUME NEW k \in 1 .. GuessBound, k - 1 \in T  PROVE k \in T
    <3>1. k \in 0 .. GuessBound /\ k - 1 \in 0 .. GuessBound /\ last[k] = next(last[k - 1])
      BY <1>13, <2>1
    <3>2. last[0] = given
      BY <1>13, <2>1
    <3> QED  BY <1>11, <2>2, <3>1, <3>2
  <2>3. \A k \in 0 .. GuessBound : k \in T
    <3> HIDE DEF T
    <3> QED  BY <2>1, <2>2, UpTo
  <2> QED  BY <2>3, BoundAssumption
<1> QED  BY <1>9, <1>10, <1>14, <1>15

LEMMA FinishGameKeeps ==
  ASSUME IInv, FinishGame
  PROVE  IInv'
<1>1. broken = "no" /\ ~busy /\ "finish" \in enabled
  BY DEF FinishGame, Use
<1>2. WindowFits /\ GameStands /\ TypeOK
  BY <1>1 DEF IInv
<1>3. InPlay(game)
  BY <1>1, <1>2 DEF WindowFits, AfterGame, BrainBox
<1>4. ComputerHasHit
  BY <1>1, <1>2, <1>3 DEF GameStands, NobodyHasHit, Turn
<1>5. PICK guesses \in 1 .. GuessBound : game' = Finished(game, guesses)
  BY DEF FinishGame
<1>6. game' \in Game /\ Present(game)' = ids /\ game'.stage = "FINISHED"
  <2>1. guesses \in Nat
    BY BoundAssumption
  <2> QED  BY <1>2, <1>4, <1>5, <2>1, FinishedFields DEF TypeOK, Present
<1>7. ~InPlay(game)'
  BY <1>6 DEF InPlay
<1>8. TypeOK'
  BY <1>2, <1>6 DEF FinishGame, TypeOK, choiceVars, AfterGame, BrainBox, Control
<1>9. WindowFits'
  BY <1>1, <1>2, <1>6 DEF FinishGame, WindowFits, choiceVars, AfterGame, BrainBox
<1> QED
  BY <1>1, <1>7, <1>8, <1>9 DEF FinishGame, IInv, GameStands, RowsShowHistory, BreaksOnlyThen

-----------------------------------------------------------------------------
(* Before a game: the slots that choose, and the start.                    *)
LEMMA NoGameOn ==
  ASSUME IInv, NEW c \in {"start", "mode", "brain"}, Use(c)
  PROVE  /\ ~InPlay(game) /\ broken = "no" /\ ~busy /\ enabled = AfterGame
         /\ TypeOK /\ WindowFits
BY DEF Use, IInv, WindowFits, GameStands, Turn

LEMMA AddMissingFacts ==
  ASSUME NEW g \in Game, NEW wanted \in SUBSET Process, Present(g) = ids
  PROVE  /\ AddMissing(g, wanted) \in Game
         /\ Present(AddMissing(g, wanted)) = ids \cup wanted
         /\ AddMissing(g, wanted).stage = g.stage
<1> DEFINE withIt == IF It \in wanted \ ids THEN AddComputer(g, It) ELSE g
<1>1. /\ withIt \in Game /\ withIt.stage = g.stage
      /\ Present(withIt) = ids \cup (wanted \cap {It})
  <2>1. CASE It \in wanted \ ids
    <3>1. AddComputer(g, It) \in Game
      BY TwoProcesses, ListOpsTyped
    <3>2. Present(AddComputer(g, It)) = ids \cup {It}
      BY TwoProcesses, ListOpsPresent
    <3>3. AddComputer(g, It).stage = g.stage
      BY TwoProcesses, ListOpsStage
    <3> QED  BY <2>1, <3>1, <3>2, <3>3
  <2>2. CASE It \notin wanted \ ids
    BY <2>2
  <2> QED  BY <2>1, <2>2
<1>2. AddMissing(g, wanted) = IF Me \in wanted \ ids THEN AddPlayer(withIt, Me) ELSE withIt
  BY DEF AddMissing
<1> HIDE DEF withIt
<1>3. CASE Me \in wanted \ ids
  <2>1. AddPlayer(withIt, Me) \in Game
    BY <1>1, TwoProcesses, ListOpsTyped
  <2>2. Present(AddPlayer(withIt, Me)) = Present(withIt) \cup {Me}
    BY <1>1, TwoProcesses, ListOpsPresent
  <2>3. AddPlayer(withIt, Me).stage = g.stage
    BY <1>1, TwoProcesses, ListOpsStage
  <2> QED  BY <1>1, <1>2, <1>3, <2>1, <2>2, <2>3, TwoProcesses
<1>4. CASE Me \notin wanted \ ids
  BY <1>1, <1>2, <1>4, TwoProcesses
<1> QED  BY <1>3, <1>4

LEMMA SwitchModeKeeps ==
  ASSUME IInv, NEW m \in Mode, SwitchGameMode(m)
  PROVE  IInv'
<1>1. /\ ~InPlay(game) /\ broken = "no" /\ ~busy /\ enabled = AfterGame
      /\ TypeOK /\ WindowFits
  BY NoGameOn DEF SwitchGameMode
<1> DEFINE fresh == InitGame(game)
           wanted == Wanted(m)
           added == AddMissing(fresh, wanted)
<1>2. ids = Wanted(mode) /\ Present(game) = ids /\ mode \in Mode /\ game \in Game
  BY <1>1 DEF WindowFits, TypeOK
<1>3. /\ wanted \subseteq Process /\ ids \subseteq Process
      /\ wanted # {} /\ ids # {} /\ wanted # ids
  BY <1>2, ModesAskFor, TwoProcesses DEF Mode, SwitchGameMode
<1>4. fresh \in Game /\ Present(fresh) = ids /\ fresh.stage = "WAIT_A_NUMBER"
  BY <1>2, InitGamePresent, InitGameStage
<1>5. /\ game' = RemoveOthers(added, wanted)
      /\ broken' = IF CallsAccepted(fresh, wanted) THEN "no" ELSE "refused"
      /\ ids' = wanted /\ mode' = m
      /\ playing' = IF It \in wanted \ ids THEN FirstBrain ELSE playing
      /\ enabled' = (enabled \ {"brain"}) \cup BrainBox(m)
      /\ UNCHANGED <<shown, winIds, rows, busy>>
  BY DEF SwitchGameMode
<1> HIDE DEF fresh, wanted
<1>6. added \in Game /\ Present(added) = ids \cup wanted /\ added.stage = "WAIT_A_NUMBER"
  BY <1>3, <1>4, AddMissingFacts
<1> HIDE DEF added
<1>7. CallsAccepted(fresh, wanted)
  <2>1. It \in wanted \ ids => CanAddComputer(fresh, It)
    BY <1>4, ListsOfTwo, LimitAssumption DEF CanAddComputer
  <2>2. Me \in wanted \ ids => CanAddPlayer(fresh, Me)
    BY <1>4, ListsOfTwo, LimitAssumption DEF CanAddPlayer
  <2>3. \A p \in ids \ wanted : CanRemove(fresh, p)
    BY <1>4 DEF CanRemove
  <2> QED  BY <2>1, <2>2, <2>3 DEF CallsAccepted
<1>8. game' \in Game /\ Present(game') = wanted /\ game'.stage = "WAIT_A_NUMBER"
  <2>1. CASE ids \subseteq wanted
    BY <1>5, <1>6, <2>1 DEF RemoveOthers
  <2>2. CASE ~(ids \subseteq wanted)
    <3>1. PICK p \in ids : p \notin wanted /\ game' = RemoveProcess(added, p)
      BY <1>5, <2>2 DEF RemoveOthers
    <3>2. (ids \cup wanted) \ {p} = wanted
      BY <1>3, <3>1, TwoProcesses
    <3>3. p \in Process
      BY <1>3
    <3> QED  BY <1>6, <3>1, <3>2, <3>3, ListOpsPresent, ListOpsStage
  <2> QED  BY <2>1, <2>2
<1>9. broken' = "no"
  BY <1>5, <1>7
<1>10. TypeOK'
  BY <1>1, <1>3, <1>5, <1>8, <1>9, ViewAssumption DEF TypeOK, AfterGame, BrainBox, Control
<1>11. ~InPlay(game)'
  BY <1>8 DEF InPlay
<1>12. WindowFits'
  <2>1. enabled' = AfterGame'
    BY <1>1, <1>5 DEF AfterGame, BrainBox
  <2>2. Wanted(mode)' = wanted /\ Present(game)' = wanted
    BY <1>5, <1>8 DEF wanted, Wanted, Present
  <2> QED  BY <1>1, <1>5, <2>1, <2>2 DEF WindowFits
<1> QED  BY <1>9, <1>10, <1>11, <1>12 DEF IInv, GameStands, RowsShowHistory, BreaksOnlyThen

LEMMA SwitchBrainKeeps ==
  ASSUME IInv, NEW b \in Brain, SwitchBrain(b)
  PROVE  IInv'
<1>1. /\ ~InPlay(game) /\ broken = "no" /\ ~busy /\ enabled = AfterGame
      /\ TypeOK /\ WindowFits
  BY NoGameOn DEF SwitchBrain
<1>2. mode # "PLAYER"
  BY <1>1 DEF SwitchBrain, Use, AfterGame, BrainBox
<1>3. ids = Wanted(mode) /\ Present(game) = ids /\ It \in ids /\ game \in Game
  BY <1>1, <1>2, ModesAskFor DEF WindowFits, TypeOK, Mode
<1> DEFINE fresh == InitGame(game)
<1>4. fresh \in Game /\ Present(fresh) = ids /\ fresh.stage = "WAIT_A_NUMBER"
  BY <1>3, InitGamePresent, InitGameStage
<1>5. game' = SwitchGameBrain(fresh, It) /\ ids' = ids
  BY <1>3 DEF SwitchBrain
<1> HIDE DEF fresh
<1>6. It \in ComputerList(fresh)
  BY <1>3, <1>4, TwoProcesses DEF ComputerList
<1>7. game' \in Game /\ Present(game') = ids /\ game'.stage = "WAIT_A_NUMBER"
  BY <1>4, <1>5, <1>6, TwoProcesses, ListOpsTyped, ListOpsPresent, ListOpsStage
<1>8. TypeOK'
  BY <1>1, <1>5, <1>7 DEF TypeOK, SwitchBrain
<1>9. ~InPlay(game)'
  BY <1>7 DEF InPlay
<1>10. WindowFits'
  <2>1. Present(game)' = ids
    BY <1>7 DEF Present
  <2> QED  BY <1>1, <1>3, <1>5, <2>1 DEF WindowFits, SwitchBrain, AfterGame, BrainBox
<1> QED
  BY <1>1, <1>8, <1>9, <1>10 DEF SwitchBrain, IInv, GameStands, RowsShowHistory, BreaksOnlyThen

LEMMA StartKeeps ==
  ASSUME IInv, NEW s \in Secret, Start(s)
  PROVE  IInv'
<1>1. /\ ~InPlay(game) /\ broken = "no" /\ ~busy /\ enabled = AfterGame
      /\ TypeOK /\ WindowFits
  BY NoGameOn DEF Start
<1>2. /\ ids = Wanted(mode) /\ Present(game) = ids /\ game \in Game
      /\ ids \subseteq Process
  BY <1>1 DEF WindowFits, TypeOK
<1>3. /\ game' \in Game /\ Present(game') = ids
      /\ game'.stage = "IN_PROGRESS" /\ game'.step = 0 /\ game'.winners = {}
      /\ game'.attempts = [p \in Process |-> 0]
      /\ \A p \in ids : game'.state[p] = "IN_PROGRESS"
  BY <1>2, StartedGame DEF Start
<1>4. /\ winIds' = {} /\ rows' = [p \in Process |-> 0]
      /\ enabled' = Turn(mode) /\ mode' = mode /\ ids' = ids
      /\ shown' = shown /\ playing' = playing /\ busy' = busy /\ broken' = broken
  BY DEF Start, choiceVars, Turn
<1>5. TypeOK'
  BY <1>1, <1>3, <1>4 DEF TypeOK, Turn, Control
<1>6. WindowFits'
  <2>1. Present(game)' = ids /\ InPlay(game)'
    BY <1>3 DEF Present, InPlay
  <2> QED  BY <1>2, <1>4, <2>1 DEF WindowFits
<1>7. NobodyHasHit'
  BY <1>2, <1>3, <1>4 DEF NobodyHasHit, Guesses
<1>8. GameStands'
  BY <1>1, <1>4, <1>3, <1>7 DEF GameStands, Turn
<1>9. RowsShowHistory'
  <2>1. \A p \in Running(game)' : p \in Process
    BY DEF Running, Present
  <2> QED  BY <1>3, <1>4, <2>1, ViewAssumption DEF RowsShowHistory
<1> QED  BY <1>1, <1>4, <1>5, <1>6, <1>8, <1>9 DEF IInv, BreaksOnlyThen

-----------------------------------------------------------------------------
LEMMA InitCorrect == Init => IInv
<1> SUFFICES ASSUME Init  PROVE IInv
  OBVIOUS
<1>1. game \in Game /\ Present(game) = {Me} /\ game.stage = "WAIT_A_NUMBER"
  <2>1. EmptyGame.stage = "WAIT_A_NUMBER"
    BY DEF EmptyGame
  <2>2. EmptyGame \in Game /\ Present(EmptyGame) = {}
    BY EmptyGamePresent
  <2>3. AddPlayer(EmptyGame, Me) \in Game
    BY <2>2, TwoProcesses, ListOpsTyped
  <2>4. Present(AddPlayer(EmptyGame, Me)) = {Me}
    BY <2>2, TwoProcesses, ListOpsPresent
  <2>5. AddPlayer(EmptyGame, Me).stage = "WAIT_A_NUMBER"
    BY <2>1, <2>2, TwoProcesses, ListOpsStage
  <2> QED  BY <2>3, <2>4, <2>5 DEF Init
<1>2. TypeOK
  BY <1>1, TwoProcesses, ViewAssumption DEF Init, TypeOK, Mode, Control
<1>3. WindowFits /\ ~InPlay(game)
  BY <1>1, ModesAskFor DEF Init, WindowFits, AfterGame, BrainBox, InPlay
<1> QED  BY <1>2, <1>3 DEF Init, IInv, GameStands, RowsShowHistory, BreaksOnlyThen

LEMMA NextKeeps == IInv /\ [Next]_vars => IInv'
<1> SUFFICES ASSUME IInv, [Next]_vars  PROVE IInv'
  OBVIOUS
<1>1. CASE \E m \in Mode : SwitchGameMode(m)
  BY <1>1, SwitchModeKeeps
<1>2. CASE \E b \in Brain : SwitchBrain(b)
  BY <1>2, SwitchBrainKeeps
<1>3. CASE \E s \in Secret : Start(s)
  BY <1>3, StartKeeps
<1>4. CASE SendGameValue
  BY <1>4, SendKeeps
<1>5. CASE SendLoop
  BY <1>5, SendLoopKeeps
<1>6. CASE MakeStep
  BY <1>6, MakeStepKeeps
<1>7. CASE FinishGame
  BY <1>7, FinishGameKeeps
<1>8. CASE UNCHANGED vars
  BY <1>8 DEF vars, gameVars, choiceVars, IInv, TypeOK, BreaksOnlyThen, WindowFits, GameStands,
              RowsShowHistory, NobodyHasHit, ComputerHasHit, PlayerHasHit, Guesses, AfterGame
<1> QED  BY <1>1, <1>2, <1>3, <1>4, <1>5, <1>6, <1>7, <1>8 DEF Next

(* IInv of GameView is an inductive invariant of the window.               *)
THEOREM WindowInductive == Spec => []IInv
BY InitCorrect, NextKeeps, PTL DEF Spec

(* The controls the user can reach fit the game the controller holds, in   *)
(* every mode and after any switches of mode and brain.                    *)
THEOREM ControlsCorrect == Spec => []ControlsFitGame
<1>1. IInv => ControlsFitGame
  <2> SUFFICES ASSUME IInv, broken = "no", ~busy
               PROVE  /\ "send" \in enabled => CanStep(game, Me)
                      /\ "makeStep" \in enabled => InPlay(game) /\ UnsteppedPlayers(game) = {}
                      /\ "finish" \in enabled => InPlay(game) /\ game.winners # {}
                      /\ enabled \cap {"start", "mode", "brain"} # {} => ~InPlay(game)
                      /\ InPlay(game) => enabled \cap {"send", "makeStep"} # {}
    BY DEF ControlsFitGame
  <2>1. WindowFits /\ GameStands /\ TypeOK
    BY DEF IInv
  <2>2. CASE ~InPlay(game)
    BY <2>1, <2>2 DEF WindowFits, AfterGame, BrainBox
  <2>3. CASE InPlay(game)
    <3>1. /\ game \in Game /\ mode \in Mode /\ ids = Wanted(mode)
          /\ Me \in ids => game.state[Me] = "IN_PROGRESS"
          /\ Me \in Present(game) <=> Me \in ids
          /\ \A p \in Process : game.state[p] = "IN_PROGRESS" => game.attempts[p] = game.step
      BY <2>3, TurnFacts
    <3>2. /\ enabled = Turn(mode) \cup (IF winIds = {} THEN {} ELSE {"finish"})
          /\ winIds = game.winners
      BY <2>1, <2>3 DEF GameStands
    <3>3. mode = "COMPUTER" => UnsteppedPlayers(game) = {}
      BY <3>1, TwoProcesses, ModesAskFor, ListsOfTwo DEF UnsteppedPlayers, UnsteppedAt
    <3>4. mode # "COMPUTER" => CanStep(game, Me)
      BY <3>1, TwoProcesses DEF CanStep, PlayerList, Wanted, Game
    <3> QED  BY <2>3, <3>2, <3>3, <3>4 DEF Turn
  <2> QED  BY <2>2, <2>3
<1> QED  BY <1>1, WindowInductive, PTL

(* Whoever still guesses has its guesses in its table, as far as the table *)
(* of the computer reaches.                                                *)
THEOREM RowsCorrect == Spec => []RowsShowHistory
<1>1. IInv => RowsShowHistory
  BY DEF IInv, RowsShowHistory
<1> QED  BY <1>1, WindowInductive, PTL

(* The controller refuses no call of the window, and the window breaks in  *)
(* three ways only: on digits that are not a value, sent in the player's   *)
(* turn, on the empty guess of a player who has hit, or on the row of a    *)
(* late hit.                                                               *)
THEOREM BreaksCorrect == Spec => []BreaksOnlyThen
<1>1. IInv => BreaksOnlyThen
  BY DEF IInv
<1> QED  BY <1>1, WindowInductive, PTL
=============================================================================
