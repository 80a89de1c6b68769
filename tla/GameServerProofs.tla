--------------------------- MODULE GameServerProofs ---------------------------
(***************************************************************************)
(* What the storage, the players' entries and the controllers have to do   *)
(* with each other, for every set of ids, every limit and every report a   *)
(* client may restore a game from.                                         *)
(***************************************************************************)
EXTENDS GameServer, GameOpsProofs

(* The entries of one game, by player.                                     *)
Mine(g) == [p \in Player |-> entry[p][g]]

-----------------------------------------------------------------------------
LEMMA InitSInv == Init => SInv
<1> SUFFICES ASSUME Init PROVE SInv
  OBVIOUS
<1>1. exists = {} /\ known = {} /\ game = [g \in GameId |-> EmptyGame]
  BY DEF Init
<1>2. entry = [p \in Player |-> [g \in GameId |-> NoEntry]]
  BY DEF Init
<1>3. NoEntry \in Entry /\ NoEntry.computers = {}
  BY DEF NoEntry, Entry
<1> HIDE DEF NoEntry, Entry
<1>4. Typed
  BY <1>1, <1>2, <1>3, EmptyGamePresent DEF Typed
<1>5. \A p \in Player, g \in GameId : entry[p][g].computers = {}
  BY <1>2, <1>3
<1>6. ASSUME NEW g \in GameId
      PROVE  GoodGame(game[g], g \in exists, known, Mine(g))
  <2>1. IsFiniteSet(Present(game[g]))
    BY <1>1, EmptyGamePresent, FS_EmptySet
  <2>2. \A p \in Player : Mine(g)[p].computers = {}
    BY <1>5 DEF Mine
  <2> QED  BY <2>1, <2>2, <1>1 DEF GoodGame
<1> QED  BY <1>4, <1>6 DEF SInv, Mine

(* A handler touches one game and what players remember of that game: the  *)
(* others stay as good as they were.                                       *)
LEMMA OneGame ==
  ASSUME SInv, NEW g \in GameId, NEW gm \in Game, NEW e \in [Player -> Entry],
         SetGame(g, gm),
         entry' = [p \in Player |-> [entry[p] EXCEPT ![g] = e[p]]],
         known \subseteq known', known' \subseteq Player,
         exists' \subseteq GameId, exists' \ {g} = exists \ {g},
         GoodGame(gm, g \in exists', known', e)
  PROVE  SInv'
<1>1. game' = [game EXCEPT ![g] = gm] /\ game \in [GameId -> Game]
  BY DEF SetGame, SInv, Typed
<1>2. entry \in [Player -> [GameId -> Entry]]
  BY DEF SInv, Typed
<1> HIDE DEF Entry
<1>3. Typed'
  BY <1>1, <1>2 DEF Typed
<1>4. ASSUME NEW h \in GameId
      PROVE  GoodGame(game'[h], h \in exists', known', [p \in Player |-> entry'[p][h]])
  <2>1. CASE h = g
    <3>1. [p \in Player |-> entry'[p][h]] = e
      BY <1>2, <2>1
    <3>2. game'[h] = gm
      BY <1>1, <2>1
    <3> QED  BY <3>1, <3>2, <2>1
  <2>2. CASE h # g
    <3>1. [p \in Player |-> entry'[p][h]] = Mine(h)
      BY <1>2, <2>2 DEF Mine
    <3>2. game'[h] = game[h] /\ (h \in exists' <=> h \in exists)
      BY <1>1, <2>2
    <3>3. GoodGame(game[h], h \in exists, known, Mine(h))
      BY DEF SInv, Mine
    <3>4. GoodGame(game[h], h \in exists', known', Mine(h))
      BY <3>2, <3>3 DEF GoodGame
    <3> QED  BY <3>1, <3>2, <3>4
  <2> QED  BY <2>1, <2>2
<1> QED  BY <1>3, <1>4 DEF SInv

(* The common case of it: one player's entry of the game is set.           *)
LEMMA OneEntry ==
  ASSUME SInv, NEW g \in GameId, NEW gm \in Game, NEW p \in Player, NEW x \in Entry,
         SetGame(g, gm), SetEntry(p, g, x),
         known \subseteq known', known' \subseteq Player,
         exists' \subseteq GameId, exists' \ {g} = exists \ {g},
         GoodGame(gm, g \in exists', known', [Mine(g) EXCEPT ![p] = x])
  PROVE  SInv'
<1> DEFINE e == [Mine(g) EXCEPT ![p] = x]
<1>1. entry \in [Player -> [GameId -> Entry]]
  BY DEF SInv, Typed
<1> HIDE DEF Entry
<1>2. e \in [Player -> Entry]
  BY <1>1 DEF Mine
<1>3. \A q \in Player : [entry[q] EXCEPT ![g] = e[q]] = IF q = p THEN [entry[p] EXCEPT ![g] = x] ELSE entry[q]
  BY <1>1 DEF Mine
<1>4. entry' = [entry EXCEPT ![p] = [entry[p] EXCEPT ![g] = x]]
  BY <1>1 DEF SetEntry
<1>5. entry' = [q \in Player |-> [entry[q] EXCEPT ![g] = e[q]]]
  BY <1>1, <1>3, <1>4
<1> HIDE DEF e
<1> QED  BY <1>2, <1>5, OneGame DEF e

(* And one in which no entry changes and nobody enters or leaves.          *)
LEMMA SameProcesses ==
  ASSUME SInv, NEW g \in GameId, NEW gm \in Game, Present(gm) = Present(game[g]),
         SetGame(g, gm), UNCHANGED <<exists, known, entry>>
  PROVE  SInv'
<1>1. /\ entry \in [Player -> [GameId -> Entry]] /\ exists \subseteq GameId
      /\ known \subseteq Player
      /\ GoodGame(game[g], g \in exists, known, Mine(g))
  BY DEF SInv, Typed, Mine
<1> HIDE DEF Entry
<1>2. GoodGame(gm, g \in exists', known', Mine(g))
  BY <1>1 DEF GoodGame, PlayerList, ComputerList
<1>3. entry' = [p \in Player |-> [entry[p] EXCEPT ![g] = Mine(g)[p]]]
  BY <1>1 DEF Mine
<1>4. Mine(g) \in [Player -> Entry]
  BY <1>1 DEF Mine
<1> QED  BY <1>1, <1>2, <1>3, <1>4, OneGame

-----------------------------------------------------------------------------
(* What is known of one game in a state that satisfies the invariant.      *)
LEMMA OfOneGame ==
  ASSUME SInv, NEW g \in GameId
  PROVE  /\ game[g] \in Game /\ IsFiniteSet(Present(game[g]))
         /\ Present(game[g]) \subseteq Process
         /\ GoodGame(game[g], g \in exists, known, Mine(g))
         /\ exists \subseteq GameId /\ known \subseteq Player
         /\ \A p \in Player : /\ entry[p][g] \in Entry
                             /\ Mine(g)[p] = entry[p][g]
<1>1. GoodGame(game[g], g \in exists, known, Mine(g))
  BY DEF SInv, Mine
<1>2. /\ game \in [GameId -> Game] /\ entry \in [Player -> [GameId -> Entry]]
      /\ exists \subseteq GameId /\ known \subseteq Player
  BY DEF SInv, Typed
<1> HIDE DEF Game, Entry
<1>3. \A p \in Player : entry[p][g] \in Entry /\ Mine(g)[p] = entry[p][g]
  BY <1>2 DEF Mine
<1>4. IsFiniteSet(Present(game[g])) /\ Present(game[g]) \subseteq Process
  BY <1>1 DEF GoodGame, Present
<1> QED  BY <1>1, <1>2, <1>3, <1>4

LEMMA CreateGameGood ==
  ASSUME SInv, NEW p \in Player, NEW g \in GameId, CreateGame(p, g)
  PROVE  SInv'
<1> DEFINE gm == InitGame(AddPlayer(EmptyGame, p))
           x == NewEntry(TRUE, {})
<1>1. gm \in Game /\ Present(gm) = {p}
  BY EmptyGamePresent, ListOpsTyped, ListOpsPresent, InitGamePresent
<1>2. x \in Entry /\ x.in /\ x.computers = {}
  BY DEF NewEntry, Entry
<1>3. /\ SetGame(g, gm) /\ SetEntry(p, g, x) /\ g \notin exists
      /\ known' = known \cup {p} /\ exists' = exists \cup {g}
  BY DEF CreateGame, CanCreate
<1> HIDE DEF gm, x
<1>4. Mine(g) = [q \in Player |-> entry[q][g]]
  BY DEF Mine
<1>5. GoodGame(gm, g \in exists', known', [Mine(g) EXCEPT ![p] = x])
  <2> DEFINE e == [Mine(g) EXCEPT ![p] = x]
  <2>1. e[p] = x /\ \A q \in Player : q # p => e[q] = Mine(g)[q]
    BY <1>4
  <2>2. \A q \in Player : e[q].computers = {}
    BY <2>1, <1>2, <1>3, OfOneGame DEF GoodGame
  <2>3. IsFiniteSet(Present(gm))
    BY <1>1, FS_Singleton
  <2> HIDE DEF e
  <2>4. GoodGame(gm, g \in exists', known', e)
    BY <1>1, <1>2, <1>3, <2>1, <2>2, <2>3 DEF GoodGame, PlayerList
  <2> QED  BY <2>4 DEF e
<1> QED  BY <1>1, <1>2, <1>3, <1>5, OfOneGame, OneEntry

LEMMA CreateComputerGameGood ==
  ASSUME SInv, NEW p \in Player, NEW g \in GameId, NEW c \in Computer,
         CreateComputerGame(p, g, c)
  PROVE  SInv'
<1> DEFINE gm == InitGame(AddComputer(EmptyGame, c))
           x == NewEntry(TRUE, {c})
<1>1. gm \in Game /\ Present(gm) = {c}
  BY EmptyGamePresent, ListOpsTyped, ListOpsPresent, InitGamePresent
<1>2. x \in Entry /\ x.in /\ x.computers = {c}
  BY DEF NewEntry, Entry
<1>3. /\ SetGame(g, gm) /\ SetEntry(p, g, x) /\ g \notin exists
      /\ known' = known \cup {p} /\ exists' = exists \cup {g}
  BY DEF CreateComputerGame, CanCreate
<1> HIDE DEF gm, x
<1>4. Mine(g) = [q \in Player |-> entry[q][g]]
  BY DEF Mine
<1>5. GoodGame(gm, g \in exists', known', [Mine(g) EXCEPT ![p] = x])
  <2> DEFINE e == [Mine(g) EXCEPT ![p] = x]
  <2>1. e[p] = x /\ \A q \in Player : q # p => e[q] = Mine(g)[q]
    BY <1>4
  <2>2. \A q \in Player : q # p => e[q].computers = {}
    BY <2>1, <1>3, OfOneGame DEF GoodGame
  <2>3. IsFiniteSet(Present(gm))
    BY <1>1, FS_Singleton
  <2>4. PlayerList(gm) = {} /\ ComputerList(gm) = {c}
    BY <1>1, ProcessAssumption DEF PlayerList, ComputerList
  <2> HIDE DEF e
  <2>5. GoodGame(gm, g \in exists', known', e)
    BY <1>1, <1>2, <1>3, <2>1, <2>2, <2>3, <2>4 DEF GoodGame
  <2> QED  BY <2>5 DEF e
<1> QED  BY <1>1, <1>2, <1>3, <1>5, OfOneGame, OneEntry

LEMMA AddPlayerGood ==
  ASSUME SInv, NEW p \in Player, NEW g \in GameId, AddPlayerToGame(p, g)
  PROVE  SInv'
<1> DEFINE gm == InitGame(AddPlayer(game[g], p))
           x == NewEntry(FALSE, {})
<1>1. gm \in Game /\ Present(gm) = Present(game[g]) \cup {p}
  BY OfOneGame, ListOpsTyped, ListOpsPresent, InitGamePresent
<1>2. x \in Entry /\ x.in /\ x.computers = {}
  BY DEF NewEntry, Entry
<1>3. /\ SetGame(g, gm) /\ SetEntry(p, g, x) /\ g \in exists
      /\ known' = known \cup {p} /\ exists' = exists
  BY DEF AddPlayerToGame
<1> HIDE DEF gm, x
<1>4. Mine(g) = [q \in Player |-> entry[q][g]]
  BY DEF Mine
<1>5. GoodGame(gm, g \in exists', known', [Mine(g) EXCEPT ![p] = x])
  <2> DEFINE e == [Mine(g) EXCEPT ![p] = x]
  <2>1. e[p] = x /\ \A q \in Player : q # p => e[q] = Mine(g)[q]
    BY <1>4
  <2>2. GoodGame(game[g], g \in exists, known, Mine(g)) /\ IsFiniteSet(Present(gm))
    BY <1>1, OfOneGame, FS_AddElement
  <2> HIDE DEF e
  <2>3. GoodGame(gm, g \in exists', known', e)
    BY <1>1, <1>2, <1>3, <2>1, <2>2 DEF GoodGame, PlayerList, ComputerList
  <2> QED  BY <2>3 DEF e
<1> QED  BY <1>1, <1>2, <1>3, <1>5, OfOneGame, OneEntry

LEMMA AddComputerGood ==
  ASSUME SInv, NEW p \in Player, NEW g \in GameId, NEW c \in Computer,
         AddComputerToGame(p, g, c)
  PROVE  SInv'
<1> DEFINE gm == InitGame(AddComputer(game[g], c))
           x == [entry[p][g] EXCEPT !.computers = @ \cup {c}]
<1>1. gm \in Game /\ Present(gm) = Present(game[g]) \cup {c}
  BY OfOneGame, ListOpsTyped, ListOpsPresent, InitGamePresent
<1>2. /\ x \in Entry /\ x.in = entry[p][g].in
      /\ x.computers = entry[p][g].computers \cup {c}
  BY OfOneGame DEF Entry
<1>3. /\ SetGame(g, gm) /\ SetEntry(p, g, x) /\ g \in exists
      /\ known' = known /\ exists' = exists /\ c \notin Present(game[g])
  BY DEF AddComputerToGame, Found, CanAddComputer
<1> HIDE DEF gm, x
<1>4. Mine(g) = [q \in Player |-> entry[q][g]]
  BY DEF Mine
<1>5. GoodGame(gm, g \in exists', known', [Mine(g) EXCEPT ![p] = x])
  <2> DEFINE e == [Mine(g) EXCEPT ![p] = x]
  <2>1. e[p] = x /\ \A q \in Player : q # p => e[q] = Mine(g)[q]
    BY <1>4
  <2>2. GoodGame(game[g], g \in exists, known, Mine(g)) /\ IsFiniteSet(Present(gm))
    BY <1>1, OfOneGame, FS_AddElement
  <2>3. PlayerList(gm) = PlayerList(game[g]) /\ ComputerList(gm) = ComputerList(game[g]) \cup {c}
    BY <1>1, ProcessAssumption DEF PlayerList, ComputerList
  <2>4. \A q \in Player : c \notin Mine(g)[q].computers
    BY <1>3, <2>2 DEF GoodGame, ComputerList
  <2>5. \A q \in Player : /\ e[q].in = Mine(g)[q].in
                         /\ e[q].computers = Mine(g)[q].computers \cup (IF q = p THEN {c} ELSE {})
    BY <1>2, <1>4, <2>1
  <2> HIDE DEF e
  <2>6. ASSUME NEW q \in Player, NEW d \in e[q].computers
        PROVE  /\ d \in ComputerList(gm)
               /\ \A o \in Player \ {q} : d \notin e[o].computers
    <3>1. CASE d = c
      <4>1. q = p
        BY <3>1, <2>4, <2>5, <2>6
      <4> QED  BY <3>1, <4>1, <2>3, <2>4, <2>5
    <3>2. CASE d # c
      <4>1. d \in Mine(g)[q].computers
        BY <3>2, <2>5, <2>6
      <4>2. /\ d \in ComputerList(game[g])
            /\ \A o \in Player \ {q} : d \notin Mine(g)[o].computers
        BY <4>1, <2>2 DEF GoodGame
      <4> QED  BY <3>2, <4>2, <2>3, <2>5
    <3> QED  BY <3>1, <3>2
  <2>7. \A q \in PlayerList(gm) :
          (\A d \in Computer : <<q, d>> \notin SameId) => q \in known' /\ e[q].in
    BY <1>3, <2>2, <2>3, <2>5 DEF GoodGame, PlayerList
  <2>8. GoodGame(gm, g \in exists', known', e)
    BY <1>1, <1>3, <2>2, <2>6, <2>7 DEF GoodGame
  <2> QED  BY <2>8 DEF e
<1> QED  BY <1>1, <1>2, <1>3, <1>5, OfOneGame, OneEntry

LEMMA GiveRightsGood ==
  ASSUME SInv, NEW p \in Player, NEW g \in GameId, GiveRights(p, g)
  PROVE  SInv'
<1> DEFINE x == [entry[p][g] EXCEPT !.in = TRUE, !.host = TRUE]
<1>1. x \in Entry /\ x.in /\ x.computers = entry[p][g].computers
  BY OfOneGame DEF Entry
<1>2. SetEntry(p, g, x) /\ g \in exists /\ UNCHANGED <<exists, game, known>>
  BY DEF GiveRights, Found
<1> HIDE DEF x
<1>3. Mine(g) = [q \in Player |-> entry[q][g]]
  BY DEF Mine
<1>4. SetGame(g, game[g])
  BY <1>2 DEF SetGame, SInv, Typed
<1>5. GoodGame(game[g], g \in exists', known', [Mine(g) EXCEPT ![p] = x])
  <2> DEFINE e == [Mine(g) EXCEPT ![p] = x]
  <2>1. \A q \in Player : /\ Mine(g)[q].in => e[q].in
                         /\ e[q].computers = Mine(g)[q].computers
    BY <1>1, <1>3
  <2> HIDE DEF e
  <2>2. GoodGame(game[g], g \in exists', known', e)
    BY <1>2, <2>1, OfOneGame DEF GoodGame
  <2> QED  BY <2>2 DEF e
<1> QED  BY <1>1, <1>2, <1>4, <1>5, OfOneGame, OneEntry

(* Who is told of enters the game, owners that do not play have an entry.  *)
LEMMA RestoreGood ==
  ASSUME SInv, NEW g \in GameId, NEW r \in Report, NEW s \in Secret,
         RestoreGameCommand(g, r, s)
  PROVE  SInv'
<1> DEFINE gm == RestoreGame(s, r.told)
           e == [p \in Player |-> RestoredEntry(r, p, entry[p][g])]
           own(p) == {c \in DOMAIN r.owner : r.owner[c] = p}
<1>1. /\ DOMAIN r.host \subseteq Player /\ DOMAIN r.host # {}
      /\ DOMAIN r.owner \subseteq Computer
      /\ \A c \in DOMAIN r.owner : r.owner[c] \in Player
      /\ DOMAIN r.told = DOMAIN r.host \cup DOMAIN r.owner
      /\ IsFiniteSet(DOMAIN r.told)
      /\ \A p \in DOMAIN r.told : r.told[p].rounds \in Nat
      /\ \A p \in DOMAIN r.host : r.host[p] \in BOOLEAN
  BY ReportAssumption
<1>2. gm \in Game /\ Present(gm) = DOMAIN r.told
  <2>1. DOMAIN r.told \subseteq Process /\ DOMAIN r.told \cap Player # {}
    BY <1>1 DEF Process
  <2> QED  BY <1>1, <2>1, RestorePresent
<1>3. PlayerList(gm) = DOMAIN r.host /\ ComputerList(gm) = DOMAIN r.owner
  BY <1>1, <1>2, ProcessAssumption DEF PlayerList, ComputerList
<1>4. /\ SetGame(g, gm) /\ g \notin exists
      /\ known' = known \cup ToldPlayers(r) /\ exists' = exists \cup {g}
      /\ entry' = [p \in Player |-> [entry[p] EXCEPT ![g] = RestoredEntry(r, p, @)]]
  BY DEF RestoreGameCommand
<1> HIDE DEF gm
<1>5. ToldPlayers(r) \subseteq Player /\ DOMAIN r.host \subseteq ToldPlayers(r)
  BY <1>1 DEF ToldPlayers
<1>6. ASSUME NEW p \in Player
      PROVE  /\ RestoredEntry(r, p, entry[p][g]) \in Entry
             /\ p \in DOMAIN r.host => RestoredEntry(r, p, entry[p][g]).in
             /\ RestoredEntry(r, p, entry[p][g]).computers = own(p)
  <2> DEFINE x == entry[p][g]
             kept == IF x.in THEN x
                     ELSE IF p \in DOMAIN r.host THEN NewEntry(r.host[p], {})
                     ELSE IF own(p) # {} THEN NewEntry(FALSE, {}) ELSE x
  <2>1. x \in Entry /\ x.computers = {}
    BY <1>4, OfOneGame DEF GoodGame
  <2>2. kept \in Entry /\ kept.computers = {} /\ (p \in DOMAIN r.host => kept.in)
    BY <1>1, <2>1 DEF Entry, NewEntry
  <2>3. RestoredEntry(r, p, x) = [kept EXCEPT !.computers = @ \cup own(p)]
    BY DEF RestoredEntry
  <2>4. own(p) \in SUBSET Computer
    BY <1>1
  <2> HIDE DEF kept, own
  <2> QED  BY <2>2, <2>3, <2>4 DEF Entry
<1> HIDE DEF Entry
<1>7. e \in [Player -> Entry]
  BY <1>6
<1>8. entry' = [p \in Player |-> [entry[p] EXCEPT ![g] = e[p]]]
  BY <1>4 DEF SInv, Typed
<1>9. \A p \in Player : e[p].computers = own(p) /\ (p \in DOMAIN r.host => e[p].in)
  BY <1>6
<1> HIDE DEF e
<1>10. GoodGame(gm, g \in exists', known', e)
  BY <1>1, <1>2, <1>3, <1>4, <1>5, <1>9 DEF GoodGame
<1> QED  BY <1>2, <1>4, <1>5, <1>7, <1>8, <1>10, OfOneGame, OneGame

-----------------------------------------------------------------------------
(* The commands of a running game: nobody enters or leaves.                *)
LEMMA PlayKeepsProcesses ==
  ASSUME SInv, NEW g \in GameId,
         \/ \E p \in Player :
              \/ \E c \in Computer : SwitchBrain(p, g, c)
              \/ \E s \in Secret : StartGameCommand(p, g, s)
              \/ PlayerStep(p, g)
              \/ PlayerGiveUpCommand(p, g)
              \/ ComputerStep(p, g)
              \/ FinishGame(p, g)
         \/ FinishGameLoop(g)
  PROVE  \E gm \in Game : /\ Present(gm) = Present(game[g]) /\ SetGame(g, gm)
                          /\ UNCHANGED <<exists, known, entry>>
<1> DEFINE gg == game[g]
           Same == \E gm \in Game : /\ Present(gm) = Present(gg) /\ SetGame(g, gm)
                                   /\ UNCHANGED <<exists, known, entry>>
<1>1. gg \in Game
  BY OfOneGame
<1>2. ASSUME NEW gm \in Game, Present(gm) = Present(gg), SetGame(g, gm),
             UNCHANGED <<exists, known, entry>>
      PROVE  Same
  BY <1>2
<1>3. ASSUME NEW p \in Player, NEW c \in Computer, SwitchBrain(p, g, c) PROVE Same
  <2> DEFINE gm == InitGame(SwitchGameBrain(gg, c))
  <2>1. gm \in Game /\ Present(gm) = Present(gg)
    BY <1>1, <1>3, ListOpsTyped, ListOpsPresent, InitGamePresent DEF SwitchBrain
  <2>2. SetGame(g, gm) /\ UNCHANGED <<exists, known, entry>>
    BY <1>3 DEF SwitchBrain
  <2> HIDE DEF gm
  <2> QED  BY <1>2, <2>1, <2>2
<1>4. ASSUME NEW p \in Player, NEW s \in Secret, StartGameCommand(p, g, s) PROVE Same
  BY <1>1, <1>2, <1>4, StartGamePresent DEF StartGameCommand
<1>5. ASSUME NEW p \in Player, PlayerStep(p, g) PROVE Same
  <2>1. PICK hit \in BOOLEAN, hits \in Outcomes(gg) :
           SetGame(g, DoPlayerStep(gg, p, hit, hits))
    BY <1>5 DEF PlayerStep
  <2>2. p \in PlayerList(gg) /\ UNCHANGED <<exists, known, entry>>
    BY <1>5 DEF PlayerStep, CanStep
  <2> DEFINE a == AppendGameValue(gg, p, hit)
  <2>3. p \in Present(gg) /\ p \notin Computer /\ p \in Process
    BY <2>2, ProcessAssumption DEF PlayerList, Present
  <2>4. a \in Game /\ Present(a) = Present(gg)
    BY <1>1, <2>3, AppendPresent
  <2>5. Movers(a) = Movers(gg)
    <3>1. /\ a.step = gg.step
          /\ \A c \in Process : c # p => a.state[c] = gg.state[c] /\ a.attempts[c] = gg.attempts[c]
      BY <1>1, <2>3 DEF AppendGameValue, Game
    <3> HIDE DEF a
    <3> QED  BY <2>3, <2>4, <3>1 DEF Movers, ComputerList, Process
  <2>6. hits \in SUBSET Movers(gg)
    BY DEF Outcomes
  <2> HIDE DEF a
  <2>7. FinishStep(a, hits) \in Game /\ Present(FinishStep(a, hits)) = Present(gg)
    BY <2>4, <2>5, <2>6, FinishStepPresent
  <2> QED  BY <1>2, <2>1, <2>2, <2>7 DEF DoPlayerStep, a
<1>6. ASSUME NEW p \in Player, PlayerGiveUpCommand(p, g) PROVE Same
  <2>1. PICK hits \in Outcomes(gg) : SetGame(g, PlayerGiveUp(gg, p, hits))
    BY <1>6 DEF PlayerGiveUpCommand
  <2>2. p \in PlayerList(gg) /\ UNCHANGED <<exists, known, entry>>
    BY <1>6 DEF PlayerGiveUpCommand, CanGiveUp
  <2> DEFINE a == GiveUp(gg, {p})
  <2>3. p \in Present(gg) /\ p \notin Computer
    BY <2>2, ProcessAssumption DEF PlayerList
  <2>4. a \in Game /\ Present(a) = Present(gg)
    BY <1>1, <2>3, GiveUpPresent
  <2>5. Movers(a) = Movers(gg)
    <3>1. /\ a.step = gg.step /\ a.attempts = gg.attempts
          /\ \A c \in Process : c # p => a.state[c] = gg.state[c]
      BY <1>1 DEF GiveUp, Game
    <3> HIDE DEF a
    <3> QED  BY <2>3, <2>4, <3>1 DEF Movers, ComputerList, Process
  <2>6. hits \in SUBSET Movers(gg)
    BY DEF Outcomes
  <2> HIDE DEF a
  <2>7. /\ FinishStep(a, hits) \in Game /\ Present(FinishStep(a, hits)) = Present(gg)
        /\ CheckFinish(a) \in Game /\ Present(CheckFinish(a)) = Present(gg)
    BY <2>4, <2>5, <2>6, FinishStepPresent, CheckFinishPresent
  <2>8. /\ PlayerGiveUp(gg, p, hits) \in Game
        /\ Present(PlayerGiveUp(gg, p, hits)) = Present(gg)
    BY <2>7 DEF PlayerGiveUp, a
  <2> QED  BY <1>2, <2>1, <2>2, <2>8
<1>7. ASSUME NEW p \in Player, ComputerStep(p, g) PROVE Same
  BY <1>1, <1>2, <1>7, FinishStepPresent DEF ComputerStep, Outcomes
<1>8. ASSUME NEW p \in Player, FinishGame(p, g) PROVE Same
  <2>1. PlayerList(gg) \cap Running(gg) \in SUBSET Present(gg)
    BY DEF PlayerList
  <2>2. GiveUpAll(gg) \in Game /\ Present(GiveUpAll(gg)) = Present(gg)
    BY <1>1, <2>1, GiveUpPresent DEF GiveUpAll
  <2> QED  BY <1>2, <1>8, <2>2 DEF FinishGame
<1>9. ASSUME FinishGameLoop(g) PROVE Same
  <2>1. UNCHANGED <<exists, known, entry>>
    BY <1>9 DEF FinishGameLoop
  <2>2. CASE gg.stage = "FINISHED"
    <3>1. SetGame(g, gg)
      BY <1>9, <2>2 DEF FinishGameLoop, SetGame, SInv, Typed
    <3> QED  BY <1>1, <1>2, <2>1, <3>1
  <2>3. CASE gg.stage # "FINISHED"
    BY <1>1, <1>2, <1>9, <2>1, <2>3, FinishStepPresent DEF FinishGameLoop, Outcomes
  <2> QED  BY <2>2, <2>3
<1> HIDE DEF Same
<1>10. Same
  BY <1>3, <1>4, <1>5, <1>6, <1>7, <1>8, <1>9
<1> QED  BY <1>10 DEF Same

-----------------------------------------------------------------------------
(* A game that a process has left, and which is kept while others are in.  *)
LEMMA KeptGood ==
  ASSUME SInv, NEW g \in exists, NEW p \in Player, NEW x \in Entry,
         NEW r \in Game, IsFiniteSet(Present(r)),
         KeepIfPlayed(g, r), SetEntry(p, g, x), UNCHANGED known,
         \A q \in PlayerList(r) : (\A c \in Computer : <<q, c>> \notin SameId)
            => q \in known /\ [Mine(g) EXCEPT ![p] = x][q].in,
         \A q \in Player : \A c \in [Mine(g) EXCEPT ![p] = x][q].computers :
            /\ c \in ComputerList(r)
            /\ \A o \in Player \ {q} : c \notin [Mine(g) EXCEPT ![p] = x][o].computers
  PROVE  SInv'
<1> DEFINE e == [Mine(g) EXCEPT ![p] = x]
<1>1. g \in GameId /\ exists \subseteq GameId /\ known \subseteq Player
  BY DEF SInv, Typed
<1> HIDE DEF e
<1>2. CASE PlayersCount(r) = 0
  <2>1. Present(r) = {}
    BY <1>2, FS_EmptySet DEF PlayersCount
  <2>2. \A q \in Player : e[q].computers = {}
    BY <2>1 DEF ComputerList, e
  <2>3. exists' = exists \ {g} /\ SetGame(g, EmptyGame)
    BY <1>2 DEF KeepIfPlayed
  <2>4. GoodGame(EmptyGame, g \in exists', known', e)
    BY <2>2, <2>3, EmptyGamePresent, FS_EmptySet DEF GoodGame
  <2> QED  BY <1>1, <2>3, <2>4, EmptyGamePresent, OneEntry DEF e
<1>3. CASE PlayersCount(r) # 0
  <2>1. Present(r) # {}
    BY <1>3, FS_EmptySet DEF PlayersCount
  <2>2. exists' = exists /\ SetGame(g, r)
    BY <1>3 DEF KeepIfPlayed
  <2>3. GoodGame(r, g \in exists', known', e)
    BY <2>1, <2>2 DEF GoodGame, e
  <2> QED  BY <1>1, <2>2, <2>3, OneEntry DEF e
<1> QED  BY <1>2, <1>3

LEMMA LeavePlayerGood ==
  ASSUME SInv, NEW p \in Player, NEW g \in GameId, LeavePlayer(p, g)
  PROVE  SInv'
<1> DEFINE r == RemoveProcess(game[g], p)
           e == [Mine(g) EXCEPT ![p] = NoEntry]
<1>1. /\ g \in exists /\ entry[p][g].computers = {} /\ KeepIfPlayed(g, r)
      /\ SetEntry(p, g, NoEntry) /\ UNCHANGED known
  BY DEF LeavePlayer, Found
<1>2. r \in Game /\ Present(r) = Present(game[g]) \ {p}
  BY OfOneGame, ListOpsPresent DEF Process
<1>3. IsFiniteSet(Present(r))
  BY <1>2, OfOneGame, FS_RemoveElement
<1>4. NoEntry \in Entry /\ NoEntry.computers = {}
  BY DEF NoEntry, Entry
<1>5. GoodGame(game[g], g \in exists, known, Mine(g))
  BY OfOneGame
<1>6. /\ ComputerList(r) = ComputerList(game[g])
      /\ PlayerList(r) = PlayerList(game[g]) \ {p}
  BY <1>2, ProcessAssumption DEF PlayerList, ComputerList
<1> HIDE DEF r
<1>7. /\ \A q \in Player : e[q].computers = Mine(g)[q].computers
      /\ \A q \in Player : q # p => e[q] = Mine(g)[q]
  BY <1>1, <1>4 DEF Mine
<1>8. \A q \in PlayerList(r) : (\A c \in Computer : <<q, c>> \notin SameId)
            => q \in known /\ e[q].in
  BY <1>1, <1>5, <1>6, <1>7 DEF GoodGame, PlayerList
<1>9. \A q \in Player : \A c \in e[q].computers :
            /\ c \in ComputerList(r)
            /\ \A o \in Player \ {q} : c \notin e[o].computers
  BY <1>5, <1>6, <1>7 DEF GoodGame
<1> QED  BY <1>1, <1>2, <1>3, <1>4, <1>8, <1>9, KeptGood

LEMMA LeaveComputerGood ==
  ASSUME SInv, NEW p \in Player, NEW g \in GameId, NEW c \in Computer,
         LeaveComputer(p, g, c)
  PROVE  SInv'
<1> DEFINE r == RemoveProcess(game[g], c)
           x == IF <<p, c>> \in SameId THEN NoEntry
                ELSE [entry[p][g] EXCEPT !.computers = @ \ {c}]
           e == [Mine(g) EXCEPT ![p] = x]
<1>1. /\ g \in exists /\ c \in entry[p][g].computers /\ KeepIfPlayed(g, r)
      /\ SetEntry(p, g, x) /\ UNCHANGED known
  BY DEF LeaveComputer, Found
<1>2. r \in Game /\ Present(r) = Present(game[g]) \ {c}
  BY OfOneGame, ListOpsPresent DEF Process
<1>3. IsFiniteSet(Present(r))
  BY <1>2, OfOneGame, FS_RemoveElement
<1>4. /\ x \in Entry /\ x.computers \subseteq entry[p][g].computers \ {c}
      /\ <<p, c>> \notin SameId => x.in = entry[p][g].in
  BY OfOneGame DEF NoEntry, Entry
<1>5. GoodGame(game[g], g \in exists, known, Mine(g))
  BY OfOneGame
<1>6. /\ ComputerList(r) = ComputerList(game[g]) \ {c}
      /\ PlayerList(r) = PlayerList(game[g])
  BY <1>2, ProcessAssumption DEF PlayerList, ComputerList
<1> HIDE DEF r, x
<1>7. /\ e[p] = x /\ Mine(g)[p] = entry[p][g]
      /\ \A q \in Player : q # p => e[q] = Mine(g)[q]
  BY DEF Mine
<1> HIDE DEF e
<1>8. \A q \in PlayerList(r) : (\A d \in Computer : <<q, d>> \notin SameId)
            => q \in known /\ e[q].in
  BY <1>1, <1>4, <1>5, <1>6, <1>7 DEF GoodGame, PlayerList
<1>9. \A q \in Player : c \notin e[q].computers /\ e[q].computers \subseteq Mine(g)[q].computers
  BY <1>1, <1>4, <1>5, <1>7 DEF GoodGame
<1>10. \A q \in Player : \A d \in e[q].computers :
            /\ d \in ComputerList(r)
            /\ \A o \in Player \ {q} : d \notin e[o].computers
  BY <1>5, <1>6, <1>9 DEF GoodGame
<1> QED  BY <1>1, <1>2, <1>3, <1>4, <1>8, <1>10, KeptGood DEF e

(* Whoever removes a whole game was alone in it.                           *)
LEMMA RemoveGameGood ==
  ASSUME SInv, NEW p \in Player, NEW g \in GameId, RemoveGame(p, g)
  PROVE  SInv'
<1>1. /\ g \in exists /\ PlayersCount(game[g]) <= 1 /\ p \in Present(game[g])
      /\ exists' = exists \ {g} /\ SetGame(g, EmptyGame)
      /\ SetEntry(p, g, NoEntry) /\ UNCHANGED known
  BY DEF RemoveGame, Found, CanRemove
<1>2. Present(game[g]) = {p}
  <2>1. {p} \in SUBSET Present(game[g]) /\ Cardinality({p}) = 1
    BY <1>1, FS_Singleton
  <2>2. IsFiniteSet(Present(game[g])) /\ Cardinality(Present(game[g])) <= 1
    BY <1>1, OfOneGame DEF PlayersCount
  <2>3. 1 <= Cardinality(Present(game[g])) /\ Cardinality(Present(game[g])) \in Nat
    BY <2>1, <2>2, FS_Subset, FS_CardinalityType
  <2> QED  BY <2>1, <2>2, <2>3, FS_Subset
<1>3. ComputerList(game[g]) = {}
  BY <1>2, ProcessAssumption DEF ComputerList
<1>4. NoEntry \in Entry /\ NoEntry.computers = {}
  BY DEF NoEntry, Entry
<1> DEFINE e == [Mine(g) EXCEPT ![p] = NoEntry]
<1>5. \A q \in Player : e[q].computers = {}
  BY <1>3, <1>4, OfOneGame DEF GoodGame, Mine
<1> HIDE DEF e
<1>6. GoodGame(EmptyGame, g \in exists', known', e)
  BY <1>1, <1>5, EmptyGamePresent, FS_EmptySet DEF GoodGame
<1> QED  BY <1>1, <1>4, <1>6, OfOneGame, OneEntry, EmptyGamePresent DEF e

-----------------------------------------------------------------------------
LEMMA NextSInv == SInv /\ [Next]_vars => SInv'
<1> SUFFICES ASSUME SInv, [Next]_vars PROVE SInv'
  OBVIOUS
<1>1. ASSUME UNCHANGED <<exists, game, known, entry>> PROVE SInv'
  BY <1>1 DEF SInv, Typed
<1>2. CASE RegisterServer
  BY <1>1, <1>2 DEF RegisterServer
<1>3. CASE DisconnectServer
  <2>1. Init => SInv
    BY InitSInv
  <2>2. /\ exists' = {} /\ game' = [g \in GameId |-> EmptyGame] /\ known' = {}
        /\ entry' = [p \in Player |-> [g \in GameId |-> NoEntry]]
    BY <1>3 DEF DisconnectServer
  <2>3. NoEntry \in Entry /\ NoEntry.computers = {}
    BY DEF NoEntry, Entry
  <2> HIDE DEF NoEntry, Entry
  <2>4. Typed'
    BY <2>2, <2>3, EmptyGamePresent DEF Typed
  <2>5. ASSUME NEW g \in GameId
        PROVE  GoodGame(game'[g], g \in exists', known', [p \in Player |-> entry'[p][g]])
    <3>1. IsFiniteSet(Present(game'[g]))
      BY <2>2, EmptyGamePresent, FS_EmptySet
    <3> DEFINE e == [p \in Player |-> entry'[p][g]]
    <3>2. \A p \in Player : e[p].computers = {}
      BY <2>2, <2>3
    <3> HIDE DEF e
    <3>3. GoodGame(game'[g], g \in exists', known', e)
      BY <3>1, <3>2, <2>2 DEF GoodGame
    <3> QED  BY <3>3 DEF e
  <2> QED  BY <2>4, <2>5 DEF SInv
<1>4. ASSUME NEW p \in Player, CreatePlayer(p) PROVE SInv'
  <2>1. UNCHANGED <<exists, game, entry>> /\ known' = known \cup {p}
    BY <1>4 DEF CreatePlayer
  <2>2. Typed'
    BY <2>1 DEF SInv, Typed
  <2>3. ASSUME NEW g \in GameId
        PROVE  GoodGame(game[g], g \in exists, known', Mine(g))
    BY <2>1, OfOneGame DEF GoodGame
  <2> QED  BY <2>1, <2>2, <2>3 DEF SInv, Mine
<1>5. ASSUME NEW p \in Player, NEW g \in GameId,
             \/ CreateGame(p, g)
             \/ AddPlayerToGame(p, g)
             \/ GiveRights(p, g)
             \/ LeavePlayer(p, g)
             \/ RemoveGame(p, g)
             \/ \E c \in Computer :
                  \/ CreateComputerGame(p, g, c)
                  \/ AddComputerToGame(p, g, c)
                  \/ LeaveComputer(p, g, c)
      PROVE  SInv'
  BY <1>5, CreateGameGood, AddPlayerGood, GiveRightsGood, LeavePlayerGood, RemoveGameGood,
     CreateComputerGameGood, AddComputerGood, LeaveComputerGood
<1>6. ASSUME NEW p \in Player, NEW g \in GameId,
             \/ \E s \in Secret : StartGameCommand(p, g, s)
             \/ PlayerStep(p, g)
             \/ PlayerGiveUpCommand(p, g)
             \/ ComputerStep(p, g)
             \/ FinishGame(p, g)
             \/ \E c \in Computer : SwitchBrain(p, g, c)
      PROVE  SInv'
  BY <1>6, PlayKeepsProcesses, SameProcesses
<1>7. ASSUME NEW g \in GameId, FinishGameLoop(g) PROVE SInv'
  BY <1>7, PlayKeepsProcesses, SameProcesses
<1>8. ASSUME NEW g \in GameId, NEW r \in Report, NEW s \in Secret,
             RestoreGameCommand(g, r, s)
      PROVE  SInv'
  BY <1>8, RestoreGood
<1>9. ASSUME Crash PROVE SInv'
  BY <1>1, <1>9 DEF Crash
<1>10. ASSUME NEW p \in Player, NEW g \in GameId, ComputerStepCrash(p, g) PROVE SInv'
  BY <1>9, <1>10 DEF ComputerStepCrash
<1>11. ASSUME NEW g \in GameId, FinishGameCrash(g) PROVE SInv'
  BY <1>9, <1>11 DEF FinishGameCrash
<1>12. ASSUME NEW g \in GameId, NEW r \in Report, RestoreGameAtLimit(g, r) PROVE SInv'
  BY <1>9, <1>12 DEF RestoreGameAtLimit
<1>13. CASE UNCHANGED vars
  BY <1>1, <1>13 DEF vars
<1>14. CASE Next
  BY <1>2, <1>3, <1>4, <1>5, <1>6, <1>7, <1>8, <1>10, <1>11, <1>12, <1>14 DEF Next
<1> QED  BY <1>13, <1>14

LEMMA SInvImplies ==
  SInv => PlayersHaveTheirGames /\ OwnedComputersExist /\ GamesHaveProcesses
<1> SUFFICES ASSUME SInv
             PROVE  PlayersHaveTheirGames /\ OwnedComputersExist /\ GamesHaveProcesses
  OBVIOUS
<1>1. exists \subseteq GameId
  BY DEF SInv, Typed
<1>2. PlayersHaveTheirGames
  BY <1>1, OfOneGame DEF PlayersHaveTheirGames, GoodGame, PlayerList
<1>3. OwnedComputersExist
  BY OfOneGame DEF OwnedComputersExist, GoodGame
<1>4. GamesHaveProcesses
  BY <1>1, OfOneGame DEF GamesHaveProcesses, GoodGame
<1> QED  BY <1>2, <1>3, <1>4

-----------------------------------------------------------------------------
(* The invariant of storage, entries and games (TDataStorage, TPlayer).    *)
THEOREM ServerInductive == Spec => []SInv
<1>1. Init => SInv
  BY InitSInv
<1>2. SInv /\ [Next]_vars => SInv'
  BY NextSInv
<1> QED  BY <1>1, <1>2, PTL DEF Spec

(* Whoever plays in a game has it among its games (addGame, removeGame).   *)
THEOREM PlayersHaveTheirGamesCorrect == Spec => []PlayersHaveTheirGames
BY ServerInductive, SInvImplies, PTL

(* Every computer a player may remove exists, and it has one owner         *)
(* (TPlayer::addComputer, removeComputer).                                 *)
THEOREM OwnedComputersExistCorrect == Spec => []OwnedComputersExist
BY ServerInductive, SInvImplies, PTL

(* No game without a process is kept (LEAVE_GAME, REMOVE_GAME).            *)
THEOREM GamesHaveProcessesCorrect == Spec => []GamesHaveProcesses
BY ServerInductive, SInvImplies, PTL

-----------------------------------------------------------------------------
(* What LeavingIsClean says of one step.                                   *)
CleanStep ==
  \A g \in exists \cap exists', p \in Player :
    (p \in PlayerList(game[g]) /\ p \notin PlayerList(game'[g])) =>
      /\ entry[p][g].computers = {}
      /\ ~entry'[p][g].in
      /\ \A q \in Player \ {p} : entry'[q] = entry[q]

(* A step in which no game that is kept loses a process is clean.          *)
LEMMA NobodyLeaves ==
  ASSUME SInv, NEW g,
         \A h \in GameId : h # g => game'[h] = game[h],
         g \in exists \cap exists' => Present(game[g]) \cap Player \subseteq Present(game'[g])
  PROVE  CleanStep
<1>1. \A h \in exists : PlayerList(game[h]) = Present(game[h]) \cap Player
  BY DEF PlayerList
<1>2. exists \subseteq GameId
  BY DEF SInv, Typed
<1>3. \A h \in exists \cap exists' : PlayerList(game[h]) \subseteq PlayerList(game'[h])
  BY <1>2 DEF PlayerList
<1> QED  BY <1>3 DEF CleanStep

LEMMA LeavePlayerClean ==
  ASSUME SInv, NEW p \in Player, NEW g \in GameId, LeavePlayer(p, g)
  PROVE  CleanStep
<1>1. /\ entry[p][g].computers = {} /\ SetEntry(p, g, NoEntry)
      /\ KeepIfPlayed(g, RemoveProcess(game[g], p)) /\ g \in exists
  BY DEF LeavePlayer, Found
<1>2. game \in [GameId -> Game] /\ entry \in [Player -> [GameId -> Entry]]
  BY DEF SInv, Typed
<1> HIDE DEF Game, Entry
<1>3. \A h \in GameId : h # g => game'[h] = game[h]
  BY <1>1, <1>2 DEF KeepIfPlayed, SetGame
<1>4. /\ \A q \in Player : q # p => entry'[q] = entry[q]
      /\ ~entry'[p][g].in
  <2>1. NoEntry.in = FALSE
    BY DEF NoEntry
  <2> HIDE DEF NoEntry
  <2> QED  BY <1>1, <1>2, <2>1 DEF SetEntry
<1>5. g \in exists' => Present(game'[g]) = Present(game[g]) \ {p}
  BY <1>1, <1>2, ListOpsPresent DEF KeepIfPlayed, SetGame, Process
<1>6. ASSUME NEW h \in exists \cap exists', NEW q \in Player,
             q \in PlayerList(game[h]), q \notin PlayerList(game'[h])
      PROVE  h = g /\ q = p
  <2>1. h \in GameId
    BY DEF SInv, Typed
  <2> QED  BY <1>3, <1>5, <1>6, <2>1 DEF PlayerList
<1> QED  BY <1>1, <1>4, <1>6 DEF CleanStep

LEMMA NextClean == SInv /\ Next => CleanStep
<1> SUFFICES ASSUME SInv, Next PROVE CleanStep
  OBVIOUS
<1>1. game \in [GameId -> Game] /\ exists \subseteq GameId
  BY DEF SInv, Typed
<1>2. ASSUME UNCHANGED game PROVE CleanStep
  BY <1>2, NobodyLeaves
<1>3. ASSUME NEW g \in GameId, NEW gm, SetGame(g, gm),
             g \notin exists \/ g \notin exists' \/ Present(game[g]) \cap Player \subseteq Present(gm)
      PROVE  CleanStep
  <2>1. game' = [game EXCEPT ![g] = gm]
    BY <1>3 DEF SetGame
  <2>2. game'[g] = gm /\ \A h \in GameId : h # g => game'[h] = game[h]
    BY <1>1, <2>1
  <2> QED  BY <1>3, <2>2, NobodyLeaves
<1>4. CASE RegisterServer
  BY <1>2, <1>4 DEF RegisterServer
<1>5. CASE DisconnectServer
  BY <1>5 DEF DisconnectServer, CleanStep
<1>6. ASSUME NEW p \in Player, CreatePlayer(p) PROVE CleanStep
  BY <1>2, <1>6 DEF CreatePlayer
<1>7. ASSUME NEW p \in Player, NEW g \in GameId,
             \/ CreateGame(p, g)
             \/ \E c \in Computer : CreateComputerGame(p, g, c)
             \/ RemoveGame(p, g)
      PROVE  CleanStep
  BY <1>3, <1>7 DEF CreateGame, CreateComputerGame, RemoveGame, CanCreate
<1>8. ASSUME NEW p \in Player, NEW g \in GameId, AddPlayerToGame(p, g) PROVE CleanStep
  <2>1. Present(InitGame(AddPlayer(game[g], p))) = Present(game[g]) \cup {p}
    BY OfOneGame, ListOpsTyped, ListOpsPresent, InitGamePresent
  <2> QED  BY <1>3, <1>8, <2>1 DEF AddPlayerToGame
<1>9. ASSUME NEW p \in Player, NEW g \in GameId, NEW c \in Computer,
             AddComputerToGame(p, g, c)
      PROVE  CleanStep
  <2>1. Present(InitGame(AddComputer(game[g], c))) = Present(game[g]) \cup {c}
    BY OfOneGame, ListOpsTyped, ListOpsPresent, InitGamePresent
  <2> QED  BY <1>3, <1>9, <2>1 DEF AddComputerToGame
<1>10. ASSUME NEW p \in Player, NEW g \in GameId, GiveRights(p, g) PROVE CleanStep
  BY <1>2, <1>10 DEF GiveRights
<1>11. ASSUME NEW p \in Player, NEW g \in GameId, LeavePlayer(p, g) PROVE CleanStep
  BY <1>11, LeavePlayerClean
<1>12. ASSUME NEW p \in Player, NEW g \in GameId, NEW c \in Computer, LeaveComputer(p, g, c)
       PROVE  CleanStep
  <2>1. KeepIfPlayed(g, RemoveProcess(game[g], c))
    BY <1>12 DEF LeaveComputer
  <2>2. Present(RemoveProcess(game[g], c)) = Present(game[g]) \ {c} /\ c \notin Player
    BY OfOneGame, ListOpsPresent, ProcessAssumption DEF Process
  <2>3. CASE PlayersCount(RemoveProcess(game[g], c)) = 0
    BY <1>3, <2>1, <2>3 DEF KeepIfPlayed
  <2>4. CASE PlayersCount(RemoveProcess(game[g], c)) # 0
    BY <1>3, <2>1, <2>2, <2>4 DEF KeepIfPlayed
  <2> QED  BY <2>3, <2>4
<1>13. ASSUME NEW p \in Player, NEW g \in GameId,
             \/ \E s \in Secret : StartGameCommand(p, g, s)
             \/ PlayerStep(p, g)
             \/ PlayerGiveUpCommand(p, g)
             \/ ComputerStep(p, g)
             \/ FinishGame(p, g)
             \/ \E c \in Computer : SwitchBrain(p, g, c)
      PROVE  CleanStep
  BY <1>3, <1>13, PlayKeepsProcesses
<1>14. ASSUME NEW g \in GameId, FinishGameLoop(g) PROVE CleanStep
  BY <1>3, <1>14, PlayKeepsProcesses
<1>15. ASSUME NEW g \in GameId, NEW r \in Report, NEW s \in Secret,
             RestoreGameCommand(g, r, s)
      PROVE  CleanStep
  BY <1>3, <1>15 DEF RestoreGameCommand
<1>16. ASSUME Crash PROVE CleanStep
  BY <1>2, <1>16 DEF Crash
<1>17. ASSUME NEW g \in GameId,
             \/ \E p \in Player : ComputerStepCrash(p, g)
             \/ FinishGameCrash(g)
             \/ \E r \in Report : RestoreGameAtLimit(g, r)
      PROVE  CleanStep
  BY <1>16, <1>17 DEF ComputerStepCrash, FinishGameCrash, RestoreGameAtLimit
<1> QED  BY <1>4, <1>5, <1>6, <1>7, <1>8, <1>9, <1>10, <1>11, <1>12, <1>13, <1>14, <1>15,
            <1>17 DEF Next

(* A player that leaves a game leaves no computer behind and no longer     *)
(* counts the game, and nobody else loses theirs (LEAVE_GAME).             *)
THEOREM LeavingIsCleanCorrect == Spec => LeavingIsClean
<1>1. SInv /\ [Next]_vars => [CleanStep]_vars
  BY NextClean
<1> QED  BY <1>1, ServerInductive, PTL DEF Spec, LeavingIsClean, CleanStep
-----------------------------------------------------------------------------
(* The operators on games of the controller of g, which Controller(g)      *)
(* brings with it, are those of the server.                                *)
LEMMA SameLists ==
  ASSUME NEW g, NEW gm
  PROVE  /\ Controller(g)!Process = Process
         /\ Controller(g)!Terminal = Terminal
         /\ Controller(g)!Present(gm) = Present(gm)
         /\ Controller(g)!PlayerList(gm) = PlayerList(gm)
         /\ Controller(g)!ComputerList(gm) = ComputerList(gm)
         /\ Controller(g)!Running(gm) = Running(gm)
         /\ Controller(g)!UnsteppedPlayers(gm) = UnsteppedPlayers(gm)
         /\ Controller(g)!Movers(gm) = Movers(gm)
         /\ Controller(g)!Outcomes(gm) = Outcomes(gm)
<1>1. Controller(g)!Process = Process /\ Controller(g)!Terminal = Terminal
  BY DEF Controller!Process, Process, Controller!Terminal, Terminal
<1>2. Controller(g)!Present(gm) = Present(gm)
  BY <1>1 DEF Controller!Present, Present
<1>3. /\ Controller(g)!PlayerList(gm) = PlayerList(gm)
      /\ Controller(g)!ComputerList(gm) = ComputerList(gm)
      /\ Controller(g)!Running(gm) = Running(gm)
  BY <1>1, <1>2 DEF Controller!PlayerList, PlayerList, Controller!ComputerList, ComputerList,
                    Controller!Running, Running
<1>4. Controller(g)!UnsteppedPlayers(gm) = UnsteppedPlayers(gm)
  BY <1>1, <1>3 DEF Controller!UnsteppedPlayers, UnsteppedPlayers,
                    Controller!UnsteppedAt, UnsteppedAt
<1>5. Controller(g)!Movers(gm) = Movers(gm)
  BY <1>1, <1>3 DEF Controller!Movers, Movers
<1>6. Controller(g)!Outcomes(gm) = Outcomes(gm)
  BY <1>5 DEF Controller!Outcomes, Outcomes
<1> QED  BY <1>1, <1>2, <1>3, <1>4, <1>5, <1>6

LEMMA SameCardinality ==
  ASSUME NEW g, NEW S
  PROVE  Controller(g)!Cardinality(S) = Cardinality(S)
BY DEF Controller!Cardinality, Cardinality

LEMMA SameListOps ==
  ASSUME NEW g, NEW gm, NEW p
  PROVE  /\ Controller(g)!InitGame(gm) = InitGame(gm)
         /\ Controller(g)!CanAddPlayer(gm, p) <=> CanAddPlayer(gm, p)
         /\ Controller(g)!AddPlayer(gm, p) = AddPlayer(gm, p)
         /\ Controller(g)!CanAddComputer(gm, p) <=> CanAddComputer(gm, p)
         /\ Controller(g)!AddComputer(gm, p) = AddComputer(gm, p)
         /\ Controller(g)!CanRemove(gm, p) <=> CanRemove(gm, p)
         /\ Controller(g)!RemoveProcess(gm, p) = RemoveProcess(gm, p)
         /\ Controller(g)!SwitchGameBrain(gm, p) = SwitchGameBrain(gm, p)
         /\ Controller(g)!StartGame(gm, p) = StartGame(gm, p)
<1>1. Controller(g)!InitGame(gm) = InitGame(gm)
  BY SameLists DEF Controller!InitGame, InitGame
<1>2. Controller(g)!CanAddPlayer(gm, p) <=> CanAddPlayer(gm, p)
  BY SameLists, SameCardinality DEF Controller!CanAddPlayer, CanAddPlayer
<1>3. Controller(g)!CanAddComputer(gm, p) <=> CanAddComputer(gm, p)
  BY SameLists, SameCardinality DEF Controller!CanAddComputer, CanAddComputer
<1>4. Controller(g)!CanRemove(gm, p) <=> CanRemove(gm, p)
  BY SameLists DEF Controller!CanRemove, CanRemove
<1>5. /\ Controller(g)!AddPlayer(gm, p) = AddPlayer(gm, p)
      /\ Controller(g)!AddComputer(gm, p) = AddComputer(gm, p)
      /\ Controller(g)!RemoveProcess(gm, p) = RemoveProcess(gm, p)
      /\ Controller(g)!SwitchGameBrain(gm, p) = SwitchGameBrain(gm, p)
  BY DEF Controller!AddPlayer, AddPlayer, Controller!AddComputer, AddComputer,
         Controller!RemoveProcess, RemoveProcess, Controller!SwitchGameBrain, SwitchGameBrain
<1>6. Controller(g)!StartGame(gm, p) = StartGame(gm, p)
  BY SameLists DEF Controller!StartGame, StartGame
<1> QED  BY <1>1, <1>2, <1>3, <1>4, <1>5, <1>6

LEMMA SameRounds ==
  ASSUME NEW g, NEW gm, NEW hits
  PROVE  /\ Controller(g)!CheckFinish(gm) = CheckFinish(gm)
         /\ Controller(g)!FinishStep(gm, hits) = FinishStep(gm, hits)
<1>1. \A x : Controller(g)!CheckFinish(x) = CheckFinish(x)
  BY SameLists DEF Controller!CheckFinish, CheckFinish
<1>2. \A x : Controller(g)!DefineWinners(x) = DefineWinners(x)
  BY SameLists DEF Controller!DefineWinners, DefineWinners, Controller!FinishedAt, FinishedAt
<1>3. Controller(g)!DoComputersStep(gm, hits) = DoComputersStep(gm, hits)
  BY SameLists DEF Controller!DoComputersStep, DoComputersStep
<1>4. \A x : Controller(g)!NextStep(x) = NextStep(x)
  BY DEF Controller!NextStep, NextStep
<1>5. Controller(g)!CloseRound(gm, hits) = CloseRound(gm, hits)
  BY <1>1, <1>2, <1>3, <1>4 DEF Controller!CloseRound, CloseRound
<1>6. Controller(g)!FinishStep(gm, hits) = FinishStep(gm, hits)
  BY <1>5, SameLists DEF Controller!FinishStep, FinishStep
<1> QED  BY <1>1, <1>6

LEMMA SamePlayerStep ==
  ASSUME NEW g, NEW gm, NEW p, NEW hit, NEW hits
  PROVE  Controller(g)!DoPlayerStep(gm, p, hit, hits) = DoPlayerStep(gm, p, hit, hits)
<1>1. Controller(g)!AppendGameValue(gm, p, hit) = AppendGameValue(gm, p, hit)
  BY DEF Controller!AppendGameValue, AppendGameValue
<1> QED  BY <1>1, SameRounds DEF Controller!DoPlayerStep, DoPlayerStep

LEMMA SameMoves ==
  ASSUME NEW g, NEW gm, NEW p, NEW hits
  PROVE  /\ Controller(g)!CanStep(gm, p) <=> CanStep(gm, p)
         /\ Controller(g)!CanGiveUp(gm, p) <=> CanGiveUp(gm, p)
         /\ Controller(g)!PlayerGiveUp(gm, p, hits) = PlayerGiveUp(gm, p, hits)
         /\ Controller(g)!GiveUpAll(gm) = GiveUpAll(gm)
<1>1. Controller(g)!CanStep(gm, p) <=> CanStep(gm, p)
  BY SameLists DEF Controller!CanStep, CanStep
<1>2. Controller(g)!CanGiveUp(gm, p) <=> CanGiveUp(gm, p)
  BY SameLists DEF Controller!CanGiveUp, CanGiveUp
<1>3. \A procs : Controller(g)!GiveUp(gm, procs) = GiveUp(gm, procs)
  BY SameLists DEF Controller!GiveUp, GiveUp
<1>4. Controller(g)!IsStepInTransitionStage(gm) <=> IsStepInTransitionStage(gm)
  BY SameLists DEF Controller!IsStepInTransitionStage, IsStepInTransitionStage
<1>5. Controller(g)!PlayerGiveUp(gm, p, hits) = PlayerGiveUp(gm, p, hits)
  BY <1>3, <1>4, SameRounds DEF Controller!PlayerGiveUp, PlayerGiveUp
<1>6. Controller(g)!GiveUpAll(gm) = GiveUpAll(gm)
  BY <1>3, SameLists DEF Controller!GiveUpAll, GiveUpAll
<1> QED  BY <1>1, <1>2, <1>5, <1>6

-----------------------------------------------------------------------------
(* What a command does, seen from one game.                                *)
ControllerStep(g) ==
  \/ Controller(g)!EarlyNext
  \/ game'[g] = game[g] /\ (finishing' = g <=> finishing = g)
  \/ g \notin exists
  \/ g \notin exists' /\ game'[g] = EmptyGame

(* A command for one game only: the others stay as they are.               *)
LEMMA OfAnotherGame ==
  ASSUME SInv, NEW g \in GameId, NEW h \in GameId, h # g, NEW gm, SetGame(g, gm),
         \/ UNCHANGED finishing
         \/ finishing \in {g, NoGame} /\ finishing' \in {g, NoGame}
  PROVE  ControllerStep(h)
<1>1. game \in [GameId -> Game] /\ h # NoGame
  BY NoGameAssumption DEF SInv, Typed, NoGame
<1>2. game'[h] = game[h]
  BY <1>1 DEF SetGame
<1> QED  BY <1>1, <1>2 DEF ControllerStep

LEMMA NothingHappens ==
  ASSUME NEW h \in GameId, UNCHANGED game, UNCHANGED finishing
  PROVE  ControllerStep(h)
BY DEF ControllerStep

(* A command of the worker that is not in a loop: a call, or nothing.      *)
LEMMA CommandIsCall ==
  ASSUME SInv, NEW p \in Player, NEW g \in GameId,
         \/ CreateGame(p, g)
         \/ \E c \in Computer : CreateComputerGame(p, g, c)
         \/ AddPlayerToGame(p, g)
         \/ \E c \in Computer : AddComputerToGame(p, g, c)
         \/ \E c \in Computer : SwitchBrain(p, g, c)
         \/ \E s \in Secret : StartGameCommand(p, g, s)
         \/ PlayerStep(p, g)
         \/ PlayerGiveUpCommand(p, g)
         \/ ComputerStep(p, g)
  PROVE  \A h \in GameId : ControllerStep(h)
<1>1. /\ finishing = NoGame /\ UNCHANGED finishing
      /\ \E gm : SetGame(g, gm)
  BY DEF CreateGame, CreateComputerGame, AddPlayerToGame, AddComputerToGame, SwitchBrain,
         StartGameCommand, PlayerStep, PlayerGiveUpCommand, ComputerStep, Found, Ready
<1>2. game \in [GameId -> Game] /\ g # NoGame
  BY NoGameAssumption DEF SInv, Typed, NoGame
<1>3. Controller(g)!Idle
  BY <1>1, <1>2 DEF Controller!Idle
<1>4. ASSUME NEW gm, SetGame(g, gm)  PROVE game'[g] = gm
  BY <1>2, <1>4 DEF SetGame
<1>5. ASSUME CreateGame(p, g) \/ \E c \in Computer : CreateComputerGame(p, g, c)
      PROVE  ControllerStep(g)
  BY <1>5 DEF CreateGame, CreateComputerGame, CanCreate, ControllerStep
<1>6. ASSUME AddPlayerToGame(p, g)  PROVE ControllerStep(g)
  <2>1. CanAddPlayer(game[g], p) /\ game'[g] = InitGame(AddPlayer(game[g], p))
    BY <1>4, <1>6 DEF AddPlayerToGame
  <2>2. Controller(g)!CallAddPlayer(p)
    BY <1>3, <2>1, SameListOps DEF Controller!CallAddPlayer
  <2> QED  BY <2>2 DEF ControllerStep, Controller!EarlyNext, Controller!AnyStage
<1>7. ASSUME NEW c \in Computer, AddComputerToGame(p, g, c)  PROVE ControllerStep(g)
  <2>1. CanAddComputer(game[g], c) /\ game'[g] = InitGame(AddComputer(game[g], c))
    BY <1>4, <1>7 DEF AddComputerToGame
  <2>2. Controller(g)!CallAddComputer(c)
    BY <1>3, <2>1, SameListOps DEF Controller!CallAddComputer
  <2> QED  BY <2>2 DEF ControllerStep, Controller!EarlyNext, Controller!AnyStage
<1>8. ASSUME NEW c \in Computer, SwitchBrain(p, g, c)  PROVE ControllerStep(g)
  <2>1. /\ game[g].stage = "WAIT_A_NUMBER" /\ c \in ComputerList(game[g])
        /\ game'[g] = InitGame(SwitchGameBrain(game[g], c))
    BY <1>4, <1>8 DEF SwitchBrain
  <2>2. Controller(g)!CallSwitchBrain(c)
    BY <1>3, <2>1, SameListOps, SameLists DEF Controller!CallSwitchBrain
  <2> QED  BY <2>2 DEF ControllerStep, Controller!EarlyNext, Controller!AnyStage
<1>9. ASSUME NEW s \in Secret, StartGameCommand(p, g, s)  PROVE ControllerStep(g)
  <2>1. game'[g] = StartGame(game[g], s)
    BY <1>4, <1>9 DEF StartGameCommand
  <2>2. Controller(g)!CallStartGame(s)
    BY <1>3, <2>1, SameListOps DEF Controller!CallStartGame
  <2> QED  BY <2>2 DEF ControllerStep, Controller!EarlyNext, Controller!AnyStage
<1>10. ASSUME PlayerStep(p, g)  PROVE ControllerStep(g)
  <2>1. PICK hit \in BOOLEAN, hits \in Outcomes(game[g]) :
           SetGame(g, DoPlayerStep(game[g], p, hit, hits))
    BY <1>10 DEF PlayerStep
  <2>2. game'[g] = DoPlayerStep(game[g], p, hit, hits)
    BY <1>4, <2>1
  <2>3. CanStep(game[g], p) /\ game[g].step < MaxStep
    BY <1>10 DEF PlayerStep
  <2>4. Controller(g)!CallDoPlayerStep(p)
    <3>1. hits \in Controller(g)!Outcomes(game[g])
      BY <2>1, SameLists
    <3>2. Controller(g)!CanStep(game[g], p)
      BY <2>3, SameMoves
    <3>3. Controller(g)!DoPlayerStep(game[g], p, hit, hits) = DoPlayerStep(game[g], p, hit, hits)
      BY SamePlayerStep
    <3> QED  BY <1>3, <2>1, <2>2, <2>3, <3>1, <3>2, <3>3 DEF Controller!CallDoPlayerStep
  <2> QED  BY <2>4 DEF ControllerStep, Controller!EarlyNext, Controller!AnyStage
<1>11. ASSUME PlayerGiveUpCommand(p, g)  PROVE ControllerStep(g)
  <2>1. PICK hits \in Outcomes(game[g]) : SetGame(g, PlayerGiveUp(game[g], p, hits))
    BY <1>11 DEF PlayerGiveUpCommand
  <2>2. game'[g] = PlayerGiveUp(game[g], p, hits) /\ CanGiveUp(game[g], p)
    BY <1>4, <1>11, <2>1 DEF PlayerGiveUpCommand
  <2>3. Controller(g)!CallPlayerGiveUp(p)
    <3>1. /\ hits \in Controller(g)!Outcomes(game[g]) /\ Controller(g)!CanGiveUp(game[g], p)
          /\ game'[g] = Controller(g)!PlayerGiveUp(game[g], p, hits)
      BY <2>1, <2>2, SameMoves, SameLists
    <3> QED  BY <1>3, <3>1 DEF Controller!CallPlayerGiveUp
  <2> QED  BY <2>3 DEF ControllerStep, Controller!EarlyNext, Controller!AnyStage
<1>12. ASSUME ComputerStep(p, g)  PROVE ControllerStep(g)
  <2>1. PICK hits \in Outcomes(game[g]) : SetGame(g, FinishStep(game[g], hits))
    BY <1>12 DEF ComputerStep
  <2>2. /\ game'[g] = FinishStep(game[g], hits)
        /\ UnsteppedPlayers(game[g]) = {} /\ game[g].step < MaxStep
    BY <1>4, <1>12, <2>1 DEF ComputerStep
  <2>3. Controller(g)!CallFinishStep
    BY <1>3, <2>1, <2>2, SameRounds, SameLists DEF Controller!CallFinishStep
  <2> QED  BY <2>3 DEF ControllerStep, Controller!EarlyNext
<1>13. ControllerStep(g)
  BY <1>5, <1>6, <1>7, <1>8, <1>9, <1>10, <1>11, <1>12
<1>14. ASSUME NEW h \in GameId, h # g  PROVE ControllerStep(h)
  BY <1>1, <1>14, OfAnotherGame
<1> QED  BY <1>13, <1>14

(* The last process to leave takes the game with it.                       *)
LEMMA LeavingIsCall ==
  ASSUME SInv, NEW p \in Player, NEW g \in GameId,
         \/ LeavePlayer(p, g)
         \/ \E c \in Computer : LeaveComputer(p, g, c)
         \/ RemoveGame(p, g)
  PROVE  \A h \in GameId : ControllerStep(h)
<1>1. /\ finishing = NoGame /\ UNCHANGED finishing
      /\ \E gm : SetGame(g, gm)
  BY DEF LeavePlayer, LeaveComputer, RemoveGame, KeepIfPlayed, Found, Ready
<1>2. game \in [GameId -> Game] /\ g # NoGame
  BY NoGameAssumption DEF SInv, Typed, NoGame
<1>3. Controller(g)!Idle
  BY <1>1, <1>2 DEF Controller!Idle
<1>4. ASSUME NEW gm, SetGame(g, gm)  PROVE game'[g] = gm
  BY <1>2, <1>4 DEF SetGame
<1>5. ASSUME NEW x \in Process, CanRemove(game[g], x), KeepIfPlayed(g, RemoveProcess(game[g], x))
      PROVE  ControllerStep(g)
  <2>1. CASE PlayersCount(RemoveProcess(game[g], x)) = 0
    <3>1. exists' = exists \ {g} /\ game'[g] = EmptyGame
      BY <1>4, <1>5, <2>1 DEF KeepIfPlayed
    <3> QED  BY <3>1 DEF ControllerStep
  <2>2. CASE PlayersCount(RemoveProcess(game[g], x)) # 0
    <3>1. game'[g] = RemoveProcess(game[g], x)
      BY <1>4, <1>5, <2>2 DEF KeepIfPlayed
    <3>2. x \in Controller(g)!Process
      BY SameLists
    <3>3. Controller(g)!CallRemove(x)
      BY <1>3, <1>5, <3>1, SameListOps DEF Controller!CallRemove
    <3> QED  BY <3>2, <3>3 DEF ControllerStep, Controller!EarlyNext, Controller!AnyStage
  <2> QED  BY <2>1, <2>2
<1>6. ASSUME LeavePlayer(p, g)  PROVE ControllerStep(g)
  BY <1>5, <1>6 DEF LeavePlayer, Process
<1>7. ASSUME \E c \in Computer : LeaveComputer(p, g, c)  PROVE ControllerStep(g)
  BY <1>5, <1>7 DEF LeaveComputer, Process
<1>8. ASSUME RemoveGame(p, g)  PROVE ControllerStep(g)
  <2>1. exists' = exists \ {g} /\ game'[g] = EmptyGame
    BY <1>4, <1>8 DEF RemoveGame
  <2> QED  BY <2>1 DEF ControllerStep
<1>9. ControllerStep(g)
  BY <1>6, <1>7, <1>8
<1>10. ASSUME NEW h \in GameId, h # g  PROVE ControllerStep(h)
  BY <1>1, <1>10, OfAnotherGame
<1> QED  BY <1>9, <1>10

(* FINISH_GAME, and its loop.                                              *)
LEMMA FinishingIsCall ==
  ASSUME SInv, NEW g \in GameId, FinishGameLoop(g) \/ \E p \in Player : FinishGame(p, g)
  PROVE  \A h \in GameId : ControllerStep(h)
<1>1. game \in [GameId -> Game] /\ g # NoGame
  BY NoGameAssumption DEF SInv, Typed, NoGame
<1>2. finishing \in {g, NoGame} /\ finishing' \in {g, NoGame}
  BY DEF FinishGameLoop, FinishGame, Found, Ready
<1>3. ASSUME NEW gm, SetGame(g, gm)  PROVE game'[g] = gm
  BY <1>1, <1>3 DEF SetGame
<1>4. ASSUME NEW p \in Player, FinishGame(p, g)  PROVE \A h \in GameId : ControllerStep(h)
  <2>1. finishing = NoGame /\ finishing' = g /\ SetGame(g, GiveUpAll(game[g]))
    BY <1>4 DEF FinishGame, Found, Ready
  <2>2. Controller(g)!CallFinishGame
    BY <1>1, <1>3, <2>1, SameMoves DEF Controller!CallFinishGame
  <2>3. ControllerStep(g)
    BY <2>2 DEF ControllerStep, Controller!EarlyNext
  <2> QED  BY <1>2, <2>1, <2>3, OfAnotherGame
<1>5. ASSUME FinishGameLoop(g), game[g].stage = "FINISHED"  PROVE \A h \in GameId : ControllerStep(h)
  <2>1. finishing = g /\ finishing' = NoGame /\ UNCHANGED game
    BY <1>5 DEF FinishGameLoop
  <2>2. Controller(g)!FinishGameReturn
    BY <1>1, <1>5, <2>1 DEF Controller!FinishGameReturn
  <2>3. ControllerStep(g)
    BY <2>2 DEF ControllerStep, Controller!EarlyNext, Controller!AnyStage
  <2>4. ASSUME NEW h \in GameId, h # g  PROVE ControllerStep(h)
    BY <2>1, <2>4, NoGameAssumption DEF ControllerStep, NoGame
  <2> QED  BY <2>3, <2>4
<1>6. ASSUME FinishGameLoop(g), game[g].stage # "FINISHED"  PROVE \A h \in GameId : ControllerStep(h)
  <2>1. finishing = g /\ UNCHANGED finishing
    BY <1>6 DEF FinishGameLoop
  <2>2. PICK hits \in Outcomes(game[g]) : SetGame(g, FinishStep(game[g], hits))
    BY <1>6 DEF FinishGameLoop
  <2>3. game'[g] = FinishStep(game[g], hits)
    BY <1>3, <2>2
  <2>4. Controller(g)!FinishGameIteration
    BY <1>6, <2>1, <2>2, <2>3, SameRounds, SameLists DEF Controller!FinishGameIteration
  <2>5. ControllerStep(g)
    BY <2>4 DEF ControllerStep, Controller!EarlyNext, Controller!AnyStage
  <2>6. ASSUME NEW h \in GameId, h # g  PROVE ControllerStep(h)
    BY <2>1, <2>2, <2>6, OfAnotherGame
  <2> QED  BY <2>5, <2>6
<1> QED  BY <1>4, <1>5, <1>6

LEMMA NextIsCall == SInv /\ Next => \A h \in GameId : ControllerStep(h)
<1> SUFFICES ASSUME SInv, Next  PROVE \A h \in GameId : ControllerStep(h)
  OBVIOUS
<1>1. CASE RegisterServer
  BY <1>1, NothingHappens DEF RegisterServer
<1>2. CASE DisconnectServer
  BY <1>2 DEF DisconnectServer, ControllerStep
<1>3. ASSUME NEW p \in Player, CreatePlayer(p)  PROVE \A h \in GameId : ControllerStep(h)
  BY <1>3, NothingHappens DEF CreatePlayer
<1>4. ASSUME NEW p \in Player, NEW g \in GameId, GiveRights(p, g)
      PROVE  \A h \in GameId : ControllerStep(h)
  BY <1>4, NothingHappens DEF GiveRights
<1>5. ASSUME NEW p \in Player, NEW g \in GameId,
             \/ CreateGame(p, g)
             \/ \E c \in Computer : CreateComputerGame(p, g, c)
             \/ AddPlayerToGame(p, g)
             \/ \E c \in Computer : AddComputerToGame(p, g, c)
             \/ \E c \in Computer : SwitchBrain(p, g, c)
             \/ \E s \in Secret : StartGameCommand(p, g, s)
             \/ PlayerStep(p, g)
             \/ PlayerGiveUpCommand(p, g)
             \/ ComputerStep(p, g)
      PROVE  \A h \in GameId : ControllerStep(h)
  BY <1>5, CommandIsCall
<1>6. ASSUME NEW p \in Player, NEW g \in GameId,
             \/ LeavePlayer(p, g)
             \/ \E c \in Computer : LeaveComputer(p, g, c)
             \/ RemoveGame(p, g)
      PROVE  \A h \in GameId : ControllerStep(h)
  BY <1>6, LeavingIsCall
<1>7. ASSUME NEW g \in GameId, FinishGameLoop(g) \/ \E p \in Player : FinishGame(p, g)
      PROVE  \A h \in GameId : ControllerStep(h)
  BY <1>7, FinishingIsCall
<1>8. ASSUME NEW g \in GameId, NEW r \in Report, NEW s \in Secret, RestoreGameCommand(g, r, s)
      PROVE  \A h \in GameId : ControllerStep(h)
  <2>1. ControllerStep(g)
    BY <1>8 DEF RestoreGameCommand, ControllerStep
  <2>2. SetGame(g, RestoreGame(s, r.told)) /\ UNCHANGED finishing
    BY <1>8 DEF RestoreGameCommand
  <2> QED  BY <2>1, <2>2, OfAnotherGame
<1>9. ASSUME NEW g \in GameId,
             \/ \E p \in Player : ComputerStepCrash(p, g)
             \/ FinishGameCrash(g)
             \/ \E r \in Report : RestoreGameAtLimit(g, r)
      PROVE  \A h \in GameId : ControllerStep(h)
  BY <1>9, NothingHappens DEF ComputerStepCrash, FinishGameCrash, RestoreGameAtLimit, Crash
<1> QED  BY <1>1, <1>2, <1>3, <1>4, <1>5, <1>6, <1>7, <1>8, <1>9 DEF Next

(* Seen from one game, every command is a call the controller accepts at   *)
(* that moment, or creates or removes the game, and no command for one     *)
(* game disturbs another.                                                  *)
THEOREM ControllerCorrect == Spec => EveryGameIsAController
<1>1. SInv /\ [Next]_vars => [\A g \in GameId : ControllerStep(g)]_vars
  BY NextIsCall
<1> QED  BY <1>1, ServerInductive, PTL DEF Spec, EveryGameIsAController, ControllerStep

-----------------------------------------------------------------------------
(* One game of the server, whatever the order of the commands: what it can *)
(* become, and that no outcome in it is taken back.                        *)
Stands(g, r) ==
  /\ g.winners # {} => r.winners = g.winners
  /\ \A p \in Process : g.state[p] \in Terminal =>
       \/ r.state[p] = "ABSENT"
       \/ Kept(g, r, p)

LEMMA StepsStand ==
  ASSUME NEW g, Begun(g), NEW r,
         \/ PlayStep(g, r)
         \/ SameStepOf(g, r)
         \/ \E p \in Process : LeaveStep(g, r, p)
  PROVE  Stands(g, r)
<1>1. g.stage = "IN_PROGRESS" => g.winners = {}
  BY DEF Begun
<1>2. ASSUME PlayStep(g, r)  PROVE Stands(g, r)
  <2>1. \A p \in Process : g.state[p] \in Terminal => Kept(g, r, p)
    BY <1>2 DEF PlayStep, Moved, Terminal
  <2>2. g.winners # {} => r.winners = g.winners
    BY <1>1, <1>2 DEF PlayStep, Named
  <2> QED  BY <2>1, <2>2 DEF Stands
<1>3. ASSUME SameStepOf(g, r)  PROVE Stands(g, r)
  BY <1>3 DEF Stands, SameStepOf, Kept
<1>4. ASSUME NEW p \in Process, LeaveStep(g, r, p)  PROVE Stands(g, r)
  <2>1. /\ g.state \in [Process -> ProcessState] /\ g.attempts \in [Process -> Nat]
        /\ r.state = [g.state EXCEPT ![p] = "ABSENT"]
        /\ r.attempts = [g.attempts EXCEPT ![p] = 0] /\ r.winners = g.winners
    BY <1>4 DEF Begun, Game, LeaveStep
  <2> QED  BY <2>1 DEF Stands, Kept
<1> QED  BY <1>2, <1>3, <1>4

LEMMA LobbyStands ==
  ASSUME NEW g, Lobby(g), NEW r
  PROVE  Stands(g, r)
BY DEF Lobby, GoodRound, GoodLobby, Stands, Terminal

(* Nobody in a new game has been told a secret.                            *)
LEMMA LobbyMade ==
  ASSUME NEW g \in Game, \A p \in Process : g.aim[p] = NoSecret
  PROVE  Lobby(InitGame(g))
<1>1. InitGame(g).aim = g.aim
  BY DEF InitGame, Game
<1> QED  BY <1>1, InitGameGood DEF Lobby

LEMMA LobbyPeopled ==
  ASSUME NEW g, Lobby(g) \/ g = EmptyGame
  PROVE  /\ \A p \in Player : Lobby(InitGame(AddPlayer(g, p)))
         /\ \A c \in Computer : Lobby(InitGame(AddComputer(g, c)))
         /\ \A c \in ComputerList(g) : Lobby(InitGame(SwitchGameBrain(g, c)))
<1>1. g \in Game /\ \A p \in Process : g.aim[p] = NoSecret
  BY EmptyGamePresent DEF Lobby, GoodRound, EmptyGame
<1>2. /\ g.aim \in [Process -> Secret \cup {NoSecret}]
      /\ \A p \in Player : AddPlayer(g, p).aim = [g.aim EXCEPT ![p] = NoSecret]
      /\ \A c \in Computer : AddComputer(g, c).aim = [g.aim EXCEPT ![c] = NoSecret]
      /\ \A c \in ComputerList(g) : SwitchGameBrain(g, c).aim = g.aim
  BY <1>1 DEF Game, AddPlayer, AddComputer, SwitchGameBrain
<1>3. /\ \A p \in Player : AddPlayer(g, p) \in Game
      /\ \A c \in Computer : AddComputer(g, c) \in Game
      /\ \A c \in ComputerList(g) : SwitchGameBrain(g, c) \in Game
  BY <1>1, ListOpsTyped DEF ComputerList, Process
<1>4. ASSUME NEW p \in Player  PROVE Lobby(InitGame(AddPlayer(g, p)))
  BY <1>1, <1>2, <1>3, LobbyMade
<1>5. ASSUME NEW c \in Computer  PROVE Lobby(InitGame(AddComputer(g, c)))
  BY <1>1, <1>2, <1>3, LobbyMade
<1>6. ASSUME NEW c \in ComputerList(g)  PROVE Lobby(InitGame(SwitchGameBrain(g, c)))
  BY <1>1, <1>2, <1>3, LobbyMade
<1> QED  BY <1>4, <1>5, <1>6

(* A game that was good and is no longer in the lobby is one of those that *)
(* are free.                                                               *)
LEMMA GoodIsFree ==
  ASSUME NEW g, GoodRound(g), Open(g), g.stage # "WAIT_A_NUMBER"
  PROVE  FreeGame(g)
BY GoodIsBegun, GoodIsTellable DEF FreeGame

LEMMA LobbyIsOpen ==
  ASSUME NEW g, Lobby(g)
  PROVE  GoodRound(g) /\ Open(g)
BY DEF Lobby, Open, InPlay

LEMMA StartFree ==
  ASSUME NEW g, FreeGame(g), NEW s \in Secret
  PROVE  FreeGame(StartGame(g, s)) /\ Stands(g, StartGame(g, s))
<1>1. CASE Lobby(g)
  <2>1. StartGame(g, s).stage = "IN_PROGRESS"
    BY <1>1 DEF Lobby, GoodRound, Game, StartGame
  <2>2. GoodRound(StartGame(g, s)) /\ Open(StartGame(g, s))
    BY <1>1, LobbyIsOpen, StartGameGood
  <2> QED  BY <1>1, <2>1, <2>2, GoodIsFree, LobbyStands
<1>2. CASE ~Lobby(g)
  <2>1. /\ Begun(g)
        /\ HonestReports => Tellable(g)
        /\ Report = {} => GoodRound(g) /\ Open(g)
    BY <1>2 DEF FreeGame
  <2>2. Begun(StartGame(g, s)) /\ Stands(g, StartGame(g, s))
    BY <2>1, StartGameBegun, StepsStand
  <2>3. HonestReports => Tellable(StartGame(g, s))
    BY <2>1, StartGameTellable
  <2>4. Report = {} => GoodRound(StartGame(g, s)) /\ Open(StartGame(g, s))
    BY <2>1, StartGameGood
  <2> QED  BY <2>2, <2>3, <2>4 DEF FreeGame
<1> QED  BY <1>1, <1>2

(* Who is in progress is in no lobby.                                      *)
LEMMA NotInLobby ==
  ASSUME NEW g, FreeGame(g), NEW p \in Player, CanStep(g, p) \/ CanGiveUp(g, p)
  PROVE  /\ Begun(g)
         /\ HonestReports => Tellable(g)
         /\ Report = {} => GoodRound(g) /\ Open(g)
BY DEF FreeGame, Lobby, GoodRound, GoodLobby, CanStep, CanGiveUp, PlayerList, Process

LEMMA PlayerStepFree ==
  ASSUME NEW g, FreeGame(g), NEW p \in Player, CanStep(g, p),
         NEW hit \in BOOLEAN, NEW hits \in Outcomes(g)
  PROVE  LET r == DoPlayerStep(g, p, hit, hits)
         IN  FreeGame(r) /\ Stands(g, r)
<1> DEFINE r == DoPlayerStep(g, p, hit, hits)
<1>1. /\ Begun(g)
      /\ HonestReports => Tellable(g)
      /\ Report = {} => GoodRound(g) /\ Open(g)
  BY NotInLobby
<1>2. Begun(r) /\ PlayStep(g, r)
  BY <1>1, DoPlayerStepBegun
<1>3. HonestReports => Tellable(r)
  BY <1>1, DoPlayerStepTellable
<1>4. Report = {} => GoodRound(r) /\ Open(r)
  BY <1>1, DoPlayerStepGood
<1> HIDE DEF r
<1>5. FreeGame(r) /\ Stands(g, r)
  BY <1>1, <1>2, <1>3, <1>4, StepsStand DEF FreeGame
<1> QED  BY <1>5 DEF r

LEMMA PlayerGiveUpFree ==
  ASSUME NEW g, FreeGame(g), NEW p \in Player, CanGiveUp(g, p), NEW hits \in Outcomes(g)
  PROVE  LET r == PlayerGiveUp(g, p, hits)
         IN  FreeGame(r) /\ Stands(g, r)
<1> DEFINE r == PlayerGiveUp(g, p, hits)
<1>1. /\ Begun(g)
      /\ HonestReports => Tellable(g)
      /\ Report = {} => GoodRound(g) /\ Open(g)
  BY NotInLobby
<1>2. Begun(r) /\ PlayStep(g, r)
  BY <1>1, PlayerGiveUpBegun
<1>3. HonestReports => Tellable(r)
  BY <1>1, PlayerGiveUpTellable
<1>4. Report = {} => GoodRound(r) /\ Open(r)
  BY <1>1, PlayerGiveUpGood
<1> HIDE DEF r
<1>5. FreeGame(r) /\ Stands(g, r)
  BY <1>1, <1>2, <1>3, <1>4, StepsStand DEF FreeGame
<1> QED  BY <1>5 DEF r

(* COMPUTER_STEP before the start: with a player in the game it is none,   *)
(* without one it meets a computer without a secret.                       *)
LEMMA ComputerStepFree ==
  ASSUME NEW g, FreeGame(g), Present(g) # {}, ~NullSecret(g),
         UnsteppedPlayers(g) = {}, NEW hits \in Outcomes(g)
  PROVE  LET r == FinishStep(g, hits)
         IN  FreeGame(r) /\ Stands(g, r)
<1> DEFINE r == FinishStep(g, hits)
<1>1. ~Lobby(g)
  <2> SUFFICES ASSUME Lobby(g)  PROVE FALSE
    OBVIOUS
  <2>1. /\ g.step = 0
        /\ \A p \in Process : /\ g.state[p] \in {"ABSENT", "WAIT_A_NUMBER"}
                             /\ g.attempts[p] = 0 /\ g.aim[p] = NoSecret
    BY DEF Lobby, GoodRound, GoodLobby
  <2>2. PICK p \in Process : g.state[p] = "WAIT_A_NUMBER"
    BY <2>1 DEF Present
  <2>3. CASE p \in Player
    <3>1. p \in UnsteppedPlayers(g)
      BY <2>1, <2>2, <2>3 DEF UnsteppedPlayers, UnsteppedAt, PlayerList, Present, Terminal
    <3> QED  BY <3>1
  <2>4. CASE p \in Computer
    <3>1. p \in Movers(g) /\ g.aim[p] = NoSecret
      BY <2>1, <2>2, <2>4 DEF Movers, ComputerList, Present, Terminal
    <3> QED  BY <3>1 DEF NullSecret
  <2> QED  BY <2>3, <2>4 DEF Process
<1>2. /\ Begun(g)
      /\ HonestReports => Tellable(g)
      /\ Report = {} => GoodRound(g) /\ Open(g)
  BY <1>1 DEF FreeGame
<1>3. Begun(r) /\ PlayStep(g, r)
  BY <1>2, FinishStepBegun
<1>4. HonestReports => Tellable(r)
  BY <1>2, FinishStepTellable
<1>5. Report = {} => GoodRound(r) /\ Open(r)
  BY <1>2, CloseRoundGood DEF FinishStep, Begun
<1> HIDE DEF r
<1>6. FreeGame(r) /\ Stands(g, r)
  BY <1>2, <1>3, <1>4, <1>5, StepsStand DEF FreeGame
<1> QED  BY <1>6 DEF r

LEMMA RemoveFree ==
  ASSUME NEW g, FreeGame(g), NEW p \in Process, CanRemove(g, p)
  PROVE  LET r == RemoveProcess(g, p)
         IN  FreeGame(r) /\ Stands(g, r)
<1> DEFINE r == RemoveProcess(g, p)
<1>1. CASE Lobby(g)
  <2>1. GoodRound(r)
    BY <1>1, RemoveGood DEF Lobby
  <2>2. /\ g.aim \in [Process -> Secret \cup {NoSecret}]
        /\ r.aim = [g.aim EXCEPT ![p] = NoSecret] /\ r.stage = g.stage
    BY <1>1 DEF Lobby, GoodRound, Game, RemoveProcess
  <2> HIDE DEF r
  <2>3. \A q \in Process : r.aim[q] = NoSecret
    BY <1>1, <2>2 DEF Lobby
  <2>4. Lobby(r)
    BY <1>1, <2>1, <2>2, <2>3 DEF Lobby
  <2> QED  BY <1>1, <2>4, LobbyStands DEF FreeGame, r
<1>2. CASE ~Lobby(g)
  <2>1. /\ Begun(g)
        /\ HonestReports => Tellable(g)
        /\ Report = {} => GoodRound(g) /\ Open(g)
    BY <1>2 DEF FreeGame
  <2>2. Begun(r) /\ LeaveStep(g, r, p)
    BY <2>1, RemoveBegun
  <2>3. HonestReports => Tellable(r)
    BY <2>1, RemoveTellable
  <2>4. Report = {} => GoodRound(r) /\ Open(r)
    BY <2>1, RemoveGood
  <2> HIDE DEF r
  <2> QED  BY <2>1, <2>2, <2>3, <2>4, StepsStand DEF FreeGame, r
<1> QED  BY <1>1, <1>2

-----------------------------------------------------------------------------
(* FINISH_GAME: the players give up, and the loop plays the rest.          *)
LEMMA GiveUpAllBusy ==
  ASSUME NEW g, FreeGame(g)
  PROVE  LET r == GiveUpAll(g)
         IN  BusyGame(r) /\ Stands(g, r)
<1> DEFINE Q == PlayerList(g) \cap Running(g)
           r == GiveUpAll(g)
<1>1. r = GiveUp(g, Q)
  BY DEF GiveUpAll
<1>2. CASE Lobby(g)
  <2>1. /\ g \in Game /\ g.stage = "WAIT_A_NUMBER" /\ g.step = 0 /\ g.winners = {}
        /\ \A p \in Process : /\ g.state[p] \in {"ABSENT", "WAIT_A_NUMBER"}
                             /\ g.attempts[p] = 0 /\ g.aim[p] = NoSecret
    BY <1>2 DEF Lobby, GoodRound, GoodLobby
  <2>2. \A p \in Process : p \in Q <=> p \in Player /\ g.state[p] # "ABSENT"
    BY <2>1 DEF PlayerList, Running, Present, Terminal
  <2>3. Q \in SUBSET Present(g)
    BY DEF PlayerList
  <2> HIDE DEF Q
  <2>4. GiveUp(g, Q) \in Game
    BY <2>1, <2>3, GiveUpPresent
  <2>5. /\ r.stage = g.stage /\ r.step = g.step /\ r.winners = g.winners
        /\ r.attempts = g.attempts /\ r.aim = g.aim
        /\ r.state = [p \in Process |-> IF p \in Q THEN "GAVE_UP" ELSE g.state[p]]
    BY <1>1, <2>1 DEF GiveUp, Game
  <2> HIDE DEF r
  <2>6. GivenUpLobby(r)
    BY <1>1, <2>1, <2>2, <2>4, <2>5 DEF GivenUpLobby
  <2> QED  BY <1>2, <2>6, LobbyStands DEF BusyGame, r
<1>3. CASE ~Lobby(g)
  <2>1. /\ Begun(g)
        /\ HonestReports => Tellable(g)
        /\ Report = {} => GoodRound(g) /\ Open(g)
    BY <1>3 DEF FreeGame
  <2>2. Q \in SUBSET (PlayerList(g) \cap Running(g)) /\ g.stage # "WAIT_A_NUMBER"
    BY <2>1 DEF Begun
  <2>3. /\ Begun(r) /\ PlayStep(g, r)
        /\ \A p \in Process : r.state[p] = IF p \in Q THEN "GAVE_UP" ELSE g.state[p]
    BY <1>1, <2>1, <2>2, GiveUpBegun
  <2>4. HonestReports => Tellable(r)
    BY <1>1, <2>1, <2>2, GiveUpTellable
  <2>5. Report = {} => GoodRound(r)
    BY <1>1, <2>1, <2>2, GivingUpGood
  <2> HIDE DEF r
  <2>6. PlayerList(r) \cap Running(r) = {}
    BY <2>3 DEF PlayerList, Running, Present, Terminal, Process
  <2> HIDE DEF Q
  <2>7. BusyGame(r) /\ Stands(g, r)
    BY <2>1, <2>3, <2>4, <2>5, <2>6, StepsStand DEF BusyGame
  <2> QED  BY <2>7 DEF r
<1> QED  BY <1>2, <1>3

(* Before the start the loop meets a computer without a secret, or there   *)
(* is none and one round ends the game.                                    *)
LEMMA LoopBeforeStart ==
  ASSUME NEW g, GivenUpLobby(g), ~NullSecret(g), NEW hits \in Outcomes(g)
  PROVE  LET r == FinishStep(g, hits)
         IN  /\ r.stage = "FINISHED" /\ Begun(r) /\ GoodRound(r)
             /\ Stands(g, r)
             /\ PlayerList(r) \cap Running(r) = {}
             /\ Running(g) = {}
<1> DEFINE r == CloseRound(g, hits)
           now == {p \in Process : r.state[p] = "FINISHED" /\ r.attempts[p] = g.step + 1}
           done == \A p \in Process : r.state[p] \in Terminal \cup {"ABSENT"}
<1>1. /\ g \in Game /\ g.stage = "WAIT_A_NUMBER" /\ g.step = 0 /\ g.winners = {}
      /\ \A p \in Process :
           /\ g.state[p] \in {"ABSENT", IF p \in Player THEN "GAVE_UP" ELSE "WAIT_A_NUMBER"}
           /\ g.attempts[p] = 0 /\ g.aim[p] = NoSecret
  BY DEF GivenUpLobby
<1>2. UnsteppedPlayers(g) = {}
  BY <1>1 DEF UnsteppedPlayers, UnsteppedAt, PlayerList, Present, Terminal
<1>3. \A c \in Computer : g.state[c] = "ABSENT"
  <2> SUFFICES ASSUME NEW c \in Computer, g.state[c] # "ABSENT"  PROVE FALSE
    OBVIOUS
  <2>1. c \in Process /\ c \notin Player
    BY ProcessAssumption DEF Process
  <2>2. g.state[c] = "WAIT_A_NUMBER" /\ g.attempts[c] = g.step /\ g.aim[c] = NoSecret
    BY <1>1, <2>1
  <2>3. c \in Movers(g)
    BY <2>1, <2>2 DEF Movers, ComputerList, Present, Terminal
  <2> QED  BY <1>2, <2>2, <2>3 DEF NullSecret
<1>4. Movers(g) = {}
  BY <1>3 DEF Movers, ComputerList, Present
<1>5. hits = {} /\ hits \in SUBSET Movers(g)
  BY <1>4 DEF Outcomes
<1>6. \A p \in Process : g.state[p] \in {"ABSENT", "GAVE_UP"}
  BY <1>1, <1>3 DEF Process
<1>7. /\ r \in Game
      /\ r.aim = g.aim
      /\ r.attempts = [p \in Process |->
            IF p \in Movers(g) THEN g.attempts[p] + 1 ELSE g.attempts[p]]
      /\ r.state = [p \in Process |->
            IF p \in hits THEN "FINISHED" ELSE g.state[p]]
      /\ r.winners = IF g.stage = "IN_PROGRESS" /\ now # {} THEN now ELSE g.winners
      /\ r.stage = IF done THEN "FINISHED"
                   ELSE IF g.stage = "IN_PROGRESS" /\ now # {}
                   THEN "IN_PROGRESS_WINNER_DEFINED" ELSE g.stage
  <2>1. g \in Game
    BY <1>1
  <2> QED  BY <1>5, <2>1, CloseRoundFields, ZenonT(60)
<1>8. FinishStep(g, hits) = r
  BY <1>2 DEF FinishStep
<1> HIDE DEF r
<1>9. \A p \in Process : r.state[p] = g.state[p] /\ r.attempts[p] = g.attempts[p]
  BY <1>4, <1>5, <1>7
<1>10. r.winners = {} /\ r.stage = "FINISHED"
  <2>1. done
    BY <1>6, <1>9 DEF Terminal
  <2> QED  BY <2>1, <1>1, <1>7
<1>11. Running(g) = {} /\ Running(r) = {}
  BY <1>6, <1>9 DEF Running, Present, Terminal
<1>12. GoodSecret(r)
  <2>1. ComputerList(r) = {}
    BY <1>3, <1>9 DEF ComputerList, Present, Process
  <2>2. \A p \in Present(r) : r.aim[p] = NoSecret
    BY <1>1, <1>7 DEF Present
  <2> QED  BY <2>1, <2>2, <1>10 DEF GoodSecret, InPlay
<1>13. GoodRound(r)
  <2>1. GoodLobby(r) /\ GoodAttempts(r) /\ GoodRace(r)
    BY <1>10 DEF GoodLobby, GoodAttempts, GoodRace, InPlay
  <2>2. GoodEnd(r) /\ GoodWinners(r)
    BY <1>6, <1>9, <1>10 DEF GoodEnd, GoodWinners, Terminal
  <2> QED  BY <2>1, <2>2, <1>7, <1>12 DEF GoodRound
<1>14. Begun(r)
  BY <1>10, <1>13, GoodIsBegun
<1>15. Stands(g, r)
  BY <1>1, <1>9 DEF Stands, Kept
<1> QED  BY <1>8, <1>10, <1>11, <1>13, <1>14, <1>15

LEMMA LoopBusy ==
  ASSUME NEW g, BusyGame(g), ~NullSecret(g), NEW hits \in Outcomes(g)
  PROVE  LET r == FinishStep(g, hits)
         IN  BusyGame(r) /\ Stands(g, r)
<1> DEFINE r == FinishStep(g, hits)
<1>1. CASE GivenUpLobby(g)
  <2>1. /\ r.stage = "FINISHED" /\ Begun(r) /\ GoodRound(r) /\ Stands(g, r)
        /\ PlayerList(r) \cap Running(r) = {}
    BY <1>1, LoopBeforeStart
  <2> HIDE DEF r
  <2>2. Tellable(r)
    BY <2>1, EndedIsTellable DEF InPlay
  <2> QED  BY <2>1, <2>2 DEF BusyGame, r
<1>2. CASE ~GivenUpLobby(g)
  <2>1. /\ Begun(g)
        /\ PlayerList(g) \cap Running(g) = {}
        /\ HonestReports => Tellable(g)
        /\ Report = {} => GoodRound(g)
    BY <1>2 DEF BusyGame
  <2>2. UnsteppedPlayers(g) = {} /\ g.stage # "WAIT_A_NUMBER"
    BY <2>1 DEF UnsteppedPlayers, UnsteppedAt, PlayerList, Running, Begun
  <2>3. Begun(r) /\ PlayStep(g, r) /\ \A p \in Player : Kept(g, r, p)
    BY <2>1, FinishStepBegun
  <2>4. HonestReports => Tellable(r)
    BY <2>1, FinishStepTellable
  <2>5. Report = {} => GoodRound(r)
    BY <2>1, <2>2, CloseRoundGood DEF FinishStep
  <2> HIDE DEF r
  <2>6. PlayerList(r) \cap Running(r) = {}
    BY <2>1, <2>3 DEF Kept, PlayerList, Running, Present
  <2>7. BusyGame(r) /\ Stands(g, r)
    BY <2>1, <2>3, <2>4, <2>5, <2>6, StepsStand DEF BusyGame
  <2> QED  BY <2>7 DEF r
<1> QED  BY <1>1, <1>2

LEMMA BusyEnds ==
  ASSUME NEW g, BusyGame(g), g.stage = "FINISHED"
  PROVE  FreeGame(g)
BY DEF BusyGame, GivenUpLobby, FreeGame, Open, InPlay

(* RESTORE_GAME, of whatever a client may tell.                            *)
LEMMA RestoreFree ==
  ASSUME NEW r \in Report, NEW s \in Secret
  PROVE  FreeGame(RestoreGame(s, r.told))
<1>1. /\ DOMAIN r.told \subseteq Process /\ DOMAIN r.told \cap Player # {}
      /\ \A p \in DOMAIN r.told : r.told[p].rounds \in Nat
  BY ReportAssumption DEF Process
<1>2. Begun(RestoreGame(s, r.told))
  BY <1>1, RestoreBegun
<1>3. HonestReports => Tellable(RestoreGame(s, r.told))
  BY <1>1, RestoreTellable DEF HonestReports
<1>4. Report # {}
  OBVIOUS
<1> QED  BY <1>2, <1>3, <1>4 DEF FreeGame

-----------------------------------------------------------------------------
OutcomesKept == \A g \in exists \cap exists' : Stands(game[g], game'[g])

LEMMA InitFInv == Init => FInv
BY DEF Init, FInv

(* Nothing happens to the games.                                           *)
LEMMA GamesAsTheyWere ==
  ASSUME FInv, UNCHANGED <<exists, game, finishing>>, registered => registered'
  PROVE  FInv' /\ OutcomesKept
<1>1. FInv'
  BY DEF FInv
<1>2. \A g : Stands(game[g], game[g])
  BY DEF Stands, Kept
<1> QED  BY <1>1, <1>2 DEF OutcomesKept

(* A command is about one game, and no loop goes on about another.         *)
LEMMA OneGameFree ==
  ASSUME SInv, FInv, NEW g \in GameId, NEW gm, SetGame(g, gm),
         exists' \subseteq GameId, exists' \ {g} = exists \ {g},
         finishing \in {g, NoGame}, finishing' \in {g, NoGame},
         finishing' # NoGame => registered' /\ finishing' \in exists',
         g \in exists' => IF finishing' = g THEN BusyGame(gm) ELSE FreeGame(gm),
         g \in exists \cap exists' => Stands(game[g], gm)
  PROVE  FInv' /\ OutcomesKept
<1>1. /\ game \in [GameId -> Game] /\ game' = [game EXCEPT ![g] = gm]
      /\ exists \subseteq GameId /\ NoGame \notin GameId
  BY NoGameAssumption DEF SInv, Typed, SetGame, NoGame
<1>2. game'[g] = gm
  BY <1>1
<1>3. ASSUME NEW h \in exists', h # g
      PROVE  /\ h \in exists /\ game'[h] = game[h]
             /\ finishing # h /\ finishing' # h
  <2>1. h \in exists /\ h \in GameId
    BY <1>3
  <2>2. game'[h] = game[h]
    BY <1>1, <1>3, <2>1
  <2>3. h # NoGame
    BY <1>1, <2>1
  <2> QED  BY <1>3, <2>1, <2>2, <2>3
<1>4. ASSUME NEW h \in exists'
      PROVE  IF finishing' = h THEN BusyGame(game'[h]) ELSE FreeGame(game'[h])
  <2>1. CASE h = g
    BY <1>2, <1>4, <2>1
  <2>2. CASE h # g
    <3>1. FreeGame(game[h])
      BY <1>3, <1>4, <2>2 DEF FInv
    <3> QED  BY <3>1, <1>3, <1>4, <2>2
  <2> QED  BY <2>1, <2>2
<1>5. FInv'
  BY <1>4 DEF FInv
<1>6. ASSUME NEW h \in exists \cap exists'  PROVE Stands(game[h], game'[h])
  <2>1. CASE h = g
    BY <1>2, <1>6, <2>1
  <2>2. CASE h # g
    <3>1. game'[h] = game[h]
      BY <1>3, <1>6, <2>2
    <3> QED  BY <3>1 DEF Stands, Kept
  <2> QED  BY <2>1, <2>2
<1> QED  BY <1>5, <1>6 DEF OutcomesKept

(* What a handler that has found the game knows of it.                     *)
LEMMA FoundFree ==
  ASSUME SInv, FInv, NEW p \in Player, NEW g \in GameId, Found(p, g)
  PROVE  /\ FreeGame(game[g]) /\ Present(game[g]) # {}
         /\ g \in exists /\ exists \subseteq GameId /\ g # NoGame
         /\ finishing = NoGame /\ registered /\ UNCHANGED registered
<1>1. /\ g \in exists /\ finishing = NoGame /\ registered /\ UNCHANGED registered
      /\ g # NoGame
  BY NoGameAssumption DEF Found, Ready, NoGame
<1>2. FreeGame(game[g])
  BY <1>1 DEF FInv
<1>3. Present(game[g]) # {} /\ exists \subseteq GameId
  BY <1>1, OfOneGame DEF GoodGame
<1> QED  BY <1>1, <1>2, <1>3

LEMMA EnteringFree ==
  ASSUME SInv, FInv, NEW p \in Player, NEW g \in GameId,
         \/ CreateGame(p, g)
         \/ \E c \in Computer : CreateComputerGame(p, g, c)
         \/ AddPlayerToGame(p, g)
         \/ \E c \in Computer : AddComputerToGame(p, g, c)
         \/ \E c \in Computer : SwitchBrain(p, g, c)
         \/ \E r \in Report, s \in Secret : RestoreGameCommand(g, r, s)
  PROVE  FInv' /\ OutcomesKept
<1>1. g # NoGame /\ exists \subseteq GameId
  BY NoGameAssumption, OfOneGame DEF NoGame
<1>2. ASSUME NEW gm, Lobby(gm), SetGame(g, gm), exists' = exists \cup {g},
             g \in exists => Lobby(game[g]),
             finishing = NoGame, UNCHANGED finishing
      PROVE  FInv' /\ OutcomesKept
  BY <1>1, <1>2, OneGameFree, LobbyStands DEF FreeGame
<1>3. ASSUME CreateGame(p, g)  PROVE FInv' /\ OutcomesKept
  <2>1. Lobby(InitGame(AddPlayer(EmptyGame, p)))
    BY LobbyPeopled
  <2> QED  BY <1>2, <1>3, <2>1 DEF CreateGame, CanCreate, Ready
<1>4. ASSUME NEW c \in Computer, CreateComputerGame(p, g, c)  PROVE FInv' /\ OutcomesKept
  <2>1. Lobby(InitGame(AddComputer(EmptyGame, c)))
    BY LobbyPeopled
  <2> QED  BY <1>2, <1>4, <2>1 DEF CreateComputerGame, CanCreate, Ready
<1>5. ASSUME finishing = NoGame, g \in exists, game[g].stage = "WAIT_A_NUMBER"
      PROVE  Lobby(game[g]) /\ exists = exists \cup {g}
  BY <1>1, <1>5 DEF FInv, FreeGame, Begun
<1>6. ASSUME AddPlayerToGame(p, g)  PROVE FInv' /\ OutcomesKept
  <2>1. Lobby(game[g]) /\ exists = exists \cup {g}
    BY <1>5, <1>6 DEF AddPlayerToGame, CanAddPlayer, Ready
  <2>2. Lobby(InitGame(AddPlayer(game[g], p)))
    BY <2>1, LobbyPeopled
  <2> QED  BY <1>2, <1>6, <2>1, <2>2 DEF AddPlayerToGame, Ready
<1>7. ASSUME NEW c \in Computer, AddComputerToGame(p, g, c)  PROVE FInv' /\ OutcomesKept
  <2>1. Lobby(game[g]) /\ exists = exists \cup {g}
    BY <1>5, <1>7 DEF AddComputerToGame, CanAddComputer, Found, Ready
  <2>2. Lobby(InitGame(AddComputer(game[g], c)))
    BY <2>1, LobbyPeopled
  <2> QED  BY <1>2, <1>7, <2>1, <2>2 DEF AddComputerToGame, Found, Ready
<1>8. ASSUME NEW c \in Computer, SwitchBrain(p, g, c)  PROVE FInv' /\ OutcomesKept
  <2>1. Lobby(game[g]) /\ exists = exists \cup {g}
    BY <1>5, <1>8 DEF SwitchBrain, Found, Ready
  <2>2. Lobby(InitGame(SwitchGameBrain(game[g], c)))
    BY <1>8, <2>1, LobbyPeopled DEF SwitchBrain
  <2> QED  BY <1>2, <1>8, <2>1, <2>2 DEF SwitchBrain, Found, Ready
<1>9. ASSUME NEW r \in Report, NEW s \in Secret, RestoreGameCommand(g, r, s)
      PROVE  FInv' /\ OutcomesKept
  <2>1. /\ g \notin exists /\ exists' = exists \cup {g}
        /\ SetGame(g, RestoreGame(s, r.told))
        /\ finishing = NoGame /\ UNCHANGED finishing
    BY <1>9 DEF RestoreGameCommand, Ready
  <2>2. FreeGame(RestoreGame(s, r.told))
    BY RestoreFree
  <2> QED  BY <1>1, <2>1, <2>2, OneGameFree
<1> QED  BY <1>3, <1>4, <1>6, <1>7, <1>8, <1>9

LEMMA PlayingFree ==
  ASSUME SInv, FInv, NEW p \in Player, NEW g \in GameId,
         \/ \E s \in Secret : StartGameCommand(p, g, s)
         \/ PlayerStep(p, g)
         \/ PlayerGiveUpCommand(p, g)
         \/ ComputerStep(p, g)
         \/ FinishGame(p, g)
  PROVE  FInv' /\ OutcomesKept
<1>1. Found(p, g) /\ UNCHANGED exists
  BY DEF StartGameCommand, PlayerStep, PlayerGiveUpCommand, ComputerStep, FinishGame
<1>2. /\ FreeGame(game[g]) /\ Present(game[g]) # {}
      /\ g \in exists /\ exists \subseteq GameId /\ g # NoGame
      /\ finishing = NoGame /\ registered /\ UNCHANGED registered
  BY <1>1, FoundFree
<1>3. ASSUME NEW gm, SetGame(g, gm), FreeGame(gm), Stands(game[g], gm), UNCHANGED finishing
      PROVE  FInv' /\ OutcomesKept
  BY <1>1, <1>2, <1>3, OneGameFree
<1>4. ASSUME NEW s \in Secret, StartGameCommand(p, g, s)  PROVE FInv' /\ OutcomesKept
  BY <1>2, <1>3, <1>4, StartFree DEF StartGameCommand
<1>5. ASSUME PlayerStep(p, g)  PROVE FInv' /\ OutcomesKept
  <2>1. CanStep(game[g], p) /\ UNCHANGED finishing
    BY <1>5 DEF PlayerStep
  <2>2. PICK hit \in BOOLEAN, hits \in Outcomes(game[g]) :
           SetGame(g, DoPlayerStep(game[g], p, hit, hits))
    BY <1>5 DEF PlayerStep
  <2> QED  BY <1>2, <1>3, <2>1, <2>2, PlayerStepFree
<1>6. ASSUME PlayerGiveUpCommand(p, g)  PROVE FInv' /\ OutcomesKept
  <2>1. CanGiveUp(game[g], p) /\ UNCHANGED finishing
    BY <1>6 DEF PlayerGiveUpCommand
  <2>2. PICK hits \in Outcomes(game[g]) : SetGame(g, PlayerGiveUp(game[g], p, hits))
    BY <1>6 DEF PlayerGiveUpCommand
  <2> QED  BY <1>2, <1>3, <2>1, <2>2, PlayerGiveUpFree
<1>7. ASSUME ComputerStep(p, g)  PROVE FInv' /\ OutcomesKept
  <2>1. UnsteppedPlayers(game[g]) = {} /\ ~NullSecret(game[g]) /\ UNCHANGED finishing
    BY <1>7 DEF ComputerStep
  <2>2. PICK hits \in Outcomes(game[g]) : SetGame(g, FinishStep(game[g], hits))
    BY <1>7 DEF ComputerStep
  <2> QED  BY <1>2, <1>3, <2>1, <2>2, ComputerStepFree
<1>8. ASSUME FinishGame(p, g)  PROVE FInv' /\ OutcomesKept
  <2>1. SetGame(g, GiveUpAll(game[g])) /\ finishing' = g
    BY <1>8 DEF FinishGame
  <2>2. BusyGame(GiveUpAll(game[g])) /\ Stands(game[g], GiveUpAll(game[g]))
    BY <1>2, GiveUpAllBusy
  <2> QED  BY <1>1, <1>2, <2>1, <2>2, OneGameFree
<1> QED  BY <1>4, <1>5, <1>6, <1>7, <1>8

LEMMA LoopFree ==
  ASSUME SInv, FInv, NEW g \in GameId, FinishGameLoop(g)
  PROVE  FInv' /\ OutcomesKept
<1>1. /\ finishing = g /\ ~NullSecret(game[g]) /\ UNCHANGED <<registered, exists>>
      /\ g # NoGame
  BY NoGameAssumption DEF FinishGameLoop, NoGame
<1>2. /\ g \in exists /\ registered /\ BusyGame(game[g])
      /\ exists \subseteq GameId
  BY <1>1, OfOneGame DEF FInv
<1>3. CASE game[g].stage = "FINISHED"
  <2>1. finishing' = NoGame /\ UNCHANGED game
    BY <1>3 DEF FinishGameLoop
  <2>2. SetGame(g, game[g])
    BY <2>1 DEF SetGame, SInv, Typed
  <2>3. FreeGame(game[g])
    BY <1>2, <1>3, BusyEnds
  <2>4. Stands(game[g], game[g])
    BY DEF Stands, Kept
  <2> QED  BY <1>1, <1>2, <2>1, <2>2, <2>3, <2>4, OneGameFree
<1>4. CASE game[g].stage # "FINISHED"
  <2>1. PICK hits \in Outcomes(game[g]) : SetGame(g, FinishStep(game[g], hits))
    BY <1>4 DEF FinishGameLoop
  <2>2. UNCHANGED finishing
    BY <1>4 DEF FinishGameLoop
  <2>3. /\ BusyGame(FinishStep(game[g], hits))
        /\ Stands(game[g], FinishStep(game[g], hits))
    BY <1>1, <1>2, LoopBusy
  <2> QED  BY <1>1, <1>2, <2>1, <2>2, <2>3, OneGameFree
<1> QED  BY <1>3, <1>4

LEMMA LeavingFree ==
  ASSUME SInv, FInv, NEW p \in Player, NEW g \in GameId,
         \/ LeavePlayer(p, g)
         \/ \E c \in Computer : LeaveComputer(p, g, c)
         \/ RemoveGame(p, g)
  PROVE  FInv' /\ OutcomesKept
<1>1. Found(p, g) /\ UNCHANGED finishing
  BY DEF LeavePlayer, LeaveComputer, RemoveGame
<1>2. /\ FreeGame(game[g])
      /\ g \in exists /\ exists \subseteq GameId /\ g # NoGame
      /\ finishing = NoGame
  BY <1>1, FoundFree
<1>3. ASSUME SetGame(g, EmptyGame), exists' = exists \ {g}  PROVE FInv' /\ OutcomesKept
  BY <1>1, <1>2, <1>3, OneGameFree
<1>4. ASSUME NEW x \in Process, CanRemove(game[g], x), KeepIfPlayed(g, RemoveProcess(game[g], x))
      PROVE  FInv' /\ OutcomesKept
  <2> DEFINE r == RemoveProcess(game[g], x)
  <2>1. FreeGame(r) /\ Stands(game[g], r)
    BY <1>2, <1>4, RemoveFree
  <2> HIDE DEF r
  <2>2. CASE PlayersCount(r) = 0
    BY <1>3, <1>4, <2>2 DEF KeepIfPlayed, r
  <2>3. CASE PlayersCount(r) # 0
    <3>1. SetGame(g, r) /\ UNCHANGED exists
      BY <1>4, <2>3 DEF KeepIfPlayed, r
    <3> QED  BY <1>1, <1>2, <2>1, <3>1, OneGameFree
  <2> QED  BY <2>2, <2>3
<1>5. ASSUME LeavePlayer(p, g)  PROVE FInv' /\ OutcomesKept
  BY <1>4, <1>5 DEF LeavePlayer, Process
<1>6. ASSUME NEW c \in Computer, LeaveComputer(p, g, c)  PROVE FInv' /\ OutcomesKept
  BY <1>4, <1>6 DEF LeaveComputer, Process
<1>7. ASSUME RemoveGame(p, g)  PROVE FInv' /\ OutcomesKept
  BY <1>3, <1>7 DEF RemoveGame
<1> QED  BY <1>5, <1>6, <1>7

LEMMA NextFInv == SInv /\ FInv /\ Next => FInv' /\ OutcomesKept
<1> SUFFICES ASSUME SInv, FInv, Next  PROVE FInv' /\ OutcomesKept
  OBVIOUS
<1>1. CASE RegisterServer
  BY <1>1, GamesAsTheyWere DEF RegisterServer
<1>2. CASE DisconnectServer
  BY <1>2 DEF DisconnectServer, FInv, OutcomesKept
<1>3. ASSUME NEW p \in Player, CreatePlayer(p)  PROVE FInv' /\ OutcomesKept
  BY <1>3, GamesAsTheyWere DEF CreatePlayer, Ready
<1>4. ASSUME NEW p \in Player, NEW g \in GameId, GiveRights(p, g)
      PROVE  FInv' /\ OutcomesKept
  BY <1>4, GamesAsTheyWere DEF GiveRights, Found, Ready
<1>5. ASSUME NEW p \in Player, NEW g \in GameId,
             \/ CreateGame(p, g)
             \/ \E c \in Computer : CreateComputerGame(p, g, c)
             \/ AddPlayerToGame(p, g)
             \/ \E c \in Computer : AddComputerToGame(p, g, c)
             \/ \E c \in Computer : SwitchBrain(p, g, c)
      PROVE  FInv' /\ OutcomesKept
  BY <1>5, EnteringFree
<1>6. ASSUME NEW p \in Player, NEW g \in GameId,
             \/ \E s \in Secret : StartGameCommand(p, g, s)
             \/ PlayerStep(p, g)
             \/ PlayerGiveUpCommand(p, g)
             \/ ComputerStep(p, g)
             \/ FinishGame(p, g)
      PROVE  FInv' /\ OutcomesKept
  BY <1>6, PlayingFree
<1>7. ASSUME NEW g \in GameId, FinishGameLoop(g)  PROVE FInv' /\ OutcomesKept
  BY <1>7, LoopFree
<1>8. ASSUME NEW p \in Player, NEW g \in GameId,
             \/ LeavePlayer(p, g)
             \/ \E c \in Computer : LeaveComputer(p, g, c)
             \/ RemoveGame(p, g)
      PROVE  FInv' /\ OutcomesKept
  BY <1>8, LeavingFree
<1>9. ASSUME NEW g \in GameId, NEW r \in Report, NEW s \in Secret, RestoreGameCommand(g, r, s)
      PROVE  FInv' /\ OutcomesKept
  <2>1. PICK p \in DOMAIN r.host : p \in Player
    BY ReportAssumption
  <2> QED  BY <1>9, <2>1, EnteringFree
<1>10. ASSUME NEW g \in GameId,
             \/ \E p \in Player : ComputerStepCrash(p, g)
             \/ FinishGameCrash(g)
             \/ \E r \in Report : RestoreGameAtLimit(g, r)
      PROVE  FInv' /\ OutcomesKept
  BY <1>10, GamesAsTheyWere DEF ComputerStepCrash, FinishGameCrash, RestoreGameAtLimit, Crash
<1> QED  BY <1>1, <1>2, <1>3, <1>4, <1>5, <1>6, <1>7, <1>8, <1>9, <1>10 DEF Next

(* The inductive invariant of the play on the server, of each game at a    *)
(* time: in the lobby nobody has a secret, in a game that has begun, or    *)
(* has been restored, everybody has the same.                              *)
THEOREM ServerPlayInductive == Spec => []FInv
<1>1. SInv /\ FInv /\ [Next]_vars => FInv'
  <2>1. FInv /\ UNCHANGED vars => FInv'
    BY GamesAsTheyWere DEF vars
  <2> QED  BY <2>1, NextFInv
<1> QED  BY <1>1, InitFInv, ServerInductive, PTL DEF Spec

(* COMPUTER_STEP and FINISH_GAME end the process only before the start.    *)
THEOREM NullOnlyBeforeStartCorrect == Spec => []NullOnlyBeforeStart
<1>1. FInv => NullOnlyBeforeStart
  <2> SUFFICES ASSUME FInv, NEW g \in exists, NullSecret(game[g])
               PROVE  game[g].stage = "WAIT_A_NUMBER"
    BY DEF NullOnlyBeforeStart
  <2>1. Lobby(game[g]) \/ GivenUpLobby(game[g]) \/ Begun(game[g])
    BY DEF FInv, FreeGame, BusyGame
  <2> QED  BY <2>1, BegunRunning DEF Lobby, GivenUpLobby
<1> QED  BY <1>1, ServerPlayInductive, PTL

(* No command, in no order, takes back winners or the end of a process's   *)
(* game while the game exists.                                             *)
THEOREM OutcomesStandCorrect == Spec => OutcomesStand
<1>1. SInv /\ FInv /\ [Next]_vars =>
        [\A g \in exists \cap exists' :
          /\ game[g].winners # {} => game'[g].winners = game[g].winners
          /\ \A p \in Process : game[g].state[p] \in Terminal =>
               \/ game'[g].state[p] = "ABSENT"
               \/ /\ game'[g].state[p] = game[g].state[p]
                  /\ game'[g].attempts[p] = game[g].attempts[p]]_vars
  BY NextFInv DEF OutcomesKept, Stands, Kept
<1> QED  BY <1>1, ServerInductive, ServerPlayInductive, PTL DEF Spec, OutcomesStand

(* With honest reports each game on the server is a fair race.             *)
THEOREM GamesPlayFairCorrect ==
  ASSUME HonestReports
  PROVE  Spec => []GamesPlayFair
<1>1. FInv => GamesPlayFair
  <2> SUFFICES ASSUME FInv, NEW g \in exists, InPlay(game[g]),
                      NEW p \in Running(game[g]), NEW q \in Running(game[g])
               PROVE  /\ game[g].aim[p] = game[g].aim[q] /\ game[g].aim[p] # NoSecret
                      /\ game[g].attempts[p] <= game[g].attempts[q] + 1
                      /\ game[g].attempts[p] >= game[g].step
    BY DEF GamesPlayFair
  <2> DEFINE gm == game[g]
  <2>1. Banded(gm)
    BY TellableIsBanded DEF FInv, FreeGame, BusyGame, Lobby, GivenUpLobby, InPlay
  <2>2. InPlay(gm) /\ p \in Running(gm) /\ q \in Running(gm)
    OBVIOUS
  <2> HIDE DEF gm
  <2>3. Begun(gm) /\ gm \in Game
    BY <2>1 DEF Banded, Begun
  <2>4. /\ p \in Process /\ q \in Process /\ p \in Present(gm) /\ q \in Present(gm)
        /\ gm.state[p] = "IN_PROGRESS" /\ gm.state[q] = "IN_PROGRESS"
    BY <2>2, <2>3, BegunRunning
  <2>5. PICK s \in Secret : \A o \in Present(gm) : gm.aim[o] = s
    BY <2>2, <2>3 DEF Begun, GoodSecret
  <2>6. gm.aim[p] = gm.aim[q] /\ gm.aim[p] # NoSecret
    BY <2>4, <2>5, SecretAssumption
  <2>7. PICK b \in Nat : Base(gm, b)
    BY <2>1, <2>2 DEF Banded
  <2>8. /\ gm.step <= b /\ gm.step \in Nat
        /\ gm.attempts[p] \in {b, b + 1} /\ gm.attempts[q] \in {b, b + 1}
    BY <2>3, <2>4, <2>7 DEF Base, Game
  <2>9. gm.attempts[p] <= gm.attempts[q] + 1 /\ gm.attempts[p] >= gm.step
    BY <2>8
  <2> QED  BY <2>6, <2>9 DEF gm
<1> QED  BY <1>1, ServerPlayInductive, PTL

(* Honesty reproduces itself: what players are told of a game, restored or *)
(* not, at any moment, is what an honest client may restore it from.       *)
THEOREM ToldHonestlyCorrect ==
  ASSUME HonestReports
  PROVE  Spec => []ToldHonestly
<1>1. FInv => ToldHonestly
  <2> SUFFICES ASSUME FInv, NEW g \in exists,
                      game[g].stage # "WAIT_A_NUMBER", CanTell(game[g])
               PROVE  Honest(Told(game[g]))
    BY DEF ToldHonestly
  <2>1. Tellable(game[g])
    BY DEF FInv, FreeGame, BusyGame, Lobby, GivenUpLobby
  <2> QED  BY <2>1, ToldIsHonest
<1> QED  BY <1>1, ServerPlayInductive, PTL

(* The safety half of what ends FINISH_GAME, on a server as in a single    *)
(* controller: with honest reports each iteration brings the end nearer.   *)
THEOREM ServerFinishGoesOn ==
  ASSUME HonestReports
  PROVE  Spec => FinishGameAdvances
<1> DEFINE Advances(g) == (finishing = g /\ finishing' = g /\ alive') =>
                            RoundsLeft(game'[g]) \in 0 .. RoundsLeft(game[g]) - 1
<1>1. ASSUME SInv, FInv, [Next]_vars, NEW g \in GameId,
             vars' # vars, finishing = g, finishing' = g, alive'
      PROVE  RoundsLeft(game'[g]) \in 0 .. RoundsLeft(game[g]) - 1
  <2>1. g # NoGame /\ g \in exists /\ registered /\ BusyGame(game[g])
    BY <1>1, NoGameAssumption DEF FInv, NoGame
  <2>2. FinishGameLoop(g)
    <3>1. Next
      BY <1>1
    <3>2. ~RegisterServer /\ ~DisconnectServer
      BY <1>1, <2>1 DEF RegisterServer, DisconnectServer
    <3>3. ~Ready /\ \A p \in Player, h \in GameId : ~Found(p, h)
      BY <1>1, <2>1 DEF Ready, Found
    <3>4. ASSUME NEW p \in Player, NEW h \in GameId
          PROVE  /\ ~CreatePlayer(p) /\ ~CreateGame(p, h) /\ ~AddPlayerToGame(p, h)
                 /\ ~GiveRights(p, h) /\ ~PlayerStep(p, h) /\ ~PlayerGiveUpCommand(p, h)
                 /\ ~ComputerStep(p, h) /\ ~FinishGame(p, h) /\ ~ComputerStepCrash(p, h)
                 /\ ~LeavePlayer(p, h) /\ ~RemoveGame(p, h)
                 /\ \A s \in Secret : ~StartGameCommand(p, h, s)
      <4>1. ~CreatePlayer(p)
        BY <1>1, <2>1, <3>3 DEF CreatePlayer
      <4>2. ~CreateGame(p, h)
        BY <1>1, <2>1, <3>3 DEF CreateGame
      <4>3. ~AddPlayerToGame(p, h)
        BY <1>1, <2>1, <3>3 DEF AddPlayerToGame
      <4>4. ~GiveRights(p, h)
        BY <1>1, <2>1, <3>3 DEF GiveRights
      <4>5. ~PlayerStep(p, h)
        BY <1>1, <2>1, <3>3 DEF PlayerStep
      <4>6. ~PlayerGiveUpCommand(p, h)
        BY <1>1, <2>1, <3>3 DEF PlayerGiveUpCommand
      <4>7. ~ComputerStep(p, h)
        BY <1>1, <2>1, <3>3 DEF ComputerStep
      <4>8. ~FinishGame(p, h)
        BY <1>1, <2>1, <3>3 DEF FinishGame
      <4>9. ~LeavePlayer(p, h)
        BY <1>1, <2>1, <3>3 DEF LeavePlayer
      <4>10. ~RemoveGame(p, h)
        BY <1>1, <2>1, <3>3 DEF RemoveGame
      <4>11. ~ComputerStepCrash(p, h)
        BY <1>1, <2>1, <3>3 DEF ComputerStepCrash
      <4>12. \A s \in Secret : ~StartGameCommand(p, h, s)
        BY <1>1, <2>1, <3>3 DEF StartGameCommand
      <4> QED  BY <4>1, <4>2, <4>3, <4>4, <4>5, <4>6, <4>7, <4>8, <4>9, <4>10, <4>11, <4>12
    <3>5. ASSUME NEW p \in Player, NEW h \in GameId, NEW c \in Computer
          PROVE  /\ ~CreateComputerGame(p, h, c) /\ ~AddComputerToGame(p, h, c)
                 /\ ~SwitchBrain(p, h, c) /\ ~LeaveComputer(p, h, c)
      <4>1. ~CreateComputerGame(p, h, c)
        BY <1>1, <2>1, <3>3 DEF CreateComputerGame
      <4>2. ~AddComputerToGame(p, h, c)
        BY <1>1, <2>1, <3>3 DEF AddComputerToGame
      <4>3. ~SwitchBrain(p, h, c)
        BY <1>1, <2>1, <3>3 DEF SwitchBrain
      <4>4. ~LeaveComputer(p, h, c)
        BY <1>1, <2>1, <3>3 DEF LeaveComputer
      <4> QED  BY <4>1, <4>2, <4>3, <4>4
    <3>6. \A h \in GameId, r \in Report :
            /\ \A s \in Secret : ~RestoreGameCommand(h, r, s)
            /\ ~RestoreGameAtLimit(h, r)
      BY <1>1, <2>1, <3>3 DEF RestoreGameCommand, RestoreGameAtLimit
    <3>7. \A h \in GameId : ~FinishGameCrash(h)
      BY <1>1 DEF FinishGameCrash, Crash
    <3>8. \E h \in GameId : FinishGameLoop(h)
      BY <3>1, <3>2, <3>3, <3>4, <3>5, <3>6, <3>7 DEF Next
    <3> QED  BY <1>1, <3>8 DEF FinishGameLoop
  <2> DEFINE gm == game[g]
  <2>3. gm.stage # "FINISHED" /\ ~NullSecret(gm)
    BY <1>1, <2>1, <2>2 DEF FinishGameLoop
  <2>4. PICK hits \in Outcomes(gm) : SetGame(g, FinishStep(gm, hits))
    BY <2>2, <2>3 DEF FinishGameLoop
  <2>5. game'[g] = FinishStep(gm, hits)
    BY <1>1, <2>4 DEF SetGame, SInv, Typed
  <2> HIDE DEF gm
  <2>6. CASE GivenUpLobby(gm)
    <3>1. FinishStep(gm, hits).stage = "FINISHED" /\ Running(gm) = {}
      BY <2>3, <2>6, LoopBeforeStart
    <3>2. RoundsLeft(FinishStep(gm, hits)) = 0 /\ RoundsLeft(gm) = 1
      BY <2>3, <3>1 DEF RoundsLeft
    <3> QED  BY <2>5, <3>2 DEF gm
  <2>7. CASE ~GivenUpLobby(gm)
    <3>1. Banded(gm) /\ PlayerList(gm) \cap Running(gm) = {}
      BY <2>1, <2>7, TellableIsBanded DEF BusyGame, gm
    <3>2. RoundsLeft(FinishStep(gm, hits)) \in 0 .. RoundsLeft(gm) - 1
      BY <2>3, <3>1, LoopAdvances
    <3> QED  BY <2>5, <3>2 DEF gm
  <2> QED  BY <2>6, <2>7
<1>2. SInv /\ FInv /\ [Next]_vars => [\A g \in GameId : Advances(g)]_vars
  BY <1>1
<1> QED  BY <1>2, ServerInductive, ServerPlayInductive, PTL DEF Spec, FinishGameAdvances, Advances

Booleans == registered \in BOOLEAN /\ alive \in BOOLEAN

LEMMA NextBooleans == Booleans /\ [Next]_vars => Booleans'
<1> SUFFICES ASSUME Booleans, [Next]_vars  PROVE Booleans'
  OBVIOUS
<1>1. ASSUME Ready  PROVE Booleans'
  BY <1>1 DEF Ready, Booleans
<1>2. ASSUME Crash  PROVE Booleans'
  BY <1>2 DEF Crash, Booleans
<1>3. ASSUME RegisterServer \/ DisconnectServer \/ \E g \in GameId : FinishGameLoop(g)
      PROVE  Booleans'
  BY <1>3 DEF RegisterServer, DisconnectServer, FinishGameLoop, Booleans
<1>4. \A p \in Player, g \in GameId : Found(p, g) => Ready
  BY DEF Found
<1>5. ASSUME NEW p \in Player, NEW g \in GameId,
             \/ CreateGame(p, g) \/ AddPlayerToGame(p, g)
             \/ GiveRights(p, g) \/ \E s \in Secret : StartGameCommand(p, g, s)
             \/ PlayerStep(p, g) \/ PlayerGiveUpCommand(p, g) \/ ComputerStep(p, g)
             \/ FinishGame(p, g) \/ LeavePlayer(p, g) \/ RemoveGame(p, g)
      PROVE  Ready
  BY <1>4, <1>5, Zenon DEF CreateGame, AddPlayerToGame, GiveRights,
     StartGameCommand, PlayerStep, PlayerGiveUpCommand, ComputerStep, FinishGame,
     LeavePlayer, RemoveGame
<1>6. ASSUME NEW p \in Player, NEW g \in GameId, NEW c \in Computer,
             \/ CreateComputerGame(p, g, c) \/ AddComputerToGame(p, g, c)
             \/ SwitchBrain(p, g, c) \/ LeaveComputer(p, g, c)
      PROVE  Ready
  BY <1>4, <1>6, Zenon DEF CreateComputerGame, AddComputerToGame, SwitchBrain, LeaveComputer
<1>7. ASSUME NEW g \in GameId, NEW r \in Report, NEW s \in Secret, RestoreGameCommand(g, r, s)
      PROVE  Ready
  BY <1>7 DEF RestoreGameCommand
<1>8. ASSUME NEW g \in GameId,
             \/ \E p \in Player : ComputerStepCrash(p, g)
             \/ FinishGameCrash(g)
             \/ \E r \in Report : RestoreGameAtLimit(g, r)
      PROVE  Crash
  BY <1>8, Zenon DEF ComputerStepCrash, FinishGameCrash, RestoreGameAtLimit
<1>9. ASSUME NEW p \in Player, CreatePlayer(p)  PROVE Ready
  BY <1>9 DEF CreatePlayer
<1>10. ASSUME UNCHANGED vars  PROVE Booleans'
  BY <1>10 DEF vars, Booleans
<1>11. ASSUME Next
       PROVE  \/ Ready \/ Crash
              \/ RegisterServer \/ DisconnectServer \/ \E g \in GameId : FinishGameLoop(g)
  BY <1>5, <1>6, <1>7, <1>8, <1>9, <1>11 DEF Next
<1> QED  BY <1>1, <1>2, <1>3, <1>10, <1>11

(* Type correctness: the game in the loop of FINISH_GAME exists.           *)
THEOREM ServerTypeOK == Spec => []TypeOK
<1>1. Init => Booleans
  BY DEF Init, Booleans
<1>2. SInv /\ FInv /\ Booleans => TypeOK
  BY DEF SInv, Typed, FInv, TypeOK, Booleans
<1> QED  BY <1>1, <1>2, NextBooleans, ServerInductive, ServerPlayInductive, PTL DEF Spec

(* A server no game was ever restored on keeps every game that has begun   *)
(* as good as a controller keeps its only one.                             *)
THEOREM GamesAreRacesCorrect ==
  ASSUME Report = {}
  PROVE  Spec => []GamesAreRaces
<1>1. FInv => GamesAreRaces
  BY DEF FInv, FreeGame, BusyGame, Lobby, GivenUpLobby, GamesAreRaces
<1> QED  BY <1>1, ServerPlayInductive, PTL
=============================================================================
