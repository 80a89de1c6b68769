---------------------------- MODULE TcpServerProofs ----------------------------
(***************************************************************************)
(* The thread count of the TCP server, for every number of clients and     *)
(* places and whatever the count began with.                               *)
(*                                                                         *)
(* CountIsSessions is not inductive: it needs to know who holds the mutex  *)
(* where the count changes, that the accept handler's connection is not    *)
(* served before the handler starts its thread, and that there is still a  *)
(* place between the handler's unguarded look at the count and the start.  *)
(***************************************************************************)
EXTENDS TcpServer, FiniteSetTheorems, TLAPS

(* The mutex is the handler's from the start of a thread to its count, and *)
(* a session's while it counts itself out.                                 *)
Holders ==
  /\ mutex = Io <=> handler = "spawned"
  /\ \A c \in Client : mutex = c <=> session[c] = "uncount"

(* What the handler knows of the connection it was called for.             *)
HandlerHasPeer ==
  /\ handler # "idle" => peer \in Client
  /\ handler \in {"check", "lock"} => session[peer] = "backlog"
  /\ handler = "spawned" => peer \in Live

(* There is a place for every session, counted from where the count began, *)
(* and one for the session the handler is about to start.                  *)
HasRoom ==
  /\ Live # {} \/ handler \in {"lock", "spawned"} =>
       firstCount + Cardinality(Live) <= MAX_THREADS
  /\ handler = "lock" => firstCount + Cardinality(Live) < MAX_THREADS

IInv == TypeOK /\ Holders /\ HandlerHasPeer /\ CountIsSessions /\ HasRoom

-----------------------------------------------------------------------------
(* Counts of sessions are natural numbers.                                 *)
LEMMA Sizes ==
  /\ IsFiniteSet(Live) /\ Cardinality(Live) \in Nat
  /\ IsFiniteSet(Counted) /\ Cardinality(Counted) \in Nat
<1>1. Live \in SUBSET Client /\ Counted \in SUBSET Client
  BY DEF Live, Counted
<1> QED  BY <1>1, FS_Subset, FS_CardinalityType, ClientAssumption

(* When the handler has started a thread, all but that one are counted.    *)
LEMMA OneUncounted ==
  ASSUME handler = "spawned", peer \in Live
  PROVE  Cardinality(Live) = Cardinality(Counted) + 1
<1>1. Counted = Live \ {peer}
  BY DEF Counted
<1> QED  BY <1>1, Sizes, FS_RemoveElement

(* The count never wraps around.                                           *)
LEMMA CountIsSmall ==
  ASSUME IInv
  PROVE  /\ firstCount \in Nat /\ firstCount < CountRange
         /\ Live # {} => firstCount + Cardinality(Live) < CountRange
<1>1. firstCount \in 0 .. CountRange - 1 /\ CountRange \in Nat
  BY CountAssumption DEF IInv, TypeOK
<1>2. Live # {} => firstCount + Cardinality(Live) <= MAX_THREADS
  BY DEF IInv, HasRoom
<1> QED  BY <1>1, <1>2, CountAssumption, Sizes

-----------------------------------------------------------------------------
LEMMA InitIInv == Init => IInv
<1> SUFFICES ASSUME Init PROVE IInv
  OBVIOUS
<1>1. Live = {} /\ Counted = {}
  BY DEF Init, Live, Counted
<1>2. Cardinality(Live) = 0 /\ Cardinality(Counted) = 0
  BY <1>1, FS_EmptySet
<1>3. TypeOK
  BY CountAssumption DEF Init, TypeOK, MainAt, HandlerAt, SessionAt
<1>4. Holders /\ HandlerHasPeer /\ HasRoom
  BY <1>1, HolderAssumption DEF Init, Holders, HandlerHasPeer, HasRoom, Free, Io
<1>5. CountIsSessions
  BY <1>2, CountAssumption DEF Init, CountIsSessions
<1> QED  BY <1>3, <1>4, <1>5 DEF IInv

(* Types are kept.                                                         *)
LEMMA NextTypeOK ==
  ASSUME IInv, Next
  PROVE  TypeOK'
<1> USE DEF IInv, TypeOK, MainAt, HandlerAt, SessionAt
<1>1. ASSUME NEW c \in Client, Connect(c) \/ AcceptConnection(c) \/ SendLine(c) \/ HangUp(c)
      PROVE  TypeOK'
  <2>1. CASE Connect(c)
    BY <2>1 DEF Connect, Goto, mainVars, acceptVars, managerVars
  <2>2. CASE AcceptConnection(c)
    BY <2>2 DEF AcceptConnection, HandlerGoto, mainVars, threadVars, managerVars
  <2>3. CASE SendLine(c)
    BY <2>3 DEF SendLine, Goto, mainVars, acceptVars
  <2>4. CASE HangUp(c)
    BY <2>4 DEF HangUp, Goto, mainVars, acceptVars, managerVars
  <2> QED  BY <1>1, <2>1, <2>2, <2>3, <2>4
<1>2. ASSUME NEW c \in Client, SessionStep(c)
      PROVE  TypeOK'
  <2>1. CASE GetEventResponse(c)
    BY <2>1 DEF GetEventResponse, Goto, mainVars, acceptVars, managerVars
  <2>2. CASE WriteAnswer(c)
    BY <2>2 DEF WriteAnswer, Goto, mainVars, acceptVars, managerVars
  <2>3. CASE RemoveEvent(c)
    BY <2>3 DEF RemoveEvent, Goto, mainVars, acceptVars
  <2>4. CASE LockThreads(c)
    BY <2>4 DEF LockThreads, Goto, mainVars, acceptVars, managerVars
  <2>5. CASE UncountSession(c)
    BY <2>5, CountAssumption DEF UncountSession, Goto, mainVars, acceptVars, managerVars
  <2> QED  BY <1>2, <2>1, <2>2, <2>3, <2>4, <2>5 DEF SessionStep
<1>3. CASE AcceptError
  BY <1>3 DEF AcceptError, mainVars, threadVars, managerVars
<1>4. CASE HandlerStep
  <2>1. CASE CheckThreadCount
    BY <2>1 DEF CheckThreadCount, Goto, HandlerHasPeer, mainVars, managerVars
  <2>2. CASE SpawnSession
    BY <2>2 DEF SpawnSession, HandlerGoto, Goto, mainVars, managerVars
  <2>3. CASE CountSession
    BY <2>3, CountAssumption DEF CountSession, HandlerGoto, mainVars, managerVars
  <2>4. CASE Rearm
    BY <2>4 DEF Rearm, HandlerGoto, mainVars, threadVars, managerVars
  <2> QED  BY <1>4, <2>1, <2>2, <2>3, <2>4 DEF HandlerStep
<1>5. CASE AnswerRequest
  BY <1>5 DEF AnswerRequest, mainVars, acceptVars, threadVars
<1>6. CASE Signal
  BY <1>6 DEF Signal, acceptVars, threadVars, managerVars
<1>7. CASE MainStep
  BY <1>7 DEF MainStep, RunReturns, StopProcessor, StopServer, JoinSessions, MainGoto,
             acceptVars, threadVars, managerVars
<1> QED  BY <1>1, <1>2, <1>3, <1>4, <1>5, <1>6, <1>7 DEF Next

-----------------------------------------------------------------------------
(* A session that moves on among the places of a live thread.              *)
LEMMA LiveMove ==
  ASSUME TypeOK, NEW c \in Live, NEW at \in SessionAt, Goto(c, at),
         at \in {"read", "await", "write", "remove", "lock", "uncount"},
         handler' = handler, peer' = peer
  PROVE  Live' = Live /\ Counted' = Counted
<1>1. Live' = Live
  BY DEF Live, Goto, TypeOK
<1> QED  BY <1>1 DEF Counted

(* What such a move leaves of the invariant, when the counts stay.         *)
LEMMA LiveMoveKeeps ==
  ASSUME IInv, NEW c \in Live, NEW at \in {"read", "await", "write", "remove", "lock", "uncount"},
         Goto(c, at), UNCHANGED <<handler, peer, count, firstCount>>
  PROVE  HandlerHasPeer' /\ CountIsSessions' /\ HasRoom'
<1>1. Live' = Live /\ Counted' = Counted
  BY LiveMove DEF IInv, SessionAt
<1>2. HandlerHasPeer'
  BY <1>1 DEF IInv, TypeOK, HandlerHasPeer, Goto, Live
<1>3. CountIsSessions' /\ HasRoom'
  BY <1>1 DEF IInv, CountIsSessions, HasRoom
<1> QED  BY <1>2, <1>3

(* The clients and the threads of the sessions.                            *)
LEMMA SessionIInv ==
  ASSUME IInv, NEW c \in Client,
         Connect(c) \/ SendLine(c) \/ HangUp(c) \/ SessionStep(c)
  PROVE  (Holders /\ HandlerHasPeer /\ CountIsSessions /\ HasRoom)'
<1>0. session \in [Client -> SessionAt] /\ c \notin {Free, Io, Main}
  BY HolderAssumption DEF IInv, TypeOK
<1>1. CASE Connect(c)
  <2>1. /\ session[c] = "outside" /\ session' = [session EXCEPT ![c] = "backlog"]
        /\ UNCHANGED <<handler, peer, mutex, count, firstCount>>
    BY <1>1 DEF Connect, Goto, acceptVars
  <2>2. Live' = Live
    BY <2>1, <1>0 DEF Live
  <2>3. Counted' = Counted
    BY <2>1, <2>2 DEF Counted
  <2>4. Holders'
    BY <2>1, <1>0 DEF IInv, Holders
  <2>5. HandlerHasPeer'
    BY <2>1, <2>2, <1>0 DEF IInv, HandlerHasPeer
  <2> QED  BY <2>1, <2>2, <2>3, <2>4, <2>5 DEF IInv, CountIsSessions, HasRoom
<1>2. ASSUME NEW at \in {"await", "lock", "write", "remove"},
             session[c] \in {"read", "await", "write", "remove"},
             Goto(c, at), UNCHANGED <<handler, peer, mutex, count, firstCount>>
      PROVE  (Holders /\ HandlerHasPeer /\ CountIsSessions /\ HasRoom)'
  <2>1. c \in Live
    BY <1>2 DEF Live
  <2>2. Holders'
    BY <1>0, <1>2 DEF IInv, Holders, Goto
  <2> QED  BY <1>2, <2>1, <2>2, LiveMoveKeeps
<1>3. CASE SendLine(c)
  BY <1>2, <1>3 DEF SendLine, acceptVars
<1>4. CASE HangUp(c)
  BY <1>2, <1>4 DEF HangUp, acceptVars
<1>5. CASE GetEventResponse(c)
  BY <1>2, <1>5 DEF GetEventResponse, acceptVars
<1>6. CASE WriteAnswer(c)
  BY <1>2, <1>6 DEF WriteAnswer, acceptVars
<1>7. CASE RemoveEvent(c)
  BY <1>2, <1>7 DEF RemoveEvent, acceptVars
<1>8. CASE LockThreads(c)
  <2>1. /\ c \in Live /\ mutex = Free /\ mutex' = c /\ Goto(c, "uncount")
        /\ UNCHANGED <<handler, peer, count, firstCount>>
    BY <1>8 DEF LockThreads, Live, acceptVars
  <2>2. Holders'
    BY <2>1, <1>0, HolderAssumption DEF IInv, Holders, Goto, Free, Io, Main
  <2> QED  BY <2>1, <2>2, LiveMoveKeeps
<1>9. CASE UncountSession(c)
  <2>1. /\ session[c] = "uncount" /\ session' = [session EXCEPT ![c] = "done"]
        /\ count' = (count - 1) % CountRange /\ mutex' = Free
        /\ UNCHANGED <<handler, peer, firstCount>>
    BY <1>9 DEF UncountSession, Goto, acceptVars
  <2>2. c \in Live /\ mutex = c /\ handler # "spawned"
    BY <2>1, <1>0 DEF Live, IInv, Holders
  <2>3. Live' = Live \ {c} /\ Counted = Live /\ Counted' = Live'
    BY <2>1, <2>2, <1>0 DEF Live, Counted
  <2>4. Cardinality(Live') = Cardinality(Live) - 1
    BY <2>2, <2>3, Sizes, FS_RemoveElement
  <2>5. count = firstCount + Cardinality(Live) /\ Cardinality(Live) >= 1
    <3>1. Cardinality(Live') \in Nat
      <4>1. IsFiniteSet(Live \ {c})
        BY Sizes, FS_RemoveElement
      <4> QED  BY <2>3, <4>1, FS_CardinalityType
    <3> QED  BY <3>1, <2>3, <2>4, Sizes DEF IInv, CountIsSessions
  <2>6. count' = firstCount + Cardinality(Live')
    <3>1. count - 1 \in 0 .. CountRange - 1
      BY <2>2, <2>5, CountIsSmall, Sizes, CountAssumption
    <3>2. (count - 1) % CountRange = count - 1
      BY <3>1, CountAssumption
    <3> QED  BY <2>1, <2>4, <2>5, <3>2, CountIsSmall, Sizes
  <2>7. Holders'
    BY <2>1, <2>2, <1>0, HolderAssumption DEF IInv, TypeOK, Holders, Free, Io, Main
  <2>8. HandlerHasPeer'
    BY <2>1, <2>2, <1>0 DEF IInv, HandlerHasPeer
  <2>9. HasRoom'
    BY <2>1, <2>2, <2>4, <2>5, Sizes, CountIsSmall, CountAssumption DEF IInv, HasRoom
  <2> QED  BY <2>1, <2>3, <2>6, <2>7, <2>8, <2>9 DEF CountIsSessions
<1> QED  BY <1>1, <1>3, <1>4, <1>5, <1>6, <1>7, <1>8, <1>9 DEF SessionStep

(* The accept handler.                                                     *)
LEMMA HandlerIInv ==
  ASSUME IInv, HandlerStep \/ \E c \in Client : AcceptConnection(c)
  PROVE  (Holders /\ HandlerHasPeer /\ CountIsSessions /\ HasRoom)'
<1>0. session \in [Client -> SessionAt]
  BY DEF IInv, TypeOK
<1>1. ASSUME NEW c \in Client, AcceptConnection(c)
      PROVE  (Holders /\ HandlerHasPeer /\ CountIsSessions /\ HasRoom)'
  <2>1. /\ session[c] = "backlog" /\ handler = "idle" /\ handler' = "check" /\ peer' = c
        /\ UNCHANGED <<session, mutex, count, firstCount>>
    BY <1>1 DEF AcceptConnection, HandlerGoto, threadVars
  <2>2. Live' = Live /\ Counted' = Counted
    BY <2>1 DEF Live, Counted
  <2> QED  BY <2>1, <2>2 DEF IInv, Holders, HandlerHasPeer, CountIsSessions, HasRoom
<1>2. CASE CheckThreadCount
  <2>0. handler = "check" /\ UNCHANGED <<peer, mutex, count, firstCount>>
    BY <1>2 DEF CheckThreadCount
  <2>1. peer \in Client /\ session[peer] = "backlog"
    BY <2>0 DEF IInv, HandlerHasPeer
  <2>2. CASE count < MAX_THREADS
    <3>1. handler' = "lock" /\ session' = session
      BY <1>2, <2>2 DEF CheckThreadCount
    <3>2. Live' = Live /\ Counted' = Counted /\ Counted = Live
      BY <2>0, <3>1 DEF Live, Counted
    <3>3. firstCount + Cardinality(Live) < MAX_THREADS
      BY <2>2, <3>2 DEF IInv, CountIsSessions
    <3>4. HasRoom'
      BY <2>0, <3>2, <3>3, Sizes, CountIsSmall, CountAssumption DEF HasRoom
    <3> QED  BY <2>0, <2>1, <3>1, <3>2, <3>4 DEF IInv, Holders, HandlerHasPeer, CountIsSessions
  <2>3. CASE ~(count < MAX_THREADS)
    <3>1. handler' = "rearm" /\ session' = [session EXCEPT ![peer] = "refused"]
      BY <1>2, <2>3 DEF CheckThreadCount, Goto
    <3>2. Live' = Live /\ Counted' = Live' /\ Counted = Live
      BY <1>0, <2>0, <2>1, <3>1 DEF Live, Counted
    <3>3. Holders'
      BY <1>0, <2>0, <2>1, <3>1 DEF IInv, Holders
    <3> QED  BY <2>0, <2>1, <3>1, <3>2, <3>3 DEF IInv, HandlerHasPeer, CountIsSessions, HasRoom
  <2> QED  BY <2>2, <2>3
<1>3. CASE SpawnSession
  <2>1. /\ handler = "lock" /\ handler' = "spawned" /\ mutex = Free /\ mutex' = Io
        /\ session' = [session EXCEPT ![peer] = "read"]
        /\ UNCHANGED <<peer, count, firstCount>>
    BY <1>3 DEF SpawnSession, HandlerGoto, Goto
  <2>2. peer \in Client /\ session[peer] = "backlog" /\ peer \notin Live
    BY <2>1 DEF IInv, HandlerHasPeer, Live
  <2>3. Live' = Live \cup {peer} /\ Counted = Live /\ Counted' = Live
    BY <1>0, <2>1, <2>2 DEF Live, Counted
  <2>4. Cardinality(Live') = Cardinality(Live) + 1
    BY <2>2, <2>3, Sizes, FS_AddElement
  <2>5. Holders'
    BY <1>0, <2>1, <2>2, HolderAssumption DEF IInv, Holders, Free, Io
  <2>6. HandlerHasPeer'
    BY <2>1, <2>2, <2>3 DEF HandlerHasPeer
  <2>7. HasRoom'
    BY <2>1, <2>4, Sizes, CountIsSmall, CountAssumption DEF IInv, HasRoom
  <2> QED  BY <2>1, <2>3, <2>5, <2>6, <2>7 DEF IInv, CountIsSessions
<1>4. CASE CountSession
  <2>1. /\ handler = "spawned" /\ handler' = "rearm" /\ mutex' = Free
        /\ count' = (count + 1) % CountRange
        /\ UNCHANGED <<session, peer, firstCount>>
    BY <1>4 DEF CountSession, HandlerGoto
  <2>2. peer \in Client /\ peer \in Live /\ mutex = Io
    BY <2>1 DEF IInv, Holders, HandlerHasPeer
  <2>3. Live' = Live /\ Counted' = Live
    BY <2>1 DEF Live, Counted
  <2>4. count + 1 = firstCount + Cardinality(Live)
    BY <2>1, <2>2, OneUncounted, Sizes, CountIsSmall DEF IInv, CountIsSessions
  <2>5. count' = count + 1
    <3>1. count + 1 \in 0 .. CountRange - 1
      BY <2>2, <2>4, CountIsSmall, Sizes, CountAssumption
    <3> QED  BY <2>1, <3>1, CountAssumption
  <2>6. Holders'
    BY <2>1, <2>2, HolderAssumption DEF IInv, Holders, Free, Io
  <2> QED  BY <2>1, <2>2, <2>3, <2>4, <2>5, <2>6 DEF IInv, HandlerHasPeer, CountIsSessions, HasRoom
<1>5. CASE Rearm
  <2>1. /\ handler = "rearm" /\ handler' = "idle"
        /\ UNCHANGED <<peer, session, mutex, count, firstCount>>
    BY <1>5 DEF Rearm, HandlerGoto, threadVars
  <2>2. Live' = Live /\ Counted' = Counted
    BY <2>1 DEF Live, Counted
  <2> QED  BY <2>1, <2>2 DEF IInv, Holders, HandlerHasPeer, CountIsSessions, HasRoom
<1> QED  BY <1>1, <1>2, <1>3, <1>4, <1>5 DEF HandlerStep

(* All the rest leaves the sessions, the handler and the count alone.      *)
LEMMA OtherIInv ==
  ASSUME IInv, AcceptError \/ AnswerRequest \/ Signal \/ MainStep \/ UNCHANGED vars
  PROVE  (Holders /\ HandlerHasPeer /\ CountIsSessions /\ HasRoom)'
<1>1. /\ UNCHANGED <<handler, peer, session, count, firstCount>>
      /\ \/ mutex' = mutex
         \/ mutex = Free /\ mutex' = Main
         \/ Live = {} /\ mutex' = Free /\ main = "join"
  BY DEF AcceptError, AnswerRequest, Signal, MainStep, RunReturns, StopProcessor,
         StopServer, JoinSessions, MainGoto, vars, mainVars, acceptVars, threadVars, managerVars
<1>2. Live' = Live /\ Counted' = Counted
  BY <1>1 DEF Live, Counted
<1>3. Holders'
  BY <1>1, <1>2, HolderAssumption DEF IInv, Holders, HandlerHasPeer, Live, Free, Io, Main
<1> QED  BY <1>1, <1>2, <1>3 DEF IInv, HandlerHasPeer, CountIsSessions, HasRoom

LEMMA NextIInv == IInv /\ [Next]_vars => IInv'
<1> SUFFICES ASSUME IInv, [Next]_vars PROVE IInv'
  OBVIOUS
<1>1. TypeOK'
  <2>1. CASE UNCHANGED vars
    BY <2>1 DEF IInv, TypeOK, vars, mainVars, acceptVars, threadVars, managerVars
  <2> QED  BY <2>1, NextTypeOK
<1>2. (Holders /\ HandlerHasPeer /\ CountIsSessions /\ HasRoom)'
  BY SessionIInv, HandlerIInv, OtherIInv DEF Next
<1> QED  BY <1>1, <1>2 DEF IInv

(* The inductive invariant holds in every reachable state.                 *)
THEOREM Inductive == Spec => []IInv
BY InitIInv, NextIInv, PTL DEF Spec

(* The members of TServer keep their types.                                *)
THEOREM TypeCorrect == Spec => []TypeOK
<1>1. IInv => TypeOK
  BY DEF IInv
<1> QED  BY <1>1, Inductive, PTL

(* The count is the number of sessions above what it began with.           *)
THEOREM CountCorrect == Spec => []CountIsSessions
<1>1. IInv => CountIsSessions
  BY DEF IInv
<1> QED  BY <1>1, Inductive, PTL

(* There are never more sessions than places, whatever the count began     *)
(* with.                                                                   *)
THEOREM SessionsCorrect == Spec => []SessionsBounded
<1>1. IInv => SessionsBounded
  <2> SUFFICES ASSUME IInv PROVE Cardinality(Live) <= MAX_THREADS
    BY DEF SessionsBounded
  <2>1. CASE Live = {}
    BY <2>1, FS_EmptySet, CountAssumption
  <2>2. CASE Live # {}
    BY <2>2, Sizes, CountIsSmall, CountAssumption DEF IInv, HasRoom
  <2> QED  BY <2>1, <2>2
<1> QED  BY <1>1, Inductive, PTL
=============================================================================
