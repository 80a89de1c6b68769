-------------------------- MODULE EventManagerProofs --------------------------
(***************************************************************************)
(* What the Kafka server's threads promise each other, for every number of *)
(* consumers, messages and restarts.                                       *)
(*                                                                         *)
(* The five invariants are not inductive one by one.  Together with who    *)
(* holds which event (Owners, Placed) and how far each partition has been  *)
(* handled (Progress) they are.                                            *)
(***************************************************************************)
EXTENDS EventManager, FiniteSetTheorems, TLAPS

QueuedIds == {queue[i] : i \in 1 .. Len(queue)}

HasEvent(c) == consumer[c] \in {"lookup", "await", "remove", "commit"}

(* The worker holds an event from the queue to the response.               *)
WorkerHolds == worker \in {"process", "respond"} <=> current # NoEvent

(* No two consumers have the same event, and one that has its response has *)
(* an event nobody else is still to see.                                   *)
Owners ==
  /\ \A c \in Consumer : HasEvent(c) <=> eventId[c] # NoEvent
  /\ \A c, d \in Consumer : HasEvent(c) /\ c # d => eventId[c] # eventId[d]
  /\ \A c \in Consumer : HasEvent(c) /\ ~InFlight(c) =>
       eventId[c] \notin QueuedIds /\ current # eventId[c]

(* An event a consumer waits for is in the map and in exactly one place.   *)
Placed ==
  \A c \in Consumer : InFlight(c) =>
    LET id == eventId[c]
    IN  /\ id \in events
        /\ \/ id \in QueuedIds /\ current # id /\ id \notin completed
           \/ id \notin QueuedIds /\ current = id /\ id \notin completed
           \/ id \notin QueuedIds /\ current # id /\ id \in completed

(* The message of c that waits to be handled.                              *)
Pending(c) ==
  InFlight(c) /\ (eventId[c] \in QueuedIds \/ (current = eventId[c] /\ worker = "process"))

(* A partition has been handled up to its position but for the pending     *)
(* message, which like those after it was handled by dead processes only.  *)
Progress ==
  \A c \in Consumer :
    /\ committed[c] <= position[c]
    /\ InFlight(c) => committed[c] < position[c]
    /\ \A k \in Message(c) :
         LET pending == Pending(c) /\ k = position[c]
         IN  /\ k <= position[c] /\ ~pending => handled[c][k] >= 1
             /\ k > position[c] \/ pending => handled[c][k] <= crashes
             /\ handled[c][k] <= crashes + 1

(* The worker lies down for an empty queue only.                           *)
Asleep == worker \in {"block", "waiting"} => queue = <<>>

Safe == WorkerHolds /\ Owners /\ Placed /\ InQueueOrder /\ Progress /\ Asleep

IInv == TypeOK /\ Safe

-----------------------------------------------------------------------------
(* What is queued after an event is appended, and after one is taken.      *)
LEMMA AppendQueues ==
  ASSUME NEW q \in Seq(Int), NEW n \in Int
  PROVE  {Append(q, n)[i] : i \in 1 .. Len(Append(q, n))} = {q[i] : i \in 1 .. Len(q)} \cup {n}
<1>1. Len(Append(q, n)) = Len(q) + 1 /\ Len(q) \in Nat
  OBVIOUS
<1>2. \A i \in 1 .. Len(q) : Append(q, n)[i] = q[i]
  OBVIOUS
<1>3. Append(q, n)[Len(q) + 1] = n
  OBVIOUS
<1>4. 1 .. Len(q) + 1 = 1 .. Len(q) \cup {Len(q) + 1}
  BY <1>1
<1> QED  BY <1>1, <1>2, <1>3, <1>4

LEMMA TailQueues ==
  ASSUME NEW q \in Seq(Int), q # <<>>
  PROVE  {q[i] : i \in 1 .. Len(q)} = {Head(q)} \cup {Tail(q)[i] : i \in 1 .. Len(Tail(q))}
<1>1. Len(q) \in Nat /\ Len(q) >= 1 /\ Len(Tail(q)) = Len(q) - 1 /\ Head(q) = q[1]
  OBVIOUS
<1>2. \A i \in 1 .. Len(q) - 1 : Tail(q)[i] = q[i + 1]
  OBVIOUS
<1>3. ASSUME NEW i \in 1 .. Len(q)
      PROVE  i = 1 \/ (i - 1 \in 1 .. Len(q) - 1 /\ Tail(q)[i - 1] = q[i])
  BY <1>1, <1>2
<1>4. ASSUME NEW i \in 1 .. Len(q) - 1
      PROVE  i + 1 \in 1 .. Len(q) /\ Tail(q)[i] = q[i + 1]
  BY <1>1, <1>2
<1>5. 1 \in 1 .. Len(q)
  BY <1>1
<1>6. ASSUME NEW i \in 1 .. Len(q)
      PROVE  q[i] \in {Head(q)} \cup {Tail(q)[j] : j \in 1 .. Len(Tail(q))}
  <2>1. CASE i = 1
    BY <1>1, <2>1
  <2>2. CASE i # 1
    <3>1. i - 1 \in 1 .. Len(Tail(q)) /\ Tail(q)[i - 1] = q[i]
      BY <1>1, <1>3, <2>2
    <3> QED  BY <3>1
  <2> QED  BY <2>1, <2>2
<1>7. ASSUME NEW j \in 1 .. Len(Tail(q))
      PROVE  Tail(q)[j] \in {q[i] : i \in 1 .. Len(q)}
  BY <1>1, <1>4
<1>8. Head(q) \in {q[i] : i \in 1 .. Len(q)}
  BY <1>1, <1>5
<1> QED  BY <1>6, <1>7, <1>8

(* The queue holds integers, smaller than the next id.                     *)
LEMMA QueueTyped ==
  ASSUME TypeOK
  PROVE  /\ queue \in Seq(Int) /\ nextId \in Nat /\ current \in Int /\ current < nextId
         /\ \A x \in QueuedIds : x \in Int /\ x < nextId /\ x >= 0
         /\ \A i \in 1 .. Len(queue) : queue[i] \in Int /\ queue[i] < nextId /\ queue[i] >= 0
         /\ \A c \in Consumer : eventId[c] \in Int /\ eventId[c] < nextId
<1>1. nextId \in Nat /\ current \in -1 .. nextId - 1 /\ queue \in Seq(0 .. nextId - 1)
  BY DEF TypeOK
<1>2. \A i \in 1 .. Len(queue) : queue[i] \in 0 .. nextId - 1
  BY <1>1
<1>3. ASSUME NEW c \in Consumer
      PROVE  eventId[c] \in Int /\ eventId[c] < nextId
  <2>1. eventId[c] \in -1 .. nextId - 1
    BY DEF TypeOK
  <2> QED  BY <1>1, <2>1
<1>4. queue \in Seq(Int)
  BY <1>1
<1>5. \A x \in QueuedIds : x \in Int /\ x < nextId /\ x >= 0
  BY <1>1, <1>2 DEF QueuedIds
<1> QED  BY <1>1, <1>2, <1>3, <1>4, <1>5

-----------------------------------------------------------------------------
LEMMA InitIInv == Init => IInv
<1> SUFFICES ASSUME Init PROVE IInv
  OBVIOUS
<1>1. TypeOK
  <2>1. nextId \in Nat /\ events = {} /\ queue \in Seq(0 .. nextId - 1) /\ completed = {}
    BY DEF Init
  <2>2. /\ consumer \in [Consumer -> ConsumerAt] /\ eventId \in [Consumer -> -1 .. nextId - 1]
        /\ current \in -1 .. nextId - 1
    BY DEF Init, ConsumerAt, NoEvent
  <2>3. DOMAIN position = Consumer /\ DOMAIN committed = Consumer /\ DOMAIN handled = Consumer
    BY DEF Init
  <2>4. ASSUME NEW c \in Consumer
        PROVE  position[c] \in 0 .. LogLength[c] /\ committed[c] \in 0 .. LogLength[c]
               /\ handled[c] \in [Message(c) -> Nat]
    BY LogAssumption DEF Init
  <2>5. worker \in WorkerAt /\ main \in MainAt /\ crashes \in 0 .. MaxCrashes
    BY LogAssumption DEF Init, WorkerAt, MainAt
  <2>6. processing \in BOOLEAN /\ serving \in BOOLEAN /\ stopped \in BOOLEAN
    BY Zenon DEF Init
  <2> QED  BY <2>1, <2>2, <2>3, <2>4, <2>5, <2>6, Zenon DEF TypeOK
<1>2. \A c \in Consumer : ~HasEvent(c) /\ ~InFlight(c)
  BY DEF Init, HasEvent, InFlight
<1>3. WorkerHolds /\ Owners /\ Placed /\ Asleep
  BY <1>2 DEF Init, WorkerHolds, Owners, Placed, Asleep, NoEvent
<1>4. InQueueOrder
  BY DEF Init, InQueueOrder
<1>5. Progress
  BY <1>2 DEF Init, Progress, Pending, Message
<1> QED  BY <1>1, <1>3, <1>4, <1>5 DEF IInv, Safe

-----------------------------------------------------------------------------
LEMMA CountsStayNatural ==
  ASSUME NEW S, NEW f \in [S -> Nat], NEW p
  PROVE  [f EXCEPT ![p] = @ + 1] \in [S -> Nat]
<1>1. CASE p \in S
  <2>1. f[p] + 1 \in Nat
    BY <1>1
  <2> QED  BY <2>1
<1>2. CASE p \notin S
  <2>1. [f EXCEPT ![p] = @ + 1] = f
    BY <1>2
  <2> QED  BY <2>1
<1> QED  BY <1>1, <1>2

LEMMA WiderSeq ==
  ASSUME NEW S, NEW T, S \subseteq T, NEW q \in Seq(S)
  PROVE  q \in Seq(T)
OBVIOUS

(* The types.  Most steps move one thread and nothing else.                *)
LEMMA NextTypeOK ==
  ASSUME IInv, Next
  PROVE  TypeOK'
<1> USE DEF IInv, TypeOK
<1>1. ASSUME NEW c \in Consumer, ConsumerStep(c) \/ ConsumeTimesOut(c)
      PROVE  TypeOK'
  <2>1. ASSUME NEW at \in ConsumerAt, Goto(c, at)
        PROVE  consumer' \in [Consumer -> ConsumerAt]
    BY <2>1 DEF Goto
  <2>2. CASE PollLoop(c) \/ ConsumeTimesOut(c) \/ GetEventResponse(c) \/ WaitForResponse(c)
    <3>1. consumer' \in [Consumer -> ConsumerAt]
      BY <2>1, <2>2 DEF PollLoop, ConsumeTimesOut, GetEventResponse, WaitForResponse, ConsumerAt
    <3>2. UNCHANGED <<managerVars, eventId, worker, current, main, processing,
                      serving, kafkaVars, crashes>>
      BY <2>2 DEF PollLoop, ConsumeTimesOut, GetEventResponse, WaitForResponse
    <3> QED  BY <3>1, <3>2, Zenon DEF managerVars, kafkaVars
  <2>3. CASE RemoveEvent(c)
    <3>1. consumer' \in [Consumer -> ConsumerAt] /\ events' \subseteq events
          /\ completed' \subseteq completed
      BY <2>1, <2>3 DEF RemoveEvent, ConsumerAt
    <3>2. UNCHANGED <<nextId, queue, stopped, eventId, worker, current, main,
                      processing, serving, kafkaVars, crashes>>
      BY <2>3 DEF RemoveEvent
    <3> QED  BY <3>1, <3>2, Zenon DEF kafkaVars
  <2>4. CASE CommitAsync(c)
    <3>1. consumer' \in [Consumer -> ConsumerAt]
      BY <2>1, <2>4 DEF CommitAsync, ConsumerAt
    <3>2. -1 \in -1 .. nextId - 1
      OBVIOUS
    <3>3. eventId' \in [Consumer -> -1 .. nextId - 1]
      BY <3>2, <2>4 DEF CommitAsync, NoEvent
    <3>4. DOMAIN committed' = Consumer
          /\ \A d \in Consumer : committed'[d] \in 0 .. LogLength[d]
      BY <2>4 DEF CommitAsync
    <3>5. UNCHANGED <<managerVars, worker, current, main, processing, serving,
                      position, handled, crashes>>
      BY <2>4 DEF CommitAsync
    <3> QED  BY <3>1, <3>3, <3>4, <3>5, Zenon DEF managerVars
  <2>5. CASE AddEvent(c)
    <3>1. consumer' \in [Consumer -> ConsumerAt]
      BY <2>1, <2>5 DEF AddEvent, ConsumerAt
    <3>2. /\ nextId' \in Nat /\ nextId \in 0 .. nextId' - 1
          /\ 0 .. nextId - 1 \subseteq 0 .. nextId' - 1
          /\ -1 .. nextId - 1 \subseteq -1 .. nextId' - 1 /\ nextId \in -1 .. nextId' - 1
      BY <2>5 DEF AddEvent
    <3>3. events' \subseteq 0 .. nextId' - 1 /\ completed' \subseteq 0 .. nextId' - 1
          /\ current' \in -1 .. nextId' - 1
      BY <3>2, <2>5 DEF AddEvent
    <3>4. eventId' \in [Consumer -> -1 .. nextId' - 1]
      BY <3>2, <2>5 DEF AddEvent
    <3>5. queue' \in Seq(0 .. nextId' - 1)
      <4>1. queue \in Seq(0 .. nextId' - 1)
        BY <3>2, WiderSeq
      <4> QED  BY <4>1, <3>2, <2>5 DEF AddEvent
    <3>6. worker' \in WorkerAt
      BY <2>5 DEF AddEvent, WorkerAt
    <3>7. DOMAIN position' = Consumer /\ \A d \in Consumer : position'[d] \in 0 .. LogLength[d]
      <4>1. position' = [position EXCEPT ![c] = @ + 1] /\ position[c] < LogLength[c]
        BY <2>5 DEF AddEvent
      <4>2. position[c] + 1 \in 0 .. LogLength[c]
        <5>1. position[c] \in 0 .. LogLength[c] /\ LogLength[c] \in Nat
          BY LogAssumption
        <5> QED  BY <4>1, <5>1
      <4>3. ASSUME NEW d \in Consumer PROVE position'[d] \in 0 .. LogLength[d]
        BY <4>1, <4>2
      <4> QED  BY <4>1, <4>3
    <3>8. UNCHANGED <<stopped, main, processing, serving, committed, handled, crashes>>
      BY <2>5 DEF AddEvent
    <3> QED  BY <3>1, <3>2, <3>3, <3>4, <3>5, <3>6, <3>7, <3>8, Zenon
  <2> QED  BY <1>1, <2>2, <2>3, <2>4, <2>5 DEF ConsumerStep
<1>2. CASE WorkerStep \/ SpuriousWakeup
  <2>1. CASE EventLoop \/ Block \/ SpuriousWakeup
    <3>1. worker' \in WorkerAt
      BY <2>1 DEF EventLoop, Block, SpuriousWakeup, WorkerAt
    <3>2. UNCHANGED <<managerVars, consumer, eventId, current, main, processing,
                      serving, kafkaVars, crashes>>
      BY <2>1 DEF EventLoop, Block, SpuriousWakeup
    <3> QED  BY <3>1, <3>2, Zenon DEF managerVars, kafkaVars
  <2>2. CASE GetNextEvent
    <3>1. worker' \in WorkerAt
      BY <2>2 DEF GetNextEvent, WorkerAt
    <3>2. queue' \in Seq(0 .. nextId - 1) /\ current' \in -1 .. nextId - 1
      <4>1. CASE queue # <<>> /\ current' = Head(queue) /\ queue' = Tail(queue)
        <5>1. queue' \in Seq(0 .. nextId - 1) /\ Head(queue) \in 0 .. nextId - 1
          BY <4>1
        <5> QED  BY <4>1, <5>1
      <4>2. CASE UNCHANGED <<queue, current>>
        BY <4>2
      <4> QED  BY <2>2, <4>1, <4>2 DEF GetNextEvent
    <3>3. UNCHANGED <<nextId, events, stopped, completed, consumer, eventId, main,
                      processing, serving, kafkaVars, crashes>>
      BY <2>2 DEF GetNextEvent
    <3> QED  BY <3>1, <3>2, <3>3, Zenon DEF kafkaVars
  <2>3. CASE HandleRequest
    <3>1. worker' \in WorkerAt
      BY <2>3 DEF HandleRequest, WorkerAt
    <3>2. DOMAIN handled' = Consumer
          /\ \A d \in Consumer : handled'[d] \in [Message(d) -> Nat]
      <4>2. DOMAIN handled' = Consumer
        BY <2>3 DEF HandleRequest
      <4>3. ASSUME NEW d \in Consumer
            PROVE  handled'[d] \in [Message(d) -> Nat]
        <5>1. handled[d] \in [Message(d) -> Nat]
          OBVIOUS
        <5>2. handled'[d] = IF eventId[d] = current
                            THEN [handled[d] EXCEPT ![position[d]] = @ + 1]
                            ELSE handled[d]
          BY <2>3 DEF HandleRequest
        <5>3. [handled[d] EXCEPT ![position[d]] = @ + 1] \in [Message(d) -> Nat]
          BY <5>1, CountsStayNatural
        <5> QED  BY <5>1, <5>2, <5>3
      <4> QED  BY <4>2, <4>3
    <3>3. UNCHANGED <<managerVars, consumer, eventId, current, main, processing,
                      serving, position, committed, crashes>>
      BY <2>3 DEF HandleRequest
    <3> QED  BY <3>1, <3>2, <3>3, Zenon DEF managerVars
  <2>4. CASE SetEventResponse
    <3>1. worker' \in WorkerAt /\ current' \in -1 .. nextId - 1
      BY <2>4 DEF SetEventResponse, WorkerAt, NoEvent
    <3>2. completed' \subseteq 0 .. nextId - 1
      BY <2>4 DEF SetEventResponse
    <3>3. UNCHANGED <<nextId, events, queue, stopped, consumer, eventId, main,
                      processing, serving, kafkaVars, crashes>>
      BY <2>4 DEF SetEventResponse
    <3> QED  BY <3>1, <3>2, <3>3, Zenon DEF kafkaVars
  <2> QED  BY <1>2, <2>1, <2>2, <2>3, <2>4 DEF WorkerStep
<1>3. CASE Signal \/ StopStep
  <2>1. main' \in MainAt /\ worker' \in WorkerAt
    BY <1>3 DEF Signal, StopStep, StopManager, NotifyAll, JoinWorker, StopServer,
                JoinConsumers, MainGoto, MainAt, WorkerAt
  <2>2. stopped' \in BOOLEAN /\ processing' \in BOOLEAN /\ serving' \in BOOLEAN
    BY <1>3, Zenon DEF Signal, StopStep, StopManager, NotifyAll, JoinWorker, StopServer,
                JoinConsumers, managerVars
  <2>3. UNCHANGED <<nextId, events, queue, completed, consumer, eventId, current,
                    kafkaVars, crashes>>
    BY <1>3 DEF Signal, StopStep, StopManager, NotifyAll, JoinWorker, StopServer,
                JoinConsumers, managerVars
  <2> QED  BY <2>1, <2>2, <2>3, Zenon DEF kafkaVars
<1>4. CASE Restart
  <2>1. /\ nextId' \in Nat /\ events' = {} /\ queue' \in Seq(0 .. nextId' - 1)
        /\ completed' = {} /\ current' \in -1 .. nextId' - 1
        /\ eventId' \in [Consumer -> -1 .. nextId' - 1]
    BY <1>4 DEF Restart, NoEvent
  <2>2. consumer' \in [Consumer -> ConsumerAt] /\ worker' \in WorkerAt /\ main' \in MainAt
    BY <1>4 DEF Restart, ConsumerAt, WorkerAt, MainAt
  <2>3. processing' \in BOOLEAN /\ serving' \in BOOLEAN /\ stopped' \in BOOLEAN
    BY <1>4, Zenon DEF Restart
  <2>4. crashes' \in 0 .. MaxCrashes
    BY <1>4, LogAssumption DEF Restart
  <2>5. position' = committed /\ UNCHANGED <<committed, handled>>
    BY <1>4 DEF Restart
  <2> QED  BY <2>1, <2>2, <2>3, <2>4, <2>5, Zenon
<1> QED  BY <1>1, <1>2, <1>3, <1>4 DEF Next
-----------------------------------------------------------------------------
(* A step that moves no event and no message, and lays the worker down for *)
(* an empty queue only.                                                    *)
LEMMA QuietStep ==
  ASSUME IInv,
         UNCHANGED <<queue, events, completed, eventId, current, kafkaVars, crashes>>,
         \A c \in Consumer : (InFlight(c)' <=> InFlight(c)) /\ (HasEvent(c)' <=> HasEvent(c)),
         worker' = worker \/ {worker, worker'} \cap {"process", "respond"} = {},
         worker' \in {"block", "waiting"} => queue = <<>>
  PROVE  Safe'
<1>1. QueuedIds' = QueuedIds
  BY DEF QueuedIds
<1>2. WorkerHolds' /\ Owners' /\ Placed' /\ Asleep'
  BY <1>1 DEF IInv, Safe, WorkerHolds, Owners, Placed, Asleep
<1>3. InQueueOrder'
  BY DEF IInv, Safe, InQueueOrder
<1>4. \A c \in Consumer : Pending(c)' <=> Pending(c)
  BY <1>1 DEF Pending
<1>5. Progress'
  BY <1>4 DEF IInv, Safe, Progress, kafkaVars
<1> QED  BY <1>2, <1>3, <1>5 DEF Safe

LEMMA ConsumerSafe ==
  ASSUME IInv, NEW c \in Consumer, ConsumerStep(c) \/ ConsumeTimesOut(c)
  PROVE  Safe'
<1>0. consumer \in [Consumer -> ConsumerAt] /\ eventId \in [Consumer -> -1 .. nextId - 1]
  BY DEF IInv, TypeOK
<1>1. CASE PollLoop(c) \/ ConsumeTimesOut(c) \/ GetEventResponse(c)
  <2>1. InFlight(c) => eventId[c] \in events
    BY DEF IInv, Safe, Placed
  <2>2. \A d \in Consumer : (InFlight(d)' <=> InFlight(d)) /\ (HasEvent(d)' <=> HasEvent(d))
    BY <1>0, <1>1, <2>1 DEF PollLoop, ConsumeTimesOut, GetEventResponse, Goto, InFlight, HasEvent
  <2>3. UNCHANGED <<worker, queue, events, completed, eventId, current, kafkaVars, crashes>>
    BY <1>1 DEF PollLoop, ConsumeTimesOut, GetEventResponse, managerVars
  <2>4. worker' \in {"block", "waiting"} => queue = <<>>
    BY <2>3 DEF IInv, Safe, Asleep
  <2> QED  BY <2>2, <2>3, <2>4, QuietStep
<1>2. CASE AddEvent(c)
  <2>1. /\ consumer[c] = "consume" /\ consumer' = [consumer EXCEPT ![c] = "lookup"]
        /\ position[c] < LogLength[c] /\ position' = [position EXCEPT ![c] = @ + 1]
        /\ eventId' = [eventId EXCEPT ![c] = nextId]
        /\ events' = events \cup {nextId} /\ queue' = Append(queue, nextId)
        /\ worker # "block" /\ worker' = IF worker = "waiting" THEN "next" ELSE worker
        /\ UNCHANGED <<completed, current, committed, handled, crashes>>
    BY <1>2 DEF AddEvent, Goto
  <2>2. QueuedIds' = QueuedIds \cup {nextId}
    BY <2>1, AppendQueues, QueueTyped DEF QueuedIds, IInv
  <2>3. /\ nextId \notin QueuedIds /\ nextId # current /\ nextId \notin completed
        /\ nextId # NoEvent /\ \A d \in Consumer : eventId[d] # nextId
    BY QueueTyped DEF IInv, TypeOK, NoEvent
  <2>4. /\ ~InFlight(c) /\ ~HasEvent(c) /\ InFlight(c)' /\ HasEvent(c)'
        /\ \A d \in Consumer \ {c} : /\ InFlight(d)' <=> InFlight(d)
                                     /\ HasEvent(d)' <=> HasEvent(d)
    BY <1>0, <2>1 DEF InFlight, HasEvent
  <2>5. /\ eventId'[c] = nextId
        /\ \A d \in Consumer \ {c} : eventId'[d] = eventId[d]
    BY <1>0, <2>1
  <2>6. WorkerHolds' /\ Asleep'
    BY <2>1 DEF IInv, Safe, WorkerHolds, Asleep
  <2>7. Owners'
    BY <2>1, <2>2, <2>3, <2>4, <2>5 DEF IInv, Safe, Owners
  <2>8. Placed'
    BY <2>1, <2>2, <2>3, <2>4, <2>5 DEF IInv, Safe, Placed
  <2>9. InQueueOrder'
    <3>1. Len(queue') = Len(queue) + 1 /\ Len(queue) \in Nat /\ queue'[Len(queue) + 1] = nextId
      BY <2>1, QueueTyped DEF IInv
    <3>2. \A i \in 1 .. Len(queue) : queue'[i] = queue[i]
      BY <2>1, QueueTyped DEF IInv
    <3>3. 1 .. Len(queue') = 1 .. Len(queue) \cup {Len(queue) + 1}
      BY <3>1
    <3>4. \A i \in 1 .. Len(queue) : queue[i] < nextId
      BY QueueTyped DEF IInv
    <3>5. \A i, j \in 1 .. Len(queue') : i < j => queue'[i] < queue'[j]
      BY <3>1, <3>2, <3>3, <3>4 DEF IInv, Safe, InQueueOrder
    <3>6. current # NoEvent => \A i \in 1 .. Len(queue') : current < queue'[i]
      BY <3>1, <3>2, <3>3, QueueTyped DEF IInv, Safe, InQueueOrder
    <3> QED  BY <2>1, <3>5, <3>6 DEF InQueueOrder
  <2>10. Progress'
    <3>1. Pending(c)' /\ ~Pending(c)
      BY <2>2, <2>4, <2>5 DEF Pending
    <3>2. \A d \in Consumer \ {c} : Pending(d)' <=> Pending(d)
      BY <2>1, <2>2, <2>3, <2>4, <2>5 DEF Pending
    <3>3. /\ position'[c] = position[c] + 1 /\ position[c] \in Nat /\ committed[c] \in Nat
          /\ \A d \in Consumer \ {c} : position'[d] = position[d]
      BY <2>1 DEF IInv, TypeOK
    <3>4. ASSUME NEW k \in Message(c)
          PROVE  k \in Nat /\ (k <= position[c] + 1 /\ k # position[c] + 1 => k <= position[c])
      BY <3>3, LogAssumption DEF Message
    <3>5. crashes \in Nat
      BY LogAssumption DEF IInv, TypeOK
    <3>6. ASSUME NEW d \in Consumer
          PROVE  /\ committed'[d] <= position'[d]
                 /\ InFlight(d)' => committed'[d] < position'[d]
      BY <2>1, <2>4, <3>3 DEF IInv, Safe, Progress
    <3>7. ASSUME NEW d \in Consumer, NEW k \in Message(d)
          PROVE  /\ k <= position'[d] /\ ~(Pending(d)' /\ k = position'[d]) => handled'[d][k] >= 1
                 /\ k > position'[d] \/ (Pending(d)' /\ k = position'[d]) => handled'[d][k] <= crashes'
                 /\ handled'[d][k] <= crashes' + 1
      <4>1. CASE d = c
        BY <2>1, <3>1, <3>3, <3>4, <4>1 DEF IInv, Safe, Progress
      <4>2. CASE d # c
        BY <2>1, <3>2, <3>3, <4>2 DEF IInv, Safe, Progress
      <4> QED  BY <4>1, <4>2
    <3> QED  BY <3>6, <3>7 DEF Progress, Message
  <2> QED  BY <2>6, <2>7, <2>8, <2>9, <2>10 DEF Safe
<1>3. CASE WaitForResponse(c)
  <2>1. /\ consumer[c] = "await" /\ eventId[c] \in completed
        /\ consumer' = [consumer EXCEPT ![c] = "remove"]
        /\ UNCHANGED <<managerVars, eventId, worker, current, kafkaVars, crashes>>
    BY <1>3 DEF WaitForResponse, Goto
  <2>2. QueuedIds' = QueuedIds
    BY <2>1 DEF QueuedIds, managerVars
  <2>3. /\ InFlight(c) /\ HasEvent(c) /\ ~InFlight(c)' /\ HasEvent(c)'
        /\ \A d \in Consumer \ {c} : /\ InFlight(d)' <=> InFlight(d)
                                     /\ HasEvent(d)' <=> HasEvent(d)
    BY <1>0, <2>1 DEF InFlight, HasEvent
  <2>4. eventId[c] \notin QueuedIds /\ current # eventId[c]
    BY <2>1, <2>3 DEF IInv, Safe, Placed
  <2>5. WorkerHolds' /\ Asleep' /\ InQueueOrder'
    BY <2>1 DEF IInv, Safe, WorkerHolds, Asleep, InQueueOrder, managerVars
  <2>6. Owners'
    BY <2>1, <2>2, <2>3, <2>4 DEF IInv, Safe, Owners
  <2>7. Placed'
    BY <2>1, <2>2, <2>3 DEF IInv, Safe, Placed, managerVars
  <2>8. Progress'
    <3>1. \A d \in Consumer : Pending(d)' <=> Pending(d)
      BY <2>1, <2>2, <2>3, <2>4 DEF Pending
    <3> QED  BY <2>1, <2>3, <3>1 DEF IInv, Safe, Progress, kafkaVars
  <2> QED  BY <2>5, <2>6, <2>7, <2>8 DEF Safe
<1>4. CASE RemoveEvent(c)
  <2>1. /\ consumer[c] = "remove" /\ consumer' = [consumer EXCEPT ![c] = "commit"]
        /\ events' = events \ {eventId[c]} /\ completed' = completed \ {eventId[c]}
        /\ UNCHANGED <<queue, eventId, worker, current, kafkaVars, crashes>>
    BY <1>4 DEF RemoveEvent, Goto
  <2>2. QueuedIds' = QueuedIds
    BY <2>1 DEF QueuedIds
  <2>3. /\ HasEvent(c) /\ ~InFlight(c)
        /\ \A d \in Consumer : /\ InFlight(d)' <=> InFlight(d)
                               /\ HasEvent(d)' <=> HasEvent(d)
    BY <1>0, <2>1 DEF InFlight, HasEvent
  <2>4. \A d \in Consumer : InFlight(d) => eventId[d] # eventId[c]
    BY <2>3 DEF IInv, Safe, Owners
  <2>5. WorkerHolds' /\ Asleep' /\ InQueueOrder'
    BY <2>1 DEF IInv, Safe, WorkerHolds, Asleep, InQueueOrder
  <2>6. Owners'
    BY <2>1, <2>2, <2>3 DEF IInv, Safe, Owners
  <2>7. Placed'
    BY <2>1, <2>2, <2>3, <2>4 DEF IInv, Safe, Placed
  <2>8. Progress'
    <3>1. \A d \in Consumer : Pending(d)' <=> Pending(d)
      BY <2>1, <2>2, <2>3 DEF Pending
    <3> QED  BY <2>1, <2>3, <3>1 DEF IInv, Safe, Progress, kafkaVars
  <2> QED  BY <2>5, <2>6, <2>7, <2>8 DEF Safe
<1>5. CASE CommitAsync(c)
  <2>1. /\ consumer[c] = "commit" /\ consumer' = [consumer EXCEPT ![c] = "poll"]
        /\ eventId' = [eventId EXCEPT ![c] = NoEvent]
        /\ committed' \in {committed, [committed EXCEPT ![c] = position[c]]}
        /\ UNCHANGED <<managerVars, worker, current, position, handled, crashes>>
    BY <1>5 DEF CommitAsync, Goto
  <2>2. QueuedIds' = QueuedIds
    BY <2>1 DEF QueuedIds, managerVars
  <2>3. /\ HasEvent(c) /\ ~InFlight(c) /\ ~HasEvent(c)' /\ ~InFlight(c)'
        /\ \A d \in Consumer \ {c} : /\ InFlight(d)' <=> InFlight(d)
                                     /\ HasEvent(d)' <=> HasEvent(d)
    BY <1>0, <2>1 DEF InFlight, HasEvent
  <2>4. eventId'[c] = NoEvent /\ \A d \in Consumer \ {c} : eventId'[d] = eventId[d]
    BY <1>0, <2>1
  <2>5. WorkerHolds' /\ Asleep' /\ InQueueOrder'
    BY <2>1 DEF IInv, Safe, WorkerHolds, Asleep, InQueueOrder, managerVars
  <2>6. Owners'
    BY <2>1, <2>2, <2>3, <2>4 DEF IInv, Safe, Owners
  <2>7. Placed'
    BY <2>1, <2>2, <2>3, <2>4 DEF IInv, Safe, Placed, managerVars
  <2>8. Progress'
    <3>1. \A d \in Consumer : Pending(d)' <=> Pending(d)
      BY <2>1, <2>2, <2>3, <2>4 DEF Pending
    <3>2. position[c] \in Int /\ DOMAIN committed = Consumer
      BY DEF IInv, TypeOK
    <3>3. committed'[c] <= position[c]
      BY <2>1, <3>2 DEF IInv, Safe, Progress
    <3>4. \A d \in Consumer \ {c} : committed'[d] = committed[d]
      BY <2>1, <3>2
    <3> QED  BY <2>1, <2>3, <3>1, <3>3, <3>4 DEF IInv, Safe, Progress
  <2> QED  BY <2>5, <2>6, <2>7, <2>8 DEF Safe
<1> QED  BY <1>1, <1>2, <1>3, <1>4, <1>5 DEF ConsumerStep

LEMMA WorkerSafe ==
  ASSUME IInv, WorkerStep \/ SpuriousWakeup
  PROVE  Safe'
<1>0. worker \in WorkerAt
  BY DEF IInv, TypeOK
<1>1. ASSUME UNCHANGED consumer
      PROVE  \A c \in Consumer : (InFlight(c)' <=> InFlight(c)) /\ (HasEvent(c)' <=> HasEvent(c))
  BY <1>1 DEF InFlight, HasEvent
<1>2. CASE EventLoop \/ Block \/ SpuriousWakeup
  <2>1. UNCHANGED <<managerVars, consumer, eventId, current, kafkaVars, crashes>>
    BY <1>2 DEF EventLoop, Block, SpuriousWakeup
  <2>2. {worker, worker'} \cap {"process", "respond"} = {}
    BY <1>2 DEF EventLoop, Block, SpuriousWakeup
  <2>3. worker' \in {"block", "waiting"} => queue = <<>>
    BY <1>2 DEF EventLoop, Block, SpuriousWakeup, IInv, Safe, Asleep
  <2> QED  BY <1>1, <2>1, <2>2, <2>3, QuietStep DEF managerVars
<1>3. CASE GetNextEvent /\ UNCHANGED <<queue, current>>
  <2>1. UNCHANGED <<events, completed, consumer, eventId, kafkaVars, crashes>>
    BY <1>3 DEF GetNextEvent
  <2>2. {worker, worker'} \cap {"process", "respond"} = {}
    <3>1. queue # <<>> => Tail(queue) # queue
      <4>1. queue # <<>> => Len(Tail(queue)) # Len(queue)
        BY QueueTyped DEF IInv
      <4> QED  BY <4>1
    <3> QED  BY <1>3, <3>1 DEF GetNextEvent
  <2>3. worker' \in {"block", "waiting"} => queue = <<>>
    BY <1>3 DEF GetNextEvent
  <2> QED  BY <1>1, <1>3, <2>1, <2>2, <2>3, QuietStep
<1>4. CASE GetNextEvent /\ ~UNCHANGED <<queue, current>>
  <2>1. /\ worker = "next" /\ worker' = "process"
        /\ queue # <<>> /\ current' = Head(queue) /\ queue' = Tail(queue)
        /\ UNCHANGED <<events, completed, consumer, eventId, kafkaVars, crashes>>
    BY <1>4 DEF GetNextEvent
  <2>2. current = NoEvent
    BY <2>1 DEF IInv, Safe, WorkerHolds
  <2>3. QueuedIds = {current'} \cup QueuedIds'
    BY <2>1, TailQueues, QueueTyped DEF QueuedIds, IInv
  <2>4. /\ Len(queue) \in Nat /\ Len(queue) >= 1 /\ current' = queue[1]
        /\ Len(queue') = Len(queue) - 1
        /\ \A i \in 1 .. Len(queue') : queue'[i] = queue[i + 1]
    BY <2>1, QueueTyped DEF IInv
  <2>5. InQueueOrder'
    <3>1. \A i \in 1 .. Len(queue') : i + 1 \in 1 .. Len(queue) /\ 1 \in 1 .. Len(queue) /\ 1 < i + 1
      BY <2>4
    <3>2. \A i, j \in 1 .. Len(queue') : i < j => i + 1 < j + 1
      OBVIOUS
    <3>3. \A i, j \in 1 .. Len(queue') : i < j => queue'[i] < queue'[j]
      BY <2>4, <3>1, <3>2 DEF IInv, Safe, InQueueOrder
    <3>4. \A i \in 1 .. Len(queue') : current' < queue'[i]
      BY <2>4, <3>1 DEF IInv, Safe, InQueueOrder
    <3> QED  BY <3>3, <3>4 DEF InQueueOrder
  <2>6. current' \notin QueuedIds' /\ current' # NoEvent /\ current' \in QueuedIds
    <3>1. current' \in Int /\ current' >= 0
      BY <2>3, QueueTyped DEF IInv
    <3>2. \A x \in QueuedIds' : current' < x
      BY <2>5, <3>1 DEF InQueueOrder, QueuedIds, NoEvent
    <3> QED  BY <2>3, <3>1, <3>2 DEF NoEvent
  <2>7. \A c \in Consumer : (InFlight(c)' <=> InFlight(c)) /\ (HasEvent(c)' <=> HasEvent(c))
    BY <1>1, <2>1
  <2>8. WorkerHolds' /\ Asleep'
    BY <2>1, <2>6 DEF WorkerHolds, Asleep
  <2>9. Owners'
    BY <2>1, <2>3, <2>6, <2>7 DEF IInv, Safe, Owners
  <2>10. Placed'
    <3>1. \A c \in Consumer : InFlight(c) => eventId[c] # NoEvent
      BY DEF IInv, Safe, Owners, InFlight, HasEvent
    <3> QED  BY <2>1, <2>2, <2>3, <2>6, <2>7, <3>1 DEF IInv, Safe, Placed
  <2>11. Progress'
    <3>1. \A c \in Consumer : InFlight(c) => eventId[c] # NoEvent
      BY DEF IInv, Safe, Owners, InFlight, HasEvent
    <3>2. \A c \in Consumer : Pending(c)' <=> Pending(c)
      BY <2>1, <2>2, <2>3, <2>7, <3>1 DEF Pending
    <3> QED  BY <2>1, <2>7, <3>2 DEF IInv, Safe, Progress, kafkaVars
  <2> QED  BY <2>5, <2>8, <2>9, <2>10, <2>11 DEF Safe
<1>5. CASE HandleRequest
  <2>1. /\ worker = "process" /\ worker' = "respond"
        /\ handled' = [c \in Consumer |->
                         IF eventId[c] = current
                         THEN [handled[c] EXCEPT ![position[c]] = @ + 1]
                         ELSE handled[c]]
        /\ UNCHANGED <<managerVars, consumer, eventId, current, position, committed, crashes>>
    BY <1>5 DEF HandleRequest
  <2>2. QueuedIds' = QueuedIds
    BY <2>1 DEF QueuedIds, managerVars
  <2>3. \A c \in Consumer : (InFlight(c)' <=> InFlight(c)) /\ (HasEvent(c)' <=> HasEvent(c))
    BY <1>1, <2>1
  <2>4. WorkerHolds' /\ Asleep' /\ InQueueOrder' /\ Owners' /\ Placed'
    BY <2>1, <2>2, <2>3 DEF IInv, Safe, WorkerHolds, Asleep, InQueueOrder, Owners, Placed, managerVars
  <2>5. Progress'
    <3>1. ASSUME NEW c \in Consumer, eventId[c] = current
          PROVE  InFlight(c) /\ Pending(c) /\ ~Pending(c)'
      <4>1. HasEvent(c)
        BY <2>1, <3>1 DEF IInv, Safe, WorkerHolds, Owners
      <4>2. InFlight(c)
        BY <3>1, <4>1 DEF IInv, Safe, Owners
      <4> QED  BY <2>1, <2>2, <3>1, <4>2 DEF Pending, IInv, Safe, Placed
    <3>2. ASSUME NEW c \in Consumer, eventId[c] # current
          PROVE  (Pending(c)' <=> Pending(c)) /\ handled'[c] = handled[c]
      BY <2>1, <2>2, <2>3, <3>2 DEF Pending
    <3>3. ASSUME NEW c \in Consumer, NEW k \in Message(c)
          PROVE  /\ k <= position[c] /\ ~(Pending(c)' /\ k = position[c]) => handled'[c][k] >= 1
                 /\ k > position[c] \/ (Pending(c)' /\ k = position[c]) => handled'[c][k] <= crashes
                 /\ handled'[c][k] <= crashes + 1
      <4>1. CASE eventId[c] = current
        <5>1. handled[c] \in [Message(c) -> Nat] /\ position[c] \in Nat /\ crashes \in Nat /\ k \in Nat
          BY LogAssumption DEF IInv, TypeOK, Message
        <5>2. handled'[c][k] = IF k = position[c] THEN handled[c][k] + 1 ELSE handled[c][k]
          BY <2>1, <4>1, <5>1
        <5>3. handled[c][k] \in Nat
          BY <5>1
        <5>4. Pending(c) /\ ~Pending(c)'
          BY <3>1, <4>1
        <5> QED  BY <5>1, <5>2, <5>3, <5>4 DEF IInv, Safe, Progress
      <4>2. CASE eventId[c] # current
        BY <3>2, <4>2 DEF IInv, Safe, Progress
      <4> QED  BY <4>1, <4>2
    <3>4. ASSUME NEW c \in Consumer
          PROVE  /\ committed'[c] <= position'[c]
                 /\ InFlight(c)' => committed'[c] < position'[c]
      BY <2>1, <2>3 DEF IInv, Safe, Progress
    <3> QED  BY <2>1, <3>3, <3>4 DEF Progress, Message
  <2> QED  BY <2>4, <2>5 DEF Safe
<1>6. CASE SetEventResponse
  <2>1. /\ worker = "respond" /\ worker' = "loop"
        /\ completed' = completed \cup (events \cap {current}) /\ current' = NoEvent
        /\ UNCHANGED <<events, queue, consumer, eventId, kafkaVars, crashes>>
    BY <1>6 DEF SetEventResponse
  <2>2. QueuedIds' = QueuedIds
    BY <2>1 DEF QueuedIds
  <2>3. \A c \in Consumer : (InFlight(c)' <=> InFlight(c)) /\ (HasEvent(c)' <=> HasEvent(c))
    BY <1>1, <2>1
  <2>4. \A c \in Consumer : HasEvent(c) => eventId[c] # NoEvent
    BY DEF IInv, Safe, Owners
  <2>5. \A c \in Consumer : InFlight(c) => HasEvent(c)
    BY DEF InFlight, HasEvent
  <2>6. WorkerHolds' /\ Asleep' /\ InQueueOrder'
    BY <2>1 DEF IInv, Safe, WorkerHolds, Asleep, InQueueOrder
  <2>7. Owners'
    BY <2>1, <2>2, <2>3, <2>4 DEF IInv, Safe, Owners
  <2>8. Placed'
    BY <2>1, <2>2, <2>3, <2>4, <2>5 DEF IInv, Safe, Placed
  <2>9. Progress'
    <3>1. \A c \in Consumer : Pending(c)' <=> Pending(c)
      BY <2>1, <2>2, <2>3 DEF Pending
    <3> QED  BY <2>1, <2>3, <3>1 DEF IInv, Safe, Progress, kafkaVars
  <2> QED  BY <2>6, <2>7, <2>8, <2>9 DEF Safe
<1> QED  BY <1>2, <1>3, <1>4, <1>5, <1>6 DEF WorkerStep

LEMMA MainSafe ==
  ASSUME IInv, Signal \/ StopStep \/ UNCHANGED vars
  PROVE  Safe'
<1>1. UNCHANGED <<queue, events, completed, consumer, eventId, current, kafkaVars, crashes>>
  BY DEF Signal, StopStep, StopManager, NotifyAll, JoinWorker, StopServer, JoinConsumers,
         vars, managerVars
<1>2. worker' = worker \/ (worker = "waiting" /\ worker' = "next")
  BY DEF Signal, StopStep, StopManager, NotifyAll, JoinWorker, StopServer, JoinConsumers, vars
<1>3. \A c \in Consumer : (InFlight(c)' <=> InFlight(c)) /\ (HasEvent(c)' <=> HasEvent(c))
  BY <1>1 DEF InFlight, HasEvent
<1>4. worker' \in {"block", "waiting"} => queue = <<>>
  BY <1>2 DEF IInv, Safe, Asleep
<1> QED  BY <1>1, <1>2, <1>3, <1>4, QuietStep

(* Whatever was not committed is delivered again, to a new process.        *)
LEMMA RestartSafe ==
  ASSUME IInv, Restart
  PROVE  Safe'
<1>1. /\ queue' = <<>> /\ worker' = "loop" /\ current' = NoEvent /\ crashes' = crashes + 1
      /\ consumer' = [c \in Consumer |-> "poll"] /\ eventId' = [c \in Consumer |-> NoEvent]
      /\ position' = committed /\ UNCHANGED <<committed, handled>>
  BY DEF Restart
<1>2. \A c \in Consumer : ~InFlight(c)' /\ ~HasEvent(c)'
  BY <1>1 DEF InFlight, HasEvent
<1>3. WorkerHolds' /\ Owners' /\ Placed' /\ Asleep'
  BY <1>1, <1>2 DEF WorkerHolds, Owners, Placed, Asleep
<1>4. InQueueOrder'
  BY <1>1 DEF InQueueOrder
<1>5. Progress'
  <2>1. crashes \in Nat
    BY LogAssumption DEF IInv, TypeOK
  <2>2. ASSUME NEW c \in Consumer, NEW k \in Message(c)
        PROVE  /\ k <= committed[c] => handled[c][k] >= 1
               /\ handled[c][k] <= crashes + 1 /\ handled[c][k] \in Nat
               /\ committed[c] \in Nat
    <3>1. committed[c] \in Nat /\ position[c] \in Nat /\ k \in Nat /\ handled[c][k] \in Nat
      BY LogAssumption DEF IInv, TypeOK, Message
    <3>2. k <= committed[c] => k <= position[c] /\ ~(Pending(c) /\ k = position[c])
      BY <3>1 DEF IInv, Safe, Progress, Pending
    <3> QED  BY <3>1, <3>2 DEF IInv, Safe, Progress
  <2>3. \A c \in Consumer : ~Pending(c)' /\ committed[c] <= committed[c]
    BY <1>2 DEF Pending, IInv, TypeOK
  <2> QED  BY <1>1, <1>2, <2>1, <2>2, <2>3 DEF Progress, Message
<1> QED  BY <1>3, <1>4, <1>5 DEF Safe

LEMMA NextIInv == IInv /\ [Next]_vars => IInv'
<1> SUFFICES ASSUME IInv, [Next]_vars PROVE IInv'
  OBVIOUS
<1>1. TypeOK'
  <2>1. CASE UNCHANGED vars
    BY <2>1, Zenon DEF IInv, TypeOK, vars, managerVars, kafkaVars
  <2> QED  BY <2>1, NextTypeOK
<1>2. Safe'
  BY ConsumerSafe, WorkerSafe, MainSafe, RestartSafe DEF Next
<1> QED  BY <1>1, <1>2 DEF IInv

(* The inductive invariant holds in every reachable state.                 *)
THEOREM Inductive == Spec => []IInv
BY InitIInv, NextIInv, PTL DEF Spec

(* The event manager, its threads and Kafka's offsets keep their types.    *)
THEOREM TypeCorrect == Spec => []TypeOK
<1>1. IInv => TypeOK
  BY DEF IInv
<1> QED  BY <1>1, Inductive, PTL

(* An event a consumer waits for is in one place and not in two.           *)
LEMMA IInvSomewhere == IInv => EventIsSomewhere
<1> SUFFICES ASSUME IInv, NEW c \in Consumer, InFlight(c)
             PROVE  LET id     == eventId[c]
                        queued == {i \in 1 .. Len(queue) : queue[i] = id}
                    IN  /\ id \in events
                        /\ Cardinality(queued) + (IF current = id THEN 1 ELSE 0)
                             + (IF id \in completed THEN 1 ELSE 0) = 1
  BY DEF EventIsSomewhere
<1> DEFINE id     == eventId[c]
           queued == {i \in 1 .. Len(queue) : queue[i] = id}
<1>1. id \in events
  BY DEF IInv, Safe, Placed
<1>2. CASE id \in QueuedIds /\ current # id /\ id \notin completed
  <2>1. PICK i \in 1 .. Len(queue) : queue[i] = id
    BY <1>2 DEF QueuedIds
  <2>2. ASSUME NEW j \in 1 .. Len(queue), j # i
        PROVE  queue[j] # id
    <3>1. i < j \/ j < i
      BY <2>2
    <3>2. queue[i] \in Int /\ queue[j] \in Int
      BY QueueTyped DEF IInv
    <3>3. queue[i] < queue[j] \/ queue[j] < queue[i]
      BY <3>1 DEF IInv, Safe, InQueueOrder
    <3> QED  BY <2>1, <3>2, <3>3
  <2>3. queued = {i}
    BY <2>1, <2>2
  <2>4. Cardinality(queued) = 1
    BY <2>3, FS_Singleton
  <2> QED  BY <1>1, <1>2, <2>4
<1>3. CASE id \notin QueuedIds
  <2>1. queued = {}
    BY <1>3 DEF QueuedIds
  <2>2. Cardinality(queued) = 0
    BY <2>1, FS_EmptySet
  <2>3. (current = id) # (id \in completed)
    BY <1>3 DEF IInv, Safe, Placed
  <2> QED  BY <1>1, <2>2, <2>3
<1> QED  BY <1>2, <1>3 DEF IInv, Safe, Placed

(* A consumer's event is never lost and never in two places.               *)
THEOREM SomewhereCorrect == Spec => []EventIsSomewhere
BY IInvSomewhere, Inductive, PTL

(* The messages before the one in the worker's hands have been handled, so *)
(* the order of a partition is kept; nothing else handles a message.       *)
LEMMA OffsetOrderKept == IInv /\ InOffsetOrder /\ [Next]_vars => InOffsetOrder'
<1> SUFFICES ASSUME IInv, InOffsetOrder, [Next]_vars
             PROVE  InOffsetOrder'
  OBVIOUS
<1>1. CASE HandleRequest
  <2>1. /\ worker = "process"
        /\ handled' = [c \in Consumer |->
                         IF eventId[c] = current
                         THEN [handled[c] EXCEPT ![position[c]] = @ + 1]
                         ELSE handled[c]]
    BY <1>1 DEF HandleRequest
  <2>2. ASSUME NEW c \in Consumer, NEW j \in Message(c), NEW k \in Message(c),
               j < k, handled'[c][k] >= 1
        PROVE  handled'[c][j] >= 1
    <3>1. /\ handled[c] \in [Message(c) -> Nat] /\ position[c] \in Nat
          /\ j \in Nat /\ k \in Nat
      BY LogAssumption DEF IInv, TypeOK, Message
    <3>2. CASE eventId[c] # current
      <4>1. handled'[c] = handled[c]
        BY <2>1, <3>2
      <4> QED  BY <2>2, <4>1 DEF InOffsetOrder
    <3>3. CASE eventId[c] = current
      <4>1. \A m \in Message(c) :
              handled'[c][m] = IF m = position[c] THEN handled[c][m] + 1 ELSE handled[c][m]
        BY <2>1, <3>1, <3>3
      <4>2. handled[c][j] \in Nat /\ handled[c][k] \in Nat
        BY <3>1
      <4>3. CASE k = position[c]
        <5>1. handled[c][j] >= 1
          BY <2>2, <3>1, <4>3 DEF IInv, Safe, Progress
        <5> QED  BY <4>1, <4>2, <5>1
      <4>4. CASE k # position[c]
        <5>1. handled[c][j] >= 1
          BY <2>2, <4>1, <4>4 DEF InOffsetOrder
        <5> QED  BY <4>1, <4>2, <5>1
      <4> QED  BY <4>3, <4>4
    <3> QED  BY <3>2, <3>3
  <2> QED  BY <2>2 DEF InOffsetOrder, Message
<1>2. CASE ~HandleRequest
  <2>1. handled' = handled
    <3>1. ASSUME NEW c \in Consumer, ConsumerStep(c) \/ ConsumeTimesOut(c)
          PROVE  handled' = handled
      BY <3>1 DEF ConsumerStep, PollLoop, ConsumeTimesOut, AddEvent, GetEventResponse,
                  WaitForResponse, RemoveEvent, CommitAsync, kafkaVars
    <3>2. CASE WorkerStep \/ SpuriousWakeup
      BY <1>2, <3>2 DEF WorkerStep, EventLoop, GetNextEvent, Block, SpuriousWakeup,
                        SetEventResponse, kafkaVars
    <3>3. CASE Signal \/ StopStep
      BY <3>3 DEF Signal, StopStep, StopManager, NotifyAll, JoinWorker, StopServer,
                  JoinConsumers, kafkaVars
    <3>4. CASE Restart \/ UNCHANGED vars
      BY <3>4 DEF Restart, vars, kafkaVars
    <3> QED  BY <3>1, <3>2, <3>3, <3>4 DEF Next
  <2> QED  BY <2>1 DEF InOffsetOrder, Message
<1> QED  BY <1>1, <1>2

(* Messages are handled in the order of the queue within a process and of  *)
(* the offsets across processes.                                           *)
THEOREM OrderCorrect == Spec => []HandledInOrder
<1>1. Init => InOffsetOrder
  BY DEF Init, InOffsetOrder
<1>2. IInv => InQueueOrder
  BY DEF IInv, Safe
<1>3. InQueueOrder /\ InOffsetOrder => HandledInOrder
  BY DEF HandledInOrder
<1> QED  BY <1>1, <1>2, <1>3, OffsetOrderKept, Inductive, PTL DEF Spec

(* A message with a committed offset was handled, by whatever process.     *)
LEMMA IInvCommitted == IInv => CommittedIsHandled
<1> SUFFICES ASSUME IInv, NEW c \in Consumer, NEW k \in Message(c), k <= committed[c]
             PROVE  handled[c][k] >= 1
  BY DEF CommittedIsHandled
<1>1. committed[c] \in Nat /\ position[c] \in Nat /\ k \in Nat
  BY LogAssumption DEF IInv, TypeOK, Message
<1>2. k <= position[c] /\ ~(Pending(c) /\ k = position[c])
  BY <1>1 DEF IInv, Safe, Progress, Pending
<1> QED  BY <1>2 DEF IInv, Safe, Progress

(* At least once: what is committed is handled.                            *)
THEOREM CommitCorrect == Spec => []CommittedIsHandled
BY IInvCommitted, Inductive, PTL

(* One process handles a message once.                                     *)
THEOREM OnceCorrect == Spec => []OncePerProcess
<1>1. IInv => OncePerProcess
  BY DEF IInv, Safe, Progress, OncePerProcess
<1> QED  BY <1>1, Inductive, PTL

(* The worker never sleeps while an event is queued.                       *)
THEOREM WakeupCorrect == Spec => []NoSleepOverWork
<1>1. IInv => NoSleepOverWork
  BY DEF IInv, Safe, Asleep, NoSleepOverWork
<1> QED  BY <1>1, Inductive, PTL
=============================================================================
