----------------------------- MODULE EventManager -----------------------------
(***************************************************************************)
(* The threads of the Kafka server: the consumers of TServer hand each     *)
(* message to TEventManager and wait for its response, the one worker that *)
(* TEventProcessor::start() creates takes the events from the queue and    *)
(* answers them, and main() stops both on a signal.                        *)
(*                                                                         *)
(* A message is the k-th of its consumer's partition.  What a handler does *)
(* with it is GameServer's subject; here it is only counted.  The topic    *)
(* and the committed offsets are Kafka's and survive the process.          *)
(***************************************************************************)
EXTENDS Integers, Sequences, FiniteSets

CONSTANTS
  Consumer,     (* the MAX_THREADS consumer threads of TServer             *)
  LogLength,    (* messages in each consumer's partition, bounds a run     *)
  MaxCrashes    (* how often the process may die, bounds a run             *)

ASSUME ConsumerAssumption == IsFiniteSet(Consumer)
ASSUME LogAssumption ==
  LogLength \in [Consumer -> Nat] /\ MaxCrashes \in Nat

NoEvent == -1   (* no id is negative *)

VARIABLES
  \* TEventManager
  nextId,       (* m_next_id                                               *)
  events,       (* the ids in m_events                                     *)
  queue,        (* m_event_queue, ids                                      *)
  stopped,      (* m_stopped                                               *)
  completed,    (* ids of events whose m_completed is set                  *)
  \* the threads
  consumer,     (* where each consumer thread is                           *)
  eventId,      (* event_id of each consumer's handleMessage               *)
  worker,       (* where the worker is                                     *)
  current,      (* the event it holds                                      *)
  main,         (* where main() is                                         *)
  \* flags, and the process
  processing,   (* TEventProcessor::m_running                              *)
  serving,      (* TServer::m_is_running                                   *)
  \* Kafka
  position,     (* next offset to fetch, per consumer                      *)
  committed,    (* committed offset, per consumer                          *)
  handled,      (* how often message k of a partition has been handled     *)
  crashes

managerVars == <<nextId, events, queue, stopped, completed>>
kafkaVars   == <<position, committed, handled>>
vars == <<managerVars, consumer, eventId, worker, current, main,
          processing, serving, kafkaVars, crashes>>

Message(c) == 1 .. LogLength[c]

ConsumerAt == {"poll", "consume", "lookup", "await", "remove", "commit", "done"}
WorkerAt   == {"loop", "next", "block", "waiting", "process", "respond", "done"}
MainAt     == {"run", "stop_manager", "notify", "join_worker", "stop_server",
               "join_consumers", "exit"}

TypeOK ==
  /\ nextId \in Nat
  /\ events \subseteq 0 .. nextId - 1
  /\ queue \in Seq(0 .. nextId - 1)
  /\ stopped \in BOOLEAN
  /\ completed \subseteq 0 .. nextId - 1
  /\ consumer \in [Consumer -> ConsumerAt]
  /\ eventId \in [Consumer -> -1 .. nextId - 1]
  /\ worker \in WorkerAt
  /\ current \in -1 .. nextId - 1
  /\ main \in MainAt
  /\ processing \in BOOLEAN /\ serving \in BOOLEAN
  /\ DOMAIN position = Consumer /\ DOMAIN committed = Consumer
  /\ DOMAIN handled = Consumer
  /\ \A c \in Consumer : /\ position[c] \in 0 .. LogLength[c]
                        /\ committed[c] \in 0 .. LogLength[c]
                        /\ handled[c] \in [Message(c) -> Nat]
  /\ crashes \in 0 .. MaxCrashes

-----------------------------------------------------------------------------
(* processor.start(), then server.start().                                 *)
Init ==
  /\ nextId = 0 /\ events = {} /\ queue = <<>> /\ stopped = FALSE /\ completed = {}
  /\ consumer = [c \in Consumer |-> "poll"]
  /\ eventId = [c \in Consumer |-> NoEvent]
  /\ worker = "loop" /\ current = NoEvent
  /\ main = "run" /\ processing = TRUE /\ serving = TRUE
  /\ position = [c \in Consumer |-> 0]
  /\ committed = [c \in Consumer |-> 0]
  /\ handled = [c \in Consumer |-> [k \in Message(c) |-> 0]]
  /\ crashes = 0

-----------------------------------------------------------------------------
(* A consumer thread: consumeMessages and handleMessage.                   *)

Goto(c, at) == consumer' = [consumer EXCEPT ![c] = at]

(* while (m_is_running)                                                    *)
PollLoop(c) ==
  /\ consumer[c] = "poll"
  /\ Goto(c, IF serving THEN "consume" ELSE "done")
  /\ UNCHANGED <<managerVars, eventId, worker, current, main, processing,
                 serving, kafkaVars, crashes>>

(* consume(1000) comes back without a message.                             *)
ConsumeTimesOut(c) ==
  /\ consumer[c] = "consume"
  /\ Goto(c, "poll")
  /\ UNCHANGED <<managerVars, eventId, worker, current, main, processing,
                 serving, kafkaVars, crashes>>

(* Slips in addEvent: the worker is not notified; the event is pushed in   *)
(* front; it is not in the map; its offset is committed at once.           *)
Arrival(c) ==
  /\ consumer[c] = "consume"
  /\ position[c] < LogLength[c]
  /\ worker # "block"
  /\ Goto(c, "lookup")
  /\ position' = [position EXCEPT ![c] = @ + 1]
  /\ eventId' = [eventId EXCEPT ![c] = nextId]
  /\ nextId' = nextId + 1
  /\ UNCHANGED <<stopped, completed, current, main, processing, serving,
                 handled, crashes>>

Notified == worker' = IF worker = "waiting" THEN "next" ELSE worker

AddEventSilently(c) ==
  /\ Arrival(c)
  /\ events' = events \cup {nextId} /\ queue' = Append(queue, nextId)
  /\ UNCHANGED <<worker, committed>>

AddEventInFront(c) ==
  /\ Arrival(c) /\ Notified
  /\ events' = events \cup {nextId} /\ queue' = <<nextId>> \o queue
  /\ UNCHANGED committed

AddEventUnmapped(c) ==
  /\ Arrival(c) /\ Notified
  /\ queue' = Append(queue, nextId)
  /\ UNCHANGED <<events, committed>>

AddEventCommitted(c) ==
  /\ Arrival(c) /\ Notified
  /\ events' = events \cup {nextId} /\ queue' = Append(queue, nextId)
  /\ committed' = [committed EXCEPT ![c] = position[c] + 1]

(* A message arrives and addEvent queues it.  The queue's mutex is free    *)
(* unless the worker is between its test and its wait; notify_one wakes    *)
(* the worker only if it is waiting already.                               *)
AddEvent(c) ==
  /\ consumer[c] = "consume"
  /\ position[c] < LogLength[c]
  /\ worker # "block"
  /\ Goto(c, "lookup")
  /\ position' = [position EXCEPT ![c] = @ + 1]
  /\ eventId' = [eventId EXCEPT ![c] = nextId]
  /\ nextId' = nextId + 1
  /\ events' = events \cup {nextId}
  /\ queue' = Append(queue, nextId)
  /\ worker' = IF worker = "waiting" THEN "next" ELSE worker
  /\ UNCHANGED <<stopped, completed, current, main, processing, serving,
                 committed, handled, crashes>>

(* getEventResponse looks the event up, and gives up when it is not there. *)
GetEventResponse(c) ==
  /\ consumer[c] = "lookup"
  /\ Goto(c, IF eventId[c] \in events THEN "await" ELSE "remove")
  /\ UNCHANGED <<managerVars, eventId, worker, current, main, processing,
                 serving, kafkaVars, crashes>>

(* waitForResponse has no other way out than the response.                 *)
WaitForResponse(c) ==
  /\ consumer[c] = "await"
  /\ eventId[c] \in completed
  /\ Goto(c, "remove")
  /\ UNCHANGED <<managerVars, eventId, worker, current, main, processing,
                 serving, kafkaVars, crashes>>

RemoveEvent(c) ==
  /\ consumer[c] = "remove"
  /\ Goto(c, "commit")
  /\ events' = events \ {eventId[c]}
  /\ completed' = completed \ {eventId[c]}
  /\ UNCHANGED <<nextId, queue, stopped, eventId, worker, current, main,
                 processing, serving, kafkaVars, crashes>>

(* commitAsync: nobody waits for the commit or hears that it failed.       *)
CommitAsync(c) ==
  /\ consumer[c] = "commit"
  /\ Goto(c, "poll")
  /\ eventId' = [eventId EXCEPT ![c] = NoEvent]
  /\ committed' \in {committed, [committed EXCEPT ![c] = position[c]]}
  /\ UNCHANGED <<managerVars, worker, current, main, processing, serving,
                 position, handled, crashes>>

ConsumerStep(c) ==
  \/ PollLoop(c) \/ AddEvent(c) \/ GetEventResponse(c) \/ WaitForResponse(c)
  \/ RemoveEvent(c) \/ CommitAsync(c)

-----------------------------------------------------------------------------
(* The worker: processEvents and getNextEvent.                             *)

EventLoop ==
  /\ worker = "loop"
  /\ worker' = IF processing THEN "next" ELSE "done"
  /\ UNCHANGED <<managerVars, consumer, eventId, current, main, processing,
                 serving, kafkaVars, crashes>>

(* Slip: getNextEvent does not pop.                                        *)
GetNextEventNoPop ==
  /\ worker = "next"
  /\ worker' = IF stopped THEN "loop" ELSE IF queue # <<>> THEN "process" ELSE "block"
  /\ current' = IF ~stopped /\ queue # <<>> THEN Head(queue) ELSE current
  /\ UNCHANGED <<managerVars, consumer, eventId, main, processing, serving,
                 kafkaVars, crashes>>

(* wait() tests its predicate with the queue's mutex held, and keeps it    *)
(* until it blocks.  A stop wins over a queued event.                      *)
GetNextEvent ==
  /\ worker = "next"
  /\ \/ /\ stopped
        /\ worker' = "loop"
        /\ UNCHANGED <<queue, current>>
     \/ /\ ~stopped /\ queue # <<>>
        /\ worker' = "process"
        /\ current' = Head(queue)
        /\ queue' = Tail(queue)
     \/ /\ ~stopped /\ queue = <<>>
        /\ worker' = "block"
        /\ UNCHANGED <<queue, current>>
  /\ UNCHANGED <<nextId, events, stopped, completed, consumer, eventId, main,
                 processing, serving, kafkaVars, crashes>>

Block ==
  /\ worker = "block"
  /\ worker' = "waiting"
  /\ UNCHANGED <<managerVars, consumer, eventId, current, main, processing,
                 serving, kafkaVars, crashes>>

(* A condition variable may wake without a notification.                   *)
SpuriousWakeup ==
  /\ worker = "waiting"
  /\ worker' = "next"
  /\ UNCHANGED <<managerVars, consumer, eventId, current, main, processing,
                 serving, kafkaVars, crashes>>

(* The handler runs: with one worker lockForProcessing always succeeds, so *)
(* there is always a response to send.                                     *)
HandleRequest ==
  /\ worker = "process"
  /\ worker' = "respond"
  /\ handled' = [c \in Consumer |->
                   IF eventId[c] = current
                   THEN [handled[c] EXCEPT ![position[c]] = @ + 1]
                   ELSE handled[c]]
  /\ UNCHANGED <<managerVars, consumer, eventId, current, main, processing,
                 serving, position, committed, crashes>>

(* Slip: the response is sent to Kafka and not to the event.               *)
SendToKafkaOnly ==
  /\ worker = "respond"
  /\ worker' = "loop"
  /\ current' = NoEvent
  /\ UNCHANGED <<managerVars, consumer, eventId, main, processing, serving,
                 kafkaVars, crashes>>

(* sendToKafka, then setEventResponse.                                     *)
SetEventResponse ==
  /\ worker = "respond"
  /\ worker' = "loop"
  /\ completed' = completed \cup (events \cap {current})
  /\ current' = NoEvent
  /\ UNCHANGED <<nextId, events, queue, stopped, consumer, eventId, main,
                 processing, serving, kafkaVars, crashes>>

WorkerStep ==
  EventLoop \/ GetNextEvent \/ Block \/ HandleRequest \/ SetEventResponse

-----------------------------------------------------------------------------
(* main(): a signal, processor.stop(), then server.stop().                 *)

MainGoto(from, to) == main = from /\ main' = to

Signal ==
  /\ MainGoto("run", "stop_manager")
  /\ processing' = FALSE
  /\ UNCHANGED <<managerVars, consumer, eventId, worker, current, serving,
                 kafkaVars, crashes>>

(* TEventManager::stop sets the flag without the queue's mutex.            *)
StopManager ==
  /\ MainGoto("stop_manager", "notify")
  /\ stopped' = TRUE
  /\ UNCHANGED <<nextId, events, queue, completed, consumer, eventId, worker,
                 current, processing, serving, kafkaVars, crashes>>

NotifyAll ==
  /\ MainGoto("notify", "join_worker")
  /\ worker' = IF worker = "waiting" THEN "next" ELSE worker
  /\ UNCHANGED <<managerVars, consumer, eventId, current, processing, serving,
                 kafkaVars, crashes>>

JoinWorker ==
  /\ MainGoto("join_worker", "stop_server")
  /\ worker = "done"
  /\ UNCHANGED <<managerVars, consumer, eventId, worker, current, processing,
                 serving, kafkaVars, crashes>>

StopServer ==
  /\ MainGoto("stop_server", "join_consumers")
  /\ serving' = FALSE
  /\ UNCHANGED <<managerVars, consumer, eventId, worker, current, processing,
                 kafkaVars, crashes>>

JoinConsumers ==
  /\ MainGoto("join_consumers", "exit")
  /\ \A c \in Consumer : consumer[c] = "done"
  /\ UNCHANGED <<managerVars, consumer, eventId, worker, current, processing,
                 serving, kafkaVars, crashes>>

StopStep == StopManager \/ NotifyAll \/ JoinWorker \/ StopServer \/ JoinConsumers

(* The process dies, or is stopped, and is started again: Kafka delivers   *)
(* from the committed offsets, all else is gone.                           *)
Restart ==
  /\ crashes < MaxCrashes
  /\ crashes' = crashes + 1
  /\ nextId' = 0 /\ events' = {} /\ queue' = <<>> /\ stopped' = FALSE
  /\ completed' = {}
  /\ consumer' = [c \in Consumer |-> "poll"]
  /\ eventId' = [c \in Consumer |-> NoEvent]
  /\ worker' = "loop" /\ current' = NoEvent
  /\ main' = "run" /\ processing' = TRUE /\ serving' = TRUE
  /\ position' = committed
  /\ UNCHANGED <<committed, handled>>

-----------------------------------------------------------------------------
Next ==
  \/ \E c \in Consumer : ConsumerStep(c) \/ ConsumeTimesOut(c)
  \/ WorkerStep
  \/ SpuriousWakeup
  \/ Signal
  \/ StopStep
  \/ Restart

(* Every thread that can run does run; nothing forces a signal, a crash, a *)
(* spurious wakeup, or a message to arrive rather than a timeout.          *)
Fairness ==
  /\ \A c \in Consumer :
        /\ WF_vars(PollLoop(c)) /\ WF_vars(GetEventResponse(c))
        /\ WF_vars(WaitForResponse(c)) /\ WF_vars(RemoveEvent(c))
        /\ WF_vars(CommitAsync(c)) /\ WF_vars(ConsumeTimesOut(c))
  /\ WF_vars(WorkerStep)
  /\ WF_vars(StopStep)

Spec == Init /\ [][Next]_vars /\ Fairness

-----------------------------------------------------------------------------
InFlight(c) == consumer[c] \in {"lookup", "await"}

(* An event a consumer waits for is never lost and never in two places: it *)
(* is in the map, and either still queued, once, or in the worker's hands, *)
(* or answered.  "Event not found" is therefore never the answer.          *)
EventIsSomewhere ==
  \A c \in Consumer : InFlight(c) =>
    LET id     == eventId[c]
        queued == {i \in 1 .. Len(queue) : queue[i] = id}
    IN  /\ id \in events
        /\ Cardinality(queued) + (IF current = id THEN 1 ELSE 0)
             + (IF id \in completed THEN 1 ELSE 0) = 1

(* What is queued is younger than what the worker holds, and queued in the *)
(* order of the ids, the order in which addEvent was called.               *)
InQueueOrder ==
  /\ \A i, j \in 1 .. Len(queue) : i < j => queue[i] < queue[j]
  /\ current # NoEvent => \A i \in 1 .. Len(queue) : current < queue[i]

(* No message of a partition has been handled, by whatever process, before *)
(* every message in front of it has.                                       *)
InOffsetOrder ==
  \A c \in Consumer : \A j, k \in Message(c) :
    j < k /\ handled[c][k] >= 1 => handled[c][j] >= 1

(* Requests reach the games in order: in one process in the order in which *)
(* they came, whatever the consumers do in between; and of one partition   *)
(* in the order of their offsets, across crashes and lost commits: no      *)
(* PLAYER_STEP is handled while the CREATE_GAME in front of it never was.  *)
HandledInOrder == InQueueOrder /\ InOffsetOrder

(* At least once: a message whose offset has been committed was handled,   *)
(* however the process died and however many commits were lost.            *)
CommittedIsHandled ==
  \A c \in Consumer : \A k \in Message(c) : k <= committed[c] => handled[c][k] >= 1

(* A message is handled again only after a restart: never twice by one     *)
(* process, so without crashes a PLAYER_STEP counts once.                  *)
OncePerProcess ==
  \A c \in Consumer : \A k \in Message(c) : handled[c][k] <= crashes + 1

(* No lost wakeup while the server runs: the worker sleeps only when there *)
(* is nothing to do.                                                       *)
NoSleepOverWork ==
  worker = "waiting" => queue = <<>>

(* A consumer that waits for a response gets it, unless the server is told *)
(* to stop or dies.                                                        *)
EveryRequestAnswered ==
  \A c \in Consumer :
    InFlight(c) ~> (~InFlight(c) \/ main # "run")

(* main.cpp:72, "Press Ctrl+C to stop...": the signal stops the server.    *)
SignalStopsTheServer ==
  (main = "stop_manager") ~> (main \in {"exit", "run"})
=============================================================================
