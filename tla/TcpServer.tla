------------------------------- MODULE TcpServer -------------------------------
(***************************************************************************)
(* TServer without KAFKA_SERVER: main() accepts connections in             *)
(* io_service::run(), gives each one a thread of its own while there are   *)
(* fewer than MAX_THREADS, and the thread reads one line, hands it to      *)
(* TEventManager, writes the answer and counts itself out.                 *)
(*                                                                         *)
(* The event manager and the worker are EventManager's subject; here an    *)
(* event is queued, answered and removed in one step each.  A client       *)
(* connects once; it may be silent for ever, hang up or be gone when the   *)
(* answer is written.                                                      *)
(***************************************************************************)
EXTENDS Integers, Sequences, FiniteSets

CONSTANTS
  Client,         (* connections                                           *)
  MAX_THREADS,    (* sessions served at a time                             *)
  CountRange,     (* m_threadCount counts modulo this: 2^32                *)
  FirstCounts     (* what m_threadCount, never initialised, may start with *)

ASSUME ClientAssumption == IsFiniteSet(Client)
ASSUME CountAssumption ==
  /\ MAX_THREADS \in Nat \ {0}
  /\ CountRange \in Nat /\ MAX_THREADS < CountRange
  /\ FirstCounts \subseteq 0 .. CountRange - 1

VARIABLES
  \* main() and the accept handler it runs
  main,         (* where main() is                                         *)
  accepting,    (* an async_accept is pending                              *)
  handler,      (* where the accept handler is                             *)
  peer,         (* the connection it was called for                        *)
  running,      (* the flag the signal clears                              *)
  serving,      (* m_is_running                                            *)
  \* the sessions
  session,      (* where each connection is                                *)
  mutex,        (* who holds m_thread_mutex                                *)
  count,        (* m_threadCount                                           *)
  firstCount,   (* what it was before the constructor did not set it       *)
  \* TEventManager and its worker
  processing,   (* the worker runs                                         *)
  queue,        (* m_event_queue, by connection                            *)
  events,       (* m_events                                                *)
  answered      (* events with a response                                  *)

mainVars    == <<main, running, serving>>
acceptVars  == <<accepting, handler, peer>>
threadVars  == <<session, mutex, count, firstCount>>
managerVars == <<processing, queue, events, answered>>
vars == <<mainVars, acceptVars, threadVars, managerVars>>

MainAt    == {"listen", "loop", "stop_server", "join", "exit"}
HandlerAt == {"idle", "check", "lock", "spawned", "rearm"}
SessionAt == {"outside", "backlog", "read", "await", "write", "remove", "lock",
              "uncount", "done", "refused"}

Free == "free"
Io   == "io"
Main == "main"

ASSUME HolderAssumption == Client \cap {Free, Io, Main} = {}

(* The threads of TServer that have begun and not ended.                   *)
Live == {c \in Client : session[c] \in
           {"read", "await", "write", "remove", "lock", "uncount"}}

TypeOK ==
  /\ main \in MainAt /\ running \in BOOLEAN /\ serving \in BOOLEAN
  /\ accepting \in BOOLEAN /\ handler \in HandlerAt /\ peer \in Client \cup {Free}
  /\ session \in [Client -> SessionAt]
  /\ mutex \in Client \cup {Free, Io, Main}
  /\ count \in 0 .. CountRange - 1 /\ firstCount \in FirstCounts
  /\ processing \in BOOLEAN /\ queue \in Seq(Client)
  /\ events \subseteq Client /\ answered \subseteq Client

-----------------------------------------------------------------------------
(* processor.start(), then server.start() up to run().                     *)
Init ==
  /\ main = "listen" /\ running = TRUE /\ serving = TRUE
  /\ accepting = TRUE /\ handler = "idle" /\ peer = Free
  /\ session = [c \in Client |-> "outside"]
  /\ mutex = Free
  /\ firstCount \in FirstCounts /\ count = firstCount
  /\ processing = TRUE /\ queue = <<>> /\ events = {} /\ answered = {}

-----------------------------------------------------------------------------
(* The accept handler, on main()'s thread.                                 *)

Goto(c, at) == session' = [session EXCEPT ![c] = at]

HandlerGoto(from, to) == handler = from /\ handler' = to

AcceptConnection(c) ==
  /\ main = "listen" /\ accepting
  /\ session[c] = "backlog"
  /\ HandlerGoto("idle", "check")
  /\ peer' = c
  /\ accepting' = FALSE
  /\ UNCHANGED <<mainVars, threadVars, managerVars>>

(* An error (of the system: too many open files, say) is printed, and the  *)
(* handler returns without another init().                                 *)
AcceptError ==
  /\ main = "listen" /\ accepting
  /\ accepting' = FALSE
  /\ UNCHANGED <<mainVars, handler, peer, threadVars, managerVars>>

(* Slip: one session too many.                                             *)
CheckThreadCountOff ==
  /\ handler = "check"
  /\ IF count <= MAX_THREADS
     THEN handler' = "lock" /\ UNCHANGED session
     ELSE handler' = "rearm" /\ Goto(peer, "refused")
  /\ UNCHANGED <<mainVars, accepting, peer, mutex, count, firstCount, managerVars>>

(* The count is read without the mutex; a full server closes the socket.   *)
CheckThreadCount ==
  /\ handler = "check"
  /\ IF count < MAX_THREADS
     THEN handler' = "lock" /\ UNCHANGED session
     ELSE handler' = "rearm" /\ Goto(peer, "refused")
  /\ UNCHANGED <<mainVars, accepting, peer, mutex, count, firstCount, managerVars>>

(* Slip: the mutex is not taken, the thread may end before it is counted.  *)
SpawnSessionUnlocked ==
  /\ HandlerGoto("lock", "spawned")
  /\ Goto(peer, "read")
  /\ UNCHANGED <<mainVars, accepting, peer, mutex, count, firstCount, managerVars>>

(* emplace_back starts the thread, with the mutex held...                  *)
SpawnSession ==
  /\ HandlerGoto("lock", "spawned")
  /\ mutex = Free /\ mutex' = Io
  /\ Goto(peer, "read")
  /\ UNCHANGED <<mainVars, accepting, peer, count, firstCount, managerVars>>

(* ... and then it is counted.                                             *)
CountSession ==
  /\ HandlerGoto("spawned", "rearm")
  /\ count' = (count + 1) % CountRange
  /\ mutex' = Free
  /\ UNCHANGED <<mainVars, accepting, peer, session, firstCount, managerVars>>

Rearm ==
  /\ HandlerGoto("rearm", "idle")
  /\ accepting' = serving
  /\ UNCHANGED <<mainVars, peer, threadVars, managerVars>>

HandlerStep == CheckThreadCount \/ SpawnSession \/ CountSession \/ Rearm

-----------------------------------------------------------------------------
(* The clients, and the threads of TServer::handleMessage.                 *)

Connect(c) ==
  /\ session[c] = "outside"
  /\ main \in {"listen", "loop"}
  /\ Goto(c, "backlog")
  /\ UNCHANGED <<mainVars, acceptVars, mutex, count, firstCount, managerVars>>

(* The line is there: addEvent.                                            *)
SendLine(c) ==
  /\ session[c] = "read"
  /\ Goto(c, "await")
  /\ queue' = Append(queue, c)
  /\ events' = events \cup {c}
  /\ UNCHANGED <<mainVars, acceptVars, mutex, count, firstCount, processing, answered>>

(* read_until throws.                                                      *)
HangUp(c) ==
  /\ session[c] = "read"
  /\ Goto(c, "lock")
  /\ UNCHANGED <<mainVars, acceptVars, mutex, count, firstCount, managerVars>>

GetEventResponse(c) ==
  /\ session[c] = "await"
  /\ c \in answered
  /\ Goto(c, "write")
  /\ UNCHANGED <<mainVars, acceptVars, mutex, count, firstCount, managerVars>>

(* write succeeds, or throws over removeEvent.                             *)
WriteAnswer(c) ==
  /\ session[c] = "write"
  /\ \/ Goto(c, "remove")
     \/ Goto(c, "lock")
  /\ UNCHANGED <<mainVars, acceptVars, mutex, count, firstCount, managerVars>>

RemoveEvent(c) ==
  /\ session[c] = "remove"
  /\ Goto(c, "lock")
  /\ events' = events \ {c}
  /\ UNCHANGED <<mainVars, acceptVars, mutex, count, firstCount, processing, queue, answered>>

LockThreads(c) ==
  /\ session[c] = "lock"
  /\ mutex = Free /\ mutex' = c
  /\ Goto(c, "uncount")
  /\ UNCHANGED <<mainVars, acceptVars, count, firstCount, managerVars>>

UncountSession(c) ==
  /\ session[c] = "uncount"
  /\ count' = (count - 1) % CountRange
  /\ mutex' = Free
  /\ Goto(c, "done")
  /\ UNCHANGED <<mainVars, acceptVars, firstCount, managerVars>>

(* What a session thread does without waiting for its client.              *)
SessionStep(c) ==
  \/ GetEventResponse(c) \/ WriteAnswer(c) \/ RemoveEvent(c)
  \/ LockThreads(c) \/ UncountSession(c)

(* Slip: the worker takes an event and sets no response.                   *)
DropRequest ==
  /\ processing /\ queue # <<>>
  /\ queue' = Tail(queue)
  /\ UNCHANGED <<mainVars, acceptVars, threadVars, processing, events, answered>>

(* The worker takes an event, handles it and sets its response.            *)
AnswerRequest ==
  /\ processing /\ queue # <<>>
  /\ answered' = answered \cup {Head(queue)}
  /\ queue' = Tail(queue)
  /\ UNCHANGED <<mainVars, acceptVars, threadVars, processing, events>>

-----------------------------------------------------------------------------
(* main().                                                                 *)

MainGoto(from, to) == main = from /\ main' = to

Signal ==
  /\ running
  /\ running' = FALSE
  /\ UNCHANGED <<main, serving, acceptVars, threadVars, managerVars>>

(* Only when there is nothing left to wait for does run() return: start()  *)
(* is over and "Server started successfully" is printed.                   *)
RunReturns ==
  /\ MainGoto("listen", "loop")
  /\ ~accepting /\ handler = "idle"
  /\ UNCHANGED <<running, serving, acceptVars, threadVars, managerVars>>

(* while (running); processor.stop() joins the worker.                     *)
StopProcessor ==
  /\ MainGoto("loop", "stop_server")
  /\ ~running
  /\ processing' = FALSE
  /\ UNCHANGED <<running, serving, acceptVars, threadVars, queue, events, answered>>

(* stop() keeps the mutex while it joins the threads, each of which needs  *)
(* it to end.                                                              *)
StopServer ==
  /\ MainGoto("stop_server", "join")
  /\ mutex = Free /\ mutex' = Main
  /\ serving' = FALSE
  /\ UNCHANGED <<running, acceptVars, session, count, firstCount, managerVars>>

JoinSessions ==
  /\ MainGoto("join", "exit")
  /\ Live = {}
  /\ mutex' = Free
  /\ UNCHANGED <<running, serving, acceptVars, session, count, firstCount, managerVars>>

MainStep == RunReturns \/ StopProcessor \/ StopServer \/ JoinSessions

-----------------------------------------------------------------------------
Next ==
  \/ \E c \in Client :
       \/ Connect(c) \/ AcceptConnection(c) \/ SendLine(c) \/ HangUp(c)
       \/ SessionStep(c)
  \/ AcceptError
  \/ HandlerStep
  \/ AnswerRequest
  \/ Signal
  \/ MainStep

(* Threads that can run do, and a connection in the backlog is accepted.   *)
(* A client need not connect or send, and nothing forces an error of       *)
(* accept or a signal.                                                     *)
Fairness ==
  /\ \A c \in Client : WF_vars(SessionStep(c))
  /\ WF_vars(\E c \in Client : AcceptConnection(c))
  /\ WF_vars(HandlerStep)
  /\ WF_vars(AnswerRequest)
  /\ WF_vars(MainStep)

Spec == Init /\ [][Next]_vars /\ Fairness

-----------------------------------------------------------------------------
(* Threads the handler has counted: all but the one it has just started.   *)
Counted == IF handler = "spawned" THEN Live \ {peer} ELSE Live

(* m_threadCount tells the number of sessions, up to the garbage it began  *)
(* with, and never wraps around: however fast a session ends, it is        *)
(* counted in before it is counted out.                                    *)
CountIsSessions == count = firstCount + Cardinality(Counted)

(* Never more than MAX_THREADS sessions, although the handler decides      *)
(* without the mutex, while sessions end.                                  *)
SessionsBounded == Cardinality(Live) <= MAX_THREADS

(* Who has sent its line is answered and gives its place back, while the   *)
(* server is not told to stop.                                             *)
ServedToTheEnd ==
  \A c \in Client : (session[c] = "await") ~> (session[c] = "done" \/ ~running)
=============================================================================
