------------------------------- MODULE Session -------------------------------
(***************************************************************************)
(* Worker sessions: how a worker's client connects, registers, loses its   *)
(* socket and reconnects, and what the coordinator's registry makes of it. *)
(* A node is one worker; each connection it makes is a new member of       *)
(* Conns, with one end at the worker and one at the coordinator.           *)
(*                                                                         *)
(* The ends close independently: a link may break without either noticing, *)
(* and a close event of the coordinator may come long after the worker     *)
(* has reconnected.  Tasks appear only as the sessions they were sent on.  *)
(***************************************************************************)
EXTENDS Integers, FiniteSets

CONSTANTS
  Nodes, Conns, None,
  Admitted,          \* nodes whose protocol version and join token are accepted
  MaxTroubles        \* bound: broken links and worker-side losses of a socket

ASSUME SessionAssumption ==
  /\ None \notin Nodes \cup Conns
  /\ Admitted \subseteq Nodes /\ MaxTroubles \in Nat

VARIABLES
  registry,          \* DeviceRegistry.nodes: the session of each node
  nodeOf,            \* the nodeId captured by a connection's handlers
  server,            \* the coordinator's end of each connection
  held,              \* sessions over which a node's unfinished tasks were sent
  client,            \* the worker's end of each connection
  owner,             \* the worker that made the connection
  socket,            \* WorkerClient.socket
  building,          \* open handlers that wait for buildProfile
  timer, stopped,    \* WorkerClient.reconnectTimer # null, WorkerClient.stopped
  registers,         \* register messages on their way to the coordinator
  broken,            \* connections whose link no longer carries anything
  troubles

coordinatorVars == <<registry, nodeOf, server, held>>
workerVars == <<client, owner, socket, building, timer, stopped>>
vars == <<coordinatorVars, workerVars, registers, broken, troubles>>

-----------------------------------------------------------------------------
(* The worker: WorkerClient.                                                 *)

\* connect, called by start or by the reconnect timer, up to the open event.  An
\* attempt that fails sets the timer again and changes nothing else.
MayConnect_Untimed(n) == ~stopped[n]
MayConnect(n) == timer[n] /\ ~stopped[n]
Connect(n, c) ==
  /\ MayConnect(n) /\ client[c] = "unused"
  /\ client' = [client EXCEPT ![c] = "open"]
  /\ server' = [server EXCEPT ![c] = "open"]
  /\ owner' = [owner EXCEPT ![c] = n] /\ socket' = [socket EXCEPT ![n] = c]
  /\ timer' = [timer EXCEPT ![n] = FALSE]
  /\ building' = [building EXCEPT ![n] = @ + 1]
  /\ UNCHANGED <<registry, nodeOf, held, stopped, registers, broken,
                 troubles>>

\* The open handler resumes after buildProfile and registers over the socket of
\* that moment, which need not be the one that opened.
Built(n) == building[n] > 0
SendRegister(n) ==
  /\ Built(n) /\ building' = [building EXCEPT ![n] = @ - 1]
  /\ LET c == socket[n]
     IN registers' = IF c # None /\ client[c] = "open"
                       THEN [registers EXCEPT ![c] = @ + 1] ELSE registers
  /\ UNCHANGED <<coordinatorVars, client, owner, socket, timer, stopped, broken, troubles>>

\* The close event of the worker's socket; scheduleReconnect keeps one timer.
Reconnecting_Never(n) == timer
Reconnecting(n) == [timer EXCEPT ![n] = TRUE]
SocketCloses(n) ==
  /\ socket[n] # None /\ client[socket[n]] = "open"
  /\ client' = [client EXCEPT ![socket[n]] = "closed"]
  /\ timer' = Reconnecting(n)
  /\ UNCHANGED <<coordinatorVars, owner, socket, building, stopped, registers, broken>>

\* The worker loses its socket on its own (sleep, change of network) ...
LoseSocket(n) ==
  SocketCloses(n) /\ troubles < MaxTroubles /\ troubles' = troubles + 1
\* ... or sees that the coordinator has closed it or that the link is dead.
NoticeClose(n) ==
  /\ SocketCloses(n) /\ UNCHANGED troubles
  /\ server[socket[n]] # "open" \/ socket[n] \in broken

Stop(n) ==
  /\ ~stopped[n] /\ stopped' = [stopped EXCEPT ![n] = TRUE]
  /\ timer' = [timer EXCEPT ![n] = FALSE]
  /\ client' = IF socket[n] = None THEN client ELSE [client EXCEPT ![socket[n]] = "closed"]
  /\ socket' = [socket EXCEPT ![n] = None]
  /\ UNCHANGED <<coordinatorVars, owner, building, registers, broken, troubles>>

BreakLink(c) ==
  /\ client[c] = "open" /\ c \notin broken /\ troubles < MaxTroubles
  /\ broken' = broken \cup {c} /\ troubles' = troubles + 1
  /\ UNCHANGED <<coordinatorVars, workerVars, registers>>

-----------------------------------------------------------------------------
(* The coordinator: the connection handlers, registry.add and remove.        *)

\* registry.add closes the socket of the session it replaces, which is the
\* connection itself when a worker registers twice over it.
Replaced(n) ==
  LET c == registry[n]
  IN IF c # None /\ server[c] = "open" THEN [server EXCEPT ![c] = "closing"] ELSE server

OnRegister(c) ==
  /\ registers[c] > 0 /\ server[c] \in {"open", "closing"} /\ c \notin broken
  /\ registers' = [registers EXCEPT ![c] = @ - 1]
  /\ LET n == owner[c]
     IN IF n \in Admitted
          THEN /\ nodeOf' = [nodeOf EXCEPT ![c] = n]
               /\ server' = Replaced(n)
               /\ registry' = [registry EXCEPT ![n] = c]
          ELSE /\ server' = [server EXCEPT ![c] = "closing"]
               /\ UNCHANGED <<nodeOf, registry>>
  /\ UNCHANGED <<held, workerVars, broken, troubles>>

\* drop: the session's node leaves the registry and jobs.onNodeLost takes back
\* its tasks.
Forgotten_NotReclaimed(n) == held
Forgotten(n) == [held EXCEPT ![n] = {}]
Drop_KeepsEntry(c) ==
  LET n == nodeOf[c]
  IN IF n = None THEN UNCHANGED <<registry, nodeOf, held>>
     ELSE /\ held' = Forgotten(n)
          /\ nodeOf' = [nodeOf EXCEPT ![c] = None]
          /\ UNCHANGED <<registry>>
Drop(c) ==
  LET n == nodeOf[c]
  IN IF n = None THEN UNCHANGED <<registry, nodeOf, held>>
     ELSE /\ registry' = [registry EXCEPT ![n] = None]
          /\ held' = Forgotten(n)
          /\ nodeOf' = [nodeOf EXCEPT ![c] = None]

\* The close event: of a socket the coordinator closed or terminated, or of one
\* whose peer is known to be gone.
CloseEvent(c) ==
  /\ \/ server[c] \in {"closing", "terminated"}
     \/ server[c] = "open" /\ client[c] = "closed" /\ c \notin broken
  /\ server' = [server EXCEPT ![c] = "closed"]
  /\ registers' = [registers EXCEPT ![c] = 0]
  /\ Drop(c)
  /\ UNCHANGED <<workerVars, broken, troubles>>

\* sweepTimer, for a session that no longer sends heartbeats or pongs.
Silent(c) == c \in broken \/ client[c] = "closed"
Sweep(n) ==
  /\ registry[n] # None /\ Silent(registry[n])
  /\ registry' = [registry EXCEPT ![n] = None]
  /\ held' = Forgotten(n)
  /\ server' = [server EXCEPT ![registry[n]] = "terminated"]
  /\ registers' = [registers EXCEPT ![registry[n]] = 0]
  /\ UNCHANGED <<nodeOf, workerVars, broken, troubles>>

\* sendToWorker with a task:assign: only over the registered, open socket.
Assign(n) ==
  /\ registry[n] # None /\ server[registry[n]] = "open"
  /\ held' = [held EXCEPT ![n] = @ \cup {registry[n]}]
  /\ UNCHANGED <<registry, nodeOf, server, workerVars, registers, broken,
                 troubles>>

\* The worker's verdict on a task it got over c, on any session it has by then.
Answer(n, c) ==
  /\ c \in held[n]
  /\ \E d \in Conns : /\ nodeOf[d] = n /\ client[d] = "open" /\ d \notin broken
                      /\ server[d] \in {"open", "closing"}
  /\ held' = [held EXCEPT ![n] = @ \ {c}]
  /\ UNCHANGED <<registry, nodeOf, server, workerVars, registers, broken, troubles>>

-----------------------------------------------------------------------------
Init ==
  /\ registry = [n \in Nodes |-> None] /\ held = [n \in Nodes |-> {}]
  /\ nodeOf = [c \in Conns |-> None] /\ owner = [c \in Conns |-> None]
  /\ server = [c \in Conns |-> "unused"] /\ client = [c \in Conns |-> "unused"]
  /\ socket = [n \in Nodes |-> None] /\ building = [n \in Nodes |-> 0]
  /\ timer = [n \in Nodes |-> TRUE] /\ stopped = [n \in Nodes |-> FALSE]
  /\ registers = [c \in Conns |-> 0] /\ broken = {} /\ troubles = 0

Next ==
  \/ \E n \in Nodes :
       \/ \E c \in Conns : Connect(n, c) \/ Answer(n, c)
       \/ SendRegister(n) \/ LoseSocket(n) \/ NoticeClose(n) \/ Stop(n)
       \/ Sweep(n) \/ Assign(n)
  \/ \E c \in Conns : BreakLink(c) \/ OnRegister(c) \/ CloseEvent(c)

Spec == Init /\ [][Next]_vars

\* The sweep timer runs, and a closed socket reports it.  A worker is free never
\* to reconnect, register or answer.
Fairness ==
  /\ \A n \in Nodes : WF_vars(Sweep(n))
  /\ \A c \in Conns : WF_vars(CloseEvent(c))

FairSpec == Spec /\ Fairness

-----------------------------------------------------------------------------
(* Properties *)

Ends == {"unused", "open", "closing", "terminated", "closed"}

TypeOK ==
  /\ registry \in [Nodes -> Conns \cup {None}]
  /\ nodeOf \in [Conns -> Nodes \cup {None}]
  /\ server \in [Conns -> Ends] /\ client \in [Conns -> {"unused", "open", "closed"}]
  /\ held \in [Nodes -> SUBSET Conns]
  /\ owner \in [Conns -> Nodes \cup {None}]
  /\ socket \in [Nodes -> Conns \cup {None}]
  /\ building \in [Nodes -> Nat] /\ registers \in [Conns -> Nat]
  /\ timer \in [Nodes -> BOOLEAN] /\ stopped \in [Nodes -> BOOLEAN]
  /\ broken \subseteq Conns /\ troubles \in Nat

\* A registered node has a session whose close event is still to come: whatever
\* becomes of its socket, the entry will be removed.
RegistryEntriesEnd ==
  \A n \in Nodes : registry[n] # None =>
    nodeOf[registry[n]] = n /\ server[registry[n]] \in {"open", "closing"}

\* A task counted as held by a node was sent over a session that is still to
\* report its end, so no task waits on a session everybody has forgotten.
HeldTasksHaveSession ==
  \A n \in Nodes : \A c \in held[n] : nodeOf[c] = n /\ server[c] # "closed"

\* A worker that is not stopped is connected or has its reconnect timer set, and
\* never both: it neither gives up nor opens a second socket.
ConnectedOrRetrying ==
  \A n \in Nodes : ~stopped[n] =>
    (timer[n] <=> ~\E c \in Conns : owner[c] = n /\ client[c] = "open")
OneSocket ==
  \A c, d \in Conns : client[c] = "open" /\ client[d] = "open" /\ owner[c] = owner[d] => c = d

\* A task sent over a session the worker has lost is taken back.
OrphanedWorkReclaimed ==
  \A n \in Nodes, c \in Conns :
    c \in held[n] /\ client[c] = "closed" ~> c \notin held[n]

\* A node that has reconnected and registered stays known to the coordinator for
\* as long as its connection lasts.
Up(c) == client[c] = "open" /\ server[c] = "open" /\ c \notin broken
ReconnectedStaysRegistered ==
  [][\A n \in Nodes : registry[n] # None /\ Up(registry[n]) => registry'[n] # None]_vars

-----------------------------------------------------------------------------
(* The inductive invariant of the safety properties: what a connection's     *)
(* handlers captured is its maker, a worker's socket is its only open one,   *)
(* and an unused connection has left no trace.                               *)

HandlersKnowOwner ==
  \A c \in Conns : nodeOf[c] # None =>
    nodeOf[c] = owner[c] /\ server[c] \in {"open", "closing", "terminated"}
OpenIsCurrent ==
  \A c \in Conns : client[c] = "open" =>
    owner[c] # None /\ socket[owner[c]] = c /\ ~timer[owner[c]]
SocketOwned ==
  \A n \in Nodes :
    /\ socket[n] # None => owner[socket[n]] = n
    /\ stopped[n] => socket[n] = None
    /\ ~stopped[n] /\ ~timer[n] => socket[n] # None /\ client[socket[n]] = "open"
UnusedUntouched ==
  \A c \in Conns : client[c] = "unused" =>
    server[c] = "unused" /\ registers[c] = 0 /\ \A n \in Nodes : socket[n] # c

SessionInv ==
  /\ TypeOK /\ RegistryEntriesEnd /\ HeldTasksHaveSession
  /\ HandlersKnowOwner /\ OpenIsCurrent /\ SocketOwned /\ UnusedUntouched

=============================================================================
