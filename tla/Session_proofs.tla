--------------------------- MODULE Session_proofs ---------------------------
(* Proofs about Session, for any nodes and any number of connections. *)
EXTENDS Session, TLAPS

USE SessionAssumption

LEMMA Initially == Init => SessionInv
  BY DEF Init, SessionInv, TypeOK, Ends, RegistryEntriesEnd, HeldTasksHaveSession,
     HandlersKnowOwner, OpenIsCurrent, SocketOwned, UnusedUntouched

-----------------------------------------------------------------------------
(* Each half of the system preserves the invariant.                          *)

LEMMA WorkerSteps ==
  ASSUME SessionInv, NEW n \in Nodes,
         \/ \E c \in Conns : Connect(n, c)
         \/ SendRegister(n) \/ LoseSocket(n) \/ NoticeClose(n) \/ Stop(n)
  PROVE  SessionInv'
<1> USE DEF SessionInv, TypeOK, Ends, coordinatorVars, workerVars
<1>1. ASSUME NEW c \in Conns, Connect(n, c) PROVE SessionInv'
  \* A new connection was unused: nothing in the coordinator refers to it.
  <2> USE <1>1 DEF Connect, MayConnect
  <2>1. TypeOK'
    OBVIOUS
  <2>2. nodeOf[c] = None
    BY DEF HandlersKnowOwner, UnusedUntouched
  <2>3. RegistryEntriesEnd' /\ HeldTasksHaveSession' /\ HandlersKnowOwner'
    BY <2>2 DEF RegistryEntriesEnd, HeldTasksHaveSession, HandlersKnowOwner
  <2>4. OpenIsCurrent'
    BY DEF OpenIsCurrent, SocketOwned, UnusedUntouched
  <2>5. SocketOwned'
    BY DEF SocketOwned, UnusedUntouched, OpenIsCurrent
  <2>6. UnusedUntouched'
    BY DEF UnusedUntouched
  <2> QED BY <2>1, <2>3, <2>4, <2>5, <2>6
<1>2. CASE SendRegister(n)
  <2> USE <1>2 DEF SendRegister, Built
  <2>1. TypeOK'
    OBVIOUS
  <2>2. UnusedUntouched'
    BY DEF UnusedUntouched
  <2> QED BY <2>1, <2>2 DEF RegistryEntriesEnd, HeldTasksHaveSession, HandlersKnowOwner,
             OpenIsCurrent, SocketOwned
<1>3. ASSUME SocketCloses(n), UNCHANGED <<registers, broken>>, troubles' \in Nat
      PROVE  SessionInv'
  <2> USE <1>3 DEF SocketCloses, Reconnecting
  <2>1. TypeOK'
    OBVIOUS
  <2>2. RegistryEntriesEnd' /\ HeldTasksHaveSession' /\ HandlersKnowOwner'
    BY DEF RegistryEntriesEnd, HeldTasksHaveSession, HandlersKnowOwner
  <2>3. OpenIsCurrent'
    BY DEF OpenIsCurrent, SocketOwned
  <2>4. SocketOwned' /\ UnusedUntouched'
    BY DEF SocketOwned, UnusedUntouched
  <2> QED BY <2>1, <2>2, <2>3, <2>4
<1>4. CASE LoseSocket(n)
  BY <1>3, <1>4 DEF LoseSocket, SocketCloses
<1>5. CASE NoticeClose(n)
  BY <1>3, <1>5 DEF NoticeClose, SocketCloses
<1>6. CASE Stop(n)
  <2> USE <1>6 DEF Stop
  <2>1. TypeOK'
    OBVIOUS
  <2>2. RegistryEntriesEnd' /\ HeldTasksHaveSession' /\ HandlersKnowOwner'
    BY DEF RegistryEntriesEnd, HeldTasksHaveSession, HandlersKnowOwner
  <2>3. OpenIsCurrent'
    BY DEF OpenIsCurrent, SocketOwned
  <2>4. SocketOwned' /\ UnusedUntouched'
    BY DEF SocketOwned, UnusedUntouched
  <2> QED BY <2>1, <2>2, <2>3, <2>4
<1> QED BY <1>1, <1>2, <1>4, <1>5, <1>6

LEMMA CoordinatorSteps ==
  ASSUME SessionInv,
         \/ \E n \in Nodes : Sweep(n) \/ Assign(n) \/ \E c \in Conns : Answer(n, c)
         \/ \E c \in Conns : OnRegister(c) \/ CloseEvent(c)
  PROVE  SessionInv'
<1> USE DEF SessionInv, TypeOK, Ends, workerVars
<1>1. ASSUME NEW c \in Conns, OnRegister(c) PROVE SessionInv'
  <2> USE <1>1 DEF OnRegister
  <2>1. CASE owner[c] \in Admitted
    <3> DEFINE n == owner[c]
    <3>1. n \in Nodes /\ n # None
      BY <2>1
    <3>2. /\ server' \in [Conns -> Ends]
          /\ \A d \in Conns : server[d] \in {"open", "closing"} => server'[d] \in {"open", "closing"}
          /\ \A d \in Conns : server[d] \notin {"open", "closing"} => server'[d] = server[d]
      BY <2>1 DEF Replaced
    <3>3. TypeOK'
      BY <2>1, <3>1, <3>2
    \* registry.add replaces the entry of n alone, by a socket that is not closed.
    <3>4. RegistryEntriesEnd'
      BY <2>1, <3>1, <3>2 DEF RegistryEntriesEnd, HandlersKnowOwner
    <3>5. HandlersKnowOwner'
      BY <2>1, <3>1, <3>2 DEF HandlersKnowOwner
    <3>6. HeldTasksHaveSession'
      <4> SUFFICES ASSUME NEW m \in Nodes, NEW d \in held[m]
                   PROVE  nodeOf'[d] = m /\ server'[d] # "closed"
        BY DEF HeldTasksHaveSession
      <4>1. nodeOf[d] = m /\ server[d] # "closed" /\ owner[d] = m /\ d \in Conns
        BY DEF HeldTasksHaveSession, HandlersKnowOwner
      <4> QED BY <2>1, <3>2, <4>1
    <3>7. UnusedUntouched' /\ OpenIsCurrent' /\ SocketOwned'
      BY <3>2 DEF UnusedUntouched, OpenIsCurrent, SocketOwned
    <3> QED BY <3>3, <3>4, <3>5, <3>6, <3>7
  <2>2. CASE owner[c] \notin Admitted
    <3>1. TypeOK'
      BY <2>2
    <3>2. RegistryEntriesEnd' /\ HeldTasksHaveSession' /\ HandlersKnowOwner'
      BY <2>2 DEF RegistryEntriesEnd, HeldTasksHaveSession, HandlersKnowOwner
    <3>3. UnusedUntouched' /\ OpenIsCurrent' /\ SocketOwned'
      BY <2>2 DEF UnusedUntouched, OpenIsCurrent, SocketOwned
    <3> QED BY <3>1, <3>2, <3>3
  <2> QED BY <2>1, <2>2
<1>2. ASSUME NEW c \in Conns, CloseEvent(c) PROVE SessionInv'
  <2> USE <1>2 DEF CloseEvent, Drop, Forgotten
  <2>1. TypeOK'
    OBVIOUS
  \* The registry and the ledger forget the node whose handlers forget it.
  <2>2. RegistryEntriesEnd'
    BY DEF RegistryEntriesEnd
  <2>3. HeldTasksHaveSession'
    <3> SUFFICES ASSUME NEW m \in Nodes, NEW d \in held'[m]
                 PROVE  nodeOf'[d] = m /\ server'[d] # "closed"
      BY DEF HeldTasksHaveSession
    <3>1. d \in held[m] /\ d \in Conns
      BY <2>1
    <3>2. nodeOf[d] = m /\ server[d] # "closed"
      BY <3>1 DEF HeldTasksHaveSession
    <3>3. d # c
      BY <3>2
    <3> QED BY <3>2, <3>3
  <2>4. HandlersKnowOwner'
    BY DEF HandlersKnowOwner
  <2>5. UnusedUntouched' /\ OpenIsCurrent' /\ SocketOwned'
    BY DEF UnusedUntouched, OpenIsCurrent, SocketOwned
  <2> QED BY <2>1, <2>2, <2>3, <2>4, <2>5
<1>3. ASSUME NEW n \in Nodes, Sweep(n) PROVE SessionInv'
  <2> USE <1>3 DEF Sweep, Forgotten
  <2>1. TypeOK'
    OBVIOUS
  <2>2. /\ registry[n] \in Conns /\ nodeOf[registry[n]] = n
        /\ server[registry[n]] \in {"open", "closing"}
    BY DEF RegistryEntriesEnd
  <2>3. RegistryEntriesEnd'
    BY <2>2 DEF RegistryEntriesEnd
  <2>4. HandlersKnowOwner'
    BY <2>2 DEF HandlersKnowOwner
  <2>5. HeldTasksHaveSession'
    BY <2>2 DEF HeldTasksHaveSession
  <2>6. UnusedUntouched'
    BY <2>2 DEF UnusedUntouched
  <2>7. OpenIsCurrent' /\ SocketOwned'
    BY DEF OpenIsCurrent, SocketOwned
  <2> QED BY <2>1, <2>3, <2>4, <2>5, <2>6, <2>7
<1>4. ASSUME NEW n \in Nodes, Assign(n) PROVE SessionInv'
  BY <1>4 DEF Assign, RegistryEntriesEnd, HeldTasksHaveSession, HandlersKnowOwner,
     UnusedUntouched, OpenIsCurrent, SocketOwned
<1>5. ASSUME NEW n \in Nodes, NEW c \in Conns, Answer(n, c) PROVE SessionInv'
  BY <1>5 DEF Answer, RegistryEntriesEnd, HeldTasksHaveSession, HandlersKnowOwner,
     UnusedUntouched, OpenIsCurrent, SocketOwned
<1> QED BY <1>1, <1>2, <1>3, <1>4, <1>5

LEMMA Inductive == SessionInv /\ [Next]_vars => SessionInv'
<1> SUFFICES ASSUME SessionInv, [Next]_vars PROVE SessionInv'
  OBVIOUS
<1>1. ASSUME NEW c \in Conns, BreakLink(c) PROVE SessionInv'
  BY <1>1 DEF BreakLink, coordinatorVars, workerVars, SessionInv, TypeOK, Ends,
     RegistryEntriesEnd, HeldTasksHaveSession, HandlersKnowOwner, UnusedUntouched,
     OpenIsCurrent, SocketOwned
<1>2. CASE UNCHANGED vars
  BY <1>2 DEF vars, coordinatorVars, workerVars, SessionInv, TypeOK, Ends,
     RegistryEntriesEnd, HeldTasksHaveSession, HandlersKnowOwner, UnusedUntouched,
     OpenIsCurrent, SocketOwned
<1> QED BY <1>1, <1>2, WorkerSteps, CoordinatorSteps DEF Next

\* The registry, the handlers of each connection and the workers agree.
THEOREM Invariance == Spec => []SessionInv
BY Initially, Inductive, PTL DEF Spec

-----------------------------------------------------------------------------
(* What the invariant gives.                                                 *)

\* No entry of the registry outlives the end of its session.
THEOREM EntriesEnd == Spec => []RegistryEntriesEnd
<1>1. SessionInv => RegistryEntriesEnd
  BY DEF SessionInv
<1> QED BY Invariance, <1>1, PTL

\* No task waits on a session whose end has already been reported.
THEOREM TasksHaveSession == Spec => []HeldTasksHaveSession
<1>1. SessionInv => HeldTasksHaveSession
  BY DEF SessionInv
<1> QED BY Invariance, <1>1, PTL

\* A worker never has two open sockets, however its timer, its open handlers and
\* its close events interleave.
THEOREM AtMostOneSocket == Spec => []OneSocket
<1>1. SessionInv => OneSocket
  BY DEF SessionInv, OpenIsCurrent, OneSocket
<1> QED BY Invariance, <1>1, PTL

\* A worker that is not stopped is connected or retrying, and never both.
THEOREM NeverGivesUp == Spec => []ConnectedOrRetrying
<1>1. SessionInv => ConnectedOrRetrying
  <2> SUFFICES ASSUME SessionInv, NEW n \in Nodes, ~stopped[n]
               PROVE  timer[n] <=> ~\E c \in Conns : owner[c] = n /\ client[c] = "open"
    BY DEF ConnectedOrRetrying
  <2>1. timer[n] \in BOOLEAN
    BY DEF SessionInv, TypeOK
  <2>2. ASSUME ~timer[n] PROVE \E c \in Conns : owner[c] = n /\ client[c] = "open"
    BY <2>2 DEF SessionInv, SocketOwned, TypeOK
  <2>3. ASSUME NEW c \in Conns, owner[c] = n, client[c] = "open" PROVE ~timer[n]
    BY <2>3 DEF SessionInv, OpenIsCurrent
  <2> QED BY <2>1, <2>2, <2>3
<1> QED BY Invariance, <1>1, PTL

=============================================================================
