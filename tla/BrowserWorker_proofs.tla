-------------------------- MODULE BrowserWorker_proofs --------------------------
(***************************************************************************)
(* For any number of sockets, models and runs, whatever breaks and whatever *)
(* the owner does: a contributing tab has one socket, or is about to have  *)
(* one, until start() is called over a socket that has yet to close; the   *)
(* page reports the models its engine holds; and the two threads agree on  *)
(* the tasks that are between them.                                        *)
(***************************************************************************)
EXTENDS BrowserWorker, SequenceTheorems, TLAPS

States == {"none", "connecting", "open", "asking", "registered", "closing", "closed"}

\* A socket that the page has replaced is closed, or closing when it is off:
\* that is what makes a retry the only way to another socket.  Once it is off
\* the page has forgotten its socket, so none registers any more.
Flags ==
  /\ paused \in BOOLEAN /\ heartbeat \in BOOLEAN
  /\ retry \in BOOLEAN /\ overlapped \in BOOLEAN
SocketTypes ==
  /\ sock \in [Sockets -> States] /\ current \in 0..MaxSockets
  /\ Flags
Replaced == {"none", "closed"} \cup (IF paused THEN {"closing"} ELSE {})
SocketInv ==
  /\ SocketTypes
  /\ overlapped \/ \A s \in Sockets \ {current} : sock[s] \in Replaced
  /\ overlapped \/ (retry => sock[current] = "closed")
  /\ paused => current = 0 /\ ~retry /\ (overlapped \/ ~heartbeat)
  /\ ~paused => current # 0 /\ (Up(current) \/ sock[current] = "closing" \/ retry)

LEMMA SocketInvSuffices == SocketInv => OneSocketOrRetry
BY DEF SocketInv, SocketTypes, Flags, OneSocketOrRetry, Up, Sockets, Replaced, States

LEMMA SocketInit == Init => SocketInv
<1>1. MaxSockets \in Nat
  BY BrowserAssumption
<1> SUFFICES ASSUME Init PROVE SocketInv
  OBVIOUS
<1>2. paused = TRUE /\ current = 0 /\ heartbeat = FALSE /\ retry = FALSE /\ overlapped = FALSE
  BY DEF Init
<1>3. sock = [s \in Sockets |-> "none"]
  BY DEF Init
<1>4. SocketTypes
  <2>1. Flags
    BY <1>2, Zenon DEF Flags
  <2>2. sock \in [Sockets -> States] /\ current \in 0..MaxSockets
    BY <1>1, <1>2, <1>3 DEF States
  <2> QED BY <2>1, <2>2 DEF SocketTypes
<1>5. \A s \in Sockets \ {current} : sock[s] \in Replaced
  BY <1>3 DEF Replaced
<1> QED BY <1>2, <1>4, <1>5 DEF SocketInv

\* A start: a new socket, which overlaps unless the tab was off and all its sockets closed.
LEMMA BeginKeeps ==
  ASSUME SocketTypes, NEW m, NEW posted, NEW on \in BOOLEAN,
         NEW from \in [Sockets -> States],
         Begin(m, on, from, posted), retry' \in BOOLEAN, heartbeat' \in BOOLEAN,
         overlapped \/ on \/ ~retry'
  PROVE  SocketInv'
<1>1. PICK s \in Sockets : /\ from[s] = "none"
                           /\ sock' = [from EXCEPT ![s] = "connecting"] /\ current' = s
  BY DEF Begin, Connect
<1>2. paused' = FALSE
      /\ overlapped' = (overlapped \/ on \/ \E t \in Sockets : from[t] \notin {"none", "closed"})
  BY DEF Begin
<1>3. SocketTypes'
  <2>1. sock' \in [Sockets -> States] /\ current' \in 0..MaxSockets
    BY <1>1 DEF Sockets, States
  <2>2. overlapped' \in BOOLEAN
    BY <1>2
  <2>3. Flags'
    BY <1>2, <2>2, Zenon DEF Flags
  <2> QED BY <2>1, <2>3 DEF SocketTypes
<1>4. sock'[s] = "connecting" /\ \A t \in Sockets \ {s} : sock'[t] = from[t]
  BY <1>1
<1>5. overlapped' \/ ((\A t \in Sockets : from[t] \in {"none", "closed"}) /\ ~retry')
  BY <1>2
<1>6. current' # 0
  BY <1>1 DEF Sockets
<1> QED BY <1>1, <1>2, <1>3, <1>4, <1>5, <1>6 DEF SocketInv, Up, Replaced

LEMMA ClosingTyped ==
  ASSUME SocketTypes
  PROVE  /\ Closing \in [Sockets -> States]
         /\ \A s \in Sockets : Closing[s] = IF s = current /\ Up(s) THEN "closing" ELSE sock[s]
BY DEF SocketTypes, Closing, Sockets, States

LEMMA SocketNext == SocketInv /\ [Next]_vars => SocketInv'
<1> SUFFICES ASSUME SocketInv, [Next]_vars PROVE SocketInv'
  OBVIOUS
<1> USE DEF SocketInv
<1>1. ASSUME UNCHANGED <<sock, current, heartbeat, retry, overlapped, paused>> PROVE SocketInv'
  BY <1>1 DEF SocketTypes, Flags, Up, Replaced
<1>2. ASSUME NEW s \in Sockets, Open(s) PROVE SocketInv'
  BY <1>2 DEF Open, ownerVars, SocketTypes, Flags, Up, Replaced, Sockets, States
<1>3. ASSUME NEW s \in Sockets, Registered(s) PROVE SocketInv'
  <2>1. sock[s] = "asking" /\ heartbeat' = TRUE
        /\ UNCHANGED <<paused, current, retry, overlapped>>
    BY <1>3 DEF Registered, ownerVars
  <2>2. sock' = [t \in Sockets |-> IF t = s THEN "registered"
                                   ELSE IF sock[t] = "registered" THEN "closing" ELSE sock[t]]
    BY <1>3 DEF Registered
  <2>3. overlapped \/ s = current
    BY <2>1 DEF Replaced
  <2>4. paused => overlapped
    BY <2>3 DEF Sockets
  <2> QED BY <2>1, <2>2, <2>3, <2>4 DEF SocketTypes, Flags, Up, Replaced, Sockets, States
<1>4. ASSUME NEW s \in Sockets, Break(s) PROVE SocketInv'
  BY <1>4 DEF Break, Trouble, ownerVars, SocketTypes, Flags, Up, Replaced, Sockets, States
<1>5. ASSUME NEW s \in Sockets, CloseEvent(s) PROVE SocketInv'
  BY <1>5 DEF CloseEvent, Rescheduled, ownerVars, SocketTypes, Flags, Up, Replaced, Sockets, States
<1>6. CASE RetryFires
  <2>1. PICK s \in Sockets : /\ sock[s] = "none"
                             /\ sock' = [sock EXCEPT ![s] = "connecting"] /\ current' = s
    BY <1>6 DEF RetryFires, Connect
  <2>2. retry' = FALSE /\ retry /\ UNCHANGED <<paused, heartbeat, overlapped>>
    BY <1>6 DEF RetryFires, ownerVars
  <2>3. SocketTypes'
    <3>1. Flags'
      BY <2>2, Zenon DEF SocketTypes, Flags
    <3>2. sock' \in [Sockets -> States] /\ current' \in 0..MaxSockets
      BY <2>1 DEF SocketTypes, Sockets, States
    <3> QED BY <3>1, <3>2 DEF SocketTypes
  <2>4. ~paused /\ (overlapped \/ \A t \in Sockets : sock[t] \in {"none", "closed"})
    BY <2>2 DEF Replaced
  <2>5. sock'[s] = "connecting" /\ \A t \in Sockets \ {s} : sock'[t] = sock[t]
    BY <2>1 DEF SocketTypes
  <2>6. current' # 0
    BY <2>1 DEF Sockets
  <2>7. overlapped' \/ \A t \in Sockets \ {current'} : sock'[t] \in Replaced'
    BY <2>1, <2>2, <2>4, <2>5 DEF Replaced
  <2>8. paused' = FALSE /\ Up(current)'
    BY <2>1, <2>2, <2>4, <2>5 DEF Up, SocketTypes
  <2> QED BY <2>2, <2>3, <2>6, <2>7, <2>8 DEF Sockets
<1>7. ASSUME NEW i, Probed(i) PROVE SocketInv'
  <2>1. Begin(starts[i], ~paused, sock, toEngine) /\ UNCHANGED <<heartbeat, retry>>
    BY <1>7 DEF Probed
  <2> QED BY <2>1, BeginKeeps DEF SocketTypes, Flags
<1>8. ASSUME NEW m, ToggleOn(m) PROVE SocketInv'
  <2>1. CASE probed
    <3>1. paused /\ Begin(m, FALSE, sock, toEngine) /\ UNCHANGED <<heartbeat, retry>>
      BY <1>8, <2>1 DEF ToggleOn
    <3> QED BY <3>1, BeginKeeps DEF SocketTypes, Flags
  <2>2. CASE ~probed
    BY <1>1, <1>8, <2>2 DEF ToggleOn
  <2> QED BY <2>1, <2>2
<1>9. ASSUME Stop, paused' = TRUE, sock' = Closing, current' = 0, UNCHANGED overlapped
      PROVE  SocketInv'
  <2>1. heartbeat' = FALSE /\ retry' = FALSE
    BY <1>9 DEF Stop, RetryAfterStop
  <2>2. \A s \in Sockets : sock'[s] = IF s = current /\ Up(s) THEN "closing" ELSE sock[s]
    BY <1>9, ClosingTyped
  <2>3. overlapped \/ \A s \in Sockets : sock'[s] \in {"none", "closed", "closing"}
    BY <2>2 DEF Replaced, SocketTypes, Flags, Up, States
  <2>4. SocketTypes'
    <3>1. Flags'
      BY <1>9, <2>1, Zenon DEF SocketTypes, Flags
    <3>2. sock' \in [Sockets -> States] /\ current' \in 0..MaxSockets
      BY <1>9, ClosingTyped, BrowserAssumption
    <3> QED BY <3>1, <3>2 DEF SocketTypes
  <2>5. overlapped' \/ \A s \in Sockets : sock'[s] \in Replaced'
    BY <1>9, <2>3 DEF Replaced
  <2> QED BY <1>9, <2>1, <2>4, <2>5 DEF Sockets
<1>10. CASE ToggleOff
  BY <1>9, <1>10 DEF ToggleOff
<1>11. ASSUME NEW m, ChangeModel(m) PROVE SocketInv'
  <2>1. CASE probed
    <3>1. Begin(m, FALSE, Closing, <<>>) /\ heartbeat' = FALSE /\ retry' = FALSE
      BY <1>11, <2>1 DEF ChangeModel, Stop, RetryAfterStop
    <3> QED BY <3>1, BeginKeeps, ClosingTyped
  <2>2. CASE ~probed
    BY <1>9, <1>11, <2>2 DEF ChangeModel
  <2> QED BY <2>1, <2>2
<1>12. ASSUME NEW r, Decline(r) \/ HandleAssignment(r) \/ GenerationEnds(r) PROVE SocketInv'
  BY <1>1, <1>12 DEF Decline, HandleAssignment, GenerationEnds, ownerVars, netVars
<1>13. CASE CancelTask \/ EngineTakes \/ OnEngineMessage
  BY <1>1, <1>13 DEF CancelTask, EngineTakes, OnEngineMessage, ownerVars, netVars
<1>14. ASSUME NEW m, PrepareModel(m) PROVE SocketInv'
  BY <1>1, <1>14 DEF PrepareModel, ownerVars, netVars
<1>15. ASSUME NEW i, Unloaded(i) \/ Created(i) \/ LoadFails(i) PROVE SocketInv'
  BY <1>1, <1>15 DEF Unloaded, Created, LoadFails, ownerVars, netVars
<1>16. CASE UNCHANGED vars
  BY <1>1, <1>16 DEF vars, ownerVars, netVars
<1> HIDE DEF SocketInv
<1> QED BY <1>2, <1>3, <1>4, <1>5, <1>6, <1>7, <1>8, <1>10, <1>11, <1>12, <1>13, <1>14, <1>15, <1>16
        DEF Next, Network, Owner, Coordinator, Engine

\* While it is on, a tab has a socket, or one that is about to report its close,
\* or its reconnect timer; when it is off it has neither (contributor.ts connect,
\* scheduleReconnect, stop).
THEOREM SocketOrRetry == Spec => []OneSocketOrRetry
BY SocketInit, SocketNext, SocketInvSuffices, PTL DEF Spec

-----------------------------------------------------------------------------
(* The messages of the two threads. *)

ToEngine == [type : {"load"}, model : Models] \cup [type : {"generate"}, run : Runs] \cup [type : {"cancel"}]
ToPage == [type : {"loaded"}, model : Models] \cup [type : {"done"}, run : Runs]
            \cup [type : {"error"}, run : Runs \cup {None}]
Suspended == [model : Models, at : {"creating", "unloading"}]
Outcomes == {"unused", "rejected", "running", "completed", "failed", "cancelled", "stopped"}
\* What the two threads keep and post each other.
Threads ==
  /\ TypeOK
  /\ status \in [Runs -> Outcomes]
  /\ toEngine \in Seq(ToEngine) /\ toPage \in Seq(ToPage) /\ loads \in Seq(Suspended)

\* loadModel posts a load, or nothing.
LEMMA PostsLoad ==
  ASSUME NEW m \in Models, NEW q \in Seq(ToEngine), NEW p \in LoadModel(m, q)
  PROVE  p \in Seq(ToEngine)
<1>1. [type |-> "load", model |-> m] \in ToEngine
  BY DEF ToEngine
<1>2. p = q \/ p = Append(q, [type |-> "load", model |-> m])
  BY DEF LoadModel
<1> QED BY <1>1, <1>2

\* RemoveAt takes an element out of a sequence and brings none in.
LEMMA RemoveAtTyped ==
  ASSUME NEW S, NEW q \in Seq(S), NEW i \in DOMAIN q
  PROVE  RemoveAt(q, i) \in Seq(S)
BY DEF RemoveAt

LEMMA SaysTyped ==
  ASSUME Threads, NEW m \in ToPage, Says(m) PROVE toPage' \in Seq(ToPage)
BY DEF Threads, Says

LEMMA Answers ==
  /\ \A r \in Runs \cup {None} : Failure(r) \in ToPage
  /\ \A r \in Runs : [type |-> "done", run |-> r] \in ToPage
  /\ \A m \in Models : [type |-> "loaded", model |-> m] \in ToPage
BY DEF Failure, ToPage

LEMMA Suspends ==
  ASSUME NEW m \in Models
  PROVE  Load(m, IF resident = None THEN "creating" ELSE "unloading") \in Suspended
<1>1. \A at \in {"creating", "unloading"} : Load(m, at) \in Suspended
  BY DEF Load, Suspended
<1> QED BY <1>1

LEMMA ThreadsInit == Init => Threads
<1> SUFFICES ASSUME Init PROVE Threads
  OBVIOUS
<1> QED BY BrowserAssumption DEF Init, Threads, TypeOK, Outcomes

LEMMA ThreadsNext == Threads /\ [Next]_vars => Threads'
<1> SUFFICES ASSUME Threads, [Next]_vars PROVE Threads'
  OBVIOUS
<1> USE DEF Threads, TypeOK
<1>1. ASSUME NEW s \in Sockets, Open(s) \/ Registered(s) \/ Break(s) \/ CloseEvent(s) PROVE Threads'
  BY <1>1 DEF Open, Registered, Break, CloseEvent, ownerVars, pageVars, engineVars
<1>2. CASE RetryFires
  BY <1>2 DEF RetryFires, Connect, Sockets, ownerVars, pageVars, engineVars
<1>3. ASSUME NEW m \in Models, NEW on, NEW from, NEW q \in Seq(ToEngine), Begin(m, on, from, q)
      PROVE  toEngine' \in Seq(ToEngine) /\ current' \in 0..MaxSockets
  <2>1. toEngine' = q \/ toEngine' \in LoadModel(m, q)
    BY <1>3 DEF Begin
  <2>2. toEngine' \in Seq(ToEngine)
    BY <1>3, <2>1, PostsLoad
  <2>3. current' \in 0..MaxSockets
    BY <1>3 DEF Begin, Connect, Sockets
  <2> QED BY <2>2, <2>3
<1>4. ASSUME Stop PROVE /\ loadedModels' \in SUBSET Models /\ runningTask' = None /\ resident' = None
                        /\ gens' = {} /\ toPage' = <<>> /\ loads' = <<>> /\ status' \in [Runs -> Outcomes]
  BY <1>4 DEF Stop, Outcomes
<1>5. ASSUME NEW i, Probed(i) PROVE Threads'
  <2>1. starts[i] \in Models /\ starts' \in Seq(Models)
    BY <1>5, RemoveAtTyped DEF Probed
  <2> QED BY <1>3, <1>5, <2>1 DEF Probed, pageVars, engineVars
<1>6. ASSUME NEW m \in Models, ToggleOn(m) PROVE Threads'
  <2>1. toEngine' \in Seq(ToEngine) /\ current' \in 0..MaxSockets /\ starts' \in Seq(Models)
    <3>1. CASE probed
      <4>1. Begin(m, FALSE, sock, toEngine) /\ starts' = starts
        BY <1>6, <3>1 DEF ToggleOn
      <4> QED BY <1>3, <4>1
    <3>2. CASE ~probed
      <4>1. starts' = Append(starts, m) /\ toEngine' = toEngine /\ current' = current
        BY <1>6, <3>2 DEF ToggleOn
      <4> QED BY <4>1
    <3> QED BY <3>1, <3>2
  <2> QED BY <1>6, <2>1 DEF ToggleOn, pageVars, engineVars
<1>7. CASE ToggleOff
  BY <1>4, <1>7, BrowserAssumption DEF ToggleOff
<1>8. ASSUME NEW m \in Models, ChangeModel(m) PROVE Threads'
  <2>1. <<>> \in Seq(ToEngine) /\ 0 \in 0..MaxSockets
    BY BrowserAssumption
  <2>2. toEngine' \in Seq(ToEngine) /\ current' \in 0..MaxSockets /\ starts' \in Seq(Models)
    <3>1. CASE probed
      <4>1. Begin(m, FALSE, Closing, <<>>) /\ starts' = starts
        BY <1>8, <3>1 DEF ChangeModel
      <4> QED BY <1>3, <2>1, <4>1
    <3>2. CASE ~probed
      <4>1. starts' = Append(starts, m) /\ toEngine' = <<>> /\ current' = 0
        BY <1>8, <3>2 DEF ChangeModel
      <4> QED BY <2>1, <4>1
    <3> QED BY <3>1, <3>2
  <2>3. Stop
    BY <1>8 DEF ChangeModel
  <2> QED BY <1>4, <2>2, <2>3
<1>9. ASSUME NEW r \in Runs, Decline(r) PROVE Threads'
  BY <1>9 DEF Decline, Outcomes, ownerVars, netVars, engineVars
<1>10. ASSUME NEW r \in Runs, HandleAssignment(r) PROVE Threads'
  BY <1>10 DEF HandleAssignment, Post, ToEngine, Outcomes, ownerVars, netVars, engineVars
<1>11. CASE CancelTask
  BY <1>11 DEF CancelTask, Post, ToEngine, Outcomes, ownerVars, netVars, engineVars
<1>12. ASSUME NEW m \in Models, PrepareModel(m) PROVE Threads'
  <2>1. toEngine' = toEngine \/ toEngine' \in LoadModel(m, toEngine)
    BY <1>12 DEF PrepareModel
  <2>2. toEngine' \in Seq(ToEngine)
    BY <1>12, <2>1, PostsLoad
  <2> QED BY <1>12, <2>2 DEF PrepareModel, ownerVars, netVars, pageVars, engineVars
<1>13. CASE EngineTakes
  <2> DEFINE m == Head(toEngine)
  <2>1. m \in ToEngine /\ toEngine' \in Seq(ToEngine)
    BY <1>13 DEF EngineTakes
  <2>2. ASSUME m.type = "load", TakeLoad(m.model), UNCHANGED gens
        PROVE  toPage' \in Seq(ToPage) /\ loads' \in Seq(Suspended) /\ gens' \subseteq Runs
    <3>1. m.model \in Models
      BY <2>1, <2>2 DEF ToEngine
    <3>2. toPage' \in Seq(ToPage)
      BY <2>2, <3>1, SaysTyped, Answers DEF TakeLoad
    <3>3. loads' = loads => loads' \in Seq(Suspended)
      OBVIOUS
    <3>4. Append(loads, Load(m.model, IF resident = None THEN "creating" ELSE "unloading"))
            \in Seq(Suspended)
      BY <3>1, Suspends, AppendProperties
    <3> QED BY <2>2, <3>2, <3>3, <3>4 DEF TakeLoad
  <2>3. ASSUME m.type = "generate", TakeGenerate(m.run), UNCHANGED <<loads, troubles>>
        PROVE  toPage' \in Seq(ToPage) /\ loads' \in Seq(Suspended) /\ gens' \subseteq Runs
    <3>1. m.run \in Runs
      BY <2>1, <2>3 DEF ToEngine
    <3> QED BY <2>3, <3>1, SaysTyped, Answers DEF TakeGenerate
  <2>4. toPage' \in Seq(ToPage) /\ loads' \in Seq(Suspended) /\ gens' \subseteq Runs
    BY <1>13, <2>2, <2>3 DEF EngineTakes
  <2> QED BY <1>13, <2>1, <2>4 DEF EngineTakes, ownerVars, netVars, pageVars
<1>14. ASSUME NEW i, Unloaded(i) PROVE Threads'
  <2>1. loads[i] \in Suspended /\ loads' = [loads EXCEPT ![i] = [@ EXCEPT !.at = "creating"]]
    BY <1>14 DEF Unloaded
  <2>2. [loads[i] EXCEPT !.at = "creating"] \in Suspended
    BY <2>1 DEF Suspended
  <2>3. loads' \in Seq(Suspended)
    BY <1>14, <2>1, <2>2 DEF Unloaded
  <2> QED BY <1>14, <2>3 DEF Unloaded, ownerVars, netVars, pageVars
<1>15. ASSUME NEW i, Created(i) PROVE Threads'
  <2>1. loads' \in Seq(Suspended)
    BY <1>15, RemoveAtTyped DEF Created
  <2>2. loads[i] \in Suspended
    BY <1>15 DEF Created
  <2>3. loads[i].model \in Models
    BY <2>2 DEF Suspended
  <2>4. toPage' \in Seq(ToPage)
    BY <1>15, <2>3, SaysTyped, Answers DEF Created
  <2> QED BY <1>15, <2>1, <2>3, <2>4 DEF Created, ownerVars, netVars, pageVars
<1>16. ASSUME NEW i, LoadFails(i) PROVE Threads'
  <2>1. loads' \in Seq(Suspended)
    BY <1>16, RemoveAtTyped DEF LoadFails
  <2>2. toPage' \in Seq(ToPage)
    BY <1>16, SaysTyped, Answers DEF LoadFails
  <2> QED BY <1>16, <2>1, <2>2 DEF LoadFails, ownerVars, netVars, pageVars
<1>17. ASSUME NEW r \in Runs, GenerationEnds(r) PROVE Threads'
  <2>1. toPage' \in Seq(ToPage)
    BY <1>17, SaysTyped, Answers DEF GenerationEnds
  <2> QED BY <1>17, <2>1 DEF GenerationEnds, ownerVars, netVars, pageVars
<1>18. CASE OnEngineMessage
  <2> DEFINE m == Head(toPage)
  <2>1. m \in ToPage /\ toPage' \in Seq(ToPage)
    BY <1>18 DEF OnEngineMessage
  <2>2. ASSUME m.type = "loaded" PROVE m.model \in Models
    BY <2>1, <2>2 DEF ToPage
  <2>3. loadedModels' \in SUBSET Models /\ runningTask' \in Runs \cup {None}
        /\ status' \in [Runs -> Outcomes]
    BY <1>18, <2>2 DEF OnEngineMessage, NowLoaded, Settled, Outcomes, pageVars
  <2> QED BY <1>18, <2>1, <2>3 DEF OnEngineMessage, ownerVars, netVars, engineVars
<1>19. CASE UNCHANGED vars
  BY <1>19 DEF vars, ownerVars, netVars, pageVars, engineVars
<1> HIDE DEF Threads, TypeOK
<1> QED BY <1>1, <1>2, <1>5, <1>6, <1>7, <1>8, <1>9, <1>10, <1>11, <1>12, <1>13, <1>14,
           <1>15, <1>16, <1>17, <1>18, <1>19
        DEF Next, Network, Owner, Coordinator, Engine

-----------------------------------------------------------------------------
(* The models the page reports. *)

\* The page will report X once it has handled what the engine has said so far:
\* the last "loaded" under way says so, or there is none and it reports X already.
Announced(X) ==
  \/ loadedModels = X /\ \A i \in DOMAIN toPage : toPage[i].type # "loaded"
  \/ \E i \in DOMAIN toPage :
       /\ toPage[i].type = "loaded" /\ X = {toPage[i].model}
       /\ \A j \in DOMAIN toPage : j > i => toPage[j].type # "loaded"
\* A resident model has been announced.  An engine without one has announced
\* nothing yet, or is loading, or gave its model up for a load that failed.
ModelsInv ==
  /\ resident # None => Announced({resident})
  /\ resident = None => Announced({}) \/ unloadedInVain \/ loads # <<>>

LEMMA ModelsInvSuffices == Threads /\ ModelsInv => LoadedModelsHonest
<1> SUFFICES ASSUME Threads, ModelsInv, toPage = <<>>, loads = <<>>, ~unloadedInVain
             PROVE  loadedModels = {resident} \ {None}
  BY DEF LoadedModelsHonest
<1>1. ASSUME NEW X, Announced(X) PROVE loadedModels = X
  BY <1>1 DEF Announced
<1>2. CASE resident = None
  BY <1>1, <1>2 DEF ModelsInv
<1>3. CASE resident # None
  BY <1>1, <1>3 DEF ModelsInv
<1> QED BY <1>2, <1>3

LEMMA SaysLast ==
  ASSUME NEW q \in Seq(ToPage), NEW m \in ToPage
  PROVE  /\ DOMAIN Append(q, m) = DOMAIN q \cup {Len(q) + 1}
         /\ \A i \in DOMAIN q : i <= Len(q) /\ Append(q, m)[i] = q[i]
         /\ Append(q, m)[Len(q) + 1] = m
         /\ DOMAIN q \subseteq Nat /\ Len(q) \in Nat
OBVIOUS

LEMMA AnnouncedLoaded ==
  ASSUME Threads, NEW m \in Models, Says([type |-> "loaded", model |-> m])
  PROVE  Announced({m})'
<1> DEFINE msg == [type |-> "loaded", model |-> m]
<1>1. msg \in ToPage /\ toPage \in Seq(ToPage) /\ toPage' = Append(toPage, msg)
  BY Answers DEF Threads, Says
<1>2. msg.type = "loaded" /\ msg.model = m
  OBVIOUS
<1> HIDE DEF msg
<1>3. Len(toPage) + 1 \in DOMAIN toPage' /\ toPage'[Len(toPage) + 1] = msg
      /\ \A j \in DOMAIN toPage' : ~ (j > Len(toPage) + 1)
  BY <1>1, SaysLast
<1> QED BY <1>2, <1>3 DEF Announced

LEMMA AnnouncedOther ==
  ASSUME Threads, NEW X, Announced(X), NEW m \in ToPage, m.type # "loaded", Says(m),
         loadedModels' = loadedModels
  PROVE  Announced(X)'
<1>1. toPage \in Seq(ToPage) /\ toPage' = Append(toPage, m)
  BY DEF Threads, Says
<1>2. /\ DOMAIN toPage' = DOMAIN toPage \cup {Len(toPage) + 1}
      /\ \A i \in DOMAIN toPage : i <= Len(toPage) /\ toPage'[i] = toPage[i]
      /\ toPage'[Len(toPage) + 1] = m
  BY <1>1, SaysLast
<1>3. CASE loadedModels = X /\ \A i \in DOMAIN toPage : toPage[i].type # "loaded"
  BY <1>2, <1>3 DEF Announced
<1>4. ASSUME NEW i \in DOMAIN toPage, toPage[i].type = "loaded", X = {toPage[i].model},
             \A j \in DOMAIN toPage : j > i => toPage[j].type # "loaded"
      PROVE  Announced(X)'
  BY <1>2, <1>4 DEF Announced
<1> QED BY <1>3, <1>4 DEF Announced

LEMMA AnnouncedTail ==
  ASSUME Threads, NEW X, Announced(X), toPage # <<>>, toPage' = Tail(toPage),
         loadedModels' = IF Head(toPage).type = "loaded" THEN {Head(toPage).model} ELSE loadedModels
  PROVE  Announced(X)'
<1>1. /\ DOMAIN toPage' = 1..(Len(toPage) - 1) /\ Len(toPage) \in Nat /\ Len(toPage) > 0
      /\ \A i \in DOMAIN toPage' : toPage'[i] = toPage[i + 1] /\ i + 1 \in DOMAIN toPage
      /\ DOMAIN toPage = 1..Len(toPage) /\ Head(toPage) = toPage[1]
  BY DEF Threads
<1>2. CASE loadedModels = X /\ \A i \in DOMAIN toPage : toPage[i].type # "loaded"
  BY <1>1, <1>2 DEF Announced
<1>3. ASSUME NEW i \in DOMAIN toPage, toPage[i].type = "loaded", X = {toPage[i].model},
             \A j \in DOMAIN toPage : j > i => toPage[j].type # "loaded"
      PROVE  Announced(X)'
  <2>1. CASE i = 1
    <3>1. loadedModels' = X
      BY <1>1, <1>3, <2>1
    <3>2. \A j \in DOMAIN toPage' : toPage'[j].type # "loaded"
      BY <1>1, <1>3, <2>1
    <3> QED BY <3>1, <3>2 DEF Announced
  <2>2. CASE i # 1
    <3>1. i - 1 \in DOMAIN toPage' /\ toPage'[i - 1] = toPage[i]
      BY <1>1, <2>2
    <3>2. \A j \in DOMAIN toPage' : j > i - 1 => toPage'[j].type # "loaded"
      BY <1>1, <1>3
    <3> QED BY <1>3, <3>1, <3>2 DEF Announced
  <2> QED BY <2>1, <2>2
<1> QED BY <1>2, <1>3 DEF Announced

LEMMA ModelsInit == Init => ModelsInv
BY DEF Init, ModelsInv, Announced

LEMMA ModelsNext == Threads /\ ModelsInv /\ [Next]_vars => ModelsInv'
<1> SUFFICES ASSUME Threads, ModelsInv, [Next]_vars PROVE ModelsInv'
  OBVIOUS
<1>1. ASSUME UNCHANGED <<resident, loads, unloadedInVain, loadedModels, toPage>> PROVE ModelsInv'
  BY <1>1 DEF ModelsInv, Announced
<1>2. ASSUME NEW s \in Sockets, Open(s) \/ Registered(s) \/ Break(s) \/ CloseEvent(s) PROVE ModelsInv'
  BY <1>1, <1>2 DEF Open, Registered, Break, CloseEvent, pageVars, engineVars
<1>3. CASE RetryFires
  BY <1>1, <1>3 DEF RetryFires, pageVars, engineVars
<1>4. ASSUME NEW i, Probed(i) PROVE ModelsInv'
  BY <1>1, <1>4 DEF Probed, pageVars, engineVars
<1>5. ASSUME NEW m, ToggleOn(m) PROVE ModelsInv'
  BY <1>1, <1>5 DEF ToggleOn, pageVars, engineVars
<1>6. ASSUME Stop PROVE ModelsInv'
  BY <1>6 DEF Stop, ModelsInv, Announced
<1>7. ASSUME NEW m, ToggleOff \/ ChangeModel(m) PROVE ModelsInv'
  BY <1>6, <1>7 DEF ToggleOff, ChangeModel
<1>8. ASSUME NEW r, Decline(r) \/ HandleAssignment(r) PROVE ModelsInv'
  BY <1>1, <1>8 DEF Decline, HandleAssignment, engineVars
<1>9. ASSUME NEW m, CancelTask \/ PrepareModel(m) PROVE ModelsInv'
  BY <1>1, <1>9 DEF CancelTask, PrepareModel, pageVars, engineVars
<1>10. ASSUME NEW m \in ToPage, m.type # "loaded", Says(m),
              UNCHANGED <<resident, loads, unloadedInVain, loadedModels>>
       PROVE  ModelsInv'
  BY <1>10, AnnouncedOther DEF ModelsInv
<1>11. ASSUME NEW r, Failure(r).type = "loaded" PROVE FALSE
  BY <1>11 DEF Failure
<1>20. ASSUME NEW m \in Models, resident' = m, Says([type |-> "loaded", model |-> m])
       PROVE  ModelsInv'
  BY <1>20, AnnouncedLoaded, BrowserAssumption DEF ModelsInv
<1>12. CASE EngineTakes
  <2> DEFINE m == Head(toEngine)
  <2>1. m \in ToEngine /\ UNCHANGED <<resident, unloadedInVain, loadedModels>>
    BY <1>12 DEF EngineTakes, pageVars, Threads
  <2>2. ASSUME m.type = "load", TakeLoad(m.model) PROVE ModelsInv'
    <3>1. m.model \in Models
      BY <2>1, <2>2 DEF ToEngine
    <3>2. CASE resident = m.model /\ Says([type |-> "loaded", model |-> m.model]) /\ loads' = loads
      BY <1>20, <2>1, <3>1, <3>2
    <3>3. CASE loads' = Append(loads, Load(m.model, IF resident = None THEN "creating" ELSE "unloading"))
               /\ toPage' = toPage
      <4>1. loads' # <<>>
        BY <3>1, <3>3, Suspends, AppendProperties DEF Threads
      <4>2. \A X : Announced(X) => Announced(X)'
        BY <2>1, <3>3 DEF Announced
      <4> QED BY <2>1, <4>1, <4>2 DEF ModelsInv
    <3>4. CASE Says(Failure(None)) /\ loads' = loads
      BY <1>10, <1>11, <2>1, <3>4, Answers
    <3> QED BY <2>2, <3>2, <3>3, <3>4 DEF TakeLoad
  <2>3. ASSUME m.type = "generate", TakeGenerate(m.run), loads' = loads PROVE ModelsInv'
    <3>1. m.run \in Runs
      BY <2>1, <2>3 DEF ToEngine
    <3> QED BY <1>1, <1>10, <1>11, <2>1, <2>3, <3>1, Answers DEF TakeGenerate
  <2> QED BY <1>1, <1>12, <2>1, <2>2, <2>3 DEF EngineTakes
<1>13. ASSUME NEW i, Unloaded(i) PROVE ModelsInv'
  <2>1. DOMAIN loads' = DOMAIN loads /\ DOMAIN loads # {} /\ resident' = None
    BY <1>13 DEF Unloaded, Threads
  <2>2. DOMAIN <<>> = {}
    OBVIOUS
  <2>3. loads' # <<>>
    BY <2>1, <2>2, Zenon
  <2> QED BY <2>1, <2>3, Zenon DEF ModelsInv
<1>14. ASSUME NEW i, Created(i) PROVE ModelsInv'
  <2>1. loads[i] \in Suspended
    BY <1>14 DEF Created, Threads
  <2>2. loads[i].model \in Models /\ resident' = loads[i].model
    BY <1>14, <2>1 DEF Suspended, Created
  <2>3. Says([type |-> "loaded", model |-> loads[i].model])
    BY <1>14 DEF Created
  <2> QED BY <1>20, <2>2, <2>3
<1>15. ASSUME NEW i, LoadFails(i) PROVE ModelsInv'
  BY <1>15 DEF LoadFails, ModelsInv
<1>16. ASSUME NEW r \in Runs, GenerationEnds(r) PROVE ModelsInv'
  <2>1. Failure(r) \in ToPage /\ Failure(r).type # "loaded"
        /\ [type |-> "done", run |-> r] \in ToPage
    BY <1>11, Answers
  <2>2. UNCHANGED <<resident, loads, unloadedInVain, loadedModels>>
    BY <1>16 DEF GenerationEnds, pageVars
  <2>3. CASE Says(Failure(r))
    BY <1>10, <2>1, <2>2, <2>3
  <2>4. CASE Says([type |-> "done", run |-> r])
    BY <1>10, <2>1, <2>2, <2>4
  <2> QED BY <1>16, <2>3, <2>4 DEF GenerationEnds
<1>17. CASE OnEngineMessage
  <2>1. UNCHANGED <<resident, loads, unloadedInVain>> /\ toPage # <<>> /\ toPage' = Tail(toPage)
    BY <1>17 DEF OnEngineMessage, engineVars
  <2>2. loadedModels' = IF Head(toPage).type = "loaded" THEN {Head(toPage).model} ELSE loadedModels
    BY <1>17 DEF OnEngineMessage, NowLoaded, pageVars
  <2>3. \A X : Announced(X) => Announced(X)'
    BY <2>1, <2>2, AnnouncedTail
  <2> QED BY <2>1, <2>3 DEF ModelsInv
<1>18. CASE UNCHANGED vars
  BY <1>1, <1>18 DEF vars, pageVars, engineVars
<1> QED BY <1>2, <1>3, <1>4, <1>5, <1>7, <1>8, <1>9, <1>12, <1>13, <1>14, <1>15, <1>16, <1>17, <1>18
        DEF Next, Network, Owner, Coordinator, Engine

\* When nothing is under way between the page and its engine, the page reports the
\* models the engine holds, whatever loads were asked for, overlapped or failed,
\* unless the last load failed after it had unloaded the resident model
\* (webllm.worker.ts load; contributor.ts onEngineMessage).
THEOREM ModelsReported == Spec => []LoadedModelsHonest
BY ThreadsInit, ThreadsNext, ModelsInit, ModelsNext, ModelsInvSuffices, PTL DEF Spec

-----------------------------------------------------------------------------
(* The tasks between the two threads. *)

\* Without WebGPU nothing is ever posted, so that no task can be accepted.
Quiet == ~gpu => toEngine = <<>> /\ toPage = <<>> /\ loads = <<>> /\ loadedModels = {} /\ gens = {}
\* A run is asked for once and told of once, and is in one place at a time:
\* asked for, being generated, or told of.
AskedOnce ==
  \A i, j \in DOMAIN toEngine :
    /\ toEngine[i].type = "generate" /\ toEngine[j].type = "generate"
    /\ toEngine[i].run = toEngine[j].run
    => i = j
Tells(m, r) == m.type \in {"done", "error"} /\ m.run = r
ToldOnce ==
  \A r \in Runs : \A i, j \in DOMAIN toPage : Tells(toPage[i], r) /\ Tells(toPage[j], r) => i = j
Out(r) == Asked(r) \/ r \in gens \/ Told(r)
OnePlace == \A r \in Runs : ~(Asked(r) /\ r \in gens) /\ ~(Asked(r) /\ Told(r)) /\ ~(r \in gens /\ Told(r))
\* The running task is between the threads, and so is no other but those that
\* were answered in their place.
RunsKnown ==
  /\ \A r \in Runs : r = runningTask => status[r] = "running" /\ Out(r)
  /\ \A r \in Runs : Out(r) => status[r] # "unused" /\ (r = runningTask \/ AnsweredElsewhere(r))
RunsInv == Quiet /\ AskedOnce /\ ToldOnce /\ OnePlace /\ RunsKnown

LEMMA RunsInvSuffices == Threads /\ RunsInv => PageAndEngineAgree
BY DEF Threads, TypeOK, RunsInv, RunsKnown, Out, PageAndEngineAgree

\* The four steps of the two queues, as what they do to who is asked for or told of.
LEMMA Posted ==
  ASSUME Threads, NEW m \in ToEngine, toEngine' = Append(toEngine, m)
  PROVE  /\ \A r : Asked(r)' <=> Asked(r) \/ (m.type = "generate" /\ m.run = r)
         /\ AskedOnce /\ (m.type = "generate" => ~Asked(m.run)) => AskedOnce'
<1>1. /\ DOMAIN toEngine' = DOMAIN toEngine \cup {Len(toEngine) + 1}
      /\ \A i \in DOMAIN toEngine : i # Len(toEngine) + 1 /\ toEngine'[i] = toEngine[i]
      /\ toEngine'[Len(toEngine) + 1] = m
  BY DEF Threads
<1> QED BY <1>1 DEF Asked, AskedOnce

LEMMA Taken ==
  ASSUME Threads, toEngine # <<>>, toEngine' = Tail(toEngine), AskedOnce
  PROVE  /\ AskedOnce'
         /\ \A r : Asked(r) <=> Asked(r)' \/ (Head(toEngine).type = "generate" /\ Head(toEngine).run = r)
         /\ Head(toEngine).type = "generate" => \A r : Asked(r)' => r # Head(toEngine).run
<1>1. /\ DOMAIN toEngine' = 1..(Len(toEngine) - 1) /\ Len(toEngine) \in Nat /\ Len(toEngine) > 0
      /\ \A i \in DOMAIN toEngine' : toEngine'[i] = toEngine[i + 1] /\ i + 1 \in DOMAIN toEngine
      /\ DOMAIN toEngine = 1..Len(toEngine) /\ Head(toEngine) = toEngine[1]
  BY DEF Threads
<1>2. \A i \in DOMAIN toEngine : i = 1 \/ (i - 1 \in DOMAIN toEngine' /\ toEngine'[i - 1] = toEngine[i])
  BY <1>1
<1>3. AskedOnce'
  BY <1>1 DEF AskedOnce
<1>4. \A r : Asked(r) <=> Asked(r)' \/ (Head(toEngine).type = "generate" /\ Head(toEngine).run = r)
  BY <1>1, <1>2 DEF Asked
<1>5. ASSUME NEW r, Asked(r)', Head(toEngine).type = "generate", r = Head(toEngine).run PROVE FALSE
  <2>1. PICK i \in DOMAIN toEngine' : toEngine'[i].type = "generate" /\ toEngine'[i].run = r
    BY <1>5 DEF Asked
  <2> QED BY <1>1, <1>5, <2>1 DEF AskedOnce
<1> QED BY <1>3, <1>4, <1>5

LEMMA Said ==
  ASSUME Threads, NEW m \in ToPage, Says(m)
  PROVE  /\ \A r : Told(r)' <=> Told(r) \/ Tells(m, r)
         /\ ToldOnce /\ (\A r \in Runs : Tells(m, r) => ~Told(r)) => ToldOnce'
<1>1. /\ DOMAIN toPage' = DOMAIN toPage \cup {Len(toPage) + 1}
      /\ \A i \in DOMAIN toPage : i # Len(toPage) + 1 /\ toPage'[i] = toPage[i]
      /\ toPage'[Len(toPage) + 1] = m
  BY DEF Threads, Says
<1> QED BY <1>1 DEF Told, Tells, ToldOnce

LEMMA Heard ==
  ASSUME Threads, toPage # <<>>, toPage' = Tail(toPage), ToldOnce
  PROVE  /\ ToldOnce'
         /\ \A r : Told(r) <=> Told(r)' \/ Tells(Head(toPage), r)
         /\ \A r \in Runs : Tells(Head(toPage), r) => ~Told(r)'
<1>1. /\ DOMAIN toPage' = 1..(Len(toPage) - 1) /\ Len(toPage) \in Nat /\ Len(toPage) > 0
      /\ \A i \in DOMAIN toPage' : toPage'[i] = toPage[i + 1] /\ i + 1 \in DOMAIN toPage
      /\ DOMAIN toPage = 1..Len(toPage) /\ Head(toPage) = toPage[1]
  BY DEF Threads
<1>2. \A i \in DOMAIN toPage : i = 1 \/ (i - 1 \in DOMAIN toPage' /\ toPage'[i - 1] = toPage[i])
  BY <1>1
<1>3. ToldOnce'
  BY <1>1 DEF ToldOnce
<1>4. \A r : Told(r) <=> Told(r)' \/ Tells(Head(toPage), r)
  <2>1. ASSUME NEW r, Told(r), ~Tells(Head(toPage), r) PROVE Told(r)'
    <3>1. PICK i \in DOMAIN toPage : Tells(toPage[i], r)
      BY <2>1 DEF Told, Tells
    <3> QED BY <1>1, <1>2, <2>1, <3>1 DEF Told, Tells
  <2>2. \A r : Told(r)' => Told(r)
    BY <1>1 DEF Told
  <2>3. \A r : Tells(Head(toPage), r) => Told(r)
    BY <1>1 DEF Told, Tells
  <2> QED BY <2>1, <2>2, <2>3
<1>5. ASSUME NEW r \in Runs, Told(r)', Tells(Head(toPage), r) PROVE FALSE
  <2>1. PICK i \in DOMAIN toPage' : Tells(toPage'[i], r)
    BY <1>5 DEF Told, Tells
  <2> QED BY <1>1, <1>5, <2>1 DEF ToldOnce
<1> QED BY <1>3, <1>4, <1>5

\* What a failure or a completion tells, and whom.
LEMMA Telling ==
  /\ \A q, r : Tells(Failure(q), r) <=> q = r
  /\ \A q, r : Tells([type |-> "done", run |-> q], r) <=> q = r
  /\ \A m, r : ~Tells([type |-> "loaded", model |-> m], r)
BY DEF Tells, Failure

LEMMA RunsInit == Init => RunsInv
<1> SUFFICES ASSUME Init PROVE RunsInv
  OBVIOUS
<1>1. Quiet /\ AskedOnce /\ ToldOnce
  BY DEF Init, Quiet, AskedOnce, ToldOnce
<1>2. \A r \in Runs : ~Out(r) /\ r # runningTask
  BY BrowserAssumption DEF Init, Out, Asked, Told
<1> QED BY <1>1, <1>2 DEF RunsInv, OnePlace, RunsKnown, Out

\* A cancelled or failed task is never taken up again, so that it excuses the
\* engine for good.
LEMMA AnsweredStays ==
  ASSUME Threads, \A r \in Runs : status[r] \in {"cancelled", "failed"} => status'[r] = status[r]
  PROVE  \A r \in Runs : AnsweredElsewhere(r) => AnsweredElsewhere(r)'
BY DEF AnsweredElsewhere

\* The places of a run do not change, nor what is known of it.
LEMMA SamePlaces ==
  ASSUME Threads, RunsInv, Quiet', AskedOnce', ToldOnce',
         \A r \in Runs : (Asked(r)' <=> Asked(r)) /\ (Told(r)' <=> Told(r)), gens' = gens,
         runningTask' = runningTask, status' = status
  PROVE  RunsInv'
<1>1. OnePlace'
  BY DEF RunsInv, OnePlace
<1>2. \A r \in Runs : AnsweredElsewhere(r) => AnsweredElsewhere(r)'
  BY AnsweredStays
<1>3. RunsKnown'
  BY <1>2 DEF RunsInv, RunsKnown, Out
<1> QED BY <1>1, <1>3 DEF RunsInv

LEMMA RunsStutter ==
  ASSUME Threads, RunsInv, UNCHANGED <<gpu, toEngine, toPage, loads, gens, loadedModels, runningTask, status>>
  PROVE  RunsInv'
<1>1. Quiet' /\ AskedOnce' /\ ToldOnce' /\ \A r \in Runs : (Asked(r)' <=> Asked(r)) /\ (Told(r)' <=> Told(r))
  BY DEF RunsInv, Quiet, AskedOnce, ToldOnce, Asked, Told
<1> QED BY <1>1, SamePlaces

LEMMA PostedQuietly ==
  ASSUME Threads, RunsInv, gpu, NEW m \in ToEngine, toEngine' = Append(toEngine, m), m.type # "generate",
         UNCHANGED <<gpu, toPage, loads, gens, loadedModels, runningTask, status>>
  PROVE  RunsInv'
<1>1. Quiet' /\ ToldOnce' /\ \A r : Told(r)' <=> Told(r)
  BY DEF RunsInv, Quiet, ToldOnce, Told
<1>2. AskedOnce' /\ \A r : Asked(r)' <=> Asked(r)
  BY Posted DEF RunsInv
<1> QED BY <1>1, <1>2, SamePlaces

\* A run moves from one place to the next, or nothing happens to any.
LEMMA Moved ==
  ASSUME Threads, RunsInv, Quiet', AskedOnce', ToldOnce', OnePlace',
         \A r \in Runs : Out(r)' <=> Out(r), runningTask' = runningTask, status' = status
  PROVE  RunsInv'
<1>1. \A r \in Runs : AnsweredElsewhere(r) => AnsweredElsewhere(r)'
  BY AnsweredStays
<1> QED BY <1>1 DEF RunsInv, RunsKnown

\* The engine says something that answers no run.
LEMMA SaidQuietly ==
  ASSUME Threads, RunsInv, NEW m \in ToPage, Says(m), \A r \in Runs : ~Tells(m, r)
  PROVE  ToldOnce' /\ \A r \in Runs : Told(r)' <=> Told(r)
BY Said DEF RunsInv

\* The engine answers a run that it had been asked for, or was generating.
LEMMA SaidOf ==
  ASSUME Threads, RunsInv, NEW q \in Runs, NEW m \in ToPage, Says(m), \A r \in Runs : Tells(m, r) <=> r = q,
         ~Told(q)
  PROVE  ToldOnce' /\ \A r \in Runs : Told(r)' <=> (Told(r) \/ r = q)
BY Said DEF RunsInv

LEMMA RunsEngine ==
  ASSUME Threads, RunsInv, Engine
  PROVE  RunsInv'
<1>0. \A r : ~Tells(Failure(None), r) \/ r \notin Runs
  BY Telling, BrowserAssumption
<1>1. CASE EngineTakes
  <2> DEFINE m == Head(toEngine)
  <2>1. m \in ToEngine /\ toEngine # <<>> /\ toEngine' = Tail(toEngine) /\ gpu
        /\ UNCHANGED <<gpu, loadedModels, runningTask, status>>
    BY <1>1 DEF EngineTakes, ownerVars, pageVars, Threads, RunsInv, Quiet
  <2>2. /\ AskedOnce'
        /\ \A r : Asked(r) <=> (Asked(r)' \/ (m.type = "generate" /\ m.run = r))
        /\ m.type = "generate" => \A r : Asked(r)' => r # m.run
    BY <2>1, Taken DEF RunsInv
  <2>3. Quiet'
    BY <2>1 DEF Quiet
  <2>4. ASSUME gens' = gens, m.type # "generate", ToldOnce', \A r \in Runs : Told(r)' <=> Told(r)
        PROVE  RunsInv'
    <3>1. OnePlace' /\ \A r \in Runs : Out(r)' <=> Out(r)
      BY <2>2, <2>4 DEF RunsInv, OnePlace, Out
    <3> QED BY <2>1, <2>2, <2>3, <2>4, <3>1, Moved
  <2>5. ASSUME toPage' = toPage PROVE ToldOnce' /\ \A r \in Runs : Told(r)' <=> Told(r)
    BY <2>5 DEF RunsInv, ToldOnce, Told
  <2>6. ASSUME m.type = "load", TakeLoad(m.model), UNCHANGED gens PROVE RunsInv'
    <3>1. m.model \in Models /\ m.type # "generate"
      BY <2>1, <2>6 DEF ToEngine
    <3>2. CASE Says([type |-> "loaded", model |-> m.model])
      BY <2>4, <2>6, <3>1, <3>2, SaidQuietly, Answers, Telling
    <3>3. CASE toPage' = toPage
      BY <2>4, <2>5, <2>6, <3>1, <3>3
    <3>4. CASE Says(Failure(None))
      BY <1>0, <2>4, <2>6, <3>1, <3>4, SaidQuietly, Answers
    <3> QED BY <2>6, <3>2, <3>3, <3>4 DEF TakeLoad
  <2>7. ASSUME m.type = "generate", TakeGenerate(m.run) PROVE RunsInv'
    <3>1. m.run \in Runs /\ Asked(m.run)
      BY <2>1, <2>2, <2>7 DEF ToEngine
    <3>2. ~Told(m.run) /\ m.run \notin gens
      BY <3>1 DEF RunsInv, OnePlace
    <3>3. CASE gens' = gens \cup {m.run} /\ toPage' = toPage
      <4>1. OnePlace' /\ \A r \in Runs : Out(r)' <=> Out(r)
        BY <2>2, <2>5, <2>7, <3>2, <3>3 DEF RunsInv, OnePlace, Out
      <4> QED BY <2>1, <2>2, <2>3, <2>5, <3>3, <4>1, Moved
    <3>4. CASE Says(Failure(m.run)) /\ gens' = gens
      <4>1. ToldOnce' /\ \A r \in Runs : Told(r)' <=> (Told(r) \/ r = m.run)
        BY <3>1, <3>2, <3>4, SaidOf, Answers, Telling
      <4>2. OnePlace' /\ \A r \in Runs : Out(r)' <=> Out(r)
        BY <2>2, <2>7, <3>2, <3>4, <4>1 DEF RunsInv, OnePlace, Out
      <4> QED BY <2>1, <2>2, <2>3, <4>1, <4>2, Moved
    <3> QED BY <2>7, <3>3, <3>4 DEF TakeGenerate
  <2>8. CASE m.type \notin {"load", "generate"}
    BY <1>1, <2>4, <2>5, <2>8 DEF EngineTakes
  <2> QED BY <1>1, <2>6, <2>7, <2>8 DEF EngineTakes
<1>2. ASSUME UNCHANGED <<gpu, toEngine, gens, loadedModels, runningTask, status>>, loads # <<>>,
             ToldOnce', \A r \in Runs : Told(r)' <=> Told(r)
      PROVE  RunsInv'
  <2>1. AskedOnce' /\ \A r \in Runs : Asked(r)' <=> Asked(r)
    BY <1>2 DEF RunsInv, AskedOnce, Asked
  <2>2. Quiet'
    BY <1>2 DEF RunsInv, Quiet
  <2> QED BY <1>2, <2>1, <2>2, SamePlaces
<1>3. ASSUME NEW i \in DOMAIN loads PROVE loads # <<>>
  BY <1>3 DEF Threads
<1>4. ASSUME NEW i, Unloaded(i) PROVE RunsInv'
  <2>1. ToldOnce' /\ \A r \in Runs : Told(r)' <=> Told(r)
    BY <1>4 DEF Unloaded, RunsInv, ToldOnce, Told
  <2> QED BY <1>2, <1>3, <1>4, <2>1 DEF Unloaded, ownerVars, pageVars
<1>5. ASSUME NEW i, Created(i) PROVE RunsInv'
  <2>1. loads[i] \in Suspended
    BY <1>5 DEF Created, Threads
  <2>2. loads[i].model \in Models
    BY <2>1 DEF Suspended
  <2>3. Says([type |-> "loaded", model |-> loads[i].model])
    BY <1>5 DEF Created
  <2>4. ToldOnce' /\ \A r \in Runs : Told(r)' <=> Told(r)
    BY <2>2, <2>3, SaidQuietly, Answers, Telling
  <2> QED BY <1>2, <1>3, <1>5, <2>4 DEF Created, ownerVars, pageVars
<1>6. ASSUME NEW i, LoadFails(i) PROVE RunsInv'
  <2>1. ToldOnce' /\ \A r \in Runs : Told(r)' <=> Told(r)
    BY <1>0, <1>6, SaidQuietly, Answers DEF LoadFails
  <2> QED BY <1>2, <1>3, <1>6, <2>1 DEF LoadFails, ownerVars, pageVars
<1>7. ASSUME NEW r \in Runs, GenerationEnds(r) PROVE RunsInv'
  <2>1. UNCHANGED <<gpu, toEngine, loads, loadedModels, runningTask, status>>
        /\ r \in gens /\ gens' = gens \ {r} /\ gpu
    BY <1>7 DEF GenerationEnds, ownerVars, pageVars, RunsInv, Quiet
  <2>2. ~Told(r) /\ ~Asked(r)
    BY <2>1 DEF RunsInv, OnePlace
  <2>3. PICK m \in ToPage : Says(m) /\ \A q : Tells(m, q) <=> q = r
    BY <1>7, Answers, Telling DEF GenerationEnds
  <2>4. ToldOnce' /\ \A q \in Runs : Told(q)' <=> (Told(q) \/ q = r)
    BY <2>2, <2>3, SaidOf
  <2>5. Quiet' /\ AskedOnce' /\ \A q \in Runs : Asked(q)' <=> Asked(q)
    BY <2>1 DEF RunsInv, Quiet, AskedOnce, Asked
  <2>6. OnePlace' /\ \A q \in Runs : Out(q)' <=> Out(q)
    BY <2>1, <2>2, <2>4, <2>5 DEF RunsInv, OnePlace, Out
  <2> QED BY <2>1, <2>4, <2>5, <2>6, Moved
<1> QED BY <1>1, <1>4, <1>5, <1>6, <1>7 DEF Engine

LEMMA RunsHeard ==
  ASSUME Threads, RunsInv, OnEngineMessage
  PROVE  RunsInv'
<1> DEFINE m == Head(toPage)
<1>1. m \in ToPage /\ toPage # <<>> /\ toPage' = Tail(toPage) /\ gpu
      /\ UNCHANGED <<gpu, gens, toEngine, loads>>
  BY DEF OnEngineMessage, ownerVars, engineVars, Threads, RunsInv, Quiet
<1>2. /\ ToldOnce'
      /\ \A r : Told(r) <=> (Told(r)' \/ Tells(m, r))
      /\ \A r \in Runs : Tells(m, r) => ~Told(r)'
  BY <1>1, Heard DEF RunsInv
<1>3. AskedOnce' /\ Quiet' /\ \A r \in Runs : Asked(r)' <=> Asked(r)
  BY <1>1 DEF RunsInv, AskedOnce, Asked, Quiet
<1>4. OnePlace' /\ \A r \in Runs : Out(r) <=> (Out(r)' \/ Tells(m, r))
  BY <1>1, <1>2, <1>3 DEF RunsInv, OnePlace, Out
<1>5. \A r \in Runs : Tells(m, r) => ~Out(r)'
  BY <1>1, <1>2, <1>3 DEF RunsInv, OnePlace, Out
<1>6. ASSUME m.type = "loaded", UNCHANGED <<runningTask, status>> PROVE RunsInv'
  <2>1. \A r \in Runs : ~Tells(m, r)
    BY <1>6 DEF Tells
  <2> QED BY <1>2, <1>3, <1>4, <1>6, <2>1, Moved
<1>7. ASSUME ~ForRunning(m), UNCHANGED <<runningTask, status>> PROVE RunsInv'
  <2>1. \A r \in Runs : r = runningTask => ~Tells(m, r)
    BY <1>7, BrowserAssumption DEF Tells, ForRunning
  <2>2. \A r \in Runs : AnsweredElsewhere(r) => AnsweredElsewhere(r)'
    BY <1>7, AnsweredStays
  <2>3. RunsKnown'
    BY <1>4, <1>7, <2>1, <2>2 DEF RunsInv, RunsKnown
  <2> QED BY <1>2, <1>3, <1>4, <2>3 DEF RunsInv
<1>8. ASSUME NEW s, ForRunning(m), Settled(s),
             s = "failed" \/ (s = "completed" /\ m.type = "done")
      PROVE  RunsInv'
  <2> DEFINE r0 == runningTask
  <2>1. r0 \in Runs /\ runningTask' = None /\ status' = [status EXCEPT ![r0] = s]
    BY <1>8 DEF ForRunning, Settled, Threads, TypeOK
  <2>2. status'[r0] = s /\ status[r0] = "running" /\ \A q \in Runs : q # r0 => status'[q] = status[q]
    BY <2>1 DEF Threads, RunsInv, RunsKnown
  <2>3. \A q \in Runs : AnsweredElsewhere(q) => AnsweredElsewhere(q)'
    BY <2>1, <2>2, AnsweredStays
  <2>4. ASSUME NEW q \in Runs, q = r0, Out(q)' PROVE AnsweredElsewhere(q)'
    <3>1. CASE s = "failed"
      BY <2>2, <2>4, <3>1 DEF AnsweredElsewhere
    <3>2. CASE m.type = "done"
      <4>1. m.run \in Runs
        BY <1>1, <3>2 DEF ToPage
      <4>2. PICK q1 \in Runs : q1 = m.run
        BY <4>1
      <4>3. Tells(m, q1) /\ TaskOf[q1] = TaskOf[q]
        BY <1>8, <2>4, <3>2, <4>2, BrowserAssumption DEF Tells, ForRunning
      <4>4. q1 # q /\ AnsweredElsewhere(q1)
        BY <1>4, <1>5, <2>4, <4>3 DEF RunsInv, RunsKnown
      <4>5. PICK q2 \in Runs : TaskOf[q2] = TaskOf[q1] /\ status[q2] \in {"cancelled", "failed"}
        BY <4>4 DEF AnsweredElsewhere
      <4>6. q2 # q /\ status'[q2] = status[q2]
        BY <2>2, <2>4, <4>5
      <4> QED BY <4>3, <4>5, <4>6 DEF AnsweredElsewhere
    <3> QED BY <1>8, <3>1, <3>2
  <2>5. \A q \in Runs : Out(q)' => status'[q] # "unused" /\ AnsweredElsewhere(q)'
    BY <1>4, <1>8, <2>2, <2>3, <2>4 DEF RunsInv, RunsKnown
  <2>6. RunsKnown'
    BY <2>1, <2>5, BrowserAssumption DEF RunsKnown
  <2> QED BY <1>2, <1>3, <1>4, <2>6 DEF RunsInv
<1> QED BY <1>6, <1>7, <1>8 DEF OnEngineMessage, pageVars

LEMMA RunsNext == Threads /\ RunsInv /\ [Next]_vars => RunsInv'
<1> SUFFICES ASSUME Threads, RunsInv, [Next]_vars PROVE RunsInv'
  OBVIOUS
<1>1. ASSUME NEW s \in Sockets, Open(s) \/ Registered(s) \/ Break(s) \/ CloseEvent(s) PROVE RunsInv'
  BY <1>1, RunsStutter DEF Open, Registered, Break, CloseEvent, ownerVars, pageVars, engineVars
<1>2. CASE RetryFires
  BY <1>2, RunsStutter DEF RetryFires, ownerVars, pageVars, engineVars
<1>3. ASSUME NEW m \in Models PROVE [type |-> "load", model |-> m] \in ToEngine
  BY DEF ToEngine
<1>4. ASSUME NEW m \in Models, NEW on, NEW from, Begin(m, on, from, toEngine), gpu' = gpu,
             UNCHANGED <<toPage, loads, gens, loadedModels, runningTask, status>>
      PROVE  RunsInv'
  <2>1. CASE toEngine' = toEngine
    BY <1>4, <2>1, RunsStutter
  <2>2. CASE toEngine' # toEngine
    <3>1. gpu /\ toEngine' = Append(toEngine, [type |-> "load", model |-> m])
      BY <1>4, <2>2 DEF Begin, LoadModel
    <3> QED BY <1>3, <1>4, <3>1, PostedQuietly
  <2> QED BY <2>1, <2>2
<1>5. ASSUME NEW i, Probed(i) PROVE RunsInv'
  <2>1. starts[i] \in Models
    BY <1>5 DEF Probed, Threads, TypeOK
  <2> QED BY <1>4, <1>5, <2>1 DEF Probed, pageVars, engineVars
<1>6. ASSUME NEW m \in Models, ToggleOn(m) PROVE RunsInv'
  <2>1. CASE probed
    BY <1>4, <1>6, <2>1 DEF ToggleOn, pageVars, engineVars
  <2>2. CASE ~probed
    BY <1>6, <2>2, RunsStutter DEF ToggleOn, pageVars, engineVars
  <2> QED BY <2>1, <2>2
<1>7. ASSUME Stop, gpu' = gpu, ~gpu => toEngine' = <<>>,
             \A i \in DOMAIN toEngine' : toEngine'[i].type # "generate"
      PROVE  RunsInv'
  <2>1. Quiet' /\ ToldOnce'
    BY <1>7 DEF Stop, Quiet, ToldOnce
  <2>2. AskedOnce'
    BY <1>7 DEF AskedOnce
  <2>3. \A r \in Runs : ~Asked(r)' /\ ~Told(r)' /\ r \notin gens' /\ r # runningTask'
    BY <1>7, BrowserAssumption DEF Stop, Asked, Told
  <2> QED BY <2>1, <2>2, <2>3 DEF RunsInv, OnePlace, RunsKnown, Out
<1>8. CASE ToggleOff
  BY <1>7, <1>8 DEF ToggleOff
<1>9. ASSUME NEW m \in Models, ChangeModel(m) PROVE RunsInv'
  <2>1. CASE probed
    <3>1. toEngine' = <<>> \/ (gpu /\ toEngine' = Append(<<>>, [type |-> "load", model |-> m]))
      BY <1>9, <2>1 DEF ChangeModel, Begin, LoadModel
    <3>2. \A i \in DOMAIN toEngine' : toEngine'[i].type # "generate"
      BY <3>1
    <3> QED BY <1>7, <1>9, <3>1, <3>2 DEF ChangeModel
  <2>2. CASE ~probed
    BY <1>7, <1>9, <2>2 DEF ChangeModel
  <2> QED BY <2>1, <2>2
<1>10. ASSUME NEW r \in Runs, Decline(r) PROVE RunsInv'
  <2>1. UNCHANGED <<gpu, toEngine, toPage, loads, gens, loadedModels, runningTask>>
        /\ status[r] = "unused" /\ status' = [status EXCEPT ![r] = "rejected"]
    BY <1>10 DEF Decline, ownerVars, engineVars
  <2>2. \A q \in Runs : q # r => status'[q] = status[q]
    BY <2>1 DEF Threads
  <2>3. \A q \in Runs : (Asked(q)' <=> Asked(q)) /\ (Told(q)' <=> Told(q)) /\ (Out(q)' <=> Out(q))
    BY <2>1 DEF Asked, Told, Out
  <2>4. Quiet' /\ AskedOnce' /\ ToldOnce' /\ OnePlace'
    BY <2>1, <2>3 DEF RunsInv, Quiet, AskedOnce, ToldOnce, OnePlace
  <2>5. \A q \in Runs : AnsweredElsewhere(q) => AnsweredElsewhere(q)'
    BY <2>1, <2>2, AnsweredStays
  <2>6. RunsKnown'
    BY <2>1, <2>2, <2>3, <2>5 DEF RunsInv, RunsKnown
  <2> QED BY <2>4, <2>6 DEF RunsInv
<1>11. ASSUME NEW r \in Runs, HandleAssignment(r) PROVE RunsInv'
  <2> DEFINE m == [type |-> "generate", run |-> r]
  <2>1. UNCHANGED <<gpu, toPage, loads, gens, loadedModels>> /\ runningTask = None /\ runningTask' = r
        /\ status[r] = "unused" /\ status' = [status EXCEPT ![r] = "running"]
    BY <1>11 DEF HandleAssignment, Refuses, ownerVars, engineVars
  <2>2. EngineUp
    BY <1>11 DEF HandleAssignment, Refuses, EngineUp, RunsInv, Quiet
  <2>3. m \in ToEngine /\ toEngine' = Append(toEngine, m) /\ m.type = "generate" /\ m.run = r
    BY <1>11, <2>2 DEF HandleAssignment, Post, ToEngine
  <2>4. ~Out(r)
    BY <2>1 DEF RunsInv, RunsKnown
  <2>5. AskedOnce' /\ \A q \in Runs : Asked(q)' <=> (Asked(q) \/ q = r)
    BY <2>3, <2>4, Posted DEF RunsInv, Out
  <2>6. \A q \in Runs : Told(q)' <=> Told(q)
    BY <2>1 DEF Told
  <2>7. Quiet' /\ ToldOnce' /\ OnePlace'
    BY <2>1, <2>2, <2>4, <2>5, <2>6 DEF RunsInv, Quiet, ToldOnce, OnePlace, EngineUp, Out
  <2>8. \A q \in Runs : q # r => status'[q] = status[q]
    BY <2>1 DEF Threads
  <2>9. \A q \in Runs : AnsweredElsewhere(q) => AnsweredElsewhere(q)'
    BY <2>1, <2>8, AnsweredStays
  <2>10. \A q \in Runs : Out(q)' <=> (Out(q) \/ q = r)
    BY <2>1, <2>5, <2>6 DEF Out
  <2>11. \A q \in Runs : q # runningTask
    BY <2>1, BrowserAssumption
  <2>12. status'[r] = "running"
    BY <2>1 DEF Threads
  <2>13. RunsKnown'
    BY <2>1, <2>8, <2>9, <2>10, <2>11, <2>12 DEF RunsInv, RunsKnown
  <2> QED BY <2>5, <2>7, <2>13 DEF RunsInv
<1>12. CASE CancelTask
  <2> DEFINE r0 == runningTask
  <2>1. UNCHANGED <<gpu, toPage, loads, gens, loadedModels>> /\ r0 \in Runs /\ runningTask' = None
        /\ status' = [status EXCEPT ![r0] = "cancelled"]
    BY <1>12 DEF CancelTask, Threads, TypeOK, ownerVars, engineVars
  <2>2. toEngine' = toEngine \/ (gpu /\ toEngine' = Append(toEngine, [type |-> "cancel"]))
    BY <1>12 DEF CancelTask, Post, EngineUp
  <2>3. AskedOnce' /\ \A q \in Runs : Asked(q)' <=> Asked(q)
    <3>1. [type |-> "cancel"] \in ToEngine
      BY DEF ToEngine
    <3>2. CASE toEngine' = toEngine
      BY <3>2 DEF RunsInv, AskedOnce, Asked
    <3>3. CASE toEngine' = Append(toEngine, [type |-> "cancel"])
      BY <3>1, <3>3, Posted DEF RunsInv
    <3> QED BY <2>2, <3>2, <3>3
  <2>4. Quiet' /\ ToldOnce' /\ \A q \in Runs : Told(q)' <=> Told(q)
    BY <2>1, <2>2 DEF RunsInv, Quiet, ToldOnce, Told
  <2>5. OnePlace' /\ \A q \in Runs : Out(q)' <=> Out(q)
    BY <2>1, <2>3, <2>4 DEF RunsInv, OnePlace, Out
  <2>6. status'[r0] = "cancelled" /\ status[r0] = "running"
        /\ \A q \in Runs : q # r0 => status'[q] = status[q]
    BY <2>1 DEF Threads, RunsInv, RunsKnown
  <2>7. \A q \in Runs : AnsweredElsewhere(q) => AnsweredElsewhere(q)'
    BY <2>1, <2>6, AnsweredStays
  <2>8. \A q \in Runs : q = r0 => AnsweredElsewhere(q)'
    BY <2>6 DEF AnsweredElsewhere
  <2>9. RunsKnown'
    BY <2>1, <2>5, <2>6, <2>7, <2>8, BrowserAssumption DEF RunsInv, RunsKnown
  <2> QED BY <2>3, <2>4, <2>5, <2>9 DEF RunsInv
<1>13. ASSUME NEW m \in Models, PrepareModel(m) PROVE RunsInv'
  <2>1. UNCHANGED <<gpu, toPage, loads, gens, loadedModels, runningTask, status>>
    BY <1>13 DEF PrepareModel, ownerVars, pageVars, engineVars
  <2>2. CASE toEngine' # toEngine
    <3>1. gpu /\ toEngine' = Append(toEngine, [type |-> "load", model |-> m])
      BY <1>13, <2>2 DEF PrepareModel, LoadModel, EngineUp
    <3> QED BY <1>3, <2>1, <3>1, PostedQuietly
  <2>3. CASE toEngine' = toEngine
    BY <2>1, <2>3, RunsStutter
  <2> QED BY <2>2, <2>3
<1>14. CASE UNCHANGED vars
  BY <1>14, RunsStutter DEF vars, ownerVars, pageVars, engineVars
<1> QED BY <1>1, <1>2, <1>5, <1>6, <1>8, <1>9, <1>10, <1>11, <1>12, <1>13, <1>14, RunsEngine, RunsHeard
        DEF Next, Network, Owner, Coordinator

\* The task a tab has accepted is with its engine, or its end is on the way back,
\* and the GPU works for no other task but those answered before
\* (contributor.ts handleAssignment, onEngineMessage; webllm.worker.ts generate).
THEOREM TasksNeverForgotten == Spec => []PageAndEngineAgree
BY ThreadsInit, ThreadsNext, RunsInit, RunsNext, RunsInvSuffices, PTL DEF Spec
=============================================================================
