---------------------------- MODULE BrowserWorker ----------------------------
(***************************************************************************)
(* A browser tab that contributes: the Contributor on the page's thread,   *)
(* the WebLLM engine on a worker thread of its own, the two queues of      *)
(* messages between them, and the sockets the page opens.                  *)
(*                                                                         *)
(* Every handler of either thread runs to its first await as one step.     *)
(* Loads and generations are suspended at their awaits, several at a time, *)
(* because the engine's message handler awaits none of them.  A run is one *)
(* task:assign; a task may be assigned again.                              *)
(***************************************************************************)
EXTENDS Integers, Sequences, FiniteSets, SequencesExt

CONSTANTS
  Runs,              \* task:assign messages the tab receives
  TaskOf, ModelOf,   \* the task of a run, and the model the task names
  Models,            \* models of the catalogue
  MaxSockets,        \* bound: sockets the tab opens
  MaxActs,           \* bound: times the owner toggles or changes the model
  MaxTroubles,       \* bound: broken sockets, failed loads, cancels, prepares
  None

ASSUME BrowserAssumption ==
  /\ ModelOf \in [Runs -> Models] /\ DOMAIN TaskOf = Runs
  /\ None \notin Runs \cup Models
  /\ {MaxSockets, MaxActs, MaxTroubles} \subseteq Nat

VARIABLES
  gpu, probed,       \* whether WebGPU answers, and whether gpuInfo is known
  starts,            \* models of the calls of start() that await probe()
  paused,            \* BrowserGovernor.manualPause; the engine is up when it is not
  sock,              \* state of every WebSocket ever opened
  current,           \* Contributor.socket (0 for null)
  heartbeat, retry,  \* heartbeatTimer and reconnectTimer are set
  overlapped,        \* start() ran while a socket of the tab was still to close
  loadedModels,      \* Contributor.loadedModels
  runningTask,       \* Contributor.runningTask, as the run it came by
  toEngine, toPage,  \* messages posted and not yet handled
  resident,          \* the engine thread's loadedCatalogId; None without engine
  loads,             \* models whose load is suspended, by the await it is at
  gens,              \* runs whose generation is suspended
  unloadedInVain,    \* a load failed after it had given up the resident model
  status,            \* what became of each run on this tab
  owed,              \* runs accepted of the session that lasts, their verdict not sent
  acts, troubles

ownerVars == <<gpu, probed, starts, paused, acts>>
netVars == <<sock, current, heartbeat, retry, overlapped>>
pageVars == <<loadedModels, runningTask, status, owed>>
engineVars == <<resident, loads, gens, unloadedInVain>>
vars == <<ownerVars, netVars, pageVars, engineVars, toEngine, toPage, troubles>>

Sockets == 1..MaxSockets
Trouble == troubles < MaxTroubles /\ troubles' = troubles + 1
Up(s) == sock[s] \in {"connecting", "open", "asking", "registered"}
Online == \E s \in Sockets : sock[s] = "registered"
EngineUp == gpu /\ ~paused

-----------------------------------------------------------------------------
(* Sockets.                                                                  *)

\* connect: the new socket takes the place of the one in `from`, without a look at it.
Connect(from) ==
  \E s \in Sockets :
    /\ from[s] = "none" /\ \A t \in 1..(s - 1) : from[t] # "none"
    /\ sock' = [from EXCEPT ![s] = "connecting"] /\ current' = s

\* open: register goes over this.socket, which may be another one by now.
Open(s) ==
  /\ sock[s] = "connecting"
  /\ sock' = [sock EXCEPT ![s] = IF s = current THEN "asking" ELSE "open"]
  /\ UNCHANGED <<ownerVars, current, heartbeat, retry, overlapped, pageVars, engineVars,
                 toEngine, toPage, troubles>>

\* A session that is over owes nothing: the coordinator takes its tasks back.
StillOwed(next) == IF \E s \in Sockets : next[s] = "registered" THEN owed ELSE {}

\* The coordinator accepts a register and closes the session it replaces.
Registered(s) ==
  /\ sock[s] = "asking"
  /\ sock' = [t \in Sockets |-> IF t = s THEN "registered"
                                ELSE IF sock[t] = "registered" THEN "closing" ELSE sock[t]]
  /\ heartbeat' = TRUE /\ owed' = {}
  /\ UNCHANGED <<ownerVars, current, retry, overlapped, loadedModels, runningTask, status, engineVars,
                 toEngine, toPage, troubles>>

Break(s) ==
  /\ Up(s) /\ Trouble
  /\ sock' = [sock EXCEPT ![s] = "closing"] /\ owed' = StillOwed(sock')
  /\ UNCHANGED <<ownerVars, current, heartbeat, retry, overlapped, loadedModels, runningTask, status, engineVars,
                 toEngine, toPage>>

\* scheduleReconnect: nothing when off, or when a timer is set already.
Rescheduled == retry \/ ~paused

\* The close handler does not ask whether the socket is still the current one.
CloseEvent(s) ==
  /\ sock[s] = "closing"
  /\ sock' = [sock EXCEPT ![s] = "closed"]
  /\ heartbeat' = FALSE /\ retry' = Rescheduled
  /\ UNCHANGED <<ownerVars, current, overlapped, pageVars, engineVars, toEngine, toPage, troubles>>

RetryFires ==
  /\ retry /\ retry' = FALSE /\ Connect(sock)
  /\ UNCHANGED <<ownerVars, heartbeat, overlapped, pageVars, engineVars, toEngine, toPage, troubles>>

-----------------------------------------------------------------------------
(* The owner: the button of the panel, and the model chosen in the chat,     *)
(* for which App stops the contributor and starts it again.                  *)

\* stop: timers cleared, the socket closed, the engine terminated with all
\* that was posted to it or by it.
RetryAfterStop_Kept == retry
RetryAfterStop == FALSE
Closing_LeftOpen == sock
Closing == IF current # 0 /\ Up(current) THEN [sock EXCEPT ![current] = "closing"] ELSE sock
Stop ==
  /\ heartbeat' = FALSE /\ retry' = RetryAfterStop
  /\ loadedModels' = {} /\ runningTask' = None
  /\ status' = IF runningTask = None THEN status ELSE [status EXCEPT ![runningTask] = "stopped"]
  /\ owed' = StillOwed(Closing)
  /\ toPage' = <<>> /\ resident' = None /\ loads' = <<>> /\ gens' = {}
  /\ unloadedInVain' = FALSE

\* loadModel: nothing is posted for a model that has no browser build.
LoadModel(m, posted) == {posted, Append(posted, [type |-> "load", model |-> m])}

\* start, once its probe has answered: the engine and its load, then the socket.
Begin(m, on, from, posted) ==
  /\ paused' = FALSE
  /\ toEngine' \in IF gpu THEN LoadModel(m, posted) ELSE {posted}
  /\ Connect(from)
  /\ overlapped' = (overlapped \/ on \/ \E s \in Sockets : from[s] \notin {"none", "closed"})

Probed(i) ==
  /\ i \in DOMAIN starts /\ starts' = RemoveAt(starts, i)
  /\ probed' = TRUE /\ Begin(starts[i], ~paused, sock, toEngine)
  /\ UNCHANGED <<gpu, acts, heartbeat, retry, pageVars, engineVars, toPage, troubles>>

ToggleOn(m) ==
  /\ paused /\ acts < MaxActs /\ acts' = acts + 1
  /\ IF probed
     THEN Begin(m, FALSE, sock, toEngine) /\ UNCHANGED starts
     ELSE /\ starts' = Append(starts, m)
          /\ UNCHANGED <<paused, toEngine, sock, current, overlapped>>
  /\ UNCHANGED <<gpu, probed, heartbeat, retry, pageVars, engineVars, toPage, troubles>>

ToggleOff ==
  /\ ~paused /\ acts < MaxActs /\ acts' = acts + 1
  /\ Stop /\ paused' = TRUE /\ sock' = Closing /\ current' = 0 /\ toEngine' = <<>>
  /\ UNCHANGED <<gpu, probed, starts, overlapped, troubles>>

ChangeModel(m) ==
  /\ acts < MaxActs /\ acts' = acts + 1
  /\ Stop
  /\ IF probed
     THEN Begin(m, FALSE, Closing, <<>>) /\ UNCHANGED starts
     ELSE /\ paused' = TRUE /\ sock' = Closing /\ current' = 0 /\ toEngine' = <<>>
          /\ starts' = Append(starts, m) /\ UNCHANGED overlapped
  /\ UNCHANGED <<gpu, probed, troubles>>

-----------------------------------------------------------------------------
(* Messages of the coordinator.                                              *)

Post(m) == IF EngineUp THEN Append(toEngine, m) ELSE toEngine

\* send goes over this.socket, a newer one maybe, and drops what is said while
\* that socket is not open.  (A task:accepted that is dropped leaves the task
\* assigned, which the coordinator treats as it does a running one.)
SocketOpen == current # 0 /\ sock[current] \in {"open", "asking", "registered"}
Answer(r) == owed' = IF SocketOpen THEN owed \ {r} ELSE owed

\* handleAssignment: the governor may have no capacity to spare at any time.
Refuses_Unloaded(r) == paused \/ runningTask # None
Refuses(r) == paused \/ runningTask # None \/ ModelOf[r] \notin loadedModels

Decline(r) ==
  /\ Online /\ status[r] = "unused"
  /\ status' = [status EXCEPT ![r] = "rejected"]
  /\ UNCHANGED <<ownerVars, netVars, loadedModels, runningTask, owed, engineVars, toEngine, toPage, troubles>>

HandleAssignment(r) ==
  /\ Online /\ status[r] = "unused" /\ ~Refuses(r)
  /\ status' = [status EXCEPT ![r] = "running"] /\ runningTask' = r
  /\ owed' = owed \cup {r}
  /\ toEngine' = Post([type |-> "generate", run |-> r])
  /\ UNCHANGED <<ownerVars, netVars, loadedModels, engineVars, toPage, troubles>>

CancelTask ==
  /\ Online /\ runningTask # None /\ Trouble
  /\ status' = [status EXCEPT ![runningTask] = "cancelled"] /\ runningTask' = None
  /\ owed' = owed \ {runningTask}
  /\ toEngine' = Post([type |-> "cancel"])
  /\ UNCHANGED <<ownerVars, netVars, loadedModels, engineVars, toPage>>

PrepareModel(m) ==
  /\ Online /\ m \notin loadedModels /\ Trouble
  /\ toEngine' \in IF EngineUp THEN LoadModel(m, toEngine) ELSE {toEngine}
  /\ UNCHANGED <<ownerVars, netVars, pageVars, engineVars, toPage>>

-----------------------------------------------------------------------------
(* The engine thread.                                                        *)

Says(m) == toPage' = Append(toPage, m)
Failure(r) == [type |-> "error", run |-> r]
Load(m, at) == [model |-> m, at |-> at]

\* load: the resident model is answered at once, another one is unloaded first.
TakeLoad(m) ==
  \/ /\ resident = m
     /\ Says([type |-> "loaded", model |-> m]) /\ UNCHANGED <<loads, troubles>>
  \/ /\ resident # m
     /\ loads' = Append(loads, Load(m, IF resident = None THEN "creating" ELSE "unloading"))
     /\ UNCHANGED <<toPage, troubles>>
  \/ /\ resident # m /\ Trouble         \* no build of this model in the library
     /\ Says(Failure(None)) /\ UNCHANGED loads

Unloaded(i) ==
  /\ i \in DOMAIN loads /\ loads[i].at = "unloading"
  /\ loads' = [loads EXCEPT ![i].at = "creating"] /\ resident' = None
  /\ UNCHANGED <<ownerVars, netVars, pageVars, gens, unloadedInVain, toEngine, toPage, troubles>>

Created(i) ==
  /\ i \in DOMAIN loads /\ loads[i].at = "creating"
  /\ loads' = RemoveAt(loads, i) /\ resident' = loads[i].model /\ unloadedInVain' = FALSE
  /\ Says([type |-> "loaded", model |-> loads[i].model])
  /\ UNCHANGED <<ownerVars, netVars, pageVars, gens, toEngine, troubles>>

LoadFails(i) ==
  /\ i \in DOMAIN loads /\ Trouble
  /\ loads' = RemoveAt(loads, i) /\ resident' = None /\ unloadedInVain' = TRUE
  /\ Says(Failure(None))
  /\ UNCHANGED <<ownerVars, netVars, pageVars, gens, toEngine>>

\* generate, up to its first await.
TakeGenerate(r) ==
  IF resident = ModelOf[r]
  THEN gens' = gens \cup {r} /\ UNCHANGED toPage
  ELSE Says(Failure(r)) /\ UNCHANGED gens

EngineTakes ==
  /\ toEngine # <<>> /\ toEngine' = Tail(toEngine)
  /\ LET m == Head(toEngine) IN
     CASE m.type = "load" -> TakeLoad(m.model) /\ UNCHANGED gens
       [] m.type = "generate" -> TakeGenerate(m.run) /\ UNCHANGED <<loads, troubles>>
       [] OTHER -> UNCHANGED <<gens, loads, toPage, troubles>>
  /\ UNCHANGED <<ownerVars, netVars, pageVars, resident, unloadedInVain>>

\* A generation ends with its last token or by an error.  A cancel only hastens
\* that, and the next generation takes it back: the flag is one for the thread.
GenerationEnds(r) ==
  /\ r \in gens /\ gens' = gens \ {r}
  /\ \/ Says(Failure(r))
     \/ Says([type |-> "done", run |-> r])
  /\ UNCHANGED <<ownerVars, netVars, pageVars, resident, loads, unloadedInVain,
                 toEngine, troubles>>

-----------------------------------------------------------------------------
(* Messages of the engine, on the page.                                      *)

\* The error of a load bears no task and is taken for the running one's.
ForRunning(m) ==
  /\ runningTask # None
  /\ m.run # None => TaskOf[m.run] = TaskOf[runningTask]

NowLoaded_Added(m) == loadedModels \cup {m}
NowLoaded(m) == {m}
Settled(s) ==
  /\ status' = [status EXCEPT ![runningTask] = s] /\ runningTask' = None
  /\ Answer(runningTask)

OnEngineMessage ==
  /\ toPage # <<>> /\ toPage' = Tail(toPage)
  /\ LET m == Head(toPage) IN
     \/ m.type = "loaded" /\ loadedModels' = NowLoaded(m.model) /\ UNCHANGED <<runningTask, status, owed>>
     \/ m.type = "done" /\ ForRunning(m) /\ Settled("completed") /\ UNCHANGED loadedModels
     \/ m.type = "error" /\ ForRunning(m) /\ Settled("failed") /\ UNCHANGED loadedModels
     \/ m.type # "loaded" /\ ~ForRunning(m) /\ UNCHANGED pageVars
  /\ UNCHANGED <<ownerVars, netVars, engineVars, toEngine, troubles>>

-----------------------------------------------------------------------------
\* App starts the contributor as soon as it is mounted.
Init ==
  /\ gpu \in BOOLEAN /\ probed = FALSE /\ paused = TRUE /\ acts = 0 /\ troubles = 0
  /\ \E m \in Models : starts = <<m>>
  /\ sock = [s \in Sockets |-> "none"] /\ current = 0
  /\ heartbeat = FALSE /\ retry = FALSE /\ overlapped = FALSE
  /\ loadedModels = {} /\ runningTask = None /\ status = [r \in Runs |-> "unused"] /\ owed = {}
  /\ resident = None /\ loads = <<>> /\ gens = {} /\ unloadedInVain = FALSE
  /\ toEngine = <<>> /\ toPage = <<>>

Network == \E s \in Sockets : Open(s) \/ Registered(s) \/ Break(s) \/ CloseEvent(s)
Owner ==
  \/ \E i \in DOMAIN starts : Probed(i)
  \/ \E m \in Models : ToggleOn(m) \/ ChangeModel(m)
  \/ ToggleOff
Coordinator ==
  \/ \E r \in Runs : Decline(r) \/ HandleAssignment(r)
  \/ CancelTask
  \/ \E m \in Models : PrepareModel(m)
Engine ==
  \/ EngineTakes
  \/ \E i \in DOMAIN loads : Unloaded(i) \/ Created(i) \/ LoadFails(i)
  \/ \E r \in Runs : GenerationEnds(r)

Next == Network \/ RetryFires \/ Owner \/ Coordinator \/ Engine \/ OnEngineMessage
Spec == Init /\ [][Next]_vars

\* Both threads keep serving their queues, and no generation lasts for ever.
FairSpec ==
  /\ Spec /\ WF_vars(EngineTakes) /\ WF_vars(OnEngineMessage)
  /\ \A r \in Runs : WF_vars(GenerationEnds(r))

-----------------------------------------------------------------------------
(* Properties.                                                               *)

TypeOK ==
  /\ current \in 0..MaxSockets /\ starts \in Seq(Models) /\ loadedModels \in SUBSET Models
  /\ runningTask \in Runs \cup {None} /\ resident \in Models \cup {None} /\ gens \subseteq Runs

Asked(r) == \E i \in DOMAIN toEngine : toEngine[i].type = "generate" /\ toEngine[i].run = r
Told(r) == \E i \in DOMAIN toPage : toPage[i].type \in {"done", "error"} /\ toPage[i].run = r

\* The task a tab has accepted is with the engine, or its end is on the way
\* back: it is never forgotten between the two threads.  Nor does the GPU work
\* for anybody else, save for tasks that were cancelled, those a failed load has
\* answered in their place, and those answered by an earlier run of the same
\* task (contributor.ts handleAssignment, onEngineMessage; webllm.worker.ts generate).
AnsweredElsewhere(r) ==
  \/ status[r] \in {"cancelled", "failed"}
  \/ \E q \in Runs \ {r} : TaskOf[q] = TaskOf[r] /\ status[q] \in {"cancelled", "failed"}
PageAndEngineAgree ==
  /\ TypeOK
  /\ runningTask # None => Asked(runningTask) \/ runningTask \in gens \/ Told(runningTask)
  /\ \A r \in gens : r = runningTask \/ AnsweredElsewhere(r)

\* Until start() is called over a socket that has yet to close, the tab has
\* one socket at most, none when it is off; and while it is on it has a
\* socket, one that is about to report its close, or its reconnect timer
\* (connect, scheduleReconnect, stop).
OneSocketOrRetry ==
  /\ overlapped \/ \A s \in Sockets : Up(s) => s = current
  /\ paused => ~retry /\ (overlapped \/ ~heartbeat)
  /\ ~paused => Up(current) \/ sock[current] = "closing" \/ retry

\* When nothing is under way between the two threads, the page reports the
\* models the engine holds, unless the last load failed after it had unloaded
\* the model that was resident (load, onEngineMessage "loaded").
LoadedModelsHonest ==
  (toEngine = <<>> /\ toPage = <<>> /\ loads = <<>> /\ ~unloadedInVain)
    => loadedModels = {resident} \ {None}

\* Every run the tab accepts is answered: its verdict goes out over an open
\* socket, or the coordinator cancels it, or the session it came by ends and
\* the coordinator takes the task back.  What the page says while its socket is
\* not open is dropped, so a session must not outlast the page's use of it: not
\* so once start() has put a socket in the place of one still to close, after
\* which a verdict may be lost (handleAssignment, onEngineMessage, stop, send).
RunsEnd == \A r \in Runs : r \in owed ~> r \notin owed \/ overlapped
=============================================================================
