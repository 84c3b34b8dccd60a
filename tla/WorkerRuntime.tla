---------------------------- MODULE WorkerRuntime ----------------------------
(***************************************************************************)
(* A desktop worker: its scheduler, which admits tasks and aborts them, on *)
(* top of its pipeline runtime, which starts one llama-server for the set  *)
(* of peers a task names and sends it one generation at a time.            *)
(*                                                                         *)
(* The worker is one JavaScript thread.  A run is one call of accept, and  *)
(* pc says at which await it is suspended.  When a promise settles, every  *)
(* run that awaited it goes on to its next await before the next event.    *)
(* A run launches at most one llama-server, which bears the run's name.    *)
(***************************************************************************)
EXTENDS Integers, FiniteSets

CONSTANTS
  Tasks,             \* task ids; a task may be assigned again
  Runs,              \* calls of WorkerScheduler.accept that pass admission
  Configs,           \* pipeline configurations; equal signatures are equal configs
  Model,             \* Model[c]: the model that configuration c serves
  MaxConcurrent,     \* governor.maxConcurrentTasks
  MaxTroubles,       \* bound: things that fail, cancellations and pauses
  None

ASSUME RuntimeAssumption ==
  /\ None \notin Tasks \cup Runs \cup Configs
  /\ MaxConcurrent \in Nat \ {0} /\ MaxTroubles \in Nat

VARIABLES
  entry,             \* WorkerScheduler.running: the run registered for each task
  task, config,      \* what each run was given
  aborted,           \* runs whose AbortController has fired
  paused,            \* ResourceGovernor.manualPause
  pc, awaits,        \* where a run is suspended, and on whose launch
  child,             \* PipelineRuntime.child
  current,           \* PipelineRuntime.current, and signature (None for "")
  starting,          \* PipelineRuntime.starting: the run that launches
  generating,        \* PipelineRuntime.generating
  available,         \* PipelineRuntime.unavailableReason = null
  process,           \* the llama-server process of each run
  source,            \* the process a generation streams from: None if none serves
  troubles

schedulerVars == <<entry, task, config, aborted, paused>>
runtimeVars == <<child, current, starting, generating, available>>
vars == <<schedulerVars, runtimeVars, pc, awaits, process, source, troubles>>

Launching == {"fetching", "terminating", "checking", "answered", "failing"}
Continuing == {"admitted", "resumed", "configured"}
Active == Launching \cup Continuing \cup {"waiting", "generating"}
Quiet == \A r \in Runs : pc[r] \notin Continuing
Serving == {s \in Runs : process[s] = "serving"}
Lingering == {s \in Runs : process[s] = "terminating"}   \* it may answer until it exits
Trouble == troubles < MaxTroubles /\ troubles' = troubles + 1

-----------------------------------------------------------------------------
(* The worker scheduler.                                                     *)

Running == {t \in Tasks : entry[t] # None}

\* admissionError: what refuses a task leaves no trace in this state.
Admits_Unlimited == ~paused /\ available
Admits == ~paused /\ available /\ Cardinality(Running) < MaxConcurrent

\* accept, up to the call of configure.
Fresh == CHOOSE r \in Runs : pc[r] = "unused"
Accept(r, t, c) ==
  /\ Quiet /\ pc[r] = "unused" /\ r = Fresh /\ Admits
  /\ entry' = [entry EXCEPT ![t] = r]
  /\ task' = [task EXCEPT ![r] = t] /\ config' = [config EXCEPT ![r] = c]
  /\ pc' = [pc EXCEPT ![r] = "admitted"]
  /\ UNCHANGED <<aborted, paused, runtimeVars, awaits, process, source, troubles>>

\* The end of accept.  It deletes the entry of the task, whichever run made it.
Unregistered(t) == [entry EXCEPT ![t] = None]
Ends(r) ==
  /\ pc' = [pc EXCEPT ![r] = "ended"]
  /\ entry' = Unregistered(task[r])
  /\ UNCHANGED <<task, config, aborted, paused, awaits>>

Cancel(t) ==
  /\ Quiet /\ entry[t] # None /\ Trouble
  /\ aborted' = aborted \cup {entry[t]}
  /\ entry' = [entry EXCEPT ![t] = None]
  /\ UNCHANGED <<task, config, paused, runtimeVars, pc, awaits, process, source>>

-----------------------------------------------------------------------------
(* The pipeline runtime.                                                     *)

\* shutdownChild, up to its await: SIGTERM is sent and nothing is bound any more.
\* (kill sets killed, so the SIGKILL that would follow is never sent.)
Terminated(p) == IF child = None THEN p ELSE [p EXCEPT ![child] = "terminating"]
ShutdownChild ==
  /\ process' = Terminated(process)
  /\ child' = None /\ current' = None
  /\ UNCHANGED <<generating, available>>

Matches_ModelOnly(r) == current # None /\ Model[current] = Model[config[r]] /\ child # None
Matches(r) == current = config[r] /\ child # None

\* configure's first two looks at what is bound, without an await between them.
Configure_Unserialised(r) ==
  /\ pc[r] = "admitted"
  /\ IF Matches(r)
       THEN pc' = [pc EXCEPT ![r] = "configured"] /\ UNCHANGED <<awaits, starting>>
       ELSE /\ starting' = r /\ pc' = [pc EXCEPT ![r] = "fetching"] /\ UNCHANGED awaits
  /\ UNCHANGED <<schedulerVars, child, current, generating, available, process, source, troubles>>
Configure(r) ==
  /\ pc[r] = "admitted"
  /\ \/ /\ Matches(r)
        /\ pc' = [pc EXCEPT ![r] = "configured"] /\ UNCHANGED <<awaits, starting>>
     \/ /\ ~Matches(r) /\ starting # None
        /\ pc' = [pc EXCEPT ![r] = "waiting"]
        /\ awaits' = [awaits EXCEPT ![r] = starting] /\ UNCHANGED starting
     \/ /\ ~Matches(r) /\ starting = None
        /\ pc' = [pc EXCEPT ![r] = "fetching"] /\ starting' = r /\ UNCHANGED awaits
  /\ UNCHANGED <<schedulerVars, child, current, generating, available, process, source, troubles>>

\* soloConfig finds that this node serves no devices.
Unprepared(r) ==
  /\ pc[r] = "admitted" /\ Trouble /\ Ends(r)
  /\ UNCHANGED <<runtimeVars, process, source>>

\* The last look, after the launch it awaited; it does not look at starting again.
Resume(r) ==
  /\ pc[r] = "resumed" /\ \A q \in Runs : pc[q] # "configured"
  /\ IF Matches(r) THEN pc' = [pc EXCEPT ![r] = "configured"] /\ UNCHANGED starting
     ELSE starting' = r /\ pc' = [pc EXCEPT ![r] = "fetching"]
  /\ UNCHANGED <<schedulerVars, child, current, generating, available, awaits, process,
                 source, troubles>>

\* The launch of r settles: configure clears starting and r's waiters resume.
Waits(q, r) == pc[q] = "waiting" /\ awaits[q] = r
Resumed_OnSuccess(r, next) ==
  [q \in Runs |-> IF q = r THEN next
                  ELSE IF next = "configured" /\ Waits(q, r) THEN "resumed" ELSE pc[q]]
Resumed(r, next) ==
  [q \in Runs |-> IF q = r THEN next ELSE IF Waits(q, r) THEN "resumed" ELSE pc[q]]
LaunchFails(r) ==
  /\ pc' = Resumed(r, "ended") /\ starting' = None
  /\ entry' = Unregistered(task[r])
  /\ UNCHANGED <<task, config, aborted, paused, awaits, source>>

\* launch, from one await to the next: fetchWeights, shutdownChild, waitForHealth.
Spawn(r, p) ==
  /\ pc' = [pc EXCEPT ![r] = "checking"]
  /\ process' = [p EXCEPT ![r] = "starting"] /\ child' = r
Fetched(r) ==
  /\ Quiet /\ pc[r] = "fetching" /\ current' = None
  /\ IF child = None THEN Spawn(r, process)
     ELSE /\ pc' = [pc EXCEPT ![r] = "terminating"]
          /\ process' = Terminated(process) /\ child' = None
  /\ UNCHANGED <<schedulerVars, starting, generating, available, awaits, source, troubles>>
Waited(r) ==
  /\ Quiet /\ pc[r] = "terminating" /\ Spawn(r, process)
  /\ UNCHANGED <<schedulerVars, current, starting, generating, available, awaits, source,
                 troubles>>
\* No weights, or no binaries to run them.
FetchFails(r) ==
  /\ Quiet /\ pc[r] = "fetching" /\ Trouble /\ LaunchFails(r)
  /\ UNCHANGED <<child, current, generating, available, process>>

\* /health is asked of a port, and so answered by whichever process serves there.
\* A predecessor that was told to terminate may answer, too, and by the time the answer
\* is read the process may be gone.
Asked(r) ==
  /\ Quiet /\ pc[r] = "checking" /\ child # None /\ Serving \cup Lingering # {}
  /\ pc' = [pc EXCEPT ![r] = "answered"]
  /\ UNCHANGED <<schedulerVars, runtimeVars, awaits, process, source, troubles>>
Healthy(r) ==
  /\ Quiet /\ pc[r] = "answered"
  /\ current' = config[r] /\ available' = TRUE /\ starting' = None
  /\ pc' = Resumed(r, "configured")
  /\ UNCHANGED <<schedulerVars, child, generating, awaits, process, source, troubles>>

\* The process is gone or was unbound; or the deadline has passed, and the process
\* is shut down first.
Stopped(r) ==
  /\ Quiet /\ pc[r] = "checking" /\ child = None
  /\ ShutdownChild /\ LaunchFails(r) /\ UNCHANGED troubles
Overdue(r) ==
  /\ Quiet /\ pc[r] = "checking" /\ child # None /\ Trouble
  /\ ShutdownChild /\ pc' = [pc EXCEPT ![r] = "failing"]
  /\ UNCHANGED <<schedulerVars, starting, awaits, source>>
Failed(r) ==
  /\ Quiet /\ pc[r] = "failing" /\ LaunchFails(r)
  /\ UNCHANGED <<child, current, generating, available, process, troubles>>

\* generate, up to its first await.  The request reaches whichever process serves;
\* what a lingering predecessor makes of it is left open.
Busy_Ignored == FALSE
Busy == generating
Answering == IF Serving = {} THEN {None} ELSE Serving
MayGenerate(r) ==
  ~Busy /\ child # None /\ current # None /\ Model[current] = Model[config[r]]
Generate(r) ==
  /\ pc[r] = "configured"
  /\ IF MayGenerate(r)
       THEN /\ pc' = [pc EXCEPT ![r] = "generating"] /\ generating' = TRUE
            /\ \E s \in Answering : source' = [source EXCEPT ![r] = s]
            /\ UNCHANGED <<schedulerVars, awaits>>
       ELSE Ends(r) /\ UNCHANGED <<generating, source>>
  /\ UNCHANGED <<child, current, starting, available, process, troubles>>

\* The stream ends: with the answer, or because r was aborted, because its process
\* is gone or never was, or because the request failed.  Each is one report.
StreamEnds(r) ==
  /\ Quiet /\ pc[r] = "generating" /\ generating' = FALSE /\ Ends(r)
  /\ source' = [source EXCEPT ![r] = None]
  /\ UNCHANGED <<child, current, starting, available, process, troubles>>

-----------------------------------------------------------------------------
(* Processes, and the owner.                                                 *)

\* The exit handler of the process that is bound: only an exit code other than 0 makes
\* the runtime unavailable.
Exited(s, bad) ==
  /\ process' = [process EXCEPT ![s] = "gone"]
  /\ IF child # s THEN UNCHANGED <<child, current, available>>
     ELSE child' = None /\ current' = None /\ available' = (available /\ ~bad)
  /\ UNCHANGED <<schedulerVars, starting, generating, pc, awaits, source>>

\* A process whose port is still taken exits with an error.
PortTaken == \E p \in Runs : process[p] \in {"serving", "terminating"}
Listen(s) ==
  /\ Quiet /\ process[s] = "starting" /\ UNCHANGED troubles
  /\ IF PortTaken THEN Exited(s, TRUE)
     ELSE /\ process' = [process EXCEPT ![s] = "serving"]
          /\ UNCHANGED <<schedulerVars, runtimeVars, pc, awaits, source>>
Crash(s) ==
  /\ Quiet /\ process[s] \in {"starting", "serving"} /\ Trouble
  /\ \E bad \in BOOLEAN : Exited(s, bad)
Terminate(s) == Quiet /\ process[s] = "terminating" /\ Exited(s, TRUE) /\ UNCHANGED troubles

\* The owner pauses: cancelAll, then teardown.  Resuming attaches the runtime anew,
\* or finds that it cannot.
Cut_None == {}
Cut == {entry[t] : t \in Running}
Pause ==
  /\ Quiet /\ ~paused /\ paused' = TRUE /\ Trouble
  /\ aborted' = aborted \cup Cut
  /\ entry' = [t \in Tasks |-> None]
  /\ ShutdownChild
  /\ UNCHANGED <<task, config, starting, pc, awaits, source>>
Unpause ==
  /\ Quiet /\ paused /\ paused' = FALSE /\ available' \in BOOLEAN
  /\ UNCHANGED <<entry, task, config, aborted, child, current, starting, generating,
                 pc, awaits, process, source, troubles>>

-----------------------------------------------------------------------------
Init ==
  /\ entry = [t \in Tasks |-> None]
  /\ task = [r \in Runs |-> None] /\ config = [r \in Runs |-> None]
  /\ aborted = {} /\ paused = FALSE
  /\ pc = [r \in Runs |-> "unused"] /\ awaits = [r \in Runs |-> None]
  /\ child = None /\ current = None /\ starting = None
  /\ generating = FALSE /\ available = TRUE
  /\ process = [r \in Runs |-> "unused"] /\ source = [r \in Runs |-> None]
  /\ troubles = 0

Continues(r) == Configure(r) \/ Resume(r) \/ Generate(r)
Launches(r) == Fetched(r) \/ Waited(r) \/ Asked(r) \/ Healthy(r) \/ Stopped(r) \/ Failed(r)

Next ==
  \/ \E r \in Runs :
       \/ \E t \in Tasks, c \in Configs : Accept(r, t, c)
       \/ Continues(r) \/ Unprepared(r) \/ StreamEnds(r)
       \/ Launches(r) \/ FetchFails(r) \/ Overdue(r)
       \/ Listen(r) \/ Crash(r) \/ Terminate(r)
  \/ \E t \in Tasks : Cancel(t)
  \/ Pause \/ Unpause

Spec == Init /\ [][Next]_vars

\* Promises settle: weights are fetched, waits end, a launch is healthy or past its
\* deadline, a stream ends, and processes start and stop.
Fairness ==
  \A r \in Runs :
    /\ WF_vars(Continues(r)) /\ WF_vars(Launches(r)) /\ WF_vars(StreamEnds(r))
    /\ WF_vars(Listen(r)) /\ WF_vars(Terminate(r))
FairSpec == Spec /\ Fairness

-----------------------------------------------------------------------------
(* Properties.                                                               *)

Maybe(S) == S \cup {None}

\* The variables have their types.
TypeOK ==
  /\ entry \in [Tasks -> Maybe(Runs)]
  /\ task \in [Runs -> Maybe(Tasks)] /\ config \in [Runs -> Maybe(Configs)]
  /\ aborted \subseteq Runs /\ paused \in BOOLEAN
  /\ pc \in [Runs -> Active \cup {"unused", "ended"}] /\ awaits \in [Runs -> Maybe(Runs)]
  /\ child \in Maybe(Runs) /\ current \in Maybe(Configs) /\ starting \in Maybe(Runs)
  /\ generating \in BOOLEAN /\ available \in BOOLEAN
  /\ process \in [Runs -> {"unused", "starting", "serving", "terminating", "gone"}]
  /\ source \in [Runs -> Maybe(Runs)] /\ troubles \in Nat

\* One pipeline serves one request at a time, and the flag that sees to it is neither
\* left set by a run that ended nor cleared by one that did not set it.
OneGeneration ==
  /\ \A q, r \in Runs : pc[q] = "generating" /\ pc[r] = "generating" => q = r
  /\ generating <=> \E r \in Runs : pc[r] = "generating"

\* A task that was given to the worker once can be cancelled for as long as its run
\* goes on, unless the run has been aborted already; and a run that was not aborted
\* has its task in the count that admission and the heartbeats go by.
GivenOnce(r) == \A q \in Runs : pc[q] # "unused" /\ task[q] = task[r] => q = r
RunsAreRegistered ==
  \A r \in Runs : pc[r] \in Active /\ r \notin aborted /\ GivenOnce(r) => entry[task[r]] = r

\* The owner's limit: of the runs that nobody aborted, no more go on than the limit,
\* if every task is given once.  (An aborted run frees its slot at once and goes on.)
Unaborted == {r \in Runs : pc[r] \in Active /\ r \notin aborted}
LimitHeld == (\A r \in Unaborted : GivenOnce(r)) => Cardinality(Unaborted) <= MaxConcurrent

\* No llama-server is left running that the runtime has lost track of, as long as no
\* two runs have waited for the same launch: each of them would launch on resuming.
NeverTwoWaiters == \A q, r \in Runs : awaits[q] = awaits[r] /\ awaits[q] # None => q = r
ServerIsChild == \A s \in Runs : process[s] \in {"starting", "serving"} => child = s
NoStrayServer == NeverTwoWaiters => ServerIsChild

\* Under the same condition a generation streams from the server that was started for
\* its configuration, unless one that was told to terminate still answers on the port.
SourceMatches ==
  \A r \in Runs : pc[r] = "generating" /\ source[r] # None => config[source[r]] = config[r]
ServedByItsPeers == NeverTwoWaiters => SourceMatches

\* The inductive invariant behind these.  Runs know their tasks; the count that admission
\* goes by is within the limit; and, while no two runs have waited for one launch, there
\* is one launch at a time, it alone gives the runtime a child, and what is bound is the
\* configuration the child was started for.
RunsKnowTheirTask == \A r \in Runs : pc[r] \in Active => task[r] \in Tasks /\ config[r] \in Configs
SlotsBounded == IsFiniteSet(Running) /\ Cardinality(Running) <= MaxConcurrent
Deciding == {"admitted", "resumed"}
LaunchesSerialised ==
  /\ \A r \in Runs : pc[r] \in Launching <=> starting = r
  /\ \A q, r \in Runs : pc[q] \in Deciding /\ pc[r] \in Deciding => q = r
  /\ \A r \in Runs : pc[r] = "resumed" => starting = None
NotYetWaited == \A r \in Runs : pc[r] \in {"unused", "admitted"} => awaits[r] = None
Before == {"unused", "admitted", "waiting", "resumed", "fetching", "terminating"}
BoundToChild ==
  /\ ServerIsChild
  /\ child # None => process[child] \in {"starting", "serving"}
  /\ child # None /\ current # None => current = config[child]
  /\ \A r \in Runs : pc[r] \in {"terminating", "failing"} => child = None /\ current = None
  /\ \A r \in Runs : pc[r] \in {"checking", "answered"} => child \in {r, None} /\ current = None
  /\ \A r \in Runs : pc[r] \in Before => process[r] = "unused"
  /\ \A r \in Runs : pc[r] = "configured" => current = config[r] \/ child = None
  /\ \A r \in Runs : process[r] # "unused" => config[r] \in Configs
  /\ \A r \in Runs : source[r] # None => process[source[r]] # "unused"
ServersTracked ==
  NeverTwoWaiters => LaunchesSerialised /\ BoundToChild /\ SourceMatches
RuntimeInv ==
  /\ TypeOK /\ OneGeneration /\ RunsKnowTheirTask /\ RunsAreRegistered /\ SlotsBounded
  /\ NotYetWaited /\ ServersTracked

\* Every run that was admitted comes to an end, so that its verdict is sent: as there
\* are finitely many, and none starts twice, there is a time after which none goes on.
EveryRunEnds == <>[](\A r \in Runs : pc[r] \notin Active)

\* While the owner has paused and no run goes on, no llama-server is left running:
\* not so when the pause meets a launch between two awaits (index.ts pause, launch).
PauseReleasesMemory ==
  paused /\ (\A r \in Runs : pc[r] \notin Active)
    => \A s \in Runs : process[s] \notin {"starting", "serving"}

=============================================================================
