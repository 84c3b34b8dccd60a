------------------------------- MODULE Lending -------------------------------
(***************************************************************************)
(* How a desktop worker lends its devices: the RPC server agents that      *)
(* index.ts creates, the ggml-rpc-server processes they spawn on one port, *)
(* the restart timers, the owner's pause and resume, and the governor,     *)
(* whose capacity scales the memory the node offers.                       *)
(*                                                                         *)
(* Every call of startPipelineStack makes a new agent, and every start of  *)
(* an agent a new process.  A process that has exited gives up its number.  *)
(***************************************************************************)
EXTENDS Governor, FiniteSets

CONSTANTS
  MaxAgents, MaxProcs,   \* bounds: agents made and processes spawned
  MaxRestarts,           \* restarts an agent tries in a row
  MaxKeys,               \* bound: presses of the pause key
  MaxTroubles            \* bound: crashes, failed downloads, ports that stay shut

ASSUME LendingAssumption == {MaxAgents, MaxProcs, MaxRestarts, MaxKeys, MaxTroubles} \subseteq Nat

VARIABLES
  worker,            \* the Node.js process: "up", "leaving", "gone" or "crashed"
  fetching,          \* calls of startPipelineStack that await the binaries
  rpc,               \* index.ts rpc: the latest agent, 0 before the first
  made,              \* agents made so far
  child, stopping, restarts, devices,   \* fields of each RpcServerAgent
  timer,             \* restart timers of each agent
  proc,              \* state of each ggml-rpc-server process
  agent,             \* the agent that spawned it
  waits,             \* where the start() that spawned it is suspended
  late,              \* a pause or resume met a restart or a launch under way
  lost,              \* a download failed, or an agent ran out of restarts
  heads,             \* PipelineRuntime.current # null: it heads a pipeline (members)
  keys, troubles

agentVars == <<child, stopping, restarts, devices, timer>>
procVars == <<proc, agent, waits>>
mainVars == <<worker, fetching, rpc, made, late, lost, heads, keys>>
vars == <<governorVars, mainVars, agentVars, procVars, troubles>>

Agents == 1..MaxAgents
Procs == 1..MaxProcs
Trouble == troubles < MaxTroubles /\ troubles' = troubles + 1
Serving == {p \in Procs : proc[p] \in {"serving", "dying"}}
Awake == worker \in {"up", "leaving"}
Free(p) == proc[p] = "none" /\ waits[p] = "no"
Live == {p \in Procs : proc[p] \in {"starting", "serving"}}

\* start: nothing when a child is there, otherwise a process and a wait for the port.
Start(a, from, kids, shut) ==
  IF kids[a] # 0
  THEN child' = kids /\ stopping' = shut /\ UNCHANGED procVars
  ELSE \E p \in Procs :
    /\ Free(p) /\ \A q \in 1..(p - 1) : ~Free(q)
    /\ child' = [kids EXCEPT ![a] = p] /\ stopping' = [shut EXCEPT ![a] = FALSE]
    /\ proc' = [proc EXCEPT ![p] = "starting"] /\ agent' = [agent EXCEPT ![p] = a]
    /\ waits' = [waits EXCEPT ![p] = from]

\* stop: the child is told to terminate and forgotten.
Told(a) ==
  IF child[a] = 0 THEN proc
  ELSE [proc EXCEPT ![child[a]] = IF @ = "serving" THEN "dying" ELSE "doomed"]
Stop ==
  IF rpc = 0 THEN UNCHANGED <<child, stopping, devices, proc>>
  ELSE /\ stopping' = [stopping EXCEPT ![rpc] = TRUE]
       /\ child' = [child EXCEPT ![rpc] = 0]
       /\ devices' = [devices EXCEPT ![rpc] = IF child[rpc] = 0 THEN @ ELSE FALSE]
       /\ proc' = Told(rpc)

-----------------------------------------------------------------------------
(* index.ts: the pipeline stack, the owner's keys, and leaving.              *)

FetchEnds ==
  /\ Awake /\ fetching > 0 /\ fetching' = fetching - 1
  /\ made < MaxAgents /\ made' = made + 1 /\ rpc' = made + 1
  /\ Start(made + 1, "stack", child, stopping)
  /\ UNCHANGED <<governorVars, worker, late, lost, heads, keys, restarts, devices, timer, troubles>>

FetchFails ==
  /\ Awake /\ fetching > 0 /\ fetching' = fetching - 1 /\ Trouble
  /\ lost' = TRUE
  /\ UNCHANGED <<governorVars, worker, rpc, made, late, heads, keys, agentVars, procVars>>

UnderWay == fetching > 0 \/ \E a \in Agents : timer[a] > 0

\* Pausing tears the pipeline down, too.
Pause ==
  /\ worker = "up" /\ ~manualPause /\ keys < MaxKeys /\ keys' = keys + 1
  /\ SetManualPause(TRUE) /\ heads' = FALSE /\ Stop
  /\ late' = (late \/ UnderWay)
  /\ UNCHANGED <<signal, worker, fetching, rpc, made, lost, restarts, timer, agent, waits, troubles>>

Resume_Unlaunched ==
  /\ worker = "up" /\ manualPause /\ keys < MaxKeys /\ keys' = keys + 1
  /\ SetManualPause(FALSE)
  /\ UNCHANGED <<signal, worker, fetching, rpc, made, late, lost, heads, agentVars, procVars, troubles>>
Resume ==
  /\ worker = "up" /\ manualPause /\ keys < MaxKeys /\ keys' = keys + 1
  /\ SetManualPause(FALSE) /\ fetching' = fetching + 1
  /\ late' = (late \/ UnderWay)
  /\ UNCHANGED <<signal, worker, rpc, made, lost, heads, agentVars, procVars, troubles>>

\* shutdown awaits the agent's stop, disposes of the runtime, and exits.
Shutdown ==
  /\ worker = "up" /\ worker' = "leaving"
  /\ Stop /\ late' = (late \/ UnderWay)
  /\ UNCHANGED <<governorVars, fetching, rpc, made, lost, heads, keys, restarts, timer, agent,
                 waits, troubles>>

Leave ==
  /\ worker = "leaving" /\ worker' = "gone" /\ heads' = FALSE
  /\ UNCHANGED <<governorVars, fetching, rpc, made, late, lost, keys, agentVars, procVars, troubles>>

\* A launch of the runtime ends with a pipeline configured, or its llama-server exits
\* or is shut down for another one.
Rebinds ==
  /\ Awake /\ rpc # 0 /\ heads' = ~heads
  /\ UNCHANGED <<governorVars, worker, fetching, rpc, made, late, lost, keys, agentVars, procVars,
                 troubles>>

-----------------------------------------------------------------------------
(* The processes, and what the agents hear of them.                          *)

Listen(p) ==
  /\ proc[p] = "starting" /\ Serving = {}
  /\ proc' = [proc EXCEPT ![p] = "serving"]
  /\ UNCHANGED <<governorVars, mainVars, agentVars, agent, waits, troubles>>

\* The exit handler forgets the agent's child, whichever process exits.
Restarts_WhenStopped(a) == restarts[a] < MaxRestarts
Restarts(a) == ~stopping[a] /\ restarts[a] < MaxRestarts
Exited(p) ==
  /\ proc' = [proc EXCEPT ![p] = "none"]
  /\ IF ~Awake THEN UNCHANGED <<agentVars, lost>>
     ELSE LET a == agent[p] IN
       /\ lost' = (lost \/ (~stopping[a] /\ ~Restarts(a)))
       /\ child' = [child EXCEPT ![a] = 0] /\ devices' = [devices EXCEPT ![a] = FALSE]
       /\ restarts' = [restarts EXCEPT ![a] = IF Restarts(a) THEN @ + 1 ELSE @]
       /\ timer' = [timer EXCEPT ![a] = IF Restarts(a) THEN @ + 1 ELSE @]
       /\ UNCHANGED stopping
  /\ UNCHANGED <<governorVars, worker, fetching, rpc, made, late, heads, keys, agent, waits>>

Terminate(p) == proc[p] \in {"dying", "doomed"} /\ Exited(p) /\ UNCHANGED troubles
PortTaken(p) == proc[p] = "starting" /\ Serving # {} /\ Exited(p) /\ UNCHANGED troubles
Crash(p) == p \in Live /\ Trouble /\ Exited(p)

TimerFires(a) ==
  /\ Awake /\ timer[a] > 0 /\ timer' = [timer EXCEPT ![a] = @ - 1]
  /\ Start(a, "timer", child, stopping)
  /\ UNCHANGED <<governorVars, mainVars, restarts, devices, troubles>>

\* waitForPort: any process that listens on the port will do.
PortOpen(p) ==
  /\ Awake /\ waits[p] \in {"stack", "timer"} /\ Serving # {}
  /\ waits' = [waits EXCEPT ![p] = "probing"]
  /\ restarts' = [restarts EXCEPT ![agent[p]] = 0]
  /\ UNCHANGED <<governorVars, mainVars, child, stopping, devices, timer, proc, agent, troubles>>

\* Ten seconds without a listener: an error, which nobody catches when a
\* restart timer made the start.  It is a trouble if the process is coming up.
PortStaysShut(p) ==
  /\ Awake /\ waits[p] \in {"stack", "timer"} /\ Serving = {}
  /\ IF proc[p] = "starting" THEN Trouble ELSE UNCHANGED troubles
  /\ waits' = [waits EXCEPT ![p] = "no"]
  /\ worker' = IF waits[p] = "timer" THEN "crashed" ELSE worker
  /\ UNCHANGED <<governorVars, fetching, rpc, made, late, lost, heads, keys, agentVars, proc, agent>>

\* probeDevices, after a start and every fifteen seconds, but not while the worker
\* heads a pipeline: devices found empty by the start before stay empty for as long.
ProbeDevices(a) == devices' = [devices EXCEPT ![a] = Serving # {}]

ProbeEnds(p) ==
  /\ Awake /\ waits[p] = "probing" /\ waits' = [waits EXCEPT ![p] = "no"]
  /\ ProbeDevices(agent[p])
  /\ UNCHANGED <<governorVars, mainVars, child, stopping, restarts, timer, proc, agent, troubles>>

Reprobe ==
  /\ Awake /\ rpc # 0 /\ child[rpc] # 0 /\ ~heads /\ ProbeDevices(rpc)
  /\ UNCHANGED <<governorVars, mainVars, child, stopping, restarts, timer, procVars, troubles>>

\* A tick of the governor, as a profile is built.
Tick == worker = "up" /\ Update /\ UNCHANGED <<signal, mainVars, agentVars, procVars, troubles>>
Owner == Changes /\ UNCHANGED <<mainVars, agentVars, procVars, troubles>>

-----------------------------------------------------------------------------
Init ==
  /\ GovernorInit
  /\ worker = "up" /\ fetching = 1 /\ rpc = 0 /\ made = 0 /\ keys = 0
  /\ late = FALSE /\ lost = FALSE /\ heads = FALSE
  /\ child = [a \in Agents |-> 0] /\ stopping = [a \in Agents |-> FALSE]
  /\ restarts = [a \in Agents |-> 0] /\ devices = [a \in Agents |-> FALSE]
  /\ timer = [a \in Agents |-> 0]
  /\ proc = [p \in Procs |-> "none"] /\ agent = [p \in Procs |-> 0] /\ waits = [p \in Procs |-> "no"]
  /\ troubles = 0

ProcStep(p) ==
  \/ Listen(p) \/ Terminate(p) \/ PortTaken(p) \/ PortOpen(p) \/ ProbeEnds(p)

Next ==
  \/ FetchEnds \/ FetchFails \/ Pause \/ Resume \/ Shutdown \/ Leave \/ Rebinds
  \/ \E p \in Procs : ProcStep(p) \/ Crash(p) \/ PortStaysShut(p)
  \/ \E a \in Agents : TimerFires(a)
  \/ Reprobe \/ Tick \/ Owner

Spec == Init /\ [][Next]_vars

\* Downloads end, timers fire, waits end, processes start, stop or fail, and the node
\* keeps building profiles; the owner, the pipelines and the troubles are free, so that
\* a worker may head a pipeline at every look of the fifteen-second timer.
FairSpec ==
  /\ Spec
  /\ WF_vars(FetchEnds) /\ WF_vars(Reprobe) /\ WF_vars(Tick)
  /\ \A p \in Procs : WF_vars(ProcStep(p)) /\ WF_vars(PortStaysShut(p))
  /\ \A a \in Agents : WF_vars(TimerFires(a))

-----------------------------------------------------------------------------
(* Properties.                                                               *)

TypeOK ==
  /\ capacity \in 0..MaxCapacity /\ manualPause \in BOOLEAN /\ rpc \in 0..MaxAgents
  /\ child \in [Agents -> 0..MaxProcs] /\ restarts \in [Agents -> 0..MaxRestarts]

\* Every server still to run is the child of the latest agent, so that a
\* pause or a shutdown reaches it; none is left when the owner has paused or
\* the worker has left, unless a restart or a launch was under way when the
\* owner pressed the key (rpc.ts start, stop; index.ts pause, shutdown).
ServersWithinReach ==
  /\ TypeOK
  /\ late \/ \A p \in Live : /\ agent[p] = rpc /\ child[rpc] = p
                             /\ ~manualPause /\ worker # "leaving"

\* Capacity is never given back in one jump, whatever the owner, the pause
\* key and the machine do (governor.ts update, setManualPause).
NeverInOneJump == [][capacity' <= capacity + RampUp]_vars

\* A worker that stays up and unpaused, and heads no pipeline any more, ends up
\* lending all its owner allows, unless a download failed, its restarts ran out, or a key
\* was pressed while a restart or a launch was under way (rpc.ts start; governor.ts
\* update).  A worker that goes on heading a pipeline may well lend nothing: the
\* devices that a start found empty are not looked at again (index.ts main).
Willing(s) == worker = "up" /\ ~manualPause /\ signal = s
Lends(s) == rpc # 0 /\ devices[rpc] /\ capacity = Target(s)
GivenUp == late \/ lost
LendsAtLast ==
  \A s \in Signals : <>[](Willing(s) /\ ~heads) => <>[](Lends(s) \/ GivenUp)
=============================================================================
