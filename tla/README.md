# A verification development for Community AI

Community AI runs language models on computers people lend to it. Workers
(desktop processes and browser tabs) connect to a coordinator over WebSockets;
users submit jobs from a web page; the coordinator splits a job into tasks, hands
each task to a worker, and takes it back when the worker refuses, fails, times
out or disappears. This directory holds TLA+ models of that system, the TLC
configurations that check them, and proofs of the safety theorems.

Paths below are relative to `src/community-ai/packages` unless they start with
`src/`. Run `tlc -workers 2 -config X.cfg M` for a run and `tlapm M.tla` for a proof
module.

## 1. Inventory

| Component | State it keeps | Operations | Talks to |
| --- | --- | --- | --- |
| Job manager (`coordinator/src/jobs.ts`) | jobs, tasks, one queue per node and job, attempts, plan | submit, pump, dispatch, requeue, onTaskAccepted / Rejected / Completed / Failed, onNodeLost, maybeFinish, cancel, sweepTimeouts | registry (reads views, counts `activeTasks`), server (send), microtask queue (deferred pumps) |
| Device registry (`coordinator/src/registry.ts`) | one entry per node: socket, profile, governor, `activeTasks` | add, remove, updateHeartbeat, recordPing/Pong, stale | server, job manager, scheduler |
| Server (`coordinator/src/server.ts`) | per-connection `nodeId`, client sets, timers | register, heartbeat, task messages, drop, ping/sweep timers, client submit/cancel | everything in the coordinator |
| Scheduler, analyzer (`coordinator/src/scheduler.ts`, `analyzer.ts`) | none | eligibleNodes, formCluster, pickReduceNode, analyzeWorkload | job manager |
| Pipeline planner (`coordinator/src/pipeline.ts`) | none | planPipeline, pickHead | job manager |
| Worker client (`worker-node/src/client.ts`) | socket, reconnect timer, heartbeat timer, stopped | start, stop, connect, send, scheduleReconnect | coordinator, worker scheduler |
| Worker scheduler (`worker-node/src/scheduler.ts`) | running tasks with abort controllers | accept, cancel, cancelAll | runtime, governor, client |
| Pipeline runtime (`worker-node/src/runtime/llamaServer.ts`) | llama-server child, current configuration, signature, `starting`, `generating`, `unavailableReason` | configure, launch, generate, teardown | worker scheduler, model files |
| RPC agent (`worker-node/src/agents/rpc.ts`) | rpc-server child, restart counter, `stopping` | start, stop, exit handler, probeDevices | entry point |
| Governors (`worker-node/src/agents/governor.ts`, `web/src/lib/governor.ts`) | capacity, state, manual pause | update, setManualPause, markContributing | scheduler, profile |
| Browser contributor and WebLLM engine (`web/src/lib/contributor.ts`, `web/src/contribute/webllm.worker.ts`) | socket, running task, engine, loaded model, `cancelled` | start, stop, handleAssignment, load, generate, cancel | coordinator, Web Worker |
| Coordinator hook (`web/src/lib/useCoordinator.ts`) | jobs and conversations the page shows | submit, cancel, event handlers | coordinator |
| Rust crates (`src/crates`) | peer registry, shard cache, governor | a second, peer-to-peer design; not connected to the TypeScript system | each other |

How they interact. The coordinator is one JavaScript thread: a handler runs to
completion, then the microtasks it queued, then the next event. Between
coordinator and worker there are two ordered channels per socket; a socket may
close on one side long before the other side hears of it. A worker is also one
thread, but its handlers await (`buildProfile`, `configure`, `generate`), so
they interleave with each other.

What is hard:

- *Two views of one task.* The coordinator's ledger (status, nodeId, attempts), its
  queues and its busy counts must agree with what workers do, although refusals,
  failures, answers, lost nodes, timeouts and cancellations arrive in any order.
- *Deferred pumps.* `requeue` runs inside `pump` and inside every handler, and defers
  the next `pump` to a microtask.
- *Sessions.* A worker reconnects before the coordinator has noticed that its old
  session is gone; close events, the stale sweep and re-registration race.
- *Slots.* A node's slots are handed out by two loops (queues, stealing) and freed by
  four handlers; heartbeats overwrite the count with an older one.
- *Awaits in the worker.* Cancel and pause free a slot while the aborted
  generation, or the launch of llama-server, is still under way.

- *Two threads in a tab.* The page and the WebLLM engine exchange messages over two
  queues; the engine awaits none of the loads and generations it starts, and an owner
  who changes the model stops and starts everything at once.
- *Agents on one port.* Each resume makes a new RPC agent; exit handlers, restart timers and
  suspended starts of earlier ones run on.
- *A page that answers by itself.* The dashboard types an answer of its own on timers and
  writes the same fields as the coordinator's reports.

What makes each component correct:

- job manager: a task is with one worker at a time; none is lost between ledger
  and queues; retries are capped; a job completes only with its work settled, once,
  and stays ended; every job ends; no node idles with work queued for it.
- registry and sessions: an entry lasts no longer than its session; work sent over
  a lost session is taken back; a reconnected worker stays registered.
- worker client: connected or retrying, one socket.
- worker scheduler, runtime and RPC agent: slots reflect what runs; pausing
  releases what it promises; a failure of llama-server is not for ever.
- planner, allocation: every item is given out once, shares add up, budgets hold, a
  pipeline is no longer than it must be.
- contributor: the page and the engine agree on what runs and what is loaded; one socket,
  or a timer to open one; every accepted task is answered, or its session ends.
- governor: capacity comes back step by step; an undisturbed worker that heads no pipeline
  lends all it may.
- coordinator hook: one line to the coordinator; the prompt comes back; the page ends up
  showing what the coordinator has.

## 2. Modules

| Module | Models | State and actions |
| --- | --- | --- |
| `TaskHandoff` | what the coordinator promises about a task that leaves a queue (abstract) | phase/holder/attempts of a task, what each socket carries, what each worker runs; `Dispatch`, `OnTaskCompleted`, `OnTaskReturned`, `OnNodeLost`, `Register`, and the worker's `Accept`, `Reject`, `Complete`, `FailTask` |
| `TaskHandoff_proofs` | theorems about it | |
| `JobManager` | job manager, with the part of the registry, the server and the workers it talks to | one action per handler; see below |
| `JobManager_proofs` | theorems about it | |
| `JobManagerHandoff_proofs` | `JobManager` implements `TaskHandoff`, and leaves no node idle beside work | |
| `Session` | worker clients, connections, registry entries and the timers that end them | `Connect`, `SendRegister`, `LoseSocket`, `NoticeClose`, `Stop`, `BreakLink`; `OnRegister`, `CloseEvent`, `Sweep`, `Assign`, `Answer` |
| `Session_proofs` | theorems about it | |
| `WorkerRuntime` | a worker's scheduler on top of its pipeline runtime | `Accept`, `Cancel`, `Pause`, `Unpause`; `Configure`, `Resume`, the launch from await to await, `Generate`, `StreamEnds`; processes: `Listen`, `Crash`, `Terminate` |
| `WorkerRuntime_proofs` | theorems about it | |
| `BrowserWorker` | a contributing tab: `Contributor`, the WebLLM worker thread, the queues between them, the sockets | `Open`, `Registered`, `CloseEvent`, `RetryFires`; `Probed`, `ToggleOn`, `ToggleOff`, `ChangeModel`; `HandleAssignment`, `Decline`, `CancelTask`, `PrepareModel`; `EngineTakes`, `Unloaded`, `Created`, `LoadFails`, `GenerationEnds`; `OnEngineMessage` |
| `BrowserWorker_proofs` | theorems about its sockets, its tasks and its models | |
| `Governor` | the desktop worker's resource governor | `Update` (a tick), `SetManualPause`; `Changes` of the machine |
| `Lending` | RPC agents, their processes and timers, pause, resume and shutdown, composed with `Governor` | `FetchEnds`, `Pause`, `Resume`, `Shutdown`, `Rebinds`; `TimerFires`, `PortOpen`, `PortStaysShut`, `ProbeEnds`, `Reprobe`, `Tick`; processes: `Listen`, `Terminate`, `PortTaken`, `Crash` |
| `ClientView` | the dashboard's hook against the coordinator's client handlers | `Open`, `CloseEvent`, `Reconnect`, `Discover`; `Submit`, `Cancel`, `StreamStarts`, `StreamEnds`, `Choose`, `OnMessage`; `Receive`, `Dropped`, `JobEnds`, `BroadcastTimer`; `Restart`, `HostGone`, `Break` |
| `ClientView_proofs` | theorem about its sockets | |
| `PipelinePlanner` | `planPipeline`, `pickHead` as operators | |
| `ClusterScheduler` | eligibility, the analyzer, `formCluster`, `allocateByShare`, `buildTasks` as operators; extends `PipelinePlanner` | |
| `JobPlanning` | `submit` over reports of the nodes; extends `ClusterScheduler` | `Report`, `SubmitSplit`, `SubmitCluster` |
| `Sharing_proofs` | theorems about `Lending` and about `JobPlanning` | |
| `MC...` | instances for TLC, one per checked module | |

`Lending` extends `Governor` and the three planning modules extend one another.
`JobManager` implements `TaskHandoff` (`INSTANCE` with a refinement mapping). `JobManager`
takes any outcome of planning; `JobPlanning` says which outcomes the code produces.

### JobManager

A handler of the coordinator is one action. The calls it makes are operators from
a coordinator state (a record of the coordinator's variables) to the next one,
named as in the code: `Pump`, `Dispatch`, `Requeue`, `MaybeFinish`, `NodeLost`.
Its loops (over the queues of a job, the tasks of a lost node, the iterations of
stealing) are `Iterate`, which applies an operator turn by turn, so that a loop can be
proved about like any other step. `queueMicrotask(() => pump(job))` appends to `pumps`, and no event is handled while
`pumps` is not empty (`Quiet`). `inbox[n]` and `outbox[n]` are what the socket of node
n carries; `open` is the set of sockets in state OPEN, so a node in `registered \
open` is one whose close event is still to come.

Abstractions, and why they are sound for what is checked:

- Nodes are ranked once and for all (1 first). `DeviceRegistry.toViews` re-sorts by
  score; only *which* of several suitable nodes is taken depends on it.
- `formCluster` and `allocateByShare` are replaced by every order of every non-empty
  subset of eligible nodes and every split of the items into consecutive runs
  (`Clusters`, `Splits`), a superset of what the scores can choose.
- Eligibility is `registered \cap able`; models are loaded everywhere, so the cold
  and the warm branch of `requeue` coincide.
- Output text, tokens, metrics and emitted events are left out. `onTaskRejected` and
  `onTaskFailed` differ only in statistics and are one action.
- A pump that is already queued for a job is not queued again: the second finds
  nothing left to hand out. An endless chase of `pump` and `requeue`, which in the
  code happens partly inside one `pump` (the loop visits keys set while it runs),
  shows as an endless run of microtasks.
- The 200 iterations of the stealing loop are `StealLimit`; the instances never
  need more than 3.
- A worker that dies resets its connection and `drop` runs (`Crash`); `SweepStale`
  is the timer that removes a silent node while its worker goes on; `BeginClose` is
  the window in which a socket is not OPEN and its close event has not been
  handled.
- A worker whose link broke may register over its live session (`Reregister`): its entry starts
  again at no active tasks, with tasks held, and nothing is queued again or pumped. `replaced` has the
  nodes whose old session is still to close; that close event removes the new entry
  (`ReplacedCloseEvent`). One replaced session of a node at a time is the bound; connections one by one
  are in `Session`.
- A heartbeat replaces the profile and the governor, so that it may make any node
  ineligible, and any that is not paused eligible again.
- Completion by a handler is justified by the state it leaves behind, except when a node was given up that
  still works: a late answer can complete a task that waits, and the requeue loop of a
  node loss can complete a job and then give a task of it up. `CompletionJustified` therefore speaks of the
  steps up to the first timeout, sweep, pause or replaced session. Besides the ledger it says when the step
  may do without a reduce that the job asks for: one item answered, or no node free (`ReduceDone`).
- `sweepTimeouts` may take any task of which no message is still in a channel: the
  timeout (180 s) is far beyond the time in which a node with a dead link is swept
  (12 s).

### Session

A connection is created once and has two ends, `client[c]` and `server[c]`, that close
independently. `building[n]` counts `open` handlers that wait for `buildProfile`, after
which they register over the socket of that moment. Failed connection attempts
change nothing (the timer is set again) and heartbeats of an unregistered node are
ignored, so both are left out. A worker that restarts is a worker that loses its
socket. Tasks appear as the sessions they were sent on (`held`).

### WorkerRuntime

One call of `WorkerScheduler.accept` that passes admission is a run, and `pc[r]` says at
which await it is suspended: waiting for somebody else's launch (`starting`), in its own
launch (fetching weights, the 400 ms after SIGTERM, asking `/health`), or streaming. What
happens between two awaits is one step; promises that settle are followed through
(`Quiet`) before the next event, in an order that the model leaves open where nothing
depends on it. A run launches at most one llama-server, so the process bears the
run's name.

- A configuration stands for its signature: model, endpoints and rounded shares.
- Admission by capacity, model name and weights on disk refuses without a trace and is
  left out; `unavailableReason` is `available`.
- Who holds the port answers: `/health` and the completion go to any serving process.
  A process that finds the port taken exits with an error (`PortTaken`, external). One that was
  told to terminate holds the port and may answer `/health` until it exits (`Lingering`); what becomes of a
  completion it is asked for is left open, so that a generation has a `source` only if a process serves.
- A process may exit with code 0, which leaves `unavailableReason` as it is.
- Whether a stream ended with the answer or an error makes no difference to the worker's
  state, so `StreamEnds` is one action; what the coordinator makes of it is in
  `JobManager`.
- Resuming attaches the runtime again, which in the code takes a moment.

### BrowserWorker

A handler of either thread, up to its first await, is one step. `toEngine` and `toPage` are
`postMessage` in the two directions. `loads` and `gens` hold the loads and generations that
are suspended in the engine, by the await they are at. `starts` holds the calls of `start()`
that await `probe()`. Terminating the engine (`Stop`) drops everything in it and in both
queues.

- Tokens, metrics and progress are left out, and so are the reasons of a refusal: the
  governor may decline at any time (`Decline`).
- `cancelled` is one flag for the thread and the next `generate` clears it, so a cancel
  promises nothing but that generations may end, which `GenerationEnds` always allows.
- A task may be assigned again (`TaskOf` maps two runs to one task) because the coordinator
  does so after a timeout; the engine's answers name the task, not the run (`ForRunning`).
- Heartbeats carry nothing of interest; only whether the timer is set is kept.
- `send` drops what the page says while its current socket is not open. `owed` has the runs accepted whose
  verdict has not gone out over an open socket, for as long as some session of the tab lasts: when the last
  one ends the coordinator takes its tasks back. A `task:accepted` that is dropped leaves
  the task assigned, which the coordinator reclaims as it does a running one, so nothing records it.
- A load of a model that has no browser build posts nothing (`LoadModel`).

### Governor and Lending

Capacity is counted in steps. A reading names the branch of `update` that each signal falls
in; each branch contributes a ceiling and the target is the least of them, which is what the
sequence of `Math.min` computes. The labels shown to the owner are left out. In `Lending`,
`child`, `stopping`, `restarts` and `devices` are the fields of `RpcServerAgent`, `timer` counts
its restart timers, `waits[p]` is where the `start()` that spawned process p is suspended. `heads` is
`members.length > 0` of the runtime: a launch or the end of a llama-server changes it at any time (`Rebinds`), a
pause clears it, and while it is true `Reprobe` is not taken. One
process listens on the port; `waitForPort` is satisfied by whichever that is.

### ClientView

`active[s]` says that socket s belongs to the current run of the effect; a discovery cleans
up and runs the effect again, and close events of earlier runs are ignored. The address in
use is left when it cannot be reached or, once in a while, when it answers later than the probe waits. `stream[j]` is
where the page's own answer to job j is: `staged` while its timeouts are pending and can be
cleared, `streaming` once its interval runs and cannot. `Shown` is the switch over messages.
Jobs end at any time (`JobEnds`): how is the job manager's concern. `ok` and `connected` of the
hook are constants in the code and left out.

### PipelinePlanner, ClusterScheduler, JobPlanning

Sets of nodes become sequences in the order the stable sorts of the code produce
(`Listed`, `MemoryFirst`, `Nearest`): `InOrder` gives a node the number of nodes before it as its
place. Scores are integers, at least 1 because `scheduler.ts:128` takes no throughput for less than 0.01, with the factors of the code scaled up, so that ties of
the code are ties of the model up to rounding of a score; shares are weights over their sum and stay exact.
The explanations given to users and the estimate of the hop time are left out. `MaxMembers`,
`SoloNeeded` and `Needed` are the limits of the configuration and of the model on display.

## 3. Runs

| Run | Instance | Shows |
| --- | --- | --- |
| `jobs` | 2 nodes, a batch of 2 with reduce, 2 attempts, any 2 of 10 kinds of trouble (980k states) | types, queues on registered nodes, unique completion and final outcomes, whatever the trouble; no mislaid task, one worker per task and work conservation, each for as long as the troubles it names are the only ones |
| `jobs_shared` | 2 nodes, a batch of 2 with reduce and a pipeline job, 2 attempts, 2 of crash, failure, refusal, cancel, heartbeat (650k) | busy counts are exact until a cancel or a heartbeat, and after one of the two err on the free side; a re-planned pipeline's task is at its head; a completion has its work settled, and does without a reduce only as `ReduceDone` says |
| `jobs_end` | as `jobs`, crash/fail/reject, 2 troubles, with fairness | every job ends unless a task was given up; `JobManager` implements `TaskHandoff` |
| `handoff` | 2 nodes, 3 tasks, 2 attempts | the promises of `TaskHandoff`: one worker, nothing stranded, the cap |
| `session` | 2 workers (one refused), 3 connections, 2 troubles (230k) | sessions, registry and workers agree; orphaned work is reclaimed |
| `worker` | 3 runs of 2 tasks, 2 sets of peers of one model, one slot (the default), 2 failures, cancellations or pauses (600k) | slots, generations and processes agree; every run ends |
| `browser` | 3 runs of 2 tasks, 2 models, 2 sockets, 2 acts of the owner, 1 trouble (1.03M) | what the page accepted is with the engine or settled; one socket or its timer; honest loaded models; every accepted task is answered over an open socket, cancelled, or taken back with its session, up to the first overlap of `start()` with an old socket |
| `lending` | 2 agents, 3 processes, 1 restart, 2 key presses, 1 trouble, 2 readings (1.11M) | a pause or a shutdown reaches every server; no jump of capacity; a worker left alone lends all it may, if it heads no pipeline any more |
| `client` | 2 prompts, 2 sockets, 2 addresses, 1 choice, 1 trouble (1.47M) | one line to the coordinator; the prompt comes back; the page agrees with the coordinator in the end |
| `planning` | 3 nodes with 6 possible reports each, a chat and batches of 1, 2 and 5 under 6 policies (27k) | fewest members, assignments within offers, every item once |
| `gap_giveup_no_pump` | 3 attempts, 3 troubles | **violated**: a job hangs after a task was given up |
| `gap_session_evicted` | one worker, two connections | **violated**: a stale close event evicts a reconnected worker |

Bounds. Two nodes are the least with a choice of a new node and with stealing; two
map tasks and a reduce task the least with a reduce step and a queue of length two.
`MaxTaskAttempts` is `config.maxTaskAttempts` (default 3, environment
`config.ts:28`); with 2, give-up is reached with two troubles. `Disturbances`, `MaxDisturbances` and
`MaxTroubles` bound how much goes wrong in one behaviour; everything else is
unbounded except by the jobs coming to an end, which is also why the runs of
`JobManager`, `Session` and `WorkerRuntime` allow the system to stop (`CHECK_DEADLOCK FALSE`).
So do `browser`, `lending` and `client`: their sockets, processes, acts and prompts are
bounded. `handoff` and `planning` are checked for deadlock.

In `worker`, a run that is cancelled or paused frees its slot and goes on, so three runs
are under way at once although there is one slot; three are the least with two waiters
for one launch. More slots are covered by the theorems.

In `browser`, two sockets are an overlap of an old one and its replacement, two acts are a
stop with a start or a change of model, and three runs are an assignment, the same task
again and one that names another model. In `lending`, two agents are one and the one that a
resume adds, three processes leave one for a restart; two readings make the target move both
ways by more than a step. In `client`, a socket's number is free again when both its ends
have forgotten it, so that two are enough for any number of reconnects; `MaxSent` is the number of messages
on the way from the page when it sends one, and the queue to the page is only kept short by
the two-second timer waiting (`BroadcastTimer`). In `planning`, three nodes are the least
among which a pipeline leaves one out, and the six reports differ in each criterion of a sort or a
filter; offers of 38 to 77 MB against 115 make rounding go both ways.

Fairness. `JobManager`: microtasks run, delivered messages and close events are
handled, and a worker that runs a task completes it or reports (the event loop and
the generation both go on). No trouble is fair, and neither are heartbeats and
registration. `WorkerRuntime`: promises settle and processes start and stop; nothing
says that a task is cancelled, that the owner pauses or that anything fails. `Session`: only
the sweep timer and the close events of the coordinator; a worker may stay away for ever.
`BrowserWorker`: both event loops take their next message, and a generation ends, because it is
bounded by its number of tokens. `Lending`: downloads end, timers fire, a process that was
started or told to stop does so, waits for the port end after their ten seconds, and
profiles, hence ticks, are built on an interval. `Reprobe` is fair too, but only where the code takes it:
nothing says that a worker ever stops heading a pipeline, and `LendsAtLast` promises nothing
to one that goes on. `ClientView`: sockets open or report their close, messages are
handled, timers fire, and discovery is tried again and again while the address in use is out of reach. No user, job or network is fair.

Every property has a mutant: a variant of one definition (`Answered_NoPump`,
`MoveQueue_KeepsKey`, ...) that stands for a plausible mistake in that code and makes
the property fail.

### What the code does that it says it does not

- *A given-up task stops its node's queue* (`jobs.ts:404`, run `gap_giveup_no_pump`).
- *A replaced session evicts its successor* (`server.ts:328`, run `gap_session_evicted`).

Met while modelling, and not stated by a run. Three of these are properties of a module that
no configuration lists; adding it to one that allows the trouble gives the counterexample:

- A job with partial results may complete without its reduce (`jobs.ts:575-581`,
  `PartialResultsReduced` of `JobManager`), where `ARCHITECTURE.md:250-251` says that it still runs the
  reduce over whatever succeeded. Of a batch of two items one is answered and the other fails up to
  the cap: `succeeded.length > 1` is false and the job completes with no reduce task. Or both
  are answered, but when the last answer is handled no node is eligible (the others have left and a
  heartbeat has ruled out the one that answers): `pickReduceNode` finds
  nobody, the job completes with the pieces, and nobody looks again.
- A cancel frees a slot twice: `cancel` releases the slot of each task it drops (`jobs.ts:633`), and the
  worker's `task:failed` for the aborted task releases one again, which by then may be another
  job's. The count is too low and the node is given more than its slots; it is never too high
  (`NeverCountedBusier`).
- A worker that registers over its live session gets a fresh entry with `activeTasks` 0
  (`server.ts:231-238`, `registry.ts:42-53`), while tasks of the old session are held by it and their
  assignments may be lost. Nothing requeues them until the old session closes, which then removes the new
  entry too, and nothing pumps the jobs whose queues wait for the slots that now look free.

- A closing socket starves the event loop (`jobs.ts:468`, `EventLoopResponsive` of
  `JobManager`): pump and requeue call each other for ever.
- Pausing during a launch starts a llama-server for a paused owner
  (`worker-node/src/index.ts:435`, `PauseReleasesMemory` of `WorkerRuntime`).
- A task queued at a node that another job keeps busy waits until its own job is
  pumped; the answer that frees the node pumps only the job it belongs to
  (`jobs.ts:519`).
- A timed-out task that its old worker then fails is queued twice and can be
  handed out more often than the cap (`jobs.ts:661`).
- A paused worker reports an aborted task twice (`worker-node/src/scheduler.ts:107` and
  `127`), which can put it with two workers.
- Two runs that waited for one launch both launch on resuming (`llamaServer.ts:172-175`);
  one of the two servers is then lost track of and keeps the port, and later
  generations may be answered by it. `NoStrayServer` and `ServedByItsPeers` are stated for
  as long as this has not happened (`NeverTwoWaiters`).
- A llama-server that dies with an error makes the worker refuse every task until its owner pauses and
  resumes (`llamaServer.ts:243`, `scheduler.ts:56`): only a launch would clear the reason.
- A run's end deletes the entry of its task, also when a later run of the same task made
  it (`scheduler.ts:105`); hence `GivenOnce` in `RunsAreRegistered`.
- A job submitted while every node is busy fails (`jobs.ts:154`), where
  `ARCHITECTURE.md:246` says the task queues.
- A batch analysed as single-node works on its first item only (`jobs.ts:229`).
- The plan of a pipeline keeps members that left (`jobs.ts:550`).

In the tab (`BrowserWorker`):

- `stop()` during the first awaited probe of `start()` is overridden: the tab goes on.
- A stop with a start right after it (every change of model) leaves the old socket's close
  event to come; it clears the new heartbeat and sets a reconnect timer, a second
  socket registers, and the two replace each other for ever (`contributor.ts:354-364`).
  `overlapped` marks this, and `OneSocketOrRetry` promises one socket up to then.
- What the page says while its current socket is not open is lost without a trace (`contributor.ts:489-492`).
  After such an overlap the session a task came by can outlast the page's use of it, so that
  the verdict, sent to a socket that is still connecting, is dropped and the coordinator waits
  for its timeout; `RunsEnd` promises an answer up to then.
- The error of a load bears no task and fails an unrelated running one
  (`contributor.ts:287-289`). A load that fails after it has unloaded the model leaves
  the page reporting a model that is gone (`unloadedInVain`).
- A task that is assigned again is answered by the generation of its earlier run.
- `App.tsx:22-24` starts the contributor when mounted; `web/src/lib/governor.ts:104` says
  that contributing is opt-in.

In the worker's lending (`Lending`, where `late` marks the first two):

- A restart timer that is pending when the owner pauses starts the server again while
  paused (`rpc.ts:110`; `index.ts:433-434` says that a pause releases it).
- A pause while a resume awaits its binaries ends with a server of a paused owner.
- A port that stays shut after a timer's start is an unhandled rejection, which ends the
  worker (`rpc.ts:110`); a suspended start that finds its predecessor's dying server on the
  port resets the count of restarts; the SIGKILL of `rpc.ts:148` is never sent, because
  `killed` is set by the SIGTERM.

- The devices of the RPC server are looked at again only while the worker heads no pipeline
  (`index.ts:415`). A start that probes after its predecessor's server has died and before its own
  listens finds none; a worker that goes on heading a pipeline then offers nothing to others
  for as long.

On the page (`ClientView`):

- The page types an answer of its own and overwrites the coordinator's. `useCoordinator.ts:469`
  says it clears earlier timers, but not the interval: an earlier job's interval completes a
  later job on display, and a cancelled job still completes.
- A prompt given while the socket is down is never sent. `connected` is always true.
  `job:failed` does not touch the list of jobs until the next snapshot.

In planning:

- `planPipeline` is never given a `build`, although `pipeline.ts:50-51` requires that builds match.
- A "pipeline" may have one member, and an unwilling head if nobody is willing.
- `analyzer.ts:97-98` speaks of falling back to the largest node; the job fails.
- The warm bonus has no effect in `formCluster`, whose nodes are all warm.

## 4. Proofs

TLC checks small instances; the theorems hold for all nodes, tasks, connections, runs and
caps. They rest on the named assumptions of the modules about their constants only
(`HandoffAssumption`, `ParametersOK`, `SessionAssumption`, `RuntimeAssumption`, `BrowserAssumption`,
`ClientAssumption`, `GovernorAssumption`, `PlannerAssumption`).

- `TaskHandoff_proofs`. `IInv` is the inductive invariant: for every task, its phase
  says exactly where it is. A held task is in precisely one of four places (assigned,
  working, done, returned) of its holder and nowhere else, and its holder is
  registered; a task in any other phase is nowhere. `HandedToOneNode` alone is not
  inductive: that a waiting task may be handed out relies on no worker having it.
  `Invariance` proves `[]IInv` with one lemma per kind of step; `OneWorker`,
  `NothingStranded`, `RetriesCapped` and the action property `AnswersKept` follow.
- `Session_proofs`. `SessionInv` adds to the promises what they rest on: handlers know
  the maker of their connection, a worker's open connection is its current socket,
  an unused connection has left no trace. `Invariance`, then `EntriesEnd`,
  `TasksHaveSession`, `AtMostOneSocket`, `NeverGivesUp`.
- `WorkerRuntime_proofs`. `RuntimeInv` has three parts. `RunsAreRegistered` with
  `SlotsBounded` give `OwnersLimit`: mapping a run to its task is an injection into the
  tasks that admission counts. `OneGeneration` is inductive by itself. `ServersTracked`
  holds while no two runs have waited for one launch: there is then at most one launch,
  it alone binds a child (`LaunchesSerialised`), and what is bound is what the child was
  started for (`BoundToChild`), from which `NothingStray` and `PeersServe` follow. That the
  condition, once false, stays false (`WaitsOnce`) is what makes it usable.
- `JobManager_proofs`. `IInv` has four parts. `CoordinatorSound` is about the coordinator: its
  variables are typed; a queue names each node once, holds tasks of its own job that
  exist, and names a registered node while the job lives; `completedCount` is the number
  of completed jobs; a pipeline has one task, queued or held at the head of its plan; a
  task that does not exist yet is nowhere. `LinksSound` and `RunsSound` say the same of
  what sockets and workers hold, because a verdict is believed; `TroublesSound`
  types the counter of troubles. Handlers call one another through loops, so the work is in
  lemmas about operators: every helper `F` has an effect lemma (what
  `F(s)` changes) and a `...Sound` lemma: `F(s)` is sound if `s` is. While a node is
  being lost, its queues are still there although it is no longer registered; `Sound(s, E)`
  allows for the nodes in `E`, which is what makes the loops of `onNodeLost` provable turn by
  turn. Loops are proved by `LoopInduction`, which applies well-foundedness of the naturals to the
  set of turns after which the state is not in a set `G`; it takes no operator as a parameter. `AlwaysSound` then gives
  `TypeCorrect`, `EndedStay` (a job that ended stays as it ended), `CountedOnce`,
  `QueuesRegistered` and `PipelineAtHead`, for every set of disturbances.
  The other properties hold until some trouble strikes, and `BInv` is what they rest on:
  while no timeout, sweep, pause or replaced session has happened (`Calm`), `LedgerTidy` and `WorkersTidy`.
  `LedgerTidy` is `Tidy` of the coordinator. Of every task of a job that is not cancelled it
  says where the task is (`LedgerOf`: a task that waits is held by nobody and is in its job's queues, and
  only such a task is; a task in hand is held by a registered node) and what is under way
  about it (`FlightOf`: it is sent to, run by or heard of from one node only, the one that the ledger
  says holds it; `Orderly`: first the assignment, then the work, then the verdict, each once).
  It adds that no queue has a task twice, that a job completes or reduces only
  when a map task was answered (`JobTidy`), that a message to cancel is about a cancelled job, and that a task
  is given to one node even if its job is cancelled (`OneHand`); and, until a job is cancelled
  or a heartbeat arrives, that busy counts are exact (`ExactOf`). None of the four theorems
  is inductive without the rest: a requeue is safe because the verdict that caused it was the
  last word about the task, a dispatch because what is queued is nowhere else, a busy count because the task
  that is released was counted. Within a handler a task may be neither queued nor held:
  `Tidy(s, L, A, w)` names the tasks `L` that the handler has in its hands and the tasks `A` that
  a lost node still has to give up, and every helper has a `...Tidy` lemma beside its
  `...Sound` lemma. The worker's side is one lemma per message (`TakeTidy`, `VerdictTidy`, `NoiseTidy`,
  ...). `AlwaysTidy` then gives `NothingMislaid`, `OneWorker`, `BusyExact` and the action property
  `CompletedWithCause`: a step that completes a job leaves its ledger settled (`CompletedJobsSettled`, the
  part of `CompletionJustified` that does not speak of the reduce). Before it was proved, TLC
  checked `BInv` on the instance of `jobs`, on a batch of three items with four troubles and on two jobs with
  cancellations and late heartbeats (580k to 660k states each).
- `BrowserWorker_proofs`. `SocketInv` adds to `OneSocketOrRetry` what a replaced socket can be:
  closed, or closing when the tab is off. That is what makes a close event of an old
  socket harmless, and it holds up to the first overlap; a pending timer means that the
  current socket is closed, so that `Connect` never leaves two. `BeginKeeps` is shared by
  the three actions that start the tab. `ModelsReported` rests on what the *last* word about
  models in the queue to the page is (`Announced`): it names the resident model, or nothing
  but the page's own list is left to go by. `TasksNeverForgotten` rests on `OnePlace`: a run
  is asked for in one queue, or generates, or is told of in the other queue, never in two of them; that
  is preserved by the queue lemmas `Posted` and `Taken` and their counterparts.
- `ClientView_proofs`. `LineInv` adds the types and that an active socket is connecting, open or
  lost, never on its way out; `LineKept` follows. `DialGivesOneLine` is the common part of
  reconnecting and of discovery.
- `JobManagerHandoff_proofs`. `HandsOutAsPromised`: every step of `JobManager` is a step of
  `TaskHandoff` or changes nothing that it sees. A handler is one such step, although it takes several
  tasks back, gives some of them up and hands others out, in whatever order its loops come to them.
  So nothing is said of the order: `TurnOf(z, x, W, t)` says of one task how the record `x` that a
  helper leaves can differ from the record `z` it was given when the tasks `W` were taken back (as it was;
  waiting or given up; or handed out, with one more attempt and one more assignment in one inbox),
  every helper has a `...Turn` lemma, and `TurnHandsOut` finds from that alone the
  tasks and nodes that `TaskHandoff` asks for. That a task which was taken back and is in hand again was
  handed out, even to the worker that had it, is what the ghost conjunct `Watchable` is
  for. It rests on `BInv`: a task is taken back from the one node that has it. The hypothesis is that the instance allows only
  the disturbances that `TaskHandoff` has (`Foreseen`: crashes, failures, refusals, and heartbeats, which it
  does not see); with those no node has a socket but a registered one (`SocketsKnown`), which a replaced session
  would undo; a cancelled job or a node given up at work is not in the abstraction.
- `JobManagerHandoff_proofs`, second part: `NoNodeIdles`, from `CInv`, the invariant that at every moment the
  job, if it is the only one submitted, has a pump on its way, or has given a task up, or has no free node beside
  work (`ConservesAt`). The work is in the two loops of `Pump`. A turn of either hands a task out, which fills a
  slot and never frees one, or puts a task back, which has the job pumped again (`HandTurn`, `RequeueExcuses`).
  So the queue of a node fed once stays empty or its node full (`FeedKeyFeeds`, `FedStays`); the busy count
  must be exact for that (`BInv`). The second loop stops early only for want of work or of room (`StuckStops`); if
  it does not stop early, each turn took one of `FreeSlots` and the cluster is full (`SlotTaken`, `StealEnds`).
  Hence the one hypothesis, `NumNodes * MaxConcurrent <= StealLimit`: with more slots than the 200 turns of the
  code, one pump may leave a node idle. A lost node has job after job pumped (`NodeLostConserves`).
- `Sharing_proofs`, the worker's half. `NoJump`: a step of capacity is at most `RampUp`, for any set of readings and
  ceilings, whatever agents and processes do. That `Min` picks a member of the set of
  ceilings is shown ceiling by ceiling (`OneMoreCeiling`), without induction. `WithinReach`: a
  server still to run is the child of the latest agent. `ReachInv` adds that, up to the first
  `late` event, a download, a restart timer and a live server exclude one another, and that the
  agent of a process being terminated is stopped, so that its exit sets no timer.
- `Sharing_proofs`, the coordinator's half: `SplitsOverTheFewest`, `AssignsWhatIsOffered` and
  `DealsEveryItemOnce`, for any set of nodes, whatever they report. The invariant is that the views are
  reports (`Reported`) and the last outcome was computed from them, so the work is in lemmas about the operators.
  A sum over a set is a fold, defined by recursion over the set; that it exists and adds up
  (`FoldExists`, `SumAny`, `SumUnion`, `SumLinear`, `SumLeq`) is shown by induction over the parts of a finite set
  (`PartsInduction`, from well-foundedness of the naturals, as in `LoopInduction`). A sorted list takes every node
  once and in order because a node's place is the number of nodes before it
  (`PlacesGrow`, `EveryPlaceTaken`, `PlacesSort`). Then: the first k nodes by memory pool the most of any k nodes
  (`MostFirst`), so that the greedy choice is the smallest that holds the model (`FewestChosen`);
  with `Math.round` as it rounds, no member gets more than it offers once the pool covers
  the model, and the sum is off by at most half a MB for each member (`RoundFits`, `RoundNear`, `AssignedFits`);
  each of the six policies forms a cluster of distinct nodes that can start, with positive weights
  (`ClusterFine`); the whole parts of the shares leave fewer items over than there are members
  (`WholeParts`), so that one more for the largest remainders adds up to the items (`QuotasAdd`);
  and slices cut one after another cover them without overlap (`ListSum`, `QueuesCover`).

Only model-checked: liveness (`JobsEndOrGiveUp`, `OrphanedWorkReclaimed`, `EveryRunEnds`, `RunsEnd`,
`LendsAtLast`, `PromptComesBack`, `AgreesInTheEnd`), which needs fairness and `ENABLED`; `NeverCountedBusier`; and
the clause of `CompletionJustified` about the reduce (`ReduceDone`). Every other invariant that
a run checks, and every other action property, is a theorem. `AnswersFinal` of `TaskHandoff` is only proved
(`AnswersKept`).

## 5. Not modelled, and plan

Not modelled: HTTP routes, TLS, the command line, presentation, telemetry probes, downloads of
binaries, statistics and averages, cryptographic wrappers, C bindings, installers, and the
demonstrations among the Rust crates: I/O, formatting or straight-line code with nothing to
interleave. The Rust crates are a second design that the TypeScript system does not use.

What is left to do, in this order:

1. `BrowserWorker` shown to be a worker of `TaskHandoff`, for as long as no task is assigned to
   it twice.
2. `JobManager` takes its clusters from `JobPlanning`, with `Clusters` and `Splits` shown to
   contain them.
3. The registry's averages (throughput, latency), which decide the order of the views.
4. Two fetches of one model that share a `.part` file (`worker-node/src/runtime/modelFiles.ts:91`).
5. The Rust crates' peer registry (expiry, sequence of announcements), layer split and shard
   cache (capacity, eviction).
