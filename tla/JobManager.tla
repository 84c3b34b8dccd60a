----------------------------- MODULE JobManager -----------------------------
(***************************************************************************)
(* The coordinator's job manager together with the part of the device      *)
(* registry and of the workers it talks to.  The coordinator is one        *)
(* JavaScript thread: a handler runs to completion, then the microtasks it *)
(* queued (deferred pumps), then the next event.  A handler is therefore   *)
(* one action.  Its calls are operators from a coordinator state (a        *)
(* record) to the next one, and Commit installs the last.                  *)
(*                                                                         *)
(* Nodes are numbered in the order DeviceRegistry.toViews ranks them.      *)
(***************************************************************************)
EXTENDS Integers, Sequences, FiniteSets, SequencesExt

CONSTANTS
  NumNodes,          \* nodes are 1..NumNodes, fastest first
  NumJobs,           \* jobs are 1..NumJobs, submitted in this order
  Items,             \* Items[j]: independent units of job j (1 for a chat turn)
  ReduceJobs,        \* jobs with a non-empty reduceInstruction
  PipelineJobs,      \* jobs whose model fits no single node
  MinMembers,        \* members a pipeline needs to hold its model
  MaxTaskAttempts,   \* config.maxTaskAttempts
  MaxConcurrent,     \* a worker's governor.maxConcurrentTasks
  StealLimit,        \* iterations of the work-stealing loop (200 in the code)
  Disturbances,      \* kinds of trouble this instance meets
  MaxDisturbances    \* bound: how many of them in one behaviour

Nodes == 1..NumNodes
Jobs == 1..NumJobs
None == 0
MapTasks(j) == {<<j, i>> : i \in 1..Items[j]}
ReduceTask(j) == <<j, Items[j] + 1>>
TasksOf(j) == MapTasks(j) \cup {ReduceTask(j)}
Tasks == UNION {TasksOf(j) : j \in Jobs}
JobOf(t) == t[1]

Kinds == {"crash", "lost", "closing", "fail", "reject", "timeout",
          "cancel", "pause", "heartbeat", "replaced"}

ASSUME ParametersOK ==
  /\ NumNodes \in Nat \ {0} /\ NumJobs \in Nat \ {0}
  /\ Items \in [Jobs -> Nat \ {0}]
  /\ ReduceJobs \subseteq Jobs /\ PipelineJobs \subseteq Jobs
  /\ \A j \in PipelineJobs : Items[j] = 1
  /\ {MinMembers, MaxTaskAttempts, MaxConcurrent, StealLimit} \subseteq Nat \ {0}
  /\ Disturbances \subseteq Kinds /\ MaxDisturbances \in Nat

VARIABLES
  jobStatus, completedCount,                    \* ManagedJob.status, completedCount
  status, holder, attempts, tried,              \* ManagedTask fields (holder: nodeId)
  queues,                                       \* ManagedJob.queues, an ordered map
  members,                                      \* plan.pipeline.members ({} before a plan)
  registered, active, able,                     \* DeviceRegistry: activeTasks, eligibility
  pumps,                                        \* microtasks: jobs waiting for pump
  inbox,                                        \* coordinator to worker, per socket
  open,                                         \* sockets in readyState OPEN
  outbox,                                       \* worker to coordinator, per socket
  runs, aborting, paused,                       \* WorkerScheduler.running, aborted generations
  replaced,                                     \* nodes whose old session is still to close
  troubles, strikes                             \* kinds of trouble that struck, how often in all

coordinatorVars == <<jobStatus, completedCount, status, holder, attempts, tried,
                     queues, members, registered, active, able, pumps, inbox>>
workerVars == <<open, outbox, runs, aborting, paused>>
troubleVars == <<replaced, troubles, strikes>>
vars == <<coordinatorVars, workerVars, troubleVars>>

Terminal == {"completed", "failed", "cancelled"}
Live == {"running", "reducing"}
Settled == {"completed", "failed"}

-----------------------------------------------------------------------------
(* A job's queues: a JavaScript Map from node to task list, in insertion   *)
(* order, as a sequence of [node, tasks] entries.                          *)

HasKey(q, n) == \E i \in DOMAIN q : q[i].node = n
KeyAt(q, n) == CHOOSE i \in DOMAIN q : q[i].node = n
Lookup(q, n) == IF HasKey(q, n) THEN q[KeyAt(q, n)].tasks ELSE <<>>
Put(q, n, ts) ==
  LET entry == [node |-> n, tasks |-> ts]
  IN IF HasKey(q, n) THEN [i \in DOMAIN q |-> IF q[i].node = n THEN entry ELSE q[i]]
     ELSE Append(q, entry)
Delete(q, n) == IF HasKey(q, n) THEN RemoveAt(q, KeyAt(q, n)) ELSE q

-----------------------------------------------------------------------------
(* The coordinator's state, and the views the registry gives of its nodes. *)

Coordinator ==
  [jobStatus |-> jobStatus, completedCount |-> completedCount, status |-> status,
   holder |-> holder, attempts |-> attempts, tried |-> tried, queues |-> queues,
   members |-> members, registered |-> registered, active |-> active,
   able |-> able, pumps |-> pumps, inbox |-> inbox]

Commit(next) ==
  \E s \in {next} :
    /\ jobStatus' = s.jobStatus /\ completedCount' = s.completedCount
    /\ status' = s.status /\ holder' = s.holder
    /\ attempts' = s.attempts /\ tried' = s.tried
    /\ queues' = s.queues /\ members' = s.members
    /\ registered' = s.registered /\ active' = s.active /\ able' = s.able
    /\ pumps' = s.pumps /\ inbox' = s.inbox

\* A loop of a handler: the state that m turns make of s, turn k being Turn(_, k).
\* (The one-element set has TLC evaluate run[k - 1] once, not at each use of it.)
Iterate(Turn(_, _), s, m) ==
  LET run[k \in 0..m] == IF k = 0 THEN s
                         ELSE CHOOSE x \in {Turn(y, k) : y \in {run[k - 1]}} : TRUE
  IN run[m]

First(S) == IF S = {} THEN None ELSE CHOOSE n \in S : \A m \in S : n <= m

\* eligibleNodes with { allowBusy: true }: connected, not paused, runtime ready.
Capable(s) == s.registered \cap s.able
Free(s, n) == s.active[n] < MaxConcurrent
\* eligibleNodes as submit and pickReduceNode call it.
EligibleNodes(s) == {n \in Capable(s) : Free(s, n)}
PickReduceNode(s) == First(EligibleNodes(s))

\* planPipeline, by its outcome: too few members is no plan; the first member
\* is the head.
PlanPipeline(s) ==
  IF Cardinality(Capable(s)) < MinMembers THEN {}
  ELSE {n \in Capable(s) : Cardinality({m \in Capable(s) : m <= n}) <= MinMembers}

\* queueMicrotask(() => pump(job)).  A pump that is already queued is not queued
\* again: the second of two would find nothing left to hand out.
Deferred_Forgotten(s, j) == s
Deferred(s, j) == IF Contains(s.pumps, j) THEN s ELSE [s EXCEPT !.pumps = Append(@, j)]

\* activeTasks, as the coordinator counts it; never below zero.
Occupy(s, n, d) ==
  IF n \in s.registered
    THEN [s EXCEPT !.active[n] = IF @ + d < 0 THEN 0 ELSE @ + d] ELSE s
Send(s, n, m) ==
  IF n \in s.registered \cap open THEN [s EXCEPT !.inbox[n] = Append(@, m)] ELSE s

-----------------------------------------------------------------------------
(* Handlers and their helpers, as functions of the coordinator's state.    *)

\* dispatch, when the worker's socket takes the message.
Assign_Uncounted(s, t, n) ==
  [Send(s, n, [type |-> "assign", task |-> t]) EXCEPT
     !.status[t] = "assigned", !.holder[t] = n,
     !.attempts[t] = @ + 1, !.tried[t] = @ \cup {n}]
Assign(s, t, n) ==
  [Occupy(Send(s, n, [type |-> "assign", task |-> t]), n, 1) EXCEPT
     !.status[t] = "assigned", !.holder[t] = n,
     !.attempts[t] = @ + 1, !.tried[t] = @ \cup {n}]

\* The branch of requeue that finds a node: head of its queue, deferred pump.
Reassign(s, t, n) ==
  Deferred([s EXCEPT !.status[t] = "reassigned",
                     !.queues[JobOf(t)] = Put(@, n, <<t>> \o Lookup(@, n))], JobOf(t))

\* maybeFinish creates the reduce task and dispatches it; a fresh task whose
\* send fails has attempts left and a capable node, so requeue reassigns it.
StartReduce(s, j, n) ==
  LET t == ReduceTask(j)
      s1 == [s EXCEPT !.jobStatus[j] = "reducing", !.status[t] = "planned"]
  IN IF n \in open THEN Assign(s1, t, n) ELSE Reassign(s1, t, First(Capable(s)))

Ended_Unchecked(s, j) == FALSE
Ended(s, j) == s.jobStatus[j] \in Terminal
MapPending(s, j) == \E t \in MapTasks(j) : s.status[t] \notin Settled \cup {"absent"}
ReducePending_Unchecked(s, j) == FALSE
ReducePending(s, j) == s.status[ReduceTask(j)] \notin Settled \cup {"absent"}

MaybeFinish(s, j) ==
  LET succeeded == {t \in MapTasks(j) : s.status[t] = "completed"}
      startReduce == /\ j \in ReduceJobs /\ Cardinality(succeeded) > 1
                     /\ s.status[ReduceTask(j)] = "absent" /\ PickReduceNode(s) # None
  IN IF Ended(s, j) \/ MapPending(s, j) THEN s
     ELSE IF succeeded = {} THEN [s EXCEPT !.jobStatus[j] = "failed"]
     ELSE IF startReduce THEN StartReduce(s, j, PickReduceNode(s))
     ELSE IF ReducePending(s, j) THEN s
     ELSE [s EXCEPT !.jobStatus[j] = "completed", !.completedCount = @ + 1]

GiveUp(s, t) == MaybeFinish([s EXCEPT !.status[t] = "failed"], JobOf(t))

Exhausted(s, t) == s.attempts[t] >= MaxTaskAttempts
IsPipeline_Ignored(s, j) == FALSE
IsPipeline(s, j) == s.members[j] # {}
NoTarget_Unchecked(n) == FALSE
NoTarget(n) == n = None

Requeue(s, t) ==
  LET j == JobOf(t)
      free == [Occupy(s, s.holder[t], -1) EXCEPT !.holder[t] = None]
      untried == Capable(free) \ free.tried[t]
      target == First(IF untried # {} THEN untried ELSE Capable(free))
      plan == PlanPipeline(free)
      replanned == [free EXCEPT !.members[j] = plan, !.queues[j] = <<>>]
  IN IF Exhausted(free, t) THEN GiveUp(free, t)
     ELSE IF IsPipeline(free, j)
       THEN IF plan = {} THEN GiveUp(free, t) ELSE Reassign(replanned, t, First(plan))
     ELSE IF NoTarget(target) THEN GiveUp(free, t) ELSE Reassign(free, t, target)

Dispatch(s, t, n) ==
  IF n \in s.registered \cap open THEN Assign(s, t, n) ELSE Requeue(s, t)

\* pump, first loop: one key after the other, those added while it runs included;
\* each node is given the head of its queue as often as it had slots.
DispatchHead(s, j, n) ==
  LET ts == Lookup(s.queues[j], n)
  IN IF ts = <<>> THEN s
     ELSE Dispatch([s EXCEPT !.queues[j] = Put(@, n, Tail(ts))], Head(ts), n)
Slots(s, n) ==
  IF n \in s.registered /\ Free(s, n) THEN MaxConcurrent - s.active[n] ELSE 0
FeedKey(s, j, i) ==
  IF i > Len(s.queues[j]) THEN s
  ELSE LET n == s.queues[j][i].node
       IN Iterate(LAMBDA x, k : DispatchHead(x, j, n), s, Slots(s, n))
Feed(s, j) == Iterate(LAMBDA x, i : FeedKey(x, j, i), s, NumNodes)

\* pump, second loop: the first idle node takes the tail of the longest queue.
StealOnce(s, j) ==
  LET q == s.queues[j]
      idle == {i \in DOMAIN q : /\ q[i].tasks = <<>> /\ q[i].node \in s.registered
                                /\ Free(s, q[i].node)}
      donors == {i \in DOMAIN q : Len(q[i].tasks) > 1}
      donor == First({i \in donors : \A k \in donors : Len(q[k].tasks) <= Len(q[i].tasks)})
  IN IF idle = {} \/ donors = {} THEN s
     ELSE Dispatch([s EXCEPT !.queues[j] = Put(@, q[donor].node, Front(q[donor].tasks))],
                   Last(q[donor].tasks), q[First(idle)].node)
Steal(s, j) == Iterate(LAMBDA x, k : StealOnce(x, j), s, StealLimit)

Pump(s, j) ==
  IF s.jobStatus[j] \notin Live THEN s
  ELSE MaybeFinish(Steal(Feed(s, j), j), j)

\* The tasks of job j in creation order, for handlers that visit them all.
TaskOrder(j) == [i \in 1..(Items[j] + 1) |-> <<j, i>>]
RequeueAll(s, ts) == Iterate(LAMBDA x, k : Requeue(x, ts[k]), s, Len(ts))

HeldOn_AnyNode(s, t, n) == s.holder[t] # None /\ s.status[t] \in {"assigned", "running"}
HeldOn(s, t, n) == s.holder[t] = n /\ s.status[t] \in {"assigned", "running"}

\* A lost node's queue goes to the first remaining one, or back to the pool.
MoveQueue_Dropped(s, j, n) == [s EXCEPT !.queues[j] = Delete(@, n)]
MoveQueue_KeepsKey(s, j, n) ==
  LET lost == Lookup(s.queues[j], n)
      rest == Delete(s.queues[j], n)
      detached == [s EXCEPT !.queues[j] = rest]
  IN IF lost = <<>> THEN s
     ELSE IF rest = <<>> THEN RequeueAll(detached, lost)
     ELSE [detached EXCEPT !.queues[j] = Put(@, rest[1].node, rest[1].tasks \o lost)]
MoveQueue(s, j, n) ==
  LET lost == Lookup(s.queues[j], n)
      rest == Delete(s.queues[j], n)
      detached == [s EXCEPT !.queues[j] = rest]
  IN IF rest = <<>> THEN RequeueAll(detached, lost)
     ELSE [detached EXCEPT !.queues[j] = Put(@, rest[1].node, rest[1].tasks \o lost)]

Reclaim(s, t, n) == IF HeldOn(s, t, n) THEN Requeue(s, t) ELSE s
ReclaimAll(s, j, n) == Iterate(LAMBDA x, k : Reclaim(x, <<j, k>>, n), s, Items[j] + 1)
LoseIn(s, j, n) ==
  IF s.jobStatus[j] \notin Live THEN s
  ELSE Pump(ReclaimAll(MoveQueue(s, j, n), j, n), j)

\* registry.remove followed by onNodeLost.
Gone(s, n) == [s EXCEPT !.registered = @ \ {n}, !.active[n] = 0,
                        !.able = @ \ {n}, !.inbox[n] = <<>>]
NodeLost(s, n) == Iterate(LAMBDA x, j : LoseIn(x, j, n), Gone(s, n), NumJobs)

-----------------------------------------------------------------------------
(* Events of the coordinator.  None starts before the microtasks are done. *)

Quiet == pumps = <<>>
Strike(kind) ==
  /\ kind \in Disturbances /\ strikes < MaxDisturbances
  /\ troubles' = troubles \cup {kind} /\ strikes' = strikes + 1
Disturb(kind) == Strike(kind) /\ replaced' = replaced

RunMicrotask ==
  /\ ~Quiet
  /\ Commit(Pump([Coordinator EXCEPT !.pumps = Tail(@)], Head(pumps)))
  /\ UNCHANGED <<workerVars, troubleVars>>

\* buildTasks for task-parallel work: consecutive items, one run of them per
\* cluster member; formCluster and allocateByShare choose the order and quotas.
Clusters(S) == {c \in UNION {[1..k -> S] : k \in 1..Cardinality(S)} : IsInjective(c)}
Splits(j, k) == {f \in [0..k -> 0..Items[j]] : /\ f[0] = 0 /\ f[k] = Items[j]
                                               /\ \A i, l \in 0..k : i <= l => f[i] <= f[l]}
FanOut(j, c, f) ==
  [i \in DOMAIN c |-> [node |-> c[i], tasks |-> SubSeq(TaskOrder(j), f[i - 1] + 1, f[i])]]
Single(j, n) == <<[node |-> n, tasks |-> <<<<j, 1>>>>]>>

Planned(s, j, q, plan) ==
  Pump([s EXCEPT !.jobStatus[j] = "running", !.queues[j] = q, !.members[j] = plan,
                 !.status = [t \in Tasks |-> IF \E i \in DOMAIN q : Contains(q[i].tasks, t)
                                               THEN "planned" ELSE @[t]]], j)
Refused(s, j) == [s EXCEPT !.jobStatus[j] = "failed"]

Submit(j) ==
  LET s == Coordinator
      E == EligibleNodes(s)
      plan == PlanPipeline(s)
  IN /\ Quiet /\ jobStatus[j] = "none" /\ \A i \in 1..(j - 1) : jobStatus[i] # "none"
     /\ \/ /\ j \in PipelineJobs /\ plan # {}
           /\ Commit(Planned(s, j, Single(j, First(plan)), plan))
        \/ /\ j \notin PipelineJobs /\ Items[j] > 1 /\ Cardinality(E) > 1
           /\ \E c \in Clusters(E) : \E f \in Splits(j, Len(c)) :
                Commit(Planned(s, j, FanOut(j, c, f), {}))
        \/ /\ j \notin PipelineJobs /\ (Items[j] = 1 \/ Cardinality(E) = 1)
           /\ \E n \in E : Commit(Planned(s, j, Single(j, n), {}))
        \/ /\ IF j \in PipelineJobs THEN plan = {} ELSE E = {}
           /\ Commit(Refused(s, j))
     /\ UNCHANGED <<workerVars, troubleVars>>

Tell_SlotKept(s, t) == Send(s, s.holder[t], [type |-> "cancel", task |-> t])
Tell(s, t) == Occupy(Send(s, s.holder[t], [type |-> "cancel", task |-> t]), s.holder[t], -1)
Drop(s, t) ==
  LET told == IF s.holder[t] # None /\ HeldOn(s, t, s.holder[t]) THEN Tell(s, t) ELSE s
  IN IF s.status[t] \in {"completed", "absent"} THEN told
     ELSE [told EXCEPT !.status[t] = "cancelled"]
DropAll(s, j) == Iterate(LAMBDA x, k : Drop(x, <<j, k>>), s, Items[j] + 1)
Cancel(j) ==
  /\ Quiet /\ jobStatus[j] \in Live \cup {"cancelled"} /\ Disturb("cancel")
  /\ Commit([DropAll(Coordinator, j) EXCEPT !.jobStatus[j] = "cancelled", !.queues[j] = <<>>])
  /\ UNCHANGED workerVars

\* What the next message of n's socket is; the handlers consume it.
Hears(n, type) == Quiet /\ outbox[n] # <<>> /\ Head(outbox[n]).type = type
Consume(n) ==
  /\ outbox' = [outbox EXCEPT ![n] = Tail(@)]
  /\ UNCHANGED <<open, runs, aborting, paused, troubleVars>>

OnTaskAccepted(n) ==
  /\ Hears(n, "accepted")
  /\ Commit([Coordinator EXCEPT !.status[Head(outbox[n]).task] = "running"])
  /\ Consume(n)

\* onTaskRejected and onTaskFailed differ only in the statistics they keep.
OnTaskRefusedOrFailed(n) ==
  /\ Hears(n, "rejected") \/ Hears(n, "failed")
  /\ Commit(Requeue(Coordinator, Head(outbox[n]).task))
  /\ Consume(n)

Answered_NoPump(s, n, t) ==
  MaybeFinish([Occupy(s, n, -1) EXCEPT !.status[t] = "completed"], JobOf(t))
Answered(s, n, t) == Pump([Occupy(s, n, -1) EXCEPT !.status[t] = "completed"], JobOf(t))
OnTaskCompleted(n) ==
  /\ Hears(n, "completed")
  /\ Commit(Answered(Coordinator, n, Head(outbox[n]).task))
  /\ Consume(n)

UpdateHeartbeat(n) ==
  /\ Hears(n, "heartbeat")
  /\ LET m == Head(outbox[n])
     IN Commit(IF n \notin registered THEN Coordinator
               ELSE [Coordinator EXCEPT !.active[n] = m.active,
                       !.able = IF m.able THEN @ \cup {n} ELSE @ \ {n}])
  /\ Consume(n)

\* sweepTimeouts.  taskTimeoutMs (180 s) is far beyond nodeTimeoutMs (12 s), so
\* nothing about an overdue task is still on its way.
Travelling(t, n) == \E i \in DOMAIN inbox[n] \cup DOMAIN outbox[n] :
  \/ i \in DOMAIN inbox[n] /\ inbox[n][i].task = t
  \/ i \in DOMAIN outbox[n] /\ outbox[n][i].type # "heartbeat" /\ outbox[n][i].task = t
MayBeOverdue(t) ==
  /\ jobStatus[JobOf(t)] \in Live /\ status[t] \in {"assigned", "running"}
  /\ holder[t] # None /\ ~Travelling(t, holder[t])

Sweep(s, j, overdue) ==
  Iterate(LAMBDA x, k : IF <<j, k>> \in overdue THEN Requeue(x, <<j, k>>) ELSE x, s, Items[j] + 1)
SweepAll(s, overdue) == Iterate(LAMBDA x, j : Sweep(x, j, overdue), s, NumJobs)
SweepTimeouts ==
  /\ Quiet /\ Disturb("timeout")
  /\ \E overdue \in SUBSET {t \in Tasks : MayBeOverdue(t)} :
       overdue # {} /\ Commit(SweepAll(Coordinator, overdue))
  /\ UNCHANGED workerVars

\* The worker process dies: the TCP connection resets and drop runs at once.
Crash(n) ==
  /\ Quiet /\ n \in open /\ Disturb("crash")
  /\ Commit(NodeLost(Coordinator, n))
  /\ open' = open \ {n} /\ outbox' = [outbox EXCEPT ![n] = <<>>]
  /\ runs' = [runs EXCEPT ![n] = {}] /\ aborting' = [aborting EXCEPT ![n] = {}]
  /\ UNCHANGED paused

\* sweepTimer finds n silent, removes it and terminates its socket; the worker
\* lives on behind a broken link and keeps generating.
SweepStale(n) ==
  /\ Quiet /\ n \in registered \cap open /\ Disturb("lost")
  /\ Commit(NodeLost(Coordinator, n))
  /\ open' = open \ {n} /\ outbox' = [outbox EXCEPT ![n] = <<>>]
  /\ UNCHANGED <<runs, aborting, paused>>

\* The worker stops and sends a close frame: its socket is no longer OPEN, and
\* the close event, which runs drop, comes later.
BeginClose(n) ==
  /\ Quiet /\ n \in registered \cap open /\ Disturb("closing")
  /\ open' = open \ {n} /\ outbox' = [outbox EXCEPT ![n] = <<>>]
  /\ runs' = [runs EXCEPT ![n] = {}] /\ aborting' = [aborting EXCEPT ![n] = {}]
  /\ Commit([Coordinator EXCEPT !.inbox[n] = <<>>]) /\ UNCHANGED paused
CloseEvent(n) ==
  /\ Quiet /\ n \in registered \ open
  /\ Commit(NodeLost(Coordinator, n))
  /\ UNCHANGED <<workerVars, troubleVars>>

\* registry.add for a node that is not registered.
Register(n) ==
  /\ Quiet /\ n \notin registered \cup open
  /\ Commit([Coordinator EXCEPT !.registered = @ \cup {n},
                                !.able = IF n \in paused THEN @ ELSE @ \cup {n}])
  /\ open' = open \cup {n}
  /\ UNCHANGED <<outbox, runs, aborting, paused, troubleVars>>

\* A worker whose link broke registers again before the coordinator has seen the
\* old session end: registry.add puts a fresh entry, with no active tasks, in the
\* place of the old one, and neither requeues nor pumps.  What the old socket
\* carries to the worker is lost; what it brings may still be read.  (Bound: one
\* replaced session of a node at a time.)
Reregister(n) ==
  /\ Quiet /\ n \in registered \ replaced /\ Strike("replaced")
  /\ Commit([Coordinator EXCEPT !.active[n] = 0, !.inbox[n] = <<>>,
                !.able = IF n \in paused THEN @ \ {n} ELSE @ \cup {n}])
  /\ open' = open \cup {n} /\ replaced' = replaced \cup {n}
  /\ outbox' \in {outbox, [outbox EXCEPT ![n] = <<>>]}
  /\ UNCHANGED <<runs, aborting, paused>>

\* The close event of the session that was replaced: drop removes the node, by its
\* name, and with it the entry of the newer session, whose socket stays open and
\* still brings what was sent.
ReplacedCloseEvent(n) ==
  /\ Quiet /\ n \in replaced /\ replaced' = replaced \ {n}
  /\ Commit([NodeLost(Coordinator, n) EXCEPT !.inbox[n] = inbox[n]])
  /\ UNCHANGED <<workerVars, troubles, strikes>>

-----------------------------------------------------------------------------
(* The worker, as its scheduler and its client show it to the coordinator. *)

\* WorkerClient.send drops what it is given while the socket is not open.
Replies(n, ms) == outbox' = IF n \in open THEN [outbox EXCEPT ![n] = @ \o ms] ELSE outbox
About(type, t) == [type |-> type, task |-> t]
TakeInbox(n) == inbox' = [inbox EXCEPT ![n] = Tail(@)]
OnlyInbox == UNCHANGED <<jobStatus, completedCount, status, holder, attempts, tried,
                         queues, members, registered, active, able, pumps, open, paused>>

Accept(n) ==
  /\ inbox[n] # <<>> /\ Head(inbox[n]).type = "assign"
  /\ n \notin paused /\ Cardinality(runs[n]) < MaxConcurrent
  /\ runs' = [runs EXCEPT ![n] = @ \cup {Head(inbox[n]).task}]
  /\ Replies(n, <<About("accepted", Head(inbox[n]).task)>>)
  /\ TakeInbox(n) /\ OnlyInbox /\ UNCHANGED <<aborting, troubleVars>>

\* admissionError: paused, busy, or ("reject") the runtime is unavailable.
Refuse(n) ==
  /\ inbox[n] # <<>> /\ Head(inbox[n]).type = "assign"
  /\ \/ (n \in paused \/ Cardinality(runs[n]) >= MaxConcurrent) /\ UNCHANGED troubleVars
     \/ Disturb("reject")
  /\ Replies(n, <<About("rejected", Head(inbox[n]).task)>>)
  /\ TakeInbox(n) /\ OnlyInbox /\ UNCHANGED <<runs, aborting>>

\* cancel frees the slot at once; the aborted generation unwinds later.
Abort(n) ==
  /\ inbox[n] # <<>> /\ Head(inbox[n]).type = "cancel"
  /\ LET hit == runs[n] \cap {Head(inbox[n]).task}
     IN /\ runs' = [runs EXCEPT ![n] = @ \ hit]
        /\ aborting' = [aborting EXCEPT ![n] = @ \cup hit]
  /\ TakeInbox(n) /\ OnlyInbox /\ UNCHANGED <<outbox, troubleVars>>

OnlyWorker == UNCHANGED <<coordinatorVars, open>>

Complete(n, t) ==
  /\ t \in runs[n] /\ runs' = [runs EXCEPT ![n] = @ \ {t}]
  /\ Replies(n, <<About("completed", t)>>)
  /\ OnlyWorker /\ UNCHANGED <<aborting, paused, troubleVars>>
FailTask(n, t) ==
  /\ t \in runs[n] /\ Disturb("fail") /\ runs' = [runs EXCEPT ![n] = @ \ {t}]
  /\ Replies(n, <<About("failed", t)>>)
  /\ OnlyWorker /\ UNCHANGED <<aborting, paused>>
\* The catch clause of an aborted generate reports it as failed ("cancelled").
Unwind(n, t) ==
  /\ t \in aborting[n] /\ aborting' = [aborting EXCEPT ![n] = @ \ {t}]
  /\ Replies(n, <<About("failed", t)>>)
  /\ OnlyWorker /\ UNCHANGED <<runs, paused, troubleVars>>

\* The owner pauses: cancelAll aborts every task and reports each as failed.
Pause(n) ==
  /\ n \notin paused /\ Disturb("pause")
  /\ paused' = paused \cup {n}
  /\ Replies(n, [i \in 1..Cardinality(runs[n]) |-> About("failed", SetToSeq(runs[n])[i])])
  /\ runs' = [runs EXCEPT ![n] = {}]
  /\ aborting' = [aborting EXCEPT ![n] = @ \cup runs[n]]
  /\ OnlyWorker
Resume(n) ==
  /\ n \in paused /\ paused' = paused \ {n}
  /\ OnlyWorker /\ UNCHANGED <<outbox, runs, aborting, troubleVars>>

\* The profile and the governor of a heartbeat make a node eligible, or not; a
\* paused one never is.
Heartbeat(n) ==
  /\ n \in open /\ Disturb("heartbeat")
  /\ \E fit \in {FALSE, n \notin paused} :
       Replies(n, <<[type |-> "heartbeat", active |-> Cardinality(runs[n]), able |-> fit]>>)
  /\ OnlyWorker /\ UNCHANGED <<runs, aborting, paused>>

-----------------------------------------------------------------------------
Init ==
  /\ jobStatus = [j \in Jobs |-> "none"] /\ completedCount = 0
  /\ status = [t \in Tasks |-> "absent"] /\ holder = [t \in Tasks |-> None]
  /\ attempts = [t \in Tasks |-> 0] /\ tried = [t \in Tasks |-> {}]
  /\ queues = [j \in Jobs |-> <<>>] /\ members = [j \in Jobs |-> {}]
  /\ registered = {} /\ able = {} /\ active = [n \in Nodes |-> 0]
  /\ pumps = <<>> /\ inbox = [n \in Nodes |-> <<>>]
  /\ open = {} /\ outbox = [n \in Nodes |-> <<>>]
  /\ runs = [n \in Nodes |-> {}] /\ aborting = [n \in Nodes |-> {}] /\ paused = {}
  /\ replaced = {} /\ troubles = {} /\ strikes = 0

Receives(n) == \/ OnTaskAccepted(n) \/ OnTaskRefusedOrFailed(n)
               \/ OnTaskCompleted(n) \/ UpdateHeartbeat(n)
Works(n) == \/ Accept(n) \/ Refuse(n) \/ Abort(n)
            \/ \E t \in Tasks : Complete(n, t) \/ Unwind(n, t)

Next ==
  \/ RunMicrotask \/ SweepTimeouts
  \/ \E j \in Jobs : Submit(j) \/ Cancel(j)
  \/ \E n \in Nodes :
       \/ Receives(n) \/ Works(n) \/ \E t \in Tasks : FailTask(n, t)
       \/ Crash(n) \/ SweepStale(n) \/ BeginClose(n) \/ CloseEvent(n) \/ Register(n)
       \/ Reregister(n) \/ ReplacedCloseEvent(n)
       \/ Pause(n) \/ Resume(n) \/ Heartbeat(n)

Spec == Init /\ [][Next]_vars

\* The event loop and the workers never stop: microtasks run, delivered messages
\* and close events are handled, and a task that runs completes.  A handler is
\* named by the message it consumes or the registration it ends, which no other
\* action of the coordinator does.
HandlesMessage(n) == Quiet /\ outbox[n] # <<>> /\ outbox' = [outbox EXCEPT ![n] = Tail(@)]
HandlesClose(n) == Quiet /\ n \in registered \ open /\ registered' = registered \ {n}
Fairness ==
  /\ WF_vars(RunMicrotask)
  /\ \A n \in Nodes :
       WF_outbox(HandlesMessage(n)) /\ WF_registered(HandlesClose(n)) /\ WF_vars(Works(n))

FairSpec == Spec /\ Fairness

-----------------------------------------------------------------------------
(* Properties *)

Messages == [type : {"assign", "cancel"}, task : Tasks]
Reports == [type : {"accepted", "rejected", "completed", "failed"}, task : Tasks]
             \cup [type : {"heartbeat"}, active : 0..MaxConcurrent, able : BOOLEAN]

TypeOK ==
  /\ jobStatus \in [Jobs -> {"none", "running", "reducing", "completed", "failed", "cancelled"}]
  /\ completedCount \in Nat
  /\ status \in [Tasks -> {"absent", "planned", "assigned", "running", "completed",
                           "failed", "reassigned", "cancelled"}]
  /\ holder \in [Tasks -> Nodes \cup {None}]
  /\ attempts \in [Tasks -> Nat] /\ tried \in [Tasks -> SUBSET Nodes]
  /\ \A j \in Jobs : queues[j] \in Seq([node : Nodes, tasks : Seq(TasksOf(j))])
  /\ members \in [Jobs -> SUBSET Nodes]
  /\ registered \subseteq Nodes /\ able \subseteq registered
  /\ active \in [Nodes -> Nat]
  /\ pumps \in Seq(Jobs)
  /\ inbox \in [Nodes -> Seq(Messages)] /\ outbox \in [Nodes -> Seq(Reports)]
  /\ open \subseteq Nodes /\ paused \subseteq Nodes
  /\ runs \in [Nodes -> SUBSET Tasks] /\ aborting \in [Nodes -> SUBSET Tasks]
  /\ replaced \subseteq Nodes /\ troubles \subseteq Disturbances /\ strikes \in 0..MaxDisturbances

HeldBy(n) == {t \in Tasks : holder[t] = n /\ status[t] \in {"assigned", "running"}}
Places(q) == UNION {{i} \X DOMAIN q[i].tasks : i \in DOMAIN q}
QueuedAt(t) == LET q == queues[JobOf(t)] IN {p \in Places(q) : q[p[1]].tasks[p[2]] = t}
WorksOn(n, t) == t \in runs[n] \/ \E i \in DOMAIN inbox[n] : inbox[n][i] = About("assign", t)

\* Some properties hold as long as only the given kinds of trouble have struck.
Only(kinds) == troubles \subseteq kinds
Announced == {"crash", "closing", "fail", "reject"}

\* The busy count a node is scheduled by is the number of unfinished tasks the
\* job manager believes it holds: no path of dispatch, requeue, completion and
\* node loss counts a task twice or forgets one.  What can upset it is a heartbeat
\* sent before the last assignments arrived, a second verdict on one task (after a
\* timeout, a pause or a lost session), a cancelled job's verdicts, and a node that
\* registers over its live session, which starts again at 0 with tasks held.
BusyCountExact ==
  Only(Announced) => \A n \in registered : active[n] = Cardinality(HeldBy(n))

\* Neither a late heartbeat nor the slots that a cancel frees twice make a node
\* look busier than it is: the count errs on the free side alone, so that no
\* worker is left idle for tasks that it does not hold.
NeverCountedBusier ==
  Only(Announced \cup {"cancel"}) \/ Only(Announced \cup {"heartbeat"}) =>
    \A n \in registered : active[n] <= Cardinality(HeldBy(n))

\* A task is in the hands of at most one worker, the one the job manager holds
\* responsible for it (workload.ts: handed to exactly one node), until a node is
\* given up that is still at work: silent, overdue or paused.
HandedToOneNode == Only(Announced \cup {"cancel", "heartbeat"}) =>
  \A t \in Tasks, n \in Nodes : WorksOn(n, t) => \A m \in Nodes : WorksOn(m, t) => m = n

\* Between handlers every task of a live job is settled, held by a connected
\* node, or queued exactly once: no rejection, failure, node loss, cancelled job
\* or late heartbeat mislays it.
NoTaskMislaid ==
  Quiet /\ Only(Announced \cup {"cancel", "heartbeat"}) => \A j \in Jobs : jobStatus[j] \in Live =>
    \A t \in TasksOf(j) :
      \/ status[t] \in Settled \cup {"absent"} /\ QueuedAt(t) = {}
      \/ status[t] \in {"assigned", "running"} /\ holder[t] \in registered /\ QueuedAt(t) = {}
      \/ status[t] \in {"planned", "reassigned"} /\ Cardinality(QueuedAt(t)) = 1

\* A live job's queues belong to connected nodes, so node loss leaves no queue
\* that nothing drains.
QueuesOnRegisteredNodes ==
  \A j \in Jobs : jobStatus[j] \in Live =>
    \A i \in DOMAIN queues[j] : queues[j][i].node \in registered

\* Between handlers pump has left no work that it could hand out: a node with
\* a free slot has no queued task of its own, and none to steal.  (A task that is
\* given up frees its slot without a pump: see JobsEnd.  An answer pumps only the
\* job it belongs to, so this is about the one job submitted.)
WorkConserving ==
  Quiet /\ Only(Announced) /\ (\A t \in Tasks : status[t] # "failed") =>
    \A j \in Jobs : jobStatus[j] \in Live /\ (\A k \in Jobs \ {j} : jobStatus[k] = "none") =>
      \A i \in DOMAIN queues[j] : Free(Coordinator, queues[j][i].node) =>
        /\ queues[j][i].tasks = <<>>
        /\ \A k \in DOMAIN queues[j] : Len(queues[j][k].tasks) <= 1

\* A job is declared completed only in a step that leaves every map task
\* settled, one of them answered, and no reduce task outstanding; and the step
\* does without a reduce that the job asks for only if there is nothing to combine
\* or no node is free to do it.  (A node given up while at work may answer a task
\* that is queued again; the loop of a node loss can then complete the job and
\* give that task up afterwards.)
Answers(j) == {t \in MapTasks(j) : status[t] = "completed"}
LedgerSettled(j) ==
  /\ \A t \in MapTasks(j) : status[t] \in Settled \cup {"absent"}
  /\ Answers(j) # {}
  /\ status[ReduceTask(j)] \in Settled \cup {"absent"}
ReduceDone(j) ==
  j \in ReduceJobs /\ status[ReduceTask(j)] = "absent" =>
    Cardinality(Answers(j)) = 1 \/ EligibleNodes(Coordinator) = {}
CompletionJustified ==
  [][Only(Announced \cup {"cancel", "heartbeat"})' =>
     \A j \in Jobs : jobStatus'[j] = "completed" /\ jobStatus[j] # "completed" =>
       LedgerSettled(j)' /\ ReduceDone(j)']_vars

\* ARCHITECTURE.md, "Failure handling": a job with partial results still runs the
\* reduce over whatever succeeded.  Not so: see ReduceDone.
PartialResultsReduced ==
  \A j \in ReduceJobs : jobStatus[j] = "completed" => status[ReduceTask(j)] # "absent"

\* A job that ended stays as it ended, whatever late messages arrive.
EndedJobsStay ==
  [][\A j \in Jobs : jobStatus[j] \in Terminal => jobStatus'[j] = jobStatus[j]]_vars

\* completedCount counts every completed job once.
CompletionsCountedOnce ==
  completedCount = Cardinality({j \in Jobs : jobStatus[j] = "completed"})

\* Every job that starts ends; or one of its tasks is given up, which leaves the
\* tasks queued behind it without a pump.
JobsEnd == \A j \in Jobs : jobStatus[j] \in Live ~> jobStatus[j] \in Terminal
JobsEndOrGiveUp ==
  \A j \in Jobs : jobStatus[j] \in Live ~>
    jobStatus[j] \in Terminal \/ \E t \in TasksOf(j) : status[t] = "failed"

\* The coordinator always gets back to its socket events: not so while a node
\* that is to be used has a closing socket (requeue, queueMicrotask).
EventLoopResponsive == []<>Quiet

\* A pipeline's task waits at, or was last handed to, the head of the plan that
\* is in force.
PipelineTaskAtHead ==
  \A j \in PipelineJobs : jobStatus[j] \in Live =>
    /\ \A i \in DOMAIN queues[j] : queues[j][i].tasks # <<>> => queues[j][i].node = First(members[j])
    /\ \A t \in TasksOf(j) : holder[t] \in {None, First(members[j])}

-----------------------------------------------------------------------------
(* What the job manager promises about tasks it hands out.                  *)

PhaseOf(t) ==
  CASE status[t] \in {"assigned", "running"} -> "held"
    [] status[t] = "completed" -> "answered"
    [] status[t] = "failed" -> "failed"
    [] OTHER -> "waiting"
OnTheWay(channel, types) ==
  [n \in Nodes |-> {t \in Tasks : \E i \in DOMAIN channel[n] :
                     channel[n][i] \in [type : types, task : {t}]}]

Handoff == INSTANCE TaskHandoff WITH
  phase <- [t \in Tasks |-> PhaseOf(t)],
  holder <- [t \in Tasks |-> IF PhaseOf(t) = "held" THEN holder[t] ELSE None],
  assigned <- OnTheWay(inbox, {"assign"}),
  working <- runs,
  done <- OnTheWay(outbox, {"completed"}),
  returned <- OnTheWay(outbox, {"rejected", "failed"})

\* As long as workers fail, refuse and crash, the ledger and the sockets behave as
\* TaskHandoff says: every hand-out is of a task nobody has, and every answer is of
\* the node the ledger names.
ImplementsTaskHandoff == Handoff!Spec

=============================================================================
