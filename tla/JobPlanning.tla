------------------------------ MODULE JobPlanning ------------------------------
(***************************************************************************)
(* Job submission as the job manager does it: the nodes report what they   *)
(* can do, a request is analysed, a pipeline is planned or a cluster is     *)
(* formed, and the tasks are laid out.  All of it happens in one handler,  *)
(* over what the nodes reported last.                                      *)
(***************************************************************************)
EXTENDS ClusterScheduler

CONSTANTS
  Nodes,               \* the registered nodes, 1..N in the order of registration
  Readings,            \* what a node may report: a subset of View
  Requests,            \* requests, of the form below
  Period               \* bound: roundRobinCursor is counted modulo a multiple of all cluster sizes

Request == [kind : {"chat", "batch"}, items : Nat, policy : Policies]

ASSUME PlanningAssumption ==
  Nodes \subseteq Nat \ {0} /\ IsFiniteSet(Nodes) /\ Readings \subseteq View /\ Requests \subseteq Request /\ Period \in Nat \ {0}

VARIABLES
  views,               \* registry.toViews
  cursor,              \* JobManager.roundRobinCursor
  outcome              \* how the last request was planned; "none" once a node has reported

planningVars == <<views, cursor, outcome>>

Report ==
  /\ \E n \in Nodes, v \in Readings : views' = [views EXCEPT ![n] = v]
  /\ outcome' = [strategy |-> "none"] /\ UNCHANGED cursor

\* A chat that fits no node: the pipeline, whose head gets the task.
SubmitSplit(r) ==
  /\ Strategy(views, r) = "model-parallel"
  /\ LET plan == PlanPipeline(views)
     IN outcome' = [strategy |-> "model-parallel", request |-> r, plan |-> plan,
                    queues |-> [n \in {plan.head} |-> {1}]]
  /\ UNCHANGED <<views, cursor>>

\* The cluster of the policy; a batch that is not spread becomes one task.
SubmitCluster(r) ==
  /\ Strategy(views, r) # "model-parallel" /\ cursor' = (cursor + 1) % Period
  /\ LET c == FormCluster(views, r, cursor)
         s == Strategy(views, r)
     IN IF c.nodes = <<>> THEN outcome' = [strategy |-> "failed", request |-> r, warming |-> Warmable(views)]
        ELSE outcome' = [strategy |-> s, request |-> r, cluster |-> c,
                         queues |-> IF s = "task-parallel" THEN Queues(c, r.items)
                                    ELSE [n \in {c.nodes[1]} |-> {1}]]
  /\ UNCHANGED views

PlanningInit == views \in [Nodes -> Readings] /\ cursor = 0 /\ outcome = [strategy |-> "none"]

PlanningNext == Report \/ \E r \in Requests : SubmitSplit(r) \/ SubmitCluster(r)

PlanningSpec == PlanningInit /\ [][PlanningNext]_planningVars

-----------------------------------------------------------------------------
(* Properties.                                                               *)

\* A chat that no node can take alone is split whenever few enough nodes can
\* hold the model, and over the fewest that can: each member costs every token
\* a round trip (pipeline.ts planPipeline, analyzer.ts).
FewestMembers ==
  outcome.strategy \in {"model-parallel", "failed"} =>
    (outcome.request.kind = "chat" /\ ModelParallel =>
       \A S \in SUBSET Candidates(views) :
         Cardinality(S) <= MaxMembers /\ Pooled(views, S) >= Needed =>
           /\ outcome.strategy = "model-parallel"
           /\ Len(outcome.plan.members) <= Cardinality(S))

\* No member is assigned more than its owner offers, and the assignments of a
\* plan add up to the model, both up to the rounding of each (pipeline.ts assignedMB).
AssignmentFits ==
  outcome.strategy = "model-parallel" =>
    LET a == outcome.plan.assigned
        sum == MapThenSumSet(LAMBDA n : a[n], DOMAIN a)
    IN /\ \A n \in DOMAIN a : a[n] <= views[n].offered
       /\ 2 * sum \in (2 * Needed - Cardinality(DOMAIN a))..(2 * Needed + Cardinality(DOMAIN a))

\* A batch that is spread hands out every item exactly once, to nodes that can
\* start, each within one item of its share (scheduler.ts formCluster;
\* jobs.ts allocateByShare, buildTasks).
EveryItemOnce ==
  outcome.strategy = "task-parallel" =>
    LET c == outcome.cluster  q == outcome.queues  items == outcome.request.items
    IN /\ UNION {q[n] : n \in DOMAIN q} = 1..items
       /\ \A m, n \in DOMAIN q : m # n => q[m] \cap q[n] = {}
       /\ DOMAIN q \subseteq Ready(views) /\ Cardinality(DOMAIN q) = Len(c.nodes)
       /\ \A n \in DOMAIN q : Cardinality(q[n]) - Whole(c, items, n) \in {0, 1}
=============================================================================
