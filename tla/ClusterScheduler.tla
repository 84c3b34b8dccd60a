--------------------------- MODULE ClusterScheduler ---------------------------
(***************************************************************************)
(* The workload analyzer and the cluster scheduler: which nodes may take   *)
(* part, whether a job is spread over them, which ones each policy picks   *)
(* and in which shares, and how shares become whole numbers of items.      *)
(*                                                                         *)
(* Scores and shares are integers: a share is a node's weight over the sum *)
(* of the weights.  Nodes are numbered in the order of their names.        *)
(***************************************************************************)
EXTENDS PipelinePlanner

CONSTANTS
  SoloNeeded,          \* 1.25 times the size of the model
  AllowBrowsers,       \* config.allowBrowserContributors
  ModelParallel        \* config.enableModelParallel

ASSUME SchedulerAssumption ==
  SoloNeeded \in Nat /\ AllowBrowsers \in BOOLEAN /\ ModelParallel \in BOOLEAN

Policies == {"best-node", "compute-only", "network-aware", "resource-aware", "round-robin", "adaptive"}

\* Nodes that can start at once; with allowBusy and allowCold, that could later.
Eligible(V, allowBusy, allowCold) ==
  {n \in DOMAIN V :
     /\ V[n].online /\ ~V[n].paused /\ V[n].ready /\ V[n].supports
     /\ V[n].kind = "browser-contributor" => AllowBrowsers
     /\ V[n].busy => allowBusy
     /\ V[n].memory >= SoloNeeded
     /\ V[n].loaded \/ allowCold}
Ready(V) == Eligible(V, FALSE, FALSE)
Warmable(V) == {n \in Eligible(V, TRUE, TRUE) : ~V[n].loaded}

Strategy(V, r) ==
  CASE r.kind = "chat" /\ Ready(V) # {} -> "single-node"
    [] r.kind = "chat" /\ Ready(V) = {} ->
         IF ModelParallel /\ PlanPipeline(V) # NoPlan THEN "model-parallel" ELSE "single-node"
    [] r.kind = "batch" ->
         IF r.items < 2 \/ Cardinality(Ready(V)) < 2 THEN "single-node" ELSE "task-parallel"
Units(r) == IF r.kind = "chat" THEN 1 ELSE Max({1, r.items})

\* Throughput, less for a cold model, for a slow link (w tenths) and for a browser.
\* The code takes a throughput for at least 0.01, so that every score is positive.
Score(V, n, w) ==
  Max({1, (V[n].throughput * (IF V[n].loaded THEN 100 ELSE 75)
             * (IF V[n].kind = "desktop-worker" THEN 10 ELSE 6) * 1000) \div (1000 + w * V[n].latency)})

\* Highest first; the sort is stable.
Best(V, key) ==
  InOrder(DOMAIN key, LAMBDA a, b : key[a] > key[b] \/ (key[a] = key[b] /\ Listed(V, a, b)))
Fastest(V, S, w) == Best(V, [n \in S |-> Score(V, n, w)])
Weights(V, s, w) == [n \in ToSet(s) |-> Score(V, n, w)]
Even(s) == [n \in ToSet(s) |-> 1]
FirstOf(s, k) == SubSeq(s, 1, Min({k, Len(s)}))

\* Nodes that add less than 8% of the speed picked so far are passed over.
Trimmed(V, ranked, units) ==
  FoldLeft(LAMBDA picked, n :
             IF \/ Len(picked) >= units
                \/ picked # <<>> /\ 100 * Score(V, n, 15)
                     < 8 * MapThenSumSet(LAMBDA m : Score(V, m, 15), ToSet(picked))
             THEN picked ELSE Append(picked, n),
           <<>>, ranked)

\* The nodes that a policy picks, in order, and their weights.
FormCluster(V, r, cursor) ==
  LET S == Ready(V)
      fan == Strategy(V, r) = "task-parallel"
      count == IF fan THEN Units(r) ELSE 1
      cluster(s, weights) == [nodes |-> s, weight |-> weights]
      ranked(s, w) == cluster(FirstOf(s, count), Weights(V, FirstOf(s, count), w))
      single(s) == cluster(FirstOf(s, 1), Even(FirstOf(s, 1)))
      turn == LET all == InOrder(S, LAMBDA a, b : a < b)
              IN [i \in 1..Min({count, Len(all)}) |-> all[((cursor + i - 1) % Len(all)) + 1]]
      fit == Trimmed(V, Fastest(V, S, 15), Units(r))
  IN CASE r.policy = "best-node" -> single(Fastest(V, S, 10))
       [] r.policy = "compute-only" -> ranked(Best(V, [n \in S |-> V[n].throughput]), 0)
       [] r.policy = "network-aware" -> ranked(Fastest(V, S, 25), 25)
       [] r.policy = "resource-aware" -> ranked(Best(V, [n \in S |-> V[n].spare]), 10)
       [] r.policy = "round-robin" -> cluster(turn, Even(turn))
       [] r.policy = "adaptive" ->
            IF fan THEN cluster(fit, Weights(V, fit, 15)) ELSE single(Fastest(V, S, 15))

\* Largest remainders: whole parts first, what is left to the largest fractions.
Total(c) == MapThenSumSet(LAMBDA n : c.weight[n], ToSet(c.nodes))
Whole(c, items, n) == (c.weight[n] * items) \div Total(c)
Position(s, n) == CHOOSE i \in DOMAIN s : s[i] = n
Quota_RoundedUp(c, items, n) == Whole(c, items, n) + 1
Quota(c, items, n) ==
  LET rem(m) == (c.weight[m] * items) % Total(c)
      left == items - MapThenSumSet(LAMBDA m : Whole(c, items, m), ToSet(c.nodes))
      before(m) == rem(m) > rem(n) \/ (rem(m) = rem(n) /\ Position(c.nodes, m) < Position(c.nodes, n))
  IN Whole(c, items, n)
       + (IF Cardinality({m \in ToSet(c.nodes) : before(m)}) < left THEN 1 ELSE 0)

\* buildTasks: items in order, each node as many as its quota, a tail to the first.
Queues(c, items) ==
  LET upTo(k) == MapThenSumSet(LAMBDA i : Quota(c, items, c.nodes[i]), 1..k)
      slice(k) == (upTo(k - 1) + 1)..Min({upTo(k), items})
      tail == (upTo(Len(c.nodes)) + 1)..items
  IN [n \in ToSet(c.nodes) |->
        LET k == Position(c.nodes, n) IN slice(k) \cup (IF k = 1 THEN tail ELSE {})]
=============================================================================
