---------------------------- MODULE PipelinePlanner ----------------------------
(***************************************************************************)
(* The pipeline planner: which nodes hold the layers of a model that no    *)
(* single node can hold, who is the head, and how much each one holds.     *)
(*                                                                         *)
(* Nodes are numbers, in the order in which they registered.  V[n] is what *)
(* the coordinator knows of node n.  The sorts of the code are stable: what *)
(* a sort leaves undecided is decided by the one before it.  Memory is in   *)
(* MB and latency in ms.                                                   *)
(***************************************************************************)
EXTENDS Integers, Sequences, FiniteSetsExt, SequencesExt

CONSTANTS
  Needed,              \* neededMemoryMB of the model
  MinUseful,           \* MIN_USEFUL_SHARE_MB
  MaxMembers           \* config.maxPipelineMembers

ASSUME PlannerAssumption == {Needed, MinUseful, MaxMembers} \subseteq Nat \ {0}

\* What the coordinator knows of a node: `paused' stands for the owner's pause,
\* the governor's and a capacity of (almost) nothing, `rpc' for an RPC endpoint.
View ==
  [online : BOOLEAN, kind : {"desktop-worker", "browser-contributor"}, paused : BOOLEAN,
   busy : BOOLEAN, ready : BOOLEAN, supports : BOOLEAN, loaded : BOOLEAN,
   memory : Nat, spare : Nat, throughput : Nat, latency : Nat,
   rpc : BOOLEAN, offered : Nat, canHead : BOOLEAN]

\* The callers name no build, so that none is excluded.
Candidates(V) ==
  {n \in DOMAIN V : V[n].online /\ V[n].rpc /\ ~V[n].paused /\ V[n].offered >= MinUseful}

Pooled(V, S) == MapThenSumSet(LAMBDA n : V[n].offered, S)

\* toViews lists the fastest node first.
Listed(V, a, b) ==
  \/ V[a].throughput > V[b].throughput
  \/ V[a].throughput = V[b].throughput /\ a < b
MemoryFirst(V, a, b) ==
  \/ V[a].offered > V[b].offered
  \/ V[a].offered = V[b].offered /\ V[a].latency < V[b].latency
  \/ V[a].offered = V[b].offered /\ V[a].latency = V[b].latency /\ Listed(V, a, b)
Nearest(V, a, b) ==
  \/ V[a].latency < V[b].latency
  \/ V[a].latency = V[b].latency /\ MemoryFirst(V, a, b)

\* The nodes S, sorted: a node's place is the number of nodes before it.
InOrder(S, before(_, _)) ==
  [i \in 1..Cardinality(S) |-> CHOOSE n \in S : Cardinality({m \in S : before(m, n)}) = i - 1]

\* Greedy on memory: members are taken until they can hold the model.
Prefix(s, k) == {s[i] : i \in 1..k}
Chosen_OneShort(V) ==
  LET ranked == InOrder(Candidates(V), LAMBDA a, b : MemoryFirst(V, a, b))
      enough == {k \in 0..Len(ranked) : Pooled(V, Prefix(ranked, k)) >= Needed}
  IN Prefix(ranked, Min(enough \cup {Len(ranked), MaxMembers - 1}))
Chosen(V) ==
  LET ranked == InOrder(Candidates(V), LAMBDA a, b : MemoryFirst(V, a, b))
      enough == {k \in 0..Len(ranked) : Pooled(V, Prefix(ranked, k)) >= Needed}
  IN Prefix(ranked, Min(enough \cup {Len(ranked), MaxMembers}))

\* Math.round of x / y.
Round(x, y) == (2 * x + y) \div (2 * y)

\* A willing member with the best link, or the best link if nobody is willing.
PickHead(V, S) ==
  LET willing == {n \in S : V[n].canHead}
      pool == IF willing # {} THEN willing ELSE S
  IN CHOOSE h \in pool : \A n \in pool \ {h} : Nearest(V, h, n)

NoPlan == [members |-> <<>>, head |-> 0, assigned |-> <<>>]

\* What each member holds: its part of the pool, of what the model needs.
Assigned_OfPool(V, S) == [n \in S |-> Round(V[n].offered * Pooled(V, S), Needed)]
Assigned(V, S) == [n \in S |-> Round(V[n].offered * Needed, Pooled(V, S))]

PlanPipeline(V) ==
  IF Pooled(V, Chosen(V)) < Needed THEN NoPlan
  ELSE [members |-> InOrder(Chosen(V), LAMBDA a, b : Nearest(V, a, b)),
        head |-> PickHead(V, Chosen(V)),
        assigned |-> Assigned(V, Chosen(V))]
=============================================================================
