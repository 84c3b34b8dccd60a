------------------------ MODULE JobManagerHandoff_proofs ------------------------
(***************************************************************************)
(* How the job manager hands out tasks: as TaskHandoff promises, and all   *)
(* that the nodes have room for.  A handler works for a while on the       *)
(* coordinator's record: it takes tasks back, gives some up, puts others   *)
(* into queues and pumps them out.  All of it is one step of TaskHandoff:  *)
(* whatever the helpers do on the way, they leave every task as TurnOf     *)
(* says, and from that alone it follows which tasks were handed out, to    *)
(* whom, and what was put into the inboxes (TurnHandsOut).  The second     *)
(* part follows the turns of pump's loops.                                 *)
(***************************************************************************)
EXTENDS JobManager_proofs

\* Where TaskHandoff sees task t and its holder when the record is s.
PhaseIn(s, t) ==
  CASE s.status[t] \in InHand -> "held"
    [] s.status[t] = "completed" -> "answered"
    [] s.status[t] = "failed" -> "failed"
    [] OTHER -> "waiting"
HolderIn(s, t) == IF PhaseIn(s, t) = "held" THEN s.holder[t] ELSE None

\* From z, when the phases are p, the tasks D go to the nodes g of x.
HandedOut(z, x, p, D, g) ==
  /\ D \subseteq {t \in Tasks : p[t] = "waiting"} /\ g \in [D -> x.registered]
  /\ \A t \in Tasks :
       /\ PhaseIn(x, t) = IF t \in D THEN "held" ELSE p[t]
       /\ HolderIn(x, t) = IF t \in D THEN g[t] ELSE IF p[t] = "held" THEN HolderIn(z, t) ELSE None
       /\ x.attempts[t] = IF t \in D THEN z.attempts[t] + 1 ELSE z.attempts[t]
       /\ \A n \in Nodes : Sent(x, t, n) <=> Sent(z, t, n) \/ (t \in D /\ g[t] = n)
\* The phases once the tasks W are taken back from z, and F of them given up.
PhasesAfter(z, W, F) ==
  [t \in Tasks |-> IF t \in F THEN "failed" ELSE IF t \in W THEN "waiting" ELSE PhaseIn(z, t)]

\* Whoever was taken back, tasks that are in hand after a turn and were not kept
\* in hand were handed out in it.
LEMMA TurnHandsOut ==
  ASSUME NEW z, NEW x, NEW W \in SUBSET Tasks, x.registered \subseteq Nodes, MayRetry(z),
         \A t \in Tasks : TurnOf(z, x, W, t),
         \A t \in Tasks : x.status[t] \in InHand => x.holder[t] \in x.registered,
         \A t \in W : /\ z.status[t] \notin Settled
                      /\ x.status[t] \in InHand => ~(SamePhase(z, x, t) /\ x.holder[t] \in {z.holder[t], None})
  PROVE  \E F \in SUBSET W, D \in SUBSET Tasks : \E g :
           /\ \A t \in W \ F : z.attempts[t] < MaxTaskAttempts
           /\ HandedOut(z, x, PhasesAfter(z, W, F), D, g)
<1> DEFINE D == {t \in Tasks : (t \in W \/ Idle(z, t)) /\ x.status[t] \in InHand}
           F == {t \in W : x.status[t] = "failed"}
           g == [t \in D |-> x.holder[t]]
           p == PhasesAfter(z, W, F)
<1>1. g \in [D -> x.registered]
  OBVIOUS
<1>2. \A t \in Tasks : p[t] = IF t \in F THEN "failed" ELSE IF t \in W THEN "waiting" ELSE PhaseIn(z, t)
  BY DEF PhasesAfter
<1>3. \A t \in D : g[t] = x.holder[t] /\ x.holder[t] \in x.registered
  OBVIOUS
<1>4. \A t \in Tasks : /\ t \in D <=> (t \in W \/ Idle(z, t)) /\ x.status[t] \in InHand
                       /\ t \in F <=> t \in W /\ x.status[t] = "failed"
  OBVIOUS
<1> HIDE DEF D, F, g, p
<1>5. ASSUME NEW t \in Tasks
      PROVE  /\ t \in D => p[t] = "waiting"
             /\ PhaseIn(x, t) = IF t \in D THEN "held" ELSE p[t]
             /\ HolderIn(x, t) = IF t \in D THEN g[t] ELSE IF p[t] = "held" THEN HolderIn(z, t) ELSE None
             /\ x.attempts[t] = IF t \in D THEN z.attempts[t] + 1 ELSE z.attempts[t]
             /\ \A n \in Nodes : Sent(x, t, n) <=> Sent(z, t, n) \/ (t \in D /\ g[t] = n)
             /\ t \in W \ F => z.attempts[t] < MaxTaskAttempts
  <2> USE DEF PhaseIn, HolderIn, Idle, InHand, Settled
  <2>1. CASE SamePhase(z, x, t) /\ SameSent(z, x, t) /\ (x.status[t] \in InHand => x.holder[t] \in {z.holder[t], None})
    <3>1. t \notin D
      BY <1>4, <2>1 DEF SamePhase
    <3>2. t \in W => PhaseIn(x, t) = "waiting" /\ Idle(z, t) /\ t \notin F
      BY <1>4, <2>1 DEF SamePhase
    <3>3. PhaseIn(x, t) = PhaseIn(z, t)
      BY <2>1 DEF SamePhase
    <3>4. x.status[t] \in InHand => x.holder[t] = z.holder[t]
      BY <2>1, Numbers
    <3> QED BY <1>2, <1>4, <2>1, <3>1, <3>2, <3>3, <3>4 DEF SameSent, MayRetry
  <2>2. CASE t \in W /\ x.attempts[t] < MaxTaskAttempts /\ Idle(x, t) /\ SameSent(z, x, t)
    BY <1>2, <1>4, <2>2 DEF SameSent
  <2>3. CASE /\ t \in W \/ Idle(z, t)
             /\ z.attempts[t] < MaxTaskAttempts /\ x.attempts[t] = z.attempts[t] + 1
             /\ x.status[t] \in InHand /\ x.holder[t] \in x.registered
             /\ \A n \in Nodes : Sent(x, t, n) <=> Sent(z, t, n) \/ n = x.holder[t]
    <3>1. t \in D /\ g[t] = x.holder[t] /\ t \notin F
      BY <1>3, <1>4, <2>3
    <3> QED BY <1>2, <1>4, <2>3, <3>1
  <2>4. CASE t \in W /\ x.status[t] = "failed" /\ SameSent(z, x, t)
    BY <1>2, <1>4, <2>4 DEF SameSent
  <2> QED BY <2>1, <2>2, <2>3, <2>4 DEF TurnOf
<1>6. D \in SUBSET Tasks /\ F \in SUBSET W
  BY <1>4 DEF D, F
<1>7. HandedOut(z, x, p, D, g)
  BY <1>1, <1>5, <1>6 DEF HandedOut
<1> QED BY <1>5, <1>6, <1>7 DEF p

-----------------------------------------------------------------------------
(* The sockets.                                                              *)

Says(m, types, t) == m \in [type : types, task : {t}]
Carries(c, types, t, n) == \E i \in DOMAIN c[n] : Says(c[n][i], types, t)

\* What is on the way, told of the messages one by one.
LEMMA WayIs ==
  ASSUME NEW c, NEW types
  PROVE  OnTheWay(c, types) = [m \in Nodes |-> {r \in Tasks : Carries(c, types, r, m)}]
BY DEF OnTheWay, Carries, Says

LEMMA SaysOf ==
  ASSUME NEW m, NEW types
  PROVE  /\ m.type \notin types => \A r : ~Says(m, types, r)
         /\ \A t : m = About(m.type, t) /\ m.type \in types => \A r : Says(m, types, r) <=> r = t
<1>1. ASSUME m.type \notin types PROVE \A r : ~Says(m, types, r)
  BY <1>1 DEF Says
<1>2. ASSUME NEW t, m = About(m.type, t), m.type \in types PROVE \A r : Says(m, types, r) <=> r = t
  <2> DEFINE v == m.type
  <2>1. m = About(v, t) /\ v \in types
    BY <1>2
  <2> HIDE DEF v
  <2> QED BY <2>1 DEF About, Says
<1> QED BY <1>1, <1>2

\* Socket n, which carried c, carries d, m having been taken from it.
TakenOff(c, d, n, m, types) ==
  /\ (\A r : ~Says(m, types, r)) => OnTheWay(d, types) = OnTheWay(c, types)
  /\ \A t : (\A r : Says(m, types, r) <=> r = t) /\ ~Carries(d, types, t, n) =>
       /\ OnTheWay(d, types) = [OnTheWay(c, types) EXCEPT ![n] = @ \ {t}]
       /\ t \in Tasks => t \in OnTheWay(c, types)[n]
LEMMA PostTaken ==
  ASSUME NEW S, NEW c \in [Nodes -> Seq(S)], NEW n \in Nodes, c[n] # <<>>,
         NEW d, d = [c EXCEPT ![n] = Tail(@)], NEW types
  PROVE  TakenOff(c, d, n, Head(c[n]), types)
<1> DEFINE h == Head(c[n])
           q == c[n]
           y == Tail(c[n])
           a == OnTheWay(c, types)
           b == OnTheWay(d, types)
<1>1. q \in Seq(S) /\ q # <<>> /\ y = Tail(q) /\ h = Head(q)
  OBVIOUS
<1>2. d[n] = y /\ c[n] = q /\ \A m \in Nodes \ {n} : d[m] = c[m]
  OBVIOUS
<1>3. \A i \in DOMAIN y : i + 1 \in DOMAIN q /\ q[i + 1] = y[i]
  BY <1>1
<1>4. \A i \in DOMAIN q : q[i] = h \/ \E k \in DOMAIN y : q[i] = y[k]
  <2> DEFINE k == Len(q)
  <2>1. k \in Nat /\ DOMAIN q = 1..k /\ DOMAIN y = 1..(k - 1) /\ q[1] = h /\ \A i \in 1..(k - 1) : y[i] = q[i + 1]
    BY <1>1
  <2> HIDE DEF k, y, q, h
  <2>2. \A i \in 1..k : i = 1 \/ (i - 1 \in 1..(k - 1) /\ (i - 1) + 1 = i)
    BY <2>1
  <2> QED BY <2>1, <2>2
<1>5. \E i \in DOMAIN q : q[i] = h
  BY <1>1
<1>6. /\ a = [m \in Nodes |-> {r \in Tasks : Carries(c, types, r, m)}]
      /\ b = [m \in Nodes |-> {r \in Tasks : Carries(d, types, r, m)}]
  BY WayIs
<1> SUFFICES /\ (\A r : ~Says(h, types, r)) => b = a
             /\ \A t : (\A r : Says(h, types, r) <=> r = t) /\ ~Carries(d, types, t, n) =>
                  b = [a EXCEPT ![n] = @ \ {t}] /\ (t \in Tasks => t \in a[n])
  BY DEF TakenOff
<1> HIDE DEF h, y, q, a, b
<1>7. ASSUME NEW r, NEW m \in Nodes
      PROVE  Carries(c, types, r, m) <=> Carries(d, types, r, m) \/ (m = n /\ Says(h, types, r))
  BY <1>2, <1>3, <1>4, <1>5 DEF Carries
<1>8. ASSUME \A r : ~Says(h, types, r) PROVE b = a
  BY <1>6, <1>7, <1>8
<1>9. ASSUME NEW t, \A r : Says(h, types, r) <=> r = t, ~Carries(d, types, t, n)
      PROVE  b = [a EXCEPT ![n] = @ \ {t}] /\ (t \in Tasks => t \in a[n])
  <2>1. \A m \in Nodes : b[m] = IF m = n THEN a[m] \ {t} ELSE a[m]
    BY <1>6, <1>7, <1>9
  <2>2. t \in Tasks => t \in a[n]
    BY <1>6, <1>7, <1>9
  <2> QED BY <1>6, <2>1, <2>2
<1> QED BY <1>8, <1>9

\* Socket n, which carried c, carries d, m having been put into it.
PutOn(c, d, n, m, types) ==
  /\ (\A r : ~Says(m, types, r)) => OnTheWay(d, types) = OnTheWay(c, types)
  /\ \A t \in Tasks : (\A r : Says(m, types, r) <=> r = t) =>
       OnTheWay(d, types) = [OnTheWay(c, types) EXCEPT ![n] = @ \cup {t}]
LEMMA PostAdded ==
  ASSUME NEW S, NEW c \in [Nodes -> Seq(S)], NEW n \in Nodes, NEW m,
         NEW d, d = [c EXCEPT ![n] = @ \o <<m>>], NEW types
  PROVE  PutOn(c, d, n, m, types)
<1> DEFINE q == c[n]
           y == q \o <<m>>
           a == OnTheWay(c, types)
           b == OnTheWay(d, types)
<1>1. q \in Seq(S) /\ y = q \o <<m>>
  OBVIOUS
<1>2. d[n] = y /\ c[n] = q /\ \A l \in Nodes \ {n} : d[l] = c[l]
  OBVIOUS
<1>3. /\ DOMAIN q \subseteq DOMAIN y /\ \A i \in DOMAIN q : y[i] = q[i]
      /\ \A i \in DOMAIN y : i \in DOMAIN q \/ y[i] = m
      /\ \E i \in DOMAIN y : y[i] = m
  <2> DEFINE k == Len(q)
  <2>1. k \in Nat /\ DOMAIN q = 1..k /\ DOMAIN y = 1..(k + 1) /\ y[k + 1] = m /\ \A i \in 1..k : y[i] = q[i]
    BY <1>1
  <2> HIDE DEF k, y, q
  <2>2. \A i \in 1..(k + 1) : i \in 1..k \/ i = k + 1
    BY <2>1
  <2>3. 1..k \subseteq 1..(k + 1) /\ k + 1 \in 1..(k + 1)
    BY <2>1
  <2> QED BY <2>1, <2>2, <2>3
<1>4. /\ a = [l \in Nodes |-> {r \in Tasks : Carries(c, types, r, l)}]
      /\ b = [l \in Nodes |-> {r \in Tasks : Carries(d, types, r, l)}]
  BY WayIs
<1> HIDE DEF y, q, a, b
<1>5. ASSUME NEW r, NEW l \in Nodes
      PROVE  Carries(d, types, r, l) <=> Carries(c, types, r, l) \/ (l = n /\ Says(m, types, r))
  <2>1. CASE l # n
    BY <1>2, <2>1 DEF Carries
  <2>2. CASE l = n
    BY <1>2, <1>3, <2>2 DEF Carries
  <2> QED BY <2>1, <2>2
<1>6. ASSUME \A r : ~Says(m, types, r) PROVE b = a
  BY <1>4, <1>5, <1>6
<1>7. ASSUME NEW t \in Tasks, \A r : Says(m, types, r) <=> r = t
      PROVE  b = [a EXCEPT ![n] = @ \cup {t}]
  <2>1. \A l \in Nodes : b[l] = IF l = n THEN a[l] \cup {t} ELSE a[l]
    BY <1>4, <1>5, <1>7
  <2> QED BY <1>4, <2>1
<1> QED BY <1>6, <1>7 DEF a, b, PutOn

-----------------------------------------------------------------------------
(* Requeue takes the task from its holder.                                   *)

\* A task that was given up stays so when its job is finished.
LEMMA FinishLeaves ==
  ASSUME NEW s \in States, NEW j \in Jobs, NEW t \in Tasks, s.status[t] = "failed"
  PROVE  MaybeFinish(s, j).status[t] = "failed"
<1> DEFINE r == ReduceTask(j)
           z == Reducing(s, j)
           x == MaybeFinish(s, j)
<1>1. CASE s.status[r] = "absent" /\ StartsReduce(s, j, x)
  <2>1. r \in Tasks /\ r # t /\ z \in States /\ IsReducing(s, z, j)
    BY <1>1, TaskNames, ReducingEffect
  <2>2. PICK n \in s.registered : x = Assign(z, r, n) \/ x = Reassign(z, r, n)
    BY <1>1 DEF StartsReduce
  <2>3. n \in Nodes /\ z.status[t] = "failed"
    BY <2>1 DEF States, IsReducing
  <2> HIDE DEF r, z, x
  <2>4. Assigned(z, Assign(z, r, n), r, n) /\ Reassigned(z, Reassign(z, r, n), r, n)
    BY <2>1, <2>3, AssignEffect, ReassignEffect
  <2>5. Assign(z, r, n).status[t] = "failed" /\ Reassign(z, r, n).status[t] = "failed"
    BY <2>1, <2>3, <2>4 DEF Assigned, Reassigned, States
  <2> QED BY <2>2, <2>5 DEF x
<1>2. [s EXCEPT !.jobStatus[j] = "failed"].status = s.status /\ Done(s, j).status = s.status
  BY JobStatusEffect, DoneEffect DEF JobMarked, JobDone, SameTasks, JobStatuses
<1> HIDE DEF x, r
<1>3. \/ x = s \/ x = [s EXCEPT !.jobStatus[j] = "failed"] \/ x = Done(s, j)
      \/ s.status[r] = "absent" /\ StartsReduce(s, j, x)
  BY FinishCases DEF x, r
<1>4. x.status = s.status \/ x.status[t] = "failed"
  BY <1>1, <1>2, <1>3 DEF x
<1> QED BY <1>4 DEF x

\* A task that was requeued, or given up, is in nobody's hand.
LEMMA RequeueLeaves ==
  ASSUME NEW s \in States, NEW t \in Tasks
  PROVE  Requeue(s, t).status[t] \notin InHand
<1> DEFINE f == Freed(s, t)
           g == GivenUp(s, t)
           j == JobOf(t)
           p == Replanned(f, j)
           plan == PlanPipeline(f)
<1>1. f \in States /\ g \in States /\ j \in Jobs
  BY RequeueCases, TaskNames
<1>2. g.status[t] = "failed"
  <2>1. Marked(f, g, t, "failed")
    BY <1>1, StatusEffect DEF GivenUp, TaskStatuses
  <2> HIDE DEF f, g
  <2> QED BY <1>1, <2>1 DEF Marked, States
<1>3. MaybeFinish(g, j).status[t] = "failed"
  BY <1>1, <1>2, FinishLeaves
<1>4. p \in States
  BY <1>1, ReplannedEffect
<1> HIDE DEF f, g, j, p, plan
<1>5. ASSUME NEW z \in States, NEW n \in Nodes PROVE Reassign(z, t, n).status[t] = "reassigned"
  <2>1. Reassigned(z, Reassign(z, t, n), t, n)
    BY ReassignEffect
  <2> QED BY <2>1 DEF Reassigned, States
<1>6. f.registered \subseteq Nodes /\ (plan # {} => First(plan) \in Nodes)
  BY <1>1, Views, FirstNode DEF plan, States
<1>7. \/ Requeue(s, t) = MaybeFinish(g, j)
      \/ \E n \in f.registered : Requeue(s, t) = Reassign(f, t, n)
      \/ plan # {} /\ Requeue(s, t) = Reassign(p, t, First(plan))
  BY RequeueCases DEF f, g, j, p, plan
<1>8. Requeue(s, t).status[t] \in {"failed", "reassigned"}
  BY <1>1, <1>3, <1>4, <1>5, <1>6, <1>7
<1> QED BY <1>8 DEF InHand

-----------------------------------------------------------------------------
(* The state of TaskHandoff that a coordinator's record stands for, and      *)
(* the handlers one by one.                                                  *)

\* The variables of TaskHandoff as functions of the record.
Phase(s) == [t \in Tasks |-> PhaseIn(s, t)]
Held(s) == [t \in Tasks |-> HolderIn(s, t)]
Way(s) == [n \in Nodes |-> {t \in Tasks : Sent(s, t, n)}]

\* The state of TaskHandoff that the coordinator's record and the sockets stand for.
LEMMA Mapping ==
  /\ [t \in Tasks |-> PhaseOf(t)] = Phase(Coordinator)
  /\ [t \in Tasks |-> IF PhaseOf(t) = "held" THEN holder[t] ELSE None] = Held(Coordinator)
  /\ OnTheWay(inbox, {"assign"}) = Way(Coordinator)
<1>1. Coordinator.status = status /\ Coordinator.holder = holder /\ Coordinator.inbox = inbox
  BY CoordinatorFields
<1>2. \A t \in Tasks : PhaseOf(t) = PhaseIn(Coordinator, t)
  BY <1>1 DEF PhaseOf, PhaseIn, InHand
<1>3. ASSUME NEW t \in Tasks, NEW n \in Nodes
      PROVE  (\E i \in DOMAIN inbox[n] : inbox[n][i] \in [type : {"assign"}, task : {t}]) <=> Sent(Coordinator, t, n)
  BY <1>1 DEF Sent, SentAt, About
<1> QED BY <1>1, <1>2, <1>3 DEF Phase, Held, Way, HolderIn, OnTheWay

\* The same after a step.
LEMMA MappingNext ==
  /\ [t \in Tasks |-> PhaseOf(t)]' = Phase(Coordinator')
  /\ [t \in Tasks |-> IF PhaseOf(t) = "held" THEN holder[t] ELSE None]' = Held(Coordinator')
  /\ OnTheWay(inbox, {"assign"})' = Way(Coordinator')
<1>1. (/\ [t \in Tasks |-> PhaseOf(t)] = Phase(Coordinator)
  /\ [t \in Tasks |-> IF PhaseOf(t) = "held" THEN holder[t] ELSE None] = Held(Coordinator)
  /\ OnTheWay(inbox, {"assign"}) = Way(Coordinator))'
  BY Mapping, PTL
<1> QED BY <1>1

\* A hand-out in the record is a hand-out of TaskHandoff.
LEMMA Handed ==
  ASSUME NEW z, NEW p, NEW D, NEW g, HandedOut(z, Coordinator', p, D, g),
         attempts' \in [Tasks -> Nat], \A t \in Tasks : z.attempts[t] = attempts[t],
         \A t \in Tasks : p[t] = "held" => HolderIn(z, t) = HolderIn(Coordinator, t)
  PROVE  /\ Handoff!HandOut(p, D, g)
         /\ OnTheWay(inbox, {"assign"})' = Handoff!Sent(Way(z), D, g)
<1> DEFINE x == Coordinator'
<1>1. /\ [t \in Tasks |-> PhaseOf(t)]' = Phase(x)
      /\ [t \in Tasks |-> IF PhaseOf(t) = "held" THEN holder[t] ELSE None]' = Held(x)
      /\ OnTheWay(inbox, {"assign"})' = Way(x)
  BY MappingNext
<1>2. [t \in Tasks |-> IF PhaseOf(t) = "held" THEN holder[t] ELSE None] = Held(Coordinator)
  BY Mapping
<1>3. x.attempts = attempts'
  BY DEF Coordinator
<1> HIDE DEF x
<1>4. HandedOut(z, x, p, D, g)
  BY DEF x
<1>5. /\ D \subseteq {t \in Tasks : p[t] = "waiting"}
      /\ Phase(x) = [t \in Tasks |-> IF t \in D THEN "held" ELSE p[t]]
      /\ Held(x) = [t \in Tasks |-> IF t \in D THEN g[t] ELSE IF p[t] = "held" THEN Held(Coordinator)[t] ELSE None]
      /\ attempts' = [t \in Tasks |-> IF t \in D THEN attempts[t] + 1 ELSE attempts[t]]
  BY <1>3, <1>4 DEF HandedOut, Phase, Held
<1>6. Handoff!HandOut(p, D, g)
  BY <1>1, <1>2, <1>5 DEF Handoff!HandOut
<1>7. Way(x) = Handoff!Sent(Way(z), D, g)
  BY <1>4 DEF HandedOut, Way, Handoff!Sent
<1> QED BY <1>1, <1>6, <1>7

\* A turn of a handler, from z, that has the tasks W to get rid of: F is given up.
HandsOver(z, W) ==
  \E F \in SUBSET W, D \in SUBSET Tasks : \E g \in [D -> z.registered] :
    /\ \A t \in W \ F : attempts[t] < MaxTaskAttempts
    /\ Handoff!HandOut(PhasesAfter(z, W, F), D, g)
    /\ OnTheWay(inbox, {"assign"})' = Handoff!Sent(Way(z), D, g)
\* What a handler does after it has taken the tasks W back is such a turn.
LEMMA TurnStep ==
  ASSUME IInv, IInv', LedgerTidy', Watchable, NEW z, NEW W \in SUBSET Tasks, TurnFrom(z, W),
         \A t \in Tasks : z.attempts[t] = attempts[t],
         \A t \in Tasks : z.status[t] \in InHand => status[t] \in InHand /\ z.holder[t] = holder[t],
         \A t \in W : /\ z.status[t] \notin Settled
                      /\ status'[t] \in InHand /\ SamePhase(z, Coordinator', t) => z.holder[t] \notin z.registered
  PROVE  /\ World'.cancelled = {} /\ MayRetry(Coordinator') /\ registered' = z.registered
         /\ HandsOver(z, W)
<1> DEFINE x == Coordinator'
           s == Coordinator
<1>1. /\ NoneCancelled(x) /\ MayRetry(z) /\ x.registered = z.registered
      /\ \A t \in Tasks : TurnOf(z, x, W, t)
  BY DEF TurnFrom
<1>2. /\ x \in States /\ CancelledOf(x, World')
      /\ \A t \in Tasks : Tracked(x, t) => LedgerOf(x, {}, {}, World', t)
  BY WorldFields DEF IInv, CoordinatorSound, Sound, LedgerTidy, Tidy
<1>3. x.status = status' /\ x.registered = registered' /\ x.attempts = attempts' /\ s.status = status /\ s.holder = holder
  BY DEF Coordinator
<1>4. World'.cancelled \subseteq Jobs
  BY WorldFields
<1> HIDE DEF x, s
<1>5. World'.cancelled = {}
  BY <1>1, <1>2, <1>4 DEF CancelledOf, NoneCancelled
<1>6. \A t \in Tasks : x.status[t] \in InHand => x.holder[t] \in x.registered
  <2>1. \A t \in Tasks : Tracked(x, t)
    BY <1>1, TaskNames DEF Tracked, NoneCancelled
  <2> QED BY <1>2, <2>1 DEF LedgerOf
<1>7. MayRetry(x)
  <2> SUFFICES ASSUME NEW t \in Tasks, Idle(x, t) PROVE x.attempts[t] < MaxTaskAttempts
    BY DEF MayRetry
  <2>1. TurnOf(z, x, W, t) /\ x.status[t] \notin InHand \cup Settled
    BY <1>1 DEF Idle
  <2> QED BY <1>1, <2>1 DEF TurnOf, Idle, SamePhase, SameSent, MayRetry, Settled
<1>8. None \notin x.registered /\ x.registered \subseteq Nodes /\ attempts' \in [Tasks -> Nat]
  BY <1>2, <1>3, Numbers DEF States
<1>9. \A t \in W : /\ z.status[t] \notin Settled
                   /\ x.status[t] \in InHand => ~(SamePhase(z, x, t) /\ x.holder[t] \in {z.holder[t], None})
  BY <1>1, <1>3, <1>6, <1>8 DEF x
<1>10. \A t \in Tasks : TurnOf(z, x, W, t)
  BY <1>1
<1>11. PICK F \in SUBSET W, D \in SUBSET Tasks : \E g :
           /\ \A t \in W \ F : z.attempts[t] < MaxTaskAttempts
           /\ HandedOut(z, x, PhasesAfter(z, W, F), D, g)
  BY <1>1, <1>6, <1>8, <1>9, <1>10, TurnHandsOut
<1>12. PICK g : /\ \A t \in W \ F : z.attempts[t] < MaxTaskAttempts
                /\ HandedOut(z, x, PhasesAfter(z, W, F), D, g)
  BY <1>11
<1> DEFINE p == PhasesAfter(z, W, F)
<1>13. \A t \in Tasks : p[t] = "held" => z.status[t] \in InHand
  BY DEF PhasesAfter, PhaseIn
<1> HIDE DEF p
<1>14. \A t \in Tasks : p[t] = "held" => HolderIn(z, t) = HolderIn(s, t)
  <2> SUFFICES ASSUME NEW t \in Tasks, p[t] = "held" PROVE HolderIn(z, t) = HolderIn(s, t)
    OBVIOUS
  <2>1. z.status[t] \in InHand /\ s.status[t] \in InHand /\ z.holder[t] = s.holder[t]
    BY <1>3, <1>13
  <2>2. PhaseIn(z, t) = "held" /\ PhaseIn(s, t) = "held"
    BY <2>1 DEF PhaseIn, InHand
  <2> QED BY <2>1, <2>2 DEF HolderIn
<1>15. HandedOut(z, x, p, D, g)
  BY <1>12 DEF p
<1>16. Handoff!HandOut(p, D, g) /\ OnTheWay(inbox, {"assign"})' = Handoff!Sent(Way(z), D, g)
  BY <1>8, <1>14, <1>15, Handed DEF x, s
<1>17. g \in [D -> z.registered] /\ \A t \in W \ F : attempts[t] < MaxTaskAttempts
  BY <1>1, <1>12, <1>15 DEF HandedOut
<1>18. HandsOver(z, W)
  BY <1>16, <1>17 DEF HandsOver, p
<1> QED BY <1>1, <1>3, <1>5, <1>7, <1>18 DEF x

\* A step of TaskHandoff, or none, after which the sockets of all nodes still work.
Hands == (Handoff!Next \/ UNCHANGED Handoff!vars) /\ Watchable'

LEMMA HandsNext ==
  ASSUME NEW D \in SUBSET Tasks, NEW g \in [D -> registered], Handoff!CoordinatorStep(D, g)
  PROVE  Handoff!Next
BY DEF Handoff!Next, Handoff!Coordinate

\* A submission and a microtask have no task to take back.
LEMMA DispatchHands ==
  ASSUME IInv, IInv', LedgerTidy', Watchable, TurnFrom(Coordinator, {}), UNCHANGED <<runs, outbox, open>>
  PROVE  Hands
<1> DEFINE s == Coordinator
<1>1. s.attempts = attempts /\ s.status = status /\ s.holder = holder /\ s.registered = registered
  BY CoordinatorFields
<1>2. TurnFrom(s, {})
  OBVIOUS
<1> HIDE DEF s
<1>3. /\ World'.cancelled = {} /\ MayRetry(Coordinator') /\ registered' = registered
      /\ HandsOver(s, {})
  BY <1>1, <1>2, TurnStep
<1>4. Watchable'
  BY <1>3 DEF Watchable
<1>5. PICK F \in SUBSET {}, D \in SUBSET Tasks : \E g \in [D -> registered] :
           /\ Handoff!HandOut(PhasesAfter(s, {}, F), D, g)
           /\ OnTheWay(inbox, {"assign"})' = Handoff!Sent(Way(s), D, g)
  BY <1>1, <1>3 DEF HandsOver
<1>6. PICK g \in [D -> registered] :
           /\ Handoff!HandOut(PhasesAfter(s, {}, F), D, g)
           /\ OnTheWay(inbox, {"assign"})' = Handoff!Sent(Way(s), D, g)
  BY <1>5
<1>7. PhasesAfter(s, {}, F) = Phase(s)
  BY DEF PhasesAfter, Phase
<1>8. OnTheWay(outbox, {"completed"})' = OnTheWay(outbox, {"completed"})
      /\ OnTheWay(outbox, {"rejected", "failed"})' = OnTheWay(outbox, {"rejected", "failed"})
  BY DEF OnTheWay
<1>9. Handoff!Dispatch(D, g)
  BY <1>3, <1>6, <1>7, <1>8, Mapping DEF Handoff!Dispatch, s
<1>10. Handoff!Next
  BY <1>5, <1>6, <1>9, HandsNext DEF Handoff!CoordinatorStep
<1> QED BY <1>4, <1>10 DEF Hands

\* The verdict of n on t was among those on the way, and is not any more.
LastWord(n, t, type, types) ==
  /\ type \in types =>
       /\ t \in OnTheWay(outbox, types)[n]
       /\ OnTheWay(outbox, types)' = [OnTheWay(outbox, types) EXCEPT ![n] = @ \ {t}]
  /\ type \notin types => OnTheWay(outbox, types)' = OnTheWay(outbox, types)

\* The verdict that a handler reads is the worker's last word on the task.
LEMMA VerdictTaken ==
  ASSUME IInv, LedgerTidy, Watchable, NEW n \in Nodes, outbox[n] # <<>>, Consume(n),
         Head(outbox[n]).type \notin {"accepted", "heartbeat"}, NEW types, "heartbeat" \notin types,
         "accepted" \notin types, NEW t, t = Head(outbox[n]).task
  PROVE  t \in Tasks /\ status[t] \in InHand /\ LastWord(n, t, Head(outbox[n]).type, types)
<1> DEFINE h == Head(outbox[n])
<1>1. /\ 1 \in DOMAIN outbox[n] /\ h = outbox[n][1] /\ outbox \in [Nodes -> Seq(Reports)]
      /\ outbox' = [outbox EXCEPT ![n] = Tail(@)]
  BY HeadOfOutbox DEF IInv, LinksSound, Consume
<1>2. h.type # "heartbeat" /\ h.type # "accepted"
  OBVIOUS
<1>3. t \in Tasks /\ h = About(h.type, t)
  BY <1>1, <1>2, ReportOf DEF IInv
<1>4. Tracked(Coordinator, t)
  BY <1>3, TaskNames, WorldFields, CoordinatorFields DEF Tracked, Watchable
<1>5. status[t] \in InHand /\ \A l \in Nodes : ~Airborne(Coordinator, Popped, t, l)
  BY <1>2, <1>4, PopTidy, CoordinatorFields
<1>6. Popped.outbox = outbox'
  BY DEF Popped
<1> HIDE DEF h
<1>7. ~Carries(outbox', types, t, n)
  BY <1>5, <1>6 DEF Carries, Says, Airborne, Heard, HeardAt
<1>8. /\ h.type \notin types => \A r : ~Says(h, types, r)
      /\ h.type \in types => \A r : Says(h, types, r) <=> r = t
  <2>1. /\ h.type \notin types => \A r : ~Says(h, types, r)
        /\ \A u : h = About(h.type, u) /\ h.type \in types => \A r : Says(h, types, r) <=> r = u
    BY SaysOf
  <2> QED BY <1>3, <2>1
<1>9. OnTheWay(outbox, types)' = OnTheWay(outbox', types)
  BY DEF OnTheWay
<1>10. TakenOff(outbox, outbox', n, h, types)
  BY <1>1, PostTaken DEF h
<1>11. /\ h.type \notin types => OnTheWay(outbox', types) = OnTheWay(outbox, types)
       /\ h.type \in types => /\ OnTheWay(outbox', types) = [OnTheWay(outbox, types) EXCEPT ![n] = @ \ {t}]
                              /\ t \in OnTheWay(outbox, types)[n]
  BY <1>3, <1>7, <1>8, <1>10 DEF TakenOff
<1> QED BY <1>3, <1>5, <1>9, <1>11 DEF h, LastWord

\* task:completed: the task is answered, and its node gets another one, maybe.
LEMMA CompletedHands ==
  ASSUME IInv, IInv', LedgerTidy, LedgerTidy', WorkersTidy, JobsStay, Watchable,
         NEW n \in Nodes, OnTaskCompleted(n)
  PROVE  Hands
<1> DEFINE t == Head(outbox[n]).task
           done == OnTheWay(outbox, {"completed"})
           returned == OnTheWay(outbox, {"rejected", "failed"})
<1>1. /\ outbox[n] # <<>> /\ Consume(n) /\ Head(outbox[n]).type = "completed"
      /\ UNCHANGED <<open, runs>>
  BY DEF OnTaskCompleted, Hears, Consume
<1>2. /\ t \in Tasks /\ t \in done[n] /\ done' = [done EXCEPT ![n] = @ \ {t}] /\ returned' = returned
  <2>1. /\ t \in Tasks /\ status[t] \in InHand
        /\ LastWord(n, t, Head(outbox[n]).type, {"completed"})
        /\ LastWord(n, t, Head(outbox[n]).type, {"rejected", "failed"})
    <3>1. /\ Head(outbox[n]).type \notin {"accepted", "heartbeat"}
          /\ \A v \in {"accepted", "heartbeat"} : v \notin {"completed"} /\ v \notin {"rejected", "failed"}
      BY <1>1
    <3> QED BY <1>1, <3>1, VerdictTaken
  <2> QED BY <1>1, <2>1 DEF LastWord
<1>3. PICK z : /\ z.holder = holder /\ z.attempts = attempts /\ z.inbox = inbox
               /\ z.status = [status EXCEPT ![t] = "completed"]
               /\ z.registered = registered /\ TurnFrom(z, {})
  BY CompletedTidy
<1>4. /\ Coordinator.status = status /\ Coordinator.holder = holder /\ Coordinator.inbox = inbox
      /\ status \in [Tasks -> TaskStatuses]
  BY CoordinatorFields DEF IInv, CoordinatorSound, Sound, States
<1> HIDE DEF t, done, returned
<1>5. \A r \in Tasks : z.status[r] \in InHand => status[r] \in InHand
  BY <1>3, <1>4 DEF InHand
<1>6. /\ World'.cancelled = {} /\ MayRetry(Coordinator') /\ registered' = registered
      /\ HandsOver(z, {})
  <2>1. /\ TurnFrom(z, {}) /\ z.registered = registered
        /\ \A r \in Tasks : z.attempts[r] = attempts[r]
        /\ \A r \in Tasks : z.status[r] \in InHand => status[r] \in InHand /\ z.holder[r] = holder[r]
    BY <1>3, <1>5
  <2> QED BY <2>1, TurnStep
<1>7. Watchable'
  BY <1>1, <1>6 DEF Watchable
<1>8. PICK F \in SUBSET {}, D \in SUBSET Tasks : \E g \in [D -> registered] :
           /\ Handoff!HandOut(PhasesAfter(z, {}, F), D, g)
           /\ OnTheWay(inbox, {"assign"})' = Handoff!Sent(Way(z), D, g)
  BY <1>3, <1>6 DEF HandsOver
<1>9. PICK g \in [D -> registered] :
           /\ Handoff!HandOut(PhasesAfter(z, {}, F), D, g)
           /\ OnTheWay(inbox, {"assign"})' = Handoff!Sent(Way(z), D, g)
  BY <1>8
<1>10. PhasesAfter(z, {}, F) = [Phase(Coordinator) EXCEPT ![t] = "answered"]
  <2>1. \A r \in Tasks : PhaseIn(z, r) = IF r = t THEN "answered" ELSE PhaseIn(Coordinator, r)
    BY <1>3, <1>4 DEF PhaseIn, InHand
  <2> QED BY <2>1 DEF PhasesAfter, Phase
<1>11. Way(z) = Way(Coordinator)
  BY <1>3, <1>4 DEF Way, Sent, SentAt
<1>12. PICK r \in Tasks : r = t
  BY <1>2
<1>13. Handoff!Next
  <2>1. Handoff!OnTaskCompleted(n, r, D, g)
    BY <1>1, <1>2, <1>6, <1>9, <1>10, <1>11, <1>12, Mapping DEF Handoff!OnTaskCompleted, done, returned
  <2>2. Handoff!CoordinatorStep(D, g)
    BY <2>1 DEF Handoff!CoordinatorStep
  <2> QED BY <2>2, HandsNext
<1> QED BY <1>7, <1>13 DEF Hands

\* task:failed and task:reject: the task is taken back and handed out again or given up.
LEMMA RefusedHands ==
  ASSUME IInv, IInv', LedgerTidy, LedgerTidy', WorkersTidy, JobsStay, Watchable,
         NEW n \in Nodes, OnTaskRefusedOrFailed(n)
  PROVE  Hands
<1> DEFINE s == Coordinator
           t == Head(outbox[n]).task
           done == OnTheWay(outbox, {"completed"})
           returned == OnTheWay(outbox, {"rejected", "failed"})
<1>1. /\ outbox[n] # <<>> /\ Consume(n) /\ Head(outbox[n]).type \in {"rejected", "failed"}
      /\ UNCHANGED <<open, runs>> /\ Commit(Requeue(s, t))
  BY DEF OnTaskRefusedOrFailed, Hears, Consume
<1>2. /\ t \in Tasks /\ status[t] \in InHand
      /\ t \in returned[n] /\ returned' = [returned EXCEPT ![n] = @ \ {t}] /\ done' = done
  <2>1. /\ t \in Tasks /\ status[t] \in InHand
        /\ LastWord(n, t, Head(outbox[n]).type, {"completed"})
        /\ LastWord(n, t, Head(outbox[n]).type, {"rejected", "failed"})
    <3>1. /\ Head(outbox[n]).type \notin {"accepted", "heartbeat"}
          /\ \A v \in {"accepted", "heartbeat"} : v \notin {"completed"} /\ v \notin {"rejected", "failed"}
      BY <1>1
    <3> QED BY <1>1, <3>1, VerdictTaken
  <2> QED BY <1>1, <2>1 DEF LastWord
<1>3. TurnFrom(s, {t})
  BY RefusedTidy
<1>4. /\ s.status = status /\ s.holder = holder /\ s.registered = registered
      /\ s.attempts = attempts /\ s \in States
  BY CoordinatorFields DEF IInv, CoordinatorSound, Sound
<1>5. status'[t] \notin InHand
  BY <1>1, <1>2, <1>4, RequeueLeaves DEF Commit
<1> HIDE DEF s, t, done, returned
<1>6. s.status[t] \notin Settled
  BY <1>2, <1>4 DEF InHand, Settled
<1>7. /\ World'.cancelled = {} /\ MayRetry(Coordinator') /\ registered' = registered
      /\ HandsOver(s, {t})
  BY <1>2, <1>3, <1>4, <1>5, <1>6, TurnStep
<1>8. Watchable'
  BY <1>1, <1>7 DEF Watchable
<1>9. PICK F \in SUBSET {t}, D \in SUBSET Tasks : \E g \in [D -> registered] :
           /\ \A r \in {t} \ F : attempts[r] < MaxTaskAttempts
           /\ Handoff!HandOut(PhasesAfter(s, {t}, F), D, g)
           /\ OnTheWay(inbox, {"assign"})' = Handoff!Sent(Way(s), D, g)
  BY <1>4, <1>7 DEF HandsOver
<1>10. PICK g \in [D -> registered] :
           /\ \A r \in {t} \ F : attempts[r] < MaxTaskAttempts
           /\ Handoff!HandOut(PhasesAfter(s, {t}, F), D, g)
           /\ OnTheWay(inbox, {"assign"})' = Handoff!Sent(Way(s), D, g)
  BY <1>9
<1>11. PhasesAfter(s, {t}, F) = Handoff!Release({t}, F)
  BY Mapping DEF PhasesAfter, Phase, Handoff!Release, s
<1>12. Handoff!OnTaskReturned(n, t, F, D, g)
  BY <1>1, <1>2, <1>7, <1>10, <1>11, Mapping
     DEF Handoff!OnTaskReturned, Handoff!GivesUp, done, returned, s
<1>13. F \in SUBSET Tasks
  BY <1>2
<1>14. Handoff!Next
  <2>1. Handoff!CoordinatorStep(D, g)
    BY <1>2, <1>12, <1>13 DEF Handoff!CoordinatorStep
  <2> QED BY <2>1, HandsNext
<1> QED BY <1>8, <1>14 DEF Hands

\* The sockets of a node that died carry nothing.
LEMMA SocketLost ==
  ASSUME NEW S, NEW c \in [Nodes -> Seq(S)], NEW n \in Nodes, NEW types
  PROVE  OnTheWay([c EXCEPT ![n] = <<>>], types) = [OnTheWay(c, types) EXCEPT ![n] = {}]
<1> DEFINE d == [c EXCEPT ![n] = <<>>]
<1>1. DOMAIN <<>> = {} /\ d[n] = <<>> /\ \A m \in Nodes \ {n} : d[m] = c[m]
  OBVIOUS
<1> HIDE DEF d
<1>2. \A r, m : m \in Nodes => (Carries(d, types, r, m) <=> m # n /\ Carries(c, types, r, m))
  BY <1>1 DEF Carries
<1>3. OnTheWay(d, types) = [OnTheWay(c, types) EXCEPT ![n] = {}]
  BY <1>2, WayIs
<1> QED BY <1>3 DEF d

\* A worker dies: all that it held is taken back in one turn.
LEMMA CrashHands ==
  ASSUME IInv, IInv', LedgerTidy, LedgerTidy', WorkersTidy, JobsStay, Watchable,
         NEW n \in Nodes, n \in registered, Crash(n)
  PROVE  Hands
<1> DEFINE s == Coordinator
           z == Gone(s, n)
           W == Orphans(s, n)
<1>1. TurnFrom(z, W)
  BY LossTidy
<1>2. /\ s.status = status /\ s.holder = holder /\ s.registered = registered /\ s.inbox = inbox
      /\ s.attempts = attempts /\ s \in States
  BY CoordinatorFields DEF IInv, CoordinatorSound, Sound
<1>3. /\ z.status = status /\ z.holder = holder /\ z.attempts = attempts /\ z.registered = registered \ {n}
      /\ z.inbox[n] = <<>> /\ \A m \in Nodes \ {n} : z.inbox[m] = inbox[m]
  BY <1>2, GoneEffect DEF IsGone, SameTasks, SameTries
<1>4. W \in SUBSET Tasks /\ W = Handoff!HeldBy(n) \cup Handoff!InPhase("waiting")
  <2>1. \A t \in Tasks : Idle(s, t) <=> Phase(s)[t] = "waiting"
    BY DEF Idle, Phase, PhaseIn, InHand, Settled
  <2>2. \A t \in Tasks : s.status[t] \in InHand /\ s.holder[t] = n <=> Phase(s)[t] = "held" /\ Held(s)[t] = n
    BY DEF Phase, Held, PhaseIn, HolderIn, InHand
  <2> HIDE DEF s
  <2>3. Handoff!InPhase("waiting") = {t \in Tasks : Phase(s)[t] = "waiting"}
    BY Mapping DEF Handoff!InPhase, s
  <2>4. Handoff!HeldBy(n) = {t \in Tasks : Phase(s)[t] = "held" /\ Held(s)[t] = n}
    BY Mapping DEF Handoff!InPhase, Handoff!HeldBy, s
  <2> QED BY <2>1, <2>2, <2>3, <2>4 DEF Orphans
<1>5. \A t \in W : status[t] \notin Settled /\ (status[t] \in InHand => holder[t] = n)
  BY <1>2 DEF Orphans, Idle, InHand, Settled
<1>6. /\ n \in registered /\ open' = open \ {n} /\ outbox' = [outbox EXCEPT ![n] = <<>>]
      /\ runs' = [runs EXCEPT ![n] = {}] /\ outbox \in [Nodes -> Seq(Reports)]
  BY DEF Crash, IInv, LinksSound
<1>7. Way(z) = [Way(s) EXCEPT ![n] = {}]
  <2>1. DOMAIN <<>> = {}
    OBVIOUS
  <2> HIDE DEF z, s
  <2>2. \A t, m : m \in Nodes => (Sent(z, t, m) <=> m # n /\ Sent(s, t, m))
    BY <1>2, <1>3, <2>1 DEF Sent, SentAt
  <2> QED BY <2>2 DEF Way
<1> HIDE DEF s, z, W
<1>8. World'.cancelled = {} /\ MayRetry(Coordinator') /\ registered' = z.registered /\ HandsOver(z, W)
  <2>1. \A t \in W : /\ z.status[t] \notin Settled
                     /\ status'[t] \in InHand /\ SamePhase(z, Coordinator', t) => z.holder[t] \notin z.registered
    <3>1. Coordinator'.status = status'
      BY DEF Coordinator
    <3> QED BY <1>3, <1>5, <3>1 DEF SamePhase
  <2> QED BY <1>1, <1>3, <1>4, <2>1, TurnStep
<1>9. Watchable'
  BY <1>3, <1>6, <1>8 DEF Watchable
<1>10. PICK F \in SUBSET W, D \in SUBSET Tasks : \E g \in [D -> registered \ {n}] :
         /\ \A t \in W \ F : attempts[t] < MaxTaskAttempts
         /\ Handoff!HandOut(PhasesAfter(z, W, F), D, g)
         /\ OnTheWay(inbox, {"assign"})' = Handoff!Sent(Way(z), D, g)
  BY <1>3, <1>8 DEF HandsOver
<1>11. PICK g \in [D -> registered \ {n}] :
         /\ \A t \in W \ F : attempts[t] < MaxTaskAttempts
         /\ Handoff!HandOut(PhasesAfter(z, W, F), D, g)
         /\ OnTheWay(inbox, {"assign"})' = Handoff!Sent(Way(z), D, g)
  BY <1>10
<1>12. PhasesAfter(z, W, F) = Handoff!Release(W, F)
  <2>1. \A t \in Tasks : PhaseIn(z, t) = Phase(s)[t]
    BY <1>2, <1>3 DEF PhaseIn, Phase
  <2> QED BY <2>1, Mapping DEF PhasesAfter, Handoff!Release, s
<1>13. /\ OnTheWay(outbox, {"completed"})' = [OnTheWay(outbox, {"completed"}) EXCEPT ![n] = {}]
       /\ OnTheWay(outbox, {"rejected", "failed"})' = [OnTheWay(outbox, {"rejected", "failed"}) EXCEPT ![n] = {}]
  <2>1. ASSUME NEW types PROVE OnTheWay(outbox, types)' = [OnTheWay(outbox, types) EXCEPT ![n] = {}]
    <3>1. OnTheWay([outbox EXCEPT ![n] = <<>>], types) = [OnTheWay(outbox, types) EXCEPT ![n] = {}]
      BY <1>6, SocketLost
    <3>2. OnTheWay(outbox, types)' = OnTheWay(outbox', types)
      BY DEF OnTheWay
    <3> QED BY <1>6, <3>1, <3>2
  <2> QED BY <2>1
<1>14. F \in SUBSET Tasks /\ g \in [D -> registered] /\ \A t \in D : g[t] # n
  BY <1>4
<1>15. Handoff!OnNodeLost(n, F, D, g)
  <2>1. Handoff!GivesUp(W, F)
    BY <1>11 DEF Handoff!GivesUp
  <2>2. OnTheWay(inbox, {"assign"})' = Handoff!Sent([OnTheWay(inbox, {"assign"}) EXCEPT ![n] = {}], D, g)
    BY <1>7, <1>11, Mapping DEF s
  <2> QED BY <1>3, <1>4, <1>6, <1>8, <1>11, <1>12, <1>13, <1>14, <2>1, <2>2 DEF Handoff!OnNodeLost
<1>16. Handoff!CoordinatorStep(D, g)
  BY <1>14, <1>15 DEF Handoff!CoordinatorStep
<1> QED BY <1>9, <1>14, <1>16, HandsNext DEF Hands

\* A step that leaves phases, attempts and the connections as they are.
LEMMA BooksStay ==
  ASSUME UNCHANGED <<jobStatus, holder, attempts, registered, inbox>>, Watchable, open \subseteq open',
         \A t \in Tasks : status'[t] = status[t] \/ {status[t], status'[t]} \subseteq InHand
  PROVE  /\ Watchable' /\ UNCHANGED Handoff!ledger
         /\ OnTheWay(inbox, {"assign"})' = OnTheWay(inbox, {"assign"})
<1> DEFINE s == Coordinator
           x == Coordinator'
<1>1. /\ s.status = status /\ x.status = status' /\ s.holder = x.holder /\ s.attempts = x.attempts
      /\ s.inbox = x.inbox
  BY DEF Coordinator
<1>2. World'.cancelled = World.cancelled
  BY WorldFields
<1> HIDE DEF s, x
<1>3. \A t \in Tasks : PhaseIn(x, t) = PhaseIn(s, t) /\ (Idle(x, t) <=> Idle(s, t))
  BY <1>1 DEF PhaseIn, Idle, InHand, Settled
<1>4. Phase(x) = Phase(s) /\ Held(x) = Held(s) /\ Way(x) = Way(s)
  BY <1>1, <1>3 DEF Phase, Held, Way, HolderIn, Sent, SentAt
<1>5. MayRetry(s) => MayRetry(x)
  BY <1>1, <1>3 DEF MayRetry
<1> QED BY <1>2, <1>4, <1>5, Mapping, MappingNext DEF Watchable, Handoff!ledger, s, x

\* Chunks, acceptances and heartbeats that the coordinator reads change no phase.
LEMMA NoiseHands ==
  ASSUME IInv, LedgerTidy, Watchable, NEW n \in Nodes, OnTaskAccepted(n) \/ UpdateHeartbeat(n)
  PROVE  Hands
<1> DEFINE t == Head(outbox[n]).task
           h == Head(outbox[n])
<1>1. /\ outbox[n] # <<>> /\ Consume(n) /\ h.type \in {"accepted", "heartbeat"}
      /\ UNCHANGED <<open, runs>> /\ (OnTaskAccepted(n) => h.type = "accepted")
  BY DEF OnTaskAccepted, UpdateHeartbeat, Hears, Consume
<1>2. UNCHANGED <<jobStatus, holder, attempts, registered, inbox>>
  BY DEF OnTaskAccepted, UpdateHeartbeat, Commit, Coordinator
<1>3. status \in [Tasks -> TaskStatuses]
  BY CoordinatorFields DEF IInv, CoordinatorSound, Sound, States
<1>4. \A r \in Tasks : status'[r] = status[r] \/ {status[r], status'[r]} \subseteq InHand
  <2>1. CASE UpdateHeartbeat(n)
    <3>1. CASE n \notin registered
      BY <2>1, <3>1 DEF UpdateHeartbeat, Commit, Coordinator
    <3>2. CASE n \in registered
      <4>1. status' = status
        BY <2>1, <3>2 DEF UpdateHeartbeat, Commit, Coordinator
      <4> QED BY <4>1
    <3> QED BY <3>1, <3>2
  <2>2. CASE OnTaskAccepted(n)
    <3>1. status' = [status EXCEPT ![t] = "running"]
      BY <2>2 DEF OnTaskAccepted, Commit, Coordinator
    <3>2. t \in Tasks
      BY <1>1, <2>2, HeadOfOutbox, ReportOf DEF IInv
    <3>3. status[t] \in InHand
      <4>1. Tracked(Coordinator, t)
        BY <3>2, TaskNames, WorldFields, CoordinatorFields DEF Tracked, Watchable
      <4> QED BY <1>1, <2>2, <4>1, PopTidy, CoordinatorFields
    <3> HIDE DEF t
    <3> QED BY <1>3, <3>1, <3>2, <3>3 DEF InHand
  <2> QED BY <2>1, <2>2
<1>5. /\ Watchable' /\ UNCHANGED Handoff!ledger
      /\ OnTheWay(inbox, {"assign"})' = OnTheWay(inbox, {"assign"})
  BY <1>1, <1>2, <1>4, BooksStay
<1>6. ASSUME NEW types, h.type \notin types PROVE OnTheWay(outbox, types)' = OnTheWay(outbox, types)
  <2>1. TakenOff(outbox, outbox', n, h, types)
    BY <1>1, PostTaken DEF Consume, IInv, LinksSound
  <2>2. OnTheWay(outbox, types)' = OnTheWay(outbox', types)
    BY DEF OnTheWay
  <2> QED BY <1>6, <2>1, <2>2, SaysOf DEF TakenOff
<1>7. /\ OnTheWay(outbox, {"completed"})' = OnTheWay(outbox, {"completed"})
      /\ OnTheWay(outbox, {"rejected", "failed"})' = OnTheWay(outbox, {"rejected", "failed"})
  BY <1>1, <1>6
<1>8. UNCHANGED Handoff!vars
  BY <1>1, <1>2, <1>5, <1>7 DEF Handoff!vars, Handoff!ledger
<1> QED BY <1>5, <1>8 DEF Hands

\* What a worker says arrives in its socket.
LEMMA Reported ==
  ASSUME IInv, NEW n \in open, NEW m, Replies(n, <<m>>), NEW types
  PROVE  /\ m.type \notin types => OnTheWay(outbox, types)' = OnTheWay(outbox, types)
         /\ \A t \in Tasks : m = About(m.type, t) /\ m.type \in types =>
              OnTheWay(outbox, types)' = [OnTheWay(outbox, types) EXCEPT ![n] = @ \cup {t}]
<1>1. /\ n \in Nodes /\ outbox \in [Nodes -> Seq(Reports)] /\ outbox' = [outbox EXCEPT ![n] = @ \o <<m>>]
  BY CoordinatorFields DEF Replies, IInv, LinksSound, CoordinatorSound, Sound, States
<1>2. PutOn(outbox, outbox', n, m, types)
  BY <1>1, PostAdded
<1>3. OnTheWay(outbox, types)' = OnTheWay(outbox', types)
  BY DEF OnTheWay
<1> QED BY <1>2, <1>3, SaysOf DEF PutOn

LEMMA ReportedOf ==
  ASSUME IInv, NEW n \in open, NEW t \in Tasks, NEW type, Replies(n, <<About(type, t)>>), NEW types
  PROVE  OnTheWay(outbox, types)' =
           IF type \in types THEN [OnTheWay(outbox, types) EXCEPT ![n] = @ \cup {t}] ELSE OnTheWay(outbox, types)
<1> DEFINE m == About(type, t)
<1>1. m.type = type /\ m = About(type, t)
  BY DEF About
<1>2. Replies(n, <<m>>)
  OBVIOUS
<1> HIDE DEF m
<1> QED BY <1>1, <1>2, Reported

\* A worker reads its socket: it takes the task, refuses it or is told something else.
LEMMA TakeHands ==
  ASSUME IInv, IInv', LedgerTidy', Watchable, NEW n \in Nodes, Accept(n) \/ Refuse(n)
  PROVE  Hands
<1> DEFINE t == Head(inbox[n]).task
           h == Head(inbox[n])
           type == IF Accept(n) THEN "accepted" ELSE "rejected"
           assigned == OnTheWay(inbox, {"assign"})
           done == OnTheWay(outbox, {"completed"})
           returned == OnTheWay(outbox, {"rejected", "failed"})
<1>1. /\ inbox[n] # <<>> /\ h.type = "assign" /\ Replies(n, <<About(type, t)>>)
      /\ TakeInbox(n) /\ OnlyInbox
      /\ runs' = IF Accept(n) THEN [runs EXCEPT ![n] = @ \cup {t}] ELSE runs
  BY DEF Accept, Refuse
<1>2. n \in open /\ h = About("assign", t) /\ t \in Tasks
  BY <1>1, TakeTook, HeadOfInbox
<1>3. UNCHANGED <<jobStatus, status, holder, attempts, registered, open>>
  BY <1>1 DEF OnlyInbox
<1>4. inbox \in [Nodes -> Seq(Messages)] /\ inbox' = [inbox EXCEPT ![n] = Tail(@)]
  BY <1>1, CoordinatorFields DEF TakeInbox, IInv, CoordinatorSound, Sound, States
<1>5. /\ done' = done
      /\ returned' = IF type = "rejected" THEN [returned EXCEPT ![n] = @ \cup {t}] ELSE returned
  <2> HIDE DEF t
  <2>1. type \in {"accepted", "rejected"}
    OBVIOUS
  <2> HIDE DEF type
  <2>2. ASSUME NEW types
        PROVE  OnTheWay(outbox, types)' =
                 IF type \in types THEN [OnTheWay(outbox, types) EXCEPT ![n] = @ \cup {t}] ELSE OnTheWay(outbox, types)
    BY <1>1, <1>2, ReportedOf
  <2>3. type \notin {"completed"} /\ (type \in {"rejected", "failed"} <=> type = "rejected")
    BY <2>1
  <2> QED BY <2>2, <2>3
<1>6. ~Carries(inbox', {"assign"}, t, n)
  <2> SUFFICES ASSUME Carries(inbox', {"assign"}, t, n) PROVE FALSE
    OBVIOUS
  <2> DEFINE x == Coordinator'
             v == World'
  <2>1. x.inbox = inbox' /\ x.jobStatus = jobStatus' /\ v.runs = runs' /\ v.outbox = outbox'
    BY DEF Coordinator, World
  <2>2. Tracked(x, t)
    BY <1>2, <1>3, <2>1, TaskNames, WorldFields DEF Tracked, Watchable
  <2>3. Sent(x, t, n)
    BY <2>1 DEF Carries, Says, Sent, SentAt, About
  <2>4. FlightOf(x, {}, v, t)
    BY <1>2, <2>2 DEF LedgerTidy, Tidy
  <2>5. ~Heard(v, t, n) /\ t \notin runs'[n]
    BY <2>1, <2>3, <2>4 DEF FlightOf, Airborne, Orderly
  <2>6. CASE Accept(n)
    BY <1>1, <2>5, <2>6, RunsTyped
  <2>7. CASE ~Accept(n)
    <3>1. outbox \in [Nodes -> Seq(Reports)] /\ outbox' = [outbox EXCEPT ![n] = @ \o <<About("rejected", t)>>]
      BY <1>1, <1>2, <2>7 DEF Replies, IInv, LinksSound
    <3> DEFINE q == outbox[n]
               r == About("rejected", t)
    <3>2. q \in Seq(Reports) /\ outbox'[n] = q \o <<r>>
      BY <3>1
    <3>3. r.type # "heartbeat" /\ r.task = t
      BY DEF About
    <3> HIDE DEF q, r
    <3>4. Len(q) + 1 \in DOMAIN (q \o <<r>>) /\ (q \o <<r>>)[Len(q) + 1] = r
      BY <3>2
    <3> QED BY <2>1, <2>5, <3>2, <3>3, <3>4 DEF Heard, HeardAt
  <2> QED BY <2>6, <2>7
<1>7. t \in assigned[n] /\ assigned' = [assigned EXCEPT ![n] = @ \ {t}]
  <2>1. TakenOff(inbox, inbox', n, h, {"assign"})
    BY <1>1, <1>4, PostTaken
  <2>2. assigned' = OnTheWay(inbox', {"assign"})
    BY DEF OnTheWay
  <2>3. h.type \in {"assign"} /\ h = About(h.type, t)
    BY <1>1, <1>2
  <2>4. \A r : Says(h, {"assign"}, r) <=> r = t
    BY <2>3, SaysOf
  <2> QED BY <1>2, <1>6, <2>1, <2>2, <2>4 DEF TakenOff
<1>8. Watchable' /\ UNCHANGED Handoff!ledger
  <2>1. /\ Phase(Coordinator') = Phase(Coordinator) /\ Held(Coordinator') = Held(Coordinator)
        /\ MayRetry(Coordinator') = MayRetry(Coordinator)
    BY <1>3 DEF Phase, Held, PhaseIn, HolderIn, MayRetry, Idle, Coordinator
  <2> QED BY <1>3, <2>1, Mapping, MappingNext, WorldFields DEF Watchable, Handoff!ledger
<1> HIDE DEF t, assigned, done, returned
<1>9. PICK r \in Tasks : r = t
  BY <1>2
<1>10. CASE Accept(n)
  <2>1. Handoff!Accept(n, r)
    BY <1>1, <1>3, <1>5, <1>7, <1>8, <1>9, <1>10 DEF Handoff!Accept, assigned, done, returned
  <2> QED BY <1>8, <2>1 DEF Hands, Handoff!Next, Handoff!Work
<1>11. CASE ~Accept(n)
  <2>1. Handoff!Reject(n, r)
    BY <1>1, <1>3, <1>5, <1>7, <1>8, <1>9, <1>11 DEF Handoff!Reject, assigned, done, returned
  <2> QED BY <1>8, <2>1 DEF Hands, Handoff!Next, Handoff!Work
<1> QED BY <1>10, <1>11

\* A worker is done with a task, well or badly.
LEMMA VerdictHands ==
  ASSUME IInv, WorkersTidy, Watchable, NEW n \in Nodes, NEW t \in Tasks, Complete(n, t) \/ FailTask(n, t)
  PROVE  Hands
<1> DEFINE type == IF Complete(n, t) THEN "completed" ELSE "failed"
           done == OnTheWay(outbox, {"completed"})
           returned == OnTheWay(outbox, {"rejected", "failed"})
<1>1. /\ t \in runs[n] /\ runs' = [runs EXCEPT ![n] = @ \ {t}] /\ Replies(n, <<About(type, t)>>)
      /\ OnlyWorker
  BY DEF Complete, FailTask
<1>2. n \in open
  BY <1>1 DEF WorkersTidy
<1>3. UNCHANGED <<jobStatus, status, holder, attempts, registered, inbox, open>>
  BY <1>1 DEF OnlyWorker, coordinatorVars
<1>4. /\ Watchable' /\ UNCHANGED Handoff!ledger
      /\ OnTheWay(inbox, {"assign"})' = OnTheWay(inbox, {"assign"})
  BY <1>3, BooksStay
<1>5. /\ done' = IF type = "completed" THEN [done EXCEPT ![n] = @ \cup {t}] ELSE done
      /\ returned' = IF type = "failed" THEN [returned EXCEPT ![n] = @ \cup {t}] ELSE returned
  <2>1. type \in {"completed", "failed"}
    OBVIOUS
  <2> HIDE DEF type
  <2>2. ASSUME NEW types
        PROVE  OnTheWay(outbox, types)' =
                 IF type \in types THEN [OnTheWay(outbox, types) EXCEPT ![n] = @ \cup {t}] ELSE OnTheWay(outbox, types)
    BY <1>1, <1>2, ReportedOf
  <2>3. (type \in {"completed"} <=> type = "completed") /\ (type \in {"rejected", "failed"} <=> type = "failed")
    BY <2>1
  <2> QED BY <2>2, <2>3
<1> HIDE DEF done, returned
<1>6. CASE Complete(n, t)
  <2>1. Handoff!Complete(n, t)
    BY <1>1, <1>3, <1>4, <1>5, <1>6 DEF Handoff!Complete, done, returned
  <2> QED BY <1>4, <2>1 DEF Hands, Handoff!Next, Handoff!Work
<1>7. CASE ~Complete(n, t)
  <2>1. Handoff!FailTask(n, t)
    BY <1>1, <1>3, <1>4, <1>5, <1>7 DEF Handoff!FailTask, done, returned
  <2> QED BY <1>4, <2>1 DEF Hands, Handoff!Next, Handoff!Work
<1> QED BY <1>6, <1>7

\* A heartbeat is sent, which TaskHandoff does not see.
LEMMA BeatHands ==
  ASSUME IInv, Watchable, NEW n \in Nodes, Heartbeat(n) \/ Resume(n)
  PROVE  Hands
<1>1. UNCHANGED <<jobStatus, status, holder, attempts, registered, inbox, open, runs>>
  BY DEF Heartbeat, Resume, OnlyWorker, coordinatorVars
<1>2. /\ Watchable' /\ UNCHANGED Handoff!ledger
      /\ OnTheWay(inbox, {"assign"})' = OnTheWay(inbox, {"assign"})
  BY <1>1, BooksStay
<1>3. ASSUME NEW types, "heartbeat" \notin types PROVE OnTheWay(outbox, types)' = OnTheWay(outbox, types)
  <2>1. CASE Heartbeat(n)
    <3>0. PICK fit : Replies(n, <<[type |-> "heartbeat", active |-> Cardinality(runs[n]), able |-> fit]>>)
      BY <2>1 DEF Heartbeat
    <3> DEFINE m == [type |-> "heartbeat", active |-> Cardinality(runs[n]), able |-> fit]
    <3>1. Replies(n, <<m>>) /\ n \in open /\ m.type = "heartbeat"
      BY <2>1, <3>0 DEF Heartbeat
    <3> HIDE DEF m
    <3> QED BY <1>3, <3>1, Reported
  <2>2. CASE Resume(n)
    BY <2>2 DEF Resume, OnTheWay
  <2> QED BY <2>1, <2>2
<1>4. /\ OnTheWay(outbox, {"completed"})' = OnTheWay(outbox, {"completed"})
      /\ OnTheWay(outbox, {"rejected", "failed"})' = OnTheWay(outbox, {"rejected", "failed"})
  BY <1>3
<1>5. UNCHANGED Handoff!vars
  BY <1>1, <1>2, <1>4 DEF Handoff!vars, Handoff!ledger
<1> QED BY <1>2, <1>5 DEF Hands

\* A worker registers, its sockets being those it will have to the end.
LEMMA RegisterHands ==
  ASSUME Watchable, NEW n \in Nodes, Register(n)
  PROVE  Hands
<1>1. /\ UNCHANGED <<jobStatus, status, holder, attempts, inbox, runs, outbox>>
      /\ registered' = registered \cup {n} /\ open' = open \cup {n}
  <2> DEFINE y == [Coordinator EXCEPT !.registered = @ \cup {n}, !.able = IF n \in paused THEN @ ELSE @ \cup {n}]
  <2>1. Commit(y) /\ open' = open \cup {n} /\ UNCHANGED <<runs, outbox>>
    BY DEF Register
  <2>2. /\ y.jobStatus = jobStatus /\ y.status = status /\ y.holder = holder /\ y.attempts = attempts
        /\ y.inbox = inbox /\ y.registered = registered \cup {n}
    BY DEF Coordinator
  <2> HIDE DEF y
  <2> QED BY <2>1, <2>2 DEF Commit
<1>2. /\ Phase(Coordinator') = Phase(Coordinator) /\ Held(Coordinator') = Held(Coordinator)
      /\ MayRetry(Coordinator') = MayRetry(Coordinator)
  BY <1>1 DEF Phase, Held, PhaseIn, HolderIn, MayRetry, Idle, Coordinator
<1>3. Watchable' /\ UNCHANGED Handoff!ledger
  BY <1>1, <1>2, Mapping, MappingNext, WorldFields DEF Watchable, Handoff!ledger
<1>4. /\ OnTheWay(inbox, {"assign"})' = OnTheWay(inbox, {"assign"})
      /\ OnTheWay(outbox, {"completed"})' = OnTheWay(outbox, {"completed"})
      /\ OnTheWay(outbox, {"rejected", "failed"})' = OnTheWay(outbox, {"rejected", "failed"})
  BY <1>1 DEF OnTheWay
<1>5. Handoff!Register(n)
  BY <1>1, <1>3, <1>4 DEF Handoff!Register
<1> QED BY <1>3, <1>5 DEF Hands, Handoff!Next

\* The kinds of trouble that TaskHandoff knows, and a heartbeat, which it does not see.
Foreseen == {"crash", "fail", "reject", "heartbeat"}

LEMMA ForeseenSteps ==
  ASSUME Disturbances \subseteq Foreseen, IInv
  PROVE  /\ ~SweepTimeouts /\ \A j \in Jobs : ~Cancel(j)
         /\ \A n \in Nodes : ~SweepStale(n) /\ ~BeginClose(n) /\ ~Pause(n)
                             /\ ~Reregister(n) /\ ~ReplacedCloseEvent(n)
<1>1. \A kind : Disturb(kind) \/ Strike(kind) => kind \in Foreseen
  BY DEF Disturb, Strike
<1>2. /\ ~Disturb("timeout") /\ ~Disturb("cancel") /\ ~Disturb("lost") /\ ~Disturb("closing")
      /\ ~Disturb("pause") /\ ~Strike("replaced")
  BY <1>1 DEF Foreseen
<1>3. replaced = {}
  BY DEF IInv, TroublesSound, Foreseen
<1>4. ~SweepTimeouts
  BY <1>2 DEF SweepTimeouts
<1>5. \A j \in Jobs : ~Cancel(j)
  BY <1>2 DEF Cancel
<1>6. \A n \in Nodes : ~SweepStale(n) /\ ~BeginClose(n) /\ ~Pause(n) /\ ~Reregister(n)
  BY <1>2 DEF SweepStale, BeginClose, Pause, Reregister
<1>7. \A n \in Nodes : ~ReplacedCloseEvent(n)
  BY <1>3 DEF ReplacedCloseEvent
<1> QED BY <1>4, <1>5, <1>6, <1>7

\* Without a second session, an open socket belongs to a node of the registry.
LEMMA SocketsKnown ==
  ASSUME Disturbances \subseteq Foreseen, IInv, open \subseteq registered, [Next]_vars
  PROVE  open' \subseteq registered'
<1>1. ASSUME Kept(Coordinator, Coordinator'), open' = open PROVE open' \subseteq registered'
  BY <1>1 DEF Kept, SameNodes, Coordinator
<1>2. CASE RunMicrotask
  BY <1>1, <1>2, MicrotaskStep DEF RunMicrotask, workerVars
<1>3. ASSUME NEW j \in Jobs, Submit(j) PROVE open' \subseteq registered'
  BY <1>1, <1>3, SubmitStep DEF Submit, workerVars
<1>4. ASSUME NEW n \in Nodes, Receives(n) PROVE open' \subseteq registered'
  <2>1. open' = open
    BY <1>4 DEF Receives, OnTaskAccepted, OnTaskRefusedOrFailed, OnTaskCompleted, UpdateHeartbeat, Consume
  <2> QED BY <1>1, <1>4, <2>1, AcceptedStep, RefusedOrFailedStep, CompletedStep, HeartbeatStep DEF Receives
<1>5. ASSUME NEW n \in Nodes, \/ Works(n) \/ (\E t \in Tasks : FailTask(n, t)) \/ Heartbeat(n) \/ Resume(n)
      PROVE  open' \subseteq registered'
  BY <1>5 DEF Works, Accept, Refuse, Abort, Complete, Unwind, FailTask, Heartbeat, Resume,
              OnlyInbox, OnlyWorker, coordinatorVars
<1>6. ASSUME NEW n \in Nodes, Crash(n) \/ CloseEvent(n) PROVE open' \subseteq registered'
  <2> DEFINE x == NodeLost(Coordinator, n)
  <2>1. Commit(x) /\ open' \subseteq open \ {n}
    BY <1>6 DEF Crash, CloseEvent, workerVars
  <2>2. x.registered = registered \ {n}
    BY LossFacts
  <2> HIDE DEF x
  <2> QED BY <2>1, <2>2 DEF Commit
<1>7. ASSUME NEW n \in Nodes, Register(n) PROVE open' \subseteq registered'
  <2> DEFINE y == [Coordinator EXCEPT !.registered = @ \cup {n}, !.able = IF n \in paused THEN @ ELSE @ \cup {n}]
  <2>1. Commit(y) /\ open' = open \cup {n}
    BY <1>7 DEF Register
  <2>2. y.registered = registered \cup {n}
    BY DEF Coordinator
  <2> HIDE DEF y
  <2> QED BY <2>1, <2>2 DEF Commit
<1>8. CASE UNCHANGED vars
  BY <1>8 DEF vars, coordinatorVars, workerVars
<1>9. ASSUME NEW n \in Nodes,
             \/ Receives(n) \/ Works(n) \/ \E t \in Tasks : FailTask(n, t)
             \/ Crash(n) \/ SweepStale(n) \/ BeginClose(n) \/ CloseEvent(n) \/ Register(n)
             \/ Reregister(n) \/ ReplacedCloseEvent(n)
             \/ Pause(n) \/ Resume(n) \/ Heartbeat(n)
      PROVE  open' \subseteq registered'
  BY <1>4, <1>5, <1>6, <1>7, <1>9, ForeseenSteps
<1> QED BY <1>2, <1>3, <1>8, <1>9, ForeseenSteps DEF Next

\* Every step of the job manager is a step of TaskHandoff or none.
LEMMA StepHands ==
  ASSUME Disturbances \subseteq Foreseen, IInv, BInv, Watchable, open \subseteq registered, [Next]_vars
  PROVE  Hands
<1>1. IInv' /\ JobsStay /\ BInv'
  BY StepSound, StepTidy DEF JobsStay
<1>2. Calm /\ Calm'
  BY <1>1 DEF IInv, TroublesSound, Foreseen, Calm, Only, Announced
<1>3. LedgerTidy /\ WorkersTidy /\ LedgerTidy'
  BY <1>1, <1>2 DEF BInv
<1>5. /\ ~SweepTimeouts /\ \A j \in Jobs : ~Cancel(j)
      /\ \A n \in Nodes : ~SweepStale(n) /\ ~BeginClose(n) /\ ~Pause(n)
                          /\ ~Reregister(n) /\ ~ReplacedCloseEvent(n)
  BY ForeseenSteps
<1>6. \A n \in Nodes : ~CloseEvent(n)
  BY DEF CloseEvent, Watchable
<1>7. ASSUME NEW t \in Tasks PROVE Tracked(Coordinator, t)
  BY TaskNames, WorldFields, CoordinatorFields DEF Tracked, Watchable
<1>8. ASSUME NEW n \in Nodes PROVE ~Abort(n) /\ \A t \in Tasks : ~Unwind(n, t)
  <2>1. aborting[n] \cap Tasks = {}
    BY <1>3, <1>7 DEF WorkersTidy
  <2>2. \A i \in DOMAIN inbox[n] : inbox[n][i].type = "cancel" => ~Tracked(Coordinator, inbox[n][i].task)
    BY <1>3, CoordinatorFields DEF LedgerTidy, Tidy, CancelsStale
  <2>3. ASSUME Abort(n) PROVE FALSE
    <3> DEFINE q == inbox[n]
    <3>1. q \in Seq(Messages) /\ q # <<>> /\ Head(q).type = "cancel" /\ Head(q).task \in Tasks
      BY <2>3, HeadOfInbox, CoordinatorFields DEF Abort, IInv, CoordinatorSound, Sound, States
    <3> HIDE DEF q
    <3>2. 1 \in DOMAIN q /\ Head(q) = q[1]
      BY <3>1
    <3> QED BY <1>7, <2>2, <3>1, <3>2 DEF q
  <2> QED BY <2>1, <2>3 DEF Unwind
<1>9. CASE RunMicrotask
  BY <1>1, <1>3, <1>9, MicrotaskTidy, DispatchHands DEF RunMicrotask, workerVars
<1>10. ASSUME NEW j \in Jobs, Submit(j) PROVE Hands
  BY <1>1, <1>3, <1>10, SubmitTidy, DispatchHands DEF Submit, workerVars
<1>11. ASSUME NEW n \in Nodes, Receives(n) PROVE Hands
  BY <1>1, <1>3, <1>11, NoiseHands, RefusedHands, CompletedHands DEF Receives
<1>12. ASSUME NEW n \in Nodes, Works(n) \/ \E t \in Tasks : FailTask(n, t) PROVE Hands
  BY <1>1, <1>3, <1>8, <1>12, TakeHands, VerdictHands DEF Works
<1>13. ASSUME NEW n \in Nodes, Crash(n) \/ Register(n) \/ Heartbeat(n) \/ Resume(n) PROVE Hands
  BY <1>1, <1>3, <1>13, CrashHands, RegisterHands, BeatHands DEF Crash
<1>14. CASE UNCHANGED vars
  <2>1. UNCHANGED <<jobStatus, status, holder, attempts, registered, inbox, open, runs, outbox>>
    BY <1>14 DEF vars, coordinatorVars, workerVars
  <2>2. /\ Watchable' /\ UNCHANGED Handoff!ledger
        /\ OnTheWay(inbox, {"assign"})' = OnTheWay(inbox, {"assign"})
    BY <2>1, BooksStay
  <2>3. /\ OnTheWay(outbox, {"completed"})' = OnTheWay(outbox, {"completed"})
        /\ OnTheWay(outbox, {"rejected", "failed"})' = OnTheWay(outbox, {"rejected", "failed"})
    BY <2>1 DEF OnTheWay
  <2> QED BY <2>1, <2>2, <2>3 DEF Hands, Handoff!vars, Handoff!ledger
<1> QED BY <1>5, <1>6, <1>9, <1>10, <1>11, <1>12, <1>13, <1>14 DEF Next

LEMMA InitHands ==
  ASSUME Init
  PROVE  Handoff!Init /\ Watchable /\ open \subseteq registered
<1> USE DEF Init
<1>1. DOMAIN <<>> = {}
  OBVIOUS
<1>2. World.cancelled = {} /\ registered = open
  BY WorldFields
<1>3. MayRetry(Coordinator)
  BY CoordinatorFields, Numbers DEF MayRetry
<1>4. [t \in Tasks |-> PhaseOf(t)] = [t \in Tasks |-> "waiting"]
  BY DEF PhaseOf
<1>5. [t \in Tasks |-> IF PhaseOf(t) = "held" THEN holder[t] ELSE None] = [t \in Tasks |-> None]
  OBVIOUS
<1>6. /\ OnTheWay(inbox, {"assign"}) = [n \in Nodes |-> {}]
      /\ OnTheWay(outbox, {"completed"}) = [n \in Nodes |-> {}]
      /\ OnTheWay(outbox, {"rejected", "failed"}) = [n \in Nodes |-> {}]
  BY <1>1 DEF OnTheWay
<1> QED BY <1>2, <1>3, <1>4, <1>5, <1>6 DEF Handoff!Init, Watchable

\* The job manager keeps what TaskHandoff promises: whatever queues, pumps, steals,
\* plans and retries do within a handler, it amounts to handing out tasks that
\* nobody has to registered nodes, and a verdict is read of the node that the
\* ledger names.  This is so as long as workers crash, refuse, fail and report
\* late; it is not when sockets close slowly, jobs are cancelled or nodes are
\* given up while they work.
THEOREM HandsOutAsPromised ==
  ASSUME Disturbances \subseteq Foreseen
  PROVE  Spec => ImplementsTaskHandoff
<1> DEFINE HInv == Watchable /\ open \subseteq registered
<1>1. Init => Handoff!Init /\ HInv
  BY InitHands
<1>2. IInv /\ BInv /\ HInv /\ [Next]_vars => [Handoff!Next]_(Handoff!vars) /\ HInv'
  BY StepHands, SocketsKnown DEF Hands
<1>3. Spec => [](IInv /\ BInv)
  BY AlwaysTidy
<1> HIDE DEF HInv
<1> QED BY <1>1, <1>2, <1>3, PTL DEF Spec, ImplementsTaskHandoff, Handoff!Spec

-----------------------------------------------------------------------------
(***************************************************************************)
(* No node idles beside work that it could do.  The two loops of pump are  *)
(* followed turn by turn: the first leaves no free node a queued task of   *)
(* its own (Fed), the second ends when no node is free or no queue has a   *)
(* task to spare (Stuck), for every turn fills a slot and there are fewer  *)
(* slots than turns.  A task that goes back to a queue while they run has  *)
(* its job pumped again (Excused).                                         *)
(***************************************************************************)

\* A pump of job j is on its way.
Pending(x, j) == \E i \in DOMAIN x.pumps : x.pumps[i] = j
GaveUp(x) == \E t \in Tasks : x.status[t] = "failed"
\* What excuses job j for work that its last pump left lying.
Excused(x, j) == Pending(x, j) \/ GaveUp(x)

\* The queue of a free node is empty.
Fed(x, j, i) == Free(x, x.queues[j][i].node) => x.queues[j][i].tasks = <<>>
Conserved(x, j) == \A i \in DOMAIN x.queues[j] : Free(x, x.queues[j][i].node) =>
  /\ x.queues[j][i].tasks = <<>>
  /\ \A k \in DOMAIN x.queues[j] : Len(x.queues[j][k].tasks) <= 1
FreeSlots(x) == {p \in Nodes \X (1..MaxConcurrent) : x.active[p[1]] < p[2]}

\* Hand-outs of job j, and nothing else that a pump looks at, lead from s to x.
Advanced(s, x, j) ==
  /\ x.jobStatus[j] = s.jobStatus[j] /\ x.registered = s.registered
  /\ DOMAIN x.queues[j] = DOMAIN s.queues[j]
  /\ \A i \in DOMAIN s.queues[j] :
       /\ x.queues[j][i].node = s.queues[j][i].node
       /\ Len(x.queues[j][i].tasks) <= Len(s.queues[j][i].tasks)
  /\ \A n \in Nodes : s.active[n] <= x.active[n]

\* A queued task of job j goes to node n.
HandsTo(s, j, n, x) ==
  \E t \in Tasks : \E q : /\ Taken(s.queues[j], q, t)
                          /\ x = Dispatch([s EXCEPT !.queues[j] = q], t, n)

LEMMA QueueTyped ==
  ASSUME NEW s \in States, NEW j \in Jobs
  PROVE  /\ s.queues[j] \in Seq(Entries) /\ Len(s.queues[j]) \in Nat
         /\ DOMAIN s.queues[j] = 1..Len(s.queues[j])
         /\ \A i \in DOMAIN s.queues[j] :
              /\ s.queues[j][i].node \in Nodes /\ s.queues[j][i].tasks \in Seq(Tasks)
              /\ Len(s.queues[j][i].tasks) \in Nat
         /\ \A n \in Nodes : s.active[n] \in Nat
<1>1. s.queues[j] \in Seq(Entries) /\ \A n \in Nodes : s.active[n] \in Nat
  BY DEF States
<1>2. \A i \in DOMAIN s.queues[j] :
        /\ s.queues[j][i].node \in Nodes /\ s.queues[j][i].tasks \in Seq(Tasks)
        /\ Len(s.queues[j][i].tasks) \in Nat
  BY <1>1, EntryOf
<1> DEFINE q == s.queues[j]
<1>3. q \in Seq(Entries)
  BY <1>1
<1> HIDE DEF q
<1>4. Len(q) \in Nat /\ DOMAIN q = 1..Len(q)
  BY <1>3
<1> QED BY <1>1, <1>2, <1>4 DEF q

LEMMA AdvancedSelf ==
  ASSUME NEW s \in States, NEW j \in Jobs
  PROVE  Advanced(s, s, j)
BY QueueTyped DEF Advanced

LEMMA AdvancedOn ==
  ASSUME NEW s \in States, NEW x \in States, NEW y \in States, NEW j \in Jobs,
         Advanced(s, x, j), Advanced(x, y, j)
  PROVE  Advanced(s, y, j)
<1>1. \A i \in DOMAIN s.queues[j] : Len(y.queues[j][i].tasks) <= Len(s.queues[j][i].tasks)
  <2> SUFFICES ASSUME NEW i \in DOMAIN s.queues[j]
               PROVE  Len(y.queues[j][i].tasks) <= Len(s.queues[j][i].tasks)
    OBVIOUS
  <2> DEFINE a == Len(s.queues[j][i].tasks)
             b == Len(x.queues[j][i].tasks)
             c == Len(y.queues[j][i].tasks)
  <2>1. a \in Nat /\ b \in Nat /\ c \in Nat
    BY QueueTyped DEF Advanced
  <2>2. b <= a /\ c <= b
    BY DEF Advanced
  <2> HIDE DEF a, b, c
  <2>3. c <= a
    BY <2>1, <2>2
  <2> QED BY <2>3 DEF a, c
<1>2. \A n \in Nodes : s.active[n] <= y.active[n]
  <2> SUFFICES ASSUME NEW n \in Nodes PROVE s.active[n] <= y.active[n]
    OBVIOUS
  <2>1. s.active[n] \in Nat /\ x.active[n] \in Nat /\ y.active[n] \in Nat
    BY QueueTyped
  <2> QED BY <2>1 DEF Advanced
<1> QED BY <1>1, <1>2 DEF Advanced

LEMMA EmptyStays ==
  ASSUME NEW s \in States, NEW x \in States, NEW j \in Jobs, Advanced(s, x, j),
         NEW i \in DOMAIN s.queues[j], s.queues[j][i].tasks = <<>>
  PROVE  x.queues[j][i].tasks = <<>>
<1> DEFINE ts == x.queues[j][i].tasks
<1>1. ts \in Seq(Tasks) /\ Len(ts) <= Len(<<>>)
  BY QueueTyped DEF Advanced
<1> HIDE DEF ts
<1>2. ts = <<>>
  BY <1>1
<1> QED BY <1>2 DEF ts

\* A node that is free after hand-outs was free before, and a queue that was empty
\* is empty still.
LEMMA FedStays ==
  ASSUME NEW s \in States, NEW x \in States, NEW j \in Jobs, Advanced(s, x, j),
         NEW i \in DOMAIN s.queues[j], Fed(s, j, i)
  PROVE  Fed(x, j, i)
<1> SUFFICES ASSUME Free(x, x.queues[j][i].node) PROVE x.queues[j][i].tasks = <<>>
  BY DEF Fed
<1> DEFINE n == s.queues[j][i].node
<1>1. n \in Nodes /\ x.queues[j][i].node = n /\ s.active[n] <= x.active[n]
      /\ s.active[n] \in Nat /\ x.active[n] \in Nat
  BY QueueTyped DEF Advanced
<1>2. Free(s, s.queues[j][i].node)
  <2>1. x.active[n] < MaxConcurrent
    BY <1>1 DEF Free
  <2> HIDE DEF n
  <2>2. s.active[n] < MaxConcurrent
    BY <1>1, <2>1, Numbers
  <2> QED BY <2>2 DEF Free, n
<1> QED BY <1>2, EmptyStays DEF Fed

LEMMA SlotsFinite ==
  ASSUME NEW s \in States
  PROVE  /\ IsFiniteSet(FreeSlots(s)) /\ Cardinality(FreeSlots(s)) \in Nat
         /\ Cardinality(FreeSlots(s)) <= NumNodes * MaxConcurrent
<1> DEFINE S == Nodes \X (1..MaxConcurrent)
<1>1. IsFiniteSet(Nodes) /\ Cardinality(Nodes) = NumNodes
  BY Numbers, FS_Interval
<1>2. IsFiniteSet(1..MaxConcurrent) /\ Cardinality(1..MaxConcurrent) = MaxConcurrent
  <2>1. MaxConcurrent \in Int /\ MaxConcurrent >= 1 /\ MaxConcurrent - 1 + 1 = MaxConcurrent
    BY Numbers
  <2> QED BY <2>1, FS_Interval
<1>3. IsFiniteSet(S) /\ Cardinality(S) = NumNodes * MaxConcurrent
  BY <1>1, <1>2, FS_Product
<1>4. FreeSlots(s) \in SUBSET S
  BY DEF FreeSlots
<1> HIDE DEF S
<1> QED BY <1>3, <1>4, FS_Subset, FS_CardinalityType

\* A slot that is taken is one free slot less.
LEMMA SlotTaken ==
  ASSUME NEW s \in States, NEW x \in States, NEW n \in Nodes, Free(s, n),
         \A m \in Nodes : s.active[m] <= x.active[m], x.active[n] = s.active[n] + 1
  PROVE  Cardinality(FreeSlots(x)) + 1 <= Cardinality(FreeSlots(s))
<1> DEFINE p == <<n, s.active[n] + 1>>
<1>1. \A m \in Nodes : s.active[m] \in Nat /\ x.active[m] \in Nat
  BY DEF States
<1>2. p \in FreeSlots(s) /\ p \notin FreeSlots(x)
  BY <1>1, Numbers DEF FreeSlots, Free
<1>3. \A m \in Nodes, k \in 1..MaxConcurrent : x.active[m] < k => s.active[m] < k
  BY <1>1, Numbers
<1>4. FreeSlots(x) \subseteq FreeSlots(s)
  BY <1>3 DEF FreeSlots
<1>5. IsFiniteSet(FreeSlots(s)) /\ IsFiniteSet(FreeSlots(x))
      /\ Cardinality(FreeSlots(s)) \in Nat /\ Cardinality(FreeSlots(x)) \in Nat
  BY SlotsFinite
<1> HIDE DEF p
<1> DEFINE R == FreeSlots(s) \ {p}
<1>6. IsFiniteSet(R) /\ Cardinality(R) = Cardinality(FreeSlots(s)) - 1
  BY <1>2, <1>5, FS_RemoveElement
<1>7. FreeSlots(x) \in SUBSET R
  BY <1>2, <1>4
<1> HIDE DEF R
<1>8. Cardinality(FreeSlots(x)) <= Cardinality(R)
  BY <1>6, <1>7, FS_Subset
<1> QED BY <1>5, <1>6, <1>8

LEMMA FewKeys ==
  ASSUME NEW q \in Seq(Entries), Unique(q)
  PROVE  Len(q) \in Nat /\ Len(q) <= NumNodes
<1> DEFINE f == [i \in 1..Len(q) |-> q[i].node]
<1>1. Len(q) \in Nat /\ DOMAIN q = 1..Len(q)
  OBVIOUS
<1>2. f \in [1..Len(q) -> Nodes]
  BY <1>1, EntryOf
<1>3. \A a, b \in 1..Len(q) : f[a] = f[b] => a = b
  BY <1>1 DEF Unique
<1> HIDE DEF f
<1>4. f \in Injection(1..Len(q), Nodes)
  BY <1>2, <1>3 DEF Injection, IsInjective
<1>5. IsFiniteSet(Nodes) /\ Cardinality(Nodes) = NumNodes
  BY Numbers, FS_Interval
<1>6. Cardinality(1..Len(q)) <= Cardinality(Nodes)
  BY <1>4, <1>5, FS_Injection
<1>7. Cardinality(1..Len(q)) = Len(q)
  BY <1>1, FS_Interval
<1> QED BY <1>1, <1>5, <1>6, <1>7

-----------------------------------------------------------------------------
LEMMA DeferredPends ==
  ASSUME NEW s \in States, NEW j \in Jobs
  PROVE  /\ Pending(Deferred(s, j), j)
         /\ \A i : Pending(s, i) => Pending(Deferred(s, j), i)
<1> DEFINE p == s.pumps
<1>1. p \in Seq(Jobs)
  BY DEF States
<1> HIDE DEF p
<1>2. DOMAIN p = 1..Len(p) /\ Len(p) \in Nat
  BY <1>1
<1>3. CASE Contains(p, j)
  <2>1. Deferred(s, j) = s
    BY <1>3 DEF Deferred, p
  <2>2. \E i \in DOMAIN p : p[i] = j
    BY <1>2, <1>3 DEF Contains
  <2> QED BY <2>1, <2>2 DEF Pending, p
<1>4. CASE ~Contains(p, j)
  <2> DEFINE y == Append(p, j)
  <2>1. Deferred(s, j).pumps = y
    BY <1>4 DEF Deferred, p, States
  <2>2. DOMAIN y = 1..(Len(p) + 1) /\ y[Len(p) + 1] = j /\ \A i \in DOMAIN p : y[i] = p[i]
    BY <1>1, <1>2
  <2>3. Len(p) + 1 \in DOMAIN y /\ DOMAIN p \subseteq DOMAIN y
    BY <1>2, <2>2
  <2> HIDE DEF y
  <2>4. \A i : Pending(s, i) => \E k \in DOMAIN p : p[k] = i
    BY DEF Pending, p
  <2> QED BY <2>1, <2>2, <2>3, <2>4 DEF Pending
<1> QED BY <1>3, <1>4

LEMMA ReassignPends ==
  ASSUME NEW s \in States, NEW t \in Tasks, NEW n \in Nodes
  PROVE  /\ Pending(Reassign(s, t, n), JobOf(t))
         /\ \A i : Pending(s, i) => Pending(Reassign(s, t, n), i)
         /\ \A r \in Tasks \ {t} : Reassign(s, t, n).status[r] = s.status[r]
<1> DEFINE j == JobOf(t)
           st == [s.status EXCEPT ![t] = "reassigned"]
           qs == [s.queues EXCEPT ![j] = Headed(s.queues[j], t, n)]
           y == [s EXCEPT !.status = st, !.queues = qs]
<1>1. j \in Jobs /\ s.queues[j] \in Seq(Entries)
  BY TaskNames DEF States
<1>2. <<t>> \o Lookup(s.queues[j], n) \in Seq(Tasks)
  BY <1>1, LookupEffect
<1>3. st \in [Tasks -> TaskStatuses] /\ qs \in [Jobs -> Seq(Entries)]
  BY <1>1, <1>2, PutType DEF States, TaskStatuses, Headed
<1>4. Reassign(s, t, n) = Deferred(y, j)
  BY <1>1 DEF Reassign, Headed, States
<1> HIDE DEF st, qs
<1>5. y \in States /\ y.pumps = s.pumps
  BY <1>3 DEF States
<1> HIDE DEF y
<1>6. /\ Pending(Deferred(y, j), j)
      /\ \A i : Pending(y, i) => Pending(Deferred(y, j), i)
  BY <1>1, <1>5, DeferredPends
<1>7. \A i : Pending(s, i) => Pending(y, i)
  BY <1>5 DEF Pending
<1>8. \A r \in Tasks \ {t} : Reassign(s, t, n).status[r] = s.status[r]
  <2> DEFINE x == Reassign(s, t, n)
  <2>1. Reassigned(s, x, t, n)
    BY ReassignEffect
  <2> HIDE DEF x
  <2>2. x.status = [s.status EXCEPT ![t] = "reassigned"] /\ s.status \in [Tasks -> TaskStatuses]
    BY <2>1 DEF Reassigned, States
  <2>3. \A r \in Tasks \ {t} : x.status[r] = s.status[r]
    BY <2>2
  <2> QED BY <2>3 DEF x
<1> QED BY <1>4, <1>6, <1>7, <1>8

\* What maybeFinish leaves of a job that goes on.
LEMMA FinishSpares ==
  ASSUME NEW s \in States, NEW j \in Jobs
  PROVE  LET x == MaybeFinish(s, j) IN
         /\ \A t \in Tasks : s.status[t] = "failed" => x.status[t] = "failed"
         /\ \A i : Pending(s, i) => Pending(x, i)
         /\ \/ Pending(x, j)
            \/ x.jobStatus[j] \notin Live
            \/ /\ x.queues = s.queues /\ x.registered = s.registered
               /\ \A n \in Nodes : s.active[n] <= x.active[n]
<1> DEFINE x == MaybeFinish(s, j)
           z == ReduceTask(j)
           y == Reducing(s, j)
           Goal(v) ==
             /\ \A t \in Tasks : s.status[t] = "failed" => v.status[t] = "failed"
             /\ \A i : Pending(s, i) => Pending(v, i)
             /\ \/ Pending(v, j)
                \/ v.jobStatus[j] \notin Live
                \/ /\ v.queues = s.queues /\ v.registered = s.registered
                   /\ \A n \in Nodes : s.active[n] <= v.active[n]
<1>1. \A n \in Nodes : s.active[n] \in Nat
  BY DEF States
<1>2. Goal(s)
  BY <1>1
<1>3. Goal([s EXCEPT !.jobStatus[j] = "failed"])
  <2> DEFINE v == [s EXCEPT !.jobStatus[j] = "failed"]
  <2>1. JobMarked(s, v, j, "failed")
    BY JobStatusEffect DEF JobStatuses
  <2> HIDE DEF v
  <2>2. v.jobStatus[j] \notin Live /\ v.status = s.status /\ v.pumps = s.pumps
    BY <2>1 DEF JobMarked, SameTasks, SameLinks, Live, States
  <2>3. Goal(v)
    BY <2>2 DEF Pending
  <2> QED BY <2>3 DEF v
<1>4. Goal(Done(s, j))
  <2>1. JobDone(s, Done(s, j), j)
    BY DoneEffect
  <2>2. Done(s, j).jobStatus[j] \notin Live /\ Done(s, j).status = s.status /\ Done(s, j).pumps = s.pumps
    BY <2>1 DEF JobDone, SameTasks, SameLinks, Live, States
  <2> QED BY <2>2 DEF Pending
<1>5. ASSUME s.status[z] = "absent", NEW n \in s.registered, NEW v,
             v = Assign(y, z, n) \/ v = Reassign(y, z, n)
      PROVE  Goal(v)
  <2>1. z \in Tasks /\ JobOf(z) = j /\ n \in Nodes
    BY TaskNames DEF States
  <2>2. y \in States /\ IsReducing(s, y, j)
    BY ReducingEffect
  <2> HIDE DEF y, z
  <2>3. /\ \A t \in Tasks \ {z} : y.status[t] = s.status[t]
        /\ y.pumps = s.pumps /\ y.queues = s.queues /\ y.registered = s.registered /\ y.active = s.active
    BY <2>2 DEF IsReducing, SameLinks, SameWork, SameNodes, z, States
  <2>4. CASE v = Assign(y, z, n)
    <3>1. Assigned(y, v, z, n)
      BY <2>1, <2>2, <2>4, AssignEffect
    <3>2. /\ \A t \in Tasks \ {z} : v.status[t] = y.status[t]
          /\ v.pumps = y.pumps /\ v.queues = y.queues /\ v.registered = y.registered
          /\ \A m \in Nodes : v.active[m] = IF m = n /\ n \in y.registered THEN y.active[m] + 1 ELSE y.active[m]
      BY <2>1, <2>2, <3>1 DEF Assigned, SameWork, SameNodes, States
    <3>3. \A m \in Nodes : s.active[m] <= v.active[m]
      BY <1>1, <2>3, <3>2
    <3>4. \A t \in Tasks : s.status[t] = "failed" => v.status[t] = "failed"
      BY <1>5, <2>3, <3>2
    <3> QED BY <2>3, <3>2, <3>3, <3>4 DEF Pending
  <2>5. CASE v = Reassign(y, z, n)
    <3>1. /\ Pending(v, j) /\ \A i : Pending(y, i) => Pending(v, i)
          /\ \A r \in Tasks \ {z} : v.status[r] = y.status[r]
      BY <2>1, <2>2, <2>5, ReassignPends
    <3>2. \A t \in Tasks : s.status[t] = "failed" => v.status[t] = "failed"
      BY <1>5, <2>3, <3>1
    <3>3. \A i : Pending(s, i) => Pending(v, i)
      BY <2>3, <3>1 DEF Pending
    <3> QED BY <3>1, <3>2, <3>3
  <2> QED BY <1>5, <2>4, <2>5
<1>6. \/ x = s
      \/ x = [s EXCEPT !.jobStatus[j] = "failed"]
      \/ x = Done(s, j)
      \/ s.status[z] = "absent" /\ StartsReduce(s, j, x)
  BY FinishCases
<1>7. Goal(x)
  <2> HIDE DEF x, Goal
  <2>1. CASE s.status[z] = "absent" /\ StartsReduce(s, j, x)
    <3>1. PICK n \in s.registered : x = Assign(y, z, n) \/ x = Reassign(y, z, n)
      BY <2>1 DEF StartsReduce
    <3> HIDE DEF y, z
    <3> QED BY <1>5, <2>1, <3>1
  <2> QED BY <1>2, <1>3, <1>4, <1>6, <2>1
<1> QED BY <1>7

\* requeue hands a task to a later pump, or gives it up.
LEMMA RequeueExcuses ==
  ASSUME NEW s \in States, NEW t \in Tasks
  PROVE  Excused(Requeue(s, t), JobOf(t))
<1> DEFINE x == Requeue(s, t)
           f == Freed(s, t)
           g == GivenUp(s, t)
           j == JobOf(t)
<1>1. j \in Jobs
  BY TaskNames
<1>2. /\ f \in States /\ g \in States
      /\ \/ x = MaybeFinish(g, j)
         \/ \E n \in f.registered : x = Reassign(f, t, n)
         \/ PlanPipeline(f) # {} /\ x = Reassign(Replanned(f, j), t, First(PlanPipeline(f)))
  BY RequeueCases
<1>3. g.status[t] = "failed"
  <2>1. Marked(f, g, t, "failed")
    BY <1>2, StatusEffect DEF GivenUp, TaskStatuses
  <2> QED BY <1>2, <2>1 DEF Marked, States
<1> HIDE DEF x, f, g, j
<1>4. ASSUME x = MaybeFinish(g, j) PROVE Excused(x, j)
  <2>1. MaybeFinish(g, j).status[t] = "failed"
    BY <1>1, <1>2, <1>3, FinishSpares
  <2> QED BY <1>4, <2>1 DEF Excused, GaveUp
<1>5. ASSUME NEW n \in f.registered, x = Reassign(f, t, n) PROVE Excused(x, j)
  <2>1. n \in Nodes
    BY <1>2 DEF States
  <2>2. Pending(Reassign(f, t, n), JobOf(t))
    BY <1>2, <2>1, ReassignPends
  <2> QED BY <1>5, <2>2 DEF Excused, j
<1>6. ASSUME PlanPipeline(f) # {}, x = Reassign(Replanned(f, j), t, First(PlanPipeline(f)))
      PROVE  Excused(x, j)
  <2>1. First(PlanPipeline(f)) \in Nodes
    BY <1>2, <1>6, Views, FirstNode
  <2>2. Replanned(f, j) \in States
    BY <1>1, <1>2, ReplannedEffect
  <2>3. Pending(Reassign(Replanned(f, j), t, First(PlanPipeline(f))), JobOf(t))
    BY <2>1, <2>2, ReassignPends
  <2> QED BY <1>6, <2>3 DEF Excused, j
<1>7. Excused(x, j)
  BY <1>2, <1>4, <1>5, <1>6
<1> QED BY <1>7 DEF x, j

-----------------------------------------------------------------------------
\* A hand-out to node n takes a slot of n, or excuses the job.
LEMMA HandTurn ==
  ASSUME NEW s, NEW E \in [Jobs -> SUBSET Nodes], Sound(s, E), NEW A, NEW w, Tidy(s, {}, A, w),
         NEW j \in Jobs, s.jobStatus[j] # "cancelled", NEW n \in Nodes, NEW x, HandsTo(s, j, n, x)
  PROVE  /\ Excused(s, j) => Excused(x, j)
         /\ Excused(x, j) \/ (Advanced(s, x, j) /\ x.active[n] = s.active[n] + 1)
<1>1. PICK t \in Tasks : \E q : /\ Taken(s.queues[j], q, t)
                                /\ x = Dispatch([s EXCEPT !.queues[j] = q], t, n)
  BY DEF HandsTo
<1>2. PICK q : Taken(s.queues[j], q, t) /\ x = Dispatch([s EXCEPT !.queues[j] = q], t, n)
  BY <1>1
<1> DEFINE y == [s EXCEPT !.queues[j] = q]
<1>3. /\ y \in States /\ WithQueue(s, y, j, q) /\ JobOf(t) = j /\ s \in States
  BY <1>2, TakenSound DEF Sound
<1>4. x = Dispatch(y, t, n)
  BY <1>2
<1> HIDE DEF y
<1>5. y.status[t] \in Waiting
  BY <1>2, <1>3, TakenTidy
<1>6. CASE n \in y.registered \cap open
  <2>1. x = Assign(y, t, n) /\ x \in States /\ Assigned(y, x, t, n)
    BY <1>3, <1>4, <1>6, AssignEffect DEF Dispatch
  <2>2. /\ x.jobStatus = s.jobStatus /\ x.registered = s.registered /\ x.pumps = s.pumps /\ x.queues[j] = q
        /\ \A r \in Tasks \ {t} : x.status[r] = s.status[r]
        /\ s.status[t] \in Waiting /\ n \in s.registered
        /\ \A m \in Nodes : x.active[m] = IF m = n THEN s.active[m] + 1 ELSE s.active[m]
    BY <1>3, <1>5, <1>6, <2>1 DEF WithQueue, Assigned, SameJobs, SameWork, SameNodes, SameLinks, SameTasks, States
  <2>3. \A m \in Nodes : s.active[m] <= x.active[m]
    BY <1>3, <2>2, QueueTyped
  <2>4. Advanced(s, x, j)
    BY <1>2, <2>2, <2>3 DEF Advanced, Taken
  <2>5. Excused(s, j) => Excused(x, j)
    BY <2>2 DEF Excused, Pending, GaveUp, Waiting
  <2> QED BY <2>2, <2>4, <2>5
<1>7. CASE n \notin y.registered \cap open
  <2>1. x = Requeue(y, t)
    BY <1>4, <1>7 DEF Dispatch
  <2> QED BY <1>3, <2>1, RequeueExcuses
<1> QED BY <1>6, <1>7

\* pump's first loop hands the head of a queue to its node; the second, the tail of
\* a queue to a node that is free.
LEMMA HeadTurn ==
  ASSUME NEW s \in States, NEW j \in Jobs, Unique(s.queues[j]), NEW i \in DOMAIN s.queues[j]
  PROVE  LET n == s.queues[j][i].node
             x == DispatchHead(s, j, n)
         IN \/ x = s /\ s.queues[j][i].tasks = <<>>
            \/ HandsTo(s, j, n, x)
<1> DEFINE q == s.queues[j]
           n == q[i].node
           ts == q[i].tasks
<1>1. q \in Seq(Entries) /\ i \in DOMAIN q
  BY DEF States
<1>2. Lookup(q, n) = ts
  <2>1. HasKey(q, n)
    BY <1>1 DEF HasKey
  <2>2. /\ KeyAt(q, n) \in DOMAIN q /\ q[KeyAt(q, n)].node = n
        /\ Lookup(q, n) = q[KeyAt(q, n)].tasks
    BY <1>1, <2>1, LookupEffect
  <2>3. KeyAt(q, n) = i
    BY <1>1, <2>2 DEF Unique
  <2> QED BY <2>2, <2>3
<1>3. CASE ts = <<>>
  BY <1>2, <1>3 DEF DispatchHead
<1>4. CASE ts # <<>>
  <2>1. Taken(q, Put(q, n, Tail(ts)), Head(ts))
    BY <1>1, <1>4, TakeFrom
  <2>2. Head(ts) \in Tasks
    <3>1. ts \in Seq(Tasks)
      BY <1>1, EntryOf
    <3> HIDE DEF ts
    <3> QED BY <1>4, <3>1
  <2>3. DispatchHead(s, j, n) = Dispatch([s EXCEPT !.queues[j] = Put(q, n, Tail(ts))], Head(ts), n)
    <3>1. [s EXCEPT !.queues[j] = Put(@, n, Tail(ts))] = [s EXCEPT !.queues[j] = Put(q, n, Tail(ts))]
      BY DEF States
    <3> HIDE DEF ts, n
    <3> QED BY <1>2, <1>4, <3>1 DEF DispatchHead
  <2> HIDE DEF ts, n
  <2>4. HandsTo(s, j, n, DispatchHead(s, j, n))
    BY <2>1, <2>2, <2>3 DEF HandsTo
  <2> QED BY <2>4 DEF n
<1> QED BY <1>3, <1>4

\* The second loop has nothing left to do.
Stuck(s, j) ==
  \/ \A i \in DOMAIN s.queues[j] : ~(/\ s.queues[j][i].tasks = <<>> /\ s.queues[j][i].node \in s.registered
                                     /\ Free(s, s.queues[j][i].node))
  \/ \A i \in DOMAIN s.queues[j] : ~(Len(s.queues[j][i].tasks) > 1)

LEMMA StealTurn ==
  ASSUME NEW s \in States, NEW j \in Jobs, Unique(s.queues[j])
  PROVE  LET x == StealOnce(s, j) IN
         \/ x = s /\ Stuck(s, j)
         \/ \E n \in Nodes : Free(s, n) /\ HandsTo(s, j, n, x)
<1> DEFINE q == s.queues[j]
           idle == {i \in DOMAIN q : /\ q[i].tasks = <<>> /\ q[i].node \in s.registered
                                     /\ Free(s, q[i].node)}
           donors == {i \in DOMAIN q : Len(q[i].tasks) > 1}
           longest == {i \in donors : \A k \in donors : Len(q[k].tasks) <= Len(q[i].tasks)}
           donor == First(longest)
           ts == q[donor].tasks
           n == q[donor].node
           m == q[First(idle)].node
<1>1. q \in Seq(Entries) /\ DOMAIN q = 1..Len(q) /\ Len(q) \in Nat
  BY QueueTyped
<1>2. CASE idle = {} \/ donors = {}
  <2>1. StealOnce(s, j) = s
    BY <1>2, Zenon DEF StealOnce
  <2>2. Stuck(s, j)
    BY <1>2 DEF Stuck
  <2> QED BY <2>1, <2>2
<1>3. CASE ~(idle = {} \/ donors = {})
  <2> HIDE DEF q
  <2>1. First(idle) \in idle
    <3>1. idle \in SUBSET Nat /\ idle # {}
      BY <1>1, <1>3
    <3> HIDE DEF idle
    <3> QED BY <3>1, FirstIs
  <2>2. m \in Nodes /\ Free(s, m)
    <3>1. First(idle) \in DOMAIN q
      BY <2>1
    <3>2. m \in Nodes
      BY <1>1, <3>1, EntryOf
    <3> QED BY <2>1, <3>2
  <2>3. donor \in DOMAIN q /\ Len(ts) > 1
    <3>1. donors \in SUBSET (DOMAIN q) /\ donors # {}
      BY <1>3
    <3>2. longest # {} /\ longest \in SUBSET Nat /\ longest \subseteq donors
      <4>1. donors \in SUBSET Nat
        BY <1>1
      <4> HIDE DEF donors
      <4> QED BY <1>1, <3>1, <4>1, LongestExists
    <3>3. First(longest) \in longest
      <4> HIDE DEF longest
      <4> QED BY <3>2, FirstIs
    <3>4. First(longest) \in donors
      BY <3>2, <3>3
    <3> QED BY <3>4
  <2>4. StealOnce(s, j) =
          Dispatch([s EXCEPT !.queues[j] = Put(q, n, Front(ts))], Last(ts), m)
    <3>1. [s EXCEPT !.queues[j] = Put(@, n, Front(ts))] = [s EXCEPT !.queues[j] = Put(q, n, Front(ts))]
      BY DEF States, q
    <3>2. StealOnce(s, j) = IF idle = {} \/ donors = {} THEN s ELSE
          Dispatch([s EXCEPT !.queues[j] = Put(@, n, Front(ts))], Last(ts), m)
      BY DEF StealOnce, q, donor, donors, idle, m
    <3> HIDE DEF idle, donors, donor, n, ts, m
    <3> QED BY <1>3, <3>1, <3>2
  <2> HIDE DEF donor, idle, donors, m
  <2>5. ts # <<>> /\ ts \in Seq(Tasks) /\ Last(ts) \in Tasks
    <3>1. ts \in Seq(Tasks)
      BY <1>1, <2>3, EntryOf
    <3>2. Len(<<>>) = 0
      OBVIOUS
    <3>3. Len(ts) \in Nat /\ Len(ts) \in 1..Len(ts)
      BY <2>3, <3>1
    <3> HIDE DEF ts
    <3> QED BY <2>3, <3>1, <3>2, <3>3 DEF Last
  <2>6. Unique(q)
    BY DEF q
  <2>7. Taken(q, Put(q, n, Front(ts)), Last(ts))
    BY <1>1, <2>3, <2>5, <2>6, TakeFrom
  <2> HIDE DEF ts, n
  <2>8. HandsTo(s, j, m, StealOnce(s, j))
    BY <2>4, <2>5, <2>7 DEF HandsTo, q
  <2> QED BY <2>2, <2>8
<1> QED BY <1>2, <1>3

-----------------------------------------------------------------------------
(* pump's loops, followed turn by turn: G[k] is what holds after k turns.    *)

LEMMA HeadTurns ==
  ASSUME NEW j \in Jobs, NEW n \in Nodes, NEW m \in Nat,
         NEW G \in [0..m -> SUBSET States], NEW s \in G[0],
         \A k \in 1..m : \A x \in G[k - 1] : DispatchHead(x, j, n) \in G[k]
  PROVE  Iterate(LAMBDA x, k : DispatchHead(x, j, n), s, m) \in G[m]
<1> DEFINE F == [p \in States \X (1..m) |-> IF p[1] \in G[p[2] - 1] THEN DispatchHead(p[1], j, n) ELSE p[1]]
           run == CHOOSE f : f = [k \in 0..m |-> IF k = 0 THEN s ELSE
                    CHOOSE x \in {DispatchHead(y, j, n) : y \in {f[k - 1]}} : TRUE]
<1>1. Iterate(LAMBDA x, k : DispatchHead(x, j, n), s, m) = run[m]
  BY DEF Iterate
<1>2. \A k \in 1..m : k - 1 \in 0..m /\ k \in 0..m /\ G[k - 1] \subseteq States /\ G[k] \subseteq States
  <2>1. \A k \in 1..m : k - 1 \in 0..m /\ k \in 0..m
    OBVIOUS
  <2> QED BY <2>1
<1>3. \A k \in 1..m : \A x \in G[k - 1] : F[<<x, k>>] = DispatchHead(x, j, n)
  BY <1>2
<1>4. F \in [States \X (1..m) -> States]
  <2> SUFFICES ASSUME NEW x \in States, NEW k \in 1..m, x \in G[k - 1]
               PROVE  DispatchHead(x, j, n) \in States
    OBVIOUS
  <2> QED BY <1>2
<1> HIDE DEF F
<1>5. \A k \in 1..m : \A x \in G[k - 1] : F[<<x, k>>] \in G[k]
  BY <1>3
<1>6. PICK g \in [0..m -> States] : Runs(g, m, s, F) /\ Stays(g, m, G)
  BY <1>4, <1>5, LoopExists
<1>7. \A k \in 0..m : k = 0 \/ (k \in 1..m /\ g[k] = DispatchHead(g[k - 1], j, n))
  <2>1. \A k \in 0..m : k = 0 \/ k \in 1..m
    OBVIOUS
  <2>2. ASSUME NEW k \in 1..m PROVE g[k] = DispatchHead(g[k - 1], j, n)
    <3>1. g[k] = F[<<g[k - 1], k>>] /\ g[k - 1] \in G[k - 1]
      BY <1>2, <1>6 DEF Runs, Stays
    <3> QED BY <1>3, <3>1
  <2> QED BY <2>1, <2>2
<1>8. g = [k \in 0..m |-> IF k = 0 THEN s ELSE
             CHOOSE x \in {DispatchHead(y, j, n) : y \in {g[k - 1]}} : TRUE]
  BY <1>6, <1>7 DEF Runs
<1>9. run = [k \in 0..m |-> IF k = 0 THEN s ELSE
               CHOOSE x \in {DispatchHead(y, j, n) : y \in {run[k - 1]}} : TRUE]
  BY <1>8
<1> HIDE DEF run
<1> DEFINE I == {k \in 0..m : run[k] \in G[k]}
<1>10. 0 \in I
  BY <1>9
<1>11. \A k \in 1..m : k - 1 \in I => k \in I
  <2> SUFFICES ASSUME NEW k \in 1..m, k - 1 \in I PROVE k \in I
    OBVIOUS
  <2>1. k \in 0..m /\ k # 0
    OBVIOUS
  <2>2. run[k] = CHOOSE x \in {DispatchHead(y, j, n) : y \in {run[k - 1]}} : TRUE
    BY <1>9, <2>1
  <2>3. run[k] = DispatchHead(run[k - 1], j, n)
    BY <2>2
  <2> QED BY <1>2, <2>3
<1>12. m \in I
  <2> HIDE DEF I
  <2> QED BY <1>10, <1>11, LoopInduction
<1> QED BY <1>1, <1>12

LEMMA FeedTurns ==
  ASSUME NEW j \in Jobs, NEW G \in [0..NumNodes -> SUBSET States], NEW s \in G[0],
         \A k \in 1..NumNodes : \A x \in G[k - 1] : FeedKey(x, j, k) \in G[k]
  PROVE  Feed(s, j) \in G[NumNodes]
<1> DEFINE m == NumNodes
           F == [p \in States \X (1..m) |-> IF p[1] \in G[p[2] - 1] THEN FeedKey(p[1], j, p[2]) ELSE p[1]]
           run == CHOOSE f : f = [k \in 0..m |-> IF k = 0 THEN s ELSE
                    CHOOSE x \in {FeedKey(y, j, k) : y \in {f[k - 1]}} : TRUE]
<1>1. m \in Nat
  BY Numbers
<1>2. Feed(s, j) = run[m]
  BY DEF Feed, Iterate
<1>3. G \in [0..m -> SUBSET States] /\ \A k \in 1..m : \A x \in G[k - 1] : FeedKey(x, j, k) \in G[k]
  OBVIOUS
<1> HIDE DEF m
<1>4. \A k \in 1..m : k - 1 \in 0..m /\ k \in 0..m /\ G[k - 1] \subseteq States /\ G[k] \subseteq States
  <2>1. \A k \in 1..m : k - 1 \in 0..m /\ k \in 0..m
    BY <1>1
  <2> QED BY <1>3, <2>1
<1>5. \A k \in 1..m : \A x \in G[k - 1] : F[<<x, k>>] = FeedKey(x, j, k)
  BY <1>4
<1>6. F \in [States \X (1..m) -> States]
  <2> SUFFICES ASSUME NEW x \in States, NEW k \in 1..m, x \in G[k - 1]
               PROVE  FeedKey(x, j, k) \in States
    OBVIOUS
  <2> QED BY <1>3, <1>4
<1> HIDE DEF F
<1>7. \A k \in 1..m : \A x \in G[k - 1] : F[<<x, k>>] \in G[k]
  BY <1>3, <1>5
<1>8. PICK g \in [0..m -> States] : Runs(g, m, s, F) /\ Stays(g, m, G)
  BY <1>1, <1>3, <1>6, <1>7, LoopExists
<1>9. \A k \in 0..m : k = 0 \/ (k \in 1..m /\ g[k] = FeedKey(g[k - 1], j, k))
  <2>1. \A k \in 0..m : k = 0 \/ k \in 1..m
    BY <1>1
  <2> QED BY <1>4, <1>5, <1>8, <2>1 DEF Runs, Stays
<1>10. g = [k \in 0..m |-> IF k = 0 THEN s ELSE
              CHOOSE x \in {FeedKey(y, j, k) : y \in {g[k - 1]}} : TRUE]
  BY <1>1, <1>8, <1>9 DEF Runs
<1>11. run = [k \in 0..m |-> IF k = 0 THEN s ELSE
                CHOOSE x \in {FeedKey(y, j, k) : y \in {run[k - 1]}} : TRUE]
  BY <1>10
<1> HIDE DEF run
<1> DEFINE I == {k \in 0..m : run[k] \in G[k]}
<1>12. 0 \in I
  BY <1>1, <1>11
<1>13. \A k \in 1..m : k - 1 \in I => k \in I
  <2> SUFFICES ASSUME NEW k \in 1..m, k - 1 \in I PROVE k \in I
    OBVIOUS
  <2>1. run[k] = FeedKey(run[k - 1], j, k)
    BY <1>1, <1>11
  <2> QED BY <1>3, <1>4, <2>1
<1>14. m \in I
  <2> HIDE DEF I
  <2> QED BY <1>1, <1>12, <1>13, LoopInduction
<1> QED BY <1>2, <1>14 DEF m

LEMMA StealTurns ==
  ASSUME NEW j \in Jobs, NEW G \in [0..StealLimit -> SUBSET States], NEW s \in G[0],
         \A k \in 1..StealLimit : \A x \in G[k - 1] : StealOnce(x, j) \in G[k]
  PROVE  Steal(s, j) \in G[StealLimit]
<1> DEFINE m == StealLimit
           F == [p \in States \X (1..m) |-> IF p[1] \in G[p[2] - 1] THEN StealOnce(p[1], j) ELSE p[1]]
           run == CHOOSE f : f = [k \in 0..m |-> IF k = 0 THEN s ELSE
                    CHOOSE x \in {StealOnce(y, j) : y \in {f[k - 1]}} : TRUE]
<1>1. m \in Nat
  BY Numbers
<1>2. Steal(s, j) = run[m]
  BY DEF Steal, Iterate
<1>3. G \in [0..m -> SUBSET States] /\ \A k \in 1..m : \A x \in G[k - 1] : StealOnce(x, j) \in G[k]
  OBVIOUS
<1> HIDE DEF m
<1>4. \A k \in 1..m : k - 1 \in 0..m /\ k \in 0..m /\ G[k - 1] \subseteq States /\ G[k] \subseteq States
  <2>1. \A k \in 1..m : k - 1 \in 0..m /\ k \in 0..m
    BY <1>1
  <2> QED BY <1>3, <2>1
<1>5. \A k \in 1..m : \A x \in G[k - 1] : F[<<x, k>>] = StealOnce(x, j)
  BY <1>4
<1>6. F \in [States \X (1..m) -> States]
  <2> SUFFICES ASSUME NEW x \in States, NEW k \in 1..m, x \in G[k - 1]
               PROVE  StealOnce(x, j) \in States
    OBVIOUS
  <2> QED BY <1>3, <1>4
<1> HIDE DEF F
<1>7. \A k \in 1..m : \A x \in G[k - 1] : F[<<x, k>>] \in G[k]
  BY <1>3, <1>5
<1>8. PICK g \in [0..m -> States] : Runs(g, m, s, F) /\ Stays(g, m, G)
  BY <1>1, <1>3, <1>6, <1>7, LoopExists
<1>9. \A k \in 0..m : k = 0 \/ (k \in 1..m /\ g[k] = StealOnce(g[k - 1], j))
  <2>1. \A k \in 0..m : k = 0 \/ k \in 1..m
    BY <1>1
  <2> QED BY <1>4, <1>5, <1>8, <2>1 DEF Runs, Stays
<1>10. g = [k \in 0..m |-> IF k = 0 THEN s ELSE
              CHOOSE x \in {StealOnce(y, j) : y \in {g[k - 1]}} : TRUE]
  BY <1>1, <1>8, <1>9 DEF Runs
<1>11. run = [k \in 0..m |-> IF k = 0 THEN s ELSE
                CHOOSE x \in {StealOnce(y, j) : y \in {run[k - 1]}} : TRUE]
  BY <1>10
<1> HIDE DEF run
<1> DEFINE I == {k \in 0..m : run[k] \in G[k]}
<1>12. 0 \in I
  BY <1>1, <1>11
<1>13. \A k \in 1..m : k - 1 \in I => k \in I
  <2> SUFFICES ASSUME NEW k \in 1..m, k - 1 \in I PROVE k \in I
    OBVIOUS
  <2>1. run[k] = StealOnce(run[k - 1], j)
    BY <1>1, <1>11
  <2> QED BY <1>3, <1>4, <2>1
<1>14. m \in I
  <2> HIDE DEF I
  <2> QED BY <1>1, <1>12, <1>13, LoopInduction
<1> QED BY <1>2, <1>14 DEF m

-----------------------------------------------------------------------------
Turning(E, A, w) == {x \in States : Sound(x, E) /\ Tidy(x, {}, A, w)}

LEMMA TurnStays ==
  ASSUME NEW E \in [Jobs -> SUBSET Nodes], NEW A, NEW w, NEW j \in Jobs, j \notin w.cancelled, E[j] = {},
         NEW x \in Turning(E, A, w), NEW y, HandsOut(x, j, y)
  PROVE  /\ y \in Turning(E, A, w) /\ x.jobStatus[j] # "cancelled"
         /\ Excused(x, j) => Excused(y, j)
<1>1. Sound(x, E) /\ Tidy(x, {}, A, w) /\ x \in States
  BY DEF Turning
<1>2. x.jobStatus[j] # "cancelled"
  BY <1>1 DEF Tidy, CancelledOf
<1>3. y \in Turning(E, A, w)
  BY <1>1, <1>2, HandsOutSound, HandsOutTidy DEF Turning, Sound
<1>4. CASE y = x
  BY <1>2, <1>3, <1>4
<1>5. ASSUME NEW i \in DOMAIN x.queues[j], NEW t \in Tasks, NEW q, Taken(x.queues[j], q, t),
             y = Dispatch([x EXCEPT !.queues[j] = q], t, x.queues[j][i].node)
      PROVE  Excused(x, j) => Excused(y, j)
  <2> DEFINE n == x.queues[j][i].node
  <2>1. n \in Nodes
    BY <1>1, QueueTyped
  <2> HIDE DEF n
  <2>2. HandsTo(x, j, n, y)
    BY <1>5 DEF HandsTo, n
  <2> QED BY <1>1, <1>2, <2>1, <2>2, HandTurn
<1> QED BY <1>2, <1>3, <1>4, <1>5 DEF HandsOut

LEMMA TurningTyped ==
  ASSUME NEW E \in [Jobs -> SUBSET Nodes], NEW A, NEW w, NEW j \in Jobs, E[j] = {},
         NEW x \in Turning(E, A, w)
  PROVE  /\ x \in States /\ Sound(x, E) /\ Tidy(x, {}, A, w) /\ Unique(x.queues[j])
         /\ x.jobStatus[j] \in Live => \A i \in DOMAIN x.queues[j] : x.queues[j][i].node \in x.registered
<1>1. x \in States /\ Sound(x, E) /\ Tidy(x, {}, A, w)
  BY DEF Turning
<1>2. QueueSound(x, E, j, x.queues[j])
  BY <1>1 DEF Sound, QueuesSound
<1> QED BY <1>1, <1>2 DEF QueueSound

\* Once pump has been at key i, the queue of that node is empty or the node is full.
LEMMA FeedKeyFeeds ==
  ASSUME NEW E \in [Jobs -> SUBSET Nodes], NEW A, NEW w, NEW j \in Jobs, j \notin w.cancelled, E[j] = {},
         NEW s \in Turning(E, A, w), s.jobStatus[j] \in Live \/ Excused(s, j), NEW i \in Nat \ {0}
  PROVE  LET x == FeedKey(s, j, i) IN
         /\ x \in Turning(E, A, w)
         /\ Excused(s, j) => Excused(x, j)
         /\ Excused(x, j) \/ (Advanced(s, x, j) /\ (i \in DOMAIN s.queues[j] => Fed(x, j, i)))
<1>1. s \in States /\ DOMAIN s.queues[j] = 1..Len(s.queues[j]) /\ Len(s.queues[j]) \in Nat
  BY TurningTyped, QueueTyped
<1>2. CASE i > Len(s.queues[j])
  <2>1. FeedKey(s, j, i) = s
    BY <1>2 DEF FeedKey
  <2>2. i \notin DOMAIN s.queues[j]
    <3> DEFINE d == Len(s.queues[j])
    <3>1. d \in Nat /\ i > d /\ DOMAIN s.queues[j] = 1..d
      BY <1>1, <1>2
    <3> HIDE DEF d
    <3> QED BY <3>1
  <2> QED BY <1>1, <2>1, <2>2, AdvancedSelf
<1>3. CASE ~(i > Len(s.queues[j]))
  <2> DEFINE n == s.queues[j][i].node
             m == Slots(s, n)
             T == Turning(E, A, w)
             S(k) == {x \in T :
                       /\ Excused(s, j) => Excused(x, j)
                       /\ \/ Excused(x, j)
                          \/ /\ Advanced(s, x, j)
                             /\ x.queues[j][i].tasks = <<>> \/ s.active[n] + k <= x.active[n]}
             G == [k \in 0..m |-> S(k)]
  <2>1. i \in DOMAIN s.queues[j]
    BY <1>1, <1>3
  <2>2. n \in Nodes /\ s.active[n] \in Nat
    BY <1>1, <2>1, QueueTyped
  <2>3. m \in Nat /\ (n \in s.registered /\ Free(s, n) => s.active[n] + m = MaxConcurrent)
    <3> DEFINE a == s.active[n]
    <3>1. a \in Nat /\ MaxConcurrent \in Nat
      BY <2>2, Numbers
    <3>2. m = IF n \in s.registered /\ a < MaxConcurrent THEN MaxConcurrent - a ELSE 0
      BY DEF Slots, Free
    <3>3. Free(s, n) <=> a < MaxConcurrent
      BY DEF Free
    <3> HIDE DEF n, m, a
    <3>4. m \in Nat /\ (n \in s.registered /\ Free(s, n) => a + m = MaxConcurrent)
      BY <3>1, <3>2, <3>3
    <3> QED BY <3>4 DEF a
  <2>4. FeedKey(s, j, i) = Iterate(LAMBDA x, k : DispatchHead(x, j, n), s, m)
    BY <1>3 DEF FeedKey
  <2>5. \A k : S(k) \in SUBSET States
    BY DEF Turning
  <2> HIDE DEF m, T
  <2>6. s \in S(0)
    BY <1>1, <2>2, AdvancedSelf DEF T
  <2>7. ASSUME NEW k \in 1..m, NEW x \in S(k - 1) PROVE DispatchHead(x, j, n) \in S(k)
    <3> DEFINE y == DispatchHead(x, j, n)
    <3>1. /\ x \in T
          /\ Excused(s, j) => Excused(x, j)
          /\ \/ Excused(x, j)
             \/ /\ Advanced(s, x, j)
                /\ x.queues[j][i].tasks = <<>> \/ s.active[n] + (k - 1) <= x.active[n]
      BY <2>7
    <3>2. x \in States /\ Unique(x.queues[j]) /\ Sound(x, E) /\ Tidy(x, {}, A, w) /\ x \in Turning(E, A, w)
      BY <3>1, TurningTyped DEF T
    <3>3. HandsOut(x, j, y)
      BY <3>2, HeadCases
    <3>4. y \in T /\ x.jobStatus[j] # "cancelled" /\ (Excused(x, j) => Excused(y, j)) /\ y \in States
      <4> HIDE DEF y
      <4> QED BY <3>2, <3>3, TurnStays DEF T, Turning
    <3>5. CASE Excused(x, j)
      <4> HIDE DEF y
      <4>1. y \in S(k)
        BY <3>1, <3>4, <3>5
      <4> QED BY <4>1 DEF y
    <3>6. CASE ~Excused(x, j)
      <4>1. Advanced(s, x, j) /\ i \in DOMAIN x.queues[j] /\ x.queues[j][i].node = n
        BY <2>1, <3>1, <3>6 DEF Advanced
      <4>2. (y = x /\ x.queues[j][i].tasks = <<>>) \/ HandsTo(x, j, n, y)
        BY <3>2, <4>1, HeadTurn
      <4> HIDE DEF y, n
      <4>3. CASE y = x /\ x.queues[j][i].tasks = <<>>
        <5>1. y \in S(k)
          BY <3>1, <4>1, <4>3
        <5> QED BY <5>1 DEF y
      <4>4. CASE HandsTo(x, j, n, y)
        <5>1. Excused(y, j) \/ (Advanced(x, y, j) /\ y.active[n] = x.active[n] + 1)
          BY <2>2, <3>2, <3>4, <4>4, HandTurn
        <5>2. x.active[n] \in Nat
          BY <2>2, <3>2, QueueTyped
        <5>3. Excused(y, j) \/ Advanced(s, y, j)
          BY <1>1, <3>2, <3>4, <4>1, <5>1, AdvancedOn
        <5>4. \/ Excused(y, j)
              \/ y.queues[j][i].tasks = <<>>
              \/ s.active[n] + k <= y.active[n]
          <6>1. ASSUME Advanced(x, y, j), x.queues[j][i].tasks = <<>> PROVE y.queues[j][i].tasks = <<>>
            BY <3>2, <3>4, <4>1, <6>1, EmptyStays
          <6>2. ASSUME y.active[n] = x.active[n] + 1, s.active[n] + (k - 1) <= x.active[n]
                PROVE  s.active[n] + k <= y.active[n]
            BY <2>2, <5>2, <6>2
          <6> QED BY <3>1, <3>6, <5>1, <6>1, <6>2
        <5>5. Excused(s, j) => Excused(y, j)
          BY <3>1, <3>4
        <5>6. y \in S(k)
          BY <3>4, <5>3, <5>4, <5>5
        <5> QED BY <5>6 DEF y
      <4> QED BY <4>2, <4>3, <4>4
    <3> QED BY <3>5, <3>6
  <2> HIDE DEF n, S
  <2>8. G \in [0..m -> SUBSET States] /\ \A k \in 0..m : G[k] = S(k)
    BY <2>5
  <2> HIDE DEF G
  <2>9. \A k \in 1..m : k - 1 \in 0..m /\ k \in 0..m
    BY <2>3
  <2>10. s \in G[0] /\ 0 \in 0..m /\ m \in 0..m
    BY <2>3, <2>6, <2>8
  <2>11. \A k \in 1..m : \A x \in G[k - 1] : DispatchHead(x, j, n) \in G[k]
    BY <2>7, <2>8, <2>9
  <2>12. FeedKey(s, j, i) \in G[m]
    <3>1. Iterate(LAMBDA x, k : DispatchHead(x, j, n), s, m) \in G[m]
      BY <2>2, <2>3, <2>8, <2>10, <2>11, HeadTurns
    <3> QED BY <2>4, <3>1
  <2> DEFINE x == FeedKey(s, j, i)
  <2>13. x \in S(m)
    BY <2>8, <2>10, <2>12
  <2> HIDE DEF x
  <2>14. /\ x \in T
         /\ Excused(s, j) => Excused(x, j)
         /\ \/ Excused(x, j)
            \/ /\ Advanced(s, x, j)
               /\ x.queues[j][i].tasks = <<>> \/ s.active[n] + m <= x.active[n]
    BY <2>13 DEF S
  <2>15. ASSUME ~Excused(x, j) PROVE Fed(x, j, i)
    <3>1. s.jobStatus[j] \in Live /\ Advanced(s, x, j)
      BY <2>14, <2>15
    <3>2. x.queues[j][i].node = n /\ s.active[n] <= x.active[n]
      BY <2>1, <2>2, <3>1 DEF Advanced, n
    <3>3. n \in s.registered
      BY <2>1, <3>1, TurningTyped DEF n
    <3>4. x \in States
      BY <2>14, TurningTyped DEF T
    <3>5. x.active[n] \in Nat
      BY <2>2, <3>4, QueueTyped
    <3>6. ASSUME s.active[n] + m <= x.active[n] PROVE ~Free(x, n)
      <4> DEFINE a == s.active[n]
                 b == x.active[n]
      <4>1. a \in Nat /\ b \in Nat /\ MaxConcurrent \in Nat /\ a <= b /\ a + m <= b /\ m \in Nat
        BY <2>2, <2>3, <3>2, <3>5, <3>6, Numbers
      <4>2. (a < MaxConcurrent => a + m = MaxConcurrent) /\ (Free(x, n) <=> b < MaxConcurrent)
        BY <2>3, <3>3 DEF Free
      <4> HIDE DEF a, b
      <4> QED BY <4>1, <4>2
    <3>7. x.queues[j][i].tasks = <<>> \/ s.active[n] + m <= x.active[n]
      BY <2>14, <2>15
    <3> QED BY <3>2, <3>6, <3>7 DEF Fed
  <2>16. /\ x \in Turning(E, A, w)
         /\ Excused(s, j) => Excused(x, j)
         /\ Excused(x, j) \/ (Advanced(s, x, j) /\ (i \in DOMAIN s.queues[j] => Fed(x, j, i)))
    <3>1. x \in Turning(E, A, w)
      BY <2>14 DEF T
    <3>2. (Excused(s, j) => Excused(x, j)) /\ (Excused(x, j) \/ Advanced(s, x, j))
      BY <2>14
    <3> QED BY <2>15, <3>1, <3>2
  <2> QED BY <2>16 DEF x
<1> QED BY <1>2, <1>3

\* pump's first loop leaves no node free beside a queue of its own.
LEMMA FeedFeeds ==
  ASSUME NEW E \in [Jobs -> SUBSET Nodes], NEW A, NEW w, NEW j \in Jobs, j \notin w.cancelled, E[j] = {},
         NEW s \in Turning(E, A, w), s.jobStatus[j] \in Live
  PROVE  LET x == Feed(s, j) IN
         /\ x \in Turning(E, A, w)
         /\ \/ Excused(x, j)
            \/ Advanced(s, x, j) /\ \A i \in DOMAIN x.queues[j] : Fed(x, j, i)
<1> DEFINE T == Turning(E, A, w)
           S(k) == {x \in T : \/ Excused(x, j)
                              \/ /\ Advanced(s, x, j)
                                 /\ \A i \in DOMAIN x.queues[j] : i <= k => Fed(x, j, i)}
           G == [k \in 0..NumNodes |-> S(k)]
<1>1. \A k : S(k) \in SUBSET States
  BY DEF Turning
<1>2. s \in S(0)
  <2>1. s \in States /\ \A i \in DOMAIN s.queues[j] : i \in Nat \ {0}
    BY TurningTyped, QueueTyped
  <2>2. Advanced(s, s, j)
    BY <2>1, AdvancedSelf
  <2>3. \A i \in DOMAIN s.queues[j] : ~(i <= 0)
    BY <2>1
  <2> QED BY <2>2, <2>3
<1>3. ASSUME NEW k \in 1..NumNodes, NEW x \in S(k - 1) PROVE FeedKey(x, j, k) \in S(k)
  <2> DEFINE y == FeedKey(x, j, k)
  <2>1. x \in T /\ (Excused(x, j) \/ (Advanced(s, x, j) /\ \A i \in DOMAIN x.queues[j] : i <= k - 1 => Fed(x, j, i)))
    BY <1>3
  <2>2. x \in Turning(E, A, w) /\ x \in States /\ s \in States
    BY <2>1, TurningTyped
  <2>3. x.jobStatus[j] \in Live \/ Excused(x, j)
    BY <2>1 DEF Advanced
  <2>4. k \in Nat \ {0}
    BY Numbers
  <2>5. /\ y \in Turning(E, A, w)
        /\ Excused(x, j) => Excused(y, j)
        /\ Excused(y, j) \/ (Advanced(x, y, j) /\ (k \in DOMAIN x.queues[j] => Fed(y, j, k)))
    BY <2>2, <2>3, <2>4, FeedKeyFeeds
  <2> HIDE DEF y, T
  <2>6. y \in States
    BY <2>5, TurningTyped
  <2>7. ASSUME ~Excused(y, j)
        PROVE  Advanced(s, y, j) /\ \A i \in DOMAIN y.queues[j] : i <= k => Fed(y, j, i)
    <3>1. Advanced(s, x, j) /\ Advanced(x, y, j) /\ (k \in DOMAIN x.queues[j] => Fed(y, j, k))
          /\ \A i \in DOMAIN x.queues[j] : i <= k - 1 => Fed(x, j, i)
      BY <2>1, <2>5, <2>7
    <3>2. Advanced(s, y, j)
      BY <2>2, <2>6, <3>1, AdvancedOn
    <3>3. DOMAIN y.queues[j] = DOMAIN x.queues[j] /\ \A i \in DOMAIN x.queues[j] : i \in Nat
      BY <2>2, <3>1, QueueTyped DEF Advanced
    <3>4. ASSUME NEW i \in DOMAIN x.queues[j], i <= k PROVE Fed(y, j, i)
      <4>1. i = k \/ i <= k - 1
        BY <2>4, <3>3, <3>4
      <4>2. CASE i = k
        BY <3>1, <4>2
      <4>3. CASE i <= k - 1
        <5>1. Fed(x, j, i)
          BY <3>1, <4>3
        <5> QED BY <2>2, <2>6, <3>1, <5>1, FedStays
      <4> QED BY <4>1, <4>2, <4>3
    <3> QED BY <3>2, <3>3, <3>4
  <2>8. y \in T
    BY <2>5 DEF T
  <2>9. y \in S(k)
    BY <2>7, <2>8
  <2> QED BY <2>9 DEF y
<1> HIDE DEF S
<1>4. G \in [0..NumNodes -> SUBSET States] /\ \A k \in 0..NumNodes : G[k] = S(k)
  BY <1>1
<1>5. 0 \in 0..NumNodes /\ NumNodes \in 0..NumNodes /\ \A k \in 1..NumNodes : k \in 0..NumNodes /\ k - 1 \in 0..NumNodes
  BY Numbers
<1> HIDE DEF G
<1>6. s \in G[0] /\ \A k \in 1..NumNodes : \A x \in G[k - 1] : FeedKey(x, j, k) \in G[k]
  BY <1>2, <1>3, <1>4, <1>5
<1>7. Feed(s, j) \in G[NumNodes]
  BY <1>4, <1>6, FeedTurns
<1> DEFINE x == Feed(s, j)
<1>8. x \in S(NumNodes)
  BY <1>4, <1>5, <1>7
<1> HIDE DEF x
<1>9. /\ x \in T
      /\ Excused(x, j) \/ (Advanced(s, x, j) /\ \A i \in DOMAIN x.queues[j] : i <= NumNodes => Fed(x, j, i))
  BY <1>8 DEF S
<1>10. \A i \in DOMAIN x.queues[j] : i <= NumNodes
  <2>1. x \in States /\ Unique(x.queues[j])
    BY <1>9, TurningTyped
  <2>2. x.queues[j] \in Seq(Entries) /\ DOMAIN x.queues[j] = 1..Len(x.queues[j])
    BY <2>1, QueueTyped
  <2> DEFINE d == Len(x.queues[j])
  <2>3. d \in Nat /\ d <= NumNodes
    BY <2>1, <2>2, FewKeys
  <2>4. DOMAIN x.queues[j] = 1..d
    BY <2>2
  <2> HIDE DEF d
  <2> QED BY <2>3, <2>4, Numbers
<1>11. /\ x \in Turning(E, A, w)
       /\ Excused(x, j) \/ (Advanced(s, x, j) /\ \A i \in DOMAIN x.queues[j] : Fed(x, j, i))
  <2>1. x \in Turning(E, A, w)
    BY <1>9
  <2> QED BY <1>9, <1>10, <2>1
<1> QED BY <1>11 DEF x

LEMMA StuckStops ==
  ASSUME NEW s \in States, NEW j \in Jobs, Stuck(s, j)
  PROVE  StealOnce(s, j) = s
<1> DEFINE q == s.queues[j]
           idle == {i \in DOMAIN q : /\ q[i].tasks = <<>> /\ q[i].node \in s.registered
                                     /\ Free(s, q[i].node)}
           donors == {i \in DOMAIN q : Len(q[i].tasks) > 1}
<1>1. idle = {} \/ donors = {}
  BY DEF Stuck
<1> QED BY <1>1, Zenon DEF StealOnce

\* Where no slot is free, none is idle.
LEMMA FullIsStuck ==
  ASSUME NEW s \in States, NEW j \in Jobs, FreeSlots(s) = {}
  PROVE  Stuck(s, j)
<1>1. ASSUME NEW n \in Nodes, Free(s, n) PROVE FALSE
  <2> DEFINE a == s.active[n]
  <2>1. a \in Nat /\ MaxConcurrent \in Nat /\ a < MaxConcurrent
    BY <1>1, QueueTyped, Numbers DEF Free
  <2> HIDE DEF a
  <2>2. a + 1 \in 1..MaxConcurrent /\ a < a + 1
    BY <2>1
  <2>3. <<n, a + 1>> \in FreeSlots(s)
    BY <2>2 DEF FreeSlots, a
  <2> QED BY <2>3
<1>2. \A i \in DOMAIN s.queues[j] : s.queues[j][i].node \in Nodes
  BY QueueTyped
<1> QED BY <1>1, <1>2 DEF Stuck

\* pump's second loop ends with nothing left to steal, if it may take as many turns
\* as the nodes have slots.
LEMMA StealEnds ==
  ASSUME NumNodes * MaxConcurrent <= StealLimit,
         NEW E \in [Jobs -> SUBSET Nodes], NEW A, NEW w, NEW j \in Jobs, j \notin w.cancelled, E[j] = {},
         NEW s \in Turning(E, A, w)
  PROVE  LET x == Steal(s, j) IN
         /\ x \in Turning(E, A, w)
         /\ Excused(s, j) => Excused(x, j)
         /\ Excused(x, j) \/ (Advanced(s, x, j) /\ Stuck(x, j))
<1> DEFINE T == Turning(E, A, w)
           All == NumNodes * MaxConcurrent
           S(k) == {x \in T : /\ Excused(s, j) => Excused(x, j)
                              /\ \/ Excused(x, j)
                                 \/ /\ Advanced(s, x, j)
                                    /\ Stuck(x, j) \/ Cardinality(FreeSlots(x)) + k <= All}
           G == [k \in 0..StealLimit |-> S(k)]
<1>1. \A k : S(k) \in SUBSET States
  BY DEF Turning
<1>2. All \in Nat /\ All <= StealLimit /\ StealLimit \in Nat
  BY Numbers
<1>3. s \in S(0)
  <2>1. s \in States
    BY TurningTyped
  <2>2. Cardinality(FreeSlots(s)) \in Nat /\ Cardinality(FreeSlots(s)) <= All
    BY <2>1, SlotsFinite
  <2>3. Advanced(s, s, j)
    BY <2>1, AdvancedSelf
  <2> HIDE DEF All
  <2>4. Cardinality(FreeSlots(s)) + 0 <= All
    BY <2>2
  <2> QED BY <2>3, <2>4
<1> HIDE DEF All
<1>4. ASSUME NEW k \in 1..StealLimit, NEW x \in S(k - 1) PROVE StealOnce(x, j) \in S(k)
  <2> DEFINE y == StealOnce(x, j)
  <2>1. /\ x \in T
        /\ Excused(s, j) => Excused(x, j)
        /\ \/ Excused(x, j)
           \/ /\ Advanced(s, x, j)
              /\ Stuck(x, j) \/ Cardinality(FreeSlots(x)) + (k - 1) <= All
    BY <1>4
  <2>2. x \in Turning(E, A, w) /\ x \in States /\ s \in States /\ Unique(x.queues[j])
        /\ Sound(x, E) /\ Tidy(x, {}, A, w)
    BY <2>1, TurningTyped
  <2>3. HandsOut(x, j, y)
    BY <2>2, StealCases
  <2>4. /\ y \in Turning(E, A, w)
        /\ x.jobStatus[j] # "cancelled"
        /\ Excused(x, j) => Excused(y, j)
    <3> HIDE DEF y
    <3> QED BY <2>2, <2>3, TurnStays
  <2>5. (y = x /\ Stuck(x, j)) \/ (~Stuck(x, j) /\ \E n \in Nodes : Free(x, n) /\ HandsTo(x, j, n, y))
    <3>1. CASE Stuck(x, j)
      BY <2>2, <3>1, StuckStops
    <3>2. CASE ~Stuck(x, j)
      BY <2>2, <3>2, StealTurn
    <3> QED BY <3>1, <3>2
  <2> HIDE DEF y, T
  <2>6. y \in T /\ y \in States
    BY <2>4, TurningTyped DEF T
  <2>7. Excused(y, j) \/ (Advanced(s, y, j) /\ (Stuck(y, j) \/ Cardinality(FreeSlots(y)) + k <= All))
    <3>1. CASE Excused(x, j)
      BY <2>4, <3>1
    <3>2. CASE ~Excused(x, j) /\ y = x /\ Stuck(x, j)
      BY <2>1, <3>2
    <3>3. ASSUME ~Excused(x, j), ~Stuck(x, j), NEW n \in Nodes, Free(x, n), HandsTo(x, j, n, y), ~Excused(y, j)
          PROVE  Advanced(s, y, j) /\ Cardinality(FreeSlots(y)) + k <= All
      <4>1. Advanced(x, y, j) /\ y.active[n] = x.active[n] + 1
        BY <2>2, <2>4, <3>3, HandTurn
      <4>2. Advanced(s, x, j) /\ Cardinality(FreeSlots(x)) + (k - 1) <= All
        BY <2>1, <3>3
      <4>3. Advanced(s, y, j)
        BY <2>2, <2>6, <4>1, <4>2, AdvancedOn
      <4>4. \A m \in Nodes : x.active[m] <= y.active[m]
        BY <4>1 DEF Advanced
      <4>5. Cardinality(FreeSlots(y)) + 1 <= Cardinality(FreeSlots(x))
        BY <2>2, <2>6, <3>3, <4>1, <4>4, SlotTaken
      <4> DEFINE a == Cardinality(FreeSlots(x))
                 b == Cardinality(FreeSlots(y))
      <4>6. a \in Nat /\ b \in Nat /\ k \in Nat /\ b + 1 <= a /\ a + (k - 1) <= All
        BY <2>2, <2>6, <4>2, <4>5, SlotsFinite
      <4> HIDE DEF a, b
      <4>7. b + k <= All
        BY <1>2, <4>6
      <4> QED BY <4>3, <4>7 DEF b
    <3> QED BY <2>5, <3>1, <3>2, <3>3
  <2>8. Excused(s, j) => Excused(y, j)
    BY <2>1, <2>4
  <2>9. y \in S(k)
    BY <2>6, <2>7, <2>8
  <2> QED BY <2>9 DEF y
<1> HIDE DEF S
<1>5. G \in [0..StealLimit -> SUBSET States] /\ \A k \in 0..StealLimit : G[k] = S(k)
  BY <1>1
<1>6. 0 \in 0..StealLimit /\ StealLimit \in 0..StealLimit /\ \A k \in 1..StealLimit : k \in 0..StealLimit /\ k - 1 \in 0..StealLimit
  BY <1>2
<1> HIDE DEF G
<1>7. s \in G[0] /\ \A k \in 1..StealLimit : \A x \in G[k - 1] : StealOnce(x, j) \in G[k]
  BY <1>3, <1>4, <1>5, <1>6
<1>8. Steal(s, j) \in G[StealLimit]
  BY <1>5, <1>7, StealTurns
<1> DEFINE x == Steal(s, j)
<1>9. x \in S(StealLimit)
  BY <1>5, <1>6, <1>8
<1> HIDE DEF x
<1>10. /\ x \in T
       /\ Excused(s, j) => Excused(x, j)
       /\ \/ Excused(x, j)
          \/ /\ Advanced(s, x, j)
             /\ Stuck(x, j) \/ Cardinality(FreeSlots(x)) + StealLimit <= All
  BY <1>9 DEF S
<1>11. x \in Turning(E, A, w) /\ x \in States
  BY <1>10, TurningTyped
<1>12. ASSUME Cardinality(FreeSlots(x)) + StealLimit <= All PROVE Stuck(x, j)
  <2> DEFINE c == Cardinality(FreeSlots(x))
  <2>1. IsFiniteSet(FreeSlots(x)) /\ c \in Nat /\ c + StealLimit <= All
    BY <1>11, <1>12, SlotsFinite
  <2> HIDE DEF c
  <2>2. c = 0
    BY <1>2, <2>1
  <2>3. FreeSlots(x) = {}
    BY <2>1, <2>2, FS_EmptySet DEF c
  <2> QED BY <1>11, <2>3, FullIsStuck
<1>13. Excused(x, j) \/ (Advanced(s, x, j) /\ Stuck(x, j))
  BY <1>10, <1>12
<1> QED BY <1>10, <1>11, <1>13 DEF x

\* Job j is the only one submitted, and it runs.
Alone(x, j) == x.jobStatus[j] \in Live /\ \A k \in Jobs \ {j} : x.jobStatus[k] = "none"
ConservesAt(x, j) == Alone(x, j) => Excused(x, j) \/ Conserved(x, j)

\* A pump leaves no free node beside work of its job that it could do.
LEMMA PumpConserves ==
  ASSUME NumNodes * MaxConcurrent <= StealLimit,
         NEW E \in [Jobs -> SUBSET Nodes], NEW A, NEW w, NEW j \in Jobs, E[j] = {},
         NEW s, Sound(s, E), Tidy(s, {}, A, w)
  PROVE  ConservesAt(Pump(s, j), j)
<1>1. CASE s.jobStatus[j] \notin Live
  BY <1>1 DEF Pump, ConservesAt, Alone
<1>2. CASE s.jobStatus[j] \in Live
  <2> DEFINE f == Feed(s, j)
             y == Steal(f, j)
             x == MaybeFinish(y, j)
  <2>1. s \in Turning(E, A, w)
    BY DEF Turning, Sound
  <2>2. j \notin w.cancelled
    BY <1>2 DEF Tidy, CancelledOf, Live
  <2>3. /\ f \in Turning(E, A, w)
        /\ \/ Excused(f, j)
           \/ Advanced(s, f, j) /\ \A i \in DOMAIN f.queues[j] : Fed(f, j, i)
    BY <1>2, <2>1, <2>2, FeedFeeds
  <2>4. Pump(s, j) = x
    BY <1>2 DEF Pump
  <2> HIDE DEF f
  <2>5. /\ y \in Turning(E, A, w)
        /\ Excused(f, j) => Excused(y, j)
        /\ Excused(y, j) \/ (Advanced(f, y, j) /\ Stuck(y, j))
    BY <2>2, <2>3, StealEnds
  <2> HIDE DEF y
  <2>6. y \in States /\ f \in States
    BY <2>3, <2>5, TurningTyped
  <2>7. /\ \A t \in Tasks : y.status[t] = "failed" => x.status[t] = "failed"
        /\ \A i : Pending(y, i) => Pending(x, i)
        /\ \/ Pending(x, j)
           \/ x.jobStatus[j] \notin Live
           \/ /\ x.queues = y.queues /\ x.registered = y.registered
              /\ \A n \in Nodes : y.active[n] <= x.active[n]
    BY <2>6, FinishSpares
  <2>8. x \in States
    <3>1. Sound(x, E)
      BY <2>5, TurningTyped, FinishSound
    <3> QED BY <3>1 DEF Sound
  <2> HIDE DEF x
  <2>9. ASSUME x.jobStatus[j] \in Live, ~Excused(x, j) PROVE Conserved(x, j)
    <3>1. ~Excused(y, j) /\ ~Excused(f, j)
      BY <2>5, <2>7, <2>9 DEF Excused, GaveUp
    <3>2. /\ x.queues = y.queues /\ x.registered = y.registered
          /\ \A n \in Nodes : y.active[n] <= x.active[n]
      BY <2>7, <2>9 DEF Excused
    <3>3. Advanced(s, f, j) /\ Advanced(f, y, j) /\ Stuck(y, j) /\ \A i \in DOMAIN f.queues[j] : Fed(f, j, i)
      BY <2>3, <2>5, <3>1
    <3>4. \A i \in DOMAIN y.queues[j] : Fed(y, j, i)
      BY <2>6, <3>3, FedStays DEF Advanced
    <3>5. y.jobStatus[j] \in Live
      BY <1>2, <3>3 DEF Advanced
    <3>6. \A i \in DOMAIN y.queues[j] : y.queues[j][i].node \in y.registered
      BY <2>5, <3>5, TurningTyped
    <3>7. ASSUME NEW n \in Nodes, Free(x, n) PROVE Free(y, n)
      <4> DEFINE a == y.active[n]
                 b == x.active[n]
      <4>1. a \in Nat /\ b \in Nat /\ a <= b /\ b < MaxConcurrent /\ MaxConcurrent \in Nat
        BY <2>6, <2>8, <3>2, <3>7, QueueTyped, Numbers DEF Free
      <4> HIDE DEF a, b
      <4>2. a < MaxConcurrent
        BY <4>1
      <4> QED BY <4>2 DEF a, Free
    <3>8. \A i \in DOMAIN y.queues[j] :
            /\ y.queues[j][i].node \in Nodes /\ y.queues[j][i].tasks \in Seq(Tasks)
            /\ Len(y.queues[j][i].tasks) \in Nat
      BY <2>6, QueueTyped
    <3>9. ASSUME NEW i \in DOMAIN y.queues[j], Free(y, y.queues[j][i].node)
          PROVE  /\ y.queues[j][i].tasks = <<>>
                 /\ \A k \in DOMAIN y.queues[j] : Len(y.queues[j][k].tasks) <= 1
      <4>1. y.queues[j][i].tasks = <<>>
        BY <3>4, <3>9 DEF Fed
      <4>2. \A k \in DOMAIN y.queues[j] : ~(Len(y.queues[j][k].tasks) > 1)
        BY <3>3, <3>6, <3>9, <4>1 DEF Stuck
      <4>3. \A k \in DOMAIN y.queues[j] : Len(y.queues[j][k].tasks) <= 1
        <5> SUFFICES ASSUME NEW k \in DOMAIN y.queues[j] PROVE Len(y.queues[j][k].tasks) <= 1
          OBVIOUS
        <5> DEFINE d == Len(y.queues[j][k].tasks)
        <5>1. d \in Nat /\ ~(d > 1)
          BY <3>8, <4>2
        <5> HIDE DEF d
        <5>2. d <= 1
          BY <5>1
        <5> QED BY <5>2 DEF d
      <4> QED BY <4>1, <4>3
    <3> QED BY <3>2, <3>7, <3>8, <3>9 DEF Conserved
  <2> QED BY <2>4, <2>9 DEF ConservesAt, Alone
<1> QED BY <1>1, <1>2

\* As long as neither the queues of job j nor the nodes' busy counts change.
LEMMA SameConserves ==
  ASSUME NEW s, NEW x, NEW j \in Jobs, ConservesAt(s, j), x.jobStatus = s.jobStatus,
         x.queues = s.queues, x.active = s.active, x.pumps = s.pumps,
         \A t \in Tasks : s.status[t] = "failed" => x.status[t] = "failed"
  PROVE  ConservesAt(x, j)
<1>1. Alone(x, j) => Alone(s, j)
  BY DEF Alone
<1>2. Excused(s, j) => Excused(x, j)
  BY DEF Excused, Pending, GaveUp
<1>3. Conserved(s, j) => Conserved(x, j)
  BY DEF Conserved, Free
<1> QED BY <1>1, <1>2, <1>3 DEF ConservesAt

\* In a job that is not the only one submitted nothing is said of the nodes.
LEMMA NotAlone ==
  ASSUME NEW x, NEW i \in Jobs, x.jobStatus[i] # "none", NEW j \in Jobs, i # j
  PROVE  ConservesAt(x, j)
BY DEF ConservesAt, Alone

-----------------------------------------------------------------------------
(* A node is lost: job after job is pumped.                                  *)

LEMMA LoseInConserves ==
  ASSUME NumNodes * MaxConcurrent <= StealLimit,
         NEW s, NEW E \in [Jobs -> SUBSET Nodes], Sound(s, E), NEW A, NEW w, Tidy(s, {}, A, w),
         NEW j \in Jobs, NEW n \in Nodes, E[j] \subseteq {n}, n \notin s.registered, w.lost = n,
         LossWatched(w)
  PROVE  ConservesAt(LoseIn(s, j, n), j)
<1> DEFINE y == MoveQueue(s, j, n)
           z == ReclaimAll(y, j, n)
           D == [E EXCEPT ![j] = {}]
           B == A \ TasksOf(j)
<1>1. CASE s.jobStatus[j] \notin Live
  BY <1>1 DEF LoseIn, ConservesAt, Alone
<1>2. CASE s.jobStatus[j] \in Live
  <2>1. D \in [Jobs -> SUBSET Nodes] /\ D[j] = {}
    OBVIOUS
  <2>2. Sound(y, D) /\ Kept(s, y)
    BY MoveQueueSound
  <2>3. Tidy(y, {}, A, w)
    BY <1>2, MoveQueueTidy DEF Live
  <2> HIDE DEF D, y, B
  <2>4. n \notin y.registered
    BY <2>2 DEF Kept, SameNodes
  <2>5. Tidy(z, {}, B, w)
    BY <2>1, <2>2, <2>3, <2>4, ReclaimAllTidy DEF B
  <2>6. Sound(z, D)
    BY <2>1, <2>2, ReclaimAllSound
  <2> HIDE DEF z
  <2>7. ConservesAt(Pump(z, j), j)
    BY <2>1, <2>5, <2>6, PumpConserves
  <2> QED BY <1>2, <2>7 DEF LoseIn, y, z
<1> QED BY <1>1, <1>2

LEMMA NodeLostConserves ==
  ASSUME NumNodes * MaxConcurrent <= StealLimit,
         NEW s, Sound(s, NoneLost), NEW n \in Nodes, NEW w, w.lost = n, Tidy(Gone(s, n), {}, Tasks, w),
         LossWatched(w)
  PROVE  \A j \in Jobs : ConservesAt(NodeLost(s, n), j)
<1> DEFINE g == Gone(s, n)
           left(k) == {t \in Tasks : JobOf(t) > k}
           S(k) == {x \in Sounds(g, Losing(n, k)) :
                      Tidy(x, {}, left(k), w) /\ \A j \in 1..k : ConservesAt(x, j)}
           G == [k \in 0..NumJobs |-> S(k)]
<1>1. \A k : S(k) \in SUBSET States
  BY DEF Sounds
<1>2. left(0) = Tasks /\ left(NumJobs) = {}
  BY TaskNames, Numbers, SMTT(40)
<1>3. Sound(g, Losing(n, 0)) /\ g \in States /\ n \notin g.registered
  BY GoneSound, GoneEffect DEF Sound, IsGone
<1>4. g \in S(0)
  <2> HIDE DEF left, g
  <2>1. 1..0 = {}
    OBVIOUS
  <2> QED BY <1>2, <1>3, <2>1, KeptSelf DEF Sounds, g
<1>5. ASSUME NEW k \in Jobs, NEW x \in S(k - 1) PROVE LoseIn(x, k, n) \in S(k)
  <2> DEFINE E == Losing(n, k - 1)
             y == LoseIn(x, k, n)
             B == left(k - 1)
  <2>1. /\ E \in [Jobs -> SUBSET Nodes] /\ E[k] \subseteq {n}
        /\ Losing(n, k) = [E EXCEPT ![k] = {}]
    BY LosingMoves
  <2>2. Sound(x, E) /\ Kept(g, x) /\ Tidy(x, {}, B, w) /\ \A j \in 1..(k - 1) : ConservesAt(x, j)
    BY DEF Sounds
  <2>3. B \ TasksOf(k) = left(k)
    <3>1. \A t \in Tasks : t \in TasksOf(k) <=> JobOf(t) = k
      BY TaskNames
    <3>2. \A t \in Tasks : JobOf(t) \in Int /\ k \in Int
      BY TaskNames, Numbers
    <3> QED BY <3>1, <3>2
  <2> HIDE DEF E, g, B, left
  <2>4. LET z == LoseIn(x, k, n) IN Sound(z, [E EXCEPT ![k] = {}]) /\ Kept(x, z)
    BY <2>1, <2>2, LoseInSound
  <2>5. Sound(y, [E EXCEPT ![k] = {}]) /\ Kept(x, y)
    BY <2>4
  <2>6. n \notin x.registered
    BY <1>3, <2>2 DEF Kept, SameNodes
  <2>7. Tidy(y, {}, B \ TasksOf(k), w)
    BY <2>1, <2>2, <2>6, LoseInTidy
  <2>8. ConservesAt(y, k)
    BY <2>1, <2>2, <2>6, LoseInConserves
  <2>9. x.jobStatus[k] \notin Live => y = x
    BY DEF LoseIn
  <2> HIDE DEF y
  <2>10. ASSUME NEW j \in 1..k PROVE ConservesAt(y, j)
    <3>1. j \in Jobs /\ (j = k \/ (j # k /\ j \in 1..(k - 1)))
      BY Numbers
    <3>2. CASE j = k
      BY <2>8, <3>2
    <3>3. CASE j # k /\ x.jobStatus[k] # "none"
      <4>1. y.jobStatus[k] # "none"
        BY <2>5, <3>3 DEF Kept
      <4> QED BY <3>1, <3>3, <4>1, NotAlone
    <3>4. CASE j # k /\ x.jobStatus[k] = "none"
      <4>1. y = x
        BY <2>9, <3>4 DEF Live
      <4> QED BY <2>2, <3>1, <3>4, <4>1
    <3> QED BY <3>1, <3>2, <3>3, <3>4
  <2>11. Sound(y, Losing(n, k)) /\ Kept(g, y) /\ y \in States /\ Tidy(y, {}, left(k), w)
    BY <2>1, <2>2, <2>3, <2>5, <2>7, KeptTransitive DEF Sound
  <2>12. y \in S(k)
    BY <2>10, <2>11 DEF Sounds
  <2> QED BY <2>12 DEF y
<1>6. \A k \in 1..NumJobs : k \in Jobs /\ k - 1 \in 0..NumJobs /\ k \in 0..NumJobs
  BY Numbers
<1>7. 0 \in 0..NumJobs /\ NumJobs \in 0..NumJobs
  BY Numbers
<1> HIDE DEF S
<1>8. G \in [0..NumJobs -> SUBSET States] /\ \A k \in 0..NumJobs : G[k] = S(k)
  BY <1>1
<1> HIDE DEF G
<1>9. g \in G[0] /\ \A k \in 1..NumJobs : \A x \in G[k - 1] : LoseIn(x, k, n) \in G[k]
  BY <1>4, <1>5, <1>6, <1>7, <1>8
<1>10. NodeLost(s, n) \in G[NumJobs]
  <2>1. Iterate(LAMBDA x, j : LoseIn(x, j, n), g, NumJobs) \in G[NumJobs]
    BY <1>8, <1>9, LoseLoop
  <2> QED BY <2>1 DEF NodeLost
<1>11. NodeLost(s, n) \in S(NumJobs)
  BY <1>7, <1>8, <1>10
<1> QED BY <1>11 DEF S, Jobs

-----------------------------------------------------------------------------
(* Steps of the coordinator.                                                 *)

Conserves(x) == \A j \in Jobs : ConservesAt(x, j)
CInv == Only(Announced) => Conserves(Coordinator)

LEMMA PumpConservesAll ==
  ASSUME NumNodes * MaxConcurrent <= StealLimit,
         NEW s, Sound(s, NoneLost), NEW w, Tidy(s, {}, {}, w), NEW j \in Jobs, s.jobStatus[j] # "none"
  PROVE  Conserves(Pump(s, j))
<1>1. NoneLost[j] = {}
  BY DEF NoneLost
<1>2. ConservesAt(Pump(s, j), j)
  BY <1>1, NoneLostType, PumpConserves
<1>3. Kept(s, Pump(s, j))
  BY NoneLostType, PumpSound
<1>4. Pump(s, j).jobStatus[j] # "none"
  BY <1>3 DEF Kept
<1>5. \A i \in Jobs : i # j => ConservesAt(Pump(s, j), i)
  BY <1>4, NotAlone
<1> QED BY <1>2, <1>5 DEF Conserves

\* Nothing that a pump looks at changes.
LEMMA QuietConserves ==
  ASSUME Conserves(Coordinator), UNCHANGED <<jobStatus, queues, active, pumps>>,
         \A t \in Tasks : status[t] = "failed" => status'[t] = "failed"
  PROVE  Conserves(Coordinator')
<1> DEFINE s == Coordinator
           x == Coordinator'
<1>1. /\ x.jobStatus = s.jobStatus /\ x.queues = s.queues /\ x.active = s.active /\ x.pumps = s.pumps
      /\ \A t \in Tasks : s.status[t] = "failed" => x.status[t] = "failed"
  BY DEF Coordinator
<1> HIDE DEF s, x
<1>2. ASSUME NEW j \in Jobs, ConservesAt(s, j) PROVE ConservesAt(x, j)
  BY <1>1, <1>2, SameConserves
<1> QED BY <1>2 DEF Conserves, s, x

LEMMA MicrotaskConserves ==
  ASSUME NumNodes * MaxConcurrent <= StealLimit, IInv, LedgerTidy, Conserves(Coordinator), RunMicrotask
  PROVE  Conserves(Coordinator')
<1> DEFINE s == Coordinator
           j == Head(pumps)
           y == [s EXCEPT !.pumps = Tail(@)]
           x == Pump(y, j)
           w == World
<1>1. Sound(s, NoneLost) /\ s \in States /\ s.pumps = pumps /\ Tidy(s, {}, {}, w)
  BY CoordinatorFields DEF IInv, CoordinatorSound, Sound, LedgerTidy
<1>2. Commit(x) /\ ~w.watch
  BY WorldFields DEF RunMicrotask
<1>3. Conserves(s)
  OBVIOUS
<1>5. pumps \in Seq(Jobs) /\ pumps # <<>>
  BY <1>1 DEF RunMicrotask, Quiet, States
<1>6. j \in Jobs /\ Tail(pumps) \in Seq(Jobs)
  BY <1>5
<1>a. \A i \in Jobs : i # j /\ (\E k \in DOMAIN pumps : pumps[k] = i) => \E k \in DOMAIN Tail(pumps) : Tail(pumps)[k] = i
  <2> SUFFICES ASSUME NEW i \in Jobs, i # j, NEW k \in DOMAIN pumps, pumps[k] = i
               PROVE  \E l \in DOMAIN Tail(pumps) : Tail(pumps)[l] = i
    OBVIOUS
  <2>1. k # 1
    BY <1>5
  <2>2. k - 1 \in DOMAIN Tail(pumps) /\ Tail(pumps)[k - 1] = pumps[k]
    BY <1>5, <2>1
  <2> QED BY <2>2
<1> HIDE DEF s, w
<1>7. /\ y \in States /\ SameJobs(s, y) /\ SameTasks(s, y) /\ SameWork(s, y) /\ SameNodes(s, y)
      /\ y.inbox = s.inbox /\ y.active = s.active /\ SameTries(s, y) /\ y.pumps = Tail(pumps)
  <2>1. y = [s EXCEPT !.pumps = Tail(pumps)]
    BY <1>1
  <2>2. [s EXCEPT !.pumps = Tail(pumps)] \in States
    BY <1>1, <1>6 DEF States
  <2>3. /\ SameJobs(s, y) /\ SameTasks(s, y) /\ SameWork(s, y) /\ SameNodes(s, y)
        /\ y.inbox = s.inbox /\ y.active = s.active /\ SameTries(s, y) /\ y.pumps = Tail(pumps)
    BY <1>1 DEF SameJobs, SameTasks, SameWork, SameNodes, SameTries, States
  <2> QED BY <2>1, <2>2, <2>3
<1> HIDE DEF y, j
<1>8. Sound(y, NoneLost)
  <2>1. \A n \in Nodes : \A i \in DOMAIN y.inbox[n] : \E k \in DOMAIN s.inbox[n] : y.inbox[n][i] = s.inbox[n][k]
    BY <1>7
  <2>2. s.registered \subseteq y.registered
    BY <1>7 DEF SameNodes
  <2> QED BY <1>1, <1>7, <2>1, <2>2, QuietSound, NoneLostType
<1>9. Tidy(y, {}, {}, w)
  <2>1. \A m : Load(y, m) = Load(s, m)
    BY <1>7 DEF Load, SameTasks
  <2>2. Turned(y, w)
    BY <1>2 DEF Turned
  <2>3. ExactOf(y, w) /\ CancelledOf(y, w)
    BY <1>1, <1>7, <2>1, <2>2 DEF Tidy, ExactOf, Busy, NoneCancelled, CancelledOf, SameJobs, SameNodes
  <2> QED BY <1>1, <1>7, <2>3, ViewTidy DEF SameJobs, SameWork, SameNodes
<1>10. Sound(x, NoneLost)
  BY <1>6, <1>8, NoneLostType, PumpSound
<1>11. Conserves(x)
  <2>1. CASE y.jobStatus[j] # "none"
    BY <1>6, <1>8, <1>9, <2>1, PumpConservesAll
  <2>2. CASE y.jobStatus[j] = "none"
    <3>1. x = y
      BY <2>2 DEF Pump, Live
    <3>2. ASSUME NEW i \in Jobs PROVE ConservesAt(y, i)
      <4>1. CASE i = j
        BY <2>2, <4>1 DEF ConservesAt, Alone, Live
      <4>2. CASE i # j
        <5>1. Alone(y, i) => Alone(s, i)
          BY <1>7 DEF Alone, SameJobs
        <5>2. Excused(s, i) => Excused(y, i)
          BY <1>a, <1>1, <1>7, <4>2 DEF Excused, Pending, GaveUp, SameTasks, j
        <5>3. Conserved(s, i) => Conserved(y, i)
          BY <1>7 DEF Conserved, Free, SameWork
        <5> QED BY <1>3, <5>1, <5>2, <5>3 DEF Conserves, ConservesAt
      <4> QED BY <4>1, <4>2
    <3> QED BY <3>1, <3>2 DEF Conserves
  <2> QED BY <2>1, <2>2
<1> HIDE DEF x
<1>12. Coordinator' = x
  BY <1>2, <1>10, CommitEffect DEF Sound
<1> QED BY <1>11, <1>12

LEMMA SubmitConserves ==
  ASSUME NumNodes * MaxConcurrent <= StealLimit, IInv, LedgerTidy, NEW j \in Jobs, Submit(j)
  PROVE  Conserves(Coordinator')
<1> DEFINE s == Coordinator
           w == World
<1>1. Sound(s, NoneLost) /\ s \in States /\ Tidy(s, {}, {}, w)
  BY DEF IInv, CoordinatorSound, Sound, LedgerTidy
<1>2. /\ s.jobStatus[j] = "none"
      /\ \/ Commit(Refused(s, j))
         \/ \E q, plan : PlanGood(s, j, q, plan) /\ Commit(Planned(s, j, q, plan))
  BY <1>1, SubmitCases
<1> HIDE DEF s, w
<1>3. PICK x : Commit(x) /\ x \in States /\ Conserves(x)
  <2>1. CASE Commit(Refused(s, j))
    <3> DEFINE x == Refused(s, j)
    <3>1. x \in States /\ JobMarked(s, x, j, "failed")
      BY <1>1, JobStatusEffect DEF JobStatuses, Refused
    <3> HIDE DEF x
    <3>2. x.jobStatus[j] = "failed"
      BY <1>1, <3>1 DEF JobMarked, States
    <3>3. ASSUME NEW i \in Jobs PROVE ConservesAt(x, i)
      <4>1. CASE i = j
        BY <3>2, <4>1 DEF ConservesAt, Alone, Live
      <4>2. CASE i # j
        BY <3>2, <4>2, NotAlone
      <4> QED BY <4>1, <4>2
    <3> QED BY <2>1, <3>1, <3>3 DEF x, Conserves
  <2>2. ASSUME NEW q, NEW plan, PlanGood(s, j, q, plan), Commit(Planned(s, j, q, plan))
        PROVE  \E x : Commit(x) /\ x \in States /\ Conserves(x)
    <3> DEFINE y == Planting(s, j, q, plan)
               x == Pump(y, j)
    <3>1. Sound(y, NoneLost) /\ Tidy(y, {}, {}, w)
      BY <1>1, <1>2, <2>2, NoneLostType, PlantSound, PlantTidy
    <3>2. Planned(s, j, q, plan) = x
      BY DEF Planned, Planting
    <3>3. IsPlanted(s, y, j, q, plan)
      BY <1>1, <2>2, PlantEffect DEF PlanGood
    <3> HIDE DEF y
    <3>4. y.jobStatus[j] # "none"
      BY <1>1, <3>3 DEF IsPlanted, States
    <3>5. Sound(x, NoneLost) /\ Conserves(x)
      BY <3>1, <3>4, NoneLostType, PumpSound, PumpConservesAll
    <3> HIDE DEF x
    <3> QED BY <2>2, <3>2, <3>5 DEF Sound
  <2> QED BY <1>2, <2>1, <2>2
<1>4. Coordinator' = x
  BY <1>3, CommitEffect
<1> QED BY <1>3, <1>4

LEMMA AcceptedConserves ==
  ASSUME IInv, LedgerTidy, Only(Announced), Conserves(Coordinator), NEW n \in Nodes, OnTaskAccepted(n)
  PROVE  Conserves(Coordinator')
<1> DEFINE s == Coordinator
           t == Head(outbox[n]).task
           x == [s EXCEPT !.status[t] = "running"]
<1>1. Commit(x) /\ Consume(n) /\ outbox[n] # <<>> /\ Head(outbox[n]).type = "accepted"
  BY DEF OnTaskAccepted, Hears
<1>2. t \in Tasks
  <2>1. /\ Head(outbox[n]) = outbox[n][1] /\ 1 \in DOMAIN outbox[n] /\ outbox[n][1].type = "accepted"
    BY ConsumeEffect DEF OnTaskAccepted
  <2> QED BY <2>1, ReportOf DEF IInv
<1>3. s \in States /\ Conserves(s)
  BY DEF IInv, CoordinatorSound, Sound
<1>4. Tracked(s, t)
  <2>1. NoneCancelled(s)
    BY WorldFields DEF LedgerTidy, Tidy, ExactOf, Only
  <2> QED BY <1>2, <2>1, TaskNames DEF Tracked, NoneCancelled
<1>5. s.status[t] \in InHand
  BY <1>1, <1>4, PopTidy
<1> HIDE DEF s, t
<1>6. x \in States /\ Marked(s, x, t, "running")
  BY <1>2, <1>3, StatusEffect DEF TaskStatuses
<1>7. Coordinator' = x
  BY <1>1, <1>6, CommitEffect
<1> HIDE DEF x
<1>8. /\ x.jobStatus = s.jobStatus /\ x.queues = s.queues /\ x.active = s.active /\ x.pumps = s.pumps
      /\ \A r \in Tasks \ {t} : x.status[r] = s.status[r]
  BY <1>2, <1>3, <1>6 DEF Marked, SameJobs, SameWork, SameLinks, States
<1>9. \A r \in Tasks : s.status[r] = "failed" => x.status[r] = "failed"
  BY <1>5, <1>8 DEF InHand
<1>10. ASSUME NEW j \in Jobs PROVE ConservesAt(x, j)
  BY <1>3, <1>8, <1>9, SameConserves DEF Conserves
<1> QED BY <1>7, <1>10 DEF Conserves

LEMMA RefusedConserves ==
  ASSUME IInv, LedgerTidy, NEW n \in Nodes, OnTaskRefusedOrFailed(n)
  PROVE  Conserves(Coordinator')
<1> DEFINE s == Coordinator
           t == Head(outbox[n]).task
           x == Requeue(s, t)
<1>1. Commit(x)
  BY DEF OnTaskRefusedOrFailed
<1>2. t \in Tasks /\ status[t] # "absent"
  <2>1. /\ Head(outbox[n]) = outbox[n][1] /\ 1 \in DOMAIN outbox[n]
        /\ outbox[n][1].type \in {"rejected", "failed"}
    BY ConsumeEffect DEF OnTaskRefusedOrFailed
  <2> QED BY <2>1, ReportOf DEF IInv
<1>3. Sound(s, NoneLost) /\ s \in States /\ s.status[t] # "absent"
  BY <1>2, CoordinatorFields DEF IInv, CoordinatorSound, Sound
<1> HIDE DEF s, t
<1>4. JobOf(t) \in Jobs /\ s.jobStatus[JobOf(t)] # "none"
  BY <1>2, <1>3, TaskNames DEF Sound, AbsentSound
<1>5. Sound(x, NoneLost) /\ Kept(s, x) /\ Excused(x, JobOf(t))
  BY <1>2, <1>3, NoneLostType, RequeueSound, RequeueExcuses
<1> HIDE DEF x
<1>6. ASSUME NEW j \in Jobs PROVE ConservesAt(x, j)
  <2>1. CASE j = JobOf(t)
    BY <1>5, <2>1 DEF ConservesAt
  <2>2. CASE j # JobOf(t)
    <3>1. x.jobStatus[JobOf(t)] # "none"
      BY <1>4, <1>5 DEF Kept
    <3> QED BY <1>4, <2>2, <3>1, NotAlone
  <2> QED BY <2>1, <2>2
<1>7. Coordinator' = x
  BY <1>1, <1>5, CommitEffect DEF Sound
<1> QED BY <1>6, <1>7 DEF Conserves

LEMMA CompletedConserves ==
  ASSUME NumNodes * MaxConcurrent <= StealLimit, IInv, LedgerTidy, NEW n \in Nodes, OnTaskCompleted(n)
  PROVE  Conserves(Coordinator')
<1> DEFINE s == Coordinator
           t == Head(outbox[n]).task
           w == Popped
           y == Occupy(s, n, -1)
           z == [y EXCEPT !.status[t] = "completed"]
           x == Pump(z, JobOf(t))
<1>1. Commit(x) /\ Consume(n) /\ outbox[n] # <<>> /\ Head(outbox[n]).type = "completed"
  BY DEF OnTaskCompleted, Hears, Answered
<1>2. t \in Tasks /\ status[t] # "absent"
  <2>1. /\ Head(outbox[n]) = outbox[n][1] /\ 1 \in DOMAIN outbox[n] /\ outbox[n][1].type = "completed"
    BY ConsumeEffect DEF OnTaskCompleted
  <2> QED BY <2>1, ReportOf DEF IInv
<1>3. /\ Tidy(s, {}, {}, w) /\ ~w.watch
      /\ Tracked(s, t) => s.status[t] \in InHand /\ s.holder[t] = n /\ n \in s.registered
      /\ Tracked(s, t) => s.status[t] \in InHand /\ \A l \in Nodes : ~Airborne(s, w, t, l)
  BY <1>1, PopTidy
<1>4. Sound(s, NoneLost) /\ s \in States /\ s.status[t] # "absent"
  BY <1>2, CoordinatorFields DEF IInv, CoordinatorSound, Sound
<1> HIDE DEF s, t, w
<1>5. Tidy(s, {t}, {}, w)
  BY <1>2, <1>3, <1>4, GrabTidy
<1>6. /\ y \in States /\ SameJobs(s, y) /\ SameWork(s, y) /\ SameNodes(s, y)
      /\ y.status = s.status /\ y.holder = s.holder /\ y.inbox = s.inbox /\ SameTries(s, y)
  BY <1>4, OccupyEffect
<1>7. y = Occupy(s, n, -1)
  OBVIOUS
<1> HIDE DEF y
<1>8. z \in States /\ Marked(y, z, t, "completed")
  BY <1>2, <1>6, StatusEffect DEF TaskStatuses
<1> HIDE DEF z
<1>9. Tidy(z, {}, {}, w)
  BY <1>2, <1>3, <1>4, <1>5, <1>6, <1>7, <1>8, AnswerTidy
<1>10. /\ SameJobs(s, z) /\ SameWork(s, z) /\ SameNodes(s, z) /\ z.inbox = s.inbox
       /\ \A r \in Tasks : z.holder[r] \in {None, s.holder[r]}
       /\ \A r \in Tasks : s.status[r] # "absent" <=> z.status[r] # "absent"
  BY <1>2, <1>4, <1>6, <1>8 DEF Marked, SameLinks, States, SameJobs, SameWork, SameNodes
<1>11. Sound(z, NoneLost)
  BY <1>4, <1>8, <1>10, NoneLostType, HolderSound
<1>12. JobOf(t) \in Jobs /\ z.jobStatus[JobOf(t)] # "none"
  BY <1>2, <1>4, <1>10, TaskNames DEF Sound, AbsentSound, SameJobs
<1>13. Sound(x, NoneLost) /\ Conserves(x)
  BY <1>9, <1>11, <1>12, NoneLostType, PumpSound, PumpConservesAll
<1> HIDE DEF x
<1>14. Coordinator' = x
  BY <1>1, <1>13, CommitEffect DEF Sound
<1> QED BY <1>13, <1>14

LEMMA LossConserves ==
  ASSUME NumNodes * MaxConcurrent <= StealLimit, IInv, LedgerTidy, WorkersTidy,
         NEW n \in Nodes, Crash(n) \/ CloseEvent(n)
  PROVE  Conserves(Coordinator')
<1> DEFINE s == Coordinator
           x == NodeLost(s, n)
           w == World
           v == [runs |-> runs', outbox |-> outbox', troubles |-> troubles', cancelled |-> World.cancelled,
                 lost |-> n, watch |-> FALSE, start |-> s, loose |-> {}]
<1>1. Commit(x) /\ troubles \subseteq troubles'
  <2>1. CASE Crash(n)
    BY <2>1 DEF Crash, Disturb, Strike
  <2>2. CASE CloseEvent(n)
    BY <2>2 DEF CloseEvent, troubleVars
  <2> QED BY <2>1, <2>2
<1>2. /\ outbox'[n] = <<>> /\ \A l \in Nodes \ {n} : outbox'[l] = outbox[l]
      /\ runs'[n] = {} /\ \A l \in Nodes \ {n} : runs'[l] = runs[l]
  <2>1. outbox \in [Nodes -> Seq(Reports)]
    BY DEF IInv, LinksSound
  <2>2. CASE Crash(n)
    BY <2>1, <2>2, RunsTyped DEF Crash
  <2>3. CASE CloseEvent(n)
    BY <2>3 DEF CloseEvent, workerVars, IInv, LinksSound, WorkersTidy
  <2> QED BY <2>2, <2>3
<1>3. Sound(s, NoneLost) /\ s \in States /\ Tidy(s, {}, {}, w)
  BY DEF IInv, CoordinatorSound, Sound, LedgerTidy
<1>4. /\ v.lost = n /\ DOMAIN v.outbox[n] = {} /\ v.runs[n] = {} /\ v.cancelled = w.cancelled
      /\ \A m \in Nodes \ {n} : v.outbox[m] = w.outbox[m] /\ v.runs[m] = w.runs[m]
      /\ w.troubles \subseteq v.troubles /\ ~v.watch
  <2>1. DOMAIN <<>> = {}
    OBVIOUS
  <2> QED BY <1>1, <1>2, <2>1, WorldFields
<1> HIDE DEF s, w, v
<1>5. Turned(Gone(s, n), v) /\ LossWatched(v)
  BY <1>4 DEF Turned, LossWatched
<1>6. Tidy(Gone(s, n), {}, Tasks, v)
  BY <1>3, <1>4, <1>5, GoneTidy
<1>7. Sound(x, NoneLost)
  BY <1>3, NodeLostSound
<1>8. \A j \in Jobs : ConservesAt(x, j)
  BY <1>3, <1>4, <1>5, <1>6, NodeLostConserves
<1> HIDE DEF x
<1>9. Coordinator' = x
  BY <1>1, <1>7, CommitEffect DEF Sound
<1> QED BY <1>8, <1>9 DEF Conserves

\* Sockets that open and close, and what the workers do, leave the queues and the
\* busy counts alone.
LEMMA StillBooks ==
  ASSUME IInv, NEW n \in Nodes,
         \/ Works(n) \/ (\E t \in Tasks : FailTask(n, t)) \/ Resume(n)
         \/ BeginClose(n) \/ Register(n)
  PROVE  UNCHANGED <<jobStatus, queues, active, pumps, status>>
<1>1. CASE Accept(n) \/ Refuse(n) \/ Abort(n)
  BY <1>1 DEF Accept, Refuse, Abort, OnlyInbox
<1>2. CASE \E t \in Tasks : Complete(n, t) \/ Unwind(n, t) \/ FailTask(n, t)
  BY <1>2 DEF Complete, Unwind, FailTask, OnlyWorker, coordinatorVars
<1>3. CASE Resume(n)
  BY <1>3 DEF Resume, OnlyWorker, coordinatorVars
<1>4. Coordinator \in States
  BY DEF IInv, CoordinatorSound, Sound
<1>5. CASE BeginClose(n)
  <2> DEFINE s == Coordinator
             y == [s EXCEPT !.inbox[n] = <<>>]
  <2>1. Commit(y)
    BY <1>5 DEF BeginClose
  <2>2. /\ y.jobStatus = s.jobStatus /\ y.status = s.status
        /\ y.queues = s.queues /\ y.pumps = s.pumps /\ y.active = s.active
    <3> HIDE DEF s
    <3> QED BY <1>4 DEF States
  <2> HIDE DEF y
  <2> QED BY <2>1, <2>2, CoordinatorFields DEF Commit
<1>6. CASE Register(n)
  <2> DEFINE s == Coordinator
             y == [s EXCEPT !.registered = @ \cup {n}, !.able = IF n \in paused THEN @ ELSE @ \cup {n}]
  <2>1. Commit(y)
    BY <1>6 DEF Register
  <2>2. /\ y.jobStatus = s.jobStatus /\ y.status = s.status
        /\ y.queues = s.queues /\ y.pumps = s.pumps /\ y.active = s.active
    <3> HIDE DEF s
    <3> QED BY <1>4 DEF States
  <2> HIDE DEF y
  <2> QED BY <2>1, <2>2, CoordinatorFields DEF Commit
<1> QED BY <1>1, <1>2, <1>3, <1>5, <1>6 DEF Works

\* Trouble that is not announced.
LEMMA Unannounced ==
  ASSUME TroublesSound,
         \/ SweepTimeouts \/ (\E j \in Jobs : Cancel(j))
         \/ \E n \in Nodes : SweepStale(n) \/ Pause(n) \/ Heartbeat(n) \/ Reregister(n) \/ ReplacedCloseEvent(n)
  PROVE  ~Only(Announced)'
<1>1. troubles' \cap {"timeout", "cancel", "lost", "pause", "heartbeat", "replaced"} # {}
  BY DEF SweepTimeouts, Cancel, SweepStale, Pause, Heartbeat, Reregister, ReplacedCloseEvent,
         TroublesSound, Disturb, Strike
<1> QED BY <1>1 DEF Only, Announced

LEMMA StepConserves ==
  ASSUME NumNodes * MaxConcurrent <= StealLimit, IInv, BInv, CInv, [Next]_vars
  PROVE  CInv'
<1> SUFFICES ASSUME Only(Announced)' PROVE Conserves(Coordinator')
  BY DEF CInv
<1>1. Only(Announced)
  BY TroublesGrow DEF Only
<1>2. LedgerTidy /\ WorkersTidy /\ Conserves(Coordinator)
  BY <1>1 DEF BInv, Calm, Only, CInv
<1>3. /\ ~SweepTimeouts /\ \A j \in Jobs : ~Cancel(j)
      /\ \A n \in Nodes : ~SweepStale(n) /\ ~Pause(n) /\ ~Heartbeat(n)
                          /\ ~Reregister(n) /\ ~ReplacedCloseEvent(n)
  BY Unannounced DEF IInv
<1>4. CASE RunMicrotask
  BY <1>2, <1>4, MicrotaskConserves
<1>5. ASSUME NEW j \in Jobs, Submit(j) PROVE Conserves(Coordinator')
  BY <1>2, <1>5, SubmitConserves
<1>6. ASSUME NEW n \in Nodes, Receives(n) PROVE Conserves(Coordinator')
  <2>1. CASE OnTaskAccepted(n) \/ OnTaskRefusedOrFailed(n) \/ OnTaskCompleted(n)
    BY <1>1, <1>2, <2>1, AcceptedConserves, RefusedConserves, CompletedConserves
  <2>2. CASE UpdateHeartbeat(n)
    <3>1. /\ Head(outbox[n]) = outbox[n][1] /\ 1 \in DOMAIN outbox[n] /\ outbox[n][1].type = "heartbeat"
      BY <2>2, ConsumeEffect DEF UpdateHeartbeat
    <3> QED BY <1>1, <1>2, <3>1 DEF WorkersTidy
  <2> QED BY <1>6, <2>1, <2>2 DEF Receives
<1>7. ASSUME NEW n \in Nodes, Crash(n) \/ CloseEvent(n) PROVE Conserves(Coordinator')
  BY <1>2, <1>7, LossConserves
<1>8. ASSUME NEW n \in Nodes, \/ Works(n) \/ (\E t \in Tasks : FailTask(n, t)) \/ Resume(n)
                              \/ BeginClose(n) \/ Register(n)
      PROVE  Conserves(Coordinator')
  BY <1>2, <1>8, StillBooks, QuietConserves
<1>9. CASE UNCHANGED vars
  BY <1>2, <1>9, QuietConserves DEF vars, coordinatorVars
<1>10. ASSUME NEW n \in Nodes,
              \/ Receives(n) \/ Works(n) \/ \E t \in Tasks : FailTask(n, t)
              \/ Crash(n) \/ SweepStale(n) \/ BeginClose(n) \/ CloseEvent(n) \/ Register(n)
              \/ Reregister(n) \/ ReplacedCloseEvent(n)
              \/ Pause(n) \/ Resume(n) \/ Heartbeat(n)
       PROVE  Conserves(Coordinator')
  BY <1>3, <1>6, <1>7, <1>8, <1>10
<1> QED BY <1>3, <1>4, <1>5, <1>9, <1>10 DEF Next

\* Between handlers pump has left no work that it could hand out (JobManager.pump,
\* jobs.ts): a node of the job with a free slot has an empty queue, and no other
\* queue has a task to spare for it, whatever workers refuse or however they crash.
\* It is said, as in WorkConserving, of the one job submitted while no task was
\* given up.  The second loop of pump stops after StealLimit turns (200 in the
\* code), so it is so in clusters with no more slots than that.
THEOREM NoNodeIdles ==
  ASSUME NumNodes * MaxConcurrent <= StealLimit
  PROVE  Spec => []WorkConserving
<1>1. Init => IInv /\ BInv /\ CInv
  <2>1. ASSUME Init PROVE Conserves(Coordinator)
    <3>1. \A j \in Jobs : Coordinator.jobStatus[j] = "none"
      BY <2>1, CoordinatorFields DEF Init
    <3> QED BY <3>1 DEF Conserves, ConservesAt, Alone, Live
  <2> QED BY <2>1, InitSound, InitTidy DEF BInv, CInv
<1>2. IInv /\ BInv /\ CInv /\ [Next]_vars => IInv' /\ BInv' /\ CInv'
  BY StepSound, StepTidy, StepConserves
<1>3. CInv => WorkConserving
  <2> SUFFICES ASSUME CInv, Quiet, Only(Announced), \A t \in Tasks : status[t] # "failed",
                      NEW j \in Jobs, jobStatus[j] \in Live, \A k \in Jobs \ {j} : jobStatus[k] = "none",
                      NEW i \in DOMAIN queues[j], Free(Coordinator, queues[j][i].node)
               PROVE  /\ queues[j][i].tasks = <<>>
                      /\ \A k \in DOMAIN queues[j] : Len(queues[j][k].tasks) <= 1
    BY DEF WorkConserving
  <2>1. Alone(Coordinator, j)
    BY CoordinatorFields DEF Alone
  <2>2. ~Excused(Coordinator, j)
    <3>1. DOMAIN <<>> = {}
      OBVIOUS
    <3> QED BY <3>1, CoordinatorFields DEF Excused, Pending, GaveUp, Quiet
  <2>3. Conserved(Coordinator, j)
    BY <2>1, <2>2 DEF CInv, Conserves, ConservesAt
  <2> QED BY <2>3, CoordinatorFields DEF Conserved
<1> QED BY <1>1, <1>2, <1>3, PTL DEF Spec
=============================================================================
