------------------------- MODULE JobManager_proofs -------------------------
(* Proofs about JobManager, for any nodes, jobs, limits and disturbances. *)
EXTENDS JobManager, SequenceTheorems, FiniteSetTheorems, WellFoundedInduction, TLAPS

-----------------------------------------------------------------------------
(* Parameters and tasks.                                                     *)

LEMMA Numbers ==
  /\ NumNodes \in Nat \ {0} /\ NumJobs \in Nat \ {0}
  /\ Nodes = 1..NumNodes /\ Jobs = 1..NumJobs /\ None = 0 /\ None \notin Nodes
  /\ Items \in [Jobs -> Nat \ {0}] /\ PipelineJobs \subseteq Jobs
  /\ \A j \in PipelineJobs : Items[j] = 1
  /\ MaxTaskAttempts \in Nat \ {0} /\ MaxConcurrent \in Nat \ {0}
  /\ StealLimit \in Nat \ {0} /\ MaxDisturbances \in Nat
<1>1. \A S : {MinMembers, MaxTaskAttempts, MaxConcurrent, StealLimit} \subseteq S
             => MaxTaskAttempts \in S /\ MaxConcurrent \in S /\ StealLimit \in S
  OBVIOUS
<1> QED BY <1>1, ParametersOK DEF Nodes, Jobs, None

LEMMA TaskNames ==
  /\ \A j \in Jobs : /\ TasksOf(j) = {<<j, i>> : i \in 1..(Items[j] + 1)}
                     /\ TasksOf(j) \subseteq Tasks /\ MapTasks(j) \subseteq TasksOf(j)
                     /\ ReduceTask(j) \in TasksOf(j) \ MapTasks(j)
                     /\ TasksOf(j) = MapTasks(j) \cup {ReduceTask(j)}
                     /\ \A t \in TasksOf(j) : JobOf(t) = j
  /\ \A t \in Tasks : JobOf(t) \in Jobs /\ t \in TasksOf(JobOf(t))
<1>1. ASSUME NEW j \in Jobs
      PROVE  /\ TasksOf(j) = {<<j, i>> : i \in 1..(Items[j] + 1)}
             /\ TasksOf(j) \subseteq Tasks /\ MapTasks(j) \subseteq TasksOf(j)
             /\ ReduceTask(j) \in TasksOf(j) \ MapTasks(j)
             /\ \A t \in TasksOf(j) : JobOf(t) = j
  <2>1. Items[j] \in Nat \ {0}
    BY Numbers
  <2>2. 1..(Items[j] + 1) = 1..Items[j] \cup {Items[j] + 1} /\ Items[j] + 1 \notin 1..Items[j]
    BY <2>1
  <2> QED BY <2>1, <2>2 DEF TasksOf, MapTasks, ReduceTask, Tasks, JobOf
<1>2. \A t \in Tasks : JobOf(t) \in Jobs /\ t \in TasksOf(JobOf(t))
  BY <1>1 DEF Tasks
<1> QED BY <1>1, <1>2 DEF TasksOf

\* The items of a job are numbered; a pipeline has one.
LEMMA TaskNumbers ==
  /\ \A j \in Jobs : Items[j] \in Nat \ {0} /\ \A k \in 1..(Items[j] + 1) : <<j, k>> \in TasksOf(j)
  /\ \A j \in PipelineJobs : /\ j \in Jobs /\ MapTasks(j) = {<<j, 1>>}
                             /\ TasksOf(j) = {<<j, 1>>, ReduceTask(j)}
<1>1. \A j \in Jobs : Items[j] \in Nat \ {0} /\ \A k \in 1..(Items[j] + 1) : <<j, k>> \in TasksOf(j)
  BY TaskNames, Numbers, SMTT(40)
<1>2. ASSUME NEW j \in PipelineJobs
      PROVE  /\ j \in Jobs /\ MapTasks(j) = {<<j, 1>>}
             /\ TasksOf(j) = {<<j, 1>>, ReduceTask(j)}
  <2>1. j \in Jobs /\ 1..Items[j] = {1}
    BY Numbers
  <2> QED BY <2>1 DEF MapTasks, TasksOf
<1> QED BY <1>1, <1>2

-----------------------------------------------------------------------------
(* Coordinator states.                                                       *)

JobStatuses == {"none", "running", "reducing", "completed", "failed", "cancelled"}
TaskStatuses == {"absent", "planned", "assigned", "running", "completed",
                 "failed", "reassigned", "cancelled"}
Entries == [node : Nodes, tasks : Seq(Tasks)]
States ==
  [jobStatus : [Jobs -> JobStatuses], completedCount : Nat,
   status : [Tasks -> TaskStatuses], holder : [Tasks -> Nodes \cup {None}],
   attempts : [Tasks -> Nat], tried : [Tasks -> SUBSET Nodes],
   queues : [Jobs -> Seq(Entries)], members : [Jobs -> SUBSET Nodes],
   registered : SUBSET Nodes, active : [Nodes -> Nat], able : SUBSET Nodes,
   pumps : Seq(Jobs), inbox : [Nodes -> Seq(Messages)]]

\* Parts of the state that a helper leaves alone.
SameJobs(s, x) == x.jobStatus = s.jobStatus /\ x.completedCount = s.completedCount
SameTries(s, x) == x.attempts = s.attempts /\ x.tried = s.tried
SameWork(s, x) == x.queues = s.queues /\ x.members = s.members
SameNodes(s, x) == x.registered = s.registered /\ x.able = s.able

LEMMA OccupyEffect ==
  ASSUME NEW s \in States, NEW n \in Nodes \cup {None}, NEW d \in Int
  PROVE  LET x == Occupy(s, n, d) IN
         /\ x \in States /\ SameJobs(s, x) /\ SameTries(s, x) /\ SameWork(s, x) /\ SameNodes(s, x)
         /\ x.status = s.status /\ x.holder = s.holder /\ x.pumps = s.pumps /\ x.inbox = s.inbox
         /\ \A m \in Nodes : x.active[m] =
              IF m = n /\ n \in s.registered
                THEN IF s.active[m] + d < 0 THEN 0 ELSE s.active[m] + d ELSE s.active[m]
<1> USE DEF SameJobs, SameTries, SameWork, SameNodes
<1>1. CASE n \in s.registered
  <2> DEFINE a == [s.active EXCEPT ![n] = IF @ + d < 0 THEN 0 ELSE @ + d]
             x == [s EXCEPT !.active = a]
  <2>1. a \in [Nodes -> Nat]
    BY <1>1 DEF States
  <2>2. x \in States
    BY <2>1 DEF States
  <2>3. Occupy(s, n, d) = x
    BY <1>1 DEF Occupy
  <2>4. /\ SameJobs(s, x) /\ SameTries(s, x) /\ SameWork(s, x) /\ SameNodes(s, x)
        /\ x.status = s.status /\ x.holder = s.holder /\ x.pumps = s.pumps
        /\ x.inbox = s.inbox /\ x.active = a
    BY DEF States
  <2>5. \A m \in Nodes : a[m] =
              IF m = n /\ n \in s.registered
                THEN IF s.active[m] + d < 0 THEN 0 ELSE s.active[m] + d ELSE s.active[m]
    BY <1>1 DEF States
  <2> QED BY <2>2, <2>3, <2>4, <2>5
<1>2. CASE n \notin s.registered
  BY <1>2 DEF Occupy
<1> QED BY <1>1, <1>2

LEMMA SendEffect ==
  ASSUME NEW s \in States, NEW n \in Nodes \cup {None}, NEW m \in Messages
  PROVE  LET x == Send(s, n, m) IN
         /\ x \in States /\ SameJobs(s, x) /\ SameTries(s, x) /\ SameWork(s, x) /\ SameNodes(s, x)
         /\ x.status = s.status /\ x.holder = s.holder /\ x.pumps = s.pumps /\ x.active = s.active
         /\ x.inbox =
              IF n \in s.registered \cap open THEN [s.inbox EXCEPT ![n] = Append(@, m)] ELSE s.inbox
<1> USE DEF SameJobs, SameTries, SameWork, SameNodes
<1>1. CASE n \in s.registered \cap open
  <2> DEFINE a == [s.inbox EXCEPT ![n] = Append(@, m)]
             x == [s EXCEPT !.inbox = a]
  <2>1. a \in [Nodes -> Seq(Messages)]
    BY <1>1 DEF States
  <2>2. x \in States
    BY <2>1 DEF States
  <2>3. Send(s, n, m) = x
    BY <1>1 DEF Send
  <2>4. /\ SameJobs(s, x) /\ SameTries(s, x) /\ SameWork(s, x) /\ SameNodes(s, x)
        /\ x.status = s.status /\ x.holder = s.holder /\ x.pumps = s.pumps
        /\ x.inbox = a /\ x.active = s.active
    BY DEF States
  <2> QED BY <2>2, <2>3, <2>4, <1>1
<1>2. CASE n \notin s.registered \cap open
  BY <1>2 DEF Send
<1> QED BY <1>1, <1>2

LEMMA DeferredEffect ==
  ASSUME NEW s \in States, NEW j \in Jobs
  PROVE  LET x == Deferred(s, j) IN
         /\ x \in States /\ SameJobs(s, x) /\ SameTries(s, x) /\ SameWork(s, x) /\ SameNodes(s, x)
         /\ x.status = s.status /\ x.holder = s.holder /\ x.active = s.active /\ x.inbox = s.inbox
<1> USE DEF SameJobs, SameTries, SameWork, SameNodes
<1> DEFINE a == Append(s.pumps, j)
           x == [s EXCEPT !.pumps = a]
<1>1. a \in Seq(Jobs)
  BY DEF States
<1>2. x \in States
  BY <1>1 DEF States
<1>3. /\ SameJobs(s, x) /\ SameTries(s, x) /\ SameWork(s, x) /\ SameNodes(s, x)
      /\ x.status = s.status /\ x.holder = s.holder /\ x.active = s.active /\ x.inbox = s.inbox
  BY DEF States
<1>4. Deferred(s, j) \in {s, x}
  BY DEF Deferred
<1> HIDE DEF x
<1> QED BY <1>2, <1>3, <1>4

\* dispatch marks the task and its node; requeue marks it and queues it.
Assigned(s, x, t, n) ==
  /\ SameJobs(s, x) /\ SameWork(s, x) /\ SameNodes(s, x) /\ x.pumps = s.pumps
  /\ x.status = [s.status EXCEPT ![t] = "assigned"]
  /\ x.holder = [s.holder EXCEPT ![t] = n]
  /\ x.attempts = [s.attempts EXCEPT ![t] = @ + 1]
  /\ x.inbox = IF n \in s.registered \cap open
                 THEN [s.inbox EXCEPT ![n] = Append(@, About("assign", t))] ELSE s.inbox
  /\ \A m \in Nodes : x.active[m] =
       IF m = n /\ n \in s.registered THEN s.active[m] + 1 ELSE s.active[m]
LEMMA AssignEffect ==
  ASSUME NEW s \in States, NEW t \in Tasks, NEW n \in Nodes
  PROVE  Assign(s, t, n) \in States /\ Assigned(s, Assign(s, t, n), t, n)
<1> USE DEF SameJobs, SameTries, SameWork, SameNodes
<1> DEFINE m == [type |-> "assign", task |-> t]
           s1 == Send(s, n, m)
           s2 == Occupy(s1, n, 1)
           st == [s2.status EXCEPT ![t] = "assigned"]
           ho == [s2.holder EXCEPT ![t] = n]
           at == [s2.attempts EXCEPT ![t] = @ + 1]
           tr == [s2.tried EXCEPT ![t] = @ \cup {n}]
           x == [s2 EXCEPT !.status = st, !.holder = ho, !.attempts = at, !.tried = tr]
<1>1. m \in Messages /\ m = About("assign", t)
  BY DEF Messages, About
<1>2. /\ s1 \in States /\ SameJobs(s, s1) /\ SameTries(s, s1) /\ SameWork(s, s1) /\ SameNodes(s, s1)
      /\ s1.status = s.status /\ s1.holder = s.holder /\ s1.pumps = s.pumps /\ s1.active = s.active
      /\ s1.inbox = IF n \in s.registered \cap open THEN [s.inbox EXCEPT ![n] = Append(@, m)] ELSE s.inbox
  BY <1>1, SendEffect
<1> HIDE DEF s1, m
<1>3. /\ s2 \in States /\ SameJobs(s1, s2) /\ SameTries(s1, s2) /\ SameWork(s1, s2) /\ SameNodes(s1, s2)
      /\ s2.status = s1.status /\ s2.holder = s1.holder /\ s2.pumps = s1.pumps /\ s2.inbox = s1.inbox
      /\ \A k \in Nodes : s2.active[k] =
              IF k = n /\ n \in s1.registered
                THEN IF s1.active[k] + 1 < 0 THEN 0 ELSE s1.active[k] + 1 ELSE s1.active[k]
  BY <1>2, OccupyEffect
<1> HIDE DEF s2
<1>4. /\ st \in [Tasks -> TaskStatuses] /\ ho \in [Tasks -> Nodes \cup {None}]
      /\ at \in [Tasks -> Nat] /\ tr \in [Tasks -> SUBSET Nodes]
  BY <1>3, SMTT(40) DEF States, TaskStatuses
<1>5. x \in States
  BY <1>3, <1>4 DEF States
<1>6. /\ SameJobs(s2, x) /\ SameWork(s2, x) /\ SameNodes(s2, x) /\ x.pumps = s2.pumps
      /\ x.status = st /\ x.holder = ho /\ x.attempts = at /\ x.inbox = s2.inbox
      /\ x.active = s2.active
  BY <1>3 DEF States
<1>7. Assign(s, t, n) = x
  BY DEF Assign, s1, s2, m
<1>8. \A k \in Nodes : s2.active[k] = IF k = n /\ n \in s.registered THEN s.active[k] + 1 ELSE s.active[k]
  BY <1>2, <1>3, SMTT(40) DEF States
<1> HIDE DEF x
<1> QED BY <1>1, <1>2, <1>3, <1>5, <1>6, <1>7, <1>8 DEF Assigned

-----------------------------------------------------------------------------
(* Queues.                                                                   *)

Unique(q) == \A i, k \in DOMAIN q : q[i].node = q[k].node => i = k

LEMMA LookupEffect ==
  ASSUME NEW q \in Seq(Entries), NEW n
  PROVE  /\ Lookup(q, n) \in Seq(Tasks)
         /\ HasKey(q, n) => /\ KeyAt(q, n) \in DOMAIN q /\ q[KeyAt(q, n)].node = n
                            /\ Lookup(q, n) = q[KeyAt(q, n)].tasks
         /\ ~HasKey(q, n) => Lookup(q, n) = <<>>
<1>1. CASE HasKey(q, n)
  <2>1. KeyAt(q, n) \in DOMAIN q /\ q[KeyAt(q, n)].node = n
    BY <1>1 DEF HasKey, KeyAt
  <2>2. q[KeyAt(q, n)] \in Entries
    BY <2>1
  <2> QED BY <1>1, <2>1, <2>2 DEF Lookup, Entries
<1>2. CASE ~HasKey(q, n)
  BY <1>2 DEF Lookup
<1> QED BY <1>1, <1>2

\* Map.set changes the entry of its key, or adds one at the end.
SetAt(q, x, p, n, ts) ==
  /\ p \in DOMAIN x /\ DOMAIN x = DOMAIN q \cup {p}
  /\ x[p] = [node |-> n, tasks |-> ts]
  /\ \A i \in DOMAIN q \ {p} : x[i] = q[i] /\ q[i].node # n
  /\ p \in DOMAIN q => q[p].node = n /\ Lookup(q, n) = q[p].tasks
  /\ p \notin DOMAIN q => p = Len(q) + 1 /\ Lookup(q, n) = <<>>
LEMMA PutEffect ==
  ASSUME NEW q \in Seq(Entries), Unique(q), NEW n \in Nodes, NEW ts \in Seq(Tasks)
  PROVE  /\ Put(q, n, ts) \in Seq(Entries) /\ Unique(Put(q, n, ts))
         /\ \E p : SetAt(q, Put(q, n, ts), p, n, ts)
<1> DEFINE entry == [node |-> n, tasks |-> ts]
           x == Put(q, n, ts)
<1>1. entry \in Entries
  BY DEF Entries
<1>2. CASE HasKey(q, n)
  <2> DEFINE p == KeyAt(q, n)
  <2>1. p \in DOMAIN q /\ q[p].node = n /\ Lookup(q, n) = q[p].tasks
    BY <1>2, LookupEffect
  <2>2. x = [i \in DOMAIN q |-> IF q[i].node = n THEN entry ELSE q[i]]
    BY <1>2 DEF Put
  <2> HIDE DEF p, x, entry
  <2>3. DOMAIN q = 1..Len(q) /\ \A i \in DOMAIN q : q[i] \in Entries
    OBVIOUS
  <2>4. x \in Seq(Entries) /\ DOMAIN x = DOMAIN q
    BY <1>1, <2>2, <2>3
  <2>5. x[p] = entry /\ \A i \in DOMAIN q \ {p} : x[i] = q[i] /\ q[i].node # n
    BY <2>1, <2>2 DEF Unique
  <2>6. Unique(x)
    BY <2>1, <2>4, <2>5 DEF Unique, entry
  <2>7. DOMAIN x = DOMAIN q \cup {p}
    BY <2>1, <2>4
  <2>8. SetAt(q, x, p, n, ts)
    BY <2>1, <2>4, <2>5, <2>7 DEF SetAt, entry
  <2> QED BY <2>4, <2>6, <2>8 DEF x
<1>3. CASE ~HasKey(q, n)
  <2> DEFINE p == Len(q) + 1
  <2>1. x = Append(q, entry)
    BY <1>3 DEF Put
  <2> HIDE DEF x, entry
  <2>2. /\ x \in Seq(Entries) /\ DOMAIN x = DOMAIN q \cup {p} /\ p \notin DOMAIN q
        /\ x[p] = entry /\ \A i \in DOMAIN q : x[i] = q[i]
    BY <1>1, <2>1
  <2>3. \A i \in DOMAIN q : q[i].node # n
    BY <1>3 DEF HasKey
  <2>4. Unique(x)
    <3> SUFFICES ASSUME NEW i \in DOMAIN x, NEW k \in DOMAIN x, x[i].node = x[k].node
                 PROVE  i = k
      BY DEF Unique
    <3> QED BY <2>2, <2>3 DEF Unique, entry
  <2>5. Lookup(q, n) = <<>>
    BY <1>3, LookupEffect
  <2>6. SetAt(q, x, p, n, ts)
    BY <2>2, <2>3, <2>5 DEF SetAt, entry
  <2> QED BY <2>2, <2>4, <2>6 DEF x
<1> QED BY <1>2, <1>3

LEMMA PutOnEmpty ==
  ASSUME NEW n, NEW ts
  PROVE  Put(<<>>, n, ts) = <<[node |-> n, tasks |-> ts]>> /\ Lookup(<<>>, n) = <<>>
<1>1. DOMAIN <<>> = {}
  OBVIOUS
<1> QED BY <1>1 DEF Put, HasKey, Lookup

\* Map.delete closes the gap.
LEMMA DeleteEffect ==
  ASSUME NEW q \in Seq(Entries), Unique(q), NEW n \in Nodes
  PROVE  LET x == Delete(q, n) IN
         /\ x \in Seq(Entries) /\ Unique(x) /\ ~HasKey(x, n)
         /\ ~HasKey(q, n) => x = q
         /\ HasKey(q, n) =>
              /\ Len(x) = Len(q) - 1
              /\ \A i \in DOMAIN x : x[i] = IF i < KeyAt(q, n) THEN q[i] ELSE q[i + 1]
<1>1. CASE HasKey(q, n)
  <2> DEFINE p == KeyAt(q, n)
             x == SubSeq(q, 1, p - 1) \o SubSeq(q, p + 1, Len(q))
  <2>1. p \in 1..Len(q) /\ q[p].node = n
    BY <1>1, LookupEffect
  <2>2. Delete(q, n) = x
    BY <1>1 DEF Delete, RemoveAt
  <2> HIDE DEF p
  <2>3. /\ SubSeq(q, 1, p - 1) \in Seq(Entries) /\ Len(SubSeq(q, 1, p - 1)) = p - 1
        /\ \A i \in 1..(p - 1) : SubSeq(q, 1, p - 1)[i] = q[i]
    BY <2>1
  <2>4. /\ SubSeq(q, p + 1, Len(q)) \in Seq(Entries)
        /\ Len(SubSeq(q, p + 1, Len(q))) = Len(q) - p
        /\ \A i \in 1..(Len(q) - p) : SubSeq(q, p + 1, Len(q))[i] = q[p + i]
    BY <2>1
  <2> DEFINE a == SubSeq(q, 1, p - 1)
             b == SubSeq(q, p + 1, Len(q))
  <2> HIDE DEF a, b
  <2>5. x \in Seq(Entries) /\ Len(x) = Len(q) - 1
    <3>1. x = a \o b
      BY DEF a, b
    <3>2. a \in Seq(Entries) /\ b \in Seq(Entries) /\ Len(a) = p - 1 /\ Len(b) = Len(q) - p
      BY <2>3, <2>4 DEF a, b
    <3> HIDE DEF x
    <3> QED BY <2>1, <3>1, <3>2
  <2>6. \A i \in 1..(Len(q) - 1) : x[i] = IF i < p THEN q[i] ELSE q[i + 1]
    <3>1. x = a \o b
      BY DEF a, b
    <3>2. a \in Seq(Entries) /\ b \in Seq(Entries) /\ Len(a) = p - 1 /\ Len(b) = Len(q) - p
      BY <2>3, <2>4 DEF a, b
    <3>3. \A i \in 1..(p - 1) : a[i] = q[i]
      BY <2>3 DEF a
    <3>4. \A i \in 1..(Len(q) - p) : b[i] = q[p + i]
      BY <2>4 DEF b
    <3> HIDE DEF x
    <3>5. \A i \in 1..(Len(q) - 1) : x[i] = IF i <= Len(a) THEN a[i] ELSE b[i - Len(a)]
      BY <2>1, <3>1, <3>2
    <3> QED BY <2>1, <3>2, <3>3, <3>4, <3>5
  <2> HIDE DEF x
  <2>7. DOMAIN x = 1..(Len(q) - 1) /\ DOMAIN q = 1..Len(q)
    BY <2>5
  <2>8. Unique(x) /\ ~HasKey(x, n)
    <3>1. \A i \in DOMAIN x : \E k \in DOMAIN q \ {p} : /\ k = (IF i < p THEN i ELSE i + 1) /\ x[i] = q[k]
      BY <2>1, <2>6, <2>7
    <3> QED BY <3>1, <2>1, <2>7, SMTT(40) DEF Unique, HasKey
  <2> QED BY <1>1, <2>2, <2>5, <2>6, <2>7, <2>8 DEF p
<1>2. CASE ~HasKey(q, n)
  BY <1>2 DEF Delete
<1> QED BY <1>1, <1>2

-----------------------------------------------------------------------------
(* Choices: the first of some numbers, the nodes of a plan.                  *)

LEMMA NatMin ==
  ASSUME NEW T \in SUBSET Nat, T # {}
  PROVE  \E m \in T : \A k \in T : m <= k
<1>1. PICK x \in T : \A y \in T : ~ (<<y, x>> \in OpToRel(<, Nat))
  BY WFMin, NatLessThanWellFounded
<1>2. \A y \in T : ~ (y < x)
  BY <1>1 DEF OpToRel
<1> QED BY <1>2

\* Induction over the turns of a loop, for a set of turns.
LEMMA LoopInduction ==
  ASSUME NEW m \in Nat, NEW I, 0 \in I, \A k \in 1..m : k - 1 \in I => k \in I
  PROVE  m \in I
<1> DEFINE T == {k \in 0..m : k \notin I}
<1> SUFFICES ASSUME T # {} PROVE FALSE
  OBVIOUS
<1>0. T \in SUBSET Nat
  OBVIOUS
<1> HIDE DEF T
<1>1. PICK k \in T : \A i \in T : k <= i
  BY <1>0, NatMin
<1> USE DEF T
<1>2. k \in 1..m /\ k \notin I
  <2>1. k \in 0..m /\ k \notin I
    BY <1>1
  <2> QED BY <2>1
<1>3. k - 1 \in 0..m /\ k - 1 \notin T
  BY <1>1, <1>2
<1>4. k - 1 \in I
  BY <1>3
<1> QED BY <1>2, <1>4

LEMMA FirstIs ==
  ASSUME NEW S \in SUBSET Nat, S # {}
  PROVE  First(S) \in S /\ \A m \in S : First(S) <= m
  BY NatMin DEF First

LEMMA FirstNode ==
  ASSUME NEW S \in SUBSET Nodes
  PROVE  /\ S # {} => First(S) \in S
         /\ First(S) = None <=> S = {}
<1>1. S \subseteq Nat /\ None \notin S
  BY Numbers
<1> QED BY <1>1, FirstIs DEF First

LEMMA Views ==
  ASSUME NEW s \in States
  PROVE  /\ Capable(s) \subseteq Nodes /\ Capable(s) \subseteq s.registered
         /\ EligibleNodes(s) \subseteq Capable(s)
         /\ PlanPipeline(s) \subseteq Capable(s)
  BY DEF Capable, EligibleNodes, PlanPipeline, States

-----------------------------------------------------------------------------
(* What the helpers of the handlers do.                                      *)

SameTasks(s, x) == x.status = s.status /\ x.holder = s.holder
SameLinks(s, x) == x.pumps = s.pumps /\ x.inbox = s.inbox /\ x.active = s.active

LEMMA PutType ==
  ASSUME NEW q \in Seq(Entries), NEW n \in Nodes, NEW ts \in Seq(Tasks)
  PROVE  Put(q, n, ts) \in Seq(Entries)
<1> DEFINE entry == [node |-> n, tasks |-> ts]
<1>1. entry \in Entries
  BY DEF Entries
<1> HIDE DEF entry
<1>2. /\ DOMAIN q = 1..Len(q) /\ Len(q) \in Nat
      /\ \A i \in DOMAIN q : (IF q[i].node = n THEN entry ELSE q[i]) \in Entries
  BY <1>1
<1>3. [i \in DOMAIN q |-> IF q[i].node = n THEN entry ELSE q[i]] \in Seq(Entries)
  BY <1>2
<1>4. Append(q, entry) \in Seq(Entries)
  BY <1>1
<1> QED BY <1>3, <1>4 DEF Put, entry

\* The queue of the job of t with t at the head of n's list.
Headed(q, t, n) == Put(q, n, <<t>> \o Lookup(q, n))

Reassigned(s, x, t, n) ==
  /\ SameJobs(s, x) /\ SameTries(s, x) /\ SameNodes(s, x)
  /\ x.members = s.members /\ x.holder = s.holder /\ x.active = s.active /\ x.inbox = s.inbox
  /\ x.status = [s.status EXCEPT ![t] = "reassigned"]
  /\ x.queues = [s.queues EXCEPT ![JobOf(t)] = Headed(s.queues[JobOf(t)], t, n)]
LEMMA ReassignEffect ==
  ASSUME NEW s \in States, NEW t \in Tasks, NEW n \in Nodes
  PROVE  Reassign(s, t, n) \in States /\ Reassigned(s, Reassign(s, t, n), t, n)
<1> USE DEF SameJobs, SameTries, SameNodes, SameWork
<1> DEFINE j == JobOf(t)
           st == [s.status EXCEPT ![t] = "reassigned"]
           qs == [s.queues EXCEPT ![j] = Headed(s.queues[j], t, n)]
           y == [s EXCEPT !.status = st, !.queues = qs]
<1>1. j \in Jobs
  BY TaskNames
<1>2. s.queues \in [Jobs -> Seq(Entries)] /\ s.queues[j] \in Seq(Entries)
  BY <1>1 DEF States
<1>3. Headed(s.queues[j], t, n) \in Seq(Entries)
  <2>1. <<t>> \o Lookup(s.queues[j], n) \in Seq(Tasks)
    BY <1>2, LookupEffect
  <2> QED BY <1>2, <2>1, PutType DEF Headed
<1>4. st \in [Tasks -> TaskStatuses] /\ qs \in [Jobs -> Seq(Entries)]
  BY <1>1, <1>2, <1>3 DEF States, TaskStatuses
<1>5. Reassign(s, t, n) = Deferred(y, j)
  BY <1>2 DEF Reassign, Headed
<1> HIDE DEF j, st, qs
<1>6. y \in States
  BY <1>4 DEF States
<1>7. /\ SameJobs(s, y) /\ SameTries(s, y) /\ SameNodes(s, y) /\ y.members = s.members
      /\ y.holder = s.holder /\ y.active = s.active /\ y.inbox = s.inbox
      /\ y.status = st /\ y.queues = qs
  BY <1>4 DEF States
<1> HIDE DEF y
<1>8. LET x == Deferred(y, j) IN
         /\ x \in States /\ SameJobs(y, x) /\ SameTries(y, x) /\ SameWork(y, x) /\ SameNodes(y, x)
         /\ x.status = y.status /\ x.holder = y.holder /\ x.active = y.active /\ x.inbox = y.inbox
  BY <1>1, <1>6, DeferredEffect
<1> HIDE DEF SameJobs, SameTries, SameNodes, SameWork
<1> DEFINE x == Deferred(y, j)
<1> HIDE DEF x
<1>9. /\ x \in States /\ SameJobs(y, x) /\ SameTries(y, x) /\ SameWork(y, x) /\ SameNodes(y, x)
      /\ x.status = y.status /\ x.holder = y.holder /\ x.active = y.active /\ x.inbox = y.inbox
  BY <1>8 DEF x
<1>10. Reassigned(s, x, t, n)
  BY <1>7, <1>9 DEF st, qs, j, Reassigned, SameJobs, SameTries, SameNodes, SameWork
<1> QED BY <1>5, <1>9, <1>10 DEF x

JobMarked(s, x, j, v) ==
  /\ SameTasks(s, x) /\ SameTries(s, x) /\ SameWork(s, x) /\ SameNodes(s, x)
  /\ SameLinks(s, x) /\ x.completedCount = s.completedCount
  /\ x.jobStatus = [s.jobStatus EXCEPT ![j] = v]
LEMMA JobStatusEffect ==
  ASSUME NEW s \in States, NEW j \in Jobs, NEW v \in JobStatuses
  PROVE  [s EXCEPT !.jobStatus[j] = v] \in States /\ JobMarked(s, [s EXCEPT !.jobStatus[j] = v], j, v)
<1> USE DEF SameTasks, SameTries, SameWork, SameNodes, SameLinks
<1> DEFINE js == [s.jobStatus EXCEPT ![j] = v]
           x == [s EXCEPT !.jobStatus = js]
<1>1. js \in [Jobs -> JobStatuses]
  BY DEF States
<1> HIDE DEF js
<1>2. x \in States
  BY <1>1 DEF States
<1>3. /\ SameTasks(s, x) /\ SameTries(s, x) /\ SameWork(s, x) /\ SameNodes(s, x)
      /\ SameLinks(s, x) /\ x.completedCount = s.completedCount /\ x.jobStatus = js
  BY DEF States
<1> QED BY <1>2, <1>3 DEF js, JobMarked

Done(s, j) == [s EXCEPT !.jobStatus[j] = "completed", !.completedCount = @ + 1]
JobDone(s, x, j) ==
  /\ SameTasks(s, x) /\ SameTries(s, x) /\ SameWork(s, x) /\ SameNodes(s, x)
  /\ SameLinks(s, x) /\ x.completedCount = s.completedCount + 1
  /\ x.jobStatus = [s.jobStatus EXCEPT ![j] = "completed"]
LEMMA DoneEffect ==
  ASSUME NEW s \in States, NEW j \in Jobs
  PROVE  Done(s, j) \in States /\ JobDone(s, Done(s, j), j)
<1> USE DEF SameTasks, SameTries, SameWork, SameNodes, SameLinks
<1> DEFINE js == [s.jobStatus EXCEPT ![j] = "completed"]
           cc == s.completedCount + 1
           x == [s EXCEPT !.jobStatus = js, !.completedCount = cc]
<1>1. js \in [Jobs -> JobStatuses] /\ cc \in Nat
  BY DEF States, JobStatuses
<1>2. Done(s, j) = x
  BY DEF Done, States
<1> HIDE DEF js, cc
<1>3. x \in States
  BY <1>1 DEF States
<1>4. /\ SameTasks(s, x) /\ SameTries(s, x) /\ SameWork(s, x) /\ SameNodes(s, x)
      /\ SameLinks(s, x) /\ x.completedCount = cc /\ x.jobStatus = js
  BY DEF States
<1> HIDE DEF x
<1> QED BY <1>2, <1>3, <1>4 DEF js, cc, JobDone

Marked(s, x, t, v) ==
  /\ SameJobs(s, x) /\ SameTries(s, x) /\ SameWork(s, x) /\ SameNodes(s, x)
  /\ SameLinks(s, x) /\ x.holder = s.holder
  /\ x.status = [s.status EXCEPT ![t] = v]
LEMMA StatusEffect ==
  ASSUME NEW s \in States, NEW t \in Tasks, NEW v \in TaskStatuses
  PROVE  [s EXCEPT !.status[t] = v] \in States /\ Marked(s, [s EXCEPT !.status[t] = v], t, v)
<1> USE DEF SameJobs, SameTries, SameWork, SameNodes, SameLinks
<1> DEFINE st == [s.status EXCEPT ![t] = v]
           x == [s EXCEPT !.status = st]
<1>1. st \in [Tasks -> TaskStatuses]
  BY DEF States
<1> HIDE DEF st
<1>2. x \in States
  BY <1>1 DEF States
<1>3. /\ SameJobs(s, x) /\ SameTries(s, x) /\ SameWork(s, x) /\ SameNodes(s, x)
      /\ SameLinks(s, x) /\ x.holder = s.holder /\ x.status = st
  BY DEF States
<1> QED BY <1>2, <1>3 DEF st, Marked

\* requeue first takes the task from its holder.
Freed(s, t) == [Occupy(s, s.holder[t], -1) EXCEPT !.holder[t] = None]
IsFreed(s, x, t) ==
  /\ SameJobs(s, x) /\ SameTries(s, x) /\ SameWork(s, x) /\ SameNodes(s, x)
  /\ x.status = s.status /\ x.pumps = s.pumps /\ x.inbox = s.inbox
  /\ x.holder = [s.holder EXCEPT ![t] = None]
  /\ \A m \in Nodes : x.active[m] =
       IF m = s.holder[t] /\ m \in s.registered
         THEN IF s.active[m] - 1 < 0 THEN 0 ELSE s.active[m] - 1 ELSE s.active[m]
LEMMA FreedEffect ==
  ASSUME NEW s \in States, NEW t \in Tasks
  PROVE  Freed(s, t) \in States /\ IsFreed(s, Freed(s, t), t)
<1> USE DEF SameJobs, SameTries, SameWork, SameNodes
<1> DEFINE n == s.holder[t]
           y == Occupy(s, n, -1)
           ho == [s.holder EXCEPT ![t] = None]
           x == [y EXCEPT !.holder = ho]
<1>1. n \in Nodes \cup {None} /\ ho \in [Tasks -> Nodes \cup {None}]
  BY DEF States
<1> HIDE DEF n, ho
<1>2. /\ y \in States /\ SameJobs(s, y) /\ SameTries(s, y) /\ SameWork(s, y) /\ SameNodes(s, y)
      /\ y.status = s.status /\ y.holder = s.holder /\ y.pumps = s.pumps /\ y.inbox = s.inbox
      /\ \A m \in Nodes : y.active[m] =
              IF m = n /\ n \in s.registered
                THEN IF s.active[m] + (-1) < 0 THEN 0 ELSE s.active[m] + (-1) ELSE s.active[m]
  BY <1>1, OccupyEffect
<1>3. \A m \in Nodes : y.active[m] =
              IF m = n /\ m \in s.registered
                THEN IF s.active[m] - 1 < 0 THEN 0 ELSE s.active[m] - 1 ELSE s.active[m]
  BY <1>2 DEF States
<1> HIDE DEF y
<1>4. Freed(s, t) = x
  BY <1>2 DEF Freed, y, ho, n
<1>5. x \in States
  BY <1>1, <1>2 DEF States
<1>6. /\ SameJobs(y, x) /\ SameTries(y, x) /\ SameWork(y, x) /\ SameNodes(y, x)
      /\ x.status = y.status /\ x.pumps = y.pumps /\ x.inbox = y.inbox
      /\ x.holder = ho /\ x.active = y.active
  BY <1>2 DEF States
<1> HIDE DEF x
<1> QED BY <1>2, <1>3, <1>4, <1>5, <1>6 DEF ho, n, IsFreed

\* maybeFinish, when it starts the reduce step.
Reducing(s, j) == [s EXCEPT !.jobStatus[j] = "reducing", !.status[ReduceTask(j)] = "planned"]
IsReducing(s, x, j) ==
  /\ SameTries(s, x) /\ SameWork(s, x) /\ SameNodes(s, x) /\ SameLinks(s, x)
  /\ x.completedCount = s.completedCount /\ x.holder = s.holder
  /\ x.jobStatus = [s.jobStatus EXCEPT ![j] = "reducing"]
  /\ x.status = [s.status EXCEPT ![ReduceTask(j)] = "planned"]
LEMMA ReducingEffect ==
  ASSUME NEW s \in States, NEW j \in Jobs
  PROVE  Reducing(s, j) \in States /\ IsReducing(s, Reducing(s, j), j)
<1> USE DEF SameTries, SameWork, SameNodes, SameLinks
<1> DEFINE js == [s.jobStatus EXCEPT ![j] = "reducing"]
           st == [s.status EXCEPT ![ReduceTask(j)] = "planned"]
           x == [s EXCEPT !.jobStatus = js, !.status = st]
<1>1. js \in [Jobs -> JobStatuses] /\ st \in [Tasks -> TaskStatuses]
  BY TaskNames DEF States, JobStatuses, TaskStatuses
<1>2. Reducing(s, j) = x
  BY DEF Reducing, States
<1> HIDE DEF js, st
<1>3. x \in States
  BY <1>1 DEF States
<1>4. /\ SameTries(s, x) /\ SameWork(s, x) /\ SameNodes(s, x) /\ SameLinks(s, x)
      /\ x.completedCount = s.completedCount /\ x.holder = s.holder
      /\ x.jobStatus = js /\ x.status = st
  BY DEF States
<1> HIDE DEF x
<1> QED BY <1>2, <1>3, <1>4 DEF js, st, IsReducing

StartsReduce(s, j, x) ==
  \E n \in s.registered :
    \/ n \in open /\ x = Assign(Reducing(s, j), ReduceTask(j), n)
    \/ x = Reassign(Reducing(s, j), ReduceTask(j), n)

Succeeded(s, j) == {t \in MapTasks(j) : s.status[t] = "completed"}

\* The outcomes of maybeFinish.
LEMMA FinishCases ==
  ASSUME NEW s \in States, NEW j \in Jobs
  PROVE  LET x == MaybeFinish(s, j) IN
         /\ x \in States
         /\ \/ x = s
            \/ /\ ~Ended(s, j) /\ ~MapPending(s, j)
               /\ \/ Succeeded(s, j) = {} /\ x = [s EXCEPT !.jobStatus[j] = "failed"]
                  \/ Succeeded(s, j) # {} /\ ~ReducePending(s, j) /\ x = Done(s, j)
                  \/ /\ Succeeded(s, j) # {} /\ j \notin PipelineJobs
                     /\ s.status[ReduceTask(j)] = "absent" /\ StartsReduce(s, j, x)
<1> DEFINE x == MaybeFinish(s, j)
           t == ReduceTask(j)
           n == PickReduceNode(s)
           start == /\ j \in ReduceJobs /\ Cardinality(Succeeded(s, j)) > 1
                    /\ s.status[t] = "absent" /\ n # None
<1>1. t \in Tasks
  BY TaskNames
<1>2. /\ Ended(s, j) \/ MapPending(s, j) => x = s
      /\ ~Ended(s, j) /\ ~MapPending(s, j) =>
           /\ Succeeded(s, j) = {} => x = [s EXCEPT !.jobStatus[j] = "failed"]
           /\ Succeeded(s, j) # {} =>
                /\ start => x = StartReduce(s, j, n)
                /\ ~start => IF ReducePending(s, j) THEN x = s ELSE x = Done(s, j)
  BY DEF MaybeFinish, Succeeded, Done
<1>3. ASSUME start
      PROVE  x = StartReduce(s, j, n) => j \notin PipelineJobs /\ StartsReduce(s, j, x) /\ x \in States
  <2>1. j \notin PipelineJobs
    <3> SUFFICES ASSUME j \in PipelineJobs PROVE FALSE
      OBVIOUS
    <3>1. Succeeded(s, j) = {} \/ Succeeded(s, j) = {<<j, 1>>}
      BY TaskNumbers DEF Succeeded
    <3>2. Cardinality({}) = 0 /\ Cardinality({<<j, 1>>}) = 1
      BY FS_EmptySet, FS_Singleton
    <3> QED BY <1>3, <3>1, <3>2
  <2>2. n \in Capable(s) /\ n \in s.registered /\ n \in Nodes
    BY <1>3, Views, FirstNode DEF PickReduceNode
  <2>3. First(Capable(s)) \in s.registered /\ First(Capable(s)) \in Nodes
    BY <2>2, Views, FirstNode
  <2>4. Reducing(s, j) \in States
    BY ReducingEffect
  <2>5. StartReduce(s, j, n) = IF n \in open THEN Assign(Reducing(s, j), t, n)
                               ELSE Reassign(Reducing(s, j), t, First(Capable(s)))
    BY DEF StartReduce, Reducing
  <2>6. Assign(Reducing(s, j), t, n) \in States
    BY <1>1, <2>2, <2>4, AssignEffect
  <2>7. Reassign(Reducing(s, j), t, First(Capable(s))) \in States
    BY <1>1, <2>3, <2>4, ReassignEffect
  <2> QED BY <2>1, <2>2, <2>3, <2>5, <2>6, <2>7 DEF StartsReduce
<1>4. [s EXCEPT !.jobStatus[j] = "failed"] \in States /\ Done(s, j) \in States
  BY JobStatusEffect, DoneEffect DEF JobStatuses
<1> HIDE DEF x, n
<1> QED BY <1>2, <1>3, <1>4 DEF x

\* The outcomes of requeue: the task is given up or it is queued again.
GivenUp(s, t) == [Freed(s, t) EXCEPT !.status[t] = "failed"]
Replanned(s, j) == [s EXCEPT !.members[j] = PlanPipeline(s), !.queues[j] = <<>>]

IsReplanned(s, x, j) ==
  /\ SameJobs(s, x) /\ SameTasks(s, x) /\ SameTries(s, x)
  /\ SameNodes(s, x) /\ SameLinks(s, x)
  /\ x.queues = [s.queues EXCEPT ![j] = <<>>]
  /\ x.members = [s.members EXCEPT ![j] = PlanPipeline(s)]
LEMMA ReplannedEffect ==
  ASSUME NEW s \in States, NEW j \in Jobs
  PROVE  Replanned(s, j) \in States /\ IsReplanned(s, Replanned(s, j), j)
<1> USE DEF SameJobs, SameTasks, SameTries, SameNodes, SameLinks
<1> DEFINE qs == [s.queues EXCEPT ![j] = <<>>]
           me == [s.members EXCEPT ![j] = PlanPipeline(s)]
           x == [s EXCEPT !.queues = qs, !.members = me]
<1>1. PlanPipeline(s) \in SUBSET Nodes /\ <<>> \in Seq(Entries)
  BY Views
<1>2. qs \in [Jobs -> Seq(Entries)] /\ me \in [Jobs -> SUBSET Nodes]
  BY <1>1 DEF States
<1>3. Replanned(s, j) = x
  BY DEF Replanned, States
<1> HIDE DEF qs, me
<1>4. x \in States
  BY <1>2 DEF States
<1>5. /\ SameJobs(s, x) /\ SameTasks(s, x) /\ SameTries(s, x) /\ SameNodes(s, x) /\ SameLinks(s, x)
      /\ x.queues = qs /\ x.members = me
  BY DEF States
<1> HIDE DEF x
<1> QED BY <1>3, <1>4, <1>5 DEF qs, me, IsReplanned

LEMMA RequeueCases ==
  ASSUME NEW s \in States, NEW t \in Tasks
  PROVE  LET x == Requeue(s, t)
             f == Freed(s, t)
             j == JobOf(t)
         IN /\ x \in States /\ f \in States /\ GivenUp(s, t) \in States
            /\ \/ x = MaybeFinish(GivenUp(s, t), j)
               \/ /\ ~Exhausted(f, t)
                  /\ \/ /\ s.members[j] = {} /\ \E n \in f.registered : x = Reassign(f, t, n)
                     \/ /\ s.members[j] # {} /\ PlanPipeline(f) # {}
                        /\ x = Reassign(Replanned(f, j), t, First(PlanPipeline(f)))
<1> DEFINE x == Requeue(s, t)
           f == Freed(s, t)
           j == JobOf(t)
           untried == Capable(f) \ f.tried[t]
           target == First(IF untried # {} THEN untried ELSE Capable(f))
           plan == PlanPipeline(f)
           g == GivenUp(s, t)
<1>1. j \in Jobs
  BY TaskNames
<1>2. f \in States /\ f.members = s.members
  BY FreedEffect DEF SameWork, IsFreed
<1> HIDE DEF f, j
<1>3. GiveUp(f, t) = MaybeFinish(g, j)
  BY DEF GiveUp, f, j, GivenUp
<1>4. g \in States
  BY <1>2, StatusEffect DEF GivenUp, f, TaskStatuses
<1>5. MaybeFinish(g, j) \in States
  BY <1>1, <1>4, FinishCases
<1>6. x = IF Exhausted(f, t) THEN GiveUp(f, t)
          ELSE IF IsPipeline(f, j)
            THEN IF plan = {} THEN GiveUp(f, t) ELSE Reassign(Replanned(f, j), t, First(plan))
          ELSE IF NoTarget(target) THEN GiveUp(f, t) ELSE Reassign(f, t, target)
  BY DEF Requeue, f, j, Replanned, Freed
<1> HIDE DEF x, g
<1>7. ASSUME plan # {} PROVE First(plan) \in Nodes /\ Reassign(Replanned(f, j), t, First(plan)) \in States
  <2>1. First(plan) \in Nodes
    BY <1>2, <1>7, Views, FirstNode
  <2> HIDE DEF plan
  <2> QED BY <1>1, <1>2, <2>1, ReplannedEffect, ReassignEffect
<1>8. ASSUME ~NoTarget(target)
      PROVE  target \in f.registered /\ Reassign(f, t, target) \in States
  <2>1. target \in Nodes /\ target \in f.registered
    BY <1>2, <1>8, Views, FirstNode DEF NoTarget
  <2> HIDE DEF target
  <2> QED BY <1>2, <2>1, ReassignEffect
<1> HIDE DEF plan, target
<1> QED BY <1>2, <1>3, <1>4, <1>5, <1>6, <1>7, <1>8 DEF x, f, j, g, plan, IsPipeline

LEMMA DispatchCases ==
  ASSUME NEW s \in States, NEW t \in Tasks, NEW n \in Nodes
  PROVE  /\ Dispatch(s, t, n) \in States
         /\ \/ n \in s.registered \cap open /\ Dispatch(s, t, n) = Assign(s, t, n)
            \/ Dispatch(s, t, n) = Requeue(s, t)
  BY AssignEffect, RequeueCases DEF Dispatch

-----------------------------------------------------------------------------
(* What holds of the coordinator whatever troubles strike.  A node in E[j] is *)
(* being lost, and job j may still have a queue for it.                       *)

Known(s, j, ts) == \A k \in DOMAIN ts : ts[k] \in TasksOf(j) /\ s.status[ts[k]] # "absent"
QueueSound(s, E, j, q) ==
  /\ q \in Seq(Entries) /\ Unique(q)
  /\ s.jobStatus[j] \in Live => \A i \in DOMAIN q : q[i].node \in s.registered \cup E[j]
  /\ \A i \in DOMAIN q : Known(s, j, q[i].tasks)
  /\ j \in PipelineJobs => \A i \in DOMAIN q :
       i = 1 /\ Len(q[i].tasks) <= 1 /\ q[i].node = First(s.members[j])
QueuesSound(s, E) == \A j \in Jobs : QueueSound(s, E, j, s.queues[j])

\* completedCount counts the completed jobs.
Counted(s) == s.completedCount = Cardinality({j \in Jobs : s.jobStatus[j] = "completed"})

\* A pipeline has one task, with the head of its plan; other jobs have no plan.
PipelinesSound(s) == \A j \in Jobs :
  /\ j \notin PipelineJobs => s.members[j] = {}
  /\ j \in PipelineJobs =>
       /\ s.status[ReduceTask(j)] = "absent"
       /\ s.holder[<<j, 1>>] \in {None, First(s.members[j])}
       /\ s.status[<<j, 1>>] # "absent" => s.members[j] # {}

\* A task that was never planned is nowhere.
AbsentSound(s) ==
  /\ \A t \in Tasks : s.status[t] = "absent" => s.holder[t] = None
  /\ \A t \in Tasks : s.jobStatus[JobOf(t)] = "none" => s.status[t] = "absent"
  /\ \A n \in Nodes : \A i \in DOMAIN s.inbox[n] : s.status[s.inbox[n][i].task] # "absent"

Sound(s, E) ==
  s \in States /\ QueuesSound(s, E) /\ Counted(s) /\ PipelinesSound(s) /\ AbsentSound(s)

\* What no helper of a handler undoes.
Kept(s, x) ==
  /\ SameNodes(s, x)
  /\ \A j \in Jobs : s.jobStatus[j] \in Terminal => x.jobStatus[j] = s.jobStatus[j]
  /\ \A j \in Jobs : s.jobStatus[j] # "none" => x.jobStatus[j] # "none"
  /\ \A t \in Tasks : s.status[t] # "absent" => x.status[t] # "absent"
  /\ \A n \in Nodes : n \notin s.registered \cap open => x.inbox[n] = s.inbox[n]

LEMMA KeptTransitive ==
  ASSUME NEW s, NEW x, NEW y, Kept(s, x), Kept(x, y)
  PROVE  Kept(s, y)
  BY DEF Kept, SameNodes, Terminal

LEMMA KeptSelf ==
  ASSUME NEW s
  PROVE  Kept(s, s)
  BY DEF Kept, SameNodes

-----------------------------------------------------------------------------

LEMMA PutSound ==
  ASSUME NEW s \in States, NEW E \in [Jobs -> SUBSET Nodes], NEW j \in Jobs, NEW q,
         QueueSound(s, E, j, q), NEW n \in Nodes, NEW ts \in Seq(Tasks), Known(s, j, ts),
         HasKey(q, n) \/ n \in s.registered,
         j \in PipelineJobs => /\ Len(ts) <= 1 /\ n = First(s.members[j])
                               /\ HasKey(q, n) \/ q = <<>>
  PROVE  QueueSound(s, E, j, Put(q, n, ts))
<1> DEFINE x == Put(q, n, ts)
<1>1. q \in Seq(Entries) /\ Unique(q)
  BY DEF QueueSound
<1>2. PICK p : SetAt(q, x, p, n, ts)
  BY <1>1, PutEffect
<1>3. x \in Seq(Entries) /\ Unique(x)
  BY <1>1, PutEffect
<1>4. p \in DOMAIN q <=> HasKey(q, n)
  BY <1>2 DEF HasKey, SetAt
<1> HIDE DEF x
<1> USE DEF SetAt
<1>5. x[p].node = n /\ x[p].tasks = ts
  BY <1>2
<1>6. s.jobStatus[j] \in Live => \A i \in DOMAIN x : x[i].node \in s.registered \cup E[j]
  BY <1>2, <1>4, <1>5 DEF QueueSound
<1>7. \A i \in DOMAIN x : Known(s, j, x[i].tasks)
  BY <1>2, <1>5 DEF QueueSound
<1>8. ASSUME j \in PipelineJobs, NEW i \in DOMAIN x
      PROVE  i = 1 /\ Len(x[i].tasks) <= 1 /\ x[i].node = First(s.members[j])
  <2>1. CASE i = p
    <3>1. q = <<>> => Len(q) = 0
      OBVIOUS
    <3> QED BY <1>2, <1>4, <1>5, <1>8, <2>1, <3>1 DEF QueueSound
  <2>2. CASE i # p
    BY <1>2, <1>8, <2>2 DEF QueueSound
  <2> QED BY <2>1, <2>2
<1>9. QueueSound(s, E, j, x)
  BY <1>3, <1>6, <1>7, <1>8 DEF QueueSound
<1> QED BY <1>9 DEF x

\* The soundness of a queue depends on few parts of the state.
LEMMA QueueSoundMoves ==
  ASSUME NEW s \in States, NEW x \in States, NEW E \in [Jobs -> SUBSET Nodes], NEW j \in Jobs,
         NEW q, QueueSound(s, E, j, q), x.registered = s.registered,
         x.jobStatus[j] \in Live => s.jobStatus[j] \in Live,
         j \in PipelineJobs => x.members[j] = s.members[j],
         \A t \in Tasks : s.status[t] # "absent" => x.status[t] # "absent"
  PROVE  QueueSound(x, E, j, q)
<1>1. TasksOf(j) \subseteq Tasks
  BY TaskNames
<1>2. \A i \in DOMAIN q : Known(x, j, q[i].tasks)
  BY <1>1 DEF QueueSound, Known
<1> QED BY <1>2 DEF QueueSound

LEMMA AssignSound ==
  ASSUME NEW s, NEW E \in [Jobs -> SUBSET Nodes], Sound(s, E), NEW t \in Tasks, NEW n \in Nodes,
         s.status[t] # "absent",
         JobOf(t) \in PipelineJobs => n = First(s.members[JobOf(t)])
  PROVE  LET x == Assign(s, t, n) IN Sound(x, E) /\ Kept(s, x)
<1> DEFINE x == Assign(s, t, n)
<1>1. s \in States
  BY DEF Sound
<1>2. x \in States /\ Assigned(s, x, t, n)
  BY <1>1, AssignEffect
<1> HIDE DEF x
<1> USE DEF Assigned
<1>3. \A r \in Tasks : s.status[r] # "absent" <=> x.status[r] # "absent"
  BY <1>1, <1>2 DEF States
<1>4. Kept(s, x)
  BY <1>1, <1>2, <1>3, SMTT(40) DEF Kept, SameJobs, SameNodes, States
<1>5. QueuesSound(x, E)
  BY <1>1, <1>2, <1>3, QueueSoundMoves DEF Sound, QueuesSound, SameJobs, SameWork, SameNodes
<1>6. Counted(x)
  BY <1>2 DEF Sound, Counted, SameJobs
<1>7. PipelinesSound(x)
  <2> SUFFICES ASSUME NEW j \in PipelineJobs
               PROVE  /\ x.status[ReduceTask(j)] = "absent"
                      /\ x.holder[<<j, 1>>] \in {None, First(x.members[j])}
                      /\ x.status[<<j, 1>>] # "absent" => x.members[j] # {}
    BY <1>2 DEF PipelinesSound, Sound, SameWork
  <2>1. j \in Jobs /\ ReduceTask(j) \in Tasks /\ <<j, 1>> \in Tasks /\ JobOf(<<j, 1>>) = j
    BY TaskNames, TaskNumbers DEF JobOf
  <2>2. ReduceTask(j) # t
    BY <2>1 DEF Sound, PipelinesSound
  <2>3. /\ s.status[ReduceTask(j)] = "absent" /\ s.holder[<<j, 1>>] \in {None, First(s.members[j])}
        /\ s.status[<<j, 1>>] # "absent" => s.members[j] # {}
    BY <2>1 DEF Sound, PipelinesSound
  <2>4. x.holder[<<j, 1>>] = IF <<j, 1>> = t THEN n ELSE s.holder[<<j, 1>>]
    BY <1>1, <1>2, <2>1 DEF States
  <2> QED BY <1>2, <1>3, <2>1, <2>2, <2>3, <2>4 DEF SameWork
<1>8. AbsentSound(x)
  <2>1. \A r \in Tasks : x.status[r] = "absent" => x.holder[r] = None
    BY <1>1, <1>2, <1>3 DEF Sound, AbsentSound, States
  <2>2. \A r \in Tasks : x.jobStatus[JobOf(r)] = "none" => x.status[r] = "absent"
    BY <1>2, <1>3 DEF Sound, AbsentSound, SameJobs
  <2>3. ASSUME NEW m \in Nodes, NEW i \in DOMAIN x.inbox[m]
        PROVE  x.status[x.inbox[m][i].task] # "absent"
    <3>1. s.inbox[m] \in Seq(Messages) /\ x.inbox[m] \in Seq(Messages)
      BY <1>1, <1>2 DEF States
    <3>2. x.inbox[m][i] \in Messages
      BY <3>1, <2>3
    <3>3. x.inbox[m][i].task = t \/ (i \in DOMAIN s.inbox[m] /\ x.inbox[m][i] = s.inbox[m][i])
      <4>1. x.inbox[m] = s.inbox[m] \/ x.inbox[m] = Append(s.inbox[m], About("assign", t))
        BY <1>1, <1>2, SMTT(40) DEF States
      <4>2. /\ DOMAIN Append(s.inbox[m], About("assign", t)) = DOMAIN s.inbox[m] \cup {Len(s.inbox[m]) + 1}
            /\ \A k \in DOMAIN s.inbox[m] : Append(s.inbox[m], About("assign", t))[k] = s.inbox[m][k]
            /\ Append(s.inbox[m], About("assign", t))[Len(s.inbox[m]) + 1] = About("assign", t)
        BY <3>1, SMTT(40)
      <4>3. About("assign", t).task = t
        BY DEF About
      <4> QED BY <4>1, <4>2, <4>3, <2>3
    <3>4. x.inbox[m][i].task \in Tasks
      BY <3>2 DEF Messages
    <3> QED BY <1>3, <3>3, <3>4 DEF Sound, AbsentSound
  <2> QED BY <2>1, <2>2, <2>3 DEF AbsentSound
<1>9. Sound(x, E)
  BY <1>2, <1>5, <1>6, <1>7, <1>8 DEF Sound
<1> QED BY <1>4, <1>9 DEF x

LEMMA InboxTasks ==
  ASSUME NEW s \in States, NEW n \in Nodes, NEW i \in DOMAIN s.inbox[n]
  PROVE  /\ s.inbox[n][i] \in Messages /\ s.inbox[n][i].task \in Tasks
         /\ s.inbox[n][i].type \in {"assign", "cancel"}
<1>1. s.inbox[n] \in Seq(Messages)
  BY DEF States
<1>2. s.inbox[n][i] \in Messages
  BY <1>1
<1> QED BY <1>2 DEF Messages

LEMMA ReassignSound ==
  ASSUME NEW s, NEW E \in [Jobs -> SUBSET Nodes], Sound(s, E), NEW t \in Tasks,
         NEW n \in Nodes, n \in s.registered, s.status[t] # "absent",
         JobOf(t) \in PipelineJobs => /\ n = First(s.members[JobOf(t)])
                                      /\ s.queues[JobOf(t)] = <<>>
  PROVE  Sound(Reassign(s, t, n), E) /\ Kept(s, Reassign(s, t, n))
<1> DEFINE x == Reassign(s, t, n)
           j == JobOf(t)
           q == s.queues[j]
           ts == <<t>> \o Lookup(q, n)
<1>1. s \in States /\ j \in Jobs /\ t \in TasksOf(j)
  BY TaskNames DEF Sound
<1>2. x \in States /\ Reassigned(s, x, t, n)
  BY <1>1, ReassignEffect
<1> HIDE DEF x, j
<1> USE DEF Reassigned
<1>3. \A r \in Tasks : s.status[r] # "absent" <=> x.status[r] # "absent"
  BY <1>1, <1>2 DEF States
<1>4. Kept(s, x)
  BY <1>1, <1>2, <1>3 DEF Kept, SameJobs, SameNodes, States
<1>5. QueuesSound(x, E)
  <2>1. QueueSound(s, E, j, q) /\ q \in Seq(Entries)
    BY <1>1 DEF Sound, QueuesSound, QueueSound
  <2> HIDE DEF q
  <2>2. Lookup(q, n) \in Seq(Tasks) /\ ts \in Seq(Tasks)
    BY <2>1, LookupEffect
  <2>3. Known(s, j, Lookup(q, n))
    <3>1. CASE HasKey(q, n)
      BY <2>1, <3>1, LookupEffect DEF QueueSound
    <3>2. CASE ~HasKey(q, n)
      BY <2>1, <3>2, LookupEffect DEF Known
    <3> QED BY <3>1, <3>2
  <2>4. Known(s, j, ts)
    <3>1. \A k \in DOMAIN ts : ts[k] = t \/ \E i \in DOMAIN Lookup(q, n) : ts[k] = Lookup(q, n)[i]
      BY <2>2
    <3> QED BY <1>1, <2>3, <3>1 DEF Known
  <2>5. j \in PipelineJobs => Len(ts) <= 1 /\ n = First(s.members[j]) /\ q = <<>>
    <3>1. q = <<>> => Lookup(q, n) = <<>>
      BY PutOnEmpty
    <3> QED BY <3>1 DEF j, q
  <2> HIDE DEF ts
  <2>6. QueueSound(s, E, j, Put(q, n, ts))
    BY <1>1, <2>1, <2>2, <2>4, <2>5, PutSound
  <2>7. x.queues[j] = Put(q, n, ts) /\ \A i \in Jobs \ {j} : x.queues[i] = s.queues[i]
    BY <1>1, <1>2 DEF Headed, States, q, ts, j
  <2>8. \A i \in Jobs : QueueSound(s, E, i, x.queues[i])
    BY <2>6, <2>7 DEF Sound, QueuesSound
  <2>9. x.registered = s.registered /\ x.jobStatus = s.jobStatus /\ x.members = s.members
    BY <1>2 DEF SameNodes, SameJobs
  <2> QED BY <1>1, <1>2, <1>3, <2>8, <2>9, QueueSoundMoves DEF QueuesSound
<1>6. Counted(x)
  BY <1>2 DEF Sound, Counted, SameJobs
<1>7. PipelinesSound(x)
  <2> SUFFICES ASSUME NEW i \in Jobs
               PROVE  /\ i \notin PipelineJobs => x.members[i] = {}
                      /\ i \in PipelineJobs =>
                           /\ x.status[ReduceTask(i)] = "absent"
                           /\ x.holder[<<i, 1>>] \in {None, First(x.members[i])}
                           /\ x.status[<<i, 1>>] # "absent" => x.members[i] # {}
    BY DEF PipelinesSound
  <2>1. ReduceTask(i) \in Tasks /\ <<i, 1>> \in Tasks
    BY TaskNames, TaskNumbers
  <2> QED BY <1>2, <1>3, <2>1 DEF Sound, PipelinesSound
<1>8. AbsentSound(x)
  <2>1. ASSUME NEW m \in Nodes, NEW i \in DOMAIN x.inbox[m]
        PROVE  x.inbox[m][i].task \in Tasks
    BY <1>2, <2>1, InboxTasks
  <2> QED BY <1>2, <1>3, <2>1 DEF Sound, AbsentSound, SameJobs
<1>9. Sound(x, E)
  BY <1>2, <1>5, <1>6, <1>7, <1>8 DEF Sound
<1> QED BY <1>4, <1>9 DEF x

\* Changes of a holder to None, or of the status of a task that was planned.
LEMMA HolderSound ==
  ASSUME NEW s, NEW E \in [Jobs -> SUBSET Nodes], Sound(s, E), NEW x \in States,
         SameJobs(s, x), SameWork(s, x), SameNodes(s, x), x.inbox = s.inbox,
         \A t \in Tasks : x.holder[t] \in {None, s.holder[t]},
         \A t \in Tasks : s.status[t] # "absent" <=> x.status[t] # "absent"
  PROVE  Sound(x, E) /\ Kept(s, x)
<1>1. s \in States
  BY DEF Sound
<1>2. Kept(s, x)
  BY DEF Kept, SameJobs, SameNodes
<1>3. QueuesSound(x, E)
  BY <1>1, QueueSoundMoves DEF Sound, QueuesSound, SameJobs, SameWork, SameNodes
<1>4. PipelinesSound(x)
  <2> SUFFICES ASSUME NEW i \in Jobs
               PROVE  /\ i \notin PipelineJobs => x.members[i] = {}
                      /\ i \in PipelineJobs =>
                           /\ x.status[ReduceTask(i)] = "absent"
                           /\ x.holder[<<i, 1>>] \in {None, First(x.members[i])}
                           /\ x.status[<<i, 1>>] # "absent" => x.members[i] # {}
    BY DEF PipelinesSound
  <2>1. ReduceTask(i) \in Tasks /\ <<i, 1>> \in Tasks
    BY TaskNames, TaskNumbers
  <2>2. x.members = s.members /\ x.holder[<<i, 1>>] \in {None, s.holder[<<i, 1>>]}
    BY <2>1 DEF SameWork
  <2> QED BY <2>1, <2>2 DEF Sound, PipelinesSound
<1>5. AbsentSound(x)
  <2>1. ASSUME NEW m \in Nodes, NEW i \in DOMAIN x.inbox[m]
        PROVE  x.inbox[m][i].task \in Tasks
    BY <2>1, InboxTasks
  <2> QED BY <2>1 DEF Sound, AbsentSound, SameJobs
<1> QED BY <1>2, <1>3, <1>4, <1>5 DEF Sound, Counted, SameJobs

\* Changes of a job's status other than completion, which counts.
LEMMA JobsFinite ==
  ASSUME NEW S \in SUBSET Jobs
  PROVE  IsFiniteSet(S)
<1>1. IsFiniteSet(1..NumJobs)
  BY Numbers, FS_Interval
<1> QED BY <1>1, Numbers, FS_Subset

LEMMA FailSound ==
  ASSUME NEW s, NEW E \in [Jobs -> SUBSET Nodes], Sound(s, E), NEW j \in Jobs, ~Ended(s, j)
  PROVE  LET x == [s EXCEPT !.jobStatus[j] = "failed"] IN Sound(x, E) /\ Kept(s, x)
<1> DEFINE x == [s EXCEPT !.jobStatus[j] = "failed"]
<1>1. s \in States /\ x \in States /\ JobMarked(s, x, j, "failed")
  BY JobStatusEffect DEF Sound, JobStatuses
<1> HIDE DEF x
<1>2. /\ SameTasks(s, x) /\ SameWork(s, x) /\ SameNodes(s, x) /\ x.inbox = s.inbox
      /\ x.completedCount = s.completedCount /\ x.jobStatus[j] = "failed"
      /\ \A i \in Jobs \ {j} : x.jobStatus[i] = s.jobStatus[i]
  BY <1>1 DEF JobMarked, SameLinks, States
<1>3. Kept(s, x)
  BY <1>2 DEF Kept, Ended, SameTasks
<1>4. QueuesSound(x, E)
  BY <1>1, <1>2, QueueSoundMoves DEF Sound, QueuesSound, SameTasks, SameWork, SameNodes, Live
<1>5. {i \in Jobs : x.jobStatus[i] = "completed"} = {i \in Jobs : s.jobStatus[i] = "completed"}
  BY <1>2 DEF Ended, Terminal
<1>6. AbsentSound(x)
  BY <1>2, TaskNames DEF Sound, AbsentSound, SameTasks
<1>7. PipelinesSound(x)
  BY <1>2 DEF Sound, PipelinesSound, SameTasks, SameWork
<1>8. Sound(x, E)
  BY <1>1, <1>2, <1>4, <1>5, <1>6, <1>7 DEF Sound, Counted
<1> QED BY <1>3, <1>8 DEF x

LEMMA DoneSound ==
  ASSUME NEW s, NEW E \in [Jobs -> SUBSET Nodes], Sound(s, E), NEW j \in Jobs, ~Ended(s, j)
  PROVE  Sound(Done(s, j), E) /\ Kept(s, Done(s, j))
<1> DEFINE x == Done(s, j)
           C == {i \in Jobs : s.jobStatus[i] = "completed"}
<1>1. s \in States /\ x \in States /\ JobDone(s, x, j)
  BY DoneEffect DEF Sound
<1> HIDE DEF x
<1>2. /\ SameTasks(s, x) /\ SameWork(s, x) /\ SameNodes(s, x) /\ x.inbox = s.inbox
      /\ x.completedCount = s.completedCount + 1 /\ x.jobStatus[j] = "completed"
      /\ \A i \in Jobs \ {j} : x.jobStatus[i] = s.jobStatus[i]
  BY <1>1 DEF JobDone, SameLinks, States
<1>3. Kept(s, x)
  BY <1>2 DEF Kept, Ended, SameTasks
<1>4. QueuesSound(x, E)
  BY <1>1, <1>2, QueueSoundMoves DEF Sound, QueuesSound, SameTasks, SameWork, SameNodes, Live
<1>5. Counted(x)
  <2>1. {i \in Jobs : x.jobStatus[i] = "completed"} = C \cup {j} /\ j \notin C
    BY <1>2 DEF Ended, Terminal
  <2>2. Cardinality(C \cup {j}) = Cardinality(C) + 1
    BY <2>1, JobsFinite, FS_AddElement
  <2> QED BY <1>2, <2>1, <2>2 DEF Sound, Counted
<1>6. AbsentSound(x)
  BY <1>2, TaskNames DEF Sound, AbsentSound, SameTasks
<1>7. PipelinesSound(x)
  BY <1>2 DEF Sound, PipelinesSound, SameTasks, SameWork
<1>8. Sound(x, E)
  BY <1>1, <1>4, <1>5, <1>6, <1>7 DEF Sound
<1> QED BY <1>3, <1>8 DEF x

LEMMA ReducingSound ==
  ASSUME NEW s, NEW E \in [Jobs -> SUBSET Nodes], Sound(s, E), NEW j \in Jobs, ~Ended(s, j),
         Succeeded(s, j) # {}, j \notin PipelineJobs
  PROVE  Sound(Reducing(s, j), E) /\ Kept(s, Reducing(s, j))
<1> DEFINE x == Reducing(s, j)
           t == ReduceTask(j)
<1>1. s \in States /\ x \in States /\ IsReducing(s, x, j) /\ t \in Tasks /\ JobOf(t) = j
  BY ReducingEffect, TaskNames DEF Sound
<1> HIDE DEF x
<1>2. /\ SameWork(s, x) /\ SameNodes(s, x) /\ x.inbox = s.inbox /\ x.holder = s.holder
      /\ x.completedCount = s.completedCount /\ x.jobStatus[j] = "reducing"
      /\ \A i \in Jobs \ {j} : x.jobStatus[i] = s.jobStatus[i]
      /\ x.status[t] # "absent" /\ \A r \in Tasks \ {t} : x.status[r] = s.status[r]
  BY <1>1 DEF IsReducing, SameLinks, States
<1>3. s.jobStatus[j] \in Live
  <2>1. s.jobStatus[j] # "none"
    BY TaskNames DEF Sound, AbsentSound, Succeeded
  <2> QED BY <1>1, <2>1 DEF Ended, Terminal, Live, States, JobStatuses
<1>4. Kept(s, x)
  BY <1>2, <1>3 DEF Kept, Ended
<1>5. QueuesSound(x, E)
  BY <1>1, <1>2, <1>3, QueueSoundMoves DEF Sound, QueuesSound, SameWork, SameNodes
<1>6. {i \in Jobs : x.jobStatus[i] = "completed"} = {i \in Jobs : s.jobStatus[i] = "completed"}
  BY <1>2 DEF Ended, Terminal
<1>7. AbsentSound(x)
  <2>1. \A r \in Tasks : x.status[r] = "absent" => x.holder[r] = None
    BY <1>2 DEF Sound, AbsentSound
  <2>2. \A r \in Tasks : x.jobStatus[JobOf(r)] = "none" => x.status[r] = "absent"
    BY <1>1, <1>2, TaskNames DEF Sound, AbsentSound
  <2>3. \A n \in Nodes : \A i \in DOMAIN x.inbox[n] : x.status[x.inbox[n][i].task] # "absent"
    <3>1. \A n \in Nodes : \A i \in DOMAIN s.inbox[n] : s.inbox[n][i].task \in Tasks
      BY <1>1, InboxTasks
    <3> QED BY <1>2, <3>1 DEF Sound, AbsentSound
  <2> QED BY <2>1, <2>2, <2>3 DEF AbsentSound
<1>8. PipelinesSound(x)
  <2>1. ASSUME NEW i \in PipelineJobs
        PROVE  x.status[ReduceTask(i)] = s.status[ReduceTask(i)] /\ x.status[<<i, 1>>] = s.status[<<i, 1>>]
    <3>1. /\ ReduceTask(i) \in Tasks /\ JobOf(ReduceTask(i)) = i
          /\ <<i, 1>> \in Tasks /\ JobOf(<<i, 1>>) = i
      BY TaskNames, TaskNumbers
    <3> QED BY <1>1, <1>2, <3>1
  <2> QED BY <1>2, <2>1 DEF Sound, PipelinesSound, SameWork
<1>9. Sound(x, E)
  BY <1>1, <1>2, <1>5, <1>6, <1>7, <1>8 DEF Sound, Counted
<1> QED BY <1>4, <1>9 DEF x

LEMMA FinishSound ==
  ASSUME NEW s, NEW E \in [Jobs -> SUBSET Nodes], Sound(s, E), NEW j \in Jobs
  PROVE  Sound(MaybeFinish(s, j), E) /\ Kept(s, MaybeFinish(s, j))
<1> DEFINE x == MaybeFinish(s, j)
           t == ReduceTask(j)
           r == Reducing(s, j)
<1>1. s \in States
  BY DEF Sound
<1>2. ASSUME ~Ended(s, j), Succeeded(s, j) # {}, j \notin PipelineJobs, StartsReduce(s, j, x)
      PROVE  Sound(x, E) /\ Kept(s, x)
  <2>1. Sound(r, E) /\ Kept(s, r)
    BY <1>2, ReducingSound
  <2>2. t \in Tasks /\ JobOf(t) = j
    BY TaskNames
  <2>0. r \in States /\ IsReducing(s, r, j)
    BY <1>1, ReducingEffect
  <2> HIDE DEF r
  <2>3. r.status[t] # "absent" /\ SameNodes(s, r)
    BY <1>1, <2>0, <2>2 DEF IsReducing, States
  <2> HIDE DEF t
  <2>4. PICK n \in s.registered : x = Assign(r, t, n) \/ x = Reassign(r, t, n)
    BY <1>2 DEF StartsReduce, r, t
  <2>5. n \in Nodes /\ n \in r.registered
    BY <1>1, <2>3 DEF States, SameNodes
  <2>6. Sound(Assign(r, t, n), E) /\ Kept(r, Assign(r, t, n))
    BY <1>2, <2>1, <2>2, <2>3, <2>5, AssignSound
  <2>7. Sound(Reassign(r, t, n), E) /\ Kept(r, Reassign(r, t, n))
    BY <1>2, <2>1, <2>2, <2>3, <2>5, ReassignSound
  <2> HIDE DEF x
  <2> QED BY <2>1, <2>4, <2>6, <2>7, KeptTransitive
<1>3. ~Ended(s, j) => /\ Sound([s EXCEPT !.jobStatus[j] = "failed"], E)
                      /\ Kept(s, [s EXCEPT !.jobStatus[j] = "failed"])
                      /\ Sound(Done(s, j), E) /\ Kept(s, Done(s, j))
  BY FailSound, DoneSound
<1>4. \/ x = s
      \/ /\ ~Ended(s, j)
         /\ \/ x = [s EXCEPT !.jobStatus[j] = "failed"] \/ x = Done(s, j)
            \/ Succeeded(s, j) # {} /\ j \notin PipelineJobs /\ StartsReduce(s, j, x)
  BY <1>1, FinishCases
<1> HIDE DEF x
<1>5. Sound(x, E) /\ Kept(s, x)
  BY <1>2, <1>3, <1>4, KeptSelf
<1> QED BY <1>5 DEF x

WithQueue(s, x, j, q) ==
  /\ SameJobs(s, x) /\ SameTasks(s, x) /\ SameTries(s, x) /\ SameNodes(s, x) /\ SameLinks(s, x)
  /\ x.queues = [s.queues EXCEPT ![j] = q] /\ x.members = s.members
LEMMA QueueEffect ==
  ASSUME NEW s \in States, NEW j \in Jobs, NEW q \in Seq(Entries)
  PROVE  /\ [s EXCEPT !.queues[j] = q] \in States
         /\ WithQueue(s, [s EXCEPT !.queues[j] = q], j, q)
<1> USE DEF SameJobs, SameTasks, SameTries, SameNodes, SameLinks
<1> DEFINE qs == [s.queues EXCEPT ![j] = q]
           x == [s EXCEPT !.queues = qs]
<1>1. qs \in [Jobs -> Seq(Entries)]
  BY DEF States
<1> HIDE DEF qs
<1>2. x \in States
  BY <1>1 DEF States
<1>3. /\ SameJobs(s, x) /\ SameTasks(s, x) /\ SameTries(s, x) /\ SameNodes(s, x) /\ SameLinks(s, x)
      /\ x.queues = qs /\ x.members = s.members
  BY DEF States
<1> QED BY <1>2, <1>3 DEF qs, WithQueue

\* A changed queue is all that has to be sound again.
LEMMA NewQueueSound ==
  ASSUME NEW s, NEW E \in [Jobs -> SUBSET Nodes], Sound(s, E), NEW j \in Jobs,
         NEW q, QueueSound(s, E, j, q)
  PROVE  LET x == [s EXCEPT !.queues[j] = q] IN Sound(x, E) /\ Kept(s, x)
<1> DEFINE x == [s EXCEPT !.queues[j] = q]
<1>1. s \in States /\ q \in Seq(Entries)
  BY DEF Sound, QueueSound
<1>2. x \in States /\ WithQueue(s, x, j, q)
  BY <1>1, QueueEffect
<1> HIDE DEF x
<1>3. /\ SameJobs(s, x) /\ SameTasks(s, x) /\ SameNodes(s, x) /\ x.inbox = s.inbox
      /\ x.members = s.members
      /\ x.queues[j] = q /\ \A i \in Jobs \ {j} : x.queues[i] = s.queues[i]
  BY <1>1, <1>2 DEF WithQueue, SameLinks, States
<1>4. \A i \in Jobs : QueueSound(s, E, i, x.queues[i])
  BY <1>3 DEF Sound, QueuesSound
<1>5. QueuesSound(x, E)
  BY <1>1, <1>2, <1>3, <1>4, QueueSoundMoves DEF QueuesSound, SameJobs, SameTasks, SameNodes
<1>6. Sound(x, E)
  BY <1>2, <1>3, <1>5 DEF Sound, Counted, PipelinesSound, AbsentSound, SameJobs, SameTasks
<1>7. Kept(s, x)
  BY <1>3 DEF Kept, SameJobs, SameTasks
<1> QED BY <1>6, <1>7 DEF x

LEMMA EmptyQueueSound ==
  ASSUME NEW s, NEW E, NEW j
  PROVE  QueueSound(s, E, j, <<>>)
<1>1. <<>> \in Seq(Entries) /\ DOMAIN <<>> = {}
  OBVIOUS
<1> QED BY <1>1 DEF QueueSound, Unique

LEMMA ReplannedSound ==
  ASSUME NEW s, NEW E \in [Jobs -> SUBSET Nodes], Sound(s, E), NEW j \in PipelineJobs,
         s.holder[<<j, 1>>] = None, PlanPipeline(s) # {}
  PROVE  Sound(Replanned(s, j), E) /\ Kept(s, Replanned(s, j))
<1> DEFINE x == Replanned(s, j)
<1>1. s \in States /\ j \in Jobs
  BY TaskNumbers DEF Sound
<1>2. x \in States /\ IsReplanned(s, x, j)
  BY <1>1, ReplannedEffect
<1> HIDE DEF x
<1>3. /\ SameJobs(s, x) /\ SameTasks(s, x) /\ SameNodes(s, x) /\ x.inbox = s.inbox
      /\ x.queues[j] = <<>> /\ \A i \in Jobs \ {j} : x.queues[i] = s.queues[i]
      /\ x.members[j] = PlanPipeline(s) /\ \A i \in Jobs \ {j} : x.members[i] = s.members[i]
  BY <1>1, <1>2 DEF IsReplanned, SameLinks, States
<1>4. QueuesSound(x, E)
  <2>1. \A i \in Jobs \ {j} : QueueSound(x, E, i, x.queues[i])
    BY <1>1, <1>2, <1>3, QueueSoundMoves DEF Sound, QueuesSound, SameJobs, SameTasks, SameNodes
  <2> QED BY <1>3, <2>1, EmptyQueueSound DEF QueuesSound
<1>5. PipelinesSound(x)
  BY <1>3 DEF Sound, PipelinesSound, SameTasks
<1>6. Sound(x, E)
  BY <1>2, <1>3, <1>4, <1>5 DEF Sound, Counted, AbsentSound, SameJobs, SameTasks
<1>7. Kept(s, x)
  BY <1>3 DEF Kept, SameJobs, SameTasks
<1> QED BY <1>6, <1>7 DEF x

\* A planned task of a pipeline is its map task, and only pipelines have a plan.
LEMMA PipelineTask ==
  ASSUME NEW s, NEW E, Sound(s, E), NEW t \in Tasks, s.status[t] # "absent"
  PROVE  JobOf(t) \in PipelineJobs <=> s.members[JobOf(t)] # {}
<1>1. JobOf(t) \in Jobs /\ t \in TasksOf(JobOf(t))
  BY TaskNames
<1>2. JobOf(t) \in PipelineJobs => t = <<JobOf(t), 1>>
  BY <1>1, TaskNumbers DEF Sound, PipelinesSound
<1> QED BY <1>1, <1>2 DEF Sound, PipelinesSound

LEMMA FreedSound ==
  ASSUME NEW s, NEW E \in [Jobs -> SUBSET Nodes], Sound(s, E), NEW t \in Tasks
  PROVE  Sound(Freed(s, t), E) /\ Kept(s, Freed(s, t))
<1> DEFINE f == Freed(s, t)
<1>1. s \in States
  BY DEF Sound
<1>2. f \in States /\ IsFreed(s, f, t)
  BY <1>1, FreedEffect
<1> HIDE DEF f
<1>3. \A r \in Tasks : f.holder[r] \in {None, s.holder[r]}
  BY <1>1, <1>2 DEF IsFreed, States
<1>4. /\ SameJobs(s, f) /\ SameWork(s, f) /\ SameNodes(s, f) /\ f.inbox = s.inbox
      /\ f.status = s.status
  BY <1>2 DEF IsFreed
<1>5. Sound(f, E) /\ Kept(s, f)
  BY <1>2, <1>3, <1>4, HolderSound
<1> QED BY <1>5 DEF f

LEMMA GivenUpSound ==
  ASSUME NEW s, NEW E \in [Jobs -> SUBSET Nodes], Sound(s, E), NEW t \in Tasks,
         s.status[t] # "absent"
  PROVE  Sound(GivenUp(s, t), E) /\ Kept(s, GivenUp(s, t))
<1> DEFINE f == Freed(s, t)
           g == GivenUp(s, t)
<1>1. s \in States
  BY DEF Sound
<1>2. f \in States /\ IsFreed(s, f, t) /\ Sound(f, E) /\ Kept(s, f)
  BY <1>1, FreedEffect, FreedSound
<1>3. g \in States /\ Marked(f, g, t, "failed")
  BY <1>2, StatusEffect DEF GivenUp, TaskStatuses
<1> HIDE DEF g, f
<1>4. f.status[t] # "absent"
  BY <1>2 DEF IsFreed
<1>5. /\ SameJobs(f, g) /\ SameWork(f, g) /\ SameNodes(f, g) /\ g.inbox = f.inbox
      /\ g.holder = f.holder /\ \A r \in Tasks : f.status[r] # "absent" <=> g.status[r] # "absent"
  BY <1>2, <1>3, <1>4 DEF Marked, SameLinks, States
<1>6. Sound(g, E) /\ Kept(s, g)
  BY <1>2, <1>3, <1>5, HolderSound, KeptTransitive
<1> QED BY <1>6 DEF g

LEMMA RequeueSound ==
  ASSUME NEW s, NEW E \in [Jobs -> SUBSET Nodes], Sound(s, E), NEW t \in Tasks,
         s.status[t] # "absent"
  PROVE  Sound(Requeue(s, t), E) /\ Kept(s, Requeue(s, t))
<1> DEFINE x == Requeue(s, t)
           f == Freed(s, t)
           g == GivenUp(s, t)
           j == JobOf(t)
           p == Replanned(f, j)
<1>1. s \in States /\ j \in Jobs /\ t \in TasksOf(j)
  BY TaskNames DEF Sound
<1>2. f \in States /\ IsFreed(s, f, t)
  BY <1>1, FreedEffect
<1>3. Sound(f, E) /\ Kept(s, f)
  BY FreedSound
<1>4. f.status[t] # "absent" /\ f.holder[t] = None /\ f.members = s.members /\ f.registered \subseteq Nodes
  BY <1>1, <1>2 DEF IsFreed, SameWork, States
<1>5. Sound(g, E) /\ Kept(s, g)
  BY GivenUpSound
<1>6. Sound(MaybeFinish(g, j), E) /\ Kept(s, MaybeFinish(g, j))
  <2> HIDE DEF g
  <2> QED BY <1>1, <1>5, FinishSound, KeptTransitive
<1>7. j \in PipelineJobs <=> s.members[j] # {}
  BY PipelineTask
<1>8. ASSUME s.members[j] = {}, NEW n \in f.registered
      PROVE  Sound(Reassign(f, t, n), E) /\ Kept(s, Reassign(f, t, n))
  <2> HIDE DEF f
  <2>1. Sound(Reassign(f, t, n), E) /\ Kept(f, Reassign(f, t, n))
    BY <1>3, <1>4, <1>7, <1>8, ReassignSound
  <2> QED BY <1>3, <2>1, KeptTransitive
<1>9. ASSUME s.members[j] # {}, PlanPipeline(f) # {}
      PROVE  LET y == Reassign(p, t, First(PlanPipeline(f))) IN Sound(y, E) /\ Kept(s, y)
  <2> HIDE DEF f
  <2>1. j \in PipelineJobs /\ t = <<j, 1>>
    <3>1. j \in PipelineJobs
      BY <1>7, <1>9
    <3>2. f.status[ReduceTask(j)] = "absent"
      BY <1>1, <1>3, <3>1 DEF Sound, PipelinesSound
    <3>3. t \in {<<j, 1>>, ReduceTask(j)}
      BY <1>1, <3>1, TaskNumbers
    <3> QED BY <1>4, <3>1, <3>2, <3>3
  <2>2. Sound(p, E) /\ Kept(f, p)
    BY <1>3, <1>4, <1>9, <2>1, ReplannedSound
  <2>0. p \in States /\ IsReplanned(f, p, j)
    BY <1>1, <1>2, ReplannedEffect
  <2> HIDE DEF p
  <2>3. /\ p.members[j] = PlanPipeline(f) /\ p.queues[j] = <<>> /\ p.registered = f.registered
        /\ p.status[t] # "absent"
    BY <1>1, <1>2, <1>4, <2>0 DEF IsReplanned, SameNodes, SameTasks, States
  <2>4. First(PlanPipeline(f)) \in f.registered /\ First(PlanPipeline(f)) \in Nodes
    BY <1>2, <1>9, Views, FirstNode
  <2> HIDE DEF j
  <2>5. LET y == Reassign(p, t, First(PlanPipeline(f))) IN Sound(y, E) /\ Kept(p, y)
    BY <2>2, <2>3, <2>4, ReassignSound DEF j
  <2> QED BY <1>3, <2>2, <2>5, KeptTransitive
<1>10. \/ x = MaybeFinish(g, j)
       \/ s.members[j] = {} /\ \E n \in f.registered : x = Reassign(f, t, n)
       \/ /\ s.members[j] # {} /\ PlanPipeline(f) # {}
          /\ x = Reassign(p, t, First(PlanPipeline(f)))
  BY <1>1, RequeueCases
<1> HIDE DEF x, f, g, p
<1>11. Sound(x, E) /\ Kept(s, x)
  BY <1>6, <1>8, <1>9, <1>10
<1> QED BY <1>11 DEF x

LEMMA DispatchSound ==
  ASSUME NEW s, NEW E \in [Jobs -> SUBSET Nodes], Sound(s, E), NEW t \in Tasks, NEW n \in Nodes,
         s.status[t] # "absent",
         JobOf(t) \in PipelineJobs => n = First(s.members[JobOf(t)])
  PROVE  Sound(Dispatch(s, t, n), E) /\ Kept(s, Dispatch(s, t, n))
  BY AssignSound, RequeueSound DEF Dispatch

-----------------------------------------------------------------------------
(* pump takes a task from the head or from the tail of a queue.              *)

At(q, i, k, t) == i \in DOMAIN q /\ k \in DOMAIN q[i].tasks /\ q[i].tasks[k] = t
In(q, t) == \E i, k : At(q, i, k, t)
Once(q) == \A t, i, k, l, m : At(q, i, k, t) /\ At(q, l, m, t) => i = l /\ k = m

\* x is q without one t, which is q's only one if q has no task twice.
Taken(q, x, t) ==
  /\ x \in Seq(Entries) /\ DOMAIN x = DOMAIN q
  /\ \A i \in DOMAIN q : x[i].node = q[i].node /\ Len(x[i].tasks) <= Len(q[i].tasks)
  /\ \A r : In(x, r) => In(q, r)
  /\ In(q, t) /\ \A r : In(q, r) /\ r # t => In(x, r)
  /\ Once(q) => Once(x) /\ ~In(x, t)

LEMMA EntryOf ==
  ASSUME NEW q \in Seq(Entries), NEW i \in DOMAIN q
  PROVE  /\ q[i].node \in Nodes /\ q[i].tasks \in Seq(Tasks) /\ Len(q[i].tasks) \in Nat
         /\ DOMAIN q[i].tasks = 1..Len(q[i].tasks)
         /\ \A k \in DOMAIN q[i].tasks : q[i].tasks[k] \in Tasks
<1>1. q[i] \in Entries
  OBVIOUS
<1>2. q[i].node \in Nodes /\ q[i].tasks \in Seq(Tasks)
  BY <1>1 DEF Entries
<1> QED BY <1>2

LEMMA TakeEffect ==
  ASSUME NEW q \in Seq(Entries), NEW x \in Seq(Entries), NEW p \in DOMAIN q, NEW d \in {0, 1},
         DOMAIN x = DOMAIN q, \A i \in DOMAIN q \ {p} : x[i] = q[i], x[p].node = q[p].node,
         Len(q[p].tasks) = Len(x[p].tasks) + 1,
         \A k \in DOMAIN x[p].tasks : x[p].tasks[k] = q[p].tasks[k + d]
  PROVE  Taken(q, x, q[p].tasks[IF d = 1 THEN 1 ELSE Len(q[p].tasks)])
<1> DEFINE a == q[p].tasks
           b == x[p].tasks
           h == IF d = 1 THEN 1 ELSE Len(a)
           t == a[h]
           from(i, k) == IF i = p THEN k + d ELSE k
<1>1. a \in Seq(Tasks) /\ b \in Seq(Tasks) /\ p \in DOMAIN x
  BY EntryOf
<1>2. /\ DOMAIN a = 1..Len(a) /\ DOMAIN b = 1..Len(b) /\ Len(a) \in Nat /\ Len(b) \in Nat
      /\ Len(a) = Len(b) + 1 /\ h \in DOMAIN a
      /\ \A k \in DOMAIN b : k + d \in DOMAIN a /\ k + d # h /\ b[k] = a[k + d]
      /\ \A k \in DOMAIN a : k # h => k - d \in DOMAIN b
  BY <1>1, SMTT(40)
<1>3. \A i, k, r : At(x, i, k, r) => At(q, i, from(i, k), r) /\ ~(i = p /\ from(i, k) = h)
  BY <1>2 DEF At
<1>4. \A i, k, r : At(q, i, k, r) /\ ~(i = p /\ k = h) => \E l : At(x, i, l, r)
  <2> SUFFICES ASSUME NEW i, NEW k, NEW r, At(q, i, k, r), ~(i = p /\ k = h)
               PROVE  \E l : At(x, i, l, r)
    OBVIOUS
  <2>1. CASE i = p
    <3>1. k \in DOMAIN a /\ k # h /\ k \in Nat
      BY <1>2, <2>1 DEF At
    <3>2. k - d \in DOMAIN b /\ (k - d) + d = k
      BY <1>2, <3>1
    <3> HIDE DEF a, b
    <3>3. b[k - d] = a[k]
      BY <1>2, <3>2
    <3> USE DEF a, b
    <3> QED BY <1>1, <2>1, <3>2, <3>3 DEF At
  <2>2. CASE i # p
    BY <2>2 DEF At
  <2> QED BY <2>1, <2>2
<1>5. At(q, p, h, t)
  BY <1>2 DEF At
<1>6. \A i \in DOMAIN q : x[i].node = q[i].node /\ Len(x[i].tasks) <= Len(q[i].tasks)
  <2>1. Len(b) <= Len(a)
    BY <1>2
  <2>2. \A i \in DOMAIN q : Len(q[i].tasks) \in Nat
    BY EntryOf
  <2> QED BY <2>1, <2>2
<1> HIDE DEF h, t, a, b
<1>7. \A r : In(x, r) => In(q, r)
  BY <1>3 DEF In
<1>8. \A r : In(q, r) /\ r # t => In(x, r)
  BY <1>4, <1>5 DEF In, At
<1>9. ASSUME Once(q) PROVE Once(x) /\ ~In(x, t)
  <2>1. ~In(x, t)
    BY <1>3, <1>5, <1>9 DEF In, Once
  <2>2. ASSUME NEW r, NEW i, NEW k, NEW l, NEW m, At(x, i, k, r), At(x, l, m, r)
        PROVE  i = l /\ k = m
    <3>1. i = l /\ from(i, k) = from(l, m)
      BY <1>3, <1>9, <2>2 DEF Once
    <3>2. k \in DOMAIN x[i].tasks /\ m \in DOMAIN x[i].tasks /\ i \in DOMAIN x
      BY <2>2, <3>1 DEF At
    <3>3. k \in Int /\ m \in Int
      BY <3>2, EntryOf
    <3> QED BY <3>1, <3>3
  <2> QED BY <2>1, <2>2 DEF Once
<1>10. Taken(q, x, t)
  BY <1>5, <1>6, <1>7, <1>8, <1>9 DEF Taken, In
<1> QED BY <1>10 DEF t, a, h

LEMMA TakeFrom ==
  ASSUME NEW q \in Seq(Entries), Unique(q), NEW p \in DOMAIN q, q[p].tasks # <<>>
  PROVE  LET n == q[p].node
             ts == q[p].tasks
         IN /\ Lookup(q, n) = ts
            /\ Taken(q, Put(q, n, Tail(ts)), Head(ts))
            /\ Taken(q, Put(q, n, Front(ts)), Last(ts))
<1> DEFINE n == q[p].node
           ts == q[p].tasks
<1>1. n \in Nodes /\ ts \in Seq(Tasks) /\ ts # <<>>
  BY EntryOf
<1>2. Lookup(q, n) = ts
  <2>1. HasKey(q, n)
    BY DEF HasKey
  <2>2. KeyAt(q, n) = p
    BY <2>1, LookupEffect DEF Unique
  <2> QED BY <2>1, <2>2, LookupEffect
<1>3. ASSUME NEW us \in Seq(Tasks)
      PROVE  LET x == Put(q, n, us) IN
             /\ x \in Seq(Entries) /\ DOMAIN x = DOMAIN q /\ \A i \in DOMAIN q \ {p} : x[i] = q[i]
             /\ x[p].node = n /\ x[p].tasks = us
  <2> DEFINE x == Put(q, n, us)
  <2>1. x \in Seq(Entries) /\ \E r : SetAt(q, x, r, n, us)
    BY <1>1, PutEffect
  <2>2. PICK r : SetAt(q, x, r, n, us)
    BY <2>1
  <2> HIDE DEF x
  <2>3. r = p
    BY <2>2 DEF SetAt
  <2> HIDE DEF n
  <2>4. DOMAIN x = DOMAIN q
    BY <2>2, <2>3 DEF SetAt
  <2>5. x[p] = [node |-> n, tasks |-> us] /\ \A i \in DOMAIN q \ {p} : x[i] = q[i]
    BY <2>2, <2>3 DEF SetAt
  <2> QED BY <2>1, <2>4, <2>5 DEF x
<1>4. /\ Tail(ts) \in Seq(Tasks) /\ Len(ts) = Len(Tail(ts)) + 1 /\ Head(ts) = ts[1]
      /\ DOMAIN Tail(ts) = 1..(Len(ts) - 1) /\ \A k \in DOMAIN Tail(ts) : Tail(ts)[k] = ts[k + 1]
  BY <1>1
<1>5. /\ Front(ts) \in Seq(Tasks) /\ Len(ts) = Len(Front(ts)) + 1 /\ Last(ts) = ts[Len(ts)]
      /\ DOMAIN Front(ts) = 1..(Len(ts) - 1) /\ \A k \in DOMAIN Front(ts) : Front(ts)[k] = ts[k]
  <2>1. Len(ts) \in Nat \ {0}
    BY <1>1
  <2> HIDE DEF ts
  <2>2. Front(ts) = SubSeq(ts, 1, Len(ts) - 1) /\ Last(ts) = ts[Len(ts)]
    BY DEF Front, Last
  <2>3. /\ SubSeq(ts, 1, Len(ts) - 1) \in Seq(Tasks) /\ Len(SubSeq(ts, 1, Len(ts) - 1)) = Len(ts) - 1
        /\ \A k \in 1..(Len(ts) - 1) : SubSeq(ts, 1, Len(ts) - 1)[k] = ts[k]
    <3>1. ts \in Seq(Tasks)
      BY <1>1
    <3> DEFINE m == Len(ts) - 1
    <3>2. m \in 0..Len(ts) /\ m <= Len(ts)
      BY <2>1
    <3> HIDE DEF m
    <3>3. SubSeq(ts, 1, m) \in Seq(Tasks) /\ Len(SubSeq(ts, 1, m)) = m
      BY <3>1, <3>2
    <3>4. \A k \in 1..m : SubSeq(ts, 1, m)[k] = ts[k]
      BY <3>1, <3>2
    <3> QED BY <3>3, <3>4 DEF m
  <2> QED BY <2>1, <2>2, <2>3
<1>6. \A k \in DOMAIN Front(ts) : Front(ts)[k] = ts[k + 0]
  BY <1>5
<1> HIDE DEF n
<1>7. Taken(q, Put(q, n, Tail(ts)), q[p].tasks[IF 1 = 1 THEN 1 ELSE Len(q[p].tasks)])
  <2> DEFINE x == Put(q, n, Tail(ts))
  <2>1. /\ x \in Seq(Entries) /\ DOMAIN x = DOMAIN q /\ \A i \in DOMAIN q \ {p} : x[i] = q[i]
        /\ x[p].node = q[p].node /\ x[p].tasks = Tail(ts)
    BY <1>3, <1>4 DEF n
  <2> HIDE DEF x
  <2>2. Taken(q, x, q[p].tasks[IF 1 = 1 THEN 1 ELSE Len(q[p].tasks)])
    BY <1>4, <2>1, TakeEffect, ZenonT(60)
  <2> QED BY <2>2 DEF x
<1>8. Taken(q, Put(q, n, Front(ts)), q[p].tasks[IF 0 = 1 THEN 1 ELSE Len(q[p].tasks)])
  <2> DEFINE x == Put(q, n, Front(ts))
  <2>1. /\ x \in Seq(Entries) /\ DOMAIN x = DOMAIN q /\ \A i \in DOMAIN q \ {p} : x[i] = q[i]
        /\ x[p].node = q[p].node /\ x[p].tasks = Front(ts)
    BY <1>3, <1>5 DEF n
  <2> HIDE DEF x
  <2>2. \A k \in DOMAIN x[p].tasks : x[p].tasks[k] = q[p].tasks[k + 0]
    BY <1>6, <2>1
  <2>3. Len(q[p].tasks) = Len(x[p].tasks) + 1
    BY <1>5, <2>1
  <2>4. 0 \in {0, 1} /\ x[p].node = q[p].node
    BY <2>1
  <2> HIDE DEF ts, n
  <2>5. Taken(q, x, q[p].tasks[IF 0 = 1 THEN 1 ELSE Len(q[p].tasks)])
    BY <2>1, <2>2, <2>3, <2>4, TakeEffect
  <2> QED BY <2>5 DEF x
<1> QED BY <1>2, <1>4, <1>5, <1>7, <1>8 DEF n

\* One turn of either loop of pump leaves the state, or dispatches a task that it
\* takes out of the queue to the node of one of the entries.
HandsOut(s, j, x) ==
  \/ x = s
  \/ \E i \in DOMAIN s.queues[j], t \in Tasks : \E q :
       /\ Taken(s.queues[j], q, t)
       /\ x = Dispatch([s EXCEPT !.queues[j] = q], t, s.queues[j][i].node)

LEMMA HeadCases ==
  ASSUME NEW s \in States, NEW j \in Jobs, Unique(s.queues[j]), NEW n
  PROVE  HandsOut(s, j, DispatchHead(s, j, n))
<1> DEFINE q == s.queues[j]
           ts == Lookup(q, n)
<1>1. q \in Seq(Entries)
  BY DEF States
<1>2. CASE ts = <<>>
  BY <1>2 DEF HandsOut, DispatchHead
<1>3. CASE ts # <<>>
  <2>1. HasKey(q, n)
    BY <1>1, <1>3, LookupEffect
  <2>2. PICK p : p \in DOMAIN q /\ q[p].node = n /\ ts = q[p].tasks
    BY <1>1, <2>1, LookupEffect
  <2>3. Taken(q, Put(q, n, Tail(ts)), Head(ts))
    BY <1>1, <1>3, <2>2, TakeFrom
  <2>4. Head(ts) \in Tasks
    <3>1. ts \in Seq(Tasks)
      BY <1>1, <2>2, EntryOf
    <3> HIDE DEF ts
    <3> QED BY <1>3, <3>1
  <2>5. DispatchHead(s, j, n) = Dispatch([s EXCEPT !.queues[j] = Put(q, n, Tail(ts))], Head(ts), n)
    <3>1. [s EXCEPT !.queues[j] = Put(@, n, Tail(ts))] = [s EXCEPT !.queues[j] = Put(q, n, Tail(ts))]
      BY DEF States
    <3> QED BY <1>3, <3>1 DEF DispatchHead
  <2> QED BY <2>2, <2>3, <2>4, <2>5 DEF HandsOut
<1> QED BY <1>2, <1>3

\* Some list of a queue is the longest.
LEMMA LongestExists ==
  ASSUME NEW q \in Seq(Entries), NEW D \in SUBSET (DOMAIN q), D # {}
  PROVE  \E i \in D : \A k \in D : Len(q[k].tasks) <= Len(q[i].tasks)
<1> DEFINE bound(m, b) == \A k \in 1..m : k \in DOMAIN q => Len(q[k].tasks) <= b
           I == {m \in 0..Len(q) : \E b \in Nat : bound(m, b)}
           U == {b \in Nat : \A k \in D : Len(q[k].tasks) <= b}
<1>1. Len(q) \in Nat /\ DOMAIN q = 1..Len(q) /\ \A k \in DOMAIN q : Len(q[k].tasks) \in Nat
  BY EntryOf
<1>2. Len(q) \in I
  <2>1. 0 \in I
    <3>1. 1..0 = {} /\ 0 \in 0..Len(q) /\ 0 \in Nat
      BY <1>1
    <3>2. bound(0, 0)
      BY <3>1
    <3> QED BY <3>1, <3>2
  <2>2. ASSUME NEW m \in 1..Len(q), m - 1 \in I
        PROVE  m \in I
    <3>1. PICK b \in Nat : bound(m - 1, b)
      BY <2>2
    <3> DEFINE c == IF Len(q[m].tasks) <= b THEN b ELSE Len(q[m].tasks)
    <3>2. c \in Nat /\ b <= c /\ Len(q[m].tasks) <= c /\ m \in DOMAIN q /\ m \in 0..Len(q)
      BY <1>1
    <3> HIDE DEF c
    <3>3. \A k \in 1..m : k \in DOMAIN q => Len(q[k].tasks) <= c
      <4> SUFFICES ASSUME NEW k \in 1..m, k \in DOMAIN q PROVE Len(q[k].tasks) <= c
        OBVIOUS
      <4>1. Len(q[k].tasks) \in Nat
        BY <1>1
      <4>2. CASE k = m
        BY <3>2, <4>2
      <4>3. CASE k # m
        <5>1. k \in 1..(m - 1)
          BY <4>3
        <5>2. Len(q[k].tasks) <= b
          BY <3>1, <5>1
        <5> QED BY <3>2, <4>1, <5>2
      <4> QED BY <4>2, <4>3
    <3> QED BY <3>2, <3>3
  <2> HIDE DEF I
  <2> QED BY <1>1, <2>1, <2>2, LoopInduction
<1>3. U \in SUBSET Nat /\ U # {}
  <2>1. PICK b \in Nat : bound(Len(q), b)
    BY <1>2
  <2>2. \A k \in D : Len(q[k].tasks) <= b
    BY <1>1, <2>1
  <2> QED BY <2>2
<1> HIDE DEF U
<1>4. PICK b \in U : \A c \in U : b <= c
  BY <1>3, NatMin
<1>5. b \in Nat /\ \A k \in D : Len(q[k].tasks) <= b
  BY <1>4 DEF U
<1>6. ASSUME \A i \in D : Len(q[i].tasks) # b
      PROVE  FALSE
  <2>1. \A k \in D : Len(q[k].tasks) <= b - 1
    BY <1>1, <1>5, <1>6
  <2>2. b - 1 \in Nat
    BY <1>1, <1>5, <2>1
  <2>3. b - 1 \in U
    BY <2>1, <2>2 DEF U
  <2> QED BY <1>4, <1>5, <2>3
<1> QED BY <1>5, <1>6

LEMMA StealCases ==
  ASSUME NEW s \in States, NEW j \in Jobs, Unique(s.queues[j])
  PROVE  HandsOut(s, j, StealOnce(s, j))
<1> DEFINE q == s.queues[j]
           idle == {i \in DOMAIN q : /\ q[i].tasks = <<>> /\ q[i].node \in s.registered
                                     /\ Free(s, q[i].node)}
           donors == {i \in DOMAIN q : Len(q[i].tasks) > 1}
           longest == {i \in donors : \A k \in donors : Len(q[k].tasks) <= Len(q[i].tasks)}
           donor == First(longest)
           ts == q[donor].tasks
           n == q[donor].node
<1>1. q \in Seq(Entries) /\ DOMAIN q = 1..Len(q) /\ Len(q) \in Nat
  <2>1. s.queues \in [Jobs -> Seq(Entries)]
    BY DEF States
  <2>2. q \in Seq(Entries)
    BY <2>1
  <2> HIDE DEF q
  <2> QED BY <2>2
<1>2. CASE idle = {} \/ donors = {}
  <2>1. StealOnce(s, j) = s
    BY <1>2, Zenon DEF StealOnce
  <2> QED BY <2>1 DEF HandsOut
<1>3. CASE ~(idle = {} \/ donors = {})
  <2> HIDE DEF q
  <2>1. First(idle) \in DOMAIN q
    <3>1. idle \in SUBSET Nat /\ idle # {} /\ idle \subseteq DOMAIN q
      BY <1>1, <1>3
    <3> HIDE DEF idle
    <3> QED BY <3>1, FirstIs
  <2>2. donor \in DOMAIN q /\ Len(ts) > 1
    <3>1. donors \in SUBSET (DOMAIN q) /\ donors # {}
      BY <1>3
    <3>2. longest # {} /\ longest \in SUBSET Nat /\ longest \subseteq donors
      <4>1. donors \in SUBSET Nat
        BY <1>1
      <4> HIDE DEF donors
      <4> QED BY <1>1, <3>1, <4>1, LongestExists
    <3>3. First(longest) \in longest
      <4> HIDE DEF longest
      <4> QED BY <3>2, FirstIs
    <3>4. First(longest) \in donors
      BY <3>2, <3>3
    <3> QED BY <3>4
  <2> HIDE DEF donor, idle, donors
  <2>3. ts # <<>> /\ ts \in Seq(Tasks) /\ Last(ts) \in Tasks
    <3>1. ts \in Seq(Tasks)
      BY <1>1, <2>2, EntryOf
    <3>2. Len(<<>>) = 0
      OBVIOUS
    <3>3. Len(ts) \in Nat /\ Len(ts) \in 1..Len(ts)
      BY <2>2, <3>1
    <3> HIDE DEF ts
    <3> QED BY <2>2, <3>1, <3>2, <3>3 DEF Last
  <2>4. Unique(q)
    BY DEF q
  <2>5. Taken(q, Put(q, n, Front(ts)), Last(ts))
    BY <1>1, <2>2, <2>3, <2>4, TakeFrom
  <2>6. StealOnce(s, j) =
          Dispatch([s EXCEPT !.queues[j] = Put(q, n, Front(ts))], Last(ts), q[First(idle)].node)
    <3>1. [s EXCEPT !.queues[j] = Put(@, n, Front(ts))] = [s EXCEPT !.queues[j] = Put(q, n, Front(ts))]
      BY DEF States, q
    <3>2. StealOnce(s, j) = IF idle = {} \/ donors = {} THEN s ELSE
          Dispatch([s EXCEPT !.queues[j] = Put(@, n, Front(ts))], Last(ts), q[First(idle)].node)
      BY DEF StealOnce, q, donor, donors, idle
    <3> QED BY <1>3, <3>1, <3>2
  <2> HIDE DEF ts, n
  <2> QED BY <2>1, <2>3, <2>5, <2>6 DEF HandsOut, q
<1> QED BY <1>2, <1>3

LEMMA TakenSound ==
  ASSUME NEW s, NEW E \in [Jobs -> SUBSET Nodes], Sound(s, E), NEW j \in Jobs, NEW t, NEW q,
         Taken(s.queues[j], q, t)
  PROVE  LET y == [s EXCEPT !.queues[j] = q] IN
         /\ Sound(y, E) /\ Kept(s, y) /\ y \in States /\ WithQueue(s, y, j, q)
         /\ t \in Tasks /\ JobOf(t) = j /\ s.status[t] # "absent"
<1> DEFINE o == s.queues[j]
           y == [s EXCEPT !.queues[j] = q]
<1>1. s \in States /\ QueueSound(s, E, j, o)
  BY DEF Sound, QueuesSound
<1> HIDE DEF o
<1>2. /\ q \in Seq(Entries) /\ DOMAIN q = DOMAIN o /\ In(o, t)
      /\ \A k \in DOMAIN o : q[k].node = o[k].node /\ Len(q[k].tasks) <= Len(o[k].tasks)
      /\ \A r : In(q, r) => In(o, r)
  BY DEF Taken, o
<1>3. \A r : In(o, r) => r \in TasksOf(j) /\ s.status[r] # "absent"
  BY <1>1 DEF QueueSound, Known, In, At
<1>4. \A k \in DOMAIN q : Known(s, j, q[k].tasks)
  BY <1>2, <1>3 DEF Known, In, At
<1>5. j \in PipelineJobs => \A k \in DOMAIN q : Len(q[k].tasks) <= 1
  <2> SUFFICES ASSUME j \in PipelineJobs, NEW k \in DOMAIN q PROVE Len(q[k].tasks) <= 1
    OBVIOUS
  <2>1. o \in Seq(Entries) /\ Len(o[k].tasks) <= 1
    BY <1>1, <1>2 DEF QueueSound
  <2>2. Len(q[k].tasks) \in Nat /\ Len(o[k].tasks) \in Nat
    BY <1>2, <2>1, EntryOf
  <2> QED BY <1>2, <2>1, <2>2
<1>6. Unique(q)
  BY <1>1, <1>2 DEF QueueSound, Unique
<1>7. QueueSound(s, E, j, q)
  BY <1>1, <1>2, <1>4, <1>5, <1>6 DEF QueueSound
<1>8. Sound(y, E) /\ Kept(s, y)
  BY <1>7, NewQueueSound
<1>9. y \in States /\ WithQueue(s, y, j, q)
  BY <1>1, <1>2, QueueEffect
<1> HIDE DEF y
<1>10. t \in Tasks /\ JobOf(t) = j /\ s.status[t] # "absent"
  BY <1>2, <1>3, TaskNames
<1> QED BY <1>8, <1>9, <1>10 DEF y

LEMMA HandsOutSound ==
  ASSUME NEW s, NEW E \in [Jobs -> SUBSET Nodes], Sound(s, E), NEW j \in Jobs, NEW x,
         HandsOut(s, j, x)
  PROVE  Sound(x, E) /\ Kept(s, x)
<1>1. CASE x = s
  BY <1>1, KeptSelf
<1>2. ASSUME NEW i \in DOMAIN s.queues[j], NEW t \in Tasks, NEW q, Taken(s.queues[j], q, t),
             x = Dispatch([s EXCEPT !.queues[j] = q], t, s.queues[j][i].node)
      PROVE  Sound(x, E) /\ Kept(s, x)
  <2> DEFINE n == s.queues[j][i].node
             y == [s EXCEPT !.queues[j] = q]
  <2>1. /\ Sound(y, E) /\ Kept(s, y) /\ WithQueue(s, y, j, q)
        /\ JobOf(t) = j /\ s.status[t] # "absent"
    BY <1>2, TakenSound
  <2>2. x = Dispatch(y, t, n)
    BY <1>2
  <2> HIDE DEF y
  <2>3. n \in Nodes /\ (j \in PipelineJobs => n = First(y.members[j]))
    <3>1. QueueSound(s, E, j, s.queues[j]) /\ y.members = s.members
      BY <2>1 DEF WithQueue, Sound, QueuesSound
    <3>2. s.queues[j] \in Seq(Entries)
      BY <3>1 DEF QueueSound
    <3> QED BY <3>1, <3>2, EntryOf DEF QueueSound
  <2> HIDE DEF n
  <2>4. y.status[t] # "absent"
    BY <2>1 DEF WithQueue, SameTasks
  <2>5. Sound(Dispatch(y, t, n), E) /\ Kept(y, Dispatch(y, t, n))
    BY <2>1, <2>3, <2>4, DispatchSound
  <2> QED BY <2>1, <2>2, <2>5, KeptTransitive
<1> QED BY <1>1, <1>2 DEF HandsOut

-----------------------------------------------------------------------------
(* Loops.  G[k] is a set that the state is in after k turns.                  *)

Runs(g, m, s, F) == g[0] = s /\ \A k \in 1..m : g[k] = F[<<g[k - 1], k>>]
Stays(g, m, G) == \A k \in 0..m : g[k] \in G[k]
LEMMA LoopExists ==
  ASSUME NEW m \in Nat, NEW S, NEW G \in [0..m -> SUBSET S], NEW s \in G[0],
         NEW F \in [S \X (1..m) -> S],
         \A k \in 1..m : \A x \in G[k - 1] : F[<<x, k>>] \in G[k]
  PROVE  \E g \in [0..m -> S] : Runs(g, m, s, F) /\ Stays(g, m, G)
<1> DEFINE run(g, i) == g = [k \in 0..i |-> IF k = 0 THEN s ELSE F[<<g[k - 1], k>>]]
           I == {i \in 0..m : \E g : run(g, i) /\ \A k \in 0..i : g[k] \in G[k]}
<1>1. 0 \in I
  <2> DEFINE g == [k \in 0..0 |-> s]
  <2>1. run(g, 0) /\ \A k \in 0..0 : g[k] \in G[k]
    OBVIOUS
  <2> HIDE DEF g, run
  <2>2. 0 \in 0..m
    OBVIOUS
  <2> QED BY <2>1, <2>2
<1>2. ASSUME NEW i \in 1..m, i - 1 \in I
      PROVE  i \in I
  <2>1. PICK f : run(f, i - 1) /\ \A k \in 0..(i - 1) : f[k] \in G[k]
    BY <1>2
  <2> DEFINE v == F[<<f[i - 1], i>>]
             g == [k \in 0..i |-> IF k = i THEN v ELSE f[k]]
  <2>2. v \in G[i]
    BY <2>1
  <2> HIDE DEF v
  <2>3. g[i - 1] = f[i - 1] /\ g[i] = v /\ i # 0
    OBVIOUS
  <2>4. \A k \in 0..(i - 1) : g[k] = f[k] /\ k # i
    OBVIOUS
  <2>5. \A k \in 1..(i - 1) : g[k - 1] = f[k - 1] /\ f[k] = F[<<f[k - 1], k>>]
    BY <2>1
  <2>6. f[0] = s
    BY <2>1
  <2>7. \A k \in 0..i : g[k] = IF k = 0 THEN s ELSE F[<<g[k - 1], k>>]
    <3> SUFFICES ASSUME NEW k \in 0..i PROVE g[k] = IF k = 0 THEN s ELSE F[<<g[k - 1], k>>]
      OBVIOUS
    <3>1. CASE k = i
      BY <2>3, <3>1 DEF v
    <3>2. CASE k # i /\ k # 0
      <4>1. k \in 1..(i - 1) /\ k \in 0..(i - 1)
        BY <3>2
      <4> HIDE DEF g
      <4> QED BY <2>4, <2>5, <4>1
    <3>3. CASE k # i /\ k = 0
      BY <2>6, <3>3
    <3> QED BY <3>1, <3>2, <3>3
  <2>8. \A k \in 0..i : g[k] \in G[k]
    BY <2>1, <2>2
  <2>9. run(g, i)
    BY <2>7
  <2>10. i \in 0..m
    OBVIOUS
  <2> HIDE DEF g, run
  <2> QED BY <2>8, <2>9, <2>10
<1>3. m \in I
  <2> HIDE DEF I
  <2> QED BY <1>1, <1>2, LoopInduction
<1>4. PICK g : run(g, m) /\ \A k \in 0..m : g[k] \in G[k]
  BY <1>3
<1>5. g \in [0..m -> S]
  BY <1>4
<1>6. g[0] = s /\ \A k \in 1..m : g[k] = F[<<g[k - 1], k>>]
  BY <1>4
<1>7. Runs(g, m, s, F) /\ Stays(g, m, G)
  BY <1>4, <1>6 DEF Runs, Stays
<1> QED BY <1>5, <1>7

\* The same, when each turn stays in one set.
LEMMA LoopWithin ==
  ASSUME NEW m \in Nat, NEW G, NEW s \in G, NEW F \in [G \X (1..m) -> G]
  PROVE  \E g \in [0..m -> G] : Runs(g, m, s, F)
<1> DEFINE H == [k \in 0..m |-> G]
<1>1. H \in [0..m -> SUBSET G] /\ \A k \in 0..m : H[k] = G
  OBVIOUS
<1>2. \A k \in 1..m : k - 1 \in 0..m /\ k \in 0..m
  OBVIOUS
<1>3. 0 \in 0..m
  OBVIOUS
<1> HIDE DEF H
<1>4. \A k \in 1..m : \A x \in H[k - 1] : F[<<x, k>>] \in H[k]
  BY <1>1, <1>2
<1>5. s \in H[0]
  BY <1>1, <1>3
<1> QED BY <1>1, <1>4, <1>5, LoopExists

LEMMA FeedKeyLoop ==
  ASSUME NEW j \in Jobs, NEW i \in Nat \ {0}, NEW G \in SUBSET States, NEW s \in G,
         \A x \in G, n \in Nodes : DispatchHead(x, j, n) \in G
  PROVE  FeedKey(s, j, i) \in G
<1>1. CASE i > Len(s.queues[j])
  BY <1>1 DEF FeedKey
<1>2. CASE ~(i > Len(s.queues[j]))
  <2> DEFINE n == s.queues[j][i].node
             m == Slots(s, n)
             F == [p \in G \X (1..m) |-> DispatchHead(p[1], j, n)]
             run == CHOOSE f : f = [k \in 0..m |-> IF k = 0 THEN s ELSE
                      CHOOSE x \in {DispatchHead(y, j, n) : y \in {f[k - 1]}} : TRUE]
  <2>1. n \in Nodes
    <3>1. s.queues[j] \in Seq(Entries)
      BY DEF States
    <3>2. i \in DOMAIN s.queues[j]
      BY <1>2, <3>1
    <3> QED BY <3>1, <3>2, EntryOf
  <2> HIDE DEF n
  <2>2. m \in Nat
    <3>1. s.active \in [Nodes -> Nat]
      BY DEF States
    <3>2. s.active[n] \in Nat /\ MaxConcurrent \in Nat
      BY <2>1, <3>1, Numbers
    <3> QED BY <3>2 DEF Slots, Free
  <2>3. FeedKey(s, j, i) = run[m]
    BY <1>2 DEF FeedKey, Iterate, n
  <2> HIDE DEF m
  <2>4. \A k \in 1..m : \A x \in G : F[<<x, k>>] = DispatchHead(x, j, n)
    OBVIOUS
  <2>5. F \in [G \X (1..m) -> G]
    BY <2>1
  <2> HIDE DEF F
  <2>6. PICK g \in [0..m -> G] : Runs(g, m, s, F)
    BY <2>2, <2>5, LoopWithin
  <2>7. \A k \in 0..m : k = 0 \/ (k \in 1..m /\ g[k] = DispatchHead(g[k - 1], j, n))
    <3>1. \A k \in 0..m : k = 0 \/ (k \in 1..m /\ k - 1 \in 0..m)
      BY <2>2
    <3>2. \A k \in 0..m : g[k] \in G
      BY <2>6
    <3> QED BY <2>4, <2>6, <3>1, <3>2 DEF Runs
  <2>8. g = [k \in 0..m |-> IF k = 0 THEN s ELSE
               CHOOSE x \in {DispatchHead(y, j, n) : y \in {g[k - 1]}} : TRUE]
    BY <2>2, <2>6, <2>7 DEF Runs
  <2>9. run = [k \in 0..m |-> IF k = 0 THEN s ELSE
                 CHOOSE x \in {DispatchHead(y, j, n) : y \in {run[k - 1]}} : TRUE]
    BY <2>8
  <2> HIDE DEF run
  <2> DEFINE I == {k \in 0..m : run[k] \in G}
  <2>10. 0 \in I
    BY <2>2, <2>9
  <2>11. \A k \in 1..m : k - 1 \in I => k \in I
    <3> SUFFICES ASSUME NEW k \in 1..m, k - 1 \in I PROVE k \in I
      OBVIOUS
    <3>1. run[k] = DispatchHead(run[k - 1], j, n)
      BY <2>2, <2>9
    <3> QED BY <2>1, <2>2, <3>1
  <2>12. m \in I
    <3> HIDE DEF I
    <3> QED BY <2>2, <2>10, <2>11, LoopInduction
  <2> QED BY <2>3, <2>12
<1> QED BY <1>1, <1>2

LEMMA FeedLoop ==
  ASSUME NEW j \in Jobs, NEW G \in SUBSET States, NEW s \in G,
         \A x \in G, k \in 1..NumNodes : FeedKey(x, j, k) \in G
  PROVE  Feed(s, j) \in G
<1> DEFINE m == NumNodes
           F == [p \in G \X (1..m) |-> FeedKey(p[1], j, p[2])]
           run == CHOOSE f : f = [k \in 0..m |-> IF k = 0 THEN s ELSE
                    CHOOSE x \in {FeedKey(y, j, k) : y \in {f[k - 1]}} : TRUE]
<1>1. m \in Nat
  BY Numbers
<1>2. Feed(s, j) = run[m]
  BY DEF Feed, Iterate
<1> HIDE DEF m
<1>3. \A k \in 1..m : \A x \in G : F[<<x, k>>] = FeedKey(x, j, k)
  OBVIOUS
<1>4. F \in [G \X (1..m) -> G]
  BY Numbers DEF m
<1> HIDE DEF F
<1>5. PICK g \in [0..m -> G] : Runs(g, m, s, F)
  BY <1>1, <1>4, LoopWithin
<1>6. \A k \in 0..m : k = 0 \/ (k \in 1..m /\ g[k] = FeedKey(g[k - 1], j, k))
  <2>1. \A k \in 0..m : k = 0 \/ (k \in 1..m /\ k - 1 \in 0..m)
    BY <1>1
  <2>2. \A k \in 0..m : g[k] \in G
    BY <1>5
  <2> QED BY <1>3, <1>5, <2>1, <2>2 DEF Runs
<1>7. g = [k \in 0..m |-> IF k = 0 THEN s ELSE
             CHOOSE x \in {FeedKey(y, j, k) : y \in {g[k - 1]}} : TRUE]
  BY <1>1, <1>5, <1>6 DEF Runs
<1>8. run = [k \in 0..m |-> IF k = 0 THEN s ELSE
               CHOOSE x \in {FeedKey(y, j, k) : y \in {run[k - 1]}} : TRUE]
  BY <1>7
<1> HIDE DEF run
<1> DEFINE I == {k \in 0..m : run[k] \in G}
<1>9. 0 \in I
  BY <1>1, <1>8
<1>10. \A k \in 1..m : k - 1 \in I => k \in I
  <2> SUFFICES ASSUME NEW k \in 1..m, k - 1 \in I PROVE k \in I
    OBVIOUS
  <2>1. run[k] = FeedKey(run[k - 1], j, k)
    BY <1>1, <1>8
  <2> QED BY <1>1, <2>1, Numbers DEF m
<1>11. m \in I
  <2> HIDE DEF I
  <2> QED BY <1>1, <1>9, <1>10, LoopInduction
<1> QED BY <1>2, <1>11

LEMMA StealLoop ==
  ASSUME NEW j \in Jobs, NEW G \in SUBSET States, NEW s \in G,
         \A x \in G : StealOnce(x, j) \in G
  PROVE  Steal(s, j) \in G
<1> DEFINE m == StealLimit
           F == [p \in G \X (1..m) |-> StealOnce(p[1], j)]
           run == CHOOSE f : f = [k \in 0..m |-> IF k = 0 THEN s ELSE
                    CHOOSE x \in {StealOnce(y, j) : y \in {f[k - 1]}} : TRUE]
<1>1. m \in Nat
  BY Numbers
<1>2. Steal(s, j) = run[m]
  BY DEF Steal, Iterate
<1> HIDE DEF m
<1>3. \A k \in 1..m : \A x \in G : F[<<x, k>>] = StealOnce(x, j)
  OBVIOUS
<1>4. F \in [G \X (1..m) -> G]
  BY Numbers DEF m
<1> HIDE DEF F
<1>5. PICK g \in [0..m -> G] : Runs(g, m, s, F)
  BY <1>1, <1>4, LoopWithin
<1>6. \A k \in 0..m : k = 0 \/ (k \in 1..m /\ g[k] = StealOnce(g[k - 1], j))
  <2>1. \A k \in 0..m : k = 0 \/ (k \in 1..m /\ k - 1 \in 0..m)
    BY <1>1
  <2>2. \A k \in 0..m : g[k] \in G
    BY <1>5
  <2> QED BY <1>3, <1>5, <2>1, <2>2 DEF Runs
<1>7. g = [k \in 0..m |-> IF k = 0 THEN s ELSE
             CHOOSE x \in {StealOnce(y, j) : y \in {g[k - 1]}} : TRUE]
  BY <1>1, <1>5, <1>6 DEF Runs
<1>8. run = [k \in 0..m |-> IF k = 0 THEN s ELSE
               CHOOSE x \in {StealOnce(y, j) : y \in {run[k - 1]}} : TRUE]
  BY <1>7
<1> HIDE DEF run
<1> DEFINE I == {k \in 0..m : run[k] \in G}
<1>9. 0 \in I
  BY <1>1, <1>8
<1>10. \A k \in 1..m : k - 1 \in I => k \in I
  <2> SUFFICES ASSUME NEW k \in 1..m, k - 1 \in I PROVE k \in I
    OBVIOUS
  <2>1. run[k] = StealOnce(run[k - 1], j)
    BY <1>1, <1>8
  <2> QED BY <1>1, <2>1, Numbers DEF m
<1>11. m \in I
  <2> HIDE DEF I
  <2> QED BY <1>1, <1>9, <1>10, LoopInduction
<1> QED BY <1>2, <1>11

LEMMA DropLoop ==
  ASSUME NEW j \in Jobs, NEW G \in SUBSET States, NEW s \in G,
         \A x \in G, k \in 1..(Items[j] + 1) : Drop(x, <<j, k>>) \in G
  PROVE  DropAll(s, j) \in G
<1> DEFINE m == Items[j] + 1
           F == [p \in G \X (1..m) |-> Drop(p[1], <<j, p[2]>>)]
           run == CHOOSE f : f = [k \in 0..m |-> IF k = 0 THEN s ELSE
                    CHOOSE x \in {Drop(y, <<j, k>>) : y \in {f[k - 1]}} : TRUE]
<1>1. m \in Nat
  BY TaskNumbers
<1>2. DropAll(s, j) = run[m]
  BY DEF DropAll, Iterate
<1> HIDE DEF m
<1>3. \A k \in 1..m : \A x \in G : F[<<x, k>>] = Drop(x, <<j, k>>)
  OBVIOUS
<1>4. F \in [G \X (1..m) -> G]
  BY Numbers DEF m
<1> HIDE DEF F
<1>5. PICK g \in [0..m -> G] : Runs(g, m, s, F)
  BY <1>1, <1>4, LoopWithin
<1>6. \A k \in 0..m : k = 0 \/ (k \in 1..m /\ g[k] = Drop(g[k - 1], <<j, k>>))
  <2>1. \A k \in 0..m : k = 0 \/ (k \in 1..m /\ k - 1 \in 0..m)
    BY <1>1
  <2>2. \A k \in 0..m : g[k] \in G
    BY <1>5
  <2> QED BY <1>3, <1>5, <2>1, <2>2 DEF Runs
<1>7. g = [k \in 0..m |-> IF k = 0 THEN s ELSE
             CHOOSE x \in {Drop(y, <<j, k>>) : y \in {g[k - 1]}} : TRUE]
  BY <1>1, <1>5, <1>6 DEF Runs
<1>8. run = [k \in 0..m |-> IF k = 0 THEN s ELSE
               CHOOSE x \in {Drop(y, <<j, k>>) : y \in {run[k - 1]}} : TRUE]
  BY <1>7
<1> HIDE DEF run
<1> DEFINE I == {k \in 0..m : run[k] \in G}
<1>9. 0 \in I
  BY <1>1, <1>8
<1>10. \A k \in 1..m : k - 1 \in I => k \in I
  <2> SUFFICES ASSUME NEW k \in 1..m, k - 1 \in I PROVE k \in I
    OBVIOUS
  <2>1. run[k] = Drop(run[k - 1], <<j, k>>)
    BY <1>1, <1>8
  <2> QED BY <1>1, <2>1, Numbers DEF m
<1>11. m \in I
  <2> HIDE DEF I
  <2> QED BY <1>1, <1>9, <1>10, LoopInduction
<1> QED BY <1>2, <1>11

LEMMA SweepJobLoop ==
  ASSUME NEW j \in Jobs, NEW overdue, NEW G \in SUBSET States, NEW s \in G,
         \A x \in G, k \in 1..(Items[j] + 1) : <<j, k>> \in overdue => Requeue(x, <<j, k>>) \in G
  PROVE  Sweep(s, j, overdue) \in G
<1> DEFINE m == Items[j] + 1
           F == [p \in G \X (1..m) |-> IF <<j, p[2]>> \in overdue THEN Requeue(p[1], <<j, p[2]>>) ELSE p[1]]
           run == CHOOSE f : f = [k \in 0..m |-> IF k = 0 THEN s ELSE
                    CHOOSE x \in {IF <<j, k>> \in overdue THEN Requeue(y, <<j, k>>) ELSE y : y \in {f[k - 1]}} : TRUE]
<1>1. m \in Nat
  BY TaskNumbers
<1>2. Sweep(s, j, overdue) = run[m]
  BY DEF Sweep, Iterate
<1> HIDE DEF m
<1>3. \A k \in 1..m : \A x \in G : F[<<x, k>>] = IF <<j, k>> \in overdue THEN Requeue(x, <<j, k>>) ELSE x
  OBVIOUS
<1>4. F \in [G \X (1..m) -> G]
  BY Numbers DEF m
<1> HIDE DEF F
<1>5. PICK g \in [0..m -> G] : Runs(g, m, s, F)
  BY <1>1, <1>4, LoopWithin
<1>6. \A k \in 0..m : k = 0 \/ (k \in 1..m /\ g[k] = IF <<j, k>> \in overdue THEN Requeue(g[k - 1], <<j, k>>) ELSE g[k - 1])
  <2>1. \A k \in 0..m : k = 0 \/ (k \in 1..m /\ k - 1 \in 0..m)
    BY <1>1
  <2>2. \A k \in 0..m : g[k] \in G
    BY <1>5
  <2> QED BY <1>3, <1>5, <2>1, <2>2 DEF Runs
<1>7. g = [k \in 0..m |-> IF k = 0 THEN s ELSE
             CHOOSE x \in {IF <<j, k>> \in overdue THEN Requeue(y, <<j, k>>) ELSE y : y \in {g[k - 1]}} : TRUE]
  BY <1>1, <1>5, <1>6 DEF Runs
<1>8. run = [k \in 0..m |-> IF k = 0 THEN s ELSE
               CHOOSE x \in {IF <<j, k>> \in overdue THEN Requeue(y, <<j, k>>) ELSE y : y \in {run[k - 1]}} : TRUE]
  BY <1>7
<1> HIDE DEF run
<1> DEFINE I == {k \in 0..m : run[k] \in G}
<1>9. 0 \in I
  BY <1>1, <1>8
<1>10. \A k \in 1..m : k - 1 \in I => k \in I
  <2> SUFFICES ASSUME NEW k \in 1..m, k - 1 \in I PROVE k \in I
    OBVIOUS
  <2>1. run[k] = IF <<j, k>> \in overdue THEN Requeue(run[k - 1], <<j, k>>) ELSE run[k - 1]
    BY <1>1, <1>8, SMTT(40)
  <2> QED BY <1>1, <2>1, Numbers DEF m
<1>11. m \in I
  <2> HIDE DEF I
  <2> QED BY <1>1, <1>9, <1>10, LoopInduction
<1> QED BY <1>2, <1>11

LEMMA SweepLoop ==
  ASSUME NEW overdue, NEW G \in SUBSET States, NEW s \in G,
         \A x \in G, j \in Jobs : Sweep(x, j, overdue) \in G
  PROVE  Iterate(LAMBDA x, j : Sweep(x, j, overdue), s, NumJobs) \in G
<1> DEFINE m == NumJobs
           F == [p \in G \X (1..m) |-> Sweep(p[1], p[2], overdue)]
           run == CHOOSE f : f = [k \in 0..m |-> IF k = 0 THEN s ELSE
                    CHOOSE x \in {Sweep(y, k, overdue) : y \in {f[k - 1]}} : TRUE]
<1>1. m \in Nat
  BY Numbers
<1>2. Iterate(LAMBDA x, j : Sweep(x, j, overdue), s, NumJobs) = run[m]
  BY DEF Iterate
<1> HIDE DEF m
<1>3. \A k \in 1..m : \A x \in G : F[<<x, k>>] = Sweep(x, k, overdue)
  OBVIOUS
<1>4. F \in [G \X (1..m) -> G]
  BY Numbers DEF m
<1> HIDE DEF F
<1>5. PICK g \in [0..m -> G] : Runs(g, m, s, F)
  BY <1>1, <1>4, LoopWithin
<1>6. \A k \in 0..m : k = 0 \/ (k \in 1..m /\ g[k] = Sweep(g[k - 1], k, overdue))
  <2>1. \A k \in 0..m : k = 0 \/ (k \in 1..m /\ k - 1 \in 0..m)
    BY <1>1
  <2>2. \A k \in 0..m : g[k] \in G
    BY <1>5
  <2> QED BY <1>3, <1>5, <2>1, <2>2 DEF Runs
<1>7. g = [k \in 0..m |-> IF k = 0 THEN s ELSE
             CHOOSE x \in {Sweep(y, k, overdue) : y \in {g[k - 1]}} : TRUE]
  BY <1>1, <1>5, <1>6 DEF Runs
<1>8. run = [k \in 0..m |-> IF k = 0 THEN s ELSE
               CHOOSE x \in {Sweep(y, k, overdue) : y \in {run[k - 1]}} : TRUE]
  BY <1>7
<1> HIDE DEF run
<1> DEFINE I == {k \in 0..m : run[k] \in G}
<1>9. 0 \in I
  BY <1>1, <1>8
<1>10. \A k \in 1..m : k - 1 \in I => k \in I
  <2> SUFFICES ASSUME NEW k \in 1..m, k - 1 \in I PROVE k \in I
    OBVIOUS
  <2>1. run[k] = Sweep(run[k - 1], k, overdue)
    BY <1>1, <1>8
  <2> QED BY <1>1, <2>1, Numbers DEF m
<1>11. m \in I
  <2> HIDE DEF I
  <2> QED BY <1>1, <1>9, <1>10, LoopInduction
<1> QED BY <1>2, <1>11

LEMMA RequeueLoop ==
  ASSUME NEW ts \in Seq(Tasks), NEW G \in [0..(Len(ts)) -> SUBSET States], NEW s \in G[0],
         \A k \in 1..(Len(ts)) : \A x \in G[k - 1] : Requeue(x, ts[k]) \in G[k]
  PROVE  RequeueAll(s, ts) \in G[Len(ts)]
<1> DEFINE m == Len(ts)
           F == [p \in States \X (1..m) |-> IF p[1] \in G[p[2] - 1] THEN Requeue(p[1], ts[p[2]]) ELSE p[1]]
           run == CHOOSE f : f = [k \in 0..m |-> IF k = 0 THEN s ELSE
                    CHOOSE x \in {Requeue(y, ts[k]) : y \in {f[k - 1]}} : TRUE]
<1>1. m \in Nat
  OBVIOUS
<1>2. RequeueAll(s, ts) = run[m]
  BY DEF RequeueAll, Iterate
<1>3. \A k \in 1..m : \A x \in G[k - 1] : Requeue(x, ts[k]) \in G[k]
  OBVIOUS
<1>4. G \in [0..m -> SUBSET States]
  OBVIOUS
<1> HIDE DEF m
<1>5. \A k \in 1..m : k - 1 \in 0..m /\ k \in 0..m /\ G[k - 1] \subseteq States /\ G[k] \subseteq States
  <2>1. \A k \in 1..m : k - 1 \in 0..m /\ k \in 0..m
    BY <1>1
  <2> QED BY <1>4, <2>1
<1>6. \A k \in 1..m : \A x \in G[k - 1] : F[<<x, k>>] = Requeue(x, ts[k])
  BY <1>5
<1>7. F \in [States \X (1..m) -> States]
  <2> SUFFICES ASSUME NEW x \in States, NEW k \in 1..m, x \in G[k - 1]
               PROVE  Requeue(x, ts[k]) \in States
    OBVIOUS
  <2> QED BY <1>3, <1>5
<1> HIDE DEF F
<1>8. \A k \in 1..m : \A x \in G[k - 1] : F[<<x, k>>] \in G[k]
  BY <1>3, <1>6
<1>9. PICK g \in [0..m -> States] : Runs(g, m, s, F) /\ Stays(g, m, G)
  BY <1>1, <1>4, <1>7, <1>8, LoopExists
<1>10. \A k \in 0..m : k = 0 \/ (k \in 1..m /\ g[k] = Requeue(g[k - 1], ts[k]))
  <2>1. \A k \in 0..m : k = 0 \/ k \in 1..m
    BY <1>1
  <2> QED BY <1>5, <1>6, <1>9, <2>1 DEF Runs, Stays
<1>11. g = [k \in 0..m |-> IF k = 0 THEN s ELSE
              CHOOSE x \in {Requeue(y, ts[k]) : y \in {g[k - 1]}} : TRUE]
  BY <1>1, <1>9, <1>10 DEF Runs
<1>12. run = [k \in 0..m |-> IF k = 0 THEN s ELSE
                CHOOSE x \in {Requeue(y, ts[k]) : y \in {run[k - 1]}} : TRUE]
  BY <1>11
<1> HIDE DEF run
<1> DEFINE I == {k \in 0..m : run[k] \in G[k]}
<1>13. 0 \in I
  BY <1>1, <1>12
<1>14. \A k \in 1..m : k - 1 \in I => k \in I
  <2> SUFFICES ASSUME NEW k \in 1..m, k - 1 \in I PROVE k \in I
    OBVIOUS
  <2>1. run[k] = Requeue(run[k - 1], ts[k])
    BY <1>1, <1>12
  <2> QED BY <1>3, <1>5, <2>1
<1>15. m \in I
  <2> HIDE DEF I
  <2> QED BY <1>1, <1>13, <1>14, LoopInduction
<1> QED BY <1>2, <1>15 DEF m

LEMMA ReclaimLoop ==
  ASSUME NEW j \in Jobs, NEW n \in Nodes, NEW G \in [0..(Items[j] + 1) -> SUBSET States], NEW s \in G[0],
         \A k \in 1..(Items[j] + 1) : \A x \in G[k - 1] : Reclaim(x, <<j, k>>, n) \in G[k]
  PROVE  ReclaimAll(s, j, n) \in G[Items[j] + 1]
<1> DEFINE m == Items[j] + 1
           F == [p \in States \X (1..m) |-> IF p[1] \in G[p[2] - 1] THEN Reclaim(p[1], <<j, p[2]>>, n) ELSE p[1]]
           run == CHOOSE f : f = [k \in 0..m |-> IF k = 0 THEN s ELSE
                    CHOOSE x \in {Reclaim(y, <<j, k>>, n) : y \in {f[k - 1]}} : TRUE]
<1>1. m \in Nat
  BY TaskNumbers
<1>2. ReclaimAll(s, j, n) = run[m]
  BY DEF ReclaimAll, Iterate
<1>3. \A k \in 1..m : \A x \in G[k - 1] : Reclaim(x, <<j, k>>, n) \in G[k]
  OBVIOUS
<1>4. G \in [0..m -> SUBSET States]
  OBVIOUS
<1> HIDE DEF m
<1>5. \A k \in 1..m : k - 1 \in 0..m /\ k \in 0..m /\ G[k - 1] \subseteq States /\ G[k] \subseteq States
  <2>1. \A k \in 1..m : k - 1 \in 0..m /\ k \in 0..m
    BY <1>1
  <2> QED BY <1>4, <2>1
<1>6. \A k \in 1..m : \A x \in G[k - 1] : F[<<x, k>>] = Reclaim(x, <<j, k>>, n)
  BY <1>5
<1>7. F \in [States \X (1..m) -> States]
  <2> SUFFICES ASSUME NEW x \in States, NEW k \in 1..m, x \in G[k - 1]
               PROVE  Reclaim(x, <<j, k>>, n) \in States
    OBVIOUS
  <2> QED BY <1>3, <1>5
<1> HIDE DEF F
<1>8. \A k \in 1..m : \A x \in G[k - 1] : F[<<x, k>>] \in G[k]
  BY <1>3, <1>6
<1>9. PICK g \in [0..m -> States] : Runs(g, m, s, F) /\ Stays(g, m, G)
  BY <1>1, <1>4, <1>7, <1>8, LoopExists
<1>10. \A k \in 0..m : k = 0 \/ (k \in 1..m /\ g[k] = Reclaim(g[k - 1], <<j, k>>, n))
  <2>1. \A k \in 0..m : k = 0 \/ k \in 1..m
    BY <1>1
  <2> QED BY <1>5, <1>6, <1>9, <2>1 DEF Runs, Stays
<1>11. g = [k \in 0..m |-> IF k = 0 THEN s ELSE
              CHOOSE x \in {Reclaim(y, <<j, k>>, n) : y \in {g[k - 1]}} : TRUE]
  BY <1>1, <1>9, <1>10 DEF Runs
<1>12. run = [k \in 0..m |-> IF k = 0 THEN s ELSE
                CHOOSE x \in {Reclaim(y, <<j, k>>, n) : y \in {run[k - 1]}} : TRUE]
  BY <1>11
<1> HIDE DEF run
<1> DEFINE I == {k \in 0..m : run[k] \in G[k]}
<1>13. 0 \in I
  BY <1>1, <1>12
<1>14. \A k \in 1..m : k - 1 \in I => k \in I
  <2> SUFFICES ASSUME NEW k \in 1..m, k - 1 \in I PROVE k \in I
    OBVIOUS
  <2>1. run[k] = Reclaim(run[k - 1], <<j, k>>, n)
    BY <1>1, <1>12
  <2> QED BY <1>3, <1>5, <2>1
<1>15. m \in I
  <2> HIDE DEF I
  <2> QED BY <1>1, <1>13, <1>14, LoopInduction
<1> QED BY <1>2, <1>15 DEF m

LEMMA LoseLoop ==
  ASSUME NEW n \in Nodes, NEW G \in [0..(NumJobs) -> SUBSET States], NEW s \in G[0],
         \A k \in 1..(NumJobs) : \A x \in G[k - 1] : LoseIn(x, k, n) \in G[k]
  PROVE  Iterate(LAMBDA x, j : LoseIn(x, j, n), s, NumJobs) \in G[NumJobs]
<1> DEFINE m == NumJobs
           F == [p \in States \X (1..m) |-> IF p[1] \in G[p[2] - 1] THEN LoseIn(p[1], p[2], n) ELSE p[1]]
           run == CHOOSE f : f = [k \in 0..m |-> IF k = 0 THEN s ELSE
                    CHOOSE x \in {LoseIn(y, k, n) : y \in {f[k - 1]}} : TRUE]
<1>1. m \in Nat
  BY Numbers
<1>2. Iterate(LAMBDA x, j : LoseIn(x, j, n), s, NumJobs) = run[m]
  BY DEF Iterate
<1>3. \A k \in 1..m : \A x \in G[k - 1] : LoseIn(x, k, n) \in G[k]
  OBVIOUS
<1>4. G \in [0..m -> SUBSET States]
  OBVIOUS
<1> HIDE DEF m
<1>5. \A k \in 1..m : k - 1 \in 0..m /\ k \in 0..m /\ G[k - 1] \subseteq States /\ G[k] \subseteq States
  <2>1. \A k \in 1..m : k - 1 \in 0..m /\ k \in 0..m
    BY <1>1
  <2> QED BY <1>4, <2>1
<1>6. \A k \in 1..m : \A x \in G[k - 1] : F[<<x, k>>] = LoseIn(x, k, n)
  BY <1>5
<1>7. F \in [States \X (1..m) -> States]
  <2> SUFFICES ASSUME NEW x \in States, NEW k \in 1..m, x \in G[k - 1]
               PROVE  LoseIn(x, k, n) \in States
    OBVIOUS
  <2> QED BY <1>3, <1>5
<1> HIDE DEF F
<1>8. \A k \in 1..m : \A x \in G[k - 1] : F[<<x, k>>] \in G[k]
  BY <1>3, <1>6
<1>9. PICK g \in [0..m -> States] : Runs(g, m, s, F) /\ Stays(g, m, G)
  BY <1>1, <1>4, <1>7, <1>8, LoopExists
<1>10. \A k \in 0..m : k = 0 \/ (k \in 1..m /\ g[k] = LoseIn(g[k - 1], k, n))
  <2>1. \A k \in 0..m : k = 0 \/ k \in 1..m
    BY <1>1
  <2> QED BY <1>5, <1>6, <1>9, <2>1 DEF Runs, Stays
<1>11. g = [k \in 0..m |-> IF k = 0 THEN s ELSE
              CHOOSE x \in {LoseIn(y, k, n) : y \in {g[k - 1]}} : TRUE]
  BY <1>1, <1>9, <1>10 DEF Runs
<1>12. run = [k \in 0..m |-> IF k = 0 THEN s ELSE
                CHOOSE x \in {LoseIn(y, k, n) : y \in {run[k - 1]}} : TRUE]
  BY <1>11
<1> HIDE DEF run
<1> DEFINE I == {k \in 0..m : run[k] \in G[k]}
<1>13. 0 \in I
  BY <1>1, <1>12
<1>14. \A k \in 1..m : k - 1 \in I => k \in I
  <2> SUFFICES ASSUME NEW k \in 1..m, k - 1 \in I PROVE k \in I
    OBVIOUS
  <2>1. run[k] = LoseIn(run[k - 1], k, n)
    BY <1>1, <1>12
  <2> QED BY <1>3, <1>5, <2>1
<1>15. m \in I
  <2> HIDE DEF I
  <2> QED BY <1>1, <1>13, <1>14, LoopInduction
<1> QED BY <1>2, <1>15 DEF m

\* A set closed under the turns of pump's two loops is closed under both loops.
LEMMA PumpLoop ==
  ASSUME NEW j \in Jobs, NEW G \in SUBSET States, NEW s \in G,
         \A x \in G : Unique(x.queues[j]),
         \A x \in G : \A y : HandsOut(x, j, y) => y \in G
  PROVE  Steal(Feed(s, j), j) \in G
<1>1. \A x \in G, n \in Nodes : DispatchHead(x, j, n) \in G
  BY HeadCases
<1>2. \A x \in G, k \in 1..NumNodes : FeedKey(x, j, k) \in G
  <2>1. \A k \in 1..NumNodes : k \in Nat \ {0}
    BY Numbers
  <2> QED BY <1>1, <2>1, FeedKeyLoop
<1>3. Feed(s, j) \in G
  BY <1>2, FeedLoop
<1>4. \A x \in G : StealOnce(x, j) \in G
  BY StealCases
<1> QED BY <1>3, <1>4, StealLoop

-----------------------------------------------------------------------------
(* The handlers keep the coordinator sound.                                  *)

Sounds(s, E) == {x \in States : Sound(x, E) /\ Kept(s, x)}

LEMMA PumpSound ==
  ASSUME NEW s, NEW E \in [Jobs -> SUBSET Nodes], Sound(s, E), NEW j \in Jobs
  PROVE  Sound(Pump(s, j), E) /\ Kept(s, Pump(s, j))
<1> DEFINE G == Sounds(s, E)
           y == Steal(Feed(s, j), j)
<1>1. G \in SUBSET States /\ s \in G
  BY KeptSelf DEF Sound, Sounds
<1>2. \A x \in G : Unique(x.queues[j])
  BY DEF Sounds, Sound, QueuesSound, QueueSound
<1>3. ASSUME NEW x \in G, NEW z, HandsOut(x, j, z) PROVE z \in G
  <2>1. Sound(z, E) /\ Kept(x, z)
    BY <1>3, HandsOutSound DEF Sounds
  <2> QED BY <2>1, KeptTransitive DEF Sounds, Sound
<1>4. y \in G
  <2> HIDE DEF G
  <2> QED BY <1>1, <1>2, <1>3, PumpLoop
<1> HIDE DEF y
<1>5. Sound(MaybeFinish(y, j), E) /\ Kept(s, MaybeFinish(y, j))
  BY <1>4, FinishSound, KeptTransitive DEF Sounds
<1>6. Pump(s, j) = s \/ Pump(s, j) = MaybeFinish(y, j)
  BY DEF Pump, y
<1> QED BY <1>5, <1>6, KeptSelf

LEMMA RequeueAllSound ==
  ASSUME NEW s, NEW E \in [Jobs -> SUBSET Nodes], Sound(s, E), NEW ts \in Seq(Tasks),
         \A k \in DOMAIN ts : s.status[ts[k]] # "absent"
  PROVE  Sound(RequeueAll(s, ts), E) /\ Kept(s, RequeueAll(s, ts))
<1> DEFINE S == Sounds(s, E)
           G == [k \in 0..Len(ts) |-> S]
<1>1. S \in SUBSET States /\ s \in S
  BY KeptSelf DEF Sound, Sounds
<1>2. ASSUME NEW x \in S, NEW k \in 1..Len(ts) PROVE Requeue(x, ts[k]) \in S
  <2>1. Sound(x, E) /\ Kept(s, x) /\ ts[k] \in Tasks /\ x.status[ts[k]] # "absent"
    BY DEF Sounds, Kept
  <2>2. Sound(Requeue(x, ts[k]), E) /\ Kept(x, Requeue(x, ts[k]))
    BY <2>1, RequeueSound
  <2> QED BY <2>1, <2>2, KeptTransitive DEF Sounds, Sound
<1> HIDE DEF S
<1>3. Len(ts) \in Nat /\ \A k \in 1..Len(ts) : k - 1 \in 0..Len(ts) /\ k \in 0..Len(ts)
  OBVIOUS
<1>4. G \in [0..Len(ts) -> SUBSET States] /\ \A k \in 0..Len(ts) : G[k] = S
  BY <1>1
<1>5. 0 \in 0..Len(ts) /\ Len(ts) \in 0..Len(ts)
  BY <1>3
<1> HIDE DEF G
<1>6. s \in G[0] /\ \A k \in 1..Len(ts) : \A x \in G[k - 1] : Requeue(x, ts[k]) \in G[k]
  BY <1>1, <1>2, <1>3, <1>4, <1>5
<1>7. RequeueAll(s, ts) \in G[Len(ts)]
  BY <1>4, <1>6, RequeueLoop
<1> QED BY <1>4, <1>5, <1>7 DEF S, Sounds

LEMMA ReclaimAllSound ==
  ASSUME NEW s, NEW E \in [Jobs -> SUBSET Nodes], Sound(s, E), NEW j \in Jobs, NEW n \in Nodes
  PROVE  Sound(ReclaimAll(s, j, n), E) /\ Kept(s, ReclaimAll(s, j, n))
<1> DEFINE S == Sounds(s, E)
           m == Items[j] + 1
           G == [k \in 0..m |-> S]
<1>1. S \in SUBSET States /\ s \in S
  BY KeptSelf DEF Sound, Sounds
<1>2. ASSUME NEW x \in S, NEW k \in 1..m PROVE Reclaim(x, <<j, k>>, n) \in S
  <2>1. Sound(x, E) /\ Kept(s, x) /\ <<j, k>> \in Tasks
    BY TaskNumbers, TaskNames DEF Sounds
  <2>2. HeldOn(x, <<j, k>>, n) => x.status[<<j, k>>] # "absent"
    BY DEF HeldOn
  <2>3. HeldOn(x, <<j, k>>, n) => Sound(Requeue(x, <<j, k>>), E) /\ Kept(x, Requeue(x, <<j, k>>))
    BY <2>1, <2>2, RequeueSound
  <2> QED BY <2>1, <2>3, KeptTransitive DEF Sounds, Sound, Reclaim
<1>3. m \in Nat /\ \A k \in 1..m : k - 1 \in 0..m /\ k \in 0..m
  BY TaskNumbers
<1> HIDE DEF S
<1>4. G \in [0..m -> SUBSET States] /\ \A k \in 0..m : G[k] = S
  BY <1>1
<1>5. 0 \in 0..m /\ m \in 0..m
  BY <1>3
<1> HIDE DEF G
<1>6. s \in G[0] /\ \A k \in 1..m : \A x \in G[k - 1] : Reclaim(x, <<j, k>>, n) \in G[k]
  BY <1>1, <1>2, <1>3, <1>4, <1>5
<1>7. ReclaimAll(s, j, n) \in G[m]
  BY <1>4, <1>6, ReclaimLoop
<1> QED BY <1>4, <1>5, <1>7 DEF S, Sounds

\* The job's queue, without the lost node's list.
Detached(s, j, n) == [s EXCEPT !.queues[j] = Delete(s.queues[j], n)]
LEMMA MoveCases ==
  ASSUME NEW s \in States, NEW j \in Jobs, NEW n
  PROVE  LET lost == Lookup(s.queues[j], n)
             rest == Delete(s.queues[j], n)
         IN /\ rest = <<>> => MoveQueue(s, j, n) = RequeueAll(Detached(s, j, n), lost)
            /\ rest # <<>> => MoveQueue(s, j, n) =
                 [Detached(s, j, n) EXCEPT !.queues[j] = Put(rest, rest[1].node, rest[1].tasks \o lost)]
<1> DEFINE rest == Delete(s.queues[j], n)
           d == [s EXCEPT !.queues[j] = rest]
           v(q) == Put(q, rest[1].node, rest[1].tasks \o Lookup(s.queues[j], n))
<1>1. d.queues[j] = rest
  BY DEF States
<1>2. [d EXCEPT !.queues[j] = v(@)] = [d EXCEPT !.queues[j] = v(rest)]
  BY <1>1
<1> QED BY <1>2 DEF MoveQueue, Detached

LEMMA MoveQueueSound ==
  ASSUME NEW s, NEW E \in [Jobs -> SUBSET Nodes], Sound(s, E), NEW j \in Jobs, NEW n \in Nodes,
         E[j] \subseteq {n}
  PROVE  LET x == MoveQueue(s, j, n) IN Sound(x, [E EXCEPT ![j] = {}]) /\ Kept(s, x)
<1> DEFINE x == MoveQueue(s, j, n)
           D == [E EXCEPT ![j] = {}]
           q == s.queues[j]
           lost == Lookup(q, n)
           rest == Delete(q, n)
           d == Detached(s, j, n)
<1>1. s \in States /\ QueueSound(s, E, j, q)
  BY DEF Sound, QueuesSound
<1>2. D \in [Jobs -> SUBSET Nodes] /\ D[j] = {} /\ \A i \in Jobs \ {j} : D[i] = E[i]
  OBVIOUS
<1>3. q \in Seq(Entries) /\ Unique(q)
  BY <1>1 DEF QueueSound
<1> HIDE DEF q, D
<1>4. /\ rest \in Seq(Entries) /\ Unique(rest) /\ ~HasKey(rest, n)
      /\ \A i \in DOMAIN rest : \E k \in DOMAIN q : rest[i] = q[k]
      /\ j \in PipelineJobs => rest = <<>> \/ (rest = q /\ lost = <<>>)
  <2>1. /\ rest \in Seq(Entries) /\ Unique(rest) /\ ~HasKey(rest, n)
        /\ ~HasKey(q, n) => rest = q
        /\ HasKey(q, n) =>
              /\ Len(rest) = Len(q) - 1
              /\ \A i \in DOMAIN rest : rest[i] = IF i < KeyAt(q, n) THEN q[i] ELSE q[i + 1]
    BY <1>3, DeleteEffect
  <2> HIDE DEF rest
  <2>2. \A i \in DOMAIN rest : \E k \in DOMAIN q : rest[i] = q[k]
    <3>1. CASE HasKey(q, n)
      <4>1. \A i \in DOMAIN rest : i \in DOMAIN q /\ i + 1 \in DOMAIN q
        BY <1>3, <2>1, <3>1
      <4> QED BY <2>1, <3>1, <4>1
    <3> QED BY <2>1, <3>1
  <2>3. ASSUME j \in PipelineJobs PROVE rest = <<>> \/ (rest = q /\ lost = <<>>)
    <3>1. CASE HasKey(q, n)
      <4>1. Len(rest) = Len(q) - 1 /\ Len(q) \in Nat /\ Len(rest) \in Nat /\ DOMAIN q = 1..Len(q)
        BY <1>3, <2>1, <3>1
      <4>2. Len(q) <= 1
        BY <1>1, <2>3, <4>1 DEF QueueSound
      <4>3. Len(rest) = 0
        BY <4>1, <4>2
      <4> QED BY <2>1, <4>3
    <3> QED BY <1>3, <2>1, <3>1, LookupEffect
  <2> QED BY <2>1, <2>2, <2>3
<1> HIDE DEF rest
<1>5. QueueSound(s, D, j, rest)
  <2>1. s.jobStatus[j] \in Live => \A i \in DOMAIN rest : rest[i].node \in s.registered \cup D[j]
    <3>1. ASSUME s.jobStatus[j] \in Live, NEW i \in DOMAIN rest
          PROVE  rest[i].node \in s.registered
      <4>1. rest[i].node # n
        BY <1>4 DEF HasKey
      <4>2. rest[i].node \in s.registered \cup E[j]
        BY <1>1, <1>4, <3>1 DEF QueueSound
      <4> QED BY <4>1, <4>2
    <3> QED BY <3>1
  <2>2. \A i \in DOMAIN rest : Known(s, j, rest[i].tasks)
    BY <1>1, <1>4 DEF QueueSound
  <2>3. DOMAIN <<>> = {}
    OBVIOUS
  <2>4. j \in PipelineJobs => \A i \in DOMAIN rest :
          i = 1 /\ Len(rest[i].tasks) <= 1 /\ rest[i].node = First(s.members[j])
    BY <1>1, <1>4, <2>3 DEF QueueSound
  <2> QED BY <1>4, <2>1, <2>2, <2>4 DEF QueueSound
<1>6. Known(s, j, lost) /\ lost \in Seq(Tasks)
  <2>1. CASE HasKey(q, n)
    BY <1>1, <1>3, <2>1, LookupEffect DEF QueueSound
  <2>2. CASE ~HasKey(q, n)
    BY <1>3, <2>2, LookupEffect DEF Known
  <2> QED BY <2>1, <2>2
<1>7. QueueSound(s, D, j, s.queues[j]) \/ s.jobStatus[j] \in Live
  BY <1>1 DEF QueueSound, q
<1>8. Sound(d, D) /\ Kept(s, d) /\ d.status = s.status
  <2>2. d \in States /\ WithQueue(s, d, j, rest)
    BY <1>1, <1>4, QueueEffect DEF Detached, rest, q
  <2> HIDE DEF d
  <2>3. /\ SameJobs(s, d) /\ SameTasks(s, d) /\ SameNodes(s, d) /\ d.inbox = s.inbox
        /\ d.members = s.members
        /\ d.queues[j] = rest /\ \A i \in Jobs \ {j} : d.queues[i] = s.queues[i]
    BY <1>1, <2>2 DEF WithQueue, SameLinks, States
  <2>4. \A i \in Jobs \ {j} : QueueSound(s, D, i, d.queues[i])
    BY <1>2, <2>3 DEF Sound, QueuesSound, QueueSound
  <2>5. QueuesSound(d, D)
    BY <1>1, <1>2, <1>5, <2>2, <2>3, <2>4, QueueSoundMoves DEF QueuesSound, SameJobs, SameTasks, SameNodes
  <2>6. Sound(d, D)
    BY <2>2, <2>3, <2>5 DEF Sound, Counted, PipelinesSound, AbsentSound, SameJobs, SameTasks
  <2> QED BY <2>3, <2>6 DEF Kept, SameJobs, SameTasks
<1>9. CASE rest = <<>>
  <2>1. x = RequeueAll(d, lost)
    BY <1>1, <1>9, MoveCases DEF rest, q
  <2>2. \A k \in DOMAIN lost : d.status[lost[k]] # "absent"
    BY <1>6, <1>8 DEF Known
  <2> HIDE DEF d, lost, x
  <2>3. Sound(RequeueAll(d, lost), D) /\ Kept(d, RequeueAll(d, lost))
    BY <1>2, <1>6, <1>8, <2>2, RequeueAllSound
  <2> QED BY <1>8, <2>1, <2>3, KeptTransitive DEF x, D
<1>10. CASE rest # <<>>
  <2> DEFINE ts == rest[1].tasks \o lost
             h == rest[1].node
  <2>1. x = [d EXCEPT !.queues[j] = Put(rest, h, ts)]
    BY <1>1, <1>10, MoveCases DEF rest, q
  <2>2. 1 \in DOMAIN rest
    BY <1>4, <1>10
  <2>3. h \in Nodes /\ rest[1].tasks \in Seq(Tasks) /\ ts \in Seq(Tasks) /\ HasKey(rest, h)
    BY <1>4, <1>6, <2>2, EntryOf DEF HasKey
  <2>4. Known(s, j, ts)
    <3>1. Known(s, j, rest[1].tasks)
      BY <1>5, <2>2 DEF QueueSound
    <3>2. \A k \in DOMAIN ts : (\E i \in DOMAIN lost : ts[k] = lost[i])
                               \/ \E i \in DOMAIN rest[1].tasks : ts[k] = rest[1].tasks[i]
      <4> DEFINE a == rest[1].tasks
      <4>1. a \in Seq(Tasks) /\ lost \in Seq(Tasks)
        BY <1>6, <2>3
      <4> HIDE DEF a, lost
      <4>2. \A k \in DOMAIN (a \o lost) : (\E i \in DOMAIN lost : (a \o lost)[k] = lost[i])
                               \/ \E i \in DOMAIN a : (a \o lost)[k] = a[i]
        BY <4>1
      <4> QED BY <4>2 DEF a, lost
    <3> HIDE DEF ts
    <3> QED BY <1>6, <3>1, <3>2 DEF Known
  <2>5. j \in PipelineJobs => Len(ts) <= 1 /\ h = First(s.members[j])
    <3> SUFFICES ASSUME j \in PipelineJobs PROVE Len(ts) <= 1 /\ h = First(s.members[j])
      OBVIOUS
    <3>1. lost = <<>>
      BY <1>4, <1>10
    <3>2. ts = rest[1].tasks
      BY <2>3, <3>1
    <3> HIDE DEF ts
    <3> QED BY <1>5, <2>2, <3>2 DEF QueueSound
  <2> HIDE DEF ts, h, lost
  <2>6. QueueSound(s, D, j, Put(rest, h, ts))
    BY <1>1, <1>2, <1>5, <2>3, <2>4, <2>5, PutSound
  <2>7. d.registered = s.registered /\ d.jobStatus = s.jobStatus /\ d.members = s.members /\ d \in States
    <3>1. d \in States /\ WithQueue(s, d, j, rest)
      BY <1>1, <1>4, QueueEffect DEF Detached, rest, q
    <3> QED BY <3>1 DEF WithQueue, SameNodes, SameJobs
  <2> HIDE DEF d
  <2>8. QueueSound(d, D, j, Put(rest, h, ts))
    BY <1>1, <1>2, <1>8, <2>6, <2>7, QueueSoundMoves
  <2>9. LET y == [d EXCEPT !.queues[j] = Put(rest, h, ts)] IN Sound(y, D) /\ Kept(d, y)
    BY <1>2, <1>8, <2>8, NewQueueSound
  <2> HIDE DEF x
  <2>10. Sound(x, D) /\ Kept(d, x)
    BY <2>1, <2>9
  <2> QED BY <1>8, <2>10, KeptTransitive DEF x, D
<1> QED BY <1>9, <1>10

\* Only live jobs must have no queue for a lost node.
LEMMA NarrowerSound ==
  ASSUME NEW s, NEW E \in [Jobs -> SUBSET Nodes], NEW D \in [Jobs -> SUBSET Nodes], Sound(s, E),
         \A j \in Jobs : s.jobStatus[j] \in Live => s.registered \cup E[j] \subseteq s.registered \cup D[j]
  PROVE  Sound(s, D)
<1>1. QueuesSound(s, D)
  BY DEF Sound, QueuesSound, QueueSound
<1> QED BY <1>1 DEF Sound

LEMMA LoseInSound ==
  ASSUME NEW s, NEW E \in [Jobs -> SUBSET Nodes], Sound(s, E), NEW j \in Jobs, NEW n \in Nodes,
         E[j] \subseteq {n}
  PROVE  LET x == LoseIn(s, j, n) IN Sound(x, [E EXCEPT ![j] = {}]) /\ Kept(s, x)
<1> DEFINE x == LoseIn(s, j, n)
           D == [E EXCEPT ![j] = {}]
           y == MoveQueue(s, j, n)
           z == ReclaimAll(y, j, n)
<1>1. D \in [Jobs -> SUBSET Nodes] /\ D[j] = {} /\ \A i \in Jobs \ {j} : D[i] = E[i]
  OBVIOUS
<1>2. Sound(y, D) /\ Kept(s, y)
  BY MoveQueueSound
<1> HIDE DEF D, y
<1>3. Sound(z, D) /\ Kept(y, z)
  BY <1>1, <1>2, ReclaimAllSound
<1> HIDE DEF z
<1>4. Sound(Pump(z, j), D) /\ Kept(z, Pump(z, j))
  BY <1>1, <1>3, PumpSound
<1>5. CASE s.jobStatus[j] \notin Live
  <2>1. x = s
    BY <1>5 DEF LoseIn
  <2>2. Sound(s, D)
    BY <1>1, <1>5, NarrowerSound
  <2> QED BY <2>1, <2>2, KeptSelf DEF D
<1>6. CASE s.jobStatus[j] \in Live
  <2>1. x = Pump(z, j)
    BY <1>6 DEF LoseIn, y, z
  <2> HIDE DEF x
  <2>2. Kept(s, x)
    BY <1>2, <1>3, <1>4, <2>1, KeptTransitive
  <2> QED BY <1>4, <2>1, <2>2 DEF D, x
<1> QED BY <1>5, <1>6

IsGone(s, x, n) ==
  /\ SameJobs(s, x) /\ SameTasks(s, x) /\ SameTries(s, x) /\ SameWork(s, x) /\ x.pumps = s.pumps
  /\ x.registered = s.registered \ {n} /\ x.able = s.able \ {n}
  /\ x.active[n] = 0 /\ x.inbox[n] = <<>>
  /\ \A m \in Nodes \ {n} : x.active[m] = s.active[m] /\ x.inbox[m] = s.inbox[m]
LEMMA GoneEffect ==
  ASSUME NEW s \in States, NEW n \in Nodes
  PROVE  Gone(s, n) \in States /\ IsGone(s, Gone(s, n), n)
<1> USE DEF SameJobs, SameTasks, SameTries, SameWork
<1> DEFINE re == s.registered \ {n}
           bl == s.able \ {n}
           ac == [s.active EXCEPT ![n] = 0]
           ib == [s.inbox EXCEPT ![n] = <<>>]
           x == [s EXCEPT !.registered = re, !.active = ac, !.able = bl, !.inbox = ib]
<1>1. <<>> \in Seq(Messages)
  OBVIOUS
<1>2. /\ re \in SUBSET Nodes /\ bl \in SUBSET Nodes /\ ac \in [Nodes -> Nat]
      /\ ib \in [Nodes -> Seq(Messages)]
      /\ ac[n] = 0 /\ ib[n] = <<>>
      /\ \A m \in Nodes \ {n} : ac[m] = s.active[m] /\ ib[m] = s.inbox[m]
  BY <1>1 DEF States
<1>3. Gone(s, n) = x
  BY DEF Gone
<1> HIDE DEF re, bl, ac, ib
<1>4. x \in States
  BY <1>2 DEF States
<1>5. /\ SameJobs(s, x) /\ SameTasks(s, x) /\ SameTries(s, x) /\ SameWork(s, x) /\ x.pumps = s.pumps
      /\ x.registered = re /\ x.able = bl /\ x.active = ac /\ x.inbox = ib
  BY DEF States
<1> HIDE DEF x
<1> QED BY <1>2, <1>3, <1>4, <1>5 DEF re, bl, IsGone

NoneLost == [j \in Jobs |-> {}]
Losing(n, k) == [j \in Jobs |-> IF j > k THEN {n} ELSE {}]

LEMMA GoneSound ==
  ASSUME NEW s, Sound(s, NoneLost), NEW n \in Nodes
  PROVE  Sound(Gone(s, n), Losing(n, 0))
<1> DEFINE x == Gone(s, n)
           E == Losing(n, 0)
<1>1. s \in States /\ x \in States /\ IsGone(s, x, n)
  BY GoneEffect DEF Sound
<1> HIDE DEF x
<1>2. \A j \in Jobs : E[j] = {n} /\ NoneLost[j] = {}
  BY Numbers DEF Losing, NoneLost
<1> HIDE DEF E
<1>3. /\ SameJobs(s, x) /\ SameTasks(s, x) /\ SameWork(s, x)
      /\ s.registered \subseteq x.registered \cup {n}
  BY <1>1 DEF IsGone
<1>4. QueuesSound(x, E)
  BY <1>1, <1>2, <1>3 DEF Sound, QueuesSound, QueueSound, Known, SameJobs, SameTasks, SameWork
<1>5. AbsentSound(x)
  <2>1. \A m \in Nodes : x.inbox[m] = s.inbox[m] \/ x.inbox[m] = <<>>
    BY <1>1 DEF IsGone
  <2>2. DOMAIN <<>> = {}
    OBVIOUS
  <2> QED BY <1>3, <2>1, <2>2 DEF Sound, AbsentSound, SameJobs, SameTasks
<1>6. Sound(x, E)
  BY <1>1, <1>3, <1>4, <1>5 DEF Sound, Counted, PipelinesSound, SameJobs, SameTasks, SameWork
<1> QED BY <1>6 DEF x, E

LEMMA LosingMoves ==
  ASSUME NEW n \in Nodes
  PROVE  /\ NoneLost \in [Jobs -> SUBSET Nodes]
         /\ Losing(n, NumJobs) = NoneLost /\ Losing(n, 0) \in [Jobs -> SUBSET Nodes]
         /\ \A k \in Jobs : /\ Losing(n, k - 1) \in [Jobs -> SUBSET Nodes]
                            /\ Losing(n, k - 1)[k] \subseteq {n}
                            /\ Losing(n, k) = [Losing(n, k - 1) EXCEPT ![k] = {}]
<1>1. NoneLost \in [Jobs -> SUBSET Nodes]
  BY DEF NoneLost
<1>2. Losing(n, NumJobs) = NoneLost /\ Losing(n, 0) \in [Jobs -> SUBSET Nodes]
  BY Numbers DEF Losing, NoneLost
<1>3. ASSUME NEW k \in Jobs
      PROVE  /\ Losing(n, k - 1) \in [Jobs -> SUBSET Nodes]
             /\ Losing(n, k - 1)[k] \subseteq {n}
             /\ Losing(n, k) = [Losing(n, k - 1) EXCEPT ![k] = {}]
  <2>1. Losing(n, k - 1) \in [Jobs -> SUBSET Nodes] /\ Losing(n, k - 1)[k] \subseteq {n}
    BY Numbers DEF Losing
  <2>2. \A j \in Jobs : (j > k) <=> (j > k - 1 /\ j # k)
    BY Numbers
  <2>3. Losing(n, k) = [Losing(n, k - 1) EXCEPT ![k] = {}]
    BY <2>2 DEF Losing
  <2> QED BY <2>1, <2>3
<1> QED BY <1>1, <1>2, <1>3

LEMMA NodeLostSound ==
  ASSUME NEW s, Sound(s, NoneLost), NEW n \in Nodes
  PROVE  Sound(NodeLost(s, n), NoneLost) /\ Kept(Gone(s, n), NodeLost(s, n))
<1> DEFINE g == Gone(s, n)
           S(k) == Sounds(g, Losing(n, k))
           G == [k \in 0..NumJobs |-> S(k)]
<1>1. G \in [0..NumJobs -> SUBSET States] /\ \A k \in 0..NumJobs : G[k] = S(k)
  BY DEF Sounds
<1>2. Sound(g, Losing(n, 0)) /\ g \in States
  BY GoneSound DEF Sound
<1>3. g \in S(0)
  BY <1>2, KeptSelf DEF Sounds
<1>4. ASSUME NEW k \in Jobs, NEW x \in S(k - 1) PROVE LoseIn(x, k, n) \in S(k)
  <2> DEFINE E == Losing(n, k - 1)
             y == LoseIn(x, k, n)
  <2>1. /\ E \in [Jobs -> SUBSET Nodes] /\ E[k] \subseteq {n}
        /\ Losing(n, k) = [E EXCEPT ![k] = {}]
    BY LosingMoves
  <2>2. Sound(x, E) /\ Kept(g, x)
    BY DEF Sounds
  <2> HIDE DEF E, g
  <2>3. LET z == LoseIn(x, k, n) IN Sound(z, [E EXCEPT ![k] = {}]) /\ Kept(x, z)
    BY <2>1, <2>2, LoseInSound
  <2>4. Sound(y, [E EXCEPT ![k] = {}]) /\ Kept(x, y)
    BY <2>3
  <2> HIDE DEF y
  <2>5. Sound(y, Losing(n, k)) /\ Kept(g, y) /\ y \in States
    BY <2>1, <2>2, <2>4, KeptTransitive DEF Sound
  <2> QED BY <2>5 DEF y, Sounds
<1>5. \A k \in 1..NumJobs : k \in Jobs /\ k - 1 \in 0..NumJobs /\ k \in 0..NumJobs
  BY Numbers
<1>6. 0 \in 0..NumJobs /\ NumJobs \in 0..NumJobs
  BY Numbers
<1> HIDE DEF G, S
<1>7. g \in G[0] /\ \A k \in 1..NumJobs : \A x \in G[k - 1] : LoseIn(x, k, n) \in G[k]
  BY <1>1, <1>3, <1>4, <1>5, <1>6
<1>8. NodeLost(s, n) \in G[NumJobs]
  <2>1. Iterate(LAMBDA x, j : LoseIn(x, j, n), g, NumJobs) \in G[NumJobs]
    BY <1>1, <1>7, LoseLoop
  <2> QED BY <2>1 DEF NodeLost
<1>9. NodeLost(s, n) \in Sounds(g, NoneLost)
  BY <1>1, <1>6, <1>8, LosingMoves DEF S
<1> QED BY <1>9 DEF Sounds

LEMMA SweepSound ==
  ASSUME NEW s, Sound(s, NoneLost), NEW overdue, \A t \in overdue : s.status[t] # "absent"
  PROVE  Sound(SweepAll(s, overdue), NoneLost) /\ Kept(s, SweepAll(s, overdue))
<1> DEFINE G == Sounds(s, NoneLost)
<1>1. G \in SUBSET States /\ s \in G /\ NoneLost \in [Jobs -> SUBSET Nodes]
  BY KeptSelf DEF Sound, Sounds, NoneLost
<1>2. ASSUME NEW x \in G, NEW j \in Jobs, NEW k \in 1..(Items[j] + 1), <<j, k>> \in overdue
      PROVE  Requeue(x, <<j, k>>) \in G
  <2>1. Sound(x, NoneLost) /\ Kept(s, x) /\ <<j, k>> \in Tasks /\ x.status[<<j, k>>] # "absent"
    BY <1>2, TaskNumbers, TaskNames DEF Sounds, Kept
  <2>2. Sound(Requeue(x, <<j, k>>), NoneLost) /\ Kept(x, Requeue(x, <<j, k>>))
    BY <1>1, <2>1, RequeueSound
  <2> QED BY <2>1, <2>2, KeptTransitive DEF Sounds, Sound
<1> HIDE DEF G
<1>3. \A x \in G, j \in Jobs : Sweep(x, j, overdue) \in G
  BY <1>1, <1>2, SweepJobLoop
<1>4. SweepAll(s, overdue) \in G
  BY <1>1, <1>3, SweepLoop DEF SweepAll
<1> QED BY <1>4 DEF G, Sounds

-----------------------------------------------------------------------------
(* Cancelling, planning and the small handlers.                              *)

IsDropped(s, x, t) ==
  /\ SameJobs(s, x) /\ SameTries(s, x) /\ SameWork(s, x) /\ SameNodes(s, x)
  /\ x.pumps = s.pumps /\ x.holder = s.holder
  /\ x.status = IF s.status[t] \in {"completed", "absent"} THEN s.status
                ELSE [s.status EXCEPT ![t] = "cancelled"]
  /\ \A m \in Nodes : \/ x.inbox[m] = s.inbox[m]
                      \/ /\ m \in s.registered \cap open /\ s.status[t] # "absent"
                         /\ x.inbox[m] = Append(s.inbox[m], About("cancel", t))
LEMMA DropEffect ==
  ASSUME NEW s \in States, NEW t \in Tasks
  PROVE  Drop(s, t) \in States /\ IsDropped(s, Drop(s, t), t)
<1> DEFINE n == s.holder[t]
           m == [type |-> "cancel", task |-> t]
           a == Send(s, n, m)
           b == Occupy(a, n, -1)
           told == IF n # None /\ HeldOn(s, t, n) THEN b ELSE s
<1>1. n \in Nodes \cup {None} /\ m \in Messages /\ m = About("cancel", t)
  BY DEF States, Messages, About
<1> HIDE DEF n, m
<1>2. /\ a \in States /\ SameJobs(s, a) /\ SameTries(s, a) /\ SameWork(s, a) /\ SameNodes(s, a)
      /\ a.status = s.status /\ a.holder = s.holder /\ a.pumps = s.pumps
      /\ a.inbox =
           IF n \in s.registered \cap open THEN [s.inbox EXCEPT ![n] = Append(@, m)] ELSE s.inbox
  BY <1>1, SendEffect
<1> HIDE DEF a
<1>3. /\ b \in States /\ SameJobs(a, b) /\ SameTries(a, b) /\ SameWork(a, b) /\ SameNodes(a, b)
      /\ b.status = a.status /\ b.holder = a.holder /\ b.pumps = a.pumps /\ b.inbox = a.inbox
  BY <1>1, <1>2, OccupyEffect
<1> HIDE DEF b
<1>4. b = Tell(s, t)
  BY DEF b, a, m, n, Tell
<1>5. HeldOn(s, t, n) => s.status[t] # "absent"
  BY DEF HeldOn
<1>6. \A k \in Nodes : \/ told.inbox[k] = s.inbox[k]
                       \/ /\ k \in s.registered \cap open /\ s.status[t] # "absent"
                          /\ told.inbox[k] = Append(s.inbox[k], About("cancel", t))
  <2> SUFFICES ASSUME NEW k \in Nodes
               PROVE  \/ told.inbox[k] = s.inbox[k]
                      \/ /\ k \in s.registered \cap open /\ s.status[t] # "absent"
                         /\ told.inbox[k] = Append(s.inbox[k], About("cancel", t))
    OBVIOUS
  <2>1. s.inbox \in [Nodes -> Seq(Messages)]
    BY DEF States
  <2>2. a.inbox[k] = s.inbox[k] \/ (k \in s.registered \cap open /\ a.inbox[k] = Append(s.inbox[k], m))
    BY <1>2, <2>1
  <2>3. told = s \/ (told.inbox = a.inbox /\ s.status[t] # "absent")
    BY <1>3, <1>5
  <2> QED BY <1>1, <2>2, <2>3
<1>7. /\ told \in States /\ SameJobs(s, told) /\ SameTries(s, told) /\ SameWork(s, told)
      /\ SameNodes(s, told) /\ told.status = s.status /\ told.holder = s.holder
      /\ told.pumps = s.pumps
  BY <1>2, <1>3 DEF SameJobs, SameTries, SameWork, SameNodes
<1>8. Drop(s, t) = IF s.status[t] \in {"completed", "absent"} THEN told
                   ELSE [told EXCEPT !.status[t] = "cancelled"]
  BY <1>4 DEF Drop, n
<1> HIDE DEF told
<1>9. CASE s.status[t] \in {"completed", "absent"}
  BY <1>6, <1>7, <1>8, <1>9 DEF IsDropped
<1>10. CASE s.status[t] \notin {"completed", "absent"}
  <2> DEFINE x == [told EXCEPT !.status[t] = "cancelled"]
  <2>1. x \in States /\ Marked(told, x, t, "cancelled")
    BY <1>7, StatusEffect DEF TaskStatuses
  <2>2. Drop(s, t) = x
    BY <1>8, <1>10
  <2> HIDE DEF x
  <2>3. IsDropped(s, x, t)
    BY <1>6, <1>7, <1>10, <2>1
       DEF Marked, IsDropped, SameJobs, SameTries, SameWork, SameNodes, SameLinks
  <2> QED BY <2>1, <2>2, <2>3
<1> QED BY <1>9, <1>10

\* What dropping tasks of job j leaves alone.
Dropping(s, x, j) ==
  /\ x \in States /\ SameJobs(s, x) /\ SameTries(s, x) /\ SameWork(s, x) /\ SameNodes(s, x)
  /\ x.pumps = s.pumps /\ x.holder = s.holder
  /\ \A t \in Tasks \ TasksOf(j) : x.status[t] = s.status[t]
  /\ \A t \in Tasks : s.status[t] = "absent" <=> x.status[t] = "absent"
  /\ \A n \in Nodes : n \notin s.registered \cap open => x.inbox[n] = s.inbox[n]
  /\ \A n \in Nodes : /\ DOMAIN s.inbox[n] \subseteq DOMAIN x.inbox[n]
                      /\ \A i \in DOMAIN s.inbox[n] : x.inbox[n][i] = s.inbox[n][i]
                      /\ \A i \in DOMAIN x.inbox[n] \ DOMAIN s.inbox[n] :
                           /\ x.inbox[n][i].type = "cancel" /\ x.inbox[n][i].task \in TasksOf(j)
                           /\ s.status[x.inbox[n][i].task] # "absent"

LEMMA DropAllEffect ==
  ASSUME NEW s \in States, NEW j \in Jobs
  PROVE  Dropping(s, DropAll(s, j), j)
<1> DEFINE G == {x \in States : Dropping(s, x, j)}
<1>1. s \in G
  BY DEF Dropping, SameJobs, SameTries, SameWork, SameNodes
<1>2. ASSUME NEW x \in G, NEW k \in 1..(Items[j] + 1) PROVE Drop(x, <<j, k>>) \in G
  <2> DEFINE t == <<j, k>>
             y == Drop(x, t)
  <2>1. t \in TasksOf(j) /\ t \in Tasks
    BY TaskNumbers, TaskNames
  <2>2. Dropping(s, x, j) /\ x \in States
    OBVIOUS
  <2> HIDE DEF t
  <2>3. y \in States /\ IsDropped(x, y, t)
    BY <2>1, <2>2, DropEffect
  <2> HIDE DEF y
  <2>4. /\ SameJobs(s, y) /\ SameTries(s, y) /\ SameWork(s, y) /\ SameNodes(s, y)
        /\ y.pumps = s.pumps /\ y.holder = s.holder
    BY <2>2, <2>3 DEF Dropping, IsDropped, SameJobs, SameTries, SameWork, SameNodes
  <2>5. /\ \A r \in Tasks \ {t} : y.status[r] = x.status[r]
        /\ x.status[t] = "absent" <=> y.status[t] = "absent"
    BY <2>1, <2>2, <2>3 DEF IsDropped, States
  <2>6. \A r \in Tasks \ TasksOf(j) : y.status[r] = s.status[r]
    BY <2>1, <2>2, <2>5 DEF Dropping
  <2>7. \A r \in Tasks : s.status[r] = "absent" <=> y.status[r] = "absent"
    BY <2>2, <2>5 DEF Dropping
  <2>8. \A n \in Nodes : n \notin s.registered \cap open => y.inbox[n] = s.inbox[n]
    BY <2>2, <2>3 DEF Dropping, IsDropped, SameNodes
  <2>9. ASSUME NEW n \in Nodes
        PROVE  /\ DOMAIN s.inbox[n] \subseteq DOMAIN y.inbox[n]
               /\ \A i \in DOMAIN s.inbox[n] : y.inbox[n][i] = s.inbox[n][i]
               /\ \A i \in DOMAIN y.inbox[n] \ DOMAIN s.inbox[n] :
                    /\ y.inbox[n][i].type = "cancel" /\ y.inbox[n][i].task \in TasksOf(j)
                    /\ s.status[y.inbox[n][i].task] # "absent"
    <3> DEFINE b == x.inbox[n]
               c == About("cancel", t)
    <3>1. b \in Seq(Messages)
      BY <2>2 DEF States
    <3>2. /\ DOMAIN s.inbox[n] \subseteq DOMAIN b
          /\ \A i \in DOMAIN s.inbox[n] : b[i] = s.inbox[n][i]
          /\ \A i \in DOMAIN b \ DOMAIN s.inbox[n] :
                    /\ b[i].type = "cancel" /\ b[i].task \in TasksOf(j)
                    /\ s.status[b[i].task] # "absent"
      BY <2>2 DEF Dropping
    <3>3. y.inbox[n] = b \/ (y.inbox[n] = Append(b, c) /\ x.status[t] # "absent")
      BY <2>3 DEF IsDropped
    <3>4. c.type = "cancel" /\ c.task = t
      BY DEF About
    <3> HIDE DEF b, c
    <3>5. /\ DOMAIN Append(b, c) = DOMAIN b \cup {Len(b) + 1} /\ Len(b) + 1 \notin DOMAIN b
          /\ \A i \in DOMAIN b : Append(b, c)[i] = b[i]
          /\ Append(b, c)[Len(b) + 1] = c
      BY <3>1
    <3>6. x.status[t] # "absent" => s.status[t] # "absent"
      BY <2>1, <2>2 DEF Dropping
    <3>7. CASE y.inbox[n] = b
      BY <3>2, <3>7
    <3>8. CASE y.inbox[n] = Append(b, c) /\ x.status[t] # "absent"
      BY <2>1, <3>2, <3>4, <3>5, <3>6, <3>8
    <3> QED BY <3>3, <3>7, <3>8
  <2>10. Dropping(s, y, j)
    BY <2>3, <2>4, <2>6, <2>7, <2>8, <2>9 DEF Dropping
  <2> QED BY <2>3, <2>10 DEF y, t
<1> HIDE DEF G
<1>3. G \in SUBSET States
  BY DEF G
<1>4. DropAll(s, j) \in G
  BY <1>1, <1>2, <1>3, DropLoop
<1> QED BY <1>4 DEF G

Cancelled(s, j) == [s EXCEPT !.jobStatus[j] = "cancelled", !.queues[j] = <<>>]
IsCancelled(s, x, j) ==
  /\ SameTasks(s, x) /\ SameTries(s, x) /\ SameNodes(s, x) /\ SameLinks(s, x)
  /\ x.members = s.members /\ x.completedCount = s.completedCount
  /\ x.jobStatus = [s.jobStatus EXCEPT ![j] = "cancelled"]
  /\ x.queues = [s.queues EXCEPT ![j] = <<>>]
LEMMA CancelledEffect ==
  ASSUME NEW s \in States, NEW j \in Jobs
  PROVE  Cancelled(s, j) \in States /\ IsCancelled(s, Cancelled(s, j), j)
<1> USE DEF SameTasks, SameTries, SameNodes, SameLinks
<1> DEFINE js == [s.jobStatus EXCEPT ![j] = "cancelled"]
           qs == [s.queues EXCEPT ![j] = <<>>]
           x == [s EXCEPT !.jobStatus = js, !.queues = qs]
<1>1. <<>> \in Seq(Entries)
  OBVIOUS
<1>2. js \in [Jobs -> JobStatuses] /\ qs \in [Jobs -> Seq(Entries)]
  BY <1>1 DEF States, JobStatuses
<1>3. Cancelled(s, j) = x
  BY DEF Cancelled, States
<1> HIDE DEF js, qs
<1>4. x \in States
  BY <1>2 DEF States
<1>5. /\ SameTasks(s, x) /\ SameTries(s, x) /\ SameNodes(s, x) /\ SameLinks(s, x)
      /\ x.members = s.members /\ x.completedCount = s.completedCount
      /\ x.jobStatus = js /\ x.queues = qs
  BY DEF States
<1> HIDE DEF x
<1> QED BY <1>3, <1>4, <1>5 DEF js, qs, IsCancelled

LEMMA CancelSound ==
  ASSUME NEW s, NEW E \in [Jobs -> SUBSET Nodes], Sound(s, E), NEW j \in Jobs,
         s.jobStatus[j] \in Live \cup {"cancelled"}
  PROVE  LET x == Cancelled(DropAll(s, j), j) IN Sound(x, E) /\ Kept(s, x)
<1> DEFINE d == DropAll(s, j)
           x == Cancelled(d, j)
<1>1. s \in States /\ d \in States /\ Dropping(s, d, j)
  BY DropAllEffect DEF Sound, Dropping
<1> HIDE DEF d
<1>2. x \in States /\ IsCancelled(d, x, j)
  BY <1>1, CancelledEffect
<1> HIDE DEF x
<1>3. /\ SameNodes(s, x) /\ x.members = s.members /\ x.holder = s.holder /\ x.inbox = d.inbox
      /\ x.completedCount = s.completedCount /\ x.jobStatus[j] = "cancelled"
      /\ \A i \in Jobs \ {j} : x.jobStatus[i] = s.jobStatus[i] /\ x.queues[i] = s.queues[i]
      /\ x.queues[j] = <<>>
      /\ \A t \in Tasks : s.status[t] = "absent" <=> x.status[t] = "absent"
  BY <1>1, <1>2 DEF Dropping, IsCancelled, SameTasks, SameNodes, SameLinks, SameJobs, SameWork, States
<1>4. Kept(s, x)
  BY <1>1, <1>3 DEF Kept, Terminal, Live, Dropping
<1>5. QueuesSound(x, E)
  <2>1. \A i \in Jobs \ {j} : QueueSound(x, E, i, x.queues[i])
    BY <1>1, <1>2, <1>3, QueueSoundMoves DEF Sound, QueuesSound, SameNodes
  <2> QED BY <1>3, <2>1, EmptyQueueSound DEF QueuesSound
<1>6. {i \in Jobs : x.jobStatus[i] = "completed"} = {i \in Jobs : s.jobStatus[i] = "completed"}
  BY <1>3 DEF Live
<1>7. AbsentSound(x)
  <2>1. \A r \in Tasks : x.status[r] = "absent" => x.holder[r] = None
    BY <1>3 DEF Sound, AbsentSound
  <2>2. \A r \in Tasks : x.jobStatus[JobOf(r)] = "none" => x.status[r] = "absent"
    BY <1>3, TaskNames DEF Sound, AbsentSound
  <2>3. ASSUME NEW n \in Nodes, NEW i \in DOMAIN x.inbox[n]
        PROVE  x.status[x.inbox[n][i].task] # "absent"
    <3>1. x.inbox[n][i].task \in Tasks
      BY <1>2, InboxTasks
    <3>2. s.status[x.inbox[n][i].task] # "absent"
      BY <1>1, <1>3, <2>3 DEF Dropping, Sound, AbsentSound
    <3> QED BY <1>3, <3>1, <3>2
  <2> QED BY <2>1, <2>2, <2>3 DEF AbsentSound
<1>8. PipelinesSound(x)
  <2>1. \A i \in PipelineJobs : ReduceTask(i) \in Tasks /\ <<i, 1>> \in Tasks
    BY TaskNumbers, TaskNames
  <2> QED BY <1>3, <2>1 DEF Sound, PipelinesSound
<1>9. Sound(x, E)
  BY <1>2, <1>3, <1>5, <1>6, <1>7, <1>8 DEF Sound, Counted
<1> QED BY <1>4, <1>9 DEF x, d

\* submit plants the queues of a new job.
Planting(s, j, q, plan) ==
  [s EXCEPT !.jobStatus[j] = "running", !.queues[j] = q, !.members[j] = plan,
            !.status = [t \in Tasks |-> IF \E i \in DOMAIN q : Contains(q[i].tasks, t)
                                          THEN "planned" ELSE @[t]]]
IsPlanted(s, x, j, q, plan) ==
  /\ SameTries(s, x) /\ SameNodes(s, x) /\ SameLinks(s, x)
  /\ x.holder = s.holder /\ x.completedCount = s.completedCount
  /\ x.jobStatus = [s.jobStatus EXCEPT ![j] = "running"]
  /\ x.queues = [s.queues EXCEPT ![j] = q]
  /\ x.members = [s.members EXCEPT ![j] = plan]
  /\ \A t \in Tasks : x.status[t] = IF In(q, t) THEN "planned" ELSE s.status[t]

LEMMA ContainsIn ==
  ASSUME NEW q \in Seq(Entries), NEW t
  PROVE  (\E i \in DOMAIN q : Contains(q[i].tasks, t)) <=> In(q, t)
<1>1. \A i \in DOMAIN q : DOMAIN q[i].tasks = 1..Len(q[i].tasks)
  BY EntryOf
<1> QED BY <1>1 DEF Contains, In, At

LEMMA PlantEffect ==
  ASSUME NEW s \in States, NEW j \in Jobs, NEW q \in Seq(Entries), NEW plan \in SUBSET Nodes
  PROVE  Planting(s, j, q, plan) \in States /\ IsPlanted(s, Planting(s, j, q, plan), j, q, plan)
<1> USE DEF SameTries, SameNodes, SameLinks
<1> DEFINE js == [s.jobStatus EXCEPT ![j] = "running"]
           qs == [s.queues EXCEPT ![j] = q]
           me == [s.members EXCEPT ![j] = plan]
           st == [t \in Tasks |-> IF \E i \in DOMAIN q : Contains(q[i].tasks, t)
                                    THEN "planned" ELSE s.status[t]]
           x == [s EXCEPT !.jobStatus = js, !.queues = qs, !.members = me, !.status = st]
<1>1. js \in [Jobs -> JobStatuses] /\ qs \in [Jobs -> Seq(Entries)] /\ me \in [Jobs -> SUBSET Nodes]
  BY DEF States, JobStatuses
<1>2. /\ st \in [Tasks -> TaskStatuses]
      /\ \A t \in Tasks : st[t] = IF In(q, t) THEN "planned" ELSE s.status[t]
  BY ContainsIn DEF States, TaskStatuses
<1>3. Planting(s, j, q, plan) = x
  BY DEF Planting, States
<1> HIDE DEF js, qs, me, st
<1>4. x \in States
  BY <1>1, <1>2 DEF States
<1>5. /\ SameTries(s, x) /\ SameNodes(s, x) /\ SameLinks(s, x)
      /\ x.holder = s.holder /\ x.completedCount = s.completedCount
      /\ x.jobStatus = js /\ x.queues = qs /\ x.members = me /\ x.status = st
  BY DEF States
<1> HIDE DEF x
<1> QED BY <1>2, <1>3, <1>4, <1>5 DEF js, qs, me, IsPlanted

PlanGood(s, j, q, plan) ==
  /\ q \in Seq(Entries) /\ Unique(q) /\ Once(q) /\ plan \in SUBSET Nodes
  /\ \A i \in DOMAIN q : q[i].node \in s.registered
  /\ \A t : In(q, t) => t \in MapTasks(j)
  /\ j \notin PipelineJobs => plan = {}
  /\ j \in PipelineJobs => /\ plan # {}
                           /\ \A i \in DOMAIN q :
                                i = 1 /\ Len(q[i].tasks) <= 1 /\ q[i].node = First(plan)

LEMMA PlantSound ==
  ASSUME NEW s, NEW E \in [Jobs -> SUBSET Nodes], Sound(s, E), NEW j \in Jobs,
         s.jobStatus[j] = "none", NEW q, NEW plan, PlanGood(s, j, q, plan)
  PROVE  Sound(Planting(s, j, q, plan), E) /\ Kept(s, Planting(s, j, q, plan))
<1> DEFINE x == Planting(s, j, q, plan)
<1>1. s \in States /\ x \in States /\ IsPlanted(s, x, j, q, plan)
  BY PlantEffect DEF Sound, PlanGood
<1> HIDE DEF x
<1>2. /\ SameNodes(s, x) /\ x.inbox = s.inbox /\ x.holder = s.holder
      /\ x.completedCount = s.completedCount
      /\ x.jobStatus[j] = "running" /\ x.queues[j] = q /\ x.members[j] = plan
      /\ \A i \in Jobs \ {j} : /\ x.jobStatus[i] = s.jobStatus[i] /\ x.queues[i] = s.queues[i]
                               /\ x.members[i] = s.members[i]
      /\ \A t \in Tasks : x.status[t] = IF In(q, t) THEN "planned" ELSE s.status[t]
  BY <1>1 DEF IsPlanted, SameLinks, States
<1>3. \A t \in Tasks : s.status[t] # "absent" => x.status[t] # "absent"
  BY <1>2
<1>4. Kept(s, x)
  BY <1>2, <1>3 DEF Kept, Terminal
<1>5. QueuesSound(x, E)
  <2>1. \A i \in Jobs \ {j} : QueueSound(x, E, i, x.queues[i])
    BY <1>1, <1>2, <1>3, QueueSoundMoves DEF Sound, QueuesSound, SameNodes
  <2>2. \A i \in DOMAIN q : Known(x, j, q[i].tasks)
    <3> SUFFICES ASSUME NEW i \in DOMAIN q, NEW k \in DOMAIN q[i].tasks
                 PROVE  q[i].tasks[k] \in TasksOf(j) /\ x.status[q[i].tasks[k]] # "absent"
      BY DEF Known
    <3>1. In(q, q[i].tasks[k])
      BY DEF In, At
    <3>2. q[i].tasks[k] \in TasksOf(j) /\ q[i].tasks[k] \in Tasks
      BY <3>1, TaskNames DEF PlanGood
    <3> QED BY <1>2, <3>1, <3>2
  <2>3. QueueSound(x, E, j, q)
    BY <1>2, <2>2 DEF PlanGood, QueueSound, SameNodes
  <2> QED BY <1>2, <2>1, <2>3 DEF QueuesSound
<1>6. {i \in Jobs : x.jobStatus[i] = "completed"} = {i \in Jobs : s.jobStatus[i] = "completed"}
  BY <1>2
<1>7. AbsentSound(x)
  <2>1. \A r \in Tasks : x.status[r] = "absent" => x.holder[r] = None
    BY <1>2, <1>3 DEF Sound, AbsentSound
  <2>2. ASSUME NEW r \in Tasks, x.jobStatus[JobOf(r)] = "none" PROVE x.status[r] = "absent"
    <3>1. JobOf(r) \in Jobs \ {j} /\ s.status[r] = "absent"
      BY <1>2, <2>2, TaskNames DEF Sound, AbsentSound
    <3>2. ~In(q, r)
      BY <3>1, TaskNames DEF PlanGood
    <3> QED BY <1>2, <3>1, <3>2
  <2>3. ASSUME NEW n \in Nodes, NEW i \in DOMAIN x.inbox[n]
        PROVE  x.status[x.inbox[n][i].task] # "absent"
    <3>1. x.inbox[n][i].task \in Tasks
      BY <1>1, InboxTasks
    <3> QED BY <1>2, <1>3, <3>1 DEF Sound, AbsentSound
  <2> QED BY <2>1, <2>2, <2>3 DEF AbsentSound
<1>8. PipelinesSound(x)
  <2>1. ASSUME NEW i \in PipelineJobs
        PROVE  /\ x.status[ReduceTask(i)] = "absent"
               /\ x.holder[<<i, 1>>] \in {None, First(x.members[i])}
               /\ x.status[<<i, 1>>] # "absent" => x.members[i] # {}
    <3>1. /\ i \in Jobs /\ ReduceTask(i) \in Tasks /\ ReduceTask(i) \notin MapTasks(i)
          /\ JobOf(ReduceTask(i)) = i /\ <<i, 1>> \in Tasks /\ JobOf(<<i, 1>>) = i
      BY TaskNumbers, TaskNames
    <3>2. ~In(q, ReduceTask(i))
      BY <3>1, TaskNames DEF PlanGood
    <3>3. x.status[ReduceTask(i)] = "absent"
      BY <1>2, <3>1, <3>2 DEF Sound, PipelinesSound
    <3>4. CASE i = j
      <4>1. s.status[<<i, 1>>] = "absent"
        BY <3>1, <3>4 DEF Sound, AbsentSound
      <4>2. x.holder[<<i, 1>>] = None
        BY <1>2, <3>1, <4>1 DEF Sound, AbsentSound
      <4> QED BY <1>2, <3>3, <3>4, <4>2 DEF PlanGood
    <3>5. CASE i # j
      <4>1. ~In(q, <<i, 1>>)
        BY <3>1, <3>5, TaskNames DEF PlanGood
      <4> QED BY <1>2, <3>1, <3>3, <3>5, <4>1 DEF Sound, PipelinesSound
    <3> QED BY <3>4, <3>5
  <2>2. \A i \in Jobs \ PipelineJobs : x.members[i] = {}
    BY <1>2 DEF Sound, PipelinesSound, PlanGood
  <2> QED BY <2>1, <2>2 DEF PipelinesSound
<1>9. Sound(x, E)
  BY <1>1, <1>2, <1>5, <1>6, <1>7, <1>8 DEF Sound, Counted
<1> QED BY <1>4, <1>9 DEF x

LEMMA SingleGood ==
  ASSUME NEW s \in States, NEW j \in Jobs, NEW n \in s.registered, NEW plan \in SUBSET Nodes,
         IF j \in PipelineJobs THEN plan # {} /\ n = First(plan) ELSE plan = {}
  PROVE  PlanGood(s, j, Single(j, n), plan)
<1> DEFINE t == <<j, 1>>
           ts == <<t>>
           entry == [node |-> n, tasks |-> ts]
           q == Single(j, n)
<1>1. t \in MapTasks(j) /\ t \in Tasks /\ n \in Nodes
  <2>1. Items[j] \in Nat \ {0}
    BY TaskNumbers
  <2> QED BY <2>1, TaskNames, SMTT(40) DEF MapTasks, States
<1> HIDE DEF t
<1>2. ts \in Seq(Tasks) /\ Len(ts) = 1 /\ DOMAIN ts = {1} /\ ts[1] = t
  BY <1>1
<1> HIDE DEF ts
<1>3. entry \in Entries /\ entry.node = n /\ entry.tasks = ts
  BY <1>1, <1>2 DEF Entries
<1>4. q = <<entry>>
  BY DEF Single, ts, t
<1> HIDE DEF entry, q
<1>5. q \in Seq(Entries) /\ DOMAIN q = {1} /\ q[1] = entry
  BY <1>3, <1>4
<1>6. \A i, k, r : At(q, i, k, r) => i = 1 /\ k = 1 /\ r = t
  BY <1>2, <1>3, <1>5 DEF At
<1>7. Unique(q) /\ Once(q) /\ \A r : In(q, r) => r = t
  BY <1>5, <1>6 DEF Unique, Once, In
<1>8. PlanGood(s, j, q, plan)
  <2>0. Len(entry.tasks) <= 1 /\ entry.node = n
    <3>1. Len(ts) <= 1
      BY <1>2
    <3> QED BY <1>3, <3>1
  <2>1. \A i \in DOMAIN q : i = 1 /\ q[i].node = n /\ Len(q[i].tasks) <= 1
    BY <1>5, <2>0
  <2> QED BY <1>1, <1>5, <1>7, <2>1 DEF PlanGood
<1> QED BY <1>8 DEF q

LEMMA FanOutGood ==
  ASSUME NEW s \in States, NEW j \in Jobs, j \notin PipelineJobs,
         NEW c \in Clusters(EligibleNodes(s)), NEW f \in Splits(j, Len(c))
  PROVE  PlanGood(s, j, FanOut(j, c, f), {})
<1> DEFINE q == FanOut(j, c, f)
           list(i) == SubSeq(TaskOrder(j), f[i - 1] + 1, f[i])
<1>1. /\ EligibleNodes(s) \subseteq s.registered /\ EligibleNodes(s) \subseteq Nodes
  BY Views DEF States
<1>2. PICK k \in Nat : c \in [1..k -> EligibleNodes(s)] /\ IsInjective(c)
  <2>1. PICK k \in 1..Cardinality(EligibleNodes(s)) : c \in [1..k -> EligibleNodes(s)]
    BY DEF Clusters
  <2> QED BY <2>1 DEF Clusters
<1>3. Len(c) = k /\ DOMAIN c = 1..k
  BY <1>2
<1>4. /\ f \in [0..k -> 0..Items[j]]
      /\ \A i, l \in 0..k : i <= l => f[i] <= f[l]
  BY <1>3 DEF Splits
<1>5. Items[j] \in Nat \ {0} /\ \A i \in 1..k : i - 1 \in 0..k /\ i \in 0..k /\ i - 1 <= i
  BY <1>2, TaskNumbers
<1>6. \A i \in 1..k : f[i - 1] \in 0..Items[j] /\ f[i] \in 0..Items[j] /\ f[i - 1] <= f[i]
  BY <1>4, <1>5
<1>7. /\ TaskOrder(j) \in Seq(Tasks) /\ Len(TaskOrder(j)) = Items[j] + 1
      /\ \A i \in 1..(Items[j] + 1) : TaskOrder(j)[i] = <<j, i>>
  <2>1. \A i \in 1..(Items[j] + 1) : <<j, i>> \in Tasks
    BY TaskNumbers, TaskNames
  <2>2. TaskOrder(j) \in [1..(Items[j] + 1) -> Tasks] /\ Items[j] + 1 \in Nat
    BY <1>5, <2>1 DEF TaskOrder
  <2> QED BY <2>2 DEF TaskOrder
<1>8. ASSUME NEW i \in 1..k
      PROVE  /\ list(i) \in Seq(Tasks) /\ DOMAIN list(i) = 1..(f[i] - f[i - 1])
             /\ \A l \in DOMAIN list(i) : list(i)[l] = <<j, f[i - 1] + l>> /\ f[i - 1] + l \in 1..Items[j]
  <2> DEFINE a == f[i - 1] + 1
             b == f[i]
             o == TaskOrder(j)
  <2>1. a \in 1..(Items[j] + 1) /\ b \in 0..Items[j] /\ a <= b + 1 /\ b <= Len(o) /\ o \in Seq(Tasks)
    BY <1>5, <1>6, <1>7, SMTT(40)
  <2> HIDE DEF a, b, o
  <2>2. \A l \in a..b : l \in DOMAIN o
    BY <1>5, <1>7, <2>1 DEF o
  <2>3. SubSeq(o, a, b) \in Seq(Tasks) /\ Len(SubSeq(o, a, b)) = b - a + 1
    BY <2>1, <1>5
  <2>4. \A l \in 1..(b - a + 1) : SubSeq(o, a, b)[l] = o[a + l - 1]
    BY <2>1, <2>3, <1>5
  <2>5. list(i) = SubSeq(o, a, b) /\ b - a + 1 = f[i] - f[i - 1]
    BY <1>5, <1>6 DEF a, b, o
  <2> HIDE DEF list
  <2>6. DOMAIN list(i) = 1..(f[i] - f[i - 1])
    BY <2>3, <2>5
  <2>7. ASSUME NEW l \in DOMAIN list(i)
        PROVE  list(i)[l] = <<j, f[i - 1] + l>> /\ f[i - 1] + l \in 1..Items[j]
    <3>1. l \in 1..(b - a + 1) /\ l \in Nat \ {0} /\ l <= f[i] - f[i - 1]
      BY <1>6, <2>5, <2>6, <2>7
    <3>2. f[i - 1] + l \in 1..Items[j] /\ a + l - 1 = f[i - 1] + l
      <4> DEFINE u == f[i - 1]
                 v == f[i]
      <4>1. u \in Nat /\ v \in Nat /\ v <= Items[j] /\ Items[j] \in Nat /\ l <= v - u /\ a = u + 1
        BY <1>5, <1>6, <3>1 DEF a
      <4> HIDE DEF u, v
      <4>2. u + l \in 1..Items[j] /\ a + l - 1 = u + l
        BY <3>1, <4>1
      <4> QED BY <4>2 DEF u
    <3>3. list(i)[l] = o[f[i - 1] + l]
      BY <2>4, <2>5, <3>1, <3>2
    <3>4. o[f[i - 1] + l] = <<j, f[i - 1] + l>>
      BY <1>5, <1>7, <3>2, SMTT(40) DEF o
    <3> QED BY <3>2, <3>3, <3>4
  <2> QED BY <2>3, <2>5, <2>6, <2>7
<1>9. q = [i \in 1..k |-> [node |-> c[i], tasks |-> list(i)]]
  BY <1>3 DEF FanOut
<1> HIDE DEF list
<1>10. \A i \in 1..k : [node |-> c[i], tasks |-> list(i)] \in Entries
  BY <1>1, <1>2, <1>8 DEF Entries
<1> HIDE DEF q
<1>11. /\ q \in Seq(Entries) /\ DOMAIN q = 1..k
       /\ \A i \in 1..k : q[i].node = c[i] /\ q[i].tasks = list(i)
  BY <1>2, <1>9, <1>10
<1>12. Unique(q)
  BY <1>2, <1>11 DEF Unique, IsInjective
<1>13. \A i, l, t : At(q, i, l, t) => /\ i \in 1..k /\ l \in 1..(f[i] - f[i - 1])
                                      /\ t = <<j, f[i - 1] + l>> /\ f[i - 1] + l \in 1..Items[j]
  BY <1>8, <1>11 DEF At
<1>14. \A t : In(q, t) => t \in MapTasks(j)
  BY <1>13 DEF In, MapTasks
<1>15. Once(q)
  <2> SUFFICES ASSUME NEW t, NEW i, NEW a, NEW l, NEW b, At(q, i, a, t), At(q, l, b, t)
               PROVE  i = l /\ a = b
    BY DEF Once
  <2>1. /\ i \in 1..k /\ l \in 1..k /\ a \in 1..(f[i] - f[i - 1]) /\ b \in 1..(f[l] - f[l - 1])
        /\ f[i - 1] + a = f[l - 1] + b
    BY <1>13
  <2>2. /\ f[i] \in Nat /\ f[i - 1] \in Nat /\ f[l] \in Nat /\ f[l - 1] \in Nat
        /\ a \in Nat \ {0} /\ b \in Nat \ {0} /\ a <= f[i] - f[i - 1] /\ b <= f[l] - f[l - 1]
    BY <1>5, <1>6, <2>1, SMTT(40)
  <2>3. i < l => f[i] <= f[l - 1]
    <3>1. i < l => i \in 0..k /\ l - 1 \in 0..k /\ i <= l - 1
      BY <1>2, <2>1
    <3> QED BY <1>4, <3>1
  <2>4. l < i => f[l] <= f[i - 1]
    <3>1. l < i => l \in 0..k /\ i - 1 \in 0..k /\ l <= i - 1
      BY <1>2, <2>1
    <3> QED BY <1>4, <3>1
  <2> DEFINE fi == f[i]
             pi == f[i - 1]
             fl == f[l]
             pl == f[l - 1]
  <2>5. /\ fi \in Nat /\ pi \in Nat /\ fl \in Nat /\ pl \in Nat /\ a <= fi - pi /\ b <= fl - pl
        /\ pi + a = pl + b /\ (i < l => fi <= pl) /\ (l < i => fl <= pi)
    BY <2>1, <2>2, <2>3, <2>4
  <2>6. i \in Int /\ l \in Int /\ a \in Nat \ {0} /\ b \in Nat \ {0}
    BY <1>2, <2>1, <2>2
  <2> HIDE DEF fi, pi, fl, pl
  <2>7. ~(i < l) /\ ~(l < i)
    BY <2>5, <2>6
  <2>8. i = l
    BY <2>6, <2>7
  <2> QED BY <2>2, <2>1, <2>8
<1>16. \A i \in DOMAIN q : q[i].node \in s.registered
  BY <1>1, <1>2, <1>11
<1>17. PlanGood(s, j, q, {})
  BY <1>11, <1>12, <1>14, <1>15, <1>16 DEF PlanGood
<1> QED BY <1>17 DEF q

-----------------------------------------------------------------------------
(* The inductive invariant that no trouble can break.                        *)

LEMMA CoordinatorFields ==
  /\ Coordinator.jobStatus = jobStatus /\ Coordinator.completedCount = completedCount
  /\ Coordinator.status = status /\ Coordinator.holder = holder
  /\ Coordinator.attempts = attempts /\ Coordinator.tried = tried
  /\ Coordinator.queues = queues /\ Coordinator.members = members
  /\ Coordinator.registered = registered /\ Coordinator.active = active
  /\ Coordinator.able = able /\ Coordinator.pumps = pumps /\ Coordinator.inbox = inbox
  BY DEF Coordinator

LEMMA CommitEffect ==
  ASSUME NEW x \in States, Commit(x)
  PROVE  Coordinator' = x
<1>1. /\ jobStatus' = x.jobStatus /\ completedCount' = x.completedCount
      /\ status' = x.status /\ holder' = x.holder
      /\ attempts' = x.attempts /\ tried' = x.tried
      /\ queues' = x.queues /\ members' = x.members
      /\ registered' = x.registered /\ active' = x.active /\ able' = x.able
      /\ pumps' = x.pumps /\ inbox' = x.inbox
  BY DEF Commit
<1> QED BY <1>1 DEF Coordinator, States

CoordinatorSound == Sound(Coordinator, NoneLost)
LinksSound ==
  /\ able \subseteq registered /\ open \subseteq Nodes
  /\ outbox \in [Nodes -> Seq(Reports)]
  /\ \A n \in Nodes : n \notin open => inbox[n] = <<>> /\ outbox[n] = <<>>
  /\ \A n \in Nodes : \A i \in DOMAIN outbox[n] :
       outbox[n][i].type # "heartbeat" => status[outbox[n][i].task] # "absent"
RunsSound ==
  /\ paused \subseteq Nodes
  /\ runs \in [Nodes -> SUBSET Tasks] /\ aborting \in [Nodes -> SUBSET Tasks]
  /\ \A n \in Nodes : IsFiniteSet(runs[n]) /\ Cardinality(runs[n]) <= MaxConcurrent
  /\ \A n \in Nodes : \A t \in runs[n] \cup aborting[n] : status[t] # "absent"
TroublesSound ==
  /\ troubles \subseteq Disturbances /\ strikes \in 0..MaxDisturbances
  /\ replaced \subseteq Nodes /\ (replaced # {} => "replaced" \in troubles)

IInv == CoordinatorSound /\ LinksSound /\ RunsSound /\ TroublesSound

LEMMA InitSound ==
  ASSUME Init
  PROVE  IInv
<1> DEFINE s == Coordinator
<1>1. Jobs # {} /\ DOMAIN <<>> = {} /\ <<>> \in Seq(Entries) /\ <<>> \in Seq(Jobs)
      /\ <<>> \in Seq(Messages) /\ <<>> \in Seq(Reports)
  BY Numbers
<1>2. /\ s.jobStatus = [j \in Jobs |-> "none"] /\ s.completedCount = 0
      /\ s.status = [t \in Tasks |-> "absent"] /\ s.holder = [t \in Tasks |-> None]
      /\ s.attempts = [t \in Tasks |-> 0] /\ s.tried = [t \in Tasks |-> {}]
      /\ s.queues = [j \in Jobs |-> <<>>] /\ s.members = [j \in Jobs |-> {}]
      /\ s.registered = {} /\ s.able = {} /\ s.active = [n \in Nodes |-> 0]
      /\ s.pumps = <<>> /\ s.inbox = [n \in Nodes |-> <<>>]
  BY CoordinatorFields DEF Init
<1>3. s \in States
  <2>1. /\ jobStatus \in [Jobs -> JobStatuses] /\ completedCount \in Nat
        /\ status \in [Tasks -> TaskStatuses] /\ holder \in [Tasks -> Nodes \cup {None}]
        /\ attempts \in [Tasks -> Nat] /\ tried \in [Tasks -> SUBSET Nodes]
        /\ queues \in [Jobs -> Seq(Entries)] /\ members \in [Jobs -> SUBSET Nodes]
        /\ registered \in SUBSET Nodes /\ active \in [Nodes -> Nat] /\ able \in SUBSET Nodes
        /\ pumps \in Seq(Jobs) /\ inbox \in [Nodes -> Seq(Messages)]
    BY <1>1 DEF Init, JobStatuses, TaskStatuses
  <2> QED BY <2>1 DEF Coordinator, States
<1> HIDE DEF s
<1>4. QueuesSound(s, NoneLost)
  BY <1>2, EmptyQueueSound DEF QueuesSound
<1>5. Counted(s)
  <2>1. {j \in Jobs : s.jobStatus[j] = "completed"} = {}
    BY <1>2
  <2> QED BY <1>2, <2>1, FS_EmptySet DEF Counted
<1>6. PipelinesSound(s)
  <2>1. \A j \in PipelineJobs : ReduceTask(j) \in Tasks /\ <<j, 1>> \in Tasks
    BY TaskNumbers, TaskNames
  <2> QED BY <1>2, <2>1, ZenonT(60) DEF PipelinesSound
<1>7. AbsentSound(s)
  BY <1>1, <1>2 DEF AbsentSound
<1>8. CoordinatorSound
  BY <1>3, <1>4, <1>5, <1>6, <1>7 DEF Sound, CoordinatorSound, s
<1>9. LinksSound
  BY <1>1 DEF Init, LinksSound
<1>10. RunsSound
  BY Numbers, FS_EmptySet DEF Init, RunsSound
<1>11. TroublesSound
  BY Numbers DEF Init, TroublesSound
<1> QED BY <1>8, <1>9, <1>10, <1>11 DEF IInv

LEMMA ReportOf ==
  ASSUME LinksSound, NEW n \in Nodes, NEW i \in DOMAIN outbox[n]
  PROVE  /\ outbox[n] \in Seq(Reports) /\ outbox[n][i] \in Reports
         /\ outbox[n][i].type # "heartbeat" =>
              /\ outbox[n][i].task \in Tasks /\ status[outbox[n][i].task] # "absent"
              /\ outbox[n][i] = About(outbox[n][i].type, outbox[n][i].task)
         /\ outbox[n][i].type = "heartbeat" => outbox[n][i].active \in Nat /\ outbox[n][i].able \in BOOLEAN
<1>1. outbox[n] \in Seq(Reports)
  BY DEF LinksSound
<1>2. outbox[n][i] \in Reports
  BY <1>1
<1>3. 0..MaxConcurrent \subseteq Nat
  BY Numbers
<1> QED BY <1>1, <1>2, <1>3 DEF LinksSound, Reports, About

\* The outboxes only lose messages.
Shrinks ==
  /\ outbox' \in [Nodes -> Seq(Reports)]
  /\ \A n \in Nodes : outbox[n] = <<>> => outbox'[n] = <<>>
  /\ \A n \in Nodes : \A i \in DOMAIN outbox'[n] : \E k \in DOMAIN outbox[n] : outbox'[n][i] = outbox[n][k]

LEMMA HeadOfOutbox ==
  ASSUME LinksSound, NEW n \in Nodes, outbox[n] # <<>>
  PROVE  /\ 1 \in DOMAIN outbox[n] /\ Head(outbox[n]) = outbox[n][1]
         /\ outbox' = [outbox EXCEPT ![n] = Tail(@)] => Shrinks
<1>1. outbox \in [Nodes -> Seq(Reports)]
  BY DEF LinksSound
<1> DEFINE q == outbox[n]
<1>2. q \in Seq(Reports) /\ q # <<>>
  BY <1>1
<1> HIDE DEF q
<1>3. /\ 1 \in DOMAIN q /\ Head(q) = q[1] /\ Tail(q) \in Seq(Reports)
      /\ \A i \in DOMAIN Tail(q) : i + 1 \in DOMAIN q /\ Tail(q)[i] = q[i + 1]
  BY <1>2
<1>4. ASSUME outbox' = [outbox EXCEPT ![n] = Tail(@)] PROVE Shrinks
  <2>1. outbox' \in [Nodes -> Seq(Reports)]
    BY <1>1, <1>3, <1>4 DEF q
  <2>2. \A m \in Nodes : outbox'[m] = IF m = n THEN Tail(q) ELSE outbox[m]
    BY <1>1, <1>4 DEF q
  <2>3. \A m \in Nodes : outbox[m] = <<>> => outbox'[m] = <<>>
    BY <1>2, <2>2 DEF q
  <2>4. \A m \in Nodes : \A i \in DOMAIN outbox'[m] : \E k \in DOMAIN outbox[m] : outbox'[m][i] = outbox[m][k]
    <3> SUFFICES ASSUME NEW m \in Nodes, NEW i \in DOMAIN outbox'[m]
                 PROVE  \E k \in DOMAIN outbox[m] : outbox'[m][i] = outbox[m][k]
      OBVIOUS
    <3>1. CASE m = n
      <4>1. i + 1 \in DOMAIN q /\ outbox'[m][i] = q[i + 1]
        BY <1>3, <2>2, <3>1
      <4> QED BY <3>1, <4>1 DEF q
    <3>2. CASE m # n
      BY <2>2, <3>2
    <3> QED BY <3>1, <3>2
  <2> QED BY <2>1, <2>3, <2>4 DEF Shrinks
<1> QED BY <1>3, <1>4 DEF q

LEMMA HandlerStep ==
  ASSUME IInv, NEW x, Sound(x, NoneLost), Kept(Coordinator, x), Commit(x),
         UNCHANGED <<open, runs, aborting, paused>>, Shrinks, TroublesSound'
  PROVE  IInv'
<1>1. Coordinator' = x /\ x \in States
  BY CommitEffect DEF Sound
<1>2. CoordinatorSound'
  BY <1>1 DEF CoordinatorSound
<1>3. /\ able' = able /\ registered' = registered
      /\ \A n \in Nodes : n \notin open => inbox'[n] = inbox[n]
      /\ \A t \in Tasks : status[t] # "absent" => status'[t] # "absent"
  BY CoordinatorFields DEF Commit, Kept, SameNodes
<1>4. LinksSound'
  <2>1. \A n \in Nodes : n \notin open' => inbox'[n] = <<>> /\ outbox'[n] = <<>>
    BY <1>3 DEF IInv, LinksSound, Shrinks
  <2>2. ASSUME NEW n \in Nodes, NEW i \in DOMAIN outbox'[n], outbox'[n][i].type # "heartbeat"
        PROVE  status'[outbox'[n][i].task] # "absent"
    <3>1. PICK k \in DOMAIN outbox[n] : outbox'[n][i] = outbox[n][k]
      BY DEF Shrinks
    <3>2. outbox[n][k].task \in Tasks /\ status[outbox[n][k].task] # "absent"
      BY <2>2, <3>1, ReportOf DEF IInv
    <3> QED BY <1>3, <3>1, <3>2
  <2> QED BY <1>3, <2>1, <2>2 DEF IInv, LinksSound, Shrinks
<1>5. RunsSound'
  <2>1. ASSUME NEW n \in Nodes, NEW t \in runs'[n] \cup aborting'[n] PROVE status'[t] # "absent"
    BY <1>3, <2>1 DEF IInv, RunsSound
  <2> QED BY <2>1 DEF IInv, RunsSound
<1> QED BY <1>2, <1>4, <1>5 DEF IInv

\* Changes that leave jobs, tasks and queues alone.
LEMMA StillSound ==
  ASSUME NEW s, NEW E \in [Jobs -> SUBSET Nodes], Sound(s, E), NEW x \in States,
         SameJobs(s, x), SameTasks(s, x), SameWork(s, x), s.registered \subseteq x.registered,
         \A n \in Nodes : \A i \in DOMAIN x.inbox[n] : s.status[x.inbox[n][i].task] # "absent"
  PROVE  Sound(x, E)
<1>1. QueuesSound(x, E)
  BY DEF Sound, QueuesSound, QueueSound, Known, SameJobs, SameTasks, SameWork
<1>2. AbsentSound(x)
  BY DEF Sound, AbsentSound, SameJobs, SameTasks
<1> QED BY <1>1, <1>2 DEF Sound, Counted, PipelinesSound, SameJobs, SameTasks, SameWork
LEMMA QuietSound ==
  ASSUME NEW s, NEW E \in [Jobs -> SUBSET Nodes], Sound(s, E), NEW x \in States,
         SameJobs(s, x), SameTasks(s, x), SameWork(s, x), s.registered \subseteq x.registered,
         \A n \in Nodes : \A i \in DOMAIN x.inbox[n] : \E k \in DOMAIN s.inbox[n] : x.inbox[n][i] = s.inbox[n][k]
  PROVE  Sound(x, E)
<1>1. \A n \in Nodes : \A i \in DOMAIN x.inbox[n] : s.status[x.inbox[n][i].task] # "absent"
  BY DEF Sound, AbsentSound
<1> QED BY <1>1, StillSound

LEMMA NoneLostType == NoneLost \in [Jobs -> SUBSET Nodes]
  BY DEF NoneLost

LEMMA MicrotaskStep ==
  ASSUME IInv, RunMicrotask
  PROVE  IInv' /\ Kept(Coordinator, Coordinator')
<1> DEFINE s == Coordinator
           j == Head(pumps)
           y == [s EXCEPT !.pumps = Tail(@)]
           x == Pump(y, j)
<1>1. Sound(s, NoneLost) /\ s \in States /\ s.pumps = pumps
  BY CoordinatorFields DEF IInv, CoordinatorSound, Sound
<1> HIDE DEF s
<1>2. pumps \in Seq(Jobs) /\ pumps # <<>>
  BY <1>1 DEF RunMicrotask, Quiet, States
<1>3. j \in Jobs /\ Tail(pumps) \in Seq(Jobs)
  BY <1>2
<1>4. /\ y \in States /\ SameJobs(s, y) /\ SameTasks(s, y) /\ SameWork(s, y) /\ SameNodes(s, y)
      /\ y.inbox = s.inbox
  <2>1. y = [s EXCEPT !.pumps = Tail(pumps)]
    BY <1>1
  <2>2. [s EXCEPT !.pumps = Tail(pumps)] \in States
    BY <1>1, <1>3 DEF States
  <2>3. /\ SameJobs(s, y) /\ SameTasks(s, y) /\ SameWork(s, y) /\ SameNodes(s, y)
        /\ y.inbox = s.inbox
    BY <1>1 DEF SameJobs, SameTasks, SameWork, SameNodes, States
  <2> QED BY <2>1, <2>2, <2>3
<1>5. Commit(x)
  BY DEF RunMicrotask, s
<1> HIDE DEF y, j
<1>6. Sound(y, NoneLost) /\ Kept(s, y)
  <2>1. \A n \in Nodes : \A i \in DOMAIN y.inbox[n] : \E k \in DOMAIN s.inbox[n] : y.inbox[n][i] = s.inbox[n][k]
    BY <1>4
  <2>2. s.registered \subseteq y.registered
    BY <1>4 DEF SameNodes
  <2>3. Sound(y, NoneLost)
    BY <1>1, <1>4, <2>1, <2>2, QuietSound, NoneLostType
  <2> QED BY <1>4, <2>3 DEF Kept, SameJobs, SameTasks
<1>7. Sound(x, NoneLost) /\ Kept(y, x)
  BY <1>3, <1>6, NoneLostType, PumpSound
<1> HIDE DEF x
<1>8. Kept(Coordinator, x)
  BY <1>6, <1>7, KeptTransitive DEF s
<1>9. UNCHANGED <<open, runs, aborting, paused>> /\ Shrinks /\ TroublesSound'
  BY DEF RunMicrotask, workerVars, troubleVars, Shrinks, IInv, LinksSound, TroublesSound
<1>10. IInv'
  BY <1>5, <1>7, <1>8, <1>9, HandlerStep
<1> QED BY <1>5, <1>7, <1>8, <1>10, CommitEffect DEF Sound

LEMMA DisturbStep ==
  ASSUME TroublesSound, NEW kind, Disturb(kind)
  PROVE  TroublesSound'
  BY Numbers DEF TroublesSound, Disturb, Strike

LEMMA TimeoutsStep ==
  ASSUME IInv, SweepTimeouts
  PROVE  IInv' /\ Kept(Coordinator, Coordinator')
<1> DEFINE s == Coordinator
<1>1. Sound(s, NoneLost) /\ s.status = status
  BY CoordinatorFields DEF IInv, CoordinatorSound
<1>2. PICK overdue \in SUBSET {t \in Tasks : MayBeOverdue(t)} : Commit(SweepAll(s, overdue))
  BY DEF SweepTimeouts
<1> DEFINE x == SweepAll(s, overdue)
<1>3. \A t \in overdue : s.status[t] # "absent"
  BY <1>1 DEF MayBeOverdue
<1>4. Commit(x)
  BY <1>2
<1>5. Sound(x, NoneLost) /\ Kept(s, x)
  <2> HIDE DEF s
  <2> QED BY <1>1, <1>3, SweepSound
<1> HIDE DEF x
<1>6. UNCHANGED <<open, runs, aborting, paused>> /\ Shrinks
  BY DEF SweepTimeouts, workerVars, Shrinks, IInv, LinksSound
<1>7. TroublesSound'
  BY DisturbStep DEF SweepTimeouts, IInv
<1>8. IInv'
  BY <1>4, <1>5, <1>6, <1>7, HandlerStep
<1> QED BY <1>4, <1>5, <1>8, CommitEffect DEF Sound

LEMMA CancelStep ==
  ASSUME IInv, NEW j \in Jobs, Cancel(j)
  PROVE  IInv' /\ Kept(Coordinator, Coordinator')
<1> DEFINE s == Coordinator
           x == Cancelled(DropAll(s, j), j)
<1>1. Sound(s, NoneLost) /\ s.jobStatus[j] \in Live \cup {"cancelled"}
  BY CoordinatorFields DEF IInv, CoordinatorSound, Cancel
<1>2. Commit(x)
  BY DEF Cancel, Cancelled
<1>3. Sound(x, NoneLost) /\ Kept(s, x)
  <2> HIDE DEF s
  <2> QED BY <1>1, NoneLostType, CancelSound
<1> HIDE DEF x
<1>4. UNCHANGED <<open, runs, aborting, paused>> /\ Shrinks
  BY DEF Cancel, workerVars, Shrinks, IInv, LinksSound
<1>5. TroublesSound'
  BY DisturbStep DEF Cancel, IInv
<1>6. IInv'
  BY <1>2, <1>3, <1>4, <1>5, HandlerStep
<1> QED BY <1>2, <1>3, <1>6, CommitEffect DEF Sound

LEMMA SubmitCases ==
  ASSUME NEW j \in Jobs, Submit(j), Coordinator \in States
  PROVE  /\ Coordinator.jobStatus[j] = "none"
         /\ \/ Commit(Refused(Coordinator, j))
            \/ \E q, plan : /\ PlanGood(Coordinator, j, q, plan)
                            /\ Commit(Planned(Coordinator, j, q, plan))
<1> DEFINE s == Coordinator
           E == EligibleNodes(s)
           plan == PlanPipeline(s)
<1>1. s.jobStatus[j] = "none"
  BY CoordinatorFields DEF Submit
<1>2. \/ /\ j \in PipelineJobs /\ plan # {}
         /\ Commit(Planned(s, j, Single(j, First(plan)), plan))
      \/ /\ j \notin PipelineJobs
         /\ \E c \in Clusters(E) : \E f \in Splits(j, Len(c)) :
              Commit(Planned(s, j, FanOut(j, c, f), {}))
      \/ j \notin PipelineJobs /\ \E n \in E : Commit(Planned(s, j, Single(j, n), {}))
      \/ Commit(Refused(s, j))
  BY DEF Submit
<1> HIDE DEF s
<1>3. CASE j \in PipelineJobs /\ plan # {} /\ Commit(Planned(s, j, Single(j, First(plan)), plan))
  <2>1. First(plan) \in s.registered /\ plan \in SUBSET Nodes
    <3>1. plan \subseteq Nodes /\ plan \subseteq s.registered
      BY Views DEF s
    <3> QED BY <1>3, <3>1, FirstNode
  <2> HIDE DEF plan
  <2>2. PlanGood(s, j, Single(j, First(plan)), plan)
    BY <1>3, <2>1, SingleGood DEF s
  <2> QED BY <1>1, <1>3, <2>2 DEF s
<1>4. ASSUME j \notin PipelineJobs, NEW c \in Clusters(E), NEW f \in Splits(j, Len(c)),
             Commit(Planned(s, j, FanOut(j, c, f), {}))
      PROVE  \E q, p : PlanGood(s, j, q, p) /\ Commit(Planned(s, j, q, p))
  <2>1. PlanGood(s, j, FanOut(j, c, f), {})
    BY <1>4, FanOutGood DEF s
  <2> QED BY <1>4, <2>1
<1>5. ASSUME j \notin PipelineJobs, NEW n \in E, Commit(Planned(s, j, Single(j, n), {}))
      PROVE  \E q, p : PlanGood(s, j, q, p) /\ Commit(Planned(s, j, q, p))
  <2>1. n \in s.registered
    BY <1>5, Views DEF s
  <2>2. PlanGood(s, j, Single(j, n), {})
    BY <1>5, <2>1, SingleGood DEF s
  <2> QED BY <1>5, <2>2
<1> QED BY <1>1, <1>2, <1>3, <1>4, <1>5 DEF s

LEMMA SubmitStep ==
  ASSUME IInv, NEW j \in Jobs, Submit(j)
  PROVE  IInv' /\ Kept(Coordinator, Coordinator')
<1> DEFINE s == Coordinator
<1>1. Sound(s, NoneLost) /\ s \in States
  BY DEF IInv, CoordinatorSound, Sound
<1>2. PICK x : Commit(x) /\ Sound(x, NoneLost) /\ Kept(s, x)
  <2>1. s.jobStatus[j] = "none"
    BY <1>1, SubmitCases
  <2>2. CASE Commit(Refused(s, j))
    <3> HIDE DEF s
    <3>1. ~Ended(s, j)
      BY <2>1 DEF Ended, Terminal
    <3>2. LET x == [s EXCEPT !.jobStatus[j] = "failed"] IN Sound(x, NoneLost) /\ Kept(s, x)
      BY <1>1, <3>1, NoneLostType, FailSound
    <3> QED BY <2>2, <3>2 DEF Refused
  <2>3. ASSUME NEW q, NEW plan, PlanGood(s, j, q, plan), Commit(Planned(s, j, q, plan))
        PROVE  \E x : Commit(x) /\ Sound(x, NoneLost) /\ Kept(s, x)
    <3> HIDE DEF s
    <3> DEFINE y == Planting(s, j, q, plan)
               x == Pump(y, j)
    <3>1. Sound(y, NoneLost) /\ Kept(s, y)
      BY <1>1, <2>1, <2>3, NoneLostType, PlantSound
    <3>2. Planned(s, j, q, plan) = x
      BY DEF Planned, Planting
    <3> HIDE DEF y
    <3>3. Sound(x, NoneLost) /\ Kept(y, x)
      BY <3>1, NoneLostType, PumpSound
    <3> HIDE DEF x
    <3> QED BY <2>3, <3>1, <3>2, <3>3, KeptTransitive
  <2> QED BY <1>1, <2>2, <2>3, SubmitCases
<1>3. UNCHANGED <<open, runs, aborting, paused>> /\ Shrinks /\ TroublesSound'
  BY DEF Submit, workerVars, troubleVars, Shrinks, IInv, LinksSound, TroublesSound
<1>4. IInv'
  BY <1>2, <1>3, HandlerStep
<1> QED BY <1>2, <1>4, CommitEffect DEF Sound

LEMMA ConsumeEffect ==
  ASSUME IInv, NEW n \in Nodes, NEW kind, Hears(n, kind), Consume(n)
  PROVE  /\ UNCHANGED <<open, runs, aborting, paused>> /\ Shrinks /\ TroublesSound'
         /\ Head(outbox[n]) = outbox[n][1] /\ 1 \in DOMAIN outbox[n] /\ outbox[n][1].type = kind
  BY HeadOfOutbox DEF Hears, Consume, troubleVars, IInv, TroublesSound

LEMMA AcceptedStep ==
  ASSUME IInv, NEW n \in Nodes, OnTaskAccepted(n)
  PROVE  IInv' /\ Kept(Coordinator, Coordinator')
<1> DEFINE s == Coordinator
           t == Head(outbox[n]).task
           x == [s EXCEPT !.status[t] = "running"]
<1>1. UNCHANGED <<open, runs, aborting, paused>> /\ Shrinks /\ TroublesSound' /\ Commit(x)
  BY ConsumeEffect DEF OnTaskAccepted
<1>2. t \in Tasks /\ status[t] # "absent"
  <2>1. /\ Head(outbox[n]) = outbox[n][1] /\ 1 \in DOMAIN outbox[n] /\ outbox[n][1].type = "accepted"
    BY ConsumeEffect DEF OnTaskAccepted
  <2> QED BY <2>1, ReportOf DEF IInv
<1>3. Sound(s, NoneLost) /\ s \in States /\ s.status[t] # "absent"
  BY <1>2, CoordinatorFields DEF IInv, CoordinatorSound, Sound
<1> HIDE DEF s, t
<1>4. x \in States /\ Marked(s, x, t, "running")
  BY <1>2, <1>3, StatusEffect DEF TaskStatuses
<1> HIDE DEF x
<1>5. Sound(x, NoneLost) /\ Kept(s, x)
  <2>1. /\ SameJobs(s, x) /\ SameWork(s, x) /\ SameNodes(s, x) /\ x.inbox = s.inbox
        /\ \A r \in Tasks : x.holder[r] \in {None, s.holder[r]}
        /\ \A r \in Tasks : s.status[r] # "absent" <=> x.status[r] # "absent"
    BY <1>2, <1>3, <1>4 DEF Marked, SameLinks, States
  <2> QED BY <1>3, <1>4, <2>1, NoneLostType, HolderSound
<1>6. IInv'
  BY <1>1, <1>5, HandlerStep DEF s
<1> QED BY <1>1, <1>4, <1>5, <1>6, CommitEffect DEF s

LEMMA RefusedOrFailedStep ==
  ASSUME IInv, NEW n \in Nodes, OnTaskRefusedOrFailed(n)
  PROVE  IInv' /\ Kept(Coordinator, Coordinator')
<1> DEFINE s == Coordinator
           t == Head(outbox[n]).task
           x == Requeue(s, t)
<1>1. UNCHANGED <<open, runs, aborting, paused>> /\ Shrinks /\ TroublesSound' /\ Commit(x)
  BY ConsumeEffect DEF OnTaskRefusedOrFailed
<1>2. t \in Tasks /\ status[t] # "absent"
  <2>1. /\ Head(outbox[n]) = outbox[n][1] /\ 1 \in DOMAIN outbox[n]
        /\ outbox[n][1].type \in {"rejected", "failed"}
    BY ConsumeEffect DEF OnTaskRefusedOrFailed
  <2> QED BY <2>1, ReportOf DEF IInv
<1>3. Sound(s, NoneLost) /\ s.status[t] # "absent"
  BY <1>2, CoordinatorFields DEF IInv, CoordinatorSound
<1>4. Sound(x, NoneLost) /\ Kept(s, x)
  <2> HIDE DEF s, t
  <2> QED BY <1>2, <1>3, NoneLostType, RequeueSound
<1> HIDE DEF x
<1>5. IInv'
  BY <1>1, <1>4, HandlerStep
<1> QED BY <1>1, <1>4, <1>5, CommitEffect DEF Sound

LEMMA AnsweredSound ==
  ASSUME NEW s, Sound(s, NoneLost), NEW n \in Nodes, NEW t \in Tasks, s.status[t] # "absent"
  PROVE  Sound(Answered(s, n, t), NoneLost) /\ Kept(s, Answered(s, n, t))
<1> DEFINE y == Occupy(s, n, -1)
           x == [y EXCEPT !.status[t] = "completed"]
<1>1. s \in States
  BY DEF Sound
<1>2. /\ y \in States /\ SameJobs(s, y) /\ SameWork(s, y) /\ SameNodes(s, y)
      /\ y.status = s.status /\ y.holder = s.holder /\ y.inbox = s.inbox
  BY <1>1, OccupyEffect
<1> HIDE DEF y
<1>3. x \in States /\ Marked(y, x, t, "completed")
  BY <1>2, StatusEffect DEF TaskStatuses
<1>4. Answered(s, n, t) = Pump(x, JobOf(t)) /\ JobOf(t) \in Jobs
  BY TaskNames DEF Answered, y
<1> HIDE DEF x
<1>5. Sound(x, NoneLost) /\ Kept(s, x)
  <2>1. /\ SameJobs(s, x) /\ SameWork(s, x) /\ SameNodes(s, x) /\ x.inbox = s.inbox
        /\ \A r \in Tasks : x.holder[r] \in {None, s.holder[r]}
        /\ \A r \in Tasks : s.status[r] # "absent" <=> x.status[r] # "absent"
    BY <1>1, <1>2, <1>3 DEF Marked, SameLinks, States, SameJobs, SameWork, SameNodes
  <2> QED BY <1>3, <2>1, NoneLostType, HolderSound
<1>6. Sound(Pump(x, JobOf(t)), NoneLost) /\ Kept(x, Pump(x, JobOf(t)))
  BY <1>4, <1>5, NoneLostType, PumpSound
<1> QED BY <1>4, <1>5, <1>6, KeptTransitive

LEMMA CompletedStep ==
  ASSUME IInv, NEW n \in Nodes, OnTaskCompleted(n)
  PROVE  IInv' /\ Kept(Coordinator, Coordinator')
<1> DEFINE s == Coordinator
           t == Head(outbox[n]).task
           x == Answered(s, n, t)
<1>1. UNCHANGED <<open, runs, aborting, paused>> /\ Shrinks /\ TroublesSound' /\ Commit(x)
  BY ConsumeEffect DEF OnTaskCompleted
<1>2. t \in Tasks /\ status[t] # "absent"
  <2>1. /\ Head(outbox[n]) = outbox[n][1] /\ 1 \in DOMAIN outbox[n] /\ outbox[n][1].type = "completed"
    BY ConsumeEffect DEF OnTaskCompleted
  <2> QED BY <2>1, ReportOf DEF IInv
<1>3. Sound(s, NoneLost) /\ s.status[t] # "absent"
  BY <1>2, CoordinatorFields DEF IInv, CoordinatorSound
<1>4. Sound(x, NoneLost) /\ Kept(s, x)
  <2> HIDE DEF s, t
  <2> QED BY <1>2, <1>3, AnsweredSound
<1> HIDE DEF x
<1>5. IInv'
  BY <1>1, <1>4, HandlerStep
<1> QED BY <1>1, <1>4, <1>5, CommitEffect DEF Sound

\* A heartbeat, and registry.add, change the registry's view of a node only.
NodesMarked(s, x) ==
  /\ SameJobs(s, x) /\ SameTasks(s, x) /\ SameTries(s, x) /\ SameWork(s, x)
  /\ x.pumps = s.pumps /\ x.inbox = s.inbox
Viewed(s, R, A, B) == [s EXCEPT !.registered = R, !.active = A, !.able = B]
LEMMA NodesEffect ==
  ASSUME NEW s \in States, NEW R \in SUBSET Nodes, NEW A \in [Nodes -> Nat], NEW B \in SUBSET Nodes
  PROVE  LET x == Viewed(s, R, A, B) IN
         /\ x \in States /\ NodesMarked(s, x)
         /\ x.registered = R /\ x.active = A /\ x.able = B
  BY DEF Viewed, States, NodesMarked, SameJobs, SameTasks, SameTries, SameWork

LEMMA HeartbeatStep ==
  ASSUME IInv, NEW n \in Nodes, UpdateHeartbeat(n)
  PROVE  IInv' /\ registered' = registered /\ \A j \in Jobs : jobStatus'[j] = jobStatus[j]
<1> DEFINE s == Coordinator
           m == Head(outbox[n])
           A == [s.active EXCEPT ![n] = m.active]
           B == IF m.able THEN s.able \cup {n} ELSE s.able \ {n}
           z == Viewed(s, s.registered, A, B)
           x == IF n \notin registered THEN s ELSE z
<1>1. UNCHANGED <<open, runs, aborting, paused>> /\ Shrinks /\ TroublesSound'
  BY ConsumeEffect DEF UpdateHeartbeat
<1>2. m.active \in Nat
  <2>1. /\ Head(outbox[n]) = outbox[n][1] /\ 1 \in DOMAIN outbox[n] /\ outbox[n][1].type = "heartbeat"
    BY ConsumeEffect DEF UpdateHeartbeat
  <2> QED BY <2>1, ReportOf DEF IInv
<1>3. Sound(s, NoneLost) /\ s \in States /\ s.registered = registered /\ s.able = able /\ s.jobStatus = jobStatus
  BY CoordinatorFields DEF IInv, CoordinatorSound, Sound
<1>4. Commit(x)
  <2>1. Commit(IF n \notin registered THEN s
               ELSE [s EXCEPT !.active[n] = m.active, !.able = IF m.able THEN @ \cup {n} ELSE @ \ {n}])
    BY DEF UpdateHeartbeat
  <2>2. [s EXCEPT !.active[n] = m.active, !.able = IF m.able THEN @ \cup {n} ELSE @ \ {n}] = z
    <3> HIDE DEF s, m
    <3> QED BY <1>3 DEF States, Viewed
  <2> QED BY <2>1, <2>2
<1> HIDE DEF s, m
<1>5. A \in [Nodes -> Nat] /\ B \in SUBSET Nodes /\ s.registered \in SUBSET Nodes
  BY <1>2, <1>3 DEF States
<1>6. z \in States /\ NodesMarked(s, z) /\ z.registered = s.registered /\ z.able = B
  <2> HIDE DEF A, B
  <2> QED BY <1>3, <1>5, NodesEffect
<1> HIDE DEF z
<1>7. /\ x \in States /\ NodesMarked(s, x) /\ x.registered = s.registered
      /\ x.able \subseteq s.able \cup ({n} \cap registered)
  BY <1>3, <1>6 DEF NodesMarked, SameJobs, SameTasks, SameTries, SameWork
<1> HIDE DEF x
<1>8. Sound(x, NoneLost)
  BY <1>3, <1>7, QuietSound, NoneLostType DEF NodesMarked
<1>9. Coordinator' = x
  BY <1>4, <1>7, CommitEffect
<1>10. /\ registered' = registered /\ able' \subseteq registered /\ inbox' = inbox
       /\ status' = status /\ jobStatus' = jobStatus
  <2>1. s.status = status /\ s.inbox = inbox /\ able \subseteq registered
    BY CoordinatorFields DEF s, IInv, LinksSound
  <2> QED BY <1>3, <1>4, <1>7, <2>1 DEF Commit, NodesMarked, SameTasks, SameJobs
<1>11. CoordinatorSound'
  BY <1>8, <1>9 DEF CoordinatorSound
<1>12. LinksSound'
  <2>1. ASSUME NEW k \in Nodes, NEW i \in DOMAIN outbox'[k], outbox'[k][i].type # "heartbeat"
        PROVE  status'[outbox'[k][i].task] # "absent"
    <3>1. PICK l \in DOMAIN outbox[k] : outbox'[k][i] = outbox[k][l]
      BY <1>1 DEF Shrinks
    <3> QED BY <1>10, <2>1, <3>1, ReportOf DEF IInv
  <2> QED BY <1>1, <1>10, <2>1 DEF IInv, LinksSound, Shrinks
<1>13. RunsSound'
  BY <1>1, <1>10 DEF IInv, RunsSound
<1> QED BY <1>1, <1>10, <1>11, <1>12, <1>13 DEF IInv

\* A node is lost: its work is requeued, and what its link and its worker held is
\* gone, or stays behind it.
LEMMA LossFacts ==
  ASSUME IInv, NEW n \in Nodes
  PROVE  LET x == NodeLost(Coordinator, n) IN
         /\ Sound(x, NoneLost) /\ x.registered = registered \ {n} /\ x.able = able \ {n}
         /\ \A m \in Nodes : m \notin open \ {n} => x.inbox[m] = <<>>
         /\ \A t \in Tasks : status[t] # "absent" => x.status[t] # "absent"
         /\ \A j \in Jobs : jobStatus[j] \in Terminal => x.jobStatus[j] = jobStatus[j]
<1> DEFINE s == Coordinator
           g == Gone(s, n)
           x == NodeLost(s, n)
<1>1. Sound(s, NoneLost) /\ s \in States
  BY DEF IInv, CoordinatorSound, Sound
<1>2. /\ s.registered = registered /\ s.able = able /\ s.status = status
      /\ s.jobStatus = jobStatus /\ s.inbox = inbox
  BY CoordinatorFields
<1> HIDE DEF s
<1>3. Sound(x, NoneLost) /\ Kept(g, x) /\ IsGone(s, g, n)
  BY <1>1, NodeLostSound, GoneEffect
<1> HIDE DEF g, x
<1>4. x.registered = registered \ {n} /\ x.able = able \ {n}
  BY <1>2, <1>3 DEF Kept, IsGone, SameNodes
<1>5. ASSUME NEW m \in Nodes, m \notin open \ {n} PROVE x.inbox[m] = <<>>
  <2>1. m \notin g.registered \cap open
    BY <1>2, <1>3, <1>5 DEF IsGone
  <2>2. x.inbox[m] = g.inbox[m]
    BY <1>3, <2>1 DEF Kept
  <2>3. m # n => inbox[m] = <<>>
    BY <1>5 DEF IInv, LinksSound
  <2> QED BY <1>2, <1>3, <2>2, <2>3 DEF IsGone
<1>6. \A t \in Tasks : status[t] # "absent" => x.status[t] # "absent"
  BY <1>2, <1>3 DEF Kept, IsGone, SameTasks
<1>7. \A j \in Jobs : jobStatus[j] \in Terminal => x.jobStatus[j] = jobStatus[j]
  BY <1>2, <1>3 DEF Kept, IsGone, SameJobs
<1> QED BY <1>3, <1>4, <1>5, <1>6, <1>7 DEF x, s

LEMMA LossStep ==
  ASSUME IInv, NEW n \in Nodes, CoordinatorSound', registered' = registered \ {n}, able' = able \ {n},
         open' \subseteq open, Shrinks, paused' = paused, TroublesSound',
         \A m \in Nodes : m \notin open' => inbox'[m] = <<>> /\ outbox'[m] = <<>>,
         \A t \in Tasks : status[t] # "absent" => status'[t] # "absent",
         runs' \in [Nodes -> SUBSET Tasks], aborting' \in [Nodes -> SUBSET Tasks],
         \A m \in Nodes : runs'[m] \subseteq runs[m] /\ aborting'[m] \subseteq aborting[m]
  PROVE  IInv'
<1>1. LinksSound'
  <2>1. ASSUME NEW m \in Nodes, NEW i \in DOMAIN outbox'[m], outbox'[m][i].type # "heartbeat"
        PROVE  status'[outbox'[m][i].task] # "absent"
    <3>1. PICK k \in DOMAIN outbox[m] : outbox'[m][i] = outbox[m][k]
      BY DEF Shrinks
    <3>2. outbox[m][k].task \in Tasks /\ status[outbox[m][k].task] # "absent"
      BY <2>1, <3>1, ReportOf DEF IInv
    <3> QED BY <3>1, <3>2
  <2> QED BY <2>1 DEF IInv, LinksSound, Shrinks
<1>2. RunsSound'
  <2>1. ASSUME NEW m \in Nodes
        PROVE  IsFiniteSet(runs'[m]) /\ Cardinality(runs'[m]) <= MaxConcurrent
    <3>1. IsFiniteSet(runs[m]) /\ Cardinality(runs[m]) <= MaxConcurrent /\ runs'[m] \subseteq runs[m]
      BY DEF IInv, RunsSound
    <3>2. IsFiniteSet(runs'[m]) /\ Cardinality(runs'[m]) <= Cardinality(runs[m])
      BY <3>1, FS_Subset
    <3>3. Cardinality(runs'[m]) \in Nat /\ Cardinality(runs[m]) \in Nat
      BY <3>1, <3>2, FS_CardinalityType
    <3> QED BY <3>1, <3>2, <3>3, Numbers
  <2>2. ASSUME NEW m \in Nodes, NEW t \in runs'[m] \cup aborting'[m] PROVE status'[t] # "absent"
    <3>1. t \in runs[m] \cup aborting[m] /\ t \in Tasks
      BY <2>2
    <3> QED BY <3>1 DEF IInv, RunsSound
  <2> QED BY <2>1, <2>2 DEF IInv, RunsSound
<1> QED BY <1>1, <1>2 DEF IInv

\* Emptying one outbox.
LEMMA Silenced ==
  ASSUME LinksSound, NEW n \in Nodes, outbox' = [outbox EXCEPT ![n] = <<>>]
  PROVE  Shrinks /\ outbox'[n] = <<>>
<1>1. outbox \in [Nodes -> Seq(Reports)] /\ <<>> \in Seq(Reports) /\ DOMAIN <<>> = {}
  BY DEF LinksSound
<1> QED BY <1>1 DEF Shrinks

LEMMA LossSteps ==
  ASSUME IInv, NEW n \in Nodes, Crash(n) \/ SweepStale(n) \/ CloseEvent(n) \/ ReplacedCloseEvent(n)
  PROVE  IInv' /\ \A j \in Jobs : jobStatus[j] \in Terminal => jobStatus'[j] = jobStatus[j]
<1> DEFINE x == NodeLost(Coordinator, n)
           y == [x EXCEPT !.inbox[n] = inbox[n]]
<1>1. runs \in [Nodes -> SUBSET Tasks] /\ aborting \in [Nodes -> SUBSET Tasks]
  BY DEF IInv, RunsSound
<1>2. /\ Sound(x, NoneLost) /\ x.registered = registered \ {n} /\ x.able = able \ {n}
      /\ \A m \in Nodes : m \notin open \ {n} => x.inbox[m] = <<>>
      /\ \A t \in Tasks : status[t] # "absent" => x.status[t] # "absent"
      /\ \A j \in Jobs : jobStatus[j] \in Terminal => x.jobStatus[j] = jobStatus[j]
  BY LossFacts
<1>3. /\ inbox \in [Nodes -> Seq(Messages)]
      /\ \A i \in DOMAIN inbox[n] : inbox[n][i].task \in Tasks /\ status[inbox[n][i].task] # "absent"
  <2>1. inbox \in [Nodes -> Seq(Messages)]
        /\ \A m \in Nodes : \A i \in DOMAIN inbox[m] : status[inbox[m][i].task] # "absent"
    BY CoordinatorFields DEF IInv, CoordinatorSound, Sound, States, AbsentSound
  <2>2. inbox[n] \in Seq(Messages)
    BY <2>1
  <2>3. \A i \in DOMAIN inbox[n] : inbox[n][i] \in Messages
    BY <2>2
  <2> QED BY <2>1, <2>3 DEF Messages
<1> HIDE DEF x
<1>4. /\ Sound(y, NoneLost) /\ y.inbox = [x.inbox EXCEPT ![n] = inbox[n]]
      /\ y.registered = x.registered /\ y.able = x.able /\ y.status = x.status /\ y.jobStatus = x.jobStatus
  <2> DEFINE I == [x.inbox EXCEPT ![n] = inbox[n]]
  <2>1. x \in States /\ I \in [Nodes -> Seq(Messages)] /\ y = [x EXCEPT !.inbox = I]
    BY <1>2, <1>3 DEF Sound, States
  <2>2. \A m \in Nodes : \A i \in DOMAIN I[m] : x.status[I[m][i].task] # "absent"
    <3>1. \A m \in Nodes : \A i \in DOMAIN x.inbox[m] : x.status[x.inbox[m][i].task] # "absent"
      BY <1>2 DEF Sound, AbsentSound
    <3>2. \A m \in Nodes : I[m] = IF m = n THEN inbox[n] ELSE x.inbox[m]
      BY <2>1 DEF States
    <3> HIDE DEF I
    <3> QED BY <1>2, <1>3, <3>1, <3>2
  <2> HIDE DEF I
  <2>3. y \in States /\ SameJobs(x, y) /\ SameTasks(x, y) /\ SameWork(x, y)
        /\ y.registered = x.registered /\ y.inbox = I /\ y.able = x.able
    BY <2>1 DEF States, SameJobs, SameTasks, SameWork
  <2>4. Sound(y, NoneLost)
    <3> HIDE DEF y
    <3>1. x.registered \subseteq y.registered
      BY <2>3
    <3> QED BY <1>2, <2>2, <2>3, <3>1, StillSound, NoneLostType
  <2> QED BY <2>3, <2>4 DEF I, SameJobs, SameTasks
<1> HIDE DEF y
<1>5. ASSUME NEW z, z = x \/ z = y, Commit(z)
      PROVE  /\ CoordinatorSound' /\ registered' = registered \ {n} /\ able' = able \ {n}
             /\ inbox' = z.inbox
             /\ \A t \in Tasks : status[t] # "absent" => status'[t] # "absent"
             /\ \A j \in Jobs : jobStatus[j] \in Terminal => jobStatus'[j] = jobStatus[j]
  <2>1. Sound(z, NoneLost) /\ z \in States
    BY <1>2, <1>4, <1>5 DEF Sound
  <2>2. Coordinator' = z
    BY <1>5, <2>1, CommitEffect
  <2> QED BY <1>2, <1>4, <1>5, <2>1, <2>2 DEF Commit, CoordinatorSound
<1>6. CASE Crash(n)
  <2>1. Shrinks /\ outbox'[n] = <<>> /\ open' = open \ {n}
    BY <1>6, Silenced DEF Crash, IInv
  <2>2. TroublesSound'
    BY <1>6, DisturbStep DEF Crash, IInv
  <2>3. /\ runs' \in [Nodes -> SUBSET Tasks] /\ aborting' \in [Nodes -> SUBSET Tasks]
        /\ \A m \in Nodes : runs'[m] \subseteq runs[m] /\ aborting'[m] \subseteq aborting[m]
    BY <1>1, <1>6 DEF Crash
  <2>4. Commit(x) /\ paused' = paused
    BY <1>6 DEF Crash, x
  <2>5. \A m \in Nodes : m \notin open' => inbox'[m] = <<>> /\ outbox'[m] = <<>>
    BY <1>2, <1>5, <2>1, <2>4 DEF Shrinks, IInv, LinksSound
  <2> QED BY <1>5, <2>1, <2>2, <2>3, <2>4, <2>5, LossStep
<1>7. CASE SweepStale(n) \/ CloseEvent(n)
  <2>1. Shrinks /\ outbox'[n] = <<>> /\ open' = open \ {n} /\ TroublesSound'
    <3>1. CASE SweepStale(n)
      BY <3>1, Silenced, DisturbStep DEF SweepStale, IInv
    <3>2. CASE CloseEvent(n)
      <4>1. UNCHANGED <<open, outbox, replaced, troubles, strikes>> /\ n \notin open
        BY <3>2 DEF CloseEvent, workerVars, troubleVars
      <4> QED BY <4>1 DEF Shrinks, IInv, LinksSound, TroublesSound
    <3> QED BY <1>7, <3>1, <3>2
  <2>2. Commit(x) /\ paused' = paused /\ runs' = runs /\ aborting' = aborting
    BY <1>7 DEF SweepStale, CloseEvent, workerVars, x
  <2>3. \A m \in Nodes : m \notin open' => inbox'[m] = <<>> /\ outbox'[m] = <<>>
    BY <1>2, <1>5, <2>1, <2>2 DEF Shrinks, IInv, LinksSound
  <2> QED BY <1>1, <1>5, <2>1, <2>2, <2>3, LossStep
<1>8. CASE ReplacedCloseEvent(n)
  <2>1. /\ Commit(y) /\ UNCHANGED <<open, outbox, runs, aborting, paused>>
        /\ replaced' = replaced \ {n} /\ UNCHANGED <<troubles, strikes>>
    BY <1>8 DEF ReplacedCloseEvent, workerVars, x, y
  <2>2. Shrinks /\ TroublesSound'
    BY <2>1 DEF Shrinks, IInv, LinksSound, TroublesSound
  <2>3. \A m \in Nodes : m \notin open' => inbox'[m] = <<>> /\ outbox'[m] = <<>>
    <3>1. x.inbox \in [Nodes -> Seq(Messages)] /\ \A m \in Nodes : m \notin open => inbox[m] = <<>> /\ outbox[m] = <<>>
      BY <1>2 DEF Sound, States, IInv, LinksSound
    <3> QED BY <1>2, <1>4, <1>5, <2>1, <3>1
  <2> QED BY <1>1, <1>5, <2>1, <2>2, <2>3, LossStep
<1> QED BY <1>6, <1>7, <1>8

-----------------------------------------------------------------------------
(* Steps of the workers and their links.                                     *)

InboxesShrink ==
  /\ inbox' \in [Nodes -> Seq(Messages)]
  /\ \A n \in Nodes : inbox[n] = <<>> => inbox'[n] = <<>>
  /\ \A n \in Nodes : \A i \in DOMAIN inbox'[n] : \E k \in DOMAIN inbox[n] : inbox'[n][i] = inbox[n][k]
OutboxesKnown ==
  /\ outbox' \in [Nodes -> Seq(Reports)]
  /\ \A n \in Nodes : n \notin open => outbox'[n] = <<>>
  /\ \A n \in Nodes : \A i \in DOMAIN outbox'[n] :
       outbox'[n][i].type # "heartbeat" => status[outbox'[n][i].task] # "absent"
LedgerKept == UNCHANGED <<jobStatus, completedCount, status, holder, attempts, tried,
                          queues, members, pumps>>
BooksKept == LedgerKept /\ active' = active

LEMMA LinkStep ==
  ASSUME IInv, LedgerKept, active' \in [Nodes -> Nat], InboxesShrink, OutboxesKnown, RunsSound', TroublesSound',
         registered \subseteq registered', registered' \subseteq Nodes,
         able' \subseteq registered', open' \subseteq Nodes,
         \A n \in open \ open' : inbox'[n] = <<>> /\ outbox'[n] = <<>>
  PROVE  IInv'
<1> DEFINE s == Coordinator
           x == Coordinator'
<1>1. Sound(s, NoneLost) /\ s \in States
  BY DEF IInv, CoordinatorSound, Sound
<1>2. /\ x.registered = registered' /\ x.able = able' /\ x.inbox = inbox'
      /\ s.registered = registered /\ s.inbox = inbox
  BY DEF Coordinator
<1>3. x \in States
  BY <1>1 DEF Coordinator, States, LedgerKept, InboxesShrink
<1>4. SameJobs(s, x) /\ SameTasks(s, x) /\ SameWork(s, x)
  BY DEF Coordinator, LedgerKept, SameJobs, SameTasks, SameWork
<1> HIDE DEF s, x
<1>5. Sound(x, NoneLost)
  BY <1>1, <1>2, <1>3, <1>4, QuietSound, NoneLostType DEF InboxesShrink
<1>6. CoordinatorSound'
  BY <1>5 DEF CoordinatorSound, x
<1>7. LinksSound'
  BY DEF IInv, LinksSound, InboxesShrink, OutboxesKnown, LedgerKept
<1> QED BY <1>6, <1>7 DEF IInv

LEMMA WorkStep ==
  ASSUME IInv, BooksKept, InboxesShrink, OutboxesKnown, RunsSound', TroublesSound',
         registered \subseteq registered', registered' \subseteq Nodes,
         able' \subseteq registered', open' \subseteq Nodes,
         \A n \in open \ open' : inbox'[n] = <<>> /\ outbox'[n] = <<>>
  PROVE  IInv'
<1>1. LedgerKept /\ active' = active /\ active \in [Nodes -> Nat]
  BY CoordinatorFields DEF BooksKept, IInv, CoordinatorSound, Sound, States
<1> QED BY <1>1, LinkStep

LEMMA HeadOfInbox ==
  ASSUME IInv, NEW n \in Nodes, inbox[n] # <<>>
  PROVE  /\ Head(inbox[n]).task \in Tasks /\ status[Head(inbox[n]).task] # "absent"
         /\ Head(inbox[n]) \in Messages
         /\ TakeInbox(n) => InboxesShrink
<1>1. inbox \in [Nodes -> Seq(Messages)]
      /\ \A m \in Nodes : \A i \in DOMAIN inbox[m] : status[inbox[m][i].task] # "absent"
  BY CoordinatorFields DEF IInv, CoordinatorSound, Sound, States, AbsentSound
<1> DEFINE q == inbox[n]
<1>2. q \in Seq(Messages) /\ q # <<>>
  BY <1>1
<1> HIDE DEF q
<1>3. /\ 1 \in DOMAIN q /\ Head(q) = q[1] /\ q[1] \in Messages /\ Tail(q) \in Seq(Messages)
      /\ \A i \in DOMAIN Tail(q) : i + 1 \in DOMAIN q /\ Tail(q)[i] = q[i + 1]
  BY <1>2
<1>4. Head(q).task \in Tasks
  BY <1>3 DEF Messages
<1>5. ASSUME TakeInbox(n) PROVE InboxesShrink
  <2>1. inbox' \in [Nodes -> Seq(Messages)]
    BY <1>1, <1>3, <1>5 DEF TakeInbox, q
  <2>2. \A m \in Nodes : inbox'[m] = IF m = n THEN Tail(q) ELSE inbox[m]
    BY <1>1, <1>5 DEF TakeInbox, q
  <2>3. \A m \in Nodes : inbox[m] = <<>> => inbox'[m] = <<>>
    BY <1>2, <2>2 DEF q
  <2>4. \A m \in Nodes : \A i \in DOMAIN inbox'[m] : \E k \in DOMAIN inbox[m] : inbox'[m][i] = inbox[m][k]
    <3> SUFFICES ASSUME NEW m \in Nodes, NEW i \in DOMAIN inbox'[m]
                 PROVE  \E k \in DOMAIN inbox[m] : inbox'[m][i] = inbox[m][k]
      OBVIOUS
    <3>1. CASE m = n
      <4>1. i + 1 \in DOMAIN q /\ inbox'[m][i] = q[i + 1]
        BY <1>3, <2>2, <3>1
      <4> QED BY <3>1, <4>1 DEF q
    <3>2. CASE m # n
      BY <2>2, <3>2
    <3> QED BY <3>1, <3>2
  <2> QED BY <2>1, <2>3, <2>4 DEF InboxesShrink
<1> QED BY <1>1, <1>3, <1>4, <1>5 DEF q

\* Same inboxes, same outboxes.
LEMMA StillBoxes ==
  ASSUME IInv
  PROVE  /\ inbox' = inbox => InboxesShrink
         /\ outbox' = outbox => OutboxesKnown
<1>1. inbox \in [Nodes -> Seq(Messages)]
  BY CoordinatorFields DEF IInv, CoordinatorSound, Sound, States
<1> QED BY <1>1 DEF IInv, LinksSound, InboxesShrink, OutboxesKnown

LEMMA RepliesEffect ==
  ASSUME IInv, NEW n \in Nodes, NEW ms \in Seq(Reports), Replies(n, ms),
         \A i \in DOMAIN ms : ms[i].type # "heartbeat" => status[ms[i].task] # "absent"
  PROVE  OutboxesKnown
<1>1. /\ outbox \in [Nodes -> Seq(Reports)]
      /\ \A m \in Nodes : m \notin open => outbox[m] = <<>>
      /\ \A m \in Nodes : \A i \in DOMAIN outbox[m] :
           outbox[m][i].type # "heartbeat" => status[outbox[m][i].task] # "absent"
  BY DEF IInv, LinksSound
<1>2. CASE n \notin open
  BY <1>1, <1>2 DEF Replies, OutboxesKnown
<1>3. CASE n \in open
  <2> DEFINE q == outbox[n]
             y == q \o ms
  <2>1. q \in Seq(Reports)
    BY <1>1
  <2>2. \A m \in Nodes : outbox'[m] = IF m = n THEN y ELSE outbox[m]
    BY <1>1, <1>3 DEF Replies
  <2>3. outbox' = [outbox EXCEPT ![n] = y]
    BY <1>1, <1>3 DEF Replies
  <2>4. \A i \in DOMAIN q : q[i].type # "heartbeat" => status[q[i].task] # "absent"
    BY <1>1
  <2> HIDE DEF q
  <2>5. y \in Seq(Reports) /\ \A i \in DOMAIN y : (i \in DOMAIN q /\ y[i] = q[i])
                              \/ (\E k \in DOMAIN ms : y[i] = ms[k])
    <3>1. /\ y \in Seq(Reports) /\ Len(y) = Len(q) + Len(ms)
          /\ \A i \in 1..Len(y) : y[i] = IF i <= Len(q) THEN q[i] ELSE ms[i - Len(q)]
      BY <2>1
    <3>2. DOMAIN y = 1..Len(y) /\ DOMAIN q = 1..Len(q) /\ DOMAIN ms = 1..Len(ms) /\ Len(q) \in Nat /\ Len(ms) \in Nat
      BY <2>1, <3>1
    <3> DEFINE a == Len(q)
               b == Len(ms)
    <3> HIDE DEF y
    <3>3. \A i \in 1..(a + b) : i \in 1..a \/ i - a \in 1..b
      BY <3>2
    <3> HIDE DEF a, b
    <3>4. ASSUME NEW i \in DOMAIN y
          PROVE  (i \in DOMAIN q /\ y[i] = q[i]) \/ (\E k \in DOMAIN ms : y[i] = ms[k])
      <4>1. i \in 1..(a + b)
        BY <3>1, <3>2, <3>4 DEF a, b
      <4>2. CASE i \in 1..a
        BY <3>1, <3>2, <4>1, <4>2 DEF a, b
      <4>3. CASE i \notin 1..a
        <5>1. i - a \in 1..b
          BY <3>3, <4>1, <4>3
        <5>2. y[i] = ms[i - a]
          BY <3>1, <3>2, <4>1, <4>3 DEF a, b
        <5> QED BY <3>2, <5>1, <5>2 DEF b
      <4> QED BY <4>2, <4>3
    <3> QED BY <3>1, <3>4
  <2> HIDE DEF y
  <2>6. \A i \in DOMAIN y : y[i].type # "heartbeat" => status[y[i].task] # "absent"
    BY <2>4, <2>5
  <2>7. outbox' \in [Nodes -> Seq(Reports)]
    BY <1>1, <2>3, <2>5
  <2> QED BY <1>1, <1>3, <2>2, <2>6, <2>7 DEF OutboxesKnown
<1> QED BY <1>2, <1>3

LEMMA ReplyOf ==
  ASSUME IInv, NEW n \in Nodes, NEW t \in Tasks, status[t] # "absent",
         NEW type \in {"accepted", "rejected", "completed", "failed"},
         Replies(n, <<About(type, t)>>)
  PROVE  OutboxesKnown
<1> DEFINE m == About(type, t)
<1>1. m \in Reports /\ m.task = t
  BY DEF About, Reports
<1> HIDE DEF m
<1>2. <<m>> \in Seq(Reports) /\ \A i \in DOMAIN <<m>> : <<m>>[i] = m
  BY <1>1
<1>3. \A i \in DOMAIN <<m>> : <<m>>[i].type # "heartbeat" => status[<<m>>[i].task] # "absent"
  BY <1>1, <1>2
<1>4. Replies(n, <<m>>)
  BY DEF m
<1> QED BY <1>2, <1>3, <1>4, RepliesEffect

\* What a step of a worker leaves alone.
WorksQuietly ==
  /\ BooksKept /\ UNCHANGED <<registered, able, open>>
LEMMA WorkerStep ==
  ASSUME IInv, WorksQuietly, InboxesShrink, OutboxesKnown, RunsSound', TroublesSound'
  PROVE  IInv' /\ UNCHANGED jobStatus
<1>1. Coordinator \in States
  BY DEF IInv, CoordinatorSound, Sound
<1>2. /\ registered \subseteq Nodes /\ registered' = registered /\ able' = able /\ open' = open
      /\ able \subseteq registered /\ open \subseteq Nodes
  BY <1>1, CoordinatorFields DEF WorksQuietly, IInv, LinksSound, States
<1>3. BooksKept /\ UNCHANGED jobStatus
  BY DEF WorksQuietly, BooksKept, LedgerKept
<1>4. \A n \in open \ open' : inbox'[n] = <<>> /\ outbox'[n] = <<>>
  BY <1>2
<1>5. registered \subseteq registered' /\ registered' \subseteq Nodes /\ able' \subseteq registered' /\ open' \subseteq Nodes
  BY <1>2
<1>6. IInv'
  BY <1>3, <1>4, <1>5, WorkStep
<1> QED BY <1>3, <1>6

\* Fewer running tasks, and none that was not known.
LEMMA RunsShrink ==
  ASSUME IInv, WorksQuietly, paused' \subseteq Nodes,
         runs' \in [Nodes -> SUBSET Tasks], aborting' \in [Nodes -> SUBSET Tasks],
         \A n \in Nodes : runs'[n] \subseteq runs[n],
         \A n \in Nodes : aborting'[n] \subseteq runs[n] \cup aborting[n]
  PROVE  RunsSound'
<1>1. ASSUME NEW m \in Nodes
      PROVE  IsFiniteSet(runs'[m]) /\ Cardinality(runs'[m]) <= MaxConcurrent
  <2>1. IsFiniteSet(runs[m]) /\ Cardinality(runs[m]) <= MaxConcurrent /\ runs'[m] \subseteq runs[m]
    BY DEF IInv, RunsSound
  <2>2. IsFiniteSet(runs'[m]) /\ Cardinality(runs'[m]) <= Cardinality(runs[m])
    BY <2>1, FS_Subset
  <2>3. Cardinality(runs'[m]) \in Nat /\ Cardinality(runs[m]) \in Nat
    BY <2>1, <2>2, FS_CardinalityType
  <2> QED BY <2>1, <2>2, <2>3, Numbers
<1>2. ASSUME NEW m \in Nodes, NEW t \in runs'[m] \cup aborting'[m] PROVE status'[t] # "absent"
  <2>1. t \in runs[m] \cup aborting[m] /\ status' = status
    BY <1>2 DEF WorksQuietly, BooksKept, LedgerKept
  <2> QED BY <2>1 DEF IInv, RunsSound
<1> QED BY <1>1, <1>2 DEF RunsSound

LEMMA RunsTyped ==
  ASSUME IInv
  PROVE  /\ runs \in [Nodes -> SUBSET Tasks] /\ aborting \in [Nodes -> SUBSET Tasks] /\ paused \subseteq Nodes
         /\ \A n \in Nodes : \A t \in runs[n] \cup aborting[n] : t \in Tasks /\ status[t] # "absent"
         /\ TroublesSound
         /\ \A n \in Nodes : IsFiniteSet(runs[n]) /\ Cardinality(runs[n]) <= MaxConcurrent
  BY DEF IInv, RunsSound

LEMMA AcceptStep ==
  ASSUME IInv, NEW n \in Nodes, Accept(n)
  PROVE  IInv' /\ UNCHANGED jobStatus
<1> DEFINE t == Head(inbox[n]).task
<1>1. /\ inbox[n] # <<>> /\ Cardinality(runs[n]) < MaxConcurrent
      /\ runs' = [runs EXCEPT ![n] = @ \cup {t}] /\ Replies(n, <<About("accepted", t)>>)
      /\ TakeInbox(n) /\ OnlyInbox /\ UNCHANGED <<aborting, troubleVars>>
  BY DEF Accept
<1>2. t \in Tasks /\ status[t] # "absent" /\ InboxesShrink
  BY <1>1, HeadOfInbox
<1> HIDE DEF t
<1>3. WorksQuietly /\ status' = status /\ paused' = paused
  BY <1>1 DEF OnlyInbox, WorksQuietly, BooksKept, LedgerKept
<1>4. OutboxesKnown
  BY <1>1, <1>2, ReplyOf
<1>5. RunsSound'
  <2>1. IsFiniteSet(runs[n]) /\ Cardinality(runs[n]) \in Nat
    BY RunsTyped, FS_CardinalityType
  <2>2. IsFiniteSet(runs[n] \cup {t})
        /\ Cardinality(runs[n] \cup {t}) \in {Cardinality(runs[n]), Cardinality(runs[n]) + 1}
    BY <2>1, FS_AddElement
  <2>3. Cardinality(runs[n] \cup {t}) \in Nat
    BY <2>2, FS_CardinalityType
  <2>4. \A m \in Nodes : IsFiniteSet(runs'[m]) /\ Cardinality(runs'[m]) <= MaxConcurrent
    BY <1>1, <2>1, <2>2, <2>3, Numbers, RunsTyped
  <2>5. runs' \in [Nodes -> SUBSET Tasks] /\ \A m \in Nodes : \A r \in runs'[m] \cup aborting'[m] : status[r] # "absent"
    BY <1>1, <1>2, RunsTyped
  <2> QED BY <1>1, <1>3, <2>4, <2>5, RunsTyped DEF RunsSound
<1>6. TroublesSound'
  BY <1>1, RunsTyped DEF troubleVars, TroublesSound
<1> QED BY <1>2, <1>3, <1>4, <1>5, <1>6, WorkerStep

LEMMA RefuseStep ==
  ASSUME IInv, NEW n \in Nodes, Refuse(n)
  PROVE  IInv' /\ UNCHANGED jobStatus
<1> DEFINE t == Head(inbox[n]).task
<1>1. /\ inbox[n] # <<>> /\ Replies(n, <<About("rejected", t)>>)
      /\ TakeInbox(n) /\ OnlyInbox /\ UNCHANGED <<runs, aborting>>
      /\ UNCHANGED troubleVars \/ Disturb("reject")
  BY DEF Refuse
<1>2. t \in Tasks /\ status[t] # "absent" /\ InboxesShrink
  BY <1>1, HeadOfInbox
<1> HIDE DEF t
<1>3. WorksQuietly /\ paused' = paused
  BY <1>1 DEF OnlyInbox, WorksQuietly, BooksKept, LedgerKept
<1>4. OutboxesKnown
  BY <1>1, <1>2, ReplyOf
<1>5. RunsSound'
  BY <1>1, <1>3, RunsTyped, RunsShrink
<1>6. TroublesSound'
  BY <1>1, RunsTyped, DisturbStep DEF troubleVars, TroublesSound
<1> QED BY <1>2, <1>3, <1>4, <1>5, <1>6, WorkerStep

LEMMA AbortStep ==
  ASSUME IInv, NEW n \in Nodes, Abort(n)
  PROVE  IInv' /\ UNCHANGED jobStatus
<1>1. PICK hit \in SUBSET runs[n] :
        /\ runs' = [runs EXCEPT ![n] = @ \ hit] /\ aborting' = [aborting EXCEPT ![n] = @ \cup hit]
        /\ inbox[n] # <<>> /\ TakeInbox(n) /\ OnlyInbox /\ UNCHANGED <<outbox, troubleVars>>
  BY DEF Abort
<1>2. InboxesShrink
  BY <1>1, HeadOfInbox
<1>3. WorksQuietly /\ paused' = paused
  BY <1>1 DEF OnlyInbox, WorksQuietly, BooksKept, LedgerKept
<1>4. OutboxesKnown
  BY <1>1, StillBoxes
<1>5. RunsSound'
  <2>1. /\ runs' \in [Nodes -> SUBSET Tasks] /\ aborting' \in [Nodes -> SUBSET Tasks]
        /\ \A m \in Nodes : runs'[m] \subseteq runs[m]
        /\ \A m \in Nodes : aborting'[m] \subseteq runs[m] \cup aborting[m]
    BY <1>1, RunsTyped
  <2> QED BY <1>3, <2>1, RunsTyped, RunsShrink
<1>6. TroublesSound'
  BY <1>1, RunsTyped DEF troubleVars, TroublesSound
<1> QED BY <1>2, <1>3, <1>4, <1>5, <1>6, WorkerStep

LEMMA OnlyWorkerQuiet ==
  ASSUME IInv, OnlyWorker
  PROVE  WorksQuietly /\ InboxesShrink
  BY StillBoxes DEF OnlyWorker, coordinatorVars, WorksQuietly, BooksKept, LedgerKept

\* A task that ends on a worker.
LEMMA EndStep ==
  ASSUME IInv, NEW n \in Nodes, NEW t \in Tasks, Complete(n, t) \/ FailTask(n, t) \/ Unwind(n, t)
  PROVE  IInv' /\ UNCHANGED jobStatus
<1>1. OnlyWorker /\ paused' = paused
  BY DEF Complete, FailTask, Unwind
<1>2. t \in runs[n] \cup aborting[n]
  BY DEF Complete, FailTask, Unwind
<1>3. status[t] # "absent"
  BY <1>2, RunsTyped
<1>4. OutboxesKnown
  <2>1. Replies(n, <<About("completed", t)>>) \/ Replies(n, <<About("failed", t)>>)
    BY DEF Complete, FailTask, Unwind
  <2> QED BY <1>3, <2>1, ReplyOf
<1>5. RunsSound'
  <2>1. /\ runs' \in [Nodes -> SUBSET Tasks] /\ aborting' \in [Nodes -> SUBSET Tasks]
        /\ \A m \in Nodes : runs'[m] \subseteq runs[m]
        /\ \A m \in Nodes : aborting'[m] \subseteq runs[m] \cup aborting[m]
    BY RunsTyped DEF Complete, FailTask, Unwind
  <2> QED BY <1>1, <2>1, RunsTyped, RunsShrink, OnlyWorkerQuiet
<1>6. TroublesSound'
  <2>1. UNCHANGED troubleVars \/ Disturb("fail")
    BY DEF Complete, FailTask, Unwind
  <2> QED BY <2>1, RunsTyped, DisturbStep DEF troubleVars, TroublesSound
<1> QED BY <1>1, <1>4, <1>5, <1>6, WorkerStep, OnlyWorkerQuiet

LEMMA PauseStep ==
  ASSUME IInv, NEW n \in Nodes, Pause(n)
  PROVE  IInv' /\ UNCHANGED jobStatus
<1> DEFINE R == runs[n]
           ms == [i \in 1..Cardinality(R) |-> About("failed", SetToSeq(R)[i])]
<1>1. OnlyWorker /\ Replies(n, ms) /\ paused' = paused \cup {n} /\ Disturb("pause")
      /\ runs' = [runs EXCEPT ![n] = {}] /\ aborting' = [aborting EXCEPT ![n] = @ \cup R]
  BY DEF Pause
<1>2. R \subseteq Tasks /\ IsFiniteSet(R) /\ \A t \in R : status[t] # "absent"
  BY RunsTyped
<1> HIDE DEF R
<1>3. \A i \in 1..Cardinality(R) : SetToSeq(R)[i] \in R
  <2>1. \E f \in [1..Cardinality(R) -> R] : IsInjective(f)
    <3>1. ExistsBijection(1..Cardinality(R), R)
      BY <1>2, FS_CardinalityType
    <3> QED BY <3>1 DEF ExistsBijection, Bijection, Injection, IsInjective
  <2> QED BY <2>1 DEF SetToSeq
<1>4. OutboxesKnown
  <2>1. Cardinality(R) \in Nat
    BY <1>2, FS_CardinalityType
  <2>2. \A i \in 1..Cardinality(R) : About("failed", SetToSeq(R)[i]) \in Reports
    BY <1>2, <1>3 DEF About, Reports
  <2>3. ms \in Seq(Reports)
    BY <2>1, <2>2
  <2>4. \A i \in DOMAIN ms : status[ms[i].task] # "absent"
    BY <1>2, <1>3 DEF About
  <2> HIDE DEF ms
  <2> QED BY <1>1, <2>3, <2>4, RepliesEffect
<1>5. RunsSound'
  <2>1. /\ runs' \in [Nodes -> SUBSET Tasks] /\ aborting' \in [Nodes -> SUBSET Tasks]
        /\ \A m \in Nodes : runs'[m] \subseteq runs[m]
        /\ \A m \in Nodes : aborting'[m] \subseteq runs[m] \cup aborting[m]
    BY <1>1, <1>2, RunsTyped DEF R
  <2>2. paused' \subseteq Nodes
    BY <1>1, RunsTyped
  <2> QED BY <1>1, <2>1, <2>2, RunsShrink, OnlyWorkerQuiet
<1>6. TroublesSound'
  BY <1>1, RunsTyped, DisturbStep
<1> QED BY <1>1, <1>4, <1>5, <1>6, WorkerStep, OnlyWorkerQuiet

LEMMA ResumeStep ==
  ASSUME IInv, NEW n \in Nodes, Resume(n)
  PROVE  IInv' /\ UNCHANGED jobStatus
<1>1. OnlyWorker /\ UNCHANGED <<outbox, runs, aborting, troubleVars>> /\ paused' \subseteq Nodes
  BY RunsTyped DEF Resume
<1>2. RunsSound'
  BY <1>1, RunsTyped, RunsShrink, OnlyWorkerQuiet
<1>3. TroublesSound'
  BY <1>1, RunsTyped DEF troubleVars, TroublesSound
<1> QED BY <1>1, <1>2, <1>3, WorkerStep, OnlyWorkerQuiet, StillBoxes

LEMMA BeatStep ==
  ASSUME IInv, NEW n \in Nodes, Heartbeat(n)
  PROVE  IInv' /\ UNCHANGED jobStatus
<1>0. PICK fit \in {FALSE, n \notin paused} :
        Replies(n, <<[type |-> "heartbeat", active |-> Cardinality(runs[n]), able |-> fit]>>)
  BY DEF Heartbeat
<1> DEFINE m == [type |-> "heartbeat", active |-> Cardinality(runs[n]), able |-> fit]
<1>1. OnlyWorker /\ UNCHANGED <<runs, aborting, paused>> /\ Disturb("heartbeat") /\ Replies(n, <<m>>)
  BY <1>0 DEF Heartbeat
<1>2. Cardinality(runs[n]) \in 0..MaxConcurrent
  BY RunsTyped, FS_CardinalityType, Numbers
<1>3. m \in Reports /\ m.type = "heartbeat"
  <2>1. CASE fit
    BY <1>2, <2>1 DEF Reports
  <2>2. CASE ~fit
    BY <1>2, <2>2 DEF Reports
  <2> QED BY <2>1, <2>2
<1> HIDE DEF m
<1>4. <<m>> \in Seq(Reports) /\ \A i \in DOMAIN <<m>> : <<m>>[i] = m
  BY <1>3
<1>5. \A i \in DOMAIN <<m>> : <<m>>[i].type # "heartbeat" => status[<<m>>[i].task] # "absent"
  BY <1>3, <1>4
<1>6. OutboxesKnown
  BY <1>1, <1>4, <1>5, RepliesEffect
<1>7. RunsSound'
  BY <1>1, RunsTyped, RunsShrink, OnlyWorkerQuiet
<1>8. TroublesSound'
  BY <1>1, RunsTyped, DisturbStep
<1> QED BY <1>1, <1>6, <1>7, <1>8, WorkerStep, OnlyWorkerQuiet

LEMMA BeginCloseStep ==
  ASSUME IInv, NEW n \in Nodes, BeginClose(n)
  PROVE  IInv' /\ UNCHANGED jobStatus
<1> DEFINE s == Coordinator
           a == [s.inbox EXCEPT ![n] = <<>>]
           x == [s EXCEPT !.inbox = a]
<1>1. s \in States /\ Commit(x) /\ open' = open \ {n} /\ outbox' = [outbox EXCEPT ![n] = <<>>]
      /\ runs' = [runs EXCEPT ![n] = {}] /\ aborting' = [aborting EXCEPT ![n] = {}]
      /\ paused' = paused /\ Disturb("closing")
  BY DEF IInv, CoordinatorSound, Sound, BeginClose
<1>2. BooksKept /\ UNCHANGED <<registered, able>> /\ inbox' = [inbox EXCEPT ![n] = <<>>]
  <2>1. /\ x.jobStatus = s.jobStatus /\ x.completedCount = s.completedCount /\ x.status = s.status
        /\ x.holder = s.holder /\ x.attempts = s.attempts /\ x.tried = s.tried
        /\ x.queues = s.queues /\ x.members = s.members /\ x.registered = s.registered
        /\ x.active = s.active /\ x.able = s.able /\ x.pumps = s.pumps /\ x.inbox = a
    <3> HIDE DEF s, a
    <3> QED BY <1>1 DEF States
  <2> HIDE DEF x
  <2> QED BY <1>1, <2>1, CoordinatorFields DEF Commit, BooksKept, LedgerKept
<1>3. inbox \in [Nodes -> Seq(Messages)] /\ outbox \in [Nodes -> Seq(Reports)] /\ registered \subseteq Nodes
      /\ <<>> \in Seq(Messages) /\ <<>> \in Seq(Reports) /\ DOMAIN <<>> = {}
  BY <1>1, CoordinatorFields DEF States, IInv, LinksSound
<1>4. InboxesShrink
  BY <1>2, <1>3 DEF InboxesShrink
<1>5. OutboxesKnown
  BY <1>1, <1>3 DEF OutboxesKnown, IInv, LinksSound
<1>6. RunsSound'
  <2>1. IsFiniteSet({}) /\ Cardinality({}) <= MaxConcurrent
    BY FS_EmptySet, Numbers
  <2> QED BY <1>1, <1>2, <2>1 DEF BooksKept, LedgerKept, IInv, RunsSound
<1>7. TroublesSound'
  BY <1>1, DisturbStep DEF IInv
<1>8. \A m \in open \ open' : inbox'[m] = <<>> /\ outbox'[m] = <<>>
  BY <1>1, <1>2, <1>3
<1>9. registered \subseteq registered' /\ registered' \subseteq Nodes /\ able' \subseteq registered' /\ open' \subseteq Nodes
  BY <1>1, <1>2, <1>3 DEF IInv, LinksSound
<1>10. IInv'
  BY <1>2, <1>4, <1>5, <1>6, <1>7, <1>8, <1>9, WorkStep
<1> QED BY <1>2, <1>10 DEF BooksKept, LedgerKept

LEMMA RegisterStep ==
  ASSUME IInv, NEW n \in Nodes, Register(n)
  PROVE  IInv' /\ UNCHANGED jobStatus
<1> DEFINE s == Coordinator
           R == s.registered \cup {n}
           B == IF n \in paused THEN s.able ELSE s.able \cup {n}
           x == Viewed(s, R, s.active, B)
<1>1. s \in States /\ open' = open \cup {n} /\ UNCHANGED <<outbox, runs, aborting, paused, troubleVars>>
  BY DEF IInv, CoordinatorSound, Sound, Register
<1>2. Commit(x)
  <2>1. Commit([s EXCEPT !.registered = @ \cup {n}, !.able = IF n \in paused THEN @ ELSE @ \cup {n}])
    BY DEF Register
  <2>2. [s EXCEPT !.registered = @ \cup {n}, !.able = IF n \in paused THEN @ ELSE @ \cup {n}] = x
    <3> HIDE DEF s
    <3> QED BY <1>1 DEF Viewed, States
  <2> QED BY <2>1, <2>2
<1>3. /\ x \in States /\ NodesMarked(s, x) /\ x.registered = R /\ x.active = s.active /\ x.able = B
  <2>1. R \in SUBSET Nodes /\ s.active \in [Nodes -> Nat] /\ B \in SUBSET Nodes
    <3> HIDE DEF s
    <3> QED BY <1>1 DEF States
  <2> HIDE DEF s, R, B
  <2> QED BY <1>1, <2>1, NodesEffect
<1>4. BooksKept /\ registered' = registered \cup {n} /\ able' \subseteq able \cup {n} /\ inbox' = inbox
      /\ registered' \subseteq Nodes
  <2> HIDE DEF x
  <2>1. R \subseteq Nodes
    BY <1>3 DEF States
  <2> QED BY <1>2, <1>3, <2>1, CoordinatorFields
         DEF Commit, BooksKept, LedgerKept, NodesMarked, SameJobs, SameTasks, SameTries, SameWork
<1>5. InboxesShrink /\ OutboxesKnown
  BY <1>1, <1>4, StillBoxes
<1>6. RunsSound' /\ TroublesSound'
  BY <1>1, <1>4 DEF BooksKept, LedgerKept, IInv, RunsSound, TroublesSound, troubleVars
<1>7. \A m \in open \ open' : inbox'[m] = <<>> /\ outbox'[m] = <<>>
  BY <1>1
<1>8. registered \subseteq registered' /\ registered' \subseteq Nodes /\ able' \subseteq registered' /\ open' \subseteq Nodes
  BY <1>1, <1>4 DEF IInv, LinksSound
<1>9. IInv'
  BY <1>4, <1>5, <1>6, <1>7, <1>8, WorkStep
<1> QED BY <1>4, <1>9 DEF BooksKept, LedgerKept

\* A fresh entry in the place of a live one.
LEMMA ReregisterStep ==
  ASSUME IInv, NEW n \in Nodes, Reregister(n)
  PROVE  IInv' /\ UNCHANGED jobStatus
<1> DEFINE s == Coordinator
           A == [s.active EXCEPT ![n] = 0]
           B == IF n \in paused THEN s.able \ {n} ELSE s.able \cup {n}
           I == [s.inbox EXCEPT ![n] = <<>>]
           x == [s EXCEPT !.active = A, !.able = B, !.inbox = I]
<1>1. /\ s \in States /\ s.registered = registered /\ s.able = able /\ s.inbox = inbox
      /\ n \in registered /\ Strike("replaced") /\ able \subseteq registered /\ open \subseteq Nodes
      /\ open' = open \cup {n} /\ replaced' = replaced \cup {n} /\ UNCHANGED <<runs, aborting, paused>>
      /\ outbox' \in {outbox, [outbox EXCEPT ![n] = <<>>]}
  BY CoordinatorFields DEF IInv, CoordinatorSound, LinksSound, Sound, Reregister
<1>2. Commit(x)
  <2>1. Commit([s EXCEPT !.active[n] = 0, !.inbox[n] = <<>>,
                  !.able = IF n \in paused THEN @ \ {n} ELSE @ \cup {n}])
    BY DEF Reregister
  <2>2. [s EXCEPT !.active[n] = 0, !.inbox[n] = <<>>,
                  !.able = IF n \in paused THEN @ \ {n} ELSE @ \cup {n}] = x
    <3> HIDE DEF s
    <3> QED BY <1>1 DEF States
  <2> QED BY <2>1, <2>2
<1>3. A \in [Nodes -> Nat] /\ I \in [Nodes -> Seq(Messages)] /\ B \subseteq registered /\ registered \subseteq Nodes
  <2>1. s.active \in [Nodes -> Nat] /\ inbox \in [Nodes -> Seq(Messages)] /\ registered \subseteq Nodes
    BY <1>1 DEF States
  <2>2. <<>> \in Seq(Messages) /\ 0 \in Nat
    OBVIOUS
  <2> HIDE DEF s
  <2> QED BY <1>1, <2>1, <2>2
<1>4. /\ LedgerKept /\ active' = A /\ able' = B /\ inbox' = I /\ registered' = registered
  <2> HIDE DEF A, B, I
  <2>1. /\ x.jobStatus = s.jobStatus /\ x.completedCount = s.completedCount /\ x.status = s.status
        /\ x.holder = s.holder /\ x.attempts = s.attempts /\ x.tried = s.tried
        /\ x.queues = s.queues /\ x.members = s.members /\ x.registered = s.registered
        /\ x.active = A /\ x.able = B /\ x.pumps = s.pumps /\ x.inbox = I
    <3> HIDE DEF s
    <3> QED BY <1>1 DEF States
  <2> HIDE DEF x
  <2> QED BY <1>2, <2>1, CoordinatorFields DEF Commit, LedgerKept
<1>5. InboxesShrink
  <2>1. inbox \in [Nodes -> Seq(Messages)] /\ inbox' = [inbox EXCEPT ![n] = <<>>] /\ DOMAIN <<>> = {}
    BY <1>1, <1>4 DEF States
  <2> QED BY <1>3, <1>4, <2>1 DEF InboxesShrink
<1>6. OutboxesKnown
  <2> HIDE DEF s, A, B, I, x
  <2>1. /\ outbox \in [Nodes -> Seq(Reports)]
        /\ \A m \in Nodes : m \notin open => outbox[m] = <<>>
        /\ \A m \in Nodes : \A i \in DOMAIN outbox[m] :
             outbox[m][i].type # "heartbeat" => status[outbox[m][i].task] # "absent"
    BY DEF IInv, LinksSound
  <2>2. <<>> \in Seq(Reports) /\ DOMAIN <<>> = {}
    OBVIOUS
  <2>3. CASE outbox' = outbox
    BY <2>1, <2>3 DEF OutboxesKnown
  <2>4. CASE outbox' = [outbox EXCEPT ![n] = <<>>]
    <3>1. \A m \in Nodes : outbox'[m] = IF m = n THEN <<>> ELSE outbox[m]
      BY <2>1, <2>4
    <3>2. outbox' \in [Nodes -> Seq(Reports)]
      BY <2>1, <2>2, <2>4
    <3> QED BY <2>1, <2>2, <3>1, <3>2 DEF OutboxesKnown
  <2> QED BY <1>1, <2>3, <2>4
<1>7. RunsSound' /\ TroublesSound'
  BY <1>1, <1>4, Numbers DEF LedgerKept, IInv, RunsSound, TroublesSound, Strike
<1>8. \A m \in open \ open' : inbox'[m] = <<>> /\ outbox'[m] = <<>>
  BY <1>1
<1>9. registered \subseteq registered' /\ registered' \subseteq Nodes /\ able' \subseteq registered' /\ open' \subseteq Nodes
  BY <1>1, <1>3, <1>4
<1>10. IInv'
  <2> HIDE DEF A
  <2> QED BY <1>3, <1>4, <1>5, <1>6, <1>7, <1>8, <1>9, LinkStep
<1> QED BY <1>4, <1>10 DEF LedgerKept

\* A stuttering step.
LEMMA StutterStep ==
  ASSUME IInv, UNCHANGED vars
  PROVE  IInv' /\ UNCHANGED jobStatus
<1>1. WorksQuietly /\ InboxesShrink /\ OutboxesKnown
  BY StillBoxes DEF vars, coordinatorVars, workerVars, WorksQuietly, BooksKept, LedgerKept
<1>2. RunsSound' /\ TroublesSound'
  BY DEF vars, coordinatorVars, workerVars, troubleVars, IInv, RunsSound, TroublesSound
<1> QED BY <1>1, <1>2, WorkerStep

\* Every step keeps the invariant, and leaves a job that ended as it is.
LEMMA StepSound ==
  ASSUME IInv, [Next]_vars
  PROVE  IInv' /\ \A j \in Jobs : jobStatus[j] \in Terminal => jobStatus'[j] = jobStatus[j]
<1> USE CoordinatorFields
<1>1. Kept(Coordinator, Coordinator') =>
        \A j \in Jobs : jobStatus[j] \in Terminal => jobStatus'[j] = jobStatus[j]
  BY DEF Kept, Coordinator
<1>2. CASE RunMicrotask
  BY <1>1, <1>2, MicrotaskStep
<1>3. CASE SweepTimeouts
  BY <1>1, <1>3, TimeoutsStep
<1>4. ASSUME NEW j \in Jobs, Submit(j) \/ Cancel(j)
      PROVE  IInv' /\ \A i \in Jobs : jobStatus[i] \in Terminal => jobStatus'[i] = jobStatus[i]
  BY <1>1, <1>4, SubmitStep, CancelStep
<1>5. ASSUME NEW n \in Nodes, Receives(n)
      PROVE  IInv' /\ \A i \in Jobs : jobStatus[i] \in Terminal => jobStatus'[i] = jobStatus[i]
  BY <1>1, <1>5, AcceptedStep, RefusedOrFailedStep, CompletedStep, HeartbeatStep DEF Receives
<1>6. ASSUME NEW n \in Nodes, Works(n) \/ \E t \in Tasks : FailTask(n, t)
      PROVE  IInv' /\ UNCHANGED jobStatus
  BY <1>6, AcceptStep, RefuseStep, AbortStep, EndStep DEF Works
<1>7. ASSUME NEW n \in Nodes, Crash(n) \/ SweepStale(n) \/ CloseEvent(n) \/ ReplacedCloseEvent(n)
      PROVE  IInv' /\ \A i \in Jobs : jobStatus[i] \in Terminal => jobStatus'[i] = jobStatus[i]
  BY <1>7, LossSteps
<1>8. ASSUME NEW n \in Nodes,
             BeginClose(n) \/ Register(n) \/ Reregister(n) \/ Pause(n) \/ Resume(n) \/ Heartbeat(n)
      PROVE  IInv' /\ UNCHANGED jobStatus
  BY <1>8, BeginCloseStep, RegisterStep, ReregisterStep, PauseStep, ResumeStep, BeatStep
<1>9. CASE UNCHANGED vars
  BY <1>9, StutterStep
<1>10. ASSUME NEW n \in Nodes,
              \/ Receives(n) \/ Works(n) \/ \E t \in Tasks : FailTask(n, t)
              \/ Crash(n) \/ SweepStale(n) \/ BeginClose(n) \/ CloseEvent(n) \/ Register(n)
              \/ Reregister(n) \/ ReplacedCloseEvent(n)
              \/ Pause(n) \/ Resume(n) \/ Heartbeat(n)
       PROVE  IInv' /\ \A i \in Jobs : jobStatus[i] \in Terminal => jobStatus'[i] = jobStatus[i]
  BY <1>5, <1>6, <1>7, <1>8, <1>10
<1> QED BY <1>2, <1>3, <1>4, <1>9, <1>10 DEF Next

LEMMA AlwaysSound == Spec => []IInv
<1>1. Init => IInv
  BY InitSound
<1>2. IInv /\ [Next]_vars => IInv'
  BY StepSound
<1> QED BY <1>1, <1>2, PTL DEF Spec

\* Whatever crashes, closes, pauses, times out or is cancelled: every field of the
\* coordinator, of its workers and of the sockets keeps its type.  A queue holds
\* tasks of its own job, a node is given no more tasks than it has slots.
THEOREM TypeCorrect == Spec => []TypeOK
<1>1. IInv => TypeOK
  <2> SUFFICES ASSUME IInv PROVE TypeOK
    OBVIOUS
  <2> DEFINE s == Coordinator
  <2>1. s \in States /\ Sound(s, NoneLost)
    BY DEF IInv, CoordinatorSound, Sound
  <2>2. ASSUME NEW j \in Jobs
        PROVE  queues[j] \in Seq([node : Nodes, tasks : Seq(TasksOf(j))])
    <3>1. s.queues[j] = queues[j] /\ QueueSound(s, NoneLost, j, s.queues[j])
      BY <2>1, CoordinatorFields DEF Sound, QueuesSound
    <3> HIDE DEF s
    <3> DEFINE q == queues[j]
    <3>2. q \in Seq(Entries) /\ \A i \in DOMAIN q : Known(s, j, q[i].tasks)
      BY <3>1 DEF QueueSound
    <3> HIDE DEF q
    <3> DEFINE T == [node : Nodes, tasks : Seq(TasksOf(j))]
    <3>3. ASSUME NEW i \in DOMAIN q PROVE q[i] \in T
      <4>1. q[i] \in Entries
        BY <3>2
      <4>2. q[i].tasks \in Seq(Tasks) /\ q[i].node \in Nodes /\ q[i] = [node |-> q[i].node, tasks |-> q[i].tasks]
        BY <4>1 DEF Entries
      <4> DEFINE ts == q[i].tasks
      <4>3. \A k \in DOMAIN ts : ts[k] \in TasksOf(j)
        BY <3>2 DEF Known
      <4>4. ts \in Seq(Tasks)
        BY <4>2
      <4>5. q[i] = [node |-> q[i].node, tasks |-> ts] /\ q[i].node \in Nodes
        BY <4>2
      <4> HIDE DEF ts
      <4>6. ts \in Seq(TasksOf(j))
        BY <4>3, <4>4
      <4> QED BY <4>5, <4>6
    <3> HIDE DEF T
    <3>4. q \in Seq(T)
      BY <3>2, <3>3
    <3> QED BY <3>4 DEF q, T
  <2>3. /\ jobStatus \in [Jobs -> JobStatuses] /\ completedCount \in Nat
        /\ status \in [Tasks -> TaskStatuses] /\ holder \in [Tasks -> Nodes \cup {None}]
        /\ attempts \in [Tasks -> Nat] /\ tried \in [Tasks -> SUBSET Nodes]
        /\ members \in [Jobs -> SUBSET Nodes] /\ registered \subseteq Nodes
        /\ active \in [Nodes -> Nat] /\ pumps \in Seq(Jobs) /\ inbox \in [Nodes -> Seq(Messages)]
    BY <2>1 DEF States, Coordinator
  <2> HIDE DEF s
  <2>4. open \subseteq Nodes /\ able \subseteq registered /\ outbox \in [Nodes -> Seq(Reports)]
    BY <2>3 DEF IInv, LinksSound
  <2> QED BY <2>2, <2>3, <2>4
         DEF TypeOK, IInv, RunsSound, TroublesSound, JobStatuses, TaskStatuses
<1> QED BY <1>1, AlwaysSound, PTL

\* A job that completed, failed or was cancelled stays so, whatever late verdicts,
\* node losses or timeouts its tasks still meet.
THEOREM EndedStay == Spec => EndedJobsStay
<1>1. IInv /\ [Next]_vars => [\A j \in Jobs : jobStatus[j] \in Terminal => jobStatus'[j] = jobStatus[j]]_vars
  BY StepSound
<1> QED BY <1>1, AlwaysSound, PTL DEF Spec, EndedJobsStay

\* The counter of completed jobs is exact: a job completes once, however many of
\* the handlers that call maybeFinish find it finished.
THEOREM CountedOnce == Spec => []CompletionsCountedOnce
<1>1. IInv => CompletionsCountedOnce
  BY CoordinatorFields DEF IInv, CoordinatorSound, Sound, Counted, CompletionsCountedOnce
<1> QED BY <1>1, AlwaysSound, PTL

\* When a node is lost, each live job's queue for it moves to a node that is still
\* registered; so no live job has a queue that nothing will drain.
THEOREM QueuesRegistered == Spec => []QueuesOnRegisteredNodes
<1>1. IInv => QueuesOnRegisteredNodes
  <2> SUFFICES ASSUME IInv, NEW j \in Jobs, jobStatus[j] \in Live, NEW i \in DOMAIN queues[j]
               PROVE  queues[j][i].node \in registered
    BY DEF QueuesOnRegisteredNodes
  <2>1. QueueSound(Coordinator, NoneLost, j, queues[j]) /\ NoneLost[j] = {}
    BY CoordinatorFields DEF IInv, CoordinatorSound, Sound, QueuesSound, NoneLost
  <2> QED BY <2>1, CoordinatorFields DEF QueueSound
<1> QED BY <1>1, AlwaysSound, PTL

\* Replanning, requeueing and node loss keep a pipeline's single task at the head
\* of the plan in force: queued there, held there, or held by nobody.
THEOREM PipelineAtHead == Spec => []PipelineTaskAtHead
<1>1. IInv => PipelineTaskAtHead
  <2> SUFFICES ASSUME IInv, NEW j \in PipelineJobs
               PROVE  /\ \A i \in DOMAIN queues[j] : queues[j][i].node = First(members[j])
                      /\ \A t \in TasksOf(j) : holder[t] \in {None, First(members[j])}
    BY DEF PipelineTaskAtHead
  <2> USE CoordinatorFields
  <2>1. j \in Jobs /\ TasksOf(j) = {<<j, 1>>, ReduceTask(j)} /\ ReduceTask(j) \in Tasks
    BY TaskNumbers, TaskNames
  <2>2. QueueSound(Coordinator, NoneLost, j, queues[j])
    BY <2>1 DEF IInv, CoordinatorSound, Sound, QueuesSound
  <2>3. holder[<<j, 1>>] \in {None, First(members[j])} /\ status[ReduceTask(j)] = "absent"
    BY <2>1 DEF IInv, CoordinatorSound, Sound, PipelinesSound
  <2>4. holder[ReduceTask(j)] = None
    BY <2>1, <2>3 DEF IInv, CoordinatorSound, Sound, AbsentSound
  <2> QED BY <2>1, <2>2, <2>3, <2>4 DEF QueueSound
<1> QED BY <1>1, AlwaysSound, PTL

-----------------------------------------------------------------------------
(* What holds of the ledger and of the channels until a node that is at work *)
(* is given up: a task that waits is in one queue, and a task that a worker  *)
(* has, or that is on its way from or to one, is held by that worker.  It is *)
(* stated of coordinator states within a handler: L are the tasks that the   *)
(* handler has in its hands, w is the world around it: what workers run,     *)
(* what their sockets bring, which kinds of trouble have struck, which jobs  *)
(* are cancelled and the node that is being lost, of which the tasks in A    *)
(* are still to be reclaimed.                                                *)

Calm == Only(Announced \cup {"cancel", "heartbeat"})
Waiting == {"planned", "reassigned"}
InHand == {"assigned", "running"}
Tracked(s, t) == s.jobStatus[JobOf(t)] # "cancelled"
Queued(s, t) == In(s.queues[JobOf(t)], t)

LedgerOf(s, L, A, w, t) ==
  /\ Queued(s, t) => s.status[t] \in Waiting /\ t \notin L
  /\ s.status[t] \in Waiting => s.holder[t] = None /\ (t \in L \/ Queued(s, t))
  /\ s.status[t] \in InHand =>
       t \in L \/ s.holder[t] \in s.registered \/ (t \in A /\ s.holder[t] = w.lost)
  /\ t \in L => s.status[t] \in Waiting \cup InHand
  /\ s.status[t] # "cancelled"
  /\ s.jobStatus[JobOf(t)] \notin Live => s.status[t] \in Settled \cup {"absent"}

\* A job's queues hold a task once; a job that is completed or reduced was answered.
JobTidy(s, j) == s.jobStatus[j] # "cancelled" =>
  /\ Once(s.queues[j])
  /\ s.jobStatus[j] = "completed" \/ s.status[ReduceTask(j)] # "absent" => Succeeded(s, j) # {}

SentAt(s, t, n, i) == i \in DOMAIN s.inbox[n] /\ s.inbox[n][i] = About("assign", t)
Sent(s, t, n) == \E i : SentAt(s, t, n, i)
HeardAt(w, t, n, i) ==
  i \in DOMAIN w.outbox[n] /\ w.outbox[n][i].type # "heartbeat" /\ w.outbox[n][i].task = t
VerdictAt(w, t, n, i) == HeardAt(w, t, n, i) /\ w.outbox[n][i].type # "accepted"
Heard(w, t, n) == \E i : HeardAt(w, t, n, i)

\* First the assignment, then the worker runs the task, its verdict comes last.
Orderly(s, w, t, n) ==
  /\ \A i, k : SentAt(s, t, n, i) /\ SentAt(s, t, n, k) => i = k
  /\ Sent(s, t, n) => ~Heard(w, t, n) /\ t \notin w.runs[n]
  /\ t \in w.runs[n] => \A i : ~VerdictAt(w, t, n, i)
  /\ \A i, k : HeardAt(w, t, n, i) /\ VerdictAt(w, t, n, k) => i <= k
Airborne(s, w, t, n) == Sent(s, t, n) \/ t \in w.runs[n] \/ Heard(w, t, n)
FlightOf(s, L, w, t) == \A n \in Nodes : Airborne(s, w, t, n) =>
  /\ t \notin L /\ s.status[t] \in InHand /\ s.holder[t] = n /\ n \in s.registered
  /\ Orderly(s, w, t, n)

CancelsStale(s) == \A n \in Nodes : \A i \in DOMAIN s.inbox[n] :
  s.inbox[n][i].type = "cancel" => ~Tracked(s, s.inbox[n][i].task)
Given(s, w, t, n) == Sent(s, t, n) \/ t \in w.runs[n]
OneHand(s, w) == \A t \in Tasks : \A m, n \in Nodes : Given(s, w, t, m) /\ Given(s, w, t, n) => m = n

Load(s, n) == {t \in Tasks : s.holder[t] = n /\ s.status[t] \in InHand}
Busy(s) == \A n \in Nodes : s.active[n] = IF n \in s.registered THEN Cardinality(Load(s, n)) ELSE 0
NoneCancelled(s) == \A j \in Jobs : s.jobStatus[j] # "cancelled"

\* What a watched handler has done to a task by the time it is in state x, when it
\* started in s with the tasks W to get rid of: nothing, taken it back, handed it
\* out, given it up.
Idle(s, t) == s.status[t] \notin InHand \cup Settled
MayRetry(s) == \A t \in Tasks : Idle(s, t) => s.attempts[t] < MaxTaskAttempts
SamePhase(s, x, t) ==
  /\ s.status[t] \in InHand <=> x.status[t] \in InHand
  /\ s.status[t] = "completed" <=> x.status[t] = "completed"
  /\ s.status[t] = "failed" <=> x.status[t] = "failed"
SameSent(s, x, t) ==
  x.attempts[t] = s.attempts[t] /\ \A n \in Nodes : Sent(x, t, n) <=> Sent(s, t, n)
TurnOf(s, x, W, t) ==
  \/ /\ SamePhase(s, x, t) /\ SameSent(s, x, t)
     /\ x.status[t] \in InHand => x.holder[t] = s.holder[t] \/ (t \in W /\ x.holder[t] = None)
  \/ /\ t \in W /\ x.attempts[t] < MaxTaskAttempts
     /\ Idle(x, t) /\ SameSent(s, x, t)
  \/ /\ t \in W \/ Idle(s, t)
     /\ s.attempts[t] < MaxTaskAttempts /\ x.attempts[t] = s.attempts[t] + 1
     /\ x.status[t] \in InHand /\ x.holder[t] \in x.registered
     /\ \A n \in Nodes : Sent(x, t, n) <=> Sent(s, t, n) \/ n = x.holder[t]
  \/ t \in W /\ x.status[t] = "failed" /\ SameSent(s, x, t)
Turned(x, w) == w.watch =>
  /\ w.cancelled = {} /\ MayRetry(w.start)
  /\ x.registered = w.start.registered /\ x.registered \subseteq open
  /\ \A t \in Tasks : TurnOf(w.start, x, w.loose, t)

ExactOf(s, w) ==
  (w.troubles \subseteq Announced => Busy(s) /\ NoneCancelled(s)) /\ Turned(s, w)

CancelledOf(s, w) == \A j \in Jobs : s.jobStatus[j] = "cancelled" <=> j \in w.cancelled

Tidy(s, L, A, w) ==
  /\ \A t \in Tasks : Tracked(s, t) => LedgerOf(s, L, A, w, t) /\ FlightOf(s, L, w, t)
  /\ \A j \in Jobs : JobTidy(s, j)
  /\ CancelsStale(s) /\ OneHand(s, w) /\ ExactOf(s, w) /\ CancelledOf(s, w)

LEMMA TasksFinite == IsFiniteSet(Tasks)
<1>1. ASSUME NEW j \in Jobs PROVE IsFiniteSet(TasksOf(j))
  <2> DEFINE f == [i \in 1..(Items[j] + 1) |-> <<j, i>>]
  <2>1. Items[j] \in Nat
    BY Numbers
  <2>2. f \in Surjection(1..(Items[j] + 1), TasksOf(j))
    BY TaskNames DEF Surjection
  <2>3. IsFiniteSet(1..(Items[j] + 1))
    BY <2>1, FS_Interval
  <2> HIDE DEF f
  <2> QED BY <2>2, <2>3, FS_Surjection
<1> DEFINE T == {TasksOf(j) : j \in Jobs}
           g == [j \in Jobs |-> TasksOf(j)]
<1>2. IsFiniteSet(Jobs)
  BY Numbers, FS_Interval
<1>3. g \in Surjection(Jobs, T)
  BY DEF Surjection
<1>4. Tasks = UNION T /\ \A S \in T : IsFiniteSet(S)
  BY <1>1 DEF Tasks
<1> HIDE DEF g, T
<1>5. IsFiniteSet(T)
  BY <1>2, <1>3, FS_Surjection
<1> QED BY <1>4, <1>5, FS_UNION

\* How busy a node is, when the load of one node changes by one task or not at all.
LEMMA BusyMoves ==
  ASSUME NEW s \in States, NEW x \in States, Busy(s), x.registered = s.registered,
         NEW n, NEW t \in Tasks,
         \A m \in Nodes : m # n => x.active[m] = s.active[m] /\ Load(x, m) = Load(s, m),
         n \in Nodes =>
           \/ x.active[n] = s.active[n] /\ Load(x, n) = Load(s, n)
           \/ n \notin s.registered /\ x.active[n] = s.active[n]
           \/ /\ x.active[n] = s.active[n] + 1
              /\ n \in s.registered /\ t \notin Load(s, n) /\ Load(x, n) = Load(s, n) \cup {t}
           \/ /\ x.active[n] = IF s.active[n] - 1 < 0 THEN 0 ELSE s.active[n] - 1
              /\ n \in s.registered /\ t \in Load(s, n) /\ Load(x, n) = Load(s, n) \ {t}
  PROVE  Busy(x)
<1> SUFFICES ASSUME NEW m \in Nodes
             PROVE  x.active[m] = IF m \in x.registered THEN Cardinality(Load(x, m)) ELSE 0
  BY DEF Busy
<1>1. s.active[m] = IF m \in s.registered THEN Cardinality(Load(s, m)) ELSE 0
  BY DEF Busy
<1>2. IsFiniteSet(Load(s, m))
  BY TasksFinite, FS_Subset DEF Load
<1>3. Cardinality(Load(s, m)) \in Nat
  BY <1>2, FS_CardinalityType
<1>4. CASE m # n
  BY <1>1, <1>4
<1>5. CASE m = n /\ t \notin Load(s, n) /\ Load(x, n) = Load(s, n) \cup {t}
  <2>1. Cardinality(Load(s, m) \cup {t}) = Cardinality(Load(s, m)) + 1
    BY <1>2, <1>5, FS_AddElement
  <2>2. Load(x, m) # Load(s, m) /\ (m \in s.registered => t \notin Load(s, m))
    BY <1>5
  <2>3. Load(x, m) = Load(s, m) \cup {t} /\ ~(t \in Load(s, m))
    BY <1>5
  <2>4. Cardinality(Load(x, m)) = Cardinality(Load(s, m)) + 1
    BY <2>1, <2>3
  <2>5. \/ m \notin s.registered /\ x.active[m] = s.active[m]
        \/ x.active[m] = s.active[m] + 1 /\ m \in s.registered
    BY <1>5, <2>2
  <2> QED BY <1>1, <2>4, <2>5
<1>6. CASE m = n /\ t \in Load(s, n) /\ Load(x, n) = Load(s, n) \ {t}
  <2>1. Cardinality(Load(s, m) \ {t}) = Cardinality(Load(s, m)) - 1
    BY <1>2, <1>6, FS_RemoveElement
  <2>2. Cardinality(Load(x, m)) = Cardinality(Load(s, m)) - 1
    BY <2>1, <1>6
  <2>3. Cardinality(Load(x, m)) \in Nat
    <3>1. IsFiniteSet(Load(x, m))
      BY TasksFinite, FS_Subset DEF Load
    <3> QED BY <3>1, FS_CardinalityType
  <2>4. Load(x, m) # Load(s, m)
    BY <1>6
  <2>5. \/ m \notin s.registered /\ x.active[m] = s.active[m]
        \/ x.active[m] = (IF s.active[m] - 1 < 0 THEN 0 ELSE s.active[m] - 1) /\ m \in s.registered
    BY <1>6, <2>4
  <2> QED BY <1>1, <1>3, <2>2, <2>3, <2>5
<1>7. CASE m = n /\ (Load(x, n) = Load(s, n) \/ n \notin s.registered) /\ x.active[n] = s.active[n]
  BY <1>1, <1>7
<1> QED BY <1>4, <1>5, <1>6, <1>7

-----------------------------------------------------------------------------
(* Steps that change what is known of one task.                              *)

Moved(s, x, t) ==
  /\ SameNodes(s, x)
  /\ \A j \in Jobs : x.jobStatus[j] = s.jobStatus[j] \/ {x.jobStatus[j], s.jobStatus[j]} \subseteq Live
  /\ \A r \in Tasks \ {t} : x.status[r] = s.status[r] /\ x.holder[r] = s.holder[r]
  /\ \A r \in Tasks \ {t} : Queued(x, r) <=> Queued(s, r)
  /\ \A j \in Jobs \ {JobOf(t)} : x.queues[j] = s.queues[j]
  /\ Tracked(s, t) =>
       /\ Once(x.queues[JobOf(t)])
       /\ s.status[t] = "completed" => x.status[t] = "completed"
       /\ x.status[t] # "absent" => s.status[t] # "absent" \/ Succeeded(s, JobOf(t)) # {}

\* The hands of the handler and of the loss, but for t.
But(L, M, t) == L \ {t} = M \ {t}

LEMMA LedgerMoves ==
  ASSUME NEW s \in States, NEW x \in States, NEW t \in Tasks, Moved(s, x, t), NEW r \in Tasks, r # t,
         NEW L, NEW M, But(L, M, t), NEW A, NEW B, A \ {t} \subseteq B, NEW w,
         LedgerOf(s, L, A, w, r)
  PROVE  LedgerOf(x, M, B, w, r)
<1>1. /\ x.status[r] = s.status[r] /\ x.holder[r] = s.holder[r]
      /\ Queued(x, r) <=> Queued(s, r)
      /\ x.registered = s.registered /\ (r \in M <=> r \in L) /\ (r \in A => r \in B)
  BY DEF Moved, SameNodes, But
<1>2. x.jobStatus[JobOf(r)] \notin Live => s.jobStatus[JobOf(r)] \notin Live
  <2>1. JobOf(r) \in Jobs
    BY TaskNames
  <2> QED BY <2>1 DEF Moved
<1> QED BY <1>1, <1>2 DEF LedgerOf

LEMMA JobTidyMoves ==
  ASSUME NEW s \in States, NEW x \in States, NEW t \in Tasks, Moved(s, x, t), NEW j \in Jobs, JobTidy(s, j)
  PROVE  JobTidy(x, j)
<1> SUFFICES ASSUME x.jobStatus[j] # "cancelled"
             PROVE  /\ Once(x.queues[j])
                    /\ x.jobStatus[j] = "completed" \/ x.status[ReduceTask(j)] # "absent" => Succeeded(x, j) # {}
  BY DEF JobTidy
<1>1. s.jobStatus[j] # "cancelled" /\ (x.jobStatus[j] = "completed" => s.jobStatus[j] = "completed")
  BY DEF Moved, Live
<1>2. Once(s.queues[j])
  BY <1>1 DEF JobTidy
<1>3. Once(x.queues[j])
  BY <1>1, <1>2 DEF Moved, Tracked
<1>4. Succeeded(s, j) \subseteq Succeeded(x, j)
  <2> SUFFICES ASSUME NEW r \in MapTasks(j), s.status[r] = "completed"
               PROVE  x.status[r] = "completed"
    BY DEF Succeeded
  <2>1. r \in Tasks /\ JobOf(r) = j
    BY TaskNames
  <2> QED BY <1>1, <2>1 DEF Moved, Tracked
<1>5. x.status[ReduceTask(j)] # "absent" => s.status[ReduceTask(j)] # "absent" \/ Succeeded(s, j) # {}
  <2>1. ReduceTask(j) \in Tasks /\ JobOf(ReduceTask(j)) = j
    BY TaskNames
  <2> QED BY <1>1, <2>1 DEF Moved, Tracked
<1> QED BY <1>1, <1>3, <1>4, <1>5 DEF JobTidy

\* Without a message.
LEMMA TidyMove ==
  ASSUME NEW s \in States, NEW x \in States, NEW t \in Tasks, Moved(s, x, t), x.inbox = s.inbox,
         NEW L, NEW M, But(L, M, t), NEW A, NEW B, A \ {t} \subseteq B, NEW w,
         Tidy(s, L, A, w), ExactOf(x, w),
         Tracked(s, t) => LedgerOf(x, M, B, w, t) /\ FlightOf(x, M, w, t)
  PROVE  Tidy(x, M, B, w)
<1>1. \A r \in Tasks : Tracked(x, r) <=> Tracked(s, r)
  BY TaskNames DEF Tracked, Moved, Live
<1>2. \A r \in Tasks, n \in Nodes :
        /\ \A i : SentAt(x, r, n, i) <=> SentAt(s, r, n, i)
        /\ Sent(x, r, n) <=> Sent(s, r, n)
  BY DEF Sent, SentAt
<1>3. ASSUME NEW r \in Tasks, r # t, FlightOf(s, L, w, r)
      PROVE  FlightOf(x, M, w, r)
  <2> SUFFICES ASSUME NEW n \in Nodes, Airborne(x, w, r, n)
               PROVE  /\ r \notin M /\ x.status[r] \in InHand /\ x.holder[r] = n /\ n \in x.registered
                      /\ Orderly(x, w, r, n)
    BY DEF FlightOf
  <2>1. Airborne(s, w, r, n)
    BY <1>2 DEF Airborne
  <2>2. r \notin L /\ s.status[r] \in InHand /\ s.holder[r] = n /\ n \in s.registered /\ Orderly(s, w, r, n)
    BY <1>3, <2>1 DEF FlightOf
  <2>3. Orderly(x, w, r, n)
    BY <1>2, <2>2 DEF Orderly
  <2> QED BY <1>3, <2>2, <2>3 DEF Moved, SameNodes, But
<1>4. \A r \in Tasks : Tracked(x, r) => LedgerOf(x, M, B, w, r) /\ FlightOf(x, M, w, r)
  BY <1>1, <1>3, LedgerMoves DEF Tidy
<1>5. \A j \in Jobs : JobTidy(x, j)
  BY JobTidyMoves DEF Tidy
<1>6. CancelsStale(x)
  BY <1>1, InboxTasks DEF Tidy, CancelsStale
<1>7. OneHand(x, w)
  <2>1. \A r \in Tasks, n \in Nodes : Given(x, w, r, n) <=> Given(s, w, r, n)
    BY <1>2 DEF Given
  <2> QED BY <2>1 DEF Tidy, OneHand
<1>8. CancelledOf(x, w)
  <2>1. \A j \in Jobs : x.jobStatus[j] = "cancelled" <=> s.jobStatus[j] = "cancelled"
    BY DEF Moved, Live
  <2> QED BY <2>1 DEF Tidy, CancelledOf
<1> QED BY <1>4, <1>5, <1>6, <1>7, <1>8 DEF Tidy

\* The busy counts of a state with a cancelled job say nothing.
LEMMA NotExact ==
  ASSUME NEW s, NEW x, NEW w, ExactOf(s, w), CancelledOf(s, w), NEW t \in Tasks, ~Tracked(s, t)
  PROVE  ExactOf(x, w)
  BY TaskNames DEF ExactOf, NoneCancelled, Tracked, CancelledOf, Turned

LEMMA ExactMoves ==
  ASSUME NEW s \in States, NEW x \in States, NEW t \in Tasks, Moved(s, x, t), NEW w, ExactOf(s, w),
         Busy(s) => Busy(x), Turned(x, w)
  PROVE  ExactOf(x, w)
<1>1. NoneCancelled(s) => NoneCancelled(x)
  BY DEF NoneCancelled, Moved, Live
<1> QED BY <1>1 DEF ExactOf

\* A watched handler, when what is known of one task changes, or of none.
LEMMA TurnedMove ==
  ASSUME NEW s \in States, NEW x \in States, NEW w, Turned(s, w), x.registered = s.registered, NEW t,
         \A r \in Tasks \ {t} : /\ x.status[r] = s.status[r] /\ x.holder[r] = s.holder[r]
                               /\ SameSent(s, x, r),
         t \in Tasks => (w.watch => TurnOf(w.start, x, w.loose, t))
  PROVE  Turned(x, w)
<1> SUFFICES ASSUME w.watch PROVE \A r \in Tasks : TurnOf(w.start, x, w.loose, r)
  BY DEF Turned
<1>1. ASSUME NEW r \in Tasks, r # t PROVE TurnOf(w.start, x, w.loose, r)
  <2>1. /\ TurnOf(w.start, s, w.loose, r) /\ SameSent(s, x, r)
        /\ x.status[r] = s.status[r] /\ x.holder[r] = s.holder[r]
    BY <1>1 DEF Turned
  <2> QED BY <2>1 DEF TurnOf, SamePhase, SameSent, Idle
<1> QED BY <1>1

LEMMA TurnedSame ==
  ASSUME NEW s \in States, NEW x \in States, NEW w, ExactOf(s, w), x.registered = s.registered,
         x.attempts = s.attempts, x.inbox = s.inbox, x.holder = s.holder,
         \A t \in Tasks : SamePhase(s, x, t)
  PROVE  Turned(x, w)
<1> SUFFICES ASSUME w.watch PROVE \A r \in Tasks : TurnOf(w.start, x, w.loose, r)
  BY DEF ExactOf, Turned
<1>1. ASSUME NEW r \in Tasks PROVE TurnOf(w.start, x, w.loose, r)
  <2>1. TurnOf(w.start, s, w.loose, r) /\ SamePhase(s, x, r) /\ SameSent(s, x, r)
    BY DEF ExactOf, Turned, SameSent, Sent, SentAt
  <2>2. Idle(s, r) <=> Idle(x, r)
    BY <2>1 DEF SamePhase, Idle, Settled
  <2> QED BY <2>1, <2>2 DEF TurnOf, SamePhase, SameSent
<1> QED BY <1>1

LEMMA HeadedEffect ==
  ASSUME NEW q \in Seq(Entries), Unique(q), NEW t \in Tasks, NEW n \in Nodes
  PROVE  LET x == Headed(q, t, n) IN
         /\ \A r : In(x, r) <=> r = t \/ In(q, r)
         /\ Once(q) /\ ~In(q, t) => Once(x)
<1> DEFINE old == Lookup(q, n)
           ts == <<t>> \o old
           x == Headed(q, t, n)
<1>1. old \in Seq(Tasks)
  BY LookupEffect
<1> HIDE DEF old
<1>2. /\ ts \in Seq(Tasks) /\ Len(old) \in Nat /\ DOMAIN ts = 1..(Len(old) + 1) /\ DOMAIN old = 1..Len(old)
      /\ ts[1] = t /\ \A k \in 1..Len(old) : ts[k + 1] = old[k]
  BY <1>1
<1> HIDE DEF ts
<1>3. x = Put(q, n, ts)
  BY DEF Headed, ts, old
<1>4. PICK p : SetAt(q, x, p, n, ts)
  BY <1>2, <1>3, PutEffect
<1> HIDE DEF x
<1>5. /\ p \in DOMAIN x /\ DOMAIN x = DOMAIN q \cup {p} /\ x[p].tasks = ts
      /\ \A i \in DOMAIN q \ {p} : x[i] = q[i]
      /\ p \in DOMAIN q => old = q[p].tasks
      /\ p \notin DOMAIN q => old = <<>>
  BY <1>4 DEF SetAt, old
<1>6. \A i, r, k : i # p => (At(x, i, k, r) <=> At(q, i, k, r))
  BY <1>5 DEF At
<1>7. \A k, r : At(x, p, k, r) <=> (k = 1 /\ r = t) \/ (k \in 2..(Len(old) + 1) /\ At(q, p, k - 1, r))
  <2> SUFFICES ASSUME NEW k, NEW r
               PROVE  At(x, p, k, r) <=> (k = 1 /\ r = t) \/ (k \in 2..(Len(old) + 1) /\ At(q, p, k - 1, r))
    OBVIOUS
  <2>1. At(x, p, k, r) <=> k \in 1..(Len(old) + 1) /\ ts[k] = r
    BY <1>2, <1>5 DEF At
  <2>2. CASE k = 1
    BY <1>2, <2>1, <2>2
  <2>3. CASE k \in 2..(Len(old) + 1)
    <3>1. k - 1 \in 1..Len(old) /\ ts[(k - 1) + 1] = old[k - 1] /\ (k - 1) + 1 = k
      BY <1>2, <2>3
    <3>2. p \in DOMAIN q /\ old = q[p].tasks
      <4>1. old # <<>>
        BY <3>1
      <4> QED BY <4>1, <1>5
    <3>3. At(q, p, k - 1, r) <=> old[k - 1] = r
      BY <3>1, <3>2, <1>2 DEF At
    <3>4. k # 1 /\ k \in 1..(Len(old) + 1)
      BY <1>2, <2>3
    <3> QED BY <2>1, <2>3, <3>1, <3>3, <3>4
  <2>4. CASE k \notin 1..(Len(old) + 1)
    <3>1. k # 1 /\ k \notin 2..(Len(old) + 1)
      BY <1>2, <2>4
    <3> QED BY <2>1, <2>4, <3>1
  <2>5. k = 1 \/ k \in 2..(Len(old) + 1) \/ k \notin 1..(Len(old) + 1)
    BY <1>2
  <2> QED BY <2>2, <2>3, <2>4, <2>5
<1>8. \A k, r : At(q, p, k, r) => k \in 1..Len(old) /\ k + 1 \in 2..(Len(old) + 1) /\ (k + 1) - 1 = k
  <2> SUFFICES ASSUME NEW k, NEW r, At(q, p, k, r)
               PROVE  k \in 1..Len(old) /\ k + 1 \in 2..(Len(old) + 1) /\ (k + 1) - 1 = k
    OBVIOUS
  <2>1. k \in DOMAIN old
    BY <1>5 DEF At
  <2> QED BY <1>2, <2>1
<1>9. \A r : In(x, r) <=> r = t \/ In(q, r)
  <2>1. ASSUME NEW r, In(x, r) PROVE r = t \/ In(q, r)
    BY <2>1, <1>6, <1>7 DEF In
  <2>2. In(x, t)
    BY <1>7 DEF In
  <2>3. ASSUME NEW r, In(q, r) PROVE In(x, r)
    <3>1. PICK i, k : At(q, i, k, r)
      BY <2>3 DEF In
    <3>2. CASE i = p
      <4>1. k + 1 \in 2..(Len(old) + 1) /\ (k + 1) - 1 = k
        BY <3>1, <3>2, <1>8
      <4>2. At(q, p, (k + 1) - 1, r)
        BY <3>1, <3>2, <4>1
      <4>3. At(x, p, k + 1, r)
        BY <1>7, <4>1, <4>2
      <4> QED BY <4>3 DEF In
    <3> QED BY <3>1, <3>2, <1>6 DEF In
  <2> QED BY <2>1, <2>2, <2>3
<1>10. ASSUME Once(q), ~In(q, t) PROVE Once(x)
  <2> SUFFICES ASSUME NEW r, NEW i, NEW k, NEW l, NEW m, At(x, i, k, r), At(x, l, m, r)
               PROVE  i = l /\ k = m
    BY DEF Once
  <2>1. CASE r = t
    <3>1. \A a, b : ~At(q, a, b, t)
      BY <1>10 DEF In
    <3> QED BY <2>1, <3>1, <1>6, <1>7
  <2>2. CASE r # t
    <3>1. \A a, b : At(x, a, b, r) => At(q, a, IF a = p THEN b - 1 ELSE b, r) /\ (a = p => b \in 2..(Len(old) + 1))
      BY <2>2, <1>6, <1>7
    <3>2. i = l /\ (IF i = p THEN k - 1 ELSE k) = (IF l = p THEN m - 1 ELSE m)
      BY <3>1, <1>10 DEF Once
    <3> QED BY <3>1, <3>2, <1>2
  <2> QED BY <2>1, <2>2
<1> QED BY <1>9, <1>10 DEF x

\* What a handler has in its hands is nowhere else.
LEMMA Grounded ==
  ASSUME NEW s, NEW L, NEW A, NEW w, Tidy(s, L, A, w), NEW t \in Tasks, Tracked(s, t), t \in L,
         NEW x, x.inbox = s.inbox, NEW M
  PROVE  /\ \A n \in Nodes : ~Airborne(s, w, t, n)
         /\ FlightOf(x, M, w, t)
         /\ ~Queued(s, t) /\ s.status[t] \in Waiting \cup InHand
         /\ s.jobStatus[JobOf(t)] \in Live
         /\ s.status[t] \in Waiting => s.holder[t] = None
<1>1. LedgerOf(s, L, A, w, t) /\ FlightOf(s, L, w, t)
  BY DEF Tidy
<1>2. \A n \in Nodes : ~Airborne(s, w, t, n)
  BY <1>1 DEF FlightOf
<1>3. \A n \in Nodes : Airborne(x, w, t, n) <=> Airborne(s, w, t, n)
  BY DEF Airborne, Sent, SentAt
<1>4. FlightOf(x, M, w, t)
  BY <1>2, <1>3 DEF FlightOf
<1> QED BY <1>1, <1>2, <1>4 DEF LedgerOf, Waiting, InHand, Settled

\* A watched handler has handed out nothing of what it has in its hands.
LEMMA GroundedTurn ==
  ASSUME NEW s \in States, NEW L, NEW A, NEW w, Tidy(s, L, A, w), NEW t \in Tasks, Tracked(s, t), t \in L,
         w.watch
  PROVE  /\ SameSent(w.start, s, t)
         /\ \/ SamePhase(w.start, s, t) /\ (s.status[t] \in InHand => s.holder[t] \in {w.start.holder[t], None})
            \/ t \in w.loose /\ Idle(s, t) /\ s.attempts[t] < MaxTaskAttempts
         /\ Idle(s, t) => s.attempts[t] < MaxTaskAttempts /\ (t \in w.loose \/ Idle(w.start, t))
<1>1. TurnOf(w.start, s, w.loose, t) /\ MayRetry(w.start)
  BY DEF Tidy, ExactOf, Turned
<1>2. s.status[t] \in Waiting \cup InHand /\ \A n \in Nodes : ~Airborne(s, w, t, n)
  BY Grounded
<1>3. \A n \in Nodes : ~Sent(s, t, n)
  BY <1>2 DEF Airborne
<1>4. s.registered \subseteq Nodes
  BY DEF States
<1>5. ~(/\ s.status[t] \in InHand /\ s.holder[t] \in s.registered
        /\ \A n \in Nodes : Sent(s, t, n) <=> Sent(w.start, t, n) \/ n = s.holder[t])
  BY <1>3, <1>4
<1>6. s.status[t] # "failed"
  BY <1>2 DEF Waiting, InHand
<1>7. /\ SameSent(w.start, s, t)
      /\ \/ SamePhase(w.start, s, t) /\ (s.status[t] \in InHand => s.holder[t] \in {w.start.holder[t], None})
         \/ t \in w.loose /\ Idle(s, t) /\ s.attempts[t] < MaxTaskAttempts
  BY <1>1, <1>5, <1>6 DEF TurnOf
<1>8. SamePhase(w.start, s, t) => (Idle(s, t) <=> Idle(w.start, t))
  BY DEF SamePhase, Idle, Settled
<1> QED BY <1>1, <1>7, <1>8 DEF MayRetry, SameSent

LEMMA FreedTidy ==
  ASSUME NEW s \in States, NEW L, NEW A, NEW w, Tidy(s, L, A, w), NEW t \in Tasks,
         Tracked(s, t) => t \in L, w.watch => t \in w.loose
  PROVE  Tidy(Freed(s, t), L, A, w)
<1> DEFINE x == Freed(s, t)
           n == s.holder[t]
<1>1. x \in States /\ IsFreed(s, x, t)
  BY FreedEffect
<1> HIDE DEF x
<1>2. /\ SameJobs(s, x) /\ SameWork(s, x) /\ SameNodes(s, x) /\ x.status = s.status /\ x.inbox = s.inbox
      /\ x.attempts = s.attempts /\ x.holder[t] = None /\ \A r \in Tasks \ {t} : x.holder[r] = s.holder[r]
      /\ \A m \in Nodes : x.active[m] =
           IF m = n /\ m \in s.registered
             THEN IF s.active[m] - 1 < 0 THEN 0 ELSE s.active[m] - 1 ELSE s.active[m]
  BY <1>1 DEF IsFreed, SameTries, States
<1> HIDE DEF n
<1>3. Moved(s, x, t)
  <2>1. Tracked(s, t) => Once(x.queues[JobOf(t)])
    BY <1>2, TaskNames DEF Tidy, JobTidy, Tracked, SameWork
  <2> QED BY <1>2, <2>1 DEF Moved, SameJobs, SameWork, Queued
<1>4. CASE ~Tracked(s, t)
  <2>1. ExactOf(x, w)
    BY <1>4, NotExact DEF Tidy
  <2> QED BY <1>1, <1>2, <1>3, <1>4, <2>1, TidyMove DEF But, x
<1>5. CASE Tracked(s, t)
  <2>1. /\ FlightOf(x, L, w, t) /\ ~Queued(s, t) /\ s.status[t] \in Waiting \cup InHand
        /\ s.jobStatus[JobOf(t)] \in Live /\ (s.status[t] \in Waiting => n = None)
    BY <1>2, <1>5, Grounded DEF n
  <2>2. LedgerOf(x, L, A, w, t)
    BY <1>2, <1>5, <2>1 DEF LedgerOf, Queued, SameWork, SameJobs, Waiting, InHand
  <2>3. ASSUME Busy(s) PROVE Busy(x)
    <3>1. \A m \in Nodes : m # n => x.active[m] = s.active[m] /\ Load(x, m) = Load(s, m)
      BY <1>2, Numbers DEF Load, n
    <3>2. CASE n \in Nodes
      <4>1. t \in Load(s, n)
        BY <2>1, <3>2, Numbers DEF Load, n
      <4>2. Load(x, n) = Load(s, n) \ {t}
        BY <1>2, <3>2, Numbers DEF Load
      <4>3. n \in s.registered \/ x.active[n] = s.active[n]
        BY <1>2, <3>2
      <4>4. n \in s.registered => x.active[n] = IF s.active[n] - 1 < 0 THEN 0 ELSE s.active[n] - 1
        BY <1>2, <3>2
      <4> QED BY <1>1, <1>2, <2>3, <3>1, <4>1, <4>2, <4>3, <4>4, BusyMoves DEF SameNodes
    <3> QED BY <1>1, <1>2, <2>3, <3>1, <3>2, BusyMoves DEF SameNodes
  <2>4. \A r \in Tasks : SameSent(s, x, r)
    BY <1>2 DEF SameSent, Sent, SentAt
  <2>5. ASSUME w.watch PROVE TurnOf(w.start, x, w.loose, t)
    <3>1. /\ SameSent(w.start, s, t)
          /\ \/ SamePhase(w.start, s, t)
             \/ t \in w.loose /\ Idle(s, t) /\ s.attempts[t] < MaxTaskAttempts
      BY <1>5, <2>5, GroundedTurn
    <3> QED BY <1>2, <2>4, <2>5, <3>1 DEF TurnOf, SamePhase, SameSent, Idle
  <2>6. Turned(x, w)
    BY <1>1, <1>2, <2>4, <2>5, TurnedMove DEF SameNodes, Tidy, ExactOf
  <2>7. ExactOf(x, w)
    BY <1>1, <1>3, <2>3, <2>6, ExactMoves DEF Tidy
  <2> QED BY <1>1, <1>2, <1>3, <2>1, <2>2, <2>7, TidyMove DEF But, x
<1> QED BY <1>4, <1>5

\* The ends of requeue: a task in the handler's hands goes to the head of a queue, or is given up.
LEMMA ReassignTidy ==
  ASSUME NEW s \in States, NEW L, NEW A, NEW w, Tidy(s, L, A, w), NEW t \in Tasks, NEW n \in Nodes,
         Unique(s.queues[JobOf(t)]), s.holder[t] = None, Tracked(s, t) => t \in L,
         w.watch /\ s.status[t] \in InHand => t \in w.loose /\ ~Exhausted(s, t)
  PROVE  Tidy(Reassign(s, t, n), L \ {t}, A \ {t}, w)
<1> DEFINE x == Reassign(s, t, n)
           M == L \ {t}
           B == A \ {t}
           q == s.queues[JobOf(t)]
           p == Headed(q, t, n)
<1>1. x \in States /\ Reassigned(s, x, t, n)
  BY ReassignEffect
<1> HIDE DEF x
<1>2. JobOf(t) \in Jobs /\ q \in Seq(Entries)
  BY TaskNames DEF States
<1>3. /\ \A r : In(p, r) <=> r = t \/ In(q, r)
      /\ Once(q) /\ ~In(q, t) => Once(p)
  BY <1>2, HeadedEffect
<1>4. /\ SameJobs(s, x) /\ SameNodes(s, x) /\ x.holder = s.holder /\ x.active = s.active /\ x.inbox = s.inbox
      /\ x.attempts = s.attempts
      /\ x.status[t] = "reassigned" /\ \A r \in Tasks \ {t} : x.status[r] = s.status[r]
      /\ x.queues[JobOf(t)] = p /\ \A j \in Jobs \ {JobOf(t)} : x.queues[j] = s.queues[j]
  BY <1>1, <1>2 DEF Reassigned, SameTries, States
<1> HIDE DEF p
<1>5. \A r \in Tasks : Queued(x, r) <=> r = t \/ Queued(s, r)
  BY <1>3, <1>4, TaskNames DEF Queued
<1>6. Tracked(s, t) =>
        /\ FlightOf(x, M, w, t) /\ ~Queued(s, t) /\ s.status[t] \in Waiting \cup InHand
        /\ s.jobStatus[JobOf(t)] \in Live
  BY <1>4, Grounded
<1>7. Moved(s, x, t)
  <2>1. Tracked(s, t) => Once(x.queues[JobOf(t)])
    BY <1>2, <1>3, <1>4, <1>6 DEF Tidy, JobTidy, Tracked, Queued
  <2>2. Tracked(s, t) => s.status[t] # "completed" /\ s.status[t] # "absent"
    BY <1>6 DEF Waiting, InHand
  <2> QED BY <1>4, <1>5, <2>1, <2>2 DEF Moved, SameJobs
<1>8. Tracked(s, t) => LedgerOf(x, M, B, w, t)
  BY <1>4, <1>5, <1>6 DEF LedgerOf, SameJobs, Waiting, InHand
<1>9. ExactOf(x, w)
  <2>1. CASE ~Tracked(s, t)
    BY <2>1, NotExact DEF Tidy
  <2>2. CASE Tracked(s, t)
    <3>1. \A m \in Nodes : Load(x, m) = Load(s, m)
      BY <1>4, Numbers DEF Load
    <3>2. Busy(s) => Busy(x)
      BY <1>4, <3>1 DEF Busy, SameNodes
    <3>3. \A r \in Tasks : SameSent(s, x, r)
      BY <1>4 DEF SameSent, Sent, SentAt
    <3>4. ASSUME w.watch PROVE TurnOf(w.start, x, w.loose, t)
      <4>1. /\ SameSent(w.start, s, t)
            /\ \/ SamePhase(w.start, s, t)
               \/ t \in w.loose /\ Idle(s, t) /\ s.attempts[t] < MaxTaskAttempts
        BY <2>2, <3>4, GroundedTurn
      <4>2. Idle(x, t) /\ x.status[t] \notin InHand \cup Settled /\ SameSent(w.start, x, t)
        BY <1>4, <3>3, <4>1 DEF Idle, InHand, Settled, SameSent
      <4>3. s.status[t] \in InHand => t \in w.loose /\ x.attempts[t] < MaxTaskAttempts
        <5>1. s.attempts[t] \in Nat /\ MaxTaskAttempts \in Nat
          BY Numbers DEF States
        <5> QED BY <1>4, <3>4, <5>1 DEF Exhausted
      <4>4. s.status[t] \notin InHand => Idle(s, t)
        BY <1>6, <2>2 DEF Waiting, Idle, InHand, Settled
      <4> QED BY <1>4, <4>1, <4>2, <4>3, <4>4 DEF TurnOf, SamePhase, Idle, Settled
    <3>5. Turned(x, w)
      BY <1>1, <1>4, <3>3, <3>4, TurnedMove DEF SameNodes, Tidy, ExactOf
    <3> QED BY <1>1, <1>7, <3>2, <3>5, ExactMoves DEF Tidy
  <2> QED BY <2>1, <2>2
<1>10. But(L, M, t) /\ A \ {t} \subseteq B
  BY DEF But
<1> HIDE DEF M, B
<1>11. Tidy(x, M, B, w)
  BY <1>1, <1>4, <1>6, <1>7, <1>8, <1>9, <1>10, TidyMove
<1> QED BY <1>11 DEF x, M, B

LEMMA FailedTidy ==
  ASSUME NEW s \in States, NEW L, NEW A, NEW w, Tidy(s, L, A, w), NEW t \in Tasks,
         s.holder[t] = None, Tracked(s, t) => t \in L, w.watch => t \in w.loose
  PROVE  Tidy([s EXCEPT !.status[t] = "failed"], L \ {t}, A \ {t}, w)
<1> DEFINE x == [s EXCEPT !.status[t] = "failed"]
           M == L \ {t}
           B == A \ {t}
<1>1. x \in States /\ Marked(s, x, t, "failed")
  BY StatusEffect DEF TaskStatuses
<1> HIDE DEF x
<1>2. /\ SameJobs(s, x) /\ SameNodes(s, x) /\ SameWork(s, x) /\ x.holder = s.holder /\ x.active = s.active
      /\ x.attempts = s.attempts
      /\ x.inbox = s.inbox /\ x.status[t] = "failed" /\ \A r \in Tasks \ {t} : x.status[r] = s.status[r]
  BY <1>1 DEF Marked, SameTries, States, SameLinks
<1>3. Tracked(s, t) =>
        /\ FlightOf(x, M, w, t) /\ ~Queued(s, t) /\ s.status[t] \in Waiting \cup InHand
        /\ s.jobStatus[JobOf(t)] \in Live
  BY <1>2, Grounded
<1>4. Moved(s, x, t)
  <2>1. Tracked(s, t) => Once(x.queues[JobOf(t)])
    BY <1>2, TaskNames DEF Tidy, JobTidy, Tracked, SameWork
  <2>2. Tracked(s, t) => s.status[t] # "completed" /\ s.status[t] # "absent"
    BY <1>3 DEF Waiting, InHand
  <2> QED BY <1>2, <2>1, <2>2 DEF Moved, SameJobs, SameWork, Queued
<1>5. Tracked(s, t) => LedgerOf(x, M, B, w, t)
  BY <1>2, <1>3 DEF LedgerOf, SameJobs, SameWork, Queued, Waiting, InHand, Settled
<1>6. ExactOf(x, w)
  <2>1. CASE ~Tracked(s, t)
    BY <2>1, NotExact DEF Tidy
  <2>2. CASE Tracked(s, t)
    <3>1. \A m \in Nodes : Load(x, m) = Load(s, m)
      BY <1>2, Numbers DEF Load
    <3>2. Busy(s) => Busy(x)
      BY <1>2, <3>1 DEF Busy, SameNodes
    <3>3. \A r \in Tasks : SameSent(s, x, r)
      BY <1>2 DEF SameSent, Sent, SentAt
    <3>4. w.watch => TurnOf(w.start, x, w.loose, t)
      <4>1. w.watch => SameSent(w.start, s, t)
        BY <2>2, GroundedTurn
      <4> QED BY <1>2, <3>3, <4>1 DEF TurnOf, SameSent
    <3>5. Turned(x, w)
      BY <1>1, <1>2, <3>3, <3>4, TurnedMove DEF SameNodes, Tidy, ExactOf
    <3> QED BY <1>1, <1>4, <3>2, <3>5, ExactMoves DEF Tidy
  <2> QED BY <2>1, <2>2
<1>7. But(L, M, t) /\ A \ {t} \subseteq B
  BY DEF But
<1> HIDE DEF M, B
<1>8. Tidy(x, M, B, w)
  BY <1>1, <1>2, <1>3, <1>4, <1>5, <1>6, <1>7, TidyMove
<1> QED BY <1>8 DEF x, M, B

\* A message leaves for a worker that nothing else about the task comes from or goes to.
LEMMA AssignTidy ==
  ASSUME NEW s \in States, NEW L, NEW A, NEW w, Tidy(s, L, A, w), NEW t \in Tasks,
         NEW n \in s.registered \cap open, Tracked(s, t), t \in L, s.status[t] \in Waiting
  PROVE  Tidy(Assign(s, t, n), L \ {t}, A, w)
<1> DEFINE x == Assign(s, t, n)
           M == L \ {t}
<1>1. n \in Nodes
  BY DEF States
<1>2. x \in States /\ Assigned(s, x, t, n)
  BY <1>1, AssignEffect
<1> HIDE DEF x
<1>3. /\ SameJobs(s, x) /\ SameNodes(s, x) /\ SameWork(s, x)
      /\ x.attempts[t] = s.attempts[t] + 1 /\ \A r \in Tasks \ {t} : x.attempts[r] = s.attempts[r]
      /\ x.status[t] = "assigned" /\ \A r \in Tasks \ {t} : x.status[r] = s.status[r]
      /\ x.holder[t] = n /\ \A r \in Tasks \ {t} : x.holder[r] = s.holder[r]
      /\ x.inbox[n] = Append(s.inbox[n], About("assign", t))
      /\ \A m \in Nodes \ {n} : x.inbox[m] = s.inbox[m]
      /\ x.active[n] = s.active[n] + 1 /\ \A m \in Nodes \ {n} : x.active[m] = s.active[m]
  BY <1>1, <1>2 DEF Assigned, States
<1>4. /\ \A m \in Nodes : ~Airborne(s, w, t, m)
      /\ ~Queued(s, t) /\ s.jobStatus[JobOf(t)] \in Live /\ s.holder[t] = None
  BY Grounded
<1> DEFINE l == Len(s.inbox[n])
<1>5. /\ DOMAIN x.inbox[n] = DOMAIN s.inbox[n] \cup {l + 1} /\ l + 1 \notin DOMAIN s.inbox[n]
      /\ x.inbox[n][l + 1] = About("assign", t)
      /\ \A i \in DOMAIN s.inbox[n] : x.inbox[n][i] = s.inbox[n][i]
  <2>1. s.inbox[n] \in Seq(Messages) /\ About("assign", t) \in Messages
    BY <1>1 DEF States, About, Messages
  <2> QED BY <2>1, <1>3
<1> HIDE DEF l
<1>6. \A r, m, i : m \in Nodes =>
        (SentAt(x, r, m, i) <=> SentAt(s, r, m, i) \/ (r = t /\ m = n /\ i = l + 1))
  BY <1>3, <1>5 DEF SentAt, About
<1>7. \A r, m : m \in Nodes => (Sent(x, r, m) <=> Sent(s, r, m) \/ (r = t /\ m = n))
  BY <1>6 DEF Sent
<1>8. Moved(s, x, t)
  <2>1. Once(x.queues[JobOf(t)])
    BY <1>3, TaskNames DEF Tidy, JobTidy, Tracked, SameWork
  <2>2. s.status[t] # "completed" /\ s.status[t] # "absent"
    BY DEF Waiting
  <2> QED BY <1>3, <2>1, <2>2 DEF Moved, SameJobs, SameWork, Queued
<1>9. \A r \in Tasks : Tracked(x, r) <=> Tracked(s, r)
  BY <1>3 DEF Tracked, SameJobs
<1>10. LedgerOf(x, M, A, w, t)
  BY <1>3, <1>4 DEF LedgerOf, SameJobs, SameWork, SameNodes, Queued, Waiting, InHand
<1>11. FlightOf(x, M, w, t)
  <2> SUFFICES ASSUME NEW m \in Nodes, Airborne(x, w, t, m)
               PROVE  /\ x.status[t] \in InHand /\ x.holder[t] = m /\ m \in x.registered
                      /\ Orderly(x, w, t, m)
    BY DEF FlightOf
  <2>1. ~Sent(s, t, m) /\ ~Heard(w, t, m) /\ t \notin w.runs[m]
    BY <1>4 DEF Airborne
  <2>2. m = n
    BY <1>7, <2>1 DEF Airborne
  <2>3. Orderly(x, w, t, m)
    BY <1>6, <2>1 DEF Orderly, Sent, Heard, VerdictAt
  <2> QED BY <1>3, <2>2, <2>3 DEF InHand, SameNodes
<1>12. ASSUME NEW r \in Tasks, r # t, FlightOf(s, L, w, r)
       PROVE  FlightOf(x, M, w, r)
  <2> SUFFICES ASSUME NEW m \in Nodes, Airborne(x, w, r, m)
               PROVE  /\ r \notin M /\ x.status[r] \in InHand /\ x.holder[r] = m /\ m \in x.registered
                      /\ Orderly(x, w, r, m)
    BY DEF FlightOf
  <2>1. Airborne(s, w, r, m)
    BY <1>7, <1>12 DEF Airborne
  <2>2. r \notin L /\ s.status[r] \in InHand /\ s.holder[r] = m /\ m \in s.registered /\ Orderly(s, w, r, m)
    BY <1>12, <2>1 DEF FlightOf
  <2>3. Orderly(x, w, r, m)
    BY <1>6, <1>7, <1>12, <2>2 DEF Orderly
  <2> QED BY <1>3, <1>12, <2>2, <2>3 DEF SameNodes
<1>13. But(L, M, t) /\ A \ {t} \subseteq A
  BY DEF But
<1>14. \A r \in Tasks : Tracked(x, r) => LedgerOf(x, M, A, w, r) /\ FlightOf(x, M, w, r)
  <2> HIDE DEF M
  <2> QED BY <1>2, <1>8, <1>9, <1>10, <1>11, <1>12, <1>13, LedgerMoves DEF Tidy
<1>15. \A j \in Jobs : JobTidy(x, j)
  BY <1>2, <1>8, JobTidyMoves DEF Tidy
<1>16. CancelsStale(x)
  <2> SUFFICES ASSUME NEW m \in Nodes, NEW i \in DOMAIN x.inbox[m], x.inbox[m][i].type = "cancel"
               PROVE  ~Tracked(x, x.inbox[m][i].task)
    BY DEF CancelsStale
  <2>1. i \in DOMAIN s.inbox[m] /\ x.inbox[m][i] = s.inbox[m][i]
    <3>1. CASE m # n
      BY <1>3, <3>1
    <3>2. CASE m = n
      <4>1. About("assign", t).type # "cancel"
        BY DEF About
      <4>2. i # l + 1
        BY <1>5, <3>2, <4>1
      <4> QED BY <1>5, <3>2, <4>2
    <3> QED BY <3>1, <3>2
  <2>2. ~Tracked(s, s.inbox[m][i].task)
    BY <2>1 DEF Tidy, CancelsStale
  <2> QED BY <1>9, <2>1, <2>2, InboxTasks
<1>17. OneHand(x, w)
  <2> SUFFICES ASSUME NEW r \in Tasks, NEW a \in Nodes, NEW b \in Nodes, Given(x, w, r, a), Given(x, w, r, b)
               PROVE  a = b
    BY DEF OneHand
  <2>1. CASE r = t
    BY <1>4, <1>7, <2>1 DEF Given, Airborne
  <2>2. CASE r # t
    <3>1. Given(s, w, r, a) /\ Given(s, w, r, b)
      BY <1>7, <2>2 DEF Given
    <3> QED BY <3>1 DEF Tidy, OneHand
  <2> QED BY <2>1, <2>2
<1>18. ExactOf(x, w)
  <2>1. \A m \in Nodes : m # n => Load(x, m) = Load(s, m)
    <3>1. \A r \in Tasks \ {t} : x.status[r] = s.status[r] /\ x.holder[r] = s.holder[r]
      BY <1>3
    <3>2. s.holder[t] = None /\ x.holder[t] = n /\ None \notin Nodes
      BY <1>3, <1>4, Numbers
    <3> QED BY <3>1, <3>2 DEF Load
  <2>2. t \notin Load(s, n) /\ Load(x, n) = Load(s, n) \cup {t}
    BY <1>1, <1>3, <1>4, Numbers DEF Load, InHand
  <2>3. Busy(s) => Busy(x)
    BY <1>2, <1>3, <2>1, <2>2, BusyMoves DEF SameNodes
  <2>4. \A r \in Tasks \ {t} : SameSent(s, x, r)
    BY <1>3, <1>7 DEF SameSent
  <2>5. ASSUME w.watch PROVE TurnOf(w.start, x, w.loose, t)
    <3>1. /\ SameSent(w.start, s, t)
          /\ Idle(s, t) => s.attempts[t] < MaxTaskAttempts /\ (t \in w.loose \/ Idle(w.start, t))
      BY <2>5, GroundedTurn
    <3>2. Idle(s, t) /\ x.status[t] \in InHand /\ x.holder[t] \in x.registered
      BY <1>3 DEF Idle, Waiting, InHand, Settled, SameNodes
    <3> QED BY <1>3, <1>7, <3>1, <3>2 DEF TurnOf, SameSent
  <2>6. Turned(x, w)
    BY <1>2, <1>3, <2>4, <2>5, TurnedMove DEF SameNodes, Tidy, ExactOf
  <2> QED BY <1>2, <1>8, <2>3, <2>6, ExactMoves DEF Tidy
<1>19. CancelledOf(x, w)
  BY <1>3 DEF Tidy, CancelledOf, SameJobs
<1>20. Tidy(x, M, A, w)
  BY <1>14, <1>15, <1>16, <1>17, <1>18, <1>19 DEF Tidy
<1> QED BY <1>20 DEF x, M

LEMMA TidyWiden ==
  ASSUME NEW s, NEW L, NEW A, NEW w, Tidy(s, L, A, w), NEW B, A \subseteq B
  PROVE  Tidy(s, L, B, w)
<1>1. \A t \in Tasks : LedgerOf(s, L, A, w, t) => LedgerOf(s, L, B, w, t)
  BY DEF LedgerOf
<1> QED BY <1>1 DEF Tidy

\* A job ends when nothing of it is pending.
LEMMA EndedTidy ==
  ASSUME NEW s \in States, NEW L, NEW A, NEW w, Tidy(s, L, A, w), NEW j \in Jobs, ~Ended(s, j),
         NEW x \in States, SameTasks(s, x), SameTries(s, x), SameNodes(s, x), SameLinks(s, x), SameWork(s, x),
         \A i \in Jobs \ {j} : x.jobStatus[i] = s.jobStatus[i],
         x.jobStatus[j] \in Settled, x.jobStatus[j] = "completed" => Succeeded(s, j) # {},
         \A t \in TasksOf(j) : s.status[t] \in Settled \cup {"absent"}
  PROVE  Tidy(x, L, A, w)
<1>1. /\ x.status = s.status /\ x.holder = s.holder /\ x.queues = s.queues /\ x.inbox = s.inbox
      /\ x.active = s.active /\ x.registered = s.registered
  BY DEF SameTasks, SameNodes, SameLinks, SameWork
<1>2. \A i \in Jobs : x.jobStatus[i] # "cancelled" <=> s.jobStatus[i] # "cancelled"
  BY DEF Ended, Terminal, Settled
<1>3. \A t \in Tasks : Tracked(x, t) <=> Tracked(s, t)
  BY <1>2, TaskNames DEF Tracked
<1>4. \A t \in Tasks, n \in Nodes :
        /\ \A i : SentAt(x, t, n, i) <=> SentAt(s, t, n, i)
        /\ Sent(x, t, n) <=> Sent(s, t, n)
  BY <1>1 DEF Sent, SentAt
<1>5. \A t \in Tasks : FlightOf(s, L, w, t) => FlightOf(x, L, w, t)
  BY <1>1, <1>4 DEF FlightOf, Airborne, Orderly
<1>6. \A t \in Tasks : LedgerOf(s, L, A, w, t) => LedgerOf(x, L, A, w, t)
  <2> SUFFICES ASSUME NEW t \in Tasks, LedgerOf(s, L, A, w, t) PROVE LedgerOf(x, L, A, w, t)
    OBVIOUS
  <2>1. x.jobStatus[JobOf(t)] \notin Live => s.status[t] \in Settled \cup {"absent"}
    <3>1. JobOf(t) \in Jobs /\ t \in TasksOf(JobOf(t))
      BY TaskNames
    <3>2. CASE JobOf(t) = j
      BY <3>1, <3>2
    <3>3. CASE JobOf(t) # j
      BY <3>1, <3>3 DEF LedgerOf
    <3> QED BY <3>2, <3>3
  <2> QED BY <1>1, <2>1 DEF LedgerOf, Queued
<1>7. ASSUME NEW i \in Jobs PROVE JobTidy(x, i)
  <2>1. JobTidy(s, i)
    BY DEF Tidy
  <2>2. Succeeded(x, i) = Succeeded(s, i)
    BY <1>1 DEF Succeeded
  <2> QED BY <1>1, <1>2, <2>1, <2>2 DEF JobTidy
<1>8. CancelsStale(x)
  BY <1>1, <1>3, InboxTasks DEF Tidy, CancelsStale
<1>9. OneHand(x, w)
  BY <1>4 DEF Tidy, OneHand, Given
<1>10. ExactOf(x, w)
  <2>1. \A n : Load(x, n) = Load(s, n)
    BY <1>1 DEF Load
  <2>2. Turned(x, w)
    BY <1>1, TurnedSame DEF Tidy, SamePhase, SameTries
  <2> QED BY <1>1, <1>2, <2>1, <2>2 DEF Tidy, ExactOf, Busy, NoneCancelled
<1>11. CancelledOf(x, w)
  BY <1>2 DEF Tidy, CancelledOf
<1> QED BY <1>3, <1>5, <1>6, <1>7, <1>8, <1>9, <1>10, <1>11 DEF Tidy

\* maybeFinish creates the reduce task: for a moment it is in nobody's queue.
LEMMA ReducingTidy ==
  ASSUME NEW s, NEW E, Sound(s, E), NEW L, NEW A, NEW w, Tidy(s, L, A, w), NEW j \in Jobs, ~Ended(s, j),
         Succeeded(s, j) # {}, s.status[ReduceTask(j)] = "absent"
  PROVE  /\ Tidy(Reducing(s, j), L \cup {ReduceTask(j)}, A, w)
         /\ ReduceTask(j) \notin L
<1> DEFINE x == Reducing(s, j)
           t == ReduceTask(j)
           M == L \cup {t}
<1>0. s \in States
  BY DEF Sound
<1>1. x \in States /\ IsReducing(s, x, j)
  BY <1>0, ReducingEffect
<1> HIDE DEF x
<1>2. t \in Tasks /\ JobOf(t) = j
  BY TaskNames
<1> HIDE DEF t
<1>3. /\ SameWork(s, x) /\ SameNodes(s, x) /\ SameLinks(s, x) /\ x.holder = s.holder
      /\ x.jobStatus[j] = "reducing" /\ \A i \in Jobs \ {j} : x.jobStatus[i] = s.jobStatus[i]
      /\ x.status[t] = "planned" /\ \A r \in Tasks \ {t} : x.status[r] = s.status[r]
  BY <1>0, <1>1, <1>2 DEF IsReducing, States, t
<1>4. s.jobStatus[j] \in Live
  <2>1. PICK r \in MapTasks(j) : s.status[r] = "completed"
    BY DEF Succeeded
  <2>2. r \in Tasks /\ JobOf(r) = j
    BY TaskNames
  <2>3. s.jobStatus[j] # "none"
    BY <2>1, <2>2 DEF Sound, AbsentSound
  <2> QED BY <1>0, <2>3 DEF States, JobStatuses, Ended, Terminal, Live
<1>5. Tracked(s, t) /\ s.status[t] = "absent" /\ s.holder[t] = None
  BY <1>2, <1>4 DEF Tracked, Live, t, Sound, AbsentSound
<1>6. LedgerOf(s, L, A, w, t) /\ FlightOf(s, L, w, t)
  BY <1>2, <1>5 DEF Tidy
<1>7. ~Queued(s, t) /\ t \notin L /\ \A n \in Nodes : ~Airborne(s, w, t, n)
  BY <1>5, <1>6 DEF LedgerOf, FlightOf, Waiting, InHand
<1>8. Moved(s, x, t)
  <2>1. Once(x.queues[JobOf(t)])
    BY <1>2, <1>3, <1>5 DEF Tidy, JobTidy, Tracked, SameWork
  <2> QED BY <1>2, <1>3, <1>4, <1>5, <2>1 DEF Moved, SameWork, Queued, Live
<1>9. LedgerOf(x, M, A, w, t)
  BY <1>2, <1>3, <1>5, <1>7 DEF LedgerOf, Queued, SameWork, Waiting, InHand, Live
<1>10. FlightOf(x, M, w, t)
  <2>1. \A n \in Nodes : Airborne(x, w, t, n) <=> Airborne(s, w, t, n)
    BY <1>3 DEF Airborne, Sent, SentAt, SameLinks
  <2> QED BY <1>7, <2>1 DEF FlightOf
<1>11. ExactOf(x, w)
  <2>1. \A n \in Nodes : Load(x, n) = Load(s, n)
    BY <1>3, <1>5, Numbers DEF Load
  <2>2. Busy(s) => Busy(x)
    BY <1>3, <2>1 DEF Busy, SameLinks, SameNodes
  <2>3. \A r \in Tasks : SamePhase(s, x, r)
    BY <1>2, <1>3, <1>5 DEF SamePhase, InHand
  <2>4. Turned(x, w)
    BY <1>0, <1>1, <1>3, <2>3, TurnedSame DEF Tidy, IsReducing, SameTries, SameNodes, SameLinks
  <2> QED BY <1>0, <1>1, <1>2, <1>8, <2>2, <2>4, ExactMoves DEF Tidy
<1>12. But(L, M, t) /\ A \ {t} \subseteq A
  BY DEF But
<1> HIDE DEF M
<1>13. Tidy(x, M, A, w)
  BY <1>0, <1>1, <1>2, <1>3, <1>8, <1>9, <1>10, <1>11, <1>12, TidyMove DEF SameLinks
<1> QED BY <1>7, <1>13 DEF x, M, t

LEMMA FinishTidy ==
  ASSUME NEW s, NEW E, Sound(s, E), NEW L, NEW A, NEW w, Tidy(s, L, A, w), NEW j \in Jobs
  PROVE  Tidy(MaybeFinish(s, j), L, A, w)
<1> DEFINE x == MaybeFinish(s, j)
           t == ReduceTask(j)
           r == Reducing(s, j)
           f == [s EXCEPT !.jobStatus[j] = "failed"]
<1>1. s \in States
  BY DEF Sound
<1>2. /\ x \in States
      /\ \/ x = s
         \/ /\ ~Ended(s, j) /\ ~MapPending(s, j)
            /\ \/ Succeeded(s, j) = {} /\ x = f
               \/ Succeeded(s, j) # {} /\ ~ReducePending(s, j) /\ x = Done(s, j)
               \/ /\ Succeeded(s, j) # {} /\ j \notin PipelineJobs
                  /\ s.status[t] = "absent" /\ StartsReduce(s, j, x)
  BY <1>1, FinishCases
<1>0. f \in States /\ JobMarked(s, f, j, "failed")
  BY <1>1, JobStatusEffect DEF JobStatuses
<1> SUFFICES Tidy(x, L, A, w)
  OBVIOUS
<1> HIDE DEF x, f
<1>3. ~MapPending(s, j) => \A k \in MapTasks(j) : s.status[k] \in Settled \cup {"absent"}
  BY DEF MapPending
<1>4. TasksOf(j) = MapTasks(j) \cup {t}
  BY TaskNames
<1>5. CASE ~Ended(s, j) /\ ~MapPending(s, j) /\ Succeeded(s, j) = {} /\ x = f
  <2>1. JobMarked(s, x, j, "failed")
    BY <1>0, <1>5
  <2>2. x.jobStatus[j] = "failed" /\ \A i \in Jobs \ {j} : x.jobStatus[i] = s.jobStatus[i]
    BY <1>1, <2>1 DEF JobMarked, States
  <2>3. s.status[t] = "absent"
    BY <1>5 DEF Tidy, JobTidy, Ended, Terminal
  <2>4. \A k \in TasksOf(j) : s.status[k] \in Settled \cup {"absent"}
    BY <1>3, <1>4, <1>5, <2>3
  <2>5. x.jobStatus[j] \in Settled /\ (x.jobStatus[j] = "completed" => Succeeded(s, j) # {})
    BY <2>2 DEF Settled
  <2>6. SameTasks(s, x) /\ SameTries(s, x) /\ SameNodes(s, x) /\ SameLinks(s, x) /\ SameWork(s, x)
    BY <2>1 DEF JobMarked
  <2> QED BY <1>1, <1>2, <1>5, <2>2, <2>4, <2>5, <2>6, EndedTidy
<1>6. CASE ~Ended(s, j) /\ ~MapPending(s, j) /\ Succeeded(s, j) # {} /\ ~ReducePending(s, j) /\ x = Done(s, j)
  <2>1. JobDone(s, x, j)
    BY <1>1, <1>6, DoneEffect
  <2>2. x.jobStatus[j] = "completed" /\ \A i \in Jobs \ {j} : x.jobStatus[i] = s.jobStatus[i]
    BY <1>1, <2>1 DEF JobDone, States
  <2>3. s.status[t] \in Settled \cup {"absent"}
    BY <1>6 DEF ReducePending
  <2>4. \A k \in TasksOf(j) : s.status[k] \in Settled \cup {"absent"}
    BY <1>3, <1>4, <1>6, <2>3
  <2>5. x.jobStatus[j] \in Settled /\ Succeeded(s, j) # {}
    BY <1>6, <2>2 DEF Settled
  <2>6. SameTasks(s, x) /\ SameTries(s, x) /\ SameNodes(s, x) /\ SameLinks(s, x) /\ SameWork(s, x)
    BY <2>1 DEF JobDone
  <2> QED BY <1>1, <1>2, <1>6, <2>2, <2>4, <2>5, <2>6, EndedTidy
<1>7. CASE ~Ended(s, j) /\ Succeeded(s, j) # {} /\ s.status[t] = "absent" /\ StartsReduce(s, j, x)
  <2> DEFINE M == L \cup {t}
  <2>1. Tidy(r, M, A, w) /\ t \notin L
    BY <1>7, ReducingTidy
  <2>2. t \in Tasks /\ JobOf(t) = j
    BY TaskNames
  <2>0. r \in States /\ IsReducing(s, r, j)
    BY <1>1, ReducingEffect
  <2> HIDE DEF r
  <2>3. /\ r.status[t] = "planned" /\ r.holder = s.holder /\ SameNodes(s, r) /\ SameWork(s, r)
        /\ r.jobStatus[j] = "reducing"
    BY <1>1, <2>0, <2>2 DEF IsReducing, States
  <2>4. s.holder[t] = None
    BY <1>7, <2>2 DEF Sound, AbsentSound
  <2> HIDE DEF t
  <2>5. PICK n \in s.registered : \/ n \in open /\ x = Assign(r, t, n)
                                  \/ x = Reassign(r, t, n)
    BY <1>7 DEF StartsReduce, r, t
  <2>6. n \in Nodes /\ n \in r.registered /\ Unique(r.queues[JobOf(t)])
    BY <1>1, <2>2, <2>3 DEF States, SameNodes, SameWork, Sound, QueuesSound, QueueSound
  <2>7. Tracked(r, t) /\ t \in M /\ M \ {t} = L
    BY <2>1, <2>2, <2>3 DEF Tracked
  <2> HIDE DEF M
  <2>8. n \in open => Tidy(Assign(r, t, n), L, A, w)
    <3>1. n \in open => Tidy(Assign(r, t, n), M \ {t}, A, w)
      BY <2>0, <2>1, <2>2, <2>3, <2>6, <2>7, AssignTidy DEF Waiting
    <3> QED BY <2>7, <3>1
  <2>9. Tidy(Reassign(r, t, n), L, A, w)
    <3> DEFINE y == Reassign(r, t, n)
    <3>1. Tidy(y, M \ {t}, A \ {t}, w)
      BY <2>0, <2>1, <2>2, <2>3, <2>4, <2>6, <2>7, ReassignTidy DEF InHand
    <3> HIDE DEF y
    <3>2. Tidy(y, L, A \ {t}, w)
      BY <2>7, <3>1
    <3>3. Tidy(y, L, A, w)
      BY <3>2, TidyWiden
    <3> QED BY <3>3 DEF y
  <2> QED BY <2>5, <2>8, <2>9
<1> QED BY <1>2, <1>5, <1>6, <1>7

\* Replanning drops a queue that holds nothing but the pipeline's only task, now in hand.
LEMMA ReplannedTidy ==
  ASSUME NEW s, NEW E, Sound(s, E), NEW L, NEW A, NEW w, Tidy(s, L, A, w), NEW j \in PipelineJobs,
         Tracked(s, <<j, 1>>) => <<j, 1>> \in L
  PROVE  Tidy(Replanned(s, j), L, A, w)
<1> DEFINE x == Replanned(s, j)
           t == <<j, 1>>
<1>1. s \in States /\ j \in Jobs /\ t \in Tasks /\ JobOf(t) = j
  <2>1. j \in Jobs /\ t \in TasksOf(j)
    BY TaskNumbers
  <2> QED BY <2>1, TaskNames DEF Sound
<1>2. x \in States /\ IsReplanned(s, x, j)
  BY <1>1, ReplannedEffect
<1> HIDE DEF x
<1>3. /\ SameJobs(s, x) /\ SameTasks(s, x) /\ SameNodes(s, x) /\ SameLinks(s, x)
      /\ x.queues[j] = <<>> /\ \A i \in Jobs \ {j} : x.queues[i] = s.queues[i]
  BY <1>1, <1>2 DEF IsReplanned, States
<1>4. Once(<<>>) /\ \A r : ~In(<<>>, r)
  <2>1. DOMAIN <<>> = {}
    OBVIOUS
  <2> QED BY <2>1 DEF Once, In, At
<1>5. \A r \in Tasks : JobOf(r) = j /\ Queued(s, r) => r = t
  <2> SUFFICES ASSUME NEW r \in Tasks, JobOf(r) = j, Queued(s, r) PROVE r = t
    OBVIOUS
  <2>1. PICK i, k : At(s.queues[j], i, k, r)
    BY DEF Queued, In
  <2>2. s.status[r] # "absent"
    BY <1>1, <2>1 DEF At, Sound, QueuesSound, QueueSound, Known
  <2>3. s.status[ReduceTask(j)] = "absent"
    BY <1>1 DEF Sound, PipelinesSound
  <2>4. r \in {<<j, 1>>, ReduceTask(j)}
    BY TaskNames, TaskNumbers
  <2> QED BY <2>2, <2>3, <2>4
<1>6. Moved(s, x, t)
  <2>1. \A r \in Tasks \ {t} : Queued(x, r) <=> Queued(s, r)
    BY <1>3, <1>4, <1>5, TaskNames DEF Queued
  <2> QED BY <1>1, <1>3, <1>4, <2>1 DEF Moved, SameJobs, SameTasks
<1>7. Tracked(s, t) => LedgerOf(x, L, A, w, t) /\ FlightOf(x, L, w, t)
  <2> SUFFICES ASSUME Tracked(s, t) PROVE LedgerOf(x, L, A, w, t) /\ FlightOf(x, L, w, t)
    OBVIOUS
  <2>1. LedgerOf(s, L, A, w, t)
    BY <1>1 DEF Tidy
  <2>2. FlightOf(x, L, w, t)
    BY <1>1, <1>3, Grounded DEF SameLinks
  <2> QED BY <1>1, <1>3, <1>4, <2>1, <2>2 DEF LedgerOf, SameJobs, SameTasks, SameNodes, Queued
<1>8. ExactOf(x, w)
  <2>1. \A n \in Nodes : Load(x, n) = Load(s, n)
    BY <1>3 DEF Load, SameTasks
  <2>2. Busy(s) => Busy(x)
    BY <1>3, <2>1 DEF Busy, SameLinks, SameNodes
  <2>3. Turned(x, w)
    BY <1>1, <1>2, <1>3, TurnedSame
       DEF Tidy, IsReplanned, SameTries, SameTasks, SameNodes, SameLinks, SamePhase
  <2> QED BY <1>1, <1>2, <1>6, <2>2, <2>3, ExactMoves DEF Tidy
<1>9. But(L, L, t) /\ A \ {t} \subseteq A
  BY DEF But
<1> HIDE DEF t
<1>10. Tidy(x, L, A, w)
  BY <1>1, <1>2, <1>3, <1>6, <1>7, <1>8, <1>9, TidyMove DEF SameLinks
<1> QED BY <1>10 DEF x

\* requeue gets a task off the handler's hands, wherever it goes.
LEMMA RequeueTidy ==
  ASSUME NEW s, NEW E \in [Jobs -> SUBSET Nodes], Sound(s, E), NEW L, NEW A, NEW w, Tidy(s, L, A, w),
         NEW t \in Tasks, s.status[t] # "absent", Tracked(s, t) => t \in L, w.watch => t \in w.loose
  PROVE  Tidy(Requeue(s, t), L \ {t}, A \ {t}, w)
<1> DEFINE x == Requeue(s, t)
           f == Freed(s, t)
           g == GivenUp(s, t)
           j == JobOf(t)
           p == Replanned(f, j)
           M == L \ {t}
           B == A \ {t}
<1>1. s \in States /\ j \in Jobs /\ t \in TasksOf(j)
  BY TaskNames DEF Sound
<1>2. f \in States /\ IsFreed(s, f, t) /\ Sound(f, E) /\ Tidy(f, L, A, w)
  BY <1>1, FreedEffect, FreedSound, FreedTidy
<1>3. Sound(g, E)
  BY GivenUpSound
<1>4. \/ x = MaybeFinish(g, j)
      \/ ~Exhausted(f, t) /\ \E n \in f.registered : x = Reassign(f, t, n)
      \/ /\ ~Exhausted(f, t) /\ s.members[j] # {} /\ PlanPipeline(f) # {}
         /\ x = Reassign(p, t, First(PlanPipeline(f)))
  BY <1>1, RequeueCases
<1>5. g = [f EXCEPT !.status[t] = "failed"]
  BY DEF GivenUp
<1>6. /\ f.status[t] # "absent" /\ f.holder[t] = None /\ f.registered \subseteq Nodes
      /\ Unique(f.queues[j]) /\ (Tracked(f, t) => t \in L) /\ f.members = s.members
  BY <1>1, <1>2 DEF IsFreed, SameWork, SameJobs, States, Tracked, Sound, QueuesSound, QueueSound
<1> SUFFICES Tidy(x, M, B, w)
  OBVIOUS
<1> HIDE DEF x, f
<1>7. Tidy(g, M, B, w)
  BY <1>2, <1>5, <1>6, FailedTidy, SMTT(40)
<1>8. Tidy(MaybeFinish(g, j), M, B, w)
  <2> HIDE DEF g, M, B
  <2> QED BY <1>1, <1>3, <1>7, FinishTidy
<1>9. ~Exhausted(f, t) => \A n \in f.registered : Tidy(Reassign(f, t, n), M, B, w)
  BY <1>2, <1>6, ReassignTidy
<1>10. ASSUME ~Exhausted(f, t), s.members[j] # {}, PlanPipeline(f) # {}
       PROVE  Tidy(Reassign(p, t, First(PlanPipeline(f))), M, B, w)
  <2>1. j \in PipelineJobs /\ t = <<j, 1>>
    <3>1. j \in PipelineJobs
      BY <1>10, PipelineTask
    <3>2. f.status[ReduceTask(j)] = "absent"
      BY <1>1, <1>2, <3>1 DEF Sound, PipelinesSound
    <3>3. t \in {<<j, 1>>, ReduceTask(j)}
      BY <1>1, <3>1, TaskNumbers
    <3> QED BY <1>6, <3>1, <3>2, <3>3
  <2>2. Tidy(p, L, A, w)
    BY <1>2, <1>6, <2>1, ReplannedTidy
  <2>3. p \in States /\ IsReplanned(f, p, j)
    BY <1>1, <1>2, ReplannedEffect
  <2> HIDE DEF p
  <2>4. p.queues[j] = <<>> /\ p.holder[t] = None /\ (Tracked(p, t) => t \in L) /\ ~Exhausted(p, t)
    BY <1>1, <1>2, <1>6, <1>10, <2>3
       DEF IsReplanned, SameTasks, SameTries, SameJobs, States, Tracked, Exhausted
  <2>5. Unique(p.queues[j])
    BY <2>4 DEF Unique
  <2>6. First(PlanPipeline(f)) \in Nodes
    BY <1>2, <1>6, <1>10, Views, FirstNode
  <2> QED BY <2>2, <2>3, <2>4, <2>5, <2>6, ReassignTidy
<1> QED BY <1>4, <1>8, <1>9, <1>10

LEMMA TakenTidy ==
  ASSUME NEW s \in States, NEW L, NEW A, NEW w, Tidy(s, L, A, w), NEW j \in Jobs, s.jobStatus[j] # "cancelled",
         NEW t \in Tasks, JobOf(t) = j, NEW q, Taken(s.queues[j], q, t),
         NEW x \in States, WithQueue(s, x, j, q)
  PROVE  /\ Tidy(x, L \cup {t}, A, w)
         /\ t \notin L /\ Tracked(x, t) /\ x.status[t] \in Waiting
<1> DEFINE M == L \cup {t}
<1>1. /\ SameJobs(s, x) /\ SameTasks(s, x) /\ SameNodes(s, x) /\ SameLinks(s, x)
      /\ x.queues[j] = q /\ \A i \in Jobs \ {j} : x.queues[i] = s.queues[i]
  BY DEF WithQueue, States
<1>2. Tracked(s, t) /\ Tracked(x, t)
  BY <1>1 DEF Tracked, SameJobs
<1>3. LedgerOf(s, L, A, w, t) /\ FlightOf(s, L, w, t) /\ Once(s.queues[j])
  BY <1>2 DEF Tidy, JobTidy
<1>4. /\ Queued(s, t) /\ \A r : r # t => (In(q, r) <=> In(s.queues[j], r))
      /\ Once(q) /\ ~In(q, t)
  BY <1>3 DEF Taken, Queued
<1>5. s.status[t] \in Waiting /\ t \notin L
  BY <1>3, <1>4 DEF LedgerOf
<1>6. Moved(s, x, t)
  <2>1. \A r \in Tasks \ {t} : Queued(x, r) <=> Queued(s, r)
    BY <1>1, <1>4, TaskNames DEF Queued
  <2> QED BY <1>1, <1>4, <2>1 DEF Moved, SameJobs, SameTasks
<1>7. LedgerOf(x, M, A, w, t)
  BY <1>1, <1>3, <1>4, <1>5 DEF LedgerOf, SameJobs, SameTasks, SameNodes, Queued
<1>8. FlightOf(x, M, w, t)
  <2>1. \A n \in Nodes : ~Airborne(s, w, t, n)
    BY <1>3, <1>5 DEF FlightOf, Waiting, InHand
  <2>2. \A n \in Nodes : Airborne(x, w, t, n) <=> Airborne(s, w, t, n)
    BY <1>1 DEF Airborne, Sent, SentAt, SameLinks
  <2> QED BY <2>1, <2>2 DEF FlightOf
<1>9. ExactOf(x, w)
  <2>1. \A n \in Nodes : Load(x, n) = Load(s, n)
    BY <1>1 DEF Load, SameTasks
  <2>2. Busy(s) => Busy(x)
    BY <1>1, <2>1 DEF Busy, SameLinks, SameNodes
  <2>3. Turned(x, w)
    BY <1>1, TurnedSame DEF Tidy, WithQueue, SameTries, SameTasks, SameNodes, SameLinks, SamePhase
  <2> QED BY <1>6, <2>2, <2>3, ExactMoves DEF Tidy
<1>10. But(L, M, t) /\ A \ {t} \subseteq A
  BY DEF But
<1> HIDE DEF M
<1>11. Tidy(x, M, A, w)
  BY <1>1, <1>6, <1>7, <1>8, <1>9, <1>10, TidyMove DEF SameLinks
<1> QED BY <1>1, <1>2, <1>5, <1>11 DEF M, SameTasks

LEMMA HandsOutTidy ==
  ASSUME NEW s, NEW E \in [Jobs -> SUBSET Nodes], Sound(s, E), NEW L, NEW A, NEW w, Tidy(s, L, A, w),
         NEW j \in Jobs, s.jobStatus[j] # "cancelled", w.watch => E[j] = {}, NEW x, HandsOut(s, j, x)
  PROVE  Tidy(x, L, A, w)
<1>1. ASSUME NEW i \in DOMAIN s.queues[j], NEW t \in Tasks, NEW q, Taken(s.queues[j], q, t),
             x = Dispatch([s EXCEPT !.queues[j] = q], t, s.queues[j][i].node)
      PROVE  Tidy(x, L, A, w)
  <2> DEFINE n == s.queues[j][i].node
             y == [s EXCEPT !.queues[j] = q]
             M == L \cup {t}
  <2>1. /\ Sound(y, E) /\ y \in States /\ WithQueue(s, y, j, q)
        /\ JobOf(t) = j /\ s.status[t] # "absent" /\ s \in States
    BY <1>1, TakenSound DEF Sound
  <2>2. x = Dispatch(y, t, n)
    BY <1>1
  <2> HIDE DEF y, n
  <2>3. Tidy(y, M, A, w) /\ t \notin L /\ Tracked(y, t) /\ y.status[t] \in Waiting
    BY <1>1, <2>1, TakenTidy
  <2>4. t \in M /\ M \ {t} = L
    BY <2>3
  <2> HIDE DEF M
  <2>5. CASE n \in y.registered \cap open
    <3>1. Tidy(Assign(y, t, n), M \ {t}, A, w)
      BY <2>1, <2>3, <2>4, <2>5, AssignTidy
    <3> QED BY <2>2, <2>4, <2>5, <3>1 DEF Dispatch
  <2>6. CASE n \notin y.registered \cap open
    <3>1. y.status[t] # "absent"
      BY <2>3 DEF Waiting
    <3>0. ~w.watch
      <4>1. LedgerOf(y, M, A, w, t) /\ y.jobStatus[j] \in Live
        BY <2>1, <2>3, <2>4 DEF Tidy, LedgerOf, Waiting, Settled
      <4>2. y.queues[j] = q /\ q \in Seq(Entries) /\ DOMAIN q = DOMAIN s.queues[j] /\ q[i].node = n
        BY <1>1, <2>1 DEF WithQueue, Taken, n, States
      <4>3. n \in y.registered \cup E[j]
        BY <2>1, <4>1, <4>2 DEF Sound, QueuesSound, QueueSound
      <4> QED BY <2>3, <2>6, <4>3 DEF Tidy, ExactOf, Turned
    <3>2. Tidy(Requeue(y, t), M \ {t}, A \ {t}, w)
      BY <2>1, <2>3, <2>4, <3>0, <3>1, RequeueTidy
    <3>3. x = Requeue(y, t)
      BY <2>2, <2>6 DEF Dispatch
    <3>4. Tidy(x, L, A \ {t}, w)
      BY <2>4, <3>2, <3>3
    <3> QED BY <3>4, TidyWiden
  <2> QED BY <2>5, <2>6
<1> QED BY <1>1 DEF HandsOut

LEMMA PumpTidy ==
  ASSUME NEW s, NEW E \in [Jobs -> SUBSET Nodes], Sound(s, E), NEW L, NEW A, NEW w, Tidy(s, L, A, w),
         NEW j \in Jobs, w.watch => E[j] = {}
  PROVE  Tidy(Pump(s, j), L, A, w)
<1> DEFINE G == {x \in Sounds(s, E) : Tidy(x, L, A, w)}
           y == Steal(Feed(s, j), j)
<1>1. CASE s.jobStatus[j] \notin Live
  BY <1>1 DEF Pump
<1>2. CASE s.jobStatus[j] \in Live
  <2>1. G \in SUBSET States /\ s \in G
    BY KeptSelf DEF Sound, Sounds
  <2>2. \A x \in G : Unique(x.queues[j])
    BY DEF Sounds, Sound, QueuesSound, QueueSound
  <2>3. j \notin w.cancelled
    BY <1>2 DEF Tidy, CancelledOf, Live
  <2>4. ASSUME NEW x \in G, NEW z, HandsOut(x, j, z) PROVE z \in G
    <3>1. Sound(x, E) /\ Kept(s, x) /\ Tidy(x, L, A, w)
      BY DEF Sounds
    <3>2. x.jobStatus[j] # "cancelled"
      BY <2>3, <3>1 DEF Tidy, CancelledOf
    <3>3. Sound(z, E) /\ Kept(x, z) /\ Tidy(z, L, A, w)
      BY <2>4, <3>1, <3>2, HandsOutSound, HandsOutTidy
    <3> QED BY <3>1, <3>3, KeptTransitive DEF Sounds, Sound
  <2>5. y \in G
    <3> HIDE DEF G
    <3> QED BY <2>1, <2>2, <2>4, PumpLoop
  <2> HIDE DEF y
  <2>6. Tidy(MaybeFinish(y, j), L, A, w)
    BY <2>5, FinishTidy DEF Sounds
  <2> QED BY <1>2, <2>6 DEF Pump, y
<1> QED BY <1>1, <1>2

-----------------------------------------------------------------------------
(* A lost node's list is moved, or its tasks are requeued.                   *)

Listed(ts, r) == \E k \in DOMAIN ts : ts[k] = r
Distinct(ts) == \A i, k \in DOMAIN ts : ts[i] = ts[k] => i = k

\* Without the list of n, the queue holds what was not on that list.
Detaches(q, x, lost) ==
  /\ \A r : In(x, r) => In(q, r)
  /\ \A r : In(q, r) => In(x, r) \/ Listed(lost, r)
  /\ \A r : Listed(lost, r) => In(q, r)
  /\ Once(q) => /\ Once(x) /\ Distinct(lost)
                /\ \A r : In(x, r) => ~Listed(lost, r)
LEMMA DeleteTasks ==
  ASSUME NEW q \in Seq(Entries), Unique(q), NEW n \in Nodes
  PROVE  Detaches(q, Delete(q, n), Lookup(q, n))
<1> DEFINE x == Delete(q, n)
           lost == Lookup(q, n)
<1>1. CASE HasKey(q, n)
  <2> DEFINE p == KeyAt(q, n)
             from(i) == IF i < p THEN i ELSE i + 1
             to(i) == IF i < p THEN i ELSE i - 1
  <2>1. /\ x \in Seq(Entries) /\ Len(x) = Len(q) - 1
        /\ \A i \in DOMAIN x : x[i] = IF i < p THEN q[i] ELSE q[i + 1]
    BY <1>1, DeleteEffect
  <2>2. p \in DOMAIN q /\ lost = q[p].tasks
    BY <1>1, LookupEffect
  <2> HIDE DEF x, p, lost
  <2>3. DOMAIN q = 1..Len(q) /\ DOMAIN x = 1..(Len(q) - 1) /\ Len(q) \in Nat
    BY <2>1
  <2>4. \A i \in DOMAIN x : from(i) \in DOMAIN q \ {p} /\ x[i] = q[from(i)]
    BY <2>1, <2>2, <2>3
  <2>5. \A i, l \in DOMAIN x : from(i) = from(l) => i = l
    BY <2>2, <2>3
  <2>6. \A i \in DOMAIN q \ {p} : to(i) \in DOMAIN x /\ from(to(i)) = i
    BY <2>2, <2>3
  <2> HIDE DEF from, to
  <2>7. \A i, k, r : At(x, i, k, r) <=> i \in DOMAIN x /\ At(q, from(i), k, r)
    BY <2>4 DEF At
  <2>8. \A k, r : At(q, p, k, r) <=> k \in DOMAIN lost /\ lost[k] = r
    BY <2>2 DEF At
  <2>9. \A r : In(x, r) => \E i, k : i # p /\ At(q, i, k, r)
    BY <2>4, <2>7 DEF In
  <2>10. ASSUME NEW r, In(q, r) PROVE In(x, r) \/ Listed(lost, r)
    <3>1. PICK i, k : At(q, i, k, r)
      BY <2>10 DEF In
    <3>2. i \in DOMAIN q
      BY <3>1 DEF At
    <3>3. CASE i = p
      BY <2>8, <3>1, <3>3 DEF Listed
    <3>4. CASE i # p
      <4>1. At(x, to(i), k, r)
        BY <2>6, <2>7, <3>1, <3>2, <3>4
      <4> QED BY <4>1 DEF In
    <3> QED BY <3>3, <3>4
  <2>11. \A r : Listed(lost, r) => \E k : At(q, p, k, r)
    BY <2>8 DEF Listed
  <2>12. ASSUME Once(q) PROVE Once(x) /\ Distinct(lost) /\ \A r : In(x, r) => ~Listed(lost, r)
    <3>1. Once(x)
      <4> SUFFICES ASSUME NEW r, NEW i, NEW k, NEW l, NEW m, At(x, i, k, r), At(x, l, m, r)
                   PROVE  i = l /\ k = m
        BY DEF Once
      <4>1. i \in DOMAIN x /\ l \in DOMAIN x /\ At(q, from(i), k, r) /\ At(q, from(l), m, r)
        BY <2>7
      <4>2. from(i) = from(l) /\ k = m
        BY <2>12, <4>1 DEF Once
      <4> QED BY <2>5, <4>1, <4>2
    <3>2. Distinct(lost)
      BY <2>8, <2>12 DEF Distinct, Once
    <3>3. \A r : In(x, r) => ~Listed(lost, r)
      BY <2>9, <2>11, <2>12 DEF Once
    <3> QED BY <3>1, <3>2, <3>3
  <2>13. \A r : In(x, r) => In(q, r)
    BY <2>9 DEF In
  <2>14. \A r : Listed(lost, r) => In(q, r)
    BY <2>11 DEF In
  <2>15. Detaches(q, x, lost)
    BY <2>10, <2>12, <2>13, <2>14 DEF Detaches
  <2> QED BY <2>15 DEF x, lost
<1>2. CASE ~HasKey(q, n)
  <2>1. x = q /\ lost = <<>>
    BY <1>2, DeleteEffect, LookupEffect
  <2>2. DOMAIN <<>> = {}
    OBVIOUS
  <2>3. Detaches(q, q, <<>>)
    BY <2>2 DEF Detaches, Listed, Distinct
  <2> QED BY <2>1, <2>3
<1> QED BY <1>1, <1>2

\* The list is put behind the first one.
LEMMA JoinTasks ==
  ASSUME NEW q \in Seq(Entries), Unique(q), q # <<>>, NEW lost \in Seq(Tasks)
  PROVE  LET x == Put(q, q[1].node, q[1].tasks \o lost) IN
         /\ x \in Seq(Entries)
         /\ \A r : In(x, r) <=> In(q, r) \/ Listed(lost, r)
         /\ Once(q) /\ Distinct(lost) /\ (\A r : In(q, r) => ~Listed(lost, r)) => Once(x)
<1> DEFINE n == q[1].node
           a == q[1].tasks
           ts == a \o lost
           x == Put(q, n, ts)
           la == Len(a)
           ll == Len(lost)
<1>1. 1 \in DOMAIN q
  OBVIOUS
<1>2. n \in Nodes /\ a \in Seq(Tasks)
  BY <1>1, EntryOf
<1> HIDE DEF a
<1>3. /\ ts \in Seq(Tasks) /\ DOMAIN ts = 1..(la + ll) /\ la \in Nat /\ ll \in Nat
      /\ DOMAIN a = 1..la /\ DOMAIN lost = 1..ll
      /\ \A k \in 1..la : ts[k] = a[k]
      /\ \A k \in 1..ll : ts[k + la] = lost[k]
  BY <1>2
<1>4. \A k \in DOMAIN ts : k \in 1..la \/ (k - la \in 1..ll /\ ts[k] = lost[k - la])
  <2> SUFFICES ASSUME NEW k \in DOMAIN ts, k \notin 1..la PROVE k - la \in 1..ll /\ ts[k] = lost[k - la]
    OBVIOUS
  <2>1. k - la \in 1..ll /\ (k - la) + la = k
    BY <1>3
  <2> QED BY <1>3, <2>1
<1> HIDE DEF ts, la, ll
<1>5. PICK p : SetAt(q, x, p, n, ts)
  BY <1>2, <1>3, PutEffect
<1>6. x \in Seq(Entries)
  BY <1>2, <1>3, PutEffect
<1> HIDE DEF x
<1>7. p = 1
  BY <1>1, <1>5 DEF SetAt
<1>8. /\ DOMAIN x = DOMAIN q /\ x[1].tasks = ts
      /\ \A i \in DOMAIN q \ {1} : x[i] = q[i]
  <2>1. DOMAIN x = DOMAIN q \cup {1} /\ x[1] = [node |-> n, tasks |-> ts]
    BY <1>5, <1>7 DEF SetAt
  <2>2. \A i \in DOMAIN q \ {1} : x[i] = q[i]
    BY <1>5, <1>7 DEF SetAt
  <2>3. DOMAIN x = DOMAIN q
    BY <1>1, <2>1
  <2>4. x[1].tasks = ts
    BY <2>1
  <2> QED BY <2>2, <2>3, <2>4
<1>9. \A i, k, r : i # 1 => (At(x, i, k, r) <=> At(q, i, k, r))
  BY <1>8 DEF At
<1>10. \A k, r : At(x, 1, k, r) <=> k \in DOMAIN ts /\ ts[k] = r
  BY <1>1, <1>8 DEF At
<1>11. \A k, r : At(q, 1, k, r) <=> k \in 1..la /\ a[k] = r
  BY <1>1, <1>3 DEF At, a
<1>12. \A k, r : At(x, 1, k, r) => At(q, 1, k, r) \/ (k - la \in 1..ll /\ lost[k - la] = r /\ k \in DOMAIN ts)
  BY <1>3, <1>4, <1>10, <1>11
<1>13. ASSUME NEW r, In(x, r) PROVE In(q, r) \/ Listed(lost, r)
  <2>1. PICK i, k : At(x, i, k, r)
    BY <1>13 DEF In
  <2> QED BY <2>1, <1>3, <1>9, <1>12 DEF In, Listed
<1>14. ASSUME NEW r, In(q, r) PROVE In(x, r)
  <2>1. PICK i, k : At(q, i, k, r)
    BY <1>14 DEF In
  <2>2. i = 1 => At(x, i, k, r)
    <3>1. k \in 1..la => k \in DOMAIN ts /\ ts[k] = a[k]
      BY <1>3
    <3> QED BY <2>1, <3>1, <1>10, <1>11
  <2> QED BY <2>1, <2>2, <1>9 DEF In
<1>15. ASSUME NEW r, Listed(lost, r) PROVE In(x, r)
  <2>1. PICK k \in 1..ll : lost[k] = r
    BY <1>3, <1>15 DEF Listed
  <2>2. k + la \in DOMAIN ts /\ ts[k + la] = r
    BY <1>3, <2>1
  <2>3. At(x, 1, k + la, r)
    BY <1>10, <2>2
  <2> QED BY <2>3 DEF In
<1>16. ASSUME Once(q), Distinct(lost), \A r : In(q, r) => ~Listed(lost, r)
       PROVE  Once(x)
  <2> SUFFICES ASSUME NEW r, NEW i, NEW k, NEW l, NEW m, At(x, i, k, r), At(x, l, m, r)
               PROVE  i = l /\ k = m
    BY DEF Once
  <2>1. CASE Listed(lost, r)
    <3>1. \A b, c : ~At(q, b, c, r)
      BY <1>16, <2>1 DEF In
    <3>2. i = 1 /\ l = 1
      BY <1>9, <3>1
    <3>3. /\ k - la \in 1..ll /\ lost[k - la] = r /\ k \in DOMAIN ts
          /\ m - la \in 1..ll /\ lost[m - la] = r /\ m \in DOMAIN ts
      BY <1>12, <3>1, <3>2
    <3>4. k - la = m - la
      BY <1>3, <1>16, <3>3 DEF Distinct
    <3>5. k \in Int /\ m \in Int
      BY <1>3, <3>3
    <3> QED BY <1>3, <3>2, <3>4, <3>5
  <2>2. CASE ~Listed(lost, r)
    <3>1. \A b, c : At(x, b, c, r) => At(q, b, c, r)
      BY <1>3, <1>9, <1>12, <2>2 DEF Listed
    <3> QED BY <1>16, <3>1 DEF Once
  <2> QED BY <2>1, <2>2
<1> QED BY <1>6, <1>13, <1>14, <1>15, <1>16 DEF x, n, ts, a

\* Tasks that leave a queue are in the handler's hands.
LEMMA DetachedTidy ==
  ASSUME NEW s \in States, NEW A, NEW w, Tidy(s, {}, A, w), NEW j \in Jobs, s.jobStatus[j] # "cancelled",
         NEW q, NEW x \in States, WithQueue(s, x, j, q),
         \A r : In(q, r) => In(s.queues[j], r), Once(s.queues[j]) => Once(q),
         NEW L, L = {r \in Tasks : In(s.queues[j], r) /\ ~In(q, r)},
         \A r \in L : JobOf(r) = j
  PROVE  Tidy(x, L, A, w)
<1>1. /\ SameJobs(s, x) /\ SameTasks(s, x) /\ SameNodes(s, x) /\ SameLinks(s, x)
      /\ x.queues[j] = q /\ \A i \in Jobs \ {j} : x.queues[i] = s.queues[i]
  BY DEF WithQueue, States
<1>2. \A r \in Tasks : /\ Tracked(x, r) <=> Tracked(s, r)
                       /\ Queued(x, r) => Queued(s, r)
                       /\ r \in L => Queued(s, r) /\ ~Queued(x, r)
                       /\ Queued(s, r) => Queued(x, r) \/ r \in L
  BY <1>1, TaskNames DEF Tracked, Queued, SameJobs
<1>3. ASSUME NEW r \in Tasks, Tracked(x, r) PROVE LedgerOf(x, L, A, w, r) /\ FlightOf(x, L, w, r)
  <2>1. LedgerOf(s, {}, A, w, r) /\ FlightOf(s, {}, w, r)
    BY <1>2, <1>3 DEF Tidy
  <2>2. LedgerOf(x, L, A, w, r)
    BY <1>1, <1>2, <2>1 DEF LedgerOf, SameJobs, SameTasks, SameNodes
  <2>3. s.status[r] \in InHand => r \notin L
    BY <1>2, <2>1 DEF LedgerOf, Waiting, InHand
  <2>4. FlightOf(x, L, w, r)
    BY <1>1, <2>1, <2>3 DEF FlightOf, Airborne, Orderly, Sent, SentAt, SameTasks, SameNodes, SameLinks
  <2> QED BY <2>2, <2>4
<1>4. ASSUME NEW i \in Jobs PROVE JobTidy(x, i)
  <2>1. JobTidy(s, i) /\ Succeeded(x, i) = Succeeded(s, i)
    BY <1>1 DEF Tidy, Succeeded, SameTasks
  <2> QED BY <1>1, <2>1 DEF JobTidy, SameJobs, SameTasks
<1>5. CancelsStale(x)
  BY <1>1, <1>2, InboxTasks DEF Tidy, CancelsStale, SameLinks
<1>6. OneHand(x, w)
  BY <1>1 DEF Tidy, OneHand, Given, Sent, SentAt, SameLinks
<1>7. ExactOf(x, w) /\ CancelledOf(x, w)
  <2>1. \A n \in Nodes : Load(x, n) = Load(s, n)
    BY <1>1 DEF Load, SameTasks
  <2>2. Turned(x, w)
    BY <1>1, TurnedSame DEF Tidy, WithQueue, SameTries, SameTasks, SameNodes, SameLinks, SamePhase
  <2> QED BY <1>1, <2>1, <2>2 DEF Tidy, ExactOf, CancelledOf, Busy, NoneCancelled, SameNodes, SameLinks, SameJobs
<1> QED BY <1>3, <1>4, <1>5, <1>6, <1>7 DEF Tidy

LEMMA RequeueAllTidy ==
  ASSUME NEW s, NEW E \in [Jobs -> SUBSET Nodes], Sound(s, E), NEW ts \in Seq(Tasks), Distinct(ts),
         \A k \in DOMAIN ts : s.status[ts[k]] # "absent",
         NEW L, NEW A, NEW w, Tidy(s, L, A, w), L = {r \in Tasks : Listed(ts, r)},
         w.watch => \A k \in DOMAIN ts : ts[k] \in w.loose
  PROVE  Tidy(RequeueAll(s, ts), {}, A, w)
<1> DEFINE left(k) == L \ {ts[i] : i \in 1..k}
           S(k) == {x \in Sounds(s, E) : Tidy(x, left(k), A, w)}
           G == [k \in 0..Len(ts) |-> S(k)]
<1>1. Len(ts) \in Nat /\ DOMAIN ts = 1..Len(ts) /\ \A k \in 1..Len(ts) : k - 1 \in 0..Len(ts) /\ k \in 0..Len(ts)
  OBVIOUS
<1>2. \A k : S(k) \in SUBSET States
  BY DEF Sounds
<1>3. left(0) = L
  <2>1. 1..0 = {}
    OBVIOUS
  <2> QED BY <2>1
<1>4. s \in S(0)
  <2> HIDE DEF left
  <2> QED BY <1>3, KeptSelf DEF Sound, Sounds
<1>5. left(Len(ts)) = {}
  BY <1>1 DEF Listed
<1>6. ASSUME NEW k \in 1..Len(ts), NEW x \in S(k - 1) PROVE Requeue(x, ts[k]) \in S(k)
  <2> DEFINE t == ts[k]
             y == Requeue(x, t)
             M == left(k - 1)
  <2>1. Sound(x, E) /\ Kept(s, x) /\ Tidy(x, M, A, w)
    BY DEF Sounds
  <2>2. t \in Tasks /\ x.status[t] # "absent" /\ (w.watch => t \in w.loose)
    BY <1>1, <2>1 DEF Kept
  <2>3. t \in M
    <3>1. t \in L
      BY <1>1, <2>2 DEF Listed
    <3>2. \A i \in 1..(k - 1) : i \in DOMAIN ts /\ i # k
      BY <1>1
    <3>3. \A i \in 1..(k - 1) : ts[i] # t
      BY <1>1, <3>2 DEF Distinct
    <3> QED BY <3>1, <3>3
  <2>4. M \ {t} = left(k)
    <3>1. 1..k = 1..(k - 1) \cup {k}
      BY <1>1
    <3> QED BY <3>1
  <2> HIDE DEF M, left
  <2>5. Sound(y, E) /\ Kept(x, y)
    BY <2>1, <2>2, RequeueSound
  <2>6. Tidy(y, M \ {t}, A \ {t}, w)
    BY <2>1, <2>2, <2>3, RequeueTidy
  <2> HIDE DEF y, t
  <2>7. Tidy(y, left(k), A \ {t}, w)
    BY <2>4, <2>6
  <2>8. Tidy(y, left(k), A, w)
    BY <2>7, TidyWiden
  <2>9. Kept(s, y) /\ y \in States
    BY <2>1, <2>5, KeptTransitive DEF Sound
  <2>10. y \in S(k)
    BY <2>5, <2>8, <2>9 DEF Sounds
  <2> QED BY <2>10 DEF y, t
<1> HIDE DEF S
<1>7. G \in [0..Len(ts) -> SUBSET States] /\ \A k \in 0..Len(ts) : G[k] = S(k)
  BY <1>2
<1>8. 0 \in 0..Len(ts) /\ Len(ts) \in 0..Len(ts)
  BY <1>1
<1> HIDE DEF G
<1>9. s \in G[0] /\ \A k \in 1..Len(ts) : \A x \in G[k - 1] : Requeue(x, ts[k]) \in G[k]
  BY <1>1, <1>4, <1>6, <1>7, <1>8
<1>10. RequeueAll(s, ts) \in G[Len(ts)]
  BY <1>7, <1>9, RequeueLoop
<1>11. RequeueAll(s, ts) \in S(Len(ts))
  BY <1>7, <1>8, <1>10
<1> QED BY <1>5, <1>11 DEF S

\* A list taken off a sound queue, and the state without it.
LEMMA DetachSound ==
  ASSUME NEW s, NEW E \in [Jobs -> SUBSET Nodes], Sound(s, E), NEW j \in Jobs, NEW n \in Nodes
  PROVE  LET q == s.queues[j]
             d == Detached(s, j, n)
         IN /\ q \in Seq(Entries) /\ Unique(q) /\ Lookup(q, n) \in Seq(Tasks)
            /\ Delete(q, n) \in Seq(Entries) /\ Unique(Delete(q, n))
            /\ d \in States /\ WithQueue(s, d, j, Delete(q, n)) /\ Sound(d, E)
            /\ \A r : In(q, r) => r \in Tasks /\ JobOf(r) = j /\ s.status[r] # "absent"
<1> DEFINE q == s.queues[j]
           rest == Delete(q, n)
           d == Detached(s, j, n)
<1>1. s \in States /\ QueueSound(s, E, j, q) /\ q \in Seq(Entries) /\ Unique(q)
  BY DEF Sound, QueuesSound, QueueSound
<1> HIDE DEF q
<1>2. /\ rest \in Seq(Entries) /\ Unique(rest)
      /\ \A i \in DOMAIN rest : \E k \in DOMAIN q : rest[i] = q[k]
      /\ j \in PipelineJobs => rest = <<>> \/ rest = q
  <2>1. /\ rest \in Seq(Entries) /\ Unique(rest)
        /\ ~HasKey(q, n) => rest = q
        /\ HasKey(q, n) =>
              /\ Len(rest) = Len(q) - 1
              /\ \A i \in DOMAIN rest : rest[i] = IF i < KeyAt(q, n) THEN q[i] ELSE q[i + 1]
    BY <1>1, DeleteEffect
  <2> HIDE DEF rest
  <2>2. \A i \in DOMAIN rest : \E k \in DOMAIN q : rest[i] = q[k]
    <3>1. CASE HasKey(q, n)
      <4>1. \A i \in DOMAIN rest : i \in DOMAIN q /\ i + 1 \in DOMAIN q
        BY <1>1, <2>1, <3>1
      <4> QED BY <2>1, <3>1, <4>1
    <3> QED BY <2>1, <3>1
  <2>3. ASSUME j \in PipelineJobs, HasKey(q, n) PROVE rest = <<>>
    <3>1. Len(rest) = Len(q) - 1 /\ Len(q) \in Nat /\ Len(rest) \in Nat /\ DOMAIN q = 1..Len(q)
      BY <1>1, <2>1, <2>3
    <3>2. Len(q) <= 1
      BY <1>1, <2>3, <3>1 DEF QueueSound
    <3>3. Len(rest) = 0
      BY <3>1, <3>2
    <3> QED BY <2>1, <3>3
  <2> QED BY <2>1, <2>2, <2>3
<1> HIDE DEF rest
<1>3. QueueSound(s, E, j, rest)
  <2>1. DOMAIN <<>> = {}
    OBVIOUS
  <2> QED BY <1>1, <1>2, <2>1 DEF QueueSound
<1>4. d = [s EXCEPT !.queues[j] = rest]
  BY DEF Detached, rest, q
<1> HIDE DEF d
<1>5. Sound(d, E) /\ d \in States /\ WithQueue(s, d, j, rest)
  BY <1>1, <1>2, <1>3, <1>4, NewQueueSound, QueueEffect
<1>6. \A r : In(q, r) => r \in Tasks /\ JobOf(r) = j /\ s.status[r] # "absent"
  <2>1. \A r : In(q, r) => r \in TasksOf(j) /\ s.status[r] # "absent"
    BY <1>1 DEF QueueSound, Known, In, At
  <2> QED BY <2>1, TaskNames
<1>7. Lookup(q, n) \in Seq(Tasks)
  BY <1>1, LookupEffect
<1> QED BY <1>1, <1>2, <1>5, <1>6, <1>7 DEF d, q, rest

\* A watched loss may do as it likes with what waited and with what the lost node held.
LossWatched(w) == w.watch => \A t \in Tasks :
  Idle(w.start, t) \/ (w.start.status[t] \in InHand /\ w.start.holder[t] = w.lost) => t \in w.loose

LEMMA MoveQueueTidy ==
  ASSUME NEW s, NEW E \in [Jobs -> SUBSET Nodes], Sound(s, E), NEW j \in Jobs, NEW n \in Nodes,
         s.jobStatus[j] # "cancelled", NEW A, NEW w, Tidy(s, {}, A, w), LossWatched(w)
  PROVE  Tidy(MoveQueue(s, j, n), {}, A, w)
<1> DEFINE x == MoveQueue(s, j, n)
           q == s.queues[j]
           lost == Lookup(q, n)
           rest == Delete(q, n)
           d == Detached(s, j, n)
<1>1. /\ q \in Seq(Entries) /\ Unique(q) /\ lost \in Seq(Tasks)
      /\ rest \in Seq(Entries) /\ Unique(rest)
      /\ d \in States /\ WithQueue(s, d, j, rest) /\ Sound(d, E)
      /\ \A r : In(q, r) => r \in Tasks /\ JobOf(r) = j /\ s.status[r] # "absent"
  BY DetachSound
<1>2. Detaches(q, rest, lost)
  BY <1>1, DeleteTasks
<1>3. s \in States /\ Once(q)
  BY DEF Sound, Tidy, JobTidy
<1>4. /\ rest = <<>> => x = RequeueAll(d, lost)
      /\ rest # <<>> => x = [d EXCEPT !.queues[j] = Put(rest, rest[1].node, rest[1].tasks \o lost)]
  BY <1>3, MoveCases
<1> SUFFICES Tidy(x, {}, A, w)
  OBVIOUS
<1> HIDE DEF x, d, rest, lost
<1>5. CASE rest = <<>>
  <2> DEFINE L == {r \in Tasks : Listed(lost, r)}
  <2>1. L = {r \in Tasks : In(q, r) /\ ~In(rest, r)}
    BY <1>2, <1>3 DEF Detaches
  <2>2. \A r \in L : JobOf(r) = j
    BY <1>1, <2>1
  <2> HIDE DEF L, q
  <2>3. Tidy(d, L, A, w)
    BY <1>1, <1>2, <1>3, <2>1, <2>2, DetachedTidy DEF Detaches, q
  <2>4. Distinct(lost) /\ \A k \in DOMAIN lost : d.status[lost[k]] # "absent"
    <3>1. \A k \in DOMAIN lost : In(q, lost[k])
      BY <1>2 DEF Detaches, Listed
    <3> QED BY <1>1, <1>2, <1>3, <3>1 DEF Detaches, WithQueue, SameTasks
  <2>6. ASSUME w.watch, NEW k \in DOMAIN lost PROVE lost[k] \in w.loose
    <3> DEFINE r == lost[k]
    <3>1. In(q, r) /\ r \in Tasks /\ JobOf(r) = j
      BY <1>1, <1>2 DEF Detaches, Listed
    <3> HIDE DEF r
    <3>2. LedgerOf(s, {}, A, w, r) /\ TurnOf(w.start, s, w.loose, r) /\ Queued(s, r)
      BY <2>6, <3>1 DEF Tidy, ExactOf, Turned, Queued, q, Tracked
    <3>3. s.status[r] \in Waiting
      BY <3>2 DEF LedgerOf
    <3>4. SamePhase(w.start, s, r) => Idle(w.start, r)
      BY <3>3 DEF SamePhase, Idle, Waiting, InHand, Settled
    <3> QED BY <2>6, <3>1, <3>2, <3>3, <3>4 DEF TurnOf, Waiting, InHand, LossWatched, r
  <2>5. Tidy(RequeueAll(d, lost), {}, A, w)
    <3>1. w.watch => \A k \in DOMAIN lost : lost[k] \in w.loose
      BY <2>6
    <3> QED BY <1>1, <2>3, <2>4, <3>1, RequeueAllTidy DEF L
  <2> QED BY <1>4, <1>5, <2>5
<1>6. CASE rest # <<>>
  <2> DEFINE z == Put(rest, rest[1].node, rest[1].tasks \o lost)
  <2>1. /\ z \in Seq(Entries)
        /\ \A r : In(z, r) <=> In(rest, r) \/ Listed(lost, r)
        /\ Once(rest) /\ Distinct(lost) /\ (\A r : In(rest, r) => ~Listed(lost, r)) => Once(z)
    BY <1>1, <1>6, JoinTasks
  <2> HIDE DEF z
  <2>2. x = [d EXCEPT !.queues[j] = z]
    BY <1>4, <1>6 DEF z
  <2>3. x \in States /\ WithQueue(d, x, j, z)
    BY <1>1, <2>1, <2>2, QueueEffect
  <2>4. WithQueue(s, x, j, z)
    <3>1. WithQueue(s, d, j, rest) /\ WithQueue(d, x, j, z) /\ s.queues \in [Jobs -> Seq(Entries)]
      BY <1>1, <1>3, <2>3 DEF States
    <3> HIDE DEF q
    <3>2. SameJobs(s, x) /\ SameTasks(s, x) /\ SameTries(s, x) /\ SameNodes(s, x) /\ SameLinks(s, x)
      BY <3>1 DEF WithQueue, SameJobs, SameTasks, SameTries, SameNodes, SameLinks
    <3>3. x.queues = [s.queues EXCEPT ![j] = z] /\ x.members = s.members
      BY <3>1 DEF WithQueue
    <3> QED BY <3>2, <3>3 DEF WithQueue
  <2>5. (\A r : In(z, r) <=> In(q, r)) /\ Once(z)
    BY <1>2, <1>3, <2>1 DEF Detaches
  <2>6. {} = {r \in Tasks : In(q, r) /\ ~In(z, r)}
    BY <2>5
  <2> QED BY <1>3, <2>3, <2>4, <2>5, <2>6, DetachedTidy
<1> QED BY <1>5, <1>6

-----------------------------------------------------------------------------
(* A node is lost.                                                           *)

\* A handler takes up a task that some worker had and no message is about.
LEMMA GrabTidy ==
  ASSUME NEW s \in States, NEW A, NEW w, Tidy(s, {}, A, w), NEW t \in Tasks,
         Tracked(s, t) => s.status[t] \in InHand /\ \A n \in Nodes : ~Airborne(s, w, t, n)
  PROVE  Tidy(s, {t}, A, w)
<1>1. ASSUME NEW r \in Tasks, Tracked(s, r) PROVE LedgerOf(s, {t}, A, w, r) /\ FlightOf(s, {t}, w, r)
  <2>1. LedgerOf(s, {}, A, w, r) /\ FlightOf(s, {}, w, r)
    BY <1>1 DEF Tidy
  <2>2. CASE r # t
    BY <2>1, <2>2 DEF LedgerOf, FlightOf
  <2>3. CASE r = t
    <3>1. s.status[t] \in InHand /\ \A n \in Nodes : ~Airborne(s, w, t, n)
      BY <1>1, <2>3
    <3>2. FlightOf(s, {t}, w, t)
      BY <3>1 DEF FlightOf
    <3>3. LedgerOf(s, {t}, A, w, t)
      BY <2>1, <2>3, <3>1 DEF LedgerOf, Waiting, InHand
    <3> QED BY <2>3, <3>2, <3>3
  <2> QED BY <2>2, <2>3
<1> QED BY <1>1 DEF Tidy

LEMMA ReclaimTidy ==
  ASSUME NEW s, NEW E \in [Jobs -> SUBSET Nodes], Sound(s, E), NEW A, NEW w, Tidy(s, {}, A, w),
         NEW t \in Tasks, NEW n \in Nodes, n \notin s.registered, w.lost = n, LossWatched(w)
  PROVE  Tidy(Reclaim(s, t, n), {}, A \ {t}, w)
<1>1. s \in States
  BY DEF Sound
<1>2. CASE HeldOn(s, t, n)
  <2>1. s.holder[t] = n /\ s.status[t] \in InHand /\ s.status[t] # "absent"
    BY <1>2 DEF HeldOn, InHand
  <2>2. Tracked(s, t) => \A m \in Nodes : ~Airborne(s, w, t, m)
    BY <2>1 DEF Tidy, FlightOf
  <2>3. Tidy(s, {t}, A, w)
    BY <1>1, <2>1, <2>2, GrabTidy
  <2>7. w.watch => t \in w.loose
    <3> SUFFICES ASSUME w.watch PROVE t \in w.loose
      OBVIOUS
    <3>1. TurnOf(w.start, s, w.loose, t)
      BY DEF Tidy, ExactOf, Turned
    <3> QED BY <2>1, <3>1 DEF TurnOf, SamePhase, LossWatched, Idle, InHand
  <2>4. Tidy(Requeue(s, t), {t} \ {t}, A \ {t}, w)
    BY <2>1, <2>3, <2>7, RequeueTidy
  <2>5. {t} \ {t} = {}
    OBVIOUS
  <2>6. Tidy(Requeue(s, t), {}, A \ {t}, w)
    BY <2>4, <2>5
  <2> QED BY <1>2, <2>6 DEF Reclaim
<1>3. CASE ~HeldOn(s, t, n)
  <2>1. ASSUME NEW r \in Tasks, LedgerOf(s, {}, A, w, r) PROVE LedgerOf(s, {}, A \ {t}, w, r)
    BY <1>3, <2>1 DEF LedgerOf, HeldOn, InHand
  <2>2. Tidy(s, {}, A \ {t}, w)
    BY <2>1 DEF Tidy
  <2> QED BY <1>3, <2>2 DEF Reclaim
<1> QED BY <1>2, <1>3

LEMMA ReclaimAllTidy ==
  ASSUME NEW s, NEW E \in [Jobs -> SUBSET Nodes], Sound(s, E), NEW A, NEW w, Tidy(s, {}, A, w),
         NEW j \in Jobs, NEW n \in Nodes, n \notin s.registered, w.lost = n, LossWatched(w)
  PROVE  Tidy(ReclaimAll(s, j, n), {}, A \ TasksOf(j), w)
<1> DEFINE m == Items[j] + 1
           left(k) == A \ {<<j, i>> : i \in 1..k}
           S(k) == {x \in Sounds(s, E) : Tidy(x, {}, left(k), w)}
           G == [k \in 0..m |-> S(k)]
<1>1. m \in Nat /\ \A k \in 1..m : k - 1 \in 0..m /\ k \in 0..m /\ <<j, k>> \in Tasks
  BY TaskNumbers, TaskNames
<1>2. \A k : S(k) \in SUBSET States
  BY DEF Sounds
<1>3. left(0) = A
  <2>1. 1..0 = {}
    OBVIOUS
  <2> QED BY <2>1
<1>4. s \in S(0)
  <2> HIDE DEF left
  <2> QED BY <1>3, KeptSelf DEF Sound, Sounds
<1>5. left(m) = A \ TasksOf(j)
  BY TaskNames
<1>6. ASSUME NEW k \in 1..m, NEW x \in S(k - 1) PROVE Reclaim(x, <<j, k>>, n) \in S(k)
  <2> DEFINE t == <<j, k>>
             y == Reclaim(x, t, n)
             B == left(k - 1)
  <2>1. Sound(x, E) /\ Kept(s, x) /\ Tidy(x, {}, B, w) /\ t \in Tasks
    BY <1>1 DEF Sounds
  <2>2. B \ {t} = left(k)
    <3>1. 1..k = 1..(k - 1) \cup {k}
      BY <1>1
    <3> QED BY <3>1
  <2> HIDE DEF B, left, m
  <2>3. n \notin x.registered
    BY <2>1 DEF Kept, SameNodes
  <2>4. Tidy(y, {}, B \ {t}, w)
    BY <2>1, <2>3, ReclaimTidy
  <2>5. Sound(y, E) /\ Kept(x, y)
    <3>1. HeldOn(x, t, n) => x.status[t] # "absent"
      BY DEF HeldOn
    <3>2. HeldOn(x, t, n) => Sound(Requeue(x, t), E) /\ Kept(x, Requeue(x, t))
      BY <2>1, <3>1, RequeueSound
    <3> QED BY <2>1, <3>2, KeptSelf DEF Reclaim
  <2> HIDE DEF y, t
  <2>6. Tidy(y, {}, left(k), w)
    BY <2>2, <2>4
  <2>7. Kept(s, y) /\ y \in States
    BY <2>1, <2>5, KeptTransitive DEF Sound
  <2>8. y \in S(k)
    BY <2>5, <2>6, <2>7 DEF Sounds
  <2> QED BY <2>8 DEF y, t
<1> HIDE DEF S
<1>7. G \in [0..m -> SUBSET States] /\ \A k \in 0..m : G[k] = S(k)
  BY <1>2
<1>8. 0 \in 0..m /\ m \in 0..m
  BY <1>1
<1> HIDE DEF G
<1>9. s \in G[0] /\ \A k \in 1..m : \A x \in G[k - 1] : Reclaim(x, <<j, k>>, n) \in G[k]
  BY <1>1, <1>4, <1>6, <1>7, <1>8
<1>10. ReclaimAll(s, j, n) \in G[m]
  BY <1>7, <1>9, ReclaimLoop
<1>11. ReclaimAll(s, j, n) \in S(m)
  BY <1>7, <1>8, <1>10
<1> QED BY <1>5, <1>11 DEF S

LEMMA LoseInTidy ==
  ASSUME NEW s, NEW E \in [Jobs -> SUBSET Nodes], Sound(s, E), NEW A, NEW w, Tidy(s, {}, A, w),
         NEW j \in Jobs, NEW n \in Nodes, E[j] \subseteq {n}, n \notin s.registered, w.lost = n,
         LossWatched(w)
  PROVE  Tidy(LoseIn(s, j, n), {}, A \ TasksOf(j), w)
<1> DEFINE y == MoveQueue(s, j, n)
           z == ReclaimAll(y, j, n)
           D == [E EXCEPT ![j] = {}]
           B == A \ TasksOf(j)
<1>1. CASE s.jobStatus[j] \notin Live
  <2>1. ASSUME NEW r \in Tasks, LedgerOf(s, {}, A, w, r) PROVE LedgerOf(s, {}, B, w, r)
    <3>1. JobOf(r) = j => s.status[r] \notin InHand
      BY <1>1, <2>1 DEF LedgerOf, Settled, InHand
    <3>2. JobOf(r) # j => r \notin TasksOf(j)
      BY TaskNames
    <3> QED BY <2>1, <3>1, <3>2 DEF LedgerOf
  <2> HIDE DEF B
  <2>2. Tidy(s, {}, B, w)
    BY <2>1 DEF Tidy
  <2> QED BY <1>1, <2>2 DEF LoseIn, B
<1>2. CASE s.jobStatus[j] \in Live
  <2>1. D \in [Jobs -> SUBSET Nodes] /\ D[j] = {}
    OBVIOUS
  <2>2. Sound(y, D) /\ Kept(s, y)
    BY MoveQueueSound
  <2>3. Tidy(y, {}, A, w)
    BY <1>2, MoveQueueTidy DEF Live
  <2> HIDE DEF D, y, B
  <2>4. n \notin y.registered
    BY <2>2 DEF Kept, SameNodes
  <2>5. Tidy(z, {}, B, w)
    BY <2>1, <2>2, <2>3, <2>4, ReclaimAllTidy DEF B
  <2>6. Sound(z, D)
    BY <2>1, <2>2, ReclaimAllSound
  <2> HIDE DEF z
  <2>7. Tidy(Pump(z, j), {}, B, w)
    BY <2>1, <2>5, <2>6, PumpTidy
  <2> QED BY <1>2, <2>7 DEF LoseIn, B, y, z
<1> QED BY <1>1, <1>2

LEMMA NodeLostTidy ==
  ASSUME NEW s, Sound(s, NoneLost), NEW n \in Nodes, NEW w, w.lost = n, Tidy(Gone(s, n), {}, Tasks, w),
         LossWatched(w)
  PROVE  Tidy(NodeLost(s, n), {}, {}, w)
<1> DEFINE g == Gone(s, n)
           left(k) == {t \in Tasks : JobOf(t) > k}
           S(k) == {x \in Sounds(g, Losing(n, k)) : Tidy(x, {}, left(k), w)}
           G == [k \in 0..NumJobs |-> S(k)]
<1>1. \A k : S(k) \in SUBSET States
  BY DEF Sounds
<1>2. left(0) = Tasks /\ left(NumJobs) = {}
  BY TaskNames, Numbers, SMTT(40)
<1>3. Sound(g, Losing(n, 0)) /\ g \in States /\ n \notin g.registered
  BY GoneSound, GoneEffect DEF Sound, IsGone
<1>4. g \in S(0)
  <2> HIDE DEF left, g
  <2> QED BY <1>2, <1>3, KeptSelf DEF Sounds, g
<1>5. ASSUME NEW k \in Jobs, NEW x \in S(k - 1) PROVE LoseIn(x, k, n) \in S(k)
  <2> DEFINE E == Losing(n, k - 1)
             y == LoseIn(x, k, n)
             B == left(k - 1)
  <2>1. /\ E \in [Jobs -> SUBSET Nodes] /\ E[k] \subseteq {n}
        /\ Losing(n, k) = [E EXCEPT ![k] = {}]
    BY LosingMoves
  <2>2. Sound(x, E) /\ Kept(g, x) /\ Tidy(x, {}, B, w)
    BY DEF Sounds
  <2>3. B \ TasksOf(k) = left(k)
    <3>1. \A t \in Tasks : t \in TasksOf(k) <=> JobOf(t) = k
      BY TaskNames
    <3>2. \A t \in Tasks : JobOf(t) \in Int /\ k \in Int
      BY TaskNames, Numbers
    <3> QED BY <3>1, <3>2
  <2> HIDE DEF E, g, B, left
  <2>4. LET z == LoseIn(x, k, n) IN Sound(z, [E EXCEPT ![k] = {}]) /\ Kept(x, z)
    BY <2>1, <2>2, LoseInSound
  <2>5. Sound(y, [E EXCEPT ![k] = {}]) /\ Kept(x, y)
    BY <2>4
  <2>6. Tidy(y, {}, B \ TasksOf(k), w)
    <3>1. n \notin x.registered
      BY <1>3, <2>2 DEF Kept, SameNodes
    <3> QED BY <2>1, <2>2, <3>1, LoseInTidy
  <2> HIDE DEF y
  <2>7. Sound(y, Losing(n, k)) /\ Kept(g, y) /\ y \in States /\ Tidy(y, {}, left(k), w)
    BY <2>1, <2>2, <2>3, <2>5, <2>6, KeptTransitive DEF Sound
  <2>8. y \in S(k)
    BY <2>7 DEF Sounds
  <2> QED BY <2>8 DEF y
<1>6. \A k \in 1..NumJobs : k \in Jobs /\ k - 1 \in 0..NumJobs /\ k \in 0..NumJobs
  BY Numbers
<1>7. 0 \in 0..NumJobs /\ NumJobs \in 0..NumJobs
  BY Numbers
<1> HIDE DEF S
<1>8. G \in [0..NumJobs -> SUBSET States] /\ \A k \in 0..NumJobs : G[k] = S(k)
  BY <1>1
<1> HIDE DEF G
<1>9. g \in G[0] /\ \A k \in 1..NumJobs : \A x \in G[k - 1] : LoseIn(x, k, n) \in G[k]
  BY <1>4, <1>5, <1>6, <1>7, <1>8
<1>10. NodeLost(s, n) \in G[NumJobs]
  <2>1. Iterate(LAMBDA x, j : LoseIn(x, j, n), g, NumJobs) \in G[NumJobs]
    BY <1>8, <1>9, LoseLoop
  <2> QED BY <2>1 DEF NodeLost
<1>11. NodeLost(s, n) \in S(NumJobs)
  BY <1>7, <1>8, <1>10
<1> QED BY <1>2, <1>11 DEF S

-----------------------------------------------------------------------------
(* Steps that change the world around the ledger: the sockets, the workers,  *)
(* the nodes that are registered.                                            *)

\* What is given to a worker was given to it before, and nothing gets out of order.
PassesAt(s, x, w, v, t, n) ==
  /\ Given(x, v, t, n) => Given(s, w, t, n)
  /\ Tracked(s, t) /\ Airborne(x, v, t, n) =>
       /\ Airborne(s, w, t, n)
       /\ Orderly(s, w, t, n) => Orderly(x, v, t, n)
Passes(s, x, w, v) == \A t \in Tasks, n \in Nodes :
  /\ PassesAt(s, x, w, v, t, n)
  /\ Airborne(x, v, t, n) /\ n \in s.registered => n \in x.registered

LEMMA TidyWorld ==
  ASSUME NEW s \in States, NEW x \in States, x.jobStatus = s.jobStatus, SameTasks(s, x), x.queues = s.queues,
         NEW A, NEW w, Tidy(s, {}, A, w), NEW B, NEW v, CancelledOf(x, v), ExactOf(x, v), CancelsStale(x),
         \A t \in Tasks : s.holder[t] \in s.registered \/ (t \in A /\ s.holder[t] = w.lost) =>
                          s.holder[t] \in x.registered \/ (t \in B /\ s.holder[t] = v.lost),
         Passes(s, x, w, v)
  PROVE  Tidy(x, {}, B, v)
<1>1. x.status = s.status /\ x.holder = s.holder
  BY DEF SameTasks
<1>2. ASSUME NEW t \in Tasks, Tracked(x, t) PROVE LedgerOf(x, {}, B, v, t) /\ FlightOf(x, {}, v, t)
  <2>1. Tracked(s, t)
    BY <1>2 DEF Tracked
  <2>2. LedgerOf(s, {}, A, w, t) /\ FlightOf(s, {}, w, t)
    BY <2>1 DEF Tidy
  <2>3. Queued(x, t) <=> Queued(s, t)
    BY DEF Queued
  <2>4. s.status[t] \in InHand =>
          t \in {} \/ s.holder[t] \in x.registered \/ (t \in B /\ s.holder[t] = v.lost)
    BY <2>2 DEF LedgerOf
  <2>5. LedgerOf(x, {}, B, v, t)
    BY <1>1, <2>2, <2>3, <2>4 DEF LedgerOf
  <2>6. ASSUME NEW n \in Nodes, Airborne(x, v, t, n)
        PROVE  /\ t \notin {} /\ x.status[t] \in InHand /\ x.holder[t] = n /\ n \in x.registered
               /\ Orderly(x, v, t, n)
    <3>1. Airborne(s, w, t, n) /\ (Orderly(s, w, t, n) => Orderly(x, v, t, n))
          /\ (n \in s.registered => n \in x.registered)
      BY <2>1, <2>6 DEF Passes, PassesAt
    <3> QED BY <1>1, <2>2, <3>1 DEF FlightOf
  <2> QED BY <2>5, <2>6 DEF FlightOf
<1>3. ASSUME NEW j \in Jobs PROVE JobTidy(x, j)
  <2>1. JobTidy(s, j)
    BY DEF Tidy
  <2>2. Succeeded(x, j) = Succeeded(s, j)
    BY <1>1 DEF Succeeded
  <2> QED BY <1>1, <2>1, <2>2 DEF JobTidy
<1>4. OneHand(x, v)
  BY DEF Tidy, OneHand, Passes, PassesAt
<1> QED BY <1>2, <1>3, <1>4 DEF Tidy

\* Nothing changes but at node n.
Elsewhere(s, x, w, v, n) == \A m \in Nodes \ {n} :
  x.inbox[m] = s.inbox[m] /\ v.outbox[m] = w.outbox[m] /\ v.runs[m] = w.runs[m]

LEMMA PassesElsewhere ==
  ASSUME NEW s, NEW x, NEW w, NEW v, NEW n \in Nodes, Elsewhere(s, x, w, v, n),
         \A t \in Tasks : PassesAt(s, x, w, v, t, n),
         \A t \in Tasks : Airborne(x, v, t, n) /\ n \in s.registered => n \in x.registered,
         s.registered \ {n} \subseteq x.registered
  PROVE  Passes(s, x, w, v)
<1> SUFFICES ASSUME NEW t \in Tasks, NEW m \in Nodes
             PROVE  /\ PassesAt(s, x, w, v, t, m)
                    /\ Airborne(x, v, t, m) /\ m \in s.registered => m \in x.registered
  BY DEF Passes
<1>1. CASE m = n
  BY <1>1
<1>2. CASE m # n
  <2>1. x.inbox[m] = s.inbox[m] /\ v.outbox[m] = w.outbox[m] /\ v.runs[m] = w.runs[m]
    BY <1>2 DEF Elsewhere
  <2>2. /\ \A i : SentAt(x, t, m, i) <=> SentAt(s, t, m, i)
        /\ \A i : HeardAt(v, t, m, i) <=> HeardAt(w, t, m, i)
        /\ \A i : VerdictAt(v, t, m, i) <=> VerdictAt(w, t, m, i)
        /\ t \in v.runs[m] <=> t \in w.runs[m]
    BY <2>1 DEF SentAt, HeardAt, VerdictAt
  <2>3. (Sent(x, t, m) <=> Sent(s, t, m)) /\ (Heard(v, t, m) <=> Heard(w, t, m))
    BY <2>2 DEF Sent, Heard
  <2>4. PassesAt(s, x, w, v, t, m)
    BY <2>2, <2>3 DEF PassesAt, Given, Airborne, Orderly
  <2> QED BY <1>2, <2>4
<1> QED BY <1>1, <1>2

\* Node n took the first message of its inbox, or none.
Took(s, x, n) ==
  /\ \A r, i : SentAt(x, r, n, i) => i + 1 # 1 /\ SentAt(s, r, n, i + 1)
  /\ \A r, i : SentAt(s, r, n, i) => i = 1 \/ SentAt(x, r, n, i - 1)
  /\ \A r, i : SentAt(s, r, n, i) \/ SentAt(x, r, n, i) => i \in Nat
  /\ \A r : SentAt(s, r, n, 1) <=> Head(s.inbox[n]) = About("assign", r)

LEMMA TookEffect ==
  ASSUME NEW s \in States, NEW x, NEW n \in Nodes, s.inbox[n] # <<>>, x.inbox[n] = Tail(s.inbox[n])
  PROVE  Took(s, x, n) /\ \A i \in DOMAIN x.inbox[n] : \E k \in DOMAIN s.inbox[n] : x.inbox[n][i] = s.inbox[n][k]
<1> DEFINE q == s.inbox[n]
           y == x.inbox[n]
<1>1. q \in Seq(Messages) /\ q # <<>> /\ y = Tail(q)
  BY DEF States
<1> HIDE DEF q, y
<1>2. /\ 1 \in DOMAIN q /\ Head(q) = q[1]
      /\ \A i \in DOMAIN y : i \in Nat /\ i + 1 # 1 /\ i + 1 \in DOMAIN q /\ y[i] = q[i + 1]
      /\ \A i \in DOMAIN q : i \in Nat /\ (i = 1 \/ (i - 1 \in DOMAIN y /\ y[i - 1] = q[i]))
  BY <1>1
<1>3. \A r, i : SentAt(x, r, n, i) <=> i \in DOMAIN y /\ y[i] = About("assign", r)
  BY DEF SentAt, y
<1>4. \A r, i : SentAt(s, r, n, i) <=> i \in DOMAIN q /\ q[i] = About("assign", r)
  BY DEF SentAt, q
<1>5. Took(s, x, n)
  <2>1. \A r, i : SentAt(x, r, n, i) => i + 1 # 1 /\ SentAt(s, r, n, i + 1)
    BY <1>2, <1>3, <1>4
  <2>2. \A r, i : SentAt(s, r, n, i) => i = 1 \/ SentAt(x, r, n, i - 1)
    BY <1>2, <1>3, <1>4
  <2>3. \A r, i : SentAt(s, r, n, i) \/ SentAt(x, r, n, i) => i \in Nat
    BY <1>2, <1>3, <1>4
  <2>4. \A r : SentAt(s, r, n, 1) <=> Head(s.inbox[n]) = About("assign", r)
    BY <1>2, <1>4 DEF q
  <2> QED BY <2>1, <2>2, <2>3, <2>4 DEF Took
<1> QED BY <1>2, <1>5 DEF q, y

\* Node n reported m, with number k.
Told(w, v, n, m, k) ==
  /\ \A r, i : HeardAt(v, r, n, i) <=> HeardAt(w, r, n, i) \/ (i = k /\ m.type # "heartbeat" /\ m.task = r)
  /\ \A r, i : VerdictAt(v, r, n, i) <=>
       VerdictAt(w, r, n, i) \/ (i = k /\ m.type \notin {"heartbeat", "accepted"} /\ m.task = r)
  /\ \A r, i : HeardAt(w, r, n, i) => i < k /\ i <= k
  /\ k <= k

LEMMA ToldEffect ==
  ASSUME NEW w, NEW v, NEW n, NEW m, w.outbox[n] \in Seq(Reports), v.outbox[n] = w.outbox[n] \o <<m>>
  PROVE  \E k : Told(w, v, n, m, k)
<1> DEFINE q == w.outbox[n]
           y == v.outbox[n]
           k == Len(q) + 1
<1>1. q \in Seq(Reports) /\ y = q \o <<m>>
  OBVIOUS
<1>2. \A r, i : HeardAt(w, r, n, i) <=> i \in DOMAIN q /\ q[i].type # "heartbeat" /\ q[i].task = r
  BY DEF HeardAt
<1>3. \A r, i : HeardAt(v, r, n, i) <=> i \in DOMAIN y /\ y[i].type # "heartbeat" /\ y[i].task = r
  BY DEF HeardAt
<1>4. /\ \A r, i : VerdictAt(w, r, n, i) <=> HeardAt(w, r, n, i) /\ q[i].type # "accepted"
      /\ \A r, i : VerdictAt(v, r, n, i) <=> HeardAt(v, r, n, i) /\ y[i].type # "accepted"
  BY DEF VerdictAt
<1> HIDE DEF q, y
<1>5. /\ DOMAIN y = DOMAIN q \cup {k} /\ k \notin DOMAIN q /\ y[k] = m
      /\ \A i \in DOMAIN q : y[i] = q[i] /\ i < k /\ i <= k
      /\ k <= k
  <2>1. /\ Len(q) \in Nat /\ DOMAIN q = 1..Len(q) /\ DOMAIN y = 1..(Len(q) + 1) /\ y[Len(q) + 1] = m
        /\ \A i \in 1..Len(q) : y[i] = q[i]
    <3>1. q \o <<m>> = Append(q, m) /\ Len(q) \in Nat /\ DOMAIN q = 1..Len(q)
      BY <1>1
    <3>2. /\ DOMAIN Append(q, m) = 1..(Len(q) + 1) /\ Append(q, m)[Len(q) + 1] = m
          /\ \A i \in 1..Len(q) : Append(q, m)[i] = q[i]
      BY <1>1, <3>1
    <3> QED BY <1>1, <3>1, <3>2
  <2> QED BY <2>1
<1> HIDE DEF k
<1>6. Told(w, v, n, m, k)
  BY <1>2, <1>3, <1>4, <1>5 DEF Told
<1> QED BY <1>6

\* A message and a report that are not about r.
LEMMA OtherPasses ==
  ASSUME NEW s, NEW x, NEW w, NEW v, NEW n, NEW r,
         \/ x.inbox[n] = s.inbox[n]
         \/ Took(s, x, n) /\ Head(s.inbox[n]) # About("assign", r),
         \/ v.outbox[n] = w.outbox[n]
         \/ \E m, k : Told(w, v, n, m, k) /\ (m.type # "heartbeat" => m.task # r),
         r \in v.runs[n] <=> r \in w.runs[n]
  PROVE  PassesAt(s, x, w, v, r, n)
<1>1. /\ Sent(x, r, n) <=> Sent(s, r, n)
      /\ (\A i, k : SentAt(s, r, n, i) /\ SentAt(s, r, n, k) => i = k)
           => (\A i, k : SentAt(x, r, n, i) /\ SentAt(x, r, n, k) => i = k)
  <2>1. CASE x.inbox[n] = s.inbox[n]
    BY <2>1 DEF Sent, SentAt
  <2>2. CASE Took(s, x, n) /\ Head(s.inbox[n]) # About("assign", r)
    <3>1. \A i : SentAt(x, r, n, i) => i \in Nat /\ SentAt(s, r, n, i + 1)
      BY <2>2 DEF Took
    <3>2. \A i : SentAt(s, r, n, i) => SentAt(x, r, n, i - 1)
      BY <2>2 DEF Took
    <3>3. \A i, k \in Nat : i + 1 = k + 1 => i = k
      OBVIOUS
    <3> QED BY <3>1, <3>2, <3>3 DEF Sent
  <2> QED BY <2>1, <2>2
<1>2. /\ \A i : HeardAt(v, r, n, i) <=> HeardAt(w, r, n, i)
      /\ \A i : VerdictAt(v, r, n, i) <=> VerdictAt(w, r, n, i)
  <2>1. CASE v.outbox[n] = w.outbox[n]
    BY <2>1 DEF HeardAt, VerdictAt
  <2>2. CASE \E m, k : Told(w, v, n, m, k) /\ (m.type # "heartbeat" => m.task # r)
    BY <2>2 DEF Told
  <2> QED BY <2>1, <2>2
<1>3. Heard(v, r, n) <=> Heard(w, r, n)
  BY <1>2 DEF Heard
<1>4. Orderly(s, w, r, n) => Orderly(x, v, r, n)
  BY <1>1, <1>2, <1>3 DEF Orderly
<1> QED BY <1>1, <1>3, <1>4 DEF PassesAt, Given, Airborne

\* The worker takes an assignment: it runs the task, or reports that it will not.
LEMMA TakenPasses ==
  ASSUME NEW s, NEW x, NEW w, NEW v, NEW n, NEW t, Took(s, x, n), Head(s.inbox[n]) = About("assign", t),
         NEW type \in {"accepted", "rejected"}, NEW k, Told(w, v, n, About(type, t), k),
         \A r : r \in v.runs[n] <=> r \in w.runs[n] \/ (r = t /\ type = "accepted")
  PROVE  \A r : PassesAt(s, x, w, v, r, n)
<1> DEFINE m == About(type, t)
<1>1. m.type = type /\ m.task = t /\ \A r : About("assign", t) = About("assign", r) <=> r = t
  BY DEF About
<1> HIDE DEF m
<1>2. ASSUME NEW r, r # t PROVE PassesAt(s, x, w, v, r, n)
  <2>1. Head(s.inbox[n]) # About("assign", r)
    BY <1>1, <1>2
  <2>2. \E y, l : Told(w, v, n, y, l) /\ (y.type # "heartbeat" => y.task # r)
    BY <1>1, <1>2 DEF m
  <2> QED BY <1>2, <2>1, <2>2, OtherPasses
<1>3. PassesAt(s, x, w, v, t, n)
  <2>1. SentAt(s, t, n, 1)
    BY DEF Took
  <2>2. Sent(s, t, n)
    BY <2>1 DEF Sent
  <2>3. Given(s, w, t, n) /\ Airborne(s, w, t, n)
    BY <2>2 DEF Given, Airborne
  <2>4. ASSUME Orderly(s, w, t, n) PROVE Orderly(x, v, t, n)
    <3>1. ~Heard(w, t, n) /\ t \notin w.runs[n]
          /\ \A i, l : SentAt(s, t, n, i) /\ SentAt(s, t, n, l) => i = l
      BY <2>2, <2>4 DEF Orderly
    <3>2. \A i : ~SentAt(x, t, n, i)
      BY <2>1, <3>1 DEF Took
    <3>3. \A i : ~HeardAt(w, t, n, i) /\ ~VerdictAt(w, t, n, i)
      BY <3>1 DEF Heard, VerdictAt
    <3>4. \A i : /\ HeardAt(v, t, n, i) <=> i = k
                 /\ VerdictAt(v, t, n, i) <=> i = k /\ type = "rejected"
      BY <1>1, <3>3 DEF Told, m
    <3>5. k <= k
      BY DEF Told
    <3>6. ~Sent(x, t, n)
      BY <3>2 DEF Sent
    <3>7. t \in v.runs[n] => type # "rejected"
      BY <3>1
    <3> QED BY <3>2, <3>4, <3>5, <3>6, <3>7 DEF Orderly
  <2> QED BY <2>3, <2>4 DEF PassesAt
<1> QED BY <1>2, <1>3

\* The worker's verdict on a task that it ran.
LEMMA EndedPasses ==
  ASSUME NEW s, NEW x, NEW w, NEW v, NEW n, NEW t, x.inbox[n] = s.inbox[n],
         NEW type \in {"completed", "failed"}, NEW k, Told(w, v, n, About(type, t), k),
         t \in w.runs[n], \A r : r \in v.runs[n] <=> r \in w.runs[n] /\ r # t
  PROVE  \A r : PassesAt(s, x, w, v, r, n)
<1> DEFINE m == About(type, t)
<1>1. m.type = type /\ m.task = t
  BY DEF About
<1> HIDE DEF m
<1>2. ASSUME NEW r, r # t PROVE PassesAt(s, x, w, v, r, n)
  <2>1. \E y, l : Told(w, v, n, y, l) /\ (y.type # "heartbeat" => y.task # r)
    BY <1>1, <1>2 DEF m
  <2> QED BY <1>2, <2>1, OtherPasses
<1>3. PassesAt(s, x, w, v, t, n)
  <2>1. Given(s, w, t, n) /\ Airborne(s, w, t, n)
    BY DEF Given, Airborne
  <2>2. ASSUME Orderly(s, w, t, n) PROVE Orderly(x, v, t, n)
    <3>1. ~Sent(s, t, n) /\ \A i : ~VerdictAt(w, t, n, i)
      BY <2>2 DEF Orderly
    <3>2. \A i : ~SentAt(x, t, n, i)
      BY <3>1 DEF Sent, SentAt
    <3>3. \A i : /\ HeardAt(v, t, n, i) <=> HeardAt(w, t, n, i) \/ i = k
                 /\ VerdictAt(v, t, n, i) <=> i = k
                 /\ HeardAt(w, t, n, i) => i <= k
      BY <1>1, <3>1 DEF Told, m
    <3>4. k <= k
      BY DEF Told
    <3>5. ~Sent(x, t, n) /\ t \notin v.runs[n]
      BY <3>2 DEF Sent
    <3> QED BY <3>2, <3>3, <3>4, <3>5 DEF Orderly
  <2> QED BY <2>1, <2>2 DEF PassesAt
<1> QED BY <1>2, <1>3

-----------------------------------------------------------------------------
(* The invariant, and the steps of the workers.                              *)

World == [runs |-> runs, outbox |-> outbox, troubles |-> troubles,
          cancelled |-> {j \in Jobs : jobStatus[j] = "cancelled"}, lost |-> None,
          watch |-> FALSE, start |-> Coordinator, loose |-> {}]
LedgerTidy == Tidy(Coordinator, {}, {}, World)
\* A worker behind a closed socket runs nothing; what is being aborted is cancelled.
WorkersTidy ==
  /\ \A n \in Nodes : n \notin open => runs[n] = {}
  /\ \A n \in Nodes : \A t \in aborting[n] : ~Tracked(Coordinator, t)
  /\ paused = {}
  /\ Only(Announced) => \A n \in Nodes : \A i \in DOMAIN outbox[n] : outbox[n][i].type # "heartbeat"
BInv == Calm => LedgerTidy /\ WorkersTidy

LEMMA WorldFields ==
  /\ ~World.watch /\ ~World'.watch
  /\ World.runs = runs /\ World.outbox = outbox /\ World.troubles = troubles
  /\ World.lost = None /\ World.cancelled = {j \in Jobs : jobStatus[j] = "cancelled"}
  /\ World'.runs = runs' /\ World'.outbox = outbox' /\ World'.troubles = troubles'
  /\ World'.lost = None /\ World'.cancelled = {j \in Jobs : jobStatus'[j] = "cancelled"}
  /\ CancelledOf(Coordinator, World) /\ CancelledOf(Coordinator', World')
<1>1. /\ World.runs = runs /\ World.outbox = outbox /\ World.troubles = troubles /\ ~World.watch
      /\ World.lost = None /\ World.cancelled = {j \in Jobs : jobStatus[j] = "cancelled"}
  BY DEF World
<1>2. /\ World'.runs = runs' /\ World'.outbox = outbox' /\ World'.troubles = troubles' /\ ~World'.watch
      /\ World'.lost = None /\ World'.cancelled = {j \in Jobs : jobStatus'[j] = "cancelled"}
  BY DEF World
<1>3. Coordinator.jobStatus = jobStatus /\ Coordinator'.jobStatus = jobStatus'
  BY DEF Coordinator
<1>4. CancelledOf(Coordinator, World)
  BY <1>1, <1>3 DEF CancelledOf
<1>5. CancelledOf(Coordinator', World')
  BY <1>2, <1>3 DEF CancelledOf
<1> QED BY <1>1, <1>2, <1>4, <1>5

LEMMA Landed ==
  ASSUME Tidy(Coordinator', {}, {}, World')
  PROVE  LedgerTidy'
BY WorldFields DEF LedgerTidy, Tidy, ExactOf, Turned

\* A step at node n that leaves the books alone.
LEMMA BooksTidy ==
  ASSUME IInv, IInv', LedgerTidy,
         UNCHANGED <<jobStatus, status, holder, queues, active, registered>>, troubles \subseteq troubles',
         InboxesShrink, NEW n \in Nodes, Elsewhere(Coordinator, Coordinator', World, World', n),
         \A t \in Tasks : PassesAt(Coordinator, Coordinator', World, World', t, n)
  PROVE  LedgerTidy'
<1> DEFINE s == Coordinator
           x == Coordinator'
           w == World
           v == World'
<1>1. s \in States /\ x \in States
  BY DEF IInv, CoordinatorSound, Sound
<1>2. /\ x.jobStatus = s.jobStatus /\ SameTasks(s, x) /\ x.queues = s.queues
      /\ x.active = s.active /\ x.registered = s.registered /\ s.inbox = inbox /\ x.inbox = inbox'
  BY DEF Coordinator, SameTasks
<1>3. Tidy(s, {}, {}, w) /\ CancelledOf(x, v) /\ w.troubles \subseteq v.troubles /\ w.lost = v.lost
      /\ ~v.watch
  BY WorldFields DEF LedgerTidy
<1>4. Elsewhere(s, x, w, v, n) /\ \A t \in Tasks : PassesAt(s, x, w, v, t, n)
  OBVIOUS
<1> HIDE DEF s, x, w, v
<1>5. ExactOf(x, v)
  <2>1. \A m : Load(x, m) = Load(s, m)
    BY <1>2 DEF Load, SameTasks
  <2> QED BY <1>2, <1>3, <2>1 DEF Tidy, ExactOf, Busy, NoneCancelled, Turned
<1>6. CancelsStale(x)
  <2> SUFFICES ASSUME NEW m \in Nodes, NEW i \in DOMAIN x.inbox[m], x.inbox[m][i].type = "cancel"
               PROVE  ~Tracked(x, x.inbox[m][i].task)
    BY DEF CancelsStale
  <2>1. PICK k \in DOMAIN s.inbox[m] : x.inbox[m][i] = s.inbox[m][k]
    BY <1>2 DEF InboxesShrink
  <2>2. ~Tracked(s, s.inbox[m][k].task)
    BY <1>3, <2>1 DEF Tidy, CancelsStale
  <2> QED BY <1>2, <2>1, <2>2 DEF Tracked
<1>7. Passes(s, x, w, v)
  BY <1>2, <1>4, PassesElsewhere
<1>8. Tidy(x, {}, {}, v)
  BY <1>1, <1>2, <1>3, <1>5, <1>6, <1>7, TidyWorld
<1> QED BY <1>8, Landed DEF x, v

LEMMA WorkersStay ==
  ASSUME IInv, IInv', WorkersTidy, paused' = {}, troubles \subseteq troubles',
         \A j \in Jobs : jobStatus[j] \in Terminal => jobStatus'[j] = jobStatus[j],
         \A n \in Nodes : n \notin open' => runs'[n] = {},
         \A n \in Nodes : \A t \in aborting'[n] : t \in aborting[n] \/ ~Tracked(Coordinator, t),
         Only(Announced)' => \A n \in Nodes : \A i \in DOMAIN outbox'[n] :
           \/ \E k \in DOMAIN outbox[n] : outbox'[n][i] = outbox[n][k]
           \/ outbox'[n][i].type # "heartbeat"
  PROVE  WorkersTidy'
<1>1. ASSUME NEW n \in Nodes, NEW t \in aborting'[n] PROVE ~Tracked(Coordinator', t)
  <2>1. t \in Tasks /\ JobOf(t) \in Jobs
    BY <1>1, TaskNames DEF IInv, RunsSound
  <2>2. ~Tracked(Coordinator, t)
    BY <1>1 DEF WorkersTidy
  <2>3. Coordinator.jobStatus = jobStatus /\ Coordinator'.jobStatus = jobStatus'
    BY DEF Coordinator
  <2> QED BY <2>1, <2>2, <2>3 DEF Tracked, Terminal
<1>2. Only(Announced)' => Only(Announced)
  BY DEF Only
<1>3. ASSUME Only(Announced)', NEW n \in Nodes, NEW i \in DOMAIN outbox'[n]
      PROVE  outbox'[n][i].type # "heartbeat"
  BY <1>2, <1>3 DEF WorkersTidy
<1> QED BY <1>1, <1>3 DEF WorkersTidy

LEMMA TakeTook ==
  ASSUME IInv, NEW n \in Nodes, inbox[n] # <<>>, TakeInbox(n)
  PROVE  /\ Took(Coordinator, Coordinator', n) /\ n \in open
         /\ \A l \in Nodes \ {n} : inbox'[l] = inbox[l]
         /\ Head(inbox[n]) = About(Head(inbox[n]).type, Head(inbox[n]).task)
<1> DEFINE s == Coordinator
           x == Coordinator'
<1>1. s \in States /\ s.inbox = inbox /\ x.inbox = inbox' /\ n \in open
  BY DEF IInv, CoordinatorSound, Sound, LinksSound, Coordinator
<1>2. inbox \in [Nodes -> Seq(Messages)]
  BY <1>1 DEF States
<1>3. inbox'[n] = Tail(inbox[n]) /\ \A l \in Nodes \ {n} : inbox'[l] = inbox[l]
  BY <1>2 DEF TakeInbox
<1>4. Head(inbox[n]) = About(Head(inbox[n]).type, Head(inbox[n]).task)
  BY HeadOfInbox DEF Messages, About
<1> HIDE DEF s, x
<1>5. Took(s, x, n)
  BY <1>1, <1>3, TookEffect
<1> QED BY <1>1, <1>3, <1>4, <1>5 DEF s, x

LEMMA ReplyTold ==
  ASSUME IInv, NEW n \in Nodes, NEW m, Replies(n, <<m>>)
  PROVE  /\ n \in open => \E k : Told(World, World', n, m, k)
         /\ n \notin open => outbox' = outbox
         /\ \A l \in Nodes \ {n} : outbox'[l] = outbox[l]
         /\ \A l \in Nodes : \A i \in DOMAIN outbox'[l] :
              (\E k \in DOMAIN outbox[l] : outbox'[l][i] = outbox[l][k]) \/ outbox'[l][i] = m
<1> DEFINE w == World
           v == World'
           q == outbox[n]
<1>1. outbox \in [Nodes -> Seq(Reports)] /\ w.outbox = outbox /\ v.outbox = outbox'
  BY WorldFields DEF IInv, LinksSound
<1>2. n \notin open => outbox' = outbox
  BY DEF Replies
<1>3. n \in open => outbox'[n] = q \o <<m>>
  BY <1>1 DEF Replies
<1>4. \A l \in Nodes \ {n} : outbox'[l] = outbox[l]
  BY <1>1 DEF Replies
<1>5. q \in Seq(Reports)
  BY <1>1
<1> HIDE DEF q
<1>6. \A i \in DOMAIN (q \o <<m>>) : (i \in DOMAIN q /\ (q \o <<m>>)[i] = q[i]) \/ (q \o <<m>>)[i] = m
  <2>1. q \o <<m>> = Append(q, m) /\ Len(q) \in Nat /\ DOMAIN q = 1..Len(q)
    BY <1>5
  <2>2. /\ DOMAIN Append(q, m) = 1..(Len(q) + 1) /\ Append(q, m)[Len(q) + 1] = m
        /\ \A i \in 1..Len(q) : Append(q, m)[i] = q[i]
    BY <1>5, <2>1
  <2>3. \A i \in 1..(Len(q) + 1) : i \in 1..Len(q) \/ i = Len(q) + 1
    BY <2>1
  <2> QED BY <2>1, <2>2, <2>3
<1>7. \A l \in Nodes : \A i \in DOMAIN outbox'[l] :
        (\E k \in DOMAIN outbox[l] : outbox'[l][i] = outbox[l][k]) \/ outbox'[l][i] = m
  <2> SUFFICES ASSUME NEW l \in Nodes, NEW i \in DOMAIN outbox'[l]
               PROVE  (\E k \in DOMAIN outbox[l] : outbox'[l][i] = outbox[l][k]) \/ outbox'[l][i] = m
    OBVIOUS
  <2>1. CASE l = n /\ n \in open
    BY <1>3, <1>6, <2>1 DEF q
  <2>2. CASE outbox'[l] = outbox[l]
    BY <2>2
  <2> QED BY <1>2, <1>4, <2>1, <2>2
<1>8. ASSUME n \in open PROVE \E k : Told(w, v, n, m, k)
  <2>1. w.outbox[n] \in Seq(Reports) /\ v.outbox[n] = w.outbox[n] \o <<m>>
    BY <1>1, <1>3, <1>5, <1>8 DEF q
  <2> HIDE DEF w, v
  <2> QED BY <2>1, ToldEffect
<1> QED BY <1>2, <1>4, <1>7, <1>8

\* What is the same at the other nodes.
LEMMA OthersStill ==
  ASSUME NEW n \in Nodes, \A l \in Nodes \ {n} : inbox'[l] = inbox[l],
         \A l \in Nodes \ {n} : outbox'[l] = outbox[l], \A l \in Nodes \ {n} : runs'[l] = runs[l]
  PROVE  Elsewhere(Coordinator, Coordinator', World, World', n)
<1>1. Coordinator.inbox = inbox /\ Coordinator'.inbox = inbox'
  BY DEF Coordinator
<1> QED BY <1>1, WorldFields DEF Elsewhere

LEMMA TakeTidy ==
  ASSUME IInv, IInv', LedgerTidy, WorkersTidy, NEW n \in Nodes, Accept(n) \/ Refuse(n)
  PROVE  LedgerTidy' /\ WorkersTidy'
<1> DEFINE t == Head(inbox[n]).task
           type == IF Accept(n) THEN "accepted" ELSE "rejected"
<1>1. /\ inbox[n] # <<>> /\ Head(inbox[n]).type = "assign" /\ Replies(n, <<About(type, t)>>)
      /\ TakeInbox(n) /\ OnlyInbox /\ aborting' = aborting /\ troubles \subseteq troubles'
  BY DEF Accept, Refuse, Disturb, Strike, troubleVars
<1>2. runs' = IF Accept(n) THEN [runs EXCEPT ![n] = @ \cup {t}] ELSE runs
  BY DEF Accept, Refuse
<1>3. /\ Took(Coordinator, Coordinator', n) /\ n \in open
      /\ \A l \in Nodes \ {n} : inbox'[l] = inbox[l]
      /\ Head(inbox[n]) = About("assign", t)
  BY <1>1, TakeTook
<1>4. \A r : r \in runs'[n] <=> r \in runs[n] \/ (r = t /\ type = "accepted")
  BY <1>2, RunsTyped
<1>5. \A l \in Nodes \ {n} : runs'[l] = runs[l]
  BY <1>2, RunsTyped
<1>6. type \in {"accepted", "rejected"}
  OBVIOUS
<1>7. Coordinator.inbox = inbox /\ InboxesShrink
  BY <1>1, HeadOfInbox, CoordinatorFields
<1> HIDE DEF t, type
<1>8. PICK k : Told(World, World', n, About(type, t), k)
  BY <1>1, <1>3, ReplyTold
<1>9. \A r : PassesAt(Coordinator, Coordinator', World, World', r, n)
  <2> DEFINE s == Coordinator
             x == Coordinator'
             w == World
             v == World'
  <2>1. /\ Took(s, x, n) /\ Head(s.inbox[n]) = About("assign", t) /\ Told(w, v, n, About(type, t), k)
        /\ \A r : r \in v.runs[n] <=> r \in w.runs[n] \/ (r = t /\ type = "accepted")
    BY <1>3, <1>4, <1>7, <1>8, WorldFields
  <2> HIDE DEF s, x, w, v
  <2>2. \A r : PassesAt(s, x, w, v, r, n)
    BY <1>6, <2>1, TakenPasses
  <2> QED BY <2>2 DEF s, x, w, v
<1>10. Elsewhere(Coordinator, Coordinator', World, World', n)
  BY <1>1, <1>3, <1>5, OthersStill, ReplyTold
<1>11. LedgerTidy'
  BY <1>1, <1>7, <1>9, <1>10, BooksTidy DEF OnlyInbox
<1>12. About(type, t).type # "heartbeat"
  BY <1>6 DEF About
<1>13. \A l \in Nodes : \A i \in DOMAIN outbox'[l] :
         (\E j \in DOMAIN outbox[l] : outbox'[l][i] = outbox[l][j]) \/ outbox'[l][i].type # "heartbeat"
  BY <1>1, <1>12, ReplyTold
<1>14. \A l \in Nodes : l \notin open' => runs'[l] = {}
  BY <1>1, <1>3, <1>5 DEF OnlyInbox, WorkersTidy
<1>15. WorkersTidy'
  BY <1>1, <1>13, <1>14, WorkersStay DEF OnlyInbox, WorkersTidy
<1> QED BY <1>11, <1>15

\* A worker heeds a cancel: the task is of a cancelled job.
LEMMA AbortTidy ==
  ASSUME IInv, IInv', LedgerTidy, WorkersTidy, NEW n \in Nodes, Abort(n)
  PROVE  LedgerTidy' /\ WorkersTidy'
<1> DEFINE t == Head(inbox[n]).task
           hit == runs[n] \cap {t}
<1>1. /\ inbox[n] # <<>> /\ Head(inbox[n]).type = "cancel"
      /\ runs' = [runs EXCEPT ![n] = @ \ hit] /\ aborting' = [aborting EXCEPT ![n] = @ \cup hit]
      /\ TakeInbox(n) /\ OnlyInbox /\ UNCHANGED <<outbox, troubles>>
  BY DEF Abort, troubleVars
<1>2. /\ Took(Coordinator, Coordinator', n) /\ n \in open
      /\ \A l \in Nodes \ {n} : inbox'[l] = inbox[l]
      /\ Head(inbox[n]) = About("cancel", t)
  BY <1>1, TakeTook
<1>3. Coordinator.inbox = inbox /\ InboxesShrink /\ Coordinator \in States
  BY <1>1, HeadOfInbox, CoordinatorFields DEF IInv, CoordinatorSound, Sound
<1>4. ~Tracked(Coordinator, t)
  <2>1. inbox[n] \in Seq(Messages)
    BY <1>3 DEF States
  <2>2. 1 \in DOMAIN inbox[n] /\ Head(inbox[n]) = inbox[n][1]
    BY <1>1, <2>1
  <2> QED BY <1>1, <1>3, <2>2 DEF LedgerTidy, Tidy, CancelsStale
<1>5. /\ \A l \in Nodes \ {n} : runs'[l] = runs[l] /\ aborting'[l] = aborting[l]
      /\ runs'[n] = runs[n] \ {t} /\ aborting'[n] \subseteq aborting[n] \cup {t}
  BY <1>1, RunsTyped
<1> HIDE DEF t, hit
<1>6. \A r : PassesAt(Coordinator, Coordinator', World, World', r, n)
  <2> DEFINE s == Coordinator
             x == Coordinator'
             w == World
             v == World'
  <2>1. /\ Took(s, x, n) /\ Head(s.inbox[n]) = About("cancel", t) /\ v.outbox[n] = w.outbox[n]
        /\ v.runs[n] = w.runs[n] \ {t} /\ ~Tracked(s, t)
    BY <1>1, <1>2, <1>3, <1>4, <1>5, WorldFields
  <2> HIDE DEF s, x, w, v
  <2>2. \A r : Head(s.inbox[n]) # About("assign", r)
    BY <2>1 DEF About
  <2>3. ASSUME NEW r, r # t PROVE PassesAt(s, x, w, v, r, n)
    <3>1. r \in v.runs[n] <=> r \in w.runs[n]
      BY <2>1, <2>3
    <3> QED BY <2>1, <2>2, <3>1, OtherPasses
  <2>4. PassesAt(s, x, w, v, t, n)
    <3>1. Sent(x, t, n) => Sent(s, t, n)
      BY <2>1 DEF Took, Sent
    <3> QED BY <2>1, <3>1 DEF PassesAt, Given
  <2>5. \A r : PassesAt(s, x, w, v, r, n)
    BY <2>3, <2>4
  <2> QED BY <2>5 DEF s, x, w, v
<1>7. Elsewhere(Coordinator, Coordinator', World, World', n)
  BY <1>1, <1>2, <1>5, OthersStill
<1>8. LedgerTidy'
  BY <1>1, <1>3, <1>6, <1>7, BooksTidy DEF OnlyInbox
<1>9. \A l \in Nodes : l \notin open' => runs'[l] = {}
  BY <1>1, <1>2, <1>5 DEF OnlyInbox, WorkersTidy
<1>10. \A l \in Nodes : \A r \in aborting'[l] : r \in aborting[l] \/ ~Tracked(Coordinator, r)
  BY <1>4, <1>5
<1>11. WorkersTidy'
  BY <1>1, <1>9, <1>10, WorkersStay DEF OnlyInbox, WorkersTidy
<1> QED BY <1>8, <1>11

LEMMA VerdictTidy ==
  ASSUME IInv, IInv', LedgerTidy, WorkersTidy, NEW n \in Nodes, NEW t \in Tasks, Complete(n, t) \/ FailTask(n, t)
  PROVE  LedgerTidy' /\ WorkersTidy'
<1> DEFINE type == IF Complete(n, t) THEN "completed" ELSE "failed"
<1>1. /\ t \in runs[n] /\ runs' = [runs EXCEPT ![n] = @ \ {t}] /\ Replies(n, <<About(type, t)>>)
      /\ OnlyWorker /\ UNCHANGED <<aborting, paused>> /\ troubles \subseteq troubles'
  BY DEF Complete, FailTask, Disturb, Strike, troubleVars
<1>2. type \in {"completed", "failed"}
  OBVIOUS
<1> HIDE DEF type
<1>3. n \in open
  BY <1>1 DEF WorkersTidy
<1>4. /\ \A r : r \in runs'[n] <=> r \in runs[n] /\ r # t
      /\ \A l \in Nodes \ {n} : runs'[l] = runs[l]
  BY <1>1, RunsTyped
<1>5. PICK k : Told(World, World', n, About(type, t), k)
  BY <1>1, <1>3, ReplyTold
<1>6. /\ Coordinator.inbox = inbox /\ Coordinator'.inbox = inbox' /\ inbox' = inbox /\ InboxesShrink
      /\ UNCHANGED <<jobStatus, status, holder, queues, active, registered, open>>
  BY <1>1, OnlyWorkerQuiet DEF Coordinator, OnlyWorker, coordinatorVars
<1>7. \A r : PassesAt(Coordinator, Coordinator', World, World', r, n)
  <2> DEFINE s == Coordinator
             x == Coordinator'
             w == World
             v == World'
  <2>1. /\ x.inbox[n] = s.inbox[n] /\ Told(w, v, n, About(type, t), k) /\ t \in w.runs[n]
        /\ \A r : r \in v.runs[n] <=> r \in w.runs[n] /\ r # t
    BY <1>1, <1>4, <1>5, <1>6, WorldFields
  <2> HIDE DEF s, x, w, v
  <2>2. \A r : PassesAt(s, x, w, v, r, n)
    BY <1>2, <2>1, EndedPasses
  <2> QED BY <2>2 DEF s, x, w, v
<1>8. Elsewhere(Coordinator, Coordinator', World, World', n)
  BY <1>1, <1>4, <1>6, OthersStill, ReplyTold
<1>9. LedgerTidy'
  BY <1>1, <1>6, <1>7, <1>8, BooksTidy
<1>10. About(type, t).type # "heartbeat"
  BY <1>2 DEF About
<1>11. \A l \in Nodes : \A i \in DOMAIN outbox'[l] :
         (\E j \in DOMAIN outbox[l] : outbox'[l][i] = outbox[l][j]) \/ outbox'[l][i].type # "heartbeat"
  BY <1>1, <1>10, ReplyTold
<1>12. \A l \in Nodes : l \notin open' => runs'[l] = {}
  BY <1>3, <1>4, <1>6 DEF WorkersTidy
<1>13. WorkersTidy'
  BY <1>1, <1>6, <1>11, <1>12, WorkersStay DEF WorkersTidy
<1> QED BY <1>9, <1>13

\* The end of a generation that was aborted, and a heartbeat: no report on a task that counts.
LEMMA NoiseTidy ==
  ASSUME IInv, IInv', LedgerTidy, WorkersTidy, NEW n \in Nodes,
         (\E t \in Tasks : Unwind(n, t)) \/ Heartbeat(n)
  PROVE  LedgerTidy' /\ WorkersTidy'
<1>1. PICK m : /\ Replies(n, <<m>>) /\ OnlyWorker /\ UNCHANGED <<runs, paused>> /\ troubles \subseteq troubles'
               /\ \A l \in Nodes : aborting'[l] \subseteq aborting[l]
               /\ m.type # "heartbeat" => ~Tracked(Coordinator, m.task)
               /\ m.type = "heartbeat" => ~Only(Announced)'
  <2>1. CASE Heartbeat(n)
    <3>0. PICK fit \in {FALSE, n \notin paused} :
            Replies(n, <<[type |-> "heartbeat", active |-> Cardinality(runs[n]), able |-> fit]>>)
      BY <2>1 DEF Heartbeat
    <3> DEFINE m == [type |-> "heartbeat", active |-> Cardinality(runs[n]), able |-> fit]
    <3>1. /\ Replies(n, <<m>>) /\ OnlyWorker /\ UNCHANGED <<runs, paused, aborting>>
          /\ troubles' = troubles \cup {"heartbeat"}
      BY <2>1, <3>0 DEF Heartbeat, Disturb, Strike
    <3>2. m.type = "heartbeat" /\ ~Only(Announced)'
      BY <3>1 DEF Only, Announced
    <3> HIDE DEF m
    <3> QED BY <3>1, <3>2
  <2>2. ASSUME NEW t \in Tasks, Unwind(n, t)
        PROVE  \E m : /\ Replies(n, <<m>>) /\ OnlyWorker /\ UNCHANGED <<runs, paused>> /\ troubles \subseteq troubles'
                      /\ \A l \in Nodes : aborting'[l] \subseteq aborting[l]
                      /\ m.type # "heartbeat" => ~Tracked(Coordinator, m.task)
                      /\ m.type = "heartbeat" => ~Only(Announced)'
    <3> DEFINE m == About("failed", t)
    <3>1. /\ Replies(n, <<m>>) /\ OnlyWorker /\ UNCHANGED <<runs, paused, troubles>>
          /\ t \in aborting[n] /\ aborting' = [aborting EXCEPT ![n] = @ \ {t}]
      BY <2>2 DEF Unwind, troubleVars
    <3>2. m.type = "failed" /\ m.task = t
      BY DEF About
    <3>3. ~Tracked(Coordinator, t) /\ \A l \in Nodes : aborting'[l] \subseteq aborting[l]
      BY <3>1, RunsTyped DEF WorkersTidy
    <3> HIDE DEF m
    <3> QED BY <3>1, <3>2, <3>3
  <2> QED BY <2>1, <2>2
<1>2. /\ Coordinator.inbox = inbox /\ Coordinator'.inbox = inbox' /\ inbox' = inbox /\ InboxesShrink
      /\ UNCHANGED <<jobStatus, status, holder, queues, active, registered, open>>
  BY <1>1, OnlyWorkerQuiet DEF Coordinator, OnlyWorker, coordinatorVars
<1>3. \A r \in Tasks : PassesAt(Coordinator, Coordinator', World, World', r, n)
  <2> DEFINE s == Coordinator
             x == Coordinator'
             w == World
             v == World'
  <2>1. /\ x.inbox[n] = s.inbox[n] /\ v.runs[n] = w.runs[n]
        /\ v.outbox[n] = w.outbox[n] \/ \E k : Told(w, v, n, m, k)
        /\ m.type # "heartbeat" => ~Tracked(s, m.task)
    BY <1>1, <1>2, WorldFields, ReplyTold
  <2> HIDE DEF s, x, w, v
  <2>2. ASSUME NEW r \in Tasks PROVE PassesAt(s, x, w, v, r, n)
    <3>1. CASE Tracked(s, r)
      <4>1. m.type # "heartbeat" => m.task # r
        BY <2>1, <3>1
      <4> QED BY <2>1, <4>1, OtherPasses
    <3>2. CASE ~Tracked(s, r)
      BY <2>1, <3>2 DEF PassesAt, Given, Sent, SentAt
    <3> QED BY <3>1, <3>2
  <2> QED BY <2>2 DEF s, x, w, v
<1>4. Elsewhere(Coordinator, Coordinator', World, World', n)
  BY <1>1, <1>2, OthersStill, ReplyTold
<1>5. LedgerTidy'
  BY <1>1, <1>2, <1>3, <1>4, BooksTidy
<1>6. Only(Announced)' => m.type # "heartbeat"
  BY <1>1
<1>7. Only(Announced)' => \A l \in Nodes : \A i \in DOMAIN outbox'[l] :
         (\E j \in DOMAIN outbox[l] : outbox'[l][i] = outbox[l][j]) \/ outbox'[l][i].type # "heartbeat"
  BY <1>1, <1>6, ReplyTold
<1>8. WorkersTidy'
  BY <1>1, <1>2, <1>7, WorkersStay DEF WorkersTidy
<1> QED BY <1>5, <1>8

\* The worker stops: nothing of what its links and its hands held is left.
LEMMA ClosingTidy ==
  ASSUME IInv, IInv', LedgerTidy, WorkersTidy, NEW n \in Nodes, BeginClose(n)
  PROVE  LedgerTidy' /\ WorkersTidy'
<1> DEFINE s == Coordinator
           a == [s.inbox EXCEPT ![n] = <<>>]
           y == [s EXCEPT !.inbox = a]
<1>1. s \in States /\ Commit(y) /\ open' = open \ {n} /\ outbox' = [outbox EXCEPT ![n] = <<>>]
      /\ runs' = [runs EXCEPT ![n] = {}] /\ aborting' = [aborting EXCEPT ![n] = {}]
      /\ paused' = paused /\ troubles \subseteq troubles'
  BY DEF IInv, CoordinatorSound, Sound, BeginClose, Disturb, Strike
<1>2. UNCHANGED <<jobStatus, status, holder, queues, active, registered>> /\ inbox' = [inbox EXCEPT ![n] = <<>>]
  <2>1. /\ y.jobStatus = s.jobStatus /\ y.status = s.status /\ y.holder = s.holder
        /\ y.queues = s.queues /\ y.registered = s.registered /\ y.active = s.active /\ y.inbox = a
    <3> HIDE DEF s, a
    <3> QED BY <1>1 DEF States
  <2> HIDE DEF y
  <2> QED BY <1>1, <2>1, CoordinatorFields DEF Commit
<1>3. inbox \in [Nodes -> Seq(Messages)] /\ outbox \in [Nodes -> Seq(Reports)]
      /\ <<>> \in Seq(Messages) /\ DOMAIN <<>> = {}
  BY <1>1, CoordinatorFields DEF States, IInv, LinksSound
<1>4. /\ inbox'[n] = <<>> /\ \A l \in Nodes \ {n} : inbox'[l] = inbox[l]
      /\ outbox'[n] = <<>> /\ \A l \in Nodes \ {n} : outbox'[l] = outbox[l]
      /\ runs'[n] = {} /\ \A l \in Nodes \ {n} : runs'[l] = runs[l]
      /\ aborting'[n] = {} /\ \A l \in Nodes \ {n} : aborting'[l] = aborting[l]
  BY <1>1, <1>2, <1>3, RunsTyped
<1>5. InboxesShrink
  BY <1>2, <1>3, <1>4 DEF InboxesShrink
<1>6. \A r \in Tasks : PassesAt(Coordinator, Coordinator', World, World', r, n)
  <2> DEFINE x == Coordinator'
             v == World'
  <2>1. DOMAIN x.inbox[n] = {} /\ DOMAIN v.outbox[n] = {} /\ v.runs[n] = {}
    BY <1>3, <1>4, WorldFields DEF Coordinator
  <2> HIDE DEF x, v
  <2>2. \A r : ~Given(x, v, r, n) /\ ~Airborne(x, v, r, n)
    BY <2>1 DEF Given, Airborne, Sent, SentAt, Heard, HeardAt
  <2> QED BY <2>2 DEF x, v, PassesAt
<1>7. Elsewhere(Coordinator, Coordinator', World, World', n)
  BY <1>4, OthersStill
<1>8. LedgerTidy'
  BY <1>1, <1>2, <1>5, <1>6, <1>7, BooksTidy
<1>9. WorkersTidy'
  <2>1. \A l \in Nodes : l \notin open' => runs'[l] = {}
    BY <1>1, <1>4 DEF WorkersTidy
  <2>2. \A l \in Nodes : \A r \in aborting'[l] : r \in aborting[l]
    BY <1>4
  <2>3. \A l \in Nodes : \A i \in DOMAIN outbox'[l] : \E k \in DOMAIN outbox[l] : outbox'[l][i] = outbox[l][k]
    BY <1>3, <1>4
  <2> QED BY <1>1, <1>2, <2>1, <2>2, <2>3, WorkersStay DEF WorkersTidy
<1> QED BY <1>8, <1>9

\* Nobody is paused, and nothing happens.
LEMMA StillTidy ==
  ASSUME IInv, IInv', LedgerTidy, WorkersTidy, (\E n \in Nodes : Resume(n)) \/ UNCHANGED vars
  PROVE  LedgerTidy' /\ WorkersTidy'
<1>1. UNCHANGED vars
  BY DEF Resume, WorkersTidy
<1>2. /\ UNCHANGED <<jobStatus, status, holder, queues, active, registered, inbox, outbox, runs, troubles>>
      /\ UNCHANGED <<open, aborting, paused>> /\ Coordinator' = Coordinator
  BY <1>1 DEF vars, coordinatorVars, workerVars, troubleVars, Coordinator
<1>3. World' = World
  BY <1>2 DEF World
<1>4. LedgerTidy'
  BY <1>2, <1>3, Landed DEF LedgerTidy
<1>5. WorkersTidy'
  BY <1>2, WorkersStay DEF WorkersTidy
<1> QED BY <1>4, <1>5

-----------------------------------------------------------------------------
(* Steps of the coordinator.                                                 *)

\* Another view of the nodes, another account of the world.
LEMMA ViewTidy ==
  ASSUME NEW s \in States, NEW x \in States, x.jobStatus = s.jobStatus, SameTasks(s, x), x.queues = s.queues,
         x.inbox = s.inbox, s.registered \subseteq x.registered,
         NEW w, Tidy(s, {}, {}, w), NEW v, v.runs = w.runs, v.outbox = w.outbox,
         ExactOf(x, v), CancelledOf(x, v)
  PROVE  Tidy(x, {}, {}, v)
<1>1. CancelsStale(x)
  BY DEF Tidy, CancelsStale, Tracked
<1>2. Passes(s, x, w, v)
  <2>1. \A t \in Tasks, n \in Nodes :
          /\ \A i : SentAt(x, t, n, i) <=> SentAt(s, t, n, i)
          /\ \A i : HeardAt(v, t, n, i) <=> HeardAt(w, t, n, i)
          /\ \A i : VerdictAt(v, t, n, i) <=> VerdictAt(w, t, n, i)
          /\ t \in v.runs[n] <=> t \in w.runs[n]
    BY DEF SentAt, HeardAt, VerdictAt
  <2>2. \A t \in Tasks, n \in Nodes : PassesAt(s, x, w, v, t, n)
    BY <2>1 DEF PassesAt, Given, Airborne, Orderly, Sent, Heard
  <2> QED BY <2>2 DEF Passes
<1>3. \A t \in Tasks : s.holder[t] \in s.registered \/ (t \in {} /\ s.holder[t] = w.lost) =>
                       s.holder[t] \in x.registered \/ (t \in {} /\ s.holder[t] = v.lost)
  OBVIOUS
<1> QED BY <1>1, <1>2, <1>3, TidyWorld

\* A handler is done.
LEMMA Landing ==
  ASSUME IInv', NEW v, Tidy(Coordinator', {}, {}, v), v.runs = runs', v.outbox = outbox', v.troubles = troubles'
  PROVE  LedgerTidy'
<1> DEFINE x == Coordinator'
           u == World'
<1>1. x \in States
  BY DEF IInv, CoordinatorSound, Sound
<1>2. u.runs = v.runs /\ u.outbox = v.outbox /\ u.troubles = v.troubles /\ CancelledOf(x, u) /\ ~u.watch
  BY WorldFields
<1>3. Tidy(x, {}, {}, v)
  OBVIOUS
<1> HIDE DEF x, u
<1>4. ExactOf(x, u)
  BY <1>2, <1>3 DEF Tidy, ExactOf, Turned
<1>5. Tidy(x, {}, {}, u)
  BY <1>1, <1>2, <1>3, <1>4, ViewTidy DEF SameTasks
<1> QED BY <1>5, Landed DEF x, u

\* Watching a handler from here on, for what it does to the tasks; this is of use
\* as long as no job is cancelled, sockets are open and attempts are left.
Watchable == World.cancelled = {} /\ registered \subseteq open /\ MayRetry(Coordinator)
Watching(w, s, W) ==
  [runs |-> w.runs, outbox |-> w.outbox, troubles |-> w.troubles, cancelled |-> w.cancelled,
   lost |-> w.lost, watch |-> Watchable, start |-> s, loose |-> W]
TurnFrom(s, W) == Watchable =>
  /\ NoneCancelled(Coordinator') /\ MayRetry(s)
  /\ Coordinator'.registered = s.registered /\ s.registered \subseteq open
  /\ \A t \in Tasks : TurnOf(s, Coordinator', W, t)

LEMMA TurnedStart ==
  ASSUME NEW s, NEW v, v.start = s,
         v.watch => v.cancelled = {} /\ s.registered \subseteq open /\ MayRetry(s)
  PROVE  Turned(s, v)
BY DEF Turned, TurnOf, SamePhase, SameSent

LEMMA WatchTidy ==
  ASSUME NEW s \in States, NEW w, Tidy(s, {}, {}, w), NEW W,
         Watchable => w.cancelled = {} /\ s.registered \subseteq open /\ MayRetry(s)
  PROVE  Tidy(s, {}, {}, Watching(w, s, W))
<1> DEFINE v == Watching(w, s, W)
<1>1. /\ v.runs = w.runs /\ v.outbox = w.outbox /\ v.troubles = w.troubles /\ v.cancelled = w.cancelled
      /\ v.start = s /\ v.watch = Watchable
  BY DEF Watching
<1> HIDE DEF v
<1>2. ExactOf(s, v) /\ CancelledOf(s, v)
  BY <1>1, TurnedStart DEF Tidy, ExactOf, CancelledOf
<1> QED BY <1>1, <1>2, ViewTidy DEF SameTasks, v

\* The world in which a handler of n's first message runs.
Popped == [runs |-> runs, outbox |-> outbox', troubles |-> troubles, cancelled |-> World.cancelled, lost |-> None,
           watch |-> FALSE, start |-> Coordinator, loose |-> {}]

LEMMA PopTidy ==
  ASSUME IInv, LedgerTidy, NEW n \in Nodes, outbox[n] # <<>>, Consume(n)
  PROVE  /\ Popped.runs = runs' /\ Popped.outbox = outbox' /\ Popped.troubles = troubles' /\ troubles' = troubles
         /\ Popped.cancelled = World.cancelled /\ ~Popped.watch
         /\ Tidy(Coordinator, {}, {}, Popped)
         /\ Head(outbox[n]).type # "heartbeat" /\ Tracked(Coordinator, Head(outbox[n]).task) =>
              /\ Coordinator.status[Head(outbox[n]).task] \in InHand
              /\ Coordinator.holder[Head(outbox[n]).task] = n /\ n \in Coordinator.registered
              /\ Head(outbox[n]).type # "accepted" =>
                   \A l \in Nodes : ~Airborne(Coordinator, Popped, Head(outbox[n]).task, l)
<1> DEFINE s == Coordinator
           w == World
           v == Popped
           q == outbox[n]
           y == outbox'[n]
           m == Head(outbox[n])
           t == m.task
<1>1. /\ v.runs = runs' /\ v.outbox = outbox' /\ v.troubles = troubles' /\ troubles' = troubles /\ v.lost = w.lost
      /\ v.cancelled = w.cancelled /\ w.runs = v.runs /\ w.outbox = outbox /\ w.troubles = v.troubles
      /\ ~v.watch /\ v.cancelled = World.cancelled
  BY WorldFields DEF Consume, troubleVars, Popped
<1>2. /\ outbox \in [Nodes -> Seq(Reports)] /\ outbox' = [outbox EXCEPT ![n] = Tail(q)]
  BY DEF IInv, LinksSound, Consume
<1>3. q \in Seq(Reports) /\ q # <<>> /\ y = Tail(q) /\ \A l \in Nodes \ {n} : outbox'[l] = outbox[l]
  BY <1>2
<1>4. m \in Reports /\ (m.type # "heartbeat" => t \in Tasks)
  BY HeadOfOutbox, ReportOf DEF IInv
<1>5. Tidy(s, {}, {}, w) /\ s \in States
  BY DEF LedgerTidy, IInv, CoordinatorSound, Sound
<1>6. /\ \A r, i : HeardAt(v, r, n, i) <=> i \in DOMAIN y /\ y[i].type # "heartbeat" /\ y[i].task = r
      /\ \A r, i : HeardAt(w, r, n, i) <=> i \in DOMAIN q /\ q[i].type # "heartbeat" /\ q[i].task = r
      /\ \A r, i : VerdictAt(v, r, n, i) <=> HeardAt(v, r, n, i) /\ y[i].type # "accepted"
      /\ \A r, i : VerdictAt(w, r, n, i) <=> HeardAt(w, r, n, i) /\ q[i].type # "accepted"
  BY <1>1 DEF HeardAt, VerdictAt
<1>7. m = Head(q) /\ t = m.task
  OBVIOUS
<1>8. Elsewhere(s, s, w, v, n)
  BY <1>1, <1>3 DEF Elsewhere
<1> HIDE DEF s, w, v, q, y, m, t
<1>9. /\ 1 \in DOMAIN q /\ q[1] = m
      /\ \A i \in DOMAIN y : i \in Nat /\ i + 1 \in DOMAIN q /\ y[i] = q[i + 1] /\ ~(i + 1 <= 1)
  BY <1>3, <1>7
<1>10. /\ \A r, i : HeardAt(v, r, n, i) => i \in Nat /\ ~(i + 1 <= 1) /\ HeardAt(w, r, n, i + 1)
       /\ \A r, i : VerdictAt(v, r, n, i) => i \in Nat /\ VerdictAt(w, r, n, i + 1)
  BY <1>6, <1>9
<1>11. ASSUME NEW r \in Tasks PROVE PassesAt(s, s, w, v, r, n)
  <2>1. Heard(v, r, n) => Heard(w, r, n)
    BY <1>10 DEF Heard
  <2>2. r \in v.runs[n] <=> r \in w.runs[n]
    BY <1>1
  <2>3. ASSUME Orderly(s, w, r, n) PROVE Orderly(s, v, r, n)
    <3>1. \A i, k : HeardAt(v, r, n, i) /\ VerdictAt(v, r, n, k) => i <= k
      <4> SUFFICES ASSUME NEW i, NEW k, HeardAt(v, r, n, i), VerdictAt(v, r, n, k) PROVE i <= k
        OBVIOUS
      <4>1. i \in Nat /\ k \in Nat /\ HeardAt(w, r, n, i + 1) /\ VerdictAt(w, r, n, k + 1)
        BY <1>10
      <4>2. i + 1 <= k + 1
        BY <2>3, <4>1 DEF Orderly
      <4> QED BY <4>1, <4>2
    <3>2. r \in v.runs[n] => \A i : ~VerdictAt(v, r, n, i)
      BY <1>10, <2>2, <2>3 DEF Orderly
    <3> QED BY <2>1, <2>2, <2>3, <3>1, <3>2 DEF Orderly
  <2> QED BY <2>1, <2>2, <2>3 DEF PassesAt, Given, Airborne
<1>12. Passes(s, s, w, v)
  BY <1>8, <1>11, PassesElsewhere
<1>13. Tidy(s, {}, {}, v)
  <2>1. ExactOf(s, v) /\ CancelledOf(s, v) /\ CancelsStale(s)
    BY <1>1, <1>5 DEF Tidy, ExactOf, CancelledOf, Turned
  <2>2. \A r \in Tasks : s.holder[r] \in s.registered \/ (r \in {} /\ s.holder[r] = w.lost) =>
                         s.holder[r] \in s.registered \/ (r \in {} /\ s.holder[r] = v.lost)
    OBVIOUS
  <2> QED BY <1>5, <1>12, <2>1, <2>2, TidyWorld DEF SameTasks
<1>14. ASSUME m.type # "heartbeat", Tracked(s, t)
       PROVE  /\ s.status[t] \in InHand /\ s.holder[t] = n /\ n \in s.registered
              /\ m.type # "accepted" => \A l \in Nodes : ~Airborne(s, v, t, l)
  <2>1. t \in Tasks /\ HeardAt(w, t, n, 1) /\ (m.type # "accepted" => VerdictAt(w, t, n, 1))
    BY <1>4, <1>6, <1>7, <1>9, <1>14
  <2>2. Airborne(s, w, t, n) /\ Heard(w, t, n)
    BY <2>1 DEF Airborne, Heard
  <2>3. FlightOf(s, {}, w, t)
    BY <1>5, <1>14, <2>1 DEF Tidy
  <2>4. s.status[t] \in InHand /\ s.holder[t] = n /\ n \in s.registered /\ Orderly(s, w, t, n)
    BY <2>2, <2>3 DEF FlightOf
  <2>5. ASSUME m.type # "accepted", NEW l \in Nodes, Airborne(s, v, t, l) PROVE FALSE
    <3>1. Airborne(s, w, t, l)
      BY <1>12, <1>14, <2>1, <2>5 DEF Passes, PassesAt
    <3>2. l = n
      BY <2>3, <2>4, <3>1 DEF FlightOf
    <3>3. ~Sent(s, t, n) /\ t \notin w.runs[n] /\ \A i : HeardAt(w, t, n, i) => i <= 1
      BY <2>1, <2>2, <2>4, <2>5 DEF Orderly
    <3>4. ~Heard(v, t, n)
      BY <1>10, <3>3 DEF Heard
    <3> QED BY <1>1, <2>5, <3>2, <3>3, <3>4 DEF Airborne
  <2> QED BY <2>4, <2>5
<1> QED BY <1>1, <1>13, <1>14 DEF s, v, m, t

JobsStay == \A j \in Jobs : jobStatus[j] \in Terminal => jobStatus'[j] = jobStatus[j]

LEMMA HandlerWorkers ==
  ASSUME IInv, IInv', WorkersTidy, JobsStay, UNCHANGED <<open, runs, aborting, paused>>, Shrinks,
         troubles \subseteq troubles'
  PROVE  WorkersTidy'
<1>1. \A n \in Nodes : \A i \in DOMAIN outbox'[n] : \E k \in DOMAIN outbox[n] : outbox'[n][i] = outbox[n][k]
  BY DEF Shrinks
<1> QED BY <1>1, WorkersStay DEF WorkersTidy, JobsStay

LEMMA AcceptedTidy ==
  ASSUME IInv, IInv', LedgerTidy, WorkersTidy, JobsStay, NEW n \in Nodes, OnTaskAccepted(n)
  PROVE  LedgerTidy' /\ WorkersTidy'
<1> DEFINE s == Coordinator
           t == Head(outbox[n]).task
           x == [s EXCEPT !.status[t] = "running"]
           w == Popped
<1>1. UNCHANGED <<open, runs, aborting, paused>> /\ Shrinks /\ Commit(x) /\ Consume(n) /\ outbox[n] # <<>>
      /\ Head(outbox[n]).type = "accepted"
  BY ConsumeEffect DEF OnTaskAccepted, Hears
<1>2. t \in Tasks
  <2>1. /\ Head(outbox[n]) = outbox[n][1] /\ 1 \in DOMAIN outbox[n] /\ outbox[n][1].type = "accepted"
    BY ConsumeEffect DEF OnTaskAccepted
  <2> QED BY <2>1, ReportOf DEF IInv
<1>3. /\ w.runs = runs' /\ w.outbox = outbox' /\ w.troubles = troubles' /\ troubles' = troubles
      /\ Tidy(s, {}, {}, w) /\ ~w.watch
      /\ Tracked(s, t) => s.status[t] \in InHand
  BY <1>1, PopTidy
<1>4. s \in States
  BY DEF IInv, CoordinatorSound, Sound
<1>5. WorkersTidy'
  BY <1>1, <1>3, HandlerWorkers
<1> HIDE DEF s, t, w
<1>6. x \in States /\ Marked(s, x, t, "running")
  BY <1>2, <1>4, StatusEffect DEF TaskStatuses
<1>7. Coordinator' = x
  BY <1>1, <1>6, CommitEffect
<1> HIDE DEF x
<1>8. /\ x.inbox = s.inbox /\ x.active = s.active /\ x.holder = s.holder /\ x.queues = s.queues
      /\ x.jobStatus = s.jobStatus /\ x.registered = s.registered
      /\ x.status[t] = "running" /\ \A r \in Tasks \ {t} : x.status[r] = s.status[r]
      /\ SameNodes(s, x)
  BY <1>2, <1>4, <1>6 DEF Marked, SameJobs, SameWork, SameNodes, SameLinks, States
<1>9. Tracked(s, t) => s.status[t] \in InHand /\ x.status[t] \in InHand /\ LedgerOf(s, {}, {}, w, t) /\ FlightOf(s, {}, w, t)
  BY <1>2, <1>3, <1>8 DEF Tidy, InHand
<1>10. Moved(s, x, t)
  <2>1. Tracked(s, t) => Once(x.queues[JobOf(t)])
    BY <1>2, <1>3, <1>8, TaskNames DEF Tidy, JobTidy, Tracked
  <2>2. Tracked(s, t) => s.status[t] # "completed" /\ s.status[t] # "absent"
    BY <1>9 DEF InHand
  <2> QED BY <1>8, <2>1, <2>2 DEF Moved, Queued
<1>11. ExactOf(x, w)
  <2>1. CASE Tracked(s, t)
    <3>1. \A m : Load(x, m) = Load(s, m)
      BY <1>8, <1>9, <2>1 DEF Load
    <3>2. Busy(s) => Busy(x)
      BY <1>8, <3>1 DEF Busy
    <3> QED BY <1>2, <1>3, <1>4, <1>6, <1>10, <3>2, ExactMoves DEF Tidy, Turned
  <2>2. CASE ~Tracked(s, t)
    BY <1>2, <1>3, <2>2, NotExact DEF Tidy
  <2> QED BY <2>1, <2>2
<1>12. Tracked(s, t) => LedgerOf(x, {}, {}, w, t) /\ FlightOf(x, {}, w, t)
  <2> SUFFICES ASSUME Tracked(s, t) PROVE LedgerOf(x, {}, {}, w, t) /\ FlightOf(x, {}, w, t)
    OBVIOUS
  <2>1. /\ \A m : \A i : SentAt(x, t, m, i) <=> SentAt(s, t, m, i)
        /\ \A m : Sent(x, t, m) <=> Sent(s, t, m)
    BY <1>8 DEF SentAt, Sent
  <2>2. FlightOf(x, {}, w, t)
    BY <1>8, <1>9, <2>1 DEF FlightOf, Airborne, Orderly
  <2>3. LedgerOf(x, {}, {}, w, t)
    BY <1>8, <1>9 DEF LedgerOf, Queued, InHand, Waiting, Settled
  <2> QED BY <2>2, <2>3
<1>13. Tidy(x, {}, {}, w)
  <2>1. But({}, {}, t) /\ {} \ {t} \subseteq {}
    BY DEF But
  <2> QED BY <1>2, <1>3, <1>4, <1>6, <1>8, <1>10, <1>11, <1>12, <2>1, TidyMove
<1>14. LedgerTidy'
  BY <1>3, <1>7, <1>13, Landing DEF w
<1> QED BY <1>5, <1>14

LEMMA RefusedTidy ==
  ASSUME IInv, IInv', LedgerTidy, WorkersTidy, JobsStay, NEW n \in Nodes, OnTaskRefusedOrFailed(n)
  PROVE  /\ LedgerTidy' /\ WorkersTidy'
         /\ TurnFrom(Coordinator, {Head(outbox[n]).task})
<1> DEFINE s == Coordinator
           t == Head(outbox[n]).task
           x == Requeue(s, t)
           w == Watching(Popped, s, {t})
<1>1. UNCHANGED <<open, runs, aborting, paused>> /\ Shrinks /\ Commit(x) /\ Consume(n) /\ outbox[n] # <<>>
      /\ Head(outbox[n]).type \in {"rejected", "failed"}
  BY ConsumeEffect DEF OnTaskRefusedOrFailed, Hears
<1>2. t \in Tasks /\ status[t] # "absent"
  <2>1. /\ Head(outbox[n]) = outbox[n][1] /\ 1 \in DOMAIN outbox[n]
        /\ outbox[n][1].type \in {"rejected", "failed"}
    BY ConsumeEffect DEF OnTaskRefusedOrFailed
  <2> QED BY <2>1, ReportOf DEF IInv
<1>3. /\ w.runs = runs' /\ w.outbox = outbox' /\ w.troubles = troubles' /\ troubles' = troubles
      /\ Tidy(s, {}, {}, w)
      /\ Tracked(s, t) => s.status[t] \in InHand /\ \A l \in Nodes : ~Airborne(s, w, t, l)
  <2>1. /\ Popped.runs = runs' /\ Popped.outbox = outbox' /\ Popped.troubles = troubles'
        /\ troubles' = troubles /\ Popped.cancelled = World.cancelled /\ Tidy(s, {}, {}, Popped)
        /\ Tracked(s, t) => s.status[t] \in InHand /\ \A l \in Nodes : ~Airborne(s, Popped, t, l)
    BY <1>1, PopTidy
  <2>2. s \in States /\ s.registered = registered
    BY CoordinatorFields DEF IInv, CoordinatorSound, Sound
  <2>3. w.runs = Popped.runs /\ w.outbox = Popped.outbox /\ w.troubles = Popped.troubles
    BY DEF Watching
  <2>4. Tidy(s, {}, {}, w)
    BY <2>1, <2>2, WatchTidy DEF Watchable
  <2>5. \A l \in Nodes : Airborne(s, w, t, l) <=> Airborne(s, Popped, t, l)
    BY <2>3 DEF Airborne, Heard, HeardAt
  <2> QED BY <2>1, <2>3, <2>4, <2>5
<1>4. Sound(s, NoneLost) /\ s \in States /\ s.status[t] # "absent"
  BY <1>2, CoordinatorFields DEF IInv, CoordinatorSound, Sound
<1>5. WorkersTidy'
  BY <1>1, <1>3, HandlerWorkers
<1>a. w.watch = Watchable /\ w.start = s /\ w.loose = {t}
  BY DEF Watching
<1> HIDE DEF s, t, w
<1>6. Tidy(s, {t}, {}, w)
  BY <1>2, <1>3, <1>4, GrabTidy
<1>7. Tidy(x, {t} \ {t}, {} \ {t}, w) /\ Sound(x, NoneLost)
  BY <1>a, <1>2, <1>4, <1>6, NoneLostType, RequeueTidy, RequeueSound
<1> HIDE DEF x
<1>8. Tidy(x, {}, {}, w) /\ Coordinator' = x
  <2>1. {t} \ {t} = {} /\ {} \ {t} = {}
    OBVIOUS
  <2> QED BY <1>1, <1>7, <2>1, CommitEffect DEF Sound
<1>9. LedgerTidy'
  BY <1>3, <1>8, Landing
<1>10. TurnFrom(s, {t})
  BY <1>a, <1>8 DEF Tidy, ExactOf, Turned, TurnFrom, CancelledOf, NoneCancelled
<1> QED BY <1>5, <1>9, <1>10 DEF s, t

\* The answer on a task that its worker had: it leaves the books, and frees the slot.
LEMMA AnswerTidy ==
  ASSUME NEW s \in States, NEW w, NEW t \in Tasks, NEW n \in Nodes, Tidy(s, {t}, {}, w), ~w.watch,
         Tracked(s, t) => s.status[t] \in InHand /\ s.holder[t] = n /\ n \in s.registered,
         NEW y \in States, y = Occupy(s, n, -1), NEW x \in States, Marked(y, x, t, "completed")
  PROVE  Tidy(x, {}, {}, w)
<1>1. /\ SameJobs(s, y) /\ SameWork(s, y) /\ SameNodes(s, y)
      /\ y.status = s.status /\ y.holder = s.holder /\ y.inbox = s.inbox
      /\ \A m \in Nodes : y.active[m] =
           IF m = n /\ n \in s.registered
             THEN IF s.active[m] - 1 < 0 THEN 0 ELSE s.active[m] - 1 ELSE s.active[m]
  <2>1. LET z == Occupy(s, n, -1) IN
         /\ SameJobs(s, z) /\ SameWork(s, z) /\ SameNodes(s, z)
         /\ z.status = s.status /\ z.holder = s.holder /\ z.inbox = s.inbox
         /\ \A m \in Nodes : z.active[m] =
              IF m = n /\ n \in s.registered
                THEN IF s.active[m] + (-1) < 0 THEN 0 ELSE s.active[m] + (-1) ELSE s.active[m]
    BY OccupyEffect
  <2>2. \A m \in Nodes : s.active[m] \in Nat
    BY DEF States
  <2> QED BY <2>1, <2>2
<1>2. /\ x.inbox = s.inbox /\ x.active = y.active /\ x.holder = s.holder /\ x.queues = s.queues
      /\ x.jobStatus = s.jobStatus /\ x.registered = s.registered
      /\ x.status[t] = "completed" /\ \A r \in Tasks \ {t} : x.status[r] = s.status[r]
      /\ SameNodes(s, x)
  BY <1>1 DEF Marked, SameJobs, SameWork, SameNodes, SameLinks, States
<1>3. Moved(s, x, t)
  <2>1. Tracked(s, t) => Once(x.queues[JobOf(t)])
    BY <1>2, TaskNames DEF Tidy, JobTidy, Tracked
  <2>2. Tracked(s, t) => s.status[t] # "absent"
    BY DEF InHand
  <2> QED BY <1>2, <2>1, <2>2 DEF Moved, Queued
<1>4. ExactOf(x, w)
  <2>1. CASE Tracked(s, t)
    <3>1. ASSUME Busy(s) PROVE Busy(x)
      <4>1. \A m \in Nodes : m # n => x.active[m] = s.active[m] /\ Load(x, m) = Load(s, m)
        BY <1>1, <1>2, <2>1 DEF Load
      <4>2. x.active[n] = IF s.active[n] - 1 < 0 THEN 0 ELSE s.active[n] - 1
        BY <1>1, <1>2, <2>1
      <4>3. t \in Load(s, n) /\ n \in s.registered
        BY <2>1 DEF Load
      <4>4. Load(x, n) = Load(s, n) \ {t}
        BY <1>2, <2>1 DEF Load, InHand
      <4> QED BY <1>2, <3>1, <4>1, <4>2, <4>3, <4>4, BusyMoves
    <3> QED BY <1>3, <3>1, ExactMoves DEF Tidy, Turned
  <2>2. CASE ~Tracked(s, t)
    BY <2>2, NotExact DEF Tidy
  <2> QED BY <2>1, <2>2
<1>5. Tracked(s, t) => LedgerOf(x, {}, {}, w, t) /\ FlightOf(x, {}, w, t)
  <2> SUFFICES ASSUME Tracked(s, t) PROVE LedgerOf(x, {}, {}, w, t) /\ FlightOf(x, {}, w, t)
    OBVIOUS
  <2>1. FlightOf(x, {}, w, t) /\ ~Queued(s, t)
    BY <1>2, Grounded
  <2> QED BY <1>2, <2>1 DEF LedgerOf, Queued, Waiting, InHand, Settled
<1>6. But({t}, {}, t) /\ {} \ {t} \subseteq {}
  BY DEF But
<1> QED BY <1>2, <1>3, <1>4, <1>5, <1>6, TidyMove

LEMMA CompletedTidy ==
  ASSUME IInv, IInv', LedgerTidy, WorkersTidy, JobsStay, NEW n \in Nodes, OnTaskCompleted(n)
  PROVE  /\ LedgerTidy' /\ WorkersTidy'
         /\ \E z : /\ z.holder = holder /\ z.attempts = attempts /\ z.inbox = inbox
                  /\ z.status = [status EXCEPT ![Head(outbox[n]).task] = "completed"]
                  /\ z.registered = registered /\ TurnFrom(z, {})
<1> DEFINE s == Coordinator
           t == Head(outbox[n]).task
           w == Popped
           y == Occupy(s, n, -1)
           z == [y EXCEPT !.status[t] = "completed"]
           x == Pump(z, JobOf(t))
           u == Watching(w, z, {})
<1>1. UNCHANGED <<open, runs, aborting, paused>> /\ Shrinks /\ Commit(x) /\ Consume(n) /\ outbox[n] # <<>>
      /\ Head(outbox[n]).type = "completed"
  BY ConsumeEffect DEF OnTaskCompleted, Hears, Answered
<1>2. t \in Tasks /\ status[t] # "absent"
  <2>1. /\ Head(outbox[n]) = outbox[n][1] /\ 1 \in DOMAIN outbox[n] /\ outbox[n][1].type = "completed"
    BY ConsumeEffect DEF OnTaskCompleted
  <2> QED BY <2>1, ReportOf DEF IInv
<1>3. /\ w.runs = runs' /\ w.outbox = outbox' /\ w.troubles = troubles' /\ troubles' = troubles
      /\ Tidy(s, {}, {}, w) /\ ~w.watch /\ w.cancelled = World.cancelled
      /\ Tracked(s, t) => s.status[t] \in InHand /\ s.holder[t] = n /\ n \in s.registered
      /\ Tracked(s, t) => s.status[t] \in InHand /\ \A l \in Nodes : ~Airborne(s, w, t, l)
  BY <1>1, PopTidy
<1>4. Sound(s, NoneLost) /\ s \in States /\ s.status[t] # "absent"
  BY <1>2, CoordinatorFields DEF IInv, CoordinatorSound, Sound
<1>a. /\ s.status = status /\ s.holder = holder /\ s.attempts = attempts /\ s.inbox = inbox
      /\ s.registered = registered /\ (Watchable => World.cancelled = {} /\ s.registered \subseteq open /\ MayRetry(s))
  BY CoordinatorFields DEF Watchable
<1>5. WorkersTidy'
  BY <1>1, <1>3, HandlerWorkers
<1> HIDE DEF s, t, w
<1>6. Tidy(s, {t}, {}, w)
  BY <1>2, <1>3, <1>4, GrabTidy
<1>7. /\ y \in States /\ SameJobs(s, y) /\ SameWork(s, y) /\ SameNodes(s, y)
      /\ y.status = s.status /\ y.holder = s.holder /\ y.inbox = s.inbox /\ SameTries(s, y)
  BY <1>4, OccupyEffect
<1>8. y = Occupy(s, n, -1)
  OBVIOUS
<1> HIDE DEF y
<1>9. z \in States /\ Marked(y, z, t, "completed")
  BY <1>2, <1>7, StatusEffect DEF TaskStatuses
<1> HIDE DEF z
<1>10. Tidy(z, {}, {}, w)
  BY <1>2, <1>3, <1>4, <1>6, <1>7, <1>8, <1>9, AnswerTidy
<1>11. Sound(z, NoneLost)
  <2>1. /\ SameJobs(s, z) /\ SameWork(s, z) /\ SameNodes(s, z) /\ z.inbox = s.inbox
        /\ \A r \in Tasks : z.holder[r] \in {None, s.holder[r]}
        /\ \A r \in Tasks : s.status[r] # "absent" <=> z.status[r] # "absent"
    BY <1>2, <1>4, <1>7, <1>9 DEF Marked, SameLinks, States, SameJobs, SameWork, SameNodes
  <2> QED BY <1>4, <1>9, <2>1, NoneLostType, HolderSound
<1>b. /\ z.holder = s.holder /\ z.attempts = s.attempts /\ z.inbox = s.inbox /\ z.registered = s.registered
      /\ z.status = [s.status EXCEPT ![t] = "completed"]
  BY <1>7, <1>9 DEF Marked, SameLinks, SameTries, SameNodes
<1>c. /\ u.watch = Watchable /\ u.start = z /\ u.loose = {}
      /\ u.runs = w.runs /\ u.outbox = w.outbox /\ u.troubles = w.troubles
  BY DEF Watching
<1>d. MayRetry(s) => MayRetry(z)
  BY <1>b DEF MayRetry, Idle, Settled, States
<1>e. Tidy(z, {}, {}, u)
  BY <1>3, <1>9, <1>10, <1>a, <1>b, <1>d, WatchTidy
<1> HIDE DEF u
<1>12. Tidy(x, {}, {}, u) /\ Sound(x, NoneLost)
  BY <1>2, <1>11, <1>e, NoneLostType, TaskNames, PumpTidy, PumpSound DEF NoneLost
<1> HIDE DEF x
<1>13. Coordinator' = x
  BY <1>1, <1>12, CommitEffect DEF Sound
<1>14. LedgerTidy'
  BY <1>3, <1>12, <1>13, <1>c, Landing
<1>15. TurnFrom(z, {})
  BY <1>12, <1>13, <1>c DEF Tidy, ExactOf, Turned, TurnFrom, CancelledOf, NoneCancelled
<1>16. z.status = [status EXCEPT ![Head(outbox[n]).task] = "completed"]
  BY <1>a, <1>b DEF t
<1> QED BY <1>5, <1>14, <1>15, <1>16, <1>a, <1>b

\* A heartbeat sets the busy count: from then on it may be wrong.
LEMMA HeartbeatTidy ==
  ASSUME IInv, IInv', LedgerTidy, WorkersTidy, JobsStay, NEW n \in Nodes, UpdateHeartbeat(n)
  PROVE  LedgerTidy' /\ WorkersTidy'
<1> DEFINE s == Coordinator
           m == Head(outbox[n])
           x == Coordinator'
           w == Popped
<1>1. UNCHANGED <<open, runs, aborting, paused>> /\ Shrinks /\ Consume(n) /\ outbox[n] # <<>>
  BY ConsumeEffect DEF UpdateHeartbeat, Hears
<1>2. m = outbox[n][1] /\ 1 \in DOMAIN outbox[n] /\ outbox[n][1].type = "heartbeat"
  BY ConsumeEffect DEF UpdateHeartbeat
<1>3. /\ w.runs = runs' /\ w.outbox = outbox' /\ w.troubles = troubles' /\ troubles' = troubles
      /\ Tidy(s, {}, {}, w) /\ ~w.watch
  BY <1>1, PopTidy
<1>4. s \in States /\ x \in States
  BY DEF IInv, CoordinatorSound, Sound
<1>5. /\ x.jobStatus = s.jobStatus /\ SameTasks(s, x) /\ x.queues = s.queues /\ x.inbox = s.inbox
      /\ x.registered = s.registered
  <2> DEFINE A == IF m.able THEN s.able \cup {n} ELSE s.able \ {n}
             z == [s EXCEPT !.active[n] = m.active, !.able = IF m.able THEN @ \cup {n} ELSE @ \ {n}]
             y == IF n \notin registered THEN s ELSE z
  <2>1. Commit(y)
    BY DEF UpdateHeartbeat
  <2> HIDE DEF s, m
  <2>2. /\ z.jobStatus = s.jobStatus /\ SameTasks(s, z) /\ z.queues = s.queues /\ z.inbox = s.inbox
        /\ z.registered = s.registered
    BY <1>4 DEF SameTasks, States
  <2> HIDE DEF z
  <2>3. /\ y.jobStatus = s.jobStatus /\ SameTasks(s, y) /\ y.queues = s.queues /\ y.inbox = s.inbox
        /\ y.registered = s.registered
    BY <2>2 DEF SameTasks
  <2> HIDE DEF y
  <2>4. /\ x.jobStatus = y.jobStatus /\ x.status = y.status /\ x.holder = y.holder /\ x.queues = y.queues
        /\ x.inbox = y.inbox /\ x.registered = y.registered
    BY <2>1 DEF Commit, Coordinator
  <2> QED BY <2>3, <2>4 DEF SameTasks
<1>6. ~(w.troubles \subseteq Announced)
  BY <1>2, <1>3 DEF WorkersTidy, Only
<1>7. WorkersTidy'
  BY <1>1, <1>3, HandlerWorkers
<1> HIDE DEF s, x, w
<1>8. Tidy(x, {}, {}, w)
  <2>1. ExactOf(x, w)
    BY <1>3, <1>6 DEF ExactOf, Turned
  <2>2. CancelledOf(x, w)
    BY <1>3, <1>5 DEF Tidy, CancelledOf
  <2> QED BY <1>3, <1>4, <1>5, <2>1, <2>2, ViewTidy
<1>9. LedgerTidy'
  BY <1>3, <1>8, Landing DEF w, x
<1> QED BY <1>7, <1>9

LEMMA RegisterTidy ==
  ASSUME IInv, IInv', LedgerTidy, WorkersTidy, JobsStay, NEW n \in Nodes, Register(n)
  PROVE  LedgerTidy' /\ WorkersTidy'
<1> DEFINE s == Coordinator
           x == Coordinator'
           w == World
           v == World'
<1>1. /\ open' = open \cup {n} /\ UNCHANGED <<outbox, runs, aborting, paused, troubles>>
      /\ n \notin registered
  BY DEF Register, troubleVars
<1>2. s \in States /\ x \in States /\ Tidy(s, {}, {}, w) /\ s.registered = registered
  BY CoordinatorFields DEF IInv, CoordinatorSound, Sound, LedgerTidy
<1>3. /\ x.jobStatus = s.jobStatus /\ SameTasks(s, x) /\ x.queues = s.queues /\ x.inbox = s.inbox
      /\ x.registered = s.registered \cup {n} /\ x.active = s.active
  <2> DEFINE y == [s EXCEPT !.registered = @ \cup {n}, !.able = IF n \in paused THEN @ ELSE @ \cup {n}]
  <2>1. Commit(y)
    BY DEF Register
  <2> HIDE DEF s
  <2>2. /\ y.jobStatus = s.jobStatus /\ SameTasks(s, y) /\ y.queues = s.queues /\ y.inbox = s.inbox
        /\ y.registered = s.registered \cup {n} /\ y.active = s.active
    BY <1>2 DEF SameTasks, States
  <2> HIDE DEF y
  <2>3. /\ x.jobStatus = y.jobStatus /\ x.status = y.status /\ x.holder = y.holder /\ x.queues = y.queues
        /\ x.inbox = y.inbox /\ x.registered = y.registered /\ x.active = y.active
    BY <2>1 DEF Commit, Coordinator
  <2> QED BY <2>2, <2>3 DEF SameTasks
<1>4. v.runs = w.runs /\ v.outbox = w.outbox /\ v.troubles = w.troubles /\ CancelledOf(x, v) /\ ~v.watch
  BY <1>1, WorldFields
<1>5. WorkersTidy'
  <2>1. \A l \in Nodes : l \notin open' => runs'[l] = {}
    BY <1>1 DEF WorkersTidy
  <2> QED BY <1>1, <2>1, WorkersStay DEF WorkersTidy, JobsStay
<1> HIDE DEF s, x, w, v
<1>6. ExactOf(x, v)
  <2> SUFFICES ASSUME w.troubles \subseteq Announced PROVE Busy(x) /\ NoneCancelled(x)
    BY <1>4 DEF ExactOf, Turned
  <2>1. Busy(s) /\ NoneCancelled(s)
    BY <1>2 DEF Tidy, ExactOf
  <2>2. \A m : Load(x, m) = Load(s, m)
    BY <1>3 DEF Load, SameTasks
  <2>3. Load(s, n) = {}
    <3> SUFFICES ASSUME NEW t \in Load(s, n) PROVE FALSE
      OBVIOUS
    <3>1. t \in Tasks /\ s.holder[t] = n /\ s.status[t] \in InHand
      BY DEF Load
    <3>2. Tracked(s, t)
      BY <2>1, <3>1, TaskNames DEF Tracked, NoneCancelled
    <3>3. LedgerOf(s, {}, {}, w, t)
      BY <1>2, <3>1, <3>2 DEF Tidy
    <3>4. s.holder[t] \in s.registered
      BY <3>1, <3>3 DEF LedgerOf
    <3> QED BY <1>1, <1>2, <3>1, <3>4
  <2>4. Cardinality({}) = 0
    BY FS_EmptySet
  <2>5. s.active[n] = 0
    BY <1>1, <1>2, <2>1 DEF Busy
  <2>6. \A m \in Nodes : x.active[m] = IF m \in x.registered THEN Cardinality(Load(x, m)) ELSE 0
    <3> SUFFICES ASSUME NEW m \in Nodes
                 PROVE  x.active[m] = IF m \in x.registered THEN Cardinality(Load(x, m)) ELSE 0
      OBVIOUS
    <3>1. CASE m = n
      BY <1>3, <2>2, <2>3, <2>4, <2>5, <3>1
    <3>2. CASE m # n
      BY <1>3, <2>1, <2>2, <3>2 DEF Busy
    <3> QED BY <3>1, <3>2
  <2>7. Busy(x)
    BY <2>6 DEF Busy
  <2> QED BY <1>3, <2>1, <2>7 DEF NoneCancelled
<1>7. Tidy(x, {}, {}, v)
  BY <1>2, <1>3, <1>4, <1>6, ViewTidy
<1> QED BY <1>5, <1>7, Landed DEF x, v

\* A node is lost that does nothing any more.
LEMMA GoneTidy ==
  ASSUME NEW s \in States, NEW w, Tidy(s, {}, {}, w), NEW n \in Nodes, NEW v,
         v.lost = n, DOMAIN v.outbox[n] = {}, v.runs[n] = {}, v.cancelled = w.cancelled,
         \A m \in Nodes \ {n} : v.outbox[m] = w.outbox[m] /\ v.runs[m] = w.runs[m],
         w.troubles \subseteq v.troubles, Turned(Gone(s, n), v)
  PROVE  Tidy(Gone(s, n), {}, Tasks, v)
<1> DEFINE x == Gone(s, n)
<1>1. x \in States /\ IsGone(s, x, n)
  BY GoneEffect
<1>a. Turned(x, v)
  OBVIOUS
<1> HIDE DEF x
<1>2. /\ x.jobStatus = s.jobStatus /\ SameTasks(s, x) /\ x.queues = s.queues
      /\ x.registered = s.registered \ {n} /\ x.active[n] = 0 /\ x.inbox[n] = <<>>
      /\ \A m \in Nodes \ {n} : x.active[m] = s.active[m] /\ x.inbox[m] = s.inbox[m]
  BY <1>1 DEF IsGone, SameJobs, SameWork
<1>3. DOMAIN x.inbox[n] = {}
  <2>1. DOMAIN <<>> = {}
    OBVIOUS
  <2> QED BY <1>2, <2>1
<1>4. \A r : ~Given(x, v, r, n) /\ ~Airborne(x, v, r, n)
  BY <1>3 DEF Given, Airborne, Sent, SentAt, Heard, HeardAt
<1>5. Elsewhere(s, x, w, v, n)
  BY <1>2 DEF Elsewhere
<1>6. \A r \in Tasks : PassesAt(s, x, w, v, r, n)
  BY <1>4 DEF PassesAt
<1>7. Passes(s, x, w, v)
  BY <1>2, <1>4, <1>5, <1>6, PassesElsewhere
<1>8. CancelledOf(x, v)
  BY <1>2 DEF Tidy, CancelledOf
<1>9. CancelsStale(x)
  <2> SUFFICES ASSUME NEW m \in Nodes, NEW i \in DOMAIN x.inbox[m], x.inbox[m][i].type = "cancel"
               PROVE  ~Tracked(x, x.inbox[m][i].task)
    BY DEF CancelsStale
  <2>1. m # n
    BY <1>3
  <2> QED BY <1>2, <2>1 DEF Tidy, CancelsStale, Tracked
<1>10. ExactOf(x, v)
  <2> SUFFICES ASSUME Busy(s), NoneCancelled(s) PROVE Busy(x) /\ NoneCancelled(x)
    BY <1>a DEF ExactOf, Tidy
  <2>1. \A m : Load(x, m) = Load(s, m)
    BY <1>2 DEF Load, SameTasks
  <2>2. Busy(x)
    BY <1>2, <2>1 DEF Busy
  <2> QED BY <1>2, <2>2 DEF NoneCancelled
<1>11. \A t \in Tasks : s.holder[t] \in s.registered \/ (t \in {} /\ s.holder[t] = w.lost) =>
                        s.holder[t] \in x.registered \/ (t \in Tasks /\ s.holder[t] = v.lost)
  BY <1>2
<1> QED BY <1>1, <1>2, <1>7, <1>8, <1>9, <1>10, <1>11, TidyWorld DEF x

Orphans(s, n) == {t \in Tasks : Idle(s, t) \/ (s.status[t] \in InHand /\ s.holder[t] = n)}

LEMMA LossTidy ==
  ASSUME IInv, IInv', LedgerTidy, WorkersTidy, JobsStay, NEW n \in Nodes, Crash(n) \/ CloseEvent(n)
  PROVE  LedgerTidy' /\ WorkersTidy' /\ TurnFrom(Gone(Coordinator, n), Orphans(Coordinator, n))
<1> DEFINE s == Coordinator
           x == NodeLost(s, n)
           w == World
           z == Gone(s, n)
           u == [runs |-> runs', outbox |-> outbox', troubles |-> troubles', cancelled |-> World.cancelled, lost |-> n]
           v == Watching(u, z, Orphans(s, n))
<1>1. Commit(x) /\ troubles \subseteq troubles' /\ paused' = paused /\ open' = open \ {n}
      /\ open' \subseteq open
  <2>1. CASE Crash(n)
    BY <2>1 DEF Crash, Disturb, Strike
  <2>2. CASE CloseEvent(n)
    BY <2>2 DEF CloseEvent, workerVars, troubleVars
  <2> QED BY <2>1, <2>2
<1>2. /\ outbox'[n] = <<>> /\ \A l \in Nodes \ {n} : outbox'[l] = outbox[l]
      /\ runs'[n] = {} /\ \A l \in Nodes \ {n} : runs'[l] = runs[l]
      /\ \A l \in Nodes : aborting'[l] \subseteq aborting[l]
  <2>1. outbox \in [Nodes -> Seq(Reports)]
    BY DEF IInv, LinksSound
  <2>2. CASE Crash(n)
    BY <2>1, <2>2, RunsTyped DEF Crash
  <2>3. CASE CloseEvent(n)
    BY <2>3 DEF CloseEvent, workerVars, IInv, LinksSound, WorkersTidy
  <2> QED BY <2>2, <2>3
<1>3. Sound(s, NoneLost) /\ s \in States /\ Tidy(s, {}, {}, w)
  BY DEF IInv, CoordinatorSound, Sound, LedgerTidy
<1>4. WorkersTidy'
  <2>1. \A l \in Nodes : l \notin open' => runs'[l] = {}
    BY <1>1, <1>2 DEF WorkersTidy
  <2>2. \A l \in Nodes : \A i \in DOMAIN outbox'[l] : \E k \in DOMAIN outbox[l] : outbox'[l][i] = outbox[l][k]
    <3>1. DOMAIN <<>> = {}
      OBVIOUS
    <3> QED BY <1>2, <3>1
  <2> QED BY <1>1, <1>2, <2>1, <2>2, WorkersStay DEF WorkersTidy, JobsStay
<1>5. /\ v.lost = n /\ DOMAIN v.outbox[n] = {} /\ v.runs[n] = {} /\ v.cancelled = w.cancelled
      /\ \A m \in Nodes \ {n} : v.outbox[m] = w.outbox[m] /\ v.runs[m] = w.runs[m]
      /\ w.troubles \subseteq v.troubles
      /\ v.runs = runs' /\ v.outbox = outbox' /\ v.troubles = troubles'
      /\ v.watch = Watchable /\ v.start = z /\ v.loose = Orphans(s, n) /\ v.cancelled = World.cancelled
  <2>1. DOMAIN <<>> = {}
    OBVIOUS
  <2>2. /\ v.runs = runs' /\ v.outbox = outbox' /\ v.troubles = troubles' /\ v.lost = n
        /\ v.watch = Watchable /\ v.start = z /\ v.loose = Orphans(s, n) /\ v.cancelled = World.cancelled
    BY DEF Watching
  <2> HIDE DEF v
  <2> QED BY <1>1, <1>2, <2>1, <2>2, WorldFields
<1>a. Watchable => World.cancelled = {} /\ s.registered \subseteq open /\ MayRetry(s)
  BY CoordinatorFields DEF Watchable
<1> HIDE DEF s, w, v
<1>b. z.status = s.status /\ z.holder = s.holder /\ z.attempts = s.attempts /\ z.registered \subseteq s.registered
  BY <1>3, GoneEffect DEF IsGone, SameTasks, SameTries
<1> HIDE DEF z
<1>c. Turned(z, v)
  <2>1. MayRetry(s) => MayRetry(z)
    BY <1>b DEF MayRetry, Idle
  <2> QED BY <1>5, <1>a, <1>b, <2>1, TurnedStart
<1>d. LossWatched(v)
  BY <1>5, <1>b DEF LossWatched, Orphans, Idle
<1>6. Tidy(Gone(s, n), {}, Tasks, v)
  BY <1>3, <1>5, <1>c, GoneTidy DEF z
<1>7. Tidy(x, {}, {}, v) /\ Sound(x, NoneLost)
  BY <1>3, <1>5, <1>6, <1>d, NodeLostTidy, NodeLostSound
<1> HIDE DEF x
<1>8. Coordinator' = x
  BY <1>1, <1>7, CommitEffect DEF Sound
<1>9. LedgerTidy'
  BY <1>5, <1>7, <1>8, Landing
<1>10. TurnFrom(z, Orphans(s, n))
  BY <1>5, <1>7, <1>8 DEF Tidy, ExactOf, Turned, TurnFrom, CancelledOf, NoneCancelled
<1> QED BY <1>4, <1>9, <1>10 DEF s, z

LEMMA MicrotaskTidy ==
  ASSUME IInv, IInv', LedgerTidy, WorkersTidy, JobsStay, RunMicrotask
  PROVE  LedgerTidy' /\ WorkersTidy' /\ TurnFrom(Coordinator, {})
<1> DEFINE s == Coordinator
           j == Head(pumps)
           y == [s EXCEPT !.pumps = Tail(@)]
           x == Pump(y, j)
           w == Watching(World, s, {})
<1>1. Sound(s, NoneLost) /\ s \in States /\ s.pumps = pumps /\ Tidy(s, {}, {}, w)
  BY CoordinatorFields, WatchTidy DEF IInv, CoordinatorSound, Sound, LedgerTidy, Watchable
<1>2. Commit(x) /\ UNCHANGED <<open, outbox, runs, aborting, paused, troubles>>
  BY DEF RunMicrotask, workerVars, troubleVars
<1>3. /\ w.runs = runs' /\ w.outbox = outbox' /\ w.troubles = troubles'
      /\ w.watch = Watchable /\ w.start = s /\ w.loose = {}
  BY <1>2, WorldFields DEF Watching
<1>4. WorkersTidy'
  BY <1>2, HandlerWorkers DEF Shrinks, IInv, LinksSound
<1>5. pumps \in Seq(Jobs) /\ pumps # <<>>
  BY <1>1 DEF RunMicrotask, Quiet, States
<1>6. j \in Jobs /\ Tail(pumps) \in Seq(Jobs)
  BY <1>5
<1> HIDE DEF s, w
<1>7. /\ y \in States /\ SameJobs(s, y) /\ SameTasks(s, y) /\ SameWork(s, y) /\ SameNodes(s, y)
      /\ y.inbox = s.inbox /\ y.active = s.active /\ SameTries(s, y)
  <2>1. y = [s EXCEPT !.pumps = Tail(pumps)]
    BY <1>1
  <2>2. [s EXCEPT !.pumps = Tail(pumps)] \in States
    BY <1>1, <1>6 DEF States
  <2>3. /\ SameJobs(s, y) /\ SameTasks(s, y) /\ SameWork(s, y) /\ SameNodes(s, y)
        /\ y.inbox = s.inbox /\ y.active = s.active /\ SameTries(s, y)
    BY <1>1 DEF SameJobs, SameTasks, SameWork, SameNodes, SameTries, States
  <2> QED BY <2>1, <2>2, <2>3
<1> HIDE DEF y, j
<1>8. Sound(y, NoneLost)
  <2>1. \A n \in Nodes : \A i \in DOMAIN y.inbox[n] : \E k \in DOMAIN s.inbox[n] : y.inbox[n][i] = s.inbox[n][k]
    BY <1>7
  <2>2. s.registered \subseteq y.registered
    BY <1>7 DEF SameNodes
  <2> QED BY <1>1, <1>7, <2>1, <2>2, QuietSound, NoneLostType
<1>9. Tidy(y, {}, {}, w)
  <2>1. \A m : Load(y, m) = Load(s, m)
    BY <1>7 DEF Load, SameTasks
  <2>2. Turned(y, w)
    BY <1>1, <1>7, TurnedSame DEF Tidy, SamePhase, SameTasks, SameTries, SameNodes
  <2>3. ExactOf(y, w) /\ CancelledOf(y, w)
    BY <1>1, <1>7, <2>1, <2>2 DEF Tidy, ExactOf, Busy, NoneCancelled, CancelledOf, SameJobs, SameNodes
  <2> QED BY <1>1, <1>7, <2>3, ViewTidy DEF SameJobs, SameWork, SameNodes
<1>10. Tidy(x, {}, {}, w) /\ Sound(x, NoneLost)
  BY <1>6, <1>8, <1>9, NoneLostType, PumpTidy, PumpSound DEF NoneLost
<1> HIDE DEF x
<1>11. Coordinator' = x
  BY <1>2, <1>10, CommitEffect DEF Sound
<1>12. LedgerTidy'
  BY <1>3, <1>10, <1>11, Landing
<1>13. TurnFrom(s, {})
  BY <1>3, <1>10, <1>11 DEF Tidy, ExactOf, Turned, TurnFrom, CancelledOf, NoneCancelled
<1> QED BY <1>4, <1>12, <1>13 DEF s

LEMMA PlantTidy ==
  ASSUME NEW s, Sound(s, NoneLost), NEW w, Tidy(s, {}, {}, w), NEW j \in Jobs,
         s.jobStatus[j] = "none", NEW q, NEW plan, PlanGood(s, j, q, plan)
  PROVE  Tidy(Planting(s, j, q, plan), {}, {}, w)
<1> DEFINE x == Planting(s, j, q, plan)
<1>1. s \in States /\ x \in States /\ IsPlanted(s, x, j, q, plan)
  BY PlantEffect DEF Sound, PlanGood
<1> HIDE DEF x
<1>2. /\ SameNodes(s, x) /\ x.inbox = s.inbox /\ x.holder = s.holder /\ x.active = s.active /\ x.attempts = s.attempts
      /\ x.jobStatus[j] = "running" /\ x.queues[j] = q
      /\ \A i \in Jobs \ {j} : x.jobStatus[i] = s.jobStatus[i] /\ x.queues[i] = s.queues[i]
      /\ \A t \in Tasks : x.status[t] = IF In(q, t) THEN "planned" ELSE s.status[t]
  BY <1>1 DEF IsPlanted, SameLinks, SameTries, States
<1>3. Once(q) /\ \A t : In(q, t) => t \in MapTasks(j)
  BY DEF PlanGood
<1>4. \A t \in Tasks : JobOf(t) = j => s.status[t] = "absent" /\ s.holder[t] = None
  BY DEF Sound, AbsentSound
<1>5. \A t \in Tasks : JobOf(t) # j => ~In(q, t)
  BY <1>3, TaskNames
<1>6. \A t \in Tasks : Tracked(x, t) <=> Tracked(s, t)
  BY <1>2, TaskNames DEF Tracked
<1>7. \A t \in Tasks, n \in Nodes :
        /\ \A i : SentAt(x, t, n, i) <=> SentAt(s, t, n, i)
        /\ Sent(x, t, n) <=> Sent(s, t, n)
  BY <1>2 DEF Sent, SentAt
<1>8. ASSUME NEW t \in Tasks, Tracked(x, t) PROVE LedgerOf(x, {}, {}, w, t) /\ FlightOf(x, {}, w, t)
  <2>1. LedgerOf(s, {}, {}, w, t) /\ FlightOf(s, {}, w, t)
    BY <1>6, <1>8 DEF Tidy
  <2>2. CASE JobOf(t) = j
    <3>1. /\ s.status[t] = "absent" /\ x.holder[t] = None /\ x.jobStatus[JobOf(t)] \in Live
          /\ Queued(x, t) <=> In(q, t)
          /\ x.status[t] = IF In(q, t) THEN "planned" ELSE "absent"
      BY <1>2, <1>4, <2>2 DEF Queued, Live
    <3>2. LedgerOf(x, {}, {}, w, t)
      BY <3>1 DEF LedgerOf, Waiting, InHand
    <3>3. \A n \in Nodes : ~Airborne(s, w, t, n)
      BY <2>1, <3>1 DEF FlightOf, InHand
    <3>4. \A n \in Nodes : ~Airborne(x, w, t, n)
      BY <1>7, <3>3 DEF Airborne
    <3> QED BY <3>2, <3>4 DEF FlightOf
  <2>3. CASE JobOf(t) # j
    <3>1. /\ x.status[t] = s.status[t] /\ x.jobStatus[JobOf(t)] = s.jobStatus[JobOf(t)]
          /\ Queued(x, t) <=> Queued(s, t)
      BY <1>2, <1>5, <2>3, TaskNames DEF Queued
    <3>2. LedgerOf(x, {}, {}, w, t)
      BY <1>2, <2>1, <3>1 DEF LedgerOf, SameNodes
    <3>3. FlightOf(x, {}, w, t)
      BY <1>2, <1>7, <2>1, <3>1 DEF FlightOf, Airborne, Orderly, SameNodes
    <3> QED BY <3>2, <3>3
  <2> QED BY <2>2, <2>3
<1>9. ASSUME NEW i \in Jobs PROVE JobTidy(x, i)
  <2>1. CASE i = j
    <3>1. ~In(q, ReduceTask(j)) /\ ReduceTask(j) \in Tasks /\ JobOf(ReduceTask(j)) = j
      BY <1>3, TaskNames
    <3>2. x.status[ReduceTask(j)] = "absent"
      BY <1>2, <1>4, <3>1
    <3> QED BY <1>2, <1>3, <2>1, <3>2 DEF JobTidy
  <2>2. CASE i # j
    <3>1. \A t \in TasksOf(i) : t \in Tasks /\ x.status[t] = s.status[t]
      <4>1. \A t \in TasksOf(i) : t \in Tasks /\ JobOf(t) # j
        BY <2>2, TaskNames
      <4> QED BY <1>2, <1>5, <4>1
    <3>2. Succeeded(x, i) = Succeeded(s, i)
      BY <3>1, TaskNames DEF Succeeded
    <3>3. x.status[ReduceTask(i)] = s.status[ReduceTask(i)]
      BY <3>1, TaskNames
    <3>4. JobTidy(s, i)
      BY DEF Tidy
    <3> QED BY <1>2, <2>2, <3>2, <3>3, <3>4 DEF JobTidy
  <2> QED BY <2>1, <2>2
<1>10. CancelsStale(x)
  BY <1>1, <1>2, <1>6, InboxTasks DEF Tidy, CancelsStale
<1>11. OneHand(x, w)
  BY <1>7 DEF Tidy, OneHand, Given
<1>12. ExactOf(x, w)
  <2>1. \A t \in Tasks : SamePhase(s, x, t)
    <3> SUFFICES ASSUME NEW t \in Tasks PROVE SamePhase(s, x, t)
      OBVIOUS
    <3>1. CASE In(q, t)
      <4>1. s.status[t] = "absent" /\ x.status[t] = "planned"
        BY <1>2, <1>4, <1>5, <3>1
      <4> QED BY <4>1 DEF InHand, SamePhase
    <3>2. CASE ~In(q, t)
      BY <1>2, <3>2 DEF SamePhase
    <3> QED BY <3>1, <3>2
  <2>2. \A m : Load(x, m) = Load(s, m)
    BY <1>2, <2>1 DEF Load, SamePhase
  <2>3. NoneCancelled(s) => NoneCancelled(x)
    BY <1>2 DEF NoneCancelled
  <2>4. Turned(x, w)
    BY <1>1, <1>2, <2>1, TurnedSame DEF Tidy, SameNodes
  <2> QED BY <1>2, <2>2, <2>3, <2>4 DEF Tidy, ExactOf, Busy, SameNodes
<1>13. CancelledOf(x, w)
  BY <1>2 DEF Tidy, CancelledOf
<1> QED BY <1>8, <1>9, <1>10, <1>11, <1>12, <1>13 DEF Tidy, x

LEMMA SubmitTidy ==
  ASSUME IInv, IInv', LedgerTidy, WorkersTidy, JobsStay, NEW j \in Jobs, Submit(j)
  PROVE  LedgerTidy' /\ WorkersTidy' /\ TurnFrom(Coordinator, {})
<1> DEFINE s == Coordinator
           w == Watching(World, s, {})
<1>1. Sound(s, NoneLost) /\ s \in States /\ Tidy(s, {}, {}, w)
  BY CoordinatorFields, WatchTidy DEF IInv, CoordinatorSound, Sound, LedgerTidy, Watchable
<1>2. UNCHANGED <<open, outbox, runs, aborting, paused, troubles>>
  BY DEF Submit, workerVars, troubleVars
<1>3. /\ w.runs = runs' /\ w.outbox = outbox' /\ w.troubles = troubles'
      /\ w.watch = Watchable /\ w.start = s /\ w.loose = {}
  BY <1>2, WorldFields DEF Watching
<1>4. WorkersTidy'
  BY <1>2, HandlerWorkers DEF Shrinks, IInv, LinksSound
<1>5. /\ s.jobStatus[j] = "none"
      /\ \/ Commit(Refused(s, j))
         \/ \E q, plan : PlanGood(s, j, q, plan) /\ Commit(Planned(s, j, q, plan))
  BY <1>1, SubmitCases
<1> HIDE DEF s, w
<1>6. PICK x : Commit(x) /\ x \in States /\ Tidy(x, {}, {}, w)
  <2>1. CASE Commit(Refused(s, j))
    <3> DEFINE x == Refused(s, j)
    <3>1. x \in States /\ JobMarked(s, x, j, "failed")
      BY <1>1, JobStatusEffect DEF JobStatuses, Refused
    <3> HIDE DEF x
    <3>2. ~Ended(s, j)
      BY <1>5 DEF Ended, Terminal
    <3>3. /\ SameTasks(s, x) /\ SameNodes(s, x) /\ SameLinks(s, x) /\ SameWork(s, x) /\ SameTries(s, x)
          /\ x.jobStatus[j] = "failed" /\ \A i \in Jobs \ {j} : x.jobStatus[i] = s.jobStatus[i]
      BY <1>1, <3>1 DEF JobMarked, States
    <3>4. \A t \in TasksOf(j) : s.status[t] \in Settled \cup {"absent"}
      BY <1>1, <1>5, TaskNames DEF Sound, AbsentSound
    <3>5. x.jobStatus[j] \in Settled /\ x.jobStatus[j] # "completed"
      BY <3>3 DEF Settled
    <3>6. Tidy(x, {}, {}, w)
      BY <1>1, <3>1, <3>2, <3>3, <3>4, <3>5, EndedTidy
    <3> QED BY <2>1, <3>1, <3>6 DEF x
  <2>2. ASSUME NEW q, NEW plan, PlanGood(s, j, q, plan), Commit(Planned(s, j, q, plan))
        PROVE  \E x : Commit(x) /\ x \in States /\ Tidy(x, {}, {}, w)
    <3> DEFINE y == Planting(s, j, q, plan)
               x == Pump(y, j)
    <3>1. Sound(y, NoneLost) /\ Tidy(y, {}, {}, w)
      BY <1>1, <1>5, <2>2, NoneLostType, PlantSound, PlantTidy
    <3>2. Planned(s, j, q, plan) = x
      BY DEF Planned, Planting
    <3> HIDE DEF y
    <3>3. Sound(x, NoneLost) /\ Tidy(x, {}, {}, w)
      BY <3>1, NoneLostType, PumpSound, PumpTidy DEF NoneLost
    <3> HIDE DEF x
    <3> QED BY <2>2, <3>2, <3>3 DEF Sound
  <2> QED BY <1>5, <2>1, <2>2
<1>7. Coordinator' = x
  BY <1>6, CommitEffect
<1>8. LedgerTidy'
  BY <1>3, <1>6, <1>7, Landing
<1>9. TurnFrom(s, {})
  BY <1>3, <1>6, <1>7 DEF Tidy, ExactOf, Turned, TurnFrom, CancelledOf, NoneCancelled
<1> QED BY <1>4, <1>8, <1>9 DEF s

\* The tasks of a cancelled job do not count any more, nor do busy counts.
LEMMA CancelledTidy ==
  ASSUME NEW s \in States, NEW w, Tidy(s, {}, {}, w), NEW j \in Jobs, NEW x \in States,
         SameNodes(s, x), x.holder = s.holder, x.jobStatus[j] = "cancelled",
         \A i \in Jobs \ {j} : x.jobStatus[i] = s.jobStatus[i] /\ x.queues[i] = s.queues[i],
         \A t \in Tasks \ TasksOf(j) : x.status[t] = s.status[t],
         \A n \in Nodes : /\ DOMAIN s.inbox[n] \subseteq DOMAIN x.inbox[n]
                          /\ \A i \in DOMAIN s.inbox[n] : x.inbox[n][i] = s.inbox[n][i]
                          /\ \A i \in DOMAIN x.inbox[n] \ DOMAIN s.inbox[n] :
                               x.inbox[n][i].type = "cancel" /\ x.inbox[n][i].task \in TasksOf(j),
         NEW v, v.runs = w.runs, v.outbox = w.outbox, ~(v.troubles \subseteq Announced), ~v.watch,
         CancelledOf(x, v)
  PROVE  Tidy(x, {}, {}, v)
<1>1. \A t \in Tasks : Tracked(x, t) => Tracked(s, t) /\ JobOf(t) # j /\ JobOf(t) \in Jobs /\ t \notin TasksOf(j)
  BY TaskNames DEF Tracked
<1>2. \A t, n : About("assign", t).type = "assign"
  BY DEF About
<1>3. \A t \in Tasks, n \in Nodes : \A i : SentAt(x, t, n, i) <=> SentAt(s, t, n, i)
  <2> SUFFICES ASSUME NEW t \in Tasks, NEW n \in Nodes, NEW i PROVE SentAt(x, t, n, i) <=> SentAt(s, t, n, i)
    OBVIOUS
  <2>1. CASE i \in DOMAIN s.inbox[n]
    BY <2>1 DEF SentAt
  <2>2. CASE i \notin DOMAIN s.inbox[n]
    <3>1. i \in DOMAIN x.inbox[n] => x.inbox[n][i].type = "cancel"
      BY <2>2
    <3> QED BY <1>2, <2>2, <3>1 DEF SentAt
  <2> QED BY <2>1, <2>2
<1>4. \A t \in Tasks, n \in Nodes :
        /\ Sent(x, t, n) <=> Sent(s, t, n)
        /\ \A i : HeardAt(v, t, n, i) <=> HeardAt(w, t, n, i)
        /\ \A i : VerdictAt(v, t, n, i) <=> VerdictAt(w, t, n, i)
        /\ Heard(v, t, n) <=> Heard(w, t, n)
        /\ t \in v.runs[n] <=> t \in w.runs[n]
  BY <1>3 DEF Sent, HeardAt, VerdictAt, Heard
<1>5. ASSUME NEW t \in Tasks, Tracked(x, t) PROVE LedgerOf(x, {}, {}, v, t) /\ FlightOf(x, {}, v, t)
  <2>1. LedgerOf(s, {}, {}, w, t) /\ FlightOf(s, {}, w, t)
    BY <1>1, <1>5 DEF Tidy
  <2>2. /\ x.status[t] = s.status[t] /\ x.jobStatus[JobOf(t)] = s.jobStatus[JobOf(t)]
        /\ Queued(x, t) <=> Queued(s, t)
    BY <1>1, <1>5 DEF Queued
  <2>3. LedgerOf(x, {}, {}, v, t)
    BY <2>1, <2>2 DEF LedgerOf, SameNodes
  <2>4. ASSUME NEW n \in Nodes, Airborne(x, v, t, n)
        PROVE  /\ t \notin {} /\ x.status[t] \in InHand /\ x.holder[t] = n /\ n \in x.registered
               /\ Orderly(x, v, t, n)
    <3>1. Airborne(s, w, t, n)
      BY <1>4, <2>4 DEF Airborne
    <3>2. s.status[t] \in InHand /\ s.holder[t] = n /\ n \in s.registered /\ Orderly(s, w, t, n)
      BY <2>1, <3>1 DEF FlightOf
    <3>3. Orderly(x, v, t, n)
      BY <1>3, <1>4, <3>2 DEF Orderly
    <3> QED BY <2>2, <3>2, <3>3 DEF SameNodes
  <2> QED BY <2>3, <2>4 DEF FlightOf
<1>6. ASSUME NEW i \in Jobs PROVE JobTidy(x, i)
  <2>1. CASE i = j
    BY <2>1 DEF JobTidy
  <2>2. CASE i # j
    <3>1. \A t \in TasksOf(i) : x.status[t] = s.status[t]
      <4>1. \A t \in TasksOf(i) : t \in Tasks /\ t \notin TasksOf(j)
        BY <2>2, TaskNames
      <4> QED BY <4>1
    <3>2. Succeeded(x, i) = Succeeded(s, i) /\ x.status[ReduceTask(i)] = s.status[ReduceTask(i)]
      BY <3>1, TaskNames DEF Succeeded
    <3>3. JobTidy(s, i)
      BY DEF Tidy
    <3> QED BY <2>2, <3>2, <3>3 DEF JobTidy
  <2> QED BY <2>1, <2>2
<1>7. CancelsStale(x)
  <2> SUFFICES ASSUME NEW m \in Nodes, NEW i \in DOMAIN x.inbox[m], x.inbox[m][i].type = "cancel"
               PROVE  ~Tracked(x, x.inbox[m][i].task)
    BY DEF CancelsStale
  <2>1. x.inbox[m][i].task \in Tasks
    BY InboxTasks
  <2>2. CASE i \in DOMAIN s.inbox[m]
    <3>1. x.inbox[m][i] = s.inbox[m][i]
      BY <2>2
    <3>2. ~Tracked(s, x.inbox[m][i].task)
      BY <2>2, <3>1 DEF Tidy, CancelsStale
    <3> QED BY <1>1, <2>1, <3>2
  <2>3. CASE i \notin DOMAIN s.inbox[m]
    <3>1. x.inbox[m][i].task \in TasksOf(j)
      BY <2>3
    <3> QED BY <1>1, <2>1, <3>1
  <2> QED BY <2>2, <2>3
<1>8. OneHand(x, v)
  BY <1>4 DEF Tidy, OneHand, Given
<1>9. ExactOf(x, v)
  BY DEF ExactOf, Turned
<1> QED BY <1>5, <1>6, <1>7, <1>8, <1>9 DEF Tidy

LEMMA CancelTidy ==
  ASSUME IInv, IInv', LedgerTidy, WorkersTidy, JobsStay, NEW j \in Jobs, Cancel(j)
  PROVE  LedgerTidy' /\ WorkersTidy'
<1> DEFINE s == Coordinator
           w == World
           v == World'
           d == DropAll(s, j)
           x == Cancelled(d, j)
<1>1. s \in States /\ Tidy(s, {}, {}, w)
  BY DEF IInv, CoordinatorSound, Sound, LedgerTidy
<1>2. Commit(x) /\ UNCHANGED <<open, outbox, runs, aborting, paused>> /\ troubles' = troubles \cup {"cancel"}
  BY DEF Cancel, workerVars, Cancelled, Disturb, Strike
<1>3. v.runs = w.runs /\ v.outbox = w.outbox /\ ~(v.troubles \subseteq Announced) /\ CancelledOf(Coordinator', v) /\ ~v.watch
  BY <1>2, WorldFields DEF Announced
<1>4. WorkersTidy'
  BY <1>2, HandlerWorkers DEF Shrinks, IInv, LinksSound
<1> HIDE DEF s, w, v
<1>5. d \in States /\ Dropping(s, d, j)
  BY <1>1, DropAllEffect DEF Dropping
<1> HIDE DEF d
<1>6. x \in States /\ IsCancelled(d, x, j)
  BY <1>5, CancelledEffect
<1> HIDE DEF x
<1>7. Coordinator' = x
  BY <1>2, <1>6, CommitEffect
<1>8. /\ SameNodes(s, x) /\ x.holder = s.holder /\ x.inbox = d.inbox /\ x.jobStatus[j] = "cancelled"
      /\ \A i \in Jobs \ {j} : x.jobStatus[i] = s.jobStatus[i] /\ x.queues[i] = s.queues[i]
      /\ \A t \in Tasks \ TasksOf(j) : x.status[t] = s.status[t]
  BY <1>1, <1>5, <1>6 DEF Dropping, IsCancelled, SameTasks, SameNodes, SameLinks, SameJobs, SameWork, States
<1>9. \A n \in Nodes : /\ DOMAIN s.inbox[n] \subseteq DOMAIN x.inbox[n]
                       /\ \A i \in DOMAIN s.inbox[n] : x.inbox[n][i] = s.inbox[n][i]
                       /\ \A i \in DOMAIN x.inbox[n] \ DOMAIN s.inbox[n] :
                            x.inbox[n][i].type = "cancel" /\ x.inbox[n][i].task \in TasksOf(j)
  BY <1>5, <1>8 DEF Dropping
<1>10. CancelledOf(x, v)
  BY <1>3, <1>7
<1>11. Tidy(x, {}, {}, v)
  BY <1>1, <1>3, <1>6, <1>8, <1>9, <1>10, CancelledTidy
<1> QED BY <1>4, <1>7, <1>11, Landed DEF v

-----------------------------------------------------------------------------
(* The invariant holds from the start and every step preserves it.           *)

LEMMA InitTidy ==
  ASSUME Init
  PROVE  LedgerTidy /\ WorkersTidy
<1> DEFINE s == Coordinator
           w == World
<1>1. DOMAIN <<>> = {}
  OBVIOUS
<1>2. /\ s.jobStatus = [j \in Jobs |-> "none"] /\ s.status = [t \in Tasks |-> "absent"]
      /\ s.holder = [t \in Tasks |-> None] /\ s.queues = [j \in Jobs |-> <<>>]
      /\ s.registered = {} /\ s.active = [n \in Nodes |-> 0] /\ s.inbox = [n \in Nodes |-> <<>>]
  BY CoordinatorFields DEF Init
<1>3. w.runs = [n \in Nodes |-> {}] /\ w.outbox = [n \in Nodes |-> <<>>] /\ CancelledOf(s, w) /\ ~w.watch
  BY WorldFields DEF Init
<1> HIDE DEF s, w
<1>4. \A t \in Tasks : JobOf(t) \in Jobs
  BY TaskNames
<1>5. ASSUME NEW j \in Jobs PROVE Once(s.queues[j]) /\ \A t : ~In(s.queues[j], t)
  BY <1>1, <1>2 DEF Once, In, At
<1>6. ASSUME NEW t \in Tasks PROVE LedgerOf(s, {}, {}, w, t)
  <2>1. ~Queued(s, t) /\ s.status[t] = "absent"
    BY <1>2, <1>4, <1>5 DEF Queued
  <2> QED BY <2>1 DEF LedgerOf, Waiting, InHand, Settled
<1>7. ASSUME NEW t \in Tasks, NEW n \in Nodes PROVE ~Airborne(s, w, t, n)
  BY <1>1, <1>2, <1>3 DEF Airborne, Sent, SentAt, Heard, HeardAt
<1>8. ASSUME NEW j \in Jobs PROVE JobTidy(s, j)
  <2>1. ReduceTask(j) \in Tasks
    BY TaskNames, TaskNumbers
  <2> QED BY <1>2, <1>5, <2>1 DEF JobTidy
<1>9. CancelsStale(s)
  BY <1>1, <1>2 DEF CancelsStale
<1>10. OneHand(s, w)
  BY <1>7 DEF OneHand, Given, Airborne
<1>11. ExactOf(s, w)
  <2>1. Cardinality({}) = 0
    BY FS_EmptySet
  <2> QED BY <1>2, <1>3, <2>1 DEF ExactOf, Busy, NoneCancelled, Turned
<1>12. Tidy(s, {}, {}, w)
  BY <1>3, <1>6, <1>7, <1>8, <1>9, <1>10, <1>11 DEF Tidy, FlightOf
<1>13. WorkersTidy
  BY <1>1 DEF Init, WorkersTidy
<1> QED BY <1>12, <1>13 DEF LedgerTidy, s, w

\* Trouble that struck is never forgotten.
LEMMA TroublesGrow ==
  ASSUME [Next]_vars
  PROVE  troubles \subseteq troubles'
<1> USE DEF Disturb, Strike
<1>1. CASE RunMicrotask \/ SweepTimeouts
  BY <1>1 DEF RunMicrotask, SweepTimeouts, troubleVars
<1>2. ASSUME NEW j \in Jobs, Submit(j) \/ Cancel(j) PROVE troubles \subseteq troubles'
  <2>1. CASE Submit(j)
    BY <2>1 DEF Submit, troubleVars
  <2>2. CASE Cancel(j)
    BY <2>2 DEF Cancel
  <2> QED BY <1>2, <2>1, <2>2
<1>3. ASSUME NEW n \in Nodes, Receives(n) PROVE troubles \subseteq troubles'
  <2>1. Consume(n)
    BY <1>3 DEF Receives, OnTaskAccepted, OnTaskRefusedOrFailed, OnTaskCompleted, UpdateHeartbeat
  <2> QED BY <2>1 DEF Consume, troubleVars
<1>4. ASSUME NEW n \in Nodes, Works(n) \/ \E t \in Tasks : FailTask(n, t) PROVE troubles \subseteq troubles'
  BY <1>4 DEF Works, Accept, Refuse, Abort, Complete, Unwind, FailTask, troubleVars
<1>5. ASSUME NEW n \in Nodes, Crash(n) \/ SweepStale(n) \/ BeginClose(n) PROVE troubles \subseteq troubles'
  BY <1>5 DEF Crash, SweepStale, BeginClose
<1>6. ASSUME NEW n \in Nodes, CloseEvent(n) \/ Register(n) \/ Reregister(n) \/ ReplacedCloseEvent(n)
      PROVE  troubles \subseteq troubles'
  BY <1>6 DEF CloseEvent, Register, Reregister, ReplacedCloseEvent, troubleVars
<1>7. ASSUME NEW n \in Nodes, Pause(n) \/ Resume(n) \/ Heartbeat(n) PROVE troubles \subseteq troubles'
  BY <1>7 DEF Pause, Resume, Heartbeat, troubleVars
<1>8. CASE UNCHANGED vars
  BY <1>8 DEF vars, troubleVars
<1>9. ASSUME NEW n \in Nodes,
             \/ Receives(n) \/ Works(n) \/ \E t \in Tasks : FailTask(n, t)
             \/ Crash(n) \/ SweepStale(n) \/ BeginClose(n) \/ CloseEvent(n) \/ Register(n)
             \/ Reregister(n) \/ ReplacedCloseEvent(n)
             \/ Pause(n) \/ Resume(n) \/ Heartbeat(n)
      PROVE  troubles \subseteq troubles'
  BY <1>3, <1>4, <1>5, <1>6, <1>7, <1>9
<1> QED BY <1>1, <1>2, <1>8, <1>9 DEF Next

\* A node at work is given up only by the sweeps, by a pause and over a second session.
LEMMA NotCalm ==
  ASSUME TroublesSound,
         SweepTimeouts \/ \E n \in Nodes : SweepStale(n) \/ Pause(n) \/ Reregister(n) \/ ReplacedCloseEvent(n)
  PROVE  ~Calm'
<1>1. troubles' \cap {"timeout", "lost", "pause", "replaced"} # {}
  BY DEF SweepTimeouts, SweepStale, Pause, Reregister, ReplacedCloseEvent, TroublesSound, Disturb, Strike
<1> QED BY <1>1 DEF Calm, Only, Announced

LEMMA StepTidy ==
  ASSUME IInv, BInv, [Next]_vars
  PROVE  BInv'
<1> SUFFICES ASSUME Calm' PROVE LedgerTidy' /\ WorkersTidy'
  BY DEF BInv
<1>1. IInv' /\ JobsStay
  BY StepSound DEF JobsStay
<1>2. LedgerTidy /\ WorkersTidy
  BY TroublesGrow DEF BInv, Calm, Only
<1>3. /\ ~SweepTimeouts
      /\ \A n \in Nodes : ~SweepStale(n) /\ ~Pause(n) /\ ~Reregister(n) /\ ~ReplacedCloseEvent(n)
  BY NotCalm DEF IInv
<1>4. CASE RunMicrotask
  BY <1>1, <1>2, <1>4, MicrotaskTidy
<1>5. ASSUME NEW j \in Jobs, Submit(j) \/ Cancel(j) PROVE LedgerTidy' /\ WorkersTidy'
  BY <1>1, <1>2, <1>5, SubmitTidy, CancelTidy
<1>6. ASSUME NEW n \in Nodes, Receives(n) PROVE LedgerTidy' /\ WorkersTidy'
  BY <1>1, <1>2, <1>6, AcceptedTidy, RefusedTidy, CompletedTidy, HeartbeatTidy DEF Receives
<1>7. ASSUME NEW n \in Nodes, Accept(n) \/ Refuse(n) \/ Abort(n) PROVE LedgerTidy' /\ WorkersTidy'
  BY <1>1, <1>2, <1>7, TakeTidy, AbortTidy
<1>8. ASSUME NEW n \in Nodes, NEW t \in Tasks, Complete(n, t) \/ FailTask(n, t)
      PROVE  LedgerTidy' /\ WorkersTidy'
  BY <1>1, <1>2, <1>8, VerdictTidy
<1>9. ASSUME NEW n \in Nodes, (\E t \in Tasks : Unwind(n, t)) \/ Heartbeat(n)
      PROVE  LedgerTidy' /\ WorkersTidy'
  BY <1>1, <1>2, <1>9, NoiseTidy
<1>10. ASSUME NEW n \in Nodes, Crash(n) \/ CloseEvent(n) PROVE LedgerTidy' /\ WorkersTidy'
  BY <1>1, <1>2, <1>10, LossTidy
<1>11. ASSUME NEW n \in Nodes, BeginClose(n) \/ Register(n) PROVE LedgerTidy' /\ WorkersTidy'
  BY <1>1, <1>2, <1>11, ClosingTidy, RegisterTidy
<1>12. CASE (\E n \in Nodes : Resume(n)) \/ UNCHANGED vars
  BY <1>1, <1>2, <1>12, StillTidy
<1>13. ASSUME NEW n \in Nodes,
              \/ Receives(n) \/ Works(n) \/ \E t \in Tasks : FailTask(n, t)
              \/ Crash(n) \/ SweepStale(n) \/ BeginClose(n) \/ CloseEvent(n) \/ Register(n)
              \/ Reregister(n) \/ ReplacedCloseEvent(n)
              \/ Pause(n) \/ Resume(n) \/ Heartbeat(n)
       PROVE  LedgerTidy' /\ WorkersTidy'
  <2>1. CASE Works(n)
    BY <1>7, <1>8, <1>9, <2>1 DEF Works
  <2>2. CASE \E t \in Tasks : FailTask(n, t)
    BY <1>8, <2>2
  <2> QED BY <1>3, <1>6, <1>9, <1>10, <1>11, <1>12, <1>13, <2>1, <2>2
<1> QED BY <1>3, <1>4, <1>5, <1>12, <1>13 DEF Next

LEMMA AlwaysTidy == Spec => [](IInv /\ BInv)
<1>1. Init => IInv /\ BInv
  BY InitSound, InitTidy DEF BInv
<1>2. IInv /\ BInv /\ [Next]_vars => IInv' /\ BInv'
  BY StepSound, StepTidy
<1> QED BY <1>1, <1>2, PTL DEF Spec

\* The invariant, as a reader of the ledger meets it.
LEMMA TidyFields ==
  ASSUME IInv, LedgerTidy, NEW t \in Tasks
  PROVE  /\ jobStatus[JobOf(t)] # "cancelled" =>
              /\ In(queues[JobOf(t)], t) => status[t] \in Waiting
              /\ status[t] \in Waiting => In(queues[JobOf(t)], t)
              /\ status[t] \in InHand => holder[t] \in registered
              /\ status[t] # "cancelled" /\ Once(queues[JobOf(t)])
              /\ jobStatus[JobOf(t)] \notin Live => status[t] \in Settled \cup {"absent"}
         /\ status[t] \in TaskStatuses /\ holder[t] \in Nodes \cup {None} /\ registered \subseteq Nodes
         /\ JobOf(t) \in Jobs
<1> DEFINE s == Coordinator
           w == World
<1>1. s \in States /\ Tidy(s, {}, {}, w)
  BY DEF IInv, CoordinatorSound, Sound, LedgerTidy
<1>2. /\ s.jobStatus = jobStatus /\ s.queues = queues /\ s.status = status
      /\ s.holder = holder /\ s.registered = registered
  BY CoordinatorFields
<1>3. JobOf(t) \in Jobs
  BY TaskNames
<1> HIDE DEF s, w
<1>4. Tracked(s, t) => LedgerOf(s, {}, {}, w, t) /\ JobTidy(s, JobOf(t))
  BY <1>1, <1>3 DEF Tidy
<1>5. status[t] \in TaskStatuses /\ holder[t] \in Nodes \cup {None} /\ registered \subseteq Nodes
  BY <1>1, <1>2 DEF States
<1>6. Tracked(s, t) <=> jobStatus[JobOf(t)] # "cancelled"
  BY <1>2 DEF Tracked
<1>7. Queued(s, t) <=> In(queues[JobOf(t)], t)
  BY <1>2 DEF Queued
<1>8. Tracked(s, t) => Once(queues[JobOf(t)])
  BY <1>2, <1>4 DEF JobTidy, Tracked
<1> QED BY <1>2, <1>3, <1>4, <1>5, <1>6, <1>7, <1>8 DEF LedgerOf

\* A task that is queued once has one place in its job's queues.
LEMMA OnePlace ==
  ASSUME NEW t \in Tasks, Once(queues[JobOf(t)])
  PROVE  /\ ~In(queues[JobOf(t)], t) => QueuedAt(t) = {}
         /\ In(queues[JobOf(t)], t) => Cardinality(QueuedAt(t)) = 1
<1> DEFINE q == queues[JobOf(t)]
<1>1. QueuedAt(t) = {p \in Places(q) : q[p[1]].tasks[p[2]] = t}
  BY DEF QueuedAt
<1>2. Once(q)
  OBVIOUS
<1> HIDE DEF q
<1>3. \A p \in QueuedAt(t) : p = <<p[1], p[2]>> /\ At(q, p[1], p[2], t)
  BY <1>1 DEF Places, At
<1>4. \A i, k : At(q, i, k, t) => <<i, k>> \in QueuedAt(t)
  <2> SUFFICES ASSUME NEW i, NEW k, At(q, i, k, t) PROVE <<i, k>> \in QueuedAt(t)
    OBVIOUS
  <2>1. <<i, k>> \in {i} \X DOMAIN q[i].tasks /\ i \in DOMAIN q
    BY DEF At
  <2>2. <<i, k>> \in Places(q)
    BY <2>1 DEF Places
  <2> QED BY <1>1, <2>2 DEF At
<1>5. ~In(q, t) => QueuedAt(t) = {}
  BY <1>3 DEF In
<1>6. ASSUME In(q, t) PROVE Cardinality(QueuedAt(t)) = 1
  <2>1. PICK i, k : At(q, i, k, t)
    BY <1>6 DEF In
  <2>2. \A p \in QueuedAt(t) : p = <<i, k>>
    BY <1>2, <1>3, <2>1 DEF Once
  <2>3. QueuedAt(t) = {<<i, k>>}
    BY <1>4, <2>1, <2>2
  <2> QED BY <2>3, FS_Singleton
<1> QED BY <1>5, <1>6 DEF q

\* No task of a live job is lost sight of, also while deferred pumps wait: until a
\* node that is at work is given up, an open task is held by a connected node, or
\* it waits in its job's queues, in one place.
THEOREM NothingMislaid == Spec => []NoTaskMislaid
<1>1. IInv /\ BInv => NoTaskMislaid
  <2> SUFFICES ASSUME IInv, LedgerTidy, NEW j \in Jobs, jobStatus[j] \in Live, NEW t \in TasksOf(j)
               PROVE  \/ status[t] \in Settled \cup {"absent"} /\ QueuedAt(t) = {}
                      \/ status[t] \in {"assigned", "running"} /\ holder[t] \in registered /\ QueuedAt(t) = {}
                      \/ status[t] \in {"planned", "reassigned"} /\ Cardinality(QueuedAt(t)) = 1
    BY DEF NoTaskMislaid, BInv, Calm
  <2>1. t \in Tasks /\ JobOf(t) = j
    BY TaskNames
  <2>2. jobStatus[j] # "cancelled"
    BY DEF Live
  <2>3. status[t] \in TaskStatuses /\ status[t] # "cancelled" /\ Once(queues[JobOf(t)])
    BY <2>1, <2>2, TidyFields
  <2>4. CASE status[t] \in Waiting
    BY <2>1, <2>2, <2>3, <2>4, TidyFields, OnePlace DEF Waiting
  <2>5. CASE status[t] \notin Waiting
    <3>1. QueuedAt(t) = {}
      BY <2>1, <2>2, <2>3, <2>5, TidyFields, OnePlace
    <3>2. status[t] \in InHand => holder[t] \in registered
      BY <2>1, <2>2, TidyFields
    <3> QED BY <2>3, <2>5, <3>1, <3>2 DEF Waiting, InHand, Settled, TaskStatuses
  <2> QED BY <2>4, <2>5
<1> QED BY <1>1, AlwaysTidy, PTL

\* Until a node that is at work is given up, no two workers have one task, running
\* or on its way to them: crashes, refusals, cancelled jobs and stale busy counts
\* never have a task handed out while another worker may still answer it.
THEOREM OneWorker == Spec => []HandedToOneNode
<1>1. IInv /\ BInv => HandedToOneNode
  <2> SUFFICES ASSUME LedgerTidy, NEW t \in Tasks, NEW n \in Nodes, WorksOn(n, t),
                      NEW m \in Nodes, WorksOn(m, t)
               PROVE  m = n
    BY DEF HandedToOneNode, BInv, Calm
  <2>1. \A k \in Nodes : WorksOn(k, t) => Given(Coordinator, World, t, k)
    BY CoordinatorFields, WorldFields DEF WorksOn, Given, Sent, SentAt
  <2>2. OneHand(Coordinator, World)
    BY DEF LedgerTidy, Tidy
  <2> QED BY <2>1, <2>2 DEF OneHand
<1> QED BY <1>1, AlwaysTidy, PTL

\* The busy count of a registered node is the number of tasks the ledger says it
\* holds, as long as tasks come back only by verdicts, refusals and announced losses.
THEOREM BusyExact == Spec => []BusyCountExact
<1>1. IInv /\ BInv => BusyCountExact
  <2> SUFFICES ASSUME LedgerTidy, Only(Announced), NEW n \in registered, registered \subseteq Nodes
               PROVE  active[n] = Cardinality(HeldBy(n))
    <3>1. IInv => registered \subseteq Nodes
      BY CoordinatorFields DEF IInv, CoordinatorSound, Sound, States
    <3> QED BY <3>1 DEF BusyCountExact, BInv, Calm, Only
  <2>1. Busy(Coordinator)
    BY WorldFields DEF LedgerTidy, Tidy, ExactOf, Only
  <2>2. HeldBy(n) = Load(Coordinator, n)
    BY CoordinatorFields DEF HeldBy, Load, InHand
  <2> QED BY <2>1, <2>2, CoordinatorFields DEF Busy
<1> QED BY <1>1, AlwaysTidy, PTL

\* A completed job keeps no unanswered task: its map tasks are settled, one of them
\* answered and no reduce task is open, until a node that is at work is given up.
\* This is the half of CompletionJustified about the ledger.
CompletedJobsSettled ==
  Only(Announced \cup {"cancel", "heartbeat"}) =>
    \A j \in Jobs : jobStatus[j] = "completed" => LedgerSettled(j)

\* maybeFinish declares a job completed only when its ledger is settled, and no
\* later hand-out, verdict or node loss opens the ledger again.
THEOREM CompletedWithCause == Spec => []CompletedJobsSettled
<1>1. IInv /\ BInv => CompletedJobsSettled
  <2> SUFFICES ASSUME IInv, LedgerTidy, NEW j \in Jobs, jobStatus[j] = "completed"
               PROVE  LedgerSettled(j)
    BY DEF BInv, Calm, CompletedJobsSettled
  <2>1. \A t \in TasksOf(j) : t \in Tasks /\ JobOf(t) = j
    BY TaskNames
  <2>2. jobStatus[j] # "cancelled" /\ jobStatus[j] \notin Live
    BY DEF Live
  <2>3. \A t \in TasksOf(j) : status[t] \in Settled \cup {"absent"}
    BY <2>1, <2>2, TidyFields
  <2>4. JobTidy(Coordinator, j)
    BY DEF LedgerTidy, Tidy
  <2>5. Succeeded(Coordinator, j) # {}
    BY <2>2, <2>4, CoordinatorFields DEF JobTidy
  <2> QED BY <2>3, <2>5, CoordinatorFields DEF Succeeded, TasksOf, LedgerSettled, Answers
<1> QED BY <1>1, AlwaysTidy, PTL
=============================================================================
